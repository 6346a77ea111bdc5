----------------------------- MODULE NameAlgebra -----------------------------
(***************************************************************************)
(* The upstream and variable namers of internal/configs/virtualserver.go  *)
(* at the level of characters.  A string is the sequence of its           *)
(* one-character strings, so that fmt.Sprintf, strings.ReplaceAll and the *)
(* "%d" formatting of an index are modelled by what they do, and two      *)
(* names are equal exactly when NGINX would read the same identifier.     *)
(***************************************************************************)
EXTENDS Integers, SequencesExt

\* The characters of a Go string literal.
Txt(s) == [i \in 1..Len(s) |-> SubSeq(s, i, i)]

DigitChar(d) == SubSeq("0123456789", d + 1, d + 1)

\* fmt's "%d" of a natural number.
RECURSIVE Itoa(_)
Itoa(n) == IF n < 10 THEN <<DigitChar(n)>> ELSE Itoa(n \div 10) \o <<DigitChar(n % 10)>>

\* fmt.Sprintf("vs_%s_%s", virtualServer.Namespace, virtualServer.Name)
newUpstreamNamerForVirtualServer(vs) == Txt("vs_") \o vs.namespace \o Txt("_") \o vs.name

\* Mutant: the namespace of the VSR is left out of the prefix.
newUpstreamNamerForVirtualServerRouteNoNamespace(vs, vsr) ==
  newUpstreamNamerForVirtualServer(vs) \o Txt("_vsr_") \o vsr.name

\* fmt.Sprintf("vs_%s_%s_vsr_%s_%s", vs.Namespace, vs.Name, vsr.Namespace, vsr.Name)
newUpstreamNamerForVirtualServerRoute(vs, vsr) ==
  newUpstreamNamerForVirtualServer(vs) \o Txt("_vsr_") \o vsr.namespace \o Txt("_") \o vsr.name

GetNameForUpstream(prefix, upstream) == prefix \o Txt("_") \o upstream

\* safeNsName: "<namespace>_<name>" with every '-' replaced by '_'.
newVariableNamer(vs) == ReplaceAll(vs.namespace \o Txt("_") \o vs.name, "-", "_")

GetNameForSplitClientVariable(safeNsName, index) ==
  Txt("$vs_") \o safeNsName \o Txt("_splits_") \o Itoa(index)

GetNameForVariableForMatchesRouteMap(safeNsName, matchesIndex, matchIndex, conditionIndex) ==
  Txt("$vs_") \o safeNsName \o Txt("_matches_") \o Itoa(matchesIndex) \o Txt("_match_")
  \o Itoa(matchIndex) \o Txt("_cond_") \o Itoa(conditionIndex)

GetNameForVariableForMatchesRouteMainMap(safeNsName, matchesIndex) ==
  Txt("$vs_") \o safeNsName \o Txt("_matches_") \o Itoa(matchesIndex)

=============================================================================
