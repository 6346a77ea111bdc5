-------------------------- MODULE MCValidatorStrings --------------------------
(***************************************************************************)
(* Instance of ValidatorStrings over every string of a bounded number of  *)
(* tokens.  URL and body tokens are the pieces whose order the variable   *)
(* checks are about: '$', the braces, the escape character and a double   *)
(* quote, a whitelisted name, the three family prefixes, a name with '-'  *)
(* and a one-letter name.  Status-match tokens are the negation, the      *)
(* separators, a sign, the bounds 100 and 999, their neighbours 1000 and  *)
(* 0 (which also makes a leading zero), and 200.  Tuning tokens are a    *)
(* zero and a number, size units inside and outside sizeFmt, a blank, a   *)
(* form feed and next-upstream parameters.                                *)
(***************************************************************************)
EXTENDS ValidatorStrings

\* Tokens per url or body, and per status match.
MaxActionTokens == 4
MaxStatusMatchTokens == 5

ActionTokens == {"$", "{", "}", "${", "host", "http_", "arg_", "cookie_", "a-b", "t", "\\", "\""}

StatusMatchTokens == {"! ", "!", " ", "-", "+", "0", "100", "200", "999", "1000"}

Strings(tokens, n) == {FlattenSeq([i \in 1..Len(w) |-> Txt(w[i])]) : w \in BoundedSeq(tokens, n)}

MCActionInputs == Strings(ActionTokens, MaxActionTokens)

MCStatusMatchInputs == Strings(StatusMatchTokens, MaxStatusMatchTokens)

\* Status matches of up to three tokens, for the run that looks for a
\* generated block outside the grammar.
ShortStatusMatchInputs == Strings(StatusMatchTokens, 3)

MCUpstreamName == Txt("vs_default_cafe_tea")

MaxTuningTokens == 3

TuningTokens == {"0", "16", "k", "g", " ", "\f", "error", "timeout"}

MCTuningInputs == Strings(TuningTokens, MaxTuningTokens)

\* Next-upstream strings of one or two parameters and separators.
NextUpstreamInputs == Strings({" ", "\f", "error", "timeout"}, 2)

MCBufferNumbers == {-1, 0, 1, 2}

\* Buffer sizes of one or two tokens.
BufferSizeInputs == Strings({"0", "16", "k"}, 2)

MCFleetDefaults ==
  [f \in TuningFields |-> CASE f = "bufferSize"        -> Txt("4k")
                           [] f = "clientMaxBodySize" -> Txt("1m")
                           [] f = "buffers"           -> Txt("8 4k")
                           [] OTHER                   -> Txt("error timeout")]

=============================================================================
