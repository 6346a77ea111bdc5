---------------------------- MODULE UpstreamTuning ----------------------------
(***************************************************************************)
(* The proxy tuning fields of an upstream that the configurator copies    *)
(* into the locations that pass to it: validateNextUpstream,              *)
(* validateSize, validateOffset and validateBuffer of                     *)
(* pkg/apis/configuration/validation/validation.go, and generateString   *)
(* and generateBuffers of internal/configs/virtualserver.go.  Strings are *)
(* sequences of one-character strings, as in StringVariables.             *)
(***************************************************************************)
EXTENDS StatusMatch
LOCAL INSTANCE NameAlgebra

\* The maximal runs of s that hold no character of sep, in order.
RECURSIVE Words(_, _)
Words(s, sep) ==
  LET k == SelectInSeq(s, LAMBDA c : c \in sep)
  IN  CASE s = <<>> -> <<>>
        [] k = 0    -> <<s>>
        [] k = 1    -> Words(Tail(s), sep)
        [] OTHER    -> <<SubSeq(s, 1, k - 1)>> \o Words(SubSeq(s, k + 1, Len(s)), sep)

\* unicode.IsSpace on the ASCII characters that TLA+ strings can write:
\* strings.Fields also splits on form feed (and vertical tab, U+0085, U+00A0).
GoSpace == {" ", "\t", "\n", "\r", "\f"}

Fields(s) == Words(s, GoSpace)

validNextUpstreamParams ==
  {Txt(p) : p \in {"error", "timeout", "invalid_header", "http_500", "http_502",
                   "http_503", "http_504", "http_403", "http_404", "http_429",
                   "non_idempotent", "off", ""}}

\* Every parameter outside the table, and every repeat of a parameter, is
\* one field.Invalid; a blank string has no parameters at all.
validateNextUpstream(nextUpstream) ==
  LET params == Fields(nextUpstream)
  IN  IF nextUpstream = <<>> THEN {}
      ELSE {Invalid(params[i]) : i \in {j \in 1..Len(params) : params[j] \notin validNextUpstreamParams}}
           \cup {Invalid(params[i]) : i \in {j \in 1..Len(params) :
                                               \E k \in 1..j - 1 : params[k] = params[j]}}

\* `^\d+[units]?$`.
NumberWithUnit(s, units) ==
  \/ OneOrMore(Digits, s)
  \/ s /= <<>> /\ Last(s) \in units /\ OneOrMore(Digits, Front(s))

OffsetUnits == {"k", "K", "m", "M", "g", "G"}
SizeUnits == {"k", "K", "m", "M"}

\* offsetFmt `\d+[kKmMgG]?`; an empty offset is not checked.
validateOffset(offset) ==
  IF offset = <<>> \/ NumberWithUnit(offset, OffsetUnits) THEN {} ELSE {Invalid(offset)}

\* Mutant: `\d*` for `\d+`, so a lone unit letter passes.
validateSizeNoDigits(size) ==
  IF size = <<>> \/ NumberWithUnit(size, SizeUnits) \/ size \in {<<u>> : u \in SizeUnits}
  THEN {} ELSE {Invalid(size)}

\* sizeFmt `\d+[kKmM]?`; an empty size is not checked.
validateSize(size) ==
  IF size = <<>> \/ NumberWithUnit(size, SizeUnits) THEN {} ELSE {Invalid(size)}

\* validateBuffer on a non-nil UpstreamBuffers; the number's error is
\* recorded by its field name.
validateBuffer(buff) ==
  (IF buff.number <= 0 THEN {Invalid(Txt("number"))} ELSE {})
  \cup (IF buff.size = <<>> THEN {Required} ELSE validateSize(buff.size))

\* generateString: the field, or the default when it is empty.
generateString(s, defaultS) == IF s = <<>> THEN defaultS ELSE s

\* fmt.Sprintf("%v %v", s.Number, s.Size) for a positive Number.
generateBuffers(buff) == Itoa(buff.number) \o <<" ">> \o buff.size

-----------------------------------------------------------------------------
(***************************************************************************)
(* What NGINX reads from the directive.  Outside quotes ngx_conf_read_token *)
(* separates arguments by space, tab, CR and LF only.  ngx_parse_size     *)
(* takes digits and one of k K m M; ngx_parse_offset also g G.             *)
(* ngx_conf_set_bufs_slot refuses a number or a size of 0, and the proxy  *)
(* module's merge of the location refuses fewer than 2 proxy_buffers.     *)
(* proxy_next_upstream takes one or more of its masks.                     *)
(***************************************************************************)
NginxSpace == {" ", "\t", "\n", "\r"}

NginxArgs(s) == Words(s, NginxSpace)

NginxNextUpstreamMasks ==
  {Txt(p) : p \in {"error", "timeout", "invalid_header", "non_idempotent", "http_500",
                   "http_502", "http_503", "http_504", "http_403", "http_404",
                   "http_429", "updating", "off"}}

NginxNextUpstreamLoads(args) ==
  args /= <<>> /\ \A i \in 1..Len(args) : args[i] \in NginxNextUpstreamMasks

\* The digits of a size, without its unit.
SizeDigits(s) == IF Last(s) \in SizeUnits THEN Front(s) ELSE s

NginxBufsLoad(args) ==
  /\ Len(args) = 2
  /\ OneOrMore(Digits, args[1]) /\ DecimalValue(args[1]) >= 2
  /\ NumberWithUnit(args[2], SizeUnits) /\ DecimalValue(SizeDigits(args[2])) /= 0

=============================================================================
