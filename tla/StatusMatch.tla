----------------------------- MODULE StatusMatch -----------------------------
(***************************************************************************)
(* The statusMatch field of an upstream health check: validateStatusMatch *)
(* and its helpers in pkg/apis/configuration/validation/validation.go,    *)
(* the StatusMatch block that internal/configs/virtualserver.go emits for *)
(* it, and the grammar spec section 4.2 gives it.  Characters are         *)
(* one-character strings; strings.Split and strconv.ParseInt are modelled *)
(* on them.                                                                *)
(***************************************************************************)
EXTENDS StringVariables
LOCAL INSTANCE NameAlgebra

\* strings.Split(str, sep) for a one-character sep: an empty str gives <<"">>.
RECURSIVE Split(_, _)
Split(str, sep) ==
  LET k == IndexOf(str, sep)
  IN  IF k = 0 THEN <<str>>
      ELSE <<SubSeq(str, 1, k - 1)>> \o Split(SubSeq(str, k + 1, Len(str)), sep)

DigitText == Txt("0123456789")
Digits == ToSet(DigitText)

\* Decimal value of a digit string, capped at Huge: ParseInt's range error
\* and the 100..999 check reject every such number alike.
Huge == 10000
DecimalValue(d) ==
  FoldLeft(LAMBDA v, c : IF 10 * v + IndexOf(DigitText, c) - 1 > Huge THEN Huge
                          ELSE 10 * v + IndexOf(DigitText, c) - 1, 0, d)

\* strconv.ParseInt(number, 10, 64): an optional sign, then digits.
validateIntFromString(number) ==
  LET signed == number /= <<>> /\ number[1] \in {"+", "-"}
      body   == IF signed THEN Tail(number) ELSE number
      sign   == IF signed /\ number[1] = "-" THEN -1 ELSE 1
  IN  IF OneOrMore(Digits, body) THEN [value |-> sign * DecimalValue(body), msg |-> ""]
      ELSE [value |-> 0, msg |-> "must be a valid integer"]

\* Mutant: 999 itself is refused.
validateStatusCodeBelow999(status) ==
  LET r == validateIntFromString(status)
  IN  IF r.msg /= "" THEN r.msg
      ELSE IF r.value < 100 \/ r.value >= 999 THEN "must be between 100 and 999" ELSE ""

validateStatusCode(status) ==
  LET r == validateIntFromString(status)
  IN  IF r.msg /= "" THEN r.msg
      ELSE IF r.value < 100 \/ r.value > 999 THEN "must be between 100 and 999" ELSE ""

validateStatusCodeRange(statusRangeStr) ==
  LET statusRange == Split(statusRangeStr, "-")
      min         == validateIntFromString(statusRange[1])
      max         == validateIntFromString(statusRange[2])
  IN  CASE Len(statusRange) /= 2                    -> "ranges must only have 2 numbers"
        [] min.msg /= ""                            -> min.msg
        [] max.msg /= ""                            -> max.msg
        [] validateStatusCode(statusRange[1]) /= "" -> validateStatusCode(statusRange[1])
        [] validateStatusCode(statusRange[2]) /= "" -> validateStatusCode(statusRange[2])
        [] max.value <= min.value                   -> "range limits must be min < max"
        [] OTHER                                    -> ""

validateStatusMatch(str) ==
  LET statuses == Split(str, " ")
      bang     == IF IsPrefix(<<"!">>, str) /\ ~IsPrefix(<<"!", " ">>, str)
                  THEN {"must have an space character after the !"} ELSE {}
      msgOf(i) == LET value == statuses[i] IN
                  CASE value = <<"!">>       -> IF i /= 1 THEN "! can only appear once at the beginning" ELSE ""
                    [] Contains(value, "-") -> validateStatusCodeRange(value)
                    [] OTHER                -> validateStatusCode(value)
  IN  IF str = <<>> THEN {}
      ELSE bang \cup ({msgOf(i) : i \in 1..Len(statuses)} \ {""})

\* generateStatusMatchName: upstreamName + "_match".
generateStatusMatchName(upstreamName) == upstreamName \o Txt("_match")

generateUpstreamStatusMatch(upstreamName, status) ==
  [name |-> generateStatusMatchName(upstreamName), code |-> status]

-----------------------------------------------------------------------------
(***************************************************************************)
(* Specification section 4.2: a status match is an optional "! " and a    *)
(* list of single codes in [100, 999] and ranges lo-hi with lo < hi,     *)
(* separated by single spaces.  A code is written in decimal digits.     *)
(***************************************************************************)
SpecCode(w) == OneOrMore(Digits, w) /\ DecimalValue(w) \in 100..999

SpecItem(w) ==
  \/ SpecCode(w)
  \/ \E k \in 1..Len(w) :
        /\ w[k] = "-"
        /\ SpecCode(SubSeq(w, 1, k - 1))
        /\ SpecCode(SubSeq(w, k + 1, Len(w)))
        /\ DecimalValue(SubSeq(w, 1, k - 1)) < DecimalValue(SubSeq(w, k + 1, Len(w)))

SpecList(w) == \A i \in 1..Len(Split(w, " ")) : SpecItem(Split(w, " ")[i])

SpecStatusMatch(w) ==
  \/ w = <<>>
  \/ SpecList(w)
  \/ IsPrefix(<<"!", " ">>, w) /\ SpecList(SubSeq(w, 3, Len(w)))

=============================================================================
