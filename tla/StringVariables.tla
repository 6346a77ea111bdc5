--------------------------- MODULE StringVariables ---------------------------
(***************************************************************************)
(* The string grammars of pkg/apis/configuration/validation/validation.go *)
(* that guard what the configurator later writes between double quotes   *)
(* into nginx.conf: the escaped-string grammar, and the check that every  *)
(* NGINX variable of a redirect URL or a return body is written ${name}   *)
(* and named in a whitelist or a prefixed family.  A string is the        *)
(* sequence of its one-character strings (Txt), so that the regular       *)
(* expressions and the strings.* calls are modelled by what they do.      *)
(*                                                                         *)
(* An error list is a set of [type, value] records: the callers only test *)
(* it for emptiness or aggregate it.                                       *)
(***************************************************************************)
EXTENDS SequencesExt, FiniteSets
LOCAL INSTANCE NameAlgebra

Required == [type |-> "Required", value |-> <<>>]
Invalid(v) == [type |-> "Invalid", value |-> v]

\* escapedStringsFmt `([^"\\]|\\.)*`: every '"' is escaped, no lone trailing '\'.
RECURSIVE IsEscapedString(_)
IsEscapedString(s) ==
  \/ s = <<>>
  \/ /\ s[1] = "\\"
     /\ Len(s) >= 2
     /\ IsEscapedString(SubSeq(s, 3, Len(s)))
  \/ /\ s[1] \notin {"\\", "\""}
     /\ IsEscapedString(Tail(s))

\* Index of the first occurrence of character c in s, 0 if there is none.
IndexOf(s, c) == SelectInSeq(s, LAMBDA x : x = c)

Alnum == ToSet(Txt("ABCDEFGHIJKLMNOPQRSTUVWXYZabcdefghijklmnopqrstuvwxyz0123456789"))

\* `^[C]+$` for a character class C.
OneOrMore(C, s) == s /= <<>> /\ \A i \in 1..Len(s) : s[i] \in C

\* cookieNameFmt and argumentNameFmt, both "[_A-Za-z0-9]+".
isCookieName(value) == OneOrMore(Alnum \cup {"_"}, value)
isArgumentName(value) == OneOrMore(Alnum \cup {"_"}, value)

\* k8s.io/apimachinery validation.IsHTTPHeaderName: "[-A-Za-z0-9]+".
IsHTTPHeaderName(value) == OneOrMore(Alnum \cup {"-"}, value)

\* Underscores in $http_ variables stand for '-'; a '-' itself is refused.
isValidSpecialVariableHeader(header) ==
  IsHTTPHeaderName(ReplaceAll(header, "_", "-")) /\ ~Contains(header, "-")

\* strings.SplitN(nVar, "_", 2) and the switch on its first part.
validateSpecialVariable(nVar) ==
  LET k     == IndexOf(nVar, "_")
      kind  == SubSeq(nVar, 1, k - 1)
      name  == SubSeq(nVar, k + 1, Len(nVar))
      valid == CASE kind = Txt("arg")    -> isArgumentName(name)
                 [] kind = Txt("http")   -> isValidSpecialVariableHeader(name)
                 [] kind = Txt("cookie") -> isCookieName(name)
                 [] OTHER                -> TRUE
  IN  IF valid THEN {} ELSE {Invalid(nVar)}

validateVariable(nVar, validVars) ==
  IF nVar \in validVars THEN {} ELSE {Invalid(nVar)}

\* nginxVariableRegexp `\$\{([^}]*)\}` with FindAllStringSubmatch: the
\* leftmost "${" that some '}' follows, up to the first such '}', then on
\* after it.  The captured name may itself hold '$' and '{'.
RECURSIVE captureVariables(_)
captureVariables(s) ==
  LET close == IndexOf(s, "}")
  IN  IF Len(s) < 3 THEN <<>>
      ELSE IF s[1] = "$" /\ s[2] = "{" /\ close > 2
           THEN <<SubSeq(s, 3, close - 1)>> \o captureVariables(SubSeq(s, close + 1, Len(s)))
           ELSE captureVariables(Tail(s))

\* Mutant: the search for a closing '}' is dropped.
BadDollarNoClose(str) ==
  \E i \in 1..Len(str) - 1 : str[i] = "$" /\ str[i + 1] /= "{"

\* The loop over the runes of str: a '$' not followed by '{', or with no
\* '}' anywhere after it, is refused.
BadDollar(str) ==
  \E i \in 1..Len(str) - 1 :
     /\ str[i] = "$"
     /\ \/ str[i + 1] /= "{"
        \/ ~Contains(SubSeq(str, i + 1, Len(str)), "}")

validateStringWithVariables(str, validVars, specialVars) ==
  IF IsSuffix(<<"$">>, str) THEN {Invalid(str)}
  ELSE IF BadDollar(str) THEN {Invalid(str)}
  ELSE UNION {IF \E sv \in specialVars : IsPrefix(sv, nVar)
              THEN validateSpecialVariable(nVar)
              ELSE validateVariable(nVar, validVars) : nVar \in ToSet(captureVariables(str))}

validRedirectVariableNames ==
  {Txt("scheme"), Txt("http_x_forwarded_proto"), Txt("request_uri"), Txt("host")}

returnBodyVariables ==
  {Txt(v) : v \in {"request_uri", "request_method", "request_body", "scheme", "args",
                   "host", "request_time", "request_length", "nginx_version", "pid",
                   "connection", "remote_addr", "remote_port", "time_iso8601",
                   "time_local", "server_addr", "server_port", "server_name",
                   "server_protocol", "connections_active", "connections_reading",
                   "connections_writing", "connections_waiting"}}

returnBodySpecialVariables == {Txt("arg_"), Txt("http_"), Txt("cookie_")}

validateRedirectURL(redirectURL) ==
  IF redirectURL = <<>> THEN {Required}
  ELSE IF ~IsEscapedString(redirectURL) THEN {Invalid(redirectURL)}
  ELSE validateStringWithVariables(redirectURL, validRedirectVariableNames, {})

\* The escaped-string error does not stop the variable check here.
validateActionReturnBody(body) ==
  (IF IsEscapedString(body) THEN {} ELSE {Invalid(body)})
  \cup validateStringWithVariables(body, returnBodyVariables, returnBodySpecialVariables)

=============================================================================
