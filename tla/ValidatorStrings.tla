--------------------------- MODULE ValidatorStrings ---------------------------
(***************************************************************************)
(* Three strings of a VirtualServer that the configurator copies verbatim *)
(* into nginx.conf, and the validator calls that guard them:              *)
(*   - the url of an ActionRedirect and the body of an ActionReturn,      *)
(*     written as a double-quoted argument of `return`, whose `$`         *)
(*     variables NGINX compiles (ngx_conf_read_token, then                *)
(*     ngx_http_script_compile);                                          *)
(*   - the statusMatch of an upstream health check, written as the        *)
(*     StatusMatch block of the upstream.                                 *)
(*   - the proxy tuning fields of an upstream (next-upstream, buffer     *)
(*     size, client max body size, buffers), written unquoted as the       *)
(*     arguments of proxy_next_upstream, proxy_buffer_size,                *)
(*     client_max_body_size and proxy_buffers in every location that       *)
(*     passes to the upstream.                                             *)
(* One behaviour is one call of the validator on one string, followed,   *)
(* for an accepted status match or tuning field, by its generation.       *)
(***************************************************************************)
EXTENDS UpstreamTuning, NameAlgebra

CONSTANTS ActionInputs,       \* urls and bodies offered, as character sequences
          StatusMatchInputs,  \* status matches offered
          UpstreamName,       \* the upstream whose health check has the status match
          TuningInputs,       \* tuning strings offered
          BufferNumbers,      \* UpstreamBuffers.Number values offered
          FleetDefaults       \* the ConfigMap's text for each tuning field

TuningFields == {"nextUpstream", "bufferSize", "clientMaxBodySize", "buffers"}

VARIABLES field,        \* "url", "body", "statusMatch" or a tuning field
          str,          \* the string in that field
          number,       \* the Number of the upstream's buffers
          checked,      \* the validator has run
          errors,       \* its ErrorList
          statusMatch,  \* the emitted version2.StatusMatch, or NULL
          location      \* the emitted argument text of the tuning directive; <<>> before
                        \* generation, which never writes an empty text

vars == <<field, str, number, checked, errors, statusMatch, location>>

NULL == [none |-> TRUE]

Init ==
  /\ field \in {"url", "body", "statusMatch"} \cup TuningFields
  /\ str \in CASE field = "statusMatch" -> StatusMatchInputs
              [] field \in TuningFields -> TuningInputs
              [] OTHER                  -> ActionInputs
  /\ number \in IF field = "buffers" THEN BufferNumbers ELSE {0}
  /\ checked = FALSE
  /\ errors = {}
  /\ statusMatch = NULL
  /\ location = <<>>

\* validateActionRedirect: the URL part (the code is checked elsewhere).
ValidateActionRedirect ==
  /\ field = "url"
  /\ ~checked
  /\ checked' = TRUE
  /\ errors' = validateRedirectURL(str)
  /\ UNCHANGED <<field, str, number, statusMatch, location>>

\* validateActionReturn: an empty body is Required and nothing else is
\* checked; otherwise validateActionReturnBody.
ValidateActionReturn ==
  /\ field = "body"
  /\ ~checked
  /\ checked' = TRUE
  /\ errors' = IF str = <<>> THEN {Required} ELSE validateActionReturnBody(str)
  /\ UNCHANGED <<field, str, number, statusMatch, location>>

\* validateUpstreamHealthCheck, the statusMatch part: each message becomes
\* field.Invalid(fieldPath, s, msg).
ValidateStatusMatch ==
  /\ field = "statusMatch"
  /\ ~checked
  /\ checked' = TRUE
  /\ errors' = {Invalid(str) : msg \in validateStatusMatch(str)}
  /\ UNCHANGED <<field, str, number, statusMatch, location>>

\* GenerateVirtualServerConfig, for a valid VirtualServer whose upstream has
\* an enabled health check with a non-empty statusMatch.
GenerateStatusMatch ==
  /\ field = "statusMatch"
  /\ checked /\ errors = {}
  /\ str /= <<>>
  /\ statusMatch = NULL
  /\ statusMatch' = generateUpstreamStatusMatch(UpstreamName, str)
  /\ UNCHANGED <<field, str, number, checked, errors, location>>

\* validateUpstreams, the tuning calls: each field through its own check.
ValidateUpstreamTuning ==
  /\ field \in TuningFields
  /\ ~checked
  /\ checked' = TRUE
  /\ errors' = CASE field = "nextUpstream"      -> validateNextUpstream(str)
                [] field = "bufferSize"        -> validateSize(str)
                [] field = "clientMaxBodySize" -> validateOffset(str)
                [] field = "buffers"           -> validateBuffer([number |-> number, size |-> str])
  /\ UNCHANGED <<field, str, number, statusMatch, location>>

\* generateLocationForProxying, the tuning fields of a valid upstream: the
\* field or its default, verbatim.
GenerateLocationForProxying ==
  /\ field \in TuningFields
  /\ checked /\ errors = {}
  /\ location = <<>>
  /\ location' = CASE field = "nextUpstream" -> generateString(str, Txt("error timeout"))
                  [] field = "buffers"      -> generateBuffers([number |-> number, size |-> str])
                  [] OTHER                  -> generateString(str, FleetDefaults[field])
  /\ UNCHANGED <<field, str, number, checked, errors, statusMatch>>

Next ==
  \/ ValidateActionRedirect
  \/ ValidateActionReturn
  \/ ValidateStatusMatch
  \/ GenerateStatusMatch
  \/ ValidateUpstreamTuning
  \/ GenerateLocationForProxying

Spec == Init /\ [][Next]_vars

-----------------------------------------------------------------------------
(***************************************************************************)
(* What NGINX does with the string.  The template writes it verbatim     *)
(* between double quotes.  Inside the quotes ngx_conf_read_token drops    *)
(* the backslash of \" \' \\, turns \t \r \n into control characters and  *)
(* keeps any other backslash.  ngx_http_script_compile then reads each    *)
(* '$': "${" opens a name that must be closed by '}' right after its      *)
(* last [A-Za-z0-9_] character, a bare '$' takes the longest run of such  *)
(* characters, and an empty name is "invalid variable name".  A failed    *)
(* compile is recorded as the name "!error".                               *)
(***************************************************************************)
CompileError == <<"!error">>

RECURSIVE ConfUnquote(_)
ConfUnquote(s) ==
  IF s = <<>> THEN <<>>
  ELSE IF s[1] = "\\" /\ Len(s) >= 2
  THEN (CASE s[2] \in {"\"", "'", "\\"} -> <<s[2]>>
          [] s[2] \in {"t", "r", "n"}   -> <<"ctl">>
          [] OTHER                      -> <<s[1], s[2]>>)
       \o ConfUnquote(SubSeq(s, 3, Len(s)))
  ELSE <<s[1]>> \o ConfUnquote(Tail(s))

NameChars == Alnum \cup {"_"}

\* Length of the run of name characters that starts s.
NameRun(s) ==
  LET stop == SelectInSeq(s, LAMBDA c : c \notin NameChars)
  IN  IF stop = 0 THEN Len(s) ELSE stop - 1

RECURSIVE ScriptVariables(_)
ScriptVariables(s) ==
  LET d == IndexOf(s, "$")
      r == SubSeq(s, d + 1, Len(s))
      b == Tail(r)
  IN  CASE d = 0 -> {}
        [] r = <<>> -> {CompileError}
        [] r[1] = "{" ->
             IF NameRun(b) = 0 \/ NameRun(b) = Len(b) \/ b[NameRun(b) + 1] /= "}"
             THEN {CompileError}
             ELSE {SubSeq(b, 1, NameRun(b))} \cup ScriptVariables(SubSeq(b, NameRun(b) + 2, Len(b)))
        [] NameRun(r) = 0 -> {CompileError}
        [] OTHER -> {SubSeq(r, 1, NameRun(r))} \cup ScriptVariables(SubSeq(r, NameRun(r) + 1, Len(r)))

\* Specification section 4.2: redirect URLs use only their four variables;
\* return bodies use their closed set or arg_*, http_*, cookie_* with a
\* non-empty name.
Permitted(f, v) ==
  IF f = "url" THEN v \in validRedirectVariableNames
  ELSE \/ v \in returnBodyVariables
       \/ \E p \in returnBodySpecialVariables : IsStrictPrefix(p, v)

-----------------------------------------------------------------------------
TypeOK ==
  /\ field \in {"url", "body", "statusMatch"} \cup TuningFields
  /\ \A i \in DOMAIN location : location[i] \in STRING
  /\ checked \in BOOLEAN
  /\ \A e \in errors : e.type \in {"Required", "Invalid"}
  /\ statusMatch = NULL \/ statusMatch.name = generateStatusMatchName(UpstreamName)

\* Every URL or body the validator accepts compiles in NGINX, and every
\* variable it compiles to is one the specification permits for that field:
\* the rune loop of validateStringWithVariables, the capture regexp and the
\* special-variable checks together must leave no way to smuggle a '$'.
AcceptedStringsCompile ==
  field \in {"url", "body"} /\ checked /\ errors = {} =>
    \A v \in ScriptVariables(ConfUnquote(str)) : v /= CompileError /\ Permitted(field, v)

\* Every status match the specification's grammar allows passes
\* validateStatusMatch: the "!" token, the '-' split and the 100..999
\* bounds of the Go code must not refuse a legal string.
SpecStatusMatchesAccepted ==
  field = "statusMatch" /\ checked /\ SpecStatusMatch(str) => errors = {}

\* Every StatusMatch block the configurator emits is in the specification's
\* grammar: generateUpstreamStatusMatch copies the string verbatim, so the
\* validator's ParseInt-based checks are all that stand in front of NGINX.
EmittedStatusMatchInGrammar ==
  statusMatch /= NULL => SpecStatusMatch(statusMatch.code)

\* Every buffer size and client max body size the validator accepts is
\* read by NGINX's parser: sizeFmt and offsetFmt must refuse every text
\* ngx_parse_size and ngx_parse_offset refuse, since
\* generateLocationForProxying writes the field verbatim.
AcceptedSizesLoad ==
  location /= <<>> /\ str /= <<>> =>
    CASE field = "bufferSize"        -> NumberWithUnit(location, SizeUnits)
      [] field = "clientMaxBodySize" -> NumberWithUnit(location, OffsetUnits)
      [] OTHER                       -> TRUE

EmittedNextUpstreamLoads ==
  location /= <<>> /\ field = "nextUpstream" => NginxNextUpstreamLoads(NginxArgs(location))

=============================================================================
