---------------------------- MODULE VSValidation ----------------------------
(***************************************************************************)
(* The structural checks of pkg/apis/configuration/validation/            *)
(* validation.go.  Each Go function returning a field.ErrorList is an     *)
(* operator returning a set of errors [type, field]; a set because the    *)
(* caller only sees ToAggregate(), which reports each error once.  Field  *)
(* paths are tuples such as <<"spec", "routes", 0, "splits">> (indices    *)
(* 0-based, as field.Path.Index prints them).                             *)
(*                                                                         *)
(* Grammar checks on model values (DNS labels, header names, URLs,        *)
(* bodies) are abstracted to membership in BadValues.  Checks on          *)
(* character sequences (paths, condition values) are modelled on the      *)
(* characters.                                                             *)
(***************************************************************************)
EXTENDS VSTypes, StringVariables

CONSTANT BadValues   \* model values that fail the grammar they are checked against

Err(t, fp) == [type |-> t, field |-> fp]
Child(fp, f) == Append(fp, f)
Index(fp, i) == Append(fp, i - 1)
Grammar(x) == x \notin BadValues

validateHost(host, fp) ==
  IF host = "" THEN {Err("Required", fp)}
  ELSE IF Grammar(host) THEN {} ELSE {Err("Invalid", fp)}

validateRedirectStatusCode(code, fp) ==
  IF code \in {301, 302, 307, 308} THEN {} ELSE {Err("Invalid", fp)}

validateDNS1035Label(name, fp) ==
  IF name = "" THEN {Err("Required", fp)}
  ELSE IF Grammar(name) THEN {} ELSE {Err("Invalid", fp)}

\* Mutant: a health check passes in OSS.
rejectPlusResourcesInOSSNoHealthCheck(u, ip, isPlus) ==
  IF isPlus THEN {}
  ELSE (IF u.slowStart /= "" THEN {Err("Forbidden", Child(ip, "slow-start"))} ELSE {})
       \cup (IF u.sessionCookie /= NULL THEN {Err("Forbidden", Child(ip, "sessionCookie"))} ELSE {})
       \cup (IF u.queue /= NULL THEN {Err("Forbidden", Child(ip, "queue"))} ELSE {})

rejectPlusResourcesInOSS(u, ip, isPlus) ==
  IF isPlus THEN {}
  ELSE (IF u.healthCheck /= NULL THEN {Err("Forbidden", Child(ip, "healthCheck"))} ELSE {})
       \cup (IF u.slowStart /= "" THEN {Err("Forbidden", Child(ip, "slow-start"))} ELSE {})
       \cup (IF u.sessionCookie /= NULL THEN {Err("Forbidden", Child(ip, "sessionCookie"))} ELSE {})
       \cup (IF u.queue /= NULL THEN {Err("Forbidden", Child(ip, "queue"))} ELSE {})

\* validateUpstreams: the name set is built by inserting each valid name
\* that is not yet present; a valid name seen before is a Duplicate.
upstreamNames(ups) ==
  {ups[i].name : i \in {k \in DOMAIN ups : validateDNS1035Label(ups[k].name, <<>>) = {}}}

upstreamErrorsAt(ups, fp, isPlus, i) ==
  LET ip == Index(fp, i)
      nameErrs == validateDNS1035Label(ups[i].name, Child(ip, "name"))
  IN  (IF nameErrs /= {} THEN nameErrs
       ELSE IF \E j \in 1..(i - 1) : ups[j].name = ups[i].name
            THEN {Err("Duplicate", Child(ip, "name"))}
            ELSE {})
      \cup validateDNS1035Label(ups[i].service, Child(ip, "service"))
      \cup rejectPlusResourcesInOSS(ups[i], ip, isPlus)

validateUpstreams(ups, fp, isPlus) ==
  UNION {upstreamErrorsAt(ups, fp, isPlus, i) : i \in DOMAIN ups}

\* pathFmt `/[^\s{};]*`
validatePath(p, fp) ==
  IF p = <<>> THEN {Err("Required", fp)}
  ELSE IF p[1] = "/" /\ \A k \in DOMAIN p : p[k] \notin {" ", "{", "}", ";"}
       THEN {} ELSE {Err("Invalid", fp)}

validateRoutePath(p, fp) ==
  IF p = <<>> THEN {Err("Required", fp)}
  ELSE CASE p[1] = "~" -> IF IsEscapedString(p) THEN {} ELSE {Err("Invalid", fp)}
         [] p[1] = "/" -> validatePath(p, fp)
         [] p[1] = "=" -> validatePath(Tail(p), fp)
         [] OTHER      -> {Err("Invalid", fp)}

countActions(a) ==
  (IF a.pass /= "" THEN 1 ELSE 0) + (IF a.redirect /= NULL THEN 1 ELSE 0)
    + (IF a.return /= NULL THEN 1 ELSE 0)

validateReferencedUpstream(name, fp, names) ==
  LET errs == validateDNS1035Label(name, fp)
  IN  IF errs /= {} THEN errs
      ELSE IF name \notin names THEN {Err("NotFound", fp)} ELSE {}

validateActionRedirect(r, fp) ==
  (IF Grammar(r.url) THEN {} ELSE {Err("Invalid", Child(fp, "url"))})
  \cup (IF r.code /= 0 THEN validateRedirectStatusCode(r.code, Child(fp, "code")) ELSE {})

validateActionReturn(r, fp) ==
  IF r.body = "" THEN {Err("Required", Child(fp, "body"))}
  ELSE (IF Grammar(r.body) THEN {} ELSE {Err("Invalid", Child(fp, "body"))})
       \cup (IF r.code = 0 \/ r.code \in (200..299) \cup (400..599) THEN {}
             ELSE {Err("Invalid", Child(fp, "code"))})

validateAction(a, fp, names) ==
  IF countActions(a) /= 1 THEN {Err("Required", fp)}
  ELSE (IF a.pass /= "" THEN validateReferencedUpstream(a.pass, Child(fp, "pass"), names) ELSE {})
       \cup (IF a.redirect /= NULL THEN validateActionRedirect(a.redirect, Child(fp, "redirect")) ELSE {})
       \cup (IF a.return /= NULL THEN validateActionReturn(a.return, Child(fp, "return")) ELSE {})

TotalWeight(splits) == FoldLeft(LAMBDA acc, s : acc + s.weight, 0, splits)

\* Mutant: the weights are not required to add up to 100.
validateSplitsNoSum(splits, fp, names) ==
  IF Len(splits) < 2 THEN {Err("Invalid", fp)}
  ELSE UNION {LET ip == Index(fp, i) IN
                (IF splits[i].weight \in 1..99 THEN {} ELSE {Err("Invalid", Child(ip, "weight"))})
                \cup (IF splits[i].action = NULL THEN {Err("Required", Child(ip, "action"))}
                      ELSE validateAction(splits[i].action, Child(ip, "action"), names))
              : i \in DOMAIN splits}

validateSplits(splits, fp, names) ==
  IF Len(splits) < 2 THEN {Err("Invalid", fp)}
  ELSE UNION {LET ip == Index(fp, i) IN
                (IF splits[i].weight \in 1..99 THEN {} ELSE {Err("Invalid", Child(ip, "weight"))})
                \cup (IF splits[i].action = NULL THEN {Err("Required", Child(ip, "action"))}
                      ELSE validateAction(splits[i].action, Child(ip, "action"), names))
              : i \in DOMAIN splits}
       \cup (IF TotalWeight(splits) /= 100 THEN {Err("Invalid", fp)} ELSE {})

\* validVariableNames: the NGINX variables a condition may name.
ConditionVariables ==
  {<<"$", n>> : n \in {"args", "http2", "https", "remote_addr", "remote_port", "query_string",
                       "request", "request_body", "request_uri", "request_method", "scheme"}}

validateCondition(c, fp) ==
  LET present == {f \in {"header", "cookie", "argument"} : c[f] /= ""}
                 \cup (IF c.variable /= <<>> THEN {"variable"} ELSE {})
  IN  {Err("Invalid", Child(fp, f)) : f \in {g \in present \ {"variable"} : ~Grammar(c[g])}}
      \cup (IF "variable" \in present /\ c.variable \notin ConditionVariables
            THEN {Err("Invalid", Child(fp, "variable"))} ELSE {})
      \cup (IF Cardinality(present) /= 1 THEN {Err("Invalid", fp)} ELSE {})
      \cup (IF IsEscapedString(c.value) THEN {} ELSE {Err("Invalid", Child(fp, "value"))})

validateMatch(m, fp, names) ==
  LET fieldCount == (IF m.action /= NULL THEN 1 ELSE 0) + (IF m.splits /= <<>> THEN 1 ELSE 0)
  IN  (IF m.conditions = <<>> THEN {Err("Required", Child(fp, "conditions"))}
       ELSE UNION {validateCondition(m.conditions[i], Index(Child(fp, "conditions"), i))
                   : i \in DOMAIN m.conditions})
      \cup (IF m.action /= NULL THEN validateAction(m.action, Child(fp, "action"), names) ELSE {})
      \cup (IF m.splits /= <<>> THEN validateSplits(m.splits, Child(fp, "splits"), names) ELSE {})
      \cup (IF fieldCount /= 1 THEN {Err("Invalid", fp)} ELSE {})

\* validateRoute: matches are optional and are not counted; a route field
\* counts unless it is forbidden (inside a VirtualServerRoute).
routeFieldCount(r, forbidden) ==
  (IF r.action /= NULL THEN 1 ELSE 0) + (IF r.splits /= <<>> THEN 1 ELSE 0)
    + (IF r.route /= "" /\ ~forbidden THEN 1 ELSE 0)

validateRoute(r, fp, names, forbidden) ==
  validateRoutePath(r.path, Child(fp, "path"))
  \cup (IF r.action /= NULL THEN validateAction(r.action, Child(fp, "action"), names) ELSE {})
  \cup (IF r.splits /= <<>> THEN validateSplits(r.splits, Child(fp, "splits"), names) ELSE {})
  \cup UNION {validateMatch(r.matches[i], Index(Child(fp, "matches"), i), names)
              : i \in DOMAIN r.matches}
  \cup (IF r.route /= "" /\ forbidden THEN {Err("Forbidden", Child(fp, "route"))} ELSE {})
  \cup (IF routeFieldCount(r, forbidden) /= 1 THEN {Err("Invalid", fp)} ELSE {})

\* validateVirtualServerRoutes: a path is remembered only for a route
\* without errors; a later valid route with that path is a Duplicate.
validateVirtualServerRoutes(routes, fp, names) ==
  LET errs(i) == validateRoute(routes[i], Index(fp, i), names, FALSE)
      seen(i) == {routes[j].path : j \in {k \in 1..(i - 1) : errs(k) = {}}}
  IN  UNION {IF errs(i) /= {} THEN errs(i)
             ELSE IF routes[i].path \in seen(i)
                  THEN {Err("Duplicate", Child(Index(fp, i), "path"))} ELSE {}
             : i \in DOMAIN routes}

validateSecretName(name, fp) ==
  IF name = "" \/ Grammar(name) THEN {} ELSE {Err("Invalid", fp)}

\* Mutant: the redirect code is not checked.
validateTLSRedirectNoCode(redirect, fp) ==
  IF redirect = NULL THEN {}
  ELSE IF redirect.basedOn \notin {"", "scheme", "x-forwarded-proto"}
  THEN {Err("Invalid", Child(fp, "basedOn"))} ELSE {}

validateTLSRedirect(redirect, fp) ==
  IF redirect = NULL THEN {}
  ELSE (IF redirect.code /= NULL THEN validateRedirectStatusCode(redirect.code, Child(fp, "code")) ELSE {})
       \cup (IF redirect.basedOn \notin {"", "scheme", "x-forwarded-proto"}
             THEN {Err("Invalid", Child(fp, "basedOn"))} ELSE {})

validateTLS(tls, fp) ==
  IF tls = NULL THEN {}
  ELSE validateSecretName(tls.secret, Child(fp, "secret"))
       \cup validateTLSRedirect(tls.redirect, Child(fp, "redirect"))

validateVirtualServerSpec(vs, isPlus) ==
  LET fp == <<"spec">>
  IN  validateHost(vs.host, Child(fp, "host"))
      \cup validateTLS(vs.tls, Child(fp, "tls"))
      \cup validateUpstreams(vs.upstreams, Child(fp, "upstreams"), isPlus)
      \cup validateVirtualServerRoutes(vs.routes, Child(fp, "routes"), upstreamNames(vs.upstreams))

validateVirtualServerRouteHost(host, vsHost, fp) ==
  validateHost(host, fp)
  \cup (IF vsHost /= "" /\ host /= vsHost THEN {Err("Invalid", fp)} ELSE {})

isRegexOrExactMatch(p) == p /= <<>> /\ p[1] \in {"~", "="}

validateVirtualServerRouteSubroutes(routes, fp, names, vsPath) ==
  IF isRegexOrExactMatch(vsPath)
  THEN IF Len(routes) /= 1 THEN {Err("Invalid", fp)}
       ELSE IF routes[1].path /= vsPath THEN {Err("Invalid", Child(Index(fp, 1), "path"))}
       ELSE validateRoute(routes[1], Index(fp, 1), names, TRUE)
  ELSE LET errs(i) ==
             validateRoute(routes[i], Index(fp, i), names, TRUE)
             \cup (IF vsPath /= <<>> /\ ~IsPrefix(vsPath, routes[i].path)
                      /\ ~isRegexOrExactMatch(routes[i].path)
                   THEN {Err("Invalid", Index(fp, i))} ELSE {})
           seen(i) == {routes[j].path : j \in {k \in 1..(i - 1) : errs(k) = {}}}
       IN  UNION {IF errs(i) /= {} THEN errs(i)
                  ELSE IF routes[i].path \in seen(i)
                       THEN {Err("Duplicate", Child(Index(fp, i), "path"))} ELSE {}
                  : i \in DOMAIN routes}

validateVirtualServerRouteSpec(vsr, vsHost, vsPath, isPlus) ==
  LET fp == <<"spec">>
  IN  validateVirtualServerRouteHost(vsr.host, vsHost, Child(fp, "host"))
      \cup validateUpstreams(vsr.upstreams, Child(fp, "upstreams"), isPlus)
      \cup validateVirtualServerRouteSubroutes(vsr.subroutes, Child(fp, "subroutes"),
                                               upstreamNames(vsr.upstreams), vsPath)

=============================================================================
