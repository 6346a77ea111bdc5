--------------------- MODULE VirtualServerConfigurator ---------------------
(***************************************************************************)
(* GenerateVirtualServerConfig of internal/configs/virtualserver.go, one  *)
(* step per iteration of its loops, behind the validation the controller  *)
(* runs before calling it.                                                 *)
(*                                                                         *)
(* The compiled VirtualServerEx is chosen in Init from Inputs.  The       *)
(* upstream loops (VS upstreams, then each VSR's upstreams) and the route *)
(* loops (VS routes, then each VSR's subroutes) are flattened into work   *)
(* lists of <<owner, index>> pairs in the order the nested loops visit    *)
(* them; owner 0 is the VirtualServer, owner k the k-th VirtualServerRoute. *)
(*                                                                         *)
(* Identifiers keep their structure instead of their characters:          *)
(*   upstream name   <<"vs", ns, name, ("vsr", ns', name',) u>>           *)
(*   variables       <<"$", "splits", i>>, <<"$", "matches", m>>, ...     *)
(*   named locations <<"@", "splits", s, "split", j>>, ...                *)
(* Every generated upstream carries a ghost field origin = <<owner, u>>,  *)
(* the upstream of the resource it was generated from.                    *)
(***************************************************************************)
EXTENDS VSValidation, NginxMaps, RouteSemantics, TLC

CONSTANTS
  Inputs,            \* the VirtualServerEx values the controller may pass
  DefaultLBMethod,   \* cfgParams.LBMethod
  ReqValues,         \* values a request attribute may have, for the properties
  Buckets            \* split_clients percentile buckets, for the properties

VARIABLES
  vsx,               \* the VirtualServerEx being compiled (with isPlus, isResolverConfigured)
  pc,                \* "validate", "upstreams", "routes", "done" or "rejected"
  pos,               \* position in the current work list
  upstreams,         \* []version2.Upstream
  crUpstreams,       \* map[string]conf_v1.Upstream: upstream name -> Upstream
  healthChecks,      \* []version2.HealthCheck
  statusMatches,     \* []version2.StatusMatch
  locations,         \* []version2.Location
  internalRedirectLocations,
  splitClients,      \* []version2.SplitClient
  maps,              \* []version2.Map
  matchesRoutes,     \* the matches-route counter
  warnings           \* Warnings: owner -> messages

vars == <<vsx, pc, pos, upstreams, crUpstreams, healthChecks, statusMatches, locations, internalRedirectLocations,
          splitClients, maps, matchesRoutes, warnings>>

-----------------------------------------------------------------------------
(* Name algebra *)

nginx502Server == "unix:/var/lib/nginx/nginx-502-server.sock"

newUpstreamNamerForVirtualServer(vs) == <<"vs", vs.namespace, vs.name>>

newUpstreamNamerForVirtualServerRoute(vs, vsr) ==
  <<"vs", vs.namespace, vs.name, "vsr", vsr.namespace, vsr.name>>

GetNameForUpstream(prefix, u) == Append(prefix, u)

GetNameForSplitClientVariable(i) == <<"$", "splits", i>>
GetNameForVariableForMatchesRouteMap(m, k, c) == <<"$", "matches", m, "match", k, "cond", c>>
GetNameForVariableForMatchesRouteMainMap(m) == <<"$", "matches", m>>

SplitLocation(s, j) == <<"@", "splits", s, "split", j>>
MatchLocation(m, k) == <<"@", "matches", m, "match", k>>
DefaultLocation(m)  == <<"@", "matches", m, "default">>

-----------------------------------------------------------------------------
(* The resources of one owner *)

OwnerNamespace(x, o) == IF o = 0 THEN x.vs.namespace ELSE x.vsrs[o].namespace
OwnerUpstreams(x, o) == IF o = 0 THEN x.vs.upstreams ELSE x.vsrs[o].upstreams
OwnerRoutes(x, o)    == IF o = 0 THEN x.vs.routes ELSE x.vsrs[o].subroutes
OwnerNamer(x, o) ==
  IF o = 0 THEN newUpstreamNamerForVirtualServer(x.vs)
  ELSE newUpstreamNamerForVirtualServerRoute(x.vs, x.vsrs[o])

\* The order in which the nested for-loops visit <<owner, index>>.
LoopOrder(x, Items(_, _)) ==
  [i \in DOMAIN Items(x, 0) |-> <<0, i>>]
  \o FlattenSeq([k \in DOMAIN x.vsrs |-> [i \in DOMAIN Items(x, k) |-> <<k, i>>]])

UpstreamWork(x) == LoopOrder(x, OwnerUpstreams)
RouteWork(x)    == LoopOrder(x, OwnerRoutes)

\* The path of the VS route that delegates to the k-th VSR.
ParentPath(x, k) ==
  LET rs == {i \in DOMAIN x.vs.routes : x.vs.routes[i].route = x.vsrs[k].namespace \o "/" \o x.vsrs[k].name}
  IN  IF rs = {} THEN <<>> ELSE x.vs.routes[Min(rs)].path

-----------------------------------------------------------------------------
(* Upstreams *)

\* generateEndpointsForUpstream: the endpoints and the warnings it adds.
generateEndpointsForUpstream(x, ns, u) ==
  LET endpoints == x.endpoints[<<ns, u.service>>]
  IN  IF ~x.isPlus /\ endpoints = <<>>
      THEN [endpoints |-> <<nginx502Server>>, warnings |-> <<>>]
      ELSE IF <<ns, u.service>> \in x.externalNameSvcs /\ ~x.isResolverConfigured
      THEN [endpoints |-> <<>>, warnings |-> <<[kind |-> "externalName", upstream |-> u.name]>>]
      ELSE [endpoints |-> endpoints, warnings |-> <<>>]

generateLBMethod(method, defaultMethod) ==
  IF method = "" THEN defaultMethod ELSE IF method = "round_robin" THEN "" ELSE method

IncompatibleLBMethodsForSlowStart ==
  {"random", "ip_hash", "random two", "random two least_conn",
   "random two least_time=header", "random two least_time=last_byte"}

\* generateSlowStartForPlus: the slow start kept and the warnings it adds.
generateSlowStartForPlus(u, lbMethod) ==
  IF u.slowStart = "" THEN [slowStart |-> "", warnings |-> <<>>]
  ELSE IF lbMethod \in IncompatibleLBMethodsForSlowStart
          \/ (Len(lbMethod) >= 4 /\ SubSeq(lbMethod, 1, 4) = "hash")
  THEN [slowStart |-> "", warnings |-> <<[kind |-> "slowStart", upstream |-> u.name]>>]
  ELSE [slowStart |-> u.slowStart, warnings |-> <<>>]

generateProxyPassProtocol(enableTLS) == IF enableTLS THEN "https" ELSE "http"

generateString(str, defaultStr) == IF str = "" THEN defaultStr ELSE str

generateQueueForPlus(q, defaultTimeout) ==
  IF q = NULL THEN NULL ELSE [size |-> q.size, timeout |-> generateString(q.timeout, defaultTimeout)]

generateSessionCookie(sc) == IF sc = NULL \/ ~sc.enable THEN NULL ELSE sc

generateStatusMatchName(upstreamName) == Append(upstreamName, "_match")

\* generateHealthCheck: nil unless the health check is enabled.
generateHealthCheck(u, upstreamName) ==
  IF u.healthCheck = NULL \/ ~u.healthCheck.enable THEN NULL
  ELSE [name |-> upstreamName,
        proxyPass |-> <<generateProxyPassProtocol(IF u.healthCheck.tls /= NULL
                                                  THEN u.healthCheck.tls ELSE u.tls),
                        upstreamName>>,
        match |-> IF u.healthCheck.statusMatch /= ""
                  THEN generateStatusMatchName(upstreamName) ELSE ""]

generateUpstreamStatusMatch(upstreamName, status) ==
  [name |-> generateStatusMatchName(upstreamName), code |-> status]

\* The health check and status match appended after an upstream.
HealthCheckBlocks(u, upstreamName) ==
  LET hc == generateHealthCheck(u, upstreamName)
  IN  IF hc = NULL THEN [healthChecks |-> <<>>, statusMatches |-> <<>>]
      ELSE [healthChecks |-> <<hc>>,
            statusMatches |-> IF u.healthCheck.statusMatch /= ""
                              THEN <<generateUpstreamStatusMatch(upstreamName, u.healthCheck.statusMatch)>>
                              ELSE <<>>]

generateUpstream(x, o, upstreamName, u, isExternalNameSvc, endpoints) ==
  LET lbMethod == generateLBMethod(u.lbMethod, DefaultLBMethod)
      ss == IF x.isPlus THEN generateSlowStartForPlus(u, lbMethod)
            ELSE [slowStart |-> "", warnings |-> <<>>]
  IN  [ups |-> [name |-> upstreamName, servers |-> endpoints,
                resolve |-> isExternalNameSvc, lbMethod |-> lbMethod,
                slowStart |-> ss.slowStart,
                queue |-> IF x.isPlus THEN generateQueueForPlus(u.queue, "60s") ELSE NULL,
                sessionCookie |-> IF x.isPlus THEN generateSessionCookie(u.sessionCookie) ELSE NULL,
                origin |-> <<o, u.name>>],
       warnings |-> ss.warnings]

\* addWarningf, once per message, on the map keyed by the owning object.
addWarnings(w, o, msgs) ==
  IF msgs = <<>> THEN w
  ELSE IF o \in DOMAIN w THEN [w EXCEPT ![o] = @ \o msgs]
  ELSE w @@ (o :> msgs)

-----------------------------------------------------------------------------
(* Locations *)

\* generatePath: the pattern of a regex path is put in double quotes.
TrimLeadingSpace(s) == IF s /= <<>> /\ s[1] = " " THEN Tail(s) ELSE s

generatePath(path) ==
  IF Len(path) >= 2 /\ path[1] = "~" /\ path[2] = "*"
  THEN <<"~", "*", " ", Quote>> \o TrimLeadingSpace(SubSeq(path, 3, Len(path))) \o <<Quote>>
  ELSE IF path /= <<>> /\ path[1] = "~"
  THEN <<"~", " ", Quote>> \o TrimLeadingSpace(Tail(path)) \o <<Quote>>
  ELSE path

generateReturnBlock(text, code, defaultCode) ==
  [code |-> IF code /= 0 THEN code ELSE defaultCode, text |-> text]

\* The TLS flag of crUpstreams[name]; a missing key reads the zero Upstream.
UpstreamTLS(crUps, name) == IF name \in DOMAIN crUps THEN crUps[name].tls ELSE FALSE

\* Mutant: a redirect location keeps the proxy_pass of the action's upstream.
generateLocationRedirectProxies(path, upstreamName, crUps, action) ==
  IF action.redirect /= NULL
  THEN [path |-> path,
        proxyPass |-> <<generateProxyPassProtocol(UpstreamTLS(crUps, upstreamName)), upstreamName>>,
        return |-> generateReturnBlock(action.redirect.url, action.redirect.code, 301)]
  ELSE IF action.return /= NULL
  THEN [path |-> path, proxyPass |-> NULL,
        return |-> generateReturnBlock(action.return.body, action.return.code, 200)]
  ELSE [path |-> generatePath(path), return |-> NULL,
        proxyPass |-> <<generateProxyPassProtocol(UpstreamTLS(crUps, upstreamName)), upstreamName>>]

generateLocation(path, upstreamName, crUps, action) ==
  IF action.redirect /= NULL
  THEN [path |-> path, proxyPass |-> NULL,
        return |-> generateReturnBlock(action.redirect.url, action.redirect.code, 301)]
  ELSE IF action.return /= NULL
  THEN [path |-> path, proxyPass |-> NULL,
        return |-> generateReturnBlock(action.return.body, action.return.code, 200)]
  ELSE [path |-> generatePath(path), return |-> NULL,
        proxyPass |-> <<generateProxyPassProtocol(UpstreamTLS(crUps, upstreamName)), upstreamName>>]

\* The location of an action of the owner whose upstream namer is prefix.
ActionLocation(path, prefix, crUps, action) ==
  generateLocation(path, GetNameForUpstream(prefix, action.pass), crUps, action)

-----------------------------------------------------------------------------
(* Routing: split clients and matches *)

\* Weight: fmt.Sprintf("%d%%", s.Weight).
FormatPercent(w) == <<w, "%">>

generateSplits(splits, prefix, crUps, scIndex) ==
  [splitClient |->
     [source |-> "$request_id",
      variable |-> GetNameForSplitClientVariable(scIndex),
      distributions |-> [i \in DOMAIN splits |->
                           [weight |-> FormatPercent(splits[i].weight),
                            value |-> SplitLocation(scIndex, i - 1)]]],
   locations |-> [i \in DOMAIN splits |->
                    ActionLocation(SplitLocation(scIndex, i - 1), prefix, crUps, splits[i].action)]]

generateDefaultSplitsConfig(route, prefix, crUps, scIndex) ==
  LET sc == generateSplits(route.splits, prefix, crUps, scIndex)
  IN  [maps |-> <<>>, splitClients |-> <<sc.splitClient>>, locations |-> sc.locations,
       internalRedirectLocation |-> [path |-> route.path,
                                     destination |-> GetNameForSplitClientVariable(scIndex)]]

SpecialMapParameters == {<<"default">>, <<"hostnames">>, <<"include">>, <<"volatile">>}

\* Mutant: the special map words are quoted like any other value.
generateValueForMatchesRouteMapNoEscape(matchedValue) ==
  IF matchedValue = <<>> THEN [value |-> <<Quote, Quote>>, isNegative |-> FALSE]
  ELSE LET isNegative == matchedValue[1] = "!"
           v == IF isNegative THEN Tail(matchedValue) ELSE matchedValue
       IN  [value |-> <<Quote>> \o v \o <<Quote>>, isNegative |-> isNegative]

\* generateValueForMatchesRouteMap: the map value and whether it is negated.
generateValueForMatchesRouteMap(matchedValue) ==
  IF matchedValue = <<>> THEN [value |-> <<Quote, Quote>>, isNegative |-> FALSE]
  ELSE LET isNegative == matchedValue[1] = "!"
           v == IF isNegative THEN Tail(matchedValue) ELSE matchedValue
       IN  IF v \in SpecialMapParameters
           THEN [value |-> <<"\\">> \o v, isNegative |-> isNegative]
           ELSE [value |-> <<Quote>> \o v \o <<Quote>>, isNegative |-> isNegative]

generateParametersForMatchesRouteMap(matchedValue, successfulResult) ==
  LET g == generateValueForMatchesRouteMap(matchedValue)
  IN  << [value |-> g.value, result |-> IF g.isNegative THEN <<"0">> ELSE successfulResult],
         [value |-> <<"default">>, result |-> IF g.isNegative THEN successfulResult ELSE <<"0">>] >>

getNameForSourceForMatchesRouteMapFromCondition(c) ==
  IF c.header /= "" THEN <<"$", "http", c.header>>
  ELSE IF c.cookie /= "" THEN <<"$", "cookie", c.cookie>>
  ELSE IF c.argument /= "" THEN <<"$", "arg", c.argument>>
  ELSE c.variable

Zeros(n) == [k \in 1..n |-> "0"]

generateMatchesConfig(route, prefix, crUps, index, scIndex) ==
  LET ms == route.matches
      condMap(i, j) ==
        [source |-> <<getNameForSourceForMatchesRouteMapFromCondition(ms[i].conditions[j])>>,
         variable |-> GetNameForVariableForMatchesRouteMap(index, i - 1, j - 1),
         parameters |-> generateParametersForMatchesRouteMap(
                          ms[i].conditions[j].value,
                          IF j < Len(ms[i].conditions)
                          THEN GetNameForVariableForMatchesRouteMap(index, i - 1, j)
                          ELSE <<"1">>)]
      \* scLocalIndex before the i-th match, and after all of them
      scLocal(i) == Cardinality({k \in 1..(i - 1) : ms[k].splits /= <<>>})
      nested == scLocal(Len(ms) + 1)
      mainParams ==
        [i \in DOMAIN ms |->
           [value |-> <<"~", "^">> \o Zeros(i - 1) \o <<"1">>,
            result |-> IF ms[i].splits /= <<>>
                       THEN GetNameForSplitClientVariable(scIndex + scLocal(i))
                       ELSE MatchLocation(index, i - 1)]]
        \o <<[value |-> <<"default">>,
              result |-> IF route.splits /= <<>>
                         THEN GetNameForSplitClientVariable(scIndex + nested)
                         ELSE DefaultLocation(index)]>>
      mainMap == [source |-> [i \in DOMAIN ms |-> GetNameForVariableForMatchesRouteMap(index, i - 1, 0)],
                  variable |-> GetNameForVariableForMatchesRouteMainMap(index),
                  parameters |-> mainParams]
      nestedSplits(i) == generateSplits(ms[i].splits, prefix, crUps, scIndex + scLocal(i))
      defaultSplits == generateSplits(route.splits, prefix, crUps, scIndex + nested)
  IN  [maps |-> FlattenSeq([i \in DOMAIN ms |-> [j \in DOMAIN ms[i].conditions |-> condMap(i, j)]])
                \o <<mainMap>>,
       locations |->
         FlattenSeq([i \in DOMAIN ms |->
                       IF ms[i].splits /= <<>> THEN nestedSplits(i).locations
                       ELSE <<ActionLocation(MatchLocation(index, i - 1), prefix, crUps, ms[i].action)>>])
         \o (IF route.splits /= <<>> THEN defaultSplits.locations
             ELSE <<ActionLocation(DefaultLocation(index), prefix, crUps, route.action)>>),
       splitClients |->
         FlattenSeq([i \in DOMAIN ms |->
                       IF ms[i].splits /= <<>> THEN <<nestedSplits(i).splitClient>> ELSE <<>>])
         \o (IF route.splits /= <<>> THEN <<defaultSplits.splitClient>> ELSE <<>>),
       internalRedirectLocation |-> [path |-> route.path,
                                     destination |-> GetNameForVariableForMatchesRouteMainMap(index)]]

-----------------------------------------------------------------------------
(* The compile call *)

Init ==
  /\ vsx \in Inputs
  /\ pc = "validate"
  /\ pos = 1
  /\ upstreams = <<>>
  /\ crUpstreams = <<>>
  /\ healthChecks = <<>>
  /\ statusMatches = <<>>
  /\ locations = <<>>
  /\ internalRedirectLocations = <<>>
  /\ splitClients = <<>>
  /\ maps = <<>>
  /\ matchesRoutes = 0
  /\ warnings = <<>>

\* ValidateVirtualServer, and ValidateVirtualServerRouteForVirtualServer
\* for every VSR with the host of the VS and the path of the route that
\* delegates to it; GenerateVirtualServerConfig runs only when all pass
\* and starts with clearWarnings.
ValidationErrors(x) ==
  validateVirtualServerSpec(x.vs, x.isPlus)
  \cup UNION {validateVirtualServerRouteSpec(x.vsrs[k], x.vs.host, ParentPath(x, k), x.isPlus)
              : k \in DOMAIN x.vsrs}

Validate ==
  /\ pc = "validate"
  /\ pc' = IF ValidationErrors(vsx) = {} THEN "upstreams" ELSE "rejected"
  /\ warnings' = <<>>
  /\ UNCHANGED <<vsx, pos, upstreams, crUpstreams, healthChecks, statusMatches, locations, internalRedirectLocations,
                 splitClients, maps, matchesRoutes>>

\* Mutant: the VSR loop reports its warnings against the VirtualServer.
GenerateUpstreamWarnsVS ==
  /\ pc = "upstreams"
  /\ pos <= Len(UpstreamWork(vsx))
  /\ LET o    == UpstreamWork(vsx)[pos][1]
         u    == OwnerUpstreams(vsx, o)[UpstreamWork(vsx)[pos][2]]
         ns   == OwnerNamespace(vsx, o)
         name == GetNameForUpstream(OwnerNamer(vsx, o), u.name)
         ep   == generateEndpointsForUpstream(vsx, ns, u)
         g    == generateUpstream(vsx, o, name, u, <<ns, u.service>> \in vsx.externalNameSvcs, ep.endpoints)
     IN  /\ upstreams' = Append(upstreams, g.ups)
         /\ crUpstreams' = (name :> u) @@ crUpstreams
         /\ warnings' = addWarnings(warnings, 0, ep.warnings \o g.warnings)
         /\ healthChecks' = healthChecks \o HealthCheckBlocks(u, name).healthChecks
         /\ statusMatches' = statusMatches \o HealthCheckBlocks(u, name).statusMatches
  /\ pos' = pos + 1
  /\ UNCHANGED <<vsx, pc, locations, internalRedirectLocations, splitClients, maps, matchesRoutes>>

\* One iteration of the upstream loops (lines 178-195 and 197-217).
GenerateUpstream ==
  /\ pc = "upstreams"
  /\ pos <= Len(UpstreamWork(vsx))
  /\ LET o    == UpstreamWork(vsx)[pos][1]
         u    == OwnerUpstreams(vsx, o)[UpstreamWork(vsx)[pos][2]]
         ns   == OwnerNamespace(vsx, o)
         name == GetNameForUpstream(OwnerNamer(vsx, o), u.name)
         ep   == generateEndpointsForUpstream(vsx, ns, u)
         g    == generateUpstream(vsx, o, name, u, <<ns, u.service>> \in vsx.externalNameSvcs, ep.endpoints)
     IN  /\ upstreams' = Append(upstreams, g.ups)
         /\ crUpstreams' = (name :> u) @@ crUpstreams
         /\ warnings' = addWarnings(warnings, o, ep.warnings \o g.warnings)
         /\ healthChecks' = healthChecks \o HealthCheckBlocks(u, name).healthChecks
         /\ statusMatches' = statusMatches \o HealthCheckBlocks(u, name).statusMatches
  /\ pos' = pos + 1
  /\ UNCHANGED <<vsx, pc, locations, internalRedirectLocations, splitClients, maps, matchesRoutes>>

EndUpstreams ==
  /\ pc = "upstreams"
  /\ pos > Len(UpstreamWork(vsx))
  /\ pc' = "routes"
  /\ pos' = 1
  /\ UNCHANGED <<vsx, upstreams, crUpstreams, healthChecks, statusMatches, locations, internalRedirectLocations,
                 splitClients, maps, matchesRoutes, warnings>>

\* The route at the current position of the route loops and its owner.
CurOwner == RouteWork(vsx)[pos][1]
CurRoute == OwnerRoutes(vsx, CurOwner)[RouteWork(vsx)[pos][2]]
CurNamer == OwnerNamer(vsx, CurOwner)

AtRoute ==
  /\ pc = "routes"
  /\ pos <= Len(RouteWork(vsx))

\* `if r.Route != "" { continue }`, in the loop over the VS routes only.
SkipDelegatedRoute ==
  /\ AtRoute
  /\ CurOwner = 0
  /\ CurRoute.route /= ""
  /\ pos' = pos + 1
  /\ UNCHANGED <<vsx, pc, upstreams, crUpstreams, healthChecks, statusMatches, locations, internalRedirectLocations,
                 splitClients, maps, matchesRoutes, warnings>>

Compiled == AtRoute /\ (CurOwner > 0 \/ CurRoute.route = "")

AppendRoutingCfg(cfg) ==
  /\ maps' = maps \o cfg.maps
  /\ locations' = locations \o cfg.locations
  /\ internalRedirectLocations' = Append(internalRedirectLocations, cfg.internalRedirectLocation)
  /\ splitClients' = splitClients \o cfg.splitClients

\* Mutant: matchesRoutes is not incremented after a matches route.
GenerateMatchesRouteNoIncrement ==
  /\ Compiled
  /\ CurRoute.matches /= <<>>
  /\ AppendRoutingCfg(generateMatchesConfig(CurRoute, CurNamer, crUpstreams,
                                            matchesRoutes, Len(splitClients)))
  /\ matchesRoutes' = matchesRoutes
  /\ pos' = pos + 1
  /\ UNCHANGED <<vsx, pc, upstreams, crUpstreams, healthChecks, statusMatches, warnings>>

GenerateMatchesRoute ==
  /\ Compiled
  /\ CurRoute.matches /= <<>>
  /\ AppendRoutingCfg(generateMatchesConfig(CurRoute, CurNamer, crUpstreams,
                                            matchesRoutes, Len(splitClients)))
  /\ matchesRoutes' = matchesRoutes + 1
  /\ pos' = pos + 1
  /\ UNCHANGED <<vsx, pc, upstreams, crUpstreams, healthChecks, statusMatches, warnings>>

GenerateSplitsRoute ==
  /\ Compiled
  /\ CurRoute.matches = <<>>
  /\ CurRoute.splits /= <<>>
  /\ AppendRoutingCfg(generateDefaultSplitsConfig(CurRoute, CurNamer, crUpstreams, Len(splitClients)))
  /\ pos' = pos + 1
  /\ UNCHANGED <<vsx, pc, upstreams, crUpstreams, healthChecks, statusMatches, matchesRoutes, warnings>>

GenerateActionRoute ==
  /\ Compiled
  /\ CurRoute.matches = <<>>
  /\ CurRoute.splits = <<>>
  /\ locations' = Append(locations, ActionLocation(CurRoute.path, CurNamer, crUpstreams, CurRoute.action))
  /\ pos' = pos + 1
  /\ UNCHANGED <<vsx, pc, upstreams, crUpstreams, healthChecks, statusMatches, internalRedirectLocations, splitClients,
                 maps, matchesRoutes, warnings>>

EndRoutes ==
  /\ pc = "routes"
  /\ pos > Len(RouteWork(vsx))
  /\ pc' = "done"
  /\ UNCHANGED <<vsx, pos, upstreams, crUpstreams, healthChecks, statusMatches, locations, internalRedirectLocations,
                 splitClients, maps, matchesRoutes, warnings>>

\* The call has returned (a configuration, or the validation error).
Terminated ==
  /\ pc \in {"done", "rejected"}
  /\ UNCHANGED vars

Next ==
  \/ Validate
  \/ GenerateUpstream
  \/ EndUpstreams
  \/ SkipDelegatedRoute
  \/ GenerateMatchesRoute
  \/ GenerateSplitsRoute
  \/ GenerateActionRoute
  \/ EndRoutes
  \/ Terminated

Spec == Init /\ [][Next]_vars /\ WF_vars(Next)

-----------------------------------------------------------------------------
(* SSL and TLS redirect *)

\* The certificate file of the VS's secret when the secret is missing from
\* the cluster (pemFileNameForMissingTLSSecret, defined outside virtualserver.go).
MissingSecretPem == "pemFileNameForMissingTLSSecret"

\* generateSSLConfig: no SSL without a secret; a missing secret gets the
\* sentinel certificate and ciphers "NULL", so every handshake fails.
generateSSLConfig(tls, tlsPemFileName) ==
  IF tls = NULL \/ tls.secret = "" THEN NULL
  ELSE [certificate    |-> IF tlsPemFileName /= "" THEN tlsPemFileName ELSE MissingSecretPem,
        certificateKey |-> IF tlsPemFileName /= "" THEN tlsPemFileName ELSE MissingSecretPem,
        ciphers        |-> IF tlsPemFileName /= "" THEN "" ELSE "NULL"]

generateIntFromPointer(n, defaultN) == IF n = NULL THEN defaultN ELSE n

generateTLSRedirectBasedOn(basedOn) ==
  IF basedOn = "x-forwarded-proto" THEN "$http_x_forwarded_proto" ELSE "$scheme"

generateTLSRedirectConfig(tls) ==
  IF tls = NULL \/ tls.redirect = NULL \/ ~tls.redirect.enable THEN NULL
  ELSE [code    |-> generateIntFromPointer(tls.redirect.code, 301),
        basedOn |-> generateTLSRedirectBasedOn(tls.redirect.basedOn)]

\* The configuration handed to the template.
Config ==
  [maps |-> maps, splitClients |-> splitClients, locations |-> locations,
   internalRedirects |-> internalRedirectLocations, upstreams |-> upstreams,
   ssl |-> generateSSLConfig(vsx.vs.tls, vsx.tlsPemFileName),
   tlsRedirect |-> generateTLSRedirectConfig(vsx.vs.tls)]

-----------------------------------------------------------------------------
(* The NGINX Plus API update *)

\* createEndpointsFromUpstream: the addresses of the upstream's servers.
createEndpointsFromUpstream(ups) == ups.servers

\* createUpstreamServersConfigForPlus: the server parameters pushed with the
\* servers; the zero ServerConfig for an upstream with no server.
createUpstreamServersConfigForPlus(ups) ==
  [slowStart |-> IF ups.servers = <<>> THEN "" ELSE ups.slowStart]

\* The upstreams of the loops of createUpstreamsForPlus, in their order, less
\* the ExternalName services, which NGINX resolves itself.
PlusApiWork(x) ==
  LET notExternal(w) ==
        <<OwnerNamespace(x, w[1]), OwnerUpstreams(x, w[1])[w[2]].service>> \notin x.externalNameSvcs
  IN  SelectSeq(UpstreamWork(x), notExternal)

\* Mutant: the VSR loop keeps the namer of the VirtualServer.
createUpstreamsForPlusVSNamer(x) ==
  LET work == PlusApiWork(x)
  IN  [i \in DOMAIN work |->
         LET o == work[i][1]
             u == OwnerUpstreams(x, o)[work[i][2]]
         IN  generateUpstream([x EXCEPT !.isPlus = TRUE], o,
               GetNameForUpstream(OwnerNamer(x, 0), u.name), u, FALSE,
               x.endpoints[<<OwnerNamespace(x, o), u.service>>]).ups]

\* createUpstreamsForPlus: a configurator with isPlus set generates every
\* upstream again from the raw endpoints of its service; warnings are dropped.
createUpstreamsForPlus(x) ==
  LET work == PlusApiWork(x)
  IN  [i \in DOMAIN work |->
         LET o == work[i][1]
             u == OwnerUpstreams(x, o)[work[i][2]]
         IN  generateUpstream([x EXCEPT !.isPlus = TRUE], o,
               GetNameForUpstream(OwnerNamer(x, o), u.name), u, FALSE,
               x.endpoints[<<OwnerNamespace(x, o), u.service>>]).ups]

-----------------------------------------------------------------------------
(* Properties *)

TypeOK ==
  /\ vsx.vs \in VirtualServer
  /\ \A k \in DOMAIN vsx.vsrs : vsx.vsrs[k] \in VirtualServerRoute
  /\ pc \in {"validate", "upstreams", "routes", "done", "rejected"}
  /\ pos \in Nat \ {0}
  /\ matchesRoutes \in Nat
  /\ \A i \in DOMAIN upstreams : upstreams[i].origin[2] \in UpstreamNames
  /\ \A n \in DOMAIN crUpstreams : crUpstreams[n] \in Upstream
  /\ \A i \in DOMAIN locations :
       locations[i].return = NULL <=> locations[i].proxyPass /= NULL
  /\ \A o \in DOMAIN warnings : o \in 0..Len(vsx.vsrs) /\ warnings[o] /= <<>>

\* RoutingPreserved.  Once GenerateVirtualServerConfig has returned, every
\* route it compiled (the VS routes without `route`, and the subroutes of
\* every VSR) serves each request as the route itself says: NGINX,
\* evaluating the emitted maps, split_clients, internal redirects and named
\* locations, reaches the effect of the first matching match, else of the
\* route's action or splits, and proxies to the upstream of the resource
\* that declared the route.  This is what the match/split lowering of
\* generateMatchesConfig and the counters threaded through the route loops
\* must preserve.
RoutingPreserved ==
  pc = "done" =>
    \A w \in DOMAIN RouteWork(vsx) :
      LET o == RouteWork(vsx)[w][1]
          r == OwnerRoutes(vsx, o)[RouteWork(vsx)[w][2]]
      IN  (o > 0 \/ r.route = "") =>
            \A req \in [RouteVariables(r) -> ReqValues], b \in Buckets :
              Serve(Config, r.path, req, b) = Target(OwnerUpstreams(vsx, o), o, r, req, b)

\* UniqueIdentifiers.  The map and split_clients variables, which NGINX
\* defines once per http block, and the named locations emitted so far are
\* pairwise distinct: the matches counter and the split-client index
\* (len(splitClients) plus scLocalIndex) never hand out a name twice, across
\* the VS routes and the subroutes of every VSR.
DefinedVariables ==
  [i \in DOMAIN maps |-> maps[i].variable] \o [i \in DOMAIN splitClients |-> splitClients[i].variable]

NamedLocations ==
  SelectSeq([i \in DOMAIN locations |-> locations[i].path], IsNamedLocation)

UniqueIdentifiers == IsInjective(DefinedVariables) /\ IsInjective(NamedLocations)

\* SplitsCoverAllRequests.  Every emitted split_clients block reads back as
\* percentages that add up to 100, so no request falls outside all of its
\* distributions: the validator's weight checks and the "%d%%" formatting
\* of generateSplits together guarantee it.
SplitsCoverAllRequests ==
  \A i \in DOMAIN splitClients :
    LET d == splitClients[i].distributions
    IN  FoldLeft(LAMBDA acc, x : acc + Percent(x.weight), 0, d) = 100

\* The upstream u names within the resource of owner o.
DeclaredUpstream(o, n) ==
  LET us == OwnerUpstreams(vsx, o) IN us[Min({i \in DOMAIN us : us[i].name = n})]

\* The warnings owner o should carry: one for every upstream generated from
\* its upstreams with an ExternalName service left without servers for
\* want of a resolver, or with its slow start dropped.
ExpectedWarnings(o) ==
  LET gs == {upstreams[i] : i \in {j \in DOMAIN upstreams : upstreams[j].origin[1] = o}}
  IN  {[kind |-> "externalName", upstream |-> g.origin[2]]
         : g \in {h \in gs : h.resolve /\ h.servers = <<>> /\ ~vsx.isResolverConfigured}}
      \cup {[kind |-> "slowStart", upstream |-> g.origin[2]]
              : g \in {h \in gs : vsx.isPlus /\ h.slowStart = ""
                                  /\ DeclaredUpstream(o, h.origin[2]).slowStart /= ""}}

\* WarningsKeyedByOwner.  When the call returns, each resource carries
\* exactly one warning for each field of its own upstreams that generation
\* dropped (generateEndpointsForUpstream, generateSlowStartForPlus), and no
\* other: warnings are attributed to the VS or VSR that declared the
\* upstream, not to the VS being compiled.
WarningsKeyedByOwner ==
  pc = "done" =>
    \A o \in 0..Len(vsx.vsrs) :
      LET got == IF o \in DOMAIN warnings THEN warnings[o] ELSE <<>>
      IN  /\ Range(got) = ExpectedWarnings(o)
          /\ Len(got) = Cardinality(ExpectedWarnings(o))

\* MatchesCompiled.  Every VS route with matches that passed validation has
\* its matches compiled: an internal redirect to the main map variable
\* exists at the route's path.  (validateRoute accepts `route` together with
\* `matches`, and the VS route loop skips any route with `route` set.)
MatchesCompiled ==
  pc = "done" =>
    \A i \in DOMAIN vsx.vs.routes :
      vsx.vs.routes[i].matches /= <<>> =>
        \E k \in DOMAIN internalRedirectLocations :
          internalRedirectLocations[k].path = vsx.vs.routes[i].path

\* PlusDirectivesOnlyInPlus.  A configuration generated for NGINX OSS
\* contains none of the directives only NGINX Plus understands: no active
\* health check, status match, slow start, queue or sticky cookie.  The
\* generator emits health checks whatever the tier (generateHealthCheck),
\* so this rests on rejectPlusResourcesInOSS rejecting every such field.
PlusDirectivesOnlyInPlus ==
  ~vsx.isPlus =>
    /\ healthChecks = <<>>
    /\ statusMatches = <<>>
    /\ \A i \in DOMAIN upstreams :
         /\ upstreams[i].slowStart = ""
         /\ upstreams[i].queue = NULL
         /\ upstreams[i].sessionCookie = NULL


\* PlusApiAgreesWithConfig.  For NGINX Plus, the controller later pushes the
\* servers of createUpstreamsForPlus to the API.  They must be the servers
\* the returned configuration defines, with the same server parameters.
\* Every upstream of the configuration is pushed under the same name,
\* except those of ExternalName services (resolve), and nothing else is.
PlusApiAgreesWithConfig ==
  (pc = "done" /\ vsx.isPlus) =>
    LET api == createUpstreamsForPlus(vsx) IN
    /\ {api[i].name : i \in DOMAIN api}
         = {upstreams[j].name : j \in {k \in DOMAIN upstreams : ~upstreams[k].resolve}}
    /\ \A i \in DOMAIN api : \A j \in DOMAIN upstreams :
         upstreams[j].name = api[i].name =>
           /\ createEndpointsFromUpstream(upstreams[j]) = createEndpointsFromUpstream(api[i])
           /\ createUpstreamServersConfigForPlus(upstreams[j]) = createUpstreamServersConfigForPlus(api[i])


\* TLSRedirectIsRedirect.  The TLS redirect of an accepted VirtualServer is
\* a real redirect: its code, explicit or the default 301, is one NGINX's
\* return treats as a redirect (with any other code, return sends the URL
\* as the response body), and it tests the scheme through $scheme or
\* $http_x_forwarded_proto.  validateTLSRedirect guards the explicit code,
\* generateTLSRedirectConfig supplies the default.
TLSRedirectIsRedirect ==
  (pc = "done" /\ Config.tlsRedirect /= NULL) =>
    /\ Config.tlsRedirect.code \in {301, 302, 307, 308}
    /\ Config.tlsRedirect.basedOn \in {"$scheme", "$http_x_forwarded_proto"}

\* TLSRedirectOnlyWithSSL.  A server that redirects plain HTTP requests to
\* https://$host has an SSL block of its own, so the redirected request
\* reaches this VirtualServer.
TLSRedirectOnlyWithSSL ==
  (pc = "done" /\ Config.tlsRedirect /= NULL) => Config.ssl /= NULL

=============================================================================
