--------------------------- MODULE RouteSemantics ---------------------------
(***************************************************************************)
(* What a route of a VirtualServer or VirtualServerRoute means for one    *)
(* request, stated on the resource itself (spec sections 3 and 4.4):      *)
(* the first match all of whose conditions hold decides, otherwise the    *)
(* route's own action or splits; a splits block sends the request to the  *)
(* split whose weight range holds the request's percentile bucket.        *)
(* The effect is a response (code and text) or proxying to one upstream   *)
(* of the owning resource, over TLS when that upstream enables it.        *)
(***************************************************************************)
EXTENDS VSTypes, FiniteSets, SequencesExt

\* The NGINX variable by which a request exposes what a condition tests.
RequestVariable(c) ==
  IF c.header /= "" THEN <<"$", "http", c.header>>
  ELSE IF c.cookie /= "" THEN <<"$", "cookie", c.cookie>>
  ELSE IF c.argument /= "" THEN <<"$", "arg", c.argument>>
  ELSE c.variable

\* A value "!v" holds when the attribute differs from v; any other value
\* holds when the attribute equals it.
CondHolds(c, req) ==
  LET v == c.value
      a == req[RequestVariable(c)]
  IN  IF v /= <<>> /\ v[1] = "!" THEN a /= Tail(v) ELSE a = v

MatchHolds(m, req) == \A j \in DOMAIN m.conditions : CondHolds(m.conditions[j], req)

\* The request attributes a route reads.
RouteVariables(r) ==
  UNION {{RequestVariable(r.matches[i].conditions[j]) : j \in DOMAIN r.matches[i].conditions}
         : i \in DOMAIN r.matches}

Effectless == [kind |-> "none"]

\* The effect of action a of owner o, whose upstreams are ups.
ActionEffect(ups, o, a) ==
  IF a.redirect /= NULL
  THEN [kind |-> "return", code |-> IF a.redirect.code /= 0 THEN a.redirect.code ELSE 301,
        text |-> a.redirect.url]
  ELSE IF a.return /= NULL
  THEN [kind |-> "return", code |-> IF a.return.code /= 0 THEN a.return.code ELSE 200,
        text |-> a.return.body]
  ELSE LET us == {i \in DOMAIN ups : ups[i].name = a.pass}
       IN  IF us = {} THEN Effectless
           ELSE [kind |-> "proxy", origin |-> <<o, a.pass>>, https |-> ups[Min(us)].tls]

\* The split whose cumulative weight range [lo, hi) holds bucket.
SplitsEffect(ups, o, splits, bucket) ==
  LET upto(j) == FoldLeft(LAMBDA acc, s : acc + s.weight, 0, SubSeq(splits, 1, j))
      hit == {j \in DOMAIN splits : upto(j - 1) <= bucket /\ bucket < upto(j)}
  IN  IF hit = {} THEN Effectless ELSE ActionEffect(ups, o, splits[Min(hit)].action)

ActionOrSplits(ups, o, x, bucket) ==
  IF x.splits /= <<>> THEN SplitsEffect(ups, o, x.splits, bucket) ELSE ActionEffect(ups, o, x.action)

\* The effect of route r of owner o on a request whose attributes are req
\* and whose split_clients bucket is bucket.
Target(ups, o, r, req, bucket) ==
  LET hits == {i \in DOMAIN r.matches : MatchHolds(r.matches[i], req)}
  IN  IF hits /= {} THEN ActionOrSplits(ups, o, r.matches[Min(hits)], bucket)
      ELSE ActionOrSplits(ups, o, r, bucket)

-----------------------------------------------------------------------------
(* The routes and upstreams of a VirtualServerEx *)

OwnerUps(x, o)    == IF o = 0 THEN x.vs.upstreams ELSE x.vsrs[o].upstreams
OwnerRouteSeq(x, o) == IF o = 0 THEN x.vs.routes ELSE x.vsrs[o].subroutes

\* The routes a configuration serves: the VS routes that do not delegate,
\* and every subroute of every VSR, as <<owner, index>>.
CompiledRoutes(x) ==
  {<<0, i>> : i \in {j \in DOMAIN x.vs.routes : x.vs.routes[j].route = ""}}
  \cup UNION {{<<k, i>> : i \in DOMAIN x.vsrs[k].subroutes} : k \in DOMAIN x.vsrs}

RouteAt(x, w) == OwnerRouteSeq(x, w[1])[w[2]]

\* A request: the values of the attributes the route reads, and a bucket.
Requests(r, values, buckets) == [RouteVariables(r) -> values] \X buckets

\* The upstreams declared, as <<owner, Upstream.Name>>.
DeclaredUpstreams(x) ==
  {<<0, x.vs.upstreams[i].name>> : i \in DOMAIN x.vs.upstreams}
  \cup UNION {{<<k, x.vsrs[k].upstreams[i].name>> : i \in DOMAIN x.vsrs[k].upstreams}
              : k \in DOMAIN x.vsrs}

=============================================================================
