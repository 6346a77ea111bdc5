--------------------------- MODULE MCVirtualServer ---------------------------
(***************************************************************************)
(* Model-checking instance of VirtualServerConfigurator.  The input space *)
(* is built from a handful of upstreams, conditions, matches, splits and  *)
(* routes chosen so that every branch of the validator gate and of the    *)
(* generator is taken, and so that two resources declare upstreams of the *)
(* same name.                                                              *)
(***************************************************************************)
EXTENDS VirtualServerConfigurator

-----------------------------------------------------------------------------
(* Actions, splits, conditions and matches *)

Pass(u)   == [pass |-> u, redirect |-> NULL, return |-> NULL]
Redir     == [pass |-> "", redirect |-> [url |-> "u", code |-> 0], return |-> NULL]
Ret(code) == [pass |-> "", redirect |-> NULL, return |-> [body |-> "t", code |-> code]]
NoAction  == NULL

Sp(w, a) == [weight |-> w, action |-> a]
Split5050 == <<Sp(50, Pass("a")), Sp(50, Ret(0))>>
Split9010 == <<Sp(90, Pass("b")), Sp(10, Redir)>>
Split6050 == <<Sp(60, Pass("a")), Sp(50, Pass("b"))>>     \* sums to 110

Cond(f, v) == [[header |-> "", cookie |-> "", argument |-> "", variable |-> <<>>, value |-> v]
                EXCEPT ![f] = "x"]
Var(v)     == [header |-> "", cookie |-> "", argument |-> "", variable |-> <<"$", "args">>, value |-> v]

V     == <<"v">>
NotV  == <<"!", "v">>
Dflt  == <<"default">>
NotDflt == <<"!", "default">>
NotEmpty == <<"!">>

M(cs, a)  == [conditions |-> cs, action |-> a, splits |-> <<>>]
MS(cs, s) == [conditions |-> cs, action |-> NULL, splits |-> s]

MatchChoices ==
  { M(<<Cond("header", V)>>, Pass("a")),
    M(<<Cond("header", NotV)>>, Redir),
    M(<<Cond("header", Dflt), Cond("cookie", V)>>, Pass("b")),
    M(<<Cond("cookie", NotEmpty), Cond("header", NotDflt)>>, Ret(404)),
    MS(<<Var(NotDflt)>>, Split9010),
    MS(<<Cond("argument", <<>>)>>, Split5050) }

-----------------------------------------------------------------------------
(* Routes, resources and inputs *)

PathA  == <<"/", "a">>
PathB  == <<"/", "b">>
PathC  == <<"/", "c">>
PathRe == <<"~", " ", "a">>
Root   == <<"/">>

Rt(path, a, s, ms) == [path |-> path, route |-> "", action |-> a, splits |-> s, matches |-> ms]
Delegate(path, ms) == [path |-> path, route |-> "ns2/r", action |-> NULL,
                       splits |-> <<>>, matches |-> ms]

MatchesRoutes(path) ==
  {Rt(path, Pass("a"), <<>>, ms) : ms \in {<<m>> : m \in MatchChoices}
                                       \cup {<<m1, m2>> : m1, m2 \in MatchChoices}}
  \cup {Rt(path, NULL, Split5050, <<m>>) : m \in MatchChoices}

FirstRoutes ==
  MatchesRoutes(PathA)
  \cup { Rt(PathRe, Pass("b"), <<>>, <<>>),
         Rt(PathA, Ret(0), <<>>, <<>>),
         Rt(PathA, NULL, Split9010, <<>>),
         Rt(PathA, NULL, Split6050, <<>>) }

SecondRoutes ==
  { <<>>,
    <<Rt(PathB, NULL, Split5050, <<>>)>>,
    <<Rt(PathB, Pass("c"), <<>>, <<>>)>>,                               \* no upstream c
    <<Rt(PathA, Redir, <<>>, <<>>)>>,                                   \* duplicate path
    <<Rt(PathB, NULL, <<>>, <<M(<<Cond("header", V)>>, Pass("b"))>>)>>,   \* no default
    <<Rt(PathB, Pass("b"), <<>>, <<MS(<<Cond("cookie", V)>>, Split5050)>>)>>,
    <<Delegate(Root, <<>>)>> }

Ups(n, s, tls) == [name |-> n, service |-> s, tls |-> tls, lbMethod |-> "", slowStart |-> "",
                   healthCheck |-> NULL, sessionCookie |-> NULL, queue |-> NULL]

VS(routes) ==
  [namespace |-> "ns1", name |-> "vs", host |-> "h", tls |-> NULL,
   upstreams |-> <<Ups("a", "s1", FALSE), Ups("b", "s2", TRUE)>>, routes |-> routes]

\* The VSR ns2/r: its own upstream "a" (over TLS) and one subroute.
VSR(sub) ==
  [namespace |-> "ns2", name |-> "r", host |-> "h",
   upstreams |-> <<Ups("a", "s1", TRUE)>>, subroutes |-> <<sub>>]

SubrouteChoices ==
  { Rt(PathC, Redir, <<>>, <<M(<<Cond("header", V)>>, Pass("a"))>>),
    Rt(PathC, NULL, Split5050, <<>>) }

Endpoints == [k \in Namespaces \X Services |-> <<"10.0.0.1:80">>]

Ex(routes, vsrs) ==
  [vs |-> VS(routes), vsrs |-> vsrs, endpoints |-> Endpoints, externalNameSvcs |-> {},
   isPlus |-> FALSE, isResolverConfigured |-> FALSE, tlsPemFileName |-> ""]

\* A VSR is passed exactly when some VS route delegates to it.
RoutingInputs ==
  { LET routes == <<r1>> \o rest
    IN  Ex(routes, IF \E i \in DOMAIN routes : routes[i].route /= "" THEN <<VSR(sub)>> ELSE <<>>)
    : r1 \in FirstRoutes, rest \in SecondRoutes, sub \in SubrouteChoices }

-----------------------------------------------------------------------------
(* Inputs of the runs that look for a disagreement *)

\* A VS route that delegates to the VSR and also has matches.
DelegationWithMatchesInputs ==
  { Ex(<<Rt(PathA, Pass("a"), <<>>, <<>>), Delegate(Root, <<m>>)>>, <<VSR(sub)>>)
    : m \in MatchChoices, sub \in SubrouteChoices }

\* A VSR subroute with the path of a VS route of its own: both resources
\* are valid on their own.
SharedPathInputs ==
  { Ex(<<Rt(PathC, a, <<>>, <<>>), Delegate(Root, <<>>)>>, <<VSR(sub)>>)
    : a \in {Pass("a"), Ret(0)}, sub \in SubrouteChoices }

\* Condition values whose first character is `~`.
TildeV    == <<"~", "v">>
NotTildeV == <<"!", "~", "v">>

TildeInputs ==
  { Ex(<<Rt(PathA, Pass("a"), <<>>, <<M(<<Cond(f, v)>>, Pass("b"))>>)>>, <<>>)
    : f \in {"header", "cookie"}, v \in {TildeV, NotTildeV} }

-----------------------------------------------------------------------------
(* Inputs of the upstream run: one upstream "a" in the VS and one in the VSR *)

HC(enable, sm, tls) == [enable |-> enable, statusMatch |-> sm, tls |-> tls]

\* The VS upstream "a" varies every field the generator branches on.
VSUpstreamChoices ==
  [name : {"a"}, service : Services, tls : {FALSE},
   lbMethod : {"", "round_robin", "hash $request_uri"},
   slowStart : {"", "10s"},
   healthCheck : {NULL, HC(TRUE, "200", NULL), HC(FALSE, "", TRUE)},
   sessionCookie : {NULL, [enable |-> FALSE]}, queue : {NULL, [size |-> 10, timeout |-> ""]}]

\* The VSR upstream "a" (over TLS) varies slow start and the health check.
VSRUpstreamChoices ==
  [name : {"a"}, service : {"s1"}, tls : {TRUE}, lbMethod : {""}, slowStart : {"", "10s"},
   healthCheck : {NULL, HC(TRUE, "", FALSE)}, sessionCookie : {NULL}, queue : {NULL}]

Full == <<"10.0.0.1:80">>

EndpointChoices ==
  { [k \in Namespaces \X Services |-> <<>>],
    [k \in Namespaces \X Services |-> Full],
    [k \in Namespaces \X Services |-> IF k[1] = "ns1" THEN <<>> ELSE Full] }

\* The caller fills ExternalNameSvcs only for NGINX Plus.
UpstreamInputs ==
  { [vs |-> [VS(<<Rt(PathA, Pass("a"), <<>>, <<>>), Delegate(Root, <<>>)>>)
               EXCEPT !.upstreams = <<u1>>],
     vsrs |-> <<[VSR(Rt(PathC, Pass("a"), <<>>, <<>>)) EXCEPT !.upstreams = <<u2>>]>>,
     endpoints |-> ep, externalNameSvcs |-> IF plus THEN ext ELSE {},
     isPlus |-> plus, isResolverConfigured |-> resolver, tlsPemFileName |-> ""]
    : u1 \in VSUpstreamChoices, u2 \in VSRUpstreamChoices, ep \in EndpointChoices,
      ext \in {{}, {<<"ns1", "s1">>}, {<<"ns2", "s1">>}},
      plus, resolver \in BOOLEAN }

-----------------------------------------------------------------------------
(* Inputs of the TLS runs: the TLS block of the VS and the resolved pem file *)

TLSRedirectChoices ==
  {NULL} \cup [enable : BOOLEAN, code : {NULL, 302, 200}, basedOn : {"", "x-forwarded-proto", "proto"}]

\* tlsPemFileName, the second argument of GenerateVirtualServerConfig, is ""
\* when the secret is missing from the cluster.
TLSInputs ==
  { [Ex(<<Rt(PathA, Pass("a"), <<>>, <<>>)>>, <<>>)
       EXCEPT !.vs.tls = tls, !.tlsPemFileName = pem]
    : tls \in {NULL} \cup [secret : {"", "secret"}, redirect : TLSRedirectChoices],
      pem \in {"", "secret.pem"} }

\* Inputs of the generation run: the upstream variants and the TLS variants.
GenerationInputs == UpstreamInputs \cup TLSInputs

MCVariables == {<<"$", "args">>}

MCReqValues == {<<>>, <<"v">>, <<"w">>, <<"default">>}
MCBuckets == {0, 49, 50, 89, 90, 99}

=============================================================================
