------------------------------ MODULE VSTypes ------------------------------
(***************************************************************************)
(* The VirtualServer / VirtualServerRoute resources of                     *)
(* pkg/apis/configuration/v1/types.go, cut down to the fields the          *)
(* validator and the generator branch on.  Strings that the code only      *)
(* checks against a grammar (hosts, URLs, bodies) are model values; the    *)
(* ones whose characters matter (route paths, condition values) are       *)
(* sequences of one-character strings, so that prefix tests and the       *)
(* quoting done by the generator are modelled by what they do.            *)
(***************************************************************************)
EXTENDS Integers, Sequences

CONSTANTS
  NULL,            \* a nil pointer (*Action, *ActionRedirect, ...)
  UpstreamNames,   \* values of Upstream.Name and Action.Pass, "" excluded
  Services,        \* values of Upstream.Service
  Namespaces,      \* metadata.namespace of a VS or VSR
  ResourceNames,   \* metadata.name of a VS or VSR
  Hosts,           \* values of spec.host, "" excluded
  URLs,            \* values of ActionRedirect.URL
  Bodies,          \* values of ActionReturn.Body
  CondNames,       \* header, cookie and argument names of a Condition
  Variables,       \* values of Condition.Variable, as <<"$", name>> ("" is <<>>)
  Chars            \* the characters of paths and condition values

Str == Seq(Chars)

Redirect == [url : URLs, code : Int]                 \* ActionRedirect
Return   == [body : Bodies \cup {""}, code : Int]    \* ActionReturn

Action ==                                            \* Action
  [pass : UpstreamNames \cup {""},
   redirect : Redirect \cup {NULL},
   return : Return \cup {NULL}]

Split == [weight : Int, action : Action \cup {NULL}]  \* Split

Condition ==                                         \* Condition
  [header : CondNames \cup {""}, cookie : CondNames \cup {""},
   argument : CondNames \cup {""}, variable : Variables \cup {<<>>},
   value : Str]

Match ==                                             \* Match
  [conditions : Seq(Condition), action : Action \cup {NULL},
   splits : Seq(Split)]

\* Route.Route is "<namespace>/<name>"; "" when absent.
RouteRef == STRING

Route ==                                             \* Route
  [path : Str, route : RouteRef, action : Action \cup {NULL},
   splits : Seq(Split), matches : Seq(Match)]

HealthCheck   ==                                           \* HealthCheck (TLS: its *UpstreamTLS)
  [enable : BOOLEAN, statusMatch : STRING, tls : BOOLEAN \cup {NULL}]
SessionCookie == [enable : BOOLEAN]                         \* SessionCookie
UpstreamQueue == [size : Nat, timeout : STRING]             \* UpstreamQueue

\* The NGINX Plus fields are HealthCheck, SlowStart, SessionCookie, Queue.
Upstream ==                                          \* Upstream
  [name : UpstreamNames \cup {""}, service : Services, tls : BOOLEAN,
   lbMethod : STRING, slowStart : STRING,
   healthCheck : HealthCheck \cup {NULL}, sessionCookie : SessionCookie \cup {NULL},
   queue : UpstreamQueue \cup {NULL}]

TLSRedirect ==                                       \* TLSRedirect (Code: *int)
  [enable : BOOLEAN, code : Int \cup {NULL}, basedOn : STRING]

TLS == [secret : STRING, redirect : TLSRedirect \cup {NULL}]   \* TLS

VirtualServer ==                                     \* VirtualServer + Spec
  [namespace : Namespaces, name : ResourceNames, host : Hosts \cup {""},
   tls : TLS \cup {NULL}, upstreams : Seq(Upstream), routes : Seq(Route)]

VirtualServerRoute ==                                \* VirtualServerRoute + Spec
  [namespace : Namespaces, name : ResourceNames, host : Hosts \cup {""},
   upstreams : Seq(Upstream), subroutes : Seq(Route)]

=============================================================================
