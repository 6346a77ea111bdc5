\* Match condition values starting with `~`, which the generator emits as a
\* quoted literal.
CONSTANTS
  NULL = NULL
  UpstreamNames = {"a", "b", "c"}
  Services = {"s1", "s2"}
  Namespaces = {"ns1", "ns2"}
  ResourceNames = {"vs", "r"}
  Hosts = {"h"}
  URLs = {"u"}
  Bodies = {"t"}
  CondNames = {"x"}
  Variables <- MCVariables
  Chars = {"/", "a", "b", "c", "~", " ", "v", "w", "!", "default"}
  BadValues = {}
  DefaultLBMethod = "random two least_conn"
  Inputs <- TildeInputs
  ReqValues <- MCReqValues
  Buckets <- MCBuckets

SPECIFICATION Spec
INVARIANTS RoutingPreserved
