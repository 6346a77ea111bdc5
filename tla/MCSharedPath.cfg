\* A VS route and a subroute of the VSR it delegates to with the same path:
\* two locations at one path.
CONSTANTS
  NULL = NULL
  UpstreamNames = {"a", "b", "c"}
  Services = {"s1", "s2"}
  Namespaces = {"ns1", "ns2"}
  ResourceNames = {"vs", "r"}
  Hosts = {"h"}
  URLs = {"u"}
  Bodies = {"t"}
  CondNames = {"x"}
  Variables <- MCVariables
  Chars = {"/", "a", "b", "c", "~", " ", "v", "w", "!", "default"}
  BadValues = {}
  DefaultLBMethod = "random two least_conn"
  Inputs <- SharedPathInputs
  ReqValues <- MCReqValues
  Buckets <- MCBuckets

SPECIFICATION Spec
INVARIANTS RoutingPreserved
