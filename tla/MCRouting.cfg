\* Routing of the VS routes and of a delegated VSR's subroute: matches,
\* nested and default splits, plain actions, the validator gate.
CONSTANTS
  NULL = NULL
  UpstreamNames = {"a", "b", "c"}
  Services = {"s1", "s2"}
  Namespaces = {"ns1", "ns2"}
  ResourceNames = {"vs", "r"}
  Hosts = {"h"}
  URLs = {"u"}
  Bodies = {"t"}
  CondNames = {"x"}
  Variables <- MCVariables
  Chars = {"/", "a", "b", "c", "~", " ", "v", "w", "!", "default"}
  BadValues = {}
  DefaultLBMethod = "random two least_conn"
  Inputs <- RoutingInputs
  ReqValues <- MCReqValues
  Buckets <- MCBuckets

SPECIFICATION Spec
INVARIANTS TypeOK RoutingPreserved UniqueIdentifiers SplitsCoverAllRequests
