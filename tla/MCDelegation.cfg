\* A VS route that has both `route` and `matches`: the validator accepts it
\* and the generator skips it, dropping the matches.
CONSTANTS
  NULL = NULL
  UpstreamNames = {"a", "b", "c"}
  Services = {"s1", "s2"}
  Namespaces = {"ns1", "ns2"}
  ResourceNames = {"vs", "r"}
  Hosts = {"h"}
  URLs = {"u"}
  Bodies = {"t"}
  CondNames = {"x"}
  Variables <- MCVariables
  Chars = {"/", "a", "b", "c", "~", " ", "v", "w", "!", "default"}
  BadValues = {}
  DefaultLBMethod = "random two least_conn"
  Inputs <- DelegationWithMatchesInputs
  ReqValues <- MCReqValues
  Buckets <- MCBuckets

SPECIFICATION Spec
INVARIANTS MatchesCompiled
