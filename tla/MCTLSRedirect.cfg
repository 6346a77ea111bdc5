\* A TLS redirect without a secret: the server redirects to https but has no
\* SSL block.
CONSTANTS
  NULL = NULL
  UpstreamNames = {"a", "b", "c"}
  Services = {"s1", "s2"}
  Namespaces = {"ns1", "ns2"}
  ResourceNames = {"vs", "r"}
  Hosts = {"h"}
  URLs = {"u"}
  Bodies = {"t"}
  CondNames = {"x"}
  Variables <- MCVariables
  Chars = {"/", "a", "b", "c", "~", " ", "v", "w", "!", "default"}
  BadValues = {}
  DefaultLBMethod = "random two least_conn"
  Inputs <- TLSInputs
  ReqValues <- MCReqValues
  Buckets <- MCBuckets

SPECIFICATION Spec
INVARIANTS TLSRedirectOnlyWithSSL
