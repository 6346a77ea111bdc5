\* Upstream, Plus API and TLS generation: a VS and a VSR that both declare
\* an upstream "a" (endpoints, ExternalName services, resolver, NGINX Plus,
\* slow start), and a VS with every TLS block and pem file.
CONSTANTS
  NULL = NULL
  UpstreamNames = {"a", "b", "c"}
  Services = {"s1", "s2"}
  Namespaces = {"ns1", "ns2"}
  ResourceNames = {"vs", "r"}
  Hosts = {"h"}
  URLs = {"u"}
  Bodies = {"t"}
  CondNames = {"x"}
  Variables <- MCVariables
  Chars = {"/", "a", "b", "c", "~", " ", "v", "w", "!", "default"}
  BadValues = {}
  DefaultLBMethod = "random two least_conn"
  Inputs <- GenerationInputs
  ReqValues <- MCReqValues
  Buckets <- MCBuckets

SPECIFICATION Spec
INVARIANTS WarningsKeyedByOwner PlusDirectivesOnlyInPlus PlusApiAgreesWithConfig TLSRedirectIsRedirect
