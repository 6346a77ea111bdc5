\* Six VirtualServers and two VSRs loaded and deleted in every order: every
\* Load defines only upstream names not yet defined in the http context.
CONSTANTS
  VirtualServers <- MCVirtualServers
  VirtualServerRoutes <- MCVirtualServerRoutes
  UpstreamIds <- MCUpstreamIds
  SplitClients = 1
  MatchesRoutes = 1
  Matches = 1
  Conditions = 1
SPECIFICATION Spec
PROPERTIES UpstreamNamesUnique
