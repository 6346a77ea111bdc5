\* Two VirtualServers whose safe names coincide, and one whose name has a '.'.
CONSTANTS
  VirtualServers <- MixedVirtualServers
  VirtualServerRoutes <- MCVirtualServerRoutes
  UpstreamIds <- MCUpstreamIds
  SplitClients = 1
  MatchesRoutes = 2
  Matches = 2
  Conditions = 2
SPECIFICATION Spec
INVARIANTS VariableNamesUnambiguous
