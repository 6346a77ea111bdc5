\* Next-upstream strings only: does every proxy_next_upstream written for a
\* valid upstream load in NGINX?
CONSTANTS
  ActionInputs = {}
  StatusMatchInputs = {}
  UpstreamName <- MCUpstreamName
  TuningInputs <- NextUpstreamInputs
  BufferNumbers = {}
  FleetDefaults <- MCFleetDefaults
SPECIFICATION Spec
INVARIANTS EmittedNextUpstreamLoads
CHECK_DEADLOCK FALSE
