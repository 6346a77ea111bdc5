\* Every url, body, status match and tuning string of a bounded number of
\* tokens through its validator, and each accepted one through generation.
\* One call returns and nothing follows it, so the final states stop.
CONSTANTS
  ActionInputs <- MCActionInputs
  StatusMatchInputs <- MCStatusMatchInputs
  UpstreamName <- MCUpstreamName
  TuningInputs <- MCTuningInputs
  BufferNumbers <- MCBufferNumbers
  FleetDefaults <- MCFleetDefaults
SPECIFICATION Spec
INVARIANTS AcceptedStringsCompile SpecStatusMatchesAccepted AcceptedSizesLoad
CHECK_DEADLOCK FALSE
