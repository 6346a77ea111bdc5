\* Status matches only: is every emitted StatusMatch block in the grammar?
CONSTANTS
  ActionInputs = {}
  StatusMatchInputs <- ShortStatusMatchInputs
  UpstreamName <- MCUpstreamName
  TuningInputs = {}
  BufferNumbers = {}
  FleetDefaults <- MCFleetDefaults
SPECIFICATION Spec
INVARIANTS EmittedStatusMatchInGrammar
CHECK_DEADLOCK FALSE
