SPECIFICATION Spec
CONSTANTS
  Timeout <- MCTimeout
  PollInterval <- MCPollInterval
  Grace <- MCGrace
  KillLatency <- MCKillLatency
  PipeCapacity <- MCPipeCapacity
  MaxQueued <- MCMaxQueued
  Descendants = {d1}
INVARIANTS
  TypeOK
  CompleteOutput
  BoundedDuration
  Reaped
PROPERTIES
  EachStreamHasItsWindow
  AlwaysReturns
  BackPressureEnds
\* The call returns and the processes it started may all end.
CHECK_DEADLOCK FALSE
