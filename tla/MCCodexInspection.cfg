SPECIFICATION Spec
CONSTANTS
  Probes <- MCProbes
  ProbeTime <- MCProbeTime
  Reports <- MCReports
INVARIANTS
  TypeOK
  BaselineIsClean
  ReviewIsComplete
  FailureIsFirst
  JoinsInTime
PROPERTIES
  AlwaysReports
\* The command ends.
CHECK_DEADLOCK FALSE
