SPECIFICATION Spec
CONSTANTS
  Deadline <- MCDeadline
  KillLatency <- MCKillLatency
  MaxLines <- MCMaxLines
PROPERTIES
  UnexecutableIsBlocked
\* The probe returns, and its server is gone.
CHECK_DEADLOCK FALSE
