SPECIFICATION Spec
CONSTANTS
  Deadline <- MCDeadline
  KillLatency <- MCKillLatency
  MaxLines <- MCMaxLines
INVARIANTS
  TypeOK
  CatalogIsAnswered
  SharedDeadline
  ServerReaped
PROPERTIES
  AlwaysReturns
\* The probe returns, and its server is gone.
CHECK_DEADLOCK FALSE
