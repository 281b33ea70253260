SPECIFICATION MCSpec
CONSTANTS
  Worktrees = {w1, w2}
  Rust <- MCRust
  Docs <- MCDocs
  Root <- MCRoot
  Empty <- MCEmpty
  MaxStates <- MCMaxStates
  EditPcs <- MCEditPcs
  MaxEdits <- MCMaxEdits
  MaxCommits <- MCMaxCommits
  MaxRuns <- MCMaxRuns
INVARIANTS
  TypeOK
  ReceiptIsTested
  EdgeIsMutated
  RemoteIsTested
PROPERTIES
  PushIsCovered
SYMMETRY MCSymmetry
\* Nobody has to verify, commit or push for ever.
CHECK_DEADLOCK FALSE
