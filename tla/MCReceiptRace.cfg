SPECIFICATION MCSpec
CONSTANTS
  Worktrees = {w1, w2}
  Rust <- MCRust
  Docs <- MCDocs
  Root <- MCRoot
  Empty <- MCEmpty
  MaxStates <- MCMaxStates
  EditPcs <- MCAnyPc
  MaxEdits <- MCMaxEdits
  MaxCommits <- MCMaxCommits
  MaxRuns <- MCMaxRuns
INVARIANTS
  ReceiptIsTested
SYMMETRY MCSymmetry
\* Nobody has to verify, commit or push for ever.
CHECK_DEADLOCK FALSE
