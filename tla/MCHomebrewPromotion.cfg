SPECIFICATION Spec
CONSTANTS
  Taps = {t1, t2}
  Versions <- MCVersions
  First <- MCFirst
  Foreign <- MCForeign
  EditPcs <- MCEditPcs
  MaxRuns <- MCMaxRuns
  MaxEdits <- MCMaxEdits
  MaxOthers <- MCMaxOthers
INVARIANTS
  TypeOK
  VerdictIsTrue
  VersionsRise
PROPERTIES
  PushIsExact
  ResumesOwnWork
SYMMETRY MCSymmetry
\* Nobody has to promote for ever.
CHECK_DEADLOCK FALSE
