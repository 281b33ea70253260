SPECIFICATION Spec
CONSTANTS
  Taps = {t1}
  Versions <- MCVersions
  First <- MCFirst
  Foreign <- MCForeign
  EditPcs <- MCAnyPc
  MaxRuns <- MCMaxRuns
  MaxEdits <- MCMaxEdits
  MaxOthers <- MCMaxOthers
PROPERTIES
  PushIsFormulaOnly
\* Nobody has to promote for ever.
CHECK_DEADLOCK FALSE
