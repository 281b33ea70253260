SPECIFICATION Spec
CONSTANTS
  none = none
  Absent = Absent
  Denied = Denied
  Bad = Bad
  NoTurn <- none
  SecondsPerDay <- MCSecondsPerDay
  RecentDays <- MCRecentDays
  UnobservedHistoryDays <- MCUnobservedHistoryDays
  Skills <- MCSkills
  Manifest <- MCManifest
  Elsewhere <- MCElsewhere
  Stamps <- MCStamps
  MaxTurns <- MCMaxTurns
  MaxCalls <- MCMaxCalls
  MaxOther <- MCMaxOther
  Installations <- MCInstallations
  MaxVersion <- MCMaxVersion
  ClaudePlugins <- MCClaudePlugins
  Depth <- MCDepth
  DefaultMaxBytes <- MCDefaultMaxBytes
  SeparatorBytes <- MCSeparatorBytes
  FallbackNames <- MCFallbackNames
  InstructionTrees <- MCInstructionTrees
  Edits <- MCEdits
  ClaudeTrees <- MCClaudeTrees
  ClaudeEdits <- MCClaudeEdits
INVARIANT InvalidIsNotLinked
\* The command ends.
CHECK_DEADLOCK FALSE
