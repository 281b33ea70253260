SPECIFICATION MCSpec
CONSTANTS
  none = none
  Nothing = Nothing
  NoTurn <- none
  Manifest <- MCManifest
  Skills <- MCSkills
  Contents <- MCContents
  Rollouts <- MCRollouts
  Origin <- MCOrigin
  ObservedEpoch <- MCObservedEpoch
  WorkerLimit <- MCWorkerLimit
  CatalogErrors <- MCCatalogErrors
  SecondsPerDay <- MCSecondsPerDay
  RecentDays <- MCRecentDays
  UnobservedHistoryDays <- MCUnobservedHistoryDays
INVARIANTS
  TypeOK
  UnobservedIsTrue
  BaselineMeansRecentUse
  PartialsDisjoint
PROPERTIES
  AlwaysReports
  KeepsContract
\* The inspection ends with its report.
CHECK_DEADLOCK FALSE
