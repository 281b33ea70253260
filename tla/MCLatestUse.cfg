SPECIFICATION MCSpec
CONSTANTS
  none = none
  Nothing = Nothing
  NoTurn <- none
  Manifest <- MCManifest
  Skills <- MCSkills
  Contents <- MCSpanningContents
  Rollouts <- MCRollouts
  Origin <- MCOrigin
  ObservedEpoch <- MCObservedEpoch
  WorkerLimit <- MCWorkerLimit
  CatalogErrors <- MCCatalogErrors
  SecondsPerDay <- MCSecondsPerDay
  RecentDays <- MCRecentDays
  UnobservedHistoryDays <- MCUnobservedHistoryDays
INVARIANT LatestUseReported
CHECK_DEADLOCK FALSE
