\* Restarts and model files that are edited under a watcher.
SPECIFICATION FairSpec
CONSTANTS
  A = A
  B = B
  p = p
  q = q
  Broken = Broken
  Missing = Missing
  NoModel = NoModel
  NoPath = NoPath
  Paths <- MCPaths
  ConfiguredPath <- p
  Models <- MCModels
  InitialFiles <- MCInitialFiles
  MaxViews = 2
  RecentLimit = 3
  MaxRecords = 5
  MaxEdits = 2
PROPERTIES
  RestoreKeepsNewest
  EditsAreTakenOver
CHECK_DEADLOCK FALSE
