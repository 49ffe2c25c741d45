\* Slow inference against model changes, and the end of every operation.
SPECIFICATION FairSpec
CONSTANTS
  w1 = w1
  w2 = w2
  p = p
  q = q
  A = A
  B = B
  tank = tank
  level = level
  flow = flow
  NoTag = NoTag
  NoView = NoView
  Watcher = Watcher
  ModelIds <- MCModelIds
  Tags <- MCTags
  Meanings <- MCMeanings
  LocalMeanings <- MCMeanings
  Requests <- MCRequests
  Files <- MCFiles
  InitialFile <- MCInitialFile
  JournalEnabled = TRUE
  MaxViews = 1
  MaxGeneration = 2
  MaxSequence = 1
  Operations = {"interpret", "scenario", "rescan"}
INVARIANTS
  CacheHitsAreCurrent
  TelemetryFollowsModel
PROPERTIES
  OperationsReturn
CHECK_DEADLOCK FALSE
