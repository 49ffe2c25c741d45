\* Saved views under two requests and the watcher; eviction at the second view.
SPECIFICATION Spec
SYMMETRY RequestSymmetry
CONSTANTS
  w1 = w1
  w2 = w2
  p = p
  q = q
  A = A
  B = B
  tank = tank
  level = level
  flow = flow
  NoTag = NoTag
  NoView = NoView
  Watcher = Watcher
  ModelIds <- MCModelIds
  Tags <- MCTags
  Meanings <- MCMeanings
  LocalMeanings <- MCMeanings
  Requests <- MCRequests
  Files <- MCFiles
  InitialFile <- MCInitialFile
  JournalEnabled = TRUE
  MaxViews = 1
  MaxGeneration = 3
  MaxSequence = 2
  Operations = {"resolve", "reconcile", "scenario", "rescan"}
INVARIANTS
  TypeOK
  ViewsCarryGeneration
  SavedViewsMatchModel
  OrderMatchesViews
  SavedViewsAreJournaled
PROPERTIES
  ConflictsAreKept
  NoSilentRebinding
CHECK_DEADLOCK FALSE
