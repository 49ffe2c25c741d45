\* Overlapping batches, snapshots and readiness checks across model changes and a shutdown.
SPECIFICATION Spec
SYMMETRY Symmetry
CONSTANTS
  c1 = c1
  c2 = c2
  t1 = t1
  t2 = t2
  s1 = s1
  NoSample = NoSample
  Clients <- MCClients
  Tags <- MCTags
  Sources <- MCSources
  Models <- MCModels
  InitialModel <- MCInitialModel
  Batches <- MCBatches
  MaxValues = 1
  StaleAfter = 0
  MaxGeneration = 2
  MaxTime = 2
  MaxRequests = 2
  StoreConfigured = TRUE
  ProviderConfigured = TRUE
  Operations = {"ingest", "snapshot", "readiness", "shutdown"}
INVARIANTS
  ServedValuesAreCurrent
  BatchesAppliedOnce
  FreshnessIsHonest
  ReadinessIsCurrent
  CommitsAreAcknowledged
  ShutdownIsOrderly
PROPERTIES
  ValuesNeverGoBack
CHECK_DEADLOCK FALSE
