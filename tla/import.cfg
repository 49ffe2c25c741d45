\* Bundles that are imported row by row, and the models the service is given.
SPECIFICATION Spec
CONSTANTS
  Ids <- MCIds
  MaxRecords = 2
  MaxTotal = 5
  MaxModelRecords <- MCMaxModelRecords
INVARIANTS
  ImportIsExact
  ImportedModelLoads
CHECK_DEADLOCK FALSE
