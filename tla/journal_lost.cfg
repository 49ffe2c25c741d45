\* A journal whose disk may refuse a write: are acknowledged records kept?
SPECIFICATION Spec
CONSTANTS
  short = short
  long = long
  Records <- MCRecords
  Size <- MCSize
  MaxFile = 13
  RecentLimit = 2
  Synchronize = TRUE
  WriteFailures = TRUE
INVARIANT NothingDroppedSilently
