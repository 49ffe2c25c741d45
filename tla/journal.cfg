\* A journal whose process and machine may stop, and whose disk may refuse a
\* write, at any time.
SPECIFICATION Spec
CONSTANTS
  short = short
  long = long
  Records <- MCRecords
  Size <- MCSize
  MaxFile = 14
  RecentLimit = 2
  Synchronize = TRUE
  WriteFailures = TRUE
INVARIANTS
  OpenedStoreReplays
  RecentIsTail
PROPERTIES
  ImplementsDurableLog
