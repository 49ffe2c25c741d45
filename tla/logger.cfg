\* A disk that refuses, small files, and a shutdown at any time.
SPECIFICATION Spec
SYMMETRY Symmetry
CONSTANTS
  w1 = w1
  w2 = w2
  Absent = Absent
  Writers <- MCWriters
  Records <- MCRecords
  Capacity = 1
  RecordBytes = 2
  RotationBytes = 2
  RotationFiles = 2
  DiskFailures = 2
INVARIANTS
  NoRecordLost
  FilesInOrder
  LossIsVisible
  SleeperIsWoken
PROPERTIES
  KeepsWhatItSees
CHECK_DEADLOCK FALSE
