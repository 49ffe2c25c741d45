\* Admission, dispatch and the pool together, with fair workers: wake-ups,
\* accounting, and a shutdown that drains the queue.
SPECIFICATION FairSpec
CONSTANTS
  w1 = w1
  w2 = w2
  i1 = i1
  i2 = i2
  i3 = i3
  r1 = r1
  Workers <- MCWorkers
  Jobs <- MCRequests
  Inference <- MCInference
  Capacity = 2
  MaxInference = 2
INVARIANTS
  NoLostWakeup
  AccountingAddsUp
  AdmissionBalanced
PROPERTIES
  ShutdownReturns
  AcceptedRequestsAreRun
CHECK_DEADLOCK FALSE
