CONSTANTS
  a1 = a1
  a2 = a2
  a3 = a3
  b1 = b1
  Jobs <- MCJobs
  WatchOf <- MCWatchOf
  Consumers = {c1, c2}
  Cap = 2
  NoOne = NoOne
SPECIFICATION Spec
INVARIANT TypeOK
INVARIANT NoLostWakeup
PROPERTY LossOnlyWhenFull
PROPERTY EveryJobLeaves
PROPERTY CancelWakesSleepers
CHECK_DEADLOCK FALSE
