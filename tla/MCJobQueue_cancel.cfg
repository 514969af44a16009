CONSTANTS
  a1 = a1
  a2 = a2
  a3 = a3
  b1 = b1
  Jobs <- MCJobs
  WatchOf <- MCWatchOf
  Consumers = {c1}
  Cap = 2
  NoOne = NoOne
SPECIFICATION Spec
PROPERTY DequeueEndsOnCancel
CHECK_DEADLOCK FALSE
