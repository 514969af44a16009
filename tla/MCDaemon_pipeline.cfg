CONSTANTS
  p = p
  m = m
  q = q
  r1 = r1
  r2 = r2
  r3 = r3
  r4 = r4
  Jobs = {p, m, q}
  Runs = {r1, r2, r3}
  ManualRuns = {r1, r2, r3}
  CancelledRuns = {}
  TimedRuns = {r2}
  FailingRuns = {}
  MaxConcurrency = 1
  ChanCap = 1
  QueueCap = 1
  ListLimit = 4
  MaxBoots = 1
  WatchOf <- MCWatchOf
  Refs <- MCPipeRefs
SPECIFICATION Spec
PROPERTY AcceptedJobStarts
PROPERTY ShutdownCompletes
CHECK_DEADLOCK FALSE
