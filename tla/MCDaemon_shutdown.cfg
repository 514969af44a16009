CONSTANTS
  p = p
  m = m
  q = q
  r1 = r1
  r2 = r2
  r3 = r3
  r4 = r4
  Jobs = {p}
  Runs = {r1}
  ManualRuns = {}
  CancelledRuns = {r1}
  TimedRuns = {}
  FailingRuns = {}
  MaxConcurrency = 1
  ChanCap = 1
  QueueCap = 1
  ListLimit = 4
  MaxBoots = 1
  WatchOf <- MCWatchOf
  Refs <- MCSingleRefs
SPECIFICATION Spec
INVARIANT GracefulExitFinishesRuns
CHECK_DEADLOCK FALSE
