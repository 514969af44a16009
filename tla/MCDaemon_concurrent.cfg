CONSTANTS
  p = p
  m = m
  q = q
  r1 = r1
  r2 = r2
  r3 = r3
  r4 = r4
  Jobs = {p, m}
  Runs = {r1, r3}
  ManualRuns = {r3}
  CancelledRuns = {r1}
  TimedRuns = {}
  FailingRuns = {r1}
  MaxConcurrency = 2
  ChanCap = 1
  QueueCap = 1
  ListLimit = 1
  MaxBoots = 2
  WatchOf <- MCWatchOf
  Refs <- MCSingleRefs
SPECIFICATION Spec
INVARIANT TypeOK
INVARIANT SlotsAccounted
INVARIANT StaleHasOwner
INVARIANT ReportedResultIsRecorded
PROPERTY CancelIsFinal
PROPERTY ImplementsRunLifecycle
CHECK_DEADLOCK FALSE
