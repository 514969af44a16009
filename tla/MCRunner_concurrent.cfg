CONSTANTS
  Runs = {r1, r2}
  NoRun = NoRun
  JobIDs = {"a", "b"}
  Graphs <- ChainGraphs
  RepoGraphs <- ChainGraphs
  Branches = {main, dev}
  Default = main
  NoBranch = NoBranch
  MaxPushes = 2
  MaxConcurrency = 2
  MaxCrashes = 0
SPECIFICATION Spec
INVARIANT RecordedUnderOwnID
CHECK_DEADLOCK FALSE
