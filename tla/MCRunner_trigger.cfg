CONSTANTS
  Runs = {r1, r2}
  NoRun = NoRun
  JobIDs = {"a", "b"}
  Graphs <- ChainGraphs
  RepoGraphs <- ChainGraphs
  Branches = {main, dev}
  Default = main
  NoBranch = NoBranch
  MaxPushes = 2
  MaxConcurrency = 1
  MaxCrashes = 0
SPECIFICATION Spec
INVARIANT TriggeredRunIsCurrent
CHECK_DEADLOCK FALSE
