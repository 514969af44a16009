CONSTANTS
  Runs = {r1, r2}
  NoRun = NoRun
  JobIDs = {"a", "b", "c"}
  Graphs <- AllGraphs
  RepoGraphs <- ChainGraphs
  Branches = {main, dev}
  Default = main
  NoBranch = NoBranch
  MaxPushes = 2
  MaxConcurrency = 1
  MaxCrashes = 1
SPECIFICATION Spec
INVARIANT TypeOK
INVARIANT OrderIsEarliest
INVARIANT JobRunsAfterNeeds
 
 
INVARIANT RecordedUnderOwnID
INVARIANT WorktreesRemoved
INVARIANT CommitIsFetched
CHECK_DEADLOCK FALSE
