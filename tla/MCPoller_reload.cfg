CONSTANTS
  w1 = w1
  w2 = w2
  w3 = w3
  Watches = {w1, w2}
  Refs = {"branch", "pr"}
  RefOf <- MCRefOf
  PRs = {"pr"}
  Projects = {"P", "Q"}
  ProjectOf <- MCProjectOf
  AtStart = {w1}
  Legacy = {w1}
  Deletable = {}
  ChanCap = 1
  InitialBackoff = 5
  MaxBackoff = 15
  MaxHead <- MCMaxHead
  MaxErrors = 1
  MaxRestarts = 1
SPECIFICATION Spec
PROPERTY ConfiguredWatchIsPolled
CHECK_DEADLOCK FALSE
