CONSTANTS
  w1 = w1
  w2 = w2
  w3 = w3
  Watches = {w1, w2, w3}
  Refs = {"branch", "pr"}
  RefOf <- MCRefOf
  PRs = {"pr"}
  Projects = {"P", "Q"}
  ProjectOf <- MCProjectOf
  AtStart = {w1}
  Legacy = {w1}
  Deletable = {w1}
  ChanCap = 1
  InitialBackoff = 5
  MaxBackoff = 8
  MaxHead <- MCMaxHead
  MaxErrors = 1
  MaxRestarts = 1
SPECIFICATION Spec
INVARIANT TypeOK
INVARIANT EmittedAtMostOnce
INVARIANT SeenIsAccounted
PROPERTY HeadIsDetected
CHECK_DEADLOCK FALSE
