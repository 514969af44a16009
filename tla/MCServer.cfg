SPECIFICATION Spec
CONSTANTS
  MaxRestarts = 2
  Rows = {r1, r2}
  root = root
  guest = guest
  n1 = n1
  n2 = n2
  Names = {n1, n2}
  Established <- MCEstablished
  MaxRequests = 3
  MaxServing = 2
  p1 = p1
  p2 = p2
  ProjectNames = {p1, p2}
  Edited = {p1}
  Flow = Flow
  Hello = Hello
  Bodies <- MCBodies
  Configs <- MCConfigs
  MaxJobs = 3
  Runs = {a, b}
  Past = {b}
  NoRun = NoRun
  MaxLines = 1
  MaxBytes = 1
  MaxAge = 1
  MaxClock = 2
INVARIANTS
  SchemaIsCurrent
  FailsExactlyAfterCut
  RevokedStaysRevoked
  SetupOnlyWhenEmpty
  ProjectsAreWhole
  FinishedLogIsWhole
  SweepKeepsNewest
PROPERTY
  StreamEnds
CHECK_DEADLOCK FALSE
