CONSTANTS
  r1 = r1
  Nobody = Nobody
  Callers = {r1}
  Runs = {r1}
  Entry <- Chain
  Provider <- OneProvider
  KeysOf <- Pool
  Rungs = 1
  Wait <- Short
  AuthWait <- Long
  Hints = {0}
  MaxTime = 1
  Node = {0, 1, 2, 3}
  Plans <- Graphs
  Worker = {1, 2}
  Fit <- Fits
  MaxDepth = 4
  MaxTasks = 4
  MaxEdits = 1
SPECIFICATION FairSpec
INVARIANTS
  TypeOK
  OrderIsRight
  DepsAreDone
  ReportIsRight
  AllAskedBeforeGivingUp
  CooledIsLastResort
PROPERTIES
  PoolTriedBeforeCooling
  RunsEnd
CHECK_DEADLOCK FALSE
