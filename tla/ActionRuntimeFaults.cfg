\* Two tasks compete for one pending record and one grant per window; every way a write can fail, crashes everywhere.
CONSTANTS
  k1 = k1
  t1 = t1
  t2 = t2
  None = None
  Keys = {k1}
  Tasks <- TwoTasks
  Capacity = 1
  MaxPerWindow = 1
  Window = 0
  Ttl = 0
  Faults = {"lost", "unsynced"}
  TearsQueue = TRUE
  MaxTime = 1
SYMMETRY TaskSymmetry
SPECIFICATION Spec
CHECK_DEADLOCK FALSE
INVARIANTS TypeOK AtMostOnceDispatch OutboxTellsTheTruth QueueAgreesWithOutbox WithinCapacity WithinRateLimit
PROPERTIES RevokedNeverFires FiresWhilePendingOnDisk TerminalIsFinal ImplementsAtMostOnce
