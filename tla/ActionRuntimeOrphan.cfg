\* A crash between the approval and the task it is about.
CONSTANTS
  k1 = k1
  t1 = t1
  t2 = t2
  None = None
  Keys = {k1}
  Tasks <- OneTask
  Capacity = 1
  MaxPerWindow = 1
  Window = 1
  Ttl = 1
  Faults = {}
  TearsQueue = TRUE
  MaxTime = 2
SPECIFICATION Spec
CHECK_DEADLOCK FALSE
INVARIANTS PendingHasTask
