\* A crash in the middle of a snapshot row.
CONSTANTS
  k1 = k1
  t1 = t1
  t2 = t2
  None = None
  Keys = {k1}
  Tasks <- OneTask
  Capacity = 1
  MaxPerWindow = 1
  Window = 1
  Ttl = 1
  Faults = {}
  TearsQueue = TRUE
  MaxTime = 2
SPECIFICATION RestartSpec
CHECK_DEADLOCK FALSE
PROPERTIES RestartSucceeds
