\* Failed and torn writes, crashes and compaction under two threads.
CONSTANTS
  c1 = c1
  c2 = c2
  k1 = k1
  k2 = k2
  v1 = v1
  Absent = Absent
  None = None
  Clean = Clean
  Fragment = Fragment
  Junk = Junk
  Capacity = 2
  Callers <- TwoCallers
  Keys <- TwoKeys
  Values <- OneValue
  Faults = {"lost", "unsynced"}
  MinRows = 3
  Factor = 2
  MaxLines = 5
SPECIFICATION Spec
CHECK_DEADLOCK FALSE
INVARIANTS TypeOK ReadsSucceed LogBounded
PROPERTIES AppendIsDurable ImplementsDurableMap
