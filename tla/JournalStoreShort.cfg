\* A write of the running process may stop half-way.
CONSTANTS
  c1 = c1
  c2 = c2
  k1 = k1
  k2 = k2
  v1 = v1
  Absent = Absent
  None = None
  Clean = Clean
  Fragment = Fragment
  Junk = Junk
  Capacity = 2
  Callers <- TwoCallers
  Keys <- TwoKeys
  Values <- OneValue
  Faults = {"short"}
  MinRows = 3
  Factor = 2
  MaxLines = 5
SPECIFICATION Spec
CHECK_DEADLOCK FALSE
INVARIANTS ReadsSucceed
