\* Two beings that share the runtime; nothing fails and nothing is dropped.
CONSTANTS
  a1 = a1
  a2 = a2
  c1 = c1
  c2 = c2
  None = None
  Beings = {a1, a2}
  Durable = {a1}
  Calls = {c1, c2}
  Risky = {c1}
  MaxCalls = 1
  MaxTurn = 1
  MaxInbox = 1
  MaxMessages = 1
  Watchdog = FALSE
  Faults = {}
SPECIFICATION Spec
CHECK_DEADLOCK FALSE
INVARIANT CallsGetTheirOwnAnswer
