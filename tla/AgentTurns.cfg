\* One being, two messages and the operator, a risky and an auto-run call, restarts,
\* the watchdog, and writes that fail.
CONSTANTS
  a1 = a1
  a2 = a2
  c1 = c1
  c2 = c2
  None = None
  Beings = {a1}
  Durable = {a1}
  MaxMessages = 2
  Calls = {c1, c2}
  Risky = {c1}
  MaxCalls = 1
  MaxTurn = 1
  MaxInbox = 1
  Watchdog = TRUE
  Faults = {"outbox", "put", "pending", "row"}
SPECIFICATION FairSpec
CHECK_DEADLOCK FALSE
INVARIANTS TypeOK AskedIsRecoverable ContinuedOnce AnswersOwnCalls AnsweredIsRemembered
PROPERTIES DeniedNeverRuns ImplementsAtMostOnce TurnsEnd ApprovalIsServed
