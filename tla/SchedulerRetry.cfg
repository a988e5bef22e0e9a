\* A run of the cron task fails and a later tick of the same window comes to it again.
CONSTANTS
  t1 = t1
  t2 = t2
  o1 = o1
  o2 = o2
  None = None
  Skill = Skill
  Tasks = {t1, t2}
  Dream = t1
  Interval <- MCInterval
  Cron = {t2}
  Occurs <- MCOccurs
  Operators = {o1}
  MaxTime = 2
  MaxRestarts = 0
  MaxWrites = 0
SPECIFICATION Spec
CHECK_DEADLOCK FALSE
PROPERTIES RetriesNextTick
