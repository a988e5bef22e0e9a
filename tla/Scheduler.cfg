\* A dream task every two seconds and a cron task, one operator and the skill, one restart.
CONSTANTS
  t1 = t1
  t2 = t2
  o1 = o1
  o2 = o2
  None = None
  Skill = Skill
  Tasks = {t1, t2}
  Dream = t1
  Interval <- MCInterval
  Cron = {t2}
  Occurs <- MCOccurs
  Operators = {o1}
  MaxTime = 2
  MaxRestarts = 1
  MaxWrites = 2
SPECIFICATION FairSpec
CHECK_DEADLOCK FALSE
INVARIANTS TypeOK OffRunsOnceMore FileAgrees
PROPERTIES Spaced DueIsServed
