\* The operator's kill switch and a restart: the dream task is registered under a new id.
CONSTANTS
  t1 = t1
  t2 = t2
  o1 = o1
  o2 = o2
  None = None
  Skill = Skill
  Tasks = {t1, t2}
  Dream = t1
  Interval <- MCInterval
  Cron = {t2}
  Occurs <- MCOccurs
  Operators = {o1}
  MaxTime = 2
  MaxRestarts = 1
  MaxWrites = 1
SPECIFICATION Spec
CHECK_DEADLOCK FALSE
PROPERTIES KillSwitchSurvivesRestart
