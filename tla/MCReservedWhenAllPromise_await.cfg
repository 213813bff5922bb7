SPECIFICATION Spec
CONSTANTS
  Tasks = {t1, t2, t3}
  Owner = owner
INVARIANTS
  ResumedOnce
  ResultIsTrue
PROPERTIES
  AwaitReturns
CHECK_DEADLOCK FALSE
