SPECIFICATION Spec
CONSTANTS
  Threads = {t1}
  Writers = {w1}
  Data = {a}
  None = None
  Users <- SharedUsers
  Start = 1
  Size = 2
  QSize = 2
  MaxRetries = 2
  CtrPeriod = 1
  Faults = {}
  Careful = TRUE
  MaxItems = 1
CHECK_DEADLOCK FALSE
INVARIANTS StopsOnlyWhenIdle
