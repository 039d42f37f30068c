SPECIFICATION FairSpec
CONSTANTS
  Threads = {t1, t2}
  Writers = {w1}
  Data = {a}
  None = None
  Users <- SharedUsers
  Start = 1
  Size = 2
  QSize = 1
  MaxRetries = 2
  CtrPeriod = 1
  Faults = {"status"}
  Careful = TRUE
  MaxItems = 3
CHECK_DEADLOCK FALSE
INVARIANTS JoinCountsPending NothingLeftBehind
PROPERTIES JoinIsABarrier JoinReturns PutReturns
