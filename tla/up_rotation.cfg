SPECIFICATION FairSpec
CONSTANTS
  Threads = {t1}
  Writers = {w1, w2}
  Data = {a}
  None = None
  Users <- SharedUsers
  Start = 1
  Size = 1
  QSize = 1
  MaxRetries = 2
  CtrPeriod = 2
  Faults = {}
  Careful = TRUE
  MaxItems = 2
CHECK_DEADLOCK FALSE
INVARIANTS ServedOnce
PROPERTIES ItemsSettle CloseStopsWorker
