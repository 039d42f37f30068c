SPECIFICATION Spec
CONSTANTS
  Threads = {t1}
  Writers = {w1}
  Data = {a, b}
  None = None
  Users <- SharedUsers
  Start = 1
  Size = 2
  QSize = 2
  MaxRetries = 2
  CtrPeriod = 1
  Faults = {"retry", "status", "fatal", "encoding"}
  Careful = TRUE
  MaxItems = 3
SYMMETRY DataSymmetry
CHECK_DEADLOCK FALSE
INVARIANTS TypeOK EveryItemInItsPlace OffsetCoversSettled IdIsPosition
PROPERTIES ImplementsUploadLog
