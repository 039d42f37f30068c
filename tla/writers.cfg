SPECIFICATION FairSpec
CONSTANTS
  t1 = t1
  t2 = t2
  slot1 = slot1
  log1 = log1
  log2 = log2
  items1 = items1
  items2 = items2
  Threads = {t1, t2}
  Resources = {slot1, log1, log2}
  Uses <- LogUses
  Slots = {slot1}
  Deleters = {t2}
  Appending = {log1, log2}
  Targets = {"slot", "log"}
  Target <- LogTarget
  JobWriters = {log1}
  Closes = {log1}
  Items = {a}
  None = None
  Writers = {1, 2}
  Size = 2
  MaxTries = 2
  MaxItems = 2
CHECK_DEADLOCK FALSE
INVARIANTS CountIsReported CountBounded AppendContinues
PROPERTIES ImplementsUploadLog FlushCounts CloseWritersDrains ClientCloseDrains CallsReturn
