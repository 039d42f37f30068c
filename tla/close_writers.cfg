SPECIFICATION Spec
CONSTANTS
  t1 = t1
  t2 = t2
  slot1 = slot1
  log1 = log1
  log2 = log2
  items1 = items1
  items2 = items2
  Threads = {t1}
  Resources = {items1, items2}
  Uses <- ItemsUses
  Slots = {}
  Deleters = {}
  Appending = {}
  Targets = {"items"}
  Target <- ItemsTarget
  JobWriters = {items1}
  Closes = {items2}
  Items = {a}
  None = None
  Writers = {1, 2}
  Size = 2
  MaxTries = 2
  MaxItems = 2
CHECK_DEADLOCK FALSE
PROPERTIES CloseWritersDrains
