SPECIFICATION Spec
CONSTANTS
  Formats = {"msgpack"}
  StreamFaults = {"msgpack"}
  Timed = {"msgpack"}
  MaxItems = 4
  MaxAttempts = 3
  MaxRequests = 2
  MaxChunk = 3
  Firsts = {0, 1}
  Limits = {1, 3}
  Widths = {1, 2}
  Unlimited = 20
CHECK_DEADLOCK FALSE
INVARIANTS InOrder
