SPECIFICATION Spec
CONSTANTS
  c1 = c1
  c2 = c2
  Clients = {c1, c2}
  N = 2
  Batches = {{1}, {1, 2}}
  PageSize = 1
  MaxRetries <- Retries
  DefaultRetries = 2
  Codes = {400}
  Timed = {c2}
  None = None
  Delays = {0, 12}
  Jitters = {0, 12}
  MaxCalls <- Bounds
  MaxLate = 1
CHECK_DEADLOCK FALSE
INVARIANT RetriedAsGiven
