SPECIFICATION Spec
CONSTANTS
  c1 = c1
  c2 = c2
  j1 = j1
  j2 = j2
  other = other
  Clients = {c1, c2}
  Keys = {j1, j2, other}
  ProjectOf <- Projects
  Existing = {other}
  Uniques = {u}
  None = None
  Codes = {404, 409}
  MaxTries = 2
  MaxCalls <- Bounds
CHECK_DEADLOCK FALSE
INVARIANTS ReturnTellsAll PushTells JobSetAsksOnce JobSetAsksAll
PROPERTIES StaysInProject
