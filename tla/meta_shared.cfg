SPECIFICATION Spec
CONSTANTS
  Handles = {h1}
  Proxies = {p1}
  Keys = {foo, state}
  Values = {v1, v2}
  Ignored = {state}
  Absent = Absent
  Keep = Keep
  NoCache = NoCache
  MaxRequests = 2
CHECK_DEADLOCK FALSE
PROPERTIES SaveSynchronises PlatformFieldsKept
