SPECIFICATION Spec
CONSTANTS
  c1 = c1
  w1 = w1
  w2 = w2
  Callers = {c1}
  SyncCallers = {}
  Workers = {w1}
  Timeouts = {0, 1}
  TimeoutCheck = FALSE
  ServiceID = 0
  MaxCalls = 1
  MaxTime = 1
INVARIANTS
  ZeroMeansNoTimeout
