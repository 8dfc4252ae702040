SPECIFICATION LoopSpec
CONSTANTS
  c1 = c1
  w1 = w1
  w2 = w2
  Callers = {c1}
  SyncCallers = {c1}
  Workers = {w1}
  Timeouts = {1}
  TimeoutCheck = TRUE
  ServiceID = 1
  MaxCalls = 1
  MaxTime = 2
PROPERTIES
  ArmedTimerEnds
