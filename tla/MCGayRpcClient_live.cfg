SPECIFICATION LoopSpec
CONSTANTS
  c1 = c1
  w1 = w1
  w2 = w2
  Callers = {c1}
  SyncCallers = {c1}
  Workers = {w1}
  Timeouts = {1}
  TimeoutCheck = TRUE
  ServiceID = 0
  MaxCalls = 2
  MaxTime = 1
PROPERTIES
  DeadlineKept
  SyncReturns
  TimersDrain
  ArmedTimerEnds
