SPECIFICATION Spec
CONSTANTS
  c1 = c1
  w1 = w1
  w2 = w2
  Callers = {w1, w2}
  SyncCallers = {}
  Workers = {w1, w2}
  Timeouts = {0, 1}
  TimeoutCheck = TRUE
  ServiceID = 0
  MaxCalls = 2
  MaxTime = 1
SYMMETRY WorkerSymmetry
INVARIANTS
  TypeOK
  CalledBackAtMostOnce
  OneHolder
  NothingForgotten
  EveryDeadlineWatched
  NeverEarly
PROPERTIES
  SilentAfterUninstall
  PromiseKept
