SPECIFICATION FairSpec
CONSTANTS
  t1 = t1
  t2 = t2
  d1 = d1
  d2 = d2
  h1 = h1
  h2 = h2
  Threads = {t1, t2}
  Dispatchers = {d1, d2}
  Types = {"REQUEST", "RESPONSE"}
  Services = {0, 1}
  Handlers = {h1, h2}
INVARIANTS
  TypeOK
  RunningIsRegistered
PROPERTIES
  FirstRegistrationStays
  OthersStay
  WritersReturn
