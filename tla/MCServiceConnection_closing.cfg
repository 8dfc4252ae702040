SPECIFICATION FairSpec
CONSTANTS
  r1 = r1
  r2 = r2
  MaxCreators = 3
  MaxUser = 1
  UserKinds = {"pass", "keep"}
  Ids = {0, 1, 2}
  Requests = {r1, r2}
  IdAsked <- Asked
CHECK_DEADLOCK FALSE
INVARIANTS
  TypeOK
  ClosedInOrder
  ServesWhatWasAsked
PROPERTIES
  EveryServiceClosed
