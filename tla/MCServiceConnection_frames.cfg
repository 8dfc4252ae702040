SPECIFICATION Spec
CONSTANTS
  r1 = r1
  r2 = r2
  MaxCreators = 2
  MaxUser = 0
  UserKinds = {"pass"}
  Ids = {0, 1}
  Requests = {r1, r2}
  IdAsked <- Asked
CHECK_DEADLOCK FALSE
INVARIANTS
  OneFramePerReply
