SPECIFICATION FairSpec
CONSTANTS
  a1 = a1
  a2 = a2
  Requests = {1, 2}
  OneWay = {2}
  Chain <- Async
  Apps = {a1, a2}
CHECK_DEADLOCK FALSE
INVARIANTS
  TypeOK
  AnsweredAtMostOnce
  FlagAccountedFor
  OneResponseBearsTheNumber
  RejectionNamesRequest
PROPERTIES
  ErrorReported
