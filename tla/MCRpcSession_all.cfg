SPECIFICATION Spec
CONSTANTS
  c1 = c1
  c2 = c2
  Clients = {c1, c2}
  Programs <- MCPrograms
  ServiceIDs = {0, 1}
  Methods = {2333, 9}
  Known = {2333}
  Codes <- MCCodes
  Messages <- MCMessages
  ChainLength = 3
  Extra <- NewField
  MaxCalls <- MCCalls
CHECK_DEADLOCK FALSE
INVARIANTS
  TypeOK
  AnswerMeetsItsCall
  ExecutedAsSent
  AnswerProvesExecution
  WrittenIsRead
  SizeAnnounced
  ChainsRunInOrder
PROPERTIES
  EndedForGood
  ResponseEndsItsCall
