SPECIFICATION Spec
CONSTANTS
  a1 = a1
  a2 = a2
  Requests = {1}
  OneWay = {}
  Chain <- Auth
  Apps = {}
CHECK_DEADLOCK FALSE
INVARIANTS
  ErrorsNameTheirRequest
