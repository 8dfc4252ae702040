SPECIFICATION Spec
CONSTANTS
  a1 = a1
  a2 = a2
  Requests = {1}
  OneWay = {1}
  Chain <- Auth
  Apps = {}
CHECK_DEADLOCK FALSE
INVARIANTS
  OneWayIsSilent
