SPECIFICATION FairSpec
CONSTANTS
  p1 = p1
  p2 = p2
  p3 = p3
  p4 = p4
  Packets = {p1, p2, p3, p4}
  DataLen <- MCDataLen
  Foreign = {p3}
  Broken = {p4}
  HeadLen = 2
  MaxReceive = 6
CHECK_DEADLOCK FALSE
INVARIANTS
  TypeOK
  DeliveredInOrder
  NothingHeldBack
PROPERTIES
  EventuallyDelivered
