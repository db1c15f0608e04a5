SPECIFICATION Spec
CONSTANTS
  p1 = p1
  p2 = p2
  Vital = Vital
  Other = Other
  Proc <- MCProc
  Kind <- MCKind
  Unmasked <- MCUnmasked
  Clears = {TRUE, FALSE}
  Fifo = 2
  MaxRaise = 4
  MaxFault = 2
  MaxStart = 2
INVARIANTS
  TypeOK
  EdgeServed
  RunsBounded
PROPERTIES
  EdgeSeen
CHECK_DEADLOCK FALSE
