SPECIFICATION Spec
CONSTANTS
  a = a
  b = b
  c = c
  Process = {a, b, c}
  Argv <- MCClients
  LongWords <- MCLongWords
  Overlap = "clients"
  Faults = {}
  MaxQueue = 4
  MaxCrash = 0
INVARIANTS
  NothingLeft
PROPERTIES
  ProcessReturns
CHECK_DEADLOCK FALSE
