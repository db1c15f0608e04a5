SPECIFICATION Spec
CONSTANTS
  a = a
  b = b
  c = c
  Process = {a, b}
  Argv <- MCTwoDaemons
  LongWords <- MCLongWords
  Overlap = "any"
  Faults = {"thread", "line"}
  MaxQueue = 4
  MaxCrash = 1
INVARIANTS
  OptionsOnce
PROPERTIES
  BlockedUnread
CHECK_DEADLOCK FALSE
