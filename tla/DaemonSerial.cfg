SPECIFICATION Spec
CONSTANTS
  a = a
  b = b
  c = c
  Process = {a, b, c}
  Argv <- MCStartStop
  LongWords <- MCLongWords
  Overlap = "none"
  Faults = {}
  MaxQueue = 4
  MaxCrash = 0
INVARIANTS
  CommandWhole
  QueueServed
  OffAsked
PROPERTIES
  Delivered
  StopStops
  StartMonitors
CHECK_DEADLOCK FALSE
