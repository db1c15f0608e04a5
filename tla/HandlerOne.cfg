SPECIFICATION Spec
CONSTANTS
  Thread = {gpio}
  Daemon = {gpio}
  Stops = FALSE
  Faults = {"cfam"}
  Proc = {p1, p2}
  Mask <- MCMask
  Settings <- MCSettings
  MaxRaise = 2
INVARIANTS
  TypeOK
  OneTransition
  DumpHasLog
  TransitionAfterDump
  TransitionLogged
  WatchdogExact
  DownInPriority
  TriedOnce
PROPERTIES
  Returns
  ImplementsService
CHECK_DEADLOCK FALSE
