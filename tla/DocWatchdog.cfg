SPECIFICATION Spec
CONSTANTS
  Thread = {gpio, cli}
  Daemon = {gpio}
  Stops = FALSE
  Faults = {}
  Proc = {p1}
  Mask <- MCMask
  Settings <- MCDefault
  MaxRaise = 1
INVARIANTS
  WatchdogOffInDump
CHECK_DEADLOCK FALSE
