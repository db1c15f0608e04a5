SPECIFICATION Spec
CONSTANTS
  Thread = {gpio, cli}
  Daemon = {gpio}
  Stops = TRUE
  Faults = {"watchdog"}
  Proc = {p1}
  Mask <- MCMask
  Settings <- MCDefault
  MaxRaise = 1
INVARIANTS
  TransitionAfterDump
CHECK_DEADLOCK FALSE
