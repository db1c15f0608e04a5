SPECIFICATION Spec
CONSTANTS
  Sbe = {0, 1}
  Id = {i0, i1}
  Stray = {i0}
  Fd <- MCFd
  Effecters <- MCEffecters
  Sensors <- MCSensors
  SensorOf <- MCSensorOf
  SbeOf <- MCSbeOf
  Offset = 1
  Timeout = 3
  MaxRequest = 3
  MaxNoise = 1
INVARIANT
  DocSend
CHECK_DEADLOCK FALSE
