SPECIFICATION Spec
CONSTANTS
  Target <- MCTarget
  Type <- MCType
  Parent <- MCParent
  Pos <- MCPos
  Code <- MCCode
  Machine = TRUE
  Peer <- MCPeer
  Model <- MCModel
  Order <- MCOrder
  Files <- MCFiles
  ChipData <- MCChipData
  Hardware <- MCHardware
  Isolated <- MCIsolated
  Readings <- MCReadings
  Quiet <- MCQuiet
INVARIANTS
  TypeOK
  BlamesBest
  NoneToBlame
  RelayNotBlamed
  CalloutsExact
  SubsystemExact
  SomebodyCalled
  StackHoldsBroken
  TodGuards
PROPERTIES
  CalloutsKept
CHECK_DEADLOCK FALSE
