SPECIFICATION Spec
CONSTANTS
  ResumeWindow = 1
  BridgeWatchdog = 1
  Blackout = 1
  SettleTime = 1
  MaxRestarts = 1
  Actions = {"Sit", "Stand", "Other"}
  Sidecar = TRUE
  MaxQueue = 2
  MaxPipe = 1
  MaxEvents = 1
INVARIANTS
  TypeOK
  EstopPrevails
  LatchedBridgeIsStill
  AckedShutdownIsStill
PROPERTIES
  NothingMovesUnderEstop
  GaitUndisturbed
