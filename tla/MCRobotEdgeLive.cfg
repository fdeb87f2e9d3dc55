SPECIFICATION FairSpec
CONSTANTS
  ResumeWindow = 1
  BridgeWatchdog = 1
  Blackout = 1
  SettleTime = 1
  MaxRestarts = 1
  Actions = {}
  Sidecar = FALSE
  MaxQueue = 2
  MaxPipe = 1
  MaxEvents = 1
PROPERTIES
  EstopStopsTheLegs
  DeathForcesEstop
