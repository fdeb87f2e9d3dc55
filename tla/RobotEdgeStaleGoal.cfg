SPECIFICATION Spec
CONSTANTS
  ResumeWindow = 1
  BridgeWatchdog = 1
  Blackout = 1
  SettleTime = 1
  MaxRestarts = 1
  Actions = {}
  Sidecar = TRUE
  MaxQueue = 2
  MaxPipe = 1
  MaxEvents = 1
PROPERTIES
  StaleGoalStopsDriving
