SPECIFICATION Spec
CONSTANTS
  Keys = {"map", "goal"}
  Objects = {"grid"}
  Workloads <- MCWorkloads
  MaxSamples = 3
  LargeUnits = 2
  ObjectUnits = 3
  Backlog = 3
  ChannelDepth = 2
  MaxStreams = 3
  DatagramUnits = 2
  CapBurst = 3
  LatestReserve = 2
  Window = 2
  MinRate = 1
  MaxRate = 2
  MinBurst = 2
INVARIANTS InOrder
CHECK_DEADLOCK FALSE
