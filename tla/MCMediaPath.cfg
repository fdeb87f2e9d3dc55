SPECIFICATION Spec
CONSTANTS
  Sensors = {1, 2, 3}
  Selected = {1, 2, 3}
  IdrChunks = 2
  Scale = 3
  MaxUnit = 2
  Beams = 2
  Columns = 3
  Width = 3
  Height = 1
  SegmentWidth = 2
  PerSlice = 2
  MaxPendingFrames = 2
  MaxPendingNals = 1
  DeltaQueueCap = 1
  RestartGap = 3
  MaxInFlight = 2
  Workloads <- MCWorkloads
  Kind <- MCKind
  Readings <- MCReadings
CHECK_DEADLOCK FALSE
INVARIANTS
  TypeOK
  FreezeNotSmear
  TornOnlyAcrossReconnect
  ClassesTakeTurns
  ShowsWhatWasMeasured
PROPERTIES
  IdrKeepsParameterSets
  FinishSendsWhole
  SensorsAreLatestWins
