SPECIFICATION Spec
CONSTANTS
  Absent = Absent
  Workloads <- MCWorkloads
  MaxAttempts = 1
  RingCapacity = 2
  MaxSegment = 2
  MaxTotal = 2
INVARIANTS TypeOK RecordsKept EndsAgree ArrivesAsMeant ArmClearOfScreen
PROPERTIES ConnectsAgain CameraCatchesUp
CHECK_DEADLOCK FALSE
