SPECIFICATION FairSpec
CONSTANTS
  ResumeWindow = 1
  Blackout = 1
  MoveStale = 1
  Observers = {TRUE, FALSE}
  MaxPresses = 2
INVARIANTS
  TypeOK
PROPERTIES
  ReleaseStops
  FreshStopLatches
  FreshStopHolds
