SPECIFICATION FairSpec
CONSTANTS
  ResumeWindow = 1
  Blackout = 1
  MoveStale = 1
  Observers = {TRUE}
  MaxPresses = 1
PROPERTIES
  ObserverReleaseStops
