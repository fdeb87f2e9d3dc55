SPECIFICATION Spec
CONSTANTS
  ResumeWindow = 1
  Blackout = 1
  MoveStale = 1
  Observers = {FALSE}
  MaxPresses = 1
PROPERTIES
  OnlyHumanUnlatches
