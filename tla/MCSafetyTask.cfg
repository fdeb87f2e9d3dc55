SPECIFICATION Spec
CONSTANTS
  ResumeWindow = 4
  WatchdogThresholds <- MCThresholds
  RttSamples <- MCRttSamples
INVARIANTS
  TypeOK
  SuspendedIsTier4
  MemoryIsHonest
  NoDrivingInSilence
PROPERTIES
  ResumeInterlock
  OnlyClearUnlatches
