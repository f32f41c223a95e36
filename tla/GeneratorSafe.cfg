SPECIFICATION Spec
CONSTANTS
  Targets = 2
  RampSteps = 2
  MaxRequests = 5
  Configs <- SafeConfigs
INVARIANTS
  TypeOK
  WgCounts
  NothingInFlightAfterStart
  DurationOvershoot
  StopDrains
  CancelOvershoot
  OwnStopIsNoError
  PanicNeedsLateRequest
  CountNeverExceeds
