SPECIFICATION FairSpec
CONSTANTS
  Targets = 1
  RampSteps = 1
  MaxRequests = 2
  Configs <- TimedConfigs
PROPERTIES
  ProgramEnds
  CancelEndsProgram
  LeakReclaimed
  PromiseKept
