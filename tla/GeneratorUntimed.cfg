SPECIFICATION FairSpec
CONSTANTS
  Targets = 1
  RampSteps = 1
  MaxRequests = 3
  Configs <- UntimedConfigs
PROPERTIES
  DefaultTimeout
