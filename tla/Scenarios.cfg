SPECIFICATION ScenariosSpec
CONSTANTS
  Shells = {"script", "terminal"}
  Keys <- MCKeys
  Values <- MCValues
  ManualCalls <- MCManualCalls
  Amounts <- MCAmounts
  Workers <- MCWorkers
  Rates <- MCRates
  Repetitions <- MCRepetitions
  Recipes <- RecipeNames
  MaxFailures = 1
  MaxManual = 1
  MaxRuns = 2
INVARIANTS
  PatchesHold
  EventingAsLabelled
  ServingAsLabelled
  AllButFirstRateMeasured
  
