SPECIFICATION ScenariosSpec
CONSTANTS
  Shells = {"script", "terminal"}
  Keys <- MCKeys
  Values <- MCValues
  ManualCalls <- MCManualCalls
  Amounts <- MCAmounts
  Workers <- MCWorkers
  Rates <- MCRates
  Repetitions <- MCRepetitions
  Recipes <- RecipeNames
  MaxFailures = 0
  MaxManual = 0
  MaxRuns = 1
INVARIANTS
  AmountAsAnnounced
