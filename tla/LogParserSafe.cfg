CONSTANTS
  NFiles = 3
  Entries <- AllEntries
  MaxRuns = 2
SPECIFICATION Spec
INVARIANTS
  TypeOK
  WholeFiles
  OncePerRun
  CleanRunIsComplete
  StatsTruthful
  RowPerRequest
