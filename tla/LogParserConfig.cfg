CONSTANTS
  NFiles = 1
  Entries <- AllEntries
  MaxRuns = 2
SPECIFICATION Spec
INVARIANT ConfigKept
