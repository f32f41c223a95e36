SPECIFICATION Spec
CONSTANTS
  Instances = {i1, i2}
  Requests = {q1, q2, q3}
  MaxStarts = 3
  Header = Header
  Torn = Torn
  Garbled = Garbled
  None = None
SYMMETRY RequestSymmetry
INVARIANTS
  RowOnce
  HeaderFirst
  HeadersBounded
  AckedLossBounded
  LeakExplained
