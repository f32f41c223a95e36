CONSTANTS
  i1 = i1
  i2 = i2
  r1 = r1
  r2 = r2
  r3 = r3
  r4 = r4
  Instances = {i1, i2}
  Requests = {r1, r2, r3, r4}
  Handlers = {"exclusive", "free"}
SYMMETRY Symmetry
SPECIFICATION Spec
INVARIANTS
  OneCold
  SequentialWarm
