SPECIFICATION FairSpec
CONSTANTS
  n1 = n1
  n2 = n2
  p1 = p1
  p2 = p2
  p3 = p3
  Nodes = {n1, n2}
  Pods = {p1, p3}
  Containers = {"user", "queue"}
  NamespaceOf <- MCNamespaceOf
  Options <- MCOptions
  MaxDisturbances = 2
INVARIANTS
  TypeOK
  RowOnce
  PodsNeedNodes
  QuietTickIsComplete
PROPERTIES
  SettledPodsSampled
