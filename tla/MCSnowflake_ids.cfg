CONSTANTS
  p1 = p1
  p2 = p2
  None = None
  Procs = {p1, p2}
  Datacenters = 1
  Workers = 2
  SeqSize = 3
  Tolerance = 1
  MaxTime = 2
SPECIFICATION Spec
SYMMETRY Symmetric
INVARIANTS
  TypeOK
  UniqueIds
  ParseInvertsCompose
PROPERTY IdsIncrease
CHECK_DEADLOCK FALSE
