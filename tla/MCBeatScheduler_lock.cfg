CONSTANTS
  b1 = b1
  b2 = b2
  a1 = a1
  a2 = a2
  t1 = t1
  t2 = t2
  None = None
  Orphan = Orphan
  Beats = {b1, b2}
  Admins = {a1}
  Tasks = {t1}
  OneOff = {}
  Defaults = {}
  Locals = {t1}
  Ops = {}
  MaxEdit = 0
  MaxId = 1
  MaxRuns = 1
  MaxTime = 0
  Sub = 2
  Late = FALSE
  Faults = TRUE
  Crashes = TRUE
SPECIFICATION FairSpec
INVARIANTS
  SoleBeat
PROPERTIES
  TakenOver
