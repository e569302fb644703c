CONSTANTS
  b1 = b1
  b2 = b2
  a1 = a1
  a2 = a2
  t1 = t1
  t2 = t2
  None = None
  Orphan = Orphan
  Beats = {b1}
  Admins = {a1}
  Tasks = {t1}
  OneOff = {}
  Defaults = {}
  Locals = {t1}
  Ops = {"create", "update", "toggle", "delete"}
  MaxEdit = 1
  MaxId = 2
  MaxRuns = 2
  MaxTime = 1
  Sub = 1
  Late = TRUE
  Faults = FALSE
  Crashes = TRUE
SPECIFICATION Spec
INVARIANTS
  TypeOK
  
PROPERTIES
  
  AdminChangesKept
