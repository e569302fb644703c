CONSTANTS
  b1 = b1
  b2 = b2
  a1 = a1
  a2 = a2
  t1 = t1
  t2 = t2
  None = None
  Orphan = Orphan
  Beats = {b1}
  Admins = {a1}
  Tasks = {t1}
  OneOff = {}
  Defaults = {}
  Locals = {t1}
  Ops = {"update"}
  MaxEdit = 1
  MaxId = 1
  MaxRuns = 1
  MaxTime = 3
  Sub = 2
  Late = FALSE
  Faults = FALSE
  Crashes = FALSE
SPECIFICATION FairSpec
PROPERTIES
  ChangesNoticed
