CONSTANTS
  b1 = b1
  b2 = b2
  a1 = a1
  a2 = a2
  t1 = t1
  t2 = t2
  None = None
  Orphan = Orphan
  Beats = {b1}
  Admins = {a1}
  Tasks = {t1,t2}
  OneOff = {t2}
  Defaults = {}
  Locals = {t1}
  Ops = {"create"}
  MaxEdit = 0
  MaxId = 2
  MaxRuns = 1
  MaxTime = 2
  Sub = 2
  Late = FALSE
  Faults = TRUE
  Crashes = FALSE
SPECIFICATION FairSpec
PROPERTIES
  SyncTerminates
