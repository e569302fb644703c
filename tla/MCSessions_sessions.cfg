CONSTANTS
  u1 = u1
  u2 = u2
  s1 = s1
  s2 = s2
  s3 = s3
  r1 = r1
  r2 = r2
  r3 = r3
  None = None
  Users = {u1}
  Sessions = {s1, s2, s3}
  Requests = {r1, r2}
  Covers <- MCCoversOne
  SnapshotReads = FALSE
  Ops = {"login", "swagger", "refresh", "password", "reset", "multi", "delete"}
SPECIFICATION Spec
SYMMETRY Symmetric
INVARIANTS
  TypeOK
  PasswordChangeEndsLogins
  LoginsExclusive
CHECK_DEADLOCK FALSE
