SPECIFICATION MCSpec
CONSTANTS
  p1 = p1
  p2 = p2
  p3 = p3
  m1 = m1
  m2 = m2
  None = None
  Procs = {p1, p2, p3}
  Size <- MCSize
  MayFail = {p1}
  MayCrash = {p1, p2, p3}
  MaxObjects = 3
  Users = {p1, p2}
  Msgs = {m1, m2}
  Words = {1, 2}
  Unset = Unset
  Modulus = 4
  Mortal = {p2}
  Fair = {p1, p2}
  MaxWrites = 2
  MaxFileSize = 2
  MaxFiles = 2
  Sizes = {1, 3}
  Failing = {"index", "open", "write"}
  CanCrash = TRUE
  MaxBytes = 8
  MaxStarts = 2
  Objects = {x, y, z}
  Fds = {1, 2}
  MaxSockets = 3
  MaxHandles = 2
  MaxFaults = 2
  MaxUnplugs = 1
CHECK_DEADLOCK FALSE
INVARIANTS SameObject Retention Returned Owned
PROPERTIES LatestRead CallsReturn Recovers
