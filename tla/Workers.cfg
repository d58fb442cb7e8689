SPECIFICATION MCSpec
CONSTANTS
  Tasks = {t1, t2, t3}
  Streams = {s1, s2}
  Timers = {m}
  Wakeup = Wakeup
  Stoppers = {p}
  None = None
  Threads = {l1, l2}
  Sizes = {1, 2, 4}
  MaxMemory = 3
  FlushLimit = 3
  Policies = {"Block", "DropNewest", "DropOldest"}
  Failing = {"write", "flush"}
  MaxPushes = 3
  MaxFlushes = 1
CHECK_DEADLOCK FALSE
INVARIANTS ResumesWaiting NoneForgotten Accounts
PROPERTIES Progress FlushPersists CallsReturn
