SPECIFICATION FairSpec
CONSTANTS
  t1 = t1
  t2 = t2
  t3 = t3
  m1 = m1
  m2 = m2
  None = None
  Threads = {t1, t2, t3}
  Msgs = {m1, m2}
  Capacity = 2
  Overwrites = {TRUE, FALSE}
  Fair = {t1}
  MaxWrites = 3
CHECK_DEADLOCK FALSE
INVARIANTS NoDataRace QuiescentExact FalseExplained
PROPERTIES IsQueue CallsReturn
