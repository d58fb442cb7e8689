SPECIFICATION FairSpec
CONSTANTS
  p1 = p1
  p2 = p2
  p3 = p3
  short = short
  long = long
  huge = huge
  None = None
  Procs = {p1, p2, p3}
  Msgs <- MCMsgs
  Length <- MCLength
  Capacity = 2
  Mortal = {p3}
  Fair = {p1, p2, p3}
  MaxWrites = 2
CHECK_DEADLOCK FALSE
PROPERTIES IsRegister CallsReturn
