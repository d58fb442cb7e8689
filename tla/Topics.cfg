SPECIFICATION MCSpec
CONSTANTS
  w1 = w1
  w2 = w2
  c1 = c1
  c2 = c2
  t1 = t1
  t2 = t2
  t3 = t3
  Writers = {w1, w2}
  Locals = {{}, {w1}, {w1, w2}}
  MaxWrites <- Bounds
  MaxRepeats = 1
  Clients = {c1, c2}
  Tasks = {t1, t2, t3}
  ClientOf <- SharedClient
  ServiceLocals = {{}, {c1}, {c2}}
  NoClient = NoClient
  Numbers = 4
  MaxCalls = 2
CHECK_DEADLOCK FALSE
INVARIANTS LastInOrder AnswersMatch
PROPERTIES LocalArrives
