SPECIFICATION MCSpec
CONSTANTS
  p1 = p1
  w1 = w1
  w2 = w2
  NoPeer = NoPeer
  Peers = {p1}
  MaxCreates = 3
  MaxInbox = 2
  t1 = t1
  t2 = t2
  MsgTypes = {t1, t2}
  NoMsgType = NoMsgType
  Sources = {w1, w2}
  Payloads <- MCPayloads
  Capacity <- MCCapacity
  MaxFragments = 3
  SequenceCount = 1
  MaxBytes = 4
  MaxSent = 2
  MaxFaults = 2
CHECK_DEADLOCK FALSE
INVARIANTS AllTold Reassembles
