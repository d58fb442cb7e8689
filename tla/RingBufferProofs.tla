--------------------------- MODULE RingBufferProofs ---------------------------
(***************************************************************************)
(* RingBufferSlotSHM with two slots or more is safe for any number of      *)
(* threads, any messages and any capacity: the invariant IInv of           *)
(* RingBufferSlotSHM is inductive, and the safety properties follow.       *)
(*                                                                         *)
(* The argument: the Capacity tickets from head on use each slot exactly   *)
(* once, so that the sequence number of a slot tells in which stage of its *)
(* life the one ticket is that may use the slot now (Window).  A           *)
(* successful compare-exchange on a counter therefore proves that the      *)
(* stage seen before it is still the stage now (Seen), since sequence      *)
(* numbers only grow.                                                      *)
(***************************************************************************)
EXTENDS RingBufferSlotSHM, SequenceTheorems, TLAPS

-----------------------------------------------------------------------------
(* Slots of tickets *)

LEMMA Division ==
  ASSUME NEW p \in Nat
  PROVE  /\ p \div Capacity \in Nat
         /\ p % Capacity \in Slots
         /\ p = Capacity * (p \div Capacity) + (p % Capacity)
BY CapacityAssumption DEF Slots

LEMMA Distribute ==
  ASSUME NEW a \in Nat, NEW b \in Nat
  PROVE  Capacity * (b - a) = Capacity * b - Capacity * a
BY CapacityAssumption

LEMMA AtLeastOnce ==
  ASSUME NEW k \in Int, k >= 1
  PROVE  Capacity * k >= Capacity
BY CapacityAssumption

LEMMA SameRemainder ==
  ASSUME NEW a \in Nat, NEW b \in Nat, NEW r \in Slots, NEW s \in Slots,
         Capacity * a + r = Capacity * b + s
  PROVE  r = s
<1>1. Capacity * (b - a) = r - s /\ Capacity * (a - b) = s - r
  BY Distribute, CapacityAssumption DEF Slots
<1>2. CASE b - a >= 1
  BY <1>1, <1>2, AtLeastOnce, CapacityAssumption DEF Slots
<1>3. CASE a - b >= 1
  BY <1>1, <1>3, AtLeastOnce, CapacityAssumption DEF Slots
<1>4. CASE a = b
  BY <1>4, CapacityAssumption DEF Slots
<1>5. QED
  BY <1>2, <1>3, <1>4

LEMMA SlotType ==
  ASSUME NEW p \in Nat
  PROVE  Slot(p) \in Slots
BY Division DEF Slot

(* A ticket and the one Capacity later use the same slot.                  *)
LEMMA SlotNext ==
  ASSUME NEW p \in Nat
  PROVE  Slot(p + Capacity) = Slot(p)
<1> DEFINE a == p \div Capacity + 1
           b == (p + Capacity) \div Capacity
           r == p % Capacity
           s == (p + Capacity) % Capacity
<1>1. p \div Capacity \in Nat /\ r \in Slots /\ p = Capacity * (p \div Capacity) + r
  BY Division
<1>2. b \in Nat /\ s \in Slots /\ p + Capacity = Capacity * b + s
  BY SMTT(30), Division, CapacityAssumption
<1>3. p + Capacity = Capacity * a + r /\ a \in Nat
  BY <1>1, CapacityAssumption DEF Slots
<1> HIDE DEF a, b, r, s
<1>4. r = s
  BY <1>1, <1>2, <1>3, SameRemainder
<1>5. QED
  BY <1>4 DEF r, s, Slot

(* Two tickets of one slot are at least Capacity apart.                    *)
LEMMA SlotApart ==
  ASSUME NEW p \in Nat, NEW q \in Nat, Slot(p) = Slot(q), p < q
  PROVE  p + Capacity <= q
<1> DEFINE a == p \div Capacity
           b == q \div Capacity
           r == p % Capacity
<1>1. /\ a \in Nat /\ b \in Nat /\ r \in Slots
      /\ p = Capacity * a + r
      /\ q = Capacity * b + r
  BY Division DEF Slot
<1> HIDE DEF a, b, r
<1>2. q - p = Capacity * (b - a)
  BY <1>1, Distribute, CapacityAssumption DEF Slots
<1>3. b - a >= 1
  <2>1. SUFFICES ASSUME a - b >= 0 PROVE FALSE
    BY <1>1
  <2>2. Capacity * (a - b) >= 0
    BY <1>1, <2>1, CapacityAssumption
  <2>3. Capacity * (a - b) = p - q
    BY <1>1, Distribute, CapacityAssumption DEF Slots
  <2>4. QED
    BY <2>2, <2>3
<1>4. QED
  BY <1>1, <1>2, <1>3, AtLeastOnce, CapacityAssumption

-----------------------------------------------------------------------------
(* Type correctness *)

LEMMA TypeInit == Init => TypeOK /\ Arguments /\ EmptyHanded /\ Behind
BY CapacityAssumption DEF Init, TypeOK, Arguments, EmptyHanded, Behind, Slots, PCs, Writing

LEMMA TypeStep == TypeOK /\ Arguments /\ [Next]_vars => TypeOK'
<1> SUFFICES ASSUME TypeOK, Arguments, [Next]_vars PROVE TypeOK'
  OBVIOUS
<1> USE DEF TypeOK, PCs, Goto, Return
<1>1. ASSUME NEW t \in Threads, NEW m \in Msgs, NEW o \in Overwrites, StartWrite(t, m, o)
      PROVE  TypeOK'
  BY <1>1, OverwritesAssumption DEF StartWrite
<1>2. ASSUME NEW t \in Threads, StartRead(t)
      PROVE  TypeOK'
  BY <1>2 DEF StartRead
<1>3. ASSUME NEW t \in Threads, WriteStep(t)
      PROVE  TypeOK'
  <2>1. CASE LoadWriteSeq(t)    BY <2>1 DEF LoadWriteSeq
  <2>2. CASE WriteFull(t)       BY <2>2 DEF WriteFull
  <2>3. CASE ReloadTail(t)      BY <2>3 DEF ReloadTail
  <2>4. CASE ClaimTail(t)
    <3>1. val[t] \in Msgs
      BY <2>4 DEF ClaimTail, Arguments, Writing
    <3>2. QED BY <2>4, <3>1 DEF ClaimTail
  <2>5. CASE ClaimTailFails(t)  BY <2>5 DEF ClaimTailFails
  <2>6. CASE StoreData(t)       BY <2>6 DEF StoreData
  <2>7. CASE Publish(t)
    <3>1. pos[t] + 1 \in Nat
      OBVIOUS
    <3>2. seq' \in [Slots -> Nat]
      BY <2>7, <3>1 DEF Publish
    <3>3. QED BY <2>7, <3>2 DEF Publish
  <2>8. CASE LoadHead(t)        BY <2>8 DEF LoadHead
  <2>9. CASE LoadHeadSeq(t)
    <3>1. CASE seq[Slot(hpos[t])] = hpos[t] + 1
      BY <2>9, <3>1 DEF LoadHeadSeq
    <3>2. CASE seq[Slot(hpos[t])] # hpos[t] + 1
      <4>1. /\ Goto(t, "wseq")
            /\ hpos' = [hpos EXCEPT ![t] = 0]
            /\ UNCHANGED <<head, tail, seq, data, pos, val, ow, got, log>>
        BY <2>9, <3>2 DEF LoadHeadSeq
      <4>2. QED BY <4>1
    <3>3. QED BY <3>1, <3>2
  <2>10. CASE ClaimHead(t)      BY <2>10 DEF ClaimHead
  <2>11. CASE ClaimHeadFails(t) BY <2>11 DEF ClaimHeadFails
  <2>12. CASE FreeDiscarded(t)
    <3>1. hpos[t] + Capacity \in Nat
      BY CapacityAssumption
    <3>2. seq' \in [Slots -> Nat]
      BY <2>12, <3>1 DEF FreeDiscarded
    <3>3. QED BY <2>12, <3>2 DEF FreeDiscarded
  <2>13. QED BY <1>3, <2>1, <2>2, <2>3, <2>4, <2>5, <2>6, <2>7, <2>8, <2>9, <2>10,
                <2>11, <2>12 DEF WriteStep
<1>4. ASSUME NEW t \in Threads, ReadStep(t)
      PROVE  TypeOK'
  <2>1. CASE LoadReadSeq(t)     BY <2>1 DEF LoadReadSeq
  <2>2. CASE ReadEmpty(t)       BY <2>2 DEF ReadEmpty
  <2>3. CASE ReloadHead(t)      BY <2>3 DEF ReloadHead
  <2>4. CASE ClaimRead(t)       BY <2>4 DEF ClaimRead
  <2>5. CASE ClaimReadFails(t)  BY <2>5 DEF ClaimReadFails
  <2>6. CASE CopyData(t)        BY <2>6, SlotType DEF CopyData
  <2>7. CASE Release(t)
    <3>1. pos[t] + Capacity \in Nat
      BY CapacityAssumption
    <3>2. seq' \in [Slots -> Nat]
      BY <2>7, <3>1 DEF Release
    <3>3. QED BY <2>7, <3>2 DEF Release
  <2>8. QED BY <1>4, <2>1, <2>2, <2>3, <2>4, <2>5, <2>6, <2>7 DEF ReadStep
<1>5. CASE UNCHANGED vars
  BY <1>5 DEF vars
<1>6. QED
  BY <1>1, <1>2, <1>3, <1>4, <1>5 DEF Next

LEMMA ArgumentsStep == TypeOK /\ Arguments /\ [Next]_vars => Arguments'
<1> SUFFICES ASSUME TypeOK, Arguments, [Next]_vars PROVE Arguments'
  OBVIOUS
<1> USE DEF TypeOK, Arguments, Writing, Goto, Return
<1>1. ASSUME NEW t \in Threads, NEW m \in Msgs, NEW o \in Overwrites, StartWrite(t, m, o)
      PROVE  Arguments'
  BY <1>1 DEF StartWrite
<1>2. ASSUME NEW t \in Threads, StartRead(t)
      PROVE  Arguments'
  BY <1>2 DEF StartRead
<1>3. ASSUME NEW t \in Threads, WriteStep(t)
      PROVE  Arguments'
  <2>1. CASE LoadWriteSeq(t)   BY <2>1 DEF LoadWriteSeq
  <2>2. CASE WriteFull(t)      BY <2>2 DEF WriteFull
  <2>3. CASE ReloadTail(t)     BY <2>3 DEF ReloadTail
  <2>4. CASE ClaimTail(t)      BY <2>4 DEF ClaimTail
  <2>5. CASE ClaimTailFails(t) BY <2>5 DEF ClaimTailFails
  <2>6. CASE StoreData(t)      BY <2>6 DEF StoreData
  <2>7. CASE Publish(t)        BY <2>7 DEF Publish
  <2>8. CASE LoadHead(t)       BY <2>8 DEF LoadHead
  <2>9. CASE LoadHeadSeq(t)    BY <2>9 DEF LoadHeadSeq
  <2>10. CASE ClaimHead(t)     BY <2>10 DEF ClaimHead
  <2>11. CASE ClaimHeadFails(t) BY <2>11 DEF ClaimHeadFails
  <2>12. CASE FreeDiscarded(t) BY <2>12 DEF FreeDiscarded
  <2>13. QED BY <1>3, <2>1, <2>2, <2>3, <2>4, <2>5, <2>6, <2>7, <2>8, <2>9, <2>10, <2>11, <2>12 DEF WriteStep
<1>4. ASSUME NEW t \in Threads, ReadStep(t)
      PROVE  Arguments'
  <2>1. CASE LoadReadSeq(t)    BY <2>1 DEF LoadReadSeq
  <2>2. CASE ReadEmpty(t)      BY <2>2 DEF ReadEmpty
  <2>3. CASE ReloadHead(t)     BY <2>3 DEF ReloadHead
  <2>4. CASE ClaimRead(t)      BY <2>4 DEF ClaimRead
  <2>5. CASE ClaimReadFails(t) BY <2>5 DEF ClaimReadFails
  <2>6. CASE CopyData(t)       BY <2>6 DEF CopyData
  <2>7. CASE Release(t)        BY <2>7 DEF Release
  <2>8. QED BY <1>4, <2>1, <2>2, <2>3, <2>4, <2>5, <2>6, <2>7 DEF ReadStep
<1>5. CASE UNCHANGED vars
  BY <1>5 DEF vars
<1>6. QED
  BY <1>1, <1>2, <1>3, <1>4, <1>5 DEF Next

LEMMA EmptyHandedStep == TypeOK /\ EmptyHanded /\ [Next]_vars => EmptyHanded'
<1> SUFFICES ASSUME TypeOK, EmptyHanded, [Next]_vars PROVE EmptyHanded'
  OBVIOUS
<1> USE DEF TypeOK, EmptyHanded, Goto, Return
<1>1. ASSUME NEW t \in Threads, NEW m \in Msgs, NEW o \in Overwrites, StartWrite(t, m, o)
      PROVE  EmptyHanded'
  BY <1>1 DEF StartWrite
<1>2. ASSUME NEW t \in Threads, StartRead(t)
      PROVE  EmptyHanded'
  BY <1>2 DEF StartRead
<1>3. ASSUME NEW t \in Threads, WriteStep(t)
      PROVE  EmptyHanded'
  <2>1. CASE LoadWriteSeq(t)   BY <2>1 DEF LoadWriteSeq
  <2>2. CASE WriteFull(t)      BY <2>2 DEF WriteFull
  <2>3. CASE ReloadTail(t)     BY <2>3 DEF ReloadTail
  <2>4. CASE ClaimTail(t)      BY <2>4 DEF ClaimTail
  <2>5. CASE ClaimTailFails(t) BY <2>5 DEF ClaimTailFails
  <2>6. CASE StoreData(t)      BY <2>6 DEF StoreData
  <2>7. CASE Publish(t)        BY <2>7 DEF Publish
  <2>8. CASE LoadHead(t)       BY <2>8 DEF LoadHead
  <2>9. CASE LoadHeadSeq(t)    BY <2>9 DEF LoadHeadSeq
  <2>10. CASE ClaimHead(t)     BY <2>10 DEF ClaimHead
  <2>11. CASE ClaimHeadFails(t) BY <2>11 DEF ClaimHeadFails
  <2>12. CASE FreeDiscarded(t) BY <2>12 DEF FreeDiscarded
  <2>13. QED BY <1>3, <2>1, <2>2, <2>3, <2>4, <2>5, <2>6, <2>7, <2>8, <2>9, <2>10, <2>11, <2>12 DEF WriteStep
<1>4. ASSUME NEW t \in Threads, ReadStep(t)
      PROVE  EmptyHanded'
  <2>1. CASE LoadReadSeq(t)    BY <2>1 DEF LoadReadSeq
  <2>2. CASE ReadEmpty(t)      BY <2>2 DEF ReadEmpty
  <2>3. CASE ReloadHead(t)     BY <2>3 DEF ReloadHead
  <2>4. CASE ClaimRead(t)      BY <2>4 DEF ClaimRead
  <2>5. CASE ClaimReadFails(t) BY <2>5 DEF ClaimReadFails
  <2>6. CASE CopyData(t)       BY <2>6 DEF CopyData
  <2>7. CASE Release(t)        BY <2>7 DEF Release
  <2>8. QED BY <1>4, <2>1, <2>2, <2>3, <2>4, <2>5, <2>6, <2>7 DEF ReadStep
<1>5. CASE UNCHANGED vars
  BY <1>5 DEF vars
<1>6. QED
  BY <1>1, <1>2, <1>3, <1>4, <1>5 DEF Next

LEMMA BehindStep == TypeOK /\ Behind /\ [Next]_vars => Behind'
<1> SUFFICES ASSUME TypeOK, Behind, [Next]_vars PROVE Behind'
  OBVIOUS
<1> USE DEF TypeOK, Behind, Goto, Return
<1>1. ASSUME NEW t \in Threads, NEW m \in Msgs, NEW o \in Overwrites, StartWrite(t, m, o)
      PROVE  Behind'
  BY <1>1 DEF StartWrite
<1>2. ASSUME NEW t \in Threads, StartRead(t)
      PROVE  Behind'
  BY <1>2 DEF StartRead
<1>3. ASSUME NEW t \in Threads, WriteStep(t)
      PROVE  Behind'
  <2>1. CASE LoadWriteSeq(t)   BY <2>1 DEF LoadWriteSeq
  <2>2. CASE WriteFull(t)      BY <2>2 DEF WriteFull
  <2>3. CASE ReloadTail(t)     BY <2>3 DEF ReloadTail
  <2>4. CASE ClaimTail(t)      BY <2>4 DEF ClaimTail
  <2>5. CASE ClaimTailFails(t) BY <2>5 DEF ClaimTailFails
  <2>6. CASE StoreData(t)      BY <2>6 DEF StoreData
  <2>7. CASE Publish(t)        BY <2>7 DEF Publish
  <2>8. CASE LoadHead(t)       BY <2>8 DEF LoadHead
  <2>9. CASE LoadHeadSeq(t)    BY <2>9 DEF LoadHeadSeq
  <2>10. CASE ClaimHead(t)     BY <2>10 DEF ClaimHead
  <2>11. CASE ClaimHeadFails(t) BY <2>11 DEF ClaimHeadFails
  <2>12. CASE FreeDiscarded(t) BY <2>12 DEF FreeDiscarded
  <2>13. QED BY <1>3, <2>1, <2>2, <2>3, <2>4, <2>5, <2>6, <2>7, <2>8, <2>9, <2>10, <2>11, <2>12 DEF WriteStep
<1>4. ASSUME NEW t \in Threads, ReadStep(t)
      PROVE  Behind'
  <2>1. CASE LoadReadSeq(t)    BY <2>1 DEF LoadReadSeq
  <2>2. CASE ReadEmpty(t)      BY <2>2 DEF ReadEmpty
  <2>3. CASE ReloadHead(t)     BY <2>3 DEF ReloadHead
  <2>4. CASE ClaimRead(t)      BY <2>4 DEF ClaimRead
  <2>5. CASE ClaimReadFails(t) BY <2>5 DEF ClaimReadFails
  <2>6. CASE CopyData(t)       BY <2>6 DEF CopyData
  <2>7. CASE Release(t)        BY <2>7 DEF Release
  <2>8. QED BY <1>4, <2>1, <2>2, <2>3, <2>4, <2>5, <2>6, <2>7 DEF ReadStep
<1>5. CASE UNCHANGED vars
  BY <1>5 DEF vars
<1>6. QED
  BY <1>1, <1>2, <1>3, <1>4, <1>5 DEF Next

-----------------------------------------------------------------------------
(* The inductive invariant *)

(* What the other threads' locals are in a step of t.                      *)
Others(t) ==
  \A u \in Threads \ {t} :
    /\ pc'[u] = pc[u] /\ pos'[u] = pos[u] /\ hpos'[u] = hpos[u]
    /\ val'[u] = val[u] /\ got'[u] = got[u]

(* Sequence numbers only grow, so what the others have seen stays true.    *)
LEMMA OthersSeen ==
  ASSUME IInv, NEW t \in Threads, Others(t),
         \A i \in Slots : seq'[i] >= seq[i], seq' \in [Slots -> Nat],
         SeenBy(t)'
  PROVE  Seen'
<1>1. ASSUME NEW u \in Threads, u # t
      PROVE  SeenBy(u)'
  <2>1. SeenBy(u)
    BY DEF IInv, Seen
  <2>2. Slot(pos[u]) \in Slots /\ Slot(hpos[u]) \in Slots
    BY SlotType DEF IInv, TypeOK
  <2>3. pc'[u] = pc[u] /\ pos'[u] = pos[u] /\ hpos'[u] = hpos[u]
    BY <1>1 DEF Others
  <2>4. QED
    BY <2>1, <2>2, <2>3 DEF SeenBy, IInv, TypeOK
<1>2. QED
  BY <1>1 DEF Seen

(* The program points at which a thread holds a ticket.                    *)
Holding == {"wdata", "wpub", "rcopy", "rrel", "hrel"}

(* A step of t that touches no shared variable and neither starts nor ends *)
(* a hold disturbs nothing but what t has seen.                            *)
Quiet(t) ==
  /\ UNCHANGED <<head, tail, seq, data, log>>
  /\ pc[t] \notin Holding /\ pc'[t] \notin Holding
  /\ Others(t)
  /\ SeenBy(t)'

LEMMA QuietStep ==
  ASSUME IInv, NEW t \in Threads, Quiet(t)
  PROVE  Counters' /\ Window' /\ Held' /\ OneHolder' /\ Seen'
<1>1. ASSUME NEW u \in Threads, NEW p \in Int
      PROVE  /\ WriterHolds(u, p)' <=> WriterHolds(u, p)
             /\ ConsumerHolds(u, p)' <=> ConsumerHolds(u, p)
  <2>1. CASE u = t
    BY <2>1 DEF Quiet, Holding, WriterHolds, ConsumerHolds
  <2>2. CASE u # t
    BY <2>2 DEF Quiet, Others, WriterHolds, ConsumerHolds
  <2>3. QED BY <2>1, <2>2
<1>2. Counters'
  BY DEF IInv, Counters, Quiet
<1>3. Window'
  BY <1>1, CapacityAssumption DEF IInv, TypeOK, Window, Quiet
<1>4. Held'
  BY DEF IInv, Held, HeldBy, Quiet, Others, Holding
<1>5. OneHolder'
  BY <1>1 DEF IInv, TypeOK, OneHolder, Quiet
<1>6. Seen'
  <2>1. Others(t) /\ SeenBy(t)'
    BY DEF Quiet
  <2>2. seq' \in [Slots -> Nat] /\ \A i \in Slots : seq'[i] >= seq[i]
    BY DEF Quiet, IInv, TypeOK
  <2>3. QED BY <2>1, <2>2, OthersSeen
<1>7. QED
  BY <1>2, <1>3, <1>4, <1>5, <1>6

LEMMA QuietActions ==
  ASSUME IInv, NEW t \in Threads,
         \/ \E m \in Msgs, o \in Overwrites : StartWrite(t, m, o)
         \/ LoadWriteSeq(t) \/ WriteFull(t) \/ ReloadTail(t) \/ ClaimTailFails(t)
         \/ LoadHead(t) \/ LoadHeadSeq(t) \/ ClaimHeadFails(t)
         \/ StartRead(t) \/ LoadReadSeq(t) \/ ReadEmpty(t) \/ ReloadHead(t)
         \/ ClaimReadFails(t)
  PROVE  Quiet(t)
<1> USE DEF IInv, TypeOK, Quiet, Others, Holding, Goto, Return, SeenBy
<1>1. CASE \E m \in Msgs, o \in Overwrites : StartWrite(t, m, o)
  BY <1>1 DEF StartWrite
<1>2. CASE LoadWriteSeq(t)
  BY <1>2 DEF LoadWriteSeq
<1>3. CASE WriteFull(t)
  BY <1>3 DEF WriteFull
<1>4. CASE ReloadTail(t)
  BY <1>4 DEF ReloadTail
<1>5. CASE ClaimTailFails(t)
  BY <1>5 DEF ClaimTailFails
<1>6. CASE LoadHead(t)
  BY <1>6 DEF LoadHead
<1>7. CASE LoadHeadSeq(t)
  BY <1>7 DEF LoadHeadSeq
<1>8. CASE ClaimHeadFails(t)
  BY <1>8 DEF ClaimHeadFails
<1>9. CASE StartRead(t)
  BY <1>9 DEF StartRead
<1>10. CASE LoadReadSeq(t)
  BY <1>10 DEF LoadReadSeq
<1>11. CASE ReadEmpty(t)
  BY <1>11 DEF ReadEmpty
<1>12. CASE ReloadHead(t)
  BY <1>12 DEF ReloadHead
<1>13. CASE ClaimReadFails(t)
  BY <1>13 DEF ClaimReadFails
<1>14. QED
  BY <1>1, <1>2, <1>3, <1>4, <1>5, <1>6, <1>7, <1>8, <1>9, <1>10, <1>11, <1>12, <1>13

(* A claim of a ticket by a writer: the slot really is free.               *)
LEMMA FreeSlot ==
  ASSUME Capacity > 1, IInv, NEW t \in Threads, pc[t] = "wcas", pos[t] = tail
  PROVE  /\ tail < head + Capacity
         /\ seq[Slot(tail)] = tail
         /\ \A u \in Threads : ~ConsumerHolds(u, tail - Capacity)
<1> USE CapacityAssumption DEF IInv, TypeOK, Counters
<1>1. seq[Slot(tail)] >= tail
  BY DEF Seen, SeenBy
<1>2. tail < head + Capacity
  <2>1. SUFFICES ASSUME tail = head + Capacity PROVE FALSE
    OBVIOUS
  <2>2. Slot(tail) = Slot(head)
    BY <2>1, SlotNext
  <2>3. seq[Slot(head)] = head \/ seq[Slot(head)] = head + 1
    BY <2>1 DEF Window
  <2>4. QED BY <1>1, <2>1, <2>2, <2>3
<1>3. /\ seq[Slot(tail)] = tail
      /\ \A u \in Threads : ~ConsumerHolds(u, tail - Capacity)
  <2>1. tail \in head .. head + Capacity - 1
    BY <1>2
  <2>2. IF \E u \in Threads : ConsumerHolds(u, tail - Capacity)
        THEN seq[Slot(tail)] = tail - Capacity + 1
        ELSE seq[Slot(tail)] = tail
    BY SMTT(30), <2>1 DEF Window
  <2>3. QED BY <1>1, <2>2
<1>4. QED BY <1>2, <1>3

LEMMA ClaimTailStep ==
  ASSUME Capacity > 1, IInv, NEW t \in Threads, ClaimTail(t)
  PROVE  Counters' /\ Window' /\ Held' /\ OneHolder' /\ Seen'
<1> USE CapacityAssumption DEF IInv, TypeOK
<1>1. /\ pc[t] = "wcas" /\ pos[t] = tail
      /\ pc' = [pc EXCEPT ![t] = "wdata"]
      /\ tail' = tail + 1
      /\ log' = Append(log, val[t])
      /\ UNCHANGED <<head, seq, data, pos, hpos, val, ow, got>>
  BY DEF ClaimTail, Goto
<1>2. /\ tail < head + Capacity
      /\ seq[Slot(tail)] = tail
      /\ \A u \in Threads : ~ConsumerHolds(u, tail - Capacity)
  BY <1>1, FreeSlot
<1>3. /\ Len(log') = tail + 1
      /\ log'[tail + 1] = val[t]
      /\ \A p \in Nat : p < tail => log'[p + 1] = log[p + 1]
  BY <1>1 DEF Counters, Arguments, Writing
<1>4. ASSUME NEW u \in Threads, NEW p \in Int
      PROVE  /\ WriterHolds(u, p)' <=> WriterHolds(u, p) \/ (u = t /\ p = tail)
             /\ ConsumerHolds(u, p)' <=> ConsumerHolds(u, p)
  BY <1>1 DEF WriterHolds, ConsumerHolds
<1>5. Counters'
  BY <1>1, <1>2, <1>3 DEF Counters
<1>6. Window'
  <2>1. SUFFICES ASSUME NEW p \in head .. head + Capacity - 1
                 PROVE  IF p < tail'
                        THEN IF \E u \in Threads : WriterHolds(u, p)'
                             THEN seq[Slot(p)] = p
                             ELSE seq[Slot(p)] = p + 1 /\ data[Slot(p)] = log'[p + 1]
                        ELSE IF \E u \in Threads : ConsumerHolds(u, p - Capacity)'
                             THEN seq[Slot(p)] = p - Capacity + 1
                             ELSE seq[Slot(p)] = p
    BY <1>1 DEF Window
  <2>2. CASE p < tail
    BY SMTT(30), <1>1, <1>3, <1>4, <2>2 DEF Window
  <2>3. CASE p = tail
    BY <1>1, <1>2, <1>4, <2>3
  <2>4. CASE p > tail
    BY SMTT(120), <1>1, <1>4, <2>4 DEF Window
  <2>5. QED BY <2>2, <2>3, <2>4
<1>7. Held'
  <2>1. SUFFICES ASSUME NEW u \in Threads PROVE HeldBy(u)'
    BY DEF Held
  <2>2. CASE u = t
    BY <1>1, <1>2, <1>3, <2>2 DEF HeldBy, Counters
  <2>3. CASE u # t
    <3>1. HeldBy(u) /\ ~ConsumerHolds(u, tail - Capacity)
      BY <1>2 DEF Held
    <3>2. pc'[u] = pc[u] /\ pos'[u] = pos[u] /\ hpos'[u] = hpos[u]
             /\ val'[u] = val[u] /\ got'[u] = got[u]
      BY <1>1, <2>3
    <3>3. pc[u] \in {"wdata", "wpub", "rcopy", "rrel"} =>
             pos[u] < tail /\ log'[pos[u] + 1] = log[pos[u] + 1]
      BY <1>3, <3>1 DEF HeldBy, Counters
    <3>4. /\ pc[u] \in {"rcopy", "rrel"} => tail + 1 <= pos[u] + Capacity
          /\ pc[u] = "hrel" => tail + 1 <= hpos[u] + Capacity
      BY SMTT(30), <3>1 DEF HeldBy, ConsumerHolds
    <3>5. head' = head /\ tail' = tail + 1 /\ data' = data
      BY <1>1
    <3>6. HeldBy(u)'
      <4> HIDE DEF IInv, TypeOK
      <4>1. /\ head \in Nat /\ tail \in Nat /\ pos[u] \in Nat
        BY DEF IInv, TypeOK
      <4>2. QED BY <3>1, <3>2, <3>3, <3>4, <3>5, <4>1 DEF HeldBy
    <3>7. QED BY <3>6
  <2>4. QED BY <2>2, <2>3
<1>8. OneHolder'
  <2>1. \A u \in Threads : ~WriterHolds(u, tail)
    BY DEF Held, HeldBy, WriterHolds
  <2>2. \A u \in Threads : ~ConsumerHolds(u, tail) /\ ~ConsumerHolds(u, tail + 1)
    BY DEF Held, HeldBy, ConsumerHolds, Counters
  <2>3. \A u \in Threads : ~WriterHolds(u, tail + 1)
    BY DEF Held, HeldBy, WriterHolds
  <2>4. QED BY <1>1, <1>4, <2>1, <2>2, <2>3 DEF OneHolder
<1>9. Seen'
  BY <1>1 DEF Seen, SeenBy
<1>10. QED
  BY <1>5, <1>6, <1>7, <1>8, <1>9

LEMMA StoreDataStep ==
  ASSUME IInv, NEW t \in Threads, StoreData(t)
  PROVE  Counters' /\ Window' /\ Held' /\ OneHolder' /\ Seen'
<1> USE CapacityAssumption
<1>1. /\ pc[t] = "wdata"
      /\ pc' = [pc EXCEPT ![t] = "wpub"]
      /\ data' = [data EXCEPT ![Slot(pos[t])] = val[t]]
      /\ UNCHANGED <<head, tail, seq, pos, hpos, val, ow, got, log>>
  BY DEF StoreData, Goto
<1>2. /\ head \in Nat /\ tail \in Nat /\ pos \in [Threads -> Nat]
      /\ pc \in [Threads -> PCs] /\ data \in [Slots -> Msgs \cup {None}]
  BY DEF IInv, TypeOK
<1>3. /\ head <= pos[t] /\ pos[t] < tail /\ tail <= head + Capacity
      /\ val[t] = log[pos[t] + 1]
  BY <1>1 DEF IInv, Held, HeldBy, Counters
<1>4. ASSUME NEW u \in Threads, NEW p \in Int
      PROVE  /\ WriterHolds(u, p)' <=> WriterHolds(u, p)
             /\ ConsumerHolds(u, p)' <=> ConsumerHolds(u, p)
  BY <1>1, <1>2 DEF WriterHolds, ConsumerHolds
<1>5. Counters'
  BY <1>1 DEF IInv, Counters
<1>6. ASSUME NEW p \in Nat, p # pos[t], tail <= p + Capacity, p < head + Capacity
      PROVE  data'[Slot(p)] = data[Slot(p)]
  <2>1. Slot(p) # Slot(pos[t])
    BY <1>2, <1>3, <1>6, SlotApart
  <2>2. Slot(p) \in Slots /\ Slot(pos[t]) \in Slots
    BY <1>2, SlotType
  <2>3. QED BY <1>1, <1>2, <2>1, <2>2
<1>7. Window'
  <2>1. SUFFICES ASSUME NEW p \in head .. head + Capacity - 1, p < tail
                 PROVE  (\A u \in Threads : ~WriterHolds(u, p))
                           => data'[Slot(p)] = data[Slot(p)]
    BY <1>1, <1>4 DEF IInv, Window
  <2>2. WriterHolds(t, pos[t])
    BY <1>1 DEF WriterHolds
  <2>3. CASE p = pos[t]
    BY <2>2, <2>3
  <2>4. CASE p # pos[t]
    BY <1>2, <1>3, <1>6, <2>1, <2>4
  <2>5. QED BY <2>3, <2>4
<1>8. Held'
  <2>1. SUFFICES ASSUME NEW u \in Threads PROVE HeldBy(u)'
    BY DEF Held
  <2>2. CASE u = t
    <3>1. data'[Slot(pos[t])] = val[t]
      BY <1>1, <1>2, SlotType
    <3>2. QED BY <1>1, <1>2, <1>3, <2>2, <3>1 DEF HeldBy
  <2>3. CASE u # t
    <3>1. HeldBy(u)
      BY DEF IInv, Held
    <3>2. pc'[u] = pc[u] /\ pos' = pos /\ hpos' = hpos /\ val' = val /\ got' = got
          /\ head' = head /\ tail' = tail /\ log' = log
      BY <1>1, <2>3
    <3>3. ASSUME pc[u] = "wpub" PROVE data'[Slot(pos[u])] = data[Slot(pos[u])]
      <4>1. pos[u] # pos[t]
        BY <1>1, <1>2, <1>3, <2>3, <3>3 DEF IInv, OneHolder, WriterHolds
      <4>2. head <= pos[u] /\ pos[u] < tail
        BY <3>1, <3>3 DEF HeldBy
      <4>3. QED BY <1>2, <1>3, <1>6, <4>1, <4>2
    <3>4. ASSUME pc[u] = "rcopy" PROVE data'[Slot(pos[u])] = data[Slot(pos[u])]
      <4>1. pos[u] < head /\ tail <= pos[u] + Capacity
        BY <3>1, <3>4 DEF HeldBy
      <4>2. QED BY <1>2, <1>3, <1>6, <4>1
    <3>5. QED BY <3>1, <3>2, <3>3, <3>4 DEF HeldBy
  <2>4. QED BY <2>2, <2>3
<1>9. OneHolder'
  BY <1>1, <1>2, <1>4 DEF IInv, OneHolder
<1>10. Seen'
  BY <1>1, <1>2 DEF IInv, Seen, SeenBy
<1>11. QED
  BY <1>5, <1>7, <1>8, <1>9, <1>10

LEMMA PublishStep ==
  ASSUME IInv, NEW t \in Threads, Publish(t)
  PROVE  Counters' /\ Window' /\ Held' /\ OneHolder' /\ Seen'
<1> USE CapacityAssumption
<1> DEFINE p0 == pos[t]
<1>1. /\ pc[t] = "wpub"
      /\ pc' = [pc EXCEPT ![t] = "idle"]
      /\ seq' = [seq EXCEPT ![Slot(p0)] = p0 + 1]
      /\ pos' = [pos EXCEPT ![t] = 0]
      /\ Others(t)
      /\ UNCHANGED <<head, tail, data, log>>
  BY DEF Publish, Return, Goto, Others, IInv, TypeOK
<1>2. /\ head \in Nat /\ tail \in Nat /\ p0 \in Nat
      /\ pc \in [Threads -> PCs] /\ seq \in [Slots -> Nat]
      /\ pos \in [Threads -> Nat]
      /\ Slot(p0) \in Slots
  BY SlotType DEF IInv, TypeOK
<1>3. /\ head <= p0 /\ p0 < tail /\ tail <= head + Capacity
      /\ data[Slot(p0)] = log[p0 + 1]
      /\ WriterHolds(t, p0)
  BY <1>1 DEF IInv, Held, HeldBy, Counters, WriterHolds
<1>4. seq[Slot(p0)] = p0
  BY <1>2, <1>3 DEF IInv, Window
<1>5. ASSUME NEW u \in Threads, NEW p \in Int
      PROVE  /\ WriterHolds(u, p)' <=> WriterHolds(u, p) /\ u # t
             /\ ConsumerHolds(u, p)' <=> ConsumerHolds(u, p)
  BY <1>1, <1>2 DEF WriterHolds, ConsumerHolds, Others
<1>6. ASSUME NEW p \in Nat, p # p0, head <= p, p < head + Capacity
      PROVE  seq'[Slot(p)] = seq[Slot(p)]
  <2>1. Slot(p) # Slot(p0)
    BY <1>2, <1>3, <1>6, SlotApart
  <2>2. QED BY <1>1, <1>2, <2>1, SlotType
<1>7. Counters'
  BY <1>1 DEF IInv, Counters
<1>8. Window'
  <2>1. SUFFICES ASSUME NEW p \in head .. head + Capacity - 1
                 PROVE  IF p < tail
                        THEN IF \E u \in Threads : WriterHolds(u, p)'
                             THEN seq'[Slot(p)] = p
                             ELSE seq'[Slot(p)] = p + 1 /\ data[Slot(p)] = log[p + 1]
                        ELSE IF \E u \in Threads : ConsumerHolds(u, p - Capacity)'
                             THEN seq'[Slot(p)] = p - Capacity + 1
                             ELSE seq'[Slot(p)] = p
    BY <1>1 DEF Window
  <2>2. CASE p = p0
    <3>1. \A u \in Threads : ~WriterHolds(u, p)'
      BY <1>2, <1>3, <1>5, <2>2 DEF IInv, OneHolder
    <3>2. seq'[Slot(p)] = p + 1
      BY <1>1, <1>2, <2>2
    <3>3. QED BY <1>3, <2>2, <3>1, <3>2
  <2>3. CASE p # p0
    <3>1. seq'[Slot(p)] = seq[Slot(p)]
      BY <1>2, <1>6, <2>1, <2>3
    <3>2. ~WriterHolds(t, p)
      BY <2>3 DEF WriterHolds
    <3>3. QED BY <1>2, <1>5, <3>1, <3>2 DEF IInv, Window
  <2>4. QED BY <2>2, <2>3
<1>9. Held'
  <2>1. SUFFICES ASSUME NEW u \in Threads PROVE HeldBy(u)'
    BY DEF Held
  <2>2. CASE u = t
    BY <1>1, <1>2, <2>2 DEF HeldBy
  <2>3. CASE u # t
    BY <1>1, <2>3 DEF IInv, Held, HeldBy, Others
  <2>4. QED BY <2>2, <2>3
<1>10. OneHolder'
  BY <1>1, <1>2, <1>5 DEF IInv, OneHolder
<1>11. Seen'
  <2>1. seq' \in [Slots -> Nat] /\ \A i \in Slots : seq'[i] >= seq[i]
    BY <1>1, <1>2, <1>4
  <2>2. SeenBy(t)'
    BY <1>1, <1>2 DEF SeenBy
  <2>3. QED BY <1>1, <2>1, <2>2, OthersSeen
<1>12. QED
  BY <1>7, <1>8, <1>9, <1>10, <1>11

(* A claim of a ticket by a reader or an overwriter: the message is there. *)
LEMMA ReadySlot ==
  ASSUME IInv, seq[Slot(head)] >= head + 1
  PROVE  /\ head < tail
         /\ seq[Slot(head)] = head + 1
         /\ data[Slot(head)] = log[head + 1]
         /\ \A u \in Threads : ~WriterHolds(u, head)
<1> USE CapacityAssumption
<1>1. head \in Nat /\ tail \in Nat /\ head <= tail
  BY DEF IInv, TypeOK, Counters
<1>2. IF head < tail
      THEN IF \E u \in Threads : WriterHolds(u, head)
           THEN seq[Slot(head)] = head
           ELSE seq[Slot(head)] = head + 1 /\ data[Slot(head)] = log[head + 1]
      ELSE IF \E u \in Threads : ConsumerHolds(u, head - Capacity)
           THEN seq[Slot(head)] = head - Capacity + 1
           ELSE seq[Slot(head)] = head
  BY <1>1 DEF IInv, Window
<1>3. QED BY <1>1, <1>2

(* t claims the ticket at head, whatever it does with it afterwards.       *)
ClaimsHead(t) ==
  /\ pc[t] \notin Holding
  /\ pc'[t] \in {"rcopy", "hrel"}
  /\ pc'[t] = "rcopy" => pos'[t] = head
  /\ pc'[t] = "hrel" => hpos'[t] = head
  /\ head' = head + 1
  /\ UNCHANGED <<tail, seq, data, log>>
  /\ Others(t)

LEMMA ClaimHeadStep ==
  ASSUME IInv, NEW t \in Threads, ClaimsHead(t), seq[Slot(head)] >= head + 1
  PROVE  Counters' /\ Window' /\ Held' /\ OneHolder' /\ Seen'
<1> USE CapacityAssumption
<1>1. /\ head \in Nat /\ tail \in Nat /\ head <= tail /\ tail <= head + Capacity
      /\ tail = Len(log) /\ seq \in [Slots -> Nat]
      /\ pos \in [Threads -> Nat] /\ hpos \in [Threads -> Nat]
  BY DEF IInv, TypeOK, Counters
<1>2. /\ head < tail
      /\ seq[Slot(head)] = head + 1
      /\ data[Slot(head)] = log[head + 1]
      /\ \A u \in Threads : ~WriterHolds(u, head)
  BY ReadySlot
<1>3. ASSUME NEW u \in Threads, NEW p \in Int
      PROVE  /\ WriterHolds(u, p)' <=> WriterHolds(u, p)
             /\ ConsumerHolds(u, p)' <=> ConsumerHolds(u, p) \/ (u = t /\ p = head)
  <2>1. CASE u = t
    BY <2>1 DEF ClaimsHead, Holding, WriterHolds, ConsumerHolds
  <2>2. CASE u # t
    BY <2>2 DEF ClaimsHead, Others, WriterHolds, ConsumerHolds
  <2>3. QED BY <2>1, <2>2
<1>4. head' = head + 1 /\ tail' = tail /\ seq' = seq /\ data' = data /\ log' = log
  BY DEF ClaimsHead
<1>5. Counters'
  BY <1>1, <1>2, <1>4 DEF Counters
<1>6. Window'
  <2> SUFFICES ASSUME NEW p \in head' .. head' + Capacity - 1
                 PROVE  IF p < tail
                        THEN IF \E u \in Threads : WriterHolds(u, p)'
                             THEN seq[Slot(p)] = p
                             ELSE seq[Slot(p)] = p + 1 /\ data[Slot(p)] = log[p + 1]
                        ELSE IF \E u \in Threads : ConsumerHolds(u, p - Capacity)'
                             THEN seq[Slot(p)] = p - Capacity + 1
                             ELSE seq[Slot(p)] = p
    BY <1>4 DEF Window
  <2>1. p \in head + 1 .. head + Capacity
    BY <1>1, <1>4
  <2>2. CASE p < head + Capacity
    <3>1. p \in head .. head + Capacity - 1 /\ p - Capacity # head
      BY <1>1, <2>1, <2>2
    <3>2. IF p < tail
          THEN IF \E u \in Threads : WriterHolds(u, p)
               THEN seq[Slot(p)] = p
               ELSE seq[Slot(p)] = p + 1 /\ data[Slot(p)] = log[p + 1]
          ELSE IF \E u \in Threads : ConsumerHolds(u, p - Capacity)
               THEN seq[Slot(p)] = p - Capacity + 1
               ELSE seq[Slot(p)] = p
      BY <3>1 DEF IInv, Window
    <3>3. QED BY <1>1, <1>3, <3>1, <3>2
  <2>3. CASE p = head + Capacity
    <3>1. Slot(p) = Slot(head)
      BY <1>1, <2>3, SlotNext
    <3>2. ConsumerHolds(t, p - Capacity)'
      BY <1>1, <1>3, <2>3
    <3>3. QED BY <1>1, <1>2, <2>3, <3>1, <3>2
  <2>4. QED BY <1>1, <2>1, <2>2, <2>3
<1>7. Held'
  <2>1. SUFFICES ASSUME NEW u \in Threads PROVE HeldBy(u)'
    BY DEF Held
  <2>2. CASE u = t
    BY <1>1, <1>2, <1>4, <2>2 DEF ClaimsHead, HeldBy
  <2>3. CASE u # t
    <3>1. HeldBy(u)
      BY DEF IInv, Held
    <3>2. pc[u] \in {"wdata", "wpub"} => pos[u] # head
      BY <1>2 DEF WriterHolds
    <3>3. pc'[u] = pc[u] /\ pos'[u] = pos[u] /\ hpos'[u] = hpos[u]
             /\ val'[u] = val[u] /\ got'[u] = got[u]
      BY <2>3 DEF ClaimsHead, Others
    <3>4. pos[u] \in Nat /\ hpos[u] \in Nat
      BY <1>1
    <3>5. QED BY <1>1, <1>4, <3>1, <3>2, <3>3, <3>4 DEF HeldBy
  <2>4. QED BY <2>2, <2>3
<1>8. OneHolder'
  <2>1. \A u \in Threads : ~ConsumerHolds(u, head)
    BY <1>1 DEF IInv, Held, HeldBy, ConsumerHolds
  <2>2. QED BY SMTT(30), <1>1, <1>3, <1>4, <2>1 DEF IInv, OneHolder
<1>9. Seen'
  <2>1. SeenBy(t)'
    BY DEF ClaimsHead, SeenBy
  <2>2. QED BY <1>1, <1>4, <2>1, OthersSeen DEF ClaimsHead
<1>10. QED
  BY <1>5, <1>6, <1>7, <1>8, <1>9

LEMMA ClaimHeadActions ==
  ASSUME IInv, NEW t \in Threads, ClaimHead(t) \/ ClaimRead(t)
  PROVE  ClaimsHead(t) /\ seq[Slot(head)] >= head + 1
<1>1. CASE ClaimHead(t)
  BY <1>1 DEF ClaimHead, ClaimsHead, Goto, Others, Holding, IInv, TypeOK, Seen, SeenBy
<1>2. CASE ClaimRead(t)
  BY <1>2 DEF ClaimRead, ClaimsHead, Goto, Others, Holding, IInv, TypeOK, Seen, SeenBy
<1>3. QED BY <1>1, <1>2

LEMMA CopyDataStep ==
  ASSUME IInv, NEW t \in Threads, CopyData(t)
  PROVE  Counters' /\ Window' /\ Held' /\ OneHolder' /\ Seen'
<1>1. /\ pc[t] = "rcopy"
      /\ pc' = [pc EXCEPT ![t] = "rrel"]
      /\ got' = [got EXCEPT ![t] = data[Slot(pos[t])]]
      /\ UNCHANGED <<head, tail, seq, data, pos, hpos, val, ow, log>>
  BY DEF CopyData, Goto
<1>2. /\ pc \in [Threads -> PCs] /\ got \in [Threads -> Msgs \cup {None}]
      /\ tail \in Nat /\ head \in Nat
  BY DEF IInv, TypeOK
<1>3. ASSUME NEW u \in Threads, NEW p \in Int
      PROVE  /\ WriterHolds(u, p)' <=> WriterHolds(u, p)
             /\ ConsumerHolds(u, p)' <=> ConsumerHolds(u, p)
  BY <1>1, <1>2 DEF WriterHolds, ConsumerHolds
<1>4. Counters'
  BY <1>1 DEF IInv, Counters
<1>5. Window'
  <2>1. head' = head /\ tail' = tail /\ seq' = seq /\ data' = data /\ log' = log
    BY <1>1
  <2>2. QED
    BY <1>2, <1>3, <2>1, CapacityAssumption DEF IInv, Window
<1>6. Held'
  <2>1. SUFFICES ASSUME NEW u \in Threads PROVE HeldBy(u)'
    BY DEF Held
  <2>2. HeldBy(u)
    BY DEF IInv, Held
  <2>3. CASE u = t
    BY <1>1, <1>2, <2>2, <2>3 DEF HeldBy
  <2>4. CASE u # t
    BY <1>1, <1>2, <2>2, <2>4 DEF HeldBy
  <2>5. QED BY <2>3, <2>4
<1>7. OneHolder'
  BY <1>1, <1>2, <1>3 DEF IInv, OneHolder
<1>8. Seen'
  BY <1>1, <1>2 DEF IInv, Seen, SeenBy
<1>9. QED
  BY <1>4, <1>5, <1>6, <1>7, <1>8

(* t frees the slot of ticket p0, which it holds as a consumer.            *)
Frees(t, p0) ==
  /\ ConsumerHolds(t, p0)
  /\ pc[t] \in {"rrel", "hrel"}
  /\ pc'[t] \notin Holding \cup {"wcas", "rcas", "hcas"}
  /\ seq' = [seq EXCEPT ![Slot(p0)] = p0 + Capacity]
  /\ UNCHANGED <<head, tail, data, log>>
  /\ Others(t)

LEMMA FreesStep ==
  ASSUME IInv, NEW t \in Threads, NEW p0 \in Nat, Frees(t, p0)
  PROVE  Counters' /\ Window' /\ Held' /\ OneHolder' /\ Seen'
<1> USE CapacityAssumption
<1>1. /\ head \in Nat /\ tail \in Nat /\ seq \in [Slots -> Nat]
      /\ pos \in [Threads -> Nat] /\ hpos \in [Threads -> Nat]
      /\ Slot(p0) \in Slots /\ Slot(p0 + Capacity) = Slot(p0)
  BY SlotType, SlotNext DEF IInv, TypeOK
<1>2. p0 < head /\ tail <= p0 + Capacity /\ head <= tail
  BY DEF IInv, Held, HeldBy, Counters, Frees, ConsumerHolds
<1>3. seq[Slot(p0)] = p0 + 1
  <2>1. p0 + Capacity \in head .. head + Capacity - 1 /\ ~(p0 + Capacity < tail)
    BY <1>1, <1>2
  <2>2. (p0 + Capacity) - Capacity = p0
    OBVIOUS
  <2>3. IF \E u \in Threads : ConsumerHolds(u, p0)
        THEN seq[Slot(p0 + Capacity)] = p0 + 1
        ELSE seq[Slot(p0 + Capacity)] = p0 + Capacity
    BY <2>1, <2>2 DEF IInv, Window
  <2>4. QED BY <1>1, <2>3 DEF Frees
<1>4. ASSUME NEW u \in Threads, NEW p \in Int
      PROVE  /\ WriterHolds(u, p)' <=> WriterHolds(u, p)
             /\ ConsumerHolds(u, p)' <=> ConsumerHolds(u, p) /\ u # t
  <2>1. CASE u = t
    BY <2>1 DEF Frees, Holding, WriterHolds, ConsumerHolds
  <2>2. CASE u # t
    BY <2>2 DEF Frees, Others, WriterHolds, ConsumerHolds
  <2>3. QED BY <2>1, <2>2
<1>5. ASSUME NEW p \in head .. head + Capacity - 1, p # p0 + Capacity
      PROVE  seq'[Slot(p)] = seq[Slot(p)]
  <2>1. Slot(p) # Slot(p0 + Capacity)
    BY <1>1, <1>2, <1>5, SlotApart
  <2>2. QED BY <1>1, <2>1, SlotType DEF Frees
<1>6. head' = head /\ tail' = tail /\ data' = data /\ log' = log
  BY DEF Frees
<1>7. Counters'
  BY <1>6 DEF IInv, Counters
<1>8. Window'
  <2>1. SUFFICES ASSUME NEW p \in head .. head + Capacity - 1
                 PROVE  IF p < tail
                        THEN IF \E u \in Threads : WriterHolds(u, p)'
                             THEN seq'[Slot(p)] = p
                             ELSE seq'[Slot(p)] = p + 1 /\ data[Slot(p)] = log[p + 1]
                        ELSE IF \E u \in Threads : ConsumerHolds(u, p - Capacity)'
                             THEN seq'[Slot(p)] = p - Capacity + 1
                             ELSE seq'[Slot(p)] = p
    BY <1>6 DEF Window
  <2>2. CASE p = p0 + Capacity
    <3>1. ~(p < tail) /\ p - Capacity = p0
      BY <1>1, <1>2, <2>2
    <3>2. \A u \in Threads : ~ConsumerHolds(u, p0)'
      BY <1>1, <1>2, <1>4 DEF IInv, OneHolder, Frees
    <3>3. seq'[Slot(p)] = p
      BY <1>1, <2>2 DEF Frees
    <3>4. QED BY <3>1, <3>2, <3>3
  <2>3. CASE p # p0 + Capacity
    <3>1. seq'[Slot(p)] = seq[Slot(p)]
      BY <1>5, <2>3
    <3>2. ~ConsumerHolds(t, p - Capacity)
      BY <1>1, <2>1, <2>3 DEF Frees, ConsumerHolds
    <3>3. QED BY <1>1, <1>4, <2>1, <3>1, <3>2 DEF IInv, Window
  <2>4. QED BY <2>2, <2>3
<1>9. Held'
  <2>1. SUFFICES ASSUME NEW u \in Threads PROVE HeldBy(u)'
    BY DEF Held
  <2>2. CASE u = t
    BY <2>2 DEF Frees, HeldBy, Holding
  <2>3. CASE u # t
    BY <1>6, <2>3 DEF IInv, Held, HeldBy, Frees, Others
  <2>4. QED BY <2>2, <2>3
<1>10. OneHolder'
  BY <1>1, <1>4, <1>6 DEF IInv, OneHolder
<1>11. Seen'
  <2>1. seq' \in [Slots -> Nat] /\ \A i \in Slots : seq'[i] >= seq[i]
    BY <1>1, <1>3 DEF Frees
  <2>2. SeenBy(t)'
    BY DEF Frees, SeenBy
  <2>3. QED BY <2>1, <2>2, OthersSeen DEF Frees
<1>12. QED
  BY <1>7, <1>8, <1>9, <1>10, <1>11

LEMMA FreesActions ==
  ASSUME IInv, NEW t \in Threads
  PROVE  /\ FreeDiscarded(t) => Frees(t, hpos[t])
         /\ Release(t) => Frees(t, pos[t])
<1>1. ASSUME FreeDiscarded(t) PROVE Frees(t, hpos[t])
  BY <1>1 DEF FreeDiscarded, Frees, ConsumerHolds, Holding, Others, Goto, IInv, TypeOK
<1>2. ASSUME Release(t) PROVE Frees(t, pos[t])
  BY <1>2 DEF Release, Frees, ConsumerHolds, Holding, Others, Return, Goto, IInv, TypeOK
<1>3. QED BY <1>1, <1>2

LEMMA InvInit == ASSUME Init PROVE IInv
<1>1. TypeOK /\ Arguments /\ EmptyHanded /\ Behind
  BY TypeInit
<1>2. ASSUME NEW p \in 0 .. Capacity - 1
      PROVE  Slot(p) = p
  BY CapacityAssumption DEF Slot
<1>3. Counters
  BY CapacityAssumption DEF Init, Counters
<1>4. Window
  BY <1>2, CapacityAssumption DEF Init, Window, ConsumerHolds, Slots
<1>5. Held /\ OneHolder /\ Seen
  BY DEF Init, Held, HeldBy, OneHolder, WriterHolds, ConsumerHolds, Seen, SeenBy
<1>6. QED
  BY <1>1, <1>3, <1>4, <1>5 DEF IInv

LEMMA InvStep ==
  ASSUME Capacity > 1, IInv, [Next]_vars
  PROVE  IInv'
<1>1. TypeOK' /\ Arguments' /\ EmptyHanded' /\ Behind'
  BY TypeStep, ArgumentsStep, EmptyHandedStep, BehindStep DEF IInv
<1>2. SUFFICES Counters' /\ Window' /\ Held' /\ OneHolder' /\ Seen'
  BY <1>1 DEF IInv
<1>3. CASE UNCHANGED vars
  BY <1>3 DEF vars, IInv, Counters, Window, Held, HeldBy, OneHolder, Seen, SeenBy,
              WriterHolds, ConsumerHolds
<1>4. ASSUME NEW t \in Threads,
             \/ \E m \in Msgs, o \in Overwrites : StartWrite(t, m, o)
             \/ StartRead(t) \/ WriteStep(t) \/ ReadStep(t)
      PROVE  Counters' /\ Window' /\ Held' /\ OneHolder' /\ Seen'
  <2>1. CASE \/ \E m \in Msgs, o \in Overwrites : StartWrite(t, m, o)
             \/ LoadWriteSeq(t) \/ WriteFull(t) \/ ReloadTail(t) \/ ClaimTailFails(t)
             \/ LoadHead(t) \/ LoadHeadSeq(t) \/ ClaimHeadFails(t)
             \/ StartRead(t) \/ LoadReadSeq(t) \/ ReadEmpty(t) \/ ReloadHead(t)
             \/ ClaimReadFails(t)
    BY <2>1, QuietActions, QuietStep
  <2>2. CASE ClaimTail(t)
    BY <2>2, ClaimTailStep
  <2>3. CASE StoreData(t)
    BY <2>3, StoreDataStep
  <2>4. CASE Publish(t)
    BY <2>4, PublishStep
  <2>5. CASE ClaimHead(t) \/ ClaimRead(t)
    BY <2>5, ClaimHeadActions, ClaimHeadStep
  <2>6. CASE CopyData(t)
    BY <2>6, CopyDataStep
  <2>7. CASE FreeDiscarded(t) \/ Release(t)
    <3>1. pos[t] \in Nat /\ hpos[t] \in Nat
      BY DEF IInv, TypeOK
    <3>2. QED BY <2>7, <3>1, FreesActions, FreesStep
  <2>8. QED
    BY <1>4, <2>1, <2>2, <2>3, <2>4, <2>5, <2>6, <2>7 DEF WriteStep, ReadStep
<1>5. QED
  BY <1>3, <1>4 DEF Next

-----------------------------------------------------------------------------
(* Theorems *)

(* The variables have their types, with any capacity (shm.hpp:78-148).     *)
THEOREM TypeCorrect == Spec => []TypeOK
<1>1. Init => TypeOK /\ Arguments
  BY TypeInit
<1>2. TypeOK /\ Arguments /\ [Next]_vars => (TypeOK /\ Arguments)'
  BY TypeStep, ArgumentsStep
<1>3. QED
  BY <1>1, <1>2, PTL DEF Spec

(* The protocol of the sequence numbers holds with two slots or more       *)
(* (shm.hpp:97-121 and :132-147).                                          *)
THEOREM Invariant ==
  ASSUME Capacity > 1
  PROVE  Spec => []IInv
<1>1. Init => IInv
  BY InvInit
<1>2. IInv /\ [Next]_vars => IInv'
  BY InvStep
<1>3. QED
  BY <1>1, <1>2, PTL DEF Spec

LEMMA RaceFree == IInv => NoDataRace
<1> SUFFICES ASSUME IInv, NEW t \in Threads, NEW u \in Threads, t # u,
                    pc[t] \in {"wdata", "rcopy"}, pc[u] \in {"wdata", "rcopy"},
                    Slot(pos[t]) = Slot(pos[u])
             PROVE  FALSE
  BY DEF NoDataRace
<1> USE CapacityAssumption
<1>1. /\ pos[t] \in Nat /\ pos[u] \in Nat /\ head \in Nat /\ tail \in Nat
      /\ tail <= head + Capacity /\ head <= tail
  BY DEF IInv, TypeOK, Counters
<1>2. HeldBy(t) /\ HeldBy(u)
  BY DEF IInv, Held
<1>3. pos[t] = pos[u]
  <2>1. ~(pos[t] < pos[u])
    BY <1>1, <1>2, SlotApart DEF HeldBy
  <2>2. ~(pos[u] < pos[t])
    BY <1>1, <1>2, SlotApart DEF HeldBy
  <2>3. QED BY <1>1, <2>1, <2>2
<1>4. \/ WriterHolds(t, pos[t]) /\ WriterHolds(u, pos[t])
      \/ ConsumerHolds(t, pos[t]) /\ ConsumerHolds(u, pos[t])
  BY <1>1, <1>2, <1>3 DEF WriterHolds, ConsumerHolds, HeldBy
<1>5. pos[t] \in 0 .. tail
  BY <1>1, <1>2 DEF HeldBy
<1>6. QED
  BY <1>4, <1>5 DEF IInv, OneHolder

(* No two threads ever access the data of one slot at once (shm.hpp:103,   *)
(* :139), whatever the number of threads and slots.                        *)
THEOREM NoRace ==
  ASSUME Capacity > 1
  PROVE  Spec => []NoDataRace
BY Invariant, RaceFree, PTL

-----------------------------------------------------------------------------
(* What a false return value means *)

(* Every slot is used by one of the Capacity tickets from head on.         *)
LEMMA InWindow ==
  ASSUME NEW h \in Nat, NEW i \in Slots
  PROVE  \E p \in h .. h + Capacity - 1 : Slot(p) = i
<1> USE CapacityAssumption
<1> DEFINE k == h \div Capacity
           r == h % Capacity
<1>1. k \in Nat /\ r \in Slots /\ h = Capacity * k + r
  BY Division
<1> HIDE DEF k, r
<1>2. ASSUME NEW n \in Nat, Capacity * n + i \in Nat
      PROVE  Slot(Capacity * n + i) = i
  <2> DEFINE q == Capacity * n + i
  <2>1. q \div Capacity \in Nat /\ q % Capacity \in Slots
        /\ q = Capacity * (q \div Capacity) + (q % Capacity)
    BY <1>2, Division
  <2> DEFINE d == q \div Capacity
             e == q % Capacity
  <2>2. d \in Nat /\ e \in Slots /\ Capacity * n + i = Capacity * d + e
    BY <2>1
  <2> HIDE DEF d, e
  <2>3. i = e
    BY <2>2, SameRemainder
  <2>4. QED BY <2>3 DEF e, Slot
<1>3. CASE r <= i
  <2>1. Capacity * k + i \in h .. h + Capacity - 1
    BY <1>1, <1>3 DEF Slots
  <2>2. Capacity * k \in Nat /\ Capacity * k + i \in Nat
    BY <1>1 DEF Slots
  <2>3. Slot(Capacity * k + i) = i
    BY <1>1, <1>2, <2>2
  <2>4. QED BY <2>1, <2>3
<1>4. CASE i < r
  <2>1. Capacity * (k + 1) = Capacity * k + Capacity
    BY <1>1
  <2>2. Capacity * (k + 1) + i \in h .. h + Capacity - 1
    BY <1>1, <1>4, <2>1 DEF Slots
  <2>3. k + 1 \in Nat /\ Capacity * (k + 1) + i \in Nat
    BY <1>1, <2>2
  <2>4. Slot(Capacity * (k + 1) + i) = i
    BY <1>2, <2>3
  <2>5. QED BY <2>2, <2>4
<1>5. QED
  BY <1>1, <1>3, <1>4 DEF Slots

(* A slot whose ticket head has passed has been freed or claimed since.    *)
LEMMA PassedTicket ==
  ASSUME IInv, NEW q \in Nat, q < head
  PROVE  seq[Slot(q)] >= q + 1
<1> USE CapacityAssumption
<1>1. head \in Nat /\ tail \in Nat /\ seq \in [Slots -> Nat] /\ Slot(q) \in Slots
  BY SlotType DEF IInv, TypeOK
<1>2. PICK p \in head .. head + Capacity - 1 : Slot(p) = Slot(q)
  BY <1>1, InWindow
<1>3. q + Capacity <= p
  BY <1>1, <1>2, SlotApart
<1>4. seq[Slot(p)] >= p - Capacity + 1
  BY <1>1, <1>2 DEF IInv, Window
<1>5. QED
  BY <1>1, <1>2, <1>3, <1>4

LEMMA VerdictsExplained ==
  ASSUME IInv
  PROVE  FalseExplained
<1> USE CapacityAssumption
<1>1. /\ head \in Nat /\ tail \in Nat /\ head <= tail /\ tail <= head + Capacity
      /\ pos \in [Threads -> Nat]
  BY DEF IInv, TypeOK, Counters
<1>2. ASSUME NEW t \in Threads, pc[t] = "wseq", seq[Slot(pos[t])] < pos[t],
             tail # head + Capacity
      PROVE  \E u \in Threads : ConsumerHolds(u, pos[t] - Capacity)
  <2>1. pos[t] \in Nat /\ pos[t] <= tail
    BY <1>1, <1>2 DEF IInv, Behind
  <2>2. ~(pos[t] < head)
    <3>1. SUFFICES ASSUME pos[t] < head PROVE FALSE
      OBVIOUS
    <3>2. seq[Slot(pos[t])] >= pos[t] + 1
      BY <2>1, <3>1, PassedTicket
    <3>3. Slot(pos[t]) \in Slots /\ seq \in [Slots -> Nat]
      BY <2>1, SlotType DEF IInv, TypeOK
    <3>4. QED BY <1>2, <2>1, <3>2, <3>3
  <2>3. pos[t] \in head .. head + Capacity - 1
    BY <1>1, <1>2, <2>1, <2>2
  <2>4. QED BY <1>1, <1>2, <2>3 DEF IInv, Window
<1>3. ASSUME NEW t \in Threads, pc[t] = "rseq", seq[Slot(pos[t])] < pos[t] + 1,
             head # tail
      PROVE  \E u \in Threads : WriterHolds(u, head)
  <2>1. pos[t] \in Nat /\ pos[t] <= head
    BY <1>1, <1>3 DEF IInv, Behind
  <2>2. ~(pos[t] < head)
    <3>1. SUFFICES ASSUME pos[t] < head PROVE FALSE
      OBVIOUS
    <3>2. seq[Slot(pos[t])] >= pos[t] + 1
      BY <2>1, <3>1, PassedTicket
    <3>3. Slot(pos[t]) \in Slots /\ seq \in [Slots -> Nat]
      BY <2>1, SlotType DEF IInv, TypeOK
    <3>4. QED BY <1>3, <2>1, <3>2, <3>3
  <2>3. pos[t] = head /\ head \in head .. head + Capacity - 1 /\ head < tail
    BY <1>1, <1>3, <2>1, <2>2
  <2>4. QED BY <1>1, <1>3, <2>3 DEF IInv, Window
<1>4. QED
  BY <1>2, <1>3 DEF FalseExplained

(* write() fails only on a full buffer or behind a reader that has not     *)
(* freed the slot yet, read() only on an empty one or behind a writer that *)
(* has not published yet (shm.hpp:107-109 and :143-144).                   *)
THEOREM FalseHasCause ==
  ASSUME Capacity > 1
  PROVE  Spec => []FalseExplained
<1>1. IInv => FalseExplained
  BY VerdictsExplained
<1>2. QED
  BY <1>1, Invariant, PTL

(* Between calls the slots hold exactly the unread messages.               *)
THEOREM Quiescence ==
  ASSUME Capacity > 1
  PROVE  Spec => []QuiescentExact
<1>1. IInv => QuiescentExact
  BY CapacityAssumption DEF IInv, QuiescentExact, Window, WriterHolds, ConsumerHolds
<1>2. QED
  BY <1>1, Invariant, PTL

-----------------------------------------------------------------------------
(* The buffer implements the bounded queue *)

(* The refinement mapping of RingBufferSlotSHM, by name.                   *)
Unread == SubSeq(log, head + 1, tail)
InHand == [t \in Threads |-> IF pc[t] = "rcopy" THEN log[pos[t] + 1] ELSE got[t]]

LEMMA AppendUnread ==
  ASSUME NEW s \in Seq(Msgs), NEW v \in Msgs, NEW h \in 0 .. Len(s)
  PROVE  /\ SubSeq(Append(s, v), h + 1, Len(s) + 1) = Append(SubSeq(s, h + 1, Len(s)), v)
         /\ Len(SubSeq(s, h + 1, Len(s))) = Len(s) - h
<1> DEFINE n == Len(s)
           q == SubSeq(s, h + 1, n)
           l == Append(s, v)
           a == SubSeq(l, h + 1, n + 1)
           b == Append(q, v)
<1>1. n \in Nat /\ h \in 0 .. n
  OBVIOUS
<1>2. l \in Seq(Msgs) /\ Len(l) = n + 1 /\ l[n + 1] = v /\ \A i \in 1 .. n : l[i] = s[i]
  OBVIOUS
<1>3. q \in Seq(Msgs) /\ Len(q) = n - h /\ \A i \in 1 .. n - h : q[i] = s[h + i]
  BY SubSeqProperties
<1> HIDE DEF n, q, l
<1>4. a \in Seq(Msgs) /\ Len(a) = n + 1 - h /\ \A i \in 1 .. n + 1 - h : a[i] = l[h + i]
  BY <1>1, <1>2, SubSeqProperties
<1>5. b \in Seq(Msgs) /\ Len(b) = n + 1 - h /\ b[n + 1 - h] = v
      /\ \A i \in 1 .. n - h : b[i] = q[i]
  BY <1>1, <1>3
<1> HIDE DEF a, b
<1>6. ASSUME NEW i \in 1 .. n + 1 - h
      PROVE  b[i] = a[i]
  <2>1. CASE i = n + 1 - h
    BY <1>1, <1>2, <1>4, <1>5, <2>1
  <2>2. CASE i # n + 1 - h
    <3>1. i \in 1 .. n - h /\ h + i \in 1 .. n
      BY <1>1, <2>2
    <3>2. QED BY <1>1, <1>2, <1>3, <1>4, <1>5, <3>1
  <2>3. QED BY <2>1, <2>2
<1>7. a = b
  BY <1>4, <1>5, <1>6, SeqEqual
<1>8. QED
  BY <1>3, <1>7 DEF n, q, l, a, b

LEMMA FirstUnread ==
  ASSUME NEW s \in Seq(Msgs), NEW h \in Nat, h < Len(s)
  PROVE  /\ SubSeq(s, h + 1, Len(s)) # <<>>
         /\ Head(SubSeq(s, h + 1, Len(s))) = s[h + 1]
         /\ Tail(SubSeq(s, h + 1, Len(s))) = SubSeq(s, h + 1 + 1, Len(s))
<1>1. SubSeq(s, h + 1, Len(s)) # <<>>
  <2> DEFINE q == SubSeq(s, h + 1, Len(s))
  <2>1. Len(q) = Len(s) - h
    BY SubSeqProperties
  <2> HIDE DEF q
  <2>2. q # <<>>
    BY <2>1
  <2>3. QED BY <2>2 DEF q
<1>2. h + 1 \in 1 .. Len(s) /\ Len(s) \in h + 1 .. Len(s)
  OBVIOUS
<1>3. QED
  BY <1>1, <1>2, HeadTailOfSubSeq

(* What the threads have in hand changes only by claims and releases.      *)
LEMMA SameInHand ==
  ASSUME IInv, NEW t \in Threads, Others(t),
         \A p \in Nat : p < tail => log'[p + 1] = log[p + 1]
  PROVE  \A u \in Threads : u # t => InHand'[u] = InHand[u]
<1> SUFFICES ASSUME NEW u \in Threads, u # t PROVE InHand'[u] = InHand[u]
  OBVIOUS
<1>1. pc'[u] = pc[u] /\ pos'[u] = pos[u] /\ got'[u] = got[u]
  BY DEF Others
<1>2. pc[u] = "rcopy" => pos[u] \in Nat /\ pos[u] < tail
  BY DEF IInv, TypeOK, Held, HeldBy, Counters
<1>3. QED
  BY <1>1, <1>2 DEF InHand

LEMMA QuietInHand ==
  ASSUME IInv, IInv', NEW t \in Threads, Quiet(t)
  PROVE  UNCHANGED <<Unread, InHand>>
<1>1. Unread' = Unread
  BY DEF Unread, Quiet
<1>2. ASSUME NEW u \in Threads
      PROVE  InHand'[u] = InHand[u]
  <2>1. CASE u = t
    BY <2>1 DEF IInv, EmptyHanded, Quiet, Holding, InHand
  <2>2. CASE u # t
    BY <2>2 DEF Quiet, Others, InHand
  <2>3. QED BY <2>1, <2>2
<1>3. QED
  BY <1>1, <1>2 DEF InHand

(* Each effective step, seen from the queue.                               *)
LEMMA ClaimTailEnqueues ==
  ASSUME Capacity > 1, IInv, NEW t \in Threads, ClaimTail(t)
  PROVE  /\ Len(Unread) < Capacity
         /\ val[t] \in Msgs /\ Unread' = Append(Unread, val[t])
         /\ UNCHANGED InHand
<1>1. /\ pc[t] = "wcas" /\ pos[t] = tail /\ pc'[t] = "wdata"
      /\ tail' = tail + 1 /\ head' = head /\ log' = Append(log, val[t])
      /\ got' = got /\ Others(t)
  BY DEF ClaimTail, Goto, Others, IInv, TypeOK
<1>2. /\ val[t] \in Msgs /\ log \in Seq(Msgs) /\ tail = Len(log)
      /\ head \in 0 .. tail /\ tail \in Nat
  BY <1>1 DEF IInv, TypeOK, Arguments, Writing, Counters
<1>3. tail < head + Capacity
  BY <1>1, FreeSlot
<1>4. /\ Unread' = Append(Unread, val[t])
      /\ Len(Unread) = tail - head
  BY <1>1, <1>2, AppendUnread DEF Unread
<1>5. \A p \in Nat : p < tail => log'[p + 1] = log[p + 1]
  BY <1>1, <1>2
<1>6. InHand'[t] = InHand[t]
  BY <1>1 DEF InHand
<1>7. InHand' = InHand
  BY <1>1, <1>5, <1>6, SameInHand DEF InHand
<1>8. QED
  BY <1>2, <1>3, <1>4, <1>7, CapacityAssumption

LEMMA ClaimHeadDequeues ==
  ASSUME IInv, NEW t \in Threads, ClaimHead(t) \/ ClaimRead(t)
  PROVE  /\ Unread # <<>> /\ Unread' = Tail(Unread)
         /\ ClaimHead(t) => UNCHANGED InHand
         /\ ClaimRead(t) => /\ InHand[t] = None
                            /\ InHand' = [InHand EXCEPT ![t] = Head(Unread)]
<1>1. ClaimsHead(t) /\ seq[Slot(head)] >= head + 1
  BY ClaimHeadActions
<1>2. head < tail /\ tail = Len(log) /\ log \in Seq(Msgs) /\ head \in Nat
  BY <1>1, ReadySlot DEF IInv, TypeOK, Counters
<1>3. Unread # <<>> /\ Head(Unread) = log[head + 1] /\ Unread' = Tail(Unread)
  BY <1>1, <1>2, FirstUnread DEF Unread, ClaimsHead
<1>4. \A u \in Threads : u # t => InHand'[u] = InHand[u]
  BY <1>1, SameInHand DEF ClaimsHead
<1>5. ASSUME ClaimHead(t) PROVE InHand' = InHand
  <2>1. InHand'[t] = InHand[t]
    BY <1>5 DEF ClaimHead, Goto, InHand, IInv, TypeOK
  <2>2. QED BY <1>4, <2>1 DEF InHand
<1>6. ASSUME ClaimRead(t)
      PROVE  InHand[t] = None /\ InHand' = [InHand EXCEPT ![t] = Head(Unread)]
  <2>1. InHand[t] = None
    BY <1>6 DEF ClaimRead, InHand, IInv, EmptyHanded
  <2>2. InHand'[t] = log[head + 1]
    BY <1>6 DEF ClaimRead, Goto, InHand, IInv, TypeOK
  <2>3. QED BY <1>3, <1>4, <2>1, <2>2 DEF InHand
<1>7. QED
  BY <1>3, <1>5, <1>6

LEMMA ReleaseHandsOver ==
  ASSUME IInv, NEW t \in Threads, Release(t)
  PROVE  /\ UNCHANGED Unread
         /\ InHand[t] # None /\ InHand' = [InHand EXCEPT ![t] = None]
<1>1. /\ pc[t] = "rrel" /\ pc'[t] = "idle" /\ got'[t] = None
      /\ Others(t) /\ UNCHANGED <<head, tail, log>>
  BY DEF Release, Return, Goto, Others, IInv, TypeOK
<1>2. InHand[t] \in Msgs
  <2>1. got[t] = log[pos[t] + 1] /\ pos[t] \in Nat /\ pos[t] < Len(log) /\ log \in Seq(Msgs)
    BY <1>1 DEF IInv, TypeOK, Held, HeldBy, Counters
  <2>2. QED BY <1>1, <2>1 DEF InHand
<1>3. InHand'[t] = None
  BY <1>1 DEF InHand
<1>4. \A u \in Threads : u # t => InHand'[u] = InHand[u]
  BY <1>1, SameInHand
<1>5. InHand' = [InHand EXCEPT ![t] = None]
  BY <1>3, <1>4 DEF InHand
<1>6. QED
  BY <1>1, <1>2, <1>5, NoneAssumption DEF Unread

LEMMA OtherStepsInvisible ==
  ASSUME IInv, NEW t \in Threads,
         StoreData(t) \/ Publish(t) \/ CopyData(t) \/ FreeDiscarded(t)
  PROVE  UNCHANGED <<Unread, InHand>>
<1>1. Others(t) /\ UNCHANGED <<head, tail, log>>
  BY DEF StoreData, Publish, CopyData, FreeDiscarded, Return, Goto, Others, IInv, TypeOK
<1>2. InHand'[t] = InHand[t]
  <2>1. CASE StoreData(t)
    BY <2>1 DEF StoreData, Goto, InHand, IInv, TypeOK
  <2>2. CASE Publish(t)
    BY <2>2 DEF Publish, Return, Goto, InHand, IInv, TypeOK, EmptyHanded
  <2>3. CASE CopyData(t)
    BY <2>3 DEF CopyData, Goto, InHand, IInv, TypeOK, Held, HeldBy
  <2>4. CASE FreeDiscarded(t)
    BY <2>4 DEF FreeDiscarded, Goto, InHand, IInv, TypeOK
  <2>5. QED BY <2>1, <2>2, <2>3, <2>4
<1>3. InHand' = InHand
  BY <1>1, <1>2, SameInHand DEF InHand
<1>4. QED
  BY <1>1, <1>3 DEF Unread

(* Reads and writes of RingBufferSlotSHM (shm.hpp:90-148) take effect      *)
(* atomically, first in first out, each message once and whole.            *)
THEOREM Refinement ==
  ASSUME Capacity > 1
  PROVE  Spec => IsQueue
<1> USE DEF Queue!QInit, Queue!QNext, Queue!qvars, Queue!Enqueue, Queue!Take,
            Queue!HandOver, Queue!Discard
<1>1. Init => Queue!QInit
  BY SubSeqEmpty, CapacityAssumption DEF Init
<1>2. ASSUME IInv, [Next]_vars
      PROVE  [Queue!QNext]_Queue!qvars
  <2>1. SUFFICES \/ UNCHANGED <<Unread, InHand>>
                 \/ /\ Len(Unread) < Capacity /\ UNCHANGED InHand
                    /\ \E m \in Msgs : Unread' = Append(Unread, m)
                 \/ /\ Unread # <<>> /\ Unread' = Tail(Unread)
                    /\ UNCHANGED InHand
                 \/ \E t \in Threads : /\ Unread # <<>> /\ Unread' = Tail(Unread)
                                       /\ InHand[t] = None
                                       /\ InHand' = [InHand EXCEPT ![t] = Head(Unread)]
                 \/ \E t \in Threads : /\ UNCHANGED Unread
                                       /\ InHand[t] # None
                                       /\ InHand' = [InHand EXCEPT ![t] = None]
    BY Zenon DEF Unread, InHand
  <2>2. CASE UNCHANGED vars
    BY <2>2 DEF vars, Unread, InHand
  <2>3. ASSUME NEW t \in Threads,
               \/ \E m \in Msgs, o \in Overwrites : StartWrite(t, m, o)
               \/ LoadWriteSeq(t) \/ WriteFull(t) \/ ReloadTail(t) \/ ClaimTailFails(t)
               \/ LoadHead(t) \/ LoadHeadSeq(t) \/ ClaimHeadFails(t)
               \/ StartRead(t) \/ LoadReadSeq(t) \/ ReadEmpty(t) \/ ReloadHead(t)
               \/ ClaimReadFails(t)
        PROVE  UNCHANGED <<Unread, InHand>>
    BY <1>2, <2>3, InvStep, QuietActions, QuietInHand
  <2>4. ASSUME NEW t \in Threads, ClaimTail(t)
        PROVE  /\ Len(Unread) < Capacity /\ UNCHANGED InHand
               /\ \E m \in Msgs : Unread' = Append(Unread, m)
    BY <1>2, <2>4, ClaimTailEnqueues
  <2>5. ASSUME NEW t \in Threads, ClaimHead(t)
        PROVE  Unread # <<>> /\ Unread' = Tail(Unread) /\ UNCHANGED InHand
    BY <1>2, <2>5, ClaimHeadDequeues
  <2>6. ASSUME NEW t \in Threads, ClaimRead(t)
        PROVE  /\ Unread # <<>> /\ Unread' = Tail(Unread)
               /\ InHand[t] = None
               /\ InHand' = [InHand EXCEPT ![t] = Head(Unread)]
    BY <1>2, <2>6, ClaimHeadDequeues
  <2>7. ASSUME NEW t \in Threads, Release(t)
        PROVE  /\ UNCHANGED Unread
               /\ InHand[t] # None /\ InHand' = [InHand EXCEPT ![t] = None]
    BY <1>2, <2>7, ReleaseHandsOver
  <2>8. ASSUME NEW t \in Threads,
               StoreData(t) \/ Publish(t) \/ CopyData(t) \/ FreeDiscarded(t)
        PROVE  UNCHANGED <<Unread, InHand>>
    BY <1>2, <2>8, OtherStepsInvisible
  <2>9. QED
    BY <1>2, <2>2, <2>3, <2>4, <2>5, <2>6, <2>7, <2>8 DEF Next, WriteStep, ReadStep
<1>3. QED
  BY <1>1, <1>2, Invariant, PTL DEF Spec, Queue!QSpec, IsQueue

=============================================================================
