-------------------------- MODULE RingBufferSlotSHM --------------------------
(***************************************************************************)
(* rm::RingBufferSlotSHM<T, Capacity>: a lock-free ring of slots in shared *)
(* memory that any number of threads of any number of processes write and  *)
(* read.  Every action below is one access to shared memory, with the      *)
(* thread-local branch that follows it; the threads interleave freely.     *)
(*                                                                         *)
(* A ticket is a value of the tail counter (for the writers) or of the     *)
(* head counter (for the readers).  Ticket p uses slot p % Capacity, whose *)
(* sequence number is p while the slot is free for it, p + 1 once the      *)
(* message is published and p + Capacity once it is consumed.              *)
(*                                                                         *)
(* A weak compare-exchange may fail although the counter has the expected  *)
(* value.  A thread that takes no step stands for a preempted thread or a  *)
(* crashed process.  size_t counters are not wrapped (2^64 calls).         *)
(***************************************************************************)
EXTENDS Integers, Sequences, FiniteSets

CONSTANTS
  Threads,    (* threads, each free to write and to read                   *)
  Msgs,       (* the values a message can have                             *)
  Capacity,   (* template parameter Capacity                               *)
  None,       (* no message                                                *)
  Overwrites, (* the values of write()'s overwrite argument that are used  *)
  Fair,       (* the threads that keep running (FairSpec only)             *)
  MaxWrites   (* bound on the messages ever written                        *)

(* The code asks for a power of two; the algorithm needs two slots.        *)
ASSUME CapacityAssumption == Capacity \in Nat \ {0}
ASSUME MaxWritesAssumption == MaxWrites \in Nat
ASSUME NoneAssumption == None \notin Msgs
ASSUME OverwritesAssumption == Overwrites \subseteq BOOLEAN
ASSUME FairAssumption == Fair \subseteq Threads

VARIABLES
  head, tail, (* Buffer::head, Buffer::tail                                *)
  seq,        (* seq[i]  : slots[i].sequence                               *)
  data,       (* data[i] : slots[i].data                                   *)
  pc,         (* pc[t]   : the access thread t performs next               *)
  pos,        (* pos[t]  : current_tail of write(), current_head of read() *)
  hpos,       (* hpos[t] : current_head of an overwriting write()          *)
  val,        (* val[t]  : the value argument of write()                   *)
  ow,         (* ow[t]   : the overwrite argument of write()               *)
  got,        (* got[t]  : the value argument of read()                    *)
  log         (* history : the messages in the order of their tickets      *)

vars == <<head, tail, seq, data, pc, pos, hpos, val, ow, got, log>>

Slots == 0 .. Capacity - 1

(* ticket & (Capacity - 1), Capacity being a power of two *)
Slot(p) == p % Capacity

PCs == {"idle", "wseq", "wreload", "wcas", "wdata", "wpub",
        "hload", "hseq", "hcas", "hrel",
        "rseq", "rreload", "rcas", "rcopy", "rrel"}

Goto(t, l) == pc' = [pc EXCEPT ![t] = l]

(* A call returns: its locals are gone. *)
Return(t) ==
  /\ Goto(t, "idle")
  /\ pos' = [pos EXCEPT ![t] = 0]
  /\ hpos' = [hpos EXCEPT ![t] = 0]
  /\ val' = [val EXCEPT ![t] = None]
  /\ ow' = [ow EXCEPT ![t] = FALSE]
  /\ got' = [got EXCEPT ![t] = None]

(* The creator's constructor, before any thread uses the buffer.           *)
Init ==
  /\ head = 0
  /\ tail = 0
  /\ seq = [i \in Slots |-> i]
  /\ data = [i \in Slots |-> None]
  /\ pc = [t \in Threads |-> "idle"]
  /\ pos = [t \in Threads |-> 0]
  /\ hpos = [t \in Threads |-> 0]
  /\ val = [t \in Threads |-> None]
  /\ ow = [t \in Threads |-> FALSE]
  /\ got = [t \in Threads |-> None]
  /\ log = <<>>

-----------------------------------------------------------------------------
(* write(value, overwrite) *)

Writing(t) == pc[t] \in {"wseq", "wreload", "wcas", "wdata", "wpub",
                         "hload", "hseq", "hcas", "hrel"}

(* Only the bound: a call that would be past the last message never starts. *)
MayWrite == Len(log) + Cardinality({t \in Threads : Writing(t)}) < MaxWrites

(* Entry: the first load of tail. *)
StartWrite(t, m, o) ==
  /\ pc[t] = "idle"
  /\ MayWrite
  /\ Goto(t, "wseq")
  /\ pos' = [pos EXCEPT ![t] = tail]
  /\ val' = [val EXCEPT ![t] = m]
  /\ ow' = [ow EXCEPT ![t] = o]
  /\ UNCHANGED <<head, tail, seq, data, hpos, got, log>>

(* Load the slot's sequence and branch on diff = sequence - current_tail. *)
LoadWriteSeq(t) ==
  /\ pc[t] = "wseq"
  /\ LET s == seq[Slot(pos[t])] IN
       \/ s = pos[t] /\ Goto(t, "wcas")
       \/ s < pos[t] /\ ow[t] /\ Goto(t, "hload")
       \/ s > pos[t] /\ Goto(t, "wreload")
  /\ UNCHANGED <<head, tail, seq, data, pos, hpos, val, ow, got, log>>

(* The same load, diff < 0 and not overwrite: `return false`. *)
WriteFull(t) ==
  /\ pc[t] = "wseq"
  /\ seq[Slot(pos[t])] < pos[t]
  /\ ~ow[t]
  /\ Return(t)
  /\ UNCHANGED <<head, tail, seq, data, log>>

(* Faulty variant: goes round again with the stale current_tail. *)
BadReloadTail(t) ==
  /\ pc[t] = "wreload"
  /\ Goto(t, "wseq")
  /\ UNCHANGED <<head, tail, seq, data, pos, hpos, val, ow, got, log>>

ReloadTail(t) ==
  /\ pc[t] = "wreload"
  /\ Goto(t, "wseq")
  /\ pos' = [pos EXCEPT ![t] = tail]
  /\ UNCHANGED <<head, tail, seq, data, hpos, val, ow, got, log>>

(* Faulty variant: a plain increment of the counter, not a compare-exchange. *)
BadClaimTail(t) ==
  /\ pc[t] = "wcas"
  /\ Goto(t, "wdata")
  /\ tail' = tail + 1
  /\ log' = Append(log, val[t])
  /\ UNCHANGED <<head, seq, data, pos, hpos, val, ow, got>>

(* The compare-exchange that gives ticket current_tail to t. *)
ClaimTail(t) ==
  /\ pc[t] = "wcas"
  /\ tail = pos[t]
  /\ Goto(t, "wdata")
  /\ tail' = tail + 1
  /\ log' = Append(log, val[t])
  /\ UNCHANGED <<head, seq, data, pos, hpos, val, ow, got>>

(* A failed compare-exchange, possibly spuriously, loads current_tail. *)
ClaimTailFails(t) ==
  /\ pc[t] = "wcas"
  /\ Goto(t, "wseq")
  /\ pos' = [pos EXCEPT ![t] = tail]
  /\ UNCHANGED <<head, tail, seq, data, hpos, val, ow, got, log>>

StoreData(t) ==
  /\ pc[t] = "wdata"
  /\ Goto(t, "wpub")
  /\ data' = [data EXCEPT ![Slot(pos[t])] = val[t]]
  /\ UNCHANGED <<head, tail, seq, pos, hpos, val, ow, got, log>>

(* Faulty variant: the slot is left as it was. *)
BadPublish(t) ==
  /\ pc[t] = "wpub"
  /\ Return(t)
  /\ UNCHANGED <<head, tail, seq, data, log>>

(* Publish the ticket; `return true`. *)
Publish(t) ==
  /\ pc[t] = "wpub"
  /\ Return(t)
  /\ seq' = [seq EXCEPT ![Slot(pos[t])] = pos[t] + 1]
  /\ UNCHANGED <<head, tail, data, log>>

(* The buffer looks full and overwrite is set: discard the oldest message. *)
LoadHead(t) ==
  /\ pc[t] = "hload"
  /\ Goto(t, "hseq")
  /\ hpos' = [hpos EXCEPT ![t] = head]
  /\ UNCHANGED <<head, tail, seq, data, pos, val, ow, got, log>>

LoadHeadSeq(t) ==
  /\ pc[t] = "hseq"
  /\ \/ /\ seq[Slot(hpos[t])] = hpos[t] + 1
        /\ Goto(t, "hcas")
        /\ UNCHANGED hpos
     \/ /\ seq[Slot(hpos[t])] # hpos[t] + 1
        /\ Goto(t, "wseq")
        /\ hpos' = [hpos EXCEPT ![t] = 0]
  /\ UNCHANGED <<head, tail, seq, data, pos, val, ow, got, log>>

ClaimHead(t) ==
  /\ pc[t] = "hcas"
  /\ head = hpos[t]
  /\ Goto(t, "hrel")
  /\ head' = head + 1
  /\ UNCHANGED <<tail, seq, data, pos, hpos, val, ow, got, log>>

ClaimHeadFails(t) ==
  /\ pc[t] = "hcas"
  /\ Goto(t, "wseq")
  /\ hpos' = [hpos EXCEPT ![t] = 0]
  /\ UNCHANGED <<head, tail, seq, data, pos, val, ow, got, log>>

(* Free the discarded slot and retry with the same current_tail. *)
FreeDiscarded(t) ==
  /\ pc[t] = "hrel"
  /\ Goto(t, "wseq")
  /\ seq' = [seq EXCEPT ![Slot(hpos[t])] = hpos[t] + Capacity]
  /\ hpos' = [hpos EXCEPT ![t] = 0]
  /\ UNCHANGED <<head, tail, data, pos, val, ow, got, log>>

-----------------------------------------------------------------------------
(* read(value) *)

StartRead(t) ==
  /\ pc[t] = "idle"
  /\ Goto(t, "rseq")
  /\ pos' = [pos EXCEPT ![t] = head]
  /\ UNCHANGED <<head, tail, seq, data, hpos, val, ow, got, log>>

(* Branch on diff = sequence - (current_head + 1). *)
LoadReadSeq(t) ==
  /\ pc[t] = "rseq"
  /\ LET s == seq[Slot(pos[t])] IN
       \/ s = pos[t] + 1 /\ Goto(t, "rcas")
       \/ s > pos[t] + 1 /\ Goto(t, "rreload")
  /\ UNCHANGED <<head, tail, seq, data, pos, hpos, val, ow, got, log>>

(* The same load, diff < 0: `return false`. *)
ReadEmpty(t) ==
  /\ pc[t] = "rseq"
  /\ seq[Slot(pos[t])] < pos[t] + 1
  /\ Return(t)
  /\ UNCHANGED <<head, tail, seq, data, log>>

ReloadHead(t) ==
  /\ pc[t] = "rreload"
  /\ Goto(t, "rseq")
  /\ pos' = [pos EXCEPT ![t] = head]
  /\ UNCHANGED <<head, tail, seq, data, hpos, val, ow, got, log>>

(* Faulty variant: the head is stored, whatever it has become. *)
BadClaimRead(t) ==
  /\ pc[t] = "rcas"
  /\ Goto(t, "rcopy")
  /\ head' = pos[t] + 1
  /\ UNCHANGED <<tail, seq, data, pos, hpos, val, ow, got, log>>

ClaimRead(t) ==
  /\ pc[t] = "rcas"
  /\ head = pos[t]
  /\ Goto(t, "rcopy")
  /\ head' = head + 1
  /\ UNCHANGED <<tail, seq, data, pos, hpos, val, ow, got, log>>

ClaimReadFails(t) ==
  /\ pc[t] = "rcas"
  /\ Goto(t, "rseq")
  /\ pos' = [pos EXCEPT ![t] = head]
  /\ UNCHANGED <<head, tail, seq, data, hpos, val, ow, got, log>>

CopyData(t) ==
  /\ pc[t] = "rcopy"
  /\ Goto(t, "rrel")
  /\ got' = [got EXCEPT ![t] = data[Slot(pos[t])]]
  /\ UNCHANGED <<head, tail, seq, data, pos, hpos, val, ow, log>>

(* Faulty variant: the slot stays published. *)
BadRelease(t) ==
  /\ pc[t] = "rrel"
  /\ Return(t)
  /\ seq' = [seq EXCEPT ![Slot(pos[t])] = pos[t] + 1]
  /\ UNCHANGED <<head, tail, data, log>>

(* Free the slot; `return true`. *)
Release(t) ==
  /\ pc[t] = "rrel"
  /\ Return(t)
  /\ seq' = [seq EXCEPT ![Slot(pos[t])] = pos[t] + Capacity]
  /\ UNCHANGED <<head, tail, data, log>>

-----------------------------------------------------------------------------
WriteStep(t) ==
  \/ LoadWriteSeq(t) \/ WriteFull(t) \/ ReloadTail(t) \/ ClaimTail(t) \/ ClaimTailFails(t)
  \/ StoreData(t) \/ Publish(t)
  \/ LoadHead(t) \/ LoadHeadSeq(t) \/ ClaimHead(t) \/ ClaimHeadFails(t)
  \/ FreeDiscarded(t)

ReadStep(t) ==
  \/ LoadReadSeq(t) \/ ReadEmpty(t) \/ ReloadHead(t) \/ ClaimRead(t) \/ ClaimReadFails(t)
  \/ CopyData(t) \/ Release(t)

Next ==
  \E t \in Threads :
    \/ \E m \in Msgs, o \in Overwrites : StartWrite(t, m, o)
    \/ StartRead(t)
    \/ WriteStep(t)
    \/ ReadStep(t)

Spec == Init /\ [][Next]_vars

(* A running thread keeps executing its call, and a compare-exchange that  *)
(* could succeed again and again is not failed spuriously for ever.  The   *)
(* threads outside Fair may stop anywhere: they are preempted or crashed.  *)
FairSpec ==
  /\ Spec
  /\ \A t \in Fair : /\ WF_vars(WriteStep(t) \/ ReadStep(t))
                     /\ SF_vars(ClaimTail(t))
                     /\ SF_vars(ClaimHead(t))
                     /\ SF_vars(ClaimRead(t))

-----------------------------------------------------------------------------
(* Properties *)

(* Every variable has a value of its type: what a slot or a call holds is  *)
(* a message or nothing, and no counter ever goes below zero.              *)
TypeOK ==
  /\ head \in Nat /\ tail \in Nat
  /\ seq \in [Slots -> Nat]
  /\ data \in [Slots -> Msgs \cup {None}]
  /\ pc \in [Threads -> PCs]
  /\ pos \in [Threads -> Nat]
  /\ hpos \in [Threads -> Nat]
  /\ val \in [Threads -> Msgs \cup {None}]
  /\ ow \in [Threads -> BOOLEAN]
  /\ got \in [Threads -> Msgs \cup {None}]
  /\ log \in Seq(Msgs)

(* A write() in progress has a message to write.                           *)
Arguments == \A t \in Threads : Writing(t) => val[t] \in Msgs

(* A read() has a message only once it has copied it.                      *)
EmptyHanded == \A t \in Threads : pc[t] # "rrel" => got[t] = None

(* What a thread knows of a counter may be old but was never ahead of it.  *)
Behind ==
  \A t \in Threads :
    /\ pc[t] \in {"wseq", "wcas", "hload", "hseq", "hcas", "hrel"} => pos[t] <= tail
    /\ pc[t] \in {"rseq", "rcas"} => pos[t] <= head

(* t has claimed ticket p to write it and has not published it yet.        *)
WriterHolds(t, p) == pc[t] \in {"wdata", "wpub"} /\ pos[t] = p

(* t has claimed ticket p to read or discard it and has not freed it yet.  *)
ConsumerHolds(t, p) ==
  \/ pc[t] \in {"rcopy", "rrel"} /\ pos[t] = p
  \/ pc[t] = "hrel" /\ hpos[t] = p

(* slots[i].data is a plain object: while a thread stores or copies it, no *)
(* other thread stores or copies the data of the same slot (shm.hpp:103    *)
(* and :139).                                                              *)
NoDataRace ==
  \A t, u \in Threads :
    /\ t # u
    /\ pc[t] \in {"wdata", "rcopy"}
    /\ pc[u] \in {"wdata", "rcopy"}
    => Slot(pos[t]) # Slot(pos[u])

(* The two counters: readers and overwriters never pass the writers, and   *)
(* the writers are never more than Capacity messages ahead of them.        *)
Counters ==
  /\ head <= tail
  /\ tail <= head + Capacity
  /\ tail = Len(log)

(* Once every call has returned, the slots tell exactly which messages are *)
(* left: each unread ticket is published with its own message and every    *)
(* other slot is free, so nothing written was lost and no slot leaked.     *)
QuiescentExact ==
  (\A t \in Threads : pc[t] = "idle") =>
    \A p \in head .. head + Capacity - 1 :
      IF p < tail THEN seq[Slot(p)] = p + 1 /\ data[Slot(p)] = log[p + 1]
                  ELSE seq[Slot(p)] = p

(* The sequence numbers, for the Capacity tickets from head on.            *)
Window ==
  \A p \in head .. head + Capacity - 1 :
    IF p < tail
    THEN IF \E t \in Threads : WriterHolds(t, p)
         THEN seq[Slot(p)] = p
         ELSE seq[Slot(p)] = p + 1 /\ data[Slot(p)] = log[p + 1]
    ELSE IF \E t \in Threads : ConsumerHolds(t, p - Capacity)
         THEN seq[Slot(p)] = p - Capacity + 1
         ELSE seq[Slot(p)] = p

(* What a thread that holds a ticket may rely on.                          *)
HeldBy(t) ==
  /\ pc[t] \in {"wdata", "wpub"} =>
       head <= pos[t] /\ pos[t] < tail /\ val[t] = log[pos[t] + 1]
  /\ pc[t] = "wpub" => data[Slot(pos[t])] = log[pos[t] + 1]
  /\ pc[t] \in {"rcopy", "rrel"} => pos[t] < head /\ tail <= pos[t] + Capacity
  /\ pc[t] = "hrel" => hpos[t] < head /\ tail <= hpos[t] + Capacity
  /\ pc[t] = "rcopy" => data[Slot(pos[t])] = log[pos[t] + 1]
  /\ pc[t] = "rrel" => got[t] = log[pos[t] + 1]

Held == \A t \in Threads : HeldBy(t)

(* No ticket is held twice.                                                *)
OneHolder ==
  \A t, u \in Threads : \A p \in 0 .. tail :
    /\ WriterHolds(t, p) /\ WriterHolds(u, p) => t = u
    /\ ConsumerHolds(t, p) /\ ConsumerHolds(u, p) => t = u

(* What a thread about to compare-exchange has seen cannot be undone.      *)
SeenBy(t) ==
  /\ pc[t] = "wcas" => seq[Slot(pos[t])] >= pos[t]
  /\ pc[t] = "rcas" => seq[Slot(pos[t])] >= pos[t] + 1
  /\ pc[t] = "hcas" => seq[Slot(hpos[t])] >= hpos[t] + 1

Seen == \A t \in Threads : SeenBy(t)

(* The inductive invariant of RingBufferProofs.                            *)
IInv ==
  /\ TypeOK /\ Arguments /\ EmptyHanded /\ Behind
  /\ Counters /\ Window /\ Held /\ OneHolder /\ Seen

(* When a call is about to return false, the buffer is full (empty), or    *)
(* the one thread to blame is between its claim and its store of the slot: *)
(* a stalled peer, not a lost message, is the only other cause.            *)
FalseExplained ==
  \A t \in Threads :
    /\ pc[t] = "wseq" /\ seq[Slot(pos[t])] < pos[t] =>
         \/ tail = head + Capacity
         \/ \E u \in Threads : ConsumerHolds(u, pos[t] - Capacity)
    /\ pc[t] = "rseq" /\ seq[Slot(pos[t])] < pos[t] + 1 =>
         \/ head = tail
         \/ \E u \in Threads : WriterHolds(u, head)

(* The buffer is a bounded FIFO queue: an operation takes effect when its  *)
(* compare-exchange succeeds.                                              *)
Queue == INSTANCE BoundedQueue WITH
  queue <- SubSeq(log, head + 1, tail),
  taken <- [t \in Threads |->
              IF pc[t] = "rcopy" THEN log[pos[t] + 1] ELSE got[t]]

(* Every write() that returns true enqueues its message once, every read() *)
(* that returns true delivers the message at the head of the queue, whole, *)
(* and no two reads deliver the same one (shm.hpp:90-148).                 *)
IsQueue == Queue!QSpec

(* Every read() and every write() without overwrite of a running thread    *)
(* returns, whatever the other threads do or stop doing ("non-blocking",   *)
(* ipc.hpp:394 and :403).  A write() with overwrite does not, when the     *)
(* holder of the slot it needs has stopped (README, Disagreements).        *)
CallsReturn == \A t \in Fair : (pc[t] # "idle" /\ ~ow[t]) ~> (pc[t] = "idle")

=============================================================================
