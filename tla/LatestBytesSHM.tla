--------------------------- MODULE LatestBytesSHM ---------------------------
(***************************************************************************)
(* rm::LatestBytesSHM: the latest message of any length up to a capacity,  *)
(* in shared memory, guarded by a sequence number (even: stable, odd:      *)
(* being written) and a spin lock among the writers.  One shared object,   *)
(* whose creator lays it out while other processes already attach to it.   *)
(* Every action is one access to shared memory.  A process may die         *)
(* anywhere.  The bytes of a payload are abstracted to its words; a memory *)
(* copy moves them in any order.  Stores become visible in the order of the *)
(* program, as on x86; AtomicSHM has what happens where they do not.        *)
(***************************************************************************)
EXTENDS Naturals, Sequences, FiniteSets

CONSTANTS
  Procs,     (* the processes                                              *)
  Msgs,      (* the messages                                               *)
  Length,    (* Length[m] : the words of message m                         *)
  Capacity,  (* the words the object can hold                              *)
  None,      (* no message, an unwritten word                              *)
  Mortal,    (* the processes that may die                                 *)
  Fair,      (* the processes that keep running (FairSpec only)            *)
  MaxWrites  (* bound on the writes ever begun                             *)

ASSUME LengthAssumption == Length \in [Msgs -> Nat]
ASSUME CapacityAssumption == Capacity \in Nat
ASSUME NoneAssumption == None \notin Msgs
ASSUME ProcsAssumption == Mortal \subseteq Procs /\ Fair \subseteq Procs
ASSUME MaxWritesAssumption == MaxWrites \in Nat

VARIABLES
  magic,   (* Layout::magic has been published                             *)
  lock,    (* Layout::writer_mtx                                           *)
  seq,     (* Layout::seq                                                  *)
  size,    (* Layout::size                                                 *)
  payload, (* payload[i] : the message whose word i is stored              *)
  pc,      (* pc[p]   : what p does next                                   *)
  arg,     (* arg[p]  : the data argument of write()                       *)
  base,    (* base[p] : s of write(), s1 of read()                         *)
  todo,    (* todo[p] : the words still to be copied                       *)
  copy,    (* copy[p] : current of read(), word by word                    *)
  len,     (* len[p]  : size of read()                                     *)
  last,    (* last[p] : the caller's last_sequence                         *)
  got,     (* got[p]  : the data last read                                 *)
  log      (* history : the messages published, in order                   *)

object == <<magic, lock, seq, size, payload>>
locals == <<arg, base, todo, copy, len>>
vars == <<object, pc, locals, last, got, log>>

Words == 1 .. Capacity

(* The words of m, as a reader that gets them all sees them. *)
Whole(m) == [i \in 1 .. Length[m] |-> m]

PCs == {"closed", "layout", "magic", "idle", "dead",
        "lock", "wseq", "odd", "size", "store", "unlock",
        "rseq", "rsize", "rcopy", "check"}

Goto(p, l) == pc' = [pc EXCEPT ![p] = l]

(* A call returns: its locals are gone. *)
Return(p) ==
  /\ Goto(p, "idle")
  /\ arg' = [arg EXCEPT ![p] = None]
  /\ base' = [base EXCEPT ![p] = 0]
  /\ todo' = [todo EXCEPT ![p] = {}]
  /\ copy' = [copy EXCEPT ![p] = <<>>]
  /\ len' = [len EXCEPT ![p] = 0]

(* ftruncate() has filled the new object with zeros. *)
Init ==
  /\ magic = FALSE /\ lock = FALSE /\ seq = 0 /\ size = 0
  /\ payload = [i \in Words |-> None]
  /\ pc = [p \in Procs |-> "closed"]
  /\ arg = [p \in Procs |-> None]
  /\ base = [p \in Procs |-> 0]
  /\ todo = [p \in Procs |-> {}]
  /\ copy = [p \in Procs |-> <<>>]
  /\ len = [p \in Procs |-> 0]
  /\ last = [p \in Procs |-> 0]
  /\ got = [p \in Procs |-> <<>>]
  /\ log = <<>>

-----------------------------------------------------------------------------
(* The constructor *)

(* The first process creates the object.  The others can map it only once  *)
(* its size is set.                                                        *)
Create(p) ==
  /\ \A q \in Procs : pc[q] = "closed"
  /\ Goto(p, "layout")
  /\ UNCHANGED <<object, locals, last, got, log>>

(* A later process waits for the magic, but for 100 ms at most: it then    *)
(* logs an error and keeps the object.                                     *)
Attach(p) ==
  /\ pc[p] = "closed"
  /\ \E q \in Procs : pc[q] # "closed"
  /\ Goto(p, "idle")
  /\ UNCHANGED <<object, locals, last, got, log>>

(* Placement-new of the header. *)
ConstructLayout(p) ==
  /\ pc[p] = "layout"
  /\ Goto(p, "magic")
  /\ magic' = FALSE /\ lock' = FALSE /\ seq' = 0 /\ size' = 0
  /\ UNCHANGED <<payload, locals, last, got, log>>

PublishMagic(p) ==
  /\ pc[p] = "magic"
  /\ Goto(p, "idle")
  /\ magic' = TRUE
  /\ UNCHANGED <<lock, seq, size, payload, locals, last, got, log>>

-----------------------------------------------------------------------------
(* write(data) *)

Writing(p) == pc[p] \in {"lock", "wseq", "odd", "size", "store", "unlock"}

(* The processes between their acquisition and their release of the lock.  *)
Critical(p) == pc[p] \in {"wseq", "odd", "size", "store", "unlock"}

(* Only the bound. *)
MayWrite == Len(log) + Cardinality({p \in Procs : Writing(p)}) < MaxWrites

(* Without the magic, or with too much data, `return false`. *)
StartWrite(p, m) ==
  /\ pc[p] = "idle"
  /\ MayWrite
  /\ magic
  /\ Length[m] <= Capacity
  /\ Goto(p, "lock")
  /\ arg' = [arg EXCEPT ![p] = m]
  /\ UNCHANGED <<object, base, todo, copy, len, last, got, log>>

(* The test_and_set that succeeds; the others only spin. *)
AcquireLock(p) ==
  /\ pc[p] = "lock"
  /\ ~lock
  /\ lock' = TRUE
  /\ Goto(p, "wseq")
  /\ UNCHANGED <<magic, seq, size, payload, locals, last, got, log>>

(* An odd sequence, left by a writer that died, is skipped. *)
LoadBase(p) ==
  /\ pc[p] = "wseq"
  /\ base' = [base EXCEPT ![p] = IF seq % 2 = 1 THEN seq + 1 ELSE seq]
  /\ Goto(p, "odd")
  /\ UNCHANGED <<object, arg, todo, copy, len, last, got, log>>

(* Faulty variant: the readers are not told that a write is going on. *)
MarkNothing(p) ==
  /\ pc[p] = "odd"
  /\ Goto(p, "size")
  /\ UNCHANGED <<object, locals, last, got, log>>

MarkOdd(p) ==
  /\ pc[p] = "odd"
  /\ seq' = base[p] + 1
  /\ Goto(p, "size")
  /\ UNCHANGED <<magic, lock, size, payload, locals, last, got, log>>

StoreSize(p) ==
  /\ pc[p] = "size"
  /\ size' = Length[arg[p]]
  /\ todo' = [todo EXCEPT ![p] = 1 .. Length[arg[p]]]
  /\ Goto(p, "store")
  /\ UNCHANGED <<magic, lock, seq, payload, arg, base, copy, len, last, got, log>>

StoreWord(p, i) ==
  /\ pc[p] = "store"
  /\ i \in todo[p]
  /\ payload' = [payload EXCEPT ![i] = arg[p]]
  /\ todo' = [todo EXCEPT ![p] = @ \ {i}]
  /\ UNCHANGED <<magic, lock, seq, size, pc, arg, base, copy, len, last, got, log>>

MarkEven(p) ==
  /\ pc[p] = "store"
  /\ todo[p] = {}
  /\ seq' = base[p] + 2
  /\ log' = Append(log, arg[p])
  /\ Goto(p, "unlock")
  /\ UNCHANGED <<magic, lock, size, payload, locals, last, got>>

(* `return true` *)
ReleaseLock(p) ==
  /\ pc[p] = "unlock"
  /\ lock' = FALSE
  /\ Return(p)
  /\ UNCHANGED <<magic, seq, size, payload, last, got, log>>

-----------------------------------------------------------------------------
(* read(data, last_sequence) *)

Reading(p) == pc[p] \in {"rseq", "rsize", "rcopy"}

StartRead(p) ==
  /\ pc[p] = "idle"
  /\ magic
  /\ Goto(p, "rseq")
  /\ UNCHANGED <<object, locals, last, got, log>>

(* Nothing written, a write going on or nothing new: `return false`. *)
NothingNew(p) ==
  /\ pc[p] = "rseq"
  /\ seq = 0 \/ seq % 2 = 1 \/ seq = last[p]
  /\ Return(p)
  /\ UNCHANGED <<object, last, got, log>>

LoadSeq(p) ==
  /\ pc[p] = "rseq"
  /\ seq # 0 /\ seq % 2 = 0 /\ seq # last[p]
  /\ base' = [base EXCEPT ![p] = seq]
  /\ Goto(p, "rsize")
  /\ UNCHANGED <<object, arg, todo, copy, len, last, got, log>>

(* A size past the capacity would `return false`. *)
LoadSize(p) ==
  /\ pc[p] = "rsize"
  /\ IF size > Capacity
     THEN Return(p)
     ELSE /\ len' = [len EXCEPT ![p] = size]
          /\ todo' = [todo EXCEPT ![p] = 1 .. size]
          /\ copy' = [copy EXCEPT ![p] = [i \in 1 .. size |-> None]]
          /\ Goto(p, "rcopy")
          /\ UNCHANGED <<arg, base>>
  /\ UNCHANGED <<object, last, got, log>>

CopyWord(p, i) ==
  /\ pc[p] = "rcopy"
  /\ i \in todo[p]
  /\ copy' = [copy EXCEPT ![p][i] = payload[i]]
  /\ todo' = [todo EXCEPT ![p] = @ \ {i}]
  /\ UNCHANGED <<object, pc, arg, base, len, last, got, log>>

(* The second load of the sequence agrees: `return true`. *)
Accept(p) ==
  /\ pc[p] = "rcopy"
  /\ todo[p] = {}
  /\ seq = base[p]
  /\ got' = [got EXCEPT ![p] = copy[p]]
  /\ last' = [last EXCEPT ![p] = base[p]]
  /\ Return(p)
  /\ UNCHANGED <<object, log>>

(* Faulty variant: goes on comparing with the same first load. *)
Recheck(p) ==
  /\ pc[p] = "rcopy"
  /\ todo[p] = {}
  /\ seq # base[p]
  /\ UNCHANGED <<object, pc, locals, last, got, log>>

(* It does not: once more. *)
Retry(p) ==
  /\ pc[p] = "rcopy"
  /\ todo[p] = {}
  /\ seq # base[p]
  /\ Goto(p, "rseq")
  /\ base' = [base EXCEPT ![p] = 0]
  /\ copy' = [copy EXCEPT ![p] = <<>>]
  /\ len' = [len EXCEPT ![p] = 0]
  /\ UNCHANGED <<object, arg, todo, last, got, log>>

-----------------------------------------------------------------------------
(* The process dies; what it held in shared memory stays as it is. *)
Die(p) ==
  /\ p \in Mortal
  /\ pc[p] \notin {"closed", "dead"}
  /\ Goto(p, "dead")
  /\ UNCHANGED <<object, locals, last, got, log>>

Construct(p) == ConstructLayout(p) \/ PublishMagic(p)

WriteStep(p) ==
  \/ AcquireLock(p) \/ LoadBase(p) \/ MarkOdd(p) \/ StoreSize(p)
  \/ (\E i \in Words : StoreWord(p, i)) \/ MarkEven(p) \/ ReleaseLock(p)

ReadStep(p) ==
  \/ NothingNew(p) \/ LoadSeq(p) \/ LoadSize(p)
  \/ (\E i \in Words : CopyWord(p, i)) \/ Accept(p) \/ Retry(p)

CallStep(p) == Construct(p) \/ WriteStep(p) \/ ReadStep(p)

Next ==
  \E p \in Procs :
    \/ Create(p) \/ Attach(p) \/ Construct(p)
    \/ \E m \in Msgs : StartWrite(p, m)
    \/ StartRead(p)
    \/ WriteStep(p) \/ ReadStep(p)
    \/ Die(p)

Spec == Init /\ [][Next]_vars

(* A running process keeps executing its call; the test_and_set of one     *)
(* that finds the lock free again and again succeeds in the end.           *)
Fairness ==
  \A p \in Fair : WF_vars(CallStep(p)) /\ SF_vars(AcquireLock(p))

FairSpec == Spec /\ Fairness

-----------------------------------------------------------------------------
(* Properties *)

(* What a reader has: so many words, or none of some of them yet. *)
Copies == UNION {[1 .. n -> Msgs \cup {None}] : n \in 0 .. Capacity}

(* Every variable has a value of its type; a copy never exceeds the        *)
(* Capacity it was allocated for.                                          *)
TypeOK ==
  /\ magic \in BOOLEAN /\ lock \in BOOLEAN
  /\ seq \in Nat /\ size \in Nat
  /\ payload \in [Words -> Msgs \cup {None}]
  /\ pc \in [Procs -> PCs]
  /\ arg \in [Procs -> Msgs \cup {None}]
  /\ base \in [Procs -> Nat]
  /\ todo \in [Procs -> SUBSET Words]
  /\ copy \in [Procs -> Copies]
  /\ len \in [Procs -> 0 .. Capacity]
  /\ \A p \in Procs : DOMAIN copy[p] = 1 .. len[p]
  /\ last \in [Procs -> Nat]
  /\ got \in [Procs -> Copies]
  /\ log \in Seq(Msgs)

(* The object is a register whose reads and writes are atomic: a write     *)
(* takes effect with its second store of the sequence, a read with its     *)
(* second load of it (ipc.cpp:433, :457).                                  *)
Register == INSTANCE SharedRegister WITH
  value <- IF log = <<>> THEN <<>> ELSE Whole(log[Len(log)]),
  version <- Len(log),
  seen <- [p \in Procs |-> last[p] \div 2],
  held <- got,
  Msgs <- {Whole(m) : m \in Msgs},
  None <- <<>>

(* The object is a register that is read and written at once: each write   *)
(* takes effect at one moment inside the call, each read returns what the  *)
(* register held at one moment inside it, and never goes back              *)
(* (ipc.cpp:419-468).                                                      *)
IsRegister == Register!RSpec

Calling(p) == Writing(p) \/ Reading(p)

Settled(p) ==
  pc[p] \in {"idle", "dead"} \/ (Writing(p) /\ \E q \in Procs : pc[q] = "dead")

(* read() returns although other processes die in the middle of anything,  *)
(* write() while nobody does: a process that dies with the lock takes it   *)
(* along (ipc.cpp:424, :445).                                              *)
CallsReturn == \A p \in Fair : Calling(p) ~> Settled(p)

=============================================================================
