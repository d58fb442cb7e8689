----------------------------- MODULE AtomicSHM -----------------------------
(***************************************************************************)
(* rm::AtomicSHM<T>: one value in shared memory for many readers and       *)
(* writers, guarded by a 32-bit sequence number and a spin lock among the  *)
(* writers.  Unlike LatestBytesSHM, it has no word that tells an attaching *)
(* process that the creator has constructed it, its reader waits for a     *)
(* write in progress, and its sequence number wraps.                       *)
(*                                                                         *)
(* The value is stored and copied word by word, in any order.  The stores  *)
(* of the value are plain ones after a release store of the sequence: on a *)
(* machine with weakly ordered stores (the aarch64 builds) they may become *)
(* visible before it.                                                      *)
(***************************************************************************)
EXTENDS Naturals, Sequences, FiniteSets

CONSTANTS
  Users,       (* the processes                                            *)
  Msgs,        (* the values                                               *)
  Words,       (* the words of a value                                     *)
  Unset,       (* an unwritten word                                        *)
  Modulus,     (* sequence numbers are kept modulo Modulus (2^32)          *)
  Mortal,      (* the processes that may die                               *)
  Fair,        (* the processes that keep running (ValueFairSpec)          *)
  MaxWrites    (* bound on the writes ever begun                           *)

(* What is assumed of the constants. *)
ValueAssumptions ==
  /\ Modulus \in Nat /\ Modulus > 2 /\ Modulus % 2 = 0
  /\ Unset \notin Msgs /\ MaxWrites \in Nat
  /\ Mortal \subseteq Users /\ Fair \subseteq Users

VARIABLES
  lock,    (* Layout::writer_mtx                                           *)
  seq,     (* Layout::seq                                                  *)
  data,    (* data[i] : the value whose word i is stored                   *)
  vpc,     (* vpc[p]  : what p does next                                   *)
  arg,     (* arg[p]  : the value argument of write()                      *)
  base,    (* base[p] : s of write(), s1 of read()                         *)
  todo,    (* todo[p] : the words still to be copied                       *)
  copy,    (* copy[p] : the value argument of read(), word by word         *)
  got,     (* got[p]  : the value last read                                *)
  log,     (* history : the values published, in order                     *)
  mishaps  (* history : "early", a process has attached before the object  *)
           (* was constructed; "reordered", a store of the value was       *)
           (* visible before that of the sequence                          *)

object == <<lock, seq, data>>
valueVars == <<object, vpc, arg, base, todo, copy, got, log, mishaps>>

Blank == [i \in Words |-> Unset]
Whole(m) == [i \in Words |-> m]

PCs == {"closed", "layout", "idle", "dead", "lock", "wseq", "odd", "store", "unlock",
        "rseq", "rcopy"}

Proceed(p, l) == vpc' = [vpc EXCEPT ![p] = l]

Return(p) ==
  /\ Proceed(p, "idle")
  /\ arg' = [arg EXCEPT ![p] = Unset]
  /\ base' = [base EXCEPT ![p] = 0]
  /\ todo' = [todo EXCEPT ![p] = {}]
  /\ copy' = [copy EXCEPT ![p] = Blank]

(* ftruncate() has filled the new object with zeros. *)
ValueInit ==
  /\ lock = FALSE /\ seq = 0 /\ data = Blank
  /\ vpc = [p \in Users |-> "closed"]
  /\ arg = [p \in Users |-> Unset]
  /\ base = [p \in Users |-> 0]
  /\ todo = [p \in Users |-> {}]
  /\ copy = [p \in Users |-> Blank]
  /\ got = [p \in Users |-> Blank]
  /\ log = <<>>
  /\ mishaps = {}

-----------------------------------------------------------------------------
(* The constructor *)

CreateValue(p) ==
  /\ \A q \in Users : vpc[q] = "closed"
  /\ Proceed(p, "layout")
  /\ UNCHANGED <<object, arg, base, todo, copy, got, log, mishaps>>

(* Nothing makes a later process wait for the creator's constructor. *)
Attach(p) ==
  /\ vpc[p] = "closed"
  /\ \E q \in Users : vpc[q] # "closed"
  /\ mishaps' = IF \E q \in Users : vpc[q] = "layout" THEN mishaps \cup {"early"}
                                                    ELSE mishaps
  /\ Proceed(p, "idle")
  /\ UNCHANGED <<object, arg, base, todo, copy, got, log>>

(* Placement-new of the layout, the value included. *)
ConstructLayout(p) ==
  /\ vpc[p] = "layout"
  /\ Proceed(p, "idle")
  /\ lock' = FALSE /\ seq' = 0 /\ data' = Blank
  /\ UNCHANGED <<arg, base, todo, copy, got, log, mishaps>>

-----------------------------------------------------------------------------
(* write(value) *)

Writing(p) == vpc[p] \in {"lock", "wseq", "odd", "store", "unlock"}

Critical(p) == vpc[p] \in {"wseq", "odd", "store", "unlock"}

(* Only the bound. *)
MayWrite == Len(log) + Cardinality({p \in Users : Writing(p)}) < MaxWrites

StartWrite(p, m) ==
  /\ vpc[p] = "idle"
  /\ MayWrite
  /\ Proceed(p, "lock")
  /\ arg' = [arg EXCEPT ![p] = m]
  /\ UNCHANGED <<object, base, todo, copy, got, log, mishaps>>

(* The test_and_set that succeeds. *)
AcquireLock(p) ==
  /\ vpc[p] = "lock"
  /\ ~lock
  /\ lock' = TRUE
  /\ Proceed(p, "wseq")
  /\ UNCHANGED <<seq, data, arg, base, todo, copy, got, log, mishaps>>

LoadBase(p) ==
  /\ vpc[p] = "wseq"
  /\ base' = [base EXCEPT ![p] = seq]
  /\ todo' = [todo EXCEPT ![p] = Words]
  /\ Proceed(p, "odd")
  /\ UNCHANGED <<object, arg, copy, got, log, mishaps>>

MarkOdd(p) ==
  /\ vpc[p] = "odd"
  /\ seq' = (base[p] + 1) % Modulus
  /\ Proceed(p, "store")
  /\ UNCHANGED <<lock, data, arg, base, todo, copy, got, log, mishaps>>

(* A store of the value.  Nothing keeps it behind that of the sequence. *)
StoreWord(p, i) ==
  /\ vpc[p] \in {"odd", "store"}
  /\ mishaps' = IF vpc[p] = "odd" THEN mishaps \cup {"reordered"} ELSE mishaps
  /\ i \in todo[p]
  /\ data' = [data EXCEPT ![i] = arg[p]]
  /\ todo' = [todo EXCEPT ![p] = @ \ {i}]
  /\ UNCHANGED <<lock, seq, vpc, arg, base, copy, got, log>>

(* The release store makes the words visible before it. *)
MarkEven(p) ==
  /\ vpc[p] = "store"
  /\ todo[p] = {}
  /\ seq' = (base[p] + 2) % Modulus
  /\ log' = Append(log, arg[p])
  /\ Proceed(p, "unlock")
  /\ UNCHANGED <<lock, data, arg, base, todo, copy, got, mishaps>>

(* Faulty variant: the lock is kept. *)
KeepLock(p) ==
  /\ vpc[p] = "unlock"
  /\ Return(p)
  /\ UNCHANGED <<object, got, log, mishaps>>

ReleaseLock(p) ==
  /\ vpc[p] = "unlock"
  /\ lock' = FALSE
  /\ Return(p)
  /\ UNCHANGED <<seq, data, got, log, mishaps>>

-----------------------------------------------------------------------------
(* read(value) *)

StartRead(p) ==
  /\ vpc[p] = "idle"
  /\ Proceed(p, "rseq")
  /\ UNCHANGED <<object, arg, base, todo, copy, got, log, mishaps>>

(* Never written: `return false`. *)
NeverWritten(p) ==
  /\ vpc[p] = "rseq"
  /\ seq = 0
  /\ Return(p)
  /\ UNCHANGED <<object, got, log, mishaps>>

(* An odd sequence is loaded again and again. *)
LoadSeq(p) ==
  /\ vpc[p] = "rseq"
  /\ seq # 0 /\ seq % 2 = 0
  /\ base' = [base EXCEPT ![p] = seq]
  /\ todo' = [todo EXCEPT ![p] = Words]
  /\ Proceed(p, "rcopy")
  /\ UNCHANGED <<object, arg, copy, got, log, mishaps>>

CopyWord(p, i) ==
  /\ vpc[p] = "rcopy"
  /\ i \in todo[p]
  /\ copy' = [copy EXCEPT ![p][i] = data[i]]
  /\ todo' = [todo EXCEPT ![p] = @ \ {i}]
  /\ UNCHANGED <<object, vpc, arg, base, got, log, mishaps>>

(* Faulty variant: the second load of the sequence is left out. *)
AcceptUnchecked(p) ==
  /\ vpc[p] = "rcopy"
  /\ todo[p] = {}
  /\ got' = [got EXCEPT ![p] = copy[p]]
  /\ Return(p)
  /\ UNCHANGED <<object, log, mishaps>>

(* The second load of the sequence agrees: `return true`. *)
AcceptValue(p) ==
  /\ vpc[p] = "rcopy"
  /\ todo[p] = {}
  /\ seq = base[p]
  /\ got' = [got EXCEPT ![p] = copy[p]]
  /\ Return(p)
  /\ UNCHANGED <<object, log, mishaps>>

Retry(p) ==
  /\ vpc[p] = "rcopy"
  /\ todo[p] = {}
  /\ seq # base[p]
  /\ Proceed(p, "rseq")
  /\ base' = [base EXCEPT ![p] = 0]
  /\ copy' = [copy EXCEPT ![p] = Blank]
  /\ UNCHANGED <<object, arg, todo, got, log, mishaps>>

-----------------------------------------------------------------------------
Die(p) ==
  /\ p \in Mortal
  /\ vpc[p] \notin {"closed", "dead"}
  /\ Proceed(p, "dead")
  /\ UNCHANGED <<object, arg, base, todo, copy, got, log, mishaps>>

WriteStep(p) ==
  \/ AcquireLock(p) \/ LoadBase(p) \/ MarkOdd(p)
  \/ (\E i \in Words : StoreWord(p, i)) \/ MarkEven(p) \/ ReleaseLock(p)

ReadStep(p) ==
  \/ NeverWritten(p) \/ LoadSeq(p)
  \/ (\E i \in Words : CopyWord(p, i)) \/ AcceptValue(p) \/ Retry(p)

CallStep(p) == ConstructLayout(p) \/ WriteStep(p) \/ ReadStep(p)

ValueNext ==
  \E p \in Users :
    \/ CreateValue(p) \/ Attach(p) \/ ConstructLayout(p)
    \/ \E m \in Msgs : StartWrite(p, m)
    \/ StartRead(p)
    \/ WriteStep(p) \/ ReadStep(p)
    \/ Die(p)

ValueSpec == ValueInit /\ [][ValueNext]_valueVars

(* A running process keeps executing its call; the test_and_set of one     *)
(* that finds the lock free again and again succeeds in the end.  A reader *)
(* could retry for ever against endless writes: here these are bounded.    *)
ValueFairness ==
  \A p \in Fair : WF_valueVars(CallStep(p)) /\ SF_valueVars(AcquireLock(p))

ValueFairSpec == ValueSpec /\ ValueFairness

-----------------------------------------------------------------------------
(* Properties *)

(* Every variable has a value of its type; a reader copies only after it   *)
(* has seen an even sequence number (shm.hpp:41).                          *)
ValueTypeOK ==
  /\ lock \in BOOLEAN
  /\ seq \in 0 .. Modulus - 1
  /\ data \in [Words -> Msgs \cup {Unset}]
  /\ vpc \in [Users -> PCs]
  /\ arg \in [Users -> Msgs \cup {Unset}]
  /\ base \in [Users -> 0 .. Modulus - 1]
  /\ todo \in [Users -> SUBSET Words]
  /\ copy \in [Users -> [Words -> Msgs \cup {Unset}]]
  /\ got \in [Users -> [Words -> Msgs \cup {Unset}]]
  /\ log \in Seq(Msgs) /\ mishaps \subseteq {"early", "reordered"}
  /\ \A p \in Users : vpc[p] = "rcopy" => base[p] % 2 = 0

(* read() returns true with the value that was published last, whole,      *)
(* unless a process attached early, a store was reordered, or so many      *)
(* values have been written that the number it has seen may have come      *)
(* round; and false only if nothing was ever written, unless a process     *)
(* attached early or the number came round to zero, after 2^31 writes      *)
(* (shm.hpp:32-48).                                                        *)
LatestRead ==
  [][\A p \in Users : vpc'[p] = "idle" =>
       /\ vpc[p] = "rcopy" /\ mishaps = {} /\ 2 * Len(log) <= Modulus =>
            log # <<>> /\ got'[p] = Whole(log[Len(log)])
       /\ vpc[p] = "rseq" /\ "early" \notin mishaps =>
            log = <<>> \/ 2 * Len(log) >= Modulus]_valueVars

Calling(p) == Writing(p) \/ vpc[p] \in {"rseq", "rcopy"}

Settled(p) == vpc[p] = "idle" \/ (\E q \in Users : vpc[q] = "dead") \/ "early" \in mishaps

(* Every call returns as long as nobody has died: a process that dies in   *)
(* write() leaves the lock taken and the sequence odd, for readers too;    *)
(* and a late construction may leave it odd.                               *)
CallsReturn == \A p \in Fair : Calling(p) ~> Settled(p)

=============================================================================
