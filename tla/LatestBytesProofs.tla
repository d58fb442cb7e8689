-------------------------- MODULE LatestBytesProofs --------------------------
(***************************************************************************)
(* LatestBytesSHM implements SharedRegister, for any number of processes   *)
(* and any messages, whoever dies and wherever.                            *)
(*                                                                         *)
(* The invariant says what the sequence number stands for: if it is even,  *)
(* the object holds the last message of the log, whole; if it is odd, one  *)
(* writer is at it, or died at it with the lock, which nobody then gets    *)
(* again.  A reader whose first load of the number is still current has    *)
(* copied words of that message only.                                      *)
(***************************************************************************)
EXTENDS LatestBytesSHM, TLAPS

Newest == log[Len(log)]

(* The object holds m, of length Length[m]. *)
Holds(m) == size = Length[m] /\ \A i \in 1 .. size : payload[i] = m

(* The creator is alone at the layout, and nobody calls before the magic.   *)
Constructed ==
  /\ \A p, q \in Procs : pc[p] \in {"layout", "magic"} /\ pc[q] \in {"layout", "magic"} => p = q
  /\ \A p \in Procs : pc[p] \in {"layout", "magic"} => ~magic
  /\ ~magic => /\ seq = 0 /\ ~lock /\ log = <<>>
               /\ \A p \in Procs : pc[p] \in {"closed", "layout", "magic", "idle", "dead"}
  /\ magic => \E p \in Procs : pc[p] # "closed"

OneWriter ==
  \A p \in Procs : Critical(p) => lock /\ \A q \in Procs : Critical(q) => q = p

Even == seq = 2 * Len(log) /\ (log # <<>> => Holds(Newest))

Odd ==
  /\ seq = 2 * Len(log) + 1
  /\ lock
  /\ \A p \in Procs : pc[p] \notin {"wseq", "odd", "unlock"}

Writer(p) ==
  /\ Writing(p) => arg[p] \in Msgs /\ Length[arg[p]] <= Capacity
  /\ pc[p] = "odd" => base[p] = seq
  /\ pc[p] \in {"size", "store"} => base[p] = 2 * Len(log) /\ seq = 2 * Len(log) + 1
  /\ pc[p] = "store" =>
       /\ size = Length[arg[p]]
       /\ \A i \in 1 .. size : i \notin todo[p] => payload[i] = arg[p]

Reader(p) ==
  /\ pc[p] \in {"rsize", "rcopy"} => base[p] <= seq /\ base[p] % 2 = 0 /\ base[p] > 0
  /\ pc[p] = "rcopy" /\ base[p] = seq =>
       /\ len[p] = Length[Newest]
       /\ \A i \in 1 .. len[p] : i \notin todo[p] => copy[p][i] = Newest

IInv ==
  /\ TypeOK
  /\ Constructed
  /\ OneWriter
  /\ Even \/ Odd
  /\ \A p \in Procs : Writer(p) /\ Reader(p)

-----------------------------------------------------------------------------
(* What a step of p leaves alone: the locals of the others. *)
Others(p) ==
  \A q \in Procs : q # p => /\ pc'[q] = pc[q] /\ arg'[q] = arg[q] /\ base'[q] = base[q]
                           /\ todo'[q] = todo[q] /\ copy'[q] = copy[q] /\ len'[q] = len[q]

LEMMA OthersStay ==
  ASSUME TypeOK, NEW p \in Procs,
         \/ Create(p) \/ Attach(p) \/ Construct(p)
         \/ \E m \in Msgs : StartWrite(p, m)
         \/ StartRead(p) \/ WriteStep(p) \/ ReadStep(p) \/ Die(p)
  PROVE  Others(p)
<1> USE DEF TypeOK, Others, Goto, Return, locals
<1>1. CASE Create(p) \/ Attach(p) \/ Construct(p) \/ StartRead(p) \/ Die(p)
  BY <1>1 DEF Create, Attach, Construct, ConstructLayout, PublishMagic, StartRead, Die
<1>2. ASSUME NEW m \in Msgs, StartWrite(p, m) PROVE Others(p)
  BY <1>2 DEF StartWrite
<1>3. CASE WriteStep(p)
  BY <1>3 DEF WriteStep, AcquireLock, LoadBase, MarkOdd, StoreSize, StoreWord, MarkEven,
              ReleaseLock
<1>4. CASE ReadStep(p)
  BY <1>4 DEF ReadStep, NothingNew, LoadSeq, LoadSize, CopyWord, Accept, Retry
<1> QED BY <1>1, <1>2, <1>3, <1>4

-----------------------------------------------------------------------------
(* The types. *)
LEMMA CopyTypes ==
  /\ \A n \in 0 .. Capacity : [1 .. n -> Msgs \cup {None}] \subseteq Copies
  /\ <<>> \in Copies /\ DOMAIN <<>> = 1 .. 0
  /\ \A c \in Copies : \A i \in Words : \A m \in Msgs \cup {None} :
       /\ [c EXCEPT ![i] = m] \in Copies
       /\ DOMAIN [c EXCEPT ![i] = m] = DOMAIN c
<1>1. \A n \in 0 .. Capacity : [1 .. n -> Msgs \cup {None}] \subseteq Copies
  BY DEF Copies
<1>2. <<>> \in Copies /\ DOMAIN <<>> = 1 .. 0
  <2>1. <<>> \in [1 .. 0 -> Msgs \cup {None}] /\ 0 \in 0 .. Capacity
    BY CapacityAssumption
  <2> QED BY <1>1, <2>1
<1>3. ASSUME NEW c \in Copies, NEW i \in Words, NEW m \in Msgs \cup {None}
      PROVE  [c EXCEPT ![i] = m] \in Copies /\ DOMAIN [c EXCEPT ![i] = m] = DOMAIN c
  <2>1. PICK n \in 0 .. Capacity : c \in [1 .. n -> Msgs \cup {None}]
    BY DEF Copies
  <2>2. [c EXCEPT ![i] = m] \in [1 .. n -> Msgs \cup {None}]
    BY <2>1
  <2> QED BY <1>1, <2>2
<1> QED BY <1>1, <1>2, <1>3

(* What a call leaves behind. *)
LEMMA ReturnTypes ==
  ASSUME TypeOK, NEW p \in Procs, Return(p)
  PROVE  /\ pc' \in [Procs -> PCs] /\ arg' \in [Procs -> Msgs \cup {None}]
         /\ base' \in [Procs -> Nat] /\ todo' \in [Procs -> SUBSET Words]
         /\ copy' \in [Procs -> Copies] /\ len' \in [Procs -> 0 .. Capacity]
         /\ \A q \in Procs : DOMAIN copy'[q] = 1 .. len'[q]
BY CopyTypes, CapacityAssumption DEF TypeOK, Return, Goto, PCs

LEMMA WriteTypes ==
  ASSUME TypeOK, NEW p \in Procs, Writer(p), WriteStep(p)
  PROVE  TypeOK'
<1> USE DEF TypeOK, Goto, locals, PCs, Words
<1>1. CASE AcquireLock(p)
  <2>1. pc' \in [Procs -> PCs]
    BY <1>1 DEF AcquireLock
  <2> QED BY <1>1, <2>1 DEF AcquireLock
<1>6. CASE MarkOdd(p)
  BY <1>6 DEF MarkOdd
<1>7. CASE LoadBase(p)
  BY <1>7 DEF LoadBase, object
<1>2. CASE StoreSize(p)
  <2>1. Length[arg[p]] \in Nat /\ Length[arg[p]] <= Capacity
    BY <1>2, LengthAssumption DEF StoreSize, Writer, Writing
  <2>2. 1 .. Length[arg[p]] \subseteq 1 .. Capacity
    BY <2>1, CapacityAssumption
  <2> QED BY <1>2, <2>1, <2>2 DEF StoreSize
<1>3. ASSUME NEW i \in Words, StoreWord(p, i) PROVE TypeOK'
  BY <1>3 DEF StoreWord
<1>4. CASE MarkEven(p)
  <2>1. arg[p] \in Msgs
    BY <1>4 DEF MarkEven, Writer, Writing
  <2> QED BY <1>4, <2>1 DEF MarkEven
<1>5. CASE ReleaseLock(p)
  BY <1>5, ReturnTypes DEF ReleaseLock
<1> QED BY <1>1, <1>2, <1>3, <1>4, <1>5, <1>6, <1>7 DEF WriteStep

LEMMA ReadTypes ==
  ASSUME TypeOK, NEW p \in Procs, ReadStep(p)
  PROVE  TypeOK'
<1> USE DEF TypeOK, Goto, locals, object, PCs
<1>1. CASE NothingNew(p)
  BY <1>1, ReturnTypes DEF NothingNew
<1>2. CASE LoadSeq(p)
  BY <1>2 DEF LoadSeq
<1>3. CASE LoadSize(p)
  <2>1. CASE size > Capacity
    BY <1>3, <2>1, ReturnTypes DEF LoadSize
  <2>2. CASE ~(size > Capacity)
    <3>1. size \in 0 .. Capacity /\ 1 .. size \subseteq Words
      BY <2>2, CapacityAssumption DEF Words
    <3>2. [i \in 1 .. size |-> None] \in Copies /\ DOMAIN [i \in 1 .. size |-> None] = 1 .. size
      BY <3>1, CopyTypes
    <3>3. /\ pc' = [pc EXCEPT ![p] = "rcopy"] /\ len' = [len EXCEPT ![p] = size]
          /\ todo' = [todo EXCEPT ![p] = 1 .. size]
          /\ copy' = [copy EXCEPT ![p] = [i \in 1 .. size |-> None]]
          /\ UNCHANGED <<object, arg, base, last, got, log>>
      BY <1>3, <2>2 DEF LoadSize
    <3>4. /\ len' \in [Procs -> 0 .. Capacity] /\ todo' \in [Procs -> SUBSET Words]
          /\ copy' \in [Procs -> Copies] /\ pc' \in [Procs -> PCs]
      BY <3>1, <3>2, <3>3
    <3>5. \A q \in Procs : DOMAIN copy'[q] = 1 .. len'[q]
      BY <3>2, <3>3
    <3> QED BY <3>3, <3>4, <3>5
  <2> QED BY <2>1, <2>2
<1>4. ASSUME NEW i \in Words, CopyWord(p, i) PROVE TypeOK'
  <2>1. payload[i] \in Msgs \cup {None} /\ copy[p] \in Copies
    OBVIOUS
  <2>2. /\ [copy[p] EXCEPT ![i] = payload[i]] \in Copies
        /\ DOMAIN [copy[p] EXCEPT ![i] = payload[i]] = DOMAIN copy[p]
    BY <2>1, CopyTypes
  <2> QED BY <1>4, <2>2 DEF CopyWord
<1>5. CASE Accept(p)
  BY <1>5, ReturnTypes DEF Accept
<1>6. CASE Retry(p)
  BY <1>6, CopyTypes, CapacityAssumption DEF Retry
<1> QED BY <1>1, <1>2, <1>3, <1>4, <1>5, <1>6 DEF ReadStep

LEMMA TypesStep ==
  ASSUME IInv, [Next]_vars
  PROVE  TypeOK'
<1> USE DEF TypeOK, Goto, locals, object, PCs
<1>0. TypeOK
  BY DEF IInv
<1>1. CASE UNCHANGED vars
  BY <1>0, <1>1 DEF vars
<1>2. ASSUME NEW p \in Procs, Create(p) \/ Attach(p) \/ StartRead(p) \/ Die(p)
      PROVE  TypeOK'
  <2>1. /\ pc' \in [Procs -> PCs]
        /\ UNCHANGED <<magic, lock, seq, size, payload, arg, base, todo, copy, len, last, got, log>>
    BY <1>0, <1>2 DEF Create, Attach, StartRead, Die
  <2> QED BY <1>0, <2>1
<1>4. ASSUME NEW p \in Procs, Construct(p) PROVE TypeOK'
  <2>1. pc' \in [Procs -> PCs]
    BY <1>0, <1>4 DEF Construct, ConstructLayout, PublishMagic
  <2>2. magic' \in BOOLEAN /\ lock' \in BOOLEAN /\ seq' \in Nat /\ size' \in Nat
    <3>1. CASE ConstructLayout(p)
      BY <3>1 DEF ConstructLayout
    <3>2. CASE PublishMagic(p)
      BY <1>0, <3>2 DEF PublishMagic
    <3> QED BY <1>4, <3>1, <3>2 DEF Construct
  <2>3. UNCHANGED <<payload, arg, base, todo, copy, len, last, got, log>>
    BY <1>4 DEF Construct, ConstructLayout, PublishMagic
  <2> QED BY <1>0, <2>1, <2>2, <2>3
<1>3. ASSUME NEW p \in Procs, NEW m \in Msgs, StartWrite(p, m) PROVE TypeOK'
  BY <1>0, <1>3 DEF StartWrite
<1> QED
  BY <1>0, <1>1, <1>2, <1>3, <1>4, WriteTypes, ReadTypes DEF Next, IInv

-----------------------------------------------------------------------------
(* The creator, and who is let in by the magic. *)
LEMMA ConstructedStep ==
  ASSUME IInv, [Next]_vars
  PROVE  Constructed'
<1> USE DEF Constructed, Goto, IInv, TypeOK, PCs
<1>1. CASE UNCHANGED vars
  BY <1>1 DEF vars, object
<1> SUFFICES ASSUME NEW p \in Procs,
                    \/ Create(p) \/ Attach(p) \/ Construct(p)
                    \/ \E m \in Msgs : StartWrite(p, m)
                    \/ StartRead(p) \/ WriteStep(p) \/ ReadStep(p) \/ Die(p)
             PROVE  Constructed'
  BY <1>1 DEF Next
<1>2. \A q \in Procs : q # p => pc'[q] = pc[q]
  BY OthersStay DEF Others
<1>3. CASE Create(p)
  BY <1>3 DEF Create, object
<1>4. CASE Attach(p) \/ Die(p)
  <2>1. /\ pc'[p] \in {"idle", "dead"} /\ (pc[p] = "closed" => pc'[p] = "idle")
        /\ UNCHANGED <<magic, lock, seq, log>>
    BY <1>4 DEF Attach, Die, object
  <2> QED BY <1>2, <2>1
<1>5. CASE Construct(p)
  BY ZenonT(60), <1>5 DEF Construct, ConstructLayout, PublishMagic
<1>6. CASE (\E m \in Msgs : StartWrite(p, m)) \/ StartRead(p)
  BY SMTT(30), <1>6 DEF StartWrite, StartRead, object
<1>7. CASE WriteStep(p) \/ ReadStep(p)
  <2>1. /\ magic' = magic
        /\ pc[p] \notin {"closed", "layout", "magic", "idle", "dead"}
        /\ pc'[p] \notin {"closed", "layout", "magic"}
    <3>1. CASE WriteStep(p)
      BY <3>1 DEF WriteStep, AcquireLock, LoadBase, MarkOdd, StoreSize, StoreWord, MarkEven,
                  ReleaseLock, Return, object
    <3>2. CASE ReadStep(p)
      BY <3>2 DEF ReadStep, NothingNew, LoadSeq, LoadSize, CopyWord, Accept, Retry, Return,
                  object
    <3> QED BY <1>7, <3>1, <3>2
  <2> QED BY <1>2, <2>1
<1> QED BY <1>3, <1>4, <1>5, <1>6, <1>7

(* The spin lock. *)
LEMMA OneWriterStep ==
  ASSUME IInv, [Next]_vars
  PROVE  OneWriter'
<1> USE DEF OneWriter, Critical, Goto, IInv, TypeOK, PCs
<1>1. CASE UNCHANGED vars
  BY <1>1 DEF vars, object
<1> SUFFICES ASSUME NEW p \in Procs,
                    \/ Create(p) \/ Attach(p) \/ Construct(p)
                    \/ \E m \in Msgs : StartWrite(p, m)
                    \/ StartRead(p) \/ WriteStep(p) \/ ReadStep(p) \/ Die(p)
             PROVE  OneWriter'
  BY <1>1 DEF Next
<1>2. \A q \in Procs : q # p => pc'[q] = pc[q]
  BY OthersStay DEF Others
<1>3. CASE Create(p) \/ Attach(p) \/ Die(p) \/ (\E m \in Msgs : StartWrite(p, m)) \/ StartRead(p)
  <2>1. lock' = lock /\ ~Critical(p)'
    BY <1>3 DEF Create, Attach, Die, StartWrite, StartRead, object
  <2> QED BY <1>2, <2>1
<1>4. CASE Construct(p)
  <2>1. ~Critical(p)' /\ (lock' = lock \/ ~magic)
    BY <1>4 DEF Construct, ConstructLayout, PublishMagic, Constructed
  <2> QED BY SMTT(30), <1>2, <2>1 DEF Constructed
<1>5. CASE WriteStep(p)
  <2>1. CASE AcquireLock(p)
    BY <1>2, <2>1 DEF AcquireLock
  <2>2. CASE ReleaseLock(p)
    BY <1>2, <2>2 DEF ReleaseLock, Return
  <2>3. CASE WriteStep(p) /\ ~AcquireLock(p) /\ ~ReleaseLock(p)
    <3>1. lock' = lock /\ Critical(p)
      BY <2>3 DEF WriteStep, LoadBase, MarkOdd, StoreSize, StoreWord, MarkEven, object
    <3> QED BY <1>2, <3>1
  <2> QED BY <1>5, <2>1, <2>2, <2>3
<1>6. CASE ReadStep(p)
  <2>1. lock' = lock /\ ~Critical(p)'
    BY <1>6 DEF ReadStep, NothingNew, LoadSeq, LoadSize, CopyWord, Accept, Retry, Return,
                object
  <2> QED BY <1>2, <2>1
<1> QED BY <1>3, <1>4, <1>5, <1>6

-----------------------------------------------------------------------------
(* What the object holds, and what the calls know of it. *)
Known == (Even \/ Odd) /\ \A p \in Procs : Writer(p) /\ Reader(p)

(* Of a process that does nothing it need not be said again, if the object *)
(* stays as it is.                                                         *)
LEMMA ObjectStays ==
  ASSUME IInv, NEW p \in Procs, Others(p), UNCHANGED <<lock, seq, size, payload, log>>,
         pc'[p] \in {"wseq", "odd", "unlock"} => pc[p] \in {"wseq", "odd", "unlock"},
         Writer(p)', Reader(p)'
  PROVE  Known'
<1>1. Even' \/ Odd'
  BY DEF IInv, Even, Odd, Holds, Newest, Others
<1>2. ASSUME NEW q \in Procs, q # p PROVE Writer(q)' /\ Reader(q)'
  <2>1. Writer(q) /\ Reader(q)
    BY DEF IInv
  <2>2. Writer(q)'
    BY <1>2, <2>1 DEF Writer, Writing, Others
  <2>3. Reader(q)'
    BY <1>2, <2>1 DEF Reader, Newest, Others
  <2> QED BY <2>2, <2>3
<1> QED BY <1>1, <1>2 DEF Known

(* Of the others nothing need be said again while a writer is at the object *)
(* with an odd number: no reader holds it for current.                     *)
LEMMA WriterAlone ==
  ASSUME IInv, NEW p \in Procs, Critical(p), Others(p), pc[p] \in {"odd", "size", "store"},
         log' = log, seq' = 2 * Len(log) + 1
  PROVE  \A q \in Procs \ {p} : Writer(q)' /\ Reader(q)'
<1> SUFFICES ASSUME NEW q \in Procs \ {p} PROVE Writer(q)' /\ Reader(q)'
  OBVIOUS
<1> USE DEF TypeOK
<1>1. TypeOK /\ Writer(q) /\ Reader(q) /\ ~Critical(q) /\ seq \in {2 * Len(log), 2 * Len(log) + 1}
  BY DEF IInv, OneWriter, Even, Odd
<1>2. Writer(q)'
  BY <1>1 DEF Writer, Writing, Critical, Others
<1>3. Len(log) \in Nat /\ base[q] \in Nat /\ seq \in Nat
  BY <1>1
<1>4. Reader(q)'
  BY SMTT(30), <1>1, <1>3 DEF Reader, Others
<1> QED BY <1>2, <1>4

LEMMA WriteKnown ==
  ASSUME IInv, NEW p \in Procs, Others(p), WriteStep(p)
  PROVE  Known'
<1> USE DEF Goto, TypeOK, PCs
<1>0. TypeOK /\ Writer(p) /\ Len(log) \in Nat
  BY DEF IInv
<1>1. CASE AcquireLock(p)
  <2>1. Even /\ ~lock
    BY <1>1 DEF IInv, Odd, AcquireLock
  <2>2. Even'
    BY <1>1, <2>1 DEF AcquireLock, Even, Holds, Newest
  <2>3. \A q \in Procs : Writer(q)' /\ Reader(q)'
    BY <1>0, <1>1 DEF AcquireLock, IInv, Writer, Writing, Reader, Newest, Others, locals
  <2> QED BY <2>2, <2>3 DEF Known
<1>2. CASE LoadBase(p)
  <2>1. Even
    BY <1>2 DEF IInv, Odd, LoadBase
  <2>2. seq % 2 = 0
    BY <1>0, <2>1 DEF Even
  <2>3. /\ UNCHANGED <<lock, seq, size, payload, log>> /\ pc[p] = "wseq" /\ pc'[p] = "odd"
        /\ base'[p] = seq /\ arg' = arg
    BY <1>0, <1>2, <2>2 DEF LoadBase, object
  <2>4. Writer(p)' /\ Reader(p)'
    BY <1>0, <2>3 DEF Writer, Writing, Reader
  <2> QED BY <2>3, <2>4, ObjectStays
<1>3. CASE MarkOdd(p)
  <2>1. Even /\ Critical(p) /\ lock
    BY <1>3 DEF IInv, Odd, MarkOdd, OneWriter, Critical
  <2>2. /\ pc[p] = "odd" /\ pc'[p] = "size" /\ base[p] = 2 * Len(log)
        /\ seq' = 2 * Len(log) + 1
        /\ UNCHANGED <<lock, size, payload, log, arg, base, todo, copy, len>>
    BY <1>0, <1>3, <2>1 DEF MarkOdd, Writer, Even, locals
  <2>3. \A q \in Procs \ {p} : Writer(q)' /\ Reader(q)'
    BY <2>1, <2>2, WriterAlone
  <2>4. Writer(p)' /\ Reader(p)'
    BY <1>0, <2>2 DEF Writer, Writing, Reader
  <2>5. Odd'
    BY ZenonT(60), <2>1, <2>2 DEF Odd, Others, IInv, OneWriter, Critical
  <2> QED BY <2>3, <2>4, <2>5 DEF Known
<1>4. CASE StoreSize(p)
  <2>1. /\ Odd /\ Critical(p) /\ seq = 2 * Len(log) + 1 /\ base[p] = 2 * Len(log)
        /\ arg[p] \in Msgs /\ Length[arg[p]] <= Capacity
    BY <1>0, <1>4 DEF IInv, Even, Writer, Writing, StoreSize, Critical
  <2>2. /\ pc[p] = "size" /\ pc'[p] = "store" /\ size' = Length[arg[p]]
        /\ todo'[p] = 1 .. Length[arg[p]]
        /\ UNCHANGED <<lock, seq, payload, log, arg, base, copy, len>>
    BY <1>0, <1>4 DEF StoreSize
  <2>3. \A q \in Procs \ {p} : Writer(q)' /\ Reader(q)'
    BY <2>1, <2>2, WriterAlone
  <2>4. Writer(p)' /\ Reader(p)'
    BY <2>1, <2>2 DEF Writer, Writing, Reader
  <2>5. Odd'
    BY <2>1, <2>2 DEF Odd, Others
  <2> QED BY <2>3, <2>4, <2>5 DEF Known
<1>5. ASSUME NEW i \in Words, StoreWord(p, i) PROVE Known'
  <2>1. /\ Odd /\ Critical(p) /\ seq = 2 * Len(log) + 1 /\ base[p] = 2 * Len(log)
        /\ arg[p] \in Msgs /\ Length[arg[p]] <= Capacity /\ size = Length[arg[p]]
        /\ \A j \in 1 .. size : j \notin todo[p] => payload[j] = arg[p]
    BY <1>0, <1>5 DEF IInv, Even, Writer, Writing, StoreWord, Critical
  <2>2. /\ pc[p] = "store" /\ pc' = pc /\ todo'[p] = todo[p] \ {i}
        /\ payload' = [payload EXCEPT ![i] = arg[p]]
        /\ UNCHANGED <<lock, seq, size, log, arg, base, copy, len>>
    BY <1>0, <1>5 DEF StoreWord
  <2>3. \A q \in Procs \ {p} : Writer(q)' /\ Reader(q)'
    BY <2>1, <2>2, WriterAlone
  <2>4. \A j \in 1 .. size : j \notin todo'[p] => payload'[j] = arg[p]
    <3>1. 1 .. size \subseteq Words
      BY <1>0, <2>1, CapacityAssumption DEF Words
    <3> QED BY <1>0, <2>1, <2>2, <3>1
  <2>5. Writer(p)' /\ Reader(p)'
    BY <2>1, <2>2, <2>4 DEF Writer, Writing, Reader
  <2>6. Odd'
    BY <2>1, <2>2 DEF Odd, Others
  <2> QED BY <2>3, <2>5, <2>6 DEF Known
<1>6. CASE MarkEven(p)
  <2>1. /\ Critical(p) /\ seq = 2 * Len(log) + 1 /\ base[p] = 2 * Len(log)
        /\ arg[p] \in Msgs /\ Length[arg[p]] <= Capacity /\ size = Length[arg[p]]
        /\ \A j \in 1 .. size : payload[j] = arg[p]
    BY <1>0, <1>6 DEF Writer, Writing, MarkEven, Critical
  <2>2. /\ pc'[p] = "unlock" /\ seq' = 2 * Len(log) + 2 /\ log' = Append(log, arg[p])
        /\ UNCHANGED <<lock, size, payload, arg, base, todo, copy, len>>
    BY <1>0, <1>6, <2>1 DEF MarkEven, locals
  <2>3. Len(log') = Len(log) + 1 /\ log'[Len(log) + 1] = arg[p]
    BY <1>0, <2>1, <2>2
  <2>4. Even'
    BY <1>0, <2>1, <2>2, <2>3 DEF Even, Holds, Newest
  <2>5. ASSUME NEW q \in Procs, q # p PROVE Writer(q)' /\ Reader(q)'
    <3>1. Writer(q) /\ Reader(q) /\ ~Critical(q) /\ base[q] \in Nat
      BY <2>1, <2>5 DEF IInv, OneWriter
    <3>2. Writer(q)'
      BY <2>2, <2>5, <3>1 DEF Writer, Writing, Critical, Others
    <3>3. Reader(q)'
      BY SMTT(30), <1>0, <2>1, <2>2, <2>5, <3>1 DEF Reader, Others
    <3> QED BY <3>2, <3>3
  <2>6. Writer(p)' /\ Reader(p)'
    BY <2>1, <2>2 DEF Writer, Writing, Reader
  <2> QED BY <2>4, <2>5, <2>6 DEF Known
<1>7. CASE ReleaseLock(p)
  <2>1. Even
    BY <1>7 DEF IInv, Odd, ReleaseLock
  <2>2. pc'[p] = "idle" /\ UNCHANGED <<seq, size, payload, log>>
    BY <1>0, <1>7 DEF ReleaseLock, Return
  <2>3. Even'
    BY <2>1, <2>2 DEF Even, Holds, Newest
  <2>4. ASSUME NEW q \in Procs PROVE Writer(q)' /\ Reader(q)'
    <3>1. CASE q = p
      BY <2>2, <3>1 DEF Writer, Writing, Reader
    <3>2. CASE q # p
      <4>1. Writer(q) /\ Reader(q)
        BY DEF IInv
      <4>2. Writer(q)'
        BY <2>2, <3>2, <4>1 DEF Writer, Writing, Others
      <4>3. Reader(q)'
        BY <2>2, <3>2, <4>1 DEF Reader, Newest, Others
      <4> QED BY <4>2, <4>3
    <3> QED BY <3>1, <3>2
  <2> QED BY <2>3, <2>4 DEF Known
<1> QED BY <1>1, <1>2, <1>3, <1>4, <1>5, <1>6, <1>7 DEF WriteStep

LEMMA ReadKnown ==
  ASSUME IInv, NEW p \in Procs, Others(p), ReadStep(p)
  PROVE  Known'
<1> USE DEF Goto, TypeOK, PCs
<1>0. TypeOK /\ Reader(p) /\ Len(log) \in Nat
  BY DEF IInv
<1>1. UNCHANGED <<lock, seq, size, payload, log>>
  BY DEF ReadStep, NothingNew, LoadSeq, LoadSize, CopyWord, Accept, Retry, object
<1> SUFFICES pc'[p] \in {"idle", "rseq", "rsize", "rcopy"} /\ Reader(p)'
  BY <1>1, ObjectStays DEF Writer, Writing
<1>2. CASE NothingNew(p) \/ Accept(p) \/ Retry(p)
  <2>1. pc'[p] \in {"idle", "rseq"}
    BY <1>0, <1>2 DEF NothingNew, Accept, Retry, Return
  <2> QED BY <2>1 DEF Reader
<1>3. CASE LoadSeq(p)
  <2>1. pc'[p] = "rsize" /\ base'[p] = seq /\ seq # 0 /\ seq % 2 = 0
    BY <1>0, <1>3 DEF LoadSeq
  <2> QED BY <1>0, <1>1, <2>1 DEF Reader
<1>4. CASE LoadSize(p)
  <2>1. CASE size > Capacity
    BY <1>0, <1>4, <2>1 DEF LoadSize, Return, Reader
  <2>2. CASE ~(size > Capacity)
    <3>1. /\ pc[p] = "rsize" /\ pc'[p] = "rcopy" /\ base' = base /\ len'[p] = size
          /\ todo'[p] = 1 .. size
      BY <1>0, <1>4, <2>2 DEF LoadSize
    <3>2. base[p] = seq => Even /\ log # <<>>
      BY <1>0, <3>1 DEF Reader, IInv, Even, Odd
    <3>3. base[p] = seq => size = Length[Newest]
      BY <3>2 DEF Even, Holds
    <3> QED BY <1>0, <1>1, <3>1, <3>3 DEF Reader, Newest
  <2> QED BY <2>1, <2>2
<1>5. ASSUME NEW i \in Words, CopyWord(p, i)
      PROVE  pc'[p] \in {"idle", "rseq", "rsize", "rcopy"} /\ Reader(p)'
  <2>1. /\ pc[p] = "rcopy" /\ pc' = pc /\ base' = base /\ len' = len
        /\ todo'[p] = todo[p] \ {i} /\ copy'[p] = [copy[p] EXCEPT ![i] = payload[i]]
    BY <1>0, <1>5 DEF CopyWord
  <2>2. base[p] = seq => Even /\ log # <<>>
    BY <1>0, <2>1 DEF Reader, IInv, Even, Odd
  <2>3. base[p] = seq => \A j \in 1 .. len[p] : j \notin todo'[p] => copy'[p][j] = Newest
    <3>1. base[p] = seq => len[p] = size /\ \A j \in 1 .. size : payload[j] = Newest
      BY <1>0, <2>1, <2>2 DEF Even, Holds, Reader
    <3>2. DOMAIN copy[p] = 1 .. len[p]
      BY <1>0
    <3> QED BY <1>0, <2>1, <3>1, <3>2 DEF Reader
  <2> QED BY <1>0, <1>1, <2>1, <2>3 DEF Reader, Newest
<1> QED BY <1>2, <1>3, <1>4, <1>5 DEF ReadStep

LEMMA KnownStep ==
  ASSUME IInv, [Next]_vars
  PROVE  Known'
<1> USE DEF Goto, TypeOK, PCs
<1>1. CASE UNCHANGED vars
  BY <1>1 DEF vars, object, locals, Known, IInv, Even, Odd, Holds, Newest, Writer, Reader, Writing
<1> SUFFICES ASSUME NEW p \in Procs,
                    \/ Create(p) \/ Attach(p) \/ Construct(p)
                    \/ \E m \in Msgs : StartWrite(p, m)
                    \/ StartRead(p) \/ WriteStep(p) \/ ReadStep(p) \/ Die(p)
             PROVE  Known'
  BY <1>1 DEF Next
<1>2. TypeOK /\ Others(p)
  BY OthersStay DEF IInv
<1>3. CASE Create(p) \/ Attach(p) \/ Die(p) \/ StartRead(p)
  <2>1. /\ UNCHANGED <<lock, seq, size, payload, log>>
        /\ pc'[p] \in {"layout", "idle", "dead", "rseq"}
    BY <1>2, <1>3 DEF Create, Attach, Die, StartRead, object
  <2>2. Writer(p)' /\ Reader(p)'
    BY <2>1 DEF Writer, Reader, Writing
  <2> QED BY <1>2, <2>1, <2>2, ObjectStays
<1>4. CASE Construct(p)
  <2>1. ~magic
    BY <1>4 DEF Construct, ConstructLayout, PublishMagic, IInv, Constructed
  <2>2. /\ seq' = seq /\ seq = 0 /\ log' = log /\ log = <<>>
        /\ \A q \in Procs : pc'[q] \in {"closed", "layout", "magic", "idle", "dead"}
    BY <1>2, <1>4, <2>1 DEF Construct, ConstructLayout, PublishMagic, IInv, Constructed, Others
  <2> QED BY <2>2 DEF Known, Even, Writer, Reader, Writing
<1>5. ASSUME NEW m \in Msgs, StartWrite(p, m) PROVE Known'
  <2>1. /\ UNCHANGED <<lock, seq, size, payload, log>>
        /\ pc'[p] = "lock" /\ arg'[p] = m /\ Length[m] <= Capacity
    BY <1>2, <1>5 DEF StartWrite, object
  <2>2. Writer(p)' /\ Reader(p)'
    BY <2>1 DEF Writer, Reader, Writing
  <2> QED BY <1>2, <2>1, <2>2, ObjectStays
<1>6. CASE WriteStep(p)
  BY <1>2, <1>6, WriteKnown
<1>7. CASE ReadStep(p)
  BY <1>2, <1>7, ReadKnown
<1> QED BY <1>3, <1>4, <1>5, <1>6, <1>7

-----------------------------------------------------------------------------
LEMMA Invariant == Spec => []IInv
<1>1. Init => IInv
  <2>1. ASSUME Init PROVE TypeOK
    <3>1. /\ copy \in [Procs -> Copies] /\ got \in [Procs -> Copies]
          /\ \A p \in Procs : DOMAIN copy[p] = 1 .. len[p]
      BY <2>1, CopyTypes DEF Init
    <3>2. magic \in BOOLEAN /\ lock \in BOOLEAN /\ seq = 0 /\ size = 0
      BY <2>1 DEF Init
    <3>5. log \in Seq(Msgs)
      BY <2>1 DEF Init
    <3>3. /\ payload \in [Words -> Msgs \cup {None}] /\ pc \in [Procs -> PCs]
          /\ arg \in [Procs -> Msgs \cup {None}] /\ todo \in [Procs -> SUBSET Words]
      BY <2>1 DEF Init, PCs
    <3>4. /\ base \in [Procs -> Nat] /\ len \in [Procs -> 0 .. Capacity]
          /\ last \in [Procs -> Nat]
      BY <2>1, CapacityAssumption DEF Init
    <3> QED BY <3>1, <3>2, <3>3, <3>4, <3>5 DEF TypeOK
  <2>2. Init => Constructed /\ OneWriter /\ Even
    BY DEF Init, Constructed, OneWriter, Critical, Even
  <2>3. Init => \A p \in Procs : Writer(p) /\ Reader(p)
    BY DEF Init, Writer, Writing, Reader
  <2> QED BY <2>1, <2>2, <2>3 DEF IInv
<1>2. IInv /\ [Next]_vars => IInv'
  BY TypesStep, ConstructedStep, OneWriterStep, KnownStep DEF IInv, Known
<1> QED BY <1>1, <1>2, PTL DEF Spec

(* The types, for any number of processes. *)
THEOREM TypeCorrect == Spec => []TypeOK
<1>1. IInv => TypeOK
  BY DEF IInv
<1> QED BY <1>1, Invariant, PTL

-----------------------------------------------------------------------------
(* What each step does to the register. *)
LEMMA MarkEvenPuts ==
  ASSUME IInv, NEW p \in Procs, MarkEven(p)
  PROVE  /\ \E m \in Msgs : log' = Append(log, m) /\ Len(log') = Len(log) + 1
                           /\ log'[Len(log')] = m /\ log' # <<>>
         /\ UNCHANGED <<last, got>>
<1>1. arg[p] \in Msgs /\ log \in Seq(Msgs)
  BY DEF MarkEven, IInv, Writer, Writing, TypeOK
<1>2. log' = Append(log, arg[p]) /\ UNCHANGED <<last, got>>
  BY DEF MarkEven
<1> QED BY <1>1, <1>2

LEMMA AcceptGets ==
  ASSUME IInv, NEW p \in Procs, Accept(p)
  PROVE  /\ log # <<>> /\ Len(log) > 0 /\ log' = log
         /\ got' = [got EXCEPT ![p] = Whole(Newest)]
         /\ last' = [last EXCEPT ![p] = 2 * Len(log)]
<1> USE DEF TypeOK
<1>1. /\ TypeOK /\ Reader(p) /\ pc[p] = "rcopy" /\ seq = base[p] /\ todo[p] = {}
      /\ log' = log /\ got' = [got EXCEPT ![p] = copy[p]] /\ last' = [last EXCEPT ![p] = base[p]]
  BY DEF IInv, Accept
<1>2. Len(log) \in Nat /\ log \in Seq(Msgs)
  BY <1>1
<1>3. base[p] = 2 * Len(log) /\ base[p] > 0
  BY <1>1, <1>2 DEF Reader, IInv, Even, Odd
<1>4. Len(log) > 0 /\ log # <<>>
  BY <1>2, <1>3
<1>5. copy[p] = Whole(Newest)
  <2>1. /\ copy[p] \in Copies /\ DOMAIN copy[p] = 1 .. Length[Newest]
        /\ \A i \in 1 .. Length[Newest] : copy[p][i] = Newest
    BY <1>1 DEF Reader
  <2>2. PICK n \in 0 .. Capacity : copy[p] \in [1 .. n -> Msgs \cup {None}]
    BY <2>1 DEF Copies
  <2> QED BY <2>1, <2>2 DEF Whole
<1> QED BY <1>1, <1>3, <1>4, <1>5

(* The steps between, which the register does not see. *)
LEMMA QuietSteps ==
  ASSUME NEW p \in Procs,
         \/ Create(p) \/ Attach(p) \/ Construct(p)
         \/ \E m \in Msgs : StartWrite(p, m)
         \/ StartRead(p) \/ Die(p)
         \/ WriteStep(p) /\ ~MarkEven(p)
         \/ ReadStep(p) /\ ~Accept(p)
  PROVE  UNCHANGED <<log, last, got>>
BY DEF Create, Attach, Construct, ConstructLayout, PublishMagic, StartWrite, StartRead, Die,
       WriteStep, AcquireLock, LoadBase, MarkOdd, StoreSize, StoreWord, ReleaseLock,
       ReadStep, NothingNew, LoadSeq, LoadSize, CopyWord, Retry

(* Reads and writes of LatestBytesSHM (ipc.cpp:419-468) take effect at one *)
(* moment each, whatever the other processes do in between and wherever    *)
(* they die: each read gets the newest message, whole.                     *)
THEOREM Refinement == Spec => IsRegister
<1> DEFINE value == IF log = <<>> THEN <<>> ELSE Whole(log[Len(log)])
           seen == [p \in Procs |-> last[p] \div 2]
<1>1. Init => Register!RInit
  BY DEF Init, Register!RInit
<1>2. ASSUME IInv, [Next]_vars
      PROVE  [Register!RNext]_Register!rvars
  <2>1. CASE UNCHANGED <<log, last, got>>
    BY <2>1 DEF Register!rvars
  <2>2. ASSUME NEW p \in Procs, MarkEven(p) PROVE \E m \in Msgs : Register!Put(Whole(m))
    BY <1>2, <2>2, MarkEvenPuts DEF Register!Put
  <2>3. ASSUME NEW p \in Procs, Accept(p) PROVE Register!Get(p)
    <3>1. /\ log # <<>> /\ Len(log) > 0 /\ log' = log
          /\ got' = [got EXCEPT ![p] = Whole(Newest)]
          /\ last' = [last EXCEPT ![p] = 2 * Len(log)]
      BY <1>2, <2>3, AcceptGets
    <3>2. (2 * Len(log)) \div 2 = Len(log) /\ last \in [Procs -> Nat]
      BY <1>2 DEF IInv, TypeOK
    <3>3. seen' = [seen EXCEPT ![p] = Len(log)]
      BY <3>1, <3>2
    <3>4. value' = value /\ value = Whole(Newest)
      BY <3>1 DEF Newest
    <3> QED BY <3>1, <3>3, <3>4 DEF Register!Get
  <2>4. CASE UNCHANGED vars
    BY <2>1, <2>4 DEF vars
  <2> QED
    BY <1>2, <2>1, <2>2, <2>3, <2>4, QuietSteps
       DEF Next, Register!RNext, WriteStep, ReadStep
<1> QED BY <1>1, <1>2, Invariant, PTL DEF Spec, Register!RSpec, IsRegister

=============================================================================
