-------------------------- MODULE ResourcesProofs --------------------------
(***************************************************************************)
(* What Sockets, SHMBase, AtomicSHM, FileSink and Camera promise, for any  *)
(* number of objects, processes, descriptors, sockets, words, values,      *)
(* files, handles and faults, and files and records of any size.           *)
(*                                                                         *)
(* Sockets: the invariant adds to Owned that an object with a descriptor   *)
(* knows its socket, so that a number which is free is held by nobody, and *)
(* that sockets are numbered in order, so that nobody awaits a later one.  *)
(*                                                                         *)
(* SHMBase: the invariant says what a process that is about to set or to   *)
(* compare the size knows of the object; the size is set once, by the      *)
(* process that created it, when nobody has mapped it yet.                 *)
(*                                                                         *)
(* AtomicSHM: the invariant says what the sequence number stands for until *)
(* it comes round: twice the writes, and one more while a writer, who has  *)
(* or died with the lock, is at it.  If it is even the object holds the    *)
(* newest value, and a reader whose first load of the number is still      *)
(* current has copied words of that value only.                            *)
(*                                                                         *)
(* FileSink: the invariant says that the files are among the newest        *)
(* MaxFiles, up to the index, which is saved except while a crash would    *)
(* tear it from the files; that the stream keeps the newest bytes, and the *)
(* sink knows how long the file will be with them; that what is in the     *)
(* files is older than what the stream keeps; and that a stream which has  *)
(* failed does nothing more until it is closed.                            *)
(*                                                                         *)
(* Camera: the invariant says which sequences of calls can be left to do,  *)
(* and what the next of them finds: opening starts without a handle, and   *)
(* what reads and what releases finds the frame that it gives back.        *)
(***************************************************************************)
EXTENDS Sockets, SHMBase, AtomicSHM, FileSink, Camera, FiniteSetTheorems, SequenceTheorems, TLAPS

-----------------------------------------------------------------------------
(* Sockets *)

Held == \A o \in Objects : fd[o] # 0 => Live(o) /\ table[fd[o]] = given[o] /\ given[o] # 0

Kept == \A f \in Fds : table[f] # 0 => table[f] \in lost \/ \E o \in Objects : fd[o] = f

Single == \A o, p \in Objects : fd[o] # 0 /\ fd[o] = fd[p] => o = p

Registered ==
  \A f \in Fds :
    reg[f] # None => awaits[reg[f]] = [fd |-> f, socket |-> table[f]] /\ table[f] # 0

Holding == Held /\ Kept /\ Single

Numbered ==
  /\ \A f \in Fds : table[f] <= opened
  /\ \A o \in Objects :
       awaits[o] # Nothing => awaits[o].fd \in Fds /\ awaits[o].socket \in 1 .. opened

Attended ==
  \A o \in Objects \ robbed :
    LET a == awaits[o] IN
      a # Nothing /\ table[a.fd] = a.socket => reg[a.fd] = o

OwnedInv == TypeOK /\ Holding /\ Registered /\ Numbered /\ Attended

-----------------------------------------------------------------------------
(* Who holds what: a descriptor goes to an object whose own is closed, to  *)
(* a new one, or to nobody.                                                *)
LEMMA HandHolds ==
  ASSUME Assumptions, TypeOK, Holding, NEW o \in Objects, NEW p \in Objects, NEW what,
         o # p, Live(o), what # None, Hand(o, p, what), lost' = lost,
         \A f \in Fds : table'[f] = IF f = fd[p] THEN 0 ELSE table[f]
  PROVE  Holding'
<1> USE DEF Holding, Hand, TypeOK, Assumptions
<1>1. /\ fd' \in [Objects -> Fds \cup {0}]
      /\ \A q \in Objects : fd'[q] = IF q = p THEN fd[o] ELSE IF q = o THEN 0 ELSE fd[q]
      /\ \A q \in Objects :
           given'[q] = IF q = p THEN given[o] ELSE IF q = o THEN 0 ELSE given[q]
      /\ \A q \in Objects : class'[q] = IF q = p THEN what ELSE class[q]
  OBVIOUS
<1>2. Single'
  BY <1>1 DEF Single
<1>3. Held'
  BY <1>1 DEF Held, Single, Live
<1>4. Kept'
  BY <1>1 DEF Kept
<1> QED BY <1>2, <1>3, <1>4

LEMMA NewHolds ==
  ASSUME Assumptions, TypeOK, Holding, NEW o \in Objects, NEW f \in Fds, NEW what,
         Free(o), what # None, OpenSocket(f), Become(o, what, f, opened + 1), lost' = lost
  PROVE  Holding'
<1> USE DEF Holding, OpenSocket, Become, TypeOK, Assumptions
<1>1. /\ \A q \in Objects : fd'[q] = IF q = o THEN f ELSE fd[q]
      /\ \A q \in Objects : given'[q] = IF q = o THEN opened + 1 ELSE given[q]
      /\ \A q \in Objects : class'[q] = IF q = o THEN what ELSE class[q]
      /\ \A g \in Fds : table'[g] = IF g = f THEN opened + 1 ELSE table[g]
      /\ opened + 1 # 0 /\ f # 0
  OBVIOUS
<1>2. \A q \in Objects : fd[q] # f
  BY DEF Held
<1>3. Single'
  BY <1>1, <1>2 DEF Single
<1>4. Held'
  BY <1>1, <1>2 DEF Held, Live
<1>5. Kept'
  BY <1>1 DEF Kept, Held, Free, Live
<1> QED BY <1>3, <1>4, <1>5

LEMMA NobodyHolds ==
  ASSUME Assumptions, TypeOK, Holding, NEW o \in Objects, NEW what,
         Become(o, what, 0, 0), lost' = lost,
         \A f \in Fds : table'[f] = IF f = fd[o] THEN 0 ELSE table[f]
  PROVE  Holding'
<1> USE DEF Holding, Become, TypeOK, Assumptions
<1>1. /\ \A q \in Objects : fd'[q] = IF q = o THEN 0 ELSE fd[q]
      /\ \A q \in Objects : given'[q] = IF q = o THEN 0 ELSE given[q]
      /\ \A q \in Objects : class'[q] = IF q = o THEN what ELSE class[q]
  OBVIOUS
<1>2. Single'
  BY <1>1 DEF Single
<1>3. Held'
  BY <1>1 DEF Held, Single, Live
<1>4. Kept'
  BY <1>1 DEF Kept
<1> QED BY <1>2, <1>3, <1>4

LEMMA CloseCloses ==
  ASSUME TypeOK, Assumptions, NEW g \in Fds \cup {0}, CloseFd(g)
  PROVE  \A f \in Fds : table'[f] = IF f = g THEN 0 ELSE table[f]
BY DEF CloseFd, TypeOK, Assumptions

-----------------------------------------------------------------------------
(* Who is resumed for what. *)
LEMMA CloseRegisters ==
  ASSUME Assumptions, TypeOK, Registered, NEW f \in Fds \cup {0}, CloseFd(f), awaits' = awaits
  PROVE  Registered'
BY DEF Registered, CloseFd, TypeOK, Assumptions

LEMMA OpenRegisters ==
  ASSUME TypeOK, Registered, NEW f \in Fds, OpenSocket(f), UNCHANGED <<reg, awaits>>
  PROVE  Registered'
BY DEF Registered, OpenSocket, TypeOK

LEMMA ResumeRegisters ==
  ASSUME Assumptions, TypeOK, Registered, NEW o \in Objects, Resumed(o)
  PROVE  (UNCHANGED table \/ \E f \in Fds : OpenSocket(f)) => Registered'
<1>1. awaits[o].fd \in Fds /\ None \notin Objects
  BY DEF TypeOK, Resumed, Assumptions
<1>2. \A f \in Fds : reg'[f] = IF f = awaits[o].fd THEN None ELSE reg[f]
  BY DEF Resumed, TypeOK
<1>3. \A q \in Objects : q # o => awaits'[q] = awaits[q]
  BY DEF Resumed, TypeOK
<1>4. ASSUME NEW f \in Fds, reg'[f] # None
      PROVE  reg[f] = reg'[f] /\ reg[f] \in Objects /\ reg[f] # o
  <2>1. reg[f] = reg'[f] /\ f # awaits[o].fd /\ reg[f] \in Objects
    BY <1>1, <1>2, <1>4 DEF TypeOK
  <2>2. awaits[reg[f]] = [fd |-> f, socket |-> table[f]]
    BY <2>1, <1>4 DEF Registered
  <2>3. awaits[reg[f]].fd = f
    BY <2>2
  <2> QED BY <2>1, <2>3
<1>5. ASSUME NEW f \in Fds, reg'[f] # None, UNCHANGED table \/ \E g \in Fds : OpenSocket(g)
      PROVE  table'[f] = table[f]
  <2>1. table[f] # 0
    BY <1>4, <1>5 DEF Registered
  <2> QED BY <2>1, <1>5 DEF OpenSocket, TypeOK
<1> QED BY <1>3, <1>4, <1>5 DEF Registered

-----------------------------------------------------------------------------
(* Who is in epoll as long as his socket is open. *)
LEMMA OpenAttends ==
  ASSUME TypeOK, Numbered, Attended, NEW f \in Fds, OpenSocket(f),
         UNCHANGED <<reg, awaits, robbed>>
  PROVE  Numbered' /\ Attended'
<1>1. Numbered'
  BY DEF Numbered, OpenSocket, TypeOK, Sockets
<1>2. \A o \in Objects :
        awaits[o] # Nothing /\ table'[awaits[o].fd] = awaits[o].socket =>
          table[awaits[o].fd] = awaits[o].socket
  BY DEF Numbered, OpenSocket, TypeOK, Sockets
<1> QED BY <1>1, <1>2 DEF Attended

LEMMA CloseAttends ==
  ASSUME Assumptions, TypeOK, Numbered, Attended, NEW f \in Fds \cup {0}, CloseFd(f),
         UNCHANGED <<opened, awaits, robbed>>
  PROVE  Numbered' /\ Attended'
<1>1. \A g \in Fds : table'[g] = IF g = f THEN 0 ELSE table[g]
  BY CloseCloses
<1>2. \A g \in Fds : g # f => reg'[g] = reg[g]
  BY DEF CloseFd, TypeOK
<1>3. Numbered'
  BY <1>1 DEF Numbered, TypeOK, Sockets
<1> QED BY <1>1, <1>2, <1>3 DEF Numbered, Attended

LEMMA SuspendAttends ==
  ASSUME Assumptions, TypeOK, Held, Numbered, Attended, NEW o \in Objects, Suspend(o)
  PROVE  Numbered' /\ Attended'
<1>1. /\ fd[o] \in Fds /\ table[fd[o]] = given[o] /\ given[o] \in 1 .. opened
      /\ \A q \in Objects : q # None
  BY DEF Suspend, Held, Numbered, TypeOK, Assumptions, Sockets
<1>2. /\ UNCHANGED <<table, opened, robbed>> /\ reg[fd[o]] = None
      /\ \A q \in Objects :
           awaits'[q] = IF q = o THEN [fd |-> fd[o], socket |-> given[o]] ELSE awaits[q]
      /\ \A g \in Fds : reg'[g] = IF g = fd[o] THEN o ELSE reg[g]
  BY <1>1 DEF Suspend, kernel, TypeOK
<1>3. Numbered'
  BY <1>1, <1>2 DEF Numbered
<1> QED BY <1>1, <1>2, <1>3 DEF Numbered, Attended

(* Whoever is removed from epoll by another's number is counted as robbed. *)
LEMMA ResumeAttends ==
  ASSUME Assumptions, TypeOK, Numbered, Attended, NEW o \in Objects, Resumed(o),
         UNCHANGED <<table, opened>> \/ \E f \in Fds : OpenSocket(f)
  PROVE  Numbered' /\ Attended'
<1>1. /\ awaits[o].fd \in Fds /\ \A q \in Objects : q # None
      /\ \A q \in Objects : awaits'[q] = IF q = o THEN Nothing ELSE awaits[q]
      /\ \A g \in Fds : reg'[g] = IF g = awaits[o].fd THEN None ELSE reg[g]
      /\ robbed' = robbed \cup ({reg[awaits[o].fd]} \ {o, None})
  BY DEF Resumed, TypeOK, Assumptions
<1>2. Numbered'
  BY <1>1 DEF Numbered, OpenSocket, TypeOK, Sockets
<1>3. \A q \in Objects :
        awaits[q] # Nothing /\ table'[awaits[q].fd] = awaits[q].socket =>
          awaits[q].fd \in Fds /\ table[awaits[q].fd] = awaits[q].socket
  BY DEF Numbered, OpenSocket, TypeOK, Sockets
<1> QED BY <1>1, <1>2, <1>3 DEF Attended

LEMMA StepAttends ==
  ASSUME Assumptions, TypeOK, Held, Numbered, Attended, [Next]_vars
  PROVE  Numbered' /\ Attended'
<1> USE DEF coroutines
<1>1. ASSUME UNCHANGED <<table, opened, awaits, reg, robbed>> PROVE Numbered' /\ Attended'
  BY <1>1 DEF Numbered, Attended
<1>2. ASSUME NEW f \in Fds, ConstructThrows(f) \/
               \E o \in Objects, w \in Passive : Construct(o, w, f)
      PROVE  Numbered' /\ Attended'
  BY <1>2, OpenAttends DEF ConstructThrows, Construct
<1>3. ASSUME NEW o \in Objects, NEW p \in Objects, Create(o, p) \/ Connect(o, p) \/ Move(o, p)
      PROVE  Numbered' /\ Attended'
  BY <1>1, <1>3 DEF Create, Connect, Move, kernel
<1>4. ASSUME NEW o \in Objects, NEW p \in Objects, Accept(o, p)
      PROVE  Numbered' /\ Attended'
  BY <1>1, <1>4, OpenAttends DEF Accept, Accepted
<1>5. ASSUME NEW o \in Objects, NEW p \in Objects,
             Assign(o, p) \/ Close(o) \/ Destroy(o)
      PROVE  Numbered' /\ Attended'
  <2>1. \A q \in Objects : fd[q] \in Fds \cup {0}
    BY DEF TypeOK
  <2> QED BY <1>5, <2>1, CloseAttends DEF Assign, Close, Destroy
<1>6. ASSUME NEW o \in Objects, Suspend(o) PROVE Numbered' /\ Attended'
  BY <1>6, SuspendAttends
<1>7. ASSUME NEW o \in Objects, NEW p \in Objects,
             ResumeSession(o) \/ ResumeAccept(o, p) \/ ResumeConnect(o, p)
      PROVE  Numbered' /\ Attended'
  <2>1. Resumed(o) /\ (UNCHANGED <<table, opened>> \/ \E f \in Fds : OpenSocket(f))
    BY <1>7 DEF ResumeSession, ResumeAccept, ResumeConnect, Accepted, kernel
  <2> QED BY <2>1, ResumeAttends
<1>8. CASE UNCHANGED vars
  BY <1>1, <1>8 DEF vars, kernel
<1> QED BY <1>2, <1>3, <1>4, <1>5, <1>6, <1>7, <1>8 DEF Next

-----------------------------------------------------------------------------
(* The types. *)
LEMMA Types ==
  ASSUME Assumptions, TypeOK, [Next]_vars
  PROVE  TypeOK'
<1> USE DEF TypeOK, Assumptions, Passive, Sessions, Sockets, Nothing, Hand, Become, CloseFd,
            OpenSocket, Free, Live, kernel, coroutines, NextEvent, InEpoll
<1>1. ASSUME NEW f \in Fds, ConstructThrows(f) PROVE TypeOK'
  BY <1>1 DEF ConstructThrows, objects
<1>2. ASSUME NEW f \in Fds, NEW o \in Objects, NEW what \in Passive, Construct(o, what, f)
      PROVE  TypeOK'
  BY <1>2 DEF Construct
<1>3. ASSUME NEW o \in Objects, NEW p \in Objects, Create(o, p) \/ Connect(o, p)
      PROVE  TypeOK'
  <2>1. UNCHANGED <<kernel, coroutines, reg>> /\ \E what \in Sessions : Hand(o, p, what)
    BY <1>3 DEF Create, Connect
  <2> QED BY <2>1
<1>4. ASSUME NEW p \in Objects, Accepted(p), lost' = lost,
             awaits' \in [Objects -> [fd : Fds \cup {0}, socket : Sockets \cup {0}]],
             reg' \in [Fds -> Objects \cup {None}],
             batch' \subseteq Objects, robbed' \subseteq Objects
      PROVE  TypeOK'
  <2>1. ASSUME NEW f \in Fds, OpenSocket(f), Become(p, "stream", f, opened + 1) PROVE TypeOK'
    BY <1>4, <2>1
  <2>2. CASE Become(p, "stream", 0, 0) /\ UNCHANGED <<table, opened>>
    BY <1>4, <2>2
  <2> QED BY <1>4, <2>1, <2>2 DEF Accepted
<1>5. ASSUME NEW o \in Objects, NEW p \in Objects, Move(o, p) PROVE TypeOK'
  <2>1. UNCHANGED <<kernel, coroutines, reg>> /\ \E what \in Sessions : Hand(o, p, what)
    BY <1>5 DEF Move
  <2> QED BY <2>1
<1>6. ASSUME NEW o \in Objects, NEW p \in Objects, Assign(o, p) PROVE TypeOK'
  BY <1>6 DEF Assign
<1>7. ASSUME NEW o \in Objects, NEW p \in Objects, Accept(o, p) \/ ResumeAccept(o, p)
      PROVE  TypeOK'
  <2>1. /\ awaits' \in [Objects -> [fd : Fds \cup {0}, socket : Sockets \cup {0}]]
        /\ reg' \in [Fds -> Objects \cup {None}]
        /\ batch' \subseteq Objects /\ robbed' \subseteq Objects
    BY SMTT(30), <1>7 DEF Accept, ResumeAccept, Resumed
  <2> QED BY <1>4, <1>7, <2>1 DEF Accept, ResumeAccept
<1>8. ASSUME NEW o \in Objects, NEW p \in Objects, ResumeConnect(o, p) PROVE TypeOK'
  <2>1. CASE Hand(o, p, "stream")
    BY <1>8, <2>1 DEF ResumeConnect, Resumed
  <2>2. CASE Become(p, "stream", 0, 0)
    BY <1>8, <2>2 DEF ResumeConnect, Resumed
  <2> QED BY <1>8, <2>1, <2>2 DEF ResumeConnect
<1>9. ASSUME NEW o \in Objects, Close(o) \/ Destroy(o) PROVE TypeOK'
  <2>1. /\ Become(o, class[o], 0, 0) \/ Become(o, None, 0, 0)
        /\ CloseFd(fd[o]) \/ CloseFd(0)
        /\ UNCHANGED <<opened, lost, coroutines>>
    BY <1>9 DEF Close, Destroy
  <2>2. table' \in [Fds -> Sockets \cup {0}] /\ reg' \in [Fds -> Objects \cup {None}]
    BY <2>1
  <2> QED BY <2>1, <2>2
<1>10. ASSUME NEW o \in Objects, Suspend(o) PROVE TypeOK'
  BY <1>10 DEF Suspend, objects
<1>11. ASSUME NEW o \in Objects, ResumeSession(o) PROVE TypeOK'
  BY <1>11 DEF ResumeSession, Resumed, objects
<1>12. CASE UNCHANGED vars
  BY <1>12 DEF vars, objects
<1> QED
  BY <1>1, <1>2, <1>3, <1>4, <1>5, <1>6, <1>7, <1>8, <1>9, <1>10, <1>11, <1>12 DEF Next

-----------------------------------------------------------------------------
(* For any number of objects, whatever is handed over, moved, closed,      *)
(* destroyed and awaited: one object holds a socket, or none if a          *)
(* constructor has thrown, no object holds the number of a socket that is  *)
(* not its own, and epoll has, for a socket that is open, just the one who *)
(* awaits it, unless a resumption for a socket closed meanwhile has        *)
(* removed him (socket.cpp:899, :961, :1565, :1577).                       *)
THEOREM SocketsOwned ==
  ASSUME Assumptions
  PROVE  Spec => []Owned
<1>1. Init => OwnedInv
  BY DEF Init, Assumptions, OwnedInv, TypeOK, Holding, Held, Kept, Single, Registered,
         Numbered, Attended, Sockets, Nothing
<1>2. OwnedInv /\ [Next]_vars => OwnedInv'
  <2> SUFFICES ASSUME OwnedInv, [Next]_vars PROVE Holding' /\ Registered'
    BY Types, StepAttends DEF OwnedInv, Holding
  <2> USE DEF OwnedInv, kernel, coroutines
  <2>1. \A o \in Objects : /\ Free(o) => fd[o] = 0
                           /\ fd[o] # 0 => Live(o)
                           /\ fd[o] \in Fds \cup {0}
    BY DEF Free, Holding, Held, Live, TypeOK
  <2>2. None # "holder" /\ \A w \in Passive \cup Sessions : w # None
    BY DEF Assumptions, Passive
  <2>3. ASSUME NEW f \in Fds, ConstructThrows(f) PROVE Holding' /\ Registered'
    <3>1. Registered'
      BY <2>3, OpenRegisters DEF ConstructThrows
    <3>2. Held' /\ Single'
      BY <2>3 DEF ConstructThrows, OpenSocket, objects, Holding, Held, Single, Live, TypeOK
    <3>3. Kept'
      BY <2>3 DEF ConstructThrows, OpenSocket, objects, Holding, Kept, TypeOK
    <3> QED BY <3>1, <3>2, <3>3 DEF Holding
  <2>4. ASSUME NEW f \in Fds, NEW o \in Objects, NEW w \in Passive, Construct(o, w, f)
        PROVE  Holding' /\ Registered'
    BY <2>2, <2>4, NewHolds, OpenRegisters DEF Construct
  <2>5. ASSUME NEW o \in Objects, NEW p \in Objects, Create(o, p) \/ Connect(o, p) \/ Move(o, p)
        PROVE  Holding' /\ Registered'
    <3>1. /\ o # p /\ Live(o) /\ fd[p] = 0 /\ \E w \in Sessions : Hand(o, p, w)
          /\ UNCHANGED <<table, lost, awaits, reg>>
      BY <2>1, <2>2, <2>5 DEF Create, Connect, Move, Live, Free, Sessions
    <3>2. \A f \in Fds : table'[f] = IF f = fd[p] THEN 0 ELSE table[f]
      BY <3>1 DEF Assumptions
    <3>3. Registered'
      BY <3>1 DEF Registered
    <3> QED BY <2>2, <3>1, <3>2, <3>3, HandHolds
  <2>6. ASSUME NEW o \in Objects, NEW p \in Objects, Assign(o, p)
        PROVE  Holding' /\ Registered'
    <3>1. Registered'
      BY <2>1, <2>6, CloseRegisters DEF Assign
    <3>2. \A f \in Fds : table'[f] = IF f = fd[p] THEN 0 ELSE table[f]
      BY <2>1, <2>6, CloseCloses DEF Assign
    <3>3. Live(o) /\ class[p] # None
      BY <2>2, <2>6 DEF Assign, Live
    <3> QED BY <2>6, <3>1, <3>2, <3>3, HandHolds DEF Assign
  <2>7. ASSUME NEW o \in Objects, NEW what, Become(o, what, 0, 0), CloseFd(fd[o]),
               UNCHANGED <<lost, awaits>>
        PROVE  Holding' /\ Registered'
    <3>1. \A f \in Fds : table'[f] = IF f = fd[o] THEN 0 ELSE table[f]
      BY <2>1, <2>7, CloseCloses
    <3> QED BY <2>1, <2>7, <3>1, NobodyHolds, CloseRegisters
  <2>8. ASSUME NEW o \in Objects, Close(o) \/ Destroy(o)
        PROVE  Holding' /\ Registered'
    <3>1. fd[o] # 0 => table[fd[o]] # 0
      BY DEF Holding, Held
    <3> QED BY <2>7, <2>8, <3>1 DEF Close, Destroy
  <2>9. ASSUME NEW p \in Objects, Free(p), Accepted(p), lost' = lost
        PROVE  Holding'
    <3>1. CASE Become(p, "stream", 0, 0) /\ UNCHANGED <<table, opened>>
      <4>1. \A f \in Fds : table'[f] = IF f = fd[p] THEN 0 ELSE table[f]
        BY <2>1, <2>9, <3>1 DEF Assumptions
      <4> QED BY <3>1, <2>9, <4>1, NobodyHolds
    <3>2. ASSUME NEW f \in Fds, OpenSocket(f), Become(p, "stream", f, opened + 1)
          PROVE  Holding'
      BY <2>2, <2>9, <3>2, NewHolds DEF Sessions
    <3> QED BY <2>9, <3>1, <3>2 DEF Accepted
  <2>10. ASSUME NEW o \in Objects, NEW p \in Objects, Accept(o, p) PROVE Holding' /\ Registered'
    <3>1. Registered'
      BY <2>10, OpenRegisters DEF Accept, Accepted, Registered
    <3> QED BY <2>9, <2>10, <3>1 DEF Accept
  <2>11. ASSUME NEW o \in Objects, NEW p \in Objects, ResumeAccept(o, p)
         PROVE  Holding' /\ Registered'
    <3>1. UNCHANGED table \/ \E f \in Fds : OpenSocket(f)
      BY <2>11 DEF ResumeAccept, Accepted
    <3>2. Registered'
      BY <2>11, <3>1, ResumeRegisters DEF ResumeAccept
    <3> QED BY <2>9, <2>11, <3>2 DEF ResumeAccept
  <2>12. ASSUME NEW o \in Objects, NEW p \in Objects, ResumeConnect(o, p)
         PROVE  Holding' /\ Registered'
    <3>1. Registered'
      BY <2>12, ResumeRegisters DEF ResumeConnect
    <3>2. \A f \in Fds : table'[f] = IF f = fd[p] THEN 0 ELSE table[f]
      BY <2>1, <2>12 DEF ResumeConnect, Assumptions
    <3>3. o # p /\ Live(o)
      BY <2>2, <2>12 DEF ResumeConnect, Free, Live, Passive
    <3>4. Holding'
      BY <2>2, <2>12, <3>2, <3>3, HandHolds, NobodyHolds DEF ResumeConnect, Sessions
    <3> QED BY <3>1, <3>4
  <2>13. ASSUME NEW o \in Objects, Suspend(o) PROVE Holding' /\ Registered'
    <3>1. Holding'
      BY <2>13 DEF Suspend, objects, Holding, Held, Kept, Single, Live
    <3>2. fd[o] \in Fds /\ table[fd[o]] = given[o] /\ given[o] # 0 /\ None # o
      BY <2>1, <2>13 DEF Suspend, Holding, Held, Assumptions
    <3>3. ASSUME NEW f \in Fds, reg[f] # None, reg[f] = o PROVE FALSE
      <4>1. awaits[o] = [fd |-> f, socket |-> table[f]] /\ awaits[o] = Nothing
        BY <2>13, <3>3 DEF Suspend, Registered
      <4> QED BY <4>1 DEF Nothing, Assumptions
    <3>4. Registered'
      BY <2>13, <3>2, <3>3 DEF Suspend, Registered, TypeOK
    <3> QED BY <3>1, <3>4
  <2>14. ASSUME NEW o \in Objects, ResumeSession(o) PROVE Holding' /\ Registered'
    <3>1. Registered'
      BY <2>14, ResumeRegisters DEF ResumeSession
    <3> QED BY <2>14, <3>1 DEF ResumeSession, objects, Holding, Held, Kept, Single, Live
  <2>15. CASE UNCHANGED vars
    BY <2>15 DEF vars, objects, Holding, Held, Kept, Single, Live, Registered
  <2> QED BY <2>3, <2>4, <2>5, <2>6, <2>8, <2>10, <2>11, <2>12, <2>13, <2>14, <2>15 DEF Next
<1>3. OwnedInv => Owned
  BY DEF OwnedInv, Owned, Holding, Held, Kept, Single, Registered, Attended
<1> QED BY <1>1, <1>2, <1>3, PTL DEF Spec

-----------------------------------------------------------------------------
(* SHMBase *)

Stage(p) ==
  /\ pc[p] \in {"out", "open"} => fds[p] = 0 /\ ptr[p] = 0 /\ ~creator[p]
  /\ pc[p] = "wait" => fds[p] # 0 /\ ptr[p] = 0 /\ ~creator[p]
  /\ pc[p] = "truncate" =>
       fds[p] # 0 /\ ptr[p] = 0 /\ owner[fds[p]] = p /\ bytes[fds[p]] = 0
  /\ pc[p] = "map" => fds[p] # 0 /\ ptr[p] = 0 /\ bytes[fds[p]] = Size[p]

NotYetMade == \A o \in ShmObjects : o > made => bytes[o] = 0

Named ==
  "fail" \notin faults =>
    \A p \in Procs : creator[p] => fds[p] # 0 /\ name = fds[p] /\ owner[name] = p

ShmInv == ShmTypeOK /\ NotYetMade /\ (\A p \in Procs : Stage(p)) /\ MappedWhole /\ Named

(* The step of a process changes its own entries only, the size of an      *)
(* object that it made, and the owner of an object not made before.        *)
ShmStep(p) ==
  /\ \E l \in {"out", "open", "wait", "truncate", "map", "ready"} : Goto(p, l)
  /\ \E o \in 0 .. made' : SetFd(p, o)
  /\ \E o \in 0 .. made' : ptr' = [ptr EXCEPT ![p] = o]
  /\ \E b \in BOOLEAN : creator' = [creator EXCEPT ![p] = b]
  /\ \/ UNCHANGED <<made, owner>>
     \/ made < MaxObjects /\ made' = made + 1 /\ owner' = [owner EXCEPT ![made + 1] = p]
  /\ \/ UNCHANGED bytes
     \/ /\ pc[p] = "truncate" /\ UNCHANGED <<made, owner, name>>
        /\ bytes' = [bytes EXCEPT ![fds[p]] = Size[p]]
  /\ name' \in {0, made', name}
  /\ \/ UNCHANGED faults \/ faults' = faults \cup {"fail"} \/ faults' = faults \cup {"crash"}

LEMMA StepIsStep ==
  ASSUME ShmAssumptions, ShmInv, NEW p \in Procs,
         \/ CreateNew(p) \/ AlreadyExists(p) \/ OpenExisting(p)
         \/ SeeSize(p) \/ SizeTimeout(p)
         \/ Truncate(p) \/ TruncateFails(p) \/ Map(p) \/ MapFails(p)
         \/ DestroyShm(p) \/ Crash(p)
  PROVE  ShmStep(p)
<1>1. /\ made \in Nat /\ name \in 0 .. made /\ fds[p] \in 0 .. made /\ ptr[p] \in 0 .. made
      /\ creator[p] \in BOOLEAN
      /\ fds = [fds EXCEPT ![p] = fds[p]] /\ ptr = [ptr EXCEPT ![p] = ptr[p]]
      /\ creator = [creator EXCEPT ![p] = creator[p]]
      /\ fds[p] \in 0 .. made + 1 /\ ptr[p] \in 0 .. made + 1 /\ made + 1 \in 0 .. made + 1
      /\ 0 \in 0 .. made
  BY DEF ShmAssumptions, ShmInv, ShmTypeOK
<1> USE DEF ShmStep, Goto, SetFd
<1>2. CASE CreateNew(p)
  BY <1>1, <1>2 DEF CreateNew
<1>3. CASE AlreadyExists(p)
  BY <1>1, <1>3 DEF AlreadyExists
<1>4. CASE OpenExisting(p)
  BY <1>1, <1>4 DEF OpenExisting
<1>5. CASE SeeSize(p)
  BY <1>1, <1>5 DEF SeeSize
<1>6. CASE SizeTimeout(p)
  BY <1>1, <1>6 DEF SizeTimeout
<1>7. CASE Truncate(p)
  BY <1>1, <1>7 DEF Truncate
<1>8. CASE TruncateFails(p)
  BY <1>1, <1>8 DEF TruncateFails
<1>9. CASE Map(p)
  BY <1>1, <1>9 DEF Map
<1>10. CASE MapFails(p)
  BY <1>1, <1>10 DEF MapFails
<1>11. CASE DestroyShm(p)
  BY <1>1, <1>11 DEF DestroyShm, Leave
<1>12. CASE Crash(p)
  BY <1>1, <1>12 DEF Crash, Leave
<1> QED BY <1>2, <1>3, <1>4, <1>5, <1>6, <1>7, <1>8, <1>9, <1>10, <1>11, <1>12

LEMMA StepTypes ==
  ASSUME ShmAssumptions, ShmInv, NEW p \in Procs, ShmStep(p)
  PROVE  ShmTypeOK'
<1> USE DEF ShmAssumptions, ShmInv, ShmTypeOK, ShmStep
<1>1. made' \in 0 .. MaxObjects /\ made \in Nat /\ made' \in Nat /\ made <= made'
  OBVIOUS
<1>2. name' \in 0 .. made'
  BY <1>1
<1>3. bytes' \in [ShmObjects -> {0} \cup {Size[q] : q \in Procs}]
  OBVIOUS
<1>4. pc' \in [Procs -> {"out", "open", "wait", "truncate", "map", "ready"}]
  BY DEF Goto
<1>5. fds' \in [Procs -> 0 .. made'] /\ ptr' \in [Procs -> 0 .. made']
  BY <1>1 DEF SetFd
<1>6. creator' \in [Procs -> BOOLEAN]
  OBVIOUS
<1>7. owner' \in [ShmObjects -> Procs]
  OBVIOUS
<1>8. faults' \subseteq {"fail", "crash"}
  <2>1. faults \subseteq {"fail", "crash"}
    OBVIOUS
  <2>2. \/ faults' = faults \/ faults' = faults \cup {"fail"} \/ faults' = faults \cup {"crash"}
    OBVIOUS
  <2> HIDE DEF ShmAssumptions, ShmInv, ShmTypeOK, ShmStep
  <2> QED BY <2>1, <2>2
<1> QED BY <1>1, <1>2, <1>3, <1>4, <1>5, <1>6, <1>7, <1>8

(* What the others know of their objects stays true.                       *)
LEMMA StepSpares ==
  ASSUME ShmAssumptions, ShmInv, NEW p \in Procs, ShmStep(p), NEW q \in Procs, q # p
  PROVE  /\ Stage(q)'
         /\ ptr'[q] # 0 => bytes'[ptr'[q]] = Size[q]
<1> USE DEF ShmAssumptions, ShmInv
<1>1. /\ pc'[q] = pc[q] /\ fds'[q] = fds[q] /\ ptr'[q] = ptr[q] /\ creator'[q] = creator[q]
      /\ fds[q] \in 0 .. made /\ ptr[q] \in 0 .. made /\ made \in 0 .. MaxObjects
      /\ Size[q] # 0 /\ Stage(q) /\ Stage(p)
  BY DEF ShmStep, ShmTypeOK, Goto, SetFd
<1>2. \A o \in 1 .. made : owner'[o] = owner[o] /\ o \in ShmObjects
  <2> SUFFICES ASSUME NEW o \in 1 .. made PROVE owner'[o] = owner[o]
    BY <1>1 DEF ShmObjects
  <2>1. o # made + 1 /\ o \in DOMAIN owner
    BY <1>1 DEF ShmTypeOK, ShmObjects
  <2> QED BY <2>1 DEF ShmStep
<1>3. ASSUME NEW o \in 1 .. made, bytes[o] # 0 \/ owner[o] = q
      PROVE  bytes'[o] = bytes[o]
  <2>1. CASE UNCHANGED bytes
    BY <2>1
  <2>2. CASE pc[p] = "truncate" /\ bytes' = [bytes EXCEPT ![fds[p]] = Size[p]]
    <3>1. o # fds[p]
      BY <1>1, <1>3, <2>2 DEF Stage
    <3> QED BY <1>2, <2>2, <3>1 DEF ShmTypeOK
  <2> QED BY <2>1, <2>2 DEF ShmStep
<1>4. Stage(q)'
  <2>1. CASE fds[q] = 0
    BY <1>1, <2>1 DEF Stage
  <2>2. CASE fds[q] # 0
    <3>1. fds[q] \in 1 .. made
      BY <1>1, <2>2
    <3> QED BY <1>1, <1>2, <1>3, <3>1 DEF Stage
  <2> QED BY <2>1, <2>2
<1>5. ptr'[q] # 0 => bytes'[ptr'[q]] = Size[q]
  <2> SUFFICES ASSUME ptr[q] # 0 PROVE bytes'[ptr[q]] = Size[q]
    BY <1>1
  <2>1. ptr[q] \in 1 .. made /\ bytes[ptr[q]] = Size[q]
    BY <1>1 DEF MappedWhole
  <2> QED BY <1>1, <1>3, <2>1
<1> QED BY <1>4, <1>5

(* What the process itself knows afterwards.                               *)
LEMMA StepKnows ==
  ASSUME ShmAssumptions, ShmInv, NEW p \in Procs,
         \/ CreateNew(p) \/ AlreadyExists(p) \/ OpenExisting(p)
         \/ SeeSize(p) \/ SizeTimeout(p)
         \/ Truncate(p) \/ TruncateFails(p) \/ Map(p) \/ MapFails(p)
         \/ DestroyShm(p) \/ Crash(p)
  PROVE  /\ Stage(p)'
         /\ ptr'[p] # 0 => bytes'[ptr'[p]] = Size[p]
         /\ NotYetMade'
<1>1. /\ made \in 0 .. MaxObjects /\ made \in Nat /\ name \in 0 .. made /\ fds[p] \in 0 .. made
      /\ ptr[p] \in 0 .. made /\ Size[p] # 0
      /\ Stage(p) /\ (ptr[p] # 0 => bytes[ptr[p]] = Size[p]) /\ NotYetMade
      /\ fds[p] # 0 => fds[p] \in ShmObjects
      /\ made < MaxObjects => made + 1 \in ShmObjects /\ made + 1 > made
      /\ DOMAIN pc = Procs /\ DOMAIN fds = Procs /\ DOMAIN ptr = Procs
      /\ DOMAIN creator = Procs /\ DOMAIN owner = ShmObjects /\ DOMAIN bytes = ShmObjects
  BY SMTT(30) DEF ShmAssumptions, ShmInv, ShmTypeOK, MappedWhole, ShmObjects
<1> USE DEF Goto, SetFd
<1>2. CASE CreateNew(p)
  <2>1. Stage(p)'
    BY <1>1, <1>2 DEF CreateNew, Stage, NotYetMade
  <2>2. NotYetMade'
    BY <1>1, <1>2 DEF CreateNew, NotYetMade, ShmObjects
  <2> QED BY <1>1, <1>2, <2>1, <2>2 DEF CreateNew
<1>3. CASE AlreadyExists(p)
  BY <1>1, <1>3 DEF AlreadyExists, Stage, NotYetMade
<1>4. CASE OpenExisting(p)
  BY <1>1, <1>4 DEF OpenExisting, Stage, NotYetMade
<1>5. CASE SeeSize(p)
  BY <1>1, <1>5 DEF SeeSize, Stage, NotYetMade
<1>6. CASE SizeTimeout(p)
  BY <1>1, <1>6 DEF SizeTimeout, Stage, NotYetMade
<1>7. CASE Truncate(p)
  BY <1>1, <1>7 DEF Truncate, Stage, NotYetMade
<1>8. CASE TruncateFails(p)
  BY <1>1, <1>8 DEF TruncateFails, Stage, NotYetMade
<1>9. CASE Map(p)
  BY <1>1, <1>9 DEF Map, Stage, NotYetMade
<1>10. CASE MapFails(p)
  BY <1>1, <1>10 DEF MapFails, Stage, NotYetMade
<1>11. CASE DestroyShm(p)
  BY <1>1, <1>11 DEF DestroyShm, Leave, Stage, NotYetMade
<1>12. CASE Crash(p)
  BY <1>1, <1>12 DEF Crash, Leave, Stage, NotYetMade
<1> QED BY <1>2, <1>3, <1>4, <1>5, <1>6, <1>7, <1>8, <1>9, <1>10, <1>11, <1>12

(* While nothing has failed, a creator is the only one: the name stays     *)
(* linked to its object until it removes it itself.                        *)
LEMMA StepNames ==
  ASSUME ShmAssumptions, ShmInv, NEW p \in Procs,
         \/ CreateNew(p) \/ AlreadyExists(p) \/ OpenExisting(p)
         \/ SeeSize(p) \/ SizeTimeout(p)
         \/ Truncate(p) \/ TruncateFails(p) \/ Map(p) \/ MapFails(p)
         \/ DestroyShm(p) \/ Crash(p)
  PROVE  Named'
<1> SUFFICES ASSUME "fail" \notin faults', NEW q \in Procs, creator'[q]
             PROVE  fds'[q] # 0 /\ name' = fds'[q] /\ owner'[name'] = q
  BY DEF Named
<1> USE DEF ShmAssumptions, ShmInv, Goto, SetFd
<1>1. /\ made \in Nat /\ name \in 0 .. made
      /\ DOMAIN fds = Procs /\ DOMAIN creator = Procs /\ DOMAIN owner = 1 .. MaxObjects
      /\ Stage(p) /\ Stage(q)
  BY DEF ShmTypeOK, ShmObjects
<1>2. "fail" \notin faults
  BY StepIsStep DEF ShmStep
<1>3. /\ creator[q] => fds[q] # 0 /\ name = fds[q] /\ owner[name] = q
      /\ creator[p] => fds[p] # 0 /\ name = fds[p] /\ owner[name] = p
  BY <1>2 DEF Named
<1>4. CASE CreateNew(p)
  BY <1>1, <1>3, <1>4 DEF CreateNew
<1>5. CASE AlreadyExists(p) \/ Truncate(p) \/ Map(p)
  BY <1>1, <1>3, <1>5 DEF AlreadyExists, Truncate, Map
<1>6. CASE OpenExisting(p)
  BY <1>1, <1>3, <1>6 DEF OpenExisting, Stage
<1>7. CASE SeeSize(p)
  BY <1>1, <1>3, <1>7 DEF SeeSize, Stage
<1>8. CASE SizeTimeout(p)
  BY <1>1, <1>3, <1>8 DEF SizeTimeout, Stage
<1>9. CASE TruncateFails(p) \/ MapFails(p)
  BY <1>9 DEF TruncateFails, MapFails
<1>10. CASE DestroyShm(p)
  BY <1>1, <1>3, <1>10 DEF DestroyShm, Leave
<1>11. CASE Crash(p)
  BY <1>1, <1>3, <1>11 DEF Crash, Leave
<1> QED BY <1>4, <1>5, <1>6, <1>7, <1>8, <1>9, <1>10, <1>11

LEMMA SharedHolds ==
  ASSUME ShmAssumptions, ShmInv, [ShmNext]_shmVars
  PROVE  ShmInv'
<1>1. ASSUME NEW p \in Procs,
             \/ CreateNew(p) \/ AlreadyExists(p) \/ OpenExisting(p)
             \/ SeeSize(p) \/ SizeTimeout(p)
             \/ Truncate(p) \/ TruncateFails(p) \/ Map(p) \/ MapFails(p)
             \/ DestroyShm(p) \/ Crash(p)
      PROVE  ShmInv'
  <2>1. ShmStep(p)
    BY <1>1, StepIsStep
  <2>2. ShmTypeOK'
    BY <2>1, StepTypes
  <2>3. NotYetMade' /\ Named'
    BY <1>1, StepKnows, StepNames
  <2>4. \A q \in Procs : Stage(q)' /\ (ptr'[q] # 0 => bytes'[ptr'[q]] = Size[q])
    BY <1>1, <2>1, StepKnows, StepSpares
  <2> QED BY <2>2, <2>3, <2>4 DEF ShmInv, MappedWhole
<1>2. CASE UNCHANGED shmVars
  BY <1>2 DEF shmVars, ShmInv, ShmTypeOK, NotYetMade, Stage, MappedWhole, Named
<1> QED BY <1>1, <1>2 DEF ShmNext

(* Whoever has a name mapped has all of it, and what a creator has made    *)
(* and not left keeps its name, if nothing failed; for any number of       *)
(* processes, whoever crashes and wherever.                                *)
THEOREM SharedSame ==
  ASSUME ShmAssumptions
  PROVE  ShmSpec => []SameObject
<1>1. ShmInit => ShmInv
  BY DEF ShmAssumptions, ShmInit, ShmInv, ShmTypeOK, ShmObjects, NotYetMade, Stage, MappedWhole,
         Named
<1>2. ShmInv /\ [ShmNext]_shmVars => ShmInv'
  BY SharedHolds
<1>3. ShmInv => SameObject
  BY DEF ShmInv, SameObject, MappedWhole, Named, NamedWhileOwned
<1> QED BY <1>1, <1>2, <1>3, PTL DEF ShmSpec

-----------------------------------------------------------------------------
(* The value in shared memory *)

Newest == log[Len(log)]

InTime == "early" \notin mishaps

(* Whoever constructs the object is alone, and has it as it was made. *)
Alone ==
  /\ \A p \in Users : vpc[p] = "layout" => \A q \in Users : q # p => vpc[q] = "closed"
  /\ (\A p \in Users : vpc[p] \in {"closed", "layout"}) => ~lock /\ seq = 0 /\ log = <<>>

OneWriter == \A p \in Users : Critical(p) => lock /\ \A q \in Users : Critical(q) => q = p

(* The number counts the writes, twice, until it comes round. *)
Number ==
  /\ 2 * Len(log) < Modulus => seq \in {2 * Len(log), 2 * Len(log) + 1}
  /\ 2 * Len(log) = Modulus => seq \in {0, 1}
  /\ seq % 2 = 1 => lock /\ \A p \in Users : vpc[p] \notin {"wseq", "odd", "unlock"}
  /\ \A p \in Users :
       /\ vpc[p] = "odd" => base[p] = seq
       /\ vpc[p] = "store" => base[p] % 2 = 0 /\ seq = base[p] + 1

(* An even number says that the newest value is there, whole; as long as   *)
(* it is the one that a reader has seen, the words copied are of it.       *)
WholeNewest ==
  /\ seq % 2 = 0 /\ log # <<>> => \A i \in Words : data[i] = Newest
  /\ \A p \in Users :
       /\ vpc[p] = "odd" => todo[p] = Words
       /\ vpc[p] = "store" => \A i \in Words : i \notin todo[p] => data[i] = arg[p]
       /\ vpc[p] = "rcopy" =>
            /\ base[p] # 0 /\ (2 * Len(log) <= Modulus => base[p] <= 2 * Len(log))
            /\ seq = base[p] /\ 2 * Len(log) <= Modulus =>
                 \A i \in Words : i \notin todo[p] => copy[p][i] = Newest

ValueInv ==
  /\ ValueTypeOK
  /\ \A p \in Users : Writing(p) => arg[p] \in Msgs
  /\ InTime => Alone /\ OneWriter /\ Number
  /\ mishaps = {} => WholeNewest

-----------------------------------------------------------------------------
ValueStep(p) ==
  \/ CreateValue(p) \/ Attach(p) \/ ConstructLayout(p)
  \/ \E m \in Msgs : StartWrite(p, m)
  \/ StartRead(p) \/ WriteStep(p) \/ ReadStep(p) \/ Die(p)

(* What a step of p leaves alone: the locals of the others. *)
Spared(p) ==
  \A q \in Users : q # p => /\ vpc'[q] = vpc[q] /\ arg'[q] = arg[q] /\ base'[q] = base[q]
                           /\ todo'[q] = todo[q] /\ copy'[q] = copy[q]

LEMMA ValueStepSpares ==
  ASSUME ValueTypeOK, NEW p \in Users, ValueStep(p)
  PROVE  Spared(p) /\ mishaps \subseteq mishaps'
<1> USE DEF ValueTypeOK, Spared, Proceed, Return, object
<1>1. CASE CreateValue(p) \/ Attach(p) \/ ConstructLayout(p) \/ StartRead(p) \/ Die(p)
  BY <1>1 DEF CreateValue, Attach, ConstructLayout, StartRead, Die
<1>2. ASSUME NEW m \in Msgs, StartWrite(p, m) PROVE Spared(p) /\ mishaps \subseteq mishaps'
  BY <1>2 DEF StartWrite
<1>3. CASE WriteStep(p)
  BY <1>3 DEF WriteStep, AcquireLock, LoadBase, MarkOdd, StoreWord, MarkEven, ReleaseLock
<1>4. CASE ReadStep(p)
  BY <1>4 DEF ReadStep, NeverWritten, LoadSeq, CopyWord, AcceptValue, Retry
<1> QED BY <1>1, <1>2, <1>3, <1>4 DEF ValueStep

LEMMA Rounds ==
  ASSUME ValueAssumptions, NEW n \in Nat
  PROVE  /\ n % Modulus \in 0 .. Modulus - 1
         /\ n < Modulus => n % Modulus = n
         /\ n = Modulus => n % Modulus = 0
BY DEF ValueAssumptions

LEMMA Parities ==
  ASSUME ValueAssumptions, NEW n \in 0 .. Modulus - 1
  PROVE  /\ n % 2 = 0 => n + 1 < Modulus /\ (n + 1) % 2 = 1
         /\ n % 2 = 1 => n + 1 <= Modulus /\ (n + 1) % 2 = 0
         /\ n % 2 \in {0, 1}
BY DEF ValueAssumptions

LEMMA ReturnTypes ==
  ASSUME ValueAssumptions, ValueTypeOK, NEW p \in Users, Return(p)
  PROVE  /\ vpc' \in [Users -> PCs] /\ arg' \in [Users -> Msgs \cup {Unset}]
         /\ base' \in [Users -> 0 .. Modulus - 1] /\ todo' \in [Users -> SUBSET Words]
         /\ copy' \in [Users -> [Words -> Msgs \cup {Unset}]]
         /\ vpc'[p] = "idle"
BY DEF ValueAssumptions, ValueTypeOK, Return, Proceed, PCs, Blank

LEMMA ValueTypes ==
  ASSUME ValueAssumptions, ValueTypeOK, NEW p \in Users, ValueStep(p),
         Writing(p) => arg[p] \in Msgs
  PROVE  ValueTypeOK' /\ (Writing(p) => arg[p] \in Msgs)'
<1>0. Spared(p)
  BY ValueStepSpares
<1> USE DEF ValueTypeOK, Proceed, object, PCs, Writing
<1>1. CASE CreateValue(p) \/ Attach(p) \/ StartRead(p) \/ Die(p)
  BY ZenonT(60), <1>1 DEF CreateValue, Attach, StartRead, Die
<1>2. CASE ConstructLayout(p)
  <2>1. seq' \in 0 .. Modulus - 1 /\ data' \in [Words -> Msgs \cup {Unset}]
    BY <1>2 DEF ConstructLayout, ValueAssumptions, Blank
  <2>2. vpc' \in [Users -> PCs] /\ vpc'[p] = "idle"
    BY <1>2 DEF ConstructLayout
  <2> QED BY <1>2, <2>1, <2>2 DEF ConstructLayout
<1>3. ASSUME NEW m \in Msgs, StartWrite(p, m) PROVE ValueTypeOK' /\ (Writing(p) => arg[p] \in Msgs)'
  BY <1>3 DEF StartWrite
<1>4. CASE AcquireLock(p)
  BY <1>4 DEF AcquireLock
<1>5. CASE LoadBase(p)
  BY <1>5 DEF LoadBase
<1>6. CASE MarkOdd(p)
  <2>1. seq' \in 0 .. Modulus - 1
    BY <1>6, Rounds DEF MarkOdd
  <2> QED BY <1>6, <2>1 DEF MarkOdd
<1>7. ASSUME NEW i \in Words, StoreWord(p, i) PROVE ValueTypeOK' /\ (Writing(p) => arg[p] \in Msgs)'
  BY <1>7 DEF StoreWord
<1>8. CASE MarkEven(p)
  <2>1. seq' \in 0 .. Modulus - 1
    BY SMTT(30), <1>8, Rounds DEF MarkEven
  <2>2. log' \in Seq(Msgs)
    BY <1>8 DEF MarkEven
  <2> QED BY <1>8, <2>1, <2>2 DEF MarkEven
<1>9. CASE ReleaseLock(p) \/ NeverWritten(p) \/ AcceptValue(p)
  <2>1. Return(p)
    BY <1>9 DEF ReleaseLock, NeverWritten, AcceptValue
  <2>2. /\ vpc' \in [Users -> PCs] /\ arg' \in [Users -> Msgs \cup {Unset}]
        /\ base' \in [Users -> 0 .. Modulus - 1] /\ todo' \in [Users -> SUBSET Words]
        /\ copy' \in [Users -> [Words -> Msgs \cup {Unset}]]
        /\ vpc'[p] = "idle"
    BY <2>1, ReturnTypes
  <2>3. \A q \in Users : vpc'[q] = "rcopy" => base'[q] % 2 = 0
    BY ZenonT(60), <1>0, <2>2 DEF Spared
  <2>4. got' \in [Users -> [Words -> Msgs \cup {Unset}]]
    BY <1>9 DEF ReleaseLock, NeverWritten, AcceptValue
  <2>5. lock' \in BOOLEAN /\ seq' = seq /\ data' = data /\ log' = log /\ mishaps' = mishaps
    BY <1>9 DEF ReleaseLock, NeverWritten, AcceptValue
  <2> QED BY <2>2, <2>3, <2>4, <2>5
<1>11. CASE LoadSeq(p)
  BY <1>11 DEF LoadSeq
<1>12. ASSUME NEW i \in Words, CopyWord(p, i) PROVE ValueTypeOK' /\ (Writing(p) => arg[p] \in Msgs)'
  BY <1>12 DEF CopyWord
<1>13. CASE Retry(p)
  <2>1. base' \in [Users -> 0 .. Modulus - 1] /\ copy' \in [Users -> [Words -> Msgs \cup {Unset}]]
    BY <1>13 DEF Retry, ValueAssumptions, Blank
  <2> QED BY <1>13, <2>1 DEF Retry
<1> QED BY <1>1, <1>2, <1>3, <1>4, <1>5, <1>6, <1>7, <1>8, <1>9, <1>11, <1>12, <1>13
        DEF ValueStep, WriteStep, ReadStep

LEMMA ValueAlone ==
  ASSUME ValueInv, NEW p \in Users, ValueStep(p), InTime'
  PROVE  InTime /\ Alone' /\ OneWriter'
<1>1. Spared(p) /\ InTime
  BY ValueStepSpares DEF ValueInv, InTime
<1>2. Alone /\ OneWriter /\ ValueTypeOK
  BY <1>1 DEF ValueInv
<1>3. Alone'
  <2> USE <1>1, <1>2 DEF Alone, Spared, ValueTypeOK, Proceed, Return, object
  <2>1. CASE CreateValue(p)
    BY <2>1 DEF CreateValue
  <2>2. CASE Attach(p)
    BY <2>2 DEF Attach, InTime
  <2>3. CASE ConstructLayout(p)
    BY <2>3 DEF ConstructLayout
  <2>4. CASE \E m \in Msgs : StartWrite(p, m)
    BY <2>4 DEF StartWrite
  <2>5. CASE StartRead(p) \/ Die(p)
    BY ZenonT(120), <2>5 DEF StartRead, Die
  <2>6. CASE WriteStep(p)
    BY ZenonT(120), <2>6 DEF WriteStep, AcquireLock, LoadBase, MarkOdd, StoreWord, MarkEven, ReleaseLock
  <2>7. CASE ReadStep(p)
    BY ZenonT(120), <2>7 DEF ReadStep, NeverWritten, LoadSeq, CopyWord, AcceptValue, Retry
  <2> QED BY <2>1, <2>2, <2>3, <2>4, <2>5, <2>6, <2>7 DEF ValueStep
<1>4. OneWriter'
  <2> USE <1>1, <1>2 DEF OneWriter, Critical, Spared, ValueTypeOK, Proceed, Return, object
  <2>1. CASE CreateValue(p) \/ Attach(p)
    BY <2>1 DEF CreateValue, Attach
  <2>3. CASE ConstructLayout(p)
    BY <2>3 DEF ConstructLayout, Alone
  <2>4. CASE \E m \in Msgs : StartWrite(p, m)
    BY <2>4 DEF StartWrite
  <2>5. CASE StartRead(p) \/ Die(p)
    BY <2>5 DEF StartRead, Die
  <2>6. CASE WriteStep(p)
    BY <2>6 DEF WriteStep, AcquireLock, LoadBase, MarkOdd, StoreWord, MarkEven, ReleaseLock
  <2>7. CASE ReadStep(p)
    BY <2>7 DEF ReadStep, NeverWritten, LoadSeq, CopyWord, AcceptValue, Retry
  <2> QED BY <2>1, <2>3, <2>4, <2>5, <2>6, <2>7 DEF ValueStep
<1> QED BY <1>1, <1>3, <1>4

(* What the steps of a write do to the number. *)
LEMMA NumberSteps ==
  ASSUME ValueAssumptions, ValueTypeOK, Number, NEW p \in Users
  PROVE  /\ MarkOdd(p) => seq % 2 = 0 /\ seq' = seq + 1 /\ seq' % 2 = 1 /\ base[p] = seq
         /\ MarkEven(p) => /\ seq % 2 = 1 /\ seq' % 2 = 0
                           /\ seq' = IF seq + 1 = Modulus THEN 0 ELSE seq + 1
                           /\ Len(log') = Len(log) + 1 /\ log'[Len(log')] = arg[p] /\ log' # <<>>
<1>0. seq \in 0 .. Modulus - 1 /\ seq \in Nat /\ log \in Seq(Msgs)
  BY DEF ValueTypeOK, ValueAssumptions
<1>1. ASSUME MarkOdd(p) PROVE seq % 2 = 0 /\ seq' = seq + 1 /\ seq' % 2 = 1 /\ base[p] = seq
  <2>1. vpc[p] = "odd" /\ base[p] = seq /\ seq % 2 # 1 /\ seq' = (seq + 1) % Modulus
    BY <1>1 DEF MarkOdd, Number
  <2>2. seq % 2 = 0 /\ seq + 1 < Modulus /\ (seq + 1) % 2 = 1
    BY <1>0, <2>1, Parities
  <2> QED BY <1>0, <2>1, <2>2, Rounds
<1>2. ASSUME MarkEven(p)
      PROVE  /\ seq % 2 = 1 /\ seq' % 2 = 0
             /\ seq' = IF seq + 1 = Modulus THEN 0 ELSE seq + 1
             /\ Len(log') = Len(log) + 1 /\ log'[Len(log')] = arg[p] /\ log' # <<>>
  <2>1. base[p] % 2 = 0 /\ seq = base[p] + 1 /\ base[p] \in 0 .. Modulus - 1
    BY <1>2 DEF MarkEven, Number, ValueTypeOK
  <2>2. seq % 2 = 1
    BY <2>1, Parities
  <2>3. seq' = (seq + 1) % Modulus
    BY <1>2, <2>1 DEF MarkEven
  <2>4. seq + 1 <= Modulus /\ (seq + 1) % 2 = 0
    BY <1>0, <2>2, Parities
  <2>5. seq' = (IF seq + 1 = Modulus THEN 0 ELSE seq + 1) /\ seq' % 2 = 0
    <3>1. CASE seq + 1 = Modulus
      <4>1. (seq + 1) % Modulus = 0
        BY <1>0, <3>1, Rounds
      <4> QED BY <2>3, <3>1, <4>1
    <3>2. CASE seq + 1 < Modulus
      <4>1. (seq + 1) % Modulus = seq + 1
        BY <1>0, <3>2, Rounds
      <4> QED BY <2>3, <2>4, <3>2, <4>1
    <3> QED BY <1>0, <2>4, <3>1, <3>2 DEF ValueAssumptions
  <2>6. log' = Append(log, arg[p])
    BY <1>2 DEF MarkEven
  <2>7. Len(log') = Len(log) + 1 /\ log'[Len(log')] = arg[p] /\ log' # <<>>
    BY <1>0, <2>6
  <2> QED BY <2>2, <2>5, <2>7
<1> QED BY <1>1, <1>2

LEMMA EvenNumber ==
  ASSUME Number, seq % 2 = 0, Len(log) \in Nat
  PROVE  /\ 2 * Len(log) < Modulus => seq = 2 * Len(log)
         /\ 2 * Len(log) = Modulus => seq = 0
<1>1. /\ 2 * Len(log) < Modulus => seq \in {2 * Len(log), 2 * Len(log) + 1}
      /\ 2 * Len(log) = Modulus => seq \in {0, 1}
  BY DEF Number
<1>2. (2 * Len(log) + 1) % 2 = 1 /\ 1 % 2 = 1
  OBVIOUS
<1> QED BY <1>1, <1>2

LEMMA OddNumber ==
  ASSUME Number, seq % 2 = 1, Len(log) \in Nat
  PROVE  2 * Len(log) < Modulus => seq = 2 * Len(log) + 1
<1>1. 2 * Len(log) < Modulus => seq \in {2 * Len(log), 2 * Len(log) + 1}
  BY DEF Number
<1>2. (2 * Len(log)) % 2 = 0
  OBVIOUS
<1> QED BY <1>1, <1>2

(* The steps that neither touch the object nor publish. *)
Local(p) ==
  \/ CreateValue(p) \/ Attach(p) \/ StartRead(p) \/ Die(p)
  \/ (\E m \in Msgs : StartWrite(p, m))
  \/ NeverWritten(p) \/ LoadSeq(p) \/ (\E i \in Words : CopyWord(p, i))
  \/ AcceptValue(p) \/ Retry(p)

LEMMA LocalSteps ==
  ASSUME ValueTypeOK, NEW p \in Users, Local(p)
  PROVE  /\ lock' = lock /\ seq' = seq /\ data' = data /\ log' = log
         /\ vpc'[p] \notin {"wseq", "odd", "store", "unlock"}
         /\ vpc'[p] = "rcopy" => LoadSeq(p) \/ \E i \in Words : CopyWord(p, i)
<1> USE DEF ValueTypeOK, Proceed, Return, object
<1>1. CASE CreateValue(p) \/ Attach(p) \/ StartRead(p) \/ Die(p)
  BY <1>1 DEF CreateValue, Attach, StartRead, Die
<1>2. CASE \E m \in Msgs : StartWrite(p, m)
  BY <1>2 DEF StartWrite
<1>3. CASE NeverWritten(p) \/ AcceptValue(p) \/ Retry(p)
  BY <1>3 DEF NeverWritten, AcceptValue, Retry
<1>4. CASE LoadSeq(p)
  BY <1>4 DEF LoadSeq
<1>5. ASSUME NEW i \in Words, CopyWord(p, i)
      PROVE /\ lock' = lock /\ seq' = seq /\ data' = data /\ log' = log
            /\ vpc'[p] \notin {"wseq", "odd", "store", "unlock"}
  BY <1>5 DEF CopyWord
<1> QED BY <1>1, <1>2, <1>3, <1>4, <1>5 DEF Local

LEMMA ValueNumber ==
  ASSUME ValueAssumptions, ValueInv, NEW p \in Users, ValueStep(p), InTime
  PROVE  Number'
<1>1. /\ Spared(p) /\ ValueTypeOK /\ Len(log) \in Nat /\ log \in Seq(Msgs)
      /\ OneWriter /\ Alone /\ Number
  BY ValueStepSpares DEF ValueInv, ValueTypeOK
<1>2. CASE Local(p)
  BY <1>1, <1>2, LocalSteps DEF Number, Spared
<1>3. CASE ConstructLayout(p)
  <2>1. seq' = 0 /\ log' = log /\ log = <<>> /\ vpc'[p] = "idle"
    BY <1>1, <1>3 DEF ConstructLayout, Alone, Proceed, ValueTypeOK
  <2>2. \A q \in Users : vpc'[q] \notin {"odd", "store"}
    BY <1>1, <1>3, <2>1 DEF ConstructLayout, Alone, Spared
  <2> QED BY <2>1, <2>2 DEF Number, ValueAssumptions
<1> USE <1>1 DEF ValueTypeOK, Spared, Proceed
<1>4. CASE AcquireLock(p)
  <2>1. /\ seq' = seq /\ log' = log /\ ~lock /\ lock' = TRUE /\ vpc'[p] = "wseq"
    BY <1>4 DEF AcquireLock
  <2>2. seq % 2 # 1
    BY <2>1 DEF Number
  <2> QED BY <2>1, <2>2 DEF Number
<1>5. CASE LoadBase(p)
  <2>1. /\ seq' = seq /\ log' = log /\ lock' = lock /\ vpc[p] = "wseq" /\ vpc'[p] = "odd"
        /\ base'[p] = seq
    BY <1>5 DEF LoadBase, object
  <2> QED BY ZenonT(120), <2>1 DEF Number
<1>6. CASE MarkOdd(p)
  <2>1. /\ seq % 2 = 0 /\ seq' = seq + 1 /\ seq' % 2 = 1 /\ base[p] = seq
    BY <1>6, NumberSteps
  <2>2. /\ log' = log /\ lock' = lock /\ vpc[p] = "odd" /\ vpc'[p] = "store" /\ base' = base
    BY <1>6 DEF MarkOdd
  <2>3. lock /\ \A q \in Users : q # p => vpc'[q] \notin {"wseq", "odd", "store", "unlock"}
    BY <2>2 DEF OneWriter, Critical
  <2>4. /\ 2 * Len(log) < Modulus => seq = 2 * Len(log)
        /\ 2 * Len(log) = Modulus => seq = 0
    BY <1>1, <2>1, EvenNumber
  <2> QED BY <2>1, <2>2, <2>3, <2>4 DEF Number
<1>7. CASE \E i \in Words : StoreWord(p, i)
  <2>1. lock' = lock /\ seq' = seq /\ log' = log /\ vpc' = vpc /\ base' = base
    BY <1>7 DEF StoreWord
  <2> QED BY <2>1 DEF Number
<1>8. CASE MarkEven(p)
  <2>1. /\ seq % 2 = 1 /\ seq' % 2 = 0
        /\ seq' = IF seq + 1 = Modulus THEN 0 ELSE seq + 1
        /\ Len(log') = Len(log) + 1
    BY <1>8, NumberSteps
  <2>2. /\ lock' = lock /\ vpc[p] = "store" /\ vpc'[p] = "unlock"
    BY <1>8 DEF MarkEven
  <2>3. \A q \in Users : q # p => vpc'[q] \notin {"wseq", "odd", "store", "unlock"}
    BY <2>2 DEF OneWriter, Critical
  <2>4. 2 * Len(log) < Modulus => seq = 2 * Len(log) + 1
    BY <1>1, <2>1, OddNumber
  <2>5. /\ 2 * Len(log') < Modulus => seq' = 2 * Len(log')
        /\ 2 * Len(log') = Modulus => seq' = 0
    BY SMTT(30), <2>1, <2>4 DEF ValueAssumptions
  <2>6. \A q \in Users : vpc'[q] \notin {"odd", "store"}
    BY <2>2, <2>3
  <2>7. /\ 2 * Len(log') < Modulus => seq' \in {2 * Len(log'), 2 * Len(log') + 1}
        /\ 2 * Len(log') = Modulus => seq' \in {0, 1}
    BY <2>5
  <2>8. seq' % 2 # 1
    BY <2>1
  <2> HIDE DEF ValueTypeOK
  <2> QED BY <2>6, <2>7, <2>8 DEF Number
<1>9. CASE ReleaseLock(p)
  <2>1. /\ seq' = seq /\ log' = log /\ vpc[p] = "unlock" /\ vpc'[p] = "idle"
    BY <1>9 DEF ReleaseLock, Return
  <2>2. seq % 2 # 1
    BY <2>1 DEF Number
  <2> QED BY <2>1, <2>2 DEF Number
<1> QED BY <1>2, <1>3, <1>4, <1>5, <1>6, <1>7, <1>8, <1>9 DEF ValueStep, WriteStep, ReadStep, Local

LEMMA ValueWhole ==
  ASSUME ValueAssumptions, ValueInv, NEW p \in Users, ValueStep(p), mishaps' = {}
  PROVE  WholeNewest'
<1>1. /\ Spared(p) /\ ValueTypeOK /\ Len(log) \in Nat /\ log \in Seq(Msgs) /\ mishaps = {}
      /\ WholeNewest /\ Number /\ OneWriter /\ Alone
  <2>1. Spared(p) /\ mishaps = {}
    BY ValueStepSpares DEF ValueInv
  <2> QED BY <2>1 DEF ValueInv, ValueTypeOK, InTime
<1>2. CASE Local(p)
  <2>1. /\ lock' = lock /\ seq' = seq /\ data' = data /\ log' = log
        /\ vpc'[p] \notin {"wseq", "odd", "store", "unlock"}
        /\ vpc'[p] = "rcopy" => LoadSeq(p) \/ \E i \in Words : CopyWord(p, i)
    BY <1>1, <1>2, LocalSteps
  <2>2. ASSUME LoadSeq(p)
        PROVE  base'[p] # 0 /\ (2 * Len(log) <= Modulus => base'[p] <= 2 * Len(log))
               /\ todo'[p] = Words
    <3>1. seq # 0 /\ seq % 2 = 0 /\ base'[p] = seq /\ todo'[p] = Words /\ seq \in Nat
      BY <1>1, <2>2 DEF LoadSeq, ValueTypeOK, ValueAssumptions
    <3>2. 2 * Len(log) < Modulus => seq <= 2 * Len(log)
      BY <1>1, <3>1 DEF Number
    <3>3. 2 * Len(log) # Modulus
      BY <1>1, <3>1 DEF Number
    <3> QED BY <1>1, <3>1, <3>2, <3>3 DEF ValueAssumptions
  <2>3. ASSUME NEW j \in Words, CopyWord(p, j)
        PROVE  /\ vpc[p] = "rcopy" /\ base'[p] = base[p] /\ todo'[p] = todo[p] \ {j}
               /\ copy'[p] = [copy[p] EXCEPT ![j] = data[j]]
    BY <1>1, <2>3 DEF CopyWord, ValueTypeOK
  <2>4. ASSUME NEW j \in Words, CopyWord(p, j), seq = base[p], 2 * Len(log) <= Modulus,
               NEW i \in Words, i \notin todo'[p]
        PROVE  copy'[p][i] = Newest
    <3>1. seq % 2 = 0 /\ base[p] # 0 /\ base[p] <= 2 * Len(log)
      BY <1>1, <2>3, <2>4 DEF WholeNewest, ValueTypeOK
    <3>2. log # <<>>
      BY <1>1, <2>4, <3>1 DEF ValueTypeOK
    <3>3. data[i] = Newest
      BY <1>1, <3>1, <3>2 DEF WholeNewest
    <3>4. i \notin todo[p] => copy[p][i] = Newest
      BY <1>1, <2>3, <2>4 DEF WholeNewest
    <3>5. copy[p] \in [Words -> Msgs \cup {Unset}] /\ (i # j => i \notin todo[p])
      BY ZenonT(120), <1>1, <2>3, <2>4 DEF ValueTypeOK
    <3>6. i # j => copy'[p][i] = copy[p][i]
      BY <2>3, <3>5, <2>4
    <3>7. i = j => copy'[p][i] = data[i]
      BY <2>3, <3>5, <2>4
    <3> QED BY <3>3, <3>4, <3>5, <3>6, <3>7
  <2>5. Newest' = Newest
    BY <2>1 DEF Newest
  <2>6. vpc'[p] = "rcopy" =>
          /\ base'[p] # 0 /\ (2 * Len(log) <= Modulus => base'[p] <= 2 * Len(log))
          /\ seq = base'[p] /\ 2 * Len(log) <= Modulus =>
               \A i \in Words : i \notin todo'[p] => copy'[p][i] = Newest
    BY <1>1, <2>1, <2>2, <2>3, <2>4 DEF WholeNewest
  <2> QED BY <1>1, <2>1, <2>5, <2>6 DEF WholeNewest, Spared
<1>3. CASE ConstructLayout(p)
  <2>1. log' = log /\ log = <<>> /\ vpc'[p] = "idle"
    BY <1>1, <1>3 DEF ConstructLayout, Alone, Proceed, ValueTypeOK
  <2>2. \A q \in Users : vpc'[q] \notin {"odd", "store", "rcopy"}
    BY <1>1, <1>3, <2>1 DEF ConstructLayout, Alone, Spared
  <2> QED BY <2>1, <2>2 DEF WholeNewest
<1> USE DEF ValueTypeOK, Proceed
<1>4. CASE AcquireLock(p)
  <2>1. /\ seq' = seq /\ log' = log /\ data' = data /\ vpc'[p] = "wseq" /\ Newest' = Newest
    BY <1>1, <1>4 DEF AcquireLock, Newest
  <2> QED BY <1>1, <2>1 DEF WholeNewest, Spared
<1>5. CASE LoadBase(p)
  <2>1. /\ seq' = seq /\ log' = log /\ data' = data /\ vpc'[p] = "odd" /\ todo'[p] = Words
        /\ Newest' = Newest
    BY <1>1, <1>5 DEF LoadBase, object, Newest
  <2>2. \A q \in Users : vpc'[q] \in {"store", "rcopy"} => q # p
    BY <2>1
  <2> HIDE DEF ValueTypeOK, Newest
  <2>3. \A q \in Users : vpc'[q] = "odd" => todo'[q] = Words
    BY <1>1, <2>1 DEF WholeNewest, Spared
  <2>4. \A q \in Users : vpc'[q] = "rcopy" =>
          /\ base'[q] # 0 /\ (2 * Len(log') <= Modulus => base'[q] <= 2 * Len(log'))
          /\ seq' = base'[q] /\ 2 * Len(log') <= Modulus =>
               \A i \in Words : i \notin todo'[q] => copy'[q][i] = Newest'
    BY <1>1, <2>1, <2>2 DEF WholeNewest, Spared
  <2>5. \A q \in Users : vpc'[q] = "store" => \A i \in Words : i \notin todo'[q] => data'[i] = arg'[q]
    BY <1>1, <2>1, <2>2 DEF WholeNewest, Spared
  <2>6. seq' % 2 = 0 /\ log' # <<>> => \A i \in Words : data'[i] = Newest'
    BY <1>1, <2>1 DEF WholeNewest
  <2> QED BY <2>3, <2>4, <2>5, <2>6 DEF WholeNewest
<1>6. CASE MarkOdd(p)
  <2>1. /\ seq % 2 = 0 /\ seq' = seq + 1 /\ seq' % 2 = 1
    BY <1>1, <1>6, NumberSteps
  <2>2. /\ log' = log /\ data' = data /\ vpc[p] = "odd" /\ vpc'[p] = "store" /\ todo' = todo
        /\ base' = base /\ copy' = copy /\ Newest' = Newest
    BY <1>1, <1>6 DEF MarkOdd, Newest
  <2>3. \A i \in Words : i \in todo'[p]
    BY <1>1, <2>2 DEF WholeNewest
  <2>4. \A q \in Users : vpc'[q] = "rcopy" => vpc[q] = "rcopy" /\ seq' # base[q]
    BY <1>1, <2>1, <2>2 DEF Spared
  <2>5. \A q \in Users : vpc'[q] = "odd" => q # p
    BY <2>2
  <2> HIDE DEF ValueTypeOK, Newest
  <2>6. \A q \in Users : vpc'[q] = "odd" => todo'[q] = Words
    BY <1>1, <2>2, <2>5 DEF WholeNewest, Spared
  <2>7. \A q \in Users : vpc'[q] = "rcopy" =>
          base'[q] # 0 /\ (2 * Len(log') <= Modulus => base'[q] <= 2 * Len(log')) /\ seq' # base'[q]
    BY <1>1, <2>2, <2>4 DEF WholeNewest
  <2>8. \A q \in Users : vpc'[q] = "store" => \A i \in Words : i \notin todo'[q] => data'[i] = arg'[q]
    BY <1>1, <2>2, <2>3 DEF WholeNewest, Spared
  <2>9. seq' % 2 # 0
    BY <2>1
  <2> QED BY <2>6, <2>7, <2>8, <2>9 DEF WholeNewest
<1>7. ASSUME NEW j \in Words, StoreWord(p, j) PROVE WholeNewest'
  <2>1. vpc[p] = "store"
    BY <1>1, <1>7 DEF StoreWord
  <2>2. /\ seq' = seq /\ log' = log /\ vpc' = vpc /\ base' = base /\ copy' = copy /\ arg' = arg
        /\ todo'[p] = todo[p] \ {j} /\ data' = [data EXCEPT ![j] = arg[p]] /\ Newest' = Newest
    BY <1>1, <1>7 DEF StoreWord, Newest
  <2>3. \A i \in Words : i \notin todo'[p] => data'[i] = arg[p]
    BY <1>1, <2>1, <2>2 DEF WholeNewest
  <2>4. \A q \in Users : q # p => vpc[q] \notin {"odd", "store"}
    BY <1>1, <2>1 DEF OneWriter, Critical
  <2>5. seq % 2 = 1
    BY <1>1, <2>1, Parities DEF Number
  <2>6. \A q \in Users : vpc[q] = "rcopy" => todo'[q] = todo[q]
    BY <1>1, <2>1 DEF Spared
  <2> QED BY <1>1, <2>1, <2>2, <2>3, <2>4, <2>5, <2>6 DEF WholeNewest
<1>8. CASE MarkEven(p)
  <2>1. /\ seq' = IF seq + 1 = Modulus THEN 0 ELSE seq + 1
        /\ Len(log') = Len(log) + 1 /\ Newest' = arg[p] /\ seq % 2 = 1
    BY <1>1, <1>8, NumberSteps DEF Newest
  <2>2. /\ data' = data /\ vpc[p] = "store" /\ todo[p] = {} /\ vpc'[p] = "unlock"
        /\ base' = base
    BY <1>1, <1>8 DEF MarkEven
  <2>3. \A i \in Words : data'[i] = arg[p]
    BY <1>1, <2>2 DEF WholeNewest
  <2>4. \A q \in Users : q # p => vpc'[q] \notin {"odd", "store"}
    BY <1>1, <2>2 DEF OneWriter, Critical, Spared
  <2>5. 2 * Len(log) < Modulus => seq = 2 * Len(log) + 1
    BY <1>1, <2>1, OddNumber
  <2>6. ASSUME NEW q \in Users, vpc'[q] = "rcopy"
        PROVE  /\ base'[q] # 0 /\ (2 * Len(log') <= Modulus => base'[q] <= 2 * Len(log'))
               /\ 2 * Len(log') <= Modulus => seq' # base'[q]
    <3>1. vpc[q] = "rcopy" /\ base'[q] = base[q] /\ base[q] \in Nat
      BY <1>1, <2>2, <2>6 DEF Spared, ValueAssumptions
    <3>2. base[q] # 0 /\ (2 * Len(log) <= Modulus => base[q] <= 2 * Len(log))
      BY <1>1, <3>1 DEF WholeNewest
    <3>3. 2 * Len(log') <= Modulus => seq' = 0 \/ seq' = 2 * Len(log')
      BY <1>1, <2>1, <2>5 DEF ValueAssumptions
    <3> QED BY <1>1, <2>1, <3>1, <3>2, <3>3 DEF ValueAssumptions
  <2> QED BY <2>2, <2>3, <2>4, <2>6, <2>1 DEF WholeNewest
<1>9. CASE ReleaseLock(p)
  <2>1. /\ seq' = seq /\ log' = log /\ data' = data /\ vpc'[p] = "idle" /\ Newest' = Newest
    BY <1>1, <1>9 DEF ReleaseLock, Return, Newest
  <2>2. \A q \in Users : vpc'[q] \in {"odd", "store", "rcopy"} => q # p
    BY <2>1
  <2> HIDE DEF ValueTypeOK, Newest
  <2> QED BY <1>1, <2>1, <2>2 DEF WholeNewest, Spared
<1> QED BY <1>2, <1>3, <1>4, <1>5, <1>6, <1>7, <1>8, <1>9 DEF ValueStep, WriteStep, ReadStep, Local

LEMMA ValueHolds == ValueAssumptions /\ ValueInv /\ [ValueNext]_valueVars => ValueInv'
<1> SUFFICES ASSUME ValueAssumptions, ValueInv, [ValueNext]_valueVars PROVE ValueInv'
  OBVIOUS
<1>1. ASSUME NEW p \in Users, ValueStep(p) PROVE ValueInv'
  <2>1. ValueTypeOK' /\ (Writing(p) => arg[p] \in Msgs)'
    BY <1>1, ValueTypes DEF ValueInv
  <2>2. \A q \in Users : (Writing(q) => arg[q] \in Msgs)'
    BY <1>1, <2>1, ValueStepSpares DEF ValueInv, Spared, Writing
  <2>3. InTime' => InTime /\ Alone' /\ OneWriter'
    BY <1>1, ValueAlone
  <2>4. InTime' => Number'
    BY <1>1, <2>3, ValueNumber
  <2>5. (mishaps = {})' => WholeNewest'
    BY <1>1, ValueWhole
  <2> QED BY <2>1, <2>2, <2>3, <2>4, <2>5 DEF ValueInv
<1>2. CASE UNCHANGED valueVars
  BY <1>2 DEF valueVars, object, ValueInv, ValueTypeOK, Writing, InTime, Alone, OneWriter, Number,
              WholeNewest, Critical, Newest
<1> QED BY <1>1, <1>2 DEF ValueNext, ValueStep

(* A reader gets the value that was published last, whole, and is told     *)
(* that there is none only if none was ever published; for any number of   *)
(* processes, words and values, whoever dies and wherever, as long as the  *)
(* 32-bit number has not come round (shm.hpp:32-48).                       *)
THEOREM ValueLatest ==
  ASSUME ValueAssumptions
  PROVE  ValueSpec => LatestRead
<1>1. ValueInit => ValueInv
  <2> SUFFICES ASSUME ValueInit PROVE ValueInv
    OBVIOUS
  <2>1. ValueTypeOK
    <3>1. 0 \in 0 .. Modulus - 1 /\ log \in Seq(Msgs) /\ seq \in 0 .. Modulus - 1
      BY DEF ValueAssumptions, ValueInit
    <3>2. data \in [Words -> Msgs \cup {Unset}] /\ Blank \in [Words -> Msgs \cup {Unset}]
      BY DEF ValueInit, Blank
    <3>3. vpc \in [Users -> PCs] /\ \A p \in Users : vpc[p] = "closed"
      BY DEF ValueInit, PCs
    <3> QED BY <3>1, <3>2, <3>3 DEF ValueInit, ValueTypeOK
  <2>2. (\A p \in Users : vpc[p] = "closed") /\ seq = 0 /\ log = <<>> /\ ~lock
    BY DEF ValueInit
  <2>3. Alone /\ OneWriter /\ \A p \in Users : ~Writing(p)
    BY <2>2 DEF Alone, OneWriter, Critical, Writing
  <2>4. Number /\ WholeNewest
    BY <2>2 DEF Number, WholeNewest, ValueAssumptions
  <2> QED BY <2>1, <2>3, <2>4 DEF ValueInv
<1>2. ValueInv /\ [ValueNext]_valueVars => ValueInv'
  BY ValueHolds
<1>3. ValueInv /\ [ValueNext]_valueVars =>
        [\A p \in Users : vpc'[p] = "idle" =>
           /\ vpc[p] = "rcopy" /\ mishaps = {} /\ 2 * Len(log) <= Modulus =>
                log # <<>> /\ got'[p] = Whole(log[Len(log)])
           /\ vpc[p] = "rseq" /\ "early" \notin mishaps =>
                log = <<>> \/ 2 * Len(log) >= Modulus]_valueVars
  <2> SUFFICES ASSUME ValueInv, ValueNext, NEW p \in Users, vpc'[p] = "idle"
               PROVE  /\ vpc[p] = "rcopy" /\ mishaps = {} /\ 2 * Len(log) <= Modulus =>
                           log # <<>> /\ got'[p] = Whole(log[Len(log)])
                      /\ vpc[p] = "rseq" /\ "early" \notin mishaps =>
                           log = <<>> \/ 2 * Len(log) >= Modulus
    OBVIOUS
  <2>1. /\ ValueTypeOK /\ Len(log) \in Nat
        /\ InTime => Number
        /\ mishaps = {} => WholeNewest
    BY DEF ValueInv, ValueTypeOK, InTime
  <2>2. PICK q \in Users : ValueStep(q)
    BY DEF ValueNext, ValueStep
  <2>3. vpc[p] \in {"rcopy", "rseq"} => p = q
    BY <2>1, <2>2, ValueStepSpares DEF Spared
  <2>4. ASSUME vpc[p] = "rcopy", mishaps = {}, 2 * Len(log) <= Modulus
        PROVE  log # <<>> /\ got'[p] = Whole(log[Len(log)])
    <3>1. AcceptValue(p)
      BY <2>1, <2>2, <2>3, <2>4
         DEF ValueTypeOK, ValueStep, CreateValue, Attach, ConstructLayout, StartWrite, StartRead,
             WriteStep, AcquireLock, LoadBase, MarkOdd, StoreWord, MarkEven, ReleaseLock, ReadStep,
             NeverWritten, LoadSeq, CopyWord, Retry, Die, Proceed
    <3>2. /\ todo[p] = {} /\ seq = base[p] /\ got'[p] = copy[p]
      BY <2>1, <3>1 DEF AcceptValue, ValueTypeOK
    <3>3. /\ base[p] # 0 /\ base[p] <= 2 * Len(log)
          /\ \A i \in Words : copy[p][i] = Newest
      BY <2>1, <2>4, <3>2 DEF WholeNewest
    <3>4. log # <<>>
      BY <2>1, <3>3 DEF ValueTypeOK
    <3> QED BY <2>1, <3>2, <3>3, <3>4 DEF ValueTypeOK, Whole, Newest
  <2>5. ASSUME vpc[p] = "rseq", "early" \notin mishaps
        PROVE  log = <<>> \/ 2 * Len(log) >= Modulus
    <3>1. NeverWritten(p)
      BY <2>1, <2>2, <2>3, <2>5
         DEF ValueTypeOK, ValueStep, CreateValue, Attach, ConstructLayout, StartWrite, StartRead,
             WriteStep, AcquireLock, LoadBase, MarkOdd, StoreWord, MarkEven, ReleaseLock, ReadStep,
             AcceptValue, LoadSeq, CopyWord, Retry, Die, Proceed
    <3>2. seq = 0 /\ Number
      BY <2>1, <2>5, <3>1 DEF NeverWritten, InTime
    <3> QED BY <2>1, <3>2 DEF Number, ValueTypeOK, ValueAssumptions
  <2> QED BY <2>4, <2>5
<1>4. ValueSpec => []ValueInv
  BY <1>1, <1>2, PTL DEF ValueSpec
<1> QED BY <1>3, <1>4, PTL DEF ValueSpec, LatestRead

-----------------------------------------------------------------------------
(* FileSink *)

(* The newest byte that can be in the files. *)
Top == IF good THEN sent - Len(buffer) ELSE sent

(* The sink knows how long the file will be that it fills; the stream keeps *)
(* the newest bytes; after a failure it stays as it is until it is closed.  *)
Filling ==
  /\ good => /\ spc \in {"idle", "write"}
             /\ size = Len(Bytes(index)) + Len(buffer)
             /\ Len(buffer) <= sent
             /\ \A k \in 1 .. Len(buffer) : buffer[k] = (sent - Len(buffer)) + k
  /\ buffer # <<>> => healthy /\ spc \in {"idle", "write"} /\ (good \/ "failed" \in damage)
  /\ spc = "write" => good /\ healthy
  /\ sent + left <= MaxBytes
  /\ "again" \notin damage => /\ \A i \in DOMAIN disk : Len(disk[i]) <= MaxFileSize
                              /\ good => size <= MaxFileSize

(* The files are the newest ones, and the index is saved whenever a crash  *)
(* would not tear it from them.                                            *)
Windowed ==
  /\ spc \in {"rotate save", "expire"} => DOMAIN disk \subseteq index - MaxFiles .. index - 1
  /\ spc \notin {"rotate save", "expire"} => DOMAIN disk \subseteq index - MaxFiles + 1 .. index
  /\ spc \in {"open", "idle", "write", "expire", "reopen"} => saved = index
  /\ spc = "down" => saved = index \/ (saved = NoIndex /\ index = 0)

(* Files in order, d[i] being the bytes of file i. *)
Orderly(d) ==
  \A i, j \in DOMAIN d : \A k \in 1 .. Len(d[i]), l \in 1 .. Len(d[j]) :
    i < j \/ (i = j /\ k < l) => d[i][k] < d[j][l]

Has(d, b) == \E i \in DOMAIN d : \E k \in 1 .. Len(d[i]) : d[i][k] = b

Below(d, last) == \A b \in Nat : Has(d, b) => b <= last

Covers(d, first, last) == \A b \in Nat : Has(d, b) <=> first <= b /\ b <= last

Stored(d) == DOMAIN d \subseteq Nat /\ \A i \in DOMAIN d : d[i] \in Seq(Nat)

(* The newest byte of an unbroken tail. *)
Unbroken(last) == \E first \in 1 .. last + 1 : Covers(disk, first, last)

Indexed == "index" \notin damage /\ "torn" \notin damage

SinkInv ==
  /\ SinkTypeOK
  /\ Filling
  /\ Indexed => Windowed
  /\ Indexed /\ "again" \notin damage => Orderly(disk) /\ Below(disk, Top)
  /\ damage = {} => Unbroken(Top)
  /\ damage = {"failed"} =>
       ~good /\ healthy /\ spc = "idle" /\ \E last \in 0 .. sent : Unbroken(last)

-----------------------------------------------------------------------------
LEMMA NumbersAre ==
  ASSUME NEW n \in Nat, NEW q \in Seq(1 .. n)
  PROVE  /\ q \in Seq(Nat) /\ Len(q) \in Nat
         /\ \A k \in 1 .. Len(q) : q[k] \in 1 .. n /\ q[k] \in Nat
<1>1. Len(q) \in Nat /\ DOMAIN q = 1 .. Len(q) /\ \A k \in 1 .. Len(q) : q[k] \in 1 .. n
  BY LenProperties, ElementOfSeq
<1>2. q \in [1 .. Len(q) -> Nat]
  BY <1>1, LenProperties
<1> QED BY <1>1, <1>2, SeqDef

LEMMA GrownOrder ==
  ASSUME NEW d, NEW e, NEW i \in Nat, NEW n \in Nat, NEW s \in Nat,
         NEW old \in Seq(Nat), i \in DOMAIN d => d[i] = old, i \notin DOMAIN d => old = <<>>,
         Stored(d), \A j \in DOMAIN d : j <= i, Orderly(d), Below(d, s),
         DOMAIN e = DOMAIN d \cup {i}, \A j \in DOMAIN d : j # i => e[j] = d[j],
         Len(e[i]) = Len(old) + n,
         \A k \in 1 .. Len(old) : e[i][k] = old[k],
         \A k \in 1 .. n : e[i][Len(old) + k] = s + k
  PROVE  /\ Orderly(e) /\ Below(e, s + n)
         /\ \A first \in 1 .. s + 1 : Covers(d, first, s) => Covers(e, first, s + n)
<1>1. Len(old) \in Nat /\ Len(<<>>) = 0
  OBVIOUS
<1>2. \A j \in DOMAIN d : Len(d[j]) \in Nat /\ \A k \in 1 .. Len(d[j]) : d[j][k] \in Nat /\ d[j][k] <= s
  BY SMTT(30) DEF Stored, Below, Has
<1>3. \A k \in 1 .. Len(old) : i \in DOMAIN d /\ d[i] = old
  BY <1>1
<1>4. \A k \in 1 .. Len(e[i]) : k \in 1 .. Len(old) \/ k - Len(old) \in 1 .. n
  BY <1>1
<1>5. \A k \in 1 .. Len(e[i]) : k \notin 1 .. Len(old) => e[i][k] = s + (k - Len(old))
  <2> SUFFICES ASSUME NEW k \in 1 .. Len(e[i]), k \notin 1 .. Len(old)
               PROVE  e[i][k] = s + (k - Len(old))
    OBVIOUS
  <2>1. PICK l \in 1 .. n : k = Len(old) + l
    <3>1. k - Len(old) \in 1 .. n /\ k = Len(old) + (k - Len(old))
      BY <1>1, <1>4
    <3> QED BY <3>1
  <2> QED BY <1>1, <2>1
<1>6. Orderly(e)
  <2> SUFFICES ASSUME NEW j \in DOMAIN e, NEW m \in DOMAIN e, NEW k \in 1 .. Len(e[j]),
                      NEW l \in 1 .. Len(e[m]), j < m \/ (j = m /\ k < l)
               PROVE  e[j][k] < e[m][l]
    BY DEF Orderly
  <2>1. CASE m # i
    <3>1. j # i /\ j \in DOMAIN d /\ m \in DOMAIN d
      BY SMTT(30), <2>1 DEF Stored
    <3> QED BY <3>1, <2>1 DEF Orderly
  <2>2. CASE m = i /\ j # i
    <3>1. j \in DOMAIN d /\ e[j] = d[j] /\ d[j][k] \in Nat /\ d[j][k] <= s
      BY <2>2, <1>2
    <3>2. CASE l \in 1 .. Len(old)
      <4>1. i \in DOMAIN d /\ d[i] = old /\ e[i][l] = d[i][l] /\ l \in 1 .. Len(d[i])
        BY <3>2, <1>3
      <4> QED BY <3>1, <4>1, <2>2 DEF Orderly
    <3>3. CASE l \notin 1 .. Len(old)
      BY <1>1, <1>4, <1>5, <2>2, <3>1, <3>3
    <3> QED BY <3>2, <3>3
  <2>3. CASE m = i /\ j = i
    <3>1. CASE l \in 1 .. Len(old)
      <4>1. k \in 1 .. Len(old)
        BY <2>3, <3>1, <1>1
      <4>2. i \in DOMAIN d /\ d[i] = old
        BY <4>1, <1>3
      <4> QED BY <2>3, <3>1, <4>1, <4>2 DEF Orderly, Stored
    <3>2. CASE l \notin 1 .. Len(old) /\ k \in 1 .. Len(old)
      <4>1. e[i][k] <= s /\ e[i][k] \in Nat
        BY <3>2, <1>2, <1>3
      <4> QED BY SMTT(30), <1>1, <1>4, <1>5, <2>3, <3>2, <4>1
    <3>3. CASE l \notin 1 .. Len(old) /\ k \notin 1 .. Len(old)
      BY <1>1, <1>4, <1>5, <2>3, <3>3
    <3> QED BY <3>1, <3>2, <3>3, <2>3, <1>1
  <2> QED BY <2>1, <2>2, <2>3
<1>7. ASSUME NEW b \in Nat, Has(e, b) PROVE Has(d, b) \/ (s < b /\ b <= s + n)
  <2>0. PICK j \in DOMAIN e : \E k \in 1 .. Len(e[j]) : e[j][k] = b
    BY <1>7 DEF Has
  <2>1. PICK k \in 1 .. Len(e[j]) : j \in DOMAIN e /\ e[j][k] = b
    BY <2>0
  <2>2. CASE j # i
    <3>1. Has(d, b)
      BY <2>1, <2>2 DEF Has
    <3> QED BY <3>1
  <2>3. CASE j = i /\ k \in 1 .. Len(old)
    <3>1. Has(d, b)
      BY <2>1, <2>3, <1>3 DEF Has
    <3> QED BY <3>1
  <2>4. CASE j = i /\ k \notin 1 .. Len(old)
    BY <2>1, <2>4, <1>1, <1>4, <1>5
  <2> QED BY <2>2, <2>3, <2>4
<1>8. ASSUME NEW b \in Nat, Has(d, b) PROVE Has(e, b)
  <2>0. PICK j \in DOMAIN d : \E k \in 1 .. Len(d[j]) : d[j][k] = b
    BY <1>8 DEF Has
  <2>1. PICK k \in 1 .. Len(d[j]) : j \in DOMAIN d /\ d[j][k] = b
    BY <2>0
  <2>2. j \in DOMAIN e /\ k \in 1 .. Len(e[j]) /\ e[j][k] = b
    BY SMTT(30), <2>1, <1>1
  <2> QED BY <2>2 DEF Has
<1>9. ASSUME NEW b \in Nat, s < b, b <= s + n PROVE Has(e, b)
  <2>1. PICK l \in 1 .. n : b = s + l
    <3>1. b - s \in 1 .. n /\ b = s + (b - s)
      BY <1>9
    <3> QED BY <3>1
  <2>2. Len(old) + l \in 1 .. Len(e[i]) /\ e[i][Len(old) + l] = b
    BY <1>1, <2>1
  <2> QED BY <2>2 DEF Has
<1>10. Below(e, s + n)
  <2> SUFFICES ASSUME NEW b \in Nat, Has(e, b) PROVE b <= s + n
    BY DEF Below
  <2>1. Has(d, b) \/ (s < b /\ b <= s + n)
    BY <1>7
  <2>2. Has(d, b) => b <= s
    BY DEF Below
  <2> QED BY <2>1, <2>2
<1>11. ASSUME NEW first \in 1 .. s + 1, Covers(d, first, s) PROVE Covers(e, first, s + n)
  <2> SUFFICES ASSUME NEW b \in Nat PROVE Has(e, b) <=> first <= b /\ b <= s + n
    BY DEF Covers
  <2>1. Has(d, b) <=> first <= b /\ b <= s
    BY <1>11 DEF Covers
  <2> QED BY <1>7, <1>8, <1>9, <2>1
<1> QED BY <1>6, <1>10, <1>11

LEMMA ExpireSeamless ==
  ASSUME NEW d, NEW e, NEW m \in Nat, NEW s \in Nat, NEW first \in 1 .. s + 1,
         Stored(d), \A j \in DOMAIN d : m <= j, Orderly(d), Covers(d, first, s),
         DOMAIN e = DOMAIN d \ {m}, \A j \in DOMAIN e : e[j] = d[j]
  PROVE  Orderly(e) /\ \E f \in 1 .. s + 1 : Covers(e, f, s)
<1>1. Orderly(e)
  BY DEF Orderly, Stored
<1>2. \A b \in Nat : Has(e, b) => Has(d, b)
  BY DEF Has
<1>3. CASE m \notin DOMAIN d \/ Len(d[m]) = 0
  <2>1. \A b \in Nat : Has(d, b) => Has(e, b)
    BY <1>3 DEF Has
  <2> QED BY <1>1, <1>2, <2>1 DEF Covers
<1>4. CASE m \in DOMAIN d /\ Len(d[m]) # 0
  <2>1. Len(d[m]) \in Nat /\ Len(d[m]) \in 1 .. Len(d[m]) /\ d[m][Len(d[m])] \in Nat
    BY <1>4 DEF Stored
  <2> DEFINE last == d[m][Len(d[m])]
  <2>2. Has(d, last) /\ last \in Nat /\ first <= last /\ last <= s
    BY <1>4, <2>1 DEF Has, Covers
  <2>3. ASSUME NEW b \in Nat PROVE Has(e, b) <=> last + 1 <= b /\ b <= s
    <3>1. ASSUME Has(e, b) PROVE last + 1 <= b /\ b <= s
      <4>0. PICK j \in DOMAIN e : \E k \in 1 .. Len(e[j]) : e[j][k] = b
        BY <3>1 DEF Has
      <4>1. PICK k \in 1 .. Len(e[j]) : j \in DOMAIN e /\ e[j][k] = b
        BY <4>0
      <4>2. j \in DOMAIN d /\ m < j /\ k \in 1 .. Len(d[j]) /\ d[j][k] = b
        BY <4>1 DEF Stored
      <4>3. last < b
        BY <1>4, <2>1, <4>2 DEF Orderly
      <4>4. b <= s
        BY <3>1, <1>2 DEF Covers
      <4> QED BY <4>3, <4>4, <2>2
    <3>2. ASSUME last + 1 <= b, b <= s PROVE Has(e, b)
      <4>0. PICK j \in DOMAIN d : \E k \in 1 .. Len(d[j]) : d[j][k] = b
        <5>1. Has(d, b)
          BY <2>2, <3>2 DEF Covers
        <5> QED BY <5>1 DEF Has
      <4>1. PICK k \in 1 .. Len(d[j]) : j \in DOMAIN d /\ d[j][k] = b
        BY <4>0
      <4>2. ASSUME j = m PROVE FALSE
        <5>1. CASE k = Len(d[m])
          BY <4>1, <4>2, <5>1, <2>2, <3>2
        <5>2. CASE k < Len(d[m])
          <6>1. d[m][k] < last
            BY <4>1, <4>2, <5>2, <1>4, <2>1 DEF Orderly
          <6> QED BY <4>1, <4>2, <6>1, <2>2, <3>2
        <5> QED BY <4>1, <4>2, <5>1, <5>2, <2>1
      <4> QED BY <4>1, <4>2 DEF Has
    <3> QED BY <3>1, <3>2
  <2>4. last + 1 \in 1 .. s + 1
    BY <2>2
  <2> HIDE DEF last
  <2> QED BY <1>1, <2>3, <2>4 DEF Covers
<1> QED BY <1>3, <1>4

LEMMA ExpireOrder ==
  ASSUME NEW d, NEW e, NEW s \in Nat, Orderly(d), Below(d, s),
         DOMAIN e \subseteq DOMAIN d, \A j \in DOMAIN e : e[j] = d[j]
  PROVE  Orderly(e) /\ Below(e, s)
<1>1. Orderly(e)
  BY DEF Orderly
<1>2. \A b \in Nat : Has(e, b) => Has(d, b)
  BY DEF Has
<1> QED BY <1>1, <1>2 DEF Below

LEMMA PutIs ==
  ASSUME NEW i, NEW b, disk' = Put(i, b)
  PROVE  /\ DOMAIN disk' = DOMAIN disk \cup {i}
         /\ \A j \in DOMAIN disk : j # i => disk'[j] = disk[j]
         /\ disk'[i] = b
BY DEF Put

(* What Ascending and Seamless say of the places says it of the files. *)
LEMMA PlacesOrder ==
  ASSUME SinkAssumptions, SinkTypeOK, \A i \in DOMAIN disk : Len(disk[i]) <= MaxFileSize
  PROVE  /\ Orderly(disk) => Ascending
         /\ \A last \in Nat : Unbroken(last) => Seamless(last)
<1> DEFINE P == Places
<1>1. \A i \in DOMAIN disk : /\ i \in Nat /\ Len(disk[i]) \in Nat /\ Len(disk[i]) <= MaxFileSize
                            /\ \A k \in 1 .. Len(disk[i]) : disk[i][k] \in Nat
  <2>1. DOMAIN disk \subseteq Nat /\ MaxBytes \in Nat
        /\ \A i \in DOMAIN disk : disk[i] \in Seq(1 .. MaxBytes)
    BY DEF SinkTypeOK, SinkAssumptions
  <2> QED BY <2>1, NumbersAre
<1>2. \A i, k : <<i, k>> \in P <=> i \in DOMAIN disk /\ k \in 1 .. Len(disk[i])
  BY <1>1 DEF Places, SinkAssumptions
<1>3. \A x \in P : x[1] \in DOMAIN disk /\ x[2] \in 1 .. Len(disk[x[1]]) /\ x = <<x[1], x[2]>>
  BY <1>2 DEF Places
<1>4. Orderly(disk) => Ascending
  <2> SUFFICES ASSUME Orderly(disk), NEW x \in P, NEW y \in P, Before(x, y)
               PROVE  disk[x[1]][x[2]] < disk[y[1]][y[2]]
    BY DEF Ascending
  <2> HIDE DEF P
  <2> QED BY <1>3 DEF Orderly, Before
<1>5. ASSUME NEW last \in Nat, NEW first \in 1 .. last + 1, Covers(disk, first, last)
      PROVE  {disk[x[1]][x[2]] : x \in P} = first .. last
  <2>1. \A b : b \in {disk[x[1]][x[2]] : x \in P} <=> Has(disk, b)
    <3>1. ASSUME NEW b, Has(disk, b) PROVE b \in {disk[x[1]][x[2]] : x \in P}
      <4>1. PICK i \in DOMAIN disk : \E k \in 1 .. Len(disk[i]) : disk[i][k] = b
        BY <3>1 DEF Has
      <4>2. PICK k \in 1 .. Len(disk[i]) : disk[i][k] = b
        BY <4>1
      <4>3. <<i, k>> \in P /\ disk[<<i, k>>[1]][<<i, k>>[2]] = b
        BY <1>2, <4>2
      <4> HIDE DEF P
      <4> QED BY <4>3
    <3>2. ASSUME NEW x \in P PROVE Has(disk, disk[x[1]][x[2]])
      BY <1>3 DEF Has
    <3> HIDE DEF P
    <3> QED BY <3>1, <3>2
  <2>2. \A b : Has(disk, b) => b \in Nat
    <3>1. ASSUME NEW b, Has(disk, b) PROVE b \in Nat
      <4>1. PICK i \in DOMAIN disk : \E k \in 1 .. Len(disk[i]) : disk[i][k] = b
        BY <3>1 DEF Has
      <4> QED BY <1>1, <4>1
    <3> QED BY <3>1
  <2>3. \A b : b \in first .. last <=> b \in Nat /\ first <= b /\ b <= last
    OBVIOUS
  <2> HIDE DEF P
  <2> QED BY <1>5, <2>1, <2>2, <2>3 DEF Covers
<1> HIDE DEF P
<1> QED BY <1>4, <1>5 DEF Unbroken, Seamless, P

-----------------------------------------------------------------------------
(* What a step does to the files. *)
LEMMA Figures ==
  ASSUME SinkAssumptions, SinkTypeOK
  PROVE  /\ MaxBytes \in Nat /\ MaxFileSize \in Nat /\ MaxFiles \in Nat
         /\ index \in Nat /\ size \in Nat /\ left \in Nat /\ sent \in Nat /\ sent <= MaxBytes
         /\ buffer \in Seq(1 .. MaxBytes) /\ Len(buffer) \in Nat
         /\ Bytes(index) \in Seq(1 .. MaxBytes) /\ Bytes(index) \in Seq(Nat)
         /\ Len(Bytes(index)) \in Nat
<1>1. /\ MaxBytes \in Nat /\ MaxFileSize \in Nat /\ MaxFiles \in Nat
      /\ index \in Nat /\ size \in Nat /\ left \in Nat /\ sent \in 0 .. MaxBytes
      /\ buffer \in Seq(1 .. MaxBytes)
      /\ \A i \in DOMAIN disk : disk[i] \in Seq(1 .. MaxBytes)
  <2>1. MaxBytes \in Nat /\ MaxFileSize \in Nat /\ MaxFiles \in Nat
    BY DEF SinkAssumptions
  <2>2. /\ index \in Nat /\ size \in Nat /\ left \in Nat /\ sent \in 0 .. MaxBytes
        /\ buffer \in Seq(1 .. MaxBytes)
        /\ \A i \in DOMAIN disk : disk[i] \in Seq(1 .. MaxBytes)
    BY DEF SinkTypeOK
  <2> QED BY <2>1, <2>2
<1>2. Bytes(index) \in Seq(1 .. MaxBytes)
  BY <1>1, EmptySeq DEF Bytes
<1> QED BY <1>1, <1>2, NumbersAre

(* The file that is filled gets the first n of these bytes. *)
Grown(chunk, n) ==
  /\ DOMAIN disk' = DOMAIN disk \cup {index}
  /\ \A j \in DOMAIN disk : j # index => disk'[j] = disk[j]
  /\ disk'[index] \in Seq(1 .. MaxBytes)
  /\ Len(disk'[index]) = Len(Bytes(index)) + n
  /\ \A k \in 1 .. Len(Bytes(index)) : disk'[index][k] = Bytes(index)[k]
  /\ \A k \in 1 .. n : disk'[index][Len(Bytes(index)) + k] = chunk[k]

Gains(chunk, n) == (n = 0 /\ disk' = disk) \/ Grown(chunk, n)

LEMMA WrittenGains ==
  ASSUME SinkAssumptions, SinkTypeOK, NEW chunk \in Seq(1 .. MaxBytes), NEW n \in 0 .. Len(chunk),
         Written(chunk, n)
  PROVE  Gains(chunk, n)
<1>1. CASE n = 0
  BY <1>1 DEF Written, Gains
<1>2. CASE n # 0
  <2> DEFINE new == SubSeq(chunk, 1, n)
             old == Bytes(index)
             all == old \o new
  <2>1. n \in Nat /\ Len(chunk) \in Nat /\ n <= Len(chunk)
    OBVIOUS
  <2>2. \A k \in 1 .. n : chunk[k] \in 1 .. MaxBytes
    BY <2>1, NumbersAre DEF SinkAssumptions
  <2>3. new \in Seq(1 .. MaxBytes) /\ Len(new) = n /\ \A k \in 1 .. n : new[k] = chunk[k]
    BY <2>1, <2>2, SubSeqProperties
  <2>4. old \in Seq(1 .. MaxBytes) /\ Len(old) \in Nat
    BY Figures
  <2>5. disk' = Put(index, all)
    BY <1>2 DEF Written
  <2> HIDE DEF new, old
  <2>6. /\ all \in Seq(1 .. MaxBytes) /\ Len(all) = Len(old) + n
        /\ \A k \in 1 .. Len(old) + n : all[k] = IF k <= Len(old) THEN old[k] ELSE new[k - Len(old)]
    BY <2>3, <2>4, ConcatProperties
  <2> HIDE DEF all
  <2>7. \A k \in 1 .. Len(old) : all[k] = old[k]
    BY <2>1, <2>4, <2>6
  <2>8. \A k \in 1 .. n : all[Len(old) + k] = chunk[k]
    <3> SUFFICES ASSUME NEW k \in 1 .. n PROVE all[Len(old) + k] = chunk[k]
      OBVIOUS
    <3>1. /\ Len(old) + k \in 1 .. Len(old) + n /\ ~(Len(old) + k <= Len(old))
          /\ Len(old) + k - Len(old) = k
      BY <2>1, <2>4
    <3>2. all[Len(old) + k] = new[k]
      BY <2>6, <3>1
    <3> QED BY <2>3, <3>2
  <2>9. /\ DOMAIN disk' = DOMAIN disk \cup {index}
        /\ \A j \in DOMAIN disk : j # index => disk'[j] = disk[j]
        /\ disk'[index] = all
    BY <2>5, PutIs
  <2> QED BY <2>6, <2>7, <2>8, <2>9 DEF Gains, Grown, old
<1> QED BY <1>1, <1>2

(* The files are of their type after they have grown. *)
LEMMA GainsFit ==
  ASSUME SinkAssumptions, SinkTypeOK, NEW chunk, NEW n \in Nat, Gains(chunk, n)
  PROVE  /\ DOMAIN disk' \subseteq Nat
         /\ \A i \in DOMAIN disk' : disk'[i] \in Seq(1 .. MaxBytes)
         /\ Len(IF index \in DOMAIN disk' THEN disk'[index] ELSE <<>>) = Len(Bytes(index)) + n
         /\ (\A i \in DOMAIN disk : Len(disk[i]) <= MaxFileSize) /\ Len(Bytes(index)) + n <= MaxFileSize
              => \A i \in DOMAIN disk' : Len(disk'[i]) <= MaxFileSize
<1>1. /\ index \in Nat /\ DOMAIN disk \subseteq Nat /\ Len(Bytes(index)) \in Nat
      /\ \A i \in DOMAIN disk : disk[i] \in Seq(1 .. MaxBytes)
  BY Figures DEF SinkTypeOK
<1>2. CASE n = 0 /\ disk' = disk
  BY <1>1, <1>2 DEF Bytes
<1>3. CASE Grown(chunk, n)
  <2>1. \A i \in DOMAIN disk' : i # index => i \in DOMAIN disk /\ disk'[i] = disk[i]
    BY <1>3 DEF Grown
  <2>2. DOMAIN disk' = DOMAIN disk \cup {index} /\ disk'[index] \in Seq(1 .. MaxBytes)
        /\ Len(disk'[index]) = Len(Bytes(index)) + n
    BY <1>3 DEF Grown
  <2> QED BY <1>1, <2>1, <2>2
<1> QED BY <1>2, <1>3 DEF Gains

(* ... and in order, if what they gain follows on what they had. *)
LEMMA GainsOrder ==
  ASSUME SinkAssumptions, SinkTypeOK, NEW chunk, NEW n \in Nat, Gains(chunk, n), NEW s \in Nat,
         \A k \in 1 .. n : chunk[k] = s + k, \A j \in DOMAIN disk : j <= index,
         Orderly(disk), Below(disk, s)
  PROVE  /\ Orderly(disk') /\ Below(disk', s + n)
         /\ \A first \in 1 .. s + 1 : Covers(disk, first, s) => Covers(disk', first, s + n)
<1>1. CASE n = 0 /\ disk' = disk
  <2>1. s + n = s
    BY <1>1
  <2> QED BY <1>1, <2>1
<1>2. CASE Grown(chunk, n)
  <2> DEFINE d == disk
             e == disk'
             old == Bytes(index)
  <2>1. /\ DOMAIN e = DOMAIN d \cup {index} /\ \A j \in DOMAIN d : j # index => e[j] = d[j]
        /\ Len(e[index]) = Len(old) + n
        /\ \A k \in 1 .. Len(old) : e[index][k] = old[k]
        /\ \A k \in 1 .. n : e[index][Len(old) + k] = s + k
    BY <1>2 DEF Grown
  <2>2. Stored(d)
    <3>1. DOMAIN d \subseteq Nat /\ \A i \in DOMAIN d : d[i] \in Seq(1 .. MaxBytes)
      BY DEF SinkTypeOK
    <3> QED BY <3>1, Figures, NumbersAre DEF Stored
  <2>3. /\ Orderly(d) /\ Below(d, s) /\ \A j \in DOMAIN d : j <= index
        /\ (index \in DOMAIN d => d[index] = old) /\ (index \notin DOMAIN d => old = <<>>)
    BY DEF Bytes
  <2>4. old \in Seq(Nat) /\ index \in Nat
    BY Figures
  <2> HIDE DEF d, e, old
  <2>5. /\ Orderly(e) /\ Below(e, s + n)
        /\ \A first \in 1 .. s + 1 : Covers(d, first, s) => Covers(e, first, s + n)
    BY ZenonT(60), <2>1, <2>2, <2>3, <2>4, GrownOrder
  <2> QED BY <2>5 DEF d, e
<1> QED BY <1>1, <1>2 DEF Gains

-----------------------------------------------------------------------------
(* The steps that leave the files alone. *)
Calm == Start \/ SaveIndex \/ (\E n \in Sizes : Write(n)) \/ WriteReturns

LEMMA CalmSteps ==
  ASSUME SinkAssumptions, SinkTypeOK, Filling, Calm
  PROVE  /\ disk' = disk /\ sent' = sent /\ buffer' = buffer /\ good' = good
         /\ damage' = damage \/ (damage' = damage \cup {"index"} /\ ~good)
         /\ SinkTypeOK' /\ Filling'
<1>1. /\ disk' = disk /\ sent' = sent /\ buffer' = buffer /\ good' = good /\ size' = size
      /\ good => index' = index
      /\ index' \in Nat /\ saved' \in Nat \cup {NoIndex} /\ healthy' \in BOOLEAN /\ left' \in Nat
      /\ spc' \in {"down", "save", "open", "idle", "write", "rotate save", "expire", "reopen"}
      /\ damage' = damage \/ (damage' = damage \cup {"index"} /\ ~good)
      /\ sent + left' <= MaxBytes
      /\ buffer # <<>> => healthy'
      /\ spc' = "write" => good /\ healthy'
      /\ good => spc' \in {"idle", "write"}
      /\ buffer # <<>> => spc' \in {"idle", "write"}
  <2> USE DEF SinkTypeOK, Filling, files, SinkAssumptions
  <2>2. CASE Start
    BY <2>2 DEF Start, NoIndex
  <2>3. CASE SaveIndex
    BY <2>3 DEF SaveIndex
  <2>4. CASE \E n \in Sizes : Write(n)
    BY <2>4 DEF Write
  <2>5. CASE WriteReturns
    BY <2>5 DEF WriteReturns
  <2> QED BY <2>2, <2>3, <2>4, <2>5 DEF Calm
<1>2. SinkTypeOK'
  <2>1. damage' \subseteq Faults
    BY <1>1 DEF SinkTypeOK, Faults
  <2> QED BY <1>1, <2>1 DEF SinkTypeOK
<1>3. good => Bytes(index)' = Bytes(index)
  BY <1>1 DEF Bytes
<1>4. Filling'
  <2>1. /\ "again" \notin damage' => "again" \notin damage
        /\ "failed" \in damage => "failed" \in damage'
    BY <1>1
  <2>2. /\ good' => /\ size' = Len(Bytes(index)') + Len(buffer') /\ Len(buffer') <= sent'
                    /\ \A k \in 1 .. Len(buffer') : buffer'[k] = (sent' - Len(buffer')) + k
    BY <1>1, <1>3 DEF Filling
  <2>3. sent' + left' <= MaxBytes
    BY <1>1
  <2>4. good' => spc' \in {"idle", "write"}
    BY <1>1
  <2>5. buffer' # <<>> => healthy' /\ spc' \in {"idle", "write"} /\ (good' \/ "failed" \in damage')
    BY <1>1, <2>1 DEF Filling
  <2>6. spc' = "write" => good' /\ healthy'
    BY <1>1
  <2>7. "again" \notin damage' => /\ \A i \in DOMAIN disk' : Len(disk'[i]) <= MaxFileSize
                                  /\ good' => size' <= MaxFileSize
    BY <1>1, <2>1 DEF Filling
  <2> QED BY <2>2, <2>3, <2>4, <2>5, <2>6, <2>7 DEF Filling
<1> QED BY <1>1, <1>2, <1>4

LEMMA OpenSteps ==
  ASSUME SinkAssumptions, SinkTypeOK, Filling, OpenFile
  PROVE  /\ Gains(<<>>, 0) /\ ~good
         /\ sent' = sent /\ buffer' = <<>> /\ damage' = damage
         /\ SinkTypeOK' /\ Filling'
<1>1. /\ sent' = sent /\ damage' = damage /\ index' = index /\ saved' = saved /\ buffer' = buffer
      /\ spc \in {"open", "reopen"} /\ spc' \in {"write", "idle"} /\ left' \in {0, left}
      /\ spc' = "write" => healthy'
  BY DEF OpenFile
<1>2. ~good /\ buffer = <<>> /\ Len(buffer) = 0
  BY <1>1, EmptySeq DEF Filling
<1>3. /\ index \in Nat /\ Len(Bytes(index)) \in Nat /\ MaxBytes \in Nat /\ sent \in Nat
      /\ left' \in Nat /\ sent + left' <= MaxBytes
  BY <1>1, Figures DEF Filling
<1>4. CASE /\ disk' = Put(index, Bytes(index)) /\ size' = Len(Bytes(index)) /\ good' = TRUE
           /\ healthy' = healthy
  <2>1. Grown(<<>>, 0)
    <3>1. /\ DOMAIN disk' = DOMAIN disk \cup {index}
          /\ \A j \in DOMAIN disk : j # index => disk'[j] = disk[j]
          /\ disk'[index] = Bytes(index)
      BY <1>4, PutIs
    <3> QED BY <1>3, <3>1, Figures DEF Grown
  <2>2. /\ DOMAIN disk' \subseteq Nat
        /\ \A i \in DOMAIN disk' : disk'[i] \in Seq(1 .. MaxBytes)
        /\ Len(Bytes(index)') = Len(Bytes(index)) + 0
        /\ (\A i \in DOMAIN disk : Len(disk[i]) <= MaxFileSize) /\ Len(Bytes(index)) + 0 <= MaxFileSize
              => \A i \in DOMAIN disk' : Len(disk'[i]) <= MaxFileSize
    <3>1. Bytes(index)' = IF index \in DOMAIN disk' THEN disk'[index] ELSE <<>>
      BY <1>1 DEF Bytes
    <3> QED BY <2>1, <3>1, GainsFit DEF Gains
  <2>3. SinkTypeOK'
    BY <1>1, <1>3, <1>4, <2>2 DEF SinkTypeOK
  <2>4. "again" \notin damage => /\ \A i \in DOMAIN disk' : Len(disk'[i]) <= MaxFileSize
                                 /\ Len(Bytes(index)) <= MaxFileSize
    <3>1. "again" \notin damage => \A i \in DOMAIN disk : Len(disk[i]) <= MaxFileSize
      BY DEF Filling
    <3>2. "again" \notin damage => Len(Bytes(index)) <= MaxFileSize
      BY <3>1, Figures DEF Bytes
    <3> QED BY <1>3, <2>2, <3>1, <3>2
  <2>5. Filling'
    <3>1. /\ buffer' = <<>> /\ Len(buffer') = 0 /\ size' = Len(Bytes(index)') + Len(buffer')
          /\ sent' + left' <= MaxBytes
      <4>1. sent' + left' <= MaxBytes
        BY <1>1, <1>3
      <4>2. size' = Len(Bytes(index)') + 0
        BY <1>3, <1>4, <2>2
      <4> QED BY <1>1, <1>2, <4>1, <4>2
    <3>2. good' => /\ Len(buffer') <= sent'
                   /\ \A k \in 1 .. Len(buffer') : buffer'[k] = (sent' - Len(buffer')) + k
      BY <1>1, <1>3, <3>1
    <3>3. "again" \notin damage' => /\ \A i \in DOMAIN disk' : Len(disk'[i]) <= MaxFileSize
                                    /\ good' => size' <= MaxFileSize
      BY <1>1, <1>4, <2>4
    <3>4. spc' = "write" => good' /\ healthy'
      BY <1>1, <1>4
    <3> QED BY <1>1, <3>1, <3>2, <3>3, <3>4 DEF Filling
  <2> QED BY <1>1, <1>2, <2>1, <2>3, <2>5 DEF Gains
<1>5. CASE /\ good' = FALSE /\ healthy' = FALSE /\ size' = 0 /\ disk' = disk /\ spc' = "idle"
  <2>1. SinkTypeOK'
    BY <1>1, <1>3, <1>5 DEF SinkTypeOK
  <2>2. Filling'
    BY <1>1, <1>2, <1>3, <1>5 DEF Filling
  <2> QED BY <1>1, <1>2, <1>5, <2>1, <2>2 DEF Gains
<1> QED BY <1>4, <1>5 DEF OpenFile

LEMMA ExpireSteps ==
  ASSUME SinkAssumptions, SinkTypeOK, Filling, Expire
  PROVE  /\ \/ disk' = disk /\ index < MaxFiles
            \/ /\ index - MaxFiles \in Nat /\ DOMAIN disk' = DOMAIN disk \ {index - MaxFiles}
               /\ \A j \in DOMAIN disk' : disk'[j] = disk[j]
         /\ sent' = sent /\ buffer' = <<>> /\ ~good /\ ~good' /\ damage' = damage
         /\ SinkTypeOK' /\ Filling'
<1>1. /\ sent' = sent /\ index' = index /\ damage' = damage /\ saved' = saved
      /\ spc = "expire" /\ spc' = "reopen" /\ size' = 0 /\ healthy' = healthy /\ good' = good
      /\ buffer' = buffer /\ left' = left
  BY DEF Expire
<1>2. ~good /\ buffer = <<>> /\ sent + left <= MaxBytes
  BY <1>1 DEF Filling
<1>3. \/ disk' = disk /\ index < MaxFiles
      \/ /\ index - MaxFiles \in Nat /\ DOMAIN disk' = DOMAIN disk \ {index - MaxFiles}
         /\ \A j \in DOMAIN disk' : disk'[j] = disk[j]
  BY Figures DEF Expire
<1>4. DOMAIN disk' \subseteq DOMAIN disk /\ \A j \in DOMAIN disk' : disk'[j] = disk[j]
  BY <1>3
<1>5. SinkTypeOK'
  BY <1>1, <1>4 DEF SinkTypeOK
<1>6. Filling'
  BY <1>1, <1>2, <1>4 DEF Filling
<1> QED BY <1>1, <1>2, <1>3, <1>5, <1>6

LEMMA CrashSteps ==
  ASSUME SinkAssumptions, SinkTypeOK, Filling, SinkCrash
  PROVE  /\ disk' = disk /\ sent' = sent /\ ~good'
         /\ damage' = damage \cup {"torn"} \/ damage' = damage \cup {"crash"}
         /\ SinkTypeOK' /\ Filling'
<1>1. /\ disk' = disk /\ index' = index /\ saved' = saved /\ sent' = sent /\ spc' = "down"
      /\ healthy' = FALSE /\ good' = FALSE /\ size' = 0 /\ buffer' = <<>> /\ left' = 0
      /\ damage' = damage \cup {IF spc \in {"save", "rotate save", "expire"} THEN "torn" ELSE "crash"}
  BY DEF SinkCrash, files
<1>2. damage' = damage \cup {"torn"} \/ damage' = damage \cup {"crash"}
  BY <1>1
<1>3. SinkTypeOK'
  <2>1. damage' \subseteq Faults
    BY <1>2 DEF SinkTypeOK, Faults
  <2>2. buffer' \in Seq(1 .. MaxBytes) /\ left' \in Nat /\ size' \in Nat
    BY <1>1, EmptySeq
  <2> QED BY <1>1, <2>1, <2>2 DEF SinkTypeOK
<1>4. Filling'
  <2>1. sent + 0 <= MaxBytes
    BY Figures
  <2> QED BY <1>1, <2>1 DEF Filling
<1> QED BY <1>1, <1>2, <1>3, <1>4

-----------------------------------------------------------------------------
(* The steps of the stream. *)

(* They write the next n bytes; those that are lost are lost with a fault. *)
Flows(n) ==
  LET s == sent - Len(buffer) IN
  /\ \E chunk : Gains(chunk, n) /\ \A k \in 1 .. n : chunk[k] = s + k
  /\ s + n <= Top' /\ Top' \in Nat /\ s + n <= sent'
  /\ \/ Top' = s + n
     \/ "lost" \in damage'
     \/ "failed" \in damage' /\ ~good' /\ healthy' /\ spc' = "idle"

LEMMA ClosedGains ==
  ASSUME SinkAssumptions, SinkTypeOK, NEW kinds \in SUBSET Faults, Closed(kinds)
  PROVE  /\ \E n \in 0 .. Len(buffer) :
              /\ Gains(buffer, n) /\ Written(buffer, n)
              /\ \/ n = Len(buffer) /\ damage' = damage \cup kinds
                 \/ damage' = damage \cup kinds \cup {"lost"}
         /\ buffer' = <<>> /\ good' = FALSE /\ damage' \subseteq Faults
<1>1. buffer \in Seq(1 .. MaxBytes) /\ Len(buffer) \in Nat
  BY Figures
<1>2. buffer' = <<>> /\ good' = FALSE
  BY DEF Closed
<1>3. CASE Written(buffer, Len(buffer)) /\ damage' = damage \cup kinds
  <2>1. Gains(buffer, Len(buffer)) /\ Len(buffer) \in 0 .. Len(buffer)
    BY <1>1, <1>3, WrittenGains
  <2> QED BY <1>2, <1>3, <2>1 DEF SinkTypeOK
<1>4. CASE /\ \E n \in 0 .. Len(buffer) - 1 : Written(buffer, n)
           /\ damage' = damage \cup kinds \cup {"lost"}
  <2>1. PICK n \in 0 .. Len(buffer) - 1 : Written(buffer, n)
    BY <1>4
  <2>2. n \in 0 .. Len(buffer)
    BY <1>1
  <2>3. Gains(buffer, n)
    BY <1>1, <2>1, <2>2, WrittenGains
  <2>4. damage' \subseteq Faults
    BY <1>4 DEF SinkTypeOK, Faults
  <2> QED BY <1>2, <1>4, <2>1, <2>2, <2>3, <2>4
<1> QED BY <1>3, <1>4 DEF Closed

(* The stream is closed: nothing is left in it. *)
LEMMA ClosingSteps ==
  ASSUME SinkAssumptions, SinkTypeOK, Filling, Rotate \/ CloseSink
  PROVE  /\ sent' = sent /\ damage \subseteq damage' /\ ~good'
         /\ good => \E n \in Nat : Flows(n)
         /\ ~good => "again" \in damage' \/ disk' = disk
         /\ "failed" \in damage' => "failed" \in damage
         /\ ~good /\ healthy => "again" \in damage'
         /\ SinkTypeOK' /\ Filling'
<1>1. PICK kinds \in SUBSET Faults : /\ Closed(kinds) /\ "failed" \notin kinds
                                     /\ ~good /\ healthy => "again" \in kinds
  <2>1. CASE Rotate
    <3>1. good /\ (Closed({}) \/ Closed({"index"}))
      BY <2>1 DEF Rotate, Filling
    <3>2. {} \in SUBSET Faults /\ {"index"} \in SUBSET Faults /\ "failed" \notin {"index"}
      BY DEF Faults
    <3> QED BY <3>1, <3>2
  <2>2. CASE CloseSink
    <3>1. Closed(IF healthy /\ ~good THEN {"again"} ELSE {})
      BY <2>2 DEF CloseSink
    <3>2. (IF healthy /\ ~good THEN {"again"} ELSE {}) \in SUBSET Faults
      BY DEF Faults
    <3>3. "failed" \notin (IF healthy /\ ~good THEN {"again"} ELSE {})
      OBVIOUS
    <3> QED BY <3>1, <3>2, <3>3
  <2> QED BY <2>1, <2>2
<1>2. /\ \E n \in 0 .. Len(buffer) :
           /\ Gains(buffer, n) /\ Written(buffer, n)
           /\ \/ n = Len(buffer) /\ damage' = damage \cup kinds
              \/ damage' = damage \cup kinds \cup {"lost"}
      /\ buffer' = <<>> /\ good' = FALSE /\ damage' \subseteq Faults
  <2>1. \A k \in SUBSET Faults :
          Closed(k) => /\ \E n \in 0 .. Len(buffer) :
                            /\ Gains(buffer, n) /\ Written(buffer, n)
                            /\ \/ n = Len(buffer) /\ damage' = damage \cup k
                               \/ damage' = damage \cup k \cup {"lost"}
                       /\ buffer' = <<>> /\ good' = FALSE /\ damage' \subseteq Faults
    BY ClosedGains
  <2>2. kinds \in SUBSET Faults /\ Closed(kinds)
    BY <1>1
  <2> QED BY <2>1, <2>2
<1>3. PICK n \in 0 .. Len(buffer) :
        /\ Gains(buffer, n) /\ Written(buffer, n)
        /\ \/ n = Len(buffer) /\ damage' = damage \cup kinds
           \/ damage' = damage \cup kinds \cup {"lost"}
  BY <1>2
<1>4. buffer' = <<>> /\ good' = FALSE /\ damage' \subseteq Faults /\ Len(<<>>) = 0
  BY <1>2, EmptySeq
<1>5. /\ sent' = sent /\ left' = left
      /\ index' \in {index, index + 1} /\ saved' \in {saved, NoIndex} /\ healthy' \in {healthy, FALSE}
      /\ size' \in {size, 0} /\ spc' \in {"rotate save", "expire", "down"}
  BY DEF Rotate, CloseSink
<1>6. /\ damage \subseteq damage' /\ ("failed" \in damage' => "failed" \in damage)
      /\ ~good /\ healthy => "again" \in damage'
  <2>1. damage' = damage \cup kinds \/ damage' = damage \cup kinds \cup {"lost"}
    BY <1>3
  <2>2. "failed" \notin kinds /\ (~good /\ healthy => "again" \in kinds)
    BY <1>1
  <2> QED BY <2>1, <2>2
<1>7. n \in Nat /\ sent \in Nat /\ Len(buffer) \in Nat /\ n <= Len(buffer) /\ Len(Bytes(index)) \in Nat
      /\ index + 1 \in Nat
  BY <1>3, Figures
<1>8. good => Flows(n)
  <2> SUFFICES ASSUME good PROVE Flows(n)
    OBVIOUS
  <2>1. Top' = sent
    BY <1>4, <1>5 DEF Top
  <2>2. Len(buffer) <= sent /\ \A k \in 1 .. Len(buffer) : buffer[k] = (sent - Len(buffer)) + k
    BY DEF Filling
  <2>3. \A k \in 1 .. n : buffer[k] = (sent - Len(buffer)) + k
    BY <1>7, <2>2
  <2>4. (sent - Len(buffer)) + n <= sent /\ (n = Len(buffer) => sent = (sent - Len(buffer)) + n)
    BY <1>7, <2>2
  <2> QED BY <1>3, <1>5, <1>7, <2>1, <2>3, <2>4 DEF Flows
<1>9. /\ DOMAIN disk' \subseteq Nat
      /\ \A i \in DOMAIN disk' : disk'[i] \in Seq(1 .. MaxBytes)
      /\ (\A i \in DOMAIN disk : Len(disk[i]) <= MaxFileSize) /\ Len(Bytes(index)) + n <= MaxFileSize
              => \A i \in DOMAIN disk' : Len(disk'[i]) <= MaxFileSize
  BY <1>3, <1>7, GainsFit
<1>10. ~good => "again" \in damage' \/ disk' = disk
  <2> SUFFICES ASSUME ~good, ~healthy PROVE disk' = disk
    BY <1>6
  <2>1. buffer = <<>>
    BY DEF Filling
  <2>2. n = 0
    BY <1>4, <1>7, <2>1
  <2> QED BY <1>3, <2>2 DEF Written
<1>11. SinkTypeOK'
  <2>1. buffer' \in Seq(1 .. MaxBytes)
    BY <1>4, EmptySeq
  <2>2. index' \in Nat /\ size' \in Nat /\ left' \in Nat /\ sent' \in 0 .. MaxBytes
    <3>1. index \in Nat /\ size \in Nat /\ left \in Nat /\ sent \in 0 .. MaxBytes
      BY DEF SinkTypeOK
    <3>2. index' \in Nat
      BY <1>5, <1>7, <3>1
    <3>3. size' \in Nat
      <4>1. size' = size \/ size' = 0
        BY <1>5
      <4> QED BY <3>1, <4>1
    <3> QED BY <1>5, <3>1, <3>2, <3>3
  <2>3. saved' \in Nat \cup {NoIndex} /\ healthy' \in BOOLEAN /\ good' \in BOOLEAN
    BY <1>4, <1>5 DEF SinkTypeOK
  <2> QED BY <1>4, <1>5, <1>9, <2>1, <2>2, <2>3 DEF SinkTypeOK
<1>12. Filling'
  <2>1. sent' + left' <= MaxBytes
    BY <1>5 DEF Filling
  <2>2. ASSUME "again" \notin damage' PROVE \A i \in DOMAIN disk' : Len(disk'[i]) <= MaxFileSize
    <3>1. /\ \A i \in DOMAIN disk : Len(disk[i]) <= MaxFileSize
          /\ good => size <= MaxFileSize /\ size = Len(Bytes(index)) + Len(buffer)
      BY <1>6, <2>2 DEF Filling
    <3>2. CASE good
      <4>1. Len(Bytes(index)) + n <= MaxFileSize
        BY <1>7, <3>1, <3>2, Figures
      <4> QED BY <1>9, <3>1, <4>1
    <3>3. CASE ~good
      BY <1>10, <2>2, <3>1, <3>3
    <3> QED BY <3>2, <3>3
  <2> QED BY <1>4, <1>5, <2>1, <2>2 DEF Filling
<1> QED BY <1>4, <1>5, <1>6, <1>7, <1>8, <1>10, <1>11, <1>12

LEMMA FlushSteps ==
  ASSUME SinkAssumptions, SinkTypeOK, Filling, Flush
  PROVE  /\ good /\ damage \subseteq damage'
         /\ \E n \in Nat : Flows(n)
         /\ "failed" \in damage' => "failed" \in damage \/ (~good' /\ healthy' /\ spc' = "idle")
         /\ SinkTypeOK' /\ Filling'
<1>1. /\ spc = "idle" /\ good /\ saved' = saved /\ index' = index /\ size' = size
      /\ healthy' = healthy /\ spc' = spc /\ left' = left /\ sent' = sent
  BY DEF Flush
<1>2. /\ sent \in Nat /\ Len(buffer) \in Nat /\ Len(Bytes(index)) \in Nat /\ MaxFileSize \in Nat
      /\ Len(<<>>) = 0 /\ <<>> \in Seq(1 .. MaxBytes) /\ buffer \in Seq(1 .. MaxBytes)
      /\ size \in Nat /\ Len(buffer) <= sent /\ size = Len(Bytes(index)) + Len(buffer)
      /\ \A k \in 1 .. Len(buffer) : buffer[k] = (sent - Len(buffer)) + k
  BY <1>1, Figures, EmptySeq DEF Filling
<1>3. PICK n \in 0 .. Len(buffer) :
        /\ Written(buffer, n)
        /\ \/ n = Len(buffer) /\ buffer' = <<>> /\ good' /\ damage' = damage
           \/ n < Len(buffer) /\ buffer' = buffer /\ good' = FALSE /\ damage' = damage \cup {"failed"}
  <2>1. CASE Written(buffer, Len(buffer)) /\ buffer' = <<>> /\ UNCHANGED good /\ damage' = damage
    <3>1. Len(buffer) \in 0 .. Len(buffer)
      BY <1>2
    <3>2. good'
      BY <1>1, <2>1
    <3> QED BY <2>1, <3>1, <3>2
  <2>2. CASE /\ \E n \in 0 .. Len(buffer) - 1 : Written(buffer, n)
             /\ good' = FALSE /\ damage' = damage \cup {"failed"} /\ buffer' = buffer
    <3>1. PICK n \in 0 .. Len(buffer) - 1 : Written(buffer, n)
      BY <2>2
    <3>2. n \in 0 .. Len(buffer) /\ n < Len(buffer)
      BY <1>2
    <3> QED BY <2>2, <3>1, <3>2
  <2> QED BY <2>1, <2>2 DEF Flush
<1>4. Gains(buffer, n) /\ n \in Nat /\ n <= Len(buffer)
  BY <1>2, <1>3, WrittenGains
<1>5. ~good' => healthy'
  <2> SUFFICES ASSUME ~good' PROVE healthy'
    OBVIOUS
  <2>1. buffer # <<>>
    BY <1>1, <1>2, <1>3
  <2> QED BY <1>1, <2>1 DEF Filling
<1>6. Flows(n)
  <2>1. /\ (sent - Len(buffer)) + n <= sent /\ (sent - Len(buffer)) + n <= Top' /\ Top' \in Nat
        /\ good' => Top' = (sent - Len(buffer)) + n
    <3>1. CASE n = Len(buffer) /\ buffer' = <<>> /\ good'
      BY <1>1, <1>2, <3>1 DEF Top
    <3>2. CASE good' = FALSE
      BY <1>1, <1>2, <1>4, <3>2 DEF Top
    <3> QED BY <1>3, <3>1, <3>2
  <2>2. \A k \in 1 .. n : buffer[k] = (sent - Len(buffer)) + k
    BY <1>2, <1>4
  <2>3. good' \/ "failed" \in damage'
    BY <1>1, <1>3
  <2> QED BY <1>1, <1>4, <1>5, <2>1, <2>2, <2>3 DEF Flows
<1>7. /\ DOMAIN disk' \subseteq Nat
      /\ \A i \in DOMAIN disk' : disk'[i] \in Seq(1 .. MaxBytes)
      /\ Len(Bytes(index)') = Len(Bytes(index)) + n
      /\ (\A i \in DOMAIN disk : Len(disk[i]) <= MaxFileSize) /\ Len(Bytes(index)) + n <= MaxFileSize
              => \A i \in DOMAIN disk' : Len(disk'[i]) <= MaxFileSize
  <2>1. Bytes(index)' = IF index \in DOMAIN disk' THEN disk'[index] ELSE <<>>
    BY <1>1 DEF Bytes
  <2> QED BY <1>4, <2>1, GainsFit
<1>8. SinkTypeOK'
  <2>1. damage' \subseteq Faults /\ buffer' \in Seq(1 .. MaxBytes) /\ good' \in BOOLEAN
    BY <1>2, <1>3 DEF SinkTypeOK, Faults
  <2> QED BY <1>1, <1>7, <2>1 DEF SinkTypeOK
<1>9. Filling'
  <2>1. sent' + left' <= MaxBytes
    BY <1>1 DEF Filling
  <2>2. "again" \notin damage' => /\ \A i \in DOMAIN disk' : Len(disk'[i]) <= MaxFileSize
                                  /\ size' <= MaxFileSize
    <3> SUFFICES ASSUME "again" \notin damage'
                 PROVE  (\A i \in DOMAIN disk' : Len(disk'[i]) <= MaxFileSize) /\ size' <= MaxFileSize
      OBVIOUS
    <3>1. (\A i \in DOMAIN disk : Len(disk[i]) <= MaxFileSize) /\ size <= MaxFileSize
      BY <1>1, <1>3 DEF Filling
    <3>2. Len(Bytes(index)) + n <= MaxFileSize
      BY <1>2, <1>4, <3>1
    <3> QED BY <1>1, <1>7, <3>1, <3>2
  <2>3. good' => /\ size' = Len(Bytes(index)') + Len(buffer')
                 /\ Len(buffer') <= sent'
                 /\ \A k \in 1 .. Len(buffer') : buffer'[k] = (sent' - Len(buffer')) + k
    <3> SUFFICES ASSUME good' PROVE buffer' = <<>> /\ n = Len(buffer)
      BY <1>1, <1>2, <1>7
    <3> QED BY <1>3
  <2>4. buffer' # <<>> => healthy' /\ (good' \/ "failed" \in damage')
    BY <1>3, <1>5
  <2> QED BY <1>1, <2>1, <2>2, <2>3, <2>4 DEF Filling
<1> QED BY <1>1, <1>3, <1>4, <1>5, <1>6, <1>8, <1>9

LEMMA ChunkSteps ==
  ASSUME SinkAssumptions, SinkTypeOK, Filling, WriteChunk
  PROVE  /\ good /\ damage \subseteq damage'
         /\ \E n \in Nat : Flows(n)
         /\ "failed" \in damage' => "failed" \in damage \/ (~good' /\ healthy' /\ spc' = "idle")
         /\ SinkTypeOK' /\ Filling'
<1> DEFINE count == Smaller(MaxFileSize - size, left)
           more == [k \in 1 .. count |-> sent + k]
           chunk == buffer \o more
           s == sent - Len(buffer)
<1>1. /\ spc = "write" /\ left > 0 /\ size < MaxFileSize
      /\ saved' = saved /\ index' = index /\ healthy' = healthy
      /\ size' = size + count /\ sent' = sent + count
  BY DEF WriteChunk
<1>2. /\ good /\ healthy /\ size = Len(Bytes(index)) + Len(buffer) /\ sent + left <= MaxBytes
      /\ Len(buffer) <= sent /\ \A k \in 1 .. Len(buffer) : buffer[k] = s + k
      /\ "again" \notin damage => \A i \in DOMAIN disk : Len(disk[i]) <= MaxFileSize
  BY <1>1 DEF Filling
<1>3. /\ sent \in Nat /\ left \in Nat /\ size \in Nat /\ MaxFileSize \in Nat /\ MaxBytes \in Nat
      /\ Len(buffer) \in Nat /\ Len(Bytes(index)) \in Nat /\ buffer \in Seq(1 .. MaxBytes)
      /\ index \in Nat
  BY Figures
<1>4. /\ count \in Nat /\ 0 < count /\ count <= left /\ size + count <= MaxFileSize
      /\ sent + count <= MaxBytes
  <2>1. count = IF MaxFileSize - size < left THEN MaxFileSize - size ELSE left
    BY DEF Smaller
  <2>2. left > 0 /\ size < MaxFileSize /\ sent + left <= MaxBytes
    BY <1>1, <1>2
  <2> HIDE DEF count
  <2> QED BY <1>3, <2>1, <2>2
<1>5. s \in Nat /\ s + Len(buffer) = sent
  BY <1>2, <1>3
<1> HIDE DEF count
<1>6. more \in Seq(1 .. MaxBytes) /\ Len(more) = count /\ \A k \in 1 .. count : more[k] = sent + k
  BY <1>3, <1>4
<1> HIDE DEF more
<1>7. /\ chunk \in Seq(1 .. MaxBytes) /\ Len(chunk) = Len(buffer) + count
      /\ \A k \in 1 .. Len(buffer) + count :
           chunk[k] = IF k <= Len(buffer) THEN buffer[k] ELSE more[k - Len(buffer)]
  BY <1>3, <1>6, ConcatProperties
<1> HIDE DEF chunk
<1>8. \A k \in 1 .. Len(chunk) : chunk[k] = s + k /\ chunk[k] \in 1 .. MaxBytes
  <2> SUFFICES ASSUME NEW k \in 1 .. Len(chunk) PROVE chunk[k] = s + k /\ chunk[k] \in 1 .. MaxBytes
    OBVIOUS
  <2>0. k \in 1 .. Len(buffer) + count /\ k \in Nat
    BY <1>3, <1>4, <1>7
  <2>1. CASE k <= Len(buffer)
    <3>1. k \in 1 .. Len(buffer) /\ chunk[k] = buffer[k]
      BY <1>3, <1>7, <2>0, <2>1
    <3>2. chunk[k] = s + k
      BY <1>2, <3>1
    <3> QED BY <1>3, <1>4, <1>5, <2>0, <2>1, <3>2
  <2>2. CASE ~(k <= Len(buffer))
    <3>1. k - Len(buffer) \in 1 .. count /\ chunk[k] = more[k - Len(buffer)]
      BY <1>3, <1>4, <1>7, <2>0, <2>2
    <3>2. chunk[k] = sent + (k - Len(buffer))
      BY <1>6, <3>1
    <3>3. sent + (k - Len(buffer)) = s + k
      BY <1>3, <1>5, <2>0
    <3> QED BY <1>3, <1>4, <1>5, <2>0, <3>1, <3>2, <3>3
  <2> QED BY <2>1, <2>2
<1>9. PICK n \in 0 .. Len(chunk), m \in 0 .. Len(chunk), r \in 0 .. Len(chunk) :
        /\ Written(chunk, n) /\ m <= r /\ buffer' = SubSeq(chunk, m + 1, r)
        /\ \/ /\ m = n /\ r = Len(chunk) /\ left' = left - count
              /\ good' /\ spc' = "write" /\ damage' = damage
           \/ /\ left' = 0 /\ ~good' /\ spc' = "idle" /\ damage' = damage \cup {"failed"}
  <2>1. ASSUME NEW n \in 0 .. Len(chunk), Written(chunk, n),
               buffer' = SubSeq(chunk, n + 1, Len(chunk)), left' = left - count,
               UNCHANGED <<good, spc, damage>>
        PROVE  \E m \in 0 .. Len(chunk), r \in 0 .. Len(chunk) :
                 /\ Written(chunk, n) /\ m <= r /\ buffer' = SubSeq(chunk, m + 1, r)
                 /\ m = n /\ r = Len(chunk) /\ left' = left - count
                 /\ good' /\ spc' = "write" /\ damage' = damage
    <3>1. Len(chunk) \in 0 .. Len(chunk) /\ n <= Len(chunk)
      BY <1>3, <1>4, <1>7
    <3>2. good' /\ spc' = "write" /\ damage' = damage
      BY <1>1, <1>2, <2>1
    <3> QED BY <2>1, <3>1, <3>2
  <2>2. ASSUME NEW n \in 0 .. Len(chunk) - 1, Written(chunk, n),
               NEW r \in Len(buffer) .. Len(chunk), buffer' = SubSeq(chunk, 1, r),
               left' = 0, good' = FALSE, spc' = "idle", damage' = damage \cup {"failed"}
        PROVE  /\ n \in 0 .. Len(chunk) /\ r \in 0 .. Len(chunk) /\ 0 \in 0 .. Len(chunk)
               /\ 0 <= r /\ buffer' = SubSeq(chunk, 0 + 1, r)
    BY <1>3, <1>4, <1>7, <2>2
  <2>3. \/ /\ \E n \in 0 .. Len(chunk) :
                Written(chunk, n) /\ buffer' = SubSeq(chunk, n + 1, Len(chunk))
           /\ left' = left - count
           /\ UNCHANGED <<good, spc, damage>>
        \/ /\ \E n \in 0 .. Len(chunk) - 1 : Written(chunk, n)
           /\ \E r \in Len(buffer) .. Len(chunk) : buffer' = SubSeq(chunk, 1, r)
           /\ left' = 0 /\ good' = FALSE /\ spc' = "idle"
           /\ damage' = damage \cup {"failed"}
    BY DEF WriteChunk, chunk, more, count
  <2>4. CASE /\ \E n \in 0 .. Len(chunk) :
                  Written(chunk, n) /\ buffer' = SubSeq(chunk, n + 1, Len(chunk))
             /\ left' = left - count
             /\ UNCHANGED <<good, spc, damage>>
    <3>1. PICK n \in 0 .. Len(chunk) :
            Written(chunk, n) /\ buffer' = SubSeq(chunk, n + 1, Len(chunk))
      BY <2>4
    <3> QED BY <2>1, <2>4, <3>1
  <2>5. CASE /\ \E n \in 0 .. Len(chunk) - 1 : Written(chunk, n)
             /\ \E r \in Len(buffer) .. Len(chunk) : buffer' = SubSeq(chunk, 1, r)
             /\ left' = 0 /\ good' = FALSE /\ spc' = "idle"
             /\ damage' = damage \cup {"failed"}
    <3>1. PICK n \in 0 .. Len(chunk) - 1 : Written(chunk, n)
      BY <2>5
    <3>2. PICK r \in Len(buffer) .. Len(chunk) : buffer' = SubSeq(chunk, 1, r)
      BY <2>5
    <3>3. /\ n \in 0 .. Len(chunk) /\ r \in 0 .. Len(chunk) /\ 0 \in 0 .. Len(chunk)
          /\ 0 <= r /\ buffer' = SubSeq(chunk, 0 + 1, r)
      BY <2>2, <2>5, <3>1, <3>2
    <3> QED BY <2>5, <3>1, <3>3
  <2> QED BY <2>3, <2>4, <2>5
<1>10. /\ n \in Nat /\ m \in Nat /\ r \in Nat /\ n <= Len(chunk) /\ r <= Len(chunk)
       /\ Len(chunk) = Len(buffer) + count /\ s + Len(chunk) = sent'
  <2>1. Len(chunk) = Len(buffer) + count /\ Len(chunk) \in Nat
    BY <1>3, <1>4, <1>7
  <2>2. s + Len(chunk) = sent'
    BY <1>1, <1>3, <1>4, <1>5, <2>1
  <2> QED BY <1>9, <2>1, <2>2
<1>11. /\ buffer' \in Seq(1 .. MaxBytes) /\ Len(buffer') = r - m
       /\ \A k \in 1 .. Len(buffer') : buffer'[k] = s + m + k
  <2>1. \A k \in m + 1 .. r : chunk[k] \in 1 .. MaxBytes /\ chunk[k] = s + k
    BY <1>8, <1>10
  <2>2. CASE m + 1 <= r + 1
    <3>1. /\ SubSeq(chunk, m + 1, r) \in Seq(1 .. MaxBytes)
          /\ Len(SubSeq(chunk, m + 1, r)) = IF m + 1 <= r THEN r - (m + 1) + 1 ELSE 0
          /\ \A k \in 1 .. r - (m + 1) + 1 : SubSeq(chunk, m + 1, r)[k] = chunk[(m + 1) + k - 1]
      BY <1>10, <2>1, SubSeqProperties
    <3>2. Len(buffer') = r - m /\ r - (m + 1) + 1 = r - m
      BY <1>9, <1>10, <3>1
    <3>3. ASSUME NEW k \in 1 .. Len(buffer') PROVE buffer'[k] = s + m + k
      <4>1. k \in 1 .. r - (m + 1) + 1 /\ (m + 1) + k - 1 \in m + 1 .. r
            /\ s + ((m + 1) + k - 1) = s + m + k
        BY <1>5, <1>10, <3>2
      <4>2. buffer'[k] = chunk[(m + 1) + k - 1]
        BY <1>9, <3>1, <4>1
      <4> QED BY <2>1, <4>1, <4>2
    <3> QED BY <1>9, <3>1, <3>2, <3>3
  <2> QED BY <1>9, <1>10, <2>2
<1>12. Gains(chunk, n)
  BY <1>7, <1>9, WrittenGains
<1>13. Flows(n)
  <2>1. \A k \in 1 .. n : chunk[k] = s + k
    BY <1>8, <1>10
  <2>2. s + n <= sent' /\ sent' \in Nat
    BY <1>1, <1>3, <1>4, <1>5, <1>10
  <2>3. CASE m = n /\ r = Len(chunk) /\ good'
    <3>1. Top' = s + n
      BY <1>5, <1>10, <1>11, <2>3 DEF Top
    <3> QED BY <1>5, <1>10, <1>12, <2>1, <2>2, <3>1 DEF Flows
  <2>4. CASE ~good' /\ spc' = "idle" /\ damage' = damage \cup {"failed"}
    <3>1. Top' = sent' /\ healthy' /\ "failed" \in damage'
      BY <1>1, <1>2, <2>4 DEF Top
    <3> QED BY <1>12, <2>1, <2>2, <2>4, <3>1 DEF Flows
  <2> QED BY <1>9, <2>3, <2>4
<1>14. /\ DOMAIN disk' \subseteq Nat
       /\ \A i \in DOMAIN disk' : disk'[i] \in Seq(1 .. MaxBytes)
       /\ Len(Bytes(index)') = Len(Bytes(index)) + n
       /\ (\A i \in DOMAIN disk : Len(disk[i]) <= MaxFileSize) /\ Len(Bytes(index)) + n <= MaxFileSize
              => \A i \in DOMAIN disk' : Len(disk'[i]) <= MaxFileSize
  <2>1. Bytes(index)' = IF index \in DOMAIN disk' THEN disk'[index] ELSE <<>>
    BY <1>1 DEF Bytes
  <2> QED BY <1>10, <1>12, <2>1, GainsFit
<1>15. left' \in Nat /\ sent' + left' <= MaxBytes
  <2>1. left' = left - count \/ left' = 0
    BY <1>9
  <2> QED BY <1>1, <1>2, <1>3, <1>4, <2>1
<1>16. SinkTypeOK'
  <2>1. /\ size' \in Nat /\ sent' \in 0 .. MaxBytes /\ good' \in BOOLEAN
        /\ spc' \in {"write", "idle"}
    <3>1. spc' \in {"write", "idle"}
      BY <1>9
    <3>2. good' \in BOOLEAN
      BY <1>9 DEF WriteChunk, SinkTypeOK
    <3> QED BY <1>1, <1>3, <1>4, <3>1, <3>2
  <2>2. damage' \subseteq Faults
    BY <1>9 DEF SinkTypeOK, Faults
  <2>3. saved' \in Nat \cup {NoIndex} /\ healthy' \in BOOLEAN
    BY <1>1 DEF SinkTypeOK
  <2> QED BY <1>1, <1>3, <1>11, <1>14, <1>15, <2>1, <2>2, <2>3 DEF SinkTypeOK
<1>17. Filling'
  <2>1. "again" \notin damage' => /\ \A i \in DOMAIN disk' : Len(disk'[i]) <= MaxFileSize
                                  /\ size' <= MaxFileSize
    <3> SUFFICES ASSUME "again" \notin damage'
                 PROVE  (\A i \in DOMAIN disk' : Len(disk'[i]) <= MaxFileSize) /\ size' <= MaxFileSize
      OBVIOUS
    <3>1. \A i \in DOMAIN disk : Len(disk[i]) <= MaxFileSize
      BY <1>2, <1>9
    <3>2. Len(Bytes(index)) + n <= MaxFileSize
      BY <1>2, <1>3, <1>4, <1>10
    <3> QED BY <1>1, <1>4, <1>14, <3>1, <3>2
  <2>2. good' => /\ size' = Len(Bytes(index)') + Len(buffer')
                 /\ Len(buffer') <= sent'
                 /\ \A k \in 1 .. Len(buffer') : buffer'[k] = (sent' - Len(buffer')) + k
    <3> SUFFICES ASSUME good'
                 PROVE  /\ size' = Len(Bytes(index)') + Len(buffer')
                        /\ Len(buffer') <= sent'
                        /\ sent' - Len(buffer') = s + m
      BY <1>11
    <3>1. m = n /\ r = Len(chunk)
      BY <1>9
    <3> QED BY <1>1, <1>2, <1>3, <1>4, <1>5, <1>10, <1>11, <1>14, <3>1
  <2>3. good' \/ ("failed" \in damage' /\ spc' = "idle")
    BY <1>9
  <2>4. spc' = "write" => good'
    BY <1>9
  <2>5. spc' \in {"idle", "write"} /\ healthy'
    BY <1>1, <1>2, <1>9
  <2> QED BY <1>15, <2>1, <2>2, <2>3, <2>4, <2>5 DEF Filling
<1>18. /\ damage \subseteq damage'
       /\ "failed" \in damage' => "failed" \in damage \/ (~good' /\ healthy' /\ spc' = "idle")
  BY <1>1, <1>2, <1>9
<1> QED BY <1>2, <1>10, <1>13, <1>16, <1>17, <1>18

-----------------------------------------------------------------------------
LEMMA WindowHolds ==
  ASSUME SinkAssumptions, SinkInv, SinkNext, Indexed'
  PROVE  Indexed /\ Windowed'
<1>1. /\ SinkTypeOK /\ Filling /\ index \in Nat /\ MaxFiles \in Nat /\ MaxFiles > 0
      /\ DOMAIN disk \subseteq Nat
  <2>1. SinkTypeOK /\ Filling /\ DOMAIN disk \subseteq Nat
    BY DEF SinkInv, SinkTypeOK
  <2>2. MaxFiles > 0
    BY DEF SinkAssumptions
  <2> QED BY <2>1, <2>2, Figures
<1>2. damage \subseteq damage'
  <2>1. CASE WriteChunk
    BY <1>1, <2>1, ChunkSteps
  <2>2. CASE Flush
    BY <1>1, <2>2, FlushSteps
  <2>3. CASE Rotate \/ CloseSink
    BY <1>1, <2>3, ClosingSteps
  <2>4. CASE Calm \/ OpenFile \/ Expire \/ SinkCrash
    BY <1>1, <2>4, CalmSteps, OpenSteps, ExpireSteps, CrashSteps
  <2> QED BY <2>1, <2>2, <2>3, <2>4 DEF SinkNext, Calm
<1>3. Indexed /\ Windowed
  BY <1>2 DEF Indexed, SinkInv
<1>4. ASSUME NEW chunk, NEW n \in Nat, Gains(chunk, n)
      PROVE  DOMAIN disk' \subseteq DOMAIN disk \cup {index}
  BY <1>4 DEF Gains, Grown
<1>5. index \in index - MaxFiles + 1 .. index
  BY <1>1
<1>6. CASE Start
  <2>1. /\ spc = "down" /\ disk' = disk /\ spc' = "save"
        /\ index' = IF saved = NoIndex THEN 0 ELSE saved
    BY <1>6 DEF Start, Indexed
  <2>2. index' = index
    BY <1>1, <1>3, <2>1 DEF Windowed, NoIndex
  <2> QED BY <1>3, <2>1, <2>2 DEF Windowed
<1>7. CASE SaveIndex
  <2>1. /\ index' = index /\ saved' = index /\ disk' = disk
        /\ \/ spc = "save" /\ spc' = "open"
           \/ spc = "rotate save" /\ spc' = "expire"
    BY <1>7 DEF SaveIndex, Indexed
  <2> QED BY <1>3, <2>1 DEF Windowed
<1>8. CASE OpenFile
  <2>1. /\ index' = index /\ saved' = saved
        /\ spc \in {"open", "reopen"} /\ spc' \in {"idle", "write"}
    BY <1>8 DEF OpenFile
  <2>2. DOMAIN disk' \subseteq DOMAIN disk \cup {index}
    BY <1>1, <1>4, <1>8, OpenSteps
  <2> QED BY <1>3, <1>5, <2>1, <2>2 DEF Windowed
<1>9. CASE \E n \in Sizes : Write(n)
  BY <1>3, <1>9 DEF Windowed, Write, files
<1>10. CASE WriteReturns
  BY <1>3, <1>10 DEF Windowed, WriteReturns, files
<1>11. CASE WriteChunk \/ Flush
  <2>1. /\ index' = index /\ saved' = saved
        /\ spc \in {"idle", "write"} /\ spc' \in {"idle", "write"}
    BY <1>11 DEF WriteChunk, Flush
  <2>2. \E n \in Nat : Flows(n)
    BY <1>1, <1>11, ChunkSteps, FlushSteps
  <2>3. DOMAIN disk' \subseteq DOMAIN disk \cup {index}
    BY <1>4, <2>2 DEF Flows
  <2> QED BY <1>3, <1>5, <2>1, <2>3 DEF Windowed
<1>12. CASE Rotate
  <2>1. /\ index' = index + 1 /\ spc = "write" /\ good
    BY <1>1, <1>12 DEF Rotate, Filling
  <2>2. spc' = "rotate save"
    BY <1>12 DEF Rotate, Indexed, Closed
  <2>3. \E n \in Nat : Flows(n)
    BY <1>1, <1>12, <2>1, ClosingSteps
  <2>4. DOMAIN disk' \subseteq DOMAIN disk \cup {index}
    BY <1>4, <2>3 DEF Flows
  <2>5. index - MaxFiles + 1 = (index + 1) - MaxFiles /\ index = (index + 1) - 1
    BY <1>1
  <2>6. DOMAIN disk \subseteq index - MaxFiles + 1 .. index
    BY <1>3, <2>1 DEF Windowed
  <2>7. DOMAIN disk' \subseteq index' - MaxFiles .. index' - 1
    BY <1>5, <2>1, <2>4, <2>5, <2>6
  <2> QED BY <1>3, <2>2, <2>7 DEF Windowed
<1>13. CASE Expire
  <2>1. /\ index' = index /\ saved' = saved /\ spc = "expire" /\ spc' = "reopen"
    BY <1>13 DEF Expire
  <2>2. \/ disk' = disk /\ index < MaxFiles
        \/ DOMAIN disk' = DOMAIN disk \ {index - MaxFiles}
    BY <1>1, <1>13, ExpireSteps
  <2>3. DOMAIN disk \subseteq index - MaxFiles .. index - 1
    BY <1>3, <2>1 DEF Windowed
  <2>4. \A i \in DOMAIN disk' : i \in DOMAIN disk /\ i \in Nat /\ i # index - MaxFiles
    BY <1>1, <2>2
  <2>5. DOMAIN disk' \subseteq index - MaxFiles + 1 .. index
    BY <1>1, <2>3, <2>4
  <2> QED BY <1>3, <2>1, <2>5 DEF Windowed
<1>14. CASE CloseSink
  <2>1. spc = "idle" /\ spc' = "down" /\ index' = index /\ saved' = saved
    BY <1>14 DEF CloseSink
  <2>2. PICK n \in 0 .. Len(buffer) : Gains(buffer, n)
    <3>1. Closed(IF healthy /\ ~good THEN {"again"} ELSE {})
      BY <1>14 DEF CloseSink
    <3>2. (IF healthy /\ ~good THEN {"again"} ELSE {}) \in SUBSET Faults
      BY DEF Faults
    <3> QED BY <1>1, <3>1, <3>2, ClosedGains
  <2>3. DOMAIN disk' \subseteq DOMAIN disk \cup {index}
    <3>1. n \in Nat
      BY <1>1, <2>2, Figures
    <3> QED BY <1>4, <2>2, <3>1
  <2> QED BY <1>3, <1>5, <2>1, <2>3 DEF Windowed
<1>15. CASE SinkCrash
  <2>1. /\ disk' = disk /\ index' = index /\ saved' = saved /\ spc' = "down"
    BY <1>15 DEF SinkCrash, files
  <2>2. spc \notin {"save", "rotate save", "expire"} /\ spc # "down"
    BY <1>15 DEF SinkCrash, Indexed
  <2>3. spc \in {"open", "idle", "write", "reopen"}
    BY <1>1, <2>2 DEF SinkTypeOK
  <2> QED BY <1>3, <2>1, <2>3 DEF Windowed
<1> QED BY <1>3, <1>6, <1>7, <1>8, <1>9, <1>10, <1>11, <1>12, <1>13, <1>14, <1>15 DEF SinkNext

(* As long as the index is right the files stay in order. *)
LEMMA OrderHolds ==
  ASSUME SinkAssumptions, SinkInv, SinkNext, Indexed', "again" \notin damage'
  PROVE  /\ "again" \notin damage /\ Orderly(disk') /\ Below(disk', Top')
         /\ damage = {} /\ damage' = {} => (Unbroken(Top))'
         /\ damage = {} /\ damage' = {"failed"} => \E last \in 0 .. sent' : (Unbroken(last))'
<1>0. SinkTypeOK /\ Filling /\ Indexed /\ Windowed
  BY WindowHolds DEF SinkInv
<1>1. "again" \notin damage
  <2>1. CASE WriteChunk
    BY <1>0, <2>1, ChunkSteps
  <2>2. CASE Flush
    BY <1>0, <2>2, FlushSteps
  <2>3. CASE Rotate \/ CloseSink
    BY <1>0, <2>3, ClosingSteps
  <2>4. CASE Calm \/ OpenFile \/ Expire \/ SinkCrash
    BY <1>0, <2>4, CalmSteps, OpenSteps, ExpireSteps, CrashSteps
  <2> QED BY <2>1, <2>2, <2>3, <2>4 DEF SinkNext, Calm
<1>2. /\ Orderly(disk) /\ Below(disk, Top) /\ (damage = {} => Unbroken(Top))
      /\ index \in Nat /\ MaxFiles \in Nat /\ sent \in Nat /\ Len(buffer) \in Nat
  BY <1>0, <1>1, Figures DEF SinkInv
<1>3. /\ Top \in Nat /\ Top <= sent /\ sent - Len(buffer) <= Top
      /\ good => Top = sent - Len(buffer)
      /\ ~good /\ "failed" \notin damage => Top = sent
  BY <1>0, <1>2 DEF Top, Filling
<1>4. ASSUME NEW t \in Nat, Top <= t, Top' = t, disk' = disk,
             damage' = {} => Top' = Top
      PROVE  /\ Orderly(disk') /\ Below(disk', Top')
             /\ damage = {} /\ damage' = {} => (Unbroken(Top))'
  <2>1. Below(disk', Top')
    BY <1>2, <1>3, <1>4 DEF Below
  <2> QED BY <1>2, <1>4, <2>1 DEF Unbroken
<1>5. CASE Calm
  <2>1. /\ disk' = disk /\ sent' = sent /\ buffer' = buffer /\ good' = good
        /\ damage' = damage \/ damage' = damage \cup {"index"}
    BY <1>0, <1>5, CalmSteps
  <2>2. Top' = Top
    BY <2>1 DEF Top
  <2>3. ~(damage = {} /\ damage' = {"failed"})
    BY <2>1
  <2> QED BY <1>1, <1>3, <1>4, <2>1, <2>2, <2>3
<1>6. CASE OpenFile
  <2>1. Gains(<<>>, 0) /\ ~good /\ sent' = sent /\ buffer' = <<>> /\ damage' = damage
    BY <1>0, <1>6, OpenSteps
  <2>2. Top = sent /\ Top' = sent
    BY <1>2, <2>1, EmptySeq DEF Top
  <2>3. \A i \in DOMAIN disk : i <= index
    <3>1. spc \in {"open", "reopen"}
      BY <1>6 DEF OpenFile
    <3>2. DOMAIN disk \subseteq index - MaxFiles + 1 .. index
      BY <1>0, <3>1 DEF Windowed
    <3> QED BY <1>2, <3>2
  <2>4. /\ Orderly(disk') /\ Below(disk', sent + 0)
        /\ \A first \in 1 .. sent + 1 : Covers(disk, first, sent) => Covers(disk', first, sent + 0)
    <3>1. \A k \in 1 .. 0 : <<>>[k] = sent + k
      OBVIOUS
    <3> QED BY <1>0, <1>2, <2>1, <2>2, <2>3, <3>1, GainsOrder
  <2>5. sent + 0 = sent
    BY <1>2
  <2> QED BY <1>1, <1>2, <2>1, <2>2, <2>4, <2>5 DEF Unbroken
<1>7. CASE WriteChunk \/ Flush \/ (Rotate /\ good) \/ (CloseSink /\ good)
  <2>1. good
    BY <1>0, <1>7, ChunkSteps, FlushSteps
  <2>2. PICK n \in Nat : Flows(n)
    BY <1>0, <1>7, ChunkSteps, FlushSteps, ClosingSteps
  <2>3. PICK chunk : Gains(chunk, n) /\ \A k \in 1 .. n : chunk[k] = Top + k
    BY <1>3, <2>1, <2>2 DEF Flows
  <2>4. \A i \in DOMAIN disk : i <= index
    <3>1. spc \in {"idle", "write"}
      BY <1>0, <2>1 DEF Filling
    <3>2. DOMAIN disk \subseteq index - MaxFiles + 1 .. index
      BY <1>0, <3>1 DEF Windowed
    <3> QED BY <1>2, <3>2
  <2>5. /\ Orderly(disk') /\ Below(disk', Top + n)
        /\ \A first \in 1 .. Top + 1 : Covers(disk, first, Top) => Covers(disk', first, Top + n)
    BY <1>0, <1>2, <1>3, <2>3, <2>4, GainsOrder
  <2>6. /\ Top + n <= Top' /\ Top' \in Nat /\ Top + n <= sent'
        /\ Top' = Top + n \/ "lost" \in damage' \/ "failed" \in damage'
    BY <1>3, <2>1, <2>2 DEF Flows
  <2>7. Below(disk', Top')
    BY <1>3, <2>5, <2>6 DEF Below
  <2>8. ASSUME damage = {}
        PROVE  \E first \in 1 .. (Top + n) + 1 : Covers(disk', first, Top + n)
    <3>1. PICK first \in 1 .. Top + 1 : Covers(disk, first, Top)
      BY <1>2, <2>8 DEF Unbroken
    <3>2. first \in 1 .. (Top + n) + 1
      BY <1>3
    <3> QED BY <2>5, <3>1, <3>2
  <2>9. damage = {} /\ damage' = {} => (Unbroken(Top))'
    <3> SUFFICES ASSUME damage = {}, damage' = {} PROVE (Unbroken(Top))'
      OBVIOUS
    <3>1. Top' = Top + n
      BY <2>6
    <3> QED BY <2>8, <3>1 DEF Unbroken
  <2>10. Top + n \in 0 .. sent'
    BY <1>3, <2>6
  <2> QED BY <1>1, <2>5, <2>7, <2>8, <2>9, <2>10 DEF Unbroken
<1>8. CASE (Rotate /\ ~good) \/ (CloseSink /\ ~good)
  <2>1. /\ sent' = sent /\ ~good' /\ damage \subseteq damage' /\ disk' = disk
        /\ "failed" \in damage' => "failed" \in damage
    BY <1>0, <1>8, ClosingSteps
  <2>2. Top = sent /\ Top' = sent
    BY <1>8, <2>1 DEF Top
  <2>3. ~(damage = {} /\ damage' = {"failed"})
    BY <2>1
  <2> QED BY <1>1, <1>3, <1>4, <2>1, <2>2, <2>3
<1>9. CASE Expire
  <2>1. /\ \/ disk' = disk /\ index < MaxFiles
           \/ /\ index - MaxFiles \in Nat /\ DOMAIN disk' = DOMAIN disk \ {index - MaxFiles}
              /\ \A j \in DOMAIN disk' : disk'[j] = disk[j]
        /\ sent' = sent /\ ~good /\ ~good' /\ damage' = damage
    BY <1>0, <1>9, ExpireSteps
  <2>2. Top = sent /\ Top' = sent
    BY <2>1 DEF Top
  <2>3. Orderly(disk') /\ Below(disk', Top')
    <3> DEFINE d == disk
               e == disk'
    <3>1. Orderly(d) /\ Below(d, sent) /\ DOMAIN e \subseteq DOMAIN d /\ \A j \in DOMAIN e : e[j] = d[j]
      BY <1>2, <2>1, <2>2
    <3> HIDE DEF d, e
    <3>2. Orderly(e) /\ Below(e, sent)
      BY <1>2, <3>1, ExpireOrder
    <3> QED BY <2>2, <3>2 DEF e
  <2>4. ASSUME damage = {} PROVE \E first \in 1 .. sent + 1 : Covers(disk', first, sent)
    <3>1. PICK first \in 1 .. sent + 1 : Covers(disk, first, sent)
      BY <1>2, <2>2, <2>4 DEF Unbroken
    <3>2. CASE disk' = disk
      BY <3>1, <3>2
    <3>3. CASE /\ index - MaxFiles \in Nat /\ DOMAIN disk' = DOMAIN disk \ {index - MaxFiles}
               /\ \A j \in DOMAIN disk' : disk'[j] = disk[j]
      <4> DEFINE d == disk
                 e == disk'
                 m == index - MaxFiles
      <4>1. DOMAIN e = DOMAIN d \ {m} /\ (\A j \in DOMAIN e : e[j] = d[j]) /\ m \in Nat
        BY <3>3
      <4>2. Stored(d)
        <5>1. DOMAIN d \subseteq Nat /\ \A i \in DOMAIN d : d[i] \in Seq(1 .. MaxBytes)
          BY <1>0 DEF SinkTypeOK
        <5> QED BY <1>0, <5>1, Figures, NumbersAre DEF Stored
      <4>3. \A j \in DOMAIN d : m <= j
        <5>1. spc = "expire"
          BY <1>9 DEF Expire
        <5>2. DOMAIN disk \subseteq index - MaxFiles .. index - 1
          BY <1>0, <5>1 DEF Windowed
        <5> QED BY <1>2, <5>2
      <4>4. Orderly(d) /\ Covers(d, first, sent)
        BY <1>2, <3>1
      <4> HIDE DEF d, e, m
      <4>5. \E f \in 1 .. sent + 1 : Covers(e, f, sent)
        BY <1>2, <4>1, <4>2, <4>3, <4>4, ExpireSeamless
      <4> QED BY <4>5 DEF e
    <3> QED BY <2>1, <3>2, <3>3
  <2>5. ~(damage = {} /\ damage' = {"failed"})
    BY <2>1
  <2> QED BY <1>1, <2>2, <2>3, <2>4, <2>5 DEF Unbroken
<1>10. CASE SinkCrash
  <2>1. /\ disk' = disk /\ sent' = sent /\ ~good'
        /\ damage' # {} /\ damage' # {"failed"}
    <3>1. damage' = damage \cup {"torn"} \/ damage' = damage \cup {"crash"}
      BY <1>0, <1>10, CrashSteps
    <3>2. damage' # {} /\ damage' # {"failed"}
      BY <3>1
    <3> QED BY <1>0, <1>10, <3>2, CrashSteps
  <2>2. Top' = sent
    BY <2>1 DEF Top
  <2> QED BY <1>1, <1>2, <1>3, <1>4, <2>1, <2>2
<1> QED BY <1>5, <1>6, <1>7, <1>8, <1>9, <1>10 DEF SinkNext, Calm

LEMMA SinkHolds == SinkAssumptions /\ SinkInv /\ [SinkNext]_sinkVars => SinkInv'
<1> SUFFICES ASSUME SinkAssumptions, SinkInv, [SinkNext]_sinkVars PROVE SinkInv'
  OBVIOUS
<1>0. SinkTypeOK /\ Filling
  BY DEF SinkInv
<1>1. CASE SinkNext
  <2>1. /\ damage \subseteq damage'
        /\ "failed" \in damage' => "failed" \in damage \/ (~good' /\ healthy' /\ spc' = "idle")
        /\ SinkTypeOK' /\ Filling'
    <3>1. CASE WriteChunk
      BY <1>0, <3>1, ChunkSteps
    <3>2. CASE Flush
      BY <1>0, <3>2, FlushSteps
    <3>3. CASE Rotate \/ CloseSink
      BY <1>0, <3>3, ClosingSteps
    <3>4. CASE Calm \/ OpenFile \/ Expire
      BY <1>0, <3>4, CalmSteps, OpenSteps, ExpireSteps
    <3>5. CASE SinkCrash
      <4>1. damage' = damage \cup {"torn"} \/ damage' = damage \cup {"crash"}
        BY <1>0, <3>5, CrashSteps
      <4>2. damage \subseteq damage' /\ ("failed" \in damage' => "failed" \in damage)
        BY <4>1
      <4>3. SinkTypeOK' /\ Filling'
        BY <1>0, <3>5, CrashSteps
      <4> QED BY <4>2, <4>3
    <3>6. \/ WriteChunk \/ Flush \/ (Rotate \/ CloseSink)
          \/ (Calm \/ OpenFile \/ Expire) \/ SinkCrash
      BY <1>1 DEF SinkNext, Calm
    <3> QED BY ONLY <3>1, <3>2, <3>3, <3>4, <3>5, <3>6
  <2>2. Indexed' => Windowed'
    BY <1>1, WindowHolds
  <2>3. (Indexed /\ "again" \notin damage => Orderly(disk) /\ Below(disk, Top))'
    BY <1>1, OrderHolds
  <2>4. ASSUME damage' = {} PROVE (Unbroken(Top))'
    <3>1. damage = {} /\ Indexed' /\ "again" \notin damage'
      BY <2>1, <2>4 DEF Indexed
    <3> QED BY <1>1, <2>4, <3>1, OrderHolds
  <2>5. ASSUME damage' = {"failed"}
        PROVE  /\ ~good' /\ healthy' /\ spc' = "idle"
               /\ \E last \in 0 .. sent' : (Unbroken(last))'
    <3>1. Indexed' /\ "again" \notin damage'
      BY <2>5 DEF Indexed
    <3>2. CASE damage = {}
      <4>1. ~good' /\ healthy' /\ spc' = "idle"
        BY <2>1, <2>5, <3>2
      <4> QED BY <1>1, <2>5, <3>1, <3>2, <4>1, OrderHolds
    <3>3. CASE damage = {"failed"}
      <4>1. ~good /\ healthy /\ spc = "idle"
        BY <3>3 DEF SinkInv
      <4>2. CloseSink \/ SinkCrash
        BY <1>1, <4>1
           DEF SinkNext, Start, SaveIndex, OpenFile, Write, WriteChunk, WriteReturns, Rotate, Expire, Flush
      <4>3. ~CloseSink
        BY <1>0, <3>1, <4>1, ClosingSteps
      <4>4. ~SinkCrash
        <5>1. SinkCrash => "torn" \in damage' \/ "crash" \in damage'
          BY DEF SinkCrash
        <5> QED BY <2>5, <5>1
      <4> QED BY <4>2, <4>3, <4>4
    <3> QED BY <2>1, <2>5, <3>2, <3>3
  <2> QED BY <2>1, <2>2, <2>3, <2>4, <2>5 DEF SinkInv
<1>2. CASE UNCHANGED sinkVars
  <2>1. /\ disk' = disk /\ saved' = saved /\ index' = index /\ size' = size /\ healthy' = healthy
        /\ good' = good /\ buffer' = buffer /\ spc' = spc /\ left' = left /\ sent' = sent
        /\ damage' = damage
    BY <1>2 DEF sinkVars, files
  <2>2. SinkTypeOK' /\ Filling'
    BY <1>0, <2>1 DEF SinkTypeOK, Filling, Bytes
  <2>3. Indexed' = Indexed /\ Windowed' = Windowed /\ Top' = Top
    BY <2>1 DEF Indexed, Windowed, Top
  <2>4. (Indexed /\ "again" \notin damage => Orderly(disk) /\ Below(disk, Top))'
    BY <2>1, <2>3 DEF SinkInv
  <2>5. (damage = {} => Unbroken(Top))'
    BY <2>1, <2>3 DEF SinkInv, Unbroken
  <2>6. (damage = {"failed"} =>
          ~good /\ healthy /\ spc = "idle" /\ \E last \in 0 .. sent : Unbroken(last))'
    BY <2>1 DEF SinkInv, Unbroken
  <2> QED BY <2>2, <2>3, <2>4, <2>5, <2>6 DEF SinkInv
<1> QED BY <1>1, <1>2

(* There are never more than max_files files, unless the index could not   *)
(* be saved or a crash came between saving it and removing the oldest one;  *)
(* no file exceeds max_file_size, and what is in them is in order and there *)
(* once, whatever writes, flushes and closes fail, until a stream that has *)
(* failed is closed; and as long as no close() has failed and nobody        *)
(* crashes they hold an unbroken tail of what was handed to the stream, up  *)
(* to what it still keeps: FileSink::Impl (logger_impl.cpp:70-149), against *)
(* logger.hpp:132.                                                         *)
THEOREM FilesKept ==
  ASSUME SinkAssumptions
  PROVE  SinkSpec => []Retention
<1>1. SinkInit => SinkInv
  <2> SUFFICES ASSUME SinkInit PROVE SinkInv
    OBVIOUS
  <2>1. disk = <<>> /\ DOMAIN disk = {} /\ sent = 0 /\ damage = {} /\ ~good /\ buffer = <<>>
    BY DEF SinkInit
  <2>2. SinkTypeOK
    <3>1. sent \in 0 .. MaxBytes /\ saved \in Nat \cup {NoIndex} /\ buffer \in Seq(1 .. MaxBytes)
      BY EmptySeq DEF SinkInit, SinkAssumptions
    <3> QED BY <2>1, <3>1 DEF SinkInit, SinkTypeOK
  <2>3. Filling /\ Windowed
    BY <2>1 DEF SinkInit, Filling, Windowed, SinkAssumptions
  <2>4. Top = 0
    BY <2>1 DEF Top
  <2>5. \A b : ~Has(disk, b)
    BY <2>1 DEF Has
  <2>6. Orderly(disk) /\ Below(disk, Top)
    BY <2>1, <2>5 DEF Orderly, Below
  <2>7. Unbroken(Top)
    <3>1. 1 \in 1 .. 0 + 1 /\ Covers(disk, 1, 0)
      BY <2>5 DEF Covers
    <3> QED BY <2>4, <3>1 DEF Unbroken
  <2> QED BY <2>1, <2>2, <2>3, <2>6, <2>7 DEF SinkInv
<1>2. SinkInv /\ [SinkNext]_sinkVars => SinkInv'
  BY SinkHolds
<1>3. SinkInv => Retention
  <2> SUFFICES ASSUME SinkInv PROVE Retention
    OBVIOUS
  <2>0. SinkTypeOK /\ Filling
    BY DEF SinkInv
  <2>1. ASSUME damage \cap {"index", "torn"} = {} PROVE Cardinality(DOMAIN disk) <= MaxFiles
    <3>1. Windowed /\ index \in Nat /\ MaxFiles \in Nat
      BY <2>0, <2>1, Figures DEF SinkInv, Indexed
    <3>2. PICK a \in Int, b \in Int : DOMAIN disk \subseteq a .. b /\ b = a + MaxFiles - 1
      <4>1. CASE spc \in {"rotate save", "expire"}
        <5>1. DOMAIN disk \subseteq index - MaxFiles .. index - 1
          BY <3>1, <4>1 DEF Windowed
        <5>2. /\ index - MaxFiles \in Int /\ index - 1 \in Int
              /\ index - 1 = (index - MaxFiles) + MaxFiles - 1
          BY <3>1
        <5> QED BY <5>1, <5>2
      <4>2. CASE spc \notin {"rotate save", "expire"}
        <5>1. DOMAIN disk \subseteq index - MaxFiles + 1 .. index
          BY <3>1, <4>2 DEF Windowed
        <5>2. /\ index - MaxFiles + 1 \in Int /\ index \in Int
              /\ index = (index - MaxFiles + 1) + MaxFiles - 1
          BY <3>1
        <5> QED BY <5>1, <5>2
      <4> QED BY <4>1, <4>2
    <3>3. IsFiniteSet(a .. b) /\ Cardinality(a .. b) = IF a > b THEN 0 ELSE b - a + 1
      BY FS_Interval
    <3>4. Cardinality(a .. b) <= MaxFiles
      BY <3>1, <3>2, <3>3
    <3>5. Cardinality(DOMAIN disk) <= Cardinality(a .. b)
      BY <3>2, <3>3, FS_Subset
    <3>6. Cardinality(DOMAIN disk) \in Nat /\ Cardinality(a .. b) \in Nat
      BY <3>2, <3>3, FS_Subset, FS_CardinalityType
    <3> QED BY <3>1, <3>4, <3>5, <3>6
  <2>2. "again" \notin damage => \A i \in DOMAIN disk : Len(disk[i]) <= MaxFileSize
    BY <2>0 DEF Filling
  <2>3. ASSUME damage \cap {"index", "torn", "again"} = {} PROVE Ascending
    <3>1. Indexed /\ "again" \notin damage
      BY <2>3 DEF Indexed
    <3> QED BY <2>0, <2>2, <3>1, PlacesOrder DEF SinkInv
  <2>4. ASSUME damage \subseteq {"failed"}
        PROVE  \E last \in 0 .. sent :
                 Seamless(last) /\ (damage = {} => last = sent - Len(buffer))
    <3>1. "again" \notin damage /\ (damage = {} \/ damage = {"failed"})
      BY <2>4
    <3>2. sent \in Nat /\ Len(buffer) \in Nat
      BY <2>0, Figures
    <3>3. CASE damage = {}
      <4>1. Top = sent - Len(buffer) /\ Top \in 0 .. sent
        <5>1. good => Len(buffer) <= sent
          BY <2>0 DEF Filling
        <5>2. ~good => Len(buffer) = 0
          BY <2>0, <3>3, EmptySeq DEF Filling
        <5> QED BY <3>2, <5>1, <5>2 DEF Top
      <4>2. Seamless(Top)
        <5>1. Unbroken(Top) /\ Top \in Nat
          BY <3>2, <3>3, <4>1 DEF SinkInv
        <5> QED BY <2>0, <2>2, <3>1, <5>1, PlacesOrder
      <4> QED BY <4>1, <4>2
    <3>4. CASE damage = {"failed"}
      <4>1. PICK last \in 0 .. sent : Unbroken(last)
        BY <3>4 DEF SinkInv
      <4>2. last \in Nat /\ damage # {}
        BY <3>4
      <4>3. Seamless(last)
        BY <2>0, <2>2, <3>1, <4>1, <4>2, PlacesOrder
      <4> QED BY <4>1, <4>2, <4>3
    <3> QED BY <3>1, <3>3, <3>4
  <2> QED BY <2>1, <2>2, <2>3, <2>4 DEF Retention
<1> QED BY <1>1, <1>2, <1>3, PTL DEF SinkSpec

-----------------------------------------------------------------------------
(* Camera *)

(* The calls of open() before there is a handle. *)
Firsts == {"library", "enumerate", "create", "attach"}

Sorts == {"constructor", "reconnect", "release", "read"}
Names == {"library", "enumerate", "create", "attach", "open", "set", "try", "start",
          "stop", "close", "destroy", "detach", "get", "convert", "free"}
Steps == [of : Sorts, do : Names]

Opening(c) ==
  c.of \in {"constructor", "reconnect"} /\ c.do \in Firsts \cup {"open", "set", "try", "start"}
Releasing(c) == c.of = "release" /\ c.do \in {"stop", "close", "destroy", "detach"}
Fetching(c) == c.of = "read" /\ c.do \in {"start", "get", "convert", "free"}

(* What follows a call, and what the last one is. *)
Follows(c, d) ==
  \/ Opening(c) /\ Opening(d) /\ (d.do \in Firsts => c.do \in {"library", "enumerate"})
  \/ Releasing(c) /\ Releasing(d)
  \/ Releasing(c) /\ c.do \in {"destroy", "detach"} /\ Opening(d)
  \/ Fetching(c) /\ Fetching(d)
     /\ <<c.do, d.do>> \in {<<"start", "get">>, <<"get", "convert">>, <<"convert", "free">>}

Ends(c) ==
  /\ Releasing(c) => c.do \in {"destroy", "detach"}
  /\ Fetching(c) => c.do = "free"

Planned(s) ==
  /\ s \in Seq(Steps)
  /\ \A i \in 1 .. Len(s) : Opening(s[i]) \/ Releasing(s[i]) \/ Fetching(s[i])
  /\ \A i \in 1 .. Len(s) : i + 1 \in 1 .. Len(s) => Follows(s[i], s[i + 1])
  /\ s # <<>> => Ends(s[Len(s)])

(* What the next call c finds: the handles hs, the current one h, the      *)
(* frames fr that are not given back.                                      *)
Ready(c, k, hs, h, fr) ==
  /\ hs \subseteq {h}
  /\ Opening(c) => fr = 0 /\ (c.do \in Firsts => hs = {})
  /\ Releasing(c) /\ fr # 0 => h \in hs /\ k = "galaxy"
  /\ Fetching(c) => IF c.do \in {"start", "get"} THEN fr = 0 ELSE fr = 1 /\ h \in hs

Done(hs, h, fr, over) == hs \subseteq {h} /\ fr = 0 /\ (over => hs = {})

Safe(s, k, hs, h, fr, over) == IF s = <<>> THEN Done(hs, h, fr, over) ELSE Ready(s[1], k, hs, h, fr)

CameraInv ==
  /\ CameraTypeOK
  /\ Planned(doing)
  /\ gone => \A i \in 1 .. Len(doing) : Releasing(doing[i])
  /\ ~gaveUp => Safe(doing, kind, handles, handle, frames, gone)
  /\ result => image = "new" \/ (kind = "mv" /\ image = "old")
  /\ ~Idle /\ Fetching(doing[1]) /\ doing[1].do # "free" => ~result

(* The sequences that the calls of the class are made of. *)
LEMMA CallsAre ==
  ASSUME NEW of \in Sorts, NEW names \in Seq(Names)
  PROVE  /\ Calls(of, names) \in Seq(Steps)
         /\ Len(Calls(of, names)) = Len(names)
         /\ \A i \in 1 .. Len(names) : Calls(of, names)[i].of = of /\ Calls(of, names)[i].do = names[i]
<1>1. DOMAIN names = 1 .. Len(names) /\ Len(names) \in Nat /\ \A i \in 1 .. Len(names) : names[i] \in Names
  OBVIOUS
<1>2. Calls(of, names) \in [1 .. Len(names) -> Steps]
  BY <1>1 DEF Calls, Steps
<1>3. Calls(of, names) \in Seq(Steps)
  BY <1>1, <1>2, IsASeq
<1>4. Len(Calls(of, names)) = Len(names)
  BY <1>1, <1>2, <1>3, LenProperties
<1> QED BY <1>1, <1>3, <1>4 DEF Calls

LEMMA MaybeOne ==
  ASSUME NEW S, NEW x \in S, NEW s, s = <<x>> \/ s = <<>>
  PROVE  s \in Seq(S) /\ Len(s) \in 0 .. 1 /\ \A i \in 1 .. Len(s) : s[i] = x
<1>1. CASE s = <<x>>
  BY <1>1
<1>2. CASE s = <<>>
  BY <1>2
<1> QED BY <1>1, <1>2

LEMMA PlanOfTwo ==
  ASSUME NEW a \in Seq(Names), NEW b \in Seq(Names)
  PROVE  /\ a \o b \in Seq(Names) /\ Len(a \o b) = Len(a) + Len(b)
         /\ \A i \in 1 .. Len(a) + Len(b) : (a \o b)[i] = IF i <= Len(a) THEN a[i] ELSE b[i - Len(a)]
         /\ Len(a) \in Nat /\ Len(b) \in Nat
OBVIOUS

LEMMA OpeningCalls ==
  ASSUME NEW g \in {"constructor", "reconnect"}, CameraTypeOK
  PROVE  /\ Planned(Open(g)) /\ Open(g) # <<>>
         /\ \A i \in 1 .. Len(Open(g)) : Opening(Open(g)[i])
<1> DEFINE Good(names) == /\ names \in Seq(Names) /\ names # <<>>
                          /\ \A i \in 1 .. Len(names) : names[i] \in Firsts \cup {"open", "set", "try", "start"}
                          /\ \A i \in 1 .. Len(names) : i + 1 \in 1 .. Len(names) /\ names[i + 1] \in Firsts
                                                        => names[i] \in {"library", "enumerate"}
<1>1. ASSUME NEW names, Good(names)
      PROVE  /\ Planned(Calls(g, names)) /\ Calls(g, names) # <<>>
             /\ \A i \in 1 .. Len(Calls(g, names)) : Opening(Calls(g, names)[i])
  <2> DEFINE s == Calls(g, names)
  <2>1. /\ s \in Seq(Steps) /\ Len(s) = Len(names) /\ Len(names) \in Nat
        /\ \A i \in 1 .. Len(names) : s[i].of = g /\ s[i].do = names[i]
    BY <1>1, CallsAre DEF Sorts
  <2> HIDE DEF s
  <2>2. \A i \in 1 .. Len(s) : Opening(s[i]) /\ ~Releasing(s[i]) /\ ~Fetching(s[i]) /\ Ends(s[i])
    BY <1>1, <2>1 DEF Opening, Releasing, Fetching, Ends
  <2>3. s # <<>> /\ Len(s) \in 1 .. Len(s)
    BY <1>1, <2>1
  <2>4. \A i \in 1 .. Len(s) : i + 1 \in 1 .. Len(s) => Follows(s[i], s[i + 1])
    BY <1>1, <2>1, <2>2 DEF Follows
  <2> QED BY <2>1, <2>2, <2>3, <2>4 DEF Planned, s
<1>2. Good(HikOpen)
  BY DEF HikOpen, Firsts, Names
<1>3. Good(MvOpen)
  BY DEF MvOpen, Firsts, Names
<1>4. Good(OptOpen)
  BY DEF OptOpen, Firsts, Names
<1>5. Good(GalaxyOpen)
  <2> DEFINE a == <<"library", "enumerate", "attach", "try">>
             b == IF continuous THEN <<"start">> ELSE <<>>
  <2>1. /\ a \in Seq(Names) /\ Len(a) = 4 /\ a[1] = "library" /\ a[2] = "enumerate"
        /\ a[3] = "attach" /\ a[4] = "try"
    BY DEF Names
  <2>2. b \in Seq(Names) /\ Len(b) \in 0 .. 1 /\ \A i \in 1 .. Len(b) : b[i] = "start"
    BY MaybeOne DEF Names
  <2>3. GalaxyOpen = a \o b
    BY DEF GalaxyOpen
  <2> HIDE DEF a, b
  <2> DEFINE c == GalaxyOpen
  <2>4. /\ c \in Seq(Names) /\ Len(c) = Len(a) + Len(b)
        /\ \A i \in 1 .. Len(c) : c[i] = IF i <= Len(a) THEN a[i] ELSE b[i - Len(a)]
    BY ZenonT(120), <2>1, <2>2, <2>3, PlanOfTwo
  <2> HIDE DEF c
  <2>5. /\ Len(c) \in 4 .. 5 /\ c[1] = "library" /\ c[2] = "enumerate" /\ c[3] = "attach"
        /\ c[4] = "try" /\ (Len(c) = 5 => c[5] = "start")
    BY <2>1, <2>2, <2>4
  <2>6. Good(c)
    BY SMTT(30), <2>4, <2>5 DEF Firsts
  <2> QED BY <2>6 DEF c
<1> HIDE DEF Good
<1> QED BY <1>1, <1>2, <1>3, <1>4, <1>5 DEF Open

LEMMA ReleasingCalls ==
  ASSUME CameraTypeOK
  PROVE  /\ Planned(Release) /\ \A i \in 1 .. Len(Release) : Releasing(Release[i])
         /\ Release = <<>> <=> kind = "opt" /\ handle \notin open
<1> DEFINE Good(names) == /\ names \in Seq(Names)
                          /\ \A i \in 1 .. Len(names) : names[i] \in {"stop", "close", "destroy", "detach"}
                          /\ names # <<>> => names[Len(names)] \in {"destroy", "detach"}
<1>1. ASSUME NEW names, Good(names)
      PROVE  /\ Planned(Calls("release", names)) /\ (Calls("release", names) = <<>> <=> names = <<>>)
             /\ \A i \in 1 .. Len(Calls("release", names)) : Releasing(Calls("release", names)[i])
  <2> DEFINE s == Calls("release", names)
  <2>1. /\ s \in Seq(Steps) /\ Len(s) = Len(names) /\ Len(names) \in Nat
        /\ \A i \in 1 .. Len(names) : s[i].of = "release" /\ s[i].do = names[i]
    BY <1>1, CallsAre DEF Sorts
  <2> HIDE DEF s
  <2>2. \A i \in 1 .. Len(s) : Releasing(s[i]) /\ ~Fetching(s[i])
    BY <1>1, <2>1 DEF Releasing, Fetching
  <2>3. s = <<>> <=> names = <<>>
    BY <1>1, <2>1
  <2>4. \A i \in 1 .. Len(s) : i + 1 \in 1 .. Len(s) => Follows(s[i], s[i + 1])
    BY <2>1, <2>2 DEF Follows
  <2>5. s # <<>> => Ends(s[Len(s)])
    BY <1>1, <2>1, <2>2, <2>3 DEF Ends
  <2> QED BY <2>1, <2>2, <2>3, <2>4, <2>5 DEF Planned, s
<1>2. Good(HikRelease) /\ HikRelease # <<>>
  BY DEF HikRelease, Names
<1>3. Good(GalaxyRelease) /\ GalaxyRelease # <<>>
  BY DEF GalaxyRelease, Names
<1>4. Good(MvRelease) /\ MvRelease # <<>>
  BY DEF MvRelease, Names
<1>5. Good(OptRelease) /\ (OptRelease = <<>> <=> handle \notin open)
  <2>1. CASE handle \notin open
    BY <2>1 DEF OptRelease
  <2>2. CASE handle \in open
    <3> DEFINE a == IF handle \in grabbing THEN <<"stop">> ELSE <<>>
               b == <<"close", "destroy">>
    <3>1. a \in Seq(Names) /\ Len(a) \in 0 .. 1 /\ \A i \in 1 .. Len(a) : a[i] = "stop"
      BY MaybeOne DEF Names
    <3>2. b \in Seq(Names) /\ Len(b) = 2 /\ b[1] = "close" /\ b[2] = "destroy"
      BY DEF Names
    <3>3. OptRelease = a \o b
      BY <2>2 DEF OptRelease
    <3> HIDE DEF a, b
    <3> DEFINE c == OptRelease
    <3>4. /\ c \in Seq(Names) /\ Len(c) = Len(a) + Len(b)
          /\ \A i \in 1 .. Len(c) : c[i] = IF i <= Len(a) THEN a[i] ELSE b[i - Len(a)]
      BY SMTT(30), <3>1, <3>2, <3>3, PlanOfTwo
    <3> HIDE DEF c
    <3>5. /\ Len(c) \in 2 .. 3 /\ c[Len(c)] = "destroy"
          /\ \A i \in 1 .. Len(c) : c[i] \in {"stop", "close", "destroy"}
      BY <3>1, <3>2, <3>4
    <3>6. Good(c) /\ c # <<>>
      BY <3>4, <3>5
    <3> QED BY <2>2, <3>6 DEF c
  <2> QED BY <2>1, <2>2
<1> HIDE DEF Good
<1>6. kind \in {"hik", "galaxy", "mv", "opt"}
  BY DEF CameraTypeOK, Kinds
<1> QED BY <1>1, <1>2, <1>3, <1>4, <1>5, <1>6 DEF Release

LEMMA FetchingCalls ==
  ASSUME CameraTypeOK
  PROVE  /\ Planned(Reading) /\ Reading # <<>>
         /\ \A i \in 1 .. Len(Reading) : Fetching(Reading[i])
         /\ Reading[1].do \in {"start", "get"}
<1> DEFINE Good(names) ==
             /\ names \in Seq(Names)
             /\ \/ Len(names) = 3 /\ names[1] = "get" /\ names[2] = "convert" /\ names[3] = "free"
                \/ /\ Len(names) = 4 /\ names[1] = "start" /\ names[2] = "get"
                   /\ names[3] = "convert" /\ names[4] = "free"
<1>1. ASSUME NEW names, Good(names)
      PROVE  LET s == Calls("read", names) IN
             /\ Planned(s) /\ s # <<>> /\ s[1].do \in {"start", "get"}
             /\ \A i \in 1 .. Len(s) : Fetching(s[i])
  <2> DEFINE s == Calls("read", names)
  <2>0. names \in Seq(Names) /\ Len(names) \in 3 .. 4
    BY <1>1
  <2>1. /\ s \in Seq(Steps) /\ Len(s) = Len(names) /\ Len(names) \in Nat
        /\ \A i \in 1 .. Len(names) : s[i].of = "read" /\ s[i].do = names[i]
    BY <2>0, CallsAre DEF Sorts
  <2> HIDE DEF s
  <2>2. \A i \in 1 .. Len(s) : Fetching(s[i]) /\ ~Releasing(s[i])
    BY <1>1, <2>1 DEF Releasing, Fetching
  <2>3. s # <<>> /\ s[1].do \in {"start", "get"} /\ s[Len(s)].do = "free"
    BY SMTT(30), <1>1, <2>0, <2>1
  <2>4. \A i \in 1 .. Len(s) : i + 1 \in 1 .. Len(s) =>
          <<s[i].do, s[i + 1].do>> \in {<<"start", "get">>, <<"get", "convert">>, <<"convert", "free">>}
    BY SMTT(30), <1>1, <2>0, <2>1
  <2>5. \A i \in 1 .. Len(s) : i + 1 \in 1 .. Len(s) => Follows(s[i], s[i + 1])
    BY <2>2, <2>4 DEF Follows
  <2>6. Ends(s[Len(s)])
    BY <2>0, <2>1, <2>2, <2>3 DEF Ends
  <2> QED BY <2>1, <2>2, <2>3, <2>5, <2>6 DEF Planned, s
<1>2. Good(HikRead) /\ Good(GalaxyRead) /\ Good(MvRead)
  BY DEF HikRead, GalaxyRead, MvRead, Names
<1>3. Good(OptRead)
  <2> DEFINE a == IF handle \notin grabbing THEN <<"start">> ELSE <<>>
             b == <<"get", "convert", "free">>
             c == OptRead
  <2>1. a \in Seq(Names) /\ Len(a) \in 0 .. 1 /\ \A i \in 1 .. Len(a) : a[i] = "start"
    BY MaybeOne DEF Names
  <2>2. b \in Seq(Names) /\ Len(b) = 3 /\ b[1] = "get" /\ b[2] = "convert" /\ b[3] = "free"
    BY DEF Names
  <2>3. c = a \o b
    BY DEF OptRead
  <2> HIDE DEF a, b, c
  <2>4. /\ c \in Seq(Names) /\ Len(c) = Len(a) + Len(b)
        /\ \A i \in 1 .. Len(c) : c[i] = IF i <= Len(a) THEN a[i] ELSE b[i - Len(a)]
    <3>1. a \in Seq(Names) /\ b \in Seq(Names)
      BY <2>1, <2>2
    <3> QED BY <2>3, <3>1, PlanOfTwo
  <2>5. CASE Len(a) = 0
    <3>1. Len(c) = 3 /\ c[1] = "get" /\ c[2] = "convert" /\ c[3] = "free"
      BY <2>1, <2>2, <2>4, <2>5
    <3> QED BY <2>4, <3>1 DEF c
  <2>6. CASE Len(a) = 1
    <3>1. Len(c) = 4 /\ c[1] = "start" /\ c[2] = "get" /\ c[3] = "convert" /\ c[4] = "free"
      BY <2>1, <2>2, <2>4, <2>6
    <3> QED BY <2>4, <3>1 DEF c
  <2>7. Len(a) = 0 \/ Len(a) = 1
    BY <2>1
  <2> QED BY <2>5, <2>6, <2>7
<1> HIDE DEF Good
<1> QED BY <1>1, <1>2, <1>3 DEF Reading

LEMMA RenewedCalls ==
  ASSUME CameraTypeOK
  PROVE  LET s == Release \o Open("reconnect") IN
         /\ Planned(s) /\ s # <<>>
         /\ s[1] = IF Release = <<>> THEN Open("reconnect")[1] ELSE Release[1]
<1> DEFINE r == Release
           o == Open("reconnect")
           s == r \o o
<1>1. /\ Planned(r) /\ \A i \in 1 .. Len(r) : Releasing(r[i])
      /\ Planned(o) /\ o # <<>> /\ \A i \in 1 .. Len(o) : Opening(o[i])
  BY ReleasingCalls, OpeningCalls
<1> HIDE DEF r, o
<1>2. r \in Seq(Steps) /\ o \in Seq(Steps)
  BY <1>1 DEF Planned
<1>3. /\ s \in Seq(Steps) /\ Len(s) = Len(r) + Len(o)
      /\ Len(r) \in Nat /\ Len(o) \in Nat /\ Len(o) > 0
      /\ \A i \in 1 .. Len(s) : s[i] = IF i <= Len(r) THEN r[i] ELSE o[i - Len(r)]
  BY <1>1, <1>2
<1> HIDE DEF s
<1>4. \A i \in 1 .. Len(s) : Opening(s[i]) \/ Releasing(s[i]) \/ Fetching(s[i])
  <2> SUFFICES ASSUME NEW i \in 1 .. Len(s) PROVE Opening(s[i]) \/ Releasing(s[i])
    OBVIOUS
  <2>1. CASE i <= Len(r)
    BY <1>1, <1>3, <2>1
  <2>2. CASE i > Len(r)
    BY <1>1, <1>3, <2>2
  <2> QED BY <1>3, <2>1, <2>2
<1>5. \A i \in 1 .. Len(s) : i + 1 \in 1 .. Len(s) => Follows(s[i], s[i + 1])
  <2> SUFFICES ASSUME NEW i \in 1 .. Len(s), i + 1 \in 1 .. Len(s) PROVE Follows(s[i], s[i + 1])
    OBVIOUS
  <2>1. CASE i + 1 <= Len(r)
    <3>1. i \in 1 .. Len(r) /\ i + 1 \in 1 .. Len(r) /\ s[i] = r[i] /\ s[i + 1] = r[i + 1]
      BY <1>3, <2>1
    <3> QED BY <1>1, <3>1 DEF Planned
  <2>2. CASE i = Len(r)
    <3>1. s[i] = r[Len(r)] /\ s[i + 1] = o[1] /\ 1 \in 1 .. Len(o) /\ r # <<>> /\ Len(r) \in 1 .. Len(r)
      BY <1>3, <2>2
    <3>2. Releasing(s[i]) /\ Opening(s[i + 1]) /\ Ends(s[i])
      BY <1>1, <3>1 DEF Planned
    <3> QED BY <3>2 DEF Follows, Ends
  <2>3. CASE i > Len(r)
    <3>1. /\ i - Len(r) \in 1 .. Len(o) /\ (i - Len(r)) + 1 \in 1 .. Len(o)
          /\ s[i] = o[i - Len(r)] /\ s[i + 1] = o[(i - Len(r)) + 1]
      BY <1>3, <2>3
    <3> QED BY <1>1, <3>1 DEF Planned
  <2> QED BY <1>3, <2>1, <2>2, <2>3
<1>6. s # <<>> /\ s[Len(s)] = o[Len(o)]
  BY <1>3
<1>7. Ends(s[Len(s)])
  BY <1>1, <1>6 DEF Planned
<1>8. s[1] = IF r = <<>> THEN o[1] ELSE r[1]
  <2>1. r = <<>> <=> Len(r) = 0
    BY <1>2
  <2> QED BY <1>3, <2>1
<1> QED BY <1>3, <1>4, <1>5, <1>6, <1>7, <1>8 DEF Planned, s, r, o

LEMMA TailPlanned ==
  ASSUME NEW s, Planned(s), s # <<>>
  PROVE  /\ Planned(Tail(s)) /\ Head(s) = s[1]
         /\ Tail(s) = <<>> => Ends(s[1])
         /\ Tail(s) # <<>> => Follows(s[1], Tail(s)[1])
         /\ \A i \in 1 .. Len(Tail(s)) : i + 1 \in 1 .. Len(s) /\ Tail(s)[i] = s[i + 1]
         /\ Opening(s[1]) \/ Releasing(s[1]) \/ Fetching(s[1])
<1> DEFINE t == Tail(s)
<1>1. /\ s \in Seq(Steps) /\ Len(s) \in Nat /\ Len(s) >= 1
  BY DEF Planned
<1>2. /\ t \in Seq(Steps) /\ Len(t) = Len(s) - 1
      /\ \A i \in 1 .. Len(t) : t[i] = s[i + 1]
  BY <1>1
<1> HIDE DEF t
<1>8. t = <<>> <=> Len(s) = 1
  BY <1>1, <1>2
<1>3. /\ \A i \in 1 .. Len(t) : i + 1 \in 1 .. Len(s) /\ i \in 1 .. Len(s) /\ t[i] = s[i + 1]
      /\ \A i \in 1 .. Len(t) : i + 1 \in 1 .. Len(t) => (i + 1) + 1 \in 1 .. Len(s) /\ t[i + 1] = s[(i + 1) + 1]
  BY <1>1, <1>2
<1>4. /\ \A i \in 1 .. Len(t) : Opening(t[i]) \/ Releasing(t[i]) \/ Fetching(t[i])
      /\ \A i \in 1 .. Len(t) : i + 1 \in 1 .. Len(t) => Follows(t[i], t[i + 1])
  BY <1>3 DEF Planned
<1>5. t # <<>> => t[Len(t)] = s[Len(s)] /\ t[1] = s[1 + 1] /\ 1 \in 1 .. Len(s) /\ 1 + 1 \in 1 .. Len(s)
  BY <1>1, <1>2
<1>6. t = <<>> => Len(s) = 1
  BY <1>8
<1>7. Head(s) = s[1] /\ 1 \in 1 .. Len(s)
  BY <1>1
<1> QED BY <1>2, <1>3, <1>4, <1>5, <1>6, <1>7 DEF Planned, t

(* A call that has been made, or has failed and been passed over.  d is    *)
(* whatever follows it.                                                    *)
LEMMA Passes ==
  ASSUME NEW s, Planned(s), s # <<>>, NEW k, NEW over, over => \A i \in 1 .. Len(s) : Releasing(s[i]),
         NEW hs, NEW h, NEW fr,
         \A d : Follows(s[1], d) => Ready(d, k, hs, h, fr),
         Ends(s[1]) => Done(hs, h, fr, over)
  PROVE  /\ Planned(Tail(s)) /\ Safe(Tail(s), k, hs, h, fr, over)
         /\ over => \A i \in 1 .. Len(Tail(s)) : Releasing(Tail(s)[i])
BY TailPlanned DEF Safe

LEMMA SucceedHolds == ASSUME CameraInv, Succeed PROVE CameraInv'
<1> DEFINE c == doing[1]
<1>1. /\ CameraTypeOK /\ Planned(doing) /\ (gone => \A i \in 1 .. Len(doing) : Releasing(doing[i]))
      /\ ~gaveUp => Ready(c, kind, handles, handle, frames)
      /\ doing # <<>> /\ Head(doing) = c
      /\ result => image = "new" \/ (kind = "mv" /\ image = "old")
      /\ Fetching(c) /\ c.do # "free" => ~result
  BY TailPlanned DEF CameraInv, Succeed, Idle, Safe
<1>2. /\ Opening(c) \/ Releasing(c) \/ Fetching(c)
  BY <1>1, TailPlanned
<1>3. /\ Able(c.do) /\ (c.do \in {"create", "attach"} => handles # 1 .. MaxHandles)
      /\ Effect(c.do) /\ isOpened' = Flag(c) /\ doing' = Tail(doing)
      /\ IF c.do = "convert" THEN image' = "new" /\ result' = TRUE ELSE UNCHANGED <<image, result>>
      /\ UNCHANGED <<kind, continuous, plugged, counts, gone, gaveUp, faultCount, unplugs>>
  BY <1>1 DEF Succeed
<1>4. /\ handle \in 0 .. MaxHandles /\ handles \subseteq 1 .. MaxHandles /\ held \in open \cup {0}
      /\ open \subseteq handles /\ grabbing \subseteq open /\ frames \in Nat /\ 0 \notin handles
  BY <1>1 DEF CameraTypeOK
<1>5. c.do \in {"create", "attach"} => Unused \in 1 .. MaxHandles /\ Unused \notin handles
  BY <1>3, <1>4 DEF Unused
<1> HIDE DEF c
<1>6. CameraTypeOK'
  <2>1. /\ handle' \in 0 .. MaxHandles /\ handles' \subseteq 1 .. MaxHandles /\ frames' \in Nat
        /\ held' \in open' \cup {0} /\ open' \subseteq handles' /\ grabbing' \subseteq open'
    BY <1>3, <1>4, <1>5 DEF Effect, Able
  <2>2. image' \in {"empty", "old", "new"} /\ result' \in BOOLEAN /\ isOpened' \in BOOLEAN
    BY <1>1, <1>3 DEF Flag, CameraTypeOK
  <2> QED BY <1>1, <1>3, <2>1, <2>2 DEF CameraTypeOK
<1>7. ASSUME ~gaveUp
      PROVE  /\ \A d : Follows(c, d) => Ready(d, kind, handles', handle', frames')
             /\ Ends(c) => Done(handles', handle', frames', gone)
  <2>1. CASE Opening(c)
    <3>1. c.do \in Firsts \cup {"open", "set", "try", "start"} /\ handles \subseteq {handle} /\ frames = 0
          /\ (c.do \in Firsts => handles = {}) /\ ~Releasing(c) /\ ~Fetching(c)
      BY <1>1, <1>7, <2>1 DEF Ready, Opening, Releasing, Fetching
    <3>2. frames' = 0 /\ handles' \subseteq {handle'} /\ (c.do \in {"library", "enumerate"} => handles' = {})
      BY <1>3, <3>1 DEF Effect, Firsts
    <3>3. ~gone
      BY <1>1, <3>1 DEF Planned
    <3> QED BY <3>1, <3>2, <3>3 DEF Follows, Ready, Done, Opening, Releasing, Fetching
  <2>2. CASE Releasing(c)
    <3>1. /\ c.do \in {"stop", "close", "destroy", "detach"} /\ handles \subseteq {handle}
          /\ ~Opening(c) /\ ~Fetching(c)
      BY <1>1, <1>7, <2>2 DEF Ready, Opening, Releasing, Fetching
    <3>2. /\ frames' = 0 /\ handles' \subseteq {handle'}
          /\ c.do \in {"destroy", "detach"} => handles' = {}
      BY <1>3, <3>1 DEF Effect
    <3> QED BY <3>1, <3>2, <2>2 DEF Follows, Ready, Done, Opening, Releasing, Fetching, Ends
  <2>3. CASE Fetching(c)
    <3>1. /\ c.do \in {"start", "get", "convert", "free"} /\ handles \subseteq {handle}
          /\ IF c.do \in {"start", "get"} THEN frames = 0 ELSE frames = 1 /\ handle \in handles
          /\ ~Opening(c) /\ ~Releasing(c)
      BY <1>1, <1>7, <2>3 DEF Ready, Opening, Releasing, Fetching
    <3>2. /\ handle' = handle /\ handles' = handles /\ (c.do = "get" => handle \in handles)
          /\ c.do \in {"start", "free"} => frames' = 0
          /\ c.do \in {"get", "convert"} => frames' = 1
      BY <1>3, <1>4, <3>1 DEF Effect, Able
    <3>3. ~gone
      BY <1>1, <3>1 DEF Planned
    <3>4. ASSUME NEW d, Follows(c, d) PROVE Ready(d, kind, handles', handle', frames')
      <4>1. /\ Fetching(d) /\ ~Opening(d) /\ ~Releasing(d)
            /\ <<c.do, d.do>> \in {<<"start", "get">>, <<"get", "convert">>, <<"convert", "free">>}
        BY <3>1, <3>4 DEF Follows, Opening, Releasing, Fetching
      <4> QED BY <3>1, <3>2, <4>1 DEF Ready
    <3>5. Ends(c) => Done(handles', handle', frames', gone)
      BY <2>3, <3>1, <3>2, <3>3 DEF Ends, Done
    <3> QED BY <3>4, <3>5
  <2> QED BY <1>2, <2>1, <2>2, <2>3
<1>8. /\ Planned(doing') /\ (gone' => \A i \in 1 .. Len(doing') : Releasing(doing'[i]))
      /\ ~gaveUp => Safe(doing', kind', handles', handle', frames', gone')
  BY <1>1, <1>3, <1>7, Passes, TailPlanned DEF c
<1>9. result' => image' = "new" \/ (kind' = "mv" /\ image' = "old")
  BY <1>1, <1>3
<1>10. doing' # <<>> /\ Fetching(doing'[1]) /\ doing'[1].do # "free" => ~result'
  <2>1. doing' # <<>> => Follows(c, doing'[1])
    BY <1>1, <1>3, TailPlanned DEF c
  <2>2. Follows(c, doing'[1]) /\ Fetching(doing'[1]) /\ doing'[1].do # "free"
          => Fetching(c) /\ c.do \in {"start", "get"}
    BY DEF Follows, Opening, Releasing, Fetching
  <2> QED BY <1>1, <1>3, <2>1, <2>2
<1> QED BY <1>3, <1>6, <1>8, <1>9, <1>10 DEF CameraInv, Idle

(* A call that fails. *)
LEMMA FailHolds == ASSUME CameraInv, Fail PROVE CameraInv'
<1> DEFINE c == doing[1]
<1>1. /\ CameraTypeOK /\ Planned(doing) /\ (gone => \A i \in 1 .. Len(doing) : Releasing(doing[i]))
      /\ ~gaveUp => Ready(c, kind, handles, handle, frames)
      /\ doing # <<>> /\ Head(doing) = c
      /\ result => image = "new" \/ (kind = "mv" /\ image = "old")
      /\ Fetching(c) /\ c.do # "free" => ~result
  BY TailPlanned DEF CameraInv, Fail, Idle, Safe
<1>2. /\ Opening(c) \/ Releasing(c) \/ Fetching(c)
      /\ gone => Releasing(c)
      /\ doing \in Seq(Steps) /\ c \in Steps
  BY <1>1, TailPlanned DEF Planned
<1>3. Fault(c.do) /\ UNCHANGED <<kind, continuous, isOpened, gone, unplugs>>
  BY <1>1 DEF Fail
<1>4. /\ kind \in {"hik", "galaxy", "mv", "opt"} /\ image \in {"empty", "old", "new"}
      /\ handle \in 0 .. MaxHandles /\ handles \subseteq 1 .. MaxHandles /\ held \in open \cup {0}
      /\ open \subseteq handles /\ grabbing \subseteq open /\ frames \in Nat /\ 0 \notin handles
      /\ {continuous, plugged, isOpened, counts, result, gone, gaveUp} \subseteq BOOLEAN
  BY <1>1 DEF CameraTypeOK, Kinds
<1>5. CASE GoOn
  <2>1. /\ Ignored(c) /\ doing' = Tail(doing)
        /\ gaveUp' = (gaveUp \/ (c.do \in {"close", "destroy", "detach"} /\ handle \in handles))
        /\ UNCHANGED <<device, handle, counts, image, result>>
    BY <1>1, <1>5 DEF GoOn
  <2> HIDE DEF c
  <2>2. ASSUME ~gaveUp'
        PROVE  /\ \A d : Follows(c, d) => Ready(d, kind, handles, handle, frames)
               /\ Ends(c) => Done(handles, handle, frames, gone)
    <3>1. ~gaveUp /\ (c.do \in {"close", "destroy", "detach"} => handle \notin handles)
      BY <2>1, <2>2, <1>4
    <3>2. Ready(c, kind, handles, handle, frames)
      BY <1>1, <3>1
    <3>3. CASE Opening(c)
      <4>1. c.do \in {"try", "start"}
        BY <2>1, <3>3 DEF Ignored, Opening, Firsts
      <4>2. frames = 0 /\ handles \subseteq {handle} /\ ~Releasing(c) /\ ~Fetching(c) /\ ~gone
        BY <1>2, <3>2, <3>3 DEF Ready, Opening, Releasing, Fetching
      <4> QED BY <4>1, <4>2 DEF Follows, Ready, Done, Opening, Releasing, Fetching, Firsts
    <3>4. CASE Releasing(c)
      <4>1. /\ handles \subseteq {handle} /\ ~Opening(c) /\ ~Fetching(c)
            /\ c.do \in {"stop", "close", "destroy", "detach"}
            /\ frames # 0 => handle \in handles /\ kind = "galaxy"
        BY <3>2, <3>4 DEF Ready, Opening, Releasing, Fetching
      <4>2. c.do # "stop" => handles = {} /\ frames = 0
        BY <3>1, <4>1
      <4> QED BY <3>4, <4>1, <4>2 DEF Follows, Ready, Done, Opening, Releasing, Fetching, Ends
    <3>5. CASE Fetching(c)
      <4>1. c.do = "start"
        <5>1. c.do \in {"start", "free"} /\ (c.do = "free" => kind # "hik")
          BY <2>1, <3>5 DEF Ignored, Fetching
        <5>2. c.do = "free" => frames = 1
          BY <3>2, <3>5 DEF Ready
        <5> QED BY <1>3, <5>1, <5>2 DEF Fault, Able
      <4>2. handles \subseteq {handle} /\ frames = 0 /\ ~Opening(c) /\ ~Releasing(c)
        BY <3>2, <3>5, <4>1 DEF Ready, Opening, Releasing, Fetching
      <4>3. ASSUME NEW d, Follows(c, d) PROVE Ready(d, kind, handles, handle, frames)
        <5>1. Fetching(d) /\ ~Opening(d) /\ ~Releasing(d) /\ d.do = "get"
          BY <4>1, <4>2, <4>3 DEF Follows, Opening, Releasing, Fetching
        <5> QED BY <4>2, <5>1 DEF Ready
      <4> QED BY <3>5, <4>1, <4>3 DEF Ends
    <3> QED BY <1>2, <3>3, <3>4, <3>5
  <2>3. /\ Planned(doing') /\ (gone' => \A i \in 1 .. Len(doing') : Releasing(doing'[i]))
        /\ ~gaveUp' => Safe(doing', kind', handles', handle', frames', gone')
    BY <1>1, <1>3, <2>1, <2>2, Passes, TailPlanned DEF c, device
  <2>4. doing' # <<>> /\ Fetching(doing'[1]) /\ doing'[1].do # "free" => ~result'
    <3>1. doing' # <<>> => Follows(c, doing'[1])
      BY <1>1, <2>1, TailPlanned DEF c
    <3>2. Follows(c, doing'[1]) /\ Fetching(doing'[1]) /\ doing'[1].do # "free"
            => Fetching(c) /\ c.do \in {"start", "get"}
      BY DEF Follows, Opening, Releasing, Fetching
    <3> QED BY <1>1, <2>1, <3>1, <3>2
  <2>5. CameraTypeOK'
    BY <1>3, <1>4, <2>1 DEF CameraTypeOK, device, Kinds
  <2> QED BY <1>1, <1>3, <2>1, <2>3, <2>4, <2>5 DEF CameraInv, Idle
<1> DEFINE Rest == /\ CameraTypeOK' /\ doing' = <<>> /\ ~gone
                   /\ ~gaveUp' => Done(handles', handle', frames', gone)
                   /\ result' => image' = "new" \/ (kind = "mv" /\ image' = "old")
<1>6. ASSUME Rest PROVE CameraInv'
  <2>1. Planned(<<>>)
    BY EmptySeq DEF Planned
  <2>2. \A i \in 1 .. Len(<<>>) : Releasing((<<>>)[i])
    OBVIOUS
  <2> QED BY <1>3, <1>6, <2>1, <2>2 DEF CameraInv, Idle, Safe
<1>7. CASE OpenFails
  <2>1. /\ c.of \in {"constructor", "reconnect"} /\ doing' = <<>> /\ counts' \in BOOLEAN
        /\ UNCHANGED <<device, handle, image, result, gaveUp>>
    BY <1>1, <1>4, <1>7 DEF OpenFails
  <2> HIDE DEF c
  <2>2. Opening(c) /\ ~Releasing(c)
    BY <1>2, <2>1 DEF Opening, Releasing, Fetching
  <2>3. ~gaveUp => handles \subseteq {handle} /\ frames = 0
    BY <1>1, <2>2 DEF Ready
  <2>4. CameraTypeOK'
    BY <1>3, <1>4, <2>1 DEF CameraTypeOK, device, Kinds
  <2>5. Rest
    BY <1>1, <1>2, <2>1, <2>2, <2>3, <2>4 DEF Done, device
  <2> QED BY <1>6, <2>5
<1>8. CASE NoFrame /\ kind = "opt"
  <2>1. /\ c = [of |-> "read", do |-> "get"] /\ doing' = <<>> /\ image' = "empty" /\ frames' = frames
        /\ UNCHANGED <<counts, gaveUp, result, plugged, handles, open, held, grabbing, handle>>
    BY <1>1, <1>8 DEF NoFrame
  <2> HIDE DEF c
  <2>2. Fetching(c) /\ c.do = "get" /\ ~Releasing(c)
    BY <2>1 DEF Releasing, Fetching
  <2>3. ~gaveUp => handles \subseteq {handle} /\ frames = 0
    BY <1>1, <2>2 DEF Ready
  <2>4. CameraTypeOK'
    BY <1>3, <1>4, <2>1 DEF CameraTypeOK, Kinds
  <2>5. Rest
    BY <1>1, <1>2, <2>1, <2>2, <2>3, <2>4 DEF Done
  <2> QED BY <1>6, <2>5
<1>9. CASE NoImage /\ OptNoImage
  <2>1. /\ c = [of |-> "read", do |-> "convert"] /\ doing' = <<>> /\ image' = "empty" /\ gaveUp' = TRUE
        /\ UNCHANGED <<device, handle, counts, result>>
    BY <1>1, <1>9 DEF NoImage, OptNoImage
  <2> HIDE DEF c
  <2>2. Fetching(c) /\ c.do = "convert" /\ ~Releasing(c)
    BY <2>1 DEF Releasing, Fetching
  <2>3. CameraTypeOK'
    BY <1>3, <1>4, <2>1 DEF CameraTypeOK, Kinds, device
  <2>4. Rest
    BY <1>1, <1>2, <2>1, <2>2, <2>3
  <2> QED BY <1>6, <2>4
<1>10. CASE ReadFails
  <2>1. /\ c = [of |-> "read", do |-> "start"] \/ (kind = "hik" /\ c.do = "free")
        /\ doing' = <<>> /\ result' = FALSE /\ gaveUp' = (gaveUp \/ kind = "hik")
        /\ UNCHANGED <<device, handle, counts, image>>
    BY <1>1, <1>10 DEF ReadFails
  <2> HIDE DEF c
  <2>2. Fetching(c) /\ c.do \in {"start", "free"} /\ ~Releasing(c) /\ (c.do = "free" => kind = "hik")
    BY <1>2, <2>1 DEF Opening, Releasing, Fetching, Firsts
  <2>3. ~gaveUp' => handles \subseteq {handle} /\ frames = 0
    BY <1>1, <1>4, <2>1, <2>2 DEF Ready
  <2>4. CameraTypeOK'
    BY <1>3, <1>4, <2>1 DEF CameraTypeOK, Kinds, device
  <2>5. Rest
    BY <1>1, <1>2, <2>1, <2>2, <2>3, <2>4 DEF Done, device
  <2> QED BY <1>6, <2>5
<1>11. CASE ReleaseFails
  <2> DEFINE o == Open("reconnect")
  <2>1. /\ c.of = "release" /\ doing' = IF gone THEN <<>> ELSE o
        /\ gaveUp' = (gaveUp \/ handle \in handles)
        /\ UNCHANGED <<device, handle, counts, image, result>>
    BY <1>1, <1>11 DEF ReleaseFails
  <2> HIDE DEF c
  <2>2. Releasing(c)
    BY <1>2, <2>1 DEF Opening, Releasing, Fetching
  <2>3. ~gaveUp' => ~gaveUp /\ handles = {} /\ frames = 0
    BY <1>1, <1>4, <2>1, <2>2 DEF Ready
  <2>4. CameraTypeOK'
    BY <1>3, <1>4, <2>1 DEF CameraTypeOK, Kinds, device
  <2>5. Planned(o) /\ o # <<>> /\ \A i \in 1 .. Len(o) : Opening(o[i])
    BY <1>1, OpeningCalls
  <2> HIDE DEF o
  <2>6. Opening(o[1])
    BY <2>5 DEF Planned
  <2>7. Planned(doing') /\ (gone' => \A i \in 1 .. Len(doing') : Releasing(doing'[i]))
    <3>1. Planned(<<>>) /\ \A i \in 1 .. Len(<<>>) : Releasing((<<>>)[i])
      BY EmptySeq DEF Planned
    <3> QED BY <1>3, <1>4, <2>1, <2>5, <3>1
  <2>8. ~gaveUp' => Safe(doing', kind', handles', handle', frames', gone')
    BY <1>3, <1>4, <2>1, <2>3, <2>5, <2>6 DEF Safe, Done, Ready, device, Opening, Releasing, Fetching
  <2>9. doing' # <<>> => ~Fetching(doing'[1])
    BY <1>4, <2>1, <2>6 DEF Opening, Fetching
  <2> QED BY <1>1, <1>3, <2>1, <2>4, <2>7, <2>8, <2>9 DEF CameraInv, Idle
<1>12. CASE NoFrame /\ kind # "opt"
  <2> DEFINE o == Release \o Open("reconnect")
  <2>1. /\ c = [of |-> "read", do |-> "get"] /\ doing' = o /\ counts' = TRUE /\ gaveUp' = (gaveUp \/ Skipped)
        /\ image' = image /\ result' = (kind = "mv" /\ image # "empty")
        /\ frames' = IF kind = "galaxy" /\ Able("get") THEN frames + 1 ELSE frames
        /\ UNCHANGED <<plugged, handles, open, held, grabbing, handle>>
    BY <1>1, <1>12 DEF NoFrame, Renew
  <2> HIDE DEF c
  <2>2. Fetching(c) /\ c.do = "get" /\ ~Releasing(c)
    BY <2>1 DEF Releasing, Fetching
  <2>3. ~gaveUp => handles \subseteq {handle} /\ frames = 0
    BY <1>1, <2>2 DEF Ready
  <2>4. CameraTypeOK'
    <3>1. frames' \in Nat /\ result' \in BOOLEAN /\ gaveUp' \in BOOLEAN
      BY <1>4, <2>1 DEF Skipped
    <3> QED BY <1>3, <1>4, <2>1, <3>1 DEF CameraTypeOK, Kinds
  <2>5. /\ Planned(o) /\ o # <<>> /\ o[1] = Release[1] /\ Releasing(o[1])
    <3>1. /\ Planned(o) /\ o # <<>> /\ o[1] = IF Release = <<>> THEN Open("reconnect")[1] ELSE Release[1]
      BY <1>1, RenewedCalls
    <3>2. Release # <<>> /\ Planned(Release) /\ \A i \in 1 .. Len(Release) : Releasing(Release[i])
      BY <1>1, <1>12, ReleasingCalls
    <3>3. Releasing(Release[1])
      BY <3>2 DEF Planned
    <3> QED BY <3>1, <3>2, <3>3
  <2> HIDE DEF o
  <2>6. frames' # frames => kind = "galaxy" /\ handle \in handles
    BY <1>4, <2>1 DEF Able
  <2>7. ~gaveUp' => Safe(doing', kind', handles', handle', frames', gone')
    <3>1. ~gaveUp' => ~gaveUp
      BY <1>4, <2>1 DEF Skipped
    <3> QED BY <1>3, <2>1, <2>3, <2>5, <2>6, <3>1 DEF Safe, Ready, Opening, Releasing, Fetching
  <2>8. ~Fetching(doing'[1]) /\ ~gone
    BY <1>2, <2>1, <2>2, <2>5 DEF Releasing, Fetching
  <2>9. result' => image' = "new" \/ (kind' = "mv" /\ image' = "old")
    BY <1>3, <1>4, <2>1
  <2> QED BY <1>1, <1>3, <2>1, <2>4, <2>5, <2>7, <2>8, <2>9 DEF CameraInv, Idle
<1>13. CASE NoImage /\ (HikNoImage \/ GalaxyNoImage)
  <2>1. /\ c = [of |-> "read", do |-> "convert"] /\ doing' = Tail(doing) /\ gaveUp' = gaveUp
        /\ image' \in {"empty", image} /\ UNCHANGED <<device, handle, counts, result>>
    BY <1>1, <1>13 DEF NoImage, HikNoImage, GalaxyNoImage
  <2> HIDE DEF c
  <2>2. Fetching(c) /\ c.do = "convert" /\ ~Releasing(c) /\ ~Opening(c) /\ ~Ends(c)
    BY <2>1 DEF Releasing, Fetching, Opening, Ends
  <2>3. ASSUME ~gaveUp, NEW d, Follows(c, d) PROVE Ready(d, kind, handles, handle, frames)
    <3>1. Fetching(d) /\ d.do = "free" /\ ~Releasing(d) /\ ~Opening(d)
      BY <2>2, <2>3 DEF Follows, Opening, Releasing, Fetching
    <3> QED BY <1>1, <2>2, <2>3, <3>1 DEF Ready
  <2>4. /\ Planned(doing') /\ (gone' => \A i \in 1 .. Len(doing') : Releasing(doing'[i]))
        /\ ~gaveUp' => Safe(doing', kind', handles', handle', frames', gone')
    BY <1>1, <1>3, <2>1, <2>2, <2>3, Passes, TailPlanned DEF c, device
  <2>5. ~result
    BY <1>1, <2>2
  <2>6. CameraTypeOK'
    BY <1>3, <1>4, <2>1 DEF CameraTypeOK, device, Kinds
  <2> QED BY <1>3, <2>1, <2>4, <2>5, <2>6 DEF CameraInv, Idle
<1> QED
  <2>1. GoOn \/ OpenFails \/ ReleaseFails \/ NoFrame \/ NoImage \/ ReadFails
    BY DEF Fail
  <2>2. NoImage => HikNoImage \/ GalaxyNoImage \/ OptNoImage
    BY DEF NoImage
  <2> QED BY <1>5, <1>7, <1>8, <1>9, <1>10, <1>11, <1>12, <1>13, <2>1, <2>2

(* The calls of the class, and the device that goes and comes. *)
LEMMA UserHolds ==
  ASSUME CameraInv, Unplug \/ Plug \/ Read \/ Reconnect \/ DestroyCamera
  PROVE  CameraInv'
<1>1. /\ CameraTypeOK /\ Planned(doing)
      /\ kind \in {"hik", "galaxy", "mv", "opt"} /\ image \in {"empty", "old", "new"}
      /\ handle \in 0 .. MaxHandles /\ handles \subseteq 1 .. MaxHandles /\ held \in open \cup {0}
      /\ open \subseteq handles /\ grabbing \subseteq open /\ frames \in Nat
      /\ {continuous, plugged, isOpened, counts, result, gone, gaveUp} \subseteq BOOLEAN
  BY DEF CameraInv, CameraTypeOK, Kinds
<1>2. CASE Unplug \/ Plug
  <2>1. /\ held' \in {held, 0} /\ plugged' \in BOOLEAN
        /\ UNCHANGED <<kind, continuous, handles, open, grabbing, frames, handle, isOpened,
                       counts, doing, image, result, gone, gaveUp>>
    BY <1>2 DEF Unplug, Plug
  <2>2. CameraTypeOK'
    BY <1>1, <2>1 DEF CameraTypeOK, Kinds
  <2> QED BY <2>1, <2>2 DEF CameraInv, Idle
<1>3. ~gaveUp /\ Idle => Done(handles, handle, frames, gone)
  BY DEF CameraInv, Safe, Idle
<1>4. CASE Read
  <2>1. /\ Idle /\ ~gone /\ doing' = Reading /\ image' \in {"empty", "old"} /\ result' = FALSE
        /\ UNCHANGED <<kind, continuous, device, handle, isOpened, counts, gone, gaveUp>>
    BY <1>4 DEF Read
  <2>2. Planned(Reading) /\ Reading # <<>> /\ Reading[1].do \in {"start", "get"} /\ Fetching(Reading[1])
    <3>1. Planned(Reading) /\ Reading # <<>> /\ \A i \in 1 .. Len(Reading) : Fetching(Reading[i])
      BY <1>1, FetchingCalls
    <3> QED BY <1>1, <3>1, FetchingCalls DEF Planned
  <2>3. CameraTypeOK'
    BY <1>1, <2>1 DEF CameraTypeOK, Kinds, device
  <2>4. ~gaveUp' => Safe(doing', kind', handles', handle', frames', gone')
    BY <1>3, <2>1, <2>2 DEF Safe, Done, Ready, device, Opening, Releasing, Fetching
  <2> QED BY <2>1, <2>2, <2>3, <2>4 DEF CameraInv, Idle
<1>5. CASE Reconnect
  <2> DEFINE o == Release \o Open("reconnect")
  <2>1. /\ Idle /\ ~gone /\ doing' = o /\ counts' = TRUE /\ gaveUp' = (gaveUp \/ Skipped)
        /\ UNCHANGED <<kind, continuous, device, handle, isOpened, image, result, gone>>
    BY <1>5 DEF Reconnect, Renew
  <2>2. /\ Planned(o) /\ o # <<>>
        /\ IF kind = "opt" /\ handle \notin open THEN Opening(o[1]) ELSE Releasing(o[1])
    <3>1. /\ Planned(o) /\ o # <<>> /\ o[1] = IF Release = <<>> THEN Open("reconnect")[1] ELSE Release[1]
      BY <1>1, RenewedCalls
    <3>2. /\ Release = <<>> <=> kind = "opt" /\ handle \notin open
          /\ Planned(Release) /\ \A i \in 1 .. Len(Release) : Releasing(Release[i])
      BY <1>1, ReleasingCalls
    <3>3. Release # <<>> => Releasing(Release[1])
      BY <3>2 DEF Planned
    <3>4. Opening(Open("reconnect")[1])
      <4>1. LET p == Open("reconnect") IN
            Planned(p) /\ p # <<>> /\ \A i \in 1 .. Len(p) : Opening(p[i])
        BY <1>1, OpeningCalls
      <4> QED BY <4>1 DEF Planned
    <3> QED BY <3>1, <3>2, <3>3, <3>4
  <2> HIDE DEF o
  <2>3. CameraTypeOK'
    <3>1. gaveUp' \in BOOLEAN
      BY <1>1, <2>1 DEF Skipped
    <3> QED BY <1>1, <2>1, <3>1 DEF CameraTypeOK, Kinds, device
  <2>4. ~gaveUp' => ~gaveUp /\ ~Skipped
    BY <1>1, <2>1 DEF Skipped
  <2>5. ~gaveUp' => Safe(doing', kind', handles', handle', frames', gone')
    <3>1. CASE kind = "opt" /\ handle \notin open
      <4>1. ~gaveUp' => handles = {} /\ frames = 0
        BY <1>3, <2>1, <2>4, <3>1 DEF Done, Skipped
      <4> QED BY <2>1, <2>2, <3>1, <4>1 DEF Safe, Ready, device, Opening, Releasing, Fetching
    <3>2. CASE ~(kind = "opt" /\ handle \notin open)
      <4>1. ~gaveUp' => handles \subseteq {handle} /\ frames = 0
        BY <1>3, <2>1, <2>4 DEF Done
      <4> QED BY <2>1, <2>2, <3>2, <4>1 DEF Safe, Ready, device, Opening, Releasing, Fetching
    <3> QED BY <3>1, <3>2
  <2>6. ~Fetching(doing'[1])
    BY <2>1, <2>2 DEF Opening, Releasing, Fetching
  <2> QED BY <2>1, <2>2, <2>3, <2>5, <2>6 DEF CameraInv, Idle
<1>6. CASE DestroyCamera
  <2>1. /\ Idle /\ ~gone /\ gone' = TRUE /\ doing' = Release /\ gaveUp' = (gaveUp \/ Skipped)
        /\ UNCHANGED <<kind, continuous, device, handle, isOpened, counts, image, result>>
    BY <1>6 DEF DestroyCamera
  <2>2. /\ Release = <<>> <=> kind = "opt" /\ handle \notin open
        /\ Planned(Release) /\ \A i \in 1 .. Len(Release) : Releasing(Release[i])
    BY <1>1, ReleasingCalls
  <2>3. Release # <<>> => Releasing(Release[1])
    BY <2>2 DEF Planned
  <2>4. CameraTypeOK'
    <3>1. gaveUp' \in BOOLEAN
      BY <1>1, <2>1 DEF Skipped
    <3> QED BY <1>1, <2>1, <3>1 DEF CameraTypeOK, Kinds, device
  <2>5. ~gaveUp' => ~gaveUp /\ ~Skipped
    BY <1>1, <2>1 DEF Skipped
  <2>6. ~gaveUp' => Safe(doing', kind', handles', handle', frames', gone')
    <3>1. ~gaveUp' => handles \subseteq {handle} /\ frames = 0 /\ (Release = <<>> => handles = {})
      BY <1>3, <2>1, <2>2, <2>5 DEF Done, Skipped
    <3> QED BY <2>1, <2>3, <3>1 DEF Safe, Ready, Done, device, Opening, Releasing, Fetching
  <2>7. doing' # <<>> => ~Fetching(doing'[1])
    BY <2>1, <2>3 DEF Releasing, Fetching
  <2> QED BY <2>1, <2>2, <2>4, <2>6, <2>7 DEF CameraInv, Idle
<1> QED BY <1>2, <1>4, <1>5, <1>6

(* Returned (hik_camera.cpp:62, galaxy_camera.cpp:221,                     *)
(* mv_camera_impl.h:75, opt_camera.cpp:180, :235): whichever calls fail    *)
(* and whenever the device goes, between the calls of the class no handle  *)
(* but the current one exists, none when the object is gone, no frame is   *)
(* kept, and a read() that succeeds has an image, unless the SDK refuses a *)
(* release or a conversion that fails keeps a frame.                       *)
THEOREM DeviceReturned ==
  ASSUME CameraAssumptions
  PROVE  CameraSpec => []Returned
<1>1. CameraInit => CameraInv
  <2> SUFFICES ASSUME CameraInit PROVE CameraInv
    OBVIOUS
  <2> DEFINE o == Open("constructor")
  <2>1. CameraTypeOK
    <3>1. kind \in Kinds /\ image \in {"empty", "old", "new"} /\ frames \in Nat
      BY DEF CameraInit
    <3>2. handle = 0 /\ 0 \in 0 .. MaxHandles
      BY DEF CameraInit, CameraAssumptions
    <3>3. handles \subseteq 1 .. MaxHandles /\ held \in open \cup {0} /\ open \subseteq handles
          /\ grabbing \subseteq open
      BY DEF CameraInit
    <3>4. {continuous, plugged, isOpened, counts, result, gone, gaveUp} \subseteq BOOLEAN
      BY DEF CameraInit
    <3> QED BY <3>1, <3>2, <3>3, <3>4 DEF CameraTypeOK
  <2>2. Planned(o) /\ o # <<>> /\ \A i \in 1 .. Len(o) : Opening(o[i])
    BY <2>1, OpeningCalls
  <2>3. doing = o /\ ~gone /\ handles = {} /\ frames = 0 /\ result = FALSE
    BY DEF CameraInit
  <2> HIDE DEF o
  <2>4. Opening(o[1])
    BY <2>2 DEF Planned
  <2>5. Safe(doing, kind, handles, handle, frames, gone)
    BY <2>2, <2>3, <2>4 DEF Safe, Ready, Opening, Releasing, Fetching
  <2> QED BY <2>1, <2>2, <2>3, <2>5 DEF CameraInv
<1>2. CameraInv /\ [CameraNext]_cameraVars => CameraInv'
  <2> SUFFICES ASSUME CameraInv, [CameraNext]_cameraVars PROVE CameraInv'
    OBVIOUS
  <2>1. CASE UNCHANGED cameraVars
    BY <2>1 DEF CameraInv, cameraVars, device, CameraTypeOK, Idle
  <2> QED BY <2>1, SucceedHolds, FailHolds, UserHolds DEF CameraNext
<1>3. CameraInv => Returned
  BY DEF CameraInv, Returned, Idle, Safe, Done
<1> QED BY <1>1, <1>2, <1>3, PTL DEF CameraSpec
=============================================================================
