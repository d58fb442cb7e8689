--------------------------- MODULE WorkersProofs ---------------------------
(***************************************************************************)
(* What works in the background keeps its books, for any threads, tasks,   *)
(* descriptors and records.                                                *)
(*                                                                         *)
(* The event loop resumes a coroutine only for the descriptor it waits     *)
(* for, and forgets none: a descriptor in epoll and an event that is being *)
(* handled belong to a coroutine that waits for this descriptor            *)
(* (ResumesWaiting).  A stream keeps its registration until its coroutine  *)
(* is resumed, so it has one waiting coroutine at a time (StreamsKept);    *)
(* only the sleepers of a timer can lose theirs.                           *)
(*                                                                         *)
(* The logger's counters say where every record went.  Books says so of    *)
(* any queue, counters, sizes and fates, and a lemma follows each thing    *)
(* that happens to records: the oldest are dropped, one is added, the      *)
(* first is taken, written, flushed.  Each critical section is made of     *)
(* these (Right); that the one record that is with the sink is the         *)
(* worker's entry, and that a worker ends with nothing left, is Works.     *)
(*                                                                         *)
(* The web server answers by the first route that was registered.  Each   *)
(* fold that builds its tables is followed call by call (FoldIs of         *)
(* Inductions): a table has the same first route for a request as the      *)
(* routes of all calls in their order have.                                *)
(***************************************************************************)
EXTENDS EventLoop, LoggerQueue, WebServer, Inductions, FiniteSetTheorems, SequenceTheorems, TLAPS

-----------------------------------------------------------------------------
(* The event loop *)

(* Who runs, and who waits in the queue to run for the first time.         *)
Schedule ==
  /\ \A t \in Tasks : state[t] = "running" <=> t = current
  /\ \A i \in DOMAIN ready : state[ready[i]] = "spawned"
  /\ \A i, j \in DOMAIN ready : ready[i] = ready[j] => i = j
  /\ where # "events" => DOMAIN events = {}
  /\ where \notin {"drain", "events"} => current = None
  /\ \A t \in unfinish : state[t] \in {"suspended", "running"}

StreamsKept == \A f \in DOMAIN events \cap Streams : reg[f] = events[f]

IInv == TypeOK /\ Schedule /\ StreamsKept /\ ResumesWaiting /\ NoneForgotten

-----------------------------------------------------------------------------
LEMMA InitHolds == Init => IInv
<1> SUFFICES ASSUME Init PROVE IInv
  OBVIOUS
<1>1. DOMAIN events = {} /\ DOMAIN ready = {}
  BY DEF Init
<1>2. TypeOK
  <2>1. ready \in Seq(Tasks) /\ DOMAIN events \subseteq Fds
    BY <1>1 DEF Init
  <2>2. QED
    BY <2>1 DEF Init, TypeOK
<1>3. Schedule /\ StreamsKept
  BY <1>1, DistinctAssumption DEF Init, Schedule, StreamsKept
<1>4. ResumesWaiting /\ NoneForgotten
  BY <1>1 DEF Init, ResumesWaiting, NoneForgotten
<1>5. QED
  BY <1>2, <1>3, <1>4 DEF IInv

(* A step that changes none of what the other parts speak of.              *)
LEMMA SameWaiting ==
  ASSUME IInv, UNCHANGED <<state, awaits, current, ready, unfinish, events, reg, displaced>>,
         where' # "events" => where' = where \/ DOMAIN events = {},
         where' \notin {"drain", "events"} => where' = where \/ current = None,
         where = "returned" /\ where' # "returned" => \A f \in Fds : reg[f] = None
  PROVE  Schedule' /\ StreamsKept' /\ ResumesWaiting' /\ NoneForgotten'
<1>1. Schedule'
  BY DEF IInv, Schedule
<1>2. StreamsKept'
  BY DEF IInv, StreamsKept
<1>3. ResumesWaiting' /\ NoneForgotten'
  BY DEF IInv, ResumesWaiting, NoneForgotten, Waiting
<1>4. QED
  BY <1>1, <1>2, <1>3

LEMMA QuietSteps ==
  ASSUME IInv,
         \/ \E f \in Streams \cup Timers : Arrive(f)
         \/ Run \/ EventsDone \/ StopInside \/ Stop \/ Read \/ UNCHANGED vars
  PROVE  IInv'
<1> USE DEF loop, tasks, kernel, IInv
<1>1. ASSUME NEW f \in Streams \cup Timers, Arrive(f) PROVE IInv'
  <2>1. TypeOK'
    BY <1>1 DEF Arrive, TypeOK
  <2>2. QED
    BY <1>1, <2>1, SameWaiting DEF Arrive
<1>2. CASE Run
  <2>1. TypeOK'
    BY <1>2 DEF Run, TypeOK
  <2>2. DOMAIN events = {} /\ current = None /\ (where = "returned" => \A f \in Fds : reg[f] = None)
    BY <1>2 DEF Run, Idle, Schedule
  <2>3. QED
    BY <1>2, <2>1, <2>2, SameWaiting DEF Run
<1>3. CASE EventsDone
  <2>1. TypeOK'
    BY <1>3 DEF EventsDone, TypeOK
  <2>2. QED
    BY <1>3, <2>1, SameWaiting DEF EventsDone
<1>4. CASE StopInside
  <2>1. TypeOK'
    BY <1>4 DEF StopInside, TypeOK, Fds
  <2>2. QED
    BY <1>4, <2>1, SameWaiting DEF StopInside
<1>5. CASE Stop
  <2>1. PICK s \in Stoppers : StopStore(s) \/ StopWrite(s)
    BY <1>5 DEF Stop
  <2>2. TypeOK'
    BY <2>1 DEF StopStore, StopWrite, TypeOK, Fds
  <2>3. QED
    BY <2>1, <2>2, SameWaiting DEF StopStore, StopWrite
<1>6. CASE Read
  <2>1. TypeOK'
    BY <1>6 DEF Read, TypeOK
  <2>2. \A t \in Tasks, f \in Fds : t # current => Waiting(t, f)' = Waiting(t, f)
    BY <1>6 DEF Read, Waiting, TypeOK
  <2>3. current \in Tasks /\ state[current] = "running"
    BY <1>6 DEF Read, TypeOK, Schedule
  <2>4. Schedule' /\ StreamsKept'
    BY <1>6 DEF Read, Schedule, StreamsKept
  <2>5. ResumesWaiting'
    BY <1>6, <2>2, <2>3 DEF Read, ResumesWaiting, Waiting, TypeOK
  <2>6. NoneForgotten'
    BY <1>6, <2>3 DEF Read, NoneForgotten, TypeOK
  <2>7. QED
    BY <2>1, <2>4, <2>5, <2>6
<1>7. CASE UNCHANGED vars
  <2>1. TypeOK'
    BY <1>7 DEF vars, TypeOK
  <2>2. QED
    BY <1>7, <2>1, SameWaiting DEF vars
<1>8. QED
  BY <1>1, <1>2, <1>3, <1>4, <1>5, <1>6, <1>7

-----------------------------------------------------------------------------
(* The loop *)

LEMMA SpawnHolds ==
  ASSUME IInv, NEW t \in Tasks, Spawn(t)
  PROVE  IInv'
<1> USE DEF IInv, kernel
<1>1. /\ state[t] = "unborn" /\ state' = [state EXCEPT ![t] = "spawned"] /\ ready' = Append(ready, t)
      /\ UNCHANGED <<where, awaits, current, events, reg, displaced>>
  BY DEF Spawn
<1>2. TypeOK'
  BY DEF Spawn, TypeOK
<1>3. \A u \in Tasks : u # t => state'[u] = state[u]
  BY <1>1 DEF TypeOK
<1>4. state'[t] = "spawned"
  BY <1>1 DEF TypeOK
<1>5. Schedule'
  <2>1. ready \in Seq(Tasks)
    BY DEF TypeOK
  <2>2. /\ DOMAIN ready' = 1 .. Len(ready) + 1 /\ DOMAIN ready = 1 .. Len(ready)
        /\ \A i \in DOMAIN ready : ready'[i] = ready[i] /\ ready[i] \in Tasks
        /\ ready'[Len(ready) + 1] = t /\ Len(ready) \in Nat
    BY <1>1, <2>1
  <2>3. \A i \in DOMAIN ready : ready[i] # t
    BY <1>1 DEF Schedule
  <2>4. \A i \in DOMAIN ready' : i \in DOMAIN ready \/ i = Len(ready) + 1
    BY <2>2
  <2>5. \A u \in unfinish : state'[u] \in {"suspended", "running"} /\ unfinish' = unfinish
    BY <1>1, <1>3 DEF Schedule, Spawn, TypeOK
  <2>6. unfinish' = unfinish /\ (where \notin {"drain", "events"} => current = None)
    BY DEF Schedule, Spawn
  <2>7. \A i \in DOMAIN ready' : state'[ready'[i]] = "spawned"
    BY <1>3, <1>4, <2>2, <2>3, <2>4 DEF Schedule
  <2>8. \A i, j \in DOMAIN ready' : ready'[i] = ready'[j] => i = j
    BY <2>2, <2>3, <2>4 DEF Schedule
  <2>9. \A u \in Tasks : state'[u] = "running" <=> u = current'
    BY <1>1, <1>3, <1>4 DEF Schedule
  <2>10. QED
    BY <1>1, <2>5, <2>6, <2>7, <2>8, <2>9 DEF Schedule
<1>6. StreamsKept'
  BY <1>1 DEF StreamsKept
<1>7. ResumesWaiting' /\ NoneForgotten'
  <2>1. \A u \in Tasks : state'[u] = "suspended" <=> state[u] = "suspended"
    BY <1>1, <1>3, <1>4
  <2>2. \A u \in Tasks, f \in Fds : Waiting(u, f)' <=> Waiting(u, f)
    BY <1>1, <2>1 DEF Waiting
  <2>3. QED
    BY <1>1, <2>1, <2>2 DEF ResumesWaiting, NoneForgotten, Fds, TypeOK
<1>8. QED
  BY <1>2, <1>5, <1>6, <1>7

LEMMA TopHolds ==
  ASSUME IInv, Top
  PROVE  IInv'
<1> USE DEF IInv, kernel
<1>1. TypeOK'
  BY DEF Top, TypeOK
<1>2. CASE running
  <2>1. UNCHANGED <<state, awaits, current, ready, unfinish, events, reg, displaced>> /\ where' = "drain" /\ where = "top"
    BY <1>2 DEF Top
  <2>2. QED
    BY <1>1, <2>1, SameWaiting DEF Schedule
<1>3. CASE ~running
  <2>1. /\ where' = "returned" /\ DOMAIN events = {}
        /\ state' = [t \in Tasks |-> IF t \in unfinish THEN "destroyed" ELSE state[t]]
        /\ unfinish' = {} /\ current = None
        /\ UNCHANGED <<ready, awaits, current, events, reg, displaced>>
    BY <1>3 DEF Top, Schedule
  <2>2. \A t \in Tasks :
          /\ state'[t] = "suspended" => state[t] = "suspended"
          /\ state[t] # "suspended" => state'[t] = state[t]
    BY <2>1, DistinctAssumption DEF Schedule
  <2>3. Schedule'
    <3>1. \A i \in DOMAIN ready : ready[i] \in Tasks
      BY DEF TypeOK
    <3>2. \A i \in DOMAIN ready : state'[ready[i]] = "spawned"
      BY <2>2, <3>1 DEF Schedule
    <3>3. \A t \in Tasks : state'[t] # "running"
      BY <2>1, <2>2, DistinctAssumption DEF Schedule
    <3>4. QED
      BY <2>1, <3>2, <3>3, DistinctAssumption DEF Schedule
  <2>4. StreamsKept' /\ ResumesWaiting' /\ NoneForgotten'
    BY <2>1, <2>2 DEF StreamsKept, ResumesWaiting, NoneForgotten
  <2>5. QED
    BY <1>1, <2>3, <2>4
<1>4. QED
  BY <1>2, <1>3

LEMMA ResumeReadyHolds ==
  ASSUME IInv, ResumeReady
  PROVE  IInv'
<1> USE DEF IInv, kernel
<1> DEFINE t == Head(ready)
<1>1. ready \in Seq(Tasks) /\ ready # <<>> /\ current = None /\ where = "drain"
  BY DEF ResumeReady, TypeOK
<1>2. /\ t \in Tasks /\ t = ready[1] /\ 1 \in DOMAIN ready
      /\ Tail(ready) \in Seq(Tasks) /\ DOMAIN Tail(ready) = 1 .. Len(ready) - 1
      /\ \A i \in DOMAIN Tail(ready) : i + 1 \in DOMAIN ready /\ Tail(ready)[i] = ready[i + 1]
  BY <1>1, HeadTailProperties
<1>3. state[t] = "spawned"
  BY <1>2 DEF Schedule
<1> HIDE DEF t
<1>4. /\ current' = t /\ state' = [state EXCEPT ![t] = "running"] /\ ready' = Tail(ready)
      /\ UNCHANGED <<where, unfinish, awaits, events, reg, displaced>>
  BY DEF ResumeReady, t
<1>5. TypeOK'
  BY <1>2, <1>4 DEF ResumeReady, TypeOK
<1>6. state'[t] = "running" /\ \A u \in Tasks : u # t => state'[u] = state[u]
  BY <1>2, <1>4 DEF TypeOK
<1>7. Schedule'
  <2>1. \A i \in DOMAIN ready' : i + 1 # 1 /\ i \in Nat
    BY <1>2, <1>4
  <2>2. \A i \in DOMAIN ready' : ready'[i] # t /\ ready'[i] \in Tasks /\ state[ready'[i]] = "spawned"
    BY <1>2, <1>4, <1>5, <2>1 DEF Schedule, TypeOK
  <2>3. \A i \in DOMAIN ready' : state'[ready'[i]] = "spawned"
    BY <1>6, <2>2
  <2>4. \A i, j \in DOMAIN ready' : ready'[i] = ready'[j] => i + 1 = j + 1
    BY <1>2, <1>4 DEF Schedule
  <2>5. \A i, j \in DOMAIN ready' : ready'[i] = ready'[j] => i = j
    BY <2>1, <2>4
  <2>6. \A u \in Tasks : state'[u] = "running" <=> u = current'
    BY <1>1, <1>4, <1>6, DistinctAssumption DEF Schedule
  <2>7. \A u \in unfinish' : state'[u] \in {"suspended", "running"}
    BY <1>3, <1>4, <1>6 DEF Schedule, TypeOK
  <2>8. QED
    BY <1>1, <1>4, <2>3, <2>5, <2>6, <2>7 DEF Schedule
<1>8. StreamsKept'
  BY <1>4 DEF StreamsKept
<1>9. ResumesWaiting' /\ NoneForgotten'
  <2>1. \A u \in Tasks : state'[u] = "suspended" <=> state[u] = "suspended"
    BY <1>3, <1>6
  <2>2. \A u \in Tasks, f \in Fds : Waiting(u, f)' <=> Waiting(u, f)
    BY <1>4, <2>1 DEF Waiting
  <2>3. QED
    BY <1>4, <2>1, <2>2 DEF ResumesWaiting, NoneForgotten, Fds, TypeOK
<1>10. QED
  BY <1>5, <1>7, <1>8, <1>9

LEMMA EpollWaitHolds ==
  ASSUME IInv, EpollWait
  PROVE  IInv'
<1> USE DEF IInv, tasks
<1>1. /\ DOMAIN events' = Reported /\ \A f \in Reported : events'[f] = reg[f]
      /\ where' = "events" /\ where = "drain" /\ DOMAIN events = {}
      /\ UNCHANGED <<ready, unfinish, state, awaits, current, reg, displaced>>
  BY DEF EpollWait, Schedule
<1>2. TypeOK'
  BY <1>1 DEF EpollWait, TypeOK, Reported
<1>3. Schedule' /\ StreamsKept'
  BY <1>1 DEF Schedule, StreamsKept
<1>4. ResumesWaiting'
  <2>1. \A f \in Reported \ {Wakeup} : f \in Fds /\ reg[f] \in Tasks /\ Waiting(reg[f], f)
    BY <1>1 DEF Reported, ResumesWaiting, TypeOK
  <2>2. \A f \in DOMAIN events' \ {Wakeup} :
          events'[f] \in Tasks /\ state'[events'[f]] = "suspended" /\ awaits'[events'[f]] = f
    BY <1>1, <2>1 DEF Waiting
  <2>3. \A f \in Fds : reg'[f] # None => state'[reg'[f]] = "suspended" /\ awaits'[reg'[f]] = f
    BY <1>1 DEF ResumesWaiting, Waiting
  <2>4. QED
    BY <2>2, <2>3 DEF ResumesWaiting, Waiting
<1>5. NoneForgotten'
  BY <1>1 DEF NoneForgotten
<1>6. QED
  BY <1>2, <1>3, <1>4, <1>5

LEMMA WokenHolds ==
  ASSUME IInv, Woken
  PROVE  IInv'
<1> USE DEF IInv, tasks, loop
<1>1. /\ DOMAIN events' = DOMAIN events \ {Wakeup}
      /\ \A f \in DOMAIN events' : events'[f] = events[f]
      /\ where = "events" /\ UNCHANGED <<where, ready, unfinish, state, awaits, current, reg, displaced>>
  BY DEF Woken, Without
<1>2. TypeOK'
  BY <1>1 DEF Woken, TypeOK, Fds
<1>3. Schedule' /\ StreamsKept'
  BY <1>1 DEF Schedule, StreamsKept
<1>4. ResumesWaiting'
  BY <1>1 DEF ResumesWaiting, Waiting
<1>5. NoneForgotten'
  <2>1. \A t \in Tasks : awaits[t] # Wakeup
    BY DistinctAssumption DEF TypeOK, Fds
  <2>2. QED
    BY <1>1, <2>1 DEF NoneForgotten
<1>6. QED
  BY <1>2, <1>3, <1>4, <1>5

(* Another coroutine that waits on the stream of an event would have the   *)
(* registration that is t's.                                               *)
LEMMA ResumeHolds ==
  ASSUME IInv, NEW f \in Fds, Resume(f)
  PROVE  IInv'
<1> USE DEF IInv, loop
<1> DEFINE t == events[f]
<1>1. /\ where = "events" /\ current = None /\ f \in DOMAIN events \ {Wakeup}
      /\ current' = t /\ state' = [state EXCEPT ![t] = "running"]
      /\ reg' = [reg EXCEPT ![awaits[t]] = None]
      /\ displaced' = (displaced \cup {u \in Tasks : Waiting(u, awaits[t])}) \ {t}
      /\ DOMAIN events' = DOMAIN events \ {f} /\ \A g \in DOMAIN events' : events'[g] = events[g]
      /\ UNCHANGED <<where, ready, unfinish, awaits>>
  BY DEF Resume, Without
<1>2. t \in Tasks /\ Waiting(t, f)
  BY <1>1 DEF ResumesWaiting
<1> HIDE DEF t
<1>3. /\ state[t] = "suspended" /\ awaits[t] = f
      /\ state'[t] = "running" /\ \A u \in Tasks : u # t => state'[u] = state[u]
      /\ reg' = [reg EXCEPT ![f] = None]
      /\ displaced' = (displaced \cup {u \in Tasks : Waiting(u, f)}) \ {t}
  BY <1>1, <1>2 DEF Waiting, TypeOK
<1>4. TypeOK'
  BY <1>1, <1>2, <1>3 DEF Resume, TypeOK
<1>5. Schedule'
  <2>1. \A i \in DOMAIN ready : ready[i] \in Tasks
    BY DEF TypeOK
  <2>2. \A i \in DOMAIN ready' : state'[ready'[i]] = "spawned"
    BY <1>1, <1>3, <2>1 DEF Schedule
  <2>3. \A u \in Tasks : state'[u] = "running" <=> u = current'
    BY <1>1, <1>2, <1>3, DistinctAssumption DEF Schedule
  <2>4. \A u \in unfinish' : state'[u] \in {"suspended", "running"}
    BY <1>1, <1>3 DEF Schedule, TypeOK
  <2>5. QED
    BY <1>1, <2>2, <2>3, <2>4 DEF Schedule
<1>6. StreamsKept'
  BY <1>1, <1>3 DEF StreamsKept, TypeOK
<1>7. ResumesWaiting'
  <2>1. \A g \in DOMAIN events' \ {Wakeup} :
          events'[g] \in Tasks /\ state'[events'[g]] = "suspended" /\ awaits'[events'[g]] = g
    BY <1>1, <1>3 DEF ResumesWaiting, Waiting
  <2>2. \A g \in Fds : reg'[g] # None =>
          reg[g] \in Tasks /\ reg'[g] = reg[g] /\ g # f /\ Waiting(reg[g], g)
    BY <1>1, <1>3 DEF ResumesWaiting, TypeOK
  <2>3. \A g \in Fds : reg'[g] # None => state'[reg'[g]] = "suspended" /\ awaits'[reg'[g]] = g
    BY <1>1, <1>3, <2>2 DEF Waiting
  <2>4. QED
    BY <2>1, <2>3 DEF ResumesWaiting, Waiting
<1>8. NoneForgotten'
  <2> SUFFICES ASSUME NEW u \in Tasks, state'[u] = "suspended"
               PROVE  \/ reg'[awaits'[u]] = u
                      \/ awaits'[u] \in DOMAIN events' /\ events'[awaits'[u]] = u
                      \/ u \in displaced' /\ awaits'[u] \in Timers
    BY DEF NoneForgotten
  <2>1. u # t /\ state[u] = "suspended" /\ awaits'[u] = awaits[u]
    BY <1>1, <1>3
  <2>2. CASE awaits[u] # f
    <3>1. awaits[u] \in DOMAIN events' <=> awaits[u] \in DOMAIN events
      BY <1>1, <2>2
    <3>2. reg[awaits[u]] = u => reg'[awaits[u]] = u
      BY <1>3, <2>1, <2>2, DistinctAssumption DEF ResumesWaiting, TypeOK
    <3>3. QED
      BY <1>1, <1>3, <2>1, <3>1, <3>2 DEF NoneForgotten
  <2>3. CASE awaits[u] = f
    <3>1. f \in Timers
      <4>1. CASE f \in Streams
        <5>1. reg[f] = t
          BY <1>1, <4>1 DEF StreamsKept, t
        <5>2. events[f] # u /\ reg[f] # u
          BY <2>1, <5>1 DEF t
        <5>3. f \notin Timers
          BY <4>1, DistinctAssumption
        <5>4. QED
          BY <2>1, <2>3, <5>2, <5>3 DEF NoneForgotten
      <4>2. QED
        BY <1>1, <4>1 DEF Fds
    <3>2. u \in displaced'
      BY <1>3, <2>1, <2>3 DEF Waiting
    <3>3. QED
      BY <2>1, <2>3, <3>1, <3>2
  <2>4. QED
    BY <2>2, <2>3
<1>9. QED
  BY <1>4, <1>5, <1>6, <1>7, <1>8

-----------------------------------------------------------------------------
(* The coroutine that runs *)

(* The running coroutine is in no registration and no event.               *)
LEMMA NobodysHandle ==
  ASSUME IInv, Executing
  PROVE  /\ current \in Tasks /\ state[current] = "running" /\ where \in {"drain", "events"}
         /\ \A f \in DOMAIN events \ {Wakeup} : events[f] # current
         /\ where # "returned" /\ \A f \in Fds : reg[f] # current
<1>1. current \in Tasks /\ state[current] = "running" /\ where \in {"drain", "events"}
  BY DEF IInv, Executing, TypeOK, Schedule
<1>2. QED
  BY <1>1, DistinctAssumption DEF IInv, ResumesWaiting, Waiting, TypeOK

LEMMA FinishHolds ==
  ASSUME IInv, Finish
  PROVE  IInv'
<1> USE DEF IInv
<1>1. /\ Executing /\ state' = [state EXCEPT ![current] = "done"] /\ current' = None
      /\ unfinish' = unfinish \ {current}
      /\ UNCHANGED <<where, ready, events, awaits, reg, displaced>>
  BY DEF Finish, Leave
<1>2. TypeOK'
  BY <1>1, NobodysHandle DEF Finish, Leave, TypeOK
<1>3. state'[current] = "done" /\ \A u \in Tasks : u # current => state'[u] = state[u]
  BY <1>1, NobodysHandle DEF TypeOK
<1>4. Schedule'
  <2>1. \A i \in DOMAIN ready : ready[i] \in Tasks /\ state[ready[i]] = "spawned"
    BY DEF TypeOK, Schedule
  <2>2. \A i \in DOMAIN ready' : state'[ready'[i]] = "spawned"
    BY <1>1, <1>3, <2>1, NobodysHandle
  <2>3. \A u \in Tasks : state'[u] = "running" <=> u = current'
    BY <1>1, <1>3, DistinctAssumption DEF Schedule
  <2>4. \A u \in unfinish' : state'[u] \in {"suspended", "running"}
    BY <1>1, <1>3 DEF Schedule, TypeOK
  <2>5. QED
    BY <1>1, <2>2, <2>3, <2>4 DEF Schedule
<1>5. StreamsKept'
  BY <1>1 DEF StreamsKept
<1>6. ResumesWaiting'
  <2>1. \A f \in DOMAIN events' \ {Wakeup} :
          events'[f] \in Tasks /\ state'[events'[f]] = "suspended" /\ awaits'[events'[f]] = f
    BY <1>1, <1>3, NobodysHandle DEF ResumesWaiting, Waiting
  <2>2. \A f \in Fds : reg'[f] # None => state'[reg'[f]] = "suspended" /\ awaits'[reg'[f]] = f
    BY <1>1, <1>3, NobodysHandle DEF ResumesWaiting, Waiting, TypeOK
  <2>3. QED
    BY <2>1, <2>2 DEF ResumesWaiting, Waiting
<1>7. NoneForgotten'
  BY <1>1, <1>3 DEF NoneForgotten
<1>8. QED
  BY <1>2, <1>4, <1>5, <1>6, <1>7

LEMMA WaitHolds ==
  ASSUME IInv, NEW f \in Fds, Await(f) \/ Sleep(f)
  PROVE  IInv'
<1> USE DEF IInv
<1> DEFINE t == current
<1>1. /\ Executing /\ t \in Tasks /\ f \in Streams \cup Timers
      /\ reg' = [reg EXCEPT ![f] = t] /\ awaits' = [awaits EXCEPT ![t] = f]
      /\ state' = [state EXCEPT ![t] = "suspended"] /\ current' = None
      /\ unfinish' = unfinish \cup {t}
      /\ UNCHANGED <<where, ready, events>>
  BY NobodysHandle DEF Await, Sleep, Leave
<1>2. /\ f \in Streams => reg[f] = None /\ displaced' = displaced
      /\ f \in Timers => displaced' = displaced \cup {u \in Tasks : Waiting(u, f)}
  BY DistinctAssumption DEF Await, Sleep
<1>3. TypeOK'
  <2>1. fd' \in [Fds -> {"quiet", "armed", "ready"}]
    BY DEF Await, Sleep, TypeOK
  <2>2. UNCHANGED <<running, stopper>> /\ entered' \in BOOLEAN /\ displaced' \subseteq Tasks
    BY <1>1, <1>2 DEF Await, Sleep, Leave, TypeOK
  <2>3. QED
    BY <1>1, <2>1, <2>2 DEF TypeOK
<1>4. /\ state[t] = "running" /\ state'[t] = "suspended" /\ awaits'[t] = f /\ reg'[f] = t
      /\ \A u \in Tasks : u # t => state'[u] = state[u] /\ awaits'[u] = awaits[u]
      /\ \A g \in Fds : g # f => reg'[g] = reg[g]
  BY <1>1, NobodysHandle DEF TypeOK
<1>5. \A g \in Fds : reg[g] # t
  BY <1>1, NobodysHandle
<1>6. /\ \A g \in DOMAIN events \ {Wakeup} : events[g] # t
      /\ where \in {"drain", "events"}
  BY <1>1, NobodysHandle
<1> HIDE DEF t
<1>7. Schedule'
  <2>1. \A i \in DOMAIN ready : ready[i] \in Tasks /\ state[ready[i]] = "spawned"
    BY DEF TypeOK, Schedule
  <2>2. \A i \in DOMAIN ready' : state'[ready'[i]] = "spawned"
    BY <1>1, <1>4, <2>1
  <2>3. \A u \in Tasks : state'[u] = "running" <=> u = current'
    BY <1>1, <1>4, DistinctAssumption DEF Schedule, t
  <2>4. \A u \in unfinish' : state'[u] \in {"suspended", "running"}
    BY <1>1, <1>4 DEF Schedule, TypeOK
  <2>5. QED
    BY <1>1, <2>2, <2>3, <2>4 DEF Schedule
<1>8. StreamsKept'
  <2>1. f \in Streams => f \notin DOMAIN events
    <3>1. CASE f \in DOMAIN events \cap Streams
      <4>1. events[f] \in Tasks /\ reg[f] = events[f]
        BY <3>1, DistinctAssumption DEF StreamsKept, ResumesWaiting
      <4>2. QED
        BY <1>2, <3>1, <4>1, DistinctAssumption
    <3>2. QED
      BY <3>1
  <2>2. DOMAIN events \subseteq Fds
    BY DEF TypeOK
  <2>3. QED
    BY <1>1, <1>4, <2>1, <2>2 DEF StreamsKept
<1>9. ResumesWaiting'
  <2>1. \A g \in DOMAIN events' \ {Wakeup} :
          events'[g] \in Tasks /\ state'[events'[g]] = "suspended" /\ awaits'[events'[g]] = g
    BY <1>1, <1>4, <1>6 DEF ResumesWaiting, Waiting
  <2>2. \A g \in Fds : g # f /\ reg[g] # None => reg[g] \in Tasks /\ Waiting(reg[g], g)
    BY <1>6 DEF ResumesWaiting, TypeOK
  <2>3. \A g \in Fds : reg'[g] # None => state'[reg'[g]] = "suspended" /\ awaits'[reg'[g]] = g
    BY <1>4, <1>5, <2>2 DEF Waiting
  <2>4. QED
    BY <2>1, <2>3 DEF ResumesWaiting, Waiting
<1>10. NoneForgotten'
  <2> SUFFICES ASSUME NEW u \in Tasks, state'[u] = "suspended", u # t
               PROVE  \/ reg'[awaits'[u]] = u
                      \/ awaits'[u] \in DOMAIN events' /\ events'[awaits'[u]] = u
                      \/ u \in displaced' /\ awaits'[u] \in Timers
    BY <1>4 DEF NoneForgotten
  <2>1. state[u] = "suspended" /\ awaits'[u] = awaits[u]
    BY <1>4
  <2>2. displaced \subseteq displaced'
    BY <1>1, <1>2
  <2>3. CASE awaits[u] \notin Fds
    <3>1. awaits[u] \notin DOMAIN events /\ awaits[u] \notin Timers
      BY <2>3 DEF TypeOK, Fds
    <3>2. reg'[awaits[u]] = reg[awaits[u]]
      BY <1>1, <2>3 DEF TypeOK
    <3>3. QED
      BY <2>1, <3>1, <3>2 DEF NoneForgotten
  <2>4. CASE awaits[u] \in Fds /\ awaits[u] # f
    BY <1>1, <1>4, <2>1, <2>2, <2>4 DEF NoneForgotten
  <2>5. CASE awaits[u] = f
    <3>1. CASE f \in Timers
      BY <1>2, <2>1, <2>5, <3>1 DEF Waiting
    <3>2. CASE f \in Streams
      <4>1. f \notin Timers /\ (f \in DOMAIN events => reg[f] = events[f])
        BY <3>2, DistinctAssumption DEF StreamsKept
      <4>2. QED
        BY <1>2, <2>1, <2>5, <3>2, <4>1, DistinctAssumption DEF NoneForgotten
    <3>3. QED
      BY <1>1, <3>1, <3>2
  <2>6. QED
    BY <2>3, <2>4, <2>5
<1>11. QED
  BY <1>3, <1>7, <1>8, <1>9, <1>10

-----------------------------------------------------------------------------
LEMMA StepHolds == IInv /\ [Next]_vars => IInv'
<1> SUFFICES ASSUME IInv, [Next]_vars PROVE IInv'
  OBVIOUS
<1>1. ASSUME \/ \E f \in Streams \cup Timers : Arrive(f)
             \/ Run \/ EventsDone \/ StopInside \/ Stop \/ Read \/ UNCHANGED vars
      PROVE  IInv'
  BY <1>1, QuietSteps
<1>2. ASSUME NEW t \in Tasks, Spawn(t) PROVE IInv'
  BY <1>2, SpawnHolds
<1>3. CASE Loop
  <2>1. ASSUME NEW f \in Fds, Resume(f) PROVE IInv'
    BY <2>1, ResumeHolds
  <2>2. QED
    BY <1>1, <1>3, <2>1, TopHolds, ResumeReadyHolds, EpollWaitHolds, WokenHolds DEF Loop
<1>4. CASE Coroutine
  <2>1. ASSUME NEW f \in Fds, Await(f) \/ Sleep(f) PROVE IInv'
    BY <2>1, WaitHolds
  <2>2. QED
    BY <1>1, <1>4, <2>1, FinishHolds DEF Coroutine
<1>5. QED
  BY <1>1, <1>2, <1>3, <1>4 DEF Next

LEMMA Inductive == Spec => []IInv
<1>1. QED
  BY InitHolds, StepHolds, PTL DEF Spec

(* Every variable has a value of its type.                                 *)
THEOREM TypeCorrect == Spec => []TypeOK
<1>1. IInv => TypeOK
  BY DEF IInv
<1>2. QED
  BY <1>1, Inductive, PTL

(* The loop never resumes a coroutine that has ended, that runs, or that   *)
(* waits for something else.                                               *)
THEOREM OnlyWaitingResumed == Spec => []ResumesWaiting
<1>1. IInv => ResumesWaiting
  BY DEF IInv
<1>2. QED
  BY <1>1, Inductive, PTL

(* No coroutine that waits loses its descriptor, but to another sleeper of *)
(* its timer.                                                              *)
THEOREM NoLostWakeup == Spec => []NoneForgotten
<1>1. IInv => NoneForgotten
  BY DEF IInv
<1>2. QED
  BY <1>1, Inductive, PTL

-----------------------------------------------------------------------------
(* The logger *)

Fates == {"queued", "writing", "written", "persisted", "dropped", "failed", "refused"}

Of(f, x) == {n \in DOMAIN f : f[n] = x}

(* Accounts, of any queue, counters, sizes and fates. *)
Books(q, b, w, d, z, f) ==
  /\ z \in Seq(Sizes) /\ f \in Seq(Fates) /\ Len(z) = Len(f) /\ q \in Seq(1 .. Len(f))
  /\ b = Total(z, Of(f, "queued"))
  /\ w = Total(z, Of(f, "written"))
  /\ d = Cardinality(Of(f, "dropped"))
  /\ \A n \in 1 .. Len(f) : f[n] = "queued" <=> \E i \in 1 .. Len(q) : q[i] = n
  /\ \A i, j \in 1 .. Len(q) : i < j => q[i] < q[j]
  /\ \A m, n \in 1 .. Len(f) :
       m < n /\ f[m] = "queued" => f[n] \in {"queued", "dropped", "refused"}

LEMMA BooksTypes ==
  ASSUME LoggerAssumptions, NEW q, NEW b, NEW w, NEW d, NEW z, NEW f, Books(q, b, w, d, z, f)
  PROVE  /\ z \in Seq(Nat) /\ f \in Seq(Fates) /\ Len(z) = Len(f) /\ q \in Seq(1 .. Len(f))
         /\ Len(f) \in Nat /\ DOMAIN f = 1 .. Len(f)
<1>1. z \in Seq(Sizes) /\ f \in Seq(Fates) /\ Len(z) = Len(f) /\ q \in Seq(1 .. Len(f))
  BY DEF Books
<1>2. \A i \in 1 .. Len(z) : z[i] \in Nat
  <2>1. \A i \in 1 .. Len(z) : z[i] \in Sizes
    BY <1>1
  <2>2. \A s \in Sizes : s \in Nat
    BY DEF LoggerAssumptions
  <2> QED BY <2>1, <2>2
<1>3. z \in [1 .. Len(z) -> Nat]
  BY <1>1, <1>2
<1>4. z \in Seq(Nat)
  BY <1>1, <1>3
<1> QED BY <1>1, <1>4

Marked(f, n, x) == [f EXCEPT ![n] = x]

LEMMA FateUpdate ==
  ASSUME NEW f \in Seq(Fates), NEW e \in 1 .. Len(f), NEW y \in Fates,
         NEW g, g = [f EXCEPT ![e] = y]
  PROVE  /\ g \in Seq(Fates) /\ Len(g) = Len(f) /\ DOMAIN g = 1 .. Len(f)
         /\ \A n \in 1 .. Len(f) : g[n] = IF n = e THEN y ELSE f[n]
<1>1. DOMAIN f = 1 .. Len(f) /\ Len(f) \in Nat /\ f \in [1 .. Len(f) -> Fates]
  OBVIOUS
<1>2. g \in [1 .. Len(f) -> Fates]
  BY <1>1
<1>3. g \in Seq(Fates) /\ Len(g) = Len(f)
  BY <1>1, <1>2
<1>4. \A n \in 1 .. Len(f) : g[n] = IF n = e THEN y ELSE f[n]
  BY <1>1
<1> QED BY <1>1, <1>2, <1>3, <1>4

(* The first record goes to the sink. *)
Taken(q, o, r) == q # <<>> /\ o = Head(q) /\ r = Tail(q)

LEMMA BooksPop ==
  ASSUME LoggerAssumptions, NEW q, NEW b, NEW w, NEW d, NEW z, NEW f, Books(q, b, w, d, z, f),
         NEW o, NEW r, Taken(q, o, r), NEW g, g = Marked(f, o, "writing"), NEW c, c = b - z[o]
  PROVE  /\ Books(r, c, w, d, z, g)
         /\ Len(g) = Len(f)
         /\ Of(g, "writing") = Of(f, "writing") \cup {o}
         /\ Of(g, "dropped") = Of(f, "dropped")
<1>1. /\ z \in Seq(Nat) /\ f \in Seq(Fates) /\ Len(z) = Len(f) /\ q \in Seq(1 .. Len(f))
      /\ Len(f) \in Nat
  BY BooksTypes
<1>2. /\ o = q[1] /\ o \in 1 .. Len(f) /\ 1 \in 1 .. Len(q) /\ Tail(q) \in Seq(1 .. Len(f))
      /\ Len(Tail(q)) = Len(q) - 1 /\ \A i \in 1 .. Len(q) - 1 : Tail(q)[i] = q[i + 1]
  BY SMTT(30), <1>1 DEF Taken
<1>3. f[o] = "queued"
  BY <1>2 DEF Books
<1>4. /\ g \in Seq(Fates) /\ Len(g) = Len(f)
      /\ \A n \in 1 .. Len(f) : g[n] = IF n = o THEN "writing" ELSE f[n]
      /\ Of(g, "queued") = Of(f, "queued") \ {o} /\ Of(g, "written") = Of(f, "written") \ {o}
      /\ Of(g, "dropped") = Of(f, "dropped") \ {o} /\ Of(g, "writing") = Of(f, "writing") \cup {o}
  <2>1. /\ g = Marked(f, o, "writing") /\ "writing" \in Fates
        /\ "queued" # "writing" /\ "written" # "writing" /\ "dropped" # "writing"
    BY DEF Fates
  <2>2. /\ g \in Seq(Fates) /\ Len(g) = Len(f)
        /\ DOMAIN g = 1 .. Len(f)
        /\ \A n \in 1 .. Len(f) : g[n] = IF n = o THEN "writing" ELSE f[n]
    BY <1>1, <1>2, <2>1, FateUpdate DEF Marked
  <2> QED BY SMTT(30), <1>1, <1>2, <2>1, <2>2 DEF Of
<1>5. /\ o \in Of(f, "queued") /\ Of(f, "written") \ {o} = Of(f, "written")
      /\ Of(f, "dropped") \ {o} = Of(f, "dropped")
  BY <1>1, <1>2, <1>3 DEF Of
<1>6. Total(z, Of(f, "queued") \ {o}) = b - z[o]
  <2>1. {o} \subseteq Of(f, "queued") /\ Total(z, {o}) = z[o]
    BY <1>1, <1>2, <1>5, TotalOne
  <2>2. Total(z, Of(f, "queued") \ {o}) = Total(z, Of(f, "queued")) - Total(z, {o})
    BY <1>1, <2>1, TotalLess
  <2> QED BY <2>1, <2>2 DEF Books
<1>7. ASSUME NEW n \in 1 .. Len(g)
      PROVE  g[n] = "queued" <=> \E i \in 1 .. Len(Tail(q)) : Tail(q)[i] = n
  <2>1. f[n] = "queued" <=> \E i \in 1 .. Len(q) : q[i] = n
    BY <1>4 DEF Books
  <2>2. \A i \in 1 .. Len(q) : 1 < i => q[1] < q[i] /\ q[i] # q[1]
    BY <1>1, <1>2 DEF Books
  <2>3. ASSUME g[n] = "queued" PROVE \E i \in 1 .. Len(Tail(q)) : Tail(q)[i] = n
    <3>1. n # o /\ f[n] = "queued"
      BY <1>4, <2>3
    <3>2. PICK i \in 1 .. Len(q) : q[i] = n
      BY <2>1, <3>1
    <3>3. i # 1 /\ i - 1 \in 1 .. Len(q) - 1 /\ (i - 1) + 1 = i
      BY SMTT(30), <1>1, <1>2, <3>1, <3>2
    <3> QED BY <1>2, <3>2, <3>3
  <2>4. ASSUME NEW i \in 1 .. Len(Tail(q)), Tail(q)[i] = n PROVE g[n] = "queued"
    <3>1. i + 1 \in 1 .. Len(q) /\ 1 < i + 1 /\ q[i + 1] = n
      BY <1>1, <1>2, <2>4
    <3> QED BY <1>2, <1>4, <2>1, <2>2, <3>1
  <2> QED BY <2>3, <2>4
<1>8. ASSUME NEW i \in 1 .. Len(Tail(q)), NEW j \in 1 .. Len(Tail(q)), i < j
      PROVE  Tail(q)[i] < Tail(q)[j]
  <2>1. i + 1 \in 1 .. Len(q) /\ j + 1 \in 1 .. Len(q) /\ i + 1 < j + 1
    BY <1>1, <1>2, <1>8
  <2> QED BY <1>2, <1>8, <2>1 DEF Books
<1>9. ASSUME NEW m \in 1 .. Len(g), NEW n \in 1 .. Len(g), m < n, g[m] = "queued"
      PROVE  g[n] \in {"queued", "dropped", "refused"}
  <2>1. f[m] = "queued" /\ m # o
    BY <1>4, <1>9
  <2>2. PICK i \in 1 .. Len(q) : q[i] = m
    BY <1>4, <2>1 DEF Books
  <2>3. i # 1 /\ 1 < i
    BY <1>2, <2>1, <2>2
  <2>4. o < m
    BY <1>2, <2>2, <2>3 DEF Books
  <2>5. n # o
    BY <1>1, <1>2, <1>4, <1>9, <2>4
  <2>6. f[n] \in {"queued", "dropped", "refused"}
    BY <1>4, <1>9, <2>1 DEF Books
  <2> QED BY <1>4, <2>5, <2>6
<1>10. /\ c = Total(z, Of(g, "queued")) /\ w = Total(z, Of(g, "written"))
       /\ d = Cardinality(Of(g, "dropped"))
  BY <1>4, <1>5, <1>6 DEF Books
<1>11. Books(Tail(q), c, w, d, z, g)
  BY <1>1, <1>2, <1>4, <1>7, <1>8, <1>9, <1>10 DEF Books
<1> QED BY <1>2, <1>4, <1>5, <1>11 DEF Taken

(* The sink has taken a record, or not. *)
LEMMA BooksWritten ==
  ASSUME LoggerAssumptions, NEW q, NEW b, NEW w, NEW d, NEW z, NEW f, Books(q, b, w, d, z, f),
         NEW e \in 1 .. Len(f), f[e] = "writing", NEW x \in {"written", "failed"},
         NEW g, g = Marked(f, e, x)
  PROVE  /\ Books(q, b, IF x = "written" THEN w + z[e] ELSE w, d, z, g)
         /\ Len(g) = Len(f) /\ Of(g, "writing") = Of(f, "writing") \ {e}
         /\ Of(g, "dropped") = Of(f, "dropped")
<1>1. z \in Seq(Nat) /\ f \in Seq(Fates) /\ Len(z) = Len(f) /\ Len(f) \in Nat /\ DOMAIN f = 1 .. Len(f)
  BY BooksTypes
<1>2. /\ g \in Seq(Fates) /\ Len(g) = Len(f)
      /\ \A n \in 1 .. Len(f) : g[n] = IF n = e THEN x ELSE f[n]
      /\ Of(g, "queued") = Of(f, "queued") \ {e} /\ Of(g, "dropped") = Of(f, "dropped") \ {e}
      /\ Of(g, "writing") = Of(f, "writing") \ {e}
      /\ Of(g, "written") = IF x = "written" THEN Of(f, "written") \cup {e} ELSE Of(f, "written") \ {e}
  <2>1. x \in Fates /\ "queued" # x /\ "dropped" # x /\ "writing" # x
    BY DEF Fates
  <2>2. /\ g \in Seq(Fates) /\ Len(g) = Len(f)
        /\ DOMAIN g = 1 .. Len(f)
        /\ \A n \in 1 .. Len(f) : g[n] = IF n = e THEN x ELSE f[n]
    BY <1>1, <2>1, FateUpdate DEF Marked
  <2> QED BY <1>1, <2>1, <2>2 DEF Of
<1>3. /\ e \notin Of(f, "written") /\ Of(f, "queued") \ {e} = Of(f, "queued")
      /\ Of(f, "dropped") \ {e} = Of(f, "dropped") /\ Of(f, "written") \ {e} = Of(f, "written")
  BY DEF Of
<1>4. Total(z, Of(g, "written")) = IF x = "written" THEN w + z[e] ELSE w
  <2>1. e \in 1 .. Len(z)
    BY <1>1
  <2>2. Total(z, Of(f, "written") \cup {e}) = Total(z, Of(f, "written")) + z[e]
    BY <1>1, <1>3, <2>1, TotalAdd
  <2> QED BY <1>2, <1>3, <2>2 DEF Books
<1>5. /\ \A n \in 1 .. Len(f) : g[n] = "queued" <=> f[n] = "queued"
      /\ \A n \in 1 .. Len(f) : f[n] \in {"queued", "dropped", "refused"} => g[n] = f[n]
  BY <1>2
<1> QED BY ZenonT(120), <1>1, <1>2, <1>3, <1>4, <1>5 DEF Books

(* The sink has flushed, or not. *)
LEMMA BooksFlushed ==
  ASSUME LoggerAssumptions, NEW q, NEW b, NEW w, NEW d, NEW z, NEW f, Books(q, b, w, d, z, f),
         NEW x \in {"persisted", "failed"},
         NEW g, g = [n \in DOMAIN f |-> IF f[n] # "written" THEN f[n] ELSE x]
  PROVE  /\ Books(q, b, 0, d, z, g)
         /\ Len(g) = Len(f) /\ Of(g, "writing") = Of(f, "writing")
         /\ Of(g, "dropped") = Of(f, "dropped") /\ Of(g, "written") = {}
<1>1. z \in Seq(Nat) /\ f \in Seq(Fates) /\ Len(z) = Len(f) /\ Len(f) \in Nat /\ DOMAIN f = 1 .. Len(f)
  BY BooksTypes
<1>2. x \in Fates /\ \A n \in DOMAIN f : f[n] \in Fates
  BY <1>1 DEF Fates
<1>3. g \in Seq(Fates) /\ Len(g) = Len(f) /\ DOMAIN g = DOMAIN f
  <2>1. g \in [1 .. Len(f) -> Fates]
    BY <1>1, <1>2
  <2> QED BY <1>1, <2>1
<1>4. \A n \in 1 .. Len(f) : /\ g[n] # "written"
                             /\ \A y \in Fates \ {"written", "persisted", "failed"} : g[n] = y <=> f[n] = y
  BY <1>1
<1>5. /\ Of(g, "queued") = Of(f, "queued") /\ Of(g, "dropped") = Of(f, "dropped")
      /\ Of(g, "writing") = Of(f, "writing") /\ Of(g, "written") = {}
  BY <1>1, <1>3, <1>4 DEF Of, Fates
<1>6. Total(z, {}) = 0
  BY <1>1, TotalNone
<1>7. /\ \A n \in 1 .. Len(f) : g[n] = "queued" <=> f[n] = "queued"
      /\ \A n \in 1 .. Len(f) : f[n] \in {"queued", "dropped", "refused"} => g[n] = f[n]
  BY <1>4 DEF Fates
<1> QED BY ZenonT(120), <1>1, <1>3, <1>5, <1>6, <1>7 DEF Books

(* The first k records of a queue, and the queue and the fates without     *)
(* them.                                                                   *)
First(q, k) == {q[i] : i \in 1 .. k}
Behind(q, k) == SubSeq(q, k + 1, Len(q))
Dropping(f, S) == [n \in DOMAIN f |-> IF n \in S THEN "dropped" ELSE f[n]]

LEMMA PrefixCounted ==
  ASSUME NEW q \in Seq(Nat), NEW k \in 0 .. Len(q),
         \A i, j \in 1 .. Len(q) : i < j => q[i] < q[j]
  PROVE  IsFiniteSet(First(q, k)) /\ Cardinality(First(q, k)) = k
<1> DEFINE h == [i \in 1 .. k |-> q[i]]
           S == {q[i] : i \in 1 .. k}
<1>1. h \in [1 .. k -> S] /\ \A s \in S : \E i \in 1 .. k : h[i] = s
  OBVIOUS
<1>2. \A i, j \in 1 .. k : h[i] = h[j] => i = j
  <2> TAKE i, j \in 1 .. k
  <2>1. i \in 1 .. Len(q) /\ j \in 1 .. Len(q) /\ q[i] \in Nat /\ q[j] \in Nat
    OBVIOUS
  <2>2. i < j \/ j < i \/ i = j
    BY <2>1
  <2> QED BY <2>1, <2>2
<1>3. h \in Bijection(1 .. k, S)
  <2>1. h \in Surjection(1 .. k, S)
    BY <1>1 DEF Surjection
  <2> HIDE DEF h, S
  <2>2. h \in Injection(1 .. k, S)
    BY <1>1, <1>2 DEF Injection, IsInjective
  <2> QED BY <2>1, <2>2 DEF Bijection
<1>4. ExistsBijection(1 .. k, S)
  BY <1>3 DEF ExistsBijection
<1>5. IsFiniteSet(1 .. k) /\ Cardinality(1 .. k) = k
  <2>1. k \in Nat
    OBVIOUS
  <2> QED BY <2>1, FS_Interval
<1> HIDE DEF S
<1>6. IsFiniteSet(S) /\ Cardinality(S) = Cardinality(1 .. k)
  BY <1>4, <1>5, FS_Bijection
<1> QED BY <1>5, <1>6 DEF S, First

(* The oldest k records are dropped. *)
LEMMA BooksDrop ==
  ASSUME LoggerAssumptions, NEW q, NEW b, NEW w, NEW d, NEW z, NEW f, Books(q, b, w, d, z, f),
         IsFiniteSet(Of(f, "dropped")), NEW k \in 0 .. Len(q), NEW S, S = First(q, k),
         NEW g, g = Dropping(f, S), NEW r, r = Behind(q, k),
         NEW c, c = b - Total(z, S), NEW e, e = d + k
  PROVE  /\ Books(r, c, w, e, z, g)
         /\ Len(g) = Len(f) /\ Of(g, "writing") = Of(f, "writing")
         /\ Of(g, "dropped") = Of(f, "dropped") \cup S
         /\ IsFiniteSet(Of(g, "dropped"))
<1>1. /\ z \in Seq(Nat) /\ f \in Seq(Fates) /\ Len(z) = Len(f) /\ q \in Seq(1 .. Len(f))
      /\ Len(f) \in Nat /\ DOMAIN f = 1 .. Len(f)
  BY BooksTypes
<1>2. /\ r \in Seq(1 .. Len(f)) /\ Len(r) = Len(q) - k
      /\ \A i \in 1 .. Len(q) - k : r[i] = q[k + i] /\ k + i \in 1 .. Len(q)
  <2>1. /\ Len(q) \in Nat /\ k \in Nat /\ k <= Len(q)
        /\ \A i \in 1 .. Len(q) - k : k + i \in 1 .. Len(q) /\ (k + 1) + i - 1 = k + i
    BY <1>1
  <2>2. /\ SubSeq(q, k + 1, Len(q)) \in Seq(1 .. Len(f))
        /\ Len(SubSeq(q, k + 1, Len(q))) = Len(q) - k
        /\ \A i \in 1 .. Len(q) - k : SubSeq(q, k + 1, Len(q))[i] = q[k + i]
    <3>1. \A i \in k + 1 .. Len(q) : q[i] \in 1 .. Len(f)
      BY SMTT(30), <1>1, <2>1
    <3> QED BY SMTT(30), <2>1, <3>1, SubSeqProperties
  <2> QED BY <2>1, <2>2 DEF Behind
<1>3. /\ g \in Seq(Fates) /\ Len(g) = Len(f) /\ DOMAIN g = 1 .. Len(f)
      /\ \A n \in 1 .. Len(f) : g[n] = IF n \in S THEN "dropped" ELSE f[n]
  <2>1. g \in [1 .. Len(f) -> Fates]
    BY <1>1 DEF Fates, Dropping
  <2> QED BY <1>1, <2>1 DEF Dropping
<1>4. S \subseteq Of(f, "queued")
  <2> SUFFICES ASSUME NEW i \in 1 .. k PROVE q[i] \in Of(f, "queued")
    BY DEF First
  <2>1. i \in 1 .. Len(q) /\ q[i] \in 1 .. Len(f)
    BY SMTT(120), <1>1
  <2> QED BY <1>1, <2>1 DEF Books, Of
<1>5. /\ Of(g, "queued") = Of(f, "queued") \ S /\ Of(g, "written") = Of(f, "written")
      /\ Of(g, "dropped") = Of(f, "dropped") \cup S /\ Of(g, "writing") = Of(f, "writing")
      /\ Of(f, "dropped") \cap S = {}
  BY <1>1, <1>3, <1>4 DEF Of
<1>6. Total(z, Of(f, "queued") \ S) = b - Total(z, S)
  <2>1. Total(z, Of(f, "queued") \ S) = Total(z, Of(f, "queued")) - Total(z, S)
    BY <1>1, <1>4, TotalLess
  <2> QED BY <2>1 DEF Books
<1>7. IsFiniteSet(Of(f, "dropped") \cup S) /\ Cardinality(Of(f, "dropped") \cup S) = d + k
  <2>1. q \in Seq(Nat) /\ \A i, j \in 1 .. Len(q) : i < j => q[i] < q[j]
    BY <1>1 DEF Books
  <2>2. IsFiniteSet(S) /\ Cardinality(S) = k
    BY <2>1, PrefixCounted
  <2>3. /\ IsFiniteSet(Of(f, "dropped") \cup S)
        /\ Cardinality(Of(f, "dropped") \cup S) =
             Cardinality(Of(f, "dropped")) + Cardinality(S) - Cardinality(Of(f, "dropped") \cap S)
    BY <2>2, FS_Union
  <2>4. Cardinality(Of(f, "dropped") \cap S) = 0
    BY <1>5, FS_EmptySet
  <2>5. Cardinality(Of(f, "dropped")) = d /\ d \in Nat
    BY FS_CardinalityType DEF Books
  <2> QED BY <2>2, <2>3, <2>4, <2>5
<1>8. ASSUME NEW n \in 1 .. Len(g) PROVE g[n] = "queued" <=> \E i \in 1 .. Len(r) : r[i] = n
  <2>1. f[n] = "queued" <=> \E i \in 1 .. Len(q) : q[i] = n
    BY <1>3 DEF Books
  <2>2. ASSUME g[n] = "queued" PROVE \E i \in 1 .. Len(r) : r[i] = n
    <3>1. n \notin S /\ f[n] = "queued"
      BY <1>3, <2>2
    <3>2. PICK i \in 1 .. Len(q) : q[i] = n
      BY <2>1, <3>1
    <3>3. ~(i \in 1 .. k)
      BY <3>1, <3>2 DEF First
    <3>4. i - k \in 1 .. Len(q) - k /\ k + (i - k) = i
      BY <1>1, <3>3
    <3> QED BY <1>2, <3>2, <3>4
  <2>3. ASSUME NEW i \in 1 .. Len(r), r[i] = n PROVE g[n] = "queued"
    <3>1. k + i \in 1 .. Len(q) /\ q[k + i] = n
      BY <1>2, <2>3
    <3>2. n \notin S
      <4> SUFFICES ASSUME NEW j \in 1 .. k, q[j] = n PROVE FALSE
        BY DEF First
      <4>1. j \in 1 .. Len(q) /\ j < k + i
        BY <1>1, <1>2
      <4>2. q[j] < q[k + i]
        BY <3>1, <4>1 DEF Books
      <4>3. q[j] \in 1 .. Len(f)
        BY SMTT(120), <1>1, <4>1
      <4> QED BY <3>1, <4>2, <4>3
    <3> QED BY <1>3, <2>1, <3>1, <3>2
  <2> QED BY <2>2, <2>3
<1>9. ASSUME NEW i \in 1 .. Len(r), NEW j \in 1 .. Len(r), i < j PROVE r[i] < r[j]
  <2>1. k + i \in 1 .. Len(q) /\ k + j \in 1 .. Len(q) /\ k + i < k + j
    BY <1>1, <1>2, <1>9
  <2>2. r[i] = q[k + i] /\ r[j] = q[k + j] /\ q[k + i] < q[k + j]
    BY <1>2, <2>1 DEF Books
  <2> QED BY <2>2
<1>10. ASSUME NEW m \in 1 .. Len(g), NEW n \in 1 .. Len(g), m < n, g[m] = "queued"
       PROVE  g[n] \in {"queued", "dropped", "refused"}
  <2>1. f[m] = "queued"
    BY <1>3, <1>10
  <2> QED BY <1>3, <1>10, <2>1 DEF Books
<1> QED BY ZenonT(120), <1>1, <1>2, <1>3, <1>5, <1>6, <1>7, <1>8, <1>9, <1>10 DEF Books

(* A record more. *)
More(z, s) == Append(z, s)
Joined(q, x, n) == IF x = "queued" THEN Append(q, n) ELSE q

LEMMA BooksAppend ==
  ASSUME LoggerAssumptions, NEW q, NEW b, NEW w, NEW d, NEW z, NEW f, Books(q, b, w, d, z, f),
         IsFiniteSet(Of(f, "dropped")), NEW s \in Sizes, NEW x \in {"queued", "dropped", "refused"},
         NEW y, y = More(z, s), NEW g, g = More(f, x),
         NEW r, r = Joined(q, x, Len(f) + 1),
         NEW c, c = b + (IF x = "queued" THEN s ELSE 0),
         NEW e, e = d + (IF x = "dropped" THEN 1 ELSE 0)
  PROVE  /\ Books(r, c, w, e, y, g)
         /\ Len(g) = Len(f) + 1 /\ Of(g, "writing") = Of(f, "writing")
         /\ Of(g, "dropped") = IF x = "dropped" THEN Of(f, "dropped") \cup {Len(f) + 1}
                               ELSE Of(f, "dropped")
         /\ IsFiniteSet(Of(g, "dropped"))
<1>1. /\ z \in Seq(Nat) /\ f \in Seq(Fates) /\ Len(z) = Len(f) /\ q \in Seq(1 .. Len(f))
      /\ Len(f) \in Nat /\ DOMAIN f = 1 .. Len(f)
  BY BooksTypes
<1> DEFINE N == Len(f) + 1
<1>2. /\ y \in Seq(Sizes) /\ Len(y) = N /\ s \in Nat /\ N \in Nat /\ N = Len(z) + 1
  BY <1>1 DEF Books, LoggerAssumptions, More
<1>3. /\ g \in Seq(Fates) /\ Len(g) = N /\ DOMAIN g = 1 .. N /\ g[N] = x
      /\ \A n \in 1 .. Len(f) : g[n] = f[n] /\ n # N
      /\ \A n \in 1 .. N : n = N \/ n \in 1 .. Len(f)
  BY <1>1 DEF Fates, More
<1>4. /\ r \in Seq(1 .. N) /\ \A i \in 1 .. Len(q) : r[i] = q[i] /\ r[i] < N /\ i \in 1 .. Len(r)
      /\ x = "queued" => Len(r) = Len(q) + 1 /\ r[Len(q) + 1] = N
      /\ x # "queued" => Len(r) = Len(q)
      /\ Len(q) \in Nat
  <2>1. Len(q) \in Nat /\ \A i \in 1 .. Len(q) : q[i] \in 1 .. Len(f)
    BY SMTT(30), <1>1
  <2>2. N \in 1 .. N /\ \A i \in 1 .. Len(q) : q[i] \in 1 .. N /\ q[i] < N
    BY SMTT(30), <1>1, <2>1
  <2> HIDE DEF N
  <2>3. q \in Seq(1 .. N)
    <3>1. q \in [1 .. Len(q) -> 1 .. Len(f)]
      BY SMTT(30), <1>1
    <3>2. q \in [1 .. Len(q) -> 1 .. N]
      BY <2>2, <3>1
    <3>3. Seq(1 .. N) = UNION {[1 .. n -> 1 .. N] : n \in Nat}
      BY SeqDef
    <3> QED BY <2>1, <3>2, <3>3
  <2>4. CASE x = "queued"
    <3>1. r = Append(q, N)
      BY <2>4 DEF N, Joined
    <3>2. /\ r \in Seq(1 .. N) /\ Len(r) = Len(q) + 1 /\ r[Len(q) + 1] = N
          /\ \A i \in 1 .. Len(q) : r[i] = q[i] /\ i \in 1 .. Len(r)
      <4>1. N \in 1 .. N
        BY <2>2
      <4>2. /\ Append(q, N) \in Seq(1 .. N) /\ Len(Append(q, N)) = Len(q) + 1
            /\ Append(q, N)[Len(q) + 1] = N
            /\ \A i \in 1 .. Len(q) : Append(q, N)[i] = q[i]
        BY <2>3, <4>1, AppendProperties
      <4>3. \A i \in 1 .. Len(q) : i \in 1 .. Len(q) + 1
        BY <2>1
      <4> QED BY <3>1, <4>2, <4>3
    <3> QED BY <2>1, <2>2, <2>4, <3>2
  <2>5. CASE x # "queued"
    <3>1. r = q
      BY <2>5 DEF Joined
    <3> QED BY <2>1, <2>2, <2>3, <2>5, <3>1
  <2> QED BY <2>4, <2>5
<1>5. /\ Of(g, "queued") = IF x = "queued" THEN Of(f, "queued") \cup {N} ELSE Of(f, "queued")
      /\ Of(g, "dropped") = IF x = "dropped" THEN Of(f, "dropped") \cup {N} ELSE Of(f, "dropped")
      /\ Of(g, "written") = Of(f, "written") /\ Of(g, "writing") = Of(f, "writing")
  <2>1. /\ \A n \in 1 .. Len(f) : n \in 1 .. N
        /\ N \in 1 .. N
    BY <1>1
  <2> HIDE DEF N
  <2> QED BY <1>1, <1>3, <2>1 DEF Of
<1>6. N \notin Of(f, "dropped") /\ N \notin Of(f, "queued") /\ N \notin Of(f, "written")
  BY <1>1 DEF Of
<1>7. \A S : Total(y, S) = Total(z, S) + (IF N \in S THEN s ELSE 0) /\ Total(z, S) \in Nat
  BY <1>1, <1>2, TotalAppend, TotalType DEF More
<1>8. Total(z, Of(f, "queued") \cup {N}) = Total(z, Of(f, "queued"))
  <2>1. Total(z, {N}) = 0
    <3>1. \A n \in 1 .. Len(z) : n \notin {N}
      BY <1>1
    <3> QED BY <1>1, <3>1, TotalNone
  <2>2. Total(z, Of(f, "queued") \cup {N}) = Total(z, Of(f, "queued")) + Total(z, {N})
    <3>1. Of(f, "queued") \cap {N} = {}
      BY <1>6
    <3> QED BY <1>1, <3>1, TotalUnion
  <2> QED BY <1>7, <2>1, <2>2
<1>9. /\ c = Total(y, Of(g, "queued"))
      /\ w = Total(y, Of(g, "written"))
  <2>1. /\ Total(y, Of(f, "queued") \cup {N}) = Total(z, Of(f, "queued")) + s
        /\ Total(y, Of(f, "queued")) = Total(z, Of(f, "queued"))
        /\ Total(y, Of(f, "written")) = Total(z, Of(f, "written"))
    BY <1>6, <1>7, <1>8
  <2>2. b \in Nat /\ b = Total(z, Of(f, "queued")) /\ w = Total(z, Of(f, "written"))
    BY <1>7 DEF Books
  <2>3. CASE x = "queued"
    BY <1>2, <1>5, <2>1, <2>2, <2>3
  <2>4. CASE x # "queued"
    BY <1>2, <1>5, <2>1, <2>2, <2>4
  <2> QED BY <2>3, <2>4
<1>10. /\ IsFiniteSet(Of(g, "dropped"))
       /\ e = Cardinality(Of(g, "dropped"))
  <2>1. /\ IsFiniteSet(Of(f, "dropped") \cup {N})
        /\ Cardinality(Of(f, "dropped") \cup {N}) = Cardinality(Of(f, "dropped")) + 1
    BY <1>6, FS_AddElement
  <2>2. d \in Nat /\ d = Cardinality(Of(f, "dropped"))
    BY FS_CardinalityType DEF Books
  <2>3. CASE x = "dropped"
    BY <1>5, <2>1, <2>2, <2>3
  <2>4. CASE x # "dropped"
    BY <1>5, <2>1, <2>2, <2>4
  <2> QED BY <2>3, <2>4
<1>11. ASSUME NEW n \in 1 .. Len(g) PROVE g[n] = "queued" <=> \E i \in 1 .. Len(r) : r[i] = n
  <2>1. CASE n = N
    <3>1. ASSUME x = "queued" PROVE \E i \in 1 .. Len(r) : r[i] = n
      BY <1>4, <2>1, <3>1
    <3>2. ASSUME x # "queued", NEW i \in 1 .. Len(r), r[i] = n PROVE FALSE
      <4>1. i \in 1 .. Len(q) /\ r[i] < N
        BY <1>4, <3>2
      <4> QED BY <1>2, <2>1, <3>2, <4>1
    <3> QED BY <1>3, <2>1, <3>1, <3>2
  <2>2. CASE n \in 1 .. Len(f)
    <3>1. f[n] = "queued" <=> \E i \in 1 .. Len(q) : q[i] = n
      BY <2>2 DEF Books
    <3>2. ASSUME NEW i \in 1 .. Len(r), r[i] = n PROVE i \in 1 .. Len(q) /\ q[i] = n
      <4>1. i \in 1 .. Len(q)
        BY SMTT(30), <1>3, <1>4, <2>2, <3>2
      <4> QED BY <1>4, <3>2, <4>1
    <3> QED BY <1>3, <1>4, <2>2, <3>1, <3>2
  <2> QED BY <1>3, <2>1, <2>2
<1>12. ASSUME NEW i \in 1 .. Len(r), NEW j \in 1 .. Len(r), i < j PROVE r[i] < r[j]
  <2>1. i \in 1 .. Len(q)
    BY <1>4, <1>12
  <2>2. CASE j \in 1 .. Len(q)
    BY <1>4, <1>12, <2>1, <2>2 DEF Books
  <2>3. CASE j \notin 1 .. Len(q)
    <3>1. x = "queued" /\ j = Len(q) + 1
      BY SMTT(30), <1>4, <2>3
    <3> QED BY <1>4, <2>1, <3>1
  <2> QED BY <2>2, <2>3
<1>13. ASSUME NEW m \in 1 .. Len(g), NEW n \in 1 .. Len(g), m < n, g[m] = "queued"
       PROVE  g[n] \in {"queued", "dropped", "refused"}
  <2>1. m \in 1 .. Len(f)
    BY <1>1, <1>3, <1>13
  <2>2. CASE n = N
    BY <1>3, <2>2
  <2>3. CASE n \in 1 .. Len(f)
    BY <1>3, <1>13, <2>1, <2>3 DEF Books
  <2> QED BY <1>3, <2>2, <2>3
<1> QED
  <2>1. Len(y) = Len(g) /\ r \in Seq(1 .. Len(g))
    BY <1>2, <1>3, <1>4
  <2> HIDE DEF N
  <2>2. Books(r, c, w, e, y, g)
    BY <1>2, <1>3, <1>9, <1>10, <1>11, <1>12, <1>13, <2>1 DEF Books
  <2> QED BY <1>3, <1>5, <1>10, <2>2 DEF N

-----------------------------------------------------------------------------
(* The invariant: the books are right, a record that is with the sink is   *)
(* the worker's entry, and a worker that has ended has left nothing.       *)
Right ==
  /\ Books(queue, queued, pending, dropped, size, fate) /\ IsFiniteSet(Of(fate, "dropped"))
  /\ policy = "Block" => \A n \in Of(fate, "dropped") : size[n] > MaxMemory

Works ==
  /\ wpc \in {"sleep", "awake", "write", "flush", "done"}
  /\ Of(fate, "writing") = IF wpc = "write" THEN {entry} ELSE {}
  /\ wpc = "done" => stopping /\ queue = <<>> /\ pending = 0
  /\ entry \in 0 .. Len(fate)

Waits ==
  /\ pc \in [Threads -> {"idle", "blocked", "unblocked", "flushing", "checking"}]
  /\ arg \in [Threads -> {0} \cup Sizes]
  /\ \A t \in Threads : pc[t] \in {"blocked", "unblocked"} => arg[t] \in Sizes
  /\ before \in [Threads -> 0 .. Len(fate)]

Flags ==
  /\ errors \in Nat /\ policy \in Policies
  /\ stopping \in BOOLEAN /\ force \in BOOLEAN /\ due \in BOOLEAN /\ timedOut \in BOOLEAN

LogInv == Right /\ Works /\ Waits /\ Flags

LEMMA SumIsTotal == \A S : Sum(S) = Total(size, S)
BY DEF Sum, Total

(* A record is pushed: the first k are dropped, and it is queued, dropped  *)
(* or refused.                                                             *)
LEMMA Noted ==
  ASSUME LoggerAssumptions, LogInv, NEW s \in Sizes, NEW k \in 0 .. Len(queue),
         NEW x \in {"queued", "dropped", "refused"},
         NEW S, S = First(queue, k), Note(s, x, S),
         queue' = Joined(Behind(queue, k), x, Len(fate) + 1),
         queued' = queued - Sum(S) + (IF x = "queued" THEN s ELSE 0),
         dropped' = dropped + k + (IF x = "dropped" THEN 1 ELSE 0),
         UNCHANGED <<pending, policy>>,
         policy = "Block" => k = 0 /\ (x = "dropped" => s > MaxMemory)
  PROVE  /\ Right'
         /\ Len(fate') = Len(fate) + 1 /\ Of(fate', "writing") = Of(fate, "writing")
         /\ \A t \in 0 .. Len(fate) : t \in 0 .. Len(fate')
<1>1. /\ Books(queue, queued, pending, dropped, size, fate) /\ IsFiniteSet(Of(fate, "dropped"))
      /\ size \in Seq(Nat) /\ Len(size) = Len(fate) /\ Len(fate) \in Nat /\ DOMAIN fate = 1 .. Len(fate)
  BY BooksTypes DEF LogInv, Right
<1> DEFINE g == Dropping(fate, S)
           r == Behind(queue, k)
           c == queued - Total(size, S)
           e == dropped + k
<1>2. g = Dropping(fate, S) /\ r = Behind(queue, k) /\ c = queued - Total(size, S) /\ e = dropped + k
  OBVIOUS
<1>3. /\ fate' = More(g, x) /\ size' = More(size, s) /\ queue' = Joined(r, x, Len(fate) + 1)
      /\ queued' = c + (IF x = "queued" THEN s ELSE 0)
      /\ dropped' = e + (IF x = "dropped" THEN 1 ELSE 0)
  BY SumIsTotal DEF Note, Records, Dropping, More
<1> HIDE DEF g, r, c, e
<1>4. /\ Books(r, c, pending, e, size, g)
      /\ Len(g) = Len(fate) /\ Of(g, "writing") = Of(fate, "writing")
      /\ Of(g, "dropped") = Of(fate, "dropped") \cup S
      /\ IsFiniteSet(Of(g, "dropped"))
  BY <1>1, <1>2, BooksDrop
<1>5. /\ Books(queue', queued', pending, dropped', size', fate')
      /\ Len(fate') = Len(g) + 1 /\ Of(fate', "writing") = Of(g, "writing")
      /\ Of(fate', "dropped") = IF x = "dropped" THEN Of(g, "dropped") \cup {Len(g) + 1}
                                 ELSE Of(g, "dropped")
      /\ IsFiniteSet(Of(fate', "dropped"))
  <2>1. queue' = Joined(r, x, Len(g) + 1)
    BY <1>3, <1>4
  <2> HIDE DEF g, r, c, e
  <2> QED BY SMTT(30), <1>3, <1>4, <2>1, BooksAppend
<1>6. ASSUME policy = "Block", NEW n \in Of(fate', "dropped") PROVE size'[n] > MaxMemory
  <2>1. S = {} /\ size' = Append(size, s)
    BY <1>3, <1>6 DEF First, More
  <2>2. n \in Of(fate, "dropped") \/ (x = "dropped" /\ n = Len(fate) + 1)
    BY <1>4, <1>5, <1>6, <2>1
  <2>3. CASE n \in Of(fate, "dropped")
    <3>1. size[n] > MaxMemory /\ n \in 1 .. Len(size)
      BY <1>1, <1>6, <2>3 DEF LogInv, Right, Of
    <3> QED BY <1>1, <2>1, <3>1
  <2>4. CASE x = "dropped" /\ n = Len(fate) + 1
    <3>1. s > MaxMemory /\ n = Len(size) + 1
      BY <1>1, <1>6, <2>4
    <3> QED BY <1>1, <2>1, <3>1
  <2> QED BY <2>2, <2>3, <2>4
<1>7. Right'
  BY <1>5, <1>6 DEF Right
<1> QED BY <1>1, <1>4, <1>5, <1>7

(* The worker has the first record. *)
LEMMA Popped ==
  ASSUME LoggerAssumptions, NEW f, NEW left,
         Books(queue, queued, left, dropped, size, f), IsFiniteSet(Of(f, "dropped")),
         policy = "Block" => \A n \in Of(f, "dropped") : size[n] > MaxMemory,
         Of(f, "writing") = {}, PopNext, fate' = Marked(f, entry', "writing"),
         pending' = left, UNCHANGED <<size, dropped, policy, stopping>>
  PROVE  Right' /\ Works' /\ Len(fate') = Len(f)
<1>1. /\ Taken(queue, entry', queue')
      /\ queued' = queued - size[entry'] /\ fate' = Marked(f, entry', "writing")
  BY DEF PopNext, Taken
<1>2. /\ Books(queue', queued', left, dropped, size, fate')
      /\ Len(fate') = Len(f)
      /\ Of(fate', "writing") = Of(f, "writing") \cup {entry'}
      /\ Of(fate', "dropped") = Of(f, "dropped")
  <2> HIDE DEF PopNext
  <2>1. Books(queue, queued, left, dropped, size, f) /\ LoggerAssumptions
    OBVIOUS
  <2> QED BY <1>1, <2>1, BooksPop
<1>3. queue' = Tail(queue) /\ queued' = queued - size[Head(queue)] /\ wpc' = "write" /\ entry' = Head(queue)
  BY DEF PopNext
<1>4. Right'
  BY <1>2, <1>3 DEF Right
<1>5. Works'
  <2>1. entry' \in 1 .. Len(fate') /\ Of(fate', "writing") = {entry'}
    BY <1>2, <1>3, BooksTypes DEF Of
  <2>2. entry' \in 0 .. Len(fate')
    BY <2>1
  <2> QED BY <1>3, <2>1, <2>2 DEF Works
<1> QED BY <1>2, <1>4, <1>5

(* The worker has found the queue empty. *)
LEMMA Settled ==
  ASSUME LoggerAssumptions, NEW left,
         Books(queue, queued, left, dropped, size, fate'), IsFiniteSet(Of(fate', "dropped")),
         policy = "Block" => \A n \in Of(fate', "dropped") : size[n] > MaxMemory,
         Of(fate', "writing") = {}, queue = <<>>, entry' = 0,
         wpc' \in {"sleep", "awake", "flush", "done"}, wpc' = "done" => stopping /\ left = 0,
         pending' = left, UNCHANGED <<queue, queued, size, dropped, policy, stopping>>
  PROVE  Right' /\ Works'
<1>1. Right'
  BY DEF Right
<1>2. Len(fate') \in Nat
  BY BooksTypes
<1> QED BY <1>1, <1>2 DEF Works

(* Those who sleep on a condition variable are woken. *)
LEMMA NotifiedWaits ==
  ASSUME Waits, NEW kinds, kinds \subseteq {"blocked", "flushing"}, pc' = Notified(kinds),
         UNCHANGED <<arg, before>>, Len(fate') = Len(fate)
  PROVE  Waits'
<1>1. ASSUME NEW t \in Threads
      PROVE  /\ pc'[t] \in {"idle", "blocked", "unblocked", "flushing", "checking"}
             /\ pc'[t] \in {"blocked", "unblocked"} => pc[t] \in {"blocked", "unblocked"}
  <2>1. pc'[t] = IF pc[t] \in kinds
                 THEN CASE pc[t] = "blocked" -> "unblocked" [] pc[t] = "flushing" -> "checking"
                 ELSE pc[t]
    BY DEF Notified
  <2>2. CASE pc[t] \in kinds /\ pc[t] = "blocked"
    BY <2>1, <2>2
  <2>3. CASE pc[t] \in kinds /\ pc[t] = "flushing"
    BY <2>1, <2>3
  <2>4. CASE pc[t] \notin kinds
    BY <2>1, <2>4 DEF Waits
  <2> QED BY <2>2, <2>3, <2>4
<1>2. pc' \in [Threads -> {"idle", "blocked", "unblocked", "flushing", "checking"}]
  BY <1>1 DEF Notified
<1> QED BY <1>1, <1>2 DEF Waits

-----------------------------------------------------------------------------
(* push() *)

LEMMA NoneDropped ==
  ASSUME LoggerAssumptions, LogInv
  PROVE  /\ First(queue, 0) = {} /\ Behind(queue, 0) = queue /\ Sum({}) = 0
         /\ queued \in Nat /\ dropped \in Nat /\ 0 \in 0 .. Len(queue)
<1>1. /\ Books(queue, queued, pending, dropped, size, fate) /\ IsFiniteSet(Of(fate, "dropped"))
      /\ size \in Seq(Nat) /\ queue \in Seq(1 .. Len(fate))
  BY BooksTypes DEF LogInv, Right
<1>2. First(queue, 0) = {} /\ Sum({}) = 0
  BY <1>1, SumIsTotal, TotalNone DEF First
<1>3. Behind(queue, 0) = queue /\ 0 \in 0 .. Len(queue)
  <2>1. Len(queue) \in Nat /\ \A i \in 0 + 1 .. Len(queue) : queue[i] \in 1 .. Len(fate)
    BY <1>1
  <2>2. /\ Behind(queue, 0) \in Seq(1 .. Len(fate))
        /\ Len(Behind(queue, 0)) = Len(queue)
        /\ \A i \in 1 .. Len(queue) : Behind(queue, 0)[i] = queue[i]
    BY <2>1, SubSeqProperties DEF Behind
  <2> QED BY <1>1, <2>1, <2>2, SeqEqual
<1>4. queued \in Nat /\ dropped \in Nat
  BY <1>1, TotalType, FS_CardinalityType DEF Books
<1> QED BY <1>2, <1>3, <1>4

(* What becomes of a record that is not queued: it is dropped, or refused. *)
LEMMA Turned ==
  ASSUME LoggerAssumptions, LogInv, NEW s \in Sizes, NEW x \in {"dropped", "refused"},
         Note(s, x, {}), dropped' = dropped + (IF x = "dropped" THEN 1 ELSE 0),
         UNCHANGED <<queue, queued, pending, policy>>, x = "dropped" /\ policy = "Block" => s > MaxMemory
  PROVE  /\ Right'
         /\ Len(fate') = Len(fate) + 1 /\ Of(fate', "writing") = Of(fate, "writing")
         /\ \A t \in 0 .. Len(fate) : t \in 0 .. Len(fate')
<1>1. /\ First(queue, 0) = {} /\ Behind(queue, 0) = queue /\ Sum({}) = 0
      /\ queued \in Nat /\ dropped \in Nat /\ 0 \in 0 .. Len(queue)
  BY NoneDropped
<1>2. queue' = Joined(Behind(queue, 0), x, Len(fate) + 1)
  BY <1>1 DEF Joined
<1>3. /\ queued' = queued - Sum({}) + (IF x = "queued" THEN s ELSE 0)
      /\ dropped' = dropped + 0 + (IF x = "dropped" THEN 1 ELSE 0)
  BY <1>1
<1>4. x \in {"queued", "dropped", "refused"} /\ (policy = "Block" => 0 = 0 /\ (x = "dropped" => s > MaxMemory))
  OBVIOUS
<1> QED BY <1>1, <1>2, <1>3, <1>4, Noted

LEMMA Enqueued ==
  ASSUME LoggerAssumptions, LogInv, NEW s \in Sizes, NEW k \in 0 .. Len(queue), Enqueue(s, k),
         policy = "Block" => k = 0, UNCHANGED <<pending, policy>>
  PROVE  /\ Right'
         /\ Len(fate') = Len(fate) + 1 /\ Of(fate', "writing") = Of(fate, "writing")
         /\ \A t \in 0 .. Len(fate) : t \in 0 .. Len(fate')
<1> DEFINE S == First(queue, k)
<1>1. /\ Note(s, "queued", S) /\ queue' = Joined(Behind(queue, k), "queued", Len(fate) + 1)
      /\ queued' = queued - Sum(S) + (IF "queued" = "queued" THEN s ELSE 0)
  BY DEF Enqueue, First, Behind, Joined
<1>2. dropped' = dropped + k + (IF "queued" = "dropped" THEN 1 ELSE 0)
  <2>1. dropped \in Nat /\ k \in Nat
    BY NoneDropped
  <2> QED BY <2>1 DEF Enqueue
<1>3. S = First(queue, k) /\ "queued" \in {"queued", "dropped", "refused"}
      /\ (policy = "Block" => k = 0 /\ ("queued" = "dropped" => s > MaxMemory))
  OBVIOUS
<1> HIDE DEF S
<1> QED BY <1>1, <1>2, <1>3, Noted

LEMMA AllDropped ==
  ASSUME LoggerAssumptions, LogInv, NEW s \in Sizes, DropAll(s), policy # "Block",
         UNCHANGED <<pending, policy>>
  PROVE  /\ Right'
         /\ Len(fate') = Len(fate) + 1 /\ Of(fate', "writing") = Of(fate, "writing")
         /\ \A t \in 0 .. Len(fate) : t \in 0 .. Len(fate')
<1> DEFINE k == Len(queue)
           S == First(queue, k)
<1>1. Books(queue, queued, pending, dropped, size, fate) /\ queue \in Seq(1 .. Len(fate)) /\ size \in Seq(Nat)
  BY BooksTypes DEF LogInv, Right
<1>2. k \in Nat /\ k \in 0 .. Len(queue) /\ queued \in Nat /\ dropped \in Nat
  BY <1>1, NoneDropped
<1>3. Range(queue) = S
  BY SMTT(30), <1>1 DEF First, Range
<1>4. Behind(queue, k) = <<>>
  <2>1. k + 1 \in Int /\ k \in Int /\ k < k + 1
    BY <1>2
  <2> QED BY <2>1, SubSeqEmpty DEF Behind
<1>5. /\ Note(s, "dropped", S) /\ queue' = Joined(Behind(queue, k), "dropped", Len(fate) + 1)
  BY <1>3, <1>4 DEF DropAll, Joined
<1>6. queued' = queued - Sum(S) + (IF "dropped" = "queued" THEN s ELSE 0)
  <2>1. Sum(S) \in Nat
    BY <1>1, SumIsTotal, TotalType
  <2>2. queued' = queued - Sum(S)
    BY <1>3 DEF DropAll
  <2> HIDE DEF S
  <2> QED BY <1>2, <2>1, <2>2
<1>7. dropped' = dropped + k + (IF "dropped" = "dropped" THEN 1 ELSE 0)
  BY <1>2 DEF DropAll
<1>8. S = First(queue, k) /\ "dropped" \in {"queued", "dropped", "refused"}
      /\ (policy = "Block" => k = 0 /\ ("dropped" = "dropped" => s > MaxMemory))
  OBVIOUS
<1> HIDE DEF S, k
<1> QED BY <1>2, <1>5, <1>6, <1>7, <1>8, Noted

(* There is always a number of records to drop. *)
LEMMA VictimsExist ==
  ASSUME LoggerAssumptions, LogInv, NEW s \in Sizes
  PROVE  Victims(s) \in 0 .. Len(queue)
<1> DEFINE Room(k) == HasSpace(queued - Sum({queue[i] : i \in 1 .. k}), s)
           T == {k \in 0 .. Len(queue) : k = Len(queue) \/ Room(k)}
<1>1. Len(queue) \in Nat
  BY BooksTypes DEF LogInv, Right
<1> HIDE DEF Room
<1>2. T \subseteq Nat /\ Len(queue) \in T
  BY <1>1
<1>3. PICK k \in T : \A m \in T : k <= m
  <2> HIDE DEF T
  <2> QED BY <1>2, LeastNat
<1>4. k \in 0 .. Len(queue) /\ (k = Len(queue) \/ Room(k))
  BY <1>3
<1>5. \A j \in 0 .. k - 1 : ~Room(j)
  BY <1>1, <1>3
<1>6. \E v \in 0 .. Len(queue) : (v = Len(queue) \/ Room(v)) /\ \A j \in 0 .. v - 1 : ~Room(j)
  BY <1>4, <1>5
<1>7. Victims(s) = CHOOSE v \in 0 .. Len(queue) :
                     (v = Len(queue) \/ Room(v)) /\ \A j \in 0 .. v - 1 : ~Room(j)
  BY DEF Victims, Room
<1> QED BY <1>6, <1>7

(* After a push the worker is where it was, or awake. *)
LEMMA PushedWorks ==
  ASSUME LogInv, wpc' \in {wpc, Awake(wpc)}, UNCHANGED <<entry, stopping, pending>>,
         Of(fate', "writing") = Of(fate, "writing"), \A n \in 0 .. Len(fate) : n \in 0 .. Len(fate'),
         wpc = "done" => UNCHANGED queue
  PROVE  Works'
<1>1. wpc' = wpc \/ (wpc = "sleep" /\ wpc' = "awake")
  BY DEF Awake
<1>2. /\ Works /\ entry' \in 0 .. Len(fate')
  BY DEF LogInv, Works
<1>3. CASE wpc' = wpc
  BY <1>2, <1>3 DEF Works
<1>4. CASE wpc = "sleep" /\ wpc' = "awake"
  BY <1>2, <1>4 DEF Works
<1> QED BY <1>1, <1>3, <1>4

(* A thread goes from one state to another. *)
LEMMA ThreadWaits ==
  ASSUME Waits, NEW t \in Threads, NEW a \in {"idle", "blocked", "unblocked", "flushing", "checking"},
         NEW u \in {0} \cup Sizes, a \in {"blocked", "unblocked"} => u \in Sizes,
         pc' = [pc EXCEPT ![t] = a], arg' = [arg EXCEPT ![t] = u],
         before' \in [Threads -> 0 .. Len(fate')]
  PROVE  Waits'
<1>1. /\ pc' \in [Threads -> {"idle", "blocked", "unblocked", "flushing", "checking"}]
      /\ arg' \in [Threads -> {0} \cup Sizes]
  BY DEF Waits
<1>2. ASSUME NEW v \in Threads, pc'[v] \in {"blocked", "unblocked"} PROVE arg'[v] \in Sizes
  <2>1. CASE v = t
    BY <1>2, <2>1 DEF Waits
  <2>2. CASE v # t
    BY <1>2, <2>2 DEF Waits
  <2> QED BY <2>1, <2>2
<1> QED BY <1>1, <1>2 DEF Waits

LEMMA LaterBefore ==
  ASSUME Waits, UNCHANGED before, \A n \in 0 .. Len(fate) : n \in 0 .. Len(fate')
  PROVE  before' \in [Threads -> 0 .. Len(fate')]
BY DEF Waits

LEMMA PushKeeps ==
  ASSUME LoggerAssumptions, LogInv, NEW t \in Threads, NEW s \in Sizes, Push(t, s)
  PROVE  LogInv'
<1> USE DEF LogInv
<1>1. /\ ~stopping /\ wpc # "done"
      /\ UNCHANGED <<pending, stopping, force, errors, entry, timedOut, due, pc, arg, before, policy, flushes>>
  BY DEF Push, PushStarts, Works
<1>2. /\ wpc' \in {wpc, Awake(wpc)}
      /\ Right'
      /\ Len(fate') = Len(fate) + 1 /\ Of(fate', "writing") = Of(fate, "writing")
      /\ \A n \in 0 .. Len(fate) : n \in 0 .. Len(fate')
  <2>1. CASE Discard(s) /\ (policy = "Block" => Oversize(s))
    <3>1. /\ Note(s, "dropped", {}) /\ dropped' = dropped + (IF "dropped" = "dropped" THEN 1 ELSE 0)
          /\ UNCHANGED <<queue, queued, wpc>>
      BY <2>1 DEF Discard
    <3>2. "dropped" = "dropped" /\ policy = "Block" => s > MaxMemory
      BY <2>1 DEF Oversize
    <3> QED BY <1>1, <3>1, <3>2, Turned
  <2>2. CASE Enqueue(s, 0)
    <3>1. 0 \in 0 .. Len(queue)
      BY NoneDropped
    <3>2. wpc' = Awake(wpc)
      BY <2>2 DEF Enqueue
    <3> QED BY <1>1, <2>2, <3>1, <3>2, Enqueued
  <2>3. CASE Enqueue(s, Victims(s)) /\ policy = "DropOldest"
    <3>1. Victims(s) \in 0 .. Len(queue)
      BY VictimsExist
    <3>2. wpc' = Awake(wpc)
      BY <2>3 DEF Enqueue
    <3> QED BY <1>1, <2>3, <3>1, <3>2, Enqueued
  <2>4. CASE DropAll(s) /\ policy = "DropOldest"
    <3>1. wpc' = wpc
      BY <2>4 DEF DropAll
    <3> QED BY <1>1, <2>4, <3>1, AllDropped
  <2> QED BY <2>1, <2>2, <2>3, <2>4 DEF Push
<1>3. Works'
  BY <1>1, <1>2, PushedWorks
<1>4. Waits'
  BY <1>1, <1>2, LaterBefore DEF Waits
<1>5. Flags'
  BY <1>1 DEF Flags
<1> QED BY <1>2, <1>3, <1>4, <1>5

LEMMA PushBlocksKeeps ==
  ASSUME LoggerAssumptions, LogInv, NEW t \in Threads, NEW s \in Sizes, PushBlocks(t, s)
  PROVE  LogInv'
<1> USE DEF LogInv
<1>1. /\ UNCHANGED <<queue, queued, pending, stopping, force, dropped, errors, worker, due,
                     before, policy, flushes, history>>
      /\ pc' = [pc EXCEPT ![t] = "blocked"] /\ arg' = [arg EXCEPT ![t] = s]
  BY DEF PushBlocks
<1>2. Right' /\ Works' /\ Flags'
  BY <1>1 DEF Right, Works, Flags, worker, history
<1>3. Waits'
  <2>1. before' \in [Threads -> 0 .. Len(fate')]
    BY <1>1 DEF Waits, history
  <2> QED BY <1>1, <2>1, ThreadWaits
<1> QED BY <1>2, <1>3

LEMMA PushResumesKeeps ==
  ASSUME LoggerAssumptions, LogInv, NEW t \in Threads, PushResumes(t)
  PROVE  LogInv'
<1> USE DEF LogInv
<1>1. /\ UNCHANGED <<pending, stopping, force, errors, entry, timedOut, due, before, policy, flushes>>
      /\ arg[t] \in Sizes
  BY DEF PushResumes, Waits
<1> DEFINE s == arg[t]
<1>2. Flags'
  BY <1>1 DEF Flags
<1>3. CASE /\ ~stopping /\ ~HasSpace(queued, s) /\ pc' = [pc EXCEPT ![t] = "blocked"]
           /\ UNCHANGED <<arg, queue, queued, dropped, wpc, history>>
  <2>1. Right' /\ Works'
    BY <1>1, <1>3 DEF Right, Works, history
  <2>2. before' \in [Threads -> 0 .. Len(fate')] /\ arg' = [arg EXCEPT ![t] = s]
    BY <1>1, <1>3 DEF Waits, history
  <2>3. Waits'
    BY <1>1, <1>3, <2>2, ThreadWaits
  <2> QED BY <1>2, <2>1, <2>3
<1>4. CASE /\ (stopping /\ Note(s, "refused", {}) /\ UNCHANGED <<queue, queued, dropped, wpc>>)
              \/ (~stopping /\ Enqueue(s, 0))
           /\ pc' = [pc EXCEPT ![t] = "idle"] /\ arg' = [arg EXCEPT ![t] = 0]
  <2>1. /\ wpc' \in {wpc, Awake(wpc)}
        /\ Right'
        /\ Len(fate') = Len(fate) + 1 /\ Of(fate', "writing") = Of(fate, "writing")
        /\ \A n \in 0 .. Len(fate) : n \in 0 .. Len(fate')
        /\ wpc = "done" => UNCHANGED queue
    <3> HIDE DEF s
    <3>1. CASE Note(s, "refused", {}) /\ UNCHANGED <<queue, queued, dropped, wpc>>
      <4>1. dropped' = dropped + (IF "refused" = "dropped" THEN 1 ELSE 0)
        BY <3>1, NoneDropped
      <4>2. s \in Sizes
        BY <1>1 DEF s
      <4> QED BY <1>1, <3>1, <4>1, <4>2, Turned
    <3>2. CASE Enqueue(s, 0) /\ ~stopping
      <4>1. 0 \in 0 .. Len(queue) /\ s \in Sizes
        BY <1>1, NoneDropped DEF s
      <4>2. wpc' = Awake(wpc) /\ wpc # "done"
        BY <3>2 DEF Enqueue, Works
      <4> QED BY <1>1, <3>2, <4>1, <4>2, Enqueued
    <3> QED BY <1>4, <3>1, <3>2
  <2>2. Works'
    BY <1>1, <2>1, PushedWorks
  <2>3. before' \in [Threads -> 0 .. Len(fate')]
    BY <1>1, <2>1, LaterBefore
  <2>4. Waits'
    BY <1>4, <2>3, ThreadWaits
  <2> QED BY <1>2, <2>1, <2>2, <2>4
<1> QED BY <1>3, <1>4 DEF PushResumes

-----------------------------------------------------------------------------
(* flush(), the destructor and the time *)

(* Nothing is pushed and nothing is written. *)
LEMMA NothingMoves ==
  ASSUME LogInv, UNCHANGED <<queue, queued, pending, dropped, policy, size, fate>>
  PROVE  Right'
BY DEF LogInv, Right

LEMMA WorkerStays ==
  ASSUME LogInv, wpc' \in {wpc, Awake(wpc)}, stopping => stopping',
         UNCHANGED <<queue, pending, entry, fate>>
  PROVE  Works'
<1>1. wpc' = wpc \/ (wpc = "sleep" /\ wpc' = "awake")
  BY DEF Awake
<1>2. Works /\ (stopping => stopping')
  BY DEF LogInv
<1>3. CASE wpc' = wpc
  BY <1>2, <1>3 DEF Works
<1>4. CASE wpc = "sleep" /\ wpc' = "awake"
  BY <1>2, <1>4 DEF Works
<1> QED BY <1>1, <1>3, <1>4

LEMMA FlushStartsKeeps ==
  ASSUME LoggerAssumptions, LogInv, NEW t \in Threads, FlushStarts(t)
  PROVE  LogInv'
<1>1. /\ wpc' = Awake(wpc) /\ force' = TRUE
      /\ pc' = [pc EXCEPT ![t] = "flushing"] /\ before' = [before EXCEPT ![t] = Len(fate)]
      /\ UNCHANGED <<queue, queued, pending, stopping, dropped, errors, entry, timedOut, due, arg,
                     policy, size, fate>>
  BY DEF FlushStarts, history
<1>2. Right' /\ Works'
  BY <1>1, NothingMoves, WorkerStays
<1>3. Waits'
  <2>1. Len(fate) \in 0 .. Len(fate) /\ before \in [Threads -> 0 .. Len(fate)]
    BY BooksTypes DEF LogInv, Right, Waits
  <2>2. before' \in [Threads -> 0 .. Len(fate')]
    BY <1>1, <2>1
  <2>3. Waits /\ arg[t] \in {0} \cup Sizes /\ arg' = [arg EXCEPT ![t] = arg[t]]
    BY <1>1 DEF LogInv, Waits
  <2> QED BY <1>1, <2>2, <2>3, ThreadWaits
<1>4. Flags'
  BY <1>1 DEF LogInv, Flags
<1> QED BY <1>2, <1>3, <1>4 DEF LogInv

LEMMA FlushResumesKeeps ==
  ASSUME LoggerAssumptions, LogInv, NEW t \in Threads, FlushResumes(t)
  PROVE  LogInv'
<1>1. /\ \E a \in {"idle", "flushing"} : pc' = [pc EXCEPT ![t] = a]
      /\ before' = [before EXCEPT ![t] = IF pc'[t] = "idle" THEN 0 ELSE @]
      /\ UNCHANGED <<queue, queued, pending, stopping, force, dropped, errors, wpc, entry, timedOut, due,
                     arg, policy, size, fate>>
  BY DEF FlushResumes, worker, history
<1>2. Right' /\ Works'
  BY <1>1, NothingMoves, WorkerStays
<1>3. Waits'
  <2>1. 0 \in 0 .. Len(fate) /\ before \in [Threads -> 0 .. Len(fate)]
    BY BooksTypes DEF LogInv, Right, Waits
  <2>2. before' \in [Threads -> 0 .. Len(fate')]
    BY <1>1, <2>1
  <2>3. Waits /\ arg[t] \in {0} \cup Sizes /\ arg' = [arg EXCEPT ![t] = arg[t]]
    BY <1>1 DEF LogInv, Waits
  <2> QED BY <1>1, <2>2, <2>3, ThreadWaits
<1>4. Flags'
  BY <1>1 DEF LogInv, Flags
<1> QED BY <1>2, <1>3, <1>4 DEF LogInv

LEMMA StopLoggerKeeps ==
  ASSUME LoggerAssumptions, LogInv, StopLogger
  PROVE  LogInv'
<1>1. /\ wpc' = Awake(wpc) /\ force' = TRUE /\ stopping' = TRUE /\ pc' = Notified({"blocked"})
      /\ UNCHANGED <<queue, queued, pending, dropped, errors, entry, timedOut, due, arg, before,
                     policy, size, fate>>
  BY DEF StopLogger, history
<1>2. Right' /\ Works'
  BY <1>1, NothingMoves, WorkerStays
<1>3. Waits'
  BY <1>1, NotifiedWaits DEF LogInv
<1>4. Flags'
  BY <1>1 DEF LogInv, Flags
<1> QED BY <1>2, <1>3, <1>4 DEF LogInv

LEMMA TickKeeps ==
  ASSUME LoggerAssumptions, LogInv, Tick
  PROVE  LogInv'
<1>1. /\ wpc' = Awake(wpc) /\ due' = TRUE
      /\ UNCHANGED <<queue, queued, pending, stopping, force, dropped, errors, entry, timedOut,
                     pc, arg, before, policy, size, fate>>
  BY DEF Tick, history
<1>2. Right' /\ Works'
  BY <1>1, NothingMoves, WorkerStays
<1>3. Waits' /\ Flags'
  BY <1>1 DEF LogInv, Waits, Flags
<1> QED BY <1>2, <1>3 DEF LogInv

-----------------------------------------------------------------------------
(* The worker *)

LEMMA WorkerWakesKeeps ==
  ASSUME LoggerAssumptions, LogInv, WorkerWakes
  PROVE  LogInv'
<1>1. /\ wpc = "awake"
      /\ UNCHANGED <<pending, stopping, dropped, errors, arg, before, policy, size>>
  BY DEF WorkerWakes
<1>2. /\ Books(queue, queued, pending, dropped, size, fate) /\ IsFiniteSet(Of(fate, "dropped"))
      /\ policy = "Block" => \A n \in Of(fate, "dropped") : size[n] > MaxMemory
      /\ Of(fate, "writing") = {} /\ Waits /\ Flags
  BY <1>1 DEF LogInv, Right, Works
<1>3. CASE Settle(pending) /\ UNCHANGED fate
  <2>1. /\ queue = <<>> /\ UNCHANGED <<queue, queued>> /\ entry' = 0
        /\ wpc' \in {"sleep", "awake", "flush", "done"} /\ (wpc' = "done" => stopping /\ pending = 0)
        /\ \/ pc' = pc
           \/ \E kinds : kinds \subseteq {"blocked", "flushing"} /\ pc' = Notified(kinds)
    BY <1>3 DEF Settle, EndRound
  <2>2. Right' /\ Works'
    BY <1>1, <1>2, <1>3, <2>1, Settled
  <2>3. Waits'
    <3>1. CASE pc' = pc
      BY <1>1, <1>2, <1>3, <3>1 DEF Waits
    <3>2. CASE \E kinds : kinds \subseteq {"blocked", "flushing"} /\ pc' = Notified(kinds)
      BY <1>1, <1>2, <1>3, <3>2, NotifiedWaits
    <3> QED BY <2>1, <3>1, <3>2
  <2>4. Flags'
    BY <1>1, <1>2, <1>3 DEF Settle, EndRound, Flags
  <2> QED BY <2>2, <2>3, <2>4 DEF LogInv
<1>4. CASE /\ PopNext /\ pc' = Notified({"blocked"})
           /\ fate' = [fate EXCEPT ![Head(queue)] = "writing"] /\ UNCHANGED <<due, force, timedOut>>
  <2>1. fate' = Marked(fate, entry', "writing")
    BY <1>4 DEF PopNext, Marked
  <2>2. Right' /\ Works' /\ Len(fate') = Len(fate)
    BY <1>1, <1>2, <1>4, <2>1, Popped
  <2>3. Waits'
    BY <1>1, <1>2, <1>4, <2>2, NotifiedWaits
  <2>4. Flags'
    BY <1>1, <1>2, <1>4 DEF Flags
  <2> QED BY <2>2, <2>3, <2>4 DEF LogInv
<1>5. CASE /\ wpc' = "sleep"
           /\ UNCHANGED <<queue, queued, entry, timedOut, due, force, pc, fate>>
  <2>1. Right' /\ Works'
    BY <1>1, <1>5, NothingMoves DEF LogInv, Works
  <2>2. Waits' /\ Flags'
    BY <1>1, <1>2, <1>5 DEF Waits, Flags
  <2> QED BY <2>1, <2>2 DEF LogInv
<1> QED BY <1>3, <1>4, <1>5 DEF WorkerWakes

LEMMA WriteDoneKeeps ==
  ASSUME LoggerAssumptions, LogInv, NEW ok \in BOOLEAN, WriteDone(ok)
  PROVE  LogInv'
<1> DEFINE x == IF ok THEN "written" ELSE "failed"
           left == IF x = "written" THEN pending + size[entry] ELSE pending
           f == Marked(fate, entry, x)
<1>1. /\ wpc = "write" /\ errors' = (IF ok THEN errors ELSE errors + 1)
      /\ UNCHANGED <<stopping, dropped, arg, before, policy, size>>
      /\ pending' = left
      /\ \/ Settle(left) /\ fate' = f
         \/ /\ PopNext /\ pc' = Notified({"blocked"})
            /\ fate' = [f EXCEPT ![Head(queue)] = "writing"] /\ UNCHANGED <<due, force, timedOut>>
  BY DEF WriteDone, Marked
<1>2. x \in {"written", "failed"} /\ x = x /\ f = Marked(fate, entry, x)
      /\ left = IF x = "written" THEN pending + size[entry] ELSE pending
  OBVIOUS
<1> HIDE DEF x, f, left
<1>3. /\ Books(queue, queued, pending, dropped, size, fate) /\ IsFiniteSet(Of(fate, "dropped"))
      /\ policy = "Block" => \A n \in Of(fate, "dropped") : size[n] > MaxMemory
      /\ Of(fate, "writing") = {entry} /\ Waits /\ Flags
  BY <1>1 DEF LogInv, Right, Works
<1>4. entry \in 1 .. Len(fate) /\ fate[entry] = "writing"
  <2>1. DOMAIN fate = 1 .. Len(fate)
    BY <1>3, BooksTypes
  <2>2. entry \in Of(fate, "writing")
    BY <1>3
  <2> QED BY <2>1, <2>2 DEF Of
<1>5. /\ Books(queue, queued, left, dropped, size, f)
      /\ Len(f) = Len(fate) /\ Of(f, "writing") = {}
      /\ Of(f, "dropped") = Of(fate, "dropped")
  <2>1. /\ Books(queue, queued, IF x = "written" THEN pending + size[entry] ELSE pending, dropped, size, f)
        /\ Len(f) = Len(fate) /\ Of(f, "writing") = Of(fate, "writing") \ {entry}
        /\ Of(f, "dropped") = Of(fate, "dropped")
    BY <1>2, <1>3, <1>4, BooksWritten
  <2> QED BY <1>2, <1>3, <2>1
<1>6. errors' \in Nat
  BY <1>1, <1>3 DEF Flags
<1>7. CASE Settle(left) /\ fate' = f
  <2>1. /\ queue = <<>> /\ UNCHANGED <<queue, queued>> /\ entry' = 0
        /\ wpc' \in {"sleep", "awake", "flush", "done"} /\ (wpc' = "done" => stopping /\ left = 0)
        /\ \/ pc' = pc
           \/ \E kinds : kinds \subseteq {"blocked", "flushing"} /\ pc' = Notified(kinds)
    BY <1>7 DEF Settle, EndRound
  <2>2. Right' /\ Works'
    BY <1>1, <1>3, <1>5, <1>7, <2>1, Settled
  <2>3. Waits'
    <3>1. CASE pc' = pc
      BY <1>1, <1>3, <1>5, <1>7, <3>1 DEF Waits
    <3>2. CASE \E kinds : kinds \subseteq {"blocked", "flushing"} /\ pc' = Notified(kinds)
      BY <1>1, <1>3, <1>5, <1>7, <3>2, NotifiedWaits
    <3> QED BY <2>1, <3>1, <3>2
  <2>4. Flags'
    BY <1>1, <1>3, <1>6, <1>7 DEF Settle, EndRound, Flags
  <2> QED BY <2>2, <2>3, <2>4 DEF LogInv
<1>8. CASE /\ PopNext /\ pc' = Notified({"blocked"})
           /\ fate' = [f EXCEPT ![Head(queue)] = "writing"] /\ UNCHANGED <<due, force, timedOut>>
  <2>1. fate' = Marked(f, entry', "writing")
    BY <1>8 DEF PopNext, Marked
  <2>2. Right' /\ Works' /\ Len(fate') = Len(f)
    BY <1>1, <1>3, <1>5, <1>8, <2>1, Popped
  <2>3. Waits'
    BY <1>1, <1>3, <1>5, <1>8, <2>2, NotifiedWaits
  <2>4. Flags'
    BY <1>1, <1>3, <1>6, <1>8 DEF Flags
  <2> QED BY <2>2, <2>3, <2>4 DEF LogInv
<1> QED BY <1>1, <1>7, <1>8

LEMMA FlushDoneKeeps ==
  ASSUME LoggerAssumptions, LogInv, NEW ok \in BOOLEAN, FlushDone(ok)
  PROVE  LogInv'
<1> DEFINE x == IF ok THEN "persisted" ELSE "failed"
           f == [n \in DOMAIN fate |-> IF fate[n] # "written" THEN fate[n] ELSE x]
<1>1. /\ wpc = "flush" /\ errors' = (IF ok THEN errors ELSE errors + 1)
      /\ UNCHANGED <<stopping, dropped, arg, before, policy, size>>
      /\ pending' = 0
      /\ \/ /\ queue = <<>> /\ EndRound(timedOut, 0, due) /\ pc' = Notified({"blocked", "flushing"})
            /\ fate' = f /\ UNCHANGED <<queue, queued>>
         \/ /\ PopNext /\ due' = (due /\ ~timedOut) /\ force' = FALSE /\ timedOut' = FALSE
            /\ pc' = Notified(IF force THEN {"blocked", "flushing"} \cup {"blocked"} ELSE {"blocked"})
            /\ fate' = [f EXCEPT ![Head(queue)] = "writing"]
  BY DEF FlushDone, FlushEnds, Records
<1>2. /\ x \in {"persisted", "failed"}
      /\ f = [n \in DOMAIN fate |-> IF fate[n] # "written" THEN fate[n] ELSE x]
  OBVIOUS
<1> HIDE DEF x, f
<1>3. /\ Books(queue, queued, pending, dropped, size, fate) /\ IsFiniteSet(Of(fate, "dropped"))
      /\ policy = "Block" => \A n \in Of(fate, "dropped") : size[n] > MaxMemory
      /\ Of(fate, "writing") = {} /\ Waits /\ Flags
  BY <1>1 DEF LogInv, Right, Works
<1>4. /\ Books(queue, queued, 0, dropped, size, f)
      /\ Len(f) = Len(fate) /\ Of(f, "writing") = {}
      /\ Of(f, "dropped") = Of(fate, "dropped")
  BY <1>2, <1>3, BooksFlushed
<1>5. errors' \in Nat
  BY <1>1, <1>3 DEF Flags
<1>6. CASE /\ queue = <<>> /\ EndRound(timedOut, 0, due) /\ pc' = Notified({"blocked", "flushing"})
           /\ fate' = f /\ UNCHANGED <<queue, queued>>
  <2>1. /\ entry' = 0
        /\ wpc' \in {"sleep", "awake", "flush", "done"} /\ (wpc' = "done" => stopping /\ 0 = 0)
    BY <1>6 DEF EndRound
  <2>2. Right' /\ Works'
    BY <1>1, <1>3, <1>4, <1>6, <2>1, Settled
  <2>3. Waits'
    BY <1>1, <1>3, <1>4, <1>6, NotifiedWaits
  <2>4. Flags'
    BY <1>1, <1>3, <1>5, <1>6 DEF EndRound, Flags
  <2> QED BY <2>2, <2>3, <2>4 DEF LogInv
<1>7. CASE /\ PopNext /\ due' = (due /\ ~timedOut) /\ force' = FALSE /\ timedOut' = FALSE
           /\ pc' = Notified(IF force THEN {"blocked", "flushing"} \cup {"blocked"} ELSE {"blocked"})
           /\ fate' = [f EXCEPT ![Head(queue)] = "writing"]
  <2>1. fate' = Marked(f, entry', "writing")
    BY <1>7 DEF PopNext, Marked
  <2>2. Right' /\ Works' /\ Len(fate') = Len(f)
    BY <1>1, <1>3, <1>4, <1>7, <2>1, Popped
  <2>3. Waits'
    <3> DEFINE kinds == IF force THEN {"blocked", "flushing"} \cup {"blocked"} ELSE {"blocked"}
    <3>1. kinds \subseteq {"blocked", "flushing"} /\ pc' = Notified(kinds)
      BY <1>7
    <3> HIDE DEF kinds
    <3> QED BY <1>1, <1>3, <1>4, <2>2, <3>1, NotifiedWaits
  <2>4. Flags'
    BY <1>1, <1>3, <1>5, <1>7 DEF Flags
  <2> QED BY <2>2, <2>3, <2>4 DEF LogInv
<1> QED BY <1>1, <1>6, <1>7

-----------------------------------------------------------------------------
LEMMA LogInvStarts ==
  ASSUME LoggerAssumptions, LogInit
  PROVE  LogInv
<1> USE DEF LogInit
<1>1. Of(fate, "dropped") = {} /\ Of(fate, "writing") = {} /\ Of(fate, "queued") = {} /\ Of(fate, "written") = {}
  BY DEF Of
<1>2. IsFiniteSet({}) /\ Cardinality({}) = 0
  BY FS_EmptySet
<1>3. Total(size, {}) = 0
  <2>1. size \in Seq(Nat) /\ \A n \in 1 .. Len(size) : n \notin {}
    OBVIOUS
  <2> QED BY <2>1, TotalNone
<1>4. Books(queue, queued, pending, dropped, size, fate)
  BY <1>1, <1>2, <1>3 DEF Books
<1>5. Right
  BY <1>1, <1>2, <1>4 DEF Right
<1>6. Works
  BY <1>1 DEF Works
<1>7. Waits
  BY DEF Waits
<1>8. Flags
  BY DEF Flags
<1> QED BY <1>5, <1>6, <1>7, <1>8 DEF LogInv

LEMMA LogInvKept ==
  ASSUME LoggerAssumptions, LogInv, [LogNext]_logVars
  PROVE  LogInv'
<1>1. CASE UNCHANGED logVars
  BY <1>1 DEF logVars, worker, history, LogInv, Right, Works, Waits, Flags
<1>2. CASE LogNext
  <2>1. ASSUME NEW t \in Threads, NEW s \in Sizes, Push(t, s) \/ PushBlocks(t, s) PROVE LogInv'
    BY <2>1, PushKeeps, PushBlocksKeeps
  <2>2. ASSUME NEW t \in Threads, FlushStarts(t) \/ ThreadStep(t) PROVE LogInv'
    BY <2>2, FlushStartsKeeps, PushResumesKeeps, FlushResumesKeeps DEF ThreadStep
  <2>3. CASE StopLogger \/ Tick
    BY <2>3, StopLoggerKeeps, TickKeeps
  <2>4. CASE WorkerStep
    BY <2>4, WorkerWakesKeeps, WriteDoneKeeps, FlushDoneKeeps DEF WorkerStep
  <2> QED BY <1>2, <2>1, <2>2, <2>3, <2>4 DEF LogNext
<1> QED BY <1>1, <1>2

LEMMA LogInvHolds == ASSUME LoggerAssumptions PROVE LogSpec => []LogInv
<1>1. LogInit => LogInv
  BY LogInvStarts
<1>2. LogInv /\ [LogNext]_logVars => LogInv'
  BY LogInvKept
<1> QED BY <1>1, <1>2, PTL DEF LogSpec

LEMMA InvAccounts == ASSUME LoggerAssumptions, LogInv PROVE Accounts
<1>1. /\ Books(queue, queued, pending, dropped, size, fate)
      /\ \A f \in Fates : With(f) = Of(fate, f)
      /\ Records = 1 .. Len(fate) /\ Len(fate) \in Nat /\ queue \in Seq(1 .. Len(fate))
      /\ size \in Seq(Nat) /\ Len(size) = Len(fate)
  BY BooksTypes DEF LogInv, Right, With, Records, Of
<1>2. "queued" \in Fates /\ "written" \in Fates /\ "dropped" \in Fates /\ "writing" \in Fates
  BY DEF Fates
<1>3. /\ queued = Sum(With("queued")) /\ pending = Sum(With("written"))
      /\ dropped = Cardinality(With("dropped"))
  BY <1>1, <1>2, SumIsTotal DEF Books
<1>4. Range(queue) = With("queued")
  <2>1. \A n : n \in Range(queue) <=> \E i \in 1 .. Len(queue) : queue[i] = n
    BY <1>1 DEF Range
  <2>2. \A n : n \in With("queued") <=> n \in 1 .. Len(fate) /\ \E i \in 1 .. Len(queue) : queue[i] = n
    BY <1>1 DEF Books, With
  <2>3. \A i \in 1 .. Len(queue) : queue[i] \in 1 .. Len(fate)
    BY SMTT(30), <1>1
  <2> QED BY <2>1, <2>2, <2>3
<1>5. policy = "Block" => \A n \in With("dropped") : size[n] > MaxMemory
  BY <1>1, <1>2 DEF LogInv, Right
<1>6. ASSUME wpc = "done", NEW f \in {"queued", "writing", "written"} PROVE With(f) = {}
  <2>1. queue = <<>> /\ pending = 0 /\ With("writing") = {}
    BY <1>1, <1>2, <1>6 DEF LogInv, Works
  <2>2. With("queued") = {}
    BY <1>4, <2>1 DEF Range
  <2>3. ASSUME NEW n \in With("written") PROVE FALSE
    <3>1. Total(size, With("written")) = 0
      BY <1>3, <2>1, SumIsTotal
    <3>2. n \in 1 .. Len(size)
      BY <1>1 DEF With
    <3>3. size[n] = 0
      BY <1>1, <3>1, <3>2, TotalZero
    <3>4. size[n] \in Sizes
      BY <1>1, <3>2 DEF Books
    <3> QED BY <3>3, <3>4 DEF LoggerAssumptions
  <2> QED BY <2>1, <2>2, <2>3
<1>7. InOrder
  BY <1>1 DEF Books, InOrder
<1> QED BY <1>3, <1>4, <1>5, <1>6, <1>7 DEF Accounts, Counted

LEMMA InvTypes == ASSUME LoggerAssumptions, LogInv PROVE LogTypeOK
<1>1. /\ Books(queue, queued, pending, dropped, size, fate) /\ IsFiniteSet(Of(fate, "dropped"))
      /\ queue \in Seq(Records) /\ size \in Seq(Sizes) /\ Len(size) = Len(fate)
      /\ fate \in Seq(Fates) /\ size \in Seq(Nat) /\ Records = 1 .. Len(fate)
  BY SMTT(120), BooksTypes DEF LogInv, Right, Records, Books
<1>2. queued \in Nat /\ pending \in Nat /\ dropped \in Nat
  BY <1>1, TotalType, FS_CardinalityType DEF Books
<1>3. entry \in {0} \cup Records
  <2>1. entry \in 0 .. Len(fate) /\ Len(fate) \in Nat
    BY <1>1, BooksTypes DEF LogInv, Works
  <2> QED BY <1>1, <2>1
<1>4. wpc \in {"sleep", "awake", "write", "flush", "done"} /\ Flags /\ Waits
  BY DEF LogInv, Works
<1>5. /\ pc \in [Threads -> {"idle", "blocked", "unblocked", "flushing", "checking"}]
      /\ arg \in [Threads -> {0} \cup Sizes] /\ before \in [Threads -> 0 .. Len(fate)]
  BY <1>4 DEF Waits
<1>6. /\ errors \in Nat /\ policy \in Policies
      /\ stopping \in BOOLEAN /\ force \in BOOLEAN /\ due \in BOOLEAN /\ timedOut \in BOOLEAN
  BY <1>4 DEF Flags
<1>7. fate \in Seq({"queued", "writing", "written", "persisted", "dropped", "failed", "refused"})
  BY <1>1 DEF Fates
<1> QED BY <1>1, <1>2, <1>3, <1>4, <1>5, <1>6, <1>7 DEF LogTypeOK

(* Every variable of the logger has a value of its type, and no byte       *)
(* counter goes below zero (logger_impl.cpp:214-227, :300, :324).          *)
THEOREM LoggerTypeCorrect == LogSpec => []LogTypeOK
<1>1. LogInv => LogTypeOK
  BY InvTypes, LoggerAssumption
<1> QED BY <1>1, LogInvHolds, LoggerAssumption, PTL

(* For any number of threads, any sizes, policy and limits, and whatever   *)
(* fails: the logger's counters say where every record went, no record is  *)
(* overtaken on its way to the sink, and a worker that has ended has left  *)
(* nothing behind (logger_impl.cpp:201, :214-228, :298, :300, :311, :324). *)
THEOREM LoggerAccounts == LogSpec => []Accounts
<1>1. LogInv => Accounts
  BY InvAccounts, LoggerAssumption
<1> QED BY <1>1, LogInvHolds, LoggerAssumption, PTL

-----------------------------------------------------------------------------
(* What flush() promises *)

(* A push is refused once the logger stops, and it stops only when nobody   *)
(* is in flush().                                                          *)
NobodyFlushes == \A t \in Threads : pc[t] \in {"idle", "blocked", "unblocked"}

Refusals ==
  /\ \A n \in DOMAIN fate : fate[n] = "refused" => stopping
  /\ stopping => NobodyFlushes

(* No action makes a record refused but a push that is sent away.          *)
LEMMA Unrefused ==
  ASSUME LoggerAssumptions, LogInv, LogNext, ~stopping
  PROVE  \A n \in DOMAIN fate' : fate'[n] = "refused" => n \in DOMAIN fate /\ fate[n] = "refused"
<1>1. fate \in Seq(Fates) /\ DOMAIN fate = 1 .. Len(fate) /\ Len(fate) \in Nat
  BY BooksTypes DEF LogInv, Right
<1>2. ASSUME NEW s, NEW x \in {"queued", "dropped"}, NEW S, Note(s, x, S)
      PROVE  \A n \in DOMAIN fate' : fate'[n] = "refused" => n \in DOMAIN fate /\ fate[n] = "refused"
  <2> DEFINE g == [n \in DOMAIN fate |-> IF n \in S THEN "dropped" ELSE fate[n]]
  <2>1. g \in Seq(Fates) /\ Len(g) = Len(fate)
    <3>1. g \in [1 .. Len(fate) -> Fates]
      BY <1>1 DEF Fates
    <3> QED BY <1>1, <3>1
  <2>2. \A n \in DOMAIN fate : g[n] = "refused" => fate[n] = "refused"
    OBVIOUS
  <2>3. fate' = Append(g, x)
    BY <1>2 DEF Note, Records
  <2> HIDE DEF g
  <2>4. DOMAIN fate' = 1 .. Len(fate) + 1 /\ fate'[Len(fate) + 1] = x
        /\ \A n \in 1 .. Len(fate) : fate'[n] = g[n]
    BY <1>1, <2>1, <2>3
  <2> TAKE n \in DOMAIN fate'
  <2>5. n \in DOMAIN fate \/ fate'[n] = x
    BY <1>1, <2>4
  <2> QED BY <1>1, <1>2, <2>2, <2>4, <2>5
<1>3. CASE UNCHANGED fate
  BY <1>3
<1>4. CASE \E s \in Sizes, k \in Int : Enqueue(s, k)
  BY <1>2, <1>4 DEF Enqueue
<1>5. CASE \E s \in Sizes : Discard(s) \/ DropAll(s)
  BY <1>2, <1>5 DEF Discard, DropAll
<1>6. CASE fate' = [fate EXCEPT ![Head(queue)] = "writing"]
  BY <1>6
<1>7. CASE \E f : /\ DOMAIN f = DOMAIN fate
                  /\ \A n \in DOMAIN f : f[n] = "refused" => fate[n] = "refused"
                  /\ fate' = f \/ fate' = [f EXCEPT ![Head(queue)] = "writing"]
  BY <1>7
<1>8. ASSUME NEW t \in Threads, NEW s \in Sizes, Push(t, s)
      PROVE  (\E v \in Sizes, k \in Int : Enqueue(v, k)) \/ \E v \in Sizes : Discard(v) \/ DropAll(v)
  <2>1. Victims(s) \in Int
    BY VictimsExist
  <2> QED BY <1>8, <2>1 DEF Push
<1>9. ASSUME NEW t \in Threads, PushResumes(t)
       PROVE  (\E s \in Sizes, k \in Int : Enqueue(s, k)) \/ UNCHANGED fate
  <2>1. arg[t] \in Sizes
    BY <1>9 DEF PushResumes, LogInv, Waits
  <2> QED BY <1>9, <2>1 DEF PushResumes, history
<1>10. ASSUME NEW ok \in BOOLEAN, WriteDone(ok)
       PROVE  \E f : /\ DOMAIN f = DOMAIN fate
                     /\ \A n \in DOMAIN f : f[n] = "refused" => fate[n] = "refused"
                     /\ fate' = f \/ fate' = [f EXCEPT ![Head(queue)] = "writing"]
  <2> DEFINE f == [fate EXCEPT ![entry] = IF ok THEN "written" ELSE "failed"]
  <2>1. DOMAIN f = DOMAIN fate /\ \A n \in DOMAIN f : f[n] = "refused" => fate[n] = "refused"
    OBVIOUS
  <2>2. fate' = f \/ fate' = [f EXCEPT ![Head(queue)] = "writing"]
    BY <1>10 DEF WriteDone
  <2> HIDE DEF f
  <2> QED BY <2>1, <2>2
<1>11. ASSUME NEW ok \in BOOLEAN, FlushDone(ok)
       PROVE  \E f : /\ DOMAIN f = DOMAIN fate
                     /\ \A n \in DOMAIN f : f[n] = "refused" => fate[n] = "refused"
                     /\ fate' = f \/ fate' = [f EXCEPT ![Head(queue)] = "writing"]
  <2> DEFINE f == [n \in Records |-> IF fate[n] # "written" THEN fate[n]
                                     ELSE IF ok THEN "persisted" ELSE "failed"]
  <2>1. DOMAIN f = DOMAIN fate /\ \A n \in DOMAIN f : f[n] = "refused" => fate[n] = "refused"
    BY DEF Records
  <2>2. fate' = f \/ fate' = [f EXCEPT ![Head(queue)] = "writing"]
    BY <1>11 DEF FlushDone, FlushEnds
  <2> HIDE DEF f
  <2> QED BY <2>1, <2>2
<1>12. ASSUME NEW t \in Threads, (\E s \in Sizes : PushBlocks(t, s)) \/ FlushStarts(t) \/ FlushResumes(t)
       PROVE  UNCHANGED fate
  BY <1>12 DEF PushBlocks, FlushStarts, FlushResumes, history
<1>13. StopLogger \/ Tick => UNCHANGED fate
  BY DEF StopLogger, Tick, history
<1>14. WorkerWakes => UNCHANGED fate \/ fate' = [fate EXCEPT ![Head(queue)] = "writing"]
  BY DEF WorkerWakes
<1>15. CASE \E t \in Threads : (\E s \in Sizes : Push(t, s)) \/ PushResumes(t)
  BY <1>3, <1>4, <1>5, <1>8, <1>9, <1>15
<1>16. CASE \E ok \in BOOLEAN : WriteDone(ok) \/ FlushDone(ok)
  BY <1>7, <1>10, <1>11, <1>16
<1>17. CASE WorkerWakes \/ StopLogger \/ Tick
  BY <1>3, <1>6, <1>13, <1>14, <1>17
<1>18. CASE \E t \in Threads : (\E s \in Sizes : PushBlocks(t, s)) \/ FlushStarts(t) \/ FlushResumes(t)
  BY <1>3, <1>12, <1>18
<1> QED BY <1>15, <1>16, <1>17, <1>18 DEF LogNext, ThreadStep, WorkerStep

LEMMA RefusalsKept ==
  ASSUME LoggerAssumptions, LogInv, Refusals, [LogNext]_logVars
  PROVE  Refusals'
<1>1. CASE UNCHANGED logVars
  BY <1>1 DEF logVars, history, Refusals, NobodyFlushes
<1>2. CASE LogNext
  <2>1. UNCHANGED stopping \/ StopLogger
    <3>1. CASE \E t \in Threads, s \in Sizes : Push(t, s) \/ PushBlocks(t, s)
      BY <3>1 DEF Push, PushBlocks
    <3>2. CASE \E t \in Threads : FlushStarts(t) \/ FlushResumes(t) \/ PushResumes(t)
      BY <3>2 DEF FlushStarts, FlushResumes, PushResumes
    <3>3. CASE Tick \/ WorkerWakes
      BY <3>3 DEF Tick, WorkerWakes
    <3>4. CASE \E ok \in BOOLEAN : WriteDone(ok) \/ FlushDone(ok)
      BY <3>4 DEF WriteDone, FlushDone, FlushEnds
    <3> QED BY <1>2, <3>1, <3>2, <3>3, <3>4 DEF LogNext, ThreadStep, WorkerStep
  <2>2. ASSUME stopping PROVE stopping' /\ NobodyFlushes
    <3>1. stopping'
      BY <2>1, <2>2 DEF StopLogger
    <3> QED BY <2>2, <3>1 DEF Refusals
  <2>3. \A n \in DOMAIN fate' : fate'[n] = "refused" => stopping'
    <3>1. CASE stopping
      BY <2>2, <3>1
    <3>2. CASE ~stopping
      BY <1>2, <3>2, Unrefused DEF Refusals
    <3> QED BY <3>1, <3>2
  <2>4. ASSUME stopping' PROVE NobodyFlushes'
    <3>1. NobodyFlushes
      BY <2>1, <2>2, <2>4 DEF StopLogger, NobodyFlushes
    <3>2. CASE StopLogger
      BY <3>1, <3>2 DEF StopLogger, Notified, NobodyFlushes
    <3>3. CASE ~StopLogger
      <4>1. stopping
        BY <2>1, <2>4, <3>3
      <4>2. pc \in [Threads -> {"idle", "blocked", "unblocked", "flushing", "checking"}]
        BY DEF LogInv, Waits
      <4>3. ASSUME NEW kinds, kinds \subseteq {"blocked", "flushing"}, pc' = Notified(kinds)
            PROVE  NobodyFlushes'
        BY <3>1, <4>3 DEF Notified, NobodyFlushes
      <4>4. CASE UNCHANGED pc
        BY <3>1, <4>4 DEF NobodyFlushes
      <4>5. CASE \E t \in Threads : PushResumes(t)
        <5>1. PICK t \in Threads : PushResumes(t)
          BY <4>5
        <5>2. \E a \in {"idle", "blocked"} : pc' = [pc EXCEPT ![t] = a]
          BY <5>1 DEF PushResumes
        <5> QED BY <3>1, <4>2, <5>2 DEF NobodyFlushes
      <4>6. CASE \E t \in Threads, s \in Sizes : Push(t, s) \/ PushBlocks(t, s)
        BY <4>1, <4>6, <4>4 DEF Push, PushBlocks, PushStarts
      <4>7. CASE \E t \in Threads : FlushStarts(t) \/ FlushResumes(t)
        BY <3>1, <4>1, <4>7 DEF FlushStarts, FlushResumes, NobodyFlushes
      <4>8. CASE Tick
        BY <4>4, <4>8 DEF Tick
      <4>9. CASE WorkerWakes \/ \E ok \in BOOLEAN : WriteDone(ok) \/ FlushDone(ok)
        <5>1. UNCHANGED pc \/ \E kinds : kinds \subseteq {"blocked", "flushing"} /\ pc' = Notified(kinds)
          BY <4>9 DEF WorkerWakes, WriteDone, FlushDone, FlushEnds, Settle
        <5> QED BY <4>3, <4>4, <5>1
      <4> QED BY <1>2, <3>3, <4>5, <4>6, <4>7, <4>8, <4>9 DEF LogNext, ThreadStep, WorkerStep
    <3> QED BY <3>2, <3>3
  <2> QED BY <2>3, <2>4 DEF Refusals
<1> QED BY <1>1, <1>2

(* When flush() returns, every record pushed before the call is persisted, *)
(* dropped or has failed, for any number of threads that push, flush and   *)
(* stop the logger meanwhile (logger_impl.cpp:237).                        *)
THEOREM LoggerFlushes == LogSpec => FlushPersists
<1> USE LoggerAssumption
<1>1. LogInit => Refusals
  BY DEF LogInit, Refusals
<1>2. LogInv /\ Refusals /\ [LogNext]_logVars => Refusals'
  BY RefusalsKept
<1>3. ASSUME LogInv, Refusals, [LogNext]_logVars, NEW t \in Threads, pc[t] = "checking", pc'[t] = "idle",
             NEW n \in 1 .. before[t]
      PROVE  fate[n] \in {"persisted", "dropped", "failed"}
  <2>1. Books(queue, queued, pending, dropped, size, fate) /\ Waits /\ Works
    BY <1>3 DEF LogInv, Right
  <2>2. Persisted
    <3>1. LogNext /\ pc'[t] # pc[t]
      BY <1>3 DEF logVars
    <3>2. pc \in [Threads -> {"idle", "blocked", "unblocked", "flushing", "checking"}]
      BY <2>1 DEF Waits
    <3>3. ~StopLogger /\ ~PushResumes(t)
      BY <1>3 DEF StopLogger, PushResumes
    <3>4. ASSUME NEW kinds, kinds \subseteq {"blocked", "flushing"}, pc' = Notified(kinds) PROVE FALSE
      BY <1>3, <3>4 DEF Notified
    <3>5. ASSUME NEW u \in Threads, u # t, NEW a, pc' = [pc EXCEPT ![u] = a] PROVE FALSE
      BY <3>1, <3>2, <3>5
    <3>6. CASE \E u \in Threads, s \in Sizes : Push(u, s) \/ PushBlocks(u, s)
      BY <1>3, <3>1, <3>2, <3>6 DEF Push, PushBlocks
    <3>7. CASE \E u \in Threads : FlushStarts(u) \/ PushResumes(u)
      BY <1>3, <3>1, <3>2, <3>3, <3>7 DEF FlushStarts, PushResumes
    <3>8. CASE \E u \in Threads : FlushResumes(u)
      <4>1. PICK u \in Threads : FlushResumes(u)
        BY <3>8
      <4>2. pc' = [pc EXCEPT ![u] = IF Persisted /\ ~force THEN "idle" ELSE "flushing"]
        BY <4>1 DEF FlushResumes
      <4>3. u = t
        BY <3>5, <4>2
      <4> QED BY <1>3, <3>2, <4>2, <4>3
    <3>9. CASE Tick \/ WorkerWakes \/ \E ok \in BOOLEAN : WriteDone(ok) \/ FlushDone(ok)
      <4>1. UNCHANGED pc \/ \E kinds : kinds \subseteq {"blocked", "flushing"} /\ pc' = Notified(kinds)
        BY <3>9 DEF Tick, WorkerWakes, WriteDone, FlushDone, FlushEnds, Settle
      <4> QED BY <3>1, <3>4, <4>1
    <3> QED BY <3>1, <3>3, <3>6, <3>7, <3>8, <3>9 DEF LogNext, ThreadStep, WorkerStep
  <2>3. n \in 1 .. Len(fate) /\ fate[n] \in Fates
    BY <1>3, <2>1, BooksTypes DEF Waits
  <2>4. fate[n] # "queued"
    BY <2>1, <2>2, <2>3 DEF Books, Persisted
  <2>5. fate[n] # "writing"
    BY <2>1, <2>2, <2>3, BooksTypes DEF Works, Persisted, Of
  <2>6. fate[n] # "written"
    <3>1. Total(size, Of(fate, "written")) = 0 /\ size \in Seq(Nat) /\ n \in 1 .. Len(size)
      <4>1. pending = 0 /\ pending = Total(size, Of(fate, "written"))
        BY <2>1, <2>2 DEF Books, Persisted
      <4>2. size \in Seq(Nat) /\ Len(size) = Len(fate)
        BY <2>1, BooksTypes
      <4> QED BY <2>3, <4>1, <4>2
    <3>3. size[n] # 0
      BY <2>1, <3>1 DEF Books, LoggerAssumptions
    <3>2. fate[n] = "written" => n \in Of(fate, "written")
      BY <2>1, <2>3, BooksTypes DEF Of
    <3> QED BY <3>1, <3>2, <3>3, TotalZero
  <2>7. fate[n] # "refused"
    <3>1. ~stopping
      BY <1>3 DEF Refusals, NobodyFlushes
    <3>2. n \in DOMAIN fate
      BY <2>1, <2>3, BooksTypes
    <3> QED BY <1>3, <3>1, <3>2 DEF Refusals
  <2> QED BY <2>3, <2>4, <2>5, <2>6, <2>7 DEF Fates
<1>4. LogInv /\ Refusals /\ [LogNext]_logVars =>
        [\A t \in Threads : pc[t] = "checking" /\ pc'[t] = "idle" =>
           \A n \in 1 .. before[t] : fate[n] \in {"persisted", "dropped", "failed"}]_logVars
  BY <1>3
<1> QED BY <1>1, <1>2, <1>4, LogInvHolds, PTL DEF LogSpec, FlushPersists

-----------------------------------------------------------------------------
(* The web server: the first route *)

(* The first route of a sequence that is in Q, if there is one. *)
IsFirst(s, Q, i) == i \in 1 .. Len(s) /\ s[i] \in Q /\ \A j \in 1 .. i - 1 : s[j] \notin Q

FirstIn(s, Q) == {s[i] : i \in {i \in 1 .. Len(s) : IsFirst(s, Q, i)}}

(* The first one of two sequences, from those of each.                     *)
Or(A, B) == IF A # {} THEN A ELSE B

ForMethod(Q, m) == {r \in Q : r.method = m}

LEMMA FirstMeans ==
  ASSUME NEW s, NEW Q
  PROVE  \A x : x \in FirstIn(s, Q) <=> \E i : IsFirst(s, Q, i) /\ x = s[i]
BY DEF FirstIn, IsFirst

LEMMA FirstEmpty == ASSUME NEW Q PROVE FirstIn(<<>>, Q) = {}
BY DEF FirstIn

(* If there is one there is a first one.                                  *)
LEMMA FirstThere ==
  ASSUME NEW s \in Seq(Routes), NEW Q, NEW i \in 1 .. Len(s), s[i] \in Q
  PROVE  \E k : IsFirst(s, Q, k)
<1> DEFINE T == {k \in 1 .. Len(s) : s[k] \in Q}
<1>1. T \subseteq Nat /\ T # {}
  OBVIOUS
<1>2. PICK k \in T : \A m \in T : k <= m
  BY <1>1, LeastNat
<1>3. ASSUME NEW j \in 1 .. k - 1 PROVE s[j] \notin Q
  <2>1. j \in 1 .. Len(s) /\ ~(k <= j)
    OBVIOUS
  <2> QED BY <1>2, <2>1
<1> QED BY <1>2, <1>3 DEF IsFirst

(* In two sequences, one after the other, the first decides.              *)
LEMMA FirstJoin ==
  ASSUME NEW s \in Seq(Routes), NEW r \in Seq(Routes), NEW Q
  PROVE  FirstIn(s \o r, Q) = Or(FirstIn(s, Q), FirstIn(r, Q))
<1> DEFINE a == s \o r
           n == Len(s)
<1>1. /\ n \in Nat /\ Len(r) \in Nat /\ Len(a) = n + Len(r)
      /\ \A i \in 1 .. n : a[i] = s[i]
      /\ \A i \in n + 1 .. Len(a) : a[i] = r[i - n]
      /\ \A i \in 1 .. Len(r) : n + i \in n + 1 .. Len(a) /\ a[n + i] = r[i]
  OBVIOUS
<1> HIDE DEF a
<1>2. CASE \E i : IsFirst(s, Q, i)
  <2>1. PICK k : IsFirst(s, Q, k)
    BY <1>2
  <2>2. k \in 1 .. n /\ a[k] \in Q
    BY <1>1, <2>1 DEF IsFirst
  <2>3. ASSUME NEW i PROVE IsFirst(a, Q, i) <=> IsFirst(s, Q, i)
    <3>1. ASSUME IsFirst(a, Q, i) PROVE i \in 1 .. n
      <4>1. i \in Nat /\ k \notin 1 .. i - 1
        BY <1>1, <2>2, <3>1 DEF IsFirst
      <4> QED BY <1>1, <2>2, <3>1, <4>1 DEF IsFirst
    <3>2. ASSUME i \in 1 .. n PROVE IsFirst(a, Q, i) <=> IsFirst(s, Q, i)
      <4>1. \A j \in 1 .. i - 1 : a[j] = s[j]
        BY <1>1, <3>2
      <4>2. a[i] = s[i] /\ i \in 1 .. Len(a)
        BY <1>1, <3>2
      <4> QED BY <3>2, <4>1, <4>2 DEF IsFirst
    <3> QED BY <3>1, <3>2 DEF IsFirst
  <2>4. \A i : IsFirst(s, Q, i) => a[i] = s[i]
    BY <1>1 DEF IsFirst
  <2>5. FirstIn(a, Q) = FirstIn(s, Q)
    <3>1. \A x : x \in FirstIn(a, Q) <=> \E i : IsFirst(a, Q, i) /\ x = a[i]
      BY FirstMeans
    <3>2. \A x : x \in FirstIn(s, Q) <=> \E i : IsFirst(s, Q, i) /\ x = s[i]
      BY FirstMeans
    <3>3. \A x : x \in FirstIn(a, Q) <=> x \in FirstIn(s, Q)
      BY <2>3, <2>4, <3>1, <3>2
    <3> QED BY <3>3
  <2>6. FirstIn(s, Q) # {}
    BY <2>1, FirstMeans
  <2> QED BY <2>5, <2>6 DEF Or, a
<1>3. CASE ~\E i : IsFirst(s, Q, i)
  <2>1. \A i \in 1 .. n : s[i] \notin Q
    BY <1>3, FirstThere
  <2>2. ASSUME NEW i \in 1 .. Len(r) PROVE IsFirst(r, Q, i) <=> IsFirst(a, Q, n + i)
    <3>1. \A j \in 1 .. n + i - 1 : j \in 1 .. n \/ (j - n \in 1 .. i - 1 /\ a[j] = r[j - n])
      BY <1>1
    <3>2. \A j \in 1 .. i - 1 : n + j \in 1 .. n + i - 1 /\ a[n + j] = r[j]
      BY <1>1
    <3>3. \A j \in 1 .. n : a[j] \notin Q
      BY <1>1, <2>1
    <3>4. n + i \in 1 .. Len(a) /\ a[n + i] = r[i]
      BY <1>1
    <3>5. (\A j \in 1 .. i - 1 : r[j] \notin Q) <=> \A j \in 1 .. n + i - 1 : a[j] \notin Q
      BY <3>1, <3>2, <3>3
    <3> QED BY <3>4, <3>5 DEF IsFirst
  <2>3. ASSUME NEW i, IsFirst(a, Q, i) PROVE i - n \in 1 .. Len(r) /\ i = n + (i - n) /\ a[i] = r[i - n]
    <3>1. i \in 1 .. Len(a) /\ i \notin 1 .. n
      BY <2>1, <2>3, <1>1 DEF IsFirst
    <3>2. i \in n + 1 .. Len(a)
      BY <3>1, <1>1
    <3> QED BY <3>2, <1>1, SMTT(120)
  <2>4. \A i \in 1 .. Len(r) : a[n + i] = r[i]
    BY <1>1
  <2>5. \A i : IsFirst(r, Q, i) => i \in 1 .. Len(r)
    BY DEF IsFirst
  <2>6. \A x : (\E i : IsFirst(a, Q, i) /\ x = a[i]) <=> \E i : IsFirst(r, Q, i) /\ x = r[i]
    BY <2>2, <2>3, <2>4, <2>5
  <2>7. FirstIn(a, Q) = FirstIn(r, Q)
    <3>1. \A x : x \in FirstIn(a, Q) <=> \E i : IsFirst(a, Q, i) /\ x = a[i]
      BY FirstMeans
    <3>2. \A x : x \in FirstIn(r, Q) <=> \E i : IsFirst(r, Q, i) /\ x = r[i]
      BY FirstMeans
    <3>3. \A x : x \in FirstIn(a, Q) <=> x \in FirstIn(r, Q)
      BY <2>6, <3>1, <3>2
    <3> QED BY <3>3
  <2>8. FirstIn(s, Q) = {}
    BY <1>3, FirstMeans
  <2> QED BY <2>7, <2>8 DEF Or, a
<1> QED BY <1>2, <1>3

LEMMA FirstOne ==
  ASSUME NEW x \in Routes, NEW Q
  PROVE  FirstIn(<<x>>, Q) = IF x \in Q THEN {x} ELSE {}
BY DEF FirstIn, IsFirst

(* It is what Handle and FirstRoute choose with Min.                       *)
LEMMA FirstIsMin ==
  ASSUME NEW s \in Seq(Routes), NEW Q, NEW H, H = {i \in DOMAIN s : s[i] \in Q}
  PROVE  FirstIn(s, Q) = IF H = {} THEN {} ELSE {s[Min(H)]}
<1>1. CASE H = {}
  BY <1>1 DEF FirstIn, IsFirst
<1>2. CASE H # {}
  <2>1. H \subseteq Nat /\ H \subseteq 1 .. Len(s)
    OBVIOUS
  <2>2. PICK k \in H : \A i \in H : k <= i
    BY <1>2, <2>1, LeastNat
  <2>3. Min(H) \in H /\ \A i \in H : Min(H) <= i
    BY <2>2 DEF Min
  <2>4. {i \in 1 .. Len(s) : IsFirst(s, Q, i)} = {Min(H)}
    <3>1. ASSUME NEW j \in 1 .. Min(H) - 1 PROVE s[j] \notin Q
      <4>1. j \in DOMAIN s /\ ~(Min(H) <= j)
        BY <2>1, <2>3
      <4> QED BY <4>1, <2>3
    <3>2. ASSUME NEW i \in DOMAIN s, s[i] \in Q, \A j \in 1 .. i - 1 : s[j] \notin Q PROVE i = Min(H)
      <4>1. Min(H) <= i /\ s[Min(H)] \in Q /\ Min(H) \in 1 .. Len(s)
        BY <2>1, <2>3, <3>2
      <4>2. Min(H) \notin 1 .. i - 1
        BY <3>2, <4>1
      <4> QED BY <4>1, <4>2
    <3> QED BY SMTT(30), <2>3, <3>1, <3>2 DEF IsFirst
  <2> QED BY <1>2, <2>4 DEF FirstIn
<1> QED BY <1>1, <1>2

(* What use() makes of a route of a router. *)
Mounted(p, r) == [r EXCEPT !.pattern = p \o @]

MountedAll(p, s) == [i \in DOMAIN s |-> Mounted(p, s[i])]

LEMMA MountedIs ==
  ASSUME NEW p \in Seq(STRING), NEW r \in Routes
  PROVE  Mounted(p, r) \in Routes /\ Mounted(p, r).method = r.method
<1>1. p \o r.pattern \in Seq(STRING)
  BY DEF Routes
<1> QED BY <1>1 DEF Mounted, Routes

(* The first one of the mounted routes is the first one mounted.          *)
LEMMA MountedAllIs ==
  ASSUME NEW p \in Seq(STRING), NEW s \in Seq(Routes)
  PROVE  /\ MountedAll(p, s) \in Seq(Routes)
         /\ \A Q : FirstIn(MountedAll(p, s), Q)
                    = {Mounted(p, r) : r \in FirstIn(s, {r \in Routes : Mounted(p, r) \in Q})}
<1> DEFINE a == MountedAll(p, s)
<1>1. /\ Len(s) \in Nat /\ DOMAIN s = 1 .. Len(s)
      /\ \A i \in 1 .. Len(s) : s[i] \in Routes
  OBVIOUS
<1>2. \A i \in 1 .. Len(s) : a[i] = Mounted(p, s[i]) /\ a[i] \in Routes
  BY <1>1, MountedIs DEF MountedAll
<1>3. a \in Seq(Routes) /\ Len(a) = Len(s)
  <2>1. a = [i \in 1 .. Len(s) |-> a[i]]
    BY <1>1 DEF MountedAll
  <2> HIDE DEF a
  <2> QED BY <1>1, <1>2, <2>1
<1> HIDE DEF a
<1>4. ASSUME NEW Q
      PROVE  FirstIn(a, Q) = {Mounted(p, r) : r \in FirstIn(s, {r \in Routes : Mounted(p, r) \in Q})}
  <2> DEFINE P == {r \in Routes : Mounted(p, r) \in Q}
  <2>1. \A i \in 1 .. Len(s) : a[i] \in Q <=> s[i] \in P
    BY <1>1, <1>2
  <2>2. ASSUME NEW i PROVE IsFirst(a, Q, i) <=> IsFirst(s, P, i)
    <3>1. i \in 1 .. Len(s) => \A j \in 1 .. i - 1 : j \in 1 .. Len(s)
      BY <1>1
    <3> HIDE DEF P
    <3> QED BY <1>3, <2>1, <3>1 DEF IsFirst
  <2>3. \A i : IsFirst(s, P, i) => a[i] = Mounted(p, s[i])
    BY <1>2 DEF IsFirst
  <2> HIDE DEF P
  <2>4. \A x : x \in FirstIn(a, Q) <=> \E i : IsFirst(a, Q, i) /\ x = a[i]
    BY FirstMeans
  <2>5. \A x : x \in FirstIn(s, P) <=> \E i : IsFirst(s, P, i) /\ x = s[i]
    BY FirstMeans
  <2>6. \A x : x \in FirstIn(a, Q) <=> \E r : r \in FirstIn(s, P) /\ x = Mounted(p, r)
    BY <2>2, <2>3, <2>4, <2>5
  <2>7. FirstIn(a, Q) = {Mounted(p, r) : r \in FirstIn(s, P)}
    BY <2>6
  <2> QED BY <2>7 DEF P
<1> QED BY <1>3, <1>4 DEF a

-----------------------------------------------------------------------------
(* The tables *)

Tables == [Lists -> Seq(Routes)]

(* A route that is registered comes after those of its method.            *)
LEMMA RegisterIs ==
  ASSUME NEW t \in Tables, NEW r \in Routes
  PROVE  /\ Register(t, r) \in Tables
         /\ \A m \in Lists : \A Q : FirstIn(Register(t, r)[m], Q) = Or(FirstIn(t[m], Q), FirstIn(<<r>>, ForMethod(Q, m)))
<1>1. r.method \in Lists /\ \A m \in Lists : t[m] \in Seq(Routes)
  BY DEF Tables, Routes
<1>2. \A m \in Lists : Register(t, r)[m] = IF m = r.method THEN t[m] \o <<r>> ELSE t[m]
  <2> TAKE m \in Lists
  <2>1. Register(t, r)[m] = IF m = r.method THEN Append(t[m], r) ELSE t[m]
    BY <1>1 DEF Register, Tables
  <2>2. t[m] \in Seq(Routes)
    BY <1>1
  <2>3. Append(t[m], r) = t[m] \o <<r>>
    BY <2>2
  <2> QED BY <2>1, <2>3
<1>3. Register(t, r) \in Tables
  BY <1>1 DEF Register, Tables
<1>4. ASSUME NEW m \in Lists, NEW Q
      PROVE  FirstIn(Register(t, r)[m], Q) = Or(FirstIn(t[m], Q), FirstIn(<<r>>, ForMethod(Q, m)))
  <2>1. FirstIn(<<r>>, ForMethod(Q, m)) = IF r \in ForMethod(Q, m) THEN {r} ELSE {}
    BY FirstOne
  <2>2. CASE m = r.method
    <3>1. r \in ForMethod(Q, m) <=> r \in Q
      BY <2>2 DEF ForMethod
    <3>2. FirstIn(<<r>>, Q) = FirstIn(<<r>>, ForMethod(Q, m))
      BY <2>1, <3>1, FirstOne
    <3>3. <<r>> \in Seq(Routes) /\ t[m] \in Seq(Routes)
      BY <1>1
    <3>4. FirstIn(t[m] \o <<r>>, Q) = Or(FirstIn(t[m], Q), FirstIn(<<r>>, Q))
      BY <3>3, FirstJoin
    <3>5. Register(t, r)[m] = t[m] \o <<r>>
      BY <1>2, <2>2
    <3> QED BY <3>2, <3>4, <3>5
  <2>3. CASE m # r.method
    <3>1. FirstIn(<<r>>, ForMethod(Q, m)) = {}
      BY <2>1, <2>3 DEF ForMethod
    <3> QED BY <1>2, <2>3, <3>1 DEF Or
  <2> QED BY <2>2, <2>3
<1> QED BY <1>3, <1>4

LEMMA OrLaws ==
  ASSUME NEW A, NEW B, NEW C
  PROVE  Or(Or(A, B), C) = Or(A, Or(B, C)) /\ Or(A, {}) = A /\ Or({}, A) = A
BY DEF Or

LEMMA SubSeqGrows ==
  ASSUME NEW s \in Seq(Routes), NEW k \in Nat, k + 1 <= Len(s)
  PROVE  /\ SubSeq(s, 1, k) \in Seq(Routes) /\ <<s[k + 1]>> \in Seq(Routes)
         /\ s[k + 1] \in Routes
         /\ SubSeq(s, 1, k + 1) = SubSeq(s, 1, k) \o <<s[k + 1]>>
<1>1. k + 1 \in 1 .. Len(s) /\ k \in 0 .. Len(s) /\ s[k + 1] \in Routes
  OBVIOUS
<1>2. SubSeq(s, 1, k) \in Seq(Routes)
  OBVIOUS
<1>3. SubSeq(s, 1, k + 1) = SubSeq(s, 1, k) \o <<s[k + 1]>>
  BY <1>1, SubSeqRecursiveSecond, k + 1 - 1 = k, 1 <= k + 1
<1> QED BY <1>1, <1>2, <1>3

(* A sequence of routes that is registered comes after what was there:    *)
(* by induction on how many of them are.                                  *)
LEMMA Registered ==
  ASSUME NEW t \in Tables, NEW s \in Seq(Routes)
  PROVE  /\ FoldLeft(Register, t, s) \in Tables
         /\ \A m \in Lists : \A Q :
              FirstIn(FoldLeft(Register, t, s)[m], Q) = Or(FirstIn(t[m], Q), FirstIn(s, ForMethod(Q, m)))
<1> DEFINE n == Len(s)
           step == [i \in 1 .. n |-> [v \in Tables |-> Register(v, s[i])]]
<1>1. n \in Nat /\ DOMAIN s = 1 .. n /\ \A i \in 1 .. n : s[i] \in Routes
  OBVIOUS
<1>2. step \in [1 .. n -> [Tables -> Tables]]
  BY <1>1, RegisterIs
<1>3. \A i \in 1 .. n, v \in Tables : step[i][v] = Register(v, s[i])
  OBVIOUS
<1> HIDE DEF n, step
<1>4. PICK g : Follows(g, n, Tables, t, step) /\ FoldLeft(Register, t, s) = g[n]
  <2> DEFINE Eq(it) == it = [p \in SUBSET (1 .. n) |->
                               IF p = {} THEN t ELSE Register(it[p \ {Max(p)}], s[Max(p)])]
             fold == CHOOSE it : Eq(it)
  <2>1. \E it : Eq(it)
    <3> HIDE DEF Eq, fold
    <3>1. PICK it : Folded(it, n, Tables, t, step)
      <4>1. n \in Nat /\ t \in Tables
        BY <1>1
      <4> QED BY <1>2, <4>1, FoldExists
    <3>2. ASSUME NEW p \in SUBSET (1 .. n), p # {}
          PROVE  it[p] = Register(it[p \ {Max(p)}], s[Max(p)])
      <4>1. Max(p) \in 1 .. n /\ p \ {Max(p)} \in SUBSET (1 .. n)
        BY <1>1, <3>2, TopIs
      <4>2. it[p \ {Max(p)}] \in Tables /\ it[p] = step[Max(p)][it[p \ {Max(p)}]]
        BY <3>1, <3>2, <4>1 DEF Folded
      <4> QED BY <1>3, <4>1, <4>2
    <3>3. it = [p \in SUBSET (1 .. n) |-> it[p]] /\ it[{}] = t
      BY <3>1 DEF Folded
    <3> QED BY <3>2, <3>3 DEF Eq
  <2>2. Eq(fold)
    BY <2>1
  <2>3. fold[{}] = t
    BY <2>2
  <2>4. ASSUME NEW p \in SUBSET (1 .. n), p # {}, fold[p \ {Max(p)}] \in Tables
        PROVE  fold[p] = step[Max(p)][fold[p \ {Max(p)}]]
    <3>1. Max(p) \in 1 .. n
      BY <1>1, <2>4, TopIs
    <3>2. fold[p] = Register(fold[p \ {Max(p)}], s[Max(p)])
      BY <2>2, <2>4
    <3> QED BY <1>3, <2>4, <3>1, <3>2
  <2>5. FoldLeft(Register, t, s) = fold[DOMAIN s]
    BY <1>1 DEF FoldLeft, MapThenFoldSet
  <2> HIDE DEF fold
  <2>6. PICK g : Follows(g, n, Tables, t, step) /\ fold[1 .. n] = g[n]
    <3>1. n \in Nat /\ t \in Tables
      BY <1>1
    <3>2. FoldsUp(fold, n, Tables, t, step)
      BY <2>3, <2>4 DEF FoldsUp
    <3> QED BY <1>2, <3>1, <3>2, FoldIs
  <2> QED BY <1>1, <2>5, <2>6
<1> DEFINE T == {k \in Nat : k <= n => \A m \in Lists : \A Q :
                   FirstIn(g[k][m], Q) = Or(FirstIn(t[m], Q), FirstIn(SubSeq(s, 1, k), ForMethod(Q, m)))}
<1>5. 0 \in T
  <2>1. g[0] = t /\ SubSeq(s, 1, 0) = <<>>
    BY <1>1, <1>4 DEF Follows
  <2> QED BY <2>1, FirstEmpty, OrLaws
<1>6. ASSUME NEW k \in Nat, k \in T PROVE k + 1 \in T
  <2> SUFFICES ASSUME k + 1 <= n, NEW m \in Lists, NEW Q
               PROVE  FirstIn(g[k + 1][m], Q)
                      = Or(FirstIn(t[m], Q), FirstIn(SubSeq(s, 1, k + 1), ForMethod(Q, m)))
    OBVIOUS
  <2>1. g[k] \in Tables /\ g[k + 1] = Register(g[k], s[k + 1])
    <3>1. k \in 0 .. n /\ k + 1 \in 0 .. n /\ k + 1 \in 1 .. n /\ k + 1 # 0 /\ k + 1 - 1 = k
      BY <1>1
    <3> QED BY <1>3, <1>4, <3>1 DEF Follows
  <2>2. FirstIn(g[k][m], Q) = Or(FirstIn(t[m], Q), FirstIn(SubSeq(s, 1, k), ForMethod(Q, m)))
    BY <1>1, <1>6
  <2>3. FirstIn(g[k + 1][m], Q) = Or(FirstIn(g[k][m], Q), FirstIn(<<s[k + 1]>>, ForMethod(Q, m)))
    <3>1. s[k + 1] \in Routes
      BY <1>1
    <3> QED BY <2>1, <3>1, RegisterIs
  <2>4. FirstIn(SubSeq(s, 1, k + 1), ForMethod(Q, m))
        = Or(FirstIn(SubSeq(s, 1, k), ForMethod(Q, m)), FirstIn(<<s[k + 1]>>, ForMethod(Q, m)))
    <3> DEFINE q == SubSeq(s, 1, k)
               x == <<s[k + 1]>>
    <3>1. q \in Seq(Routes) /\ x \in Seq(Routes) /\ SubSeq(s, 1, k + 1) = q \o x
      BY SubSeqGrows DEF n
    <3> HIDE DEF q, x
    <3>2. FirstIn(q \o x, ForMethod(Q, m)) = Or(FirstIn(q, ForMethod(Q, m)), FirstIn(x, ForMethod(Q, m)))
      BY <3>1, FirstJoin
    <3> QED BY <3>1, <3>2 DEF q, x
  <2> QED BY <2>2, <2>3, <2>4, OrLaws
<1> HIDE DEF T
<1>7. n \in T
  BY <1>1, <1>5, <1>6, SetInduction
<1>8. SubSeq(s, 1, n) = s
  BY DEF n
<1>9. g[n] \in Tables
  BY <1>1, <1>4 DEF Follows
<1>10. ASSUME NEW m \in Lists, NEW Q
       PROVE  FirstIn(g[n][m], Q) = Or(FirstIn(t[m], Q), FirstIn(s, ForMethod(Q, m)))
  <2>1. n <= n /\ n \in Nat
    BY <1>1
  <2>2. FirstIn(g[n][m], Q) = Or(FirstIn(t[m], Q), FirstIn(SubSeq(s, 1, n), ForMethod(Q, m)))
    BY <1>7, <2>1 DEF T
  <2> QED BY <1>8, <2>2
<1> QED BY <1>4, <1>9, <1>10

(* A router of its own finds what it would find among its routes.          *)
LEMMA RouterIs ==
  ASSUME NEW s \in Seq(Routes)
  PROVE  /\ Router(s) \in Tables
         /\ \A m \in Lists : \A Q : FirstIn(Router(s)[m], Q) = FirstIn(s, ForMethod(Q, m))
<1> DEFINE t == [m \in Lists |-> <<>>]
<1>1. t \in Tables /\ \A m \in Lists : t[m] = <<>>
  BY DEF Tables
<1>2. Router(s) = FoldLeft(Register, t, s)
  BY DEF Router
<1> HIDE DEF t
<1>3. /\ Router(s) \in Tables
      /\ \A m \in Lists : \A Q : FirstIn(Router(s)[m], Q) = Or(FirstIn(t[m], Q), FirstIn(s, ForMethod(Q, m)))
  BY <1>1, <1>2, Registered
<1>4. ASSUME NEW m \in Lists, NEW Q PROVE FirstIn(t[m], Q) = {}
  BY <1>1, FirstEmpty
<1> QED BY <1>3, <1>4 DEF Or

(* The methods whose routes use() mounts and the middlewares get to see.  *)
Mountable == Lists \ {"Options", "Ws"}

(* use() leaves OPTIONS and WebSocket routes out.                          *)
LEMMA UseIs ==
  ASSUME NEW t \in Tables, NEW p \in Seq(STRING), NEW router \in Tables
  PROVE  /\ Use(t, p, router) \in Tables
         /\ \A m \in Mountable : Use(t, p, router)[m] = t[m] \o MountedAll(p, router[m])
<1>1. \A m \in Lists : t[m] \in Seq(Routes) /\ MountedAll(p, router[m]) \in Seq(Routes)
  BY MountedAllIs DEF Tables
<1>2. Use(t, p, router) = [m \in Lists |-> IF m \in {"Options", "Ws"} THEN t[m]
                                          ELSE t[m] \o MountedAll(p, router[m])]
  BY DEF Use, MountedAll, Mounted
<1>3. \A m \in Lists : t[m] \o MountedAll(p, router[m]) \in Seq(Routes)
  BY <1>1, ConcatProperties
<1> QED BY <1>1, <1>2, <1>3 DEF Tables, Mountable

(* So does a call: the order of the calls is the order of the routes.      *)
LEMMA WithCallIs ==
  ASSUME NEW t \in Tables, NEW call \in SetupCalls
  PROVE  /\ WithCall(t, call) \in Tables
         /\ RoutesOf(call) \in Seq(Routes)
         /\ \A m \in Mountable : \A Q :
              FirstIn(WithCall(t, call)[m], Q) = Or(FirstIn(t[m], Q), FirstIn(RoutesOf(call), ForMethod(Q, m)))
<1>1. CASE ~call.mount
  <2>1. call.routes \in Seq(Routes)
    BY <1>1 DEF SetupCalls
  <2>2. WithCall(t, call) = FoldLeft(Register, t, call.routes) /\ RoutesOf(call) = call.routes
    BY <1>1 DEF WithCall, RoutesOf
  <2> QED BY <2>1, <2>2, Registered DEF Mountable
<1>2. CASE call.mount
  <2> DEFINE p == call.prefix
             s == call.routes
             R == Router(s)
  <2>1. p \in Seq(STRING) /\ s \in Seq(Routes)
    BY <1>2 DEF SetupCalls
  <2>2. WithCall(t, call) = Use(t, p, R) /\ RoutesOf(call) = MountedAll(p, s)
    BY <1>2 DEF WithCall, RoutesOf, MountedAll, Mounted
  <2> HIDE DEF p, s
  <2>3. R \in Tables
    BY <2>1, RouterIs
  <2>4. ASSUME NEW m \in Mountable, NEW Q
        PROVE  FirstIn(Use(t, p, R)[m], Q) = Or(FirstIn(t[m], Q), FirstIn(MountedAll(p, s), ForMethod(Q, m)))
    <3> DEFINE P == {r \in Routes : Mounted(p, r) \in Q}
    <3>1. m \in Lists /\ R[m] \in Seq(Routes) /\ t[m] \in Seq(Routes)
      BY <2>3 DEF Mountable, Tables
    <3>2. ForMethod(P, m) = {r \in Routes : Mounted(p, r) \in ForMethod(Q, m)}
      BY <2>1, MountedIs DEF ForMethod
    <3>3. FirstIn(R[m], P) = FirstIn(s, ForMethod(P, m))
      BY <2>1, <3>1, RouterIs
    <3>4. FirstIn(MountedAll(p, R[m]), Q) = {Mounted(p, r) : r \in FirstIn(R[m], P)}
      BY SMTT(30), <2>1, <3>1, MountedAllIs
    <3> HIDE DEF P
    <3>5. FirstIn(MountedAll(p, s), ForMethod(Q, m)) = {Mounted(p, r) : r \in FirstIn(s, ForMethod(P, m))}
      BY <2>1, <3>2, MountedAllIs
    <3>6. FirstIn(MountedAll(p, R[m]), Q) = FirstIn(MountedAll(p, s), ForMethod(Q, m))
      BY <3>3, <3>4, <3>5
    <3>7. Use(t, p, R)[m] = t[m] \o MountedAll(p, R[m]) /\ MountedAll(p, R[m]) \in Seq(Routes)
      BY <2>1, <2>3, <3>1, UseIs, MountedAllIs
    <3> QED BY <3>1, <3>6, <3>7, FirstJoin
  <2>5. Use(t, p, R) \in Tables
    BY <2>1, <2>3, UseIs
  <2>6. MountedAll(p, s) \in Seq(Routes)
    BY <2>1, MountedAllIs
  <2> QED BY <2>2, <2>4, <2>5, <2>6
<1> QED BY <1>1, <1>2

(* The routes that the first k calls have registered. *)
RoutesUpTo(f) ==
  /\ f \in [0 .. Len(Setup) -> Seq(Routes)] /\ f[0] = <<>>
  /\ \A k \in 1 .. Len(Setup) : f[k] = f[k - 1] \o RoutesOf(Setup[k])

(* AllRoutes, the routes of all calls one after another, call by call.     *)
LEMMA AllRoutesAre ==
  ASSUME Setup \in Seq(SetupCalls)
  PROVE  \E f : RoutesUpTo(f) /\ AllRoutes = f[Len(Setup)]
<1> DEFINE n == Len(Setup)
           S == Seq(Routes)
           x == [i \in DOMAIN Setup |-> RoutesOf(Setup[i])]
           step == [i \in 1 .. n |-> [q \in S |-> q \o x[i]]]
<1>1. n \in Nat /\ DOMAIN Setup = 1 .. n /\ \A i \in 1 .. n : Setup[i] \in SetupCalls
  OBVIOUS
<1>2. \A i \in 1 .. n : x[i] = RoutesOf(Setup[i]) /\ x[i] \in S
  <2>1. \E t : t \in Tables
    <3>1. [m \in Lists |-> <<>>] \in Tables
      BY DEF Tables
    <3> QED BY <3>1
  <2> QED BY <1>1, <2>1, WithCallIs
<1>3. Len(x) = n /\ x \in Seq(S)
  <2>1. x = [i \in 1 .. n |-> x[i]]
    BY <1>1
  <2> HIDE DEF x, S
  <2> QED BY <1>1, <1>2, <2>1
<1> HIDE DEF x
<1>4. step \in [1 .. n -> [S -> S]]
  BY <1>2, ConcatProperties
<1>5. \A i \in 1 .. n, q \in S : step[i][q] = q \o x[i]
  OBVIOUS
<1>6. <<>> \in S
  OBVIOUS
<1> HIDE DEF step, n, S
<1>7. PICK g : Follows(g, n, S, <<>>, step)
  BY <1>1, <1>4, <1>6, Recursion
<1>8. /\ \A i \in 0 .. n : g[i] \in S
      /\ g[0] = <<>>
      /\ \A i \in 1 .. n : g[i] = g[i - 1] \o x[i]
  <2>1. \A i \in 1 .. n : i \in 0 .. n /\ i # 0 /\ i - 1 \in 0 .. n
    BY <1>1
  <2>2. 0 \in 0 .. n
    BY <1>1
  <2> QED BY <1>5, <1>7, <2>1, <2>2 DEF Follows
<1>9. RoutesUpTo(g)
  BY <1>1, <1>2, <1>7, <1>8 DEF RoutesUpTo, Follows, n, S
<1>10. CASE n = 0
  <2>1. x = <<>>
    BY <1>3, <1>10
  <2>2. AllRoutes = <<>>
    BY <1>3, <1>10, <2>1 DEF AllRoutes, FlattenSeq, x
  <2> QED BY <1>8, <1>9, <1>10, <2>2 DEF n
<1>11. CASE n # 0
  <2> DEFINE Eq(h) == h = [i \in 1 .. Len(x) |-> IF i = 1 THEN x[i] ELSE h[i - 1] \o x[i]]
             flat == CHOOSE h : Eq(h)
             h0 == [i \in 1 .. n |-> g[i]]
             T == {k \in Nat : k + 1 <= n => flat[k + 1] = g[k + 1]}
  <2>1. g[1] = x[1]
    <3>1. 1 \in 1 .. n /\ 1 - 1 = 0
      BY <1>1, <1>11
    <3>2. x[1] \in S
      BY <1>2, <3>1
    <3>3. g[1] = <<>> \o x[1]
      BY <1>8, <3>1
    <3> QED BY <3>2, <3>3, ConcatEmptySeq DEF S
  <2>2. Eq(h0)
    <3>1. \A i \in 1 .. n : h0[i] = IF i = 1 THEN x[i] ELSE h0[i - 1] \o x[i]
      <4> TAKE i \in 1 .. n
      <4>1. i # 1 => i - 1 \in 1 .. n
        BY <1>1
      <4> QED BY <1>8, <2>1, <4>1
    <3> HIDE DEF h0
    <3>2. h0 = [i \in 1 .. n |-> h0[i]]
      BY DEF h0
    <3> QED BY <1>3, <3>1, <3>2
  <2>3. Eq(flat)
    <3> HIDE DEF Eq
    <3> QED BY <2>2
  <2> HIDE DEF flat
  <2>9. \A i \in 1 .. n : flat[i] = IF i = 1 THEN x[i] ELSE flat[i - 1] \o x[i]
    BY <1>3, <2>3
  <2> HIDE DEF Eq
  <2>4. 0 \in T
    <3>1. 1 \in 1 .. n
      BY <1>1, <1>11
    <3> QED BY <2>1, <2>9, <3>1
  <2>5. ASSUME NEW k \in Nat, k \in T PROVE k + 1 \in T
    <3> SUFFICES ASSUME k + 1 + 1 <= n PROVE flat[k + 1 + 1] = g[k + 1 + 1]
      OBVIOUS
    <3> DEFINE j == k + 1 + 1
    <3>1. j \in 1 .. n /\ j # 1 /\ j - 1 = k + 1 /\ flat[k + 1] = g[k + 1]
      BY <1>1, <2>5
    <3> HIDE DEF j
    <3>2. flat[j] = flat[k + 1] \o x[j]
      BY <2>9, <3>1
    <3>3. g[j] = g[k + 1] \o x[j]
      BY <1>8, <3>1
    <3>4. flat[j] = g[j]
      BY <3>1, <3>2, <3>3
    <3> QED BY <3>4 DEF j
  <2> HIDE DEF T
  <2>6. n - 1 \in T /\ n - 1 + 1 = n
    BY <1>1, <1>11, <2>4, <2>5, SetInduction
  <2>7. flat[n] = g[n]
    BY <1>1, <2>6 DEF T
  <2>8. AllRoutes = flat[Len(x)]
    BY <1>3, <1>11 DEF AllRoutes, FlattenSeq, x, flat, Eq
  <2> QED BY <1>3, <1>9, <2>7, <2>8 DEF n
<1> QED BY <1>10, <1>11

(* Call by call, the tables and AllRoutes have the same first route.       *)
LEMMA WebappIs ==
  ASSUME Setup \in Seq(SetupCalls)
  PROVE  /\ Webapp \in Tables
         /\ \A m \in Mountable : \A Q : FirstIn(Webapp[m], Q) = FirstIn(AllRoutes, ForMethod(Q, m))
<1> DEFINE n == Len(Setup)
           t == Router(<<>>)
           step == [i \in 1 .. n |-> [v \in Tables |-> WithCall(v, Setup[i])]]
<1>0. \A i \in 1 .. n : Setup[i] \in SetupCalls
  OBVIOUS
<1>1. n \in Nat /\ DOMAIN Setup = 1 .. n /\ t \in Tables
  <2>1. <<>> \in Seq(Routes)
    OBVIOUS
  <2>2. t \in Tables
    BY <2>1, RouterIs
  <2>3. n \in Nat /\ DOMAIN Setup = 1 .. n
    OBVIOUS
  <2> HIDE DEF n, t
  <2> QED BY <2>2, <2>3
<1>2. step \in [1 .. n -> [Tables -> Tables]]
  BY <1>0, WithCallIs
<1>3. \A i \in 1 .. n, v \in Tables : step[i][v] = WithCall(v, Setup[i])
  OBVIOUS
<1> HIDE DEF n, step, t
<1>4. PICK g : Follows(g, n, Tables, t, step) /\ FoldLeft(WithCall, t, Setup) = g[n]
  <2> DEFINE Eq(it) == it = [p \in SUBSET (1 .. n) |->
                               IF p = {} THEN t ELSE WithCall(it[p \ {Max(p)}], Setup[Max(p)])]
             fold == CHOOSE it : Eq(it)
  <2>1. \E it : Eq(it)
    <3> HIDE DEF Eq, fold
    <3>1. PICK it : Folded(it, n, Tables, t, step)
      BY <1>1, <1>2, FoldExists
    <3>2. ASSUME NEW p \in SUBSET (1 .. n), p # {}
          PROVE  it[p] = WithCall(it[p \ {Max(p)}], Setup[Max(p)])
      <4>1. Max(p) \in 1 .. n /\ p \ {Max(p)} \in SUBSET (1 .. n)
        BY <1>1, <3>2, TopIs
      <4>2. it[p \ {Max(p)}] \in Tables /\ it[p] = step[Max(p)][it[p \ {Max(p)}]]
        BY <3>1, <3>2, <4>1 DEF Folded
      <4> QED BY <1>3, <4>1, <4>2
    <3>3. it = [p \in SUBSET (1 .. n) |-> it[p]] /\ it[{}] = t
      BY <3>1 DEF Folded
    <3> QED BY <3>2, <3>3 DEF Eq
  <2>2. Eq(fold)
    BY <2>1
  <2>3. fold[{}] = t
    BY <2>2
  <2>4. ASSUME NEW p \in SUBSET (1 .. n), p # {}, fold[p \ {Max(p)}] \in Tables
        PROVE  fold[p] = step[Max(p)][fold[p \ {Max(p)}]]
    <3>1. Max(p) \in 1 .. n
      BY <1>1, <2>4, TopIs
    <3>2. fold[p] = WithCall(fold[p \ {Max(p)}], Setup[Max(p)])
      BY <2>2, <2>4
    <3> QED BY <1>3, <2>4, <3>1, <3>2
  <2>5. FoldLeft(WithCall, t, Setup) = fold[DOMAIN Setup]
    BY <1>1 DEF FoldLeft, MapThenFoldSet
  <2> HIDE DEF fold
  <2>6. PICK g : Follows(g, n, Tables, t, step) /\ fold[1 .. n] = g[n]
    <3>1. FoldsUp(fold, n, Tables, t, step)
      BY <2>3, <2>4 DEF FoldsUp
    <3> QED BY <1>1, <1>2, <3>1, FoldIs
  <2> QED BY <1>1, <2>5, <2>6
<1>5. PICK f : RoutesUpTo(f) /\ AllRoutes = f[Len(Setup)]
  BY AllRoutesAre
<1> DEFINE T == {k \in Nat : k <= n => \A m \in Mountable : \A Q :
                   FirstIn(g[k][m], Q) = FirstIn(f[k], ForMethod(Q, m))}
<1>6. 0 \in T
  <2>1. g[0] = t /\ f[0] = <<>>
    BY <1>1, <1>4, <1>5 DEF Follows, RoutesUpTo
  <2>2. <<>> \in Seq(Routes)
    OBVIOUS
  <2>3. ASSUME NEW m \in Mountable, NEW Q PROVE FirstIn(t[m], Q) = FirstIn(<<>>, ForMethod(Q, m))
    <3>1. m \in Lists
      BY DEF Mountable
    <3> QED BY <2>2, <3>1, RouterIs DEF t
  <2> QED BY <2>1, <2>3
<1>7. ASSUME NEW k \in Nat, k \in T PROVE k + 1 \in T
  <2> SUFFICES ASSUME k + 1 <= n, NEW m \in Mountable, NEW Q
               PROVE  FirstIn(g[k + 1][m], Q) = FirstIn(f[k + 1], ForMethod(Q, m))
    OBVIOUS
  <2> DEFINE x == RoutesOf(Setup[k + 1])
  <2>1. k \in 0 .. n /\ k + 1 \in 0 .. n /\ k + 1 \in 1 .. n /\ k + 1 # 0 /\ k + 1 - 1 = k
    BY <1>1
  <2>2. g[k] \in Tables /\ g[k + 1] = WithCall(g[k], Setup[k + 1])
    <3>1. g[k] \in Tables /\ g[k + 1] = step[k + 1][g[k]]
      BY <1>4, <2>1 DEF Follows
    <3> QED BY <1>3, <2>1, <3>1
  <2>3. f[k] \in Seq(Routes) /\ f[k + 1] = f[k] \o x
    <3>1. f \in [0 .. n -> Seq(Routes)] /\ \A i \in 1 .. n : f[i] = f[i - 1] \o RoutesOf(Setup[i])
      BY <1>5 DEF RoutesUpTo, n
    <3>2. f[k] \in Seq(Routes)
      BY <2>1, <3>1
    <3>3. \A i \in 1 .. n : f[i] = f[i - 1] \o RoutesOf(Setup[i])
      BY <3>1
    <3>4. ASSUME NEW j \in 1 .. n, j - 1 = k PROVE f[j] = f[k] \o RoutesOf(Setup[j])
      BY <3>3, <3>4
    <3>5. f[k + 1] = f[k] \o x
      <4> DEFINE j == k + 1
      <4>1. j \in 1 .. n /\ j - 1 = k
        BY <2>1
      <4> HIDE DEF j
      <4>2. f[j] = f[k] \o RoutesOf(Setup[j])
        BY <3>4, <4>1
      <4> QED BY <4>2 DEF j
    <3> QED BY <3>2, <3>5
  <2>4. FirstIn(g[k][m], Q) = FirstIn(f[k], ForMethod(Q, m))
    BY <1>1, <1>7
  <2>5. x \in Seq(Routes) /\ FirstIn(g[k + 1][m], Q) = Or(FirstIn(g[k][m], Q), FirstIn(x, ForMethod(Q, m)))
    BY <1>0, <2>1, <2>2, WithCallIs
  <2> HIDE DEF x
  <2> QED BY <2>3, <2>4, <2>5, FirstJoin
<1> HIDE DEF T
<1>8. n \in T
  BY <1>1, <1>6, <1>7, SetInduction
<1>9. g[n] \in Tables /\ Webapp = g[n]
  BY <1>1, <1>4 DEF Follows, Webapp, t
<1> QED BY <1>1, <1>5, <1>8, <1>9 DEF T, n

-----------------------------------------------------------------------------
(* Responses that a route of name b has made *)

(* The provers do not know that a literal is a string.                    *)
Segments == STRING \cup {"index.html"}

Made(b) == [state : Nat, body : Seq(Segments), by : {b}]

LEMMA SegmentsAre == ASSUME NEW s \in Seq(STRING) PROVE s \in Seq(Segments)
<1>1. /\ Len(s) \in Nat /\ s = [i \in 1 .. Len(s) |-> s[i]]
      /\ \A i \in 1 .. Len(s) : s[i] \in Segments
  BY DEF Segments
<1> HIDE DEF Segments
<1> QED BY <1>1

LEMMA MadeOf ==
  ASSUME NEW b, NEW r \in Made(b), NEW f \in Seq(Segments), NEW n \in Nat
  PROVE  [r EXCEPT !.body = f, !.state = n] \in Made(b)
<1> DEFINE q == [r EXCEPT !.body = f]
<1>1. q \in Made(b)
  BY DEF Made
<1> HIDE DEF q
<1>2. [q EXCEPT !.state = n] \in Made(b)
  BY <1>1 DEF Made
<1> QED BY <1>2 DEF q

LEMMA RedirectKeeps ==
  ASSUME NEW b, NEW r \in Made(b), NEW code \in Nat
  PROVE  Redirect(r, code) \in Made(b) /\ Status(r, code) \in Made(b)
<1>1. <<>> \in Seq(Segments)
  OBVIOUS
<1>2. Redirect(r, code) \in Made(b)
  BY <1>1, MadeOf DEF Redirect
<1>3. Status(r, code) \in Made(b)
  BY DEF Made, Status
<1> QED BY <1>2, <1>3

LEMMA SendKeeps ==
  ASSUME NEW b, NEW r \in Made(b), NEW f \in Seq(Segments)
  PROVE  Send(r, f) \in Made(b) /\ SendFile(r, f) \in Made(b)
<1>1. <<>> \in Seq(Segments)
  OBVIOUS
<1>2. Send(r, f) \in Made(b)
  <2> DEFINE n == IF r.state = 0 THEN 200 ELSE r.state
             q == [r EXCEPT !.body = f]
  <2>1. n \in Nat /\ q \in Made(b) /\ q.state = r.state
    BY DEF Made
  <2>2. Send(r, f) = [q EXCEPT !.state = n]
    BY <2>1 DEF Send
  <2> HIDE DEF n, q
  <2>3. [q EXCEPT !.state = n] \in Made(b)
    BY <2>1 DEF Made
  <2> QED BY <2>2, <2>3, Zenon
<1>3. [r EXCEPT !.body = <<>>, !.state = 404] \in Made(b)
  <2> DEFINE none == <<>>
             code == 404
  <2>1. none \in Seq(Segments) /\ code \in Nat
    BY <1>1
  <2> HIDE DEF none, code
  <2>2. [r EXCEPT !.body = none, !.state = code] \in Made(b)
    BY <2>1, MadeOf, Zenon
  <2> QED BY <2>2 DEF none, code
<1> QED BY <1>2, <1>3 DEF SendFile

LEMMA CallKeeps ==
  ASSUME NEW b, NEW r \in Made(b), NEW c \in Calls
  PROVE  Call(r, c) \in Made(b)
<1>1. CASE c \in [op : {"status", "redirect"}, code : Nat]
  <2>1. c.op \in {"status", "redirect"} /\ c.code \in Nat
    BY <1>1
  <2>2. Status(r, c.code) \in Made(b) /\ Redirect(r, c.code) \in Made(b)
    BY <2>1, RedirectKeeps
  <2> QED BY <2>1, <2>2 DEF Call
<1>2. CASE c \in [op : {"send", "json", "sendFile"}, text : Seq(STRING)]
  <2>1. c.op \in {"send", "json", "sendFile"} /\ c.text \in Seq(Segments)
    BY <1>2, SegmentsAre
  <2>2. <<>> \in Seq(Segments)
    OBVIOUS
  <2>3. Json(r, c.text) \in Made(b)
    <3> DEFINE code == 200
    <3>1. code \in Nat
      OBVIOUS
    <3> HIDE DEF code
    <3>2. [r EXCEPT !.body = c.text, !.state = code] \in Made(b)
      BY <2>1, <3>1, MadeOf, Zenon
    <3> QED BY <3>2 DEF Json, code
  <2>4. Send(r, c.text) \in Made(b) /\ SendFile(r, c.text) \in Made(b)
    BY <2>1, SendKeeps
  <2> QED BY <2>1, <2>3, <2>4 DEF Call
<1> QED BY <1>1, <1>2 DEF Calls

LEMMA CallsKeep ==
  ASSUME NEW b, NEW r \in Made(b), NEW s \in Seq(Calls)
  PROVE  FoldLeft(Call, r, s) \in Made(b)
<1> DEFINE n == Len(s)
           S == Made(b)
           step == [i \in 1 .. n |-> [v \in S |-> Call(v, s[i])]]
<1>0. \A i \in 1 .. n : s[i] \in Calls
  OBVIOUS
<1>1. n \in Nat /\ DOMAIN s = 1 .. n /\ r \in S
  OBVIOUS
<1>2. step \in [1 .. n -> [S -> S]]
  BY <1>0, CallKeeps
<1>3. \A i \in 1 .. n, v \in S : step[i][v] = Call(v, s[i])
  OBVIOUS
<1> HIDE DEF n, step, S
<1>4. PICK g : Follows(g, n, S, r, step) /\ FoldLeft(Call, r, s) = g[n]
  <2> DEFINE Eq(it) == it = [p \in SUBSET (1 .. n) |->
                               IF p = {} THEN r ELSE Call(it[p \ {Max(p)}], s[Max(p)])]
             fold == CHOOSE it : Eq(it)
  <2>1. \E it : Eq(it)
    <3> HIDE DEF Eq, fold
    <3>1. PICK it : Folded(it, n, S, r, step)
      BY <1>1, <1>2, FoldExists
    <3>2. ASSUME NEW p \in SUBSET (1 .. n), p # {}
          PROVE  it[p] = Call(it[p \ {Max(p)}], s[Max(p)])
      <4>1. Max(p) \in 1 .. n /\ p \ {Max(p)} \in SUBSET (1 .. n)
        BY <1>1, <3>2, TopIs
      <4>2. it[p \ {Max(p)}] \in S /\ it[p] = step[Max(p)][it[p \ {Max(p)}]]
        BY <3>1, <3>2, <4>1 DEF Folded
      <4> QED BY <1>3, <4>1, <4>2
    <3>3. it = [p \in SUBSET (1 .. n) |-> it[p]] /\ it[{}] = r
      BY <3>1 DEF Folded
    <3> QED BY <3>2, <3>3 DEF Eq
  <2>2. Eq(fold)
    BY <2>1
  <2>3. fold[{}] = r
    BY <2>2
  <2>4. ASSUME NEW p \in SUBSET (1 .. n), p # {}, fold[p \ {Max(p)}] \in S
        PROVE  fold[p] = step[Max(p)][fold[p \ {Max(p)}]]
    <3>1. Max(p) \in 1 .. n
      BY <1>1, <2>4, TopIs
    <3>2. fold[p] = Call(fold[p \ {Max(p)}], s[Max(p)])
      BY <2>2, <2>4
    <3> QED BY <1>3, <2>4, <3>1, <3>2
  <2>5. FoldLeft(Call, r, s) = fold[DOMAIN s]
    BY <1>1 DEF FoldLeft, MapThenFoldSet
  <2> HIDE DEF fold
  <2>6. PICK g : Follows(g, n, S, r, step) /\ fold[1 .. n] = g[n]
    <3>1. FoldsUp(fold, n, S, r, step)
      BY <2>3, <2>4 DEF FoldsUp
    <3> QED BY <1>1, <1>2, <3>1, FoldIs
  <2> QED BY <1>1, <2>5, <2>6
<1> QED BY <1>1, <1>4 DEF Follows, S

LEMMA IndexIs ==
  /\ <<"index.html">> \in Seq(Segments) /\ Len(<<"index.html">>) # 0
  /\ \A s \in Seq(Segments) : Append(s, "index.html") \in Seq(Segments)
<1> DEFINE i == "index.html"
<1>1. i \in Segments
  BY DEF Segments
<1> HIDE DEF i
<1>2. <<i>> \in Seq(Segments) /\ Len(<<i>>) # 0 /\ \A s \in Seq(Segments) : Append(s, i) \in Seq(Segments)
  BY <1>1
<1> QED BY <1>2 DEF i

LEMMA StaticsKeep ==
  ASSUME NEW b, NEW r \in Made(b), NEW req, req.uri \in Seq(Segments), NEW prefix \in Seq(Segments)
  PROVE  Statics(r, req, prefix) \in Made(b)
<1> DEFINE rest == SubSeq(req.uri, Len(prefix) + 1, Len(req.uri))
           path == IF rest \in {<<>>, <<"">>} THEN <<"index.html">> ELSE rest
           name == IF Last(path) = "" THEN Front(path) ELSE path
<1>1. rest \in Seq(Segments)
  OBVIOUS
<1>2. path \in Seq(Segments) /\ Len(path) # 0
  <2>1. <<"index.html">> \in Seq(Segments) /\ Len(<<"index.html">>) # 0
    BY IndexIs
  <2> HIDE DEF rest
  <2>2. CASE rest \in {<<>>, <<"">>}
    BY <2>1, <2>2, Zenon
  <2>3. CASE rest \notin {<<>>, <<"">>}
    <3>1. rest # <<>> /\ path = rest
      BY <2>3, Zenon
    <3> QED BY <1>1, <3>1, EmptySeq
  <2> QED BY <2>2, <2>3, Zenon
<1> HIDE DEF path
<1>3. Front(path) \in Seq(Segments)
  <2>1. 1 \in Nat /\ Len(path) - 1 \in Nat
    BY <1>2
  <2> QED BY <1>2, <2>1 DEF Front
<1>4. name \in Seq(Segments)
  BY <1>2, <1>3
<1>5. Append(name, "index.html") \in Seq(Segments) /\ <<>> \in Seq(Segments)
  <2> HIDE DEF name
  <2> QED BY <1>4, IndexIs
<1> HIDE DEF name
<1>6. \A f \in Seq(Segments) : SendFile(r, f) \in Made(b)
  BY SendKeeps
<1>7. Status(r, 403) \in Made(b) /\ Redirect(r, 301) \in Made(b)
  BY RedirectKeeps
<1> QED BY <1>2, <1>5, <1>6, <1>7 DEF Statics, name, path, rest

LEMMA MiddlewareKeeps ==
  ASSUME WebAssumptions, NEW b, NEW r \in Made(b), NEW req, req.uri \in Seq(Segments),
         NEW i \in 1 .. Len(Middlewares)
  PROVE  Middleware(r, req, Middlewares[i]) \in Made(b)
<1>1. Middlewares[i] \in [kind : {"cors"}] \cup [kind : {"statics"}, prefix : Seq(STRING)]
  BY DEF WebAssumptions
<1>2. Cors(r, req) \in Made(b)
  BY DEF Made, Cors, Status
<1>3. CASE Middlewares[i] \in [kind : {"cors"}]
  BY <1>2, <1>3 DEF Middleware
<1>4. CASE Middlewares[i] \in [kind : {"statics"}, prefix : Seq(STRING)]
  BY <1>4, StaticsKeep, SegmentsAre DEF Middleware
<1> QED BY <1>1, <1>3, <1>4

LEMMA MiddlewaresKeep ==
  ASSUME WebAssumptions, NEW b, NEW r \in Made(b), NEW req, req.uri \in Seq(Segments)
  PROVE  Passed(r, req) \in Made(b)
<1> DEFINE n == Len(Middlewares)
           S == Made(b)
           step == [i \in 1 .. n |-> [v \in S |-> Middleware(v, req, Middlewares[i])]]
<1>1. n \in Nat /\ DOMAIN Middlewares = 1 .. n /\ r \in S
  BY DEF WebAssumptions
<1>2. step \in [1 .. n -> [S -> S]]
  BY MiddlewareKeeps
<1>3. \A i \in 1 .. n, v \in S : step[i][v] = Middleware(v, req, Middlewares[i])
  OBVIOUS
<1> HIDE DEF n, step, S
<1>4. PICK g : Follows(g, n, S, r, step) /\ FoldLeft(LAMBDA q, m : Middleware(q, req, m), r, Middlewares) = g[n]
  <2> DEFINE Eq(it) == it = [p \in SUBSET (1 .. n) |->
                               IF p = {} THEN r ELSE Middleware(it[p \ {Max(p)}], req, Middlewares[Max(p)])]
             fold == CHOOSE it : Eq(it)
  <2>1. \E it : Eq(it)
    <3> HIDE DEF Eq, fold
    <3>1. PICK it : Folded(it, n, S, r, step)
      BY <1>1, <1>2, FoldExists
    <3>2. ASSUME NEW p \in SUBSET (1 .. n), p # {}
          PROVE  it[p] = Middleware(it[p \ {Max(p)}], req, Middlewares[Max(p)])
      <4>1. Max(p) \in 1 .. n /\ p \ {Max(p)} \in SUBSET (1 .. n)
        BY <1>1, <3>2, TopIs
      <4>2. it[p \ {Max(p)}] \in S /\ it[p] = step[Max(p)][it[p \ {Max(p)}]]
        BY <3>1, <3>2, <4>1 DEF Folded
      <4> QED BY <1>3, <4>1, <4>2
    <3>3. it = [p \in SUBSET (1 .. n) |-> it[p]] /\ it[{}] = r
      BY <3>1 DEF Folded
    <3> QED BY <3>2, <3>3 DEF Eq
  <2>2. Eq(fold)
    BY <2>1
  <2>3. fold[{}] = r
    BY <2>2
  <2>4. ASSUME NEW p \in SUBSET (1 .. n), p # {}, fold[p \ {Max(p)}] \in S
        PROVE  fold[p] = step[Max(p)][fold[p \ {Max(p)}]]
    <3>1. Max(p) \in 1 .. n
      BY <1>1, <2>4, TopIs
    <3>2. fold[p] = Middleware(fold[p \ {Max(p)}], req, Middlewares[Max(p)])
      BY <2>2, <2>4
    <3> QED BY <1>3, <2>4, <3>1, <3>2
  <2>5. FoldLeft(LAMBDA q, m : Middleware(q, req, m), r, Middlewares) = fold[DOMAIN Middlewares]
    BY <1>1 DEF FoldLeft, MapThenFoldSet
  <2> HIDE DEF fold
  <2>6. PICK g : Follows(g, n, S, r, step) /\ fold[1 .. n] = g[n]
    <3>1. FoldsUp(fold, n, S, r, step)
      BY <2>3, <2>4 DEF FoldsUp
    <3> QED BY <1>1, <1>2, <3>1, FoldIs
  <2> QED BY <1>1, <2>5, <2>6
<1>5. g[n] \in Made(b)
  <2>1. g \in [0 .. n -> S]
    BY <1>4, Zenon DEF Follows
  <2>2. n \in 0 .. n
    BY <1>1
  <2> QED BY <2>1, <2>2 DEF S
<1>6. Passed(r, req) = g[n]
  BY <1>4, Zenon DEF Passed
<1> QED BY <1>5, <1>6

-----------------------------------------------------------------------------
(* Who answers *)

LEMMA AllRoutesType ==
  ASSUME Setup \in Seq(SetupCalls)
  PROVE  AllRoutes \in Seq(Routes)
<1>1. PICK f : RoutesUpTo(f) /\ AllRoutes = f[Len(Setup)]
  BY AllRoutesAre
<1>2. Len(Setup) \in 0 .. Len(Setup)
  OBVIOUS
<1>3. f \in [0 .. Len(Setup) -> Seq(Routes)]
  BY <1>1 DEF RoutesUpTo
<1> QED BY <1>1, <1>2, <1>3

LEMMA MatchesIs ==
  ASSUME NEW uri, NEW s \in Seq(Routes), NEW i \in DOMAIN s
  PROVE  s[i] \in {r \in Routes : Matches(r.pattern, uri)} <=> Matches(s[i].pattern, uri)
<1>1. s[i] \in Routes
  OBVIOUS
<1> QED BY <1>1

(* The route that the table has for a request is the first of AllRoutes.   *)
LEMMA RoutedBy ==
  ASSUME Setup \in Seq(SetupCalls), NEW m \in Mountable, NEW uri
  PROVE  LET H == Hits(Webapp[m], uri)
             G == {i \in DOMAIN AllRoutes : AllRoutes[i].method = m /\ Matches(AllRoutes[i].pattern, uri)}
         IN  /\ H = {} <=> G = {}
             /\ H # {} => /\ Min(H) \in DOMAIN Webapp[m] /\ Webapp[m][Min(H)] \in Routes
                          /\ Webapp[m][Min(H)] = AllRoutes[Min(G)]
<1> DEFINE Q == {r \in Routes : Matches(r.pattern, uri)}
           s == Webapp[m]
           a == AllRoutes
           H == Hits(s, uri)
           G == {i \in DOMAIN a : a[i].method = m /\ Matches(a[i].pattern, uri)}
<1>1. s \in Seq(Routes) /\ FirstIn(s, Q) = FirstIn(a, ForMethod(Q, m))
  BY WebappIs DEF Tables, Mountable
<1>2. a \in Seq(Routes)
  BY AllRoutesType
<1>3. H = {i \in DOMAIN s : s[i] \in Q}
  BY <1>1, MatchesIs DEF Hits
<1>4. G = {i \in DOMAIN a : a[i] \in ForMethod(Q, m)}
  <2> HIDE DEF a
  <2> QED BY <1>2, MatchesIs DEF ForMethod
<1> HIDE DEF Q, s, a, H, G
<1>5. FirstIn(s, Q) = IF H = {} THEN {} ELSE {s[Min(H)]}
  BY <1>1, <1>3, FirstIsMin
<1>6. FirstIn(a, ForMethod(Q, m)) = IF G = {} THEN {} ELSE {a[Min(G)]}
  BY <1>2, <1>4, FirstIsMin
<1>7. H = {} <=> G = {}
  BY <1>1, <1>5, <1>6
<1>8. ASSUME H # {} PROVE s[Min(H)] = a[Min(G)] /\ Min(H) \in DOMAIN s /\ s[Min(H)] \in Routes
  <2>1. {s[Min(H)]} = {a[Min(G)]}
    BY <1>1, <1>5, <1>6, <1>7, <1>8
  <2>2. H \subseteq DOMAIN s /\ H \subseteq Nat
    BY <1>1, <1>3
  <2>3. PICK k \in H : \A i \in H : k <= i
    BY <1>8, <2>2, LeastNat
  <2>4. Min(H) \in H
    BY <2>3 DEF Min
  <2>5. s[Min(H)] \in Routes
    BY <1>1, <2>2, <2>4
  <2> QED BY <2>1, <2>2, <2>4, <2>5
<1> QED BY <1>7, <1>8 DEF H, G, s, a

LEMMA HandledBy ==
  ASSUME Setup \in Seq(SetupCalls), NEW req, req.method \in Mountable
  PROVE  Handle(Webapp[req.method], req) \in Made(FirstRoute(req))
<1> DEFINE m == req.method
           H == Hits(Webapp[m], req.uri)
           G == {i \in DOMAIN AllRoutes : AllRoutes[i].method = m /\ Matches(AllRoutes[i].pattern, req.uri)}
           r == Webapp[m][Min(H)]
<1>1. /\ H = {} <=> G = {}
      /\ H # {} => r \in Routes /\ r = AllRoutes[Min(G)]
  BY RoutedBy
<1>2. FirstRoute(req) = IF G = {} THEN Nil ELSE AllRoutes[Min(G)].name
  BY DEF FirstRoute
<1>3. Handle(Webapp[m], req) = IF H = {} THEN Response
                               ELSE FoldLeft(Call, [Response EXCEPT !.by = r.name], r.calls)
  BY DEF Handle
<1> HIDE DEF H, G, r, m
<1>4. <<>> \in Seq(Segments)
  OBVIOUS
<1>5. CASE H = {}
  <2>1. Response \in Made(Nil)
    BY <1>4 DEF Response, Made
  <2> QED BY <1>1, <1>2, <1>3, <1>5, <2>1 DEF m
<1>6. CASE H # {}
  <2>1. [Response EXCEPT !.by = r.name] \in Made(r.name)
    BY <1>4 DEF Response, Made
  <2>2. r.calls \in Seq(Calls)
    BY <1>1, <1>6 DEF Routes
  <2>3. FoldLeft(Call, [Response EXCEPT !.by = r.name], r.calls) \in Made(r.name)
    BY <2>1, <2>2, CallsKeep
  <2> QED BY <1>1, <1>2, <1>3, <1>6, <2>3 DEF m
<1> QED BY <1>5, <1>6

(* Neither the handler nor a middleware passes a request to another one.  *)
LEMMA AnsweredBy ==
  ASSUME WebAssumptions, table = Webapp, NEW req, req.uri \in Seq(STRING),
         req.method # "Ws", req.method # "Options", ~req.upgrade
  PROVE  Answer(req).by = FirstRoute(req)
<1> DEFINE b == FirstRoute(req)
           routed == IF req.method \in {"Get", "Post", "Delete", "Head"}
                     THEN Handle(table[req.method], req) ELSE Response
           passed == Passed(routed, req)
<1>0. Setup \in Seq(SetupCalls)
  BY DEF WebAssumptions
<1>1. routed \in Made(b)
  <2>1. CASE req.method \in {"Get", "Post", "Delete", "Head"}
    <3>1. req.method \in Mountable
      BY <2>1 DEF Mountable, Lists
    <3>2. Handle(Webapp[req.method], req) \in Made(b)
      BY <1>0, <3>1, HandledBy
    <3> QED BY <2>1, <3>2
  <2>2. CASE req.method \notin {"Get", "Post", "Delete", "Head"}
    <3>1. req.method \notin Lists
      BY <2>2 DEF Lists
    <3>2. \A i \in DOMAIN AllRoutes : AllRoutes[i].method # req.method
      <4>1. \A i \in DOMAIN AllRoutes : AllRoutes[i] \in Routes
        BY <1>0, AllRoutesType
      <4> QED BY <3>1, <4>1 DEF Routes
    <3>3. b = Nil
      BY <3>2 DEF FirstRoute
    <3>4. <<>> \in Seq(Segments)
      OBVIOUS
    <3>5. Response \in Made(Nil)
      BY <3>4 DEF Response, Made
    <3> QED BY <2>2, <3>3, <3>5
  <2> QED BY <2>1, <2>2
<1>2. passed \in Made(b)
  <2> HIDE DEF routed, b
  <2>1. req.uri \in Seq(Segments)
    BY SegmentsAre
  <2> QED BY <1>1, <2>1, MiddlewaresKeep
<1>3. Answer(req) = IF passed.state = 0 THEN [passed EXCEPT !.body = <<"cannot">>] ELSE passed
  BY DEF Answer
<1> HIDE DEF passed, b
<1>4. Answer(req).by = b
  BY <1>2, <1>3 DEF Made
<1> QED BY <1>4 DEF b

-----------------------------------------------------------------------------
(* The invariant *)

(* Why the server dispatches right: the tables stay what Setup made them,  *)
(* and a connection has read no more than has arrived.                     *)
WebTypes ==
  /\ table = Webapp /\ request \in Requests
  /\ got \in [Clients -> Nat] /\ arrived \in [Clients -> Nat]
  /\ seen \in [Clients -> Nat] /\ res = [c \in Clients |-> res[c]]
  /\ \A c \in Clients : got[c] <= arrived[c]

WebInv == WebTypes /\ Dispatched

LEMMA RequestTypes ==
  ASSUME request \in Requests, NEW c \in Clients
  PROVE  /\ request[c].head \in Nat \ {0} /\ request[c].length \in Nat \cup {-1}
         /\ request[c].method # "Ws" /\ request[c].uri \in Seq(STRING)
         /\ request[c].upgrade \in BOOLEAN
BY WebAssumption DEF WebAssumptions, Invalid

LEMMA MinOfTwo ==
  ASSUME NEW a \in Nat, NEW b \in Nat
  PROVE  Min({a, b}) \in {a, b} /\ Min({a, b}) <= a
<1>1. \E x \in {a, b} : \A y \in {a, b} : x <= y
  <2>1. CASE a <= b
    BY <2>1
  <2>2. CASE ~(a <= b)
    BY <2>2
  <2> QED BY <2>1, <2>2
<1> QED BY <1>1 DEF Min

(* Nothing that the property is about changes.                             *)
WebQuiet == UNCHANGED <<table, request, got, arrived, seen, res>>

LEMMA WebQuietKeeps == ASSUME WebInv, WebQuiet PROVE WebInv'
BY DEF WebInv, WebTypes, Dispatched, WebQuiet

(* A response that is dropped was dispatched right for all that.           *)
LEMMA DroppingKeeps ==
  ASSUME WebInv, UNCHANGED <<table, request, got, arrived, seen>>,
         NEW D \in SUBSET Clients, res' = [c \in Clients |-> IF c \in D THEN Nil ELSE res[c]]
  PROVE  WebInv'
BY DEF WebInv, WebTypes, Dispatched

LEMMA WebQuietSteps ==
  ASSUME \/ Spin \/ StopServer \/ Interrupt
         \/ \E c \in Clients : \/ Connect(c) \/ Receive(c) \/ HangUp(c) \/ Handshake(c)
                               \/ Unblock(c) \/ HandlerReturns(c)
  PROVE  WebQuiet
<1> USE DEF WebQuiet, webapp, server, client, handler, Goto
<1>1. CASE Spin
  BY <1>1 DEF Spin, Listen, Start, Test, Accept
<1>2. CASE StopServer \/ Interrupt
  BY <1>2 DEF StopServer, Interrupt
<1>3. ASSUME NEW c \in Clients,
             Connect(c) \/ Receive(c) \/ HangUp(c) \/ Handshake(c) \/ Unblock(c) \/ HandlerReturns(c)
      PROVE  WebQuiet
  BY <1>3 DEF Connect, Receive, HangUp, Handshake, Unblock, HandlerReturns
<1> QED BY <1>1, <1>2, <1>3

LEMMA DeliverKeeps ==
  ASSUME WebInv, NEW c \in Clients, Deliver(c)
  PROVE  WebInv'
<1>1. /\ arrived' = [arrived EXCEPT ![c] = @ + 1]
      /\ UNCHANGED <<table, request, got, seen, res>>
  BY DEF Deliver, server, webapp, handler
<1>2. WebTypes'
  BY <1>1 DEF WebInv, WebTypes
<1>3. Dispatched'
  BY <1>1 DEF WebInv, Dispatched
<1> QED BY <1>2, <1>3 DEF WebInv

LEMMA ReadRequestKeeps ==
  ASSUME WebInv, NEW c \in Clients, ReadRequest(c)
  PROVE  WebInv'
<1> DEFINE n == Min({arrived[c] - got[c], Chunk})
           req == request[c]
           end == Boundary(req, got'[c])
<1>1. /\ WebTypes /\ Dispatched
      /\ got[c] \in Nat /\ arrived[c] \in Nat /\ got[c] <= arrived[c]
  BY DEF WebInv, WebTypes
<1>2. n \in Nat /\ got[c] + n <= arrived[c]
  <2>1. arrived[c] - got[c] \in Nat /\ Chunk \in Nat
    BY <1>1, WebAssumption DEF WebAssumptions
  <2>2. n \in Nat /\ n <= arrived[c] - got[c]
    BY <2>1, MinOfTwo
  <2> HIDE DEF n
  <2> QED BY <1>1, <2>2
<1>3. /\ got' = [got EXCEPT ![c] = @ + n]
      /\ UNCHANGED <<table, request, arrived>>
      /\ \/ UNCHANGED <<res, seen>>
         \/ /\ n # 0 /\ end # Invalid /\ end # Nil /\ ~(got'[c] < end)
            /\ res' = [res EXCEPT ![c] = Answer(req)] /\ seen' = [seen EXCEPT ![c] = end]
  BY DEF ReadRequest, server, webapp, client
<1> HIDE DEF n, end
<1>4. got'[c] = got[c] + n /\ got' \in [Clients -> Nat] /\ \A d \in Clients : got[d] <= got'[d] /\ got'[d] <= arrived[d]
  BY <1>1, <1>2, <1>3 DEF WebTypes
<1>5. CASE UNCHANGED <<res, seen>>
  <2>1. WebTypes'
    BY <1>1, <1>3, <1>4, <1>5 DEF WebTypes
  <2>2. Dispatched'
    BY <1>1, <1>3, <1>4, <1>5 DEF WebTypes, Dispatched
  <2> QED BY <2>1, <2>2 DEF WebInv
<1>6. CASE /\ end # Invalid /\ end # Nil /\ ~(got'[c] < end)
           /\ res' = [res EXCEPT ![c] = Answer(req)] /\ seen' = [seen EXCEPT ![c] = end]
  <2>1. /\ req.head \in Nat \ {0} /\ req.length \in Nat \cup {-1}
        /\ req.method # "Ws" /\ req.uri \in Seq(STRING) /\ req.upgrade \in BOOLEAN
    BY <1>1, RequestTypes DEF WebTypes
  <2>2. req.length \in Nat /\ end = req.head + req.length
    BY <1>6, <2>1 DEF end, Boundary, Invalid
  <2>3. end \in Nat /\ end <= got'[c]
    BY <1>4, <1>6, <2>1, <2>2
  <2>4. ~req.upgrade /\ req.method # "Options" => Answer(req).by = FirstRoute(req)
    BY <1>1, <2>1, AnsweredBy, WebAssumption DEF WebTypes
  <2> HIDE DEF req
  <2>5. WebTypes'
    BY <1>1, <1>3, <1>4, <1>6, <2>3 DEF WebTypes
  <2>6. /\ seen'[c] = end /\ res'[c] = Answer(req)
        /\ \A d \in Clients \ {c} : seen'[d] = seen[d] /\ res'[d] = res[d]
    BY <1>1, <1>6 DEF WebTypes
  <2>7. ASSUME NEW d \in Clients, seen'[d] # 0
        PROVE  /\ seen'[d] = request'[d].head + request'[d].length /\ seen'[d] <= got'[d]
               /\ res'[d] # Nil /\ ~request'[d].upgrade /\ request'[d].method # "Options" =>
                    res'[d].by = FirstRoute(request'[d])
    <3>1. CASE d = c
      BY <1>3, <2>2, <2>3, <2>4, <2>6, <3>1 DEF req
    <3>2. CASE d # c
      <4>1. seen[d] # 0 /\ seen[d] \in Nat /\ got[d] \in Nat /\ got'[d] \in Nat
        BY <1>1, <1>4, <2>6, <2>7, <3>2 DEF WebTypes
      <4>2. /\ seen[d] = request[d].head + request[d].length /\ seen[d] <= got[d]
            /\ res[d] # Nil /\ ~request[d].upgrade /\ request[d].method # "Options" =>
                 res[d].by = FirstRoute(request[d])
        BY <1>1, <4>1 DEF Dispatched
      <4> QED BY <1>3, <1>4, <2>6, <3>2, <4>1, <4>2
    <3> QED BY <3>1, <3>2
  <2>8. Dispatched'
    BY <2>7 DEF Dispatched
  <2> QED BY <2>5, <2>8 DEF WebInv
<1> QED BY <1>3, <1>5, <1>6

LEMMA WriteKeeps ==
  ASSUME WebInv, NEW c \in Clients, Write(c)
  PROVE  WebInv'
<1>1. UNCHANGED <<table, request, got, arrived, seen>>
  BY DEF Write, webapp, client
<1>2. CASE res' = res
  BY <1>1, <1>2, WebQuietKeeps DEF WebQuiet
<1>3. CASE res' = [res EXCEPT ![c] = Nil]
  <2>1. res' = [d \in Clients |-> IF d \in {c} THEN Nil ELSE res[d]]
    BY <1>3 DEF WebInv, WebTypes
  <2> QED BY <1>1, <2>1, DroppingKeeps
<1> QED BY <1>2, <1>3 DEF Write

LEMMA DestroyKeeps ==
  ASSUME WebInv, Destroy
  PROVE  WebInv'
<1> DEFINE D == {c \in Clients : stage[c] = "writing"}
<1>1. /\ UNCHANGED <<table, request, got, arrived, seen>>
      /\ res' = [c \in Clients |-> IF c \in D THEN Nil ELSE res[c]]
  BY DEF Destroy, webapp, client
<1> QED BY <1>1, DroppingKeeps

LEMMA WebInitRight == ASSUME WebInit PROVE WebInv
<1>1. WebTypes
  BY DEF WebInit, WebTypes
<1>2. Dispatched
  BY DEF WebInit, Dispatched
<1> QED BY <1>1, <1>2 DEF WebInv

(* Every step keeps the invariant.                                         *)
LEMMA WebStep == WebInv /\ [WebNext]_webVars => WebInv'
<1> SUFFICES ASSUME WebInv, [WebNext]_webVars PROVE WebInv'
  OBVIOUS
<1>1. CASE UNCHANGED webVars
  <2>1. WebQuiet
    BY <1>1 DEF webVars, server, webapp, client, handler, WebQuiet
  <2> QED BY <2>1, WebQuietKeeps
<1>2. CASE Spin \/ StopServer \/ Interrupt
  BY <1>2, WebQuietSteps, WebQuietKeeps
<1>3. CASE Destroy
  BY <1>3, DestroyKeeps
<1>4. ASSUME NEW c \in Clients,
             Connect(c) \/ Receive(c) \/ HangUp(c) \/ Handshake(c) \/ Unblock(c) \/ HandlerReturns(c)
      PROVE  WebInv'
  BY <1>4, WebQuietSteps, WebQuietKeeps
<1>5. ASSUME NEW c \in Clients, Deliver(c) PROVE WebInv'
  BY <1>5, DeliverKeeps
<1>6. ASSUME NEW c \in Clients, ReadRequest(c) PROVE WebInv'
  BY <1>6, ReadRequestKeeps
<1>7. ASSUME NEW c \in Clients, Write(c) PROVE WebInv'
  BY <1>7, WriteKeeps
<1> QED BY <1>1, <1>2, <1>3, <1>4, <1>5, <1>6, <1>7 DEF WebNext, Serve

(* Whatever routes an app registers, mounts and in which order, and        *)
(* however requests are cut into chunks: each is answered by the first     *)
(* route that was registered for it, once it is there as long as its       *)
(* Content-Length says (netapp.cpp:706-764, :924-954).                     *)
THEOREM RequestsDispatched == WebSpec => []Dispatched
<1>1. WebInit => WebInv
  BY WebInitRight
<1>2. WebInv => Dispatched
  BY DEF WebInv
<1> QED BY <1>1, <1>2, WebStep, PTL DEF WebSpec

=============================================================================
