------------------------------ MODULE EventLoop ------------------------------
(***************************************************************************)
(* rm::async::IOContext on Linux: run() resumes the coroutines that were   *)
(* spawned, then, for ever, those whose descriptors epoll_wait() reports.  *)
(* A coroutine that awaits a descriptor registers its handle for it in     *)
(* epoll; a Timer arms its timerfd besides.  stop() may come from another  *)
(* thread, or from a coroutine.                                            *)
(*                                                                         *)
(* A task stands for the coroutine passed to spawn() together with its     *)
(* wrapper (spawn_task), which only awaits it.  What a coroutine does      *)
(* while it runs is left open: it spawns, stops, awaits, returns or throws.*)
(***************************************************************************)
EXTENDS Naturals, SequencesExt

CONSTANTS
  Tasks,    (* the tasks that are ever spawned: the bound of the model      *)
  Streams,  (* the descriptors of sockets, pipes and signals                *)
  Timers,   (* the timerfds                                                 *)
  Wakeup,   (* _wakeup, the eventfd of stop()                               *)
  Stoppers, (* the threads that call stop(), once each                      *)
  None

Fds == Streams \cup Timers \cup {Wakeup}

ASSUME DistinctAssumption ==
  /\ Wakeup \notin Streams \cup Timers /\ None \notin Tasks \cup Fds
  /\ Streams \cap Timers = {}

VARIABLES
  running,   (* _running                                                    *)
  where,     (* where run() is                                              *)
  ready,     (* _ready                                                      *)
  unfinish,  (* unfinish of run(), without the wrappers that have ended     *)
  entered,   (* a task has been put into unfinish: it is never empty again  *)
  state,     (* state[t] : the life of the coroutine of task t              *)
  awaits,    (* awaits[t] : the descriptor that t awaits                    *)
  current,   (* the coroutine that runs                                     *)
  events,    (* events[f] : the handle that epoll_wait has returned for f   *)
  reg,       (* reg[f] : the handle registered in epoll for f               *)
  fd,        (* fd[f] : whether f is ready; a timerfd may be armed          *)
  displaced, (* history: the sleepers that lost their timer to another one  *)
  stopper    (* stopper[s] : where thread s is in stop()                    *)

loop == <<running, where, ready, unfinish, entered>>
tasks == <<state, awaits, current>>
kernel == <<events, reg, fd>>
vars == <<loop, tasks, kernel, displaced, stopper>>

Init ==
  /\ running = FALSE /\ where = "idle"
  /\ ready = <<>> /\ unfinish = {} /\ entered = FALSE
  /\ state = [t \in Tasks |-> "unborn"]
  /\ awaits = [t \in Tasks |-> None] /\ current = None
  /\ events = <<>>
  /\ reg = [f \in Fds |-> None] /\ fd = [f \in Fds |-> "quiet"]
  /\ displaced = {} /\ stopper = [s \in Stoppers |-> "before"]

(* A coroutine runs, and is not in the middle of await_resume().            *)
Executing == current # None /\ awaits[current] = None

Waiting(t, f) == state[t] = "suspended" /\ awaits[t] = f

-----------------------------------------------------------------------------
(* Outside of run() *)

(* A context is run again only if the last run() has left nothing in epoll: *)
(* what it left there are handles of coroutines that it has destroyed.     *)
Idle ==
  \/ where = "idle"
  \/ where = "returned" /\ \A f \in Fds : reg[f] = None

(* What arrives on a descriptor; the time that a timer was set to.         *)
Arrive(f) ==
  /\ fd[f] = IF f \in Timers THEN "armed" ELSE "quiet"
  /\ fd' = [fd EXCEPT ![f] = "ready"]
  /\ UNCHANGED <<loop, tasks, events, reg, displaced, stopper>>

(* spawn(), by a coroutine, or by the thread that is going to call run().  *)
Spawn(t) ==
  /\ state[t] = "unborn"
  /\ Idle \/ Executing
  /\ state' = [state EXCEPT ![t] = "spawned"]
  /\ ready' = Append(ready, t)
  /\ UNCHANGED <<running, where, unfinish, entered, awaits, current, kernel, displaced, stopper>>

(* stop(): the flag, then the eventfd.                                     *)
StopStore(s) ==
  /\ stopper[s] = "before"
  /\ running' = FALSE
  /\ stopper' = [stopper EXCEPT ![s] = "write"]
  /\ UNCHANGED <<where, ready, unfinish, entered, tasks, kernel, displaced>>

StopWrite(s) ==
  /\ stopper[s] = "write"
  /\ fd' = [fd EXCEPT ![Wakeup] = "ready"]
  /\ stopper' = [stopper EXCEPT ![s] = "done"]
  /\ UNCHANGED <<loop, tasks, events, reg, displaced>>

(* Faulty variant: the eventfd, then the flag.                             *)
StopSwapped ==
  \E s \in Stoppers :
    \/ /\ stopper[s] = "before"
       /\ fd' = [fd EXCEPT ![Wakeup] = "ready"]
       /\ stopper' = [stopper EXCEPT ![s] = "write"]
       /\ UNCHANGED <<loop, tasks, events, reg, displaced>>
    \/ /\ stopper[s] = "write"
       /\ running' = FALSE
       /\ stopper' = [stopper EXCEPT ![s] = "done"]
       /\ UNCHANGED <<where, ready, unfinish, entered, tasks, kernel, displaced>>

Stop == \E s \in Stoppers : StopStore(s) \/ StopWrite(s)

-----------------------------------------------------------------------------
(* run() *)

Run ==
  /\ Idle
  /\ running' = TRUE /\ where' = "top" /\ entered' = FALSE
  /\ UNCHANGED <<ready, unfinish, tasks, kernel, displaced, stopper>>

(* The tasks of unfinish are destroyed when run() returns.                 *)
Top ==
  /\ where = "top"
  /\ \/ running /\ where' = "drain" /\ UNCHANGED <<unfinish, state>>
     \/ /\ ~running /\ where' = "returned" /\ unfinish' = {}
        /\ state' = [t \in Tasks |-> IF t \in unfinish THEN "destroyed" ELSE state[t]]
  /\ UNCHANGED <<running, ready, entered, awaits, current, kernel, displaced, stopper>>

ResumeReady ==
  /\ where = "drain" /\ current = None /\ ready # <<>>
  /\ current' = Head(ready)
  /\ state' = [state EXCEPT ![Head(ready)] = "running"]
  /\ ready' = Tail(ready)
  /\ UNCHANGED <<running, where, unfinish, entered, awaits, kernel, displaced, stopper>>

Reported == {f \in Fds : fd[f] = "ready" /\ (f = Wakeup \/ reg[f] # None)}

(* It does not wait as long as no task is in unfinish; fewer than          *)
(* MAX_EVENTS descriptors are ready.                                       *)
EpollWait ==
  /\ where = "drain" /\ current = None /\ ready = <<>>
  /\ entered => Reported # {}
  /\ events' = [f \in Reported |-> reg[f]]
  /\ where' = "events"
  /\ UNCHANGED <<running, ready, unfinish, entered, tasks, reg, fd, displaced, stopper>>

Without(f) == [g \in DOMAIN events \ {f} |-> events[g]]

(* The events are taken in any order.                                      *)
Woken ==
  /\ where = "events" /\ current = None /\ Wakeup \in DOMAIN events
  /\ events' = Without(Wakeup)
  /\ fd' = [fd EXCEPT ![Wakeup] = "quiet"]
  /\ UNCHANGED <<loop, tasks, reg, displaced, stopper>>

(* Faulty variant: the descriptor stays in epoll.                          *)
ResumeKept(f) ==
  /\ where = "events" /\ current = None /\ f \in DOMAIN events \ {Wakeup}
  /\ LET t == events[f] IN
       /\ current' = t
       /\ state' = [state EXCEPT ![t] = "running"]
       /\ displaced' = (displaced \cup {u \in Tasks : Waiting(u, awaits[t])}) \ {t}
  /\ events' = Without(f)
  /\ UNCHANGED <<loop, awaits, reg, fd, stopper>>

(* The handle is not a wrapper's, so it is never found in unfinish and is  *)
(* resumed at once; await_resume() first removes the descriptor from epoll.*)
Resume(f) ==
  /\ where = "events" /\ current = None /\ f \in DOMAIN events \ {Wakeup}
  /\ LET t == events[f] IN
       /\ current' = t
       /\ state' = [state EXCEPT ![t] = "running"]
       /\ reg' = [reg EXCEPT ![awaits[t]] = None]
       /\ displaced' = (displaced \cup {u \in Tasks : Waiting(u, awaits[t])}) \ {t}
  /\ events' = Without(f)
  /\ UNCHANGED <<loop, awaits, fd, stopper>>

EventsDone ==
  /\ where = "events" /\ current = None /\ DOMAIN events = {}
  /\ where' = "top"
  /\ UNCHANGED <<running, ready, unfinish, entered, tasks, kernel, displaced, stopper>>

-----------------------------------------------------------------------------
(* The coroutine that runs *)

(* The rest of await_resume(): the read blocks, and may leave something.   *)
Read ==
  /\ current # None /\ awaits[current] # None
  /\ LET f == awaits[current] IN
       /\ fd[f] = "ready"
       /\ fd' \in {[fd EXCEPT ![f] = "quiet"]} \cup (IF f \in Streams THEN {fd} ELSE {})
  /\ awaits' = [awaits EXCEPT ![current] = None]
  /\ UNCHANGED <<loop, state, current, events, reg, displaced, stopper>>

(* Where control goes when the coroutine stops running: a new task is put  *)
(* into unfinish unless it has ended; one that ends later stays there as   *)
(* an ended wrapper.                                                       *)
Leave(s) ==
  /\ state' = [state EXCEPT ![current] = s]
  /\ current' = None
  /\ unfinish' = IF s = "suspended" THEN unfinish \cup {current} ELSE unfinish \ {current}
  /\ entered' = (entered \/ s = "suspended")
  /\ UNCHANGED <<running, where, ready, events, stopper>>

(* co_return, or an exception: reported if the task has never waited, kept *)
(* in the wrapper otherwise.                                               *)
Finish ==
  /\ Executing
  /\ Leave("done")
  /\ UNCHANGED <<awaits, reg, fd, displaced>>

(* Faulty variant: takes the descriptor from whoever waits for it.         *)
AwaitModified(f) ==
  /\ Executing /\ f \in Streams
  /\ reg' = [reg EXCEPT ![f] = current]
  /\ awaits' = [awaits EXCEPT ![current] = f]
  /\ Leave("suspended")
  /\ UNCHANGED <<fd, displaced>>

(* await_suspend() of a read, a write or a signal: a descriptor that is    *)
(* registered is refused with an exception, after which the coroutine may  *)
(* go on (a step that changes nothing).                                    *)
Await(f) ==
  /\ Executing /\ f \in Streams /\ reg[f] = None
  /\ reg' = [reg EXCEPT ![f] = current]
  /\ awaits' = [awaits EXCEPT ![current] = f]
  /\ Leave("suspended")
  /\ UNCHANGED <<fd, displaced>>

(* await_suspend() of a timer, which takes it from whoever sleeps on it.   *)
Sleep(f) ==
  /\ Executing /\ f \in Timers
  /\ reg' = [reg EXCEPT ![f] = current]
  /\ fd' = [fd EXCEPT ![f] = "armed"]
  /\ awaits' = [awaits EXCEPT ![current] = f]
  /\ displaced' = displaced \cup {u \in Tasks : Waiting(u, f)}
  /\ Leave("suspended")

(* stop(), by the coroutine itself.                                        *)
StopInside ==
  /\ Executing
  /\ running' = FALSE
  /\ fd' = [fd EXCEPT ![Wakeup] = "ready"]
  /\ UNCHANGED <<where, ready, unfinish, entered, tasks, events, reg, displaced, stopper>>

-----------------------------------------------------------------------------
Coroutine == Read \/ Finish \/ \E f \in Fds : Await(f) \/ Sleep(f)

Loop == Top \/ ResumeReady \/ EpollWait \/ Woken \/ EventsDone \/ \E f \in Fds : Resume(f)

Next ==
  \/ \E f \in Streams \cup Timers : Arrive(f)
  \/ \E t \in Tasks : Spawn(t)
  \/ Run \/ Loop \/ Coroutine \/ StopInside
  \/ Stop

(* The loop and its coroutines go on, and so does a thread that has begun  *)
(* to stop; a timer that is set expires.                                   *)
Fairness ==
  /\ WF_vars(Loop \/ Coroutine)
  /\ \A s \in Stoppers : WF_vars(StopWrite(s))
  /\ \A f \in Timers : WF_vars(Arrive(f))

Spec == Init /\ [][Next]_vars /\ Fairness

-----------------------------------------------------------------------------
(* Properties *)

(* Every variable has a value of its type. *)
TypeOK ==
  /\ running \in BOOLEAN /\ where \in {"idle", "top", "drain", "events", "returned"}
  /\ ready \in Seq(Tasks) /\ unfinish \subseteq Tasks /\ entered \in BOOLEAN
  /\ state \in [Tasks -> {"unborn", "spawned", "running", "suspended", "done", "destroyed"}]
  /\ awaits \in [Tasks -> Streams \cup Timers \cup {None}]
  /\ current \in Tasks \cup {None}
  /\ DOMAIN events \subseteq Fds
  /\ reg \in [Fds -> Tasks \cup {None}]
  /\ fd \in [Fds -> {"quiet", "armed", "ready"}]
  /\ displaced \subseteq Tasks
  /\ stopper \in [Stoppers -> {"before", "write", "done"}]

(* Whoever is resumed is a coroutine that exists and waits for just that   *)
(* descriptor, however many events one epoll_wait() has returned and       *)
(* whatever the coroutines resumed before it have done (async.cpp:330-338),*)
(* and while run() has not returned epoll holds no handle but of these.    *)
ResumesWaiting ==
  /\ \A f \in DOMAIN events \ {Wakeup} : events[f] \in Tasks /\ Waiting(events[f], f)
  /\ where # "returned" => \A f \in Fds : reg[f] # None => Waiting(reg[f], f)

(* A coroutine that waits will be resumed by its descriptor: its handle is *)
(* registered, or among the events; but a timer serves one sleeper, the    *)
(* others have lost it (async.cpp:419, :432).                              *)
NoneForgotten ==
  \A t \in Tasks : state[t] = "suspended" =>
    \/ reg[awaits[t]] = t
    \/ awaits[t] \in DOMAIN events /\ events[awaits[t]] = t
    \/ t \in displaced /\ awaits[t] \in Timers

(* Who waits for what is there goes on (or run() returns), and a stop()    *)
(* that comes after run() has begun makes it return, whether it waits in   *)
(* epoll_wait or not, and whoever calls it (async.cpp:344-348).            *)
Progress ==
  /\ \A f \in Streams \cup Timers :
       reg[f] # None /\ fd[f] = "ready" ~> reg[f] = None \/ fd[f] # "ready" \/ where = "returned"
  /\ where # "idle" /\ ~running ~> where = "returned"

=============================================================================
