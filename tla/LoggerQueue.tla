---------------------------- MODULE LoggerQueue ----------------------------
(***************************************************************************)
(* rm::Logger::Impl: threads push records into a bounded queue, a worker   *)
(* thread writes them to a sink and now and then flushes the sink, and     *)
(* flush() waits until everything is persisted.  Every action is one       *)
(* critical section of Impl::mutex, from a lock or wake-up to the next     *)
(* unlock or wait.  Waiting on a condition variable is modelled as such: a *)
(* thread that sleeps looks at its condition again only when notified.     *)
(*                                                                         *)
(* A record is its size; the level filter comes before all this and is     *)
(* left out.                                                               *)
(***************************************************************************)
EXTENDS Integers, Sequences, FiniteSets, SequencesExt

CONSTANTS
  Threads,    (* the threads that log and flush                            *)
  Sizes,      (* the sizes a record can have                               *)
  MaxMemory,  (* LoggerOptions::max_queue_memory (0: no limit)             *)
  FlushLimit, (* LoggerOptions::queue_memory_limit                         *)
  Policies,   (* the policies used                                         *)
  Failing,    (* what may fail: a subset of {"write", "flush"}             *)
  MaxPushes,  (* bound on the records                                      *)
  MaxFlushes  (* bound on the calls of flush()                             *)

LoggerAssumptions ==
  /\ Sizes \subseteq Nat \ {0}
  /\ MaxMemory \in Nat /\ FlushLimit \in Nat \ {0}
  /\ Policies \subseteq {"Block", "DropNewest", "DropOldest"}
  /\ Failing \subseteq {"write", "flush"}
  /\ MaxPushes \in Nat /\ MaxFlushes \in Nat

ASSUME LoggerAssumption == LoggerAssumptions

VARIABLES
  queue,    (* Impl::queue, as record numbers                              *)
  queued,   (* Impl::queued_bytes                                          *)
  pending,  (* Impl::pending_bytes                                         *)
  stopping, (* Impl::stopping                                              *)
  force,    (* Impl::force_flush                                           *)
  dropped,  (* Impl::dropped_logs                                          *)
  errors,   (* Impl::backend_errors                                        *)
  wpc,      (* what the worker does; Impl::writing is "write" or "flush"   *)
  entry,    (* the record the worker is writing, 0 if none                 *)
  due,      (* the flush interval has passed                               *)
  timedOut, (* timed_out of run()                                          *)
  pc,       (* pc[t] : what thread t does                                  *)
  arg,      (* arg[t] : the size of the record t pushes                    *)
  before,   (* history : before[t], the records when t called flush()      *)
  policy,   (* LoggerOptions::overflow_policy                              *)
  flushes,  (* history : the calls of flush()                              *)
  size,     (* history : size[n], the size of record n                     *)
  fate      (* history : fate[n], where record n is                        *)

worker == <<wpc, entry, timedOut>>
history == <<size, fate>>
logVars == <<queue, queued, pending, stopping, force, dropped, errors, worker, due,
             pc, arg, before, policy, flushes, history>>

Records == DOMAIN fate

(* The sizes of the records in S, one after another. *)
Sum(S) ==
  LET sum[n \in 0 .. Len(size)] ==
        IF n = 0 THEN 0 ELSE sum[n - 1] + (IF n \in S THEN size[n] ELSE 0)
  IN sum[Len(size)]

Threshold == IF MaxMemory = 0 \/ FlushLimit < MaxMemory THEN FlushLimit ELSE MaxMemory

(* has_space of push(), for a queue of q bytes. *)
HasSpace(q, s) == stopping \/ MaxMemory = 0 \/ q + pending + s <= MaxMemory

(* notify_all on a condition variable: the sleepers of that kind wake up. *)
Notified(kinds) ==
  [t \in Threads |-> IF pc[t] \in kinds
                     THEN CASE pc[t] = "blocked" -> "unblocked"
                            [] pc[t] = "flushing" -> "checking"
                     ELSE pc[t]]

Awake(w) == IF w = "sleep" THEN "awake" ELSE w

LogInit ==
  /\ queue = <<>> /\ queued = 0 /\ pending = 0
  /\ stopping = FALSE /\ force = FALSE
  /\ dropped = 0 /\ errors = 0
  /\ wpc = "sleep" /\ entry = 0 /\ due = FALSE /\ timedOut = FALSE
  /\ pc = [t \in Threads |-> "idle"]
  /\ arg = [t \in Threads |-> 0]
  /\ before = [t \in Threads |-> 0]
  /\ policy \in Policies /\ flushes = 0
  /\ size = <<>> /\ fate = <<>>

-----------------------------------------------------------------------------
(* push(log_level, message) *)

(* Record a record of s bytes, whose fate is f, after those of `gone`. *)
Note(s, f, gone) ==
  /\ size' = Append(size, s)
  /\ fate' = Append([n \in Records |-> IF n \in gone THEN "dropped" ELSE fate[n]], f)

Discard(s) ==
  /\ dropped' = dropped + 1
  /\ Note(s, "dropped", {})
  /\ UNCHANGED <<queue, queued, wpc>>

(* Faulty variants: the bytes of the dropped records stay counted; the new *)
(* record overtakes the others.                                            *)
EnqueueLeaks(s, k) ==
  LET gone == {queue[i] : i \in 1 .. k} IN
  /\ queue' = Append(SubSeq(queue, k + 1, Len(queue)), Len(fate) + 1)
  /\ queued' = queued + s
  /\ dropped' = dropped + k
  /\ wpc' = Awake(wpc)
  /\ Note(s, "queued", gone)

EnqueueFirst(s, k) ==
  LET gone == {queue[i] : i \in 1 .. k} IN
  /\ queue' = <<Len(fate) + 1>> \o SubSeq(queue, k + 1, Len(queue))
  /\ queued' = queued - Sum(gone) + s
  /\ dropped' = dropped + k
  /\ wpc' = Awake(wpc)
  /\ Note(s, "queued", gone)

(* Enqueue behind the records left by dropping the first k, and wake the   *)
(* worker.                                                                 *)
Enqueue(s, k) ==
  LET gone == {queue[i] : i \in 1 .. k} IN
  /\ queue' = Append(SubSeq(queue, k + 1, Len(queue)), Len(fate) + 1)
  /\ queued' = queued - Sum(gone) + s
  /\ dropped' = dropped + k
  /\ wpc' = Awake(wpc)
  /\ Note(s, "queued", gone)

(* How many of the oldest records make room for s bytes when dropped: the  *)
(* fewest that are enough, or all.                                         *)
Victims(s) ==
  CHOOSE k \in 0 .. Len(queue) :
    /\ k = Len(queue) \/ HasSpace(queued - Sum({queue[i] : i \in 1 .. k}), s)
    /\ \A j \in 0 .. k - 1 : ~HasSpace(queued - Sum({queue[i] : i \in 1 .. j}), s)

(* Even an empty queue has no room: everything in it is dropped, and the   *)
(* new record too.                                                         *)
DropAll(s) ==
  /\ queue' = <<>>
  /\ queued' = queued - Sum(Range(queue))
  /\ dropped' = dropped + Len(queue) + 1
  /\ Note(s, "dropped", Range(queue))
  /\ UNCHANGED wpc

Oversize(s) == MaxMemory # 0 /\ s > MaxMemory

PushStarts(t) ==
  /\ pc[t] = "idle"
  /\ ~stopping
  /\ Len(fate) + Cardinality({u \in Threads : pc[u] \in {"blocked", "unblocked"}}) < MaxPushes

(* push() under DropNewest and DropOldest, and any push that need not wait. *)
Push(t, s) ==
  /\ PushStarts(t)
  /\ \/ Oversize(s) /\ Discard(s)
     \/ ~Oversize(s) /\ HasSpace(queued, s) /\ Enqueue(s, 0)
     \/ /\ ~Oversize(s) /\ ~HasSpace(queued, s)
        /\ \/ policy = "DropNewest" /\ Discard(s)
           \/ /\ policy = "DropOldest"
              /\ LET k == Victims(s) IN
                   IF HasSpace(queued - Sum({queue[i] : i \in 1 .. k}), s)
                   THEN Enqueue(s, k) ELSE DropAll(s)
  /\ UNCHANGED <<pending, stopping, force, errors, entry, timedOut, due, pc, arg, before, policy, flushes>>

(* push() under Block: no room, so wait on space_cv. *)
PushBlocks(t, s) ==
  /\ PushStarts(t)
  /\ policy = "Block"
  /\ ~Oversize(s) /\ ~HasSpace(queued, s)
  /\ pc' = [pc EXCEPT ![t] = "blocked"]
  /\ arg' = [arg EXCEPT ![t] = s]
  /\ UNCHANGED <<queue, queued, pending, stopping, force, dropped, errors, worker, due,
                 before, policy, flushes, history>>

(* Notified: stop, go on or wait again. *)
PushResumes(t) ==
  /\ pc[t] = "unblocked"
  /\ \/ /\ stopping
        /\ Note(arg[t], "refused", {})
        /\ pc' = [pc EXCEPT ![t] = "idle"]
        /\ arg' = [arg EXCEPT ![t] = 0]
        /\ UNCHANGED <<queue, queued, dropped, wpc>>
     \/ /\ ~stopping /\ HasSpace(queued, arg[t])
        /\ Enqueue(arg[t], 0)
        /\ pc' = [pc EXCEPT ![t] = "idle"]
        /\ arg' = [arg EXCEPT ![t] = 0]
     \/ /\ ~stopping /\ ~HasSpace(queued, arg[t])
        /\ pc' = [pc EXCEPT ![t] = "blocked"]
        /\ UNCHANGED <<arg, queue, queued, dropped, wpc, history>>
  /\ UNCHANGED <<pending, stopping, force, errors, entry, timedOut, due, before, policy, flushes>>

-----------------------------------------------------------------------------
(* flush() *)

Persisted == queue = <<>> /\ pending = 0 /\ wpc \notin {"write", "flush"}

FlushStarts(t) ==
  /\ pc[t] = "idle"
  /\ ~stopping
  /\ flushes < MaxFlushes
  /\ force' = TRUE
  /\ wpc' = Awake(wpc)
  /\ pc' = [pc EXCEPT ![t] = "flushing"]
  /\ before' = [before EXCEPT ![t] = Len(fate)]
  /\ flushes' = flushes + 1
  /\ UNCHANGED <<queue, queued, pending, stopping, dropped, errors, entry, timedOut, due, arg,
                 policy, history>>

(* Faulty variant: does not mind a record that is with the sink. *)
FlushResumesEarly(t) ==
  /\ pc[t] = "checking"
  /\ pc' = [pc EXCEPT ![t] = IF queue = <<>> /\ pending = 0 /\ ~force
                             THEN "idle" ELSE "flushing"]
  /\ before' = [before EXCEPT ![t] = IF pc'[t] = "idle" THEN 0 ELSE @]
  /\ UNCHANGED <<queue, queued, pending, stopping, force, dropped, errors, worker, due,
                 arg, policy, flushes, history>>

(* Notified: return or wait again. *)
FlushResumes(t) ==
  /\ pc[t] = "checking"
  /\ pc' = [pc EXCEPT ![t] = IF Persisted /\ ~force THEN "idle" ELSE "flushing"]
  /\ before' = [before EXCEPT ![t] = IF pc'[t] = "idle" THEN 0 ELSE @]
  /\ UNCHANGED <<queue, queued, pending, stopping, force, dropped, errors, worker, due,
                 arg, policy, flushes, history>>

(* The destructor; threads blocked in push() are sent away, and no other   *)
(* call may be in progress.                                                *)
StopLogger ==
  /\ ~stopping
  /\ \A t \in Threads : pc[t] \in {"idle", "blocked", "unblocked"}
  /\ stopping' = TRUE
  /\ force' = TRUE
  /\ wpc' = Awake(wpc)
  /\ pc' = Notified({"blocked"})
  /\ UNCHANGED <<queue, queued, pending, dropped, errors, entry, timedOut, due,
                 arg, before, policy, flushes, history>>

-----------------------------------------------------------------------------
(* run() *)

(* The flush interval passes. *)
Tick ==
  /\ ~due
  /\ wpc # "done"
  /\ due' = TRUE
  /\ wpc' = Awake(wpc)
  /\ UNCHANGED <<queue, queued, pending, stopping, force, dropped, errors, entry, timedOut,
                 pc, arg, before, policy, flushes, history>>

(* Take the first record, tell the blocked threads and unlock to write it. *)
PopNext ==
  /\ queue # <<>>
  /\ entry' = Head(queue)
  /\ queue' = Tail(queue)
  /\ queued' = queued - size[Head(queue)]
  /\ wpc' = "write"

(* The end of the loop's body, with an empty queue: `to` is timed_out,     *)
(* `left` the pending bytes, d what due is now.                            *)
EndRound(to, left, d) ==
  /\ due' = (d /\ ~to)
  /\ force' = FALSE
  /\ wpc' = IF stopping /\ left = 0 THEN "done" ELSE IF due' THEN "awake" ELSE "sleep"
  /\ entry' = 0
  /\ timedOut' = FALSE

(* The queue is empty: flush the sink, or go to sleep. *)
Settle(left) ==
  /\ queue = <<>>
  /\ UNCHANGED <<queue, queued>>
  /\ IF left # 0 /\ (force \/ stopping \/ due \/ left >= Threshold)
     THEN /\ wpc' = "flush" /\ entry' = 0 /\ timedOut' = due
          /\ UNCHANGED <<due, force, pc>>
     ELSE /\ EndRound(due, left, due)
          /\ pc' = IF force \/ left = 0 THEN Notified({"flushing"}) ELSE pc

WorkerWakes ==
  /\ wpc = "awake"
  /\ \/ /\ stopping \/ force \/ due
        /\ Settle(pending)
        /\ UNCHANGED fate
     \/ /\ PopNext
        /\ pc' = Notified({"blocked"})
        /\ fate' = [fate EXCEPT ![Head(queue)] = "writing"]
        /\ UNCHANGED <<due, force, timedOut>>
     \/ /\ queue = <<>> /\ ~stopping /\ ~force /\ ~due
        /\ wpc' = "sleep"
        /\ UNCHANGED <<queue, queued, entry, timedOut, due, force, pc, fate>>
  /\ UNCHANGED <<pending, stopping, dropped, errors, arg, before, policy, flushes, size>>

(* The sink has written the record, or not; the loop takes the next one or *)
(* settles, without unlocking.                                             *)
WriteDone(ok) ==
  /\ wpc = "write"
  /\ ok \/ "write" \in Failing
  /\ errors' = IF ok THEN errors ELSE errors + 1
  /\ LET left == IF ok THEN pending + size[entry] ELSE pending
         f == [fate EXCEPT ![entry] = IF ok THEN "written" ELSE "failed"] IN
       /\ pending' = left
       /\ \/ /\ Settle(left)
             /\ fate' = f
          \/ /\ PopNext
             /\ pc' = Notified({"blocked"})
             /\ fate' = [f EXCEPT ![Head(queue)] = "writing"]
             /\ UNCHANGED <<due, force, timedOut>>
  /\ UNCHANGED <<stopping, dropped, arg, before, policy, flushes, size>>

(* Faulty variant: ends the loop without looking at the queue again. *)
FlushDoneEnds(ok) ==
  /\ wpc = "flush"
  /\ ok \/ "flush" \in Failing
  /\ errors' = IF ok THEN errors ELSE errors + 1
  /\ pending' = 0
  /\ EndRound(timedOut, 0, due)
  /\ pc' = Notified({"blocked", "flushing"})
  /\ fate' = [n \in Records |-> IF fate[n] # "written" THEN fate[n] ELSE "persisted"]
  /\ UNCHANGED <<queue, queued, stopping, dropped, arg, before, policy, flushes, size>>

(* The sink has flushed what was written to it, or not; the threads that   *)
(* are in one of the states `who` are told.                                *)
FlushEnds(ok, who) ==
  /\ wpc = "flush"
  /\ ok \/ "flush" \in Failing
  /\ errors' = IF ok THEN errors ELSE errors + 1
  /\ pending' = 0
  /\ LET f == [n \in Records |-> IF fate[n] # "written" THEN fate[n]
                                 ELSE IF ok THEN "persisted" ELSE "failed"] IN
       \/ /\ queue = <<>>
          /\ EndRound(timedOut, 0, due)
          /\ pc' = Notified(who)
          /\ fate' = f
          /\ UNCHANGED <<queue, queued>>
       \/ /\ PopNext
          /\ due' = (due /\ ~timedOut)
          /\ force' = FALSE
          /\ timedOut' = FALSE
          /\ pc' = Notified(IF force THEN who \cup {"blocked"} ELSE {"blocked"})
          /\ fate' = [f EXCEPT ![Head(queue)] = "writing"]
  /\ UNCHANGED <<stopping, dropped, arg, before, policy, flushes, size>>

(* Faulty variant: the blocked threads are not told. *)
FlushDoneQuiet(ok) == FlushEnds(ok, {"flushing"})

FlushDone(ok) == FlushEnds(ok, {"blocked", "flushing"})

WorkerStep == WorkerWakes \/ (\E ok \in BOOLEAN : WriteDone(ok) \/ FlushDone(ok))

ThreadStep(t) == PushResumes(t) \/ FlushResumes(t)

LogNext ==
  \/ \E t \in Threads :
       \/ \E s \in Sizes : Push(t, s) \/ PushBlocks(t, s)
       \/ FlushStarts(t)
       \/ ThreadStep(t)
  \/ StopLogger \/ Tick \/ WorkerStep

LogSpec == LogInit /\ [][LogNext]_logVars

(* The worker and the threads in a call are scheduled, and the sink        *)
(* answers.                                                                *)
Scheduled == WF_logVars(WorkerStep) /\ \A t \in Threads : WF_logVars(ThreadStep(t))

(* Time passes, too. *)
LogFairSpec == LogSpec /\ Scheduled /\ WF_logVars(Tick)

-----------------------------------------------------------------------------
(* Properties *)

(* Every variable has a value of its type; the byte counters never go      *)
(* below zero, in particular not when several records are dropped at once  *)
(* (logger_impl.cpp:214-227).                                              *)
LogTypeOK ==
  /\ queue \in Seq(Records)
  /\ queued \in Nat /\ pending \in Nat /\ dropped \in Nat /\ errors \in Nat
  /\ stopping \in BOOLEAN /\ force \in BOOLEAN /\ due \in BOOLEAN /\ timedOut \in BOOLEAN
  /\ policy \in Policies
  /\ wpc \in {"sleep", "awake", "write", "flush", "done"}
  /\ entry \in {0} \cup Records
  /\ pc \in [Threads -> {"idle", "blocked", "unblocked", "flushing", "checking"}]
  /\ arg \in [Threads -> {0} \cup Sizes]
  /\ before \in [Threads -> 0 .. Len(fate)]
  /\ size \in Seq(Sizes) /\ Len(size) = Len(fate)
  /\ fate \in Seq({"queued", "writing", "written", "persisted", "dropped", "failed", "refused"})

With(f) == {n \in Records : fate[n] = f}

(* The three counters say where every record went: the bytes queued, the   *)
(* bytes written and not yet flushed, and the records dropped; and under   *)
(* Block nothing is dropped but what could never fit.  When the worker has *)
(* ended, every record is persisted, dropped, refused or has failed:       *)
(* "waits for the worker and persists the remaining records"               *)
(* (logger.hpp:293; logger_impl.cpp:201, :214-227, :300, :311, :324).      *)
Counted ==
  /\ queued = Sum(With("queued"))
  /\ pending = Sum(With("written"))
  /\ dropped = Cardinality(With("dropped"))
  /\ Range(queue) = With("queued")
  /\ policy = "Block" => \A n \in With("dropped") : size[n] > MaxMemory
  /\ wpc = "done" => \A f \in {"queued", "writing", "written"} : With(f) = {}

(* Records reach the sink in the order in which they were accepted, each   *)
(* once: an accepted record is never overtaken (logger_impl.cpp:298, :228).*)
InOrder ==
  /\ \A i, j \in 1 .. Len(queue) : i < j => queue[i] < queue[j]
  /\ \A m, n \in Records :
       m < n /\ fate[m] = "queued" => fate[n] \in {"queued", "dropped", "refused"}

(* Nothing is lost, counted twice or overtaken on its way from push() to   *)
(* the sink.                                                               *)
Accounts == Counted /\ InOrder

(* When flush() returns, every record pushed before the call is persisted, *)
(* dropped or reported as failed (logger_impl.cpp:237).                    *)
FlushPersists ==
  [][\A t \in Threads :
       pc[t] = "checking" /\ pc'[t] = "idle" =>
         \A n \in 1 .. before[t] : fate[n] \in {"persisted", "dropped", "failed"}]_logVars

(* flush() returns once the threads stop pushing; a blocked push() gets    *)
(* room, or is sent away by the destructor; and the destructor, which      *)
(* joins the worker, returns (logger_impl.cpp:209, :243, :270).            *)
CallsReturn ==
  /\ \A t \in Threads : pc[t] # "idle" ~> pc[t] = "idle"
  /\ stopping ~> wpc = "done"

=============================================================================
