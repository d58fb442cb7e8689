--------------------------- MODULE TransformBuffer ---------------------------
(***************************************************************************)
(* rm::lpss::tf::Buffer: a forest of coordinate frames in which every      *)
(* frame but the roots has a pose in its parent, either a static one or a  *)
(* history of poses by time; lookup() composes the poses along the path    *)
(* between two frames.  Its members lock one mutex; a batch locks it again *)
(* for each of its transforms.  Beside the user's thread, the callbacks of *)
(* a Listener, one for each topic, fill the buffer.                        *)
(*                                                                         *)
(* A pose is a member of a group with an interpolation; a history is a     *)
(* function from times to poses.  lookup() changes nothing: it is an       *)
(* operator, and the properties quantify over its arguments.               *)
(***************************************************************************)
EXTENDS Integers, FiniteSets, SequencesExt

CONSTANTS
  Frames,               (* the names of frames                             *)
  Poses,                (* the transforms that can be normalized           *)
  NoPose,               (* one that cannot                                  *)
  Identity,             (* identityTransform()                             *)
  Compose(_, _),        (* operator* of two transforms                     *)
  Inverted(_),          (* inverse()                                       *)
  Between(_, _, _),     (* interpolate(lhs, rhs, time), of two samples     *)
  Inputs,               (* Inputs[c] : the transforms that users pass to   *)
                        (* set, or to setStatic                            *)
  Batches,              (* Batches[c] : the sequences published on topic c *)
  Durations,            (* the cache durations                             *)
  Past                  (* the earliest time, of an int64_t                *)

(* What is not published on tf_static, or set by setStatic, has a history. *)
Topics == {"tf", "tf_static"}

Times == {t \in Int : t >= Past}

(* child has this pose in parent at this time; 0 is the time of a static   *)
(* transform or of a query for the latest one.                             *)
Transforms ==
  [parent : Frames \cup {""}, child : Frames \cup {""}, time : Times, pose : Poses \cup {NoPose}]

ASSUME InputsAssumption ==
  \A c \in Topics : Inputs[c] \subseteq Transforms /\ Batches[c] \subseteq Seq(Inputs[c])
ASSUME DurationsAssumption == Durations \subseteq Nat /\ Durations # {}
ASSUME FramesAssumption == IsFiniteSet(Frames) /\ "" \notin Frames /\ NoPose \notin Poses
ASSUME PastAssumption == Past \in Int /\ Past < 0

VARIABLES
  edges,    (* Impl::edges: the parent, the kind and the poses of a child  *)
  frames,   (* Impl::frames                                                *)
  duration, (* Impl::cache_duration                                        *)
  alive,    (* the Buffer exists                                           *)
  active,   (* ListenerState::_active                                      *)
  holder,   (* the callback that has ListenerState::_mutex, or "none"      *)
  batch,    (* batch[c] : what callback c has not inserted yet             *)
  first,    (* first[c] : the result of set(batch) so far                  *)
  status    (* ListenerState::_status                                      *)

buffer == <<edges, frames, duration>>
listener == <<active, holder, batch, first, status>>
vars == <<buffer, alive, listener>>

Init ==
  /\ edges = <<>> /\ frames = {} /\ duration \in Durations
  /\ alive = TRUE /\ active = TRUE /\ holder = "none"
  /\ batch = [c \in Topics |-> <<>>]
  /\ first = [c \in Topics |-> "Ok"] /\ status = "Ok"

-----------------------------------------------------------------------------
(* The forest *)

(* cacheCutoff, without an overflow. *)
Cutoff(t, d) == IF t < Past + d THEN Past ELSE t - d

(* pruneEdge *)
Pruned(h, d) == [u \in {u \in DOMAIN h : u >= Cutoff(Max(DOMAIN h), d)} |-> h[u]]

(* A set of frames that has the parents of its members. *)
Closed(S) == \A c \in S \cap DOMAIN edges : edges[c].parent \in S

(* The frames that the walk from f towards its root visits. *)
Ancestors(f) == {g \in Frames : \A S \in SUBSET Frames : f \in S /\ Closed(S) => g \in S}

(* Faulty variant: only the parent's parent is looked at. *)
ResultNear(x, static) ==
  IF x.parent = "" \/ x.child = "" \/ x.parent = x.child THEN "InvalidArgument"
  ELSE IF x.pose \notin Poses THEN "InvalidTransform"
  ELSE IF x.child \notin DOMAIN edges
       THEN IF x.parent \in DOMAIN edges /\ edges[x.parent].parent = x.child THEN "CycleDetected" ELSE "Ok"
  ELSE IF edges[x.child].parent # x.parent THEN "MultipleParents"
  ELSE IF edges[x.child].static # static THEN "StaticDynamicConflict"
  ELSE IF ~static /\ x.time < Cutoff(Max(DOMAIN edges[x.child].poses), duration)
       THEN "TimestampOutOfRange"
  ELSE "Ok"

(* What setImpl returns. *)
Result(x, static) ==
  IF x.parent = "" \/ x.child = "" \/ x.parent = x.child THEN "InvalidArgument"
  ELSE IF x.pose \notin Poses THEN "InvalidTransform"
  ELSE IF x.child \notin DOMAIN edges
       THEN IF x.child \in Ancestors(x.parent) THEN "CycleDetected" ELSE "Ok"
  ELSE IF edges[x.child].parent # x.parent THEN "MultipleParents"
  ELSE IF edges[x.child].static # static THEN "StaticDynamicConflict"
  ELSE IF ~static /\ x.time < Cutoff(Max(DOMAIN edges[x.child].poses), duration)
       THEN "TimestampOutOfRange"
  ELSE "Ok"

(* The history of x.child once x is in it. *)
History(x) ==
  LET old == IF x.child \in DOMAIN edges THEN edges[x.child].poses ELSE <<>>
  IN  Pruned([t \in DOMAIN old \cup {x.time} |-> IF t = x.time THEN x.pose ELSE old[t]], duration)

(* setImpl: all of it under the lock, and nothing unless it returns Ok. *)
SetImpl(x, static) ==
  IF Result(x, static) # "Ok" THEN UNCHANGED buffer
  ELSE LET new == [parent |-> x.parent, static |-> static,
                   poses |-> IF static THEN [t \in {0} |-> x.pose] ELSE History(x)]
       IN  /\ edges' = [c \in DOMAIN edges \cup {x.child} |-> IF c = x.child THEN new ELSE edges[c]]
           /\ frames' = frames \cup {x.parent, x.child}
           /\ UNCHANGED duration

-----------------------------------------------------------------------------
(* The user's thread *)

Set(x, c) ==
  /\ alive
  /\ SetImpl(x, c = "tf_static")
  /\ UNCHANGED <<alive, listener>>

SetCacheDuration(d) ==
  /\ alive
  /\ duration' = d
  /\ edges' = [c \in DOMAIN edges |->
                 IF edges[c].static THEN edges[c]
                 ELSE [edges[c] EXCEPT !.poses = Pruned(@, d)]]
  /\ UNCHANGED <<frames, alive, listener>>

Clear ==
  /\ alive
  /\ edges' = <<>> /\ frames' = {}
  /\ UNCHANGED <<duration, alive, listener>>

(* Faulty variant: does not wait for a callback. *)
DeactivateAtOnce ==
  /\ active
  /\ active' = FALSE
  /\ UNCHANGED <<buffer, alive, holder, batch, first, status>>

(* The Listener is destroyed: no callback starts any more. *)
Deactivate ==
  /\ active /\ holder = "none"
  /\ active' = FALSE
  /\ UNCHANGED <<buffer, alive, holder, batch, first, status>>

(* The Buffer must outlive the Listener, and does not outlive it by much. *)
DestroyBuffer ==
  /\ alive /\ ~active
  /\ alive' = FALSE
  /\ edges' = <<>> /\ frames' = {}
  /\ UNCHANGED <<duration, listener>>

-----------------------------------------------------------------------------
(* ListenerState::receive, by the callback of a topic *)

(* A callback that finds the listener inactive returns. *)
Receive(c, b) ==
  /\ holder = "none" /\ active
  /\ holder' = c
  /\ batch' = [batch EXCEPT ![c] = b]
  /\ first' = [first EXCEPT ![c] = "Ok"]
  /\ UNCHANGED <<buffer, alive, active, status>>

InsertNext(c) ==
  /\ holder = c /\ batch[c] # <<>>
  /\ LET x == Head(batch[c]) IN
       /\ SetImpl(x, c = "tf_static")
       /\ first' = [first EXCEPT ![c] = IF @ = "Ok" THEN Result(x, c = "tf_static") ELSE @]
  /\ batch' = [batch EXCEPT ![c] = Tail(@)]
  /\ UNCHANGED <<alive, active, holder, status>>

ReceiveDone(c) ==
  /\ holder = c /\ batch[c] = <<>>
  /\ holder' = "none"
  /\ status' = first[c]
  /\ first' = [first EXCEPT ![c] = "Ok"]
  /\ UNCHANGED <<buffer, alive, active, batch>>

Next ==
  \/ \E d \in Durations : SetCacheDuration(d)
  \/ Clear
  \/ Deactivate \/ DestroyBuffer
  \/ \E c \in Topics :
       \/ \E x \in Inputs[c] : Set(x, c)
       \/ \E b \in Batches[c] : Receive(c, b)
       \/ InsertNext(c) \/ ReceiveDone(c)

Spec == Init /\ [][Next]_vars

-----------------------------------------------------------------------------
(* lookup *)

(* sampleEdge: the pose of a child in its parent, or why there is none. *)
SampleEdge(c, t) ==
  LET h == edges[c].poses
      Sample(u) == [time |-> u, pose |-> h[u]]
      Ok(p) == [status |-> "Ok", pose |-> p]
  IN  IF edges[c].static THEN Ok(h[0])
      ELSE IF t < Min(DOMAIN h) THEN [status |-> "ExtrapolationPast"]
      ELSE IF t > Max(DOMAIN h) THEN [status |-> "ExtrapolationFuture"]
      ELSE IF t \in DOMAIN h THEN Ok(h[t])
      ELSE Ok(Between(Sample(Max({u \in DOMAIN h : u < t})),
                      Sample(Min({u \in DOMAIN h : u > t})), t))

(* The frames from f to its root. *)
Chain(f) ==
  LET up[n \in 1 .. Cardinality(Frames)] ==
        IF n = 1 THEN f
        ELSE LET g == up[n - 1] IN IF g \in DOMAIN edges THEN edges[g].parent ELSE g
      root == Min({n \in DOMAIN up : up[n] \notin DOMAIN edges})
  IN  SubSeq(up, 1, root)

(* The pose of the first frame of a path in the frame above the last one.  *)
Along(path, q) ==
  FoldLeft(LAMBDA pose, c : Compose(SampleEdge(c, q).pose, pose), Identity, path)

Histories(moving) == {DOMAIN edges[c].poses : c \in moving}

(* Faulty variant: the latest time of any history. *)
LatestOfAny(moving) == Max({Max(h) : h \in Histories(moving)})

(* The latest time that the histories have in common, if they have one.    *)
LatestCommon(moving) == Min({Max(h) : h \in Histories(moving)})

EarliestCommon(moving) == Max({Min(h) : h \in Histories(moving)})

(* The rest of lookup, once the two paths to the common frame are known.   *)
Composed(sources, targets, t) ==
  LET path == sources \o targets
      moving == {c \in ToSet(path) : ~edges[c].static}
      query == IF t # 0 \/ moving = {} THEN t ELSE LatestCommon(moving)
      failing == {n \in DOMAIN path : SampleEdge(path[n], query).status # "Ok"}
  IN  IF t = 0 /\ moving # {} /\ LatestCommon(moving) < EarliestCommon(moving)
      THEN [status |-> "NoCommonTime"]
      ELSE IF failing # {} THEN [status |-> SampleEdge(path[Min(failing)], query).status]
      ELSE [status |-> "Ok", stamp |-> query,
            pose |-> Compose(Inverted(Along(targets, query)), Along(sources, query))]

Lookup(target, source, t) ==
  LET up == Chain(source)
      down == Chain(target)
      common == {n \in DOMAIN down : down[n] \in ToSet(up)}
      d == Min(common)
      u == CHOOSE n \in DOMAIN up : up[n] = down[d]
  IN  IF ~({target, source} \subseteq frames) THEN [status |-> "FrameNotFound"]
      ELSE IF target = source THEN [status |-> "Ok", stamp |-> t, pose |-> Identity]
      ELSE IF common = {} THEN [status |-> "ConnectivityError"]
      ELSE Composed(SubSeq(up, 1, u - 1), SubSeq(down, 1, d - 1), t)

-----------------------------------------------------------------------------
(* Properties *)

(* Every variable has a value of its type, and a callback is in receive()  *)
(* while it holds the mutex of the listener.                               *)
Typed(e) ==
  /\ e = [parent |-> e.parent, static |-> e.static, poses |-> e.poses]
  /\ e.parent \in Frames /\ e.static \in BOOLEAN
  /\ DOMAIN e.poses \subseteq Times
  /\ \A t \in DOMAIN e.poses : e.poses[t] \in Poses

TypeOK ==
  /\ DOMAIN edges \subseteq Frames
  /\ \A c \in DOMAIN edges : Typed(edges[c])
  /\ frames \subseteq Frames /\ duration \in Durations
  /\ alive \in BOOLEAN /\ active \in BOOLEAN /\ holder \in Topics \cup {"none"}
  /\ batch \in [Topics -> Seq(Transforms)]
  /\ \A c \in Topics : holder # c => batch[c] = <<>>

(* The frames are a forest: every set of frames has one whose parent is    *)
(* outside, so the walks of setImpl and lookup towards a root end; they    *)
(* are the frames that lookup knows.                                       *)
Forest ==
  /\ \A c \in DOMAIN edges : {c, edges[c].parent} \subseteq frames
  /\ \A S \in SUBSET Frames :
       S # {} => \E c \in S : c \in DOMAIN edges => edges[c].parent \notin S

(* A history is never empty, and never longer than the cache duration.     *)
InWindow(h, d) ==
  /\ IsFiniteSet(h)
  /\ \E t \in h : \A u \in h : u <= t /\ u >= Cutoff(t, d)

Window ==
  \A c \in DOMAIN edges :
    LET h == DOMAIN edges[c].poses
    IN  IF edges[c].static THEN h = {0} ELSE InWindow(h, duration)

(* What lookup takes for granted, in whatever order transforms come, are   *)
(* refused or expire: its walks end (transform.cpp:373-402) and it may     *)
(* call front() and back() of a history (:191-193, :412-413).              *)
Sound == Forest /\ Window

(* The callbacks work on the buffer while it exists only: the destructor   *)
(* of the listener waits for the one that is at it (transform.cpp:545-548).*)
NoLateUse == holder # "none" => alive

(* Lookups agree with each other.  At one time, the pose of a child in its *)
(* parent is the one that was set, and by way of any third frame the       *)
(* result is the same (transform.cpp:427-446).  The time 0 asks for the    *)
(* latest time at which a lookup succeeds, "the latest common time of all  *)
(* dynamic edges of the path" (transform.hpp:107), and there is            *)
(* NoCommonTime, and no other failure but of connectivity, only if it      *)
(* succeeds at no time.                                                    *)
LookupsAgree ==
  LET times == {x.time : x \in Inputs["tf"]}
      pairs == frames \X frames
      at == [q \in times \cup {0} |-> [p \in pairs |-> Lookup(p[1], p[2], q)]]
      ok == [q \in times |-> {p \in pairs : at[q][p].status = "Ok"}]
  IN  /\ \A q \in times :
           /\ \A p \in ok[q], f \in frames : <<p[2], f>> \in ok[q] =>
                at[q][p[1], f].pose = Compose(at[q][p].pose, at[q][p[2], f].pose)
           /\ \A c \in DOMAIN edges : ~edges[c].static /\ q \in DOMAIN edges[c].poses =>
                at[q][edges[c].parent, c] = [status |-> "Ok", stamp |-> q, pose |-> edges[c].poses[q]]
      /\ \A p \in pairs :
           LET zero == at[0][p]
               good == {q \in times : p \in ok[q]}
           IN  /\ zero.status \notin {"ExtrapolationPast", "ExtrapolationFuture"}
               /\ zero.status = "NoCommonTime" => good = {}
               /\ zero.status = "Ok" =>
                    IF zero.stamp = 0 THEN \A q \in times : at[q][p] = [zero EXCEPT !.stamp = q]
                    ELSE zero.stamp = Max(good) /\ zero = at[zero.stamp][p]

=============================================================================
