-------------------------------- MODULE Robot --------------------------------
(***************************************************************************)
(* rm::lpss::RobotPlanner and rm::lpss::RobotController: a kinematic tree  *)
(* read from a URDF file, the poses of its links, trajectories planned for *)
(* joints or for the pose of a link, and a controller that is handed a     *)
(* trajectory and samples it by time for the joints it controls, in its    *)
(* own order.  The control law is UnitTF with the position mapping.        *)
(*                                                                         *)
(* A pose is a member of a group, a joint moves by an integer, and time is *)
(* counted in steps.  Only positions are followed; linkpose() and sample() *)
(* change nothing and are operators.                                       *)
(***************************************************************************)
EXTENDS Integers, FiniteSets, SequencesExt

CONSTANTS
  Models,            (* the robots of the URDF files that can be parsed    *)
  RobotIdentity,     (* the identity among poses                           *)
  Joined(_, _),      (* operator* of two transforms                        *)
  Motion(_, _),      (* the transform of a joint of a type moved by q      *)
  Near(_, _, _),     (* two poses agree in "all", "position" or "rotation" *)
  Needs(_, _),       (* the time a joint of some limit needs for a way     *)
  MinDuration,       (* 50 ms                                              *)
  Segments,          (* 20                                                 *)
  FullDof,           (* 6                                                  *)
  Angles,            (* what the joints may be asked to move to            *)
  JointStates,       (* the joint states passed to update()                *)
  Scales,            (* by how much all joints are slowed down             *)
  Ways,              (* [frame, ways]: poses a link is to come by          *)
  MaxPlans,          (* a bound for TLC: how many plans are made           *)
  Controlled,        (* the names the controller is made for               *)
  Trajectories       (* trajectories that do not come from the planner     *)

NoTrajectory == [joint_names |-> <<>>, points |-> <<>>]
NoPlan == [joint_names |-> <<>>, points |-> <<>>, js |-> <<>>, frame |-> "", ways |-> <<>>,
           scale |-> 1]

Assumptions ==
  /\ Models # {} /\ Segments \in Nat \ {0} /\ MinDuration \in Nat \ {0}
  /\ Controlled # <<>> /\ IsInjective(Controlled)

VARIABLES
  model,         (* URDFModel: links and joints in the order of the file   *)
  joint_state,   (* Impl::joint_state: names and positions                 *)
  tf, tf_static, (* Impl::tf, Impl::tf_static                              *)
  scale,         (* Impl::velocity_scale, as the factor of the durations   *)
  plan,          (* the trajectory planned last, and what it was to do     *)
  plans,         (* the number of plans made                               *)
  ctl_joints,    (* RobotController::_ctl_joints                           *)
  traj_cache,    (* RobotController::_traj_cache                           *)
  accepted,      (* history: what submit() was last true for               *)
  trouble        (* history: what a refused submit() has left              *)

planner == <<model, joint_state, tf, tf_static, scale>>
controller == <<ctl_joints, traj_cache, accepted, trouble>>
vars == <<planner, plan, plans, controller>>

-----------------------------------------------------------------------------
(* The kinematic tree *)

Active(m) == SelectSeq(m.joints, LAMBDA j : j.type # "Fixed")
Fixed(m) == SelectSeq(m.joints, LAMBDA j : j.type = "Fixed")
Names(s) == [i \in DOMAIN s |-> s[i].name]

(* clear() *)
NoModel == [links |-> <<>>, joints |-> <<>>]

(* base_link: the first link that is no joint's child. *)
Root(m) ==
  IF m = NoModel THEN ""
  ELSE LET top == {i \in DOMAIN m.links : \A k \in DOMAIN m.joints : m.joints[k].child # m.links[i]}
       IN  m.links[CHOOSE i \in top : \A k \in top : i <= k]

(* resetJointState() *)
AtZero(m) == [name |-> Names(Active(m)), position |-> [i \in DOMAIN Active(m) |-> 0]]

(* q_map: the position of a joint, or 0 for a name that is not there. *)
Position(s, name) ==
  IF name \in Range(s.name) THEN s.position[CHOOSE i \in DOMAIN s.name : s.name[i] = name] ELSE 0

(* computeJointTransform() *)
JointTransform(j, q) ==
  [parent |-> j.parent, child |-> j.child, pose |-> Joined(j.origin, Motion(j.type, q))]

TransformsOf(js, s) == [i \in DOMAIN js |-> JointTransform(js[i], Position(s, js[i].name))]

(* updateTF() *)
UpdateTF(m, s) ==
  /\ tf' = TransformsOf(Active(m), s)
  /\ tf_static' = TransformsOf(Fixed(m), s)

(* linkpose(): up the transforms from a link to the root. *)
LinkPose(link) ==
  LET by == Range(tf) \cup Range(tf_static)
      pose[l \in {t.child : t \in by} \cup {Root(model)}] ==
        IF l = Root(model) THEN RobotIdentity
        ELSE LET t == CHOOSE t \in by : t.child = l IN Joined(pose[t.parent], t.pose)
  IN  pose[link]

(* buildChain(): the joints from the root to a link, a search of a tree. *)
Path(m, link) ==
  LET path[l \in Range(m.links)] ==
        IF l = Root(m) THEN <<>>
        ELSE LET j == CHOOSE j \in Range(m.joints) : j.child = l IN Append(path[j.parent], j)
  IN  path[link]

Moving(path) == SelectSeq(path, LAMBDA j : j.type # "Fixed")

(* Faulty variant of ChainPose: a joint's own origin behind it. *)
ChainPoseOwn(path, s) ==
  LET segment(i) == Joined(Motion(path[i].type, Position(s, path[i].name)), path[i].origin)
  IN  IF path = <<>> THEN RobotIdentity
      ELSE FoldLeft(Joined, path[1].origin, [i \in DOMAIN path |-> segment(i)])

(* The pose at the end of the chain: a segment for the first origin, then   *)
(* each joint with the next one's origin behind it.                         *)
ChainPose(path, s) ==
  LET tip(i) == IF i = Len(path) THEN RobotIdentity ELSE path[i + 1].origin
      segment(i) == Joined(Motion(path[i].type, Position(s, path[i].name)), tip(i))
  IN  IF path = <<>> THEN RobotIdentity
      ELSE FoldLeft(Joined, path[1].origin, [i \in DOMAIN path |-> segment(i)])

-----------------------------------------------------------------------------
(* The planner *)

Init ==
  /\ model \in Models /\ joint_state = AtZero(model)
  /\ tf = TransformsOf(Active(model), joint_state)
  /\ tf_static = TransformsOf(Fixed(model), joint_state)
  /\ scale \in Scales
  /\ plan = NoPlan /\ plans = 0
  /\ ctl_joints = [i \in DOMAIN Controlled |-> [name |-> Controlled[i], remap |-> i]]
  /\ traj_cache = NoTrajectory /\ accepted = NoTrajectory /\ trouble = "none"

(* load() *)
Load(m) ==
  /\ model' = m /\ joint_state' = AtZero(m) /\ UpdateTF(m, AtZero(m))
  /\ plan' = NoPlan
  /\ UNCHANGED <<scale, plans, controller>>

(* parse() has cleared the model when it throws. *)
LoadBroken ==
  /\ model' = NoModel /\ plan' = NoPlan
  /\ UNCHANGED <<joint_state, tf, tf_static, scale, plans, controller>>

(* update() *)
Update(s) ==
  /\ joint_state' = s /\ UpdateTF(model, s)
  /\ UNCHANGED <<model, scale, plan, plans, controller>>

(* setMaxVelocityScalingFactor() *)
SetScale(x) ==
  /\ scale' = x
  /\ UNCHANGED <<model, joint_state, tf, tf_static, plan, plans, controller>>

Distance(a, b) == IF a < b THEN b - a ELSE a - b

(* Faulty variant of Duration: the slowest joint is forgotten for the last. *)
DurationLast(from, to, js, stray) ==
  IF js = <<>> \/ from = <<>> THEN MinDuration
  ELSE LET i == IF Len(js) < Len(from) THEN Len(js) ELSE Len(from)
       IN  Max({MinDuration, scale * Needs(js[i].limit, Distance(from[i], to[i]))})

(* estimateDuration(): of joints by their place in the two vectors; stray is *)
(* what it reads behind the end of a vector that is too short.              *)
Duration(from, to, js, stray) ==
  LET way(i) == IF i \in DOMAIN from THEN Distance(from[i], to[i]) ELSE stray
  IN  Max({MinDuration} \cup {scale * Needs(js[i].limit, way(i)) : i \in DOMAIN js})

(* interpolate(): 10 s^3 - 15 s^4 + 6 s^5 of the way at s = k / Segments. *)
Eased(way, k) ==
  (way * k * k * k * (10 * Segments * Segments - 15 * k * Segments + 6 * k * k))
    \div (Segments * Segments * Segments * Segments * Segments)

Leg(from, to, start, duration) ==
  [n \in 1 .. Segments + 1 |->
     [time |-> start + ((n - 1) * duration) \div Segments,
      positions |-> [i \in DOMAIN from |-> from[i] + Eased(to[i] - from[i], n - 1)]]]

Planned(points, js, frame, ways) ==
  /\ plans < MaxPlans /\ plans' = plans + 1
  /\ plan' = [joint_names |-> joint_state.name, points |-> points, js |-> js,
              frame |-> frame, ways |-> ways, scale |-> scale]

(* plan(target) *)
PlanJoints(to) ==
  /\ DOMAIN to = DOMAIN joint_state.position
  /\ \E stray \in IF Len(to) < Len(Active(model)) THEN {0, Max(Angles)} ELSE {0} :
       LET from == joint_state.position
           T == Duration(from, to, Active(model), stray)
       IN  Planned(IF to = <<>> THEN <<>> ELSE Leg(from, to, 0, T), Active(model), "", <<to>>)
  /\ UNCHANGED <<planner, controller>>

(* solveIK(): which part of a pose it solves for. *)
Solved(js) ==
  CASE Len(js) >= FullDof -> "all"
    [] Len(js) = 1 /\ js[1].type = "Revolute" -> "rotation"
    [] OTHER -> "position"

NamedSo(js, q) == [name |-> Names(js), position |-> q]

(* plan(frame, waypoints), and plan(frame, target), which is the same with  *)
(* one of them: the solver may find any solution, or none.                  *)
PlanWays(frame, ways) ==
  LET path == IF frame \in Range(model.links) THEN Path(model, frame) ELSE <<>>
      js == Moving(path)
      q0 == [i \in DOMAIN js |-> Position(joint_state, js[i].name)]
      Next(leg, q) ==
        LET T == Duration(leg.q, q, js, 0)
        IN  [q |-> q, t |-> leg.t + T, points |-> leg.points \o Leg(leg.q, q, leg.t, T)]
      solutions(w) ==
        {q \in [DOMAIN js -> Angles] : Near(ChainPose(path, NamedSo(js, q)), w, Solved(js))}
  IN  /\ \E n \in IF js = <<>> THEN {0} ELSE 0 .. Len(ways) :
           \E qs \in [1 .. n -> [DOMAIN js -> Angles]] :
             /\ \A i \in 1 .. n : qs[i] \in solutions(ways[i])
             /\ Planned(FoldLeft(Next, [q |-> q0, t |-> 0, points |-> <<>>], qs).points,
                        js, frame, SubSeq(ways, 1, n))
      /\ UNCHANGED <<planner, controller>>

-----------------------------------------------------------------------------
(* The controller *)

ColumnOf(t, name) == CHOOSE i \in DOMAIN t.joint_names :
  t.joint_names[i] = name /\ \A k \in 1 .. i - 1 : t.joint_names[k] # name

Ordered(t) == \A i \in 2 .. Len(t.points) : t.points[i - 1].time <= t.points[i].time
Shaped(t) == \A i \in DOMAIN t.points : Len(t.points[i].positions) = Len(t.joint_names)

Missing(t) == {i \in DOMAIN ctl_joints : ctl_joints[i].name \notin Range(t.joint_names)}
(* Faulty variant of Remapped: the columns of the trajectory before. *)
RemappedNever(t) == ctl_joints

Remapped(t) == [i \in DOMAIN ctl_joints |->
                  [ctl_joints[i] EXCEPT !.remap = ColumnOf(t, ctl_joints[i].name)]]

(* submit() that returns true; one without names or points is refused at once. *)
Accept(t) ==
  /\ t.joint_names # <<>> /\ t.points # <<>>
  /\ Missing(t) = {} /\ Ordered(t) /\ Shaped(t)
  /\ ctl_joints' = Remapped(t)
  /\ traj_cache' = t /\ accepted' = t
  /\ trouble' = IF trouble = "dropped" THEN trouble ELSE "none"
  /\ UNCHANGED <<planner, plan, plans>>

(* A joint is missing: the controller controls none from now on. *)
RefuseNames(t) ==
  /\ t.joint_names # <<>> /\ t.points # <<>> /\ Missing(t) # {}
  /\ ctl_joints' = <<>> /\ trouble' = "dropped"
  /\ UNCHANGED <<planner, plan, plans, traj_cache, accepted>>

(* Refused for its times or its dimensions: the columns are the new ones,   *)
(* the points are the old ones.                                             *)
RefusePoints(t) ==
  /\ t.joint_names # <<>> /\ t.points # <<>>
  /\ Missing(t) = {} /\ ~(Ordered(t) /\ Shaped(t))
  /\ ctl_joints' = Remapped(t)
  /\ trouble' = IF trouble = "dropped" THEN trouble ELSE "mixed"
  /\ UNCHANGED <<planner, plan, plans, traj_cache, accepted>>

Submit(t) == Accept(t) \/ RefuseNames(t) \/ RefusePoints(t)

(* reset() *)
Reset ==
  /\ traj_cache' = NoTrajectory /\ accepted' = NoTrajectory
  /\ ctl_joints' = [i \in DOMAIN ctl_joints |->
                      [ctl_joints[i] EXCEPT !.remap = Len(ctl_joints) + 1]]
  /\ trouble' = IF trouble = "dropped" THEN trouble ELSE "none"
  /\ UNCHANGED <<planner, plan, plans>>

(* sample(), so long after submit() and with this feedback. *)
Nothing == [name |-> <<>>, position |-> <<>>]

At(p, joint) == IF joint.remap \in DOMAIN p.positions THEN p.positions[joint.remap] ELSE 0

Along(p0, p1, t, joint) ==
  IF joint.remap \in DOMAIN p0.positions \cap DOMAIN p1.positions
  THEN LET a == At(p0, joint)
           b == At(p1, joint)
           dt == p1.time - p0.time
       IN  IF dt > 0 THEN a + ((b - a) * (t - p0.time)) \div dt ELSE a
  ELSE 0

Desired(t) ==
  LET pts == traj_cache.points
      hi == CHOOSE i \in DOMAIN pts : pts[i].time > t /\ \A k \in 1 .. i - 1 : pts[k].time <= t
      of(joint) == CASE t <= pts[1].time -> At(pts[1], joint)
                     [] t > pts[1].time /\ t >= pts[Len(pts)].time -> At(pts[Len(pts)], joint)
                     [] OTHER -> Along(pts[hi - 1], pts[hi], t, joint)
  IN  [name |-> Names(ctl_joints), position |-> [i \in DOMAIN ctl_joints |-> of(ctl_joints[i])]]

(* compute() of UnitTF, which refuses a feedback of another number of       *)
(* joints, and what sample() sends then.                                    *)
Computed(desired, feedback) ==
  IF Len(feedback.name) # Len(desired.name) /\ feedback # Nothing THEN feedback ELSE desired

Sample(t, feedback) ==
  IF traj_cache.points = <<>> THEN feedback ELSE Computed(Desired(t), feedback)

-----------------------------------------------------------------------------
PlannerNext ==
  \/ \E m \in Models : Load(m)
  \/ LoadBroken
  \/ \E s \in JointStates : Update(s)
  \/ \E x \in Scales : SetScale(x)
  \/ \E to \in [DOMAIN joint_state.position -> Angles] : PlanJoints(to)
  \/ \E w \in Ways : PlanWays(w.frame, w.ways)

PlannedTrajectory == [joint_names |-> plan.joint_names, points |-> plan.points]

ControllerNext ==
  \/ Submit(PlannedTrajectory)
  \/ \E t \in Trajectories : Submit(t)
  \/ Reset

Next == PlannerNext \/ ControllerNext

Spec == Init /\ [][Next]_vars

-----------------------------------------------------------------------------
TypeOK ==
  /\ model \in Models \cup {NoModel} /\ scale \in Scales
  /\ Len(joint_state.name) = Len(joint_state.position)
  /\ trouble \in {"none", "mixed", "dropped"}
  /\ trouble = "dropped" <=> ctl_joints = <<>>

(* linkpose(), which goes up the transforms that updateTF() has made in the *)
(* order of the file, gives every link the pose at the end of the chain     *)
(* that the solver is given (robot.cpp:467, robot_kdl.cpp:22).              *)
PosesAgree ==
  \A l \in Range(model.links) : LinkPose(l) = ChainPose(Path(model, l), joint_state)

(* Where the names of a planned trajectory are those of its columns, a      *)
(* planner that is given its points in turn, joint by name, has the link at *)
(* each of the poses asked for, at the end of a leg, and no leg is faster   *)
(* than a joint's limit admits (robot.cpp:448, robot_kdl.cpp:192).  With    *)
(* other names, as after a load() that has failed, it is not: see the       *)
(* README, section 6.                                                       *)
PlanReaches ==
  LET path == Path(model, plan.frame)
      first(i) == plan.points[(i - 1) * (Segments + 1) + 1]
      last(i) == plan.points[i * (Segments + 1)]
      way(i, k) == Distance(first(i).positions[k], last(i).positions[k])
      pose(i) == ChainPose(path, [name |-> plan.joint_names, position |-> last(i).positions])
  IN  (plan.points # <<>> /\ plan.joint_names = Names(plan.js)) =>
        /\ Ordered(plan) /\ Shaped(plan)
        /\ \A i \in DOMAIN plan.ways :
             /\ IF plan.frame = "" THEN last(i).positions = plan.ways[i]
                ELSE Near(pose(i), plan.ways[i], Solved(plan.js))
             /\ \A k \in DOMAIN plan.js :
                  last(i).time - first(i).time >= plan.scale * Needs(plan.js[k].limit, way(i, k))

(* A joint is sent where the trajectory that was accepted last has its name *)
(* (robot.cpp:512, :553): at the time of a point to the point, the last one *)
(* of that time, between two points between them, before the first and      *)
(* after the last to those; and nowhere while there is no trajectory.  Not  *)
(* once a refused submit() has left its columns, or no joints (:507).       *)
Follows ==
  LET t == accepted
      n == Len(t.points)
      want(i, name) == t.points[i].positions[ColumnOf(t, name)]
      within(x, a, b) == (a <= x /\ x <= b) \/ (b <= x /\ x <= a)
      sent(time) == Sample(time, Nothing)
      followed(time, i) ==
        LET x == sent(time).position[i]
            name == Controlled[i]
        IN  CASE time <= t.points[1].time -> x = want(1, name)
              [] time > t.points[1].time /\ time >= t.points[n].time -> x = want(n, name)
              [] OTHER ->
                   \A k \in 2 .. n : t.points[k - 1].time <= time /\ time < t.points[k].time =>
                     /\ within(x, want(k - 1, name), want(k, name))
                     /\ (time = t.points[k - 1].time => x = want(k - 1, name))
  IN  IF t = NoTrajectory
      THEN sent(0) = Nothing /\ Sample(0, joint_state) = joint_state
      ELSE trouble = "none" =>
             \A time \in 0 .. t.points[n].time + 1 :
               /\ sent(time).name = Controlled
               /\ \A i \in DOMAIN Controlled : followed(time, i)

(* The three together. *)
RobotObeys == PosesAgree /\ PlanReaches /\ Follows
=============================================================================
