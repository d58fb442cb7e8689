---------------------------- MODULE MCSequential ----------------------------
(* Instances for TLC of what a robot computes in one thread, call after     *)
(* call: TransformBuffer, GridMap and PathPlanner, where it is, what it has *)
(* seen and where it may go, Trackers, which target is which, Robot, how    *)
(* its joints get there, the containers RaHeap and UnionFind, and OpcUa,    *)
(* what the library of that name is left with.  A behaviour runs one of     *)
(* them and leaves the others alone.                                        *)
EXTENDS TransformBuffer, RaHeap, UnionFind, GridMap, OpcUa

VARIABLES
  part,                                                   (* which one runs *)
  static, obstacles, master, inflation, fresh, options, query, search, result,
  kind, trackers, frame,
  model, joint_state, tf, tf_static, scale, plan, plans, ctl_joints, traj_cache, accepted, trouble

planner == <<static, obstacles, master, inflation, fresh, options, query, search, result>>
targets == <<kind, trackers, frame>>
robot == <<model, joint_state, tf, tf_static, scale, plan, plans,
           ctl_joints, traj_cache, accepted, trouble>>

(* A pose <<r, k>> of the line takes x to r * x + k, where r is 1 or -1: a  *)
(* group that does not commute.                                             *)
MCPoses == {1, -1} \X (-9 .. 9)
MCIdentity == <<1, 0>>
MCCompose(p, q) == <<p[1] * q[1], p[1] * q[2] + p[2]>>
MCInverse(p) == <<p[1], -p[1] * p[2]>>
(* The translation is interpolated; the rotation, as far as there is one.   *)
MCBetween(a, b, t) ==
  <<a.pose[1], a.pose[2] + ((b.pose[2] - a.pose[2]) * (t - a.time)) \div (b.time - a.time)>>

X(p, q, t, r, k) == [parent |-> p, child |-> q, time |-> t, pose |-> <<r, k>>]

(* b below a, c below b and d below b; a below c would close a cycle, c     *)
(* below d gives c a second parent.                                         *)
Ab1 == X("a", "b", 1, -1, 1)
Ab3 == X("a", "b", 3, -1, 3)
Bc1 == X("b", "c", 1, 1, 5)
Bc2 == X("b", "c", 2, -1, 2)
Bd2 == X("b", "d", 2, 1, 4)
Bd3 == X("b", "d", 3, -1, 7)
Ca1 == X("c", "a", 1, 1, 1)
Dc1 == X("d", "c", 1, 1, 1)

MCInputs ==
  [tf |-> {Ab1, Ab3, Bc2, Bd2, Bd3, Ca1, Dc1},
   tf_static |-> {Bc1, Dc1, X("a", "a", 1, 1, 1),
                  [parent |-> "a", child |-> "d", time |-> 2, pose |-> NoPose]}]
MCBatches == [tf |-> {<<Ab3, Bd3>>}, tf_static |-> {<<Bc1>>}]
MCPast == -1

-----------------------------------------------------------------------------
(* An evidence is the value that it makes of an unknown cell.               *)
MCUpdated(v, e) == CASE e = 0 -> 0 [] v \in {50, 100} -> 100 [] OTHER -> 50

Ray(from, to, hit) == [from |-> from, to |-> to, hit |-> hit, free |-> 0, occupied |-> 50]

MCValues == {-1, 0, 50, 100}
MCSettings == {<< <<2, 0>>, 100>>, << <<0, 1>>, -1>>}
MCObservations == {<< <<1, 1>>, 50>>}
MCRays == {Ray(<<0, 0>>, <<2, 1>>, TRUE), Ray(<<2, 1>>, <<1, 0>>, FALSE)}

ASSUME GridAssumption == GridAssumptions

-----------------------------------------------------------------------------
MapOf(rows) == [xy \in (0 .. 3) \X (0 .. 2) |-> rows[xy[2] + 1][xy[1] + 1]]

Layering(threshold, track, inflate, inscribed, infl) ==
  [threshold |-> threshold, track_unknown |-> track, inflate_unknown |-> inflate,
   inscribed |-> inscribed, inflation |-> infl]

Planning(diagonal, cutting, unknown, max, weight, simplify, rounds) ==
  [diagonal |-> diagonal, cutting |-> cutting, unknown |-> unknown, max_cost |-> max,
   weight |-> weight, simplify |-> simplify, rounds |-> rounds]

MCDecay(o, d) == 252 \div (2 * d)

P == INSTANCE PathPlanner WITH
  Decay <- MCDecay, Straight <- 5, Diagonal <- 7,
  StaticMaps <- {MapOf(<< <<0, 0, 0, 0>>, <<0, 0, 0, 30>>, <<0, 100, -1, 0>> >>)},
  CostmapOptions <- {Layering(65, TRUE, FALSE, 1, 2), Layering(65, TRUE, TRUE, 0, 2),
                     Layering(20, FALSE, TRUE, 0, 1)},
  PlannerOptions <- {Planning(TRUE, FALSE, TRUE, 252, 1, TRUE, 1),
                     Planning(TRUE, TRUE, FALSE, 252, 0, TRUE, 2),
                     Planning(FALSE, FALSE, FALSE, 200, 2, FALSE, 1)},
  Marks <- {<<2, 0>>, <<2, 1>>, <<3, 1>>},
  Queries <- {<< <<0, 0>>, <<3, 2>> >>, << <<3, 0>>, <<0, 0>> >>, << <<2, 2>>, <<0, 0>> >>}

ASSUME PlannerAssumptions == P!Assumptions

-----------------------------------------------------------------------------
(* Seven elements, so that a heap has a third level with cousins in it; two *)
(* of them are equal for the comparator.                                    *)
MCRank == <<1, 2, 3, 3, 4, 5, 6>>

ASSUME HeapAssumption == HeapAssumptions

(* An element comes twice in one of the inputs. *)
MCForestInputs == {<<1, 2, 3, 4, 5>>, <<1, 2, 1>>}

ASSUME ForestAssumption == ForestAssumptions

-----------------------------------------------------------------------------
(* Three armors: from 0 to 1 the tilt changes too much, from 0 to 4 the     *)
(* place.  Six angles of a rune: pairs that are less than 45 degrees apart  *)
(* across the border, one by its border itself and one by a degree, one     *)
(* that is exactly 45 apart across it, and one between 45 and 50.           *)
MCPlaces == [planar |-> {0, 1, 4}, rune |-> {-178, -136, -135, -90, 140, 180}]
MCTilt(x) == CASE x = 0 -> 10 [] x = 1 -> -10 [] OTHER -> 5

Still(places) == [x \in places |-> x]
Turning ==
  (-178 :> -136) @@ (-136 :> -90) @@ (-135 :> -90) @@ (-90 :> 140) @@ (140 :> 180)
    @@ (180 :> -178)

T == INSTANCE Trackers WITH
  Places <- MCPlaces, Tilt <- MCTilt, MaxDelta <- 3, TrackFrames <- 2,
  Drifts <- [planar |-> {Still(MCPlaces["planar"])},
             rune |-> {Still(MCPlaces["rune"]), Turning}],
  MaxTrackers <- [planar |-> 3, rune |-> 2], MaxTurns <- 1

ASSUME TrackersAssumptions == T!Assumptions

-----------------------------------------------------------------------------
(* Two robots: one whose links hang on each other in the order of the file, *)
(* with fixed joints between them, and one with a branch, in another order. *)
(* A revolute joint turns a pose of the line round.                         *)
Hinge(name, type, from, to, pose, limit) ==
  [name |-> name, type |-> type, parent |-> from, child |-> to, origin |-> pose, limit |-> limit]

MCModels ==
  {[links |-> <<"base", "arm", "hand", "tool", "eye">>,
    joints |-> <<Hinge("j1", "Prismatic", "base", "arm", <<-1, 5>>, 1),
                 Hinge("f", "Fixed", "hand", "tool", <<1, 3>>, 0),
                 Hinge("j2", "Revolute", "arm", "hand", <<1, 2>>, 2),
                 Hinge("g", "Fixed", "arm", "eye", <<-1, 5>>, 0)>>],
   [links |-> <<"hand", "base", "arm", "eye">>,
    joints |-> <<Hinge("j2", "Prismatic", "arm", "hand", <<-1, 2>>, 2),
                 Hinge("j1", "Revolute", "base", "arm", <<1, 1>>, 1),
                 Hinge("j3", "Prismatic", "base", "eye", <<1, 4>>, 3)>>]}

MCMotion(type, q) ==
  CASE type = "Prismatic" -> <<1, q>>
    [] type = "Revolute" -> <<IF q = 2 THEN -1 ELSE 1, 0>>
    [] OTHER -> MCIdentity
MCNear(p, q, how) == (how # "position" => p[1] = q[1]) /\ (how # "rotation" => p[2] = q[2])
MCNeeds(limit, way) == IF limit = 1 THEN 2 * way ELSE way

At(names, positions) == [name |-> names, position |-> positions]
Run(names, times, rows) ==
  [joint_names |-> names,
   points |-> [i \in DOMAIN times |-> [time |-> times[i], positions |-> rows[i]]]]

(* One trajectory is good, one has its points out of order, one lacks j2.   *)
R == INSTANCE Robot WITH
  Models <- MCModels, RobotIdentity <- MCIdentity, Joined <- MCCompose, Motion <- MCMotion,
  Near <- MCNear, Needs <- MCNeeds, MinDuration <- 2, Segments <- 2, FullDof <- 2,
  Angles <- {0, 2}, Scales <- {1, 2}, MaxPlans <- 1, Controlled <- <<"j2", "j1">>,
  JointStates <- {At(<<"j1", "j2">>, <<2, 4>>), At(<<"j2", "j1">>, <<0, 2>>), At(<<"j2">>, <<2>>)},
  Ways <- {[frame |-> "hand", ways |-> << <<1, 1>>, <<-1, 3>> >>],
           [frame |-> "eye", ways |-> << <<1, 6>> >>]},
  Trajectories <-
    {Run(<<"j1", "x", "j2">>, <<1, 3, 3, 5>>, << <<0, 9, 2>>, <<4, 9, 0>>, <<6, 9, 0>>, <<6, 9, 8>> >>),
     Run(<<"j1", "j2">>, <<2, 1>>, << <<0, 2>>, <<4, 0>> >>),
     Run(<<"j1">>, <<1>>, << <<2>> >>)}

ASSUME RobotAssumptions == R!Assumptions

-----------------------------------------------------------------------------
(* Two of the nodes that are monitored share their number. *)
MCDeclared == {<<"variable", "source", "method">>, <<"source", "source">>}
MCKey == [t \in {"s", "t", "u"} |-> IF t = "u" THEN 2 ELSE 1]

ASSUME OpcUaAssumption == OpcUaAssumptions

-----------------------------------------------------------------------------
MCInit ==
  /\ part \in {"frames", "grid", "planner", "heap", "forest", "targets", "robot",
               "server", "client", "timers"}
  /\ Init /\ (part # "frames" => duration = 0)
  /\ GridInit
  /\ P!Init /\ (part # "planner" => options.rounds = 2 /\ inflation.threshold = 20)
  /\ HeapInit
  /\ ForestInit /\ (part # "forest" => components = 3)
  /\ T!Init /\ (part # "targets" => kind = "rune")
  /\ R!Init /\ (part # "robot" => scale = 1 /\ Len(model.joints) = 3)
  /\ OpcUaInit

MCNext ==
  \/ /\ part = "frames" /\ Next
     /\ UNCHANGED <<part, gridVars, planner, heapVars, forestVars, targets, robot, opcUaVars>>
  \/ /\ part = "grid" /\ GridNext
     /\ UNCHANGED <<part, vars, planner, heapVars, forestVars, targets, robot, opcUaVars>>
  \/ /\ part = "planner" /\ P!Next
     /\ UNCHANGED <<part, vars, gridVars, heapVars, forestVars, targets, robot, opcUaVars>>
  \/ /\ part = "heap" /\ HeapNext
     /\ UNCHANGED <<part, vars, gridVars, planner, forestVars, targets, robot, opcUaVars>>
  \/ /\ part = "forest" /\ ForestNext
     /\ UNCHANGED <<part, vars, gridVars, planner, heapVars, targets, robot, opcUaVars>>
  \/ /\ part = "targets" /\ T!Next
     /\ UNCHANGED <<part, vars, gridVars, planner, heapVars, forestVars, robot, opcUaVars>>
  \/ /\ part = "robot" /\ R!Next
     /\ UNCHANGED <<part, vars, gridVars, planner, heapVars, forestVars, targets, opcUaVars>>
  \/ /\ \/ part = "server" /\ ServerNext
        \/ part = "client" /\ ClientNext
        \/ part = "timers" /\ TimersNext
     /\ UNCHANGED <<part, vars, gridVars, planner, heapVars, forestVars, targets, robot>>

MCSpec ==
  MCInit /\ [][MCNext]_<<part, vars, gridVars, planner, heapVars, forestVars, targets, robot, opcUaVars>>

PlansSound == P!PlansSound
TargetsFollowed == T!TargetsFollowed
RobotObeys == part = "robot" => R!RobotObeys
=============================================================================
