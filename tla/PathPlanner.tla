----------------------------- MODULE PathPlanner -----------------------------
(***************************************************************************)
(* rm::nav::Costmap and rm::nav::AStarPlanner.  A costmap has a layer made *)
(* from a static map, a layer of obstacles, and a master layer that only   *)
(* updateCosts(), reset() and setStaticMap() bring up to date; plan() reads*)
(* the master layer.                                                       *)
(*                                                                         *)
(* Lengths are in cells, and radii are squared.  The costs of the search   *)
(* are in units of 1/252 of a scale in which a step takes Straight or      *)
(* Diagonal.  Poses are cells: where in its cell a pose lies is left out.  *)
(* Nothing reads the revision of a costmap but its message().              *)
(***************************************************************************)
EXTENDS GridCells, FiniteSetsExt

CONSTANTS
  StaticMaps,         (* functions from Cells to -1 .. 100                 *)
  CostmapOptions,     (* CostmapOptions that are valid                     *)
  Decay(_, _),        (* the cost at a squared distance beyond the         *)
                      (* inscribed radius, under these options             *)
  Marks,              (* the cells that get marked                         *)
  PlannerOptions,     (* AStarOptions that are valid                       *)
  Straight, Diagonal, (* the lengths of a step, in whole units             *)
  Queries,            (* pairs of a start and a goal                       *)
  None

Free == 0
Inscribed == 253
Lethal == 254
Unknown == 255

Assumptions ==
  /\ StaticMaps \subseteq [Cells -> -1 .. 100]
  /\ \A o \in CostmapOptions : o.threshold \in 1 .. 100 /\ o.inscribed <= o.inflation
  /\ \A o \in PlannerOptions : o.max_cost < Inscribed /\ o.weight \in Nat
  /\ Straight <= Diagonal /\ Diagonal <= 2 * Straight
  /\ Marks \subseteq Cells /\ Queries \subseteq Cells \X Cells

VARIABLES
  static,    (* static_layer                                               *)
  obstacles, (* the cells of obstacle_layer that are Lethal                *)
  master,    (* master                                                     *)
  inflation, (* Impl::options of the costmap                               *)
  fresh,     (* history: no layer has changed since the costs were updated *)
  options,   (* the planner's _options                                     *)
  query,     (* the start and the goal of plan(), or None outside it       *)
  search,    (* what it has: costs, parents, closed cells, open nodes, and *)
             (* the path, the pose and the rounds left of the smoothing    *)
  result     (* the last result on this costmap, or None                   *)

layers == <<static, obstacles, master, inflation, fresh>>
planVars == <<layers, options, query, search, result>>

-----------------------------------------------------------------------------
(* The layers of the costmap *)

(* makeStaticLayer                                                         *)
StaticLayer(map, o) ==
  LET Cost(v) ==
        CASE v < 0 -> IF o.track_unknown THEN Unknown ELSE Free
          [] v >= o.threshold -> Lethal
          [] v = 0 /\ v < o.threshold -> Free
          [] OTHER -> Max({1, Min({252, (2 * v * 252 + o.threshold - 1) \div (2 * (o.threshold - 1))})})
  IN  [c \in Cells |-> Cost(map[c])]

Squared(a, b) == (a[1] - b[1]) * (a[1] - b[1]) + (a[2] - b[2]) * (a[2] - b[2])

(* updateCosts                                                             *)
Inflated(layer, marked, o) ==
  LET raw == [c \in Cells |-> IF c \in marked THEN Lethal ELSE layer[c]]
      lethal == {c \in Cells : raw[c] = Lethal}
      Inflation(c) ==
        {IF Squared(c, l) <= o.inscribed THEN Inscribed ELSE Decay(o, Squared(c, l)) :
           l \in {l \in lethal : Squared(c, l) <= o.inflation}}
      Kept(c) == raw[c] = Lethal \/ (raw[c] = Unknown /\ ~o.inflate_unknown)
  IN  [c \in Cells |->
         IF Kept(c) \/ Inflation(c) = {} THEN raw[c]
         ELSE Max(Inflation(c) \cup ({raw[c]} \ {Unknown}))]

(* The calls of one thread: none is made during plan().                    *)
Updated(layer, marked, o) ==
  /\ query = None
  /\ static' = layer /\ obstacles' = marked /\ inflation' = o
  /\ master' = Inflated(layer, marked, o) /\ fresh' = TRUE
  /\ result' = None
  /\ UNCHANGED <<options, query, search>>

Reset(map, o) == Updated(StaticLayer(map, o), {}, o)
SetStaticMap(map) == Updated(StaticLayer(map, inflation), obstacles, inflation)
UpdateCosts == Updated(static, obstacles, inflation)

(* The master layer stays as it is.                                        *)
Obstacles(marked) ==
  /\ query = None
  /\ marked # obstacles
  /\ obstacles' = marked /\ fresh' = FALSE
  /\ result' = None
  /\ UNCHANGED <<static, master, inflation, options, query, search>>

MarkObstacle(c) == Obstacles(obstacles \cup {c})
ClearObstacles == Obstacles({})
ClearRay(a, b) == Obstacles(obstacles \ ToSet(Raster(a, b)))

-----------------------------------------------------------------------------
(* The search *)

Traversable(c) ==
  /\ c \in Cells
  /\ IF master[c] = Unknown THEN options.unknown ELSE master[c] <= options.max_cost

(* The step between two neighbours is not diagonal, or may cut the corner, *)
(* or passes between cells that can be traversed.                          *)
Passable(a, b) ==
  \/ a[1] = b[1] \/ a[2] = b[2]
  \/ options.cutting
  \/ Traversable(<<a[1], b[2]>>) /\ Traversable(<<b[1], a[2]>>)

Length(a, b) == IF a[1] # b[1] /\ a[2] # b[2] THEN Diagonal ELSE Straight

(* The loop over directions.                                               *)
Neighbours(c) ==
  {n \in Cells :
     /\ n # c /\ Squared(n, c) <= IF options.diagonal THEN 2 ELSE 1
     /\ Traversable(n) /\ Passable(c, n)}

(* Of a step into a cell, with traversalPenalty.                           *)
StepCost(a, b) ==
  Length(a, b) * (252 + options.weight * IF master[b] = Unknown THEN 252 ELSE master[b])

(* Faulty variant: a diagonal step counts as two straight ones.            *)
ManhattanHeuristic(a, b) == 252 * Straight * (AbsDiff(a[1], b[1]) + AbsDiff(a[2], b[2]))

Heuristic(a, b) ==
  LET dx == AbsDiff(a[1], b[1])
      dy == AbsDiff(a[2], b[2])
  IN  252 * (IF options.diagonal
             THEN Straight * (dx + dy) + (Diagonal - 2 * Straight) * Min({dx, dy})
             ELSE Straight * (dx + dy))

Node(c, cost, goal) == [cell |-> c, cost |-> cost, estimate |-> cost + Heuristic(c, goal)]

(* The open nodes that the queue may return: ties are broken as it likes.  *)
Tops ==
  LET least == Min({n.estimate : n \in search.open})
      among == {n \in search.open : n.estimate = least}
  IN  {n \in among : n.cost = Min({m.cost : m \in among})}

(* lineClear                                                               *)
LineClear(a, b) ==
  LET line == Line(a, b, FALSE)
  IN  \A i \in 1 .. Len(line) :
        Traversable(line[i]) /\ (i > 1 => Passable(line[i - 1], line[i]))

(* simplifyPath: from each pose to the farthest one that it sees.          *)
Simplified(cells) ==
  LET Extend(kept, i) ==
        IF Last(kept) = Len(cells) THEN kept
        ELSE Append(kept, Max({Last(kept) + 1} \cup
               {k \in Last(kept) + 1 .. Len(cells) : LineClear(cells[Last(kept)], cells[k])}))
      kept == FoldLeft(Extend, <<1>>, cells)
  IN  IF options.simplify /\ Len(cells) >= 3 THEN [i \in 1 .. Len(kept) |-> cells[kept[i]]] ELSE cells

(* The cells from the start to the goal, by the parents.                   *)
Traced(parents) ==
  FoldLeft(LAMBDA p, i : IF Head(p) = query[1] THEN p ELSE <<parents[Head(p)]>> \o p,
           <<query[2]>>, [i \in 1 .. Cardinality(DOMAIN parents) |-> i])

(* plan() returns.                                                         *)
Return(ends, status, path, cost) ==
  /\ query' = None /\ search' = None
  /\ result' = [start |-> ends[1], goal |-> ends[2], status |-> status, path |-> path, cost |-> cost]
  /\ UNCHANGED <<layers, options>>

(* plan(), up to its loop.                                                 *)
Plan(q) ==
  /\ query = None
  /\ \/ ~Traversable(q[1]) /\ Return(q, "StartBlocked", <<>>, 0)
     \/ Traversable(q[1]) /\ ~Traversable(q[2]) /\ Return(q, "GoalBlocked", <<>>, 0)
     \/ /\ Traversable(q[1]) /\ Traversable(q[2])
        /\ query' = q /\ result' = None
        /\ search' = [costs |-> q[1] :> 0, parents |-> <<>>, closed |-> {},
                      open |-> {Node(q[1], 0, q[2])}, path |-> <<>>, pose |-> 2, rounds |-> options.rounds]
        /\ UNCHANGED <<layers, options>>

Searching == query # None /\ search.path = <<>>

(* A node that is closed, or has been reached at a lower cost since.       *)
Skip(node) ==
  /\ node.cell \in search.closed \/ node.cost > search.costs[node.cell]
  /\ search' = [search EXCEPT !.open = @ \ {node}]
  /\ UNCHANGED <<layers, options, query, result>>

Expand(node) ==
  LET c == node.cell
      Candidate(n) == search.costs[c] + StepCost(c, n)
      better == {n \in Neighbours(c) :
                   n \notin DOMAIN search.costs \/ Candidate(n) < search.costs[n]}
      Over(f, Value(_)) == [n \in DOMAIN f \cup better |-> IF n \in better THEN Value(n) ELSE f[n]]
  IN  /\ c \notin search.closed /\ node.cost <= search.costs[c] /\ c # query[2]
      /\ search' = [search EXCEPT
           !.costs = Over(@, Candidate), !.parents = Over(@, LAMBDA n : c),
           !.closed = @ \cup {c},
           !.open = (@ \ {node}) \cup {Node(n, Candidate(n), query[2]) : n \in better}]
      /\ UNCHANGED <<layers, options, query, result>>

(* The goal is closed: makePath, up to the smoothing.                      *)
Reach(node) ==
  LET path == Simplified(Traced(search.parents))
  IN  /\ node.cell = query[2] /\ node.cost <= search.costs[node.cell]
      /\ IF Len(path) < 3 \/ options.rounds = 0
         THEN Return(query, "Ok", path, search.costs[query[2]])
         ELSE /\ search' = [search EXCEPT !.path = path]
              /\ UNCHANGED <<layers, options, query, result>>

(* The loop ends without the goal.                                         *)
Exhausted == search.open = {} /\ Return(query, "NoPath", <<>>, 0)

(* smoothPath, for one pose: it moves to a point between its neighbours,   *)
(* wherever that is, if the lines to both of them are clear.               *)
Smooth(c) ==
  LET path == search.path
      i == search.pose
      InBox(k) == /\ c[k] >= Min({path[j][k] : j \in i - 1 .. i + 1})
                  /\ c[k] <= Max({path[j][k] : j \in i - 1 .. i + 1})
      last == i = Len(path) - 1
      moved == [path EXCEPT ![i] = c]
  IN  /\ query # None /\ path # <<>>
      /\ \/ c = path[i]
         \/ /\ InBox(1) /\ InBox(2) /\ Traversable(c)
            /\ LineClear(path[i - 1], c) /\ LineClear(c, path[i + 1])
      /\ IF last /\ search.rounds = 1
         THEN Return(query, "Ok", moved, search.costs[query[2]])
         ELSE /\ search' = [search EXCEPT !.path = moved, !.pose = IF last THEN 2 ELSE @ + 1,
                                          !.rounds = IF last THEN @ - 1 ELSE @]
              /\ UNCHANGED <<layers, options, query, result>>

Init ==
  /\ \E map \in StaticMaps, o \in CostmapOptions :
       /\ static = StaticLayer(map, o) /\ inflation = o
       /\ master = Inflated(static, {}, o)
  /\ obstacles = {} /\ fresh = TRUE
  /\ options \in PlannerOptions
  /\ query = None /\ search = None /\ result = None

Next ==
  \/ \E map \in StaticMaps, o \in CostmapOptions : Reset(map, o)
  \/ \E map \in StaticMaps : SetStaticMap(map)
  \/ UpdateCosts
  \/ \E c \in Marks : MarkObstacle(c)
  \/ ClearObstacles
  \/ \E a, b \in Marks : ClearRay(a, b)
  \/ \E q \in Queries : Plan(q)
  \/ Searching /\ \E node \in Tops : Skip(node) \/ Expand(node) \/ Reach(node)
  \/ Searching /\ Exhausted
  \/ \E c \in Cells : Smooth(c)

Spec == Init /\ [][Next]_planVars

-----------------------------------------------------------------------------
(* Properties *)

(* Every variable has a value of its type.                                 *)
TypeOK ==
  /\ static \in [Cells -> 0 .. 255] /\ master \in [Cells -> 0 .. 255]
  /\ obstacles \subseteq Cells /\ inflation \in CostmapOptions /\ fresh \in BOOLEAN
  /\ options \in PlannerOptions /\ query \in Queries \cup {None}
  /\ query # None =>
       /\ search.closed \subseteq DOMAIN search.costs
       /\ {n.cell : n \in search.open} \subseteq DOMAIN search.costs
       /\ search.path \in Seq(Cells)

Infinite == 1000000000

(* The least costs of the walks from a cell, by as many rounds of          *)
(* relaxation as there are cells.                                          *)
Least(start) ==
  LET Relaxed(d, i) ==
        start :> 0 @@
        [c \in Cells |-> Min({d[c]} \cup
           {d[n] + StepCost(n, c) : n \in {n \in Cells : d[n] < Infinite /\ c \in Neighbours(n)}})]
  IN  FoldLeft(Relaxed, [c \in Cells |-> IF c = start THEN 0 ELSE Infinite],
               [i \in 1 .. Width * Height |-> i])

(* The cells whose inside the straight line from the centre of a to that   *)
(* of b meets: some corner is on either side of it.                        *)
Crossed(a, b) ==
  LET Side(x, y) == (b[1] - a[1]) * (y - 2 * a[2] - 1) - (b[2] - a[2]) * (x - 2 * a[1] - 1)
      Corners(c) == {Side(2 * c[1] + i, 2 * c[2] + j) : i, j \in {0, 2}}
      Within(k, c) == Min({a[k], b[k]}) <= c[k] /\ c[k] <= Max({a[k], b[k]})
  IN  {c \in Cells : /\ Within(1, c) /\ Within(2, c)
                     /\ a = b \/ (Min(Corners(c)) < 0 /\ Max(Corners(c)) > 0)}

(* What a plan runs over: a planner that cuts corners promises no more     *)
(* than the cells of its lines.                                            *)
Under(path) ==
  UNION {IF options.cutting THEN ToSet(Line(path[i], path[i + 1], FALSE))
         ELSE Crossed(path[i], path[i + 1]) : i \in 1 .. Len(path) - 1}

(* A plan is as cheap as any walk on the costmap, and there is none only   *)
(* if there is no walk; simplified and smoothed, it still runs over cells  *)
(* that can be traversed, all that its straight lines meet; and if the     *)
(* costs were updated since the last change of a layer, none of these, but *)
(* unknown ones, is within the inscribed radius of an obstacle             *)
(* (planner.cpp:75-119, :138-187, :291-345; map.cpp:713-757).              *)
PlansSound ==
  result # None =>
    LET path == result.path
        lethal == obstacles \cup {c \in Cells : static[c] = Lethal}
    IN  /\ result.status = "NoPath" => Least(result.start)[result.goal] = Infinite
        /\ result.status = "Ok" =>
             /\ result.cost = Least(result.start)[result.goal]
             /\ Head(path) = result.start /\ Last(path) = result.goal
             /\ \A c \in Under(path) :
                  /\ Traversable(c)
                  /\ fresh /\ master[c] # Unknown =>
                       \A l \in lethal : Squared(c, l) > inflation.inscribed

=============================================================================
