------------------------------- MODULE GridMap -------------------------------
(***************************************************************************)
(* rm::nav::GridMap: an occupancy grid with a revision, whose owner changes*)
(* it and publishes it, whole or as the rectangle of what has changed      *)
(* (pendingUpdate).  Others hold copies and apply what reaches them, of    *)
(* what was published, in any order and any number of times.               *)
(*                                                                         *)
(* The copies are changed by what they receive only: a revision counts the *)
(* changes and does not say whose they are.                                *)
(***************************************************************************)
EXTENDS GridCells

CONSTANTS
  Values,          (* the cell values; -1 is unknown                        *)
  ProbabilityUpdate(_, _), (* of a value, by an evidence                    *)
  Settings,        (* the arguments of set: a cell and a value              *)
  Observations,    (* of updateProbability: a cell and an evidence          *)
  Rays,            (* of integrateRay: the cells where the clipped ray      *)
                   (* starts and ends, whether it hit something there, and  *)
                   (* the evidence of a free and of an occupied cell        *)
  Copies,          (* the other maps                                        *)
  MaxRevision,     (* the largest uint64_t                                  *)
  None

Grids == [Cells -> Values]
Regions == [base : Nat, lo : Int \X Int, hi : Int \X Int]

GridAssumptions ==
  /\ Width \in Nat /\ Height \in Nat /\ MaxRevision \in Nat
  /\ -1 \in Values /\ None \notin Nat /\ None \notin Regions
  /\ Settings \subseteq Cells \X Values
  /\ \A o \in Observations :
       /\ o[1] \in Cells
       /\ \A v \in Values : ProbabilityUpdate(v, o[2]) \in Values
  /\ \A r \in Rays :
       /\ r.from \in Cells /\ r.to \in Cells /\ r.hit \in BOOLEAN
       /\ \A v \in Values :
            {ProbabilityUpdate(v, r.free), ProbabilityUpdate(v, r.occupied)} \subseteq Values

VARIABLES
  data,     (* data of the owner's grid                                     *)
  revision, (* its revision                                                 *)
  dirty,    (* DirtyRegion, or None                                         *)
  sent,     (* the messages that were published                             *)
  copy,     (* copy[c] : the data and the revision of copy c, or None       *)
  past      (* history: past[r] is what the grid was at revision r          *)

gridVars == <<data, revision, dirty, sent, copy, past>>

GridInit ==
  /\ data = [c \in Cells |-> -1] /\ revision = 0 /\ dirty = None
  /\ sent = {} /\ copy = [c \in Copies |-> None]
  /\ past = [r \in {0} |-> data]

-----------------------------------------------------------------------------
(* The owner *)

Smaller(a, b) == IF a < b THEN a ELSE b
Larger(a, b) == IF a < b THEN b ELSE a

(* Faulty variant: the rectangle does not grow to the left and downwards.  *)
MarkGrown(d, c, base) ==
  IF d = None THEN [base |-> base, lo |-> c, hi |-> c]
  ELSE [d EXCEPT !.hi = <<Larger(@[1], c[1]), Larger(@[2], c[2])>>]

(* markDirty                                                               *)
Mark(d, c, base) ==
  IF d = None THEN [base |-> base, lo |-> c, hi |-> c]
  ELSE [base |-> d.base,
        lo |-> <<Smaller(d.lo[1], c[1]), Smaller(d.lo[2], c[2])>>,
        hi |-> <<Larger(d.hi[1], c[1]), Larger(d.hi[2], c[2])>>]

(* The rectangle after each of the cells, of which only those that change   *)
(* are marked.                                                             *)
Marked(new, cells) ==
  LET marked[i \in 0 .. Len(cells)] ==
        IF i = 0 THEN dirty
        ELSE IF new[cells[i]] = data[cells[i]] THEN marked[i - 1]
        ELSE Mark(marked[i - 1], cells[i], revision)
  IN  marked

(* A call that changes these cells: one revision, and none when the last   *)
(* is reached or the data stay what they are.                              *)
Change(new, cells) ==
  /\ new # data /\ revision < MaxRevision
  /\ data' = new
  /\ revision' = revision + 1
  /\ dirty' = Marked(new, cells)[Len(cells)]
  /\ past' = [r \in DOMAIN past \cup {revision'} |-> IF r = revision' THEN new ELSE past[r]]
  /\ UNCHANGED <<sent, copy>>

SetValue(c, v) == Change([data EXCEPT ![c] = v], <<c>>)

UpdateProbability(c, e) == Change([data EXCEPT ![c] = ProbabilityUpdate(@, e)], <<c>>)

(* All cells are free but, if something was hit within the grid, the last. *)
IntegrateRay(ray) ==
  LET cells == Raster(ray.from, ray.to)
      Evidence(c) == IF ray.hit /\ c = Last(cells) THEN ray.occupied ELSE ray.free
  IN  Change([c \in Cells |->
                IF c \in ToSet(cells) THEN ProbabilityUpdate(data[c], Evidence(c)) ELSE data[c]],
             cells)

Rectangle(lo, hi) == {c \in Cells : \A i \in {1, 2} : lo[i] <= c[i] /\ c[i] <= hi[i]}

(* pendingUpdate                                                           *)
Pending ==
  [base |-> dirty.base, revision |-> revision,
   data |-> [c \in Rectangle(dirty.lo, dirty.hi) |-> data[c]]]

PublishUpdate ==
  /\ dirty # None
  /\ sent' = sent \cup {Pending}
  /\ UNCHANGED <<data, revision, dirty, copy, past>>

(* clearPendingUpdate, whether what was pending has been published or not. *)
ClearPendingUpdate ==
  /\ dirty' = None
  /\ UNCHANGED <<data, revision, sent, copy, past>>

(* message(): the whole map, which has no base.                            *)
PublishMap ==
  /\ sent' = sent \cup {[base |-> None, revision |-> revision, data |-> data]}
  /\ UNCHANGED <<data, revision, dirty, copy, past>>

-----------------------------------------------------------------------------
(* A copy *)

(* reset() takes any map that is well formed.                              *)
ReceiveMap(c, m) ==
  /\ m.base = None
  /\ copy' = [copy EXCEPT ![c] = [data |-> m.data, revision |-> m.revision]]
  /\ UNCHANGED <<data, revision, dirty, sent, past>>

(* apply(): RevisionMismatch and InvalidRevision change nothing.           *)
Apply(c, m) ==
  /\ m.base # None /\ copy[c] # None
  /\ m.base = copy[c].revision /\ m.revision > m.base
  /\ copy' = [copy EXCEPT ![c] =
       [data |-> [k \in Cells |-> IF k \in DOMAIN m.data THEN m.data[k] ELSE copy[c].data[k]],
        revision |-> m.revision]]
  /\ UNCHANGED <<data, revision, dirty, sent, past>>

GridNext ==
  \/ \E s \in Settings : SetValue(s[1], s[2])
  \/ \E o \in Observations : UpdateProbability(o[1], o[2])
  \/ \E ray \in Rays : IntegrateRay(ray)
  \/ PublishUpdate
  \/ ClearPendingUpdate
  \/ PublishMap
  \/ \E c \in Copies, m \in sent : ReceiveMap(c, m) \/ Apply(c, m)

GridSpec == GridInit /\ [][GridNext]_gridVars

-----------------------------------------------------------------------------
(* Properties *)

(* Every variable has a value of its type.                                 *)
GridTypeOK ==
  /\ data \in Grids /\ revision \in 0 .. MaxRevision
  /\ dirty # None => /\ dirty.base \in 0 .. revision - 1
                     /\ {dirty.lo, dirty.hi} \subseteq Cells
  /\ \A c \in Copies : copy[c] # None => copy[c] \in [data : Grids, revision : 0 .. MaxRevision]

(* Whatever updates are lost, late or repeated, what a copy shows under a  *)
(* revision is what the owner's map was at that revision: the pending      *)
(* rectangle holds all that has changed since its base, whether changes    *)
(* came one by one or by a ray, and the copy applies it to that base only  *)
(* (map.cpp:361-370, :517-521, :532-535).                                  *)
ReplicasAgree ==
  \A c \in Copies : copy[c] # None => copy[c].data = past[copy[c].revision]

=============================================================================
