------------------------------- MODULE RaHeap -------------------------------
(***************************************************************************)
(* rm::RaHeap: a binary heap in an array, with the position of every       *)
(* element beside it, so that an element can be changed or erased in       *)
(* place.  A call changes one place and then swaps elements upwards or     *)
(* downwards; every swap is an action.  Positions count from 1.            *)
(*                                                                         *)
(* Elements may be equal for the comparator, but are different keys: the   *)
(* table of positions holds one position for each.                         *)
(***************************************************************************)
EXTENDS Naturals, Sequences

CONSTANTS
  Pushed,    (* the values that are ever pushed                            *)
  Rank       (* Rank[e] : what the comparator compares                     *)

HeapAssumptions == Rank \in [Pushed -> Nat]

VARIABLES
  c,      (* _c                                                            *)
  indexs, (* _indexs                                                       *)
  at,     (* idx of upHeapify() or downHeapify(), 0 if none runs           *)
  dir,    (* which of the two runs: "up", "down" or "none"                 *)
  torn    (* history: an erase has put an element below a smaller one      *)

heapVars == <<c, indexs, at, dir, torn>>

(* _comp(x, y) *)
Comp(x, y) == Rank[x] < Rank[y]

Parent(i) == i \div 2

Idle == dir = "none"

HeapInit == c = <<>> /\ indexs = <<>> /\ at = 0 /\ dir = "none" /\ torn = FALSE

Heapify(d, i) == dir' = d /\ at' = i
Return == dir' = "none" /\ at' = 0

(* The positions after an element has been put at i. *)
Put(e, i) == [x \in DOMAIN indexs \cup {e} |-> IF x = e THEN i ELSE indexs[x]]

Without(f, e) == [x \in DOMAIN f \ {e} |-> f[x]]

(* push(x) and emplace(x) *)
Push(x) ==
  /\ Idle
  /\ x \notin DOMAIN indexs
  /\ c' = Append(c, x)
  /\ indexs' = Put(x, Len(c) + 1)
  /\ Heapify("up", Len(c) + 1)
  /\ UNCHANGED torn

(* Faulty variant: the changed element never goes up.                      *)
UpdateDown(x, y) ==
  /\ Idle
  /\ x \in DOMAIN indexs /\ y \notin DOMAIN indexs
  /\ indexs' = Without(Put(y, indexs[x]), x)
  /\ c' = [c EXCEPT ![indexs[x]] = y]
  /\ Heapify("down", indexs[x])
  /\ UNCHANGED torn

(* update(x, y); a y that is x, or is in the heap, would lose a position.  *)
Update(x, y) ==
  /\ Idle
  /\ x \in DOMAIN indexs /\ y \notin DOMAIN indexs
  /\ LET i == indexs[x] IN
       /\ indexs' = Without(Put(y, i), x)
       /\ c' = [c EXCEPT ![i] = y]
       /\ Heapify(IF Comp(x, y) THEN "up" ELSE "down", i)
  /\ UNCHANGED torn

(* c and indexs after swapNode(i, size - 1) and the removal of the last.   *)
MoveLast(i) ==
  LET last == c[Len(c)] IN
  /\ c' = [j \in 1 .. Len(c) - 1 |-> IF j = i THEN last ELSE c[j]]
  /\ indexs' = Without(Put(last, i), c[i])

(* erase(x): the element moved goes down, but never up. *)
Erase(x) ==
  /\ Idle
  /\ x \in DOMAIN indexs
  /\ LET i == indexs[x] IN
       /\ MoveLast(i)
       /\ Heapify("down", i)
       /\ torn' = (torn \/ (i \in 2 .. Len(c) - 1 /\ Comp(c[Parent(i)], c[Len(c)])))

(* pop(); of an empty heap it is not defined. *)
Pop ==
  /\ Idle
  /\ c # <<>>
  /\ MoveLast(1)
  /\ Heapify("down", 1)
  /\ UNCHANGED torn

(* swapNode(i, j) *)
Swap(i, j) ==
  /\ c' = [c EXCEPT ![i] = c[j], ![j] = c[i]]
  /\ indexs' = [indexs EXCEPT ![c[i]] = j, ![c[j]] = i]

(* The loop of upHeapify(). *)
Rises == at # 1 /\ Comp(c[Parent(at)], c[at])

Up ==
  /\ dir = "up"
  /\ IF Rises
     THEN Swap(Parent(at), at) /\ Heapify("up", Parent(at))
     ELSE UNCHANGED <<c, indexs>> /\ Return
  /\ UNCHANGED torn

(* The loop of downHeapify(): the better child, unless `at` is better.     *)
Child ==
  IF 2 * at < Len(c) /\ Comp(c[2 * at], c[2 * at + 1]) THEN 2 * at + 1 ELSE 2 * at

Sinks == 2 * at <= Len(c) /\ ~Comp(c[Child], c[at])

Down ==
  /\ dir = "down"
  /\ IF Sinks
     THEN Swap(at, Child) /\ Heapify("down", Child)
     ELSE UNCHANGED <<c, indexs>> /\ Return
  /\ UNCHANGED torn

HeapNext ==
  \/ \E x \in Pushed : Push(x) \/ Erase(x) \/ (\E y \in Pushed : Update(x, y))
  \/ Pop \/ Up \/ Down

HeapSpec == HeapInit /\ [][HeapNext]_heapVars

-----------------------------------------------------------------------------
(* Properties *)

(* Every variable has a value of its type. *)
HeapTypeOK ==
  /\ c \in Seq(Pushed)
  /\ at \in Nat /\ dir \in {"up", "down", "none"} /\ torn \in BOOLEAN

(* The table and the array agree at every moment.                          *)
Indexed ==
  /\ DOMAIN indexs = {c[i] : i \in 1 .. Len(c)}
  /\ \A i \in 1 .. Len(c) : indexs[c[i]] = i

(* Between two calls no element is greater than the one above it, unless   *)
(* an erase has torn the heap (datastruct.hpp:98, :110).                   *)
HeapOrdered ==
  Idle /\ ~torn => \A i \in 2 .. Len(c) : ~Comp(c[Parent(i)], c[i])

(* However calls and swaps follow each other, an element is found where it *)
(* is and nowhere else, and elements that are changed or erased in place   *)
(* do not leave the others out of order, but for the erasing of one whose  *)
(* replacement is too great (datastruct.hpp:90, :105, :133).               *)
HeapSound == Indexed /\ HeapOrdered

(* "Like std::priority_queue", top() is an element that no other is        *)
(* greater than (doc/tutorials/modules/algorithm/ra_heap.md:19-29).        *)
TopIsGreatest ==
  Idle => \A i \in 1 .. Len(c) : ~Comp(c[1], c[i])

=============================================================================
