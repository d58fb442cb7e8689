----------------------------- MODULE UnionFind -----------------------------
(***************************************************************************)
(* rm::UnionFind: sets of elements as trees, of which the smaller is hung  *)
(* below the larger, and every search shortens the paths it takes.  An     *)
(* action is a call.                                                       *)
(***************************************************************************)
EXTENDS Naturals, FiniteSets, Sequences, SequencesExt

CONSTANTS
  ForestInputs  (* what a structure is made of: sequences of elements       *)

ForestAssumptions ==
  ForestInputs # {} /\ \A s \in ForestInputs : s \in Seq(ToSet(s)) /\ s # <<>>

VARIABLES
  parents,    (* _parent_map                                               *)
  sizes,      (* _size_map                                                 *)
  components, (* _connected_component                                      *)
  input,      (* history : what the constructor was given                  *)
  joined      (* history : the sets, as the calls of merge() make them     *)

forestVars == <<parents, sizes, components, input, joined>>

Elements == DOMAIN parents

(* The constructor; it counts an element that comes twice twice.           *)
ForestInit ==
  /\ input \in ForestInputs
  /\ parents = [e \in ToSet(input) |-> e]
  /\ sizes = [e \in ToSet(input) |-> 1]
  /\ components = Len(input)
  /\ joined = {{e} : e \in ToSet(input)}

(* What findRep(e) returns: it climbs as long as there is a parent.        *)
Rep(p) == LET rep[e \in DOMAIN p] == IF p[e] = e THEN e ELSE rep[p[e]] IN rep

(* The steps that findRep(e) takes. *)
Depth(p) == LET depth[e \in DOMAIN p] == IF p[e] = e THEN 0 ELSE 1 + depth[p[e]] IN depth

Above(p, e) ==
  LET above[x \in DOMAIN p] == IF p[x] = x THEN {} ELSE {x} \cup above[p[x]] IN above[e]

(* The trees after findRep(e): all it has passed hangs at the root.        *)
Compressed(p, e) == [x \in DOMAIN p |-> IF x \in Above(p, e) THEN Rep(p)[e] ELSE p[x]]

(* connected(a, b) of two elements; an unknown one changes nothing.        *)
Connected(a, b) ==
  /\ parents' = Compressed(Compressed(parents, a), b)
  /\ UNCHANGED <<sizes, components, input, joined>>

(* The sets joined, of which x and y are. *)
Block(e) == CHOOSE s \in joined : e \in s

(* Faulty variant of Kept: the root of the smaller set stays.              *)
KeptSmaller(ra, rb) == IF sizes[ra] <= sizes[rb] THEN ra ELSE rb

(* The root that stays when ra and rb are joined: that of the larger set.  *)
Kept(ra, rb) == IF sizes[ra] >= sizes[rb] THEN ra ELSE rb

(* merge(a, b) *)
Merge(a, b) ==
  LET p == Compressed(Compressed(parents, a), b)
      ra == Rep(parents)[a]
      rb == Rep(parents)[b]
      large == Kept(ra, rb)
      small == IF large = ra THEN rb ELSE ra
  IN IF ra = rb
     THEN parents' = p /\ UNCHANGED <<sizes, components, input, joined>>
     ELSE /\ parents' = [p EXCEPT ![small] = large]
          /\ sizes' = [r \in DOMAIN sizes \ {small} |->
                        IF r = large THEN sizes[ra] + sizes[rb] ELSE sizes[r]]
          /\ components' = components - 1
          /\ joined' = (joined \ {Block(a), Block(b)}) \cup {Block(a) \cup Block(b)}
          /\ UNCHANGED input

(* extract(): searches every element, so that all trees are flat after it. *)
Extract ==
  /\ parents' = Rep(parents)
  /\ UNCHANGED <<sizes, components, input, joined>>

ForestNext == Extract \/ \E a, b \in Elements : Connected(a, b) \/ Merge(a, b)

ForestSpec == ForestInit /\ [][ForestNext]_forestVars

-----------------------------------------------------------------------------
(* Properties *)

(* Every variable has a value of its type. *)
ForestTypeOK ==
  /\ parents \in [Elements -> Elements]
  /\ DOMAIN sizes \subseteq Elements
  /\ components \in Nat

(* The powers of two. *)
TwoTo[n \in Nat] == IF n = 0 THEN 1 ELSE 2 * TwoTo[n - 1]

(* The trees are the sets that the calls have joined, each with its size   *)
(* at its root, and connected() says what is joined; the count is right if *)
(* no element was given twice; and a search never takes more steps than    *)
(* the logarithm of the set's size (datastruct.hpp:246-251, :277).         *)
Partition ==
  LET rep == Rep(parents) IN
  /\ \A a, b \in Elements : rep[a] = rep[b] <=> Block(a) = Block(b)
  /\ DOMAIN sizes = {rep[e] : e \in Elements}
  /\ \A e \in Elements : sizes[rep[e]] = Cardinality(Block(e))
  /\ components = Cardinality(joined) + Len(input) - Cardinality(Elements)
  /\ \A e \in Elements : TwoTo[Depth(parents)[e]] <= sizes[rep[e]]

=============================================================================
