--------------------------- MODULE SequentialProofs ---------------------------
(***************************************************************************)
(* What is proved of GridMap, RaHeap, OpcUa, UnionFind and                 *)
(* TransformBuffer, which each run one call at a time.                     *)
(*                                                                         *)
(* GridMap: a copy is what the map was at the copy's revision.  A call     *)
(* marks the cells that it may have changed one after another.             *)
(*                                                                         *)
(* RaHeap: HeapSound for heaps of every size over every order; the         *)
(* invariant adds to it what is known in the middle of upHeapify() and     *)
(* downHeapify(), of the element that is out of place and of its children. *)
(*                                                                         *)
(* OpcUa: CallbacksServed for any declared children, nodes, items and      *)
(* timers.  A call that adds a type is followed child by child, as the     *)
(* marking of cells is; that the callbacks of Client and of the timers can *)
(* be taken back is inductive with the types of their variables.           *)
(*                                                                         *)
(* UnionFind: Partition for any elements.  A search ends because ranks     *)
(* grow towards the root (the code keeps none: that there are some is what *)
(* is invariant), so that what the recursive definitions name is unique;   *)
(* shortening a path leaves every root where it is; and the root of a set  *)
(* of n elements has at most rank log n, as the smaller set is hung below. *)
(*                                                                         *)
(* TransformBuffer: the walks of lookup() end, the histories it reads are  *)
(* never empty, and no callback outlives the buffer.  A refused transform  *)
(* changes nothing; a transform of a new child is let in only if a set of  *)
(* frames that has the parents of its members has the new parent and not   *)
(* the child.  Were there a set without a root afterwards, its part within *)
(* that set would have been without a root before.                         *)
(* The path of a lookup joins two prefixes of the ways to the root.  Give  *)
(* every frame the pose it has in its root at one time: composed along a   *)
(* prefix the poses of the edges are what leads from its end to its start  *)
(* (AlongIs), so that a lookup of f in g is Inverted(W[g]) after W[f],     *)
(* whichever way it went, and any third frame between them cancels out.    *)
(***************************************************************************)
EXTENDS RaHeap, GridMap, OpcUa, UnionFind, TransformBuffer, Inductions, FiniteSetTheorems,
        SequenceTheorems

-----------------------------------------------------------------------------
(* The line is a sequence of pairs of numbers. *)

Lines == {s \in [cells : Seq(Int \X Int), error : Int] : s.cells # <<>>}

LEMMA StepsTyped ==
  ASSUME NEW a \in Int \X Int, NEW b \in Int \X Int, NEW inclusive \in BOOLEAN
  PROVE  Line(a, b, inclusive) \in Seq(Int \X Int) /\ Line(a, b, inclusive) # <<>>
<1> DEFINE dx == AbsDiff(b[1], a[1])
           dy == AbsDiff(b[2], a[2])
           Right(l) == 2 * l.error > -dy \/ (inclusive /\ 2 * l.error = -dy)
           Rise(l) == 2 * l.error < dx \/ (inclusive /\ 2 * l.error = dx)
           After(l) == <<IF Right(l) THEN Last(l.cells)[1] + Toward(a[1], b[1]) ELSE Last(l.cells)[1],
                         IF Rise(l) THEN Last(l.cells)[2] + Toward(a[2], b[2]) ELSE Last(l.cells)[2]>>
           Onward(l) == IF Last(l.cells) = b THEN l
                        ELSE [cells |-> Append(l.cells, After(l)),
                              error |-> l.error - (IF Right(l) THEN dy ELSE 0) + (IF Rise(l) THEN dx ELSE 0)]
           n == dx + dy
           l0 == [cells |-> <<a>>, error |-> dx - dy]
           step == [i \in 1 .. n |-> [l \in Lines |-> Onward(l)]]
<1>1. dx \in Nat /\ dy \in Nat /\ n \in Nat BY DEF AbsDiff
<1>2. l0 \in Lines
  <2>1. <<a>> \in Seq(Int \X Int) /\ <<a>> # <<>> OBVIOUS
  <2>2. dx - dy \in Int BY <1>1
  <2> HIDE DEF dx, dy
  <2> QED BY <2>1, <2>2 DEF Lines
<1>3. ASSUME NEW l \in Lines PROVE Onward(l) \in Lines
  <2>1. l.cells \in Seq(Int \X Int) /\ l.cells # <<>> /\ l.error \in Int BY DEF Lines
  <2>2. Last(l.cells) \in Int \X Int BY <2>1 DEF Last
  <2>3. After(l) \in Int \X Int BY <2>2 DEF Toward
  <2>4. Append(l.cells, After(l)) \in Seq(Int \X Int) /\ Append(l.cells, After(l)) # <<>>
    <3> HIDE DEF After
    <3> QED BY SMTT(120), <2>1, <2>3
  <2>5. l.error - (IF Right(l) THEN dy ELSE 0) + (IF Rise(l) THEN dx ELSE 0) \in Int
    <3> HIDE DEF dx, dy, Right, Rise
    <3> QED BY SMTT(120), <1>1, <2>1
  <2> HIDE DEF After, Right, Rise, dx, dy
  <2> QED BY <2>4, <2>5 DEF Lines
<1>4. step \in [1 .. n -> [Lines -> Lines]] BY <1>3
<1>5. PICK g : Follows(g, n, Lines, l0, step)
  <2>1. n \in Nat BY <1>1
  <2> HIDE DEF n, l0, step
  <2> QED BY <1>2, <1>4, <2>1, Recursion
<1>6. g = [i \in 0 .. n |-> IF i = 0 THEN l0 ELSE Onward(g[i - 1])]
  <2>1. ASSUME NEW i \in 0 .. n, i # 0 PROVE step[i][g[i - 1]] = Onward(g[i - 1])
    <3>1. i \in 1 .. n /\ i - 1 \in 0 .. n BY <1>1, <2>1
    <3>2. g[i - 1] \in Lines
      <4> HIDE DEF n, l0, step
      <4> QED BY <1>5, <3>1 DEF Follows
    <3> HIDE DEF Onward, n
    <3> QED BY <3>1, <3>2
  <2> HIDE DEF step, Onward, l0, n
  <2> QED BY <1>5, <2>1 DEF Follows
<1>7. PICK f : /\ f = [i \in 0 .. n |-> IF i = 0 THEN l0 ELSE Onward(f[i - 1])]
               /\ Line(a, b, inclusive) = f[n].cells
  <2> DEFINE d == CHOOSE d : d = [i \in 0 .. n |-> IF i = 0 THEN l0 ELSE Onward(d[i - 1])]
  <2>1. Line(a, b, inclusive) = d[n].cells BY DEF Line, Steps
  <2>2. d = [i \in 0 .. n |-> IF i = 0 THEN l0 ELSE Onward(d[i - 1])]
    <3> HIDE DEF n, l0, Onward
    <3> QED BY <1>6
  <2> HIDE DEF d, n, l0, Onward
  <2> QED BY <2>1, <2>2
<1> DEFINE T == {i \in Nat : i <= n => f[i] \in Lines}
<1>8. 0 \in T
  <2>1. f[0] = l0
    <3> HIDE DEF l0, Onward
    <3>1. 0 \in 0 .. n BY <1>1
    <3> HIDE DEF n
    <3> QED BY <1>7, <3>1
  <2> HIDE DEF l0
  <2> QED BY <1>2, <2>1
<1>9. ASSUME NEW i \in Nat, i \in T PROVE i + 1 \in T
  <2> SUFFICES ASSUME i + 1 <= n PROVE f[i + 1] \in Lines OBVIOUS
  <2>1. i + 1 \in 0 .. n /\ i + 1 # 0 /\ (i + 1) - 1 = i /\ i <= n BY <1>1
  <2>2. f[i] \in Lines BY <1>9, <2>1
  <2>3. f[i + 1] = Onward(f[i])
    <3> HIDE DEF n, l0, Onward
    <3> QED BY <1>7, <2>1
  <2> HIDE DEF n, l0, Onward
  <2> QED BY <1>3, <2>2, <2>3
<1>10. n \in T
  <2> HIDE DEF T
  <2> QED BY <1>1, <1>8, <1>9, SetInduction
<1> HIDE DEF n
<1>11. f[n] \in Lines BY <1>10
<1> QED BY <1>7, <1>11 DEF Lines

-----------------------------------------------------------------------------
(* The rectangle of what has changed. *)

Inside(d, k) == \A i \in {1, 2} : d.lo[i] <= k[i] /\ k[i] <= d.hi[i]

(* Marking a cell takes it in, and nothing out. *)
LEMMA MarkGrows ==
  ASSUME None \notin Regions, NEW d \in Regions \cup {None}, NEW k \in Int \X Int, NEW base \in Nat
  PROVE  /\ Mark(d, k, base) \in Regions
         /\ Mark(d, k, base).base = IF d = None THEN base ELSE d.base
         /\ Inside(Mark(d, k, base), k)
<1>1. CASE d = None
  BY <1>1 DEF Mark, Inside, Regions
<1>2. CASE d # None
  <2>1. d \in Regions BY <1>2
  <2>2. \A a, b \in Int : /\ Smaller(a, b) \in Int /\ Smaller(a, b) <= a /\ Smaller(a, b) <= b
                         /\ Larger(a, b) \in Int /\ a <= Larger(a, b) /\ b <= Larger(a, b)
    BY DEF Smaller, Larger
  <2>3. Mark(d, k, base) = [base |-> d.base,
                            lo |-> <<Smaller(d.lo[1], k[1]), Smaller(d.lo[2], k[2])>>,
                            hi |-> <<Larger(d.hi[1], k[1]), Larger(d.hi[2], k[2])>>]
    BY <1>2 DEF Mark
  <2>4. Mark(d, k, base) \in Regions /\ Mark(d, k, base).base = d.base
    BY <2>1, <2>2, <2>3 DEF Regions
  <2>5. Inside(Mark(d, k, base), k)
    <3>1. Smaller(d.lo[1], k[1]) <= k[1] /\ Smaller(d.lo[2], k[2]) <= k[2]
          /\ k[1] <= Larger(d.hi[1], k[1]) /\ k[2] <= Larger(d.hi[2], k[2])
      BY <2>1, <2>2 DEF Regions
    <3> QED BY <2>3, <3>1 DEF Inside
  <2> QED BY <1>2, <2>4, <2>5
<1> QED BY <1>1, <1>2

LEMMA MarkKeeps ==
  ASSUME None \notin Regions, NEW d \in Regions, NEW k \in Int \X Int, NEW base \in Nat,
         NEW x \in Int \X Int, Inside(d, x)
  PROVE  Inside(Mark(d, k, base), x)
<1>1. d.lo \in Int \X Int /\ d.hi \in Int \X Int BY DEF Regions
<1>2. d.lo[1] <= x[1] /\ d.lo[2] <= x[2] /\ x[1] <= d.hi[1] /\ x[2] <= d.hi[2] BY DEF Inside
<1>3. Smaller(d.lo[1], k[1]) <= x[1] /\ Smaller(d.lo[2], k[2]) <= x[2]
      /\ x[1] <= Larger(d.hi[1], k[1]) /\ x[2] <= Larger(d.hi[2], k[2])
  BY <1>1, <1>2 DEF Smaller, Larger
<1> QED BY <1>3 DEF Mark, Inside

(* What is known of the rectangle after i of the cells. *)
MarkedSoFar(d, new, cells, i) ==
  /\ d = None =>
       dirty = None /\ \A j \in 1 .. i : new[cells[j]] = data[cells[j]]
  /\ d # None =>
       /\ d \in Regions /\ d.base = (IF dirty = None THEN revision ELSE dirty.base)
       /\ \A j \in 1 .. i : new[cells[j]] # data[cells[j]] => Inside(d, cells[j])
       /\ dirty # None => \A x \in Int \X Int : Inside(dirty, x) => Inside(d, x)

LEMMA MarkedCovers ==
  ASSUME None \notin Regions, dirty \in Regions \cup {None}, revision \in Nat,
         NEW new, NEW cells \in Seq(Int \X Int)
  PROVE  MarkedSoFar(Marked(new, cells)[Len(cells)], new, cells, Len(cells))
<1> DEFINE S == Regions \cup {None}
           n == Len(cells)
           Onward(i, d) == IF new[cells[i]] = data[cells[i]] THEN d ELSE Mark(d, cells[i], revision)
           step == [i \in 1 .. n |-> [d \in S |-> Onward(i, d)]]
<1>1. n \in Nat /\ \A i \in 1 .. n : cells[i] \in Int \X Int OBVIOUS
<1>2. \A i \in 1 .. n : \A d \in S : Onward(i, d) \in S BY <1>1, MarkGrows
<1>3. step \in [1 .. n -> [S -> S]]
  <2> HIDE DEF Onward, n, S
  <2> QED BY <1>2
<1>4. PICK g : Follows(g, n, S, dirty, step)
  <2> HIDE DEF step, n
  <2>1. dirty \in S OBVIOUS
  <2> HIDE DEF S
  <2> QED BY <1>1, <1>3, <2>1, Recursion
<1>5. g = [i \in 0 .. n |-> IF i = 0 THEN dirty ELSE Onward(i, g[i - 1])]
  <2>1. ASSUME NEW i \in 0 .. n, i # 0 PROVE step[i][g[i - 1]] = Onward(i, g[i - 1])
    <3>1. i \in 1 .. n /\ i - 1 \in 0 .. n BY <1>1, <2>1
    <3>2. g[i - 1] \in S
      <4> HIDE DEF n, S, step
      <4> QED BY <1>4, <3>1 DEF Follows
    <3> HIDE DEF Onward, n, S
    <3> QED BY <3>1, <3>2
  <2> HIDE DEF step, Onward, n, S
  <2> QED BY <1>4, <2>1 DEF Follows
<1>6. PICK f : /\ f = [i \in 0 .. n |-> IF i = 0 THEN dirty ELSE Onward(i, f[i - 1])]
               /\ Marked(new, cells) = f
  <2> DEFINE h == CHOOSE h : h = [i \in 0 .. n |-> IF i = 0 THEN dirty ELSE Onward(i, h[i - 1])]
  <2>1. Marked(new, cells) = h BY DEF Marked
  <2>2. h = [i \in 0 .. n |-> IF i = 0 THEN dirty ELSE Onward(i, h[i - 1])]
    <3> HIDE DEF n, Onward
    <3> QED BY <1>5
  <2> HIDE DEF h, n, Onward
  <2> QED BY <2>1, <2>2
<1> DEFINE T == {i \in Nat : i <= n => f[i] \in S /\ MarkedSoFar(f[i], new, cells, i)}
<1>7. 0 \in T
  <2>1. f[0] = dirty
    <3> HIDE DEF Onward
    <3>1. 0 \in 0 .. n BY <1>1
    <3> HIDE DEF n
    <3> QED BY <1>6, <3>1
  <2> QED BY <2>1 DEF MarkedSoFar
<1>8. ASSUME NEW i \in Nat, i \in T PROVE i + 1 \in T
  <2> SUFFICES ASSUME i + 1 <= n
               PROVE  f[i + 1] \in S /\ MarkedSoFar(f[i + 1], new, cells, i + 1)
    OBVIOUS
  <2>1. i + 1 \in 0 .. n /\ i + 1 \in 1 .. n /\ i + 1 # 0 /\ (i + 1) - 1 = i /\ i <= n
        /\ 1 .. i + 1 = (1 .. i) \cup {i + 1}
    BY SMTT(30), <1>1
  <2>2. f[i] \in S /\ MarkedSoFar(f[i], new, cells, i) BY <1>8, <2>1
  <2>3. f[i + 1] = Onward(i + 1, f[i])
    <3> HIDE DEF n, Onward
    <3> QED BY <1>6, <2>1
  <2>4. CASE new[cells[i + 1]] = data[cells[i + 1]]
    <3>1. f[i + 1] = f[i] BY <2>3, <2>4
    <3> HIDE DEF n
    <3> QED BY <2>1, <2>2, <2>4, <3>1 DEF MarkedSoFar
  <2>5. CASE new[cells[i + 1]] # data[cells[i + 1]]
    <3> DEFINE d == Mark(f[i], cells[i + 1], revision)
    <3>1. f[i + 1] = d BY <2>3, <2>5
    <3>2. cells[i + 1] \in Int \X Int BY <1>1, <2>1
    <3>3. \A j \in 1 .. i : cells[j] \in Int \X Int BY <1>1, <2>1
    <3>4. d \in Regions /\ d.base = (IF f[i] = None THEN revision ELSE f[i].base)
          /\ Inside(d, cells[i + 1])
      <4> DEFINE before == f[i]
                 k == cells[i + 1]
      <4>1. before \in Regions \cup {None} /\ k \in Int \X Int
        BY <2>2, <3>2
      <4> HIDE DEF before, k, n, T, step
      <4>2. \A x \in Regions \cup {None}, cell \in Int \X Int :
              /\ Mark(x, cell, revision) \in Regions
              /\ Mark(x, cell, revision).base = IF x = None THEN revision ELSE x.base
              /\ Inside(Mark(x, cell, revision), cell)
        BY MarkGrows
      <4> QED BY <4>1, <4>2 DEF before, k
    <3>4a. f[i] # None => \A x \in Int \X Int : Inside(f[i], x) => Inside(d, x)
      BY <2>2, <3>2, MarkKeeps
    <3> HIDE DEF d, n
    <3>5. d # None BY <3>4
    <3>6. \A j \in 1 .. i : new[cells[j]] # data[cells[j]] => Inside(d, cells[j])
      BY <2>2, <3>3, <3>4a DEF MarkedSoFar
    <3> QED BY <2>1, <2>2, <3>1, <3>4, <3>4a, <3>5, <3>6 DEF MarkedSoFar
  <2> QED BY <2>4, <2>5
<1>9. n \in T
  <2> HIDE DEF T
  <2> QED BY <1>1, <1>7, <1>8, SetInduction
<1>10. MarkedSoFar(f[n], new, cells, n)
  <2> HIDE DEF n
  <2> QED BY <1>1, <1>9
<1> QED BY <1>6, <1>10

-----------------------------------------------------------------------------
(* The invariant of the map and its copies *)

MapTypes ==
  /\ data \in Grids /\ revision \in Nat
  /\ past \in [0 .. revision -> Grids] /\ past[revision] = data
  /\ copy \in [Copies -> {None} \cup [data : Grids, revision : Nat]]

(* Outside of the rectangle nothing has changed since its base. *)
DirtyCovers ==
  dirty # None =>
    /\ dirty \in Regions /\ dirty.base < revision
    /\ \A k \in Cells : ~Inside(dirty, k) => past[dirty.base][k] = data[k]

(* A message with a base leads from there to its revision. *)
Leads(m) ==
  /\ m.revision \in 0 .. revision
  /\ m.base = None => m.data = past[m.revision]
  /\ m.base # None =>
       /\ m.base \in Nat /\ m.base < m.revision
       /\ \A k \in DOMAIN m.data : m.data[k] = past[m.revision][k]
       /\ \A k \in Cells \ DOMAIN m.data : past[m.base][k] = past[m.revision][k]

IsPast(x) == x # None => x.revision \in 0 .. revision /\ x.data = past[x.revision]

GridInv ==
  /\ MapTypes /\ DirtyCovers
  /\ \A m \in sent : Leads(m)
  /\ \A e \in Copies : IsPast(copy[e])

LEMMA CellsAreNumbers == ASSUME GridAssumptions PROVE Cells \subseteq Int \X Int
BY DEF Cells, GridAssumptions

(* A change of the owner's map is a new revision, and its rectangle covers *)
(* it.                                                                     *)
LEMMA ChangeKeeps ==
  ASSUME GridAssumptions, GridInv, NEW new \in Grids, NEW cells \in Seq(Int \X Int),
         \A k \in Cells : new[k] # data[k] => \E i \in 1 .. Len(cells) : cells[i] = k,
         Change(new, cells)
  PROVE  GridInv'
<1> DEFINE d == Marked(new, cells)[Len(cells)]
<1>1. MapTypes /\ DirtyCovers BY DEF GridInv
<1>2. new # data /\ data' = new /\ revision' = revision + 1 /\ dirty' = d /\ UNCHANGED <<sent, copy>>
      /\ past' = [r \in DOMAIN past \cup {revision'} |-> IF r = revision' THEN new ELSE past[r]]
  BY DEF Change
<1>3. None \notin Regions /\ revision \in Nat /\ dirty \in Regions \cup {None}
  BY <1>1 DEF GridAssumptions, MapTypes, DirtyCovers
<1>4. MarkedSoFar(d, new, cells, Len(cells)) BY <1>3, MarkedCovers
<1> HIDE DEF d
<1>5. DOMAIN past = 0 .. revision /\ 0 .. revision + 1 = (0 .. revision) \cup {revision + 1}
      /\ \A r \in 0 .. revision : past[r] \in Grids
  BY <1>1 DEF MapTypes
<1>6. past' \in [0 .. revision' -> Grids] /\ past'[revision'] = new
      /\ \A r \in 0 .. revision : past'[r] = past[r]
  BY <1>1, <1>2, <1>3, <1>5
<1>7. MapTypes' BY <1>1, <1>2, <1>6 DEF MapTypes
<1>8. \A k \in Cells : k \in Int \X Int BY CellsAreNumbers
<1>9. DirtyCovers'
  <2>1. d # None
    <3> SUFFICES ASSUME d = None PROVE FALSE OBVIOUS
    <3>1. \A k \in Cells : new[k] = data[k] BY <1>4 DEF MarkedSoFar
    <3>2. new = data BY <1>1, <3>1 DEF MapTypes, Grids
    <3> QED BY <1>2, <3>2
  <2>2. d \in Regions /\ d.base \in Nat BY <1>4, <2>1 DEF MarkedSoFar, Regions
  <2>3. d.base <= revision BY <1>1, <1>3, <1>4, <2>1 DEF MarkedSoFar, DirtyCovers, Regions
  <2>4. ASSUME NEW k \in Cells, ~Inside(d, k) PROVE past'[d.base][k] = new[k]
    <3>1. new[k] = data[k] BY <1>4, <2>1, <2>4 DEF MarkedSoFar
    <3>2. CASE dirty = None
      <4>1. d.base = revision BY <1>4, <2>1, <3>2 DEF MarkedSoFar
      <4> QED BY <1>1, <1>3, <1>6, <3>1, <4>1 DEF MapTypes
    <3>3. CASE dirty # None
      <4>1. ~Inside(dirty, k) /\ d.base = dirty.base BY <1>4, <1>8, <2>1, <2>4, <3>3 DEF MarkedSoFar
      <4>2. past[dirty.base][k] = data[k] /\ dirty.base \in 0 .. revision
        BY <1>1, <1>3, <3>3, <4>1 DEF DirtyCovers, Regions
      <4> QED BY <1>6, <3>1, <4>1, <4>2
    <3> QED BY <3>2, <3>3
  <2>5. d.base < revision' /\ dirty' = d /\ data' = new BY <1>2, <1>3, <2>2, <2>3
  <2>6. \A k \in Cells : Inside(dirty, k)' <=> Inside(d, k) BY <1>2 DEF Inside
  <2> QED BY <2>2, <2>4, <2>5, <2>6 DEF DirtyCovers
<1>10. ASSUME NEW m \in sent' PROVE Leads(m)'
  <2>1. Leads(m) BY <1>2 DEF GridInv
  <2>2. m.revision \in 0 .. revision /\ m.revision \in 0 .. revision' /\ past'[m.revision] = past[m.revision]
    BY <1>2, <1>3, <1>6, <2>1 DEF Leads
  <2>3. m.base # None => past'[m.base] = past[m.base]
    <3> SUFFICES ASSUME m.base # None PROVE past'[m.base] = past[m.base] OBVIOUS
    <3>1. m.base \in Nat /\ m.base < m.revision BY <2>1 DEF Leads
    <3>2. m.base \in 0 .. revision BY <1>3, <2>2, <3>1
    <3> QED BY <1>6, <3>2
  <2> QED BY <2>1, <2>2, <2>3 DEF Leads
<1>11. ASSUME NEW e \in Copies PROVE IsPast(copy[e])'
  <2>1. IsPast(copy[e]) /\ copy'[e] = copy[e] BY <1>2 DEF GridInv
  <2> QED BY <1>2, <1>3, <1>6, <2>1 DEF IsPast
<1> QED BY <1>7, <1>9, <1>10, <1>11 DEF GridInv

LEMMA SetValueKeeps ==
  ASSUME GridAssumptions, GridInv, NEW s \in Settings, SetValue(s[1], s[2])
  PROVE  GridInv'
<1>1. s[1] \in Cells /\ s[2] \in Values /\ data \in [Cells -> Values]
  BY DEF GridAssumptions, GridInv, MapTypes, Grids
<1> DEFINE new == [data EXCEPT ![s[1]] = s[2]]
           cells == <<s[1]>>
<1>2. new \in Grids BY <1>1 DEF Grids
<1>3. cells \in Seq(Int \X Int) /\ Len(cells) = 1 /\ cells[1] = s[1] BY <1>1, CellsAreNumbers
<1>4. \A k \in Cells : new[k] # data[k] => k = s[1] BY <1>1
<1>5. Change(new, cells) BY DEF SetValue
<1> HIDE DEF new, cells
<1> QED BY <1>2, <1>3, <1>4, <1>5, ChangeKeeps

LEMMA UpdateProbabilityKeeps ==
  ASSUME GridAssumptions, GridInv, NEW o \in Observations, UpdateProbability(o[1], o[2])
  PROVE  GridInv'
<1>1. o[1] \in Cells /\ data \in [Cells -> Values] /\ \A v \in Values : ProbabilityUpdate(v, o[2]) \in Values
  BY DEF GridAssumptions, GridInv, MapTypes, Grids
<1> DEFINE new == [data EXCEPT ![o[1]] = ProbabilityUpdate(@, o[2])]
           cells == <<o[1]>>
<1>2. new \in Grids BY <1>1 DEF Grids
<1>3. cells \in Seq(Int \X Int) /\ Len(cells) = 1 /\ cells[1] = o[1] BY <1>1, CellsAreNumbers
<1>4. \A k \in Cells : new[k] # data[k] => k = o[1] BY <1>1
<1>5. Change(new, cells) BY DEF UpdateProbability
<1> HIDE DEF new, cells
<1> QED BY <1>2, <1>3, <1>4, <1>5, ChangeKeeps

LEMMA IntegrateRayKeeps ==
  ASSUME GridAssumptions, GridInv, NEW ray \in Rays, IntegrateRay(ray)
  PROVE  GridInv'
<1> DEFINE cells == Raster(ray.from, ray.to)
           Evidence(k) == IF ray.hit /\ k = Last(cells) THEN ray.occupied ELSE ray.free
           new == [k \in Cells |-> IF k \in ToSet(cells) THEN ProbabilityUpdate(data[k], Evidence(k)) ELSE data[k]]
<1>1. ray.from \in Int \X Int /\ ray.to \in Int \X Int BY CellsAreNumbers DEF GridAssumptions
<1>2. cells \in Seq(Int \X Int) BY <1>1, StepsTyped DEF Raster
<1>3. \A v \in Values : ProbabilityUpdate(v, ray.free) \in Values /\ ProbabilityUpdate(v, ray.occupied) \in Values
  BY DEF GridAssumptions
<1>4. data \in [Cells -> Values] BY DEF GridInv, MapTypes, Grids
<1>5. Change(new, cells) BY DEF IntegrateRay
<1> HIDE DEF cells
<1>6. new \in Grids BY <1>3, <1>4 DEF Grids
<1>7. ASSUME NEW k \in Cells, new[k] # data[k] PROVE \E i \in 1 .. Len(cells) : cells[i] = k
  <2>1. k \in ToSet(cells) BY <1>7
  <2> QED BY SMTT(120), <1>2, <2>1 DEF ToSet
<1> HIDE DEF new
<1> QED BY <1>2, <1>5, <1>6, <1>7, ChangeKeeps

-----------------------------------------------------------------------------
(* What is published and what becomes of it *)

LEMMA PublishKeeps ==
  ASSUME GridAssumptions, GridInv, PublishUpdate \/ ClearPendingUpdate \/ PublishMap
  PROVE  GridInv'
<1>1. UNCHANGED <<data, revision, copy, past>> /\ (dirty' = dirty \/ dirty' = None)
  BY DEF PublishUpdate, ClearPendingUpdate, PublishMap
<1>2. MapTypes' /\ DirtyCovers'
  BY <1>1 DEF GridInv, MapTypes, DirtyCovers, Inside
<1>3. \A e \in Copies : IsPast(copy[e])' BY <1>1 DEF GridInv, IsPast
<1>4. ASSUME NEW m \in sent' PROVE Leads(m)'
  <2> SUFFICES Leads(m) BY <1>1 DEF Leads
  <2>1. MapTypes BY DEF GridInv
  <2>2. CASE m \in sent BY <2>2 DEF GridInv
  <2>3. CASE PublishMap /\ m = [base |-> None, revision |-> revision, data |-> data]
    BY <2>1, <2>3 DEF Leads, MapTypes
  <2>4. CASE PublishUpdate /\ m = Pending
    <3>1. dirty # None /\ dirty \in Regions /\ dirty.base < revision /\ dirty.base \in Nat
      BY <2>4 DEF PublishUpdate, GridInv, DirtyCovers, Regions
    <3>2. m.base = dirty.base /\ m.revision = revision /\ m.base # None
          /\ m.data = [k \in Rectangle(dirty.lo, dirty.hi) |-> data[k]]
      BY <2>4, <3>1 DEF Pending, GridAssumptions
    <3>3. \A k \in Cells : k \in Rectangle(dirty.lo, dirty.hi) <=> Inside(dirty, k)
      BY DEF Rectangle, Inside
    <3>4. Rectangle(dirty.lo, dirty.hi) \subseteq Cells BY DEF Rectangle
    <3>5. \A k \in Cells \ DOMAIN m.data : past[m.base][k] = data[k]
      BY <3>1, <3>2, <3>3 DEF GridInv, DirtyCovers
    <3>6. \A k \in DOMAIN m.data : m.data[k] = data[k] BY <3>2
    <3> QED BY <2>1, <3>1, <3>2, <3>5, <3>6 DEF Leads, MapTypes
  <2> QED BY <2>2, <2>3, <2>4 DEF PublishUpdate, ClearPendingUpdate, PublishMap
<1> QED BY <1>2, <1>3, <1>4 DEF GridInv

LEMMA CopyKeeps ==
  ASSUME GridAssumptions, GridInv, NEW e \in Copies, NEW m \in sent,
         ReceiveMap(e, m) \/ Apply(e, m)
  PROVE  GridInv'
<1>1. UNCHANGED <<data, revision, dirty, sent, past>> BY DEF ReceiveMap, Apply
<1>2. Leads(m) /\ MapTypes /\ IsPast(copy[e]) BY DEF GridInv
<1>3. m.revision \in 0 .. revision /\ past[m.revision] \in Grids BY <1>2 DEF Leads, MapTypes
<1>4. PICK x : /\ copy' = [copy EXCEPT ![e] = x] /\ x \in [data : Grids, revision : Nat]
               /\ x.revision = m.revision /\ x.data = past[m.revision]
  <2>1. CASE ReceiveMap(e, m)
    <3> DEFINE x == [data |-> m.data, revision |-> m.revision]
    <3>1. copy' = [copy EXCEPT ![e] = x] /\ m.data = past[m.revision] BY <1>2, <2>1 DEF ReceiveMap, Leads
    <3>2. x.revision = m.revision /\ x.data = past[m.revision] BY <3>1
    <3>3. x \in [data : Grids, revision : Nat] BY <1>2, <1>3, <3>1 DEF MapTypes
    <3> HIDE DEF x
    <3> QED BY <3>1, <3>2, <3>3
  <2>2. CASE Apply(e, m)
    <3> DEFINE grid == [k \in Cells |-> IF k \in DOMAIN m.data THEN m.data[k] ELSE copy[e].data[k]]
               x == [data |-> grid, revision |-> m.revision]
    <3>1. copy' = [copy EXCEPT ![e] = x] /\ m.base # None /\ copy[e] # None /\ m.base = copy[e].revision
      BY <2>2 DEF Apply
    <3>2. copy[e].data = past[m.base] BY <1>2, <3>1 DEF IsPast
    <3>3. \A k \in Cells : grid[k] = past[m.revision][k]
      BY <1>2, <3>1, <3>2 DEF Leads
    <3>4. grid = past[m.revision]
      <4> HIDE DEF grid
      <4>1. grid = [k \in Cells |-> grid[k]] BY DEF grid
      <4>2. past[m.revision] = [k \in Cells |-> past[m.revision][k]] BY <1>3 DEF Grids
      <4> QED BY <3>3, <4>1, <4>2
    <3> HIDE DEF grid
    <3>5. x \in [data : Grids, revision : Nat] BY <1>2, <1>3, <3>4 DEF MapTypes
    <3>6. x.revision = m.revision /\ x.data = past[m.revision] BY <3>4
    <3> HIDE DEF x
    <3> QED BY <3>1, <3>5, <3>6
  <2> QED BY <2>1, <2>2
<1>5. copy' \in [Copies -> {None} \cup [data : Grids, revision : Nat]] BY <1>2, <1>4 DEF MapTypes
<1>6. ASSUME NEW f \in Copies PROVE IsPast(copy[f])'
  <2>1. copy'[f] = IF f = e THEN x ELSE copy[f] BY <1>2, <1>4 DEF MapTypes
  <2>2. IsPast(copy[f]) BY DEF GridInv
  <2> QED BY <1>1, <1>3, <1>4, <2>1, <2>2 DEF IsPast
<1>7. MapTypes' BY <1>1, <1>2, <1>5 DEF MapTypes
<1>8. DirtyCovers' /\ \A l \in sent' : Leads(l)'
  BY <1>1 DEF GridInv, DirtyCovers, Inside, Leads
<1> QED BY <1>6, <1>7, <1>8 DEF GridInv

-----------------------------------------------------------------------------
(* A copy that has received a map and any of the updates, in any order and *)
(* as often as they come, is what the owner's map was at the revision that *)
(* the copy shows (ReplicasAgree); for grids of any size and any changes.  *)
THEOREM CopiesAgree == ASSUME GridAssumptions PROVE GridSpec => []ReplicasAgree
<1>1. GridInit => GridInv
  <2> SUFFICES ASSUME GridInit PROVE GridInv OBVIOUS
  <2>1. data \in Grids /\ revision = 0 /\ dirty = None /\ sent = {} /\ copy = [e \in Copies |-> None]
        /\ past = [r \in {0} |-> data]
    BY DEF GridInit, Grids, GridAssumptions
  <2>2. 0 .. 0 = {0} OBVIOUS
  <2>3. MapTypes BY <2>1, <2>2 DEF MapTypes
  <2> QED BY <2>1, <2>3 DEF GridInv, DirtyCovers, IsPast
<1>2. GridInv /\ [GridNext]_gridVars => GridInv'
  <2> SUFFICES ASSUME GridInv, [GridNext]_gridVars PROVE GridInv' OBVIOUS
  <2>1. CASE UNCHANGED gridVars
    <3>1. UNCHANGED <<data, revision, dirty, sent, copy, past>> BY <2>1 DEF gridVars
    <3> QED BY <3>1 DEF GridInv, MapTypes, DirtyCovers, Inside, Leads, IsPast
  <2>2. CASE GridNext
    BY <2>2, SetValueKeeps, UpdateProbabilityKeeps, IntegrateRayKeeps, PublishKeeps, CopyKeeps
    DEF GridNext
  <2> QED BY <2>1, <2>2
<1>3. GridInv => ReplicasAgree BY DEF GridInv, IsPast, ReplicasAgree
<1> QED BY <1>1, <1>2, <1>3, PTL DEF GridSpec

-----------------------------------------------------------------------------

Fits(i) == ~Comp(c[Parent(i)], c[i])

Types ==
  /\ c \in Seq(Pushed)
  /\ at \in Nat /\ dir \in {"up", "down", "none"} /\ torn \in BOOLEAN
  /\ dir = "up" => at \in 1 .. Len(c)
  /\ dir = "down" => at \in 1 .. Len(c) + 1

(* The children of the element out of place fit below its parent. *)
Grandchildren ==
  \A i \in 2 .. Len(c) : Parent(i) = at /\ at # 1 => ~Comp(c[Parent(at)], c[i])

InOrderBut ==
  ~torn =>
    /\ dir = "none" => \A i \in 2 .. Len(c) : Fits(i)
    /\ dir = "up" => Grandchildren /\ \A i \in 2 .. Len(c) : i # at => Fits(i)
    /\ dir = "down" => Grandchildren /\ \A i \in 2 .. Len(c) : Parent(i) # at => Fits(i)

HeapInv == Types /\ Indexed /\ InOrderBut

-----------------------------------------------------------------------------
(* Halving: what the parent of a position is. *)
LEMMA ParentOf ==
  ASSUME NEW i \in Nat
  PROVE  /\ Parent(i) \in Nat
         /\ 2 * Parent(i) <= i /\ i <= 2 * Parent(i) + 1
         /\ \A j \in Nat : 2 * j <= i /\ i <= 2 * j + 1 => Parent(i) = j
BY DEF Parent

LEMMA ParentBelow ==
  ASSUME NEW n \in Nat
  PROVE  \A i \in 2 .. n : Parent(i) \in 1 .. n /\ Parent(i) < i /\ Parent(i) # i
BY DEF Parent

(* Two positions hold different elements. *)
LEMMA Distinct ==
  ASSUME Indexed, NEW i \in 1 .. Len(c), NEW j \in 1 .. Len(c), c[i] = c[j]
  PROVE  i = j
BY DEF Indexed

(* The comparator is a strict weak order. *)
LEMMA Order ==
  ASSUME HeapAssumptions, NEW x \in Pushed, NEW y \in Pushed
  PROVE  /\ Comp(x, y) => ~Comp(y, x)
         /\ \A z \in Pushed : ~Comp(x, y) /\ ~Comp(y, z) => ~Comp(x, z)
         /\ \A z \in Pushed : Comp(x, y) /\ ~Comp(z, y) => ~Comp(z, x)
BY DEF HeapAssumptions, Comp

(* swapNode() keeps table and array together. *)
LEMMA SwapIndexed ==
  ASSUME Types, Indexed, NEW i \in 1 .. Len(c), NEW j \in 1 .. Len(c), Swap(i, j)
  PROVE  /\ c' \in Seq(Pushed) /\ Len(c') = Len(c)
         /\ \A k \in 1 .. Len(c) : c'[k] = IF k = j THEN c[i] ELSE IF k = i THEN c[j] ELSE c[k]
         /\ Indexed'
<1>1. /\ c' \in Seq(Pushed) /\ Len(c') = Len(c)
      /\ \A k \in 1 .. Len(c) : c'[k] = IF k = j THEN c[i] ELSE IF k = i THEN c[j] ELSE c[k]
  BY DEF Types, Swap
<1>2. DOMAIN indexs' = DOMAIN indexs
  BY DEF Swap
<1>3. {c'[k] : k \in 1 .. Len(c')} = {c[k] : k \in 1 .. Len(c)}
  <2>1. ASSUME NEW k \in 1 .. Len(c) PROVE \E l \in 1 .. Len(c) : c'[k] = c[l]
    BY <1>1
  <2>2. ASSUME NEW k \in 1 .. Len(c) PROVE \E l \in 1 .. Len(c) : c[k] = c'[l]
    <3>1. c'[i] = c[j] /\ c'[j] = c[i]
      BY <1>1
    <3>2. k # i /\ k # j => c'[k] = c[k]
      BY <1>1
    <3> QED BY <3>1, <3>2
  <2>3. {c'[k] : k \in 1 .. Len(c)} = {c[k] : k \in 1 .. Len(c)}
    <3>1. ASSUME NEW x \in {c'[k] : k \in 1 .. Len(c)} PROVE x \in {c[k] : k \in 1 .. Len(c)}
      <4>1. PICK k \in 1 .. Len(c) : x = c'[k] OBVIOUS
      <4> QED BY <4>1, <2>1
    <3>2. ASSUME NEW x \in {c[k] : k \in 1 .. Len(c)} PROVE x \in {c'[k] : k \in 1 .. Len(c)}
      <4>1. PICK k \in 1 .. Len(c) : x = c[k] OBVIOUS
      <4> QED BY <4>1, <2>2
    <3> QED BY <3>1, <3>2
  <2> QED BY <1>1, <2>3
<1>4. ASSUME NEW k \in 1 .. Len(c) PROVE indexs'[c'[k]] = k
  <2>1. c[i] \in DOMAIN indexs /\ c[j] \in DOMAIN indexs /\ c[k] \in DOMAIN indexs
    BY DEF Indexed
  <2>2. \A e \in DOMAIN indexs :
          indexs'[e] = IF e = c[j] THEN i ELSE IF e = c[i] THEN j ELSE indexs[e]
    BY <2>1 DEF Swap
  <2>3. indexs[c[k]] = k /\ indexs[c[i]] = i /\ indexs[c[j]] = j
    BY DEF Indexed
  <2> QED BY <1>1, <2>1, <2>2, <2>3
<1> QED BY <1>1, <1>2, <1>3, <1>4 DEF Indexed

(* The last element takes the place of the one at i. *)
LEMMA MoveLastIndexed ==
  ASSUME Types, Indexed, NEW i \in 1 .. Len(c), MoveLast(i)
  PROVE  /\ c' \in Seq(Pushed) /\ Len(c') = Len(c) - 1
         /\ \A k \in 1 .. Len(c) - 1 : c'[k] = IF k = i THEN c[Len(c)] ELSE c[k]
         /\ Indexed'
<1>1. /\ c' \in Seq(Pushed) /\ Len(c') = Len(c) - 1
      /\ \A k \in 1 .. Len(c) - 1 : c'[k] = IF k = i THEN c[Len(c)] ELSE c[k]
  <2>1. Len(c) \in Nat /\ c \in [1 .. Len(c) -> Pushed]
    BY DEF Types
  <2>2. c' \in [1 .. Len(c) - 1 -> Pushed]
    BY <2>1 DEF MoveLast
  <2> QED BY <2>1, <2>2 DEF MoveLast
<1>2. Len(c) \in 1 .. Len(c) /\ Len(c) \in Nat
  BY DEF Types
<1>3. /\ DOMAIN indexs' = DOMAIN indexs \ {c[i]}
      /\ \A e \in DOMAIN indexs \ {c[i]} : indexs'[e] = IF e = c[Len(c)] THEN i ELSE indexs[e]
  BY <1>2 DEF MoveLast, Without, Put, Indexed
<1>4. {c'[k] : k \in 1 .. Len(c')} = {c[k] : k \in 1 .. Len(c)} \ {c[i]}
  <2>1. ASSUME NEW k \in 1 .. Len(c) - 1
        PROVE  c'[k] # c[i] /\ \E l \in 1 .. Len(c) : c'[k] = c[l]
    <3>1. CASE k = i BY <3>1, <1>1, <1>2, Distinct
    <3>2. CASE k # i BY <3>2, <1>1, <1>2, Distinct
    <3> QED BY <3>1, <3>2
  <2>2. ASSUME NEW k \in 1 .. Len(c), c[k] # c[i]
        PROVE  \E l \in 1 .. Len(c) - 1 : c[k] = c'[l]
    <3>1. CASE k = Len(c)
      <4>1. i \in 1 .. Len(c) - 1 BY <2>2, <3>1, <1>2
      <4> QED BY <4>1, <3>1, <1>1
    <3>2. CASE k # Len(c)
      <4>1. k \in 1 .. Len(c) - 1 /\ k # i BY <2>2, <3>2, <1>2
      <4> QED BY <4>1, <1>1
    <3> QED BY <3>1, <3>2
  <2>3. {c'[k] : k \in 1 .. Len(c) - 1} = {c[k] : k \in 1 .. Len(c)} \ {c[i]}
    BY ZenonT(60), <2>1, <2>2
  <2> QED BY <1>1, <2>3
<1>5. ASSUME NEW k \in 1 .. Len(c) - 1 PROVE indexs'[c'[k]] = k
  <2>1. k \in 1 .. Len(c) /\ k # Len(c) BY <1>2
  <2>2. CASE k = i
    <3>1. c'[k] = c[Len(c)] /\ c[Len(c)] # c[i]
      BY <2>1, <2>2, <1>1, <1>2, Distinct
    <3>2. c[Len(c)] \in DOMAIN indexs BY <1>2 DEF Indexed
    <3> QED BY <3>1, <3>2, <2>2, <1>3
  <2>3. CASE k # i
    <3>1. c'[k] = c[k] /\ c[k] # c[i] /\ c[k] # c[Len(c)]
      BY <2>1, <2>3, <1>1, <1>2, Distinct
    <3>2. c[k] \in DOMAIN indexs /\ indexs[c[k]] = k BY <2>1 DEF Indexed
    <3> QED BY <3>1, <3>2, <1>3
  <2> QED BY <2>2, <2>3
<1> QED BY <1>1, <1>3, <1>4, <1>5 DEF Indexed

-----------------------------------------------------------------------------
(* A call that puts something at i, or a swap, and what is known then.      *)

LEMMA PushKeeps ==
  ASSUME HeapAssumptions, HeapInv, NEW x \in Pushed, Push(x)
  PROVE  HeapInv'
<1> USE DEF HeapInv
<1>1. /\ c' = Append(c, x) /\ c' \in Seq(Pushed) /\ Len(c') = Len(c) + 1 /\ Len(c) \in Nat
      /\ \A k \in 1 .. Len(c) : c'[k] = c[k]
      /\ c'[Len(c) + 1] = x
      /\ dir = "none" /\ dir' = "up" /\ at' = Len(c) + 1 /\ torn' = torn
  BY DEF Push, Heapify, Idle, Types
<1>2. Types'
  BY <1>1 DEF Types
<1>3. Indexed'
  <2>1. /\ DOMAIN indexs' = DOMAIN indexs \cup {x} /\ x \notin DOMAIN indexs
        /\ \A e \in DOMAIN indexs : indexs'[e] = indexs[e]
        /\ indexs'[x] = Len(c) + 1
    BY DEF Push, Put
  <2>2. \A k \in 1 .. Len(c') : k \in 1 .. Len(c) \/ k = Len(c) + 1
    BY <1>1
  <2>3. {c'[k] : k \in 1 .. Len(c')} = {c[k] : k \in 1 .. Len(c)} \cup {x}
    BY <1>1
  <2> QED BY SMTT(30), <1>1, <2>1, <2>2, <2>3 DEF Indexed
<1>4. InOrderBut'
  <2> SUFFICES ASSUME ~torn
               PROVE  Grandchildren' /\ \A i \in 2 .. Len(c') : i # at' => Fits(i)'
    BY <1>1 DEF InOrderBut
  <2>1. Grandchildren'
    BY <1>1, ParentOf DEF Grandchildren
  <2>2. ASSUME NEW i \in 2 .. Len(c'), i # at' PROVE Fits(i)'
    <3>1. i \in 2 .. Len(c) /\ Parent(i) \in 1 .. Len(c)
      <4>1. i \in 2 .. Len(c) BY <1>1, <2>2
      <4> QED BY <4>1, <1>1, ParentBelow
    <3> QED BY <3>1, <1>1 DEF InOrderBut, Fits
  <2> QED BY <2>1, <2>2
<1> QED BY <1>2, <1>3, <1>4

LEMMA UpKeeps ==
  ASSUME HeapAssumptions, HeapInv, Up
  PROVE  HeapInv'
<1> USE DEF HeapInv
<1>1. at \in 1 .. Len(c) /\ Len(c) \in Nat /\ torn' = torn /\ dir = "up"
  BY DEF Up, Types
<1>2. CASE Rises
  <2> DEFINE p == Parent(at)
  <2>1. at # 1 /\ Comp(c[p], c[at]) /\ Swap(p, at) /\ at' = p /\ dir' = "up"
    BY <1>2 DEF Up, Rises, Heapify
  <2>2. p \in 1 .. Len(c) /\ p < at /\ p # at
    <3>1. at \in 2 .. Len(c) BY <1>1, <2>1
    <3> QED BY <3>1, <1>1, ParentBelow
  <2>3. /\ c' \in Seq(Pushed) /\ Len(c') = Len(c)
        /\ \A k \in 1 .. Len(c) : c'[k] = IF k = at THEN c[p] ELSE IF k = p THEN c[at] ELSE c[k]
        /\ Indexed'
    BY <1>1, <2>1, <2>2, SwapIndexed
  <2>4. Types'
    BY <1>1, <2>1, <2>2, <2>3 DEF Types
  <2>5. ASSUME ~torn, NEW i \in 2 .. Len(c)
        PROVE  /\ i # p => ~Comp(c'[Parent(i)], c'[i])
               /\ Parent(i) = p /\ p # 1 => ~Comp(c'[Parent(p)], c'[i])
    <3>1. /\ Parent(i) \in 1 .. Len(c) /\ Parent(i) # i /\ \A k \in Nat : k \in 1 .. Len(c) => c[k] \in Pushed
      BY ParentBelow, <1>1 DEF Types
    <3>2. /\ \A k \in 2 .. Len(c) : k # at => ~Comp(c[Parent(k)], c[k])
          /\ \A k \in 2 .. Len(c) : Parent(k) = at => ~Comp(c[p], c[k])
      BY <1>1, <2>1, <2>5 DEF InOrderBut, Grandchildren, Fits
    <3>3. p # 1 => p \in 2 .. Len(c) /\ Parent(p) \in 1 .. Len(c) /\ Parent(p) # p /\ Parent(p) # at
      <4>1. p # 1 => p \in 2 .. Len(c) BY <2>2, <1>1
      <4>2. p # 1 => Parent(p) \in 1 .. Len(c) /\ Parent(p) < p BY <4>1, <1>1, ParentBelow
      <4> QED BY <4>1, <4>2, <2>2, <1>1
    <3>4. i # p => ~Comp(c'[Parent(i)], c'[i])
      <4>1. CASE i = at
        <5>1. c'[i] = c[p] /\ c'[Parent(i)] = c[at]
          BY <4>1, <2>2, <2>3, <3>1
        <5> QED BY <5>1, <2>1, <2>2, <3>1, Order, <1>1
      <4>2. CASE i # at /\ i # p /\ Parent(i) = at
        <5>1. c'[i] = c[i] /\ c'[Parent(i)] = c[p]
          BY <4>2, <2>2, <2>3, <3>1
        <5> QED BY <5>1, <4>2, <3>2
      <4>3. CASE i # at /\ i # p /\ Parent(i) = p
        <5>1. c'[i] = c[i] /\ c'[Parent(i)] = c[at]
          BY <4>3, <2>2, <2>3, <3>1
        <5>2. ~Comp(c[p], c[i]) BY <4>3, <3>2
        <5>3. ~Comp(c[at], c[p]) BY <2>1, <2>2, <1>1, <3>1, Order
        <5> QED BY <5>1, <5>2, <5>3, <2>2, <1>1, <3>1, Order
      <4>4. CASE i # at /\ i # p /\ Parent(i) # at /\ Parent(i) # p
        <5>1. c'[i] = c[i] /\ c'[Parent(i)] = c[Parent(i)]
          BY <4>4, <2>2, <2>3, <3>1
        <5> QED BY <5>1, <4>4, <3>2
      <4> QED BY <4>1, <4>2, <4>3, <4>4
    <3>5. Parent(i) = p /\ p # 1 => ~Comp(c'[Parent(p)], c'[i])
      <4> SUFFICES ASSUME Parent(i) = p, p # 1 PROVE ~Comp(c'[Parent(p)], c'[i])
        OBVIOUS
      <4>1. c'[Parent(p)] = c[Parent(p)] /\ ~Comp(c[Parent(p)], c[p])
        BY <3>2, <3>3, <2>2, <2>3
      <4>2. CASE i = at
        BY <4>1, <4>2, <2>3, <1>1
      <4>3. CASE i # at
        <5>1. c'[i] = c[i] /\ ~Comp(c[p], c[i])
          BY <4>3, <2>3, <3>1, <3>2
        <5> QED BY <5>1, <4>1, <3>1, <3>3, <2>2, Order
      <4> QED BY <4>2, <4>3
    <3> QED BY <3>4, <3>5
  <2>6. InOrderBut'
    BY <1>1, <2>1, <2>3, <2>5 DEF InOrderBut, Grandchildren, Fits
  <2> QED BY <2>3, <2>4, <2>6
<1>3. CASE ~Rises
  <2>1. c' = c /\ indexs' = indexs /\ dir' = "none" /\ at' = 0
    BY <1>3 DEF Up, Return
  <2>2. Types' /\ Indexed'
    BY <2>1, <1>1 DEF Types, Indexed
  <2>3. InOrderBut'
    BY <2>1, <1>1, <1>3 DEF InOrderBut, Fits, Rises
  <2> QED BY <2>2, <2>3
<1> QED BY <1>2, <1>3


LEMMA DownKeeps ==
  ASSUME HeapAssumptions, HeapInv, Down
  PROVE  HeapInv'
<1> USE DEF HeapInv
<1>1. /\ at \in 1 .. Len(c) + 1 /\ Len(c) \in Nat /\ torn' = torn /\ dir = "down"
      /\ \A k \in 1 .. Len(c) : c[k] \in Pushed
  BY DEF Down, Types
<1>2. CASE Sinks
  <2> DEFINE b == Child
  <2>1. 2 * at <= Len(c) /\ ~Comp(c[b], c[at]) /\ Swap(at, b) /\ at' = b /\ dir' = "down"
    BY <1>2 DEF Down, Sinks, Heapify
  <2>2. /\ b \in 2 .. Len(c) /\ at \in 1 .. Len(c) /\ b # at
        /\ \A i \in 2 .. Len(c) : Parent(i) = at => ~Comp(c[b], c[i])
    <3>1. \A i \in 2 .. Len(c) : Parent(i) = at => i \in {2 * at, 2 * at + 1}
      BY <1>1 DEF Parent
    <3>2. CASE 2 * at < Len(c) /\ Comp(c[2 * at], c[2 * at + 1])
      <4>1. b = 2 * at + 1 BY <3>2 DEF Child
      <4>2. 2 * at \in 1 .. Len(c) /\ 2 * at + 1 \in 1 .. Len(c) BY <3>2, <1>1
      <4>3. ~Comp(c[b], c[2 * at]) /\ ~Comp(c[b], c[2 * at + 1])
        BY <4>1, <4>2, <3>2, <1>1, Order
      <4> QED BY <4>1, <4>2, <4>3, <3>1, <1>1
    <3>3. CASE ~(2 * at < Len(c) /\ Comp(c[2 * at], c[2 * at + 1]))
      <4>1. b = 2 * at BY <3>3 DEF Child
      <4>2. 2 * at \in 1 .. Len(c) BY <2>1, <1>1
      <4>3. ~Comp(c[b], c[2 * at])
        BY <4>1, <4>2, <1>1, Order
      <4>4. 2 * at + 1 <= Len(c) => ~Comp(c[b], c[2 * at + 1])
        BY <4>1, <3>3, <2>1, <1>1
      <4> QED BY <4>1, <4>2, <4>3, <4>4, <3>1, <1>1
    <3> QED BY <3>2, <3>3
  <2>3. Parent(b) = at
    BY <1>1 DEF Child, Parent
  <2>4. /\ c' \in Seq(Pushed) /\ Len(c') = Len(c)
        /\ \A k \in 1 .. Len(c) : c'[k] = IF k = b THEN c[at] ELSE IF k = at THEN c[b] ELSE c[k]
        /\ Indexed'
    <3>1. b \in 1 .. Len(c) BY <2>2, <1>1
    <3> HIDE DEF b
    <3> QED BY <1>1, <2>1, <2>2, <3>1, SwapIndexed
  <2> HIDE DEF b
  <2>5. Types'
    BY <1>1, <2>1, <2>2, <2>4 DEF Types
  <2>6. ASSUME ~torn, NEW i \in 2 .. Len(c)
        PROVE  /\ Parent(i) # b => ~Comp(c'[Parent(i)], c'[i])
               /\ Parent(i) = b => ~Comp(c'[at], c'[i])
    <3>1. i \in 1 .. Len(c) /\ Parent(i) \in 1 .. Len(c) /\ Parent(i) # i
      BY ParentBelow, <1>1
    <3>2. /\ \A k \in 2 .. Len(c) : Parent(k) # at => ~Comp(c[Parent(k)], c[k])
          /\ \A k \in 2 .. Len(c) : Parent(k) = at /\ at # 1 => ~Comp(c[Parent(at)], c[k])
      BY <1>1, <2>6 DEF InOrderBut, Grandchildren, Fits
    <3>3. CASE Parent(i) = b
      <4>1. i # at /\ i # b /\ ~Comp(c[b], c[i])
        <5>1. at < b BY <2>2, <2>3, <1>1, ParentBelow
        <5>2. b < i BY <3>3, <1>1, ParentBelow
        <5> QED BY <5>1, <5>2, <3>2, <3>3, <2>2, <1>1
      <4>2. c'[at] = c[b] /\ c'[i] = c[i] BY <4>1, <3>1, <2>2, <2>4
      <4> QED BY <4>1, <4>2, <3>3
    <3>4. CASE i = b
      <4>1. c'[i] = c[at] /\ c'[Parent(i)] = c[b] BY <3>4, <2>2, <2>3, <2>4
      <4> QED BY <4>1, <2>1, <2>2, <2>3, <3>4
    <3>5. CASE i = at /\ Parent(i) # b
      <4>1. c'[i] = c[b] /\ c'[Parent(i)] = c[Parent(at)] BY <3>1, <3>5, <2>2, <2>4
      <4> QED BY <4>1, <3>2, <3>5, <2>2, <2>3
    <3>6. CASE i # at /\ i # b /\ Parent(i) = at
      <4>1. c'[i] = c[i] /\ c'[Parent(i)] = c[b] BY <3>1, <3>6, <2>2, <2>4
      <4> QED BY <4>1, <3>6, <2>2
    <3>7. CASE i # at /\ i # b /\ Parent(i) # at /\ Parent(i) # b
      <4>1. c'[i] = c[i] /\ c'[Parent(i)] = c[Parent(i)] BY <3>1, <3>7, <2>2, <2>4
      <4> QED BY <4>1, <3>2, <3>7
    <3> QED BY <3>3, <3>4, <3>5, <3>6, <3>7
  <2>7. InOrderBut'
    BY <1>1, <2>1, <2>3, <2>4, <2>6 DEF InOrderBut, Grandchildren, Fits
  <2> QED BY <2>4, <2>5, <2>7
<1>3. CASE ~Sinks
  <2>1. c' = c /\ indexs' = indexs /\ dir' = "none" /\ at' = 0
    BY <1>3 DEF Down, Return
  <2>2. Types' /\ Indexed'
    BY <2>1, <1>1 DEF Types, Indexed
  <2>3. ASSUME ~torn, NEW i \in 2 .. Len(c) PROVE ~Comp(c[Parent(i)], c[i])
    <3>1. CASE Parent(i) # at
      BY <3>1, <2>3, <1>1 DEF InOrderBut, Fits
    <3>2. CASE Parent(i) = at
      <4>1. /\ i \in {2 * at, 2 * at + 1} /\ 2 * at <= Len(c) /\ i \in 1 .. Len(c)
            /\ at \in 1 .. Len(c) /\ 2 * at \in 1 .. Len(c)
        BY <3>2, <1>1 DEF Parent
      <4>2. Comp(c[Child], c[at])
        BY <4>1, <1>3 DEF Sinks
      <4>3. Child \in 1 .. Len(c) /\ ~Comp(c[Child], c[i])
        BY <4>1, <1>1, Order DEF Child
      <4>4. ~Comp(c[at], c[Child])
        BY <4>1, <4>2, <4>3, <1>1, Order
      <4> QED BY <4>1, <4>3, <4>4, <1>1, <3>2, Order
    <3> QED BY <3>1, <3>2
  <2>4. InOrderBut'
    BY <2>1, <1>1, <2>3 DEF InOrderBut, Fits
  <2> QED BY <2>2, <2>4
<1> QED BY <1>2, <1>3

(* erase() and pop(): the last element at i must not be too great for it.  *)
LEMMA MoveLastKeeps ==
  ASSUME HeapAssumptions, HeapInv, Idle, NEW i \in 1 .. Len(c), MoveLast(i), Heapify("down", i),
         torn' \in BOOLEAN,
         ~torn' => ~torn /\ (i \in 2 .. Len(c) - 1 => ~Comp(c[Parent(i)], c[Len(c)]))
  PROVE  HeapInv'
<1> USE DEF HeapInv
<1>1. /\ c' \in Seq(Pushed) /\ Len(c') = Len(c) - 1
      /\ \A k \in 1 .. Len(c) - 1 : c'[k] = IF k = i THEN c[Len(c)] ELSE c[k]
      /\ Indexed'
  BY MoveLastIndexed
<1>2. Len(c) \in Nat /\ dir = "none" /\ dir' = "down" /\ at' = i
  BY DEF Types, Idle, Heapify
<1>3. Types'
  BY <1>1, <1>2 DEF Types
<1>4. ASSUME ~torn', NEW k \in 2 .. Len(c) - 1
      PROVE  /\ Parent(k) # i => ~Comp(c'[Parent(k)], c'[k])
             /\ Parent(k) = i /\ i # 1 => ~Comp(c'[Parent(i)], c'[k])
  <2>1. Parent(k) \in 1 .. Len(c) - 1 /\ Parent(k) < k /\ k \in 2 .. Len(c)
    BY <1>2, ParentBelow
  <2>2. \A j \in 2 .. Len(c) : ~Comp(c[Parent(j)], c[j])
    BY <1>2, <1>4 DEF InOrderBut, Fits
  <2>3. CASE Parent(k) = i
    <3> SUFFICES ASSUME i # 1 PROVE ~Comp(c'[Parent(i)], c'[k])
      BY <2>3
    <3>1. i \in 2 .. Len(c) - 1 /\ i \in 2 .. Len(c) /\ k # i BY <2>1, <2>3, <1>2
    <3>2. Parent(i) \in 1 .. Len(c) - 1 /\ Parent(i) # i BY <3>1, <1>2, ParentBelow
    <3>3. c'[Parent(i)] = c[Parent(i)] /\ c'[k] = c[k] BY SMTT(30), <3>1, <3>2, <1>1, <2>1
    <3>4. ~Comp(c[Parent(i)], c[i]) /\ ~Comp(c[i], c[k]) BY <2>2, <2>3, <2>1, <3>1
    <3>5. c[Parent(i)] \in Pushed /\ c[i] \in Pushed /\ c[k] \in Pushed
      BY <3>1, <3>2, <2>1, <1>2 DEF Types
    <3> QED BY <3>3, <3>4, <3>5, Order
  <2>4. CASE Parent(k) # i /\ k = i
    <3>1. c'[k] = c[Len(c)] /\ c'[Parent(k)] = c[Parent(k)] BY <2>1, <2>4, <1>1
    <3> QED BY <3>1, <2>4, <1>4
  <2>5. CASE Parent(k) # i /\ k # i
    <3>1. c'[k] = c[k] /\ c'[Parent(k)] = c[Parent(k)] BY SMTT(30), <2>1, <2>5, <1>1
    <3> QED BY <3>1, <2>5, <2>1, <2>2
  <2> QED BY <2>3, <2>4, <2>5
<1>5. InOrderBut'
  BY <1>1, <1>2, <1>4 DEF InOrderBut, Grandchildren, Fits
<1> QED BY <1>1, <1>3, <1>5


LEMMA EraseKeeps ==
  ASSUME HeapAssumptions, HeapInv, NEW x \in Pushed, Erase(x)
  PROVE  HeapInv'
<1> DEFINE i == indexs[x]
<1>1. i \in 1 .. Len(c) /\ Idle /\ MoveLast(i) /\ Heapify("down", i)
      /\ torn' = (torn \/ (i \in 2 .. Len(c) - 1 /\ Comp(c[Parent(i)], c[Len(c)])))
  BY DEF Erase, HeapInv, Indexed
<1>2. torn' \in BOOLEAN
      /\ (~torn' => ~torn /\ (i \in 2 .. Len(c) - 1 => ~Comp(c[Parent(i)], c[Len(c)])))
  BY <1>1 DEF HeapInv, Types
<1> QED BY <1>1, <1>2, MoveLastKeeps

LEMMA PopKeeps ==
  ASSUME HeapAssumptions, HeapInv, Pop
  PROVE  HeapInv'
<1>1. 1 \in 1 .. Len(c)
  BY DEF Pop, HeapInv, Types
<1>2. Idle /\ MoveLast(1) /\ Heapify("down", 1) /\ torn' = torn /\ 1 \notin 2 .. Len(c) - 1
  BY DEF Pop
<1>3. torn' \in BOOLEAN /\ (~torn' => ~torn)
  BY <1>2 DEF HeapInv, Types
<1> QED BY <1>1, <1>2, <1>3, MoveLastKeeps

LEMMA UpdateKeeps ==
  ASSUME HeapAssumptions, HeapInv, NEW x \in Pushed, NEW y \in Pushed, Update(x, y)
  PROVE  HeapInv'
<1> USE DEF HeapInv
<1> DEFINE i == indexs[x]
<1>1. /\ i \in 1 .. Len(c) /\ c[i] = x /\ Len(c) \in Nat /\ x # y
      /\ \A k \in 1 .. Len(c) : c[k] \in Pushed /\ c[k] \in DOMAIN indexs /\ indexs[c[k]] = k
  BY SMTT(30) DEF Update, Indexed, Types
<1>2. /\ dir = "none" /\ at' = i /\ torn' = torn /\ y \notin DOMAIN indexs
      /\ dir' = IF Comp(x, y) THEN "up" ELSE "down"
      /\ DOMAIN indexs' = (DOMAIN indexs \cup {y}) \ {x}
      /\ \A e \in (DOMAIN indexs \cup {y}) \ {x} : indexs'[e] = IF e = y THEN i ELSE indexs[e]
  BY DEF Update, Heapify, Idle, Without, Put
<1>3. /\ c' \in Seq(Pushed) /\ Len(c') = Len(c)
      /\ \A k \in 1 .. Len(c) : c'[k] = IF k = i THEN y ELSE c[k]
  BY <1>1 DEF Update, Types
<1>4. Types'
  BY <1>1, <1>2, <1>3 DEF Types
<1>5. Indexed'
  <2>1. ASSUME NEW k \in 1 .. Len(c) PROVE c'[k] \in DOMAIN indexs' /\ indexs'[c'[k]] = k
    <3>1. CASE k = i BY <3>1, <1>1, <1>2, <1>3
    <3>2. CASE k # i
      <4>1. c'[k] = c[k] /\ c[k] # x /\ c[k] # y BY <3>2, <1>1, <1>2, <1>3
      <4> QED BY <4>1, <1>1, <1>2
    <3> QED BY <3>1, <3>2
  <2>2. ASSUME NEW e \in DOMAIN indexs' PROVE \E k \in 1 .. Len(c) : e = c'[k]
    <3>1. CASE e = y BY <3>1, <1>1, <1>3
    <3>2. CASE e # y
      <4>1. e \in DOMAIN indexs /\ e # x BY <3>2, <2>2, <1>2
      <4>2. PICK k \in 1 .. Len(c) : c[k] = e BY <4>1 DEF Indexed
      <4>3. c'[k] = e BY <4>1, <4>2, <1>1, <1>3
      <4> QED BY <4>3
    <3> QED BY <3>1, <3>2
  <2>3. DOMAIN indexs' = {c'[k] : k \in 1 .. Len(c)}
    BY <2>1, <2>2, Zenon
  <2> QED BY <1>3, <2>1, <2>3 DEF Indexed
<1>6. ASSUME ~torn, NEW k \in 2 .. Len(c)
      PROVE  /\ k # i /\ Parent(k) # i => ~Comp(c'[Parent(k)], c'[k])
             /\ k = i /\ ~Comp(x, y) => ~Comp(c'[Parent(k)], c'[k])
             /\ Parent(k) = i /\ Comp(x, y) => ~Comp(c'[Parent(k)], c'[k])
             /\ Parent(k) = i /\ i # 1 => ~Comp(c'[Parent(i)], c'[k])
  <2>1. k \in 1 .. Len(c) /\ Parent(k) \in 1 .. Len(c) /\ Parent(k) < k
    BY <1>1, ParentBelow
  <2>2. \A j \in 2 .. Len(c) : ~Comp(c[Parent(j)], c[j])
    BY <1>2, <1>6 DEF InOrderBut, Fits
  <2>3. k # i /\ Parent(k) # i => ~Comp(c'[Parent(k)], c'[k])
    BY <2>1, <2>2, <1>3
  <2>4. k = i /\ ~Comp(x, y) => ~Comp(c'[Parent(k)], c'[k])
    <3> SUFFICES ASSUME k = i, ~Comp(x, y) PROVE ~Comp(c'[Parent(k)], c'[k])
      OBVIOUS
    <3>1. c'[k] = y /\ c'[Parent(k)] = c[Parent(k)] BY <2>1, <1>3
    <3>2. ~Comp(c[Parent(k)], x) BY <2>2, <1>1
    <3> QED BY <3>1, <3>2, <1>1, <2>1, Order
  <2>5. Parent(k) = i /\ Comp(x, y) => ~Comp(c'[Parent(k)], c'[k])
    <3> SUFFICES ASSUME Parent(k) = i, Comp(x, y) PROVE ~Comp(c'[Parent(k)], c'[k])
      OBVIOUS
    <3>1. c'[k] = c[k] /\ c'[Parent(k)] = y BY <2>1, <1>3
    <3>2. ~Comp(x, c[k]) BY <2>2, <1>1
    <3>3. ~Comp(y, x) BY Order
    <3> QED BY <3>1, <3>2, <3>3, <1>1, <2>1, Order
  <2>6. Parent(k) = i /\ i # 1 => ~Comp(c'[Parent(i)], c'[k])
    <3> SUFFICES ASSUME Parent(k) = i, i # 1 PROVE ~Comp(c'[Parent(i)], c'[k])
      OBVIOUS
    <3>1. i \in 2 .. Len(c) BY <1>1
    <3>2. Parent(i) \in 1 .. Len(c) /\ Parent(i) # i BY <3>1, <1>1, ParentBelow
    <3>3. c'[k] = c[k] /\ c'[Parent(i)] = c[Parent(i)] BY <2>1, <3>2, <1>3
    <3>4. ~Comp(c[i], c[k]) /\ ~Comp(c[Parent(i)], c[i]) BY <2>2, <3>1
    <3> QED BY <3>2, <3>3, <3>4, <1>1, <2>1, Order
  <2> QED BY <2>3, <2>4, <2>5, <2>6
<1>7. InOrderBut'
  <2> SUFFICES ASSUME ~torn
               PROVE  /\ Grandchildren'
                      /\ dir' = "up" => \A k \in 2 .. Len(c) : k # i => Fits(k)'
                      /\ dir' = "down" => \A k \in 2 .. Len(c) : Parent(k) # i => Fits(k)'
    BY <1>2, <1>3 DEF InOrderBut
  <2>1. Grandchildren'
    BY <1>2, <1>3, <1>6 DEF Grandchildren
  <2>2. ASSUME dir' = "up", NEW k \in 2 .. Len(c), k # i PROVE Fits(k)'
    BY <2>2, <1>2, <1>6 DEF Fits
  <2>3. ASSUME dir' = "down", NEW k \in 2 .. Len(c), Parent(k) # i PROVE Fits(k)'
    BY <2>3, <1>2, <1>6 DEF Fits
  <2> QED BY <2>1, <2>2, <2>3
<1> QED BY <1>4, <1>5, <1>7

-----------------------------------------------------------------------------
(* Whatever is pushed, popped, changed and erased, and in the middle of it *)
(* too, the table of positions (datastruct.hpp:133) is right; and between  *)
(* calls the heap is in order unless erase() has spoilt it (:105).         *)
THEOREM HeapStaysSound ==
  ASSUME HeapAssumptions
  PROVE  HeapSpec => []HeapSound
<1>1. HeapInit => HeapInv
  <2> SUFFICES ASSUME HeapInit PROVE HeapInv
    OBVIOUS
  <2>1. c \in Seq(Pushed) /\ Len(c) = 0 /\ 1 .. Len(c) = {} /\ 2 .. Len(c) = {}
    BY DEF HeapInit
  <2>2. DOMAIN indexs = {} /\ {c[i] : i \in 1 .. Len(c)} = {}
    BY <2>1 DEF HeapInit
  <2> QED BY <2>1, <2>2 DEF HeapInit, HeapInv, Types, Indexed, InOrderBut
<1>2. HeapInv /\ [HeapNext]_heapVars => HeapInv'
  <2> SUFFICES ASSUME HeapInv, [HeapNext]_heapVars PROVE HeapInv'
    OBVIOUS
  <2>1. ASSUME NEW x \in Pushed, Push(x) PROVE HeapInv'
    BY <2>1, PushKeeps
  <2>2. ASSUME NEW x \in Pushed, Erase(x) PROVE HeapInv'
    BY <2>2, EraseKeeps
  <2>3. ASSUME NEW x \in Pushed, NEW y \in Pushed, Update(x, y) PROVE HeapInv'
    BY <2>3, UpdateKeeps
  <2>4. CASE Pop
    BY <2>4, PopKeeps
  <2>5. CASE Up
    BY <2>5, UpKeeps
  <2>6. CASE Down
    BY <2>6, DownKeeps
  <2>7. CASE UNCHANGED heapVars
    BY <2>7 DEF heapVars, HeapInv, Types, Indexed, InOrderBut, Grandchildren, Fits
  <2> QED BY <2>1, <2>2, <2>3, <2>4, <2>5, <2>6, <2>7 DEF HeapNext
<1>3. HeapInv => HeapSound
  BY DEF HeapInv, HeapSound, HeapOrdered, InOrderBut, Fits, Idle
<1> QED BY <1>1, <1>2, <1>3, PTL DEF HeapSpec

-----------------------------------------------------------------------------

Classes == Children \cup {"type", "event", "object"}
Nodes == [class : Classes, parent : Nat, declared : Seq(Children), mandatory : BOOLEAN,
          callback : Children \cup {Unset}, context : Nat, wanted : Nat]
Servers == [space : Seq(Nodes), contexts : Seq(Children), kept : SUBSET Nat,
            id : Nat, calls : Nat, fails : Nat]

NodeHolds(s, n) ==
  s.space[n].callback # Unset =>
    /\ s.space[n].context \in 1 .. Len(s.contexts)
    /\ s.space[n].context \in s.kept
    /\ s.contexts[s.space[n].context] = s.space[n].callback
    /\ s.space[n].context = s.space[n].wanted

NodeSound(s, n) ==
  /\ s.space[n].parent < n
  /\ s.space[n].class \in {"source", "method"} => s.space[n].callback = s.space[n].class
  /\ n \notin misled => NodeHolds(s, n)

SoundServer(s) ==
  /\ s \in Servers /\ s.id <= Len(s.space)
  /\ \A n \in 1 .. Len(s.space) : NodeSound(s, n)

(* One call more of the library, which may add a node n below parent. *)
Adds(s, t, parent, class) ==
  /\ Len(t.space) = Len(s.space) + 1
  /\ \A n \in 1 .. Len(s.space) : t.space[n] = s.space[n]
  /\ t.space[Len(t.space)].parent = parent
  /\ t.space[Len(t.space)].class = class

LEMMA NodeAdded ==
  ASSUME OpcUaAssumptions, NEW s, SoundServer(s), NEW class \in Classes \ {"source", "method"},
         NEW parent \in 0 .. Len(s.space), NEW declared \in Seq(Children),
         NEW t, t = AddNode(s, class, parent, declared)
  PROVE  /\ SoundServer(t) /\ t.id \in {0, Len(s.space) + 1}
         /\ t.id = 0 => t.space = s.space
         /\ t.id # 0 => Adds(s, t, parent, class) /\ t.space[t.id].declared = declared
<1> DEFINE node == [class |-> class, parent |-> parent, declared |-> declared,
                    mandatory |-> FALSE, callback |-> Unset, context |-> 0, wanted |-> 0]
<1>1. s \in Servers /\ node \in Nodes BY DEF SoundServer, Nodes, Classes
<1>2. CASE Failed(Attempt(s))
  <2>1. t = [space |-> s.space, contexts |-> s.contexts, kept |-> s.kept, id |-> 0,
           calls |-> s.calls + 1, fails |-> s.fails] BY <1>1, <1>2 DEF AddNode, Attempt, Servers
  <2>2. t \in Servers /\ t.space = s.space /\ t.contexts = s.contexts /\ t.kept = s.kept /\ t.id = 0
    BY <1>1, <2>1 DEF Servers
  <2> QED BY <2>2 DEF SoundServer, NodeSound, NodeHolds, Servers
<1>3. CASE ~Failed(Attempt(s))
  <2>1. t = [space |-> Append(s.space, node), contexts |-> s.contexts, kept |-> s.kept,
             id |-> Len(s.space) + 1, calls |-> s.calls + 1, fails |-> s.fails]
    BY <1>1, <1>3 DEF AddNode, Attempt, Servers
  <2>2. /\ t \in Servers /\ t.space = Append(s.space, node) /\ t.contexts = s.contexts
        /\ t.kept = s.kept /\ t.id = Len(s.space) + 1
    <3> HIDE DEF node
    <3> QED BY <1>1, <2>1 DEF Servers
  <2>3. /\ Len(t.space) = Len(s.space) + 1 /\ t.space[Len(s.space) + 1] = node
        /\ \A n \in 1 .. Len(s.space) : t.space[n] = s.space[n]
    <3> HIDE DEF node
    <3> QED BY <1>1, <2>2 DEF Servers
  <2>4. ASSUME NEW n \in 1 .. Len(t.space) PROVE NodeSound(t, n)
    <3>1. CASE n = Len(s.space) + 1
      <4>1. t.space[n] = node /\ Len(s.space) \in Nat BY <1>1, <2>3, <3>1 DEF Servers
      <4> QED BY <3>1, <4>1 DEF NodeSound, NodeHolds
    <3>2. CASE n \in 1 .. Len(s.space)
      <4> HIDE DEF node
      <4> QED BY <2>2, <2>3, <3>2 DEF SoundServer, NodeSound, NodeHolds
    <3> QED BY <1>1, <2>3, <3>1, <3>2 DEF Servers
  <2>5. Adds(s, t, parent, class) /\ t.space[t.id].declared = declared
    <3> QED BY <2>2, <2>3 DEF Adds
  <2>6. Len(s.space) \in Nat BY <1>1 DEF Servers
  <2> QED BY <2>2, <2>3, <2>4, <2>5, <2>6 DEF SoundServer
<1> QED BY <1>2, <1>3

LEMMA LastReplaced ==
  ASSUME NEW S, NEW q \in Seq(S), NEW x \in S, NEW y \in S
  PROVE  [Append(q, x) EXCEPT ![Len(q) + 1] = y] = Append(q, y)
<1> DEFINE f == [Append(q, x) EXCEPT ![Len(q) + 1] = y]
           g == Append(q, y)
<1>1. f \in Seq(S) /\ g \in Seq(S) /\ Len(f) = Len(g) /\ Len(g) = Len(q) + 1 OBVIOUS
<1>2. ASSUME NEW i \in 1 .. Len(q) + 1 PROVE f[i] = g[i]
  <2> DEFINE a == Append(q, x)
  <2>1. DOMAIN a = 1 .. Len(q) + 1 OBVIOUS
  <2>2. CASE i = Len(q) + 1
    <3>1. g[i] = y BY <2>2
    <3>2. f[i] = y
      <4> HIDE DEF a
      <4> QED BY <2>1, <2>2 DEF a
    <3> QED BY <3>1, <3>2
  <2>3. CASE i \in 1 .. Len(q)
    <3>1. a[i] = q[i] /\ g[i] = q[i] /\ i # Len(q) + 1 BY <2>3
    <3>2. f[i] = a[i]
      <4> SUFFICES [a EXCEPT ![Len(q) + 1] = y][i] = a[i] OBVIOUS
      <4> HIDE DEF a
      <4> QED BY <2>1, <3>1
    <3> QED BY <3>1, <3>2
  <2> QED BY <2>2, <2>3
<1> HIDE DEF f, g
<1>3. f = g BY <1>1, <1>2
<1> QED BY <1>3 DEF f, g

LEMMA CalledAdded ==
  ASSUME OpcUaAssumptions, NEW s, SoundServer(s), NEW class \in {"source", "method"},
         NEW parent \in 0 .. Len(s.space), NEW t, t = AddCalled(s, class, parent)
  PROVE  /\ SoundServer(t) /\ t.id \in {0, Len(s.space) + 1}
         /\ t.id = 0 => t.space = s.space
         /\ t.id # 0 => Adds(s, t, parent, class)
<1> DEFINE a == AddNode(s, class, parent, <<>>)
           k == Len(s.contexts) + 1
           bare == [class |-> class, parent |-> parent, declared |-> <<>>,
                    mandatory |-> FALSE, callback |-> Unset, context |-> 0, wanted |-> 0]
           node == [bare EXCEPT !.callback = class, !.context = k, !.wanted = k]
<1>1. s \in Servers BY DEF SoundServer
<1>2. Len(s.contexts) \in Nat /\ Len(s.space) \in Nat BY <1>1 DEF Servers
<1>3. /\ node \in Nodes /\ class \in Children
      /\ node.parent = parent /\ node.class = class /\ node.callback = class
      /\ node.context = k /\ node.wanted = k
  <2>1. <<>> \in Seq(Children) OBVIOUS
  <2>2. class \in Children /\ class \in Classes /\ k \in Nat BY <1>2 DEF Children, Classes
  <2>3. bare \in Nodes BY <1>2, <2>1, <2>2 DEF Nodes
  <2> HIDE DEF bare, k
  <2>4. bare.parent = parent /\ bare.class = class BY DEF bare
  <2> QED BY <2>2, <2>3, <2>4 DEF Nodes
<1> HIDE DEF node
<1>4. CASE Failed(Attempt(s))
  <2>1. a = [space |-> s.space, contexts |-> s.contexts, kept |-> s.kept, id |-> 0,
           calls |-> s.calls + 1, fails |-> s.fails] BY <1>1, <1>4 DEF AddNode, Attempt, Servers
  <2>2. t = a BY <1>1, <2>1 DEF AddCalled, Servers
  <2>3. t \in Servers /\ t.space = s.space /\ t.contexts = s.contexts /\ t.kept = s.kept /\ t.id = 0
    BY <1>1, <2>1, <2>2 DEF Servers
  <2> QED BY <1>2, <2>3 DEF SoundServer, NodeSound, NodeHolds
<1>5. CASE ~Failed(Attempt(s))
  <2>1. a = [space |-> Append(s.space, bare), contexts |-> s.contexts, kept |-> s.kept,
             id |-> Len(s.space) + 1, calls |-> s.calls + 1, fails |-> s.fails]
    BY <1>1, <1>5 DEF AddNode, Attempt, Servers
  <2>2. a.id = Len(s.space) + 1 /\ a.id # 0 /\ a.space = Append(s.space, bare)
    <3> HIDE DEF bare, a
    <3> QED BY <1>1, <1>2, <2>1 DEF Servers
  <2>3. t = [a EXCEPT !.contexts = Append(a.contexts, class), !.kept = a.kept \cup {k},
                      !.space = [a.space EXCEPT ![a.id] =
                        [a.space[a.id] EXCEPT !.callback = class, !.context = k, !.wanted = k]]]
    <3>1. a.id # 0 BY <2>2
    <3> HIDE DEF a
    <3> QED BY <3>1 DEF AddCalled, a
  <2>4. [a.space EXCEPT ![a.id] =
           [a.space[a.id] EXCEPT !.callback = class, !.context = k, !.wanted = k]]
        = Append(s.space, node)
    <3>1. a.space[a.id] = bare
      <4> HIDE DEF bare, a
      <4> QED BY <1>1, <1>2, <2>2 DEF Servers
    <3>2. [bare EXCEPT !.callback = class, !.context = k, !.wanted = k] = node BY DEF node
    <3> HIDE DEF a
    <3>3. s.space \in Seq(Nodes) /\ bare \in Nodes
      <4>1. <<>> \in Seq(Children) /\ class \in Children /\ parent \in Nat BY <1>2 DEF Children
      <4> QED BY <1>1, <4>1 DEF Servers, Nodes, Classes
    <3> HIDE DEF bare
    <3>4. [Append(s.space, bare) EXCEPT ![Len(s.space) + 1] = node] = Append(s.space, node)
      <4>1. \A q \in Seq(Nodes) : \A x, y \in Nodes : [Append(q, x) EXCEPT ![Len(q) + 1] = y] = Append(q, y)
        BY LastReplaced
      <4> QED BY <1>3, <3>3, <4>1, Zenon
    <3>5. [a.space[a.id] EXCEPT !.callback = class, !.context = k, !.wanted = k] = node
      BY <3>1, <3>2
    <3> QED BY <2>2, <3>4, <3>5
  <2>5. /\ t \in Servers /\ t.space = Append(s.space, node) /\ t.contexts = Append(s.contexts, class)
        /\ t.kept = s.kept \cup {k} /\ t.id = Len(s.space) + 1
    <3>1. t = [space |-> Append(s.space, node), contexts |-> Append(s.contexts, class),
               kept |-> s.kept \cup {k}, id |-> Len(s.space) + 1, calls |-> s.calls + 1, fails |-> s.fails]
      <4> HIDE DEF a, bare
      <4> QED BY ZenonT(60), <1>1, <2>1, <2>3, <2>4 DEF Servers
    <3>2. Append(s.space, node) \in Seq(Nodes) /\ Append(s.contexts, class) \in Seq(Children)
      <4> QED BY <1>1, <1>3 DEF Servers
    <3> QED BY SMTT(30), <1>1, <1>2, <3>1, <3>2 DEF Servers
  <2>6. /\ Len(t.space) = Len(s.space) + 1 /\ t.space[Len(s.space) + 1] = node
        /\ \A n \in 1 .. Len(s.space) : t.space[n] = s.space[n]
        /\ Len(t.contexts) = Len(s.contexts) + 1 /\ t.contexts[k] = class
        /\ \A n \in 1 .. Len(s.contexts) : t.contexts[n] = s.contexts[n]
    <3> QED BY SMTT(30), <1>1, <1>3, <2>5 DEF Servers
  <2>7. ASSUME NEW n \in 1 .. Len(t.space) PROVE NodeSound(t, n)
    <3>1. CASE n = Len(s.space) + 1
      <4>1. t.space[n] = node /\ k \in 1 .. Len(t.contexts) /\ k \in t.kept
        <5> QED BY <1>2, <2>5, <2>6, <3>1
      <4>2. parent < n BY <1>2, <3>1
      <4>3. t.contexts[k] = class BY <2>6
      <4> HIDE DEF k
      <4> QED BY <1>3, <4>1, <4>2, <4>3 DEF NodeSound, NodeHolds
    <3>2. CASE n \in 1 .. Len(s.space)
      <4>1. NodeSound(s, n) /\ t.space[n] = s.space[n] BY <2>6, <3>2 DEF SoundServer
      <4>2. NodeHolds(s, n) => NodeHolds(t, n)
        <5> QED BY SMTT(30), <1>2, <2>5, <2>6, <4>1 DEF NodeHolds
      <4> QED BY <4>1, <4>2 DEF NodeSound
    <3> QED BY SMTT(30), <1>2, <2>6, <3>1, <3>2
  <2>8. Adds(s, t, parent, class)
    <3> QED BY <1>2, <1>3, <2>5, <2>6 DEF Adds
  <2> QED BY <1>2, <2>5, <2>6, <2>7, <2>8 DEF SoundServer
<1> QED BY <1>4, <1>5

(* The rule that makes a node mandatory changes nothing else of it. *)
LEMMA MandatoryAdded ==
  ASSUME NEW s, SoundServer(s), NEW t, t = AddMandatory(s)
  PROVE  /\ SoundServer(t) /\ t.id \in {0, s.id} /\ Len(t.space) = Len(s.space)
         /\ \A n \in 1 .. Len(s.space) :
              /\ n # s.id => t.space[n] = s.space[n]
              /\ t.space[n].class = s.space[n].class /\ t.space[n].parent = s.space[n].parent
         /\ t.id # 0 => t.space[t.id].mandatory
<1> DEFINE node == [s.space[s.id] EXCEPT !.mandatory = TRUE]
<1>1. s \in Servers /\ s.id \in 0 .. Len(s.space) /\ Len(s.space) \in Nat BY DEF SoundServer, Servers
<1>2. CASE Failed(Attempt(s)) \/ s.id = 0
  <2>1. t = [space |-> s.space, contexts |-> s.contexts, kept |-> s.kept, id |-> 0,
           calls |-> s.calls + 1, fails |-> s.fails]
    BY <1>1, <1>2 DEF AddMandatory, Attempt, Servers
  <2>2. t \in Servers /\ t.space = s.space /\ t.contexts = s.contexts /\ t.kept = s.kept /\ t.id = 0
    BY <1>1, <2>1 DEF Servers
  <2> QED BY <1>1, <2>2 DEF SoundServer, NodeSound, NodeHolds
<1>3. CASE ~Failed(Attempt(s)) /\ s.id # 0
  <2>1. t = [space |-> [s.space EXCEPT ![s.id] = node], contexts |-> s.contexts, kept |-> s.kept,
             id |-> s.id, calls |-> s.calls + 1, fails |-> s.fails]
    BY <1>1, <1>3 DEF AddMandatory, Attempt, Servers
  <2>2. s.id \in 1 .. Len(s.space) /\ s.space \in Seq(Nodes) BY <1>1, <1>3 DEF Servers
  <2>3. s.space[s.id] \in Nodes BY <2>2
  <2>4. /\ node \in Nodes /\ node.mandatory = TRUE
        /\ node.class = s.space[s.id].class /\ node.parent = s.space[s.id].parent
        /\ node.callback = s.space[s.id].callback /\ node.context = s.space[s.id].context
        /\ node.wanted = s.space[s.id].wanted
    BY <2>3 DEF Nodes
  <2>5. /\ t \in Servers /\ t.space = [s.space EXCEPT ![s.id] = node]
        /\ t.contexts = s.contexts /\ t.kept = s.kept /\ t.id = s.id
    <3> HIDE DEF node
    <3>1. [s.space EXCEPT ![s.id] = node] \in Seq(Nodes) BY <2>2, <2>4
    <3> QED BY <1>1, <2>1, <3>1 DEF Servers
  <2>6. /\ Len(t.space) = Len(s.space)
        /\ \A n \in 1 .. Len(s.space) : t.space[n] = IF n = s.id THEN node ELSE s.space[n]
    <3> HIDE DEF node
    <3> QED BY <2>2, <2>4, <2>5
  <2>7. \A n \in 1 .. Len(s.space) : NodeSound(t, n)
    <3> HIDE DEF node
    <3> QED BY <2>4, <2>5, <2>6 DEF SoundServer, NodeSound, NodeHolds
  <2> HIDE DEF node
  <2> QED BY <1>1, <2>2, <2>4, <2>5, <2>6, <2>7 DEF SoundServer
<1> QED BY <1>2, <1>3

(* A call of the library, or two, for a node of one of the three classes. *)
LEMMA ChildAdded ==
  ASSUME OpcUaAssumptions, NEW s, SoundServer(s), NEW class \in Children,
         NEW parent \in 0 .. Len(s.space), NEW t, t = AddChild(s, parent, class)
  PROVE  /\ SoundServer(t) /\ t.id \in {0, Len(s.space) + 1}
         /\ t.id = 0 => t.space = s.space \/ Adds(s, t, parent, class)
         /\ t.id # 0 => Adds(s, t, parent, class)
         /\ t.id # 0 /\ class = "method" => t.space[t.id].mandatory
<1>1. Len(s.space) \in Nat BY DEF SoundServer, Servers
<1>2. CASE class = "variable"
  <2> DEFINE none == <<>>
  <2>1. t = AddNode(s, class, parent, none) BY <1>2 DEF AddChild
  <2>2. class \in Classes \ {"source", "method"} /\ none \in Seq(Children) BY <1>2 DEF Classes
  <2> HIDE DEF none
  <2>3. /\ SoundServer(t) /\ t.id \in {0, Len(s.space) + 1}
        /\ t.id = 0 => t.space = s.space
        /\ t.id # 0 => Adds(s, t, parent, class)
    BY <2>1, <2>2, NodeAdded
  <2> QED BY <1>2, <2>3
<1>3. CASE class = "source"
  <2>1. t = AddCalled(s, class, parent) BY <1>3 DEF AddChild
  <2> QED BY <1>3, <2>1, CalledAdded
<1>4. CASE class = "method"
  <2> DEFINE a == AddCalled(s, "method", parent)
  <2>1. t = IF a.id = 0 THEN a ELSE AddMandatory(a) BY <1>4 DEF AddChild, AddMethodNode
  <2>2. /\ SoundServer(a) /\ a.id \in {0, Len(s.space) + 1}
        /\ a.id = 0 => a.space = s.space
        /\ a.id # 0 => Adds(s, a, parent, class)
    BY <1>4, CalledAdded
  <2> HIDE DEF a
  <2>3. CASE a.id = 0
    <3>1. t = a BY <2>1, <2>3
    <3> QED BY <2>2, <2>3, <3>1
  <2>4. CASE a.id # 0
    <3>1. /\ SoundServer(t) /\ t.id \in {0, a.id} /\ Len(t.space) = Len(a.space)
          /\ \A n \in 1 .. Len(a.space) :
              /\ n # a.id => t.space[n] = a.space[n]
              /\ t.space[n].class = a.space[n].class /\ t.space[n].parent = a.space[n].parent
          /\ t.id # 0 => t.space[t.id].mandatory
      BY <2>1, <2>2, <2>4, MandatoryAdded
    <3>2. Adds(s, t, parent, class)
      <4>1. /\ Len(a.space) = Len(s.space) + 1 /\ a.id = Len(a.space)
            /\ \A n \in 1 .. Len(s.space) : a.space[n] = s.space[n]
            /\ a.space[Len(a.space)].parent = parent /\ a.space[Len(a.space)].class = class
        BY <2>2, <2>4 DEF Adds
      <4>2. a.id \in 1 .. Len(a.space) /\ Len(t.space) = a.id
        BY <1>1, <3>1, <4>1
      <4>3. t.space[a.id].parent = parent /\ t.space[a.id].class = class
        BY <3>1, <4>1, <4>2
      <4>4. ASSUME NEW n \in 1 .. Len(s.space) PROVE t.space[n] = s.space[n]
        <5>1. n \in 1 .. Len(a.space) /\ n # a.id
          BY <1>1, <4>1
        <5> QED BY <3>1, <4>1, <5>1
      <4> QED BY <4>1, <4>2, <4>3, <4>4 DEF Adds
    <3> QED BY <2>2, <2>4, <3>1, <3>2
  <2> QED BY <2>3, <2>4
<1> QED BY <1>2, <1>3, <1>4 DEF Children

-----------------------------------------------------------------------------
(* The children of a type or of an object *)

(* Another id of the same server. *)
LEMMA Renamed ==
  ASSUME NEW s, SoundServer(s), NEW id \in 0 .. Len(s.space), NEW t, t = [s EXCEPT !.id = id]
  PROVE  SoundServer(t) /\ t.space = s.space /\ t.id = id
<1>1. s \in Servers /\ Len(s.space) \in Nat BY DEF SoundServer, Servers
<1>2. t = [space |-> s.space, contexts |-> s.contexts, kept |-> s.kept, id |-> id,
           calls |-> s.calls, fails |-> s.fails]
  BY <1>1 DEF Servers
<1>3. t \in Servers /\ t.space = s.space /\ t.contexts = s.contexts /\ t.kept = s.kept /\ t.id = id
  BY SMTT(30), <1>1, <1>2 DEF Servers
<1> QED BY <1>1, <1>3 DEF SoundServer, NodeSound, NodeHolds

(* The children of a type end when one of its variables or data sources is  *)
(* not there, mandatory.                                                    *)
LEMMA DeclaredAdded ==
  ASSUME OpcUaAssumptions, NEW s, SoundServer(s), NEW class \in Children, NEW of \in Classes,
         NEW parent \in 1 .. Len(s.space), s.id \in {0, parent}, NEW u,
         u = AddDeclared(s, parent, of, class)
  PROVE  /\ SoundServer(u) /\ u.id \in {0, parent}
         /\ u.space = s.space \/ Adds(s, u, parent, class)
         /\ of \in {"type", "event"} /\ u.id # 0 =>
              /\ s.id # 0
              /\ class # "method" => /\ Adds(s, u, parent, class)
                                     /\ u.space[Len(u.space)].mandatory
<1> DEFINE t == AddChild(s, parent, class)
<1>1. /\ SoundServer(t) /\ t.id \in {0, Len(s.space) + 1}
      /\ t.id = 0 => t.space = s.space \/ Adds(s, t, parent, class)
      /\ t.id # 0 => Adds(s, t, parent, class)
  BY ChildAdded
<1> HIDE DEF t
<1>2. Len(s.space) \in Nat /\ parent \in 0 .. Len(t.space)
  <2>1. Len(s.space) \in Nat BY DEF SoundServer, Servers
  <2> QED BY <1>1, <2>1 DEF Adds
<1>3. CASE of = "object"
  <2>1. u = [t EXCEPT !.id = parent] BY <1>3 DEF AddDeclared, t
  <2>2. SoundServer(u) /\ u.space = t.space /\ u.id = parent BY <1>1, <1>2, <2>1, Renamed
  <2>3. Adds(s, t, parent, class) => Adds(s, u, parent, class) BY <2>2 DEF Adds
  <2> QED BY <1>1, <1>3, <2>2, <2>3
<1>4. CASE of # "object" /\ s.id = 0
  <2>1. u = s BY <1>4 DEF AddDeclared, AddTypeChild
  <2> QED BY <1>4, <2>1
<1>5. CASE of # "object" /\ s.id # 0
  <2> DEFINE v == IF class = "method" THEN t ELSE AddMandatory(t)
             id == IF class # "method" /\ v.id = 0 THEN 0 ELSE parent
  <2>1. u = [v EXCEPT !.id = id] BY <1>5 DEF AddDeclared, AddTypeChild, t
  <2>2. /\ SoundServer(v)
        /\ v.space = s.space \/ Adds(s, v, parent, class)
        /\ class # "method" /\ v.id # 0 => Adds(s, v, parent, class) /\ v.space[Len(v.space)].mandatory
    <3>1. CASE class = "method" BY <1>1, <3>1
    <3>2. CASE class # "method"
      <4>1. v = AddMandatory(t) BY <3>2
      <4> HIDE DEF v
      <4>2. /\ SoundServer(v) /\ v.id \in {0, t.id} /\ Len(v.space) = Len(t.space)
            /\ \A n \in 1 .. Len(t.space) :
                /\ n # t.id => v.space[n] = t.space[n]
                /\ v.space[n].class = t.space[n].class /\ v.space[n].parent = t.space[n].parent
            /\ v.id # 0 => v.space[v.id].mandatory
        BY <1>1, <4>1, MandatoryAdded
      <4>3. Adds(s, t, parent, class) => Adds(s, v, parent, class)
        <5>1. t.id \notin 1 .. Len(s.space) BY <1>1, <1>2
        <5> QED BY SMTT(30), <1>2, <4>2, <5>1 DEF Adds
      <4>4. t.space = s.space => v.space = s.space
        <5> SUFFICES ASSUME t.space = s.space PROVE v.space = s.space OBVIOUS
        <5>1. t.id = 0
          <6>1. ~Adds(s, t, parent, class) BY <1>2 DEF Adds
          <6> QED BY <1>1, <6>1
        <5>2. v.space \in Seq(Nodes) /\ t.space \in Seq(Nodes) BY <1>1, <4>2 DEF SoundServer, Servers
        <5>3. \A n \in 1 .. Len(t.space) : v.space[n] = t.space[n] BY <4>2, <5>1
        <5> QED BY <4>2, <5>2, <5>3
      <4>5. v.id # 0 => v.id = Len(v.space) /\ Adds(s, v, parent, class)
        BY <1>1, <4>2, <4>3 DEF Adds
      <4> QED BY <1>1, <4>2, <4>3, <4>4, <4>5
    <3> QED BY <3>1, <3>2
  <2> HIDE DEF v
  <2>3. id \in 0 .. Len(v.space) BY <1>2, <2>2 DEF Adds
  <2>4. SoundServer(u) /\ u.space = v.space /\ u.id = id BY <2>1, <2>2, <2>3, Renamed
  <2>5. Adds(s, v, parent, class) => Adds(s, u, parent, class) BY <2>4 DEF Adds
  <2> QED BY <1>5, <2>2, <2>4, <2>5
<1> QED BY <1>3, <1>4, <1>5

(* The children that objects of a type get. *)
Mandatory(sp, p, class) ==
  {m \in 1 .. Len(sp) : sp[m].parent = p /\ sp[m].class = class /\ sp[m].mandatory}

LEMMA DeclaredCounted ==
  \A s, u \in Servers : \A p, class, other :
    /\ Adds(s, u, p, class)
    /\ class = other => u.space[Len(u.space)].mandatory = TRUE
    => Cardinality(Mandatory(u.space, p, other)) =
         Cardinality(Mandatory(s.space, p, other)) + (IF class = other THEN 1 ELSE 0)
<1> TAKE s, u \in Servers
<1> TAKE p, class, other
<1> HAVE Adds(s, u, p, class) /\ (class = other => u.space[Len(u.space)].mandatory = TRUE)
<1> DEFINE M == Mandatory(s.space, p, other)
<1>1. Len(s.space) \in Nat /\ Len(u.space) = Len(s.space) + 1 BY DEF Servers, Adds
<1>2. IsFiniteSet(M)
  <2>1. IsFiniteSet(1 .. Len(s.space)) BY <1>1, FS_Interval
  <2>2. M \subseteq 1 .. Len(s.space) BY DEF Mandatory
  <2> QED BY <2>1, <2>2, FS_Subset
<1>3. \A m \in 1 .. Len(s.space) : u.space[m] = s.space[m] BY DEF Adds
<1>4. u.space[Len(u.space)].parent = p /\ u.space[Len(u.space)].class = class BY DEF Adds
<1>5. CASE class = other
  <2>1. Mandatory(u.space, p, other) = M \cup {Len(s.space) + 1}
    BY SMTT(30), <1>1, <1>3, <1>4, <1>5 DEF Mandatory
  <2>2. Len(s.space) + 1 \notin M BY <1>1 DEF Mandatory
  <2> HIDE DEF M
  <2>3. Cardinality(M \cup {Len(s.space) + 1}) = Cardinality(M) + 1
    BY <1>2, <2>2, FS_AddElement
  <2> QED BY <1>2, <1>5, <2>1, <2>3 DEF M
<1>6. CASE class # other
  <2>1. Mandatory(u.space, p, other) = M
    BY SMTT(30), <1>1, <1>3, <1>4, <1>6 DEF Mandatory
  <2>2. Cardinality(M) \in Nat BY <1>2, FS_CardinalityType
  <2> HIDE DEF M
  <2> QED BY <1>2, <1>6, <2>1, <2>2 DEF M
<1> QED BY <1>5, <1>6

(* How many of the first i children are of the class. *)
Before(declared, class, i) == {j \in 1 .. i : declared[j] = class}

LEMMA BeforeCounted ==
  ASSUME NEW declared, NEW class, NEW i \in Nat
  PROVE  /\ Cardinality(Before(declared, class, i)) \in Nat
         /\ Cardinality(Before(declared, class, i + 1)) =
              Cardinality(Before(declared, class, i)) + (IF declared[i + 1] = class THEN 1 ELSE 0)
<1> DEFINE B == Before(declared, class, i)
<1>1. IsFiniteSet(B) /\ Cardinality(B) \in Nat
  <2>1. IsFiniteSet(1 .. i) BY FS_Interval
  <2>2. B \subseteq 1 .. i BY DEF Before
  <2>3. IsFiniteSet(B) BY <2>1, <2>2, FS_Subset
  <2> QED BY <2>3, FS_CardinalityType
<1>2. 1 .. i + 1 = (1 .. i) \cup {i + 1} OBVIOUS
<1>3. CASE declared[i + 1] = class
  <2>1. Before(declared, class, i + 1) = B \cup {i + 1} BY <1>2, <1>3 DEF Before
  <2>2. i + 1 \notin B BY DEF Before
  <2> HIDE DEF B
  <2>3. Cardinality(B \cup {i + 1}) = Cardinality(B) + 1 BY <1>1, <2>2, FS_AddElement
  <2> QED BY <1>1, <1>3, <2>1, <2>3 DEF B
<1>4. CASE declared[i + 1] # class
  <2>1. Before(declared, class, i + 1) = B BY <1>2, <1>4 DEF Before
  <2> HIDE DEF B
  <2> QED BY <1>1, <1>4, <2>1 DEF B
<1> QED BY <1>3, <1>4

(* What is known after i of the children of the node p. *)
Whole(sp, n) ==
  /\ sp[n].class \in {"type", "event"} =>
       \A class \in {"variable", "source"} :
         Cardinality(Mandatory(sp, n, class)) = Cardinality(Those(sp[n].declared, class))
  /\ sp[n].class = "method" => sp[n].mandatory

(* What a call leaves of the server, and what it adds to it. *)
Called(s, u) ==
  /\ SoundServer(u) /\ Len(s.space) <= Len(u.space)
  /\ \A n \in 1 .. Len(s.space) : u.space[n] = s.space[n]
  /\ \A n \in Len(s.space) + 1 .. Len(u.space) : u.space[n].parent \notin 1 .. Len(s.space)
  /\ u.id # 0 => u.id \in Len(s.space) + 1 .. Len(u.space) /\ Whole(u.space, u.id)

ChildrenSoFar(t, p, of, declared, i, v) ==
  /\ SoundServer(v) /\ v.id \in {0, p} /\ p <= Len(v.space)
  /\ \A n \in 1 .. p : v.space[n] = t.space[n]
  /\ \A n \in p + 1 .. Len(v.space) : v.space[n].parent = p
  /\ of \in {"type", "event"} /\ v.id # 0 =>
       \A class \in {"variable", "source"} :
         Cardinality(Mandatory(v.space, p, class)) = Cardinality(Before(declared, class, i))

LEMMA NextDeclared ==
  ASSUME OpcUaAssumptions, NEW t, NEW p \in Nat \ {0}, NEW of \in Classes,
         NEW declared \in Seq(Children), NEW i \in Nat, i + 1 <= Len(declared), NEW v,
         ChildrenSoFar(t, p, of, declared, i, v), NEW u,
         u = AddDeclared(v, p, of, declared[i + 1])
  PROVE  ChildrenSoFar(t, p, of, declared, i + 1, u)
<1> DEFINE class == declared[i + 1]
<1>1. class \in Children BY ElementOfSeq
<1>2. v \in Servers /\ Len(v.space) \in Nat /\ p \in 1 .. Len(v.space) /\ v.id \in {0, p} /\ SoundServer(v)
  BY SMTT(30) DEF ChildrenSoFar, SoundServer, Servers
<1> HIDE DEF class
<1>3. /\ SoundServer(u) /\ u.id \in {0, p}
      /\ u.space = v.space \/ Adds(v, u, p, class)
      /\ of \in {"type", "event"} /\ u.id # 0 =>
           /\ v.id # 0
           /\ class # "method" => Adds(v, u, p, class) /\ u.space[Len(u.space)].mandatory
  BY <1>1, <1>2, DeclaredAdded DEF class
<1>4. /\ p <= Len(u.space)
      /\ \A n \in 1 .. p : u.space[n] = t.space[n]
      /\ \A n \in p + 1 .. Len(u.space) : u.space[n].parent = p
  BY SMTT(30), <1>2, <1>3 DEF ChildrenSoFar, Adds
<1>5. ASSUME of \in {"type", "event"}, u.id # 0, NEW other \in {"variable", "source"}
      PROVE  Cardinality(Mandatory(u.space, p, other)) = Cardinality(Before(declared, other, i + 1))
  <2>1. Cardinality(Mandatory(v.space, p, other)) = Cardinality(Before(declared, other, i))
    BY <1>3, <1>5 DEF ChildrenSoFar
  <2>2. Cardinality(Before(declared, other, i + 1)) =
          Cardinality(Before(declared, other, i)) + (IF class = other THEN 1 ELSE 0)
        /\ Cardinality(Before(declared, other, i)) \in Nat
    BY BeforeCounted DEF class
  <2>3. CASE Adds(v, u, p, class)
    <3>1. class = other => u.space[Len(u.space)].mandatory BY <1>3, <1>5
    <3>2. u \in Servers BY <1>3 DEF SoundServer
    <3>3. u.space[Len(u.space)].mandatory \in BOOLEAN
      <4>1. Len(u.space) \in 1 .. Len(u.space) /\ u.space \in Seq(Nodes) BY <1>2, <2>3, <3>2 DEF Adds, Servers
      <4>2. u.space[Len(u.space)] \in Nodes BY <4>1
      <4> QED BY <4>2 DEF Nodes
    <3>4. class = other => u.space[Len(u.space)].mandatory = TRUE BY <3>1, <3>3
    <3>5. Cardinality(Mandatory(u.space, p, other)) =
            Cardinality(Mandatory(v.space, p, other)) + (IF class = other THEN 1 ELSE 0)
      BY <1>2, <2>3, <3>2, <3>4, DeclaredCounted
    <3> QED BY <2>1, <2>2, <3>5
  <2>4. CASE u.space = v.space
    <3>1. ~Adds(v, u, p, class) BY <1>2, <2>4 DEF Adds
    <3>2. class # other BY <1>3, <1>5, <3>1
    <3> QED BY <2>1, <2>2, <2>4, <3>2
  <2> QED BY <1>3, <2>3, <2>4
<1> QED BY <1>3, <1>4, <1>5 DEF ChildrenSoFar

LEMMA NodeAddedWith ==
  ASSUME OpcUaAssumptions, NEW s, SoundServer(s), NEW of \in {"type", "event", "object"},
         NEW declared \in Seq(Children), NEW u, u = AddNodeWith(s, of, declared)
  PROVE  Called(s, u)
<1> DEFINE t == AddNode(s, of, 0, declared)
           p == t.id
           n == Len(declared)
           Onward(i, v) == AddDeclared(v, p, of, declared[i])
           S == {v \in Servers : SoundServer(v) /\ v.id \in {0, p} /\ p <= Len(v.space)}
           step == [i \in 1 .. n |-> [v \in S |-> Onward(i, v)]]
<1>1. /\ Len(s.space) \in Nat /\ n \in Nat /\ \A i \in 1 .. n : declared[i] \in Children
      /\ of \in Classes /\ of \in Classes \ {"source", "method"}
  BY ElementOfSeq DEF SoundServer, Servers, Classes, Children
<1>2. /\ SoundServer(t) /\ t.id \in {0, Len(s.space) + 1}
      /\ t.id = 0 => t.space = s.space
      /\ t.id # 0 => Adds(s, t, 0, of) /\ t.space[t.id].declared = declared
  <2>1. 0 \in 0 .. Len(s.space) BY <1>1
  <2> HIDE DEF t
  <2> QED BY <1>1, <2>1, NodeAdded DEF t
<1>3. CASE t.id = 0
  <2>1. u = t BY <1>3 DEF AddNodeWith
  <2> HIDE DEF t
  <2> QED BY <1>1, <1>2, <1>3, <2>1 DEF Called
<1>4. CASE t.id # 0
  <2>1. p = Len(s.space) + 1 /\ Len(t.space) = p /\ p \in Nat \ {0} /\ t \in S /\ t \in Servers
    <3>1. t \in Servers /\ p = Len(s.space) + 1 /\ Len(t.space) = p
      <4> HIDE DEF t
      <4> QED BY <1>1, <1>2, <1>4 DEF SoundServer, Adds
    <3> HIDE DEF t
    <3> QED BY <1>1, <1>2, <3>1
  <2>2. ASSUME NEW i \in 1 .. n, NEW v \in S PROVE Onward(i, v) \in S
    <3> DEFINE w == Onward(i, v)
    <3>1. declared[i] \in Children BY <1>1
    <3>2. SoundServer(v) /\ v.id \in {0, p} /\ p \in 1 .. Len(v.space) /\ Len(v.space) \in Nat
      <4> HIDE DEF t
      <4> QED BY SMTT(30), <2>1 DEF Servers
    <3>3. /\ SoundServer(w) /\ w.id \in {0, p}
          /\ w.space = v.space \/ Adds(v, w, p, declared[i])
      <4> HIDE DEF t
      <4> QED BY <1>1, <3>1, <3>2, DeclaredAdded
    <3> HIDE DEF w, t
    <3>4. w \in Servers /\ p <= Len(w.space) BY <3>2, <3>3 DEF SoundServer, Adds
    <3>5. w \in S BY <3>3, <3>4
    <3> QED BY <3>5 DEF w
  <2>3. step \in [1 .. n -> [S -> S]]
    <3> HIDE DEF Onward, n, S
    <3> QED BY <2>2
  <2>4. PICK g : Follows(g, n, S, t, step)
    <3>1. t \in S BY <2>1
    <3> HIDE DEF step, n, S, t
    <3> QED BY <1>1, <2>3, <3>1, Recursion
  <2>5. g = [i \in 0 .. n |-> IF i = 0 THEN t ELSE Onward(i, g[i - 1])]
    <3>1. ASSUME NEW i \in 0 .. n, i # 0 PROVE step[i][g[i - 1]] = Onward(i, g[i - 1])
      <4>1. i \in 1 .. n /\ i - 1 \in 0 .. n BY <1>1, <3>1
      <4>2. g[i - 1] \in S
        <5> HIDE DEF n, S, step, t
        <5> QED BY <2>4, <4>1 DEF Follows
      <4> HIDE DEF Onward, n, S
      <4> QED BY <4>1, <4>2
    <3> HIDE DEF step, Onward, n, S, t
    <3> QED BY <2>4, <3>1 DEF Follows
  <2>6. PICK f : /\ f = [i \in 0 .. n |-> IF i = 0 THEN t ELSE Onward(i, f[i - 1])]
                 /\ u = f[n]
    <3> DEFINE h == CHOOSE h : h = [i \in 0 .. n |-> IF i = 0 THEN t ELSE Onward(i, h[i - 1])]
    <3>1. u = h[n] BY <1>4 DEF AddNodeWith
    <3>2. h = [i \in 0 .. n |-> IF i = 0 THEN t ELSE Onward(i, h[i - 1])]
      <4> HIDE DEF n, Onward, t
      <4> QED BY <2>5
    <3> HIDE DEF h, n, Onward, t
    <3> QED BY <3>1, <3>2
  <2> DEFINE T == {i \in Nat : i <= n => ChildrenSoFar(t, p, of, declared, i, f[i])}
  <2>7. 0 \in T
    <3>1. f[0] = t
      <4> HIDE DEF Onward, t
      <4>1. 0 \in 0 .. n BY <1>1
      <4> HIDE DEF n
      <4> QED BY <2>6, <4>1
    <3>2. ASSUME NEW class PROVE Mandatory(t.space, p, class) = Before(declared, class, 0)
      <4>1. \A m \in 1 .. Len(t.space) : t.space[m].parent < p
        <5>1. ASSUME NEW m \in 1 .. Len(t.space) PROVE t.space[m].parent < p
          <6>1. t.space[m].parent < m /\ m <= p /\ m \in Nat
            <7> HIDE DEF t
            <7> QED BY <1>2, <2>1 DEF SoundServer, NodeSound
          <6>2. t.space[m] \in Nodes
            <7> HIDE DEF t
            <7> QED BY <2>1 DEF Servers
          <6>3. t.space[m].parent \in Nat
            <7> HIDE DEF t
            <7> QED BY <6>2 DEF Nodes
          <6> HIDE DEF t
          <6> QED BY <2>1, <6>1, <6>3
        <5> QED BY <5>1
      <4>2. Before(declared, class, 0) = {} BY DEF Before
      <4>3. \A m \in 1 .. Len(t.space) : t.space[m].parent \in Nat
        <5>1. \A m \in 1 .. Len(t.space) : t.space[m] \in Nodes
          <6> HIDE DEF t
          <6> QED BY <2>1 DEF Servers
        <5> HIDE DEF t
        <5> QED BY <5>1 DEF Nodes
      <4> HIDE DEF t
      <4> QED BY <2>1, <4>1, <4>2, <4>3 DEF Mandatory
    <3>3. ChildrenSoFar(t, p, of, declared, 0, t)
      <4> HIDE DEF t
      <4> QED BY <1>2, <2>1, <3>2 DEF ChildrenSoFar
    <3> HIDE DEF t
    <3> QED BY <3>1, <3>3
  <2>8. ASSUME NEW i \in Nat, i \in T PROVE i + 1 \in T
    <3> SUFFICES ASSUME i + 1 <= n PROVE ChildrenSoFar(t, p, of, declared, i + 1, f[i + 1])
      OBVIOUS
    <3>1. i + 1 \in 0 .. n /\ i + 1 # 0 /\ (i + 1) - 1 = i /\ i <= n BY <1>1
    <3>2. ChildrenSoFar(t, p, of, declared, i, f[i])
      <4> HIDE DEF t, n
      <4> QED BY <2>8, <3>1
    <3>3. f[i + 1] = AddDeclared(f[i], p, of, declared[i + 1])
      <4> HIDE DEF n, Onward, t
      <4> QED BY <2>6, <3>1 DEF Onward
    <3> HIDE DEF t
    <3> QED BY <1>1, <2>1, <3>2, <3>3, NextDeclared
  <2>9. n \in T
    <3> HIDE DEF T, n
    <3> QED BY <1>1, <2>7, <2>8, SetInduction
  <2>10. ChildrenSoFar(t, p, of, declared, n, u)
    <3> HIDE DEF t, n
    <3> QED BY <1>1, <2>6, <2>9
  <2>11. t.space[p].class = of /\ t.space[p].declared = declared
         /\ \A m \in 1 .. Len(s.space) : t.space[m] = s.space[m]
    <3> HIDE DEF t
    <3> QED BY <1>2, <1>4, <2>1 DEF Adds
  <2>12. \A class : Those(declared, class) = Before(declared, class, n)
    BY DEF Those, Before
  <2>13. u.space[p] = t.space[p] /\ u.id \in {0, p} /\ p \in Len(s.space) + 1 .. Len(u.space)
    <3> HIDE DEF t
    <3> QED BY SMTT(30), <1>1, <2>1, <2>10 DEF ChildrenSoFar, SoundServer, Servers
  <2>14. u.id # 0 => Whole(u.space, u.id)
    <3> HIDE DEF t, n
    <3> QED BY SMTT(30), <2>10, <2>11, <2>12, <2>13 DEF ChildrenSoFar, Whole
  <2>15. \A m \in Len(s.space) + 1 .. Len(u.space) : u.space[m].parent \notin 1 .. Len(s.space)
    <3>1. t.space[p].parent = 0
      <4> HIDE DEF t
      <4> QED BY <1>2, <1>4, <2>1 DEF Adds
    <3>2. ASSUME NEW m \in Len(s.space) + 1 .. Len(u.space) PROVE m = p \/ m \in p + 1 .. Len(u.space)
      <4> HIDE DEF t
      <4> QED BY <1>1, <2>1
    <3> HIDE DEF t
    <3> QED BY SMTT(120), <1>1, <2>1, <2>10, <2>13, <3>1, <3>2 DEF ChildrenSoFar
  <2> HIDE DEF t, n
  <2> QED BY <1>1, <2>1, <2>10, <2>11, <2>13, <2>14, <2>15 DEF Called, ChildrenSoFar
<1> QED BY <1>3, <1>4

LEMMA ChildCalled ==
  ASSUME OpcUaAssumptions, NEW s, SoundServer(s), NEW class \in Children, NEW u,
         u = AddChild(s, 0, class)
  PROVE  Called(s, u)
<1>1. Len(s.space) \in Nat /\ 0 \in 0 .. Len(s.space) BY DEF SoundServer, Servers
<1>2. /\ SoundServer(u) /\ u.id \in {0, Len(s.space) + 1}
      /\ u.id = 0 => u.space = s.space \/ Adds(s, u, 0, class)
      /\ u.id # 0 => Adds(s, u, 0, class)
      /\ u.id # 0 /\ class = "method" => u.space[u.id].mandatory
  BY <1>1, ChildAdded
<1>3. CASE u.space = s.space
  <2>1. ~Adds(s, u, 0, class) BY <1>1, <1>3 DEF Adds
  <2> QED BY <1>1, <1>2, <1>3, <2>1 DEF Called
<1>4. CASE Adds(s, u, 0, class)
  <2>1. /\ Len(u.space) = Len(s.space) + 1 /\ \A n \in 1 .. Len(s.space) : u.space[n] = s.space[n]
        /\ u.space[Len(u.space)].parent = 0 /\ u.space[Len(u.space)].class = class
    BY <1>4 DEF Adds
  <2>2. u.id # 0 => Whole(u.space, u.id)
    <3>1. class \notin {"type", "event"} BY DEF Children
    <3> QED BY <1>1, <1>2, <2>1, <3>1 DEF Whole
  <2> QED BY <1>1, <1>2, <2>1, <2>2 DEF Called
<1> QED BY <1>2, <1>3, <1>4

-----------------------------------------------------------------------------
(* What a server has between two calls *)

ServerInv ==
  /\ SoundServer(Within(0))
  /\ \A n \in answered : n \in 1 .. Len(space) /\ Whole(space, n)

LEMMA WithinSound ==
  ASSUME ServerInv, NEW k \in Nat
  PROVE  SoundServer(Within(k)) /\ Within(k).space = space
BY DEF ServerInv, SoundServer, NodeSound, NodeHolds, Within, Servers

LEMMA BecomesKeeps ==
  ASSUME OpcUaAssumptions, ServerInv, NEW k \in Nat, NEW u, Called(Within(k), u), Becomes(u)
  PROVE  ServerInv'
<1>1. /\ space' = u.space /\ contexts' = u.contexts /\ kept' = u.kept /\ misled' = misled
      /\ answered' = answered \cup ({u.id} \ {0})
  BY DEF Becomes
<1>2. Within(k).space = space /\ Len(space) \in Nat /\ space \in Seq(Nodes)
  BY WithinSound DEF ServerInv, SoundServer, Servers, Within
<1>3. /\ SoundServer(u) /\ Len(space) <= Len(u.space) /\ Len(u.space) \in Nat
      /\ \A n \in 1 .. Len(space) : u.space[n] = space[n]
      /\ \A n \in Len(space) + 1 .. Len(u.space) : u.space[n].parent \notin 1 .. Len(space)
      /\ u.id # 0 => u.id \in Len(space) + 1 .. Len(u.space) /\ Whole(u.space, u.id)
  BY <1>2 DEF Called, SoundServer, Servers
<1>4. SoundServer(Within(0))'
  BY <1>1, <1>3 DEF SoundServer, NodeSound, NodeHolds, Within, Servers
<1>5. ASSUME NEW n \in answered PROVE n \in 1 .. Len(u.space) /\ Whole(u.space, n)
  <2>1. n \in 1 .. Len(space) /\ Whole(space, n) BY DEF ServerInv
  <2>2. n \in 1 .. Len(u.space) /\ u.space[n] = space[n] BY <1>2, <1>3, <2>1
  <2>3. \A class : Mandatory(u.space, n, class) = Mandatory(space, n, class)
    BY SMTT(30), <1>2, <1>3, <2>1 DEF Mandatory
  <2> QED BY <2>1, <2>2, <2>3 DEF Whole
<1>6. ASSUME NEW n \in answered' PROVE n \in 1 .. Len(space') /\ Whole(space', n)
  <2>1. CASE n \in answered BY <1>1, <1>5, <2>1
  <2>2. CASE n = u.id /\ u.id # 0
    <3>1. n \in 1 .. Len(u.space) /\ Whole(u.space, n) BY <1>2, <1>3, <2>2
    <3> QED BY <1>1, <3>1
  <2> QED BY <1>1, <2>1, <2>2
<1>7. \A n \in answered' : Whole(space', n) => Whole(space, n)' BY DEF Whole, Mandatory
<1> QED BY <1>4, <1>6, <1>7 DEF ServerInv

LEMMA AddKeeps ==
  ASSUME OpcUaAssumptions, ServerInv, Add
  PROVE  ServerInv'
<1>1. PICK k \in 0 .. MaxCalls :
        \/ \E class \in Children : Becomes(AddChild(Within(k), 0, class))
        \/ \E declared \in Declared :
             \/ Becomes(AddObjectTypeNode(Within(k), declared))
             \/ Becomes(AddEventTypeNode(Within(k), declared))
             \/ Becomes(AddObjectNode(Within(k), declared))
  BY DEF Add
<1>2. k \in Nat /\ SoundServer(Within(k)) BY WithinSound
<1>3. ASSUME NEW class \in Children, Becomes(AddChild(Within(k), 0, class)) PROVE ServerInv'
  <2>1. Called(Within(k), AddChild(Within(k), 0, class)) BY <1>2, ChildCalled
  <2> QED BY <1>2, <1>3, <2>1, BecomesKeeps
<1>4. ASSUME NEW of \in {"type", "event", "object"}, NEW declared \in Seq(Children),
             Becomes(AddNodeWith(Within(k), of, declared))
      PROVE  ServerInv'
  <2>1. Called(Within(k), AddNodeWith(Within(k), of, declared)) BY <1>2, NodeAddedWith
  <2> QED BY <1>2, <1>4, <2>1, BecomesKeeps
<1>5. ASSUME NEW declared \in Declared
      PROVE  /\ declared \in Seq(Children)
             /\ [i \in 1 .. Cardinality(Those(declared, "variable")) |-> "variable"] \in Seq(Children)
  <2>1. declared \in Seq(Children) BY DEF OpcUaAssumptions
  <2>2. IsFiniteSet(Those(declared, "variable"))
    <3>1. IsFiniteSet(1 .. Len(declared)) BY <2>1, FS_Interval
    <3>2. Those(declared, "variable") \subseteq 1 .. Len(declared) BY <2>1 DEF Those
    <3> QED BY <3>1, <3>2, FS_Subset
  <2>3. Cardinality(Those(declared, "variable")) \in Nat BY <2>2, FS_CardinalityType
  <2> QED BY <2>1, <2>3 DEF Children
<1>6. ASSUME NEW declared \in Declared,
             \/ Becomes(AddObjectTypeNode(Within(k), declared))
             \/ Becomes(AddEventTypeNode(Within(k), declared))
             \/ Becomes(AddObjectNode(Within(k), declared))
      PROVE  ServerInv'
  BY <1>4, <1>5, <1>6 DEF AddObjectTypeNode, AddEventTypeNode, AddObjectNode
<1> QED BY <1>1, <1>3, <1>6

LEMMA ContextKeeps ==
  ASSUME ServerInv, NEW n \in DOMAIN space, NEW kind \in Children,
         NEW good \in BOOLEAN, NEW hold \in BOOLEAN, good => hold,
         good => space[n].class = kind, SetContext(n, kind, hold, good), answered' = answered
  PROVE  ServerInv'
<1> DEFINE k == Len(contexts) + 1
           node == [space[n] EXCEPT !.context = k,
                      !.callback = IF good THEN kind ELSE space[n].callback,
                      !.wanted = IF good THEN k ELSE space[n].wanted]
<1>1. /\ space \in Seq(Nodes) /\ contexts \in Seq(Children) /\ kept \in SUBSET Nat
      /\ Len(space) \in Nat /\ Len(contexts) \in Nat /\ n \in 1 .. Len(space)
      /\ \A m \in 1 .. Len(space) : NodeSound(Within(0), m)
  BY WithinSound DEF ServerInv, SoundServer, Servers, Within
<1>2. /\ node \in Nodes /\ node.class = space[n].class /\ node.parent = space[n].parent
      /\ node.mandatory = space[n].mandatory /\ node.declared = space[n].declared
      /\ node.callback = (IF good THEN kind ELSE space[n].callback)
      /\ node.context = k /\ node.wanted = (IF good THEN k ELSE space[n].wanted)
  <2>1. k \in Nat /\ space[n] \in Nodes BY <1>1
  <2> HIDE DEF k
  <2> QED BY <2>1 DEF Nodes
<1>3. /\ space' = [space EXCEPT ![n] = node] /\ contexts' = Append(contexts, kind)
      /\ kept' = (IF hold THEN kept \cup {k} ELSE kept)
      /\ misled' = (IF good THEN misled \ {n} ELSE misled \cup {n})
  <2>1. space' = [space EXCEPT ![n] = node] BY DEF SetContext
  <2> QED BY <2>1 DEF SetContext
<1> HIDE DEF node
<1>4. /\ space' \in Seq(Nodes) /\ Len(space') = Len(space)
      /\ \A m \in 1 .. Len(space) : space'[m] = IF m = n THEN node ELSE space[m]
  BY <1>1, <1>2, <1>3
<1>5. /\ contexts' \in Seq(Children) /\ Len(contexts') = k /\ contexts'[k] = kind
      /\ \A i \in 1 .. Len(contexts) : contexts'[i] = contexts[i]
  BY <1>1, <1>3
<1>6. kept' \in SUBSET Nat /\ kept \subseteq kept' /\ (good => k \in kept') BY <1>1, <1>3
<1>7. ASSUME NEW m \in 1 .. Len(space) PROVE NodeSound(Within(0), m)'
  <2>1. NodeSound(Within(0), m) BY <1>1
  <2>2. CASE m = n
    <3>1. space'[m] = node BY <1>4, <2>2
    <3>2. n \notin misled' => good BY <1>3
    <3>3. k \in 1 .. Len(contexts') BY <1>1, <1>5
    <3> HIDE DEF k
    <3> QED BY <1>2, <1>5, <1>6, <2>1, <2>2, <3>1, <3>2, <3>3 DEF NodeSound, NodeHolds, Within
  <2>3. CASE m # n
    <3>1. space'[m] = space[m] /\ (m \in misled' <=> m \in misled) BY <1>3, <1>4, <2>3
    <3> QED BY <1>1, <1>5, <1>6, <2>1, <3>1 DEF NodeSound, NodeHolds, Within
  <2> QED BY <2>2, <2>3
<1>8. SoundServer(Within(0))'
  <2>1. Within(0)' \in Servers BY <1>4, <1>5, <1>6 DEF Servers, Within
  <2>2. Within(0)'.id = 0 /\ Within(0)'.space = space' BY DEF Within
  <2>3. \A m \in 1 .. Len(Within(0)'.space) : NodeSound(Within(0), m)' BY <1>4, <1>7, <2>2
  <2>4. Within(0)'.id <= Len(Within(0)'.space) BY <1>1, <1>4, <2>2
  <2> QED BY <2>1, <2>3, <2>4 DEF SoundServer
<1>9. ASSUME NEW m \in answered PROVE m \in 1 .. Len(space') /\ Whole(space', m)
  <2>1. m \in 1 .. Len(space) /\ Whole(space, m) BY DEF ServerInv
  <2>2. \A l \in 1 .. Len(space) :
          /\ space'[l].class = space[l].class /\ space'[l].parent = space[l].parent
          /\ space'[l].mandatory = space[l].mandatory /\ space'[l].declared = space[l].declared
    BY <1>2, <1>4
  <2>3. \A class : Mandatory(space', m, class) = Mandatory(space, m, class)
    BY <1>4, <2>2 DEF Mandatory
  <2> QED BY <1>4, <2>1, <2>2, <2>3 DEF Whole
<1>10. \A m \in answered' : Whole(space', m) => Whole(space, m)' BY DEF Whole, Mandatory
<1> QED BY <1>8, <1>9, <1>10 DEF ServerInv

LEMMA NothingKeeps ==
  ASSUME ServerInv, UNCHANGED <<space, contexts, kept, answered, misled>>
  PROVE  ServerInv'
<1>1. Within(0)' = Within(0) BY DEF Within
<1>2. SoundServer(Within(0))' BY <1>1 DEF ServerInv, SoundServer, NodeSound, NodeHolds, Servers
<1>3. ASSUME NEW n \in answered' PROVE n \in 1 .. Len(space') /\ Whole(space, n)'
  <2>1. space' = space /\ n \in 1 .. Len(space) /\ Whole(space, n) BY DEF ServerInv
  <2>2. n \in 1 .. Len(space') /\ Whole(space', n) BY <2>1
  <2>3. Whole(space', n) => Whole(space, n)' BY DEF Whole, Mandatory
  <2> QED BY <2>2, <2>3
<1> QED BY <1>2, <1>3 DEF ServerInv

LEMMA CallbackKeeps ==
  ASSUME ServerInv, SetCallback
  PROVE  ServerInv'
<1>1. PICK n \in DOMAIN space :
        \/ space[n].class \in Children /\ AddVariableNodeValueCallback(n)
        \/ space[n].class = "method" /\ SetMethodNodeCallBack(n)
  BY DEF SetCallback
<1>2. CASE SetNothing(n)
  BY <1>2, NothingKeeps DEF SetNothing
<1>3. ASSUME NEW ok \in BOOLEAN, SetContext(n, "variable", TRUE, ok /\ space[n].class = "variable"),
             answered' = answered
      PROVE  ServerInv'
  <2> DEFINE good == ok /\ space[n].class = "variable"
  <2>1. good \in BOOLEAN /\ (good => space[n].class = "variable") /\ "variable" \in Children
    BY DEF Children
  <2>2. SetContext(n, "variable", TRUE, good) BY <1>3
  <2> HIDE DEF good
  <2> QED BY <1>3, <2>1, <2>2, ContextKeeps
<1>4. ASSUME NEW ok \in BOOLEAN, space[n].class = "method", SetContext(n, "method", ok, ok),
             answered' = answered
      PROVE  ServerInv'
  <2>1. "method" \in Children BY DEF Children
  <2> QED BY <1>4, <2>1, ContextKeeps
<1> QED BY <1>1, <1>2, <1>3, <1>4 DEF AddVariableNodeValueCallback, SetMethodNodeCallBack

(* The context of every callback that a server has given to the library is  *)
(* there, of its kind and the last one set, and the types that were added   *)
(* have all that was declared of them; whatever of it the library fails to  *)
(* do, for any declared children.                                           *)
THEOREM ServerSound == ASSUME OpcUaAssumptions PROVE OpcUaSpec => [](ContextsHold /\ TypesWhole)
<1>1. OpcUaInit => ServerInv
  BY DEF OpcUaInit, ServerInv, SoundServer, Within, Servers
<1>2. OpcUaAssumptions /\ ServerInv /\ [OpcUaNext]_opcUaVars => ServerInv'
  <2> SUFFICES ASSUME OpcUaAssumptions, ServerInv, [OpcUaNext]_opcUaVars PROVE ServerInv'
    OBVIOUS
  <2>1. CASE UNCHANGED server
    BY <2>1, NothingKeeps DEF server
  <2>2. CASE ServerNext BY <2>2, AddKeeps, CallbackKeeps DEF ServerNext
  <2>3. ClientNext \/ TimersNext => UNCHANGED server
    BY DEF ClientNext, Monitor, RemoveMonitor, Shutdown, TimersNext, Construct, Cancel, Destroy, Move
  <2> QED BY <2>1, <2>2, <2>3 DEF OpcUaNext, opcUaVars
<1>3. ServerInv => ContextsHold /\ TypesWhole
  <2> SUFFICES ASSUME ServerInv PROVE ContextsHold /\ TypesWhole
    OBVIOUS
  <2>1. DOMAIN space = 1 .. Len(space)
        /\ \A n \in 1 .. Len(space) : NodeSound(Within(0), n)
    BY DEF ServerInv, SoundServer, Servers, Within
  <2>2. ContextsHold BY <2>1 DEF ContextsHold, NodeSound, NodeHolds, Within
  <2>3. \A n \in answered : Whole(space, n) BY DEF ServerInv
  <2>4. \A n, class : Mandatory(space, n, class) =
          {m \in DOMAIN space : /\ space[m].parent = n
                                /\ space[m].class = class
                                /\ space[m].mandatory}
    BY <2>1 DEF Mandatory
  <2>5. ASSUME NEW n \in answered
        PROVE  /\ space[n].class \in {"type", "event"} =>
                    \A class \in {"variable", "source"} :
                      Cardinality({m \in DOMAIN space : /\ space[m].parent = n
                                                        /\ space[m].class = class
                                                        /\ space[m].mandatory})
                        = Cardinality(Those(space[n].declared, class))
               /\ space[n].class = "method" => space[n].mandatory
    <3>1. Whole(space, n) BY <2>3
    <3>2. ASSUME space[n].class \in {"type", "event"}, NEW class \in {"variable", "source"}
          PROVE  Cardinality(Mandatory(space, n, class)) = Cardinality(Those(space[n].declared, class))
      BY <3>1, <3>2 DEF Whole
    <3> QED BY <2>4, <3>1, <3>2 DEF Whole
  <2>6. TypesWhole BY <2>5 DEF TypesWhole
  <2> QED BY <2>2, <2>6
<1> QED BY <1>1, <1>2, <1>3, PTL DEF OpcUaSpec

-----------------------------------------------------------------------------
Items == [node : Targets, there : BOOLEAN]

ClientTypes ==
  /\ items \in Seq(Items)
  /\ map \in [Keys -> 0 .. Len(items)]

TimersTypes ==
  /\ timers \in [Slots -> [alive : BOOLEAN, function : BOOLEAN, id : 0 .. Len(due)]]
  /\ due \in Seq(Slots \cup {Unset})

(* While the client runs, so that shutdown() need not keep it. *)
ClientInv == ClientTypes /\ RemovesWhatItMade

TimersInv == TimersTypes /\ TimersHeld

-----------------------------------------------------------------------------
LEMMA ServerLeaves ==
  ASSUME ServerNext
  PROVE  UNCHANGED client /\ UNCHANGED clocks
BY ZenonT(60) DEF ServerNext, Add, SetCallback, Becomes, AddVariableNodeValueCallback,
       SetMethodNodeCallBack, SetNothing

LEMMA ItemsTyped ==
  ASSUME ClientTypes, NEW i \in DOMAIN items
  PROVE  items[i] \in Items /\ items[i].node \in Targets
<1>1. items[i] \in Items
  BY DEF ClientTypes
<1> QED BY <1>1 DEF Items

LEMMA MonitorKeeps ==
  ASSUME OpcUaAssumptions, ClientInv, NEW t \in Targets, Monitor(t)
  PROVE  ClientInv'
<1> USE DEF ClientInv, ClientTypes, Keys
<1>1. CASE UNCHANGED <<items, map, clobbered>>
  BY <1>1 DEF Monitor, RemovesWhatItMade
<1>2. CASE /\ items' = Append(items, [node |-> t, there |-> TRUE])
           /\ map' = [map EXCEPT ![Key[t]] = Len(items) + 1]
           /\ clobbered' = IF map[Key[t]] = 0 THEN clobbered ELSE clobbered \cup {Key[t]}
  <2>1. /\ DOMAIN items' = 1 .. Len(items) + 1 /\ Len(items') = Len(items) + 1
        /\ \A i \in 1 .. Len(items) : items'[i] = items[i]
        /\ items'[Len(items) + 1] = [node |-> t, there |-> TRUE] /\ items' \in Seq(Items)
    <3>1. [node |-> t, there |-> TRUE] \in Items
      BY DEF Items
    <3> QED BY <1>2, <3>1
  <2>2. ClientTypes'
    BY <1>2, <2>1
  <2>3. \A k \in Keys : map'[k] = IF k = Key[t] THEN Len(items) + 1 ELSE map[k]
    BY <1>2
  <2>4. running
    BY DEF Monitor
  <2>5. ASSUME NEW k \in Keys, map'[k] # 0
        PROVE  items'[map'[k]].there /\ Key[items'[map'[k]].node] = k
    BY SMTT(30), <2>1, <2>3, <2>4, <2>5 DEF RemovesWhatItMade
  <2>6. ASSUME NEW i \in DOMAIN items', items'[i].there, Key[items'[i].node] \notin clobbered'
        PROVE  map'[Key[items'[i].node]] = i
    <3>1. CASE i = Len(items) + 1
      BY <2>1, <2>3, <3>1
    <3>2. CASE i \in DOMAIN items
      <4>1. items'[i] = items[i] /\ items[i].node \in Targets /\ i # 0
        BY <2>1, <3>2, ItemsTyped
      <4>2. map[Key[items[i].node]] = i
        BY <1>2, <2>4, <2>6, <3>2, <4>1 DEF RemovesWhatItMade
      <4>3. Key[items[i].node] # Key[t]
        BY <1>2, <2>6, <4>1, <4>2
      <4> QED BY <2>3, <4>1, <4>2, <4>3
    <3> QED BY <2>1, <3>1, <3>2
  <2> QED BY <2>2, <2>5, <2>6 DEF RemovesWhatItMade
<1> QED BY <1>1, <1>2 DEF Monitor

LEMMA RemoveKeeps ==
  ASSUME OpcUaAssumptions, ClientInv, NEW t \in Targets, RemoveMonitor(t)
  PROVE  ClientInv'
<1> USE DEF ClientInv, ClientTypes, Keys
<1>1. /\ running /\ map[Key[t]] \in DOMAIN items
      /\ items' = [items EXCEPT ![map[Key[t]]].there = FALSE]
      /\ map' = [map EXCEPT ![Key[t]] = 0] /\ clobbered' = clobbered
  BY DEF RemoveMonitor
<1>2. /\ DOMAIN items' = DOMAIN items /\ Len(items') = Len(items)
      /\ \A i \in DOMAIN items :
           /\ items'[i].node = items[i].node /\ items[i].node \in Targets
           /\ items'[i].there = IF i = map[Key[t]] THEN FALSE ELSE items[i].there
  <2> DEFINE j == map[Key[t]]
  <2>1. \A i \in DOMAIN items : items[i] \in Items
    BY ItemsTyped
  <2>2. items' = [items EXCEPT ![j] = [items[j] EXCEPT !.there = FALSE]] /\ j \in DOMAIN items
    BY <1>1
  <2>3. /\ DOMAIN items' = DOMAIN items
        /\ \A i \in DOMAIN items : items'[i] =
             IF i = j THEN [items[j] EXCEPT !.there = FALSE] ELSE items[i]
    BY <2>2
  <2> HIDE DEF j
  <2>4. Len(items') = Len(items)
    BY <2>2
  <2> QED BY <2>1, <2>2, <2>3, <2>4 DEF j, Items
<1>3. ClientTypes'
  <2>1. [items[map[Key[t]]] EXCEPT !.there = FALSE] \in Items
    BY <1>1, ItemsTyped DEF Items
  <2>2. items' = [items EXCEPT ![map[Key[t]]] = [items[map[Key[t]]] EXCEPT !.there = FALSE]]
    BY <1>1
  <2>3. items' \in Seq(Items)
    BY <1>1, <2>1, <2>2
  <2> QED BY <1>1, <1>2, <2>3
<1>4. \A k \in Keys : map'[k] = IF k = Key[t] THEN 0 ELSE map[k]
  BY <1>1
<1>5. \A k \in Keys : map'[k] # 0 => items'[map'[k]].there /\ Key[items'[map'[k]].node] = k
  BY <1>1, <1>2, <1>4 DEF RemovesWhatItMade
<1>6. ASSUME NEW i \in DOMAIN items', items'[i].there, Key[items'[i].node] \notin clobbered'
      PROVE  map'[Key[items'[i].node]] = i
  BY <1>1, <1>2, <1>4, <1>6 DEF RemovesWhatItMade
<1> QED BY <1>3, <1>5, <1>6 DEF RemovesWhatItMade

(* Whatever is monitored and removed, and whatever of it fails: what the    *)
(* map of Client has is what the server reports, but for keys used twice.   *)
THEOREM ClientSound == ASSUME OpcUaAssumptions PROVE OpcUaSpec => []RemovesWhatItMade
<1>1. OpcUaInit => ClientInv
  BY DEF OpcUaInit, ClientInv, ClientTypes, RemovesWhatItMade
<1>2. OpcUaAssumptions /\ ClientInv /\ [OpcUaNext]_opcUaVars => ClientInv'
  <2> SUFFICES ASSUME OpcUaAssumptions, ClientInv, [OpcUaNext]_opcUaVars PROVE ClientInv'
    OBVIOUS
  <2>1. CASE UNCHANGED client
    BY <2>1 DEF client, ClientInv, ClientTypes, RemovesWhatItMade
  <2>2. CASE Shutdown
    <3>1. Len(items) \in Nat /\ DOMAIN items = 1 .. Len(items)
      BY DEF ClientInv, ClientTypes
    <3>2. \A i \in DOMAIN items : [items[i] EXCEPT !.there = FALSE] \in Items
      BY ItemsTyped DEF ClientInv, Items
    <3>3. items' = [i \in 1 .. Len(items) |-> [items[i] EXCEPT !.there = FALSE]]
      BY <2>2, <3>1 DEF Shutdown
    <3>4. items' \in Seq(Items) /\ Len(items') = Len(items)
      BY <3>1, <3>2, <3>3
    <3> QED BY <2>2, <3>4 DEF Shutdown, ClientInv, ClientTypes, RemovesWhatItMade
  <2>3. ASSUME NEW t \in Targets, Monitor(t) \/ RemoveMonitor(t) PROVE ClientInv'
    BY <2>3, MonitorKeeps, RemoveKeeps
  <2>4. TimersNext => UNCHANGED client
    BY DEF TimersNext, Construct, Cancel, Destroy, Move
  <2> QED BY <2>1, <2>2, <2>3, <2>4, ServerLeaves DEF OpcUaNext, ClientNext, opcUaVars
<1>3. ClientInv => RemovesWhatItMade
  BY DEF ClientInv
<1> QED BY <1>1, <1>2, <1>3, PTL DEF OpcUaSpec

-----------------------------------------------------------------------------
(* What Cancel and Destroy take back, no other timer has, unless it was     *)
(* moved.                                                                   *)
LEMMA EndKeeps ==
  ASSUME OpcUaAssumptions, TimersInv, NEW o \in Slots, NEW t, moved' = moved,
         t \in [alive : BOOLEAN, function : BOOLEAN, id : {0}],
         due' = Unregistered(timers[o].id), timers' = [timers EXCEPT ![o] = t]
  PROVE  TimersInv'
<1> USE DEF TimersInv, TimersTypes, Unregistered, OpcUaAssumptions
<1>1. /\ due' \in Seq(Slots \cup {Unset}) /\ Len(due') = Len(due)
      /\ \A i \in DOMAIN due : due'[i] = IF i = timers[o].id THEN Unset ELSE due[i]
  <2>1. CASE timers[o].id = 0
    BY <2>1
  <2>2. CASE timers[o].id # 0
    <3> DEFINE j == timers[o].id
    <3>1. j \in DOMAIN due /\ due' = [due EXCEPT ![j] = Unset]
      BY <2>2
    <3> HIDE DEF j
    <3> DEFINE Places == Slots \cup {Unset}
    <3>4. due \in Seq(Places) /\ Unset \in Places
      OBVIOUS
    <3> HIDE DEF Places
    <3>5. due' \in Seq(Places) /\ Len(due') = Len(due)
      BY <3>1, <3>4
    <3>2. due' \in Seq(Slots \cup {Unset}) /\ Len(due') = Len(due)
      BY <3>5 DEF Places
    <3>3. \A i \in DOMAIN due : due'[i] = IF i = j THEN Unset ELSE due[i]
      BY <3>1
    <3> QED BY <3>2, <3>3 DEF j
  <2> QED BY <2>1, <2>2
<1>2. TimersTypes'
  BY <1>1
<1>3. ASSUME NEW i \in DOMAIN due' \ moved', due'[i] # Unset
      PROVE  timers'[due'[i]] = [alive |-> TRUE, function |-> TRUE, id |-> i]
  <2>1. /\ i \in DOMAIN due \ moved /\ due'[i] = due[i] /\ i # timers[o].id
        /\ due[i] \in Slots
    BY <1>1, <1>3
  <2>2. timers[due[i]] = [alive |-> TRUE, function |-> TRUE, id |-> i]
    BY <1>3, <2>1 DEF TimersHeld
  <2>3. due[i] # o
    BY <2>1, <2>2
  <2> QED BY <2>1, <2>2, <2>3
<1> QED BY <1>2, <1>3 DEF TimersHeld

LEMMA ConstructKeeps ==
  ASSUME OpcUaAssumptions, TimersInv, NEW o \in Slots, Construct(o)
  PROVE  TimersInv'
<1> USE DEF TimersInv, TimersTypes, OpcUaAssumptions, Construct, Free
<1>1. ASSUME NEW i \in DOMAIN due \ moved, due[i] = o PROVE FALSE
  <2>1. timers[o] = [alive |-> TRUE, function |-> TRUE, id |-> i]
    BY <1>1 DEF TimersHeld
  <2>2. timers[o].alive
    BY <2>1
  <2> QED BY <2>2
<1>2. CASE UNCHANGED due /\ timers' = [timers EXCEPT ![o] =
                                       [alive |-> TRUE, function |-> TRUE, id |-> 0]]
  <2>1. TimersTypes'
    BY <1>2
  <2>2. TimersHeld'
    BY <1>1, <1>2 DEF TimersHeld
  <2> QED BY <2>1, <2>2
<1>3. CASE /\ timers' = [timers EXCEPT ![o] =
                [alive |-> TRUE, function |-> TRUE, id |-> Len(due) + 1]]
           /\ due' = Append(due, o)
  <2>1. /\ due' \in Seq(Slots \cup {Unset}) /\ Len(due') = Len(due) + 1
        /\ DOMAIN due' = DOMAIN due \cup {Len(due) + 1}
        /\ \A i \in DOMAIN due : due'[i] = due[i]
        /\ due'[Len(due) + 1] = o
    BY <1>3
  <2>2. TimersTypes'
    BY <1>3, <2>1
  <2>3. ASSUME NEW i \in DOMAIN due' \ moved', due'[i] # Unset
        PROVE  timers'[due'[i]] = [alive |-> TRUE, function |-> TRUE, id |-> i]
    <3>1. CASE i = Len(due) + 1
      BY <1>3, <2>1, <3>1
    <3>2. CASE i \in DOMAIN due
      <4>1. i \in DOMAIN due \ moved /\ due'[i] = due[i] /\ due[i] \in Slots
        BY <2>1, <2>3, <3>2
      <4>2. timers'[due[i]] = timers[due[i]]
        BY <1>1, <1>3, <4>1
      <4> QED BY <2>3, <4>1, <4>2 DEF TimersHeld
    <3> QED BY <2>1, <2>3, <3>1, <3>2
  <2> QED BY <2>2, <2>3 DEF TimersHeld
<1> QED BY <1>2, <1>3

LEMMA MoveKeeps ==
  ASSUME OpcUaAssumptions, TimersInv, NEW o \in Slots, NEW p \in Slots, Move(o, p)
  PROVE  TimersInv'
<1> USE DEF TimersInv, TimersTypes, OpcUaAssumptions, Move
<1>1. TimersTypes'
  BY ZenonT(60)
<1>2. ASSUME NEW i \in DOMAIN due' \ moved', due'[i] # Unset
      PROVE  timers'[due'[i]] = [alive |-> TRUE, function |-> TRUE, id |-> i]
  <2>1. i \in DOMAIN due \ moved /\ due'[i] = due[i] /\ due[i] \in Slots /\ i # 0
    BY <1>2
  <2>2. timers[due[i]] = [alive |-> TRUE, function |-> TRUE, id |-> i]
    BY <1>2, <2>1 DEF TimersHeld
  <2>3. due[i] # o /\ due[i] # p
    BY <1>2, <2>1, <2>2
  <2> QED BY <2>1, <2>2, <2>3
<1> QED BY <1>1, <1>2 DEF TimersHeld

(* A callback is registered only as long as the timer that it points into   *)
(* lives with its function, where nobody moved the timer.                   *)
THEOREM TimersSound == ASSUME OpcUaAssumptions PROVE OpcUaSpec => []TimersHeld
<1>1. OpcUaInit => TimersInv
  BY DEF OpcUaInit, TimersInv, TimersTypes, TimersHeld, NoTimer
<1>2. OpcUaAssumptions /\ TimersInv /\ [OpcUaNext]_opcUaVars => TimersInv'
  <2> SUFFICES ASSUME OpcUaAssumptions, TimersInv, [OpcUaNext]_opcUaVars PROVE TimersInv'
    OBVIOUS
  <2>1. CASE UNCHANGED clocks
    BY <2>1 DEF clocks, TimersInv, TimersTypes, TimersHeld
  <2>2. ASSUME NEW o \in Slots, Construct(o) PROVE TimersInv'
    BY <2>2, ConstructKeeps
  <2>3. ASSUME NEW o \in Slots, Cancel(o) PROVE TimersInv'
    <3>1. timers' = [timers EXCEPT ![o] = [timers[o] EXCEPT !.id = 0]]
      BY <2>3 DEF Cancel
    <3>2. [timers[o] EXCEPT !.id = 0] \in [alive : BOOLEAN, function : BOOLEAN, id : {0}]
      BY DEF TimersInv, TimersTypes
    <3> QED BY <2>3, <3>1, <3>2, EndKeeps DEF Cancel
  <2>4. ASSUME NEW o \in Slots, Destroy(o) PROVE TimersInv'
    BY <2>4, EndKeeps DEF Destroy, NoTimer
  <2>5. ASSUME NEW o \in Slots, NEW p \in Slots, Move(o, p) PROVE TimersInv'
    BY <2>5, MoveKeeps
  <2>6. ClientNext => UNCHANGED clocks
    BY DEF ClientNext, Monitor, RemoveMonitor, Shutdown
  <2> QED BY <2>1, <2>2, <2>3, <2>4, <2>5, <2>6, ServerLeaves DEF OpcUaNext, TimersNext, opcUaVars
<1>3. TimersInv => TimersHeld
  BY DEF TimersInv
<1> QED BY <1>1, <1>2, <1>3, PTL DEF OpcUaSpec

-----------------------------------------------------------------------------
(* What Server, Client and the timers have left with the library is there   *)
(* to be called and can be taken back (CallbacksServed), whatever calls are *)
(* made and whatever of them fails.                                         *)
THEOREM AllServed == ASSUME OpcUaAssumptions PROVE OpcUaSpec => []CallbacksServed
<1>1. OpcUaSpec => [](ContextsHold /\ TypesWhole) BY ServerSound
<1>2. OpcUaSpec => []RemovesWhatItMade BY ClientSound
<1>3. OpcUaSpec => []TimersHeld BY TimersSound
<1>4. ContextsHold /\ TypesWhole /\ RemovesWhatItMade /\ TimersHeld => CallbacksServed
  BY DEF CallbacksServed
<1> QED BY <1>1, <1>2, <1>3, <1>4, PTL

-----------------------------------------------------------------------------
(* TransformBuffer *)

(* A callback has the mutex while the listener is active only, and the     *)
(* buffer outlives the listener.                                           *)
Lifetimes == (holder # "none" => active) /\ (active => alive)

BufferInv == TypeOK /\ Forest /\ Window /\ Lifetimes

-----------------------------------------------------------------------------
(* Histories *)

LEMMA MaxIs ==
  ASSUME NEW S, S \subseteq Int, NEW t \in S, \A u \in S : u <= t
  PROVE  Max(S) = t
<1>1. \E x \in S : \A y \in S : x >= y
  OBVIOUS
<1>2. Max(S) \in S /\ \A y \in S : Max(S) >= y
  BY <1>1, Zenon DEF Max
<1> HIDE DEF Max
<1>3. Max(S) \in Int /\ t \in Int
  BY <1>2
<1>4. Max(S) >= t
  BY <1>2
<1>5. Max(S) <= t
  BY <1>2
<1>6. QED
  BY <1>3, <1>4, <1>5

LEMMA CutoffBelow ==
  ASSUME NEW t \in Times, NEW d \in Nat
  PROVE  Cutoff(t, d) \in Int /\ Cutoff(t, d) <= t
BY PastAssumption DEF Cutoff, Times

(* What pruneEdge leaves of a history that has a latest sample.            *)
LEMMA PrunedIs ==
  ASSUME NEW h, DOMAIN h \subseteq Times, IsFiniteSet(DOMAIN h), NEW d \in Nat,
         NEW t \in DOMAIN h, \A u \in DOMAIN h : u <= t
  PROVE  /\ InWindow(DOMAIN Pruned(h, d), d)
         /\ DOMAIN Pruned(h, d) \subseteq DOMAIN h
         /\ \A u \in DOMAIN Pruned(h, d) : Pruned(h, d)[u] = h[u]
<1> DEFINE P == Pruned(h, d)
<1>1. Max(DOMAIN h) = t
  <2>1. DOMAIN h \subseteq Int
    BY DEF Times
  <2>2. QED
    BY <2>1, MaxIs
<1>2. P = [u \in {u \in DOMAIN h : u >= Cutoff(t, d)} |-> h[u]]
  BY <1>1 DEF Pruned
<1> HIDE DEF P
<1>3. DOMAIN P = {u \in DOMAIN h : u >= Cutoff(t, d)}
  BY <1>2
<1>4. t \in DOMAIN P /\ DOMAIN P \subseteq DOMAIN h
  <2>1. t >= Cutoff(t, d)
    BY CutoffBelow DEF Times
  <2>2. QED
    BY <2>1, <1>3
<1>5. IsFiniteSet(DOMAIN P)
  BY <1>4, FS_Subset
<1>6. InWindow(DOMAIN P, d)
  <2>1. \A u \in DOMAIN P : u <= t /\ u >= Cutoff(t, d)
    BY <1>3
  <2>2. QED
    BY <2>1, <1>4, <1>5 DEF InWindow
<1>7. \A u \in DOMAIN P : P[u] = h[u]
  BY <1>2
<1>8. QED
  BY <1>4, <1>6, <1>7 DEF P

(* A history keeps its samples and gets x, whose time is not before its    *)
(* cutoff.                                                                 *)
LEMMA HistoryIs ==
  ASSUME TypeOK, Window, NEW x \in Transforms, Result(x, FALSE) = "Ok"
  PROVE  /\ DOMAIN History(x) \subseteq Times
         /\ InWindow(DOMAIN History(x), duration)
         /\ \A t \in DOMAIN History(x) : History(x)[t] \in Poses
<1> DEFINE old == IF x.child \in DOMAIN edges THEN edges[x.child].poses ELSE <<>>
           h == [t \in DOMAIN old \cup {x.time} |-> IF t = x.time THEN x.pose ELSE old[t]]
<1>1. x.time \in Times /\ x.pose \in Poses
  BY DEF Transforms, Result
<1>2. /\ DOMAIN old \subseteq Times /\ IsFiniteSet(DOMAIN old)
      /\ \A t \in DOMAIN old : old[t] \in Poses
      /\ \E t \in DOMAIN old \cup {x.time} : \A u \in DOMAIN old : u <= t
  <2>1. CASE x.child \in DOMAIN edges
    <3>1. ~edges[x.child].static /\ Typed(edges[x.child])
      BY <2>1 DEF Result, TypeOK, Typed
    <3>2. InWindow(DOMAIN old, duration)
      BY <2>1, <3>1 DEF Window
    <3>3. QED
      BY <2>1, <3>1, <3>2 DEF InWindow, Typed
  <2>2. CASE x.child \notin DOMAIN edges
    <3>1. old = <<>> /\ DOMAIN old = {}
      BY <2>2
    <3>2. QED
      BY <3>1, FS_EmptySet
  <2>3. QED
    BY <2>1, <2>2
<1> HIDE DEF old
<1>3. /\ DOMAIN h = DOMAIN old \cup {x.time} /\ DOMAIN h \subseteq Times
      /\ \A t \in DOMAIN h : h[t] \in Poses
  BY <1>1, <1>2
<1>4. IsFiniteSet(DOMAIN h)
  BY <1>2, <1>3, FS_AddElement
<1>5. History(x) = Pruned(h, duration)
  BY DEF History, old
<1> HIDE DEF h
<1>6. PICK t \in DOMAIN h : \A u \in DOMAIN h : u <= t
  <2>1. PICK t \in DOMAIN old \cup {x.time} : \A u \in DOMAIN old : u <= t
    BY <1>2
  <2>2. CASE x.time <= t
    BY <1>3, <2>1, <2>2
  <2>3. CASE ~(x.time <= t)
    <3>1. \A u \in DOMAIN h : u <= x.time
      BY <1>1, <1>2, <1>3, <2>1, <2>3 DEF Times
    <3>2. QED
      BY <1>3, <3>1
  <2>4. QED
    BY <2>2, <2>3
<1>7. duration \in Nat
  BY DurationsAssumption DEF TypeOK
<1>8. /\ InWindow(DOMAIN Pruned(h, duration), duration)
      /\ DOMAIN Pruned(h, duration) \subseteq DOMAIN h
      /\ \A u \in DOMAIN Pruned(h, duration) : Pruned(h, duration)[u] = h[u]
  BY <1>3, <1>4, <1>6, <1>7, PrunedIs
<1>9. QED
  BY <1>3, <1>5, <1>8

-----------------------------------------------------------------------------
(* One transform *)

(* The set of frames that shows that x.child is not above x.parent.        *)
LEMMA NoCycle ==
  ASSUME Forest, NEW p \in Frames, NEW w \in Frames, w \notin Ancestors(p), p # w,
         NEW e, DOMAIN e = DOMAIN edges \cup {w}, e[w].parent = p,
         \A f \in DOMAIN edges : f # w => e[f].parent = edges[f].parent
  PROVE  \A S \in SUBSET Frames :
           S # {} => \E f \in S : f \in DOMAIN e => e[f].parent \notin S
<1> SUFFICES ASSUME NEW S \in SUBSET Frames, S # {},
                    \A f \in S : f \in DOMAIN e /\ e[f].parent \in S
             PROVE  FALSE
  OBVIOUS
<1>1. PICK T \in SUBSET Frames : p \in T /\ Closed(T) /\ w \notin T
  BY DEF Ancestors
<1>2. CASE w \notin S
  <2>1. \A f \in S : f \in DOMAIN edges /\ edges[f].parent \in S
    BY <1>2
  <2>2. QED
    BY <2>1 DEF Forest
<1>3. CASE w \in S
  <2>1. p \in S \cap T
    BY <1>1, <1>3
  <2>2. \A f \in S \cap T : f \in DOMAIN edges /\ edges[f].parent \in S \cap T
    BY <1>1 DEF Closed
  <2>3. QED
    BY <2>1, <2>2 DEF Forest
<1>4. QED
  BY <1>2, <1>3

(* Whatever transform comes, the forest and its histories stay sound.      *)
LEMMA SetImplSound ==
  ASSUME TypeOK, Forest, Window, NEW x \in Transforms, NEW static \in BOOLEAN, SetImpl(x, static)
  PROVE  /\ DOMAIN edges' \subseteq Frames /\ \A w \in DOMAIN edges' : Typed(edges'[w])
         /\ frames' \subseteq Frames /\ duration' = duration
         /\ Forest' /\ Window'
<1>1. CASE Result(x, static) # "Ok"
  <2>1. UNCHANGED buffer
    BY <1>1 DEF SetImpl
  <2>2. QED
    BY <2>1 DEF buffer, TypeOK, Forest, Window
<1>2. CASE Result(x, static) = "Ok"
  <2> DEFINE poses == IF static THEN [t \in {0} |-> x.pose] ELSE History(x)
             new == [parent |-> x.parent, static |-> static, poses |-> poses]
  <2>1. /\ edges' = [w \in DOMAIN edges \cup {x.child} |-> IF w = x.child THEN new ELSE edges[w]]
        /\ frames' = frames \cup {x.parent, x.child} /\ duration' = duration
    BY <1>2 DEF SetImpl
  <2>2. /\ x.parent \in Frames /\ x.child \in Frames /\ x.parent # x.child /\ x.pose \in Poses
        /\ x.child \in DOMAIN edges => edges[x.child].parent = x.parent
        /\ x.child \notin DOMAIN edges => x.child \notin Ancestors(x.parent)
    BY <1>2 DEF Result, Transforms
  <2>3. ~static => /\ DOMAIN History(x) \subseteq Times
                   /\ InWindow(DOMAIN History(x), duration)
                   /\ \A t \in DOMAIN History(x) : History(x)[t] \in Poses
    BY <1>2, HistoryIs
  <2>4. /\ DOMAIN poses \subseteq Times /\ \A t \in DOMAIN poses : poses[t] \in Poses
        /\ IF static THEN DOMAIN poses = {0} ELSE InWindow(DOMAIN poses, duration)
    <3>1. 0 \in Times
      BY PastAssumption DEF Times
    <3>2. QED
      BY <2>2, <2>3, <3>1
  <2> HIDE DEF poses
  <2>5. Typed(new)
    BY <2>2, <2>4 DEF Typed
  <2>6. /\ DOMAIN edges' = DOMAIN edges \cup {x.child} /\ edges'[x.child] = new
        /\ \A w \in DOMAIN edges : w # x.child => edges'[w] = edges[w]
    BY <2>1
  <2>7. new.parent = x.parent /\ new.static = static /\ new.poses = poses
    OBVIOUS
  <2> HIDE DEF new
  <2>8. DOMAIN edges' \subseteq Frames /\ \A w \in DOMAIN edges' : Typed(edges'[w])
    BY <2>2, <2>5, <2>6 DEF TypeOK
  <2>9. frames' \subseteq Frames
    BY <2>1, <2>2 DEF TypeOK
  <2>10. \A w \in DOMAIN edges : edges'[w].parent = edges[w].parent
    BY <2>2, <2>6, <2>7
  <2>11. Forest'
    <3>1. \A w \in DOMAIN edges' : {w, edges'[w].parent} \subseteq frames'
      BY <2>1, <2>6, <2>7, <2>10 DEF Forest
    <3>2. ASSUME NEW S \in SUBSET Frames, S # {}
          PROVE  \E w \in S : w \in DOMAIN edges' => edges'[w].parent \notin S
      <4>1. CASE x.child \in DOMAIN edges
        <5>1. DOMAIN edges' = DOMAIN edges
          BY <2>6, <4>1
        <5>2. QED
          BY <2>10, <3>2, <5>1 DEF Forest
      <4>2. CASE x.child \notin DOMAIN edges
        <5>1. /\ x.child \notin Ancestors(x.parent) /\ DOMAIN edges' = DOMAIN edges \cup {x.child}
              /\ edges'[x.child].parent = x.parent
          BY <2>2, <2>6, <2>7, <4>2
        <5>2. QED
          BY <2>2, <2>10, <3>2, <5>1, NoCycle
      <4>3. QED
        BY <4>1, <4>2
    <3>3. QED
      BY <3>1, <3>2 DEF Forest
  <2>12. Window'
    <3>1. \A w \in DOMAIN edges' :
            IF edges'[w].static THEN DOMAIN edges'[w].poses = {0}
            ELSE InWindow(DOMAIN edges'[w].poses, duration')
      BY <2>1, <2>4, <2>6, <2>7 DEF Window
    <3>2. QED
      BY <3>1 DEF Window, InWindow, Cutoff
  <2>13. QED
    BY <2>1, <2>8, <2>9, <2>11, <2>12
<1>3. QED
  BY <1>1, <1>2

-----------------------------------------------------------------------------
(* The initial state and the steps *)

LEMMA BufferInit == Init => BufferInv
<1> SUFFICES ASSUME Init PROVE BufferInv
  OBVIOUS
<1>1. DOMAIN edges = {} /\ frames = {}
  BY DEF Init
<1>2. TypeOK
  BY <1>1 DEF Init, TypeOK
<1>3. Forest /\ Window /\ Lifetimes
  BY <1>1 DEF Init, Forest, Window, Lifetimes
<1>4. QED
  BY <1>2, <1>3 DEF BufferInv

(* A pruned history is in the new window.                                  *)
LEMMA SetCacheDurationHolds ==
  ASSUME BufferInv, NEW d \in Durations, SetCacheDuration(d)
  PROVE  BufferInv'
<1> USE DEF BufferInv
<1>1. /\ duration' = d /\ frames' = frames /\ DOMAIN edges' = DOMAIN edges
      /\ \A w \in DOMAIN edges :
           edges'[w] = IF edges[w].static THEN edges[w]
                       ELSE [edges[w] EXCEPT !.poses = Pruned(@, d)]
  BY DEF SetCacheDuration
<1>2. ASSUME NEW w \in DOMAIN edges
      PROVE  /\ Typed(edges'[w]) /\ edges'[w].parent = edges[w].parent
             /\ IF edges'[w].static THEN DOMAIN edges'[w].poses = {0}
                ELSE InWindow(DOMAIN edges'[w].poses, d)
  <2> DEFINE h == edges[w].poses
  <2>1. Typed(edges[w])
    BY DEF TypeOK
  <2>2. CASE edges[w].static
    BY <1>1, <2>1, <2>2 DEF Window
  <2>3. CASE ~edges[w].static
    <3>1. edges'[w] = [parent |-> edges[w].parent, static |-> edges[w].static, poses |-> Pruned(h, d)]
      BY <1>1, <2>1, <2>3 DEF Typed
    <3>2. DOMAIN h \subseteq Times /\ InWindow(DOMAIN h, duration)
      BY <2>1, <2>3 DEF Typed, Window
    <3>3. PICK t \in DOMAIN h : \A u \in DOMAIN h : u <= t
      BY <3>2 DEF InWindow
    <3>4. IsFiniteSet(DOMAIN h) /\ d \in Nat
      BY <3>2, DurationsAssumption DEF InWindow
    <3>5. /\ InWindow(DOMAIN Pruned(h, d), d)
          /\ DOMAIN Pruned(h, d) \subseteq DOMAIN h
          /\ \A u \in DOMAIN Pruned(h, d) : Pruned(h, d)[u] = h[u]
      BY <3>2, <3>3, <3>4, PrunedIs
    <3>6. QED
      BY <2>1, <2>3, <3>1, <3>2, <3>5 DEF Typed
  <2>4. QED
    BY <2>2, <2>3
<1>3. TypeOK'
  BY <1>1, <1>2 DEF TypeOK, SetCacheDuration, listener
<1>4. Forest'
  BY <1>1, <1>2 DEF Forest
<1>5. Window'
  <2>1. \A w \in DOMAIN edges' :
          IF edges'[w].static THEN DOMAIN edges'[w].poses = {0}
          ELSE InWindow(DOMAIN edges'[w].poses, duration')
    BY <1>1, <1>2
  <2>2. QED
    BY <2>1 DEF Window, InWindow, Cutoff
<1>6. Lifetimes'
  BY DEF Lifetimes, SetCacheDuration, listener
<1>7. QED
  BY <1>3, <1>4, <1>5, <1>6

LEMMA ClearHolds ==
  ASSUME BufferInv, edges' = <<>>, frames' = {}, duration' = duration, UNCHANGED <<holder, batch, first, status>>,
         alive' \in BOOLEAN, active' \in BOOLEAN, Lifetimes'
  PROVE  BufferInv'
<1>1. DOMAIN edges' = {}
  OBVIOUS
<1>2. TypeOK'
  BY <1>1 DEF BufferInv, TypeOK
<1>3. Forest' /\ Window'
  BY <1>1 DEF Forest, Window
<1>4. QED
  BY <1>2, <1>3 DEF BufferInv

(* A step that leaves the buffer alone.                                    *)
LEMMA BufferKept ==
  ASSUME BufferInv, UNCHANGED buffer
  PROVE  /\ DOMAIN edges' \subseteq Frames /\ \A w \in DOMAIN edges' : Typed(edges'[w])
         /\ frames' \subseteq Frames /\ duration' \in Durations
         /\ Forest' /\ Window'
BY DEF BufferInv, TypeOK, buffer, Forest, Window

LEMMA BufferStep == BufferInv /\ [Next]_vars => BufferInv'
<1> SUFFICES ASSUME BufferInv, [Next]_vars PROVE BufferInv'
  OBVIOUS
<1>1. ASSUME NEW d \in Durations, SetCacheDuration(d) PROVE BufferInv'
  BY <1>1, SetCacheDurationHolds
<1>2. CASE Clear
  <2>1. alive' = alive /\ active' = active /\ Lifetimes'
    BY <1>2 DEF Clear, listener, BufferInv, Lifetimes
  <2>2. QED
    BY <1>2, <2>1, ClearHolds DEF Clear, listener, BufferInv, TypeOK
<1>3. CASE Deactivate
  <2>1. Lifetimes' /\ active' \in BOOLEAN /\ UNCHANGED <<buffer, alive, holder, batch>>
    BY <1>3 DEF Deactivate, BufferInv, Lifetimes
  <2>2. QED
    BY <2>1, BufferKept DEF BufferInv, TypeOK
<1>4. CASE DestroyBuffer
  <2>1. alive' = FALSE /\ active' = active /\ Lifetimes'
    BY <1>4 DEF DestroyBuffer, listener, BufferInv, Lifetimes
  <2>2. QED
    BY <1>4, <2>1, ClearHolds DEF DestroyBuffer, listener, BufferInv, TypeOK
<1>5. ASSUME NEW w \in Topics, NEW x \in Inputs[w], Set(x, w) PROVE BufferInv'
  <2>1. x \in Transforms /\ SetImpl(x, w = "tf_static") /\ UNCHANGED <<alive, listener>>
    BY <1>5, InputsAssumption DEF Set
  <2>2. /\ DOMAIN edges' \subseteq Frames /\ \A f \in DOMAIN edges' : Typed(edges'[f])
        /\ frames' \subseteq Frames /\ duration' = duration
        /\ Forest' /\ Window'
    BY <2>1, SetImplSound DEF BufferInv
  <2>3. QED
    BY <2>1, <2>2 DEF BufferInv, TypeOK, Lifetimes, listener
<1>6. ASSUME NEW w \in Topics, NEW b \in Batches[w], Receive(w, b) PROVE BufferInv'
  <2>1. b \in Seq(Transforms)
    BY <1>6, InputsAssumption
  <2>2. /\ holder' = w /\ batch' = [batch EXCEPT ![w] = b] /\ Lifetimes'
        /\ UNCHANGED <<buffer, alive, active>>
    BY <1>6 DEF Receive, BufferInv, Lifetimes
  <2>3. batch' \in [Topics -> Seq(Transforms)] /\ \A a \in Topics : holder' # a => batch'[a] = <<>>
    BY <1>6, <2>1, <2>2 DEF BufferInv, TypeOK, Receive, Topics
  <2>4. QED
    BY <2>2, <2>3, BufferKept DEF BufferInv, TypeOK
<1>7. ASSUME NEW w \in Topics, InsertNext(w) PROVE BufferInv'
  <2> DEFINE x == Head(batch[w])
  <2>1. batch[w] \in Seq(Transforms) /\ batch[w] # <<>>
    BY <1>7 DEF InsertNext, BufferInv, TypeOK
  <2>2. x \in Transforms /\ Tail(batch[w]) \in Seq(Transforms)
    BY <2>1
  <2>3. /\ SetImpl(x, w = "tf_static") /\ holder = w
        /\ batch' = [batch EXCEPT ![w] = Tail(@)] /\ UNCHANGED <<alive, active, holder>>
    BY <1>7 DEF InsertNext
  <2>4. /\ DOMAIN edges' \subseteq Frames /\ \A f \in DOMAIN edges' : Typed(edges'[f])
        /\ frames' \subseteq Frames /\ duration' = duration
        /\ Forest' /\ Window'
    <3> HIDE DEF x
    <3>1. QED
      BY <2>2, <2>3, SetImplSound DEF BufferInv
  <2>5. batch' \in [Topics -> Seq(Transforms)] /\ \A a \in Topics : holder' # a => batch'[a] = <<>>
    BY <2>2, <2>3 DEF BufferInv, TypeOK
  <2>6. QED
    BY <2>3, <2>4, <2>5 DEF BufferInv, TypeOK, Lifetimes
<1>8. ASSUME NEW w \in Topics, ReceiveDone(w) PROVE BufferInv'
  <2>1. /\ holder' = "none" /\ holder = w /\ batch' = batch /\ batch[w] = <<>> /\ Lifetimes'
        /\ UNCHANGED <<buffer, alive, active>>
    BY <1>8 DEF ReceiveDone, BufferInv, Lifetimes
  <2>2. QED
    BY <2>1, BufferKept DEF BufferInv, TypeOK
<1>9. CASE UNCHANGED vars
  <2>1. UNCHANGED <<buffer, alive, active, holder, batch>>
    BY <1>9 DEF vars, listener
  <2>2. QED
    BY <2>1, BufferKept DEF BufferInv, TypeOK, Lifetimes
<1>10. QED
  BY <1>1, <1>2, <1>3, <1>4, <1>5, <1>6, <1>7, <1>8, <1>9 DEF Next

LEMMA BufferHolds == Spec => []BufferInv
<1>1. QED
  BY BufferInit, BufferStep, PTL DEF Spec

(* Every variable has a value of its type.                                 *)
THEOREM TypeCorrect == Spec => []TypeOK
<1>1. BufferInv => TypeOK
  BY DEF BufferInv
<1>2. QED
  BY <1>1, BufferHolds, PTL

(* Whatever transforms are refused, replaced, pruned or cleared, the       *)
(* frames are a forest and no history is empty: the walks of setImpl and   *)
(* lookup end, and what they read exists.                                  *)
THEOREM StaysSound == Spec => []Sound
<1>1. BufferInv => Sound
  BY DEF BufferInv, Sound
<1>2. QED
  BY <1>1, BufferHolds, PTL

(* No callback of a listener is at the buffer once it is destroyed.        *)
THEOREM NeverLate == Spec => []NoLateUse
<1>1. BufferInv => NoLateUse
  BY DEF BufferInv, Lifetimes, NoLateUse
<1>2. QED
  BY <1>1, BufferHolds, PTL

-----------------------------------------------------------------------------
(* UnionFind *)

(* R leads every element to its root, and ranks grow towards it. *)
Climbs(p, R) ==
  R \in [DOMAIN p -> DOMAIN p] /\ \A e \in DOMAIN p : R[e] = IF p[e] = e THEN e ELSE R[p[e]]

Ranked(p, r, m) ==
  /\ p \in [DOMAIN p -> DOMAIN p] /\ m \in Nat /\ r \in [DOMAIN p -> 0 .. m]
  /\ \A e \in DOMAIN p : p[e] # e => r[e] < r[p[e]]

(* What holds of an element if it holds of its parent holds of all. *)
LEMMA Downward ==
  ASSUME NEW p, NEW r, NEW m, Ranked(p, r, m), NEW T,
         \A e \in DOMAIN p : p[e] = e \/ p[e] \in T => e \in T
  PROVE  DOMAIN p \subseteq T
<1> DEFINE Q == {n \in Nat : \A e \in DOMAIN p : m - r[e] <= n => e \in T}
<1>1. m \in Nat /\ \A e \in DOMAIN p : p[e] \in DOMAIN p /\ r[e] \in Nat /\ r[e] <= m
  BY DEF Ranked
<1>2. 0 \in Q
  <2> SUFFICES ASSUME NEW e \in DOMAIN p, m - r[e] <= 0 PROVE p[e] = e
    OBVIOUS
  <2>1. ~(r[e] < r[p[e]])
    BY <1>1
  <2> QED BY <2>1 DEF Ranked
<1>3. ASSUME NEW n \in Nat, n \in Q PROVE n + 1 \in Q
  <2> SUFFICES ASSUME NEW e \in DOMAIN p, m - r[e] <= n + 1, p[e] # e PROVE p[e] \in T
    OBVIOUS
  <2>1. r[e] < r[p[e]]
    BY DEF Ranked
  <2>2. m - r[p[e]] <= n
    BY <1>1, <2>1
  <2> QED BY <1>1, <1>3, <2>2
<1>4. m \in Q
  <2> HIDE DEF Q
  <2> QED BY <1>1, <1>2, <1>3, SetInduction
<1> QED BY <1>1, <1>4

(* A function that is recursive along the parents exists. *)
LEMMA TreeRecursion ==
  ASSUME NEW p, NEW r, NEW m, Ranked(p, r, m), NEW S,
         NEW base \in [DOMAIN p -> S], NEW step \in [DOMAIN p -> [S -> S]]
  PROVE  \E f \in [DOMAIN p -> S] :
           \A e \in DOMAIN p : f[e] = IF p[e] = e THEN base[e] ELSE step[e][f[p[e]]]
<1> DEFINE D(n) == {e \in DOMAIN p : m - r[e] <= n}
           Good(n, f) == \A e \in D(n) : f[e] = IF p[e] = e THEN base[e] ELSE step[e][f[p[e]]]
           Q == {n \in Nat : \E f \in [D(n) -> S] : Good(n, f)}
<1>1. m \in Nat /\ \A e \in DOMAIN p : p[e] \in DOMAIN p /\ r[e] \in Nat /\ r[e] <= m
  BY DEF Ranked
<1>2. \A e \in DOMAIN p : \A n \in Nat : e \in D(n + 1) /\ p[e] # e => p[e] \in D(n)
  <2> SUFFICES ASSUME NEW e \in DOMAIN p, NEW n \in Nat, m - r[e] <= n + 1, p[e] # e
               PROVE  m - r[p[e]] <= n
    BY <1>1
  <2>1. r[e] < r[p[e]]
    BY DEF Ranked
  <2> QED BY <1>1, <2>1
<1>8. \A n \in Nat : \A e \in D(n) : e \in D(n + 1)
  <2> SUFFICES ASSUME NEW n \in Nat, NEW e \in DOMAIN p, m - r[e] <= n PROVE m - r[e] <= n + 1
    OBVIOUS
  <2>1. m \in Nat /\ r[e] \in Nat
    BY <1>1
  <2> QED BY <2>1
<1>3. \A e \in D(0) : p[e] = e
  <2> SUFFICES ASSUME NEW e \in DOMAIN p, m - r[e] <= 0 PROVE p[e] = e
    OBVIOUS
  <2>1. ~(r[e] < r[p[e]])
    BY <1>1
  <2> QED BY <2>1 DEF Ranked
<1>4. 0 \in Q
  <2> DEFINE f == [e \in D(0) |-> base[e]]
  <2>1. f \in [D(0) -> S] /\ Good(0, f)
    <3> HIDE DEF D
    <3>1. \A e \in D(0) : e \in DOMAIN p
      BY DEF D
    <3> QED BY <1>3, <3>1
  <2> QED BY <2>1
<1>5. ASSUME NEW n \in Nat, n \in Q PROVE n + 1 \in Q
  <2>1. PICK g \in [D(n) -> S] : Good(n, g)
    <3> HIDE DEF D, Good
    <3> QED BY <1>5
  <2> DEFINE h == [e \in D(n + 1) |-> IF e \in D(n) THEN g[e]
                                      ELSE IF p[e] = e THEN base[e] ELSE step[e][g[p[e]]]]
  <2>2. /\ \A e \in D(n + 1) : e \in DOMAIN p
        /\ \A e \in D(n) : e \in D(n + 1) /\ (p[e] # e => p[e] \in D(n))
    <3>2. \A e \in D(n + 1) : e \in DOMAIN p
      OBVIOUS
    <3> HIDE DEF D
    <3> QED BY <1>2, <1>8, <3>2
  <2>3. \A e \in D(n + 1) : p[e] # e => p[e] \in D(n)
    BY <1>2
  <2> HIDE DEF D
  <2>4. h \in [D(n + 1) -> S]
    BY <2>1, <2>2, <2>3
  <2>5. \A e \in D(n) : h[e] = g[e]
    BY <2>2
  <2>6. \A e \in D(n + 1) : e \notin D(n) => h[e] = IF p[e] = e THEN base[e] ELSE step[e][g[p[e]]]
    OBVIOUS
  <2> HIDE DEF h
  <2>7. Good(n + 1, h)
    <3> SUFFICES ASSUME NEW e \in D(n + 1)
                 PROVE  h[e] = IF p[e] = e THEN base[e] ELSE step[e][h[p[e]]]
      OBVIOUS
    <3>1. p[e] # e => h[p[e]] = g[p[e]]
      BY <2>3, <2>5
    <3> QED BY <2>1, <2>5, <2>6, <3>1
  <2>8. n + 1 \in Nat
    OBVIOUS
  <2> HIDE DEF Good
  <2> QED BY <2>4, <2>7, <2>8
<1>6. m \in Q
  <2> HIDE DEF Q
  <2> QED BY <1>1, <1>4, <1>5, SetInduction
<1>7. D(m) = DOMAIN p
  <2>1. \A e \in DOMAIN p : m - r[e] <= m
    BY <1>1
  <2> QED BY <2>1
<1> HIDE DEF D
<1>9. PICK f \in [D(m) -> S] : Good(m, f)
  BY <1>6
<1> QED BY <1>7, <1>9

(* Rep(p) is the function that climbs. *)
LEMMA RepIs ==
  ASSUME NEW p, NEW r, NEW m, Ranked(p, r, m), NEW R, Climbs(p, R)
  PROVE  Rep(p) = R
<1> DEFINE f == CHOOSE f : f = [e \in DOMAIN p |-> IF p[e] = e THEN e ELSE f[p[e]]]
<1>1. R = [e \in DOMAIN p |-> IF p[e] = e THEN e ELSE R[p[e]]]
  BY DEF Climbs
<1>2. f = [e \in DOMAIN p |-> IF p[e] = e THEN e ELSE f[p[e]]]
  BY <1>1
<1>3. Rep(p) = f
  BY DEF Rep
<1> HIDE DEF f
<1> DEFINE T == {e \in DOMAIN p : f[e] = R[e]}
<1>4. \A e \in DOMAIN p : p[e] = e \/ p[e] \in T => e \in T
  BY <1>1, <1>2
<1>5. DOMAIN p \subseteq T
  <2> HIDE DEF T
  <2> QED BY <1>4, Downward
<1>6. f = R
  BY <1>1, <1>2, <1>5
<1> QED BY <1>3, <1>6

LEMMA RootIs ==
  ASSUME NEW p, NEW r, NEW m, Ranked(p, r, m), NEW R, Climbs(p, R)
  PROVE  \A e \in DOMAIN p : /\ R[e] \in DOMAIN p /\ p[R[e]] = R[e] /\ R[R[e]] = R[e]
                             /\ r[e] <= r[R[e]] /\ (p[e] # e => r[e] < r[R[e]])
                             /\ p[e] = e <=> R[e] = e
<1> DEFINE T == {e \in DOMAIN p : /\ p[R[e]] = R[e] /\ r[e] <= r[R[e]]
                                  /\ p[e] # e => r[e] < r[R[e]]}
<1>1. \A e \in DOMAIN p : /\ p[e] \in DOMAIN p /\ r[e] \in Nat /\ R[e] \in DOMAIN p
                          /\ p[e] # e => r[e] < r[p[e]] /\ R[e] = R[p[e]]
                          /\ p[e] = e => R[e] = e
  BY DEF Ranked, Climbs
<1>2. \A e \in DOMAIN p : p[e] = e \/ p[e] \in T => e \in T
  <2> SUFFICES ASSUME NEW e \in DOMAIN p, p[e] = e \/ p[e] \in T PROVE e \in T
    OBVIOUS
  <2>1. CASE p[e] = e
    BY <1>1, <2>1
  <2>2. CASE p[e] # e /\ p[e] \in T
    <3>1. R[e] = R[p[e]] /\ r[e] < r[p[e]] /\ r[p[e]] <= r[R[p[e]]] /\ p[R[e]] = R[e]
      BY <1>1, <2>2
    <3>2. r[e] < r[R[e]]
      BY <1>1, <3>1
    <3> QED BY <1>1, <3>1, <3>2
  <2> QED BY <2>1, <2>2
<1>3. DOMAIN p \subseteq T
  <2> HIDE DEF T
  <2> QED BY <1>2, Downward
<1>4. \A e \in DOMAIN p : p[R[e]] = R[e] /\ r[e] <= r[R[e]] /\ (p[e] # e => r[e] < r[R[e]])
  BY <1>3
<1> QED BY <1>1, <1>4

(* A search takes no more steps than ranks lie between an element and its root. *)
LEMMA DepthIs ==
  ASSUME NEW p, NEW r, NEW m, Ranked(p, r, m), NEW R, Climbs(p, R)
  PROVE  \A e \in DOMAIN p : Depth(p)[e] \in Nat /\ Depth(p)[e] + r[e] <= r[R[e]]
<1> DEFINE d == CHOOSE d : d = [e \in DOMAIN p |-> IF p[e] = e THEN 0 ELSE 1 + d[p[e]]]
           base == [e \in DOMAIN p |-> 0]
           step == [e \in DOMAIN p |-> [n \in Nat |-> 1 + n]]
<1>1. PICK g \in [DOMAIN p -> Nat] :
        \A e \in DOMAIN p : g[e] = IF p[e] = e THEN base[e] ELSE step[e][g[p[e]]]
  <2> DEFINE S == Nat
  <2>1. base \in [DOMAIN p -> S] /\ step \in [DOMAIN p -> [S -> S]]
    OBVIOUS
  <2> HIDE DEF base, step, S, d
  <2>2. \E f \in [DOMAIN p -> S] :
           \A e \in DOMAIN p : f[e] = IF p[e] = e THEN base[e] ELSE step[e][f[p[e]]]
    BY SMTT(120), <2>1, TreeRecursion
  <2> QED BY <2>2 DEF S
<1>2. \A e \in DOMAIN p : p[e] \in DOMAIN p
  BY DEF Ranked
<1>3. g = [e \in DOMAIN p |-> IF p[e] = e THEN 0 ELSE 1 + g[p[e]]]
  <2>1. \A e \in DOMAIN p : base[e] = 0 /\ step[e][g[p[e]]] = 1 + g[p[e]]
    BY <1>1, <1>2
  <2> HIDE DEF base, step
  <2> QED BY <1>1, <2>1
<1>4. d = [e \in DOMAIN p |-> IF p[e] = e THEN 0 ELSE 1 + d[p[e]]]
  BY <1>3
<1>5. Depth(p) = d
  BY DEF Depth
<1> HIDE DEF d
<1> DEFINE T == {e \in DOMAIN p : d[e] \in Nat /\ d[e] + r[e] <= r[R[e]]}
<1>6. \A e \in DOMAIN p : /\ r[e] \in Nat /\ R[e] \in DOMAIN p /\ r[p[e]] \in Nat
                          /\ p[e] # e => r[e] < r[p[e]] /\ R[e] = R[p[e]]
                          /\ p[e] = e => R[e] = e
  BY <1>2 DEF Ranked, Climbs
<1>7. \A e \in DOMAIN p : p[e] = e \/ p[e] \in T => e \in T
  <2> SUFFICES ASSUME NEW e \in DOMAIN p, p[e] = e \/ p[e] \in T PROVE e \in T
    OBVIOUS
  <2>1. CASE p[e] = e
    BY <1>4, <1>6, <2>1
  <2>2. CASE p[e] # e /\ p[e] \in T
    <3>1. d[e] = 1 + d[p[e]] /\ d[p[e]] \in Nat /\ d[p[e]] + r[p[e]] <= r[R[e]] /\ r[e] < r[p[e]]
      BY <1>4, <1>6, <2>2
    <3>2. d[e] \in Nat /\ d[e] + r[e] <= r[R[e]]
      BY <1>6, <3>1
    <3> QED BY <3>2
  <2> QED BY <2>1, <2>2
<1>8. DOMAIN p \subseteq T
  <2> HIDE DEF T
  <2> QED BY <1>7, Downward
<1> QED BY <1>5, <1>8

Recursive(p, S, base, step) == base \in [DOMAIN p -> S] /\ step \in [DOMAIN p -> [S -> S]]

Unfolded(p, base, step, f) ==
  \A e \in DOMAIN p : f[e] = IF p[e] = e THEN base[e] ELSE step[e][f[p[e]]]

LEMMA TreeUnfolds ==
  ASSUME NEW p, NEW r, NEW m, Ranked(p, r, m), NEW S, NEW base, NEW step, Recursive(p, S, base, step)
  PROVE  \E f \in [DOMAIN p -> S] : Unfolded(p, base, step, f)
<1>1. base \in [DOMAIN p -> S] /\ step \in [DOMAIN p -> [S -> S]]
  BY DEF Recursive
<1>2. \E f \in [DOMAIN p -> S] :
        \A e \in DOMAIN p : f[e] = IF p[e] = e THEN base[e] ELSE step[e][f[p[e]]]
  BY SMTT(120), <1>1, TreeRecursion
<1> QED BY <1>2 DEF Unfolded

(* A search passes elements of the same tree that are no roots. *)
LEMMA AboveIs ==
  ASSUME NEW p, NEW r, NEW m, Ranked(p, r, m), NEW R, Climbs(p, R), NEW e \in DOMAIN p
  PROVE  \A x \in Above(p, e) : x \in DOMAIN p /\ p[x] # x /\ R[x] = R[e]
<1> DEFINE a == CHOOSE a : a = [x \in DOMAIN p |-> IF p[x] = x THEN {} ELSE {x} \cup a[p[x]]]
           base == [x \in DOMAIN p |-> {}]
           step == [x \in DOMAIN p |-> [s \in SUBSET DOMAIN p |-> {x} \cup s]]
<1>1. PICK g \in [DOMAIN p -> SUBSET DOMAIN p] :
        Unfolded(p, base, step, g)
  <2>1. Recursive(p, SUBSET DOMAIN p, base, step)
    BY DEF Recursive
  <2> HIDE DEF base, step, a
  <2> QED BY <2>1, TreeUnfolds
<1>2. \A x \in DOMAIN p : p[x] \in DOMAIN p
  BY DEF Ranked
<1>3. g = [x \in DOMAIN p |-> IF p[x] = x THEN {} ELSE {x} \cup g[p[x]]]
  <2>1. \A x \in DOMAIN p : base[x] = {} /\ step[x][g[p[x]]] = {x} \cup g[p[x]]
    BY <1>1, <1>2
  <2> HIDE DEF base, step
  <2> QED BY <1>1, <2>1 DEF Unfolded
<1>4. a = [x \in DOMAIN p |-> IF p[x] = x THEN {} ELSE {x} \cup a[p[x]]]
  BY <1>3
<1>5. Above(p, e) = a[e]
  BY DEF Above
<1> HIDE DEF a
<1> DEFINE T == {x \in DOMAIN p : \A y \in a[x] : y \in DOMAIN p /\ p[y] # y /\ R[y] = R[x]}
<1>6. \A x \in DOMAIN p : p[x] = x \/ p[x] \in T => x \in T
  <2> SUFFICES ASSUME NEW x \in DOMAIN p, p[x] = x \/ p[x] \in T PROVE x \in T
    OBVIOUS
  <2>1. CASE p[x] = x
    BY <1>4, <2>1
  <2>2. CASE p[x] # x /\ p[x] \in T
    <3>1. a[x] = {x} \cup a[p[x]] /\ R[x] = R[p[x]]
      BY <1>4, <2>2 DEF Climbs
    <3> QED BY <2>2, <3>1
  <2> QED BY <2>1, <2>2
<1>7. DOMAIN p \subseteq T
  <2> HIDE DEF T
  <2> QED BY <1>6, Downward
<1> QED BY <1>5, <1>7

(* Shorter paths lead to the same roots, and so does the shortest. *)
LEMMA CompressedIs ==
  ASSUME NEW p, NEW r, NEW m, Ranked(p, r, m), NEW R, Climbs(p, R), NEW e \in DOMAIN p
  PROVE  LET q == Compressed(p, e) IN
         /\ DOMAIN q = DOMAIN p /\ Ranked(q, r, m) /\ Climbs(q, R)
         /\ \A x \in DOMAIN p : q[x] = x <=> p[x] = x
<1> DEFINE q == Compressed(p, e)
           A == Above(p, e)
<1>1. q = [x \in DOMAIN p |-> IF x \in A THEN R[e] ELSE p[x]]
  BY RepIs DEF Compressed
<1>2. \A x \in A : x \in DOMAIN p /\ p[x] # x /\ R[x] = R[e]
  BY AboveIs
<1> HIDE DEF q, A
<1>3. \A x \in DOMAIN p : /\ R[x] \in DOMAIN p /\ p[R[x]] = R[x] /\ R[R[x]] = R[x]
                          /\ p[x] # x => r[x] < r[R[x]]
                          /\ p[x] = x <=> R[x] = x
  BY RootIs
<1>4. /\ p \in [DOMAIN p -> DOMAIN p] /\ m \in Nat /\ r \in [DOMAIN p -> 0 .. m]
      /\ \A x \in DOMAIN p : p[x] # x => r[x] < r[p[x]]
  BY DEF Ranked
<1>5. \A x \in DOMAIN p : q[x] \in DOMAIN p /\ (q[x] = x <=> p[x] = x) /\ (q[x] # x => r[x] < r[q[x]])
  BY <1>1, <1>2, <1>3, <1>4
<1>6. \A x \in DOMAIN p : R[x] = IF q[x] = x THEN x ELSE R[q[x]]
  BY <1>1, <1>2, <1>3, <1>5 DEF Climbs
<1>7. DOMAIN q = DOMAIN p /\ q \in [DOMAIN p -> DOMAIN p]
  BY <1>1, <1>5
<1>8. Ranked(q, r, m) /\ Climbs(q, R)
  BY <1>4, <1>5, <1>6, <1>7 DEF Ranked, Climbs
<1> QED BY <1>5, <1>7, <1>8 DEF q

LEMMA ShortestIs ==
  ASSUME NEW p, NEW r, NEW m, Ranked(p, r, m), NEW R, Climbs(p, R)
  PROVE  DOMAIN R = DOMAIN p /\ Ranked(R, r, m) /\ Climbs(R, R)
         /\ \A x \in DOMAIN p : R[x] = x <=> p[x] = x
<1>1. \A x \in DOMAIN p : /\ R[x] \in DOMAIN p /\ p[R[x]] = R[x] /\ R[R[x]] = R[x]
                          /\ p[x] # x => r[x] < r[R[x]]
                          /\ p[x] = x <=> R[x] = x
  BY RootIs
<1>2. R \in [DOMAIN p -> DOMAIN p] /\ m \in Nat /\ r \in [DOMAIN p -> 0 .. m] /\ DOMAIN R = DOMAIN p
  BY DEF Ranked, Climbs
<1> QED BY <1>1, <1>2 DEF Ranked, Climbs

(* The root small below the root large. *)
Hung(p, small, large, q) ==
  /\ q \in [DOMAIN p -> DOMAIN p] /\ q[small] = large
  /\ \A x \in DOMAIN p : x # small => q[x] = p[x]

Raised(p, r, small, large, s) ==
  /\ s \in [DOMAIN p -> Int] /\ \A x \in DOMAIN p : x # large => s[x] = r[x]
  /\ s[large] = IF r[small] < r[large] THEN r[large] ELSE r[small] + 1

Relabelled(p, R, small, large, N) ==
  /\ N \in [DOMAIN p -> DOMAIN p]
  /\ \A e \in DOMAIN p : N[e] = IF R[e] = small THEN large ELSE R[e]

LEMMA HungIs ==
  ASSUME NEW p, NEW r, NEW m, Ranked(p, r, m), NEW R, Climbs(p, R),
         NEW small \in DOMAIN p, NEW large \in DOMAIN p, small # large,
         p[small] = small, p[large] = large,
         NEW q, Hung(p, small, large, q), NEW s, Raised(p, r, small, large, s),
         NEW N, Relabelled(p, R, small, large, N)
  PROVE  /\ DOMAIN q = DOMAIN p /\ Ranked(q, s, m + 1) /\ Climbs(q, N)
         /\ \A x \in DOMAIN p : q[x] = x <=> p[x] = x /\ x # small
<1>1. /\ p \in [DOMAIN p -> DOMAIN p] /\ m \in Nat /\ r \in [DOMAIN p -> 0 .. m]
      /\ \A x \in DOMAIN p : r[x] \in Nat /\ r[x] <= m /\ (p[x] # x => r[x] < r[p[x]])
      /\ R \in [DOMAIN p -> DOMAIN p]
  BY DEF Ranked, Climbs
<1>2. /\ DOMAIN q = DOMAIN p /\ q \in [DOMAIN p -> DOMAIN p] /\ q[small] = large
      /\ \A x \in DOMAIN p : x # small => q[x] = p[x]
  BY <1>1 DEF Hung
<1>3. /\ DOMAIN s = DOMAIN p /\ s[large] \in Nat /\ r[large] <= s[large] /\ r[small] < s[large]
      /\ s[large] <= m + 1
      /\ \A x \in DOMAIN p : x # large => s[x] = r[x]
  BY <1>1 DEF Raised
<1>4. N \in [DOMAIN p -> DOMAIN p] /\ \A e \in DOMAIN p : N[e] = IF R[e] = small THEN large ELSE R[e]
  BY <1>1 DEF Relabelled
<1>5. s \in [DOMAIN p -> 0 .. m + 1]
  <2>1. \A x \in DOMAIN p : s[x] \in 0 .. m + 1
    BY <1>1, <1>3
  <2>2. s = [x \in DOMAIN p |-> s[x]]
    BY DEF Raised
  <2> QED BY <2>1, <2>2
<1>6. \A x \in DOMAIN p : r[x] <= s[x] /\ r[x] \in Nat /\ s[x] \in Nat
  BY <1>1, <1>3
<1>7. \A x \in DOMAIN p : q[x] # x => s[x] < s[q[x]]
  <2> SUFFICES ASSUME NEW x \in DOMAIN p, q[x] # x PROVE s[x] < s[q[x]]
    OBVIOUS
  <2>1. CASE x = small
    BY <1>2, <1>3, <2>1
  <2>2. CASE x # small
    <3>1. q[x] = p[x] /\ p[x] # x /\ x # large /\ p[x] \in DOMAIN p /\ r[x] < r[p[x]] /\ s[x] = r[x]
      BY <1>1, <1>2, <1>3, <2>2
    <3> QED BY <1>6, <3>1
  <2> QED BY <2>1, <2>2
<1>8. Ranked(q, s, m + 1)
  <2>1. m + 1 \in Nat
    BY <1>1
  <2> QED BY <1>2, <1>5, <1>7, <2>1 DEF Ranked
<1>9. \A x \in DOMAIN p : q[x] = x <=> p[x] = x /\ x # small
  BY <1>2
<1>10. R[small] = small /\ R[large] = large /\ \A e \in DOMAIN p : R[e] = IF p[e] = e THEN e ELSE R[p[e]]
  BY DEF Climbs
<1>11. \A e \in DOMAIN p : N[e] = IF q[e] = e THEN e ELSE N[q[e]]
  <2> SUFFICES ASSUME NEW e \in DOMAIN p PROVE N[e] = IF q[e] = e THEN e ELSE N[q[e]]
    OBVIOUS
  <2>1. CASE e = small
    <3>1. N[small] = large /\ N[large] = large
      BY <1>4, <1>10
    <3> QED BY <1>2, <2>1, <3>1
  <2>2. CASE e # small /\ p[e] = e
    BY <1>2, <1>4, <1>10, <2>2
  <2>3. CASE e # small /\ p[e] # e
    BY <1>1, <1>2, <1>4, <1>10, <2>3
  <2> QED BY <2>1, <2>2, <2>3
<1>12. Climbs(q, N)
  BY <1>2, <1>4, <1>11 DEF Climbs
<1> QED BY <1>2, <1>8, <1>9, <1>12

-----------------------------------------------------------------------------
LEMMA TwoToIs ==
  /\ TwoTo[0] = 1
  /\ \A n \in Nat : TwoTo[n] \in Nat /\ TwoTo[n] > 0 /\ TwoTo[n + 1] = 2 * TwoTo[n]
<1> DEFINE Step(n) == [i \in 1 .. n |-> [v \in Nat |-> 2 * v]]
           G(n) == CHOOSE g : Follows(g, n, Nat, 1, Step(n))
           h == [n \in Nat |-> G(n)[n]]
<1>1. \A n \in Nat : Follows(G(n), n, Nat, 1, Step(n))
  <2> SUFFICES ASSUME NEW n \in Nat PROVE \E g : Follows(g, n, Nat, 1, Step(n))
    OBVIOUS
  <2>1. Step(n) \in [1 .. n -> [Nat -> Nat]] /\ 1 \in Nat
    OBVIOUS
  <2> HIDE DEF Step
  <2> QED BY <2>1, Recursion
<1>2. \A n \in Nat : /\ G(n) \in [0 .. n -> Nat] /\ G(n)[0] = 1
                     /\ \A i \in 1 .. n : G(n)[i] = 2 * G(n)[i - 1]
  <2> SUFFICES ASSUME NEW n \in Nat
               PROVE  /\ G(n) \in [0 .. n -> Nat] /\ G(n)[0] = 1
                      /\ \A i \in 1 .. n : G(n)[i] = 2 * G(n)[i - 1]
    OBVIOUS
  <2>1. G(n) \in [0 .. n -> Nat] /\ \A i \in 0 .. n : G(n)[i] = IF i = 0 THEN 1 ELSE Step(n)[i][G(n)[i - 1]]
    <3> HIDE DEF G, Step
    <3> QED BY <1>1 DEF Follows
  <2> HIDE DEF G
  <2>2. ASSUME NEW i \in 1 .. n PROVE G(n)[i] = 2 * G(n)[i - 1]
    <3>1. i \in 0 .. n /\ i - 1 \in 0 .. n /\ i # 0
      OBVIOUS
    <3>2. G(n)[i] = Step(n)[i][G(n)[i - 1]] /\ G(n)[i - 1] \in Nat
      <4> HIDE DEF Step
      <4> QED BY <2>1, <3>1
    <3> QED BY <3>2
  <2>3. 0 \in 0 .. n
    OBVIOUS
  <2> QED BY <2>1, <2>2, <2>3
<1> HIDE DEF G
<1>3. ASSUME NEW n \in Nat PROVE G(n + 1)[n] = G(n)[n]
  <2> DEFINE T == {i \in Nat : i <= n => G(n + 1)[i] = G(n)[i]}
  <2>1. 0 \in T
    <3>1. n + 1 \in Nat
      OBVIOUS
    <3> QED BY <1>2, <3>1
  <2>2. ASSUME NEW i \in Nat, i \in T PROVE i + 1 \in T
    <3> SUFFICES ASSUME i + 1 <= n PROVE G(n + 1)[i + 1] = G(n)[i + 1]
      OBVIOUS
    <3>1. /\ i + 1 \in 1 .. n /\ i + 1 \in 1 .. n + 1 /\ (i + 1) - 1 = i /\ n + 1 \in Nat
          /\ G(n + 1)[i] = G(n)[i]
      BY <2>2
    <3> QED BY ZenonT(60), <1>2, <3>1
  <2>3. n \in T
    <3> HIDE DEF T
    <3> QED BY <2>1, <2>2, SetInduction
  <2> QED BY <2>3
<1>4. \A n \in Nat : h[n] \in Nat
  BY <1>2
<1>5. h[0] = 1
  BY <1>2
<1>6. ASSUME NEW n \in Nat PROVE h[n + 1] = 2 * h[n]
  <2>1. n + 1 \in Nat /\ n + 1 \in 1 .. n + 1 /\ (n + 1) - 1 = n
    OBVIOUS
  <2>2. G(n + 1)[n + 1] = 2 * G(n + 1)[n]
    BY <1>2, <2>1
  <2> QED BY <1>3, <2>1, <2>2
<1>7. h = [n \in Nat |-> IF n = 0 THEN 1 ELSE 2 * h[n - 1]]
  <2>1. ASSUME NEW n \in Nat PROVE h[n] = IF n = 0 THEN 1 ELSE 2 * h[n - 1]
    <3>1. CASE n = 0
      BY <1>5, <3>1
    <3>2. CASE n # 0
      <4>1. n - 1 \in Nat /\ (n - 1) + 1 = n
        BY <3>2
      <4> HIDE DEF h
      <4> QED BY <1>6, <3>2, <4>1
    <3> QED BY <3>1, <3>2
  <2>2. h = [n \in Nat |-> h[n]]
    OBVIOUS
  <2> HIDE DEF h
  <2> QED BY <2>1, <2>2
<1> HIDE DEF h
<1>8. TwoTo = [n \in Nat |-> IF n = 0 THEN 1 ELSE 2 * TwoTo[n - 1]]
  BY <1>7 DEF TwoTo
<1>9. TwoTo[0] = 1
  BY <1>8
<1>10. ASSUME NEW n \in Nat PROVE TwoTo[n + 1] = 2 * TwoTo[n]
  <2>1. n + 1 \in Nat /\ n + 1 # 0 /\ (n + 1) - 1 = n
    OBVIOUS
  <2> QED BY <1>8, <2>1
<1> DEFINE T == {n \in Nat : TwoTo[n] \in Nat /\ TwoTo[n] > 0}
<1>11. Nat \subseteq T
  <2>1. 0 \in T
    BY <1>9
  <2>2. ASSUME NEW n \in Nat, n \in T PROVE n + 1 \in T
    BY <1>10, <2>2
  <2> HIDE DEF T
  <2> QED BY <2>1, <2>2, SetInduction
<1> QED BY <1>9, <1>10, <1>11

LEMMA TwoToGrows == ASSUME NEW a \in Nat, NEW b \in Nat, a <= b PROVE TwoTo[a] <= TwoTo[b]
<1> DEFINE T == {n \in Nat : TwoTo[a] <= TwoTo[a + n]}
<1>1. 0 \in T
  <2>1. a + 0 = a /\ TwoTo[a] \in Nat
    BY TwoToIs
  <2> QED BY <2>1
<1>2. ASSUME NEW n \in Nat, n \in T PROVE n + 1 \in T
  <2>1. a + (n + 1) = (a + n) + 1 /\ a + n \in Nat
    OBVIOUS
  <2>2. TwoTo[a] \in Nat /\ TwoTo[a + n] \in Nat /\ TwoTo[(a + n) + 1] = 2 * TwoTo[a + n]
    BY <2>1, TwoToIs
  <2> QED BY <1>2, <2>1, <2>2
<1>3. b - a \in Nat /\ a + (b - a) = b
  OBVIOUS
<1>4. b - a \in T
  <2> HIDE DEF T
  <2> QED BY <1>1, <1>2, <1>3, SetInduction
<1> QED BY <1>3, <1>4

-----------------------------------------------------------------------------
(* The trees of p with roots R[e], as sets. *)
Tree(R, t) == {e \in DOMAIN R : R[e] = t}
Roots(p) == {e \in DOMAIN p : p[e] = e}

(* Trees of p, with the sizes z of the sets J. *)
Grove(p, R, z, J) ==
  /\ IsFiniteSet(DOMAIN p) /\ Climbs(p, R)
  /\ J = {Tree(R, t) : t \in Roots(p)}
  /\ DOMAIN z = Roots(p)
  /\ \A t \in Roots(p) : z[t] = Cardinality(Tree(R, t))

(* A tree of a high rank is large. *)
Grown(p, z, r, m) == Ranked(p, r, m) /\ \A t \in Roots(p) : TwoTo[r[t]] <= z[t]

ForestInv ==
  /\ Grove(parents, Rep(parents), sizes, joined)
  /\ \E m \in Nat : \E r : Grown(parents, sizes, r, m)
  /\ Len(input) \in Nat
  /\ components = Cardinality(joined) + Len(input) - Cardinality(Elements)

LEMMA TreesAre ==
  ASSUME NEW p, NEW R, NEW z, NEW J, NEW r, NEW m, Grove(p, R, z, J), Grown(p, z, r, m)
  PROVE  /\ Rep(p) = R
         /\ \A e \in DOMAIN p : R[e] \in Roots(p) /\ e \in Tree(R, R[e]) /\ Tree(R, R[e]) \in J
         /\ \A t \in Roots(p) : R[t] = t /\ t \in Tree(R, t)
         /\ \A t \in Roots(p) : IsFiniteSet(Tree(R, t)) /\ Cardinality(Tree(R, t)) \in Nat
         /\ \A s \in J : \A e \in s : e \in DOMAIN p /\ s = Tree(R, R[e])
         /\ IsFiniteSet(J) /\ Cardinality(J) \in Nat
<1>1. Ranked(p, r, m) /\ Climbs(p, R) /\ IsFiniteSet(DOMAIN p) /\ J = {Tree(R, t) : t \in Roots(p)}
  BY DEF Grove, Grown
<1>2. Rep(p) = R
  BY <1>1, RepIs
<1>3. \A e \in DOMAIN p : R[e] \in DOMAIN p /\ p[R[e]] = R[e] /\ (p[e] = e <=> R[e] = e)
  BY <1>1, RootIs
<1>4. DOMAIN R = DOMAIN p
  BY <1>1 DEF Climbs
<1>5. \A e \in DOMAIN p : R[e] \in Roots(p) /\ e \in Tree(R, R[e]) /\ Tree(R, R[e]) \in J
  BY <1>1, <1>3, <1>4 DEF Roots, Tree
<1>6. \A t \in Roots(p) : R[t] = t /\ t \in Tree(R, t)
  BY <1>3, <1>4 DEF Roots, Tree
<1>7. \A t \in Roots(p) : IsFiniteSet(Tree(R, t)) /\ Cardinality(Tree(R, t)) \in Nat
  <2> SUFFICES ASSUME NEW t \in Roots(p) PROVE IsFiniteSet(Tree(R, t))
    BY FS_CardinalityType
  <2>1. Tree(R, t) \subseteq DOMAIN p
    BY <1>4 DEF Tree
  <2> QED BY <1>1, <2>1, FS_Subset
<1>8. \A s \in J : \A e \in s : e \in DOMAIN p /\ s = Tree(R, R[e])
  BY <1>1, <1>4 DEF Tree
<1>9. IsFiniteSet(J) /\ Cardinality(J) \in Nat
  <2>1. Roots(p) \subseteq DOMAIN p
    BY DEF Roots
  <2>2. IsFiniteSet(Roots(p))
    BY <1>1, <2>1, FS_Subset
  <2> DEFINE g == [t \in Roots(p) |-> Tree(R, t)]
  <2>3. J = {g[t] : t \in Roots(p)} /\ g \in [Roots(p) -> J]
    BY <1>1
  <2>4. g \in Surjection(Roots(p), J)
    BY <2>3 DEF Surjection
  <2> HIDE DEF g
  <2>5. IsFiniteSet(J)
    BY <2>2, <2>4, FS_Surjection
  <2> QED BY <2>5, FS_CardinalityType
<1> QED BY <1>2, <1>5, <1>6, <1>7, <1>8, <1>9

(* Calls that only shorten paths. *)
LEMMA GroveStays ==
  ASSUME NEW p, NEW R, NEW z, NEW J, NEW r, NEW m, Grove(p, R, z, J), Grown(p, z, r, m),
         NEW q, DOMAIN q = DOMAIN p, Ranked(q, r, m), Climbs(q, R),
         \A x \in DOMAIN p : q[x] = x <=> p[x] = x
  PROVE  Grove(q, R, z, J) /\ Grown(q, z, r, m)
<1>1. Roots(q) = Roots(p)
  BY DEF Roots
<1> QED BY <1>1 DEF Grove, Grown

Summed(z, small, large, y) ==
  /\ DOMAIN y = DOMAIN z \ {small}
  /\ \A t \in DOMAIN y : y[t] = IF t = large THEN z[small] + z[large] ELSE z[t]

United(J, R, small, large, K) ==
  K = (J \ {Tree(R, small), Tree(R, large)}) \cup {Tree(R, small) \cup Tree(R, large)}

(* The sets of the roots small and large are joined. *)
LEMMA GroveJoins ==
  ASSUME NEW p, NEW R, NEW z, NEW J, NEW r, NEW m, Grove(p, R, z, J), Grown(p, z, r, m),
         NEW small \in Roots(p), NEW large \in Roots(p), small # large, z[small] <= z[large],
         NEW y, Summed(z, small, large, y), NEW K, United(J, R, small, large, K),
         NEW q, Hung(p, small, large, q)
  PROVE  /\ DOMAIN q = DOMAIN p
         /\ \E N : Grove(q, N, y, K)
         /\ \E s : Grown(q, y, s, m + 1)
         /\ Cardinality(K) = Cardinality(J) - 1
<1> DEFINE s == [r EXCEPT ![large] = IF r[small] < r[large] THEN r[large] ELSE r[small] + 1]
           N == [e \in DOMAIN p |-> IF R[e] = small THEN large ELSE R[e]]
<1>0. /\ DOMAIN y = DOMAIN z \ {small}
      /\ \A t \in DOMAIN y : y[t] = IF t = large THEN z[small] + z[large] ELSE z[t]
      /\ K = (J \ {Tree(R, small), Tree(R, large)}) \cup {Tree(R, small) \cup Tree(R, large)}
  BY DEF Summed, United
<1>1. /\ Ranked(p, r, m) /\ Climbs(p, R) /\ IsFiniteSet(DOMAIN p) /\ DOMAIN R = DOMAIN p
      /\ \A t \in Roots(p) : z[t] = Cardinality(Tree(R, t)) /\ TwoTo[r[t]] <= z[t]
      /\ DOMAIN z = Roots(p) /\ J = {Tree(R, t) : t \in Roots(p)}
      /\ r \in [DOMAIN p -> 0 .. m] /\ m \in Nat
  BY DEF Grove, Grown, Climbs, Ranked
<1>2. small \in DOMAIN p /\ large \in DOMAIN p /\ p[small] = small /\ p[large] = large
  BY DEF Roots
<1>3. /\ DOMAIN q = DOMAIN p /\ Ranked(q, s, m + 1) /\ Climbs(q, N)
      /\ \A x \in DOMAIN p : q[x] = x <=> p[x] = x /\ x # small
  <2>1. /\ p \in [DOMAIN p -> DOMAIN p] /\ R \in [DOMAIN p -> DOMAIN p]
        /\ \A x \in DOMAIN p : r[x] \in Nat
    BY <1>1 DEF Ranked, Climbs
  <2>2. Raised(p, r, small, large, s)
    BY <1>1, <1>2, <2>1 DEF Raised
  <2>3. Relabelled(p, R, small, large, N)
    BY <1>2, <2>1 DEF Relabelled
  <2> HIDE DEF s, N
  <2> QED BY <1>1, <1>2, <2>2, <2>3, HungIs
<1>4. /\ \A t \in Roots(p) : R[t] = t /\ t \in Tree(R, t) /\ IsFiniteSet(Tree(R, t))
                             /\ Cardinality(Tree(R, t)) \in Nat
      /\ IsFiniteSet(J) /\ Cardinality(J) \in Nat
      /\ \A e \in DOMAIN p : R[e] \in Roots(p)
  BY TreesAre
<1>5. Roots(q) = Roots(p) \ {small}
  <2> QED BY <1>3 DEF Roots
<1>6. DOMAIN N = DOMAIN p /\ \A e \in DOMAIN p : N[e] = IF R[e] = small THEN large ELSE R[e]
  OBVIOUS
<1>7. s[large] \in Nat /\ (s[large] = r[large] \/ s[large] = r[small] + 1)
      /\ \A t \in DOMAIN p : t # large => s[t] = r[t]
  BY <1>1, <1>2
<1> HIDE DEF s, N
<1>8. Tree(N, large) = Tree(R, small) \cup Tree(R, large)
  BY <1>1, <1>6 DEF Tree
<1>9. \A t \in Roots(p) \ {small, large} : Tree(N, t) = Tree(R, t)
  BY <1>1, <1>6 DEF Tree
<1>10. \A t \in Roots(p), u \in Roots(p) : t # u => Tree(R, t) \cap Tree(R, u) = {}
  BY DEF Tree
<1>11. \A t \in Roots(p), u \in Roots(p) : t # u => Tree(R, t) # Tree(R, u)
  BY <1>4, <1>10
<1>12. J \ {Tree(R, small), Tree(R, large)} = {Tree(R, t) : t \in Roots(p) \ {small, large}}
  BY <1>1, <1>11
<1>13. K = {Tree(N, t) : t \in Roots(q)}
  <2>1. {Tree(N, t) : t \in Roots(q)} = {Tree(N, t) : t \in Roots(p) \ {small, large}} \cup {Tree(N, large)}
    BY <1>5
  <2>2. {Tree(N, t) : t \in Roots(p) \ {small, large}} = {Tree(R, t) : t \in Roots(p) \ {small, large}}
    BY <1>9
  <2> QED BY <1>0, <1>8, <1>12, <2>1, <2>2
<1>14. DOMAIN y = Roots(q)
  BY <1>0, <1>1, <1>5
<1>15. z[small] \in Nat /\ z[large] \in Nat /\ y[large] = z[small] + z[large]
       /\ \A t \in Roots(q) : t # large => y[t] = z[t]
  BY <1>0, <1>1, <1>4, <1>5
<1>16. y[large] = Cardinality(Tree(N, large))
  <2>1. Tree(R, small) \cap Tree(R, large) = {}
    BY <1>10
  <2>2. Cardinality({}) = 0
    BY FS_EmptySet
  <2>3. Cardinality(Tree(R, small) \cup Tree(R, large)) =
          Cardinality(Tree(R, small)) + Cardinality(Tree(R, large)) - Cardinality(Tree(R, small) \cap Tree(R, large))
    BY <1>4, FS_Union
  <2> DEFINE A == Tree(R, small)
             B == Tree(R, large)
  <2>4. /\ z[small] = Cardinality(A) /\ z[large] = Cardinality(B) /\ A \cap B = {}
        /\ Cardinality(A) \in Nat /\ Cardinality(B) \in Nat
        /\ Cardinality(A \cup B) = Cardinality(A) + Cardinality(B) - Cardinality(A \cap B)
        /\ Tree(N, large) = A \cup B
    BY <1>1, <1>4, <1>8, <2>1, <2>3
  <2>6. Cardinality(A \cap B) = 0
    BY <2>2, <2>4
  <2> HIDE DEF A, B
  <2>5. Cardinality(A \cup B) = Cardinality(A) + Cardinality(B)
    BY <2>4, <2>6
  <2> QED BY <1>15, <2>4, <2>5
<1>17. \A t \in Roots(q) : y[t] = Cardinality(Tree(N, t))
  BY <1>1, <1>5, <1>9, <1>15, <1>16
<1>18. Grove(q, N, y, K)
  BY <1>1, <1>3, <1>13, <1>14, <1>17 DEF Grove
<1>19. TwoTo[s[large]] <= y[large]
  <2>1. /\ TwoTo[r[small]] <= z[small] /\ TwoTo[r[large]] <= z[large]
        /\ r[small] \in Nat /\ r[large] \in Nat
    BY <1>1, <1>2
  <2>2. TwoTo[r[small]] \in Nat /\ TwoTo[r[large]] \in Nat /\ TwoTo[r[small] + 1] = 2 * TwoTo[r[small]]
    BY <2>1, TwoToIs
  <2>3. CASE s[large] = r[large]
    BY <1>15, <2>1, <2>2, <2>3
  <2>4. CASE s[large] = r[small] + 1
    BY <1>15, <2>1, <2>2, <2>4
  <2> QED BY <1>7, <2>3, <2>4
<1>20. Grown(q, y, s, m + 1)
  <2>1. \A t \in Roots(q) : TwoTo[s[t]] <= y[t]
    <3> SUFFICES ASSUME NEW t \in Roots(q), t # large PROVE TwoTo[s[t]] <= y[t]
      BY <1>19
    <3>1. t \in Roots(p) /\ t \in DOMAIN p
      BY <1>5 DEF Roots
    <3> QED BY <1>1, <1>7, <1>15, <3>1
  <2> QED BY <1>3, <2>1 DEF Grown
<1>21. Cardinality(K) = Cardinality(J) - 1
  <2> DEFINE A == Tree(R, small)
             B == Tree(R, large)
  <2>1. A \in J /\ B \in J /\ A # B /\ A # {} /\ B # {}
    BY <1>1, <1>4, <1>11
  <2>2. A \cup B \notin J \ {A, B}
    <3> SUFFICES ASSUME NEW t \in Roots(p) \ {small, large}, Tree(R, t) = A \cup B PROVE FALSE
      BY <1>12
    <3> QED BY <1>4, <1>10
  <2>3. K = (J \ {A, B}) \cup {A \cup B}
    BY <1>0
  <2> HIDE DEF A, B
  <2>4. IsFiniteSet(J \ {A}) /\ Cardinality(J \ {A}) = Cardinality(J) - 1
    BY <1>4, <2>1, FS_RemoveElement
  <2>5. IsFiniteSet((J \ {A}) \ {B}) /\ Cardinality((J \ {A}) \ {B}) = Cardinality(J \ {A}) - 1
    BY <2>1, <2>4, FS_RemoveElement
  <2>6. (J \ {A}) \ {B} = J \ {A, B}
    OBVIOUS
  <2>7. Cardinality((J \ {A, B}) \cup {A \cup B}) = Cardinality(J \ {A, B}) + 1
    BY <2>2, <2>5, <2>6, FS_AddElement
  <2>8. Cardinality(J \ {A, B}) = Cardinality(J) - 1 - 1
    BY <2>4, <2>5, <2>6
  <2>9. \A n \in Nat : n - 1 - 1 + 1 = n - 1
    OBVIOUS
  <2> QED BY <1>4, <2>3, <2>7, <2>8, <2>9
<1> QED BY <1>3, <1>18, <1>20, <1>21

LEMMA ForestHolds == ForestInv /\ [ForestNext]_forestVars => ForestInv'
<1> SUFFICES ASSUME ForestInv, [ForestNext]_forestVars PROVE ForestInv'
  OBVIOUS
<1>1. PICK m \in Nat : \E r : Grown(parents, sizes, r, m)
  BY DEF ForestInv
<1>2. PICK r : Grown(parents, sizes, r, m)
  BY <1>1
<1> DEFINE R == Rep(parents)
<1>3. Grove(parents, R, sizes, joined) /\ Ranked(parents, r, m) /\ Climbs(parents, R)
  BY <1>2 DEF ForestInv, Grove, Grown
<1>4. Len(input) \in Nat /\ components = Cardinality(joined) + Len(input) - Cardinality(Elements)
  BY DEF ForestInv
<1> HIDE DEF R
(* What is left to show when a call does not join sets. *)
<1>5. ASSUME DOMAIN parents' = DOMAIN parents, Ranked(parents', r, m), Climbs(parents', R),
             \A x \in DOMAIN parents : parents'[x] = x <=> parents[x] = x,
             UNCHANGED <<sizes, components, input, joined>>
      PROVE  ForestInv'
  <2>1. Grove(parents', R, sizes, joined) /\ Grown(parents', sizes, r, m)
    BY <1>2, <1>3, <1>5, GroveStays
  <2>2. Rep(parents') = R
    BY <1>5, RepIs
  <2>3. Elements' = Elements
    BY <1>5 DEF Elements
  <2> QED BY <1>4, <1>5, <2>1, <2>2, <2>3 DEF ForestInv
(* The paths of two elements are shorter. *)
<1>6. ASSUME NEW a \in Elements, NEW b \in Elements, NEW p,
             p = Compressed(Compressed(parents, a), b)
      PROVE  /\ DOMAIN p = DOMAIN parents /\ Ranked(p, r, m) /\ Climbs(p, R)
             /\ \A x \in DOMAIN parents : p[x] = x <=> parents[x] = x
  <2> DEFINE q == Compressed(parents, a)
  <2>1. /\ DOMAIN q = DOMAIN parents /\ Ranked(q, r, m) /\ Climbs(q, R)
        /\ \A x \in DOMAIN parents : q[x] = x <=> parents[x] = x
    BY <1>3, CompressedIs DEF Elements
  <2>2. p = Compressed(q, b)
    BY <1>6
  <2> HIDE DEF q
  <2>3. b \in DOMAIN q
    BY <2>1 DEF Elements
  <2>4. LET o == Compressed(q, b) IN
        /\ DOMAIN o = DOMAIN q /\ Ranked(o, r, m) /\ Climbs(o, R)
        /\ \A x \in DOMAIN q : o[x] = x <=> q[x] = x
    BY <2>1, <2>3, CompressedIs
  <2> QED BY <2>1, <2>2, <2>4
<1>7. CASE Extract
  <2>1. parents' = R /\ UNCHANGED <<sizes, components, input, joined>>
    BY <1>7 DEF Extract, R
  <2>2. DOMAIN R = DOMAIN parents /\ Ranked(R, r, m) /\ Climbs(R, R)
        /\ \A x \in DOMAIN parents : R[x] = x <=> parents[x] = x
    BY <1>3, ShortestIs
  <2> QED BY <1>5, <2>1, <2>2
<1>8. ASSUME NEW a \in Elements, NEW b \in Elements, Connected(a, b)
      PROVE  ForestInv'
  BY <1>5, <1>6, <1>8 DEF Connected
<1>9. ASSUME NEW a \in Elements, NEW b \in Elements, Merge(a, b)
      PROVE  ForestInv'
  <2> DEFINE p == Compressed(Compressed(parents, a), b)
             ra == R[a]
             rb == R[b]
             large == Kept(ra, rb)
             small == IF large = ra THEN rb ELSE ra
  <2>1. /\ DOMAIN p = DOMAIN parents /\ Ranked(p, r, m) /\ Climbs(p, R)
        /\ \A x \in DOMAIN parents : p[x] = x <=> parents[x] = x
    BY <1>6
  <2>2. IF ra = rb
        THEN parents' = p /\ UNCHANGED <<sizes, components, input, joined>>
        ELSE /\ parents' = [p EXCEPT ![small] = large]
             /\ sizes' = [t \in DOMAIN sizes \ {small} |->
                            IF t = large THEN sizes[ra] + sizes[rb] ELSE sizes[t]]
             /\ components' = components - 1
             /\ joined' = (joined \ {Block(a), Block(b)}) \cup {Block(a) \cup Block(b)}
             /\ UNCHANGED input
    BY <1>9 DEF Merge, R
  <2>3. CASE ra = rb
    <3> HIDE DEF p
    <3> QED BY <1>5, <2>1, <2>2, <2>3
  <2>4. CASE ra # rb
    <3> HIDE DEF p
    <3>1. Grove(p, R, sizes, joined) /\ Grown(p, sizes, r, m)
      BY <1>2, <1>3, <2>1, GroveStays
    <3>2. /\ ra \in Roots(p) /\ rb \in Roots(p)
          /\ \A t \in Roots(p) : sizes[t] = Cardinality(Tree(R, t)) /\ Cardinality(Tree(R, t)) \in Nat
      <4>1. /\ \A e \in DOMAIN p : R[e] \in Roots(p)
            /\ \A t \in Roots(p) : Cardinality(Tree(R, t)) \in Nat
        BY <3>1, TreesAre
      <4>2. a \in DOMAIN p /\ b \in DOMAIN p
        BY <2>1 DEF Elements
      <4>3. \A t \in Roots(p) : sizes[t] = Cardinality(Tree(R, t))
        BY <3>1 DEF Grove
      <4> QED BY <4>1, <4>2, <4>3
    <3>3. /\ small \in Roots(p) /\ large \in Roots(p) /\ small # large
          /\ sizes[small] <= sizes[large] /\ sizes[ra] + sizes[rb] = sizes[small] + sizes[large]
          /\ {small, large} = {ra, rb}
      BY <2>4, <3>2 DEF Kept
    <3>4. Block(a) = Tree(R, ra) /\ Block(b) = Tree(R, rb)
      <4>1. ASSUME NEW e \in Elements PROVE Block(e) = Tree(R, R[e])
        <5>1. /\ Tree(R, R[e]) \in joined /\ e \in Tree(R, R[e])
              /\ \A s \in joined : e \in s => s = Tree(R, R[e])
          BY <1>2, <1>3, TreesAre DEF Elements
        <5> QED BY <5>1 DEF Block
      <4> QED BY <4>1
    <3> HIDE DEF small, large, ra, rb
    <3>5. /\ parents' = [p EXCEPT ![small] = large]
          /\ sizes' = [t \in DOMAIN sizes \ {small} |->
                         IF t = large THEN sizes[small] + sizes[large] ELSE sizes[t]]
          /\ joined' = (joined \ {Tree(R, small), Tree(R, large)}) \cup {Tree(R, small) \cup Tree(R, large)}
          /\ components' = components - 1 /\ input' = input
      <4>1. /\ {Tree(R, small), Tree(R, large)} = {Tree(R, ra), Tree(R, rb)}
            /\ Tree(R, small) \cup Tree(R, large) = Tree(R, ra) \cup Tree(R, rb)
        BY <3>3
      <4> QED BY <2>2, <2>4, <3>3, <3>4, <4>1
    <3>6. /\ DOMAIN parents' = DOMAIN p
          /\ \E N : Grove(parents', N, sizes', joined')
          /\ \E s : Grown(parents', sizes', s, m + 1)
          /\ Cardinality(joined') = Cardinality(joined) - 1
      <4>1. Summed(sizes, small, large, sizes')
        BY <3>5 DEF Summed
      <4>2. Hung(p, small, large, parents')
        <5>1. p \in [DOMAIN p -> DOMAIN p]
          BY <2>1 DEF Ranked
        <5> QED BY <3>3, <3>5, <5>1 DEF Hung, Roots
      <4>3. United(joined, R, small, large, joined')
        BY <3>5 DEF United
      <4>4. small \in Roots(p) /\ large \in Roots(p) /\ small # large /\ sizes[small] <= sizes[large]
        BY <3>3
      <4> HIDE DEF R
      <4> QED BY <3>1, <4>1, <4>2, <4>3, <4>4, GroveJoins
    <3>7. PICK N : Grove(parents', N, sizes', joined')
      BY <3>6
    <3>8. PICK s : Grown(parents', sizes', s, m + 1)
      BY <3>6
    <3>9. Rep(parents') = N
      BY <3>7, <3>8, RepIs DEF Grove, Grown
    <3>10. Elements' = Elements /\ m + 1 \in Nat
      BY <2>1, <3>6 DEF Elements
    <3>11. Cardinality(joined) \in Nat /\ IsFiniteSet(Elements)
      BY <1>2, <1>3, TreesAre DEF Grove, Elements
    <3>12. Cardinality(Elements) \in Nat
      BY <3>11, FS_CardinalityType
    <3>13. components' = Cardinality(joined') + Len(input') - Cardinality(Elements')
      BY <1>4, <3>5, <3>6, <3>10, <3>11, <3>12
    <3> QED BY <1>4, <3>5, <3>7, <3>8, <3>9, <3>10, <3>13 DEF ForestInv
  <2> QED BY <2>3, <2>4
<1>10. CASE UNCHANGED forestVars
  BY <1>10 DEF forestVars, ForestInv, Elements, Grove, Grown
<1> QED BY <1>7, <1>8, <1>9, <1>10 DEF ForestNext

(* The trees of UnionFind are the sets that the calls have joined, with     *)
(* their sizes at the roots, and no search takes more steps than the       *)
(* logarithm of the set's size (datastruct.hpp:246-251, :277).             *)
THEOREM SetsKept ==
  ASSUME ForestAssumptions
  PROVE  ForestSpec => []Partition
<1>1. ForestInit => ForestInv
  <2> SUFFICES ASSUME ForestInit PROVE ForestInv
    OBVIOUS
  <2> DEFINE E == ToSet(input)
  <2>1. input \in Seq(E) /\ Len(input) \in Nat /\ IsFiniteSet(E)
    <3>1. input \in Seq(E) /\ Len(input) \in Nat /\ E = {input[i] : i \in 1 .. Len(input)}
      BY DEF ForestInit, ForestAssumptions, ToSet
    <3> DEFINE g == [i \in 1 .. Len(input) |-> input[i]]
    <3>2. g \in Surjection(1 .. Len(input), E)
      BY <3>1 DEF Surjection
    <3>3. IsFiniteSet(1 .. Len(input))
      BY <3>1, FS_Interval
    <3> HIDE DEF g, E
    <3>4. IsFiniteSet(E)
      BY <3>2, <3>3, FS_Surjection
    <3> QED BY <3>1, <3>4
  <2>2. /\ parents = [e \in E |-> e] /\ sizes = [e \in E |-> 1]
        /\ components = Len(input) /\ joined = {{e} : e \in E}
    BY DEF ForestInit
  <2> HIDE DEF E
  <2> DEFINE r == [e \in E |-> 0]
  <2>3. Climbs(parents, parents) /\ Ranked(parents, r, 0)
    BY <2>2 DEF Climbs, Ranked
  <2>4. Rep(parents) = parents
    BY <2>3, RepIs
  <2>5. Roots(parents) = E /\ \A t \in E : Tree(parents, t) = {t}
    BY <2>2 DEF Roots, Tree
  <2>6. \A t \in E : Cardinality({t}) = 1
    BY FS_Singleton
  <2>7. Grove(parents, parents, sizes, joined)
    BY <2>1, <2>2, <2>3, <2>5, <2>6 DEF Grove
  <2>8. Grown(parents, sizes, r, 0)
    <3>1. \A t \in E : r[t] = 0 /\ sizes[t] = 1
      BY <2>2
    <3>2. TwoTo[0] = 1
      BY TwoToIs
    <3> HIDE DEF r
    <3> QED BY <2>3, <2>5, <3>1, <3>2 DEF Grown
  <2>9. Cardinality(joined) = Cardinality(E) /\ Cardinality(E) \in Nat
    <3> DEFINE g == [e \in E |-> {e}]
    <3>1. g \in Surjection(E, joined) /\ g \in Injection(E, joined)
      BY <2>2 DEF Surjection, Injection, IsInjective
    <3> HIDE DEF g
    <3> QED BY <2>1, <3>1, FS_Surjection, FS_CardinalityType
  <2>10. components = Cardinality(joined) + Len(input) - Cardinality(Elements)
    BY <2>1, <2>2, <2>9 DEF Elements
  <2> HIDE DEF r
  <2> QED BY <2>1, <2>4, <2>7, <2>8, <2>10 DEF ForestInv
<1>2. ForestInv /\ [ForestNext]_forestVars => ForestInv'
  BY ForestHolds
<1>3. ForestInv => Partition
  <2> SUFFICES ASSUME ForestInv PROVE Partition
    OBVIOUS
  <2>1. PICK m \in Nat : \E r : Grown(parents, sizes, r, m)
    BY DEF ForestInv
  <2>2. PICK r : Grown(parents, sizes, r, m)
    BY <2>1
  <2> DEFINE R == Rep(parents)
  <2>3. Grove(parents, R, sizes, joined) /\ Ranked(parents, r, m) /\ Climbs(parents, R)
    BY <2>2 DEF ForestInv, Grove, Grown
  <2>4. components = Cardinality(joined) + Len(input) - Cardinality(Elements)
    BY DEF ForestInv
  <2> HIDE DEF R
  <2>5. ASSUME NEW e \in Elements
        PROVE  R[e] \in Roots(parents) /\ Block(e) = Tree(R, R[e]) /\ e \in Tree(R, R[e])
    <3>1. /\ R[e] \in Roots(parents) /\ Tree(R, R[e]) \in joined /\ e \in Tree(R, R[e])
          /\ \A s \in joined : e \in s => s = Tree(R, R[e])
      BY <2>2, <2>3, TreesAre DEF Elements
    <3> QED BY <3>1 DEF Block
  <2>6. \A a, b \in Elements : R[a] = R[b] <=> Block(a) = Block(b)
    BY <2>5 DEF Tree
  <2>7. DOMAIN sizes = {R[e] : e \in Elements}
    <3>1. DOMAIN sizes = Roots(parents) /\ \A t \in Roots(parents) : R[t] = t /\ t \in Elements
      BY ZenonT(60), <2>2, <2>3, TreesAre DEF Grove, Roots, Elements
    <3> QED BY <2>5, <3>1
  <2>8. \A e \in Elements : sizes[R[e]] = Cardinality(Block(e))
    BY <2>3, <2>5 DEF Grove
  <2>9. ASSUME NEW e \in Elements PROVE TwoTo[Depth(parents)[e]] <= sizes[R[e]]
    <3>1. Depth(parents)[e] \in Nat /\ Depth(parents)[e] + r[e] <= r[R[e]]
      BY <2>3, DepthIs DEF Elements
    <3>2. r[e] \in Nat /\ r[R[e]] \in Nat /\ R[e] \in Roots(parents)
      BY <2>3, <2>5 DEF Ranked, Climbs, Elements
    <3>3. Depth(parents)[e] <= r[R[e]]
      BY <3>1, <3>2
    <3>4. TwoTo[Depth(parents)[e]] <= TwoTo[r[R[e]]]
      BY <3>1, <3>2, <3>3, TwoToGrows
    <3>5. TwoTo[r[R[e]]] <= sizes[R[e]]
      BY <2>2, <3>2 DEF Grown
    <3>6. sizes[R[e]] \in Nat
      <4>1. \A t \in Roots(parents) : Cardinality(Tree(R, t)) \in Nat
        BY <2>2, <2>3, TreesAre
      <4> QED BY <2>3, <3>2, <4>1 DEF Grove
    <3>7. TwoTo[Depth(parents)[e]] \in Nat /\ TwoTo[r[R[e]]] \in Nat
      BY <3>1, <3>2, TwoToIs
    <3> QED BY <3>4, <3>5, <3>6, <3>7
  <2> QED BY <2>4, <2>6, <2>7, <2>8, <2>9 DEF Partition, R
<1> QED BY <1>1, <1>2, <1>3, PTL DEF ForestSpec

-----------------------------------------------------------------------------
(* lookup of a TransformBuffer *)

(* The frames from one to its root, by the edges.                          *)
Path(s) ==
  /\ s \in Seq(Frames) /\ Len(s) # 0 /\ s[Len(s)] \notin DOMAIN edges
  /\ \A i \in 1 .. Len(s) - 1 : s[i] \in DOMAIN edges /\ s[i + 1] = edges[s[i]].parent

(* What follows i in s is what follows j in r.                             *)
Shifted(s, i, r, j) ==
  Len(s) - i = Len(r) - j /\ \A k \in Nat : i + k <= Len(s) => s[i + k] = r[j + k]

LEMMA PathsJoin ==
  ASSUME NEW s, Path(s), NEW r, Path(r), NEW i \in 1 .. Len(s), NEW j \in 1 .. Len(r), s[i] = r[j]
  PROVE  Shifted(s, i, r, j)
<1> DEFINE T == {k \in Nat : i + k <= Len(s) => j + k <= Len(r) /\ s[i + k] = r[j + k]}
<1>1. Len(s) \in Nat /\ Len(r) \in Nat
  BY DEF Path
<1>2. 0 \in T
  BY <1>1
<1>3. ASSUME NEW k \in Nat, k \in T PROVE k + 1 \in T
  <2> SUFFICES ASSUME i + k + 1 <= Len(s) PROVE j + k + 1 <= Len(r) /\ s[i + k + 1] = r[j + k + 1]
    OBVIOUS
  <2>1. s[i + k] = r[j + k] /\ j + k <= Len(r)
    BY <1>1, <1>3
  <2>2. s[i + k] \in DOMAIN edges /\ s[i + k + 1] = edges[s[i + k]].parent
    <3>1. i + k \in 1 .. Len(s) - 1
      BY <1>1
    <3> QED BY <3>1 DEF Path
  <2>3. j + k # Len(r)
    BY <2>1, <2>2 DEF Path
  <2>4. j + k \in 1 .. Len(r) - 1
    BY <1>1, <2>1, <2>3
  <2>5. r[j + k + 1] = edges[r[j + k]].parent
    BY <2>4 DEF Path
  <2> QED BY <1>1, <2>1, <2>2, <2>4, <2>5
<1>4. \A k \in Nat : k \in T
  <2> HIDE DEF T
  <2> QED BY <1>2, <1>3, SetInduction
<1>5. j + (Len(s) - i) <= Len(r) /\ s[Len(s)] = r[j + (Len(s) - i)]
  <2>1. Len(s) - i \in Nat /\ i + (Len(s) - i) = Len(s)
    BY <1>1
  <2>2. Len(s) - i \in T
    BY <1>4, <2>1
  <2> QED BY <1>1, <2>1, <2>2
<1>6. j + (Len(s) - i) = Len(r)
  <2> DEFINE n == j + (Len(s) - i)
  <2>1. n \in 1 .. Len(r)
    BY <1>1, <1>5
  <2>2. r[n] \notin DOMAIN edges
    BY <1>5 DEF Path
  <2> HIDE DEF n
  <2>3. n = Len(r)
    BY <1>1, <2>1, <2>2 DEF Path
  <2> QED BY <2>3 DEF n
<1>7. Len(s) - i = Len(r) - j
  BY <1>1, <1>6
<1>8. \A k \in Nat : i + k <= Len(s) => s[i + k] = r[j + k]
  BY <1>4
<1> QED BY <1>7, <1>8 DEF Shifted

LEMMA PathStarts ==
  ASSUME NEW s, Path(s), NEW e \in DOMAIN edges, s[1] = e
  PROVE  Len(s) # 1 /\ s[2] = edges[e].parent
<1>1. Len(s) \in Nat /\ Len(s) # 0 /\ Len(s) # 1
  <2>1. Len(s) \in Nat /\ Len(s) # 0 /\ s[Len(s)] \notin DOMAIN edges
    BY DEF Path
  <2>2. ASSUME Len(s) = 1 PROVE FALSE
    <3>1. s[Len(s)] = s[1]
      BY <2>2
    <3> QED BY <2>1, <3>1
  <2> QED BY <2>1, <2>2
<1> DEFINE i == 1
           n == Len(s)
<1>2. n \in Nat /\ n # 0 /\ n # 1
  BY <1>1
<1> HIDE DEF n
<1>3. i \in 1 .. n - 1
  BY <1>2
<1>4. i + 1 = 2
  OBVIOUS
<1> HIDE DEF i
<1>5. s[i + 1] = edges[s[i]].parent
  BY <1>3 DEF Path, n
<1>6. s[2] = edges[e].parent
  <2>1. s[i] = e
    BY DEF i
  <2> QED BY <1>4, <1>5, <2>1
<1> QED BY <1>1, <1>6

LEMMA PathOnce ==
  ASSUME NEW s, Path(s), NEW i \in 1 .. Len(s), NEW j \in 1 .. Len(s), s[i] = s[j]
  PROVE  i = j
<1>1. Shifted(s, i, s, j)
  BY PathsJoin
<1>2. Len(s) \in Nat
  BY DEF Path
<1> QED BY <1>1, <1>2 DEF Shifted

(* Steps towards a root from within a set of frames leave it.              *)
LEMMA WalkOnce ==
  ASSUME Forest, NEW n \in Nat, NEW w \in [1 .. n -> Frames],
         \A k \in 1 .. n - 1 : w[k] \in DOMAIN edges /\ w[k + 1] = edges[w[k]].parent,
         NEW i \in 1 .. n, NEW j \in 1 .. n, i < j
  PROVE  w[i] # w[j]
<1> SUFFICES ASSUME w[i] = w[j] PROVE FALSE
  OBVIOUS
<1> DEFINE S == {w[k] : k \in i .. j - 1}
<1>1. \A k \in i .. j - 1 : k \in 1 .. n - 1 /\ w[k] \in Frames
  OBVIOUS
<1>2. S \in SUBSET Frames /\ S # {}
  <2>1. w[i] \in S
    OBVIOUS
  <2> QED BY <1>1, <2>1
<1>3. PICK x \in S : x \in DOMAIN edges => edges[x].parent \notin S
  <2> HIDE DEF S
  <2> QED BY <1>2 DEF Forest
<1>4. PICK k \in i .. j - 1 : x = w[k]
  OBVIOUS
<1>5. w[k + 1] \notin S
  BY <1>1, <1>3, <1>4
<1>6. k + 1 \in i .. j - 1 \/ k + 1 = j
  OBVIOUS
<1>7. w[k + 1] \in S
  <2>1. CASE k + 1 \in i .. j - 1
    BY <2>1
  <2>2. CASE k + 1 = j
    <3>1. w[k + 1] = w[i] /\ i \in i .. j - 1
      BY <2>2
    <3> QED BY <3>1
  <2> QED BY <1>6, <2>1, <2>2
<1> QED BY <1>5, <1>7

LEMMA ChainIs ==
  ASSUME TypeOK, Forest, NEW f \in Frames
  PROVE  /\ Path(Chain(f)) /\ Chain(f)[1] = f /\ Len(Chain(f)) <= Cardinality(Frames)
         /\ Cardinality(Frames) \in Nat
<1> DEFINE N == Cardinality(Frames)
           Next1(g) == IF g \in DOMAIN edges THEN edges[g].parent ELSE g
           Eq(h) == h = [n \in 1 .. N |-> IF n = 1 THEN f ELSE Next1(h[n - 1])]
           up == CHOOSE h : Eq(h)
           roots == {n \in DOMAIN up : up[n] \notin DOMAIN edges}
           root == Min(roots)
           step == [i \in 1 .. N |-> [g \in Frames |-> Next1(g)]]
<1>1. N \in Nat /\ N # 0
  <2>1. IsFiniteSet(Frames)
    BY FramesAssumption
  <2> QED BY <2>1, FS_CardinalityType, FS_EmptySet
<1>2. \A g \in Frames : Next1(g) \in Frames
  BY DEF TypeOK, Typed
<1>3. \E h : Eq(h)
  <2>1. step \in [1 .. N -> [Frames -> Frames]]
    BY <1>2
  <2>2. \A i \in 1 .. N, g \in Frames : step[i][g] = Next1(g)
    OBVIOUS
  <2> HIDE DEF step, Next1
  <2>3. PICK g : Follows(g, N, Frames, f, step)
    BY <1>1, <2>1, Recursion
  <2> DEFINE h == [n \in 1 .. N |-> g[n - 1]]
  <2>4. ASSUME NEW n \in 1 .. N PROVE h[n] = IF n = 1 THEN f ELSE Next1(h[n - 1])
    <3>1. n - 1 \in 0 .. N /\ (n # 1 => n - 1 # 0 /\ n - 1 \in 1 .. N /\ n - 1 - 1 \in 0 .. N)
      BY <1>1
    <3>2. CASE n = 1
      BY <2>3, <3>1, <3>2 DEF Follows
    <3>3. CASE n # 1
      <4>1. g[n - 1] = step[n - 1][g[n - 1 - 1]] /\ g[n - 1 - 1] \in Frames
        BY <2>3, <3>1, <3>3 DEF Follows
      <4>2. g[n - 1] = Next1(g[n - 1 - 1])
        BY <2>2, <3>1, <3>3, <4>1
      <4> QED BY <3>1, <3>3, <4>2
    <3> QED BY <3>2, <3>3
  <2>5. Eq(h)
    <3>1. h = [n \in 1 .. N |-> h[n]]
      OBVIOUS
    <3> HIDE DEF h
    <3> QED BY <2>4, <3>1
  <2> HIDE DEF Eq
  <2> QED BY <2>5
<1>4. Eq(up)
  <2> HIDE DEF Eq
  <2> QED BY <1>3
<1> HIDE DEF up
<1>5. /\ DOMAIN up = 1 .. N
      /\ \A n \in 1 .. N : up[n] = IF n = 1 THEN f ELSE Next1(up[n - 1])
  <2> HIDE DEF Next1
  <2> QED BY <1>4
<1> HIDE DEF Eq
<1>6. \A n \in 1 .. N : up[n] \in Frames
  <2> DEFINE T == {k \in Nat : k + 1 <= N => up[k + 1] \in Frames}
  <2> HIDE DEF Next1
  <2>1. 0 \in T
    <3>1. 1 \in 1 .. N
      BY <1>1
    <3> QED BY <1>5, <3>1
  <2>2. ASSUME NEW k \in Nat, k \in T PROVE k + 1 \in T
    <3> SUFFICES ASSUME k + 1 + 1 <= N PROVE up[k + 1 + 1] \in Frames
      OBVIOUS
    <3> DEFINE j == k + 1 + 1
    <3>1. j \in 1 .. N /\ j # 1 /\ j - 1 = k + 1 /\ up[k + 1] \in Frames
      BY <1>1, <2>2
    <3> HIDE DEF j
    <3>2. up[j] \in Frames
      BY <1>2, <1>5, <3>1
    <3> QED BY <3>2 DEF j
  <2> HIDE DEF T
  <2>3. Nat \subseteq T
    BY <2>1, <2>2, SetInduction
  <2> USE DEF T
  <2>4. ASSUME NEW n \in 1 .. N PROVE up[n] \in Frames
    <3>1. n - 1 \in Nat /\ n - 1 + 1 = n
      BY <1>1
    <3>2. n - 1 \in T
      <4> HIDE DEF T
      <4> QED BY <2>3, <3>1
    <3> QED BY <1>1, <3>1, <3>2
  <2> QED BY <2>4
<1>7. up \in Seq(Frames) /\ Len(up) = N
  <2>1. up = [n \in 1 .. N |-> up[n]]
    BY <1>4 DEF Eq
  <2> QED BY <1>1, <1>6, <2>1
<1>8. roots # {}
  <2> SUFFICES ASSUME roots = {} PROVE FALSE
    OBVIOUS
  <2>1. \A n \in 1 .. N : up[n] \in DOMAIN edges
    BY <1>5
  <2> DEFINE w == [n \in 1 .. N + 1 |-> IF n = N + 1 THEN Next1(up[N]) ELSE up[n]]
  <2>2. N \in 1 .. N /\ Next1(up[N]) \in Frames
    BY <1>1, <1>2, <1>6
  <2>3. w \in [1 .. N + 1 -> Frames]
    BY <1>6, <2>2
  <2>4. \A k \in 1 .. N : k \in 1 .. N + 1 /\ k + 1 \in 1 .. N + 1 /\ k # N + 1 /\ w[k] = up[k]
    BY <1>1
  <2>5. ASSUME NEW k \in 1 .. N PROVE w[k] \in DOMAIN edges /\ w[k + 1] = edges[w[k]].parent
    <3>1. w[k] = up[k] /\ up[k] \in DOMAIN edges
      BY <2>1, <2>4
    <3>2. w[k + 1] = Next1(up[k])
      <4>1. CASE k = N
        BY <1>1, <4>1
      <4>2. CASE k # N
        <5>1. k + 1 \in 1 .. N /\ k + 1 # 1 /\ k + 1 - 1 = k
          BY <1>1, <4>2
        <5>2. up[k + 1] = Next1(up[k])
          BY <1>5, <5>1
        <5> QED BY <2>4, <5>1, <5>2
      <4> QED BY <4>1, <4>2
    <3> QED BY <3>1, <3>2
  <2> HIDE DEF w, Next1
  <2> DEFINE m == N + 1
  <2>6. /\ IsFiniteSet(Frames) /\ IsFiniteSet(1 .. m) /\ Cardinality(Frames) < Cardinality(1 .. m)
        /\ w \in [1 .. m -> Frames]
    <3>1. m \in Int /\ 1 \in Int /\ 1 <= m
      BY <1>1
    <3>2. IsFiniteSet(1 .. m) /\ Cardinality(1 .. m) = m - 1 + 1
      <4> HIDE DEF m
      <4> QED BY <3>1, FS_Interval
    <3>3. IsFiniteSet(Frames)
      BY FramesAssumption
    <3> QED BY <1>1, <2>3, <3>2, <3>3
  <2>7. PICK x, y \in 1 .. m : x # y /\ w[x] = w[y]
    <3> DEFINE M == 1 .. m
    <3>1. IsFiniteSet(M) /\ Cardinality(Frames) < Cardinality(M) /\ w \in [M -> Frames]
      BY <2>6
    <3> HIDE DEF M, w
    <3>2. \E x, y \in M : x # y /\ w[x] = w[y]
      <4>1. \A S, T, h : /\ IsFiniteSet(S) /\ IsFiniteSet(T) /\ Cardinality(T) < Cardinality(S)
                        /\ h \in [S -> T]
                        => \E x, y \in S : x # y /\ h[x] = h[y]
        BY FS_PigeonHole
      <4>2. IsFiniteSet(Frames)
        BY <2>6
      <4> QED BY <3>1, <4>1, <4>2
    <3> QED BY <3>2 DEF M
  <2>8. m \in Nat /\ m - 1 = N
    BY <1>1
  <2>9. \A i, j \in 1 .. m : i < j => w[i] # w[j]
    <3>1. \A k \in 1 .. m - 1 : w[k] \in DOMAIN edges /\ w[k + 1] = edges[w[k]].parent
      BY <2>5, <2>8
    <3> HIDE DEF m
    <3> QED BY <2>6, <2>8, <3>1, WalkOnce
  <2>10. x < y \/ y < x
    BY <2>7
  <2> QED BY <2>7, <2>9, <2>10
<1>9. root \in roots /\ \A n \in roots : root <= n
  <2>1. roots \subseteq Nat
    BY <1>1, <1>5
  <2>2. PICK k \in roots : \A m \in roots : k <= m
    BY <1>8, <2>1, LeastNat
  <2> HIDE DEF roots
  <2> QED BY <2>2 DEF Min
<1>10. Chain(f) = SubSeq(up, 1, root)
  BY DEF Chain, up, Eq
<1> DEFINE s == SubSeq(up, 1, root)
<1>11. root \in 1 .. N /\ up[root] \notin DOMAIN edges
  BY <1>5, <1>9
<1> HIDE DEF root
<1>12. /\ s \in Seq(Frames) /\ Len(s) = root
       /\ \A i \in 1 .. root : s[i] = up[i]
  BY <1>1, <1>7, <1>11
<1> HIDE DEF s
<1>13. ASSUME NEW i \in 1 .. root - 1 PROVE s[i] \in DOMAIN edges /\ s[i + 1] = edges[s[i]].parent
  <2>1. /\ i \in 1 .. root /\ i + 1 \in 1 .. root /\ i \in 1 .. N /\ i + 1 \in 1 .. N
        /\ i + 1 # 1 /\ i + 1 - 1 = i /\ ~(root <= i)
    BY <1>1, <1>11
  <2>2. up[i] \in DOMAIN edges
    BY <1>5, <1>9, <2>1
  <2>3. up[i + 1] = Next1(up[i])
    <3> HIDE DEF Next1
    <3> QED BY <1>5, <2>1
  <2> QED BY <1>12, <2>1, <2>2, <2>3
<1>14. s[1] = f
  <2>1. 1 \in 1 .. root /\ 1 \in 1 .. N
    BY <1>1, <1>11
  <2> QED BY <1>5, <1>12, <2>1
<1>15. Path(s)
  BY <1>11, <1>12, <1>13 DEF Path
<1> QED BY <1>1, <1>10, <1>11, <1>12, <1>14, <1>15 DEF s

-----------------------------------------------------------------------------
(* Two paths of a lookup *)

(* The first frame of r that is in s is the u-th of s and the d-th of r.   *)
Meet(s, r, u, d) ==
  /\ u \in 1 .. Len(s) /\ d \in 1 .. Len(r) /\ s[u] = r[d]
  /\ \A n \in 1 .. Len(r) : r[n] \in ToSet(s) => d <= n

LEMMA PrefixIs ==
  ASSUME NEW s, Path(s), NEW u \in 1 .. Len(s)
  PROVE  /\ SubSeq(s, 1, u - 1) \in Seq(Frames) /\ Len(SubSeq(s, 1, u - 1)) = u - 1
         /\ \A i \in 1 .. u - 1 : SubSeq(s, 1, u - 1)[i] = s[i]
         /\ ToSet(SubSeq(s, 1, u - 1)) = {s[i] : i \in 1 .. u - 1}
<1>1. s \in Seq(Frames) /\ u - 1 \in 0 .. Len(s) /\ 1 \in 1 .. (u - 1) + 1
  BY DEF Path
<1> DEFINE w == SubSeq(s, 1, u - 1)
<1>2. w \in Seq(Frames) /\ Len(w) = u - 1 /\ \A i \in 1 .. u - 1 : w[i] = s[i]
  BY <1>1
<1>3. ToSet(w) = {s[i] : i \in 1 .. u - 1}
  <2>1. DOMAIN w = 1 .. u - 1
    BY <1>2
  <2> HIDE DEF w
  <2> QED BY <1>2, <2>1 DEF ToSet
<1> QED BY <1>2, <1>3

(* What is before the frame where they meet is in one of them only.        *)
LEMMA Apart ==
  ASSUME NEW s, Path(s), NEW r, Path(r), NEW u, NEW d, Meet(s, r, u, d)
  PROVE  /\ {s[i] : i \in 1 .. u - 1} = ToSet(s) \ ToSet(r)
         /\ {r[i] : i \in 1 .. d - 1} = ToSet(r) \ ToSet(s)
<1>1. /\ Len(s) \in Nat /\ Len(r) \in Nat /\ u \in 1 .. Len(s) /\ d \in 1 .. Len(r)
      /\ ToSet(s) = {s[i] : i \in 1 .. Len(s)} /\ ToSet(r) = {r[i] : i \in 1 .. Len(r)}
  BY DEF Path, Meet, ToSet
<1>2. Shifted(s, u, r, d) /\ Len(s) - u = Len(r) - d
  <2>1. Shifted(s, u, r, d)
    BY <1>1, PathsJoin DEF Meet
  <2> QED BY <2>1 DEF Shifted
<1>3. ASSUME NEW i \in 1 .. u - 1 PROVE s[i] \in ToSet(s) /\ s[i] \notin ToSet(r)
  <2>1. i \in 1 .. Len(s)
    BY <1>1
  <2> SUFFICES ASSUME NEW n \in 1 .. Len(r), s[i] = r[n] PROVE FALSE
    BY <1>1, <2>1
  <2>2. d <= n
    BY <1>1, <2>1 DEF Meet
  <2>3. Len(s) - i = Len(r) - n
    BY <2>1, PathsJoin DEF Shifted
  <2> QED BY <1>1, <1>2, <2>2, <2>3
<1>4. ASSUME NEW n \in 1 .. d - 1 PROVE r[n] \in ToSet(r) /\ r[n] \notin ToSet(s)
  <2>1. n \in 1 .. Len(r) /\ ~(d <= n)
    BY <1>1
  <2> QED BY <1>1, <2>1 DEF Meet
<1>5. ASSUME NEW i \in 1 .. Len(s), s[i] \notin ToSet(r) PROVE i \in 1 .. u - 1
  <2> SUFFICES ASSUME u <= i PROVE FALSE
    BY <1>1
  <2>1. i - u \in Nat /\ u + (i - u) = i /\ d + (i - u) \in 1 .. Len(r)
    BY <1>1, <1>2
  <2>2. s[i] = r[d + (i - u)]
    <3> DEFINE k == i - u
    <3>1. k \in Nat /\ u + k = i /\ u + k <= Len(s)
      BY <1>1, <2>1
    <3> HIDE DEF k
    <3>2. s[u + k] = r[d + k]
      BY <1>2, <3>1 DEF Shifted
    <3> QED BY <3>1, <3>2 DEF k
  <2> QED BY <1>1, <1>5, <2>1, <2>2
<1>6. ASSUME NEW n \in 1 .. Len(r), r[n] \notin ToSet(s) PROVE n \in 1 .. d - 1
  <2> SUFFICES ASSUME d <= n PROVE FALSE
    BY <1>1
  <2>1. n - d \in Nat /\ d + (n - d) = n /\ u + (n - d) \in 1 .. Len(s)
    BY <1>1, <1>2
  <2>2. r[n] = s[u + (n - d)]
    <3> DEFINE k == n - d
    <3>1. k \in Nat /\ d + k = n /\ u + k <= Len(s)
      BY <1>1, <2>1
    <3> HIDE DEF k
    <3>2. s[u + k] = r[d + k]
      BY <1>2, <3>1 DEF Shifted
    <3> QED BY <3>1, <3>2 DEF k
  <2> QED BY <1>1, <1>6, <2>1, <2>2
<1>7. {s[i] : i \in 1 .. u - 1} = ToSet(s) \ ToSet(r)
  BY <1>1, <1>3, <1>5
<1>8. {r[i] : i \in 1 .. d - 1} = ToSet(r) \ ToSet(s)
  BY <1>1, <1>4, <1>6
<1> QED BY Zenon, <1>7, <1>8

(* Paths meet if they end in the same root.                                *)
LEMMA Rooted ==
  ASSUME NEW s, Path(s), NEW r, Path(r)
  PROVE  (\E n \in 1 .. Len(r) : r[n] \in ToSet(s)) <=> s[Len(s)] = r[Len(r)]
<1>1. /\ Len(s) \in Nat /\ Len(r) \in Nat /\ Len(s) \in 1 .. Len(s) /\ Len(r) \in 1 .. Len(r)
      /\ ToSet(s) = {s[i] : i \in 1 .. Len(s)}
  BY DEF Path, ToSet
<1>2. ASSUME NEW n \in 1 .. Len(r), r[n] \in ToSet(s) PROVE s[Len(s)] = r[Len(r)]
  <2>1. PICK i \in 1 .. Len(s) : s[i] = r[n]
    BY <1>1, <1>2
  <2>2. Shifted(s, i, r, n)
    BY <2>1, PathsJoin
  <2> DEFINE k == Len(s) - i
  <2>3. k \in Nat /\ i + k = Len(s) /\ n + k = Len(r)
    BY <1>1, <2>2 DEF Shifted
  <2> HIDE DEF k
  <2> QED BY <1>1, <2>2, <2>3 DEF Shifted
<1> QED BY <1>1, <1>2

-----------------------------------------------------------------------------
(* Times of a history *)

LEMMA FiniteBound ==
  ASSUME NEW S, IsFiniteSet(S), S \subseteq Int
  PROVE  \E b \in Int : \A x \in S : x <= b
<1>1. PICK n \in Nat : ExistsBijection(1 .. n, S)
  BY FS_NatBijection
<1>2. PICK f : f \in Bijection(1 .. n, S)
  BY <1>1 DEF ExistsBijection
<1>3. f \in [1 .. n -> S] /\ \A x \in S : \E i \in 1 .. n : f[i] = x
  BY <1>2 DEF Bijection, Surjection
<1>8. \A i \in 1 .. n : f[i] \in Int
  BY <1>3
<1> DEFINE T == {k \in Nat : k <= n => \E b \in Int : \A i \in 1 .. k : f[i] <= b}
<1>4. 0 \in T
  <2>1. 0 \in Int /\ 1 .. 0 = {}
    OBVIOUS
  <2> QED BY <2>1
<1>5. ASSUME NEW k \in Nat, k \in T PROVE k + 1 \in T
  <2> SUFFICES ASSUME k + 1 <= n PROVE \E b \in Int : \A i \in 1 .. k + 1 : f[i] <= b
    OBVIOUS
  <2>1. PICK b \in Int : \A i \in 1 .. k : f[i] <= b
    BY <1>5
  <2>2. f[k + 1] \in Int
    <3>1. k + 1 \in 1 .. n
      OBVIOUS
    <3> QED BY <1>8, <3>1
  <2>3. PICK m \in Int : b <= m /\ f[k + 1] <= m
    BY <2>2
  <2>4. \A i \in 1 .. k + 1 : f[i] <= m
    <3> TAKE i \in 1 .. k + 1
    <3>1. i = k + 1 \/ i \in 1 .. k
      OBVIOUS
    <3>2. i \in 1 .. n /\ f[i] \in Int
      <4>1. i \in 1 .. n
        OBVIOUS
      <4> QED BY <1>8, <4>1
    <3> QED BY <2>1, <2>3, <3>1, <3>2
  <2> QED BY <2>4
<1> HIDE DEF T
<1>6. n \in T
  BY <1>4, <1>5, SetInduction
<1>7. PICK b \in Int : \A i \in 1 .. n : f[i] <= b
  BY <1>6 DEF T
<1> QED BY <1>3, <1>7

LEMMA ExtremesAre ==
  ASSUME NEW S, IsFiniteSet(S), S \subseteq Times, S # {}
  PROVE  /\ Max(S) \in S /\ \A x \in S : x <= Max(S)
         /\ Min(S) \in S /\ \A x \in S : Min(S) <= x
<1>1. S \subseteq Int /\ Past \in Int /\ \A x \in S : Past <= x
  BY PastAssumption DEF Times
<1>2. \E x \in S : \A y \in S : x >= y
  <2>1. PICK b \in Int : \A x \in S : x <= b
    BY <1>1, FiniteBound
  <2> DEFINE T == {b - x : x \in S}
  <2>2. T \subseteq Nat /\ T # {}
    <3>1. \A x \in S : b - x \in Nat
      BY <1>1, <2>1
    <3> QED BY <3>1
  <2>3. PICK k \in T : \A m \in T : k <= m
    BY <2>2, LeastNat
  <2>4. PICK x \in S : k = b - x
    OBVIOUS
  <2>5. \A y \in S : x >= y
    <3> TAKE y \in S
    <3>1. b - y \in T
      OBVIOUS
    <3> HIDE DEF T
    <3>2. b - x <= b - y
      BY <2>3, <2>4, <3>1
    <3> QED BY <1>1, <3>2
  <2> QED BY <2>5
<1>3. \E x \in S : \A y \in S : x =< y
  <2> DEFINE T == {x - Past : x \in S}
  <2>2. T \subseteq Nat /\ T # {}
    <3>1. \A x \in S : x - Past \in Nat
      BY <1>1
    <3> QED BY <3>1
  <2>3. PICK k \in T : \A m \in T : k <= m
    BY <2>2, LeastNat
  <2>4. PICK x \in S : k = x - Past
    OBVIOUS
  <2>5. \A y \in S : x =< y
    <3> TAKE y \in S
    <3>1. y - Past \in T
      OBVIOUS
    <3> HIDE DEF T
    <3>2. x - Past <= y - Past
      BY <2>3, <2>4, <3>1
    <3> QED BY <1>1, <3>2
  <2> QED BY <2>5
<1>4. Max(S) \in S /\ \A y \in S : Max(S) >= y
  BY <1>2, Zenon DEF Max
<1>5. Min(S) \in S /\ \A y \in S : Min(S) =< y
  BY <1>3, Zenon DEF Min
<1> QED BY <1>1, <1>4, <1>5

-----------------------------------------------------------------------------
(* Poses *)

(* Poses, and what they are composed to, are in a group.                   *)
PosesIn(G) ==
  /\ Poses \subseteq G /\ Identity \in G
  /\ \A a, b \in G : Compose(a, b) \in G
  /\ \A a, b, x \in G : Compose(Compose(a, b), x) = Compose(a, Compose(b, x))
  /\ \A a \in G :
       /\ Compose(Identity, a) = a /\ Compose(a, Identity) = a
       /\ Inverted(a) \in G
       /\ Compose(Inverted(a), a) = Identity /\ Compose(a, Inverted(a)) = Identity
  /\ \A x, y \in [time : Times, pose : Poses], t \in Times :
       x.time < t /\ t < y.time => Between(x, y, t) \in G

LEMMA Regrouped ==
  ASSUME NEW G, PosesIn(G), NEW a \in G, NEW b \in G, NEW x \in G
  PROVE  Compose(Compose(a, b), x) = Compose(a, Compose(b, x))
BY DEF PosesIn

LEMMA Canceled ==
  ASSUME NEW G, PosesIn(G), NEW w \in G, NEW a \in G, NEW b \in G
  PROVE  Compose(Inverted(a), b) = Compose(Inverted(Compose(w, a)), Compose(w, b))
<1> DEFINE x == Compose(w, a)
           y == Compose(Inverted(a), b)
<1>1. x \in G /\ y \in G /\ Inverted(a) \in G /\ Inverted(x) \in G
  BY DEF PosesIn
<1>2. Compose(a, y) = b
  <2>1. Compose(Compose(a, Inverted(a)), b) = Compose(a, Compose(Inverted(a), b))
    BY <1>1 DEF PosesIn
  <2>2. Compose(a, Inverted(a)) = Identity /\ Compose(Identity, b) = b
    BY DEF PosesIn
  <2> QED BY <2>1, <2>2
<1>3. Compose(x, y) = Compose(w, b)
  <2>1. Compose(Compose(w, a), y) = Compose(w, Compose(a, y))
    BY <1>1 DEF PosesIn
  <2> QED BY <1>2, <2>1
<1>4. Compose(Inverted(x), Compose(x, y)) = y
  <2>1. Compose(Compose(Inverted(x), x), y) = Compose(Inverted(x), Compose(x, y))
    BY <1>1 DEF PosesIn
  <2>2. Compose(Inverted(x), x) = Identity /\ Compose(Identity, y) = y
    BY <1>1 DEF PosesIn
  <2> QED BY <2>1, <2>2
<1> QED BY <1>3, <1>4

(* The way from one frame over a second to a third.                        *)
LEMMA Chained ==
  ASSUME NEW G, PosesIn(G), NEW a \in G, NEW b \in G, NEW x \in G
  PROVE  Compose(Inverted(a), x) = Compose(Compose(Inverted(a), b), Compose(Inverted(b), x))
<1>1. Inverted(a) \in G /\ Inverted(b) \in G /\ Compose(Inverted(b), x) \in G
  BY DEF PosesIn
<1>2. Compose(b, Compose(Inverted(b), x)) = x
  <2>1. Compose(Compose(b, Inverted(b)), x) = Compose(b, Compose(Inverted(b), x))
    BY <1>1 DEF PosesIn
  <2>2. Compose(b, Inverted(b)) = Identity /\ Compose(Identity, x) = x
    BY DEF PosesIn
  <2> QED BY <2>1, <2>2
<1>3. Compose(Compose(Inverted(a), b), Compose(Inverted(b), x))
        = Compose(Inverted(a), Compose(b, Compose(Inverted(b), x)))
  BY <1>1 DEF PosesIn
<1> QED BY <1>2, <1>3

(* What sampleEdge says of a time.                                         *)
SampleOk(e, t) == SampleEdge(e, t).status = "Ok"

LEMMA SampleIs ==
  ASSUME TypeOK, Window, NEW G, PosesIn(G), NEW e \in DOMAIN edges, NEW t \in Times
  PROVE  LET h == DOMAIN edges[e].poses
         IN  /\ SampleEdge(e, t).status \in {"Ok", "ExtrapolationPast", "ExtrapolationFuture"}
             /\ SampleOk(e, t) => SampleEdge(e, t).pose \in G
             /\ edges[e].static => SampleEdge(e, t) = [status |-> "Ok", pose |-> edges[e].poses[0]]
             /\ ~edges[e].static =>
                  /\ IsFiniteSet(h) /\ h \subseteq Times /\ h # {}
                  /\ SampleOk(e, t) <=> Min(h) <= t /\ t <= Max(h)
                  /\ t \in h => SampleEdge(e, t).pose = edges[e].poses[t]
<1> DEFINE h == DOMAIN edges[e].poses
           At(u) == edges[e].poses[u]
<1>1. h \subseteq Times /\ (\A u \in h : At(u) \in Poses) /\ Poses \subseteq G
  BY DEF TypeOK, Typed, PosesIn
<1>2. CASE edges[e].static
  <2>1. h = {0}
    BY <1>2 DEF Window
  <2>2. SampleEdge(e, t) = [status |-> "Ok", pose |-> At(0)]
    BY <1>2 DEF SampleEdge
  <2> QED BY <1>1, <1>2, <2>1, <2>2 DEF SampleOk
<1>3. CASE ~edges[e].static
  <2>1. IsFiniteSet(h) /\ h # {}
    BY <1>3 DEF Window, InWindow
  <2>2. /\ Max(h) \in h /\ Min(h) \in h /\ Max(h) \in Int /\ Min(h) \in Int /\ t \in Int
        /\ \A u \in h : Min(h) <= u /\ u <= Max(h)
    BY <1>1, <2>1, ExtremesAre DEF Times
  <2>3. CASE t < Min(h)
    <3>1. SampleEdge(e, t) = [status |-> "ExtrapolationPast"]
      BY <1>3, <2>3 DEF SampleEdge
    <3> QED BY <1>1, <1>3, <2>1, <2>2, <2>3, <3>1 DEF SampleOk
  <2>4. CASE ~(t < Min(h)) /\ t > Max(h)
    <3>1. SampleEdge(e, t) = [status |-> "ExtrapolationFuture"]
      BY <1>3, <2>4 DEF SampleEdge
    <3> QED BY <1>1, <1>3, <2>1, <2>2, <2>4, <3>1 DEF SampleOk
  <2>5. CASE ~(t < Min(h)) /\ ~(t > Max(h)) /\ t \in h
    <3>1. SampleEdge(e, t) = [status |-> "Ok", pose |-> At(t)]
      BY <1>3, <2>5 DEF SampleEdge
    <3> QED BY <1>1, <1>3, <2>1, <2>2, <2>5, <3>1 DEF SampleOk
  <2>6. CASE ~(t < Min(h)) /\ ~(t > Max(h)) /\ t \notin h
    <3> DEFINE a == Max({u \in h : u < t})
               b == Min({u \in h : u > t})
               Sample(u) == [time |-> u, pose |-> At(u)]
    <3>1. SampleEdge(e, t) = [status |-> "Ok", pose |-> Between(Sample(a), Sample(b), t)]
      BY <1>3, <2>6 DEF SampleEdge
    <3>2. a \in h /\ a < t
      <4> DEFINE S == {u \in h : u < t}
      <4>1. S \subseteq h /\ IsFiniteSet(S) /\ S \subseteq Times
        BY <1>1, <2>1, FS_Subset
      <4>2. Min(h) \in S
        BY <2>2, <2>6
      <4> HIDE DEF S
      <4>3. Max(S) \in S
        BY <4>1, <4>2, ExtremesAre
      <4> QED BY <4>3 DEF S
    <3>3. b \in h /\ t < b
      <4> DEFINE S == {u \in h : u > t}
      <4>1. S \subseteq h /\ IsFiniteSet(S) /\ S \subseteq Times
        BY <1>1, <2>1, FS_Subset
      <4>2. Max(h) \in S
        BY <2>2, <2>6
      <4> HIDE DEF S
      <4>3. Min(S) \in S /\ b = Min(S)
        BY <4>1, <4>2, ExtremesAre DEF S
      <4>4. Min(S) \in Int /\ t \in Int /\ Min(S) \in h /\ Min(S) > t
        BY <1>1, <4>1, <4>3 DEF S, Times
      <4> QED BY <4>3, <4>4
    <3> HIDE DEF a, b
    <3>4. /\ Sample(a) \in [time : Times, pose : Poses] /\ Sample(b) \in [time : Times, pose : Poses]
          /\ Sample(a).time < t /\ t < Sample(b).time
      BY <1>1, <3>2, <3>3
    <3> HIDE DEF Sample
    <3>5. Between(Sample(a), Sample(b), t) \in G
      BY <3>4 DEF PosesIn
    <3> QED BY <1>1, <1>3, <2>1, <2>2, <2>6, <3>1, <3>5 DEF SampleOk
  <2> QED BY <2>3, <2>4, <2>5, <2>6
<1> QED BY <1>2, <1>3

-----------------------------------------------------------------------------
(* The pose of every frame in its root *)

(* W has these poses as far as they are known at time q.                   *)
Weighs(W, G, q, S) ==
  /\ W \in [Frames -> G]
  /\ \A e \in S : /\ e \in DOMAIN edges /\ SampleEdge(e, q).pose \in G
                  /\ W[e] = Compose(W[edges[e].parent], SampleEdge(e, q).pose)

LEMMA WeightsExist ==
  ASSUME TypeOK, Forest, Window, NEW G, PosesIn(G), NEW q \in Times
  PROVE  \E W : Weighs(W, G, q, {e \in DOMAIN edges : SampleOk(e, q)})
<1> DEFINE K == {e \in DOMAIN edges : SampleOk(e, q)}
           Pose(e) == IF e \in K THEN SampleEdge(e, q).pose ELSE Identity
           p == [f \in Frames |-> IF f \in DOMAIN edges THEN edges[f].parent ELSE f]
           m == Cardinality(Frames)
           r == [f \in Frames |-> m - Len(Chain(f))]
           base == [f \in Frames |-> Identity]
           step == [f \in Frames |-> [v \in G |-> Compose(v, Pose(f))]]
<1>1. \A e \in DOMAIN edges : e \in Frames /\ edges[e].parent \in Frames
  BY DEF TypeOK, Typed
<1>2. \A f \in Frames : Pose(f) \in G
  BY SampleIs DEF PosesIn
<1>3. \A f \in Frames : /\ Path(Chain(f)) /\ Chain(f)[1] = f /\ Len(Chain(f)) \in 1 .. m /\ m \in Nat
  <2> TAKE f \in Frames
  <2>1. Path(Chain(f)) /\ Chain(f)[1] = f /\ Len(Chain(f)) <= m /\ m \in Nat
    BY ChainIs
  <2>2. Len(Chain(f)) \in Nat /\ Len(Chain(f)) # 0
    BY <2>1 DEF Path
  <2> QED BY <2>1, <2>2
<1> HIDE DEF m
<1>4. ASSUME NEW e \in DOMAIN edges PROVE Len(Chain(edges[e].parent)) = Len(Chain(e)) - 1
  <2> DEFINE s == Chain(e)
             f == Chain(edges[e].parent)
  <2>1. /\ Path(s) /\ Path(f) /\ s[1] = e /\ f[1] = edges[e].parent 
        /\ Len(s) \in Nat /\ Len(s) # 0 /\ Len(f) \in Nat /\ Len(f) # 0
    BY <1>1, <1>3
  <2> HIDE DEF s, f
  <2>2. Len(s) # 1 /\ s[2] = edges[e].parent
    <3>1. Path(s) /\ s[1] = e
      BY <2>1
    <3> QED BY <3>1, PathStarts
  <2>3. 2 \in 1 .. Len(s) /\ 1 \in 1 .. Len(f) /\ s[2] = f[1]
    <3>1. 2 \in 1 .. Len(s)
      <4> DEFINE n == Len(s)
      <4>1. n \in Nat /\ n # 0 /\ n # 1
        BY <2>1, <2>2
      <4> HIDE DEF n
      <4>2. 2 \in 1 .. n
        BY <4>1
      <4> QED BY <4>2 DEF n
    <3>2. 1 \in 1 .. Len(f)
      BY <2>1
    <3>3. s[2] = f[1]
      BY <2>1, <2>2
    <3> QED BY <3>1, <3>2, <3>3
  <2>4. Shifted(s, 2, f, 1)
    BY <2>1, <2>3, PathsJoin
  <2>5. Len(f) = Len(s) - 1
    BY <2>1, <2>4 DEF Shifted
  <2> QED BY <2>5 DEF s, f
<1>5. Ranked(p, r, m)
  <2>1. \A e \in Frames : m - Len(Chain(e)) \in 0 .. m /\ m \in Nat
    BY <1>3
  <2>2. p \in [Frames -> Frames] /\ r \in [Frames -> 0 .. m] /\ DOMAIN p = Frames
    BY <1>1, <2>1
  <2>3. ASSUME NEW e \in Frames, p[e] # e PROVE r[e] < r[p[e]]
    <3>1. e \in DOMAIN edges /\ p[e] = edges[e].parent
      BY <2>3
    <3>2. r[e] = m - Len(Chain(e)) /\ r[p[e]] = m - Len(Chain(edges[e].parent))
      BY <1>1, <3>1
    <3>3. Len(Chain(e)) \in Nat /\ m \in Nat
      BY <1>3
    <3> QED BY <1>4, <3>1, <3>2, <3>3
  <2>4. m \in Nat
    <3>1. CASE Frames = {}
      BY <3>1, FS_EmptySet DEF m
    <3>2. CASE Frames # {}
      BY <1>3, <3>2
    <3> QED BY <3>1, <3>2
  <2> HIDE DEF p, r
  <2> QED BY <2>2, <2>3, <2>4 DEF Ranked
<1>6. \A e \in DOMAIN edges : p[e] = edges[e].parent /\ p[e] # e
  <2> TAKE e \in DOMAIN edges
  <2>1. p[e] = edges[e].parent
    BY <1>1
  <2>2. Len(Chain(e)) \in Nat /\ Len(Chain(edges[e].parent)) = Len(Chain(e)) - 1
    BY <1>1, <1>3, <1>4
  <2> QED BY <2>1, <2>2
<1>7. DOMAIN p = Frames /\ base \in [DOMAIN p -> G] /\ step \in [DOMAIN p -> [G -> G]]
  <2>1. Identity \in G /\ \A a, b \in G : Compose(a, b) \in G
    BY DEF PosesIn
  <2> HIDE DEF Pose
  <2> QED BY <1>2, <2>1
<1>8. \A f \in Frames, v \in G : step[f][v] = Compose(v, Pose(f))
  OBVIOUS
<1> HIDE DEF p, r, base, step, Pose
<1>9. PICK W \in [Frames -> G] :
        \A e \in Frames : W[e] = IF p[e] = e THEN base[e] ELSE step[e][W[p[e]]]
  <2>1. \E W \in [DOMAIN p -> G] :
          \A e \in DOMAIN p : W[e] = IF p[e] = e THEN base[e] ELSE step[e][W[p[e]]]
    BY <1>5, <1>7, TreeRecursion
  <2> QED BY <1>7, <2>1
<1>10. ASSUME NEW e \in K
       PROVE  /\ e \in DOMAIN edges /\ SampleEdge(e, q).pose \in G
              /\ W[e] = Compose(W[edges[e].parent], SampleEdge(e, q).pose)
  <2>1. e \in Frames /\ e \in DOMAIN edges /\ edges[e].parent \in Frames /\ W[edges[e].parent] \in G
    BY <1>1, <1>9
  <2>2. W[e] = step[e][W[edges[e].parent]]
    BY <1>6, <1>9, <2>1
  <2>3. Pose(e) = SampleEdge(e, q).pose
    BY DEF Pose
  <2> QED BY <1>2, <1>8, <2>1, <2>2, <2>3
<1>11. Weighs(W, G, q, K)
  <2> HIDE DEF K
  <2> QED BY <1>9, <1>10 DEF Weighs
<1> QED BY <1>11

LEMMA AlongIs ==
  ASSUME NEW G, PosesIn(G), NEW W, NEW q, NEW K, Weighs(W, G, q, K),
         NEW s, Path(s), NEW u \in 1 .. Len(s), \A i \in 1 .. u - 1 : s[i] \in K
  PROVE  /\ Along(SubSeq(s, 1, u - 1), q) \in G
         /\ Compose(W[s[u]], Along(SubSeq(s, 1, u - 1), q)) = W[s[1]]
<1> DEFINE w == SubSeq(s, 1, u - 1)
           n == u - 1
           E(i) == SampleEdge(s[i], q).pose
           step == [i \in 1 .. n |-> [v \in G |-> Compose(SampleEdge(w[i], q).pose, v)]]
<1>0. /\ s \in Seq(Frames) /\ Len(s) \in Nat /\ u \in 1 .. Len(s)
      /\ w \in Seq(Frames) /\ Len(w) = n /\ \A i \in 1 .. n : w[i] = s[i]
  BY PrefixIs DEF Path
<1> HIDE DEF w
<1>1. n \in Nat /\ DOMAIN w = 1 .. n /\ Identity \in G
  BY <1>0 DEF PosesIn
<1>5. ASSUME NEW i \in 1 .. n
      PROVE  /\ E(i) \in G /\ SampleEdge(w[i], q).pose = E(i)
             /\ W[s[i]] = Compose(W[s[i + 1]], E(i)) /\ W[s[i + 1]] \in G
  <2>1. i \in 1 .. Len(s) - 1 /\ i + 1 \in 1 .. Len(s)
    BY <1>0
  <2>2. s[i + 1] = edges[s[i]].parent /\ s[i + 1] \in Frames
    BY <1>0, <2>1 DEF Path
  <2> QED BY <1>0, <2>2 DEF Weighs
<1>2. step \in [1 .. n -> [G -> G]]
  <2>1. \A i \in 1 .. n : SampleEdge(w[i], q).pose \in G
    BY <1>5
  <2> QED BY <2>1 DEF PosesIn
<1>3. \A i \in 1 .. n, v \in G : step[i][v] = Compose(SampleEdge(w[i], q).pose, v)
  OBVIOUS
<1> HIDE DEF n, step
<1>4. PICK g : Follows(g, n, G, Identity, step) /\ Along(w, q) = g[n]
  <2> DEFINE Eq(it) == it = [p \in SUBSET (1 .. n) |->
                               IF p = {} THEN Identity ELSE Compose(SampleEdge(w[Max(p)], q).pose, it[p \ {Max(p)}])]
             fold == CHOOSE it : Eq(it)
  <2>1. \E it : Eq(it)
    <3> HIDE DEF Eq, fold
    <3>1. PICK it : Folded(it, n, G, Identity, step)
      BY <1>1, <1>2, FoldExists
    <3>2. ASSUME NEW p \in SUBSET (1 .. n), p # {}
          PROVE  it[p] = Compose(SampleEdge(w[Max(p)], q).pose, it[p \ {Max(p)}])
      <4>1. Max(p) \in 1 .. n /\ p \ {Max(p)} \in SUBSET (1 .. n)
        BY <1>1, <3>2, TopIs
      <4>2. it[p \ {Max(p)}] \in G /\ it[p] = step[Max(p)][it[p \ {Max(p)}]]
        BY <3>1, <3>2, <4>1 DEF Folded
      <4> QED BY <1>3, <4>1, <4>2
    <3>3. it = [p \in SUBSET (1 .. n) |-> it[p]] /\ it[{}] = Identity
      BY <3>1 DEF Folded
    <3> QED BY ZenonT(60), <3>2, <3>3 DEF Eq
  <2>2. Eq(fold)
    BY <2>1
  <2>3. fold[{}] = Identity
    BY <2>2
  <2>4. ASSUME NEW p \in SUBSET (1 .. n), p # {}, fold[p \ {Max(p)}] \in G
        PROVE  fold[p] = step[Max(p)][fold[p \ {Max(p)}]]
    <3>1. Max(p) \in 1 .. n
      BY <1>1, <2>4, TopIs
    <3>2. fold[p] = Compose(SampleEdge(w[Max(p)], q).pose, fold[p \ {Max(p)}])
      BY <2>2, <2>4
    <3> QED BY <1>3, <2>4, <3>1, <3>2
  <2>5. Along(w, q) = fold[DOMAIN w]
    BY <1>1 DEF Along, FoldLeft, MapThenFoldSet
  <2> HIDE DEF fold
  <2>6. PICK g : Follows(g, n, G, Identity, step) /\ fold[1 .. n] = g[n]
    <3>1. FoldsUp(fold, n, G, Identity, step)
      BY <2>3, <2>4 DEF FoldsUp
    <3> QED BY <1>1, <1>2, <3>1, FoldIs
  <2> QED BY <1>1, <2>5, <2>6
<1> DEFINE T == {k \in Nat : k <= n => Compose(W[s[k + 1]], g[k]) = W[s[1]]}
<1>6. 0 \in T
  <2>1. g[0] = Identity
    <3>1. \A i \in 0 .. n : g[i] = IF i = 0 THEN Identity ELSE step[i][g[i - 1]]
      BY <1>4 DEF Follows
    <3>2. n \in Nat
      BY <1>1
    <3>3. 0 \in 0 .. n
      BY <3>2
    <3> QED BY <3>1, <3>3, Zenon
  <2>2. W[s[1]] \in G
    <3>1. s[1] \in Frames
      BY <1>0
    <3> QED BY <3>1 DEF Weighs
  <2> QED BY <2>1, <2>2 DEF PosesIn
<1>7. ASSUME NEW k \in Nat, k \in T PROVE k + 1 \in T
  <2> SUFFICES ASSUME k + 1 <= n PROVE Compose(W[s[k + 1 + 1]], g[k + 1]) = W[s[1]]
    OBVIOUS
  <2> DEFINE j == k + 1
  <2>1. j \in 1 .. n /\ j # 0 /\ j - 1 = k /\ j \in 0 .. n /\ k \in 0 .. n
    BY <1>1
  <2>2. Compose(W[s[j]], g[k]) = W[s[1]]
    BY <1>1, <1>7, <2>1
  <2>3. g[j] = step[j][g[k]] /\ g[k] \in G
    BY <1>4, <2>1 DEF Follows
  <2> HIDE DEF j
  <2>4. g[j] = Compose(E(j), g[k]) /\ E(j) \in G /\ W[s[j + 1]] \in G /\ W[s[j]] = Compose(W[s[j + 1]], E(j))
    BY <1>3, <1>5, <2>1, <2>3
  <2> HIDE DEF E
  <2>5. Compose(W[s[j + 1]], g[j]) = Compose(Compose(W[s[j + 1]], E(j)), g[k])
    <3>1. Compose(Compose(W[s[j + 1]], E(j)), g[k]) = Compose(W[s[j + 1]], Compose(E(j), g[k]))
      BY <2>3, <2>4, Regrouped
    <3> QED BY <2>4, <3>1
  <2>6. Compose(W[s[j + 1]], g[j]) = W[s[1]]
    BY <2>2, <2>4, <2>5
  <2> QED BY <2>6 DEF j
<1> HIDE DEF T
<1>8. n \in T
  BY <1>1, <1>6, <1>7, SetInduction
<1>9. n \in 0 .. n /\ n + 1 = u
  BY <1>0, <1>1 DEF n
<1>10. Compose(W[s[u]], g[n]) = W[s[1]] /\ g[n] \in G
  BY <1>4, <1>8, <1>9 DEF T, Follows
<1> QED BY <1>4, <1>10 DEF w

-----------------------------------------------------------------------------
(* The answer of a lookup *)

(* The frames whose poses a lookup composes: those above one of the two    *)
(* frames only.                                                            *)
Span(f, g) == (ToSet(Chain(f)) \ ToSet(Chain(g))) \cup (ToSet(Chain(g)) \ ToSet(Chain(f)))

Origin(f) == Chain(f)[Len(Chain(f))]

Moving(f, g) == {e \in Span(f, g) : ~edges[e].static}

LEMMA SpanIs ==
  ASSUME TypeOK, Forest, NEW f \in Frames, NEW g \in Frames, Origin(f) = Origin(g)
  PROVE  Span(f, g) \subseteq DOMAIN edges
<1> DEFINE s == Chain(f)
           r == Chain(g)
<1>1. Path(s) /\ Path(r) /\ s[Len(s)] = r[Len(r)]
  BY ChainIs DEF Origin
<1> HIDE DEF s, r
<1>2. /\ Len(s) \in Nat /\ Len(r) \in Nat /\ Len(s) \in 1 .. Len(s) /\ Len(r) \in 1 .. Len(r)
      /\ ToSet(s) = {s[i] : i \in 1 .. Len(s)} /\ ToSet(r) = {r[i] : i \in 1 .. Len(r)}
  BY <1>1 DEF Path, ToSet
<1>3. s[Len(s)] \in ToSet(s) /\ s[Len(s)] \in ToSet(r)
  BY <1>1, <1>2
<1>4. ASSUME NEW i \in 1 .. Len(s), s[i] # s[Len(s)] PROVE s[i] \in DOMAIN edges
  <2>1. i \in 1 .. Len(s) - 1
    BY <1>2, <1>4
  <2> QED BY <1>1, <2>1 DEF Path
<1>5. ASSUME NEW i \in 1 .. Len(r), r[i] # r[Len(r)] PROVE r[i] \in DOMAIN edges
  <2>1. i \in 1 .. Len(r) - 1
    BY <1>2, <1>5
  <2> QED BY <1>1, <2>1 DEF Path
<1>6. (ToSet(s) \ ToSet(r)) \cup (ToSet(r) \ ToSet(s)) \subseteq DOMAIN edges
  BY <1>1, <1>2, <1>3, <1>4, <1>5
<1> QED BY <1>6 DEF Span, s, r

LEMMA SpanOfParent ==
  ASSUME TypeOK, Forest, NEW e \in DOMAIN edges
  PROVE  Span(edges[e].parent, e) = {e} /\ Origin(edges[e].parent) = Origin(e)
<1> DEFINE s == Chain(e)
           r == Chain(edges[e].parent)
<1>1. e \in Frames /\ edges[e].parent \in Frames
  BY DEF TypeOK, Typed
<1>2. Path(s) /\ Path(r) /\ s[1] = e /\ r[1] = edges[e].parent
  BY <1>1, ChainIs
<1> HIDE DEF s, r
<1>3. Len(s) # 1 /\ s[2] = edges[e].parent
  BY <1>2, PathStarts
<1>4. 2 \in 1 .. Len(s) /\ 1 \in 1 .. Len(r)
  <2> DEFINE n == Len(s)
             m == Len(r)
  <2>1. n \in Nat /\ n # 0 /\ n # 1 /\ m \in Nat /\ m # 0
    BY <1>2, <1>3 DEF Path
  <2> HIDE DEF n, m
  <2>2. 2 \in 1 .. n /\ 1 \in 1 .. m
    BY <2>1
  <2> QED BY <2>2 DEF n, m
<1>5. s[2] = r[1]
  BY <1>2, <1>3
<1> DEFINE u == 2
           d == 1
<1>6. Meet(s, r, u, d)
  BY <1>4, <1>5 DEF Meet
<1>7. u - 1 = 1 /\ d - 1 = 0
  OBVIOUS
<1> HIDE DEF u, d
<1>8. /\ {s[i] : i \in 1 .. u - 1} = ToSet(s) \ ToSet(r)
      /\ {r[i] : i \in 1 .. d - 1} = ToSet(r) \ ToSet(s)
  BY <1>2, <1>6, Apart
<1>9. ToSet(s) \ ToSet(r) = {e} /\ ToSet(r) \ ToSet(s) = {}
  BY <1>2, <1>7, <1>8
<1>10. s[Len(s)] = r[Len(r)]
  <2>1. 1 \in 1 .. Len(r) /\ r[1] \in ToSet(s)
    BY <1>2, <1>4, <1>5 DEF Path, ToSet
  <2>2. \E n \in 1 .. Len(r) : r[n] \in ToSet(s)
    BY <2>1
  <2> QED BY <1>2, <2>2, Rooted
<1> QED BY <1>9, <1>10 DEF Span, Origin, s, r

(* What a is if it is the pose of g in f at time q.                        *)
Answers(a, f, g, q, G) ==
  IF \A e \in Span(f, g) : SampleOk(e, q)
  THEN /\ a = [status |-> "Ok", stamp |-> q, pose |-> a.pose]
       /\ \A W : Weighs(W, G, q, Span(f, g)) => a.pose = Compose(Inverted(W[f]), W[g])
  ELSE a.status \in {"ExtrapolationPast", "ExtrapolationFuture"}

(* The time that a lookup samples at.                                      *)
Asked(f, g, t) == IF t # 0 \/ Moving(f, g) = {} THEN t ELSE LatestCommon(Moving(f, g))

NoneCommon(f, g, t) ==
  t = 0 /\ Moving(f, g) # {} /\ LatestCommon(Moving(f, g)) < EarliestCommon(Moving(f, g))

LEMMA CommonIs ==
  ASSUME TypeOK, Window, NEW M, M \subseteq {e \in DOMAIN edges : ~edges[e].static}, M # {}
  PROVE  /\ LatestCommon(M) \in Times /\ EarliestCommon(M) \in Times
         /\ \A e \in M : /\ LatestCommon(M) <= Max(DOMAIN edges[e].poses)
                         /\ EarliestCommon(M) >= Min(DOMAIN edges[e].poses)
         /\ \E e \in M : LatestCommon(M) = Max(DOMAIN edges[e].poses)
         /\ \E e \in M : EarliestCommon(M) = Min(DOMAIN edges[e].poses)
<1> DEFINE Hi(e) == Max(DOMAIN edges[e].poses)
           Lo(e) == Min(DOMAIN edges[e].poses)
           H == {Hi(e) : e \in M}
           L == {Lo(e) : e \in M}
<1>1. \A e \in M : Hi(e) \in Times /\ Lo(e) \in Times
  <2> TAKE e \in M
  <2> DEFINE h == DOMAIN edges[e].poses
  <2>1. IsFiniteSet(h) /\ h \subseteq Times /\ h # {}
    BY DEF TypeOK, Typed, Window, InWindow
  <2> HIDE DEF h
  <2>2. Max(h) \in Times /\ Min(h) \in Times
    BY <2>1, ExtremesAre
  <2> QED BY <2>2 DEF h
<1>2. LatestCommon(M) = Min(H) /\ EarliestCommon(M) = Max(L)
  <2>1. {Max(h) : h \in Histories(M)} = H /\ {Min(h) : h \in Histories(M)} = L
    BY DEF Histories
  <2> QED BY <2>1 DEF LatestCommon, EarliestCommon
<1> HIDE DEF Hi, Lo
<1>3. H \subseteq Times /\ H # {} /\ L \subseteq Times /\ L # {}
  BY <1>1
<1>4. IsFiniteSet(M)
  <2>1. IsFiniteSet(Frames) /\ M \subseteq Frames
    BY FramesAssumption DEF TypeOK
  <2> QED BY <2>1, FS_Subset
<1>5. IsFiniteSet(H)
  <2> DEFINE k == [e \in M |-> Hi(e)]
  <2>1. k \in Surjection(M, H)
    BY DEF Surjection
  <2> HIDE DEF k, H
  <2> QED BY <1>4, <2>1, FS_Surjection
<1>6. IsFiniteSet(L)
  <2> DEFINE k == [e \in M |-> Lo(e)]
  <2>1. k \in Surjection(M, L)
    BY DEF Surjection
  <2> HIDE DEF k, L
  <2> QED BY <1>4, <2>1, FS_Surjection
<1>7. /\ Min(H) \in H /\ \A x \in H : Min(H) <= x
      /\ Max(L) \in L /\ \A x \in L : x <= Max(L)
  <2> HIDE DEF H, L
  <2> QED BY <1>3, <1>5, <1>6, ExtremesAre
<1>8. \A e \in M : Min(H) <= Hi(e) /\ Max(L) >= Lo(e)
  <2> TAKE e \in M
  <2>1. Hi(e) \in H /\ Lo(e) \in L
    OBVIOUS
  <2>2. Max(L) \in Int /\ Lo(e) \in Int
    BY <1>1, <1>3, <1>7 DEF Times
  <2> HIDE DEF H, L
  <2> QED BY <1>7, <2>1, <2>2
<1>9. (\E e \in M : Min(H) = Hi(e)) /\ (\E e \in M : Max(L) = Lo(e))
  BY <1>7
<1>10. Min(H) \in Times /\ Max(L) \in Times
  BY <1>3, <1>7
<1> HIDE DEF H, L
<1> QED BY <1>2, <1>8, <1>9, <1>10 DEF Hi, Lo

LEMMA ComposedIs ==
  ASSUME TypeOK, Forest, Window, NEW G, PosesIn(G), NEW f \in Frames, NEW g \in Frames,
         NEW u, NEW d, Meet(Chain(g), Chain(f), u, d), Origin(f) = Origin(g), NEW t \in Times
  PROVE  LET a == Composed(SubSeq(Chain(g), 1, u - 1), SubSeq(Chain(f), 1, d - 1), t)
         IN  IF NoneCommon(f, g, t) THEN a = [status |-> "NoCommonTime"]
             ELSE Answers(a, f, g, Asked(f, g, t), G)
<1> DEFINE s == Chain(g)
           r == Chain(f)
           S == SubSeq(s, 1, u - 1)
           T == SubSeq(r, 1, d - 1)
           path == S \o T
           moving == {x \in ToSet(path) : ~edges[x].static}
           query == IF t # 0 \/ moving = {} THEN t ELSE LatestCommon(moving)
           Fails(n) == SampleEdge(path[n], query).status # "Ok"
           failing == {n \in DOMAIN path : Fails(n)}
           a == Composed(S, T, t)
           pose == Compose(Inverted(Along(T, query)), Along(S, query))
<1>1. Path(s) /\ Path(r) /\ s[1] = g /\ r[1] = f /\ Meet(s, r, u, d)
  BY ChainIs
<1>2. a = IF t = 0 /\ moving # {} /\ LatestCommon(moving) < EarliestCommon(moving)
          THEN [status |-> "NoCommonTime"]
          ELSE IF failing # {} THEN [status |-> SampleEdge(path[Min(failing)], query).status]
          ELSE [status |-> "Ok", stamp |-> query, pose |-> pose]
  BY DEF Composed
<1>3. Span(f, g) = (ToSet(s) \ ToSet(r)) \cup (ToSet(r) \ ToSet(s))
  BY DEF Span
<1> HIDE DEF s, r
<1>4. /\ {s[i] : i \in 1 .. u - 1} = ToSet(s) \ ToSet(r)
      /\ {r[i] : i \in 1 .. d - 1} = ToSet(r) \ ToSet(s)
  BY <1>1, Apart
<1>5. /\ u \in 1 .. Len(s) /\ d \in 1 .. Len(r) /\ s[u] = r[d]
      /\ Len(s) \in Nat /\ Len(r) \in Nat /\ s \in Seq(Frames) /\ r \in Seq(Frames)
  BY SMTT(30), <1>1 DEF Meet, Path
<1>6. /\ S \in Seq(Frames) /\ T \in Seq(Frames)
      /\ ToSet(S) = ToSet(s) \ ToSet(r) /\ ToSet(T) = ToSet(r) \ ToSet(s)
  BY <1>1, <1>4, <1>5, PrefixIs
<1> HIDE DEF S, T
<1>7. ToSet(path) = Span(f, g) /\ path \in Seq(Frames)
  <2>1. \A i \in 1 .. Len(S) : i \in 1 .. Len(path) /\ path[i] = S[i]
    BY <1>6
  <2>2. \A i \in 1 .. Len(T) : Len(S) + i \in 1 .. Len(path) /\ path[Len(S) + i] = T[i]
    BY <1>6
  <2>3. \A i \in 1 .. Len(path) : \/ i \in 1 .. Len(S) /\ path[i] = S[i]
                                  \/ i - Len(S) \in 1 .. Len(T) /\ path[i] = T[i - Len(S)]
    BY <1>6
  <2>4. /\ DOMAIN path = 1 .. Len(path) /\ DOMAIN S = 1 .. Len(S) /\ DOMAIN T = 1 .. Len(T)
        /\ path \in Seq(Frames)
    BY <1>6
  <2> HIDE DEF path
  <2>5. ToSet(path) = ToSet(S) \cup ToSet(T)
    BY SMTT(30), <2>1, <2>2, <2>3, <2>4 DEF ToSet
  <2> QED BY <1>3, <1>6, <2>4, <2>5
<1> HIDE DEF path
<1>8. moving = Moving(f, g) /\ query = Asked(f, g, t)
  BY <1>7 DEF Moving, Asked
<1>9. Span(f, g) \subseteq DOMAIN edges
  BY SpanIs
<1>10. query \in Times
  <2>1. CASE t # 0 \/ moving = {}
    BY <2>1
  <2>2. CASE ~(t # 0 \/ moving = {})
    <3>1. moving \subseteq {e \in DOMAIN edges : ~edges[e].static}
      BY <1>7, <1>9
    <3> HIDE DEF moving
    <3> QED BY <2>2, <3>1, CommonIs
  <2> QED BY <2>1, <2>2
<1> HIDE DEF moving, query, a
<1>11. failing = {} <=> \A e \in Span(f, g) : SampleOk(e, query)
  <2>1. Span(f, g) = {path[n] : n \in DOMAIN path}
    BY <1>7 DEF ToSet
  <2> QED BY <2>1 DEF SampleOk
<1>12. CASE NoneCommon(f, g, t)
  BY <1>2, <1>8, <1>12 DEF NoneCommon, a, S, T, s, r
<1>13. CASE ~NoneCommon(f, g, t) /\ failing # {}
  <2>1. Min(failing) \in failing
    <3>1. failing \subseteq Nat
      BY <1>7
    <3> HIDE DEF failing
    <3>2. \E k \in failing : \A m \in failing : k <= m
      BY <1>13, <3>1, LeastNat
    <3> QED BY Zenon, <3>2 DEF Min
  <2> DEFINE e == path[Min(failing)]
  <2>2. a = [status |-> SampleEdge(e, query).status]
    BY <1>2, <1>8, <1>13 DEF NoneCommon
  <2>3. e \in DOMAIN edges /\ SampleEdge(e, query).status # "Ok"
    <3>1. \A n \in failing : path[n] \in ToSet(path) /\ SampleEdge(path[n], query).status # "Ok"
      BY DEF ToSet
    <3> HIDE DEF failing
    <3> QED BY <1>7, <1>9, <2>1, <3>1
  <2> HIDE DEF e, failing
  <2>4. a.status \in {"ExtrapolationPast", "ExtrapolationFuture"}
    <3>1. SampleEdge(e, query).status \in {"Ok", "ExtrapolationPast", "ExtrapolationFuture"}
      BY <1>10, <2>3, SampleIs
    <3> QED BY <2>2, <2>3, <3>1
  <2>5. Answers(a, f, g, query, G)
    BY <1>11, <1>13, <2>4 DEF Answers
  <2> QED BY <1>8, <1>13, <2>5 DEF a, S, T, s, r
<1>14. CASE ~NoneCommon(f, g, t) /\ failing = {}
  <2>1. a = [status |-> "Ok", stamp |-> query, pose |-> pose]
    BY <1>2, <1>8, <1>14 DEF NoneCommon
  <2> HIDE DEF failing
  <2>2. ASSUME NEW W, Weighs(W, G, query, Span(f, g)) PROVE pose = Compose(Inverted(W[f]), W[g])
    <3>1. /\ \A i \in 1 .. u - 1 : s[i] \in Span(f, g)
          /\ \A i \in 1 .. d - 1 : r[i] \in Span(f, g)
      BY <1>3, <1>4
    <3>2. Along(S, query) \in G /\ Compose(W[s[u]], Along(S, query)) = W[g]
      BY <1>1, <1>5, <2>2, <3>1, AlongIs DEF S
    <3>3. Along(T, query) \in G /\ Compose(W[r[d]], Along(T, query)) = W[f]
      BY <1>1, <1>5, <2>2, <3>1, AlongIs DEF T
    <3>4. W[s[u]] \in G
      <4>1. s[u] \in Frames
        BY <1>5
      <4> QED BY <2>2, <4>1 DEF Weighs
    <3>5. pose = Compose(Inverted(Compose(W[s[u]], Along(T, query))), Compose(W[s[u]], Along(S, query)))
      BY <3>2, <3>3, <3>4, Canceled
    <3> QED BY <1>5, <3>2, <3>3, <3>5
  <2> HIDE DEF pose
  <2>3. a = [status |-> "Ok", stamp |-> query, pose |-> a.pose] /\ a.pose = pose
    BY <2>1
  <2>4. Answers(a, f, g, query, G)
    BY <1>11, <1>14, <2>2, <2>3 DEF Answers
  <2> QED BY <1>8, <1>14, <2>4 DEF a, S, T, s, r
<1> QED BY <1>12, <1>13, <1>14

LEMMA LookupIs ==
  ASSUME TypeOK, Forest, Window, NEW G, PosesIn(G), NEW f \in frames, NEW g \in frames, NEW t \in Times
  PROVE  IF Origin(f) # Origin(g) THEN Lookup(f, g, t) = [status |-> "ConnectivityError"]
         ELSE IF NoneCommon(f, g, t) THEN Lookup(f, g, t) = [status |-> "NoCommonTime"]
         ELSE Answers(Lookup(f, g, t), f, g, Asked(f, g, t), G)
<1> DEFINE up == Chain(g)
           down == Chain(f)
           common == {n \in DOMAIN down : down[n] \in ToSet(up)}
           d == Min(common)
           u == CHOOSE n \in DOMAIN up : up[n] = down[d]
           a == Composed(SubSeq(up, 1, u - 1), SubSeq(down, 1, d - 1), t)
<1>1. f \in Frames /\ g \in Frames
  BY DEF TypeOK
<1>2. Path(up) /\ Path(down)
  BY <1>1, ChainIs
<1>3. Lookup(f, g, t) = IF f = g THEN [status |-> "Ok", stamp |-> t, pose |-> Identity]
                        ELSE IF common = {} THEN [status |-> "ConnectivityError"]
                        ELSE a
  <2>1. {f, g} \subseteq frames
    OBVIOUS
  <2> QED BY <2>1 DEF Lookup
<1>4. common = {n \in 1 .. Len(down) : down[n] \in ToSet(up)}
  <2> HIDE DEF up, down
  <2>1. DOMAIN down = 1 .. Len(down)
    BY <1>2 DEF Path
  <2> QED BY <2>1
<1> HIDE DEF common, d, u, a
<1>5. common = {} <=> Origin(f) # Origin(g)
  <2>1. (\E n \in 1 .. Len(down) : down[n] \in ToSet(up)) <=> up[Len(up)] = down[Len(down)]
    <3> HIDE DEF up, down
    <3> QED BY <1>2, Rooted
  <2> QED BY <1>4, <2>1 DEF Origin
<1>6. CASE f = g
  <2>1. Span(f, g) = {} /\ Moving(f, g) = {} /\ Origin(f) = Origin(g)
    BY <1>6 DEF Span, Moving
  <2>2. Asked(f, g, t) = t /\ ~NoneCommon(f, g, t)
    BY <2>1 DEF Asked, NoneCommon
  <2>3. Lookup(f, g, t) = [status |-> "Ok", stamp |-> t, pose |-> Identity]
    BY <1>3, <1>6
  <2>4. ASSUME NEW W, Weighs(W, G, t, Span(f, g)) PROVE Identity = Compose(Inverted(W[f]), W[g])
    <3>1. W[f] \in G
      BY <1>1, <2>4 DEF Weighs
    <3> QED BY <1>6, <3>1 DEF PosesIn
  <2>5. Answers(Lookup(f, g, t), f, g, t, G)
    BY <2>1, <2>3, <2>4 DEF Answers
  <2> QED BY <2>1, <2>2, <2>5
<1>7. CASE f # g /\ common = {}
  BY <1>3, <1>5, <1>7
<1>8. CASE f # g /\ common # {}
  <2>1. d \in common /\ \A n \in common : d <= n
    <3>1. common \subseteq Nat
      BY <1>4
    <3>2. \E k \in common : \A m \in common : k <= m
      BY <1>8, <3>1, LeastNat
    <3> QED BY Zenon, <3>2 DEF Min, d
  <2> HIDE DEF up, down
  <2>2. ToSet(up) = {up[n] : n \in 1 .. Len(up)} /\ DOMAIN up = 1 .. Len(up)
    BY <1>2 DEF Path, ToSet
  <2>3. d \in 1 .. Len(down) /\ \E n \in DOMAIN up : up[n] = down[d]
    BY <1>4, <2>1, <2>2
  <2>4. u \in DOMAIN up /\ up[u] = down[d]
    BY Zenon, <2>3 DEF u
  <2>5. Meet(up, down, u, d)
    BY <1>4, <2>1, <2>2, <2>3, <2>4 DEF Meet
  <2>6. Origin(f) = Origin(g) /\ Lookup(f, g, t) = a
    BY <1>3, <1>5, <1>8
  <2> QED BY <1>1, <2>5, <2>6, ComposedIs DEF a, up, down
<1> QED BY <1>6, <1>7, <1>8

(* A lookup that succeeds at a time is not one for the latest.             *)
LEMMA LookupAt ==
  ASSUME TypeOK, Forest, Window, NEW G, PosesIn(G), NEW f \in frames, NEW g \in frames,
         NEW q \in Times, q # 0
  PROVE  /\ Lookup(f, g, q).status = "Ok"
              <=> Origin(f) = Origin(g) /\ \A e \in Span(f, g) : SampleOk(e, q)
         /\ Lookup(f, g, q).status = "Ok" => Answers(Lookup(f, g, q), f, g, q, G)
<1>1. Asked(f, g, q) = q /\ ~NoneCommon(f, g, q)
  BY DEF Asked, NoneCommon
<1>2. IF Origin(f) # Origin(g) THEN Lookup(f, g, q) = [status |-> "ConnectivityError"]
      ELSE Answers(Lookup(f, g, q), f, g, q, G)
  BY <1>1, LookupIs
<1> DEFINE a == Lookup(f, g, q)
<1> HIDE DEF a
<1>3. IF Origin(f) # Origin(g) THEN a = [status |-> "ConnectivityError"] ELSE Answers(a, f, g, q, G)
  BY <1>2 DEF a
<1>4. ASSUME Origin(f) # Origin(g) PROVE a.status # "Ok"
  <2>1. a = [status |-> "ConnectivityError"]
    BY <1>3, <1>4
  <2> QED BY <2>1
<1>5. ASSUME Origin(f) = Origin(g), \A e \in Span(f, g) : SampleOk(e, q) PROVE a.status = "Ok"
  <2>1. a = [status |-> "Ok", stamp |-> q, pose |-> a.pose]
    BY <1>3, <1>5 DEF Answers
  <2> QED BY <2>1
<1>6. ASSUME Origin(f) = Origin(g), ~\A e \in Span(f, g) : SampleOk(e, q) PROVE a.status # "Ok"
  <2>1. a.status \in {"ExtrapolationPast", "ExtrapolationFuture"}
    BY <1>3, <1>6 DEF Answers
  <2> QED BY <2>1
<1>7. (a.status = "Ok" <=> Origin(f) = Origin(g) /\ \A e \in Span(f, g) : SampleOk(e, q))
      /\ (a.status = "Ok" => Answers(a, f, g, q, G))
  BY <1>3, <1>4, <1>5, <1>6
<1> QED BY <1>7 DEF a

LEMMA SpansWeighed ==
  ASSUME TypeOK, Forest, Window, NEW G, PosesIn(G), NEW q \in Times
  PROVE  \E W : /\ W \in [Frames -> G]
                /\ \A S \in SUBSET (DOMAIN edges) :
                     (\A e \in S : SampleOk(e, q)) => Weighs(W, G, q, S)
<1>1. PICK W : Weighs(W, G, q, {e \in DOMAIN edges : SampleOk(e, q)})
  BY WeightsExist
<1>2. ASSUME NEW S \in SUBSET (DOMAIN edges), \A e \in S : SampleOk(e, q) PROVE Weighs(W, G, q, S)
  BY <1>1, <1>2 DEF Weighs
<1> QED BY <1>1, <1>2 DEF Weighs

(* By way of a third frame, the pose is the same.                          *)
LEMMA LookupsCompose ==
  ASSUME TypeOK, Forest, Window, NEW G, PosesIn(G), NEW q \in Times, q # 0,
         NEW x \in frames, NEW y \in frames, NEW z \in frames,
         Lookup(x, y, q).status = "Ok", Lookup(y, z, q).status = "Ok"
  PROVE  Lookup(x, z, q).pose = Compose(Lookup(x, y, q).pose, Lookup(y, z, q).pose)
<1>1. x \in Frames /\ y \in Frames /\ z \in Frames
  BY DEF TypeOK
<1>2. /\ Origin(x) = Origin(y) /\ Origin(y) = Origin(z)
      /\ (\A e \in Span(x, y) : SampleOk(e, q)) /\ (\A e \in Span(y, z) : SampleOk(e, q))
      /\ Answers(Lookup(x, y, q), x, y, q, G) /\ Answers(Lookup(y, z, q), y, z, q, G)
  BY LookupAt
<1>3. \A e \in Span(x, z) : SampleOk(e, q)
  <2>1. Span(x, z) \subseteq Span(x, y) \cup Span(y, z)
    BY DEF Span
  <2> QED BY <1>2, <2>1
<1>4. Answers(Lookup(x, z, q), x, z, q, G)
  BY <1>2, <1>3, LookupAt
<1>5. PICK W : /\ W \in [Frames -> G]
               /\ \A S \in SUBSET (DOMAIN edges) : (\A e \in S : SampleOk(e, q)) => Weighs(W, G, q, S)
  BY SpansWeighed
<1>6. Span(x, y) \subseteq DOMAIN edges /\ Span(y, z) \subseteq DOMAIN edges /\ Span(x, z) \subseteq DOMAIN edges
  BY <1>1, <1>2, SpanIs
<1>7. Weighs(W, G, q, Span(x, y)) /\ Weighs(W, G, q, Span(y, z)) /\ Weighs(W, G, q, Span(x, z))
  BY <1>2, <1>3, <1>5, <1>6
<1>8. /\ Lookup(x, y, q).pose = Compose(Inverted(W[x]), W[y])
      /\ Lookup(y, z, q).pose = Compose(Inverted(W[y]), W[z])
      /\ Lookup(x, z, q).pose = Compose(Inverted(W[x]), W[z])
  BY <1>2, <1>3, <1>4, <1>7 DEF Answers
<1>9. W[x] \in G /\ W[y] \in G /\ W[z] \in G
  BY <1>1, <1>5
<1> QED BY <1>8, <1>9, Chained

(* A pose that was set for a time is what a lookup at this time returns.   *)
LEMMA SampleFound ==
  ASSUME TypeOK, Forest, Window, NEW G, PosesIn(G), NEW e \in DOMAIN edges, ~edges[e].static,
         NEW q \in DOMAIN edges[e].poses, q # 0
  PROVE  Lookup(edges[e].parent, e, q) = [status |-> "Ok", stamp |-> q, pose |-> edges[e].poses[q]]
<1> DEFINE p == edges[e].parent
           h == DOMAIN edges[e].poses
           v == edges[e].poses[q]
           a == Lookup(p, e, q)
<1>1. /\ p \in frames /\ e \in frames /\ p \in Frames /\ e \in Frames /\ q \in Times /\ h \subseteq Times
      /\ v \in G
  BY DEF Forest, TypeOK, Typed, PosesIn
<1>2. Span(p, e) = {e} /\ Origin(p) = Origin(e)
  BY SpanOfParent
<1>3. SampleOk(e, q) /\ SampleEdge(e, q).pose = v
  <2>1. /\ IsFiniteSet(h) /\ h # {}
        /\ SampleOk(e, q) <=> Min(h) <= q /\ q <= Max(h)
        /\ SampleEdge(e, q).pose = v
    BY <1>1, SampleIs
  <2>2. Min(h) <= q /\ q <= Max(h)
    <3> HIDE DEF h
    <3> QED BY <1>1, <2>1, ExtremesAre DEF h
  <2> QED BY <2>1, <2>2
<1>4. \A x \in Span(p, e) : SampleOk(x, q)
  BY <1>2, <1>3
<1>5. a.status = "Ok" /\ Answers(a, p, e, q, G)
  <2> HIDE DEF p
  <2> QED BY <1>1, <1>2, <1>4, LookupAt
<1>6. PICK W : /\ W \in [Frames -> G]
               /\ \A S \in SUBSET (DOMAIN edges) : (\A x \in S : SampleOk(x, q)) => Weighs(W, G, q, S)
  BY <1>1, SpansWeighed
<1>7. Weighs(W, G, q, Span(p, e))
  BY <1>2, <1>4, <1>6
<1>8. a = [status |-> "Ok", stamp |-> q, pose |-> a.pose] /\ a.pose = Compose(Inverted(W[p]), W[e])
  <2> HIDE DEF a
  <2> QED BY <1>4, <1>5, <1>7 DEF Answers
<1>9. W[e] = Compose(W[p], v) /\ W[p] \in G
  BY <1>1, <1>2, <1>3, <1>6, <1>7 DEF Weighs
<1>10. Compose(Inverted(W[p]), Compose(W[p], v)) = v
  <2> DEFINE w == W[p]
  <2> HIDE DEF w, v
  <2>1. w \in G /\ v \in G /\ Inverted(w) \in G
    BY <1>1, <1>9 DEF w, PosesIn
  <2>2. Compose(Compose(Inverted(w), w), v) = Compose(Inverted(w), Compose(w, v))
    BY <2>1, Regrouped
  <2>3. Compose(Inverted(w), w) = Identity /\ Compose(Identity, v) = v
    BY <2>1 DEF PosesIn
  <2>4. Compose(Inverted(w), Compose(w, v)) = v
    BY <2>2, <2>3
  <2> QED BY <2>4 DEF w
<1>11. a.pose = v
  BY <1>8, <1>9, <1>10
<1> HIDE DEF a, v, p
<1>12. a = [status |-> "Ok", stamp |-> q, pose |-> v]
  BY <1>8, <1>11
<1> QED BY <1>12 DEF a, v, p

(* A lookup for the latest is one for the latest time that succeeds.       *)
LEMMA LookupLatest ==
  ASSUME TypeOK, Forest, Window, NEW G, PosesIn(G), NEW f \in frames, NEW g \in frames,
         NEW T, T \subseteq Times, 0 \notin T,
         \A e \in DOMAIN edges : ~edges[e].static => DOMAIN edges[e].poses \subseteq T
  PROVE  LET zero == Lookup(f, g, 0)
             good == {q \in T : Lookup(f, g, q).status = "Ok"}
         IN  /\ zero.status \notin {"ExtrapolationPast", "ExtrapolationFuture"}
             /\ zero.status = "NoCommonTime" => good = {}
             /\ zero.status = "Ok" =>
                  IF zero.stamp = 0 THEN \A q \in T : Lookup(f, g, q) = [zero EXCEPT !.stamp = q]
                  ELSE zero.stamp \in T /\ zero.stamp = Max(good) /\ zero = Lookup(f, g, zero.stamp)
<1> DEFINE zero == Lookup(f, g, 0)
           good == {q \in T : Lookup(f, g, q).status = "Ok"}
           M == Moving(f, g)
           L == LatestCommon(M)
           E == EarliestCommon(M)
           Hi(e) == Max(DOMAIN edges[e].poses)
           Lo(e) == Min(DOMAIN edges[e].poses)
           Goal == /\ zero.status \notin {"ExtrapolationPast", "ExtrapolationFuture"}
                   /\ zero.status = "NoCommonTime" => good = {}
                   /\ zero.status = "Ok" =>
                        IF zero.stamp = 0 THEN \A q \in T : Lookup(f, g, q) = [zero EXCEPT !.stamp = q]
                        ELSE zero.stamp \in T /\ zero.stamp = Max(good) /\ zero = Lookup(f, g, zero.stamp)
<1>1. f \in Frames /\ g \in Frames /\ 0 \in Times /\ \A q \in T : q \in Times /\ q # 0
  BY PastAssumption DEF TypeOK, Times
<1>2. IF Origin(f) # Origin(g) THEN zero = [status |-> "ConnectivityError"]
      ELSE IF NoneCommon(f, g, 0) THEN zero = [status |-> "NoCommonTime"]
      ELSE Answers(zero, f, g, Asked(f, g, 0), G)
  BY <1>1, LookupIs
<1>3. \A q \in T : q \in good <=> Origin(f) = Origin(g) /\ \A e \in Span(f, g) : SampleOk(e, q)
  BY <1>1, LookupAt
<1>4. CASE Origin(f) # Origin(g)
  <2>1. zero = [status |-> "ConnectivityError"]
    BY <1>2, <1>4
  <2> HIDE DEF zero, good
  <2>2. Goal
    BY <2>1
  <2> QED BY <2>2 DEF zero, good
<1>5. CASE Origin(f) = Origin(g)
  <2>1. Span(f, g) \subseteq DOMAIN edges /\ M \subseteq {e \in DOMAIN edges : ~edges[e].static}
    BY <1>1, <1>5, SpanIs DEF Moving
  <2>2. ASSUME NEW q \in Times
        PROVE  (\A e \in Span(f, g) : SampleOk(e, q)) <=> \A e \in M : Lo(e) <= q /\ q <= Hi(e)
    <3>1. ASSUME NEW e \in Span(f, g), edges[e].static PROVE SampleOk(e, q)
      <4>1. SampleEdge(e, q) = [status |-> "Ok", pose |-> edges[e].poses[0]]
        BY <2>1, <3>1, SampleIs
      <4> QED BY <4>1 DEF SampleOk
    <3>2. \A e \in M : e \in Span(f, g) /\ (SampleOk(e, q) <=> Lo(e) <= q /\ q <= Hi(e))
      BY <2>1, SampleIs DEF Moving
    <3>3. \A e \in Span(f, g) : ~edges[e].static => e \in M
      BY DEF Moving
    <3> HIDE DEF M, Lo, Hi
    <3> QED BY <3>1, <3>2, <3>3
  <2>3. M # {} => /\ L \in Times /\ E \in Times
                  /\ \A e \in M : L <= Hi(e) /\ E >= Lo(e)
                  /\ (\E e \in M : L = Hi(e)) /\ (\E e \in M : E = Lo(e))
    <3> HIDE DEF M
    <3> QED BY <2>1, CommonIs
  <2>4. \A e \in M : Hi(e) \in DOMAIN edges[e].poses /\ Hi(e) \in T /\ Hi(e) \in Int /\ Lo(e) \in Int
    <3> TAKE e \in M
    <3> DEFINE h == DOMAIN edges[e].poses
    <3>1. IsFiniteSet(h) /\ h \subseteq Times /\ h # {} /\ h \subseteq T
      BY <1>1, <2>1, SampleIs
    <3> HIDE DEF h
    <3>2. Max(h) \in h /\ Min(h) \in h
      BY <3>1, ExtremesAre
    <3>3. Max(h) \in T /\ Max(h) \in Int /\ Min(h) \in Int
      BY <3>1, <3>2 DEF Times
    <3> QED BY <3>2, <3>3 DEF h
  <2> HIDE DEF Hi, Lo, L, E
  <2>5. CASE NoneCommon(f, g, 0)
    <3>1. zero = [status |-> "NoCommonTime"] /\ M # {} /\ L < E
      BY <1>2, <1>5, <2>5 DEF NoneCommon, L, E
    <3>2. ASSUME NEW q \in good PROVE FALSE
      <4>1. q \in T /\ q \in Times /\ \A e \in M : Lo(e) <= q /\ q <= Hi(e)
        BY <1>1, <1>3, <2>2
      <4>2. q <= L /\ E <= q
        BY <2>3, <3>1, <4>1
      <4> QED BY <2>3, <3>1, <4>1, <4>2 DEF Times
    <3> HIDE DEF zero, good
    <3>3. Goal
      BY <3>1, <3>2
    <3> QED BY <3>3 DEF zero, good
  <2>6. CASE ~NoneCommon(f, g, 0) /\ M = {}
    <3>1. Asked(f, g, 0) = 0 /\ \A q \in Times : \A e \in Span(f, g) : SampleOk(e, q)
      BY <2>2, <2>6 DEF Asked
    <3>2. Answers(zero, f, g, 0, G)
      BY <1>2, <1>5, <2>6, <3>1
    <3>3. PICK W : Weighs(W, G, 0, Span(f, g))
      BY <1>1, <2>1, <3>1, SpansWeighed
    <3>4. zero = [status |-> "Ok", stamp |-> 0, pose |-> zero.pose] /\ zero.pose = Compose(Inverted(W[f]), W[g])
      <4> HIDE DEF zero
      <4> QED BY <1>1, <3>1, <3>2, <3>3 DEF Answers
    <3>5. ASSUME NEW q \in T PROVE Lookup(f, g, q) = [status |-> "Ok", stamp |-> q, pose |-> zero.pose]
      <4> DEFINE a == Lookup(f, g, q)
      <4>1. a.status = "Ok" /\ Answers(a, f, g, q, G)
        BY <1>1, <1>5, <3>1, LookupAt
      <4>2. \A e \in Span(f, g) : SampleEdge(e, q) = SampleEdge(e, 0)
        <5> TAKE e \in Span(f, g)
        <5>1. edges[e].static /\ e \in DOMAIN edges
          BY <2>1, <2>6 DEF Moving
        <5> QED BY <1>1, <5>1, SampleIs
      <4>3. Weighs(W, G, q, Span(f, g))
        BY <3>3, <4>2 DEF Weighs
      <4> HIDE DEF a, zero
      <4>4. a = [status |-> "Ok", stamp |-> q, pose |-> a.pose] /\ a.pose = Compose(Inverted(W[f]), W[g])
        BY <1>1, <3>1, <4>1, <4>3 DEF Answers
      <4>5. a = [status |-> "Ok", stamp |-> q, pose |-> zero.pose]
        BY <3>4, <4>4
      <4> QED BY <4>5 DEF a
    <3> HIDE DEF zero, good
    <3>6. \A q \in T : Lookup(f, g, q) = [zero EXCEPT !.stamp = q]
      <4> TAKE q \in T
      <4>1. [zero EXCEPT !.stamp = q] = [status |-> "Ok", stamp |-> q, pose |-> zero.pose]
        BY <3>4
      <4> QED BY <3>5, <4>1
    <3>7. zero.status = "Ok" /\ zero.stamp = 0
      BY <3>4
    <3>8. Goal
      BY <3>6, <3>7
    <3> QED BY <3>8 DEF zero, good
  <2>7. CASE ~NoneCommon(f, g, 0) /\ M # {}
    <3>1. Asked(f, g, 0) = L /\ ~(L < E)
      BY <2>7 DEF Asked, NoneCommon, L, E
    <3>2. Answers(zero, f, g, L, G)
      BY <1>2, <1>5, <2>7, <3>1
    <3>3. L \in Times /\ E \in Times /\ L \in T /\ L # 0
      <4>1. L \in T
        BY <2>3, <2>4, <2>7
      <4> QED BY <1>1, <2>3, <2>7, <4>1
    <3>4. \A e \in M : Lo(e) <= L /\ L <= Hi(e)
      <4> TAKE e \in M
      <4>1. L <= Hi(e) /\ E >= Lo(e) /\ L \in Int /\ E \in Int /\ Lo(e) \in Int
        BY <2>3, <2>4, <3>3 DEF Times
      <4> QED BY <3>1, <4>1
    <3>5. \A e \in Span(f, g) : SampleOk(e, L)
      <4> HIDE DEF M
      <4> QED BY <2>2, <3>3, <3>4
    <3>6. L \in good /\ \A q \in good : q <= L
      <4>1. L \in good
        BY <1>3, <1>5, <3>3, <3>5
      <4>2. ASSUME NEW q \in good PROVE q <= L
        <5>1. q \in T /\ q \in Times /\ \A e \in M : Lo(e) <= q /\ q <= Hi(e)
          BY <1>1, <1>3, <2>2
        <5> QED BY <2>3, <2>7, <5>1
      <4> QED BY <4>1, <4>2
    <3>7. Max(good) = L
      <4>1. good \subseteq Int
        BY <1>1 DEF Times
      <4> HIDE DEF good
      <4> QED BY <3>6, <4>1, MaxIs
    <3>8. PICK W : Weighs(W, G, L, Span(f, g))
      BY <2>1, <3>3, <3>5, SpansWeighed
    <3>9. zero = [status |-> "Ok", stamp |-> L, pose |-> zero.pose] /\ zero.pose = Compose(Inverted(W[f]), W[g])
      <4> HIDE DEF zero
      <4> QED BY <3>2, <3>5, <3>8 DEF Answers
    <3>10. Lookup(f, g, L) = [status |-> "Ok", stamp |-> L, pose |-> zero.pose]
      <4> DEFINE a == Lookup(f, g, L)
      <4>1. a.status = "Ok" /\ Answers(a, f, g, L, G)
        BY <1>5, <3>3, <3>5, LookupAt
      <4> HIDE DEF a, zero
      <4>2. a = [status |-> "Ok", stamp |-> L, pose |-> a.pose] /\ a.pose = Compose(Inverted(W[f]), W[g])
        BY <3>5, <3>8, <4>1 DEF Answers
      <4>3. a = [status |-> "Ok", stamp |-> L, pose |-> zero.pose]
        BY <3>9, <4>2
      <4> QED BY <4>3 DEF a
    <3> HIDE DEF zero, good
    <3>11. zero.status = "Ok" /\ zero.stamp = L /\ zero = Lookup(f, g, L)
      <4>1. zero.status = "Ok" /\ zero.stamp = L
        BY <3>9
      <4> QED BY <3>9, <3>10, <4>1
    <3>12. Goal
      BY <3>3, <3>7, <3>11
    <3> QED BY <3>12 DEF zero, good
  <2> QED BY <2>5, <2>6, <2>7
<1> QED BY <1>4, <1>5

-----------------------------------------------------------------------------
(* The times of histories are those of transforms that were published. *)

Published == {x.time : x \in Inputs["tf"]}

TimesKnown == \A e \in DOMAIN edges : ~edges[e].static => DOMAIN edges[e].poses \subseteq Published

Recorded == TimesKnown /\ batch["tf"] \in Seq(Inputs["tf"])

LEMMA SetImplRecords ==
  ASSUME TypeOK, TimesKnown, NEW w \in Topics, NEW x \in Inputs[w], SetImpl(x, w = "tf_static")
  PROVE  TimesKnown'
<1> DEFINE static == w = "tf_static"
           poses == IF static THEN [t \in {0} |-> x.pose] ELSE History(x)
           new == [parent |-> x.parent, static |-> static, poses |-> poses]
<1>1. CASE Result(x, static) # "Ok"
  <2>1. edges' = edges
    BY <1>1 DEF SetImpl, buffer
  <2> QED BY <2>1 DEF TimesKnown
<1>2. CASE Result(x, static) = "Ok"
  <2>1. edges' = [e \in DOMAIN edges \cup {x.child} |-> IF e = x.child THEN new ELSE edges[e]]
    BY <1>2 DEF SetImpl
  <2>2. ASSUME ~static PROVE DOMAIN History(x) \subseteq Published
    <3>1. w = "tf"
      BY <2>2 DEF Topics
    <3>2. x.time \in Published
      BY <3>1 DEF Published
    <3> DEFINE old == IF x.child \in DOMAIN edges THEN edges[x.child].poses ELSE <<>>
               h == [t \in DOMAIN old \cup {x.time} |-> IF t = x.time THEN x.pose ELSE old[t]]
    <3>3. DOMAIN old \subseteq Published
      <4>1. CASE x.child \in DOMAIN edges
        <5>1. ~edges[x.child].static
          BY <1>2, <2>2, <4>1 DEF Result, TypeOK, Typed
        <5> QED BY <4>1, <5>1 DEF TimesKnown
      <4>2. CASE x.child \notin DOMAIN edges
        <5>1. old = <<>>
          BY <4>2
        <5> QED BY <5>1
      <4> QED BY <4>1, <4>2
    <3>4. History(x) = Pruned(h, duration)
      BY DEF History
    <3> HIDE DEF old
    <3>5. DOMAIN h = DOMAIN old \cup {x.time}
      OBVIOUS
    <3> HIDE DEF h
    <3>6. DOMAIN Pruned(h, duration) \subseteq DOMAIN h
      BY DEF Pruned
    <3> QED BY <3>2, <3>3, <3>4, <3>5, <3>6
  <2>3. ~static => DOMAIN poses \subseteq Published
    BY <2>2
  <2> HIDE DEF poses
  <2>4. /\ DOMAIN edges' = DOMAIN edges \cup {x.child} /\ edges'[x.child] = new
        /\ \A e \in DOMAIN edges : e # x.child => edges'[e] = edges[e]
    BY <2>1
  <2>5. new.static = static /\ new.poses = poses
    OBVIOUS
  <2> HIDE DEF new, static
  <2>6. \A e \in DOMAIN edges' : ~edges'[e].static => DOMAIN edges'[e].poses \subseteq Published
    BY <2>3, <2>4, <2>5 DEF TimesKnown
  <2> QED BY <2>6 DEF TimesKnown
<1> QED BY <1>1, <1>2

LEMMA RecordedStep == BufferInv /\ Recorded /\ [Next]_vars => Recorded'
<1> SUFFICES ASSUME BufferInv, Recorded, [Next]_vars PROVE Recorded'
  OBVIOUS
<1> USE DEF Recorded
<1>0. TypeOK /\ "tf" \in Topics
  BY DEF BufferInv, Topics
<1>1. ASSUME NEW d \in Durations, SetCacheDuration(d) PROVE Recorded'
  <2>1. batch' = batch
    BY <1>1 DEF SetCacheDuration, listener
  <2>2. /\ DOMAIN edges' = DOMAIN edges
        /\ \A e \in DOMAIN edges :
             edges'[e] = IF edges[e].static THEN edges[e] ELSE [edges[e] EXCEPT !.poses = Pruned(@, d)]
    BY <1>1 DEF SetCacheDuration
  <2>3. ASSUME NEW e \in DOMAIN edges, ~edges'[e].static PROVE DOMAIN edges'[e].poses \subseteq Published
    <3>1. CASE edges[e].static
      BY <2>2, <2>3, <3>1
    <3>2. CASE ~edges[e].static
      <4> DEFINE h == edges[e].poses
      <4>1. edges[e] = [parent |-> edges[e].parent, static |-> edges[e].static, poses |-> h]
        BY <1>0 DEF TypeOK, Typed
      <4>2. edges'[e].poses = Pruned(h, d)
        BY <2>2, <3>2, <4>1
      <4>3. DOMAIN h \subseteq Published
        BY <3>2 DEF TimesKnown
      <4> HIDE DEF h
      <4>4. DOMAIN Pruned(h, d) \subseteq DOMAIN h
        BY DEF Pruned
      <4> QED BY <4>2, <4>3, <4>4
    <3> QED BY <3>1, <3>2
  <2> QED BY <2>1, <2>2, <2>3 DEF TimesKnown
<1>2. CASE Clear \/ DestroyBuffer
  <2>1. DOMAIN edges' = {} /\ batch' = batch
    BY <1>2 DEF Clear, DestroyBuffer, listener
  <2> QED BY <2>1 DEF TimesKnown
<1>3. CASE Deactivate
  BY <1>3 DEF Deactivate, buffer, TimesKnown
<1>4. ASSUME NEW w \in Topics, NEW x \in Inputs[w], Set(x, w) PROVE Recorded'
  <2>1. SetImpl(x, w = "tf_static") /\ batch' = batch
    BY <1>4 DEF Set, listener
  <2> QED BY <1>0, <2>1, SetImplRecords
<1>5. ASSUME NEW w \in Topics, NEW b \in Batches[w], Receive(w, b) PROVE Recorded'
  <2>1. edges' = edges /\ batch' = [batch EXCEPT ![w] = b] /\ b \in Seq(Inputs[w])
    BY <1>5, InputsAssumption DEF Receive, buffer
  <2> QED BY <1>0, <2>1 DEF TimesKnown, BufferInv, TypeOK
<1>6. ASSUME NEW w \in Topics, InsertNext(w) PROVE Recorded'
  <2> DEFINE x == Head(batch[w])
  <2>1. /\ SetImpl(x, w = "tf_static") /\ batch[w] # <<>> /\ batch' = [batch EXCEPT ![w] = Tail(@)]
        /\ batch \in [Topics -> Seq(Transforms)]
    BY <1>6 DEF InsertNext, BufferInv, TypeOK
  <2>2. batch'["tf"] \in Seq(Inputs["tf"])
    <3>1. CASE w = "tf"
      <4>1. batch["tf"] \in Seq(Inputs["tf"]) /\ batch["tf"] # <<>> /\ batch'["tf"] = Tail(batch["tf"])
        BY <1>0, <2>1, <3>1
      <4> DEFINE s == batch["tf"]
                 K == Inputs["tf"]
      <4>2. s \in Seq(K) /\ s # <<>> /\ batch'["tf"] = Tail(s)
        BY <4>1
      <4> HIDE DEF s, K
      <4>3. Tail(s) \in Seq(K)
        BY <4>2
      <4>4. batch'["tf"] \in Seq(K)
        BY <4>2, <4>3
      <4> QED BY <4>4 DEF K
    <3>2. CASE w # "tf"
      BY <1>0, <2>1, <3>2
    <3> QED BY <3>1, <3>2
  <2>3. TimesKnown'
    <3>1. CASE w = "tf"
      <4>1. x \in Inputs[w]
        BY <2>1, <3>1
      <4> HIDE DEF x
      <4> QED BY <1>0, <2>1, <4>1, SetImplRecords
    <3>2. CASE w = "tf_static"
      <4> HIDE DEF x
      <4>1. SetImpl(x, TRUE)
        BY <2>1, <3>2
      <4>2. edges' = edges \/ edges' = [e \in DOMAIN edges \cup {x.child} |->
              IF e = x.child THEN [parent |-> x.parent, static |-> TRUE, poses |-> [t \in {0} |-> x.pose]]
              ELSE edges[e]]
        BY <4>1 DEF SetImpl, buffer
      <4>3. \A e \in DOMAIN edges' :
              ~edges'[e].static => e \in DOMAIN edges /\ edges'[e] = edges[e]
        BY <4>2
      <4> QED BY <4>3 DEF TimesKnown
    <3> QED BY <3>1, <3>2 DEF Topics
  <2> QED BY <2>2, <2>3
<1>7. ASSUME NEW w \in Topics, ReceiveDone(w) PROVE Recorded'
  BY <1>7 DEF ReceiveDone, buffer, TimesKnown
<1>8. CASE UNCHANGED vars
  BY SMTT(30), <1>8 DEF vars, buffer, listener, TimesKnown
<1> QED BY <1>1, <1>2, <1>3, <1>4, <1>5, <1>6, <1>7, <1>8 DEF Next

LEMMA AgreeNow ==
  ASSUME BufferInv, Recorded, NEW G, PosesIn(G), \A x \in Inputs["tf"] : x.time # 0
  PROVE  LookupsAgree
<1> DEFINE T == {x.time : x \in Inputs["tf"]}
           P == frames \X frames
           ans == [q \in T \cup {0} |-> [p \in P |-> Lookup(p[1], p[2], q)]]
           ok == [q \in T |-> {p \in P : ans[q][p].status = "Ok"}]
<1>1. T \subseteq Times /\ 0 \notin T /\ 0 \in Times /\ \A q \in T : q # 0
  <2>1. \A x \in Inputs["tf"] : x.time \in Times /\ x.time # 0
    BY InputsAssumption DEF Topics, Transforms
  <2>2. 0 \in Times
    BY PastAssumption DEF Times
  <2> QED BY <2>1, <2>2
<1>2. /\ TypeOK /\ Forest /\ Window
      /\ \A e \in DOMAIN edges : ~edges[e].static => DOMAIN edges[e].poses \subseteq T
  BY DEF BufferInv, Recorded, TimesKnown, Published
<1> HIDE DEF T
<1>3. \A q \in T \cup {0}, f, g \in frames : ans[q][<<f, g>>] = Lookup(f, g, q)
  <2> TAKE q \in T \cup {0}, f, g \in frames
  <2>1. <<f, g>> \in P /\ <<f, g>>[1] = f /\ <<f, g>>[2] = g
    OBVIOUS
  <2> QED BY <2>1
<1>4. \A q \in T : ok[q] = {p \in P : ans[q][p].status = "Ok"}
  OBVIOUS
<1>5. \A p \in P : p = <<p[1], p[2]>> /\ p[1] \in frames /\ p[2] \in frames
  OBVIOUS
<1> HIDE DEF ans, ok, P
<1>6. ASSUME NEW q \in T, NEW p \in ok[q], NEW f \in frames, <<p[2], f>> \in ok[q]
      PROVE  ans[q][p[1], f].pose = Compose(ans[q][p].pose, ans[q][p[2], f].pose)
  <2>1. p \in P /\ ans[q][p].status = "Ok" /\ ans[q][<<p[2], f>>].status = "Ok"
    BY <1>4, <1>6
  <2>2. p[1] \in frames /\ p[2] \in frames /\ p = <<p[1], p[2]>>
    BY <1>5, <2>1
  <2> DEFINE x == p[1]
             y == p[2]
  <2> HIDE DEF x, y
  <2>3. /\ x \in frames /\ y \in frames /\ ans[q][p] = Lookup(x, y, q)
        /\ ans[q][<<y, f>>] = Lookup(y, f, q) /\ ans[q][<<x, f>>] = Lookup(x, f, q)
    <3>1. x \in frames /\ y \in frames /\ p = <<x, y>>
      BY <2>2 DEF x, y
    <3> QED BY <1>3, <3>1
  <2>4. Lookup(x, y, q).status = "Ok" /\ Lookup(y, f, q).status = "Ok"
    BY <2>1, <2>3 DEF y
  <2>5. Lookup(x, f, q).pose = Compose(Lookup(x, y, q).pose, Lookup(y, f, q).pose)
    BY <1>1, <1>2, <2>3, <2>4, LookupsCompose
  <2>6. ans[q][<<x, f>>].pose = Compose(ans[q][p].pose, ans[q][<<y, f>>].pose)
    BY <2>3, <2>5
  <2> QED BY <2>6 DEF x, y
<1>7. ASSUME NEW q \in T, NEW e \in DOMAIN edges, ~edges[e].static, q \in DOMAIN edges[e].poses
      PROVE  ans[q][edges[e].parent, e] = [status |-> "Ok", stamp |-> q, pose |-> edges[e].poses[q]]
  <2>1. edges[e].parent \in frames /\ e \in frames
    BY <1>2 DEF Forest
  <2>2. ans[q][<<edges[e].parent, e>>] = Lookup(edges[e].parent, e, q)
    BY <1>3, <2>1
  <2>3. Lookup(edges[e].parent, e, q) = [status |-> "Ok", stamp |-> q, pose |-> edges[e].poses[q]]
    BY <1>1, <1>2, <1>7, SampleFound
  <2> QED BY <2>2, <2>3
<1>8. ASSUME NEW p \in P
      PROVE  LET zero == ans[0][p]
                 good == {q \in T : p \in ok[q]}
             IN  /\ zero.status \notin {"ExtrapolationPast", "ExtrapolationFuture"}
                 /\ zero.status = "NoCommonTime" => good = {}
                 /\ zero.status = "Ok" =>
                      IF zero.stamp = 0 THEN \A q \in T : ans[q][p] = [zero EXCEPT !.stamp = q]
                      ELSE zero.stamp = Max(good) /\ zero = ans[zero.stamp][p]
  <2> DEFINE x == p[1]
             y == p[2]
             zero == Lookup(x, y, 0)
             good == {q \in T : Lookup(x, y, q).status = "Ok"}
  <2>1. x \in frames /\ y \in frames /\ p = <<x, y>>
    BY <1>5
  <2> HIDE DEF x, y
  <2>2. \A q \in T \cup {0} : ans[q][p] = Lookup(x, y, q)
    BY <1>3, <2>1
  <2>3. {q \in T : p \in ok[q]} = good /\ ans[0][p] = zero
    BY <1>4, <2>2
  <2>4. /\ zero.status \notin {"ExtrapolationPast", "ExtrapolationFuture"}
        /\ zero.status = "NoCommonTime" => good = {}
        /\ zero.status = "Ok" =>
             IF zero.stamp = 0 THEN \A q \in T : Lookup(x, y, q) = [zero EXCEPT !.stamp = q]
             ELSE zero.stamp \in T /\ zero.stamp = Max(good) /\ zero = Lookup(x, y, zero.stamp)
    BY <1>1, <1>2, <2>1, LookupLatest
  <2> HIDE DEF zero, good
  <2>5. /\ zero.status \notin {"ExtrapolationPast", "ExtrapolationFuture"}
        /\ zero.status = "NoCommonTime" => good = {}
        /\ zero.status = "Ok" =>
             IF zero.stamp = 0 THEN \A q \in T : ans[q][p] = [zero EXCEPT !.stamp = q]
             ELSE zero.stamp = Max(good) /\ zero = ans[zero.stamp][p]
    BY <2>2, <2>4
  <2> QED BY <2>3, <2>5
<1> QED BY ZenonT(60), <1>6, <1>7, <1>8 DEF LookupsAgree, ans, ok, P, T

(* Poses are composed along the paths to the frame that two frames have in *)
(* common, so that every way between them gives the same; a lookup for the *)
(* latest is the lookup at the latest time that succeeds.  Between poses   *)
(* there is a group, and no dynamic transform is of the time 0, by which a *)
(* lookup asks for the latest.                                             *)
THEOREM LookupsAlwaysAgree ==
  ASSUME NEW G, PosesIn(G), \A x \in Inputs["tf"] : x.time # 0
  PROVE  Spec => []LookupsAgree
<1>1. Init => Recorded
  <2> SUFFICES ASSUME Init PROVE Recorded
    OBVIOUS
  <2>1. DOMAIN edges = {} /\ batch["tf"] = <<>>
    BY DEF Init, Topics
  <2> QED BY <2>1 DEF Recorded, TimesKnown
<1>2. BufferInv /\ Recorded => LookupsAgree
  BY AgreeNow
<1> QED BY <1>1, <1>2, BufferInit, BufferStep, RecordedStep, PTL DEF Spec

=============================================================================
