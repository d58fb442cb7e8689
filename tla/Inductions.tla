----------------------------- MODULE Inductions -----------------------------
(***************************************************************************)
(* Induction over the natural numbers for the proofs of other modules.     *)
(* The library's theorem is about a formula and not one that a proof can   *)
(* be given to; here it is about a set of numbers.  From it: recursive     *)
(* functions, and sums over the numbers in a set.                          *)
(***************************************************************************)
EXTENDS Integers, SequencesExt, WellFoundedInduction, TLAPS

LEMMA LeastNat ==
  ASSUME NEW T, T \subseteq Nat, T # {}
  PROVE  \E n \in T : \A m \in T : n <= m
<1> DEFINE R == OpToRel(<, Nat)
<1>1. IsWellFoundedOn(R, Nat) BY NatLessThanWellFounded
<1>2. PICK x \in T : \A y \in T : ~ (<<y, x>> \in R) BY <1>1, WFMin
<1>3. \A y, z \in Nat : <<y, z>> \in R <=> y < z BY DEF OpToRel
<1>4. \A y \in T : x <= y
  <2> TAKE y \in T
  <2>1. x \in Nat /\ y \in Nat OBVIOUS
  <2>2. ~(<<y, x>> \in R) BY <1>2
  <2> HIDE DEF R
  <2> QED BY <1>3, <2>1, <2>2
<1> QED BY <1>4

LEMMA SetInduction ==
  ASSUME NEW T, 0 \in T, \A n \in Nat : n \in T => n + 1 \in T
  PROVE  Nat \subseteq T
<1> DEFINE M == {n \in Nat : n \notin T}
<1> SUFFICES ASSUME M # {} PROVE FALSE
  OBVIOUS
<1>1. PICK n \in M : \A m \in M : n <= m BY LeastNat
<1>2. n # 0 /\ n \in Nat BY <1>1
<1>3. n - 1 \in Nat /\ n - 1 \notin M BY <1>1, <1>2
<1> QED BY <1>1, <1>3

(* A function defined by what it was one number earlier exists. *)
Follows(g, n, S, s0, step) ==
  /\ g \in [0 .. n -> S]
  /\ \A i \in 0 .. n : g[i] = IF i = 0 THEN s0 ELSE step[i][g[i - 1]]

LEMMA Recursion ==
  ASSUME NEW n \in Nat, NEW S, NEW s0 \in S, NEW step \in [1 .. n -> [S -> S]]
  PROVE  \E g : Follows(g, n, S, s0, step)
<1> DEFINE Good(k, g) == \A i \in 0 .. k : g[i] = IF i = 0 THEN s0 ELSE step[i][g[i - 1]]
           T == {k \in Nat : k <= n => \E g \in [0 .. k -> S] : Good(k, g)}
<1>1. 0 \in T
  <2> DEFINE g == [i \in 0 .. 0 |-> s0]
  <2>1. g \in [0 .. 0 -> S] /\ Good(0, g) OBVIOUS
  <2> QED BY <2>1
<1>2. ASSUME NEW k \in Nat, k \in T PROVE k + 1 \in T
  <2> SUFFICES ASSUME k + 1 <= n PROVE \E g \in [0 .. k + 1 -> S] : Good(k + 1, g)
    OBVIOUS
  <2>1. PICK g \in [0 .. k -> S] : Good(k, g) BY <1>2
  <2> DEFINE h == [i \in 0 .. k + 1 |-> IF i = k + 1 THEN step[k + 1][g[k]] ELSE g[i]]
  <2>2. step[k + 1][g[k]] \in S OBVIOUS
  <2>3. h \in [0 .. k + 1 -> S] BY <2>2
  <2>4. \A i \in 0 .. k : h[i] = g[i] OBVIOUS
  <2>5. h[k + 1] = step[k + 1][h[k]]
    <3>1. h[k] = g[k] /\ k + 1 \in 0 .. k + 1 BY <2>4
    <3>2. h[k + 1] = step[k + 1][g[k]] OBVIOUS
    <3> QED BY <3>1, <3>2
  <2>6. ASSUME NEW i \in 0 .. k + 1 PROVE h[i] = IF i = 0 THEN s0 ELSE step[i][h[i - 1]]
    <3>1. CASE i = k + 1
      <4>1. (k + 1) - 1 = k /\ k + 1 # 0 OBVIOUS
      <4> HIDE DEF h
      <4> QED BY <2>5, <3>1, <4>1
    <3>2. CASE i = 0
      <4>1. h[0] = g[0] BY <2>4
      <4>2. g[0] = s0 BY <2>1
      <4> HIDE DEF h
      <4> QED BY <3>2, <4>1, <4>2
    <3>3. CASE i \in 1 .. k
      <4>1. h[i] = g[i] /\ h[i - 1] = g[i - 1] BY <2>4, <3>3
      <4> HIDE DEF h
      <4> QED BY <2>1, <3>3, <4>1
    <3> QED BY <3>1, <3>2, <3>3
  <2> HIDE DEF h
  <2> QED BY <2>3, <2>6
<1> HIDE DEF T
<1>3. n \in T BY <1>1, <1>2, SetInduction
<1> QED BY <1>3 DEF T, Follows

-----------------------------------------------------------------------------
(* The sum of the w[n] whose n is in S. *)
Total(w, S) ==
  LET sum[n \in 0 .. Len(w)] ==
        IF n = 0 THEN 0 ELSE sum[n - 1] + (IF n \in S THEN w[n] ELSE 0)
  IN sum[Len(w)]

(* What sums up the numbers of w that are in S. *)
Sums(f, w, S) ==
  /\ f \in [0 .. Len(w) -> Nat] /\ f[0] = 0
  /\ \A n \in 1 .. Len(w) : f[n] = f[n - 1] + (IF n \in S THEN w[n] ELSE 0)

LEMMA TotalSums ==
  ASSUME NEW w \in Seq(Nat), NEW S
  PROVE  \E f : Sums(f, w, S) /\ Total(w, S) = f[Len(w)]
<1> DEFINE n == Len(w)
           Plus(i, v) == v + (IF i \in S THEN w[i] ELSE 0)
           step == [i \in 1 .. n |-> [v \in Nat |-> Plus(i, v)]]
<1>1. n \in Nat /\ \A i \in 1 .. n : w[i] \in Nat
  OBVIOUS
<1>2. step \in [1 .. n -> [Nat -> Nat]]
  BY <1>1
<1>3. PICK g : Follows(g, n, Nat, 0, step)
  <2> HIDE DEF step, n
  <2> QED BY <1>1, <1>2, Recursion
<1>4. g = [i \in 0 .. n |-> IF i = 0 THEN 0 ELSE Plus(i, g[i - 1])]
  <2>1. ASSUME NEW i \in 0 .. n, i # 0 PROVE step[i][g[i - 1]] = Plus(i, g[i - 1])
    <3>1. i \in 1 .. n /\ i - 1 \in 0 .. n
      BY <1>1, <2>1
    <3>2. g[i - 1] \in Nat
      <4> HIDE DEF n, step
      <4> QED BY <1>3, <3>1 DEF Follows
    <3> HIDE DEF Plus, n
    <3> QED BY <3>1, <3>2
  <2> HIDE DEF step, Plus, n
  <2> QED BY <1>3, <2>1 DEF Follows
<1>5. PICK f : f = [i \in 0 .. n |-> IF i = 0 THEN 0 ELSE Plus(i, f[i - 1])]
               /\ Total(w, S) = f[n]
  <2> DEFINE d == CHOOSE d : d = [i \in 0 .. n |-> IF i = 0 THEN 0 ELSE Plus(i, d[i - 1])]
  <2>1. Total(w, S) = d[n]
    BY DEF Total
  <2>2. d = [i \in 0 .. n |-> IF i = 0 THEN 0 ELSE Plus(i, d[i - 1])]
    <3> HIDE DEF n, Plus
    <3> QED BY <1>4
  <2> HIDE DEF d, n, Plus
  <2> QED BY <2>1, <2>2
<1>6. f[0] = 0 /\ \A i \in 1 .. n : f[i] = Plus(i, f[i - 1])
  <2> HIDE DEF Plus, n
  <2>1. 0 \in 0 .. n /\ \A i \in 1 .. n : i \in 0 .. n /\ i # 0
    BY <1>1
  <2> QED BY <1>5, <2>1
<1> DEFINE T == {i \in Nat : i <= n => f[i] \in Nat}
<1>7. ASSUME NEW i \in Nat, i \in T PROVE i + 1 \in T
  <2> SUFFICES ASSUME i + 1 <= n PROVE f[i + 1] \in Nat
    OBVIOUS
  <2>1. i + 1 \in 1 .. n /\ (i + 1) - 1 = i /\ f[i] \in Nat /\ w[i + 1] \in Nat
    BY <1>1, <1>7
  <2>2. f[i + 1] = Plus(i + 1, f[i])
    <3> HIDE DEF Plus, n
    <3> QED BY <1>6, <2>1
  <2> QED BY <2>1, <2>2
<1>8. Nat \subseteq T
  <2>1. 0 \in T
    BY <1>6
  <2> HIDE DEF T
  <2> QED BY <1>7, <2>1, SetInduction
<1>9. f \in [0 .. n -> Nat]
  <2>1. \A i \in 0 .. n : f[i] \in Nat
    BY <1>1, <1>8
  <2> HIDE DEF Plus, n
  <2> QED BY <1>5, <2>1
<1> QED BY <1>5, <1>6, <1>9 DEF Sums

(* Two such functions agree as far as the sequences do. *)
LEMMA SumsAgree ==
  ASSUME NEW v \in Seq(Nat), NEW w \in Seq(Nat), NEW S, NEW f, NEW g, NEW k \in Nat,
         Sums(f, v, S), Sums(g, w, S), k <= Len(v), k <= Len(w),
         \A n \in 1 .. k : v[n] = w[n]
  PROVE  f[k] = g[k]
<1> DEFINE Q == {n \in Nat : n <= k => f[n] = g[n]}
<1>1. 0 \in Q
  BY DEF Sums
<1>2. ASSUME NEW n \in Nat, n \in Q PROVE n + 1 \in Q
  <2> SUFFICES ASSUME n + 1 <= k PROVE f[n + 1] = g[n + 1]
    OBVIOUS
  <2>1. n + 1 \in 1 .. k /\ n + 1 \in 1 .. Len(v) /\ n + 1 \in 1 .. Len(w) /\ (n + 1) - 1 = n
    OBVIOUS
  <2>2. f[n] = g[n] /\ v[n + 1] = w[n + 1]
    BY <1>2, <2>1
  <2>3. /\ f[n + 1] = f[n] + (IF n + 1 \in S THEN v[n + 1] ELSE 0)
        /\ g[n + 1] = g[n] + (IF n + 1 \in S THEN w[n + 1] ELSE 0)
    BY <2>1 DEF Sums
  <2> QED BY <2>2, <2>3
<1> HIDE DEF Q
<1>3. k \in Q
  BY <1>1, <1>2, SetInduction
<1> QED BY <1>3 DEF Q

(* Parts that have nothing in common. *)
LEMMA TotalUnion ==
  ASSUME NEW w \in Seq(Nat), NEW S, NEW T, S \cap T = {}
  PROVE  Total(w, S \cup T) = Total(w, S) + Total(w, T)
<1>1. PICK f : Sums(f, w, S) /\ Total(w, S) = f[Len(w)]
  BY TotalSums
<1>2. PICK g : Sums(g, w, T) /\ Total(w, T) = g[Len(w)]
  BY TotalSums
<1>3. PICK h : Sums(h, w, S \cup T) /\ Total(w, S \cup T) = h[Len(w)]
  BY TotalSums
<1> DEFINE Q == {n \in Nat : n <= Len(w) => h[n] = f[n] + g[n]}
<1>4. 0 \in Q
  BY <1>1, <1>2, <1>3 DEF Sums
<1>5. ASSUME NEW n \in Nat, n \in Q PROVE n + 1 \in Q
  <2> SUFFICES ASSUME n + 1 <= Len(w) PROVE h[n + 1] = f[n + 1] + g[n + 1]
    OBVIOUS
  <2>1. /\ n + 1 \in 1 .. Len(w) /\ (n + 1) - 1 = n /\ n \in 0 .. Len(w)
        /\ h[n] = f[n] + g[n] /\ w[n + 1] \in Nat
    BY <1>5
  <2>2. /\ h[n + 1] = h[n] + (IF n + 1 \in S \cup T THEN w[n + 1] ELSE 0)
        /\ f[n + 1] = f[n] + (IF n + 1 \in S THEN w[n + 1] ELSE 0)
        /\ g[n + 1] = g[n] + (IF n + 1 \in T THEN w[n + 1] ELSE 0)
        /\ f[n] \in Nat /\ g[n] \in Nat
    BY <1>1, <1>2, <1>3, <2>1 DEF Sums
  <2> QED BY <2>1, <2>2
<1> HIDE DEF Q
<1>6. Len(w) \in Nat /\ Len(w) \in Q
  BY SMTT(120), <1>4, <1>5, SetInduction
<1>7. h[Len(w)] = f[Len(w)] + g[Len(w)]
  BY <1>6 DEF Q
<1> QED BY <1>1, <1>2, <1>3, <1>7

(* Only what is in the sequence counts. *)
LEMMA TotalNone ==
  ASSUME NEW w \in Seq(Nat), NEW S, \A n \in 1 .. Len(w) : n \notin S
  PROVE  Total(w, S) = 0
<1>1. PICK f : Sums(f, w, S) /\ Total(w, S) = f[Len(w)]
  BY TotalSums
<1> DEFINE Q == {n \in Nat : n <= Len(w) => f[n] = 0}
<1>2. 0 \in Q
  BY <1>1 DEF Sums
<1>3. ASSUME NEW n \in Nat, n \in Q PROVE n + 1 \in Q
  <2> SUFFICES ASSUME n + 1 <= Len(w) PROVE f[n + 1] = 0
    OBVIOUS
  <2>1. n + 1 \in 1 .. Len(w) /\ (n + 1) - 1 = n /\ f[n] = 0
    BY <1>3
  <2> QED BY <1>1, <2>1 DEF Sums
<1> HIDE DEF Q
<1>4. Len(w) \in Nat /\ Len(w) \in Q
  BY SMTT(120), <1>2, <1>3, SetInduction
<1> QED BY <1>1, <1>4 DEF Q

(* A number more. *)
LEMMA TotalAppend ==
  ASSUME NEW w \in Seq(Nat), NEW s \in Nat, NEW S
  PROVE  Total(Append(w, s), S) = Total(w, S) + (IF Len(w) + 1 \in S THEN s ELSE 0)
<1> DEFINE v == Append(w, s)
           k == Len(w)
<1>1. /\ v \in Seq(Nat) /\ Len(v) = k + 1 /\ v[k + 1] = s /\ k \in Nat
      /\ \A n \in 1 .. k : v[n] = w[n]
  OBVIOUS
<1> HIDE DEF v
<1>2. PICK f : Sums(f, w, S) /\ Total(w, S) = f[Len(w)]
  BY TotalSums
<1>3. PICK g : Sums(g, v, S) /\ Total(v, S) = g[Len(v)]
  BY <1>1, TotalSums
<1>4. f[k] = g[k]
  <2>1. k <= Len(w) /\ k <= Len(v) /\ k \in Nat /\ v \in Seq(Nat) /\ \A n \in 1 .. k : w[n] = v[n]
    BY <1>1
  <2> HIDE DEF k
  <2> QED BY <1>2, <1>3, <2>1, SumsAgree
<1>5. g[k + 1] = g[k] + (IF k + 1 \in S THEN s ELSE 0)
  <2>1. k + 1 \in 1 .. Len(v) /\ (k + 1) - 1 = k
    BY <1>1
  <2> QED BY <1>1, <1>3, <2>1 DEF Sums
<1> QED BY <1>1, <1>2, <1>3, <1>4, <1>5 DEF v

(* One number. *)
LEMMA TotalOne ==
  ASSUME NEW w \in Seq(Nat), NEW e \in 1 .. Len(w)
  PROVE  Total(w, {e}) = w[e]
<1>1. PICK f : Sums(f, w, {e}) /\ Total(w, {e}) = f[Len(w)]
  BY TotalSums
<1> DEFINE Q == {n \in Nat : n <= Len(w) => f[n] = IF n < e THEN 0 ELSE w[e]}
<1>2. 0 \in Q
  BY <1>1 DEF Sums
<1>3. ASSUME NEW n \in Nat, n \in Q PROVE n + 1 \in Q
  <2> SUFFICES ASSUME n + 1 <= Len(w) PROVE f[n + 1] = IF n + 1 < e THEN 0 ELSE w[e]
    OBVIOUS
  <2>1. n + 1 \in 1 .. Len(w) /\ (n + 1) - 1 = n /\ (f[n] = IF n < e THEN 0 ELSE w[e]) /\ w[e] \in Nat
    BY <1>3
  <2>2. f[n + 1] = f[n] + (IF n + 1 = e THEN w[n + 1] ELSE 0)
    BY <1>1, <2>1 DEF Sums
  <2> QED BY <2>1, <2>2
<1> HIDE DEF Q
<1>4. Nat \subseteq Q
  BY <1>2, <1>3, SetInduction
<1>5. Len(w) \in Nat /\ ~(Len(w) < e)
  OBVIOUS
<1> QED BY <1>1, <1>4, <1>5 DEF Q

LEMMA TotalType == ASSUME NEW w \in Seq(Nat), NEW S PROVE Total(w, S) \in Nat
<1>1. PICK f : Sums(f, w, S) /\ Total(w, S) = f[Len(w)]
  BY TotalSums
<1>2. Len(w) \in 0 .. Len(w)
  OBVIOUS
<1> QED BY <1>1, <1>2 DEF Sums

(* A member more, or less. *)
LEMMA TotalAdd ==
  ASSUME NEW w \in Seq(Nat), NEW S, NEW e \in 1 .. Len(w), e \notin S
  PROVE  Total(w, S \cup {e}) = Total(w, S) + w[e]
<1>1. S \cap {e} = {} /\ Total(w, {e}) = w[e]
  BY TotalOne
<1> QED BY <1>1, TotalUnion

LEMMA TotalLess ==
  ASSUME NEW w \in Seq(Nat), NEW S, NEW T, T \subseteq S
  PROVE  Total(w, S \ T) = Total(w, S) - Total(w, T)
<1>1. S = (S \ T) \cup T /\ (S \ T) \cap T = {}
  OBVIOUS
<1>2. Total(w, S) = Total(w, S \ T) + Total(w, T)
  BY <1>1, TotalUnion
<1>3. Total(w, S \ T) \in Nat /\ Total(w, T) \in Nat
  BY TotalType
<1> QED BY <1>2, <1>3

LEMMA TotalZero ==
  ASSUME NEW w \in Seq(Nat), NEW S, Total(w, S) = 0, NEW e \in 1 .. Len(w), e \in S
  PROVE  w[e] = 0
<1>1. Total(w, S \ {e}) = 0 - w[e]
  <2>1. {e} \subseteq S /\ Total(w, {e}) = w[e]
    BY TotalOne
  <2>2. Total(w, S \ {e}) = Total(w, S) - Total(w, {e})
    BY <2>1, TotalLess
  <2> QED BY <2>1, <2>2
<1>2. Total(w, S \ {e}) \in Nat /\ w[e] \in Nat
  BY TotalType
<1> QED BY <1>1, <1>2
-----------------------------------------------------------------------------
(* FoldLeft goes through the sets of indices that are left, from the top.  *)
LEMMA TopIs ==
  ASSUME NEW n \in Nat, NEW s \in SUBSET (1 .. n), s # {}
  PROVE  Max(s) \in s /\ \A i \in s : i <= Max(s)
<1> DEFINE T == {n - i : i \in s}
<1>1. T \subseteq Nat /\ T # {}
  <2>1. \A i \in s : n - i \in Nat
    OBVIOUS
  <2> QED BY <2>1
<1>2. PICK d \in T : \A e \in T : d <= e
  BY <1>1, LeastNat
<1>3. PICK m \in s : d = n - m
  OBVIOUS
<1>4. \A i \in s : i <= m
  <2> TAKE i \in s
  <2>1. n - i \in T
    OBVIOUS
  <2> HIDE DEF T
  <2> QED BY <1>2, <1>3, <2>1
<1> QED BY <1>4 DEF Max

LEMMA TopOfAll ==
  ASSUME NEW k \in Nat, k # 0
  PROVE  Max(1 .. k) = k /\ (1 .. k) \ {Max(1 .. k)} = 1 .. k - 1
<1>1. 1 .. k # {} /\ k \in 1 .. k
  OBVIOUS
<1>2. Max(1 .. k) \in 1 .. k /\ k <= Max(1 .. k)
  BY <1>1, TopIs
<1>3. Max(1 .. k) = k
  BY <1>2
<1>4. (1 .. k) \ {k} = 1 .. k - 1
  OBVIOUS
<1> QED BY <1>3, <1>4

Folded(it, n, S, s0, step) ==
  /\ it \in [SUBSET (1 .. n) -> S]
  /\ \A s \in SUBSET (1 .. n) : it[s] = IF s = {} THEN s0 ELSE step[Max(s)][it[s \ {Max(s)}]]

LEMMA FoldExists ==
  ASSUME NEW n \in Nat, NEW S, NEW s0 \in S, NEW step \in [1 .. n -> [S -> S]]
  PROVE  \E it : Folded(it, n, S, s0, step)
<1> DEFINE Good(k, it) == \A s \in SUBSET (1 .. k) :
                            it[s] = IF s = {} THEN s0 ELSE step[Max(s)][it[s \ {Max(s)}]]
           Has(k) == \E it \in [SUBSET (1 .. k) -> S] : Good(k, it)
           T == {k \in Nat : k <= n => Has(k)}
<1>1. Has(0)
  <2> DEFINE it == [s \in SUBSET (1 .. 0) |-> s0]
  <2>1. \A s \in SUBSET (1 .. 0) : s = {}
    OBVIOUS
  <2>2. it \in [SUBSET (1 .. 0) -> S] /\ Good(0, it)
    BY <2>1
  <2> HIDE DEF it, Good
  <2> QED BY <2>2
<1>2. ASSUME NEW k \in Nat, k + 1 <= n, Has(k) PROVE Has(k + 1)
  <2>1. PICK it \in [SUBSET (1 .. k) -> S] : Good(k, it)
    BY <1>2
  <2> DEFINE D == SUBSET (1 .. k + 1)
             up == [s \in D |-> IF k + 1 \in s THEN step[k + 1][it[s \ {k + 1}]] ELSE it[s]]
  <2>2. \A s \in D : s \ {k + 1} \in SUBSET (1 .. k) /\ (k + 1 \notin s => s \in SUBSET (1 .. k))
    OBVIOUS
  <2>3. step[k + 1] \in [S -> S]
    BY <1>2
  <2>4. up \in [D -> S]
    BY <2>2, <2>3
  <2>5. \A s \in SUBSET (1 .. k) : s \in D /\ k + 1 \notin s
    OBVIOUS
  <2>6. \A s \in SUBSET (1 .. k) : up[s] = it[s]
    BY <2>5
  <2>7. ASSUME NEW s \in D PROVE up[s] = IF s = {} THEN s0 ELSE step[Max(s)][up[s \ {Max(s)}]]
    <3>1. CASE k + 1 \in s
      <4>1. Max(s) \in s /\ k + 1 <= Max(s)
        BY <3>1, TopIs, k + 1 \in Nat
      <4>2. Max(s) = k + 1
        <5>1. \A i \in s : i \in 1 .. k + 1
          OBVIOUS
        <5>2. Max(s) \in 1 .. k + 1
          BY <4>1, <5>1
        <5> QED BY <4>1, <5>2
      <4>3. up[s \ {k + 1}] = it[s \ {k + 1}]
        BY <2>2, <2>6
      <4>4. up[s] = step[k + 1][it[s \ {k + 1}]] /\ s # {}
        BY <3>1
      <4> HIDE DEF up
      <4> QED BY <4>2, <4>3, <4>4
    <3>2. CASE k + 1 \notin s /\ s # {}
      <4>1. s \in SUBSET (1 .. k)
        BY <2>2, <3>2
      <4>2. s \ {Max(s)} \in SUBSET (1 .. k)
        BY <4>1
      <4>3. up[s] = it[s] /\ up[s \ {Max(s)}] = it[s \ {Max(s)}]
        BY <2>6, <4>1, <4>2
      <4> QED BY <2>1, <3>2, <4>1, <4>3
    <3>3. CASE s = {}
      <4>1. s \in SUBSET (1 .. k)
        BY <3>3
      <4> QED BY <2>1, <2>6, <3>3, <4>1
    <3> QED BY <3>1, <3>2, <3>3
  <2> HIDE DEF up
  <2> QED BY <2>4, <2>7
<1>3. Has(n)
  <2> HIDE DEF Has
  <2>1. 0 \in T /\ \A k \in Nat : k \in T => k + 1 \in T
    BY <1>1, <1>2
  <2> HIDE DEF T
  <2>2. n \in T
    BY <2>1, SetInduction
  <2> QED BY <2>2 DEF T
<1> QED BY <1>3 DEF Folded

(* What goes through them so follows the steps from the first to the last. *)
FoldsUp(it, n, S, s0, step) ==
  /\ it[{}] = s0
  /\ \A s \in SUBSET (1 .. n) :
       s # {} /\ it[s \ {Max(s)}] \in S => it[s] = step[Max(s)][it[s \ {Max(s)}]]

LEMMA FoldIs ==
  ASSUME NEW n \in Nat, NEW S, NEW s0 \in S, NEW step \in [1 .. n -> [S -> S]], NEW it,
         FoldsUp(it, n, S, s0, step)
  PROVE  \E g : Follows(g, n, S, s0, step) /\ it[1 .. n] = g[n]
<1>1. PICK g : Follows(g, n, S, s0, step)
  BY Recursion
<1> DEFINE T == {k \in Nat : k <= n => it[1 .. k] = g[k]}
<1>2. 0 \in T
  <2>1. 1 .. 0 = {} /\ g[0] = s0
    BY <1>1 DEF Follows
  <2> QED BY <2>1 DEF FoldsUp
<1>3. ASSUME NEW k \in Nat, k \in T PROVE k + 1 \in T
  <2> SUFFICES ASSUME k + 1 <= n PROVE it[1 .. k + 1] = g[k + 1]
    OBVIOUS
  <2>1. it[1 .. k] = g[k] /\ g[k] \in S
    BY <1>1, <1>3 DEF Follows
  <2>2. Max(1 .. k + 1) = k + 1 /\ (1 .. k + 1) \ {Max(1 .. k + 1)} = 1 .. k
    <3>1. k + 1 \in Nat /\ k + 1 # 0 /\ k + 1 - 1 = k
      OBVIOUS
    <3> QED BY <3>1, TopOfAll
  <2>3. 1 .. k + 1 \in SUBSET (1 .. n) /\ 1 .. k + 1 # {}
    <3>1. \A i \in 1 .. k + 1 : i \in 1 .. n
      OBVIOUS
    <3>2. k + 1 \in 1 .. k + 1
      OBVIOUS
    <3> QED BY <3>1, <3>2
  <2>4. it[1 .. k + 1] = step[k + 1][g[k]]
    BY <2>1, <2>2, <2>3 DEF FoldsUp
  <2>5. g[k + 1] = step[k + 1][g[k]]
    <3>1. k + 1 \in 0 .. n /\ k + 1 # 0 /\ k + 1 - 1 = k
      OBVIOUS
    <3> QED BY <1>1, <3>1 DEF Follows
  <2> QED BY <2>4, <2>5
<1> HIDE DEF T
<1>4. n \in T
  BY <1>2, <1>3, SetInduction
<1> QED BY <1>1, <1>4 DEF T

=============================================================================
