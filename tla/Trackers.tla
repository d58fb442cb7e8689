------------------------------ MODULE Trackers ------------------------------
(***************************************************************************)
(* Following targets from frame to frame: match() of ArmorDetector and of  *)
(* RuneDetector, which gives the combos of a frame to the trackers of the  *)
(* frames before, with PlanarTracker and RuneTracker.                      *)
(*                                                                         *)
(* Of a combo only its place is kept: the position of an armor on a line,  *)
(* and the angle of a rune in whole degrees.                               *)
(***************************************************************************)
EXTENDS FiniteSets, Integers, SequencesExt

CONSTANTS
  Places,      (* Places[kind] : where combos are                          *)
  Drifts,      (* Drifts[kind] : how they move while they are lost         *)
  Tilt(_),     (* the angle of an armor at a place                         *)
  MaxDelta,    (* MAX_TRACKER_DELTA_DIS                                    *)
  TrackFrames, (* TRACK_FRAMES                                             *)
  MaxTrackers, (* bound: MaxTrackers[kind] trackers at once                *)
  MaxTurns     (* bound: _round of a rune                                  *)

Kinds == {"planar", "rune"}

Assumptions ==
  /\ Places["rune"] \subseteq -179 .. 180 /\ Places["planar"] \subseteq Int
  /\ \A k \in Kinds : Drifts[k] \subseteq [Places[k] -> Places[k]]
  /\ TrackFrames \in Nat \ {0} /\ MaxTurns \in Nat /\ MaxTrackers \in [Kinds -> Nat]

VARIABLES
  kind,     (* which detector                                              *)
  trackers, (* front() and _vanish_num of each, and _round of a rune;      *)
            (* history: was, turns and steady                              *)
  frame     (* history: the combos of the last frame                       *)

vars == <<kind, trackers, frame>>

Init == kind \in Kinds /\ trackers = <<>> /\ frame = <<>>

-----------------------------------------------------------------------------
(* Places *)

Abs(n) == IF n < 0 THEN -n ELSE n

(* The way from y to x, in degrees, the shorter one round. *)
Way(x, y) ==
  LET d == x - y IN IF d > 180 THEN d - 360 ELSE IF d <= -180 THEN d + 360 ELSE d

Apart(x, y) == IF kind = "rune" THEN Abs(Way(x, y)) ELSE Abs(x - y)

(* isChange(), and the condition of matchRunes(). *)
Changed(x, y) ==
  IF kind = "rune" THEN Apart(x, y) >= 50
  ELSE Tilt(x) * Tilt(y) < -80 \/ Apart(x, y) > MaxDelta

(* The first of the places that are nearest to x. *)
Nearest(x, places) ==
  CHOOSE i \in DOMAIN places :
    \A j \in DOMAIN places : /\ Apart(places[i], x) <= Apart(places[j], x)
                             /\ j < i => Apart(places[i], x) < Apart(places[j], x)

Fronts(ts) == [i \in DOMAIN ts |-> ts[i].front]

-----------------------------------------------------------------------------
(* A tracker *)

(* History: where it was in the list of the frame before, 0 for a new one.  *)
New(x) ==
  [was |-> 0, front |-> x, vanish |-> 0, round |-> 0, turns |-> 0, steady |-> TRUE]

(* A rune turns one way only, as in the game. *)
RoundOneWay(now, last) == IF now < -135 /\ last > 135 THEN 1 ELSE 0

(* calculateTotalAngle() *)
Round(now, last) ==
  CASE now > 135 /\ last < -135 -> -1
    [] now < -135 /\ last > 135 -> 1
    [] OTHER -> 0

(* History: the turns that the shorter way round has made. *)
Turned(now, last) == (last + Way(now, last) - now) \div 360

(* The frames that were lost before stay counted. *)
UpdatedKeeping(t, x) == [t EXCEPT !.front = x]

(* update(combo) *)
Updated(t, x) ==
  LET steady == t.steady /\ Apart(x, t.front) < 45
  IN  IF kind = "planar" THEN [t EXCEPT !.front = x, !.vanish = 0]
      ELSE [t EXCEPT !.front = x, !.vanish = 0, !.round = @ + Round(x, t.front),
                     !.turns = IF steady THEN @ + Turned(x, t.front) ELSE 0,
                     !.steady = steady]

(* update(tick, imu_data): a rune goes on turning as its filter says, to p, *)
(* and _round is left alone.                                               *)
Missed(t, p) ==
  LET steady == t.steady /\ Turned(p, t.front) = 0
  IN  IF kind = "planar" THEN [t EXCEPT !.vanish = @ + 1]
      ELSE [t EXCEPT !.front = p, !.vanish = @ + 1,
                     !.turns = IF steady THEN @ ELSE 0, !.steady = steady]

(* The new trackers of combos. *)
Opened(combos) == [k \in DOMAIN combos |-> New(combos[k])]

(* The trackers that there are, each with its place in the list. *)
Present == [i \in DOMAIN trackers |-> [trackers[i] EXCEPT !.was = i]]

-----------------------------------------------------------------------------
(* match() *)

(* The filters' guesses of where the lost targets are, one for every        *)
(* tracker: they turn all alike.                                           *)
Guesses ==
  {[i \in DOMAIN trackers |-> turn[trackers[i].front]] : turn \in Drifts[kind]}

(* There are none yet. *)
First(cs) == {Opened(cs)}

(* Every tracker takes the nearest combo, the same perhaps as another; what *)
(* is not taken opens a tracker, in the order of an unordered_set.         *)
More(cs) ==
  LET taken == [i \in DOMAIN trackers |-> Nearest(trackers[i].front, cs)]
      old == [i \in DOMAIN trackers |-> Updated(Present[i], cs[taken[i]])]
      left == DOMAIN cs \ {taken[i] : i \in DOMAIN trackers}
  IN  {old \o Opened([i \in DOMAIN order |-> cs[order[i]]]) : order \in SetToSeqs(left)}

(* Every combo goes, in turn, to the tracker that is nearest by then; who   *)
(* has got none has lost a frame.                                          *)
Fewer(cs, guess) ==
  LET Give(s, x) ==
        LET i == Nearest(x, Fronts(s.ts))
        IN  [ts |-> [s.ts EXCEPT ![i] = Updated(@, x)], got |-> s.got \cup {i}]
      end == FoldLeft(Give, [ts |-> Present, got |-> {}], cs)
  IN  {[i \in DOMAIN trackers |->
          IF i \in end.got THEN end.ts[i] ELSE Missed(Present[i], guess[i])]}

(* The combo that a tracker has taken is left to the others.                *)
EqualSharing(cs, guess) ==
  {[i \in DOMAIN trackers |-> Updated(Present[i], cs[Nearest(trackers[i].front, cs)])]}

(* Every tracker takes, in turn, the nearest of the combos that are left;   *)
(* if that is too far it has lost a frame, and the combo opens a tracker.  *)
Equal(cs, guess) ==
  LET IsGreedy(f) ==
        /\ IsInjective(f)
        /\ \A i \in DOMAIN f : \A j \in i .. Len(cs) :
             Apart(cs[f[i]], trackers[i].front) <= Apart(cs[f[j]], trackers[i].front)
      Jumps(f, i) == Changed(trackers[i].front, cs[f[i]])
      Old(f) ==
        [i \in DOMAIN trackers |-> IF Jumps(f, i) THEN Missed(Present[i], guess[i])
                                   ELSE Updated(Present[i], cs[f[i]])]
      Far(f) == SetToSortSeq({i \in DOMAIN trackers : Jumps(f, i)}, <)
  IN  {Old(f) \o Opened([k \in DOMAIN Far(f) |-> cs[f[Far(f)[k]]]]) :
         f \in {g \in [DOMAIN trackers -> DOMAIN cs] : IsGreedy(g)}}

Matched(cs, guess) ==
  CASE trackers = <<>> -> First(cs)
    [] Len(cs) > Len(trackers) /\ trackers # <<>> -> More(cs)
    [] Len(cs) < Len(trackers) -> Fewer(cs, guess)
    [] OTHER -> Equal(cs, guess)

Invalid(t) == t.vanish >= TrackFrames

(* A frame: the detector finds combos and match() runs. *)
Match(cs) ==
  \E ts \in UNION {Matched(cs, guess) : guess \in Guesses} :
    /\ trackers' = SelectSeq(ts, LAMBDA t : ~Invalid(t))
    /\ Len(trackers') <= MaxTrackers[kind]
    /\ \A i \in DOMAIN trackers' : Abs(trackers'[i].round) <= MaxTurns
    /\ frame' = cs
    /\ UNCHANGED kind

Next == \E n \in 0 .. MaxTrackers[kind] : \E cs \in [1 .. n -> Places[kind]] : Match(cs)

Spec == Init /\ [][Next]_vars

-----------------------------------------------------------------------------
(* Properties *)

(* Every variable has a value of its type. *)
TypeOK ==
  /\ kind \in Kinds
  /\ \A i \in DOMAIN trackers :
       /\ trackers[i].front \in Places[kind] /\ trackers[i].vanish \in 0 .. TrackFrames - 1
       /\ trackers[i].round \in Int /\ trackers[i].steady \in BOOLEAN /\ trackers[i].was \in Nat
  /\ frame \in Seq(Places[kind])

(* A tracker and a combo that belong together beyond doubt: they are nearer *)
(* to each other than either is to anything else.                          *)
Pairs(ts, cs) ==
  {<<i, j>> \in (DOMAIN ts) \X (DOMAIN cs) :
     LET d == Apart(ts[i].front, cs[j]) IN
       /\ \A k \in DOMAIN cs \ {j} : d < Apart(ts[i].front, cs[k]) /\ d < Apart(cs[j], cs[k])
       /\ \A l \in DOMAIN ts \ {i} :
            d < Apart(ts[l].front, cs[j]) /\ d < Apart(ts[i].front, ts[l].front)}

(* What has become of the tracker at i. *)
Now(i, after) == {after[j] : j \in {l \in DOMAIN after : after[l].was = i}}
Follows(i, x, after) == \E u \in Now(i, after) : u.front = x /\ u.vanish = 0
Opens(x, after) == \E u \in Now(0, after) : u.front = x /\ u.vanish = 0
Misses(i, after) ==
  IF trackers[i].vanish + 1 = TrackFrames THEN Now(i, after) = {}
  ELSE \E u \in Now(i, after) : u.vanish = trackers[i].vanish + 1

(* Whatever the frame, a tracker that is there follows a combo of it or has *)
(* missed one more frame; if there are as many combos as trackers or more, *)
(* every combo is followed, by one tracker alone if there are as many.      *)
NothingLost ==
  LET Following(x) == {j \in DOMAIN trackers' : trackers'[j].front = x /\ trackers'[j].vanish = 0}
      Combos(x) == {j \in DOMAIN frame' : frame'[j] = x}
      seen == ToSet(frame')
  IN  /\ \A i \in DOMAIN trackers :
           Misses(i, trackers') \/ \E x \in seen : Follows(i, x, trackers')
      /\ Len(frame') >= Len(trackers) => \A x \in seen : Following(x) # {}
      /\ Len(frame') = Len(trackers) =>
           \A x \in seen : Cardinality(Following(x)) = Cardinality(Combos(x))

(* match() in one rule, whichever is the more: in a frame without doubt     *)
(* every target stays with its own tracker, unless it has jumped when there *)
(* are as many of both; a combo without a tracker gets a new one, and a    *)
(* tracker without a combo has missed one more frame, and is dropped after *)
(* TRACK_FRAMES of them and not before.                                    *)
FollowStep ==
  LET pairs == Pairs(trackers, frame')
      Jumped(p) == /\ Len(trackers) = Len(frame')
                   /\ Changed(trackers[p[1]].front, frame'[p[2]])
      NoDoubt == Cardinality(pairs) = Min({Len(trackers), Len(frame')})
  IN  NoDoubt =>
        /\ \A p \in pairs :
             IF Jumped(p)
             THEN Misses(p[1], trackers') /\ Opens(frame'[p[2]], trackers')
             ELSE Follows(p[1], frame'[p[2]], trackers')
        /\ \A j \in DOMAIN frame' :
             (\A p \in pairs : p[2] # j) => Opens(frame'[j], trackers')
        /\ \A i \in DOMAIN trackers :
             (\A p \in pairs : p[1] # i) => Misses(i, trackers')

(* And as long as a rune has turned by less than 45 degrees between two     *)
(* frames, and never across the border while it was not seen, its tracker  *)
(* has counted the turns that it has made.                                 *)
TurnsCounted ==
  \A i \in DOMAIN trackers : trackers[i].steady => trackers[i].round = trackers[i].turns

(* (armor_detector/match.cpp:46, rune_detector/match.cpp:21,               *)
(* rune_tracker.cpp:85, planar_tracker.cpp:37, vanish_process.cpp:57)      *)
TargetsFollowed == [][FollowStep /\ NothingLost /\ TurnsCounted']_vars
=============================================================================
