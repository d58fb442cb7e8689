---------------------------- MODULE MCLpssTopics -----------------------------
(* Instances of LpssChannel and LpssService for TLC: a topic, and the two   *)
(* topics of a service.  A behaviour runs one and leaves the other alone.   *)
EXTENDS LpssChannel, LpssService

CONSTANTS w1, w2, c1, c2, t1, t2, t3

VARIABLE part                                              (* which one runs *)

(* Three calls, so that one message takes the place of another. *)
Bounds == [w \in Writers |-> IF w = w1 THEN 3 ELSE 1]

(* Two coroutines share the first client; none, the shared or the other    *)
(* client is on the host of the service.                                   *)
SharedClient == [t \in Tasks |-> IF t = t3 THEN c2 ELSE c1]

ASSUME ServiceAssumption == ServiceAssumptions

MCInit ==
  /\ part \in {"topic", "service"}
  /\ Init /\ ServiceInit
  /\ part = "service" => local = {}
  /\ part = "topic" => nearby = {}

MCNext ==
  \/ part = "topic" /\ Next /\ UNCHANGED <<part, serviceVars>>
  \/ part = "service" /\ ServiceNext /\ UNCHANGED <<part, vars>>

MCSpec == MCInit /\ [][MCNext]_<<part, vars, serviceVars>> /\ Fairness
=============================================================================
