-------------------------- MODULE MCLpssDiscovery --------------------------
(* Instances of LpssDiscovery for TLC. *)
EXTENDS LpssDiscovery

CONSTANTS a, b, tx

(* All on one host. *)
Hosts == [n \in Nodes |-> 1]

OneType == [n \in Nodes |-> tx]
(* a reads, the others write. *)
OneReader == [n \in Nodes |-> IF n = a THEN {"Reader"} ELSE {"Writer"}]
=============================================================================
