---------------------------- MODULE MCLatestBytes ----------------------------
(* Instances of LatestBytesSHM for TLC: a message of one word, one of two   *)
(* and one that does not fit.                                               *)
EXTENDS LatestBytesSHM

CONSTANTS p1, p2, p3, short, long, huge

MCMsgs == {short, long, huge}
MCLength == [m \in MCMsgs |-> CASE m = short -> 1 [] m = long -> 2 [] m = huge -> 3]
=============================================================================
