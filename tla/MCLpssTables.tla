---------------------------- MODULE MCLpssTables ----------------------------
(* Instances of LpssNodeThreads and MtpReassembly for TLC: the tables of a  *)
(* node, of its peers and of unfinished messages.  A behaviour runs one of  *)
(* the two and leaves the other alone.                                      *)
EXTENDS LpssNodeThreads, MtpReassembly

CONSTANTS p1, t1, t2, w1, w2

VARIABLE part                                              (* which one runs *)

(* The last message is too large for the budget, and for the MTU of the    *)
(* first writer, which leaves room for one byte only, it has too many      *)
(* fragments.                                                              *)
MCPayloads == {<<"a", "b">>, <<"b", "b", "a">>, <<"a", "a", "a", "a", "b">>}
MCCapacity == [w \in {w1, w2} |-> IF w = w1 THEN {1} ELSE {2}]

ASSUME ReassemblyAssumptions == MtpAssumptions

MCInit == part \in {"peers", "messages"} /\ NodeInit /\ MtpInit

MCNext ==
  \/ part = "peers" /\ NodeNext /\ UNCHANGED <<part, mtpVars>>
  \/ part = "messages" /\ MtpNext /\ UNCHANGED <<part, nodeVars>>

MCSpec == MCInit /\ [][MCNext]_<<part, nodeVars, mtpVars>>
=============================================================================
