------------------------------ MODULE MCRaHeap ------------------------------
(* RaHeap alone for TLC, with the order that its erasures may spoil.        *)
EXTENDS RaHeap

(* Seven elements, so that a heap has a third level with cousins in it. *)
MCRank == <<1, 2, 3, 3, 4, 5, 6>>
=============================================================================
