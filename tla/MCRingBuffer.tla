--------------------------- MODULE MCRingBuffer ---------------------------
(* Instances of RingBufferSlotSHM for TLC: the threads and the messages. *)
EXTENDS RingBufferSlotSHM

CONSTANTS t1, t2, t3, m1, m2
=============================================================================
