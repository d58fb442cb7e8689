---------------------------- MODULE BoundedQueue ----------------------------
(***************************************************************************)
(* What RingBufferSlotSHM promises, in one atomic step per effect: a FIFO  *)
(* queue of at most Capacity messages.  A message enters at the tail, and  *)
(* leaves at the head, where one reader takes it or an overwriting writer  *)
(* discards it to make room.  A reader hands over exactly the message it   *)
(* took.                                                                   *)
(***************************************************************************)
EXTENDS Naturals, Sequences

CONSTANTS
  Threads,    (* the threads, of any process, that use the buffer *)
  Msgs,       (* the messages                                     *)
  Capacity,   (* the number of slots                              *)
  None        (* no message                                       *)

VARIABLES
  queue,      (* the messages in the buffer, oldest first         *)
  taken       (* taken[t]: what t took and has not handed over    *)

qvars == <<queue, taken>>

QInit ==
  /\ queue = <<>>
  /\ taken = [t \in Threads |-> None]

Enqueue ==
  /\ Len(queue) < Capacity
  /\ \E m \in Msgs : queue' = Append(queue, m)
  /\ UNCHANGED taken

Take(t) ==
  /\ queue # <<>>
  /\ taken[t] = None
  /\ taken' = [taken EXCEPT ![t] = Head(queue)]
  /\ queue' = Tail(queue)

HandOver(t) ==
  /\ taken[t] # None
  /\ taken' = [taken EXCEPT ![t] = None]
  /\ UNCHANGED queue

Discard ==
  /\ queue # <<>>
  /\ queue' = Tail(queue)
  /\ UNCHANGED taken

QNext == Enqueue \/ Discard \/ \E t \in Threads : Take(t) \/ HandOver(t)

QSpec == QInit /\ [][QNext]_qvars
=============================================================================
