--------------------------- MODULE SharedRegister ---------------------------
(***************************************************************************)
(* What a shared latest-value object promises: a register whose writes and *)
(* reads are atomic.  Every write gets the next version number; a process  *)
(* remembers the version it read last.                                     *)
(***************************************************************************)
EXTENDS Naturals

CONSTANTS Procs, Msgs, None

VARIABLES
  value,   (* the latest message, None before the first write  *)
  version, (* how many messages were written                   *)
  seen,    (* seen[p] : the version of the message p read last *)
  held     (* held[p] : that message                           *)

rvars == <<value, version, seen, held>>

RInit ==
  /\ value = None
  /\ version = 0
  /\ seen = [p \in Procs |-> 0]
  /\ held = [p \in Procs |-> None]

Put(m) ==
  /\ value' = m
  /\ version' = version + 1
  /\ UNCHANGED <<seen, held>>

Get(p) ==
  /\ version > 0
  /\ seen' = [seen EXCEPT ![p] = version]
  /\ held' = [held EXCEPT ![p] = value]
  /\ UNCHANGED <<value, version>>

RNext == (\E m \in Msgs : Put(m)) \/ (\E p \in Procs : Get(p))

RSpec == RInit /\ [][RNext]_rvars
=============================================================================
