----------------------------- MODULE MCWorkers -----------------------------
(* Instances of EventLoop and LoggerQueue for TLC: what works in the        *)
(* background for the threads of a program, an event loop with its          *)
(* coroutines, and the worker of the logger.  A behaviour runs one of them  *)
(* and leaves the other alone.                                              *)
EXTENDS EventLoop, LoggerQueue

VARIABLE part                                             (* which one runs *)

MCInit ==
  /\ part \in {"loop", "logger"}
  /\ Init
  /\ LogInit /\ (part = "loop" => policy = "Block")

MCNext ==
  \/ part = "loop" /\ Next /\ UNCHANGED <<part, logVars>>
  \/ part = "logger" /\ LogNext /\ UNCHANGED <<part, vars>>

(* The part that does not run enables no step that is fair: no loop has     *)
(* been started, no record pushed, and the time of the logger stands still. *)
MCSpec ==
  /\ MCInit /\ [][MCNext]_<<part, vars, logVars>>
  /\ Fairness
  /\ Scheduled /\ WF_logVars(part = "logger" /\ Tick)
=============================================================================
