---------------------------- MODULE MCResources ----------------------------
(* Instances of SHMBase, AtomicSHM, FileSink, Camera and Sockets for TLC:   *)
(* what a process takes from the system and must give back or leave in      *)
(* order, names in shared memory, a value in it, files, a device, and       *)
(* descriptors.  A behaviour runs one of them and leaves the others alone.  *)
EXTENDS Sockets, SHMBase, AtomicSHM, FileSink, Camera

CONSTANTS p1, p2, p3, m1, m2

VARIABLES part (* which one runs *)

(* Two processes that agree on the size and one that does not. *)
MCSize == [p \in {p1, p2, p3} |-> IF p = p3 THEN 2 ELSE 1]

ASSUME MemoryAssumptions == ShmAssumptions
ASSUME LogFileAssumptions == SinkAssumptions
ASSUME SharedValueAssumptions == ValueAssumptions
ASSUME IndustrialCameraAssumptions == CameraAssumptions
ASSUME SocketsAssumptions == Assumptions

MCInit ==
  /\ part \in {"memory", "value", "files", "camera", "sockets"}
  /\ ShmInit /\ ValueInit /\ SinkInit
  /\ CameraInit /\ (part # "camera" => kind = "hik" /\ continuous /\ plugged)
  /\ Init

(* Here nothing but sockets has numbers: the kernel gives the lowest one.   *)
LowestFree ==
  \A f, g \in Fds : table[f] = 0 /\ table'[f] # 0 /\ table[g] = 0 => f <= g

MCNext ==
  \/ part = "memory" /\ ShmNext /\ UNCHANGED <<part, valueVars, sinkVars, cameraVars, vars>>
  \/ part = "value" /\ ValueNext /\ UNCHANGED <<part, shmVars, sinkVars, cameraVars, vars>>
  \/ part = "files" /\ SinkNext /\ UNCHANGED <<part, shmVars, valueVars, cameraVars, vars>>
  \/ part = "camera" /\ CameraNext /\ UNCHANGED <<part, shmVars, valueVars, sinkVars, vars>>
  \/ part = "sockets" /\ Next /\ LowestFree
     /\ UNCHANGED <<part, shmVars, valueVars, sinkVars, cameraVars>>

(* A value that nobody has created enables no step that is fair; a camera   *)
(* does only when it runs, and then as CameraFairness says.                 *)
MCSpec ==
  /\ MCInit /\ [][MCNext]_<<part, shmVars, valueVars, sinkVars, cameraVars, vars>>
  /\ ValueFairness
  /\ WF_cameraVars(part = "camera" /\ (Succeed \/ Fail))
  /\ SF_cameraVars(part = "camera" /\ Read)

Recovers == part = "camera" => FramesAgain
=============================================================================
