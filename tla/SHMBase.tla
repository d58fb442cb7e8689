------------------------------ MODULE SHMBase ------------------------------
(***************************************************************************)
(* rm::SHMBase: how processes create, open, map and remove the shared-     *)
(* memory object behind one name.  Every action is one system call with    *)
(* the branch that follows it.  An unlinked object lives on for the        *)
(* processes that have it mapped, and the next process creates a new one.  *)
(* A process holds one SHMBase at a time; a move only changes the holder.  *)
(***************************************************************************)
EXTENDS Naturals

CONSTANTS
  Procs,       (* the processes                                            *)
  Size,        (* Size[p] : the size argument of process p                 *)
  MayFail,     (* the processes whose ftruncate and mmap may fail          *)
  MayCrash,    (* the processes that may crash                             *)
  MaxObjects   (* bound on the objects ever created                        *)

ShmAssumptions ==
  /\ Procs # {}
  /\ Size \in [Procs -> Nat \ {0}]
  /\ MayFail \subseteq Procs /\ MayCrash \subseteq Procs
  /\ MaxObjects \in Nat

VARIABLES
  name,    (* the object the name is linked to, 0 if none                  *)
  bytes,   (* bytes[o] : the size of object o                              *)
  made,    (* the number of objects created so far                         *)
  pc,      (* pc[p]      : what the constructor of p does next             *)
  fds,     (* fd[p]      : SHMBase::_fd, the object it refers to or 0      *)
  ptr,     (* ptr[p]     : SHMBase::_ptr, the object mapped or 0           *)
  creator, (* creator[p] : SHMBase::_is_creator                            *)
  owner,   (* history : owner[o], the process that created object o        *)
  faults   (* history : the kinds of fault there have been                 *)

shmVars == <<name, bytes, made, pc, fds, ptr, creator, owner, faults>>

ShmObjects == 1 .. MaxObjects

Goto(p, l) == pc' = [pc EXCEPT ![p] = l]
SetFd(p, o) == fds' = [fds EXCEPT ![p] = o]

ShmInit ==
  /\ name = 0
  /\ bytes = [o \in ShmObjects |-> 0]
  /\ made = 0
  /\ pc = [p \in Procs |-> "out"]
  /\ fds = [p \in Procs |-> 0]
  /\ ptr = [p \in Procs |-> 0]
  /\ creator = [p \in Procs |-> FALSE]
  /\ owner = [o \in ShmObjects |-> CHOOSE p \in Procs : TRUE]
  /\ faults = {}

(* shm_open(O_CREAT | O_EXCL) *)
CreateNew(p) ==
  /\ pc[p] = "out"
  /\ made < MaxObjects
  /\ name = 0
  /\ made' = made + 1
  /\ name' = made + 1
  /\ SetFd(p, made + 1)
  /\ creator' = [creator EXCEPT ![p] = TRUE]
  /\ Goto(p, "truncate")
  /\ owner' = [owner EXCEPT ![made + 1] = p]
  /\ UNCHANGED <<bytes, ptr, faults>>

(* The same call says EEXIST. *)
AlreadyExists(p) ==
  /\ pc[p] = "out"
  /\ name # 0
  /\ Goto(p, "open")
  /\ UNCHANGED <<name, bytes, made, fds, ptr, creator, owner, faults>>

(* The second shm_open; the name may be gone by then. *)
OpenExisting(p) ==
  /\ pc[p] = "open"
  /\ SetFd(p, name)
  /\ Goto(p, IF name = 0 THEN "ready" ELSE "wait")
  /\ UNCHANGED <<name, bytes, made, ptr, creator, owner, faults>>

(* Faulty variant: does not wait for the size nor compare it. *)
AcceptAnySize(p) ==
  /\ pc[p] = "wait"
  /\ Goto(p, "map")
  /\ UNCHANGED <<name, bytes, made, fds, ptr, creator, owner, faults>>

(* fstat until the size is set; another size than its own is refused. *)
SeeSize(p) ==
  /\ pc[p] = "wait"
  /\ bytes[fds[p]] # 0
  /\ IF bytes[fds[p]] = Size[p]
     THEN Goto(p, "map") /\ UNCHANGED fds
     ELSE Goto(p, "ready") /\ SetFd(p, 0)
  /\ UNCHANGED <<name, bytes, made, ptr, creator, owner, faults>>

(* The size is still 0 after 100 ms. *)
SizeTimeout(p) ==
  /\ pc[p] = "wait"
  /\ bytes[fds[p]] = 0
  /\ SetFd(p, 0)
  /\ Goto(p, "ready")
  /\ UNCHANGED <<name, bytes, made, ptr, creator, owner, faults>>

Truncate(p) ==
  /\ pc[p] = "truncate"
  /\ bytes' = [bytes EXCEPT ![fds[p]] = Size[p]]
  /\ Goto(p, "map")
  /\ UNCHANGED <<name, made, fds, ptr, creator, owner, faults>>

(* ftruncate fails: close, unlink, return. *)
TruncateFails(p) ==
  /\ p \in MayFail
  /\ pc[p] = "truncate"
  /\ name' = 0
  /\ SetFd(p, 0)
  /\ Goto(p, "ready")
  /\ faults' = faults \cup {"fail"}
  /\ UNCHANGED <<bytes, made, ptr, creator, owner>>

Map(p) ==
  /\ pc[p] = "map"
  /\ ptr' = [ptr EXCEPT ![p] = fds[p]]
  /\ Goto(p, "ready")
  /\ UNCHANGED <<name, bytes, made, fds, creator, owner, faults>>

(* mmap fails: close, unlink if creator, return. *)
MapFails(p) ==
  /\ p \in MayFail
  /\ pc[p] = "map"
  /\ name' = IF creator[p] THEN 0 ELSE name
  /\ SetFd(p, 0)
  /\ Goto(p, "ready")
  /\ faults' = faults \cup {"fail"}
  /\ UNCHANGED <<bytes, made, ptr, creator, owner>>

Leave(p) ==
  /\ fds' = [fds EXCEPT ![p] = 0]
  /\ ptr' = [ptr EXCEPT ![p] = 0]
  /\ creator' = [creator EXCEPT ![p] = FALSE]
  /\ Goto(p, "out")
  /\ UNCHANGED <<bytes, made, owner>>

(* Faulty variant: every process unlinks the name. *)
DestroyShmUnlinks(p) ==
  /\ pc[p] = "ready"
  /\ name' = 0
  /\ Leave(p)
  /\ UNCHANGED faults

(* The destructor, and the first half of the move assignment. *)
DestroyShm(p) ==
  /\ pc[p] = "ready"
  /\ name' = IF creator[p] THEN 0 ELSE name
  /\ Leave(p)
  /\ UNCHANGED faults

(* The process dies: the kernel closes and unmaps, nobody unlinks. *)
Crash(p) ==
  /\ p \in MayCrash
  /\ pc[p] # "out"
  /\ name' = name
  /\ Leave(p)
  /\ faults' = faults \cup {"crash"}

ShmNext ==
  \E p \in Procs :
    \/ CreateNew(p) \/ AlreadyExists(p) \/ OpenExisting(p)
    \/ SeeSize(p) \/ SizeTimeout(p)
    \/ Truncate(p) \/ TruncateFails(p) \/ Map(p) \/ MapFails(p)
    \/ DestroyShm(p) \/ Crash(p)

ShmSpec == ShmInit /\ [][ShmNext]_shmVars

-----------------------------------------------------------------------------
(* Properties *)

(* Every variable has a value of its type: a name, a descriptor or a       *)
(* mapping refers to an object that was made, of a size some process       *)
(* asked for.                                                              *)
ShmTypeOK ==
  /\ name \in 0 .. made
  /\ made \in 0 .. MaxObjects
  /\ bytes \in [ShmObjects -> {0} \cup {Size[p] : p \in Procs}]
  /\ pc \in [Procs -> {"out", "open", "wait", "truncate", "map", "ready"}]
  /\ fds \in [Procs -> 0 .. made]
  /\ ptr \in [Procs -> 0 .. made]
  /\ creator \in [Procs -> BOOLEAN]
  /\ owner \in [ShmObjects -> Procs]
  /\ faults \subseteq {"fail", "crash"}

(* Whoever has mapped an object has mapped as many bytes as the object     *)
(* has: no access through data() is past its end (ipc.cpp:311-317, :335).  *)
MappedWhole == \A p \in Procs : ptr[p] # 0 => bytes[ptr[p]] = Size[p]

(* From its creation until its creator leaves, an object keeps its name:   *)
(* all who open the name meanwhile share the creator's object              *)
(* (ipc.cpp:347, :329, :351).  A creator whose ftruncate or mmap failed    *)
(* removes the name twice, the second time perhaps that of another object. *)
NamedWhileOwned ==
  "fail" \notin faults =>
    \A p \in Procs : creator[p] /\ fds[p] # 0 => name = fds[p] /\ owner[name] = p

(* Those who open a name while its creator is there share one whole object.*)
SameObject == MappedWhole /\ NamedWhileOwned

=============================================================================
