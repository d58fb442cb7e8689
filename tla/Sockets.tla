------------------------------- MODULE Sockets -------------------------------
(***************************************************************************)
(* The socket objects of io and the descriptors that they own: Sender and  *)
(* Listener, which hand theirs to a DgramSocket; Acceptor and Connector,   *)
(* which make a StreamSocket; and an SSLStream around one.  Objects are    *)
(* moved, closed and destroyed, also while a coroutine waits in epoll for  *)
(* the descriptor or its event has been fetched, and the kernel gives the  *)
(* number of a closed descriptor to the next socket.                       *)
(*                                                                         *)
(* The objects that hold a descriptor are not copied: Sender, Listener,    *)
(* Acceptor and Connector allow it, and two of them would then close it.   *)
(* An Acceptor or a Connector is not destroyed while an event for it is    *)
(* still to be passed on: its awaiter would use what is gone.              *)
(***************************************************************************)
EXTENDS Naturals

CONSTANTS
  Objects,    (* the places for objects                                    *)
  Fds,        (* the numbers that descriptors have                         *)
  MaxSockets, (* bound: sockets that are ever opened                       *)
  None

(* A holder is a Sender or a Listener. *)
Passive == {"holder", "acceptor", "connector"}
Sessions == {"dgram", "stream", "tls"}

Sockets == 1 .. MaxSockets

Assumptions ==
  /\ None \notin Objects \cup Passive \cup Sessions
  /\ 0 \notin Fds /\ MaxSockets \in Nat

VARIABLES
  class,  (* class[o] : what lives at o, None if nothing does               *)
  fd,     (* fd[o] : _fd, 0 for INVALID_SOCKET_FD                           *)
  given,  (* history: given[o] : the socket of the descriptor that o got    *)
  table,  (* external: table[f] : the socket open as f, 0 if there is none  *)
  opened, (* external: how many have been opened                            *)
  lost,   (* history: the sockets of constructors that threw                *)
  awaits, (* awaits[o] : the descriptor that a coroutine awaits through o,  *)
          (* and its socket                                                 *)
  reg,    (* external: reg[f] : whose coroutine epoll resumes for f         *)
  batch,  (* the objects whose events have been fetched, not yet passed on  *)
  robbed  (* history: those whose registration another's resumption removed *)

objects == <<class, fd, given>>
kernel == <<table, opened, lost>>
coroutines == <<awaits, batch, robbed>>
vars == <<objects, kernel, coroutines, reg>>

Nothing == [fd |-> 0, socket |-> 0]

Init ==
  /\ class = [o \in Objects |-> None]
  /\ fd = [o \in Objects |-> 0] /\ given = fd
  /\ table = [f \in Fds |-> 0] /\ opened = 0 /\ lost = {}
  /\ awaits = [o \in Objects |-> Nothing]
  /\ reg = [f \in Fds |-> None] /\ batch = {} /\ robbed = {}

Live(o) == class[o] # None
Free(o) == class[o] = None /\ awaits[o] = Nothing

-----------------------------------------------------------------------------
(* The kernel *)

(* socket() and accept() take a number that is free. *)
OpenSocket(f) ==
  /\ opened < MaxSockets /\ table[f] = 0
  /\ opened' = opened + 1
  /\ table' = [table EXCEPT ![f] = opened + 1]

(* What is closed leaves epoll, too. *)
CloseFd(f) ==
  IF f = 0 THEN UNCHANGED <<table, reg>>
  ELSE table' = [table EXCEPT ![f] = 0] /\ reg' = [reg EXCEPT ![f] = None]

-----------------------------------------------------------------------------
(* Constructors *)

Become(o, what, f, s) ==
  /\ class' = [class EXCEPT ![o] = what]
  /\ fd' = [fd EXCEPT ![o] = f]
  /\ given' = [given EXCEPT ![o] = s]

(* Where there is no socket to be had, the constructor throws at once.      *)
Construct(o, what, f) ==
  /\ Free(o)
  /\ OpenSocket(f)
  /\ Become(o, what, f, opened + 1)
  /\ UNCHANGED <<lost, coroutines, reg>>

(* bind() or listen() fails: the destructor of what has not been            *)
(* constructed does not run, and nobody closes the descriptor.             *)
ConstructThrows(f) ==
  /\ OpenSocket(f)
  /\ lost' = lost \cup {opened + 1}
  /\ UNCHANGED <<objects, coroutines, reg>>

-----------------------------------------------------------------------------
(* From one object to another *)

(* Faulty variant: the old object keeps the descriptor, too. *)
HandCopy(o, p, what) ==
  /\ class' = [class EXCEPT ![p] = what]
  /\ fd' = [fd EXCEPT ![p] = fd[o]]
  /\ given' = [given EXCEPT ![p] = given[o]]

(* The descriptor of o goes to a new object at p. *)
Hand(o, p, what) ==
  /\ class' = [class EXCEPT ![p] = what]
  /\ fd' = [fd EXCEPT ![o] = 0, ![p] = fd[o]]
  /\ given' = [given EXCEPT ![o] = 0, ![p] = given[o]]

(* create(); without a descriptor it throws. *)
Create(o, p) ==
  /\ class[o] = "holder" /\ fd[o] # 0 /\ Free(p)
  /\ Hand(o, p, "dgram")
  /\ UNCHANGED <<kernel, coroutines, reg>>

(* connect() that succeeds at once; otherwise it throws, and the connector *)
(* keeps the descriptor.                                                   *)
Connect(o, p) ==
  /\ class[o] = "connector" /\ fd[o] # 0 /\ Free(p) /\ awaits[o] = Nothing
  /\ Hand(o, p, "stream")
  /\ UNCHANGED <<kernel, coroutines, reg>>

Accepted(p) ==
  \/ \E f \in Fds : OpenSocket(f) /\ Become(p, "stream", f, opened + 1)
  \/ Become(p, "stream", 0, 0) /\ UNCHANGED <<table, opened>>

(* accept(): what fails gives an invalid stream. *)
Accept(o, p) ==
  /\ class[o] = "acceptor" /\ Free(p) /\ awaits[o] = Nothing
  /\ Accepted(p)
  /\ UNCHANGED <<lost, coroutines, reg>>

(* The move constructors, and SSLStream(StreamSocket). *)
Move(o, p) ==
  /\ class[o] \in Sessions /\ Free(p)
  /\ \E what \in {class[o]} \cup (IF class[o] = "stream" THEN {"tls"} ELSE {}) :
       Hand(o, p, what)
  /\ UNCHANGED <<kernel, coroutines, reg>>

(* Faulty variant: the descriptor that p has had is forgotten. *)
AssignOver(o, p) ==
  /\ o # p /\ class[o] \in Sessions /\ class[p] = class[o]
  /\ Hand(o, p, class[p])
  /\ UNCHANGED <<kernel, coroutines, reg>>

(* The move assignments: the descriptor of p is closed. *)
Assign(o, p) ==
  /\ o # p /\ class[o] \in Sessions /\ class[p] = class[o]
  /\ CloseFd(fd[p])
  /\ Hand(o, p, class[p])
  /\ UNCHANGED <<opened, lost, coroutines>>

-----------------------------------------------------------------------------
(* The end of a descriptor *)

Close(o) ==
  /\ class[o] \in {"stream", "tls"} /\ fd[o] # 0
  /\ CloseFd(fd[o])
  /\ Become(o, class[o], 0, 0)
  /\ UNCHANGED <<opened, lost, coroutines>>

(* A destructor closes what is a descriptor of anything. *)
Destroy(o) ==
  /\ Live(o) /\ ~(class[o] \in Passive /\ o \in batch)
  /\ CloseFd(IF fd[o] # 0 /\ table[fd[o]] # 0 THEN fd[o] ELSE 0)
  /\ Become(o, None, 0, 0)
  /\ UNCHANGED <<opened, lost, coroutines>>

-----------------------------------------------------------------------------
(* Coroutines *)

(* A coroutine awaits an operation of o; a second one on the descriptor    *)
(* would throw.                                                            *)
Suspend(o) ==
  /\ class[o] \in Sessions \cup {"acceptor", "connector"}
  /\ fd[o] # 0 /\ awaits[o] = Nothing /\ reg[fd[o]] = None
  /\ awaits' = [awaits EXCEPT ![o] = [fd |-> fd[o], socket |-> given[o]]]
  /\ reg' = [reg EXCEPT ![fd[o]] = o]
  /\ UNCHANGED <<objects, kernel, batch, robbed>>

InEpoll == {reg[f] : f \in Fds} \ {None}

(* An event comes alone or with others, which wait for their turn: what    *)
(* they are about may be closed meanwhile, and its number another's.       *)
NextEvent(o) ==
  \/ batch = {} /\ o \in InEpoll /\ batch' \in SUBSET (InEpoll \ {o})
  \/ o \in batch /\ batch' = batch \ {o}

(* Faulty variant: the registration stays. *)
ResumedKeeping(o) ==
  /\ awaits[o].fd # 0 /\ NextEvent(o)
  /\ awaits' = [awaits EXCEPT ![o] = Nothing]
  /\ UNCHANGED <<reg, robbed>>

(* The awaiter removes its number from epoll, whoever is registered for it. *)
Resumed(o) ==
  /\ awaits[o].fd # 0 /\ NextEvent(o)
  /\ reg' = [reg EXCEPT ![awaits[o].fd] = None]
  /\ awaits' = [awaits EXCEPT ![o] = Nothing]
  /\ robbed' = robbed \cup ({reg[awaits[o].fd]} \ {o, None})

(* A read, a write, or a part of a handshake. *)
ResumeSession(o) ==
  /\ class[o] \notin Passive
  /\ Resumed(o)
  /\ UNCHANGED <<objects, kernel>>

ResumeAccept(o, p) ==
  /\ class[o] = "acceptor" /\ Free(p)
  /\ Resumed(o)
  /\ Accepted(p)
  /\ UNCHANGED lost

(* A connection that is refused gives an invalid stream; the connector      *)
(* keeps the descriptor.                                                   *)
ResumeConnect(o, p) ==
  /\ class[o] = "connector" /\ Free(p)
  /\ Resumed(o)
  /\ Hand(o, p, "stream") \/ Become(p, "stream", 0, 0)
  /\ UNCHANGED kernel

-----------------------------------------------------------------------------
Next ==
  \/ \E f \in Fds :
       ConstructThrows(f) \/ \E o \in Objects, what \in Passive : Construct(o, what, f)
  \/ \E o, p \in Objects :
       \/ Create(o, p) \/ Connect(o, p) \/ Accept(o, p) \/ Move(o, p) \/ Assign(o, p)
       \/ ResumeAccept(o, p) \/ ResumeConnect(o, p)
  \/ \E o \in Objects : Close(o) \/ Destroy(o) \/ Suspend(o) \/ ResumeSession(o)

Spec == Init /\ [][Next]_vars

-----------------------------------------------------------------------------
(* Properties *)

(* Every variable has a value of its type. *)
TypeOK ==
  /\ class \in [Objects -> Passive \cup Sessions \cup {None}]
  /\ fd \in [Objects -> Fds \cup {0}] /\ given \in [Objects -> Sockets \cup {0}]
  /\ table \in [Fds -> Sockets \cup {0}] /\ opened \in 0 .. MaxSockets
  /\ lost \subseteq Sockets
  /\ awaits \in [Objects -> [fd : Fds \cup {0}, socket : Sockets \cup {0}]]
  /\ reg \in [Fds -> Objects \cup {None}]
  /\ batch \subseteq Objects /\ robbed \subseteq Objects

(* Through every sequence of handing over, moving, closing and awaiting: a *)
(* socket is held by one object, which is the only one to close it, or has *)
(* been lost by a constructor that threw (socket.cpp:859, :879); an object *)
(* never holds the number of a descriptor that has become another socket's; *)
(* and epoll has, for a socket that is open, just the coroutine that awaits *)
(* this very socket (socket.cpp:846, :925, :1000, :1595), unless an event  *)
(* already fetched for a socket closed meanwhile has removed it            *)
(* (socket.cpp:1565).                                                      *)
Owned ==
  /\ \A o \in Objects : fd[o] # 0 => Live(o) /\ table[fd[o]] = given[o]
  /\ \A f \in Fds :
       table[f] # 0 => table[f] \in lost \/ \E o \in Objects : fd[o] = f
  /\ \A o, p \in Objects : fd[o] # 0 /\ fd[o] = fd[p] => o = p
  /\ \A f \in Fds :
       reg[f] # None => awaits[reg[f]] = [fd |-> f, socket |-> table[f]] /\ table[f] # 0
  /\ \A o \in Objects \ robbed :
       LET a == awaits[o] IN
         a # Nothing /\ table[a.fd] = a.socket => reg[a.fd] = o
=============================================================================
