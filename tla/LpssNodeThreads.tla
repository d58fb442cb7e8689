-------------------------- MODULE LpssNodeThreads --------------------------
(***************************************************************************)
(* The threads of one lpss::Node, for one topic: the program's thread that *)
(* creates and destroys the publisher, and the listeners and the heartbeat *)
(* detection that keep the tables.  Every action is what one thread does   *)
(* between taking a lock and giving it back, or less; the locks are        *)
(* _nodes_mtx, _local_mtx and _discovered_mtx, and no two are held at a    *)
(* time.  Two loops read what another lock belongs to: they are steps of   *)
(* their own, which sections under that lock may come between.             *)
(*                                                                         *)
(* A subscriber goes through the same sections as a publisher.  A peer has *)
(* at most one subscriber on the topic, which is named by the peer.        *)
(***************************************************************************)
EXTENDS Integers, Sequences, FiniteSets, SequencesExt

CONSTANTS
  Peers,      (* the other nodes                                           *)
  MaxCreates, (* bound on the calls of createPublisher                     *)
  MaxInbox,   (* bound on the REDP datagrams not read yet                  *)
  MsgTypes,   (* the message types of subscribers                          *)
  NoMsgType,  (* of a message that removes one                             *)
  NoPeer

ASSUME PeersAssumption == NoPeer \notin Peers /\ NoMsgType \notin MsgTypes
ASSUME NodeBounds == MaxCreates \in Nat /\ MaxInbox \in Nat

VARIABLES
  alive,   (* the peers that announce themselves                           *)
  inbox,   (* the REDP datagrams not read yet                              *)
  nodes,   (* _discovered_nodes: age is "new" while last_alive is unset,   *)
           (* "void" if the timeout is 0, otherwise "fresh" or "stale";    *)
           (* loc says whether ctrl_loc is set                             *)
  readers, (* _discovered_readers                                          *)
  msgtype, (* the message type of the topic there, if there is any reader  *)
  writer,  (* the writer in _local_writers, 0 if none                      *)
  targets, (* the targets of that writer                                   *)
  upc,     (* what the program's thread does                               *)
  copy,    (* the targets of a writer not registered yet                   *)
  tell,    (* the writer the other nodes are told of or are to forget      *)
  todo,    (* the nodes that loop has not come to                          *)
  created, (* history : how often a writer has been created                *)
  npc,     (* what rndp_listener does                                      *)
  newcomer,(* the node it has just entered                                 *)
  snap,    (* the writer it will announce to that node, 0 if none          *)
  rpc,     (* what redp_listener does                                      *)
  rmsg,    (* the message it is working on                                 *)
  hpc,     (* what heartbeat_detect does                                   *)
  dead,    (* its timeout_guids                                            *)
  told     (* history : the writers a peer has been told of since it was   *)
           (* entered last                                                 *)

user == <<upc, copy, tell, todo, created>>
rndp == <<npc, newcomer, snap>>
redp == <<rpc, rmsg, msgtype>>
hbt == <<hpc, dead>>
nodeVars == <<alive, inbox, nodes, readers, writer, targets, user, rndp, redp, hbt, told>>

Ages == {"new", "fresh", "stale", "void"}
NoMsg == [type |-> NoMsgType, peer |-> NoPeer]
Adding(msg) == msg.type # NoMsgType
ReaderMsgs == [type : MsgTypes \cup {NoMsgType}, peer : Peers]

NodeInit ==
  /\ alive = {} /\ inbox = <<>>
  /\ nodes = <<>> /\ readers = {} /\ writer = 0 /\ targets = {}
  /\ upc = "idle" /\ copy = {} /\ tell = 0 /\ todo = {} /\ created = 0
  /\ npc = "idle" /\ newcomer = NoPeer /\ snap = 0
  /\ rpc = "idle" /\ rmsg = NoMsg /\ msgtype = NoMsgType
  /\ hpc = "idle" /\ dead = {}
  /\ told = [p \in Peers |-> {}]

(* operator[] of a map, and an assignment. *)
Enter(f, k, v) == [x \in DOMAIN f \cup {k} |-> IF x = k THEN v ELSE f[x]]

(* rndp_listener holds _nodes_mtx while it collects, and the loops that    *)
(* send hold _discovered_mtx shared.                                       *)
NodesFree == npc # "located"
DiscoveredFree == upc \notin {"telling", "retracting"}

-----------------------------------------------------------------------------
(* createPublisher and destroyPublisher *)

(* A new writer, matched with the readers discovered so far. *)
CopyFound ==
  /\ upc = "idle" /\ writer = 0 /\ created < MaxCreates
  /\ upc' = "copied"
  /\ copy' = readers
  /\ tell' = created + 1
  /\ created' = created + 1
  /\ UNCHANGED <<alive, inbox, nodes, readers, writer, targets, todo, rndp, redp, hbt, told>>

Register ==
  /\ upc = "copied"
  /\ upc' = "registered"
  /\ writer' = tell
  /\ targets' = copy
  /\ copy' = {}
  /\ UNCHANGED <<alive, inbox, nodes, readers, tell, todo, created, rndp, redp, hbt, told>>

Unregister ==
  /\ upc = "idle" /\ writer # 0
  /\ upc' = "unregistered"
  /\ tell' = writer
  /\ writer' = 0
  /\ targets' = {}
  /\ UNCHANGED <<alive, inbox, nodes, readers, copy, todo, created, rndp, redp, hbt, told>>

(* Go through the nodes, under _discovered_mtx and not _nodes_mtx. *)
StartTelling ==
  /\ \/ upc = "registered" /\ upc' = "telling"
     \/ upc = "unregistered" /\ upc' = "retracting"
  /\ todo' = DOMAIN nodes
  /\ UNCHANGED <<alive, inbox, nodes, readers, writer, targets, copy, tell, created,
                 rndp, redp, hbt, told>>

(* Send to one of them.  What a node without ctrl_loc is sent is lost; of  *)
(* one that is erased meanwhile the loop may find the old locator.         *)
Tell(p) ==
  /\ upc \in {"telling", "retracting"}
  /\ p \in todo
  /\ todo' = todo \ {p}
  /\ LET said == [told EXCEPT ![p] = IF upc = "telling" THEN @ \cup {tell} ELSE @ \ {tell}] IN
       IF p \in DOMAIN nodes THEN told' = IF nodes[p].loc THEN said ELSE told
       ELSE told' \in {told, said}
  /\ UNCHANGED <<alive, inbox, nodes, readers, writer, targets, upc, copy, tell, created,
                 rndp, redp, hbt>>

TellDone ==
  /\ upc \in {"telling", "retracting"} /\ todo = {}
  /\ upc' = "idle" /\ tell' = 0
  /\ UNCHANGED <<alive, inbox, nodes, readers, writer, targets, copy, todo, created,
                 rndp, redp, hbt, told>>

-----------------------------------------------------------------------------
(* rndp_listener *)

(* Enter a node.  A loop that goes through the nodes at that time may or   *)
(* may not come to it.                                                     *)
NewNode(p) ==
  /\ npc = "idle" /\ p \in alive /\ p \notin DOMAIN nodes
  /\ nodes' = Enter(nodes, p, [age |-> "new", loc |-> FALSE])
  /\ npc' = "entered"
  /\ newcomer' = p
  /\ todo' \in IF DiscoveredFree THEN {todo} ELSE {todo, todo \cup {p}}
  /\ told' = [told EXCEPT ![p] = {}]
  /\ UNCHANGED <<alive, inbox, readers, writer, targets, upc, copy, tell, created, snap,
                 redp, hbt>>

KnownNode(p) ==
  /\ npc = "idle" /\ p \in alive /\ p \in DOMAIN nodes
  /\ nodes' = [nodes EXCEPT ![p].age = IF @ = "void" THEN @ ELSE "fresh"]
  /\ UNCHANGED <<alive, inbox, readers, writer, targets, user, rndp, redp, hbt, told>>

(* Set ctrl_loc.  If the node has been erased in between, operator[]       *)
(* enters it again, empty: its timeout is 0.                               *)
SetLocator ==
  /\ npc = "entered"
  /\ nodes' = Enter(nodes, newcomer,
                    [age |-> IF newcomer \in DOMAIN nodes THEN nodes[newcomer].age ELSE "void",
                     loc |-> TRUE])
  /\ npc' = "located"
  /\ todo' \in IF DiscoveredFree \/ newcomer \in DOMAIN nodes THEN {todo}
               ELSE {todo, todo \cup {newcomer}}
  /\ UNCHANGED <<alive, inbox, readers, writer, targets, upc, copy, tell, created, newcomer, snap,
                 redp, hbt, told>>

(* None of its locators is the address it was heard from. *)
NoLocator ==
  /\ npc = "entered"
  /\ npc' = "idle" /\ newcomer' = NoPeer
  /\ UNCHANGED <<alive, inbox, nodes, readers, writer, targets, user, snap, redp, hbt, told>>

(* Faulty variant: the local endpoints are not collected. *)
CollectNothing ==
  /\ npc = "located"
  /\ npc' = "telling"
  /\ UNCHANGED <<alive, inbox, nodes, readers, writer, targets, user, newcomer, snap,
                 redp, hbt, told>>

(* Collect the local endpoints, which _local_mtx belongs to and is not     *)
(* held for: the writer is seen if it is registered by then.               *)
CollectLocal ==
  /\ npc = "located"
  /\ snap' = writer
  /\ npc' = "telling"
  /\ UNCHANGED <<alive, inbox, nodes, readers, writer, targets, user, newcomer,
                 redp, hbt, told>>

(* Send the newcomer what was collected.                                   *)
TellNew ==
  /\ npc = "telling"
  /\ told' = [told EXCEPT ![newcomer] = IF snap = 0 THEN @ ELSE @ \cup {snap}]
  /\ npc' = "idle" /\ newcomer' = NoPeer /\ snap' = 0
  /\ UNCHANGED <<alive, inbox, nodes, readers, writer, targets, user, redp, hbt>>

-----------------------------------------------------------------------------
(* redp_listener *)

(* _discovered_readers, under _discovered_mtx.  A reader of another type   *)
(* than the topic has is entered, and then what is thrown out of the       *)
(* thread ends the program.                                                *)
EnterFound ==
  /\ rpc = "idle" /\ inbox # <<>>
  /\ DiscoveredFree
  /\ LET msg == Head(inbox) IN
       /\ readers' = IF Adding(msg) THEN readers \cup {msg.peer} ELSE readers \ {msg.peer}
       /\ msgtype' = IF Adding(msg) /\ readers = {} THEN msg.type ELSE msgtype
       /\ rpc' = IF Adding(msg) /\ msg.type # msgtype' THEN "thrown" ELSE "entered"
       /\ rmsg' = msg
  /\ inbox' = Tail(inbox)
  /\ UNCHANGED <<alive, nodes, writer, targets, user, rndp, hbt, told>>

(* The local writer, if there is one, under _local_mtx. *)
UpdateMatch ==
  /\ rpc = "entered"
  /\ targets' = IF writer = 0 THEN targets
              ELSE IF Adding(rmsg) THEN targets \cup {rmsg.peer} ELSE targets \ {rmsg.peer}
  /\ rpc' = "idle" /\ rmsg' = NoMsg
  /\ UNCHANGED <<alive, inbox, nodes, readers, msgtype, writer, user, rndp, hbt, told>>

-----------------------------------------------------------------------------
(* heartbeat_detect *)

Expired == {p \in DOMAIN nodes : nodes[p].age # "fresh"}

Collect ==
  /\ hpc = "idle" /\ Expired # {}
  /\ NodesFree
  /\ dead' = Expired
  /\ hpc' = "nodes"
  /\ UNCHANGED <<alive, inbox, nodes, readers, writer, targets, user, rndp, redp, told>>

EraseNodes ==
  /\ hpc = "nodes"
  /\ NodesFree
  /\ nodes' = [p \in DOMAIN nodes \ dead |-> nodes[p]]
  /\ hpc' = "found"
  /\ UNCHANGED <<alive, inbox, readers, writer, targets, user, rndp, redp, dead, told>>

EraseFound ==
  /\ hpc = "found"
  /\ DiscoveredFree
  /\ readers' = readers \ dead
  /\ hpc' = "match"
  /\ UNCHANGED <<alive, inbox, nodes, writer, targets, user, rndp, redp, dead, told>>

EraseMatch ==
  /\ hpc = "match"
  /\ targets' = targets \ dead
  /\ hpc' = "idle" /\ dead' = {}
  /\ UNCHANGED <<alive, inbox, nodes, readers, writer, user, rndp, redp, told>>

-----------------------------------------------------------------------------
(* The peers and the time *)

PeerStarts(p) ==
  /\ p \notin alive
  /\ alive' = alive \cup {p}
  /\ UNCHANGED <<inbox, nodes, readers, writer, targets, user, rndp, redp, hbt, told>>

PeerCrashes(p) ==
  /\ p \in alive
  /\ alive' = alive \ {p}
  /\ UNCHANGED <<inbox, nodes, readers, writer, targets, user, rndp, redp, hbt, told>>

PeerSends(p, type) ==
  /\ p \in alive
  /\ Len(inbox) < MaxInbox
  /\ inbox' = Append(inbox, [type |-> type, peer |-> p])
  /\ UNCHANGED <<alive, nodes, readers, writer, targets, user, rndp, redp, hbt, told>>

PeerTimeout(p) ==
  /\ p \in DOMAIN nodes \ alive
  /\ nodes[p].age = "fresh"
  /\ nodes' = [nodes EXCEPT ![p].age = "stale"]
  /\ UNCHANGED <<alive, inbox, readers, writer, targets, user, rndp, redp, hbt, told>>

-----------------------------------------------------------------------------
NodeNext ==
  /\ rpc # "thrown"
  /\ \/ CopyFound \/ Register \/ Unregister \/ StartTelling \/ TellDone
     \/ SetLocator \/ NoLocator \/ CollectLocal \/ TellNew
     \/ EnterFound \/ UpdateMatch
     \/ Collect \/ EraseNodes \/ EraseFound \/ EraseMatch
     \/ \E p \in Peers :
          \/ Tell(p)
          \/ NewNode(p) \/ KnownNode(p)
          \/ PeerStarts(p) \/ PeerCrashes(p)
          \/ \E type \in MsgTypes \cup {NoMsgType} : PeerSends(p, type)
          \/ PeerTimeout(p)

NodeSpec == NodeInit /\ [][NodeNext]_nodeVars

-----------------------------------------------------------------------------
(* Properties *)

(* Every variable has a value of its type; a thread that is at work on a   *)
(* node or a message has one, and peers are told only of writers that      *)
(* were created.                                                           *)
NodeTypeOK ==
  /\ alive \subseteq Peers
  /\ inbox \in Seq(ReaderMsgs)
  /\ DOMAIN nodes \subseteq Peers
  /\ \A p \in DOMAIN nodes : nodes[p] \in [age : Ages, loc : BOOLEAN]
  /\ readers \subseteq Peers /\ targets \subseteq Peers /\ copy \subseteq Peers /\ todo \subseteq Peers
  /\ writer \in 0 .. MaxCreates /\ tell \in 0 .. MaxCreates /\ created \in 0 .. MaxCreates
  /\ snap \in 0 .. MaxCreates
  /\ upc \in {"idle", "copied", "registered", "telling", "unregistered", "retracting"}
  /\ npc \in {"idle", "entered", "located", "telling"}
  /\ newcomer \in Peers \cup {NoPeer} /\ (npc # "idle" => newcomer \in Peers)
  /\ rpc \in {"idle", "entered", "thrown"}
  /\ rmsg \in [type : MsgTypes \cup {NoMsgType}, peer : Peers \cup {NoPeer}]
  /\ msgtype \in MsgTypes \cup {NoMsgType} /\ (readers # {} => msgtype # NoMsgType)
  /\ (rpc = "entered" => rmsg.peer \in Peers)
  /\ hpc \in {"idle", "nodes", "found", "match"}
  /\ dead \subseteq Peers
  /\ told \in [Peers -> SUBSET (1 .. MaxCreates)]

(* Whichever comes first, the creation of a publisher or the discovery of  *)
(* a node: when neither thread is at it any more, every node that can be   *)
(* reached has been told of the publisher (node_impl.hpp:49-57,            *)
(* node.cpp:196-207).                                                      *)
AllTold ==
  upc = "idle" /\ npc = "idle" /\ writer # 0 =>
    \A p \in DOMAIN nodes : nodes[p].loc => writer \in told[p]

(* Who is responsible for telling p of the writer while it is not told.    *)
ToBeTold(p) ==
  \/ upc = "registered"
  \/ upc = "telling" /\ p \in todo
  \/ npc = "located" /\ newcomer = p
  \/ npc = "telling" /\ newcomer = p /\ snap = writer

(* The inductive form of AllTold. *)
ToldOrWill ==
  /\ writer # 0 => \A p \in DOMAIN nodes : nodes[p].loc => writer \in told[p] \/ ToBeTold(p)
  /\ upc \in {"registered", "telling"} => tell = writer
  /\ upc \in {"copied", "registered", "telling", "unregistered", "retracting"} => tell # 0
  /\ upc \in {"copied", "unregistered", "retracting"} => writer = 0
  /\ writer # 0 => upc \in {"idle", "registered", "telling"}
  /\ upc = "idle" => tell = 0
  /\ npc # "telling" => snap = 0

=============================================================================
