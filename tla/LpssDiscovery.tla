--------------------------- MODULE LpssDiscovery ---------------------------
(***************************************************************************)
(* Discovery between lpss::async::Node objects, for one topic.  A node     *)
(* announces itself by multicast (RNDP), tells the nodes it has discovered *)
(* of its endpoints by unicast (REDP), and forgets a node, with its        *)
(* endpoints, that has not been heard of for a heartbeat timeout.          *)
(*                                                                         *)
(* The coroutines of a node run on one thread, so that what a coroutine    *)
(* does between two co_awaits is one step.  Datagrams of one node to       *)
(* another arrive in order; with Lossy, announcements may be lost for      *)
(* longer than the timeout.  A restarted program is another node, because  *)
(* its GUID contains its process id.                                       *)
(***************************************************************************)
EXTENDS Integers, Sequences, FiniteSets, SequencesExt

CONSTANTS
  Nodes,
  HostOf,    (* HostOf[n] : Guid::host() of node n                         *)
  TypeOf,    (* TypeOf[n] : the message type n uses on the topic           *)
  Roles,     (* Roles[n] : the kinds of endpoint n creates                 *)
  Leavers,   (* the nodes that may shut down                               *)
  Crashers,  (* the nodes that may crash                                   *)
  Lossy,     (* announcements may get lost                                 *)
  MaxEid,    (* bound on the endpoints a node creates                      *)
  MaxFlight, (* bound on the datagrams from one node to another            *)
  NoType

Kinds == {"Writer", "Reader"}

ASSUME RolesAssumption == Roles \in [Nodes -> SUBSET Kinds]
ASSUME LeaversAssumption == Leavers \subseteq Nodes /\ Crashers \subseteq Nodes
ASSUME TypeAssumption == \A n \in Nodes : n \in DOMAIN TypeOf /\ TypeOf[n] # NoType
ASSUME HostAssumption == Nodes \subseteq DOMAIN HostOf
ASSUME BoundsAssumption == MaxEid \in Nat /\ MaxFlight \in Nat /\ Lossy \in BOOLEAN

VARIABLES
  status, (* status[n] : "off", "up", "left" (shutdown()) or "crashed"     *)
  known,  (* known[n] : _discovered_nodes; known[n][m] is "new" while      *)
          (* last_alive is unset, then "fresh", or "stale" after the       *)
          (* timeout                                                       *)
  found,  (* found[n] : _discovered_writers and _discovered_readers        *)
  typed,  (* typed[n][k] : the msgtype kept with the endpoints of a kind   *)
  local,  (* local[n][k] : _local_writers / _local_readers, 0 if none      *)
  match,  (* match[n][k] : the targets of the local writer, the sources of *)
          (* the local reader                                              *)
  eid,    (* eid[n] : _next_eid                                            *)
  deaf,   (* deaf[n] : redp_listener has ended by an exception             *)
  net,    (* net[<<m, n>>] : the REDP datagrams on their way from m to n   *)
  echo,   (* <<m, n>> : an announcement of m, which is gone, may reach n   *)
  wrong   (* history : <<n, m>>, n has given up m while m was up           *)

tables == <<found, typed, match>>
vars == <<status, known, tables, local, eid, deaf, net, echo, wrong>>

Endpoints == [node : Nodes, kind : Kinds, id : 1 .. MaxEid]

Up == {n \in Nodes : status[n] = "up"}

Of(m, S) == {e \in S : e.node = m}
OfKind(k, S) == {e \in S : e.kind = k}
Opposite(k) == IF k = "Writer" THEN "Reader" ELSE "Writer"

(* The endpoints of node n. *)
Own(n) == {[node |-> n, kind |-> k, id |-> local[n][k]] : k \in {k \in Kinds : local[n][k] # 0}}

(* The endpoints among S an endpoint of kind k of node n is matched with:  *)
(* DataWriterBase::add takes every reader, DataReaderBase::add the writers *)
(* of its own host.                                                        *)
Matching(n, k, S) ==
  {e \in OfKind(Opposite(k), S) : k = "Writer" \/ HostOf[e.node] = HostOf[n]}

(* erase_endpoint_or_node: the endpoint, or, if it is not there, whatever  *)
(* belongs to its node.                                                    *)
Erase(S, e) == IF e \in S THEN S \ {e} ELSE S \ Of(e.node, S)

(* Send the messages msgs of n to the nodes in T.  A datagram to a node    *)
(* that is not up is lost.                                                 *)
Send(n, T, msgs) ==
  [c \in Nodes \X Nodes |->
     IF c[1] = n /\ c[2] \in T \cap Up THEN net[c] \o msgs ELSE net[c]]

Room(n, T, k) == \A m \in T : Len(net[<<n, m>>]) + k <= MaxFlight

Messages(add, S) == SetToSeq({[add |-> add, ep |-> e] : e \in S})

Init ==
  /\ status = [n \in Nodes |-> "off"]
  /\ known = [n \in Nodes |-> <<>>]
  /\ found = [n \in Nodes |-> {}]
  /\ typed = [n \in Nodes |-> [k \in Kinds |-> NoType]]
  /\ local = [n \in Nodes |-> [k \in Kinds |-> 0]]
  /\ match = [n \in Nodes |-> [k \in Kinds |-> {}]]
  /\ eid = [n \in Nodes |-> 1]
  /\ deaf = [n \in Nodes |-> FALSE]
  /\ net = [c \in Nodes \X Nodes |-> <<>>]
  /\ echo = {}
  /\ wrong = {}

(* The constructor. *)
Start(n) ==
  /\ status[n] = "off"
  /\ status' = [status EXCEPT ![n] = "up"]
  /\ UNCHANGED <<known, tables, local, eid, deaf, net, echo, wrong>>

-----------------------------------------------------------------------------
(* createPublisher, createSubscriber, destroyPublisher, destroySubscriber  *)

(* Faulty variant: only the nodes not heard of twice are told.             *)
CreateQuiet(n, k) ==
  /\ status[n] = "up"
  /\ k \in Roles[n] /\ local[n][k] = 0 /\ eid[n] <= MaxEid
  /\ Room(n, DOMAIN known[n], 1)
  /\ local' = [local EXCEPT ![n][k] = eid[n]]
  /\ eid' = [eid EXCEPT ![n] = @ + 1]
  /\ match' = [match EXCEPT ![n][k] = Matching(n, k, found[n])]
  /\ net' = Send(n, {m \in DOMAIN known[n] : known[n][m] = "new"},
                 Messages(TRUE, {[node |-> n, kind |-> k, id |-> eid[n]]}))
  /\ UNCHANGED <<status, known, found, typed, deaf, echo, wrong>>

(* Match with what is discovered already, register and tell every known    *)
(* node.                                                                   *)
Create(n, k) ==
  /\ status[n] = "up"
  /\ k \in Roles[n] /\ local[n][k] = 0 /\ eid[n] <= MaxEid
  /\ Room(n, DOMAIN known[n], 1)
  /\ local' = [local EXCEPT ![n][k] = eid[n]]
  /\ eid' = [eid EXCEPT ![n] = @ + 1]
  /\ match' = [match EXCEPT ![n][k] = Matching(n, k, found[n])]
  /\ net' = Send(n, DOMAIN known[n], Messages(TRUE, {[node |-> n, kind |-> k, id |-> eid[n]]}))
  /\ UNCHANGED <<status, known, found, typed, deaf, echo, wrong>>

Destroy(n, k) ==
  /\ status[n] = "up"
  /\ local[n][k] # 0
  /\ Room(n, DOMAIN known[n], 1)
  /\ local' = [local EXCEPT ![n][k] = 0]
  /\ match' = [match EXCEPT ![n][k] = {}]
  /\ net' = Send(n, DOMAIN known[n], Messages(FALSE, {e \in Own(n) : e.kind = k}))
  /\ UNCHANGED <<status, known, found, typed, eid, deaf, echo, wrong>>

-----------------------------------------------------------------------------
(* rndp_listener *)

(* An announcement of m reaches n. *)
Announced(n, m) ==
  /\ n # m /\ status[n] = "up"
  /\ \/ status[m] = "up" /\ UNCHANGED echo
     \/ <<m, n>> \in echo /\ echo' = echo \ {<<m, n>>}

(* Faulty variant: a newcomer is told of the writers only. *)
HearNewWriters(n, m) ==
  /\ Announced(n, m)
  /\ m \notin DOMAIN known[n]
  /\ Room(n, {m}, Cardinality(Own(n)))
  /\ known' = [known EXCEPT ![n] = [x \in DOMAIN @ \cup {m} |-> IF x = m THEN "new" ELSE known[n][x]]]
  /\ net' = Send(n, {m}, Messages(TRUE, OfKind("Writer", Own(n))))
  /\ UNCHANGED <<status, tables, local, eid, deaf, wrong>>

(* A node not known yet: it is entered without setting last_alive, and     *)
(* told of the local endpoints.                                            *)
HearNew(n, m) ==
  /\ Announced(n, m)
  /\ m \notin DOMAIN known[n]
  /\ Room(n, {m}, Cardinality(Own(n)))
  /\ known' = [known EXCEPT ![n] = [x \in DOMAIN @ \cup {m} |-> IF x = m THEN "new" ELSE known[n][x]]]
  /\ net' = Send(n, {m}, Messages(TRUE, Own(n)))
  /\ UNCHANGED <<status, tables, local, eid, deaf, wrong>>

(* A known one: last_alive is set to now. *)
HearAgain(n, m) ==
  /\ Announced(n, m)
  /\ m \in DOMAIN known[n]
  /\ known' = [known EXCEPT ![n][m] = "fresh"]
  /\ UNCHANGED <<status, tables, local, eid, deaf, net, wrong>>

-----------------------------------------------------------------------------
(* redp_listener *)

Arrived(n, m) == status[n] = "up" /\ ~deaf[n] /\ net[<<m, n>>] # <<>>

Receive(n, m) == net' = [net EXCEPT ![<<m, n>>] = Tail(@)]

(* Enter the endpoint.  The first one of a kind sets the type; another     *)
(* type throws, which ends the coroutine: the endpoint is entered, but not *)
(* matched.                                                                *)
EndpointAdded(n, m) ==
  /\ Arrived(n, m)
  /\ LET msg == Head(net[<<m, n>>])
         e == msg.ep
         k == Opposite(e.kind)
         type == IF typed[n][e.kind] = NoType THEN TypeOf[m] ELSE typed[n][e.kind] IN
       /\ msg.add
       /\ found' = [found EXCEPT ![n] = @ \cup {e}]
       /\ typed' = [typed EXCEPT ![n][e.kind] = type]
       /\ deaf' = [deaf EXCEPT ![n] = type # TypeOf[m]]
       /\ match' = [match EXCEPT ![n][k] =
                      IF type = TypeOf[m] /\ local[n][k] # 0 THEN @ \cup Matching(n, k, {e}) ELSE @]
  /\ Receive(n, m)
  /\ UNCHANGED <<status, known, local, eid, echo, wrong>>

(* The type kept for a kind goes with its last endpoint. *)
Retyped(n, S) == [k \in Kinds |-> IF OfKind(k, S) = {} THEN NoType ELSE typed[n][k]]

(* Faulty variant: the caches of the local endpoints are left as they are. *)
EndpointRemovedUnmatched(n, m) ==
  /\ Arrived(n, m)
  /\ LET msg == Head(net[<<m, n>>]) IN
       /\ ~msg.add
       /\ found' = [found EXCEPT ![n] = @ \ {msg.ep}]
       /\ typed' = [typed EXCEPT ![n] = Retyped(n, found'[n])]
  /\ Receive(n, m)
  /\ UNCHANGED <<status, known, local, eid, deaf, echo, wrong, match>>

EndpointRemoved(n, m) ==
  /\ Arrived(n, m)
  /\ LET msg == Head(net[<<m, n>>])
         k == Opposite(msg.ep.kind) IN
       /\ ~msg.add
       /\ found' = [found EXCEPT ![n] = @ \ {msg.ep}]
       /\ typed' = [typed EXCEPT ![n] = Retyped(n, found'[n])]
       /\ match' = [match EXCEPT ![n][k] =
                      IF local[n][k] # 0 THEN Erase(@, msg.ep) ELSE @]
  /\ Receive(n, m)
  /\ UNCHANGED <<status, known, local, eid, deaf, echo, wrong>>

-----------------------------------------------------------------------------
(* heartbeat_detect *)

(* The nodes whose last_alive is more than the timeout ago; one that was   *)
(* never set always is.                                                    *)
TimedOut(n) == {m \in DOMAIN known[n] : known[n][m] # "fresh"}

GiveUp(n, dead) ==
  /\ known' = [known EXCEPT ![n] = [m \in DOMAIN @ \ dead |-> @[m]]]
  /\ wrong' = wrong \cup {<<n, m>> : m \in dead \cap Up}

(* Faulty variant: the writers of the dead nodes are kept.                 *)
HeartbeatDetectReaders(n) ==
  /\ status[n] = "up"
  /\ TimedOut(n) # {}
  /\ GiveUp(n, TimedOut(n))
  /\ found' = [found EXCEPT ![n] = {e \in @ : e.node \notin TimedOut(n) \/ e.kind = "Writer"}]
  /\ typed' = [typed EXCEPT ![n] = Retyped(n, found'[n])]
  /\ match' = [match EXCEPT ![n] = [k \in Kinds |-> {e \in @[k] : e.node \notin TimedOut(n)}]]
  /\ UNCHANGED <<status, local, eid, deaf, net, echo>>

HeartbeatDetect(n) ==
  /\ status[n] = "up"
  /\ TimedOut(n) # {}
  /\ GiveUp(n, TimedOut(n))
  /\ found' = [found EXCEPT ![n] = {e \in @ : e.node \notin TimedOut(n)}]
  /\ typed' = [typed EXCEPT ![n] = Retyped(n, found'[n])]
  /\ match' = [match EXCEPT ![n] = [k \in Kinds |-> {e \in @[k] : e.node \notin TimedOut(n)}]]
  /\ UNCHANGED <<status, local, eid, deaf, net, echo>>

(* The timeout of m passes at n.  If nothing is lost, m is gone and what   *)
(* it has sent has arrived long ago.                                       *)
Timeout(n, m) ==
  /\ status[n] = "up"
  /\ m \in DOMAIN known[n] /\ known[n][m] = "fresh"
  /\ Lossy \/ (m \notin Up /\ <<m, n>> \notin echo /\ (deaf[n] \/ net[<<m, n>>] = <<>>))
  /\ known' = [known EXCEPT ![n][m] = "stale"]
  /\ UNCHANGED <<status, tables, local, eid, deaf, net, echo, wrong>>

-----------------------------------------------------------------------------
(* shutdown() and crashes *)

(* What goes with the process; datagrams to it are lost, an announcement   *)
(* of it may be on its way still.                                          *)
Gone(n, how) ==
  /\ status' = [status EXCEPT ![n] = how]
  /\ known' = [known EXCEPT ![n] = <<>>]
  /\ found' = [found EXCEPT ![n] = {}]
  /\ typed' = [typed EXCEPT ![n] = [k \in Kinds |-> NoType]]
  /\ local' = [local EXCEPT ![n] = [k \in Kinds |-> 0]]
  /\ match' = [match EXCEPT ![n] = [k \in Kinds |-> {}]]
  /\ echo' = {p \in echo : p[2] # n} \cup {<<n, m>> : m \in Up \ {n}}
  /\ UNCHANGED <<eid, deaf, wrong>>

Incoming(n, f) == [c \in Nodes \X Nodes |-> IF c[2] = n THEN <<>> ELSE f[c]]

(* Take back every endpoint at every known node. *)
Shutdown(n) ==
  /\ n \in Leavers /\ status[n] = "up"
  /\ Room(n, DOMAIN known[n], Cardinality(Own(n)))
  /\ net' = Incoming(n, Send(n, DOMAIN known[n], Messages(FALSE, Own(n))))
  /\ Gone(n, "left")

Crash(n) ==
  /\ n \in Crashers /\ status[n] = "up"
  /\ net' = Incoming(n, net)
  /\ Gone(n, "crashed")

(* The last announcement does not arrive. *)
EchoFades(n, m) ==
  /\ <<m, n>> \in echo
  /\ echo' = echo \ {<<m, n>>}
  /\ UNCHANGED <<status, known, tables, local, eid, deaf, net, wrong>>

-----------------------------------------------------------------------------
(* What the network, the timers and the coroutines do by themselves. *)
Progress(n, m) ==
  \/ HearNew(n, m) \/ HearAgain(n, m)
  \/ EndpointAdded(n, m) \/ EndpointRemoved(n, m)
  \/ Timeout(n, m) \/ EchoFades(n, m)

Next ==
  \E n \in Nodes :
    \/ Start(n)
    \/ \E k \in Kinds : Create(n, k) \/ Destroy(n, k)
    \/ \E m \in Nodes : Progress(n, m)
    \/ HeartbeatDetect(n)
    \/ Shutdown(n) \/ Crash(n)

Spec == Init /\ [][Next]_vars

(* Announcements are periodic, datagrams arrive, the event loop runs every *)
(* coroutine that is ready, and time passes.                               *)
FairSpec ==
  /\ Spec
  /\ \A n, m \in Nodes :
       /\ WF_vars(HearNew(n, m)) /\ WF_vars(HearAgain(n, m))
       /\ WF_vars(EndpointAdded(n, m) \/ EndpointRemoved(n, m))
       /\ WF_vars(Timeout(n, m)) /\ WF_vars(EchoFades(n, m))
  /\ \A n \in Nodes : WF_vars(HeartbeatDetect(n))

-----------------------------------------------------------------------------
(* Properties *)

(* Every variable has a value of its type; a node never enters itself      *)
(* among those it has discovered (node_async.cpp:60-75).                   *)
TypeOK ==
  /\ status \in [Nodes -> {"off", "up", "left", "crashed"}]
  /\ DOMAIN known = Nodes
  /\ \A n \in Nodes : \A m \in DOMAIN known[n] :
       m \in Nodes \ {n} /\ known[n][m] \in {"new", "fresh", "stale"}
  /\ found \in [Nodes -> SUBSET Endpoints]
  /\ typed \in [Nodes -> [Kinds -> {TypeOf[n] : n \in Nodes} \cup {NoType}]]
  /\ local \in [Nodes -> [Kinds -> 0 .. MaxEid]]
  /\ match \in [Nodes -> [Kinds -> SUBSET Endpoints]]
  /\ eid \in [Nodes -> 1 .. MaxEid + 1]
  /\ deaf \in [Nodes -> BOOLEAN]
  /\ net \in [Nodes \X Nodes -> Seq([add : BOOLEAN, ep : Endpoints])]
  /\ \A c \in Nodes \X Nodes : Len(net[c]) <= MaxFlight
  /\ echo \subseteq Nodes \X Nodes /\ wrong \subseteq Nodes \X Nodes

(* A local endpoint is matched with exactly the endpoints discovered that  *)
(* it can talk to, whichever of the creation and the discovery came first  *)
(* (node_impl.hpp:149, :180, node_async.cpp:137, :186-193).                *)
CacheAgrees ==
  \A n \in Nodes, k \in Kinds :
    deaf[n] \/ match[n][k] = IF local[n][k] = 0 THEN {} ELSE Matching(n, k, found[n])

(* The endpoints that are in S, or enter it, once the datagrams q are read:*)
(* the last one about an endpoint counts.                                  *)
Final(q, S) ==
  {e \in Endpoints :
     \/ e \in S /\ \A i \in DOMAIN q : q[i].ep # e
     \/ \E i \in DOMAIN q :
          q[i].add /\ q[i].ep = e /\ \A j \in DOMAIN q : j > i => q[j].ep # e}

(* What m will have discovered of n when the datagrams under way arrive.   *)
View(m, n) == Final(net[<<n, m>>], Of(n, found[m]))

(* Unless one of them has given up the other while it was up, a node is    *)
(* told exactly the endpoints of those that know it, and that a node that  *)
(* shut down has none any more (node_async.cpp:87-96, :202-216,            *)
(* node_impl.hpp:155, :366, :383).                                         *)
Informed ==
  \A n \in Nodes : \A m \in Up \ {n} :
    /\ <<n, m>> \notin wrong /\ <<m, n>> \notin wrong
    /\ status[n] \in {"up", "left"}
    => View(m, n) = IF m \in DOMAIN known[n] THEN Own(n) ELSE {}

(* Two nodes have the same picture of the endpoints: the tables of the one *)
(* say what the other has, and its endpoints are matched by the tables.    *)
PictureAgrees == CacheAgrees /\ Informed

Talking(n, m) ==
  /\ n \in Up /\ m \in Up /\ TypeOf[n] = TypeOf[m]
  /\ local[n]["Writer"] # 0 /\ local[m]["Reader"] # 0

Matched(n, m) ==
  /\ \E e \in match[n]["Writer"] : e.node = m /\ e.id = local[m]["Reader"]
  /\ HostOf[n] = HostOf[m] =>
       \E e \in match[m]["Reader"] : e.node = n /\ e.id = local[n]["Writer"]

(* A publisher and a subscriber find each other, unless a node is given up *)
(* that was there (node_async.cpp:34-156).                                 *)
FindEachOther ==
  \A n, m \in Nodes :
    n # m => (Talking(n, m) ~> (Matched(n, m) \/ ~Talking(n, m) \/ {<<n, m>>, <<m, n>>} \cap wrong # {}))

(* Of a node that has crashed or shut down, and had been heard twice, no   *)
(* trace is left in the end (node_async.cpp:160-200).                      *)
Forgotten ==
  \A n, m \in Nodes :
    (status[m] \in {"left", "crashed"} /\ m \in DOMAIN known[n] /\ known[n][m] = "fresh") ~>
      (n \notin Up \/ (m \notin DOMAIN known[n] /\ Of(m, found[n]) = {}
                       /\ \A k \in Kinds : Of(m, match[n][k]) = {}))

(* The two together: what a node knows becomes what is there. *)
Converges == FindEachOther /\ Forgotten

=============================================================================
