--------------------------- MODULE LpssNodesProofs ---------------------------
(***************************************************************************)
(* Discovery of nodes, for any number of nodes and any bounds.             *)
(*                                                                         *)
(* The threads of a Node: every node that can be reached is told of the    *)
(* publisher, however the threads are interleaved.  As long as a node with *)
(* a locator has not been told of the registered writer, some thread has   *)
(* it on its list (ToBeTold).  Whoever comes second sees the other: the    *)
(* writer is registered before the nodes are gone through, and the locator *)
(* is set before the writer is looked up.                                  *)
(*                                                                         *)
(* Many nodes: two nodes have the same picture of the endpoints.  What a   *)
(* node sends to another stays in the order of creation, so that a removal *)
(* finds its endpoint there, or finds nothing of its kind (Channel); this  *)
(* is why DataReaderBase::remove, which removes all that belongs to the    *)
(* node if it does not find the endpoint, takes nothing that is still      *)
(* there.                                                                  *)
(***************************************************************************)
EXTENDS LpssNodeThreads, LpssDiscovery, FunctionTheorems, FiniteSetTheorems, SequenceTheorems, TLAPS

IInv == NodeTypeOK /\ ToldOrWill

-----------------------------------------------------------------------------
(* Tables *)

(* A table of nodes, as TypeOK says. *)
Table(f) ==
  /\ DOMAIN f \subseteq Peers
  /\ \A p \in DOMAIN f : f[p] \in [age : Ages, loc : BOOLEAN]

LEMMA TableEnter ==
  ASSUME NEW f, Table(f), NEW k \in Peers, NEW a \in Ages, NEW l \in BOOLEAN
  PROVE  Table(Enter(f, k, [age |-> a, loc |-> l]))
BY DEF Table, Enter

(* A new age leaves the nodes and their locators alone. *)
LEMMA TableAge ==
  ASSUME NEW f, Table(f), NEW k \in DOMAIN f, NEW a \in Ages
  PROVE  /\ Table([f EXCEPT ![k].age = a])
         /\ \A x \in DOMAIN f : [f EXCEPT ![k].age = a][x].loc = f[x].loc
BY DEF Table

-----------------------------------------------------------------------------
(* The initial state *)

LEMMA InitHolds == NodeInit => IInv
<1> SUFFICES ASSUME NodeInit PROVE IInv
  OBVIOUS
<1>1. DOMAIN nodes = {}
  BY DEF NodeInit
<1>2. NodeTypeOK
  BY <1>1, NodeBounds DEF NodeInit, NodeTypeOK, NoMsg
<1>3. ToldOrWill
  BY DEF NodeInit, ToldOrWill
<1>4. QED
  BY <1>2, <1>3 DEF IInv
-----------------------------------------------------------------------------
(* Type correctness *)

(* TypeOK needs ToldOrWill: a peer is told of a writer that exists only    *)
(* because no thread tells anybody of writer 0.                            *)
LEMMA TypeStep == IInv /\ [NodeNext]_nodeVars => NodeTypeOK'
<1> SUFFICES ASSUME IInv, [NodeNext]_nodeVars PROVE NodeTypeOK'
  OBVIOUS
<1> USE DEF IInv, NodeTypeOK, user, rndp, redp, hbt
<1>1. ASSUME CopyFound PROVE NodeTypeOK'
  BY <1>1, NodeBounds DEF CopyFound, ToldOrWill
<1>2. ASSUME Register PROVE NodeTypeOK'
  BY <1>2 DEF Register, ToldOrWill
<1>3. ASSUME Unregister PROVE NodeTypeOK'
  BY <1>3 DEF Unregister, ToldOrWill
<1>4. ASSUME StartTelling PROVE NodeTypeOK'
  BY <1>4 DEF StartTelling, ToldOrWill
<1>5. ASSUME TellDone PROVE NodeTypeOK'
  BY <1>5, NodeBounds DEF TellDone
<1>6. ASSUME SetLocator PROVE NodeTypeOK'
  <2>1. /\ newcomer \in Peers /\ npc' = "located"
        /\ todo' \in {todo, todo \cup {newcomer}}
        /\ UNCHANGED <<alive, inbox, readers, writer, targets, upc, copy, tell, created, newcomer,
                       snap, redp, hbt, told>>
    BY <1>6 DEF SetLocator
  <2>2. Table(nodes')
    <3>1. PICK a \in Ages : nodes' = Enter(nodes, newcomer, [age |-> a, loc |-> TRUE])
      BY <1>6 DEF SetLocator, Ages
    <3>2. QED
      BY <2>1, <3>1, TableEnter DEF Table
  <2>3. QED
    BY <2>1, <2>2 DEF Table
<1>7. ASSUME NoLocator PROVE NodeTypeOK'
  BY <1>7 DEF NoLocator
<1>8. ASSUME CollectLocal PROVE NodeTypeOK'
  BY <1>8 DEF CollectLocal
<1>9. ASSUME TellNew PROVE NodeTypeOK'
  <2>1. told' \in [Peers -> SUBSET (1 .. MaxCreates)]
    BY <1>9, NodeBounds DEF TellNew
  <2>2. QED
    BY <1>9, <2>1, NodeBounds DEF TellNew
<1>10. ASSUME EnterFound PROVE NodeTypeOK'
  <2> DEFINE msg == Head(inbox)
  <2>1. msg \in ReaderMsgs
    BY <1>10, HeadTailProperties DEF EnterFound
  <2>2. Tail(inbox) \in Seq(ReaderMsgs)
    BY <1>10, HeadTailProperties DEF EnterFound
  <2>3. readers' \subseteq Peers /\ rmsg' = msg /\ rpc' \in {"entered", "thrown"}
    BY <1>10, <2>1 DEF EnterFound, ReaderMsgs
  <2>4. msgtype' \in MsgTypes \cup {NoMsgType} /\ (readers' # {} => msgtype' # NoMsgType)
    BY <1>10, <2>1, PeersAssumption DEF EnterFound, Adding, ReaderMsgs
  <2>5. QED
    BY <1>10, <2>1, <2>2, <2>3, <2>4 DEF EnterFound, ReaderMsgs
<1>11. ASSUME UpdateMatch PROVE NodeTypeOK'
  <2>1. NoMsg \in [type : MsgTypes \cup {NoMsgType}, peer : Peers \cup {NoPeer}]
    BY DEF NoMsg
  <2>2. targets' \subseteq Peers
    BY <1>11 DEF UpdateMatch
  <2>3. QED
    BY <1>11, <2>1, <2>2 DEF UpdateMatch
<1>12. ASSUME Collect PROVE NodeTypeOK'
  BY <1>12 DEF Collect, Expired
<1>13. ASSUME EraseNodes PROVE NodeTypeOK'
  BY <1>13 DEF EraseNodes, ToldOrWill
<1>14. ASSUME EraseFound PROVE NodeTypeOK'
  BY <1>14 DEF EraseFound, ToldOrWill
<1>15. ASSUME EraseMatch PROVE NodeTypeOK'
  BY <1>15 DEF EraseMatch, ToldOrWill
<1>16. ASSUME NEW p \in Peers, Tell(p) PROVE NodeTypeOK'
  BY <1>16 DEF Tell, ToldOrWill
<1>17. ASSUME NEW p \in Peers, NewNode(p) PROVE NodeTypeOK'
  <2>1. Table(nodes')
    BY ZenonT(60), <1>17, TableEnter DEF NewNode, Table, Ages
  <2>2. todo' \subseteq Peers
    BY <1>17 DEF NewNode
  <2>3. QED
    BY <1>17, <2>1, <2>2 DEF NewNode, Table
<1>18. ASSUME NEW p \in Peers, KnownNode(p) PROVE NodeTypeOK'
  <2>1. PICK a \in Ages : nodes' = [nodes EXCEPT ![p].age = a]
    BY <1>18 DEF KnownNode, Ages
  <2>2. Table(nodes')
    BY <1>18, <2>1, TableAge DEF KnownNode, Table
  <2>3. QED
    BY <1>18, <2>2 DEF KnownNode, Table
<1>19. ASSUME NEW p \in Peers, PeerStarts(p) PROVE NodeTypeOK'
  BY <1>19 DEF PeerStarts, ToldOrWill
<1>20. ASSUME NEW p \in Peers, PeerCrashes(p) PROVE NodeTypeOK'
  BY <1>20 DEF PeerCrashes, ToldOrWill
<1>21. ASSUME NEW p \in Peers, NEW t \in MsgTypes \cup {NoMsgType}, PeerSends(p, t) PROVE NodeTypeOK'
  BY <1>21 DEF PeerSends, ReaderMsgs
<1>22. ASSUME NEW p \in Peers, PeerTimeout(p) PROVE NodeTypeOK'
  <2>1. nodes' = [nodes EXCEPT ![p].age = "stale"] /\ p \in DOMAIN nodes /\ "stale" \in Ages
    BY <1>22 DEF PeerTimeout, Ages
  <2>2. Table(nodes')
    BY <2>1, TableAge DEF Table
  <2>3. QED
    BY <1>22, <2>2 DEF PeerTimeout, Table
<1>23. ASSUME UNCHANGED nodeVars PROVE NodeTypeOK'
  BY <1>23 DEF nodeVars
<1>24. QED
  BY <1>1, <1>2, <1>3, <1>4, <1>5, <1>6, <1>7, <1>8, <1>9, <1>10, <1>11, <1>12, <1>13, <1>14, <1>15, <1>16, <1>17, <1>18, <1>19, <1>20, <1>21, <1>22, <1>23 DEF NodeNext

-----------------------------------------------------------------------------
(* The responsibility to tell *)

LEMMA WillStep == IInv /\ [NodeNext]_nodeVars => ToldOrWill'
<1> SUFFICES ASSUME IInv, [NodeNext]_nodeVars PROVE ToldOrWill'
  OBVIOUS
<1> USE DEF IInv, ToldOrWill, ToBeTold, user, rndp, redp, hbt
<1>1. ASSUME CopyFound PROVE ToldOrWill'
  BY <1>1 DEF CopyFound, NodeTypeOK
<1>2. ASSUME Register PROVE ToldOrWill'
  BY <1>2 DEF Register, NodeTypeOK
<1>3. ASSUME Unregister PROVE ToldOrWill'
  BY <1>3 DEF Unregister, NodeTypeOK
<1>4. ASSUME StartTelling PROVE ToldOrWill'
  BY <1>4 DEF StartTelling, NodeTypeOK
<1>5. ASSUME TellDone PROVE ToldOrWill'
  BY <1>5 DEF TellDone, NodeTypeOK
<1>6. ASSUME SetLocator PROVE ToldOrWill'
  <2>1. /\ newcomer' = newcomer /\ npc = "entered" /\ npc' = "located"
        /\ todo \subseteq todo'
        /\ UNCHANGED <<writer, upc, tell, snap, told>>
    BY <1>6 DEF SetLocator
  <2>2. /\ DOMAIN nodes' = DOMAIN nodes \cup {newcomer}
        /\ \A p \in DOMAIN nodes : p # newcomer => nodes'[p] = nodes[p]
    BY <1>6 DEF SetLocator, Enter
  <2>3. ASSUME writer # 0, NEW p \in DOMAIN nodes', nodes'[p].loc
        PROVE  writer \in told[p] \/ ToBeTold(p)'
    BY <2>1, <2>2, <2>3
  <2>4. QED
    BY <2>1, <2>3
<1>7. ASSUME NoLocator PROVE ToldOrWill'
  BY <1>7 DEF NoLocator, NodeTypeOK
<1>8. ASSUME CollectLocal PROVE ToldOrWill'
  BY <1>8 DEF CollectLocal, NodeTypeOK
<1>9. ASSUME TellNew PROVE ToldOrWill'
  BY <1>9 DEF TellNew, NodeTypeOK
<1>10. ASSUME EnterFound PROVE ToldOrWill'
  BY <1>10 DEF EnterFound, NodeTypeOK
<1>11. ASSUME UpdateMatch PROVE ToldOrWill'
  BY <1>11 DEF UpdateMatch, NodeTypeOK
<1>12. ASSUME Collect PROVE ToldOrWill'
  BY <1>12 DEF Collect, NodeTypeOK
<1>13. ASSUME EraseNodes PROVE ToldOrWill'
  BY <1>13 DEF EraseNodes, NodeTypeOK
<1>14. ASSUME EraseFound PROVE ToldOrWill'
  BY <1>14 DEF EraseFound, NodeTypeOK
<1>15. ASSUME EraseMatch PROVE ToldOrWill'
  BY <1>15 DEF EraseMatch, NodeTypeOK
<1>16. ASSUME NEW p \in Peers, Tell(p) PROVE ToldOrWill'
  BY <1>16 DEF Tell, NodeTypeOK
<1>17. ASSUME NEW p \in Peers, NewNode(p) PROVE ToldOrWill'
  <2>1. /\ npc = "idle" /\ npc' = "entered"
        /\ todo \subseteq todo'
        /\ UNCHANGED <<writer, upc, tell, snap>>
        /\ \A q \in Peers \ {p} : told'[q] = told[q]
    BY <1>17 DEF NewNode, NodeTypeOK
  <2>2. /\ DOMAIN nodes' = DOMAIN nodes \cup {p}
        /\ \A q \in DOMAIN nodes : q # p => nodes'[q] = nodes[q]
        /\ nodes'[p].loc = FALSE
    BY <1>17 DEF NewNode, Enter
  <2>3. ASSUME writer # 0, NEW q \in DOMAIN nodes', nodes'[q].loc
        PROVE  writer \in told'[q] \/ ToBeTold(q)'
    BY <2>1, <2>2, <2>3, DOMAIN nodes \subseteq Peers DEF NodeTypeOK
  <2>4. QED
    BY <2>1, <2>3
<1>18. ASSUME NEW p \in Peers, KnownNode(p) PROVE ToldOrWill'
  BY <1>18 DEF KnownNode, NodeTypeOK
<1>19. ASSUME NEW p \in Peers, PeerStarts(p) PROVE ToldOrWill'
  BY <1>19 DEF PeerStarts, NodeTypeOK
<1>20. ASSUME NEW p \in Peers, PeerCrashes(p) PROVE ToldOrWill'
  BY <1>20 DEF PeerCrashes, NodeTypeOK
<1>21. ASSUME NEW p \in Peers, NEW t \in MsgTypes \cup {NoMsgType}, PeerSends(p, t) PROVE ToldOrWill'
  BY <1>21 DEF PeerSends
<1>22. ASSUME NEW p \in Peers, PeerTimeout(p) PROVE ToldOrWill'
  BY <1>22 DEF PeerTimeout, NodeTypeOK
<1>23. ASSUME UNCHANGED nodeVars PROVE ToldOrWill'
  BY <1>23 DEF nodeVars
<1>24. QED
  BY <1>1, <1>2, <1>3, <1>4, <1>5, <1>6, <1>7, <1>8, <1>9, <1>10, <1>11, <1>12, <1>13, <1>14, <1>15, <1>16, <1>17, <1>18, <1>19, <1>20, <1>21, <1>22, <1>23 DEF NodeNext

-----------------------------------------------------------------------------
(* The theorems *)

LEMMA Inductive == NodeSpec => []IInv
<1>1. IInv /\ [NodeNext]_nodeVars => IInv'
  BY TypeStep, WillStep DEF IInv
<1>2. QED
  BY InitHolds, <1>1, PTL DEF NodeSpec

(* The tables, the lists of the threads and the messages they work on have *)
(* the types TypeOK says, for any number of peers and any bounds.          *)
THEOREM TypeCorrect == NodeSpec => []NodeTypeOK
<1>1. IInv => NodeTypeOK
  BY DEF IInv
<1>2. QED
  BY Inductive, <1>1, PTL

(* While a node that can be reached does not know of the publisher, some   *)
(* thread of node_impl.hpp:49-57 or node.cpp:196-207 has still to tell it. *)
THEOREM SomebodyTells == NodeSpec => []ToldOrWill
<1>1. IInv => ToldOrWill
  BY DEF IInv
<1>2. QED
  BY Inductive, <1>1, PTL

(* Between createPublisher and rndp_listener no node is forgotten: when    *)
(* both are done, every node that can be reached knows of the publisher.   *)
THEOREM NobodyForgotten == NodeSpec => []AllTold
<1>1. IInv => AllTold
  BY DEF IInv, ToldOrWill, ToBeTold, AllTold
<1>2. QED
  BY Inductive, <1>1, PTL

-----------------------------------------------------------------------------
(* Discovery between many nodes: the datagrams of one node to another      *)

Datagrams == [add : BOOLEAN, ep : Endpoints]

(* The endpoints of a kind arrive in the order of their creation, and      *)
(* nothing is added once it has been removed.                              *)
Ordered(q) ==
  \A i, j \in DOMAIN q :
    i < j /\ q[i].ep.kind = q[j].ep.kind =>
      /\ q[i].ep.id <= q[j].ep.id
      /\ ~q[i].add => q[i].ep.id < q[j].ep.id

(* What is in F already is not newer than what arrives.                    *)
Behind(q, F) ==
  \A e \in F, i \in DOMAIN q : e.kind = q[i].ep.kind => e.id <= q[i].ep.id

(* When the datagrams before the i-th have been read, e is there, or no    *)
(* endpoint of its kind is.                                                *)
Removable(q, F, e, i) ==
  \/ e \in F
  \/ \E j \in DOMAIN q : j < i /\ q[j].add /\ q[j].ep = e
  \/ /\ \A x \in F : x.kind # e.kind
     /\ \A j \in DOMAIN q : j < i /\ q[j].ep.kind = e.kind => ~q[j].add

RemovesWhole(q, F) == \A i \in DOMAIN q : ~q[i].add => Removable(q, F, q[i].ep, i)

(* All that has been heard of the kind k is older than the endpoint v, or  *)
(* an announcement of it.                                                  *)
UpTo(q, F, k, v) ==
  /\ \A e \in F : e.kind = k => e.id <= v
  /\ \A i \in DOMAIN q : q[i].ep.kind = k => q[i].ep.id <= v /\ (~q[i].add => q[i].ep.id < v)

LocalEndpoint(n, k, v) == [node |-> n, kind |-> k, id |-> v]

(* The datagrams of n to a node that has discovered the endpoints F of n,  *)
(* when n has the endpoints loc and creates number v next; it has told the *)
(* node of the kinds K, if anybody is there.                               *)
Channel(q, F, n, loc, K, v) ==
  /\ \A i \in DOMAIN q : q[i].ep.node = n /\ q[i].ep.id < v
  /\ \A e \in F : e.id < v
  /\ Ordered(q) /\ Behind(q, F) /\ RemovesWhole(q, F)
  /\ \A k \in Kinds : loc[k] # 0 =>
       /\ UpTo(q, F, k, loc[k])
       /\ k \in K => Removable(q, F, LocalEndpoint(n, k, loc[k]), Len(q) + 1)

-----------------------------------------------------------------------------
(* One datagram is read *)

LEMMA TailIs ==
  ASSUME NEW q \in Seq(Datagrams), q # <<>>
  PROVE  /\ Tail(q) \in Seq(Datagrams) /\ Len(q) > 0 /\ Len(q) \in Nat
         /\ Len(Tail(q)) = Len(q) - 1
         /\ DOMAIN q = 1 .. Len(q) /\ DOMAIN Tail(q) = 1 .. Len(q) - 1
         /\ 1 \in DOMAIN q /\ Head(q) = q[1] /\ q[1] \in Datagrams
         /\ \A i \in DOMAIN Tail(q) : i + 1 \in DOMAIN q /\ Tail(q)[i] = q[i + 1]
         /\ \A i \in DOMAIN q : i # 1 => i - 1 \in DOMAIN Tail(q)
         /\ \A i \in DOMAIN q : q[i] \in Datagrams
<1>1. Len(q) \in Nat /\ Len(q) > 0 /\ DOMAIN q = 1 .. Len(q) /\ Head(q) = q[1]
  OBVIOUS
<1>2. Tail(q) \in Seq(Datagrams) /\ Len(Tail(q)) = Len(q) - 1
  OBVIOUS
<1>3. DOMAIN Tail(q) = 1 .. Len(q) - 1
  BY <1>1, <1>2
<1>4. \A i \in 1 .. Len(q) - 1 : Tail(q)[i] = q[i + 1]
  BY <1>1
<1>5. \A i \in DOMAIN q : q[i] \in Datagrams
  OBVIOUS
<1>6. QED
  BY <1>1, <1>2, <1>3, <1>4, <1>5

LEMMA DatagramIs ==
  ASSUME NEW q \in Seq(Datagrams), NEW i \in DOMAIN q
  PROVE  /\ i \in Nat /\ i > 0 /\ i <= Len(q) /\ Len(q) \in Nat
         /\ q[i] \in Datagrams /\ q[i].add \in BOOLEAN /\ q[i].ep \in Endpoints
         /\ q[i].ep.kind \in Kinds /\ q[i].ep.id \in Nat /\ q[i].ep.node \in Nodes
<1>1. q[i] \in Datagrams
  OBVIOUS
<1>2. i \in Nat /\ i > 0 /\ i <= Len(q) /\ Len(q) \in Nat
  OBVIOUS
<1>3. q[i].add \in BOOLEAN /\ q[i].ep \in Endpoints
  BY <1>1 DEF Datagrams
<1>4. q[i].ep.kind \in Kinds /\ q[i].ep.id \in Nat /\ q[i].ep.node \in Nodes
  BY <1>3 DEF Endpoints
<1>5. QED
  BY <1>1, <1>2, <1>3, <1>4

LEMMA ReadRemovable ==
  ASSUME NEW q \in Seq(Datagrams), q # <<>>, NEW F \in SUBSET Endpoints,
         NEW e \in Endpoints, NEW i \in Nat \ {0}, Removable(q, F, e, i + 1),
         ~q[1].add => q[1].ep # e,
         NEW G, G = IF q[1].add THEN F \cup {q[1].ep} ELSE F \ {q[1].ep}
  PROVE  Removable(Tail(q), G, e, i)
<1>1. CASE e \in F
  BY <1>1 DEF Removable
<1>2. CASE \E j \in DOMAIN q : j < i + 1 /\ q[j].add /\ q[j].ep = e
  <2>1. PICK j \in DOMAIN q : j < i + 1 /\ q[j].add /\ q[j].ep = e
    BY <1>2
  <2>2. CASE j = 1
    BY <2>1, <2>2 DEF Removable
  <2>3. CASE j # 1
    <3>1. j - 1 \in DOMAIN Tail(q) /\ Tail(q)[j - 1] = q[j] /\ j \in Nat
      BY TailIs, <2>3
    <3>2. j - 1 < i
      BY <2>1, <3>1
    <3>3. QED
      BY <2>1, <3>1, <3>2 DEF Removable
  <2>4. QED
    BY <2>2, <2>3
<1>3. CASE /\ \A x \in F : x.kind # e.kind
           /\ \A j \in DOMAIN q : j < i + 1 /\ q[j].ep.kind = e.kind => ~q[j].add
  <2>1. q[1].add => q[1].ep.kind # e.kind
    BY <1>3, TailIs
  <2>2. \A x \in G : x.kind # e.kind
    BY <1>3, <2>1
  <2>3. \A j \in DOMAIN Tail(q) : j < i /\ Tail(q)[j].ep.kind = e.kind => ~Tail(q)[j].add
    <3>1. TAKE j \in DOMAIN Tail(q)
    <3>2. j + 1 \in DOMAIN q /\ Tail(q)[j] = q[j + 1] /\ j \in Int
      BY TailIs
    <3>3. j < i => j + 1 < i + 1
      BY <3>2
    <3>4. QED
      BY <3>2, <3>3, <1>3
  <2>4. QED
    BY <2>2, <2>3 DEF Removable
<1>4. QED
  BY <1>1, <1>2, <1>3 DEF Removable

LEMMA ReadChannel ==
  ASSUME NEW q \in Seq(Datagrams), q # <<>>, NEW F \in SUBSET Endpoints,
         NEW n, NEW loc \in [Kinds -> Nat], NEW K, NEW v \in Nat,
         Channel(q, F, n, loc, K, v), \A k \in Kinds : loc[k] # 0 => LocalEndpoint(n, k, loc[k]) \in Endpoints,
         NEW G, G = IF q[1].add THEN F \cup {q[1].ep} ELSE F \ {q[1].ep}
  PROVE  Channel(Tail(q), G, n, loc, K, v)
<1> DEFINE r == Tail(q)
<1>1. /\ \A i \in DOMAIN r : i \in Nat /\ i + 1 \in DOMAIN q /\ r[i] = q[i + 1]
      /\ 1 \in DOMAIN q /\ Len(r) = Len(q) - 1 /\ Len(q) \in Nat /\ Len(q) > 0
      /\ \A i \in DOMAIN q : i \in Nat /\ q[i] \in Datagrams /\ q[i].ep \in Endpoints
  BY TailIs, DatagramIs
<1> HIDE DEF r
<1>2. \A e \in G : e \in F \/ (q[1].add /\ e = q[1].ep)
  OBVIOUS
<1>3. \A i \in DOMAIN r : r[i].ep.node = n /\ r[i].ep.id < v
  BY <1>1 DEF Channel
<1>4. \A e \in G : e.id < v
  BY <1>1, <1>2 DEF Channel
<1>5. Ordered(r)
  <2>1. \A i, j \in DOMAIN r : i < j => i + 1 < j + 1
    BY <1>1
  <2>2. QED
    BY <2>1, <1>1 DEF Channel, Ordered
<1>6. Behind(r, G)
  <2>1. \A i \in DOMAIN r : 1 < i + 1
    BY <1>1, TailIs DEF r
  <2>2. QED
    BY SMTT(30), <2>1, <1>1, <1>2 DEF Channel, Behind, Ordered
<1>7. RemovesWhole(r, G)
  <2>1. SUFFICES ASSUME NEW i \in DOMAIN r, ~r[i].add PROVE Removable(r, G, r[i].ep, i)
    BY DEF RemovesWhole
  <2>2. Removable(q, F, q[i + 1].ep, i + 1)
    BY <1>1, <2>1 DEF Channel, RemovesWhole
  <2>3. i \in Nat \ {0}
    BY TailIs DEF r
  <2>4. ~q[1].add => q[1].ep # q[i + 1].ep
    <3>1. q[1].ep = q[i + 1].ep /\ ~q[1].add => q[1].ep.id < q[i + 1].ep.id
      BY <2>3, <1>1 DEF Channel, Ordered
    <3>2. q[i + 1].ep.id \in Int
      BY <1>1 DEF Endpoints
    <3>3. QED
      BY <3>1, <3>2
  <2>5. QED
    BY <2>2, <2>3, <2>4, <1>1, ReadRemovable DEF r
<1>8. ASSUME NEW k \in Kinds, loc[k] # 0
      PROVE  /\ UpTo(r, G, k, loc[k])
             /\ k \in K => Removable(r, G, LocalEndpoint(n, k, loc[k]), Len(r) + 1)
  <2> DEFINE e == LocalEndpoint(n, k, loc[k])
  <2>1. UpTo(q, F, k, loc[k])
    BY <1>8 DEF Channel
  <2>2. UpTo(r, G, k, loc[k])
    BY <2>1, <1>1, <1>2 DEF UpTo
  <2>3. ~q[1].add => q[1].ep # e
    BY <2>1, <1>1 DEF UpTo, LocalEndpoint
  <2>4. e \in Endpoints
    BY <1>8
  <2>5. k \in K => Removable(q, F, e, Len(q) + 1)
    BY <1>8 DEF Channel
  <2>6. k \in K => Removable(r, G, e, Len(q))
    BY <2>3, <2>4, <2>5, <1>1, ReadRemovable DEF r
  <2>7. Len(r) + 1 = Len(q)
    BY <1>1
  <2>8. QED
    BY <2>2, <2>6, <2>7
<1>9. QED
  BY <1>3, <1>4, <1>5, <1>6, <1>7, <1>8 DEF Channel, r

-----------------------------------------------------------------------------
(* The node forgets the endpoints, or is not there *)

LEMMA ClearedRemovable ==
  ASSUME NEW q \in Seq(Datagrams), NEW F \in SUBSET Endpoints, NEW n,
         \A x \in F : x.node = n, \A j \in DOMAIN q : q[j].ep.node = n,
         NEW e \in Endpoints, e.node = n, NEW i \in Nat, Behind(q, F), Removable(q, F, e, i),
         \A j \in DOMAIN q : j < i /\ q[j].ep.kind = e.kind => q[j].ep.id <= e.id
  PROVE  Removable(q, {}, e, i)
<1>1. CASE e \in F
  <2>1. ASSUME NEW j \in DOMAIN q, j < i, q[j].ep.kind = e.kind, q[j].add
        PROVE  q[j].ep = e
    <3>1. e.id <= q[j].ep.id /\ q[j].ep.id <= e.id
      BY <1>1, <2>1 DEF Behind
    <3>2. q[j].ep \in Endpoints /\ q[j].ep.node = n
      BY DatagramIs
    <3>3. e.id \in Int /\ q[j].ep.id \in Int
      BY <3>2 DEF Endpoints
    <3>4. q[j].ep.id = e.id
      BY <3>1, <3>3
    <3>5. QED
      BY <3>2, <3>4, <2>1 DEF Endpoints
  <2>2. QED
    BY <2>1 DEF Removable
<1>2. QED
  BY <1>1 DEF Removable

LEMMA ClearedChannel ==
  ASSUME NEW q \in Seq(Datagrams), NEW F \in SUBSET Endpoints, NEW n, \A e \in F : e.node = n,
         NEW loc \in [Kinds -> Nat], NEW K, NEW v \in Nat,
         Channel(q, F, n, loc, K, v), \A k \in Kinds : loc[k] # 0 => LocalEndpoint(n, k, loc[k]) \in Endpoints
  PROVE  Channel(q, {}, n, loc, K, v)
<1>1. \A i \in DOMAIN q : i \in Nat /\ q[i].ep \in Endpoints /\ q[i].ep.node = n
  BY DatagramIs DEF Channel
<1>2. Behind(q, F) /\ Ordered(q) /\ RemovesWhole(q, F)
  BY DEF Channel
<1>3. Behind(q, {})
  BY DEF Behind
<1>4. RemovesWhole(q, {})
  <2>1. SUFFICES ASSUME NEW i \in DOMAIN q, ~q[i].add PROVE Removable(q, {}, q[i].ep, i)
    BY DEF RemovesWhole
  <2>2. \A j \in DOMAIN q : j < i /\ q[j].ep.kind = q[i].ep.kind => q[j].ep.id <= q[i].ep.id
    BY <1>2 DEF Ordered
  <2>3. Removable(q, F, q[i].ep, i)
    BY <1>2, <2>1 DEF RemovesWhole
  <2>4. QED
    BY <1>1, <1>2, <2>2, <2>3, ClearedRemovable
<1>5. ASSUME NEW k \in Kinds, loc[k] # 0
      PROVE  /\ UpTo(q, {}, k, loc[k])
             /\ k \in K => Removable(q, {}, LocalEndpoint(n, k, loc[k]), Len(q) + 1)
  <2> DEFINE e == LocalEndpoint(n, k, loc[k])
  <2>1. e \in Endpoints /\ e.node = n /\ e.kind = k /\ e.id = loc[k]
    BY <1>5 DEF LocalEndpoint
  <2>2. UpTo(q, F, k, loc[k])
    BY <1>5 DEF Channel
  <2>3. \A j \in DOMAIN q : q[j].ep.kind = e.kind => q[j].ep.id <= e.id
    BY <2>1, <2>2 DEF UpTo
  <2>4. k \in K => Removable(q, F, e, Len(q) + 1)
    BY <1>5 DEF Channel
  <2>5. Len(q) + 1 \in Nat
    OBVIOUS
  <2> HIDE DEF e
  <2>6. k \in K => Removable(q, {}, e, Len(q) + 1)
    BY <1>1, <1>2, <2>1, <2>3, <2>4, <2>5, ClearedRemovable
  <2>7. QED
    BY <2>2, <2>6 DEF UpTo, e
<1>6. QED
  BY <1>3, <1>4, <1>5 DEF Channel

LEMMA EmptyChannel ==
  ASSUME NEW n, NEW loc, NEW K, NEW v
  PROVE  Channel(<<>>, {}, n, loc, K, v)
BY DEF Channel, Ordered, Behind, RemovesWhole, UpTo, Removable

(* Nothing is asked of the kinds that n has no endpoint of.                *)
LEMMA LessChannel ==
  ASSUME NEW q, NEW F, NEW n, NEW loc, NEW K, NEW v, Channel(q, F, n, loc, K, v),
         NEW new, \A k \in Kinds : new[k] = loc[k] \/ new[k] = 0,
         NEW L, \A k \in L \cap Kinds : k \in K \/ new[k] = 0
  PROVE  Channel(q, F, n, new, L, v)
BY DEF Channel

-----------------------------------------------------------------------------
(* Endpoints are created, announced and removed *)

LEMMA NewerChannel ==
  ASSUME NEW q \in Seq(Datagrams), NEW F \in SUBSET Endpoints, NEW n,
         NEW loc \in [Kinds -> Nat], NEW K, NEW v \in Nat, Channel(q, F, n, loc, K, v),
         NEW k \in Kinds, loc[k] = 0
  PROVE  Channel(q, F, n, [loc EXCEPT ![k] = v], K \ {k}, v + 1)
<1> DEFINE new == [loc EXCEPT ![k] = v]
<1>1. \A e \in F : e.id \in Int /\ e.id < v
  BY DEF Channel, Endpoints
<1>2. \A i \in DOMAIN q : q[i].ep.id \in Int /\ q[i].ep.id < v
  BY DatagramIs DEF Channel
<1>3. UpTo(q, F, k, v)
  BY <1>1, <1>2 DEF UpTo
<1>4. \A l \in Kinds : new[l] = IF l = k THEN v ELSE loc[l]
  OBVIOUS
<1> HIDE DEF new
<1>5. ASSUME NEW l \in Kinds, new[l] # 0
      PROVE  /\ UpTo(q, F, l, new[l])
             /\ l \in K \ {k} => Removable(q, F, LocalEndpoint(n, l, new[l]), Len(q) + 1)
  BY <1>3, <1>4, <1>5 DEF Channel
<1>6. QED
  <2>1. \A i \in DOMAIN q : q[i].ep.node = n /\ q[i].ep.id < v + 1
    BY <1>2 DEF Channel
  <2>2. \A e \in F : e.id < v + 1
    BY <1>1
  <2>3. Ordered(q) /\ Behind(q, F) /\ RemovesWhole(q, F)
    BY DEF Channel
  <2>4. QED
    BY <2>1, <2>2, <2>3, <1>5 DEF Channel, new

(* What n sends at once is about endpoints of different kinds.             *)
Batch(r, b, n, loc) ==
  /\ r \in Seq(Datagrams)
  /\ \A i \in DOMAIN r :
       /\ r[i].add = b /\ r[i].ep.kind \in Kinds /\ loc[r[i].ep.kind] # 0
       /\ r[i].ep = LocalEndpoint(n, r[i].ep.kind, loc[r[i].ep.kind])
  /\ \A i, j \in DOMAIN r : i # j => r[i].ep # r[j].ep

KindsOf(r) == {r[i].ep.kind : i \in DOMAIN r}

LEMMA AppendedIs ==
  ASSUME NEW q \in Seq(Datagrams), NEW r \in Seq(Datagrams)
  PROVE  /\ q \o r \in Seq(Datagrams) /\ Len(q \o r) = Len(q) + Len(r)
         /\ Len(q) \in Nat /\ Len(r) \in Nat
         /\ DOMAIN q = 1 .. Len(q) /\ DOMAIN r = 1 .. Len(r)
         /\ DOMAIN (q \o r) = 1 .. Len(q) + Len(r)
         /\ \A i \in DOMAIN q : i \in DOMAIN (q \o r) /\ (q \o r)[i] = q[i]
         /\ \A i \in DOMAIN r : Len(q) + i \in DOMAIN (q \o r) /\ (q \o r)[Len(q) + i] = r[i]
         /\ \A i \in DOMAIN (q \o r) :
              i \in DOMAIN q \/ (i > Len(q) /\ i - Len(q) \in DOMAIN r /\ (q \o r)[i] = r[i - Len(q)])
<1>1. /\ q \o r \in Seq(Datagrams) /\ Len(q \o r) = Len(q) + Len(r)
      /\ Len(q) \in Nat /\ Len(r) \in Nat
      /\ DOMAIN q = 1 .. Len(q) /\ DOMAIN r = 1 .. Len(r)
  OBVIOUS
<1>2. DOMAIN (q \o r) = 1 .. Len(q) + Len(r)
  BY <1>1
<1>3. \A i \in 1 .. Len(q) + Len(r) : (q \o r)[i] = IF i <= Len(q) THEN q[i] ELSE r[i - Len(q)]
  BY <1>1
<1>4. QED
  BY <1>1, <1>2, <1>3

LEMMA AppendedRemovable ==
  ASSUME NEW q \in Seq(Datagrams), NEW r \in Seq(Datagrams), NEW F, NEW e,
         NEW i \in Nat, i <= Len(q) + 1, Removable(q, F, e, i)
  PROVE  Removable(q \o r, F, e, i)
<1> DEFINE s == q \o r
<1>1. \A j \in DOMAIN q : j \in DOMAIN s /\ s[j] = q[j]
  BY AppendedIs
<1>2. \A j \in DOMAIN s : j < i => j \in DOMAIN q
  <2>1. DOMAIN s = 1 .. Len(q) + Len(r) /\ DOMAIN q = 1 .. Len(q) /\ Len(q) \in Nat /\ Len(r) \in Nat
    BY AppendedIs
  <2>2. QED
    BY <2>1
<1> HIDE DEF s
<1>3. QED
  BY <1>1, <1>2 DEF Removable, s

LEMMA AppendedInOrder ==
  ASSUME NEW q \in Seq(Datagrams), NEW F \in SUBSET Endpoints, NEW n,
         NEW loc \in [Kinds -> Nat], NEW K, NEW v \in Nat, Channel(q, F, n, loc, K, v),
         \A k \in Kinds : loc[k] # 0 => loc[k] < v,
         NEW b, NEW r, Batch(r, b, n, loc)
  PROVE  /\ \A i \in DOMAIN (q \o r) : (q \o r)[i].ep.node = n /\ (q \o r)[i].ep.id < v
         /\ Ordered(q \o r) /\ Behind(q \o r, F)
<1> DEFINE s == q \o r
<1>1. r \in Seq(Datagrams)
  BY DEF Batch
<1>2. /\ \A i \in DOMAIN q : i \in DOMAIN s /\ s[i] = q[i]
      /\ \A i \in DOMAIN r : Len(q) + i \in DOMAIN s /\ s[Len(q) + i] = r[i]
      /\ \A i \in DOMAIN s : i \in DOMAIN q \/ (i > Len(q) /\ i - Len(q) \in DOMAIN r /\ s[i] = r[i - Len(q)])
      /\ DOMAIN s = 1 .. Len(q) + Len(r) /\ Len(q) \in Nat /\ Len(r) \in Nat /\ Len(s) = Len(q) + Len(r)
      /\ DOMAIN q = 1 .. Len(q)
  BY <1>1, AppendedIs
<1> HIDE DEF s
<1>3. \A i \in DOMAIN r : /\ r[i].ep.kind \in Kinds /\ loc[r[i].ep.kind] # 0
                          /\ r[i].ep.id = loc[r[i].ep.kind] /\ r[i].ep.node = n
                          /\ r[i].ep = LocalEndpoint(n, r[i].ep.kind, loc[r[i].ep.kind])
  BY DEF Batch, LocalEndpoint
<1>4. \A i, j \in DOMAIN r : i # j => r[i].ep.kind # r[j].ep.kind
  BY DEF Batch
<1>5. \A i \in DOMAIN s : s[i].ep.node = n /\ s[i].ep.id < v
  <2>1. \A i \in DOMAIN q : q[i].ep.node = n /\ q[i].ep.id < v
    BY DEF Channel
  <2>2. \A i \in DOMAIN r : r[i].ep.node = n /\ r[i].ep.id < v
    BY <1>3
  <2>3. QED
    BY <1>2, <2>1, <2>2
<1>6. Ordered(s)
  <2>1. SUFFICES ASSUME NEW i \in DOMAIN s, NEW j \in DOMAIN s, i < j, s[i].ep.kind = s[j].ep.kind
                 PROVE  /\ s[i].ep.id <= s[j].ep.id
                        /\ ~s[i].add => s[i].ep.id < s[j].ep.id
    BY DEF Ordered
  <2>2. CASE j \in DOMAIN q
    <3>1. i \in DOMAIN q
      BY <2>1, <2>2, <1>2
    <3>2. QED
      BY <3>1, <2>1, <2>2, <1>2 DEF Channel, Ordered
  <2>3. CASE i \in DOMAIN q /\ j \notin DOMAIN q
    <3>1. j - Len(q) \in DOMAIN r /\ s[j] = r[j - Len(q)] /\ s[i] = q[i]
      BY <2>3, <1>2
    <3>2. s[j].ep.kind \in Kinds /\ loc[s[j].ep.kind] # 0 /\ s[j].ep.id = loc[s[j].ep.kind]
      BY <3>1, <1>3
    <3>3. UpTo(q, F, s[j].ep.kind, loc[s[j].ep.kind])
      BY <3>2 DEF Channel
    <3>4. QED
      BY <3>1, <3>2, <3>3, <2>1, <2>3 DEF UpTo
  <2>4. CASE i \notin DOMAIN q /\ j \notin DOMAIN q
    <3>1. /\ i - Len(q) \in DOMAIN r /\ s[i] = r[i - Len(q)]
          /\ j - Len(q) \in DOMAIN r /\ s[j] = r[j - Len(q)]
      BY <2>4, <1>2
    <3>2. i - Len(q) # j - Len(q)
      BY <2>1, <1>2
    <3>3. QED
      BY <3>1, <3>2, <1>4, <2>1
  <2>5. QED
    BY <2>2, <2>3, <2>4
<1>7. Behind(s, F)
  <2>1. SUFFICES ASSUME NEW e \in F, NEW i \in DOMAIN s, e.kind = s[i].ep.kind
                 PROVE  e.id <= s[i].ep.id
    BY DEF Behind
  <2>2. CASE i \in DOMAIN q
    BY <2>1, <2>2, <1>2 DEF Channel, Behind
  <2>3. CASE i \notin DOMAIN q
    <3>1. s[i].ep.kind \in Kinds /\ loc[s[i].ep.kind] # 0 /\ s[i].ep.id = loc[s[i].ep.kind]
      BY <2>3, <1>2, <1>3
    <3>2. UpTo(q, F, s[i].ep.kind, loc[s[i].ep.kind])
      BY <3>1 DEF Channel
    <3>3. QED
      BY <3>1, <3>2, <2>1 DEF UpTo
  <2>4. QED
    BY <2>2, <2>3
<1>8. QED
  BY <1>5, <1>6, <1>7 DEF s

LEMMA AnnounceChannel ==
  ASSUME NEW q \in Seq(Datagrams), NEW F \in SUBSET Endpoints, NEW n,
         NEW loc \in [Kinds -> Nat], NEW K, NEW v \in Nat, Channel(q, F, n, loc, K, v),
         \A k \in Kinds : loc[k] # 0 => loc[k] < v,
         NEW r, Batch(r, TRUE, n, loc)
  PROVE  Channel(q \o r, F, n, loc, K \cup KindsOf(r), v)
<1> DEFINE s == q \o r
<1>1. r \in Seq(Datagrams)
  BY DEF Batch
<1>2. /\ \A i \in DOMAIN q : i \in DOMAIN s /\ s[i] = q[i]
      /\ \A i \in DOMAIN r : Len(q) + i \in DOMAIN s /\ s[Len(q) + i] = r[i]
      /\ \A i \in DOMAIN s : i \in DOMAIN q \/ (i > Len(q) /\ i - Len(q) \in DOMAIN r /\ s[i] = r[i - Len(q)])
      /\ DOMAIN s = 1 .. Len(q) + Len(r) /\ Len(q) \in Nat /\ Len(r) \in Nat /\ Len(s) = Len(q) + Len(r)
      /\ DOMAIN q = 1 .. Len(q)
  BY <1>1, AppendedIs
<1> HIDE DEF s
<1>3. \A i \in DOMAIN r : /\ r[i].add /\ r[i].ep.kind \in Kinds /\ loc[r[i].ep.kind] # 0
                          /\ r[i].ep.id = loc[r[i].ep.kind] /\ r[i].ep.node = n
                          /\ r[i].ep = LocalEndpoint(n, r[i].ep.kind, loc[r[i].ep.kind])
  BY DEF Batch, LocalEndpoint
<1>4. /\ \A i \in DOMAIN s : s[i].ep.node = n /\ s[i].ep.id < v
      /\ Ordered(s) /\ Behind(s, F)
  BY AppendedInOrder DEF s
<1>5. RemovesWhole(s, F)
  <2>1. SUFFICES ASSUME NEW i \in DOMAIN s, ~s[i].add PROVE Removable(s, F, s[i].ep, i)
    BY DEF RemovesWhole
  <2>2. i \in DOMAIN q /\ s[i] = q[i]
    BY <2>1, <1>2, <1>3
  <2>3. Removable(q, F, q[i].ep, i)
    BY <2>1, <2>2 DEF Channel, RemovesWhole
  <2>4. i \in Nat /\ i <= Len(q) + 1
    BY <2>2, <1>2
  <2>5. QED
    BY <2>2, <2>3, <2>4, <1>1, AppendedRemovable DEF s
<1>6. ASSUME NEW k \in Kinds, loc[k] # 0
      PROVE  /\ UpTo(s, F, k, loc[k])
             /\ k \in K \cup KindsOf(r) => Removable(s, F, LocalEndpoint(n, k, loc[k]), Len(s) + 1)
  <2> DEFINE e == LocalEndpoint(n, k, loc[k])
  <2>1. UpTo(q, F, k, loc[k])
    BY <1>6 DEF Channel
  <2>2. UpTo(s, F, k, loc[k])
    BY <2>1, <1>2, <1>3 DEF UpTo
  <2>3. CASE k \in KindsOf(r)
    <3>1. PICK j \in DOMAIN r : r[j].ep.kind = k
      BY <2>3 DEF KindsOf
    <3>2. r[j].add /\ r[j].ep = e
      BY <3>1, <1>3
    <3>3. Len(q) + j \in DOMAIN s /\ s[Len(q) + j] = r[j]
      BY <1>2
    <3>4. Len(q) + j < Len(s) + 1
      BY <3>3, <1>2
    <3>5. QED
      BY <2>2, <3>2, <3>3, <3>4 DEF Removable
  <2>4. CASE k \in K /\ k \notin KindsOf(r)
    <3>1. Removable(q, F, e, Len(q) + 1)
      BY <1>6, <2>4 DEF Channel
    <3>2. \A j \in DOMAIN q : j < Len(q) + 1 /\ j < Len(s) + 1
      BY <1>2
    <3>3. \A j \in DOMAIN r : r[j].ep.kind # k
      BY <2>4 DEF KindsOf
    <3>4. e.kind = k
      BY DEF LocalEndpoint
    <3> HIDE DEF e
    <3>5. Removable(s, F, e, Len(s) + 1)
      BY <3>1, <3>2, <3>3, <3>4, <1>2 DEF Removable
    <3>6. QED
      BY <2>2, <3>5 DEF e
  <2>5. QED
    BY <2>2, <2>3, <2>4
<1>7. QED
  <2>1. \A e \in F : e.id < v
    BY DEF Channel
  <2>2. QED
    BY <2>1, <1>4, <1>5, <1>6 DEF Channel, s

LEMMA RetractChannel ==
  ASSUME NEW q \in Seq(Datagrams), NEW F \in SUBSET Endpoints, NEW n,
         NEW loc \in [Kinds -> Nat], NEW K, NEW v \in Nat, Channel(q, F, n, loc, K, v),
         \A k \in Kinds : loc[k] # 0 => loc[k] < v,
         NEW r, Batch(r, FALSE, n, loc), KindsOf(r) \subseteq K,
         NEW new, \A k \in Kinds : new[k] = 0 \/ (k \notin KindsOf(r) /\ new[k] = loc[k])
  PROVE  Channel(q \o r, F, n, new, K, v)
<1> DEFINE s == q \o r
<1>1. r \in Seq(Datagrams)
  BY DEF Batch
<1>2. /\ \A i \in DOMAIN q : i \in DOMAIN s /\ s[i] = q[i]
      /\ \A i \in DOMAIN r : Len(q) + i \in DOMAIN s /\ s[Len(q) + i] = r[i]
      /\ \A i \in DOMAIN s : i \in DOMAIN q \/ (i > Len(q) /\ i - Len(q) \in DOMAIN r /\ s[i] = r[i - Len(q)])
      /\ DOMAIN s = 1 .. Len(q) + Len(r) /\ Len(q) \in Nat /\ Len(r) \in Nat /\ Len(s) = Len(q) + Len(r)
      /\ DOMAIN q = 1 .. Len(q)
  BY <1>1, AppendedIs
<1> HIDE DEF s
<1>3. \A i \in DOMAIN r : /\ ~r[i].add /\ r[i].ep.kind \in Kinds /\ loc[r[i].ep.kind] # 0
                          /\ r[i].ep.id = loc[r[i].ep.kind] /\ r[i].ep.node = n
                          /\ r[i].ep = LocalEndpoint(n, r[i].ep.kind, loc[r[i].ep.kind])
                          /\ r[i].ep.kind \in KindsOf(r)
  BY DEF Batch, LocalEndpoint, KindsOf
<1>4. /\ \A i \in DOMAIN s : s[i].ep.node = n /\ s[i].ep.id < v
      /\ Ordered(s) /\ Behind(s, F)
  BY AppendedInOrder DEF s
<1>5. RemovesWhole(s, F)
  <2>1. SUFFICES ASSUME NEW i \in DOMAIN s, ~s[i].add PROVE Removable(s, F, s[i].ep, i)
    BY DEF RemovesWhole
  <2>2. CASE i \in DOMAIN q
    <3>1. Removable(q, F, q[i].ep, i) /\ s[i] = q[i]
      BY <2>1, <2>2, <1>2 DEF Channel, RemovesWhole
    <3>2. i \in Nat /\ i <= Len(q) + 1
      BY <2>2, <1>2
    <3>3. QED
      BY <3>1, <3>2, <1>1, AppendedRemovable DEF s
  <2>3. CASE i \notin DOMAIN q
    <3> DEFINE e == s[i].ep
    <3>1. /\ i > Len(q) /\ e.kind \in Kinds /\ loc[e.kind] # 0
          /\ e = LocalEndpoint(n, e.kind, loc[e.kind]) /\ e.kind \in K
      BY <2>3, <1>2, <1>3
    <3>2. Removable(q, F, e, Len(q) + 1)
      BY <3>1 DEF Channel
    <3>3. \A j \in DOMAIN q : j < Len(q) + 1 /\ j < i
      BY <3>1, <1>2
    <3> HIDE DEF e
    <3>4. Removable(s, F, e, i)
      BY <3>2, <3>3, <1>2, <1>3 DEF Removable
    <3>5. QED
      BY <3>4 DEF e
  <2>4. QED
    BY <2>2, <2>3
<1>6. ASSUME NEW k \in Kinds, new[k] # 0
      PROVE  /\ UpTo(s, F, k, new[k])
             /\ k \in K => Removable(s, F, LocalEndpoint(n, k, new[k]), Len(s) + 1)
  <2>1. loc[k] # 0 /\ k \notin KindsOf(r) /\ new[k] = loc[k]
    BY <1>6
  <2> DEFINE e == LocalEndpoint(n, k, loc[k])
  <2>2. UpTo(q, F, k, loc[k])
    BY <2>1 DEF Channel
  <2>3. \A j \in DOMAIN r : r[j].ep.kind # k
    BY <2>1, <1>3
  <2>4. UpTo(s, F, k, loc[k])
    BY <2>2, <2>3, <1>2 DEF UpTo
  <2>5. ASSUME k \in K PROVE Removable(s, F, e, Len(s) + 1)
    <3>1. Removable(q, F, e, Len(q) + 1)
      BY <2>1, <2>5 DEF Channel
    <3>2. \A j \in DOMAIN q : j < Len(q) + 1 /\ j < Len(s) + 1
      BY <1>2
    <3> HIDE DEF e
    <3>3. QED
      BY <3>1, <3>2, <1>2, <1>3 DEF Removable
  <2>6. QED
    BY <2>1, <2>4, <2>5
<1>7. QED
  <2>1. \A e \in F : e.id < v
    BY DEF Channel
  <2>2. QED
    BY <2>1, <1>4, <1>5, <1>6 DEF Channel, s

-----------------------------------------------------------------------------
(* What will have been discovered *)

LEMMA FinalRead ==
  ASSUME NEW q \in Seq(Datagrams), q # <<>>, NEW F \in SUBSET Endpoints,
         NEW G, G = IF q[1].add THEN F \cup {q[1].ep} ELSE F \ {q[1].ep}
  PROVE  Final(Tail(q), G) = Final(q, F)
<1> DEFINE r == Tail(q)
<1>1. /\ \A i \in DOMAIN r : i \in Nat /\ i > 0 /\ i + 1 \in DOMAIN q /\ r[i] = q[i + 1]
      /\ \A i \in DOMAIN q : i \in Nat /\ (i # 1 => i - 1 \in DOMAIN r /\ r[i - 1] = q[i])
      /\ \A i \in DOMAIN q : i # 1 => i > 1
      /\ 1 \in DOMAIN q /\ q[1].ep \in Endpoints
  <2>1. \A i \in DOMAIN r : i \in Nat /\ i > 0 /\ i + 1 \in DOMAIN q /\ r[i] = q[i + 1]
    BY TailIs
  <2>2. \A i \in DOMAIN q : i \in Nat /\ (i # 1 => i > 1 /\ i - 1 \in DOMAIN r)
    BY TailIs
  <2>3. \A i \in DOMAIN q : i # 1 => r[i - 1] = q[i]
    BY <2>1, <2>2
  <2>4. 1 \in DOMAIN q /\ q[1].ep \in Endpoints
    BY TailIs, DatagramIs
  <2>5. QED
    BY <2>1, <2>2, <2>3, <2>4
<1> HIDE DEF r
<1>2. ASSUME NEW e \in Endpoints
      PROVE  (\A i \in DOMAIN q : q[i].ep # e) <=> q[1].ep # e /\ \A i \in DOMAIN r : r[i].ep # e
  BY <1>1
<1>3. ASSUME NEW e \in Endpoints
      PROVE  (\E i \in DOMAIN q : q[i].add /\ q[i].ep = e /\ \A j \in DOMAIN q : j > i => q[j].ep # e)
             <=> \/ q[1].add /\ q[1].ep = e /\ \A i \in DOMAIN r : r[i].ep # e
                 \/ \E i \in DOMAIN r : r[i].add /\ r[i].ep = e /\ \A j \in DOMAIN r : j > i => r[j].ep # e
  <2>1. ASSUME NEW i \in DOMAIN q, q[i].add, q[i].ep = e, \A j \in DOMAIN q : j > i => q[j].ep # e
        PROVE  \/ q[1].add /\ q[1].ep = e /\ \A l \in DOMAIN r : r[l].ep # e
               \/ \E l \in DOMAIN r : r[l].add /\ r[l].ep = e /\ \A j \in DOMAIN r : j > l => r[j].ep # e
    <3>1. \A j \in DOMAIN r : j + 1 > i => r[j].ep # e
      BY <1>1, <2>1
    <3>2. CASE i = 1
      BY <1>1, <2>1, <3>1, <3>2
    <3>3. CASE i # 1
      <4>1. i - 1 \in DOMAIN r /\ r[i - 1].add /\ r[i - 1].ep = e
        BY <1>1, <2>1, <3>3
      <4>2. \A j \in DOMAIN r : j > i - 1 => r[j].ep # e
        BY <3>1, <1>1
      <4>3. QED
        BY <4>1, <4>2
    <3>4. QED
      BY <3>2, <3>3
  <2>2. ASSUME q[1].add, q[1].ep = e, \A i \in DOMAIN r : r[i].ep # e
        PROVE  \E i \in DOMAIN q : q[i].add /\ q[i].ep = e /\ \A j \in DOMAIN q : j > i => q[j].ep # e
    <3>1. \A j \in DOMAIN q : j > 1 => q[j].ep # e
      BY <1>1, <2>2
    <3>2. QED
      BY <1>1, <2>2, <3>1
  <2>3. ASSUME NEW i \in DOMAIN r, r[i].add, r[i].ep = e, \A j \in DOMAIN r : j > i => r[j].ep # e
        PROVE  \E l \in DOMAIN q : q[l].add /\ q[l].ep = e /\ \A j \in DOMAIN q : j > l => q[j].ep # e
    <3>1. \A j \in DOMAIN q : j > i + 1 => q[j].ep # e
      <4>1. TAKE j \in DOMAIN q
      <4>2. HAVE j > i + 1
      <4>3. j # 1 /\ j - 1 > i
        BY <1>1, <4>2
      <4>4. QED
        BY ZenonT(60), <1>1, <2>3, <4>3
    <3>2. QED
      BY <1>1, <2>3, <3>1
  <2>4. QED
    BY <2>1, <2>2, <2>3
<1>4. ASSUME NEW e \in Endpoints PROVE e \in Final(r, G) <=> e \in Final(q, F)
  BY <1>2, <1>3 DEF Final
<1>5. QED
  BY <1>4 DEF Final, r

LEMMA FinalCleared ==
  ASSUME NEW q, NEW F
  PROVE  Final(q, {}) \subseteq Final(q, F)
BY DEF Final

LEMMA FinalEmpty ==
  ASSUME NEW F \in SUBSET Endpoints
  PROVE  Final(<<>>, F) = F
BY DEF Final

About(r) == {r[i].ep : i \in DOMAIN r}

LEMMA FinalAppended ==
  ASSUME NEW q \in Seq(Datagrams), NEW F \in SUBSET Endpoints, NEW r \in Seq(Datagrams),
         \A i, j \in DOMAIN r : i # j => r[i].ep # r[j].ep
  PROVE  /\ (\A i \in DOMAIN r : r[i].add) => Final(q \o r, F) = Final(q, F) \cup About(r)
         /\ (\A i \in DOMAIN r : ~r[i].add) => Final(q \o r, F) = Final(q, F) \ About(r)
<1> DEFINE s == q \o r
<1>1. r \in Seq(Datagrams)
  OBVIOUS
<1>2. /\ \A i \in DOMAIN q : i \in DOMAIN s /\ s[i] = q[i] /\ i <= Len(q) /\ i \in Nat
      /\ \A i \in DOMAIN r : Len(q) + i \in DOMAIN s /\ s[Len(q) + i] = r[i] /\ i > 0 /\ i \in Nat
      /\ \A i \in DOMAIN s : i \in DOMAIN q \/ (i > Len(q) /\ i - Len(q) \in DOMAIN r /\ s[i] = r[i - Len(q)])
      /\ Len(q) \in Nat /\ \A i \in DOMAIN s : i \in Nat
  BY SMTT(30), <1>1, AppendedIs
<1> HIDE DEF s
<1>3. \A i \in DOMAIN r : r[i].ep \in Endpoints
  BY <1>1, DatagramIs
<1>4. ASSUME NEW e \in Endpoints, e \notin About(r)
      PROVE  e \in Final(s, F) <=> e \in Final(q, F)
  <2>1. \A i \in DOMAIN r : r[i].ep # e
    BY <1>4 DEF About
  <2>2. \A i \in DOMAIN s : s[i].ep = e => i \in DOMAIN q /\ s[i] = q[i]
    BY <2>1, <1>2
  <2>3. (\A i \in DOMAIN s : s[i].ep # e) <=> \A i \in DOMAIN q : q[i].ep # e
    BY <2>2, <1>2
  <2>4. ASSUME NEW i \in DOMAIN q
        PROVE  (\A j \in DOMAIN s : j > i => s[j].ep # e) <=> \A j \in DOMAIN q : j > i => q[j].ep # e
    BY <2>2, <1>2
  <2>5. (\E i \in DOMAIN s : s[i].add /\ s[i].ep = e /\ \A j \in DOMAIN s : j > i => s[j].ep # e)
        <=> \E i \in DOMAIN q : q[i].add /\ q[i].ep = e /\ \A j \in DOMAIN q : j > i => q[j].ep # e
    <3>1. ASSUME NEW i \in DOMAIN s, s[i].add, s[i].ep = e, \A j \in DOMAIN s : j > i => s[j].ep # e
          PROVE  i \in DOMAIN q /\ q[i].add /\ q[i].ep = e /\ \A j \in DOMAIN q : j > i => q[j].ep # e
      BY <3>1, <2>2, <1>2
    <3>2. ASSUME NEW i \in DOMAIN q, q[i].add, q[i].ep = e, \A j \in DOMAIN q : j > i => q[j].ep # e
          PROVE  i \in DOMAIN s /\ s[i].add /\ s[i].ep = e /\ \A j \in DOMAIN s : j > i => s[j].ep # e
      BY <3>2, <2>4, <1>2
    <3>3. QED
      BY <3>1, <3>2
  <2>6. QED
    BY <2>3, <2>5 DEF Final
<1>5. ASSUME NEW e \in Endpoints, e \in About(r)
      PROVE  /\ (\A i \in DOMAIN r : r[i].add) => e \in Final(s, F)
             /\ (\A i \in DOMAIN r : ~r[i].add) => e \notin Final(s, F)
  <2>1. PICK i \in DOMAIN r : r[i].ep = e
    BY <1>5 DEF About
  <2>2. Len(q) + i \in DOMAIN s /\ s[Len(q) + i].ep = e /\ s[Len(q) + i] = r[i]
    BY <2>1, <1>2, <1>3
  <2>3. \A j \in DOMAIN s : j > Len(q) + i => s[j].ep # e
    <3>1. TAKE j \in DOMAIN s
    <3>2. HAVE j > Len(q) + i
    <3>3. j \notin DOMAIN q
      BY <3>2, <1>2
    <3>4. j - Len(q) \in DOMAIN r /\ s[j] = r[j - Len(q)] /\ j - Len(q) # i
      BY <3>2, <3>3, <1>2
    <3>5. QED
      BY <3>4, <2>1
  <2>4. \A j \in DOMAIN s : j < Len(q) + i => ~(\A l \in DOMAIN s : l > j => s[l].ep # e)
    BY <2>2
  <2>5. \A j \in DOMAIN s : j < Len(q) + i \/ j = Len(q) + i \/ j > Len(q) + i
    BY <1>2
  <2>6. ASSUME \A l \in DOMAIN r : r[l].add PROVE e \in Final(s, F)
    BY <2>2, <2>3, <2>6 DEF Final
  <2>7. ASSUME \A l \in DOMAIN r : ~r[l].add PROVE e \notin Final(s, F)
    <3>1. ~s[Len(q) + i].add
      BY <2>2, <2>7
    <3>2. QED
      BY <3>1, <2>2, <2>3, <2>4, <2>5 DEF Final
  <2>8. QED
    BY <2>6, <2>7
<1>6. About(r) \subseteq Endpoints
  BY <1>3 DEF About
<1>7. Final(s, F) \subseteq Endpoints /\ Final(q, F) \subseteq Endpoints
  BY DEF Final
<1>8. QED
  BY <1>4, <1>5, <1>6, <1>7 DEF s

-----------------------------------------------------------------------------
(* The invariant *)

Chan(n, m) ==
  Channel(net[<<n, m>>], Of(n, found[m]), n, local[n],
          IF m \in DOMAIN known[n] THEN Kinds ELSE {}, eid[n])

(* A node that is not there knows nothing, and nothing is on its way to it.*)
Absent ==
  \A n \in Nodes : status[n] # "up" =>
    /\ DOMAIN known[n] = {} /\ found[n] = {}
    /\ \A k \in Kinds : local[n][k] = 0 /\ match[n][k] = {}
    /\ \A m \in Nodes : net[<<m, n>>] = <<>>

(* Nobody has heard of a node that has not started yet.                    *)
Unheard ==
  \A n, m \in Nodes : status[n] = "off" =>
    n \notin DOMAIN known[m] /\ Of(n, found[m]) = {} /\ net[<<n, m>>] = <<>>

Echoes == \A p \in echo : status[p[1]] \in {"left", "crashed"}

Ids == \A n \in Nodes, k \in Kinds : local[n][k] < eid[n]

Channels == \A n, m \in Nodes : Chan(n, m)

DInv == TypeOK /\ Absent /\ Unheard /\ Echoes /\ Ids /\ Channels /\ CacheAgrees /\ Informed

-----------------------------------------------------------------------------
(* What is sent *)

LEMMA SetAsSequence ==
  ASSUME NEW S, IsFiniteSet(S)
  PROVE  /\ SetToSeq(S) \in Seq(S) /\ Len(SetToSeq(S)) = Cardinality(S)
         /\ \A i, j \in DOMAIN SetToSeq(S) : i # j => SetToSeq(S)[i] # SetToSeq(S)[j]
         /\ {SetToSeq(S)[i] : i \in DOMAIN SetToSeq(S)} = S
<1> DEFINE n == Cardinality(S)
<1>1. n \in Nat /\ ExistsBijection(1 .. n, S)
  BY FS_CardinalityType
<1>2. PICK f \in Bijection(1 .. n, S) : TRUE
  BY <1>1 DEF ExistsBijection
<1>3. f \in [1 .. n -> S] /\ \A a, b \in 1 .. n : f[a] = f[b] => a = b
  BY <1>2, Fun_BijectionProperties
<1>4. IsInjective(f)
  BY <1>3 DEF IsInjective
<1>5. \E g \in [1 .. n -> S] : IsInjective(g)
  BY <1>3, <1>4
<1> DEFINE g == SetToSeq(S)
<1>6. g = CHOOSE h \in [1 .. n -> S] : IsInjective(h)
  BY DEF SetToSeq
<1> HIDE DEF g
<1>7. g \in [1 .. n -> S] /\ IsInjective(g)
  BY <1>5, <1>6
<1> HIDE DEF n
<1>8. g \in Seq(S) /\ Len(g) = n /\ DOMAIN g = 1 .. n
  BY <1>1, <1>7
<1>9. \A a, b \in 1 .. n : a # b => g[a] # g[b]
  BY <1>7, <1>8 DEF IsInjective
<1>10. {g[i] : i \in 1 .. n} = S
  <2>1. g \in Injection(1 .. n, S)
    BY <1>7 DEF Injection
  <2>2. Cardinality(1 .. n) = n
    BY <1>1, FS_Interval
  <2>3. g \in Surjection(1 .. n, S)
    BY <2>1, <2>2, FS_Injection DEF n
  <2>4. \A x \in S : \E i \in 1 .. n : g[i] = x
    BY <2>3, Zenon DEF Surjection
  <2>5. QED
    BY <2>4, <1>7
<1>11. QED
  BY <1>8, <1>9, <1>10 DEF g, n

LEMMA MessagesAre ==
  ASSUME NEW n \in Nodes, NEW loc \in [Kinds -> 0 .. MaxEid], NEW b \in BOOLEAN, NEW T,
         \A e \in T : /\ e.kind \in Kinds /\ loc[e.kind] # 0
                      /\ e = LocalEndpoint(n, e.kind, loc[e.kind])
  PROVE  /\ Batch(Messages(b, T), b, n, loc) /\ About(Messages(b, T)) = T
         /\ IsFiniteSet(T) /\ Len(Messages(b, T)) = Cardinality(T)
<1> DEFINE S == {[add |-> b, ep |-> e] : e \in T}
           q == SetToSeq(S)
<1>1. T \subseteq Endpoints
  BY BoundsAssumption DEF LocalEndpoint, Endpoints
<1>2. IsFiniteSet(T)
  <2>1. T \subseteq {LocalEndpoint(n, "Writer", loc["Writer"]), LocalEndpoint(n, "Reader", loc["Reader"])}
    BY DEF Kinds
  <2>2. IsFiniteSet({LocalEndpoint(n, "Writer", loc["Writer"])})
    BY FS_Singleton
  <2>3. IsFiniteSet({LocalEndpoint(n, "Writer", loc["Writer"])} \cup {LocalEndpoint(n, "Reader", loc["Reader"])})
    BY <2>2, FS_AddElement
  <2>4. {LocalEndpoint(n, "Writer", loc["Writer"]), LocalEndpoint(n, "Reader", loc["Reader"])}
        = {LocalEndpoint(n, "Writer", loc["Writer"])} \cup {LocalEndpoint(n, "Reader", loc["Reader"])}
    OBVIOUS
  <2>5. QED
    BY <2>1, <2>3, <2>4, FS_Subset
<1>3. IsFiniteSet(S) /\ Cardinality(S) = Cardinality(T)
  <2> DEFINE f == [e \in T |-> [add |-> b, ep |-> e]]
  <2>1. f \in [T -> S] /\ \A x, y \in T : f[x] = f[y] => x = y
    OBVIOUS
  <2>2. \A y \in S : \E x \in T : f[x] = y
    OBVIOUS
  <2> HIDE DEF f
  <2>3. f \in Bijection(T, S)
    BY <2>1, <2>2 DEF Bijection, Injection, Surjection, IsInjective
  <2>4. ExistsBijection(T, S)
    BY <2>3 DEF ExistsBijection
  <2>5. QED
    BY <2>4, <1>2, FS_Bijection
<1>4. /\ q \in Seq(S) /\ Len(q) = Cardinality(T)
      /\ \A i, j \in DOMAIN q : i # j => q[i] # q[j]
      /\ {q[i] : i \in DOMAIN q} = S
  BY <1>3, SetAsSequence
<1>5. Messages(b, T) = q
  BY DEF Messages
<1> HIDE DEF q
<1>6. \A i \in DOMAIN q : q[i].add = b /\ q[i].ep \in T /\ q[i] = [add |-> b, ep |-> q[i].ep]
  BY <1>4
<1>7. \A e \in T : \E i \in DOMAIN q : q[i].ep = e
  <2>1. TAKE e \in T
  <2>2. [add |-> b, ep |-> e] \in S
    OBVIOUS
  <2>3. PICK i \in DOMAIN q : q[i] = [add |-> b, ep |-> e]
    BY <2>2, <1>4
  <2>4. QED
    BY <2>3
<1>8. S \subseteq Datagrams
  BY <1>1 DEF Datagrams
<1>9. q \in Seq(Datagrams)
  BY <1>4, <1>8
<1>10. \A i, j \in DOMAIN q : i # j => q[i].ep # q[j].ep
  BY <1>4, <1>6
<1>11. Batch(q, b, n, loc)
  BY <1>6, <1>9, <1>10 DEF Batch
<1>12. About(q) = T
  BY <1>6, <1>7 DEF About
<1>13. QED
  BY <1>2, <1>4, <1>5, <1>11, <1>12

LEMMA SendIs ==
  ASSUME NEW n \in Nodes, NEW T, NEW msgs, NEW x \in Nodes, NEW y \in Nodes
  PROVE  Send(n, T, msgs)[<<x, y>>] =
           IF x = n /\ y \in T \cap Up THEN net[<<x, y>>] \o msgs ELSE net[<<x, y>>]
BY DEF Send

(* The endpoints of n, as messages tell of them.                           *)
LEMMA OwnIs ==
  ASSUME TypeOK, NEW n \in Nodes
  PROVE  /\ local[n] \in [Kinds -> 0 .. MaxEid] /\ local[n] \in [Kinds -> Nat]
         /\ \A e \in Own(n) : /\ e.kind \in Kinds /\ local[n][e.kind] # 0
                              /\ e = LocalEndpoint(n, e.kind, local[n][e.kind])
         /\ \A k \in Kinds : local[n][k] # 0 => LocalEndpoint(n, k, local[n][k]) \in Own(n)
         /\ \A k \in Kinds : local[n][k] # 0 => LocalEndpoint(n, k, local[n][k]) \in Endpoints
         /\ Own(n) \subseteq Endpoints
<1>1. local[n] \in [Kinds -> 0 .. MaxEid]
  BY DEF TypeOK
<1>2. local[n] \in [Kinds -> Nat]
  BY <1>1, BoundsAssumption
<1>3. \A k \in Kinds : local[n][k] # 0 => LocalEndpoint(n, k, local[n][k]) \in Endpoints
  BY <1>1, BoundsAssumption DEF LocalEndpoint, Endpoints
<1>4. QED
  BY <1>1, <1>2, <1>3 DEF Own, LocalEndpoint

LEMMA ChannelTypes ==
  ASSUME TypeOK, NEW n \in Nodes, NEW m \in Nodes
  PROVE  /\ net[<<n, m>>] \in Seq(Datagrams)
         /\ Of(n, found[m]) \in SUBSET Endpoints
         /\ \A e \in Of(n, found[m]) : e.node = n
         /\ eid[n] \in Nat
<1>1. net[<<n, m>>] \in Seq(Datagrams)
  BY DEF TypeOK, Datagrams
<1>2. found[m] \in SUBSET Endpoints
  BY DEF TypeOK
<1>3. eid[n] \in Nat
  BY BoundsAssumption DEF TypeOK
<1>4. QED
  BY <1>1, <1>2, <1>3 DEF Of

NetTyped(f) ==
  /\ f \in [Nodes \X Nodes -> Seq(Datagrams)]
  /\ \A c \in Nodes \X Nodes : Len(f[c]) <= MaxFlight

LEMMA SendTyped ==
  ASSUME TypeOK, NEW n \in Nodes, NEW T, NEW r \in Seq(Datagrams), NEW k \in Nat, Len(r) <= k, Room(n, T, k)
  PROVE  NetTyped(Send(n, T, r))
<1>1. NetTyped(net)
  BY DEF TypeOK, NetTyped, Datagrams
<1>2. ASSUME NEW c \in Nodes \X Nodes, c[1] = n, c[2] \in T
      PROVE  net[c] \o r \in Seq(Datagrams) /\ Len(net[c] \o r) <= MaxFlight
  <2>1. net[c] \in Seq(Datagrams)
    BY <1>1 DEF NetTyped
  <2>2. c = <<n, c[2]>>
    BY <1>2
  <2>3. Len(net[c]) + k <= MaxFlight
    BY <1>2, <2>2 DEF Room
  <2>4. net[c] \o r \in Seq(Datagrams) /\ Len(net[c] \o r) = Len(net[c]) + Len(r)
        /\ Len(net[c]) \in Nat /\ Len(r) \in Nat
    BY <2>1
  <2>5. QED
    BY <2>3, <2>4, BoundsAssumption
<1>3. QED
  BY <1>1, <1>2 DEF Send, NetTyped

LEMMA IncomingTyped ==
  ASSUME NEW f, NetTyped(f), NEW n \in Nodes
  PROVE  NetTyped(Incoming(n, f))
<1>1. <<>> \in Seq(Datagrams) /\ Len(<<>>) = 0
  OBVIOUS
<1>2. QED
  BY <1>1, BoundsAssumption DEF NetTyped, Incoming

TablesTyped ==
  /\ status \in [Nodes -> {"off", "up", "left", "crashed"}]
  /\ DOMAIN known = Nodes
  /\ \A n \in Nodes : \A m \in DOMAIN known[n] :
       m \in Nodes \ {n} /\ known[n][m] \in {"new", "fresh", "stale"}
  /\ found \in [Nodes -> SUBSET Endpoints]
  /\ typed \in [Nodes -> [Kinds -> {TypeOf[n] : n \in Nodes} \cup {NoType}]]
  /\ local \in [Nodes -> [Kinds -> 0 .. MaxEid]]
  /\ match \in [Nodes -> [Kinds -> SUBSET Endpoints]]
  /\ eid \in [Nodes -> 1 .. MaxEid + 1]
  /\ deaf \in [Nodes -> BOOLEAN]
  /\ echo \subseteq Nodes \X Nodes /\ wrong \subseteq Nodes \X Nodes

LEMMA TypesAre == TypeOK <=> TablesTyped /\ NetTyped(net)
BY DEF TypeOK, TablesTyped, NetTyped, Datagrams

LEMMA RetypedTyped ==
  ASSUME TablesTyped, NEW n \in Nodes, NEW S
  PROVE  Retyped(n, S) \in [Kinds -> {TypeOf[x] : x \in Nodes} \cup {NoType}]
BY DEF TablesTyped, Retyped

LEMMA MatchingTyped ==
  ASSUME NEW n, NEW k, NEW S \in SUBSET Endpoints
  PROVE  Matching(n, k, S) \in SUBSET Endpoints
BY DEF Matching, OfKind

LEMMA OppositeIs ==
  ASSUME NEW k \in Kinds
  PROVE  Opposite(k) \in Kinds /\ Opposite(k) # k /\ Opposite(Opposite(k)) = k
BY DEF Kinds, Opposite

(* The datagram that is read. *)
LEMMA HeadIs ==
  ASSUME TypeOK, NEW n \in Nodes, NEW m \in Nodes, Arrived(n, m)
  PROVE  /\ Head(net[<<m, n>>]) \in Datagrams /\ Head(net[<<m, n>>]).ep \in Endpoints
         /\ Head(net[<<m, n>>]).ep.kind \in Kinds /\ Head(net[<<m, n>>]).add \in BOOLEAN
         /\ Head(net[<<m, n>>]) = net[<<m, n>>][1] /\ net[<<m, n>>] # <<>>
         /\ net[<<m, n>>] \in Seq(Datagrams)
<1>1. net[<<m, n>>] \in Seq(Datagrams)
  BY ChannelTypes
<1>2. net[<<m, n>>] # <<>>
  BY DEF Arrived
<1>3. QED
  BY <1>1, <1>2, TailIs, DatagramIs

LEMMA UpdateTyped ==
  ASSUME NEW S, NEW T, NEW f \in [S -> T], NEW x, NEW y \in T
  PROVE  [f EXCEPT ![x] = y] \in [S -> T]
OBVIOUS

LEMMA DiscoveryTypes ==
  ASSUME TypeOK, [Next]_vars
  PROVE  TypeOK'
<1> USE DEF TablesTyped
<1>0. TablesTyped /\ NetTyped(net)
  BY TypesAre
<1>1. SUFFICES TablesTyped' /\ NetTyped(net')
  BY TypesAre DEF TypeOK, NetTyped, Datagrams
<1>2. ASSUME NEW n \in Nodes, Start(n) PROVE TablesTyped' /\ NetTyped(net')
  BY <1>0, <1>2 DEF Start, tables
<1>3. ASSUME NEW n \in Nodes, NEW k \in Kinds, Create(n, k) PROVE TablesTyped' /\ NetTyped(net')
  <2> DEFINE e == [node |-> n, kind |-> k, id |-> eid[n]]
             loc == [local[n] EXCEPT ![k] = eid[n]]
             r == Messages(TRUE, {e})
  <2>1. eid[n] \in 1 .. MaxEid
    BY <1>0, <1>3, BoundsAssumption DEF Create
  <2>2. loc \in [Kinds -> 0 .. MaxEid]
    BY <1>0, <2>1, BoundsAssumption
  <2>3. \A x \in {e} : x.kind \in Kinds /\ loc[x.kind] # 0 /\ x = LocalEndpoint(n, x.kind, loc[x.kind])
    BY <1>0, <2>1 DEF LocalEndpoint
  <2>4. Batch(r, TRUE, n, loc) /\ Len(r) = 1
    <3>1. Cardinality({e}) = 1
      BY FS_Singleton
    <3> HIDE DEF e, loc
    <3>2. QED
      BY <2>2, <2>3, <3>1, MessagesAre
  <2>5. net' = Send(n, DOMAIN known[n], r) /\ Room(n, DOMAIN known[n], 1)
    BY <1>3 DEF Create
  <2> HIDE DEF r
  <2>6. NetTyped(net')
    <3>1. 1 \in Nat /\ Len(r) <= 1 /\ r \in Seq(Datagrams)
      BY <2>4 DEF Batch
    <3>2. QED
      BY <2>5, <3>1, SendTyped
  <2>7. Matching(n, k, found[n]) \in SUBSET Endpoints
    BY <1>0, MatchingTyped
  <2>8. TablesTyped'
    BY <1>0, <1>3, <2>1, <2>7, BoundsAssumption DEF Create, tables
  <2>9. QED
    BY <2>6, <2>8
<1>4. ASSUME NEW n \in Nodes, NEW k \in Kinds, Destroy(n, k) PROVE TablesTyped' /\ NetTyped(net')
  <2> DEFINE T == {e \in Own(n) : e.kind = k}
             r == Messages(FALSE, T)
  <2>1. T = {LocalEndpoint(n, k, local[n][k])}
    BY <1>4, OwnIs DEF Destroy, LocalEndpoint
  <2>2. Batch(r, FALSE, n, local[n]) /\ Len(r) = Cardinality(T)
    <3>1. T \subseteq Own(n)
      OBVIOUS
    <3> HIDE DEF T
    <3>2. \A e \in T : /\ e.kind \in Kinds /\ local[n][e.kind] # 0
                      /\ e = LocalEndpoint(n, e.kind, local[n][e.kind])
      BY <3>1, OwnIs
    <3>3. local[n] \in [Kinds -> 0 .. MaxEid]
      BY OwnIs
    <3>4. QED
      BY <3>2, <3>3, MessagesAre
  <2>3. Cardinality(T) = 1
    BY <2>1, FS_Singleton
  <2>4. net' = Send(n, DOMAIN known[n], r) /\ Room(n, DOMAIN known[n], 1)
    BY <1>4 DEF Destroy
  <2> HIDE DEF r, T
  <2>5. NetTyped(net')
    <3>1. 1 \in Nat /\ Len(r) <= 1 /\ r \in Seq(Datagrams)
      BY <2>2, <2>3 DEF Batch
    <3>2. QED
      BY <2>4, <3>1, SendTyped
  <2>6. TablesTyped'
    BY <1>0, <1>4, BoundsAssumption DEF Destroy, tables
  <2>7. QED
    BY <2>5, <2>6
<1>5. ASSUME NEW n \in Nodes, NEW m \in Nodes, HearNew(n, m) PROVE TablesTyped' /\ NetTyped(net')
  <2> DEFINE r == Messages(TRUE, Own(n))
  <2>1. Batch(r, TRUE, n, local[n]) /\ Len(r) = Cardinality(Own(n)) /\ IsFiniteSet(Own(n))
    BY OwnIs, MessagesAre
  <2>2. net' = Send(n, {m}, r) /\ Room(n, {m}, Cardinality(Own(n)))
    BY <1>5 DEF HearNew
  <2> HIDE DEF r
  <2>3. Cardinality(Own(n)) \in Nat
    BY <2>1, FS_CardinalityType
  <2>4. NetTyped(net')
    BY <2>1, <2>2, <2>3, SendTyped DEF Batch
  <2>5. m # n /\ known' = [known EXCEPT ![n] =
                   [x \in DOMAIN known[n] \cup {m} |-> IF x = m THEN "new" ELSE known[n][x]]]
    BY <1>5 DEF HearNew, Announced
  <2>6. \A x \in Nodes : \A y \in DOMAIN known'[x] :
          y \in Nodes \ {x} /\ known'[x][y] \in {"new", "fresh", "stale"}
    BY <1>0, <2>5
  <2>7. echo' \subseteq echo /\ DOMAIN known' = Nodes
    BY <1>0, <1>5, <2>5 DEF HearNew, Announced
  <2>8. TablesTyped'
    BY <1>0, <1>5, <2>6, <2>7 DEF HearNew, tables
  <2>9. QED
    BY <2>4, <2>8
<1>6. ASSUME NEW n \in Nodes, NEW m \in Nodes, HearAgain(n, m) PROVE TablesTyped' /\ NetTyped(net')
  <2>1. echo' \subseteq echo
    BY <1>6 DEF HearAgain, Announced
  <2>2. known' = [known EXCEPT ![n] = [known[n] EXCEPT ![m] = "fresh"]]
    BY <1>6 DEF HearAgain
  <2>3. QED
    BY <1>0, <1>6, <2>1, <2>2 DEF HearAgain, tables
<1>7. ASSUME NEW n \in Nodes, NEW m \in Nodes, Arrived(n, m), Receive(n, m) PROVE NetTyped(net')
  <2>1. /\ Tail(net[<<m, n>>]) \in Seq(Datagrams) /\ Len(Tail(net[<<m, n>>])) = Len(net[<<m, n>>]) - 1
        /\ Len(net[<<m, n>>]) \in Nat
    BY <1>7, HeadIs, TailIs
  <2>2. Len(net[<<m, n>>]) <= MaxFlight
    BY <1>0 DEF NetTyped
  <2>3. Len(Tail(net[<<m, n>>])) <= MaxFlight
    BY <2>1, <2>2, BoundsAssumption
  <2>4. net' = [net EXCEPT ![<<m, n>>] = Tail(net[<<m, n>>])]
    BY <1>7 DEF Receive
  <2>5. QED
    BY <1>0, <2>1, <2>3, <2>4 DEF NetTyped
<1>8. ASSUME NEW n \in Nodes, NEW m \in Nodes, EndpointAdded(n, m) PROVE TablesTyped' /\ NetTyped(net')
  <2> DEFINE e == Head(net[<<m, n>>]).ep
             k == Opposite(e.kind)
             type == IF typed[n][e.kind] = NoType THEN TypeOf[m] ELSE typed[n][e.kind]
  <2>1. Arrived(n, m) /\ Receive(n, m)
    BY <1>8 DEF EndpointAdded
  <2>2. e \in Endpoints /\ e.kind \in Kinds /\ k \in Kinds
    BY SMTT(30), <2>1, HeadIs, OppositeIs
  <2>3. /\ found' = [found EXCEPT ![n] = found[n] \cup {e}]
        /\ typed' = [typed EXCEPT ![n] = [typed[n] EXCEPT ![e.kind] = type]]
        /\ deaf' = [deaf EXCEPT ![n] = type # TypeOf[m]]
        /\ match' = [match EXCEPT ![n] = [match[n] EXCEPT ![k] =
                       IF type = TypeOf[m] /\ local[n][k] # 0 THEN match[n][k] \cup Matching(n, k, {e}) ELSE match[n][k]]]
    BY <1>8 DEF EndpointAdded
  <2> HIDE DEF e, k
  <2>4. Matching(n, k, {e}) \in SUBSET Endpoints
    BY <2>2, MatchingTyped
  <2>5. type \in {TypeOf[x] : x \in Nodes} \cup {NoType}
    BY <1>0, <2>2
  <2> HIDE DEF type
  <2>6. found' \in [Nodes -> SUBSET Endpoints]
    BY <1>0, <2>2, <2>3
  <2>7. typed' \in [Nodes -> [Kinds -> {TypeOf[x] : x \in Nodes} \cup {NoType}]]
    BY <1>0, <2>2, <2>3, <2>5, UpdateTyped
  <2> DEFINE row == [match[n] EXCEPT ![k] =
                       IF type = TypeOf[m] /\ local[n][k] # 0 THEN match[n][k] \cup Matching(n, k, {e}) ELSE match[n][k]]
  <2>8. match' \in [Nodes -> [Kinds -> SUBSET Endpoints]]
    <3>1. row \in [Kinds -> SUBSET Endpoints]
      <4>1. match[n] \in [Kinds -> SUBSET Endpoints] /\ match[n][k] \in SUBSET Endpoints
        BY <1>0, <2>2
      <4>2. match[n][k] \cup Matching(n, k, {e}) \in SUBSET Endpoints
        BY <4>1, <2>4
      <4>3. QED
        BY <4>1, <4>2, UpdateTyped
    <3> HIDE DEF row
    <3>2. match' = [match EXCEPT ![n] = row]
      BY <2>3 DEF row
    <3>3. QED
      BY <1>0, <3>1, <3>2, UpdateTyped
  <2>9. deaf' \in [Nodes -> BOOLEAN]
    BY <1>0, <2>3
  <2>10. QED
    BY ZenonT(60), <1>0, <1>8, <2>1, <2>6, <2>7, <2>8, <2>9, <1>7 DEF EndpointAdded
<1>9. ASSUME NEW n \in Nodes, NEW m \in Nodes, EndpointRemoved(n, m) PROVE TablesTyped' /\ NetTyped(net')
  <2> DEFINE e == Head(net[<<m, n>>]).ep
             k == Opposite(e.kind)
  <2>1. Arrived(n, m) /\ Receive(n, m)
    BY <1>9 DEF EndpointRemoved
  <2>2. e \in Endpoints /\ e.kind \in Kinds /\ k \in Kinds
    <3>1. e \in Endpoints /\ e.kind \in Kinds
      BY <2>1, HeadIs
    <3>2. QED
      BY <3>1, OppositeIs
  <2>3. /\ found' = [found EXCEPT ![n] = found[n] \ {e}]
        /\ typed' = [typed EXCEPT ![n] = Retyped(n, found'[n])]
        /\ match' = [match EXCEPT ![n] = [match[n] EXCEPT ![k] =
                       IF local[n][k] # 0 THEN Erase(match[n][k], e) ELSE match[n][k]]]
    BY <1>9 DEF EndpointRemoved
  <2> HIDE DEF e, k
  <2>4. Erase(match[n][k], e) \in SUBSET Endpoints
    BY <1>0, <2>2 DEF Erase, Of
  <2>5. Retyped(n, found'[n]) \in [Kinds -> {TypeOf[x] : x \in Nodes} \cup {NoType}]
    BY <1>0, RetypedTyped
  <2>6. found' \in [Nodes -> SUBSET Endpoints]
    BY <1>0, <2>2, <2>3
  <2>7. typed' \in [Nodes -> [Kinds -> {TypeOf[x] : x \in Nodes} \cup {NoType}]]
    BY <1>0, <2>3, <2>5, UpdateTyped
  <2>8. match' \in [Nodes -> [Kinds -> SUBSET Endpoints]]
    BY <1>0, <2>2, <2>3, <2>4
  <2>9. QED
    BY <1>0, <1>9, <2>1, <2>6, <2>7, <2>8, <1>7 DEF EndpointRemoved
<1>10. ASSUME NEW n \in Nodes, NEW m \in Nodes, Timeout(n, m) PROVE TablesTyped' /\ NetTyped(net')
  <2>1. known' = [known EXCEPT ![n] = [known[n] EXCEPT ![m] = "stale"]]
    BY <1>10 DEF Timeout
  <2>2. QED
    BY <1>0, <1>10, <2>1 DEF Timeout, tables
<1>11. ASSUME NEW n \in Nodes, NEW m \in Nodes, EchoFades(n, m) PROVE TablesTyped' /\ NetTyped(net')
  BY <1>0, <1>11 DEF EchoFades, tables
<1>12. ASSUME NEW n \in Nodes, HeartbeatDetect(n) PROVE TablesTyped' /\ NetTyped(net')
  <2>1. /\ known' = [known EXCEPT ![n] = [m \in DOMAIN known[n] \ TimedOut(n) |-> known[n][m]]]
        /\ wrong' = wrong \cup {<<n, m>> : m \in TimedOut(n) \cap Up}
        /\ found' = [found EXCEPT ![n] = {e \in found[n] : e.node \notin TimedOut(n)}]
        /\ typed' = [typed EXCEPT ![n] = Retyped(n, found'[n])]
        /\ match' = [match EXCEPT ![n] = [k \in Kinds |-> {e \in match[n][k] : e.node \notin TimedOut(n)}]]
    BY <1>12 DEF HeartbeatDetect, GiveUp
  <2>2. Retyped(n, found'[n]) \in [Kinds -> {TypeOf[x] : x \in Nodes} \cup {NoType}]
    BY <1>0, RetypedTyped
  <2>3. wrong' \subseteq Nodes \X Nodes
    BY <1>0, <2>1 DEF Up
  <2>4. typed' \in [Nodes -> [Kinds -> {TypeOf[x] : x \in Nodes} \cup {NoType}]]
    BY <1>0, <2>1, <2>2, UpdateTyped
  <2>5. match' \in [Nodes -> [Kinds -> SUBSET Endpoints]] /\ found' \in [Nodes -> SUBSET Endpoints]
    BY <1>0, <2>1
  <2>6. DOMAIN known' = Nodes
        /\ \A x \in Nodes : \A m \in DOMAIN known'[x] :
             m \in Nodes \ {x} /\ known'[x][m] \in {"new", "fresh", "stale"}
    BY <1>0, <2>1
  <2>7. QED
    BY <1>0, <1>12, <2>3, <2>4, <2>5, <2>6 DEF HeartbeatDetect
<1>13. ASSUME NEW n \in Nodes, NEW how \in {"left", "crashed"}, Gone(n, how) PROVE TablesTyped'
  <2>1. /\ known' = [known EXCEPT ![n] = <<>>] /\ DOMAIN <<>> = {}
        /\ echo' = {p \in echo : p[2] # n} \cup {<<n, m>> : m \in Up \ {n}}
    BY <1>13 DEF Gone
  <2>2. echo' \subseteq Nodes \X Nodes
    BY <1>0, <2>1 DEF Up
  <2>3. DOMAIN known' = Nodes /\ \A x \in Nodes : known'[x] = IF x = n THEN <<>> ELSE known[x]
    BY <1>0, <2>1
  <2>4. \A x \in Nodes : \A m \in DOMAIN known'[x] :
          m \in Nodes \ {x} /\ known'[x][m] \in {"new", "fresh", "stale"}
    BY <1>0, <2>1, <2>3
  <2>5. typed' \in [Nodes -> [Kinds -> {TypeOf[x] : x \in Nodes} \cup {NoType}]]
    <3>1. [k \in Kinds |-> NoType] \in [Kinds -> {TypeOf[x] : x \in Nodes} \cup {NoType}]
      OBVIOUS
    <3>2. QED
      BY <1>0, <1>13, <3>1, UpdateTyped DEF Gone
  <2>6. match' \in [Nodes -> [Kinds -> SUBSET Endpoints]] /\ found' \in [Nodes -> SUBSET Endpoints]
    BY <1>0, <1>13 DEF Gone
  <2>7. local' \in [Nodes -> [Kinds -> 0 .. MaxEid]]
    BY <1>0, <1>13, BoundsAssumption DEF Gone
  <2>8. status' \in [Nodes -> {"off", "up", "left", "crashed"}]
    BY <1>0, <1>13 DEF Gone
  <2>9. QED
    BY <1>0, <1>13, <2>2, <2>3, <2>4, <2>5, <2>6, <2>7, <2>8 DEF Gone
<1>14. ASSUME NEW n \in Nodes, Shutdown(n) PROVE TablesTyped' /\ NetTyped(net')
  <2> DEFINE r == Messages(FALSE, Own(n))
  <2>1. Batch(r, FALSE, n, local[n]) /\ Len(r) = Cardinality(Own(n)) /\ IsFiniteSet(Own(n))
    BY ZenonT(60), OwnIs, MessagesAre
  <2>2. /\ net' = Incoming(n, Send(n, DOMAIN known[n], r)) /\ Room(n, DOMAIN known[n], Cardinality(Own(n)))
        /\ Gone(n, "left")
    BY <1>14 DEF Shutdown
  <2> HIDE DEF r
  <2>3. Cardinality(Own(n)) \in Nat
    BY <2>1, FS_CardinalityType
  <2>4. NetTyped(Send(n, DOMAIN known[n], r))
    BY <2>1, <2>2, <2>3, SendTyped DEF Batch
  <2>5. QED
    BY <2>2, <2>4, <1>13, IncomingTyped
<1>15. ASSUME NEW n \in Nodes, Crash(n) PROVE TablesTyped' /\ NetTyped(net')
  BY <1>0, <1>13, <1>15, IncomingTyped DEF Crash
<1>16. CASE UNCHANGED vars
  BY <1>0, <1>16 DEF vars, tables
<1>17. QED
  BY <1>2, <1>3, <1>4, <1>5, <1>6, <1>8, <1>9, <1>10, <1>11, <1>12, <1>14, <1>15, <1>16 DEF Next, Progress

-----------------------------------------------------------------------------
(* What the actions do to each node *)

TypesAside == TablesTyped /\ DOMAIN net = Nodes \X Nodes

LEMMA TypesBrief ==
  ASSUME TypeOK
  PROVE  TypesAside
BY TypesAre DEF NetTyped, TypesAside

(* n sends r to the nodes in T. *)
Sends(n, T, r) ==
  \A x, y \in Nodes :
    net'[<<x, y>>] = IF x = n /\ y \in T \cap Up THEN net[<<x, y>>] \o r ELSE net[<<x, y>>]

LEMMA SendSends ==
  ASSUME NEW n \in Nodes, NEW T, NEW r, net' = Send(n, T, r)
  PROVE  Sends(n, T, r)
<1>1. SUFFICES ASSUME NEW x \in Nodes, NEW y \in Nodes
               PROVE  net'[<<x, y>>] = IF x = n /\ y \in T \cap Up THEN net[<<x, y>>] \o r ELSE net[<<x, y>>]
  BY DEF Sends
<1>2. QED
  BY SendIs

LEMMA StartIs ==
  ASSUME TypeOK, NEW n \in Nodes, Start(n)
  PROVE  /\ status[n] = "off" /\ UNCHANGED <<known, found, match, local, eid, deaf, net, echo, wrong>>
         /\ \A x \in Nodes : status'[x] = IF x = n THEN "up" ELSE status[x]
<1>1. TypesAside
  BY TypesBrief
<1>2. QED
  BY <1>1 DEF TypesAside, TablesTyped, Start, tables

LEMMA CreateIs ==
  ASSUME TypeOK, NEW n \in Nodes, NEW k \in Kinds, Create(n, k)
  PROVE  /\ status[n] = "up" /\ local[n][k] = 0 /\ eid[n] \in 1 .. MaxEid
         /\ UNCHANGED <<status, known, found, deaf, echo, wrong>>
         /\ \A x \in Nodes :
              /\ local'[x] = IF x = n THEN [local[n] EXCEPT ![k] = eid[n]] ELSE local[x]
              /\ eid'[x] = IF x = n THEN eid[n] + 1 ELSE eid[x]
              /\ match'[x] = IF x = n THEN [match[n] EXCEPT ![k] = Matching(n, k, found[n])] ELSE match[x]
         /\ Sends(n, DOMAIN known[n], Messages(TRUE, {LocalEndpoint(n, k, eid[n])}))
<1>1. TypesAside
  BY TypesBrief
<1>2. eid[n] \in 1 .. MaxEid
  BY <1>1, BoundsAssumption DEF TypesAside, TablesTyped, Create
<1>3. \A x \in Nodes :
        /\ local'[x] = IF x = n THEN [local[n] EXCEPT ![k] = eid[n]] ELSE local[x]
        /\ eid'[x] = IF x = n THEN eid[n] + 1 ELSE eid[x]
        /\ match'[x] = IF x = n THEN [match[n] EXCEPT ![k] = Matching(n, k, found[n])] ELSE match[x]
  BY <1>1 DEF TypesAside, TablesTyped, Create
<1>4. Sends(n, DOMAIN known[n], Messages(TRUE, {LocalEndpoint(n, k, eid[n])}))
  BY SendSends DEF Create, LocalEndpoint
<1>5. QED
  BY <1>2, <1>3, <1>4 DEF Create

LEMMA DestroyIs ==
  ASSUME TypeOK, NEW n \in Nodes, NEW k \in Kinds, Destroy(n, k)
  PROVE  /\ status[n] = "up" /\ local[n][k] # 0
         /\ UNCHANGED <<status, known, found, eid, deaf, echo, wrong>>
         /\ \A x \in Nodes :
              /\ local'[x] = IF x = n THEN [local[n] EXCEPT ![k] = 0] ELSE local[x]
              /\ match'[x] = IF x = n THEN [match[n] EXCEPT ![k] = {}] ELSE match[x]
         /\ Sends(n, DOMAIN known[n], Messages(FALSE, {e \in Own(n) : e.kind = k}))
<1>1. TypesAside
  BY TypesBrief
<1>2. \A x \in Nodes :
        /\ local'[x] = IF x = n THEN [local[n] EXCEPT ![k] = 0] ELSE local[x]
        /\ match'[x] = IF x = n THEN [match[n] EXCEPT ![k] = {}] ELSE match[x]
  BY <1>1 DEF TypesAside, TablesTyped, Destroy
<1>3. Sends(n, DOMAIN known[n], Messages(FALSE, {e \in Own(n) : e.kind = k}))
  BY SendSends DEF Destroy
<1>4. QED
  BY <1>2, <1>3 DEF Destroy

LEMMA HearNewIs ==
  ASSUME TypeOK, Echoes, NEW n \in Nodes, NEW m \in Nodes, HearNew(n, m)
  PROVE  /\ m # n /\ status[n] = "up" /\ status[m] # "off" /\ m \notin DOMAIN known[n]
         /\ echo' \subseteq echo /\ UNCHANGED <<status, found, match, local, eid, deaf, wrong>>
         /\ \A x \in Nodes : DOMAIN known'[x] = IF x = n THEN DOMAIN known[n] \cup {m} ELSE DOMAIN known[x]
         /\ Sends(n, {m}, Messages(TRUE, Own(n)))
<1>1. TypesAside
  BY TypesBrief
<1>2. \A x \in Nodes : DOMAIN known'[x] = IF x = n THEN DOMAIN known[n] \cup {m} ELSE DOMAIN known[x]
  BY <1>1 DEF TypesAside, TablesTyped, HearNew
<1>3. Sends(n, {m}, Messages(TRUE, Own(n)))
  BY SendSends DEF HearNew
<1>4. m # n /\ status[n] = "up" /\ status[m] # "off" /\ echo' \subseteq echo
  BY DEF HearNew, Announced, Echoes
<1>5. QED
  BY <1>2, <1>3, <1>4 DEF HearNew, tables

(* What only moves the time last heard of a node. *)
Quiet ==
  /\ UNCHANGED <<status, found, match, local, eid, deaf, net, wrong>> /\ echo' \subseteq echo
  /\ \A x \in Nodes : DOMAIN known'[x] = DOMAIN known[x]

LEMMA QuietSteps ==
  ASSUME TypeOK, NEW n \in Nodes, NEW m \in Nodes,
         HearAgain(n, m) \/ Timeout(n, m) \/ EchoFades(n, m) \/ UNCHANGED vars
  PROVE  Quiet
<1>1. TypesAside
  BY TypesBrief
<1>2. ASSUME NEW z, known' = [known EXCEPT ![n] = [known[n] EXCEPT ![m] = z]]
      PROVE  \A x \in Nodes : DOMAIN known'[x] = DOMAIN known[x]
  BY <1>1, <1>2 DEF TypesAside, TablesTyped
<1>3. CASE HearAgain(n, m)
  BY <1>3, <1>2 DEF HearAgain, Announced, Quiet, tables
<1>4. CASE Timeout(n, m)
  BY <1>4, <1>2 DEF Timeout, Quiet, tables
<1>5. CASE EchoFades(n, m)
  BY <1>5 DEF EchoFades, Quiet, tables
<1>6. CASE UNCHANGED vars
  BY <1>6 DEF vars, Quiet, tables
<1>7. QED
  BY <1>3, <1>4, <1>5, <1>6

(* n reads a datagram of m. *)
Reads(n, m, G, M) ==
  /\ status[n] = "up" /\ ~deaf[n] /\ net[<<m, n>>] # <<>>
  /\ UNCHANGED <<status, known, local, eid, echo, wrong>>
  /\ \A x \in Nodes :
       /\ found'[x] = IF x = n THEN G ELSE found[x]
       /\ match'[x] = IF x = n THEN M ELSE match[x]
       /\ x # n => deaf'[x] = deaf[x]
  /\ \A x, y \in Nodes : net'[<<x, y>>] = IF x = m /\ y = n THEN Tail(net[<<m, n>>]) ELSE net[<<x, y>>]

(* e is matched with the local endpoint of kind k, unless n turns deaf. *)
Matches(n, k, e, M) ==
  deaf'[n] \/ \A l \in Kinds : M[l] =
    IF l = k /\ local[n][l] # 0 THEN match[n][l] \cup Matching(n, l, {e}) ELSE match[n][l]

LEMMA AddedIs ==
  ASSUME TypeOK, NEW n \in Nodes, NEW m \in Nodes, EndpointAdded(n, m),
         NEW msg, msg = net[<<m, n>>][1], NEW k, k = Opposite(msg.ep.kind)
  PROVE  /\ msg \in Datagrams /\ msg.add
         /\ \E M : /\ Reads(n, m, found[n] \cup {msg.ep}, M)
                   /\ Matches(n, k, msg.ep, M)
<1>1. TypesAside
  BY TypesBrief
<1>2. Arrived(n, m) /\ msg = Head(net[<<m, n>>]) /\ msg \in Datagrams
  BY HeadIs DEF EndpointAdded
<1> DEFINE type == IF typed[n][msg.ep.kind] = NoType THEN TypeOf[m] ELSE typed[n][msg.ep.kind]
           M == [match[n] EXCEPT ![k] = IF type = TypeOf[m] /\ local[n][k] # 0
                                        THEN match[n][k] \cup Matching(n, k, {msg.ep}) ELSE match[n][k]]
<1>3. /\ msg.add
      /\ found' = [found EXCEPT ![n] = found[n] \cup {msg.ep}]
      /\ deaf' = [deaf EXCEPT ![n] = type # TypeOf[m]]
      /\ match' = [match EXCEPT ![n] = M]
      /\ net' = [net EXCEPT ![<<m, n>>] = Tail(net[<<m, n>>])]
      /\ UNCHANGED <<status, known, local, eid, echo, wrong>>
  BY <1>2 DEF EndpointAdded, Receive
<1>4. deaf'[n] = (type # TypeOf[m])
  BY <1>1, <1>3 DEF TypesAside, TablesTyped
<1>5. Matches(n, k, msg.ep, M)
  <2>1. match[n] \in [Kinds -> SUBSET Endpoints]
    BY <1>1 DEF TypesAside, TablesTyped
  <2>2. QED
    BY <1>4, <2>1 DEF Matches
<1> HIDE DEF M, type
<1>6. Reads(n, m, found[n] \cup {msg.ep}, M)
  BY SMTT(120), <1>1, <1>2, <1>3 DEF TypesAside, TablesTyped, Reads, Arrived
<1>7. QED
  BY <1>2, <1>3, <1>5, <1>6

LEMMA RemovedIs ==
  ASSUME TypeOK, NEW n \in Nodes, NEW m \in Nodes, EndpointRemoved(n, m),
         NEW msg, msg = net[<<m, n>>][1], NEW k, k = Opposite(msg.ep.kind)
  PROVE  /\ msg \in Datagrams /\ ~msg.add /\ deaf' = deaf
         /\ Reads(n, m, found[n] \ {msg.ep},
                  [match[n] EXCEPT ![k] = IF local[n][k] # 0 THEN Erase(match[n][k], msg.ep) ELSE match[n][k]])
<1>1. TypesAside
  BY TypesBrief
<1>2. Arrived(n, m) /\ msg = Head(net[<<m, n>>]) /\ msg \in Datagrams
  BY HeadIs DEF EndpointRemoved
<1> DEFINE M == [match[n] EXCEPT ![k] = IF local[n][k] # 0 THEN Erase(match[n][k], msg.ep) ELSE match[n][k]]
<1>3. /\ ~msg.add
      /\ found' = [found EXCEPT ![n] = found[n] \ {msg.ep}]
      /\ match' = [match EXCEPT ![n] = M]
      /\ net' = [net EXCEPT ![<<m, n>>] = Tail(net[<<m, n>>])]
      /\ UNCHANGED <<status, known, local, eid, deaf, echo, wrong>>
  BY <1>2 DEF EndpointRemoved, Receive
<1> HIDE DEF M
<1>4. Reads(n, m, found[n] \ {msg.ep}, M)
  BY <1>1, <1>2, <1>3 DEF TypesAside, TablesTyped, Reads, Arrived
<1>5. QED
  BY <1>2, <1>3, <1>4 DEF M

LEMMA DetectIs ==
  ASSUME TypeOK, NEW n \in Nodes, HeartbeatDetect(n), NEW D, D = TimedOut(n)
  PROVE  /\ status[n] = "up" /\ D \subseteq DOMAIN known[n] /\ UNCHANGED <<status, local, eid, deaf, net, echo>>
         /\ wrong' = wrong \cup {<<n, m>> : m \in D \cap Up}
         /\ \A x \in Nodes :
              /\ DOMAIN known'[x] = IF x = n THEN DOMAIN known[n] \ D ELSE DOMAIN known[x]
              /\ found'[x] = IF x = n THEN {e \in found[n] : e.node \notin D} ELSE found[x]
              /\ match'[x] = IF x = n THEN [k \in Kinds |-> {e \in match[n][k] : e.node \notin D}] ELSE match[x]
<1>1. TypesAside
  BY TypesBrief
<1>2. /\ UNCHANGED <<status, local, eid, deaf, net, echo>> /\ status[n] = "up"
      /\ wrong' = wrong \cup {<<n, m>> : m \in D \cap Up}
      /\ known' = [known EXCEPT ![n] = [m \in DOMAIN known[n] \ D |-> known[n][m]]]
      /\ found' = [found EXCEPT ![n] = {e \in found[n] : e.node \notin D}]
      /\ match' = [match EXCEPT ![n] = [k \in Kinds |-> {e \in match[n][k] : e.node \notin D}]]
  BY DEF HeartbeatDetect, GiveUp
<1>3. \A x \in Nodes :
        /\ DOMAIN known'[x] = IF x = n THEN DOMAIN known[n] \ D ELSE DOMAIN known[x]
        /\ found'[x] = IF x = n THEN {e \in found[n] : e.node \notin D} ELSE found[x]
        /\ match'[x] = IF x = n THEN [k \in Kinds |-> {e \in match[n][k] : e.node \notin D}] ELSE match[x]
  BY <1>1, <1>2 DEF TypesAside, TablesTyped
<1>4. QED
  BY <1>2, <1>3 DEF TimedOut

(* n goes; before, it sends r to the nodes in T. *)
Goes(n, how, T, r) ==
  /\ status[n] = "up" /\ UNCHANGED <<eid, deaf, wrong>>
  /\ \A x \in Nodes :
       /\ status'[x] = IF x = n THEN how ELSE status[x]
       /\ DOMAIN known'[x] = IF x = n THEN {} ELSE DOMAIN known[x]
       /\ found'[x] = IF x = n THEN {} ELSE found[x]
       /\ local'[x] = IF x = n THEN [k \in Kinds |-> 0] ELSE local[x]
       /\ match'[x] = IF x = n THEN [k \in Kinds |-> {}] ELSE match[x]
  /\ \A p \in echo' : p \in echo \/ p[1] = n
  /\ \A x, y \in Nodes :
       net'[<<x, y>>] = IF y = n THEN <<>>
                        ELSE IF x = n /\ y \in T \cap Up THEN net[<<x, y>>] \o r ELSE net[<<x, y>>]

LEMMA GoneIs ==
  ASSUME TypeOK, NEW n \in Nodes, NEW how, Gone(n, how), status[n] = "up", NEW T, NEW r,
         net' = Incoming(n, Send(n, T, r)) \/ (T = {} /\ net' = Incoming(n, net))
  PROVE  Goes(n, how, T, r)
<1>1. TypesAside
  BY TypesBrief
<1>2. \A x \in Nodes :
         /\ status'[x] = IF x = n THEN how ELSE status[x]
         /\ DOMAIN known'[x] = IF x = n THEN {} ELSE DOMAIN known[x]
         /\ found'[x] = IF x = n THEN {} ELSE found[x]
         /\ local'[x] = IF x = n THEN [k \in Kinds |-> 0] ELSE local[x]
         /\ match'[x] = IF x = n THEN [k \in Kinds |-> {}] ELSE match[x]
  <2>1. DOMAIN <<>> = {}
    OBVIOUS
  <2>2. QED
    BY <2>1, <1>1 DEF Gone, TypesAside, TablesTyped
<1>3. \A p \in echo' : p \in echo \/ p[1] = n
  BY DEF Gone
<1>4. ASSUME NEW x \in Nodes, NEW y \in Nodes
      PROVE  net'[<<x, y>>] = IF y = n THEN <<>>
                        ELSE IF x = n /\ y \in T \cap Up THEN net[<<x, y>>] \o r ELSE net[<<x, y>>]
  <2>1. CASE net' = Incoming(n, Send(n, T, r))
    <3>1. net'[<<x, y>>] = IF y = n THEN <<>> ELSE Send(n, T, r)[<<x, y>>]
      BY <2>1 DEF Incoming
    <3>2. QED
      BY <3>1, SendIs
  <2>2. CASE T = {} /\ net' = Incoming(n, net)
    BY <2>2 DEF Incoming
  <2>3. QED
    BY <2>1, <2>2
<1>5. QED
  BY <1>2, <1>3, <1>4 DEF Gone, Goes

LEMMA ShutdownIs ==
  ASSUME TypeOK, NEW n \in Nodes, Shutdown(n)
  PROVE  Goes(n, "left", DOMAIN known[n], Messages(FALSE, Own(n)))
BY GoneIs DEF Shutdown

LEMMA CrashIs ==
  ASSUME TypeOK, NEW n \in Nodes, Crash(n)
  PROVE  Goes(n, "crashed", {}, <<>>)
BY GoneIs DEF Crash

-----------------------------------------------------------------------------
(* Nodes that are not there *)

Presence == Absent /\ Unheard /\ Echoes /\ Ids

LEMMA SendsPresence ==
  ASSUME Absent, Unheard, NEW n \in Nodes, status[n] = "up", NEW T, NEW r, Sends(n, T, r)
  PROVE  /\ \A x, y \in Nodes : status[y] # "up" => net'[<<x, y>>] = <<>>
         /\ \A x, y \in Nodes : status[x] = "off" => net'[<<x, y>>] = <<>>
BY DEF Sends, Up, Absent, Unheard

LEMMA PresenceHolds ==
  ASSUME TypeOK, Presence, Channels, [Next]_vars
  PROVE  Presence'
<1> USE DEF Presence
<1>1. TypesAside /\ \A x \in Nodes : eid[x] \in Int /\ 0 < eid[x]
  BY TypesBrief, BoundsAssumption DEF TypesAside, TablesTyped
<1>2. ASSUME NEW n \in Nodes, Start(n) PROVE Presence'
  <2>1. /\ status[n] = "off" /\ UNCHANGED <<known, found, match, local, eid, net, echo>>
        /\ \A x \in Nodes : status'[x] = IF x = n THEN "up" ELSE status[x]
    BY <1>2, StartIs
  <2>2. Absent'
    BY <2>1 DEF Absent
  <2>3. Unheard'
    BY <2>1 DEF Unheard, Of
  <2>4. Echoes'
    BY <2>1, <1>1 DEF Echoes, TypesAside, TablesTyped
  <2>5. Ids'
    BY <2>1 DEF Ids
  <2>6. QED
    BY <2>2, <2>3, <2>4, <2>5
<1>3. ASSUME NEW n \in Nodes, NEW k \in Kinds, Create(n, k) PROVE Presence'
  <2>1. /\ status[n] = "up" /\ UNCHANGED <<status, known, found, echo>>
        /\ \A x \in Nodes : x # n => local'[x] = local[x] /\ eid'[x] = eid[x] /\ match'[x] = match[x]
        /\ local'[n] = [local[n] EXCEPT ![k] = eid[n]] /\ eid'[n] = eid[n] + 1
        /\ Sends(n, DOMAIN known[n], Messages(TRUE, {LocalEndpoint(n, k, eid[n])}))
    BY ZenonT(60), <1>3, CreateIs
  <2>2. /\ \A x, y \in Nodes : status[y] # "up" => net'[<<x, y>>] = <<>>
        /\ \A x, y \in Nodes : status[x] = "off" => net'[<<x, y>>] = <<>>
    BY <2>1, SendsPresence
  <2>3. Absent'
    BY <2>1, <2>2 DEF Absent
  <2>4. Unheard'
    BY <2>1, <2>2 DEF Unheard, Of
  <2>5. Ids'
    <3>1. local[n] \in [Kinds -> Nat]
      BY OwnIs
    <3>2. \A l \in Kinds : local'[n][l] = IF l = k THEN eid[n] ELSE local[n][l]
      BY <2>1, <3>1
    <3>3. \A l \in Kinds : local'[n][l] < eid'[n]
      BY <3>1, <3>2, <2>1, <1>1 DEF Ids
    <3>4. QED
      BY <3>3, <2>1 DEF Ids
  <2>6. QED
    BY <2>1, <2>3, <2>4, <2>5 DEF Echoes
<1>4. ASSUME NEW n \in Nodes, NEW k \in Kinds, Destroy(n, k) PROVE Presence'
  <2>1. /\ status[n] = "up" /\ local[n][k] # 0 /\ UNCHANGED <<status, known, found, eid, echo>>
        /\ \A x \in Nodes : x # n => local'[x] = local[x] /\ match'[x] = match[x]
        /\ local'[n] = [local[n] EXCEPT ![k] = 0]
        /\ Sends(n, DOMAIN known[n], Messages(FALSE, {e \in Own(n) : e.kind = k}))
    BY <1>4, DestroyIs
  <2>2. /\ \A x, y \in Nodes : status[y] # "up" => net'[<<x, y>>] = <<>>
        /\ \A x, y \in Nodes : status[x] = "off" => net'[<<x, y>>] = <<>>
    BY <2>1, SendsPresence
  <2>3. Absent'
    BY <2>1, <2>2 DEF Absent
  <2>4. Unheard'
    BY <2>1, <2>2 DEF Unheard, Of
  <2>5. Ids'
    <3>1. local[n] \in [Kinds -> Nat]
      BY OwnIs
    <3>2. \A l \in Kinds : local'[n][l] = IF l = k THEN 0 ELSE local[n][l]
      BY <2>1, <3>1
    <3>3. \A l \in Kinds : local'[n][l] < eid'[n]
      BY <3>1, <3>2, <2>1, <1>1 DEF Ids
    <3>4. QED
      BY <3>3, <2>1 DEF Ids
  <2>6. QED
    BY <2>1, <2>3, <2>4, <2>5 DEF Echoes
<1>5. ASSUME NEW n \in Nodes, NEW m \in Nodes, HearNew(n, m) PROVE Presence'
  <2>1. /\ m # n /\ status[n] = "up" /\ status[m] # "off"
        /\ echo' \subseteq echo /\ UNCHANGED <<status, found, match, local, eid>>
        /\ \A x \in Nodes : DOMAIN known'[x] = IF x = n THEN DOMAIN known[n] \cup {m} ELSE DOMAIN known[x]
        /\ Sends(n, {m}, Messages(TRUE, Own(n)))
    BY <1>5, HearNewIs
  <2>2. /\ \A x, y \in Nodes : status[y] # "up" => net'[<<x, y>>] = <<>>
        /\ \A x, y \in Nodes : status[x] = "off" => net'[<<x, y>>] = <<>>
    BY <2>1, SendsPresence
  <2>3. Absent'
    BY <2>1, <2>2 DEF Absent
  <2>4. Unheard'
    BY <2>1, <2>2 DEF Unheard, Of
  <2>5. Echoes' /\ Ids'
    BY <2>1 DEF Echoes, Ids
  <2>6. QED
    BY <2>3, <2>4, <2>5
<1>6. ASSUME Quiet PROVE Presence'
  <2>1. Absent'
    BY <1>6 DEF Absent, Quiet
  <2>2. Unheard'
    BY <1>6 DEF Unheard, Of, Quiet
  <2>3. Echoes' /\ Ids'
    BY <1>6 DEF Echoes, Ids, Quiet
  <2>4. QED
    BY <2>1, <2>2, <2>3
(* A node that is up reads a datagram of one that has started. *)
<1>7. ASSUME NEW n \in Nodes, NEW m \in Nodes, NEW G, NEW M, Reads(n, m, G, M),
             \A e \in G : e \in found[n] \/ e.node = m
      PROVE  Presence'
  <2>1. status[n] = "up" /\ status[m] # "off" /\ UNCHANGED <<status, known, local, eid, echo>>
    BY <1>7 DEF Reads, Unheard
  <2>2. \A x, y \in Nodes : status[y] # "up" \/ status[x] = "off" => net'[<<x, y>>] = <<>>
    BY <2>1, <1>7 DEF Reads, Absent, Unheard
  <2>3. \A x \in Nodes : x # n => found'[x] = found[x] /\ match'[x] = match[x]
    BY <1>7 DEF Reads
  <2>4. found'[n] = G
    BY <1>7 DEF Reads
  <2>5. Absent'
    BY <2>1, <2>2, <2>3 DEF Absent
  <2>6. ASSUME NEW x \in Nodes, NEW y \in Nodes, status[x] = "off" PROVE Of(x, found'[y]) = {}
    <3>1. CASE y = n
      BY <3>1, <2>1, <2>4, <1>7, <2>6 DEF Unheard, Of
    <3>2. CASE y # n
      BY <3>2, <2>3, <2>6 DEF Unheard, Of
    <3>3. QED
      BY <3>1, <3>2
  <2>7. Unheard'
    BY <2>1, <2>2, <2>6 DEF Unheard, Of
  <2>8. Echoes' /\ Ids'
    BY <2>1 DEF Echoes, Ids
  <2>9. QED
    BY <2>5, <2>7, <2>8
<1>8. ASSUME NEW n \in Nodes, NEW m \in Nodes, net[<<m, n>>] # <<>> PROVE net[<<m, n>>][1].ep.node = m
  <2>1. Chan(m, n)
    BY DEF Channels
  <2>2. 1 \in DOMAIN net[<<m, n>>]
    BY <1>8, ChannelTypes
  <2>3. QED
    BY <2>1, <2>2 DEF Chan, Channel
<1>9. ASSUME NEW n \in Nodes, NEW m \in Nodes, EndpointAdded(n, m) PROVE Presence'
  <2> DEFINE e == net[<<m, n>>][1].ep
  <2>1. PICK M : Reads(n, m, found[n] \cup {e}, M)
    BY <1>9, AddedIs
  <2>2. e.node = m
    BY <2>1, <1>8 DEF Reads
  <2> HIDE DEF e
  <2>3. QED
    BY <2>1, <2>2, <1>7
<1>10. ASSUME NEW n \in Nodes, NEW m \in Nodes, EndpointRemoved(n, m) PROVE Presence'
  <2>1. PICK e, M : Reads(n, m, found[n] \ {e}, M)
    BY ZenonT(60), <1>10, RemovedIs
  <2>2. QED
    BY <2>1, <1>7
<1>11. ASSUME NEW n \in Nodes, HeartbeatDetect(n) PROVE Presence'
  <2> DEFINE D == TimedOut(n)
  <2>1. /\ status[n] = "up" /\ UNCHANGED <<status, local, eid, net, echo>>
        /\ \A x \in Nodes :
              /\ DOMAIN known'[x] = IF x = n THEN DOMAIN known[n] \ D ELSE DOMAIN known[x]
              /\ found'[x] = IF x = n THEN {e \in found[n] : e.node \notin D} ELSE found[x]
              /\ x # n => match'[x] = match[x]
    BY ZenonT(60), <1>11, DetectIs
  <2> HIDE DEF D
  <2>2. Absent'
    BY <2>1 DEF Absent
  <2>3. Unheard'
    <3>1. \A x \in Nodes : found'[x] \subseteq found[x]
      BY <2>1
    <3>2. \A x, y \in Nodes : Of(y, found'[x]) \subseteq Of(y, found[x])
      BY <3>1 DEF Of
    <3>3. SUFFICES ASSUME NEW x \in Nodes, NEW y \in Nodes, status[x] = "off"
                   PROVE  x \notin DOMAIN known'[y] /\ Of(x, found'[y]) = {} /\ net[<<x, y>>] = <<>>
      BY <2>1 DEF Unheard, Of
    <3>4. x \notin DOMAIN known[y] /\ Of(x, found[y]) = {} /\ net[<<x, y>>] = <<>>
      BY <3>3 DEF Unheard
    <3>5. QED
      BY <2>1, <3>2, <3>4
  <2>4. Echoes' /\ Ids'
    BY <2>1 DEF Echoes, Ids
  <2>5. QED
    BY <2>2, <2>3, <2>4
<1>12. ASSUME NEW n \in Nodes, NEW how \in {"left", "crashed"}, NEW T, NEW r, Goes(n, how, T, r) PROVE Presence'
  <2>1. /\ status[n] = "up" /\ eid' = eid
        /\ \A x \in Nodes : status'[x] = IF x = n THEN how ELSE status[x]
        /\ \A p \in echo' : p \in echo \/ p[1] = n
    BY <1>12 DEF Goes
  <2>2. \A x \in Nodes : x # n => /\ DOMAIN known'[x] = DOMAIN known[x] /\ found'[x] = found[x]
                                  /\ local'[x] = local[x] /\ match'[x] = match[x]
    BY <1>12 DEF Goes
  <2>3. /\ DOMAIN known'[n] = {} /\ found'[n] = {}
        /\ local'[n] = [k \in Kinds |-> 0] /\ match'[n] = [k \in Kinds |-> {}]
    BY <1>12 DEF Goes
  <2>4. ASSUME NEW x \in Nodes, NEW y \in Nodes, status'[y] # "up" \/ status'[x] = "off"
        PROVE  net'[<<x, y>>] = <<>>
    <3>1. CASE y = n
      BY <3>1, <1>12 DEF Goes
    <3>2. CASE y # n
      <4>1. status[y] # "up" \/ status[x] = "off"
        BY <2>1, <2>4, <3>2
      <4>2. net[<<x, y>>] = <<>>
        BY <4>1 DEF Absent, Unheard
      <4>3. ~(x = n /\ y \in T \cap Up)
        BY <4>1, <2>1 DEF Up
      <4>4. QED
        BY <4>2, <4>3, <1>12 DEF Goes
    <3>3. QED
      BY <3>1, <3>2
  <2>5. Absent'
    BY <2>1, <2>2, <2>3, <2>4 DEF Absent
  <2>6. Unheard'
    BY <2>1, <2>2, <2>3, <2>4 DEF Unheard, Of
  <2>7. Echoes'
    <3>1. \A p \in echo : p[1] \in Nodes
      BY <1>1 DEF TypesAside, TablesTyped
    <3>2. QED
      BY <3>1, <2>1 DEF Echoes
  <2>8. Ids'
    <3>1. \A l \in Kinds : local'[n][l] = 0
      BY <2>3
    <3>2. QED
      BY <3>1, <2>1, <2>2, <1>1 DEF Ids
  <2>9. QED
    BY <2>5, <2>6, <2>7, <2>8
<1>13. ASSUME NEW n \in Nodes, Shutdown(n) PROVE Presence'
  BY <1>13, <1>12, ShutdownIs
<1>14. ASSUME NEW n \in Nodes, Crash(n) PROVE Presence'
  BY <1>14, <1>12, CrashIs
<1>15. ASSUME NEW n \in Nodes, NEW m \in Nodes,
              HearAgain(n, m) \/ Timeout(n, m) \/ EchoFades(n, m) \/ UNCHANGED vars
       PROVE  Presence'
  BY <1>15, <1>6, QuietSteps
<1>16. CASE UNCHANGED vars
  <2>1. CASE Nodes = {}
    BY <2>1, <1>16 DEF vars, tables, Absent, Unheard, Echoes, Ids
  <2>2. QED
    BY <2>1, <1>15, <1>16
<1>17. QED
  BY <1>2, <1>3, <1>4, <1>5, <1>9, <1>10, <1>11, <1>13, <1>14, <1>15, <1>16 DEF Next, Progress

-----------------------------------------------------------------------------
(* The datagrams of one node to another *)

KindsTold(n, m) == IF m \in DOMAIN known[n] THEN Kinds ELSE {}

LEMMA PairIs ==
  ASSUME TypeOK, Ids, Channels, NEW x \in Nodes, NEW y \in Nodes
  PROVE  /\ net[<<x, y>>] \in Seq(Datagrams) /\ Of(x, found[y]) \in SUBSET Endpoints
         /\ \A e \in Of(x, found[y]) : e.node = x
         /\ local[x] \in [Kinds -> Nat] /\ local[x] \in [Kinds -> 0 .. MaxEid] /\ eid[x] \in Nat
         /\ \A k \in Kinds : local[x][k] # 0 => local[x][k] < eid[x]
         /\ \A k \in Kinds : local[x][k] # 0 => LocalEndpoint(x, k, local[x][k]) \in Endpoints
         /\ Channel(net[<<x, y>>], Of(x, found[y]), x, local[x], KindsTold(x, y), eid[x])
<1>1. Channel(net[<<x, y>>], Of(x, found[y]), x, local[x], KindsTold(x, y), eid[x])
  BY DEF Channels, Chan, KindsTold
<1>2. QED
  BY <1>1, OwnIs, ChannelTypes DEF Ids

(* Nothing is sent, and a table is left as it is or cleared.               *)
LEMMA KeptChan ==
  ASSUME TypeOK, Ids, Channels, NEW x \in Nodes, NEW y \in Nodes,
         net'[<<x, y>>] = net[<<x, y>>], eid'[x] = eid[x],
         Of(x, found'[y]) = Of(x, found[y]) \/ Of(x, found'[y]) = {},
         \A k \in Kinds : local'[x][k] = local[x][k] \/ local'[x][k] = 0,
         (\A k \in Kinds : local'[x][k] = 0) \/ (y \in DOMAIN known'[x] => y \in DOMAIN known[x])
  PROVE  Chan(x, y)'
<1> DEFINE q == net[<<x, y>>]
           F == Of(x, found[y])
           G == Of(x, found'[y])
           K == KindsTold(x, y)
           L == IF y \in DOMAIN known'[x] THEN Kinds ELSE {}
<1>1. Channel(q, G, x, local[x], K, eid[x])
  <2>1. /\ q \in Seq(Datagrams) /\ F \in SUBSET Endpoints /\ \A e \in F : e.node = x
        /\ local[x] \in [Kinds -> Nat] /\ eid[x] \in Nat
        /\ \A k \in Kinds : local[x][k] # 0 => LocalEndpoint(x, k, local[x][k]) \in Endpoints
        /\ Channel(q, F, x, local[x], K, eid[x])
    BY PairIs
  <2>2. G = F \/ G = {}
    OBVIOUS
  <2> HIDE DEF q, F, G, K
  <2>3. Channel(q, {}, x, local[x], K, eid[x])
    BY <2>1, ClearedChannel
  <2>4. QED
    BY <2>1, <2>2, <2>3
<1>2. \A k \in L \cap Kinds : k \in K \/ local'[x][k] = 0
  BY DEF KindsTold
<1> HIDE DEF G, K, L
<1>3. Channel(q, G, x, local'[x], L, eid[x])
  BY <1>1, <1>2, LessChannel
<1>4. QED
  BY <1>3 DEF Chan, G, L

(* Nobody is there to read.                                                *)
LEMMA EmptyChan ==
  ASSUME NEW x \in Nodes, NEW y \in Nodes, net'[<<x, y>>] = <<>>, found'[y] = {}
  PROVE  Chan(x, y)'
<1>1. Of(x, found'[y]) = {}
  BY DEF Of
<1>2. QED
  BY <1>1, EmptyChannel DEF Chan

LEMMA CreateChannels ==
  ASSUME TypeOK, Presence, Channels, NEW n \in Nodes, NEW k \in Kinds, Create(n, k)
  PROVE  Channels'
<1> USE DEF Presence
<1> DEFINE v == eid[n]
           e == LocalEndpoint(n, k, v)
           r == Messages(TRUE, {e})
           new == [local[n] EXCEPT ![k] = v]
<1>1. /\ status[n] = "up" /\ local[n][k] = 0 /\ v \in 1 .. MaxEid
      /\ UNCHANGED <<status, known, found>>
      /\ \A x \in Nodes : x # n => local'[x] = local[x] /\ eid'[x] = eid[x]
      /\ local'[n] = new /\ eid'[n] = v + 1
      /\ Sends(n, DOMAIN known[n], r)
  BY CreateIs
<1>2. SUFFICES ASSUME NEW x \in Nodes, NEW y \in Nodes PROVE Chan(x, y)'
  BY DEF Channels
<1>3. CASE x # n
  <2>1. net'[<<x, y>>] = net[<<x, y>>]
    BY <1>1, <1>3 DEF Sends
  <2>2. eid'[x] = eid[x] /\ Of(x, found'[y]) = Of(x, found[y])
        /\ (\A l \in Kinds : local'[x][l] = local[x][l] \/ local'[x][l] = 0)
        /\ (y \in DOMAIN known'[x] => y \in DOMAIN known[x])
    BY <1>1, <1>3
  <2>3. QED
    BY <2>1, <2>2, KeptChan
<1>4. CASE x = n /\ y \in DOMAIN known[n] /\ y \notin Up
  <2>1. status[y] # "up"
    BY <1>4 DEF Up
  <2>2. net'[<<x, y>>] = <<>>
    <3>1. net[<<x, y>>] = <<>>
      BY <2>1 DEF Absent
    <3>2. net'[<<x, y>>] = net[<<x, y>>]
      BY <1>1, <1>4 DEF Sends
    <3>3. QED
      BY <3>1, <3>2
  <2>3. found'[y] = {}
    BY <1>1, <2>1 DEF Absent
  <2>4. QED
    BY <2>2, <2>3, EmptyChan
<1>5. ASSUME x = n, y \notin DOMAIN known[n] \/ y \in Up
      PROVE  Chan(x, y)'
  <2> DEFINE q == net[<<n, y>>]
             F == Of(n, found[y])
             K == KindsTold(n, y)
  <2>1. /\ q \in Seq(Datagrams) /\ F \in SUBSET Endpoints
        /\ local[n] \in [Kinds -> Nat] /\ local[n] \in [Kinds -> 0 .. MaxEid] /\ v \in Nat
        /\ \A l \in Kinds : local[n][l] # 0 => local[n][l] < v
        /\ Channel(q, F, n, local[n], K, v)
    BY PairIs
  <2> HIDE DEF q, F
  <2>2. Channel(q, F, n, new, K \ {k}, v + 1)
    BY <1>1, <2>1, NewerChannel
  <2>3. /\ new \in [Kinds -> 0 .. MaxEid] /\ new \in [Kinds -> Nat]
        /\ \A l \in Kinds : new[l] = IF l = k THEN v ELSE local[n][l]
    BY <1>1, <2>1, BoundsAssumption
  <2>4. CASE y \notin DOMAIN known[n]
    <3>1. K \ {k} = {} /\ net'[<<n, y>>] = q /\ Of(n, found'[y]) = F
      BY <1>1, <2>4 DEF KindsTold, Sends, q, F
    <3>2. QED
      BY <1>1, <1>5, <2>2, <2>4, <3>1 DEF Chan
  <2>5. CASE y \in DOMAIN known[n]
    <3>1. K = Kinds /\ net'[<<n, y>>] = q \o r /\ Of(n, found'[y]) = F
      BY <1>1, <1>5, <2>5 DEF KindsTold, Sends, q, F
    <3>2. \A d \in {e} : d.kind \in Kinds /\ new[d.kind] # 0 /\ d = LocalEndpoint(n, d.kind, new[d.kind])
      BY <1>1, <2>3 DEF LocalEndpoint
    <3> HIDE DEF new, e
    <3>3. Batch(r, TRUE, n, new) /\ About(r) = {e}
      BY ZenonT(60), <2>3, <3>2, MessagesAre
    <3>4. e.kind = k
      BY DEF e, LocalEndpoint
    <3>5. k \in KindsOf(r)
      BY <3>3, <3>4 DEF About, KindsOf
    <3>6. \A l \in Kinds : new[l] # 0 => new[l] < v + 1
      BY SMTT(30), <2>1, <2>3
    <3> HIDE DEF r, v
    <3>7. v + 1 \in Nat
      BY <2>1
    <3>8. Channel(q \o r, F, n, new, (K \ {k}) \cup KindsOf(r), v + 1)
      BY <2>1, <2>2, <2>3, <3>3, <3>6, <3>7, AnnounceChannel
    <3>9. Channel(q \o r, F, n, new, Kinds, v + 1)
      BY <3>1, <3>5, <3>8, LessChannel
    <3>10. QED
      BY <1>1, <1>5, <2>5, <3>1, <3>9 DEF Chan
  <2>6. QED
    BY <2>4, <2>5
<1>6. QED
  BY <1>3, <1>4, <1>5

(* What n takes back at once, of its endpoints of some kinds. *)
LEMMA RetractedChan ==
  ASSUME TypeOK, Presence, Channels, NEW n \in Nodes, NEW y \in Nodes, y \in DOMAIN known[n],
         NEW T, T \subseteq Own(n), net'[<<n, y>>] = net[<<n, y>>] \o Messages(FALSE, T),
         eid'[n] = eid[n], Of(n, found'[y]) = Of(n, found[y]),
         \A k \in Kinds : local'[n][k] = 0 \/ (local'[n][k] = local[n][k] /\ \A e \in T : e.kind # k)
  PROVE  Chan(n, y)'
<1> USE DEF Presence
<1> DEFINE q == net[<<n, y>>]
           F == Of(n, found[y])
           r == Messages(FALSE, T)
<1>1. /\ q \in Seq(Datagrams) /\ F \in SUBSET Endpoints
      /\ local[n] \in [Kinds -> Nat] /\ local[n] \in [Kinds -> 0 .. MaxEid] /\ eid[n] \in Nat
      /\ \A l \in Kinds : local[n][l] # 0 => local[n][l] < eid[n]
      /\ Channel(q, F, n, local[n], Kinds, eid[n])
  BY PairIs DEF KindsTold
<1>2. \A d \in T : d.kind \in Kinds /\ local[n][d.kind] # 0 /\ d = LocalEndpoint(n, d.kind, local[n][d.kind])
  BY OwnIs
<1>3. Batch(r, FALSE, n, local[n]) /\ About(r) = T
  BY ZenonT(120), <1>1, <1>2, MessagesAre
<1>4. KindsOf(r) \subseteq Kinds
  BY ZenonT(60), <1>3 DEF Batch, KindsOf
<1>5. \A k \in Kinds : local'[n][k] = 0 \/ (k \notin KindsOf(r) /\ local'[n][k] = local[n][k])
  BY ZenonT(60), <1>3 DEF About, KindsOf
<1>6. net'[<<n, y>>] = q \o r /\ Of(n, found'[y]) = F
  OBVIOUS
<1> HIDE DEF q, F, r
<1>7. Channel(q \o r, F, n, local'[n], Kinds, eid[n])
  BY <1>1, <1>3, <1>4, <1>5, RetractChannel
<1>8. Channel(q \o r, F, n, local'[n], IF y \in DOMAIN known'[n] THEN Kinds ELSE {}, eid[n])
  BY <1>7, LessChannel
<1>9. QED
  BY <1>6, <1>8 DEF Chan

LEMMA DestroyChannels ==
  ASSUME TypeOK, Presence, Channels, NEW n \in Nodes, NEW k \in Kinds, Destroy(n, k)
  PROVE  Channels'
<1> USE DEF Presence
<1> DEFINE T == {e \in Own(n) : e.kind = k}
<1>1. /\ status[n] = "up" /\ UNCHANGED <<status, known, found, eid>>
      /\ \A x \in Nodes : x # n => local'[x] = local[x]
      /\ local'[n] = [local[n] EXCEPT ![k] = 0]
      /\ Sends(n, DOMAIN known[n], Messages(FALSE, T))
  BY DestroyIs
<1>2. \A l \in Kinds : local'[n][l] = IF l = k THEN 0 ELSE local[n][l]
  BY <1>1, OwnIs
<1>3. T \subseteq Own(n) /\ \A e \in T : e.kind = k
  OBVIOUS
<1> HIDE DEF T
<1>4. SUFFICES ASSUME NEW x \in Nodes, NEW y \in Nodes PROVE Chan(x, y)'
  BY DEF Channels
<1>5. CASE x # n
  <2>1. net'[<<x, y>>] = net[<<x, y>>]
    BY <1>1, <1>5 DEF Sends
  <2>2. eid'[x] = eid[x] /\ Of(x, found'[y]) = Of(x, found[y])
        /\ (\A l \in Kinds : local'[x][l] = local[x][l] \/ local'[x][l] = 0)
        /\ (y \in DOMAIN known'[x] => y \in DOMAIN known[x])
    BY <1>1, <1>5
  <2>3. QED
    BY <2>1, <2>2, KeptChan
<1>6. CASE x = n /\ y \in DOMAIN known[n] /\ y \notin Up
  <2>1. status[y] # "up"
    BY <1>6 DEF Up
  <2>2. net'[<<x, y>>] = <<>>
    <3>1. net[<<x, y>>] = <<>>
      BY <2>1 DEF Absent
    <3>2. net'[<<x, y>>] = net[<<x, y>>]
      BY <1>1, <1>6 DEF Sends
    <3>3. QED
      BY <3>1, <3>2
  <2>3. found'[y] = {}
    BY <1>1, <2>1 DEF Absent
  <2>4. QED
    BY <2>2, <2>3, EmptyChan
<1>7. CASE x = n /\ y \notin DOMAIN known[n]
  <2>1. net'[<<x, y>>] = net[<<x, y>>]
    BY <1>1, <1>7 DEF Sends
  <2>2. eid'[x] = eid[x] /\ Of(x, found'[y]) = Of(x, found[y])
        /\ (\A l \in Kinds : local'[x][l] = local[x][l] \/ local'[x][l] = 0)
        /\ (y \in DOMAIN known'[x] => y \in DOMAIN known[x])
    BY <1>1, <1>2, <1>7
  <2>3. QED
    BY <2>1, <2>2, KeptChan
<1>8. CASE x = n /\ y \in DOMAIN known[n] /\ y \in Up
  <2>1. net'[<<n, y>>] = net[<<n, y>>] \o Messages(FALSE, T)
    BY <1>1, <1>8 DEF Sends
  <2>2. eid'[n] = eid[n] /\ Of(n, found'[y]) = Of(n, found[y])
    BY <1>1
  <2>3. \A l \in Kinds : local'[n][l] = 0 \/ (local'[n][l] = local[n][l] /\ \A e \in T : e.kind # l)
    BY <1>2, <1>3
  <2>4. Chan(n, y)'
    BY <1>3, <1>8, <2>1, <2>2, <2>3, RetractedChan
  <2>5. QED
    BY <1>8, <2>4
<1>9. QED
  BY <1>5, <1>6, <1>7, <1>8

LEMMA HearNewChannels ==
  ASSUME TypeOK, Presence, Channels, NEW n \in Nodes, NEW m \in Nodes, HearNew(n, m)
  PROVE  Channels'
<1> USE DEF Presence
<1> DEFINE r == Messages(TRUE, Own(n))
<1>1. /\ status[n] = "up" /\ m # n /\ m \notin DOMAIN known[n] /\ UNCHANGED <<status, found, local, eid>>
      /\ \A x \in Nodes : DOMAIN known'[x] = IF x = n THEN DOMAIN known[n] \cup {m} ELSE DOMAIN known[x]
      /\ Sends(n, {m}, r)
  BY HearNewIs
<1> HIDE DEF r
<1>2. SUFFICES ASSUME NEW x \in Nodes, NEW y \in Nodes PROVE Chan(x, y)'
  BY DEF Channels
<1>3. CASE x # n \/ y # m
  <2>1. net'[<<x, y>>] = net[<<x, y>>]
    BY <1>1, <1>3 DEF Sends
  <2>2. eid'[x] = eid[x] /\ Of(x, found'[y]) = Of(x, found[y])
        /\ (\A l \in Kinds : local'[x][l] = local[x][l] \/ local'[x][l] = 0)
        /\ (y \in DOMAIN known'[x] => y \in DOMAIN known[x])
    BY <1>1, <1>3
  <2>3. QED
    BY <2>1, <2>2, KeptChan
<1>4. CASE x = n /\ y = m /\ m \notin Up
  <2>1. status[y] # "up"
    BY <1>4 DEF Up
  <2>2. net'[<<x, y>>] = <<>>
    <3>1. net[<<x, y>>] = <<>>
      BY <2>1 DEF Absent
    <3>2. net'[<<x, y>>] = net[<<x, y>>]
      BY <1>1, <1>4 DEF Sends
    <3>3. QED
      BY <3>1, <3>2
  <2>3. found'[y] = {}
    BY <1>1, <2>1 DEF Absent
  <2>4. QED
    BY <2>2, <2>3, EmptyChan
<1>5. CASE x = n /\ y = m /\ m \in Up
  <2> DEFINE q == net[<<n, m>>]
             F == Of(n, found[m])
  <2>1. /\ q \in Seq(Datagrams) /\ F \in SUBSET Endpoints
        /\ local[n] \in [Kinds -> Nat] /\ local[n] \in [Kinds -> 0 .. MaxEid] /\ eid[n] \in Nat
        /\ \A l \in Kinds : local[n][l] # 0 => local[n][l] < eid[n]
        /\ Channel(q, F, n, local[n], {}, eid[n])
    BY <1>1, PairIs DEF KindsTold
  <2>2. Batch(r, TRUE, n, local[n]) /\ About(r) = Own(n)
    <3>1. \A d \in Own(n) : d.kind \in Kinds /\ local[n][d.kind] # 0 /\ d = LocalEndpoint(n, d.kind, local[n][d.kind])
      BY OwnIs
    <3>2. QED
      BY ZenonT(120), <2>1, <3>1, MessagesAre DEF r
  <2>3. \A k \in Kinds : k \in KindsOf(r) \/ local[n][k] = 0
    <3>1. \A k \in Kinds : local[n][k] # 0 => LocalEndpoint(n, k, local[n][k]) \in About(r)
      BY <2>2, OwnIs
    <3>2. \A k \in Kinds : LocalEndpoint(n, k, local[n][k]).kind = k
      BY DEF LocalEndpoint
    <3>3. QED
      BY <3>1, <3>2 DEF About, KindsOf
  <2>4. net'[<<n, m>>] = q \o r /\ Of(n, found'[m]) = F /\ m \in DOMAIN known'[n]
    BY <1>1, <1>5 DEF Sends
  <2> HIDE DEF q, F
  <2>5. Channel(q \o r, F, n, local[n], {} \cup KindsOf(r), eid[n])
    BY <2>1, <2>2, AnnounceChannel
  <2>6. Channel(q \o r, F, n, local[n], Kinds, eid[n])
    BY <2>3, <2>5, LessChannel
  <2>7. QED
    BY <1>1, <1>5, <2>4, <2>6 DEF Chan
<1>6. QED
  BY <1>3, <1>4, <1>5

(* The sender of a datagram, and what is left when it is read.             *)
LEMMA ReadsChannels ==
  ASSUME TypeOK, Presence, Channels, NEW n \in Nodes, NEW m \in Nodes,
         NEW msg, msg = net[<<m, n>>][1],
         NEW G, NEW M, Reads(n, m, G, M),
         G = IF msg.add THEN found[n] \cup {msg.ep} ELSE found[n] \ {msg.ep}
  PROVE  Channels' /\ msg.ep.node = m
<1> USE DEF Presence
<1> DEFINE q == net[<<m, n>>]
           F == Of(m, found[n])
           K == KindsTold(m, n)
<1>1. /\ q \in Seq(Datagrams) /\ F \in SUBSET Endpoints
      /\ local[m] \in [Kinds -> Nat] /\ eid[m] \in Nat
      /\ \A k \in Kinds : local[m][k] # 0 => LocalEndpoint(m, k, local[m][k]) \in Endpoints
      /\ Channel(q, F, m, local[m], K, eid[m])
  BY PairIs
<1>2. q # <<>> /\ q[1] = msg /\ 1 \in DOMAIN q
  <2>1. q # <<>> /\ q[1] = msg
    BY DEF Reads
  <2>2. QED
    BY <1>1, <2>1
<1>3. msg.ep.node = m
  BY <1>1, <1>2 DEF Channel
<1>4. ASSUME NEW x \in Nodes, NEW y \in Nodes PROVE Chan(x, y)'
  <2>1. /\ UNCHANGED <<status, known, local, eid>>
        /\ found'[y] = IF y = n THEN G ELSE found[y]
        /\ net'[<<x, y>>] = IF x = m /\ y = n THEN Tail(net[<<m, n>>]) ELSE net[<<x, y>>]
    BY DEF Reads
  <2>2. CASE x # m \/ y # n
    <3>1. Of(x, found'[y]) = Of(x, found[y])
      BY <1>3, <2>1, <2>2 DEF Of
    <3>2. QED
      BY <2>1, <2>2, <3>1, KeptChan
  <2>3. CASE x = m /\ y = n
    <3> DEFINE H == Of(m, found'[n])
    <3>1. H = IF q[1].add THEN F \cup {q[1].ep} ELSE F \ {q[1].ep}
      BY <1>2, <1>3, <2>1, <2>3 DEF Of
    <3>2. net'[<<m, n>>] = Tail(q)
      BY <2>1, <2>3
    <3> HIDE DEF H, F, q, K
    <3>3. Channel(Tail(q), H, m, local[m], K, eid[m])
      BY <1>1, <1>2, <3>1, ReadChannel
    <3>4. QED
      BY <2>1, <2>3, <3>2, <3>3 DEF Chan, H, K, KindsTold
  <2>4. QED
    BY <2>2, <2>3
<1>5. QED
  BY <1>3, <1>4 DEF Channels

LEMMA DetectChannels ==
  ASSUME TypeOK, Presence, Channels, NEW n \in Nodes, HeartbeatDetect(n)
  PROVE  Channels'
<1> USE DEF Presence
<1> DEFINE D == TimedOut(n)
<1>1. /\ UNCHANGED <<local, eid, net>>
      /\ \A x \in Nodes :
           /\ DOMAIN known'[x] = IF x = n THEN DOMAIN known[n] \ D ELSE DOMAIN known[x]
           /\ found'[x] = IF x = n THEN {e \in found[n] : e.node \notin D} ELSE found[x]
  BY DetectIs
<1> HIDE DEF D
<1>2. SUFFICES ASSUME NEW x \in Nodes, NEW y \in Nodes PROVE Chan(x, y)'
  BY DEF Channels
<1>3. Of(x, found'[y]) = Of(x, found[y]) \/ Of(x, found'[y]) = {}
  <2>1. CASE y # n
    BY <1>1, <2>1
  <2>2. CASE y = n /\ x \in D
    BY <1>1, <2>2 DEF Of
  <2>3. CASE y = n /\ x \notin D
    BY <1>1, <2>3 DEF Of
  <2>4. QED
    BY <2>1, <2>2, <2>3
<1>4. QED
  BY <1>1, <1>3, KeptChan

LEMMA GoesChannels ==
  ASSUME TypeOK, Presence, Channels, NEW n \in Nodes, NEW how, NEW T, NEW r, Goes(n, how, T, r),
         T = {} \/ (T = DOMAIN known[n] /\ r = Messages(FALSE, Own(n)))
  PROVE  Channels'
<1> USE DEF Presence
<1>1. SUFFICES ASSUME NEW x \in Nodes, NEW y \in Nodes PROVE Chan(x, y)'
  BY DEF Channels
<1>2. CASE y = n
  BY <1>2, EmptyChan DEF Goes
<1>3. CASE y # n /\ (x # n \/ y \notin T \/ y \notin Up)
  <2>1. /\ net'[<<x, y>>] = net[<<x, y>>] /\ eid' = eid /\ found'[y] = found[y]
        /\ local'[x] = IF x = n THEN [k \in Kinds |-> 0] ELSE local[x]
        /\ DOMAIN known'[x] = IF x = n THEN {} ELSE DOMAIN known[x]
    BY <1>3 DEF Goes
  <2>2. QED
    BY <2>1, KeptChan
<1>4. CASE y # n /\ x = n /\ y \in T /\ y \in Up
  <2>1. /\ net'[<<n, y>>] = net[<<n, y>>] \o Messages(FALSE, Own(n)) /\ y \in DOMAIN known[n]
        /\ eid' = eid /\ found'[y] = found[y] /\ local'[n] = [k \in Kinds |-> 0]
    BY ZenonT(120), <1>4 DEF Goes
  <2>2. QED
    BY ZenonT(60), <2>1, <1>4, RetractedChan
<1>5. QED
  BY <1>2, <1>3, <1>4

LEMMA SameChannels ==
  ASSUME TypeOK, Presence, Channels, UNCHANGED <<found, local, eid, net>>,
         \A x \in Nodes : DOMAIN known'[x] = DOMAIN known[x]
  PROVE  Channels'
BY KeptChan DEF Channels, Presence

LEMMA ChannelsHold ==
  ASSUME TypeOK, Presence, Channels, [Next]_vars
  PROVE  Channels'
<1>1. ASSUME NEW n \in Nodes, Start(n) PROVE Channels'
  BY <1>1, StartIs, SameChannels
<1>2. ASSUME NEW n \in Nodes, NEW m \in Nodes, EndpointAdded(n, m) PROVE Channels'
  <2> DEFINE msg == net[<<m, n>>][1]
  <2>1. PICK M : Reads(n, m, found[n] \cup {msg.ep}, M)
    BY SMTT(30), <1>2, AddedIs
  <2>2. msg.add
    <3>1. Head(net[<<m, n>>]) = msg
      BY <1>2, HeadIs DEF EndpointAdded
    <3>2. QED
      BY <1>2, <3>1 DEF EndpointAdded
  <2> HIDE DEF msg
  <2>3. QED
    BY <2>1, <2>2, ReadsChannels DEF msg
<1>3. ASSUME NEW n \in Nodes, NEW m \in Nodes, EndpointRemoved(n, m) PROVE Channels'
  <2> DEFINE msg == net[<<m, n>>][1]
  <2>1. PICK M : Reads(n, m, found[n] \ {msg.ep}, M)
    BY ZenonT(60), <1>3, RemovedIs
  <2>2. ~msg.add
    <3>1. Head(net[<<m, n>>]) = msg
      BY <1>3, HeadIs DEF EndpointRemoved
    <3>2. QED
      BY <1>3, <3>1 DEF EndpointRemoved
  <2> HIDE DEF msg
  <2>3. QED
    BY <2>1, <2>2, ReadsChannels DEF msg
<1>4. ASSUME NEW n \in Nodes, Shutdown(n) PROVE Channels'
  BY <1>4, ShutdownIs, GoesChannels
<1>5. ASSUME NEW n \in Nodes, Crash(n) PROVE Channels'
  BY <1>5, CrashIs, GoesChannels
<1>6. ASSUME NEW n \in Nodes, NEW m \in Nodes, HearAgain(n, m) \/ Timeout(n, m) \/ EchoFades(n, m)
      PROVE  Channels'
  BY <1>6, QuietSteps, SameChannels DEF Quiet
<1>7. CASE UNCHANGED vars
  BY <1>7, SameChannels DEF vars, tables
<1>8. QED
  BY <1>1, <1>2, <1>3, <1>4, <1>5, <1>6, <1>7,
     CreateChannels, DestroyChannels, HearNewChannels, DetectChannels DEF Next, Progress

-----------------------------------------------------------------------------
(* The caches of the local endpoints *)

Cached(n, k) ==
  deaf[n] \/ match[n][k] = IF local[n][k] = 0 THEN {} ELSE Matching(n, k, found[n])

LEMMA CacheIs == CacheAgrees <=> \A n \in Nodes, k \in Kinds : Cached(n, k)
BY DEF CacheAgrees, Cached

LEMMA KeptCached ==
  ASSUME CacheAgrees, NEW n \in Nodes, NEW k \in Kinds,
         deaf'[n] = deaf[n], match'[n][k] = match[n][k], local'[n][k] = local[n][k], found'[n] = found[n]
  PROVE  Cached(n, k)'
<1>1. Cached(n, k)
  BY CacheIs
<1>2. QED
  BY <1>1 DEF Cached, Matching, OfKind

LEMMA MatchingMore ==
  ASSUME NEW n, NEW k \in Kinds, NEW S, NEW e, e.kind \in Kinds, NEW T, T = S \cup {e}
  PROVE  Matching(n, k, T) =
           IF k = Opposite(e.kind) THEN Matching(n, k, S) \cup Matching(n, k, {e}) ELSE Matching(n, k, S)
BY OppositeIs DEF Matching, OfKind, Kinds, Opposite

LEMMA MatchingOther ==
  ASSUME NEW n, NEW k \in Kinds, NEW S, NEW e, e.kind \in Kinds, k # Opposite(e.kind)
  PROVE  Matching(n, k, S \ {e}) = Matching(n, k, S)
BY OppositeIs DEF Matching, OfKind, Kinds, Opposite

(* DataWriterBase::remove and DataReaderBase::remove take no endpoint that *)
(* is still there.                                                         *)
LEMMA ErasedMatching ==
  ASSUME NEW n, NEW k \in Kinds, NEW S, NEW e, e.kind \in Kinds, k = Opposite(e.kind),
         e \in S \/ \A x \in Of(e.node, S) : x.kind # e.kind
  PROVE  Erase(Matching(n, k, S), e) = Matching(n, k, S \ {e})
<1>1. Opposite(k) = e.kind
  BY OppositeIs
<1>2. \A x \in Matching(n, k, S) : x \in S /\ x.kind = e.kind /\ (k = "Writer" \/ HostOf[x.node] = HostOf[n])
  BY <1>1 DEF Matching, OfKind
<1>3. CASE e \in Matching(n, k, S)
  BY <1>3 DEF Erase, Matching, OfKind
<1>4. CASE e \notin Matching(n, k, S)
  <2>1. Of(e.node, Matching(n, k, S)) = {}
    <3>1. CASE e \in S
      <4>1. ~(k = "Writer" \/ HostOf[e.node] = HostOf[n])
        BY <1>1, <1>4, <3>1 DEF Matching, OfKind
      <4>2. QED
        BY <1>2, <4>1 DEF Of
    <3>2. CASE e \notin S
      BY <1>2, <3>2 DEF Of
    <3>3. QED
      BY <3>1, <3>2
  <2>2. QED
    BY <1>4, <2>1 DEF Erase, Matching, OfKind
<1>5. QED
  BY <1>3, <1>4

LEMMA CacheHolds ==
  ASSUME TypeOK, Presence, Channels, CacheAgrees, [Next]_vars
  PROVE  CacheAgrees'
<1> USE DEF Presence
<1>1. SUFFICES \A x \in Nodes, l \in Kinds : Cached(x, l)'
  BY DEF CacheAgrees, Cached, Matching, OfKind
<1>2. ASSUME UNCHANGED <<found, match, local, deaf>> PROVE \A x \in Nodes, l \in Kinds : Cached(x, l)'
  BY <1>2, KeptCached
<1>3. ASSUME NEW n \in Nodes, NEW k \in Kinds, Create(n, k) PROVE \A x \in Nodes, l \in Kinds : Cached(x, l)'
  <2>1. /\ UNCHANGED <<found, deaf>> /\ eid[n] # 0
        /\ \A x \in Nodes : x # n => local'[x] = local[x] /\ match'[x] = match[x]
        /\ local'[n] = [local[n] EXCEPT ![k] = eid[n]]
        /\ match'[n] = [match[n] EXCEPT ![k] = Matching(n, k, found[n])]
    <3>1. eid[n] \in 1 .. MaxEid
      BY <1>3, CreateIs
    <3>2. eid[n] # 0
      BY <3>1, BoundsAssumption
    <3>3. QED
      BY <1>3, <3>2, CreateIs
  <2>2. local[n] \in [Kinds -> Nat] /\ match[n] \in [Kinds -> SUBSET Endpoints]
    BY OwnIs DEF TypeOK
  <2>3. TAKE x \in Nodes, l \in Kinds
  <2>4. CASE x = n /\ l = k
    <3>1. local'[n][k] = eid[n] /\ match'[n][k] = Matching(n, k, found[n])
      BY <2>1, <2>2
    <3>2. QED
      BY <2>1, <2>4, <3>1 DEF Cached, Matching, OfKind
  <2>5. CASE x # n \/ l # k
    <3>1. local'[x][l] = local[x][l] /\ match'[x][l] = match[x][l]
      BY <2>1, <2>2, <2>5
    <3>2. QED
      BY <2>1, <3>1, KeptCached
  <2>6. QED
    BY <2>4, <2>5
<1>4. ASSUME NEW n \in Nodes, NEW k \in Kinds, Destroy(n, k) PROVE \A x \in Nodes, l \in Kinds : Cached(x, l)'
  <2>1. /\ UNCHANGED <<found, deaf>>
        /\ \A x \in Nodes : x # n => local'[x] = local[x] /\ match'[x] = match[x]
        /\ local'[n] = [local[n] EXCEPT ![k] = 0]
        /\ match'[n] = [match[n] EXCEPT ![k] = {}]
    BY <1>4, DestroyIs
  <2>2. local[n] \in [Kinds -> Nat] /\ match[n] \in [Kinds -> SUBSET Endpoints]
    BY OwnIs DEF TypeOK
  <2>3. TAKE x \in Nodes, l \in Kinds
  <2>4. CASE x = n /\ l = k
    <3>1. local'[n][k] = 0 /\ match'[n][k] = {}
      BY <2>1, <2>2
    <3>2. QED
      BY <2>4, <3>1 DEF Cached
  <2>5. CASE x # n \/ l # k
    <3>1. local'[x][l] = local[x][l] /\ match'[x][l] = match[x][l]
      BY <2>1, <2>2, <2>5
    <3>2. QED
      BY <2>1, <3>1, KeptCached
  <2>6. QED
    BY <2>4, <2>5
<1>5. ASSUME NEW n \in Nodes, NEW m \in Nodes, EndpointAdded(n, m) PROVE \A x \in Nodes, l \in Kinds : Cached(x, l)'
  <2> DEFINE e == net[<<m, n>>][1].ep
             k == Opposite(e.kind)
             G == found[n] \cup {e}
  <2>1. PICK M : Reads(n, m, G, M) /\ Matches(n, k, e, M)
    BY SMTT(30), <1>5, AddedIs
  <2>2. e.kind \in Kinds
    BY <1>5, HeadIs DEF EndpointAdded
  <2>3. k = Opposite(e.kind)
    OBVIOUS
  <2>4. /\ ~deaf[n] /\ UNCHANGED local
        /\ \A x \in Nodes : x # n => found'[x] = found[x] /\ match'[x] = match[x] /\ deaf'[x] = deaf[x]
        /\ found'[n] = G /\ match'[n] = M
    BY <2>1 DEF Reads
  <2> HIDE DEF k, e
  <2>5. TAKE x \in Nodes, l \in Kinds
  <2>6. CASE x # n
    BY <2>4, <2>6, KeptCached
  <2>7. CASE x = n /\ ~deaf'[n]
    <3>1. M[l] = IF l = k /\ local[n][l] # 0 THEN match[n][l] \cup Matching(n, l, {e}) ELSE match[n][l]
      BY <2>1, <2>7 DEF Matches
    <3>2. match[n][l] = IF local[n][l] = 0 THEN {} ELSE Matching(n, l, found[n])
      BY <2>4 DEF CacheAgrees
    <3>3. Matching(n, l, G) = IF l = k THEN Matching(n, l, found[n]) \cup Matching(n, l, {e}) ELSE Matching(n, l, found[n])
      BY SMTT(30), <2>2, <2>3, MatchingMore
    <3> HIDE DEF G
    <3>4. match'[n][l] = IF local[n][l] = 0 THEN {} ELSE Matching(n, l, G)
      BY <2>4, <3>1, <3>2, <3>3
    <3>5. QED
      BY <2>4, <2>7, <3>4 DEF Cached, Matching, OfKind
  <2>8. CASE x = n /\ deaf'[n]
    BY <2>8 DEF Cached
  <2>9. QED
    BY <2>6, <2>7, <2>8
<1>6. ASSUME NEW n \in Nodes, NEW m \in Nodes, EndpointRemoved(n, m) PROVE \A x \in Nodes, l \in Kinds : Cached(x, l)'
  <2> DEFINE q == net[<<m, n>>]
             e == q[1].ep
             k == Opposite(e.kind)
             G == found[n] \ {e}
             A == IF local[n][k] # 0 THEN Erase(match[n][k], e) ELSE match[n][k]
             M == [match[n] EXCEPT ![k] = A]
  <2>1. Reads(n, m, G, M) /\ deaf' = deaf
    BY <1>6, RemovedIs
  <2>2. match[n] \in [Kinds -> SUBSET Endpoints]
    BY DEF TypeOK
  <2>3. e.kind \in Kinds /\ ~q[1].add /\ e \in Endpoints
    BY <1>6, HeadIs DEF EndpointRemoved
  <2>4. k \in Kinds
    BY SMTT(30), <2>3, OppositeIs
  <2>5. /\ UNCHANGED <<local, deaf>>
        /\ \A x \in Nodes : x # n => found'[x] = found[x] /\ match'[x] = match[x]
        /\ found'[n] = G /\ match'[n] = M
    BY <2>1 DEF Reads
  <2>6. e \in found[n] \/ \A x \in Of(e.node, found[n]) : x.kind # e.kind
    <3>1. /\ q \in Seq(Datagrams)
          /\ Channel(q, Of(m, found[n]), m, local[m], KindsTold(m, n), eid[m])
      BY PairIs
    <3>2. 1 \in DOMAIN q
      <4>1. q # <<>>
        BY <2>1 DEF Reads
      <4>2. QED
        BY <3>1, <4>1
    <3>3. Removable(q, Of(m, found[n]), e, 1) /\ e.node = m
      BY <2>3, <3>1, <3>2 DEF Channel, RemovesWhole
    <3>4. \A j \in DOMAIN q : ~(j < 1)
      BY <3>1
    <3>5. QED
      BY <3>3, <3>4 DEF Removable, Of
  <2>7. TAKE x \in Nodes, l \in Kinds
  <2>8. CASE x # n
    BY <2>5, <2>8, KeptCached
  <2>9. CASE x = n /\ ~deaf[n]
    <3>1. M[l] = IF l = k THEN A ELSE match[n][l]
      BY <2>2
    <3>2. match[n][l] = IF local[n][l] = 0 THEN {} ELSE Matching(n, l, found[n])
      BY <2>9 DEF CacheAgrees
    <3>3. l # k => Matching(n, l, G) = Matching(n, l, found[n])
      BY <2>3, MatchingOther
    <3>4. l = k => Erase(Matching(n, l, found[n]), e) = Matching(n, l, G)
      BY <2>3, <2>6, ErasedMatching
    <3> HIDE DEF M, k, G, e, q
    <3>5. match'[n][l] = IF local[n][l] = 0 THEN {} ELSE Matching(n, l, G)
      BY <2>5, <3>1, <3>2, <3>3, <3>4
    <3>6. QED
      BY <2>5, <2>9, <3>5 DEF Cached, Matching, OfKind
  <2>10. CASE x = n /\ deaf[n]
    BY <2>5, <2>10 DEF Cached
  <2>11. QED
    BY <2>8, <2>9, <2>10
<1>7. ASSUME NEW n \in Nodes, HeartbeatDetect(n) PROVE \A x \in Nodes, l \in Kinds : Cached(x, l)'
  <2> DEFINE D == TimedOut(n)
             G == {e \in found[n] : e.node \notin D}
  <2>1. /\ UNCHANGED <<local, deaf>>
        /\ \A x \in Nodes : x # n => found'[x] = found[x] /\ match'[x] = match[x]
        /\ found'[n] = G
        /\ match'[n] = [k \in Kinds |-> {e \in match[n][k] : e.node \notin D}]
    BY ZenonT(120), <1>7, DetectIs
  <2>2. TAKE x \in Nodes, l \in Kinds
  <2>3. CASE x # n
    BY <2>1, <2>3, KeptCached
  <2>4. CASE x = n
    <3>1. match'[n][l] = {e \in match[n][l] : e.node \notin D}
      BY <2>1
    <3>2. deaf[n] \/ match[n][l] = IF local[n][l] = 0 THEN {} ELSE Matching(n, l, found[n])
      BY DEF CacheAgrees
    <3> HIDE DEF D
    <3>3. Matching(n, l, G) = {e \in Matching(n, l, found[n]) : e.node \notin D}
      BY DEF Matching, OfKind
    <3>4. deaf[n] \/ match'[n][l] = IF local[n][l] = 0 THEN {} ELSE Matching(n, l, G)
      BY <3>1, <3>2, <3>3
    <3>5. QED
      BY <2>1, <2>4, <3>4 DEF Cached, Matching, OfKind
  <2>5. QED
    BY <2>3, <2>4
<1>8. ASSUME NEW n \in Nodes, NEW how, NEW T, NEW r, Goes(n, how, T, r) PROVE \A x \in Nodes, l \in Kinds : Cached(x, l)'
  <2>1. TAKE x \in Nodes, l \in Kinds
  <2>2. CASE x # n
    <3>1. deaf'[x] = deaf[x] /\ match'[x][l] = match[x][l] /\ local'[x][l] = local[x][l] /\ found'[x] = found[x]
      BY <1>8, <2>2 DEF Goes
    <3>2. Cached(x, l)
      BY DEF Cached, CacheAgrees
    <3>3. QED
      BY <3>1, <3>2 DEF Cached, Matching, OfKind
  <2>3. CASE x = n
    <3>1. match'[n][l] = {} /\ local'[n][l] = 0
      BY <1>8 DEF Goes
    <3>2. QED
      BY <2>3, <3>1 DEF Cached
  <2>4. QED
    BY <2>2, <2>3
<1>9. ASSUME NEW n \in Nodes, Start(n) PROVE \A x \in Nodes, l \in Kinds : Cached(x, l)'
  BY <1>2, <1>9, StartIs
<1>10. ASSUME NEW n \in Nodes, NEW m \in Nodes, HearNew(n, m) PROVE \A x \in Nodes, l \in Kinds : Cached(x, l)'
  BY <1>2, <1>10, HearNewIs
<1>11. ASSUME NEW n \in Nodes, NEW m \in Nodes, HearAgain(n, m) \/ Timeout(n, m) \/ EchoFades(n, m)
       PROVE  \A x \in Nodes, l \in Kinds : Cached(x, l)'
  BY <1>2, <1>11, QuietSteps DEF Quiet
<1>12. ASSUME NEW n \in Nodes, Shutdown(n) \/ Crash(n) PROVE \A x \in Nodes, l \in Kinds : Cached(x, l)'
  BY <1>8, <1>12, ShutdownIs, CrashIs
<1>13. CASE UNCHANGED vars
  BY <1>2, <1>13 DEF vars, tables
<1>14. QED
  BY <1>3, <1>4, <1>5, <1>6, <1>7, <1>9, <1>10, <1>11, <1>12, <1>13 DEF Next, Progress

-----------------------------------------------------------------------------
(* What a node will have discovered *)

Told(n, m) ==
  /\ n # m /\ m \in Up
  /\ <<n, m>> \notin wrong /\ <<m, n>> \notin wrong
  /\ status[n] \in {"up", "left"}
  => View(m, n) = IF m \in DOMAIN known[n] THEN Own(n) ELSE {}

LEMMA InformedIs == Informed <=> \A n, m \in Nodes : Told(n, m)
BY DEF Informed, Told, Up

LEMMA KeptTold ==
  ASSUME Informed, NEW n \in Nodes, NEW m \in Nodes, status'[n] = status[n], status'[m] = status[m],
         wrong \subseteq wrong', View(m, n)' = View(m, n), local'[n] = local[n],
         m \in DOMAIN known'[n] <=> m \in DOMAIN known[n]
  PROVE  Told(n, m)'
<1>1. Own(n)' = Own(n)
  BY DEF Own
<1>2. m \in Up' <=> m \in Up
  BY DEF Up
<1>3. Told(n, m)
  BY InformedIs
<1>4. QED
  BY <1>1, <1>2, <1>3 DEF Told

LEMMA SameView ==
  ASSUME NEW n \in Nodes, NEW m \in Nodes,
         net'[<<n, m>>] = net[<<n, m>>], Of(n, found'[m]) = Of(n, found[m])
  PROVE  View(m, n)' = View(m, n)
BY DEF View, Final

LEMMA StartInformed ==
  ASSUME TypeOK, Presence, Informed, NEW n \in Nodes, Start(n)
  PROVE  Informed'
<1> USE DEF Presence
<1>1. /\ status[n] = "off" /\ UNCHANGED <<known, found, local, net, wrong>>
      /\ \A x \in Nodes : status'[x] = IF x = n THEN "up" ELSE status[x]
  BY StartIs
<1>2. SUFFICES ASSUME NEW x \in Nodes, NEW y \in Nodes PROVE Told(x, y)'
  BY DEF Informed, Told, Up
<1>3. CASE x # n /\ y # n
  <2>1. View(y, x)' = View(y, x)
    BY <1>1, SameView
  <2>2. QED
    BY <1>1, <1>3, <2>1, KeptTold
<1>4. CASE x = n \/ y = n
  <2>1. net[<<x, y>>] = <<>>
    BY <1>1, <1>4 DEF Absent, Unheard
  <2>2. Of(x, found[y]) = {}
    <3>1. CASE x = n
      BY <1>1, <3>1 DEF Unheard
    <3>2. CASE y = n
      BY <1>1, <3>2 DEF Absent, Of
    <3>3. QED
      BY <1>4, <3>1, <3>2
  <2>3. View(y, x)' = {}
    <3>1. net'[<<x, y>>] = <<>> /\ Of(x, found'[y]) = {}
      BY <1>1, <2>1, <2>2
    <3>2. Final(<<>>, {}) = {}
      BY FinalEmpty
    <3>3. QED
      BY <3>1, <3>2 DEF View, Final
  <2>4. y \notin DOMAIN known'[x]
    BY <1>1, <1>4 DEF Absent, Unheard
  <2>5. QED
    BY <2>3, <2>4 DEF Told
<1>5. QED
  BY <1>3, <1>4

(* What n tells y of its endpoints.                                        *)
NextView(m, n) == Final(net'[<<n, m>>], Of(n, found'[m]))

Adds(n, m, T) == net'[<<n, m>>] = net[<<n, m>>] \o Messages(TRUE, T)

Removes(n, m, T) == net'[<<n, m>>] = net[<<n, m>>] \o Messages(FALSE, T)

LEMMA AnnouncedView ==
  ASSUME TypeOK, NEW n \in Nodes, NEW y \in Nodes, NEW loc \in [Kinds -> 0 .. MaxEid], NEW T,
         \A d \in T : d.kind \in Kinds /\ loc[d.kind] # 0 /\ d = LocalEndpoint(n, d.kind, loc[d.kind]),
         Adds(n, y, T), Of(n, found'[y]) = Of(n, found[y])
  PROVE  NextView(y, n) = View(y, n) \cup T
<1> DEFINE q == net[<<n, y>>]
           F == Of(n, found[y])
           r == Messages(TRUE, T)
<1>1. Batch(r, TRUE, n, loc) /\ About(r) = T
  BY ZenonT(120), MessagesAre
<1>2. q \in Seq(Datagrams) /\ F \in SUBSET Endpoints
  BY ChannelTypes
<1> HIDE DEF q, F, r
<1>3. Final(q \o r, F) = Final(q, F) \cup T
  <2>1. r \in Seq(Datagrams) /\ (\A i \in DOMAIN r : r[i].add)
        /\ \A i, j \in DOMAIN r : i # j => r[i].ep # r[j].ep
    BY <1>1 DEF Batch
  <2>2. Final(q \o r, F) = Final(q, F) \cup About(r)
    BY ZenonT(120), <1>2, <2>1, FinalAppended
  <2>3. QED
    BY <1>1, <2>2
<1>4. net'[<<n, y>>] = q \o r /\ Of(n, found'[y]) = F
  BY DEF q, F, r, Adds
<1>5. View(y, n) = Final(q, F)
  BY DEF View, q, F
<1>6. NextView(y, n) = Final(q \o r, F)
  BY <1>4 DEF NextView
<1>7. QED
  BY <1>3, <1>5, <1>6

LEMMA RetractedView ==
  ASSUME TypeOK, NEW n \in Nodes, NEW y \in Nodes, NEW loc \in [Kinds -> 0 .. MaxEid], NEW T,
         \A d \in T : d.kind \in Kinds /\ loc[d.kind] # 0 /\ d = LocalEndpoint(n, d.kind, loc[d.kind]),
         Removes(n, y, T), Of(n, found'[y]) = Of(n, found[y])
  PROVE  NextView(y, n) = View(y, n) \ T
<1> DEFINE q == net[<<n, y>>]
           F == Of(n, found[y])
           r == Messages(FALSE, T)
<1>1. Batch(r, FALSE, n, loc) /\ About(r) = T
  BY MessagesAre
<1>2. q \in Seq(Datagrams) /\ F \in SUBSET Endpoints
  BY ChannelTypes
<1> HIDE DEF q, F, r
<1>3. Final(q \o r, F) = Final(q, F) \ T
  <2>1. r \in Seq(Datagrams) /\ (\A i \in DOMAIN r : ~r[i].add)
        /\ \A i, j \in DOMAIN r : i # j => r[i].ep # r[j].ep
    BY <1>1 DEF Batch
  <2>2. Final(q \o r, F) = Final(q, F) \ About(r)
    BY SMTT(30), <1>2, <2>1, FinalAppended
  <2>3. QED
    BY <1>1, <2>2
<1>4. net'[<<n, y>>] = q \o r /\ Of(n, found'[y]) = F
  BY DEF q, F, r, Removes
<1>5. View(y, n) = Final(q, F)
  BY DEF View, q, F
<1>6. NextView(y, n) = Final(q \o r, F)
  BY <1>4 DEF NextView
<1>7. QED
  BY <1>3, <1>5, <1>6

LEMMA CreateInformed ==
  ASSUME TypeOK, Presence, Informed, NEW n \in Nodes, NEW k \in Kinds, Create(n, k)
  PROVE  Informed'
<1> DEFINE v == eid[n]
           e == LocalEndpoint(n, k, v)
           new == [local[n] EXCEPT ![k] = v]
<1>1. /\ status[n] = "up" /\ local[n][k] = 0 /\ v \in 1 .. MaxEid
      /\ UNCHANGED <<status, known, found, wrong>>
      /\ \A x \in Nodes : x # n => local'[x] = local[x]
      /\ local'[n] = new
      /\ Sends(n, DOMAIN known[n], Messages(TRUE, {e}))
  BY CreateIs
<1>2. /\ new \in [Kinds -> 0 .. MaxEid] /\ v # 0
      /\ \A l \in Kinds : new[l] = IF l = k THEN v ELSE local[n][l]
  <2>1. local[n] \in [Kinds -> 0 .. MaxEid]
    BY OwnIs
  <2>2. QED
    BY <1>1, <2>1, BoundsAssumption
<1> HIDE DEF v, new
<1>3. SUFFICES ASSUME NEW x \in Nodes, NEW y \in Nodes PROVE Told(x, y)'
  BY DEF Informed, Told, Up
<1>4. CASE x # n
  <2>1. net'[<<x, y>>] = net[<<x, y>>] /\ Of(x, found'[y]) = Of(x, found[y])
    BY <1>1, <1>4 DEF Sends
  <2>2. View(y, x)' = View(y, x)
    BY <2>1, SameView
  <2>3. QED
    BY <1>1, <1>4, <2>2, KeptTold
<1>5. CASE x = n /\ y \notin DOMAIN known[n]
  <2>1. net'[<<x, y>>] = net[<<x, y>>] /\ Of(x, found'[y]) = Of(x, found[y])
    BY <1>1, <1>5 DEF Sends
  <2>2. View(y, x)' = View(y, x)
    BY <2>1, SameView
  <2>3. Told(x, y)
    BY InformedIs
  <2>4. QED
    BY <1>1, <1>5, <2>2, <2>3 DEF Told, Up
<1>6. CASE x = n /\ y \in DOMAIN known[n] /\ y \in Up
  <2>1. Adds(n, y, {e}) /\ Of(n, found'[y]) = Of(n, found[y])
    BY <1>1, <1>6 DEF Sends, Adds
  <2>2. \A d \in {e} : d.kind \in Kinds /\ new[d.kind] # 0 /\ d = LocalEndpoint(n, d.kind, new[d.kind])
    BY <1>2 DEF LocalEndpoint
  <2> HIDE DEF e
  <2>3. View(y, n)' = View(y, n) \cup {e}
    <3>1. PICK T : T = {e}
      OBVIOUS
    <3>2. \A d \in T : d.kind \in Kinds /\ new[d.kind] # 0 /\ d = LocalEndpoint(n, d.kind, new[d.kind])
      BY <2>2, <3>1
    <3>3. Adds(n, y, T) /\ Of(n, found'[y]) = Of(n, found[y])
      BY <2>1, <3>1
    <3>4. NextView(y, n) = View(y, n) \cup T
      BY <1>2, <3>2, <3>3, AnnouncedView
    <3>5. QED
      BY <3>1, <3>4 DEF NextView, View, Final
  <2>4. Own(n)' = Own(n) \cup {e}
    <3>1. Own(n)' = {[node |-> n, kind |-> l, id |-> new[l]] : l \in {l \in Kinds : new[l] # 0}}
      BY <1>1 DEF Own
    <3>2. Own(n) = {[node |-> n, kind |-> l, id |-> local[n][l]] : l \in {l \in Kinds : local[n][l] # 0}}
      BY DEF Own
    <3>3. e = [node |-> n, kind |-> k, id |-> new[k]] /\ new[k] # 0
      BY <1>2 DEF e, LocalEndpoint
    <3>4. {l \in Kinds : new[l] # 0} = {l \in Kinds : local[n][l] # 0} \cup {k}
      BY <1>1, <1>2
    <3>5. \A l \in {l \in Kinds : local[n][l] # 0} : new[l] = local[n][l]
      BY <1>1, <1>2
    <3>6. QED
      BY <3>1, <3>2, <3>3, <3>4, <3>5
  <2>5. Told(n, y)
    BY InformedIs
  <2>6. QED
    BY <1>1, <1>6, <2>3, <2>4, <2>5 DEF Told, Up
<1>7. CASE y \notin Up
  BY <1>1, <1>7 DEF Told, Up
<1>8. QED
  BY <1>4, <1>5, <1>6, <1>7

LEMMA DestroyInformed ==
  ASSUME TypeOK, Presence, Informed, NEW n \in Nodes, NEW k \in Kinds, Destroy(n, k)
  PROVE  Informed'
<1> DEFINE T == {e \in Own(n) : e.kind = k}
<1>1. /\ status[n] = "up" /\ UNCHANGED <<status, known, found, wrong>>
      /\ \A x \in Nodes : x # n => local'[x] = local[x]
      /\ local'[n] = [local[n] EXCEPT ![k] = 0]
      /\ Sends(n, DOMAIN known[n], Messages(FALSE, T))
  BY DestroyIs
<1>2. \A l \in Kinds : local'[n][l] = IF l = k THEN 0 ELSE local[n][l]
  BY <1>1, OwnIs
<1>3. Own(n)' = Own(n) \ T
  BY <1>2 DEF Own
<1>4. /\ local[n] \in [Kinds -> 0 .. MaxEid]
      /\ \A d \in T : d.kind \in Kinds /\ local[n][d.kind] # 0 /\ d = LocalEndpoint(n, d.kind, local[n][d.kind])
  BY OwnIs
<1> HIDE DEF T
<1>5. SUFFICES ASSUME NEW x \in Nodes, NEW y \in Nodes PROVE Told(x, y)'
  BY DEF Informed, Told, Up
<1>6. CASE x # n
  <2>1. net'[<<x, y>>] = net[<<x, y>>] /\ Of(x, found'[y]) = Of(x, found[y])
    BY <1>1, <1>6 DEF Sends
  <2>2. View(y, x)' = View(y, x)
    BY <2>1, SameView
  <2>3. QED
    BY <1>1, <1>6, <2>2, KeptTold
<1>7. CASE x = n /\ y \notin DOMAIN known[n]
  <2>1. net'[<<x, y>>] = net[<<x, y>>] /\ Of(x, found'[y]) = Of(x, found[y])
    BY <1>1, <1>7 DEF Sends
  <2>2. View(y, x)' = View(y, x)
    BY <2>1, SameView
  <2>3. Told(x, y)
    BY InformedIs
  <2>4. QED
    BY <1>1, <1>7, <2>2, <2>3 DEF Told, Up
<1>8. CASE x = n /\ y \in DOMAIN known[n] /\ y \in Up
  <2>1. Removes(n, y, T) /\ Of(n, found'[y]) = Of(n, found[y])
    BY <1>1, <1>8 DEF Sends, Removes
  <2>2. View(y, n)' = View(y, n) \ T
    <3>1. NextView(y, n) = View(y, n) \ T
      BY <1>4, <2>1, RetractedView
    <3>2. QED
      BY <3>1 DEF NextView, View, Final
  <2>3. Told(n, y)
    BY InformedIs
  <2>4. QED
    BY <1>1, <1>3, <1>8, <2>2, <2>3 DEF Told, Up
<1>9. CASE y \notin Up
  BY <1>1, <1>9 DEF Told, Up
<1>10. QED
  BY <1>6, <1>7, <1>8, <1>9

LEMMA HearNewInformed ==
  ASSUME TypeOK, Presence, Informed, NEW n \in Nodes, NEW m \in Nodes, HearNew(n, m)
  PROVE  Informed'
<1> USE DEF Presence
<1>1. /\ status[n] = "up" /\ m # n /\ m \notin DOMAIN known[n] /\ UNCHANGED <<status, found, local, wrong>>
      /\ \A x \in Nodes : DOMAIN known'[x] = IF x = n THEN DOMAIN known[n] \cup {m} ELSE DOMAIN known[x]
      /\ Sends(n, {m}, Messages(TRUE, Own(n)))
  BY HearNewIs
<1>2. SUFFICES ASSUME NEW x \in Nodes, NEW y \in Nodes PROVE Told(x, y)'
  BY DEF Informed, Told, Up
<1>3. CASE x # n \/ y # m
  <2>1. net'[<<x, y>>] = net[<<x, y>>] /\ Of(x, found'[y]) = Of(x, found[y])
    BY <1>1, <1>3 DEF Sends
  <2>2. View(y, x)' = View(y, x)
    BY <2>1, SameView
  <2>3. y \in DOMAIN known'[x] <=> y \in DOMAIN known[x]
    BY <1>1, <1>3
  <2>4. QED
    BY <1>1, <2>2, <2>3, KeptTold
<1>4. CASE x = n /\ y = m /\ m \in Up
  <2>1. Adds(n, m, Own(n)) /\ Of(n, found'[m]) = Of(n, found[m])
    BY <1>1, <1>4 DEF Sends, Adds
  <2>2. /\ local[n] \in [Kinds -> 0 .. MaxEid]
        /\ \A d \in Own(n) : d.kind \in Kinds /\ local[n][d.kind] # 0 /\ d = LocalEndpoint(n, d.kind, local[n][d.kind])
    BY OwnIs
  <2>3. View(m, n)' = View(m, n) \cup Own(n)
    <3>1. NextView(m, n) = View(m, n) \cup Own(n)
      BY <2>1, <2>2, AnnouncedView
    <3>2. QED
      BY <3>1 DEF NextView, View, Final
  <2>4. Own(n)' = Own(n) /\ m \in DOMAIN known'[n]
    BY <1>1 DEF Own
  <2>5. Told(n, m)
    BY InformedIs
  <2>6. QED
    BY <1>1, <1>4, <2>3, <2>4, <2>5 DEF Told, Up
<1>5. CASE x = n /\ y = m /\ m \notin Up
  BY <1>1, <1>5 DEF Told, Up
<1>6. QED
  BY <1>3, <1>4, <1>5

LEMMA ReadsInformed ==
  ASSUME TypeOK, Presence, Informed, NEW n \in Nodes, NEW m \in Nodes,
         NEW msg, msg = net[<<m, n>>][1], msg.ep.node = m,
         NEW G, NEW M, Reads(n, m, G, M),
         G = IF msg.add THEN found[n] \cup {msg.ep} ELSE found[n] \ {msg.ep}
  PROVE  Informed'
<1>1. UNCHANGED <<status, known, local, wrong>>
  BY DEF Reads
<1>2. SUFFICES ASSUME NEW x \in Nodes, NEW y \in Nodes PROVE Told(x, y)'
  BY DEF Informed, Told, Up
<1>3. /\ found'[y] = IF y = n THEN G ELSE found[y]
      /\ net'[<<x, y>>] = IF x = m /\ y = n THEN Tail(net[<<m, n>>]) ELSE net[<<x, y>>]
  BY DEF Reads
<1>4. View(y, x)' = View(y, x)
  <2>1. CASE x # m \/ y # n
    <3>1. Of(x, found'[y]) = Of(x, found[y]) /\ net'[<<x, y>>] = net[<<x, y>>]
      BY <1>3, <2>1 DEF Of
    <3>2. QED
      BY <3>1, SameView
  <2>2. CASE x = m /\ y = n
    <3> DEFINE q == net[<<m, n>>]
               F == Of(m, found[n])
               H == Of(m, found'[n])
    <3>1. H = IF q[1].add THEN F \cup {q[1].ep} ELSE F \ {q[1].ep}
      BY <1>3, <2>2 DEF Of
    <3>2. q \in Seq(Datagrams) /\ F \in SUBSET Endpoints /\ q # <<>>
      BY ChannelTypes DEF Reads
    <3>3. net'[<<m, n>>] = Tail(q)
      BY <1>3, <2>2
    <3> HIDE DEF q, F, H
    <3>4. Final(Tail(q), H) = Final(q, F)
      BY <3>1, <3>2, FinalRead
    <3>5. View(n, m)' = Final(Tail(q), H)
      BY <3>3 DEF View, Final, H
    <3>6. View(n, m) = Final(q, F)
      BY DEF View, q, F
    <3>7. QED
      BY <2>2, <3>4, <3>5, <3>6
  <2>3. QED
    BY <2>1, <2>2
<1>5. QED
  BY <1>1, <1>4, KeptTold

LEMMA DetectInformed ==
  ASSUME TypeOK, Presence, Informed, NEW n \in Nodes, HeartbeatDetect(n)
  PROVE  Informed'
<1> USE DEF Presence
<1> DEFINE D == TimedOut(n)
<1>1. /\ status[n] = "up" /\ D \subseteq DOMAIN known[n] /\ UNCHANGED <<status, local, net>>
      /\ wrong' = wrong \cup {<<n, m>> : m \in D \cap Up}
      /\ \A x \in Nodes :
           /\ DOMAIN known'[x] = IF x = n THEN DOMAIN known[n] \ D ELSE DOMAIN known[x]
           /\ found'[x] = IF x = n THEN {e \in found[n] : e.node \notin D} ELSE found[x]
  BY ZenonT(60), DetectIs
<1> HIDE DEF D
<1>2. SUFFICES ASSUME NEW x \in Nodes, NEW y \in Nodes PROVE Told(x, y)'
  BY DEF Informed, Told, Up
<1>3. CASE x = n /\ y \in D
  <2>1. y \in Up => <<x, y>> \in wrong'
    BY <1>1, <1>3
  <2>2. QED
    BY <1>1, <2>1 DEF Told, Up
<1>4. CASE y = n /\ x \in D /\ x \in Up
  <2>1. <<y, x>> \in wrong'
    BY <1>1, <1>4
  <2>2. QED
    BY <2>1 DEF Told
<1>5. CASE y = n /\ x \in D /\ x \notin Up /\ x # n
  <2>1. DOMAIN known[x] = {} /\ n \notin DOMAIN known'[x]
    BY <1>1, <1>5 DEF Absent, Up
  <2>2. Of(x, found'[n]) = {}
    BY <1>1, <1>5 DEF Of
  <2>3. View(n, x)' = Final(net[<<x, n>>], {})
    BY <1>1, <2>2 DEF View, Final
  <2>4. View(n, x)' \subseteq View(n, x)
    BY <2>3, FinalCleared DEF View
  <2>5. Told(x, n)
    BY InformedIs
  <2>6. wrong \subseteq wrong'
    BY <1>1
  <2>7. QED
    BY <1>1, <1>5, <2>1, <2>4, <2>5, <2>6 DEF Told, Up
<1>6. CASE ~(x = n /\ y \in D) /\ ~(y = n /\ x \in D)
  <2>1. Of(x, found'[y]) = Of(x, found[y])
    BY <1>1, <1>6 DEF Of
  <2>2. View(y, x)' = View(y, x)
    BY <1>1, <2>1, SameView
  <2>3. (y \in DOMAIN known'[x] <=> y \in DOMAIN known[x]) /\ wrong \subseteq wrong'
    BY <1>1, <1>6
  <2>4. QED
    BY <1>1, <2>2, <2>3, KeptTold
<1>7. CASE x = n /\ y = n
  BY <1>7 DEF Told
<1>8. QED
  BY <1>3, <1>4, <1>5, <1>6, <1>7

LEMMA GoesInformed ==
  ASSUME TypeOK, Presence, Informed, NEW n \in Nodes, NEW how, NEW T, NEW r, Goes(n, how, T, r),
         how = "crashed" \/ (how = "left" /\ T = DOMAIN known[n] /\ r = Messages(FALSE, Own(n)))
  PROVE  Informed'
<1>1. SUFFICES ASSUME NEW x \in Nodes, NEW y \in Nodes PROVE Told(x, y)'
  BY DEF Informed, Told, Up
<1>2. /\ status[n] = "up" /\ wrong' = wrong /\ status'[n] = how /\ how # "up"
  BY DEF Goes
<1>3. CASE y = n
  BY <1>2, <1>3 DEF Told, Up
<1>4. CASE y # n /\ x # n
  <2>1. /\ status'[x] = status[x] /\ status'[y] = status[y] /\ DOMAIN known'[x] = DOMAIN known[x]
        /\ found'[y] = found[y] /\ local'[x] = local[x] /\ net'[<<x, y>>] = net[<<x, y>>]
    BY <1>4 DEF Goes
  <2>2. View(y, x)' = View(y, x)
    BY <2>1, SameView
  <2>3. QED
    BY <1>2, <2>1, <2>2, KeptTold
<1>5. CASE y # n /\ x = n /\ how = "crashed"
  BY <1>2, <1>5 DEF Told
<1>6. CASE y # n /\ x = n /\ how = "left"
  <2>1. /\ DOMAIN known'[n] = {} /\ status'[y] = status[y] /\ found'[y] = found[y]
        /\ net'[<<n, y>>] = IF y \in DOMAIN known[n] \cap Up THEN net[<<n, y>>] \o Messages(FALSE, Own(n)) ELSE net[<<n, y>>]
    BY ZenonT(60), <1>6 DEF Goes
  <2>2. Told(n, y)
    BY InformedIs
  <2>3. CASE y \in DOMAIN known[n] /\ y \in Up
    <3>1. /\ local[n] \in [Kinds -> 0 .. MaxEid]
          /\ \A d \in Own(n) : d.kind \in Kinds /\ local[n][d.kind] # 0 /\ d = LocalEndpoint(n, d.kind, local[n][d.kind])
      BY OwnIs
    <3>2. Removes(n, y, Own(n)) /\ Of(n, found'[y]) = Of(n, found[y])
      BY <2>1, <2>3 DEF Removes
    <3>3. View(y, n)' = View(y, n) \ Own(n)
      <4>1. NextView(y, n) = View(y, n) \ Own(n)
        BY <3>1, <3>2, RetractedView
      <4>2. QED
        BY <4>1 DEF NextView, View, Final
    <3>4. QED
      BY <1>2, <1>6, <2>1, <2>2, <2>3, <3>3 DEF Told, Up
  <2>4. CASE y \notin DOMAIN known[n] /\ y \in Up
    <3>1. View(y, n)' = View(y, n)
      BY <2>1, <2>4, SameView
    <3>2. QED
      BY <1>2, <1>6, <2>1, <2>2, <2>4, <3>1 DEF Told, Up
  <2>5. CASE y \notin Up
    BY <1>6, <2>1, <2>5 DEF Told, Up
  <2>6. QED
    BY <2>3, <2>4, <2>5
<1>7. QED
  BY <1>3, <1>4, <1>5, <1>6

LEMMA QuietInformed ==
  ASSUME Informed, Quiet
  PROVE  Informed'
<1>1. UNCHANGED <<status, found, local, net, wrong>> /\ \A x \in Nodes : DOMAIN known'[x] = DOMAIN known[x]
  BY DEF Quiet
<1>2. SUFFICES ASSUME NEW x \in Nodes, NEW y \in Nodes PROVE Told(x, y)'
  BY DEF Informed, Told, Up
<1>3. View(y, x)' = View(y, x)
  BY <1>1, SameView
<1>4. QED
  BY <1>1, <1>3, KeptTold

LEMMA InformedHolds ==
  ASSUME TypeOK, Presence, Channels, Informed, [Next]_vars
  PROVE  Informed'
<1>1. ASSUME NEW n \in Nodes, NEW m \in Nodes, EndpointAdded(n, m) PROVE Informed'
  <2> DEFINE msg == net[<<m, n>>][1]
  <2>1. PICK M : Reads(n, m, found[n] \cup {msg.ep}, M)
    BY SMTT(30), <1>1, AddedIs
  <2>2. msg.add
    <3>1. Head(net[<<m, n>>]) = msg
      BY <1>1, HeadIs DEF EndpointAdded
    <3>2. QED
      BY <1>1, <3>1 DEF EndpointAdded
  <2> HIDE DEF msg
  <2>3. msg.ep.node = m
    BY <2>1, <2>2, ReadsChannels DEF msg
  <2>4. QED
    BY <2>1, <2>2, <2>3, ReadsInformed DEF msg
<1>2. ASSUME NEW n \in Nodes, NEW m \in Nodes, EndpointRemoved(n, m) PROVE Informed'
  <2> DEFINE msg == net[<<m, n>>][1]
  <2>1. PICK M : Reads(n, m, found[n] \ {msg.ep}, M)
    BY ZenonT(60), <1>2, RemovedIs
  <2>2. ~msg.add
    <3>1. Head(net[<<m, n>>]) = msg
      BY <1>2, HeadIs DEF EndpointRemoved
    <3>2. QED
      BY <1>2, <3>1 DEF EndpointRemoved
  <2> HIDE DEF msg
  <2>3. msg.ep.node = m
    BY <2>1, <2>2, ReadsChannels DEF msg
  <2>4. QED
    BY <2>1, <2>2, <2>3, ReadsInformed DEF msg
<1>3. ASSUME NEW n \in Nodes, Shutdown(n) PROVE Informed'
  BY <1>3, ShutdownIs, GoesInformed
<1>4. ASSUME NEW n \in Nodes, Crash(n) PROVE Informed'
  BY <1>4, CrashIs, GoesInformed
<1>5. ASSUME NEW n \in Nodes, NEW m \in Nodes, HearAgain(n, m) \/ Timeout(n, m) \/ EchoFades(n, m)
      PROVE  Informed'
  BY <1>5, QuietSteps, QuietInformed
<1>6. CASE UNCHANGED vars
  BY <1>6, QuietInformed DEF vars, tables, Quiet
<1>7. QED
  BY <1>1, <1>2, <1>3, <1>4, <1>5, <1>6, StartInformed,
     CreateInformed, DestroyInformed, HearNewInformed, DetectInformed DEF Next, Progress

-----------------------------------------------------------------------------
(* Together *)

LEMMA DiscoveryInit ==
  ASSUME Init
  PROVE  DInv
<1>1. TypeOK
  BY BoundsAssumption DEF Init, TypeOK
<1>2. Presence
  BY DEF Init, Presence, Absent, Unheard, Echoes, Ids, Of
<1>3. Channels
  <2>1. SUFFICES ASSUME NEW x \in Nodes, NEW y \in Nodes PROVE Chan(x, y)
    BY DEF Channels
  <2>2. net[<<x, y>>] = <<>> /\ Of(x, found[y]) = {}
    BY DEF Init, Of
  <2>3. QED
    BY <2>2, EmptyChannel DEF Chan
<1>4. CacheAgrees
  BY DEF Init, CacheAgrees
<1>5. Informed
  BY DEF Init, Informed, Up
<1>6. QED
  BY <1>1, <1>2, <1>3, <1>4, <1>5 DEF DInv, Presence

(* The invariant holds in every state.                                     *)
THEOREM DiscoveryInvariant == Spec => []DInv
<1>1. DInv /\ [Next]_vars => DInv'
  BY DiscoveryTypes, PresenceHolds, ChannelsHold, CacheHolds, InformedHolds DEF DInv, Presence
<1>2. QED
  BY <1>1, DiscoveryInit, PTL DEF Spec

(* Every variable of the discovery has a value of its type, and no node     *)
(* enters itself among those it has discovered.                            *)
THEOREM DiscoveryTypeCorrect == Spec => []TypeOK
BY DiscoveryInvariant, PTL DEF DInv

(* Two nodes have the same picture of the endpoints, for any number of     *)
(* nodes and endpoints, whatever is lost, and whoever crashes or leaves.   *)
THEOREM PicturesAgree == Spec => []PictureAgrees
<1>1. DInv => PictureAgrees
  BY DEF DInv, PictureAgrees
<1>2. QED
  BY <1>1, DiscoveryInvariant, PTL

=============================================================================
