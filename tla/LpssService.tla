----------------------------- MODULE LpssService -----------------------------
(***************************************************************************)
(* One async Service and its Clients.  A request goes over the topic lq,   *)
(* which every client writes and the service reads, an answer over the     *)
(* topic lr, which the service writes and every client reads: each answer  *)
(* goes to all clients, and they pick their own.  What LpssChannel shows   *)
(* of a topic is used here: between two processes of one host only the     *)
(* latest message is kept, between hosts the messages queue; what is there *)
(* is read sooner or later, or dropped (AfterReading).                     *)
(*                                                                         *)
(* k counts the calls of a client; only k % Numbers is in the STP header.  *)
(***************************************************************************)
EXTENDS Integers, Sequences, FiniteSets, SequencesExt

CONSTANTS
  Clients,
  Tasks,     (* the coroutines that use the clients                        *)
  ClientOf,  (* the client each of them uses                               *)
  ServiceLocals, (* the sets of clients that may be on its host          *)
  NoClient,  (* no client                                                  *)
  Numbers,   (* sequence numbers of STP (65536)                            *)
  MaxCalls   (* bound on the calls of a client that get past the guard     *)

(* What is assumed of the constants. *)
ServiceAssumptions ==
  /\ ClientOf \in [Tasks -> Clients] /\ ServiceLocals \subseteq SUBSET Clients
  /\ NoClient \notin Clients
  /\ Numbers \in Nat \ {0} /\ MaxCalls \in Nat

VARIABLES
  nearby,   (* the clients on the host of the service                      *)
  ready,    (* do both endpoints of the client know those of the service?  *)
  known,    (* does the answer's writer know the client's reader?          *)
  requests, (* the requests of each client the service has not read        *)
  answers,  (* the answers each client has not read                        *)
  issued,   (* the calls so far; gives _next_sequence                      *)
  calling,  (* _calling                                                    *)
  response, (* _response, as the call that it answers; 0 if empty          *)
  pc,       (* what each task does                                         *)
  own,      (* the call a task has made                                    *)
  serving,  (* the request that the service answers                        *)
  left,     (* the clients this answer still goes to                       *)
  served,   (* history : how often the callback has run for each call      *)
  answered, (* history : the calls whose answer was sent to their client   *)
  results   (* history : <<call, answer>> of the calls that returned one   *)

client == <<issued, calling, response, pc, own, results>>
service == <<serving, left, served, answered>>
serviceVars == <<nearby, ready, known, requests, answers, client, service>>

NoRequest == [client |-> NoClient, k |-> 0]

ServiceInit ==
  /\ nearby \in ServiceLocals
  /\ ready = [c \in Clients |-> FALSE] /\ known = [c \in Clients |-> FALSE]
  /\ requests = [c \in Clients |-> <<>>] /\ answers = [c \in Clients |-> <<>>]
  /\ issued = [c \in Clients |-> 0] /\ calling = [c \in Clients |-> FALSE]
  /\ response = [c \in Clients |-> 0]
  /\ pc = [t \in Tasks |-> "idle"] /\ own = [t \in Tasks |-> 0]
  /\ serving = NoRequest /\ left = {}
  /\ served = [c \in Clients |-> [k \in 1..MaxCalls |-> 0]] /\ answered = {}
  /\ results = [c \in Clients |-> {}]

(* What is there to read once the request of c has been read.  While read  *)
(* waits for a datagram, a request may come over the shared memory: it is  *)
(* returned, and the datagram is dropped, which may be another's request.  *)
AfterReading(c) ==
  LET rest == [requests EXCEPT ![c] = Tail(@)]
      others == {d \in Clients \ nearby : c \in nearby /\ requests[d] # <<>>}
  IN  {rest} \cup {[rest EXCEPT ![d] = Tail(@)] : d \in others}

(* Faulty variant: only the latest message is kept between hosts, too.     *)
PutLatest(c, s, m) == <<m>>

(* Writing to a topic. *)
Put(c, s, m) == IF c \in nearby THEN <<m>> ELSE Append(s, m)

(* The endpoints find each other, on either side. *)
ClientReady(c) ==
  /\ ~ready[c]
  /\ ready' = [ready EXCEPT ![c] = TRUE]
  /\ UNCHANGED <<nearby, known, requests, answers, client, service>>

ServiceKnows(c) ==
  /\ ~known[c]
  /\ known' = [known EXCEPT ![c] = TRUE]
  /\ UNCHANGED <<nearby, ready, requests, answers, client, service>>

-----------------------------------------------------------------------------
(* Client::call *)

(* A call while another is under way returns at once.  Otherwise the       *)
(* request is written, to nobody if the service is not known yet.          *)
Call(t) ==
  LET c == ClientOf[t]
      k == issued[c] + 1 IN
  /\ pc[t] = "idle" /\ issued[c] < MaxCalls
  /\ ~calling[c]
  /\ calling' = [calling EXCEPT ![c] = TRUE]
  /\ issued' = [issued EXCEPT ![c] = k]
  /\ response' = [response EXCEPT ![c] = 0]
  /\ own' = [own EXCEPT ![t] = k]
  /\ requests' = IF ready[c] THEN [requests EXCEPT ![c] = Put(c, @, [client |-> c, k |-> k])]
                 ELSE requests
  /\ pc' = [pc EXCEPT ![t] = "polling"]
  /\ UNCHANGED <<nearby, ready, known, answers, service, results>>

(* Between two polls the answer comes or the time is up; then the call     *)
(* returns what there is.                                                  *)
Return(t) ==
  LET c == ClientOf[t] IN
  /\ pc[t] = "polling"
  /\ results' = IF response[c] = 0 THEN results
                ELSE [results EXCEPT ![c] = @ \cup {<<own[t], response[c]>>}]
  /\ response' = [response EXCEPT ![c] = 0]
  /\ calling' = [calling EXCEPT ![c] = FALSE]
  /\ pc' = [pc EXCEPT ![t] = "idle"] /\ own' = [own EXCEPT ![t] = 0]
  /\ UNCHANGED <<nearby, ready, known, requests, answers, issued, service>>

-----------------------------------------------------------------------------
(* Client::receive *)

(* Faulty variant: any answer to this client will do.                      *)
AwaitedAny(c, m) == calling[c] /\ m.client = c

(* The answer the client waits for. *)
Awaited(c, m) ==
  calling[c] /\ m.client = c /\ m.k % Numbers = issued[c] % Numbers

ReceiveAnswer(c) ==
  LET m == Head(answers[c]) IN
  /\ answers[c] # <<>>
  /\ answers' = [answers EXCEPT ![c] = Tail(@)]
  /\ response' = IF Awaited(c, m) THEN [response EXCEPT ![c] = m.k] ELSE response
  /\ UNCHANGED <<nearby, ready, known, requests, issued, calling, pc, own, results, service>>

-----------------------------------------------------------------------------
(* Service::serve *)

(* Read a request and run the callback.  If it throws there is no answer;  *)
(* otherwise write begins, which takes the targets it has now.             *)
Serve(c, throws) ==
  LET m == Head(requests[c]) IN
  /\ serving = NoRequest /\ requests[c] # <<>>
  /\ requests' \in AfterReading(c)
  /\ served' = [served EXCEPT ![c][m.k] = @ + 1]
  /\ left' = IF throws THEN {} ELSE {d \in Clients : known[d]}
  /\ serving' = IF left' = {} THEN NoRequest ELSE m
  /\ UNCHANGED <<nearby, ready, known, answers, client, answered>>

(* Write the answer to the next target, those on this host first. *)
Answer(c) ==
  /\ c \in left /\ (left \cap nearby # {} => c \in nearby)
  /\ answers' = [answers EXCEPT ![c] = Put(c, @, serving)]
  /\ answered' = IF c = serving.client THEN answered \cup {serving} ELSE answered
  /\ left' = left \ {c}
  /\ serving' = IF left' = {} THEN NoRequest ELSE serving
  /\ UNCHANGED <<nearby, ready, known, requests, client, served>>

-----------------------------------------------------------------------------
ServiceNext ==
  \/ \E c \in Clients : ClientReady(c) \/ ServiceKnows(c)
  \/ \E t \in Tasks : Call(t) \/ Return(t)
  \/ \E c \in Clients : ReceiveAnswer(c) \/ Answer(c)
  \/ \E c \in Clients, throws \in BOOLEAN : Serve(c, throws)

ServiceSpec == ServiceInit /\ [][ServiceNext]_serviceVars

-----------------------------------------------------------------------------
Messages == [client : Clients, k : 1..MaxCalls]

(* Every variable has a value of its type, and a client is _calling just   *)
(* while one of the coroutines that use it is in call.                     *)
ServiceTypeOK ==
  /\ ready \in [Clients -> BOOLEAN] /\ known \in [Clients -> BOOLEAN]
  /\ requests \in [Clients -> Seq(Messages)] /\ answers \in [Clients -> Seq(Messages)]
  /\ issued \in [Clients -> 0..MaxCalls] /\ calling \in [Clients -> BOOLEAN]
  /\ response \in [Clients -> 0..MaxCalls]
  /\ pc \in [Tasks -> {"idle", "polling"}] /\ own \in [Tasks -> 0..MaxCalls]
  /\ serving \in Messages \cup {NoRequest} /\ left \subseteq Clients
  /\ served \in [Clients -> [1..MaxCalls -> Nat]] /\ answered \subseteq Messages
  /\ results \in [Clients -> SUBSET ((1..MaxCalls) \X (1..MaxCalls))]
  /\ \A c \in Clients :
       Cardinality({t \in Tasks : ClientOf[t] = c /\ pc[t] = "polling"}) = IF calling[c] THEN 1 ELSE 0

(* A call returns the answer to its own request or none, although every    *)
(* client gets the answers to all, answers arrive after their call timed   *)
(* out and coroutines share a client (Numbers > MaxCalls: the number of a  *)
(* late answer is not in use again); and no request runs the callback      *)
(* twice, whether or not it throws (node_impl.hpp:201-235).                *)
OwnAnswer ==
  \A c \in Clients :
    /\ \A r \in results[c] : r[1] = r[2]
    /\ \A k \in 1 .. MaxCalls : served[c][k] <= 1

(* An answer sent to the client whose call is still waiting is on its way  *)
(* or there: one request, one response.  It does not hold for a client on  *)
(* the host of the service: the answer to another client takes its place   *)
(* in the shared memory (README, Disagreements).                           *)
AnswerKept ==
  \A t \in Tasks :
    LET c == ClientOf[t]
        m == [client |-> c, k |-> own[t]] IN
    c \notin nearby /\ pc[t] = "polling" /\ m \in answered /\ response[c] = 0
      => \E i \in 1..Len(answers[c]) : answers[c][i] = m

(* Requests and answers are paired one to one.                             *)
AnswersMatch == OwnAnswer /\ AnswerKept

=============================================================================
