-------------------------------- MODULE MCWeb --------------------------------
(* Instances of WebServer and WebSocketFrames for TLC: the coroutines of a  *)
(* web server and of a WebSocket.  A behaviour runs one of the two and      *)
(* leaves the other alone.                                                  *)
EXTENDS WebServer

CONSTANTS c1, c2

VARIABLES
  part,                                                    (* which one runs *)
  frames, farrived, closed, open, fpc, from, size, header, returned, sent, faults

socket == <<frames, farrived, closed, open, fpc, from, size, header, returned, sent, faults>>

-----------------------------------------------------------------------------
(* The app: two routes match api/x, one of them in a mounted router.        *)
Route(method, pattern, name, calls) ==
  [method |-> method, pattern |-> pattern, name |-> name, calls |-> calls]

MCSetup == <<
  [mount |-> FALSE,
   routes |-> <<
     Route("Get", <<"api", ":">>, "any", <<[op |-> "send", text |-> <<"any">>]>>),
     Route("Post", <<"api", "x">>, "post",
           <<[op |-> "status", code |-> 201], [op |-> "send", text |-> <<"large">>]>>),
     Route("Ws", <<"ws", ":">>, "room", <<>>)>>],
  [mount |-> TRUE, prefix |-> <<"api">>,
   routes |-> <<
     Route("Get", <<"x">>, "x", <<[op |-> "json", text |-> <<"x">>]>>),
     Route("Head", <<":">>, "head", <<[op |-> "sendFile", text |-> <<"none">>]>>),
     Route("Delete", <<":">>, "delete", <<[op |-> "redirect", code |-> 302]>>),
     Route("Options", <<"x">>, "options", <<[op |-> "send", text |-> <<"options">>]>>)>>] >>

MCFiles == {<<"index.html">>}
MCDirectories == {<<"dir">>}
MCLarge == {<<"large">>}

MCMiddlewares == <<[kind |-> "cors"], [kind |-> "statics", prefix |-> <<"static">>]>>

Req(method, uri, length, sends) ==
  [method |-> method, uri |-> uri, head |-> 2, length |-> length, sends |-> sends,
   upgrade |-> FALSE, key |-> FALSE]

Plain == Req("Get", <<"api", "x">>, 0, 2)
(* Another request follows at once; the response is large. *)
Pipelined == [Req("Post", <<"api", "x">>, 1, 3) EXCEPT !.head = 1]
Cut == Req("Post", <<"api", "x">>, 2, 3)
Unclear == [Req("Get", <<"api", "x">>, -1, 2) EXCEPT !.head = 1]
Whole(method, uri) == [Req(method, uri, 0, 1) EXCEPT !.head = 1]
Upgrade == [Whole("Get", <<"ws", "a">>) EXCEPT !.upgrade = TRUE, !.key = TRUE]

(* Pairs of requests that meet. *)
MCRequests ==
  {[c \in {c1, c2} |-> IF c = c1 THEN pair[1] ELSE pair[2]] :
     pair \in {
       <<Plain, Cut>>, <<Pipelined, Plain>>, <<Unclear, Pipelined>>,
       <<Whole("Head", <<"api", "y">>), Whole("Delete", <<"api", "y">>)>>,
       <<Whole("Options", <<"api", "x">>), Whole("Put", <<"api", "x">>)>>,
       <<Whole("Get", <<"static", "">>), Whole("Get", <<"static", "dir">>)>>,
       <<Upgrade, [Upgrade EXCEPT !.key = FALSE]>>}}

-----------------------------------------------------------------------------
(* Frames of every length code, masked and not.                             *)
Frame(op, len, masked) == [op |-> op, len |-> len, masked |-> masked]

MCStreams == {
  <<Frame("text", 3, TRUE), Frame("text", 126, TRUE), Frame("close", 0, TRUE)>>,
  <<Frame("text", 65536, TRUE), Frame("ping", 0, FALSE), Frame("text", 2, TRUE)>> }

F == INSTANCE WebSocketFrames WITH
  Streams <- MCStreams, Cuts <- {1, 3, 5},
  Garbage <- {Frame("text", 1, FALSE), Frame("text", 126, TRUE), Frame("close", 0, TRUE)},
  Chunk <- 65536, Sizes <- {0, 126, 65536}, MaxRecvs <- 4, MaxSends <- 1,
  arrived <- farrived, pc <- fpc

-----------------------------------------------------------------------------
ASSUME FrameAssumptions == F!Assumptions

MCInit ==
  /\ part \in {"server", "frames"}
  /\ WebInit /\ F!Init
  /\ part # "server" => request = CHOOSE r \in MCRequests : TRUE
  /\ secure => part = "server" /\ request[c1] = Plain
  /\ part # "frames" => frames = CHOOSE s \in MCStreams : TRUE

MCNext ==
  \/ part = "server" /\ WebNext /\ UNCHANGED <<part, socket>>
  \/ part = "frames" /\ F!Next /\ UNCHANGED <<part, webVars>>

(* In its initial state neither of them enables a step that is fair.         *)
MCSpec == MCInit /\ [][MCNext]_<<part, webVars, socket>> /\ WebFairness /\ F!Fairness

Intact == F!Intact
ReturnsOnClose == F!ReturnsOnClose
=============================================================================
