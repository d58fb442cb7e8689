------------------------------ MODULE WebServer ------------------------------
(***************************************************************************)
(* rm::async::Webapp behind an HttpServer or an HttpsServer, and its       *)
(* clients.  One coroutine accepts connections and spawns a coroutine for  *)
(* each, which reads one request, answers it and closes.  The coroutines   *)
(* share one thread and take turns wherever they await a socket.           *)
(*                                                                         *)
(* A request is what Request::parse makes of it, and its length in units:  *)
(* those of the request line and the headers, those that Content-Length    *)
(* promises (Invalid if it is no number or contradicts itself) and those   *)
(* that the client really sends.  A path is the sequence of its segments.  *)
(***************************************************************************)
EXTENDS Integers, Sequences, SequencesExt, FiniteSetsExt

CONSTANTS
  Clients,     (* the connections; each makes one request                  *)
  Requests,    (* the requests they may make, functions from Clients       *)
  Setup,       (* the calls that registered the routes, in order           *)
  Middlewares, (* the middlewares of the app, in order                     *)
  Files,       (* the files below the roots of static routes               *)
  Directories, (* the directories there                                    *)
  Large,       (* the bodies larger than a socket's send buffer            *)
  Chunk,       (* the units that one recv() takes at most (65536 bytes)    *)
  Secure,      (* subset of BOOLEAN: may the server be an HttpsServer?     *)
  Nil

Invalid == -1

Lists == {"Get", "Post", "Head", "Delete", "Options", "Ws"}

(* A call that a handler makes on the Response, and a route. *)
Calls ==
  [op : {"status", "redirect"}, code : Nat]
    \cup [op : {"send", "json", "sendFile"}, text : Seq(STRING)]

Routes == [method : Lists, pattern : Seq(STRING), name : STRING, calls : Seq(Calls)]

SetupCalls ==
  [mount : {FALSE}, routes : Seq(Routes)]
    \cup [mount : {TRUE}, prefix : Seq(STRING), routes : Seq(Routes)]

(* What is assumed of the constants; no method of HTTP is called "Ws".     *)
WebAssumptions ==
  /\ \A f \in Requests, c \in Clients :
       /\ f[c].head \in Nat \ {0} /\ f[c].length \in Nat \cup {Invalid} /\ f[c].sends \in Nat \ {0}
       /\ f[c].method # "Ws" /\ f[c].uri \in Seq(STRING)
       /\ f[c].upgrade \in BOOLEAN /\ f[c].key \in BOOLEAN
  /\ Setup \in Seq(SetupCalls)
  /\ Middlewares \in Seq([kind : {"cors"}] \cup [kind : {"statics"}, prefix : Seq(STRING)])
  /\ Chunk \in Nat \ {0} /\ Secure \subseteq BOOLEAN /\ Nil \notin Int

ASSUME WebAssumption == WebAssumptions

VARIABLES
  secure,   (* is it an HttpsServer?                                       *)
  table,    (* _gets, _posts, _heads, _deletes, _options and _wss           *)
  serving,  (* _running                                                    *)
  spinning, (* where the coroutine spin() is                               *)
  backlog,  (* the connections that wait to be accepted                    *)
  context,  (* the IOContext: "on", "stopping" after stop(), "off"         *)
  blocked,  (* the connection whose send() blocks the thread               *)
  request,  (* the request of each client                                  *)
  arrived,  (* the units of it that have arrived                           *)
  ended,    (* the clients that have closed their connection               *)
  stage,    (* where the coroutine of each connection is                   *)
  got,      (* the units it has read                                       *)
  res,      (* the Response it has made                                    *)
  seen,     (* history: the length of the request it made it for           *)
  reply,    (* what the client has got                                     *)
  asked,    (* history: stop() was called while the server ran             *)
  late      (* history: the connections accepted since                     *)

webapp == <<secure, table>>
server == <<webapp, serving, spinning, backlog, context, blocked>>
client == <<request, arrived, ended, reply>>
handler == <<stage, got, res, seen>>
webHistory == <<asked, late>>
webVars == <<server, client, handler, webHistory>>

-----------------------------------------------------------------------------
(* Routes *)

(* A segment ":" of a pattern is a parameter.                              *)
Matches(pattern, uri) ==
  /\ Len(pattern) = Len(uri)
  /\ \A i \in DOMAIN uri : \/ pattern[i] = uri[i]
                           \/ pattern[i] = ":" /\ uri[i] # ""

(* Router::get, post, head, del, options and ws, and those of Webapp.      *)
Register(t, route) == [t EXCEPT ![route.method] = Append(@, route)]

Router(routes) == FoldLeft(Register, [m \in Lists |-> <<>>], routes)

(* Webapp::use(url, router): neither OPTIONS nor WebSocket routes.         *)
Use(t, prefix, router) ==
  [m \in Lists |->
     IF m \in {"Options", "Ws"} THEN t[m]
     ELSE t[m] \o [i \in DOMAIN router[m] |->
                         [router[m][i] EXCEPT !.pattern = prefix \o @]]]

(* A call made on the app: a route of its own, or a router to be mounted.  *)
WithCall(t, call) ==
  IF call.mount THEN Use(t, call.prefix, Router(call.routes))
                ELSE FoldLeft(Register, t, call.routes)

Webapp == FoldLeft(WithCall, Router(<<>>), Setup)

Hits(routes, uri) == {i \in DOMAIN routes : Matches(routes[i].pattern, uri)}

-----------------------------------------------------------------------------
(* Response *)

Response == [state |-> 0, body |-> <<>>, by |-> Nil]

Status(r, code) == [r EXCEPT !.state = code]

Send(r, text) == [r EXCEPT !.body = text, !.state = IF @ = 0 THEN 200 ELSE @]

Json(r, text) == [r EXCEPT !.body = text, !.state = 200]

Redirect(r, code) == [r EXCEPT !.body = <<>>, !.state = code]

SendFile(r, file) ==
  IF file \in Files THEN Send(r, file) ELSE [r EXCEPT !.body = <<>>, !.state = 404]

(* A route handler is the sequence of the calls it makes.                  *)
Call(r, c) ==
  CASE c.op = "status" -> Status(r, c.code)
    [] c.op = "send" -> Send(r, c.text)
    [] c.op = "json" -> Json(r, c.text)
    [] c.op = "redirect" -> Redirect(r, c.code)
    [] c.op = "sendFile" -> SendFile(r, c.text)

(* statics(): only for what no handler has given a state. *)
Statics(r, req, prefix) ==
  LET rest == SubSeq(req.uri, Len(prefix) + 1, Len(req.uri))
      path == IF rest \in {<<>>, <<"">>} THEN <<"index.html">> ELSE rest
      name == IF Last(path) = "" THEN Front(path) ELSE path
  IN  IF r.state # 0 \/ ~IsPrefix(prefix, req.uri) THEN r
      ELSE IF ".." \in ToSet(path) THEN Status(r, 403)
      ELSE IF name \notin Directories THEN SendFile(r, path)
      ELSE IF Last(req.uri) # "" THEN Redirect(r, 301)
      ELSE SendFile(r, Append(name, "index.html"))

Cors(r, req) == IF req.method = "Options" THEN Status(r, 204) ELSE r

Middleware(r, req, m) == IF m.kind = "cors" THEN Cors(r, req) ELSE Statics(r, req, m.prefix)

(* The middlewares, in the order in which use() was called. *)
Passed(r, req) == FoldLeft(LAMBDA q, m : Middleware(q, req, m), r, Middlewares)

(* _handle: the first route that matches. *)
Handle(routes, req) ==
  LET hits == Hits(routes, req.uri)
  IN  IF hits = {} THEN Response
      ELSE FoldLeft(Call, [Response EXCEPT !.by = routes[Min(hits)].name], routes[Min(hits)].calls)

(* The handshake of a WebSocket. *)
Upgraded(req) ==
  LET hits == Hits(table["Ws"], req.uri)
  IN  IF hits # {} /\ req.key
      THEN [Status(Response, 101) EXCEPT !.by = table["Ws"][Min(hits)].name]
      ELSE Send(Status(Response, 400), <<"bad handshake">>)

(* Webapp::handle_client between reading and writing.  No route, no        *)
(* middleware: bad_request gives a body and leaves the state 0.            *)
Answer(req) ==
  LET routed == IF req.method \in {"Get", "Post", "Delete", "Head"}
                THEN Handle(table[req.method], req) ELSE Response
      passed == Passed(routed, req)
  IN  IF req.method = "Get" /\ req.upgrade THEN Upgraded(req)
      ELSE IF passed.state = 0 THEN [passed EXCEPT !.body = <<"cannot">>]
      ELSE passed

-----------------------------------------------------------------------------
WebInit ==
  /\ secure \in Secure /\ table = Webapp
  /\ serving = FALSE /\ spinning = "idle" /\ backlog = <<>>
  /\ context = "on" /\ blocked = Nil
  /\ request \in Requests
  /\ arrived = [c \in Clients |-> 0] /\ ended = {}
  /\ stage = [c \in Clients |-> "away"] /\ got = [c \in Clients |-> 0]
  /\ res = [c \in Clients |-> Nil] /\ seen = [c \in Clients |-> 0]
  /\ reply = [c \in Clients |-> "none"]
  /\ asked = FALSE /\ late = 0

LoopRuns == context # "off" /\ blocked = Nil

Goto(c, l) == stage' = [stage EXCEPT ![c] = l]

-----------------------------------------------------------------------------
(* The clients and the network *)

Listening == spinning \in {"listening", "test", "accepting"}

Connect(c) ==
  /\ stage[c] = "away"
  /\ IF Listening THEN backlog' = Append(backlog, c) /\ Goto(c, "queued")
                  ELSE Goto(c, "refused") /\ UNCHANGED backlog
  /\ UNCHANGED <<webapp, serving, spinning, context, blocked, client, got, res, seen, webHistory>>

Open(c) == stage[c] \notin {"away", "refused"} /\ c \notin ended

Deliver(c) ==
  /\ Open(c)
  /\ arrived[c] < request[c].sends
  /\ arrived' = [arrived EXCEPT ![c] = @ + 1]
  /\ UNCHANGED <<server, request, ended, reply, handler, webHistory>>

Sent(c) == res[c] # Nil /\ (stage[c] \in {"closed", "websocket"} \/ blocked = c)

(* requests::request reads once and closes: it gets what has arrived of    *)
(* the response, or nothing if the connection ends without one.            *)
Receive(c) ==
  /\ Open(c)
  /\ \/ Sent(c) /\ reply' = [reply EXCEPT ![c] = "part"]
     \/ Sent(c) /\ reply' = [reply EXCEPT ![c] = "whole"]
     \/ stage[c] = "closed" /\ res[c] = Nil /\ reply' = [reply EXCEPT ![c] = "lost"]
  /\ ended' = ended \cup {c}
  /\ UNCHANGED <<server, request, arrived, handler, webHistory>>

HangUp(c) ==
  /\ Open(c)
  /\ ended' = ended \cup {c}
  /\ UNCHANGED <<server, request, arrived, reply, handler, webHistory>>

-----------------------------------------------------------------------------
(* spin() *)

(* The acceptor, then the callback of listen(). *)
Listen ==
  /\ spinning = "idle" /\ LoopRuns
  /\ spinning' = "listening"
  /\ UNCHANGED <<webapp, serving, backlog, context, blocked, client, handler, webHistory>>

Start ==
  /\ spinning = "listening" /\ LoopRuns
  /\ serving' = TRUE /\ spinning' = "test"
  /\ UNCHANGED <<webapp, backlog, context, blocked, client, handler, webHistory>>

(* The acceptor goes with spin(), and with it what waits there.            *)
Test ==
  /\ spinning = "test" /\ LoopRuns
  /\ IF serving THEN spinning' = "accepting" /\ UNCHANGED <<backlog, stage>>
     ELSE /\ spinning' = "returned" /\ backlog' = <<>>
          /\ stage' = [c \in Clients |-> IF stage[c] = "queued" THEN "closed" ELSE stage[c]]
  /\ UNCHANGED <<webapp, serving, context, blocked, client, got, res, seen, webHistory>>

(* Faulty variant: the flag is not looked at again.                        *)
AcceptOn ==
  /\ spinning = "accepting" /\ LoopRuns /\ backlog # <<>>
  /\ backlog' = Tail(backlog)
  /\ late' = IF asked THEN late + 1 ELSE late
  /\ Goto(Head(backlog), IF secure THEN "handshake" ELSE "reading")
  /\ UNCHANGED <<spinning, webapp, serving, context, blocked, client, got, res, seen, asked>>

(* A connection, or an error if its client has aborted it meanwhile.       *)
Accept ==
  /\ spinning = "accepting" /\ LoopRuns /\ backlog # <<>>
  /\ backlog' = Tail(backlog)
  /\ spinning' = "test"
  /\ LET c == Head(backlog) IN
     \/ /\ Goto(c, IF secure THEN "handshake" ELSE "reading")
        /\ late' = IF asked THEN late + 1 ELSE late
     \/ /\ c \in ended
        /\ Goto(c, "closed")
        /\ UNCHANGED late
  /\ UNCHANGED <<webapp, serving, context, blocked, client, got, res, seen, asked>>

(* stop(), by any thread, the callback of listen() included. *)
StopServer ==
  /\ serving' = FALSE
  /\ asked' = (asked \/ spinning \in {"test", "accepting"})
  /\ UNCHANGED <<webapp, spinning, backlog, context, blocked, client, handler, late>>

(* on_sigint, or the destructor of a server that runs. *)
Interrupt ==
  /\ context = "on" /\ LoopRuns
  /\ serving' = FALSE /\ context' = "stopping"
  /\ UNCHANGED <<webapp, spinning, backlog, blocked, client, handler, webHistory>>

(* run() leaves its loop and destroys the coroutines. *)
Destroy ==
  /\ context = "stopping" /\ blocked = Nil
  /\ context' = "off" /\ spinning' = "returned" /\ backlog' = <<>>
  /\ stage' = [c \in Clients |-> IF stage[c] \in {"away", "refused"} THEN stage[c] ELSE "closed"]
  /\ res' = [c \in Clients |-> IF stage[c] = "writing" THEN Nil ELSE res[c]]
  /\ UNCHANGED <<webapp, serving, blocked, client, got, seen, webHistory>>

-----------------------------------------------------------------------------
(* handle_client() *)

(* HttpsServer::handle_client: without a TLS handshake nothing is served.  *)
Handshake(c) ==
  /\ stage[c] = "handshake" /\ LoopRuns
  /\ Goto(c, "reading") \/ Goto(c, "closed")
  /\ UNCHANGED <<server, client, got, res, seen, webHistory>>

(* Faulty variant: the request ends with its headers.                      *)
BoundaryOfHead(req, n) == IF n < req.head THEN Nil ELSE IF req.length = Invalid THEN Invalid ELSE req.head

(* get_http_request_boundary: where the request ends, if that is known.    *)
Boundary(req, n) ==
  IF n < req.head THEN Nil
  ELSE IF req.length = Invalid THEN Invalid ELSE req.head + req.length

(* Faulty variant: what has been read so far is forgotten.                 *)
ReadRequestAnew(c) ==
  LET n == Min({arrived[c] - got[c], Chunk})
      end == Boundary(request[c], n) IN
  /\ stage[c] = "reading" /\ LoopRuns
  /\ arrived[c] > got[c] \/ c \in ended
  /\ IF n = 0 THEN Goto(c, "closed") /\ UNCHANGED <<got, res, seen>>
     ELSE /\ got' = [got EXCEPT ![c] = @ + n]
          /\ IF end # Nil /\ n >= end
             THEN /\ res' = [res EXCEPT ![c] = Answer(request[c])]
                  /\ seen' = [seen EXCEPT ![c] = end]
                  /\ Goto(c, "writing")
             ELSE UNCHANGED <<stage, res, seen>>
  /\ UNCHANGED <<server, client, webHistory>>

(* One chunk of read_http_request, and the answer if that was the last.    *)
ReadRequest(c) ==
  LET n == Min({arrived[c] - got[c], Chunk})
      end == Boundary(request[c], got'[c]) IN
  /\ stage[c] = "reading" /\ LoopRuns
  /\ arrived[c] > got[c] \/ c \in ended
  /\ got' = [got EXCEPT ![c] = @ + n]
  /\ IF n = 0 \/ end = Invalid THEN Goto(c, "closed") /\ UNCHANGED <<res, seen>>
     ELSE IF end = Nil \/ got'[c] < end THEN UNCHANGED <<stage, res, seen>>
     ELSE /\ res' = [res EXCEPT ![c] = Answer(request[c])]
          /\ seen' = [seen EXCEPT ![c] = end]
          /\ Goto(c, "writing")
  /\ UNCHANGED <<server, client, webHistory>>

(* send() takes the response whole: the sockets that accept() returns      *)
(* block, and with them the thread, until the client reads a large one.    *)
Write(c) ==
  /\ stage[c] = "writing" /\ LoopRuns
  /\ \/ /\ c \in ended
        /\ res' = [res EXCEPT ![c] = Nil]
        /\ Goto(c, "closed")
        /\ UNCHANGED blocked
     \/ /\ res[c].body \notin Large
        /\ Goto(c, IF res[c].state = 101 THEN "websocket" ELSE "closed")
        /\ UNCHANGED <<blocked, res>>
     \/ /\ res[c].body \in Large /\ c \notin ended
        /\ blocked' = c
        /\ UNCHANGED <<stage, res>>
  /\ UNCHANGED <<webapp, serving, spinning, backlog, context, client, got, seen, webHistory>>

(* The client reads on, or closes. *)
Unblock(c) ==
  /\ blocked = c
  /\ blocked' = Nil
  /\ Goto(c, "closed")
  /\ UNCHANGED <<webapp, serving, spinning, backlog, context, client, got, res, seen, webHistory>>

(* The handler of the WebSocket returns (WebSocketFrames).                 *)
HandlerReturns(c) ==
  /\ stage[c] = "websocket" /\ LoopRuns
  /\ Goto(c, "closed")
  /\ UNCHANGED <<server, client, got, res, seen, webHistory>>

-----------------------------------------------------------------------------
Spin == Listen \/ Start \/ Test \/ Accept

Serve(c) == Handshake(c) \/ ReadRequest(c) \/ Write(c) \/ Unblock(c)

WebNext ==
  \/ Spin \/ StopServer \/ Interrupt \/ Destroy
  \/ \E c \in Clients : \/ Connect(c) \/ Deliver(c) \/ Receive(c) \/ HangUp(c)
                        \/ Serve(c) \/ HandlerReturns(c)

WebSpec == WebInit /\ [][WebNext]_webVars

(* The loop resumes what is ready (EventLoop, Progress); the network       *)
(* delivers, and a client that waits for a response reads it.              *)
WebFairness ==
  /\ WF_webVars(Start \/ Test \/ Accept)
  /\ \A c \in Clients : WF_webVars(Serve(c)) /\ WF_webVars(Deliver(c)) /\ WF_webVars(Receive(c))

LiveWebSpec == WebSpec /\ WebFairness

-----------------------------------------------------------------------------
(* Properties *)

(* Every variable has a value of its type; what waits to be accepted is    *)
(* queued, and the thread is blocked by a coroutine that writes.           *)
WebTypeOK ==
  /\ serving \in BOOLEAN /\ spinning \in {"idle", "listening", "test", "accepting", "returned"}
  /\ context \in {"on", "stopping", "off"} /\ ended \subseteq Clients
  /\ \A c \in Clients :
       /\ stage[c] \in {"away", "refused", "queued", "handshake", "reading", "writing",
                       "websocket", "closed"}
       /\ got[c] <= arrived[c] /\ arrived[c] <= request[c].sends
       /\ reply[c] \in {"none", "part", "whole", "lost"}
       /\ (c \in ToSet(backlog)) = (stage[c] = "queued")
       /\ blocked = c => stage[c] = "writing"

(* The routes in the order of the calls, with their full patterns, those   *)
(* that can be reached.                                                    *)
RoutesOf(call) ==
  IF ~call.mount THEN call.routes
  ELSE [j \in DOMAIN call.routes |-> [call.routes[j] EXCEPT !.pattern = call.prefix \o @]]

AllRoutes == FlattenSeq([i \in DOMAIN Setup |-> RoutesOf(Setup[i])])

FirstRoute(req) ==
  LET all == AllRoutes
      hits == {i \in DOMAIN all : all[i].method = req.method /\ Matches(all[i].pattern, req.uri)}
  IN  IF hits = {} THEN Nil ELSE all[Min(hits)].name

(* However a request is cut on its way and whatever follows it, it is      *)
(* answered once it is there as long as Content-Length says, never before, *)
(* and by the first route that was registered for it, directly or with a   *)
(* router mounted by use(); OPTIONS aside (netapp.cpp:706-764, :924-954).  *)
Dispatched ==
  \A c \in Clients :
    LET req == request[c] IN
    seen[c] # 0 => /\ seen[c] = req.head + req.length /\ seen[c] <= got[c]
                   /\ res[c] # Nil /\ ~req.upgrade /\ req.method # "Options" =>
                        res[c].by = FirstRoute(req)

(* The server reads a request that its client sends whole. *)
Due(c) ==
  /\ stage[c] = "reading"
  /\ request[c].length # Invalid /\ request[c].head + request[c].length <= request[c].sends

(* A client that is accepted, sends its request whole and waits gets an    *)
(* answer, though others send theirs in pieces, never or wrong, abort,     *)
(* leave or are slow to read, unless the server is interrupted.            *)
Answered ==
  \A c \in Clients :
    Due(c) ~> \/ reply[c] \in {"part", "whole"} \/ context # "on"
              \/ c \in ended /\ reply[c] = "none"

(* After stop() one more connection is accepted at most, and with the next *)
(* one spin() returns (netapp.cpp:1090-1098).                              *)
Stops ==
  /\ [](late <= 1)
  /\ asked /\ backlog # <<>> ~> spinning = "returned" \/ context # "on"

(* The two together: the loop of spin() goes on, and ends. *)
Served == Answered /\ Stops

=============================================================================
