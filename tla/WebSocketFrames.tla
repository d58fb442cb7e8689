--------------------------- MODULE WebSocketFrames ---------------------------
(***************************************************************************)
(* rm::async::WebSocket: what recv() makes of the frames that a client     *)
(* sends, and send() of a message.  The bytes of the connection are        *)
(* numbered from 1; they arrive in pieces of any size, and each read takes *)
(* what is there.  A frame that a client sends is [op, len, masked].       *)
(***************************************************************************)
EXTENDS Integers, Sequences, SequencesExt, FiniteSetsExt

CONSTANTS
  Streams,   (* the sequences of frames that the client may send           *)
  Cuts,      (* the bytes of a frame after which a piece may end           *)
  Garbage,   (* the headers that bytes in the middle of a frame may make   *)
  Chunk,     (* the bytes that one recv() takes at most (65536)            *)
  Sizes,     (* the sizes of the messages that the handler sends           *)
  MaxRecvs,  (* bound on the calls of recv()                               *)
  MaxSends   (* bound on the calls of send()                               *)

Assumptions ==
  /\ \A s \in Streams : s \in Seq([op : {"text", "close", "ping"}, len : Nat, masked : BOOLEAN])
  /\ Cuts \subseteq Nat \ {0} /\ Sizes \subseteq Nat /\ MaxRecvs \in Nat /\ MaxSends \in Nat /\ Chunk \in Nat \ {0}

VARIABLES
  frames,   (* what the client sends                                       *)
  arrived,  (* the bytes of it that have arrived                           *)
  closed,   (* the client has closed the connection                        *)
  open,     (* is_open()                                                   *)
  pc,       (* where recv() is                                             *)
  from,     (* the bytes before those in its buffer                        *)
  size,     (* the bytes in its buffer                                     *)
  header,   (* the header it has decoded                                   *)
  returned, (* history: the bytes of each message returned: <<first, last>>*)
  sent,     (* history: the frames sent and what send() returned           *)
  faults    (* history: "split", a first read of one byte; "mixed", a read *)
            (* past the end of a frame                                     *)

incoming == <<frames, arrived, closed>>
local == <<pc, from, size, header>>
vars == <<incoming, open, local, returned, sent, faults>>

NoHeader == [op |-> "text", len |-> 0, masked |-> FALSE]

Empty == <<1, 0>>

-----------------------------------------------------------------------------
(* Frames *)

(* The second byte of a frame says the length, or how long the length is.  *)
LengthCode(n) == IF n <= 125 THEN n ELSE IF n <= 65535 THEN 126 ELSE 127

LengthBytes(code) == IF code = 126 THEN 2 ELSE IF code = 127 THEN 8 ELSE 0

(* Faulty variant: the key that masks the payload is taken for payload.    *)
HeaderLenNoMask(h) == 2 + LengthBytes(LengthCode(h.len))

HeaderLen(h) == 2 + LengthBytes(LengthCode(h.len)) + (IF h.masked THEN 4 ELSE 0)

FrameLen(f) == 2 + LengthBytes(LengthCode(f.len)) + (IF f.masked THEN 4 ELSE 0) + f.len

(* The bytes before frame i. *)
Before(i) == FoldLeft(LAMBDA n, f : n + FrameLen(f), 0, SubSeq(frames, 1, i - 1))

Starts == {i \in DOMAIN frames : Before(i) = from}

Ends == {Before(i + 1) : i \in DOMAIN frames}

Marks == Ends \cup {Before(i) + k : i \in DOMAIN frames, k \in Cuts}

Total == Before(Len(frames) + 1)

Init ==
  /\ frames \in Streams /\ arrived = 0 /\ closed = FALSE /\ open = TRUE
  /\ pc = "idle" /\ from = 0 /\ size = 0 /\ header = NoHeader
  /\ returned = <<>> /\ sent = <<>> /\ faults = {}

-----------------------------------------------------------------------------
Arrive(n) ==
  /\ ~closed /\ n \in arrived + 1 .. Total
  /\ arrived' = n
  /\ UNCHANGED <<frames, closed, open, local, returned, sent, faults>>

Close ==
  /\ ~closed
  /\ closed' = TRUE
  /\ UNCHANGED <<frames, arrived, open, local, returned, sent, faults>>

Recv ==
  /\ pc = "idle" /\ open /\ Len(returned) < MaxRecvs
  /\ pc' = "first"
  /\ UNCHANGED <<incoming, open, from, size, header, returned, sent, faults>>

(* recv() returns; what else the buffer holds is gone. *)
Return(message, end) ==
  /\ returned' = Append(returned, message)
  /\ from' = end /\ size' = 0 /\ header' = NoHeader /\ pc' = "idle"

(* The header that the first two bytes in the buffer make. *)
Headers == IF pc # "first" THEN {header}
           ELSE IF Starts # {} THEN {frames[i] : i \in Starts} ELSE Garbage

(* What has been read is enough, or payload cannot be had any more.        *)
Finish(h, end) ==
  /\ open' = (h.op # "close")
  /\ Return(IF h.op = "close" THEN Empty
            ELSE <<from + HeaderLen(h) + 1, Min({from + HeaderLen(h) + h.len, end})>>, end)

(* co_await _sock.read(), and recv() as far as it comes with it.  While it *)
(* collects the header it does not mind that nothing more comes.           *)
Read ==
  LET n == Min({arrived - from - size, Chunk})
      total == size + n IN
  /\ pc # "idle"
  /\ n > 0 \/ closed
  /\ faults' = faults \cup {f \in {"split", "mixed"} :
                              \/ f = "split" /\ pc = "first" /\ n = 1
                              \/ f = "mixed" /\ \E e \in Ends : from < e /\ e < from + total}
  /\ IF pc = "first" /\ total < 2
     THEN Return(Empty, from + total) /\ UNCHANGED open
     ELSE \E h \in Headers :
            IF total < HeaderLen(h)
            THEN /\ pc' = "header" /\ size' = total /\ header' = h
                 /\ UNCHANGED <<open, from, returned>>
            ELSE IF total < HeaderLen(h) + h.len /\ (n > 0 \/ pc # "payload")
            THEN /\ pc' = "payload" /\ size' = total /\ header' = h
                 /\ UNCHANGED <<open, from, returned>>
            ELSE Finish(h, from + total)
  /\ UNCHANGED <<incoming, sent>>

(* send(n bytes): an unmasked frame in one write, which fails if the       *)
(* client has gone; the size is returned as a bool.                        *)
Send(n) ==
  /\ pc = "idle" /\ Len(sent) < MaxSends
  /\ LET code == LengthCode(n) IN
     \E ok \in IF open THEN {TRUE, ~closed} ELSE {FALSE} :
       sent' = Append(sent, [code |-> code, len |-> IF code = 126 THEN n % 65536 ELSE n,
                             size |-> n, result |-> ok /\ n # 0])
  /\ UNCHANGED <<incoming, open, local, returned, faults>>

Next ==
  \/ \E n \in Marks : Arrive(n)
  \/ Close \/ Recv \/ Read
  \/ \E n \in Sizes : Send(n)

Spec == Init /\ [][Next]_vars

(* The loop resumes recv() when there is something to read or the client   *)
(* has closed (EventLoop, Progress).                                       *)
Fairness == WF_vars(Read)

LiveSpec == Spec /\ Fairness

-----------------------------------------------------------------------------
(* Properties *)

(* Every variable has a value of its type; what is in the buffer has       *)
(* arrived.                                                                *)
TypeOK ==
  /\ frames \in Streams /\ closed \in BOOLEAN /\ open \in BOOLEAN
  /\ from + size <= arrived /\ arrived <= Total
  /\ pc \in {"idle", "first", "header", "payload"}
  /\ Len(returned) <= MaxRecvs /\ Len(sent) <= MaxSends /\ faults \subseteq {"split", "mixed"}

(* The payload of frame i, as recv() should return it. *)
Payload(i) ==
  IF i > Len(frames) \/ frames[i].op = "close" THEN Empty
  ELSE <<Before(i + 1) - frames[i].len + 1, Before(i + 1)>>

(* As long as no read goes past the end of a frame and none brings one     *)
(* byte only, call i of recv() returns the payload of frame i, whatever    *)
(* its length and however it is cut; when the connection ends, the rest of *)
(* what there is of the last one, and then nothing (netapp.cpp:849-915).   *)
(* And recv() does return when a whole frame has arrived.                  *)
Intact ==
  /\ [](faults = {} =>
          \A i \in DOMAIN returned :
            \/ returned[i] = Payload(i)
            \/ /\ closed
               /\ \/ returned[i] = Empty
                  \/ returned[i][1] = Payload(i)[1] /\ returned[i][2] < Payload(i)[2]
               /\ \A j \in i + 1 .. Len(returned) : returned[j] = Empty)
  /\ (faults = {} /\ pc # "idle" /\ \E e \in Ends : from < e /\ e <= arrived)
       ~> (pc = "idle" \/ faults # {})

(* "recv returns an empty string when the connection is closed"            *)
(* (netapp.md:240), "until a message of the client or the end of the       *)
(* connection" (netapp.hpp:388): whatever it waits for, recv() returns     *)
(* once the client has closed.  Not so in the middle of a header.          *)
ReturnsOnClose == closed /\ pc # "idle" ~> pc = "idle"

=============================================================================
