----------------------------- MODULE LpssChannel -----------------------------
(***************************************************************************)
(* How the messages of one topic get from the DataWriters to one           *)
(* DataReader.  A writer on the same host puts the latest message into a   *)
(* LatestBytesSHM that both ends open by name and sends a datagram to wake *)
(* the reader; a remote writer sends the message itself, here in one       *)
(* datagram (MtpReassembly has the fragments).  Each action is what a      *)
(* coroutine of the async versions does between two suspensions; read() of *)
(* the thread version goes through the same sections.                      *)
(*                                                                         *)
(* A message is the number of the call of write that was given it.  The    *)
(* kernel keeps the datagrams for the reader in the order sent and loses   *)
(* none.                                                                   *)
(***************************************************************************)
EXTENDS Integers, Sequences, FiniteSets, SequencesExt

CONSTANTS
  Writers,
  Locals,     (* the sets of writers that may be on the reader's host      *)
  MaxWrites,  (* MaxWrites[w] : bound on the calls of write of w           *)
  MaxRepeats  (* bound on the endpoints announced again or removed         *)

ASSUME LocalsAssumption == Locals \subseteq SUBSET Writers
ASSUME BoundsAssumption == MaxWrites \in [Writers -> Nat] /\ MaxRepeats \in Nat

VARIABLES
  local,   (* the writers on the reader's host                             *)
  calls,   (* the calls of write so far                                    *)
  sending, (* the message write is sending, 0 if _sending is false         *)
  pending, (* _pending, 0 if empty                                         *)
  held,    (* the end of the channel write still holds                     *)
  target,  (* is the reader a target of the writer?                        *)
  name,    (* the object the name of the channel is linked to, 0 if none   *)
  objects, (* the contents of the objects made for the channel so far      *)
  wend,    (* the writer's end of the channel                              *)
  rend,    (* the reader's end                                             *)
  seen,    (* MTPShmSource::sequence                                       *)
  sock,    (* the datagrams in the reader's socket                         *)
  rpc,     (* "check" : read() looks at the channels; "wait" : in multiread*)
  got,     (* the messages read() has returned                             *)
  due,     (* history : the last message written to a reader that listened *)
           (* and not too large to be sent                                 *)
  repeats  (* how many announcements were repeated                         *)

shm == <<name, objects, wend, rend, seen>>
writing == <<calls, sending, pending, held>>
reading == <<sock, rpc, got>>
vars == <<local, writing, target, shm, reading, due, repeats>>

(* An end of a channel: the object it maps, and whether it made it. *)
NoEnd == [obj |-> 0, creator |-> FALSE]
Note == <<>>

Init ==
  /\ local \in Locals
  /\ calls = [w \in Writers |-> 0] /\ sending = [w \in Writers |-> 0]
  /\ pending = [w \in Writers |-> 0] /\ held = [w \in Writers |-> NoEnd]
  /\ target = [w \in Writers |-> FALSE]
  /\ name = [w \in Writers |-> 0] /\ objects = [w \in Writers |-> <<>>]
  /\ wend = [w \in Writers |-> NoEnd] /\ rend = [w \in Writers |-> NoEnd]
  /\ seen = [w \in Writers |-> 0]
  /\ sock = <<>> /\ rpc = "check" /\ got = <<>>
  /\ due = [w \in Writers |-> 0]
  /\ repeats = 0

-----------------------------------------------------------------------------
(* add and remove of both ends *)

Linked(w) == name[w] # 0

(* The constructor of LatestBytesSHM: open what has the name, or make it.  *)
OpenedEnd(w) == [obj |-> IF Linked(w) THEN name[w] ELSE Len(objects[w]) + 1, creator |-> ~Linked(w)]

Opened(w) ==
  objects' = IF Linked(w) THEN objects
             ELSE [objects EXCEPT ![w] = Append(@, [seq |-> 0, msg |-> 0])]

(* The name after a new end has been opened and an old one destroyed.  The *)
(* one who made an object removes the name, whatever it is linked to now.  *)
NameAfter(w, new, old) == IF old.creator THEN 0 ELSE IF new.obj = 0 THEN name[w] ELSE new.obj

(* What holds an end still when its table entry is replaced. *)
Released(w) == IF held[w] = wend[w] THEN NoEnd ELSE wend[w]

Repeat(again) == repeats' = IF again THEN repeats + 1 ELSE repeats
MayRepeat(again) == again => repeats < MaxRepeats

(* DataWriterBase::add; the new channel is opened before the old one goes. *)
WriterAdd(w) ==
  /\ MayRepeat(target[w])
  /\ target' = [target EXCEPT ![w] = TRUE]
  /\ IF w \in local
     THEN /\ Opened(w)
          /\ wend' = [wend EXCEPT ![w] = OpenedEnd(w)]
          /\ name' = [name EXCEPT ![w] = NameAfter(w, OpenedEnd(w), Released(w))]
     ELSE UNCHANGED <<objects, wend, name>>
  /\ Repeat(target[w])
  /\ UNCHANGED <<local, writing, rend, seen, reading, due>>

WriterRemove(w) ==
  /\ target[w] /\ MayRepeat(TRUE)
  /\ target' = [target EXCEPT ![w] = FALSE]
  /\ wend' = [wend EXCEPT ![w] = NoEnd]
  /\ name' = [name EXCEPT ![w] = NameAfter(w, NoEnd, Released(w))]
  /\ Repeat(TRUE)
  /\ UNCHANGED <<local, writing, objects, rend, seen, reading, due>>

(* DataReaderBase::add; there is nothing to do for a remote writer. *)
ReaderAdd(w) ==
  /\ w \in local /\ MayRepeat(rend[w] # NoEnd)
  /\ Opened(w)
  /\ rend' = [rend EXCEPT ![w] = OpenedEnd(w)]
  /\ name' = [name EXCEPT ![w] = NameAfter(w, OpenedEnd(w), rend[w])]
  /\ seen' = [seen EXCEPT ![w] = 0]
  /\ Repeat(rend[w] # NoEnd)
  /\ UNCHANGED <<local, writing, target, wend, reading, due>>

ReaderRemove(w) ==
  /\ rend[w] # NoEnd /\ MayRepeat(TRUE)
  /\ rend' = [rend EXCEPT ![w] = NoEnd]
  /\ name' = [name EXCEPT ![w] = NameAfter(w, NoEnd, rend[w])]
  /\ Repeat(TRUE)
  /\ UNCHANGED <<local, writing, target, objects, wend, seen, reading, due>>

-----------------------------------------------------------------------------
(* DataWriterBase::write *)

(* Start with message n: take the targets and put it into the channel.     *)
(* The datagram follows when the socket can be written.                    *)
Begin(w, n) ==
  /\ sending' = [sending EXCEPT ![w] = IF target[w] THEN n ELSE 0]
  /\ held' = [held EXCEPT ![w] = wend[w]]
  /\ objects' = IF wend[w] = NoEnd THEN objects
                ELSE [objects EXCEPT ![w][wend[w].obj] = [seq |-> @.seq + 1, msg |-> n]]

Listening(w) == target[w] /\ (w \in local => rend[w] # NoEnd)

(* Faulty variant: the first message that waits is kept, not the last.     *)
WriteKeepsFirst(w) ==
  LET n == calls[w] + 1 IN
  /\ calls[w] < MaxWrites[w]
  /\ calls' = [calls EXCEPT ![w] = n]
  /\ IF sending[w] # 0
     THEN /\ pending' = [pending EXCEPT ![w] = IF @ = 0 THEN n ELSE @]
          /\ UNCHANGED <<sending, held, objects>>
     ELSE Begin(w, n) /\ UNCHANGED pending
  /\ due' = [due EXCEPT ![w] = IF Listening(w) THEN n ELSE @]
  /\ UNCHANGED <<local, target, name, wend, rend, seen, reading, repeats>>

(* While a message is under way, the next one waits in _pending and takes  *)
(* the place of the one that waited there.                                 *)
Write(w) ==
  LET n == calls[w] + 1 IN
  /\ calls[w] < MaxWrites[w]
  /\ calls' = [calls EXCEPT ![w] = n]
  /\ IF sending[w] # 0
     THEN pending' = [pending EXCEPT ![w] = n] /\ UNCHANGED <<sending, held, objects>>
     ELSE Begin(w, n) /\ UNCHANGED pending
  /\ due' = [due EXCEPT ![w] = IF Listening(w) THEN n ELSE @]
  /\ UNCHANGED <<local, target, name, wend, rend, seen, reading, repeats>>

(* The message is larger than the channel, or cannot be cut to the size of *)
(* the datagrams: it is sent to nobody, and write is done with it at once. *)
WriteTooLarge(w) ==
  /\ calls[w] < MaxWrites[w]
  /\ sending[w] = 0 /\ target[w]
  /\ calls' = [calls EXCEPT ![w] = @ + 1]
  /\ UNCHANGED <<local, sending, pending, held, target, shm, reading, due, repeats>>

(* Faulty variant: only the end that made the channel wakes the reader. *)
ResumeSilent(w) ==
  /\ sending[w] # 0
  /\ sock' = IF w \in local /\ ~held[w].creator THEN sock
             ELSE Append(sock, IF w \in local THEN Note ELSE <<w, sending[w]>>)
  /\ name' = [name EXCEPT ![w] = IF held[w].creator /\ wend[w] # held[w] THEN 0 ELSE @]
  /\ IF pending[w] # 0
     THEN Begin(w, pending[w])
     ELSE /\ sending' = [sending EXCEPT ![w] = 0] /\ held' = [held EXCEPT ![w] = NoEnd]
          /\ UNCHANGED objects
  /\ pending' = [pending EXCEPT ![w] = 0]
  /\ UNCHANGED <<local, calls, target, wend, rend, seen, rpc, got, due, repeats>>

(* The datagram goes out, the copies of the targets are released, and the  *)
(* message that waits is next.                                             *)
Resume(w) ==
  /\ sending[w] # 0
  /\ sock' = Append(sock, IF w \in local THEN Note ELSE <<w, sending[w]>>)
  /\ name' = [name EXCEPT ![w] = IF held[w].creator /\ wend[w] # held[w] THEN 0 ELSE @]
  /\ IF pending[w] # 0
     THEN Begin(w, pending[w])
     ELSE /\ sending' = [sending EXCEPT ![w] = 0] /\ held' = [held EXCEPT ![w] = NoEnd]
          /\ UNCHANGED objects
  /\ pending' = [pending EXCEPT ![w] = 0]
  /\ UNCHANGED <<local, calls, target, wend, rend, seen, rpc, got, due, repeats>>

(* The message that waited is too large; then the one that has gone out is *)
(* the last to arrive.                                                     *)
ResumeTooLarge(w) ==
  /\ pending[w] # 0 /\ target[w]
  /\ sock' = Append(sock, IF w \in local THEN Note ELSE <<w, sending[w]>>)
  /\ name' = [name EXCEPT ![w] = IF held[w].creator /\ wend[w] # held[w] THEN 0 ELSE @]
  /\ sending' = [sending EXCEPT ![w] = 0] /\ held' = [held EXCEPT ![w] = NoEnd]
  /\ pending' = [pending EXCEPT ![w] = 0]
  /\ due' = [due EXCEPT ![w] = IF @ > sending[w] THEN sending[w] ELSE @]
  /\ UNCHANGED <<local, calls, target, objects, wend, rend, seen, rpc, got, repeats>>

-----------------------------------------------------------------------------
(* DataReaderBase::read *)

Content(w) == objects[w][rend[w].obj]

Unread == {w \in Writers : rend[w] # NoEnd /\ Content(w).seq \notin {0, seen[w]}}

(* Faulty variant: the sequence is not remembered. *)
TakeForget(w) ==
  /\ got' = Append(got, <<w, Content(w).msg>>)
  /\ UNCHANGED seen

(* read_shm_sources *)
Take(w) ==
  /\ got' = Append(got, <<w, Content(w).msg>>)
  /\ seen' = [seen EXCEPT ![w] = Content(w).seq]

ReadChannel ==
  /\ rpc = "check"
  /\ \E w \in Unread : Take(w)
  /\ UNCHANGED <<local, writing, target, name, objects, wend, rend, sock, rpc, due, repeats>>

NothingThere ==
  /\ rpc = "check" /\ Unread = {}
  /\ rpc' = "wait"
  /\ UNCHANGED <<local, writing, target, shm, sock, got, due, repeats>>

(* multiread returns.  If there is a message in a channel now, it is       *)
(* returned and the datagram is forgotten, whatever it was.                *)
Receive ==
  /\ rpc = "wait" /\ sock # <<>>
  /\ sock' = Tail(sock)
  /\ rpc' = "check"
  /\ IF Unread # {} THEN \E w \in Unread : Take(w)
     ELSE /\ got' = IF Head(sock) = Note THEN got ELSE Append(got, Head(sock))
          /\ UNCHANGED seen
  /\ UNCHANGED <<local, writing, target, name, objects, wend, rend, due, repeats>>

-----------------------------------------------------------------------------
Next ==
  \/ \E w \in Writers :
       \/ WriterAdd(w) \/ WriterRemove(w) \/ ReaderAdd(w) \/ ReaderRemove(w)
       \/ Write(w) \/ WriteTooLarge(w) \/ Resume(w) \/ ResumeTooLarge(w)
  \/ ReadChannel \/ NothingThere \/ Receive

Spec == Init /\ [][Next]_vars

(* The IOContext resumes what can go on: the senders and the reader. *)
Fairness ==
  /\ \A w \in Writers : WF_vars(Resume(w) \/ ResumeTooLarge(w))
  /\ WF_vars(ReadChannel \/ NothingThere \/ Receive)

LiveSpec == Spec /\ Fairness

-----------------------------------------------------------------------------
(* Properties *)

Ends(w) == [obj : 0 .. Len(objects[w]), creator : BOOLEAN]

(* Every variable has a value of its type, and a message waits only while  *)
(* another is sent: otherwise nobody would send it (node_rmtp.cpp:530).    *)
TypeOK ==
  /\ \A w \in Writers :
       /\ calls[w] \in 0 .. MaxWrites[w]
       /\ sending[w] \in 0 .. calls[w] /\ pending[w] \in 0 .. calls[w]
       /\ pending[w] # 0 => sending[w] # 0
       /\ name[w] \in 0 .. Len(objects[w])
       /\ wend[w] \in Ends(w) /\ rend[w] \in Ends(w) /\ held[w] \in Ends(w)
       /\ due[w] \in 0 .. calls[w]
  /\ local \in Locals /\ rpc \in {"check", "wait"}
  /\ repeats \in 0 .. MaxRepeats

(* The messages of a writer are returned in the order written, and none of *)
(* them twice, though the wake-ups and the channel go separate ways        *)
(* (node_rmtp.cpp:353-361, :612-650); endpoints announced again are        *)
(* another matter: a new end starts to read from the beginning.            *)
Ordered ==
  repeats = 0 =>
    \A i, j \in DOMAIN got : i < j /\ got[i][1] = got[j][1] => got[i][2] < got[j][2]

(* When nothing is under way any more, the reader has returned the last    *)
(* message every writer wrote to it: of the messages that wait while       *)
(* another is sent it is the last one that is kept, and it arrives         *)
(* (test_node.cpp:284-314).  A remote writer's message may be thrown away  *)
(* when there are local writers too.                                       *)
LastArrives ==
  repeats = 0 /\ rpc = "wait" /\ sock = <<>> /\ (\A w \in Writers : sending[w] = 0) =>
    \A w \in Writers :
      due[w] # 0 /\ (w \in local \/ local = {}) =>
        \E i \in DOMAIN got : got[i][1] = w /\ got[i][2] >= due[w]

(* A message written to a local reader that listens is returned, or a      *)
(* later one of that writer, whatever else the reader is sent; unless it   *)
(* proves too large when its turn comes.                                   *)
LocalArrives ==
  \A w \in Writers : \A n \in 1 .. MaxWrites[w] :
    w \in local /\ due[w] = n
      ~> repeats # 0 \/ due[w] < n \/ \E i \in DOMAIN got : got[i][1] = w /\ got[i][2] >= n

(* A reader gets messages in order, and the last one.                      *)
LastInOrder == Ordered /\ LastArrives

=============================================================================
