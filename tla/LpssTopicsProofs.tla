--------------------------- MODULE LpssTopicsProofs ---------------------------
(***************************************************************************)
(* LastInOrder for any writers, wherever they are, and any number of       *)
(* messages: as long as no endpoint was announced again a channel has one  *)
(* object, which both ends map.                                            *)
(*                                                                         *)
(* AnswersMatch for any clients, coroutines, hosts and number of calls, as *)
(* long as the sequence numbers do not come round.  The invariant adds to  *)
(* it where the messages of a call can be: a request lies in its client's  *)
(* queue before any later one and has not been served, no message is of a  *)
(* call that has not been made, and what a client has stored answers the   *)
(* call that it has under way.                                             *)
(*                                                                         *)
(* Reassembles for any writers, messages, datagram sizes and budget, and   *)
(* any number of faults.  The invariant says where each piece of a message *)
(* is: of the messages that are the newest with their sequence number, all *)
(* fragments on the way and all parts stored are pieces, cut at the same   *)
(* width, and a message that is not delivered, spoiled or too large has    *)
(* every piece in one of the two.                                          *)
(***************************************************************************)
EXTENDS LpssChannel, LpssService, MtpReassembly, Inductions, FiniteSetTheorems, SequenceTheorems, TLAPS

-----------------------------------------------------------------------------
(* LpssChannel: the invariant *)


Cells == [seq : Nat, msg : Nat]
AnyEnd == [obj : Nat, creator : BOOLEAN]

ChannelTypes ==
  /\ local \subseteq Writers
  /\ calls \in [Writers -> Nat] /\ sending \in [Writers -> Nat] /\ pending \in [Writers -> Nat]
  /\ target \in [Writers -> BOOLEAN] /\ objects \in [Writers -> Seq(Cells)]
  /\ wend \in [Writers -> AnyEnd] /\ rend \in [Writers -> AnyEnd] /\ held \in [Writers -> AnyEnd]
  /\ name \in [Writers -> Nat] /\ seen \in [Writers -> Nat] /\ due \in [Writers -> Nat]
  /\ got \in Seq(Writers \X Nat) /\ sock \in Seq({Note} \cup (Writers \X Nat))
  /\ rpc \in {"check", "wait"}

(* The ends map the one object there is, which has the name; a message is  *)
(* sent to a target, and one waits behind it only, the last that was       *)
(* written.                                                                *)
OneObject(w) ==
  /\ Len(objects[w]) \in {0, 1} /\ name[w] = Len(objects[w])
  /\ wend[w] # NoEnd => wend[w].obj = 1 /\ Len(objects[w]) = 1
  /\ rend[w] # NoEnd => rend[w].obj = 1 /\ Len(objects[w]) = 1
  /\ w \in local => (wend[w] # NoEnd <=> target[w])
  /\ w \notin local => wend[w] = NoEnd /\ rend[w] = NoEnd /\ Len(objects[w]) = 0
  /\ rend[w] = NoEnd => seen[w] = 0

OneWaits(w) ==
  /\ sending[w] # 0 => target[w] /\ held[w] = wend[w]
  /\ pending[w] # 0 => sending[w] # 0 /\ sending[w] < pending[w] /\ pending[w] = calls[w]
  /\ sending[w] <= calls[w]

Cell(w) == objects[w][1]

(* The object holds the message that is being sent; the reader has seen it *)
(* and returned it, or has returned earlier ones only.                     *)
InChannel(w) ==
  /\ Len(objects[w]) = 0 /\ w \in local => \A i \in DOMAIN got : got[i][1] # w
  /\ Len(objects[w]) = 1 =>
       /\ Cell(w).msg <= calls[w] /\ seen[w] <= Cell(w).seq
       /\ Cell(w).seq = 0 => Cell(w).msg = 0
       /\ sending[w] # 0 => Cell(w).msg = sending[w]
       /\ Cell(w).seq # 0 /\ seen[w] = Cell(w).seq => \E i \in DOMAIN got : got[i] = <<w, Cell(w).msg>>
       /\ \A i \in DOMAIN got :
            got[i][1] = w => /\ got[i][2] <= Cell(w).msg
                             /\ seen[w] # Cell(w).seq => got[i][2] < Cell(w).msg

From(w, j) == sock[j] # Note /\ sock[j][1] = w

(* What was returned of a remote writer, what is in the socket and what is *)
(* being sent come in this order.                                          *)
InSocket(w) ==
  /\ w \in local => \A j \in DOMAIN sock : ~From(w, j)
  /\ w \notin local =>
       /\ \A i \in DOMAIN got :
            got[i][1] = w => /\ got[i][2] <= calls[w]
                             /\ sending[w] # 0 => got[i][2] < sending[w]
                             /\ \A j \in DOMAIN sock : From(w, j) => got[i][2] < sock[j][2]
       /\ \A j \in DOMAIN sock :
            From(w, j) => /\ sock[j][2] <= calls[w]
                          /\ sending[w] # 0 => sock[j][2] < sending[w]
       /\ \A j, k \in DOMAIN sock : j < k /\ From(w, j) /\ From(w, k) => sock[j][2] < sock[k][2]

(* The last message to a reader that listened is in the channel or waits   *)
(* to be put there, and somebody will wake the reader for it.              *)
DueInChannel(w) ==
  w \in local /\ due[w] # 0 =>
    /\ wend[w] # NoEnd /\ rend[w] # NoEnd
    /\ IF pending[w] # 0 THEN due[w] <= pending[w] ELSE due[w] <= Cell(w).msg
    /\ rpc = "wait" /\ seen[w] # Cell(w).seq => sending[w] # 0 \/ \E j \in DOMAIN sock : sock[j] = Note

(* It is on its way, or there, if all writers are remote.                  *)
DueInSocket(w) ==
  local = {} /\ due[w] # 0 =>
    \/ \E i \in DOMAIN got : got[i][1] = w /\ got[i][2] >= due[w]
    \/ \E j \in DOMAIN sock : From(w, j) /\ sock[j][2] >= due[w]
    \/ sending[w] >= due[w] \/ pending[w] >= due[w]

Sound(w) ==
  /\ OneObject(w) /\ OneWaits(w) /\ InChannel(w) /\ InSocket(w)
  /\ DueInChannel(w) /\ DueInSocket(w) /\ due[w] <= calls[w]

InTurn == \A i, j \in DOMAIN got : i < j /\ got[i][1] = got[j][1] => got[i][2] < got[j][2]

FirstTime == ChannelTypes /\ InTurn /\ \A w \in Writers : Sound(w)

ChannelInv == repeats \in Nat /\ (repeats = 0 => FirstTime)

-----------------------------------------------------------------------------
(* A datagram with a message is not a wake-up. *)
LEMMA NotNote == \A w \in Writers, n \in Nat : <<w, n>> # Note
BY DEF Note

(* The object has a number and a message, and so has what was returned. *)
LEMMA CellType ==
  ASSUME ChannelTypes, NEW w \in Writers, Len(objects[w]) = 1
  PROVE  Cell(w) \in Cells /\ Cell(w).seq \in Nat /\ Cell(w).msg \in Nat
<1>1. objects[w] \in Seq(Cells) BY DEF ChannelTypes
<1>2. objects[w][1] \in Cells BY <1>1
<1> QED BY <1>2 DEF Cell, Cells

LEMMA MessageTypes ==
  ASSUME ChannelTypes
  PROVE  /\ \A i \in DOMAIN got : got[i] \in Writers \X Nat
         /\ \A j \in DOMAIN sock : sock[j] # Note => sock[j] \in Writers \X Nat
<1>1. got \in Seq(Writers \X Nat) /\ sock \in Seq({Note} \cup (Writers \X Nat)) BY DEF ChannelTypes
<1>2. \A i \in DOMAIN got : got[i] \in Writers \X Nat BY <1>1
<1>3. \A j \in DOMAIN sock : sock[j] \in {Note} \cup (Writers \X Nat) BY <1>1
<1> QED BY <1>2, <1>3

(* Nothing goes out while a message is written. *)
LEMMA SocketKept ==
  ASSUME ChannelTypes, NEW w \in Writers, InSocket(w), UNCHANGED <<local, got, sock>>,
         calls'[w] = calls[w] + 1, sending'[w] \in {0, sending[w], calls[w] + 1}
  PROVE  InSocket(w)'
<1> SUFFICES ASSUME w \notin local PROVE InSocket(w)' BY DEF InSocket, From
<1>1. calls[w] \in Nat /\ sending[w] \in Nat BY DEF ChannelTypes
<1>2. ASSUME NEW i \in DOMAIN got, got[i][1] = w
      PROVE  got[i][2] <= calls'[w] /\ (sending'[w] # 0 => got[i][2] < sending'[w])
  <2>1. got[i][2] \in Nat BY MessageTypes
  <2>2. got[i][2] <= calls[w] /\ (sending[w] # 0 => got[i][2] < sending[w]) BY <1>2 DEF InSocket
  <2> QED BY <1>1, <2>1, <2>2
<1>3. ASSUME NEW j \in DOMAIN sock, From(w, j)
      PROVE  sock[j][2] <= calls'[w] /\ (sending'[w] # 0 => sock[j][2] < sending'[w])
  <2>1. sock[j][2] \in Nat BY <1>3, MessageTypes DEF From
  <2>2. sock[j][2] <= calls[w] /\ (sending[w] # 0 => sock[j][2] < sending[w]) BY <1>3 DEF InSocket
  <2> QED BY <1>1, <2>1, <2>2
<1>4. \A j \in DOMAIN sock : From(w, j)' <=> From(w, j) BY DEF From
<1> QED BY <1>2, <1>3, <1>4 DEF InSocket

(* A writer of which nothing changes, nor what all share, stays sound. *)
LEMMA Others ==
  ASSUME NEW v \in Writers, Sound(v), UNCHANGED <<local, got, sock, rpc>>,
         calls'[v] = calls[v], sending'[v] = sending[v], pending'[v] = pending[v],
         held'[v] = held[v], target'[v] = target[v], name'[v] = name[v],
         objects'[v] = objects[v], wend'[v] = wend[v], rend'[v] = rend[v],
         seen'[v] = seen[v], due'[v] = due[v]
  PROVE  Sound(v)'
BY DEF Sound, OneObject, OneWaits, InChannel, InSocket, DueInChannel, DueInSocket, Cell, From

-----------------------------------------------------------------------------
(* An endpoint finds the other for the first time. *)

LEMMA OpenedMakes ==
  ASSUME NEW w \in Writers, ChannelTypes, Sound(w), w \in local, Opened(w)
  PROVE  /\ OpenedEnd(w).obj = 1 /\ OpenedEnd(w) \in AnyEnd
         /\ objects' \in [Writers -> Seq(Cells)]
         /\ \A v \in Writers : v # w => objects'[v] = objects[v]
         /\ Len(objects'[w]) = 1
         /\ Len(objects[w]) = 1 => objects'[w] = objects[w]
         /\ Len(objects[w]) = 0 => objects'[w][1] = [seq |-> 0, msg |-> 0]
<1> DEFINE cell == [seq |-> 0, msg |-> 0]
<1>1. cell \in Cells BY DEF Cells
<1>2. objects[w] \in Seq(Cells) BY DEF ChannelTypes
<1>3. Len(objects[w]) \in {0, 1} /\ name[w] = Len(objects[w]) BY DEF Sound, OneObject
<1>4. OpenedEnd(w).obj = 1 /\ OpenedEnd(w) \in AnyEnd
  BY <1>3 DEF OpenedEnd, Linked, AnyEnd
<1>5. CASE Linked(w)
  BY <1>2, <1>3, <1>4, <1>5 DEF Opened, Linked, ChannelTypes
<1>6. CASE ~Linked(w)
  <2>1. objects' = [objects EXCEPT ![w] = Append(@, cell)] BY <1>6 DEF Opened
  <2>2. Len(objects[w]) = 0 BY <1>3, <1>6 DEF Linked
  <2>3. Append(objects[w], cell) \in Seq(Cells) /\ Len(Append(objects[w], cell)) = 1
        /\ Append(objects[w], cell)[1] = cell
    BY <1>1, <1>2, <2>2
  <2> QED BY <1>4, <2>1, <2>2, <2>3 DEF ChannelTypes
<1> QED BY <1>5, <1>6

LEMMA WriterAddKeeps ==
  ASSUME FirstTime, NEW w \in Writers, WriterAdd(w), repeats = 0, repeats' = 0
  PROVE  FirstTime'
<1>1. ChannelTypes /\ InTurn /\ \A v \in Writers : Sound(v) BY DEF FirstTime
<1>2. ~target[w] BY DEF WriterAdd, Repeat
<1>3. wend[w] = NoEnd /\ sending[w] = 0 /\ pending[w] = 0 /\ (w \in local => due[w] = 0)
  BY <1>1, <1>2 DEF Sound, OneObject, OneWaits, DueInChannel
<1>4. UNCHANGED <<local, calls, sending, pending, held, rend, seen, sock, rpc, got, due>>
  BY DEF WriterAdd, writing, reading
<1>5. target' = [target EXCEPT ![w] = TRUE] BY DEF WriterAdd
<1>6. InTurn' BY <1>1, <1>4 DEF InTurn
<1>7. CASE w \notin local
  <2>1. UNCHANGED <<objects, wend, name>> BY <1>7 DEF WriterAdd
  <2>2. ChannelTypes' BY <1>1, <1>4, <1>5, <2>1 DEF ChannelTypes
  <2>3. \A v \in Writers : v # w => Sound(v)'
    BY <1>1, <1>4, <1>5, <2>1, Others DEF ChannelTypes
  <2>4. Sound(w)'
    <3>1. target'[w] BY <1>1, <1>5 DEF ChannelTypes
    <3> QED BY <1>1, <1>3, <1>4, <1>7, <2>1, <3>1
          DEF Sound, OneObject, OneWaits, InChannel, InSocket, DueInChannel, DueInSocket, Cell, From
  <2> QED BY <1>6, <2>2, <2>3, <2>4 DEF FirstTime
<1>8. CASE w \in local
  <2>1. Opened(w) /\ wend' = [wend EXCEPT ![w] = OpenedEnd(w)]
        /\ name' = [name EXCEPT ![w] = NameAfter(w, OpenedEnd(w), Released(w))]
    BY <1>8 DEF WriterAdd
  <2>2. NameAfter(w, OpenedEnd(w), Released(w)) = 1
    BY <1>1, <1>3, <1>8, <2>1, OpenedMakes DEF NameAfter, Released, NoEnd
  <2>m. OpenedEnd(w).obj = 1 /\ OpenedEnd(w) \in AnyEnd /\ objects' \in [Writers -> Seq(Cells)]
        /\ Len(objects'[w]) = 1
    BY <1>1, <1>8, <2>1, OpenedMakes
  <2>n. wend'[w] = OpenedEnd(w) /\ name'[w] = 1 /\ target'[w] = TRUE
    BY <1>1, <1>5, <2>1, <2>2 DEF ChannelTypes
  <2>3. ChannelTypes'
    <3>1. wend' \in [Writers -> AnyEnd] BY <1>1, <2>1, <2>m DEF ChannelTypes
    <3>2. name' \in [Writers -> Nat] BY <1>1, <2>1, <2>2 DEF ChannelTypes
    <3>3. target' \in [Writers -> BOOLEAN] BY <1>1, <1>5 DEF ChannelTypes
    <3> QED BY <1>1, <1>4, <2>m, <3>1, <3>2, <3>3 DEF ChannelTypes
  <2>4. \A v \in Writers : v # w => Sound(v)'
    BY <1>1, <1>4, <1>5, <1>8, <2>1, Others, OpenedMakes DEF ChannelTypes
  <2>5. target'[w] /\ wend'[w].obj = 1 /\ wend'[w] # NoEnd /\ name'[w] = 1 /\ Len(objects'[w]) = 1
    BY <2>m, <2>n DEF NoEnd
  <2>6. OneObject(w)' /\ OneWaits(w)'
    BY <1>1, <1>3, <1>4, <1>8, <2>5 DEF Sound, OneObject, OneWaits
  <2>7. InChannel(w)'
    <3>1. CASE Len(objects[w]) = 1
      BY <1>1, <1>4, <1>8, <2>1, <2>5, <3>1, OpenedMakes DEF Sound, InChannel, Cell
    <3>2. CASE Len(objects[w]) = 0
      <4>1. seen[w] = 0 /\ \A i \in DOMAIN got : got[i][1] # w
        BY <1>1, <1>8, <3>2 DEF Sound, OneObject, InChannel
      <4>2. Cell(w)'.seq = 0 /\ Cell(w)'.msg = 0 BY <1>1, <1>8, <2>1, <3>2, OpenedMakes DEF Cell
      <4> QED BY <1>1, <1>3, <1>4, <2>5, <4>1, <4>2 DEF InChannel, ChannelTypes
    <3> QED BY <1>1, <3>1, <3>2 DEF Sound, OneObject
  <2>8. InSocket(w)' /\ DueInChannel(w)' /\ DueInSocket(w)' /\ due'[w] <= calls'[w]
    BY <1>1, <1>3, <1>4, <1>8 DEF Sound, InSocket, DueInChannel, DueInSocket, From
  <2> QED BY <1>6, <2>3, <2>4, <2>6, <2>7, <2>8 DEF FirstTime, Sound
<1> QED BY <1>7, <1>8

LEMMA ReaderAddKeeps ==
  ASSUME FirstTime, NEW w \in Writers, ReaderAdd(w), repeats = 0, repeats' = 0
  PROVE  FirstTime'
<1>1. ChannelTypes /\ InTurn /\ \A v \in Writers : Sound(v) BY DEF FirstTime
<1>2. w \in local /\ rend[w] = NoEnd BY DEF ReaderAdd, Repeat
<1>3. seen[w] = 0 /\ due[w] = 0 BY <1>1, <1>2 DEF Sound, OneObject, DueInChannel
<1>4. UNCHANGED <<local, calls, sending, pending, held, target, wend, sock, rpc, got, due>>
  BY DEF ReaderAdd, writing, reading
<1>5. Opened(w) /\ rend' = [rend EXCEPT ![w] = OpenedEnd(w)]
      /\ seen' = [seen EXCEPT ![w] = 0]
      /\ name' = [name EXCEPT ![w] = NameAfter(w, OpenedEnd(w), rend[w])]
  BY DEF ReaderAdd
<1>6. InTurn' BY <1>1, <1>4 DEF InTurn
<1>7. NameAfter(w, OpenedEnd(w), rend[w]) = 1
  BY <1>1, <1>2, <1>5, OpenedMakes DEF NameAfter, NoEnd
<1>m. OpenedEnd(w).obj = 1 /\ OpenedEnd(w) \in AnyEnd /\ objects' \in [Writers -> Seq(Cells)]
      /\ Len(objects'[w]) = 1
  BY <1>1, <1>2, <1>5, OpenedMakes
<1>n. rend'[w] = OpenedEnd(w) /\ name'[w] = 1 /\ seen'[w] = 0
  BY <1>1, <1>5, <1>7 DEF ChannelTypes
<1>8. ChannelTypes'
  <2>1. rend' \in [Writers -> AnyEnd] BY <1>1, <1>5, <1>m DEF ChannelTypes
  <2>2. name' \in [Writers -> Nat] BY <1>1, <1>5, <1>7 DEF ChannelTypes
  <2>3. seen' \in [Writers -> Nat] BY <1>1, <1>5 DEF ChannelTypes
  <2> QED BY <1>1, <1>4, <1>m, <2>1, <2>2, <2>3 DEF ChannelTypes
<1>9. \A v \in Writers : v # w => Sound(v)'
  BY <1>1, <1>2, <1>4, <1>5, Others, OpenedMakes DEF ChannelTypes
<1>10. rend'[w].obj = 1 /\ rend'[w] # NoEnd /\ name'[w] = 1 /\ Len(objects'[w]) = 1 /\ seen'[w] = 0
  BY <1>m, <1>n DEF NoEnd
<1>11. OneObject(w)' /\ OneWaits(w)'
  BY <1>1, <1>2, <1>4, <1>10 DEF Sound, OneObject, OneWaits
<1>12. InChannel(w)'
  <2>1. CASE Len(objects[w]) = 1
    <3>1. objects'[w] = objects[w] BY <1>1, <1>2, <1>5, <2>1, OpenedMakes
    <3> QED BY <1>1, <1>3, <1>4, <1>10, <2>1, <3>1 DEF Sound, InChannel, Cell
  <2>2. CASE Len(objects[w]) = 0
    <3>1. \A i \in DOMAIN got : got[i][1] # w
      BY <1>1, <1>2, <2>2 DEF Sound, InChannel
    <3>2. Cell(w)'.seq = 0 /\ Cell(w)'.msg = 0 BY <1>1, <1>2, <1>5, <2>2, OpenedMakes DEF Cell
    <3>3. sending[w] = 0 /\ calls[w] \in Nat
      <4>1. wend[w] = NoEnd BY <1>1, <1>2, <2>2 DEF Sound, OneObject
      <4>2. ~target[w] BY <1>1, <1>2, <4>1 DEF Sound, OneObject
      <4> QED BY <1>1, <4>2 DEF Sound, OneWaits, ChannelTypes
    <3> QED BY <1>4, <1>10, <3>1, <3>2, <3>3 DEF InChannel
  <2> QED BY <1>1, <2>1, <2>2 DEF Sound, OneObject
<1>13. InSocket(w)' /\ DueInChannel(w)' /\ DueInSocket(w)' /\ due'[w] <= calls'[w]
  BY <1>1, <1>2, <1>3, <1>4 DEF Sound, InSocket, DueInChannel, DueInSocket, From
<1> QED BY <1>6, <1>8, <1>9, <1>11, <1>12, <1>13 DEF FirstTime, Sound

-----------------------------------------------------------------------------
(* A message is written, and sent. *)

(* What Begin does to a local writer's object. *)
LEMMA Begun ==
  ASSUME NEW w \in Writers, ChannelTypes, OneObject(w), NEW n \in Nat, Begin(w, n)
  PROVE  /\ sending' = [sending EXCEPT ![w] = IF target[w] THEN n ELSE 0]
         /\ held' = [held EXCEPT ![w] = wend[w]]
         /\ sending' \in [Writers -> Nat] /\ held' \in [Writers -> AnyEnd]
         /\ objects' \in [Writers -> Seq(Cells)]
         /\ \A v \in Writers : v # w => objects'[v] = objects[v]
         /\ Len(objects'[w]) = Len(objects[w])
         /\ wend[w] = NoEnd => objects'[w] = objects[w]
         /\ wend[w] # NoEnd => /\ Cell(w)'.seq = Cell(w).seq + 1 /\ Cell(w)'.msg = n
                               /\ Cell(w).seq \in Nat /\ Cell(w).msg \in Nat
<1>1. /\ sending' = [sending EXCEPT ![w] = IF target[w] THEN n ELSE 0]
      /\ held' = [held EXCEPT ![w] = wend[w]]
  BY DEF Begin
<1>2. sending' \in [Writers -> Nat] /\ held' \in [Writers -> AnyEnd] BY <1>1 DEF ChannelTypes
<1>3. CASE wend[w] = NoEnd BY <1>1, <1>2, <1>3 DEF Begin, ChannelTypes
<1>4. CASE wend[w] # NoEnd
  <2>1. wend[w].obj = 1 /\ Len(objects[w]) = 1 BY <1>4 DEF OneObject
  <2>2. objects[w] \in Seq(Cells) /\ objects[w][1] \in Cells BY <2>1, CellType DEF ChannelTypes, Cell
  <2> DEFINE cell == [seq |-> objects[w][1].seq + 1, msg |-> n]
             filled == [objects[w] EXCEPT ![1] = cell]
  <2>3. cell \in Cells BY <2>2 DEF Cells
  <2>4. filled \in Seq(Cells) /\ Len(filled) = 1 /\ filled[1] = cell BY <2>1, <2>2, <2>3
  <2>5. objects' = [objects EXCEPT ![w] = filled] BY <1>4, <2>1 DEF Begin
  <2>6. objects'[w] = filled BY <2>5 DEF ChannelTypes
  <2>7. objects' \in [Writers -> Seq(Cells)] /\ \A v \in Writers : v # w => objects'[v] = objects[v]
    BY <2>4, <2>5 DEF ChannelTypes
  <2>8. Cell(w)'.seq = Cell(w).seq + 1 /\ Cell(w)'.msg = n BY <2>4, <2>6 DEF Cell
  <2>9. Cell(w).seq \in Nat /\ Cell(w).msg \in Nat BY <2>2 DEF Cell, Cells
  <2> QED BY <1>1, <1>2, <1>4, <2>1, <2>4, <2>6, <2>7, <2>8, <2>9
<1> QED BY <1>3, <1>4

LEMMA WriteKeeps ==
  ASSUME FirstTime, NEW w \in Writers, Write(w)
  PROVE  FirstTime'
<1> DEFINE n == calls[w] + 1
<1>1. ChannelTypes /\ InTurn /\ \A v \in Writers : Sound(v) BY DEF FirstTime
<1>2. UNCHANGED <<local, target, name, wend, rend, seen, sock, rpc, got>>
      /\ calls' = [calls EXCEPT ![w] = n]
      /\ due' = [due EXCEPT ![w] = IF Listening(w) THEN n ELSE @]
  BY DEF Write, reading
<1>3. n \in Nat /\ n > 0 /\ calls'[w] = n /\ calls[w] < n BY <1>1, <1>2 DEF ChannelTypes
<1>4. calls' \in [Writers -> Nat] /\ due' \in [Writers -> Nat]
      /\ due'[w] = (IF Listening(w) THEN n ELSE due[w])
  BY <1>1, <1>2, <1>3 DEF ChannelTypes
<1>5. InTurn' BY <1>1, <1>2 DEF InTurn
<1>6. OneObject(w) /\ OneWaits(w) /\ InChannel(w) /\ InSocket(w) /\ DueInChannel(w)
      /\ DueInSocket(w) /\ due[w] <= calls[w]
  BY <1>1 DEF Sound
<1>7. CASE sending[w] # 0
  <2>1. pending' = [pending EXCEPT ![w] = n] /\ UNCHANGED <<sending, held, objects>>
    BY <1>7 DEF Write
  <2>2. pending' \in [Writers -> Nat] /\ pending'[w] = n BY <1>1, <1>3, <2>1 DEF ChannelTypes
  <2>3. ChannelTypes' BY <1>1, <1>2, <1>4, <2>1, <2>2 DEF ChannelTypes
  <2>4. \A v \in Writers : v # w => Sound(v)' BY <1>1, <1>2, <2>1, Others DEF ChannelTypes
  <2>5. OneObject(w)' BY <1>2, <1>6, <2>1 DEF OneObject
  <2>6. OneWaits(w)' BY <1>1, <1>2, <1>3, <1>6, <1>7, <2>1, <2>2 DEF OneWaits, ChannelTypes
  <2>7. InChannel(w)'
    <3>1. Len(objects[w]) = 1 => Cell(w).msg \in Nat BY <1>1, CellType
    <3> QED BY SMTT(30), <1>1, <1>2, <1>3, <1>6, <2>1, <3>1 DEF InChannel, ChannelTypes, Cell
  <2>8. InSocket(w)' BY <1>1, <1>2, <1>3, <1>6, <2>1, SocketKept
  <2>9. DueInChannel(w)'
    <3> SUFFICES ASSUME w \in local, due'[w] # 0 PROVE DueInChannel(w)' BY <1>2 DEF DueInChannel
    <3>1. wend[w] # NoEnd BY <1>1, <1>6, <1>7 DEF OneWaits, OneObject
    <3>2. rend[w] # NoEnd BY <1>4, <1>6 DEF Listening, DueInChannel
    <3>3. due'[w] <= n BY <1>1, <1>3, <1>4, <1>6 DEF ChannelTypes
    <3> QED BY <1>2, <1>3, <1>7, <2>1, <2>2, <3>1, <3>2, <3>3 DEF DueInChannel
  <2>10. DueInSocket(w)' /\ due'[w] <= calls'[w]
    BY <1>1, <1>2, <1>3, <1>4, <1>6, <2>2 DEF DueInSocket, ChannelTypes
  <2> QED BY <1>5, <2>3, <2>4, <2>5, <2>6, <2>7, <2>8, <2>9, <2>10 DEF FirstTime, Sound
<1>8. CASE sending[w] = 0
  <2>1. Begin(w, n) /\ UNCHANGED pending BY <1>8 DEF Write
  <2>2. pending[w] = 0 BY <1>6, <1>8 DEF OneWaits
  <2>3. ChannelTypes' BY <1>1, <1>2, <1>3, <1>4, <1>6, <2>1, Begun DEF ChannelTypes
  <2>4. \A v \in Writers : v # w => Sound(v)'
    <3>1. \A v \in Writers : v # w => objects'[v] = objects[v]
      BY <1>1, <1>3, <1>6, <2>1, Begun
    <3>2. \A v \in Writers : v # w => sending'[v] = sending[v] /\ held'[v] = held[v]
      BY <1>1, <2>1 DEF ChannelTypes, Begin
    <3> QED BY <1>1, <1>2, <2>1, <3>1, <3>2, Others DEF ChannelTypes
  <2>5. sending'[w] = (IF target[w] THEN n ELSE 0) /\ held'[w] = wend[w]
        /\ Len(objects'[w]) = Len(objects[w])
    <3>1. sending'[w] = (IF target[w] THEN n ELSE 0) /\ held'[w] = wend[w]
      BY <1>1, <2>1 DEF ChannelTypes, Begin
    <3> QED BY <1>1, <1>3, <1>6, <2>1, <3>1, Begun
  <2>6. OneObject(w)' BY <1>2, <1>6, <2>5 DEF OneObject
  <2>7. OneWaits(w)' BY <1>2, <1>3, <1>6, <2>1, <2>2, <2>5 DEF OneWaits
  <2>8. wend[w] # NoEnd => /\ Cell(w)'.seq = Cell(w).seq + 1 /\ Cell(w)'.msg = n
                           /\ Cell(w).seq \in Nat /\ Cell(w).msg \in Nat
    BY <1>1, <1>3, <1>6, <2>1, Begun
  <2>9. wend[w] = NoEnd => objects'[w] = objects[w] BY <1>1, <1>3, <1>6, <2>1, Begun
  <2>10. InChannel(w)'
    <3>1. CASE wend[w] # NoEnd
      <4>1. Len(objects[w]) = 1 /\ Len(objects'[w]) = 1 BY <1>6, <2>5, <3>1 DEF OneObject
      <4>2. seen[w] \in Nat /\ \A i \in DOMAIN got : got[i][2] \in Nat BY <1>1, MessageTypes DEF ChannelTypes
      <4>3. \A i \in DOMAIN got : got[i][1] = w => got[i][2] <= Cell(w).msg
        BY <1>6, <4>1 DEF InChannel
      <4>4. seen[w] <= Cell(w).seq /\ Cell(w).msg <= calls[w] BY <1>6, <4>1 DEF InChannel
      <4>5. Cell(w)'.seq # 0 /\ Cell(w)'.seq # seen[w] /\ seen[w] <= Cell(w)'.seq
        BY <2>8, <3>1, <4>2, <4>4
      <4>6. \A i \in DOMAIN got : got[i][1] = w => got[i][2] < n
        <5>1. Cell(w).msg \in Nat /\ calls[w] \in Nat BY <1>1, <2>8, <3>1 DEF ChannelTypes
        <5> QED BY <4>2, <4>3, <4>4, <5>1
      <4>7. Cell(w)'.msg = n BY <2>8, <3>1
      <4>8. \A i \in DOMAIN got : got[i][1] = w => got[i][2] <= n BY <1>3, <4>2, <4>6
      <4> HIDE DEF n
      <4> QED BY <1>2, <1>3, <2>5, <4>1, <4>5, <4>6, <4>7, <4>8 DEF InChannel
    <3>2. CASE wend[w] = NoEnd
      <4>1. Len(objects[w]) = 1 => Cell(w).msg \in Nat BY <1>1, CellType
      <4>2. Cell(w)' = Cell(w) BY <2>9, <3>2 DEF Cell
      <4>3. Len(objects[w]) = 1 => w \in local BY <1>6 DEF OneObject
      <4>4. Len(objects[w]) = 1 => sending'[w] = 0 BY <1>1, <1>6, <2>5, <3>2, <4>3 DEF OneObject, ChannelTypes
      <4> QED BY <1>1, <1>2, <1>3, <1>6, <2>5, <4>1, <4>2, <4>4 DEF InChannel, ChannelTypes
    <3> QED BY <3>1, <3>2
  <2>11. InSocket(w)' BY <1>1, <1>2, <1>3, <1>6, <2>5, SocketKept
  <2>12. DueInChannel(w)'
    <3> SUFFICES ASSUME w \in local, due'[w] # 0 PROVE DueInChannel(w)' BY <1>2 DEF DueInChannel
    <3>1. target[w] /\ wend[w] # NoEnd /\ rend[w] # NoEnd
      BY <1>4, <1>6 DEF Listening, DueInChannel, OneObject
    <3>2. due'[w] <= n BY <1>1, <1>3, <1>4, <1>6 DEF ChannelTypes
    <3> QED BY <1>2, <1>3, <2>1, <2>2, <2>5, <2>8, <3>1, <3>2 DEF DueInChannel
  <2>13. DueInSocket(w)' /\ due'[w] <= calls'[w]
    <3>1. due'[w] <= calls'[w] BY <1>1, <1>3, <1>4, <1>6 DEF ChannelTypes
    <3>2. CASE target[w] BY <1>1, <1>3, <1>4, <1>6, <2>5, <3>1, <3>2 DEF DueInSocket, ChannelTypes
    <3>3. CASE ~target[w]
      BY <1>1, <1>2, <1>3, <1>4, <1>6, <1>8, <2>1, <2>5, <3>1, <3>3 DEF DueInSocket, ChannelTypes, Listening, From
    <3> QED BY <3>1, <3>2, <3>3
  <2> QED BY <1>5, <2>3, <2>4, <2>6, <2>7, <2>10, <2>11, <2>12, <2>13 DEF FirstTime, Sound
<1> QED BY <1>7, <1>8

(* The socket of the reader with one more datagram. *)
LEMMA Sent ==
  ASSUME ChannelTypes, NEW m \in {Note} \cup (Writers \X Nat), sock' = Append(sock, m)
  PROVE  /\ sock' \in Seq({Note} \cup (Writers \X Nat))
         /\ DOMAIN sock' = 1 .. Len(sock) + 1 /\ DOMAIN sock = 1 .. Len(sock) /\ Len(sock) \in Nat
         /\ \A j \in DOMAIN sock : sock'[j] = sock[j]
         /\ sock'[Len(sock) + 1] = m
<1>1. sock \in Seq({Note} \cup (Writers \X Nat)) BY DEF ChannelTypes
<1> QED BY <1>1

(* The datagram of one writer is nothing to another. *)
LEMMA SentKeeps ==
  ASSUME ChannelTypes, NEW v \in Writers, InSocket(v), DueInSocket(v),
         NEW m \in {Note} \cup (Writers \X Nat), sock' = Append(sock, m),
         m # Note => m[1] # v, UNCHANGED <<local, got>>,
         calls'[v] = calls[v], sending'[v] = sending[v], pending'[v] = pending[v], due'[v] = due[v]
  PROVE  InSocket(v)' /\ DueInSocket(v)'
<1>1. DOMAIN sock' = 1 .. Len(sock) + 1 /\ DOMAIN sock = 1 .. Len(sock) /\ Len(sock) \in Nat BY Sent
<1>2. \A j \in DOMAIN sock' : From(v, j)' => j \in DOMAIN sock
  BY <1>1, Sent DEF From
<1>3. \A j \in DOMAIN sock : sock'[j] = sock[j] /\ (From(v, j)' <=> From(v, j))
  BY Sent DEF From
<1>4. \A j \in DOMAIN sock : j \in DOMAIN sock' BY <1>1
<1>5. InSocket(v)'
  BY <1>2, <1>3 DEF InSocket
<1>6. DueInSocket(v)' BY <1>3, <1>4 DEF DueInSocket
<1> QED BY <1>5, <1>6

LEMMA ResumeKeeps ==
  ASSUME FirstTime, NEW w \in Writers, Resume(w)
  PROVE  FirstTime'
<1> DEFINE m == IF w \in local THEN Note ELSE <<w, sending[w]>>
<1>1. ChannelTypes /\ InTurn /\ \A v \in Writers : Sound(v) BY DEF FirstTime
<1>2. OneObject(w) /\ OneWaits(w) /\ InChannel(w) /\ InSocket(w) /\ DueInChannel(w)
      /\ DueInSocket(w) /\ due[w] <= calls[w]
  BY <1>1 DEF Sound
<1>3. sending[w] # 0 /\ target[w] /\ held[w] = wend[w] BY <1>2 DEF Resume, OneWaits
<1>4. UNCHANGED <<local, calls, target, name, wend, rend, seen, rpc, got, due>>
  BY <1>1, <1>3 DEF Resume, ChannelTypes
<1>5. sock' = Append(sock, m) /\ m \in {Note} \cup (Writers \X Nat)
  BY <1>1 DEF Resume, ChannelTypes
<1>6. sock' \in Seq({Note} \cup (Writers \X Nat))
      /\ DOMAIN sock' = 1 .. Len(sock) + 1 /\ DOMAIN sock = 1 .. Len(sock) /\ Len(sock) \in Nat
      /\ (\A j \in DOMAIN sock : sock'[j] = sock[j]) /\ sock'[Len(sock) + 1] = m
  BY <1>1, <1>5, Sent
<1>7. pending' = [pending EXCEPT ![w] = 0] BY DEF Resume
<1>8. pending' \in [Writers -> Nat] /\ pending'[w] = 0 BY <1>1, <1>7 DEF ChannelTypes
<1>9. InTurn' BY <1>1, <1>4 DEF InTurn
<1>10. pending[w] \in Nat /\ sending[w] \in Nat /\ calls[w] \in Nat BY <1>1 DEF ChannelTypes
(* What is sent next, if anything, and where it is. *)
<1>11. /\ sending' \in [Writers -> Nat] /\ held' \in [Writers -> AnyEnd]
       /\ objects' \in [Writers -> Seq(Cells)]
       /\ \A v \in Writers : v # w => sending'[v] = sending[v] /\ held'[v] = held[v]
                                     /\ objects'[v] = objects[v]
       /\ sending'[w] = pending[w] /\ Len(objects'[w]) = Len(objects[w])
       /\ pending[w] # 0 => held'[w] = wend[w]
       /\ pending[w] = 0 \/ wend[w] = NoEnd => objects'[w] = objects[w]
  <2>1. CASE pending[w] # 0
    <3>1. Begin(w, pending[w]) BY <2>1 DEF Resume
    <3>2. \A v \in Writers : v # w => sending'[v] = sending[v] /\ held'[v] = held[v]
      BY <1>1, <3>1 DEF ChannelTypes, Begin
    <3>3. sending'[w] = pending[w] /\ held'[w] = wend[w] BY <1>1, <1>3, <3>1 DEF ChannelTypes, Begin
    <3> QED BY <1>1, <1>2, <1>10, <2>1, <3>1, <3>2, <3>3, Begun
  <2>2. CASE pending[w] = 0
    <3>1. sending' = [sending EXCEPT ![w] = 0] /\ held' = [held EXCEPT ![w] = NoEnd]
          /\ objects' = objects
      BY <2>2 DEF Resume
    <3> QED BY <1>1, <2>2, <3>1 DEF ChannelTypes, AnyEnd, NoEnd
  <2> QED BY <2>1, <2>2
<1>12. pending[w] # 0 /\ wend[w] # NoEnd =>
         /\ Cell(w)'.seq = Cell(w).seq + 1 /\ Cell(w)'.msg = pending[w]
         /\ Cell(w).seq \in Nat /\ Cell(w).msg \in Nat
  <2> SUFFICES ASSUME pending[w] # 0, wend[w] # NoEnd
               PROVE  /\ Cell(w)'.seq = Cell(w).seq + 1 /\ Cell(w)'.msg = pending[w]
                      /\ Cell(w).seq \in Nat /\ Cell(w).msg \in Nat
    OBVIOUS
  <2>1. Begin(w, pending[w]) BY DEF Resume
  <2> QED BY <1>1, <1>2, <1>10, <2>1, Begun
<1> HIDE DEF m
<1>13. ChannelTypes' BY <1>1, <1>4, <1>6, <1>8, <1>11 DEF ChannelTypes
<1>14. ASSUME NEW v \in Writers, v # w PROVE Sound(v)'
  <2>1. pending'[v] = pending[v] BY <1>1, <1>7, <1>14 DEF ChannelTypes
  <2>2. Sound(v) BY <1>1
  <2>3. m # Note => m[1] # v BY <1>14 DEF m
  <2>4. InSocket(v)' /\ DueInSocket(v)'
    BY <1>1, <1>4, <1>5, <1>11, <1>14, <2>1, <2>2, <2>3, SentKeeps DEF Sound
  <2>5. OneObject(v)' /\ OneWaits(v)' /\ InChannel(v)' /\ due'[v] <= calls'[v]
    BY <1>4, <1>11, <1>14, <2>1, <2>2 DEF Sound, OneObject, OneWaits, InChannel, Cell
  <2>6. DueInChannel(v)'
    <3>1. \A j \in DOMAIN sock : j \in DOMAIN sock' /\ sock'[j] = sock[j] BY <1>6
    <3> QED BY <1>4, <1>11, <1>14, <2>1, <2>2, <3>1 DEF Sound, DueInChannel, Cell
  <2> QED BY <2>4, <2>5, <2>6 DEF Sound
<1>15. OneObject(w)' BY <1>2, <1>4, <1>11 DEF OneObject
<1>16. OneWaits(w)' BY <1>2, <1>3, <1>4, <1>8, <1>10, <1>11 DEF OneWaits
<1>17. InChannel(w)'
  <2>1. CASE pending[w] # 0 /\ wend[w] # NoEnd
    <3>1. Len(objects[w]) = 1 BY <1>2, <2>1 DEF OneObject
    <3>2. Cell(w).msg = sending[w] /\ seen[w] <= Cell(w).seq
      BY <1>2, <1>3, <3>1 DEF InChannel
    <3>3. Cell(w)'.seq = Cell(w).seq + 1 /\ Cell(w)'.msg = pending[w] /\ Cell(w).seq \in Nat
      BY <1>12, <2>1
    <3>4. sending[w] < pending[w] /\ pending[w] = calls[w] BY <1>2, <2>1 DEF OneWaits
    <3>5. \A i \in DOMAIN got : got[i][2] \in Nat BY <1>1, MessageTypes
    <3>6. \A i \in DOMAIN got : got[i][1] = w => got[i][2] <= pending[w] /\ got[i][2] < pending[w]
      <4>1. \A i \in DOMAIN got : got[i][1] = w => got[i][2] <= sending[w]
        BY <1>2, <3>1, <3>2 DEF InChannel
      <4> QED BY <1>10, <3>4, <3>5, <4>1
    <3>7. seen[w] <= Cell(w)'.seq /\ seen[w] # Cell(w)'.seq /\ Cell(w)'.seq # 0
      BY <1>1, <3>2, <3>3 DEF ChannelTypes
    <3>8. calls'[w] = calls[w] /\ pending[w] <= calls'[w] BY <1>4, <1>10, <3>4
    <3> QED BY <1>4, <1>11, <3>1, <3>3, <3>6, <3>7, <3>8 DEF InChannel
  <2>2. CASE pending[w] # 0 /\ wend[w] = NoEnd
    <3>1. objects'[w] = objects[w] /\ Len(objects[w]) = 0 /\ w \notin local
      BY <1>2, <1>3, <1>11, <2>2 DEF OneObject
    <3> QED BY <1>4, <1>11, <3>1 DEF InChannel
  <2>3. CASE pending[w] = 0
    <3>1. objects'[w] = objects[w] /\ sending'[w] = 0 BY <1>11, <2>3
    <3> QED BY <1>2, <1>4, <3>1 DEF InChannel, Cell
  <2> QED BY <2>1, <2>2, <2>3
<1>18. InSocket(w)'
  <2>1. CASE w \in local
    <3>1. \A j \in DOMAIN sock' : ~From(w, j)'
      <4>1. m = Note BY <2>1 DEF m
      <4>2. \A j \in DOMAIN sock : ~From(w, j) BY <1>2, <2>1 DEF InSocket
      <4> QED BY <1>6, <4>1, <4>2 DEF From
    <3> QED BY <1>4, <2>1, <3>1 DEF InSocket
  <2>2. CASE w \notin local
    <3>1. m[1] = w /\ m[2] = sending[w] BY <2>2 DEF m
    <3>2. \A j \in DOMAIN sock' : From(w, j)' =>
            j = Len(sock) + 1 \/ (j \in DOMAIN sock /\ From(w, j) /\ sock'[j] = sock[j])
      BY <1>6 DEF From
    <3>3. \A j \in DOMAIN sock : From(w, j) => sock[j][2] < sending[w] /\ sock[j][2] \in Nat
      <4>1. \A j \in DOMAIN sock : From(w, j) => sock[j][2] < sending[w]
        BY <1>2, <1>3, <2>2 DEF InSocket
      <4>2. \A j \in DOMAIN sock : From(w, j) => sock[j][2] \in Nat
        BY <1>1, MessageTypes DEF From
      <4> QED BY <4>1, <4>2
    <3>4. \A i \in DOMAIN got : got[i][1] = w => got[i][2] < sending[w] /\ got[i][2] \in Nat
      <4>1. \A i \in DOMAIN got : got[i][1] = w => got[i][2] < sending[w]
        BY <1>2, <1>3, <2>2 DEF InSocket
      <4> QED BY <1>1, <4>1, MessageTypes
    <3>5. sending[w] <= calls[w] /\ (pending[w] # 0 => sending[w] < pending[w])
      BY <1>2 DEF OneWaits
    <3>6. \A j \in DOMAIN sock' : From(w, j)' => sock'[j][2] <= sending[w] /\ sock'[j][2] \in Nat
      BY <1>6, <1>10, <3>1, <3>2, <3>3
    <3>7. \A j \in DOMAIN sock' : From(w, j)' =>
            sock'[j][2] <= calls[w] /\ (pending[w] # 0 => sock'[j][2] < pending[w])
      BY <1>10, <3>5, <3>6
    <3>8. \A i \in DOMAIN got : got[i][1] = w =>
            /\ got[i][2] <= calls[w] /\ (pending[w] # 0 => got[i][2] < pending[w])
            /\ \A j \in DOMAIN sock' : From(w, j)' => got[i][2] < sock'[j][2]
      <4> SUFFICES ASSUME NEW i \in DOMAIN got, got[i][1] = w
                   PROVE  /\ got[i][2] <= calls[w] /\ (pending[w] # 0 => got[i][2] < pending[w])
                          /\ \A j \in DOMAIN sock' : From(w, j)' => got[i][2] < sock'[j][2]
        OBVIOUS
      <4>1. got[i][2] <= calls[w] /\ (pending[w] # 0 => got[i][2] < pending[w])
        BY <1>10, <3>4, <3>5
      <4>2. ASSUME NEW j \in DOMAIN sock', From(w, j)' PROVE got[i][2] < sock'[j][2]
        <5>1. CASE j = Len(sock) + 1 BY <1>6, <3>1, <3>4, <5>1
        <5>2. CASE j \in DOMAIN sock /\ From(w, j) /\ sock'[j] = sock[j]
          BY <1>2, <2>2, <5>2 DEF InSocket
        <5> QED BY <3>2, <4>2, <5>1, <5>2
      <4> QED BY <4>1, <4>2
    <3>9. ASSUME NEW j \in DOMAIN sock', NEW k \in DOMAIN sock', j < k, From(w, j)', From(w, k)'
          PROVE  sock'[j][2] < sock'[k][2]
      <4>1. j \in DOMAIN sock /\ From(w, j) /\ sock'[j] = sock[j] BY <1>6, <3>2, <3>9
      <4>2. CASE k = Len(sock) + 1 BY <1>6, <3>1, <3>3, <4>1, <4>2
      <4>3. CASE k \in DOMAIN sock /\ From(w, k) /\ sock'[k] = sock[k]
        BY <1>2, <2>2, <3>9, <4>1, <4>3 DEF InSocket
      <4> QED BY <3>2, <3>9, <4>2, <4>3
    <3> QED BY <1>4, <1>11, <2>2, <3>7, <3>8, <3>9 DEF InSocket
  <2> QED BY <2>1, <2>2
<1>19. DueInChannel(w)'
  <2> SUFFICES ASSUME w \in local, due[w] # 0 PROVE DueInChannel(w)' BY <1>4 DEF DueInChannel
  <2>1. wend[w] # NoEnd /\ rend[w] # NoEnd BY <1>2 DEF DueInChannel
  <2>2. \E j \in DOMAIN sock' : sock'[j] = Note BY <1>6 DEF m
  <2>3. IF pending'[w] # 0 THEN due[w] <= pending'[w] ELSE due[w] <= Cell(w)'.msg
    <3>1. CASE pending[w] # 0 BY <1>2, <1>8, <1>12, <2>1, <3>1 DEF DueInChannel
    <3>2. CASE pending[w] = 0
      <4>1. objects'[w] = objects[w] BY <1>11, <3>2
      <4> QED BY <1>2, <1>8, <3>2, <4>1 DEF DueInChannel, Cell
    <3> QED BY <3>1, <3>2
  <2> QED BY <1>4, <2>1, <2>2, <2>3 DEF DueInChannel
<1>20. DueInSocket(w)' /\ due'[w] <= calls'[w]
  <2> SUFFICES ASSUME local = {}, due[w] # 0 PROVE DueInSocket(w)'
    BY <1>2, <1>4 DEF DueInSocket
  <2>1. CASE \E i \in DOMAIN got : got[i][1] = w /\ got[i][2] >= due[w]
    BY <1>4, <2>1 DEF DueInSocket
  <2>2. CASE \E j \in DOMAIN sock : From(w, j) /\ sock[j][2] >= due[w]
    <3>1. \A j \in DOMAIN sock : j \in DOMAIN sock' /\ sock'[j] = sock[j] /\ (From(w, j)' <=> From(w, j))
      BY <1>6 DEF From
    <3> QED BY <1>4, <2>2, <3>1 DEF DueInSocket
  <2>3. CASE sending[w] >= due[w]
    <3>1. m # Note /\ m[1] = w /\ m[2] = sending[w] BY <1>10, NotNote DEF m
    <3>2. PICK j \in DOMAIN sock' : sock'[j] = m BY <1>6
    <3>3. From(w, j)' BY <3>1, <3>2 DEF From
    <3> QED BY <1>4, <2>3, <3>1, <3>2, <3>3 DEF DueInSocket
  <2>4. CASE pending[w] >= due[w]
    BY <1>4, <1>11, <2>4 DEF DueInSocket
  <2> QED BY <1>2, <2>1, <2>2, <2>3, <2>4 DEF DueInSocket
<1> QED BY <1>9, <1>13, <1>14, <1>15, <1>16, <1>17, <1>18, <1>19, <1>20 DEF FirstTime, Sound

(* A message that is too large changes nothing but the number of calls.    *)
LEMMA WriteTooLargeKeeps ==
  ASSUME FirstTime, NEW w \in Writers, WriteTooLarge(w)
  PROVE  FirstTime'
<1>1. ChannelTypes /\ InTurn /\ \A v \in Writers : Sound(v) BY DEF FirstTime
<1>2. UNCHANGED <<local, sending, pending, held, target, name, objects, wend, rend, seen, sock, rpc, got, due>>
      /\ calls' = [calls EXCEPT ![w] = @ + 1]
  BY DEF WriteTooLarge, shm, reading
<1>3. calls' \in [Writers -> Nat] /\ calls'[w] = calls[w] + 1 /\ calls[w] \in Nat
  BY <1>1, <1>2 DEF ChannelTypes
<1>4. ChannelTypes' /\ InTurn' BY <1>1, <1>2, <1>3 DEF ChannelTypes, InTurn
<1>5. \A v \in Writers : v # w => Sound(v)' BY <1>1, <1>2, Others DEF ChannelTypes
<1>6. OneObject(w) /\ OneWaits(w) /\ InChannel(w) /\ InSocket(w) /\ DueInChannel(w)
      /\ DueInSocket(w) /\ due[w] <= calls[w]
  BY <1>1 DEF Sound
<1>7. sending[w] = 0 /\ pending[w] = 0 BY <1>6 DEF WriteTooLarge, OneWaits
<1>8. OneObject(w)' /\ OneWaits(w)' BY <1>2, <1>3, <1>6, <1>7 DEF OneObject, OneWaits
<1>9. InChannel(w)'
  <2>1. Len(objects[w]) = 1 => Cell(w).msg \in Nat BY <1>1, CellType
  <2> QED BY <1>2, <1>3, <1>6, <2>1 DEF InChannel, Cell
<1>10. InSocket(w)' BY <1>1, <1>2, <1>3, <1>6, <1>7, SocketKept
<1>11. DueInChannel(w)' /\ DueInSocket(w)' BY <1>2, <1>6 DEF DueInChannel, DueInSocket, Cell, From
<1>12. due'[w] <= calls'[w] BY <1>1, <1>2, <1>3, <1>6 DEF ChannelTypes
<1> QED BY <1>4, <1>5, <1>6, <1>8, <1>9, <1>10, <1>11, <1>12 DEF FirstTime, Sound

(* What has gone out is the last message then, and it is in the channel or *)
(* in the socket.                                                          *)
LEMMA ResumeTooLargeKeeps ==
  ASSUME FirstTime, NEW w \in Writers, ResumeTooLarge(w)
  PROVE  FirstTime'
<1> DEFINE m == IF w \in local THEN Note ELSE <<w, sending[w]>>
<1>1. ChannelTypes /\ InTurn /\ \A v \in Writers : Sound(v) BY DEF FirstTime
<1>2. OneObject(w) /\ OneWaits(w) /\ InChannel(w) /\ InSocket(w) /\ DueInChannel(w)
      /\ DueInSocket(w) /\ due[w] <= calls[w]
  BY <1>1 DEF Sound
<1>3. pending[w] # 0 /\ sending[w] # 0 /\ target[w] /\ held[w] = wend[w]
  BY <1>2 DEF ResumeTooLarge, OneWaits
<1>4. UNCHANGED <<local, calls, target, name, objects, wend, rend, seen, rpc, got>>
  BY <1>1, <1>3 DEF ResumeTooLarge, ChannelTypes
<1>5. sock' = Append(sock, m) /\ m \in {Note} \cup (Writers \X Nat)
  BY <1>1 DEF ResumeTooLarge, ChannelTypes
<1>6. sock' \in Seq({Note} \cup (Writers \X Nat))
      /\ DOMAIN sock' = 1 .. Len(sock) + 1 /\ DOMAIN sock = 1 .. Len(sock) /\ Len(sock) \in Nat
      /\ (\A j \in DOMAIN sock : sock'[j] = sock[j]) /\ sock'[Len(sock) + 1] = m
  BY <1>1, <1>5, Sent
<1>7. InTurn' BY <1>1, <1>4 DEF InTurn
<1>8. sending[w] \in Nat /\ calls[w] \in Nat /\ due[w] \in Nat /\ sending[w] <= calls[w]
  BY <1>1, <1>2 DEF ChannelTypes, OneWaits
<1>9. /\ sending' \in [Writers -> Nat] /\ held' \in [Writers -> AnyEnd] /\ pending' \in [Writers -> Nat]
      /\ due' \in [Writers -> Nat]
      /\ sending'[w] = 0 /\ pending'[w] = 0
      /\ due'[w] <= sending[w] /\ due'[w] <= due[w] /\ due'[w] \in Nat
      /\ \A v \in Writers : v # w => /\ sending'[v] = sending[v] /\ held'[v] = held[v]
                                    /\ pending'[v] = pending[v] /\ due'[v] = due[v]
  BY <1>1, <1>8 DEF ResumeTooLarge, ChannelTypes, AnyEnd, NoEnd
<1> HIDE DEF m
<1>10. ChannelTypes' BY <1>1, <1>4, <1>6, <1>9 DEF ChannelTypes
<1>11. ASSUME NEW v \in Writers, v # w PROVE Sound(v)'
  <2>1. Sound(v) BY <1>1
  <2>2. m # Note => m[1] # v BY <1>11 DEF m
  <2>3. InSocket(v)' /\ DueInSocket(v)'
    BY <1>1, <1>4, <1>5, <1>9, <1>11, <2>1, <2>2, SentKeeps DEF Sound
  <2>4. OneObject(v)' /\ OneWaits(v)' /\ InChannel(v)' /\ due'[v] <= calls'[v]
    BY <1>4, <1>9, <1>11, <2>1 DEF Sound, OneObject, OneWaits, InChannel, Cell
  <2>5. DueInChannel(v)'
    <3>1. \A j \in DOMAIN sock : j \in DOMAIN sock' /\ sock'[j] = sock[j] BY <1>6
    <3> QED BY <1>4, <1>9, <1>11, <2>1, <3>1 DEF Sound, DueInChannel, Cell
  <2> QED BY <2>3, <2>4, <2>5 DEF Sound
<1>12. OneObject(w)' /\ OneWaits(w)' /\ due'[w] <= calls'[w]
  BY <1>2, <1>4, <1>8, <1>9 DEF OneObject, OneWaits
<1>13. InChannel(w)' BY <1>2, <1>4, <1>9 DEF InChannel, Cell
<1>14. InSocket(w)'
  <2>1. CASE w \in local
    <3>1. m = Note BY <2>1 DEF m
    <3>2. \A j \in DOMAIN sock : ~From(w, j) BY <1>2, <2>1 DEF InSocket
    <3>3. \A j \in DOMAIN sock' : ~From(w, j)' BY <1>6, <3>1, <3>2 DEF From
    <3> QED BY <1>4, <2>1, <3>3 DEF InSocket
  <2>2. CASE w \notin local
    <3>1. m[1] = w /\ m[2] = sending[w] BY <2>2 DEF m
    <3>2. \A j \in DOMAIN sock' : From(w, j)' =>
            j = Len(sock) + 1 \/ (j \in DOMAIN sock /\ From(w, j) /\ sock'[j] = sock[j])
      BY <1>6 DEF From
    <3>3. \A j \in DOMAIN sock : From(w, j) => sock[j][2] < sending[w] /\ sock[j][2] <= calls[w]
      BY <1>2, <1>3, <2>2 DEF InSocket
    <3>4. \A i \in DOMAIN got : got[i][1] = w => got[i][2] < sending[w] /\ got[i][2] <= calls[w]
      BY <1>2, <1>3, <2>2 DEF InSocket
    <3>5. \A j \in DOMAIN sock' : From(w, j)' => sock'[j][2] <= calls[w]
      BY <1>6, <1>8, <3>1, <3>2, <3>3
    <3>6. ASSUME NEW i \in DOMAIN got, got[i][1] = w, NEW j \in DOMAIN sock', From(w, j)'
          PROVE  got[i][2] < sock'[j][2]
      <4>1. CASE j = Len(sock) + 1 BY <1>6, <3>1, <3>4, <3>6, <4>1
      <4>2. CASE j \in DOMAIN sock /\ From(w, j) /\ sock'[j] = sock[j]
        BY <1>2, <2>2, <3>6, <4>2 DEF InSocket
      <4> QED BY <3>2, <3>6, <4>1, <4>2
    <3>7. ASSUME NEW j \in DOMAIN sock', NEW k \in DOMAIN sock', j < k, From(w, j)', From(w, k)'
          PROVE  sock'[j][2] < sock'[k][2]
      <4>1. j \in DOMAIN sock /\ From(w, j) /\ sock'[j] = sock[j] BY <1>6, <3>2, <3>7
      <4>2. CASE k = Len(sock) + 1 BY <1>6, <3>1, <3>3, <4>1, <4>2
      <4>3. CASE k \in DOMAIN sock /\ From(w, k) /\ sock'[k] = sock[k]
        BY <1>2, <2>2, <3>7, <4>1, <4>3 DEF InSocket
      <4> QED BY <3>2, <3>7, <4>2, <4>3
    <3> QED BY <1>4, <1>9, <2>2, <3>4, <3>5, <3>6, <3>7 DEF InSocket
  <2> QED BY <2>1, <2>2
<1>15. DueInChannel(w)'
  <2> SUFFICES ASSUME w \in local, due'[w] # 0 PROVE DueInChannel(w)' BY <1>4 DEF DueInChannel
  <2>1. wend[w] # NoEnd /\ rend[w] # NoEnd /\ Len(objects[w]) = 1
    BY <1>2, <1>8, <1>9 DEF DueInChannel, OneObject
  <2>2. Cell(w).msg = sending[w] BY <1>2, <1>3, <2>1 DEF InChannel
  <2>3. \E j \in DOMAIN sock' : sock'[j] = Note BY <1>6 DEF m
  <2> QED BY <1>4, <1>9, <2>1, <2>2, <2>3 DEF DueInChannel, Cell
<1>16. DueInSocket(w)'
  <2> SUFFICES ASSUME local = {} PROVE \E j \in DOMAIN sock' : From(w, j)' /\ sock'[j][2] >= due'[w]
    BY <1>4 DEF DueInSocket
  <2>1. m # Note /\ m[1] = w /\ m[2] = sending[w] BY <1>8, NotNote DEF m
  <2>2. PICK j \in DOMAIN sock' : sock'[j] = m BY <1>6
  <2> QED BY <1>8, <1>9, <2>1, <2>2 DEF From
<1> QED BY <1>7, <1>10, <1>11, <1>12, <1>13, <1>14, <1>15, <1>16 DEF FirstTime, Sound

-----------------------------------------------------------------------------
(* The reader takes a message from a channel or from the socket. *)

LEMMA UnreadIsLocal ==
  ASSUME ChannelTypes, NEW w \in Unread, OneObject(w)
  PROVE  /\ w \in Writers /\ w \in local /\ rend[w] # NoEnd /\ Len(objects[w]) = 1
         /\ Content(w) = Cell(w) /\ Cell(w).seq \notin {0, seen[w]}
BY DEF Unread, OneObject, Content, Cell

(* The messages returned, with one more. *)
LEMMA Returned ==
  ASSUME ChannelTypes, NEW m \in Writers \X Nat, got' = Append(got, m)
  PROVE  /\ got' \in Seq(Writers \X Nat)
         /\ DOMAIN got' = 1 .. Len(got) + 1 /\ DOMAIN got = 1 .. Len(got) /\ Len(got) \in Nat
         /\ \A i \in DOMAIN got : got'[i] = got[i]
         /\ got'[Len(got) + 1] = m
<1>1. got \in Seq(Writers \X Nat) BY DEF ChannelTypes
<1> QED BY <1>1

(* It comes after those of the same writer. *)
LEMMA ReturnedInTurn ==
  ASSUME ChannelTypes, InTurn, NEW m \in Writers \X Nat, got' = Append(got, m),
         \A i \in DOMAIN got : got[i][1] = m[1] => got[i][2] < m[2]
  PROVE  InTurn'
<1>1. DOMAIN got' = 1 .. Len(got) + 1 /\ DOMAIN got = 1 .. Len(got) /\ Len(got) \in Nat
      /\ (\A i \in DOMAIN got : got'[i] = got[i]) /\ got'[Len(got) + 1] = m
  BY Returned
<1> SUFFICES ASSUME NEW i \in DOMAIN got', NEW j \in DOMAIN got', i < j, got'[i][1] = got'[j][1]
             PROVE  got'[i][2] < got'[j][2]
  BY DEF InTurn
<1>2. i \in DOMAIN got /\ got'[i] = got[i] BY <1>1
<1>3. CASE j = Len(got) + 1 BY <1>1, <1>2, <1>3
<1>4. CASE j \in DOMAIN got BY <1>1, <1>2, <1>4 DEF InTurn
<1> QED BY <1>1, <1>3, <1>4

(* Taking a message from w's channel, maybe with a datagram thrown away;   *)
(* unless there are local writers only, no message of a remote one counts. *)
LEMMA TakeKeeps ==
  ASSUME FirstTime, NEW w \in Unread, Take(w), rpc' = "check",
         UNCHANGED <<local, writing, target, name, objects, wend, rend, due>>,
         \/ sock' = sock
         \/ sock # <<>> /\ sock' = Tail(sock)
  PROVE  FirstTime'
<1>1. ChannelTypes /\ InTurn /\ \A v \in Writers : Sound(v) BY DEF FirstTime
<1>2. w \in Writers /\ w \in local /\ rend[w] # NoEnd /\ Len(objects[w]) = 1
      /\ Content(w) = Cell(w) /\ Cell(w).seq \notin {0, seen[w]}
  BY <1>1, UnreadIsLocal DEF Unread, Sound
<1>3. Cell(w).seq \in Nat /\ Cell(w).msg \in Nat BY <1>1, <1>2, CellType
<1> DEFINE m == <<w, Cell(w).msg>>
<1>4. m \in Writers \X Nat /\ got' = Append(got, m) /\ seen' = [seen EXCEPT ![w] = Cell(w).seq]
  BY <1>2, <1>3 DEF Take
<1>5. /\ got' \in Seq(Writers \X Nat)
      /\ DOMAIN got' = 1 .. Len(got) + 1 /\ DOMAIN got = 1 .. Len(got) /\ Len(got) \in Nat
      /\ \A i \in DOMAIN got : got'[i] = got[i]
      /\ got'[Len(got) + 1] = m
  BY <1>1, <1>4, Returned
<1>6. \A i \in DOMAIN got : got[i][1] = w => got[i][2] < Cell(w).msg
  BY <1>1, <1>2 DEF Sound, InChannel
<1>7. InTurn' BY <1>1, <1>4, <1>6, ReturnedInTurn
<1>8. UNCHANGED <<local, calls, sending, pending, held, target, name, objects, wend, rend, due>>
  BY DEF writing
<1>9. seen' \in [Writers -> Nat] /\ seen'[w] = Cell(w).seq
      /\ \A v \in Writers : v # w => seen'[v] = seen[v]
  BY <1>1, <1>3, <1>4 DEF ChannelTypes
(* What is left in the socket was there, in the same order. *)
<1>10. PICK d \in {0, 1} :
         /\ \A j \in DOMAIN sock' : j + d \in DOMAIN sock /\ sock'[j] = sock[j + d]
         /\ sock' \in Seq({Note} \cup (Writers \X Nat))
         /\ DOMAIN sock' \subseteq Nat
  <2>1. sock \in Seq({Note} \cup (Writers \X Nat)) BY <1>1 DEF ChannelTypes
  <2>2. CASE sock' = sock
    <3>1. \A j \in DOMAIN sock : j + 0 = j BY <2>1
    <3> QED BY <2>1, <2>2, <3>1
  <2>3. CASE sock # <<>> /\ sock' = Tail(sock) BY <2>1, <2>3
  <2> QED BY <2>2, <2>3
<1> HIDE DEF m
<1>11. ChannelTypes' BY <1>1, <1>5, <1>8, <1>9, <1>10 DEF ChannelTypes
<1>12. \A v \in Writers, j \in DOMAIN sock' : From(v, j)' => From(v, j + d)
  BY <1>10 DEF From
<1>13. \A v \in Writers : v # w => \A i \in DOMAIN got' : got'[i][1] = v => i \in DOMAIN got /\ got[i][1] = v
  BY <1>5 DEF m
<1>14. ASSUME NEW v \in Writers PROVE DueInSocket(v)' BY <1>2, <1>8 DEF DueInSocket
<1>15. ASSUME NEW v \in Writers PROVE InSocket(v)'
  <2>1. InSocket(v) BY <1>1 DEF Sound
  <2>2. CASE v \in local BY <1>8, <1>10, <1>12, <2>1, <2>2 DEF InSocket
  <2>3. CASE v \notin local
    <3>1. \A i \in DOMAIN got' : got'[i][1] = v => i \in DOMAIN got /\ got'[i] = got[i] /\ got[i][1] = v
      BY <1>2, <1>5, <1>13, <2>3
    <3>2. ASSUME NEW j \in DOMAIN sock', NEW k \in DOMAIN sock', j < k, From(v, j)', From(v, k)'
          PROVE  sock'[j][2] < sock'[k][2]
      <4>1. j + d < k + d BY <1>10, <3>2
      <4>2. From(v, j + d) /\ From(v, k + d) BY <1>12, <3>2
      <4>3. j + d \in DOMAIN sock /\ k + d \in DOMAIN sock /\ sock'[j] = sock[j + d] /\ sock'[k] = sock[k + d]
        BY <1>10
      <4> QED BY <2>1, <2>3, <4>1, <4>2, <4>3 DEF InSocket
    <3>3. \A j \in DOMAIN sock' : From(v, j)' =>
            sock'[j][2] <= calls'[v] /\ (sending'[v] # 0 => sock'[j][2] < sending'[v])
      BY <1>8, <1>10, <1>12, <2>1, <2>3 DEF InSocket
    <3>4. \A i \in DOMAIN got' : got'[i][1] = v =>
            /\ got'[i][2] <= calls'[v] /\ (sending'[v] # 0 => got'[i][2] < sending'[v])
            /\ \A j \in DOMAIN sock' : From(v, j)' => got'[i][2] < sock'[j][2]
      BY <1>8, <1>10, <1>12, <2>1, <2>3, <3>1 DEF InSocket
    <3> QED BY <1>8, <2>3, <3>2, <3>3, <3>4 DEF InSocket
  <2> QED BY <2>2, <2>3
<1>16. ASSUME NEW v \in Writers, v # w PROVE Sound(v)'
  <2>1. Sound(v) BY <1>1
  <2>2. OneObject(v)' /\ OneWaits(v)' /\ due'[v] <= calls'[v]
    BY <1>8, <1>9, <1>16, <2>1 DEF Sound, OneObject, OneWaits
  <2>3. InChannel(v)'
    <3>1. \A i \in DOMAIN got' : got'[i][1] = v => i \in DOMAIN got /\ got'[i] = got[i]
      BY <1>5, <1>13, <1>16
    <3>2. \A i \in DOMAIN got : i \in DOMAIN got' /\ got'[i] = got[i] BY <1>5
    <3> QED BY <1>8, <1>9, <1>16, <2>1, <3>1, <3>2 DEF Sound, InChannel, Cell
  <2>4. DueInChannel(v)' BY <1>8, <2>1 DEF Sound, DueInChannel, Cell
  <2> QED BY <1>14, <1>15, <2>2, <2>3, <2>4 DEF Sound
<1>17. Sound(w)'
  <2>1. Sound(w) BY <1>1, <1>2
  <2>2. OneObject(w)' /\ OneWaits(w)' /\ due'[w] <= calls'[w]
    BY <1>2, <1>8, <2>1 DEF Sound, OneObject, OneWaits
  <2>3. InChannel(w)'
    <3>1. \A i \in DOMAIN got' : got'[i][1] = w => got'[i][2] <= Cell(w).msg
      <4>1. \A i \in DOMAIN got : got[i][2] \in Nat BY <1>1, MessageTypes
      <4>2. m[2] <= Cell(w).msg BY <1>3 DEF m
      <4>3. \A i \in DOMAIN got : got[i][1] = w => got[i][2] <= Cell(w).msg BY <1>3, <1>6, <4>1
      <4> QED BY <1>5, <4>2, <4>3
    <3>2. PICK i \in DOMAIN got' : got'[i] = m BY <1>5
    <3>3. Cell(w)' = Cell(w) BY <1>8 DEF Cell
    <3> QED BY <1>2, <1>3, <1>8, <1>9, <2>1, <3>1, <3>2, <3>3 DEF Sound, InChannel, m
  <2>4. DueInChannel(w)' BY <1>8, <2>1 DEF Sound, DueInChannel, Cell
  <2> QED BY <1>2, <1>14, <1>15, <2>2, <2>3, <2>4 DEF Sound
<1> QED BY <1>2, <1>7, <1>11, <1>16, <1>17 DEF FirstTime

(* The reader waits; no channel holds a message that it has not seen. *)
LEMMA NothingThereKeeps ==
  ASSUME FirstTime, NothingThere
  PROVE  FirstTime'
<1>1. ChannelTypes /\ InTurn /\ \A v \in Writers : Sound(v) BY DEF FirstTime
<1>2. UNCHANGED <<local, calls, sending, pending, held, target, name, objects, wend, rend, seen,
                  sock, got, due>> /\ rpc' = "wait"
  BY DEF NothingThere, writing, shm
<1>3. ChannelTypes' /\ InTurn' BY <1>1, <1>2 DEF ChannelTypes, InTurn
<1>4. ASSUME NEW v \in Writers PROVE Sound(v)'
  <2>1. Sound(v) BY <1>1
  <2>2. OneObject(v)' /\ OneWaits(v)' /\ InChannel(v)' /\ InSocket(v)' /\ DueInSocket(v)'
        /\ due'[v] <= calls'[v]
    BY <1>2, <2>1
    DEF Sound, OneObject, OneWaits, InChannel, InSocket, DueInSocket, Cell, From
  <2>3. DueInChannel(v)'
    <3> SUFFICES ASSUME v \in local, due[v] # 0 PROVE DueInChannel(v)' BY <1>2 DEF DueInChannel
    <3>1. rend[v] # NoEnd /\ rend[v].obj = 1 /\ Len(objects[v]) = 1
      BY <2>1 DEF Sound, DueInChannel, OneObject
    <3>2. Cell(v).seq \in {0, seen[v]} BY <3>1 DEF NothingThere, Unread, Content, Cell
    <3>3. seen[v] = Cell(v).seq
      <4>1. seen[v] <= Cell(v).seq /\ seen[v] \in Nat BY <1>1, <2>1, <3>1 DEF Sound, InChannel, ChannelTypes
      <4> QED BY <3>2, <4>1
    <3> QED BY <1>2, <2>1, <3>3 DEF Sound, DueInChannel, Cell
  <2> QED BY <2>2, <2>3 DEF Sound
<1> QED BY <1>3, <1>4 DEF FirstTime

(* A datagram arrives, and no channel has anything new. *)
LEMMA ReceiveKeeps ==
  ASSUME FirstTime, Receive
  PROVE  FirstTime'
<1>1. ChannelTypes /\ InTurn /\ \A v \in Writers : Sound(v) BY DEF FirstTime
<1>2. UNCHANGED <<local, calls, sending, pending, held, target, name, objects, wend, rend, due>>
      /\ rpc' = "check" /\ sock # <<>> /\ sock' = Tail(sock)
  BY DEF Receive, writing
<1>3. CASE Unread # {}
  <2>1. PICK w \in Unread : Take(w) BY <1>3 DEF Receive
  <2> QED BY <1>2, <2>1, TakeKeeps DEF writing
<1>4. CASE Unread = {}
  <2>1. got' = (IF Head(sock) = Note THEN got ELSE Append(got, Head(sock))) /\ seen' = seen
    BY <1>4 DEF Receive
  <2>2. /\ sock' \in Seq({Note} \cup (Writers \X Nat)) /\ 1 \in DOMAIN sock /\ Head(sock) = sock[1]
        /\ \A j \in DOMAIN sock' : j + 1 \in DOMAIN sock /\ sock'[j] = sock[j + 1]
        /\ \A j \in DOMAIN sock : j \in Nat /\ (j # 1 => j - 1 \in DOMAIN sock' /\ sock'[j - 1] = sock[j])
        /\ \A j \in DOMAIN sock' : j \in Nat /\ j > 0
    <3>1. sock \in Seq({Note} \cup (Writers \X Nat)) BY <1>1 DEF ChannelTypes
    <3> QED BY <1>2, <3>1
  <2>3. \A v \in Writers, j \in DOMAIN sock' : From(v, j)' => From(v, j + 1)
    BY <2>2 DEF From
  <2>4. CASE Head(sock) = Note
    <3>1. got' = got BY <2>1, <2>4
    <3>2. ChannelTypes' /\ InTurn' BY <1>1, <1>2, <2>1, <2>2, <3>1 DEF ChannelTypes, InTurn
    <3>3. ASSUME NEW v \in Writers PROVE Sound(v)'
      <4>1. Sound(v) BY <1>1
      <4>2. OneObject(v)' /\ OneWaits(v)' /\ InChannel(v)' /\ DueInChannel(v)' /\ due'[v] <= calls'[v]
        BY ZenonT(60), <1>2, <2>1, <3>1, <4>1 DEF Sound, OneObject, OneWaits, InChannel, DueInChannel, Cell
      <4>3. InSocket(v)'
        <5>1. ASSUME NEW j \in DOMAIN sock', NEW k \in DOMAIN sock', j < k, From(v, j)', From(v, k)',
                     v \notin local
              PROVE  sock'[j][2] < sock'[k][2]
          <6>1. j + 1 < k + 1 /\ From(v, j + 1) /\ From(v, k + 1) BY <2>2, <2>3, <5>1
          <6> QED BY <2>2, <4>1, <5>1, <6>1 DEF Sound, InSocket
        <5> QED BY <1>2, <2>2, <2>3, <3>1, <4>1, <5>1 DEF Sound, InSocket
      <4>4. DueInSocket(v)'
        <5> SUFFICES ASSUME local = {}, due[v] # 0,
                            \E j \in DOMAIN sock : From(v, j) /\ sock[j][2] >= due[v]
                     PROVE  DueInSocket(v)'
          BY <1>2, <3>1, <4>1 DEF Sound, DueInSocket
        <5>1. PICK j \in DOMAIN sock : From(v, j) /\ sock[j][2] >= due[v] OBVIOUS
        <5>2. j # 1 BY <2>2, <2>4, <5>1 DEF From
        <5> DEFINE k == j - 1
        <5>3. k \in DOMAIN sock' /\ sock'[k] = sock[j] BY <2>2, <5>2
        <5> HIDE DEF k
        <5>4. From(v, k)' BY <5>1, <5>3 DEF From
        <5> QED BY <1>2, <5>1, <5>3, <5>4 DEF DueInSocket
      <4> QED BY <4>2, <4>3, <4>4 DEF Sound
    <3> QED BY <3>2, <3>3 DEF FirstTime
  <2>5. CASE Head(sock) # Note
    <3> DEFINE m == sock[1]
    <3>1. m # Note /\ m \in Writers \X Nat /\ got' = Append(got, m)
      BY <1>1, <2>1, <2>2, <2>5, MessageTypes
    <3>2. PICK w \in Writers : m[1] = w BY <3>1
    <3>3. From(w, 1) /\ 1 \in DOMAIN sock BY <2>2, <3>1, <3>2 DEF From
    <3>4. w \notin local BY <1>1, <3>3 DEF Sound, InSocket
    <3>5. /\ got' \in Seq(Writers \X Nat)
          /\ DOMAIN got' = 1 .. Len(got) + 1 /\ DOMAIN got = 1 .. Len(got) /\ Len(got) \in Nat
          /\ \A i \in DOMAIN got : got'[i] = got[i]
          /\ got'[Len(got) + 1] = m
      BY <1>1, <3>1, Returned
    <3>6. \A i \in DOMAIN got : got[i][1] = w => got[i][2] < m[2]
      BY <1>1, <3>3, <3>4 DEF Sound, InSocket
    <3>7. InTurn' BY <1>1, <3>1, <3>2, <3>6, ReturnedInTurn
    <3>8. \A v \in Writers : v # w => \A i \in DOMAIN got' :
            got'[i][1] = v => i \in DOMAIN got /\ got'[i] = got[i] /\ got[i][1] = v
      BY <3>2, <3>5
    <3>9. \A i \in DOMAIN got : i \in DOMAIN got' /\ got'[i] = got[i] BY <3>5
    <3>10. PICK l \in DOMAIN got' : got'[l] = m BY <3>5
    <3>11. \A i \in DOMAIN got' : i \in DOMAIN got \/ got'[i] = m BY <3>5
    <3> HIDE DEF m
    <3>12. ChannelTypes' BY <1>1, <1>2, <2>1, <2>2, <3>5 DEF ChannelTypes
    <3>13. ASSUME NEW v \in Writers PROVE InSocket(v)'
      <4>1. InSocket(v) BY <1>1 DEF Sound
      <4>2. CASE v \in local
        <5>1. \A j \in DOMAIN sock' : ~From(v, j)' BY <2>2, <2>3, <4>1, <4>2 DEF InSocket
        <5> QED BY <1>2, <4>2, <5>1 DEF InSocket
      <4>3. CASE v \notin local
        <5>1. ASSUME NEW j \in DOMAIN sock', NEW k \in DOMAIN sock', j < k, From(v, j)', From(v, k)'
              PROVE  sock'[j][2] < sock'[k][2]
          <6>1. j + 1 < k + 1 /\ From(v, j + 1) /\ From(v, k + 1) BY <2>2, <2>3, <5>1
          <6> QED BY <2>2, <4>1, <4>3, <6>1 DEF InSocket
        <5>2. \A j \in DOMAIN sock' : From(v, j)' =>
                sock'[j][2] <= calls'[v] /\ (sending'[v] # 0 => sock'[j][2] < sending'[v])
          BY <1>2, <2>2, <2>3, <4>1, <4>3 DEF InSocket
        <5>3. ASSUME NEW i \in DOMAIN got', got'[i][1] = v
              PROVE  /\ got'[i][2] <= calls'[v] /\ (sending'[v] # 0 => got'[i][2] < sending'[v])
                     /\ \A j \in DOMAIN sock' : From(v, j)' => got'[i][2] < sock'[j][2]
          <6>1. CASE i \in DOMAIN got
            BY <1>2, <2>2, <2>3, <3>9, <4>1, <4>3, <5>3, <6>1 DEF InSocket
          <6>2. CASE got'[i] = m
            <7>1. v = w /\ m = sock[1] BY <3>2, <5>3, <6>2 DEF m
            <7>2. m[2] <= calls[v] /\ (sending[v] # 0 => m[2] < sending[v])
              BY <3>3, <4>1, <4>3, <7>1 DEF InSocket
            <7>3. ASSUME NEW j \in DOMAIN sock', From(v, j)' PROVE m[2] < sock'[j][2]
              <8>1. 1 < j + 1 /\ j + 1 \in DOMAIN sock /\ From(v, j + 1) /\ sock'[j] = sock[j + 1]
                BY <2>2, <2>3, <7>3
              <8> QED BY <3>3, <4>1, <4>3, <7>1, <8>1 DEF InSocket
            <7> QED BY <1>2, <6>2, <7>2, <7>3
          <6> QED BY <3>11, <6>1, <6>2
        <5> QED BY <1>2, <4>3, <5>1, <5>2, <5>3 DEF InSocket
      <4> QED BY <4>2, <4>3
    <3>14. ASSUME NEW v \in Writers PROVE DueInSocket(v)'
      <4> SUFFICES ASSUME local = {}, due[v] # 0 PROVE DueInSocket(v)' BY <1>2 DEF DueInSocket
      <4>1. DueInSocket(v) BY <1>1 DEF Sound
      <4>2. CASE \E j \in DOMAIN sock : From(v, j) /\ sock[j][2] >= due[v]
        <5>1. PICK j \in DOMAIN sock : From(v, j) /\ sock[j][2] >= due[v] BY <4>2
        <5>2. CASE j = 1 BY <1>2, <3>10, <5>1, <5>2 DEF DueInSocket, From, m
        <5>3. CASE j # 1
          <6> DEFINE k == j - 1
          <6>1. k \in DOMAIN sock' /\ sock'[k] = sock[j] BY <2>2, <5>3
          <6> HIDE DEF k
          <6>2. From(v, k)' BY <5>1, <6>1 DEF From
          <6> QED BY <1>2, <5>1, <6>1, <6>2 DEF DueInSocket
        <5> QED BY <5>2, <5>3
      <4>3. CASE \E i \in DOMAIN got : got[i][1] = v /\ got[i][2] >= due[v]
        BY <1>2, <3>9, <4>3 DEF DueInSocket
      <4> QED BY <1>2, <4>1, <4>2, <4>3 DEF DueInSocket
    <3>15. ASSUME NEW v \in Writers PROVE Sound(v)'
      <4>1. Sound(v) BY <1>1
      <4>2. OneObject(v)' /\ OneWaits(v)' /\ DueInChannel(v)' /\ due'[v] <= calls'[v]
        BY <1>2, <2>1, <4>1 DEF Sound, OneObject, OneWaits, DueInChannel, Cell
      <4>3. InChannel(v)'
        <5>1. CASE v = w
          <6>1. Len(objects[v]) = 0 BY <3>4, <4>1, <5>1 DEF Sound, OneObject
          <6> QED BY <1>2, <3>4, <5>1, <6>1 DEF InChannel
        <5>2. CASE v # w
          <6>1. \A i \in DOMAIN got' : got'[i][1] = v => i \in DOMAIN got /\ got'[i] = got[i]
            BY <3>8, <5>2
          <6> QED BY <1>2, <2>1, <3>9, <4>1, <6>1 DEF Sound, InChannel, Cell
        <5> QED BY <5>1, <5>2
      <4> QED BY <3>13, <3>14, <4>2, <4>3 DEF Sound
    <3> QED BY <3>7, <3>12, <3>15 DEF FirstTime
  <2> QED BY <2>4, <2>5
<1> QED BY <1>3, <1>4

-----------------------------------------------------------------------------
(* The theorem *)

LEMMA ChannelInit == Init => ChannelInv
<1> SUFFICES ASSUME Init PROVE ChannelInv OBVIOUS
<1>1. ChannelTypes
  BY LocalsAssumption DEF Init, ChannelTypes, AnyEnd, NoEnd
<1>2. InTurn BY DEF Init, InTurn
<1>3. ASSUME NEW w \in Writers PROVE Sound(w)
  BY DEF Init, Sound, OneObject, OneWaits, InChannel, InSocket, DueInChannel, DueInSocket, NoEnd
<1> QED BY <1>1, <1>2, <1>3 DEF Init, ChannelInv, FirstTime

LEMMA ChannelStep == ChannelInv /\ [Next]_vars => ChannelInv'
<1> SUFFICES ASSUME ChannelInv, [Next]_vars PROVE ChannelInv' OBVIOUS
<1>1. CASE UNCHANGED vars
  <2>1. UNCHANGED <<local, calls, sending, pending, held, target, name, objects, wend, rend, seen,
                    sock, rpc, got, due, repeats>>
    BY <1>1 DEF vars, writing, shm, reading
  <2>2. FirstTime => FirstTime'
    <3> SUFFICES ASSUME FirstTime PROVE FirstTime' OBVIOUS
    <3>1. ChannelTypes' /\ InTurn' BY <2>1 DEF FirstTime, ChannelTypes, InTurn
    <3>2. \A v \in Writers : Sound(v)' BY <2>1, Others DEF FirstTime
    <3> QED BY <3>1, <3>2 DEF FirstTime
  <2> QED BY <2>1, <2>2 DEF ChannelInv
<1>2. CASE Next
  <2>1. repeats' \in Nat /\ (repeats' = 0 => repeats = 0)
    <3>1. repeats' \in {repeats, repeats + 1}
      BY <1>2 DEF Next, WriterAdd, WriterRemove, ReaderAdd, ReaderRemove, Write, WriteTooLarge, Resume,
                  ResumeTooLarge, ReadChannel, NothingThere, Receive, Repeat
    <3> QED BY <3>1 DEF ChannelInv
  <2> SUFFICES ASSUME repeats' = 0 PROVE FirstTime' BY <2>1 DEF ChannelInv
  <2>2. repeats = 0 /\ FirstTime BY <2>1 DEF ChannelInv
  <2>3. CASE ReadChannel
    <3>1. PICK w \in Unread : Take(w) BY <2>3 DEF ReadChannel
    <3> QED BY <2>2, <2>3, <3>1, TakeKeeps DEF ReadChannel
  <2>4. ASSUME NEW w \in Writers, WriterRemove(w) \/ ReaderRemove(w) PROVE FALSE
    BY <2>2, <2>4 DEF WriterRemove, ReaderRemove, Repeat
  <2> QED BY <1>2, <2>2, <2>3, <2>4, WriterAddKeeps, ReaderAddKeeps, WriteKeeps, WriteTooLargeKeeps,
            ResumeKeeps, ResumeTooLargeKeeps, NothingThereKeeps, ReceiveKeeps DEF Next
<1> QED BY <1>1, <1>2

(* A reader returns the messages of a writer in the order written and none *)
(* twice, and when nothing is under way any more it has returned the last  *)
(* one of every writer that it listened to (LastInOrder), however the      *)
(* wake-ups, the shared memory and the socket run apart.                   *)
THEOREM ChannelInOrder == Spec => []LastInOrder
<1>1. ChannelInv => LastInOrder
  <2> SUFFICES ASSUME ChannelInv, repeats = 0
               PROVE  LastInOrder
    BY DEF LastInOrder, Ordered, LastArrives
  <2>1. FirstTime BY DEF ChannelInv
  <2>2. Ordered BY <2>1 DEF FirstTime, InTurn, Ordered
  <2>3. ASSUME rpc = "wait", sock = <<>>, \A w \in Writers : sending[w] = 0,
               NEW w \in Writers, due[w] # 0, w \in local \/ local = {}
        PROVE  \E i \in DOMAIN got : got[i][1] = w /\ got[i][2] >= due[w]
    <3>1. ChannelTypes /\ Sound(w) BY <2>1 DEF FirstTime
    <3>2. sending[w] = 0 /\ pending[w] = 0 BY <2>3, <3>1 DEF Sound, OneWaits
    <3>3. due[w] \in Nat BY <3>1 DEF ChannelTypes
    <3>4. CASE local = {}
      BY <2>3, <3>1, <3>2, <3>3, <3>4 DEF Sound, DueInSocket
    <3>5. CASE w \in local
      <4>1. due[w] <= Cell(w).msg /\ seen[w] = Cell(w).seq /\ Len(objects[w]) = 1
        BY <2>3, <3>1, <3>2, <3>5 DEF Sound, DueInChannel, OneObject
      <4>2. Cell(w).msg \in Nat /\ Cell(w).seq # 0
        BY <2>3, <3>1, <3>3, <4>1, CellType DEF Sound, InChannel
      <4>3. PICK i \in DOMAIN got : got[i] = <<w, Cell(w).msg>>
        BY <3>1, <4>1, <4>2 DEF Sound, InChannel
      <4> QED BY <3>3, <4>1, <4>2, <4>3
    <3> QED BY <2>3, <3>4, <3>5
  <2> QED BY <2>2, <2>3 DEF LastInOrder, LastArrives
<1> QED BY <1>1, ChannelInit, ChannelStep, PTL DEF Spec

-----------------------------------------------------------------------------
(* LpssService: the invariant *)


ServiceTypes ==
  /\ nearby \subseteq Clients
  /\ ready \in [Clients -> BOOLEAN] /\ known \in [Clients -> BOOLEAN]
  /\ requests \in [Clients -> Seq(Messages)] /\ answers \in [Clients -> Seq(Messages)]
  /\ issued \in [Clients -> 0..MaxCalls] /\ calling \in [Clients -> BOOLEAN]
  /\ response \in [Clients -> 0..MaxCalls]
  /\ pc \in [Tasks -> {"idle", "polling"}] /\ own \in [Tasks -> 0..MaxCalls]
  /\ serving \in Messages \cup {NoRequest} /\ left \subseteq Clients
  /\ served \in [Clients -> [1..MaxCalls -> Nat]] /\ answered \subseteq Messages
  /\ results \in [Clients -> SUBSET ((1..MaxCalls) \X (1..MaxCalls))]

(* One coroutine at a time is in call of a client, and it made the last    *)
(* call.                                                                   *)
Callers ==
  /\ \A t \in Tasks :
       pc[t] = "polling" => /\ calling[ClientOf[t]]
                            /\ own[t] = issued[ClientOf[t]] /\ own[t] # 0
  /\ \A t, u \in Tasks :
       pc[t] = "polling" /\ pc[u] = "polling" /\ ClientOf[t] = ClientOf[u] => t = u
  /\ \A c \in Clients :
       calling[c] => \E t \in Tasks : ClientOf[t] = c /\ pc[t] = "polling"

(* What is stored answers the call under way. *)
Stored == \A c \in Clients : response[c] # 0 => calling[c] /\ response[c] = issued[c]

Made(m) == m.k <= issued[m.client]

(* A request waits behind the earlier ones of its client and has not been  *)
(* served.                                                                 *)
InQueue(c) ==
  \A i \in 1 .. Len(requests[c]) :
    /\ requests[c][i].client = c /\ Made(requests[c][i])
    /\ served[c][requests[c][i].k] = 0

InOrder(c) ==
  \A i, j \in 1 .. Len(requests[c]) : i < j => requests[c][i].k < requests[c][j].k

Waiting == \A c \in Clients : InQueue(c) /\ InOrder(c)

Once == \A c \in Clients, k \in 1 .. MaxCalls : served[c][k] \in {0, 1}

(* No answer is to a call that has not been made. *)
Known ==
  /\ \A c \in Clients : \A i \in 1 .. Len(answers[c]) : Made(answers[c][i])
  /\ serving # NoRequest => serving \in Messages /\ Made(serving)
  /\ left # {} => serving # NoRequest
  /\ \A m \in answered : Made(m)

(* A call that has not been made has not been served. *)
Fresh == \A c \in Clients : \A k \in issued[c] + 1 .. MaxCalls : served[c][k] = 0

Own == \A c \in Clients : \A r \in results[c] : r[1] = r[2]

ServiceInv ==
  /\ ServiceTypes /\ Callers /\ Stored /\ Waiting /\ Once /\ Fresh /\ Known /\ Own /\ AnswerKept

-----------------------------------------------------------------------------
(* Below Numbers a number says which call it is. *)
LEMMA Unambiguous ==
  ASSUME ServiceAssumptions, MaxCalls < Numbers,
         NEW a \in 0 .. MaxCalls, NEW b \in 0 .. MaxCalls, a % Numbers = b % Numbers
  PROVE  a = b
<1>1. Numbers \in Nat \ {0} /\ MaxCalls \in Nat
  BY DEF ServiceAssumptions
<1>2. \A n \in 0 .. MaxCalls : n % Numbers = n
  BY <1>1
<1> QED BY <1>2

(* What Put makes of a queue: the message, behind what was there or alone. *)
LEMMA PutType ==
  ASSUME NEW c, NEW s \in Seq(Messages), NEW m \in Messages
  PROVE  Put(c, s, m) \in Seq(Messages)
BY DEF Put

LEMMA PutBehind ==
  ASSUME NEW c, NEW s \in Seq(Messages), NEW m \in Messages
  PROVE  \A i \in 1 .. Len(Put(c, s, m)) :
           \/ Put(c, s, m)[i] = m
           \/ i \in 1 .. Len(s) /\ Put(c, s, m)[i] = s[i]
BY DEF Put

LEMMA PutLast ==
  ASSUME NEW c, NEW s \in Seq(Messages), NEW m \in Messages
  PROVE  \A i, j \in 1 .. Len(Put(c, s, m)) :
           i < j => i \in 1 .. Len(s) /\ Put(c, s, m)[i] = s[i]
BY DEF Put

LEMMA PutThere ==
  ASSUME NEW c, NEW s \in Seq(Messages), NEW m \in Messages
  PROVE  \E i \in 1 .. Len(Put(c, s, m)) : Put(c, s, m)[i] = m
<1>1. CASE c \in nearby
  BY <1>1 DEF Put
<1>2. CASE c \notin nearby
  <2>1. Put(c, s, m) = Append(s, m) /\ Len(Append(s, m)) = Len(s) + 1
        /\ Append(s, m)[Len(s) + 1] = m
    BY <1>2 DEF Put
  <2> QED BY <2>1
<1> QED BY <1>1, <1>2

LEMMA PutKeeps ==
  ASSUME NEW c, NEW s \in Seq(Messages), NEW m \in Messages, c \notin nearby
  PROVE  \A i \in 1 .. Len(s) : i \in 1 .. Len(Put(c, s, m)) /\ Put(c, s, m)[i] = s[i]
BY DEF Put

LEMMA TailOf ==
  ASSUME NEW s \in Seq(Messages), s # <<>>
  PROVE  /\ Tail(s) \in Seq(Messages) /\ Head(s) \in Messages /\ Head(s) = s[1]
         /\ Len(Tail(s)) = Len(s) - 1 /\ Len(s) \in Nat \ {0}
         /\ \A i \in 1 .. Len(Tail(s)) : i + 1 \in 1 .. Len(s) /\ Tail(s)[i] = s[i + 1]
         /\ \A i \in 1 .. Len(s) : i = 1 \/ (i - 1 \in 1 .. Len(Tail(s)) /\ Tail(s)[i - 1] = s[i])
OBVIOUS

-----------------------------------------------------------------------------
(* The endpoints find each other. *)
LEMMA FoundKeeps ==
  ASSUME ServiceInv, NEW c \in Clients, ClientReady(c) \/ ServiceKnows(c)
  PROVE  ServiceInv'
<1>1. /\ ready' \in [Clients -> BOOLEAN] /\ known' \in [Clients -> BOOLEAN]
      /\ UNCHANGED <<nearby, requests, answers, issued, calling, response, pc, own, results,
                     serving, left, served, answered>>
  BY DEF ServiceInv, ServiceTypes, ClientReady, ServiceKnows, client, service
<1>2. ServiceTypes' /\ Callers' /\ Stored' /\ Once' /\ Fresh' /\ Own'
  BY <1>1 DEF ServiceInv, ServiceTypes, Callers, Stored, Once, Fresh, Own
<1>3. Waiting' /\ Known' /\ AnswerKept'
  BY <1>1 DEF ServiceInv, Waiting, InQueue, InOrder, Known, Made, AnswerKept
<1> QED BY <1>2, <1>3 DEF ServiceInv

(* The coroutine that a call blocks is the only one, and its request the   *)
(* last of the client's.                                                   *)
LEMMA CallKeeps ==
  ASSUME ServiceAssumptions, ServiceInv, NEW t \in Tasks, Call(t)
  PROVE  ServiceInv'
<1> DEFINE c == ClientOf[t]
           k == issued[c] + 1
           m == [client |-> c, k |-> k]
           QueuedBehind ==
             /\ \A i \in 1 .. Len(requests'[c]) :
                  \/ requests'[c][i] = m
                  \/ i \in 1 .. Len(requests[c]) /\ requests'[c][i] = requests[c][i]
             /\ \A i, j \in 1 .. Len(requests'[c]) :
                  i < j => i \in 1 .. Len(requests[c]) /\ requests'[c][i] = requests[c][i]
<1>1. c \in Clients /\ c = ClientOf[t] /\ ClientOf \in [Tasks -> Clients] /\ MaxCalls \in Nat
  BY DEF ServiceAssumptions
<1>2. /\ ~calling[c] /\ pc[t] = "idle"
      /\ calling' = [calling EXCEPT ![c] = TRUE]
      /\ issued' = [issued EXCEPT ![c] = k]
      /\ response' = [response EXCEPT ![c] = 0]
      /\ own' = [own EXCEPT ![t] = k]
      /\ pc' = [pc EXCEPT ![t] = "polling"]
      /\ k \in 1 .. MaxCalls
      /\ UNCHANGED <<nearby, ready, known, answers, results, serving, left, served, answered>>
  BY SMTT(30), <1>1 DEF Call, ServiceInv, ServiceTypes, ServiceAssumptions, service
<1>3. m \in Messages /\ m.client = c /\ m.k = k /\ m = [client |-> c, k |-> k] /\ k = issued[c] + 1
  BY <1>1, <1>2 DEF Messages
<1>4. /\ requests' \in [Clients -> Seq(Messages)]
      /\ \A d \in Clients : d # c => requests'[d] = requests[d]
      /\ requests'[c] = requests[c] \/ QueuedBehind
  <2>1. requests[c] \in Seq(Messages)
    BY <1>1 DEF ServiceInv, ServiceTypes
  <2>2. /\ Put(c, requests[c], m) \in Seq(Messages)
        /\ \A i \in 1 .. Len(Put(c, requests[c], m)) :
             \/ Put(c, requests[c], m)[i] = m
             \/ i \in 1 .. Len(requests[c]) /\ Put(c, requests[c], m)[i] = requests[c][i]
        /\ \A i, j \in 1 .. Len(Put(c, requests[c], m)) :
             i < j => i \in 1 .. Len(requests[c]) /\ Put(c, requests[c], m)[i] = requests[c][i]
    BY <1>3, <2>1, PutType, PutBehind, PutLast
  <2>3. CASE requests' = [requests EXCEPT ![c] = Put(c, requests[c], m)]
    <3>1. requests'[c] = Put(c, requests[c], m)
      BY <2>3, <1>1 DEF ServiceInv, ServiceTypes
    <3> QED BY <2>2, <2>3, <3>1, <1>1 DEF ServiceInv, ServiceTypes
  <2>4. CASE requests' = requests
    BY <2>4 DEF ServiceInv, ServiceTypes
  <2> QED BY <2>3, <2>4 DEF Call
<1> HIDE DEF c, k, m
<1>5. ServiceTypes'
  <2>1. issued' \in [Clients -> 0..MaxCalls] /\ response' \in [Clients -> 0..MaxCalls]
    BY <1>1, <1>2 DEF ServiceInv, ServiceTypes
  <2>2. calling' \in [Clients -> BOOLEAN] /\ pc' \in [Tasks -> {"idle", "polling"}]
    BY <1>1, <1>2 DEF ServiceInv, ServiceTypes
  <2>3. own' \in [Tasks -> 0..MaxCalls]
    BY <1>1, <1>2 DEF ServiceInv, ServiceTypes
  <2> QED BY <2>1, <2>2, <2>3, <1>2, <1>4 DEF ServiceInv, ServiceTypes
<1>6. Callers'
  BY SMTT(30), <1>1, <1>2 DEF ServiceInv, ServiceTypes, Callers
<1>7. Stored'
  BY <1>1, <1>2 DEF ServiceInv, ServiceTypes, Stored
<1>8. \A d \in Clients : issued[d] \in Nat /\ issued'[d] \in Nat /\ issued[d] <= issued'[d]
  BY SMTT(30), <1>1, <1>2, <1>3 DEF ServiceInv, ServiceTypes
<1>9. \A x \in Messages : x.client \in Clients /\ x.k \in 1 .. MaxCalls /\ (Made(x) => x.k <= issued'[x.client])
  BY <1>8 DEF Made, Messages
<1>10. Waiting'
  <2>1. \A d \in Clients : \A i \in 1 .. Len(requests[d]) : requests[d][i] \in Messages
    BY DEF ServiceInv, ServiceTypes
  <2>2. ASSUME NEW d \in Clients, requests'[d] = requests[d]
        PROVE  InQueue(d)' /\ InOrder(d)'
    <3>1. InQueue(d)'
      <4> SUFFICES ASSUME NEW i \in 1 .. Len(requests[d])
                   PROVE  /\ requests[d][i].client = d
                          /\ requests[d][i].k <= issued'[requests[d][i].client]
                          /\ served[d][requests[d][i].k] = 0
        BY <2>2, <1>2 DEF InQueue, Made
      <4>1. requests[d][i].client = d /\ Made(requests[d][i]) /\ served[d][requests[d][i].k] = 0
        BY DEF ServiceInv, Waiting, InQueue
      <4> QED BY <4>1, <2>1, <1>9
    <3>2. InOrder(d)'
      BY <2>2 DEF ServiceInv, Waiting, InOrder
    <3> QED BY <3>1, <3>2
  <2>3. ASSUME QueuedBehind
        PROVE  InQueue(c)' /\ InOrder(c)'
    <3> DEFINE q == requests'[c]
    <3>2. /\ \A i \in 1 .. Len(q) : q[i] = m \/ (i \in 1 .. Len(requests[c]) /\ q[i] = requests[c][i])
          /\ \A i, j \in 1 .. Len(q) : i < j => i \in 1 .. Len(requests[c]) /\ q[i] = requests[c][i]
      BY <2>3
    <3>3. m.k <= issued'[m.client]
      BY <1>1, <1>2, <1>3 DEF Made, ServiceInv, ServiceTypes
    <3>4. served[c][k] = 0 /\ k \in Nat
      BY <1>1, <1>2, <1>3 DEF ServiceInv, Fresh, ServiceTypes
    <3>5. \A i \in 1 .. Len(requests[c]) :
            /\ requests[c][i].client = c /\ Made(requests[c][i]) /\ served[c][requests[c][i].k] = 0
            /\ requests[c][i].k \in Nat /\ requests[c][i] \in Messages
      BY <2>1, <1>1 DEF ServiceInv, Waiting, InQueue, Messages
    <3>6. \A i \in 1 .. Len(requests[c]) : requests[c][i].k < k
      BY SMTT(30), <3>5, <1>1, <1>3, <1>8 DEF Made
    <3>7. InQueue(c)'
      <4> SUFFICES ASSUME NEW i \in 1 .. Len(q)
                   PROVE  /\ q[i].client = c /\ q[i].k <= issued'[q[i].client]
                          /\ served[c][q[i].k] = 0
        BY <1>2 DEF InQueue, Made
      <4>1. CASE q[i] = m
        BY <4>1, <3>3, <3>4, <1>3
      <4>2. CASE i \in 1 .. Len(requests[c]) /\ q[i] = requests[c][i]
        BY <4>2, <3>5, <1>9
      <4> QED BY <4>1, <4>2, <3>2
    <3>8. InOrder(c)'
      <4> SUFFICES ASSUME NEW i \in 1 .. Len(q), NEW j \in 1 .. Len(q), i < j
                   PROVE  q[i].k < q[j].k
        BY DEF InOrder
      <4>1. i \in 1 .. Len(requests[c]) /\ q[i] = requests[c][i]
        BY <3>2
      <4>2. CASE q[j] = m
        BY <4>1, <4>2, <3>6, <1>3
      <4>3. CASE j \in 1 .. Len(requests[c]) /\ q[j] = requests[c][j]
        BY <4>1, <4>3, <1>1 DEF ServiceInv, Waiting, InOrder
      <4> QED BY <4>2, <4>3, <3>2
    <3> QED BY <3>7, <3>8
  <2> QED BY <2>2, <2>3, <1>4 DEF Waiting
<1>11. Once' /\ Own' /\ Fresh'
  BY <1>2, <1>8 DEF ServiceInv, Once, Own, Fresh, service, ServiceTypes
<1>12. Known'
  <2>1. \A d \in Clients : \A i \in 1 .. Len(answers[d]) : answers[d][i] \in Messages
    BY DEF ServiceInv, ServiceTypes
  <2>2. answers' = answers /\ serving' = serving /\ left' = left /\ answered' = answered
    BY <1>2 DEF service
  <2> QED BY <2>1, <2>2, <1>9 DEF ServiceInv, Known, ServiceTypes, Made
<1>13. AnswerKept'
  <2>1. m \notin answered
    BY <1>1, <1>2, <1>3 DEF ServiceInv, Known, Made, ServiceTypes
  <2>2. \A u \in Tasks : pc'[u] = "polling" /\ u # t => pc[u] = "polling" /\ ClientOf[u] # c
    BY <1>2, <1>1 DEF ServiceInv, Callers, ServiceTypes
  <2>3. answers' = answers /\ answered' = answered /\ nearby' = nearby
    BY <1>2 DEF service
  <2> SUFFICES ASSUME NEW u \in Tasks, ClientOf[u] \notin nearby', pc'[u] = "polling",
                      [client |-> ClientOf[u], k |-> own'[u]] \in answered', response'[ClientOf[u]] = 0
               PROVE  \E i \in 1 .. Len(answers'[ClientOf[u]]) :
                        answers'[ClientOf[u]][i] = [client |-> ClientOf[u], k |-> own'[u]]
    BY DEF AnswerKept
  <2>4. u # t
    BY <1>3, <2>1, <2>3, <1>1, <1>2 DEF ServiceInv, ServiceTypes
  <2>5. own'[u] = own[u] /\ response[ClientOf[u]] = 0 /\ pc[u] = "polling"
    BY <2>4, <2>2, <1>1, <1>2 DEF ServiceInv, ServiceTypes
  <2> QED BY <2>5, <2>3 DEF ServiceInv, AnswerKept
<1> QED BY <1>5, <1>6, <1>7, <1>10, <1>11, <1>12, <1>13 DEF ServiceInv

(* What is returned answers the call. *)
LEMMA ReturnKeeps ==
  ASSUME ServiceAssumptions, ServiceInv, NEW t \in Tasks, Return(t)
  PROVE  ServiceInv'
<1> DEFINE c == ClientOf[t]
<1>1. c \in Clients /\ c = ClientOf[t] /\ ClientOf \in [Tasks -> Clients] /\ MaxCalls \in Nat
  BY DEF ServiceAssumptions
<1>2. /\ pc[t] = "polling" /\ own[t] = issued[c] /\ own[t] \in 1 .. MaxCalls
      /\ calling' = [calling EXCEPT ![c] = FALSE]
      /\ response' = [response EXCEPT ![c] = 0]
      /\ own' = [own EXCEPT ![t] = 0]
      /\ pc' = [pc EXCEPT ![t] = "idle"]
      /\ UNCHANGED <<nearby, ready, known, requests, answers, issued, serving, left, served, answered>>
  BY <1>1 DEF Return, ServiceInv, ServiceTypes, Callers, service
<1>3. /\ results' \in [Clients -> SUBSET ((1..MaxCalls) \X (1..MaxCalls))] /\ Own'
  <2>1. CASE response[c] = 0
    BY <2>1 DEF Return, ServiceInv, ServiceTypes, Own
  <2>2. CASE response[c] # 0
    <3>1. response[c] = issued[c]
      BY <2>2, <1>1 DEF ServiceInv, Stored
    <3>2. results' = [results EXCEPT ![c] = @ \cup {<<own[t], own[t]>>}]
      BY <2>2, <3>1, <1>2 DEF Return
    <3> QED BY <3>2, <1>1, <1>2 DEF ServiceInv, ServiceTypes, Own
  <2> QED BY <2>1, <2>2
<1>4. ServiceTypes'
  <2>1. response' \in [Clients -> 0..MaxCalls] /\ calling' \in [Clients -> BOOLEAN]
    BY <1>1, <1>2 DEF ServiceInv, ServiceTypes
  <2>2. pc' \in [Tasks -> {"idle", "polling"}] /\ own' \in [Tasks -> 0..MaxCalls]
    BY <1>1, <1>2 DEF ServiceInv, ServiceTypes
  <2> QED BY <2>1, <2>2, <1>2, <1>3 DEF ServiceInv, ServiceTypes
<1>5. \A u \in Tasks : pc'[u] = "polling" => u # t /\ pc[u] = "polling" /\ ClientOf[u] # c
  BY <1>1, <1>2 DEF ServiceInv, Callers, ServiceTypes
<1>6. Callers'
  BY <1>1, <1>2, <1>5 DEF ServiceInv, ServiceTypes, Callers
<1>7. Stored' /\ Once' /\ Fresh'
  BY <1>1, <1>2 DEF ServiceInv, ServiceTypes, Stored, Once, Fresh, service
<1>8. Waiting' /\ Known'
  BY <1>2 DEF ServiceInv, Waiting, InQueue, InOrder, Known, Made, service
<1>9. AnswerKept'
  <2> SUFFICES ASSUME NEW u \in Tasks, ClientOf[u] \notin nearby', pc'[u] = "polling",
                      [client |-> ClientOf[u], k |-> own'[u]] \in answered', response'[ClientOf[u]] = 0
               PROVE  \E i \in 1 .. Len(answers'[ClientOf[u]]) :
                        answers'[ClientOf[u]][i] = [client |-> ClientOf[u], k |-> own'[u]]
    BY DEF AnswerKept
  <2>1. u # t /\ pc[u] = "polling" /\ own'[u] = own[u] /\ response[ClientOf[u]] = 0
    BY <1>5, <1>2, <1>1 DEF ServiceInv, ServiceTypes
  <2> QED BY <2>1, <1>2 DEF ServiceInv, AnswerKept, service
<1> QED BY <1>3, <1>4, <1>6, <1>7, <1>8, <1>9 DEF ServiceInv

(* What a client stores answers the call under way, for the number says    *)
(* which it is, and nothing else leaves the queue unseen.                  *)
LEMMA ReceiveAnswerKeeps ==
  ASSUME ServiceAssumptions, MaxCalls < Numbers, ServiceInv, NEW c \in Clients, ReceiveAnswer(c)
  PROVE  ServiceInv'
<1> DEFINE m == Head(answers[c])
<1>1. /\ answers[c] \in Seq(Messages) /\ answers[c] # <<>> /\ m \in Messages /\ m = answers[c][1]
      /\ m.k \in 1 .. MaxCalls /\ MaxCalls \in Nat
      /\ answers' = [answers EXCEPT ![c] = Tail(answers[c])]
      /\ UNCHANGED <<nearby, ready, known, requests, issued, calling, pc, own, results,
                     serving, left, served, answered>>
  BY ZenonT(60), TailOf DEF ReceiveAnswer, ServiceInv, ServiceTypes, Messages, ServiceAssumptions, service
<1>2. answers'[c] = Tail(answers[c]) /\ \A d \in Clients : d # c => answers'[d] = answers[d]
  BY <1>1 DEF ServiceInv, ServiceTypes
<1>3. /\ \A d \in Clients : d # c => response'[d] = response[d]
      /\ \/ response'[c] = response[c]
         \/ response'[c] = issued[c] /\ calling[c]
      /\ response' \in [Clients -> 0 .. MaxCalls]
      /\ m.client = c /\ calling[c] /\ m.k = issued[c] => response'[c] = m.k
  <2>1. CASE Awaited(c, m)
    <3>1. issued[c] \in 0 .. MaxCalls
      BY DEF ServiceInv, ServiceTypes
    <3>2. m.k = issued[c] /\ calling[c]
      BY <2>1, <1>1, <3>1, Unambiguous DEF Awaited
    <3>3. response' = [response EXCEPT ![c] = m.k]
      BY <2>1 DEF ReceiveAnswer
    <3> QED BY <3>1, <3>2, <3>3 DEF ServiceInv, ServiceTypes
  <2>2. CASE ~Awaited(c, m)
    BY <2>2, <1>1 DEF ReceiveAnswer, Awaited, ServiceInv, ServiceTypes
  <2> QED BY <2>1, <2>2
<1>4. ServiceTypes'
  <2>1. Tail(answers[c]) \in Seq(Messages)
    BY <1>1, TailOf
  <2> QED BY <2>1, <1>1, <1>3 DEF ServiceInv, ServiceTypes
<1>5. Callers' /\ Once' /\ Fresh' /\ Own'
  BY <1>1 DEF ServiceInv, Callers, Once, Fresh, Own
<1>6. Stored'
  BY <1>1, <1>3 DEF ServiceInv, Stored
<1>7. Waiting'
  BY <1>1 DEF ServiceInv, Waiting, InQueue, InOrder, Made
<1>8. Known'
  <2>1. \A d \in Clients : \A i \in 1 .. Len(answers'[d]) :
          \E j \in 1 .. Len(answers[d]) : answers'[d][i] = answers[d][j]
    BY <1>1, <1>2, TailOf
  <2>2. \A d \in Clients : \A j \in 1 .. Len(answers[d]) : answers[d][j].k <= issued[answers[d][j].client]
    BY DEF ServiceInv, Known, Made
  <2> QED BY <2>1, <2>2, <1>1 DEF ServiceInv, Known, Made
<1>9. AnswerKept'
  <2> SUFFICES ASSUME NEW u \in Tasks, ClientOf[u] \notin nearby, pc[u] = "polling",
                      [client |-> ClientOf[u], k |-> own[u]] \in answered, response'[ClientOf[u]] = 0
               PROVE  \E i \in 1 .. Len(answers'[ClientOf[u]]) :
                        answers'[ClientOf[u]][i] = [client |-> ClientOf[u], k |-> own[u]]
    BY <1>1 DEF AnswerKept
  <2> DEFINE n == [client |-> ClientOf[u], k |-> own[u]]
  <2>1. /\ ClientOf[u] \in Clients /\ n.client = ClientOf[u] /\ n.k = own[u]
        /\ own[u] = issued[ClientOf[u]] /\ own[u] # 0 /\ calling[ClientOf[u]]
    BY DEF ServiceAssumptions, ServiceInv, Callers
  <2>2. response[ClientOf[u]] = 0
    BY <2>1, <1>3
  <2>3. PICK i \in 1 .. Len(answers[ClientOf[u]]) : answers[ClientOf[u]][i] = n
    BY <2>2 DEF ServiceInv, AnswerKept
  <2>4. CASE ClientOf[u] # c
    BY <2>3, <2>4, <2>1, <1>2
  <2>5. CASE ClientOf[u] = c
    <3>1. m # n
      BY <2>1, <2>5, <1>3
    <3>2. i # 1
      BY <3>1, <2>3, <2>5, <1>1
    <3>3. i - 1 \in 1 .. Len(Tail(answers[c])) /\ Tail(answers[c])[i - 1] = n
      BY <3>2, <2>3, <2>5, <1>1, TailOf
    <3> QED BY <3>3, <2>5, <1>2
  <2> QED BY <2>4, <2>5
<1> QED BY <1>4, <1>5, <1>6, <1>7, <1>8, <1>9 DEF ServiceInv

(* What is read, or dropped, is the first of its client.                   *)
LEMMA AfterReadingIs ==
  ASSUME requests \in [Clients -> Seq(Messages)], NEW c \in Clients, requests[c] # <<>>,
         NEW r \in AfterReading(c)
  PROVE  /\ r \in [Clients -> Seq(Messages)] /\ r[c] = Tail(requests[c])
         /\ \A d \in Clients \ {c} :
              r[d] = requests[d] \/ (requests[d] # <<>> /\ r[d] = Tail(requests[d]))
<1> DEFINE rest == [requests EXCEPT ![c] = Tail(@)]
<1>1. /\ rest \in [Clients -> Seq(Messages)] /\ rest[c] = Tail(requests[c])
      /\ \A d \in Clients \ {c} : rest[d] = requests[d]
  <2>1. Tail(requests[c]) \in Seq(Messages) BY TailOf
  <2> QED BY <2>1
<1>2. CASE r = rest BY <1>1, <1>2
<1>3. CASE r # rest
  <2>1. PICK d \in Clients \ nearby : c \in nearby /\ requests[d] # <<>> /\ r = [rest EXCEPT ![d] = Tail(@)]
    BY <1>3 DEF AfterReading
  <2>2. d # c /\ rest[d] = requests[d] BY <1>1, <2>1
  <2>3. Tail(requests[d]) \in Seq(Messages) BY <2>1, TailOf
  <2> HIDE DEF rest
  <2>4. r \in [Clients -> Seq(Messages)] /\ r[d] = Tail(requests[d])
        /\ \A e \in Clients \ {d} : r[e] = rest[e]
    BY <1>1, <2>1, <2>2, <2>3
  <2> QED BY <1>1, <2>1, <2>2, <2>4
<1> QED BY <1>2, <1>3

(* The request that is served was the first to wait, so that none is left  *)
(* of its number.                                                          *)
LEMMA ServeKeeps ==
  ASSUME ServiceAssumptions, ServiceInv, NEW c \in Clients, NEW throws \in BOOLEAN, Serve(c, throws)
  PROVE  ServiceInv'
<1> DEFINE m == Head(requests[c])
<1>0. /\ requests' \in [Clients -> Seq(Messages)] /\ requests'[c] = Tail(requests[c])
      /\ \A d \in Clients \ {c} :
           requests'[d] = requests[d] \/ (requests[d] # <<>> /\ requests'[d] = Tail(requests[d]))
  <2>1. /\ requests \in [Clients -> Seq(Messages)] /\ requests[c] # <<>>
        /\ requests' \in AfterReading(c)
    BY DEF Serve, ServiceInv, ServiceTypes
  <2> QED BY <2>1, AfterReadingIs
<1>1. /\ requests[c] \in Seq(Messages) /\ requests[c] # <<>> /\ m \in Messages /\ m = requests[c][1]
      /\ 1 \in 1 .. Len(requests[c]) /\ m.k \in 1 .. MaxCalls /\ MaxCalls \in Nat
      /\ served' = [served EXCEPT ![c][m.k] = @ + 1]
      /\ serving' \in {NoRequest, m} /\ (left' # {} => serving' = m) /\ left' \subseteq Clients
      /\ UNCHANGED <<nearby, ready, known, answers, answered, issued, calling, response, pc, own, results>>
  <2>1. requests[c] \in Seq(Messages) /\ requests[c] # <<>>
    BY DEF Serve, ServiceInv, ServiceTypes
  <2>2. m \in Messages /\ m = requests[c][1] /\ 1 \in 1 .. Len(requests[c])
    BY <2>1, TailOf
  <2>3. m.k \in 1 .. MaxCalls /\ MaxCalls \in Nat
    BY <2>2 DEF Messages, ServiceAssumptions
  <2>4. left' \subseteq Clients
    BY DEF Serve
  <2> QED BY <2>1, <2>2, <2>3, <2>4 DEF Serve, client
<1>2. m.client = c /\ m.k <= issued[c] /\ served[c][m.k] = 0
  BY <1>1 DEF ServiceInv, Waiting, InQueue, Made
<1>3. /\ served' \in [Clients -> [1 .. MaxCalls -> Nat]]
      /\ served'[c][m.k] = 1
      /\ \A d \in Clients, k \in 1 .. MaxCalls :
           d # c \/ k # m.k => served'[d][k] = served[d][k]
  BY SMTT(120), <1>1, <1>2 DEF ServiceInv, ServiceTypes
<1>4. ServiceTypes'
  BY <1>0, <1>1, <1>3 DEF ServiceInv, ServiceTypes
<1>5. Callers' /\ Stored' /\ Own'
  BY <1>1 DEF ServiceInv, Callers, Stored, Own
<1>6. Once'
  BY <1>1, <1>3 DEF ServiceInv, Once
<1>7. Fresh'
  <2> SUFFICES ASSUME NEW d \in Clients, NEW k \in issued[d] + 1 .. MaxCalls
               PROVE  served'[d][k] = 0
    BY <1>1 DEF Fresh
  <2>1. issued[d] \in Nat /\ k \in 1 .. MaxCalls /\ (d = c => k # m.k)
    BY SMTT(120), <1>1, <1>2 DEF ServiceInv, ServiceTypes
  <2> QED BY <2>1, <1>3 DEF ServiceInv, Fresh
<1>8. Waiting'
  <2>1. ASSUME NEW d \in Clients, d # c
        PROVE  InQueue(d)' /\ InOrder(d)'
    <3>1. \A i \in 1 .. Len(requests[d]) : requests[d][i].k \in 1 .. MaxCalls
      <4>1. \A i \in 1 .. Len(requests[d]) : requests[d][i] \in Messages
        BY DEF ServiceInv, ServiceTypes
      <4> QED BY <4>1 DEF Messages
    <3>2. \A i \in 1 .. Len(requests[d]) :
            LET r == requests[d][i]
            IN  r.client = d /\ r.k <= issued[r.client] /\ served'[d][r.k] = 0
      BY <2>1, <3>1, <1>3 DEF ServiceInv, Waiting, InQueue, Made
    <3>3. \A i, j \in 1 .. Len(requests[d]) : i < j => requests[d][i].k < requests[d][j].k
      BY DEF ServiceInv, Waiting, InOrder
    <3>4. CASE requests'[d] = requests[d]
      BY <3>2, <3>3, <3>4, <1>1 DEF InQueue, InOrder, Made
    <3>5. CASE requests[d] # <<>> /\ requests'[d] = Tail(requests[d])
      <4>1. requests[d] \in Seq(Messages) BY DEF ServiceInv, ServiceTypes
      <4>2. /\ Len(Tail(requests[d])) = Len(requests[d]) - 1 /\ Len(requests[d]) \in Nat
            /\ \A i \in 1 .. Len(Tail(requests[d])) :
                 i + 1 \in 1 .. Len(requests[d]) /\ Tail(requests[d])[i] = requests[d][i + 1]
        BY <3>5, <4>1, TailOf
      <4>3. InQueue(d)' BY <3>2, <3>5, <4>2, <1>1 DEF InQueue, Made
      <4>4. ASSUME NEW i \in 1 .. Len(Tail(requests[d])), NEW j \in 1 .. Len(Tail(requests[d])), i < j
            PROVE  Tail(requests[d])[i].k < Tail(requests[d])[j].k
        <5>1. i + 1 < j + 1 /\ i + 1 \in 1 .. Len(requests[d]) /\ j + 1 \in 1 .. Len(requests[d])
          BY <4>2, <4>4
        <5> QED BY <3>3, <4>2, <5>1
      <4>5. InOrder(d)' BY <3>5, <4>4 DEF InOrder
      <4> QED BY <4>3, <4>5
    <3> QED BY <2>1, <3>4, <3>5, <1>0
  <2>2. /\ Len(Tail(requests[c])) = Len(requests[c]) - 1 /\ Len(requests[c]) \in Nat
        /\ \A i \in 1 .. Len(Tail(requests[c])) :
             /\ i + 1 \in 1 .. Len(requests[c]) /\ Tail(requests[c])[i] = requests[c][i + 1]
             /\ requests[c][i + 1].k \in 1 .. MaxCalls
    <3>1. \A i \in 1 .. Len(requests[c]) : requests[c][i] \in Messages
      BY <1>1
    <3>2. \A i \in 1 .. Len(requests[c]) : requests[c][i].k \in 1 .. MaxCalls
      BY <3>1 DEF Messages
    <3> QED BY <1>1, <3>2, TailOf
  <2>3. \A i \in 1 .. Len(Tail(requests[c])) : m.k < Tail(requests[c])[i].k
    BY SMTT(30), <2>2, <1>1 DEF ServiceInv, Waiting, InOrder
  <2>4. InQueue(c)'
    <3> SUFFICES ASSUME NEW i \in 1 .. Len(Tail(requests[c]))
                 PROVE  LET r == Tail(requests[c])[i]
                        IN  r.client = c /\ r.k <= issued[r.client] /\ served'[c][r.k] = 0
      BY ZenonT(120), <1>0, <1>1, <1>3 DEF InQueue, Made
    <3>1. /\ requests[c][i + 1].client = c /\ requests[c][i + 1].k <= issued[requests[c][i + 1].client]
          /\ served[c][requests[c][i + 1].k] = 0
      BY <2>2 DEF ServiceInv, Waiting, InQueue, Made
    <3>2. requests[c][i + 1].k # m.k /\ requests[c][i + 1].k \in 1 .. MaxCalls
      BY <2>2, <2>3, <1>1
    <3> QED BY <3>1, <3>2, <2>2, <1>3
  <2>5. InOrder(c)'
    <3> SUFFICES ASSUME NEW i \in 1 .. Len(Tail(requests[c])), NEW j \in 1 .. Len(Tail(requests[c])), i < j
                 PROVE  Tail(requests[c])[i].k < Tail(requests[c])[j].k
      BY <1>0 DEF InOrder
    <3>1. i + 1 < j + 1 /\ i + 1 \in 1 .. Len(requests[c]) /\ j + 1 \in 1 .. Len(requests[c])
      BY <2>2
    <3>2. requests[c][i + 1].k < requests[c][j + 1].k
      BY <3>1 DEF ServiceInv, Waiting, InOrder
    <3> QED BY <3>2, <2>2
  <2> QED BY <2>1, <2>4, <2>5 DEF Waiting
<1>9. Known'
  <2>1. serving' # NoRequest => serving' \in Messages /\ serving'.k <= issued[serving'.client]
    BY <1>1, <1>2
  <2>2. left' # {} => serving' # NoRequest
    BY <1>1 DEF NoRequest, Messages, ServiceAssumptions
  <2> QED BY <2>1, <2>2, <1>1 DEF ServiceInv, Known, Made
<1>10. AnswerKept'
  BY <1>1 DEF ServiceInv, AnswerKept
<1> QED BY <1>4, <1>5, <1>6, <1>7, <1>8, <1>9, <1>10 DEF ServiceInv

(* The answer joins the queue of its client, if it is on another host.     *)
LEMMA AnswerKeeps ==
  ASSUME ServiceAssumptions, ServiceInv, NEW c \in Clients, Answer(c)
  PROVE  ServiceInv'
<1>1. /\ serving \in Messages /\ serving # NoRequest
      /\ serving.client \in Clients /\ serving.k <= issued[serving.client]
      /\ answers[c] \in Seq(Messages)
      /\ answers' = [answers EXCEPT ![c] = Put(c, answers[c], serving)]
      /\ answered' = IF c = serving.client THEN answered \cup {serving} ELSE answered
      /\ left' \subseteq left
      /\ serving' \in {NoRequest, serving} /\ (left' # {} => serving' = serving)
      /\ UNCHANGED <<nearby, ready, known, requests, served, issued, calling, response, pc, own, results>>
  BY DEF Answer, ServiceInv, ServiceTypes, Known, Made, Messages, client
<1>2. /\ answers'[c] = Put(c, answers[c], serving) /\ answers'[c] \in Seq(Messages)
      /\ \A d \in Clients : d # c => answers'[d] = answers[d]
  BY <1>1, PutType DEF ServiceInv, ServiceTypes
<1>3. ServiceTypes'
  BY <1>1, <1>2 DEF ServiceInv, ServiceTypes
<1>4. Callers' /\ Stored' /\ Once' /\ Fresh' /\ Own'
  BY <1>1 DEF ServiceInv, Callers, Stored, Once, Fresh, Own
<1>5. Waiting'
  BY <1>1 DEF ServiceInv, Waiting, InQueue, InOrder, Made
<1>6. Known'
  <2>1. \A i \in 1 .. Len(answers'[c]) :
          answers'[c][i] = serving \/ \E j \in 1 .. Len(answers[c]) : answers'[c][i] = answers[c][j]
    BY <1>1, <1>2, PutBehind
  <2>2. \A d \in Clients : \A i \in 1 .. Len(answers[d]) : answers[d][i].k <= issued[answers[d][i].client]
    BY DEF ServiceInv, Known, Made
  <2>3. \A d \in Clients : \A i \in 1 .. Len(answers'[d]) : answers'[d][i].k <= issued[answers'[d][i].client]
    BY <2>1, <2>2, <1>1, <1>2
  <2> QED BY <2>3, <1>1 DEF ServiceInv, Known, Made
<1>7. AnswerKept'
  <2> SUFFICES ASSUME NEW u \in Tasks, ClientOf[u] \notin nearby, pc[u] = "polling",
                      [client |-> ClientOf[u], k |-> own[u]] \in answered', response[ClientOf[u]] = 0
               PROVE  \E i \in 1 .. Len(answers'[ClientOf[u]]) :
                        answers'[ClientOf[u]][i] = [client |-> ClientOf[u], k |-> own[u]]
    BY <1>1 DEF AnswerKept
  <2> DEFINE n == [client |-> ClientOf[u], k |-> own[u]]
  <2>1. ClientOf[u] \in Clients /\ n.client = ClientOf[u]
    BY DEF ServiceAssumptions
  <2>2. CASE n = serving /\ ClientOf[u] = c
    BY <2>2, <1>1, <1>2, PutThere
  <2>3. CASE ~(n = serving /\ ClientOf[u] = c)
    <3>1. n \in answered
      BY <2>1, <2>3, <1>1
    <3>2. PICK i \in 1 .. Len(answers[ClientOf[u]]) : answers[ClientOf[u]][i] = n
      BY <3>1 DEF ServiceInv, AnswerKept
    <3>3. CASE ClientOf[u] = c
      <4>1. i \in 1 .. Len(Put(c, answers[c], serving)) /\ Put(c, answers[c], serving)[i] = n
        BY <3>2, <3>3, <1>1, PutKeeps
      <4> QED BY <4>1, <3>3, <1>2
    <3>4. CASE ClientOf[u] # c
      BY <3>2, <3>4, <2>1, <1>2
    <3> QED BY <3>3, <3>4
  <2> QED BY <2>2, <2>3
<1> QED BY <1>3, <1>4, <1>5, <1>6, <1>7 DEF ServiceInv

-----------------------------------------------------------------------------
LEMMA ServiceStep ==
  ASSUME ServiceAssumptions, MaxCalls < Numbers, ServiceInv, [ServiceNext]_serviceVars
  PROVE  ServiceInv'
<1>1. ASSUME NEW c \in Clients, ClientReady(c) \/ ServiceKnows(c) PROVE ServiceInv'
  BY <1>1, FoundKeeps
<1>2. ASSUME NEW t \in Tasks, Call(t) \/ Return(t) PROVE ServiceInv'
  BY <1>2, CallKeeps, ReturnKeeps
<1>3. ASSUME NEW c \in Clients, ReceiveAnswer(c) \/ Answer(c) PROVE ServiceInv'
  BY <1>3, ReceiveAnswerKeeps, AnswerKeeps
<1>4. ASSUME NEW c \in Clients, NEW throws \in BOOLEAN, Serve(c, throws) PROVE ServiceInv'
  BY <1>4, ServeKeeps
<1>5. CASE UNCHANGED serviceVars
  <2>1. ServiceTypes' /\ Callers' /\ Stored' /\ Once' /\ Fresh' /\ Own'
    BY <1>5 DEF serviceVars, client, service, ServiceInv, ServiceTypes, Callers, Stored, Once, Fresh, Own
  <2>2. Waiting' /\ Known' /\ AnswerKept'
    BY <1>5 DEF serviceVars, client, service, ServiceInv, Waiting, InQueue, InOrder, Known, Made, AnswerKept
  <2> QED BY <2>1, <2>2 DEF ServiceInv
<1> QED BY <1>1, <1>2, <1>3, <1>4, <1>5 DEF ServiceNext

LEMMA ServiceInvInit ==
  ASSUME ServiceAssumptions, ServiceInit
  PROVE  ServiceInv
<1>1. MaxCalls \in Nat /\ 0 \in 0 .. MaxCalls /\ <<>> \in Seq(Messages) /\ Len(<<>>) = 0
  BY DEF ServiceAssumptions
<1>2. ServiceTypes
  BY <1>1 DEF ServiceAssumptions, ServiceInit, ServiceTypes, NoRequest
<1>3. Callers /\ Stored /\ Once /\ Fresh /\ Own /\ AnswerKept
  BY <1>1 DEF ServiceAssumptions, ServiceInit, Callers, Stored, Once, Fresh, Own, AnswerKept
<1>4. Waiting /\ Known
  BY <1>1 DEF ServiceInit, Waiting, InQueue, InOrder, Known
<1> QED BY <1>2, <1>3, <1>4 DEF ServiceInv

LEMMA ServiceInductive ==
  ASSUME ServiceAssumptions, MaxCalls < Numbers
  PROVE  ServiceSpec => []ServiceInv
<1>1. ServiceInit => ServiceInv
  BY ServiceInvInit
<1>2. ServiceInv /\ [ServiceNext]_serviceVars => ServiceInv'
  BY ServiceStep
<1> QED BY <1>1, <1>2, PTL DEF ServiceSpec

(* Every variable has a value of its type, and a client is _calling just   *)
(* while one of the coroutines that use it is in call (node_impl.hpp:224). *)
THEOREM ServiceTypeCorrect ==
  ASSUME ServiceAssumptions, MaxCalls < Numbers
  PROVE  ServiceSpec => []ServiceTypeOK
<1>1. ServiceInv => ServiceTypeOK
  <2> SUFFICES ASSUME ServiceInv, NEW c \in Clients
               PROVE  Cardinality({t \in Tasks : ClientOf[t] = c /\ pc[t] = "polling"})
                        = IF calling[c] THEN 1 ELSE 0
    BY DEF ServiceInv, ServiceTypes, ServiceTypeOK
  <2> DEFINE S == {t \in Tasks : ClientOf[t] = c /\ pc[t] = "polling"}
  <2>1. CASE calling[c]
    <3>1. PICK t \in Tasks : ClientOf[t] = c /\ pc[t] = "polling"
      BY <2>1 DEF ServiceInv, Callers
    <3>2. S = {t}
      BY <3>1 DEF ServiceInv, Callers
    <3> QED BY <3>2, <2>1, FS_Singleton
  <2>2. CASE ~calling[c]
    <3>1. S = {}
      BY <2>2 DEF ServiceInv, Callers
    <3> QED BY <3>1, <2>2, FS_EmptySet
  <2> QED BY <2>1, <2>2
<1> QED BY <1>1, ServiceInductive, PTL

(* However calls time out, answers come late and coroutines share clients, *)
(* a call returns the answer to its own request or none, the callback runs *)
(* once for a request, and an answer for a client on another host that     *)
(* still waits is not lost (node_impl.hpp:201-235).                        *)
THEOREM AnswersPaired ==
  ASSUME ServiceAssumptions, MaxCalls < Numbers
  PROVE  ServiceSpec => []AnswersMatch
<1>1. ServiceInv => AnswersMatch
  BY DEF ServiceInv, Own, Once, AnswersMatch, OwnAnswer
<1> QED BY <1>1, ServiceInductive, PTL

-----------------------------------------------------------------------------
(* MtpReassembly: pieces of a message *)

Upto(m, c, i) == IF i * c < Len(m) THEN i * c ELSE Len(m)

(* As many pieces of c bytes as it takes for l bytes, and no more.         *)
LEMMA PieceCount ==
  ASSUME NEW l \in Nat, NEW c \in Nat \ {0}, l # 0, NEW q, q = 1 + (l - 1) \div c
  PROVE  q \in Nat \ {0} /\ (q - 1) * c < l /\ l <= q * c
<1> DEFINE d == (l - 1) \div c
<1>1. d \in Nat /\ d * c <= l - 1 /\ l - 1 < d * c + c
  OBVIOUS
<1> HIDE DEF d
<1>2. q = 1 + d /\ q - 1 = d
  BY <1>1 DEF d
<1>3. q * c = d * c + c
  BY <1>1, <1>2
<1> QED BY <1>1, <1>2, <1>3

LEMMA Products ==
  ASSUME NEW i \in Nat, NEW j \in Nat, NEW c \in Nat \ {0}, i < j
  PROVE  i * c + c <= j * c /\ i * c \in Nat /\ j * c \in Nat /\ (i + 1) * c = i * c + c
<1>1. PICK k \in Nat : j = i + 1 + k
  BY SMT
<1>2. j * c = i * c + c + k * c /\ k * c \in Nat /\ i * c \in Nat
  BY <1>1
<1> QED BY <1>2

(* Piece p goes from byte p * c to where the next one starts, or to the end. *)
LEMMA PieceIs ==
  ASSUME NEW B, NEW m \in Seq(B), NEW c \in Nat \ {0}, NEW p \in Nat, p < Pieces(m, c)
  PROVE  /\ Pieces(m, c) \in Nat \ {0}
         /\ p * c \in Nat /\ (p + 1) * c = p * c + c
         /\ Upto(m, c, p) = p * c /\ Upto(m, c, p + 1) \in p * c .. Len(m)
         /\ Upto(m, c, p + 1) - p * c <= c
         /\ Len(m) # 0 => p * c < Upto(m, c, p + 1)
         /\ Piece(m, c, p) = SubSeq(m, Upto(m, c, p) + 1, Upto(m, c, p + 1))
         /\ Piece(m, c, p) \in Seq(B)
         /\ Len(Piece(m, c, p)) = Upto(m, c, p + 1) - p * c
         /\ p = Pieces(m, c) - 1 => Upto(m, c, p + 1) = Len(m)
<1> DEFINE n == Pieces(m, c)
<1>1. Len(m) \in Nat /\ (m = <<>> <=> Len(m) = 0)
  OBVIOUS
<1>2. CASE Len(m) = 0
  <2>1. n = 1 /\ p = 0 /\ p * c = 0 /\ (p + 1) * c = c
    BY <1>1, <1>2 DEF Pieces
  <2>2. Upto(m, c, p) = 0 /\ Upto(m, c, p + 1) = 0
    BY <1>2, <2>1 DEF Upto
  <2>3. Piece(m, c, p) = SubSeq(m, 1, 0) /\ Upto(m, c, p) + 1 = 1
    BY <1>2, <2>1, <2>2 DEF Piece
  <2>4. SubSeq(m, 1, 0) = <<>>
    BY SubSeqEmpty, 0 < 1
  <2>5. <<>> \in Seq(B) /\ Len(<<>>) = 0
    OBVIOUS
  <2>6. Piece(m, c, p) = SubSeq(m, Upto(m, c, p) + 1, Upto(m, c, p + 1)) /\ Piece(m, c, p) = <<>>
    BY <2>2, <2>3, <2>4
  <2>7. /\ n \in Nat \ {0} /\ p * c \in Nat /\ (p + 1) * c = p * c + c /\ Upto(m, c, p) = p * c
        /\ Upto(m, c, p + 1) \in p * c .. Len(m) /\ Upto(m, c, p + 1) - p * c <= c
        /\ Len(Piece(m, c, p)) = Upto(m, c, p + 1) - p * c
    <3>1. n \in Nat \ {0}
      BY <2>1
    <3>2. p * c \in Nat /\ (p + 1) * c = p * c + c /\ Upto(m, c, p) = p * c
      BY <2>1, <2>2
    <3>3. Upto(m, c, p + 1) \in p * c .. Len(m) /\ Upto(m, c, p + 1) - p * c <= c
      BY <1>2, <2>1, <2>2
    <3>4. Len(Piece(m, c, p)) = Upto(m, c, p + 1) - p * c
      BY <2>1, <2>2, <2>5, <2>6
    <3> HIDE DEF n
    <3> QED BY <3>1, <3>2, <3>3, <3>4
  <2>8. Piece(m, c, p) \in Seq(B)
    BY <2>5, <2>6
  <2> QED BY <1>2, <2>2, <2>6, <2>7, <2>8
<1>3. CASE Len(m) # 0
  <2>1. n = 1 + (Len(m) - 1) \div c
    BY <1>1, <1>3 DEF Pieces
  <2>2. n \in Nat \ {0} /\ (n - 1) * c < Len(m) /\ Len(m) <= n * c
    <3> HIDE DEF n
    <3> QED BY <1>1, <1>3, <2>1, PieceCount
  <2> HIDE DEF n
  <2>3. p < n
    BY DEF n
  <2>4. p * c \in Nat /\ (p + 1) * c = p * c + c
    BY <2>2, <2>3, Products
  <2>5. p * c <= (n - 1) * c
    <3>1. CASE p = n - 1
      BY <2>4, <3>1
    <3>2. CASE p < n - 1
      BY <2>2, <3>2, Products
    <3> QED BY <2>2, <2>3, <3>1, <3>2
  <2>6. (n - 1) * c \in Nat
    <3>1. n - 1 \in Nat
      BY <2>2
    <3> QED BY <3>1
  <2>7. p * c < Len(m)
    BY <1>1, <2>2, <2>4, <2>5, <2>6
  <2> DEFINE a == p * c  b == (p + 1) * c
  <2>8. Upto(m, c, p) = a /\ Upto(m, c, p + 1) = IF b < Len(m) THEN b ELSE Len(m)
    BY <2>7 DEF Upto
  <2>9. Piece(m, c, p) = SubSeq(m, a + 1, Upto(m, c, p + 1))
    BY <2>8 DEF Piece
  <2>10. p = n - 1 => Upto(m, c, p + 1) = Len(m)
    BY <2>2, <2>8, <1>1
  <2>11. a \in Nat /\ b = a + c /\ a < Len(m)
    BY <2>4, <2>7
  <2> DEFINE u == Upto(m, c, p + 1)
  <2> HIDE DEF a, b
  <2>12. u \in a + 1 .. Len(m) /\ u - a <= c
    BY <1>1, <2>8, <2>11
  <2> HIDE DEF u
  <2>13. SubSeq(m, a + 1, u) \in Seq(B) /\ Len(SubSeq(m, a + 1, u)) = u - a
    <3>1. \A i \in a + 1 .. u : m[i] \in B
      BY <1>1, <2>11, <2>12
    <3> QED BY <2>11, <2>12, <3>1, SubSeqProperties
  <2>14. /\ a \in Nat /\ b = a + c /\ Upto(m, c, p) = a /\ u \in a .. Len(m) /\ u - a <= c /\ a < u
         /\ Piece(m, c, p) = SubSeq(m, Upto(m, c, p) + 1, u)
         /\ Piece(m, c, p) \in Seq(B) /\ Len(Piece(m, c, p)) = u - a
         /\ p = n - 1 => u = Len(m)
    BY <2>8, <2>9, <2>10, <2>11, <2>12, <2>13 DEF u
  <2> QED BY <2>2, <2>14 DEF a, b, u, n
<1> QED BY <1>2, <1>3

LEMMA PiecesType ==
  ASSUME NEW B, NEW m \in Seq(B), NEW c \in Nat \ {0}
  PROVE  Pieces(m, c) \in Nat \ {0}
<1>1. CASE m = <<>>
  BY <1>1 DEF Pieces
<1>2. CASE m # <<>>
  <2>1. Len(m) \in Nat /\ Len(m) # 0 /\ Pieces(m, c) = 1 + (Len(m) - 1) \div c
    BY <1>2 DEF Pieces
  <2> QED BY <2>1, PieceCount
<1> QED BY <1>1, <1>2

(* A byte of the message is in one piece, at one place.                    *)
LEMMA Position ==
  ASSUME NEW c \in Nat \ {0}, NEW p \in Nat, NEW q \in Nat, NEW i \in 1 .. c, NEW j \in 1 .. c,
         p * c + i = q * c + j
  PROVE  p = q /\ i = j
<1>1. p * c \in Nat /\ q * c \in Nat
  OBVIOUS
<1>2. ~(p < q)
  <2> SUFFICES ASSUME p < q PROVE FALSE
    OBVIOUS
  <2>1. p * c + c <= q * c
    BY Products
  <2> QED BY <1>1, <2>1
<1>3. ~(q < p)
  <2> SUFFICES ASSUME q < p PROVE FALSE
    OBVIOUS
  <2>1. q * c + c <= p * c
    BY Products
  <2> QED BY <1>1, <2>1
<1>4. p = q
  BY <1>2, <1>3
<1> QED BY <1>1, <1>4

-----------------------------------------------------------------------------
(* MtpReassembly: the bytes of an assembly *)

(* A stored byte: the key, the number of the part, the place in it.        *)
LEMMA BytesAre ==
  ASSUME NEW a, NEW x
  PROVE  x \in BytesOf(a) <=> \E p \in DOMAIN a.parts : \E j \in 1 .. Len(a.parts[p]) : x = <<a.key, p, j>>
BY DEF BytesOf

(* a has pieces of m, cut at every c bytes. *)
PartOf(a, m, c) ==
  /\ a.total = Len(m) /\ DOMAIN a.parts \subseteq 0 .. Pieces(m, c) - 1
  /\ \A p \in DOMAIN a.parts : a.parts[p] = Piece(m, c, p)

(* Pieces of m have no more bytes than m, and as many just if all are there. *)
LEMMA PartBounded ==
  ASSUME NEW B, NEW m \in Seq(B), NEW c \in Nat \ {0}, NEW a, PartOf(a, m, c)
  PROVE  /\ IsFiniteSet(BytesOf(a)) /\ Cardinality(BytesOf(a)) <= Len(m)
         /\ DOMAIN a.parts = 0 .. Pieces(m, c) - 1 => Cardinality(BytesOf(a)) = Len(m)
         /\ Cardinality(BytesOf(a)) = Len(m) /\ Len(m) # 0 => DOMAIN a.parts = 0 .. Pieces(m, c) - 1
<1> DEFINE S == BytesOf(a)
           T == 1 .. Len(m)
           D == DOMAIN a.parts
           n == Pieces(m, c)
           At(p, j) == p * c + j
           f == [x \in S |-> At(x[2], x[3])]
<1>1. Len(m) \in Nat /\ n \in Nat \ {0}
  BY PiecesType
<1>2. ASSUME NEW p \in D
      PROVE  /\ p \in Nat /\ p < n /\ n \in Nat
             /\ Len(a.parts[p]) \in 0 .. c /\ p * c \in Nat /\ p * c + Len(a.parts[p]) <= Len(m)
             /\ Len(m) # 0 => Len(a.parts[p]) # 0
  <2>1. p \in 0 .. n - 1 /\ a.parts[p] = Piece(m, c, p)
    BY DEF PartOf
  <2>2. p \in Nat /\ p < n
    <3> HIDE DEF n
    <3> QED BY <1>1, <2>1
  <2>3. /\ n \in Nat \ {0} /\ p * c \in Nat /\ Upto(m, c, p + 1) \in p * c .. Len(m)
        /\ Upto(m, c, p + 1) - p * c <= c
        /\ Len(m) # 0 => p * c < Upto(m, c, p + 1)
        /\ Len(Piece(m, c, p)) = Upto(m, c, p + 1) - p * c
    BY <2>2, PieceIs
  <2> DEFINE u == Upto(m, c, p + 1)
             l == Len(a.parts[p])
  <2>4. p * c \in Nat /\ u \in p * c .. Len(m) /\ u - p * c <= c /\ (Len(m) # 0 => p * c < u) /\ l = u - p * c
    <3>1. l = Len(Piece(m, c, p))
      BY <2>1
    <3> HIDE DEF l, n
    <3> QED BY <2>3, <3>1
  <2> HIDE DEF u, l, n
  <2>5. l \in 0 .. c /\ p * c + l <= Len(m) /\ (Len(m) # 0 => l # 0)
    BY <1>1, <2>4
  <2> QED BY <1>1, <2>2, <2>4, <2>5 DEF l
<1>3. ASSUME NEW x \in S
      PROVE  /\ x = <<a.key, x[2], x[3]>> /\ x[2] \in D /\ x[3] \in 1 .. c
             /\ x[3] \in 1 .. Len(a.parts[x[2]]) /\ At(x[2], x[3]) \in T
  <2>1. PICK p \in D : \E j \in 1 .. Len(a.parts[p]) : x = <<a.key, p, j>>
    BY BytesAre
  <2>2. PICK j \in 1 .. Len(a.parts[p]) : x = <<a.key, p, j>>
    BY <2>1
  <2>3. x[2] = p /\ x[3] = j
    BY <2>2
  <2>4. j \in 1 .. c /\ p * c + j \in T
    BY SMTT(30), <1>1, <1>2
  <2> QED BY <2>2, <2>3, <2>4
<1> HIDE DEF D, n, S, T
<1>4. f \in Injection(S, T)
  <2>1. f \in [S -> T]
    BY <1>3
  <2>2. ASSUME NEW x \in S, NEW y \in S, f[x] = f[y] PROVE x = y
    <3>1. x[2] * c + x[3] = y[2] * c + y[3]
      BY <2>2
    <3>2. x[2] \in Nat /\ y[2] \in Nat /\ x[3] \in 1 .. c /\ y[3] \in 1 .. c
      BY <1>2, <1>3
    <3>3. x[2] = y[2] /\ x[3] = y[3]
      <4> DEFINE p == x[2]  q == y[2]  i == x[3]  j == y[3]
      <4>1. p * c + i = q * c + j /\ p \in Nat /\ q \in Nat /\ i \in 1 .. c /\ j \in 1 .. c
        BY <3>1, <3>2
      <4> HIDE DEF f, p, q, i, j
      <4>2. p = q /\ i = j
        BY <4>1, Position
      <4> QED BY <4>2 DEF p, q, i, j
    <3> QED BY <1>3, <3>3
  <2> HIDE DEF f
  <2> QED BY <2>1, <2>2 DEF Injection, IsInjective
<1>5. IsFiniteSet(T) /\ Cardinality(T) = Len(m)
  <2>1. 1 \in Int /\ Len(m) \in Int
    BY <1>1
  <2>2. IsFiniteSet(1 .. Len(m)) /\ Cardinality(1 .. Len(m)) = IF 1 > Len(m) THEN 0 ELSE Len(m) - 1 + 1
    BY <2>1, FS_Interval
  <2> QED BY <1>1, <2>2 DEF T
<1>6. IsFiniteSet(S) /\ Cardinality(S) <= Len(m) /\ (Cardinality(S) = Len(m) <=> f \in Surjection(S, T))
  <2> HIDE DEF f
  <2> QED BY <1>4, <1>5, FS_Injection
<1>7. ASSUME D = 0 .. n - 1 PROVE f \in Surjection(S, T)
  <2>1. ASSUME NEW y \in T PROVE \E x \in S : f[x] = y
    <3> DEFINE p == (y - 1) \div c
               j == y - p * c
    <3>1. y \in Nat /\ 1 <= y /\ y <= Len(m)
      BY <1>1 DEF T
    <3>2. p \in Nat /\ p * c \in Nat /\ p * c < y /\ y <= p * c + c /\ j \in 1 .. c /\ p * c + j = y
      BY <3>1
    <3> HIDE DEF p, j
    <3>3. p < n
      <4>1. n = 1 + (Len(m) - 1) \div c
        BY <1>1, <3>1 DEF n, Pieces
      <4>2. n \in Nat \ {0} /\ Len(m) <= n * c
        <5>1. Len(m) # 0
          BY <1>1, <3>1
        <5> QED BY <1>1, <4>1, <5>1, PieceCount
      <4>3. ~(n <= p)
        <5> SUFFICES ASSUME n <= p PROVE FALSE
          OBVIOUS
        <5>1. n * c <= p * c
          <6>1. CASE n = p
            BY <3>2, <6>1
          <6>2. CASE n < p
            BY <3>2, <4>2, <6>2, Products
          <6> QED BY <3>2, <4>2, <6>1, <6>2
        <5>2. n * c \in Nat
          BY <4>2
        <5> QED BY <1>1, <3>1, <3>2, <4>2, <5>1, <5>2
      <4> QED BY <3>2, <4>2, <4>3
    <3>4. p \in D /\ a.parts[p] = Piece(m, c, p)
      <4>1. p \in 0 .. n - 1
        <5>1. n \in Nat
          BY <1>1, <3>2, <3>3, PieceIs DEF n
        <5> QED BY <3>2, <3>3, <5>1
      <4> QED BY <1>7, <4>1 DEF PartOf, D
    <3>5. j \in 1 .. Len(a.parts[p])
      <4>1. Len(Piece(m, c, p)) = Upto(m, c, p + 1) - p * c /\ (p + 1) * c = p * c + c
        BY <3>2, <3>3, PieceIs DEF n
      <4>2. y <= Upto(m, c, p + 1)
        BY <1>1, <3>1, <3>2, <4>1 DEF Upto
      <4>3. Upto(m, c, p + 1) \in Nat
        BY <1>1, <3>2, <4>1 DEF Upto
      <4> QED BY SMTT(30), <3>1, <3>2, <3>4, <4>1, <4>2, <4>3
    <3> DEFINE x == <<a.key, p, j>>
    <3>6. x \in S
      BY <3>4, <3>5, BytesAre DEF D, S
    <3>7. f[x] = y
      BY <3>2, <3>6
    <3> QED BY <3>6, <3>7
  <2>2. f \in [S -> T]
    BY <1>3
  <2> HIDE DEF f
  <2> QED BY <2>1, <2>2 DEF Surjection
<1>8. ASSUME f \in Surjection(S, T), Len(m) # 0 PROVE D = 0 .. n - 1
  <2> SUFFICES ASSUME NEW p \in 0 .. n - 1, p \notin D PROVE FALSE
    BY DEF PartOf, D, n
  <2>1. p \in Nat /\ p < n
    BY <1>1
  <2>2. p * c \in Nat /\ p * c < Upto(m, c, p + 1) /\ Upto(m, c, p + 1) \in p * c .. Len(m)
    BY <1>8, <2>1, PieceIs DEF n
  <2>3. p * c + 1 \in T
    BY <1>1, <2>2 DEF T
  <2>4. PICK x \in S : f[x] = p * c + 1
    BY <1>8, <2>3 DEF Surjection
  <2>5. x[2] * c + x[3] = p * c + 1
    BY <2>4
  <2>6. x[2] \in D /\ x[2] \in Nat /\ x[3] \in 1 .. c /\ 1 \in 1 .. c
    BY <1>2, <1>3
  <2>7. x[2] = p
    <3> DEFINE q == x[2]  i == x[3]  one == 1
    <3>1. q * c + i = p * c + one /\ q \in Nat /\ i \in 1 .. c /\ one \in 1 .. c
      BY <2>5, <2>6
    <3> HIDE DEF f, q, i, one
    <3>2. q = p
      BY <2>1, <3>1, Position
    <3> QED BY <3>2 DEF q
  <2> QED BY <2>6, <2>7
<1> QED BY <1>6, <1>7, <1>8 DEF D, S, n

(* What is flattened piece by piece.                                       *)
LEMMA FlattenIs ==
  ASSUME NEW n \in Nat \ {0}, NEW s, s = [i \in 1 .. n |-> s[i]], NEW h, Len(s) = n,
         h = [i \in 1 .. n |-> IF i = 1 THEN s[i] ELSE h[i - 1] \o s[i]]
  PROVE  FlattenSeq(s) = h[n]
<1> DEFINE d == CHOOSE d : d = [i \in 1 .. n |-> IF i = 1 THEN s[i] ELSE d[i - 1] \o s[i]]
<1>1. FlattenSeq(s) = d[n]
  BY DEF FlattenSeq
<1>2. d = [i \in 1 .. n |-> IF i = 1 THEN s[i] ELSE d[i - 1] \o s[i]]
  OBVIOUS
<1> HIDE DEF d
<1> DEFINE T == {i \in Nat : i + 1 <= n => d[i + 1] = h[i + 1]}
<1>3. 0 \in T
  <2>1. 1 \in 1 .. n /\ 0 + 1 = 1
    OBVIOUS
  <2>2. d[1] = s[1] /\ h[1] = s[1]
    BY SMTT(30), <1>2, <2>1
  <2> QED BY <2>1, <2>2
<1>4. ASSUME NEW i \in Nat, i \in T PROVE i + 1 \in T
  <2> DEFINE k == i + 1 + 1
  <2> SUFFICES ASSUME k <= n PROVE d[k] = h[k]
    OBVIOUS
  <2>1. k \in 1 .. n /\ k # 1 /\ k - 1 = i + 1 /\ i + 1 <= n
    OBVIOUS
  <2>2. d[i + 1] = h[i + 1]
    BY <1>4, <2>1
  <2> HIDE DEF k
  <2>3. d[k] = d[k - 1] \o s[k] /\ h[k] = h[k - 1] \o s[k]
    BY <1>2, <2>1
  <2> QED BY <2>1, <2>2, <2>3
<1>5. n - 1 \in T
  <2>1. n - 1 \in Nat
    OBVIOUS
  <2> HIDE DEF T
  <2> QED BY <1>3, <1>4, <2>1, SetInduction
<1>6. (n - 1) + 1 = n
  OBVIOUS
<1>7. d[(n - 1) + 1] = h[(n - 1) + 1]
  BY <1>5
<1> HIDE DEF T
<1> QED BY <1>1, <1>6, <1>7

(* All pieces of m in their order are m.                                   *)
LEMMA JoinedIs ==
  ASSUME NEW B, NEW m \in Seq(B), NEW c \in Nat \ {0}, NEW a, PartOf(a, m, c),
         DOMAIN a.parts = 0 .. Pieces(m, c) - 1
  PROVE  Joined(a) = m
<1> DEFINE n == Pieces(m, c)
           s == [i \in 1 .. n |-> a.parts[i - 1]]
           h == [i \in 1 .. n |-> SubSeq(m, 1, Upto(m, c, i))]
<1>1. n \in Nat \ {0} /\ Len(m) \in Nat
  BY PiecesType
<1> HIDE DEF n
<1>2. Cardinality(DOMAIN a.parts) = n
  <2>1. DOMAIN a.parts = 0 .. n - 1 /\ 0 \in Int /\ n - 1 \in Int
    BY <1>1 DEF n
  <2>2. Cardinality(0 .. n - 1) = IF 0 > n - 1 THEN 0 ELSE (n - 1) - 0 + 1
    BY <2>1, FS_Interval
  <2> QED BY <1>1, <2>1, <2>2
<1>3. Joined(a) = FlattenSeq(s)
  BY <1>2 DEF Joined
<1>4. ASSUME NEW i \in 1 .. n
      PROVE  /\ i \in Nat /\ s[i] = SubSeq(m, Upto(m, c, i - 1) + 1, Upto(m, c, i))
             /\ Upto(m, c, i - 1) \in 0 .. Len(m) /\ Upto(m, c, i) \in Upto(m, c, i - 1) .. Len(m)
             /\ i = n => Upto(m, c, i) = Len(m)
             /\ i = 1 => Upto(m, c, i - 1) = 0
  <2> DEFINE p == i - 1
  <2>1. p \in Nat /\ p < Pieces(m, c) /\ p + 1 = i /\ p \in 0 .. n - 1
    BY <1>1 DEF n
  <2>2. s[i] = Piece(m, c, p)
    <3>1. p \in DOMAIN a.parts
      BY <2>1 DEF n
    <3> QED BY <3>1 DEF PartOf
  <2> HIDE DEF p, s
  <2>3. /\ p * c \in Nat /\ Upto(m, c, p) = p * c /\ Upto(m, c, p + 1) \in p * c .. Len(m)
        /\ Piece(m, c, p) = SubSeq(m, Upto(m, c, p) + 1, Upto(m, c, p + 1))
        /\ p = Pieces(m, c) - 1 => Upto(m, c, p + 1) = Len(m)
    BY SMTT(30), <2>1, PieceIs
  <2>4. i = n => p = Pieces(m, c) - 1
    BY <1>1, <2>1 DEF n
  <2>5. i = 1 => Upto(m, c, p) = 0
    <3>1. i = 1 => p = 0
      BY <1>1, <2>1
    <3> QED BY <2>3, <3>1
  <2>6. i - 1 = p
    BY DEF p
  <2> DEFINE u == Upto(m, c, p)  v == Upto(m, c, i)
  <2>7. u \in Nat /\ v \in u .. Len(m) /\ Piece(m, c, p) = SubSeq(m, u + 1, v)
    BY <2>1, <2>3
  <2>8. (i = n => v = Len(m)) /\ (i = 1 => u = 0)
    BY <2>1, <2>3, <2>4, <2>5
  <2> HIDE DEF u, v
  <2>9. u \in 0 .. Len(m)
    BY <1>1, <2>7
  <2> QED BY SMTT(30), <2>2, <2>6, <2>7, <2>8, <2>9 DEF u, v
<1>5. Len(s) = n /\ s = [i \in 1 .. n |-> s[i]]
  BY <1>1
<1>6. ASSUME NEW i \in 1 .. n
      PROVE  SubSeq(m, 1, Upto(m, c, i)) = IF i = 1 THEN s[i] ELSE SubSeq(m, 1, Upto(m, c, i - 1)) \o s[i]
  <2> HIDE DEF s, h
  <2> DEFINE u == Upto(m, c, i - 1)  v == Upto(m, c, i)
  <2>1. u \in 0 .. Len(m) /\ v \in u .. Len(m) /\ s[i] = SubSeq(m, u + 1, v) /\ (i = 1 => u = 0)
    BY <1>4
  <2> HIDE DEF u, v
  <2>2. SubSeq(m, 1, u) \o SubSeq(m, u + 1, v) = SubSeq(m, 1, v)
    <3>1. 1 \in 1 .. Len(m) + 1 /\ u \in 1 - 1 .. Len(m) /\ v \in u .. Len(m)
      BY <1>1, <2>1
    <3> QED BY <3>1, ConcatAdjacentSubSeq
  <2>3. i = 1 => SubSeq(m, u + 1, v) = SubSeq(m, 1, v)
    BY <2>1
  <2> QED BY <2>1, <2>2, <2>3 DEF u, v
<1>7. h = [i \in 1 .. n |-> IF i = 1 THEN s[i] ELSE h[i - 1] \o s[i]]
  <2>1. ASSUME NEW i \in 1 .. n PROVE h[i] = IF i = 1 THEN s[i] ELSE h[i - 1] \o s[i]
    <3>1. h[i] = SubSeq(m, 1, Upto(m, c, i))
      OBVIOUS
    <3>2. i # 1 => h[i - 1] = SubSeq(m, 1, Upto(m, c, i - 1))
      <4>1. i # 1 => i - 1 \in 1 .. n
        BY <1>1
      <4> QED BY <4>1
    <3> HIDE DEF h, s
    <3> QED BY <1>6, <3>1, <3>2
  <2>2. h = [i \in 1 .. n |-> h[i]]
    OBVIOUS
  <2> HIDE DEF h, s
  <2> QED BY <2>1, <2>2
<1>8. h[n] = m
  <2>1. n \in 1 .. n
    BY <1>1
  <2>2. Upto(m, c, n) = Len(m)
    BY <1>4, <2>1
  <2>3. h[n] = SubSeq(m, 1, Len(m))
    BY <2>1, <2>2
  <2> QED BY <2>3, SubSeqFull
<1> HIDE DEF s, h
<1> QED BY <1>1, <1>3, <1>5, <1>7, <1>8, FlattenIs

(* The test the code makes, numbers without a gap and as many bytes as the *)
(* message has, is right for pieces of a message.                          *)
LEMMA CompleteIs ==
  ASSUME NEW B, NEW m \in Seq(B), NEW c \in Nat \ {0}, NEW a, PartOf(a, m, c),
         DOMAIN a.parts # {}, a.bytes = Cardinality(BytesOf(a))
  PROVE  Complete(a) <=> DOMAIN a.parts = 0 .. Pieces(m, c) - 1
<1> DEFINE n == Pieces(m, c)
<1>1. n \in Nat \ {0} /\ Len(m) \in Nat
  BY PiecesType
<1>2. ASSUME Complete(a) PROVE DOMAIN a.parts = 0 .. n - 1
  <2>1. CASE Len(m) # 0
    <3>1. Cardinality(BytesOf(a)) = Len(m)
      BY <1>2 DEF Complete, PartOf
    <3> HIDE DEF n
    <3> QED BY <2>1, <3>1, PartBounded DEF n
  <2>2. CASE Len(m) = 0
    <3>1. n = 1
      BY <2>2 DEF Pieces
    <3>2. DOMAIN a.parts \subseteq 0 .. n - 1
      BY DEF PartOf
    <3> HIDE DEF n
    <3>3. 0 .. n - 1 = {0}
      BY <3>1
    <3> QED BY <3>2, <3>3
  <2> QED BY <2>1, <2>2
<1>3. ASSUME DOMAIN a.parts = 0 .. n - 1 PROVE Complete(a)
  <2>1. Cardinality(BytesOf(a)) = Len(m)
    BY <1>3, PartBounded
  <2> HIDE DEF n
  <2>2. Cardinality(0 .. n - 1) = IF 0 > n - 1 THEN 0 ELSE (n - 1) - 0 + 1
    <3>1. 0 \in Int /\ n - 1 \in Int
      BY <1>1
    <3> QED BY <3>1, FS_Interval
  <2>3. Cardinality(DOMAIN a.parts) = n
    BY <1>1, <1>3, <2>2
  <2> QED BY <1>3, <2>1, <2>3 DEF Complete, PartOf
<1> QED BY <1>2, <1>3 DEF n

-----------------------------------------------------------------------------
(* MtpReassembly: sequences of assemblies *)

Assemblies ==
  [key : Sources \X Nat, total : Nat, parts : UNION {[D -> Seq(Bytes)] : D \in SUBSET Nat}, bytes : Nat]

(* The fields of an assembly.                                              *)
LEMMA AssemblyTypes ==
  ASSUME NEW a \in Assemblies
  PROVE  /\ a.bytes \in Nat /\ a.total \in Nat /\ a.key \in Sources \X Nat
         /\ a.parts \in [DOMAIN a.parts -> Seq(Bytes)] /\ DOMAIN a.parts \subseteq Nat
         /\ a = [key |-> a.key, total |-> a.total, parts |-> a.parts, bytes |-> a.bytes]
<1> DEFINE P == UNION {[D -> Seq(Bytes)] : D \in SUBSET Nat}
<1>1. a \in [key : Sources \X Nat, total : Nat, parts : P, bytes : Nat]
  BY DEF Assemblies
<1>2. \A p \in P : p \in [DOMAIN p -> Seq(Bytes)] /\ DOMAIN p \subseteq Nat
  OBVIOUS
<1> HIDE DEF P
<1> QED BY <1>1, <1>2

Sized(a) == IsFiniteSet(BytesOf(a)) /\ a.bytes = Cardinality(BytesOf(a))

Distinct(s) == \A i, j \in DOMAIN s : s[i].key = s[j].key => i = j

Orderly(s) ==
  /\ s \in Seq(Assemblies) /\ Distinct(s) /\ IsFiniteSet(Stock(s))
  /\ \A i \in DOMAIN s : Sized(s[i])

LEMMA StockIs ==
  ASSUME NEW s, NEW x
  PROVE  x \in Stock(s) <=> \E i \in DOMAIN s : x \in BytesOf(s[i])
BY DEF Stock

(* s has the members of t, and a. *)
Plus(s, t, a) ==
  /\ \A i \in DOMAIN s : s[i] = a \/ \E j \in DOMAIN t : s[i] = t[j]
  /\ \A j \in DOMAIN t : \E i \in DOMAIN s : s[i] = t[j]
  /\ \E i \in DOMAIN s : s[i] = a

(* One assembly more has its bytes more.                                   *)
LEMMA StockPlus ==
  ASSUME NEW s, NEW t, NEW a, Plus(s, t, a), \A j \in DOMAIN t : t[j].key # a.key,
         IsFiniteSet(Stock(t)), IsFiniteSet(BytesOf(a))
  PROVE  /\ IsFiniteSet(Stock(s))
         /\ Cardinality(Stock(s)) = Cardinality(Stock(t)) + Cardinality(BytesOf(a))
<1>1. Stock(s) = Stock(t) \cup BytesOf(a)
  <2>1. ASSUME NEW x PROVE x \in Stock(s) <=> x \in Stock(t) \/ x \in BytesOf(a)
    BY StockIs DEF Plus
  <2> QED BY <2>1
<1>2. Stock(t) \cap BytesOf(a) = {}
  <2> SUFFICES ASSUME NEW x \in Stock(t), x \in BytesOf(a) PROVE FALSE
    OBVIOUS
  <2>1. PICK j \in DOMAIN t : x \in BytesOf(t[j])
    BY StockIs
  <2>2. x[1] = t[j].key
    <3>1. PICK p \in DOMAIN t[j].parts : \E q \in 1 .. Len(t[j].parts[p]) : x = <<t[j].key, p, q>>
      BY <2>1, BytesAre
    <3> QED BY <3>1
  <2>3. x[1] = a.key
    <3>1. PICK p \in DOMAIN a.parts : \E q \in 1 .. Len(a.parts[p]) : x = <<a.key, p, q>>
      BY BytesAre
    <3> QED BY <3>1
  <2> QED BY <2>2, <2>3
<1>3. /\ IsFiniteSet(Stock(t) \cup BytesOf(a))
      /\ Cardinality(Stock(t) \cup BytesOf(a)) =
           Cardinality(Stock(t)) + Cardinality(BytesOf(a)) - Cardinality(Stock(t) \cap BytesOf(a))
  BY FS_Union
<1>4. Cardinality({}) = 0 /\ Cardinality(Stock(t)) \in Nat /\ Cardinality(BytesOf(a)) \in Nat
  BY FS_EmptySet, FS_CardinalityType
<1>5. Cardinality(Stock(t) \cap BytesOf(a)) = 0
  BY <1>2, <1>4
<1> DEFINE i == Cardinality(Stock(t) \cap BytesOf(a))
           x == Cardinality(Stock(t))
           y == Cardinality(BytesOf(a))
<1>6. x + y - i = x + y
  <2>1. i = 0 /\ x \in Nat /\ y \in Nat
    BY <1>4, <1>5
  <2> HIDE DEF i, x, y
  <2> QED BY <2>1
<1> QED BY <1>1, <1>3, <1>6

(* Fewer assemblies have no more bytes.                                    *)
LEMMA FewerStock ==
  ASSUME NEW s, NEW t, \A i \in DOMAIN t : \E j \in DOMAIN s : t[i] = s[j], IsFiniteSet(Stock(s))
  PROVE  IsFiniteSet(Stock(t)) /\ Cardinality(Stock(t)) <= Cardinality(Stock(s))
<1>1. Stock(t) \in SUBSET Stock(s)
  BY StockIs
<1> QED BY <1>1, FS_Subset

(* What is left without the first k.                                       *)
LEMMA LaterIs ==
  ASSUME NEW s, Orderly(s), NEW k \in 0 .. Len(s)
  PROVE  /\ Orderly(Later(s, k)) /\ Len(Later(s, k)) = Len(s) - k
         /\ \A i \in 1 .. Len(s) - k : Later(s, k)[i] = s[k + i]
         /\ \A i \in DOMAIN Later(s, k) : k + i \in DOMAIN s /\ Later(s, k)[i] = s[k + i]
         /\ \A j \in DOMAIN s : j > k => \E i \in DOMAIN Later(s, k) : Later(s, k)[i] = s[j]
         /\ Cardinality(Stock(Later(s, k))) <= Cardinality(Stock(s))
<1> DEFINE t == Later(s, k)
           n == Len(s)
<1>1. s \in Seq(Assemblies) /\ n \in Nat /\ DOMAIN s = 1 .. n
  BY DEF Orderly
<1>2. /\ SubSeq(s, k + 1, n) \in Seq(Assemblies)
      /\ Len(SubSeq(s, k + 1, n)) = IF k + 1 <= n THEN n - (k + 1) + 1 ELSE 0
      /\ \A i \in 1 .. n - (k + 1) + 1 : SubSeq(s, k + 1, n)[i] = s[(k + 1) + i - 1]
  <2>1. k + 1 \in Int /\ n \in Int /\ \A i \in k + 1 .. n : s[i] \in Assemblies
    BY <1>1
  <2> HIDE DEF n
  <2> QED BY <2>1, SubSeqProperties
<1>3. t = SubSeq(s, k + 1, n)
  BY DEF Later
<1> HIDE DEF t, n
<1>4. t \in Seq(Assemblies) /\ Len(t) = n - k /\ DOMAIN t = 1 .. n - k
  <2>1. k \in 0 .. n
    BY DEF n
  <2>2. t \in Seq(Assemblies) /\ Len(t) = n - k
    BY <1>1, <1>2, <1>3, <2>1
  <2> QED BY <2>2
<1>5. \A i \in 1 .. n - k : t[i] = s[k + i]
  <2> TAKE i \in 1 .. n - k
  <2>1. i \in 1 .. n - (k + 1) + 1 /\ (k + 1) + i - 1 = k + i
    BY <1>1 DEF n
  <2> QED BY <1>2, <1>3, <2>1
<1>6. \A i \in 1 .. n - k : k + i \in DOMAIN s
  BY <1>1 DEF n
<1>7. \A j \in DOMAIN s : j > k => \E i \in DOMAIN t : t[i] = s[j]
  <2> SUFFICES ASSUME NEW j \in DOMAIN s, j > k PROVE \E i \in DOMAIN t : t[i] = s[j]
    OBVIOUS
  <2>1. j - k \in 1 .. n - k /\ k + (j - k) = j
    BY <1>1 DEF n
  <2> QED BY <1>4, <1>5, <2>1
<1>8. Distinct(t)
  <2> SUFFICES ASSUME NEW i \in DOMAIN t, NEW j \in DOMAIN t, t[i].key = t[j].key PROVE i = j
    BY DEF Distinct
  <2>1. k + i = k + j
    BY <1>4, <1>5, <1>6 DEF Orderly, Distinct
  <2> QED BY <1>4, <2>1
<1>9. IsFiniteSet(Stock(t)) /\ Cardinality(Stock(t)) <= Cardinality(Stock(s))
  <2>1. \A i \in DOMAIN t : \E j \in DOMAIN s : t[i] = s[j]
    BY <1>4, <1>5, <1>6
  <2> QED BY <2>1, FewerStock DEF Orderly
<1>10. \A i \in DOMAIN t : Sized(t[i])
  BY <1>4, <1>5, <1>6 DEF Orderly
<1> QED BY <1>4, <1>5, <1>6, <1>7, <1>8, <1>9, <1>10 DEF Orderly, t, n

(* The assembly of a fragment is found by its key, the others stay.        *)
LEMMA RestIs ==
  ASSUME NEW s, Orderly(s), NEW f
  PROVE  /\ Orderly(Rest(s, f))
         /\ \A i \in DOMAIN Rest(s, f) :
              Rest(s, f)[i].key # KeyOf(f) /\ \E j \in DOMAIN s : Rest(s, f)[i] = s[j]
         /\ \A j \in DOMAIN s : s[j].key # KeyOf(f) => \E i \in DOMAIN Rest(s, f) : Rest(s, f)[i] = s[j]
         /\ Assembly(s, f).key = KeyOf(f)
         /\ \/ Assembly(s, f) = NewAssembly(f) /\ Rest(s, f) = s
               /\ \A j \in DOMAIN s : s[j].key # KeyOf(f)
            \/ /\ \E j \in DOMAIN s : Assembly(s, f) = s[j]
               /\ Plus(s, Rest(s, f), Assembly(s, f))
<1>1. s \in Seq(Assemblies) /\ Len(s) \in Nat /\ DOMAIN s = 1 .. Len(s)
  BY DEF Orderly
<1>2. CASE Mine(s, f) = {}
  <2>1. \A j \in DOMAIN s : s[j].key # KeyOf(f)
    BY <1>2 DEF Mine
  <2>2. Rest(s, f) = s /\ Assembly(s, f) = NewAssembly(f) /\ NewAssembly(f).key = KeyOf(f)
    BY <1>2 DEF Rest, Assembly, NewAssembly
  <2> QED BY <2>1, <2>2
<1>3. CASE Mine(s, f) # {}
  <2> DEFINE k == Place(s, f)
             n == Len(s)
             r == Rest(s, f)
  <2>1. k \in DOMAIN s /\ s[k].key = KeyOf(f)
    BY <1>3 DEF Mine, Place
  <2>2. Assembly(s, f) = s[k]
    BY <1>3 DEF Assembly
  <2> HIDE DEF k
  <2>3. r = SubSeq(s, 1, k - 1) \o SubSeq(s, k + 1, n)
    BY <1>3 DEF Rest, RemoveAt, k
  <2> HIDE DEF r
  <2>4. r \in Seq(Assemblies) /\ Len(r) = n - 1 /\ \A i \in 1 .. n - 1 : r[i] = IF i < k THEN s[i] ELSE s[i + 1]
    <3> DEFINE u == SubSeq(s, 1, k - 1)
               v == SubSeq(s, k + 1, n)
    <3>1. n \in Nat /\ k \in 1 .. n /\ k - 1 \in Int /\ k + 1 \in Int
      BY <1>1, <2>1
    <3>2. u \in Seq(Assemblies) /\ Len(u) = k - 1 /\ \A i \in 1 .. k - 1 : u[i] = s[i]
      <4>1. \A i \in 1 .. k - 1 : s[i] \in Assemblies
        BY <1>1, <3>1
      <4>2. /\ u \in Seq(Assemblies) /\ Len(u) = IF 1 <= k - 1 THEN k - 1 - 1 + 1 ELSE 0
            /\ \A i \in 1 .. k - 1 - 1 + 1 : u[i] = s[1 + i - 1]
        BY <3>1, <4>1, SubSeqProperties
      <4> HIDE DEF u
      <4> QED BY <3>1, <4>2
    <3>3. v \in Seq(Assemblies) /\ Len(v) = n - k /\ \A i \in 1 .. n - k : v[i] = s[k + i]
      <4>1. \A i \in k + 1 .. n : s[i] \in Assemblies
        BY <1>1, <3>1
      <4>2. /\ v \in Seq(Assemblies) /\ Len(v) = IF k + 1 <= n THEN n - (k + 1) + 1 ELSE 0
            /\ \A i \in 1 .. n - (k + 1) + 1 : v[i] = s[(k + 1) + i - 1]
        <5> HIDE DEF n
        <5> QED BY <3>1, <4>1, SubSeqProperties
      <4> HIDE DEF v, n
      <4>3. Len(v) = n - k
        BY <3>1, <4>2
      <4>4. \A i \in 1 .. n - k : v[i] = s[k + i]
        <5> TAKE i \in 1 .. n - k
        <5>1. i \in 1 .. n - (k + 1) + 1 /\ (k + 1) + i - 1 = k + i
          BY <3>1
        <5> QED BY <4>2, <5>1
      <4> QED BY <4>2, <4>3, <4>4
    <3>4. r = u \o v
      BY <2>3
    <3> HIDE DEF u, v, n
    <3>5. /\ r \in Seq(Assemblies) /\ Len(r) = Len(u) + Len(v)
          /\ \A i \in 1 .. Len(u) + Len(v) : r[i] = IF i <= Len(u) THEN u[i] ELSE v[i - Len(u)]
      BY <3>2, <3>3, <3>4, ConcatProperties
    <3> QED BY <3>1, <3>2, <3>3, <3>5
  <2>5. DOMAIN r = 1 .. n - 1
    BY <1>1, <2>1, <2>4
  <2>6. \A i \in DOMAIN r : \E j \in DOMAIN s : r[i] = s[j] /\ j # k /\ j = IF i < k THEN i ELSE i + 1
    BY <1>1, <2>1, <2>4, <2>5
  <2>7. \A j \in DOMAIN s : j # k => \E i \in DOMAIN r : r[i] = s[j]
    <3> SUFFICES ASSUME NEW j \in DOMAIN s, j # k PROVE \E i \in DOMAIN r : r[i] = s[j]
      OBVIOUS
    <3>1. CASE j < k
      BY <1>1, <2>1, <2>4, <2>5, <3>1
    <3>2. CASE j > k
      <4>1. j - 1 \in 1 .. n - 1 /\ ~(j - 1 < k) /\ (j - 1) + 1 = j
        BY <1>1, <2>1, <3>2
      <4> QED BY <2>4, <2>5, <4>1
    <3> QED BY <1>1, <2>1, <3>1, <3>2
  <2>8. \A i \in DOMAIN r : r[i].key # KeyOf(f)
    BY <2>1, <2>6 DEF Orderly, Distinct
  <2>9. \A j \in DOMAIN s : s[j].key # KeyOf(f) => \E i \in DOMAIN r : r[i] = s[j]
    BY <2>1, <2>7
  <2>10. Distinct(r)
    <3> SUFFICES ASSUME NEW i \in DOMAIN r, NEW j \in DOMAIN r, r[i].key = r[j].key PROVE i = j
      BY DEF Distinct
    <3>1. (IF i < k THEN i ELSE i + 1) = (IF j < k THEN j ELSE j + 1)
      BY <2>6 DEF Orderly, Distinct
    <3> QED BY <1>1, <2>1, <2>5, <3>1
  <2>11. IsFiniteSet(Stock(r))
    BY <2>6, FewerStock DEF Orderly
  <2>12. \A i \in DOMAIN r : Sized(r[i])
    BY <2>6 DEF Orderly
  <2>13. Orderly(r)
    BY <2>4, <2>10, <2>11, <2>12 DEF Orderly
  <2>14. Plus(s, r, s[k])
    BY <2>1, <2>6, <2>7 DEF Plus
  <2> QED BY <2>1, <2>2, <2>6, <2>8, <2>9, <2>13, <2>14 DEF r
<1> QED BY <1>2, <1>3

(* An assembly that comes last.                                            *)
LEMMA AppendIs ==
  ASSUME NEW s, Orderly(s), NEW a \in Assemblies, Sized(a), \A i \in DOMAIN s : s[i].key # a.key
  PROVE  /\ Orderly(Append(s, a))
         /\ Cardinality(Stock(Append(s, a))) = Cardinality(Stock(s)) + a.bytes
         /\ \A i \in DOMAIN Append(s, a) : Append(s, a)[i] = a \/ \E j \in DOMAIN s : Append(s, a)[i] = s[j]
         /\ \A j \in DOMAIN s : \E i \in DOMAIN Append(s, a) : Append(s, a)[i] = s[j]
         /\ \E i \in DOMAIN Append(s, a) : Append(s, a)[i] = a
<1> DEFINE t == Append(s, a)
           n == Len(s)
<1>1. s \in Seq(Assemblies) /\ n \in Nat /\ DOMAIN s = 1 .. n
  BY DEF Orderly
<1>2. /\ t \in Seq(Assemblies) /\ DOMAIN t = 1 .. n + 1 /\ t[n + 1] = a
      /\ \A i \in 1 .. n : t[i] = s[i]
  BY <1>1
<1> HIDE DEF t, n
<1>3. Plus(t, s, a)
  <2>1. n + 1 \in DOMAIN t /\ \A i \in 1 .. n : i \in DOMAIN t
    BY <1>1, <1>2
  <2>2. \A i \in DOMAIN t : i = n + 1 \/ i \in 1 .. n
    BY <1>1, <1>2
  <2> QED BY <1>1, <1>2, <2>1, <2>2 DEF Plus
<1>4. Distinct(t)
  <2> SUFFICES ASSUME NEW i \in DOMAIN t, NEW j \in DOMAIN t, t[i].key = t[j].key PROVE i = j
    BY DEF Distinct
  <2>1. (i = n + 1 \/ i \in 1 .. n) /\ (j = n + 1 \/ j \in 1 .. n)
    BY <1>1, <1>2
  <2> QED BY <1>1, <1>2, <2>1 DEF Orderly, Distinct
<1>5. /\ IsFiniteSet(Stock(t))
      /\ Cardinality(Stock(t)) = Cardinality(Stock(s)) + a.bytes
  BY <1>3, StockPlus DEF Orderly, Sized
<1>6. \A i \in DOMAIN t : Sized(t[i])
  BY <1>3 DEF Plus, Orderly
<1> QED BY <1>2, <1>3, <1>4, <1>5, <1>6 DEF Orderly, Plus, t

-----------------------------------------------------------------------------
(* MtpReassembly: the oldest assemblies go *)

LEMMA BytesLeftIs ==
  ASSUME NEW s \in Seq(Assemblies), NEW b \in Int
  PROVE  /\ BytesLeft(s, b)[0] = b
         /\ \A k \in 1 .. Len(s) : BytesLeft(s, b)[k] = BytesLeft(s, b)[k - 1] - s[k].bytes
         /\ \A k \in 0 .. Len(s) : BytesLeft(s, b)[k] \in Int
<1> DEFINE n == Len(s)
           Less(i, v) == v - s[i].bytes
           step == [i \in 1 .. n |-> [v \in Int |-> Less(i, v)]]
           f == BytesLeft(s, b)
<1>1. n \in Nat /\ \A i \in 1 .. n : s[i].bytes \in Nat
  <2>1. \A i \in 1 .. n : s[i] \in Assemblies
    OBVIOUS
  <2> QED BY <2>1, AssemblyTypes
<1>2. step \in [1 .. n -> [Int -> Int]]
  BY <1>1
<1>3. PICK g : Follows(g, n, Int, b, step)
  <2> HIDE DEF step, n
  <2> QED BY <1>1, <1>2, Recursion
<1>4. g = [i \in 0 .. n |-> IF i = 0 THEN b ELSE Less(i, g[i - 1])]
  <2>1. ASSUME NEW i \in 0 .. n, i # 0 PROVE step[i][g[i - 1]] = Less(i, g[i - 1])
    <3>1. i \in 1 .. n /\ i - 1 \in 0 .. n
      BY <1>1, <2>1
    <3>2. g[i - 1] \in Int
      <4> HIDE DEF n, step
      <4> QED BY <1>3, <3>1 DEF Follows
    <3> HIDE DEF Less, n
    <3> QED BY <3>1, <3>2
  <2> HIDE DEF step, Less, n
  <2> QED BY <1>3, <2>1 DEF Follows
<1>5. f = [i \in 0 .. n |-> IF i = 0 THEN b ELSE Less(i, f[i - 1])]
  <2> DEFINE d == CHOOSE d : d = [i \in 0 .. n |-> IF i = 0 THEN b ELSE Less(i, d[i - 1])]
  <2>1. f = d
    BY DEF BytesLeft
  <2>2. d = [i \in 0 .. n |-> IF i = 0 THEN b ELSE Less(i, d[i - 1])]
    <3> HIDE DEF n, Less
    <3> QED BY <1>4
  <2> HIDE DEF d, n, Less, f
  <2> QED BY <2>1, <2>2
<1> HIDE DEF f
<1>6. f[0] = b /\ \A i \in 1 .. n : f[i] = f[i - 1] - s[i].bytes
  <2>1. 0 \in 0 .. n /\ \A i \in 1 .. n : i \in 0 .. n /\ i # 0
    BY <1>1
  <2>2. f[0] = b /\ \A i \in 1 .. n : f[i] = Less(i, f[i - 1])
    <3> HIDE DEF Less, n
    <3> QED BY <1>5, <2>1
  <2> QED BY <2>2
<1> DEFINE T == {i \in Nat : i <= n => f[i] \in Int}
<1>7. 0 \in T
  BY <1>6
<1>8. ASSUME NEW i \in Nat, i \in T PROVE i + 1 \in T
  <2> SUFFICES ASSUME i + 1 <= n PROVE f[i + 1] \in Int
    OBVIOUS
  <2>1. i + 1 \in 1 .. n /\ (i + 1) - 1 = i /\ f[i] \in Int /\ s[i + 1].bytes \in Nat
    BY <1>1, <1>8
  <2> QED BY <1>6, <2>1
<1>9. Nat \subseteq T
  <2> HIDE DEF T
  <2> QED BY <1>7, <1>8, SetInduction
<1>10. \A k \in 0 .. n : f[k] \in Int
  BY <1>1, <1>9
<1> QED BY <1>6, <1>10 DEF f

(* The counter, when the first k are subtracted, counts what is left.      *)
LEMMA LeftCount ==
  ASSUME NEW s, Orderly(s), NEW b \in Int, NEW k \in 0 .. Len(s)
  PROVE  /\ BytesLeft(s, b)[k] = b - Cardinality(Stock(s)) + Cardinality(Stock(Later(s, k)))
         /\ BytesLeft(s, b)[0] = b
<1> DEFINE n == Len(s)
           f == BytesLeft(s, b)
           Has(i) == Cardinality(Stock(Later(s, i)))
           c == Cardinality(Stock(s))
           T == {i \in Nat : i <= n => f[i] = b - c + Has(i)}
<1>1. s \in Seq(Assemblies) /\ n \in Nat /\ DOMAIN s = 1 .. n
  BY DEF Orderly
<1>2. /\ f[0] = b
      /\ \A i \in 1 .. n : f[i] = f[i - 1] - s[i].bytes
      /\ \A i \in 0 .. n : f[i] \in Int
  BY <1>1, BytesLeftIs
<1>3. c \in Nat
  BY FS_CardinalityType DEF Orderly
<1>4. 0 \in T
  <2>1. Later(s, 0) = s
    BY <1>1, SubSeqFull DEF Later
  <2> HIDE DEF f, c
  <2> QED BY <1>2, <1>3, <2>1 DEF c
<1>5. ASSUME NEW i \in Nat, i \in T PROVE i + 1 \in T
  <2> SUFFICES ASSUME i + 1 <= n PROVE f[i + 1] = b - c + Has(i + 1)
    OBVIOUS
  <2>1. f[i] = b - c + Has(i) /\ i + 1 \in 1 .. n /\ i \in 0 .. n /\ (i + 1) - 1 = i
    <3> HIDE DEF f, c, Has
    <3> QED BY <1>1, <1>5
  <2> DEFINE u == Later(s, i)
             v == Later(s, i + 1)
             a == s[i + 1]
  <2>2. /\ Orderly(u) /\ \A l \in DOMAIN u : i + l \in DOMAIN s /\ u[l] = s[i + l]
        /\ \A j \in DOMAIN s : j > i => \E l \in DOMAIN u : u[l] = s[j]
    BY <2>1, LaterIs
  <2>3. /\ Orderly(v) /\ \A l \in DOMAIN v : (i + 1) + l \in DOMAIN s /\ v[l] = s[(i + 1) + l]
        /\ \A j \in DOMAIN s : j > i + 1 => \E l \in DOMAIN v : v[l] = s[j]
    BY <2>1, LaterIs
  <2>4. a = s[i + 1] /\ i + 1 \in DOMAIN s /\ Sized(a) /\ a.bytes \in Nat
    <3>1. i + 1 \in DOMAIN s /\ a = s[i + 1]
      BY <1>1, <2>1
    <3>2. a \in Assemblies
      BY <1>1, <3>1
    <3>3. Sized(a)
      BY <3>1 DEF Orderly
    <3> QED BY <3>1, <3>2, <3>3, AssemblyTypes
  <2> HIDE DEF u, v, a, n, f, c, Has
  <2>5. DOMAIN u \subseteq Nat \ {0} /\ DOMAIN v \subseteq Nat \ {0}
    BY SMTT(30), <2>2, <2>3 DEF Orderly
  <2>6. Plus(u, v, a)
    <3>1. \A l \in DOMAIN u : u[l] = a \/ \E j \in DOMAIN v : u[l] = v[j]
      <4> TAKE l \in DOMAIN u
      <4>1. CASE l = 1
        BY <2>2, <2>4, <4>1
      <4>2. CASE l # 1
        BY <2>2, <2>3, <2>5, <4>2
      <4> QED BY <4>1, <4>2
    <3>2. \A j \in DOMAIN v : \E l \in DOMAIN u : u[l] = v[j]
      <4> TAKE j \in DOMAIN v
      <4>1. (i + 1) + j > i /\ (i + 1) + j \in DOMAIN s /\ v[j] = s[(i + 1) + j]
        BY <2>3, <2>5
      <4> QED BY <2>2, <4>1
    <3>3. \E l \in DOMAIN u : u[l] = a
      BY <2>2, <2>4
    <3> QED BY <3>1, <3>2, <3>3 DEF Plus
  <2>7. \A j \in DOMAIN v : v[j].key # a.key
    <3> TAKE j \in DOMAIN v
    <3>1. (i + 1) + j # i + 1 /\ (i + 1) + j \in DOMAIN s /\ v[j] = s[(i + 1) + j]
      BY <2>3, <2>5
    <3> QED BY <2>4, <3>1 DEF Orderly, Distinct
  <2>8. Cardinality(Stock(u)) = Cardinality(Stock(v)) + a.bytes
    <3>1. IsFiniteSet(Stock(v)) /\ IsFiniteSet(BytesOf(a)) /\ a.bytes = Cardinality(BytesOf(a))
      BY <2>3, <2>4 DEF Orderly, Sized
    <3>2. Cardinality(Stock(u)) = Cardinality(Stock(v)) + Cardinality(BytesOf(a))
      BY <2>6, <2>7, <3>1, StockPlus
    <3> QED BY <3>1, <3>2
  <2>9. Has(i) = Has(i + 1) + a.bytes /\ Has(i + 1) \in Nat
    BY <2>3, <2>8, FS_CardinalityType DEF Has, u, v, Orderly
  <2>10. f[i + 1] = f[i] - a.bytes
    BY <1>2, <2>1 DEF a
  <2> QED BY <1>3, <2>1, <2>4, <2>9, <2>10
<1>6. k \in T
  <2> HIDE DEF T
  <2>1. k \in Nat
    BY <1>1
  <2> QED BY <1>4, <1>5, <2>1, SetInduction
<1> QED BY <1>2, <1>6

(* As many go as it takes, and none while there is room.                   *)
LEMMA EvictedIs ==
  ASSUME MaxBytes \in Nat, NEW s \in Seq(Assemblies), NEW b \in Int
  PROVE  /\ Evicted(s, b) \in 0 .. Len(s)
         /\ BytesLeft(s, b)[Evicted(s, b)] <= MaxBytes \/ Evicted(s, b) = Len(s)
         /\ b <= MaxBytes => Evicted(s, b) = 0
<1> DEFINE f == BytesLeft(s, b)
           n == Len(s)
           Ok(k) == f[k] <= MaxBytes \/ k = n
           k == Evicted(s, b)
<1>1. n \in Nat
  OBVIOUS
<1>2. f[0] = b /\ \A i \in 0 .. n : f[i] \in Int
  BY BytesLeftIs
<1> HIDE DEF f, n
<1>3. \E i \in 0 .. n : Ok(i) /\ \A j \in 0 .. i - 1 : f[j] > MaxBytes
  <2> DEFINE T == {i \in 0 .. n : Ok(i)}
  <2>1. n \in T /\ T \subseteq Nat
    BY <1>1
  <2>2. PICK i \in T : \A j \in T : i <= j
    <3> HIDE DEF T
    <3> QED BY <2>1, LeastNat
  <2>3. \A j \in 0 .. i - 1 : f[j] > MaxBytes
    <3> TAKE j \in 0 .. i - 1
    <3>1. j \in 0 .. n /\ ~(i <= j)
      BY <1>1
    <3>2. j \notin T
      BY <2>2, <3>1
    <3> QED BY <1>2, <3>1, <3>2
  <2> QED BY <2>3
<1>4. k \in 0 .. n /\ Ok(k) /\ \A j \in 0 .. k - 1 : f[j] > MaxBytes
  <2>1. k = CHOOSE i \in 0 .. n : Ok(i) /\ \A j \in 0 .. i - 1 : f[j] > MaxBytes
    BY DEF Evicted, f, n
  <2> HIDE DEF k
  <2> QED BY <1>3, <2>1
<1> HIDE DEF k
<1>5. b <= MaxBytes => k = 0
  <2> SUFFICES ASSUME b <= MaxBytes, k # 0 PROVE FALSE
    OBVIOUS
  <2>1. 0 \in 0 .. k - 1
    BY <1>1, <1>4
  <2>2. f[0] > MaxBytes
    BY <1>4, <2>1
  <2> QED BY <1>2, <2>2
<1> QED BY <1>4, <1>5 DEF k, f, n

-----------------------------------------------------------------------------
(* MtpReassembly: the invariant *)

Frags == [from : Sources, n : Nat, id : Nat, total : Nat, payload : Seq(Bytes)]

(* An assembly that waits for more. *)
Unfinished(a) == DOMAIN a.parts # {} /\ a.bytes <= a.total /\ a.total <= MaxBytes /\ ~Complete(a)

Books ==
  /\ written \in [Sources -> Seq(Payloads)]
  /\ net \subseteq Frags /\ \A f \in net : f.n \in DOMAIN written[f.from]
  /\ Orderly(asms) /\ \A i \in DOMAIN asms : Unfinished(asms[i])
  /\ Budget
  /\ \A g \in received : g.from \in Sources /\ g.n \in DOMAIN written[g.from]

(* Message n is the last of w so far with its sequence number. *)
Newest(w, n) == \A m \in n + 1 .. Len(written[w]) : SequenceOf(m) # SequenceOf(n)

(* Message n of w is cut at every cut[w][n] bytes. *)
Cuts == [Sources -> [Nat -> Nat \ {0}]]

Genuine(f, cut) ==
  /\ Newest(f.from, f.n) /\ f.total = Len(written[f.from][f.n])
  /\ f.id < Pieces(written[f.from][f.n], cut[f.from][f.n])
  /\ f.payload = Piece(written[f.from][f.n], cut[f.from][f.n], f.id)

CutFrom(a, w, n, cut) ==
  a.key = <<w, SequenceOf(n)>> /\ Newest(w, n) /\ PartOf(a, written[w][n], cut[w][n])

Somewhere(w, n, p) ==
  \/ \E f \in net : f.from = w /\ f.n = n /\ f.id = p
  \/ \E i \in DOMAIN asms : asms[i].key = <<w, SequenceOf(n)>> /\ p \in DOMAIN asms[i].parts

(* Where message n of w is, if it is not lost. *)
Accounted(w, n, cut) ==
  \/ <<w, n>> \in spoiled
  \/ Len(written[w][n]) > MaxBytes
  \/ [from |-> w, n |-> n, data |-> written[w][n]] \in received
  \/ Newest(w, n) /\ \A p \in 0 .. Pieces(written[w][n], cut[w][n]) - 1 : Somewhere(w, n, p)

Faithful(cut) ==
  /\ \A f \in net : Genuine(f, cut)
  /\ \A i \in DOMAIN asms : \E w \in Sources : \E n \in DOMAIN written[w] : CutFrom(asms[i], w, n, cut)
  /\ \A w \in Sources : \A n \in DOMAIN written[w] : Accounted(w, n, cut)
  /\ \A g \in received : g.data = written[g.from][g.n]

MtpInv == Books /\ (~reused => \E cut \in Cuts : Faithful(cut))

LEMMA SequenceType ==
  ASSUME MtpAssumptions, NEW n \in Nat, n # 0
  PROVE  SequenceOf(n) \in Nat
BY DEF MtpAssumptions, SequenceOf

(* The newest message with a sequence number is the last that used it.     *)
LEMMA LastUseIs ==
  ASSUME NEW w \in Sources, NEW n \in Nat, written \in [Sources -> Seq(Payloads)],
         n \in DOMAIN written[w], Newest(w, n)
  PROVE  LastUse(<<w, SequenceOf(n)>>) = <<w, n>>
<1> DEFINE k == <<w, SequenceOf(n)>>
           uses == {m \in DOMAIN written[w] : SequenceOf(m) = SequenceOf(n)}
<1>1. DOMAIN written[w] = 1 .. Len(written[w]) /\ Len(written[w]) \in Nat
  OBVIOUS
<1>2. n \in uses /\ \A m \in uses : m <= n
  <2>1. ASSUME NEW m \in uses PROVE m <= n
    <3> SUFFICES ASSUME ~(m <= n) PROVE FALSE
      OBVIOUS
    <3>1. m \in n + 1 .. Len(written[w])
      BY <1>1
    <3> QED BY <3>1 DEF Newest
  <2> QED BY <2>1
<1>3. (CHOOSE m \in uses : \A l \in uses : l <= m) = n
  <2>1. uses \subseteq Nat
    BY <1>1
  <2> HIDE DEF uses
  <2>2. \A m \in uses : (\A l \in uses : l <= m) => m = n
    <3> SUFFICES ASSUME NEW m \in uses, \A l \in uses : l <= m PROVE m = n
      OBVIOUS
    <3>1. m \in Nat /\ m <= n /\ n <= m
      BY <1>2, <2>1
    <3> QED BY <3>1
  <2>3. \E m \in uses : \A l \in uses : l <= m
    BY <1>2
  <2> DEFINE Greatest(m) == \A l \in uses : l <= m
  <2>4. (CHOOSE m \in uses : Greatest(m)) \in uses /\ Greatest(CHOOSE m \in uses : Greatest(m))
    <3> HIDE DEF Greatest
    <3>1. \E m \in uses : Greatest(m)
      BY <2>3 DEF Greatest
    <3> QED BY <3>1
  <2>5. \A m \in uses : Greatest(m) => m = n
    BY <2>2
  <2> HIDE DEF Greatest
  <2>6. (CHOOSE m \in uses : Greatest(m)) = n
    BY <2>4, <2>5
  <2> QED BY <2>6 DEF Greatest
<1>4. LastUse(k) = <<w, CHOOSE m \in uses : \A l \in uses : l <= m>>
  BY DEF LastUse
<1> QED BY <1>3, <1>4

(* It is the only one.                                                     *)
LEMMA NewestOne ==
  ASSUME NEW w \in Sources, written \in [Sources -> Seq(Payloads)],
         NEW m \in DOMAIN written[w], NEW n \in DOMAIN written[w], Newest(w, m), Newest(w, n),
         SequenceOf(m) = SequenceOf(n)
  PROVE  m = n
<1>1. DOMAIN written[w] = 1 .. Len(written[w]) /\ Len(written[w]) \in Nat
  OBVIOUS
<1>2. m < n => n \in m + 1 .. Len(written[w])
  BY <1>1
<1>3. n < m => m \in n + 1 .. Len(written[w])
  BY SMTT(30), <1>1
<1> QED BY <1>1, <1>2, <1>3 DEF Newest

-----------------------------------------------------------------------------
(* MtpReassembly: accept_fragment, step by step *)

Live(k) == Later(asms, k)
Old(f, k) == Assembly(Live(k), f)
Beside(f, k) == Rest(Live(k), f)
New(f, k) == Filled(Old(f, k), f)
Good(f, k) == f.total <= MaxBytes /\ ~Conflict(Old(f, k), f)
Need(f, k) == BytesLeft(asms, asmBytes)[k] + New(f, k).bytes - Old(f, k).bytes
Out(f, k) == IF Good(f, k) /\ f.id \notin DOMAIN Old(f, k).parts THEN Evicted(Beside(f, k), Need(f, k)) ELSE 0
Stays(f, k) == Later(Beside(f, k), Out(f, k))

TooLarge(f, k) == f.total > MaxBytes /\ asms' = Live(k) /\ asmBytes' = BytesLeft(asms, asmBytes)[k] /\ UNCHANGED received
Bad(f, k) ==
  /\ f.total <= MaxBytes /\ ~Good(f, k)
  /\ asms' = Beside(f, k) /\ asmBytes' = BytesLeft(asms, asmBytes)[k] - Old(f, k).bytes /\ UNCHANGED received
Added(f, k) ==
  /\ Good(f, k) /\ ~Complete(New(f, k))
  /\ asms' = Append(Stays(f, k), New(f, k)) /\ asmBytes' = BytesLeft(Beside(f, k), Need(f, k))[Out(f, k)]
  /\ UNCHANGED received
Finished(f, k) ==
  /\ Good(f, k) /\ Complete(New(f, k))
  /\ asms' = Stays(f, k)
  /\ asmBytes' = BytesLeft(Beside(f, k), Need(f, k))[Out(f, k)] - New(f, k).bytes
  /\ received' = received \cup {[from |-> f.from, n |-> f.n, data |-> Joined(New(f, k))]}

(* The four ways accept_fragment ends.                                     *)
LEMMA AcceptDoes ==
  ASSUME NEW f, NEW k, NEW again, Accept(f, k, again)
  PROVE  /\ net' = IF again THEN net ELSE net \ {f}
         /\ spoiled' = spoiled \cup {LastUse(asms[i].key) : i \in 1 .. k}
              \cup IF Cardinality(Stock(Live(k))) + New(f, k).bytes - Old(f, k).bytes > MaxBytes
                   THEN {LastUse(Beside(f, k)[i].key) : i \in 1 .. Out(f, k)}
                   ELSE {}
         /\ TooLarge(f, k) \/ Bad(f, k) \/ Added(f, k) \/ Finished(f, k)
         /\ written' = written /\ reused' = reused
BY DEF Accept, TooLarge, Bad, Added, Finished, Live, Old, Beside, New, Good, Need, Out, Stays

LEMMA NewBytes ==
  ASSUME NEW k, NEW p, NEW l \in Nat
  PROVE  IsFiniteSet({k} \X {p} \X (1 .. l)) /\ Cardinality({k} \X {p} \X (1 .. l)) = l
<1> DEFINE S == 1 .. l
           T == {k} \X {p} \X (1 .. l)
           f == [j \in S |-> <<k, p, j>>]
<1>1. IsFiniteSet(S) /\ Cardinality(S) = l
  <2>1. 1 \in Int /\ l \in Int
    OBVIOUS
  <2>2. IsFiniteSet(1 .. l) /\ Cardinality(1 .. l) = IF 1 > l THEN 0 ELSE l - 1 + 1
    BY <2>1, FS_Interval
  <2> QED BY <2>2
<1>2. f \in Bijection(S, T)
  <2>1. f \in [S -> T]
    OBVIOUS
  <2>2. \A x, y \in S : f[x] = f[y] => x = y
    OBVIOUS
  <2>3. \A t \in T : \E x \in S : f[x] = t
    OBVIOUS
  <2> HIDE DEF f, S, T
  <2> QED BY <2>1, <2>2, <2>3 DEF Bijection, Injection, Surjection, IsInjective
<1>3. ExistsBijection(S, T)
  BY <1>2 DEF ExistsBijection
<1> HIDE DEF S, T
<1>4. IsFiniteSet(T) /\ Cardinality(T) = Cardinality(S)
  BY <1>1, <1>3, FS_Bijection
<1> QED BY <1>1, <1>4 DEF T

(* An assembly with a fragment more: its counter still counts its bytes.   *)
LEMMA FilledIs ==
  ASSUME NEW a \in Assemblies, NEW f \in Frags, Sized(a)
  PROVE  /\ Filled(a, f) \in Assemblies /\ Sized(Filled(a, f))
         /\ Filled(a, f).key = a.key /\ Filled(a, f).total = a.total
         /\ DOMAIN Filled(a, f).parts = DOMAIN a.parts \cup {f.id}
         /\ \A p \in DOMAIN a.parts : Filled(a, f).parts[p] = a.parts[p]
         /\ f.id \in DOMAIN a.parts => Filled(a, f) = a
         /\ f.id \notin DOMAIN a.parts =>
              Filled(a, f).parts[f.id] = f.payload /\ Filled(a, f).bytes = a.bytes + Len(f.payload)
<1>1. /\ a.bytes \in Nat /\ a.total \in Nat /\ a.key \in Sources \X Nat
      /\ a.parts \in [DOMAIN a.parts -> Seq(Bytes)] /\ DOMAIN a.parts \subseteq Nat
      /\ a = [key |-> a.key, total |-> a.total, parts |-> a.parts, bytes |-> a.bytes]
  BY AssemblyTypes
<1>2. f.id \in Nat /\ f.payload \in Seq(Bytes) /\ Len(f.payload) \in Nat
  BY DEF Frags
<1>3. CASE f.id \in DOMAIN a.parts
  <2>1. Filled(a, f) = a
    BY <1>3 DEF Filled
  <2> QED BY <1>3, <2>1
<1>4. CASE f.id \notin DOMAIN a.parts
  <2> DEFINE D == DOMAIN a.parts \cup {f.id}
             g == [i \in D |-> IF i = f.id THEN f.payload ELSE a.parts[i]]
             b == a.bytes + Len(f.payload)
             c == Filled(a, f)
  <2>1. c = [key |-> a.key, total |-> a.total, parts |-> g, bytes |-> b]
    BY <1>1, <1>4 DEF Filled
  <2>2. D \in SUBSET Nat /\ g \in [D -> Seq(Bytes)] /\ b \in Nat
    BY <1>1, <1>2
  <2>3. DOMAIN g = DOMAIN a.parts \cup {f.id} /\ g[f.id] = f.payload /\ \A p \in DOMAIN a.parts : g[p] = a.parts[p]
    BY <1>4
  <2> HIDE DEF D, g, c
  <2>4. c.key = a.key /\ c.total = a.total /\ c.parts = g /\ c.bytes = a.bytes + Len(f.payload)
    BY <2>1
  <2>5. c \in Assemblies
    <3> DEFINE P == UNION {[X -> Seq(Bytes)] : X \in SUBSET Nat}
    <3>1. g \in P
      BY <2>2
    <3> HIDE DEF P, b
    <3>2. c \in [key : Sources \X Nat, total : Nat, parts : P, bytes : Nat]
      BY <1>1, <2>1, <2>2, <3>1
    <3> QED BY <3>2 DEF P, Assemblies
  <2>6. Sized(c)
    <3> DEFINE S == BytesOf(a)
               T == {a.key} \X {f.id} \X (1 .. Len(f.payload))
               U == BytesOf(c)
    <3>1. IsFiniteSet(T) /\ Cardinality(T) = Len(f.payload)
      BY <1>2, NewBytes
    <3>2. ASSUME NEW x PROVE x \in U <=> x \in S \/ x \in T
      <4>1. x \in U <=> \E p \in DOMAIN c.parts : \E j \in 1 .. Len(c.parts[p]) : x = <<c.key, p, j>>
        BY BytesAre
      <4>2. x \in S <=> \E p \in DOMAIN a.parts : \E j \in 1 .. Len(a.parts[p]) : x = <<a.key, p, j>>
        BY BytesAre
      <4>3. x \in T <=> \E j \in 1 .. Len(f.payload) : x = <<a.key, f.id, j>>
        OBVIOUS
      <4> HIDE DEF S, T, U
      <4> QED BY <2>3, <2>4, <4>1, <4>2, <4>3
    <3>3. \A x \in S : x \notin T
      <4> SUFFICES ASSUME NEW x \in S, x \in T PROVE FALSE
        OBVIOUS
      <4>1. PICK p \in DOMAIN a.parts : \E j \in 1 .. Len(a.parts[p]) : x = <<a.key, p, j>>
        BY BytesAre
      <4>2. x[2] = p /\ x[2] = f.id
        BY <4>1
      <4> QED BY <1>4, <4>2
    <3>4. IsFiniteSet(S) /\ a.bytes = Cardinality(S)
      BY DEF Sized
    <3> HIDE DEF S, T, U
    <3>5. U = S \cup T /\ S \cap T = {}
      BY <3>2, <3>3
    <3>6. IsFiniteSet(S \cup T) /\ Cardinality(S \cup T) = Cardinality(S) + Cardinality(T) - Cardinality(S \cap T)
      BY <3>1, <3>4, FS_Union
    <3>7. IsFiniteSet(U) /\ Cardinality(U) = Cardinality(S) + Cardinality(T) - 0
      BY <3>5, <3>6, FS_EmptySet
    <3>8. Cardinality(U) = c.bytes
      BY <1>1, <1>2, <2>4, <3>1, <3>4, <3>7
    <3> QED BY <3>7, <3>8 DEF U, Sized
  <2> QED BY <1>4, <2>3, <2>4, <2>5, <2>6 DEF c
<1> QED BY <1>3, <1>4

LEMMA NewAssemblyIs ==
  ASSUME MtpAssumptions, NEW f \in Frags, f.n # 0
  PROVE  /\ NewAssembly(f) \in Assemblies /\ Sized(NewAssembly(f))
         /\ NewAssembly(f).key = KeyOf(f) /\ NewAssembly(f).total = f.total
         /\ DOMAIN NewAssembly(f).parts = {} /\ NewAssembly(f).bytes = 0
<1> DEFINE a == NewAssembly(f)
<1>1. a = [key |-> KeyOf(f), total |-> f.total, parts |-> <<>>, bytes |-> 0]
  BY DEF NewAssembly
<1>2. KeyOf(f) \in Sources \X Nat /\ f.total \in Nat
  BY SequenceType DEF Frags, KeyOf
<1>3. <<>> \in UNION {[D -> Seq(Bytes)] : D \in SUBSET Nat} /\ DOMAIN <<>> = {}
  <2>1. <<>> \in [{} -> Seq(Bytes)] /\ {} \in SUBSET Nat /\ DOMAIN <<>> = {}
    BY EmptySeq
  <2> QED BY <2>1
<1> HIDE DEF a
<1>4. a.key = KeyOf(f) /\ a.total = f.total /\ a.parts = <<>> /\ a.bytes = 0
  BY <1>1
<1>5. a \in Assemblies
  <2> DEFINE P == UNION {[X -> Seq(Bytes)] : X \in SUBSET Nat}
  <2>1. <<>> \in P
    BY <1>3
  <2> HIDE DEF P
  <2>2. a \in [key : Sources \X Nat, total : Nat, parts : P, bytes : Nat]
    BY <1>1, <1>2, <2>1
  <2> QED BY <2>2 DEF P, Assemblies
<1>6. BytesOf(a) = {}
  BY <1>3, <1>4, BytesAre
<1>7. Sized(a)
  BY <1>4, <1>6, FS_EmptySet DEF Sized
<1> QED BY <1>3, <1>4, <1>5, <1>7 DEF a

(* What the assembly of f in s is. *)
LEMMA AssemblyIs ==
  ASSUME MtpAssumptions, NEW s, Orderly(s), NEW f \in Frags, f.n # 0
  PROVE  /\ Orderly(Rest(s, f)) /\ Assembly(s, f) \in Assemblies /\ Sized(Assembly(s, f))
         /\ Assembly(s, f).key = KeyOf(f)
         /\ \A i \in DOMAIN Rest(s, f) : Rest(s, f)[i].key # KeyOf(f)
         /\ Cardinality(Stock(s)) = Cardinality(Stock(Rest(s, f))) + Assembly(s, f).bytes
<1> DEFINE a == Assembly(s, f)
           r == Rest(s, f)
<1>1. /\ Orderly(r) /\ a.key = KeyOf(f)
      /\ \A i \in DOMAIN r : r[i].key # KeyOf(f)
      /\ \/ a = NewAssembly(f) /\ r = s
         \/ (\E j \in DOMAIN s : a = s[j]) /\ Plus(s, r, a)
  BY RestIs
<1>2. \A j \in DOMAIN s : s[j] \in Assemblies /\ Sized(s[j])
  BY DEF Orderly
<1> HIDE DEF a, r
<1>3. CASE a = NewAssembly(f) /\ r = s
  <2>1. a \in Assemblies /\ Sized(a) /\ a.bytes = 0
    BY <1>3, NewAssemblyIs
  <2>2. Cardinality(Stock(s)) \in Nat
    BY FS_CardinalityType DEF Orderly
  <2>3. Cardinality(Stock(s)) = Cardinality(Stock(r)) + a.bytes
    BY <1>3, <2>1, <2>2
  <2> QED BY <1>1, <2>1, <2>3 DEF a, r
<1>4. CASE (\E j \in DOMAIN s : a = s[j]) /\ Plus(s, r, a)
  <2>1. a \in Assemblies /\ Sized(a)
    BY <1>2, <1>4
  <2>2. IsFiniteSet(Stock(r)) /\ IsFiniteSet(BytesOf(a)) /\ a.bytes = Cardinality(BytesOf(a))
    BY <1>1, <2>1 DEF Orderly, Sized
  <2>3. \A i \in DOMAIN r : r[i].key # a.key
    BY <1>1
  <2>4. Cardinality(Stock(s)) = Cardinality(Stock(r)) + Cardinality(BytesOf(a))
    BY <1>4, <2>2, <2>3, StockPlus
  <2> QED BY <1>1, <2>1, <2>2, <2>4 DEF a, r
<1> QED BY <1>1, <1>3, <1>4

(* The state when fragment f comes and k assemblies have got too old. *)
Due(f, k) == Books /\ f \in net /\ k \in 0 .. Len(asms)

(* The counter at each step of accept_fragment.                            *)
LEMMA AcceptCounts ==
  ASSUME MtpAssumptions, NEW f, NEW k, Due(f, k)
  PROVE  /\ f \in Frags /\ f.n # 0
         /\ Orderly(Live(k)) /\ Orderly(Beside(f, k)) /\ Orderly(Stays(f, k))
         /\ Old(f, k) \in Assemblies /\ Sized(Old(f, k)) /\ Old(f, k).key = KeyOf(f)
         /\ New(f, k) \in Assemblies /\ Sized(New(f, k)) /\ New(f, k).key = KeyOf(f)
         /\ Out(f, k) \in 0 .. Len(Beside(f, k))
         /\ \A i \in DOMAIN Beside(f, k) : Beside(f, k)[i].key # KeyOf(f)
         /\ BytesLeft(asms, asmBytes)[k] = Cardinality(Stock(Live(k)))
         /\ Cardinality(Stock(Live(k))) \in Nat /\ Cardinality(Stock(Live(k))) <= MaxBytes
         /\ Cardinality(Stock(Live(k))) = Cardinality(Stock(Beside(f, k))) + Old(f, k).bytes
         /\ Need(f, k) = Cardinality(Stock(Beside(f, k))) + New(f, k).bytes
         /\ BytesLeft(Beside(f, k), Need(f, k))[Out(f, k)] = Cardinality(Stock(Stays(f, k))) + New(f, k).bytes
<1>1. f \in Frags /\ f.n # 0
  <2>1. f \in Frags /\ f.n \in DOMAIN written[f.from] /\ f.from \in Sources /\ written \in [Sources -> Seq(Payloads)]
    BY DEF Due, Books, Frags
  <2> QED BY <2>1
<1>2. Orderly(asms) /\ k \in 0 .. Len(asms) /\ asmBytes = Cardinality(Stock(asms)) /\ asmBytes <= MaxBytes
  BY DEF Due, Books, Budget
<1>3. asmBytes \in Nat
  BY <1>2, FS_CardinalityType DEF Orderly
<1> DEFINE v == Live(k)
           a == Old(f, k)
           r == Beside(f, k)
           b == New(f, k)
           c == BytesLeft(asms, asmBytes)[k]
<1>4. Orderly(v) /\ Cardinality(Stock(v)) <= Cardinality(Stock(asms))
  BY <1>2, LaterIs DEF Live
<1>5. c = Cardinality(Stock(v))
  <2>1. asmBytes \in Int
    BY <1>3
  <2>2. c = asmBytes - Cardinality(Stock(asms)) + Cardinality(Stock(v))
    BY <1>2, <2>1, LeftCount DEF Live
  <2>3. Cardinality(Stock(v)) \in Nat
    BY <1>4, FS_CardinalityType DEF Orderly
  <2> HIDE DEF c, v
  <2> QED BY <1>2, <1>3, <2>2, <2>3
<1>6. Cardinality(Stock(v)) \in Nat /\ Cardinality(Stock(v)) <= MaxBytes
  <2>1. Cardinality(Stock(v)) \in Nat
    BY <1>4, FS_CardinalityType DEF Orderly
  <2>2. MaxBytes \in Nat
    BY DEF MtpAssumptions
  <2> HIDE DEF v
  <2> QED BY <1>2, <1>3, <1>4, <2>1, <2>2
<1>7. /\ Orderly(r) /\ a \in Assemblies /\ Sized(a) /\ a.key = KeyOf(f)
      /\ \A i \in DOMAIN r : r[i].key # KeyOf(f)
      /\ Cardinality(Stock(v)) = Cardinality(Stock(r)) + a.bytes
  BY <1>1, <1>4, AssemblyIs DEF Beside, Old
<1>8. b \in Assemblies /\ Sized(b) /\ b.key = KeyOf(f)
  BY <1>1, <1>7, FilledIs DEF New
<1>9. Cardinality(Stock(r)) \in Nat /\ a.bytes \in Nat /\ b.bytes \in Nat
  BY <1>7, <1>8, AssemblyTypes, FS_CardinalityType DEF Orderly
<1> DEFINE n == Need(f, k)
           o == Out(f, k)
<1>10. n = Cardinality(Stock(r)) + b.bytes
  <2>1. n = c + b.bytes - a.bytes
    BY DEF Need
  <2> HIDE DEF n, c, b, a, r, v
  <2> QED BY <1>5, <1>7, <1>9, <2>1
<1>11. o \in 0 .. Len(r)
  <2>1. MaxBytes \in Nat /\ r \in Seq(Assemblies) /\ n \in Int
    BY <1>7, <1>9, <1>10 DEF MtpAssumptions, Orderly
  <2>2. Evicted(r, n) \in 0 .. Len(r)
    <3> HIDE DEF r, n
    <3> QED BY <2>1, EvictedIs
  <2>3. 0 \in 0 .. Len(r)
    <3> HIDE DEF r
    <3> QED BY <2>1
  <2> QED BY <2>2, <2>3 DEF Out
<1>12. Orderly(Stays(f, k)) /\ BytesLeft(r, n)[o] = Cardinality(Stock(Stays(f, k))) + b.bytes
  <2> DEFINE t == Later(r, o)
  <2>1. Orderly(t)
    <3> HIDE DEF r, o
    <3> QED BY <1>7, <1>11, LaterIs
  <2>2. BytesLeft(r, n)[o] = n - Cardinality(Stock(r)) + Cardinality(Stock(t))
    <3>1. n \in Int
      BY <1>9, <1>10
    <3> HIDE DEF r, o, n
    <3> QED BY <1>7, <1>11, <3>1, LeftCount
  <2>3. Cardinality(Stock(t)) \in Nat
    BY <2>1, FS_CardinalityType DEF Orderly
  <2>4. t = Stays(f, k)
    BY DEF Stays
  <2> HIDE DEF r, o, n, t, b, a
  <2> QED BY <1>9, <1>10, <2>1, <2>2, <2>3, <2>4
<1> QED BY <1>1, <1>4, <1>5, <1>6, <1>7, <1>8, <1>10, <1>11, <1>12

(* The assembly of f is new, or one that was there.                        *)
LEMMA OldIs ==
  ASSUME MtpAssumptions, NEW f, NEW k, Due(f, k)
  PROVE  \/ Old(f, k) = NewAssembly(f) /\ \A j \in DOMAIN Live(k) : Live(k)[j].key # KeyOf(f)
         \/ \E j \in DOMAIN asms : Old(f, k) = asms[j]
<1>1. Orderly(asms) /\ k \in 0 .. Len(asms)
  BY DEF Due, Books
<1>2. Orderly(Live(k)) /\ \A i \in DOMAIN Live(k) : k + i \in DOMAIN asms /\ Live(k)[i] = asms[k + i]
  BY <1>1, LaterIs DEF Live
<1>3. \/ Old(f, k) = NewAssembly(f) /\ \A j \in DOMAIN Live(k) : Live(k)[j].key # KeyOf(f)
      \/ \E j \in DOMAIN Live(k) : Old(f, k) = Live(k)[j]
  BY <1>2, RestIs DEF Old
<1> QED BY <1>2, <1>3

(* A fragment that does not contradict leaves no more bytes than the total. *)
LEMMA GoodIs ==
  ASSUME MtpAssumptions, NEW f, NEW k, Due(f, k), Good(f, k)
  PROVE  /\ Old(f, k).total = f.total /\ New(f, k).total = f.total /\ f.total <= MaxBytes
         /\ New(f, k).bytes <= New(f, k).total /\ DOMAIN New(f, k).parts # {}
<1> DEFINE a == Old(f, k)
           b == New(f, k)
<1>1. /\ f \in Frags /\ a \in Assemblies /\ Sized(a) /\ b \in Assemblies
      /\ f.n # 0
  BY AcceptCounts
<1>2. ~Conflict(a, f) /\ f.total <= MaxBytes
  BY DEF Good
<1>3. /\ b.key = a.key /\ b.total = a.total
      /\ DOMAIN b.parts = DOMAIN a.parts \cup {f.id}
      /\ f.id \in DOMAIN a.parts => b = a
      /\ f.id \notin DOMAIN a.parts => b.bytes = a.bytes + Len(f.payload)
  BY <1>1, FilledIs DEF New
<1>4. a.bytes <= a.total
  <2>1. a = NewAssembly(f) \/ \E j \in DOMAIN asms : a = asms[j]
    BY OldIs
  <2>2. \A j \in DOMAIN asms : asms[j].bytes <= asms[j].total
    BY DEF Due, Books, Unfinished
  <2>3. a = NewAssembly(f) => a.bytes = 0 /\ a.total \in Nat
    BY <1>1, NewAssemblyIs, AssemblyTypes
  <2> HIDE DEF a
  <2> QED BY <2>1, <2>2, <2>3
<1> HIDE DEF a, b
<1>5. a.total = f.total
  BY <1>2 DEF Conflict
<1>6. b.bytes <= b.total
  <2>1. CASE f.id \in DOMAIN a.parts
    BY <1>3, <1>4, <2>1
  <2>2. CASE f.id \notin DOMAIN a.parts
    <3>1. ~(a.bytes + Len(f.payload) > a.total)
      BY <1>2, <2>2 DEF Conflict
    <3>2. a.bytes \in Nat /\ a.total \in Nat /\ Len(f.payload) \in Nat
      BY <1>1, AssemblyTypes DEF Frags
    <3> QED BY <1>3, <2>2, <3>1, <3>2
  <2> QED BY <2>1, <2>2
<1> QED BY <1>2, <1>3, <1>5, <1>6 DEF a, b

(* With a good fragment the rest fits the budget, and who has to go for it *)
(* goes because the budget was exhausted.                                  *)
LEMMA OutIs ==
  ASSUME MtpAssumptions, NEW f, NEW k, Due(f, k)
  PROVE  /\ Good(f, k) => Cardinality(Stock(Stays(f, k))) + New(f, k).bytes <= MaxBytes
         /\ Out(f, k) # 0 => Cardinality(Stock(Live(k))) + New(f, k).bytes - Old(f, k).bytes > MaxBytes
<1> DEFINE v == Cardinality(Stock(Live(k)))
           a == Old(f, k)
           r == Beside(f, k)
           b == New(f, k)
           n == Need(f, k)
           o == Out(f, k)
           w == Cardinality(Stock(r))
           x == Cardinality(Stock(Stays(f, k)))
<1>1. /\ f \in Frags /\ a \in Assemblies /\ Sized(a) /\ b \in Assemblies
      /\ Orderly(r) /\ Orderly(Stays(f, k)) /\ o \in 0 .. Len(r)
      /\ v \in Nat /\ v <= MaxBytes /\ v = w + a.bytes
      /\ n = w + b.bytes /\ BytesLeft(r, n)[o] = x + b.bytes
  BY AcceptCounts
<1>2. w \in Nat /\ x \in Nat /\ a.bytes \in Nat /\ b.bytes \in Nat /\ MaxBytes \in Nat /\ Len(r) \in Nat
  BY <1>1, AssemblyTypes, FS_CardinalityType DEF Orderly, MtpAssumptions
<1>3. n \in Int /\ r \in Seq(Assemblies)
  BY <1>1, <1>2 DEF Orderly
<1>4. BytesLeft(r, n)[0] = n
  <2> HIDE DEF r, n
  <2> QED BY <1>3, BytesLeftIs
<1>5. CASE Good(f, k) /\ f.id \notin DOMAIN a.parts
  <2>1. o = Evicted(r, n)
    BY <1>5 DEF Out
  <2>2. /\ BytesLeft(r, n)[o] <= MaxBytes \/ o = Len(r)
        /\ n <= MaxBytes => o = 0
    <3> HIDE DEF r, n, o
    <3> QED BY <1>2, <1>3, <2>1, EvictedIs
  <2>3. o = Len(r) => x = 0
    <3> SUFFICES ASSUME o = Len(r) PROVE x = 0
      OBVIOUS
    <3> DEFINE t == Later(r, o)
    <3>1. Len(t) = Len(r) - o /\ Orderly(t)
      <4> HIDE DEF r, o
      <4> QED BY <1>1, LaterIs
    <3>2. t = Stays(f, k)
      BY DEF Stays
    <3> HIDE DEF t, r, o
    <3>3. DOMAIN t = {}
      <4>1. t \in Seq(Assemblies) /\ Len(t) = 0
        BY <1>2, <3>1 DEF Orderly
      <4> QED BY <4>1
    <3>4. Stock(t) = {}
      BY <3>3, StockIs
    <3> QED BY <3>2, <3>4, FS_EmptySet
  <2>4. b.bytes <= MaxBytes
    <3>1. b.bytes <= b.total /\ b.total = f.total /\ f.total <= MaxBytes /\ f.total \in Nat
      BY <1>1, <1>5, GoodIs DEF Frags
    <3> HIDE DEF b
    <3> QED BY <1>2, <3>1
  <2>5. x + b.bytes <= MaxBytes
    <3> HIDE DEF x, b, r, n, o
    <3> QED BY <1>1, <1>2, <2>2, <2>3, <2>4
  <2>6. o # 0 => v + b.bytes - a.bytes > MaxBytes
    <3> HIDE DEF v, a, b, r, n, o, w, x
    <3> QED BY SMTT(30), <1>1, <1>2, <2>2
  <2> QED BY <2>5, <2>6
<1>6. CASE ~(Good(f, k) /\ f.id \notin DOMAIN a.parts)
  <2>1. o = 0
    BY <1>6 DEF Out
  <2>2. ASSUME Good(f, k) PROVE x + b.bytes <= MaxBytes
    <3>1. b = a
      BY <1>1, <1>6, <2>2, FilledIs DEF New
    <3> HIDE DEF v, a, b, r, n, o, w, x
    <3> QED BY <1>1, <1>2, <1>4, <2>1, <3>1
  <2> QED BY <2>1, <2>2
<1> QED BY <1>5, <1>6

(* Where the assemblies go, and where those that stay come from. *)
LEMMA StaysAre ==
  ASSUME MtpAssumptions, NEW f, NEW k, Due(f, k)
  PROVE  /\ \A i \in DOMAIN Live(k) : \E j \in DOMAIN asms : Live(k)[i] = asms[j]
         /\ \A i \in DOMAIN Beside(f, k) : \E j \in DOMAIN Live(k) : Beside(f, k)[i] = Live(k)[j]
         /\ \A i \in DOMAIN Stays(f, k) : \E j \in DOMAIN Beside(f, k) : Stays(f, k)[i] = Beside(f, k)[j]
         /\ \A i \in DOMAIN Stays(f, k) :
              Stays(f, k)[i].key # KeyOf(f) /\ \E j \in DOMAIN asms : Stays(f, k)[i] = asms[j]
         /\ \A j \in DOMAIN asms :
              \/ j \in 1 .. k
              \/ asms[j].key = KeyOf(f) /\ Old(f, k) = asms[j]
              \/ \E i \in 1 .. Out(f, k) : Beside(f, k)[i] = asms[j]
              \/ \E i \in DOMAIN Stays(f, k) : Stays(f, k)[i] = asms[j]
<1> DEFINE v == Live(k)
           r == Beside(f, k)
           t == Stays(f, k)
           o == Out(f, k)
<1>1. Orderly(asms) /\ k \in 0 .. Len(asms)
  BY DEF Due, Books
<1>2. /\ \A i \in DOMAIN v : k + i \in DOMAIN asms /\ v[i] = asms[k + i]
      /\ \A j \in DOMAIN asms : j > k => \E i \in DOMAIN v : v[i] = asms[j]
  BY <1>1, LaterIs DEF Live
<1>3. /\ Orderly(v) /\ Orderly(r) /\ o \in 0 .. Len(r) /\ f \in Frags /\ f.n # 0
  BY AcceptCounts
<1>4. /\ \A i \in DOMAIN r : r[i].key # KeyOf(f) /\ \E j \in DOMAIN v : r[i] = v[j]
      /\ \A j \in DOMAIN v : v[j].key # KeyOf(f) => \E i \in DOMAIN r : r[i] = v[j]
  BY <1>3, RestIs DEF Beside
<1>5. \A j \in DOMAIN v : v[j].key = KeyOf(f) => Old(f, k) = v[j]
  <2> SUFFICES ASSUME NEW j \in DOMAIN v, v[j].key = KeyOf(f) PROVE Old(f, k) = v[j]
    OBVIOUS
  <2>1. Assembly(v, f).key = KeyOf(f)
    BY <1>3, RestIs
  <2>2. \/ \A i \in DOMAIN v : v[i].key # KeyOf(f)
        \/ \E i \in DOMAIN v : Assembly(v, f) = v[i]
    <3> HIDE DEF v
    <3> QED BY <1>3, RestIs
  <2>3. PICK i \in DOMAIN v : Assembly(v, f) = v[i]
    BY <2>2
  <2>4. i = j
    BY <1>3, <2>1, <2>3 DEF Orderly, Distinct
  <2> QED BY <2>3, <2>4 DEF Old
<1>6. /\ \A i \in DOMAIN t : o + i \in DOMAIN r /\ t[i] = r[o + i]
      /\ \A j \in DOMAIN r : j > o => \E i \in DOMAIN t : t[i] = r[j]
  <2> DEFINE u == Later(r, o)
  <2>1. /\ \A i \in DOMAIN u : o + i \in DOMAIN r /\ u[i] = r[o + i]
        /\ \A j \in DOMAIN r : j > o => \E i \in DOMAIN u : u[i] = r[j]
    <3> HIDE DEF r, o
    <3> QED BY <1>3, LaterIs
  <2> QED BY <2>1 DEF Stays
<1>7. DOMAIN asms \subseteq Nat \ {0} /\ k \in Nat /\ DOMAIN r \subseteq Nat \ {0} /\ o \in Nat
  <2>1. asms \in Seq(Assemblies) /\ r \in Seq(Assemblies)
    BY <1>1, <1>3 DEF Orderly
  <2>2. o \in 0 .. Len(r) /\ Len(r) \in Nat
    BY <1>3, <2>1
  <2> HIDE DEF r, o
  <2> QED BY <1>1, <2>1, <2>2
<1> HIDE DEF v, r, t, o
<1>8. \A i \in DOMAIN r : \E j \in DOMAIN asms : r[i] = asms[j]
  BY <1>2, <1>4
<1>9. \A i \in DOMAIN t : t[i].key # KeyOf(f) /\ \E j \in DOMAIN asms : t[i] = asms[j]
  BY <1>4, <1>6, <1>8
<1>10. \A j \in DOMAIN r : j \in 1 .. o \/ \E i \in DOMAIN t : t[i] = r[j]
  BY <1>6, <1>7
<1>11. ASSUME NEW j \in DOMAIN asms
       PROVE  \/ j \in 1 .. k
              \/ asms[j].key = KeyOf(f) /\ Old(f, k) = asms[j]
              \/ \E i \in 1 .. o : r[i] = asms[j]
              \/ \E i \in DOMAIN t : t[i] = asms[j]
  <2>1. CASE ~(j > k)
    BY <1>7, <2>1
  <2>2. CASE j > k
    <3>1. PICK i \in DOMAIN v : v[i] = asms[j]
      BY <1>2, <2>2
    <3>2. CASE v[i].key = KeyOf(f)
      BY <1>5, <3>1, <3>2
    <3>3. CASE v[i].key # KeyOf(f)
      <4>1. PICK l \in DOMAIN r : r[l] = v[i]
        BY <1>4, <3>3
      <4> QED BY <1>10, <3>1, <4>1
    <3> QED BY <3>2, <3>3
  <2> QED BY <2>1, <2>2
<1> QED BY <1>2, <1>4, <1>6, <1>9, <1>11 DEF v, r, t, o

(* What the reader has afterwards. *)
LEMMA AsmsAre ==
  ASSUME MtpAssumptions, NEW f, NEW k, Due(f, k),
         TooLarge(f, k) \/ Bad(f, k) \/ Added(f, k) \/ Finished(f, k)
  PROVE  /\ \A l \in DOMAIN asms' : (asms'[l] = New(f, k) /\ Added(f, k)) \/ \E j \in DOMAIN asms : asms'[l] = asms[j]
         /\ \A i \in DOMAIN Stays(f, k) : \E l \in DOMAIN asms' : asms'[l] = Stays(f, k)[i]
         /\ Added(f, k) => \E l \in DOMAIN asms' : asms'[l] = New(f, k)
<1>1. /\ \A i \in DOMAIN Live(k) : \E j \in DOMAIN asms : Live(k)[i] = asms[j]
      /\ \A i \in DOMAIN Beside(f, k) : \E j \in DOMAIN Live(k) : Beside(f, k)[i] = Live(k)[j]
      /\ \A i \in DOMAIN Stays(f, k) : \E j \in DOMAIN Beside(f, k) : Stays(f, k)[i] = Beside(f, k)[j]
      /\ \A i \in DOMAIN Stays(f, k) : Stays(f, k)[i].key # KeyOf(f)
  BY StaysAre
<1>2. /\ Orderly(Stays(f, k)) /\ New(f, k) \in Assemblies /\ Sized(New(f, k)) /\ New(f, k).key = KeyOf(f)
  BY AcceptCounts
<1> DEFINE t == Stays(f, k)
           r == Beside(f, k)
           v == Live(k)
           b == New(f, k)
<1>3. ~Added(f, k) => asms' = v \/ asms' = r \/ asms' = t
  BY DEF TooLarge, Bad, Finished
<1>4. Added(f, k) => asms' = Append(t, b)
  BY DEF Added
<1>5. /\ \A i \in DOMAIN Append(t, b) : Append(t, b)[i] = b \/ \E j \in DOMAIN t : Append(t, b)[i] = t[j]
      /\ \A j \in DOMAIN t : \E i \in DOMAIN Append(t, b) : Append(t, b)[i] = t[j]
      /\ \E i \in DOMAIN Append(t, b) : Append(t, b)[i] = b
  <2>1. \A i \in DOMAIN t : t[i].key # b.key
    BY <1>1, <1>2
  <2> HIDE DEF t, b
  <2> QED BY <1>2, <2>1, AppendIs DEF t, b
<1> DEFINE u == Append(t, b)
<1> HIDE DEF t, r, v, b, u
<1>6. CASE ~Added(f, k)
  BY <1>1, <1>3, <1>6 DEF t, r, v
<1>7. CASE Added(f, k)
  <2>1. asms' = u
    BY <1>4, <1>7 DEF u
  <2>2. \A i \in DOMAIN t : \E j \in DOMAIN asms : t[i] = asms[j]
    BY <1>1 DEF t, r, v
  <2> QED BY <1>5, <1>7, <2>1, <2>2 DEF u, t, b
<1> QED BY <1>6, <1>7

(* The books stay right.                                                   *)
LEMMA AsmsKept ==
  ASSUME MtpAssumptions, NEW f, NEW k, Due(f, k),
         TooLarge(f, k) \/ Bad(f, k) \/ Added(f, k) \/ Finished(f, k)
  PROVE  Orderly(asms') /\ (\A i \in DOMAIN asms' : Unfinished(asms'[i])) /\ Budget'
<1> DEFINE v == Cardinality(Stock(Live(k)))
           a == Old(f, k)
           r == Beside(f, k)
           b == New(f, k)
           w == Cardinality(Stock(r))
           t == Stays(f, k)
           x == Cardinality(Stock(t))
           c == BytesLeft(asms, asmBytes)[k]
           d == BytesLeft(r, Need(f, k))[Out(f, k)]
<1>1. /\ f \in Frags /\ a \in Assemblies /\ b \in Assemblies /\ Sized(b) /\ b.key = KeyOf(f)
      /\ Orderly(Live(k)) /\ Orderly(r) /\ Orderly(t)
      /\ c = v /\ v \in Nat /\ v <= MaxBytes /\ v = w + a.bytes
      /\ d = x + b.bytes
  BY AcceptCounts
<1>2. w \in Nat /\ x \in Nat /\ a.bytes \in Nat /\ b.bytes \in Nat /\ MaxBytes \in Nat
  BY <1>1, AssemblyTypes, FS_CardinalityType DEF Orderly, MtpAssumptions
<1>3. Good(f, k) => x + b.bytes <= MaxBytes
  BY OutIs
<1>4. Orderly(asms') /\ Budget'
  <2>1. CASE TooLarge(f, k)
    <3>1. asms' = Live(k) /\ asmBytes' = c
      BY <2>1 DEF TooLarge
    <3> HIDE DEF c
    <3>2. asmBytes' = Cardinality(Stock(asms')) /\ asmBytes' <= MaxBytes
      BY <1>1, <3>1
    <3> QED BY <1>1, <3>1, <3>2 DEF Budget, Stock, BytesOf
  <2>2. CASE Bad(f, k)
    <3>1. asms' = r /\ asmBytes' = c - a.bytes
      BY <2>2 DEF Bad
    <3>2. asmBytes' = w /\ asmBytes' <= MaxBytes
      <4> HIDE DEF c, v, w, a, r
      <4> QED BY <1>1, <1>2, <3>1
    <3> HIDE DEF r
    <3> QED BY <1>1, <3>1, <3>2 DEF Budget, Stock, BytesOf
  <2>3. CASE Added(f, k)
    <3> DEFINE u == Append(t, b)
    <3>1. asms' = u /\ asmBytes' = d /\ Good(f, k)
      BY <2>3 DEF Added
    <3>2. \A i \in DOMAIN t : t[i].key # b.key
      BY <1>1, StaysAre
    <3>3. Orderly(u) /\ Cardinality(Stock(u)) = x + b.bytes
      <4> HIDE DEF t, b
      <4> QED BY <1>1, <3>2, AppendIs
    <3> HIDE DEF d, u, t, b, x
    <3>4. asmBytes' = Cardinality(Stock(asms')) /\ asmBytes' <= MaxBytes
      BY <1>1, <1>3, <3>1, <3>3
    <3> QED BY <3>1, <3>3, <3>4 DEF Budget, Stock, BytesOf
  <2>4. CASE Finished(f, k)
    <3>1. asms' = t /\ asmBytes' = d - b.bytes /\ Good(f, k)
      BY <2>4 DEF Finished
    <3>2. asmBytes' = x /\ asmBytes' <= MaxBytes
      <4> HIDE DEF d, x, b, t
      <4> QED BY <1>1, <1>2, <1>3, <3>1
    <3> HIDE DEF t
    <3> QED BY SMTT(30), <1>1, <3>1, <3>2 DEF Budget, Stock, BytesOf
  <2> QED BY <2>1, <2>2, <2>3, <2>4
<1>5. ASSUME NEW i \in DOMAIN asms' PROVE Unfinished(asms'[i])
  <2>1. (asms'[i] = b /\ Added(f, k)) \/ \E j \in DOMAIN asms : asms'[i] = asms[j]
    BY AsmsAre
  <2>2. \A j \in DOMAIN asms : Unfinished(asms[j])
    BY DEF Due, Books
  <2>3. Added(f, k) => Unfinished(b)
    <3> SUFFICES ASSUME Added(f, k) PROVE Unfinished(b)
      OBVIOUS
    <3>1. Good(f, k) /\ ~Complete(b)
      BY DEF Added
    <3>2. b.total = f.total /\ f.total <= MaxBytes /\ b.bytes <= b.total /\ DOMAIN b.parts # {}
      BY <3>1, GoodIs
    <3> HIDE DEF b
    <3> QED BY <3>1, <3>2 DEF Unfinished
  <2> HIDE DEF b
  <2> QED BY <2>1, <2>2, <2>3
<1> QED BY <1>4, <1>5

LEMMA AcceptBooks ==
  ASSUME MtpAssumptions, NEW f, NEW k, NEW again, Due(f, k), Accept(f, k, again)
  PROVE  Books'
<1>1. /\ net' \subseteq net /\ written' = written
      /\ TooLarge(f, k) \/ Bad(f, k) \/ Added(f, k) \/ Finished(f, k)
  BY AcceptDoes
<1>2. Books /\ f \in net
  BY DEF Due
<1>3. f.from \in Sources /\ f.n \in DOMAIN written[f.from]
  BY <1>2 DEF Books, Frags
<1>4. ASSUME NEW g \in received' PROVE g.from \in Sources /\ g.n \in DOMAIN written'[g.from]
  <2>1. g \in received \/ (g.from = f.from /\ g.n = f.n)
    BY <1>1 DEF TooLarge, Bad, Added, Finished
  <2> QED BY <1>1, <1>2, <1>3, <2>1 DEF Books
<1>5. Orderly(asms') /\ (\A i \in DOMAIN asms' : Unfinished(asms'[i])) /\ Budget'
  BY <1>1, AsmsKept
<1>6. written' \in [Sources -> Seq(Payloads)] /\ net' \subseteq Frags /\ \A g \in net' : g.n \in DOMAIN written'[g.from]
  BY <1>1, <1>2 DEF Books
<1> QED BY <1>4, <1>5, <1>6 DEF Books, Orderly, Distinct, Sized, Unfinished, Complete, Stock, BytesOf

(* The message f belongs to, and how it is cut. *)
Whole(f) == written[f.from][f.n]

Width(f, cut) == cut[f.from][f.n]

LEMMA MessageIs ==
  ASSUME MtpAssumptions, Books, NEW cut \in Cuts, NEW w \in Sources, NEW n \in DOMAIN written[w]
  PROVE  /\ written[w][n] \in Payloads /\ written[w][n] \in Seq(Bytes) /\ n \in Nat \ {0}
         /\ cut[w][n] \in Nat \ {0} /\ n \in 1 .. Len(written[w]) /\ Len(written[w]) \in Nat
<1>1. written \in [Sources -> Seq(Payloads)]
  BY DEF Books
<1>2. written[w] \in Seq(Payloads)
  BY <1>1
<1>3. n \in 1 .. Len(written[w]) /\ Len(written[w]) \in Nat /\ written[w][n] \in Payloads
  BY <1>2
<1>4. n \in Nat \ {0}
  BY <1>3
<1>5. cut[w] \in [Nat -> Nat \ {0}]
  BY DEF Cuts
<1> QED BY <1>3, <1>4, <1>5 DEF MtpAssumptions

(* A fragment of a message that is still the newest of its number fits the *)
(* assembly that has its key.                                              *)
LEMMA GenuineFits ==
  ASSUME MtpAssumptions, NEW f, NEW k, Due(f, k), NEW cut \in Cuts, Faithful(cut)
  PROVE  /\ PartOf(New(f, k), Whole(f), Width(f, cut))
         /\ f.total = Len(Whole(f)) /\ f.total <= MaxBytes => Good(f, k)
<1> DEFINE a == Old(f, k)
           b == New(f, k)
           m == Whole(f)
           c == Width(f, cut)
<1>1. /\ f \in Frags /\ a \in Assemblies /\ Sized(a) /\ b \in Assemblies /\ Sized(b)
      /\ a.key = KeyOf(f) /\ f.n # 0
  BY AcceptCounts
<1>2. Books /\ f \in net /\ f.from \in Sources /\ f.n \in DOMAIN written[f.from]
  BY <1>1 DEF Due, Books, Frags
<1>3. m \in Seq(Bytes) /\ c \in Nat \ {0} /\ Pieces(m, c) \in Nat \ {0} /\ Len(m) \in Nat
  <2>1. m \in Seq(Bytes) /\ c \in Nat \ {0}
    BY <1>2, MessageIs DEF Whole, Width
  <2> HIDE DEF m, c
  <2> QED BY <2>1, PiecesType
<1>4. Genuine(f, cut)
  BY <1>2 DEF Faithful
<1>5. /\ Newest(f.from, f.n) /\ f.total = Len(m)
      /\ f.id < Pieces(m, c) /\ f.payload = Piece(m, c, f.id)
  BY <1>4 DEF Genuine, Whole, Width
<1>6. PartOf(a, m, c)
  <2>1. CASE a = NewAssembly(f)
    <3>1. a.total = f.total /\ DOMAIN a.parts = {}
      BY <1>1, <2>1, NewAssemblyIs
    <3> HIDE DEF a, m, c
    <3> QED BY <1>5, <3>1 DEF PartOf
  <2>2. CASE \E j \in DOMAIN asms : a = asms[j]
    <3>1. PICK j \in DOMAIN asms : a = asms[j]
      BY <2>2
    <3>2. PICK w \in Sources : \E n \in DOMAIN written[w] : CutFrom(asms[j], w, n, cut)
      BY DEF Faithful
    <3>3. PICK n \in DOMAIN written[w] : CutFrom(asms[j], w, n, cut)
      BY <3>2
    <3>4. a.key = <<w, SequenceOf(n)>> /\ Newest(w, n) /\ PartOf(a, written[w][n], cut[w][n])
      BY <3>1, <3>3 DEF CutFrom
    <3>5. w = f.from /\ SequenceOf(n) = SequenceOf(f.n)
      BY <1>1, <3>4 DEF KeyOf
    <3>6. n = f.n
      BY <1>2, <1>5, <3>4, <3>5, NewestOne DEF Books
    <3> QED BY <3>4, <3>5, <3>6 DEF Whole, Width
  <2> QED BY <2>1, <2>2, OldIs
<1>7. /\ b.key = a.key /\ b.total = a.total
      /\ DOMAIN b.parts = DOMAIN a.parts \cup {f.id}
      /\ \A p \in DOMAIN a.parts : b.parts[p] = a.parts[p]
      /\ f.id \in DOMAIN a.parts => b = a
      /\ f.id \notin DOMAIN a.parts => b.parts[f.id] = f.payload /\ b.bytes = a.bytes + Len(f.payload)
  BY <1>1, FilledIs DEF New
<1> HIDE DEF a, b, m, c
<1>8. PartOf(b, m, c)
  <2>1. f.id \in 0 .. Pieces(m, c) - 1
    BY <1>1, <1>3, <1>5 DEF Frags
  <2>2. \A p \in DOMAIN b.parts : b.parts[p] = Piece(m, c, p)
    <3> TAKE p \in DOMAIN b.parts
    <3>1. CASE p \in DOMAIN a.parts
      BY <1>6, <1>7, <3>1 DEF PartOf
    <3>2. CASE p = f.id /\ p \notin DOMAIN a.parts
      BY <1>5, <1>7, <3>2
    <3> QED BY <1>7, <3>1, <3>2
  <2> QED BY <1>6, <1>7, <2>1, <2>2 DEF PartOf
<1>9. ~Conflict(a, f)
  <2>1. a.total = f.total
    BY <1>5, <1>6 DEF PartOf
  <2>2. f.id \in DOMAIN a.parts => a.parts[f.id] = f.payload
    BY <1>5, <1>6 DEF PartOf
  <2>3. f.id \notin DOMAIN a.parts => ~(a.bytes + Len(f.payload) > a.total)
    <3> SUFFICES ASSUME f.id \notin DOMAIN a.parts PROVE ~(a.bytes + Len(f.payload) > a.total)
      OBVIOUS
    <3>1. Cardinality(BytesOf(b)) <= Len(m)
      BY <1>3, <1>8, PartBounded
    <3>2. b.bytes = Cardinality(BytesOf(b)) /\ b.bytes = a.bytes + Len(f.payload)
      BY <1>1, <1>7 DEF Sized
    <3>3. a.bytes \in Nat /\ Len(f.payload) \in Nat
      BY <1>1, AssemblyTypes DEF Frags
    <3> QED BY <1>3, <1>5, <2>1, <3>1, <3>2, <3>3
  <2> QED BY <2>1, <2>2, <2>3 DEF Conflict
<1> QED BY <1>5, <1>8, <1>9 DEF a, b, m, c, Good

(* What is delivered is the message.                                       *)
LEMMA FinishedIs ==
  ASSUME MtpAssumptions, NEW f, NEW k, Due(f, k), NEW cut \in Cuts, Faithful(cut), Finished(f, k)
  PROVE  received' = received \cup {[from |-> f.from, n |-> f.n, data |-> Whole(f)]}
<1> DEFINE b == New(f, k)
           m == Whole(f)
           c == Width(f, cut)
<1>1. Good(f, k) /\ Complete(b) /\ received' = received \cup {[from |-> f.from, n |-> f.n, data |-> Joined(b)]}
  BY DEF Finished
<1>2. PartOf(b, m, c) /\ Sized(b) /\ DOMAIN b.parts # {}
  BY <1>1, GenuineFits, AcceptCounts, GoodIs
<1>3. m \in Seq(Bytes) /\ c \in Nat \ {0}
  <2>1. f.from \in Sources /\ f.n \in DOMAIN written[f.from] /\ Books
    BY DEF Due, Books, Frags
  <2> QED BY <2>1, MessageIs DEF Whole, Width
<1> HIDE DEF b, m, c
<1>4. DOMAIN b.parts = 0 .. Pieces(m, c) - 1
  BY <1>1, <1>2, <1>3, CompleteIs DEF Sized
<1>5. Joined(b) = m
  BY <1>2, <1>3, <1>4, JoinedIs
<1> QED BY <1>1, <1>5 DEF b, m

(* No message is lost without a reason when a fragment is accepted.        *)
LEMMA AcceptAccounted ==
  ASSUME MtpAssumptions, NEW f, NEW k, NEW again, Due(f, k), Accept(f, k, again),
         NEW cut \in Cuts, Faithful(cut), NEW w \in Sources, NEW n \in DOMAIN written[w]
  PROVE  Accounted(w, n, cut)'
<1> DEFINE m == written[w][n]
           key == <<w, SequenceOf(n)>>
           pieces == 0 .. Pieces(m, cut[w][n]) - 1
<1>1. /\ net' = (IF again THEN net ELSE net \ {f})
      /\ TooLarge(f, k) \/ Bad(f, k) \/ Added(f, k) \/ Finished(f, k)
      /\ written' = written /\ spoiled \subseteq spoiled'
      /\ \A i \in 1 .. k : LastUse(asms[i].key) \in spoiled'
      /\ Cardinality(Stock(Live(k))) + New(f, k).bytes - Old(f, k).bytes > MaxBytes =>
           \A i \in 1 .. Out(f, k) : LastUse(Beside(f, k)[i].key) \in spoiled'
  BY AcceptDoes
<1>2. Books /\ f \in net /\ f \in Frags /\ f.from \in Sources /\ f.n \in DOMAIN written[f.from]
  BY DEF Due, Books, Frags
<1>3. received \subseteq received'
  BY <1>1 DEF TooLarge, Bad, Added, Finished
<1>4. Genuine(f, cut) /\ Newest(f.from, f.n) /\ f.total = Len(Whole(f))
  BY <1>2 DEF Faithful, Genuine, Whole
<1>5. CASE \/ <<w, n>> \in spoiled
           \/ Len(m) > MaxBytes
           \/ [from |-> w, n |-> n, data |-> m] \in received
  BY <1>1, <1>3, <1>5 DEF Accounted
<1>6. CASE Newest(w, n) /\ \A p \in pieces : Somewhere(w, n, p)
  <2>1. ASSUME NEW a, a.key = key PROVE LastUse(a.key) = <<w, n>>
    <3>1. n \in Nat /\ written \in [Sources -> Seq(Payloads)]
      BY <1>2, MessageIs DEF Books
    <3> QED BY <1>6, <2>1, <3>1, LastUseIs
  <2>2. CASE \E i \in 1 .. k : asms[i].key = key
    <3>1. <<w, n>> \in spoiled'
      BY <1>1, <2>1, <2>2
    <3> QED BY <3>1 DEF Accounted
  <2>3. CASE \E i \in 1 .. Out(f, k) : Beside(f, k)[i].key = key
    <3>1. Out(f, k) # 0
      BY <2>3
    <3>2. <<w, n>> \in spoiled'
      BY <1>1, <2>1, <2>3, <3>1, OutIs
    <3> QED BY <3>2 DEF Accounted
  <2>4. CASE /\ ~\E i \in 1 .. k : asms[i].key = key
             /\ ~\E i \in 1 .. Out(f, k) : Beside(f, k)[i].key = key
    <3>1. ASSUME NEW i \in DOMAIN asms, asms[i].key = key
          PROVE  \/ asms[i].key = KeyOf(f) /\ Old(f, k) = asms[i]
                 \/ \E l \in DOMAIN asms' : asms'[l] = asms[i]
      <4>1. \/ i \in 1 .. k
            \/ asms[i].key = KeyOf(f) /\ Old(f, k) = asms[i]
            \/ \E l \in 1 .. Out(f, k) : Beside(f, k)[l] = asms[i]
            \/ \E l \in DOMAIN Stays(f, k) : Stays(f, k)[l] = asms[i]
        BY StaysAre
      <4>2. \A l \in DOMAIN Stays(f, k) : \E j \in DOMAIN asms' : asms'[j] = Stays(f, k)[l]
        BY <1>1, AsmsAre
      <4>3. ~\E l \in 1 .. Out(f, k) : Beside(f, k)[l] = asms[i]
        BY <2>4, <3>1
      <4> QED BY <2>4, <3>1, <4>1, <4>2, <4>3
    <3>2. CASE w = f.from /\ n = f.n
      <4>1. m = Whole(f) /\ key = KeyOf(f)
        BY <3>2 DEF Whole, KeyOf
      <4>2. CASE TooLarge(f, k)
        <5>1. Len(written'[w][n]) > MaxBytes
          BY <1>1, <1>4, <4>1, <4>2 DEF TooLarge
        <5> QED BY <5>1 DEF Accounted
      <4>3. ~Bad(f, k)
        BY <1>4, GenuineFits DEF Bad
      <4>4. CASE Finished(f, k)
        <5>1. [from |-> w, n |-> n, data |-> written'[w][n]] \in received'
          BY <1>1, <3>2, <4>1, <4>4, FinishedIs
        <5> QED BY <5>1 DEF Accounted
      <4>5. CASE Added(f, k)
        <5>1. PICK l \in DOMAIN asms' : asms'[l] = New(f, k)
          BY <4>5, AsmsAre
        <5>2. /\ New(f, k).key = Old(f, k).key /\ Old(f, k).key = KeyOf(f)
              /\ DOMAIN New(f, k).parts = DOMAIN Old(f, k).parts \cup {f.id}
          BY AcceptCounts, FilledIs DEF New
        <5>3. ASSUME NEW p \in pieces PROVE Somewhere(w, n, p)'
          <6>1. CASE p = f.id
            BY <4>1, <5>1, <5>2, <6>1 DEF Somewhere
          <6>2. CASE p # f.id
            <7>1. CASE \E g \in net : g.from = w /\ g.n = n /\ g.id = p
              <8>1. \E g \in net' : g.from = w /\ g.n = n /\ g.id = p
                BY <1>1, <6>2, <7>1
              <8> QED BY <8>1 DEF Somewhere
            <7>2. CASE \E i \in DOMAIN asms : asms[i].key = key /\ p \in DOMAIN asms[i].parts
              <8>1. PICK i \in DOMAIN asms : asms[i].key = key /\ p \in DOMAIN asms[i].parts
                BY <7>2
              <8>2. \E j \in DOMAIN asms' : asms'[j].key = key /\ p \in DOMAIN asms'[j].parts
                BY <3>1, <4>1, <5>1, <5>2, <8>1
              <8> QED BY <8>2 DEF Somewhere
            <7> QED BY <1>6, <7>1, <7>2 DEF Somewhere
          <6> QED BY <6>1, <6>2
        <5>4. Newest(w, n)'
          BY <1>1, <1>6 DEF Newest
        <5> QED BY <1>1, <5>3, <5>4 DEF Accounted
      <4> QED BY <1>1, <4>2, <4>3, <4>4, <4>5
    <3>3. CASE ~(w = f.from /\ n = f.n)
      <4>1. key # KeyOf(f)
        <5> SUFFICES ASSUME key = KeyOf(f) PROVE FALSE
          OBVIOUS
        <5>1. w = f.from /\ SequenceOf(n) = SequenceOf(f.n)
          BY DEF KeyOf
        <5>2. n = f.n
          BY <1>2, <1>4, <1>6, <5>1, NewestOne DEF Books
        <5> QED BY <3>3, <5>1, <5>2
      <4>2. ASSUME NEW p \in pieces PROVE Somewhere(w, n, p)'
        <5>1. CASE \E g \in net : g.from = w /\ g.n = n /\ g.id = p
          <6>1. \E g \in net' : g.from = w /\ g.n = n /\ g.id = p
            BY <1>1, <3>3, <5>1
          <6> QED BY <6>1 DEF Somewhere
        <5>2. CASE \E i \in DOMAIN asms : asms[i].key = key /\ p \in DOMAIN asms[i].parts
          <6>1. \E j \in DOMAIN asms' : asms'[j].key = key /\ p \in DOMAIN asms'[j].parts
            BY <3>1, <4>1, <5>2
          <6> QED BY <6>1 DEF Somewhere
        <5> QED BY <1>6, <5>1, <5>2 DEF Somewhere
      <4>3. Newest(w, n)'
        BY <1>1, <1>6 DEF Newest
      <4> QED BY <1>1, <4>2, <4>3 DEF Accounted
    <3> QED BY <3>2, <3>3
  <2> QED BY <2>2, <2>3, <2>4
<1>7. Accounted(w, n, cut)
  BY DEF Faithful
<1> QED BY <1>5, <1>6, <1>7 DEF Accounted

LEMMA AcceptFaithful ==
  ASSUME MtpAssumptions, NEW f, NEW k, NEW again, Due(f, k), Accept(f, k, again),
         NEW cut \in Cuts, Faithful(cut)
  PROVE  Faithful(cut)'
<1>1. /\ net' \subseteq net /\ written' = written
      /\ TooLarge(f, k) \/ Bad(f, k) \/ Added(f, k) \/ Finished(f, k)
  BY AcceptDoes
<1>2. Books /\ f \in net /\ f \in Frags /\ f.from \in Sources /\ f.n \in DOMAIN written[f.from]
  BY DEF Due, Books, Frags
<1>3. \A g \in net' : Genuine(g, cut)'
  <2>1. \A g \in net' : Genuine(g, cut)
    BY <1>1 DEF Faithful
  <2> QED BY <1>1, <2>1 DEF Genuine, Newest
<1>4. ASSUME NEW i \in DOMAIN asms' PROVE \E w \in Sources : \E n \in DOMAIN written'[w] : CutFrom(asms[i], w, n, cut)'
  <2>1. CASE \E j \in DOMAIN asms : asms'[i] = asms[j]
    <3>1. PICK j \in DOMAIN asms : asms'[i] = asms[j]
      BY <2>1
    <3>2. \E w \in Sources : \E n \in DOMAIN written[w] : CutFrom(asms[j], w, n, cut)
      BY DEF Faithful
    <3> QED BY <1>1, <3>1, <3>2 DEF CutFrom, Newest, PartOf
  <2>2. CASE asms'[i] = New(f, k)
    <3>1. PartOf(New(f, k), written[f.from][f.n], cut[f.from][f.n]) /\ New(f, k).key = KeyOf(f)
      BY GenuineFits, AcceptCounts DEF Whole, Width
    <3>2. Newest(f.from, f.n)
      BY <1>2 DEF Faithful, Genuine
    <3>3. asms'[i].key = <<f.from, SequenceOf(f.n)>>
      BY <2>2, <3>1 DEF KeyOf
    <3>4. PartOf(asms[i], written[f.from][f.n], cut[f.from][f.n])'
      BY <1>1, <2>2, <3>1 DEF PartOf
    <3>5. Newest(f.from, f.n)'
      BY <1>1, <3>2 DEF Newest
    <3> QED BY <1>1, <1>2, <3>3, <3>4, <3>5 DEF CutFrom
  <2> QED BY <1>1, <2>1, <2>2, AsmsAre
<1>5. ASSUME NEW w \in Sources, NEW n \in DOMAIN written'[w] PROVE Accounted(w, n, cut)'
  <2>1. n \in DOMAIN written[w]
    BY <1>1
  <2> QED BY <2>1, AcceptAccounted
<1>6. ASSUME NEW g \in received' PROVE g.data = written'[g.from][g.n]
  <2>1. g \in received \/ g = [from |-> f.from, n |-> f.n, data |-> Whole(f)]
    BY <1>1, FinishedIs DEF TooLarge, Bad, Added
  <2>2. g \in received => g.data = written[g.from][g.n]
    BY DEF Faithful
  <2> QED BY <1>1, <2>1, <2>2 DEF Whole
<1> QED BY <1>3, <1>4, <1>5, <1>6 DEF Faithful

PieceOf(f, w, n, m, c) ==
  /\ f \in Frags /\ f.from = w /\ f.n = n /\ f.total = Len(m)
  /\ f.id < Pieces(m, c) /\ f.payload = Piece(m, c, f.id)

(* All q pieces of message n of w are in s. *)
AllIn(s, w, n, q) == \A p \in 0 .. q - 1 : \E g \in s : g.from = w /\ g.n = n /\ g.id = p

(* A message is sent in all its pieces.                                    *)
LEMMA FragmentsAre ==
  ASSUME MtpAssumptions, NEW w \in Sources, NEW n \in Nat \ {0}, NEW m \in Seq(Bytes), NEW c \in Nat \ {0}
  PROVE  /\ \A f \in Fragments(w, n, m, c) : PieceOf(f, w, n, m, c)
         /\ AllIn(Fragments(w, n, m, c), w, n, Pieces(m, c))
<1> DEFINE q == Pieces(m, c)
<1>1. q \in Nat \ {0}
  BY PiecesType
<1>2. \A p \in 0 .. q - 1 : p \in Nat /\ p < q /\ Piece(m, c, p) \in Seq(Bytes)
  <2> TAKE p \in 0 .. q - 1
  <2>1. p \in Nat /\ p < q
    <3> HIDE DEF q
    <3> QED BY <1>1
  <2> QED BY <2>1, PieceIs
<1>3. \A f \in Fragments(w, n, m, c) :
        \E p \in 0 .. q - 1 : f = [from |-> w, n |-> n, id |-> p, total |-> Len(m), payload |-> Piece(m, c, p)]
  BY DEF Fragments
<1>4. \A p \in 0 .. q - 1 :
        [from |-> w, n |-> n, id |-> p, total |-> Len(m), payload |-> Piece(m, c, p)] \in Fragments(w, n, m, c)
  BY DEF Fragments
<1>5. Len(m) \in Nat
  OBVIOUS
<1> HIDE DEF q
<1>6. \A f \in Fragments(w, n, m, c) :
        /\ f \in Frags /\ f.from = w /\ f.n = n /\ f.total = Len(m)
        /\ f.id < q /\ f.payload = Piece(m, c, f.id)
  BY <1>2, <1>3, <1>5 DEF Frags
<1>7. \A p \in 0 .. q - 1 : \E g \in Fragments(w, n, m, c) : g.from = w /\ g.n = n /\ g.id = p
  <2> TAKE p \in 0 .. q - 1
  <2> DEFINE g == [from |-> w, n |-> n, id |-> p, total |-> Len(m), payload |-> Piece(m, c, p)]
  <2>1. g \in Fragments(w, n, m, c)
    BY <1>4
  <2>2. g.from = w /\ g.n = n /\ g.id = p
    OBVIOUS
  <2> QED BY <2>1, <2>2
<1> QED BY <1>6, <1>7 DEF q, PieceOf, AllIn

LEMMA WriteBooks ==
  ASSUME MtpAssumptions, Books, NEW w \in Sources, NEW m \in Payloads, NEW c \in Capacity[w],
         WriteMessage(w, m, c)
  PROVE  Books'
<1> DEFINE n == Len(written[w]) + 1
<1>1. /\ written' = [written EXCEPT ![w] = Append(@, m)]
      /\ (net' = net \cup Fragments(w, n, m, c) /\ Sendable(m, c)) \/ net' = net
      /\ UNCHANGED <<asms, asmBytes, received>>
  BY DEF WriteMessage
<1>2. written \in [Sources -> Seq(Payloads)] /\ written[w] \in Seq(Payloads) /\ n \in Nat \ {0}
  BY DEF Books
<1>3. m \in Seq(Bytes) /\ c \in Nat
  BY DEF MtpAssumptions
<1>4. /\ written' \in [Sources -> Seq(Payloads)] /\ n \in DOMAIN written'[w]
      /\ \A v \in Sources : \A i \in DOMAIN written[v] : i \in DOMAIN written'[v]
  BY <1>1, <1>2
<1>5. ASSUME NEW f \in net' PROVE f \in Frags /\ f.n \in DOMAIN written'[f.from]
  <2>1. CASE f \in net
    BY <1>4, <2>1 DEF Books, Frags
  <2>2. CASE f \notin net
    <3>1. f \in Fragments(w, n, m, c) /\ c \in Nat \ {0}
      BY <1>1, <1>3, <2>2 DEF Sendable
    <3>2. f \in Frags /\ f.from = w /\ f.n = n
      <4>1. PieceOf(f, w, n, m, c)
        <5> HIDE DEF n
        <5> QED BY <1>2, <1>3, <3>1, FragmentsAre
      <4> QED BY <4>1 DEF PieceOf
    <3> QED BY <1>4, <3>2
  <2> QED BY <2>1, <2>2
<1>6. \A g \in received' : g.from \in Sources /\ g.n \in DOMAIN written'[g.from]
  BY <1>1, <1>4 DEF Books
<1>7. Orderly(asms') /\ (\A i \in DOMAIN asms' : Unfinished(asms'[i])) /\ Budget'
  BY <1>1 DEF Books, Budget, Stock, BytesOf
<1> QED BY <1>4, <1>5, <1>6, <1>7 DEF Books, Orderly, Distinct, Sized, Unfinished, Complete, Stock, BytesOf

(* The newest of a number, so far and with one more. *)
LEMMA WriteNewest ==
  ASSUME MtpAssumptions, Books, NEW w \in Sources, NEW m,
         written' = [written EXCEPT ![w] = Append(@, m)],
         NEW v \in Sources, NEW i \in DOMAIN written[v], Newest(v, i),
         v = w => SequenceOf(i) # SequenceOf(Len(written[w]) + 1)
  PROVE  Newest(v, i)'
<1>1. written \in [Sources -> Seq(Payloads)] /\ written[w] \in Seq(Payloads)
  BY DEF Books
<1>2. CASE v # w
  BY <1>1, <1>2 DEF Newest
<1>3. CASE v = w
  <2> SUFFICES ASSUME NEW j \in i + 1 .. Len(written'[w]) PROVE SequenceOf(j) # SequenceOf(i)
    BY <1>3 DEF Newest
  <2>1. written'[w] = Append(written[w], m) /\ Len(written'[w]) = Len(written[w]) + 1
    BY <1>1
  <2>2. j = Len(written[w]) + 1 \/ j \in i + 1 .. Len(written[w])
    BY <1>1, <1>3, <2>1
  <2> QED BY <1>3, <2>2 DEF Newest
<1> QED BY <1>2, <1>3

(* A message whose number is not in use starts afresh: it is the newest,   *)
(* and what was the newest before still is.                                *)
LEMMA WriteFaithful ==
  ASSUME MtpAssumptions, Books, NEW w \in Sources, NEW m \in Payloads, NEW c \in Capacity[w],
         WriteMessage(w, m, c), ~reused', NEW cut \in Cuts, Faithful(cut)
  PROVE  \E cutNow \in Cuts : Faithful(cutNow)'
<1> PICK n : n = Len(written[w]) + 1
  OBVIOUS
<1> PICK d : d = IF c > 0 THEN c ELSE 1
  OBVIOUS
<1> PICK e : e = [cut EXCEPT ![w] = [cut[w] EXCEPT ![n] = d]]
  OBVIOUS
<1>1. /\ written' = [written EXCEPT ![w] = Append(@, m)]
      /\ \/ net' = net \cup Fragments(w, n, m, c) /\ Sendable(m, c) /\ spoiled' = spoiled
         \/ net' = net /\ spoiled' = spoiled \cup {<<w, n>>}
      /\ UNCHANGED <<asms, asmBytes, received>>
      /\ ~InUse(<<w, SequenceOf(n)>>)
  BY DEF WriteMessage
<1>2. written \in [Sources -> Seq(Payloads)] /\ written[w] \in Seq(Payloads) /\ n \in Nat \ {0}
  BY DEF Books
<1>3. m \in Seq(Bytes) /\ c \in Nat /\ d \in Nat \ {0}
  BY DEF MtpAssumptions
<1>4. /\ written'[w][n] = m /\ DOMAIN written'[w] = 1 .. n /\ Len(written'[w]) = n
      /\ \A v \in Sources : \A i \in DOMAIN written[v] :
           i \in DOMAIN written'[v] /\ written'[v][i] = written[v][i] /\ ~(v = w /\ i = n)
      /\ \A v \in Sources : \A i \in DOMAIN written'[v] : i \in DOMAIN written[v] \/ (v = w /\ i = n)
  BY <1>1, <1>2
<1>5. /\ e \in Cuts /\ e[w][n] = d
      /\ \A v \in Sources : \A i \in DOMAIN written[v] : e[v][i] = cut[v][i]
  <2>1. cut \in [Sources -> [Nat -> Nat \ {0}]] /\ cut[w] \in [Nat -> Nat \ {0}]
    BY DEF Cuts
  <2>2. \A v \in Sources : \A i \in DOMAIN written[v] : i \in Nat /\ ~(v = w /\ i = n)
    BY <1>2, <1>4
  <2>3. [cut[w] EXCEPT ![n] = d] \in [Nat -> Nat \ {0}]
    BY <1>2, <1>3, <2>1
  <2>4. e \in [Sources -> [Nat -> Nat \ {0}]]
    BY <2>1, <2>3
  <2>5. e[w][n] = d
    BY <1>2, <2>1
  <2>6. \A v \in Sources : \A i \in DOMAIN written[v] : e[v][i] = cut[v][i]
    BY <1>2, <2>1, <2>2
  <2> QED BY <2>4, <2>5, <2>6 DEF Cuts
<1>6. ASSUME NEW v \in Sources, NEW i \in DOMAIN written[v], Newest(v, i),
             v = w => SequenceOf(i) # SequenceOf(n)
      PROVE  Newest(v, i)'
  BY <1>1, <1>6, WriteNewest
<1>7. ASSUME NEW f \in net PROVE f.from \in Sources /\ f.n \in DOMAIN written[f.from] /\ Genuine(f, cut)
                                 /\ (f.from = w => SequenceOf(f.n) # SequenceOf(n))
  <2>1. KeyOf(f) # <<w, SequenceOf(n)>>
    BY <1>1 DEF InUse
  <2> QED BY <2>1 DEF Books, Frags, Faithful, KeyOf
<1>8. ASSUME NEW i \in DOMAIN asms PROVE asms[i].key # <<w, SequenceOf(n)>>
  BY <1>1 DEF InUse
<1>9. Newest(w, n)'
  BY <1>2, <1>4 DEF Newest
<1>10. ASSUME NEW f \in net' PROVE Genuine(f, e)'
  <2>1. CASE f \in net
    <3>1. Newest(f.from, f.n)'
      BY <1>6, <1>7, <2>1 DEF Genuine
    <3>2. written'[f.from][f.n] = written[f.from][f.n] /\ e[f.from][f.n] = cut[f.from][f.n]
      BY <1>4, <1>5, <1>7, <2>1
    <3> QED BY <1>7, <2>1, <3>1, <3>2 DEF Genuine
  <2>2. CASE f \notin net
    <3>1. f \in Fragments(w, n, m, c) /\ c \in Nat \ {0} /\ d = c
      BY <1>1, <1>3, <2>2 DEF Sendable
    <3>2. /\ f.from = w /\ f.n = n /\ f.total = Len(m)
          /\ f.id < Pieces(m, c) /\ f.payload = Piece(m, c, f.id)
      <4>1. PieceOf(f, w, n, m, c)
        BY <1>2, <1>3, <3>1, FragmentsAre
      <4> QED BY <4>1 DEF PieceOf
    <3> QED BY <1>4, <1>5, <1>9, <3>1, <3>2 DEF Genuine
  <2> QED BY <2>1, <2>2
<1>11. ASSUME NEW i \in DOMAIN asms'
       PROVE  \E v \in Sources : \E j \in DOMAIN written'[v] : CutFrom(asms[i], v, j, e)'
  <2>1. i \in DOMAIN asms /\ asms' = asms
    BY <1>1
  <2>2. PICK v \in Sources : \E j \in DOMAIN written[v] : CutFrom(asms[i], v, j, cut)
    BY <2>1 DEF Faithful
  <2>3. PICK j \in DOMAIN written[v] : CutFrom(asms[i], v, j, cut)
    BY <2>2
  <2>4. Newest(v, j)'
    BY <1>6, <1>8, <2>1, <2>3 DEF CutFrom
  <2>5. j \in DOMAIN written'[v] /\ written'[v][j] = written[v][j] /\ e[v][j] = cut[v][j]
    BY <1>4, <1>5
  <2>6. CutFrom(asms[i], v, j, e)'
    BY <2>1, <2>3, <2>4, <2>5 DEF CutFrom, PartOf
  <2> QED BY <2>5, <2>6
<1>12. ASSUME NEW v \in Sources, NEW i \in DOMAIN written'[v] PROVE Accounted(v, i, e)'
  <2>1. CASE i \in DOMAIN written[v]
    <3>1. written'[v][i] = written[v][i] /\ e[v][i] = cut[v][i] /\ spoiled \subseteq spoiled' /\ received' = received
          /\ net \subseteq net' /\ asms' = asms
      BY <1>1, <1>4, <1>5, <2>1
    <3>2. CASE Newest(v, i) /\ \A p \in 0 .. Pieces(written[v][i], cut[v][i]) - 1 : Somewhere(v, i, p)
      <4>1. 0 \in 0 .. Pieces(written[v][i], cut[v][i]) - 1
        <5>1. written[v][i] \in Seq(Bytes) /\ cut[v][i] \in Nat \ {0}
          BY <2>1, MessageIs
        <5>2. Pieces(written[v][i], cut[v][i]) \in Nat \ {0}
          BY <5>1, PiecesType
        <5> QED BY <5>2
      <4>2. Somewhere(v, i, 0)
        BY <3>2, <4>1
      <4>3. v = w => SequenceOf(i) # SequenceOf(n)
        BY <1>7, <1>8, <4>2 DEF Somewhere
      <4>4. Newest(v, i)'
        BY <1>6, <2>1, <3>2, <4>3
      <4>5. \A p \in 0 .. Pieces(written[v][i], cut[v][i]) - 1 : Somewhere(v, i, p)'
        BY <3>1, <3>2 DEF Somewhere
      <4> QED BY <3>1, <4>4, <4>5 DEF Accounted
    <3>3. CASE ~(Newest(v, i) /\ \A p \in 0 .. Pieces(written[v][i], cut[v][i]) - 1 : Somewhere(v, i, p))
      <4>1. Accounted(v, i, cut)
        BY <2>1 DEF Faithful
      <4>2. \/ <<v, i>> \in spoiled
            \/ Len(written[v][i]) > MaxBytes
            \/ [from |-> v, n |-> i, data |-> written[v][i]] \in received
        BY <3>3, <4>1 DEF Accounted
      <4> QED BY <3>1, <4>2 DEF Accounted
    <3> QED BY <3>2, <3>3
  <2>2. CASE v = w /\ i = n
    <3>1. CASE net' = net \cup Fragments(w, n, m, c) /\ Sendable(m, c)
      <4>1. c \in Nat \ {0} /\ d = c
        BY <1>3, <3>1 DEF Sendable
      <4>2. \A p \in 0 .. Pieces(m, c) - 1 : \E g \in net' : g.from = w /\ g.n = n /\ g.id = p
        <5>1. AllIn(Fragments(w, n, m, c), w, n, Pieces(m, c))
          BY <1>2, <1>3, <4>1, FragmentsAre
        <5> QED BY <3>1, <5>1 DEF AllIn
      <4>3. \A p \in 0 .. Pieces(m, c) - 1 : Somewhere(w, n, p)'
        BY <4>2 DEF Somewhere
      <4> QED BY <1>4, <1>5, <1>9, <2>2, <4>1, <4>3 DEF Accounted
    <3>2. CASE spoiled' = spoiled \cup {<<w, n>>}
      BY <2>2, <3>2 DEF Accounted
    <3> QED BY <1>1, <3>1, <3>2
  <2> QED BY <1>4, <2>1, <2>2
<1>13. ASSUME NEW g \in received' PROVE g.data = written'[g.from][g.n]
  <2>1. g \in received /\ g.from \in Sources /\ g.n \in DOMAIN written[g.from] /\ g.data = written[g.from][g.n]
    BY <1>1 DEF Books, Faithful
  <2> QED BY <1>4, <2>1
<1>14. Faithful(e)'
  BY <1>10, <1>11, <1>12, <1>13 DEF Faithful
<1> QED BY <1>5, <1>14

(* A lost fragment spoils its own message only.                            *)
LEMMA LoseKeeps ==
  ASSUME Books, NEW f \in net, Lose(f), NEW cut \in Cuts
  PROVE  Books' /\ (Faithful(cut) => Faithful(cut)')
<1>1. /\ net' = net \ {f} /\ spoiled' = spoiled \cup {<<f.from, f.n>>}
      /\ UNCHANGED <<written, asms, asmBytes, received, reused>>
  BY DEF Lose
<1>2. Books'
  <2>1. Orderly(asms') /\ (\A i \in DOMAIN asms' : Unfinished(asms'[i])) /\ Budget'
    BY <1>1 DEF Books, Budget, Stock, BytesOf
  <2>2. /\ written' \in [Sources -> Seq(Payloads)]
        /\ net' \subseteq Frags /\ \A g \in net' : g.n \in DOMAIN written'[g.from]
        /\ \A g \in received' : g.from \in Sources /\ g.n \in DOMAIN written'[g.from]
    BY <1>1 DEF Books
  <2> QED BY <2>1, <2>2 DEF Books, Orderly, Distinct, Sized, Unfinished, Complete, Stock, BytesOf
<1>3. ASSUME Faithful(cut) PROVE Faithful(cut)'
  <2>1. \A g \in net' : Genuine(g, cut)'
    BY <1>1, <1>3 DEF Faithful, Genuine, Newest
  <2>2. \A i \in DOMAIN asms' : \E w \in Sources : \E n \in DOMAIN written'[w] : CutFrom(asms[i], w, n, cut)'
    BY <1>1, <1>3 DEF Faithful, CutFrom, Newest, PartOf
  <2>3. ASSUME NEW w \in Sources, NEW n \in DOMAIN written'[w] PROVE Accounted(w, n, cut)'
    <3>1. Accounted(w, n, cut)
      BY <1>1, <1>3 DEF Faithful
    <3>2. CASE w = f.from /\ n = f.n
      BY <1>1, <3>2 DEF Accounted
    <3>3. CASE ~(w = f.from /\ n = f.n)
      <4>1. \A p : Somewhere(w, n, p) => Somewhere(w, n, p)'
        BY <1>1, <3>3 DEF Somewhere
      <4> QED BY <1>1, <3>1, <4>1 DEF Accounted, Newest
    <3> QED BY <3>2, <3>3
  <2>4. \A g \in received' : g.data = written'[g.from][g.n]
    BY <1>1, <1>3 DEF Faithful
  <2> QED BY <2>1, <2>2, <2>3, <2>4 DEF Faithful
<1> QED BY <1>2, <1>3

-----------------------------------------------------------------------------
(* MtpReassembly: the theorem *)

LEMMA MtpStart ==
  ASSUME MtpAssumptions, MtpInit
  PROVE  MtpInv
<1>1. /\ written = [w \in Sources |-> <<>>] /\ net = {} /\ asms = <<>> /\ asmBytes = 0
      /\ received = {}
  BY DEF MtpInit
<1>2. DOMAIN asms = {} /\ asms \in Seq(Assemblies)
  BY <1>1
<1>3. Stock(asms) = {}
  BY <1>2, StockIs
<1>4. Orderly(asms) /\ Budget
  BY <1>1, <1>2, <1>3, FS_EmptySet DEF Orderly, Distinct, Budget, MtpAssumptions
<1>5. written \in [Sources -> Seq(Payloads)] /\ \A w \in Sources : DOMAIN written[w] = {}
  BY <1>1
<1>6. Books
  BY <1>1, <1>2, <1>4, <1>5 DEF Books
<1>7. [w \in Sources |-> [n \in Nat |-> 1]] \in Cuts
  BY DEF Cuts
<1>8. \A cut \in Cuts : Faithful(cut)
  BY <1>1, <1>2, <1>5 DEF Faithful
<1> QED BY <1>6, <1>7, <1>8 DEF MtpInv

LEMMA MtpStep ==
  ASSUME MtpAssumptions, MtpInv, [MtpNext]_mtpVars
  PROVE  MtpInv'
<1>1. Books /\ (~reused => \E cut \in Cuts : Faithful(cut))
  BY DEF MtpInv
<1>2. ASSUME NEW w \in Sources, NEW m \in Payloads, NEW c \in Capacity[w], WriteMessage(w, m, c)
      PROVE  MtpInv'
  <2>1. Books'
    BY <1>1, <1>2, WriteBooks
  <2>2. ASSUME ~reused' PROVE \E cut \in Cuts : Faithful(cut)'
    <3>1. ~reused
      BY <1>2, <2>2 DEF WriteMessage
    <3>2. PICK cut \in Cuts : Faithful(cut)
      BY <1>1, <3>1
    <3> QED BY <1>1, <1>2, <2>2, <3>2, WriteFaithful
  <2> QED BY <2>1, <2>2 DEF MtpInv
<1>3. ASSUME NEW f \in net, NEW k \in 0 .. Len(asms), NEW again \in BOOLEAN, Accept(f, k, again)
      PROVE  MtpInv'
  <2>1. Due(f, k) /\ reused' = reused
    BY <1>1, <1>3, AcceptDoes DEF Due
  <2>2. Books'
    BY <1>3, <2>1, AcceptBooks
  <2>3. ASSUME ~reused' PROVE \E cut \in Cuts : Faithful(cut)'
    <3>1. PICK cut \in Cuts : Faithful(cut)
      BY <1>1, <2>1, <2>3
    <3> QED BY <1>3, <2>1, <3>1, AcceptFaithful
  <2> QED BY <2>2, <2>3 DEF MtpInv
<1>4. ASSUME NEW f \in net, Lose(f)
      PROVE  MtpInv'
  <2>1. Books'
    <3>1. \E cut : cut \in Cuts
      <4>1. [w \in Sources |-> [n \in Nat |-> 1]] \in Cuts
        BY DEF Cuts
      <4> QED BY <4>1
    <3> QED BY <1>1, <1>4, <3>1, LoseKeeps
  <2>2. ASSUME ~reused' PROVE \E cut \in Cuts : Faithful(cut)'
    <3>1. ~reused
      BY <1>4, <2>2 DEF Lose
    <3>2. PICK cut \in Cuts : Faithful(cut)
      BY <1>1, <3>1
    <3> QED BY <1>1, <1>4, <3>2, LoseKeeps
  <2> QED BY <2>1, <2>2 DEF MtpInv
<1>5. CASE UNCHANGED mtpVars
  <2>1. Books'
    <3>1. UNCHANGED <<written, net, asms, asmBytes, received>>
      BY <1>5 DEF mtpVars
    <3>2. Orderly(asms') /\ (\A i \in DOMAIN asms' : Unfinished(asms'[i])) /\ Budget'
      BY <1>1, <3>1 DEF Books, Budget, Stock, BytesOf
    <3>3. /\ written' \in [Sources -> Seq(Payloads)]
          /\ net' \subseteq Frags /\ \A g \in net' : g.n \in DOMAIN written'[g.from]
          /\ \A g \in received' : g.from \in Sources /\ g.n \in DOMAIN written'[g.from]
      BY <1>1, <3>1 DEF Books
    <3> QED BY <3>2, <3>3 DEF Books, Orderly, Distinct, Sized, Unfinished, Complete, Stock, BytesOf
  <2>2. ASSUME ~reused' PROVE \E cut \in Cuts : Faithful(cut)'
    <3>1. ~reused
      BY <1>5, <2>2 DEF mtpVars
    <3>2. PICK cut \in Cuts : Faithful(cut)
      BY <1>1, <3>1
    <3>3. Faithful(cut)'
      BY <1>5, <3>2 DEF mtpVars, Faithful, Genuine, Newest, CutFrom, PartOf, Accounted, Somewhere
    <3> QED BY <3>3
  <2> QED BY <2>1, <2>2 DEF MtpInv
<1> QED BY <1>2, <1>3, <1>4, <1>5 DEF MtpNext

(* With nothing on the way, all pieces of a message are in one assembly,   *)
(* and it is not complete only if the message was spoiled or too large.    *)
LEMMA MtpEnd ==
  ASSUME MtpAssumptions, MtpInv
  PROVE  Reassembles
<1>1. Books /\ (~reused => \E cut \in Cuts : Faithful(cut))
  BY DEF MtpInv
<1>2. Budget
  BY <1>1 DEF Books
<1>3. Integrity
  BY <1>1 DEF Integrity, Faithful
<1>4. Arrives
  <2> SUFFICES ASSUME net = {}, ~reused, NEW w \in Sources, NEW n \in DOMAIN written[w]
               PROVE  \/ <<w, n>> \in spoiled
                      \/ Len(written[w][n]) > MaxBytes
                      \/ [from |-> w, n |-> n, data |-> written[w][n]] \in received
    BY DEF Arrives
  <2>1. PICK cut \in Cuts : Faithful(cut)
    BY <1>1
  <2> DEFINE m == written[w][n]
             c == cut[w][n]
             q == Pieces(m, c)
  <2>2. SUFFICES ASSUME Newest(w, n), \A p \in 0 .. q - 1 : Somewhere(w, n, p) PROVE FALSE
    BY <2>1 DEF Faithful, Accounted
  <2>3. m \in Seq(Bytes) /\ c \in Nat \ {0}
    BY <1>1, MessageIs
  <2>4. q \in Nat \ {0}
    <3> HIDE DEF m, c
    <3> QED BY <2>3, PiecesType
  <2>5. \A p \in 0 .. q - 1 : \E i \in DOMAIN asms : asms[i].key = <<w, SequenceOf(n)>> /\ p \in DOMAIN asms[i].parts
    BY <2>2 DEF Somewhere
  <2>6. PICK i \in DOMAIN asms : asms[i].key = <<w, SequenceOf(n)>>
    <3>1. 0 \in 0 .. q - 1
      BY <2>4
    <3> QED BY <2>5, <3>1
  <2>7. Distinct(asms) /\ Unfinished(asms[i]) /\ Sized(asms[i])
    BY <1>1, <2>6 DEF Books, Orderly
  <2>8. 0 .. q - 1 \subseteq DOMAIN asms[i].parts
    BY <2>5, <2>6, <2>7 DEF Distinct
  <2>9. PartOf(asms[i], m, c)
    <3>1. PICK v \in Sources : \E l \in DOMAIN written[v] : CutFrom(asms[i], v, l, cut)
      BY <2>1, <2>6 DEF Faithful
    <3>2. PICK l \in DOMAIN written[v] : CutFrom(asms[i], v, l, cut)
      BY <3>1
    <3>3. v = w /\ SequenceOf(l) = SequenceOf(n) /\ Newest(w, l) /\ PartOf(asms[i], written[v][l], cut[v][l])
      BY <2>6, <3>2 DEF CutFrom
    <3>4. l = n
      BY <1>1, <2>2, <3>2, <3>3, NewestOne DEF Books
    <3> QED BY <3>3, <3>4
  <2> HIDE DEF m, c
  <2>10. DOMAIN asms[i].parts = 0 .. Pieces(m, c) - 1
    BY <2>8, <2>9 DEF PartOf
  <2>11. Complete(asms[i])
    BY <2>3, <2>7, <2>9, <2>10, CompleteIs DEF Unfinished, Sized
  <2> QED BY <2>7, <2>11 DEF Unfinished
<1> QED BY <1>2, <1>3, <1>4 DEF Reassembles

(* However fragments are lost, duplicated and reordered, and however long  *)
(* they wait, messages come out as they went in, those that lost nothing   *)
(* come out, and what is stored is counted and within the budget           *)
(* (node_rmtp.cpp, accept_fragment and reserve4Memory).                    *)
THEOREM MessagesReassembled ==
  ASSUME MtpAssumptions
  PROVE  MtpSpec => []Reassembles
<1>1. MtpInit => MtpInv
  BY MtpStart
<1>2. MtpInv /\ [MtpNext]_mtpVars => MtpInv'
  BY MtpStep
<1>3. MtpInv => Reassembles
  BY MtpEnd
<1> QED BY <1>1, <1>2, <1>3, PTL DEF MtpSpec

=============================================================================
