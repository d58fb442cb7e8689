---------------------------- MODULE MtpReassembly ----------------------------
(***************************************************************************)
(* RMTP over UDP: the writers of one topic cut each message into fragments *)
(* that fit the MTU, the network loses, duplicates and reorders them, and  *)
(* one reader puts them together again.  A message is a sequence of bytes; *)
(* header fields that are the same in every fragment of the topic are left *)
(* out.                                                                    *)
(*                                                                         *)
(* The fragments of a message enter the network together: it may delay and *)
(* reorder them as it likes.  n, the number of the message, is not on the  *)
(* wire; the reader only sees the sequence number.                         *)
(***************************************************************************)
EXTENDS Integers, Sequences, FiniteSets, SequencesExt

CONSTANTS
  Sources,
  Payloads,     (* the messages written, sequences of bytes                *)
  Capacity,     (* the bytes a datagram of each writer can carry, by MTU   *)
  MaxFragments, (* fragment numbers of a message (65536)                   *)
  SequenceCount, (* sequence numbers (65536)                               *)
  MaxBytes,     (* MTP_REASSEMBLY_MAX_BYTES                                *)
  MaxSent,      (* bound on the messages of a writer                       *)
  MaxFaults     (* bound on the fragments lost or duplicated, assemblies   *)
                (* that get too old and sequence numbers that come round   *)
                (* while a fragment of their last use is still about       *)

Bytes == UNION {ToSet(m) : m \in Payloads}

(* What is assumed of the constants. *)
MtpAssumptions ==
  /\ Payloads \subseteq Seq(Bytes)
  /\ Capacity \in [Sources -> SUBSET Nat]
  /\ MaxFragments \in Nat \ {0} /\ SequenceCount \in Nat \ {0} /\ MaxBytes \in Nat
  /\ MaxSent \in Nat /\ MaxFaults \in Nat

VARIABLES
  written,  (* the messages of each writer so far; their number gives      *)
            (* _sequence                                                   *)
  net,      (* the fragments on the way                                    *)
  asms,     (* _asms, the one updated longest ago first                    *)
  asmBytes, (* _asm_bytes                                                  *)
  received, (* history : the messages read() has returned                  *)
  spoiled,  (* history : the messages that lost a fragment or expired      *)
  reused,   (* history : has a number come round too early?                *)
  faults    (* how often the network or the time has interfered            *)

mtpVars == <<written, net, asms, asmBytes, received, spoiled, reused, faults>>

MtpInit ==
  /\ written = [w \in Sources |-> <<>>]
  /\ net = {} /\ asms = <<>> /\ asmBytes = 0
  /\ received = {} /\ spoiled = {}
  /\ reused = FALSE /\ faults = 0

(* The network, the time or the number of messages interferes k times. *)
Interfere(k) == faults + k <= MaxFaults /\ faults' = faults + k

-----------------------------------------------------------------------------
(* DataWriterBase::write, sendMTPMessage *)

Pieces(m, c) == IF m = <<>> THEN 1 ELSE 1 + (Len(m) - 1) \div c

(* Piece i of m, the first is piece 0. *)
Piece(m, c, i) == SubSeq(m, i * c + 1, IF (i + 1) * c < Len(m) THEN (i + 1) * c ELSE Len(m))

Sendable(m, c) == c > 0 /\ Pieces(m, c) <= MaxFragments

SequenceOf(n) == (n - 1) % SequenceCount

Fragments(w, n, m, c) ==
  {[from |-> w, n |-> n, id |-> i, total |-> Len(m), payload |-> Piece(m, c, i)] :
     i \in 0 .. Pieces(m, c) - 1}

KeyOf(f) == <<f.from, SequenceOf(f.n)>>

InUse(key) ==
  \/ \E f \in net : KeyOf(f) = key
  \/ \E i \in DOMAIN asms : asms[i].key = key

WriteMessage(w, m, c) ==
  /\ Len(written[w]) < MaxSent
  /\ LET n == Len(written[w]) + 1 IN
       /\ LET early == InUse(<<w, SequenceOf(n)>>) IN
            Interfere(IF early THEN 1 ELSE 0) /\ reused' = (reused \/ early)
       /\ written' = [written EXCEPT ![w] = Append(@, m)]
       /\ IF Sendable(m, c)
          THEN net' = net \cup Fragments(w, n, m, c) /\ UNCHANGED spoiled
          ELSE spoiled' = spoiled \cup {<<w, n>>} /\ UNCHANGED net
  /\ UNCHANGED <<asms, asmBytes, received>>

-----------------------------------------------------------------------------
(* accept_fragment *)

(* What is really stored, byte by byte. *)
BytesOf(a) == UNION {{a.key} \X {p} \X (1 .. Len(a.parts[p])) : p \in DOMAIN a.parts}

Stock(s) == UNION {BytesOf(s[i]) : i \in DOMAIN s}

(* The assembly of a fragment, if there is one, and the other assemblies. *)
Mine(s, f) == {i \in DOMAIN s : s[i].key = KeyOf(f)}

Place(s, f) == CHOOSE i \in Mine(s, f) : TRUE

NewAssembly(f) == [key |-> KeyOf(f), total |-> f.total, parts |-> <<>>, bytes |-> 0]
Assembly(s, f) == IF Mine(s, f) = {} THEN NewAssembly(f) ELSE s[Place(s, f)]

Rest(s, f) == IF Mine(s, f) = {} THEN s ELSE RemoveAt(s, Place(s, f))

(* All but the first k assemblies, and what is left of b bytes then. *)
Later(s, k) == SubSeq(s, k + 1, Len(s))

BytesLeft(s, b) ==
  LET left[k \in 0 .. Len(s)] == IF k = 0 THEN b ELSE left[k - 1] - s[k].bytes IN left

(* How many assemblies have to go, the oldest first, until b bytes are     *)
(* within the budget, or none is left.  reserve4Memory fails when that is  *)
(* not enough; it always is, for an assembly has at most the bytes of its  *)
(* message, and that is not larger than the budget.                        *)
Evicted(s, b) ==
  LET left == BytesLeft(s, b) IN
  CHOOSE k \in 0 .. Len(s) :
    (left[k] <= MaxBytes \/ k = Len(s)) /\ \A j \in 0 .. k - 1 : left[j] > MaxBytes

(* Faulty variant: a message cannot be filled to the last byte.            *)
ConflictAtEnd(a, f) ==
  \/ a.total # f.total
  \/ IF f.id \in DOMAIN a.parts THEN a.parts[f.id] # f.payload
     ELSE a.bytes + Len(f.payload) >= a.total

(* The fragment contradicts what is stored: the assembly is given up.      *)
Conflict(a, f) ==
  \/ a.total # f.total
  \/ IF f.id \in DOMAIN a.parts THEN a.parts[f.id] # f.payload
     ELSE a.bytes + Len(f.payload) > a.total

Filled(a, f) ==
  IF f.id \in DOMAIN a.parts THEN a
  ELSE [a EXCEPT !.parts = [i \in DOMAIN a.parts \cup {f.id} |->
                              IF i = f.id THEN f.payload ELSE a.parts[i]],
                 !.bytes = @ + Len(f.payload)]

Complete(a) ==
  /\ DOMAIN a.parts = 0 .. Cardinality(DOMAIN a.parts) - 1
  /\ a.bytes = a.total

(* Faulty variant: the parts in the reverse order. *)
JoinedBack(a) == FlattenSeq(Reverse([i \in 1 .. Cardinality(DOMAIN a.parts) |-> a.parts[i - 1]]))

Joined(a) == FlattenSeq([i \in 1 .. Cardinality(DOMAIN a.parts) |-> a.parts[i - 1]])

(* The last message that had the sequence number of the key. *)
LastUse(key) ==
  LET w == key[1]
      uses == {n \in DOMAIN written[w] : SequenceOf(n) = key[2]}
  IN  <<w, CHOOSE n \in uses : \A m \in uses : m <= n>>

(* The reader is given fragment f, after the first k assemblies have got   *)
(* too old.  The network may deliver it again.                             *)
Accept(f, k, again) ==
  LET live == Later(asms, k)
      bytes == BytesLeft(asms, asmBytes)[k]
      old == Assembly(live, f)
      rest == Rest(live, f)
      new == Filled(old, f)
      good == f.total <= MaxBytes /\ ~Conflict(old, f)
      need == bytes + new.bytes - old.bytes
      out == IF good /\ f.id \notin DOMAIN old.parts THEN Evicted(rest, need) ELSE 0
  IN
  /\ Interfere(k + IF again THEN 1 ELSE 0)
  /\ net' = IF again THEN net ELSE net \ {f}
  /\ spoiled' = spoiled \cup {LastUse(asms[i].key) : i \in 1 .. k}
                        \cup IF Cardinality(Stock(live)) + new.bytes - old.bytes > MaxBytes
                             THEN {LastUse(rest[i].key) : i \in 1 .. out}
                             ELSE {}
  /\ \/ f.total > MaxBytes /\ asms' = live /\ asmBytes' = bytes /\ UNCHANGED received
     \/ /\ f.total <= MaxBytes /\ ~good
        /\ asms' = rest /\ asmBytes' = bytes - old.bytes /\ UNCHANGED received
     \/ /\ good /\ ~Complete(new)
        /\ asms' = Append(Later(rest, out), new) /\ asmBytes' = BytesLeft(rest, need)[out]
        /\ UNCHANGED received
     \/ /\ good /\ Complete(new)
        /\ asms' = Later(rest, out) /\ asmBytes' = BytesLeft(rest, need)[out] - new.bytes
        /\ received' = received \cup {[from |-> f.from, n |-> f.n, data |-> Joined(new)]}
  /\ UNCHANGED <<written, reused>>

-----------------------------------------------------------------------------
(* The network *)

Lose(f) ==
  /\ Interfere(1)
  /\ net' = net \ {f}
  /\ spoiled' = spoiled \cup {<<f.from, f.n>>}
  /\ UNCHANGED <<written, asms, asmBytes, received, reused>>

MtpNext ==
  \/ \E w \in Sources, m \in Payloads : \E c \in Capacity[w] : WriteMessage(w, m, c)
  \/ \E f \in net :
       \/ \E k \in 0 .. Len(asms), again \in BOOLEAN : Accept(f, k, again)
       \/ Lose(f)

MtpSpec == MtpInit /\ [][MtpNext]_mtpVars

-----------------------------------------------------------------------------
(* Properties *)

(* Everything has its type, there is one assembly of a key, and none that  *)
(* is empty: a fragment takes its assembly out and puts it back last.      *)
MtpTypeOK ==
  /\ written \in [Sources -> Seq(Payloads)]
  /\ \A f \in net : f.from \in Sources /\ f.n \in 1 .. Len(written[f.from])
                    /\ f.id \in 0 .. MaxFragments - 1
  /\ \A i \in DOMAIN asms :
       /\ asms[i].key \in Sources \X (0 .. SequenceCount - 1)
       /\ asms[i].parts # <<>>
       /\ \A j \in DOMAIN asms : asms[i].key = asms[j].key => i = j
  /\ \A g \in received : g.from \in Sources /\ g.data \in Seq(Bytes)

(* A message is delivered as it was written, though its fragments come in  *)
(* any order, twice, and between those of other messages, some never come  *)
(* and what is left of them is evicted or gets too old.  It takes that no  *)
(* sequence number came round too early.                                   *)
Integrity ==
  ~reused => \A g \in received : g.data = written[g.from][g.n]

(* A message arrives unless one of its fragments was lost, it waited too   *)
(* long for one, or the budget was really exhausted: no other message, no  *)
(* duplicate and no order of arrival costs a message, while no sequence    *)
(* number comes round too early.                                           *)
Arrives ==
  net = {} /\ ~reused =>
    \A w \in Sources : \A n \in DOMAIN written[w] :
      \/ <<w, n>> \in spoiled
      \/ Len(written[w][n]) > MaxBytes
      \/ [from |-> w, n |-> n, data |-> written[w][n]] \in received

(* _asm_bytes counts what is stored, and never exceeds the budget, not     *)
(* even with the fragment that comes last.                                 *)
Budget == asmBytes = Cardinality(Stock(asms)) /\ asmBytes <= MaxBytes

(* Messages come out of the fragments as they went in, they do come, and   *)
(* what waits for the rest of a message stays within the budget            *)
(* (node_rmtp.cpp:279, :296-351).                                          *)
Reassembles == Integrity /\ Arrives /\ Budget

=============================================================================
