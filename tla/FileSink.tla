------------------------------ MODULE FileSink ------------------------------
(***************************************************************************)
(* rm::FileSink::Impl: the log is kept in files <name>_<index>.log of      *)
(* bounded size; a full file is rotated out and the oldest one removed,    *)
(* and <name>_index remembers the index across restarts.  Every action is  *)
(* one operation on the file system.  A byte of the log is its number      *)
(* among all bytes handed to the stream Impl::file.                        *)
(*                                                                         *)
(* The stream, of the standard library, keeps bytes back: what it took     *)
(* with success may fail to be written later, in another call.  It keeps   *)
(* what a failed call was to write, and close() tries it once more.        *)
(***************************************************************************)
EXTENDS Integers, Sequences, FiniteSets

CONSTANTS
  MaxFileSize, (* max_file_size, at least 1                                *)
  MaxFiles,    (* max_files, at least 1                                    *)
  Sizes,       (* the sizes of the records                                 *)
  Failing,     (* what may fail: a subset of {"index", "open", "write"}    *)
  CanCrash,    (* the process may crash                                    *)
  MaxBytes,    (* bound on the bytes written                               *)
  MaxStarts    (* bound on the starts of the process                       *)

(* What is assumed of the constants. *)
SinkAssumptions ==
  /\ MaxFileSize \in Nat \ {0} /\ MaxFiles \in Nat \ {0}
  /\ Sizes \subseteq Nat \ {0}
  /\ Failing \subseteq {"index", "open", "write"}
  /\ CanCrash \in BOOLEAN /\ MaxBytes \in Nat /\ MaxStarts \in Nat

VARIABLES
  disk,    (* disk[i] : the bytes in file i, for the files that exist      *)
  saved,   (* what the index file says, NoIndex if it is absent or empty   *)
  index,   (* Impl::index                                                  *)
  size,    (* Impl::file_size                                              *)
  healthy, (* Impl::healthy                                                *)
  good,    (* the state of the stream Impl::file                           *)
  buffer,  (* the bytes that the stream has taken and not written          *)
  spc,     (* what the process does next                                   *)
  left,    (* the bytes of the record still to write                       *)
  sent,    (* history : the bytes handed to the stream                     *)
  starts,  (* history : the starts of the process                          *)
  damage   (* history : the kinds of fault so far                          *)

(* "index": the index file could not be written; "failed": write() or       *)
(* flush() has failed and returned false; "lost": a close() has failed, and *)
(* nobody was told; "crash", "torn" and "again": see SinkCrash, CloseSink. *)
Faults == {"index", "failed", "lost", "again", "crash", "torn"}

files == <<disk, saved>>
sinkVars == <<files, index, size, healthy, good, buffer, spc, left, sent, starts, damage>>

NoIndex == -1

Bytes(i) == IF i \in DOMAIN disk THEN disk[i] ELSE <<>>

Put(i, bytes) == [j \in DOMAIN disk \cup {i} |-> IF j = i THEN bytes ELSE disk[j]]

Smaller(a, b) == IF a < b THEN a ELSE b

SinkInit ==
  /\ disk = <<>> /\ saved = NoIndex
  /\ index = 0 /\ size = 0 /\ healthy = FALSE /\ good = FALSE /\ buffer = <<>>
  /\ spc = "down" /\ left = 0 /\ sent = 0 /\ starts = 0
  /\ damage = {}

-----------------------------------------------------------------------------
(* The constructor *)

(* Faulty variant: does not read the index. *)
StartAnew ==
  /\ spc = "down"
  /\ starts < MaxStarts
  /\ starts' = starts + 1
  /\ index' = 0
  /\ saved' = NoIndex /\ spc' = "save" /\ healthy' = TRUE
  /\ UNCHANGED <<disk, size, good, buffer, left, sent, damage>>

(* Read the index; opening the index file for writing empties it.          *)
Start ==
  /\ spc = "down"
  /\ starts < MaxStarts
  /\ starts' = starts + 1
  /\ index' = IF saved = NoIndex THEN 0 ELSE saved
  /\ \/ saved' = NoIndex /\ spc' = "save" /\ healthy' = TRUE /\ UNCHANGED damage
     \/ "index" \in Failing /\ spc' = "open" /\ healthy' = FALSE
        /\ damage' = damage \cup {"index"} /\ UNCHANGED saved
  /\ UNCHANGED <<disk, size, good, buffer, left, sent>>

(* The index reaches the index file when this is closed, or does not.      *)
SaveIndex ==
  /\ spc \in {"save", "rotate save"}
  /\ \/ saved' = index /\ UNCHANGED <<healthy, damage>>
     \/ "index" \in Failing /\ healthy' = FALSE /\ damage' = damage \cup {"index"} /\ UNCHANGED saved
  /\ spc' = IF spc = "save" THEN "open" ELSE "expire"
  /\ UNCHANGED <<disk, index, size, good, buffer, left, sent, starts>>

(* openFile(): append to file `index`; its size is where writing resumes.  *)
(* After a rotation that did not succeed, write() returns false.           *)
OpenFile ==
  /\ spc \in {"open", "reopen"}
  /\ \/ /\ disk' = Put(index, Bytes(index))
        /\ size' = Len(Bytes(index))
        /\ good' = TRUE
        /\ UNCHANGED healthy
     \/ /\ "open" \in Failing
        /\ size' = 0
        /\ good' = FALSE
        /\ healthy' = FALSE
        /\ UNCHANGED disk
  /\ IF spc = "reopen" /\ healthy' THEN spc' = "write" /\ UNCHANGED left
                                  ELSE spc' = "idle" /\ left' = 0
  /\ UNCHANGED <<saved, index, buffer, sent, starts, damage>>

-----------------------------------------------------------------------------
(* The stream *)

(* The first n of these bytes come to be in the file. *)
Written(bytes, n) ==
  disk' = IF n = 0 THEN disk ELSE Put(index, Bytes(index) \o SubSeq(bytes, 1, n))

(* close(): what is left is written, or less of it, and the rest is gone.  *)
Closed(faults) ==
  /\ \/ Written(buffer, Len(buffer)) /\ damage' = damage \cup faults
     \/ /\ "write" \in Failing
        /\ \E n \in 0 .. Len(buffer) - 1 : Written(buffer, n)
        /\ damage' = damage \cup faults \cup {"lost"}
  /\ buffer' = <<>> /\ good' = FALSE

-----------------------------------------------------------------------------
(* write(record): refused unless healthy and the stream is good *)

Write(n) ==
  /\ spc = "idle"
  /\ healthy /\ good
  /\ sent + n <= MaxBytes
  /\ left' = n
  /\ spc' = "write"
  /\ UNCHANGED <<files, index, size, healthy, good, buffer, sent, starts, damage>>

(* As much of the record as fits into the file is handed to the stream,    *)
(* which writes as much as it likes of what it has; or that fails.         *)
WriteChunk ==
  /\ spc = "write"
  /\ left > 0 /\ size < MaxFileSize
  /\ LET count == Smaller(MaxFileSize - size, left)
         bytes == buffer \o [k \in 1 .. count |-> sent + k] IN
       /\ size' = size + count
       /\ sent' = sent + count
       /\ \/ /\ \E n \in 0 .. Len(bytes) :
                  Written(bytes, n) /\ buffer' = SubSeq(bytes, n + 1, Len(bytes))
             /\ left' = left - count
             /\ UNCHANGED <<good, spc, damage>>
          \/ /\ "write" \in Failing
             /\ \E n \in 0 .. Len(bytes) - 1 : Written(bytes, n)
             /\ \E n \in Len(buffer) .. Len(bytes) : buffer' = SubSeq(bytes, 1, n)
             /\ left' = 0 /\ good' = FALSE /\ spc' = "idle"
             /\ damage' = damage \cup {"failed"}
  /\ UNCHANGED <<saved, index, healthy, starts>>

WriteReturns ==
  /\ spc = "write"
  /\ left = 0
  /\ spc' = "idle"
  /\ UNCHANGED <<files, index, size, healthy, good, buffer, left, sent, starts, damage>>

(* rotate(): close the file, whatever comes of it (openFile() clears the   *)
(* stream's state), count up, empty the index file ...                     *)
Rotate ==
  /\ spc = "write"
  /\ left > 0 /\ size >= MaxFileSize
  /\ index' = index + 1
  /\ \/ saved' = NoIndex /\ spc' = "rotate save" /\ Closed({}) /\ UNCHANGED healthy
     \/ /\ "index" \in Failing
        /\ spc' = "expire" /\ healthy' = FALSE /\ Closed({"index"}) /\ UNCHANGED saved
  /\ UNCHANGED <<size, left, sent, starts>>

(* Faulty variant: keeps one file more. *)
ExpireLate ==
  /\ spc = "expire"
  /\ disk' = IF index > MaxFiles
             THEN [i \in DOMAIN disk \ {index - MaxFiles - 1} |-> disk[i]] ELSE disk
  /\ size' = 0
  /\ spc' = "reopen"
  /\ UNCHANGED <<saved, index, healthy, good, buffer, left, sent, starts, damage>>

(* ... and remove the file that is now too old. *)
Expire ==
  /\ spc = "expire"
  /\ disk' = IF index >= MaxFiles
             THEN [i \in DOMAIN disk \ {index - MaxFiles} |-> disk[i]] ELSE disk
  /\ size' = 0
  /\ spc' = "reopen"
  /\ UNCHANGED <<saved, index, healthy, good, buffer, left, sent, starts, damage>>

(* flush(): a stream that has failed does nothing.                         *)
Flush ==
  /\ spc = "idle" /\ good
  /\ \/ /\ Written(buffer, Len(buffer)) /\ buffer' = <<>>
        /\ UNCHANGED <<good, damage>>
     \/ /\ "write" \in Failing
        /\ \E n \in 0 .. Len(buffer) - 1 : Written(buffer, n)
        /\ good' = FALSE /\ damage' = damage \cup {"failed"}
        /\ UNCHANGED buffer
  /\ UNCHANGED <<saved, index, size, healthy, spc, left, sent, starts>>

(* The sink is destroyed: its stream is closed.  "again" if the stream had *)
(* failed: what it kept is written a second time, or something is missing. *)
CloseSink ==
  /\ spc = "idle"
  /\ Closed(IF healthy /\ ~good THEN {"again"} ELSE {})
  /\ spc' = "down" /\ healthy' = FALSE /\ size' = 0
  /\ UNCHANGED <<saved, index, left, sent, starts>>

(* The process crashes: what the stream still kept is lost.  "torn" if the *)
(* index file and the files disagree at that moment.                       *)
SinkCrash ==
  /\ CanCrash
  /\ spc # "down"
  /\ spc' = "down" /\ healthy' = FALSE /\ good' = FALSE /\ size' = 0 /\ buffer' = <<>> /\ left' = 0
  /\ UNCHANGED <<files, index, sent, starts>>
  /\ damage' = damage \cup {IF spc \in {"save", "rotate save", "expire"} THEN "torn" ELSE "crash"}

SinkNext ==
  \/ Start \/ SaveIndex \/ OpenFile
  \/ (\E n \in Sizes : Write(n)) \/ WriteChunk \/ WriteReturns \/ Rotate \/ Expire
  \/ Flush \/ CloseSink \/ SinkCrash

SinkSpec == SinkInit /\ [][SinkNext]_sinkVars

-----------------------------------------------------------------------------
(* Properties *)

(* Every variable has a value of its type; no file ever exceeds the        *)
(* number of bytes written in all.                                         *)
SinkTypeOK ==
  /\ DOMAIN disk \subseteq Nat
  /\ \A i \in DOMAIN disk : disk[i] \in Seq(1 .. MaxBytes)
  /\ saved \in Nat \cup {NoIndex} /\ index \in Nat /\ size \in Nat
  /\ healthy \in BOOLEAN /\ good \in BOOLEAN /\ damage \subseteq Faults
  /\ buffer \in Seq(1 .. MaxBytes) /\ left \in Nat /\ sent \in 0 .. MaxBytes
  /\ spc \in {"down", "save", "open", "idle", "write", "rotate save", "expire", "reopen"}

(* The bytes in the files, with the places where they are. *)
Places == {x \in (DOMAIN disk) \X (1 .. MaxFileSize) : x[2] <= Len(disk[x[1]])}

Before(x, y) == x[1] < y[1] \/ (x[1] = y[1] /\ x[2] < y[2])

(* The files hold the bytes in the order they were handed to the stream,   *)
(* each at most once.                                                      *)
Ascending ==
  \A x, y \in Places : Before(x, y) => disk[x[1]][x[2]] < disk[y[1]][y[2]]

(* And none between the first and the last is missing.                     *)
Seamless(last) ==
  \E first \in 1 .. last + 1 : {disk[x[1]][x[2]] : x \in Places} = first .. last

(* "max_files: the files kept at most; when exceeded, the oldest log file  *)
(* is removed" (logger.hpp:132).  A crash between emptying the index file   *)
(* and removing the oldest file ("torn") leaves one too many for good.     *)
(* Otherwise, and as long as the index can be saved, rotation and restart  *)
(* put no byte before an older one and none twice, whatever else fails and *)
(* whenever the process crashes; no file is longer than max_file_size.     *)
(* Not so once a stream that has failed is closed, which writes again what *)
(* it had kept.  No byte is missing, but for those at the end that the     *)
(* stream still keeps, or has failed to write with write() or flush()      *)
(* returning false; a crash loses what the stream keeps, and so does a     *)
(* close() that fails, in the middle of a write() that returns true        *)
(* (logger_impl.cpp:75-81, :102, :109-112, :126, :137-149).                *)
Retention ==
  /\ damage \cap {"index", "torn"} = {} => Cardinality(DOMAIN disk) <= MaxFiles
  /\ "again" \notin damage => \A i \in DOMAIN disk : Len(disk[i]) <= MaxFileSize
  /\ damage \cap {"index", "torn", "again"} = {} => Ascending
  /\ damage \subseteq {"failed"} =>
       \E last \in 0 .. sent :
         Seamless(last) /\ (damage = {} => last = sent - Len(buffer))

=============================================================================
