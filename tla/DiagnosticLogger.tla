-------------------------- MODULE DiagnosticLogger --------------------------
(***************************************************************************)
(* The diagnostic logger: threads that write records, the bounded queue    *)
(* under mutex_, the thread that takes records from it and appends them to *)
(* the log file, and the rotation of the files.                            *)
(*                                                                         *)
(* Slot 0 is the log file, slot i its i-th rotated predecessor.  A file is *)
(* the sequence of what was appended to it, each piece a whole record or   *)
(* the torn beginning of one.  The file system may refuse any inspection,  *)
(* removal, renaming, opening or write.  Counters are atomics, updated in  *)
(* steps of their own where the code updates them outside the lock.        *)
(***************************************************************************)
EXTENDS Integers, Sequences, FiniteSets, Functions

CONSTANTS
  Writers,        \* threads that call write()
  Records,        \* what they write: [id, low, size]
  Capacity,       \* queue_capacity
  RecordBytes,    \* maximum_record_bytes
  RotationBytes,  \* rotation_bytes
  RotationFiles,  \* rotation_files
  DiskFailures,   \* bound: steps in which the file system refuses
  Absent          \* no such file

ASSUME LoggerAssumption ==
  /\ \A r \in Records : r.low \in BOOLEAN /\ r.size \in Nat \ {0}
  /\ Capacity \in Nat \ {0} /\ RecordBytes \in Nat \ {0}
  /\ RotationBytes \in Nat \ {0} /\ RotationFiles \in Nat \ {0}
  /\ DiskFailures \in Nat
  /\ Absent \notin Seq([record: Records, size: Nat, whole: BOOLEAN])

VARIABLES
  path_given,          \* whether config_.path names a file
  queue, stopping,     \* queue_, stopping_ (accepting_ is its negation)
  stopper,             \* where the caller of shutdown() is
  writer,              \* where each caller of write() is
  worker, held,        \* where run() is; the records it holds, at most one
  files,               \* slot -> contents or Absent
  accepted, written, dropped, fallback, failed,  \* the counters and the flag
  submitted, refused,  \* history: records passed to write(), not accepted
  order,               \* history: the accepted ones, in the order of the queue
  stored,              \* history: the records written to the log
  reported,            \* history: records of which standard error tells
  failures,            \* history: steps in which the file system refused
  overlooked           \* history: slots the last rotation took for absent

counters == <<accepted, written, dropped, fallback, failed>>
history == <<submitted, refused, order, stored, reported, failures, overlooked>>
vars == <<path_given, queue, stopping, stopper, writer, worker, held, files, counters, history>>

Slots == 0 .. RotationFiles

Init ==
  /\ path_given \in BOOLEAN
  /\ queue = <<>> /\ stopping = FALSE /\ stopper = "idle"
  /\ writer = [w \in Writers |-> "idle"]
  /\ worker = IF path_given THEN "checking" ELSE "exited"
  /\ held = {}
  /\ files = [i \in Slots |-> Absent]
  /\ accepted = 0 /\ written = 0 /\ dropped = 0 /\ fallback = 0 /\ failed = FALSE
  /\ submitted = {} /\ refused = {} /\ order = <<>> /\ stored = {} /\ reported = {}
  /\ failures = 0 /\ overlooked = {}
-----------------------------------------------------------------------------
(* write(): a record that is not accepted is dropped, or, unless its       *)
(* severity is low, told to standard error.                                *)
Calls(w, r) ==
  /\ writer[w] = "idle"
  /\ r \notin submitted
  /\ submitted' = submitted \cup {r}

FallBack(r) ==
  IF r.low THEN UNCHANGED <<fallback, reported>>
  ELSE fallback' = fallback + 1 /\ reported' = reported \cup {r}

TooLarge(r) == r.size > RecordBytes \/ r.size > RotationBytes

RejectOversize(w, r) ==
  /\ Calls(w, r)
  /\ TooLarge(r)
  /\ dropped' = dropped + 1
  /\ FallBack(r)
  /\ refused' = refused \cup {r}
  /\ UNCHANGED <<queue, stopping, stopper, writer, worker, held, files, accepted, written, failed,
                 order, stored, failures, overlooked>>

(* Without a file low severities are ignored, and not counted as dropped.  *)
WriteWithoutFile(w, r) ==
  /\ Calls(w, r)
  /\ ~TooLarge(r) /\ ~path_given
  /\ FallBack(r)
  /\ refused' = refused \cup {r}
  /\ UNCHANGED <<queue, stopping, stopper, writer, worker, held, files, accepted, written,
                 dropped, failed, order, stored, failures, overlooked>>

Accepts == ~stopping /\ Len(queue) < Capacity

(* Faulty variant: a record that finds no room is not counted.             *)
RefuseUncounted(w, r) ==
  /\ Calls(w, r)
  /\ ~TooLarge(r) /\ path_given
  /\ ~Accepts
  /\ FallBack(r)
  /\ refused' = refused \cup {r}
  /\ UNCHANGED <<queue, stopping, stopper, writer, worker, held, files, counters,
                 order, stored, failures, overlooked>>

Refuse(w, r) ==
  /\ Calls(w, r)
  /\ ~TooLarge(r) /\ path_given
  /\ ~Accepts
  /\ dropped' = dropped + 1
  /\ FallBack(r)
  /\ refused' = refused \cup {r}
  /\ UNCHANGED <<queue, stopping, stopper, writer, worker, held, files, accepted, written, failed,
                 order, stored, failures, overlooked>>

Enqueue(w, r) ==
  /\ Calls(w, r)
  /\ ~TooLarge(r) /\ path_given
  /\ Accepts
  /\ queue' = Append(queue, r)
  /\ order' = Append(order, r)
  /\ writer' = [writer EXCEPT ![w] = "queued"]
  /\ UNCHANGED <<stopping, stopper, worker, held, files, counters, refused, stored,
                 reported, failures, overlooked>>

CountAccepted(w) ==
  /\ writer[w] = "queued"
  /\ accepted' = accepted + 1
  /\ writer' = [writer EXCEPT ![w] = "counted"]
  /\ UNCHANGED <<queue, stopping, stopper, worker, held, files, written, dropped, fallback, failed, history>>

Wake == worker' = IF worker = "waiting" THEN "checking" ELSE worker

(* Faulty variant: nobody is told.                                         *)
NotifyNobody(w) ==
  /\ writer[w] = "counted"
  /\ writer' = [writer EXCEPT ![w] = "idle"]
  /\ UNCHANGED <<queue, stopping, stopper, worker, held, files, counters, history>>

Notify(w) ==
  /\ writer[w] = "counted"
  /\ writer' = [writer EXCEPT ![w] = "idle"]
  /\ Wake
  /\ UNCHANGED <<queue, stopping, stopper, held, files, counters, history>>
-----------------------------------------------------------------------------
(* run().                                                                  *)
Wait ==
  /\ worker = "checking"
  /\ ~stopping /\ queue = <<>>
  /\ worker' = "waiting"
  /\ UNCHANGED <<queue, stopping, stopper, writer, held, files, counters, history>>

SpuriousWake ==
  /\ worker = "waiting"
  /\ worker' = "checking"
  /\ UNCHANGED <<queue, stopping, stopper, writer, held, files, counters, history>>

(* Faulty variant: a stopping logger leaves its queue.                     *)
ExitAtOnce ==
  /\ worker = "checking"
  /\ stopping
  /\ worker' = "exited"
  /\ UNCHANGED <<queue, stopping, stopper, writer, held, files, counters, history>>

Exit ==
  /\ worker = "checking"
  /\ stopping /\ queue = <<>>
  /\ worker' = "exited"
  /\ UNCHANGED <<queue, stopping, stopper, writer, held, files, counters, history>>

Take ==
  /\ worker = "checking"
  /\ queue # <<>>
  /\ held' = {Head(queue)}
  /\ queue' = Tail(queue)
  /\ worker' = "taken"
  /\ UNCHANGED <<stopping, stopper, writer, files, counters, history>>
-----------------------------------------------------------------------------
(* write_record, which rotates first.                                      *)
Exists(i) == files[i] # Absent
Size(file) == IF file = Absent THEN 0 ELSE SumFunction([i \in DOMAIN file |-> file[i].size])
Incoming == CHOOSE r \in held : TRUE

DiskRefuses == failures < DiskFailures /\ failures' = failures + 1

MustRotate == Exists(0) /\ Size(files[0]) + Incoming.size > RotationBytes

(* The files that a rotation moves, each to the next slot; the oldest      *)
(* rotated file makes room.                                                *)
Movable == {i \in Slots \ {RotationFiles} : Exists(i)}

(* Faulty variant: the loop ends one file early.                           *)
ShiftedOneShort(k, seen) ==
  [i \in Slots |-> CASE i = 0 -> Absent [] i = 1 -> files[0]
                     [] i = 2 -> files[2]
                     [] OTHER -> IF i - 1 \in seen THEN files[i - 1] ELSE files[i]]

(* Faulty variant: the files are copied and left where they were.          *)
ShiftedCopies(k, seen) ==
  [i \in Slots |-> IF i > k /\ i - 1 \in seen THEN files[i - 1] ELSE files[i]]

(* The files when slot k could not be filled from slot k-1: of those above *)
(* it the seen ones have moved up, slot k is empty.  With k = 0 nothing    *)
(* has failed.                                                             *)
Shifted(k, seen) ==
  [i \in Slots |-> CASE i < k -> files[i]
                     [] i = k -> Absent
                     [] i > k /\ i - 1 \in seen -> files[i - 1]
                     [] i > k /\ i - 1 \notin seen -> IF i \in seen THEN Absent ELSE files[i]]

Rotate ==
  /\ worker = "taken"
  /\ files' = IF MustRotate THEN Shifted(0, Movable) ELSE files
  /\ overlooked' = {}
  /\ worker' = "rotated"
  /\ UNCHANGED <<queue, stopping, stopper, writer, held, counters, submitted, refused,
                 order, stored, reported, failures>>

(* exists() cannot tell, which is taken for no: the file stays where it is *)
(* and the next one takes its place.  If it is the log nothing is rotated. *)
RotateBlindly ==
  /\ worker = "taken"
  /\ MustRotate
  /\ DiskRefuses
  /\ \E unseen \in SUBSET Movable \ {{}} :
        /\ files' = IF 0 \in unseen THEN files ELSE Shifted(0, Movable \ unseen)
        /\ overlooked' = unseen
  /\ worker' = "rotated"
  /\ UNCHANGED <<queue, stopping, stopper, writer, held, counters, submitted, refused,
                 order, stored, reported>>

(* A rename fails; the removal before it may fail, too.                    *)
RotateFails ==
  /\ worker = "taken"
  /\ MustRotate
  /\ DiskRefuses
  /\ \E unseen \in SUBSET (Movable \ {0}) :
        LET seen == Movable \ unseen
        IN /\ \E k \in {i + 1 : i \in seen} :
                \/ files' = Shifted(k, seen)
                \/ k \notin seen /\ files' = [Shifted(k, seen) EXCEPT ![k] = files[k]]
           /\ overlooked' = unseen
  /\ worker' = "failing"
  /\ UNCHANGED <<queue, stopping, stopper, writer, held, counters, submitted, refused,
                 order, stored, reported>>

(* The log cannot be inspected or opened, or is not a regular file.        *)
OpenFails ==
  /\ worker \in {"taken", "rotated"}
  /\ DiskRefuses
  /\ worker' = "failing"
  /\ UNCHANGED <<queue, stopping, stopper, writer, held, files, counters, submitted, refused,
                 order, stored, reported, overlooked>>

(* Opening creates the file.                                               *)
Appended(pieces) == [files EXCEPT ![0] = IF Exists(0) THEN @ \o pieces ELSE pieces]
PieceOf(r, bytes) == [record |-> r, size |-> bytes, whole |-> bytes = r.size]

AppendRecord ==
  /\ worker = "rotated"
  /\ files' = Appended(<<PieceOf(Incoming, Incoming.size)>>)
  /\ stored' = stored \cup held
  /\ worker' = "appended"
  /\ UNCHANGED <<queue, stopping, stopper, writer, held, counters, submitted, refused,
                 order, reported, failures, overlooked>>

(* Any part of the record, none or all of it, is in the file.              *)
AppendFails ==
  /\ worker = "rotated"
  /\ DiskRefuses
  /\ \E bytes \in 0 .. Incoming.size :
        files' = Appended(IF bytes = 0 THEN <<>> ELSE <<PieceOf(Incoming, bytes)>>)
  /\ worker' = "failing"
  /\ UNCHANGED <<queue, stopping, stopper, writer, held, counters, submitted, refused,
                 order, stored, reported, overlooked>>

CountWritten ==
  /\ worker = "appended"
  /\ written' = written + 1
  /\ held' = {}
  /\ worker' = "checking"
  /\ UNCHANGED <<queue, stopping, stopper, writer, files, accepted, dropped, fallback, failed, history>>

ReportFailure ==
  /\ worker = "failing"
  /\ failed' = TRUE
  /\ fallback' = fallback + 1
  /\ reported' = reported \cup held
  /\ held' = {}
  /\ worker' = "checking"
  /\ UNCHANGED <<queue, stopping, stopper, writer, files, accepted, written, dropped,
                 submitted, refused, order, stored, failures, overlooked>>
-----------------------------------------------------------------------------
(* shutdown(): close, notify_all, join.                                    *)
Close ==
  /\ stopper = "idle"
  /\ stopping' = TRUE
  /\ stopper' = "notifying"
  /\ UNCHANGED <<queue, writer, worker, held, files, counters, history>>

NotifyAll ==
  /\ stopper = "notifying"
  /\ Wake
  /\ stopper' = "joining"
  /\ UNCHANGED <<queue, stopping, writer, held, files, counters, history>>

Join ==
  /\ stopper = "joining"
  /\ worker = "exited"
  /\ stopper' = "returned"
  /\ UNCHANGED <<queue, stopping, writer, worker, held, files, counters, history>>

Run ==
  \/ Wait \/ Exit \/ Take \/ Rotate \/ RotateBlindly \/ RotateFails \/ OpenFails
  \/ AppendRecord \/ AppendFails \/ CountWritten \/ ReportFailure

Write(w) ==
  \E r \in Records :
    RejectOversize(w, r) \/ WriteWithoutFile(w, r) \/ Refuse(w, r) \/ Enqueue(w, r)

Next ==
  /\ \/ \E w \in Writers : Write(w) \/ CountAccepted(w) \/ Notify(w)
     \/ Run \/ SpuriousWake \/ Close \/ NotifyAll \/ Join
  /\ UNCHANGED path_given

Spec == Init /\ [][Next]_vars
-----------------------------------------------------------------------------
(* No record is lost: whatever the queue, the file system and a shutdown   *)
(* do, a record that write() has is on its way, in the log or on standard  *)
(* error, unless it is of low severity and was refused; and none is on its *)
(* way any more when shutdown() has returned.                              *)
NoRecordLost ==
  /\ \A r \in submitted :
       \/ r.low /\ r \in refused
       \/ r \in Range(queue) \cup held \cup stored \cup reported
  /\ stopper = "returned" => queue = <<>> /\ held = {}

Before(r, s) == \E i, j \in DOMAIN order : i < j /\ order[i] = r /\ order[j] = s

(* From the oldest rotated file to the log, the records stand in the order *)
(* in which they were accepted, with rotations broken off at any rename.   *)
FilesInOrder ==
  \A i, j \in Slots : (Exists(i) /\ Exists(j)) =>
    \A p \in DOMAIN files[i], q \in DOMAIN files[j] :
      (i > j \/ (i = j /\ p < q)) => Before(files[i][p].record, files[j][q].record)

(* A rotation, complete or broken off at any rename, gives up the oldest   *)
(* file, at worst also files whose inspection was refused, and nothing     *)
(* that is in another; no other step gives up anything.                    *)
Kept(fs) == UNION {Range(fs[i]) : i \in {k \in Slots : fs[k] # Absent}}
Expendable == IF worker = "taken" THEN {RotationFiles} \cup overlooked' ELSE {}
KeepsWhatItSees ==
  [][\A i \in Slots \ Expendable : Exists(i) => Range(files[i]) \subseteq Kept(files')]_vars

(* Once nothing is under way the counters account for every record: it was *)
(* accepted or dropped, and what did not reach the log is a fallback or a  *)
(* dropped record of low severity.                                         *)
LossIsVisible ==
  (path_given /\ queue = <<>> /\ held = {} /\ \A w \in Writers : writer[w] = "idle") =>
    /\ accepted + dropped = Cardinality(submitted)
    /\ written + fallback = accepted + Cardinality({r \in refused : ~r.low})

(* The worker never sleeps on a record or on a shutdown unless somebody is *)
(* still to notify it, though notifications are given without the lock.    *)
SleeperIsWoken ==
  (worker = "waiting" /\ (queue # <<>> \/ stopping)) =>
    stopper = "notifying" \/ \E w \in Writers : writer[w] \in {"queued", "counted"}
=============================================================================
