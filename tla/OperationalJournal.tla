------------------------- MODULE OperationalJournal -------------------------
(***************************************************************************)
(* The framed append-only store of operational_store.cpp on a disk whose   *)
(* writes arrive piece by piece.                                           *)
(*                                                                         *)
(* The file is a sequence of cells.  A frame is two header cells (the      *)
(* frame magic; sequence, lengths and checksum) and Size[r] cells of kind  *)
(* and payload, so that a header and a body can both be cut short.  The    *)
(* checksum is taken to tell any two bodies apart, and cells of two frames *)
(* never to form a valid header together.                                  *)
(***************************************************************************)
EXTENDS Naturals, Sequences, SequencesExt

CONSTANTS
  Records,        \* the records that are appended
  Size,           \* the length of a record's kind and payload, in cells
  MaxFile,        \* maximum_file_bytes, in cells
  RecentLimit,    \* recent_record_limit
  Synchronize,    \* config_.synchronize
  WriteFailures   \* whether the disk may refuse a write or a flush

ASSUME JournalAssumption ==
  /\ Size \in [Records -> Nat \ {0}]
  /\ MaxFile \in Nat \ {0}
  /\ RecentLimit \in Nat \ {0}
  /\ Synchronize \in BOOLEAN
  /\ WriteFailures \in BOOLEAN

VARIABLES
  exists,         \* the path names a file
  file,           \* its cells, as the operating system has them
  durable,        \* how many of them a power failure cannot take away
  status,         \* "down", "creating", "open", or "failed" to open
  next_sequence,  \* next_sequence_
  recent,         \* recent_
  pending,        \* the append under way: its records, at most one
  unwritten,      \* the cells of its frame that are not in the file yet
  log,            \* history: every record replayed or appended since opening
  promised,       \* history: the length of log at the last acknowledgement
  opened,         \* history: the store has been open before
  intact          \* history: no failed append has left its bytes in the file

vars == <<exists, file, durable, status, next_sequence, recent, pending,
          unwritten, log, promised, opened, intact>>
disk_vars == <<exists, file, durable>>
memory_vars == <<status, next_sequence, recent, pending, unwritten>>
history_vars == <<log, promised, opened, intact>>
-----------------------------------------------------------------------------
FileMagic == [cell |-> "file"]
FrameMagic == [cell |-> "magic"]
Header(s, r) == [cell |-> "header", sequence |-> s, record |-> r]
Body(r) == [j \in 1..Size[r] |-> [cell |-> "body", record |-> r, at |-> j]]
Frame(s, r) == <<FrameMagic, Header(s, r)>> \o Body(r)
FrameSize(r) == 2 + Size[r]

HeaderValid(f, k, s) ==
  f[k] = FrameMagic /\ f[k + 1].cell = "header" /\ f[k + 1].sequence = s

(* The loop of the scan: the records of the complete frames so far, the    *)
(* last cell of the last of them, whether the loop goes on, and whether it *)
(* has thrown.                                                             *)
ScanStart == [going |-> TRUE, ok |-> TRUE, records |-> <<>>, end |-> 1]

(* One turn.  A header or a body cut short by the end of the file is a     *)
(* torn tail and ends the scan.                                            *)
ScanFrame(f, scan) ==
  LET k == scan.end + 1
      r == f[k + 1].record
      last == scan.end + FrameSize(r)
      Stop(ok) == [going |-> FALSE, ok |-> ok, records |-> scan.records, end |-> scan.end]
  IN IF ~scan.going THEN scan
     ELSE IF k + 1 > Len(f) THEN Stop(TRUE)
     ELSE IF ~HeaderValid(f, k, Len(scan.records) + 1) THEN Stop(FALSE)
     ELSE IF last > Len(f) THEN Stop(TRUE)
     ELSE IF SubSeq(f, k + 2, last) # Body(r) THEN Stop(FALSE)
     ELSE [going |-> TRUE, ok |-> TRUE, records |-> Append(scan.records, r), end |-> last]

(* A file has more cells than frames.                                      *)
Scan(f) ==
  LET After[n \in 0..Len(f)] == IF n = 0 THEN ScanStart ELSE ScanFrame(f, After[n - 1])
  IN IF f = <<>> \/ Len(f) > MaxFile THEN [ScanStart EXCEPT !.ok = FALSE]
     ELSE After[Len(f)]

(* Faulty variant: the newest entries are kept out once the list is full.  *)
LastRecordsKeepingOldest(s) ==
  IF Len(s) > RecentLimit THEN SubSeq(s, 1, RecentLimit) ELSE s

(* The bounded list of recent records.                                     *)
LastRecords(s) ==
  IF Len(s) > RecentLimit THEN SubSeq(s, Len(s) - RecentLimit + 1, Len(s)) ELSE s

Synced(n) == IF Synchronize THEN n ELSE durable

Init ==
  /\ exists = FALSE
  /\ file = <<>>
  /\ durable = 0
  /\ status = "down"
  /\ next_sequence = 1
  /\ recent = <<>>
  /\ pending = <<>>
  /\ unwritten = <<>>
  /\ log = <<>>
  /\ promised = 0
  /\ opened = FALSE
  /\ intact = TRUE
-----------------------------------------------------------------------------
(* open_and_recover: the file is created empty, then its magic is written, *)
(* then it is scanned like any other.                                      *)
CreateFile ==
  /\ status = "down"
  /\ ~exists
  /\ exists' = TRUE
  /\ status' = "creating"
  /\ UNCHANGED <<file, durable, next_sequence, recent, pending, unwritten, history_vars>>

WriteFileMagic ==
  /\ status = "creating"
  /\ file' = <<FileMagic>>
  /\ durable' = Synced(1)
  /\ status' = "down"
  /\ UNCHANGED <<exists, next_sequence, recent, pending, unwritten, history_vars>>

CreationFails ==
  /\ status = "creating"
  /\ WriteFailures
  /\ status' = "failed"
  /\ UNCHANGED <<disk_vars, next_sequence, recent, pending, unwritten, history_vars>>

(* Faulty variant: the torn tail stays in the file.                        *)
RecoverKeepingTail ==
  LET scan == Scan(file)
  IN /\ status \in {"down", "failed"}
     /\ exists
     /\ scan.ok
     /\ status' = "open"
     /\ next_sequence' = Len(scan.records) + 1
     /\ recent' = LastRecords(scan.records)
     /\ log' = scan.records
     /\ opened' = TRUE
     /\ UNCHANGED <<disk_vars, pending, unwritten, promised, intact>>

(* The scan succeeds: a torn tail is cut off.                              *)
Recover ==
  LET scan == Scan(file)
  IN /\ status \in {"down", "failed"}
     /\ exists
     /\ scan.ok
     /\ file' = SubSeq(file, 1, scan.end)
     /\ durable' = IF scan.end = Len(file) THEN durable ELSE Synced(scan.end)
     /\ status' = "open"
     /\ next_sequence' = Len(scan.records) + 1
     /\ recent' = LastRecords(scan.records)
     /\ log' = scan.records
     /\ opened' = TRUE
     /\ UNCHANGED <<exists, pending, unwritten, promised, intact>>

(* The scan throws, or the tail cannot be cut off.                         *)
RecoveryFails ==
  /\ status \in {"down", "failed"}
  /\ exists
  /\ \/ ~Scan(file).ok
     \/ WriteFailures /\ Scan(file).end < Len(file)
  /\ status' = "failed"
  /\ UNCHANGED <<disk_vars, next_sequence, recent, pending, unwritten, history_vars>>
-----------------------------------------------------------------------------
(* append, under mutex_: one at a time.  A record that would outgrow the   *)
(* file is refused before anything is written.                             *)

BeginAppend(r) ==
  /\ status = "open"
  /\ pending = <<>>
  /\ Len(file) + FrameSize(r) <= MaxFile
  /\ pending' = <<r>>
  /\ unwritten' = Frame(next_sequence, r)
  /\ UNCHANGED <<disk_vars, status, next_sequence, recent, history_vars>>

(* Some of what is left of the frame reaches the file.                     *)
WriteCells ==
  /\ unwritten # <<>>
  /\ \E n \in 1..Len(unwritten) :
       /\ file' = file \o SubSeq(unwritten, 1, n)
       /\ unwritten' = SubSeq(unwritten, n + 1, Len(unwritten))
  /\ UNCHANGED <<exists, durable, status, next_sequence, recent, pending, history_vars>>

(* Faulty variant: the flush is not forced to the disk.                    *)
AppendSucceedsUnsynced ==
  /\ pending # <<>>
  /\ unwritten = <<>>
  /\ next_sequence' = next_sequence + 1
  /\ recent' = LastRecords(recent \o pending)
  /\ log' = log \o pending
  /\ promised' = Len(log')
  /\ pending' = <<>>
  /\ UNCHANGED <<disk_vars, status, unwritten, opened, intact>>

(* The frame is written and synchronised; the sequence is returned.        *)
AppendSucceeds ==
  /\ pending # <<>>
  /\ unwritten = <<>>
  /\ durable' = Synced(Len(file))
  /\ next_sequence' = next_sequence + 1
  /\ recent' = LastRecords(recent \o pending)
  /\ log' = log \o pending
  /\ promised' = Len(log')
  /\ pending' = <<>>
  /\ UNCHANGED <<exists, file, status, unwritten, opened, intact>>

(* A write, the flush, the synchronisation or the close fails: append      *)
(* throws and leaves the file as it is.                                    *)
AppendFails ==
  /\ pending # <<>>
  /\ WriteFailures
  /\ pending' = <<>>
  /\ unwritten' = <<>>
  /\ intact' = (intact /\ unwritten = Frame(next_sequence, pending[1]))
  /\ UNCHANGED <<disk_vars, status, next_sequence, recent, log, promised, opened>>
-----------------------------------------------------------------------------
(* The process ends, at any time; the file keeps what was written.         *)
ProcessEnds ==
  /\ status \in {"creating", "open"}
  /\ status' = "down"
  /\ pending' = <<>>
  /\ unwritten' = <<>>
  /\ UNCHANGED <<disk_vars, next_sequence, recent, history_vars>>

(* So does the machine, and cells that were not synchronised may be lost.  *)
(* A store that does not synchronise promises nothing here.                *)
PowerFails ==
  /\ Synchronize
  /\ \E n \in durable..Len(file) :
       /\ file' = SubSeq(file, 1, n)
       /\ durable' = n
  /\ status' = "down"
  /\ pending' = <<>>
  /\ unwritten' = <<>>
  /\ UNCHANGED <<exists, next_sequence, recent, history_vars>>

Next ==
  \/ CreateFile \/ WriteFileMagic \/ CreationFails
  \/ Recover \/ RecoveryFails
  \/ \E r \in Records : BeginAppend(r)
  \/ WriteCells \/ AppendSucceeds \/ AppendFails
  \/ ProcessEnds \/ PowerFails

Spec == Init /\ [][Next]_vars
-----------------------------------------------------------------------------
(* A store that has been open once can be opened again, whatever the file  *)
(* looks like when the process ends: an interrupted append leaves a torn   *)
(* tail, never something the scan refuses, until the disk has refused part *)
(* of a frame.                                                             *)
OpenedStoreReplays == opened /\ intact => Scan(file).ok

(* What recent() and records() serve is the tail of the whole history, and *)
(* the next sequence follows it without a gap, across restarts.            *)
RecentIsTail ==
  status = "open" =>
    /\ IsSuffix(recent, log)
    /\ Len(recent) = IF Len(log) < RecentLimit THEN Len(log) ELSE RecentLimit
    /\ next_sequence = Len(log) + 1

(* A replay that succeeds finds every record whose append returned.        *)
NothingDroppedSilently ==
  LET scan == Scan(file)
  IN scan.ok => promised <= Len(scan.records)

Promise == INSTANCE DurableLog WITH open <- status = "open"

(* The store implements the durable log: replay never reorders or invents  *)
(* a record, even when failed appends have left their bytes in the file,   *)
(* and without such bytes it never loses one that was acknowledged.        *)
ImplementsDurableLog == Promise!Spec
=============================================================================
