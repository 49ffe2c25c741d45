----------------------- MODULE DiagnosticLoggerProofs -----------------------
(***************************************************************************)
(* Proofs about DiagnosticLogger for every number of writers and rotated   *)
(* files, every capacity and size limit, and any refusals of the disk.     *)
(***************************************************************************)
EXTENDS DiagnosticLogger, FiniteSetTheorems, SequenceTheorems, TLAPS

-----------------------------------------------------------------------------
(* The inductive invariant: types, what run() holds, and when it is over.  *)
Piece == [record: Records, size: Nat, whole: BOOLEAN]
Holding == {"taken", "rotated", "appended", "failing"}

TypeOK ==
  /\ path_given \in BOOLEAN /\ stopping \in BOOLEAN
  /\ queue \in Seq(Records) /\ order \in Seq(Records)
  /\ writer \in [Writers -> {"idle", "queued", "counted"}]
  /\ held \subseteq Records /\ submitted \subseteq Records /\ refused \subseteq submitted
  /\ accepted \in Nat /\ written \in Nat /\ dropped \in Nat /\ fallback \in Nat
  /\ files \in [Slots -> Seq(Piece) \cup {Absent}]

(* run() holds one record from Take until its fate is counted.             *)
HoldsOne ==
  /\ worker \in Holding => \E r \in Records : held = {r}
  /\ worker \notin Holding => held = {}

(* It leaves only a drained queue that is closed, or was never opened.     *)
ExitsDrained ==
  /\ ~path_given => worker = "exited"
  /\ worker = "exited" => queue = <<>> /\ (path_given => stopping)
  /\ stopper = "returned" => worker = "exited"

IInv == TypeOK /\ HoldsOne /\ ExitsDrained

(* The record at hand is the one that was taken.                           *)
LEMMA IncomingHeld ==
  ASSUME NEW r, held = {r}
  PROVE  Incoming = r
BY DEF Incoming

(* Initially there is nothing.                                             *)
LEMMA InitInvariant == Init => IInv
<1> SUFFICES ASSUME Init PROVE IInv
  OBVIOUS
<1>1. TypeOK
  BY EmptySeq DEF Init, TypeOK
<1> QED
  BY <1>1 DEF Init, IInv, HoldsOne, ExitsDrained, Holding

(* A call of write() but for the one that is accepted leaves the queue,    *)
(* the files and the worker as they are.                                   *)
Declines(w, r) == RejectOversize(w, r) \/ WriteWithoutFile(w, r) \/ Refuse(w, r)

Rotates == Rotate \/ RotateBlindly \/ RotateFails

(* The steps that leave the files as they are.                             *)
LEMMA FilesKept ==
  ASSUME Next, ~Rotates, ~AppendRecord, ~AppendFails
  PROVE  UNCHANGED files
BY DEF Next, Write, Run, Rotates, RejectOversize, WriteWithoutFile, Refuse, Enqueue, CountAccepted,
   Notify, Wait, Exit, Take, OpenFails, CountWritten, ReportFailure, SpuriousWake, Close, NotifyAll, Join

(* Slot k was not filled, and the files above it that were seen have moved *)
(* up.  With the highest slot for k nothing need have happened.            *)
Moved(k, seen) ==
  \A i \in Slots :
    /\ i < k => files'[i] = files[i]
    /\ i > k /\ i - 1 \in seen => files'[i] = files[i - 1]
    /\ i > k /\ i - 1 \notin seen /\ i \notin seen => files'[i] = files[i]
    /\ i >= k /\ i \in seen /\ ~(i > k /\ i - 1 \in seen) => files'[i] = Absent
    /\ i >= k /\ i \notin seen /\ ~(i > k /\ i - 1 \in seen) => files'[i] \in {Absent, files[i]}

LEMMA ShiftedFiles ==
  ASSUME TypeOK, NEW k \in Slots, NEW seen \in SUBSET Movable
  PROVE  /\ Shifted(k, seen) \in [Slots -> Seq(Piece) \cup {Absent}]
         /\ files' = Shifted(k, seen) => Moved(k, seen)
         /\ k \notin seen /\ files' = [Shifted(k, seen) EXCEPT ![k] = files[k]] => Moved(k, seen)
<1> DEFINE s == Shifted(k, seen)
<1>0. RotationFiles \in Nat /\ k \in Nat /\ seen \subseteq Slots
  BY LoggerAssumption DEF Slots, Movable
<1>1. ASSUME NEW j \in Slots
      PROVE  /\ j < k => s[j] = files[j]
             /\ j = k => s[j] = Absent
             /\ j > k /\ j - 1 \in seen => s[j] = files[j - 1]
             /\ j > k /\ j - 1 \notin seen => s[j] = IF j \in seen THEN Absent ELSE files[j]
  BY <1>0 DEF Shifted, Slots
<1>2. \A j \in Slots : j \in Nat /\ (j < k \/ j = k \/ j > k)
  BY <1>0 DEF Slots
<1>3. ASSUME NEW j \in Slots PROVE s[j] \in Seq(Piece) \cup {Absent}
  BY <1>0, <1>1, <1>2 DEF TypeOK
<1> DEFINE Source(j) == CASE j < k -> files[j]
                          [] j = k -> Absent
                          [] j > k /\ j - 1 \in seen -> files[j - 1]
                          [] j > k /\ j - 1 \notin seen -> IF j \in seen THEN Absent ELSE files[j]
<1>4. s = [j \in Slots |-> Source(j)]
  BY DEF Shifted
<1> HIDE DEF Source
<1>5. DOMAIN s = Slots
  BY <1>4
<1>6. s \in [Slots -> Seq(Piece) \cup {Absent}]
  <2> HIDE DEF s
  <2> QED
    BY <1>3, <1>4
<1> HIDE DEF s
<1>7. ASSUME files' = s PROVE Moved(k, seen)
  BY <1>1, <1>2, <1>7 DEF Moved
<1>8. ASSUME k \notin seen, files' = [s EXCEPT ![k] = files[k]] PROVE Moved(k, seen)
  <2>1. \A j \in Slots : files'[j] = IF j = k THEN files[k] ELSE s[j]
    BY <1>5, <1>8
  <2> QED
    BY <1>1, <1>2, <1>8, <2>1 DEF Moved
<1> QED
  BY <1>6, <1>7, <1>8 DEF s

(* What is not seen has been overlooked.                                   *)
LEMMA RotatedFiles ==
  ASSUME TypeOK, Rotates
  PROVE  /\ files' \in [Slots -> Seq(Piece) \cup {Absent}]
         /\ \E k \in Slots, seen \in SUBSET Movable :
              Movable \subseteq seen \cup overlooked' /\ Moved(k, seen)
<1>0. /\ RotationFiles \in Nat /\ RotationFiles \in Slots /\ 0 \in Slots
      /\ files \in [Slots -> Seq(Piece) \cup {Absent}]
      /\ RotationFiles \notin Movable
  BY LoggerAssumption DEF Slots, Movable, TypeOK
<1>1. CASE UNCHANGED files
  <2>1. \A i \in Slots : i \in Nat /\ i <= RotationFiles
    BY <1>0 DEF Slots
  <2>2. Moved(RotationFiles, Movable)
    BY <1>0, <1>1, <2>1 DEF Moved
  <2> QED
    BY <1>0, <1>1, <2>2
<1>2. ASSUME NEW k \in Slots, NEW seen \in SUBSET Movable, Movable \subseteq seen \cup overlooked',
             \/ files' = Shifted(k, seen)
             \/ k \notin seen /\ files' = [Shifted(k, seen) EXCEPT ![k] = files[k]]
      PROVE  /\ files' \in [Slots -> Seq(Piece) \cup {Absent}]
             /\ \E l \in Slots, moved \in SUBSET Movable :
                  Movable \subseteq moved \cup overlooked' /\ Moved(l, moved)
  <2>1. Shifted(k, seen) \in [Slots -> Seq(Piece) \cup {Absent}] /\ Moved(k, seen)
    BY <1>2, ShiftedFiles
  <2> QED
    BY <1>0, <1>2, <2>1
<1>3. CASE Rotate
  <2>1. UNCHANGED files \/ files' = Shifted(0, Movable)
    BY <1>3 DEF Rotate
  <2> QED
    BY <1>0, <1>1, <1>2, <2>1
<1>4. CASE RotateBlindly
  <2>1. PICK unseen \in SUBSET Movable : /\ UNCHANGED files \/ files' = Shifted(0, Movable \ unseen)
                                         /\ overlooked' = unseen
    BY <1>4 DEF RotateBlindly
  <2> QED
    BY <1>0, <1>1, <1>2, <2>1
<1>5. CASE RotateFails
  <2>1. PICK unseen \in SUBSET (Movable \ {0}) :
          /\ \E k \in {i + 1 : i \in Movable \ unseen} :
               \/ files' = Shifted(k, Movable \ unseen)
               \/ /\ k \notin Movable \ unseen
                  /\ files' = [Shifted(k, Movable \ unseen) EXCEPT ![k] = files[k]]
          /\ overlooked' = unseen
    BY <1>5 DEF RotateFails
  <2>2. \A k \in {i + 1 : i \in Movable \ unseen} : k \in Slots
    BY <1>0 DEF Movable, Slots
  <2> QED
    BY <1>2, <2>1, <2>2
<1> QED
  BY <1>3, <1>4, <1>5 DEF Rotates

(* What an append puts in the log file.                                    *)
LEMMA AppendedFiles ==
  ASSUME TypeOK, HoldsOne, AppendRecord \/ AppendFails
  PROVE  \E pieces \in Seq(Piece) :
           /\ files' = Appended(pieces)
           /\ Len(pieces) \in {0, 1}
           /\ \A p \in 1 .. Len(pieces) : {pieces[p].record} = held
<1>1. PICK r \in Records : held = {r}
  BY DEF HoldsOne, AppendRecord, AppendFails, Holding
<1>2. Incoming = r /\ r.size \in Nat
  BY <1>1, IncomingHeld, LoggerAssumption
<1>3. ASSUME NEW b \in Nat
      PROVE  PieceOf(r, b) \in Piece /\ PieceOf(r, b).record = r
  BY <1>2 DEF PieceOf, Piece
<1>4. CASE files' = Appended(<<>>)
  <2>1. <<>> \in Seq(Piece) /\ Len(<<>>) = 0
    BY EmptySeq
  <2>2. \A p \in 1 .. Len(<<>>) : {<<>>[p].record} = held
    BY <2>1
  <2> QED
    BY <1>4, <2>1, <2>2
<1>5. ASSUME NEW b \in Nat, files' = Appended(<<PieceOf(r, b)>>)
      PROVE  \E pieces \in Seq(Piece) :
           /\ files' = Appended(pieces)
           /\ Len(pieces) \in {0, 1}
           /\ \A p \in 1 .. Len(pieces) : {pieces[p].record} = held
  <2> DEFINE x == PieceOf(r, b)
  <2>1. x \in Piece /\ x.record = r
    BY <1>3
  <2> HIDE DEF x
  <2>2. <<x>> \in Seq(Piece) /\ Len(<<x>>) = 1 /\ <<x>>[1] = x
    BY <2>1
  <2>3. \A p \in 1 .. Len(<<x>>) : {<<x>>[p].record} = held
    BY <1>1, <2>1, <2>2
  <2> QED
    BY <1>5, <2>2, <2>3 DEF x
<1>6. CASE AppendRecord
  BY <1>2, <1>5, <1>6 DEF AppendRecord
<1>7. CASE AppendFails
  <2>1. PICK b \in 0 .. r.size :
          files' = Appended(IF b = 0 THEN <<>> ELSE <<PieceOf(r, b)>>)
    BY <1>2, <1>7 DEF AppendFails
  <2> QED
    BY <1>4, <1>5, <2>1
<1> QED
  BY <1>6, <1>7

(* The log file afterwards, and the others.                                *)
LEMMA AppendedSlots ==
  ASSUME TypeOK, NEW pieces \in Seq(Piece), files' = Appended(pieces)
  PROVE  /\ files' \in [Slots -> Seq(Piece) \cup {Absent}]
         /\ \A i \in Slots \ {0} : files'[i] = files[i]
         /\ 0 \in Slots
         /\ Exists(0) => files[0] \in Seq(Piece) /\ files'[0] = files[0] \o pieces
         /\ ~Exists(0) => files'[0] = pieces
<1>0. 0 \in Slots
  BY LoggerAssumption DEF Slots
<1>1. files'[0] = (IF Exists(0) THEN files[0] \o pieces ELSE pieces)
  BY <1>0 DEF Appended, TypeOK
<1>2. Exists(0) => files[0] \in Seq(Piece)
  BY <1>0 DEF Exists, TypeOK
<1>3. files'[0] \in Seq(Piece)
  BY <1>1, <1>2, ConcatProperties
<1> DEFINE new == IF Exists(0) THEN files[0] \o pieces ELSE pieces
<1>4. files' = [files EXCEPT ![0] = new]
  BY <1>0 DEF Appended, TypeOK
<1> HIDE DEF new
<1>5. files' \in [Slots -> Seq(Piece) \cup {Absent}] /\ \A i \in Slots \ {0} : files'[i] = files[i]
  BY <1>0, <1>3, <1>4 DEF TypeOK
<1> QED
  BY <1>0, <1>1, <1>2, <1>5
-----------------------------------------------------------------------------
(* Types of a step.                                                        *)
LEMMA TypeStep == IInv /\ [Next]_vars => TypeOK'
<1> SUFFICES ASSUME IInv, [Next]_vars PROVE TypeOK'
  OBVIOUS
<1>0. TypeOK /\ HoldsOne
  BY DEF IInv
<1>1. files' \in [Slots -> Seq(Piece) \cup {Absent}]
  <2>1. CASE Rotates
    BY <1>0, <2>1, RotatedFiles
  <2>2. CASE AppendRecord \/ AppendFails
    BY <1>0, <2>2, AppendedFiles, AppendedSlots
  <2>3. CASE UNCHANGED vars
    BY <1>0, <2>3 DEF TypeOK, vars
  <2> QED
    BY <1>0, <2>1, <2>2, <2>3, FilesKept DEF TypeOK
<1> USE DEF counters, history
<1>2. ASSUME NEW w \in Writers, NEW r \in Records, Declines(w, r) PROVE TypeOK'
  BY <1>0, <1>1, <1>2 DEF Declines, RejectOversize, WriteWithoutFile, Refuse, Calls, FallBack, TypeOK,
     Next, vars
<1>3. ASSUME NEW w \in Writers, NEW r \in Records, Enqueue(w, r) PROVE TypeOK'
  BY <1>0, <1>1, <1>3, AppendProperties DEF Enqueue, Calls, TypeOK, Next, vars
<1>4. ASSUME NEW w \in Writers, CountAccepted(w) \/ Notify(w) PROVE TypeOK'
  BY <1>0, <1>1, <1>4 DEF CountAccepted, Notify, TypeOK, Next, vars
<1>5. CASE Take
  BY <1>0, <1>1, <1>5, HeadTailProperties DEF Take, TypeOK, Next, vars
<1>6. CASE Wait \/ Exit \/ Rotate \/ RotateBlindly \/ RotateFails \/ OpenFails \/ SpuriousWake
  BY <1>0, <1>1, <1>6 DEF Wait, Exit, Rotate, RotateBlindly, RotateFails, OpenFails, SpuriousWake, TypeOK, Next, vars
<1>7. CASE AppendRecord \/ AppendFails \/ CountWritten \/ ReportFailure
  BY <1>0, <1>1, <1>7 DEF AppendRecord, AppendFails, CountWritten, ReportFailure, TypeOK, Next, vars
<1>8. CASE Close \/ NotifyAll \/ Join
  BY <1>0, <1>1, <1>8 DEF Close, NotifyAll, Join, TypeOK, Next, vars
<1>9. CASE UNCHANGED vars
  BY <1>0, <1>9 DEF TypeOK, vars
<1> QED
  BY <1>2, <1>3, <1>4, <1>5, <1>6, <1>7, <1>8, <1>9 DEF Next, Write, Run, Declines

(* run() holds what it took until it is done with it.                      *)
LEMMA HoldsStep == IInv /\ [Next]_vars => HoldsOne'
<1> SUFFICES ASSUME IInv, [Next]_vars PROVE HoldsOne'
  OBVIOUS
<1>0. TypeOK /\ HoldsOne
  BY DEF IInv
<1>1. CASE UNCHANGED <<worker, held>>
  BY <1>0, <1>1 DEF HoldsOne
<1>2. ASSUME UNCHANGED held, worker \in Holding, worker' \in Holding PROVE HoldsOne'
  BY <1>0, <1>2 DEF HoldsOne
<1>3. ASSUME UNCHANGED held, worker \notin Holding, worker' \notin Holding PROVE HoldsOne'
  BY <1>0, <1>3 DEF HoldsOne
<1>4. CASE Take
  <2>1. Head(queue) \in Records /\ held' = {Head(queue)}
    BY <1>0, <1>4, HeadTailProperties DEF Take, TypeOK
  <2> QED
    BY <1>4, <2>1 DEF Take, HoldsOne, Holding
<1>5. CASE CountWritten \/ ReportFailure
  BY <1>5 DEF CountWritten, ReportFailure, HoldsOne, Holding
<1>6. CASE Rotate \/ RotateBlindly \/ RotateFails \/ OpenFails \/ AppendRecord \/ AppendFails
  BY <1>2, <1>6 DEF Rotate, RotateBlindly, RotateFails, OpenFails, AppendRecord, AppendFails, Holding
<1>7. CASE Wait \/ Exit \/ SpuriousWake
  BY <1>3, <1>7 DEF Wait, Exit, SpuriousWake, Holding
<1>8. ASSUME Wake, UNCHANGED held PROVE HoldsOne'
  BY <1>0, <1>8 DEF Wake, HoldsOne, Holding
<1>9. CASE UNCHANGED vars
  BY <1>1, <1>9 DEF vars
<1> QED
  BY <1>1, <1>4, <1>5, <1>6, <1>7, <1>8, <1>9
     DEF Next, Write, Run, RejectOversize, WriteWithoutFile, Refuse, Enqueue, CountAccepted, Notify,
         Close, NotifyAll, Join

(* It leaves a drained queue, to which nothing is added any more.          *)
LEMMA ExitsStep == IInv /\ [Next]_vars => ExitsDrained'
<1> SUFFICES ASSUME IInv, [Next]_vars PROVE ExitsDrained'
  OBVIOUS
<1>0. TypeOK /\ HoldsOne /\ ExitsDrained
  BY DEF IInv
<1>1. CASE UNCHANGED vars
  BY <1>0, <1>1 DEF ExitsDrained, vars
<1>2. CASE Next /\ worker # "exited"
  <2>1. path_given /\ path_given'
    BY <1>0, <1>2 DEF ExitsDrained, Next, TypeOK
  <2>2. CASE worker' # "exited"
    <3>1. stopper' # "returned"
      BY <1>0, <1>2, <2>2 DEF ExitsDrained, Next, Write, Run, RejectOversize, WriteWithoutFile, Refuse,
         Enqueue, CountAccepted, Notify, Wait, Exit, Take, Rotate, RotateBlindly, RotateFails, OpenFails, AppendRecord,
         AppendFails, CountWritten, ReportFailure, SpuriousWake, Close, NotifyAll, Join
    <3> QED
      BY <2>1, <2>2, <3>1 DEF ExitsDrained
  <2>3. CASE worker' = "exited"
    <3>1. Exit
      BY <1>2, <2>3 DEF Next, Write, Run, RejectOversize, WriteWithoutFile, Refuse,
         Enqueue, CountAccepted, Notify, Wait, Exit, Take, Rotate, RotateBlindly, RotateFails, OpenFails, AppendRecord,
         AppendFails, CountWritten, ReportFailure, SpuriousWake, Close, NotifyAll, Join, Wake
    <3> QED
      BY <2>1, <3>1 DEF Exit, ExitsDrained
  <2> QED
    BY <2>2, <2>3
<1>3. CASE Next /\ worker = "exited"
  <2>1. path_given' = path_given
    BY <1>3 DEF Next
  <2>2. worker' = "exited"
    BY <1>3 DEF Next, Write, Run, RejectOversize, WriteWithoutFile, Refuse,
         Enqueue, CountAccepted, Notify, Wait, Exit, Take, Rotate, RotateBlindly, RotateFails, OpenFails, AppendRecord,
         AppendFails, CountWritten, ReportFailure, SpuriousWake, Close, NotifyAll, Join, Wake
  <2>3. ~\E w \in Writers, r \in Records : Enqueue(w, r)
    BY <1>0, <1>3 DEF Enqueue, Accepts, ExitsDrained
  <2>4. queue' = queue /\ (stopping => stopping')
    BY <1>3, <2>3 DEF Next, Write, Run, RejectOversize, WriteWithoutFile, Refuse,
         CountAccepted, Notify, Wait, Exit, Take, Rotate, RotateBlindly, RotateFails, OpenFails, AppendRecord,
         AppendFails, CountWritten, ReportFailure, SpuriousWake, Close, NotifyAll, Join
  <2> QED
    BY <1>0, <1>3, <2>1, <2>2, <2>4 DEF ExitsDrained
<1> QED
  BY <1>1, <1>2, <1>3

(* The invariant holds of every behaviour.                                 *)
LEMMA Invariant == Spec => []IInv
<1>1. IInv /\ [Next]_vars => IInv'
  BY TypeStep, HoldsStep, ExitsStep DEF IInv
<1> QED
  BY <1>1, InitInvariant, PTL DEF Spec
-----------------------------------------------------------------------------
(* Notifications.  Only a closing thread owes one for a shutdown; for a    *)
(* record its writer does, from the moment it is queued.                   *)
Owed ==
  /\ worker = "waiting" /\ stopping => stopper = "notifying"
  /\ worker = "waiting" /\ queue # <<>> =>
       stopper = "notifying" \/ \E w \in Writers : writer[w] \in {"queued", "counted"}

(* Every step keeps the debt, or wakes the worker.                         *)
LEMMA OwedStep == IInv /\ Owed /\ [Next]_vars => Owed'
<1> SUFFICES ASSUME IInv, Owed, [Next]_vars PROVE Owed'
  OBVIOUS
<1>0. TypeOK
  BY DEF IInv
<1>1. CASE worker' # "waiting"
  BY <1>1 DEF Owed
<1>2. CASE worker' = "waiting"
  <2>1. CASE Wait
    BY <2>1 DEF Wait, Owed
  <2>2. ASSUME UNCHANGED <<queue, stopping, stopper, writer, worker>> PROVE Owed'
    BY <2>2 DEF Owed
  <2>3. ASSUME NEW w \in Writers, NEW r \in Records, Enqueue(w, r) PROVE Owed'
    <3>1. writer'[w] = "queued"
      BY <1>0, <2>3 DEF Enqueue, TypeOK
    <3> QED
      BY <1>2, <2>3, <3>1 DEF Enqueue, Owed
  <2>4. ASSUME NEW w \in Writers, CountAccepted(w) PROVE Owed'
    <3>1. writer'[w] = "counted"
      BY <1>0, <2>4 DEF CountAccepted, TypeOK
    <3> QED
      BY <1>2, <2>4, <3>1 DEF CountAccepted, Owed
  <2>5. ASSUME NEW w \in Writers, NEW r \in Records, Declines(w, r) PROVE Owed'
    BY <2>2, <2>5 DEF Declines, RejectOversize, WriteWithoutFile, Refuse
  <2>6. CASE Close \/ Join
    BY <1>0, <1>2, <2>6 DEF Close, Join, Owed
  <2>7. ~Wake /\ ~SpuriousWake
    BY <1>2 DEF Wake, SpuriousWake
  <2>8. ~(Exit \/ Take \/ Rotate \/ RotateBlindly \/ RotateFails \/ OpenFails \/ AppendRecord \/ AppendFails
            \/ CountWritten \/ ReportFailure)
    BY <1>2 DEF Exit, Take, Rotate, RotateBlindly, RotateFails, OpenFails, AppendRecord, AppendFails, CountWritten,
       ReportFailure
  <2>9. CASE UNCHANGED vars
    BY <2>2, <2>9 DEF vars
  <2> QED
    BY <2>1, <2>3, <2>4, <2>5, <2>6, <2>7, <2>8, <2>9
       DEF Next, Write, Run, Declines, Notify, NotifyAll
<1> QED
  BY <1>1, <1>2

(* No notification is lost, for any number of writers: the worker sleeps   *)
(* on a record or a shutdown only while somebody is still to wake it.      *)
THEOREM WorkerIsWoken == Spec => []SleeperIsWoken
<1>1. Init => Owed
  BY DEF Init, Owed
<1>2. Owed => SleeperIsWoken
  BY DEF Owed, SleeperIsWoken
<1> QED
  BY <1>1, <1>2, OwedStep, Invariant, PTL DEF Spec
-----------------------------------------------------------------------------
(* The fate of each record.                                                *)
Traced ==
  \A r \in submitted : \/ r.low /\ r \in refused
                       \/ r \in Range(queue) \cup held \cup stored \cup reported

(* run() drops what it holds only when it is in the log or reported.       *)
HeldIsStored == worker = "appended" => held \subseteq stored

(* Every step passes a record on from one place to the next.               *)
LEMMA TracedStep == IInv /\ Traced /\ HeldIsStored /\ [Next]_vars => Traced' /\ HeldIsStored'
<1> SUFFICES ASSUME IInv, Traced, HeldIsStored, [Next]_vars PROVE Traced' /\ HeldIsStored'
  OBVIOUS
<1>0. TypeOK /\ HoldsOne
  BY DEF IInv
<1> USE DEF history
<1>1. HeldIsStored'
  BY DEF HeldIsStored, Next, Write, Run, RejectOversize, WriteWithoutFile, Refuse, Enqueue,
     CountAccepted, Notify, Wait, Exit, Take, Rotate, RotateBlindly, RotateFails, OpenFails, AppendRecord,
     AppendFails, CountWritten, ReportFailure, SpuriousWake, Close, NotifyAll, Join, Wake, vars
<1> SUFFICES Traced'
  BY <1>1
<1>2. ASSUME submitted' \subseteq submitted, refused' = refused,
             Range(queue) \cup held \cup stored \cup reported \subseteq
               (Range(queue) \cup held \cup stored \cup reported)'
      PROVE  Traced'
  BY <1>2 DEF Traced
<1>3. ASSUME NEW w \in Writers, NEW r \in Records, Declines(w, r) PROVE Traced'
  <2>1. /\ submitted' = submitted \cup {r} /\ refused' = refused \cup {r}
        /\ UNCHANGED <<queue, held, stored>>
    BY <1>3 DEF Declines, RejectOversize, WriteWithoutFile, Refuse, Calls
  <2>2. reported \subseteq reported' /\ (r.low \/ r \in reported')
    BY <1>3 DEF Declines, RejectOversize, WriteWithoutFile, Refuse, FallBack
  <2> QED
    BY <2>1, <2>2 DEF Traced
<1>4. ASSUME NEW w \in Writers, NEW r \in Records, Enqueue(w, r) PROVE Traced'
  <2>1. Range(queue') = Range(queue) \cup {r}
    <3>1. /\ queue \in Seq(Records) /\ queue' = Append(queue, r)
          /\ DOMAIN queue = 1 .. Len(queue) /\ Len(queue) \in Nat
      BY <1>0, <1>4, LenProperties DEF TypeOK, Enqueue
    <3>2. /\ DOMAIN queue' = 1 .. (Len(queue) + 1) /\ queue'[Len(queue) + 1] = r
          /\ \A k \in 1 .. Len(queue) : queue'[k] = queue[k]
      BY <3>1, AppendProperties
    <3> QED
      BY <3>1, <3>2 DEF Range
  <2> QED
    BY <1>4, <2>1 DEF Enqueue, Calls, Traced
<1>5. CASE Take
  <2>1. held = {}
    BY <1>0, <1>5 DEF HoldsOne, Take, Holding
  <2>2. Range(queue) \subseteq Range(queue') \cup held'
    <3>1. /\ queue \in Seq(Records) /\ queue # <<>> /\ queue' = Tail(queue)
          /\ held' = {Head(queue)}
      BY <1>0, <1>5 DEF TypeOK, Take
    <3>2. /\ DOMAIN queue = 1 .. Len(queue) /\ Len(queue) \in Nat /\ Head(queue) = queue[1]
          /\ DOMAIN queue' = 1 .. (Len(queue) - 1)
          /\ \A k \in 1 .. (Len(queue) - 1) : queue'[k] = queue[k + 1]
      BY <3>1, LenProperties, HeadTailProperties
    <3>3. ASSUME NEW k \in 1 .. Len(queue) PROVE queue[k] \in Range(queue') \cup held'
      <4>1. CASE k = 1
        BY <3>1, <3>2, <4>1
      <4>2. CASE k # 1
        <5>1. k - 1 \in 1 .. (Len(queue) - 1) /\ (k - 1) + 1 = k
          BY <3>2, <4>2
        <5> QED
          BY <3>2, <5>1 DEF Range
      <4> QED
        BY <4>1, <4>2
    <3> QED
      BY <3>2, <3>3 DEF Range
  <2> QED
    BY <1>2, <1>5, <2>1, <2>2 DEF Take
<1>6. CASE CountWritten
  <2>1. held \subseteq stored
    BY <1>6 DEF HeldIsStored, CountWritten
  <2> QED
    BY <1>2, <1>6, <2>1 DEF CountWritten
<1>7. CASE ReportFailure \/ AppendRecord
  BY <1>2, <1>7 DEF ReportFailure, AppendRecord
<1>8. CASE UNCHANGED <<queue, held, submitted, refused, stored, reported>>
  BY <1>2, <1>8
<1> QED
  BY <1>1, <1>3, <1>4, <1>5, <1>6, <1>7, <1>8
     DEF Next, Write, Run, Declines, CountAccepted, Notify, Wait, Exit, Rotate, RotateBlindly, RotateFails,
         OpenFails, AppendFails, SpuriousWake, Close, NotifyAll, Join, vars

(* No record is lost, whatever the disk refuses, and none is on its way    *)
(* any more when shutdown() returns.                                       *)
THEOREM NothingLost == Spec => []NoRecordLost
<1>1. Init => Traced /\ HeldIsStored
  BY DEF Init, Traced, HeldIsStored
<1>2. IInv /\ Traced => NoRecordLost
  BY DEF IInv, ExitsDrained, HoldsOne, Holding, Traced, NoRecordLost
<1> QED
  BY <1>1, <1>2, TracedStep, Invariant, PTL DEF Spec
-----------------------------------------------------------------------------
(* The counters.  A record that is queued but not counted yet is owed to   *)
(* accepted_; one in the queue or in run()'s hands to written_ or          *)
(* fallback_.                                                              *)
Uncounted == {w \in Writers : writer[w] = "queued"}
Told == {r \in refused : ~r.low}

Finite == IsFiniteSet(submitted) /\ IsFiniteSet(refused) /\ IsFiniteSet(Uncounted)

Counted ==
  path_given =>
    /\ accepted + Cardinality(Uncounted) + dropped = Cardinality(submitted)
    /\ written + fallback + Len(queue) + Cardinality(held)
         = accepted + Cardinality(Uncounted) + Cardinality(Told)

(* The sets that are counted are finite, and their sizes are numbers.      *)
LEMMA Sizes ==
  ASSUME Finite, HoldsOne
  PROVE  /\ Cardinality(Uncounted) \in Nat /\ Cardinality(submitted) \in Nat
         /\ IsFiniteSet(Told) /\ Cardinality(Told) \in Nat
         /\ IsFiniteSet(held)
         /\ worker \in Holding => Cardinality(held) = 1
         /\ worker \notin Holding => Cardinality(held) = 0
<1>1. IsFiniteSet(Told)
  BY FS_Subset DEF Finite, Told
<1>2. worker \in Holding => IsFiniteSet(held) /\ Cardinality(held) = 1
  BY FS_Singleton DEF HoldsOne
<1>3. worker \notin Holding => IsFiniteSet(held) /\ Cardinality(held) = 0
  BY FS_EmptySet DEF HoldsOne
<1> QED
  BY <1>1, <1>2, <1>3, FS_CardinalityType DEF Finite

(* What a call of write() adds to the sets.                                *)
LEMMA DeclineCounts ==
  ASSUME IInv, Finite, NEW w \in Writers, NEW r \in Records, Declines(w, r)
  PROVE  /\ IsFiniteSet(submitted') /\ IsFiniteSet(refused')
         /\ Cardinality(submitted') = Cardinality(submitted) + 1
         /\ r.low => Cardinality(Told') = Cardinality(Told)
         /\ ~r.low => Cardinality(Told') = Cardinality(Told) + 1
<1>1. /\ submitted' = submitted \cup {r} /\ refused' = refused \cup {r}
      /\ r \notin submitted /\ r \notin refused
  BY DEF Declines, RejectOversize, WriteWithoutFile, Refuse, Calls, IInv, TypeOK
<1>2. IsFiniteSet(Told) /\ r \notin Told
  BY <1>1, FS_Subset DEF Finite, Told
<1>3. r.low => Told' = Told
  BY <1>1 DEF Told
<1>4. ~r.low => Told' = Told \cup {r}
  BY <1>1 DEF Told
<1> QED
  BY <1>1, <1>2, <1>3, <1>4, FS_AddElement DEF Finite

(* Every step keeps the accounts.                                          *)
LEMMA CountedStep == IInv /\ Finite /\ Counted /\ [Next]_vars => Finite' /\ Counted'
<1> SUFFICES ASSUME IInv, Finite, Counted, [Next]_vars PROVE Finite' /\ Counted'
  OBVIOUS
<1>0. TypeOK /\ HoldsOne /\ TypeOK' /\ HoldsOne'
  BY TypeStep, HoldsStep DEF IInv
<1>1. /\ Cardinality(Uncounted) \in Nat /\ Cardinality(submitted) \in Nat
      /\ Cardinality(Told) \in Nat /\ Cardinality(held) \in Nat
      /\ accepted \in Nat /\ written \in Nat /\ dropped \in Nat /\ fallback \in Nat
      /\ Len(queue) \in Nat
  BY <1>0, Sizes, LenProperties DEF TypeOK
<1>2. UNCHANGED writer => Uncounted' = Uncounted
  BY DEF Uncounted
<1>3. UNCHANGED refused => Told' = Told
  BY DEF Told
<1> USE DEF history, counters
<1>4. ASSUME NEW w \in Writers, NEW r \in Records, Declines(w, r) PROVE Finite' /\ Counted'
  <2>1. UNCHANGED <<queue, held, writer, accepted, written>>
    BY <1>4 DEF Declines, RejectOversize, WriteWithoutFile, Refuse
  <2>2. path_given' = path_given
    BY <1>4 DEF Next, vars
  <2>3. path_given => dropped' = dropped + 1
    BY <1>4 DEF Declines, RejectOversize, WriteWithoutFile, Refuse
  <2>4. /\ r.low => fallback' = fallback /\ Cardinality(Told') = Cardinality(Told)
        /\ ~r.low => fallback' = fallback + 1 /\ Cardinality(Told') = Cardinality(Told) + 1
    BY <1>4, DeclineCounts DEF Declines, RejectOversize, WriteWithoutFile, Refuse, FallBack
  <2>5. /\ IsFiniteSet(submitted') /\ IsFiniteSet(refused')
        /\ Cardinality(submitted') = Cardinality(submitted) + 1
    BY <1>4, DeclineCounts
  <2>6. Finite'
    BY <1>2, <2>1, <2>5 DEF Finite
  <2>7. Counted'
    <3>1. /\ accepted' = accepted /\ written' = written /\ Len(queue') = Len(queue)
          /\ Cardinality(held') = Cardinality(held)
          /\ Cardinality(Uncounted') = Cardinality(Uncounted)
      BY <1>2, <2>1
    <3>2. PICK n \in {0, 1} : fallback' = fallback + n /\ Cardinality(Told') = Cardinality(Told) + n
      BY <1>1, <2>4
    <3>3. ASSUME path_given
          PROVE  /\ accepted' + Cardinality(Uncounted') + dropped' = Cardinality(submitted')
                 /\ written' + fallback' + Len(queue') + Cardinality(held')
                      = accepted' + Cardinality(Uncounted') + Cardinality(Told')
      <4>1. /\ accepted + Cardinality(Uncounted) + dropped = Cardinality(submitted)
            /\ written + fallback + Len(queue) + Cardinality(held)
                 = accepted + Cardinality(Uncounted) + Cardinality(Told)
        BY <3>3 DEF Counted
      <4>2. accepted' + Cardinality(Uncounted') + dropped' = Cardinality(submitted')
        BY <1>1, <2>3, <2>5, <3>1, <3>3, <4>1
      <4>3. written' + fallback' + Len(queue') + Cardinality(held')
              = accepted' + Cardinality(Uncounted') + Cardinality(Told')
        BY <1>1, <3>2, <3>1, <4>1, SMTT(30)
      <4> QED
        BY <4>2, <4>3
    <3> QED
      BY <2>2, <3>3 DEF Counted
  <2> QED
    BY <2>6, <2>7
<1>5. ASSUME NEW w \in Writers, NEW r \in Records, Enqueue(w, r) PROVE Finite' /\ Counted'
  <2>1. /\ submitted' = submitted \cup {r} /\ r \notin submitted
        /\ UNCHANGED <<held, refused, accepted, written, dropped, fallback>>
        /\ writer[w] = "idle" /\ writer' = [writer EXCEPT ![w] = "queued"]
        /\ queue' = Append(queue, r)
    BY <1>5 DEF Enqueue, Calls
  <2>2. path_given' = path_given
    BY <1>5 DEF Next, vars
  <2>3. Uncounted' = Uncounted \cup {w} /\ w \notin Uncounted
    BY <1>0, <2>1 DEF Uncounted, TypeOK
  <2>4. /\ IsFiniteSet(Uncounted') /\ Cardinality(Uncounted') = Cardinality(Uncounted) + 1
        /\ IsFiniteSet(submitted') /\ Cardinality(submitted') = Cardinality(submitted) + 1
    BY <2>1, <2>3, FS_AddElement DEF Finite
  <2>5. Len(queue') = Len(queue) + 1
    BY <1>0, <2>1, AppendProperties DEF TypeOK
  <2>6. Counted'
    <3>1. /\ accepted' = accepted /\ written' = written /\ dropped' = dropped
          /\ fallback' = fallback /\ Cardinality(held') = Cardinality(held)
          /\ Cardinality(Told') = Cardinality(Told)
      BY <1>3, <2>1
    <3>3. ASSUME path_given
          PROVE  /\ accepted' + Cardinality(Uncounted') + dropped' = Cardinality(submitted')
                 /\ written' + fallback' + Len(queue') + Cardinality(held')
                      = accepted' + Cardinality(Uncounted') + Cardinality(Told')
      <4>1. /\ accepted + Cardinality(Uncounted) + dropped = Cardinality(submitted)
            /\ written + fallback + Len(queue) + Cardinality(held)
                 = accepted + Cardinality(Uncounted) + Cardinality(Told)
        BY <3>3 DEF Counted
      <4>2. accepted' + Cardinality(Uncounted') + dropped' = Cardinality(submitted')
        BY <1>1, <2>4, <3>1, <3>3, <4>1
      <4>3. written' + fallback' + Len(queue') + Cardinality(held')
              = accepted' + Cardinality(Uncounted') + Cardinality(Told')
        <5>1. written' + fallback' + Len(queue') + Cardinality(held')
                = (written + fallback + Len(queue) + Cardinality(held)) + 1
          BY <1>1, <2>5, <3>1
        <5>2. accepted' + Cardinality(Uncounted') + Cardinality(Told')
                = (accepted + Cardinality(Uncounted) + Cardinality(Told)) + 1
          BY <1>1, <2>4, <3>1
        <5> QED
          BY <4>1, <5>1, <5>2
      <4> QED
        BY <4>2, <4>3
    <3> QED
      BY <2>2, <3>3 DEF Counted
  <2> QED
    BY <2>1, <2>4, <2>6 DEF Finite
<1>6. ASSUME NEW w \in Writers, CountAccepted(w) PROVE Finite' /\ Counted'
  <2>1. /\ UNCHANGED <<queue, held, submitted, refused, written, dropped, fallback>>
        /\ accepted' = accepted + 1
        /\ writer[w] = "queued" /\ writer' = [writer EXCEPT ![w] = "counted"]
    BY <1>6 DEF CountAccepted
  <2>2. path_given' = path_given
    BY <1>6 DEF Next, vars
  <2>3. Uncounted' = Uncounted \ {w} /\ w \in Uncounted
    BY <1>0, <2>1 DEF Uncounted, TypeOK
  <2>4. IsFiniteSet(Uncounted') /\ Cardinality(Uncounted') = Cardinality(Uncounted) - 1
    BY <2>3, FS_RemoveElement DEF Finite
  <2>5. Counted'
    BY <1>1, <1>3, <2>1, <2>2, <2>4, SMTT(30) DEF Counted
  <2> QED
    BY <2>1, <2>4, <2>5 DEF Finite
<1>7. ASSUME UNCHANGED <<queue, held, submitted, refused, accepted, written, dropped, fallback>>,
             UNCHANGED path_given, Uncounted' = Uncounted
      PROVE  Finite' /\ Counted'
  BY <1>3, <1>7 DEF Finite, Counted
<1>8. ASSUME NEW w \in Writers, Notify(w) PROVE Uncounted' = Uncounted
  BY <1>0, <1>8 DEF Notify, Uncounted, TypeOK
<1>9. CASE Take
  <2>1. /\ UNCHANGED <<writer, submitted, refused, accepted, written, dropped, fallback>>
        /\ queue # <<>> /\ queue' = Tail(queue)
        /\ worker \notin Holding /\ worker' \in Holding
    BY <1>9 DEF Take, Holding
  <2>2. path_given' = path_given
    BY <1>9 DEF Next, vars
  <2>3. Len(queue') = Len(queue) - 1
    BY <1>0, <2>1, HeadTailProperties DEF TypeOK
  <2>4. Finite'
    BY <1>2, <2>1 DEF Finite
  <2>5. Cardinality(held) = 0 /\ Cardinality(held') = 1
    <3>1. ASSUME Finite, HoldsOne, Finite', HoldsOne', worker \notin Holding, worker' \in Holding
          PROVE  Cardinality(held) = 0 /\ Cardinality(held') = 1
      BY <3>1, FS_EmptySet, FS_Singleton DEF HoldsOne
    <3> QED
      BY <1>0, <2>1, <2>4, <3>1
  <2>6. Counted'
    BY <1>1, <1>2, <1>3, <2>1, <2>2, <2>3, <2>5 DEF Counted
  <2> QED
    BY <2>4, <2>6
<1>10. CASE CountWritten \/ ReportFailure
  <2>1. /\ UNCHANGED <<queue, writer, submitted, refused, accepted, dropped>>
        /\ \/ written' = written + 1 /\ fallback' = fallback
           \/ written' = written /\ fallback' = fallback + 1
        /\ worker \in Holding /\ held' = {}
    BY <1>10 DEF CountWritten, ReportFailure, Holding
  <2>2. path_given' = path_given
    BY <1>10 DEF Next, vars
  <2>3. Cardinality(held) = 1 /\ Cardinality(held') = 0
    BY <1>0, <2>1, Sizes, FS_EmptySet
  <2>4. Counted'
    <3>1. /\ accepted' = accepted /\ dropped' = dropped /\ Len(queue') = Len(queue)
          /\ Cardinality(Uncounted') = Cardinality(Uncounted)
          /\ Cardinality(Told') = Cardinality(Told)
          /\ Cardinality(submitted') = Cardinality(submitted)
      BY <1>2, <1>3, <2>1
    <3>2. ASSUME path_given
          PROVE  written' + fallback' + Len(queue') + Cardinality(held')
                   = written + fallback + Len(queue) + Cardinality(held)
      BY <1>1, <2>1, <2>3, <3>1
    <3> QED
      BY <1>1, <2>2, <3>1, <3>2 DEF Counted
  <2> QED
    BY <1>2, <2>1, <2>4 DEF Finite
<1>11. CASE \/ Wait \/ Exit \/ Rotate \/ RotateBlindly \/ RotateFails \/ OpenFails \/ AppendRecord \/ AppendFails
            \/ SpuriousWake \/ Close \/ NotifyAll \/ Join \/ UNCHANGED vars
  BY <1>2, <1>7, <1>11 DEF Wait, Exit, Rotate, RotateBlindly, RotateFails, OpenFails, AppendRecord, AppendFails,
     SpuriousWake, Close, NotifyAll, Join, Next, vars
<1>12. ASSUME NEW w \in Writers, Notify(w) PROVE Finite' /\ Counted'
  BY <1>7, <1>8, <1>12 DEF Notify, Next, vars
<1> QED
  BY <1>4, <1>5, <1>6, <1>9, <1>10, <1>11, <1>12 DEF Next, Write, Run, Declines

(* Once nothing is under way the counters account for every record, for    *)
(* any number of writers and any failures of the disk.                     *)
THEOREM LossVisible == Spec => []LossIsVisible
<1>1. Init => Finite /\ Counted
  <2> SUFFICES ASSUME Init PROVE Finite /\ Counted
    OBVIOUS
  <2>1. Uncounted = {} /\ Told = {} /\ submitted = {} /\ refused = {} /\ held = {}
    BY DEF Init, Uncounted, Told
  <2>2. Len(queue) = 0
    BY EmptySeq DEF Init
  <2> QED
    BY <2>1, <2>2, FS_EmptySet DEF Init, Finite, Counted
<1>2. IInv /\ Finite /\ Counted => LossIsVisible
  <2> SUFFICES ASSUME IInv, Finite, Counted, path_given, queue = <<>>, held = {},
                      \A w \in Writers : writer[w] = "idle"
               PROVE  /\ accepted + dropped = Cardinality(submitted)
                      /\ written + fallback = accepted + Cardinality({r \in refused : ~r.low})
    BY DEF LossIsVisible
  <2>1. Uncounted = {} /\ Cardinality(Uncounted) = 0 /\ Cardinality(held) = 0 /\ Len(queue) = 0
    BY FS_EmptySet, EmptySeq DEF Uncounted
  <2>2. /\ accepted \in Nat /\ written \in Nat /\ dropped \in Nat /\ fallback \in Nat
        /\ Cardinality(submitted) \in Nat /\ Cardinality(Told) \in Nat
    BY Sizes DEF IInv, TypeOK
  <2> QED
    BY <2>1, <2>2 DEF Counted, Told
<1> QED
  BY <1>1, <1>2, CountedStep, Invariant, PTL DEF Spec
-----------------------------------------------------------------------------
(* The order of the files.  What is queued are the last of the accepted    *)
(* records, run() holds the one before them, and the files have only       *)
(* earlier ones.                                                           *)
Taken == Len(order) - Len(queue)
Done == IF worker \in {"taken", "rotated"} THEN Taken - 1 ELSE Taken

QueueIsTail ==
  /\ Len(queue) <= Len(order)
  /\ \A k \in 1 .. Len(queue) : queue[k] = order[Taken + k]
  /\ worker \in Holding => Taken >= 1 /\ held = {order[Taken]}

Placed ==
  \A i \in Slots : Exists(i) =>
    \A p \in DOMAIN files[i] : \E k \in 1 .. Done : files[i][p].record = order[k]

(* Lengths are numbers.                                                    *)
LEMMA Lengths ==
  ASSUME TypeOK
  PROVE  /\ Len(queue) \in Nat /\ DOMAIN queue = 1 .. Len(queue)
         /\ Len(order) \in Nat /\ DOMAIN order = 1 .. Len(order)
         /\ Taken \in Int /\ Done \in Int
<1>1. /\ Len(queue) \in Nat /\ DOMAIN queue = 1 .. Len(queue)
      /\ Len(order) \in Nat /\ DOMAIN order = 1 .. Len(order)
  BY LenProperties DEF TypeOK
<1> QED
  BY <1>1 DEF Taken, Done

(* The accepted records only grow, at the end.                             *)
Extends ==
  /\ Len(order') >= Len(order)
  /\ \A k \in 1 .. Len(order) : order'[k] = order[k]

(* Queue and history move together, and what is done stays done.           *)
LEMMA QueueStep ==
  ASSUME IInv, QueueIsTail, [Next]_vars
  PROVE  QueueIsTail' /\ Extends /\ Done' >= Done /\ Done' <= Len(order')
<1>0. TypeOK /\ HoldsOne /\ TypeOK' /\ HoldsOne'
  BY TypeStep, HoldsStep DEF IInv
<1>1. /\ queue \in Seq(Records) /\ Len(queue) \in Nat /\ order \in Seq(Records) /\ Len(order) \in Nat
      /\ Taken \in Nat
  BY <1>0, Lengths DEF TypeOK, QueueIsTail, Taken
<1> USE DEF history
<1>2. ASSUME NEW w \in Writers, NEW r \in Records, Enqueue(w, r)
      PROVE  QueueIsTail' /\ Extends /\ Done' >= Done /\ Done' <= Len(order')
  <2>1. /\ queue' = Append(queue, r) /\ order' = Append(order, r)
        /\ UNCHANGED <<worker, held>>
    BY <1>2 DEF Enqueue
  <2>2. /\ Len(queue') = Len(queue) + 1 /\ queue'[Len(queue) + 1] = r
        /\ \A k \in 1 .. Len(queue) : queue'[k] = queue[k]
    BY <1>1, <2>1, AppendProperties
  <2>3. /\ Len(order') = Len(order) + 1 /\ order'[Len(order) + 1] = r
        /\ \A k \in 1 .. Len(order) : order'[k] = order[k]
    BY <1>1, <2>1, AppendProperties
  <2>4. Taken' = Taken /\ Done' = Done /\ Done <= Taken /\ Taken <= Len(order)
    BY <1>1, <2>1, <2>2, <2>3 DEF Taken, Done
  <2>5. ASSUME NEW k \in 1 .. Len(queue') PROVE queue'[k] = order'[Taken + k]
    <3>1. CASE k = Len(queue) + 1
      <4>1. Taken + k = Len(order) + 1
        BY <1>1, <3>1 DEF Taken
      <4> QED
        BY <2>2, <2>3, <3>1, <4>1
    <3>2. CASE k # Len(queue) + 1
      <4>1. k \in 1 .. Len(queue) /\ Taken + k \in 1 .. Len(order)
        BY <1>1, <2>2, <3>2 DEF Taken
      <4> QED
        BY <2>2, <2>3, <4>1 DEF QueueIsTail
    <3> QED
      BY <3>1, <3>2
  <2>6. worker' \in Holding => Taken' >= 1 /\ held' = {order'[Taken']}
    <3>1. worker \in Holding => Taken \in 1 .. Len(order)
      BY <1>1, <2>4 DEF QueueIsTail
    <3> QED
      BY <2>1, <2>3, <2>4, <3>1 DEF QueueIsTail
  <2>7. Len(queue') <= Len(order')
    BY <1>1, <2>2, <2>3 DEF QueueIsTail
  <2>8. QueueIsTail'
    BY <2>4, <2>5, <2>6, <2>7 DEF QueueIsTail
  <2>9. Extends
    BY <1>1, <2>3 DEF Extends
  <2>10. Done \in Int
    BY <1>1 DEF Done
  <2> QED
    BY <1>1, <2>3, <2>4, <2>8, <2>9, <2>10
<1>3. CASE Take
  <2>1. /\ queue # <<>> /\ queue' = Tail(queue) /\ held' = {Head(queue)}
        /\ worker = "checking" /\ worker' = "taken" /\ order' = order
    BY <1>3 DEF Take
  <2>2. /\ Len(queue) >= 1 /\ Len(queue') = Len(queue) - 1 /\ Head(queue) = queue[1]
        /\ \A k \in 1 .. (Len(queue) - 1) : queue'[k] = queue[k + 1]
    BY <1>1, <2>1, HeadTailProperties, EmptySeq
  <2>3. Taken' = Taken + 1 /\ Done' = Done /\ Done = Taken /\ Taken + 1 <= Len(order)
    BY <1>1, <2>1, <2>2 DEF Taken, Done
  <2>4. ASSUME NEW k \in 1 .. Len(queue') PROVE queue'[k] = order'[Taken' + k]
    <3>1. k \in 1 .. (Len(queue) - 1) /\ k + 1 \in 1 .. Len(queue) /\ Taken' + k = Taken + (k + 1)
      BY <1>1, <2>2, <2>3
    <3> QED
      BY <2>1, <2>2, <3>1 DEF QueueIsTail
  <2>5. held' = {order'[Taken']} /\ Taken' >= 1
    <3>1. 1 \in 1 .. Len(queue)
      BY <1>1, <2>2
    <3>2. queue[1] = order[Taken + 1]
      BY <3>1 DEF QueueIsTail
    <3> QED
      BY <1>1, <2>1, <2>2, <2>3, <3>2
  <2>6. Len(queue') <= Len(order')
    BY <1>1, <2>1, <2>2 DEF QueueIsTail
  <2>7. QueueIsTail'
    BY <2>4, <2>5, <2>6 DEF QueueIsTail
  <2>8. Extends
    BY <1>1, <2>1 DEF Extends
  <2> QED
    BY <1>1, <2>1, <2>3, <2>7, <2>8
<1>4. CASE UNCHANGED <<queue, order>> /\ ~Take
  <2>1. Taken' = Taken /\ Extends
    BY <1>1, <1>4 DEF Taken, Extends
  <2>2. worker' \in Holding => worker \in Holding /\ held' = held
    BY <1>4 DEF Holding, Next, Write, Run, RejectOversize, WriteWithoutFile, Refuse, Enqueue,
     CountAccepted, Notify, Wait, Exit, Rotate, RotateBlindly, RotateFails, OpenFails, AppendRecord,
     AppendFails, CountWritten, ReportFailure, SpuriousWake, Close, NotifyAll, Join, Wake, vars
  <2>3. worker' \in {"taken", "rotated"} => worker \in {"taken", "rotated"}
    BY <1>4 DEF Next, Write, Run, RejectOversize, WriteWithoutFile, Refuse, Enqueue,
     CountAccepted, Notify, Wait, Exit, Rotate, RotateBlindly, RotateFails, OpenFails, AppendRecord,
     AppendFails, CountWritten, ReportFailure, SpuriousWake, Close, NotifyAll, Join, Wake, vars
  <2>4. QueueIsTail'
    BY <1>4, <2>1, <2>2 DEF QueueIsTail
  <2>5. Taken <= Len(order)
    BY <1>1 DEF Taken
  <2>6. Done' >= Done /\ Done' <= Taken
    BY <1>1, <2>1, <2>3 DEF Done
  <2>7. Done' \in Int
    BY <1>1, <2>1 DEF Done
  <2> QED
    BY <1>1, <1>4, <2>1, <2>4, <2>5, <2>6, <2>7
<1> QED
  BY <1>2, <1>3, <1>4 DEF Next, Write, Run, RejectOversize, WriteWithoutFile, Refuse,
     CountAccepted, Notify, Wait, Exit, Rotate, RotateBlindly, RotateFails, OpenFails, AppendRecord,
     AppendFails, CountWritten, ReportFailure, SpuriousWake, Close, NotifyAll, Join, vars

(* A rotation, complete or broken off, moves whole files and never past    *)
(* one another.                                                            *)
LEMMA RotationMoves ==
  ASSUME TypeOK, Rotates
  PROVE  \E src \in [Slots -> Slots] :
           /\ \A i \in Slots : files'[i] # Absent => files'[i] = files[src[i]]
           /\ \A i, j \in Slots : files'[i] # Absent /\ files'[j] # Absent /\ i > j => src[i] > src[j]
<1>1. PICK k \in Slots, seen \in SUBSET Movable : Moved(k, seen)
  BY RotatedFiles
<1> DEFINE Up(i) == i > k /\ i - 1 \in seen
           src == [i \in Slots |-> IF Up(i) THEN i - 1 ELSE i]
<1>2. k \in Nat /\ seen \subseteq Slots /\ \A i \in Slots : i \in Nat
  BY LoggerAssumption DEF Slots, Movable
<1>3. src \in [Slots -> Slots] /\ \A i \in Slots : src[i] = IF Up(i) THEN i - 1 ELSE i
  BY <1>2
<1> HIDE DEF src
<1>4. ASSUME NEW i \in Slots, files'[i] # Absent
      PROVE  files'[i] = files[src[i]]
  BY <1>1, <1>2, <1>3, <1>4 DEF Moved
<1>5. ASSUME NEW i \in Slots, NEW j \in Slots, files'[i] # Absent, files'[j] # Absent, i > j
      PROVE  src[i] > src[j]
  <2>1. i \in Nat /\ j \in Nat
    BY <1>2
  <2>2. CASE Up(i) /\ ~Up(j) /\ j = i - 1
    <3>1. j \in seen /\ j >= k
      BY <1>2, <2>1, <2>2
    <3>2. files'[j] = Absent
      BY <1>1, <2>2, <3>1 DEF Moved
    <3> QED
      BY <1>5, <3>2
  <2>3. CASE ~(Up(i) /\ ~Up(j) /\ j = i - 1)
    BY <1>3, <1>5, <2>1, <2>3
  <2> QED
    BY <2>2, <2>3
<1> QED
  BY <1>3, <1>4, <1>5

(* The order after the step.                                               *)
BeforeNext(r, s) == \E i, j \in DOMAIN order' : i < j /\ order'[i] = r /\ order'[j] = s

(* Every step keeps the files in the order of acceptance.                  *)
LEMMA FilesStep ==
  ASSUME IInv, QueueIsTail, Placed, FilesInOrder, [Next]_vars
  PROVE  Placed' /\ FilesInOrder'
<1>0. /\ TypeOK /\ HoldsOne /\ Len(order) \in Nat /\ Done \in Int
      /\ DOMAIN order = 1 .. Len(order)
  BY Lengths DEF IInv
<1>1. /\ Len(order') \in Nat /\ Done' \in Int /\ DOMAIN order' = 1 .. Len(order')
      /\ Len(order') >= Len(order) /\ \A k \in 1 .. Len(order) : order'[k] = order[k]
      /\ Done' >= Done /\ Done' <= Len(order')
  <2>1. TypeOK'
    BY TypeStep
  <2>2. Len(order') \in Nat /\ DOMAIN order' = 1 .. Len(order')
    BY <2>1, LenProperties DEF TypeOK
  <2>3. Len(queue') \in Nat
    BY <2>1, LenProperties DEF TypeOK
  <2>4. Done' \in Int
    BY <2>2, <2>3 DEF Done, Taken
  <2> QED
    BY <2>2, <2>4, QueueStep DEF Extends
<1>2. Done <= Len(order)
  <2>1. Len(queue) \in Nat
    BY <1>0, Lengths
  <2> QED
    BY <1>0, <2>1 DEF Done, Taken
<1>3. ASSUME NEW r, \E k \in 1 .. Done : r = order[k] PROVE \E k \in 1 .. Done' : r = order'[k]
  BY <1>0, <1>1, <1>2, <1>3
<1>4. \A r, q : Before(r, q) => BeforeNext(r, q)
  BY <1>0, <1>1 DEF Before, BeforeNext
<1>5. ASSUME NEW src \in [Slots -> Slots],
             \A i \in Slots : files'[i] # Absent => files'[i] = files[src[i]],
             \A i, j \in Slots : files'[i] # Absent /\ files'[j] # Absent /\ i > j => src[i] > src[j]
      PROVE  Placed' /\ FilesInOrder'
  <2>1. Placed'
    <3> SUFFICES ASSUME NEW i \in Slots, files'[i] # Absent, NEW p \in DOMAIN files'[i]
                 PROVE  \E k \in 1 .. Done' : files'[i][p].record = order'[k]
      BY DEF Placed, Exists
    <3>1. files'[i] = files[src[i]] /\ src[i] \in Slots /\ Exists(src[i])
      BY <1>5 DEF Exists
    <3>2. \E k \in 1 .. Done : files'[i][p].record = order[k]
      BY <3>1 DEF Placed
    <3> QED
      BY <1>3, <3>2
  <2>2. FilesInOrder'
    <3> SUFFICES ASSUME NEW i \in Slots, NEW j \in Slots, files'[i] # Absent, files'[j] # Absent,
                        NEW p \in DOMAIN files'[i], NEW q \in DOMAIN files'[j],
                        i > j \/ (i = j /\ p < q)
                 PROVE  BeforeNext(files'[i][p].record, files'[j][q].record)
      BY DEF FilesInOrder, Exists, Before, BeforeNext
    <3>1. /\ files'[i] = files[src[i]] /\ src[i] \in Slots /\ Exists(src[i])
          /\ files'[j] = files[src[j]] /\ src[j] \in Slots /\ Exists(src[j])
      BY <1>5 DEF Exists
    <3>2. src[i] > src[j] \/ (src[i] = src[j] /\ p < q)
      BY <1>5
    <3>3. Before(files'[i][p].record, files'[j][q].record)
      BY <3>1, <3>2 DEF FilesInOrder
    <3> QED
      BY <1>4, <3>3
  <2> QED
    BY <2>1, <2>2
<1>6. CASE UNCHANGED files
  <2> DEFINE src == [i \in Slots |-> i]
  <2>1. /\ src \in [Slots -> Slots]
        /\ \A i \in Slots : files'[i] # Absent => files'[i] = files[src[i]]
    BY <1>6
  <2>2. \A i, j \in Slots : files'[i] # Absent /\ files'[j] # Absent /\ i > j => src[i] > src[j]
    OBVIOUS
  <2> HIDE DEF src
  <2> QED
    BY <1>5, <2>1, <2>2
<1>7. CASE Rotates
  BY <1>0, <1>5, <1>7, RotationMoves
<1>8. CASE AppendRecord \/ AppendFails
  <2>1. PICK pieces \in Seq(Piece) :
          /\ files' = Appended(pieces)
          /\ Len(pieces) \in {0, 1}
          /\ \A p \in 1 .. Len(pieces) : {pieces[p].record} = held
    BY <1>0, <1>8, AppendedFiles
  <2>2. /\ \A i \in Slots \ {0} : files'[i] = files[i]
        /\ 0 \in Slots
        /\ Exists(0) => files[0] \in Seq(Piece) /\ files'[0] = files[0] \o pieces
        /\ ~Exists(0) => files'[0] = pieces
    BY <1>0, <2>1, AppendedSlots
  <2>3. /\ worker = "rotated" /\ worker' \in {"appended", "failing"}
        /\ UNCHANGED <<order, queue>>
    BY <1>8 DEF AppendRecord, AppendFails
  <2>4. /\ Taken \in 1 .. Len(order) /\ held = {order[Taken]}
        /\ Done = Taken - 1 /\ Done' = Taken
    <3>1. Taken >= 1 /\ held = {order[Taken]}
      BY <2>3 DEF QueueIsTail, Holding
    <3>2. Taken \in Int /\ Len(queue) \in Nat
      BY <1>0, Lengths
    <3>3. Taken <= Len(order)
      BY <1>0, <3>2 DEF Taken
    <3>4. Done = Taken - 1 /\ Done' = Taken
      BY <2>3 DEF Done, Taken
    <3> QED
      BY <1>0, <3>1, <3>2, <3>3, <3>4
  (* A piece of the log file was there, or is the new one at its end.      *)
  <2>5. ASSUME NEW p \in DOMAIN files'[0]
        PROVE  \/ Exists(0) /\ p \in DOMAIN files[0] /\ files'[0][p] = files[0][p]
               \/ /\ files'[0][p].record = order[Taken]
                  /\ \A q \in DOMAIN files'[0] : q <= p
                  /\ \A q \in DOMAIN files'[0] : q # p => Exists(0) /\ q \in DOMAIN files[0]
    <3>0. Len(pieces) \in Nat /\ DOMAIN pieces = 1 .. Len(pieces)
      BY LenProperties
    <3>1. CASE Exists(0)
      <4>1. /\ Len(files[0]) \in Nat /\ DOMAIN files[0] = 1 .. Len(files[0])
            /\ DOMAIN files'[0] = 1 .. (Len(files[0]) + Len(pieces))
            /\ \A n \in 1 .. (Len(files[0]) + Len(pieces)) :
                 files'[0][n] = IF n <= Len(files[0]) THEN files[0][n]
                                ELSE pieces[n - Len(files[0])]
        BY <2>2, <3>1, ConcatProperties, LenProperties
      <4>2. CASE p <= Len(files[0])
        BY <3>0, <3>1, <4>1, <4>2
      <4>3. CASE ~(p <= Len(files[0]))
        <5>0. p \in Nat /\ p <= Len(files[0]) + Len(pieces) /\ Len(pieces) # 0
          BY <3>0, <4>1, <4>3
        <5>1. Len(pieces) = 1 /\ p = Len(files[0]) + 1 /\ p - Len(files[0]) = 1
          <6>1. Len(pieces) = 1
            BY <2>1, <5>0
          <6> QED
            BY <4>1, <4>3, <5>0, <6>1
        <5>2. {pieces[1].record} = held
          BY <2>1, <5>1
        <5>3. files'[0][p] = pieces[1]
          BY <4>1, <4>3, <5>1
        <5>4. files'[0][p].record = order[Taken]
          BY <2>4, <5>2, <5>3
        <5>5. \A q \in DOMAIN files'[0] : q <= p /\ (q # p => q \in DOMAIN files[0])
          BY <4>1, <5>1
        <5> QED
          BY <3>1, <5>4, <5>5
      <4> QED
        BY <4>2, <4>3
    <3>2. CASE ~Exists(0)
      <4>1. files'[0] = pieces
        BY <2>2, <3>2
      <4>2. Len(pieces) = 1 /\ p = 1
        BY <2>1, <3>0, <4>1
      <4>3. {pieces[1].record} = held
        BY <2>1, <4>2
      <4>4. files'[0][p].record = order[Taken]
        BY <2>4, <4>1, <4>2, <4>3
      <4> QED
        BY <3>0, <4>1, <4>2, <4>4
    <3> QED
      BY <3>1, <3>2
  (* Whatever was in a file comes before the new piece.                    *)
  <2>6. ASSUME NEW i \in Slots, Exists(i), NEW p \in DOMAIN files[i]
        PROVE  Before(files[i][p].record, order[Taken])
    <3>1. PICK k \in 1 .. Done : files[i][p].record = order[k]
      BY <2>6 DEF Placed
    <3>2. k < Taken /\ k \in DOMAIN order /\ Taken \in DOMAIN order
      BY <1>0, <1>2, <2>4
    <3> QED
      BY <3>1, <3>2 DEF Before
  <2>7. Placed'
    <3> SUFFICES ASSUME NEW i \in Slots, files'[i] # Absent, NEW p \in DOMAIN files'[i]
                 PROVE  \E k \in 1 .. Done' : files'[i][p].record = order'[k]
      BY DEF Placed, Exists
    <3>1. CASE Exists(i) /\ p \in DOMAIN files[i] /\ files'[i][p] = files[i][p]
      <4>1. \E k \in 1 .. Done : files[i][p].record = order[k]
        BY <3>1 DEF Placed
      <4> QED
        BY <1>3, <3>1, <4>1
    <3>2. CASE files'[i][p].record = order[Taken]
      <4>1. Taken \in 1 .. Done' /\ order'[Taken] = order[Taken]
        BY <1>0, <1>1, <2>4
      <4> QED
        BY <3>2, <4>1
    <3>3. CASE i # 0
      BY <2>2, <3>1, <3>3 DEF Exists
    <3> QED
      BY <2>5, <3>1, <3>2, <3>3
  <2>8. FilesInOrder'
    <3> SUFFICES ASSUME NEW i \in Slots, NEW j \in Slots, files'[i] # Absent, files'[j] # Absent,
                        NEW p \in DOMAIN files'[i], NEW q \in DOMAIN files'[j],
                        i > j \/ (i = j /\ p < q)
                 PROVE  BeforeNext(files'[i][p].record, files'[j][q].record)
      BY DEF FilesInOrder, Exists, Before, BeforeNext
    <3> SUFFICES Before(files'[i][p].record, files'[j][q].record)
      BY <1>4
    <3>0. i \in Nat /\ j \in Nat
      BY DEF Slots
    <3>1. ASSUME Exists(i), p \in DOMAIN files[i], files'[i][p] = files[i][p],
                 Exists(j), q \in DOMAIN files[j], files'[j][q] = files[j][q]
          PROVE  Before(files'[i][p].record, files'[j][q].record)
      BY <3>1 DEF FilesInOrder
    <3>2. CASE j # 0
      <4>1. i # 0
        BY <3>0, <3>2
      <4> QED
        BY <2>2, <3>1, <3>2, <4>1 DEF Exists
    <3>3. CASE j = 0 /\ Exists(0) /\ q \in DOMAIN files[0] /\ files'[0][q] = files[0][q]
      <4>1. Exists(i) /\ p \in DOMAIN files[i] /\ files'[i][p] = files[i][p]
        <5>1. CASE i # 0
          BY <2>2, <5>1 DEF Exists
        <5>2. CASE i = 0
          <6>1. p < q /\ q \in DOMAIN files'[0] /\ p \in DOMAIN files'[0]
            BY <3>0, <3>3, <5>2
          <6>2. p \in Int /\ q \in Int
            <7>1. /\ files[0] \in Seq(Piece) /\ Len(files[0]) \in Nat /\ Len(pieces) \in Nat
                  /\ DOMAIN files'[0] = 1 .. (Len(files[0]) + Len(pieces))
              BY <2>2, <3>3, ConcatProperties, LenProperties
            <7> QED
              BY <6>1, <7>1
          <6>3. ~(q <= p)
            BY <6>1, <6>2
          <6> QED
            BY <2>5, <5>2, <6>1, <6>3
        <5> QED
          BY <5>1, <5>2
      <4> QED
        BY <3>1, <3>3, <4>1
    <3>4. CASE /\ j = 0 /\ files'[0][q].record = order[Taken]
               /\ \A x \in DOMAIN files'[0] : x <= q
               /\ \A x \in DOMAIN files'[0] : x # q => Exists(0) /\ x \in DOMAIN files[0]
      <4>1. CASE i # 0
        BY <2>2, <2>6, <3>4, <4>1 DEF Exists
      <4>2. CASE i = 0
        <5>0. p < q /\ p \in DOMAIN files'[0] /\ q \in DOMAIN files'[0]
          BY <3>0, <3>4, <4>2
        <5>1. DOMAIN files'[0] \subseteq Int
          <6>1. files'[0] \in Seq(Piece)
            BY <2>2, ConcatProperties
          <6> QED
            BY <6>1, LenProperties
        <5>2. p # q /\ ~(q <= p)
          BY <5>0, <5>1
        <5>3. Exists(0) /\ p \in DOMAIN files[0] /\ files'[0][p] = files[0][p]
          BY <2>5, <5>0, <5>2
        <5> QED
          BY <2>2, <2>6, <3>4, <4>2, <5>3
      <4> QED
        BY <4>1, <4>2
    <3> QED
      BY <2>5, <3>2, <3>3, <3>4
  <2> QED
    BY <2>7, <2>8
<1>9. CASE UNCHANGED vars
  BY <1>6, <1>9 DEF vars
<1> QED
  BY <1>6, <1>7, <1>8, <1>9, FilesKept

(* From the oldest rotated file to the log, records stand in the order in  *)
(* which they were accepted, for any number of files and any failures.     *)
THEOREM FilesOrdered == Spec => []FilesInOrder
<1>1. Init => QueueIsTail /\ Placed /\ FilesInOrder
  <2> SUFFICES ASSUME Init PROVE QueueIsTail /\ Placed /\ FilesInOrder
    OBVIOUS
  <2>1. \A i \in Slots : ~Exists(i)
    BY DEF Init, Exists
  <2>2. queue = <<>> /\ order = <<>> /\ worker \notin Holding /\ Len(queue) = 0 /\ Len(order) = 0
    BY EmptySeq DEF Init, Holding
  <2> QED
    BY <2>1, <2>2 DEF QueueIsTail, Placed, FilesInOrder
<1>2. IInv /\ QueueIsTail /\ Placed /\ FilesInOrder /\ [Next]_vars =>
        QueueIsTail' /\ Placed' /\ FilesInOrder'
  BY QueueStep, FilesStep
<1> QED
  BY <1>1, <1>2, Invariant, PTL DEF Spec
-----------------------------------------------------------------------------
(* What a rotation and an append leave of the files.                       *)
LEMMA KeptStep ==
  ASSUME IInv, [Next]_vars, NEW i \in Slots \ Expendable, Exists(i)
  PROVE  Range(files[i]) \subseteq Kept(files')
<1>1. TypeOK /\ HoldsOne
  BY DEF IInv
<1>2. ASSUME NEW j \in Slots, files'[j] = files[i] PROVE Range(files[i]) \subseteq Kept(files')
  BY <1>2 DEF Kept, Exists
<1>4. CASE Rotates
  <2>1. i # RotationFiles /\ i \notin overlooked'
    BY <1>4 DEF Rotates, Rotate, RotateBlindly, RotateFails, Expendable
  <2>2. PICK k \in Slots, seen \in SUBSET Movable :
          Movable \subseteq seen \cup overlooked' /\ Moved(k, seen)
    BY <1>1, <1>4, RotatedFiles
  <2>3. i \in seen
    BY <2>1, <2>2 DEF Movable
  <2>4. i \in Nat /\ k \in Nat /\ i + 1 \in Slots /\ (i + 1) - 1 = i
    BY <2>1, LoggerAssumption DEF Slots
  <2>5. CASE i < k
    BY <1>2, <2>2, <2>5 DEF Moved
  <2>6. CASE i >= k
    <3>1. i + 1 > k
      BY <2>4, <2>6
    <3>2. files'[i + 1] = files[i]
      BY <2>2, <2>3, <2>4, <3>1 DEF Moved
    <3> QED
      BY <1>2, <2>4, <3>2
  <2> QED
    BY <2>4, <2>5, <2>6
<1>5. CASE AppendRecord \/ AppendFails
  <2>1. PICK pieces \in Seq(Piece) : files' = Appended(pieces)
    BY <1>1, <1>5, AppendedFiles
  <2>2. /\ \A j \in Slots \ {0} : files'[j] = files[j]
        /\ 0 \in Slots
        /\ Exists(0) => files[0] \in Seq(Piece) /\ files'[0] = files[0] \o pieces
    BY <1>1, <2>1, AppendedSlots
  <2>3. CASE i = 0
    <3>1. /\ files'[0] \in Seq(Piece)
          /\ Len(files[0]) \in Nat /\ Len(pieces) \in Nat
          /\ DOMAIN files[0] = 1 .. Len(files[0])
          /\ DOMAIN files'[0] = 1 .. (Len(files[0]) + Len(pieces))
          /\ \A n \in 1 .. Len(files[0]) : files'[0][n] = files[0][n]
      <4>1. files[0] \in Seq(Piece) /\ files'[0] = files[0] \o pieces
        BY <2>2, <2>3
      <4>2. Len(files[0]) \in Nat /\ Len(pieces) \in Nat /\ DOMAIN files[0] = 1 .. Len(files[0])
        BY <4>1, LenProperties
      <4>3. /\ files'[0] \in Seq(Piece)
            /\ DOMAIN files'[0] = 1 .. (Len(files[0]) + Len(pieces))
            /\ \A n \in 1 .. (Len(files[0]) + Len(pieces)) :
                 files'[0][n] = IF n <= Len(files[0]) THEN files[0][n]
                                ELSE pieces[n - Len(files[0])]
        BY <4>1, <4>2, ConcatProperties, LenProperties
      <4>4. \A n \in 1 .. Len(files[0]) :
              n \in 1 .. (Len(files[0]) + Len(pieces)) /\ n <= Len(files[0])
        BY <4>2
      <4> QED
        BY <4>2, <4>3, <4>4
    <3>2. Range(files[0]) \subseteq Range(files'[0])
      BY <3>1 DEF Range
    <3>3. files'[0] # Absent
      BY <3>1, LoggerAssumption DEF Piece
    <3> QED
      BY <2>2, <2>3, <3>2, <3>3 DEF Kept
  <2>4. CASE i # 0
    BY <1>2, <2>2, <2>4
  <2> QED
    BY <2>3, <2>4
<1>6. CASE UNCHANGED files
  BY <1>2, <1>6
<1> QED
  BY <1>4, <1>5, <1>6, FilesKept DEF vars

(* A rotation, broken off at any rename or complete, gives up a piece of   *)
(* the oldest file or of one that it could not see, and of no other; no    *)
(* other step gives up a piece.                                            *)
THEOREM OnlyUnseenGivenUp == Spec => KeepsWhatItSees
<1>1. IInv /\ [Next]_vars =>
        [\A i \in Slots \ Expendable :
           Exists(i) => Range(files[i]) \subseteq Kept(files')]_vars
  BY KeptStep
<1> QED
  BY <1>1, Invariant, PTL DEF Spec, KeepsWhatItSees
=============================================================================
