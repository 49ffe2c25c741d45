----------------------- MODULE OperationalJournalProofs -----------------------
(***************************************************************************)
(* Proofs about OperationalJournal for any records of any sizes, any       *)
(* limits, and processes, machines and disks that fail at any moment: what *)
(* the scan of a file finds, and that the store is a DurableLog.           *)
(***************************************************************************)
EXTENDS OperationalJournal, SequenceTheorems, WellFoundedInduction, TLAPS

-----------------------------------------------------------------------------
(* Induction over the natural numbers, from their well-founded order.      *)
Below == {p \in Nat \X Nat : p[1] < p[2]}

LEMMA BelowWellFounded == IsWellFoundedOn(Below, Nat)
BY NatLessThanWellFounded DEF OpToRel, Below

LEMMA LeastNumber ==
  ASSUME NEW T \in SUBSET Nat, T # {}
  PROVE  \E n \in T : \A m \in T : n <= m
<1>1. PICK n \in T : \A m \in T : ~(<<m, n>> \in Below)
  BY BelowWellFounded, WFMin, Zenon
<1>2. ASSUME NEW m \in T PROVE n <= m
  <2>1. m \in Nat /\ n \in Nat
    OBVIOUS
  <2>2. CASE m < n
    <3>1. <<m, n>> \in Nat \X Nat /\ <<m, n>>[1] < <<m, n>>[2]
      BY <2>1, <2>2
    <3>2. <<m, n>> \in Below
      BY <3>1, Zenon DEF Below
    <3> QED
      BY <3>2, <1>1
  <2> QED
    BY <2>1, <2>2
<1> QED
  BY <1>2

LEMMA Induction ==
  ASSUME NEW S, 0 \in S, \A n \in Nat : n \in S => n + 1 \in S
  PROVE  Nat \subseteq S
<1> SUFFICES ASSUME NEW k \in Nat, k \notin S PROVE FALSE
  OBVIOUS
<1>1. PICK n \in Nat \ S : \A m \in Nat \ S : n <= m
  <2> DEFINE T == Nat \ S
  <2>1. T \in SUBSET Nat /\ T # {}
    OBVIOUS
  <2> QED
    BY <2>1, LeastNumber
<1>2. n # 0 /\ n - 1 \in Nat
  BY <1>1
<1>3. n - 1 \in S
  BY <1>1, <1>2
<1> QED
  BY <1>1, <1>2, <1>3

-----------------------------------------------------------------------------
(* The cells of a file.                                                    *)
Cell == {FileMagic, FrameMagic}
          \cup [cell : {"header"}, sequence : Nat, record : Records]
          \cup [cell : {"body"}, record : Records, at : Nat]

LEMMA FrameFacts ==
  ASSUME NEW r \in Records, NEW s \in Nat
  PROVE  /\ Size[r] \in Nat /\ FrameSize(r) \in Nat /\ FrameSize(r) >= 3
         /\ FrameSize(r) = 2 + Size[r]
         /\ Frame(s, r) \in Seq(Cell) /\ Len(Frame(s, r)) = FrameSize(r)
         /\ Frame(s, r)[1] = FrameMagic /\ Frame(s, r)[2] = Header(s, r)
         /\ \A j \in 1 .. Size[r] : Frame(s, r)[j + 2] = Body(r)[j]
         /\ Body(r) \in Seq(Cell) /\ Len(Body(r)) = Size[r]
         /\ \A j \in 1 .. Size[r] : Body(r)[j].cell = "body"
<1> DEFINE head == <<FrameMagic, Header(s, r)>>
<1>1. Size[r] \in Nat /\ Size[r] >= 1
  BY JournalAssumption
<1>2. FrameSize(r) \in Nat /\ FrameSize(r) >= 3 /\ FrameSize(r) = 2 + Size[r]
  BY <1>1 DEF FrameSize
<1>3. /\ DOMAIN Body(r) = 1 .. Size[r]
      /\ \A j \in 1 .. Size[r] : Body(r)[j] = [cell |-> "body", record |-> r, at |-> j]
  BY DEF Body
<1>4. ASSUME NEW j \in 1 .. Size[r] PROVE Body(r)[j].cell = "body"
  <2>1. Body(r)[j] = [cell |-> "body", record |-> r, at |-> j]
    BY <1>3
  <2> QED
    BY <2>1
<1>5. ASSUME NEW j \in 1 .. Size[r] PROVE Body(r)[j] \in Cell
  <2>1. Body(r)[j] = [cell |-> "body", record |-> r, at |-> j]
    BY <1>3
  <2>2. j \in Nat
    BY <1>1
  <2> QED
    BY <2>1, <2>2 DEF Cell
<1>6. Body(r) \in Seq(Cell) /\ Len(Body(r)) = Size[r]
  <2> DEFINE n == Size[r]
  <2>1. n \in Nat
    BY <1>1
  <2>2. Body(r) = [j \in 1 .. n |-> Body(r)[j]]
    BY DEF Body
  <2>3. \A j \in 1 .. n : Body(r)[j] \in Cell
    BY <1>5
  <2> HIDE DEF n
  <2>4. Body(r) \in [1 .. n -> Cell]
    BY <2>2, <2>3
  <2> QED
    BY <2>1, <2>4 DEF n
<1>7. head \in Seq(Cell) /\ Len(head) = 2 /\ head[1] = FrameMagic /\ head[2] = Header(s, r)
  BY DEF Cell, Header
<1> HIDE DEF head
<1>8. /\ head \o Body(r) \in Seq(Cell) /\ Len(head \o Body(r)) = 2 + Size[r]
      /\ \A j \in 1 .. 2 + Size[r] :
           (head \o Body(r))[j] = IF j <= 2 THEN head[j] ELSE Body(r)[j - 2]
  <2> DEFINE b == Body(r)  n == Size[r]
  <2>1. b \in Seq(Cell) /\ Len(b) = n /\ n \in Nat
    BY <1>1, <1>6
  <2> HIDE DEF b, n
  <2>2. /\ head \o b \in Seq(Cell) /\ Len(head \o b) = 2 + n
        /\ \A j \in 1 .. 2 + n : (head \o b)[j] = IF j <= 2 THEN head[j] ELSE b[j - 2]
    <3>1. /\ head \o b \in Seq(Cell) /\ Len(head \o b) = Len(head) + Len(b)
          /\ \A j \in 1 .. Len(head) + Len(b) :
               (head \o b)[j] = IF j <= Len(head) THEN head[j] ELSE b[j - Len(head)]
      BY <1>7, <2>1, ConcatProperties, Zenon
    <3>2. Len(head) = 2 /\ Len(b) = n
      BY <1>7, <2>1
    <3> QED
      BY <3>1, <3>2
  <2> QED
    BY <2>2 DEF b, n
<1>9. Frame(s, r) = head \o Body(r)
  BY DEF Frame, head
<1>10. \A j \in 1 .. Size[r] : Frame(s, r)[j + 2] = Body(r)[j]
  <2> SUFFICES ASSUME NEW j \in 1 .. Size[r] PROVE Frame(s, r)[j + 2] = Body(r)[j]
    OBVIOUS
  <2>1. j + 2 \in 1 .. 2 + Size[r] /\ ~(j + 2 <= 2) /\ (j + 2) - 2 = j
    BY <1>1
  <2> QED
    BY <2>1, <1>8, <1>9
<1>11. Frame(s, r)[1] = FrameMagic /\ Frame(s, r)[2] = Header(s, r)
  BY <1>1, <1>7, <1>8, <1>9, SMTT(30)
<1> QED
  BY <1>1, <1>2, <1>4, <1>6, <1>8, <1>9, <1>10, <1>11
-----------------------------------------------------------------------------
(* The scan is a loop.                                                     *)
LEMMA LoopExists ==
  ASSUME NEW f, NEW l \in Nat
  PROVE  \E A : A = [n \in 0 .. l |-> IF n = 0 THEN ScanStart ELSE ScanFrame(f, A[n - 1])]
<1> DEFINE S == {m \in Nat : \E A : A = [n \in 0 .. m |-> IF n = 0 THEN ScanStart
                                                         ELSE ScanFrame(f, A[n - 1])]}
<1>1. 0 \in S
  <2> DEFINE A == [n \in 0 .. 0 |-> ScanStart]
  <2>1. A = [n \in 0 .. 0 |-> IF n = 0 THEN ScanStart ELSE ScanFrame(f, A[n - 1])]
    OBVIOUS
  <2> QED
    BY <2>1
<1>2. ASSUME NEW m \in Nat, m \in S PROVE m + 1 \in S
  <2>1. PICK A : A = [n \in 0 .. m |-> IF n = 0 THEN ScanStart ELSE ScanFrame(f, A[n - 1])]
    BY <1>2
  <2> DEFINE B == [n \in 0 .. m + 1 |-> IF n \in 0 .. m THEN A[n] ELSE ScanFrame(f, A[m])]
  <2>2. ASSUME NEW n \in 0 .. m + 1
        PROVE  B[n] = IF n = 0 THEN ScanStart ELSE ScanFrame(f, B[n - 1])
    <3>1. CASE n = 0
      <4>1. 0 \in 0 .. m /\ 0 \in 0 .. m + 1
        OBVIOUS
      <4> QED
        BY <2>1, <3>1, <4>1
    <3>2. CASE n # 0 /\ n \in 0 .. m
      <4>1. n - 1 \in 0 .. m /\ n - 1 \in 0 .. m + 1
        BY <3>2
      <4>2. B[n - 1] = A[n - 1] /\ B[n] = A[n]
        BY <3>2, <4>1
      <4> HIDE DEF B
      <4>3. A[n] = ScanFrame(f, A[n - 1])
        BY <2>1, <3>2
      <4> QED
        BY <3>2, <4>2, <4>3
    <3>3. CASE n = m + 1
      <4>1. m \in 0 .. m /\ m \in 0 .. m + 1 /\ n - 1 = m /\ n # 0 /\ n \notin 0 .. m
        BY <3>3
      <4> QED
        BY <4>1
    <3> QED
      BY <3>1, <3>2, <3>3
  <2>3. B = [n \in 0 .. m + 1 |-> B[n]]
    OBVIOUS
  <2> HIDE DEF B
  <2>4. B = [n \in 0 .. m + 1 |-> IF n = 0 THEN ScanStart ELSE ScanFrame(f, B[n - 1])]
    BY <2>2, <2>3
  <2> QED
    BY <2>4
<1> HIDE DEF S
<1>3. l \in S
  BY <1>1, <1>2, Induction
<1> QED
  BY <1>3 DEF S

(* Its turns, one after the other.                                         *)
Turns(f, A) ==
  /\ A[0] = ScanStart
  /\ \A n \in 1 .. Len(f) : A[n] = ScanFrame(f, A[n - 1])
  /\ Scan(f) = A[Len(f)]

LEMMA ScanTurns ==
  ASSUME NEW f, Len(f) \in Nat, f # <<>>, Len(f) <= MaxFile
  PROVE  \E A : Turns(f, A)
<1> DEFINE D == 0 .. Len(f)
           A == CHOOSE B : B = [n \in D |-> IF n = 0 THEN ScanStart ELSE ScanFrame(f, B[n - 1])]
<1>1. A = [n \in D |-> IF n = 0 THEN ScanStart ELSE ScanFrame(f, A[n - 1])]
  <2>1. \E B : B = [n \in D |-> IF n = 0 THEN ScanStart ELSE ScanFrame(f, B[n - 1])]
    BY LoopExists
  <2> HIDE DEF D
  <2> QED
    BY <2>1
<1>2. Scan(f) = A[Len(f)]
  <2>1. ~(f = <<>> \/ Len(f) > MaxFile)
    BY JournalAssumption
  <2> QED
    BY <2>1 DEF Scan
<1> HIDE DEF A
<1>3. A[0] = ScanStart /\ \A n \in 1 .. Len(f) : A[n] = ScanFrame(f, A[n - 1])
  BY <1>1
<1> QED
  BY <1>2, <1>3 DEF Turns
-----------------------------------------------------------------------------
(* One turn.                                                               *)
Reading(rs, g) == [going |-> TRUE, ok |-> TRUE, records |-> rs, end |-> g]
Halted(rs, g, ok) == [going |-> FALSE, ok |-> ok, records |-> rs, end |-> g]

(* The first c cells behind cell g are those of frame s with record r.     *)
Chunk(f, g, s, r, c) ==
  g + c <= Len(f) /\ \A j \in 1 .. c : f[g + j] = Frame(s, r)[j]

(* Behind cell h a frame begins, with another than the next sequence.      *)
Rest(f, h, s) ==
  /\ Len(f) >= h + 1 => f[h + 1] = FrameMagic
  /\ Len(f) >= h + 2 => f[h + 2] = FrameMagic \/ \E r \in Records : f[h + 2] = Header(s, r)

LEMMA TurnCases ==
  ASSUME NEW f, NEW rs, NEW g
  PROVE  LET r == f[(g + 1) + 1].record
         IN ScanFrame(f, Reading(rs, g)) =
              IF (g + 1) + 1 > Len(f) THEN Halted(rs, g, TRUE)
              ELSE IF ~HeaderValid(f, g + 1, Len(rs) + 1) THEN Halted(rs, g, FALSE)
              ELSE IF g + FrameSize(r) > Len(f) THEN Halted(rs, g, TRUE)
              ELSE IF SubSeq(f, (g + 1) + 2, g + FrameSize(r)) # Body(r) THEN Halted(rs, g, FALSE)
              ELSE Reading(Append(rs, r), g + FrameSize(r))
<1> DEFINE scan == Reading(rs, g)
<1>1. scan.going = TRUE /\ scan.ok = TRUE /\ scan.records = rs /\ scan.end = g
  BY DEF Reading
<1> HIDE DEF scan
<1> QED
  BY <1>1, Zenon DEF ScanFrame, scan, Halted, Reading

LEMMA HaltsAtEnd ==
  ASSUME NEW f, NEW rs, NEW g \in Nat, Len(f) \in Nat, Len(f) <= g + 1
  PROVE  ScanFrame(f, Reading(rs, g)) = Halted(rs, g, TRUE)
<1>1. (g + 1) + 1 > Len(f)
  OBVIOUS
<1> QED
  BY <1>1, TurnCases, Zenon

LEMMA CellFields ==
  /\ FrameMagic.cell = "magic"
  /\ \A s, r : /\ Header(s, r).cell = "header" /\ Header(s, r).sequence = s
               /\ Header(s, r).record = r
BY DEF FrameMagic, Header

(* The cells of a file from one place to another.                          *)
LEMMA CellsBetween ==
  ASSUME NEW f \in Seq(Cell), NEW g \in Nat, NEW n \in Nat, g + 2 + n <= Len(f)
  PROVE  /\ SubSeq(f, (g + 1) + 2, g + (2 + n)) \in Seq(Cell)
         /\ Len(SubSeq(f, (g + 1) + 2, g + (2 + n))) = n
         /\ \A i \in 1 .. n : SubSeq(f, (g + 1) + 2, g + (2 + n))[i] = f[g + (i + 2)]
<1> DEFINE a == (g + 1) + 2
           b == g + (2 + n)
<1>1. a \in Int /\ b \in Int /\ Len(f) \in Nat /\ a = g + 3 /\ b = g + 2 + n
  BY LenProperties
<1>2. \A i \in a .. b : i \in 1 .. Len(f)
  BY <1>1
<1>3. \A i \in a .. b : f[i] \in Cell
  BY <1>2, ElementOfSeq
<1>4. IF a <= b THEN b - a + 1 = n ELSE n = 0
  BY <1>1
<1>5. \A i \in 1 .. n : i \in 1 .. b - a + 1 /\ a + i - 1 = g + (i + 2)
  BY <1>1
<1> HIDE DEF a, b
<1>6. /\ SubSeq(f, a, b) \in Seq(Cell)
      /\ Len(SubSeq(f, a, b)) = IF a <= b THEN b - a + 1 ELSE 0
      /\ \A i \in 1 .. b - a + 1 : SubSeq(f, a, b)[i] = f[a + i - 1]
  BY <1>1, <1>3, SubSeqProperties
<1>7. Len(SubSeq(f, a, b)) = n
  BY <1>4, <1>6
<1>8. \A i \in 1 .. n : SubSeq(f, a, b)[i] = f[g + (i + 2)]
  BY <1>5, <1>6
<1> QED
  BY <1>6, <1>7, <1>8 DEF a, b

(* A whole frame is read.                                                  *)
LEMMA ReadsFrame ==
  ASSUME NEW f \in Seq(Cell), NEW rs \in Seq(Records), NEW g \in Nat, NEW r \in Records,
         Chunk(f, g, Len(rs) + 1, r, FrameSize(r))
  PROVE  ScanFrame(f, Reading(rs, g)) = Reading(Append(rs, r), g + FrameSize(r))
<1> DEFINE s == Len(rs) + 1
           fs == FrameSize(r)
           n == Size[r]
<1>1. s \in Nat /\ Len(f) \in Nat
  BY LenProperties
<1>2. g + fs <= Len(f) /\ \A j \in 1 .. fs : f[g + j] = Frame(s, r)[j]
  BY DEF Chunk
<1> HIDE DEF s, fs, n
<1>3. /\ n \in Nat /\ fs \in Nat /\ fs >= 3 /\ fs = 2 + n
      /\ Frame(s, r)[1] = FrameMagic /\ Frame(s, r)[2] = Header(s, r)
      /\ \A j \in 1 .. n : Frame(s, r)[j + 2] = Body(r)[j]
      /\ Body(r) \in Seq(Cell) /\ Len(Body(r)) = n
  BY <1>1, FrameFacts DEF fs, n
<1>4. f[g + 1] = FrameMagic /\ f[(g + 1) + 1] = Header(s, r)
  <2>1. 1 \in 1 .. fs /\ 2 \in 1 .. fs /\ (g + 1) + 1 = g + 2
    BY <1>3
  <2> QED
    BY <2>1, <1>2, <1>3
<1>5. SubSeq(f, (g + 1) + 2, g + fs) = Body(r)
  <2> DEFINE sub == SubSeq(f, (g + 1) + 2, g + fs)
  <2>1. g + 2 + n <= Len(f)
    BY <1>2, <1>3
  <2>2. sub \in Seq(Cell) /\ Len(sub) = n /\ \A i \in 1 .. n : sub[i] = f[g + (i + 2)]
    BY <1>3, <2>1, CellsBetween
  <2> HIDE DEF sub
  <2>3. ASSUME NEW i \in 1 .. n PROVE sub[i] = Body(r)[i]
    <3>1. i + 2 \in 1 .. fs
      BY <1>3
    <3> QED
      BY <3>1, <2>2, <1>2, <1>3
  <2>4. sub = Body(r)
    BY <2>2, <2>3, <1>3, SeqEqual
  <2> QED
    BY <2>4 DEF sub
<1>6. ~((g + 1) + 1 > Len(f)) /\ ~(g + fs > Len(f))
  BY <1>1, <1>2, <1>3
<1>7. f[(g + 1) + 1].record = r /\ HeaderValid(f, g + 1, s)
  <2>1. /\ Header(s, r).cell = "header" /\ Header(s, r).sequence = s
        /\ Header(s, r).record = r
    BY CellFields
  <2> QED
    BY <2>1, <1>4 DEF HeaderValid
<1> QED
  BY <1>5, <1>6, <1>7, TurnCases, Zenon DEF fs, s

(* A frame that is cut short ends the scan, and so does what an append has *)
(* left behind one: the second of its cells is no header, or the checksum  *)
(* does not match.                                                         *)
LEMMA HaltsAtChunk ==
  ASSUME NEW f \in Seq(Cell), NEW rs \in Seq(Records), NEW g \in Nat, NEW r \in Records,
         NEW c \in Nat, c >= 1, c < FrameSize(r),
         Chunk(f, g, Len(rs) + 1, r, c), Rest(f, g + c, Len(rs) + 1)
  PROVE  \E ok \in BOOLEAN : /\ ScanFrame(f, Reading(rs, g)) = Halted(rs, g, ok)
                             /\ Len(f) = g + c => ok
<1> DEFINE s == Len(rs) + 1
           fs == FrameSize(r)
           n == Size[r]
<1>1. s \in Nat /\ Len(f) \in Nat
  BY LenProperties
<1>2. g + c <= Len(f) /\ (\A j \in 1 .. c : f[g + j] = Frame(s, r)[j]) /\ c < fs
  BY DEF Chunk
<1> HIDE DEF s, fs, n
<1>3. /\ n \in Nat /\ fs \in Nat /\ fs >= 3 /\ fs = 2 + n
      /\ Frame(s, r)[1] = FrameMagic /\ Frame(s, r)[2] = Header(s, r)
      /\ \A j \in 1 .. n : Body(r)[j].cell = "body"
  BY <1>1, FrameFacts DEF fs, n
<1>4. CASE Len(f) <= g + 1
  <2>1. ScanFrame(f, Reading(rs, g)) = Halted(rs, g, TRUE)
    BY <1>1, <1>4, HaltsAtEnd
  <2> QED
    BY <2>1
<1>5. CASE Len(f) > g + 1 /\ c = 1
  <2>1. (g + 1) + 1 <= Len(f) /\ Len(f) >= (g + 1) + 1 /\ Len(f) # g + 1 /\ ~((g + 1) + 1 > Len(f))
    BY <1>1, <1>5
  <2>2. f[(g + 1) + 1] = FrameMagic
    BY <2>1, <1>5 DEF Rest
  <2>3. ~HeaderValid(f, g + 1, s)
    BY <2>2, CellFields DEF HeaderValid
  <2>4. ScanFrame(f, Reading(rs, g)) = Halted(rs, g, FALSE)
    BY <2>1, <2>3, TurnCases, Zenon DEF s
  <2> QED
    BY <2>1, <2>4, <1>5
<1>6. CASE Len(f) > g + 1 /\ c >= 2
  <2>1. f[g + 1] = FrameMagic /\ f[(g + 1) + 1] = Header(s, r)
    <3>1. 1 \in 1 .. c /\ 2 \in 1 .. c /\ (g + 1) + 1 = g + 2
      BY <1>6
    <3> QED
      BY <3>1, <1>2, <1>3
  <2>2. f[(g + 1) + 1].record = r /\ HeaderValid(f, g + 1, s)
    <3>1. /\ Header(s, r).cell = "header" /\ Header(s, r).sequence = s
          /\ Header(s, r).record = r
      BY CellFields
    <3> QED
      BY <3>1, <2>1 DEF HeaderValid
  <2>3. ~((g + 1) + 1 > Len(f))
    BY <1>1, <1>6
  <2>4. CASE g + fs > Len(f)
    <3>1. ScanFrame(f, Reading(rs, g)) = Halted(rs, g, TRUE)
      BY <2>2, <2>3, <2>4, TurnCases, Zenon DEF s, fs
    <3> QED
      BY <3>1
  <2>5. CASE ~(g + fs > Len(f))
    <3>1. Len(f) >= (g + c) + 1 /\ Len(f) # g + c
      BY <2>5, <1>1, <1>2, <1>3
    <3>2. f[(g + c) + 1] = FrameMagic
      BY <3>1 DEF Rest
    <3> DEFINE sub == SubSeq(f, (g + 1) + 2, g + fs)
    <3>3. \A i \in 1 .. n : sub[i] = f[g + (i + 2)]
      <4>1. g + 2 + n <= Len(f)
        BY <2>5, <1>1, <1>3
      <4> QED
        BY <4>1, <1>3, CellsBetween
    <3> HIDE DEF sub
    <3>4. sub # Body(r)
      <4>1. c - 1 \in 1 .. n /\ g + ((c - 1) + 2) = (g + c) + 1
        BY <1>2, <1>3, <1>6
      <4>2. sub[c - 1] = FrameMagic
        BY <4>1, <3>2, <3>3
      <4> QED
        BY <4>1, <4>2, <1>3, CellFields
    <3>5. ScanFrame(f, Reading(rs, g)) = Halted(rs, g, FALSE)
      BY <2>2, <2>3, <2>5, <3>4, TurnCases, Zenon DEF s, fs, sub
    <3> QED
      BY <3>1, <3>5
  <2> QED
    BY <2>4, <2>5
<1> QED
  BY <1>1, <1>4, <1>5, <1>6

(* So does a frame that repeats the sequence of the last one.              *)
LEMMA HaltsAtRest ==
  ASSUME NEW f \in Seq(Cell), NEW rs \in Seq(Records), NEW h \in Nat,
         Len(f) >= h + 2, Rest(f, h, Len(rs))
  PROVE  ScanFrame(f, Reading(rs, h)) = Halted(rs, h, FALSE)
<1>1. Len(rs) \in Nat /\ Len(f) \in Nat /\ (h + 1) + 1 = h + 2 /\ Len(rs) # Len(rs) + 1
  BY LenProperties
<1>2. f[h + 2] = FrameMagic \/ \E r \in Records : f[h + 2] = Header(Len(rs), r)
  BY DEF Rest
<1>3. f[h + 2].cell # "header" \/ f[h + 2].sequence # Len(rs) + 1
  <2>1. CASE f[h + 2] = FrameMagic
    BY <2>1, CellFields
  <2>2. ASSUME NEW r, f[h + 2] = Header(Len(rs), r) PROVE f[h + 2].sequence # Len(rs) + 1
    BY <2>2, <1>1, CellFields
  <2> QED
    BY <2>1, <2>2, <1>2
<1>4. ~HeaderValid(f, h + 1, Len(rs) + 1)
  BY <1>1, <1>3 DEF HeaderValid
<1>5. ~((h + 1) + 1 > Len(f))
  BY <1>1
<1> QED
  BY <1>4, <1>5, TurnCases, Zenon
-----------------------------------------------------------------------------
(* A file begins with the frames of rs; off says where each of them ends.  *)
Layout(f, rs, off) ==
  /\ f \in Seq(Cell) /\ rs \in Seq(Records) /\ off \in [0 .. Len(rs) -> Nat]
  /\ off[0] = 1
  /\ \A i \in 1 .. Len(rs) : /\ off[i] = off[i - 1] + FrameSize(rs[i])
                             /\ Chunk(f, off[i - 1], i, rs[i], FrameSize(rs[i]))
  /\ off[Len(rs)] <= Len(f)

LEMMA OffsetsGrow ==
  ASSUME NEW f, NEW rs, NEW off, Layout(f, rs, off)
  PROVE  /\ \A i, j \in 0 .. Len(rs) : i <= j => off[i] + (j - i) <= off[j]
         /\ \A i \in 0 .. Len(rs) : i + 1 <= off[i]
<1>1. /\ rs \in Seq(Records) /\ Len(rs) \in Nat /\ off \in [0 .. Len(rs) -> Nat] /\ off[0] = 1
      /\ \A i \in 1 .. Len(rs) : off[i] = off[i - 1] + FrameSize(rs[i])
  BY LenProperties DEF Layout
<1>2. \A i \in 1 .. Len(rs) : FrameSize(rs[i]) \in Nat /\ FrameSize(rs[i]) >= 3
  <2> SUFFICES ASSUME NEW i \in 1 .. Len(rs)
               PROVE  FrameSize(rs[i]) \in Nat /\ FrameSize(rs[i]) >= 3
    OBVIOUS
  <2>1. rs[i] \in Records
    BY <1>1, ElementOfSeq
  <2> QED
    BY <2>1, FrameFacts
<1> DEFINE S == {j \in Nat : j <= Len(rs) => \A i \in 0 .. j : off[i] + (j - i) <= off[j]}
<1>3. 0 \in S
  <2> SUFFICES \A i \in 0 .. 0 : off[i] + (0 - i) <= off[0]
    OBVIOUS
  <2>1. \A i \in 0 .. 0 : i = 0
    OBVIOUS
  <2> QED
    BY <2>1, <1>1
<1>4. ASSUME NEW j \in Nat, j \in S PROVE j + 1 \in S
  <2> SUFFICES ASSUME j + 1 <= Len(rs), NEW i \in 0 .. j + 1
               PROVE  off[i] + ((j + 1) - i) <= off[j + 1]
    OBVIOUS
  <2>1. /\ j + 1 \in 1 .. Len(rs) /\ j \in 0 .. Len(rs) /\ j + 1 \in 0 .. Len(rs)
        /\ i \in 0 .. Len(rs) /\ (j + 1) - 1 = j /\ j <= Len(rs)
    BY <1>1
  <2>2. off[j + 1] = off[j] + FrameSize(rs[j + 1])
    BY <2>1, <1>1
  <2>3. /\ off[j] \in Nat /\ off[j + 1] \in Nat /\ off[i] \in Nat
        /\ FrameSize(rs[j + 1]) \in Nat /\ FrameSize(rs[j + 1]) >= 3
    BY <2>1, <1>1, <1>2
  <2>4. CASE i = j + 1
    BY <2>3, <2>4
  <2>5. CASE i \in 0 .. j
    <3>1. off[i] + (j - i) <= off[j]
      BY <1>4, <2>1, <2>5
    <3> QED
      BY <3>1, <2>2, <2>3, SMTT(30)
  <2> QED
    BY <2>4, <2>5
<1> HIDE DEF S
<1>5. Nat \subseteq S
  BY <1>3, <1>4, Induction
<1>6. ASSUME NEW i \in 0 .. Len(rs), NEW j \in 0 .. Len(rs), i <= j
      PROVE  off[i] + (j - i) <= off[j]
  <2>1. j \in Nat /\ i \in 0 .. j /\ j <= Len(rs)
    BY <1>1, <1>6
  <2> QED
    BY <2>1, <1>5 DEF S
<1>7. ASSUME NEW i \in 0 .. Len(rs) PROVE i + 1 <= off[i]
  <2>1. off[0] + (i - 0) <= off[i]
    BY <1>1, <1>6
  <2> QED
    BY <2>1, <1>1
<1> QED
  BY <1>6, <1>7

(* A complete frame behind the others is one of them.                      *)
Extend(off, n, g) == [i \in 0 .. n + 1 |-> IF i <= n THEN off[i] ELSE g]

LEMMA LayoutExtends ==
  ASSUME NEW f, NEW rs, NEW off, Layout(f, rs, off), NEW r \in Records,
         Chunk(f, off[Len(rs)], Len(rs) + 1, r, FrameSize(r))
  PROVE  /\ Layout(f, Append(rs, r), Extend(off, Len(rs), off[Len(rs)] + FrameSize(r)))
         /\ Extend(off, Len(rs), off[Len(rs)] + FrameSize(r))[Len(rs) + 1]
              = off[Len(rs)] + FrameSize(r)
<1> DEFINE n == Len(rs)
           h == off[n] + FrameSize(r)
           ext == Extend(off, n, h)
           rt == Append(rs, r)
<1>1. /\ f \in Seq(Cell) /\ rs \in Seq(Records) /\ n \in Nat /\ off \in [0 .. n -> Nat] /\ off[0] = 1
      /\ \A i \in 1 .. n : /\ off[i] = off[i - 1] + FrameSize(rs[i])
                           /\ Chunk(f, off[i - 1], i, rs[i], FrameSize(rs[i]))
  BY LenProperties DEF Layout
<1>2. /\ rt \in Seq(Records) /\ Len(rt) = n + 1 /\ \A i \in 1 .. n : rt[i] = rs[i]
      /\ rt[n + 1] = r
  BY <1>1, AppendProperties
<1>3. FrameSize(r) \in Nat /\ h \in Nat /\ h <= Len(f)
  <2>1. FrameSize(r) \in Nat
    BY <1>1, FrameFacts
  <2>2. off[n] \in Nat
    BY <1>1
  <2> QED
    BY <2>1, <2>2 DEF Chunk
<1>4. Chunk(f, off[n], n + 1, r, FrameSize(r))
  OBVIOUS
<1> HIDE DEF n, h, rt
<1>5. ext \in [0 .. n + 1 -> Nat] /\ (\A i \in 0 .. n : ext[i] = off[i]) /\ ext[n + 1] = h
  BY <1>1, <1>3 DEF Extend
<1> HIDE DEF ext
<1>6. ext[0] = 1
  BY <1>1, <1>5
<1>7. ASSUME NEW i \in 1 .. n + 1
      PROVE  /\ ext[i] = ext[i - 1] + FrameSize(rt[i])
             /\ Chunk(f, ext[i - 1], i, rt[i], FrameSize(rt[i]))
  <2>1. CASE i \in 1 .. n
    <3>1. i \in 0 .. n /\ i - 1 \in 0 .. n
      BY <2>1, <1>1
    <3> QED
      BY <2>1, <3>1, <1>1, <1>2, <1>5
  <2>2. CASE i = n + 1
    <3>1. i - 1 = n /\ n \in 0 .. n
      BY <2>2, <1>1
    <3>2. ext[i - 1] = off[n] /\ rt[i] = r /\ ext[i] = off[n] + FrameSize(r)
      BY <2>2, <3>1, <1>2, <1>5 DEF h
    <3> QED
      BY <2>2, <3>2, <1>4
  <2> QED
    BY <2>1, <2>2, <1>1
<1>8. Layout(f, rt, ext)
  BY <1>1, <1>2, <1>3, <1>5, <1>6, <1>7 DEF Layout
<1> QED
  BY <1>5, <1>8 DEF n, h, ext, rt

(* The scan reads the frames, and ends where a turn ends it.               *)
LEMMA ScanReads ==
  ASSUME NEW f, NEW rs, NEW off, Layout(f, rs, off), NEW A, Turns(f, A)
  PROVE  A[Len(rs)] = Reading(rs, off[Len(rs)])
<1>1. /\ f \in Seq(Cell) /\ rs \in Seq(Records) /\ Len(rs) \in Nat /\ Len(f) \in Nat
      /\ off \in [0 .. Len(rs) -> Nat] /\ off[0] = 1 /\ off[Len(rs)] <= Len(f)
      /\ \A i \in 1 .. Len(rs) : /\ off[i] = off[i - 1] + FrameSize(rs[i])
                                 /\ Chunk(f, off[i - 1], i, rs[i], FrameSize(rs[i]))
  BY LenProperties DEF Layout
<1>2. Len(rs) + 1 <= off[Len(rs)] /\ off[Len(rs)] \in Nat
  BY <1>1, OffsetsGrow
<1> DEFINE S == {n \in Nat : n <= Len(rs) => A[n] = Reading(SubSeq(rs, 1, n), off[n])}
<1>3. 0 \in S
  <2>1. SubSeq(rs, 1, 0) = <<>>
    BY SubSeqEmpty
  <2>2. A[0] = Reading(<<>>, 1)
    BY DEF Turns, ScanStart, Reading
  <2> QED
    BY <2>1, <2>2, <1>1
<1>4. ASSUME NEW n \in Nat, n \in S PROVE n + 1 \in S
  <2> SUFFICES ASSUME n + 1 <= Len(rs)
               PROVE  A[n + 1] = Reading(SubSeq(rs, 1, n + 1), off[n + 1])
    OBVIOUS
  <2> DEFINE r == rs[n + 1]
             rn == SubSeq(rs, 1, n)
  <2>1. n + 1 \in 1 .. Len(rs) /\ (n + 1) - 1 = n /\ n \in 0 .. Len(rs) /\ n <= Len(rs)
    BY <1>1
  <2>2. n + 1 \in 1 .. Len(f)
    BY <2>1, <1>1, <1>2
  <2>3. A[n] = Reading(rn, off[n])
    BY <1>4, <2>1
  <2>4. r \in Records /\ off[n] \in Nat
    BY <2>1, <1>1, ElementOfSeq
  <2>5. rn \in Seq(Records) /\ Len(rn) = n
    <3>1. \A i \in 1 .. n : rs[i] \in Records
      BY <2>1, <1>1, ElementOfSeq
    <3>2. 1 \in Int /\ n \in Int
      OBVIOUS
    <3>3. rn \in Seq(Records) /\ Len(rn) = IF 1 <= n THEN n - 1 + 1 ELSE 0
      BY <3>1, <3>2, SubSeqProperties
    <3> QED
      BY <3>3
  <2>6. SubSeq(rs, 1, n + 1) = Append(rn, r)
    <3>1. \A i \in 1 .. n + 1 : rs[i] \in Records
      BY <2>1, <1>1, ElementOfSeq
    <3>2. 1 \in Int /\ n + 1 \in Int /\ n \in Int
      OBVIOUS
    <3>3. /\ SubSeq(rs, 1, n + 1) \in Seq(Records)
          /\ Len(SubSeq(rs, 1, n + 1)) = IF 1 <= n + 1 THEN (n + 1) - 1 + 1 ELSE 0
          /\ \A i \in 1 .. (n + 1) - 1 + 1 : SubSeq(rs, 1, n + 1)[i] = rs[1 + i - 1]
      BY <3>1, <3>2, SubSeqProperties
    <3>4. \A i \in 1 .. n : rs[i] \in Records
      BY <3>1
    <3>5. \A i \in 1 .. n - 1 + 1 : rn[i] = rs[1 + i - 1]
      BY <3>2, <3>4, SubSeqProperties
    <3>6. /\ Append(rn, r) \in Seq(Records) /\ Len(Append(rn, r)) = n + 1
          /\ \A i \in 1 .. n : Append(rn, r)[i] = rn[i]
          /\ Append(rn, r)[n + 1] = r
      BY <2>4, <2>5, AppendProperties
    <3>7. \A i \in 1 .. n + 1 : SubSeq(rs, 1, n + 1)[i] = Append(rn, r)[i]
      <4> SUFFICES ASSUME NEW i \in 1 .. n + 1 PROVE SubSeq(rs, 1, n + 1)[i] = Append(rn, r)[i]
        OBVIOUS
      <4>1. SubSeq(rs, 1, n + 1)[i] = rs[i]
        <5>1. i \in 1 .. (n + 1) - 1 + 1 /\ 1 + i - 1 = i
          OBVIOUS
        <5> QED
          BY <5>1, <3>3
      <4>2. CASE i \in 1 .. n
        <5>1. i \in 1 .. n - 1 + 1 /\ 1 + i - 1 = i
          BY <4>2
        <5>2. rn[i] = rs[i]
          BY <5>1, <3>5
        <5> QED
          BY <4>1, <4>2, <5>2, <3>6
      <4>3. CASE i = n + 1
        BY <4>1, <4>3, <3>6
      <4> QED
        BY <4>2, <4>3
    <3>8. Len(SubSeq(rs, 1, n + 1)) = n + 1
      BY <3>3
    <3> QED
      BY <3>3, <3>6, <3>7, <3>8, SeqEqual
  <2>7. Chunk(f, off[n], Len(rn) + 1, r, FrameSize(r)) /\ off[n + 1] = off[n] + FrameSize(r)
    BY <2>1, <2>5, <1>1
  <2> HIDE DEF r, rn
  <2>8. ScanFrame(f, Reading(rn, off[n])) = Reading(Append(rn, r), off[n] + FrameSize(r))
    BY <2>4, <2>5, <2>7, <1>1, ReadsFrame
  <2>9. A[n + 1] = ScanFrame(f, A[n])
    BY <2>1, <2>2 DEF Turns
  <2> QED
    BY <2>3, <2>6, <2>7, <2>8, <2>9
<1> HIDE DEF S
<1>5. Len(rs) \in S
  BY <1>1, <1>3, <1>4, Induction
<1>6. SubSeq(rs, 1, Len(rs)) = rs
  BY <1>1, SubSeqFull
<1> QED
  BY <1>1, <1>5, <1>6 DEF S

LEMMA ScanHalts ==
  ASSUME NEW f, NEW rs, NEW off, Layout(f, rs, off), Len(f) <= MaxFile, NEW ok,
         ScanFrame(f, Reading(rs, off[Len(rs)])) = Halted(rs, off[Len(rs)], ok)
  PROVE  Scan(f) = Halted(rs, off[Len(rs)], ok)
<1> DEFINE m == Len(rs)
           end == Halted(rs, off[m], ok)
<1>1. f \in Seq(Cell) /\ m \in Nat /\ Len(f) \in Nat /\ off[m] \in Nat /\ m + 1 <= off[m] /\ off[m] <= Len(f)
  BY LenProperties, OffsetsGrow, SMTT(30) DEF Layout
<1>2. f # <<>>
  BY <1>1, EmptySeq
<1>3. PICK A : Turns(f, A)
  BY <1>1, <1>2, ScanTurns
<1>4. A[m] = Reading(rs, off[m])
  BY <1>3, ScanReads
<1>5. m + 1 \in 1 .. Len(f) /\ (m + 1) - 1 = m
  BY <1>1
<1>6. A[m + 1] = end
  BY <1>3, <1>4, <1>5 DEF Turns
<1>7. ScanFrame(f, end) = end
  BY DEF ScanFrame, Halted
<1> HIDE DEF end
<1> DEFINE S == {n \in Nat : (m + 1) + n <= Len(f) => A[(m + 1) + n] = end}
<1>8. 0 \in S
  <2>1. (m + 1) + 0 = m + 1
    BY <1>1
  <2> QED
    BY <2>1, <1>6
<1>9. ASSUME NEW n \in Nat, n \in S PROVE n + 1 \in S
  <2> SUFFICES ASSUME (m + 1) + (n + 1) <= Len(f) PROVE A[(m + 1) + (n + 1)] = end
    OBVIOUS
  <2>1. /\ (m + 1) + (n + 1) \in 1 .. Len(f) /\ ((m + 1) + (n + 1)) - 1 = (m + 1) + n
        /\ (m + 1) + n <= Len(f)
    BY <1>1
  <2>2. A[(m + 1) + n] = end
    BY <1>9, <2>1
  <2> QED
    BY <2>1, <2>2, <1>3, <1>7 DEF Turns
<1> HIDE DEF S
<1>10. Nat \subseteq S
  BY <1>8, <1>9, Induction
<1>11. Len(f) - (m + 1) \in Nat /\ (m + 1) + (Len(f) - (m + 1)) = Len(f)
  BY <1>1
<1>12. A[Len(f)] = end
  <2> DEFINE n == Len(f) - (m + 1)
  <2>1. n \in S /\ (m + 1) + n = Len(f)
    BY <1>10, <1>11
  <2> HIDE DEF n
  <2>2. (m + 1) + n <= Len(f) => A[(m + 1) + n] = end
    BY <2>1 DEF S
  <2>3. A[(m + 1) + n] = A[Len(f)] /\ (m + 1) + n <= Len(f)
    BY <2>1, <1>1
  <2> QED
    BY <2>2, <2>3
<1> QED
  BY <1>3, <1>12 DEF Turns, end

-----------------------------------------------------------------------------
(* What is behind the frames: nothing, or the first c cells of a frame of  *)
(* record r and what was written after them.                               *)
Behind(f, g, s, r, c) ==
  \/ c = 0 /\ Len(f) = g
  \/ /\ r \in Records /\ c \in 1 .. FrameSize(r)
     /\ Chunk(f, g, s, r, c) /\ Rest(f, g + c, s)

Whole(r, c) == r \in Records /\ c = FrameSize(r)

LEMMA ScanFinds ==
  ASSUME NEW f, NEW rs, NEW off, Layout(f, rs, off), Len(f) <= MaxFile,
         NEW r, NEW c, Behind(f, off[Len(rs)], Len(rs) + 1, r, c)
  PROVE  \E ok \in BOOLEAN :
           /\ Len(f) = off[Len(rs)] + c => ok
           /\ ~Whole(r, c) => Scan(f) = Halted(rs, off[Len(rs)], ok)
           /\ Whole(r, c) => /\ Scan(f) = Halted(Append(rs, r), off[Len(rs)] + c, ok)
                             /\ Len(f) >= off[Len(rs)] + c + 2 => ~ok
<1> DEFINE m == Len(rs)
           g == off[m]
<1>1. /\ f \in Seq(Cell) /\ rs \in Seq(Records) /\ m \in Nat /\ Len(f) \in Nat /\ g \in Nat
      /\ g <= Len(f)
  BY LenProperties DEF Layout
<1>2. Layout(f, rs, off)
  OBVIOUS
<1> HIDE DEF m, g
<1>3. CASE c = 0 /\ Len(f) = g
  <2>1. ~Whole(r, c)
    <3> SUFFICES ASSUME r \in Records PROVE c # FrameSize(r)
      BY DEF Whole
    <3>1. FrameSize(r) >= 3 /\ FrameSize(r) \in Nat
      BY <1>1, FrameFacts
    <3> QED
      BY <3>1, <1>3
  <2>2. ScanFrame(f, Reading(rs, g)) = Halted(rs, g, TRUE)
    <3>1. Len(f) <= g + 1
      BY <1>1, <1>3
    <3> QED
      BY <3>1, <1>1, HaltsAtEnd
  <2>3. Scan(f) = Halted(rs, g, TRUE)
    BY <1>2, <2>2, ScanHalts DEF g, m
  <2> QED
    BY <2>1, <2>3 DEF g, m
<1>4. CASE r \in Records /\ c \in 1 .. FrameSize(r) /\ Chunk(f, g, m + 1, r, c) /\ Rest(f, g + c, m + 1)
  <2>1. FrameSize(r) \in Nat /\ FrameSize(r) >= 3
    BY <1>1, <1>4, FrameFacts
  <2>2. CASE c < FrameSize(r)
    <3>1. ~Whole(r, c) /\ c \in Nat /\ c >= 1
      BY <2>1, <2>2, <1>4 DEF Whole
    <3>2. PICK ok \in BOOLEAN : /\ ScanFrame(f, Reading(rs, g)) = Halted(rs, g, ok)
                                /\ Len(f) = g + c => ok
      BY <1>1, <1>4, <2>2, <3>1, HaltsAtChunk DEF m
    <3>3. Scan(f) = Halted(rs, g, ok)
      BY <1>2, <3>2, ScanHalts DEF g, m
    <3> QED
      BY <3>1, <3>2, <3>3 DEF g, m
  <2>3. CASE c = FrameSize(r)
    <3> DEFINE rt == Append(rs, r)
               ext == Extend(off, m, g + c)
    <3>1. Layout(f, rt, ext) /\ ext[m + 1] = g + c
      BY <1>2, <1>4, <2>3, LayoutExtends DEF g, m
    <3>2. rt \in Seq(Records) /\ Len(rt) = m + 1
      BY <1>1, <1>4, AppendProperties DEF m
    <3> HIDE DEF rt, ext
    <3>3. Whole(r, c) /\ g + c \in Nat
      BY <1>1, <1>4, <2>1, <2>3 DEF Whole
    <3>4. CASE Len(f) <= g + c + 1
      <4>1. ScanFrame(f, Reading(rt, g + c)) = Halted(rt, g + c, TRUE)
        <5>1. Len(f) <= (g + c) + 1
          BY <1>1, <3>3, <3>4
        <5> QED
          BY <5>1, <1>1, <3>3, HaltsAtEnd
      <4>2. Scan(f) = Halted(rt, g + c, TRUE)
        <5>1. /\ Reading(rt, g + c) = Reading(rt, ext[Len(rt)])
              /\ Halted(rt, g + c, TRUE) = Halted(rt, ext[Len(rt)], TRUE)
          BY <3>1, <3>2
        <5>2. ScanFrame(f, Reading(rt, ext[Len(rt)])) = Halted(rt, ext[Len(rt)], TRUE)
          BY <5>1, <4>1
        <5>3. Scan(f) = Halted(rt, ext[Len(rt)], TRUE)
          BY <3>1, <5>2, ScanHalts
        <5> QED
          BY <5>1, <5>3
      <4>3. ~(Len(f) >= g + c + 2)
        BY <1>1, <3>3, <3>4
      <4> QED
        BY <3>3, <4>2, <4>3 DEF g, m, rt
    <3>5. CASE ~(Len(f) <= g + c + 1)
      <4>1. Len(f) >= (g + c) + 2 /\ Len(f) # g + c
        BY <1>1, <3>3, <3>5
      <4>2. ScanFrame(f, Reading(rt, g + c)) = Halted(rt, g + c, FALSE)
        BY <1>1, <1>4, <3>2, <3>3, <4>1, HaltsAtRest
      <4>3. Scan(f) = Halted(rt, g + c, FALSE)
        <5>1. /\ Reading(rt, g + c) = Reading(rt, ext[Len(rt)])
              /\ Halted(rt, g + c, FALSE) = Halted(rt, ext[Len(rt)], FALSE)
          BY <3>1, <3>2
        <5>2. ScanFrame(f, Reading(rt, ext[Len(rt)])) = Halted(rt, ext[Len(rt)], FALSE)
          BY <5>1, <4>2
        <5>3. Scan(f) = Halted(rt, ext[Len(rt)], FALSE)
          BY <3>1, <5>2, ScanHalts
        <5> QED
          BY <5>1, <5>3
      <4> QED
        BY <3>3, <4>1, <4>3 DEF g, m, rt
    <3> QED
      BY <3>4, <3>5
  <2> QED
    BY <2>1, <2>2, <2>3, <1>4
<1> QED
  BY <1>3, <1>4 DEF Behind, g, m

-----------------------------------------------------------------------------
(* What is kept when the file grows, or loses its end.                     *)
LEMMA Beginning ==
  ASSUME NEW S, NEW s \in Seq(S), NEW n \in 0 .. Len(s)
  PROVE  /\ SubSeq(s, 1, n) \in Seq(S) /\ Len(SubSeq(s, 1, n)) = n
         /\ \A i \in 1 .. n : SubSeq(s, 1, n)[i] = s[i]
<1>1. n \in Nat /\ Len(s) \in Nat /\ n <= Len(s)
  BY LenProperties
<1>2. \A i \in 1 .. n : i \in 1 .. Len(s)
  BY <1>1
<1>3. \A i \in 1 .. n : s[i] \in S
  BY <1>2, ElementOfSeq
<1>4. /\ SubSeq(s, 1, n) \in Seq(S)
      /\ Len(SubSeq(s, 1, n)) = IF 1 <= n THEN n - 1 + 1 ELSE 0
      /\ \A i \in 1 .. n - 1 + 1 : SubSeq(s, 1, n)[i] = s[1 + i - 1]
  <2>1. 1 \in Int /\ n \in Int
    BY <1>1
  <2> QED
    BY <2>1, <1>3, SubSeqProperties
<1>5. Len(SubSeq(s, 1, n)) = n
  BY <1>1, <1>4
<1>6. ASSUME NEW i \in 1 .. n PROVE SubSeq(s, 1, n)[i] = s[i]
  <2>1. i \in 1 .. n - 1 + 1 /\ 1 + i - 1 = i
    BY <1>1
  <2> QED
    BY <2>1, <1>4
<1> QED
  BY <1>4, <1>5, <1>6

LEMMA LayoutAgrees ==
  ASSUME NEW f, NEW rs, NEW off, Layout(f, rs, off),
         NEW f2 \in Seq(Cell), off[Len(rs)] <= Len(f2),
         \A i \in 1 .. off[Len(rs)] : f2[i] = f[i]
  PROVE  Layout(f2, rs, off)
<1> DEFINE n == Len(rs)
<1>1. /\ rs \in Seq(Records) /\ n \in Nat /\ off \in [0 .. n -> Nat] /\ off[0] = 1
      /\ Len(f2) \in Nat /\ off[n] <= Len(f2)
      /\ \A i \in 1 .. n : /\ off[i] = off[i - 1] + FrameSize(rs[i])
                           /\ Chunk(f, off[i - 1], i, rs[i], FrameSize(rs[i]))
  BY LenProperties DEF Layout
<1>2. \A i, j \in 0 .. n : i <= j => off[i] + (j - i) <= off[j]
  BY OffsetsGrow
<1>3. \A i \in 1 .. off[n] : f2[i] = f[i]
  OBVIOUS
<1> HIDE DEF n
<1>4. ASSUME NEW i \in 1 .. n
      PROVE  Chunk(f2, off[i - 1], i, rs[i], FrameSize(rs[i]))
  <2> DEFINE g == off[i - 1]  z == FrameSize(rs[i])
  <2>1. i \in 0 .. n /\ i - 1 \in 0 .. n /\ n \in 0 .. n /\ i <= n
    BY <1>1
  <2>2. rs[i] \in Records /\ i \in Nat
    BY <1>1, ElementOfSeq DEF n
  <2>3. g \in Nat /\ z \in Nat /\ off[i] = g + z /\ Chunk(f, g, i, rs[i], z)
    BY <1>1, <2>1, <2>2, FrameFacts
  <2>4. off[i] + (n - i) <= off[n] /\ off[n] \in Nat
    BY <1>1, <1>2, <2>1
  <2> HIDE DEF g, z
  <2>5. g + z <= off[n] /\ g + z <= Len(f2)
    <3> DEFINE o == off[n]  l == Len(f2)
    <3>1. o \in Nat /\ l \in Nat /\ n \in Nat /\ i \in Nat /\ i <= n /\ o <= l
      BY <1>1, <2>1, <2>2, <2>4
    <3>2. (g + z) + (n - i) <= o
      BY <2>3, <2>4
    <3> HIDE DEF o, l
    <3>3. g + z <= o /\ g + z <= l
      BY <3>1, <3>2, <2>3
    <3> QED
      BY <3>3 DEF o, l
  <2>6. ASSUME NEW j \in 1 .. z PROVE f2[g + j] = Frame(i, rs[i])[j]
    <3>1. g + j \in 1 .. off[n]
      BY <2>3, <2>4, <2>5
    <3>2. f2[g + j] = f[g + j]
      BY <3>1, <1>3
    <3> QED
      BY <3>2, <2>3 DEF Chunk
  <2> QED
    BY <2>5, <2>6 DEF Chunk, g, z
<1> QED
  BY <1>1, <1>4 DEF Layout, n

LEMMA LayoutShorter ==
  ASSUME NEW f, NEW rs, NEW off, Layout(f, rs, off), NEW m \in 0 .. Len(rs)
  PROVE  Layout(f, SubSeq(rs, 1, m), [i \in 0 .. m |-> off[i]])
<1> DEFINE n == Len(rs)
           rm == SubSeq(rs, 1, m)
           om == [i \in 0 .. m |-> off[i]]
<1>1. /\ f \in Seq(Cell) /\ rs \in Seq(Records) /\ n \in Nat /\ off \in [0 .. n -> Nat]
      /\ off[0] = 1 /\ Len(f) \in Nat /\ off[n] <= Len(f) /\ m \in 0 .. n /\ m \in Nat
      /\ \A i \in 1 .. n : /\ off[i] = off[i - 1] + FrameSize(rs[i])
                           /\ Chunk(f, off[i - 1], i, rs[i], FrameSize(rs[i]))
  BY LenProperties DEF Layout
<1>2. \A i, j \in 0 .. n : i <= j => off[i] + (j - i) <= off[j]
  BY OffsetsGrow
<1>3. rm \in Seq(Records) /\ Len(rm) = m /\ \A i \in 1 .. m : rm[i] = rs[i]
  BY <1>1, Beginning
<1> HIDE DEF n, rm
<1>4. om \in [0 .. m -> Nat] /\ \A i \in 0 .. m : om[i] = off[i]
  <2>1. \A i \in 0 .. m : i \in 0 .. n
    BY <1>1
  <2> QED
    BY <2>1, <1>1
<1> HIDE DEF om
<1>5. om[0] = 1 /\ om[m] <= Len(f)
  <2>1. off[m] + (n - m) <= off[n] /\ off[m] \in Nat /\ off[n] \in Nat
    <3>1. n \in 0 .. n /\ m <= n
      BY <1>1
    <3> QED
      BY <3>1, <1>1, <1>2
  <2>2. om[0] = off[0] /\ om[m] = off[m]
    BY <1>1, <1>4
  <2> QED
    BY <2>1, <2>2, <1>1
<1>6. ASSUME NEW i \in 1 .. m
      PROVE  /\ om[i] = om[i - 1] + FrameSize(rm[i])
             /\ Chunk(f, om[i - 1], i, rm[i], FrameSize(rm[i]))
  <2>1. i \in 1 .. n /\ i \in 0 .. m /\ i - 1 \in 0 .. m
    BY <1>1
  <2>2. om[i] = off[i] /\ om[i - 1] = off[i - 1] /\ rm[i] = rs[i]
    BY <2>1, <1>3, <1>4
  <2> QED
    BY <2>1, <2>2, <1>1
<1>7. om \in [0 .. Len(rm) -> Nat]
  BY <1>3, <1>4
<1> QED
  BY <1>1, <1>3, <1>5, <1>6, <1>7 DEF Layout, rm, om

LEMMA BehindAgrees ==
  ASSUME NEW f \in Seq(Cell), NEW f2 \in Seq(Cell), NEW g \in Nat, NEW s, NEW r, NEW c \in Nat,
         Behind(f, g, s, r, c), g + c <= Len(f2),
         \A i \in 1 .. Len(f) : i <= Len(f2) => f2[i] = f[i],
         Len(f2) <= Len(f) \/ Len(f) >= g + c + 2
  PROVE  Behind(f2, g, s, r, c)
<1>1. Len(f) \in Nat /\ Len(f2) \in Nat
  BY LenProperties
<1>2. CASE c = 0 /\ Len(f) = g
  BY <1>1, <1>2 DEF Behind
<1>3. CASE /\ r \in Records /\ c \in 1 .. FrameSize(r)
           /\ Chunk(f, g, s, r, c) /\ Rest(f, g + c, s)
  <2>1. g + c <= Len(f) /\ \A j \in 1 .. c : f[g + j] = Frame(s, r)[j]
    BY <1>3 DEF Chunk
  <2>2. ASSUME NEW j \in 1 .. c PROVE f2[g + j] = Frame(s, r)[j]
    <3>1. g + j \in 1 .. Len(f) /\ g + j <= Len(f2)
      BY <1>1, <2>1
    <3> QED
      BY <3>1, <2>1
  <2>3. Chunk(f2, g, s, r, c)
    BY <2>2 DEF Chunk
  <2>4. ASSUME Len(f2) >= (g + c) + 1 PROVE f2[(g + c) + 1] = FrameMagic
    <3>1. (g + c) + 1 \in 1 .. Len(f) /\ (g + c) + 1 <= Len(f2) /\ Len(f) >= (g + c) + 1
      BY <1>1, <2>4
    <3>2. f[(g + c) + 1] = FrameMagic
      BY <1>3, <3>1 DEF Rest
    <3> QED
      BY <3>1, <3>2
  <2>5. ASSUME Len(f2) >= (g + c) + 2 PROVE f2[(g + c) + 2] = f[(g + c) + 2] /\ Len(f) >= (g + c) + 2
    <3>1. (g + c) + 2 \in 1 .. Len(f) /\ (g + c) + 2 <= Len(f2) /\ Len(f) >= (g + c) + 2
      BY <1>1, <2>5
    <3> QED
      BY <3>1
  <2>6. Rest(f2, g + c, s)
    <3>1. Len(f2) >= (g + c) + 2 =>
            f2[(g + c) + 2] = FrameMagic \/ \E q \in Records : f2[(g + c) + 2] = Header(s, q)
      BY <1>3, <2>5 DEF Rest
    <3> QED
      BY <2>4, <3>1 DEF Rest
  <2> QED
    BY <1>3, <2>3, <2>6 DEF Behind
<1> QED
  BY <1>2, <1>3 DEF Behind

(* The n cells that follow the first w of a frame arrive.                  *)
Grows(f, f2, s, p, w, n) ==
  /\ f \in Seq(Cell) /\ f2 \in Seq(Cell)
  /\ n \in Nat /\ n >= 1 /\ w \in Nat /\ w + n <= FrameSize(p)
  /\ Len(f2) = Len(f) + n /\ \A i \in 1 .. Len(f) : f2[i] = f[i]
  /\ \A i \in 1 .. n : f2[Len(f) + i] = Frame(s, p)[w + i]

(* Behind the complete frames they make a longer fragment ...              *)
LEMMA BehindFrames ==
  ASSUME NEW f, NEW f2, NEW g \in Nat, NEW s \in Nat, NEW p \in Records, NEW w, NEW n,
         NEW r, Grows(f, f2, s, p, w, n), Behind(f, g, s, r, w), Len(f) = g + w, w > 0 => r = p
  PROVE  Behind(f2, g, s, p, w + n)
<1> USE DEF Grows
<1>1. FrameSize(p) \in Nat
  BY FrameFacts
<1>2. ASSUME NEW j \in 1 .. w + n PROVE f2[g + j] = Frame(s, p)[j]
  <2>1. CASE j <= w
    <3>1. w > 0 /\ j \in 1 .. w /\ w # 0
      BY <2>1
    <3>2. Chunk(f, g, s, p, w)
      BY <3>1 DEF Behind
    <3>3. g + j \in 1 .. Len(f)
      BY <3>1
    <3> QED
      BY <3>1, <3>2, <3>3 DEF Chunk
  <2>2. CASE ~(j <= w)
    <3>1. j - w \in 1 .. n /\ Len(f) + (j - w) = g + j /\ w + (j - w) = j
      BY <2>2
    <3>2. f2[Len(f) + (j - w)] = Frame(s, p)[w + (j - w)]
      BY <3>1
    <3> QED
      BY <3>1, <3>2
  <2> QED
    BY <2>1, <2>2
<1>3. Len(f2) = g + (w + n) /\ w + n \in 1 .. FrameSize(p)
  BY <1>1
<1>4. Chunk(f2, g, s, p, w + n)
  BY <1>2, <1>3 DEF Chunk
<1>5. Rest(f2, g + (w + n), s)
  <2>1. ~(Len(f2) >= (g + (w + n)) + 1) /\ ~(Len(f2) >= (g + (w + n)) + 2)
    BY <1>3, SMTT(30)
  <2> QED
    BY <2>1 DEF Rest
<1> QED
  BY <1>3, <1>4, <1>5 DEF Behind

(* ... and behind what a failed append has left they change nothing.       *)
LEMMA BehindFragment ==
  ASSUME NEW f, NEW f2, NEW g \in Nat, NEW s \in Nat, NEW p \in Records, NEW w, NEW n,
         NEW r, NEW c \in Nat, c # 0, Grows(f, f2, s, p, w, n),
         Behind(f, g, s, r, c), Len(f) >= g + c + w
  PROVE  Behind(f2, g, s, r, c)
<1> USE DEF Grows
<1> DEFINE h == g + c
<1>1. Len(f) \in Nat /\ Len(f2) \in Nat /\ h \in Nat
  BY LenProperties
<1>2. /\ r \in Records /\ c \in 1 .. FrameSize(r)
      /\ Chunk(f, g, s, r, c) /\ Rest(f, h, s)
  BY DEF Behind
<1>3. h <= Len(f) /\ \A j \in 1 .. c : f[g + j] = Frame(s, r)[j]
  BY <1>2 DEF Chunk
<1>4. Frame(s, p)[1] = FrameMagic /\ Frame(s, p)[2] = Header(s, p)
  BY FrameFacts
<1>5. Chunk(f2, g, s, r, c)
  <2>1. ASSUME NEW j \in 1 .. c PROVE f2[g + j] = Frame(s, r)[j]
    <3>1. g + j \in 1 .. Len(f)
      BY <1>1, <1>3
    <3> QED
      BY <3>1, <1>3
  <2>2. g + c <= Len(f2)
    BY <1>1, <1>3
  <2> QED
    BY <2>1, <2>2 DEF Chunk
<1>6. Len(f) >= h + w /\ h <= Len(f)
  BY <1>1, <1>3
<1> HIDE DEF h
<1>7. ASSUME Len(f2) >= h + 1 PROVE f2[h + 1] = FrameMagic
  <2>1. CASE Len(f) >= h + 1
    <3>1. h + 1 \in 1 .. Len(f)
      BY <1>1, <2>1
    <3> QED
      BY <2>1, <3>1, <1>2 DEF Rest
  <2>2. CASE ~(Len(f) >= h + 1)
    <3> DEFINE l == Len(f)
    <3>1. l \in Nat /\ l >= h + w /\ h <= l /\ ~(l >= h + 1)
      BY <1>1, <1>6, <2>2
    <3> HIDE DEF l
    <3>2. l = h /\ w = 0
      BY <3>1, <1>1
    <3>3. Len(f) + 1 = h + 1 /\ w + 1 = 1 /\ 1 \in 1 .. n
      BY <3>2 DEF l
    <3>4. f2[Len(f) + 1] = Frame(s, p)[w + 1]
      BY <3>3
    <3> QED
      BY <3>3, <3>4, <1>4
  <2> QED
    BY <2>1, <2>2
<1>8. ASSUME Len(f2) >= h + 2
      PROVE  f2[h + 2] = FrameMagic \/ \E q \in Records : f2[h + 2] = Header(s, q)
  <2>1. CASE Len(f) >= h + 2
    <3>1. h + 2 \in 1 .. Len(f)
      BY <1>1, <2>1
    <3> QED
      BY <2>1, <3>1, <1>2 DEF Rest
  <2>2. CASE Len(f) = h + 1
    <3>1. Len(f) + 1 = h + 2 /\ (w + 1 = 1 \/ w + 1 = 2) /\ 1 \in 1 .. n
      BY <1>1, <1>3, <1>6, <2>2
    <3>2. f2[Len(f) + 1] = Frame(s, p)[w + 1]
      BY <3>1
    <3> QED
      BY <3>1, <3>2, <1>4
  <2>3. CASE Len(f) = h
    <3>1. Len(f) + 2 = h + 2 /\ w + 2 = 2 /\ 2 \in 1 .. n
      BY <1>1, <1>3, <1>6, <1>8, <2>3
    <3>2. f2[Len(f) + 2] = Frame(s, p)[w + 2]
      BY <3>1
    <3> QED
      BY <3>1, <3>2, <1>4
  <2> QED
    BY <2>1, <2>2, <2>3, <1>1, <1>3
<1>9. Rest(f2, h, s)
  BY <1>7, <1>8 DEF Rest
<1> QED
  BY <1>2, <1>5, <1>9 DEF Behind, h

(* A power failure leaves the frames that fit before the cut.              *)
LEMMA LastBefore ==
  ASSUME NEW f, NEW rs, NEW off, Layout(f, rs, off), NEW n \in Nat, n >= 1
  PROVE  \E m \in 0 .. Len(rs) : /\ off[m] <= n
                                 /\ \A p \in 0 .. Len(rs) : off[p] <= n => p <= m
                                 /\ m < Len(rs) => n < off[m + 1]
<1> DEFINE l == Len(rs)
           T == {k \in Nat : k <= l /\ off[l - k] <= n}
<1>1. l \in Nat /\ off \in [0 .. l -> Nat] /\ off[0] = 1
  BY LenProperties DEF Layout
<1>2. \A i, j \in 0 .. l : i <= j => off[i] + (j - i) <= off[j]
  BY OffsetsGrow
<1> HIDE DEF l
<1>3. l \in T
  <2>1. l - l = 0 /\ l <= l
    BY <1>1
  <2> QED
    BY <2>1, <1>1
<1>4. PICK k \in T : \A i \in T : k <= i
  <2>1. T \in SUBSET Nat /\ T # {}
    BY <1>3
  <2> HIDE DEF T
  <2> QED
    BY <2>1, LeastNumber
<1> DEFINE m == l - k
<1>5. k \in Nat /\ k <= l /\ off[m] <= n /\ m \in 0 .. l /\ m \in Nat
  BY <1>1, <1>4
<1>6. ASSUME NEW p \in 0 .. l, off[p] <= n PROVE p <= m
  <2>1. l - p \in Nat /\ l - p <= l /\ l - (l - p) = p
    BY <1>1
  <2>2. l - p \in T
    BY <2>1, <1>6
  <2>3. k <= l - p
    BY <2>2, <1>4
  <2> QED
    BY <2>3, <1>1, <1>5
<1>7. ASSUME m < l PROVE n < off[m + 1]
  <2>1. m + 1 \in 0 .. l /\ ~(m + 1 <= m)
    BY <1>1, <1>5, <1>7
  <2>2. ~(off[m + 1] <= n) /\ off[m + 1] \in Nat
    BY <2>1, <1>1, <1>6
  <2> QED
    BY <2>2
<1> QED
  BY <1>5, <1>6, <1>7 DEF l

Remains(f, rs, off, r, c, n, m, off2, r2, c2) ==
  /\ Layout(SubSeq(f, 1, n), SubSeq(rs, 1, m), off2)
  /\ Behind(SubSeq(f, 1, n), off2[m], m + 1, r2, c2)
  /\ \A p \in 0 .. Len(rs) : off[p] <= n => p \in 0 .. m /\ off2[p] = off[p]
  /\ \/ m = Len(rs) /\ c2 = c /\ r2 = r /\ off2[m] = off[Len(rs)] /\ off2[m] + c <= n
     \/ n = off2[m] + c2 /\ ~Whole(r2, c2) /\ n < off[Len(rs)] + c

LEMMA CutFile ==
  ASSUME NEW f, NEW rs, NEW off, Layout(f, rs, off), NEW r, NEW c \in Nat,
         Behind(f, off[Len(rs)], Len(rs) + 1, r, c), NEW n \in 1 .. Len(f)
  PROVE  \E m, off2, r2 : m \in 0 .. Len(rs) /\ \E c2 \in Nat :
           Remains(f, rs, off, r, c, n, m, off2, r2, c2)
<1> DEFINE l == Len(rs)
           f2 == SubSeq(f, 1, n)
<1>1. /\ f \in Seq(Cell) /\ rs \in Seq(Records) /\ l \in Nat /\ Len(f) \in Nat /\ n \in Nat
      /\ n <= Len(f) /\ n >= 1 /\ n \in 0 .. Len(f) /\ off \in [0 .. l -> Nat] /\ off[l] <= Len(f)
      /\ \A i \in 1 .. l : /\ off[i] = off[i - 1] + FrameSize(rs[i])
                           /\ Chunk(f, off[i - 1], i, rs[i], FrameSize(rs[i]))
  BY LenProperties DEF Layout
<1>2. f2 \in Seq(Cell) /\ Len(f2) = n /\ \A i \in 1 .. n : f2[i] = f[i]
  BY <1>1, Beginning
<1>3. PICK m \in 0 .. l : /\ off[m] <= n
                          /\ \A p \in 0 .. l : off[p] <= n => p <= m
                          /\ m < l => n < off[m + 1]
  BY <1>1, LastBefore
<1> DEFINE off2 == [i \in 0 .. m |-> off[i]]
           rm == SubSeq(rs, 1, m)
<1>4. Layout(f, rm, off2)
  BY LayoutShorter
<1>5. rm \in Seq(Records) /\ Len(rm) = m /\ m \in Nat /\ m \in 0 .. m /\ m \in 0 .. l
  BY <1>1, Beginning
<1>6. \A p \in 0 .. m : off2[p] = off[p]
  OBVIOUS
<1>7. \A p \in 0 .. l : off[p] <= n => p \in 0 .. m /\ off2[p] = off[p]
  <2>1. ASSUME NEW p \in 0 .. l, off[p] <= n PROVE p \in 0 .. m
    BY <2>1, <1>3, <1>1
  <2> QED
    BY <2>1, <1>6
<1>8. off2[m] = off[m] /\ off[m] \in Nat
  BY <1>1, <1>5, <1>6
<1>9. Layout(f, rs, off) /\ Behind(f, off[l], l + 1, r, c)
  OBVIOUS
<1> HIDE DEF l, off2, rm, f2
<1>10. Layout(f2, rm, off2)
  <2>1. off2[Len(rm)] <= Len(f2)
    BY <1>2, <1>3, <1>5, <1>8
  <2>2. \A i \in 1 .. off2[Len(rm)] : f2[i] = f[i]
    <3>1. \A i \in 1 .. off[m] : i \in 1 .. n
      BY <1>1, <1>3, <1>8
    <3> QED
      BY <3>1, <1>2, <1>5, <1>8
  <2> QED
    BY <2>1, <2>2, <1>2, <1>4, LayoutAgrees
<1>11. CASE m = l /\ off[l] + c <= n
  <2>1. Behind(f2, off[l], l + 1, r, c)
    <3>1. off[l] \in Nat /\ l + 1 \in Nat
      BY <1>1, <1>8, <1>11
    <3>2. off[l] + c <= Len(f2) /\ Len(f2) <= Len(f)
      BY <1>1, <1>2, <1>11
    <3>3. \A i \in 1 .. Len(f) : i <= Len(f2) => f2[i] = f[i]
      <4>1. \A i \in 1 .. Len(f) : i <= n => i \in 1 .. n
        BY <1>1
      <4> QED
        BY <4>1, <1>2
    <3> QED
      BY <3>1, <3>2, <3>3, <1>1, <1>2, <1>9, BehindAgrees
  <2> QED
    BY <2>1, <1>7, <1>8, <1>10, <1>11 DEF Remains, l, f2, rm
<1>12. CASE m < l
  <2> DEFINE q == rs[m + 1]  w == n - off[m]  z == FrameSize(q)
  <2>1. m + 1 \in 1 .. l /\ (m + 1) - 1 = m /\ m + 1 \in Nat
    BY <1>1, <1>5, <1>12
  <2>2. q \in Records
    BY <1>1, <2>1, ElementOfSeq DEF l
  <2>3. Chunk(f, off[m], m + 1, q, z) /\ off[m + 1] = off[m] + z /\ n < off[m + 1]
    BY <2>1, <1>1, <1>3, <1>12
  <2>4. z \in Nat
    BY <2>1, <2>2, FrameFacts
  <2> HIDE DEF q, z
  <2>5. w \in Nat /\ w < z /\ n = off[m] + w
    <3>1. n < off[m] + z /\ off[m] <= n /\ n \in Nat
      BY <2>3, <1>1, <1>3
    <3> QED
      BY <3>1, <2>4, <1>8
  <2> HIDE DEF w
  <2>6. ~Whole(q, w)
    BY <2>4, <2>5 DEF Whole, z
  <2>7. n < off[l] + c
    <3>1. off[m + 1] + (l - (m + 1)) <= off[l] /\ off[l] \in Nat
      <4>1. m + 1 \in 0 .. l /\ l \in 0 .. l /\ m + 1 <= l
        BY <1>1, <2>1
      <4>2. \A i, j \in 0 .. Len(rs) : i <= j => off[i] + (j - i) <= off[j]
        BY <1>9, OffsetsGrow
      <4> QED
        BY <4>1, <4>2, <1>1 DEF l
    <3>2. l \in Nat /\ m + 1 <= l /\ off[m + 1] \in Nat
      BY <1>1, <2>1, <2>3, <2>4, <1>8
    <3>3. off[m + 1] <= off[l]
      BY <3>1, <3>2
    <3>4. n < off[m + 1] /\ n \in Nat /\ c \in Nat
      BY <2>3, <1>1
    <3> QED
      BY <3>1, <3>2, <3>3, <3>4, SMTT(30)
  <2>8. Behind(f2, off[m], m + 1, q, w)
    <3>1. CASE w = 0
      BY <3>1, <2>5, <1>2, <1>8 DEF Behind
    <3>2. CASE w # 0
      <4>1. w \in 1 .. FrameSize(q)
        BY <3>2, <2>4, <2>5 DEF z
      <4>2. ASSUME NEW j \in 1 .. w PROVE f2[off[m] + j] = Frame(m + 1, q)[j]
        <5>1. off[m] + j \in 1 .. n /\ j \in 1 .. z
          BY <2>4, <2>5, <1>8, SMTT(30)
        <5>2. f[off[m] + j] = Frame(m + 1, q)[j]
          BY <5>1, <2>3 DEF Chunk
        <5> QED
          BY <5>1, <5>2, <1>2
      <4>3. Chunk(f2, off[m], m + 1, q, w)
        BY <4>2, <2>5, <1>2, <1>8 DEF Chunk
      <4>4. Rest(f2, off[m] + w, m + 1)
        <5>1. ~(Len(f2) >= (off[m] + w) + 1) /\ ~(Len(f2) >= (off[m] + w) + 2)
          BY <1>2, <1>8, <2>5
        <5> QED
          BY <5>1 DEF Rest
      <4> QED
        BY <4>1, <4>3, <4>4, <2>2 DEF Behind
    <3> QED
      BY <3>1, <3>2
  <2>9. n = off2[m] + w
    BY <2>5, <1>8
  <2> QED
    BY <2>5, <2>6, <2>7, <2>8, <2>9, <1>7, <1>8, <1>10 DEF Remains, l, f2, rm
<1>13. CASE m = l /\ ~(off[l] + c <= n)
  <2> DEFINE w == n - off[l]
  <2>1. w \in Nat /\ w < c /\ n = off[l] + w /\ n < off[l] + c /\ c # 0
    BY <1>1, <1>3, <1>8, <1>13
  <2> HIDE DEF w
  <2>2. r \in Records /\ c \in 1 .. FrameSize(r) /\ Chunk(f, off[l], l + 1, r, c)
    BY <2>1, <1>9 DEF Behind
  <2>3. FrameSize(r) \in Nat
    BY <1>1, <2>2, FrameFacts
  <2>4. ~Whole(r, w)
    BY <2>1, <2>2, <2>3 DEF Whole
  <2>5. Behind(f2, off[l], l + 1, r, w)
    <3>1. CASE w = 0
      BY <3>1, <2>1, <1>2, <1>8, <1>13 DEF Behind
    <3>2. CASE w # 0
      <4>1. w \in 1 .. FrameSize(r)
        BY <3>2, <2>1, <2>2, <2>3
      <4>2. ASSUME NEW j \in 1 .. w PROVE f2[off[l] + j] = Frame(l + 1, r)[j]
        <5>1. off[l] + j \in 1 .. n /\ j \in 1 .. c
          BY <2>1, <1>8, <1>13, SMTT(30)
        <5>2. f[off[l] + j] = Frame(l + 1, r)[j]
          BY <5>1, <2>2 DEF Chunk
        <5> QED
          BY <5>1, <5>2, <1>2
      <4>3. Chunk(f2, off[l], l + 1, r, w)
        BY <4>2, <2>1, <1>2, <1>8, <1>13 DEF Chunk
      <4>4. Rest(f2, off[l] + w, l + 1)
        <5>1. ~(Len(f2) >= (off[l] + w) + 1) /\ ~(Len(f2) >= (off[l] + w) + 2)
          BY <1>2, <1>8, <1>13, <2>1
        <5> QED
          BY <5>1 DEF Rest
      <4> QED
        BY <4>1, <4>3, <4>4, <2>2 DEF Behind
    <3> QED
      BY <3>1, <3>2
  <2>6. n = off2[m] + w
    BY <2>1, <1>8, <1>13
  <2> QED
    BY <2>1, <2>4, <2>5, <2>6, <1>7, <1>8, <1>10, <1>13 DEF Remains, l, f2, rm
<1> QED
  BY <1>1, <1>11, <1>12, <1>13

-----------------------------------------------------------------------------
(* What the memory of the store says, whatever the disk holds.             *)
TypesOK ==
  /\ exists \in BOOLEAN /\ opened \in BOOLEAN /\ intact \in BOOLEAN
  /\ status \in {"down", "creating", "open", "failed"}
  /\ file \in Seq(Cell) /\ durable \in Nat
  /\ log \in Seq(Records) /\ promised \in Nat

OpenedOK ==
  /\ status = "open" => /\ file # <<>>
                        /\ recent = LastRecords(log)
                        /\ next_sequence = Len(log) + 1
  /\ status = "creating" => exists /\ file = <<>>
  /\ file # <<>> => exists
  /\ file = <<>> => log = <<>> /\ promised = 0 /\ ~opened
  /\ file # <<>> /\ Synchronize => durable >= 1

(* How much of the frame of the append under way is in the file.           *)
Written == FrameSize(pending[1]) - Len(unwritten)

AppendOK ==
  /\ pending = <<>> => unwritten = <<>>
  /\ pending # <<>> => /\ status = "open"
                       /\ \E r \in Records : pending = <<r>>
                       /\ unwritten \in Seq(Cell) /\ Len(unwritten) <= FrameSize(pending[1])
                       /\ \A i \in 1 .. Len(unwritten) :
                            unwritten[i] = Frame(next_sequence, pending[1])[Written + i]
  /\ Len(file) + Len(unwritten) <= MaxFile

(* The file holds the frames of the first m records of the history, then c *)
(* cells of a frame of r.  More of the history is missing only while the   *)
(* store is down, or since a failed append has left those cells.           *)
FileIs(m, off, r, c) ==
  /\ m \in 0 .. Len(log) /\ c \in Nat
  /\ Layout(file, SubSeq(log, 1, m), off)
  /\ Behind(file, off[m], m + 1, r, c)
  /\ intact => /\ Len(file) = off[m] + c
               /\ promised <= m
               /\ Synchronize => off[promised] <= durable
  /\ m < Len(log) =>
       \/ status # "open" /\ Len(file) = off[m] + c /\ ~Whole(r, c)
       \/ /\ ~intact /\ Len(file) >= off[m] + c + 3
          /\ Synchronize => durable >= off[m] + c + 3
  /\ m = Len(log) /\ status = "open" =>
       IF pending = <<>> THEN intact => c = 0
       ELSE \/ Len(file) = off[m] + c /\ c = Written /\ (c > 0 => r = pending[1])
            \/ ~intact /\ Len(file) >= off[m] + c + Written

FileOK == file # <<>> => \E m, off, r, c : FileIs(m, off, r, c)

IInv == TypesOK /\ OpenedOK /\ AppendOK /\ FileOK

-----------------------------------------------------------------------------
(* What opening the store finds in such a file.                            *)
LEMMA HaltedFields ==
  ASSUME NEW rs, NEW g, NEW ok
  PROVE  /\ Halted(rs, g, ok).ok = ok /\ Halted(rs, g, ok).records = rs
         /\ Halted(rs, g, ok).end = g
BY DEF Halted

LEMMA EmptyRefused == ~Scan(<<>>).ok
BY DEF Scan, ScanStart

LEMMA Opens ==
  ASSUME IInv, NEW m, NEW off, NEW r, NEW c, FileIs(m, off, r, c)
  PROVE  \E ok \in BOOLEAN :
           /\ Len(file) = off[m] + c => ok
           /\ ~Whole(r, c) => Scan(file) = Halted(SubSeq(log, 1, m), off[m], ok)
           /\ Whole(r, c) => /\ Scan(file) = Halted(Append(SubSeq(log, 1, m), r), off[m] + c, ok)
                             /\ Len(file) >= off[m] + c + 2 => ~ok
<1> DEFINE rs == SubSeq(log, 1, m)
<1>1. m \in 0 .. Len(log) /\ Layout(file, rs, off) /\ Behind(file, off[m], m + 1, r, c)
  BY DEF FileIs
<1>2. Len(rs) = m
  BY <1>1, Beginning DEF IInv, TypesOK
<1>3. Len(file) <= MaxFile
  <2>1. Len(file) + Len(unwritten) <= MaxFile
    BY DEF IInv, AppendOK
  <2>2. Len(file) \in Nat /\ Len(unwritten) \in Nat /\ MaxFile \in Nat
    <3>1. unwritten \in Seq(Cell)
      BY EmptySeq DEF IInv, AppendOK
    <3> QED
      BY <3>1, LenProperties, JournalAssumption DEF IInv, TypesOK
  <2> QED
    BY <2>1, <2>2
<1> HIDE DEF rs
<1>4. Layout(file, rs, off) /\ Behind(file, off[Len(rs)], Len(rs) + 1, r, c)
  BY <1>1, <1>2
<1>5. \E ok \in BOOLEAN :
        /\ Len(file) = off[Len(rs)] + c => ok
        /\ ~Whole(r, c) => Scan(file) = Halted(rs, off[Len(rs)], ok)
        /\ Whole(r, c) => /\ Scan(file) = Halted(Append(rs, r), off[Len(rs)] + c, ok)
                          /\ Len(file) >= off[Len(rs)] + c + 2 => ~ok
  BY <1>3, <1>4, ScanFinds
<1> QED
  BY <1>2, <1>5 DEF rs

LEMMA Recovered ==
  ASSUME IInv, Scan(file).ok
  PROVE  \E rs, off :
           /\ rs \in Seq(Records)
           /\ Scan(file).records = rs /\ Scan(file).end = off[Len(rs)]
           /\ Layout(file, rs, off)
           /\ \/ \E r \in Records : rs = Append(log, r)
              \/ \E m \in 0 .. Len(log) : rs = SubSeq(log, 1, m)
           /\ intact => promised <= Len(rs) /\ (Synchronize => off[promised] <= durable)
<1>1. file # <<>>
  BY EmptyRefused
<1>2. PICK m, off, r, c : FileIs(m, off, r, c)
  BY <1>1 DEF IInv, FileOK
<1>3. PICK ok \in BOOLEAN :
        /\ Len(file) = off[m] + c => ok
        /\ ~Whole(r, c) => Scan(file) = Halted(SubSeq(log, 1, m), off[m], ok)
        /\ Whole(r, c) => /\ Scan(file) = Halted(Append(SubSeq(log, 1, m), r), off[m] + c, ok)
                          /\ Len(file) >= off[m] + c + 2 => ~ok
  BY <1>2, Opens
<1> DEFINE rm == SubSeq(log, 1, m)
<1>4. /\ m \in 0 .. Len(log) /\ c \in Nat /\ Layout(file, rm, off)
      /\ Behind(file, off[m], m + 1, r, c)
      /\ intact => promised <= m /\ (Synchronize => off[promised] <= durable)
      /\ m < Len(log) => ~Whole(r, c) \/ Len(file) >= off[m] + c + 3
  BY <1>2 DEF FileIs
<1>5. /\ log \in Seq(Records) /\ Len(log) \in Nat /\ promised \in Nat /\ rm \in Seq(Records)
      /\ Len(rm) = m /\ m \in Nat
  BY <1>4, Beginning, LenProperties DEF IInv, TypesOK
<1> HIDE DEF rm
<1>6. CASE ~Whole(r, c)
  <2>1. Scan(file).records = rm /\ Scan(file).end = off[Len(rm)]
    <3>1. Scan(file) = Halted(rm, off[m], ok)
      BY <1>3, <1>6 DEF rm
    <3>2. Scan(file).records = rm /\ Scan(file).end = off[m]
      BY <3>1, HaltedFields
    <3> QED
      BY <3>2, <1>5
  <2>2. \E k \in 0 .. Len(log) : rm = SubSeq(log, 1, k)
    BY <1>4 DEF rm
  <2> QED
    BY <2>1, <2>2, <1>4, <1>5
<1>7. CASE Whole(r, c)
  <2>1. Scan(file) = Halted(Append(rm, r), off[m] + c, ok) /\ ok
    BY <1>3, <1>7, HaltedFields DEF rm
  <2>2. off \in [0 .. m -> Nat] /\ m \in 0 .. m /\ off[m] \in Nat /\ Len(file) \in Nat
    BY <1>4, <1>5, LenProperties DEF Layout
  <2>3. ~(Len(file) >= off[m] + c + 2) /\ ~(Len(file) >= off[m] + c + 3)
    BY <2>1, <2>2, <1>3, <1>4, <1>7
  <2>4. m = Len(log)
    BY <2>3, <1>4, <1>5, <1>7
  <2>5. rm = log
    BY <2>4, <1>5, SubSeqFull DEF rm
  <2>6. r \in Records /\ c = FrameSize(r) /\ c >= 3
    <3>1. r \in Records /\ c = FrameSize(r)
      BY <1>7 DEF Whole
    <3> QED
      BY <3>1, <1>5, FrameFacts
  <2>7. Chunk(file, off[m], m + 1, r, FrameSize(r))
    BY <2>6, <1>4 DEF Behind
  <2> DEFINE rt == Append(rm, r)
             ext == Extend(off, m, off[m] + FrameSize(r))
  <2>8. Layout(file, rt, ext) /\ ext[m + 1] = off[m] + c
    BY <2>6, <2>7, <1>4, <1>5, LayoutExtends
  <2>9. rt \in Seq(Records) /\ Len(rt) = m + 1
    BY <2>6, <1>5, AppendProperties
  <2>10. Scan(file).records = rt /\ Scan(file).end = ext[Len(rt)]
    <3>1. Scan(file) = Halted(rt, off[m] + c, ok)
      BY <2>1
    <3> HIDE DEF rt, ext
    <3>2. Scan(file).records = rt /\ Scan(file).end = off[m] + c
      BY <3>1, HaltedFields
    <3> QED
      BY <3>2, <2>8, <2>9
  <2>11. rt = Append(log, r)
    BY <2>5
  <2>12. intact => promised <= Len(rt) /\ (Synchronize => ext[promised] <= durable)
    <3> SUFFICES ASSUME intact
                 PROVE  promised <= Len(rt) /\ (Synchronize => ext[promised] <= durable)
      OBVIOUS
    <3>1. promised <= m /\ promised \in 0 .. m /\ promised \in 0 .. m + 1
      BY <1>4, <1>5
    <3>2. ext[promised] = off[promised]
      BY <3>1 DEF Extend
    <3> HIDE DEF rt, ext
    <3> QED
      BY <3>1, <3>2, <2>9, <1>4, <1>5
  <2> HIDE DEF rt, ext
  <2> QED
    BY <2>6, <2>8, <2>9, <2>10, <2>11, <2>12
<1> QED
  BY <1>6, <1>7

-----------------------------------------------------------------------------
(* The invariant is kept, step by step.                                    *)
LEMMA Starts == Init => IInv
<1> SUFFICES ASSUME Init PROVE IInv
  OBVIOUS
<1>1. <<>> \in Seq(Cell) /\ <<>> \in Seq(Records) /\ Len(<<>>) = 0
  BY EmptySeq
<1>2. TypesOK
  BY <1>1 DEF Init, TypesOK
<1>3. OpenedOK
  BY DEF Init, OpenedOK
<1>4. AppendOK
  <2>1. Len(file) + Len(unwritten) <= MaxFile
    BY <1>1, JournalAssumption DEF Init
  <2> QED
    BY <2>1 DEF Init, AppendOK
<1>5. FileOK
  BY DEF Init, FileOK
<1> QED
  BY <1>2, <1>3, <1>4, <1>5 DEF IInv

(* A store that is not open, and a file as it was.                         *)
LEMMA StaysClosed ==
  ASSUME IInv, UNCHANGED <<file, durable, log, promised, intact>>, status' # "open"
  PROVE  FileOK'
<1> SUFFICES ASSUME file' # <<>> PROVE \E m, off, r, c : FileIs(m, off, r, c)'
  BY DEF FileOK
<1>1. PICK m, off, r, c : FileIs(m, off, r, c)
  BY DEF IInv, FileOK
<1>2. FileIs(m, off, r, c)'
  BY <1>1 DEF FileIs
<1> QED
  BY <1>2

LEMMA ClosedAppend ==
  ASSUME IInv, file' = file, pending' = <<>>, unwritten' = <<>>
  PROVE  AppendOK'
<1>1. Len(<<>>) = 0 /\ Len(file) \in Nat /\ Len(unwritten) \in Nat /\ MaxFile \in Nat
  <2>1. unwritten \in Seq(Cell)
    BY EmptySeq DEF IInv, AppendOK
  <2> QED
    BY <2>1, EmptySeq, LenProperties, JournalAssumption DEF IInv, TypesOK
<1>2. Len(file) + Len(unwritten) <= MaxFile
  BY DEF IInv, AppendOK
<1>3. Len(file') + Len(unwritten') <= MaxFile
  BY <1>1, <1>2
<1> QED
  BY <1>3 DEF AppendOK

LEMMA CreateFileStep == IInv /\ CreateFile => IInv'
<1> SUFFICES ASSUME IInv, CreateFile PROVE IInv'
  OBVIOUS
<1> USE DEF disk_vars, history_vars
<1>1. TypesOK' /\ OpenedOK'
  BY DEF IInv, CreateFile, TypesOK, OpenedOK
<1>2. pending = <<>> /\ unwritten = <<>>
  BY DEF IInv, CreateFile, AppendOK
<1>3. AppendOK'
  BY <1>2, ClosedAppend DEF CreateFile
<1>4. FileOK'
  BY StaysClosed DEF CreateFile
<1> QED
  BY <1>1, <1>3, <1>4 DEF IInv

LEMMA CreationFailsStep == IInv /\ CreationFails => IInv'
<1> SUFFICES ASSUME IInv, CreationFails PROVE IInv'
  OBVIOUS
<1> USE DEF disk_vars, history_vars
<1>1. TypesOK' /\ OpenedOK'
  BY DEF IInv, CreationFails, TypesOK, OpenedOK
<1>2. pending = <<>> /\ unwritten = <<>>
  BY DEF IInv, CreationFails, AppendOK
<1>3. AppendOK'
  BY <1>2, ClosedAppend DEF CreationFails
<1>4. FileOK'
  BY StaysClosed DEF CreationFails
<1> QED
  BY <1>1, <1>3, <1>4 DEF IInv

LEMMA RecoveryFailsStep == IInv /\ RecoveryFails => IInv'
<1> SUFFICES ASSUME IInv, RecoveryFails PROVE IInv'
  OBVIOUS
<1> USE DEF disk_vars, history_vars
<1>1. TypesOK' /\ OpenedOK'
  BY DEF IInv, RecoveryFails, TypesOK, OpenedOK
<1>2. pending = <<>> /\ unwritten = <<>>
  BY DEF IInv, RecoveryFails, AppendOK
<1>3. AppendOK'
  BY <1>2, ClosedAppend DEF RecoveryFails
<1>4. FileOK'
  BY StaysClosed DEF RecoveryFails
<1> QED
  BY <1>1, <1>3, <1>4 DEF IInv

LEMMA ProcessEndsStep == IInv /\ ProcessEnds => IInv'
<1> SUFFICES ASSUME IInv, ProcessEnds PROVE IInv'
  OBVIOUS
<1> USE DEF disk_vars, history_vars
<1>1. TypesOK' /\ OpenedOK'
  BY DEF IInv, ProcessEnds, TypesOK, OpenedOK
<1>2. AppendOK'
  BY ClosedAppend DEF ProcessEnds
<1>3. FileOK'
  BY StaysClosed DEF ProcessEnds
<1> QED
  BY <1>1, <1>2, <1>3 DEF IInv

LEMMA WriteFileMagicStep == IInv /\ WriteFileMagic => IInv'
<1> SUFFICES ASSUME IInv, WriteFileMagic PROVE IInv'
  OBVIOUS
<1> USE DEF disk_vars, history_vars
<1>1. /\ file = <<>> /\ log = <<>> /\ promised = 0 /\ ~opened /\ exists
      /\ pending = <<>> /\ unwritten = <<>> /\ status = "creating"
      /\ durable \in Nat /\ Synchronize \in BOOLEAN
  BY JournalAssumption DEF IInv, OpenedOK, AppendOK, TypesOK, WriteFileMagic
<1>2. /\ file' = <<FileMagic>> /\ status' = "down" /\ durable' = Synced(1)
      /\ UNCHANGED <<exists, next_sequence, recent, pending, unwritten, log, promised, opened, intact>>
  BY DEF WriteFileMagic
<1>3. file' \in Seq(Cell) /\ Len(file') = 1 /\ file' # <<>>
  BY <1>2 DEF Cell
<1>4. Synced(1) \in Nat /\ (Synchronize => Synced(1) = 1)
  BY <1>1 DEF Synced
<1>5. TypesOK'
  BY <1>1, <1>2, <1>3, <1>4 DEF IInv, TypesOK
<1>6. OpenedOK'
  BY <1>1, <1>2, <1>3, <1>4 DEF OpenedOK
<1>7. AppendOK'
  <2>1. Len(file') + Len(unwritten') <= MaxFile
    BY <1>1, <1>2, <1>3, EmptySeq, JournalAssumption
  <2> QED
    BY <1>1, <1>2, <2>1 DEF AppendOK
<1>8. FileOK'
  <2> DEFINE off == [i \in 0 .. 0 |-> 1]
  <2>1. off \in [0 .. 0 -> Nat] /\ off[0] = 1
    OBVIOUS
  <2> HIDE DEF off
  <2>2. /\ SubSeq(log', 1, 0) = <<>> /\ <<>> \in Seq(Records) /\ Len(<<>>) = 0
        /\ Len(log') = 0
    BY <1>1, <1>2, SubSeqEmpty, EmptySeq
  <2>3. Layout(file', <<>>, off)
    BY <1>3, <2>1, <2>2 DEF Layout
  <2>4. Behind(file', off[0], 0 + 1, FileMagic, 0)
    BY <1>3, <2>1 DEF Behind
  <2>5. FileIs(0, off, FileMagic, 0)'
    BY <1>1, <1>2, <1>3, <1>4, <2>1, <2>2, <2>3, <2>4, SMTT(30) DEF FileIs
  <2> QED
    BY <2>5 DEF FileOK
<1> QED
  BY <1>5, <1>6, <1>7, <1>8 DEF IInv

LEMMA RecoverStep == IInv /\ Recover => IInv'
<1> SUFFICES ASSUME IInv, Recover PROVE IInv'
  OBVIOUS
<1> USE DEF disk_vars, history_vars
<1>1. /\ status \in {"down", "failed"} /\ exists /\ Scan(file).ok
      /\ file' = SubSeq(file, 1, Scan(file).end)
      /\ durable' = IF Scan(file).end = Len(file) THEN durable ELSE Synced(Scan(file).end)
      /\ status' = "open"
      /\ next_sequence' = Len(Scan(file).records) + 1
      /\ recent' = LastRecords(Scan(file).records)
      /\ log' = Scan(file).records
      /\ opened' = TRUE
      /\ UNCHANGED <<exists, pending, unwritten, promised, intact>>
  BY DEF Recover
<1>2. PICK rs, off :
           /\ rs \in Seq(Records)
           /\ Scan(file).records = rs /\ Scan(file).end = off[Len(rs)]
           /\ Layout(file, rs, off)
           /\ \/ \E r \in Records : rs = Append(log, r)
              \/ \E m \in 0 .. Len(log) : rs = SubSeq(log, 1, m)
           /\ intact => promised <= Len(rs) /\ (Synchronize => off[promised] <= durable)
  BY <1>1, Recovered
<1>3. file # <<>>
  BY <1>1, EmptyRefused
<1> DEFINE n == Len(rs)
           g == off[n]
<1>4. /\ file \in Seq(Cell) /\ Len(file) \in Nat /\ n \in Nat /\ g \in Nat /\ g <= Len(file)
      /\ off \in [0 .. n -> Nat] /\ durable \in Nat /\ promised \in Nat
      /\ (Synchronize => durable >= 1) /\ Synchronize \in BOOLEAN /\ intact \in BOOLEAN
  <2>1. /\ file \in Seq(Cell) /\ durable \in Nat /\ promised \in Nat /\ intact \in BOOLEAN
        /\ Synchronize \in BOOLEAN
    BY JournalAssumption DEF IInv, TypesOK
  <2>2. Synchronize => durable >= 1
    BY <1>3 DEF IInv, OpenedOK
  <2>3. rs \in Seq(Records) /\ off \in [0 .. n -> Nat] /\ g <= Len(file)
    BY <1>2 DEF Layout
  <2>4. n \in Nat /\ Len(file) \in Nat
    BY <2>1, <2>3, LenProperties
  <2>5. g \in Nat
    <3>1. n \in 0 .. n
      BY <2>4
    <3> QED
      BY <3>1, <2>3
  <2> QED
    BY <2>1, <2>2, <2>3, <2>4, <2>5
<1>5. n + 1 <= g /\ \A i \in 0 .. n : off[i] + (n - i) <= g
  <2>1. n \in 0 .. n /\ \A i \in 0 .. n : i <= n
    BY <1>4
  <2>2. /\ \A i, j \in 0 .. Len(rs) : i <= j => off[i] + (j - i) <= off[j]
        /\ \A i \in 0 .. Len(rs) : i + 1 <= off[i]
    BY <1>2, OffsetsGrow
  <2> HIDE DEF n
  <2>3. /\ \A i, j \in 0 .. n : i <= j => off[i] + (j - i) <= off[j]
        /\ \A i \in 0 .. n : i + 1 <= off[i]
    BY <2>2 DEF n
  <2> QED
    BY <2>1, <2>3
<1>6. file' = SubSeq(file, 1, g) /\ g \in 0 .. Len(file) /\ g >= 1
  BY <1>1, <1>2, <1>4, <1>5
<1>7. file' \in Seq(Cell) /\ Len(file') = g /\ \A i \in 1 .. g : file'[i] = file[i]
  BY <1>4, <1>6, Beginning
<1>8. file' # <<>>
  BY <1>6, <1>7, EmptySeq
<1>9. /\ log' = rs /\ status' = "open" /\ next_sequence' = n + 1 /\ recent' = LastRecords(rs)
      /\ opened' = TRUE /\ UNCHANGED <<exists, pending, unwritten, promised, intact>>
      /\ durable' = (IF g = Len(file) THEN durable ELSE Synced(g))
  BY <1>1, <1>2
<1>10. Layout(file', rs, off)
  BY <1>2, <1>7, LayoutAgrees
<1> HIDE DEF n, g
<1>11. durable' \in Nat /\ (Synchronize => durable' >= 1)
       /\ (Synchronize => durable' = durable \/ durable' = g)
  BY <1>4, <1>6, <1>9 DEF Synced
<1>12. TypesOK'
  BY <1>2, <1>7, <1>9, <1>11 DEF IInv, TypesOK
<1>13. OpenedOK'
  <2>1. Synchronize => durable' >= 1
    BY <1>11
  <2>2. status' = "open" /\ opened' = TRUE /\ file' # <<>> /\ log' = rs
    BY <1>8, <1>9
  <2>3. next_sequence' = Len(log') + 1 /\ recent' = LastRecords(log')
    BY <1>9 DEF n
  <2>4. exists'
    BY <1>3, <1>9 DEF IInv, OpenedOK
  <2> QED
    BY <2>1, <2>2, <2>3, <2>4 DEF OpenedOK
<1>14. pending = <<>> /\ unwritten = <<>>
  BY <1>1 DEF IInv, AppendOK
<1>15. AppendOK'
  <2>1. Len(file) + Len(unwritten) <= MaxFile /\ MaxFile \in Nat /\ Len(unwritten) = 0
    BY <1>14, EmptySeq, JournalAssumption DEF IInv, AppendOK
  <2>2. Len(file') + Len(unwritten') <= MaxFile
    BY <2>1, <1>4, <1>7, <1>9
  <2> QED
    BY <2>2, <1>9, <1>14 DEF AppendOK
<1>16. FileOK'
  <2>1. SubSeq(log', 1, n) = rs /\ Len(log') = n
    BY <1>2, <1>9, SubSeqFull DEF n
  <2>2. Behind(file', off[n], n + 1, FileMagic, 0)
    BY <1>7 DEF Behind, g
  <2>3. intact' => /\ Len(file') = off[n] + 0
                   /\ promised' <= n
                   /\ Synchronize => off[promised'] <= durable'
    <3> SUFFICES ASSUME intact
                 PROVE  /\ Len(file') = off[n] + 0 /\ promised <= n
                        /\ Synchronize => off[promised] <= durable'
      BY <1>9
    <3>1. promised <= n /\ (Synchronize => off[promised] <= durable)
      BY <1>2 DEF n
    <3>2. promised \in 0 .. n
      BY <3>1, <1>4
    <3>3. off[promised] + (n - promised) <= g /\ off[promised] \in Nat
      BY <3>2, <1>4, <1>5
    <3>4. off[promised] <= g
      BY <3>1, <3>3, <1>4
    <3>5. Len(file') = off[n] + 0
      BY <1>4, <1>7 DEF g
    <3> QED
      BY <3>1, <3>4, <3>5, <1>11
  <2>4. FileIs(n, off, FileMagic, 0)'
    <3>1. n \in 0 .. n /\ ~(n < n) /\ 0 \in Nat
      BY <1>4
    <3> QED
      BY <3>1, <2>1, <2>2, <2>3, <1>9, <1>10, <1>14 DEF FileIs
  <2> QED
    BY <2>4 DEF FileOK
<1> QED
  BY <1>12, <1>13, <1>15, <1>16 DEF IInv

LEMMA UnderWay ==
  ASSUME IInv, pending # <<>>
  PROVE  \E p \in Records : \E w \in Nat :
           /\ pending = <<p>> /\ pending[1] = p /\ status = "open" /\ next_sequence = Len(log) + 1
           /\ FrameSize(p) \in Nat /\ FrameSize(p) >= 3
           /\ unwritten \in Seq(Cell) /\ Len(unwritten) \in Nat
           /\ Written = w /\ Len(unwritten) + w = FrameSize(p)
           /\ \A i \in 1 .. Len(unwritten) : unwritten[i] = Frame(next_sequence, p)[w + i]
<1>1. PICK p \in Records : pending = <<p>>
  BY DEF IInv, AppendOK
<1>2. pending[1] = p
  BY <1>1
<1>3. /\ unwritten \in Seq(Cell) /\ Len(unwritten) <= FrameSize(p)
      /\ status = "open" /\ next_sequence = Len(log) + 1
      /\ \A i \in 1 .. Len(unwritten) : unwritten[i] = Frame(next_sequence, p)[Written + i]
  BY <1>2 DEF IInv, AppendOK, OpenedOK
<1>4. FrameSize(p) \in Nat /\ FrameSize(p) >= 3 /\ Len(unwritten) \in Nat
  <2>1. Len(log) + 1 \in Nat
    BY LenProperties DEF IInv, TypesOK
  <2> QED
    BY <2>1, <1>3, FrameFacts, LenProperties
<1>5. Written \in Nat /\ Len(unwritten) + Written = FrameSize(p)
  BY <1>2, <1>3, <1>4 DEF Written
<1> QED
  BY <1>1, <1>2, <1>3, <1>4, <1>5

LEMMA BeginAppendStep == ASSUME IInv, NEW p \in Records, BeginAppend(p) PROVE IInv'
<1> USE DEF disk_vars, history_vars
<1>1. /\ status = "open" /\ pending = <<>> /\ Len(file) + FrameSize(p) <= MaxFile
      /\ pending' = <<p>> /\ unwritten' = Frame(next_sequence, p)
      /\ UNCHANGED <<exists, file, durable, status, next_sequence, recent, log, promised, opened, intact>>
  BY DEF BeginAppend
<1>2. next_sequence = Len(log) + 1 /\ next_sequence \in Nat
  BY <1>1, LenProperties DEF IInv, OpenedOK, TypesOK
<1>3. /\ FrameSize(p) \in Nat /\ Frame(next_sequence, p) \in Seq(Cell)
      /\ Len(Frame(next_sequence, p)) = FrameSize(p)
  BY <1>2, FrameFacts
<1>4. pending'[1] = p /\ pending' # <<>> /\ FrameSize(pending'[1]) - Len(unwritten') = 0
  BY <1>1, <1>3
<1>5. Written' = 0
  BY <1>4 DEF Written
<1>6. TypesOK' /\ OpenedOK'
  BY <1>1 DEF IInv, TypesOK, OpenedOK
<1>7. AppendOK'
  <2>1. ASSUME NEW i \in 1 .. Len(unwritten')
        PROVE  unwritten'[i] = Frame(next_sequence', pending'[1])[Written' + i]
    <3>1. Written' + i = i
      BY <1>3, <1>5
    <3> QED
      BY <3>1, <1>1, <1>4
  <2>2. \E q \in Records : pending' = <<q>>
    BY <1>1
  <2>3. /\ unwritten' \in Seq(Cell) /\ Len(unwritten') <= FrameSize(pending'[1])
        /\ Len(file') + Len(unwritten') <= MaxFile
    BY <1>1, <1>3, <1>4
  <2> QED
    BY <2>1, <2>2, <2>3, <1>1, <1>4 DEF AppendOK
<1>8. FileOK'
  <2> SUFFICES ASSUME file # <<>> PROVE \E m, off, r, c : FileIs(m, off, r, c)'
    BY <1>1 DEF FileOK
  <2>1. PICK m, off, r, c : FileIs(m, off, r, c)
    BY DEF IInv, FileOK
  <2>2. ASSUME m = Len(log)
        PROVE  \/ Len(file) = off[m] + c /\ c = Written' /\ (c > 0 => r = pending'[1])
               \/ ~intact /\ Len(file) >= off[m] + c + Written'
    <3> DEFINE rs == SubSeq(log, 1, m)
    <3>1. /\ c \in Nat /\ Layout(file, rs, off) /\ Behind(file, off[m], m + 1, r, c)
          /\ intact => c = 0
      BY <2>1, <2>2, <1>1 DEF FileIs
    <3>2. Len(rs) = m /\ m \in Nat /\ rs \in Seq(Records)
      BY <2>2, SubSeqFull, LenProperties DEF IInv, TypesOK
    <3> HIDE DEF rs
    <3>3. off[m] \in Nat /\ Len(file) \in Nat
      BY <3>1, <3>2, LenProperties DEF Layout
    <3>4. CASE c = 0
      <4>1. Len(file) = off[m]
        <5>1. FrameSize(r) \in Nat => 0 \notin 1 .. FrameSize(r)
          OBVIOUS
        <5>2. r \in Records => FrameSize(r) \in Nat
          BY <1>2, FrameFacts
        <5> QED
          BY <5>1, <5>2, <3>1, <3>4 DEF Behind
      <4> QED
        BY <4>1, <3>3, <3>4, <1>5
    <3>5. CASE c # 0
      <4>1. Len(file) >= off[m] + c
        BY <3>1, <3>3, <3>5 DEF Behind, Chunk
      <4> QED
        BY <4>1, <3>1, <3>3, <3>5, <1>5
    <3> QED
      BY <3>4, <3>5
  <2>3. FileIs(m, off, r, c)'
    BY <2>1, <2>2, <1>1, <1>4 DEF FileIs
  <2> QED
    BY <2>3
<1> QED
  BY <1>6, <1>7, <1>8 DEF IInv

LEMMA AppendFailsStep == IInv /\ AppendFails => IInv'
<1> SUFFICES ASSUME IInv, AppendFails PROVE IInv'
  OBVIOUS
<1> USE DEF disk_vars, history_vars
<1>1. /\ pending # <<>> /\ pending' = <<>> /\ unwritten' = <<>>
      /\ intact' = (intact /\ unwritten = Frame(next_sequence, pending[1]))
      /\ UNCHANGED <<exists, file, durable, status, next_sequence, recent, log, promised, opened>>
  BY DEF AppendFails
<1>2. PICK p \in Records : \E w \in Nat :
           /\ pending = <<p>> /\ pending[1] = p /\ status = "open" /\ next_sequence = Len(log) + 1
           /\ FrameSize(p) \in Nat /\ FrameSize(p) >= 3
           /\ unwritten \in Seq(Cell) /\ Len(unwritten) \in Nat
           /\ Written = w /\ Len(unwritten) + w = FrameSize(p)
           /\ \A i \in 1 .. Len(unwritten) : unwritten[i] = Frame(next_sequence, p)[w + i]
  BY <1>1, UnderWay
<1>3. TypesOK' /\ OpenedOK'
  <2>1. intact' \in BOOLEAN
    BY <1>1 DEF IInv, TypesOK
  <2> QED
    BY <2>1, <1>1 DEF IInv, TypesOK, OpenedOK
<1>4. AppendOK'
  BY <1>1, ClosedAppend
<1>5. intact' => intact /\ Written = 0
  <2>1. ASSUME unwritten = Frame(next_sequence, p) PROVE Written = 0
    <3>1. Len(unwritten) = FrameSize(p)
      <4>1. next_sequence \in Nat
        BY <1>2, LenProperties DEF IInv, TypesOK
      <4> QED
        BY <2>1, <4>1, FrameFacts
    <3> QED
      BY <3>1, <1>2
  <2> QED
    BY <2>1, <1>1, <1>2
<1>6. FileOK'
  <2> SUFFICES ASSUME file # <<>> PROVE \E m, off, r, c : FileIs(m, off, r, c)'
    BY <1>1 DEF FileOK
  <2>1. PICK m, off, r, c : FileIs(m, off, r, c)
    BY DEF IInv, FileOK
  <2>2. FileIs(m, off, r, c)'
    BY <2>1, <1>1, <1>2, <1>5 DEF FileIs
  <2> QED
    BY <2>2
<1> QED
  BY <1>3, <1>4, <1>6 DEF IInv

(* The first n cells of u are behind f, and u2 has the others.             *)
MovedTo(f, u, n, f2, u2) ==
  /\ f2 \in Seq(Cell) /\ Len(f2) = Len(f) + n
  /\ \A i \in 1 .. Len(f) : f2[i] = f[i]
  /\ \A i \in 1 .. n : f2[Len(f) + i] = u[i]
  /\ u2 \in Seq(Cell) /\ Len(u2) = Len(u) - n
  /\ \A i \in 1 .. Len(u) - n : u2[i] = u[n + i]

LEMMA Moved ==
  ASSUME NEW f \in Seq(Cell), NEW u \in Seq(Cell), NEW n \in 1 .. Len(u)
  PROVE  MovedTo(f, u, n, f \o SubSeq(u, 1, n), SubSeq(u, n + 1, Len(u)))
<1>1. Len(f) \in Nat /\ Len(u) \in Nat /\ n \in 0 .. Len(u) /\ n \in Nat /\ n <= Len(u)
  BY LenProperties
<1> DEFINE a == SubSeq(u, 1, n)
           b == SubSeq(u, n + 1, Len(u))
<1>2. a \in Seq(Cell) /\ Len(a) = n /\ \A i \in 1 .. n : a[i] = u[i]
  BY <1>1, Beginning
<1> HIDE DEF a
<1>3. /\ f \o a \in Seq(Cell) /\ Len(f \o a) = Len(f) + Len(a)
      /\ \A i \in 1 .. Len(f) + Len(a) :
           (f \o a)[i] = IF i <= Len(f) THEN f[i] ELSE a[i - Len(f)]
  BY <1>2, ConcatProperties, Zenon
<1>4. \A i \in 1 .. Len(f) : (f \o a)[i] = f[i]
  BY <1>1, <1>2, <1>3
<1>5. ASSUME NEW i \in 1 .. n PROVE (f \o a)[Len(f) + i] = u[i]
  <2>1. /\ Len(f) + i \in 1 .. Len(f) + Len(a) /\ ~(Len(f) + i <= Len(f))
        /\ (Len(f) + i) - Len(f) = i
    BY <1>1, <1>2
  <2> QED
    BY <2>1, <1>2, <1>3
<1>6. \A i \in n + 1 .. Len(u) : u[i] \in Cell
  <2>1. \A i \in n + 1 .. Len(u) : i \in 1 .. Len(u)
    BY <1>1
  <2> QED
    BY <2>1, ElementOfSeq
<1>7. /\ b \in Seq(Cell) /\ Len(b) = (IF n + 1 <= Len(u) THEN Len(u) - (n + 1) + 1 ELSE 0)
      /\ \A i \in 1 .. Len(u) - (n + 1) + 1 : b[i] = u[(n + 1) + i - 1]
  <2>1. n + 1 \in Int /\ Len(u) \in Int
    BY <1>1
  <2> QED
    BY <2>1, <1>6, SubSeqProperties
<1> HIDE DEF b
<1>8. Len(b) = Len(u) - n
  BY <1>1, <1>7
<1>9. ASSUME NEW i \in 1 .. Len(u) - n PROVE b[i] = u[n + i]
  <2>1. i \in 1 .. Len(u) - (n + 1) + 1 /\ (n + 1) + i - 1 = n + i
    BY <1>1
  <2> QED
    BY <2>1, <1>7
<1> DEFINE f2 == f \o a
<1>10. /\ f2 \in Seq(Cell) /\ Len(f2) = Len(f) + n
       /\ \A i \in 1 .. Len(f) : f2[i] = f[i]
       /\ \A i \in 1 .. n : f2[Len(f) + i] = u[i]
  BY <1>2, <1>3, <1>4, <1>5
<1> HIDE DEF f2
<1>11. MovedTo(f, u, n, f2, b)
  BY <1>7, <1>8, <1>9, <1>10 DEF MovedTo
<1> QED
  BY <1>11 DEF f2, a, b

LEMMA WriteCellsStep == IInv /\ WriteCells => IInv'
<1> SUFFICES ASSUME IInv, WriteCells PROVE IInv'
  OBVIOUS
<1> USE DEF disk_vars, history_vars
<1>1. PICK n \in 1 .. Len(unwritten) :
           /\ file' = file \o SubSeq(unwritten, 1, n)
           /\ unwritten' = SubSeq(unwritten, n + 1, Len(unwritten))
  BY DEF WriteCells
<1>2. UNCHANGED <<exists, durable, status, next_sequence, recent, pending, log, promised, opened, intact>>
  BY DEF WriteCells
<1>3. pending # <<>>
  BY DEF WriteCells, IInv, AppendOK
<1>4. PICK p \in Records, w \in Nat :
           /\ pending = <<p>> /\ pending[1] = p /\ status = "open" /\ next_sequence = Len(log) + 1
           /\ FrameSize(p) \in Nat /\ FrameSize(p) >= 3
           /\ unwritten \in Seq(Cell) /\ Len(unwritten) \in Nat
           /\ Written = w /\ Len(unwritten) + w = FrameSize(p)
           /\ \A i \in 1 .. Len(unwritten) : unwritten[i] = Frame(next_sequence, p)[w + i]
  BY <1>3, UnderWay
<1>5. file \in Seq(Cell) /\ Len(file) \in Nat /\ n \in Nat /\ n >= 1 /\ n <= Len(unwritten)
      /\ log \in Seq(Records) /\ Len(log) \in Nat
  BY <1>4, LenProperties DEF IInv, TypesOK
<1>6. /\ file' \in Seq(Cell) /\ Len(file') = Len(file) + n
      /\ \A i \in 1 .. Len(file) : file'[i] = file[i]
      /\ \A i \in 1 .. n : file'[Len(file) + i] = unwritten[i]
      /\ unwritten' \in Seq(Cell) /\ Len(unwritten') = Len(unwritten) - n
      /\ \A i \in 1 .. Len(unwritten) - n : unwritten'[i] = unwritten[n + i]
  <2>1. file \in Seq(Cell) /\ unwritten \in Seq(Cell) /\ n \in 1 .. Len(unwritten)
    BY <1>4, <1>5
  <2>2. MovedTo(file, unwritten, n, file', unwritten')
    BY <2>1, <1>1, Moved
  <2> QED
    BY <2>2 DEF MovedTo
<1>7. file # <<>> /\ file' # <<>>
  <2>1. Len(file') # 0
    BY <1>5, <1>6
  <2>2. file # <<>>
    BY <1>4 DEF IInv, OpenedOK
  <2> QED
    BY <2>1, <2>2, <1>6, EmptySeq
<1>8. TypesOK' /\ OpenedOK'
  BY <1>2, <1>4, <1>6, <1>7 DEF IInv, TypesOK, OpenedOK
<1>9. Written' = w + n
  <2>1. FrameSize(p) - (Len(unwritten) - n) = w + n
    BY <1>4, <1>5
  <2> QED
    BY <2>1, <1>2, <1>4, <1>6 DEF Written
<1>10. AppendOK'
  <2>1. ASSUME NEW i \in 1 .. Len(unwritten')
        PROVE  unwritten'[i] = Frame(next_sequence', pending'[1])[Written' + i]
    <3>1. i \in 1 .. Len(unwritten) - n /\ n + i \in 1 .. Len(unwritten) /\ (w + n) + i = w + (n + i)
      BY <1>4, <1>5, <1>6
    <3>2. unwritten'[i] = Frame(next_sequence, p)[w + (n + i)]
      BY <3>1, <1>4, <1>6
    <3> QED
      BY <3>1, <3>2, <1>2, <1>4, <1>9
  <2>2. Len(file') + Len(unwritten') <= MaxFile /\ Len(unwritten') <= FrameSize(p)
    <3>1. Len(file) + Len(unwritten) <= MaxFile /\ MaxFile \in Nat
      BY JournalAssumption DEF IInv, AppendOK
    <3> QED
      BY <3>1, <1>4, <1>5, <1>6, SMTT(30)
  <2> QED
    BY <2>1, <2>2, <1>2, <1>3, <1>4, <1>6 DEF AppendOK
<1>11. FileOK'
  <2>1. PICK m, off, r, c : FileIs(m, off, r, c)
    BY <1>7 DEF IInv, FileOK
  <2> DEFINE rs == SubSeq(log, 1, m)
             g == off[m]
  <2>2. /\ m \in 0 .. Len(log) /\ m \in Nat /\ c \in Nat
        /\ Layout(file, rs, off) /\ Behind(file, g, m + 1, r, c)
        /\ intact => /\ Len(file) = g + c
                     /\ promised <= m
                     /\ Synchronize => off[promised] <= durable
        /\ m < Len(log) => /\ ~intact /\ Len(file) >= g + c + 3
                           /\ Synchronize => durable >= g + c + 3
        /\ m = Len(log) => \/ Len(file) = g + c /\ c = w /\ (c > 0 => r = p)
                           \/ ~intact /\ Len(file) >= g + c + w
    BY <2>1, <1>3, <1>4, <1>5 DEF FileIs
  <2>3. rs \in Seq(Records) /\ Len(rs) = m
    BY <2>2, <1>5, Beginning
  <2> HIDE DEF rs, g
  <2>4. g \in Nat /\ g <= Len(file)
    BY <2>2, <2>3 DEF Layout, g
  <2>5. Layout(file', rs, off)
    <3>1. off[Len(rs)] <= Len(file') /\ \A i \in 1 .. off[Len(rs)] : i \in 1 .. Len(file)
      BY <2>3, <2>4, <1>5, <1>6 DEF g
    <3> QED
      BY <3>1, <2>2, <1>6, LayoutAgrees
  <2>6. ASSUME NEW i \in 1 .. n, m = Len(log) PROVE file'[Len(file) + i] = Frame(m + 1, p)[w + i]
    <3>1. i \in 1 .. Len(unwritten)
      BY <1>4, <1>5
    <3> QED
      BY <3>1, <2>6, <1>4, <1>6
  <2>11. /\ m \in Nat /\ c \in Nat /\ n \in Nat /\ n >= 1 /\ Len(file) \in Nat
         /\ g \in Nat /\ g <= Len(file) /\ Len(file') = Len(file) + n
         /\ FrameSize(p) \in Nat /\ w + n <= FrameSize(p) /\ m + 1 \in Nat
    BY <2>2, <2>4, <1>4, <1>5, <1>6, SMTT(30)
  <2>12. /\ file \in Seq(Cell) /\ file' \in Seq(Cell) /\ Behind(file, g, m + 1, r, c)
         /\ \A i \in 1 .. Len(file) : file'[i] = file[i]
    BY <2>2, <1>5, <1>6
  <2>13. m = Len(log) => Grows(file, file', m + 1, p, w, n)
    BY <2>6, <2>11, <2>12 DEF Grows
  <2>7. CASE m < Len(log)
    <3>5. Len(file) >= g + c + 3
      BY <2>2, <2>7
    <3>1. Behind(file', g, m + 1, r, c)
      <4>1. g + c <= Len(file') /\ Len(file) >= g + c + 2
        BY <3>5, <2>11
      <4>2. \A i \in 1 .. Len(file) : i <= Len(file') => file'[i] = file[i]
        BY <2>12
      <4> QED
        BY <4>1, <4>2, <2>11, <2>12, BehindAgrees
    <3>2. Len(file') >= g + c + 3
      BY <3>5, <2>11
    <3>3. m # Len(log)
      BY <2>2, <2>7, <1>5
    <3>4. FileIs(m, off, r, c)'
      BY <2>2, <2>5, <2>7, <3>1, <3>2, <3>3, <1>2 DEF FileIs, rs, g
    <3> QED
      BY <3>4 DEF FileOK
  <2>8. CASE m = Len(log) /\ Len(file) = g + c /\ c = w /\ (c > 0 => r = p)
    <3>1. Behind(file', g, m + 1, p, w + n)
      <4>1. /\ Behind(file, g, m + 1, r, w) /\ (w > 0 => r = p) /\ Len(file) = g + w
            /\ Grows(file, file', m + 1, p, w, n)
        BY <2>2, <2>8, <2>13
      <4> QED
        BY <4>1, <2>11, BehindFrames
    <3>2. Len(file') = g + (w + n) /\ w + n \in Nat
      BY <2>8, <2>11
    <3>3. ~(m < Len(log)) /\ pending' # <<>> /\ pending'[1] = p /\ m \in 0 .. Len(log)
      BY <2>2, <2>8, <1>2, <1>3, <1>4, <1>5
    <3>4. intact => promised <= m /\ (Synchronize => off[promised] <= durable)
      BY <2>2
    <3>5. FileIs(m, off, p, w + n)'
      BY <2>5, <3>1, <3>2, <3>3, <3>4, <1>2, <1>9 DEF FileIs, rs, g
    <3> QED
      BY <3>5 DEF FileOK
  <2>9. CASE m = Len(log) /\ ~intact /\ Len(file) >= g + c + w /\ c # 0
    <3>1. Behind(file', g, m + 1, r, c)
      <4>1. Len(file) >= g + c + w /\ c # 0 /\ Grows(file, file', m + 1, p, w, n)
        BY <2>9, <2>13
      <4>2. Behind(file, g, m + 1, r, c)
        BY <2>12
      <4> QED
        BY <4>1, <4>2, <2>11, BehindFragment
    <3>2. Len(file') >= g + c + (w + n)
      BY <2>9, <2>11
    <3>3. ~(m < Len(log)) /\ pending' # <<>> /\ m \in 0 .. Len(log)
      BY <2>2, <2>9, <1>2, <1>3, <1>5
    <3>4. FileIs(m, off, r, c)'
      BY <2>2, <2>5, <2>9, <3>1, <3>2, <3>3, <1>2, <1>9 DEF FileIs, rs, g
    <3> QED
      BY <3>4 DEF FileOK
  <2>10. CASE m = Len(log) /\ ~intact /\ Len(file) >= g + c + w /\ c = 0
    <3>1. Len(file) = g
      <4>1. r \in Records => FrameSize(r) \in Nat
        BY <2>2, FrameFacts
      <4>2. r \in Records => 0 \notin 1 .. FrameSize(r)
        BY <4>1
      <4> QED
        BY <4>2, <2>2, <2>10 DEF Behind
    <3>2. w = 0
      BY <3>1, <2>4, <2>10
    <3> QED
      BY <3>1, <3>2, <2>4, <2>8, <2>10
  <2> QED
    BY <2>2, <2>7, <2>8, <2>9, <2>10, <1>5
<1> QED
  BY <1>8, <1>10, <1>11 DEF IInv

(* The list of recent records is kept the same way as it is read.          *)
LEMMA LastRecordsFacts ==
  ASSUME NEW l \in Seq(Records)
  PROVE  /\ LastRecords(l) \in Seq(Records)
         /\ Len(LastRecords(l)) = IF Len(l) > RecentLimit THEN RecentLimit ELSE Len(l)
         /\ \A i \in 1 .. Len(LastRecords(l)) :
              LastRecords(l)[i] = l[(Len(l) - Len(LastRecords(l))) + i]
<1>1. Len(l) \in Nat /\ RecentLimit \in Nat /\ RecentLimit >= 1
  BY LenProperties, JournalAssumption
<1>2. CASE ~(Len(l) > RecentLimit)
  <2>1. LastRecords(l) = l
    BY <1>2 DEF LastRecords
  <2>2. \A i \in 1 .. Len(l) : (Len(l) - Len(l)) + i = i
    BY <1>1
  <2> QED
    BY <2>1, <2>2, <1>2
<1>3. CASE Len(l) > RecentLimit
  <2> DEFINE a == Len(l) - RecentLimit + 1
             z == Len(l)
             t == SubSeq(l, a, z)
  <2>1. LastRecords(l) = t
    BY <1>3 DEF LastRecords
  <2>2. a \in Int /\ z \in Int /\ a <= z /\ z - a + 1 = RecentLimit /\ a >= 1
    BY <1>1, <1>3
  <2>3. \A i \in a .. z : l[i] \in Records
    <3>1. \A i \in a .. z : i \in 1 .. Len(l)
      BY <1>1, <1>3
    <3> QED
      BY <3>1, ElementOfSeq
  <2>4. \A i \in 1 .. RecentLimit : a + i - 1 = (Len(l) - RecentLimit) + i
    BY <1>1
  <2> HIDE DEF a, z
  <2>5. /\ t \in Seq(Records) /\ Len(t) = (IF a <= z THEN z - a + 1 ELSE 0)
        /\ \A i \in 1 .. z - a + 1 : t[i] = l[a + i - 1]
    BY <2>2, <2>3, SubSeqProperties
  <2> HIDE DEF t
  <2>6. Len(t) = RecentLimit /\ \A i \in 1 .. RecentLimit : t[i] = l[a + i - 1]
    BY <2>2, <2>5
  <2> QED
    BY <2>1, <2>4, <2>5, <2>6, <1>3
<1> QED
  BY <1>2, <1>3

LEMMA LastOfLonger ==
  ASSUME NEW l \in Seq(Records), NEW p \in Records
  PROVE  LastRecords(Append(LastRecords(l), p)) = LastRecords(Append(l, p))
<1> DEFINE L == RecentLimit
           t == LastRecords(l)
           lp == Append(l, p)
           tp == Append(t, p)
           a == LastRecords(tp)
           b == LastRecords(lp)
<1>1. Len(l) \in Nat /\ L \in Nat /\ L >= 1
  BY LenProperties, JournalAssumption
<1>2. /\ t \in Seq(Records) /\ Len(t) = (IF Len(l) > L THEN L ELSE Len(l))
      /\ \A i \in 1 .. Len(t) : t[i] = l[(Len(l) - Len(t)) + i]
  BY LastRecordsFacts
<1> HIDE DEF t
<1>3. /\ lp \in Seq(Records) /\ Len(lp) = Len(l) + 1
      /\ \A i \in 1 .. Len(l) : lp[i] = l[i]
      /\ lp[Len(l) + 1] = p
  BY AppendProperties
<1>4. /\ tp \in Seq(Records) /\ Len(tp) = Len(t) + 1
      /\ \A i \in 1 .. Len(t) : tp[i] = t[i]
      /\ tp[Len(t) + 1] = p
  BY <1>2, AppendProperties
<1> HIDE DEF lp, tp
<1>5. /\ a \in Seq(Records) /\ Len(a) = (IF Len(tp) > L THEN L ELSE Len(tp))
      /\ \A i \in 1 .. Len(a) : a[i] = tp[(Len(tp) - Len(a)) + i]
  BY <1>4, LastRecordsFacts
<1>6. /\ b \in Seq(Records) /\ Len(b) = (IF Len(lp) > L THEN L ELSE Len(lp))
      /\ \A i \in 1 .. Len(b) : b[i] = lp[(Len(lp) - Len(b)) + i]
  BY <1>3, LastRecordsFacts
<1> HIDE DEF a, b
<1>7. Len(t) \in Nat /\ Len(t) <= Len(l) /\ Len(t) <= L /\ (Len(t) < L => Len(t) = Len(l))
  BY <1>1, <1>2
<1>8. Len(a) = Len(b) /\ Len(a) \in Nat /\ Len(a) <= Len(t) + 1 /\ Len(lp) = Len(l) + 1 /\ Len(tp) = Len(t) + 1
  BY <1>1, <1>3, <1>4, <1>5, <1>6, <1>7
<1>9. ASSUME NEW i \in 1 .. Len(a) PROVE a[i] = b[i]
  <2> DEFINE j == (Len(tp) - Len(a)) + i
             k == (Len(lp) - Len(b)) + i
  <2>1. a[i] = tp[j] /\ b[i] = lp[k]
    BY <1>5, <1>6, <1>8
  <2>2. j \in 1 .. Len(t) + 1 /\ k = (Len(l) - Len(t)) + j
    BY <1>1, <1>7, <1>8
  <2> HIDE DEF j, k
  <2>3. CASE j \in 1 .. Len(t)
    <3>1. k \in 1 .. Len(l)
      BY <2>2, <2>3, <1>1, <1>7
    <3>2. tp[j] = l[k]
      BY <2>2, <2>3, <1>2, <1>4
    <3> QED
      BY <2>1, <3>1, <3>2, <1>3
  <2>4. CASE j = Len(t) + 1
    <3>1. k = Len(l) + 1
      BY <2>2, <2>4, <1>1, <1>7
    <3> QED
      BY <2>1, <2>4, <3>1, <1>3, <1>4
  <2> QED
    BY <2>2, <2>3, <2>4, <1>7
<1>10. a = b
  BY <1>5, <1>6, <1>8, <1>9, SeqEqual
<1> QED
  BY <1>10 DEF a, b, t, lp, tp

LEMMA SameBeginning ==
  ASSUME NEW S, NEW s \in Seq(S), NEW t \in Seq(S), NEW n \in 0 .. Len(s), n \in 0 .. Len(t),
         \A i \in 1 .. n : s[i] = t[i]
  PROVE  SubSeq(s, 1, n) = SubSeq(t, 1, n)
<1> DEFINE a == SubSeq(s, 1, n)  b == SubSeq(t, 1, n)
<1>1. a \in Seq(S) /\ Len(a) = n /\ \A i \in 1 .. n : a[i] = s[i]
  BY Beginning
<1>2. b \in Seq(S) /\ Len(b) = n /\ \A i \in 1 .. n : b[i] = t[i]
  BY Beginning
<1> HIDE DEF a, b
<1>3. a = b
  BY <1>1, <1>2, SeqEqual
<1> QED
  BY <1>3 DEF a, b

LEMMA AppendSucceedsStep == IInv /\ AppendSucceeds => IInv'
<1> SUFFICES ASSUME IInv, AppendSucceeds PROVE IInv'
  OBVIOUS
<1> USE DEF disk_vars, history_vars
<1>1. /\ pending # <<>> /\ unwritten = <<>>
      /\ durable' = Synced(Len(file)) /\ next_sequence' = next_sequence + 1
      /\ recent' = LastRecords(recent \o pending)
      /\ log' = log \o pending /\ promised' = Len(log') /\ pending' = <<>>
      /\ UNCHANGED <<exists, file, status, unwritten, opened, intact>>
  BY DEF AppendSucceeds
<1>2. PICK p \in Records, w \in Nat :
           /\ pending = <<p>> /\ pending[1] = p /\ status = "open" /\ next_sequence = Len(log) + 1
           /\ FrameSize(p) \in Nat /\ FrameSize(p) >= 3
           /\ unwritten \in Seq(Cell) /\ Len(unwritten) \in Nat
           /\ Written = w /\ Len(unwritten) + w = FrameSize(p)
           /\ \A i \in 1 .. Len(unwritten) : unwritten[i] = Frame(next_sequence, p)[w + i]
  BY <1>1, UnderWay
<1>3. w = FrameSize(p) /\ w >= 3
  BY <1>1, <1>2, EmptySeq
<1>4. /\ file \in Seq(Cell) /\ Len(file) \in Nat /\ log \in Seq(Records) /\ Len(log) \in Nat
      /\ durable \in Nat /\ recent = LastRecords(log) /\ file # <<>> /\ Synchronize \in BOOLEAN
      /\ intact \in BOOLEAN
  BY <1>2, LenProperties, JournalAssumption DEF IInv, TypesOK, OpenedOK
<1>5. /\ log' = Append(log, p) /\ log' \in Seq(Records) /\ Len(log') = Len(log) + 1
      /\ \A i \in 1 .. Len(log) : log'[i] = log[i]
  <2>1. log' = Append(log, p)
    BY <1>1, <1>2, <1>4, AppendIsConcat
  <2> QED
    BY <2>1, <1>4, AppendProperties
<1>6. recent' = LastRecords(log')
  <2>1. recent \in Seq(Records)
    BY <1>4, LastRecordsFacts
  <2>2. recent \o pending = Append(recent, p)
    BY <2>1, <1>2, AppendIsConcat
  <2> QED
    BY <2>2, <1>1, <1>4, <1>5, LastOfLonger
<1>7. durable' \in Nat /\ (Synchronize => durable' = Len(file)) /\ Len(file) >= 1
  <2>1. Len(file) # 0
    BY <1>4, EmptySeq
  <2> QED
    BY <2>1, <1>1, <1>4 DEF Synced
<1>8. promised' = Len(log) + 1 /\ promised' \in Nat
  BY <1>1, <1>4, <1>5
<1>9. TypesOK'
  BY <1>1, <1>5, <1>7, <1>8 DEF IInv, TypesOK
<1>10. OpenedOK'
  <2>1. next_sequence' = Len(log') + 1
    BY <1>1, <1>2, <1>5
  <2> QED
    BY <2>1, <1>1, <1>2, <1>4, <1>6, <1>7 DEF IInv, OpenedOK
<1>11. AppendOK'
  BY <1>1, ClosedAppend
<1>12. FileOK'
  <2>1. PICK m, off, r, c : FileIs(m, off, r, c)
    BY <1>4 DEF IInv, FileOK
  <2> DEFINE rs == SubSeq(log, 1, m)
             g == off[m]
  <2>2. /\ m \in 0 .. Len(log) /\ m \in Nat /\ c \in Nat
        /\ Layout(file, rs, off) /\ Behind(file, g, m + 1, r, c)
        /\ m < Len(log) => /\ ~intact /\ Len(file) >= g + c + 3
        /\ m = Len(log) => \/ Len(file) = g + c /\ c = w /\ (c > 0 => r = p)
                           \/ ~intact /\ Len(file) >= g + c + w
    BY <2>1, <1>1, <1>2, <1>4 DEF FileIs
  <2>3. rs \in Seq(Records) /\ Len(rs) = m
    BY <2>2, <1>4, Beginning
  <2> HIDE DEF rs, g
  <2>4. g \in Nat
    BY <2>2, <2>3 DEF Layout, g
  <2>5. CASE ~intact /\ Len(file) >= g + c + 3
    <3>1. SubSeq(log', 1, m) = rs
      <4>1. m \in 0 .. Len(log') /\ \A i \in 1 .. m : i \in 1 .. Len(log)
        BY <2>2, <1>4, <1>5
      <4>2. \A i \in 1 .. m : log'[i] = log[i]
        BY <4>1, <1>5
      <4> QED
        BY <4>1, <4>2, <2>2, <1>4, <1>5, SameBeginning DEF rs
    <3>2. m \in 0 .. Len(log') /\ m # Len(log')
      BY <2>2, <1>4, <1>5
    <3>3. FileIs(m, off, r, c)'
      BY <2>2, <2>5, <3>1, <3>2, <1>1, <1>7 DEF FileIs, g
    <3> QED
      BY <3>3 DEF FileOK
  <2>6. CASE m = Len(log) /\ Len(file) = g + c /\ c = w /\ (c > 0 => r = p)
    <3>1. rs = log
      BY <2>6, <1>4, SubSeqFull DEF rs
    <3>2. r = p /\ c = FrameSize(p) /\ c # 0 /\ c > 0
      BY <2>6, <1>2, <1>3
    <3>3. Chunk(file, g, m + 1, p, FrameSize(p))
      BY <2>2, <3>2 DEF Behind
    <3> DEFINE ext == Extend(off, m, g + FrameSize(p))
    <3>4. Layout(file, Append(log, p), ext) /\ ext[m + 1] = g + c
      BY <2>2, <2>3, <3>1, <3>2, <3>3, LayoutExtends DEF g
    <3> HIDE DEF ext
    <3>5. SubSeq(log', 1, m + 1) = log' /\ m + 1 = Len(log')
      BY <2>6, <1>5, SubSeqFull
    <3>6. Layout(file', SubSeq(log', 1, m + 1), ext)
      BY <3>4, <3>5, <1>1, <1>5
    <3>7. Behind(file', ext[m + 1], (m + 1) + 1, FileMagic, 0)
      BY <2>6, <3>4, <1>1 DEF Behind
    <3>8. Len(file') = ext[m + 1] + 0 /\ promised' = m + 1 /\ m + 1 \in 0 .. Len(log')
          /\ ~(m + 1 < Len(log')) /\ promised' <= m + 1 /\ Len(file) = ext[m + 1]
      BY <2>2, <2>4, <2>6, <3>4, <3>5, <1>1, <1>4, <1>8
    <3>9. Synchronize => ext[promised'] <= durable'
      BY <3>8, <1>4, <1>7
    <3>10. FileIs(m + 1, ext, FileMagic, 0)'
      BY <3>6, <3>7, <3>8, <3>9, <1>1 DEF FileIs
    <3> QED
      BY <3>10 DEF FileOK
  <2>7. CASE m = Len(log) /\ ~intact /\ Len(file) >= g + c + w
    <3>1. Len(file) >= g + c + 3
      BY <2>2, <2>4, <2>7, <1>3, <1>4
    <3> QED
      BY <3>1, <2>5, <2>7
  <2>8. m < Len(log) \/ m = Len(log)
    BY <2>2, <1>4
  <2> QED
    BY <2>2, <2>5, <2>6, <2>7, <2>8
<1> QED
  BY <1>9, <1>10, <1>11, <1>12 DEF IInv

LEMMA PowerFailsStep == IInv /\ PowerFails => IInv'
<1> SUFFICES ASSUME IInv, PowerFails PROVE IInv'
  OBVIOUS
<1> USE DEF disk_vars, history_vars
<1>1. PICK n \in durable .. Len(file) : file' = SubSeq(file, 1, n) /\ durable' = n
  BY DEF PowerFails
<1>2. /\ Synchronize /\ status' = "down" /\ pending' = <<>> /\ unwritten' = <<>>
      /\ UNCHANGED <<exists, next_sequence, recent, log, promised, opened, intact>>
  BY DEF PowerFails
<1>3. /\ file \in Seq(Cell) /\ Len(file) \in Nat /\ durable \in Nat /\ log \in Seq(Records)
      /\ Len(log) \in Nat /\ promised \in Nat /\ intact \in BOOLEAN
  BY LenProperties DEF IInv, TypesOK
<1>4. n \in Nat /\ n \in 0 .. Len(file) /\ durable <= n /\ n <= Len(file)
  BY <1>3
<1>5. /\ file' \in Seq(Cell) /\ Len(file') = n /\ \A i \in 1 .. n : file'[i] = file[i]
  BY <1>1, <1>3, <1>4, Beginning
<1>6. TypesOK'
  BY <1>1, <1>2, <1>4, <1>5 DEF IInv, TypesOK
<1>7. file # <<>> => n >= 1
  BY <1>2, <1>3, <1>4 DEF IInv, OpenedOK
<1>8. file' = <<>> <=> file = <<>>
  <2>1. CASE file = <<>>
    <3>1. Len(file) = 0
      BY <2>1, EmptySeq
    <3> QED
      BY <2>1, <3>1, <1>4, <1>5, EmptySeq
  <2>2. CASE file # <<>>
    <3>1. Len(file') # 0
      BY <2>2, <1>4, <1>5, <1>7
    <3> QED
      BY <2>2, <3>1, <1>5, EmptySeq
  <2> QED
    BY <2>1, <2>2
<1>9. OpenedOK'
  BY <1>1, <1>2, <1>7, <1>8 DEF IInv, OpenedOK
<1>10. AppendOK'
  <2>1. Len(file) + Len(unwritten) <= MaxFile /\ Len(unwritten) \in Nat /\ MaxFile \in Nat
    <3>1. unwritten \in Seq(Cell)
      BY EmptySeq DEF IInv, AppendOK
    <3> QED
      BY <3>1, LenProperties, JournalAssumption DEF IInv, AppendOK
  <2>2. Len(file') + Len(unwritten') <= MaxFile
    <3>1. Len(unwritten') = 0
      BY <1>2, EmptySeq
    <3> QED
      BY <3>1, <2>1, <1>3, <1>4, <1>5
  <2> QED
    BY <2>2, <1>2 DEF AppendOK
<1>11. FileOK'
  <2> SUFFICES ASSUME file' # <<>> PROVE \E m, off, r, c : FileIs(m, off, r, c)'
    BY DEF FileOK
  <2>1. PICK m, off, r, c : FileIs(m, off, r, c)
    BY <1>8 DEF IInv, FileOK
  <2> DEFINE rs == SubSeq(log, 1, m)
  <2>2. /\ m \in 0 .. Len(log) /\ m \in Nat /\ c \in Nat
        /\ Layout(file, rs, off) /\ Behind(file, off[m], m + 1, r, c)
        /\ intact => /\ Len(file) = off[m] + c
                     /\ promised <= m /\ off[promised] <= durable
        /\ m < Len(log) => \/ Len(file) = off[m] + c /\ ~Whole(r, c)
                           \/ ~intact /\ durable >= off[m] + c + 3
    BY <2>1, <1>2, <1>3 DEF FileIs
  <2>3. rs \in Seq(Records) /\ Len(rs) = m /\ \A i \in 1 .. m : rs[i] = log[i]
    BY <2>2, <1>3, Beginning
  <2>4. n \in 1 .. Len(file)
    BY <1>4, <1>7, <1>8
  <2> HIDE DEF rs
  <2>5. off \in [0 .. m -> Nat] /\ off[m] \in Nat
    BY <2>2, <2>3 DEF Layout
  <2>6. PICK k, off2, r2 : k \in 0 .. m /\ \E c2 \in Nat : Remains(file, rs, off, r, c, n, k, off2, r2, c2)
    <3>1. Behind(file, off[Len(rs)], Len(rs) + 1, r, c)
      BY <2>2, <2>3
    <3>2. \E k, off2, r2 : k \in 0 .. Len(rs) /\ \E c2 \in Nat : Remains(file, rs, off, r, c, n, k, off2, r2, c2)
      BY <3>1, <2>2, <2>4, CutFile
    <3> QED
      BY <3>2, <2>3
  <2>7. PICK c2 \in Nat :
           /\ Layout(file', SubSeq(rs, 1, k), off2)
           /\ Behind(file', off2[k], k + 1, r2, c2)
           /\ \A p \in 0 .. m : off[p] <= n => p \in 0 .. k /\ off2[p] = off[p]
           /\ \/ k = m /\ c2 = c /\ r2 = r /\ off2[k] = off[m] /\ off2[k] + c <= n
              \/ n = off2[k] + c2 /\ ~Whole(r2, c2) /\ n < off[m] + c
    BY <2>6, <2>3, <1>1 DEF Remains
  <2>8. k \in Nat /\ k <= m /\ k \in 0 .. Len(log) /\ k \in 0 .. m
    BY <2>2, <2>6, <1>3
  <2>9. SubSeq(rs, 1, k) = SubSeq(log, 1, k)
    <3>1. \A i \in 1 .. k : rs[i] = log[i]
      <4>1. \A i \in 1 .. k : i \in 1 .. m
        BY <2>2, <2>8
      <4> QED
        BY <4>1, <2>3
    <3> QED
      BY <3>1, <2>3, <2>8, <1>3, SameBeginning
  <2>10. Layout(file', SubSeq(log, 1, k), off2)
    BY <2>7, <2>9
  <2>11. off2[k] \in Nat
    <3>1. Len(SubSeq(log, 1, k)) = k
      BY <2>8, <1>3, Beginning
    <3>2. off2 \in [0 .. k -> Nat]
      BY <2>10, <3>1 DEF Layout
    <3> QED
      BY <3>2, <2>8
  <2>12. ASSUME intact
         PROVE  Len(file') = off2[k] + c2 /\ promised <= k /\ off2[promised] <= n
    <3>1. Len(file) = off[m] + c /\ promised <= m /\ off[promised] <= durable
      BY <2>2, <2>12
    <3>2. promised \in 0 .. m /\ off[promised] \in Nat
      BY <3>1, <2>2, <2>5, <1>3
    <3>3. off[promised] <= n
      BY <3>1, <3>2, <1>3, <1>4
    <3>4. promised \in 0 .. k /\ off2[promised] = off[promised]
      BY <3>2, <3>3, <2>7
    <3>5. Len(file') = off2[k] + c2
      <4>1. CASE k = m /\ c2 = c /\ r2 = r /\ off2[k] = off[m] /\ off2[k] + c <= n
        <5>1. Len(file) <= n /\ n = Len(file)
          BY <4>1, <3>1, <1>3, <1>4
        <5> QED
          BY <5>1, <4>1, <3>1, <1>5
      <4>2. CASE n = off2[k] + c2
        BY <4>2, <1>5
      <4> QED
        BY <4>1, <4>2, <2>7
    <3> QED
      BY <3>3, <3>4, <3>5, <2>8
  <2>13. ASSUME k < Len(log)
         PROVE  \/ Len(file') = off2[k] + c2 /\ ~Whole(r2, c2)
                \/ ~intact /\ Len(file') >= off2[k] + c2 + 3 /\ n >= off2[k] + c2 + 3
    <3>1. CASE n = off2[k] + c2 /\ ~Whole(r2, c2)
      BY <3>1, <1>5
    <3>2. CASE k = m /\ c2 = c /\ r2 = r /\ off2[k] = off[m] /\ off2[k] + c <= n
      <4>1. off2[k] = off[m]
        BY <3>2
      <4>2. CASE Len(file) = off[m] + c /\ ~Whole(r, c)
        <5>1. n = off[m] + c
          BY <4>1, <4>2, <3>2, <1>3, <1>4, <2>2, <2>5
        <5> QED
          BY <5>1, <4>1, <4>2, <3>2, <1>5
      <4>3. CASE ~intact /\ durable >= off[m] + c + 3
        <5>1. n >= off[m] + c + 3
          BY <4>3, <1>3, <1>4, <2>2, <2>5
        <5> QED
          BY <5>1, <4>1, <4>3, <3>2, <1>5
      <4> QED
        BY <4>2, <4>3, <3>2, <2>2, <2>13
    <3> QED
      BY <3>1, <3>2, <2>7
  <2>14. FileIs(k, off2, r2, c2)'
    BY <2>7, <2>8, <2>10, <2>12, <2>13, <1>1, <1>2 DEF FileIs
  <2> QED
    BY <2>14
<1> QED
  BY <1>6, <1>9, <1>10, <1>11 DEF IInv

LEMMA StepIInv == IInv /\ [Next]_vars => IInv'
<1> SUFFICES ASSUME IInv, [Next]_vars PROVE IInv'
  OBVIOUS
<1>1. CASE CreateFile
  BY <1>1, CreateFileStep
<1>2. CASE WriteFileMagic
  BY <1>2, WriteFileMagicStep
<1>3. CASE CreationFails
  BY <1>3, CreationFailsStep
<1>4. CASE Recover
  BY <1>4, RecoverStep
<1>5. CASE RecoveryFails
  BY <1>5, RecoveryFailsStep
<1>6. ASSUME NEW r \in Records, BeginAppend(r) PROVE IInv'
  BY <1>6, BeginAppendStep
<1>7. CASE WriteCells
  BY <1>7, WriteCellsStep
<1>8. CASE AppendSucceeds
  BY <1>8, AppendSucceedsStep
<1>9. CASE AppendFails
  BY <1>9, AppendFailsStep
<1>10. CASE ProcessEnds
  BY <1>10, ProcessEndsStep
<1>11. CASE PowerFails
  BY <1>11, PowerFailsStep
<1>12. CASE UNCHANGED vars
  <2> USE <1>12 DEF vars
  <2>1. TypesOK' /\ OpenedOK'
    BY DEF IInv, TypesOK, OpenedOK
  <2>2. AppendOK'
    BY DEF IInv, AppendOK, Written
  <2>3. FileOK'
    <3> SUFFICES ASSUME file' # <<>> PROVE \E m, off, r, c : FileIs(m, off, r, c)'
      BY DEF FileOK
    <3>1. PICK m, off, r, c : FileIs(m, off, r, c)
      BY DEF IInv, FileOK
    <3>2. FileIs(m, off, r, c)'
      BY <3>1 DEF FileIs, Written
    <3> QED
      BY <3>2
  <2> QED
    BY <2>1, <2>2, <2>3 DEF IInv
<1> QED
  BY <1>1, <1>2, <1>3, <1>4, <1>5, <1>6, <1>7, <1>8, <1>9, <1>10, <1>11, <1>12 DEF Next

LEMMA StoreInvariant == Spec => []IInv
<1>1. Init => IInv
  BY Starts
<1>2. IInv /\ [Next]_vars => IInv'
  BY StepIInv
<1> QED
  BY <1>1, <1>2, PTL DEF Spec
-----------------------------------------------------------------------------
(* Journal::open_and_recover: as long as no failed append has left part of *)
(* a frame in the file, a store that was open once can be opened again,    *)
(* at whatever point an append, the process or the machine stopped.        *)
THEOREM OpenedReplays == Spec => []OpenedStoreReplays
<1>1. IInv => OpenedStoreReplays
  <2> SUFFICES ASSUME IInv, opened, intact PROVE Scan(file).ok
    BY DEF OpenedStoreReplays
  <2>1. file # <<>>
    BY DEF IInv, OpenedOK
  <2>2. PICK m, off, r, c : FileIs(m, off, r, c)
    BY <2>1 DEF IInv, FileOK
  <2>3. Len(file) = off[m] + c
    BY <2>2 DEF FileIs
  <2>4. PICK ok \in BOOLEAN :
           /\ Len(file) = off[m] + c => ok
           /\ ~Whole(r, c) => Scan(file) = Halted(SubSeq(log, 1, m), off[m], ok)
           /\ Whole(r, c) => /\ Scan(file) = Halted(Append(SubSeq(log, 1, m), r), off[m] + c, ok)
                             /\ Len(file) >= off[m] + c + 2 => ~ok
    BY <2>2, Opens
  <2>5. ok = TRUE
    BY <2>3, <2>4
  <2>6. CASE Whole(r, c)
    <3>1. Scan(file) = Halted(Append(SubSeq(log, 1, m), r), off[m] + c, ok)
      BY <2>4, <2>6
    <3>2. Scan(file).ok = ok
      BY <3>1, HaltedFields
    <3> QED
      BY <3>2, <2>5
  <2>7. CASE ~Whole(r, c)
    <3>1. Scan(file) = Halted(SubSeq(log, 1, m), off[m], ok)
      BY <2>4, <2>7
    <3>2. Scan(file).ok = ok
      BY <3>1, HaltedFields
    <3> QED
      BY <3>2, <2>5
  <2> QED
    BY <2>6, <2>7
<1> QED
  BY <1>1, StoreInvariant, PTL

LEMMA ReverseFacts ==
  ASSUME NEW S, NEW s \in Seq(S)
  PROVE  /\ Reverse(s) \in Seq(S) /\ Len(Reverse(s)) = Len(s)
         /\ \A i \in 1 .. Len(s) : Reverse(s)[i] = s[(Len(s) - i) + 1]
<1> DEFINE n == Len(s)
<1>1. n \in Nat
  BY LenProperties
<1>2. Reverse(s) = [i \in 1 .. n |-> s[(n - i) + 1]]
  BY DEF Reverse
<1>3. \A i \in 1 .. n : s[(n - i) + 1] \in S
  <2>1. \A i \in 1 .. n : (n - i) + 1 \in 1 .. n
    BY <1>1
  <2> QED
    BY <2>1, ElementOfSeq
<1> HIDE DEF n
<1>4. Reverse(s) \in [1 .. n -> S]
  BY <1>2, <1>3
<1>5. Reverse(s) \in Seq(S) /\ Len(Reverse(s)) = n
  BY <1>1, <1>4
<1>6. \A i \in 1 .. n : Reverse(s)[i] = s[(n - i) + 1]
  BY <1>2
<1> QED
  BY <1>5, <1>6 DEF n

LEMMA LastIsSuffix ==
  ASSUME NEW l \in Seq(Records)
  PROVE  IsSuffix(LastRecords(l), l)
<1> DEFINE t == LastRecords(l)
<1>1. /\ t \in Seq(Records) /\ Len(t) = (IF Len(l) > RecentLimit THEN RecentLimit ELSE Len(l))
      /\ \A i \in 1 .. Len(t) : t[i] = l[(Len(l) - Len(t)) + i]
  BY LastRecordsFacts
<1> HIDE DEF t
<1>2. Len(l) \in Nat /\ Len(t) \in Nat /\ Len(t) <= Len(l)
  BY <1>1, LenProperties, JournalAssumption
<1>3. /\ Reverse(t) \in Seq(Records) /\ Len(Reverse(t)) = Len(t)
      /\ \A i \in 1 .. Len(t) : Reverse(t)[i] = t[(Len(t) - i) + 1]
  BY <1>1, ReverseFacts
<1>4. /\ Reverse(l) \in Seq(Records) /\ Len(Reverse(l)) = Len(l)
      /\ \A i \in 1 .. Len(l) : Reverse(l)[i] = l[(Len(l) - i) + 1]
  BY ReverseFacts
<1>5. ASSUME NEW i \in 1 .. Len(t) PROVE Reverse(t)[i] = Reverse(l)[i]
  <2>1. /\ i \in 1 .. Len(l) /\ (Len(t) - i) + 1 \in 1 .. Len(t)
        /\ (Len(l) - Len(t)) + ((Len(t) - i) + 1) = (Len(l) - i) + 1
    BY <1>2
  <2> QED
    BY <2>1, <1>1, <1>3, <1>4
<1>6. SubSeq(Reverse(t), 1, Len(t)) = SubSeq(Reverse(l), 1, Len(t))
  <2>1. Len(t) \in 0 .. Len(Reverse(t)) /\ Len(t) \in 0 .. Len(Reverse(l))
    BY <1>2, <1>3, <1>4
  <2> QED
    BY <2>1, <1>3, <1>4, <1>5, SameBeginning
<1> QED
  BY <1>2, <1>3, <1>4, <1>6 DEF IsSuffix, IsPrefix, t

(* Journal::append and recent: what is served is the end of everything     *)
(* that was ever replayed or appended, and the next sequence follows it.   *)
THEOREM RecentTail == Spec => []RecentIsTail
<1>1. IInv => RecentIsTail
  <2> SUFFICES ASSUME IInv, status = "open"
               PROVE  /\ IsSuffix(recent, log)
                      /\ Len(recent) = IF Len(log) < RecentLimit THEN Len(log) ELSE RecentLimit
                      /\ next_sequence = Len(log) + 1
    BY DEF RecentIsTail
  <2>1. recent = LastRecords(log) /\ next_sequence = Len(log) + 1 /\ log \in Seq(Records)
    BY DEF IInv, OpenedOK, TypesOK
  <2>2. Len(LastRecords(log)) = IF Len(log) > RecentLimit THEN RecentLimit ELSE Len(log)
    BY <2>1, LastRecordsFacts
  <2>3. Len(log) \in Nat /\ RecentLimit \in Nat
    BY <2>1, LenProperties, JournalAssumption
  <2>4. Len(recent) = IF Len(log) < RecentLimit THEN Len(log) ELSE RecentLimit
    BY <2>1, <2>2, <2>3
  <2> QED
    BY <2>1, <2>4, LastIsSuffix
<1> QED
  BY <1>1, StoreInvariant, PTL
-----------------------------------------------------------------------------
(* Every step of the store is one of the durable log, or none.             *)
LEMMA StepImplements == IInv /\ IInv' /\ [Next]_vars => [Promise!Next]_(Promise!vars)
<1> SUFFICES ASSUME IInv, IInv', [Next]_vars, ~UNCHANGED <<log, promised, status = "open", intact>>
             PROVE  Promise!Next
  BY DEF Promise!vars
<1> USE DEF disk_vars, history_vars
<1>1. CASE CreateFile
  BY <1>1 DEF CreateFile
<1>2. CASE WriteFileMagic
  BY <1>2 DEF WriteFileMagic
<1>3. CASE CreationFails
  BY <1>3 DEF CreationFails
<1>4. CASE Recover
  <2>1. /\ status # "open" /\ Scan(file).ok /\ status' = "open" /\ log' = Scan(file).records
        /\ promised' = promised /\ intact' = intact
    BY <1>4 DEF Recover
  <2>2. PICK rs, off :
           /\ rs \in Seq(Records)
           /\ Scan(file).records = rs /\ Scan(file).end = off[Len(rs)]
           /\ Layout(file, rs, off)
           /\ \/ \E r \in Records : rs = Append(log, r)
              \/ \E m \in 0 .. Len(log) : rs = SubSeq(log, 1, m)
           /\ intact => promised <= Len(rs) /\ (Synchronize => off[promised] <= durable)
    BY <2>1, Recovered
  <2>3. CASE \E r \in Records : rs = Append(log, r)
    BY <2>1, <2>2, <2>3 DEF Promise!Next, Promise!Reopen
  <2>4. ASSUME NEW m \in 0 .. Len(log), rs = SubSeq(log, 1, m) PROVE Promise!Next
    <3>1. Len(rs) = m
      BY <2>4, Beginning DEF IInv, TypesOK
    <3> QED
      BY <2>1, <2>2, <2>4, <3>1 DEF Promise!Next, Promise!Reopen
  <2> QED
    BY <2>2, <2>3, <2>4
<1>5. CASE RecoveryFails
  BY <1>5 DEF RecoveryFails
<1>6. ASSUME NEW r \in Records, BeginAppend(r) PROVE FALSE
  BY <1>6 DEF BeginAppend
<1>7. CASE WriteCells
  BY <1>7 DEF WriteCells
<1>8. CASE AppendSucceeds
  <2>1. /\ pending # <<>> /\ log' = log \o pending /\ promised' = Len(log')
        /\ UNCHANGED <<status, intact>>
    BY <1>8 DEF AppendSucceeds
  <2>2. PICK p \in Records : pending = <<p>> /\ status = "open"
    BY <2>1 DEF IInv, AppendOK
  <2>3. log' = Append(log, p)
    BY <2>1, <2>2, AppendIsConcat DEF IInv, TypesOK
  <2> QED
    BY <2>1, <2>2, <2>3 DEF Promise!Next, Promise!Acknowledge
<1>9. CASE AppendFails
  <2>1. status = "open" /\ UNCHANGED <<status, log, promised>> /\ intact' \in BOOLEAN /\ (intact' => intact)
        /\ intact \in BOOLEAN
    BY <1>9 DEF AppendFails, IInv, AppendOK, TypesOK
  <2>2. intact' = FALSE
    BY <2>1
  <2> QED
    BY <2>1, <2>2 DEF Promise!Next, Promise!FailHalfWay
<1>10. CASE ProcessEnds
  <2>1. status' = "down" /\ UNCHANGED <<log, promised, intact>>
    BY <1>10 DEF ProcessEnds
  <2> QED
    BY <2>1 DEF Promise!Next, Promise!Close
<1>11. CASE PowerFails
  <2>1. status' = "down" /\ UNCHANGED <<log, promised, intact>>
    BY <1>11 DEF PowerFails
  <2> QED
    BY <2>1 DEF Promise!Next, Promise!Close
<1>12. CASE UNCHANGED vars
  BY <1>12 DEF vars
<1> QED
  BY <1>1, <1>2, <1>3, <1>4, <1>5, <1>6, <1>7, <1>8, <1>9, <1>10, <1>11, <1>12 DEF Next

(* Whatever stops or fails, the store is a DurableLog: a reader sees a     *)
(* beginning of the history and at most one record more, the one that was  *)
(* being written; and what was acknowledged is kept until the disk has     *)
(* refused part of a frame.                                                *)
THEOREM StoreImplementsLog == Spec => ImplementsDurableLog
<1>1. Init => Promise!Init
  BY DEF Init, Promise!Init
<1>2. IInv /\ IInv' /\ [Next]_vars => [Promise!Next]_(Promise!vars)
  BY StepImplements
<1> QED
  BY <1>1, <1>2, StoreInvariant, PTL DEF Spec, ImplementsDurableLog, Promise!Spec
=============================================================================
