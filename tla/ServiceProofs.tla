---------------------------- MODULE ServiceProofs ----------------------------
(***************************************************************************)
(* Two results about what surrounds the requests.                          *)
(*                                                                         *)
(* The places of event streams add up, for any number of clients and       *)
(* places.  LeasesBalanced needs to know when released_ has been exchanged:*)
(* not before a pump is stopped, and always before the destructor of a     *)
(* pump that was.                                                          *)
(*                                                                         *)
(* A restart brings back the newest saved tasks, for any history of the    *)
(* store, any window and any room for views.                               *)
(***************************************************************************)
EXTENDS EventStream, ServiceRestart, SequenceTheorems, FiniteSetTheorems,
        WellFoundedInduction, TLAPS

-----------------------------------------------------------------------------
(* The places of event streams.                                            *)
Stages ==
  {"away", "acquiring", "admitted", "responded", "lost", "queued", "streaming",
   "stopping", "destroying", "giving_up", "releasing_then_destroy", "releasing_then_away"}

StreamTypeOK ==
  /\ sse_clients \in Nat
  /\ stage \in [Clients -> Stages]
  /\ seen \in [Clients -> Nat]
  /\ released \in [Clients -> BOOLEAN]
  /\ gone \in [Clients -> BOOLEAN]

ReleasedInTime ==
  \A c \in Clients :
    /\ stage[c] \in {"queued", "streaming"} => ~released[c]
    /\ stage[c] = "releasing_then_destroy" => released[c]

LeaseInv == StreamTypeOK /\ ReleasedInTime /\ LeasesBalanced

(* Whether connection c counts.                                            *)
Holds(c) ==
  \/ stage[c] \in {"admitted", "responded", "lost", "queued", "streaming", "giving_up"}
  \/ stage[c] \in {"stopping", "destroying"} /\ ~released[c]
  \/ stage[c] \in Releasing

(* A step of connection c leaves the others where they are.                *)
OthersStay(c) ==
  \A d \in Clients \ {c} : stage'[d] = stage[d] /\ released'[d] = released[d]

(* The holders are a finite set, of as many as it has elements.            *)
LEMMA HoldersFinite ==
  /\ IsFiniteSet(Holders)
  /\ Cardinality(Holders) \in Nat
<1>1. Holders \in SUBSET Clients
  BY DEF Holders
<1>2. IsFiniteSet(Holders)
  BY <1>1, StreamAssumption, FS_Subset
<1> QED
  BY <1>2, FS_CardinalityType

(* A step that neither takes nor gives back a place leaves the holders.    *)
LEMMA SameHolders ==
  ASSUME NEW c \in Clients, OthersStay(c), Holds(c)' <=> Holds(c)
  PROVE  Holders' = Holders
BY DEF Holders, Holds, OthersStay

(* A step that takes a place adds one holder.                              *)
LEMMA OneMoreHolder ==
  ASSUME NEW c \in Clients, OthersStay(c), ~Holds(c), Holds(c)'
  PROVE  Cardinality(Holders') = Cardinality(Holders) + 1
<1>1. c \notin Holders /\ Holders' = Holders \cup {c}
  BY DEF Holders, Holds, OthersStay
<1> QED
  BY <1>1, HoldersFinite, FS_AddElement

(* A step that gives a place back removes one, and there was one.          *)
LEMMA OneHolderLess ==
  ASSUME NEW c \in Clients, OthersStay(c), Holds(c), ~Holds(c)'
  PROVE  /\ Cardinality(Holders) # 0
         /\ Cardinality(Holders') = Cardinality(Holders) - 1
<1>1. c \in Holders /\ Holders' = Holders \ {c}
  BY DEF Holders, Holds, OthersStay
<1>2. Cardinality(Holders') = Cardinality(Holders) - 1
  BY <1>1, HoldersFinite, FS_RemoveElement
<1>3. Cardinality(Holders) # 0
  BY <1>1, HoldersFinite, FS_EmptySet
<1> QED
  BY <1>2, <1>3

(* At first nobody holds a place.                                          *)
LEMMA InitLeaseInv == StreamInit => LeaseInv
<1> SUFFICES ASSUME StreamInit PROVE LeaseInv
  OBVIOUS
<1>1. StreamTypeOK /\ ReleasedInTime
  BY DEF StreamInit, StreamTypeOK, ReleasedInTime, Stages
<1>2. Holders = {}
  BY DEF StreamInit, Holders, Releasing
<1>3. LeasesBalanced
  BY <1>2, FS_EmptySet, StreamAssumption DEF StreamInit, LeasesBalanced
<1> QED
  BY <1>1, <1>3 DEF LeaseInv

(* Every action of a connection keeps types and the order of releases.     *)
LEMMA StepTypes ==
  ASSUME LeaseInv, NEW c \in Clients,
         \/ Request(c) \/ Refuse(c) \/ Acquire(c) \/ AcquireRetries(c)
         \/ Respond(c) \/ RespondFails(c) \/ ResponseDropped(c)
         \/ PumpCannotBeMade(c) \/ PumpIsMade(c) \/ StartPump(c) \/ SendFails(c)
         \/ Wind(c) \/ Disconnect(c)
  PROVE  StreamTypeOK' /\ ReleasedInTime' /\ OthersStay(c)
<1> USE DEF LeaseInv, StreamTypeOK, ReleasedInTime, OthersStay, Stages, Goto, Load, Forget
<1>1. CASE Request(c)
  BY <1>1 DEF Request
<1>10. CASE Refuse(c)
  BY <1>10 DEF Refuse
<1>11. CASE Disconnect(c)
  BY <1>11 DEF Disconnect
<1>2. CASE Acquire(c) \/ AcquireRetries(c)
  BY <1>2 DEF Acquire, AcquireRetries
<1>3. CASE Respond(c) \/ RespondFails(c) \/ ResponseDropped(c) \/ PumpCannotBeMade(c)
  BY <1>3 DEF Respond, RespondFails, ResponseDropped, PumpCannotBeMade
<1>4. CASE PumpIsMade(c)
  BY <1>4 DEF PumpIsMade
<1>5. CASE StartPump(c) \/ SendFails(c)
  BY <1>5 DEF StartPump, SendFails
<1>6. CASE BeginRelease(c)
  BY <1>6 DEF BeginRelease
<1>7. CASE SkipRelease(c) \/ GiveUp(c)
  BY <1>7 DEF SkipRelease, GiveUp
<1>8. CASE Release(c)
  BY <1>8 DEF Release, Releasing, AfterRelease
<1>9. CASE ReleaseRetries(c)
  BY <1>9 DEF ReleaseRetries
<1> QED
  BY <1>1, <1>2, <1>3, <1>4, <1>5, <1>6, <1>7, <1>8, <1>9, <1>10, <1>11 DEF Wind

(* Every action of a connection keeps the count.                           *)
LEMMA StepLeaseInv ==
  ASSUME LeaseInv, NEW c \in Clients,
         \/ Request(c) \/ Refuse(c) \/ Acquire(c) \/ AcquireRetries(c)
         \/ Respond(c) \/ RespondFails(c) \/ ResponseDropped(c)
         \/ PumpCannotBeMade(c) \/ PumpIsMade(c) \/ StartPump(c) \/ SendFails(c)
         \/ Wind(c) \/ Disconnect(c)
  PROVE  LeaseInv'
<1>0. StreamTypeOK' /\ ReleasedInTime' /\ OthersStay(c)
  BY StepTypes
<1> SUFFICES LeasesBalanced'
  BY <1>0 DEF LeaseInv
<1>1. ASSUME UNCHANGED sse_clients, Holds(c)' <=> Holds(c)
      PROVE  LeasesBalanced'
  BY <1>0, <1>1, SameHolders DEF LeaseInv, LeasesBalanced
<1> USE DEF LeaseInv, StreamTypeOK, Goto, Holds, Releasing
<1>2. CASE Request(c) \/ Refuse(c) \/ AcquireRetries(c) \/ Disconnect(c)
  BY <1>1, <1>2 DEF Request, Refuse, AcquireRetries, Disconnect
<1>3. CASE Acquire(c)
  <2>1. ~Holds(c) /\ Holds(c)'
    BY <1>3 DEF Acquire
  <2>2. Cardinality(Holders') = Cardinality(Holders) + 1
    BY <1>0, <2>1, OneMoreHolder
  <2>3. /\ sse_clients = Cardinality(Holders) /\ sse_clients \in Nat
        /\ sse_clients' = sse_clients + 1 /\ sse_clients < MaxClients
    BY <1>3 DEF Acquire, LeasesBalanced
  <2> QED
    BY <2>2, <2>3, StreamAssumption DEF LeasesBalanced
<1>4. CASE Respond(c) \/ RespondFails(c) \/ ResponseDropped(c) \/ PumpCannotBeMade(c)
  BY <1>1, <1>4 DEF Respond, RespondFails, ResponseDropped, PumpCannotBeMade
<1>5. CASE PumpIsMade(c)
  BY <1>1, <1>5 DEF PumpIsMade
<1>6. CASE StartPump(c) \/ SendFails(c)
  BY <1>1, <1>6 DEF StartPump, SendFails, ReleasedInTime
<1>7. CASE BeginRelease(c)
  BY <1>1, <1>7 DEF BeginRelease
<1>8. CASE SkipRelease(c) \/ GiveUp(c) \/ ReleaseRetries(c)
  BY <1>1, <1>8 DEF SkipRelease, GiveUp, ReleaseRetries
<1>9. CASE Release(c)
  <2>1. Holds(c) /\ ~Holds(c)'
    BY <1>9 DEF Release, AfterRelease, ReleasedInTime
  <2>2. /\ Cardinality(Holders) # 0
        /\ Cardinality(Holders') = Cardinality(Holders) - 1
    BY <1>0, <2>1, OneHolderLess
  <2>3. /\ sse_clients = Cardinality(Holders) /\ sse_clients \in Nat
        /\ sse_clients <= MaxClients
        /\ sse_clients # 0 => sse_clients' = sse_clients - 1
    BY <1>9 DEF Release, LeasesBalanced
  <2> QED
    BY <2>2, <2>3, StreamAssumption DEF LeasesBalanced
<1> QED
  BY <1>0, <1>2, <1>3, <1>4, <1>5, <1>6, <1>7, <1>8, <1>9 DEF Wind

(* However connections interleave, and whichever path a stream ends by, the*)
(* count of clients is that of the places taken and the limit is kept.     *)
THEOREM LeasesAddUp == StreamSpec => []LeasesBalanced
<1>1. LeaseInv /\ [StreamNext]_stream_vars => LeaseInv'
  <2> SUFFICES ASSUME LeaseInv, [StreamNext]_stream_vars PROVE LeaseInv'
    OBVIOUS
  <2>1. CASE StreamNext
    BY <2>1, StepLeaseInv DEF StreamNext
  <2>2. CASE UNCHANGED stream_vars
    BY <2>2 DEF stream_vars, LeaseInv, StreamTypeOK, ReleasedInTime, LeasesBalanced, Holders
  <2> QED
    BY <2>1, <2>2
<1>2. LeaseInv => LeasesBalanced
  BY DEF LeaseInv
<1> QED
  BY InitLeaseInv, <1>1, <1>2, PTL DEF StreamSpec

-----------------------------------------------------------------------------
(* The views that a restart brings back.  s holds the newest elements of T *)
(* in their order, as many as there is room for.                           *)
Increasing(s) == \A i, j \in DOMAIN s : i < j => s[i] < s[j]

Newest(s, T) ==
  /\ s \in Seq(T) /\ Increasing(s)
  /\ Len(s) <= MaxViews
  /\ Len(s) = MaxViews \/ Range(s) = T
  /\ \A j \in Range(s), l \in T : l > j => l \in Range(s)

(* One more record, which is newer than all others.                        *)
LEMMA InsertKeepsNewest ==
  ASSUME NEW T \in SUBSET Nat, NEW s, Newest(s, T), NEW k \in Nat, \A j \in T : j < k
  PROVE  Newest(Insert(s, k), T \cup {k})
<1> DEFINE t == IF Len(s) >= MaxViews THEN Tail(s) ELSE s
           u == Append(t, k)  U == T \cup {k}  n == Len(s)  l == Len(t)
<1>1. MaxViews \in Nat \ {0} /\ Insert(s, k) = u
  BY RestartAssumption DEF Insert
<1>2. /\ s \in Seq(T) /\ n \in Nat /\ DOMAIN s = 1 .. n /\ n <= MaxViews
      /\ \A i \in 1 .. n : s[i] \in T /\ s[i] \in Nat
      /\ \A i, j \in 1 .. n : i < j => s[i] < s[j]
  <2>1. s \in Seq(T) /\ n <= MaxViews
    BY DEF Newest
  <2>2. n \in Nat /\ DOMAIN s = 1 .. n /\ \A i \in 1 .. n : s[i] \in T
    BY <2>1, LenProperties, ElementOfSeq
  <2> QED
    BY <2>1, <2>2 DEF Newest, Increasing
<1>3. /\ t \in Seq(T) /\ l \in Nat /\ DOMAIN t = 1 .. l /\ l + 1 <= MaxViews
      /\ \/ n = MaxViews /\ l = n - 1 /\ \A i \in 1 .. l : t[i] = s[i + 1]
         \/ n < MaxViews /\ l = n /\ t = s
  <2>1. CASE n >= MaxViews
    <3>0. n = MaxViews /\ n # 0
      <4> HIDE DEF n
      <4> QED
        BY <1>1, <1>2, <2>1
    <3>1. t = Tail(s) /\ s # <<>> /\ n = MaxViews
      BY <2>1, <3>0, EmptySeq
    <3>2. t \in Seq(T) /\ l = n - 1 /\ \A i \in 1 .. l : t[i] = s[i + 1]
      BY <1>2, <3>1, HeadTailProperties
    <3>3. l \in Nat /\ DOMAIN t = 1 .. l
      BY <3>2, LenProperties
    <3> QED
      BY <1>1, <3>1, <3>2, <3>3
  <2>2. CASE ~(n >= MaxViews)
    <3>1. t = s
      BY <2>2
    <3>2. n < MaxViews /\ n + 1 <= MaxViews
      <4> HIDE DEF n
      <4> QED
        BY <1>1, <1>2, <2>2
    <3> QED
      BY <1>2, <3>1, <3>2
  <2> QED
    BY <2>1, <2>2
<1> HIDE DEF t
<1>4. /\ u \in Seq(U) /\ Len(u) = l + 1 /\ DOMAIN u = 1 .. l + 1
      /\ \A i \in 1 .. l : u[i] = t[i]
      /\ u[l + 1] = k
  <2>1. t \in Seq(U) /\ k \in U
    <3>1. T \subseteq U
      OBVIOUS
    <3> QED
      BY <1>3, <3>1, LenProperties, ElementOfSeq, SeqDef
  <2> QED
    BY <1>3, <2>1, AppendProperties, LenProperties
<1> HIDE DEF u
<1>5. \A i \in 1 .. l : t[i] \in T /\ t[i] \in Nat /\ t[i] < k
  BY <1>3, ElementOfSeq, LenProperties
<1>6. \A i, j \in 1 .. l : i < j => t[i] < t[j]
  <2>1. CASE n = MaxViews /\ l = n - 1 /\ \A i \in 1 .. l : t[i] = s[i + 1]
    <3> HIDE DEF n, l
    <3> SUFFICES ASSUME NEW i \in 1 .. l, NEW j \in 1 .. l, i < j
                 PROVE  t[i] < t[j]
      OBVIOUS
    <3>1. i + 1 \in 1 .. n /\ j + 1 \in 1 .. n /\ i + 1 < j + 1
      BY <1>1, <1>3, <2>1
    <3> QED
      BY <1>2, <2>1, <3>1
  <2>2. CASE l = n /\ t = s
    BY <1>2, <2>2
  <2> QED
    BY <1>3, <2>1, <2>2
<1>7. Increasing(u)
  <2> HIDE DEF l
  <2> SUFFICES ASSUME NEW i \in 1 .. l + 1, NEW j \in 1 .. l + 1, i < j
               PROVE  u[i] < u[j]
    BY <1>4 DEF Increasing
  <2>1. i \in 1 .. l
    BY <1>3
  <2>2. CASE j \in 1 .. l
    BY <1>4, <1>6, <2>1, <2>2
  <2>3. CASE j = l + 1
    BY <1>4, <1>5, <2>1, <2>3
  <2> QED
    BY <1>3, <2>2, <2>3
<1>8. Len(u) <= MaxViews
  BY <1>3, <1>4
<1>9. Range(u) = Range(t) \cup {k}
  <2> HIDE DEF l
  <2>1. 1 .. l + 1 = 1 .. l \cup {l + 1}
    BY <1>3
  <2> QED
    BY <1>3, <1>4, <2>1 DEF Range
<1>10. Len(u) = MaxViews \/ Range(u) = U
  <2>1. CASE n = MaxViews /\ l = n - 1
    BY <1>2, <1>4, <2>1
  <2>2. CASE n < MaxViews /\ t = s
    <3>1. n = MaxViews \/ Range(s) = T
      BY DEF Newest
    <3>2. n # MaxViews
      <4> HIDE DEF n
      <4> QED
        BY <1>1, <1>2, <2>2
    <3> QED
      BY <1>9, <2>2, <3>1, <3>2
  <2> QED
    BY <1>3, <2>1, <2>2
<1>11. ASSUME NEW j \in Range(u), NEW x \in U, x > j
       PROVE  x \in Range(u)
  <2>1. CASE x = k
    BY <1>9, <2>1
  <2>2. CASE x # k
    <3>0. Range(t) \subseteq Nat
      BY <1>3, <1>5 DEF Range
    <3>1. x \in T /\ x < k /\ j \in Nat /\ j # k
      BY <1>9, <1>11, <2>2, <3>0
    <3>2. j \in Range(t)
      BY <1>9, <3>1
    <3>3. PICK i \in 1 .. l : t[i] = j
      BY <1>3, <3>2 DEF Range
    <3>4. CASE n = MaxViews /\ l = n - 1 /\ \A q \in 1 .. l : t[q] = s[q + 1]
      <4> HIDE DEF n, l
      <4>1. i + 1 \in 1 .. n /\ s[i + 1] = j
        BY <1>2, <1>3, <3>3, <3>4
      <4>2. j \in Range(s)
        BY <1>2, <4>1 DEF Range
      <4>3. x \in Range(s)
        BY <1>11, <3>1, <4>2 DEF Newest
      <4>4. PICK h \in 1 .. n : s[h] = x
        BY <1>2, <4>3 DEF Range
      <4>5. h > i + 1
        <5>1. h # i + 1
          BY <1>11, <3>1, <4>1, <4>4
        <5>2. ~(h < i + 1)
          BY <1>2, <1>11, <3>1, <4>1, <4>4
        <5> QED
          BY <1>2, <5>1, <5>2, <4>1
      <4>6. h - 1 \in 1 .. l /\ (h - 1) + 1 = h
        BY <1>1, <1>2, <1>3, <3>4, <4>5
      <4>7. t[h - 1] = x
        BY <3>4, <4>4, <4>6
      <4> QED
        BY <1>3, <1>9, <4>6, <4>7 DEF Range
    <3>5. CASE t = s
      BY <1>9, <1>11, <3>1, <3>2, <3>5 DEF Newest
    <3> QED
      BY <1>3, <3>4, <3>5
  <2> QED
    BY <2>1, <2>2
<1> QED
  BY <1>1, <1>4, <1>7, <1>8, <1>10, <1>11 DEF Newest

(* What Newest says in terms of numbers.                                   *)
LEMMA NewestKept ==
  ASSUME NEW T \in SUBSET Nat, IsFiniteSet(T), NEW s, Newest(s, T)
  PROVE  Range(s) = {k \in T : Cardinality({l \in T : l > k}) < MaxViews}
<1> DEFINE n == Len(s)  newer(k) == {l \in T : l > k}  c(k) == Cardinality(newer(k))
           R == Range(s)
<1>1. MaxViews \in Nat \ {0}
  BY RestartAssumption
<1>2. /\ s \in Seq(T) /\ n \in Nat /\ DOMAIN s = 1 .. n /\ n <= MaxViews
      /\ R \in SUBSET T /\ \A i \in 1 .. n : s[i] \in Nat
      /\ \A i, j \in 1 .. n : i < j => s[i] < s[j]
  <2>1. s \in Seq(T) /\ n <= MaxViews
    BY DEF Newest
  <2>2. n \in Nat /\ DOMAIN s = 1 .. n /\ \A i \in 1 .. n : s[i] \in T
    BY <2>1, LenProperties, ElementOfSeq
  <2> QED
    BY <2>1, <2>2 DEF Newest, Increasing, Range
<1>3. IsFiniteSet(R) /\ Cardinality(R) = n
  <2> DEFINE I == 1 .. n
  <2>1. \A i, j \in I : s[i] = s[j] => i = j
    <3> HIDE DEF n
    <3> SUFFICES ASSUME NEW i \in I, NEW j \in I, s[i] = s[j], i # j
                 PROVE  FALSE
      OBVIOUS
    <3>1. i < j \/ j < i
      BY <1>2
    <3> QED
      BY <1>2, <3>1
  <2>2. IsFiniteSet(I) /\ Cardinality(I) = n
    <3> HIDE DEF n
    <3> QED
      BY <1>2, FS_Interval
  <2>3. DOMAIN s = I
    BY <1>2
  <2>4. s \in [I -> R]
    BY <1>2, <2>3, SeqDef DEF Range
  <2> HIDE DEF I
  <2>5. s \in Bijection(I, R)
    BY <2>1, <2>3, <2>4 DEF Bijection, Injection, Surjection, IsInjective, Range
  <2> QED
    BY <2>2, <2>5, FS_Bijection DEF ExistsBijection
<1>4. \A k : newer(k) \in SUBSET T /\ IsFiniteSet(newer(k)) /\ c(k) \in Nat
  <2> SUFFICES ASSUME NEW k
               PROVE  newer(k) \in SUBSET T /\ IsFiniteSet(newer(k)) /\ c(k) \in Nat
    OBVIOUS
  <2>1. newer(k) \in SUBSET T
    OBVIOUS
  <2> HIDE DEF newer
  <2> QED
    BY <2>1, FS_Subset, FS_CardinalityType
<1> HIDE DEF n
<1>5. ASSUME NEW k \in R
      PROVE  c(k) < MaxViews
  <2> DEFINE Q == R \ {k}  q == Cardinality(Q)
  <2>1. newer(k) \subseteq Q
    <3> SUFFICES ASSUME NEW j \in T, j > k
                 PROVE  j \in R /\ j # k
      OBVIOUS
    <3>1. j \in R
      BY DEF Newest
    <3>2. j \in Nat /\ k \in Nat
      BY <1>2
    <3> QED
      BY <3>1, <3>2
  <2>2. IsFiniteSet(Q) /\ q = n - 1
    BY <1>3, <1>5, FS_RemoveElement
  <2>3. c(k) <= q
    <3> HIDE DEF newer, Q
    <3> QED
      BY <2>1, <2>2, FS_Subset
  <2> DEFINE x == c(k)
  <2>4. x \in Nat /\ x <= q /\ q = n - 1
    BY <1>4, <2>2, <2>3
  <2>5. x < MaxViews
    <3> HIDE DEF x, q
    <3> QED
      BY <1>1, <1>2, <2>4
  <2> QED
    BY <2>5
<1>6. ASSUME NEW k \in T, k \notin R
      PROVE  ~(c(k) < MaxViews)
  <2>1. n = MaxViews
    BY <1>6 DEF Newest, n
  <2>2. R \subseteq newer(k)
    <3> SUFFICES ASSUME NEW j \in R, ~(j > k)
                 PROVE  FALSE
      BY <1>2
    <3>1. j \in Nat /\ k \in Nat /\ j # k
      BY <1>2, <1>6
    <3>2. k > j
      BY <3>1
    <3> QED
      BY <1>6, <3>2 DEF Newest
  <2>3. n <= c(k)
    <3> HIDE DEF newer, R
    <3> QED
      BY <1>3, <1>4, <2>2, FS_Subset
  <2> DEFINE x == c(k)
  <2>4. x \in Nat /\ n <= x
    BY <1>4, <2>3
  <2>5. ~(x < MaxViews)
    <3> HIDE DEF x
    <3> QED
      BY <1>1, <2>1, <2>4
  <2> QED
    BY <2>5
<1> HIDE DEF c
<1>7. R = {k \in T : c(k) < MaxViews}
  BY <1>2, <1>5, <1>6
<1> QED
  BY <1>7 DEF c

-----------------------------------------------------------------------------
(* Induction over the natural numbers, from their well-founded order.      *)
Predecessors == {q \in Nat \X Nat : q[1] < q[2]}

LEMMA Induction ==
  ASSUME NEW S, 0 \in S, \A n \in Nat : n \in S => n + 1 \in S
  PROVE  Nat \subseteq S
<1> SUFFICES ASSUME NEW k \in Nat, k \notin S PROVE FALSE
  OBVIOUS
<1>1. IsWellFoundedOn(Predecessors, Nat)
  BY NatLessThanWellFounded DEF OpToRel, Predecessors
<1> DEFINE T == Nat \ S
<1>2. T \in SUBSET Nat /\ T # {}
  OBVIOUS
<1>3. PICK n \in T : \A l \in T : ~(<<l, n>> \in Predecessors)
  BY <1>1, <1>2, WFMin, Zenon
<1>4. n \in Nat /\ n # 0 /\ n - 1 \in Nat /\ n - 1 + 1 = n /\ n - 1 < n
  BY <1>3
<1>5. <<n - 1, n>> \in Predecessors
  BY <1>4 DEF Predecessors
<1> QED
  BY <1>3, <1>4, <1>5

(* restore_journal_records, one record after the other.                    *)
Restores(A, T, l) ==
  A = [k \in 0 .. l |-> IF k = 0 THEN <<>>
                        ELSE IF k \in T THEN Insert(A[k - 1], k) ELSE A[k - 1]]

LEMMA RestorationExists ==
  ASSUME NEW T, NEW l \in Nat
  PROVE  \E A : Restores(A, T, l)
<1> DEFINE Taken(s, k) == IF k \in T THEN Insert(s, k) ELSE s
           S == {n \in Nat : \E A : A = [k \in 0 .. n |-> IF k = 0 THEN <<>> ELSE Taken(A[k - 1], k)]}
<1>1. 0 \in S
  <2> DEFINE A == [k \in 0 .. 0 |-> <<>>]
  <2> HIDE DEF Taken
  <2>1. A = [k \in 0 .. 0 |-> IF k = 0 THEN <<>> ELSE Taken(A[k - 1], k)]
    OBVIOUS
  <2> QED
    BY <2>1
<1>2. ASSUME NEW n \in Nat, n \in S PROVE n + 1 \in S
  <2> HIDE DEF Taken
  <2>1. PICK A : A = [k \in 0 .. n |-> IF k = 0 THEN <<>> ELSE Taken(A[k - 1], k)]
    BY <1>2
  <2> DEFINE B == [k \in 0 .. n + 1 |-> IF k \in 0 .. n THEN A[k] ELSE Taken(A[n], k)]
  <2>2. ASSUME NEW k \in 0 .. n + 1
        PROVE  B[k] = IF k = 0 THEN <<>> ELSE Taken(B[k - 1], k)
    <3>1. CASE k = 0
      <4>1. 0 \in 0 .. n /\ 0 \in 0 .. n + 1
        OBVIOUS
      <4> QED
        BY <2>1, <3>1, <4>1
    <3>2. CASE k # 0 /\ k \in 0 .. n
      <4>1. k - 1 \in 0 .. n /\ k - 1 \in 0 .. n + 1
        BY <3>2
      <4>2. B[k - 1] = A[k - 1] /\ B[k] = A[k]
        BY <3>2, <4>1
      <4> HIDE DEF B
      <4>3. A[k] = Taken(A[k - 1], k)
        BY <2>1, <3>2
      <4> QED
        BY <3>2, <4>2, <4>3
    <3>3. CASE k = n + 1
      <4>1. n \in 0 .. n /\ n \in 0 .. n + 1 /\ k - 1 = n /\ k # 0 /\ k \notin 0 .. n
        BY <3>3
      <4> QED
        BY <4>1
    <3> QED
      BY <3>1, <3>2, <3>3
  <2>3. B = [k \in 0 .. n + 1 |-> B[k]]
    OBVIOUS
  <2> HIDE DEF B
  <2>4. B = [k \in 0 .. n + 1 |-> IF k = 0 THEN <<>> ELSE Taken(B[k - 1], k)]
    BY <2>2, <2>3
  <2> QED
    BY <2>4
<1> HIDE DEF S
<1>3. l \in S
  BY <1>1, <1>2, Induction
<1> QED
  BY <1>3 DEF S, Restores

LEMMA RestoredNewest ==
  ASSUME NEW T, NEW l \in Nat, T \in SUBSET (1 .. l), NEW A, Restores(A, T, l)
  PROVE  Newest(A[l], T)
<1> DEFINE upto(k) == T \cap (1 .. k)
           S == {k \in Nat : k <= l => Newest(A[k], upto(k))}
<1>1. A[0] = <<>> /\ \A k \in 1 .. l : A[k] = IF k \in T THEN Insert(A[k - 1], k) ELSE A[k - 1]
  <2>1. A = [k \in 0 .. l |-> IF k = 0 THEN <<>>
                              ELSE IF k \in T THEN Insert(A[k - 1], k) ELSE A[k - 1]]
    BY DEF Restores
  <2>2. 0 \in 0 .. l /\ \A k \in 1 .. l : k \in 0 .. l /\ k # 0
    OBVIOUS
  <2> QED
    BY <2>1, <2>2
<1>2. 0 \in S
  <2>1. upto(0) = {}
    OBVIOUS
  <2>2. Newest(<<>>, {})
    <3>1. <<>> \in Seq({}) /\ Len(<<>>) = 0 /\ DOMAIN <<>> = {} /\ Range(<<>>) = {}
      BY EmptySeq, LenProperties DEF Range
    <3> QED
      BY <3>1, RestartAssumption DEF Newest, Increasing
  <2> QED
    BY <1>1, <2>1, <2>2
<1>3. ASSUME NEW k \in Nat, k \in S PROVE k + 1 \in S
  <2> SUFFICES ASSUME k + 1 <= l
               PROVE  Newest(A[k + 1], upto(k + 1))
    OBVIOUS
  <2>1. Newest(A[k], upto(k)) /\ k + 1 \in 1 .. l /\ (k + 1) - 1 = k
    BY <1>3
  <2>2. upto(k) \in SUBSET Nat /\ \A j \in upto(k) : j < k + 1
    OBVIOUS
  <2>3. upto(k + 1) = IF k + 1 \in T THEN upto(k) \cup {k + 1} ELSE upto(k)
    OBVIOUS
  <2>4. A[k + 1] = IF k + 1 \in T THEN Insert(A[k], k + 1) ELSE A[k]
    BY <1>1, <2>1
  <2> HIDE DEF upto
  <2>5. CASE k + 1 \in T
    <3>1. Newest(Insert(A[k], k + 1), upto(k) \cup {k + 1})
      BY <2>1, <2>2, InsertKeepsNewest
    <3> QED
      BY <2>3, <2>4, <2>5, <3>1
  <2>6. CASE k + 1 \notin T
    BY <2>1, <2>3, <2>4, <2>6
  <2> QED
    BY <2>5, <2>6
<1>4. upto(l) = T
  OBVIOUS
<1> HIDE DEF upto
<1>5. l \in S
  <2> HIDE DEF S
  <2> QED
    BY <1>2, <1>3, Induction
<1> QED
  BY <1>4, <1>5

-----------------------------------------------------------------------------
(* The store only grows.                                                   *)
IsLog == \E S : log \in Seq(S)

LEMMA LogGrows ==
  ASSUME Next
  PROVE  log' = log \/ \E r : log' = Append(log, r)
<1>1. ASSUME NEW m, NEW p, Replace(m, p)
      PROVE  log' = log \/ \E r : log' = Append(log, r)
  BY <1>1 DEF Replace
<1>2. ASSUME NEW p \in Paths, NEW content, Edit(p, content)
      PROVE  log' = log
  BY <1>2 DEF Edit
<1>3. CASE Start
  BY <1>3 DEF Start
<1>4. CASE End
  BY <1>4 DEF End, disk_vars
<1>5. CASE Publish
  BY <1>5 DEF Publish
<1>6. CASE PublishFails
  BY <1>6 DEF PublishFails, disk_vars
<1>7. ASSUME NEW p \in Paths, SelectScenario(p)
      PROVE  log' = log
  BY <1>7 DEF SelectScenario, disk_vars
<1>8. CASE ApplySelection
  BY <1>1, <1>8 DEF ApplySelection
<1>9. CASE Watch
  <2>1. CASE ApplyCandidate
    BY <1>1, <2>1 DEF ApplyCandidate
  <2>2. CASE FirstLook \/ SeeChange \/ MissFile \/ LookAgain \/ LoadModelFile
             \/ CompareCandidate \/ RejectCandidate
    BY <2>2 DEF FirstLook, SeeChange, MissFile, LookAgain, LoadModelFile, CompareCandidate,
                RejectCandidate, Unwatched, disk_vars
  <2> QED
    BY <1>9, <2>1, <2>2 DEF Watch
<1> QED
  BY <1>2, <1>3, <1>4, <1>5, <1>6, <1>7, <1>8, <1>9 DEF Next

LEMMA LogStep ==
  ASSUME IsLog, [Next]_vars
  PROVE  IsLog'
<1>1. PICK S : log \in Seq(S)
  BY DEF IsLog
<1>2. CASE log' = log
  BY <1>1, <1>2 DEF IsLog
<1>3. ASSUME NEW r, log' = Append(log, r)
      PROVE  IsLog'
  <2> DEFINE V == S \cup {r}
  <2>1. log \in Seq(V) /\ r \in V
    <3>1. S \subseteq V
      OBVIOUS
    <3> QED
      BY <1>1, <3>1, LenProperties, ElementOfSeq, SeqDef
  <2>2. log' \in Seq(V)
    BY <1>3, <2>1, AppendProperties
  <2> QED
    BY <2>2 DEF IsLog
<1> QED
  BY <1>2, <1>3, LogGrows DEF vars

LEMMA TasksRestored ==
  ASSUME IsLog, NEW m
  PROVE  /\ Newest(RestoreJournalRecords(m), Tasks(m))
         /\ Tasks(m) \in SUBSET Nat /\ IsFiniteSet(Tasks(m))
<1> DEFINE l == Len(log)  T == Tasks(m)  A == CHOOSE B : Restores(B, T, l)
<1>1. l \in Nat
  BY LenProperties DEF IsLog
<1>2. T \in SUBSET (1 .. l)
  BY DEF Tasks, Window
<1>3. RestoreJournalRecords(m) = A[l]
  BY DEF RestoreJournalRecords, Restores
<1>4. Restores(A, T, l)
  <2> HIDE DEF T, l
  <2>1. \E B : Restores(B, T, l)
    BY <1>1, RestorationExists
  <2> QED
    BY <2>1, Zenon
<1> HIDE DEF A, T, l
<1>5. Newest(A[l], T)
  BY <1>1, <1>2, <1>4, RestoredNewest
<1>6. T \in SUBSET Nat /\ IsFiniteSet(T)
  <2> DEFINE I == 1 .. l
  <2>1. IsFiniteSet(I) /\ I \in SUBSET Nat
    BY <1>1, FS_Interval
  <2>2. T \in SUBSET I
    BY <1>2
  <2> HIDE DEF I
  <2>3. IsFiniteSet(T)
    BY <2>1, <2>2, FS_Subset
  <2> QED
    BY <2>1, <2>2, <2>3
<1> QED
  BY <1>3, <1>5, <1>6 DEF T

(* restore_journal_records ends with the newest tasks of this model in     *)
(* their order, whatever else shares the window: a record is only taken    *)
(* out for a newer one, and only when there is no more room.               *)
THEOREM RestartBringsBackNewest ==
  Spec => RestoreKeepsNewest
<1> DEFINE tasks == Tasks(model')
           newer(k) == {l \in tasks : l > k}
           Restored ==
             Start =>
               LET tasks_ == Tasks(model')
                   newer_(k) == {l \in tasks_ : l > k}
               IN /\ Range(view_order') = {k \in tasks_ : Cardinality(newer_(k)) < MaxViews}
                  /\ \A i, j \in DOMAIN view_order' : i < j => view_order'[i] < view_order'[j]
<1>1. Init => IsLog
  <2>1. <<>> \in Seq({})
    BY EmptySeq
  <2> QED
    BY <2>1 DEF Init, IsLog
<1>2. IsLog /\ [Next]_vars => IsLog'
  BY LogStep
<1>3. ASSUME IsLog
      PROVE  Restored
  <2> SUFFICES ASSUME Start
               PROVE  /\ Range(view_order') = {k \in tasks : Cardinality(newer(k)) < MaxViews}
                      /\ \A i, j \in DOMAIN view_order' : i < j => view_order'[i] < view_order'[j]
    OBVIOUS
  <2>1. view_order' = RestoreJournalRecords(model')
    BY DEF Start
  <2>2. Newest(view_order', tasks) /\ tasks \in SUBSET Nat /\ IsFiniteSet(tasks)
    BY <1>3, <2>1, TasksRestored
  <2> HIDE DEF tasks
  <2> QED
    BY <2>2, NewestKept DEF Newest, Increasing
<1>4. IsLog /\ [Next]_vars => [Restored]_vars
  BY <1>3
<1> QED
  BY <1>1, <1>2, <1>4, PTL DEF Spec, RestoreKeepsNewest
=============================================================================
