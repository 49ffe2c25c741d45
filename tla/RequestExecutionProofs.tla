----------------------- MODULE RequestExecutionProofs -----------------------
(***************************************************************************)
(* The pool and the admission of inference, for any number of workers and  *)
(* requests and any limits: no wake-up is lost, the counters add up and    *)
(* admission is balanced.  AdmissionBalanced needs that a request is held  *)
(* in one place at a time (HeldOnce).                                      *)
(***************************************************************************)
EXTENDS RequestExecution, FiniteSetTheorems, SequenceTheorems, TLAPS

Stages == {"checking", "waiting", "exited", "running", "ran", "inactive"}
Answers == {"none", "admitted", "refused", "broken", "busy", "waiting", "result",
            "unanswered", "exception"}
Undispatched == {"none", "admitted"}

TypeOK ==
  /\ queue \in Seq(Jobs)
  /\ stopping \in BOOLEAN
  /\ pc \in [Workers -> Stages]
  /\ job \in [Workers -> SUBSET Jobs]
  /\ submitted \in Nat
  /\ completed \in Nat
  /\ active \in Nat
  /\ inference_inflight \in Nat
  /\ answer \in [Jobs -> Answers]

(* A worker holds a job exactly from Take to Complete; no job is in two    *)
(* places of the queue, with two workers, or in the queue and with one;    *)
(* and a job that is held has been dispatched.                             *)
Working == {"running", "ran", "inactive"}
HeldOnce ==
  /\ \A w \in Workers : IF pc[w] \in Working THEN \E j \in Jobs : job[w] = {j}
                                             ELSE job[w] = {}
  /\ \A i, j \in 1..Len(queue) : queue[i] = queue[j] => i = j
  /\ \A i \in 1..Len(queue) : \A w \in Workers : queue[i] \notin job[w]
  /\ \A v, w \in Workers : v # w => job[v] \cap job[w] = {}
  /\ \A i \in 1..Len(queue) : answer[queue[i]] \notin Undispatched
  /\ \A w \in Workers : \A r \in job[w] : answer[r] \notin Undispatched

-----------------------------------------------------------------------------
(* The workers at a stage of S: a finite set.                              *)
At(S) == {w \in Workers : pc[w] \in S}

LEMMA AtFinite ==
  ASSUME NEW S
  PROVE  /\ IsFiniteSet(At(S)) /\ Cardinality(At(S)) \in Nat
         /\ Cardinality(At(S))' \in Nat
<1>1. At(S) \in SUBSET Workers /\ At(S)' \in SUBSET Workers
  BY DEF At
<1> QED
  BY <1>1, PoolAssumption, FS_Subset, FS_CardinalityType

(* When one worker moves, it enters the set, leaves it, or neither.        *)
OnlyMoves(w) == \A v \in Workers \ {w} : pc'[v] = pc[v]

LEMMA WorkerMoves ==
  ASSUME NEW w \in Workers, OnlyMoves(w), NEW S
  PROVE  Cardinality(At(S))' = Cardinality(At(S)) + (IF pc'[w] \in S THEN 1 ELSE 0)
                                 - (IF pc[w] \in S THEN 1 ELSE 0)
<1>1. CASE pc[w] \in S <=> pc'[w] \in S
  <2>1. At(S)' = At(S)
    BY <1>1 DEF At, OnlyMoves
  <2> QED
    BY <1>1, <2>1, AtFinite
<1>2. CASE pc[w] \notin S /\ pc'[w] \in S
  <2>1. At(S)' = At(S) \cup {w} /\ w \notin At(S)
    BY <1>2 DEF At, OnlyMoves
  <2>2. Cardinality(At(S))' = Cardinality(At(S)) + 1
    BY <2>1, AtFinite, FS_AddElement
  <2> QED
    BY <1>2, <2>2, AtFinite
<1>3. CASE pc[w] \in S /\ pc'[w] \notin S
  <2>1. At(S)' = At(S) \ {w} /\ w \in At(S)
    BY <1>3 DEF At, OnlyMoves
  <2>2. Cardinality(At(S))' = Cardinality(At(S)) - 1
    BY <2>1, AtFinite, FS_RemoveElement
  <2> QED
    BY <1>3, <2>2, AtFinite
<1> QED
  BY <1>1, <1>2, <1>3

(* How many workers look at the queue, run a job, and are between the two  *)
(* counters; and the pool's properties in these terms.                     *)
Looking == Cardinality(At({"checking"}))
Running == Cardinality(At({"running", "ran"}))
Between == Cardinality(At({"inactive"}))

LEMMA CountsAreNumbers ==
  /\ Looking \in Nat /\ Running \in Nat /\ Between \in Nat
  /\ Looking' \in Nat /\ Running' \in Nat /\ Between' \in Nat
BY AtFinite DEF Looking, Running, Between

LEMMA CountsMove ==
  ASSUME NEW w \in Workers, OnlyMoves(w)
  PROVE  /\ Looking' = Looking + (IF pc'[w] = "checking" THEN 1 ELSE 0)
                         - (IF pc[w] = "checking" THEN 1 ELSE 0)
         /\ Running' = Running + (IF pc'[w] \in {"running", "ran"} THEN 1 ELSE 0)
                         - (IF pc[w] \in {"running", "ran"} THEN 1 ELSE 0)
         /\ Between' = Between + (IF pc'[w] = "inactive" THEN 1 ELSE 0)
                         - (IF pc[w] = "inactive" THEN 1 ELSE 0)
<1>1. Looking' = Looking + (IF pc'[w] \in {"checking"} THEN 1 ELSE 0)
                   - (IF pc[w] \in {"checking"} THEN 1 ELSE 0)
  BY WorkerMoves DEF Looking
<1>2. Running' = Running + (IF pc'[w] \in {"running", "ran"} THEN 1 ELSE 0)
                   - (IF pc[w] \in {"running", "ran"} THEN 1 ELSE 0)
  BY WorkerMoves DEF Running
<1>3. Between' = Between + (IF pc'[w] \in {"inactive"} THEN 1 ELSE 0)
                   - (IF pc[w] \in {"inactive"} THEN 1 ELSE 0)
  BY WorkerMoves DEF Between
<1> QED
  BY <1>1, <1>2, <1>3

LEMMA CountsStay ==
  ASSUME \A w \in Workers : \A x \in {"running", "ran", "inactive"} : pc'[w] = x <=> pc[w] = x
  PROVE  Running' = Running /\ Between' = Between
BY DEF Running, Between, At

PoolCounts ==
  /\ (\E w \in Workers : pc[w] = "waiting") => Len(queue) <= Looking
  /\ active = Running
  /\ submitted = Len(queue) + active + completed + Between

LEMMA PoolCountsAreRight == PoolCounts <=> NoLostWakeup /\ AccountingAddsUp
<1>1. /\ Waiting # {} <=> \E w \in Workers : pc[w] = "waiting"
      /\ Checking = At({"checking"})
      /\ {w \in Workers : pc[w] \in {"running", "ran"}} = At({"running", "ran"})
      /\ {w \in Workers : pc[w] = "inactive"} = At({"inactive"})
  BY DEF Waiting, Checking, At
<1> QED
  BY <1>1 DEF NoLostWakeup, AccountingAddsUp, PoolCounts, Looking, Running, Between

Inv == TypeOK /\ HeldOnce /\ PoolCounts /\ AdmissionBalanced
-----------------------------------------------------------------------------
(* The jobs that are held: a finite set.                                   *)
LEMMA HeldFinite ==
  IsFiniteSet(Held \cap Inference) /\ Cardinality(Held \cap Inference) \in Nat
<1>1. Held \cap Inference \in SUBSET Jobs
  BY DEF Held, Requests
<1> QED
  BY <1>1, ExecutionAssumption, FS_Subset, FS_CardinalityType
-----------------------------------------------------------------------------
(* At first nothing is queued, held or counted.                            *)
LEMMA InitInv == Init => Inv
<1> SUFFICES ASSUME Init PROVE Inv
  OBVIOUS
<1> USE DEF Init, PoolInit
<1>1. TypeOK
  <2>1. queue \in Seq(Jobs)
    BY EmptySeq
  <2> QED
    BY <2>1 DEF TypeOK, Stages, Answers, Requests
<1>2. HeldOnce
  BY EmptySeq DEF HeldOnce, Working
<1>3. At({"running", "ran"}) = {} /\ At({"inactive"}) = {} /\ Held = {}
  BY DEF At, Held
<1>4. PoolCounts
  <2>1. Running = 0 /\ Between = 0 /\ Len(queue) = 0
    BY <1>3, FS_EmptySet, EmptySeq DEF Running, Between
  <2> QED
    BY <2>1 DEF PoolCounts
<1>5. AdmissionBalanced
  BY <1>3, FS_EmptySet, ExecutionAssumption DEF AdmissionBalanced
<1> QED
  BY <1>1, <1>2, <1>4, <1>5 DEF Inv

(* A step of a handler that leaves the pool as it is and takes an answer   *)
(* away from the undispatched ones keeps who holds what.                   *)
LEMMA AnswerKeepsHeld ==
  ASSUME Inv, NEW r \in Jobs, answer[r] \in Undispatched,
         NEW x \in Answers, answer' = [answer EXCEPT ![r] = x],
         UNCHANGED <<queue, stopping, pc, job, submitted, completed, active>>,
         inference_inflight' \in Nat
  PROVE  /\ TypeOK' /\ HeldOnce' /\ PoolCounts'
         /\ Held' = IF x = "admitted" THEN Held \cup {r} ELSE Held \ {r}
         /\ answer[r] = "none" => r \notin Held
<1> USE DEF Inv
<1>1. answer'[r] = x /\ \A y \in Jobs \ {r} : answer'[y] = answer[y]
  BY DEF TypeOK
<1>2. (\A i \in 1..Len(queue) : queue[i] # r) /\ \A w \in Workers : r \notin job[w]
  BY DEF HeldOnce
<1>3. /\ \A i \in 1..Len(queue) : queue[i] \in Jobs
      /\ \A w \in Workers : job[w] \subseteq Jobs
  BY ElementOfSeq DEF TypeOK
<1>4. TypeOK'
  BY DEF TypeOK
<1>5. HeldOnce'
  <2>1. /\ \A i \in 1..Len(queue) : answer'[queue[i]] = answer[queue[i]]
        /\ \A w \in Workers : \A y \in job[w] : answer'[y] = answer[y]
    BY <1>1, <1>2, <1>3
  <2> QED
    BY <2>1 DEF HeldOnce
<1>6. PoolCounts'
  BY DEF PoolCounts, Looking, Running, Between, At
<1>7. Held' = IF x = "admitted" THEN Held \cup {r} ELSE Held \ {r}
  BY <1>1, <1>2 DEF Held, Requests
<1>8. answer[r] = "none" => r \notin Held
  BY <1>2 DEF Held
<1> QED
  BY <1>4, <1>5, <1>6, <1>7, <1>8

(* A refusal before admission changes the client's answer alone.           *)
LEMMA RefusalInv ==
  ASSUME Inv, NEW r \in Requests, RefuseRequest(r) \/ RefuseInference(r)
  PROVE  Inv'
<1>1. /\ UNCHANGED <<queue, stopping, pc, job, submitted, completed, active, inference_inflight>>
      /\ answer[r] = "none" /\ inference_inflight \in Nat
      /\ \E x \in Answers \ Undispatched : answer' = [answer EXCEPT ![r] = x]
  BY DEF RefuseRequest, RefuseInference, Answers, Undispatched, pool_vars, counters, Inv, TypeOK
<1>2. PICK x \in Answers \ Undispatched : answer' = [answer EXCEPT ![r] = x]
  BY <1>1
<1>3. answer[r] \in Undispatched /\ x # "admitted" /\ r \in Jobs
  BY <1>1, <1>2 DEF Undispatched, Requests
<1>4. inference_inflight' = inference_inflight /\ inference_inflight' \in Nat
  BY <1>1
<1>5. /\ TypeOK' /\ HeldOnce' /\ PoolCounts'
      /\ Held' = Held \ {r} /\ r \notin Held
  BY <1>1, <1>2, <1>3, <1>4, AnswerKeepsHeld
<1>6. Held' = Held
  BY <1>5
<1>7. AdmissionBalanced'
  BY <1>4, <1>6 DEF Inv, AdmissionBalanced
<1> QED
  BY <1>5, <1>7 DEF Inv

(* The request holds the slot it has acquired.                             *)
LEMMA AcquireInv ==
  ASSUME Inv, NEW r \in Requests, AcquireInference(r)
  PROVE  Inv'
<1>1. /\ UNCHANGED <<queue, stopping, pc, job, submitted, completed, active>>
      /\ answer[r] = "none" /\ answer' = [answer EXCEPT ![r] = "admitted"]
      /\ r \in Inference /\ inference_inflight \in Nat /\ inference_inflight < MaxInference
      /\ inference_inflight' = inference_inflight + 1
  BY DEF AcquireInference, Admits, pool_vars, counters, Inv, TypeOK
<1>2. TypeOK' /\ HeldOnce' /\ PoolCounts' /\ Held' = Held \cup {r} /\ r \notin Held
  <2>1. answer[r] \in Undispatched /\ r \in Jobs /\ "admitted" \in Answers
    BY <1>1 DEF Undispatched, Answers, Requests
  <2>2. inference_inflight' \in Nat
    BY <1>1
  <2> QED
    BY <1>1, <2>1, <2>2, AnswerKeepsHeld
<1>3. (Held \cap Inference)' = (Held \cap Inference) \cup {r}
  BY <1>1, <1>2
<1>4. Cardinality(Held \cap Inference)' = Cardinality(Held \cap Inference) + 1
  BY <1>2, <1>3, HeldFinite, FS_AddElement
<1>5. AdmissionBalanced'
  BY <1>1, <1>4, HeldFinite, ExecutionAssumption DEF Inv, AdmissionBalanced
<1> QED
  BY <1>2, <1>5 DEF Inv

(* A refused job gives back what it was admitted with.                     *)
LEMMA RejectInv ==
  ASSUME Inv, NEW r \in Requests, DispatchRefused(r)
  PROVE  Inv'
<1>1. /\ UNCHANGED <<queue, stopping, pc, job, submitted, completed, active>>
      /\ answer[r] = (IF r \in Inference THEN "admitted" ELSE "none")
      /\ answer' = [answer EXCEPT ![r] = "exception"]
      /\ inference_inflight \in Nat
      /\ inference_inflight' = inference_inflight - (IF r \in Inference THEN 1 ELSE 0)
  BY DEF DispatchRefused, Dispatchable, Reject, Admission, Inv, TypeOK
<1>2. /\ inference_inflight = Cardinality(Held \cap Inference)
      /\ inference_inflight <= MaxInference
  BY DEF Inv, AdmissionBalanced
<1>3. /\ inference_inflight' \in Nat
      /\ r \in Inference => r \in Held /\ Cardinality((Held \cap Inference) \ {r}) = inference_inflight'
  <2>1. CASE r \in Inference
    <3>1. r \in Held \cap Inference
      BY <1>1, <2>1 DEF Held
    <3>2. Cardinality((Held \cap Inference) \ {r}) = Cardinality(Held \cap Inference) - 1
      BY <3>1, HeldFinite, FS_RemoveElement
    <3>3. Cardinality(Held \cap Inference) # 0
      BY <3>1, HeldFinite, FS_EmptySet
    <3> QED
      BY <1>1, <1>2, <2>1, <3>1, <3>2, <3>3
  <2>2. CASE r \notin Inference
    BY <1>1, <2>2
  <2> QED
    BY <2>1, <2>2
<1>4. TypeOK' /\ HeldOnce' /\ PoolCounts' /\ Held' = Held \ {r}
  <2>1. answer[r] \in Undispatched /\ r \in Jobs /\ "exception" \in Answers
    BY <1>1 DEF Undispatched, Answers, Requests
  <2> QED
    BY <1>1, <1>3, <2>1, AnswerKeepsHeld
<1>5. AdmissionBalanced'
  <2>1. CASE r \in Inference
    <3>1. (Held \cap Inference)' = (Held \cap Inference) \ {r}
      BY <1>4
    <3> QED
      BY <1>1, <1>2, <1>3, <2>1, <3>1, ExecutionAssumption DEF AdmissionBalanced
  <2>2. CASE r \notin Inference
    <3>1. (Held \cap Inference)' = Held \cap Inference
      BY <1>4, <2>2
    <3>2. inference_inflight' = inference_inflight
      BY <1>1, <2>2
    <3> QED
      BY <1>2, <3>1, <3>2 DEF AdmissionBalanced
  <2> QED
    BY <2>1, <2>2
<1> QED
  BY <1>4, <1>5 DEF Inv

(* A dispatched request goes to the queue, its admission with it; one      *)
(* worker is told.                                                         *)
LEMMA DispatchInv ==
  ASSUME Inv, NEW r \in Requests, Dispatch(r)
  PROVE  Inv'
<1> USE DEF Inv, Requests
<1>1. /\ r \in Jobs /\ answer[r] = (IF r \in Inference THEN "admitted" ELSE "none")
      /\ queue' = Append(queue, r)
      /\ submitted' = submitted + 1
      /\ NotifyOne
      /\ UNCHANGED <<stopping, job, completed, active>>
      /\ inference_inflight' = inference_inflight
      /\ answer' = [answer EXCEPT ![r] = "waiting"]
  BY DEF Dispatch, Dispatchable, Enqueue
<1>2. /\ queue' \in Seq(Jobs) /\ Len(queue') = Len(queue) + 1 /\ Len(queue) \in Nat
      /\ \A i \in 1..Len(queue) : queue'[i] = queue[i] /\ queue[i] \in Jobs
      /\ queue'[Len(queue) + 1] = r
  BY <1>1, AppendProperties, ElementOfSeq, LenProperties DEF TypeOK
<1>3. pc' \in [Workers -> Stages]
  BY <1>1 DEF TypeOK, NotifyOne, Waiting, Stages
<1>4. TypeOK'
  BY <1>1, <1>2, <1>3 DEF TypeOK, Answers
<1>5. \A w \in Workers : pc'[w] \in Working <=> pc[w] \in Working
  BY <1>1 DEF TypeOK, NotifyOne, Waiting, Working
<1>6. \A i \in 1..Len(queue') : i \in 1..Len(queue) \/ i = Len(queue) + 1
  BY <1>2
<1>7. /\ answer[r] \in Undispatched
      /\ answer'[r] = "waiting" /\ \A x \in Jobs \ {r} : answer'[x] = answer[x]
  BY <1>1 DEF Undispatched, TypeOK
<1>8. HeldOnce'
  <2>1. \A w \in Workers : IF pc'[w] \in Working THEN \E j \in Jobs : job'[w] = {j} ELSE job'[w] = {}
    BY <1>1, <1>5 DEF HeldOnce
  <2>2. /\ \A i \in 1..Len(queue) : queue[i] # r
        /\ \A w \in Workers : r \notin job[w]
    BY <1>7 DEF HeldOnce
  <2>3. \A i, j \in 1..Len(queue') : queue'[i] = queue'[j] => i = j
    BY <1>2, <1>6, <2>2 DEF HeldOnce
  <2>4. \A i \in 1..Len(queue') : \A w \in Workers : queue'[i] \notin job'[w]
    BY <1>1, <1>2, <1>6, <2>2 DEF HeldOnce
  <2>5. \A v, w \in Workers : v # w => job'[v] \cap job'[w] = {}
    BY <1>1 DEF HeldOnce
  <2>6. \A i \in 1..Len(queue') : answer'[queue'[i]] \notin Undispatched
    BY <1>2, <1>6, <1>7, <2>2 DEF HeldOnce, Undispatched
  <2>7. \A w \in Workers : \A x \in job'[w] : answer'[x] \notin Undispatched
    BY <1>1, <1>7, <2>2 DEF HeldOnce, TypeOK
  <2> QED
    BY <2>1, <2>3, <2>4, <2>5, <2>6, <2>7 DEF HeldOnce
<1>9. AdmissionBalanced'
  <2>1. Held' = Held \cup {r}
    <3>1. ASSUME NEW x \in Jobs
          PROVE  (\E i \in 1..Len(queue') : queue'[i] = x)
                   <=> (x = r \/ \E i \in 1..Len(queue) : queue[i] = x)
      BY <1>2, <1>6
    <3> QED
      BY <1>1, <1>7, <3>1 DEF Held
  <2>2. r \in Inference => r \in Held
    BY <1>1 DEF Held
  <2>3. (Held \cap Inference)' = Held \cap Inference
    BY <2>1, <2>2
  <2> QED
    BY <1>1, <2>3 DEF AdmissionBalanced
<1>10. PoolCounts'
  <2>1. CASE (\A w \in Workers : pc[w] # "waiting") /\ UNCHANGED pc
    <3>1. Running' = Running /\ Between' = Between
      BY <2>1, CountsStay
    <3> QED
      BY <1>1, <1>2, <2>1, <3>1, CountsAreNumbers DEF PoolCounts, TypeOK
  <2>2. ASSUME NEW w \in Workers, pc[w] = "waiting", pc' = [pc EXCEPT ![w] = "checking"]
        PROVE  PoolCounts'
    <3>1. OnlyMoves(w) /\ pc'[w] = "checking"
      BY <2>2 DEF TypeOK, OnlyMoves
    <3>2. Looking' = Looking + 1 /\ Running' = Running /\ Between' = Between
      BY <2>2, <3>1, CountsMove, CountsAreNumbers
    <3> QED
      BY <1>1, <1>2, <2>2, <3>2, CountsAreNumbers DEF PoolCounts, TypeOK
  <2> QED
    BY <1>1, <2>1, <2>2 DEF NotifyOne, Waiting
<1> QED
  BY <1>4, <1>8, <1>9, <1>10

(* A worker that moves without touching the queue, its job and the answers *)
(* keeps what is held.                                                     *)
LEMMA MoveKeepsHeld ==
  ASSUME Inv, NEW w \in Workers, OnlyMoves(w), pc' \in [Workers -> Stages],
         pc'[w] \in Working <=> pc[w] \in Working,
         UNCHANGED <<queue, job, inference_inflight, answer>>
  PROVE  HeldOnce' /\ AdmissionBalanced'
<1>1. \A v \in Workers : pc'[v] \in Working <=> pc[v] \in Working
  BY DEF OnlyMoves
<1>2. HeldOnce'
  BY <1>1 DEF Inv, HeldOnce
<1>3. AdmissionBalanced'
  BY DEF Inv, AdmissionBalanced, Held
<1> QED
  BY <1>2, <1>3

(* Waiting, waking and leaving.                                            *)
LEMMA IdleInv ==
  ASSUME Inv, NEW w \in Workers,
         \/ Wait(w) \/ Exit(w) \/ SpuriousWake(w),
         UNCHANGED <<inference_inflight, answer>>
  PROVE  Inv'
<1> USE DEF Inv, counters
<1>1. /\ UNCHANGED <<queue, stopping, job, submitted, completed, active>>
      /\ OnlyMoves(w) /\ pc' \in [Workers -> Stages]
      /\ pc[w] \in {"checking", "waiting"} /\ pc'[w] \in {"checking", "waiting", "exited"}
      /\ pc'[w] # "checking" => queue = <<>>
  BY DEF TypeOK, OnlyMoves, Stages, Wait, Exit, SpuriousWake
<1>2. TypeOK'
  BY <1>1 DEF TypeOK
<1>3. HeldOnce' /\ AdmissionBalanced'
  BY <1>1, MoveKeepsHeld DEF Working
<1>4. PoolCounts'
  <2>1. /\ Running' = Running /\ Between' = Between
        /\ pc'[w] = "checking" => Looking' >= Looking
    BY <1>1, CountsMove, CountsAreNumbers
  <2>2. Len(queue) \in Nat /\ (queue = <<>> => Len(queue) = 0) /\ Looking' \in Nat
    BY CountsAreNumbers, LenProperties, EmptySeq DEF TypeOK
  <2>3. CASE pc'[w] # "checking"
    BY <1>1, <2>1, <2>2, <2>3 DEF PoolCounts
  <2>4. CASE pc'[w] = "checking"
    <3>1. (\E v \in Workers : pc'[v] = "waiting") => \E v \in Workers : pc[v] = "waiting"
      BY <1>1, <2>4 DEF OnlyMoves
    <3> QED
      BY <1>1, <2>1, <2>2, <3>1, <2>4, CountsAreNumbers DEF PoolCounts
  <2> QED
    BY <2>3, <2>4
<1> QED
  BY <1>2, <1>3, <1>4

(* The job goes from the head of the queue to the worker.                  *)
LEMMA TakeInv ==
  ASSUME Inv, NEW w \in Workers, Take(w), UNCHANGED <<inference_inflight, answer>>
  PROVE  Inv'
<1> USE DEF Inv
<1>1. /\ pc[w] = "checking" /\ queue # <<>>
      /\ job' = [job EXCEPT ![w] = {Head(queue)}]
      /\ queue' = Tail(queue)
      /\ active' = active + 1
      /\ OnlyMoves(w) /\ pc'[w] = "running" /\ pc' \in [Workers -> Stages]
      /\ UNCHANGED <<stopping, submitted, completed>>
  BY DEF Take, TypeOK, OnlyMoves, Stages
<1>2. /\ Head(queue) \in Jobs /\ Head(queue) = queue[1]
      /\ Tail(queue) \in Seq(Jobs) /\ Len(Tail(queue)) = Len(queue) - 1
      /\ Len(queue) \in Nat \ {0}
      /\ \A i \in 1..Len(Tail(queue)) : Tail(queue)[i] = queue[i + 1]
  BY <1>1, HeadTailProperties, EmptySeq, LenProperties DEF TypeOK
<1> DEFINE j == queue[1]
<1>3. job'[w] = {j} /\ \A v \in Workers \ {w} : job'[v] = job[v]
  BY <1>1, <1>2 DEF TypeOK
<1>4. TypeOK'
  BY <1>1, <1>2 DEF TypeOK
<1>5. /\ 1 \in 1..Len(queue)
      /\ \A i \in 1..Len(queue') : i + 1 \in 1..Len(queue) /\ i + 1 # 1 /\ queue'[i] = queue[i + 1]
  BY <1>1, <1>2
<1>6. job[w] = {}
  BY <1>1 DEF HeldOnce, Working
<1>7. HeldOnce'
  <2>1. \A v \in Workers : IF pc'[v] \in Working THEN \E i \in Jobs : job'[v] = {i} ELSE job'[v] = {}
    BY <1>1, <1>2, <1>3 DEF HeldOnce, Working, OnlyMoves
  <2>2. \A i, k \in 1..Len(queue') : queue'[i] = queue'[k] => i = k
    BY <1>2, <1>5 DEF HeldOnce
  <2>3. \A i \in 1..Len(queue') : queue'[i] # j
    BY <1>5 DEF HeldOnce
  <2>4. \A i \in 1..Len(queue') : \A v \in Workers : queue'[i] \notin job'[v]
    BY <1>3, <1>5, <2>3 DEF HeldOnce
  <2>5. \A v \in Workers : j \notin job[v]
    BY <1>5 DEF HeldOnce
  <2>6. \A u, v \in Workers : u # v => job'[u] \cap job'[v] = {}
    BY <1>3, <2>5 DEF HeldOnce
  <2>7. \A i \in 1..Len(queue') : answer'[queue'[i]] \notin Undispatched
    BY <1>5 DEF HeldOnce
  <2>8. \A v \in Workers : \A x \in job'[v] : answer'[x] \notin Undispatched
    BY <1>3, <1>5 DEF HeldOnce
  <2> QED
    BY <2>1, <2>2, <2>4, <2>6, <2>7, <2>8 DEF HeldOnce
<1>8. AdmissionBalanced'
  <2>1. ASSUME NEW x \in Jobs PROVE x \in Held' <=> x \in Held
    <3>1. (\E i \in 1..Len(queue) : queue[i] = x)
             <=> (x = j \/ \E i \in 1..Len(queue') : queue'[i] = x)
      <4>1. ASSUME NEW i \in 1..Len(queue), queue[i] = x, x # j
            PROVE  \E k \in 1..Len(queue') : queue'[k] = x
        <5>1. i - 1 \in 1..Len(queue') /\ queue'[i - 1] = queue[(i - 1) + 1] /\ (i - 1) + 1 = i
          BY <1>1, <1>2, <4>1
        <5> QED
          BY <4>1, <5>1
      <4> QED
        BY <1>5, <4>1
    <3>2. (\E v \in Workers : x \in job'[v]) <=> (x = j \/ \E v \in Workers : x \in job[v])
      BY <1>3, <1>6
    <3> QED
      BY <3>1, <3>2 DEF Held, Requests
  <2>2. Held' = Held
    BY <2>1 DEF Held, Requests
  <2> QED
    BY <2>2 DEF AdmissionBalanced
<1>9. PoolCounts'
  <2>1. Looking' = Looking - 1 /\ Running' = Running + 1 /\ Between' = Between
    BY <1>1, CountsMove, CountsAreNumbers
  <2>2. (\E v \in Workers : pc'[v] = "waiting") => \E v \in Workers : pc[v] = "waiting"
    BY <1>1 DEF OnlyMoves
  <2> QED
    BY <1>1, <1>2, <2>1, <2>2, CountsAreNumbers DEF PoolCounts, TypeOK
<1> QED
  BY <1>4, <1>7, <1>8, <1>9

(* The job has run, and the worker is counted as active no more.           *)
LEMMA RunInv ==
  ASSUME Inv, NEW w \in Workers,
         Run(w) \/ (Deactivate(w) /\ UNCHANGED <<inference_inflight, answer>>)
  PROVE  Inv'
<1> USE DEF Inv
<1>1. /\ UNCHANGED <<queue, stopping, job, submitted, completed, inference_inflight>>
      /\ OnlyMoves(w) /\ pc' \in [Workers -> Stages]
      /\ pc[w] \in Working /\ pc'[w] \in Working
      /\ \/ pc[w] = "running" /\ pc'[w] = "ran" /\ active' = active
         \/ pc[w] = "ran" /\ pc'[w] = "inactive" /\ active' = active - 1
  BY DEF Run, RunJob, Deactivate, TypeOK, OnlyMoves, Stages, Working
<1>2. \/ answer' = answer
      \/ \E a \in {"result", "unanswered"} :
            answer' = [r \in Jobs |-> IF r \in job[w] THEN a ELSE answer[r]]
  BY DEF Run, Deactivate, Requests
<1>3. /\ answer' \in [Jobs -> Answers]
      /\ \A r \in Jobs : answer[r] \notin Undispatched => answer'[r] \notin Undispatched
      /\ \A r \in Jobs : answer[r] = "admitted" <=> answer'[r] = "admitted"
  BY <1>2 DEF TypeOK, Answers, Undispatched, HeldOnce
<1>4. PoolCounts' /\ active' \in Nat
  <2>1. \/ Looking' = Looking /\ Running' = Running /\ Between' = Between /\ active' = active
        \/ /\ Looking' = Looking /\ Running' = Running - 1 /\ Between' = Between + 1
           /\ active' = active - 1
    <3>1. CASE pc[w] = "running" /\ pc'[w] = "ran" /\ active' = active
      BY <1>1, <3>1, CountsMove, CountsAreNumbers
    <3>2. CASE pc[w] = "ran" /\ pc'[w] = "inactive" /\ active' = active - 1
      BY <1>1, <3>2, CountsMove, CountsAreNumbers
    <3> QED
      BY <1>1, <3>1, <3>2
  <2>2. Running' \in Nat
    BY CountsAreNumbers
  <2>3. (\E v \in Workers : pc'[v] = "waiting") => \E v \in Workers : pc[v] = "waiting"
    BY <1>1 DEF OnlyMoves
  <2>4. Len(queue) \in Nat
    BY LenProperties DEF TypeOK
  <2> QED
    BY <1>1, <2>1, <2>2, <2>3, <2>4, CountsAreNumbers DEF PoolCounts, TypeOK
<1>5. TypeOK'
  BY <1>1, <1>3, <1>4 DEF TypeOK
<1>6. HeldOnce'
  <2>1. \A v \in Workers : pc'[v] \in Working <=> pc[v] \in Working
    BY <1>1 DEF OnlyMoves
  <2>2. \A i \in 1..Len(queue) : queue[i] \in Jobs
    BY ElementOfSeq DEF TypeOK
  <2>3. \A v \in Workers : job[v] \subseteq Jobs
    BY DEF TypeOK
  <2> QED
    BY <1>1, <1>3, <2>1, <2>2, <2>3 DEF HeldOnce
<1>7. AdmissionBalanced'
  <2>1. Held' = Held
    BY <1>1, <1>3 DEF Held, Requests
  <2> QED
    BY <1>1, <2>1 DEF AdmissionBalanced
<1> QED
  BY <1>4, <1>5, <1>6, <1>7

(* The job is destroyed, and gives back what it was admitted with.         *)
LEMMA CompleteInv ==
  ASSUME Inv, NEW w \in Workers, Complete(w)
  PROVE  Inv'
<1> USE DEF Inv
<1>1. /\ pc[w] = "inactive"
      /\ completed' = completed + 1
      /\ job' = [job EXCEPT ![w] = {}]
      /\ OnlyMoves(w) /\ pc'[w] = "checking" /\ pc' \in [Workers -> Stages]
      /\ inference_inflight' = inference_inflight - Cardinality(job[w] \cap Inference)
      /\ UNCHANGED <<queue, stopping, submitted, active, answer>>
  BY DEF Complete, CompleteJob, TypeOK, OnlyMoves, Stages
<1>2. job'[w] = {} /\ \A v \in Workers \ {w} : job'[v] = job[v]
  BY <1>1 DEF TypeOK
<1>3. PICK j \in Jobs : job[w] = {j}
  BY <1>1 DEF HeldOnce, Working
<1>4. HeldOnce'
  BY <1>1, <1>2 DEF HeldOnce, Working, OnlyMoves
<1>5. j \in Held /\ Held' = Held \ {j}
  <2>1. \A v \in Workers \ {w} : j \notin job[v]
    BY <1>3 DEF HeldOnce
  <2>2. (\A i \in 1..Len(queue) : queue[i] # j) /\ answer[j] # "admitted"
    BY <1>3 DEF HeldOnce, Undispatched
  <2> QED
    BY <1>1, <1>2, <1>3, <2>1, <2>2 DEF Held, Requests
<1>6. AdmissionBalanced' /\ inference_inflight' \in Nat
  <2>1. inference_inflight = Cardinality(Held \cap Inference) /\ inference_inflight <= MaxInference
    BY DEF AdmissionBalanced
  <2>2. CASE j \in Inference
    <3>1. (Held \cap Inference)' = (Held \cap Inference) \ {j} /\ j \in Held \cap Inference
      BY <1>5, <2>2
    <3>2. Cardinality(Held \cap Inference)' = Cardinality(Held \cap Inference) - 1
      <4> DEFINE H == Held \cap Inference
                 G == (Held \cap Inference)'
      <4>1. IsFiniteSet(H) /\ j \in H /\ G = H \ {j}
        BY <3>1, HeldFinite
      <4> HIDE DEF H, G
      <4>2. Cardinality(G) = Cardinality(H) - 1
        BY <4>1, FS_RemoveElement
      <4> QED
        BY <4>2 DEF H, G
    <3>3. Cardinality(Held \cap Inference) # 0
      BY <3>1, HeldFinite, FS_EmptySet
    <3>4. job[w] \cap Inference = {j}
      BY <1>3, <2>2
    <3>5. Cardinality(job[w] \cap Inference) = 1
      BY <3>4, FS_Singleton
    <3> QED
      BY <1>1, <2>1, <3>2, <3>3, <3>5, HeldFinite, ExecutionAssumption DEF AdmissionBalanced
  <2>3. CASE j \notin Inference
    <3>1. (Held \cap Inference)' = Held \cap Inference
      BY <1>5, <2>3
    <3>2. job[w] \cap Inference = {}
      BY <1>3, <2>3
    <3>3. Cardinality(job[w] \cap Inference) = 0
      BY <3>2, FS_EmptySet
    <3>4. inference_inflight' = inference_inflight
      BY <1>1, <3>3 DEF TypeOK
    <3> QED
      BY <2>1, <3>1, <3>4 DEF AdmissionBalanced, TypeOK
  <2> QED
    BY <2>2, <2>3
<1>7. TypeOK'
  BY <1>1, <1>2, <1>6 DEF TypeOK
<1>8. PoolCounts'
  <2>1. Looking' = Looking + 1 /\ Running' = Running /\ Between' = Between - 1
    BY <1>1, CountsMove, CountsAreNumbers
  <2>2. (\E v \in Workers : pc'[v] = "waiting") => \E v \in Workers : pc[v] = "waiting"
    BY <1>1 DEF OnlyMoves
  <2>3. Len(queue) \in Nat
    BY LenProperties DEF TypeOK
  <2> QED
    BY <1>1, <2>1, <2>2, <2>3, CountsAreNumbers DEF PoolCounts, TypeOK
<1> QED
  BY <1>4, <1>6, <1>7, <1>8

(* Shutdown wakes all that wait, and nothing else.                         *)
LEMMA ShutdownInv ==
  ASSUME Inv, Shutdown
  PROVE  Inv'
<1> USE DEF Inv
<1>1. /\ UNCHANGED <<queue, job, submitted, completed, active, inference_inflight, answer>>
      /\ stopping' = TRUE
      /\ pc' = [w \in Workers |-> IF pc[w] = "waiting" THEN "checking" ELSE pc[w]]
  BY DEF Shutdown, ShutdownPool, counters
<1>2. /\ pc' \in [Workers -> Stages]
      /\ \A w \in Workers : pc'[w] # "waiting"
      /\ \A w \in Workers : \A x \in Working : pc'[w] = x <=> pc[w] = x
  BY <1>1 DEF TypeOK, Stages, Working
<1>3. TypeOK'
  BY <1>1, <1>2 DEF TypeOK
<1>4. HeldOnce' /\ AdmissionBalanced'
  BY <1>1, <1>2 DEF HeldOnce, AdmissionBalanced, Held
<1>5. Running' = Running /\ Between' = Between
  BY <1>2, CountsStay DEF Working
<1>6. PoolCounts'
  BY <1>1, <1>2, <1>5 DEF PoolCounts
<1> QED
  BY <1>3, <1>4, <1>6

(* Every step keeps the invariant.                                         *)
LEMMA StepInv ==
  ASSUME Inv, [Next]_vars
  PROVE  Inv'
<1>1. ASSUME NEW r \in Requests,
             \/ RefuseRequest(r) \/ RefuseInference(r) \/ AcquireInference(r)
             \/ Dispatch(r) \/ DispatchRefused(r)
      PROVE  Inv'
  BY <1>1, RefusalInv, AcquireInv, DispatchInv, RejectInv
<1>2. ASSUME NEW w \in Workers, Work(w) \/ Wake(w)
      PROVE  Inv'
  BY <1>2, IdleInv, TakeInv, RunInv, CompleteInv DEF Work, Wake, PoolOnly
<1>3. CASE UNCHANGED vars
  BY <1>3 DEF vars, pool_vars, counters, Inv, TypeOK, HeldOnce, PoolCounts, Looking, Running,
              Between, At, AdmissionBalanced, Held
<1> QED
  BY <1>1, <1>2, <1>3, ShutdownInv DEF Next

LEMMA InvHolds == Spec => []Inv
BY InitInv, StepInv, PTL DEF Spec

(* For any number of workers and any capacity: whoever sleeps leaves a     *)
(* worker that is about to look for every job that is queued, whatever     *)
(* enqueue, spurious wake-ups, shutdown and the ends of jobs interleave.   *)
THEOREM WakeupsKept == Spec => []NoLostWakeup
<1>1. Inv => NoLostWakeup
  BY PoolCountsAreRight DEF Inv
<1> QED
  BY InvHolds, <1>1, PTL

(* The counters that snapshot() reports account for every accepted job.    *)
THEOREM CountersAddUp == Spec => []AccountingAddsUp
<1>1. Inv => AccountingAddsUp
  BY PoolCountsAreRight DEF Inv
<1> QED
  BY InvHolds, <1>1, PTL

(* For any limit of inference: a slot is taken exactly while the request   *)
(* that was admitted with it is in its handler, queued or run, and the     *)
(* limit is kept, whether jobs are refused, answer or throw.               *)
THEOREM AdmissionIsBalanced == Spec => []AdmissionBalanced
<1>1. Inv => AdmissionBalanced
  BY DEF Inv
<1> QED
  BY InvHolds, <1>1, PTL
=============================================================================
