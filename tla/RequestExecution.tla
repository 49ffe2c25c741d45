-------------------------- MODULE RequestExecution --------------------------
(***************************************************************************)
(* How the HTTP routes of task_routes.cpp get a request answered: inference*)
(* admission, dispatch_json and the worker pool that runs the job.  The    *)
(* pool is the CPU pool, which also runs the rules interpreter; a provider *)
(* pool behaves the same and shares the admission counter only.            *)
(***************************************************************************)
EXTENDS WorkerPool

CONSTANTS
  Inference,     \* the requests to /api/v1/interpret
  MaxInference   \* kMaximumInferenceRequests

ASSUME ExecutionAssumption ==
  /\ IsFiniteSet(Jobs)
  /\ Inference \subseteq Jobs
  /\ MaxInference \in Nat \ {0}

VARIABLES
  inference_inflight,  \* inference_inflight_
  answer               \* what each request's client has been answered

vars == <<pool_vars, inference_inflight, answer>>

(* A request is the pool's job.                                            *)
Requests == Jobs

(* An answer is "none", "admitted" or "waiting" at first; "refused" is     *)
(* 415, 403, 413 or 400; "busy" is 429; "result" is what the job answers,  *)
(* an error of its own included; "exception" is what the framework makes   *)
(* of a handler whose job the pool refused, "broken" of one whose refusal  *)
(* could not be written; "unanswered" is a callback that is never called.  *)
Init ==
  /\ PoolInit
  /\ inference_inflight = 0
  /\ answer = [r \in Requests |-> "none"]
-----------------------------------------------------------------------------
(* mutation_guard, parse_body or a check of the fields turns a request     *)
(* away before anything is acquired: a wrong content type or origin, a     *)
(* body that is too large, too deep, incomplete or no object.  What        *)
(* parse_body says of a body that is no UTF-8 quotes its bytes: writing    *)
(* that answer throws out of the handler.                                  *)
RefuseRequest(r) ==
  /\ answer[r] = "none"
  /\ \E a \in {"refused", "broken"} : answer' = [answer EXCEPT ![r] = a]
  /\ UNCHANGED <<pool_vars, inference_inflight>>

Admits == inference_inflight < MaxInference

(* acquire_inference(): the exchange fails, or the request has its slot.   *)
RefuseInference(r) ==
  /\ answer[r] = "none"
  /\ r \in Inference
  /\ ~Admits
  /\ answer' = [answer EXCEPT ![r] = "busy"]
  /\ UNCHANGED <<pool_vars, inference_inflight>>

AcquireInference(r) ==
  /\ answer[r] = "none"
  /\ r \in Inference
  /\ Admits
  /\ answer' = [answer EXCEPT ![r] = "admitted"]
  /\ inference_inflight' = inference_inflight + 1
  /\ UNCHANGED pool_vars

Admission(r) == IF r \in Inference THEN 1 ELSE 0

Dispatchable(r) == answer[r] = (IF r \in Inference THEN "admitted" ELSE "none")

Dispatch(r) ==
  /\ Dispatchable(r)
  /\ Enqueue(r)
  /\ answer' = [answer EXCEPT ![r] = "waiting"]
  /\ UNCHANGED inference_inflight

(* Faulty variant: the slot is not given back.                             *)
DispatchRefusedLeaking(r) ==
  /\ Dispatchable(r)
  /\ Reject
  /\ answer' = [answer EXCEPT ![r] = "exception"]
  /\ UNCHANGED inference_inflight

(* QueueFull: the job is destroyed, and with it the admission.  callback   *)
(* was moved into the job, so that calling it throws bad_function_call out *)
(* of the handler.                                                         *)
DispatchRefused(r) ==
  /\ Dispatchable(r)
  /\ Reject
  /\ answer' = [answer EXCEPT ![r] = "exception"]
  /\ inference_inflight' = inference_inflight - Admission(r)

(* The job calls the callback with its result or with its error.  An error *)
(* whose text is no UTF-8 (it may quote a file) cannot be written: the     *)
(* catch branch throws, the pool counts a failure, nobody is told.         *)
Run(w) ==
  /\ RunJob(w)
  /\ LET a == IF failed' = failed THEN "result" ELSE "unanswered"
     IN  answer' = [r \in Requests |-> IF r \in job[w] THEN a ELSE answer[r]]
  /\ UNCHANGED inference_inflight

(* The job is destroyed: a request gives its admission back.               *)
Complete(w) ==
  /\ CompleteJob(w)
  /\ inference_inflight' = inference_inflight - Cardinality(job[w] \cap Inference)
  /\ UNCHANGED answer

PoolOnly(w) ==
  /\ Wait(w) \/ Exit(w) \/ Take(w) \/ Deactivate(w)
  /\ UNCHANGED <<inference_inflight, answer>>

Shutdown ==
  /\ ShutdownPool
  /\ UNCHANGED <<inference_inflight, answer>>

Wake(w) ==
  /\ SpuriousWake(w)
  /\ UNCHANGED <<inference_inflight, answer>>

Work(w) == PoolOnly(w) \/ Run(w) \/ Complete(w)

Next ==
  \/ \E r \in Requests : \/ RefuseRequest(r) \/ RefuseInference(r) \/ AcquireInference(r)
                       \/ Dispatch(r) \/ DispatchRefused(r)
  \/ \E w \in Workers : Work(w) \/ Wake(w)
  \/ Shutdown

Spec == Init /\ [][Next]_vars

(* Worker threads are scheduled and jobs end (inference has a deadline).   *)
FairSpec == Spec /\ \A w \in Workers : WF_vars(Work(w))
-----------------------------------------------------------------------------
Held == {r \in Requests : \/ answer[r] = "admitted"
                          \/ \E k \in 1..Len(queue) : queue[k] = r
                          \/ \E w \in Workers : r \in job[w]}

(* Admission is balanced: a slot is taken exactly while the handler or the *)
(* job that holds it exists, queued or run; no refusal, error or shutdown  *)
(* leaks one, and the limit is never exceeded.                             *)
AdmissionBalanced ==
  inference_inflight <= MaxInference /\ inference_inflight = Cardinality(Held \cap Inference)

(* The job of a request the pool accepted is run to its end, once the pool *)
(* stops, too: the request is answered, or its failure is counted.         *)
AcceptedRequestsAreRun ==
  \A r \in Requests : answer[r] = "waiting" ~> answer[r] \in {"result", "unanswered"}

=============================================================================
