----------------------------- MODULE WorkerPool -----------------------------
(***************************************************************************)
(* The bounded worker pool: a queue under mutex_, the condition variable   *)
(* its workers wait on, and the counters that snapshot() reports.          *)
(*                                                                         *)
(* A critical section is one step.  A worker is "checking" when it is to   *)
(* evaluate the wait predicate under the mutex, "waiting" when only a      *)
(* notification (or a spurious wake-up) lets it go on.  accepting_ is      *)
(* cleared together with the setting of stopping_ and is left out.         *)
(* RequestExecution composes these actions with the routes that use the    *)
(* pool, and gives the specification.                                      *)
(***************************************************************************)
EXTENDS Naturals, Sequences, FiniteSets

CONSTANTS Workers, Jobs, Capacity

ASSUME PoolAssumption ==
  /\ IsFiniteSet(Workers)
  /\ Workers # {}
  /\ Capacity \in Nat \ {0}

VARIABLES
  queue,      \* queue_
  stopping,   \* stopping_
  pc,         \* where each worker is in run()
  job,        \* the jobs a worker holds, at most one
  submitted, completed, failed, active, rejected,  \* the counters
  finished    \* history: the jobs that have been run, in a set

counters == <<submitted, completed, failed, active, rejected>>
pool_vars == <<queue, stopping, pc, job, counters, finished>>

Waiting == {w \in Workers : pc[w] = "waiting"}
Checking == {w \in Workers : pc[w] = "checking"}

PoolInit ==
  /\ queue = <<>>
  /\ stopping = FALSE
  /\ pc = [w \in Workers |-> "checking"]
  /\ job = [w \in Workers |-> {}]
  /\ submitted = 0 /\ completed = 0 /\ failed = 0 /\ active = 0 /\ rejected = 0
  /\ finished = {}
-----------------------------------------------------------------------------
(* Faulty variant: nobody is told.                                         *)
NobodyNotified == UNCHANGED pc

(* condition_.notify_one(): one of the waiting workers, if there is one.   *)
NotifyOne ==
  \/ \E w \in Waiting : pc' = [pc EXCEPT ![w] = "checking"]
  \/ Waiting = {} /\ UNCHANGED pc

Accepts == ~stopping /\ Len(queue) < Capacity

(* enqueue for dispatch and for submit.                                    *)
Enqueue(j) ==
  /\ Accepts
  /\ queue' = Append(queue, j)
  /\ submitted' = submitted + 1
  /\ NotifyOne
  /\ UNCHANGED <<stopping, job, completed, failed, active, rejected, finished>>

(* Faulty variant: a refused job is counted as submitted, too.             *)
RejectCounted ==
  /\ ~Accepts
  /\ rejected' = rejected + 1
  /\ submitted' = submitted + 1
  /\ UNCHANGED <<queue, stopping, pc, job, completed, failed, active, finished>>

(* The job is destroyed and QueueFull thrown.                              *)
Reject ==
  /\ ~Accepts
  /\ rejected' = rejected + 1
  /\ UNCHANGED <<queue, stopping, pc, job, submitted, completed, failed, active, finished>>
-----------------------------------------------------------------------------
(* run(), one worker.                                                      *)
Wait(w) ==
  /\ pc[w] = "checking"
  /\ ~stopping /\ queue = <<>>
  /\ pc' = [pc EXCEPT ![w] = "waiting"]
  /\ UNCHANGED <<queue, stopping, job, counters, finished>>

SpuriousWake(w) ==
  /\ pc[w] = "waiting"
  /\ pc' = [pc EXCEPT ![w] = "checking"]
  /\ UNCHANGED <<queue, stopping, job, counters, finished>>

(* Faulty variant: a stopping pool lets its workers go at once.            *)
ExitUndrained(w) ==
  /\ pc[w] = "checking"
  /\ stopping
  /\ pc' = [pc EXCEPT ![w] = "exited"]
  /\ UNCHANGED <<queue, stopping, job, counters, finished>>

Exit(w) ==
  /\ pc[w] = "checking"
  /\ stopping /\ queue = <<>>
  /\ pc' = [pc EXCEPT ![w] = "exited"]
  /\ UNCHANGED <<queue, stopping, job, counters, finished>>

Take(w) ==
  /\ pc[w] = "checking"
  /\ queue # <<>>
  /\ job' = [job EXCEPT ![w] = {Head(queue)}]
  /\ queue' = Tail(queue)
  /\ active' = active + 1
  /\ pc' = [pc EXCEPT ![w] = "running"]
  /\ UNCHANGED <<stopping, submitted, completed, failed, rejected, finished>>

(* job() returns, or throws and is counted as failed.                      *)
RunJob(w) ==
  /\ pc[w] = "running"
  /\ finished' = finished \cup job[w]
  /\ failed' \in {failed, failed + 1}
  /\ pc' = [pc EXCEPT ![w] = "ran"]
  /\ UNCHANGED <<queue, stopping, job, submitted, completed, active, rejected>>

Deactivate(w) ==
  /\ pc[w] = "ran"
  /\ active' = active - 1
  /\ pc' = [pc EXCEPT ![w] = "inactive"]
  /\ UNCHANGED <<queue, stopping, job, submitted, completed, failed, rejected, finished>>

(* The job is counted, then destroyed at the end of the iteration.         *)
CompleteJob(w) ==
  /\ pc[w] = "inactive"
  /\ completed' = completed + 1
  /\ job' = [job EXCEPT ![w] = {}]
  /\ pc' = [pc EXCEPT ![w] = "checking"]
  /\ UNCHANGED <<queue, stopping, submitted, failed, active, rejected, finished>>

(* Faulty variant: the waiting workers are not notified.                   *)
ShutdownPoolQuietly ==
  /\ ~stopping
  /\ stopping' = TRUE
  /\ UNCHANGED <<queue, pc, job, counters, finished>>

(* shutdown(): the caller then joins the workers.                          *)
ShutdownPool ==
  /\ ~stopping
  /\ stopping' = TRUE
  /\ pc' = [w \in Workers |-> IF pc[w] = "waiting" THEN "checking" ELSE pc[w]]
  /\ UNCHANGED <<queue, job, counters, finished>>

-----------------------------------------------------------------------------
(* No wake-up is lost: while a worker sleeps, there is a worker about to   *)
(* look at the queue for every job in it.                                  *)
NoLostWakeup == Waiting # {} => Len(queue) <= Cardinality(Checking)

(* The accounting adds up: a job that was accepted is queued, active or    *)
(* completed, except for the moment between the two counters of run().     *)
AccountingAddsUp ==
  /\ active = Cardinality({w \in Workers : pc[w] \in {"running", "ran"}})
  /\ submitted = Len(queue) + active + completed
                   + Cardinality({w \in Workers : pc[w] = "inactive"})

(* Shutdown ends: every worker leaves, so that the joins return.           *)
ShutdownReturns == stopping ~> \A w \in Workers : pc[w] = "exited"
=============================================================================
