------------------------ MODULE TelemetryStoreProofs ------------------------
(***************************************************************************)
(* Proofs about TelemetryStore and ServiceLifecycle for every set of       *)
(* clients, tags, sources, models and batches and every bound.             *)
(***************************************************************************)
EXTENDS TelemetryStore, FiniteSetTheorems, TLAPS

-----------------------------------------------------------------------------
(* The inductive invariant.                                                *)

(* What a record of op promises beyond its type: a served snapshot, and a  *)
(* readiness answer that is about to be or has been given, rest on the     *)
(* generation they name.                                                   *)
RecordOK(o) ==
  /\ o.stage = "served" =>
       \A t \in DOMAIN o.shown :
         o.shown[t].sample # NoSample => o.shown[t].sample.generation = o.generation
  /\ (o.stage \in {"reporting", "reported"} /\ o.source) =>
       \E c \in applied : c.generation = o.generation

RecordsOK == \A a \in Clients : RecordOK(op[a])

StoreInv == TypeOK /\ StoreFollows /\ RecordsOK /\ BatchesAppliedOnce
LifecycleInv == LifecycleTypeOK /\ ShutdownInOrder /\ ShutdownIsOrderly

(* Replacing one client's record leaves the others.                        *)
LEMMA PutRecord ==
  ASSUME NEW a \in Clients, NEW r, TypeOK, Put(a, r)
  PROVE  /\ op' = [x \in Clients |-> op'[x]]
         /\ op'[a] = r
         /\ \A b \in Clients \ {a} : op'[b] = op[b]
<1>1. op = [x \in Clients |-> op[x]] /\ op' = [op EXCEPT ![a] = r]
  BY DEF TypeOK, Put
<1> QED
  BY <1>1

(* A step that leaves the store alone and replaces one record by a good    *)
(* one keeps the invariant of the store.                                   *)
LEMMA RecordStep ==
  ASSUME StoreInv, NEW a \in Clients, NEW r, Put(a, r),
         UNCHANGED <<model_vars, values, source_sequences, context_generation,
                     last_received, accepted_batches, applied, clock>>,
         LifecycleTypeOK', rejected_batches' \in Nat, requests' \in Nat,
         OpOK(r), RecordOK(r)
  PROVE  StoreInv'
<1>1. /\ op' = [x \in Clients |-> op'[x]]
      /\ op'[a] = r
      /\ \A b \in Clients \ {a} : op'[b] = op[b]
  BY PutRecord DEF StoreInv
<1>2. \A b \in Clients : OpOK(op'[b])
  BY <1>1 DEF StoreInv, TypeOK
<1>3. TypeOK'
  <2>1. \A b \in Clients : OpOK(op[b])'
    BY <1>2 DEF OpOK
  <2> QED
    BY <1>1, <2>1 DEF StoreInv, TypeOK, model_vars
<1>4. RecordsOK'
  BY <1>1 DEF StoreInv, RecordsOK, RecordOK
<1>5. StoreFollows'
  <2>1. \A b \in Clients : (op[b].stage = "reporting" /\ op[b].source =>
          \E c \in applied : c.generation = op[b].generation)'
    BY <1>4 DEF RecordsOK, RecordOK
  <2> QED
    BY <2>1 DEF StoreInv, StoreFollows, model_vars
<1>6. BatchesAppliedOnce'
  BY DEF StoreInv, BatchesAppliedOnce
<1> QED
  BY <1>3, <1>4, <1>5, <1>6 DEF StoreInv

(* Facts about the constants.                                              *)
LEMMA BatchFacts ==
  ASSUME NEW b \in Batches
  PROVE  /\ b.source \in Sources /\ b.sequence \in Nat /\ b.generation \in Nat
         /\ DOMAIN b.values \in SUBSET Tags
         /\ \A t \in DOMAIN b.values : b.values[t] \in Reading
BY TelemetryAssumption
-----------------------------------------------------------------------------
(* The initial states.                                                     *)
LEMMA StoreInit == Init => StoreInv
<1> SUFFICES ASSUME Init PROVE StoreInv
  OBVIOUS
<1>1. LifecycleTypeOK
  BY DEF Init, LifecycleInit, LifecycleTypeOK, Machines, States, Phases, Joining
<1>2. IsFiniteSet(applied) /\ Cardinality(applied) = 0
  BY FS_EmptySet DEF Init
<1>3. \A a \in Clients : op[a] = Idle
  BY DEF Init
<1>4. TypeOK
  <2>1. \A a \in Clients : OpOK(op[a])
    BY <1>3 DEF OpOK, Idle, Stages
  <2>2. op = [a \in Clients |-> op[a]]
    BY DEF Init
  <2>3. values \in [Tags -> Sample \cup {NoSample}]
    BY DEF Init
  <2>4. source_sequences \in [Sources -> Nat \cup {NoSequence}]
    BY DEF Init
  <2>5. model \in Models /\ changing \in BOOLEAN
    BY TelemetryAssumption, Zenon DEF Init
  <2>6. /\ generation \in Nat /\ context_generation \in Nat /\ last_received \in Nat
        /\ accepted_batches \in Nat /\ rejected_batches \in Nat
        /\ clock \in Nat \ {0} /\ requests \in Nat /\ applied \in SUBSET Applied
    BY DEF Init
  <2> QED
    BY <1>1, <1>2, <2>1, <2>2, <2>3, <2>4, <2>5, <2>6 DEF TypeOK
<1>5. RecordsOK
  BY <1>3 DEF RecordsOK, RecordOK, Idle
<1>6. StoreFollows
  BY <1>3 DEF Init, StoreFollows, Idle
<1> QED
  BY <1>2, <1>4, <1>5, <1>6 DEF StoreInv, BatchesAppliedOnce, Init
-----------------------------------------------------------------------------
(* One lemma per group of actions.                                         *)

(* A machine that is moved along the table keeps its type.                 *)
LEMMA MovedType ==
  ASSUME LifecycleTypeOK, NEW m \in Machines, NEW next \in States,
         machine' = [machine EXCEPT ![m] = next], UNCHANGED <<phase, step>>
  PROVE  LifecycleTypeOK'
BY DEF LifecycleTypeOK

(* ingest_telemetry up to its commit, and after a refusal.                 *)
LEMMA IngestSteps ==
  ASSUME StoreInv, NEW a \in Clients,
         BeginIngest(a) \/ ValidateBatch(a) \/ RefuseCommit(a) \/ RejectBatch(a)
  PROVE  StoreInv'
<1> USE DEF Stages
<1>0. TypeOK /\ LifecycleTypeOK /\ OpOK(op[a])
  BY DEF StoreInv, TypeOK
<1>1. CASE BeginIngest(a)
  <2>1. PICK b \in Batches :
          Put(a, [stage |-> "validating", model |-> model, generation |-> generation, batch |-> b])
    BY <1>1 DEF BeginIngest
  <2> DEFINE r == [stage |-> "validating", model |-> model, generation |-> generation, batch |-> b]
  <2>2. OpOK(r) /\ RecordOK(r)
    BY <1>0 DEF OpOK, RecordOK, TypeOK
  <2>3. requests' \in Nat /\ rejected_batches' \in Nat /\ LifecycleTypeOK'
    BY <1>0, <1>1 DEF BeginIngest, TypeOK, store_vars, lifecycle_vars, LifecycleTypeOK
  <2> QED
    BY <1>1, <2>1, <2>2, <2>3, RecordStep DEF BeginIngest, store_vars
<1>2. CASE ValidateBatch(a)
  <2> DEFINE o == op[a]
             yes == [stage |-> "committing", generation |-> o.generation,
                     batch |-> o.batch, received |-> clock]
             no == [stage |-> "rejecting", generation |-> o.generation]
             r == IF Admissible(o.model, o.generation, o.batch) THEN yes ELSE no
  <2>1. o.generation \in Nat /\ o.batch \in Batches /\ clock \in Nat \ {0}
    BY <1>0, <1>2 DEF ValidateBatch, OpOK, TypeOK
  <2>2. Admissible(o.model, o.generation, o.batch) => OpOK(yes) /\ RecordOK(yes)
    BY <2>1 DEF Admissible, OpOK, RecordOK
  <2>3. OpOK(no) /\ RecordOK(no)
    BY <2>1 DEF OpOK, RecordOK
  <2>4. OpOK(r) /\ RecordOK(r)
    BY <2>2, <2>3
  <2>5. requests' \in Nat /\ rejected_batches' \in Nat /\ LifecycleTypeOK'
    BY <1>0, <1>2 DEF ValidateBatch, TypeOK, store_vars, lifecycle_vars, LifecycleTypeOK
  <2>6. Put(a, r)
    BY <1>2 DEF ValidateBatch
  <2> QED
    BY <1>2, <2>4, <2>5, <2>6, RecordStep DEF ValidateBatch, store_vars
<1>3. CASE RefuseCommit(a)
  <2> DEFINE r == [stage |-> "rejecting", generation |-> op[a].generation]
  <2>1. OpOK(r) /\ RecordOK(r)
    BY <1>0, <1>3 DEF RefuseCommit, OpOK, RecordOK
  <2>2. requests' \in Nat /\ rejected_batches' \in Nat /\ LifecycleTypeOK'
    BY <1>0, <1>3 DEF RefuseCommit, TypeOK, store_vars, lifecycle_vars, LifecycleTypeOK
  <2>3. Put(a, r)
    BY <1>3 DEF RefuseCommit
  <2> QED
    BY <1>3, <2>1, <2>2, <2>3, RecordStep DEF RefuseCommit, store_vars
<1>4. CASE RejectBatch(a)
  <2> DEFINE r == [stage |-> "answered", result |-> "rejected", generation |-> op[a].generation]
  <2>1. OpOK(r) /\ RecordOK(r)
    BY <1>0, <1>4 DEF RejectBatch, OpOK, RecordOK
  <2>2. requests' \in Nat /\ rejected_batches' \in Nat /\ LifecycleTypeOK'
    BY <1>0, <1>4 DEF RejectBatch, TypeOK, lifecycle_vars, LifecycleTypeOK
  <2>3. Put(a, r)
    BY <1>4 DEF RejectBatch, Answer
  <2> QED
    BY <1>4, <2>1, <2>2, <2>3, RecordStep DEF RejectBatch
<1> QED
  BY <1>1, <1>2, <1>3, <1>4

(* An answer is a good record.                                             *)
LEMMA AnswerStep ==
  ASSUME StoreInv, NEW a \in Clients, NEW result, op[a].generation \in Nat,
         Answer(a, result), LifecycleTypeOK', UNCHANGED <<model_vars, store_vars, clock, requests>>
  PROVE  StoreInv'
<1> DEFINE r == [stage |-> "answered", result |-> result, generation |-> op[a].generation]
<1>1. OpOK(r) /\ RecordOK(r)
  BY DEF OpOK, RecordOK, Stages
<1>2. Put(a, r) /\ rejected_batches' \in Nat /\ requests' \in Nat
  BY DEF Answer, store_vars, StoreInv, TypeOK
<1> QED
  BY <1>1, <1>2, RecordStep DEF store_vars

(* ingest_telemetry after its commit.                                      *)
LEMMA AfterCommit ==
  ASSUME StoreInv, NEW a \in Clients, RecheckGeneration(a) \/ AnnounceSource(a)
  PROVE  StoreInv'
<1>0. TypeOK /\ LifecycleTypeOK /\ OpOK(op[a]) /\ rejected_batches \in Nat /\ requests \in Nat
  BY DEF StoreInv, TypeOK
<1>1. CASE RecheckGeneration(a)
  <2> DEFINE r == [stage |-> "announcing", generation |-> op[a].generation]
  <2>1. op[a].generation \in Nat
    BY <1>0, <1>1 DEF RecheckGeneration, OpOK
  <2>2. LifecycleTypeOK' /\ UNCHANGED <<model_vars, store_vars, clock, requests>>
    BY <1>0, <1>1 DEF RecheckGeneration, lifecycle_vars, LifecycleTypeOK
  <2>3. CASE generation = op[a].generation
    <3>1. OpOK(r) /\ RecordOK(r)
      BY <2>1 DEF OpOK, RecordOK, Stages
    <3>2. Put(a, r)
      BY <1>1, <2>3 DEF RecheckGeneration
    <3> QED
      BY <1>0, <2>2, <3>1, <3>2, RecordStep DEF store_vars
  <2>4. CASE generation # op[a].generation
    BY <1>1, <2>1, <2>2, <2>4, AnswerStep DEF RecheckGeneration
  <2> QED
    BY <2>3, <2>4
<1>2. CASE AnnounceSource(a)
  <2>1. op[a].generation \in Nat
    BY <1>0, <1>2 DEF AnnounceSource, OpOK
  <2>2. UNCHANGED <<phase, step>> /\ UNCHANGED <<model_vars, store_vars, clock, requests>>
    BY <1>2 DEF AnnounceSource
  <2>3. CASE CanMove("source", "ready")
    <3>1. machine' = [machine EXCEPT !["source"] = "ready"] /\ Answer(a, "accepted")
      BY <1>2, <2>3 DEF AnnounceSource
    <3>2. LifecycleTypeOK'
      BY <1>0, <2>2, <3>1, MovedType DEF Machines, States
    <3> QED
      BY <2>1, <2>2, <3>1, <3>2, AnswerStep
  <2>4. CASE ~CanMove("source", "ready")
    <3>1. UNCHANGED machine /\ Answer(a, "error")
      BY <1>2, <2>4 DEF AnnounceSource
    <3>2. LifecycleTypeOK'
      BY <1>0, <2>2, <3>1 DEF LifecycleTypeOK
    <3> QED
      BY <2>1, <2>2, <3>1, <3>2, AnswerStep
  <2> QED
    BY <2>3, <2>4
<1> QED
  BY <1>1, <1>2

(* telemetry(): the snapshot reads the store under the generation that it  *)
(* names, or shows nothing.                                                *)
LEMMA SnapshotSteps ==
  ASSUME StoreInv, NEW a \in Clients, BeginSnapshot(a) \/ ReadClock(a) \/ ServeSnapshot(a)
  PROVE  StoreInv'
<1>0. TypeOK /\ LifecycleTypeOK /\ OpOK(op[a]) /\ StoreFollows
  BY DEF StoreInv, TypeOK
<1>1. CASE BeginSnapshot(a)
  <2> DEFINE r == [stage |-> "reading", model |-> model, generation |-> generation]
  <2>1. OpOK(r) /\ RecordOK(r)
    BY <1>0 DEF TypeOK, OpOK, RecordOK, Stages
  <2>2. requests' \in Nat /\ rejected_batches' \in Nat /\ LifecycleTypeOK'
    BY <1>0, <1>1 DEF BeginSnapshot, TypeOK, store_vars, lifecycle_vars, LifecycleTypeOK
  <2>3. Put(a, r)
    BY <1>1 DEF BeginSnapshot
  <2> QED
    BY <1>1, <2>1, <2>2, <2>3, RecordStep DEF BeginSnapshot, store_vars
<1>2. CASE ReadClock(a)
  <2> DEFINE r == [stage |-> "serving", model |-> op[a].model,
                   generation |-> op[a].generation, now |-> clock]
  <2>1. OpOK(r) /\ RecordOK(r)
    BY <1>0, <1>2 DEF ReadClock, TypeOK, OpOK, RecordOK, Stages
  <2>2. requests' \in Nat /\ rejected_batches' \in Nat /\ LifecycleTypeOK'
    BY <1>0, <1>2 DEF ReadClock, TypeOK, store_vars, lifecycle_vars, LifecycleTypeOK
  <2>3. Put(a, r)
    BY <1>2 DEF ReadClock
  <2> QED
    BY <1>2, <2>1, <2>2, <2>3, RecordStep DEF ReadClock, store_vars
<1>3. CASE ServeSnapshot(a)
  <2> DEFINE m == op[a].model
             shown == [t \in m.tags |-> Shown(op[a].generation, op[a].now, t)]
             r == [stage |-> "served", generation |-> op[a].generation, now |-> op[a].now,
                   shown |-> shown, quality |-> Overall(shown), raised |-> Raised(m, shown)]
  <2>1. m \in Models /\ op[a].generation \in Nat /\ op[a].now \in Nat
    BY <1>0, <1>3 DEF ServeSnapshot, OpOK
  <2>2. m.tags \subseteq Tags
    BY <2>1, TelemetryAssumption
  <2>3. \A t \in DOMAIN shown :
          shown[t].sample # NoSample => shown[t].sample.generation = op[a].generation
    BY <1>0, <2>2 DEF Shown, StoreFollows
  <2>4. OpOK(r) /\ RecordOK(r)
    <3>1. /\ r.stage = "served" /\ r.generation = op[a].generation /\ r.now = op[a].now
          /\ r.shown = shown
      OBVIOUS
    <3> HIDE DEF r, shown
    <3> QED
      BY <2>1, <2>3, <3>1 DEF OpOK, RecordOK, Stages
  <2>5. requests' \in Nat /\ rejected_batches' \in Nat /\ LifecycleTypeOK'
    BY <1>0, <1>3 DEF ServeSnapshot, TypeOK, store_vars, lifecycle_vars, LifecycleTypeOK
  <2>6. Put(a, r)
    BY <1>3 DEF ServeSnapshot
  <2>7. UNCHANGED <<lifecycle_vars, model_vars, store_vars, clock, requests>>
    BY <1>3 DEF ServeSnapshot
  <2> HIDE DEF r
  <2> QED
    BY <2>4, <2>5, <2>6, <2>7, RecordStep DEF store_vars
<1> QED
  BY <1>1, <1>2, <1>3

(* readiness(): the answer rests on a commit of the generation that was    *)
(* asked about, because the store forgets receptions with the generation.  *)
LEMMA ReadinessSteps ==
  ASSUME StoreInv, NEW a \in Clients,
         \/ BeginReadiness(a) \/ ProbeProvider(a) \/ LoadGeneration(a)
         \/ QueryStore(a) \/ ReportReadiness(a)
  PROVE  StoreInv'
<1> USE DEF Stages
<1>0. /\ TypeOK /\ LifecycleTypeOK /\ OpOK(op[a]) /\ StoreFollows /\ RecordOK(op[a])
      /\ rejected_batches \in Nat /\ requests \in Nat /\ generation \in Nat
  BY DEF StoreInv, TypeOK, RecordsOK
<1>1. CASE BeginReadiness(a)
  <2> DEFINE r == [stage |-> "probing", generation |-> generation]
  <2>1. OpOK(r) /\ RecordOK(r)
    BY <1>0 DEF OpOK, RecordOK
  <2>2. requests' \in Nat /\ rejected_batches' \in Nat /\ LifecycleTypeOK'
    BY <1>0, <1>1 DEF BeginReadiness, store_vars, lifecycle_vars, LifecycleTypeOK
  <2>3. Put(a, r)
    BY <1>1 DEF BeginReadiness
  <2> QED
    BY <1>1, <2>1, <2>2, <2>3, RecordStep DEF BeginReadiness, store_vars
<1>2. CASE ProbeProvider(a)
  <2>1. PICK ready \in (IF ProviderConfigured THEN BOOLEAN ELSE {TRUE}) :
          LET next == IF ready THEN "ready" ELSE "degraded"
          IN IF CanMove("provider", next)
             THEN /\ machine' = [machine EXCEPT !["provider"] = next]
                  /\ Put(a, [stage |-> "loading", provider |-> ready])
             ELSE UNCHANGED machine /\ Answer(a, "error")
    BY <1>2 DEF ProbeProvider, ProviderReadiness
  <2> DEFINE next == IF ready THEN "ready" ELSE "degraded"
             r == [stage |-> "loading", provider |-> ready]
  <2>2. UNCHANGED <<phase, step>> /\ UNCHANGED <<model_vars, store_vars, clock, requests>>
    BY <1>2 DEF ProbeProvider, ProviderReadiness
  <2>3. CASE CanMove("provider", next)
    <3>1. machine' = [machine EXCEPT !["provider"] = next] /\ Put(a, r)
      BY <2>1, <2>3
    <3>2. LifecycleTypeOK'
      BY <1>0, <2>2, <3>1, MovedType DEF Machines, States
    <3>3. OpOK(r) /\ RecordOK(r)
      BY DEF OpOK, RecordOK
    <3> QED
      BY <1>0, <2>2, <3>1, <3>2, <3>3, RecordStep DEF store_vars
  <2>4. CASE ~CanMove("provider", next)
    <3>1. UNCHANGED machine /\ Answer(a, "error")
      BY <2>1, <2>4
    <3>2. LifecycleTypeOK' /\ op[a].generation \in Nat
      BY <1>0, <1>2, <2>2, <3>1 DEF LifecycleTypeOK, OpOK, ProbeProvider, ProviderReadiness
    <3> QED
      BY <2>2, <3>1, <3>2, AnswerStep
  <2> QED
    BY <2>3, <2>4
<1>3. CASE LoadGeneration(a)
  <2> DEFINE r == [stage |-> "querying", provider |-> op[a].provider, generation |-> generation]
  <2>1. OpOK(r) /\ RecordOK(r)
    BY <1>0 DEF OpOK, RecordOK
  <2>2. requests' \in Nat /\ rejected_batches' \in Nat /\ LifecycleTypeOK'
    BY <1>0, <1>3 DEF LoadGeneration, store_vars, lifecycle_vars, LifecycleTypeOK
  <2>3. Put(a, r)
    BY <1>3 DEF LoadGeneration
  <2> QED
    BY <1>3, <2>1, <2>2, <2>3, RecordStep DEF LoadGeneration, store_vars
<1>4. CASE QueryStore(a)
  <2> DEFINE r == [stage |-> "reporting", provider |-> op[a].provider,
                   generation |-> op[a].generation, source |-> Received(op[a].generation)]
  <2>1. op[a].generation \in Nat
    BY <1>0, <1>4 DEF QueryStore, OpOK
  <2>2. r.source => \E c \in applied : c.generation = op[a].generation
    BY <1>0 DEF Received, StoreFollows
  <2>3. OpOK(r) /\ RecordOK(r)
    BY <2>1, <2>2 DEF OpOK, RecordOK
  <2>4. requests' \in Nat /\ rejected_batches' \in Nat /\ LifecycleTypeOK'
    BY <1>0, <1>4 DEF QueryStore, store_vars, lifecycle_vars, LifecycleTypeOK
  <2>5. Put(a, r)
    BY <1>4 DEF QueryStore
  <2> QED
    BY <1>4, <2>3, <2>4, <2>5, RecordStep DEF QueryStore, store_vars
<1>5. CASE ReportReadiness(a)
  <2> DEFINE next == IF op[a].source THEN "ready" ELSE "degraded"
             r == [stage |-> "reported", generation |-> op[a].generation,
                   source |-> op[a].source, ready |-> op[a].provider /\ op[a].source]
  <2>1. op[a].generation \in Nat /\ op[a].stage = "reporting"
    BY <1>0, <1>5 DEF ReportReadiness, OpOK
  <2>2. UNCHANGED <<phase, step>> /\ UNCHANGED <<model_vars, store_vars, clock, requests>>
    BY <1>5 DEF ReportReadiness
  <2>3. CASE CanMove("source", next)
    <3>1. machine' = [machine EXCEPT !["source"] = next] /\ Put(a, r)
      BY <1>5, <2>3 DEF ReportReadiness
    <3>2. LifecycleTypeOK'
      BY <1>0, <2>2, <3>1, MovedType DEF Machines, States
    <3>3. OpOK(r) /\ RecordOK(r)
      BY <1>0, <2>1 DEF OpOK, RecordOK
    <3> QED
      BY <1>0, <2>2, <3>1, <3>2, <3>3, RecordStep DEF store_vars
  <2>4. CASE ~CanMove("source", next)
    <3>1. UNCHANGED machine /\ Answer(a, "error")
      BY <1>5, <2>4 DEF ReportReadiness
    <3>2. LifecycleTypeOK'
      BY <1>0, <2>2, <3>1 DEF LifecycleTypeOK
    <3> QED
      BY <2>1, <2>2, <3>1, <3>2, AnswerStep
  <2> QED
    BY <2>3, <2>4
<1> QED
  BY <1>1, <1>2, <1>3, <1>4, <1>5

(* The commit: it is the only step that applies a batch, and the sequence  *)
(* it applies lies above all those of its generation and source.           *)
LEMMA CommitStep ==
  ASSUME StoreInv, NEW a \in Clients, CommitBatch(a)
  PROVE  StoreInv'
<1> DEFINE b == op[a].batch
           g == op[a].generation
           key == [generation |-> g, source |-> b.source, sequence |-> b.sequence]
           sample(t) == [value |-> b.values[t].value, quality |-> b.values[t].quality,
                         received |-> op[a].received, source |-> b.source,
                         sequence |-> b.sequence, generation |-> g]
           r == [stage |-> "committed", generation |-> g]
<1>0. TypeOK /\ StoreFollows /\ RecordsOK /\ BatchesAppliedOnce /\ OpOK(op[a])
  BY DEF StoreInv, TypeOK
<1>1. op[a].stage = "committing" /\ Commits(g, b) /\ Put(a, r)
  BY DEF CommitBatch
<1>2. /\ g \in Nat /\ b \in Batches /\ op[a].received \in Nat \ {0}
      /\ \A t \in DOMAIN b.values : ValidReading(b.values[t])
  BY <1>0, <1>1 DEF OpOK
<1>3. /\ b.source \in Sources /\ b.sequence \in Nat /\ DOMAIN b.values \in SUBSET Tags
      /\ \A t \in DOMAIN b.values : b.values[t] \in Reading
  BY <1>2, BatchFacts
<1>4. context_generation = g /\ b.sequence > source_sequences[b.source]
  BY <1>1 DEF Commits
<1>5. /\ values' = [t \in Tags |-> IF t \in DOMAIN b.values THEN sample(t) ELSE values[t]]
      /\ source_sequences' = [source_sequences EXCEPT ![b.source] = b.sequence]
      /\ accepted_batches' = accepted_batches + 1
      /\ last_received' = op[a].received
      /\ applied' = applied \cup {key}
      /\ UNCHANGED <<lifecycle_vars, model_vars, context_generation,
                     rejected_batches, clock, requests>>
  BY DEF CommitBatch
<1>6. /\ op' = [x \in Clients |-> op'[x]]
      /\ op'[a] = r
      /\ \A x \in Clients \ {a} : op'[x] = op[x]
  BY <1>0, <1>1, PutRecord
<1>7. key \in Applied
  BY <1>2, <1>3 DEF Applied
<1>8. key \notin applied
  <2>1. \A c \in applied : c.generation = context_generation => c.sequence <= source_sequences[c.source]
    BY <1>0 DEF StoreFollows
  <2>2. source_sequences[b.source] \in Nat \cup {-1}
    BY <1>0, <1>3 DEF TypeOK, NoSequence
  <2>3. ASSUME key \in applied PROVE FALSE
    <3>1. key.generation = g /\ key.source = b.source /\ key.sequence = b.sequence
      OBVIOUS
    <3>2. b.sequence <= source_sequences[b.source]
      BY <1>4, <2>1, <2>3, <3>1
    <3> QED
      BY <1>3, <1>4, <2>2, <3>2
  <2> QED
    BY <2>3
<1>9. /\ applied' \in SUBSET Applied /\ IsFiniteSet(applied')
      /\ Cardinality(applied') = Cardinality(applied) + 1
  <2>1. applied \in SUBSET Applied /\ IsFiniteSet(applied)
    BY <1>0 DEF TypeOK
  <2> HIDE DEF key
  <2> QED
    BY <1>5, <1>7, <1>8, <2>1, FS_AddElement
<1>10. values' \in [Tags -> Sample \cup {NoSample}]
  <2>1. \A t \in DOMAIN b.values : sample(t) \in Sample
    BY <1>2, <1>3 DEF Sample, ValidReading, Reading, Values
  <2>2. values \in [Tags -> Sample \cup {NoSample}]
    BY <1>0 DEF TypeOK
  <2> HIDE DEF sample
  <2> QED
    BY <1>5, <2>1, <2>2
<1>11. source_sequences' \in [Sources -> Nat \cup {NoSequence}]
  BY <1>0, <1>3, <1>5 DEF TypeOK
<1>12. TypeOK'
  <2>1. OpOK(r)
    BY <1>2 DEF OpOK, Stages
  <2>2. \A x \in Clients : OpOK(op[x])
    BY <1>0 DEF TypeOK
  <2>3. \A x \in Clients : OpOK(op'[x])
    BY <1>6, <2>1, <2>2
  <2>4. (\A x \in Clients : OpOK(op[x]))'
    BY <2>3 DEF OpOK
  <2>5. LifecycleTypeOK'
    BY <1>0, <1>5 DEF TypeOK, LifecycleTypeOK, lifecycle_vars
  <2>6. accepted_batches' \in Nat /\ last_received' \in Nat
    BY <1>0, <1>2, <1>5 DEF TypeOK
  <2>7. /\ model' \in Models /\ generation' \in Nat /\ changing' \in BOOLEAN
        /\ context_generation' \in Nat /\ rejected_batches' \in Nat
        /\ clock' \in Nat \ {0} /\ requests' \in Nat
    BY <1>0, <1>5 DEF TypeOK, model_vars
  <2> QED
    BY <1>6, <1>9, <1>10, <1>11, <2>4, <2>5, <2>6, <2>7 DEF TypeOK
<1>13. RecordsOK'
  <2>1. applied \subseteq applied'
    BY <1>5
  <2>2. \A x \in Clients \ {a} : RecordOK(op[x])'
    BY <1>0, <1>6, <2>1 DEF RecordsOK, RecordOK
  <2>3. RecordOK(op[a])'
    BY <1>6 DEF RecordOK
  <2> QED
    BY <2>2, <2>3 DEF RecordsOK
<1>14. StoreFollows'
  <2>1. (\A t \in Tags : values[t] # NoSample => values[t].generation = context_generation)'
    BY <1>0, <1>4, <1>5 DEF StoreFollows
  <2>2. (last_received # 0 => \E c \in applied : c.generation = context_generation)'
    <3>1. key.generation = context_generation' /\ key \in applied'
      BY <1>4, <1>5
    <3> QED
      BY <3>1
  <2>3. (\A c \in applied :
          /\ c.generation <= context_generation
          /\ c.generation = context_generation => c.sequence <= source_sequences[c.source])'
    <3> SUFFICES ASSUME NEW c \in applied'
                 PROVE  /\ c.generation <= context_generation
                        /\ c.generation = context_generation => c.sequence <= source_sequences'[c.source]
      BY <1>5
    <3>0. source_sequences \in [Sources -> Nat \cup {-1}] /\ context_generation \in Nat
      BY <1>0 DEF TypeOK, NoSequence
    <3>1. CASE c = key
      <4>1. key.generation = g /\ key.source = b.source /\ key.sequence = b.sequence
        OBVIOUS
      <4>2. source_sequences'[b.source] = b.sequence
        BY <1>3, <1>5, <3>0
      <4> QED
        BY <1>2, <1>3, <1>4, <3>1, <4>1, <4>2
    <3>2. CASE c \in applied
      <4>1. c \in Applied
        BY <1>0, <3>2 DEF TypeOK
      <4>2. c.source \in Sources /\ c.sequence \in Nat /\ c.generation \in Nat
        BY <4>1 DEF Applied
      <4>3. /\ c.generation <= context_generation
            /\ c.generation = context_generation => c.sequence <= source_sequences[c.source]
        BY <1>0, <3>2 DEF StoreFollows
      <4>4. CASE c.source = b.source
        <5>1. source_sequences[b.source] \in Nat \cup {-1} /\ source_sequences'[b.source] = b.sequence
          BY <1>3, <1>5, <3>0
        <5> QED
          BY <1>3, <1>4, <4>2, <4>3, <4>4, <5>1
      <4>5. CASE c.source # b.source
        <5>1. source_sequences'[c.source] = source_sequences[c.source]
          BY <1>5, <3>0, <4>2, <4>5
        <5> QED
          BY <4>3, <5>1
      <4> QED
        BY <4>4, <4>5
    <3> QED
      BY <1>5, <3>1, <3>2
  <2>4. (\A x \in Clients : op[x].stage = "reporting" /\ op[x].source =>
          \E c \in applied : c.generation = op[x].generation)'
    BY <1>13 DEF RecordsOK, RecordOK
  <2>5. (context_generation <= generation /\ (changing => context_generation < generation))'
    BY <1>0, <1>5 DEF StoreFollows, model_vars
  <2> QED
    BY <2>1, <2>2, <2>3, <2>4, <2>5 DEF StoreFollows
<1>15. BatchesAppliedOnce'
  BY <1>0, <1>5, <1>9 DEF BatchesAppliedOnce
<1> QED
  BY <1>12, <1>13, <1>14, <1>15 DEF StoreInv

(* apply_model_change: the model runs ahead, the store forgets everything  *)
(* when it follows.                                                        *)
LEMMA ModelSteps ==
  ASSUME StoreInv, (\E m \in Models : ReplaceModel(m)) \/ Reconfigure
  PROVE  StoreInv'
<1>0. TypeOK /\ StoreFollows /\ RecordsOK /\ BatchesAppliedOnce
  BY DEF StoreInv
<1>1. ASSUME NEW m \in Models, ReplaceModel(m) PROVE StoreInv'
  <2>1. /\ model' = m /\ generation' = generation + 1 /\ changing' = TRUE /\ ~changing
        /\ UNCHANGED <<machine, phase, step, values, source_sequences, context_generation,
                       last_received, accepted_batches, rejected_batches, applied,
                       clock, requests, op>>
    BY <1>1 DEF ReplaceModel, lifecycle_vars, store_vars
  <2>2. TypeOK'
    <3>1. generation' \in Nat /\ changing' \in BOOLEAN /\ model' \in Models
      BY <1>0, <1>1, <2>1 DEF TypeOK
    <3>2. LifecycleTypeOK' /\ (\A a \in Clients : OpOK(op[a]))'
      BY <1>0, <2>1 DEF TypeOK, LifecycleTypeOK, OpOK
    <3> QED
      BY <1>0, <2>1, <3>1, <3>2 DEF TypeOK
  <2>3. StoreFollows'
    <3>1. context_generation' <= generation' /\ context_generation' < generation'
      BY <1>0, <2>1 DEF StoreFollows, TypeOK
    <3> QED
      BY <1>0, <2>1, <3>1 DEF StoreFollows
  <2>4. RecordsOK' /\ BatchesAppliedOnce'
    BY <1>0, <2>1 DEF RecordsOK, RecordOK, BatchesAppliedOnce
  <2> QED
    BY <2>2, <2>3, <2>4 DEF StoreInv
<1>2. CASE Reconfigure
  <2>1. /\ changing /\ changing' = FALSE /\ last_received' = 0
        /\ values' = [t \in Tags |-> NoSample]
        /\ source_sequences' = [s \in Sources |-> NoSequence]
        /\ context_generation' = generation
        /\ UNCHANGED <<machine, phase, step, model, generation, accepted_batches,
                       rejected_batches, applied, clock, requests, op>>
    BY <1>2 DEF Reconfigure, lifecycle_vars
  <2>2. TypeOK'
    <3>1. /\ values' \in [Tags -> Sample \cup {NoSample}]
          /\ source_sequences' \in [Sources -> Nat \cup {NoSequence}]
      BY <2>1
    <3>2. LifecycleTypeOK' /\ (\A a \in Clients : OpOK(op[a]))'
      BY <1>0, <2>1 DEF TypeOK, LifecycleTypeOK, OpOK
    <3>3. changing' \in BOOLEAN /\ last_received' \in Nat /\ context_generation' \in Nat
      BY <1>0, <2>1 DEF TypeOK
    <3> QED
      BY <1>0, <2>1, <3>1, <3>2, <3>3 DEF TypeOK
  <2>3. StoreFollows'
    <3>1. context_generation \in Nat /\ generation \in Nat /\ context_generation < generation
      BY <1>0, <2>1 DEF StoreFollows, TypeOK
    <3>2. \A c \in applied : c.generation \in Nat /\ c.generation < generation
      <4> SUFFICES ASSUME NEW c \in applied PROVE c.generation \in Nat /\ c.generation < generation
        OBVIOUS
      <4>1. c.generation \in Nat
        BY <1>0 DEF TypeOK, Applied
      <4>2. c.generation <= context_generation
        BY <1>0 DEF StoreFollows
      <4> QED
        BY <3>1, <4>1, <4>2
    <3>3. (\A c \in applied :
            /\ c.generation <= context_generation
            /\ c.generation = context_generation => c.sequence <= source_sequences[c.source])'
      BY <2>1, <3>1, <3>2
    <3>4. (\A a \in Clients : op[a].stage = "reporting" /\ op[a].source =>
            \E c \in applied : c.generation = op[a].generation)'
      BY <1>0, <2>1 DEF StoreFollows
    <3> QED
      BY <2>1, <3>1, <3>3, <3>4 DEF StoreFollows
  <2>4. RecordsOK' /\ BatchesAppliedOnce'
    BY <1>0, <2>1 DEF RecordsOK, RecordOK, BatchesAppliedOnce
  <2> QED
    BY <2>2, <2>3, <2>4 DEF StoreInv
<1> QED
  BY <1>1, <1>2

(* A lifecycle step keeps the types of the machines.                       *)
LEMMA LifecycleStepType ==
  ASSUME LifecycleTypeOK, ShutdownInOrder, LifecycleStep \/ JoinWorkers
  PROVE  LifecycleTypeOK'
<1> USE DEF LifecycleTypeOK, Machines, States, Phases, Joining
<1>1. CASE StartModel
  BY <1>1 DEF StartModel
<1>2. CASE StartStore
  BY <1>2 DEF StartStore
<1>3. CASE StartServing
  <2>1. machine' \in [Machines -> States]
    BY <1>3 DEF StartServing
  <2> QED
    BY <1>3, <2>1 DEF StartServing
<1>4. CASE BeginShutdown
  BY <1>4 DEF BeginShutdown
<1>5. CASE AnnounceStopping
  <2>1. Order[step] \in Machines /\ step + 1 \in 0..10
    BY <1>5 DEF AnnounceStopping, Order, ShutdownInOrder
  <2> QED
    BY <1>5, <2>1 DEF AnnounceStopping, ShutdownMoves, ShutdownSkips
<1>6. CASE AnnounceStopped
  BY <1>6 DEF AnnounceStopped, ShutdownMoves, ShutdownSkips
<1>7. CASE ShutdownReturns
  BY <1>7 DEF ShutdownReturns
<1>8. CASE JoinWorkers
  BY <1>8 DEF JoinWorkers
<1> QED
  BY <1>1, <1>2, <1>3, <1>4, <1>5, <1>6, <1>7, <1>8 DEF LifecycleStep

(* The clock, the lifecycle and the stuttering step leave the store alone. *)
LEMMA QuietSteps ==
  ASSUME StoreInv, ShutdownInOrder, Tick \/ Drain \/ StartOrStop \/ UNCHANGED vars
  PROVE  StoreInv'
<1>0. TypeOK /\ StoreFollows /\ RecordsOK /\ BatchesAppliedOnce /\ LifecycleTypeOK
  BY DEF StoreInv, TypeOK
<1>1. /\ UNCHANGED <<model, generation, changing, values, source_sequences, context_generation,
                     last_received, accepted_batches, rejected_batches, applied, requests, op>>
      /\ clock' \in Nat \ {0}
  BY <1>0 DEF Tick, Drain, StartOrStop, vars, model_vars, store_vars, TypeOK
<1>2. LifecycleTypeOK'
  <2>1. CASE Drain \/ StartOrStop
    BY <1>0, <2>1, LifecycleStepType DEF Drain, StartOrStop
  <2>2. CASE Tick \/ UNCHANGED vars
    BY <1>0, <2>2 DEF Tick, vars, lifecycle_vars, LifecycleTypeOK
  <2> QED
    BY <2>1, <2>2
<1>3. (\A a \in Clients : OpOK(op[a]))'
  BY <1>0, <1>1 DEF TypeOK, OpOK
<1>4. TypeOK'
  BY <1>0, <1>1, <1>2, <1>3 DEF TypeOK
<1>5. StoreFollows' /\ RecordsOK' /\ BatchesAppliedOnce'
  BY <1>0, <1>1 DEF StoreFollows, RecordsOK, RecordOK, BatchesAppliedOnce
<1> QED
  BY <1>4, <1>5 DEF StoreInv

(* Every step keeps the invariant of the store.                            *)
LEMMA StoreNext == StoreInv /\ ShutdownInOrder /\ [Next]_vars => StoreInv'
<1> SUFFICES ASSUME StoreInv, ShutdownInOrder, [Next]_vars PROVE StoreInv'
  OBVIOUS
<1>1. ASSUME NEW a \in Clients, Begin(a) \/ Continue(a) PROVE StoreInv'
  BY <1>1, IngestSteps, CommitStep, AfterCommit, SnapshotSteps, ReadinessSteps
     DEF Begin, Continue
<1>2. ASSUME NEW m \in Models, ReplaceModel(m) PROVE StoreInv'
  BY <1>2, ModelSteps
<1>3. CASE Reconfigure
  BY <1>3, ModelSteps
<1>4. CASE Tick \/ Drain \/ StartOrStop \/ UNCHANGED vars
  BY <1>4, QuietSteps
<1> QED
  BY <1>1, <1>2, <1>3, <1>4 DEF Next
-----------------------------------------------------------------------------
(* The lifecycle machines.                                                 *)

(* What a request may do to the machines: move the source or the provider  *)
(* where the table lets it.                                                *)
RequestMoves ==
  /\ \E m \in {"source", "provider"}, next \in {"ready", "degraded"} :
       CanMove(m, next) /\ machine' = [machine EXCEPT ![m] = next]
  /\ UNCHANGED <<phase, step>>

(* Every step of the system is one of the runtime's own, a move by a       *)
(* request, or leaves the machines alone.                                  *)
LEMMA MachineSteps ==
  ASSUME [Next]_vars
  PROVE  LifecycleStep \/ JoinWorkers \/ RequestMoves \/ UNCHANGED <<machine, phase, step>>
<1> USE DEF lifecycle_vars
<1>1. ASSUME NEW a \in Clients, Begin(a)
      PROVE  UNCHANGED <<machine, phase, step>>
  BY <1>1 DEF Begin, BeginIngest, BeginSnapshot, BeginReadiness
<1>2. ASSUME NEW a \in Clients, Continue(a)
      PROVE  RequestMoves \/ UNCHANGED <<machine, phase, step>>
  <2>1. CASE AnnounceSource(a)
    BY <2>1 DEF AnnounceSource, RequestMoves
  <2>2. CASE ProbeProvider(a)
    <3>1. PICK ready \in (IF ProviderConfigured THEN BOOLEAN ELSE {TRUE}) :
            LET next == IF ready THEN "ready" ELSE "degraded"
            IN IF CanMove("provider", next)
               THEN machine' = [machine EXCEPT !["provider"] = next]
               ELSE UNCHANGED machine
      BY <2>2 DEF ProbeProvider, ProviderReadiness
    <3> QED
      BY <2>2, <3>1 DEF ProbeProvider, ProviderReadiness, RequestMoves
  <2>3. CASE ReportReadiness(a)
    BY <2>3 DEF ReportReadiness, RequestMoves
  <2> QED
    BY <1>2, <2>1, <2>2, <2>3
       DEF Continue, ValidateBatch, CommitBatch, RefuseCommit, RejectBatch,
           RecheckGeneration, ReadClock, ServeSnapshot, LoadGeneration, QueryStore
<1>3. ASSUME NEW m \in Models, ReplaceModel(m) PROVE UNCHANGED <<machine, phase, step>>
  BY <1>3 DEF ReplaceModel
<1>4. CASE Reconfigure \/ Tick \/ UNCHANGED vars
  BY <1>4 DEF Reconfigure, Tick, vars
<1>5. CASE Drain \/ StartOrStop
  BY <1>5 DEF Drain, StartOrStop
<1> QED
  BY <1>1, <1>2, <1>3, <1>4, <1>5 DEF Next

(* The initial states.                                                     *)
LEMMA LifecycleInitial == Init => LifecycleInv
BY DEF Init, LifecycleInit, LifecycleInv, LifecycleTypeOK, ShutdownInOrder,
       ShutdownIsOrderly, Machines, States, Phases, Joining

(* A request moves no machine that a shutdown has announced.               *)
LEMMA RequestMovesOrderly ==
  ASSUME LifecycleInv, RequestMoves
  PROVE  LifecycleInv'
<1>0. LifecycleTypeOK /\ ShutdownInOrder /\ ShutdownIsOrderly
  BY DEF LifecycleInv
<1>1. PICK m \in {"source", "provider"}, next \in {"ready", "degraded"} :
        CanMove(m, next) /\ machine' = [machine EXCEPT ![m] = next]
  BY DEF RequestMoves
<1>2. UNCHANGED <<phase, step>> /\ m \in Machines /\ next \in States
  BY DEF RequestMoves, Machines, States
<1>3. machine[m] \notin {"stopping", "stopped"}
  BY <1>0, <1>1 DEF CanMove, Allowed, Successors, LifecycleTypeOK, States
<1>4. LifecycleTypeOK'
  BY <1>0, <1>1, <1>2, MovedType
<1>5. \A x \in Machines : x # m => machine'[x] = machine[x]
  BY <1>0, <1>1 DEF LifecycleTypeOK
<1>6. machine'[m] = next
  BY <1>0, <1>1, <1>2 DEF LifecycleTypeOK
<1>7. ShutdownIsOrderly'
  <2>1. phase = "stopped" => FALSE
    BY <1>0, <1>1, <1>2, <1>3 DEF ShutdownIsOrderly, StoreSkipped
  <2> QED
    BY <1>0, <1>2, <2>1 DEF ShutdownIsOrderly
<1>8. ShutdownInOrder'
  <2>1. phase = "stopping" => \A i \in 1..4 : Order[i] = m => step <= i
    <3> SUFFICES ASSUME phase = "stopping", NEW i \in 1..4, Order[i] = m PROVE step <= i
      OBVIOUS
    <3>1. step \in Nat
      BY <1>0 DEF LifecycleTypeOK, Joining
    <3>2. StoreSkipped(m) = {}
      BY <1>1 DEF StoreSkipped
    <3> QED
      BY <1>0, <1>3, <3>1, <3>2 DEF ShutdownInOrder, Joining
  <2>2. \A i \in 1..4 : Order[i] \in Machines
    BY DEF Order, Machines
  <2>3. step \in Nat
    BY <1>0 DEF LifecycleTypeOK, Joining
  <2>4. (phase \notin {"stopping", "stopped"} => \A x \in Machines : machine[x] # "stopped")'
    BY <1>0, <1>2, <1>5, <1>6 DEF ShutdownInOrder
  <2>5. ASSUME phase = "stopping", NEW i \in 1..4
        PROVE  (/\ step <= i => machine[Order[i]] # "stopped"
                /\ (i < step /\ step <= Joining + i) =>
                     machine[Order[i]] \in {"stopping"} \cup StoreSkipped(Order[i])
                /\ step > Joining + i =>
                     machine[Order[i]] \in {"stopped"} \cup StoreSkipped(Order[i]))'
    <3>1. CASE Order[i] = m
      <4>1. step <= i
        BY <2>1, <2>5, <3>1
      <4> QED
        BY <1>1, <1>2, <1>6, <2>3, <3>1, <4>1 DEF Joining
    <3>2. CASE Order[i] # m
      BY <1>0, <1>2, <1>5, <2>2, <2>5, <3>2 DEF ShutdownInOrder, StoreSkipped
    <3> QED
      BY <3>1, <3>2
  <2> QED
    BY <1>0, <1>2, <2>4, <2>5 DEF ShutdownInOrder
<1> QED
  BY <1>4, <1>7, <1>8 DEF LifecycleInv

(* Neither does a step of start() or shutdown(): each finds the machine it *)
(* moves where the table lets it move.                                     *)
LEMMA RuntimeStepsOrderly ==
  ASSUME LifecycleInv, LifecycleStep \/ JoinWorkers
  PROVE  ShutdownInOrder' /\ ShutdownIsOrderly'
<1>0. /\ machine \in [Machines -> States] /\ step \in 0..10 /\ phase \in Phases
      /\ ShutdownInOrder /\ ShutdownIsOrderly
  BY DEF LifecycleInv, LifecycleTypeOK, Joining
<1>1. /\ Order[1] = "service" /\ Order[2] = "source" /\ Order[3] = "provider"
      /\ Order[4] = "store" /\ \A i \in 1..4 : Order[i] \in Machines
      /\ \A i, j \in 1..4 : Order[i] = Order[j] => i = j
      /\ \A x \in Machines : \E i \in 1..4 : x = Order[i]
  BY DEF Order, Machines
<1>2. CASE StartModel \/ StartStore \/ StartServing
  <2>1. /\ phase \notin {"stopping", "stopped"}
        /\ phase' \notin {"stopping", "stopped", "aborted"}
        /\ UNCHANGED step
    BY <1>2 DEF StartModel, StartStore, StartServing
  <2>2. \A x \in Machines : machine'[x] # "stopped"
    BY <1>0, <1>2, <2>1 DEF StartModel, StartStore, StartServing, ShutdownInOrder, Machines
  <2> QED
    BY <2>1, <2>2 DEF ShutdownInOrder, ShutdownIsOrderly
<1>3. CASE BeginShutdown
  <2>1. \A x \in Machines : machine[x] # "stopped"
    BY <1>0, <1>3 DEF BeginShutdown, ShutdownInOrder
  <2> QED
    BY <1>1, <1>3, <2>1 DEF BeginShutdown, ShutdownInOrder, ShutdownIsOrderly, Joining
<1>4. CASE AnnounceStopping
  <2> DEFINE m == Order[step]
  <2>1. phase = "stopping" /\ step \in 1..4
    BY <1>0, <1>4 DEF AnnounceStopping, ShutdownInOrder, Joining
  <2>2. machine[m] # "stopped" /\ m \in Machines /\ machine[m] \in States
    BY <1>0, <1>1, <2>1 DEF ShutdownInOrder
  <2>3. CanMove(m, "stopping")
    BY <2>2 DEF CanMove, Allowed, Successors, States
  <2>4. /\ step' = step + 1 /\ UNCHANGED phase
        /\ \A x \in Machines : x # m => machine'[x] = machine[x]
        /\ machine'[m] \in {"stopping"} \cup StoreSkipped(m)
    <3>1. CASE m = "store" /\ machine[m] \in {"disabled", "failed"}
      BY <1>4, <3>1 DEF AnnounceStopping, ShutdownSkips, StoreSkipped
    <3>2. CASE ~(m = "store" /\ machine[m] \in {"disabled", "failed"})
      BY <1>0, <1>4, <2>2, <2>3, <3>2 DEF AnnounceStopping, ShutdownMoves
    <3> QED
      BY <3>1, <3>2
  <2>5. ASSUME NEW i \in 1..4
        PROVE  (/\ step <= i => machine[Order[i]] # "stopped"
                /\ (i < step /\ step <= Joining + i) =>
                     machine[Order[i]] \in {"stopping"} \cup StoreSkipped(Order[i])
                /\ step > Joining + i =>
                     machine[Order[i]] \in {"stopped"} \cup StoreSkipped(Order[i]))'
    <3>1. CASE i = step
      BY <2>1, <2>4, <3>1 DEF Joining, StoreSkipped
    <3>2. CASE i # step
      <4>1. machine'[Order[i]] = machine[Order[i]]
        BY <1>1, <2>1, <2>4, <3>2
      <4> QED
        BY <1>0, <2>1, <2>4, <3>2, <4>1 DEF ShutdownInOrder, Joining, StoreSkipped
    <3> QED
      BY <3>1, <3>2
  <2> QED
    BY <2>1, <2>4, <2>5 DEF ShutdownInOrder, ShutdownIsOrderly
<1>5. CASE AnnounceStopped
  <2> DEFINE k == step - Joining
             m == Order[k]
  <2>1. phase = "stopping" /\ k \in 1..4 /\ step = 5 + k
    BY <1>0, <1>5 DEF AnnounceStopped, Joining
  <2>2. m \in Machines /\ machine[m] \in {"stopping"} \cup StoreSkipped(m)
    BY <1>0, <1>1, <2>1 DEF ShutdownInOrder, Joining
  <2>3. /\ step' = step + 1 /\ UNCHANGED phase
        /\ \A x \in Machines : x # m => machine'[x] = machine[x]
        /\ machine'[m] \in {"stopped"} \cup StoreSkipped(m)
    <3>1. CASE m = "store" /\ machine[m] # "stopping"
      BY <1>5, <2>2, <3>1 DEF AnnounceStopped, ShutdownSkips, StoreSkipped
    <3>2. CASE ~(m = "store" /\ machine[m] # "stopping")
      <4>1. machine[m] = "stopping"
        BY <2>2, <3>2 DEF StoreSkipped
      <4>2. CanMove(m, "stopped")
        BY <4>1 DEF CanMove, Allowed, Successors
      <4> QED
        BY <1>0, <1>5, <2>2, <3>2, <4>2 DEF AnnounceStopped, ShutdownMoves
    <3> QED
      BY <3>1, <3>2
  <2>4. ASSUME NEW i \in 1..4
        PROVE  (/\ step <= i => machine[Order[i]] # "stopped"
                /\ (i < step /\ step <= Joining + i) =>
                     machine[Order[i]] \in {"stopping"} \cup StoreSkipped(Order[i])
                /\ step > Joining + i =>
                     machine[Order[i]] \in {"stopped"} \cup StoreSkipped(Order[i]))'
    <3>1. CASE i = k
      BY <2>1, <2>3, <3>1 DEF Joining, StoreSkipped
    <3>2. CASE i # k
      <4>1. machine'[Order[i]] = machine[Order[i]]
        BY <1>1, <2>1, <2>3, <3>2
      <4> QED
        BY <1>0, <2>1, <2>3, <3>2, <4>1 DEF ShutdownInOrder, Joining, StoreSkipped
    <3> QED
      BY <3>1, <3>2
  <2> QED
    BY <1>0, <2>1, <2>3, <2>4 DEF ShutdownInOrder, ShutdownIsOrderly
<1>6. CASE ShutdownReturns
  <2>1. \A i \in 1..4 : machine[Order[i]] \in {"stopped"} \cup StoreSkipped(Order[i])
    BY <1>0, <1>6 DEF ShutdownReturns, ShutdownInOrder, Joining
  <2>2. \A x \in Machines : machine[x] \in {"stopped"} \cup StoreSkipped(x)
    BY <1>1, <2>1
  <2> QED
    BY <1>6, <2>2 DEF ShutdownReturns, ShutdownInOrder, ShutdownIsOrderly, StoreSkipped
<1>7. CASE JoinWorkers
  <2>1. phase = "stopping" /\ step = 5 /\ step' = 6 /\ UNCHANGED <<machine, phase>>
    BY <1>7 DEF JoinWorkers, Joining
  <2> QED
    BY <1>0, <2>1 DEF ShutdownInOrder, ShutdownIsOrderly, Joining, StoreSkipped
<1> QED
  BY <1>2, <1>3, <1>4, <1>5, <1>6, <1>7 DEF LifecycleStep

(* Every step keeps the invariant of the machines.                         *)
LEMMA LifecycleNext == LifecycleInv /\ [Next]_vars => LifecycleInv'
<1> SUFFICES ASSUME LifecycleInv, [Next]_vars PROVE LifecycleInv'
  OBVIOUS
<1>1. CASE LifecycleStep \/ JoinWorkers
  BY <1>1, LifecycleStepType, RuntimeStepsOrderly DEF LifecycleInv
<1>2. CASE RequestMoves
  BY <1>2, RequestMovesOrderly
<1>3. CASE UNCHANGED <<machine, phase, step>>
  BY <1>3 DEF LifecycleInv, LifecycleTypeOK, ShutdownInOrder, ShutdownIsOrderly, StoreSkipped
<1> QED
  BY <1>1, <1>2, <1>3, MachineSteps
-----------------------------------------------------------------------------
(* The theorems.                                                           *)

(* Every value has its type, whatever requests carry across model changes. *)
THEOREM StoreTypeCorrect == Spec => []TypeOK
<1>1. StoreInv => TypeOK
  BY DEF StoreInv
<1>2. LifecycleInv => ShutdownInOrder
  BY DEF LifecycleInv
<1> QED
  BY <1>1, <1>2, StoreInit, StoreNext, LifecycleInitial, LifecycleNext, PTL DEF Spec

(* telemetry() shows only values of the generation that it names.          *)
THEOREM SnapshotsCurrent == Spec => []ServedValuesAreCurrent
<1>1. StoreInv => ServedValuesAreCurrent
  BY DEF StoreInv, RecordsOK, RecordOK, ServedValuesAreCurrent
<1>2. LifecycleInv => ShutdownInOrder
  BY DEF LifecycleInv
<1> QED
  BY <1>1, <1>2, StoreInit, StoreNext, LifecycleInitial, LifecycleNext, PTL DEF Spec

(* The store applies no batch twice, across reconfigurations too.          *)
THEOREM AppliedOnce == Spec => []BatchesAppliedOnce
<1>1. StoreInv => BatchesAppliedOnce
  BY DEF StoreInv
<1>2. LifecycleInv => ShutdownInOrder
  BY DEF LifecycleInv
<1> QED
  BY <1>1, <1>2, StoreInit, StoreNext, LifecycleInitial, LifecycleNext, PTL DEF Spec

(* readiness() calls the source ready only on account of the generation it *)
(* asked about.                                                            *)
THEOREM ReadinessCurrent == Spec => []ReadinessIsCurrent
<1>1. StoreInv => ReadinessIsCurrent
  BY DEF StoreInv, RecordsOK, RecordOK, ReadinessIsCurrent
<1>2. LifecycleInv => ShutdownInOrder
  BY DEF LifecycleInv
<1> QED
  BY <1>1, <1>2, StoreInit, StoreNext, LifecycleInitial, LifecycleNext, PTL DEF Spec

(* No transition of shutdown() is illegal, and it leaves every machine     *)
(* stopped that was ever started.                                          *)
THEOREM ShutdownOrderly == Spec => []ShutdownIsOrderly
<1>1. LifecycleInv => ShutdownIsOrderly
  BY DEF LifecycleInv
<1> QED
  BY <1>1, LifecycleInitial, LifecycleNext, PTL DEF Spec
-----------------------------------------------------------------------------
(* ValuesNeverGoBack needs one more invariant: a value that is shown has   *)
(* no higher sequence than the last one of its source.                     *)
ValuesBounded ==
  \A t \in Tags : values[t] # NoSample => values[t].sequence <= source_sequences[values[t].source]

(* Only a commit and a reconfiguration touch the values.                   *)
LEMMA StoreWrites ==
  ASSUME [Next]_vars
  PROVE  \/ \E a \in Clients : CommitBatch(a)
         \/ Reconfigure
         \/ UNCHANGED <<values, source_sequences, context_generation>>
<1> USE DEF store_vars
<1>1. ASSUME NEW a \in Clients, Begin(a) \/ Continue(a), ~CommitBatch(a)
      PROVE  UNCHANGED <<values, source_sequences, context_generation>>
  BY <1>1 DEF Begin, BeginIngest, BeginSnapshot, BeginReadiness, Continue, ValidateBatch,
              RefuseCommit, RejectBatch, RecheckGeneration, AnnounceSource, ReadClock,
              ServeSnapshot, ProbeProvider, ProviderReadiness, LoadGeneration, QueryStore, ReportReadiness
<1>2. ASSUME NEW m \in Models, ReplaceModel(m)
      PROVE  UNCHANGED <<values, source_sequences, context_generation>>
  BY <1>2 DEF ReplaceModel
<1>3. CASE Tick \/ Drain \/ StartOrStop \/ UNCHANGED vars
  BY <1>3 DEF Tick, Drain, StartOrStop, vars
<1> QED
  BY <1>1, <1>2, <1>3 DEF Next

(* What a commit does to one tag.                                          *)
LEMMA CommitTag ==
  ASSUME StoreInv, ValuesBounded, NEW a \in Clients, CommitBatch(a), NEW t \in Tags
  PROVE  LET b == op[a].batch
         IN /\ b.source \in Sources /\ b.sequence \in Nat
            /\ source_sequences[b.source] < b.sequence
            /\ source_sequences' = [source_sequences EXCEPT ![b.source] = b.sequence]
            /\ \/ values'[t] = values[t]
               \/ /\ values'[t] \in Sample
                  /\ values'[t].source = b.source /\ values'[t].sequence = b.sequence
<1> DEFINE b == op[a].batch
           g == op[a].generation
<1>1. /\ op[a].stage = "committing" /\ b \in Batches /\ b.sequence > source_sequences[b.source]
      /\ \A u \in DOMAIN b.values : ValidReading(b.values[u])
      /\ g \in Nat /\ op[a].received \in Nat
      /\ source_sequences \in [Sources -> Nat \cup {-1}]
  BY DEF CommitBatch, Commits, StoreInv, TypeOK, OpOK, NoSequence
<1>2. /\ b.source \in Sources /\ b.sequence \in Nat
      /\ \A u \in DOMAIN b.values : b.values[u] \in Reading
  BY <1>1, BatchFacts
<1>3. source_sequences' = [source_sequences EXCEPT ![b.source] = b.sequence]
  BY DEF CommitBatch
<1>4. CASE t \in DOMAIN b.values
  <2>1. values'[t] = [value |-> b.values[t].value, quality |-> b.values[t].quality,
                      received |-> op[a].received, source |-> b.source,
                      sequence |-> b.sequence, generation |-> g]
    BY <1>4 DEF CommitBatch
  <2>2. b.values[t].value \in Values /\ b.values[t].quality \in Qualities
    BY <1>1, <1>2, <1>4 DEF ValidReading, Reading
  <2>3. values'[t] \in Sample
    BY <1>1, <1>2, <2>1, <2>2 DEF Sample
  <2> QED
    BY <1>1, <1>2, <1>3, <2>1, <2>3
<1>5. CASE t \notin DOMAIN b.values
  <2>1. values'[t] = values[t]
    BY <1>5 DEF CommitBatch
  <2> QED
    BY <1>1, <1>2, <1>3, <2>1
<1> QED
  BY <1>4, <1>5

(* The bound is kept.                                                      *)
LEMMA BoundedNext == StoreInv /\ ValuesBounded /\ [Next]_vars => ValuesBounded'
<1> SUFFICES ASSUME StoreInv, ValuesBounded, [Next]_vars PROVE ValuesBounded'
  OBVIOUS
<1>0. /\ values \in [Tags -> Sample \cup {NoSample}]
      /\ source_sequences \in [Sources -> Nat \cup {-1}]
  BY DEF StoreInv, TypeOK, NoSequence
<1>1. ASSUME NEW a \in Clients, CommitBatch(a) PROVE ValuesBounded'
  <2> SUFFICES ASSUME NEW t \in Tags, values'[t] # NoSample
               PROVE  values'[t].sequence <= source_sequences'[values'[t].source]
    BY DEF ValuesBounded
  <2> DEFINE b == op[a].batch
  <2>1. /\ b.source \in Sources /\ b.sequence \in Nat
        /\ source_sequences[b.source] < b.sequence
        /\ source_sequences' = [source_sequences EXCEPT ![b.source] = b.sequence]
        /\ \/ values'[t] = values[t]
           \/ values'[t].source = b.source /\ values'[t].sequence = b.sequence
    BY <1>1, CommitTag
  <2>2. CASE values'[t].source = b.source /\ values'[t].sequence = b.sequence
    BY <1>0, <2>1, <2>2
  <2>3. CASE values'[t] = values[t]
    <3>1. values[t] \in Sample
      BY <1>0, <2>3
    <3>2. values[t].source \in Sources /\ values[t].sequence \in Nat
      BY <3>1 DEF Sample
    <3>3. values[t].sequence <= source_sequences[values[t].source]
      BY <2>3 DEF ValuesBounded
    <3>4. source_sequences[values[t].source] <= source_sequences'[values[t].source]
      <4>1. CASE values[t].source = b.source
        BY <1>0, <2>1, <4>1
      <4>2. CASE values[t].source # b.source
        BY <1>0, <2>1, <3>2, <4>2
      <4> QED
        BY <4>1, <4>2
    <3>5. /\ source_sequences[values[t].source] \in Int
          /\ source_sequences'[values[t].source] \in Int
      BY <1>0, <2>1, <3>2
    <3> QED
      BY <2>3, <3>2, <3>3, <3>4, <3>5
  <2> QED
    BY <2>1, <2>2, <2>3
<1>2. CASE Reconfigure
  BY <1>2 DEF Reconfigure, ValuesBounded
<1>3. CASE UNCHANGED <<values, source_sequences, context_generation>>
  BY <1>3 DEF ValuesBounded
<1> QED
  BY <1>1, <1>2, <1>3, StoreWrites

(* ingest() never replaces a value by an older one of the same source      *)
(* while the store follows one generation.                                 *)
THEOREM NeverBack == Spec => ValuesNeverGoBack
<1> DEFINE Step == \A t \in Tags :
             (values[t] # NoSample /\ context_generation' = context_generation)
             => /\ values'[t] # NoSample
                /\ values'[t].source = values[t].source =>
                     values'[t].sequence >= values[t].sequence
<1>1. StoreInv /\ ValuesBounded /\ [Next]_vars => [Step]_vars
  <2> SUFFICES ASSUME StoreInv, ValuesBounded, [Next]_vars, NEW t \in Tags,
                      values[t] # NoSample, context_generation' = context_generation
               PROVE  /\ values'[t] # NoSample
                      /\ values'[t].source = values[t].source =>
                           values'[t].sequence >= values[t].sequence
    OBVIOUS
  <2>1. /\ values[t] \in Sample
        /\ source_sequences \in [Sources -> Nat \cup {-1}]
    BY DEF StoreInv, TypeOK, NoSequence
  <2>2. values[t].sequence \in Nat /\ values[t].source \in Sources
    BY <2>1 DEF Sample
  <2>3. ASSUME NEW a \in Clients, CommitBatch(a)
        PROVE  /\ values'[t] # NoSample
               /\ values'[t].source = values[t].source =>
                    values'[t].sequence >= values[t].sequence
    <3> DEFINE b == op[a].batch
    <3>1. /\ b.source \in Sources /\ b.sequence \in Nat
          /\ source_sequences[b.source] < b.sequence
          /\ \/ values'[t] = values[t]
             \/ /\ values'[t] \in Sample
                /\ values'[t].source = b.source /\ values'[t].sequence = b.sequence
      BY <2>3, CommitTag
    <3>2. CASE values'[t] = values[t]
      BY <2>2, <3>2
    <3>3. CASE /\ values'[t] \in Sample
               /\ values'[t].source = b.source /\ values'[t].sequence = b.sequence
      <4>1. values'[t] # NoSample
        BY <3>3, TelemetryAssumption
      <4>2. ASSUME values[t].source = b.source PROVE b.sequence >= values[t].sequence
        <5>1. values[t].sequence <= source_sequences[b.source]
          BY <4>2 DEF ValuesBounded
        <5>2. source_sequences[b.source] \in Int
          BY <2>1, <3>1
        <5> QED
          BY <2>2, <3>1, <5>1, <5>2
      <4> QED
        BY <3>3, <4>1, <4>2
    <3> QED
      BY <3>1, <3>2, <3>3
  <2>4. ~Reconfigure
    <3>1. changing => context_generation < generation
      BY DEF StoreInv, StoreFollows
    <3>2. context_generation \in Nat /\ generation \in Nat
      BY DEF StoreInv, TypeOK
    <3> QED
      BY <3>1, <3>2 DEF Reconfigure
  <2>5. CASE UNCHANGED <<values, source_sequences, context_generation>>
    BY <2>2, <2>5
  <2> QED
    BY <2>3, <2>4, <2>5, StoreWrites
<1>2. Init => ValuesBounded
  BY DEF Init, ValuesBounded
<1>3. LifecycleInv => ShutdownInOrder
  BY DEF LifecycleInv
<1>4. Spec => [][Step]_vars
  BY <1>1, <1>2, <1>3, StoreInit, StoreNext, BoundedNext, LifecycleInitial, LifecycleNext, PTL
     DEF Spec
<1> QED
  BY <1>4 DEF ValuesNeverGoBack
-----------------------------------------------------------------------------
(* CommitsAreAcknowledged needs that requests run only once the runtime    *)
(* serves, that they carry no generation from the future, and that neither *)
(* machine they move is down while it serves.                              *)
AckOK(o) ==
  /\ o.stage \notin {"idle", "loading"} => o.generation <= generation
  /\ o.stage \notin {"idle", "answered", "served", "reported"} =>
       phase \in {"serving", "stopping", "stopped"}
  /\ o.stage = "answered" =>
       /\ o.result = "stale" => generation > o.generation
       /\ o.result = "error" => phase \in {"stopping", "stopped"}

MachinesUp ==
  phase \in {"created", "loaded", "opened", "serving"} =>
    \A m \in {"source", "provider"} : machine[m] \in {"starting", "ready", "degraded"}

AckInv == MachinesUp /\ \A a \in Clients : AckOK(op[a])

(* A move to ready or degraded is refused only during a shutdown.          *)
LEMMA RefusedMove ==
  ASSUME MachinesUp, NEW m \in {"source", "provider"}, NEW next \in {"ready", "degraded"},
         ~CanMove(m, next), phase \in {"serving", "stopping", "stopped"}
  PROVE  phase \in {"stopping", "stopped"}
BY DEF MachinesUp, CanMove, Allowed, Successors

(* The machines that requests move are up while the runtime serves.        *)
LEMMA MachinesUpNext ==
  ASSUME LifecycleInv, MachinesUp, [Next]_vars
  PROVE  MachinesUp'
<1>0. machine \in [Machines -> States]
  BY DEF LifecycleInv, LifecycleTypeOK
<1>1. CASE LifecycleStep \/ JoinWorkers
  BY <1>0, <1>1 DEF LifecycleStep, StartModel, StartStore, StartServing, BeginShutdown,
       AnnounceStopping, AnnounceStopped, ShutdownMoves, ShutdownSkips, ShutdownReturns,
       JoinWorkers, MachinesUp, Machines
<1>2. CASE RequestMoves
  BY <1>0, <1>2 DEF RequestMoves, MachinesUp, Machines
<1>3. CASE UNCHANGED <<machine, phase, step>>
  BY <1>3 DEF MachinesUp
<1> QED
  BY <1>1, <1>2, <1>3, MachineSteps

(* Generations grow, and a runtime that serves goes on to stop.            *)
LEMMA Onwards ==
  ASSUME StoreInv, LifecycleInv', [Next]_vars
  PROVE  /\ generation' >= generation
         /\ phase = "serving" => phase' \in {"serving", "stopping"}
         /\ phase \in {"stopping", "stopped"} => phase' \in {"stopping", "stopped"}
<1>1. generation' >= generation
  <2>1. generation \in Nat
    BY DEF StoreInv, TypeOK
  <2>2. ASSUME NEW a \in Clients, Begin(a) \/ Continue(a) PROVE generation' = generation
    BY <2>2 DEF Begin, BeginIngest, BeginSnapshot, BeginReadiness, Continue, ValidateBatch,
         CommitBatch, RefuseCommit, RejectBatch, RecheckGeneration, AnnounceSource, ReadClock,
         ServeSnapshot, ProbeProvider, ProviderReadiness, LoadGeneration, QueryStore, ReportReadiness, model_vars
  <2>3. ASSUME NEW m \in Models, ReplaceModel(m) PROVE generation' = generation + 1
    BY <2>3 DEF ReplaceModel
  <2>4. CASE Reconfigure \/ Tick \/ Drain \/ StartOrStop \/ UNCHANGED vars
    BY <2>1, <2>4 DEF Reconfigure, Tick, Drain, StartOrStop, vars, model_vars
  <2> QED
    BY <2>1, <2>2, <2>3, <2>4 DEF Next
<1>2. phase' # "aborted"
  BY DEF LifecycleInv, ShutdownIsOrderly
<1>3. CASE LifecycleStep \/ JoinWorkers
  BY <1>1, <1>2, <1>3 DEF LifecycleStep, StartModel, StartStore, StartServing, BeginShutdown,
       AnnounceStopping, AnnounceStopped, ShutdownMoves, ShutdownSkips, ShutdownReturns,
       JoinWorkers
<1>4. CASE RequestMoves \/ UNCHANGED <<machine, phase, step>>
  BY <1>1, <1>4 DEF RequestMoves
<1> QED
  BY <1>3, <1>4, MachineSteps

(* The record that a request's step leaves behind.                         *)
LEMMA AckRecord ==
  ASSUME StoreInv, AckInv, NEW a \in Clients, Begin(a) \/ Continue(a)
  PROVE  AckOK(op'[a])
<1>0. AckOK(op[a]) /\ OpOK(op[a]) /\ MachinesUp /\ generation \in Nat /\ TypeOK
  BY DEF AckInv, StoreInv, TypeOK
<1>1. ASSUME NEW result, Answer(a, result), result \in {"accepted", "rejected"},
             op[a].stage \notin {"idle", "loading"}
      PROVE  AckOK(op'[a])
  <2>1. op'[a] = [stage |-> "answered", result |-> result, generation |-> op[a].generation]
    BY <1>0, <1>1, PutRecord DEF Answer
  <2> QED
    BY <1>0, <1>1, <2>1 DEF AckOK
<1>2. ASSUME Answer(a, "error"), op[a].stage \in {"announcing", "probing", "reporting"},
             phase \in {"stopping", "stopped"}
      PROVE  AckOK(op'[a])
  <2>1. op'[a] = [stage |-> "answered", result |-> "error", generation |-> op[a].generation]
    BY <1>0, <1>2, PutRecord DEF Answer
  <2> QED
    BY <1>0, <1>2, <2>1 DEF AckOK
<1>3. CASE BeginIngest(a) \/ BeginSnapshot(a) \/ BeginReadiness(a)
  <2>1. phase \in {"serving", "stopping"}
    BY <1>3 DEF BeginIngest, BeginSnapshot, BeginReadiness, JobsRun, Serving
  <2>2. op'[a].generation = generation /\ op'[a].stage \in {"validating", "reading", "probing"}
    <3>1. CASE BeginIngest(a)
      <4>1. PICK b \in Batches : Put(a, [stage |-> "validating", model |-> model,
                                         generation |-> generation, batch |-> b])
        BY <3>1 DEF BeginIngest
      <4> QED
        BY <1>0, <4>1, PutRecord
    <3>2. CASE BeginSnapshot(a)
      BY <1>0, <3>2, PutRecord DEF BeginSnapshot
    <3>3. CASE BeginReadiness(a)
      BY <1>0, <3>3, PutRecord DEF BeginReadiness
    <3> QED
      BY <1>3, <3>1, <3>2, <3>3
  <2> QED
    BY <1>0, <2>1, <2>2 DEF AckOK
<1>4. CASE ValidateBatch(a) \/ CommitBatch(a) \/ RefuseCommit(a)
  <2>1. /\ op[a].stage \in {"validating", "committing"}
        /\ op'[a].generation = op[a].generation
        /\ op'[a].stage \in {"committing", "rejecting", "committed"}
    <3>1. CASE ValidateBatch(a)
      <4>1. op'[a] = IF Admissible(op[a].model, op[a].generation, op[a].batch)
                     THEN [stage |-> "committing", generation |-> op[a].generation,
                           batch |-> op[a].batch, received |-> clock]
                     ELSE [stage |-> "rejecting", generation |-> op[a].generation]
        BY <1>0, <3>1, PutRecord DEF ValidateBatch
      <4> QED
        BY <3>1, <4>1 DEF ValidateBatch
    <3>2. CASE CommitBatch(a)
      BY <1>0, <3>2, PutRecord DEF CommitBatch
    <3>3. CASE RefuseCommit(a)
      BY <1>0, <3>3, PutRecord DEF RefuseCommit
    <3> QED
      BY <1>4, <3>1, <3>2, <3>3
  <2> QED
    BY <1>0, <2>1 DEF AckOK
<1>5. CASE RejectBatch(a)
  BY <1>1, <1>5 DEF RejectBatch
<1>6. CASE RecheckGeneration(a)
  <2>1. op[a].stage = "committed" /\ op[a].generation \in Nat /\ op[a].generation <= generation
    BY <1>0, <1>6 DEF RecheckGeneration, AckOK, OpOK
  <2>2. op'[a] = IF generation = op[a].generation
                 THEN [stage |-> "announcing", generation |-> op[a].generation]
                 ELSE [stage |-> "answered", result |-> "stale", generation |-> op[a].generation]
    BY <1>0, <1>6, PutRecord DEF RecheckGeneration, Answer
  <2>3. CASE generation = op[a].generation
    BY <1>0, <2>1, <2>2, <2>3 DEF AckOK
  <2>4. CASE generation # op[a].generation
    BY <1>0, <2>1, <2>2, <2>4 DEF AckOK
  <2> QED
    BY <2>3, <2>4
<1>7. CASE AnnounceSource(a)
  <2>1. op[a].stage = "announcing" /\ phase \in {"serving", "stopping", "stopped"}
    BY <1>0, <1>7 DEF AnnounceSource, AckOK
  <2>2. CASE CanMove("source", "ready")
    BY <1>1, <1>7, <2>1, <2>2 DEF AnnounceSource
  <2>3. CASE ~CanMove("source", "ready")
    BY <1>0, <1>2, <1>7, <2>1, <2>3, RefusedMove DEF AnnounceSource
  <2> QED
    BY <2>2, <2>3
<1>8. CASE ReadClock(a) \/ ServeSnapshot(a)
  <2>1. /\ op[a].stage \in {"reading", "serving"} /\ op'[a].generation = op[a].generation
        /\ op'[a].stage \in {"serving", "served"}
    <3>1. CASE ReadClock(a)
      BY <1>0, <3>1, PutRecord DEF ReadClock
    <3>2. CASE ServeSnapshot(a)
      <4> DEFINE m == op[a].model
                 shown == [t \in m.tags |-> Shown(op[a].generation, op[a].now, t)]
                 r == [stage |-> "served", generation |-> op[a].generation, now |-> op[a].now,
                       shown |-> shown, quality |-> Overall(shown), raised |-> Raised(m, shown)]
      <4>1. Put(a, r) /\ op[a].stage = "serving"
        BY <3>2 DEF ServeSnapshot
      <4>2. r.stage = "served" /\ r.generation = op[a].generation
        OBVIOUS
      <4> HIDE DEF r
      <4> QED
        BY <1>0, <4>1, <4>2, PutRecord
    <3> QED
      BY <1>8, <3>1, <3>2
  <2> QED
    BY <1>0, <2>1 DEF AckOK
<1>9. CASE ProbeProvider(a)
  <2>1. op[a].stage = "probing" /\ phase \in {"serving", "stopping", "stopped"}
    BY <1>0, <1>9 DEF ProbeProvider, ProviderReadiness, AckOK
  <2>2. PICK ready \in (IF ProviderConfigured THEN BOOLEAN ELSE {TRUE}) :
          LET next == IF ready THEN "ready" ELSE "degraded"
          IN IF CanMove("provider", next)
             THEN Put(a, [stage |-> "loading", provider |-> ready])
             ELSE Answer(a, "error")
    BY <1>9 DEF ProbeProvider, ProviderReadiness
  <2> DEFINE next == IF ready THEN "ready" ELSE "degraded"
  <2>3. CASE CanMove("provider", next)
    <3>1. op'[a] = [stage |-> "loading", provider |-> ready]
      BY <1>0, <2>2, <2>3, PutRecord
    <3> QED
      BY <2>1, <3>1 DEF AckOK
  <2>4. CASE ~CanMove("provider", next)
    BY <1>0, <1>2, <2>1, <2>2, <2>4, RefusedMove
  <2> QED
    BY <2>3, <2>4
<1>10. CASE LoadGeneration(a)
  <2>1. op'[a] = [stage |-> "querying", provider |-> op[a].provider, generation |-> generation]
    BY <1>0, <1>10, PutRecord DEF LoadGeneration
  <2> QED
    BY <1>0, <1>10, <2>1 DEF AckOK, LoadGeneration
<1>11. CASE QueryStore(a)
  <2>1. op'[a] = [stage |-> "reporting", provider |-> op[a].provider,
                  generation |-> op[a].generation, source |-> Received(op[a].generation)]
    BY <1>0, <1>11, PutRecord DEF QueryStore
  <2> QED
    BY <1>0, <1>11, <2>1 DEF AckOK, QueryStore
<1>12. CASE ReportReadiness(a)
  <2> DEFINE next == IF op[a].source THEN "ready" ELSE "degraded"
  <2>1. op[a].stage = "reporting" /\ phase \in {"serving", "stopping", "stopped"}
    BY <1>0, <1>12 DEF ReportReadiness, AckOK
  <2>2. CASE CanMove("source", next)
    <3>1. op'[a] = [stage |-> "reported", generation |-> op[a].generation,
                    source |-> op[a].source, ready |-> op[a].provider /\ op[a].source]
      BY <1>0, <1>12, <2>2, PutRecord DEF ReportReadiness
    <3> QED
      BY <1>0, <2>1, <3>1 DEF AckOK
  <2>3. CASE ~CanMove("source", next)
    BY <1>0, <1>2, <1>12, <2>1, <2>3, RefusedMove DEF ReportReadiness
  <2> QED
    BY <2>2, <2>3
<1> QED
  BY <1>3, <1>4, <1>5, <1>6, <1>7, <1>8, <1>9, <1>10, <1>11, <1>12 DEF Begin, Continue

(* A request touches no record but its own.                                *)
LEMMA OneRecord ==
  ASSUME TypeOK, NEW a \in Clients, Begin(a) \/ Continue(a), NEW x \in Clients \ {a}
  PROVE  op'[x] = op[x]
<1>0. op = [y \in Clients |-> op[y]]
  BY DEF TypeOK
<1>1. \E r : op' = [op EXCEPT ![a] = r]
  <2> USE DEF Put, Answer
  <2>1. CASE Begin(a)
    BY <2>1 DEF Begin, BeginIngest, BeginSnapshot, BeginReadiness
  <2>2. CASE ValidateBatch(a) \/ CommitBatch(a) \/ RefuseCommit(a) \/ RejectBatch(a)
    BY <2>2 DEF ValidateBatch, CommitBatch, RefuseCommit, RejectBatch
  <2>3. CASE RecheckGeneration(a) \/ AnnounceSource(a) \/ ReadClock(a)
    BY <2>3 DEF RecheckGeneration, AnnounceSource, ReadClock
  <2>4. CASE ServeSnapshot(a)
    BY <2>4 DEF ServeSnapshot
  <2>5. CASE ProbeProvider(a)
    BY <2>5 DEF ProbeProvider, ProviderReadiness
  <2>6. CASE LoadGeneration(a) \/ QueryStore(a) \/ ReportReadiness(a)
    BY <2>6 DEF LoadGeneration, QueryStore, ReportReadiness
  <2> QED
    BY <2>1, <2>2, <2>3, <2>4, <2>5, <2>6 DEF Continue
<1> QED
  BY <1>0, <1>1

(* Every step keeps what the acknowledgements rest on.                     *)
LEMMA AckNext ==
  StoreInv /\ StoreInv' /\ LifecycleInv /\ LifecycleInv' /\ AckInv /\ [Next]_vars => AckInv'
<1> SUFFICES ASSUME StoreInv, StoreInv', LifecycleInv, LifecycleInv', AckInv, [Next]_vars
             PROVE  AckInv'
  OBVIOUS
<1>1. /\ generation' >= generation
      /\ phase = "serving" => phase' \in {"serving", "stopping"}
      /\ phase \in {"stopping", "stopped"} => phase' \in {"stopping", "stopped"}
  BY Onwards
<1>2. generation \in Nat /\ generation' \in Nat /\ \A x \in Clients : OpOK(op'[x])
  BY DEF StoreInv, TypeOK, OpOK
<1>3. ASSUME NEW x \in Clients, AckOK(op'[x]) PROVE AckOK(op[x])'
  <2>1. op'[x].stage \notin {"idle", "loading"} => op'[x].generation \in Nat
    BY <1>2 DEF OpOK
  <2> QED
    BY <1>1, <1>2, <1>3, <2>1 DEF AckOK
<1>4. ASSUME NEW x \in Clients PROVE AckOK(op'[x])
  <2>0. AckOK(op[x]) /\ TypeOK
    BY <1>4 DEF AckInv, StoreInv
  <2>1. ASSUME NEW a \in Clients, Begin(a) \/ Continue(a) PROVE AckOK(op'[x])
    <3>1. CASE x = a
      BY <2>1, <3>1, AckRecord
    <3>2. CASE x # a
      BY <1>4, <2>0, <2>1, <3>2, OneRecord
    <3> QED
      BY <3>1, <3>2
  <2>2. CASE UNCHANGED op
    BY <2>0, <2>2
  <2>3. (\E a \in Clients : Begin(a) \/ Continue(a)) \/ UNCHANGED op
    BY DEF Next, ReplaceModel, Reconfigure, Tick, Drain, StartOrStop, vars
  <2> QED
    BY <2>1, <2>2, <2>3
<1>5. MachinesUp'
  BY MachinesUpNext DEF AckInv
<1> QED
  BY <1>3, <1>4, <1>5 DEF AckInv

(* ingest_telemetry() acknowledges what it committed, unless the model was *)
(* replaced meanwhile or the service is being shut down.                   *)
THEOREM CommitsAcknowledged == Spec => []CommitsAreAcknowledged
<1>1. Init => AckInv
  BY DEF Init, LifecycleInit, AckInv, AckOK, MachinesUp, Idle, Machines
<1>2. AckInv => CommitsAreAcknowledged
  BY DEF AckInv, AckOK, CommitsAreAcknowledged
<1>3. LifecycleInv => ShutdownInOrder
  BY DEF LifecycleInv
<1> QED
  BY <1>1, <1>2, <1>3, StoreInit, StoreNext, AckNext, LifecycleInitial, LifecycleNext, PTL
     DEF Spec
-----------------------------------------------------------------------------
(* What FreshnessIsHonest says of one value, and of one record.            *)
HonestlyShown(shown, old) ==
  /\ shown.quality \in {shown.sample.quality, "stale"}
  /\ old => shown.quality # "good"
  /\ shown.quality = "stale" => old

FreshOK(o) ==
  o.stage = "served" =>
    /\ \A t \in DOMAIN o.shown :
         o.shown[t].sample # NoSample =>
           HonestlyShown(o.shown[t], o.now > o.shown[t].sample.received + StaleAfter)
    /\ o.quality = "good" => \A t \in DOMAIN o.shown : o.shown[t].quality = "good"

(* A snapshot that is served is honest: the clamped age exceeds the        *)
(* interval exactly when the value is older than it.                       *)
LEMMA ServedFresh ==
  ASSUME StoreInv, NEW a \in Clients, ServeSnapshot(a)
  PROVE  FreshOK(op'[a])
<1> DEFINE m == op[a].model
           now == op[a].now
           shown == [t \in m.tags |-> Shown(op[a].generation, now, t)]
           r == [stage |-> "served", generation |-> op[a].generation, now |-> now,
                 shown |-> shown, quality |-> Overall(shown), raised |-> Raised(m, shown)]
<1>1. TypeOK /\ OpOK(op[a]) /\ op[a].stage = "serving" /\ Put(a, r)
  BY DEF StoreInv, TypeOK, ServeSnapshot
<1>2. m \in Models /\ now \in Nat /\ StaleAfter \in Nat /\ m.tags \subseteq Tags
  BY <1>1, TelemetryAssumption DEF OpOK
<1>3. op'[a] = r
  BY <1>1, PutRecord
<1>4. ASSUME NEW t \in m.tags, shown[t].sample # NoSample
      PROVE  HonestlyShown(shown[t], now > shown[t].sample.received + StaleAfter)
  <2>1. shown[t] = Shown(op[a].generation, now, t)
    OBVIOUS
  <2>2. /\ shown[t].sample = values[t]
        /\ shown[t].quality = IF Age(now, values[t].received) > StaleAfter /\ values[t].quality = "good"
                              THEN "stale" ELSE values[t].quality
    BY <1>4, <2>1 DEF Shown
  <2>3. values[t] \in Sample
    BY <1>1, <1>2, <1>4, <2>2 DEF TypeOK
  <2>4. values[t].received \in Nat /\ values[t].quality # "stale"
    BY <2>3 DEF Sample, Qualities
  <2>5. Age(now, values[t].received) > StaleAfter <=> now > values[t].received + StaleAfter
    BY <1>2, <2>4 DEF Age
  <2> HIDE DEF shown, now
  <2> QED
    BY <2>2, <2>4, <2>5 DEF HonestlyShown
<1>5. ASSUME Overall(shown) = "good", NEW t \in m.tags PROVE shown[t].quality = "good"
  <2> DEFINE qualities == {shown[u].quality : u \in DOMAIN shown}
  <2>1. shown[t].quality \in qualities
    BY <1>5
  <2> HIDE DEF shown
  <2>2. qualities = {"good"}
    BY <1>5 DEF Overall
  <2> QED
    BY <2>1, <2>2
<1>6. DOMAIN shown = m.tags
  OBVIOUS
<1>7. /\ r.stage = "served" /\ r.now = now /\ r.shown = shown /\ r.quality = Overall(shown)
  OBVIOUS
<1> HIDE DEF r, shown, now
<1> QED
  BY <1>3, <1>4, <1>5, <1>6, <1>7 DEF FreshOK

(* No other step of a request serves a snapshot.                           *)
LEMMA NotServed ==
  ASSUME TypeOK, NEW a \in Clients, Begin(a) \/ Continue(a), ~ServeSnapshot(a)
  PROVE  op'[a].stage # "served"
<1>0. op = [y \in Clients |-> op[y]]
  BY DEF TypeOK
<1> USE DEF Put, Answer
<1>1. CASE Begin(a)
  BY <1>0, <1>1 DEF Begin, BeginIngest, BeginSnapshot, BeginReadiness
<1>2. CASE ValidateBatch(a) \/ CommitBatch(a) \/ RefuseCommit(a) \/ RejectBatch(a)
  BY <1>0, <1>2 DEF ValidateBatch, CommitBatch, RefuseCommit, RejectBatch
<1>3. CASE RecheckGeneration(a) \/ AnnounceSource(a) \/ ReadClock(a)
  BY <1>0, <1>3 DEF RecheckGeneration, AnnounceSource, ReadClock
<1>4. CASE ProbeProvider(a)
  BY <1>0, <1>4 DEF ProbeProvider, ProviderReadiness
<1>5. CASE LoadGeneration(a) \/ QueryStore(a) \/ ReportReadiness(a)
  BY <1>0, <1>5 DEF LoadGeneration, QueryStore, ReportReadiness
<1> QED
  BY <1>1, <1>2, <1>3, <1>4, <1>5 DEF Continue

(* telemetry() shows no old value as good and no other as stale, and calls *)
(* a snapshot good only when every declared tag is.                        *)
THEOREM FreshnessHonest == Spec => []FreshnessIsHonest
<1> DEFINE Fresh == \A a \in Clients : FreshOK(op[a])
<1>1. Init => Fresh
  BY DEF Init, FreshOK, Idle
<1>2. StoreInv /\ Fresh /\ [Next]_vars => Fresh'
  <2> SUFFICES ASSUME StoreInv, Fresh, [Next]_vars, NEW x \in Clients PROVE FreshOK(op'[x])
    BY DEF FreshOK
  <2>1. ASSUME NEW a \in Clients, Begin(a) \/ Continue(a) PROVE FreshOK(op'[x])
    <3>0. TypeOK
      BY DEF StoreInv
    <3>1. CASE x # a
      BY <2>1, <3>0, <3>1, OneRecord
    <3>2. CASE x = a /\ ServeSnapshot(a)
      BY <3>2, ServedFresh
    <3>3. CASE x = a /\ ~ServeSnapshot(a)
      <4>1. op'[a].stage # "served"
        BY <2>1, <3>0, <3>3, NotServed
      <4> QED
        BY <3>3, <4>1 DEF FreshOK
    <3> QED
      BY <3>1, <3>2, <3>3
  <2>2. CASE UNCHANGED op
    BY <2>2
  <2>3. (\E a \in Clients : Begin(a) \/ Continue(a)) \/ UNCHANGED op
    BY DEF Next, ReplaceModel, Reconfigure, Tick, Drain, StartOrStop, vars
  <2> QED
    BY <2>1, <2>2, <2>3
<1>3. Fresh => FreshnessIsHonest
  BY DEF FreshOK, FreshnessIsHonest, Old, HonestlyShown
<1>4. LifecycleInv => ShutdownInOrder
  BY DEF LifecycleInv
<1> QED
  BY <1>1, <1>2, <1>3, <1>4, StoreInit, StoreNext, LifecycleInitial, LifecycleNext, PTL
     DEF Spec
=============================================================================
