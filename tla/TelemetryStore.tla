--------------------------- MODULE TelemetryStore ---------------------------
(***************************************************************************)
(* The telemetry store and the requests that use it: the ingestion of a    *)
(* batch, the snapshot that is served to clients and streams, readiness,   *)
(* and the model changes that reconfigure it, up to the end of a shutdown. *)
(*                                                                         *)
(* A critical section under mutex_ is one step, and so is a reading of the *)
(* clock or of the model; op[a] is what request a carries in between, and  *)
(* its last answer.  The clock does not run backwards.                     *)
(***************************************************************************)
EXTENDS ServiceLifecycle, Integers, FiniteSets

CONSTANTS
  Clients,        \* requests under way at a time
  Tags, Sources,  \* tag IDs and source IDs
  Models,         \* models: [identity, tags, alarms]
  InitialModel,
  Batches,        \* what clients send
  MaxValues,      \* maximum_values_per_batch_
  StaleAfter,     \* stale_after_ms_
  MaxGeneration,  \* bound: model changes
  MaxTime,        \* bound: clock
  MaxRequests,    \* bound: requests
  Operations,     \* bound: what is begun
  NoSample

NoSequence == -1
Values == {"low", "high", "mistyped"}
Qualities == {"good", "uncertain", "bad", "unknown"}
Reading == [value : Values, quality : Qualities \cup {"stale"}]
Sample == [value : Values, quality : Qualities, received : Nat, source : Sources,
           sequence : Nat, generation : Nat]

ASSUME TelemetryAssumption ==
  /\ IsFiniteSet(Tags)
  /\ \A m \in Models : m.tags \in SUBSET Tags /\ m.alarms \in SUBSET m.tags
  /\ InitialModel \in Models
  /\ \A b \in Batches :
        /\ b.source \in Sources /\ b.sequence \in Nat /\ b.generation \in Nat
        /\ DOMAIN b.values \in SUBSET Tags
        /\ \A t \in DOMAIN b.values : b.values[t] \in Reading
  /\ MaxValues \in Nat \ {0}
  /\ StaleAfter \in Nat
  /\ MaxGeneration \in Nat /\ MaxTime \in Nat \ {0} /\ MaxRequests \in Nat
  /\ NoSample \notin Sample

VARIABLES
  model, generation,   \* model_, model_generation_
  changing,            \* a change holds model_change_mutex_, store to follow
  values,              \* values_
  source_sequences,    \* source_sequences_, NoSequence where it has none
  context_generation,  \* context_generation_
  last_received,       \* last_received_ms_
  accepted_batches, rejected_batches,
  clock,               \* unix_time_ms()
  requests,            \* history: requests begun
  applied,             \* history: [generation, source, sequence] of commits
  op

model_vars == <<model, generation, changing>>
store_vars == <<values, source_sequences, context_generation, last_received,
                accepted_batches, rejected_batches, applied>>
vars == <<lifecycle_vars, model_vars, store_vars, clock, requests, op>>

Idle == [stage |-> "idle"]
Free(a) == op[a].stage \in {"idle", "answered", "served", "reported"}
CanBegin(a, operation) ==
  Free(a) /\ requests < MaxRequests /\ operation \in Operations
Put(a, record) == op' = [op EXCEPT ![a] = record]
Answer(a, result) ==
  Put(a, [stage |-> "answered", result |-> result, generation |-> op[a].generation])

Init ==
  /\ LifecycleInit
  /\ model = InitialModel /\ generation = 0 /\ changing = FALSE
  /\ values = [t \in Tags |-> NoSample]
  /\ source_sequences = [s \in Sources |-> NoSequence]
  /\ context_generation = 0 /\ last_received = 0
  /\ accepted_batches = 0 /\ rejected_batches = 0 /\ applied = {}
  /\ clock = 1 /\ requests = 0
  /\ op = [a \in Clients |-> Idle]
-----------------------------------------------------------------------------
(* ingest_telemetry.                                                       *)
BeginIngest(a) ==
  /\ JobsRun /\ CanBegin(a, "ingest")
  /\ requests' = requests + 1
  /\ \E b \in Batches :
        Put(a, [stage |-> "validating", model |-> model, generation |-> generation, batch |-> b])
  /\ UNCHANGED <<lifecycle_vars, model_vars, store_vars, clock>>

(* validate_value.                                                         *)
ValidReading(r) == r.value # "mistyped" /\ r.quality \in Qualities

Admissible(m, g, b) ==
  /\ b.identity = m.identity
  /\ b.generation = g
  /\ DOMAIN b.values # {}
  /\ Cardinality(DOMAIN b.values) <= MaxValues
  /\ DOMAIN b.values \subseteq m.tags
  /\ \A t \in DOMAIN b.values : ValidReading(b.values[t])

ValidateBatch(a) ==
  /\ op[a].stage = "validating"
  /\ Put(a, IF Admissible(op[a].model, op[a].generation, op[a].batch)
            THEN [stage |-> "committing", generation |-> op[a].generation,
                  batch |-> op[a].batch, received |-> clock]
            ELSE [stage |-> "rejecting", generation |-> op[a].generation])
  /\ UNCHANGED <<lifecycle_vars, model_vars, store_vars, clock, requests>>

(* Faulty variant: the generation is not looked at again.                  *)
CommitsUnchecked(g, b) == b.sequence > source_sequences[b.source]

(* Faulty variant: the batch a source sent last is taken again.            *)
CommitsRepeated(g, b) ==
  /\ context_generation = g
  /\ b.sequence >= source_sequences[b.source]

(* Faulty variant: sequences are not compared.                             *)
CommitsUnordered(g, b) == context_generation = g

Commits(g, b) ==
  /\ context_generation = g
  /\ b.sequence > source_sequences[b.source]

CommitBatch(a) ==
  LET b == op[a].batch
      g == op[a].generation
  IN /\ op[a].stage = "committing"
     /\ Commits(g, b)
     /\ values' = [t \in Tags |->
          IF t \in DOMAIN b.values
          THEN [value |-> b.values[t].value, quality |-> b.values[t].quality,
                received |-> op[a].received, source |-> b.source,
                sequence |-> b.sequence, generation |-> g]
          ELSE values[t]]
     /\ source_sequences' = [source_sequences EXCEPT ![b.source] = b.sequence]
     /\ accepted_batches' = accepted_batches + 1
     /\ last_received' = op[a].received
     /\ applied' = applied \cup
          {[generation |-> g, source |-> b.source, sequence |-> b.sequence]}
     /\ Put(a, [stage |-> "committed", generation |-> g])
     /\ UNCHANGED <<lifecycle_vars, model_vars, context_generation,
                    rejected_batches, clock, requests>>

RefuseCommit(a) ==
  /\ op[a].stage = "committing"
  /\ ~Commits(op[a].generation, op[a].batch)
  /\ Put(a, [stage |-> "rejecting", generation |-> op[a].generation])
  /\ UNCHANGED <<lifecycle_vars, model_vars, store_vars, clock, requests>>

(* The catch block takes the lock again.                                   *)
RejectBatch(a) ==
  /\ op[a].stage = "rejecting"
  /\ rejected_batches' = rejected_batches + 1
  /\ Answer(a, "rejected")
  /\ UNCHANGED <<lifecycle_vars, model_vars, values, source_sequences, context_generation,
                 last_received, accepted_batches, applied, clock, requests>>

RecheckGeneration(a) ==
  /\ op[a].stage = "committed"
  /\ IF generation = op[a].generation
     THEN Put(a, [stage |-> "announcing", generation |-> op[a].generation])
     ELSE Answer(a, "stale")
  /\ UNCHANGED <<lifecycle_vars, model_vars, store_vars, clock, requests>>

AnnounceSource(a) ==
  /\ op[a].stage = "announcing"
  /\ IF CanMove("source", "ready")
     THEN machine' = [machine EXCEPT !["source"] = "ready"] /\ Answer(a, "accepted")
     ELSE UNCHANGED machine /\ Answer(a, "error")
  /\ UNCHANGED <<phase, step, model_vars, store_vars, clock, requests>>
-----------------------------------------------------------------------------
(* telemetry(), for a client or for a stream.                              *)
BeginSnapshot(a) ==
  /\ Serving /\ CanBegin(a, "snapshot")
  /\ requests' = requests + 1
  /\ Put(a, [stage |-> "reading", model |-> model, generation |-> generation])
  /\ UNCHANGED <<lifecycle_vars, model_vars, store_vars, clock>>

ReadClock(a) ==
  /\ op[a].stage = "reading"
  /\ Put(a, [stage |-> "serving", model |-> op[a].model,
             generation |-> op[a].generation, now |-> clock])
  /\ UNCHANGED <<lifecycle_vars, model_vars, store_vars, clock, requests>>

(* Faulty variant: the unsigned difference of a value that was received    *)
(* after the clock was read (in sixteen bits).                             *)
UnclampedAge(now, received) == (now - received + 2^16) % 2^16

Age(now, received) == IF received < now THEN now - received ELSE 0

Shown(g, now, t) ==
  IF context_generation # g \/ values[t] = NoSample
  THEN [sample |-> NoSample, quality |-> "unknown"]
  ELSE [sample |-> values[t],
        quality |-> IF Age(now, values[t].received) > StaleAfter /\ values[t].quality = "good"
                    THEN "stale" ELSE values[t].quality]

Overall(shown) ==
  LET qualities == {shown[t].quality : t \in DOMAIN shown}
  IN CASE qualities = {"good"} -> "good"
       [] "good" \in qualities /\ qualities # {"good"} -> "partial"
       [] "good" \notin qualities /\ "stale" \in qualities -> "stale"
       [] OTHER -> "unknown"

(* The threshold lies between the two values.                              *)
Available(shown, t) == shown[t].quality \notin {"bad", "unknown"}
Raised(m, shown) == {t \in m.alarms : Available(shown, t) /\ shown[t].sample.value = "high"}

ServeSnapshot(a) ==
  LET m == op[a].model
      shown == [t \in m.tags |-> Shown(op[a].generation, op[a].now, t)]
  IN /\ op[a].stage = "serving"
     /\ Put(a, [stage |-> "served", generation |-> op[a].generation, now |-> op[a].now,
                shown |-> shown, quality |-> Overall(shown), raised |-> Raised(m, shown)])
     /\ UNCHANGED <<lifecycle_vars, model_vars, store_vars, clock, requests>>
-----------------------------------------------------------------------------
(* readiness(), a job of the provider pool.                                *)
BeginReadiness(a) ==
  /\ JobsRun /\ CanBegin(a, "readiness")
  /\ requests' = requests + 1
  /\ Put(a, [stage |-> "probing", generation |-> generation])
  /\ UNCHANGED <<lifecycle_vars, model_vars, store_vars, clock>>

(* The rules are always ready.  A provider is when it answers in time and  *)
(* lists a model.                                                          *)
ProviderReadiness == IF ProviderConfigured THEN BOOLEAN ELSE {TRUE}

ProbeProvider(a) ==
  /\ op[a].stage = "probing"
  /\ \E ready \in ProviderReadiness :
        LET next == IF ready THEN "ready" ELSE "degraded"
        IN IF CanMove("provider", next)
           THEN /\ machine' = [machine EXCEPT !["provider"] = next]
                /\ Put(a, [stage |-> "loading", provider |-> ready])
           ELSE /\ UNCHANGED machine
                /\ Answer(a, "error")
  /\ UNCHANGED <<phase, step, model_vars, store_vars, clock, requests>>

LoadGeneration(a) ==
  /\ op[a].stage = "loading"
  /\ Put(a, [stage |-> "querying", provider |-> op[a].provider, generation |-> generation])
  /\ UNCHANGED <<lifecycle_vars, model_vars, store_vars, clock, requests>>

Received(g) == context_generation = g /\ last_received # 0

QueryStore(a) ==
  /\ op[a].stage = "querying"
  /\ Put(a, [stage |-> "reporting", provider |-> op[a].provider,
             generation |-> op[a].generation, source |-> Received(op[a].generation)])
  /\ UNCHANGED <<lifecycle_vars, model_vars, store_vars, clock, requests>>

ReportReadiness(a) ==
  LET next == IF op[a].source THEN "ready" ELSE "degraded"
  IN /\ op[a].stage = "reporting"
     /\ IF CanMove("source", next)
        THEN /\ machine' = [machine EXCEPT !["source"] = next]
             /\ Put(a, [stage |-> "reported", generation |-> op[a].generation,
                        source |-> op[a].source, ready |-> op[a].provider /\ op[a].source])
        ELSE UNCHANGED machine /\ Answer(a, "error")
     /\ UNCHANGED <<phase, step, model_vars, store_vars, clock, requests>>
-----------------------------------------------------------------------------
(* apply_model_change, as far as telemetry sees it: the new model and its  *)
(* generation are published first, the store follows.                      *)
ReplaceModel(m) ==
  /\ JobsRun /\ ~changing /\ generation < MaxGeneration
  /\ model' = m
  /\ generation' = generation + 1
  /\ changing' = TRUE
  /\ UNCHANGED <<lifecycle_vars, store_vars, clock, requests, op>>

(* Faulty variant: the reception of the last model's data is remembered.   *)
ReconfigureReceived ==
  /\ changing
  /\ values' = [t \in Tags |-> NoSample]
  /\ source_sequences' = [s \in Sources |-> NoSequence]
  /\ context_generation' = generation
  /\ changing' = FALSE
  /\ UNCHANGED <<lifecycle_vars, model, generation, last_received, accepted_batches,
                 rejected_batches, applied, clock, requests, op>>

Reconfigure ==
  /\ changing
  /\ values' = [t \in Tags |-> NoSample]
  /\ source_sequences' = [s \in Sources |-> NoSequence]
  /\ context_generation' = generation
  /\ last_received' = 0
  /\ changing' = FALSE
  /\ UNCHANGED <<lifecycle_vars, model, generation, accepted_batches,
                 rejected_batches, applied, clock, requests, op>>

Tick ==
  /\ clock < MaxTime
  /\ clock' = clock + 1
  /\ UNCHANGED <<lifecycle_vars, model_vars, store_vars, requests, op>>

(* Every admitted job has ended and the watcher has returned.              *)
Drain ==
  /\ \A a \in Clients : Free(a)
  /\ ~changing
  /\ JoinWorkers
  /\ UNCHANGED <<model_vars, store_vars, clock, requests, op>>

StartOrStop ==
  /\ LifecycleStep
  /\ phase' = "stopping" => "shutdown" \in Operations
  /\ UNCHANGED <<model_vars, store_vars, clock, requests, op>>

Continue(a) ==
  \/ ValidateBatch(a) \/ CommitBatch(a) \/ RefuseCommit(a) \/ RejectBatch(a)
  \/ RecheckGeneration(a) \/ AnnounceSource(a)
  \/ ReadClock(a) \/ ServeSnapshot(a)
  \/ ProbeProvider(a) \/ LoadGeneration(a) \/ QueryStore(a) \/ ReportReadiness(a)

Begin(a) == BeginIngest(a) \/ BeginSnapshot(a) \/ BeginReadiness(a)

Next ==
  \/ \E a \in Clients : Begin(a) \/ Continue(a)
  \/ \E m \in Models : ReplaceModel(m)
  \/ Reconfigure \/ Tick \/ Drain \/ StartOrStop

Spec == Init /\ [][Next]_vars
-----------------------------------------------------------------------------
Stages == {"idle", "validating", "committing", "rejecting", "committed",
           "announcing", "reading", "serving", "probing", "loading",
           "querying", "reporting", "answered", "served", "reported"}

Applied == [generation : Nat, source : Sources, sequence : Nat]

OpOK(o) ==
  /\ o.stage \in Stages
  /\ o.stage \notin {"idle", "loading"} => o.generation \in Nat
  /\ o.stage \in {"validating", "reading", "serving"} => o.model \in Models
  /\ o.stage \in {"validating", "committing"} => o.batch \in Batches
  /\ o.stage = "committing" =>
       /\ \A t \in DOMAIN o.batch.values : ValidReading(o.batch.values[t])
       /\ o.received \in Nat \ {0}
  /\ o.stage \in {"serving", "served"} => o.now \in Nat

(* Types: among others, only valid readings are ever stored.               *)
TypeOK ==
  /\ LifecycleTypeOK
  /\ model \in Models /\ generation \in Nat /\ changing \in BOOLEAN
  /\ values \in [Tags -> Sample \cup {NoSample}]
  /\ source_sequences \in [Sources -> Nat \cup {NoSequence}]
  /\ context_generation \in Nat /\ last_received \in Nat
  /\ accepted_batches \in Nat /\ rejected_batches \in Nat
  /\ applied \in SUBSET Applied /\ IsFiniteSet(applied)
  /\ clock \in Nat \ {0} /\ requests \in Nat
  /\ op = [a \in Clients |-> op[a]]
  /\ \A a \in Clients : OpOK(op[a])

(* A snapshot that names generation g shows only values that were          *)
(* validated and committed under g, however often the model is replaced,   *)
(* by one with the same tags too, between the validation of a batch, its   *)
(* commit, the reading of the model for the snapshot and its serving.      *)
ServedValuesAreCurrent ==
  \A a \in Clients : op[a].stage = "served" =>
    \A t \in DOMAIN op[a].shown :
      LET shown == op[a].shown[t]
      IN shown.sample # NoSample => shown.sample.generation = op[a].generation

(* No batch is applied twice: the accepted batches have pairwise different *)
(* generation, source and sequence, though a model change forgets the      *)
(* sequences and requests carry batches across it.                         *)
BatchesAppliedOnce == accepted_batches = Cardinality(applied)

(* While the store follows one generation, the value shown for a tag never *)
(* gives way to an older one of its source, whichever order concurrent     *)
(* requests commit in.                                                     *)
ValuesNeverGoBack ==
  [][\A t \in Tags :
        (values[t] # NoSample /\ context_generation' = context_generation)
        => /\ values'[t] # NoSample
           /\ values'[t].source = values[t].source =>
                values'[t].sequence >= values[t].sequence]_vars

(* Whether value t of what request a was served is older than the          *)
(* interval at the time that the snapshot carries.                         *)
Old(a, t) == op[a].now > op[a].shown[t].sample.received + StaleAfter

(* A snapshot shows a value with the quality it was sent with or as stale; *)
(* it never shows an old value as good, nor calls one stale that is not    *)
(* old, such as one received after the snapshot read the clock; and its    *)
(* overall quality is good only if every declared tag's is.                *)
FreshnessIsHonest ==
  \A a \in Clients : op[a].stage = "served" =>
    /\ \A t \in DOMAIN op[a].shown :
         LET shown == op[a].shown[t]
         IN shown.sample # NoSample =>
              /\ shown.quality \in {shown.sample.quality, "stale"}
              /\ Old(a, t) => shown.quality # "good"
              /\ shown.quality = "stale" => Old(a, t)
    /\ op[a].quality = "good" =>
         \A t \in DOMAIN op[a].shown : op[a].shown[t].quality = "good"

(* readiness() reports the source ready only when a batch was accepted for *)
(* the generation it asked about, never on account of an earlier model.    *)
ReadinessIsCurrent ==
  \A a \in Clients : op[a].stage = "reported" /\ op[a].source =>
    \E c \in applied : c.generation = op[a].generation

(* A batch that was committed is answered as accepted, unless the model    *)
(* was replaced meanwhile or the service is being shut down.               *)
CommitsAreAcknowledged ==
  \A a \in Clients : op[a].stage = "answered" =>
    /\ op[a].result = "stale" => generation > op[a].generation
    /\ op[a].result = "error" => phase \in {"stopping", "stopped"}

(* What makes these inductive.  The store holds values and receptions of   *)
(* one generation only, which does not run ahead of the model's and is     *)
(* behind it while a change is under way; within that generation, and for  *)
(* each source, the last sequence bounds those that were applied.          *)
StoreFollows ==
  /\ context_generation <= generation
  /\ changing => context_generation < generation
  /\ \A t \in Tags : values[t] # NoSample => values[t].generation = context_generation
  /\ last_received # 0 => \E c \in applied : c.generation = context_generation
  /\ \A c \in applied :
       /\ c.generation <= context_generation
       /\ c.generation = context_generation => c.sequence <= source_sequences[c.source]
  /\ \A a \in Clients : op[a].stage = "reporting" /\ op[a].source =>
       \E c \in applied : c.generation = op[a].generation
=============================================================================
