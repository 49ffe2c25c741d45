--------------------------- MODULE ContextRuntime ---------------------------
(***************************************************************************)
(* The runtime's shared state and every operation that reads or writes it: *)
(* the active model and its generation, the saved views, the two caches    *)
(* and the generation the telemetry store is configured for.               *)
(*                                                                         *)
(* An actor is a worker thread serving one request, or the model watcher.  *)
(* A critical section under model_mutex_ or view_mutex_ is one step;       *)
(* whatever an operation does between two critical sections (inference, a  *)
(* journal write, the tail of a model change) is a step of its own, and    *)
(* the locals it carries across are the record op[a].                      *)
(***************************************************************************)
EXTENDS ViewReconciliation, Sequences, FiniteSets

CONSTANTS
  Requests,        \* worker threads serving requests
  Watcher,         \* the model watcher thread
  Files,           \* what model files may hold: [path, model] records
  InitialFile,     \* the configured model
  JournalEnabled,  \* whether a store file is configured
  MaxViews,        \* maximum_saved_views()
  MaxGeneration,   \* bound: model changes in a behaviour
  MaxSequence,     \* bound: view identifiers handed out
  Operations,      \* bound: the operations that are begun
  NoView

ASSUME RuntimeAssumption ==
  /\ Watcher \notin Requests
  /\ InitialFile \in Files
  /\ \A f \in Files : f.model \in Model
  /\ JournalEnabled \in BOOLEAN
  /\ MaxViews \in Nat \ {0}
  /\ MaxGeneration \in Nat
  /\ MaxSequence \in Nat
  /\ NoView \notin View

Actors == Requests \cup {Watcher}
Ids == 1..MaxSequence

VARIABLES
  active,                \* the active model file: model_, active_model_path_
  generation,            \* model_generation_
  views,                 \* views_: view ID -> canonical view or NoView
  view_order,            \* view_order_: IDs, oldest first
  view_sequence,         \* view_sequence_
  retrieval_cache,       \* entries [key, scope]
  interpretation_cache,  \* entries [key, scope, ready]
  telemetry_generation,  \* the generation telemetry_store_ is configured for
  journaled,             \* IDs of the saved_task records in the journal
  op                     \* the locals of the operation each actor runs

vars == <<active, generation, views, view_order, view_sequence,
          retrieval_cache, interpretation_cache, telemetry_generation,
          journaled, op>>
model_vars == <<active, generation>>
view_vars == <<views, view_order, view_sequence>>
cache_vars == <<retrieval_cache, interpretation_cache>>
-----------------------------------------------------------------------------
Paths == {f.path : f \in Files}
Models == {f.model : f \in Files}

(* Faulty variant: a key that leaves the generation out.                   *)
CacheKeyWithoutGeneration(m, g) ==
  [model_id |-> m.model_id, revision |-> m.revision, generation |-> 0]

(* cache_key: the request text is the same throughout and is left out.     *)
CacheKey(m, g) ==
  [model_id |-> m.model_id, revision |-> m.revision, generation |-> g]
CacheKeys == [model_id: ModelIds, revision: Nat, generation: Nat]

(* A cached value is described by the model its content was computed from. *)
RetrievalEntry == [key: CacheKeys, scope: Models]
InterpretationEntry == [key: CacheKeys, scope: Models, ready: BOOLEAN]

(* BoundedJsonCache::put replaces the entry of the same key.               *)
Put(cache, e) == {x \in cache : x.key # e.key} \cup {e}

(* Where an operation may be between two of its steps.                     *)
ChangeTail == {"clear_retrieval", "clear_interpretation", "reconfigure"}
Publishing == {"retrieve", "lookup", "infer", "interpreted", "publish"}
Stages == {"idle", "insert", "journal", "reconcile", "commit", "rescan", "change"}
            \cup Publishing \cup ChangeTail

Operation ==
  [pc: Stages, file: Files, generation: Nat, scope: Models, ready: BOOLEAN,
   id: Nat, view: View \cup {NoView}]

Idle == [pc |-> "idle", file |-> InitialFile, generation |-> 0,
         scope |-> InitialFile.model, ready |-> FALSE, id |-> 0,
         view |-> NoView]

At(a, stage) == op[a].pc = stage
GoTo(a, stage) == op' = [op EXCEPT ![a].pc = stage]
Return(a) == op' = [op EXCEPT ![a] = Idle]

(* model_snapshot(): the model and its generation, read under one lock.    *)
Snapshot(stage) ==
  [Idle EXCEPT !.pc = stage, !.file = active, !.generation = generation]

Saved == {i \in Ids : views[i] # NoView}

Init ==
  /\ active = InitialFile
  /\ generation = 0
  /\ views = [i \in Ids |-> NoView]
  /\ view_order = <<>>
  /\ view_sequence = 0
  /\ retrieval_cache = {}
  /\ interpretation_cache = {}
  /\ telemetry_generation = 0
  /\ journaled = {}
  /\ op = [a \in Actors |-> Idle]
-----------------------------------------------------------------------------
(* resolve, retrieve and interpret, up to the task to publish.             *)

(* Bound: a request that may publish is begun only while identifiers are   *)
(* left for all that are under way.                                        *)
IdBudget ==
  view_sequence +
    Cardinality({a \in Requests : op[a].pc \in Publishing}) < MaxSequence

(* Runtime::resolve: a task that does not resolve against the snapshot is  *)
(* answered with an error and changes nothing.                             *)
Resolve(a) ==
  /\ At(a, "idle")
  /\ "resolve" \in Operations
  /\ IdBudget
  /\ Resolvable(active.model)
  /\ op' = [op EXCEPT ![a] = Snapshot("publish")]
  /\ UNCHANGED <<model_vars, view_vars, cache_vars, telemetry_generation, journaled>>

Interpret(a) ==
  /\ At(a, "idle")
  /\ "interpret" \in Operations
  /\ IdBudget
  /\ op' = [op EXCEPT ![a] = Snapshot("retrieve")]
  /\ UNCHANGED <<model_vars, view_vars, cache_vars, telemetry_generation, journaled>>

(* The retrieval stage: a hit is used as it is, a miss is computed from    *)
(* the snapshot and cached.                                                *)
RetrieveContext(a) ==
  LET key == CacheKey(op[a].file.model, op[a].generation)
  IN /\ At(a, "retrieve")
     /\ \/ \E e \in retrieval_cache :
             /\ e.key = key
             /\ op' = [op EXCEPT ![a].pc = "lookup", ![a].scope = e.scope]
             /\ UNCHANGED retrieval_cache
        \/ /\ \A e \in retrieval_cache : e.key # key
           /\ retrieval_cache' =
                Put(retrieval_cache, [key |-> key, scope |-> op[a].file.model])
           /\ op' = [op EXCEPT ![a].pc = "lookup", ![a].scope = op[a].file.model]
     /\ UNCHANGED <<model_vars, view_vars, interpretation_cache,
                    telemetry_generation, journaled>>

LookupInterpretation(a) ==
  LET key == CacheKey(op[a].file.model, op[a].generation)
  IN /\ At(a, "lookup")
     /\ \/ \E e \in interpretation_cache :
             /\ e.key = key
             /\ op' = [op EXCEPT ![a].pc = "interpreted", ![a].scope = e.scope,
                                 ![a].ready = e.ready]
        \/ /\ \A e \in interpretation_cache : e.key # key
           /\ GoTo(a, "infer")
     /\ UNCHANGED <<model_vars, view_vars, cache_vars, telemetry_generation, journaled>>

(* A request for the context alone ends with the retrieval.                *)
AnswerRetrieval(a) ==
  /\ At(a, "lookup")
  /\ Return(a)
  /\ UNCHANGED <<model_vars, view_vars, cache_vars, telemetry_generation, journaled>>

(* The provider answers with a task or a clarification, which is cached,   *)
(* or fails, which is not.  No lock is held meanwhile.                     *)
Infer(a) ==
  /\ At(a, "infer")
  /\ \/ \E ready \in BOOLEAN :
          /\ interpretation_cache' =
               Put(interpretation_cache,
                   [key   |-> CacheKey(op[a].file.model, op[a].generation),
                    scope |-> op[a].scope, ready |-> ready])
          /\ op' = [op EXCEPT ![a].pc = "interpreted", ![a].ready = ready]
     \/ /\ Return(a)
        /\ UNCHANGED interpretation_cache
  /\ UNCHANGED <<model_vars, view_vars, retrieval_cache, telemetry_generation, journaled>>

(* The tail of interpret: stale_context when the model changed meanwhile,  *)
(* the answer itself when it is a clarification, an error when the task's  *)
(* anchor is unknown, else a task to resolve and publish.                  *)
AcceptInterpretation(a) ==
  /\ At(a, "interpreted")
  /\ IF /\ op[a].generation = generation
        /\ op[a].ready
        /\ Resolvable(op[a].file.model)
     THEN GoTo(a, "publish")
     ELSE Return(a)
  /\ UNCHANGED <<model_vars, view_vars, cache_vars, telemetry_generation, journaled>>
-----------------------------------------------------------------------------
(* publish_view.                                                           *)

(* Faulty variant: the value before the increment is used.                 *)
ReserveIdUnincremented(a) ==
  /\ At(a, "publish")
  /\ view_sequence < MaxSequence
  /\ view_sequence' = view_sequence + 1
  /\ op' = [op EXCEPT ![a].pc = "insert", ![a].id = view_sequence]
  /\ UNCHANGED <<model_vars, views, view_order, cache_vars, telemetry_generation, journaled>>

(* An identifier is taken before any lock and never given back.            *)
ReserveId(a) ==
  /\ At(a, "publish")
  /\ view_sequence < MaxSequence
  /\ view_sequence' = view_sequence + 1
  /\ op' = [op EXCEPT ![a].pc = "insert", ![a].id = view_sequence + 1]
  /\ UNCHANGED <<model_vars, views, view_order, cache_vars, telemetry_generation, journaled>>

(* Faulty variant: the publication is tried again instead of answered.     *)
InsertStaleRetries(a) ==
  /\ At(a, "insert")
  /\ op[a].generation # generation
  /\ UNCHANGED vars

InsertStale(a) ==
  /\ At(a, "insert")
  /\ op[a].generation # generation
  /\ Return(a)
  /\ UNCHANGED <<model_vars, view_vars, cache_vars, telemetry_generation, journaled>>

(* views_ and view_order_ after the oldest view has made room, if need be. *)
MustEvict == Cardinality(Saved) >= MaxViews
RoomInViews ==
  IF MustEvict THEN [views EXCEPT ![Head(view_order)] = NoView] ELSE views
RoomInOrder == IF MustEvict THEN Tail(view_order) ELSE view_order

(* Faulty variant: the generation is not looked at under the lock.         *)
InsertViewUnchecked(a) ==
  /\ At(a, "insert")
  /\ views' = [RoomInViews EXCEPT ![op[a].id] =
                 ResolveTask(op[a].file.model, op[a].generation)]
  /\ view_order' = Append(RoomInOrder, op[a].id)
  /\ IF JournalEnabled THEN GoTo(a, "journal") ELSE Return(a)
  /\ UNCHANGED <<model_vars, view_sequence, cache_vars, telemetry_generation, journaled>>

InsertView(a) ==
  /\ At(a, "insert")
  /\ op[a].generation = generation
  /\ views' = [RoomInViews EXCEPT ![op[a].id] =
                 ResolveTask(op[a].file.model, op[a].generation)]
  /\ view_order' = Append(RoomInOrder, op[a].id)
  /\ IF JournalEnabled THEN GoTo(a, "journal") ELSE Return(a)
  /\ UNCHANGED <<model_vars, view_sequence, cache_vars, telemetry_generation, journaled>>

JournalSucceeds(a) ==
  /\ At(a, "journal")
  /\ journaled' = journaled \cup {op[a].id}
  /\ Return(a)
  /\ UNCHANGED <<model_vars, view_vars, cache_vars, telemetry_generation>>

(* std::find and deque::erase: the sequence without its k-th element.      *)
Erase(s, k) == [j \in 1..(Len(s) - 1) |-> IF j < k THEN s[j] ELSE s[j + 1]]

(* Faulty variants: a failed append leaves the identifier in view_order_,  *)
(* or rolls nothing back.                                                  *)
JournalFailsKeepingOrder(a) ==
  /\ At(a, "journal")
  /\ views' = [views EXCEPT ![op[a].id] = NoView]
  /\ Return(a)
  /\ UNCHANGED <<model_vars, view_order, view_sequence, cache_vars,
                 telemetry_generation, journaled>>
JournalFailsKeepingView(a) ==
  /\ At(a, "journal")
  /\ Return(a)
  /\ UNCHANGED <<model_vars, view_vars, cache_vars, telemetry_generation, journaled>>

(* The rollback takes view_mutex_ alone; the view may be evicted by then.  *)
JournalFails(a) ==
  /\ At(a, "journal")
  /\ views' = [views EXCEPT ![op[a].id] = NoView]
  /\ \/ \E k \in 1..Len(view_order) :
          /\ view_order[k] = op[a].id
          /\ view_order' = Erase(view_order, k)
     \/ /\ \A k \in 1..Len(view_order) : view_order[k] # op[a].id
        /\ UNCHANGED view_order
  /\ Return(a)
  /\ UNCHANGED <<model_vars, view_sequence, cache_vars, telemetry_generation, journaled>>
-----------------------------------------------------------------------------
(* Runtime::reconcile: the trusted view is read, then the model; an        *)
(* unknown or altered view is answered with an error and changes nothing.  *)

ReadTrustedView(a, id) ==
  /\ At(a, "idle")
  /\ "reconcile" \in Operations
  /\ id \in Saved
  /\ op' = [op EXCEPT ![a] = [Idle EXCEPT !.pc = "reconcile", !.id = id,
                                          !.view = views[id]]]
  /\ UNCHANGED <<model_vars, view_vars, cache_vars, telemetry_generation, journaled>>

ComputeRevision(a) ==
  /\ At(a, "reconcile")
  /\ IF Reconcilable(active.model, op[a].view)
     THEN op' = [op EXCEPT ![a].pc = "commit", ![a].file = active,
                           ![a].generation = generation]
     ELSE Return(a)
  /\ UNCHANGED <<model_vars, view_vars, cache_vars, telemetry_generation, journaled>>

(* Faulty variant: any view still saved under the ID may be overwritten.   *)
StillSaved(a) == views[op[a].id] # NoView
Unchanged(a) == views[op[a].id] = op[a].view

(* stale_context, lost_update, or the revised view becomes canonical.      *)
CommitRevision(a) ==
  /\ At(a, "commit")
  /\ IF op[a].generation = generation /\ Unchanged(a)
     THEN views' = [views EXCEPT ![op[a].id] =
                      ReconcileView(op[a].file.model, op[a].view, op[a].generation)]
     ELSE UNCHANGED views
  /\ Return(a)
  /\ UNCHANGED <<model_vars, view_order, view_sequence, cache_vars,
                 telemetry_generation, journaled>>
-----------------------------------------------------------------------------
(* Model changes: select_scenario on a request thread, a rescan on the     *)
(* watcher.  The polling of modification times is ModelWatcher's subject.  *)

(* Bound: a change is begun only while generations are left for all that   *)
(* are under way.                                                          *)
ChangeBudget ==
  generation
    + Cardinality({a \in Actors : op[a].pc \in {"rescan", "change"}}) < MaxGeneration

LoadScenario(a, f) ==
  /\ a # Watcher
  /\ At(a, "idle")
  /\ "scenario" \in Operations
  /\ ChangeBudget
  /\ op' = [op EXCEPT ![a] = [Idle EXCEPT !.pc = "change", !.file = f]]
  /\ UNCHANGED <<model_vars, view_vars, cache_vars, telemetry_generation, journaled>>

(* The watcher reads the active path, finds the file modified and loads    *)
(* it, then compares it with the model that is active by then.             *)
ReadActivePath(a) ==
  /\ a = Watcher
  /\ At(a, "idle")
  /\ "rescan" \in Operations
  /\ ChangeBudget
  /\ op' = [op EXCEPT ![a] = [Idle EXCEPT !.pc = "rescan", !.file = active]]
  /\ UNCHANGED <<model_vars, view_vars, cache_vars, telemetry_generation, journaled>>

LoadRescan(a, f) ==
  /\ At(a, "rescan")
  /\ f.path = op[a].file.path
  /\ f.model # active.model
  /\ op' = [op EXCEPT ![a] = [Idle EXCEPT !.pc = "change", !.file = f]]
  /\ UNCHANGED <<model_vars, view_vars, cache_vars, telemetry_generation, journaled>>

(* The file cannot be loaded, or holds the active model.                   *)
RescanEnds(a) ==
  /\ At(a, "rescan")
  /\ Return(a)
  /\ UNCHANGED <<model_vars, view_vars, cache_vars, telemetry_generation, journaled>>

(* Faulty variant: changes are not serialised.                             *)
NoChangeMutex == TRUE
(* model_change_mutex_ is held from ReplaceModel to FinishChange.          *)
ChangeMutexFree == \A a \in Actors : op[a].pc \notin ChangeTail

StaleRevision(a) ==
  /\ a = Watcher
  /\ op[a].file.model.model_id = active.model.model_id
  /\ op[a].file.model.revision <= active.model.revision

RejectRescan(a) ==
  /\ At(a, "change")
  /\ ChangeMutexFree
  /\ StaleRevision(a)
  /\ Return(a)
  /\ UNCHANGED <<model_vars, view_vars, cache_vars, telemetry_generation, journaled>>

ReplaceModel(a) ==
  /\ At(a, "change")
  /\ ChangeMutexFree
  /\ ~StaleRevision(a)
  /\ generation' = generation + 1
  /\ active' = op[a].file
  /\ views' = [i \in Ids |->
                 IF i \in Saved
                 THEN RevalidateView(op[a].file.model, views[i], generation + 1)
                 ELSE NoView]
  /\ op' = [op EXCEPT ![a].pc = "clear_retrieval", ![a].generation = generation + 1]
  /\ UNCHANGED <<view_order, view_sequence, cache_vars, telemetry_generation, journaled>>

ClearRetrieval(a) ==
  /\ At(a, "clear_retrieval")
  /\ retrieval_cache' = {}
  /\ GoTo(a, "clear_interpretation")
  /\ UNCHANGED <<model_vars, view_vars, interpretation_cache, telemetry_generation, journaled>>

ClearInterpretation(a) ==
  /\ At(a, "clear_interpretation")
  /\ interpretation_cache' = {}
  /\ GoTo(a, "reconfigure")
  /\ UNCHANGED <<model_vars, view_vars, retrieval_cache, telemetry_generation, journaled>>

(* reconfigure, then the model_selected record, whose failure is only      *)
(* logged and which no restart replays; the change mutex is released.      *)
FinishChange(a) ==
  /\ At(a, "reconfigure")
  /\ telemetry_generation' = op[a].generation
  /\ Return(a)
  /\ UNCHANGED <<model_vars, view_vars, cache_vars, journaled>>

(* Expiry or eviction in a cache, at any time.                             *)
DropCached ==
  /\ \/ \E e \in retrieval_cache :
          /\ retrieval_cache' = retrieval_cache \ {e}
          /\ UNCHANGED interpretation_cache
     \/ \E e \in interpretation_cache :
          /\ interpretation_cache' = interpretation_cache \ {e}
          /\ UNCHANGED retrieval_cache
  /\ UNCHANGED <<model_vars, view_vars, telemetry_generation, journaled, op>>
-----------------------------------------------------------------------------
RequestStep(a) ==
  \/ Resolve(a) \/ Interpret(a)
  \/ RetrieveContext(a) \/ AnswerRetrieval(a)
  \/ LookupInterpretation(a) \/ Infer(a) \/ AcceptInterpretation(a)
  \/ ReserveId(a) \/ InsertStale(a) \/ InsertView(a)
  \/ JournalSucceeds(a) \/ JournalFails(a)
  \/ \E id \in Ids : ReadTrustedView(a, id)
  \/ ComputeRevision(a) \/ CommitRevision(a)

ChangeStep(a) ==
  \/ \E f \in Files : LoadScenario(a, f) \/ LoadRescan(a, f)
  \/ ReadActivePath(a) \/ RescanEnds(a)
  \/ RejectRescan(a) \/ ReplaceModel(a)
  \/ ClearRetrieval(a) \/ ClearInterpretation(a) \/ FinishChange(a)

Next ==
  \/ \E a \in Requests : RequestStep(a)
  \/ \E a \in Actors : ChangeStep(a)
  \/ DropCached

Spec == Init /\ [][Next]_vars

(* A thread that has begun an operation goes on with it: every step but    *)
(* the ones that begin one.  Requests, edits and expiry need not happen.   *)
Continue(a) ==
  \/ RetrieveContext(a) \/ AnswerRetrieval(a)
  \/ LookupInterpretation(a) \/ Infer(a) \/ AcceptInterpretation(a)
  \/ ReserveId(a) \/ InsertStale(a) \/ InsertView(a)
  \/ JournalSucceeds(a) \/ JournalFails(a)
  \/ ComputeRevision(a) \/ CommitRevision(a)
  \/ RescanEnds(a) \/ (\E f \in Files : LoadRescan(a, f))
  \/ RejectRescan(a) \/ ReplaceModel(a)
  \/ ClearRetrieval(a) \/ ClearInterpretation(a) \/ FinishChange(a)

FairSpec == Spec /\ \A a \in Actors : WF_vars(Continue(a))
-----------------------------------------------------------------------------
(* Types of the runtime's state and of the operations under way.           *)
TypeOK ==
  /\ active \in Files
  /\ generation \in Nat
  /\ views \in [Ids -> View \cup {NoView}]
  /\ view_order \in Seq(Ids)
  /\ view_sequence \in 0..MaxSequence
  /\ retrieval_cache \in SUBSET RetrievalEntry
  /\ interpretation_cache \in SUBSET InterpretationEntry
  /\ telemetry_generation \in Nat
  /\ journaled \in SUBSET Ids
  /\ op \in [Actors -> Operation]

(* Whoever takes view_mutex_ finds every saved view stamped with the       *)
(* active generation: publish_view and reconcile refuse to store one that  *)
(* a model change has overtaken, and apply_model_change restamps the rest. *)
ViewsCarryGeneration == \A i \in Saved : views[i].generation = generation

(* No saved view presents a binding the active model does not declare:     *)
(* views stored by publish_view and reconcile were computed from the model *)
(* that is still active, however long inference or resolution took.        *)
SavedViewsMatchModel == \A i \in Saved : MatchesModel(active.model, views[i])

(* view_order_ lists every saved view exactly once and never outgrows      *)
(* maximum_saved_views(), whatever evictions, rollbacks and lost updates   *)
(* interleave: eviction can always find the oldest view.                   *)
OrderMatchesViews ==
  /\ Len(view_order) <= MaxViews
  /\ {view_order[k] : k \in 1..Len(view_order)} = Saved
  /\ \A j, k \in 1..Len(view_order) : view_order[j] = view_order[k] => j = k

(* With a store configured, a saved view whose saved_task record is not in *)
(* the journal belongs to a publish_view still waiting for its append: a   *)
(* failed append leaves no view behind that a restart would not know.      *)
SavedViewsAreJournaled ==
  JournalEnabled =>
    \A i \in Saved : \/ i \in journaled
                    \/ \E a \in Requests : At(a, "journal") /\ op[a].id = i

(* A cache entry that a request for the active model can hit was computed  *)
(* from the active model, although a slow inference may store its answer   *)
(* after apply_model_change has cleared the caches.                        *)
CacheHitsAreCurrent ==
  \A e \in retrieval_cache \cup interpretation_cache :
    e.key = CacheKey(active.model, generation) => e.scope = active.model

(* Once no model change is under way the telemetry store is configured for *)
(* the active generation: concurrent changes reconfigure it in order.      *)
TelemetryFollowsModel ==
  \/ telemetry_generation = generation
  \/ \E a \in Actors : op[a].pc \in ChangeTail

(* A saved view never forgets that one of its bindings was in conflict:    *)
(* reconcile reports a lost update rather than store a view derived from   *)
(* one that a model change has since marked.                               *)
ConflictsAreKept ==
  [][\A i \in Saved : views[i].conflicted /\ views'[i] # NoView =>
                         views'[i].conflicted]_vars

(* No silent rebinding: while a view stays saved, a component it shows     *)
(* keeps the meaning it was resolved with, and one that became unavailable *)
(* or conflicting is never presented as bound again.                       *)
NoSilentRebinding ==
  [][\A i \in Saved, t \in Tags :
       /\ views'[i] # NoView
       /\ views[i].component[t].status # "absent"
       => /\ views'[i].component[t].meaning = views[i].component[t].meaning
          /\ views'[i].component[t].status = "bound" =>
               views[i].component[t].status = "bound"]_vars

(* Every operation that was begun returns: no order of requests and model  *)
(* changes leaves a thread waiting for model_change_mutex_ for good.       *)
OperationsReturn ==
  \A a \in Actors : ~At(a, "idle") ~> At(a, "idle")
=============================================================================
