------------------------ MODULE ContextRuntimeProofs ------------------------
(***************************************************************************)
(* Proofs about ContextRuntime for every set of requests, files, tags and  *)
(* meanings and every bound.                                               *)
(***************************************************************************)
EXTENDS ContextRuntime, FiniteSetTheorems, TLAPS

-----------------------------------------------------------------------------
(* Lemmas about the operators of ViewReconciliation.                       *)

(* Resolving a task against a validated model yields a well-formed view.   *)
LEMMA ResolveTaskType ==
  ASSUME NEW m \in Model, NEW g \in Nat
  PROVE  ResolveTask(m, g) \in View
<1> DEFINE comp == [t \in Tags |-> IF InScope(m, t)
                        THEN [status |-> "bound", meaning |-> m.tags[t]]
                        ELSE AbsentComponent]
           dep == [t \in Tags |-> IF InScope(m, t) THEN m.tags[t] ELSE NoTag]
<1>1. m.tags \in [Tags -> Bindings] /\ m.model_id \in ModelIds /\ m.revision \in Nat
  BY DEF Model
<1>2. comp \in [Tags -> Component]
  BY <1>1 DEF Component, AbsentComponent, ComponentStatus, Bindings
<1>3. dep \in [Tags -> Bindings]
  BY <1>1 DEF Bindings
<1> QED
  BY <1>1, <1>2, <1>3 DEF ResolveTask, View, ViewStatus

(* Merging one component yields a well-formed component.                   *)
LEMMA MergedComponentType ==
  ASSUME NEW m \in Model, NEW v \in View, NEW t \in Tags
  PROVE  MergedComponent(m, v, t) \in Component
<1>1. m.tags[t] \in Bindings /\ v.component[t] \in Component
  BY DEF Model, View
<1> QED
  BY <1>1 DEF MergedComponent, Component, ComponentStatus

(* Reconciling a well-formed view yields a well-formed view.               *)
LEMMA ReconcileViewType ==
  ASSUME NEW m \in Model, NEW v \in View, NEW g \in Nat
  PROVE  ReconcileView(m, v, g) \in View
<1> DEFINE comp == [t \in Tags |-> MergedComponent(m, v, t)]
           dep == [t \in Tags |-> MergedDependency(m, v, t)]
<1>1. /\ m.tags \in [Tags -> Bindings] /\ m.model_id \in ModelIds /\ m.revision \in Nat
      /\ v.dependency \in [Tags -> Bindings] /\ v.conflicted \in BOOLEAN
      /\ v.issues \in BOOLEAN
  BY DEF Model, View
<1>2. comp \in [Tags -> Component]
  BY MergedComponentType
<1>3. dep \in [Tags -> Bindings]
  BY <1>1 DEF MergedDependency
<1> QED
  BY <1>1, <1>2, <1>3 DEF ReconcileView, View, ViewStatus

(* So does the loop body of apply_model_change.                            *)
LEMMA RevalidateViewType ==
  ASSUME NEW m \in Model, NEW v \in View, NEW g \in Nat
  PROVE  RevalidateView(m, v, g) \in View
<1>1. SupersedeView(v, g) \in View
  BY DEF SupersedeView, View, ViewStatus
<1> QED
  BY <1>1, ReconcileViewType DEF RevalidateView

(* A freshly resolved view matches the model it was resolved against.      *)
LEMMA ResolveTaskMatches ==
  ASSUME NEW m \in Model, NEW g \in Nat, Resolvable(m)
  PROVE  /\ MatchesModel(m, ResolveTask(m, g))
         /\ ResolveTask(m, g).generation = g
BY DEF MatchesModel, ResolveTask, Reconcilable, AbsentComponent

(* A component that the merge presents as bound has the model's meaning.   *)
LEMMA MergedComponentMatches ==
  ASSUME NEW m \in Model, NEW v \in View, NEW t \in Tags,
         MergedComponent(m, v, t).status = "bound"
  PROVE  MergedComponent(m, v, t).meaning = m.tags[t]
<1>1. m.tags[t] \in Bindings /\ v.component[t] \in Component
  BY DEF Model, View
<1> QED
  BY <1>1 DEF MergedComponent, Component, ComponentStatus

(* A reconciled view matches the model it was reconciled with.             *)
LEMMA ReconcileViewMatches ==
  ASSUME NEW m \in Model, NEW v \in View, NEW g \in Nat, Reconcilable(m, v)
  PROVE  /\ MatchesModel(m, ReconcileView(m, v, g))
         /\ ReconcileView(m, v, g).generation = g
<1> DEFINE r == ReconcileView(m, v, g)
<1>1. /\ r.revision = m.revision /\ r.model_id = m.model_id /\ r.generation = g
      /\ r.component = [t \in Tags |-> MergedComponent(m, v, t)]
  BY DEF ReconcileView
<1>2. Reconcilable(m, r)
  BY <1>1 DEF Reconcilable
<1> QED
  BY <1>1, <1>2, MergedComponentMatches DEF MatchesModel

(* Whatever the model-change loop leaves of a view matches the new model.  *)
LEMMA RevalidateViewMatches ==
  ASSUME NEW m \in Model, NEW v \in View, NEW g \in Nat
  PROVE  /\ MatchesModel(m, RevalidateView(m, v, g))
         /\ RevalidateView(m, v, g).generation = g
<1>1. CASE Reconcilable(m, v)
  BY <1>1, ReconcileViewMatches DEF RevalidateView
<1>2. CASE ~Reconcilable(m, v)
  <2> DEFINE r == SupersedeView(v, g)
  <2>1. r.status = "needs-review" /\ r.model_id = v.model_id /\ r.generation = g
    BY DEF SupersedeView, View
  <2>2. ~Reconcilable(m, r)
    BY <2>1, <1>2 DEF Reconcilable
  <2> QED
    BY <1>2, <2>1, <2>2 DEF RevalidateView, MatchesModel
<1> QED
  BY <1>1, <1>2
-----------------------------------------------------------------------------
(* The inductive invariant.  TypeOK is not inductive alone: evicting takes *)
(* the head of view_order, which must not be empty then, and a reconcile   *)
(* stores a view derived from the one it read.                             *)

(* view_order_ lists exactly the saved views, each once.                   *)
OrderOK ==
  /\ Len(view_order) <= MaxViews
  /\ \A k \in 1..Len(view_order) : view_order[k] \in Saved
  /\ \A i \in Saved : \E k \in 1..Len(view_order) : view_order[k] = i
  /\ \A j, k \in 1..Len(view_order) : view_order[j] = view_order[k] => j = k

(* An identifier that is about to be used was handed out, to one request.  *)
UsesId(a) == op[a].pc \in {"insert", "journal"}
IdsOK ==
  /\ \A i \in Saved : i <= view_sequence
  /\ \A a \in Requests : UsesId(a) => op[a].id \in 1..view_sequence
  /\ \A a \in Requests : At(a, "insert") => op[a].id \notin Saved
  /\ \A a, b \in Requests : UsesId(a) /\ UsesId(b) /\ op[a].id = op[b].id => a = b

(* A snapshot whose generation is still active is of the active model.     *)
SnapshotOK(a) ==
  op[a].pc \in Publishing \cup {"insert", "commit"} =>
    /\ op[a].generation <= generation
    /\ op[a].generation = generation => op[a].file.model = active.model

LocalsOK ==
  \A a \in Requests :
    /\ SnapshotOK(a)
    /\ op[a].pc \in {"publish", "insert"} => Resolvable(op[a].file.model)
    /\ op[a].pc \in {"reconcile", "commit"} => op[a].id \in Ids /\ op[a].view \in View
    /\ At(a, "commit") => Reconcilable(op[a].file.model, op[a].view)

IInv == TypeOK /\ OrderOK /\ IdsOK /\ LocalsOK

(* Facts about the constants that every step of the proofs uses.           *)
LEMMA Constants ==
  /\ InitialFile \in Files
  /\ \A f \in Files : f.model \in Model /\ f.model \in Models
  /\ MaxViews \in Nat /\ MaxViews >= 1 /\ MaxSequence \in Nat
  /\ NoView \notin View
  /\ Requests \subseteq Actors
BY RuntimeAssumption DEF Models, Actors

(* The record of an idle actor is an operation.                            *)
LEMMA IdleType == Idle \in Operation
BY Constants DEF Idle, Operation, Stages

(* A cache key made of a model of some file is well formed.                *)
LEMMA CacheKeyType ==
  ASSUME NEW m \in Model, NEW g \in Nat
  PROVE  CacheKey(m, g) \in CacheKeys
BY DEF CacheKey, CacheKeys, Model

(* When publish_view must evict, there is a view to evict.                 *)
LEMMA EvictionFindsOldest ==
  ASSUME OrderOK, TypeOK, MustEvict
  PROVE  view_order # <<>>
<1>1. Saved # {}
  BY Constants, FS_EmptySet DEF MustEvict
<1> QED
  BY <1>1 DEF OrderOK, TypeOK

(* Initially nothing is saved and nobody is busy.                          *)
LEMMA InitInvariant == Init => IInv
<1> SUFFICES ASSUME Init PROVE IInv
  OBVIOUS
<1> USE Constants
<1>1. TypeOK
  BY IdleType DEF Init, TypeOK
<1>2. Saved = {}
  BY DEF Init, Saved
<1>3. OrderOK
  BY <1>2 DEF Init, OrderOK
<1>4. \A a \in Requests : op[a].pc = "idle"
  BY DEF Init, Idle
<1> QED
  BY <1>1, <1>2, <1>3, <1>4
     DEF IInv, IdsOK, LocalsOK, SnapshotOK, UsesId, At, Publishing
-----------------------------------------------------------------------------
(* How the steps of an actor change its record.                            *)

(* Moving to another stage keeps the other locals.                         *)
LEMMA GoToType ==
  ASSUME op \in [Actors -> Operation], NEW a \in Actors, NEW s \in Stages, GoTo(a, s)
  PROVE  op' \in [Actors -> Operation]
<1>1. [op[a] EXCEPT !.pc = s] \in Operation
  BY DEF Operation
<1> QED
  BY <1>1 DEF GoTo

(* Returning resets them.                                                  *)
LEMMA ReturnType ==
  ASSUME op \in [Actors -> Operation], NEW a \in Actors, Return(a)
  PROVE  op' \in [Actors -> Operation]
BY IdleType DEF Return

(* A snapshot of the active model is an operation.                         *)
LEMMA SnapshotType ==
  ASSUME active \in Files, generation \in Nat, NEW s \in Stages
  PROVE  Snapshot(s) \in Operation
BY IdleType, Constants DEF Snapshot, Idle, Operation
-----------------------------------------------------------------------------
(* Type correctness of a step.                                             *)
LEMMA TypeStep == IInv /\ [Next]_vars => TypeOK'
<1> SUFFICES ASSUME IInv, [Next]_vars PROVE TypeOK'
  OBVIOUS
<1> USE Constants DEF IInv, TypeOK, model_vars, view_vars, cache_vars, At
<1>0. {"idle", "retrieve", "lookup", "infer", "interpreted", "publish", "insert",
       "journal", "reconcile", "commit", "rescan", "change", "clear_retrieval",
       "clear_interpretation", "reconfigure"} \subseteq Stages
  BY DEF Stages, Publishing, ChangeTail
<1>1. ASSUME NEW a \in Requests, Resolve(a) PROVE TypeOK'
  BY <1>0, <1>1, SnapshotType DEF Resolve
<1>2. ASSUME NEW a \in Requests, Interpret(a) PROVE TypeOK'
  BY <1>0, <1>2, SnapshotType DEF Interpret
<1>3. ASSUME NEW a \in Requests, RetrieveContext(a) PROVE TypeOK'
  <2> DEFINE key == CacheKey(op[a].file.model, op[a].generation)
  <2>1. key \in CacheKeys
    BY CacheKeyType DEF Operation
  <2>2. CASE \E e \in retrieval_cache :
               /\ op' = [op EXCEPT ![a].pc = "lookup", ![a].scope = e.scope]
               /\ UNCHANGED retrieval_cache
    <3>1. PICK e \in retrieval_cache :
                 op' = [op EXCEPT ![a].pc = "lookup", ![a].scope = e.scope]
      BY <2>2
    <3>2. [op[a] EXCEPT !.pc = "lookup", !.scope = e.scope] \in Operation
      BY <1>0 DEF Operation, RetrievalEntry
    <3>3. op' \in [Actors -> Operation]
      BY <3>1, <3>2
    <3> QED
      BY <1>3, <2>2, <3>3 DEF RetrieveContext
  <2>3. CASE /\ retrieval_cache' =
                  Put(retrieval_cache, [key |-> key, scope |-> op[a].file.model])
             /\ op' = [op EXCEPT ![a].pc = "lookup", ![a].scope = op[a].file.model]
    <3>1. [key |-> key, scope |-> op[a].file.model] \in RetrievalEntry
      BY <2>1 DEF RetrievalEntry, Operation
    <3>2. [op[a] EXCEPT !.pc = "lookup", !.scope = op[a].file.model] \in Operation
      BY <1>0 DEF Operation
    <3>3. op[a].file.model \in Models
      BY DEF Operation
    <3>4. op' \in [Actors -> Operation]
      BY <2>3, <3>2
    <3>5. retrieval_cache' \in SUBSET RetrievalEntry
      BY <2>3, <3>1 DEF Put
    <3> QED
      BY <1>3, <3>4, <3>5 DEF RetrieveContext
  <2> QED
    BY <1>3, <2>2, <2>3 DEF RetrieveContext
<1>4. ASSUME NEW a \in Requests, LookupInterpretation(a) PROVE TypeOK'
  <2>1. ASSUME NEW e \in interpretation_cache,
               op' = [op EXCEPT ![a].pc = "interpreted", ![a].scope = e.scope,
                                ![a].ready = e.ready]
        PROVE  op' \in [Actors -> Operation]
    <3>1. [op[a] EXCEPT !.pc = "interpreted", !.scope = e.scope, !.ready = e.ready]
            \in Operation
      BY <1>0 DEF Operation, InterpretationEntry
    <3> QED
      BY <2>1, <3>1
  <2>2. CASE GoTo(a, "infer")
    BY <1>0, <1>4, <2>2, GoToType DEF LookupInterpretation
  <2> QED
    BY <1>4, <2>1, <2>2 DEF LookupInterpretation
<1>5. ASSUME NEW a \in Requests, Infer(a) PROVE TypeOK'
  <2> DEFINE key == CacheKey(op[a].file.model, op[a].generation)
  <2>1. key \in CacheKeys
    BY CacheKeyType DEF Operation
  <2>2. CASE Return(a) /\ UNCHANGED interpretation_cache
    BY <1>5, <2>2, ReturnType DEF Infer
  <2>3. ASSUME NEW ready \in BOOLEAN,
               interpretation_cache' =
                 Put(interpretation_cache,
                     [key |-> key, scope |-> op[a].scope, ready |-> ready]),
               op' = [op EXCEPT ![a].pc = "interpreted", ![a].ready = ready]
        PROVE  TypeOK'
    <3>1. [key |-> key, scope |-> op[a].scope, ready |-> ready] \in InterpretationEntry
      BY <2>1 DEF InterpretationEntry, Operation
    <3>2. interpretation_cache' \in SUBSET InterpretationEntry
      BY <2>3, <3>1 DEF Put
    <3>3. [op[a] EXCEPT !.pc = "interpreted", !.ready = ready] \in Operation
      BY <1>0 DEF Operation
    <3>4. op' \in [Actors -> Operation]
      BY <2>3, <3>3
    <3> QED
      BY <1>5, <3>2, <3>4 DEF Infer
  <2> QED
    BY <1>5, <2>2, <2>3 DEF Infer
<1>6. ASSUME NEW a \in Requests, AcceptInterpretation(a) \/ AnswerRetrieval(a)
      PROVE  TypeOK'
  BY <1>0, <1>6, GoToType, ReturnType DEF AcceptInterpretation, AnswerRetrieval
<1>7. ASSUME NEW a \in Requests, ReserveId(a) PROVE TypeOK'
  <2>1. view_sequence + 1 \in Nat /\ view_sequence' \in 0..MaxSequence
    BY <1>7 DEF ReserveId
  <2>2. op[a] \in Operation
    OBVIOUS
  <2>3. [op[a] EXCEPT !.pc = "insert", !.id = view_sequence + 1] \in Operation
    BY <1>0, <2>1, <2>2 DEF Operation
  <2>4. op' \in [Actors -> Operation]
    BY <1>7, <2>3 DEF ReserveId
  <2> QED
    BY <1>7, <2>1, <2>4 DEF ReserveId
<1>8. ASSUME NEW a \in Requests, InsertStale(a) PROVE TypeOK'
  BY <1>8, ReturnType DEF InsertStale
<1>9. ASSUME NEW a \in Requests, InsertView(a) PROVE TypeOK'
  <2>1. op[a].id \in Ids
    BY <1>9 DEF InsertView, IdsOK, UsesId, Ids
  <2>2. ResolveTask(op[a].file.model, op[a].generation) \in View
    BY ResolveTaskType DEF Operation
  <2>3. RoomInViews \in [Ids -> View \cup {NoView}]
    BY DEF RoomInViews
  <2>4. RoomInOrder \in Seq(Ids)
    BY EvictionFindsOldest DEF RoomInOrder
  <2>5. views' \in [Ids -> View \cup {NoView}]
    BY <1>9, <2>1, <2>2, <2>3 DEF InsertView
  <2>6. view_order' \in Seq(Ids)
    BY <1>9, <2>1, <2>4 DEF InsertView
  <2>7. op' \in [Actors -> Operation]
    BY <1>0, <1>9, GoToType, ReturnType DEF InsertView
  <2> QED
    BY <1>9, <2>5, <2>6, <2>7 DEF InsertView
<1>10. ASSUME NEW a \in Requests, JournalSucceeds(a) PROVE TypeOK'
  <2>1. op[a].id \in Ids
    BY <1>10 DEF JournalSucceeds, IdsOK, UsesId, Ids
  <2> QED
    BY <1>10, <2>1, ReturnType DEF JournalSucceeds
<1>11. ASSUME NEW a \in Requests, JournalFails(a) PROVE TypeOK'
  <2>1. view_order' \in Seq(Ids)
    <3>1. ASSUME NEW k \in 1..Len(view_order) PROVE Erase(view_order, k) \in Seq(Ids)
      BY DEF Erase
    <3> QED
      BY <1>11, <3>1 DEF JournalFails
  <2>2. views' \in [Ids -> View \cup {NoView}]
    BY <1>11 DEF JournalFails
  <2>3. op' \in [Actors -> Operation]
    BY <1>11, ReturnType DEF JournalFails
  <2> QED
    BY <1>11, <2>1, <2>2, <2>3 DEF JournalFails
<1>12. ASSUME NEW a \in Requests, NEW id \in Ids, ReadTrustedView(a, id) PROVE TypeOK'
  <2>1. id \in Nat /\ views[id] \in View \cup {NoView}
    BY DEF Ids
  <2>2. [Idle EXCEPT !.pc = "reconcile", !.id = id, !.view = views[id]] \in Operation
    BY <1>0, <2>1, IdleType DEF Operation
  <2> QED
    BY <1>12, <2>2 DEF ReadTrustedView
<1>13. ASSUME NEW a \in Requests, ComputeRevision(a) PROVE TypeOK'
  <2>1. CASE Return(a)
    BY <1>13, <2>1, ReturnType DEF ComputeRevision
  <2>2. CASE op' = [op EXCEPT ![a].pc = "commit", ![a].file = active,
                              ![a].generation = generation]
    <3>1. [op[a] EXCEPT !.pc = "commit", !.file = active, !.generation = generation]
            \in Operation
      BY <1>0 DEF Operation
    <3> QED
      BY <1>13, <2>2, <3>1 DEF ComputeRevision
  <2> QED
    BY <1>13, <2>1, <2>2 DEF ComputeRevision
<1>14. ASSUME NEW a \in Requests, CommitRevision(a) PROVE TypeOK'
  <2>1. op[a].view \in View /\ op[a].id \in Ids
    BY <1>14 DEF CommitRevision, LocalsOK
  <2>2. ReconcileView(op[a].file.model, op[a].view, op[a].generation) \in View
    BY <2>1, ReconcileViewType DEF Operation
  <2>3. views' \in [Ids -> View \cup {NoView}]
    BY <1>14, <2>2 DEF CommitRevision
  <2> QED
    BY <1>14, <2>3, ReturnType DEF CommitRevision
<1>15. ASSUME NEW a \in Actors, NEW f \in Files,
              LoadScenario(a, f) \/ LoadRescan(a, f) \/ ReadActivePath(a)
       PROVE  TypeOK'
  <2>1. /\ [Idle EXCEPT !.pc = "change", !.file = f] \in Operation
        /\ [Idle EXCEPT !.pc = "rescan", !.file = active] \in Operation
    BY <1>0, IdleType DEF Idle, Operation
  <2> QED
    BY <1>15, <2>1 DEF LoadScenario, LoadRescan, ReadActivePath
<1>16. ASSUME NEW a \in Actors, RejectRescan(a) \/ RescanEnds(a) PROVE TypeOK'
  BY <1>16, ReturnType DEF RejectRescan, RescanEnds
<1>17. ASSUME NEW a \in Actors, ReplaceModel(a) PROVE TypeOK'
  <2>1. ASSUME NEW i \in Saved
        PROVE  RevalidateView(op[a].file.model, views[i], generation + 1) \in View
    BY RevalidateViewType DEF Saved, Operation
  <2>2. views' \in [Ids -> View \cup {NoView}]
    BY <1>17, <2>1 DEF ReplaceModel
  <2>3. op[a] \in Operation /\ generation + 1 \in Nat
    OBVIOUS
  <2>4. [op[a] EXCEPT !.pc = "clear_retrieval", !.generation = generation + 1] \in Operation
    BY <1>0, <2>3 DEF Operation
  <2>5. op[a].file \in Files
    BY <2>3 DEF Operation
  <2> QED
    BY <1>17, <2>2, <2>3, <2>4, <2>5 DEF ReplaceModel
<1>18. ASSUME NEW a \in Actors,
              ClearRetrieval(a) \/ ClearInterpretation(a) \/ FinishChange(a)
       PROVE  TypeOK'
  <2>1. op[a].generation \in Nat
    BY DEF Operation
  <2> QED
    BY <1>0, <1>18, <2>1, GoToType, ReturnType
       DEF ClearRetrieval, ClearInterpretation, FinishChange
<1>19. CASE DropCached
  BY <1>19 DEF DropCached
<1>20. CASE UNCHANGED vars
  BY <1>20 DEF vars
<1> QED
  BY <1>1, <1>2, <1>3, <1>4, <1>5, <1>6, <1>7, <1>8, <1>9, <1>10, <1>11, <1>12,
     <1>13, <1>14, <1>15, <1>16, <1>17, <1>18, <1>19, <1>20
     DEF Next, RequestStep, ChangeStep
-----------------------------------------------------------------------------
(* Only four actions touch the saved views or their order.                 *)
LEMMA ViewWriters ==
  ASSUME [Next]_vars
  PROVE  \/ UNCHANGED <<views, view_order>>
         \/ \E a \in Requests : InsertView(a) \/ JournalFails(a) \/ CommitRevision(a)
         \/ \E a \in Actors : ReplaceModel(a)
<1> USE DEF view_vars
<1>1. ASSUME NEW a \in Requests, RequestStep(a),
             ~InsertView(a), ~JournalFails(a), ~CommitRevision(a)
      PROVE  UNCHANGED <<views, view_order>>
  BY <1>1 DEF RequestStep, Resolve, Interpret, RetrieveContext, LookupInterpretation,
              Infer, AcceptInterpretation, AnswerRetrieval, ReserveId, InsertStale, JournalSucceeds,
              ReadTrustedView, ComputeRevision
<1>2. ASSUME NEW a \in Actors, ChangeStep(a), ~ReplaceModel(a)
      PROVE  UNCHANGED <<views, view_order>>
  BY <1>2 DEF ChangeStep, LoadScenario, LoadRescan, ReadActivePath, RescanEnds,
              RejectRescan, ClearRetrieval,
              ClearInterpretation, FinishChange
<1>3. CASE DropCached
  BY <1>3 DEF DropCached
<1>4. CASE UNCHANGED vars
  BY <1>4 DEF vars
<1> QED
  BY <1>1, <1>2, <1>3, <1>4 DEF Next

(* The order has as many entries as there are saved views.                 *)
LEMMA OrderLength ==
  ASSUME TypeOK, OrderOK
  PROVE  Cardinality(Saved) = Len(view_order)
<1>1. view_order \in Bijection(1..Len(view_order), Saved)
  BY DEF TypeOK, OrderOK, Bijection, Injection, Surjection, IsInjective
<1>2. Len(view_order) \in Nat
  BY DEF TypeOK
<1> QED
  BY <1>1, <1>2, FS_CountingElements DEF ExistsBijection

(* A commit replaces a saved view by a view.                               *)
LEMMA CommitKeepsSaved ==
  ASSUME IInv, NEW a \in Requests, CommitRevision(a)
  PROVE  Saved' = Saved
<1>1. op[a].view \in View /\ op[a].id \in Ids /\ op[a].file.model \in Model
      /\ op[a].generation \in Nat
  BY Constants DEF IInv, LocalsOK, CommitRevision, At, TypeOK, Operation
<1>2. ReconcileView(op[a].file.model, op[a].view, op[a].generation) # NoView
  BY <1>1, ReconcileViewType, Constants
<1>3. CASE UNCHANGED views
  BY <1>3 DEF Saved
<1>4. CASE /\ Unchanged(a)
           /\ views' = [views EXCEPT ![op[a].id] =
                ReconcileView(op[a].file.model, op[a].view, op[a].generation)]
  <2>1. views \in [Ids -> View \cup {NoView}]
    BY DEF IInv, TypeOK
  <2>2. views[op[a].id] # NoView
    BY <1>1, <1>4, Constants DEF Unchanged
  <2> QED
    BY <1>1, <1>2, <1>4, <2>1, <2>2 DEF Saved
<1> QED
  BY <1>3, <1>4 DEF CommitRevision

(* A model change keeps every saved view.                                  *)
LEMMA ReplaceKeepsSaved ==
  ASSUME IInv, NEW a \in Actors, ReplaceModel(a)
  PROVE  Saved' = Saved
<1>1. ASSUME NEW i \in Saved
      PROVE  RevalidateView(op[a].file.model, views[i], generation + 1) # NoView
  <2>1. views[i] \in View /\ op[a].file.model \in Model /\ generation + 1 \in Nat
    BY Constants DEF IInv, TypeOK, Operation, Saved
  <2> QED
    BY <2>1, RevalidateViewType, Constants
<1>2. \A i \in Ids : views'[i] # NoView <=> i \in Saved
  BY <1>1 DEF ReplaceModel
<1> QED
  BY <1>2 DEF Saved

(* What eviction leaves: room for one more view, and an order that lists   *)
(* exactly the views that are left.                                        *)
LEMMA RoomForOne ==
  ASSUME TypeOK, OrderOK
  PROVE  /\ RoomInViews \in [Ids -> View \cup {NoView}]
         /\ RoomInOrder \in Seq(Ids)
         /\ Len(RoomInOrder) + 1 <= MaxViews
         /\ \A k \in 1..Len(RoomInOrder) : RoomInViews[RoomInOrder[k]] # NoView
         /\ \A i \in Ids : RoomInViews[i] # NoView =>
              i \in Saved /\ \E k \in 1..Len(RoomInOrder) : RoomInOrder[k] = i
         /\ \A j, k \in 1..Len(RoomInOrder) : RoomInOrder[j] = RoomInOrder[k] => j = k
<1> USE Constants
<1>1. views \in [Ids -> View \cup {NoView}] /\ view_order \in Seq(Ids)
  BY DEF TypeOK
<1>2. CASE ~MustEvict
  <2>1. Len(view_order) < MaxViews
    BY <1>1, <1>2, OrderLength DEF MustEvict
  <2> QED
    BY <1>1, <1>2, <2>1 DEF RoomInViews, RoomInOrder, OrderOK, Saved
<1>3. CASE MustEvict
  <2> DEFINE rest == Tail(view_order)
             h == view_order[1]
  <2>1. /\ view_order # <<>> /\ Head(view_order) = h /\ h \in Ids
        /\ Len(view_order) >= 1
    BY <1>1, <1>3, EvictionFindsOldest
  <2>2. /\ rest \in Seq(Ids) /\ Len(rest) = Len(view_order) - 1
        /\ \A k \in 1..Len(rest) : rest[k] = view_order[k + 1]
    BY <1>1, <2>1
  <2>3. RoomInViews = [views EXCEPT ![h] = NoView] /\ RoomInOrder = rest
    BY <1>3, <2>1 DEF RoomInViews, RoomInOrder
  <2>4. Len(rest) + 1 <= MaxViews
    BY <1>1, <2>2 DEF OrderOK
  <2>5. ASSUME NEW k \in 1..Len(rest) PROVE RoomInViews[rest[k]] # NoView
    <3>1. k + 1 \in 1..Len(view_order) /\ 1 \in 1..Len(view_order) /\ k + 1 # 1
      BY <1>1, <2>1, <2>2
    <3>2. rest[k] \in Saved /\ rest[k] # h
      BY <2>2, <3>1 DEF OrderOK
    <3> QED
      BY <1>1, <2>3, <3>2 DEF Saved
  <2>6. ASSUME NEW i \in Ids, RoomInViews[i] # NoView
        PROVE  i \in Saved /\ \E k \in 1..Len(rest) : rest[k] = i
    <3>1. i \in Saved /\ i # h
      BY <1>1, <2>1, <2>3, <2>6 DEF Saved
    <3>2. PICK n \in 1..Len(view_order) : view_order[n] = i
      BY <3>1 DEF OrderOK
    <3>3. n # 1
      BY <3>1, <3>2
    <3>4. n - 1 \in 1..Len(rest) /\ rest[n - 1] = i
      BY <1>1, <2>2, <3>2, <3>3
    <3> QED
      BY <3>1, <3>4
  <2>7. ASSUME NEW j \in 1..Len(rest), NEW k \in 1..Len(rest), rest[j] = rest[k]
        PROVE  j = k
    <3>1. j + 1 \in 1..Len(view_order) /\ k + 1 \in 1..Len(view_order)
      BY <1>1, <2>2
    <3>2. j + 1 = k + 1
      BY <2>2, <2>7, <3>1 DEF OrderOK
    <3> QED
      BY <3>2
  <2>8. RoomInViews \in [Ids -> View \cup {NoView}]
    BY <1>1, <2>1, <2>3
  <2> HIDE DEF rest
  <2> QED
    BY <2>2, <2>3, <2>4, <2>5, <2>6, <2>7, <2>8
<1> QED
  BY <1>2, <1>3

(* publish_view keeps the order exact.                                     *)
LEMMA InsertKeepsOrder ==
  ASSUME IInv, NEW a \in Requests, InsertView(a)
  PROVE  OrderOK'
<1> USE Constants
<1> DEFINE id == op[a].id
           new == ResolveTask(op[a].file.model, op[a].generation)
           n == Len(RoomInOrder)
<1>1. TypeOK /\ OrderOK
  BY DEF IInv
<1>2. id \in Ids /\ id \notin Saved
  BY DEF IInv, TypeOK, IdsOK, UsesId, At, InsertView, Ids
<1>3. new \in View /\ new # NoView
  BY ResolveTaskType DEF IInv, TypeOK, Operation
<1>4. /\ views' = [RoomInViews EXCEPT ![id] = new]
      /\ view_order' = Append(RoomInOrder, id)
  BY DEF InsertView
<1> HIDE DEF id, new
<1>5. RoomInViews \in [Ids -> View \cup {NoView}] /\ RoomInOrder \in Seq(Ids)
  BY <1>1, RoomForOne
<1>6. /\ Len(view_order') = n + 1 /\ n \in Nat
      /\ \A k \in 1..n : view_order'[k] = RoomInOrder[k] /\ RoomInOrder[k] \in Ids
      /\ view_order'[n + 1] = id
  BY <1>2, <1>4, <1>5
<1>7. /\ \A i \in Ids : views'[i] = IF i = id THEN new ELSE RoomInViews[i]
  BY <1>4, <1>5
<1>8. \A k \in 1..n : RoomInOrder[k] # id
  BY <1>1, <1>2, <1>6, RoomForOne
<1> HIDE DEF n
<1>9. Len(view_order') <= MaxViews
  BY <1>1, <1>6, RoomForOne DEF n
<1>10. ASSUME NEW k \in 1..(n + 1) PROVE view_order'[k] \in Saved'
  <2>1. CASE k = n + 1
    BY <1>2, <1>3, <1>6, <1>7, <2>1 DEF Saved
  <2>2. CASE k \in 1..n
    <3>1. RoomInViews[RoomInOrder[k]] # NoView
      BY <1>1, <2>2, RoomForOne DEF n
    <3> QED
      BY <1>6, <1>7, <1>8, <2>2, <3>1 DEF Saved
  <2> QED
    BY <1>6, <2>1, <2>2
<1>11. ASSUME NEW i \in Saved' PROVE \E k \in 1..(n + 1) : view_order'[k] = i
  <2>1. i \in Ids
    BY DEF Saved
  <2>2. CASE i = id
    BY <1>6, <2>2
  <2>3. CASE i # id
    <3>1. RoomInViews[i] # NoView
      BY <1>7, <2>1, <2>3 DEF Saved
    <3>2. PICK k \in 1..n : RoomInOrder[k] = i
      BY <1>1, <2>1, <3>1, RoomForOne DEF n
    <3> QED
      BY <1>6, <3>2
  <2> QED
    BY <2>2, <2>3
<1>12. ASSUME NEW j \in 1..(n + 1), NEW k \in 1..(n + 1), view_order'[j] = view_order'[k]
       PROVE  j = k
  <2>1. \A x, y \in 1..n : RoomInOrder[x] = RoomInOrder[y] => x = y
    BY <1>1, RoomForOne DEF n
  <2> QED
    BY <1>6, <1>8, <1>12, <2>1
<1> QED
  BY <1>6, <1>9, <1>10, <1>11, <1>12 DEF OrderOK

(* The rollback of publish_view keeps the order exact, whether or not the  *)
(* view was evicted while its record was being written.                    *)
LEMMA RollbackKeepsOrder ==
  ASSUME IInv, NEW a \in Requests, JournalFails(a)
  PROVE  OrderOK'
<1> USE Constants
<1> DEFINE id == op[a].id
           n == Len(view_order)
<1>1. views \in [Ids -> View \cup {NoView}] /\ view_order \in Seq(Ids) /\ n \in Nat
  BY DEF IInv, TypeOK
<1>2. id \in Ids
  BY DEF IInv, TypeOK, IdsOK, UsesId, At, JournalFails, Ids
<1>3. Saved' = Saved \ {id}
  BY <1>1, <1>2 DEF JournalFails, Saved
<1>4. /\ n <= MaxViews
      /\ \A k \in 1..n : view_order[k] \in Saved
      /\ \A i \in Saved : \E k \in 1..n : view_order[k] = i
      /\ \A j, k \in 1..n : view_order[j] = view_order[k] => j = k
  BY DEF IInv, OrderOK
<1>5. CASE (\A k \in 1..n : view_order[k] # id) /\ UNCHANGED view_order
  <2>1. Saved' = Saved
    BY <1>3, <1>4, <1>5
  <2> QED
    BY <1>4, <1>5, <2>1 DEF OrderOK
<1>6. ASSUME NEW k \in 1..n, view_order[k] = id, view_order' = Erase(view_order, k)
      PROVE  OrderOK'
  <2>1. /\ Len(view_order') = n - 1
        /\ \A j \in 1..(n - 1) :
             view_order'[j] = IF j < k THEN view_order[j] ELSE view_order[j + 1]
    BY <1>1, <1>6 DEF Erase
  <2> HIDE DEF id, n
  <2>2. ASSUME NEW j \in 1..(n - 1) PROVE view_order'[j] \in Saved'
    <3>1. \A x \in 1..n : x # k => view_order[x] \in Saved'
      BY <1>3, <1>4, <1>6
    <3> QED
      BY <1>1, <2>1, <3>1
  <2>3. ASSUME NEW i \in Saved' PROVE \E j \in 1..(n - 1) : view_order'[j] = i
    <3>1. PICK x \in 1..n : view_order[x] = i
      BY <1>3, <1>4
    <3>2. x # k
      BY <1>3, <1>6, <3>1
    <3>3. CASE x < k
      BY <1>1, <2>1, <3>1, <3>3
    <3>4. CASE x > k
      <4>1. x - 1 \in 1..(n - 1) /\ ~(x - 1 < k) /\ x - 1 + 1 = x
        BY <1>1, <3>4
      <4> QED
        BY <2>1, <3>1, <4>1
    <3> QED
      BY <1>1, <3>2, <3>3, <3>4
  <2>4. ASSUME NEW i \in 1..(n - 1), NEW j \in 1..(n - 1), view_order'[i] = view_order'[j]
        PROVE  i = j
    BY <1>1, <1>4, <2>1, <2>4
  <2>5. n - 1 <= MaxViews
    BY <1>1, <1>4
  <2> QED
    BY <2>1, <2>2, <2>3, <2>4, <2>5 DEF OrderOK
<1> QED
  BY <1>5, <1>6 DEF JournalFails

(* Every step keeps the order exact.                                       *)
LEMMA OrderStep == IInv /\ [Next]_vars => OrderOK'
<1> SUFFICES ASSUME IInv, [Next]_vars PROVE OrderOK'
  OBVIOUS
<1>1. ASSUME UNCHANGED view_order, Saved' = Saved PROVE OrderOK'
  BY <1>1 DEF IInv, OrderOK
<1>2. CASE UNCHANGED <<views, view_order>>
  <2>1. Saved' = Saved
    BY <1>2 DEF Saved
  <2> QED
    BY <1>1, <1>2, <2>1
<1>3. ASSUME NEW a \in Requests, CommitRevision(a) PROVE OrderOK'
  BY <1>1, <1>3, CommitKeepsSaved DEF CommitRevision
<1>4. ASSUME NEW a \in Actors, ReplaceModel(a) PROVE OrderOK'
  BY <1>1, <1>4, ReplaceKeepsSaved DEF ReplaceModel
<1> QED
  BY <1>2, <1>3, <1>4, InsertKeepsOrder, RollbackKeepsOrder, ViewWriters
-----------------------------------------------------------------------------
(* The locals of the actors.  Step(a) lists, for the actor that takes a    *)
(* step, the ways its record may change.                                   *)
KeepsSnapshot(a) == op'[a].file = op[a].file /\ op'[a].generation = op[a].generation

(* resolve or interpret begins.                                            *)
Begins(a) ==
  /\ op'[a].pc \in {"publish", "retrieve"}
  /\ op'[a].file = active /\ op'[a].generation = generation
  /\ op'[a].pc = "publish" => Resolvable(active.model)

(* It goes on until there is a task to publish.                            *)
GoesOn(a) ==
  /\ op[a].pc \in Publishing /\ op'[a].pc \in Publishing
  /\ KeepsSnapshot(a)
  /\ op'[a].pc = "publish" => Resolvable(op[a].file.model)

Reserves(a) ==
  /\ op[a].pc = "publish" /\ op'[a].pc = "insert"
  /\ KeepsSnapshot(a)
  /\ op'[a].id = view_sequence + 1 /\ view_sequence' = view_sequence + 1

Inserts(a) == op[a].pc = "insert" /\ op'[a].pc = "journal" /\ op'[a].id = op[a].id

Reads(a) == op'[a].pc = "reconcile" /\ op'[a].id \in Ids /\ op'[a].view \in View

Computes(a) ==
  /\ op[a].pc = "reconcile" /\ op'[a].pc = "commit"
  /\ op'[a].file = active /\ op'[a].generation = generation
  /\ op'[a].id = op[a].id /\ op'[a].view = op[a].view
  /\ Reconcilable(active.model, op[a].view)

Leaves(a) == op'[a].pc \in {"idle", "rescan", "change"} \cup ChangeTail

Step(a) ==
  /\ \A b \in Actors \ {a} : op'[b] = op[b]
  /\ \/ Reserves(a)
     \/ /\ UNCHANGED view_sequence
        /\ \/ Begins(a) \/ GoesOn(a) \/ Inserts(a) \/ Reads(a) \/ Computes(a)
           \/ Leaves(a)

(* What replacing one actor's record does to the others and to its own.    *)
LEMMA OpUpdate ==
  ASSUME op \in [Actors -> Operation], NEW a \in Actors, NEW r,
         op' = [op EXCEPT ![a] = r]
  PROVE  op'[a] = r /\ \A b \in Actors \ {a} : op'[b] = op[b]
OBVIOUS

(* Moving to a stage changes the stage alone.                              *)
LEMMA GoToEffect ==
  ASSUME op \in [Actors -> Operation], NEW a \in Actors, NEW s, GoTo(a, s)
  PROVE  /\ op'[a].pc = s /\ KeepsSnapshot(a) /\ op'[a].id = op[a].id
         /\ \A b \in Actors \ {a} : op'[b] = op[b]
<1>1. op[a] \in Operation
  OBVIOUS
<1>2. op'[a] = [op[a] EXCEPT !.pc = s]
  BY DEF GoTo
<1>3. op'[a].pc = s /\ KeepsSnapshot(a) /\ op'[a].id = op[a].id
  BY <1>1, <1>2 DEF Operation, KeepsSnapshot
<1> QED
  BY <1>3 DEF GoTo

(* Returning makes the actor idle.                                         *)
LEMMA ReturnEffect ==
  ASSUME op \in [Actors -> Operation], NEW a \in Actors, Return(a)
  PROVE  op'[a].pc = "idle" /\ \A b \in Actors \ {a} : op'[b] = op[b]
BY DEF Return, Idle

(* A step of the system is a step of one actor, or leaves the locals alone. *)
LEMMA SomeoneSteps ==
  ASSUME IInv, [Next]_vars
  PROVE  \/ op' = op /\ view_sequence' = view_sequence
         \/ \E a \in Actors : Step(a)
<1> USE DEF view_vars, At
<1>0. op \in [Actors -> Operation] /\ Requests \subseteq Actors
  BY Constants DEF IInv, TypeOK
<1>1. ASSUME NEW a \in Actors, Return(a), UNCHANGED view_sequence PROVE Step(a)
  BY <1>0, <1>1, ReturnEffect DEF Step, Leaves
<1>2. ASSUME NEW a \in Requests, Resolve(a) \/ Interpret(a) PROVE Step(a)
  <2>1. PICK s \in {"publish", "retrieve"} :
               /\ op' = [op EXCEPT ![a] = Snapshot(s)]
               /\ s = "publish" => Resolvable(active.model)
    BY <1>2 DEF Resolve, Interpret
  <2>2. /\ Snapshot(s).pc = s /\ Snapshot(s).file = active
        /\ Snapshot(s).generation = generation
    BY DEF Snapshot, Idle
  <2>3. op'[a] = Snapshot(s) /\ \A b \in Actors \ {a} : op'[b] = op[b]
    BY <1>0, <2>1, OpUpdate
  <2> QED
    BY <1>2, <2>1, <2>2, <2>3 DEF Resolve, Interpret, Step, Begins
<1>3. ASSUME NEW a \in Requests, RetrieveContext(a) PROVE Step(a)
  <2>1. PICK s : op' = [op EXCEPT ![a].pc = "lookup", ![a].scope = s]
    BY <1>3 DEF RetrieveContext
  <2>2. op[a] \in Operation
    BY <1>0
  <2>3. op'[a] = [op[a] EXCEPT !.pc = "lookup", !.scope = s]
    BY <1>0, <2>1
  <2>4. op'[a].pc = "lookup" /\ KeepsSnapshot(a)
    BY <2>2, <2>3 DEF KeepsSnapshot, Operation
  <2>5. \A b \in Actors \ {a} : op'[b] = op[b]
    BY <1>0, <2>1
  <2> QED
    BY <1>3, <2>4, <2>5 DEF RetrieveContext, Step, GoesOn, Publishing
<1>4. ASSUME NEW a \in Requests, LookupInterpretation(a) PROVE Step(a)
  <2>1. CASE GoTo(a, "infer")
    <3>1. op'[a].pc = "infer" /\ KeepsSnapshot(a) /\ \A b \in Actors \ {a} : op'[b] = op[b]
      BY <1>0, <2>1, GoToEffect
    <3>2. op[a].pc = "lookup" /\ UNCHANGED view_sequence
      BY <1>4 DEF LookupInterpretation, At, view_vars
    <3> QED
      BY <3>1, <3>2 DEF Step, GoesOn, Publishing
  <2>2. ASSUME NEW s, NEW r,
               op' = [op EXCEPT ![a].pc = "interpreted", ![a].scope = s, ![a].ready = r]
        PROVE  Step(a)
    <3>1. op[a] \in Operation
      BY <1>0
    <3>2. op'[a] = [op[a] EXCEPT !.pc = "interpreted", !.scope = s, !.ready = r]
      BY <1>0, <2>2
    <3>3. op'[a].pc = "interpreted" /\ KeepsSnapshot(a)
      BY <3>1, <3>2 DEF KeepsSnapshot, Operation
    <3>4. \A b \in Actors \ {a} : op'[b] = op[b]
      BY <1>0, <2>2
    <3> QED
      BY <1>4, <3>3, <3>4 DEF LookupInterpretation, Step, GoesOn, Publishing
  <2> QED
    BY <1>4, <2>1, <2>2 DEF LookupInterpretation
<1>5. ASSUME NEW a \in Requests, Infer(a) PROVE Step(a)
  <2>1. ASSUME NEW r, op' = [op EXCEPT ![a].pc = "interpreted", ![a].ready = r]
        PROVE  Step(a)
    <3>1. op[a] \in Operation
      BY <1>0
    <3>2. op'[a] = [op[a] EXCEPT !.pc = "interpreted", !.ready = r]
      BY <1>0, <2>1
    <3>3. op'[a].pc = "interpreted" /\ KeepsSnapshot(a)
      BY <3>1, <3>2 DEF KeepsSnapshot, Operation
    <3>4. \A b \in Actors \ {a} : op'[b] = op[b]
      BY <1>0, <2>1
    <3> QED
      BY <1>5, <3>3, <3>4 DEF Infer, Step, GoesOn, Publishing
  <2> QED
    BY <1>0, <1>1, <1>5, <2>1 DEF Infer
<1>6. ASSUME NEW a \in Requests, AcceptInterpretation(a) PROVE Step(a)
  <2>1. CASE GoTo(a, "publish") /\ Resolvable(op[a].file.model)
    BY <1>0, <1>6, <2>1, GoToEffect DEF AcceptInterpretation, Step, GoesOn, Publishing
  <2> QED
    BY <1>0, <1>1, <1>6, <2>1 DEF AcceptInterpretation
<1>7. ASSUME NEW a \in Requests, ReserveId(a) PROVE Step(a)
  <2>1. op[a] \in Operation
    BY <1>0
  <2>2. op'[a] = [op[a] EXCEPT !.pc = "insert", !.id = view_sequence + 1]
    BY <1>0, <1>7 DEF ReserveId
  <2>3. op'[a].pc = "insert" /\ KeepsSnapshot(a) /\ op'[a].id = view_sequence + 1
    BY <2>1, <2>2 DEF KeepsSnapshot, Operation
  <2>4. \A b \in Actors \ {a} : op'[b] = op[b]
    BY <1>0, <1>7 DEF ReserveId
  <2> QED
    BY <1>7, <2>3, <2>4 DEF ReserveId, Step, Reserves
<1>8. ASSUME NEW a \in Requests, InsertView(a) PROVE Step(a)
  <2>1. CASE GoTo(a, "journal")
    BY <1>0, <1>8, <2>1, GoToEffect DEF InsertView, Step, Inserts
  <2> QED
    BY <1>0, <1>1, <1>8, <2>1 DEF InsertView
<1>9. ASSUME NEW a \in Requests,
             \/ InsertStale(a) \/ JournalSucceeds(a) \/ JournalFails(a)
             \/ CommitRevision(a) \/ AnswerRetrieval(a)
      PROVE  Step(a)
  BY <1>0, <1>1, <1>9
     DEF InsertStale, JournalSucceeds, JournalFails, CommitRevision, AnswerRetrieval
<1>10. ASSUME NEW a \in Requests, NEW id \in Ids, ReadTrustedView(a, id) PROVE Step(a)
  <2>1. views[id] \in View
    BY <1>10 DEF ReadTrustedView, Saved, IInv, TypeOK
  <2> QED
    BY <1>0, <1>10, <2>1, OpUpdate DEF ReadTrustedView, Idle, Step, Reads
<1>11. ASSUME NEW a \in Requests, ComputeRevision(a) PROVE Step(a)
  <2>1. CASE op' = [op EXCEPT ![a].pc = "commit", ![a].file = active,
                              ![a].generation = generation]
             /\ Reconcilable(active.model, op[a].view)
    <3>1. op[a] \in Operation
      BY <1>0
    <3>2. op'[a] = [op[a] EXCEPT !.pc = "commit", !.file = active,
                                 !.generation = generation]
      BY <1>0, <2>1
    <3>3. /\ op'[a].pc = "commit" /\ op'[a].file = active
          /\ op'[a].generation = generation
          /\ op'[a].id = op[a].id /\ op'[a].view = op[a].view
      BY <3>1, <3>2 DEF Operation
    <3>4. \A b \in Actors \ {a} : op'[b] = op[b]
      BY <1>0, <2>1
    <3> QED
      BY <1>11, <2>1, <3>3, <3>4 DEF ComputeRevision, Step, Computes
  <2> QED
    BY <1>0, <1>1, <1>11, <2>1 DEF ComputeRevision
<1>12. ASSUME NEW a \in Actors, NEW f \in Files,
              LoadScenario(a, f) \/ LoadRescan(a, f) \/ ReadActivePath(a)
       PROVE  Step(a)
  <2>1. CASE LoadScenario(a, f)
    BY <1>0, <2>1, OpUpdate DEF LoadScenario, Idle, Step, Leaves
  <2>2. CASE LoadRescan(a, f)
    BY <1>0, <2>2, OpUpdate DEF LoadRescan, Step, Leaves
  <2>3. CASE ReadActivePath(a)
    BY <1>0, <2>3, OpUpdate DEF ReadActivePath, Idle, Step, Leaves
  <2> QED
    BY <1>12, <2>1, <2>2, <2>3
<1>13. ASSUME NEW a \in Actors, ReplaceModel(a) PROVE Step(a)
  <2>1. op[a] \in Operation
    BY <1>0
  <2>2. op'[a] = [op[a] EXCEPT !.pc = "clear_retrieval", !.generation = generation + 1]
    BY <1>0, <1>13 DEF ReplaceModel
  <2>3. op'[a].pc = "clear_retrieval"
    BY <2>1, <2>2 DEF Operation
  <2>4. \A b \in Actors \ {a} : op'[b] = op[b]
    BY <1>0, <1>13 DEF ReplaceModel
  <2> QED
    BY <1>13, <2>3, <2>4 DEF ReplaceModel, Step, Leaves, ChangeTail
<1>14. ASSUME NEW a \in Actors,
              \/ RescanEnds(a) \/ RejectRescan(a)
              \/ ClearRetrieval(a) \/ ClearInterpretation(a) \/ FinishChange(a)
       PROVE  Step(a)
  BY <1>1, <1>0, <1>14, GoToEffect
     DEF RescanEnds, RejectRescan, ClearRetrieval, ClearInterpretation, FinishChange, Step, Leaves,
         ChangeTail
<1>15. CASE DropCached
  BY <1>15 DEF DropCached
<1>16. CASE UNCHANGED vars
  BY <1>16 DEF vars
<1> QED
  BY Constants, <1>0, <1>2, <1>3, <1>4, <1>5, <1>6, <1>7, <1>8, <1>9, <1>10, <1>11, <1>12,
     <1>13, <1>14, <1>15, <1>16
     DEF Next, RequestStep, ChangeStep
-----------------------------------------------------------------------------
(* A view is added by publish_view alone, under the identifier it reserved. *)
LEMMA SavedGrows ==
  ASSUME IInv, [Next]_vars
  PROVE  \/ Saved' \subseteq Saved
         \/ \E a \in Requests : InsertView(a) /\ Saved' \subseteq Saved \cup {op[a].id}
<1>1. CASE UNCHANGED <<views, view_order>>
  BY <1>1 DEF Saved
<1>2. ASSUME NEW a \in Requests, InsertView(a)
      PROVE  Saved' \subseteq Saved \cup {op[a].id}
  <2>1. views' = [RoomInViews EXCEPT ![op[a].id] =
                   ResolveTask(op[a].file.model, op[a].generation)]
    BY <1>2 DEF InsertView
  <2>2. /\ RoomInViews \in [Ids -> View \cup {NoView}]
        /\ \A i \in Ids : RoomInViews[i] # NoView => i \in Saved
    BY RoomForOne DEF IInv
  <2>3. \A i \in Ids : i # op[a].id => views'[i] = RoomInViews[i]
    BY <2>1, <2>2
  <2> QED
    BY <2>2, <2>3 DEF Saved
<1>3. ASSUME NEW a \in Requests, JournalFails(a) PROVE Saved' \subseteq Saved
  <2>1. views \in [Ids -> View \cup {NoView}]
    BY DEF IInv, TypeOK
  <2> QED
    BY <1>3, <2>1 DEF JournalFails, Saved
<1> QED
  BY <1>1, <1>2, <1>3, CommitKeepsSaved, ReplaceKeepsSaved, ViewWriters

(* Identifiers stay unique.                                                *)
LEMMA IdsStep == IInv /\ [Next]_vars => IdsOK'
<1> SUFFICES ASSUME IInv, [Next]_vars PROVE IdsOK'
  OBVIOUS
<1>0. view_sequence \in Nat /\ op \in [Actors -> Operation] /\ Requests \subseteq Actors
  BY Constants DEF IInv, TypeOK
<1>1. /\ \A i \in Saved : i \in Nat /\ i <= view_sequence
      /\ \A a \in Requests : UsesId(a) => op[a].id \in 1..view_sequence
      /\ \A a \in Requests : op[a].pc = "insert" => op[a].id \notin Saved
      /\ \A a, b \in Requests : UsesId(a) /\ UsesId(b) /\ op[a].id = op[b].id => a = b
  BY DEF IInv, IdsOK, At, Saved, Ids
<1>2. ASSUME NEW a \in Requests, InsertView(a), Saved' \subseteq Saved \cup {op[a].id}
      PROVE  IdsOK'
  <2>1. /\ op[a].pc = "insert" /\ op'[a].pc \in {"journal", "idle"}
        /\ op'[a].pc = "journal" => op'[a].id = op[a].id
        /\ \A b \in Requests \ {a} : op'[b] = op[b]
        /\ view_sequence' = view_sequence
    BY <1>0, <1>2, GoToEffect, ReturnEffect DEF InsertView, At
  <2>2. UsesId(a) /\ op[a].id \in 1..view_sequence
    BY <1>1, <2>1 DEF UsesId
  <2>3. \A b \in Requests : UsesId(b)' => UsesId(b) /\ op'[b].id = op[b].id
    BY <2>1, <2>2 DEF UsesId
  <2>4. ASSUME NEW b \in Requests, op'[b].pc = "insert" PROVE op'[b].id \notin Saved'
    <3>1. b # a /\ op'[b] = op[b]
      BY <2>1, <2>4
    <3>2. UsesId(b) /\ op[b].id # op[a].id
      BY <1>1, <2>2, <2>4, <3>1 DEF UsesId
    <3> QED
      BY <1>1, <1>2, <2>4, <3>1, <3>2
  <2> QED
    BY <1>0, <1>1, <1>2, <2>1, <2>2, <2>3, <2>4 DEF IdsOK, At
<1>3. CASE Saved' \subseteq Saved
  <2>1. CASE op' = op /\ view_sequence' = view_sequence
    BY <1>1, <1>3, <2>1 DEF IdsOK, UsesId, At
  <2>2. ASSUME NEW a \in Actors, Step(a), Reserves(a) PROVE IdsOK'
    <3>1. /\ view_sequence' = view_sequence + 1 /\ op'[a].id = view_sequence + 1
          /\ \A b \in Requests \ {a} : op'[b] = op[b]
      BY <1>0, <2>2 DEF Step, Reserves
    <3>2. \A b \in Requests \ {a} :
            UsesId(b)' => UsesId(b) /\ op'[b].id \in 1..view_sequence
      BY <1>1, <3>1 DEF UsesId
    <3>3. \A b \in Requests \ {a} : op'[b].pc = "insert" => op'[b].id \notin Saved
      BY <1>1, <3>1
    <3>4. \A b, c \in Requests \ {a} :
            UsesId(b)' /\ UsesId(c)' /\ op'[b].id = op'[c].id => b = c
      BY <1>1, <3>1, <3>2
    <3> QED
      BY <1>0, <1>1, <1>3, <3>1, <3>2, <3>3, <3>4 DEF IdsOK, At
  <2>3. ASSUME NEW a \in Actors, Step(a), ~Reserves(a) PROVE IdsOK'
    <3>1. /\ view_sequence' = view_sequence
          /\ \A b \in Requests \ {a} : op'[b] = op[b]
      BY <1>0, <2>3 DEF Step
    <3>2. \/ op'[a].pc \notin {"insert", "journal"}
          \/ op[a].pc = "insert" /\ op'[a].pc = "journal" /\ op'[a].id = op[a].id
      BY <2>3 DEF Step, Begins, GoesOn, Inserts, Reads, Computes, Leaves, Publishing,
                  ChangeTail
    <3>3. \A b \in Requests : UsesId(b)' => UsesId(b) /\ op'[b].id = op[b].id
      BY <3>1, <3>2 DEF UsesId
    <3>4. \A b \in Requests : op'[b].pc = "insert" => op[b].pc = "insert" /\ op'[b].id = op[b].id
      BY <3>1, <3>2
    <3> QED
      BY <1>1, <1>3, <3>1, <3>3, <3>4 DEF IdsOK, At
  <2> QED
    BY <2>1, <2>2, <2>3, SomeoneSteps
<1> QED
  BY <1>2, <1>3, SavedGrows

(* Only a model change writes the active model, and it advances the        *)
(* generation.                                                             *)
LEMMA ModelWriters ==
  ASSUME [Next]_vars
  PROVE  \/ UNCHANGED <<active, generation>>
         \/ \E a \in Actors : ReplaceModel(a)
<1> USE DEF model_vars
<1>1. ASSUME NEW a \in Requests, RequestStep(a) PROVE UNCHANGED <<active, generation>>
  BY <1>1 DEF RequestStep, Resolve, Interpret, RetrieveContext, LookupInterpretation,
              Infer, AcceptInterpretation, AnswerRetrieval, ReserveId, InsertStale, InsertView,
              JournalSucceeds, JournalFails, ReadTrustedView, ComputeRevision,
              CommitRevision
<1>2. ASSUME NEW a \in Actors, ChangeStep(a), ~ReplaceModel(a)
      PROVE  UNCHANGED <<active, generation>>
  BY <1>2 DEF ChangeStep, LoadScenario, LoadRescan, ReadActivePath, RescanEnds,
              RejectRescan, ClearRetrieval,
              ClearInterpretation, FinishChange
<1>3. CASE DropCached
  BY <1>3 DEF DropCached
<1>4. CASE UNCHANGED vars
  BY <1>4 DEF vars
<1> QED
  BY <1>1, <1>2, <1>3, <1>4 DEF Next

(* A snapshot taken before or at this generation is handled alike.         *)
LEMMA LocalsStep == IInv /\ [Next]_vars => LocalsOK'
<1> SUFFICES ASSUME IInv, [Next]_vars, NEW b \in Requests
             PROVE  /\ SnapshotOK(b)'
                    /\ (op[b].pc \in {"publish", "insert"} => Resolvable(op[b].file.model))'
                    /\ (op[b].pc \in {"reconcile", "commit"} =>
                          op[b].id \in Ids /\ op[b].view \in View)'
                    /\ (At(b, "commit") => Reconcilable(op[b].file.model, op[b].view))'
  BY DEF LocalsOK
<1>0. generation \in Nat /\ op[b] \in Operation /\ b \in Actors /\ op[b].generation \in Nat
  BY Constants DEF IInv, TypeOK, Operation
<1>1. /\ SnapshotOK(b)
      /\ op[b].pc \in {"publish", "insert"} => Resolvable(op[b].file.model)
      /\ op[b].pc \in {"reconcile", "commit"} => op[b].id \in Ids /\ op[b].view \in View
      /\ op[b].pc = "commit" => Reconcilable(op[b].file.model, op[b].view)
  BY DEF IInv, LocalsOK, At
<1>2. \/ active' = active /\ generation' = generation
      \/ generation' = generation + 1
  BY ModelWriters DEF ReplaceModel
<1>3. ASSUME NEW f \in {active, op[b].file}, NEW g \in Nat, g <= generation,
             g = generation => f.model = active.model,
             op'[b].file = f, op'[b].generation = g
      PROVE  SnapshotOK(b)'
  BY <1>0, <1>2, <1>3 DEF SnapshotOK
<1>4. \/ op'[b] = op[b]
      \/ Reserves(b) \/ Begins(b) \/ GoesOn(b) \/ Inserts(b) \/ Reads(b) \/ Computes(b)
      \/ Leaves(b)
  BY <1>0, SomeoneSteps DEF Step
<1>5. CASE op'[b] = op[b]
  <2>1. SnapshotOK(b)'
    BY <1>0, <1>1, <1>2, <1>5 DEF SnapshotOK
  <2> QED
    BY <1>1, <1>5, <2>1 DEF At
<1>6. CASE Begins(b)
  <2>1. SnapshotOK(b)'
    BY <1>0, <1>3, <1>6 DEF Begins
  <2> QED
    BY <1>6, <2>1 DEF Begins, At
<1>7. CASE GoesOn(b)
  <2>1. SnapshotOK(b)'
    BY <1>0, <1>1, <1>3, <1>7 DEF GoesOn, KeepsSnapshot, SnapshotOK
  <2> QED
    BY <1>7, <2>1 DEF GoesOn, KeepsSnapshot, Publishing, At
<1>8. CASE Reserves(b)
  <2>1. op[b].pc \in Publishing
    BY <1>8 DEF Reserves, Publishing
  <2>2. SnapshotOK(b)'
    BY <1>0, <1>1, <1>3, <1>8, <2>1 DEF Reserves, KeepsSnapshot, SnapshotOK
  <2> QED
    BY <1>1, <1>8, <2>2 DEF Reserves, KeepsSnapshot, At
<1>9. CASE Computes(b)
  <2>1. SnapshotOK(b)'
    BY <1>0, <1>3, <1>9 DEF Computes
  <2> QED
    BY <1>1, <1>9, <2>1 DEF Computes, At
<1>10. CASE Inserts(b) \/ Leaves(b)
  <2>1. op'[b].pc \in {"journal", "idle", "rescan", "change", "clear_retrieval",
                       "clear_interpretation", "reconfigure"}
    BY <1>10 DEF Inserts, Leaves, ChangeTail
  <2> QED
    BY <2>1 DEF SnapshotOK, Publishing, At
<1>11. CASE Reads(b)
  BY <1>11 DEF Reads, SnapshotOK, Publishing, At
<1> QED
  BY <1>4, <1>5, <1>6, <1>7, <1>8, <1>9, <1>10, <1>11
-----------------------------------------------------------------------------
(* The saved views against the active model.  BoundAsResolved is what      *)
(* makes a later model's meaning of a tag comparable with the one a        *)
(* component shows: the dependency remembers it.                           *)
BoundAsResolved(v) ==
  \A t \in Tags : v.component[t].status = "bound" =>
                    /\ v.component[t].meaning = v.dependency[t]
                    /\ v.component[t].meaning \in LocalMeanings

ViewOK(v) ==
  v.generation = generation /\ MatchesModel(active.model, v) /\ BoundAsResolved(v)

ViewsOK == \A i \in Saved : ViewOK(views[i])

(* The composer, the reconciler and the model-change loop record the       *)
(* meaning of every component they present as bound.                       *)
LEMMA ResolveTaskRecords ==
  ASSUME NEW m \in Model, NEW g \in Nat
  PROVE  BoundAsResolved(ResolveTask(m, g))
BY DEF BoundAsResolved, ResolveTask, AbsentComponent, InScope

(* The same of one reconciled view.                                        *)
LEMMA ReconcileViewRecords ==
  ASSUME NEW m \in Model, NEW v \in View, NEW g \in Nat
  PROVE  BoundAsResolved(ReconcileView(m, v, g))
<1> DEFINE r == ReconcileView(m, v, g)
<1>1. /\ r.component = [t \in Tags |-> MergedComponent(m, v, t)]
      /\ r.dependency = [t \in Tags |-> MergedDependency(m, v, t)]
  BY DEF ReconcileView
<1>2. ASSUME NEW t \in Tags, MergedComponent(m, v, t).status = "bound"
      PROVE  /\ t \notin Removed(m, v) \cup Changed(m, v)
             /\ InScope(m, t)
             /\ MergedComponent(m, v, t).meaning = m.tags[t]
  <2>1. v.component[t] \in Component
    BY DEF View
  <2> QED
    BY <1>2, <2>1, MergedComponentMatches DEF MergedComponent, Component
<1> QED
  BY <1>1, <1>2 DEF BoundAsResolved, MergedDependency, InScope

(* And of what the model-change loop leaves of a view.                     *)
LEMMA RevalidateViewRecords ==
  ASSUME NEW m \in Model, NEW v \in View, NEW g \in Nat, BoundAsResolved(v)
  PROVE  BoundAsResolved(RevalidateView(m, v, g))
<1>1. BoundAsResolved(SupersedeView(v, g))
  BY DEF SupersedeView, BoundAsResolved, View
<1> QED
  BY <1>1, ReconcileViewRecords DEF RevalidateView

(* Every step leaves the saved views stamped with the active generation    *)
(* and matching the active model.                                          *)
LEMMA ViewsStep == IInv /\ ViewsOK /\ [Next]_vars => ViewsOK'
<1> SUFFICES ASSUME IInv, ViewsOK, [Next]_vars, NEW i \in Saved' PROVE ViewOK(views[i])'
  BY DEF ViewsOK
<1> USE Constants
<1>0. /\ i \in Ids /\ views \in [Ids -> View \cup {NoView}] /\ generation \in Nat
      /\ views'[i] # NoView /\ op \in [Actors -> Operation]
  BY DEF IInv, TypeOK, Saved
<1>1. ASSUME views'[i] = views[i], UNCHANGED <<active, generation>> PROVE ViewOK(views[i])'
  <2>1. i \in Saved
    BY <1>0, <1>1 DEF Saved
  <2> QED
    BY <1>1, <2>1 DEF ViewsOK, ViewOK
<1>2. ASSUME NEW a \in Requests, InsertView(a) PROVE ViewOK(views[i])'
  <2>0. UNCHANGED <<active, generation>>
    BY <1>2 DEF InsertView, model_vars
  <2>1. /\ op[a].file.model \in Model /\ op[a].generation = generation
        /\ op[a].file.model = active.model
        /\ Resolvable(op[a].file.model)
    BY <1>0, <1>2 DEF InsertView, At, IInv, LocalsOK, SnapshotOK, Operation
  <2>2. RoomInViews \in [Ids -> View \cup {NoView}]
    BY RoomForOne DEF IInv
  <2>3. CASE i = op[a].id
    <3>1. views'[i] = ResolveTask(active.model, generation)
      BY <1>0, <1>2, <2>1, <2>2, <2>3 DEF InsertView
    <3> QED
      BY <1>0, <2>0, <2>1, <3>1, ResolveTaskMatches, ResolveTaskRecords DEF ViewOK
  <2>4. CASE i # op[a].id
    <3>1. views'[i] = RoomInViews[i]
      BY <1>0, <1>2, <2>2, <2>4 DEF InsertView
    <3>2. views'[i] = views[i]
      BY <1>0, <3>1 DEF RoomInViews
    <3> QED
      BY <1>1, <2>0, <3>2
  <2> QED
    BY <2>3, <2>4
<1>3. ASSUME NEW a \in Requests, JournalFails(a) PROVE ViewOK(views[i])'
  <2>1. views'[i] = views[i]
    BY <1>0, <1>3 DEF JournalFails
  <2> QED
    BY <1>1, <1>3, <2>1 DEF JournalFails, model_vars
<1>4. ASSUME NEW a \in Requests, CommitRevision(a) PROVE ViewOK(views[i])'
  <2>0. UNCHANGED <<active, generation>>
    BY <1>4 DEF CommitRevision, model_vars
  <2>1. CASE views'[i] = views[i]
    BY <1>1, <2>0, <2>1
  <2>2. CASE views'[i] # views[i]
    <3>1. /\ op[a].generation = generation
          /\ views' = [views EXCEPT ![op[a].id] =
               ReconcileView(op[a].file.model, op[a].view, op[a].generation)]
      BY <1>4, <2>2 DEF CommitRevision
    <3>2. /\ op[a].file.model = active.model /\ op[a].file.model \in Model
          /\ op[a].view \in View /\ Reconcilable(op[a].file.model, op[a].view)
      BY <1>0, <1>4, <3>1 DEF CommitRevision, At, IInv, LocalsOK, SnapshotOK, Operation
    <3>3. views'[i] = ReconcileView(active.model, op[a].view, generation)
      BY <1>0, <2>2, <3>1, <3>2
    <3> QED
      BY <1>0, <2>0, <3>2, <3>3, ReconcileViewMatches, ReconcileViewRecords DEF ViewOK
  <2> QED
    BY <2>1, <2>2
<1>5. ASSUME NEW a \in Actors, ReplaceModel(a) PROVE ViewOK(views[i])'
  <2>1. i \in Saved
    BY <1>5, ReplaceKeepsSaved
  <2>2. /\ active'.model = op[a].file.model /\ generation' = generation + 1
        /\ op[a].file.model \in Model
        /\ views'[i] = RevalidateView(op[a].file.model, views[i], generation + 1)
    BY <1>0, <1>5, <2>1 DEF ReplaceModel, Operation
  <2>3. views[i] \in View /\ BoundAsResolved(views[i]) /\ generation + 1 \in Nat
    BY <1>0, <2>1 DEF Saved, ViewsOK, ViewOK
  <2> QED
    BY <2>2, <2>3, RevalidateViewMatches, RevalidateViewRecords DEF ViewOK
<1>6. CASE UNCHANGED <<views, view_order>> /\ UNCHANGED <<active, generation>>
  BY <1>1, <1>6
<1> QED
  BY <1>2, <1>3, <1>4, <1>5, <1>6, ViewWriters, ModelWriters
-----------------------------------------------------------------------------
(* The invariant holds of every behaviour.                                 *)
LEMMA Invariant == Spec => [](IInv /\ ViewsOK)
<1>1. Init => IInv /\ ViewsOK
  BY InitInvariant DEF Init, ViewsOK, Saved
<1>2. IInv /\ ViewsOK /\ [Next]_vars => IInv' /\ ViewsOK'
  BY TypeStep, OrderStep, IdsStep, LocalsStep, ViewsStep DEF IInv
<1> QED
  BY <1>1, <1>2, PTL DEF Spec

(* Every variable of the runtime keeps its type: in particular eviction    *)
(* never pops an empty order and an identifier stays in range.             *)
THEOREM TypeCorrect == Spec => []TypeOK
<1>1. IInv => TypeOK
  BY DEF IInv
<1> QED
  BY <1>1, Invariant, PTL

(* view_order_ and views_ never drift apart, for any number of requests,   *)
(* any capacity and any interleaving of evictions, rollbacks, reconciles   *)
(* and model changes.                                                      *)
THEOREM OrderExact == Spec => []OrderMatchesViews
<1>1. IInv => OrderMatchesViews
  <2> SUFFICES ASSUME IInv PROVE OrderMatchesViews
    OBVIOUS
  <2>1. {view_order[k] : k \in 1..Len(view_order)} = Saved
    BY DEF IInv, OrderOK
  <2> QED
    BY <2>1 DEF IInv, OrderOK, OrderMatchesViews
<1> QED
  BY <1>1, Invariant, PTL

(* No view of an old generation is ever saved.                             *)
THEOREM NoStaleView == Spec => []ViewsCarryGeneration
<1>1. ViewsOK => ViewsCarryGeneration
  BY DEF ViewsOK, ViewOK, ViewsCarryGeneration
<1> QED
  BY <1>1, Invariant, PTL

(* No saved view presents a binding that the active model does not         *)
(* declare, whatever the models are.                                       *)
THEOREM ViewsMatchModel == Spec => []SavedViewsMatchModel
<1>1. ViewsOK => SavedViewsMatchModel
  BY DEF ViewsOK, ViewOK, SavedViewsMatchModel
<1> QED
  BY <1>1, Invariant, PTL
-----------------------------------------------------------------------------
(* What a step may do to a saved view.                                     *)

(* Nothing, unless the step is a committed reconcile or a model change.    *)
LEMMA ViewFates ==
  ASSUME IInv, [Next]_vars, NEW i \in Saved, views'[i] # NoView
  PROVE  \/ views'[i] = views[i]
         \/ \E m \in Model, g \in Nat : views'[i] = ReconcileView(m, views[i], g)
         \/ \E g \in Nat : views'[i] = SupersedeView(views[i], g)
<1> USE Constants
<1>0. /\ i \in Ids /\ views \in [Ids -> View \cup {NoView}] /\ generation + 1 \in Nat
      /\ op \in [Actors -> Operation]
  BY DEF IInv, TypeOK, Saved
<1>1. ASSUME NEW a \in Requests, InsertView(a) PROVE views'[i] = views[i]
  <2>1. i # op[a].id
    BY <1>1 DEF InsertView, At, IInv, IdsOK
  <2>2. RoomInViews \in [Ids -> View \cup {NoView}]
    BY RoomForOne DEF IInv
  <2>3. views'[i] = RoomInViews[i]
    BY <1>0, <1>1, <2>1, <2>2 DEF InsertView
  <2> QED
    BY <1>0, <2>3 DEF RoomInViews
<1>2. ASSUME NEW a \in Requests, JournalFails(a) PROVE views'[i] = views[i]
  BY <1>0, <1>2 DEF JournalFails
<1>3. ASSUME NEW a \in Requests, CommitRevision(a), views'[i] # views[i]
      PROVE  \E m \in Model, g \in Nat : views'[i] = ReconcileView(m, views[i], g)
  <2>1. /\ Unchanged(a)
        /\ views' = [views EXCEPT ![op[a].id] =
             ReconcileView(op[a].file.model, op[a].view, op[a].generation)]
    BY <1>3 DEF CommitRevision
  <2>2. op[a].id = i
    BY <1>0, <1>3, <2>1
  <2>3. op[a].file.model \in Model /\ op[a].generation \in Nat
    BY <1>0 DEF Operation
  <2>4. views'[i] = ReconcileView(op[a].file.model, views[i], op[a].generation)
    BY <1>0, <2>1, <2>2 DEF Unchanged
  <2> QED
    BY <2>3, <2>4
<1>4. ASSUME NEW a \in Actors, ReplaceModel(a)
      PROVE  \/ \E m \in Model, g \in Nat : views'[i] = ReconcileView(m, views[i], g)
             \/ \E g \in Nat : views'[i] = SupersedeView(views[i], g)
  <2>1. op[a].file.model \in Model
    BY <1>0 DEF Operation
  <2>2. views'[i] = RevalidateView(op[a].file.model, views[i], generation + 1)
    BY <1>0, <1>4 DEF ReplaceModel
  <2> QED
    BY <1>0, <2>1, <2>2 DEF RevalidateView
<1> QED
  BY <1>1, <1>2, <1>3, <1>4, ViewWriters

(* A conflict, once recorded in a saved view, is never forgotten.          *)
THEOREM ConflictsKept == Spec => ConflictsAreKept
<1>1. IInv /\ [Next]_vars =>
        [\A i \in Saved : views[i].conflicted /\ views'[i] # NoView =>
                            views'[i].conflicted]_vars
  <2> SUFFICES ASSUME IInv, [Next]_vars, NEW i \in Saved,
                      views[i].conflicted, views'[i] # NoView
               PROVE  views'[i].conflicted
    OBVIOUS
  <2>1. views[i] \in View
    BY DEF IInv, TypeOK, Saved
  <2>2. ASSUME NEW m \in Model, NEW g \in Nat
        PROVE  ReconcileView(m, views[i], g).conflicted
    BY DEF ReconcileView
  <2>3. ASSUME NEW g \in Nat PROVE SupersedeView(views[i], g).conflicted
    BY <2>1 DEF SupersedeView, View
  <2> QED
    BY <2>2, <2>3, ViewFates
<1> QED
  BY <1>1, Invariant, PTL DEF Spec, ConflictsAreKept

(* No silent rebinding, for all models and all interleavings: the tag ID   *)
(* in a saved view never comes to show another meaning, and a component    *)
(* that was blocked is never presented as bound again.                     *)
THEOREM NeverRebound == Spec => NoSilentRebinding
<1>1. IInv /\ ViewsOK /\ [Next]_vars =>
        [\A i \in Saved, t \in Tags :
           /\ views'[i] # NoView
           /\ views[i].component[t].status # "absent"
           => /\ views'[i].component[t].meaning = views[i].component[t].meaning
              /\ views'[i].component[t].status = "bound" =>
                   views[i].component[t].status = "bound"]_vars
  <2> DEFINE Kept(i, t) ==
               /\ views'[i].component[t].meaning = views[i].component[t].meaning
               /\ views'[i].component[t].status = "bound" =>
                    views[i].component[t].status = "bound"
  <2> SUFFICES ASSUME IInv, ViewsOK, [Next]_vars, NEW i \in Saved, NEW t \in Tags,
                      views'[i] # NoView, views[i].component[t].status # "absent"
               PROVE  Kept(i, t)
    OBVIOUS
  <2>1. views[i] \in View /\ BoundAsResolved(views[i])
    BY DEF IInv, TypeOK, Saved, ViewsOK, ViewOK
  <2>2. ASSUME NEW m \in Model, NEW g \in Nat, views'[i] = ReconcileView(m, views[i], g)
        PROVE  Kept(i, t)
    <3> DEFINE old == views[i].component[t]
    <3>1. views'[i].component[t] = MergedComponent(m, views[i], t)
      BY <2>2 DEF ReconcileView
    <3>2. /\ old \in Component /\ m.tags[t] \in Bindings
          /\ old.status = "bound" => /\ old.meaning = views[i].dependency[t]
                                     /\ old.meaning \in LocalMeanings
      BY <2>1 DEF View, Model, BoundAsResolved
    <3>3. NoTag \notin LocalMeanings
      BY MeaningAssumption
    <3>4. ASSUME old.status = "bound", InScope(m, t), t \notin Changed(m, views[i])
          PROVE  m.tags[t] = old.meaning
      BY <3>2, <3>3, <3>4 DEF Changed, InScope
    <3> QED
      BY <3>1, <3>2, <3>4 DEF MergedComponent, Component
  <2>3. ASSUME NEW g \in Nat, views'[i] = SupersedeView(views[i], g)
        PROVE  Kept(i, t)
    BY <2>1, <2>3 DEF SupersedeView, View
  <2> QED
    BY <2>2, <2>3, ViewFates
<1> QED
  BY <1>1, Invariant, PTL DEF Spec, NoSilentRebinding
-----------------------------------------------------------------------------
(* Journal, caches and telemetry.  Whatever an actor does, the locals of   *)
(* the others stay; and the stage it is at says which action it takes.     *)
LEMMA OthersStay ==
  ASSUME IInv, NEW a \in Actors, RequestStep(a) \/ ChangeStep(a)
  PROVE  \A b \in Actors \ {a} : op'[b] = op[b]
<1>0. op \in [Actors -> Operation]
  BY DEF IInv, TypeOK
<1> USE DEF GoTo, Return
<1>1. CASE Resolve(a) \/ Interpret(a) \/ RetrieveContext(a) \/ AnswerRetrieval(a)
  BY <1>0, <1>1 DEF Resolve, Interpret, RetrieveContext, AnswerRetrieval
<1>2. CASE LookupInterpretation(a) \/ Infer(a) \/ AcceptInterpretation(a)
  BY <1>0, <1>2 DEF LookupInterpretation, Infer, AcceptInterpretation
<1>3. CASE ReserveId(a) \/ InsertStale(a) \/ InsertView(a) \/ JournalSucceeds(a) \/ JournalFails(a)
  BY <1>0, <1>3 DEF ReserveId, InsertStale, InsertView, JournalSucceeds, JournalFails
<1>4. CASE (\E id \in Ids : ReadTrustedView(a, id)) \/ ComputeRevision(a) \/ CommitRevision(a)
  BY <1>0, <1>4 DEF ReadTrustedView, ComputeRevision, CommitRevision
<1>5. CASE ChangeStep(a)
  BY <1>0, <1>5 DEF ChangeStep, LoadScenario, LoadRescan, ReadActivePath, RescanEnds,
       RejectRescan, ReplaceModel, ClearRetrieval, ClearInterpretation, FinishChange
<1> QED
  BY <1>1, <1>2, <1>3, <1>4, <1>5 DEF RequestStep

(* The stage a request goes to tells which action took it there.           *)
StageOf(a) ==
  /\ op'[a].pc \in {"idle", "retrieve", "lookup", "infer", "interpreted", "publish", "insert",
                    "journal", "reconcile", "commit"}
  /\ op'[a].pc = "lookup" => RetrieveContext(a)
  /\ op'[a].pc = "infer" => GoTo(a, "infer") /\ At(a, "lookup")

(* Every step of a request does.                                           *)
LEMMA RequestStages ==
  ASSUME IInv, NEW a \in Requests, RequestStep(a)
  PROVE  StageOf(a)
<1>0. op \in [Actors -> Operation] /\ a \in Actors
  BY Constants DEF IInv, TypeOK
<1>1. op[a] \in Operation
  BY <1>0
<1>2. CASE Return(a)
  BY <1>0, <1>2, ReturnEffect DEF StageOf
<1>3. ASSUME NEW s \in {"publish", "journal"}, GoTo(a, s) PROVE StageOf(a)
  BY <1>0, <1>3, GoToEffect DEF StageOf
<1>4. CASE Resolve(a) \/ Interpret(a)
  <2>1. PICK s \in {"publish", "retrieve"} : op' = [op EXCEPT ![a] = Snapshot(s)]
    BY <1>4 DEF Resolve, Interpret
  <2>2. Snapshot(s).pc = s
    BY DEF Snapshot, Idle
  <2> QED
    BY <1>0, <2>1, <2>2, OpUpdate DEF StageOf
<1>5. CASE RetrieveContext(a)
  <2>1. PICK c : op' = [op EXCEPT ![a].pc = "lookup", ![a].scope = c]
    BY <1>5 DEF RetrieveContext
  <2>2. op'[a] = [op[a] EXCEPT !.pc = "lookup", !.scope = c]
    BY <1>0, <2>1
  <2>3. op'[a].pc = "lookup"
    BY <1>1, <2>2 DEF Operation
  <2> QED
    BY <1>5, <2>3 DEF StageOf
<1>6. CASE LookupInterpretation(a)
  <2>1. ASSUME NEW c, NEW r,
               op' = [op EXCEPT ![a].pc = "interpreted", ![a].scope = c, ![a].ready = r]
        PROVE  StageOf(a)
    <3>1. op'[a] = [op[a] EXCEPT !.pc = "interpreted", !.scope = c, !.ready = r]
      BY <1>0, <2>1
    <3>2. op'[a].pc = "interpreted"
      BY <1>1, <3>1 DEF Operation
    <3> QED
      BY <3>2 DEF StageOf
  <2>2. CASE GoTo(a, "infer")
    <3>1. At(a, "lookup")
      BY <1>6 DEF LookupInterpretation
    <3>2. op'[a].pc = "infer"
      BY <1>0, <2>2, GoToEffect
    <3> QED
      BY <2>2, <3>1, <3>2 DEF StageOf
  <2> QED
    BY <1>6, <2>1, <2>2 DEF LookupInterpretation
<1>7. CASE Infer(a)
  <2>1. ASSUME NEW r, op' = [op EXCEPT ![a].pc = "interpreted", ![a].ready = r]
        PROVE  StageOf(a)
    <3>1. op'[a] = [op[a] EXCEPT !.pc = "interpreted", !.ready = r]
      BY <1>0, <2>1
    <3>2. op'[a].pc = "interpreted"
      BY <1>1, <3>1 DEF Operation
    <3> QED
      BY <3>2 DEF StageOf
  <2> QED
    BY <1>2, <1>7, <2>1 DEF Infer
<1>8. CASE ReserveId(a)
  <2>1. op'[a] = [op[a] EXCEPT !.pc = "insert", !.id = view_sequence + 1]
    BY <1>0, <1>8 DEF ReserveId
  <2>2. op'[a].pc = "insert"
    BY <1>1, <2>1 DEF Operation
  <2> QED
    BY <2>2 DEF StageOf
<1>9. ASSUME NEW id \in Ids, ReadTrustedView(a, id) PROVE StageOf(a)
  BY <1>0, <1>9, OpUpdate DEF ReadTrustedView, Idle, StageOf
<1>10. CASE ComputeRevision(a)
  <2>1. CASE op' = [op EXCEPT ![a].pc = "commit", ![a].file = active,
                              ![a].generation = generation]
    <3>1. op'[a] = [op[a] EXCEPT !.pc = "commit", !.file = active,
                                 !.generation = generation]
      BY <1>0, <2>1
    <3>2. op'[a].pc = "commit"
      BY <1>1, <3>1 DEF Operation
    <3> QED
      BY <3>2 DEF StageOf
  <2> QED
    BY <1>2, <1>10, <2>1 DEF ComputeRevision
<1> QED
  BY <1>2, <1>3, <1>4, <1>5, <1>6, <1>7, <1>8, <1>9, <1>10
     DEF RequestStep, AnswerRetrieval, AcceptInterpretation, InsertStale, InsertView,
         JournalSucceeds, JournalFails, CommitRevision

(* A step of a model change leaves its actor in one.                       *)
LEMMA ChangeStages ==
  ASSUME IInv, NEW a \in Actors, ChangeStep(a)
  PROVE  Leaves(a)
<1>0. op \in [Actors -> Operation]
  BY DEF IInv, TypeOK
<1>1. ASSUME NEW f, NEW s \in {"change", "rescan"},
             op' = [op EXCEPT ![a] = [Idle EXCEPT !.pc = s, !.file = f]]
      PROVE  Leaves(a)
  BY <1>0, <1>1, OpUpdate DEF Idle, Leaves
<1>2. CASE ReplaceModel(a)
  <2>1. op[a] \in Operation
    BY <1>0
  <2>2. op'[a] = [op[a] EXCEPT !.pc = "clear_retrieval", !.generation = generation + 1]
    BY <1>0, <1>2 DEF ReplaceModel
  <2>3. op'[a].pc = "clear_retrieval"
    BY <2>1, <2>2 DEF Operation
  <2> QED
    BY <2>3 DEF Leaves, ChangeTail
<1>3. CASE ClearRetrieval(a) \/ ClearInterpretation(a)
  BY <1>0, <1>3, GoToEffect DEF ClearRetrieval, ClearInterpretation, Leaves, ChangeTail
<1>4. CASE Return(a)
  BY <1>0, <1>4, ReturnEffect DEF Leaves
<1> QED
  BY <1>1, <1>2, <1>3, <1>4
     DEF ChangeStep, LoadScenario, LoadRescan, ReadActivePath, RescanEnds, RejectRescan, FinishChange

(* A publication that waits for its append goes on by it alone.            *)
LEMMA JournalStays ==
  ASSUME IInv, [Next]_vars, NEW b \in Requests, At(b, "journal")
  PROVE  op'[b] = op[b] \/ JournalSucceeds(b) \/ JournalFails(b)
<1>0. b \in Actors
  BY Constants
<1>1. CASE RequestStep(b)
  BY <1>1 DEF RequestStep, At, Resolve, Interpret, RetrieveContext, AnswerRetrieval,
       LookupInterpretation, Infer, AcceptInterpretation, ReserveId, InsertStale, InsertView,
       ReadTrustedView, ComputeRevision, CommitRevision
<1>2. CASE ChangeStep(b)
  BY <1>2 DEF ChangeStep, At, LoadScenario, LoadRescan, ReadActivePath, RescanEnds,
       RejectRescan, ReplaceModel, ClearRetrieval, ClearInterpretation, FinishChange
<1>3. ASSUME NEW a \in Actors \ {b}, RequestStep(a) \/ ChangeStep(a)
      PROVE  op'[b] = op[b]
  BY <1>0, <1>3, OthersStay
<1>4. CASE DropCached \/ UNCHANGED vars
  BY <1>4 DEF DropCached, vars
<1> QED
  BY Constants, <1>1, <1>2, <1>3, <1>4 DEF Next

(* Every step keeps the saved views and the journal together.             *)
LEMMA JournaledStep == IInv /\ SavedViewsAreJournaled /\ [Next]_vars => SavedViewsAreJournaled'
<1> SUFFICES ASSUME IInv, SavedViewsAreJournaled, [Next]_vars, JournalEnabled, NEW i \in Saved'
             PROVE  \/ i \in journaled'
                    \/ \E a \in Requests : op'[a].pc = "journal" /\ op'[a].id = i
  BY DEF SavedViewsAreJournaled, At
<1>0. /\ op \in [Actors -> Operation] /\ Requests \subseteq Actors
      /\ views \in [Ids -> View \cup {NoView}]
  BY Constants DEF IInv, TypeOK
<1>1. journaled \subseteq journaled'
  <2>1. ASSUME NEW a \in Requests, RequestStep(a) PROVE journaled \subseteq journaled'
    BY <2>1 DEF RequestStep, Resolve, Interpret, RetrieveContext, AnswerRetrieval,
         LookupInterpretation, Infer, AcceptInterpretation, ReserveId, InsertStale, InsertView,
         JournalSucceeds, JournalFails, ReadTrustedView, ComputeRevision, CommitRevision
  <2>2. ASSUME NEW a \in Actors, ChangeStep(a) PROVE journaled \subseteq journaled'
    BY <2>2 DEF ChangeStep, LoadScenario, LoadRescan, ReadActivePath, RescanEnds,
         RejectRescan, ReplaceModel, ClearRetrieval, ClearInterpretation, FinishChange
  <2> QED
    BY <2>1, <2>2 DEF Next, DropCached, vars
<1>2. CASE i \in Saved
  <2>1. CASE i \in journaled
    BY <1>1, <2>1
  <2>2. ASSUME NEW b \in Requests, At(b, "journal"), op[b].id = i
        PROVE  i \in journaled' \/ (op'[b].pc = "journal" /\ op'[b].id = i)
    <3>1. CASE op'[b] = op[b]
      BY <2>2, <3>1 DEF At
    <3>2. CASE JournalSucceeds(b)
      BY <2>2, <3>2 DEF JournalSucceeds
    <3>3. CASE JournalFails(b)
      <4>1. views'[i] = NoView
        BY <1>0, <1>2, <2>2, <3>3 DEF JournalFails, Saved
      <4> QED
        BY <4>1 DEF Saved
    <3> QED
      BY <2>2, <3>1, <3>2, <3>3, JournalStays
  <2> QED
    BY <1>2, <2>1, <2>2 DEF SavedViewsAreJournaled
<1>3. CASE i \notin Saved
  <2>1. PICK a \in Requests : InsertView(a) /\ i = op[a].id
    BY <1>3, SavedGrows
  <2>2. op'[a].pc = "journal" /\ op'[a].id = op[a].id
    BY <1>0, <2>1, GoToEffect DEF InsertView
  <2> QED
    BY <2>1, <2>2
<1> QED
  BY <1>2, <1>3

(* A saved view whose record is not in the journal belongs to a            *)
(* publication that still waits for its append: no failed append, evicted  *)
(* view or model change leaves one behind that a restart would not know.   *)
THEOREM SavedIsJournaled == Spec => []SavedViewsAreJournaled
<1>1. Init => SavedViewsAreJournaled
  BY DEF Init, SavedViewsAreJournaled, Saved
<1> QED
  BY <1>1, Invariant, JournaledStep, PTL DEF Spec
-----------------------------------------------------------------------------
(* Telemetry: whoever holds model_change_mutex_ carries the generation that*)
(* is active, since no other change begins before it has finished.         *)
ChangesOK ==
  /\ \A a \in Actors : op[a].pc \in ChangeTail => op[a].generation = generation
  /\ TelemetryFollowsModel

(* Every step keeps the telemetry with the model or with a change.         *)
LEMMA ChangesStep == IInv /\ ChangesOK /\ [Next]_vars => ChangesOK'
<1> SUFFICES ASSUME IInv, ChangesOK, [Next]_vars PROVE ChangesOK'
  OBVIOUS
<1>0. op \in [Actors -> Operation] /\ Requests \subseteq Actors
  BY Constants DEF IInv, TypeOK
<1>1. ASSUME NEW a \in Actors, UNCHANGED <<generation, telemetry_generation>>,
             \A b \in Actors \ {a} : op'[b] = op[b],
             op[a].pc \in ChangeTail => op'[a].pc \in ChangeTail,
             op'[a].pc \in ChangeTail =>
               op[a].pc \in ChangeTail /\ op'[a].generation = op[a].generation
      PROVE  ChangesOK'
  BY <1>1 DEF ChangesOK, TelemetryFollowsModel
<1>2. ASSUME NEW a \in Requests, RequestStep(a) PROVE ChangesOK'
  <2>1. op[a].pc \notin ChangeTail /\ UNCHANGED <<generation, telemetry_generation>>
    BY <1>2 DEF RequestStep, At, ChangeTail, model_vars, Resolve, Interpret, RetrieveContext,
         AnswerRetrieval, LookupInterpretation, Infer, AcceptInterpretation, ReserveId, InsertStale,
         InsertView, JournalSucceeds, JournalFails, ReadTrustedView, ComputeRevision, CommitRevision
  <2>2. op'[a].pc \notin ChangeTail
    BY <1>2, RequestStages DEF StageOf, ChangeTail
  <2> QED
    BY <1>0, <1>1, <1>2, <2>1, <2>2, OthersStay
<1>3. ASSUME NEW a \in Actors,
             \/ \E f \in Files : LoadScenario(a, f) \/ LoadRescan(a, f)
             \/ ReadActivePath(a) \/ RescanEnds(a) \/ RejectRescan(a)
      PROVE  ChangesOK'
  <2>1. op[a].pc \notin ChangeTail /\ UNCHANGED <<generation, telemetry_generation>>
    BY <1>3 DEF LoadScenario, LoadRescan, ReadActivePath, RescanEnds, RejectRescan, At,
         ChangeTail, model_vars
  <2>3. op'[a].pc \notin ChangeTail
    <3>1. CASE Return(a)
      BY <1>0, <3>1, ReturnEffect DEF ChangeTail
    <3>2. ASSUME NEW f, NEW s \in {"change", "rescan"},
                 op' = [op EXCEPT ![a] = [Idle EXCEPT !.pc = s, !.file = f]]
          PROVE  op'[a].pc \notin ChangeTail
      BY <1>0, <3>2, OpUpdate DEF Idle, ChangeTail
    <3> QED
      BY <1>3, <3>1, <3>2 DEF LoadScenario, LoadRescan, ReadActivePath, RescanEnds, RejectRescan
  <2>2. ChangeStep(a)
    BY <1>3 DEF ChangeStep
  <2> QED
    BY <1>1, <2>1, <2>2, <2>3, OthersStay
<1>4. ASSUME NEW a \in Actors, ClearRetrieval(a) \/ ClearInterpretation(a) PROVE ChangesOK'
  <2>1. PICK s \in {"clear_interpretation", "reconfigure"} : GoTo(a, s)
    BY <1>4 DEF ClearRetrieval, ClearInterpretation
  <2>2. op'[a].pc = s /\ KeepsSnapshot(a) /\ \A b \in Actors \ {a} : op'[b] = op[b]
    BY <1>0, <2>1, GoToEffect
  <2>3. op[a].pc \in ChangeTail /\ UNCHANGED <<generation, telemetry_generation>>
    BY <1>4 DEF ClearRetrieval, ClearInterpretation, At, ChangeTail, model_vars
  <2> QED
    BY <1>1, <2>2, <2>3 DEF KeepsSnapshot, ChangeTail
<1>5. ASSUME NEW a \in Actors, FinishChange(a) PROVE ChangesOK'
  <2>1. /\ op[a].pc \in ChangeTail /\ op'[a].pc = "idle"
        /\ \A b \in Actors \ {a} : op'[b] = op[b]
    BY <1>0, <1>5, ReturnEffect DEF FinishChange, At, ChangeTail
  <2>2. telemetry_generation' = op[a].generation /\ generation' = generation
    BY <1>5 DEF FinishChange, model_vars
  <2>3. telemetry_generation' = generation'
    BY <2>1, <2>2 DEF ChangesOK
  <2> QED
    BY <2>1, <2>2, <2>3 DEF ChangesOK, TelemetryFollowsModel, ChangeTail
<1>6. ASSUME NEW a \in Actors, ReplaceModel(a) PROVE ChangesOK'
  <2>1. op[a] \in Operation
    BY <1>0
  <2>2. op'[a] = [op[a] EXCEPT !.pc = "clear_retrieval", !.generation = generation + 1]
    BY <1>0, <1>6 DEF ReplaceModel
  <2>3. /\ op'[a].pc \in ChangeTail /\ op'[a].generation = generation'
    BY <1>6, <2>1, <2>2 DEF Operation, ChangeTail, ReplaceModel
  <2>4. \A b \in Actors \ {a} : op'[b].pc \notin ChangeTail
    BY <1>0, <1>6 DEF ReplaceModel, ChangeMutexFree
  <2> QED
    BY <2>3, <2>4 DEF ChangesOK, TelemetryFollowsModel
<1>7. CASE DropCached \/ UNCHANGED vars
  BY <1>7 DEF DropCached, vars, model_vars, ChangesOK, TelemetryFollowsModel
<1> QED
  BY <1>2, <1>3, <1>4, <1>5, <1>6, <1>7 DEF Next, ChangeStep

(* Once no model change is under way the telemetry store is configured for *)
(* the active generation, for any number of changes on any threads.        *)
THEOREM TelemetryFollows == Spec => []TelemetryFollowsModel
<1>1. Init => ChangesOK
  BY DEF Init, ChangesOK, TelemetryFollowsModel, Idle, ChangeTail
<1>2. ChangesOK => TelemetryFollowsModel
  BY DEF ChangesOK
<1> QED
  BY <1>1, <1>2, Invariant, ChangesStep, PTL DEF Spec
-----------------------------------------------------------------------------
(* The caches.  An entry is no newer than the active generation, and one of*)
(* that generation was computed from the active model; so was the context  *)
(* that a request of that generation carries to the provider.              *)
EntryOK(e) ==
  /\ e.key.generation <= generation
  /\ e.key.generation = generation => e.scope = active.model

CachesOK ==
  /\ \A e \in retrieval_cache \cup interpretation_cache : EntryOK(e)
  /\ \A a \in Requests :
       op[a].pc \in {"lookup", "infer"} /\ op[a].generation = generation =>
         op[a].scope = active.model

(* A new entry is the context that retrieve computed or the answer of the  *)
(* provider, under the key of the request's snapshot.                      *)
LEMMA CacheWriters ==
  ASSUME [Next]_vars, NEW e \in (retrieval_cache \cup interpretation_cache)'
  PROVE  \/ e \in retrieval_cache \cup interpretation_cache
         \/ \E a \in Requests :
              /\ e.key.generation = op[a].generation
              /\ \/ RetrieveContext(a) /\ e.scope = op[a].file.model
                 \/ Infer(a) /\ e.scope = op[a].scope
<1>1. ASSUME NEW a \in Requests, RetrieveContext(a),
             e \notin retrieval_cache \cup interpretation_cache
      PROVE  e.key.generation = op[a].generation /\ e.scope = op[a].file.model
  BY <1>1 DEF RetrieveContext, Put, CacheKey
<1>2. ASSUME NEW a \in Requests, Infer(a), e \notin retrieval_cache \cup interpretation_cache
      PROVE  e.key.generation = op[a].generation /\ e.scope = op[a].scope
  BY <1>2 DEF Infer, Put, CacheKey
<1>3. ASSUME NEW a \in Requests, RequestStep(a), ~RetrieveContext(a), ~Infer(a)
      PROVE  UNCHANGED cache_vars
  BY <1>3 DEF RequestStep, Resolve, Interpret, AnswerRetrieval, LookupInterpretation,
       AcceptInterpretation, ReserveId, InsertStale, InsertView, JournalSucceeds, JournalFails,
       ReadTrustedView, ComputeRevision, CommitRevision
<1>4. ASSUME NEW a \in Actors, ChangeStep(a)
      PROVE  e \in retrieval_cache \cup interpretation_cache
  BY <1>4 DEF ChangeStep, LoadScenario, LoadRescan, ReadActivePath, RescanEnds, RejectRescan,
       ReplaceModel, ClearRetrieval, ClearInterpretation, FinishChange, cache_vars
<1>5. CASE DropCached \/ UNCHANGED vars
  BY <1>5 DEF DropCached, vars
<1> QED
  BY <1>1, <1>2, <1>3, <1>4, <1>5 DEF Next, cache_vars

(* Every step keeps the caches harmless.                                   *)
LEMMA CachesStep == IInv /\ CachesOK /\ [Next]_vars => CachesOK'
<1> SUFFICES ASSUME IInv, CachesOK, [Next]_vars PROVE CachesOK'
  OBVIOUS
<1>0. /\ op \in [Actors -> Operation] /\ Requests \subseteq Actors /\ generation \in Nat
      /\ retrieval_cache \subseteq RetrievalEntry
      /\ interpretation_cache \subseteq InterpretationEntry
  BY Constants DEF IInv, TypeOK
<1>1. \/ active' = active /\ generation' = generation
      \/ generation' = generation + 1
  BY ModelWriters DEF ReplaceModel
<1>2. ASSUME NEW g \in Nat, NEW c, g <= generation, g = generation => c = active.model
      PROVE  g <= generation' /\ (g = generation' => c = active'.model)
  BY <1>0, <1>1, <1>2
<1>3. ASSUME NEW e \in (retrieval_cache \cup interpretation_cache)' PROVE EntryOK(e)'
  <2>1. CASE e \in retrieval_cache \cup interpretation_cache
    <3>1. e.key.generation \in Nat
      BY <1>0, <2>1 DEF RetrievalEntry, InterpretationEntry, CacheKeys
    <3> QED
      BY <1>2, <2>1, <3>1 DEF CachesOK, EntryOK
  <2>2. ASSUME NEW a \in Requests, e.key.generation = op[a].generation,
               \/ RetrieveContext(a) /\ e.scope = op[a].file.model
               \/ Infer(a) /\ e.scope = op[a].scope
        PROVE  EntryOK(e)'
    <3>1. op[a].generation \in Nat
      BY <1>0 DEF Operation
    <3>2. /\ op[a].generation <= generation
          /\ op[a].generation = generation => op[a].file.model = active.model
      BY <2>2 DEF IInv, LocalsOK, SnapshotOK, RetrieveContext, Infer, At, Publishing
    <3>3. op[a].generation = generation => e.scope = active.model
      BY <2>2, <3>2 DEF CachesOK, Infer, At
    <3> QED
      BY <1>2, <2>2, <3>1, <3>2, <3>3 DEF EntryOK
  <2> QED
    BY <2>1, <2>2, CacheWriters
<1>4. ASSUME NEW a \in Requests, op'[a].pc \in {"lookup", "infer"},
             op'[a].generation = generation'
      PROVE  op'[a].scope = active'.model
  <2>0. op[a] \in Operation /\ op[a].generation \in Nat /\ a \in Actors
    BY <1>0 DEF Operation
  <2>1. ASSUME op'[a].generation = op[a].generation, op[a].pc \in Publishing,
               op[a].generation = generation => op'[a].scope = active.model
        PROVE  op'[a].scope = active'.model
    <3>1. op[a].generation <= generation
      BY <2>1 DEF IInv, LocalsOK, SnapshotOK
    <3> QED
      BY <1>2, <1>4, <2>0, <2>1, <3>1
  <2>2. CASE op'[a] = op[a]
    BY <1>4, <2>1, <2>2 DEF CachesOK, Publishing
  <2>3. CASE RetrieveContext(a)
    <3>1. op[a].pc \in Publishing
      BY <2>3 DEF RetrieveContext, At, Publishing
    <3>2. PICK c : /\ op' = [op EXCEPT ![a].pc = "lookup", ![a].scope = c]
                   /\ \/ c = op[a].file.model
                      \/ \E e \in retrieval_cache :
                           /\ e.key = CacheKey(op[a].file.model, op[a].generation)
                           /\ c = e.scope
      BY <2>3 DEF RetrieveContext
    <3>3. op'[a] = [op[a] EXCEPT !.pc = "lookup", !.scope = c]
      BY <1>0, <2>0, <3>2
    <3>4. op'[a].scope = c /\ op'[a].generation = op[a].generation
      BY <2>0, <3>3 DEF Operation
    <3>5. ASSUME op[a].generation = generation PROVE c = active.model
      <4>1. op[a].file.model = active.model
        BY <3>1, <3>5 DEF IInv, LocalsOK, SnapshotOK
      <4>2. ASSUME NEW e \in retrieval_cache,
                   e.key = CacheKey(op[a].file.model, op[a].generation)
            PROVE  e.scope = active.model
        <5>1. e.key.generation = generation
          BY <3>5, <4>2 DEF CacheKey
        <5> QED
          BY <5>1 DEF CachesOK, EntryOK
      <4> QED
        BY <3>2, <4>1, <4>2
    <3> QED
      BY <2>1, <3>1, <3>4, <3>5
  <2>4. CASE GoTo(a, "infer") /\ At(a, "lookup")
    <3>1. op'[a] = [op[a] EXCEPT !.pc = "infer"]
      BY <1>0, <2>0, <2>4 DEF GoTo
    <3>2. op'[a].scope = op[a].scope /\ op'[a].generation = op[a].generation
      BY <2>0, <3>1 DEF Operation
    <3> QED
      BY <2>1, <2>4, <3>2 DEF CachesOK, At, Publishing
  <2>5. CASE RequestStep(a)
    BY <1>4, <2>3, <2>4, <2>5, RequestStages DEF StageOf
  <2>6. ~ChangeStep(a)
    BY <1>4, <2>0, ChangeStages DEF Leaves, ChangeTail
  <2>7. ASSUME NEW b \in Actors \ {a}, RequestStep(b) \/ ChangeStep(b)
        PROVE  op'[a] = op[a]
    BY <2>0, <2>7, OthersStay
  <2>8. CASE DropCached \/ UNCHANGED vars
    BY <2>2, <2>8 DEF DropCached, vars
  <2> QED
    BY <1>0, <2>2, <2>5, <2>6, <2>7, <2>8 DEF Next
<1> QED
  BY <1>3, <1>4 DEF CachesOK

(* A request for the active model never hits an entry computed from        *)
(* another, however late a slow inference stores its answer.               *)
THEOREM CachesCurrent == Spec => []CacheHitsAreCurrent
<1>1. Init => CachesOK
  BY Constants DEF Init, CachesOK, Idle
<1>2. CachesOK => CacheHitsAreCurrent
  BY DEF CachesOK, EntryOK, CacheHitsAreCurrent, CacheKey
<1> QED
  BY <1>1, <1>2, Invariant, CachesStep, PTL DEF Spec
=============================================================================
