------------------------- MODULE ViewReconciliation -------------------------
(***************************************************************************)
(* What resolving a task against a model produces, and what reconciling a  *)
(* saved view with a later model does to it: screen_composer.cpp and       *)
(* reconciliation.cpp as pure operators.                                   *)
(*                                                                         *)
(* A model declares, for every tag ID, either nothing (NoTag) or a         *)
(* meaning: the binding snapshot of owner, role, data type, unit and       *)
(* source (tag_binding_snapshot).  A task asks for the overview of one     *)
(* asset; LocalMeanings are the meanings that put a tag into the scope of  *)
(* that task (owned by its anchor asset, with a requested role).  A tag ID *)
(* that exists with a meaning outside LocalMeanings belongs to another     *)
(* asset or has another role.                                              *)
(***************************************************************************)
EXTENDS Naturals

CONSTANTS ModelIds, Tags, Meanings, LocalMeanings, NoTag

ASSUME MeaningAssumption ==
  /\ LocalMeanings \subseteq Meanings
  /\ NoTag \notin Meanings

Bindings == Meanings \cup {NoTag}

(* A validated model: a local meaning needs the anchor asset to exist.     *)
Model ==
  {m \in [model_id: ModelIds, revision: Nat,
          anchored: BOOLEAN, tags: [Tags -> Bindings]] :
     m.anchored \/ \A t \in Tags : m.tags[t] \notin LocalMeanings}

(* "absent" stands for a component the view does not have; "bound" for one *)
(* without a status field, as the composer emits it.                       *)
ComponentStatus == {"absent", "bound", "unavailable", "conflict"}
Component == [status: ComponentStatus, meaning: Bindings]
AbsentComponent == [status |-> "absent", meaning |-> NoTag]

ViewStatus == {"ready", "needs-review", "conflict"}

(* conflicted: the view's "changes" hold a conflict entry.  issues: its    *)
(* "issues" array is not empty.                                            *)
View ==
  [model_id: ModelIds, revision: Nat, generation: Nat, status: ViewStatus,
   component: [Tags -> Component], dependency: [Tags -> Bindings],
   conflicted: BOOLEAN, issues: BOOLEAN]
-----------------------------------------------------------------------------
InScope(m, t) == m.tags[t] \in LocalMeanings

(* resolve_task throws unless the anchor asset is declared.                *)
Resolvable(m) == m.anchored

(* resolve_task for the anchored overview, stamped with a generation.      *)
ResolveTask(m, g) ==
  LET empty == \A t \in Tags : ~InScope(m, t)
  IN [model_id   |-> m.model_id,
      revision   |-> m.revision,
      generation |-> g,
      status     |-> IF empty THEN "needs-review" ELSE "ready",
      component  |-> [t \in Tags |->
                        IF InScope(m, t)
                        THEN [status |-> "bound", meaning |-> m.tags[t]]
                        ELSE AbsentComponent],
      dependency |-> [t \in Tags |-> IF InScope(m, t) THEN m.tags[t] ELSE NoTag],
      conflicted |-> FALSE,
      issues     |-> empty]
-----------------------------------------------------------------------------
(* Faulty variant: a binding counts as changed only when it leaves the     *)
(* scope of the task.                                                      *)
ChangedOutOfScope(m, v) ==
  {t \in Tags : /\ v.dependency[t] # NoTag
                /\ m.tags[t] # NoTag
                /\ ~InScope(m, t)}

(* Dependencies whose tag is gone, and whose tag ID now means another thing. *)
Removed(m, v) ==
  {t \in Tags : v.dependency[t] # NoTag /\ m.tags[t] = NoTag}
Changed(m, v) ==
  {t \in Tags : /\ v.dependency[t] # NoTag
                /\ m.tags[t] # NoTag
                /\ m.tags[t] # v.dependency[t]}

(* One entry of the component merge: a component that was blocked before   *)
(* stays as it is, one that is not declared any more becomes unavailable.  *)
MergedComponent(m, v, t) ==
  LET old == v.component[t]
  IN CASE t \in Removed(m, v) -> [old EXCEPT !.status = "unavailable"]
       [] t \in Changed(m, v) -> [old EXCEPT !.status = "conflict"]
       [] OTHER ->
            IF old.status \in {"absent", "bound"} /\ InScope(m, t)
            THEN [status |-> "bound", meaning |-> m.tags[t]]
            ELSE IF old.status = "bound"
                 THEN [old EXCEPT !.status = "unavailable"]
                 ELSE old

(* One entry of the dependency merge: a blocked dependency keeps the       *)
(* binding it was resolved with.                                           *)
MergedDependency(m, v, t) ==
  IF t \in Removed(m, v) \cup Changed(m, v) \/ ~InScope(m, t)
  THEN v.dependency[t]
  ELSE m.tags[t]

(* reconcile_view throws DomainError for a view of another model and for a *)
(* task that no longer resolves.                                           *)
Reconcilable(m, v) == m.model_id = v.model_id /\ Resolvable(m)

ReconcileView(m, v, g) ==
  LET conflict == \/ Changed(m, v) # {}
                  \/ v.conflicted
                  \/ v.status = "conflict"
                  \/ \E t \in Tags : v.component[t].status = "conflict"
      issues   == \/ v.issues
                  \/ Removed(m, v) \cup Changed(m, v) # {}
                  \/ \A t \in Tags : ~InScope(m, t)
  IN [model_id   |-> m.model_id,
      revision   |-> m.revision,
      generation |-> g,
      status     |-> IF conflict THEN "conflict"
                     ELSE IF issues \/ v.status = "needs-review"
                     THEN "needs-review" ELSE "ready",
      component  |-> [t \in Tags |-> MergedComponent(m, v, t)],
      dependency |-> [t \in Tags |-> MergedDependency(m, v, t)],
      conflicted |-> v.conflicted \/ Changed(m, v) # {},
      issues     |-> issues]
-----------------------------------------------------------------------------
(* Faulty variant: the view is only stamped.                               *)
StampView(v, g) == [v EXCEPT !.generation = g]

(* The catch branch of apply_model_change: the view is kept as it was,     *)
(* marked for review and stamped with the new generation.                  *)
SupersedeView(v, g) ==
  [v EXCEPT !.status = "needs-review", !.issues = TRUE, !.generation = g]

(* What the model-replacement loop leaves of one saved view.               *)
RevalidateView(m, v, g) ==
  IF Reconcilable(m, v) THEN ReconcileView(m, v, g) ELSE SupersedeView(v, g)
-----------------------------------------------------------------------------
(* A view that m can reconcile is at m's revision, and every component it  *)
(* still presents as bound has the meaning that m declares; a view that m  *)
(* cannot reconcile is marked for review.                                  *)
MatchesModel(m, v) ==
  IF Reconcilable(m, v)
  THEN /\ v.revision = m.revision
       /\ \A t \in Tags : v.component[t].status = "bound" =>
                            v.component[t].meaning = m.tags[t]
  ELSE v.status = "needs-review"
=============================================================================
