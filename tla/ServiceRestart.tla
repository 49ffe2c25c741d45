--------------------------- MODULE ServiceRestart ---------------------------
(***************************************************************************)
(* What outlives a run of the service: the model files, which people edit  *)
(* at any time, and the operational store.  start() loads the one and      *)
(* restores saved views from the other; the watcher polls the file of the  *)
(* active model.                                                           *)
(*                                                                         *)
(* The store is the durable log of DurableLog, whose records are not lost. *)
(* A view is known by the sequence of its record; what it shows, and how a *)
(* replacement of the model changes it, is ContextRuntime's.  A write of a *)
(* file is taken to change its modification time.                          *)
(***************************************************************************)
EXTENDS Naturals, Sequences, FiniteSets, SequencesExt

CONSTANTS
  Paths, ConfiguredPath,  \* the model files, options_.model among them
  Models,                 \* what validates: [model_id, revision, anchored]
  Broken, Missing,        \* a file that does not load, and no file
  InitialFiles,           \* what the files hold at first
  NoModel, NoPath,        \* the values of variables that have none
  MaxViews,               \* maximum_saved_views()
  RecentLimit,            \* recent_record_limit, and the 512 of recent(512)
  MaxRecords,             \* how many records the store has room for
  MaxEdits                \* bound: how often the files are written

ASSUME RestartAssumption ==
  /\ ConfiguredPath \in Paths
  /\ InitialFiles \in [Paths -> Models \cup {Broken, Missing}]
  /\ {MaxViews, RecentLimit, MaxRecords} \subseteq Nat \ {0}
  /\ MaxEdits \in Nat

VARIABLES
  files,        \* what each path holds
  mtime,        \* its modification time
  log,          \* the records of the store; the index is the sequence
  up,           \* the service runs
  model,        \* model_
  active_path,  \* active_model_path_
  view_order,   \* view_order_, by the sequence of the record
  selection,    \* the scenario being selected, loaded and not yet applied
  observed,     \* observed_path, observed_time and have_time
  watching,     \* where the watcher is
  candidate     \* the model it has loaded

vars == <<files, mtime, log, up, model, active_path, view_order, selection,
          observed, watching, candidate>>
disk_vars == <<files, mtime, log>>
watch_vars == <<observed, watching, candidate>>

SavedTask(id) == [kind |-> "saved_task", model_id |-> id]
(* service_start, model_selected and the others: their data is not read.   *)
OtherRecord == [kind |-> "other", model_id |-> NoModel]

Loadable(p) == files[p] \in Models
Room == Len(log) < MaxRecords

NotObserved == [path |-> NoPath, time |-> 0, have |-> FALSE]

Init ==
  /\ files = InitialFiles
  /\ mtime = [p \in Paths |-> 0]
  /\ log = <<>>
  /\ up = FALSE
  /\ model = NoModel
  /\ active_path = NoPath
  /\ view_order = <<>>
  /\ selection = {}
  /\ observed = NotObserved
  /\ watching = "idle"
  /\ candidate = NoModel

(* An engineer writes, replaces or removes a file.                         *)
Edit(p, content) ==
  /\ FoldFunction(+, 0, mtime) < MaxEdits
  /\ content # files[p]
  /\ files' = [files EXCEPT ![p] = content]
  /\ mtime' = [mtime EXCEPT ![p] = @ + 1]
  /\ UNCHANGED <<log, up, model, active_path, view_order, selection, watch_vars>>
-----------------------------------------------------------------------------
(* start().                                                                *)
Window == {k \in 1..Len(log) : k + RecentLimit > Len(log)}

(* The task of record k resolves against model m: its asset is there.      *)
Restorable(k, m) ==
  /\ log[k].kind = "saved_task"
  /\ log[k].model_id = m.model_id
  /\ m.anchored

Tasks(m) == {k \in Window : Restorable(k, m)}

(* Faulty variant: a full list is left as it is.                           *)
InsertIfRoom(order, k) == IF Len(order) >= MaxViews THEN order ELSE Append(order, k)

Insert(order, k) ==
  Append(IF Len(order) >= MaxViews THEN Tail(order) ELSE order, k)

(* restore_journal_records: the records of recent(512) in their order.     *)
RestoreJournalRecords(m) ==
  LET after[k \in 0 .. Len(log)] ==
        IF k = 0 THEN <<>>
        ELSE IF k \in Tasks(m) THEN Insert(after[k - 1], k) ELSE after[k - 1]
  IN after[Len(log)]

(* A model that does not load, or a full store, makes start() throw.       *)
Start ==
  /\ ~up
  /\ Loadable(ConfiguredPath)
  /\ Room
  /\ up' = TRUE
  /\ model' = files[ConfiguredPath]
  /\ active_path' = ConfiguredPath
  /\ view_order' = RestoreJournalRecords(model')
  /\ log' = Append(log, OtherRecord)
  /\ UNCHANGED <<files, mtime, selection, watch_vars>>

(* Shutdown or a crash.                                                    *)
End ==
  /\ up
  /\ up' = FALSE
  /\ model' = NoModel
  /\ active_path' = NoPath
  /\ view_order' = <<>>
  /\ selection' = {}
  /\ observed' = NotObserved
  /\ watching' = "idle"
  /\ candidate' = NoModel
  /\ UNCHANGED disk_vars
-----------------------------------------------------------------------------
(* publish_view.  The view that made room is gone, also when the append    *)
(* fails and the new view is taken back.                                   *)
Publish ==
  /\ up
  /\ model.anchored
  /\ Room
  /\ log' = Append(log, SavedTask(model.model_id))
  /\ view_order' = Insert(view_order, Len(log'))
  /\ UNCHANGED <<files, mtime, up, model, active_path, selection, watch_vars>>

PublishFails ==
  /\ up
  /\ model.anchored
  /\ ~Room
  /\ Len(view_order) >= MaxViews
  /\ view_order' = Tail(view_order)
  /\ UNCHANGED <<disk_vars, up, model, active_path, selection, watch_vars>>

(* select_scenario, up to the change mutex.                                *)
SelectScenario(p) ==
  /\ up
  /\ selection = {}
  /\ Loadable(p)
  /\ selection' = {[path |-> p, model |-> files[p]]}
  /\ UNCHANGED <<disk_vars, up, model, active_path, view_order, watch_vars>>

(* apply_model_change; a record that cannot be appended is given up.       *)
Replace(m, p) ==
  /\ model' = m
  /\ active_path' = p
  /\ log' = IF Room THEN Append(log, OtherRecord) ELSE log
  /\ UNCHANGED <<files, mtime, up, view_order>>

ApplySelection ==
  /\ up
  /\ \E s \in selection : Replace(s.model, s.path)
  /\ selection' = {}
  /\ UNCHANGED watch_vars
-----------------------------------------------------------------------------
(* watch_models.  The status and the time of the file are one look at it;  *)
(* a look that finds nothing new changes nothing.                          *)
Polling == up /\ watching = "idle"
Safe(p) == files[p] # Missing
Unwatched == <<disk_vars, up, model, active_path, view_order, selection>>

(* Another file is the active one: its time is taken, its content is not.  *)
FirstLook ==
  /\ Polling
  /\ active_path # observed.path
  /\ observed' = [path |-> active_path, time |-> mtime[active_path],
                  have |-> Safe(active_path)]
  /\ UNCHANGED <<Unwatched, watching, candidate>>

(* Faulty variant: the file is not loaded.                                 *)
SeeChangeOnly ==
  /\ Polling
  /\ active_path = observed.path
  /\ Safe(active_path) /\ observed.have /\ mtime[active_path] # observed.time
  /\ observed' = [observed EXCEPT !.time = mtime[active_path]]
  /\ UNCHANGED <<Unwatched, watching, candidate>>

SeeChange ==
  /\ Polling
  /\ active_path = observed.path
  /\ Safe(active_path) /\ observed.have /\ mtime[active_path] # observed.time
  /\ observed' = [observed EXCEPT !.time = mtime[active_path]]
  /\ watching' = "loading"
  /\ UNCHANGED <<Unwatched, candidate>>

MissFile ==
  /\ Polling
  /\ active_path = observed.path
  /\ ~Safe(active_path) /\ observed.have
  /\ observed' = [observed EXCEPT !.have = FALSE]
  /\ UNCHANGED <<Unwatched, watching, candidate>>

(* The file is back: its time is taken, its content is not.                *)
LookAgain ==
  /\ Polling
  /\ active_path = observed.path
  /\ Safe(active_path) /\ ~observed.have
  /\ observed' = [observed EXCEPT !.time = mtime[active_path], !.have = TRUE]
  /\ UNCHANGED <<Unwatched, watching, candidate>>

LoadModelFile ==
  /\ watching = "loading"
  /\ IF Loadable(observed.path)
     THEN candidate' = files[observed.path] /\ watching' = "comparing"
     ELSE candidate' = NoModel /\ watching' = "idle"
  /\ UNCHANGED <<Unwatched, observed>>

CompareCandidate ==
  /\ watching = "comparing"
  /\ IF candidate = model
     THEN candidate' = NoModel /\ watching' = "idle"
     ELSE UNCHANGED candidate /\ watching' = "applying"
  /\ UNCHANGED <<Unwatched, observed>>

Stale(m) == m.model_id = model.model_id /\ m.revision <= model.revision

RejectCandidate ==
  /\ watching = "applying"
  /\ Stale(candidate)
  /\ candidate' = NoModel
  /\ watching' = "idle"
  /\ UNCHANGED <<Unwatched, observed>>

ApplyCandidate ==
  /\ watching = "applying"
  /\ ~Stale(candidate)
  /\ Replace(candidate, observed.path)
  /\ candidate' = NoModel
  /\ watching' = "idle"
  /\ UNCHANGED <<selection, observed>>

Watch ==
  \/ FirstLook \/ SeeChange \/ MissFile \/ LookAgain
  \/ LoadModelFile \/ CompareCandidate \/ RejectCandidate \/ ApplyCandidate

Next ==
  \/ \E p \in Paths, content \in Models \cup {Broken, Missing} : Edit(p, content)
  \/ Start \/ End
  \/ Publish \/ PublishFails
  \/ \E p \in Paths : SelectScenario(p)
  \/ ApplySelection
  \/ Watch

Spec == Init /\ [][Next]_vars

(* The watcher is woken every model_rescan_ms.                             *)
FairSpec == Spec /\ WF_vars(Watch)
-----------------------------------------------------------------------------
(* A restart brings back, in their order, the newest tasks that were saved *)
(* for this model and still resolve, as many as there is room for; records *)
(* of other kinds and other models use up the window, nothing else does.   *)
RestoreKeepsNewest ==
  [][Start =>
       LET tasks == Tasks(model')
           newer(k) == {l \in tasks : l > k}
       IN /\ Range(view_order') = {k \in tasks : Cardinality(newer(k)) < MaxViews}
          /\ \A i, j \in DOMAIN view_order' : i < j => view_order'[i] < view_order'[j]]_vars

(* The watcher has looked at file p before it was written, and the model m *)
(* it holds now may replace the active one.                                *)
Noticeable(p, m) ==
  /\ up /\ active_path = p /\ observed.path = p /\ observed.have
  /\ files[p] = m
  /\ mtime[p] # observed.time
  /\ ~Stale(m)

(* An edit that replaces a file the watcher has looked at is taken over,   *)
(* whatever the watcher was doing with an earlier content, unless it is    *)
(* overtaken: by another edit, a selection, a newer revision or the end of *)
(* the service.  An edit before the first look, or one that a look at a    *)
(* missing file has preceded, is not: its time is taken for the known one. *)
EditsAreTakenOver ==
  \A p \in Paths, m \in Models :
    Noticeable(p, m) ~> \/ model = m
                        \/ ~up \/ active_path # p \/ files[p] # m
                        \/ Stale(m)
=============================================================================
