-------------------------- MODULE EngineeringImport --------------------------
(***************************************************************************)
(* The importer of engineering bundles, followed by the service that loads *)
(* the model it wrote.  import_manifest reads the artifacts in a fixed     *)
(* order, whatever their order in the manifest; a row is emitted into the  *)
(* native model, or reported as unresolved, or makes the whole import      *)
(* fail.  index_model then judges the model by its own rules.              *)
(*                                                                         *)
(* What a file holds is chosen row by row as it is read.  An identity is a *)
(* number, 0 one that valid_identity refuses.  A cell is kept where a      *)
(* later decision depends on it; a malformed cell of any other column is   *)
(* like a malformed file, the end of the import.                           *)
(***************************************************************************)
EXTENDS Naturals, Sequences, FiniteSets, SequencesExt

CONSTANTS
  Ids,             \* the valid identities that each kind of row may have
  MaxRecords,      \* Limits::max_records_per_artifact
  MaxTotal,        \* Limits::max_total_records
  MaxModelRecords  \* kMaxAssets, kMaxRelationships, kMaxTags, kMaxAlarms

ASSUME ImportAssumption ==
  /\ Ids \in [{"assets", "relationships", "tags", "io", "alarms", "communications", "documents"}
               -> SUBSET (Nat \ {0})]
  /\ {MaxRecords, MaxTotal} \subseteq Nat \ {0}
  /\ MaxModelRecords \in [{"assets", "relationships", "tags", "alarms"} -> Nat]

VARIABLES
  status,      \* what the importer, and then the service, is doing
  at,          \* the artifact in work, by its place in Order
  rows,        \* the rows of each artifact read so far
  model,       \* ImportState::model
  seen,        \* the sets of identities of ImportState, and record_ids
  emitted,     \* ImportState::emitted_tags
  unresolved,  \* report.unresolved: <<artifact, row>>
  total,       \* total_records
  refusals     \* what index_model objects to

vars == <<status, at, rows, model, seen, emitted, unresolved, total, refusals>>

(* The order of import_impl.                                               *)
Order == <<"assets", "relationships", "tags", "io", "alarms", "communications", "documents">>
Kinds == Range(Order)
Optional == {"io", "communications", "documents"}
Arrays == {"assets", "relationships", "tags", "alarms"}

(* The rows an artifact may hold.  A tag is numeric, or of another type    *)
(* that is supported ("text", and "level" if its role is level or flow),   *)
(* or of none of these.  The threshold or the name of an alarm may be      *)
(* malformed, or its operator or severity not supported.                   *)
Rows(k) ==
  LET AnyId == Ids[k] \cup {0}
  IN CASE k = "relationships" -> [id : AnyId, from : Ids["assets"], to : Ids["assets"]]
       [] k = "tags" -> [id : AnyId, asset_id : Ids["assets"],
                         type : {"number", "text", "level", "other"}]
       [] k = "io" -> [id : AnyId, tag_id : Ids["tags"]]
       [] k = "alarms" -> [id : AnyId, asset_id : Ids["assets"], tag_id : Ids["tags"],
                           details : {"ok", "malformed", "unsupported"}]
       [] OTHER -> [id : AnyId]

SupportedTypes == {"number", "text", "level"}

Init ==
  /\ status = "manifest"
  /\ at = 1
  /\ rows = [k \in Kinds |-> <<>>]
  /\ model = [k \in Arrays |-> <<>>]
  /\ seen = [k \in Kinds |-> {}]
  /\ emitted = {}
  /\ unresolved = <<>>
  /\ total = 0
  /\ refusals = {}
-----------------------------------------------------------------------------
(* import_impl.                                                            *)
(* fail: the import ends, and its state is destroyed.                      *)
Fail ==
  /\ status' = "failed"
  /\ at' = 1
  /\ rows' = [k \in Kinds |-> <<>>]
  /\ model' = [k \in Arrays |-> <<>>]
  /\ seen' = [k \in Kinds |-> {}]
  /\ emitted' = {}
  /\ unresolved' = <<>>
  /\ total' = 0
  /\ UNCHANGED refusals

ReadManifest ==
  /\ status = "manifest"
  /\ status' = "parsing"
  /\ UNCHANGED <<at, rows, model, seen, emitted, unresolved, total, refusals>>

(* An unsupported manifest, or a machine without identity or revision.     *)
ManifestInvalid ==
  /\ status = "manifest"
  /\ Fail

(* An entry repeats an identity or a kind, does not have the format of its *)
(* kind, or names a file that is outside the bundle or cannot be read.     *)
ArtifactInvalid ==
  /\ status = "manifest"
  /\ Fail

Kind == Order[at]

SkipArtifact ==
  /\ status = "parsing"
  /\ at <= Len(Order)
  /\ Kind \in Optional
  /\ rows[Kind] = <<>>
  /\ at' = at + 1
  /\ UNCHANGED <<status, rows, model, seen, emitted, unresolved, total, refusals>>

MissingArtifact ==
  /\ status = "parsing"
  /\ at <= Len(Order)
  /\ Kind \notin Optional
  /\ rows[Kind] = <<>>
  /\ Fail

(* parse_csv and parse_json: a file that is not in its format.             *)
CsvInvalid ==
  /\ status = "parsing"
  /\ at <= Len(Order)
  /\ Kind \in {"relationships", "tags", "io", "alarms"}
  /\ rows[Kind] = <<>>
  /\ Fail

JsonInvalid ==
  /\ status = "parsing"
  /\ at <= Len(Order)
  /\ Kind \in {"assets", "communications", "documents"}
  /\ rows[Kind] = <<>>
  /\ Fail

(* A file with one row more than it may have.                              *)
TooManyRecords ==
  /\ status = "parsing"
  /\ at <= Len(Order)
  /\ Len(rows[Kind]) = MaxRecords
  /\ Fail

(* record_source: a bundle with one row more than it may have.  The code   *)
(* notices at the end of the artifact, unless it fails before.             *)
TotalExceeded ==
  /\ status = "parsing"
  /\ at <= Len(Order)
  /\ total + Len(rows[Kind]) = MaxTotal
  /\ Fail
-----------------------------------------------------------------------------
(* The loops of context_import_records.cpp: one row.                       *)
AtRow(k) ==
  /\ status = "parsing"
  /\ at <= Len(Order)
  /\ Kind = k
  /\ Len(rows[k]) < MaxRecords
  /\ total + Len(rows[k]) < MaxTotal

Read(k, row) ==
  /\ AtRow(k)
  /\ rows' = [rows EXCEPT ![k] = Append(@, row)]

(* valid_identity, and that the identity is new to its set.                *)
Fresh(k, id) == id # 0 /\ id \notin seen[k]

(* The row's identity is refused: the import ends.                         *)
IdentityInvalid(k, row) ==
  /\ AtRow(k)
  /\ IF k = "io" THEN row.id = 0 ELSE ~Fresh(k, row.id)
  /\ Fail

Claim(k, row) ==
  /\ Read(k, row)
  /\ Fresh(k, row.id)
  /\ seen' = [seen EXCEPT ![k] = @ \cup {row.id}]

Emit(k, row) ==
  /\ model' = [model EXCEPT ![k] = Append(@, row)]
  /\ emitted' = IF k = "tags" THEN emitted \cup {row.id} ELSE emitted
  /\ UNCHANGED <<status, at, unresolved, total, refusals>>

(* add_unresolved, and the next row.                                       *)
AddUnresolved(k) ==
  /\ unresolved' = Append(unresolved, <<k, Len(rows[k]) + 1>>)
  /\ UNCHANGED <<status, at, model, emitted, total, refusals>>

ParseAsset(row) ==
  /\ Claim("assets", row)
  /\ Emit("assets", row)

EndpointsKnown(row) ==
  /\ row.from # row.to
  /\ {row.from, row.to} \subseteq seen["assets"]

ParseRelationship(row) ==
  /\ Claim("relationships", row)
  /\ IF EndpointsKnown(row) THEN Emit("relationships", row)
     ELSE AddUnresolved("relationships")

TagSupported(row) == row.type \in SupportedTypes /\ row.asset_id \in seen["assets"]

ParseTag(row) ==
  /\ Claim("tags", row)
  /\ IF TagSupported(row) THEN Emit("tags", row) ELSE AddUnresolved("tags")

(* Faulty variant: the identities of all rows, not those of emitted tags.  *)
IoTagDeclared(row) == row.tag_id \in seen["tags"]

IoTagKnown(row) == row.tag_id \in emitted

(* An I/O row is looked at and not copied; its identity may be repeated.   *)
ParseIo(row) ==
  /\ Read("io", row)
  /\ row.id # 0
  /\ IF IoTagKnown(row)
     THEN UNCHANGED <<status, at, model, emitted, unresolved, total, refusals>>
     ELSE AddUnresolved("io")
  /\ UNCHANGED seen

(* Faulty variant: any declared tag.                                       *)
AlarmTagDeclared(row) ==
  /\ row.asset_id \in seen["assets"]
  /\ row.tag_id \in seen["tags"]

(* The tag is one of the model's, and the owner of the alarm is its owner. *)
AlarmReferencesKnown(row) ==
  /\ row.asset_id \in seen["assets"]
  /\ \E tag \in Range(model["tags"]) :
       tag.id = row.tag_id /\ tag.asset_id = row.asset_id

ParseAlarm(row) ==
  /\ Claim("alarms", row)
  /\ \/ /\ ~AlarmReferencesKnown(row) \/ row.details = "unsupported"
        /\ AddUnresolved("alarms")
     \/ /\ AlarmReferencesKnown(row) /\ row.details = "ok"
        /\ Emit("alarms", row)

(* Threshold and name are looked at only for an alarm whose references are *)
(* known; the name not even for an operator that is not supported.         *)
AlarmInvalid(row) ==
  /\ AtRow("alarms")
  /\ Fresh("alarms", row.id)
  /\ AlarmReferencesKnown(row)
  /\ row.details = "malformed"
  /\ Fail

ParseMetadata(k, row) ==
  /\ k \in {"communications", "documents"}
  /\ Claim(k, row)
  /\ UNCHANGED <<status, at, model, emitted, unresolved, total, refusals>>

(* record_source, at the end of an artifact.                               *)
RecordSource ==
  /\ status = "parsing"
  /\ at <= Len(Order)
  /\ total' = total + Len(rows[Kind])
  /\ at' = at + 1
  /\ UNCHANGED <<status, rows, model, seen, emitted, unresolved, refusals>>

(* std::sort: some permutation that is in the order of the identities.     *)
SortById(s) ==
  LET p == CHOOSE q \in Bijection(DOMAIN s, DOMAIN s) :
             \A i, j \in DOMAIN s : i < j => s[q[i]].id <= s[q[j]].id
  IN [i \in DOMAIN s |-> s[p[i]]]

(* The end of import_impl: sort_by_id for each array, and the result.      *)
Finish ==
  /\ status = "parsing"
  /\ at > Len(Order)
  /\ model' = [k \in Arrays |-> SortById(model[k])]
  /\ status' = "imported"
  /\ UNCHANGED <<at, rows, seen, emitted, unresolved, total, refusals>>

(* report.status.  Nothing is ever added to report.errors.                 *)
ReportStatus == IF unresolved = <<>> THEN "ok" ELSE "unresolved"
-----------------------------------------------------------------------------
(* index_model: what the service objects to in model m.                    *)
Identities(m, k) == {m[k][i].id : i \in DOMAIN m[k]}

Refusals(m) ==
  LET assets == Identities(m, "assets")
      Numeric(id) == \E t \in Range(m["tags"]) : t.id = id /\ t.type = "number"
  IN {why \in {"limit", "duplicate", "relationship", "tag", "role", "alarm", "alarm_type"} :
        CASE why = "limit" -> \E k \in Arrays : Len(m[k]) > MaxModelRecords[k]
          [] why = "duplicate" -> \E k \in Arrays : Cardinality(Identities(m, k)) < Len(m[k])
          [] why = "relationship" -> \E r \in Range(m["relationships"]) :
               r.from = r.to \/ ~({r.from, r.to} \subseteq assets)
          [] why = "tag" -> \E t \in Range(m["tags"]) :
               t.type \notin SupportedTypes \/ t.asset_id \notin assets
          [] why = "role" -> \E t \in Range(m["tags"]) : t.type = "level"
          [] why = "alarm" -> \E a \in Range(m["alarms"]) :
               \/ a.asset_id \notin assets \/ a.details # "ok"
               \/ ~\E t \in Range(m["tags"]) : t.id = a.tag_id /\ t.asset_id = a.asset_id
          [] why = "alarm_type" -> \E a \in Range(m["alarms"]) : ~Numeric(a.tag_id)}

(* The service is given the result.                                        *)
LoadModel ==
  /\ status = "imported"
  /\ refusals' = Refusals(model)
  /\ status' = IF refusals' = {} THEN "loaded" ELSE "refused"
  /\ UNCHANGED <<at, rows, model, seen, emitted, unresolved, total>>
-----------------------------------------------------------------------------
Next ==
  \/ ReadManifest \/ ManifestInvalid \/ ArtifactInvalid
  \/ SkipArtifact \/ MissingArtifact
  \/ CsvInvalid \/ JsonInvalid \/ TooManyRecords
  \/ \E k \in Kinds : \E row \in Rows(k) : IdentityInvalid(k, row)
  \/ \E row \in Rows("assets") : ParseAsset(row)
  \/ \E row \in Rows("relationships") : ParseRelationship(row)
  \/ \E row \in Rows("tags") : ParseTag(row)
  \/ \E row \in Rows("io") : ParseIo(row)
  \/ \E row \in Rows("alarms") : ParseAlarm(row) \/ AlarmInvalid(row)
  \/ \E k \in Kinds : \E row \in Rows(k) : ParseMetadata(k, row)
  \/ RecordSource \/ TotalExceeded \/ Finish \/ LoadModel

Spec == Init /\ [][Next]_vars
-----------------------------------------------------------------------------
(* What the bundle declares, read as a whole and not row by row.           *)
Declared(k) == {rows[k][i].id : i \in DOMAIN rows[k]}

Carried(k, row) ==
  LET TagCarried(tag) == tag.type # "other" /\ tag.asset_id \in Declared("assets")
  IN CASE k = "relationships" ->
            row.from # row.to /\ {row.from, row.to} \subseteq Declared("assets")
       [] k = "tags" -> TagCarried(row)
       [] k = "io" -> \E tag \in Range(rows["tags"]) : tag.id = row.tag_id /\ TagCarried(tag)
       [] k = "alarms" ->
            /\ row.details = "ok"
            /\ \E tag \in Range(rows["tags"]) :
                 tag.id = row.tag_id /\ tag.asset_id = row.asset_id /\ TagCarried(tag)
       [] OTHER -> TRUE

Unfit(k) == {<<k, i>> : i \in {j \in DOMAIN rows[k] : ~Carried(k, rows[k][j])}}

(* An import that succeeds is exact: the model has the rows whose          *)
(* references the bundle declares, unchanged, once and in the order of     *)
(* their identities; every other row is reported once; and the status is   *)
(* "ok" only if nothing was left out.  Nothing is inferred, and nothing is *)
(* dropped in silence (context_import_records.cpp).                        *)
ImportIsExact ==
  status \in {"imported", "loaded", "refused"} =>
    /\ \A k \in Arrays :
         /\ Range(model[k]) = {row \in Range(rows[k]) : Carried(k, row)}
         /\ \A i, j \in DOMAIN model[k] : i < j => model[k][i].id < model[k][j].id
    /\ Range(unresolved) = UNION {Unfit(k) : k \in Kinds}
    /\ IsInjective(unresolved)
    /\ (ReportStatus = "ok") = (\A k \in Kinds : Unfit(k) = {})

(* A model that the importer has made refers to nothing that it does not   *)
(* have: the service refuses it only for its size, or for a type that the  *)
(* importer does not look at - of a level or flow tag, or of the tag of an *)
(* alarm (index_model).                                                    *)
ImportedModelLoads == refusals \subseteq {"limit", "role", "alarm_type"}
=============================================================================
