--------------------------- MODULE ContextRetrieval ---------------------------
(***************************************************************************)
(* retrieve(): the bounded part of the model that an operator's request is *)
(* about; the interpretation of the request on that evidence, by the rules *)
(* or by a provider; and its validation against the evidence.              *)
(*                                                                         *)
(* A text is the set of its canonical terms.  Every iteration of the loop  *)
(* that cuts the result down to the budget is a step, and every entry of   *)
(* the result counts one against the budget.  Of prompt_terms only their   *)
(* number is kept, which is all that the loop looks at.                    *)
(***************************************************************************)
EXTENDS Naturals, Sequences, FiniteSets, SequencesExt

CONSTANTS
  Numbers,         \* terms that are numbers
  ShortTerms,      \* terms of one or two characters
  Roles,           \* measurement roles, in the order of their names
  Models,
  Prompts,         \* requests: [terms, phrase]; phrase is has_scope_phrase
  Budgets,         \* max_serialized_bytes, in entries
  CandidateLimit, AssetLimit, RelationshipLimit, TagLimit, AlarmLimit,
  MaxRoles,        \* roles that an interpretation may have
  NoAsset,         \* an interpretation without anchor_asset_id
  UnknownAsset,    \* an anchor that no model declares
  Absent, Null     \* another field that is not there, and one that is null

(* Asset IDs are numbers, in their order, and a validated model repeats    *)
(* none; its relationships connect assets it declares.  The limits of      *)
(* RetrievalLimits leave room for as many assets as candidates, and for a  *)
(* tag per role of an interpretation.                                      *)
ASSUME RetrievalAssumption ==
  /\ CandidateLimit \in Nat \ {0} /\ RelationshipLimit \in Nat \ {0}
  /\ AlarmLimit \in Nat \ {0} /\ MaxRoles \in Nat \ {0}
  /\ AssetLimit \in Nat /\ AssetLimit >= CandidateLimit
  /\ TagLimit \in Nat /\ TagLimit >= MaxRoles
  /\ Roles \in Seq(Range(Roles))
  /\ \A i, j \in DOMAIN Roles : Roles[i] = Roles[j] => i = j
  /\ NoAsset \notin Nat /\ \A roles \in SUBSET Range(Roles) : Absent # roles
  /\ \A p \in Prompts : IsFiniteSet(p.terms) /\ p.phrase \in BOOLEAN
  /\ \A m \in Models :
       /\ m.assets \in Seq(Range(m.assets)) /\ m.relationships \in Seq(Range(m.relationships))
       /\ m.tags \in Seq(Range(m.tags)) /\ m.alarms \in Seq(Range(m.alarms))
       /\ \A i \in DOMAIN m.assets : m.assets[i].id \in Nat
       /\ \A i, j \in DOMAIN m.assets : m.assets[i].id = m.assets[j].id => i = j
       /\ \A r \in Range(m.relationships) :
            {r.from, r.to} \subseteq {a.id : a \in Range(m.assets)}
       /\ \A i \in DOMAIN m.tags : m.tags[i].role \in Range(Roles)

VARIABLES
  model, prompt, budget,  \* the request
  stage,
  result,                 \* what retrieve() has put together
  answer                  \* the task of a ready interpretation

vars == <<model, prompt, budget, stage, result, answer>>
request == <<model, prompt, budget>>

NoResult == [kind |-> "none"]
NoAnswer == [interpreter |-> "none"]

Init ==
  /\ model \in Models /\ prompt \in Prompts /\ budget \in Budgets
  /\ stage = "received" /\ result = NoResult /\ answer = NoAnswer
-----------------------------------------------------------------------------
(* Scoring.                                                                *)
AllPresent(terms, p) == terms # {} /\ terms \subseteq p.terms

AssetTerms(a) == a.id_terms \cup a.name_terms \cup a.kind_terms \cup UNION a.aliases

NumberConflict(a, p) ==
  LET numbers == p.terms \cap Numbers
  IN numbers # {} /\ numbers \cap AssetTerms(a) = {}

Worth(terms) == 4 * Cardinality(terms \cap ShortTerms) + 12 * Cardinality(terms \ ShortTerms)
Bonus(condition, points) == IF condition THEN points ELSE 0

Score(a, p) ==
  IF NumberConflict(a, p) THEN 0
  ELSE Worth(AssetTerms(a) \cap p.terms)
         + Bonus(AllPresent(a.id_terms, p), 80)
         + Bonus(AllPresent(a.name_terms, p), 100)
         + Bonus(\E alias \in a.aliases : AllPresent(alias, p), 90)

(* The entries of s at the positions I in the order R: the entry at i goes *)
(* to the place that is the number of positions that are not behind it.    *)
Ordered(s, I, R) ==
  [k \in 1 .. Cardinality(I) |->
     s[CHOOSE i \in I : Cardinality({j \in I : <<j, i>> \in R}) = k]]

(* Those entries in the order of s.                                        *)
Only(s, I) == Ordered(s, I, {q \in I \X I : q[1] <= q[2]})

Take(s, n) == SubSeq(s, 1, IF Len(s) < n THEN Len(s) ELSE n)
Ids(s) == {s[i].id : i \in DOMAIN s}

Better(c, d) == c.score > d.score \/ (c.score = d.score /\ c.id < d.id)

Scored(m, p) ==
  LET entry == [i \in DOMAIN m.assets |->
                  [id |-> m.assets[i].id, score |-> Score(m.assets[i], p)]]
      I == {i \in DOMAIN m.assets : entry[i].score > 0}
  IN Ordered(entry, I, {q \in I \X I : ~Better(entry[q[2]], entry[q[1]])})

Specific(m, p, scored) ==
  \/ \E i \in DOMAIN m.assets : m.assets[i].kind_terms \cap p.terms # {}
  \/ p.terms \cap Numbers # {}
  \/ scored = <<>> /\ p.phrase
  \/ \E i \in DOMAIN scored : scored[i].score >= 80

IsEligible(scored, c) == c.score >= 12 /\ c.score = scored[1].score
-----------------------------------------------------------------------------
(* Selection: scored is the list above, eligible the IDs of the candidates *)
(* with the best score, scope the assets that the result is about.         *)
Candidates(scored) ==
  LET taken == Take(scored, CandidateLimit)
  IN [i \in DOMAIN taken |-> [id |-> taken[i].id, eligible |-> IsEligible(scored, taken[i])]]

EligibleOf(candidates) ==
  LET chosen == Only(candidates, {i \in DOMAIN candidates : candidates[i].eligible})
  IN [k \in DOMAIN chosen |-> chosen[k].id]

EligibleCount(scored) == Cardinality({i \in DOMAIN scored : IsEligible(scored, scored[i])})

(* Faulty variant: a neighbour for which there is no room is not reported. *)
ExpandQuietly(scope, r) ==
  IF {r.from, r.to} \cap scope.ids # {} /\ Cardinality(scope.ids) < AssetLimit
  THEN [ids |-> scope.ids \cup {r.from, r.to}, cut |-> scope.cut]
  ELSE scope

(* One relationship in the expansion of a scope of one asset.              *)
Expand(scope, r) ==
  IF {r.from, r.to} \cap scope.ids # {} /\ Cardinality(scope.ids) < AssetLimit
  THEN [ids |-> scope.ids \cup {r.from, r.to}, cut |-> scope.cut]
  ELSE [ids |-> scope.ids, cut |-> scope.cut \/ (r.from \in scope.ids) # (r.to \in scope.ids)]

(* All of them, one after the other.                                       *)
Expanded(relationships, start) ==
  LET after[k \in 0 .. Len(relationships)] ==
        IF k = 0 THEN start ELSE Expand(after[k - 1], relationships[k])
  IN after[Len(relationships)]

Scope(m, eligible, specific) ==
  LET whole == eligible = <<>> /\ ~specific
      start == [ids |-> IF whole THEN Ids(Take(m.assets, AssetLimit)) ELSE Range(eligible),
                cut |-> whole /\ Len(m.assets) > AssetLimit]
  IN IF Cardinality(start.ids) = 1 THEN Expanded(m.relationships, start) ELSE start

(* The eligible assets first, then the others in the order of the model.   *)
ScopeAssets(m, eligible, ids) ==
  LET others == Only(m.assets, {i \in DOMAIN m.assets : m.assets[i].id \in ids \ Range(eligible)})
      listed == eligible \o [k \in DOMAIN others |-> others[k].id]
      aliased == {a.id : a \in {b \in Range(m.assets) : b.aliases # {}}}
  IN [k \in DOMAIN listed |-> [id |-> listed[k], aliases |-> listed[k] \in aliased]]

(* The relationships among the assets ids; the tags or alarms of them.     *)
Among(relationships, ids) ==
  Only(relationships,
       {i \in DOMAIN relationships : {relationships[i].from, relationships[i].to} \subseteq ids})
Of(s, ids) == Only(s, {i \in DOMAIN s : s[i].asset \in ids})

Named(tag, p) == AllPresent(tag.role_terms, p) \/ AllPresent(tag.name_terms, p)

RoleHints(tags, p) ==
  Only(Roles, {i \in DOMAIN Roles : \E t \in Range(tags) : t.role = Roles[i] /\ Named(t, p)})

(* The first tag of every hinted role goes before the others.              *)
OrderedTags(tags, hints) ==
  LET hinted == [k \in DOMAIN hints |-> tags[SelectInSeq(tags, LAMBDA t : t.role = hints[k])]]
  IN hinted \o Only(tags, {i \in DOMAIN tags : tags[i] \notin Range(hinted)})

TaskHints(p, roles) ==
  IF "alarm" \in p.terms THEN {"alarms"}
  ELSE IF p.terms \cap {"overview", "status", "state"} # {} \/ roles # <<>> THEN {"overview"}
  ELSE {}

(* What retrieve() has put together before its loop.                       *)
Selection(m, p) ==
  LET scored == Scored(m, p)
      specific == Specific(m, p, scored)
      candidates == Candidates(scored)
      eligible == EligibleOf(candidates)
      scope == Scope(m, eligible, specific)
      measured == IF eligible = <<>> THEN scope.ids ELSE Range(eligible)
      assets == ScopeAssets(m, eligible, scope.ids)
      relationships == Among(m.relationships, scope.ids)
      tags == Of(m.tags, measured)
      alarms == Of(m.alarms, measured)
      roles == RoleHints(tags, p)
  IN [kind |-> "retrieval", terms |-> Cardinality(p.terms),
      hints |-> TaskHints(p, roles), roles |-> roles, specific |-> specific,
      clarify |-> EligibleCount(scored) > 1 \/ (specific /\ eligible = <<>>),
      eligible |-> eligible, eligible_count |-> EligibleCount(scored),
      candidates |-> candidates,
      assets |-> Take(assets, AssetLimit),
      relationships |-> Take(relationships, RelationshipLimit),
      tags |-> Take(OrderedTags(tags, roles), TagLimit),
      alarms |-> Take(alarms, AlarmLimit),
      truncated |->
        [candidates |-> Len(scored) > Len(candidates) \/ EligibleCount(scored) > Len(eligible),
         assets |-> scope.cut \/ Len(assets) > AssetLimit,
         relationships |-> Len(relationships) > RelationshipLimit,
         tags |-> Len(tags) > TagLimit,
         alarms |-> Len(alarms) > AlarmLimit,
         roles |-> FALSE, budget |-> FALSE]]

Select ==
  /\ stage = "received"
  /\ stage' = "fitting"
  /\ result' = Selection(model, prompt)
  /\ UNCHANGED <<request, answer>>
-----------------------------------------------------------------------------
(* The loop that cuts the result down to the budget.                       *)
Described(r) == Cardinality({i \in DOMAIN r.assets : r.assets[i].aliases})
Size(r) ==
  r.terms + Len(r.roles) + Len(r.eligible) + Len(r.candidates) + Len(r.assets)
    + Described(r) + Len(r.relationships) + Len(r.tags) + Len(r.alarms)

Exceeds == Size(result) > budget

LastCandidate == SelectLastInSeq(result.candidates, LAMBDA c : ~c.eligible)
LastAsset == SelectLastInSeq(result.assets, LAMBDA a : ~Contains(result.eligible, a.id))
FirstAlias == SelectInSeq(result.assets, LAMBDA a : a.aliases)

(* Whether removal k, in the order in which the loop tries them, has       *)
(* something to remove.                                                    *)
Removable ==
  <<LastCandidate # 0, LastAsset # 0, result.relationships # <<>>, result.alarms # <<>>,
    Len(result.tags) > Len(result.roles), result.roles # <<>>, FirstAlias # 0,
    result.terms > 0, result.eligible # <<>> /\ result.eligible_count > 1>>

Turn(k) ==
  /\ stage = "fitting" /\ Exceeds
  /\ Removable[k]
  /\ \A j \in 1 .. k - 1 : ~Removable[j]

Cut(shorter) ==
  /\ result' = [shorter EXCEPT !.truncated.budget = TRUE]
  /\ UNCHANGED <<request, stage, answer>>

RemoveCandidate ==
  /\ Turn(1)
  /\ Cut([result EXCEPT !.candidates = RemoveAt(@, LastCandidate), !.truncated.candidates = TRUE])

RemoveAsset ==
  /\ Turn(2)
  /\ Cut([result EXCEPT !.assets = RemoveAt(@, LastAsset), !.truncated.assets = TRUE])

RemoveRelationship ==
  /\ Turn(3)
  /\ Cut([result EXCEPT !.relationships = Front(@), !.truncated.relationships = TRUE])

RemoveAlarm ==
  /\ Turn(4)
  /\ Cut([result EXCEPT !.alarms = Front(@), !.truncated.alarms = TRUE])

(* Faulty variant: the first tag goes, which a role was hinted for.        *)
RemoveFirstTag ==
  /\ Turn(5)
  /\ Cut([result EXCEPT !.tags = Tail(@), !.truncated.tags = TRUE])

RemoveTag ==
  /\ Turn(5)
  /\ Cut([result EXCEPT !.tags = Front(@), !.truncated.tags = TRUE])

(* Faulty variant: a role that does not fit is given up without a word.    *)
RemoveRoleQuietly ==
  /\ Turn(6)
  /\ Cut([result EXCEPT !.roles = Front(@), !.truncated.roles = TRUE])

RemoveRole ==
  /\ Turn(6)
  /\ Cut([result EXCEPT !.roles = Front(@), !.clarify = TRUE, !.truncated.roles = TRUE])

(* Faulty variant: the aliases are not taken out.                          *)
KeepAliases ==
  /\ Turn(7)
  /\ Cut([result EXCEPT !.truncated.assets = TRUE])

RemoveAliases ==
  /\ Turn(7)
  /\ Cut([result EXCEPT !.assets[FirstAlias].aliases = FALSE, !.truncated.assets = TRUE])

RemoveTerm ==
  /\ Turn(8)
  /\ Cut([result EXCEPT !.terms = @ - 1])

RemoveEligible ==
  /\ Turn(9)
  /\ Cut([result EXCEPT !.eligible = Front(@)])

Return ==
  /\ stage = "fitting" /\ ~Exceeds
  /\ stage' = "returned"
  /\ UNCHANGED <<request, result, answer>>

Refuse ==
  /\ stage = "fitting" /\ Exceeds
  /\ \A k \in DOMAIN Removable : ~Removable[k]
  /\ stage' = "refused"
  /\ UNCHANGED <<request, result, answer>>

Retrieve ==
  \/ Select
  \/ RemoveCandidate \/ RemoveAsset \/ RemoveRelationship \/ RemoveAlarm \/ RemoveTag
  \/ RemoveRole \/ RemoveAliases \/ RemoveTerm \/ RemoveEligible
  \/ Return \/ Refuse
-----------------------------------------------------------------------------
(* Interpretation.  A reply of the provider is any JSON of this shape, be  *)
(* it allowed by the schema that goes with the request or not.             *)
RawTasks(m) == [kind : {"overview", "alarms"},
                anchor : Ids(m.assets) \cup {NoAsset, UnknownAsset, Null},
                roles : {Absent} \cup SUBSET Range(Roles)]
Replies(m) == [status : {"ready", "clarification"}, message : {"text", "absent", "null"},
               task : {Absent, Null} \cup RawTasks(m)]

(* What a profile with strict schemas has to write for a missing field.    *)
RemoveNullPlaceholders(reply) ==
  LET task == reply.task
      plain == [task EXCEPT !.anchor = IF task.anchor = Null THEN NoAsset ELSE task.anchor,
                            !.roles = IF task.roles = {} THEN Absent ELSE task.roles]
  IN [reply EXCEPT !.message = IF @ = "null" THEN "absent" ELSE @,
                   !.task = IF @ \in {Absent, Null} THEN Absent ELSE plain]

(* validate_interpretation.                                                *)
SchemaAccepts(reply) ==
  \/ /\ reply.status = "ready" /\ reply.message = "absent"
     /\ reply.task \notin {Absent, Null}
     /\ reply.task.anchor # Null
     /\ reply.task.roles = Absent \/ Cardinality(reply.task.roles) \in 1..MaxRoles
  \/ /\ reply.status = "clarification" /\ reply.message = "text"
     /\ reply.task = Absent

AnchorAccepted(task) ==
  IF task.anchor = NoAsset THEN ~result.specific
  ELSE task.anchor \in Ids(model.assets) => Contains(result.eligible, task.anchor)

RolesAccepted(task) ==
  IF task.roles = Absent THEN result.roles = <<>>
  ELSE /\ task.roles \subseteq {result.tags[i].role : i \in DOMAIN result.tags}
       /\ Range(result.roles) \subseteq task.roles

ScopeAccepts(task) ==
  /\ Cardinality(result.hints) = 1 => task.kind \in result.hints
  /\ ~result.clarify
  /\ AnchorAccepted(task)
  /\ RolesAccepted(task)

(* An anchor that the model does not declare is found by the last check,   *)
(* that of Runtime::interpret().                                           *)
Decide(reply, interpreter) ==
  /\ IF ~SchemaAccepts(reply) THEN stage' = "invalid"
     ELSE \/ reply.status = "clarification" /\ stage' = "clarified"
          \/ reply.status = "ready" /\ ~ScopeAccepts(reply.task) /\ stage' = "mismatch"
          \/ /\ reply.status = "ready" /\ ScopeAccepts(reply.task)
             /\ stage' = IF reply.task.anchor = UnknownAsset THEN "invalid" ELSE "accepted"
  /\ answer' = IF stage' = "accepted"
               THEN [interpreter |-> interpreter, kind |-> reply.task.kind,
                     anchor |-> reply.task.anchor,
                     roles |-> IF reply.task.roles = Absent THEN {} ELSE reply.task.roles]
               ELSE [interpreter |-> interpreter]
  /\ UNCHANGED <<request, result>>

(* LlamaInferenceProvider::interpret.  The evidence is within the budget,  *)
(* which retrieve() and the provider are both given.                       *)
AskProvider ==
  /\ stage = "returned"
  /\ ~Exceeds
  /\ stage' = "asked"
  /\ UNCHANGED <<request, result, answer>>

(* No response in time, an HTTP error, a response that is too large, too   *)
(* deep or no JSON, or has no choice with a text that is JSON.             *)
ProviderFails ==
  /\ stage = "asked"
  /\ stage' = "failed"
  /\ UNCHANGED <<request, result, answer>>

ProviderAnswers(strict) ==
  /\ stage = "asked"
  /\ \E reply \in Replies(model) :
       Decide(IF strict THEN RemoveNullPlaceholders(reply) ELSE reply, "provider")

RulesAsk == result.clarify \/ Cardinality(result.hints) # 1

RuleAnchor == IF Len(result.eligible) = 1 THEN result.eligible[1] ELSE NoAsset

RuleReply ==
  IF RulesAsk THEN [status |-> "clarification", message |-> "text", task |-> Absent]
  ELSE [status |-> "ready", message |-> "absent",
        task |-> [kind |-> CHOOSE kind \in result.hints : TRUE, anchor |-> RuleAnchor,
                  roles |-> IF result.roles = <<>> THEN Absent ELSE Range(result.roles)]]

RulesAnswer ==
  /\ stage = "returned"
  /\ Decide(RuleReply, "rules")

Done == stage \in {"refused", "failed", "invalid", "mismatch", "accepted", "clarified"} /\ UNCHANGED vars

Next ==
  \/ Retrieve
  \/ AskProvider \/ ProviderFails \/ \E strict \in BOOLEAN : ProviderAnswers(strict)
  \/ RulesAnswer
  \/ Done

Spec == Init /\ [][Next]_vars
-----------------------------------------------------------------------------
(* The loop ends: every iteration makes the result smaller, and there is   *)
(* always an iteration, a return or a refusal.                             *)
LoopShrinksResult ==
  [][stage = "fitting" => stage' # "fitting" \/ Size(result') < Size(result)]_vars

Best(m, p) ==
  LET score == [a \in Range(m.assets) |-> Score(a, p)]
  IN {a.id : a \in {b \in DOMAIN score :
                      score[b] >= 12 /\ \A c \in DOMAIN score : score[c] <= score[b]}}
NamedRoles(m, p, assets) ==
  {t.role : t \in {u \in Range(m.tags) : u.asset \in assets /\ Named(u, p)}}

(* Whatever limits and budget have cut away, an accepted interpretation is *)
(* what was asked for: its anchor is the one asset that matches best, a    *)
(* request that names an asset has an anchor, and every measurement that   *)
(* the request names of that asset is included, and only such as the asset *)
(* declares.                                                               *)
AcceptedMatchesRequest ==
  LET best == Best(model, prompt)
  IN stage = "accepted" =>
       /\ Cardinality(best) <= 1
       /\ answer.anchor # NoAsset => best = {answer.anchor}
       /\ answer.anchor = NoAsset => \A a \in Range(model.assets) : Score(a, prompt) < 80
       /\ NamedRoles(model, prompt, best) \subseteq answer.roles
       /\ best # {} => answer.roles \subseteq
            {t.role : t \in {u \in Range(model.tags) : u.asset \in best}}

(* What the rules make of the evidence does not contradict it, whatever    *)
(* was cut away: it is accepted, or it has more measurements than an       *)
(* interpretation may have.                                                *)
RulesAreAccepted == ~(stage = "mismatch" /\ answer.interpreter = "rules")

(* A result says what it leaves out: candidates that scored, neighbours of *)
(* the asset that was asked for, relationships among the assets it shows,  *)
(* tags and alarms of the best assets, roles that were named.  An asset it *)
(* calls eligible is never left out.                                       *)
OmissionsAreReported ==
  LET best == Best(model, prompt)
      neighbours == UNION {{r.from, r.to} : r \in
                      {q \in Range(model.relationships) : {q.from, q.to} \cap best # {}}}
      cut == result.truncated
  IN stage \in {"returned", "accepted", "clarified"} =>
       /\ (\E a \in Range(model.assets) : Score(a, prompt) > 0 /\ a.id \notin Ids(result.candidates)) =>
            cut.candidates
       /\ (Cardinality(best) = 1 /\ ~(neighbours \subseteq Ids(result.assets))) => cut.assets
       /\ (\E r \in Range(model.relationships) : {r.from, r.to} \subseteq Ids(result.assets)
             /\ ~Contains(result.relationships, r)) => cut.relationships
       /\ (\E t \in Range(model.tags) : t.asset \in best /\ ~Contains(result.tags, t)) =>
            cut.tags \/ cut.candidates
       /\ (\E a \in Range(model.alarms) : a.asset \in best /\ ~Contains(result.alarms, a)) =>
            cut.alarms \/ cut.candidates
       /\ ~(NamedRoles(model, prompt, best) \subseteq Range(result.roles)) => cut.roles \/ cut.candidates
       /\ Range(result.eligible) \subseteq Ids(result.assets) \cap Ids(result.candidates)
=============================================================================
