-------------------------- MODULE MCContextRetrieval --------------------------
(* Two pumps and a tank, told apart by a number, with an alias that they   *)
(* share in one of the models; requests are all combinations of a few      *)
(* terms.                                                                  *)
EXTENDS ContextRetrieval

MCNumbers == {"1", "2"}
MCShortTerms == {"1", "2"}
MCRoles == <<"level", "speed">>

MCAsset(id, id_terms, name_terms, kind, aliases) ==
  [id |-> id, id_terms |-> id_terms, name_terms |-> name_terms, kind_terms |-> {kind},
   aliases |-> aliases]
MCTag(id, asset, role, name_terms) ==
  [id |-> id, asset |-> asset, role |-> role, role_terms |-> {role}, name_terms |-> name_terms]

MCAssets(shared) ==
  <<MCAsset(2, {"pump", "2"}, {"feed", "pump"}, "pump", {shared}),
    MCAsset(1, {"pump", "1"}, {"main"}, "pump", {{"main", "pump"}}),
    MCAsset(3, {"tank"}, {"feed", "tank"}, "tank", {})>>

MCModel(shared, relationships) ==
  [assets |-> MCAssets(shared),
   relationships |-> relationships,
   tags |-> <<MCTag(1, 2, "speed", {"rate"}), MCTag(2, 2, "level", {"rate"}),
              MCTag(3, 2, "speed", {"backup"}), MCTag(4, 3, "level", {"level", "main"})>>,
   alarms |-> <<[id |-> 1, asset |-> 2], [id |-> 2, asset |-> 2], [id |-> 3, asset |-> 3]>>]

MCModels ==
  {MCModel({"main"}, <<[from |-> 3, to |-> 2], [from |-> 1, to |-> 3]>>),
   MCModel({"feed"}, <<[from |-> 1, to |-> 3], [from |-> 2, to |-> 3], [from |-> 2, to |-> 1]>>)}

MCPrompts ==
  [terms : SUBSET {"pump", "feed", "main", "2", "rate", "speed", "alarm"}, phrase : BOOLEAN]

MCBudgets == 1..16
=============================================================================
