------------------------- MODULE MCEngineeringImport -------------------------
(* Bundles over two assets, two tags and one identity of every other kind,   *)
(* for a service that takes one tag: the importer's limits are wider than    *)
(* those of index_model.                                                     *)
EXTENDS EngineeringImport

MCIds == [k \in Kinds |-> IF k \in {"assets", "tags"} THEN {1, 2} ELSE {1}]
MCMaxModelRecords == [k \in Arrays |-> IF k = "tags" THEN 1 ELSE 2]
=============================================================================
