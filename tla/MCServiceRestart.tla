-------------------------- MODULE MCServiceRestart --------------------------
(* Two files and three models: two revisions of one, the second without the  *)
(* asset of the saved tasks, and a scenario of another model.                *)
EXTENDS ServiceRestart

CONSTANTS A, B, p, q

MCModel(id, revision, anchored) ==
  [model_id |-> id, revision |-> revision, anchored |-> anchored]

MCPaths == {p, q}
MCModels == {MCModel(A, 1, TRUE), MCModel(A, 2, FALSE), MCModel(B, 1, TRUE)}
MCInitialFiles == [x \in MCPaths |-> IF x = p THEN MCModel(A, 1, TRUE) ELSE MCModel(B, 1, TRUE)]
=============================================================================
