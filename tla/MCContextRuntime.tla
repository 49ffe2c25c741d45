--------------------------- MODULE MCContextRuntime ---------------------------
(* Instances of ContextRuntime: one tag, two meanings in the scope of the     *)
(* task and three files of one model and one of another.                      *)
EXTENDS ContextRuntime, TLC

CONSTANTS w1, w2, p, q, A, B, tank, level, flow

MCTags == {tank}
MCMeanings == {level, flow}
MCModelIds == {A, B}

MCModel(id, rev, meaning) ==
  [model_id |-> id, revision |-> rev, anchored |-> TRUE,
   tags |-> [t \in MCTags |-> meaning]]

(* The configured file and an edit of it that advances the revision (going *)
(* back does not), a scenario of the same model that drops the tag, and    *)
(* one of another model, without the task's asset.                         *)
MCInitialFile == [path |-> p, model |-> MCModel(A, 1, level)]
MCFiles ==
  {MCInitialFile,
   [path |-> p, model |-> MCModel(A, 2, flow)],
   [path |-> q, model |-> MCModel(A, 1, NoTag)],
   [path |-> q, model |-> [model_id |-> B, revision |-> 1, anchored |-> FALSE,
                           tags |-> [t \in MCTags |-> NoTag]]]}

MCRequests == {w1, w2}
RequestSymmetry == Permutations(MCRequests)
=============================================================================
