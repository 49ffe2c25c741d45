------------------------- MODULE MCDiagnosticLogger -------------------------
(* Records of two severities and sizes, one of them too large.             *)
EXTENDS DiagnosticLogger, TLC

CONSTANTS w1, w2

MCWriters == {w1, w2}
Record(id, low, size) == [id |-> id, low |-> low, size |-> size]
MCRecords == {Record(1, FALSE, 1), Record(2, FALSE, 2), Record(3, TRUE, 2),
              Record(4, FALSE, 2), Record(5, FALSE, 3)}
Symmetry == Permutations(MCWriters)
=============================================================================
