------------------------- MODULE MCRequestExecution -------------------------
(* Two workers, a short queue, three interpretations and another request.  *)
EXTENDS RequestExecution

CONSTANTS w1, w2, i1, i2, i3, r1

MCWorkers == {w1, w2}
MCInference == {i1, i2, i3}
MCRequests == MCInference \cup {r1}
=============================================================================
