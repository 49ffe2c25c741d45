---------------------------- MODULE MCEventStream ----------------------------
(* Three connections for two places.                                         *)
EXTENDS EventStream

CONSTANTS c1, c2, c3

MCClients == {c1, c2, c3}
=============================================================================
