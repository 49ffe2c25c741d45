-------------------------- MODULE MCTelemetryStore --------------------------
(* Two models that share a tag, and batches that fit one of them, are      *)
(* late, malformed or too large.                                           *)
EXTENDS TelemetryStore, TLC

CONSTANTS c1, c2, t1, t2, s1

MCClients == {c1, c2}
MCTags == {t1, t2}
MCSources == {s1}
MCInitialModel == [identity |-> "A", tags |-> {t1, t2}, alarms |-> {t1}]
MCModels == {MCInitialModel, [identity |-> "B", tags |-> {t1}, alarms |-> {}]}

Good(value) == [value |-> value, quality |-> "good"]
MCBatch(identity, gen, sequence, tags, reading) ==
  [identity |-> identity, generation |-> gen, source |-> s1,
   sequence |-> sequence, values |-> [t \in tags |-> reading]]

MCBatches ==
  {MCBatch("A", g, q, {t1}, Good("high")) : g \in 0..MaxGeneration, q \in 0..1}
  \cup {MCBatch("A", 0, q, {t2}, Good("high")) : q \in 0..1}
  \cup {MCBatch("B", g, q, {t1}, Good("low")) : g \in 1..MaxGeneration, q \in 0..1}
  \cup {MCBatch("A", 0, 2, {t1}, [value |-> "low", quality |-> quality]) :
          quality \in {"uncertain", "stale"}}
  \cup {MCBatch("A", 0, 2, {t1, t2}, Good("low")), MCBatch("A", 0, 2, {}, Good("low")),
        MCBatch("A", 0, 2, {t1}, Good("mistyped"))}

Symmetry == Permutations(MCClients)
=============================================================================
