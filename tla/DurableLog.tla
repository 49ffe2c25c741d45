----------------------------- MODULE DurableLog -----------------------------
(***************************************************************************)
(* What the operational store promises: a log that a crash may cut back to *)
(* the records it has acknowledged, never further.  Once an append has     *)
(* failed half way, only this is left of the promise: what is read back is *)
(* the beginning of the true history.                                      *)
(***************************************************************************)
EXTENDS Naturals, Sequences

CONSTANTS Records

VARIABLES
  log,       \* the records a reader of the store sees, oldest first
  promised,  \* how many of them have been acknowledged to a writer
  open,      \* whether the store is open
  intact     \* whether no append has failed half way

vars == <<log, promised, open, intact>>

Init ==
  /\ log = <<>>
  /\ promised = 0
  /\ open = FALSE
  /\ intact = TRUE

Acknowledge ==
  /\ open
  /\ \E r \in Records : log' = Append(log, r)
  /\ promised' = Len(log')
  /\ UNCHANGED <<open, intact>>

Close ==
  /\ open
  /\ open' = FALSE
  /\ UNCHANGED <<log, promised, intact>>

(* Records nobody was promised may be missing after a crash; one that was  *)
(* being written may have survived it.                                     *)
Reopen ==
  /\ ~open
  /\ open' = TRUE
  /\ \/ \E k \in 0..Len(log) : /\ intact => promised <= k
                               /\ log' = SubSeq(log, 1, k)
     \/ \E r \in Records : log' = Append(log, r)
  /\ UNCHANGED <<promised, intact>>

FailHalfWay ==
  /\ open
  /\ intact' = FALSE
  /\ UNCHANGED <<log, promised, open>>

Next == Acknowledge \/ Close \/ Reopen \/ FailHalfWay

Spec == Init /\ [][Next]_vars
=============================================================================
