------------------------ MODULE MCOperationalJournal ------------------------
(* A short and a long record: what is left of the long one may swallow the *)
(* whole frame of the short one.                                           *)
EXTENDS OperationalJournal

CONSTANTS short, long

MCRecords == {short, long}
MCSize == [r \in MCRecords |-> IF r = short THEN 1 ELSE 4]
=============================================================================
