------------------------ MODULE MCLocalWriteJournal ------------------------
(* Instances of LocalWriteJournal for TLC. *)
EXTENDS LocalWriteJournal

CONSTANTS e1, e2, e3, w1, w2
=============================================================================
