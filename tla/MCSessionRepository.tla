------------------------ MODULE MCSessionRepository ------------------------
(* Instances of SessionRepository for TLC. *)
EXTENDS SessionRepository

CONSTANTS p1, p2, t1, t2
=============================================================================
