----------------------------- MODULE MCDbWrites -----------------------------
(* Instances of DbWrites for TLC. *)
EXTENDS DbWrites

CONSTANTS t1, t2, c1, c2

Symmetry == Permutations(Conns)
=============================================================================
