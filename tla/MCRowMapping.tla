---------------------------- MODULE MCRowMapping ----------------------------
(* An instance of RowMapping for TLC: every type and every shape. *)
EXTENDS RowMapping
=============================================================================
