----------------------------- MODULE MCLibrary -----------------------------
(* Model values for checking Library with TLC. *)
EXTENDS Library, TLC

CONSTANTS v1, v2

=============================================================================
