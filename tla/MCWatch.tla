------------------------------ MODULE MCWatch ------------------------------
(* Watch for TLC: an early position and one past the threshold. *)
EXTENDS Watch

MCPositions == {0, 9}
=============================================================================
