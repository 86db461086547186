------------------------------ MODULE MCClient ------------------------------
(* Client for TLC: the callers are interchangeable in the safety runs. *)
EXTENDS Client, TLC

Symmetry == Permutations(Callers)
=============================================================================
