------------------------------ MODULE MCDrift ------------------------------
(* Instances of Drift for TLC. *)
EXTENDS Drift, TLC

Symmetry == Permutations(Requests) \union Permutations(Steps)
=============================================================================
