-------------------------- MODULE MCSecondFactor --------------------------
(* Instances of SecondFactor for TLC. *)
EXTENDS SecondFactor, TLC

Symmetry == Permutations(Requests) \union Permutations(Keys)
=============================================================================
