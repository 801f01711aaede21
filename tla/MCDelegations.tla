-------------------------- MODULE MCDelegations --------------------------
(* Instances of Delegations for TLC. *)
EXTENDS Delegations, TLC

Symmetry == Permutations(Admins) \union Permutations(Requests)
=============================================================================
