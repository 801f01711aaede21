---------------------------- MODULE MCTeardown ----------------------------
(* Instances of Teardown for TLC. *)
EXTENDS Teardown, TLC

\* Handlers, and the elements of an order, are interchangeable.
RowSymmetry == Permutations(Handlers) \union Permutations(Elements)
=============================================================================
