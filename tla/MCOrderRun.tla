---------------------------- MODULE MCOrderRun ----------------------------
(* Instances of OrderRun for TLC. *)
EXTENDS OrderRun, TLC

\* Handlers are interchangeable; the safety runs exploit it.
HandlerSymmetry == Permutations(Handlers)
=============================================================================
