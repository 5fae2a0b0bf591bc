----------------------------- MODULE MCGateway -----------------------------
(* A small instance of Gateway for TLC. *)
EXTENDS Gateway, TLC

\* Threads and keys are interchangeable.
Symmetry == Permutations(Threads) \cup Permutations(Keys)
=============================================================================
