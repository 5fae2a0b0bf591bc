----------------------------- MODULE MCMetrics -----------------------------
(* A small instance of Metrics for TLC. *)
EXTENDS Metrics, TLC

CONSTANTS t1, t2, api, cli

\* A single caller.
OneThread == t1 :> api

\* Mandates and requests are interchangeable.
Symmetry == Permutations(Mandates) \cup Permutations(Requests)
=============================================================================
