----------------------------- MODULE MCHandlers -----------------------------
(* Small instances of Handlers for TLC. *)
EXTENDS Handlers, TLC

CONSTANTS t1, t2, api, cli

\* Two threads: one of the API, one CLI invocation.
TwoProcesses == t1 :> api @@ t2 :> cli

\* Mandates and requests are interchangeable.
Symmetry == Permutations(Mandates) \cup Permutations(Requests)
=============================================================================
