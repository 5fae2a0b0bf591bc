----------------------------- MODULE MCService -----------------------------
(* Small instances of Service for TLC. *)
EXTENDS Service, TLC

CONSTANTS t1, t2, api, cli

\* Two threads: one of the API, one CLI invocation.
TwoProcesses == t1 :> api @@ t2 :> cli
\* Two threads of the API.
OneProcess == t1 :> api @@ t2 :> api
\* A single caller.
OneThread == t1 :> api

\* Mandates and requests are interchangeable.
Symmetry == Permutations(Mandates) \cup Permutations(Requests)
=============================================================================
