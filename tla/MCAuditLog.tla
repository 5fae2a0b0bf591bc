----------------------------- MODULE MCAuditLog -----------------------------
(* Small instances of AuditLog for TLC. *)
EXTENDS AuditLog, TLC

CONSTANTS t1, t2, t3, api, cli

\* One process, the scope the module's docstring sets.
SoleWriter == t1 :> api @@ t2 :> api @@ t3 :> api
\* The API and a CLI invocation on the same file.
TwoWriters == t1 :> api @@ t2 :> cli
=============================================================================
