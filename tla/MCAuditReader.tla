--------------------------- MODULE MCAuditReader ---------------------------
(* A small instance of AuditReader for TLC. *)
EXTENDS AuditReader, TLC

CONSTANTS t1, t2, api, cli

\* The API and a CLI invocation on the same file.
TwoWriters == t1 :> api @@ t2 :> cli
=============================================================================
