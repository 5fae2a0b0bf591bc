---------------------------- MODULE AuditReader ----------------------------
(***************************************************************************)
(* GET /v1/audit-log (api.py) beside the threads that append, without      *)
(* their lock: the handler reads the file for its entries, has             *)
(* verify_chain() read it again, and answers with a page of the newest     *)
(* entries and the verdict.  Either read sees the file of one moment.      *)
(***************************************************************************)
EXTENDS AuditLog, Integers, SequencesExt

CONSTANTS
    Limits,   \* values of the query parameter
    MaxLimit  \* the cap on it, 500 in the code

ASSUME ReaderAssumption == Limits \subseteq Int /\ MaxLimit \in Nat \ {0}

VARIABLES
    reader,  \* "idle", "half", "answered" or "failed"
    got      \* what it read; returned: what append_entry() had returned by then

readerVars == <<reader, got>>
allVars == <<vars, readerVars>>

Nothing == [entries |-> <<>>, returned |-> {}, intact |-> FALSE]

ReaderInit == Init /\ reader = "idle" /\ got = Nothing

\* Mutant: the verdict is taken before the entries are read.
ReadsVerdictFirst == <<"verdict", "entries">>

\* get_audit_log(): the loop over the lines, then verify_chain().
Reads == <<"entries", "verdict">>

\* json.loads() of every line, which raises on a torn one; or verify_chain().
Read(what, next) ==
    /\ got' = IF what = "entries" THEN [got EXCEPT !.entries = lines, !.returned = acked]
              ELSE [got EXCEPT !.intact = VerifyChain]
    /\ reader' = IF what = "entries" /\ Garbage \in ToSet(lines) THEN "failed" ELSE next

ReadFirst  == reader = "idle" /\ Read(Reads[1], "half")
ReadSecond == reader = "half" /\ Read(Reads[2], "answered")

\* The answer is out, or a 500, or the process died.
Leave == reader # "idle" /\ reader' = "idle" /\ got' = Nothing

ReaderNext ==
    \/ Next /\ UNCHANGED readerVars
    \/ (ReadFirst \/ ReadSecond \/ Leave) /\ UNCHANGED vars

ReaderSpec == ReaderInit /\ [][ReaderNext]_allVars

\* list(reversed(entries[-capped_limit:])): the newest entries, newest first.
Page(entries, limit) ==
    LET capped == IF limit < 1 THEN 1 ELSE IF limit > MaxLimit THEN MaxLimit ELSE limit
        first  == IF Len(entries) > capped THEN Len(entries) - capped + 1 ELSE 1
    IN  Reverse(SubSeq(entries, first, Len(entries)))

-----------------------------------------------------------------------------
(* Properties *)

\* A page that is answered with chain_intact is what it says, though the file
\* was read twice while others wrote, restarted or were cut short: its entries
\* chain, the first is the newest, and none was missing from the file that
\* append_entry() had returned when it was read.
PageIsVerified ==
    reader = "answered" /\ got.intact =>
        /\ got.returned \subseteq {got.entries[i].hash : i \in DOMAIN got.entries}
        /\ \A limit \in Limits :
            LET page == Page(got.entries, limit) IN
            /\ got.entries # <<>> => page[1] = Last(got.entries)
            /\ \A i \in 1..(Len(page) - 1) :
                   page[i].prev = page[i + 1].hash /\ page[i].seq = page[i + 1].seq + 1

\* The endpoint fails only over a log that verify_chain() rejects, and will go on
\* rejecting: nothing a writer or a restart does makes up for a torn line.
FailureIsDamage == reader = "failed" => ~VerifyChain
=============================================================================
