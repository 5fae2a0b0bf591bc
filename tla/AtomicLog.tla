----------------------------- MODULE AtomicLog -----------------------------
(***************************************************************************)
(* What append_entry() (audit_log.py) promises who calls it, and what the  *)
(* other modules take a logged decision for: one step puts one new entry   *)
(* at the end of the log, an entry is returned after that step only, a     *)
(* call that fails before it has changed nothing, and one that is cut off  *)
(* after it leaves the entry where it is.                                  *)
(***************************************************************************)
EXTENDS Naturals, Sequences

CONSTANTS Threads, Hashes

VARIABLES
    log,      \* the hashes of the entries, in order
    owed,     \* per thread, the entry it has logged and not returned yet, or 0
    returned  \* the entries returned

vars == <<log, owed, returned>>

Init ==
    /\ log = <<>>
    /\ owed = [t \in Threads |-> 0]
    /\ returned = {}

Log(t) ==
    /\ owed[t] = 0
    /\ \E h \in Hashes :
        /\ \A i \in DOMAIN log : log[i] # h
        /\ log' = Append(log, h)
        /\ owed' = [owed EXCEPT ![t] = h]
    /\ UNCHANGED returned

Return(t) ==
    /\ owed[t] # 0
    /\ returned' = returned \cup {owed[t]}
    /\ owed' = [owed EXCEPT ![t] = 0]
    /\ UNCHANGED log

\* The process is gone, and with it the calls of its threads.
Forget(T) ==
    /\ owed' = [t \in Threads |-> IF t \in T THEN 0 ELSE owed[t]]
    /\ UNCHANGED <<log, returned>>

Next ==
    \/ \E t \in Threads : Log(t) \/ Return(t)
    \/ \E T \in SUBSET Threads : Forget(T)

Spec == Init /\ [][Next]_vars
=============================================================================
