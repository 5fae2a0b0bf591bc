----------------------------- MODULE MandateUse -----------------------------
(***************************************************************************)
(* What the policy engine promises who asks it: a decision is taken in one *)
(* step between the question and the answer, from what the principal       *)
(* agreed to and the mandates used by then, whatever else is evaluated     *)
(* meanwhile.  A purchase is granted exactly when its document is agreed   *)
(* to, alive and unused and it is within the terms; a grant uses the       *)
(* mandate and a denial does not.                                          *)
(*                                                                         *)
(* Nothing here is about signatures, or about an order of checks.          *)
(***************************************************************************)
EXTENDS Integers

CONSTANTS Threads, Documents, Agreements, Transactions, None, Naive

VARIABLES
    clock,
    used,    \* the mandate ids that are used up
    asked,   \* per thread, what it asks and since when, or None
    verdict  \* per thread: "idle", "asked", or the outcome it is about to return

vars == <<clock, used, asked, verdict>>

Alive(d, at) == d.expiry # Naive /\ at < d.expiry

\* A ceiling binds where there is no exact amount, and where it is a number.
Capped(d) == d.exact = None /\ d.max \in Int

Within(d, tx) ==
    /\ tx.amount \in Int /\ tx.amount > 0
    /\ d.exact # None => tx.amount = d.exact
    /\ Capped(d) => tx.amount <= d.max
    /\ d.merchant # None => tx.merchant = d.merchant
    /\ d.scope # None => tx.category \in d.scope

Permitted(d, tx, at) == d \in Agreements /\ Alive(d, at) /\ Within(d, tx)

\* More than half of the ceiling.
Large(d, tx) == Capped(d) /\ tx.amount > d.max - tx.amount

-----------------------------------------------------------------------------

Init ==
    /\ clock = 0
    /\ used = {}
    /\ asked = [t \in Threads |-> None]
    /\ verdict = [t \in Threads |-> "idle"]

Say(t, v) == verdict' = [verdict EXCEPT ![t] = v]

\* What is not permitted may be denied at once.
Ask(t, d, tx) ==
    /\ verdict[t] = "idle"
    /\ asked' = [asked EXCEPT ![t] = [doc |-> d, tx |-> tx, at |-> clock]]
    /\ \/ Say(t, "asked")
       \/ ~Permitted(d, tx, clock) /\ Say(t, "DENY")
    /\ UNCHANGED <<clock, used>>

Decide(t) ==
    /\ verdict[t] = "asked"
    /\ LET d == asked[t].doc
           tx == asked[t].tx IN
        IF Permitted(d, tx, asked[t].at) /\ d.id \notin used
        THEN /\ Say(t, IF Large(d, tx) THEN "NEEDS_HUMAN" ELSE "ALLOW")
             /\ used' = used \cup {d.id}
        ELSE Say(t, "DENY") /\ UNCHANGED used
    /\ UNCHANGED <<clock, asked>>

Return(t) ==
    /\ verdict[t] \notin {"idle", "asked"}
    /\ Say(t, "idle")
    /\ asked' = [asked EXCEPT ![t] = None]
    /\ UNCHANGED <<clock, used>>

Tick ==
    /\ clock' = clock + 1
    /\ UNCHANGED <<used, asked, verdict>>

Next ==
    \/ Tick
    \/ \E t \in Threads :
        \/ Decide(t)
        \/ Return(t)
        \/ \E d \in Documents, tx \in Transactions : Ask(t, d, tx)

Spec == Init /\ [][Next]_vars
=============================================================================
