------------------------- MODULE ApprovalLifecycle -------------------------
(***************************************************************************)
(* What the approval queue promises for each request, whoever calls it and *)
(* whatever fails: a human answers once, orders are placed only after a    *)
(* yes, and the order the request is settled with is chosen once, among    *)
(* those placed (module docstring and schema of approval_queue.py).        *)
(***************************************************************************)
EXTENDS Naturals

CONSTANT Requests

VARIABLES
    verdict,  \* "none" before the request exists, "waiting", then "yes" or "no"
    orders,   \* orders placed for the request
    settled   \* the order it was settled with, 0 before

vars == <<verdict, orders, settled>>

Init ==
    /\ verdict = [r \in Requests |-> "none"]
    /\ orders = [r \in Requests |-> 0]
    /\ settled = [r \in Requests |-> 0]

Ask(r) ==
    /\ verdict[r] = "none"
    /\ verdict' = [verdict EXCEPT ![r] = "waiting"]
    /\ UNCHANGED <<orders, settled>>

Answer(r) ==
    /\ verdict[r] = "waiting"
    /\ \E v \in {"yes", "no"} : verdict' = [verdict EXCEPT ![r] = v]
    /\ UNCHANGED <<orders, settled>>

Order(r) ==
    /\ verdict[r] = "yes"
    /\ orders' = [orders EXCEPT ![r] = @ + 1]
    /\ UNCHANGED <<verdict, settled>>

Settle(r) ==
    /\ verdict[r] = "yes"
    /\ settled[r] = 0
    /\ \E k \in 1..orders[r] : settled' = [settled EXCEPT ![r] = k]
    /\ UNCHANGED <<verdict, orders>>

Next == \E r \in Requests : Ask(r) \/ Answer(r) \/ Order(r) \/ Settle(r)

Spec == Init /\ [][Next]_vars
=============================================================================
