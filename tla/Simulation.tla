----------------------------- MODULE Simulation -----------------------------
(***************************************************************************)
(* The simulated buyer (catalog.py, buyer_agent.py, simulate.py), which is *)
(* outside of what Darwaza trusts, and the amount that is charged for what *)
(* a human approves (razorpay_client.py).                                  *)
(*                                                                         *)
(* Amounts are in paise, but for the ones PolicyEngine is checked with,    *)
(* UnitsPerPaisa of which make a paisa.                                    *)
(***************************************************************************)
EXTENDS Evals

CONSTANT UnitsPerPaisa

ASSUME UnitsAssumption == UnitsPerPaisa \in Nat \ {0}

-----------------------------------------------------------------------------
(* The catalog and the buyer agent *)

\* A description is whether it carries INJECTION_MARKER.
Product(merchant, poisoned, category, price) ==
    [merchant |-> merchant, poisoned |-> poisoned, category |-> category, price |-> price]

CATALOG ==
    {Product("merchant-bestbuy", FALSE, "electronics", Rupees(1200)),
     Product("merchant-bestbuy", FALSE, "books", Rupees(45)),
     Product("merchant-bestbuy", TRUE, "electronics", Rupees(89))}

\* find_by_category() and min(..., key=price)
Cheapest(category) ==
    LET candidates == {p \in CATALOG : p.category = category} IN
    {p \in candidates : \A q \in candidates : p.price <= q.price}

\* Mutant: the listings are not read.
DecisionsUnread(category, obey) == {Tx(p.merchant, p.price, category) : p \in Cheapest(category)}

\* decide_deterministic(): the cheapest of its category, at its price or at the
\* price a poisoned listing dictates to an agent that obeys.
Decisions(category, obey) ==
    {Tx(p.merchant, IF obey /\ p.poisoned THEN Rupees(999999) ELSE p.price, category) :
        p \in Cheapest(category)}

\* _signed_mandate(): good for a day.
SignedMandate(id, now) ==
    Signed([AP2(id, "user-krishna", Rupees(1000), EB) EXCEPT !.expiry = now + 1])

Scenario(id, now, txs, outcome, check) ==
    {Case(SignedMandate(id, now), tx, outcome, check) : tx \in txs}

\* The three scenarios under a mandate id at some time, with the end their
\* docstrings state.
SCENARIOS(id, now) ==
    Scenario(id, now, Decisions("books", FALSE), "ALLOW", "none")
    \cup Scenario(id, now, Decisions("electronics", TRUE), "DENY", "amount_cap")
    \cup Scenario(id, now, {Tx("merchant-bestbuy", Rupees(650), "electronics")},
                  "NEEDS_HUMAN", "human_review_threshold")

\* demo_simulate() runs a scenario under a fresh mandate id, `cli.py simulate`
\* under the same one every time.
Fresh(c, now) == Evaluated(c, {}, "none", now)
\* A second run under the id.
Again(c, now) ==
    Evaluated(c, IF Fresh(c, now).outcome = "DENY" THEN {} ELSE {c.doc.id}, "none", now)

-----------------------------------------------------------------------------
(* What is charged *)

\* Mutant: int() without round().
OrderAmountCut(amount) == amount \div UnitsPerPaisa

\* create_order(): int(round(rupees * 100)), half to even.
OrderAmount(amount) ==
    LET whole == amount \div UnitsPerPaisa
        rest  == 2 * (amount % UnitsPerPaisa)
    IN  IF rest > UnitsPerPaisa \/ (rest = UnitsPerPaisa /\ whole % 2 = 1)
        THEN whole + 1 ELSE whole

-----------------------------------------------------------------------------
(* Properties *)

\* The scenarios of the demo end as their docstrings say, on every click of the
\* dashboard's button; from the command line a second run of one that got
\* through is a replay, and the poisoned one never gets that far.
ScenariosAgree == \A c \in SCENARIOS("sim", clock) :
    /\ Fresh(c, clock) = Expected(c)
    /\ Again(c, clock) = IF c.outcome = "DENY" THEN Expected(c)
                                               ELSE [outcome |-> "DENY", check |-> "replay"]

\* What Razorpay is asked to charge once a human approves is the approved amount
\* to the nearest paisa, and never more than a ceiling in whole paise.
ChargeIsApproved == \A c \in Granted :
    c.outcome = "NEEDS_HUMAN" =>
        LET charge == UnitsPerPaisa * OrderAmount(c.tx.amount) IN
        /\ 2 * (charge - c.tx.amount) \in -UnitsPerPaisa..UnitsPerPaisa
        /\ c.doc.max % UnitsPerPaisa = 0 => charge <= c.doc.max
=============================================================================
