------------------------------- MODULE Evals -------------------------------
(***************************************************************************)
(* The labelled corpus of evals/generate_dataset.py, and run.py, which     *)
(* sends it through evaluate() top to bottom with one nonce claimer, and   *)
(* exits with 1 when a decision is not the labelled one.                   *)
(*                                                                         *)
(* Amounts are in paise.  The corpus is generated when the clock is at 0,  *)
(* its dates are fixed from then on; it is run at any later time.          *)
(***************************************************************************)
EXTENDS PolicyEngine, Sequences

PAST == 0
FUTURE == 2

\* The principals with a key, in keys.py.
Registry == {"user-krishna", "p1", "p2"}

Rupees(n) == 100 * n

-----------------------------------------------------------------------------
(* Building cases *)

Unsigned(id, principal) ==
    [id |-> id, principal |-> principal, signature |-> "placeholder", expiry |-> FUTURE,
     merchant |-> None, exact |-> None, max |-> None, scope |-> None]

\* _mandate(): signed for real, unless the case has a text of its own for a
\* signature, which no registered key made.
Signed(d) == [d EXCEPT !.signature = Sign(d.principal, SigningPayload(d))]
ForgedBy(d, someone) == [d EXCEPT !.signature = Sign(someone, SigningPayload(d))]
Forged(d) == ForgedBy(d, "nobody")

AP2(id, principal, max, scope) == [Unsigned(id, principal) EXCEPT !.max = max, !.scope = scope]
ACP(id, principal, merchant, exact) ==
    [Unsigned(id, principal) EXCEPT !.merchant = merchant, !.exact = exact]
Lapsed(d) == [d EXCEPT !.expiry = PAST]

Tx(merchant, amount, category) == [merchant |-> merchant, amount |-> amount, category |-> category]

Case(doc, tx, outcome, check) == [doc |-> doc, tx |-> tx, outcome |-> outcome, check |-> check]
Deny(doc, tx, check) == Case(doc, tx, "DENY", check)
Flag(doc, tx) == Case(doc, tx, "NEEDS_HUMAN", "human_review_threshold")
Allow(doc, tx) == Case(doc, tx, "ALLOW", "none")

E == {"electronics"}
B == {"books"}
EB == {"electronics", "books"}
EGB == {"electronics", "groceries", "books"}

-----------------------------------------------------------------------------
(* The corpus, one definition per attack class *)

forged_signature ==
    <<Deny(Forged(AP2("forged-sig-ap2-1", "p1", Rupees(1000), E)),
           Tx("merchant-a", Rupees(100), "electronics"), "signature"),
      Deny(Forged(ACP("forged-sig-acp-1", "p2", "merchant-a", Rupees(50))),
           Tx("merchant-a", Rupees(50), None), "signature"),
      Deny(Forged(AP2("forged-sig-ap2-2", "user-krishna", Rupees(500), B)),
           Tx("merchant-bestbuy", Rupees(50), "books"), "signature")>>

unknown_principal ==
    <<Deny(Forged(AP2("unknown-principal-ap2-1", "principal-not-in-the-registry", Rupees(1000), E)),
           Tx("merchant-a", Rupees(100), "electronics"), "unknown_principal"),
      Deny(Forged(ACP("unknown-principal-acp-1", "ghost-principal-42", "merchant-a", Rupees(25))),
           Tx("merchant-a", Rupees(25), None), "unknown_principal"),
      Deny(Forged(AP2("unknown-principal-ap2-2", "not-registered-either", Rupees(2000), {"groceries"})),
           Tx("merchant-b", Rupees(300), "groceries"), "unknown_principal")>>

replay ==
    LET ap2 == Signed(AP2("replay-pair-1", "p1", Rupees(1000), E))
        acp == Signed(ACP("replay-pair-2", "p2", "merchant-c", Rupees(75)))
        buy1 == Tx("merchant-a", Rupees(200), "electronics")
        buy2 == Tx("merchant-c", Rupees(75), None)
    IN  <<Allow(ap2, buy1), Deny(ap2, buy1, "replay"), Allow(acp, buy2), Deny(acp, buy2, "replay")>>

expired_mandate ==
    <<Deny(Signed(Lapsed(AP2("expired-ap2-1", "p1", Rupees(1000), E))),
           Tx("merchant-a", Rupees(100), "electronics"), "expiry"),
      Deny(Signed(Lapsed(ACP("expired-acp-1", "p2", "merchant-a", Rupees(50)))),
           Tx("merchant-a", Rupees(50), None), "expiry"),
      Deny(Signed(Lapsed(AP2("expired-ap2-2", "user-krishna", Rupees(5000), EB))),
           Tx("merchant-bestbuy", Rupees(200), "electronics"), "expiry")>>

cross_merchant_token_misuse ==
    <<Deny(Signed(ACP("cross-merchant-1", "p1", "merchant-a", Rupees(50))),
           Tx("merchant-b", Rupees(50), None), "merchant_match"),
      Deny(Signed(ACP("cross-merchant-2", "p2", "merchant-amazon", Rupees(120))),
           Tx("merchant-flipkart", Rupees(120), None), "merchant_match"),
      Deny(Signed(ACP("cross-merchant-3", "user-krishna", "merchant-c", Rupees(999))),
           Tx("merchant-d", Rupees(999), None), "merchant_match")>>

amount_cap_violation ==
    <<Deny(Signed(AP2("amount-cap-ap2-1", "p1", Rupees(1000), E)),
           Tx("merchant-a", Rupees(1000) + 1, "electronics"), "amount_cap"),
      Deny(Signed(AP2("amount-cap-ap2-2", "p2", Rupees(200), B)),
           Tx("merchant-b", Rupees(5000), "books"), "amount_cap"),
      Deny(Signed(ACP("amount-cap-acp-1", "user-krishna", "merchant-a", Rupees(50))),
           Tx("merchant-a", Rupees(50) + 1, None), "amount_cap")>>

invalid_amount ==
    <<Deny(Signed(AP2("invalid-amount-zero", "p1", Rupees(1000), E)),
           Tx("merchant-a", 0, "electronics"), "invalid_amount"),
      Deny(Signed(AP2("invalid-amount-negative", "p2", Rupees(1000), B)),
           Tx("merchant-b", -Rupees(250), "books"), "invalid_amount"),
      Deny(Signed(AP2("invalid-amount-nan", "user-krishna", Rupees(1000), E)),
           Tx("merchant-bestbuy", NaN, "electronics"), "invalid_amount"),
      Deny(Signed(AP2("invalid-amount-inf", "p1", Rupees(1000), E)),
           Tx("merchant-a", Infinity, "electronics"), "invalid_amount")>>

category_scope_violation ==
    <<Deny(Signed(AP2("category-scope-1", "p1", Rupees(1000), E)),
           Tx("merchant-a", Rupees(100), "groceries"), "category_scope"),
      Deny(Signed(AP2("category-scope-2", "p2", Rupees(500), {"books", "toys"})),
           Tx("merchant-b", Rupees(50), "electronics"), "category_scope"),
      Deny(Signed(AP2("category-scope-3", "user-krishna", Rupees(5000), EB)),
           Tx("merchant-bestbuy", Rupees(400), "furniture"), "category_scope")>>

needs_human_threshold ==
    <<Flag(Signed(AP2("needs-human-1", "p1", Rupees(1000), E)),
           Tx("merchant-a", Rupees(800), "electronics")),
      Flag(Signed(AP2("needs-human-2", "p2", Rupees(2000), B)),
           Tx("merchant-b", Rupees(1500), "books")),
      Flag(Signed(AP2("needs-human-3", "user-krishna", Rupees(5000), EB)),
           Tx("merchant-bestbuy", Rupees(4000), "electronics")),
      Flag(Signed(AP2("needs-human-boundary-just-over", "p1", Rupees(1000), E)),
           Tx("merchant-a", Rupees(500) + 1, "electronics"))>>

legitimate ==
    <<Allow(Signed(AP2("legit-ap2-1", "p1", Rupees(1000), E)),
            Tx("merchant-a", Rupees(300), "electronics")),
      Allow(Signed(AP2("legit-ap2-2", "p2", Rupees(2000), {"books", "toys"})),
            Tx("merchant-b", Rupees(999), "toys")),
      Allow(Signed(AP2("legit-ap2-boundary-exactly-half", "p1", Rupees(1000), E)),
            Tx("merchant-a", Rupees(500), "electronics")),
      Allow(Signed(ACP("legit-acp-1", "p2", "merchant-amazon", 4999)),
            Tx("merchant-amazon", 4999, None)),
      Allow(Signed(ACP("legit-acp-2", "user-krishna", "merchant-flipkart", Rupees(1500))),
            Tx("merchant-flipkart", Rupees(1500), None)),
      Allow(Signed(ACP("legit-acp-no-category", "p1", "merchant-c", Rupees(10))),
            Tx("merchant-c", Rupees(10), None)),
      Allow(Signed(AP2("legit-ap2-small-purchase", "p2", Rupees(10000), EB \cup {"toys"})),
            Tx("merchant-a", Rupees(25), "books")),
      Allow(Signed(AP2("legit-ap2-no-agent-id", "user-krishna", Rupees(1000), {"groceries"})),
            Tx("merchant-a", Rupees(400), "groceries")),
      Allow(Signed(AP2("legit-ap2-multi-category-1", "p1", Rupees(1000), EGB)),
            Tx("merchant-a", Rupees(150), "groceries")),
      Allow(Signed(AP2("legit-ap2-multi-category-2", "p2", Rupees(1000), EGB)),
            Tx("merchant-b", Rupees(150), "books")),
      Allow(Signed(ACP("legit-acp-3", "p1", "merchant-d", Rupees(2500))),
            Tx("merchant-d", Rupees(2500), None)),
      Allow(Signed(AP2("legit-ap2-just-under-cap", "user-krishna", Rupees(100), E)),
            Tx("merchant-bestbuy", 4999, "electronics"))>>

\* In the order of the file.
Corpus ==
    forged_signature \o unknown_principal \o replay \o expired_mandate
    \o cross_merchant_token_misuse \o amount_cap_violation \o invalid_amount
    \o category_scope_violation \o needs_human_threshold \o legitimate

-----------------------------------------------------------------------------
(* run.py, with evaluate() as it is and with one of its checks gone *)

AllChecks == {Checks[i] : i \in DOMAIN Checks} \cup {"replay", "human_review_threshold"}

\* The check that fails first among those evaluate() still has.
FailsFirst(c, without, now) ==
    LET failed == {i \in DOMAIN Checks : Checks[i] # without /\ ~Passes(Checks[i], c.doc, c.tx, now)} IN
    IF failed = {} THEN "none" ELSE Checks[CHOOSE i \in failed : \A j \in failed : i <= j]

\* _EvalNonceClaimer: the ids the cases before the i-th one claimed.
Claimed(i, without, now) ==
    {Corpus[j].doc.id : j \in {k \in 1..(i - 1) : FailsFirst(Corpus[k], without, now) = "none"}}

\* evaluate() of a case, called once, when some mandate ids are claimed.
Evaluated(c, claimed, without, now) ==
    LET check == FailsFirst(c, without, now) IN
    IF check # "none" THEN [outcome |-> "DENY", check |-> check]
    ELSE IF without # "replay" /\ c.doc.id \in claimed
    THEN [outcome |-> "DENY", check |-> "replay"]
    ELSE IF without # "human_review_threshold" /\ NeedsReview(c.doc, c.tx)
    THEN [outcome |-> "NEEDS_HUMAN", check |-> "human_review_threshold"]
    ELSE [outcome |-> "ALLOW", check |-> "none"]

Actual(i, without, now) == Evaluated(Corpus[i], Claimed(i, without, now), without, now)
Expected(c) == [outcome |-> c.outcome, check |-> c.check]

\* Mutant: only the outcome is compared.
RunCaseByOutcome(i, without, now) == Actual(i, without, now).outcome = Corpus[i].outcome

\* run_case()["passed"]: outcome and failed_check are both the labelled ones.
RunCase(i, without, now) == Actual(i, without, now) = Expected(Corpus[i])

\* main()'s exit status, 0 when no case failed.
ExitStatus(without, now) == IF \A i \in DOMAIN Corpus : RunCase(i, without, now) THEN 0 ELSE 1

\* Every way and time to run it.
Runs ==
    {[without |-> without, now |-> now, status |-> ExitStatus(without, now)] :
        without \in AllChecks \cup {"none"}, now \in 0..MaxClock}

-----------------------------------------------------------------------------
(* Properties *)

\* evals/run.py passes while the corpus's mandates live: every case, sent through
\* the engine in the order of the file, gets the decision and the reason it is
\* labelled with.  From the day they expire on, it fails with no change of code.
CorpusAgrees == [without |-> "none", now |-> clock, status |-> 0] \in Runs <=> clock < FUTURE

\* The corpus is worth running in CI: whichever one check evaluate() lost, the
\* run would fail, whatever the other checks then make of its cases.
CorpusGuardsEveryCheck ==
    \A check \in AllChecks : [without |-> check, now |-> clock, status |-> 1] \in Runs
=============================================================================
