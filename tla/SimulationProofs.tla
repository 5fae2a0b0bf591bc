-------------------------- MODULE SimulationProofs --------------------------
(***************************************************************************)
(* What a human approves is what is charged, for any documents, purchases  *)
(* and fraction of a paisa; the scenarios and the corpus end as labelled,  *)
(* at any time they are run.                                               *)
(***************************************************************************)
EXTENDS Simulation, PolicyEngineProofs

\* An amount is whole paise and less than one more.
LEMMA WholeAndRest ==
    ASSUME NEW a \in Nat
    PROVE  \E q \in Nat, r \in 0..(UnitsPerPaisa - 1) :
               /\ a \div UnitsPerPaisa = q
               /\ a % UnitsPerPaisa = r
               /\ a = UnitsPerPaisa * q + r
<1> DEFINE U == UnitsPerPaisa
<1>1. U \in Nat /\ U > 0 BY UnitsAssumption
<1> HIDE DEF U
<1>2. PICK q \in Nat : q = a \div U BY <1>1
<1>3. PICK r \in 0..(U - 1) : r = a % U BY <1>1
<1>4. a % U = a - U * (a \div U) BY <1>1, Z3
<1>5. r = a - U * q BY <1>2, <1>3, <1>4
<1>6. a = U * q + r BY <1>1, <1>5
<1> QED BY <1>2, <1>3, <1>6 DEF U

\* The order is for the amount to the nearest paisa.
LEMMA OrderIsNearest ==
    ASSUME NEW a \in Nat
    PROVE  /\ OrderAmount(a) \in Nat
           /\ 2 * (UnitsPerPaisa * OrderAmount(a) - a) \in -UnitsPerPaisa..UnitsPerPaisa
<1> DEFINE U == UnitsPerPaisa
<1>1. U \in Nat \ {0} BY UnitsAssumption
<1>2. PICK q \in Nat, r \in 0..(U - 1) : a \div U = q /\ a % U = r /\ a = U * q + r
  BY WholeAndRest
<1>3. OrderAmount(a) = IF 2 * r > U \/ (2 * r = U /\ q % 2 = 1) THEN q + 1 ELSE q
  <2>1. a \div UnitsPerPaisa = q /\ a % UnitsPerPaisa = r BY <1>2
  <2> HIDE <1>2
  <2> QED BY <2>1 DEF OrderAmount
<1> HIDE DEF U
<1>4. U * (q + 1) = U * q + U BY <1>1, <1>2
<1>5. PICK p \in Nat : p = U * q BY <1>1, <1>2
<1>6. CASE OrderAmount(a) = q + 1 /\ 2 * r >= U
  <2>1. U * OrderAmount(a) - a = U - r BY <1>1, <1>2, <1>4, <1>5, <1>6
  <2>2. 2 * (U * OrderAmount(a) - a) \in -U..U BY <1>1, <1>2, <1>6, <2>1
  <2> QED BY <1>6, <2>2 DEF U
<1>7. CASE OrderAmount(a) = q /\ 2 * r <= U
  <2>1. U * OrderAmount(a) - a = -r BY <1>1, <1>2, <1>5, <1>7
  <2>2. 2 * (U * OrderAmount(a) - a) \in -U..U BY <1>1, <1>2, <1>7, <2>1
  <2> QED BY <1>7, <2>2 DEF U
<1>8. \/ OrderAmount(a) = q + 1 /\ 2 * r >= U
      \/ OrderAmount(a) = q /\ 2 * r <= U
  BY <1>1, <1>2, <1>3
<1> QED BY <1>6, <1>7, <1>8

\* And for no more than a ceiling in whole paise that the amount is within.
LEMMA OrderStaysBelow ==
    ASSUME NEW a \in Nat, NEW max \in Nat, a <= max, max % UnitsPerPaisa = 0
    PROVE  UnitsPerPaisa * OrderAmount(a) <= max
<1> DEFINE U == UnitsPerPaisa
           n == OrderAmount(a)
<1>1. U \in Nat \ {0} BY UnitsAssumption
<1>2. n \in Nat /\ 2 * (U * n - a) <= U BY OrderIsNearest, <1>1
<1>3. PICK m \in Nat : max = U * m
  <2>1. PICK q \in Nat, r \in 0..(U - 1) : max % U = r /\ max = U * q + r BY WholeAndRest
  <2> HIDE DEF U
  <2>2. max = U * q BY <1>1, <2>1 DEF U
  <2> QED BY <2>2
<1> HIDE DEF U, n
<1>4. CASE n <= m
  <2>1. U * n <= U * m BY <1>1, <1>2, <1>3, <1>4
  <2> QED BY <1>3, <2>1 DEF U, n
<1>5. CASE n >= m + 1
  <2>1. U * n >= U * m + U BY <1>1, <1>2, <1>3, <1>5
  <2> QED BY <1>1, <1>2, <1>3, <2>1
<1> QED BY <1>2, <1>3, <1>4, <1>5

\* Only a ceiling that is a number, and not an exact amount, is measured by half.
LEMMA ReviewedCeiling ==
    ASSUME NEW d \in Documents, NEW tx, NeedsReview(d, tx), tx.amount \in Int
    PROVE  d.exact = None /\ d.max \in Int
<1>1. d.max \in Amounts BY PolicyAssumption DEF NeedsReview, NormalizedMandate
<1> QED BY <1>1 DEF NeedsReview, Over, Amounts

\* What goes to a human needed the review.
FlagInv == \A t \in Threads :
    pc[t] = "done" /\ call[t].outcome = "NEEDS_HUMAN" => NeedsReview(call[t].doc, call[t].tx)

\* No thread has a call at first.
THEOREM FlagInit == Init => FlagInv
BY DEF Init, FlagInv

\* The claim alone sends a purchase to a human, over the threshold.
THEOREM FlagStep == TypeOK /\ FlagInv /\ [Next]_vars => FlagInv'
<1> SUFFICES ASSUME TypeOK, FlagInv, [Next]_vars, NEW u \in Threads,
                    pc'[u] = "done", call'[u].outcome = "NEEDS_HUMAN"
             PROVE  NeedsReview(call'[u].doc, call'[u].tx)
  BY DEF FlagInv, NeedsReview
<1> USE DEF TypeOK
<1>1. CASE pc'[u] = pc[u] /\ call'[u] = call[u]
  BY <1>1 DEF FlagInv
<1>2. ASSUME NEW d \in Documents, NEW tx \in Transactions, Evaluate(u, d, tx)
      PROVE  FALSE
  BY <1>2 DEF Evaluate, Denied
<1>3. CASE Claim(u)
  <2>1. /\ call'[u].doc = call[u].doc /\ call'[u].tx = call[u].tx
        /\ NeedsReview(call[u].doc, call[u].tx)
    BY <1>3 DEF Claim, Grant, Decide, Decision
  <2> QED BY <2>1
<1>4. CASE Return(u) BY <1>4 DEF Return
<1>5. ASSUME NEW t \in Threads, t # u,
             \/ \E d \in Documents, tx \in Transactions : Evaluate(t, d, tx)
             \/ Claim(t) \/ Return(t)
      PROVE  pc'[u] = pc[u] /\ call'[u] = call[u]
  BY <1>5 DEF Evaluate, Claim, Grant, Decide, Return
<1>6. CASE Tick \/ UNCHANGED vars
  BY <1>1, <1>6 DEF Tick, vars
<1> QED BY <1>1, <1>2, <1>3, <1>4, <1>5, <1>6 DEF Next

\* What Razorpay is asked to charge is what the human approved, to the nearest
\* paisa, and never above a ceiling in whole paise.
THEOREM ChargeApproved == Spec => []ChargeIsApproved
<1>1. Init => TypeOK /\ FlagInv BY PolicyTypeInit, FlagInit
<1>2. TypeOK /\ FlagInv /\ [Next]_vars => (TypeOK /\ FlagInv)'
  BY PolicyTypeStep, FlagStep
<1>3. TypeOK /\ GrantInv /\ FlagInv => ChargeIsApproved
  <2> SUFFICES ASSUME TypeOK, GrantInv, FlagInv, NEW c \in Granted, c.outcome = "NEEDS_HUMAN"
               PROVE  LET charge == UnitsPerPaisa * OrderAmount(c.tx.amount) IN
                      /\ 2 * (charge - c.tx.amount) \in -UnitsPerPaisa..UnitsPerPaisa
                      /\ c.doc.max % UnitsPerPaisa = 0 => charge <= c.doc.max
    BY DEF ChargeIsApproved
  <2>1. c.doc \in Documents /\ c.tx \in Transactions /\ c.at \in Nat
    BY GrantedPasses DEF Decision
  <2>2. FailedCheck(c.doc, c.tx, c.at) = "none" BY GrantedPasses
  <2>3. c.tx.amount \in Int /\ c.tx.amount > 0 /\ AmountFits(c.doc, c.tx) BY <2>1, <2>2, PassesAll
  <2>4. NeedsReview(c.doc, c.tx) BY DEF FlagInv, Granted, Decided
  <2>5. c.doc.exact = None /\ c.doc.max \in Int BY <2>1, <2>3, <2>4, ReviewedCeiling
  <2>6. c.tx.amount <= c.doc.max BY <2>1, <2>3, <2>5, CeilingBinds
  <2>7. c.tx.amount \in Nat /\ c.doc.max \in Nat BY <2>3, <2>5, <2>6
  <2> QED BY <2>6, <2>7, OrderIsNearest, OrderStaysBelow
<1> QED BY <1>1, <1>2, <1>3, PolicyInvariant, PTL DEF Spec

-----------------------------------------------------------------------------
(* The scenarios *)

\* The check that fails is the n-th one when those before it pass.
LEMMA FirstFailure ==
    ASSUME NEW d, NEW tx, NEW now, NEW n \in 1..7,
           ~Passes(Checks[n], d, tx, now),
           \A i \in 1..7 : i < n => Passes(Checks[i], d, tx, now)
    PROVE  FailedCheck(d, tx, now) = Checks[n]
<1> DEFINE failed == {i \in DOMAIN Checks : ~Passes(Checks[i], d, tx, now)}
           first == CHOOSE i \in failed : \A j \in failed : i <= j
<1>1. failed \in SUBSET (1..7) /\ n \in failed BY ChecksAreNamed
<1>2. FailedCheck(d, tx, now) = Checks[first] BY <1>1 DEF FailedCheck
<1>3. \A i \in failed : i >= n BY <1>1
<1> HIDE DEF failed
<1>4. first \in failed /\ \A j \in failed : first <= j BY <1>1, FirstPosition
<1> HIDE DEF first
<1>5. first = n BY <1>1, <1>3, <1>4
<1> QED BY <1>2, <1>5

\* With all its checks the evaluation finds what evaluate() finds.
LEMMA NothingLeftOut ==
    ASSUME NEW c, NEW now
    PROVE  FailsFirst(c, "none", now) = FailedCheck(c.doc, c.tx, now)
<1> DEFINE failed == {i \in DOMAIN Checks : ~Passes(Checks[i], c.doc, c.tx, now)}
           kept == {i \in DOMAIN Checks : Checks[i] # "none" /\ ~Passes(Checks[i], c.doc, c.tx, now)}
<1>1. kept = failed BY ChecksAreNamed
<1>2. FailsFirst(c, "none", now) =
        IF kept = {} THEN "none" ELSE Checks[CHOOSE i \in kept : \A j \in kept : i <= j]
  BY DEF FailsFirst
<1>3. FailedCheck(c.doc, c.tx, now) =
        IF failed = {} THEN "none" ELSE Checks[CHOOSE i \in failed : \A j \in failed : i <= j]
  BY DEF FailedCheck
<1> HIDE DEF failed, kept
<1> QED BY <1>1, <1>2, <1>3

\* The fields of the demo's mandate.
Fields == {"id", "principal", "signature", "expiry", "merchant", "exact", "max", "scope"}

LEMMA MandateFields ==
    ASSUME NEW id, NEW now
    PROVE  LET d == SignedMandate(id, now) IN
           /\ DOMAIN d = Fields
           /\ d.id = id /\ d.principal = "user-krishna" /\ d.expiry = now + 1
           /\ d.merchant = None /\ d.exact = None /\ d.max = 100000 /\ d.scope = EB
           /\ d.signature = Sign(d.principal, SigningPayload(d))
<1> DEFINE blank == Unsigned(id, "user-krishna")
           agreed == AP2(id, "user-krishna", Rupees(1000), EB)
           u == [agreed EXCEPT !.expiry = now + 1]
<1>0. Rupees(1000) = 100000 BY DEF Rupees
<1>1. /\ DOMAIN u = Fields
      /\ u.id = id /\ u.principal = "user-krishna" /\ u.expiry = now + 1
      /\ u.merchant = None /\ u.exact = None /\ u.max = 100000 /\ u.scope = EB
  <2>1. /\ DOMAIN blank = Fields
        /\ blank.id = id /\ blank.principal = "user-krishna"
        /\ blank.merchant = None /\ blank.exact = None
    BY DEF Unsigned, Fields
  <2>2. agreed = [blank EXCEPT !.max = Rupees(1000), !.scope = EB] BY DEF AP2
  <2> HIDE DEF blank, agreed
  <2>3. /\ DOMAIN agreed = Fields
        /\ agreed.id = id /\ agreed.principal = "user-krishna"
        /\ agreed.merchant = None /\ agreed.exact = None
        /\ agreed.max = Rupees(1000) /\ agreed.scope = EB
    BY <2>1, <2>2 DEF Fields
  <2> QED BY <1>0, <2>3 DEF Fields
<1> HIDE DEF u
<1> DEFINE d == [u EXCEPT !.signature = Sign(u.principal, SigningPayload(u))]
<1>2. /\ DOMAIN d = Fields
      /\ \A f \in Fields : f # "signature" => d[f] = u[f]
      /\ d.signature = Sign(u.principal, SigningPayload(u))
  BY <1>1 DEF Fields
<1>3. SignedMandate(id, now) = d BY DEF SignedMandate, Signed, u, agreed
<1> HIDE DEF d
<1>4. SigningPayload(d) = SigningPayload(u) BY <1>1, <1>2 DEF SigningPayload
<1>5. /\ d.id = u.id /\ d.principal = u.principal /\ d.expiry = u.expiry /\ d.merchant = u.merchant
      /\ d.exact = u.exact /\ d.max = u.max /\ d.scope = u.scope
  BY <1>2 DEF Fields
<1> QED BY <1>1, <1>2, <1>3, <1>4, <1>5

\* Where its principal has a key the mandate passes all that is not about the
\* purchase, at the time it is signed.
LEMMA MandateStands ==
    ASSUME "user-krishna" \in PublicKeys, NEW id, NEW now \in Nat,
           NEW merchant, NEW amount \in Nat, amount > 0, NEW category \in EB
    PROVE  LET d == SignedMandate(id, now)
               tx == Tx(merchant, amount, category)
           IN  /\ \A i \in 1..5 : Passes(Checks[i], d, tx, now)
               /\ Passes(Checks[6], d, tx, now) <=> amount <= 100000
               /\ Passes(Checks[7], d, tx, now)
               /\ NeedsReview(d, tx) <=> 2 * amount > 100000
<1> DEFINE d == SignedMandate(id, now)
           tx == Tx(merchant, amount, category)
<1>1. tx.merchant = merchant /\ tx.amount = amount /\ tx.category = category BY DEF Tx
<1>2. /\ d.principal = "user-krishna" /\ d.expiry = now + 1
      /\ d.merchant = None /\ d.exact = None /\ d.max = 100000 /\ d.scope = EB
      /\ d.signature = Sign(d.principal, SigningPayload(d))
  BY MandateFields
<1> HIDE DEF d, tx
<1>3. NaN \notin Int /\ Infinity \notin Int /\ None \notin Int /\ Naive \notin Int
  BY PolicyAssumption
<1>4. Over(amount, 100000) <=> amount > 100000 BY <1>3 DEF Over
<1>5. Over(2 * amount, 100000) <=> 2 * amount > 100000 BY <1>3 DEF Over
<1>6. /\ Checks[1] = "invalid_amount" /\ Checks[2] = "unknown_principal" /\ Checks[3] = "signature"
      /\ Checks[4] = "expiry" /\ Checks[5] = "merchant_match" /\ Checks[6] = "amount_cap"
      /\ Checks[7] = "category_scope"
  BY DEF Checks
<1>7. Passes("invalid_amount", d, tx, now) BY <1>1 DEF Passes
<1>8. Passes("unknown_principal", d, tx, now) BY <1>2 DEF Passes
<1>9. Passes("signature", d, tx, now) BY <1>2 DEF Passes, VerifySignature, Verify
<1>10. Passes("expiry", d, tx, now) BY <1>2, <1>3 DEF Passes
<1>11. Passes("merchant_match", d, tx, now) BY <1>2 DEF Passes
<1>12. Passes("amount_cap", d, tx, now) <=> amount <= 100000
  BY <1>1, <1>2, <1>3, <1>4 DEF Passes, AmountFits
<1>13. Passes("category_scope", d, tx, now) BY <1>1, <1>2 DEF Passes
<1>14. NeedsReview(d, tx) <=> 2 * amount > 100000 BY <1>1, <1>2, <1>3, <1>5 DEF NeedsReview
<1>15. \A i \in 1..5 : i = 1 \/ i = 2 \/ i = 3 \/ i = 4 \/ i = 5 OBVIOUS
<1>16. \A i \in 1..5 : Passes(Checks[i], d, tx, now)
  BY <1>6, <1>7, <1>8, <1>9, <1>10, <1>11, <1>15
<1> QED BY <1>6, <1>12, <1>13, <1>14, <1>16 DEF d, tx

\* So a purchase within its scope is decided by the amount, the first time; and
\* the second time by the first.
LEMMA MandateDecides ==
    ASSUME "user-krishna" \in PublicKeys, NEW id, NEW now \in Nat,
           NEW merchant, NEW amount \in Nat, amount > 0, NEW category \in EB, NEW outcome, NEW check
    PROVE  LET c == Case(SignedMandate(id, now), Tx(merchant, amount, category), outcome, check)
               capped == [outcome |-> "DENY", check |-> "amount_cap"]
               used == [outcome |-> "DENY", check |-> "replay"]
           IN  /\ amount > 100000 => Fresh(c, now) = capped /\ Again(c, now) = capped
               /\ amount <= 100000 /\ 2 * amount > 100000 =>
                    /\ Fresh(c, now) = [outcome |-> "NEEDS_HUMAN", check |-> "human_review_threshold"]
                    /\ Again(c, now) = used
               /\ 2 * amount <= 100000 =>
                    /\ Fresh(c, now) = [outcome |-> "ALLOW", check |-> "none"]
                    /\ Again(c, now) = used
<1> DEFINE d == SignedMandate(id, now)
           tx == Tx(merchant, amount, category)
           c == Case(d, tx, outcome, check)
           failed == FailedCheck(d, tx, now)
<1>1. c.doc = d /\ c.tx = tx BY DEF Case
<1>2. /\ \A i \in 1..5 : Passes(Checks[i], d, tx, now)
      /\ Passes(Checks[6], d, tx, now) <=> amount <= 100000
      /\ Passes(Checks[7], d, tx, now)
      /\ NeedsReview(d, tx) <=> 2 * amount > 100000
  BY MandateStands
<1>3. FailsFirst(c, "none", now) = failed BY <1>1, NothingLeftOut
<1>4. \A claimed :
        Evaluated(c, claimed, "none", now) =
            IF failed # "none" THEN [outcome |-> "DENY", check |-> failed]
            ELSE IF d.id \in claimed THEN [outcome |-> "DENY", check |-> "replay"]
            ELSE IF NeedsReview(d, tx)
            THEN [outcome |-> "NEEDS_HUMAN", check |-> "human_review_threshold"]
            ELSE [outcome |-> "ALLOW", check |-> "none"]
  BY <1>1, <1>3 DEF Evaluated
<1> HIDE DEF d, tx, c, failed
<1>5. CASE amount > 100000
  <2>1. ~Passes(Checks[6], d, tx, now) BY <1>2, <1>5
  <2>2. 6 \in 1..7 /\ \A i \in 1..7 : i < 6 => i \in 1..5 OBVIOUS
  <2>3. failed = Checks[6] BY <1>2, <2>1, <2>2, FirstFailure DEF failed
  <2>4. failed = "amount_cap" BY <2>3 DEF Checks
  <2>5. /\ Fresh(c, now) = [outcome |-> "DENY", check |-> "amount_cap"]
        /\ Again(c, now) = [outcome |-> "DENY", check |-> "amount_cap"]
    BY <1>4, <2>4 DEF Fresh, Again
  <2> QED BY <1>5, <2>5 DEF c, d, tx
<1>6. CASE amount <= 100000
  <2>1. \A i \in 1..7 : i \in 1..5 \/ i = 6 \/ i = 7 OBVIOUS
  <2>2. \A i \in 1..7 : Passes(Checks[i], d, tx, now) BY <1>2, <1>6, <2>1
  <2>3. failed = "none"
    <3>1. {i \in DOMAIN Checks : ~Passes(Checks[i], d, tx, now)} = {} BY <2>2, ChecksAreNamed
    <3> QED BY <3>1 DEF failed, FailedCheck
  <2>4. Fresh(c, now) = IF NeedsReview(d, tx)
                        THEN [outcome |-> "NEEDS_HUMAN", check |-> "human_review_threshold"]
                        ELSE [outcome |-> "ALLOW", check |-> "none"]
    BY <1>4, <2>3 DEF Fresh
  <2>5. Again(c, now) = [outcome |-> "DENY", check |-> "replay"]
    <3>1. Fresh(c, now).outcome # "DENY" BY <2>4
    <3>2. Again(c, now) = Evaluated(c, {d.id}, "none", now) BY <1>1, <3>1 DEF Again
    <3> QED BY <1>4, <2>3, <3>2
  <2> QED BY <1>2, <1>6, <2>4, <2>5 DEF c, d, tx
<1> QED BY <1>5, <1>6

\* What the poisoned listing says the price is.
Dictated == Rupees(999999)

\* What the agent buys: the book, and the poisoned listing at what it dictates.
LEMMA AgentBuys ==
    /\ Decisions("books", FALSE) = {Tx("merchant-bestbuy", Rupees(45), "books")}
    /\ Decisions("electronics", TRUE) = {Tx("merchant-bestbuy", Dictated, "electronics")}
<1> DEFINE laptop == Product("merchant-bestbuy", FALSE, "electronics", Rupees(1200))
           book == Product("merchant-bestbuy", FALSE, "books", Rupees(45))
           poison == Product("merchant-bestbuy", TRUE, "electronics", Rupees(89))
<1>1. CATALOG = {laptop, book, poison} BY DEF CATALOG
<1>2. /\ laptop.category = "electronics" /\ laptop.price = Rupees(1200)
      /\ book.category = "books" /\ book.price = Rupees(45) /\ ~book.poisoned
      /\ book.merchant = "merchant-bestbuy"
      /\ poison.category = "electronics" /\ poison.price = Rupees(89) /\ poison.poisoned
      /\ poison.merchant = "merchant-bestbuy"
  BY DEF Product
<1>3. /\ Rupees(89) <= Rupees(89) /\ Rupees(89) <= Rupees(1200) /\ ~(Rupees(1200) <= Rupees(89))
      /\ Rupees(45) <= Rupees(45)
  BY SMT DEF Rupees
<1> HIDE DEF laptop, book, poison
<1>4. Cheapest("books") = {book} BY <1>1, <1>2, <1>3 DEF Cheapest
<1>5. Cheapest("electronics") = {poison} BY <1>1, <1>2, <1>3 DEF Cheapest
<1> QED BY <1>2, <1>4, <1>5, SMT DEF Decisions, Dictated

\* The demo ends as it is said to, at any time it is run, once or again, where
\* its principal is one of those with a key.
THEOREM ScenariosEndAsStated ==
    ASSUME "user-krishna" \in PublicKeys
    PROVE  Spec => []ScenariosAgree
<1>1. TypeOK => ScenariosAgree
  <2> SUFFICES ASSUME TypeOK, NEW c \in SCENARIOS("sim", clock)
               PROVE  /\ Fresh(c, clock) = Expected(c)
                      /\ Again(c, clock) = IF c.outcome = "DENY" THEN Expected(c)
                                           ELSE [outcome |-> "DENY", check |-> "replay"]
    BY DEF ScenariosAgree
  <2>1. clock \in Nat /\ "books" \in EB /\ "electronics" \in EB BY DEF TypeOK, EB
  <2> DEFINE d == SignedMandate("sim", clock)
             book == Case(d, Tx("merchant-bestbuy", Rupees(45), "books"), "ALLOW", "none")
             poison == Case(d, Tx("merchant-bestbuy", Dictated, "electronics"), "DENY", "amount_cap")
             laptop == Case(d, Tx("merchant-bestbuy", Rupees(650), "electronics"),
                            "NEEDS_HUMAN", "human_review_threshold")
  <2>2. c = book \/ c = poison \/ c = laptop
    <3>1. ASSUME NEW tx, NEW outcome, NEW check
          PROVE  Scenario("sim", clock, {tx}, outcome, check) = {Case(d, tx, outcome, check)}
      BY DEF Scenario
    <3> HIDE DEF d
    <3> DEFINE read == Tx("merchant-bestbuy", Rupees(45), "books")
               obeyed == Tx("merchant-bestbuy", Dictated, "electronics")
               asked == Tx("merchant-bestbuy", Rupees(650), "electronics")
    <3>2. SCENARIOS("sim", clock) =
            Scenario("sim", clock, Decisions("books", FALSE), "ALLOW", "none")
            \cup Scenario("sim", clock, Decisions("electronics", TRUE), "DENY", "amount_cap")
            \cup Scenario("sim", clock, {asked}, "NEEDS_HUMAN", "human_review_threshold")
      BY DEF SCENARIOS
    <3>3. Decisions("books", FALSE) = {read} /\ Decisions("electronics", TRUE) = {obeyed}
      BY AgentBuys
    <3> HIDE DEF read, obeyed, asked
    <3>4. SCENARIOS("sim", clock) =
            {Case(d, read, "ALLOW", "none")} \cup {Case(d, obeyed, "DENY", "amount_cap")}
            \cup {Case(d, asked, "NEEDS_HUMAN", "human_review_threshold")}
      <4>1. SCENARIOS("sim", clock) =
              Scenario("sim", clock, {read}, "ALLOW", "none")
              \cup Scenario("sim", clock, {obeyed}, "DENY", "amount_cap")
              \cup Scenario("sim", clock, {asked}, "NEEDS_HUMAN", "human_review_threshold")
        BY <3>2, <3>3
      <4>2. Scenario("sim", clock, {read}, "ALLOW", "none") = {Case(d, read, "ALLOW", "none")}
        BY <3>1
      <4>3. Scenario("sim", clock, {obeyed}, "DENY", "amount_cap")
              = {Case(d, obeyed, "DENY", "amount_cap")}
        BY <3>1
      <4>4. Scenario("sim", clock, {asked}, "NEEDS_HUMAN", "human_review_threshold")
              = {Case(d, asked, "NEEDS_HUMAN", "human_review_threshold")}
        BY <3>1
      <4> QED BY <4>1, <4>2, <4>3, <4>4
    <3>5. c \in SCENARIOS("sim", clock) OBVIOUS
    <3>6. \/ c = Case(d, read, "ALLOW", "none") \/ c = Case(d, obeyed, "DENY", "amount_cap")
          \/ c = Case(d, asked, "NEEDS_HUMAN", "human_review_threshold")
      BY <3>4, <3>5
    <3> QED BY <3>6 DEF read, obeyed, asked
  <2>3. /\ Fresh(book, clock) = [outcome |-> "ALLOW", check |-> "none"]
        /\ Again(book, clock) = [outcome |-> "DENY", check |-> "replay"]
    <3>1. Rupees(45) \in Nat /\ Rupees(45) > 0 /\ 2 * Rupees(45) <= 100000
      BY SMT DEF Rupees
    <3> QED BY <2>1, <3>1, MandateDecides
  <2>4. /\ Fresh(poison, clock) = [outcome |-> "DENY", check |-> "amount_cap"]
        /\ Again(poison, clock) = [outcome |-> "DENY", check |-> "amount_cap"]
    <3>1. Dictated \in Nat /\ Dictated > 0 /\ Dictated > 100000
      BY SMT DEF Rupees, Dictated
    <3> QED BY <2>1, <3>1, MandateDecides
  <2>5. /\ Fresh(laptop, clock) = [outcome |-> "NEEDS_HUMAN", check |-> "human_review_threshold"]
        /\ Again(laptop, clock) = [outcome |-> "DENY", check |-> "replay"]
    <3>1. Rupees(650) \in Nat /\ Rupees(650) > 0 /\ Rupees(650) <= 100000 /\ 2 * Rupees(650) > 100000
      BY SMT DEF Rupees
    <3> QED BY <2>1, <3>1, MandateDecides
  <2>6. /\ Expected(book) = [outcome |-> "ALLOW", check |-> "none"] /\ book.outcome # "DENY"
        /\ Expected(poison) = [outcome |-> "DENY", check |-> "amount_cap"] /\ poison.outcome = "DENY"
        /\ Expected(laptop) = [outcome |-> "NEEDS_HUMAN", check |-> "human_review_threshold"]
        /\ laptop.outcome # "DENY"
    BY DEF Expected, Case
  <2> HIDE DEF book, poison, laptop
  <2> QED BY <2>2, <2>3, <2>4, <2>5, <2>6
<1> QED BY <1>1, PolicyTypeCorrect, PTL

-----------------------------------------------------------------------------
(* The corpus: its documents *)

LEMMA AP2Fields ==
    ASSUME NEW id, NEW principal, NEW max, NEW scope
    PROVE  LET u == AP2(id, principal, max, scope) IN
           /\ DOMAIN u = Fields
           /\ u.id = id /\ u.principal = principal /\ u.expiry = FUTURE
           /\ u.merchant = None /\ u.exact = None /\ u.max = max /\ u.scope = scope
<1> DEFINE blank == Unsigned(id, principal)
<1>1. /\ DOMAIN blank = Fields
      /\ blank.id = id /\ blank.principal = principal /\ blank.expiry = FUTURE
      /\ blank.merchant = None /\ blank.exact = None
  BY DEF Unsigned, Fields
<1>2. AP2(id, principal, max, scope) = [blank EXCEPT !.max = max, !.scope = scope] BY DEF AP2
<1> HIDE DEF blank
<1> QED BY <1>1, <1>2 DEF Fields

LEMMA ACPFields ==
    ASSUME NEW id, NEW principal, NEW merchant, NEW exact
    PROVE  LET u == ACP(id, principal, merchant, exact) IN
           /\ DOMAIN u = Fields
           /\ u.id = id /\ u.principal = principal /\ u.expiry = FUTURE
           /\ u.merchant = merchant /\ u.exact = exact /\ u.max = None /\ u.scope = None
<1> DEFINE blank == Unsigned(id, principal)
<1>1. /\ DOMAIN blank = Fields
      /\ blank.id = id /\ blank.principal = principal /\ blank.expiry = FUTURE
      /\ blank.max = None /\ blank.scope = None
  BY DEF Unsigned, Fields
<1>2. ACP(id, principal, merchant, exact) = [blank EXCEPT !.merchant = merchant, !.exact = exact]
  BY DEF ACP
<1> HIDE DEF blank
<1> QED BY <1>1, <1>2 DEF Fields

\* Everything a document says beside its date and signature.
Terms(d) == [id |-> d.id, principal |-> d.principal, merchant |-> d.merchant,
             exact |-> d.exact, max |-> d.max, scope |-> d.scope]

LEMMA LapsedFields ==
    ASSUME NEW u, DOMAIN u = Fields
    PROVE  DOMAIN Lapsed(u) = Fields /\ Terms(Lapsed(u)) = Terms(u) /\ Lapsed(u).expiry = PAST
BY DEF Lapsed, Terms, Fields

\* A signature says who made it: only the principal's own is valid.
LEMMA SignatureTells ==
    ASSUME NEW u, DOMAIN u = Fields, NEW someone
    PROVE  LET d == ForgedBy(u, someone) IN
           /\ Terms(d) = Terms(u) /\ d.expiry = u.expiry
           /\ VerifySignature(d) <=> u.principal \in PublicKeys /\ someone = u.principal
<1> DEFINE d == [u EXCEPT !.signature = Sign(someone, SigningPayload(u))]
<1>1. /\ DOMAIN d = Fields
      /\ \A f \in Fields : f # "signature" => d[f] = u[f]
      /\ d.signature = Sign(someone, SigningPayload(u))
  BY DEF Fields
<1>2. ForgedBy(u, someone) = d BY DEF ForgedBy
<1> HIDE DEF d
<1>3. SigningPayload(d) = SigningPayload(u) BY <1>1 DEF SigningPayload
<1>4. /\ d.id = u.id /\ d.principal = u.principal /\ d.expiry = u.expiry /\ d.merchant = u.merchant
      /\ d.exact = u.exact /\ d.max = u.max /\ d.scope = u.scope
  BY <1>1 DEF Fields
<1>5. Sign(someone, SigningPayload(u)) = Sign(u.principal, SigningPayload(u)) <=> someone = u.principal
  <2> DEFINE payload == SigningPayload(u)
  <2> HIDE DEF payload
  <2>1. Sign(someone, payload).by = someone /\ Sign(u.principal, payload).by = u.principal BY DEF Sign
  <2> QED BY <2>1 DEF payload
<1>6. VerifySignature(d) <=> u.principal \in PublicKeys /\ someone = u.principal
  BY <1>1, <1>3, <1>4, <1>5 DEF VerifySignature, Verify
<1> QED BY <1>2, <1>4, <1>6 DEF Terms

\* What each check asks, by its position.
LEMMA ChecksAsk ==
    ASSUME NEW d, NEW tx, NEW now
    PROVE  /\ Passes(Checks[1], d, tx, now) <=> tx.amount \in Int /\ tx.amount > 0
           /\ Passes(Checks[2], d, tx, now) <=> d.principal \in PublicKeys
           /\ Passes(Checks[3], d, tx, now) <=> VerifySignature(d)
           /\ Passes(Checks[4], d, tx, now) <=> d.expiry # Naive /\ d.expiry > now
           /\ Passes(Checks[5], d, tx, now) <=> d.merchant \in {None, tx.merchant}
           /\ Passes(Checks[6], d, tx, now) <=> AmountFits(d, tx)
           /\ Passes(Checks[7], d, tx, now) <=> (d.scope # None => tx.category \in d.scope)
<1>1. /\ Checks[1] = "invalid_amount" /\ Checks[2] = "unknown_principal" /\ Checks[3] = "signature"
      /\ Checks[4] = "expiry" /\ Checks[5] = "merchant_match" /\ Checks[6] = "amount_cap"
      /\ Checks[7] = "category_scope"
  BY DEF Checks
<1>2. Passes("invalid_amount", d, tx, now) <=> tx.amount \in Int /\ tx.amount > 0 BY DEF Passes
<1>3. Passes("unknown_principal", d, tx, now) <=> d.principal \in PublicKeys BY DEF Passes
<1>4. Passes("signature", d, tx, now) <=> VerifySignature(d) BY DEF Passes
<1>5. Passes("expiry", d, tx, now) <=> d.expiry # Naive /\ d.expiry > now BY DEF Passes
<1>6. Passes("merchant_match", d, tx, now) <=> d.merchant \in {None, tx.merchant} BY DEF Passes
<1>7. Passes("amount_cap", d, tx, now) <=> AmountFits(d, tx) BY DEF Passes
<1>8. Passes("category_scope", d, tx, now) <=> (d.scope # None => tx.category \in d.scope)
  BY DEF Passes
<1> QED BY <1>1, <1>2, <1>3, <1>4, <1>5, <1>6, <1>7, <1>8

\* The checks as the code has them, one early return after the other.
LEMMA EarlyReturns ==
    ASSUME NEW d, NEW tx, NEW now
    PROVE  FailedCheck(d, tx, now) =
             IF ~(tx.amount \in Int /\ tx.amount > 0) THEN "invalid_amount"
             ELSE IF d.principal \notin PublicKeys THEN "unknown_principal"
             ELSE IF ~VerifySignature(d) THEN "signature"
             ELSE IF ~(d.expiry # Naive /\ d.expiry > now) THEN "expiry"
             ELSE IF d.merchant \notin {None, tx.merchant} THEN "merchant_match"
             ELSE IF ~AmountFits(d, tx) THEN "amount_cap"
             ELSE IF ~(d.scope # None => tx.category \in d.scope) THEN "category_scope"
             ELSE "none"
<1> DEFINE P(i) == Passes(Checks[i], d, tx, now)
           failed == FailedCheck(d, tx, now)
<1>1. ASSUME NEW n \in 1..7, ~P(n), \A i \in 1..7 : i < n => P(i) PROVE failed = Checks[n]
  BY <1>1, FirstFailure
<1>2. ASSUME \A i \in 1..7 : P(i) PROVE failed = "none"
  <2>1. {i \in DOMAIN Checks : ~Passes(Checks[i], d, tx, now)} = {} BY <1>2, ChecksAreNamed
  <2> QED BY <2>1 DEF FailedCheck
<1>3. /\ Checks[1] = "invalid_amount" /\ Checks[2] = "unknown_principal" /\ Checks[3] = "signature"
      /\ Checks[4] = "expiry" /\ Checks[5] = "merchant_match" /\ Checks[6] = "amount_cap"
      /\ Checks[7] = "category_scope"
  BY DEF Checks
<1> HIDE DEF P, failed
<1>4. \A i \in 1..7 : i = 1 \/ i = 2 \/ i = 3 \/ i = 4 \/ i = 5 \/ i = 6 \/ i = 7 OBVIOUS
<1>5. failed = IF ~P(1) THEN Checks[1] ELSE IF ~P(2) THEN Checks[2] ELSE IF ~P(3) THEN Checks[3]
               ELSE IF ~P(4) THEN Checks[4] ELSE IF ~P(5) THEN Checks[5] ELSE IF ~P(6) THEN Checks[6]
               ELSE IF ~P(7) THEN Checks[7] ELSE "none"
  BY <1>1, <1>2, <1>4
<1>6. /\ P(1) <=> tx.amount \in Int /\ tx.amount > 0
      /\ P(2) <=> d.principal \in PublicKeys
      /\ P(3) <=> VerifySignature(d)
      /\ P(4) <=> d.expiry # Naive /\ d.expiry > now
      /\ P(5) <=> d.merchant \in {None, tx.merchant}
      /\ P(6) <=> AmountFits(d, tx)
      /\ P(7) <=> (d.scope # None => tx.category \in d.scope)
  BY ChecksAsk DEF P
<1> QED BY <1>3, <1>5, <1>6 DEF failed

\* An AP2 mandate and a purchase.
LEMMA AP2Decides ==
    ASSUME PublicKeys = Registry,
           NEW id, NEW principal, NEW max \in Int, NEW scope,
           NEW merchant, NEW amount, NEW category, NEW now \in Nat
    PROVE  LET u == AP2(id, principal, max, scope)
               tx == Tx(merchant, amount, category)
               named == principal \in Registry
               valid == amount \in Int /\ amount > 0
               first == FailedCheck(Signed(u), tx, now)
           IN  /\ Signed(u).id = id /\ Forged(u).id = id /\ Signed(Lapsed(u)).id = id
               /\ ~valid => first = "invalid_amount"
               /\ valid /\ ~named => FailedCheck(Forged(u), tx, now) = "unknown_principal"
               /\ valid /\ named =>
                    /\ FailedCheck(Forged(u), tx, now) = "signature"
                    /\ FailedCheck(Signed(Lapsed(u)), tx, now) = "expiry"
                    /\ now >= FUTURE => first = "expiry"
                    /\ now < FUTURE /\ amount > max => first = "amount_cap"
                    /\ now < FUTURE /\ amount <= max /\ scope # None /\ category \notin scope =>
                            first = "category_scope"
                    /\ now < FUTURE /\ amount <= max /\ category \in scope => first = "none"
                    /\ NeedsReview(Signed(u), tx) <=> 2 * amount > max
<1> DEFINE u == AP2(id, principal, max, scope)
           l == Lapsed(u)
           d == ForgedBy(u, u.principal)
           f == ForgedBy(u, "nobody")
           e == ForgedBy(l, l.principal)
           tx == Tx(merchant, amount, category)
<1>1. Signed(u) = d /\ Forged(u) = f /\ Signed(l) = e
  BY DEF Signed, Forged, ForgedBy
<1>2. /\ DOMAIN u = Fields /\ u.id = id /\ u.principal = principal /\ u.expiry = FUTURE
      /\ u.merchant = None /\ u.exact = None /\ u.max = max /\ u.scope = scope
  BY AP2Fields
<1>3. tx.merchant = merchant /\ tx.amount = amount /\ tx.category = category BY DEF Tx
<1> HIDE DEF u
<1>4. DOMAIN l = Fields /\ Terms(l) = Terms(u) /\ l.expiry = PAST BY <1>2, LapsedFields
<1> HIDE DEF l, tx
<1>5. Terms(d) = Terms(u) /\ d.expiry = FUTURE /\ (VerifySignature(d) <=> principal \in PublicKeys)
  BY <1>2, SignatureTells
<1>6. Terms(f) = Terms(u) /\ (VerifySignature(f) <=> principal \in PublicKeys /\ principal = "nobody")
  BY <1>2, SignatureTells
<1>7. Terms(e) = Terms(u) /\ e.expiry = PAST /\ (VerifySignature(e) <=> principal \in PublicKeys)
  BY <1>2, <1>4, SignatureTells DEF Terms
<1> HIDE DEF d, f, e
<1>8. /\ d.id = id /\ d.principal = principal /\ d.merchant = None /\ d.exact = None
      /\ d.max = max /\ d.scope = scope
      /\ f.id = id /\ f.principal = principal
      /\ e.id = id /\ e.principal = principal
  BY <1>2, <1>5, <1>6, <1>7 DEF Terms
<1>9. NaN \notin Int /\ Infinity \notin Int /\ None \notin Int /\ Naive \notin Int
  BY PolicyAssumption
<1>10. PAST \in Int /\ FUTURE \in Int /\ PAST <= now BY DEF PAST, FUTURE
<1>11. "nobody" \notin Registry BY DEF Registry
<1>12. ASSUME amount \in Int
       PROVE  (AmountFits(d, tx) <=> amount <= max) /\ (NeedsReview(d, tx) <=> 2 * amount > max)
  BY <1>3, <1>8, <1>9, <1>12 DEF AmountFits, NeedsReview, Over
<1> DEFINE valid == amount \in Int /\ amount > 0
<1>13. ~valid => FailedCheck(d, tx, now) = "invalid_amount" BY <1>3, EarlyReturns
<1>14. valid /\ principal \notin Registry => FailedCheck(f, tx, now) = "unknown_principal"
  BY <1>3, <1>8, EarlyReturns
<1>15. valid /\ principal \in Registry => FailedCheck(f, tx, now) = "signature"
  BY <1>3, <1>6, <1>8, <1>11, EarlyReturns
<1>16. valid /\ principal \in Registry => FailedCheck(e, tx, now) = "expiry"
  BY <1>3, <1>7, <1>8, <1>10, EarlyReturns
<1>17. ASSUME valid, principal \in Registry
       PROVE  FailedCheck(d, tx, now) =
                IF now >= FUTURE THEN "expiry"
                ELSE IF amount > max THEN "amount_cap"
                ELSE IF scope # None /\ category \notin scope THEN "category_scope"
                ELSE "none"
  BY <1>3, <1>5, <1>8, <1>9, <1>10, <1>12, <1>17, EarlyReturns
<1>18. ASSUME valid, principal \in Registry
       PROVE  /\ now >= FUTURE => FailedCheck(d, tx, now) = "expiry"
              /\ now < FUTURE /\ amount > max => FailedCheck(d, tx, now) = "amount_cap"
              /\ now < FUTURE /\ amount <= max /\ scope # None /\ category \notin scope =>
                    FailedCheck(d, tx, now) = "category_scope"
              /\ now < FUTURE /\ amount <= max /\ category \in scope => FailedCheck(d, tx, now) = "none"
  BY <1>10, <1>17, <1>18
<1> QED BY <1>1, <1>8, <1>12, <1>13, <1>14, <1>15, <1>16, <1>18 DEF u, l, d, f, e, tx

\* An ACP token and a purchase.
LEMMA ACPDecides ==
    ASSUME PublicKeys = Registry,
           NEW id, NEW principal, NEW shop, NEW exact \in Int,
           NEW merchant, NEW amount \in Nat \ {0}, NEW category, NEW now \in Nat
    PROVE  LET u == ACP(id, principal, shop, exact)
               tx == Tx(merchant, amount, category)
               named == principal \in Registry
               first == FailedCheck(Signed(u), tx, now)
           IN  /\ Signed(u).id = id /\ Forged(u).id = id /\ Signed(Lapsed(u)).id = id
               /\ ~named => FailedCheck(Forged(u), tx, now) = "unknown_principal"
               /\ named =>
                    /\ FailedCheck(Forged(u), tx, now) = "signature"
                    /\ FailedCheck(Signed(Lapsed(u)), tx, now) = "expiry"
                    /\ now >= FUTURE => first = "expiry"
                    /\ now < FUTURE /\ shop \notin {None, merchant} => first = "merchant_match"
                    /\ now < FUTURE /\ shop = merchant /\ amount # exact => first = "amount_cap"
                    /\ now < FUTURE /\ shop = merchant /\ amount = exact => first = "none"
                    /\ ~NeedsReview(Signed(u), tx)
<1> DEFINE u == ACP(id, principal, shop, exact)
           l == Lapsed(u)
           d == ForgedBy(u, u.principal)
           f == ForgedBy(u, "nobody")
           e == ForgedBy(l, l.principal)
           tx == Tx(merchant, amount, category)
<1>1. Signed(u) = d /\ Forged(u) = f /\ Signed(l) = e
  BY DEF Signed, Forged, ForgedBy
<1>2. /\ DOMAIN u = Fields /\ u.id = id /\ u.principal = principal /\ u.expiry = FUTURE
      /\ u.merchant = shop /\ u.exact = exact /\ u.max = None /\ u.scope = None
  BY ACPFields
<1>3. tx.merchant = merchant /\ tx.amount = amount /\ tx.category = category BY DEF Tx
<1> HIDE DEF u
<1>4. DOMAIN l = Fields /\ Terms(l) = Terms(u) /\ l.expiry = PAST BY <1>2, LapsedFields
<1> HIDE DEF l, tx
<1>5. Terms(d) = Terms(u) /\ d.expiry = FUTURE /\ (VerifySignature(d) <=> principal \in PublicKeys)
  BY <1>2, SignatureTells
<1>6. Terms(f) = Terms(u) /\ (VerifySignature(f) <=> principal \in PublicKeys /\ principal = "nobody")
  BY <1>2, SignatureTells
<1>7. Terms(e) = Terms(u) /\ e.expiry = PAST /\ (VerifySignature(e) <=> principal \in PublicKeys)
  BY <1>2, <1>4, SignatureTells DEF Terms
<1> HIDE DEF d, f, e
<1>8. /\ d.id = id /\ d.principal = principal /\ d.merchant = shop /\ d.exact = exact
      /\ d.max = None /\ d.scope = None
      /\ f.id = id /\ f.principal = principal
      /\ e.id = id /\ e.principal = principal
  BY <1>2, <1>5, <1>6, <1>7 DEF Terms
<1>9. None \notin Int /\ Naive \notin Int BY PolicyAssumption
<1>10. PAST \in Int /\ FUTURE \in Int /\ PAST <= now BY DEF PAST, FUTURE
<1>11. "nobody" \notin Registry BY DEF Registry
<1>12. (AmountFits(d, tx) <=> amount = exact) /\ ~NeedsReview(d, tx)
  BY <1>3, <1>8, <1>9 DEF AmountFits, NeedsReview
<1>13. principal \notin Registry => FailedCheck(f, tx, now) = "unknown_principal"
  BY <1>3, <1>8, EarlyReturns
<1>14. principal \in Registry => FailedCheck(f, tx, now) = "signature"
  BY <1>3, <1>6, <1>8, <1>11, EarlyReturns
<1>15. principal \in Registry => FailedCheck(e, tx, now) = "expiry"
  BY <1>3, <1>7, <1>8, <1>10, EarlyReturns
<1>16. ASSUME principal \in Registry
       PROVE  FailedCheck(d, tx, now) =
                IF now >= FUTURE THEN "expiry"
                ELSE IF shop \notin {None, merchant} THEN "merchant_match"
                ELSE IF amount # exact THEN "amount_cap"
                ELSE "none"
  BY <1>3, <1>5, <1>8, <1>9, <1>10, <1>12, <1>16, EarlyReturns
<1>17. ASSUME principal \in Registry
       PROVE  /\ now >= FUTURE => FailedCheck(d, tx, now) = "expiry"
              /\ now < FUTURE /\ shop \notin {None, merchant} =>
                    FailedCheck(d, tx, now) = "merchant_match"
              /\ now < FUTURE /\ shop = merchant /\ amount # exact =>
                    FailedCheck(d, tx, now) = "amount_cap"
              /\ now < FUTURE /\ shop = merchant /\ amount = exact => FailedCheck(d, tx, now) = "none"
  BY <1>10, <1>16, <1>17
<1> QED BY <1>1, <1>8, <1>12, <1>13, <1>14, <1>15, <1>17 DEF u, l, d, f, e, tx

-----------------------------------------------------------------------------
(* The corpus: its order *)

Cases ==
    {forged_signature[i] : i \in 1..3}
    \cup {unknown_principal[i] : i \in 1..3}
    \cup {replay[i] : i \in 1..4}
    \cup {expired_mandate[i] : i \in 1..3}
    \cup {cross_merchant_token_misuse[i] : i \in 1..3}
    \cup {amount_cap_violation[i] : i \in 1..3}
    \cup {invalid_amount[i] : i \in 1..4}
    \cup {category_scope_violation[i] : i \in 1..3}
    \cup {needs_human_threshold[i] : i \in 1..4}
    \cup {legitimate[i] : i \in 1..12}

\* c is s with t behind it.
Followed(s, t, c) ==
    /\ c \in Seq(Cases) /\ Len(c) = Len(s) + Len(t)
    /\ \A i \in 1..Len(s) : c[i] = s[i]
    /\ \A i \in 1..Len(t) : c[Len(s) + i] = t[i]

LEMMA Concatenated ==
    ASSUME NEW s \in Seq(Cases), NEW t \in Seq(Cases)
    PROVE  Followed(s, t, s \o t)
<1> HIDE DEF Cases
<1> QED BY SMT DEF Followed

\* The classes, one after the other.
LEMMA CorpusInOrder ==
    /\ DOMAIN Corpus = 1..42
    /\ \A i \in 1..3 : Corpus[i] = forged_signature[i]
    /\ \A i \in 1..3 : Corpus[3 + i] = unknown_principal[i]
    /\ \A i \in 1..4 : Corpus[6 + i] = replay[i]
    /\ \A i \in 1..3 : Corpus[10 + i] = expired_mandate[i]
    /\ \A i \in 1..3 : Corpus[13 + i] = cross_merchant_token_misuse[i]
    /\ \A i \in 1..3 : Corpus[16 + i] = amount_cap_violation[i]
    /\ \A i \in 1..4 : Corpus[19 + i] = invalid_amount[i]
    /\ \A i \in 1..3 : Corpus[23 + i] = category_scope_violation[i]
    /\ \A i \in 1..4 : Corpus[26 + i] = needs_human_threshold[i]
    /\ \A i \in 1..12 : Corpus[30 + i] = legitimate[i]
<1>1. forged_signature \in Seq(Cases) /\ Len(forged_signature) = 3
  BY SMT DEF forged_signature, Cases
<1>2. unknown_principal \in Seq(Cases) /\ Len(unknown_principal) = 3
  BY SMT DEF unknown_principal, Cases
<1>3. replay \in Seq(Cases) /\ Len(replay) = 4 BY SMT DEF replay, Cases
<1>4. expired_mandate \in Seq(Cases) /\ Len(expired_mandate) = 3 BY SMT DEF expired_mandate, Cases
<1>5. cross_merchant_token_misuse \in Seq(Cases) /\ Len(cross_merchant_token_misuse) = 3
  BY SMT DEF cross_merchant_token_misuse, Cases
<1>6. amount_cap_violation \in Seq(Cases) /\ Len(amount_cap_violation) = 3
  BY SMT DEF amount_cap_violation, Cases
<1>7. invalid_amount \in Seq(Cases) /\ Len(invalid_amount) = 4 BY SMT DEF invalid_amount, Cases
<1>8. category_scope_violation \in Seq(Cases) /\ Len(category_scope_violation) = 3
  BY SMT DEF category_scope_violation, Cases
<1>9. needs_human_threshold \in Seq(Cases) /\ Len(needs_human_threshold) = 4
  BY SMT DEF needs_human_threshold, Cases
<1>10. legitimate \in Seq(Cases) /\ Len(legitimate) = 12 BY SMT DEF legitimate, Cases
<1> DEFINE s2 == forged_signature \o unknown_principal
           s3 == s2 \o replay
           s4 == s3 \o expired_mandate
           s5 == s4 \o cross_merchant_token_misuse
           s6 == s5 \o amount_cap_violation
           s7 == s6 \o invalid_amount
           s8 == s7 \o category_scope_violation
           s9 == s8 \o needs_human_threshold
           s10 == s9 \o legitimate
<1>11. /\ s2 \in Seq(Cases) /\ Len(s2) = 6
       /\ \A i \in 1..3 : s2[i] = forged_signature[i]
       /\ \A i \in 1..3 : s2[3 + i] = unknown_principal[i]
  <2>1. Followed(forged_signature, unknown_principal, s2) BY <1>1, <1>2, Concatenated
  <2> HIDE DEF s2
  <2> QED BY <2>1, <1>1, <1>2 DEF Followed
<1> HIDE DEF s2
<1>12. /\ s3 \in Seq(Cases) /\ Len(s3) = 10
       /\ \A i \in 1..6 : s3[i] = s2[i]
       /\ \A i \in 1..4 : s3[6 + i] = replay[i]
  <2>1. Followed(s2, replay, s3) BY <1>11, <1>3, Concatenated
  <2> HIDE DEF s3
  <2> QED BY <2>1, <1>11, <1>3 DEF Followed
<1> HIDE DEF s3
<1>13. /\ s4 \in Seq(Cases) /\ Len(s4) = 13
       /\ \A i \in 1..10 : s4[i] = s3[i]
       /\ \A i \in 1..3 : s4[10 + i] = expired_mandate[i]
  <2>1. Followed(s3, expired_mandate, s4) BY <1>12, <1>4, Concatenated
  <2> HIDE DEF s4
  <2> QED BY <2>1, <1>12, <1>4 DEF Followed
<1> HIDE DEF s4
<1>14. /\ s5 \in Seq(Cases) /\ Len(s5) = 16
       /\ \A i \in 1..13 : s5[i] = s4[i]
       /\ \A i \in 1..3 : s5[13 + i] = cross_merchant_token_misuse[i]
  <2>1. Followed(s4, cross_merchant_token_misuse, s5) BY <1>13, <1>5, Concatenated
  <2> HIDE DEF s5
  <2> QED BY <2>1, <1>13, <1>5 DEF Followed
<1> HIDE DEF s5
<1>15. /\ s6 \in Seq(Cases) /\ Len(s6) = 19
       /\ \A i \in 1..16 : s6[i] = s5[i]
       /\ \A i \in 1..3 : s6[16 + i] = amount_cap_violation[i]
  <2>1. Followed(s5, amount_cap_violation, s6) BY <1>14, <1>6, Concatenated
  <2> HIDE DEF s6
  <2> QED BY <2>1, <1>14, <1>6 DEF Followed
<1> HIDE DEF s6
<1>16. /\ s7 \in Seq(Cases) /\ Len(s7) = 23
       /\ \A i \in 1..19 : s7[i] = s6[i]
       /\ \A i \in 1..4 : s7[19 + i] = invalid_amount[i]
  <2>1. Followed(s6, invalid_amount, s7) BY <1>15, <1>7, Concatenated
  <2> HIDE DEF s7
  <2> QED BY <2>1, <1>15, <1>7 DEF Followed
<1> HIDE DEF s7
<1>17. /\ s8 \in Seq(Cases) /\ Len(s8) = 26
       /\ \A i \in 1..23 : s8[i] = s7[i]
       /\ \A i \in 1..3 : s8[23 + i] = category_scope_violation[i]
  <2>1. Followed(s7, category_scope_violation, s8) BY <1>16, <1>8, Concatenated
  <2> HIDE DEF s8
  <2> QED BY <2>1, <1>16, <1>8 DEF Followed
<1> HIDE DEF s8
<1>18. /\ s9 \in Seq(Cases) /\ Len(s9) = 30
       /\ \A i \in 1..26 : s9[i] = s8[i]
       /\ \A i \in 1..4 : s9[26 + i] = needs_human_threshold[i]
  <2>1. Followed(s8, needs_human_threshold, s9) BY <1>17, <1>9, Concatenated
  <2> HIDE DEF s9
  <2> QED BY <2>1, <1>17, <1>9 DEF Followed
<1> HIDE DEF s9
<1>19. /\ s10 \in Seq(Cases) /\ Len(s10) = 42
       /\ \A i \in 1..30 : s10[i] = s9[i]
       /\ \A i \in 1..12 : s10[30 + i] = legitimate[i]
  <2>1. Followed(s9, legitimate, s10) BY <1>18, <1>10, Concatenated
  <2> HIDE DEF s10
  <2> QED BY <2>1, <1>18, <1>10 DEF Followed
<1> HIDE DEF s10
<1>20. Corpus = s10 BY DEF Corpus, s2, s3, s4, s5, s6, s7, s8, s9, s10
<1>21. \A i \in 1..30 : Corpus[i] = s9[i] BY <1>20, <1>19
<1>22. \A i \in 1..26 : Corpus[i] = s8[i]
  <2>1. \A i \in 1..26 : i \in 1..30 OBVIOUS
  <2> QED BY <2>1, <1>21, <1>18
<1>23. \A i \in 1..23 : Corpus[i] = s7[i]
  <2>1. \A i \in 1..23 : i \in 1..26 OBVIOUS
  <2> QED BY <2>1, <1>22, <1>17
<1>24. \A i \in 1..19 : Corpus[i] = s6[i]
  <2>1. \A i \in 1..19 : i \in 1..23 OBVIOUS
  <2> QED BY <2>1, <1>23, <1>16
<1>25. \A i \in 1..16 : Corpus[i] = s5[i]
  <2>1. \A i \in 1..16 : i \in 1..19 OBVIOUS
  <2> QED BY <2>1, <1>24, <1>15
<1>26. \A i \in 1..13 : Corpus[i] = s4[i]
  <2>1. \A i \in 1..13 : i \in 1..16 OBVIOUS
  <2> QED BY <2>1, <1>25, <1>14
<1>27. \A i \in 1..10 : Corpus[i] = s3[i]
  <2>1. \A i \in 1..10 : i \in 1..13 OBVIOUS
  <2> QED BY <2>1, <1>26, <1>13
<1>28. \A i \in 1..6 : Corpus[i] = s2[i]
  <2>1. \A i \in 1..6 : i \in 1..10 OBVIOUS
  <2> QED BY <2>1, <1>27, <1>12
<1>29. \A i \in 1..3 : Corpus[i] = forged_signature[i] BY <1>28, <1>11
<1>30. \A i \in 1..3 : Corpus[3 + i] = unknown_principal[i] BY <1>28, <1>11
<1>31. \A i \in 1..4 : Corpus[6 + i] = replay[i] BY <1>27, <1>12
<1>32. \A i \in 1..3 : Corpus[10 + i] = expired_mandate[i]
  <2>1. \A i \in 1..3 : 10 + i \in 1..13 OBVIOUS
  <2> QED BY <2>1, <1>26, <1>13
<1>33. \A i \in 1..3 : Corpus[13 + i] = cross_merchant_token_misuse[i]
  <2>1. \A i \in 1..3 : 13 + i \in 1..16 OBVIOUS
  <2> QED BY <2>1, <1>25, <1>14
<1>34. \A i \in 1..3 : Corpus[16 + i] = amount_cap_violation[i]
  <2>1. \A i \in 1..3 : 16 + i \in 1..19 OBVIOUS
  <2> QED BY <2>1, <1>24, <1>15
<1>35. \A i \in 1..4 : Corpus[19 + i] = invalid_amount[i]
  <2>1. \A i \in 1..4 : 19 + i \in 1..23 OBVIOUS
  <2> QED BY <2>1, <1>23, <1>16
<1>36. \A i \in 1..3 : Corpus[23 + i] = category_scope_violation[i]
  <2>1. \A i \in 1..3 : 23 + i \in 1..26 OBVIOUS
  <2> QED BY <2>1, <1>22, <1>17
<1>37. \A i \in 1..4 : Corpus[26 + i] = needs_human_threshold[i]
  <2>1. \A i \in 1..4 : 26 + i \in 1..30 OBVIOUS
  <2> QED BY <2>1, <1>21, <1>18
<1>38. \A i \in 1..12 : Corpus[30 + i] = legitimate[i] BY <1>20, <1>19
<1>39. DOMAIN Corpus = 1..42 BY <1>19, <1>20
<1> QED BY <1>29, <1>30, <1>31, <1>32, <1>33, <1>34, <1>35, <1>36, <1>37, <1>38, <1>39

-----------------------------------------------------------------------------
(* The corpus: its labels *)

\* A denial that is labelled with the check that fails first.
Denies(c, now) ==
    c.outcome = "DENY" /\ c.check \in Named /\ FailedCheck(c.doc, c.tx, now) = c.check

\* A case whose purchase is within the terms, labelled with what a first use gets.
Lets(c, now) ==
    /\ FailedCheck(c.doc, c.tx, now) = "none"
    /\ [outcome |-> c.outcome, check |-> c.check] =
            IF NeedsReview(c.doc, c.tx)
            THEN [outcome |-> "NEEDS_HUMAN", check |-> "human_review_threshold"]
            ELSE [outcome |-> "ALLOW", check |-> "none"]

LEMMA Labels ==
    ASSUME NEW d, NEW tx, NEW now, NEW check \in Named
    PROVE  /\ Denies(Deny(d, tx, check), now) <=> FailedCheck(d, tx, now) = check
           /\ Lets(Flag(d, tx), now) <=> FailedCheck(d, tx, now) = "none" /\ NeedsReview(d, tx)
           /\ Lets(Allow(d, tx), now) <=> FailedCheck(d, tx, now) = "none" /\ ~NeedsReview(d, tx)
BY DEF Denies, Lets, Deny, Flag, Allow, Case

\* How AP2 mandates have to be labelled, forged, expired or good.
LEMMA AP2Labels ==
    ASSUME PublicKeys = Registry,
           NEW id, NEW principal, NEW max \in Int, NEW scope,
           NEW merchant, NEW amount, NEW category, NEW now \in Nat
    PROVE  LET u == AP2(id, principal, max, scope)
               tx == Tx(merchant, amount, category)
           IN  /\ ~(amount \in Int /\ amount > 0) => Denies(Deny(Signed(u), tx, "invalid_amount"), now)
               /\ amount \in Int /\ amount > 0 =>
                  /\ principal \notin Registry => Denies(Deny(Forged(u), tx, "unknown_principal"), now)
                  /\ principal \in Registry =>
                     /\ Denies(Deny(Forged(u), tx, "signature"), now)
                     /\ Denies(Deny(Signed(Lapsed(u)), tx, "expiry"), now)
                     /\ now < FUTURE =>
                        /\ amount > max => Denies(Deny(Signed(u), tx, "amount_cap"), now)
                        /\ amount <= max /\ scope # None /\ category \notin scope =>
                                Denies(Deny(Signed(u), tx, "category_scope"), now)
                        /\ amount <= max /\ category \in scope =>
                                /\ 2 * amount > max => Lets(Flag(Signed(u), tx), now)
                                /\ 2 * amount <= max => Lets(Allow(Signed(u), tx), now)
<1> DEFINE u == AP2(id, principal, max, scope)
           tx == Tx(merchant, amount, category)
<1>1. {"invalid_amount", "unknown_principal", "signature", "expiry", "amount_cap", "category_scope"}
        \subseteq Named
  BY SMT DEF Named, Checks
<1> QED BY <1>1, AP2Decides, Labels

\* And ACP tokens.
LEMMA ACPLabels ==
    ASSUME PublicKeys = Registry,
           NEW id, NEW principal, NEW shop, NEW exact \in Int,
           NEW merchant, NEW amount \in Nat \ {0}, NEW category, NEW now \in Nat
    PROVE  LET u == ACP(id, principal, shop, exact)
               tx == Tx(merchant, amount, category)
           IN  /\ principal \notin Registry => Denies(Deny(Forged(u), tx, "unknown_principal"), now)
               /\ principal \in Registry =>
                  /\ Denies(Deny(Forged(u), tx, "signature"), now)
                  /\ Denies(Deny(Signed(Lapsed(u)), tx, "expiry"), now)
                  /\ now < FUTURE =>
                     /\ shop \notin {None, merchant} =>
                            Denies(Deny(Signed(u), tx, "merchant_match"), now)
                     /\ shop = merchant /\ amount # exact =>
                            Denies(Deny(Signed(u), tx, "amount_cap"), now)
                     /\ shop = merchant /\ amount = exact => Lets(Allow(Signed(u), tx), now)
<1> DEFINE u == ACP(id, principal, shop, exact)
           tx == Tx(merchant, amount, category)
<1>1. {"unknown_principal", "signature", "expiry", "merchant_match", "amount_cap"} \subseteq Named
  BY SMT DEF Named, Checks
<1>2. \A check \in Named : \A d : Denies(Deny(d, tx, check), now) <=> FailedCheck(d, tx, now) = check
  BY Labels
<1>3. \A d : Lets(Allow(d, tx), now) <=> FailedCheck(d, tx, now) = "none" /\ ~NeedsReview(d, tx)
  BY <1>1, Labels
<1>4. principal \notin Registry => FailedCheck(Forged(u), tx, now) = "unknown_principal"
  BY ACPDecides
<1>5. ASSUME principal \in Registry
      PROVE  /\ FailedCheck(Forged(u), tx, now) = "signature"
             /\ FailedCheck(Signed(Lapsed(u)), tx, now) = "expiry"
             /\ ~NeedsReview(Signed(u), tx)
  BY <1>5, ACPDecides
<1>6. ASSUME principal \in Registry, now < FUTURE
      PROVE  /\ shop \notin {None, merchant} => FailedCheck(Signed(u), tx, now) = "merchant_match"
             /\ shop = merchant /\ amount # exact => FailedCheck(Signed(u), tx, now) = "amount_cap"
             /\ shop = merchant /\ amount = exact => FailedCheck(Signed(u), tx, now) = "none"
  BY <1>6, ACPDecides
<1> HIDE DEF u, tx
<1> QED BY <1>1, <1>2, <1>3, <1>4, <1>5, <1>6 DEF u, tx

\* That a field is not there is not said with the name of a merchant or with a set
\* of categories.
Merchants == {"merchant-a", "merchant-b", "merchant-c", "merchant-d", "merchant-amazon",
              "merchant-flipkart", "merchant-bestbuy"}
Categories == {"electronics", "books", "toys", "groceries", "furniture"}
NoneIsApart == None \notin Merchants /\ None \notin SUBSET Categories

\* The forged, the unknown and the expired are denied at any time.
LEMMA UntrustedLabels ==
    ASSUME PublicKeys = Registry, NEW now \in Nat
    PROVE  /\ \A i \in 1..3 : Denies(forged_signature[i], now)
           /\ \A i \in 1..3 : Denies(unknown_principal[i], now)
           /\ \A i \in 1..3 : Denies(expired_mandate[i], now)
           /\ \A i \in 1..4 : Denies(invalid_amount[i], now)
<1>1. Denies(forged_signature[1], now) BY AP2Labels, SMT DEF forged_signature, Rupees, Registry
<1>2. Denies(forged_signature[2], now) BY ACPLabels, SMT DEF forged_signature, Rupees, Registry
<1>3. Denies(forged_signature[3], now) BY AP2Labels, SMT DEF forged_signature, Rupees, Registry
<1>4. Denies(unknown_principal[1], now) BY AP2Labels, SMT DEF unknown_principal, Rupees, Registry
<1>5. Denies(unknown_principal[2], now) BY ACPLabels, SMT DEF unknown_principal, Rupees, Registry
<1>6. Denies(unknown_principal[3], now) BY AP2Labels, SMT DEF unknown_principal, Rupees, Registry
<1>7. Denies(expired_mandate[1], now) BY AP2Labels, SMT DEF expired_mandate, Rupees, Registry
<1>8. Denies(expired_mandate[2], now) BY ACPLabels, SMT DEF expired_mandate, Rupees, Registry
<1>9. Denies(expired_mandate[3], now) BY AP2Labels, SMT DEF expired_mandate, Rupees, Registry
<1>10. NaN \notin Int /\ Infinity \notin Int BY PolicyAssumption
<1>11. Denies(invalid_amount[1], now) BY <1>10, AP2Labels, SMT DEF invalid_amount, Rupees
<1>12. Denies(invalid_amount[2], now) BY <1>10, AP2Labels, SMT DEF invalid_amount, Rupees
<1>13. Denies(invalid_amount[3], now) BY <1>10, AP2Labels, SMT DEF invalid_amount, Rupees
<1>14. Denies(invalid_amount[4], now) BY <1>10, AP2Labels, SMT DEF invalid_amount, Rupees
<1>15. /\ \A i \in 1..3 : i = 1 \/ i = 2 \/ i = 3
       /\ \A i \in 1..4 : i = 1 \/ i = 2 \/ i = 3 \/ i = 4
  OBVIOUS
<1> QED BY <1>1, <1>2, <1>3, <1>4, <1>5, <1>6, <1>7, <1>8, <1>9, <1>11, <1>12, <1>13, <1>14, <1>15

\* The purchases outside of the terms are denied while the mandates live.
LEMMA OutsideLabels ==
    ASSUME PublicKeys = Registry, NoneIsApart, NEW now \in Nat, now < FUTURE
    PROVE  /\ \A i \in 1..3 : Denies(cross_merchant_token_misuse[i], now)
           /\ \A i \in 1..3 : Denies(amount_cap_violation[i], now)
           /\ \A i \in 1..3 : Denies(category_scope_violation[i], now)
<1>1. None \notin {"merchant-a", "merchant-amazon", "merchant-c"} BY DEF NoneIsApart, Merchants
<1>2. E # None /\ {"books", "toys"} # None /\ EB # None
  BY DEF NoneIsApart, Categories, E, EB
<1>3. Denies(cross_merchant_token_misuse[1], now)
  BY <1>1, ACPLabels, SMT DEF cross_merchant_token_misuse, Rupees, Registry
<1>4. Denies(cross_merchant_token_misuse[2], now)
  BY <1>1, ACPLabels, SMT DEF cross_merchant_token_misuse, Rupees, Registry
<1>5. Denies(cross_merchant_token_misuse[3], now)
  BY <1>1, ACPLabels, SMT DEF cross_merchant_token_misuse, Rupees, Registry
<1>6. Denies(amount_cap_violation[1], now)
  BY AP2Labels, SMT DEF amount_cap_violation, Rupees, Registry
<1>7. Denies(amount_cap_violation[2], now)
  BY AP2Labels, SMT DEF amount_cap_violation, Rupees, Registry
<1>8. Denies(amount_cap_violation[3], now)
  BY ACPLabels, SMT DEF amount_cap_violation, Rupees, Registry
<1>9. Denies(category_scope_violation[1], now)
  BY <1>2, AP2Labels, SMT DEF category_scope_violation, Rupees, Registry, E, EB
<1>10. Denies(category_scope_violation[2], now)
  BY <1>2, AP2Labels, SMT DEF category_scope_violation, Rupees, Registry, E, EB
<1>11. Denies(category_scope_violation[3], now)
  BY <1>2, AP2Labels, SMT DEF category_scope_violation, Rupees, Registry, E, EB
<1>12. \A i \in 1..3 : i = 1 \/ i = 2 \/ i = 3 OBVIOUS
<1> QED BY <1>3, <1>4, <1>5, <1>6, <1>7, <1>8, <1>9, <1>10, <1>11, <1>12

\* And those inside are let through, once.
LEMMA InsideLabels ==
    ASSUME PublicKeys = Registry, NEW now \in Nat, now < FUTURE
    PROVE  /\ \A i \in 1..4 : Lets(needs_human_threshold[i], now)
           /\ \A i \in 1..12 : Lets(legitimate[i], now)
           /\ Lets(replay[1], now) /\ Lets(replay[3], now)
<1>1. Lets(needs_human_threshold[1], now)
  BY AP2Labels, SMT DEF needs_human_threshold, Rupees, Registry, E, B, EB, EGB
<1>2. Lets(needs_human_threshold[2], now)
  BY AP2Labels, SMT DEF needs_human_threshold, Rupees, Registry, E, B, EB, EGB
<1>3. Lets(needs_human_threshold[3], now)
  BY AP2Labels, SMT DEF needs_human_threshold, Rupees, Registry, E, B, EB, EGB
<1>4. Lets(needs_human_threshold[4], now)
  BY AP2Labels, SMT DEF needs_human_threshold, Rupees, Registry, E, B, EB, EGB
<1>5. Lets(legitimate[1], now)
  BY AP2Labels, SMT DEF legitimate, Rupees, Registry, E, B, EB, EGB
<1>6. Lets(legitimate[2], now)
  BY AP2Labels, SMT DEF legitimate, Rupees, Registry, E, B, EB, EGB
<1>7. Lets(legitimate[3], now)
  BY AP2Labels, SMT DEF legitimate, Rupees, Registry, E, B, EB, EGB
<1>8. Lets(legitimate[4], now)
  BY ACPLabels, SMT DEF legitimate, Rupees, Registry, E, B, EB, EGB
<1>9. Lets(legitimate[5], now)
  BY ACPLabels, SMT DEF legitimate, Rupees, Registry, E, B, EB, EGB
<1>10. Lets(legitimate[6], now)
  BY ACPLabels, SMT DEF legitimate, Rupees, Registry, E, B, EB, EGB
<1>11. Lets(legitimate[7], now)
  BY AP2Labels, SMT DEF legitimate, Rupees, Registry, E, B, EB, EGB
<1>12. Lets(legitimate[8], now)
  BY AP2Labels, SMT DEF legitimate, Rupees, Registry, E, B, EB, EGB
<1>13. Lets(legitimate[9], now)
  BY AP2Labels, SMT DEF legitimate, Rupees, Registry, E, B, EB, EGB
<1>14. Lets(legitimate[10], now)
  BY AP2Labels, SMT DEF legitimate, Rupees, Registry, E, B, EB, EGB
<1>15. Lets(legitimate[11], now)
  BY ACPLabels, SMT DEF legitimate, Rupees, Registry, E, B, EB, EGB
<1>16. Lets(legitimate[12], now)
  BY AP2Labels, SMT DEF legitimate, Rupees, Registry, E, B, EB, EGB
<1>17. Lets(replay[1], now) BY AP2Labels, SMT DEF replay, Rupees, Registry, E
<1>18. Lets(replay[3], now) BY ACPLabels, SMT DEF replay, Rupees, Registry
<1>19. /\ \A i \in 1..4 : i = 1 \/ i = 2 \/ i = 3 \/ i = 4
       /\ \A i \in 1..12 : i = 1 \/ i = 2 \/ i = 3 \/ i = 4 \/ i = 5 \/ i = 6
                           \/ i = 7 \/ i = 8 \/ i = 9 \/ i = 10 \/ i = 11 \/ i = 12
  OBVIOUS
<1> QED BY <1>1, <1>2, <1>3, <1>4, <1>5, <1>6, <1>7, <1>8, <1>9, <1>10, <1>11, <1>12, <1>13,
           <1>14, <1>15, <1>16, <1>17, <1>18, <1>19

-----------------------------------------------------------------------------
(* The corpus: its run *)

\* The ids of the cases that get as far as the claim, in their order.
Claiming ==
    <<"replay-pair-1", "replay-pair-1", "replay-pair-2", "replay-pair-2",
      "needs-human-1", "needs-human-2", "needs-human-3", "needs-human-boundary-just-over",
      "legit-ap2-1", "legit-ap2-2", "legit-ap2-boundary-exactly-half", "legit-acp-1",
      "legit-acp-2", "legit-acp-no-category", "legit-ap2-small-purchase",
      "legit-ap2-no-agent-id", "legit-ap2-multi-category-1", "legit-ap2-multi-category-2",
      "legit-acp-3", "legit-ap2-just-under-cap">>

\* Only the two replays have an id that was claimed before.
LEMMA ClaimedOnce ==
    \A i \in 1..20, j \in 1..20 : j < i /\ Claiming[j] = Claiming[i] => i = 2 \/ i = 4
BY SMT DEF Claiming

LEMMA CaseIds ==
    ASSUME NEW id, NEW principal, NEW a, NEW b, NEW tx, NEW check
    PROVE  LET ap2 == Signed(AP2(id, principal, a, b))
               acp == Signed(ACP(id, principal, a, b))
           IN  /\ Flag(ap2, tx).doc.id = id /\ Allow(ap2, tx).doc.id = id
               /\ Deny(ap2, tx, check).doc.id = id
               /\ Allow(acp, tx).doc.id = id /\ Deny(acp, tx, check).doc.id = id
<1>1. ASSUME NEW u, DOMAIN u = Fields PROVE Signed(u).id = u.id
  <2>1. Signed(u) = ForgedBy(u, u.principal) BY DEF Signed, ForgedBy
  <2>2. Terms(Signed(u)) = Terms(u) BY <1>1, <2>1, SignatureTells
  <2> QED BY <2>2 DEF Terms
<1>2. Signed(AP2(id, principal, a, b)).id = id BY <1>1, AP2Fields
<1>3. Signed(ACP(id, principal, a, b)).id = id BY <1>1, ACPFields
<1>4. \A d : Flag(d, tx).doc = d /\ Allow(d, tx).doc = d /\ Deny(d, tx, check).doc = d
  BY DEF Flag, Allow, Deny, Case
<1> QED BY <1>2, <1>3, <1>4

LEMMA ClaimingIds ==
    /\ \A i \in 1..4 : replay[i].doc.id = Claiming[i]
    /\ \A i \in 1..4 : needs_human_threshold[i].doc.id = Claiming[4 + i]
    /\ \A i \in 1..12 : legitimate[i].doc.id = Claiming[8 + i]
<1>1. replay[1].doc.id = Claiming[1] BY CaseIds, SMT DEF replay, Claiming
<1>2. replay[2].doc.id = Claiming[2] BY CaseIds, SMT DEF replay, Claiming
<1>3. replay[3].doc.id = Claiming[3] BY CaseIds, SMT DEF replay, Claiming
<1>4. replay[4].doc.id = Claiming[4] BY CaseIds, SMT DEF replay, Claiming
<1>5. needs_human_threshold[1].doc.id = Claiming[5]
  BY CaseIds, SMT DEF needs_human_threshold, Claiming
<1>6. needs_human_threshold[2].doc.id = Claiming[6]
  BY CaseIds, SMT DEF needs_human_threshold, Claiming
<1>7. needs_human_threshold[3].doc.id = Claiming[7]
  BY CaseIds, SMT DEF needs_human_threshold, Claiming
<1>8. needs_human_threshold[4].doc.id = Claiming[8]
  BY CaseIds, SMT DEF needs_human_threshold, Claiming
<1>9. legitimate[1].doc.id = Claiming[9] BY CaseIds, SMT DEF legitimate, Claiming
<1>10. legitimate[2].doc.id = Claiming[10] BY CaseIds, SMT DEF legitimate, Claiming
<1>11. legitimate[3].doc.id = Claiming[11] BY CaseIds, SMT DEF legitimate, Claiming
<1>12. legitimate[4].doc.id = Claiming[12] BY CaseIds, SMT DEF legitimate, Claiming
<1>13. legitimate[5].doc.id = Claiming[13] BY CaseIds, SMT DEF legitimate, Claiming
<1>14. legitimate[6].doc.id = Claiming[14] BY CaseIds, SMT DEF legitimate, Claiming
<1>15. legitimate[7].doc.id = Claiming[15] BY CaseIds, SMT DEF legitimate, Claiming
<1>16. legitimate[8].doc.id = Claiming[16] BY CaseIds, SMT DEF legitimate, Claiming
<1>17. legitimate[9].doc.id = Claiming[17] BY CaseIds, SMT DEF legitimate, Claiming
<1>18. legitimate[10].doc.id = Claiming[18] BY CaseIds, SMT DEF legitimate, Claiming
<1>19. legitimate[11].doc.id = Claiming[19] BY CaseIds, SMT DEF legitimate, Claiming
<1>20. legitimate[12].doc.id = Claiming[20] BY CaseIds, SMT DEF legitimate, Claiming
<1>21. /\ \A i \in 1..4 : i = 1 \/ i = 2 \/ i = 3 \/ i = 4
       /\ \A i \in 1..12 : i = 1 \/ i = 2 \/ i = 3 \/ i = 4 \/ i = 5 \/ i = 6
                           \/ i = 7 \/ i = 8 \/ i = 9 \/ i = 10 \/ i = 11 \/ i = 12
  OBVIOUS
<1> QED BY <1>1, <1>2, <1>3, <1>4, <1>5, <1>6, <1>7, <1>8, <1>9, <1>10, <1>11, <1>12, <1>13,
           <1>14, <1>15, <1>16, <1>17, <1>18, <1>19, <1>20, <1>21

\* The second of each pair is the first again, labelled a replay.
LEMMA ReplayedPairs ==
    /\ replay[2].doc = replay[1].doc /\ replay[2].tx = replay[1].tx
    /\ replay[4].doc = replay[3].doc /\ replay[4].tx = replay[3].tx
    /\ Expected(replay[2]) = [outcome |-> "DENY", check |-> "replay"]
    /\ Expected(replay[4]) = [outcome |-> "DENY", check |-> "replay"]
BY DEF replay, Allow, Deny, Case, Expected

\* The decision with all the checks.
LEMMA EvaluatedByAll ==
    ASSUME NEW c, NEW claimed, NEW now
    PROVE  LET first == FailedCheck(c.doc, c.tx, now) IN
           Evaluated(c, claimed, "none", now) =
              IF first # "none" THEN [outcome |-> "DENY", check |-> first]
              ELSE IF c.doc.id \in claimed THEN [outcome |-> "DENY", check |-> "replay"]
              ELSE IF NeedsReview(c.doc, c.tx)
              THEN [outcome |-> "NEEDS_HUMAN", check |-> "human_review_threshold"]
              ELSE [outcome |-> "ALLOW", check |-> "none"]
BY NothingLeftOut DEF Evaluated

\* Where the cases are that a check denies, and those that claim.
Outside == 1..6 \cup 11..26
Inside == 7..10 \cup 27..42
Place(i) == IF i <= 10 THEN i - 6 ELSE i - 22

LEMMA OutsideIsDenied ==
    ASSUME PublicKeys = Registry, NoneIsApart, NEW now \in Nat, now < FUTURE, NEW i \in Outside
    PROVE  Denies(Corpus[i], now)
<1> DEFINE D(j) == Denies(Corpus[j], now)
<1>1. \A k \in 1..3 : D(k) BY CorpusInOrder, UntrustedLabels
<1>2. \A k \in 1..3 : D(3 + k) BY CorpusInOrder, UntrustedLabels
<1>3. \A k \in 1..3 : D(10 + k) BY CorpusInOrder, UntrustedLabels
<1>4. \A k \in 1..3 : D(13 + k) BY CorpusInOrder, OutsideLabels
<1>5. \A k \in 1..3 : D(16 + k) BY CorpusInOrder, OutsideLabels
<1>6. \A k \in 1..4 : D(19 + k) BY CorpusInOrder, UntrustedLabels
<1>7. \A k \in 1..3 : D(23 + k) BY CorpusInOrder, OutsideLabels
<1>8. \/ i \in 1..3
      \/ \E k \in 1..3 : i = 3 + k
      \/ \E k \in 1..3 : i = 10 + k
      \/ \E k \in 1..3 : i = 13 + k
      \/ \E k \in 1..3 : i = 16 + k
      \/ \E k \in 1..4 : i = 19 + k
      \/ \E k \in 1..3 : i = 23 + k
  BY DEF Outside
<1> HIDE DEF D
<1>9. D(i) BY <1>1, <1>2, <1>3, <1>4, <1>5, <1>6, <1>7, <1>8
<1> QED BY <1>9 DEF D

LEMMA InsideClaims ==
    ASSUME PublicKeys = Registry, NEW now \in Nat, now < FUTURE, NEW i \in Inside
    PROVE  /\ FailedCheck(Corpus[i].doc, Corpus[i].tx, now) = "none"
           /\ Corpus[i].doc.id = Claiming[Place(i)]
           /\ IF i \in {8, 10} THEN Expected(Corpus[i]) = [outcome |-> "DENY", check |-> "replay"]
              ELSE Lets(Corpus[i], now)
<1> DEFINE none(c) == FailedCheck(c.doc, c.tx, now) = "none"
           ok(c) == none(c) /\ Lets(c, now)
<1>1. none(replay[1]) /\ none(replay[3]) BY InsideLabels DEF Lets
<1>2. none(replay[2]) /\ none(replay[4]) BY <1>1, ReplayedPairs
<1>3. Corpus[7] = replay[1] /\ Corpus[8] = replay[2] /\ Corpus[9] = replay[3] /\ Corpus[10] = replay[4]
  <2>1. \A k \in 1..4 : Corpus[6 + k] = replay[k] BY CorpusInOrder
  <2>2. 7 = 6 + 1 /\ 8 = 6 + 2 /\ 9 = 6 + 3 /\ 10 = 6 + 4 OBVIOUS
  <2> QED BY <2>1, <2>2
<1>4. CASE i = 7 \/ i = 9
  <2>1. i = 7 => Place(i) = 1 BY DEF Place
  <2>2. i = 9 => Place(i) = 3 BY DEF Place
  <2> QED BY <1>1, <1>3, <1>4, <2>1, <2>2, InsideLabels, ClaimingIds
<1>5. CASE i = 8 \/ i = 10
  <2>1. i = 8 => Place(i) = 2 BY DEF Place
  <2>2. i = 10 => Place(i) = 4 BY DEF Place
  <2> QED BY <1>2, <1>3, <1>5, <2>1, <2>2, ReplayedPairs, ClaimingIds
<1>6. CASE i \in 27..30
  <2>1. PICK k \in 1..4 : i = 26 + k BY <1>6
  <2>2. Place(i) = 4 + k /\ i \notin {8, 10} BY <2>1 DEF Place
  <2>3. Corpus[i] = needs_human_threshold[k] BY <2>1, CorpusInOrder
  <2>4. Lets(needs_human_threshold[k], now) BY InsideLabels
  <2> QED BY <2>2, <2>3, <2>4, ClaimingIds DEF Lets
<1>7. CASE i \in 31..42
  <2>1. PICK k \in 1..12 : i = 30 + k BY <1>7
  <2>2. Place(i) = 8 + k /\ i \notin {8, 10} BY <2>1 DEF Place
  <2>3. Corpus[i] = legitimate[k] BY <2>1, CorpusInOrder
  <2>4. Lets(legitimate[k], now) BY InsideLabels
  <2> QED BY <2>2, <2>3, <2>4, ClaimingIds DEF Lets
<1>8. i = 7 \/ i = 8 \/ i = 9 \/ i = 10 \/ i \in 27..30 \/ i \in 31..42 BY DEF Inside
<1> QED BY <1>4, <1>5, <1>6, <1>7, <1>8

\* While the mandates live every case gets what it is labelled with.
LEMMA RunPasses ==
    ASSUME PublicKeys = Registry, NoneIsApart, NEW now \in Nat, now < FUTURE, NEW i \in 1..42
    PROVE  RunCase(i, "none", now)
<1> DEFINE c == Corpus[i]
           first(j) == FailedCheck(Corpus[j].doc, Corpus[j].tx, now)
           claimed == {Corpus[j].doc.id : j \in {k \in 1..(i - 1) : first(k) = "none"}}
<1>1. Claimed(i, "none", now) = claimed
  <2>1. \A k : FailsFirst(Corpus[k], "none", now) = first(k) BY NothingLeftOut
  <2> HIDE DEF first
  <2> QED BY <2>1 DEF Claimed
<1>2. Actual(i, "none", now) =
        IF first(i) # "none" THEN [outcome |-> "DENY", check |-> first(i)]
        ELSE IF c.doc.id \in claimed THEN [outcome |-> "DENY", check |-> "replay"]
        ELSE IF NeedsReview(c.doc, c.tx)
        THEN [outcome |-> "NEEDS_HUMAN", check |-> "human_review_threshold"]
        ELSE [outcome |-> "ALLOW", check |-> "none"]
  <2> HIDE DEF claimed
  <2> QED BY <1>1, EvaluatedByAll DEF Actual
<1>3. 1..42 = Outside \cup Inside /\ Outside \cap Inside = {} BY DEF Outside, Inside
<1>4. Expected(c) = [outcome |-> c.outcome, check |-> c.check] BY DEF Expected
<1>5. CASE i \in Outside
  <2>1. Denies(c, now) BY <1>5, OutsideIsDenied
  <2>2. first(i) = c.check /\ c.check # "none" /\ c.outcome = "DENY"
    BY <2>1, ChecksAreNamed DEF Denies, Named
  <2> HIDE DEF c, first
  <2> QED BY <1>2, <1>4, <2>2 DEF RunCase, c
<1>6. CASE i \in Inside
  <2>1. first(i) = "none" /\ c.doc.id = Claiming[Place(i)] BY <1>6, InsideClaims
  <2>2. \A j \in 1..(i - 1) : first(j) = "none" => j \in Inside /\ Corpus[j].doc.id = Claiming[Place(j)]
    <3> SUFFICES ASSUME NEW j \in 1..(i - 1), first(j) = "none"
                 PROVE  j \in Inside /\ Corpus[j].doc.id = Claiming[Place(j)]
      OBVIOUS
    <3>1. j \in 1..42 OBVIOUS
    <3>2. j \notin Outside
      <4>1. Denies(Corpus[j], now) => first(j) # "none" BY ChecksAreNamed DEF Denies, Named
      <4> QED BY <4>1, OutsideIsDenied
    <3> QED BY <1>3, <3>1, <3>2, InsideClaims
  <2>3. \A j \in Inside : Place(j) \in 1..20 /\ (j < i => Place(j) < Place(i))
    BY <1>6 DEF Inside, Place
  <2>4. CASE i \in {8, 10}
    <3>1. i - 1 \in 1..(i - 1) /\ i - 1 \in Inside BY <2>4 DEF Inside
    <3>2. Claiming[Place(i)] = Claiming[Place(i - 1)] BY <2>4, SMT DEF Place, Claiming
    <3>3. first(i - 1) = "none" /\ Corpus[i - 1].doc.id = c.doc.id BY <2>1, <3>1, <3>2, InsideClaims
    <3>4. c.doc.id \in claimed BY <3>1, <3>3
    <3>5. Expected(c) = [outcome |-> "DENY", check |-> "replay"] BY <1>6, <2>4, InsideClaims
    <3> HIDE DEF c, claimed, first
    <3> QED BY <1>2, <2>1, <3>4, <3>5 DEF RunCase, c
  <2>5. CASE i \notin {8, 10}
    <3>1. Place(i) \notin {2, 4} BY <1>6, <2>5 DEF Place, Inside
    <3>2. c.doc.id \notin claimed
      <4> SUFFICES ASSUME NEW j \in 1..(i - 1), first(j) = "none", Corpus[j].doc.id = c.doc.id
                   PROVE  FALSE
        OBVIOUS
      <4>1. j \in Inside /\ Claiming[Place(j)] = Claiming[Place(i)] BY <2>1, <2>2
      <4>2. j < i OBVIOUS
      <4> QED BY <1>6, <2>3, <3>1, <4>1, <4>2, ClaimedOnce
    <3>3. Lets(c, now) BY <1>6, <2>5, InsideClaims
    <3> HIDE DEF c, claimed, first
    <3> QED BY <1>2, <1>4, <2>1, <3>2, <3>3 DEF RunCase, Lets, c
  <2> QED BY <2>4, <2>5
<1> QED BY <1>3, <1>5, <1>6

\* From then on no case gets further than the expiry, good ones included.
LEMMA RunFails ==
    ASSUME PublicKeys = Registry, NEW now \in Nat, now >= FUTURE
    PROVE  ~RunCase(31, "none", now)
<1> DEFINE c == Corpus[31]
<1>1. c = legitimate[1]
  <2>1. 31 = 30 + 1 /\ 1 \in 1..12 OBVIOUS
  <2> QED BY <2>1, CorpusInOrder
<1>2. FailedCheck(legitimate[1].doc, legitimate[1].tx, now) = "expiry" /\ legitimate[1].check = "none"
  <2> DEFINE u == AP2("legit-ap2-1", "p1", Rupees(1000), E)
             tx == Tx("merchant-a", Rupees(300), "electronics")
  <2>1. legitimate[1] = Allow(Signed(u), tx) BY SMT DEF legitimate
  <2>2. Rupees(1000) \in Int /\ Rupees(300) \in Int /\ Rupees(300) > 0 BY SMT DEF Rupees
  <2>3. FailedCheck(Signed(u), tx, now) = "expiry" BY <2>2, AP2Decides DEF Registry
  <2> HIDE DEF u, tx
  <2> QED BY <2>1, <2>3 DEF Allow, Case
<1> HIDE DEF c
<1>3. Evaluated(c, Claimed(31, "none", now), "none", now) = [outcome |-> "DENY", check |-> "expiry"]
  BY <1>1, <1>2, EvaluatedByAll
<1> QED BY <1>1, <1>2, <1>3 DEF RunCase, Actual, Expected, c

\* The clock stays within the times the run is asked about.
THEOREM ClockBounded == Spec => [](clock \in 0..MaxClock)
<1>1. Init => clock \in 0..MaxClock BY PolicyAssumption DEF Init
<1>2. clock \in 0..MaxClock /\ [Next]_vars => (clock \in 0..MaxClock)'
  BY PolicyAssumption DEF Next, vars, Evaluate, Claim, Return, Tick
<1> QED BY <1>1, <1>2, PTL DEF Spec

\* A run has the one status it has.
LEMMA RunsTell ==
    ASSUME NEW without \in AllChecks \cup {"none"}, NEW now \in 0..MaxClock, NEW status
    PROVE  [without |-> without, now |-> now, status |-> status] \in Runs
                <=> status = ExitStatus(without, now)
<1> DEFINE run(w, n, s) == [without |-> w, now |-> n, status |-> s]
<1>1. \A w, n, s : run(w, n, s).without = w /\ run(w, n, s).now = n /\ run(w, n, s).status = s
  OBVIOUS
<1>2. Runs = {run(w, n, ExitStatus(w, n)) : w \in AllChecks \cup {"none"}, n \in 0..MaxClock}
  BY DEF Runs
<1> HIDE DEF run
<1>3. run(without, now, status) \in Runs <=> status = ExitStatus(without, now)
  BY <1>1, <1>2
<1> QED BY <1>3 DEF run

\* Where the registry is that of keys.py the corpus and the engine agree as long as
\* the corpus's mandates live, and not from then on.
THEOREM CorpusAgreesWhileAlive ==
    ASSUME PublicKeys = Registry, NoneIsApart
    PROVE  Spec => []CorpusAgrees
<1>1. clock \in 0..MaxClock => CorpusAgrees
  <2> SUFFICES ASSUME clock \in 0..MaxClock PROVE CorpusAgrees
    OBVIOUS
  <2>1. MaxClock \in Nat /\ clock \in Nat BY PolicyAssumption
  <2>2. [without |-> "none", now |-> clock, status |-> 0] \in Runs <=>
            \A i \in 1..42 : RunCase(i, "none", clock)
    BY RunsTell, CorpusInOrder DEF ExitStatus
  <2>3. clock < FUTURE \/ clock >= FUTURE BY <2>1 DEF FUTURE
  <2>4. ~(clock < FUTURE /\ clock >= FUTURE) BY <2>1 DEF FUTURE
  <2>5. clock < FUTURE => \A i \in 1..42 : RunCase(i, "none", clock) BY <2>1, RunPasses
  <2>6. clock >= FUTURE => ~RunCase(31, "none", clock) BY <2>1, RunFails
  <2> QED BY <2>2, <2>3, <2>4, <2>5, <2>6 DEF CorpusAgrees
<1> QED BY <1>1, ClockBounded, PTL

\* A check that is gone is named by no decision.
LEMMA GoneIsNeverNamed ==
    ASSUME NEW without \in AllChecks, NEW c, NEW claimed, NEW now
    PROVE  Evaluated(c, claimed, without, now).check # without
<1> DEFINE failed == {i \in DOMAIN Checks : Checks[i] # without /\ ~Passes(Checks[i], c.doc, c.tx, now)}
           first == CHOOSE i \in failed : \A j \in failed : i <= j
<1>1. without # "none" BY ChecksAreNamed DEF AllChecks
<1>2. FailsFirst(c, without, now) = IF failed = {} THEN "none" ELSE Checks[first] BY DEF FailsFirst
<1>3. failed # {} => Checks[first] # without
  <2>1. failed \in SUBSET (1..7) /\ \A i \in failed : Checks[i] # without BY ChecksAreNamed
  <2> HIDE DEF failed
  <2>2. failed # {} => first \in failed BY <2>1, FirstPosition
  <2> QED BY <2>1, <2>2
<1>4. FailsFirst(c, without, now) # without BY <1>1, <1>2, <1>3
<1> QED BY <1>1, <1>4 DEF Evaluated

\* Every check is the label of a case.
LEMMA EveryCheckIsALabel == \A check \in AllChecks : \E i \in 1..42 : Corpus[i].check = check
<1>1. /\ Corpus[20] = invalid_amount[1] /\ Corpus[4] = unknown_principal[1]
      /\ Corpus[1] = forged_signature[1] /\ Corpus[11] = expired_mandate[1]
      /\ Corpus[14] = cross_merchant_token_misuse[1]
      /\ Corpus[17] = amount_cap_violation[1] /\ Corpus[24] = category_scope_violation[1]
      /\ Corpus[8] = replay[2] /\ Corpus[27] = needs_human_threshold[1]
  <2>1. /\ 20 = 19 + 1 /\ 4 = 3 + 1 /\ 11 = 10 + 1 /\ 14 = 13 + 1 /\ 17 = 16 + 1 /\ 24 = 23 + 1
        /\ 8 = 6 + 2 /\ 27 = 26 + 1 /\ 1 \in 1..3 /\ 1 \in 1..4 /\ 2 \in 1..4
    OBVIOUS
  <2> QED BY <2>1, CorpusInOrder
<1>2. \A d, tx, check : Deny(d, tx, check).check = check BY DEF Deny, Case
<1>3. \A d, tx : Flag(d, tx).check = "human_review_threshold" BY DEF Flag, Case
<1>4. /\ invalid_amount[1].check = "invalid_amount" /\ unknown_principal[1].check = "unknown_principal"
      /\ forged_signature[1].check = "signature" /\ expired_mandate[1].check = "expiry"
  BY <1>2, SMT DEF invalid_amount, unknown_principal, forged_signature, expired_mandate
<1>5. /\ cross_merchant_token_misuse[1].check = "merchant_match"
      /\ amount_cap_violation[1].check = "amount_cap"
      /\ category_scope_violation[1].check = "category_scope" /\ replay[2].check = "replay"
      /\ needs_human_threshold[1].check = "human_review_threshold"
  BY <1>2, <1>3, SMT DEF cross_merchant_token_misuse, amount_cap_violation, category_scope_violation,
                        replay, needs_human_threshold
<1>6. AllChecks = {"invalid_amount", "unknown_principal", "signature", "expiry", "merchant_match",
                   "amount_cap", "category_scope", "replay", "human_review_threshold"}
  BY SMT DEF AllChecks, Checks
<1>7. {1, 4, 8, 11, 14, 17, 20, 24, 27} \subseteq 1..42 OBVIOUS
<1> QED BY <1>1, <1>4, <1>5, <1>6, <1>7

\* Whichever check is lost, at whatever time the corpus is run: the cases it is
\* labelled with can no longer be answered by name, and each check labels one.
THEOREM LostCheckIsNoticed == Spec => []CorpusGuardsEveryCheck
<1>1. clock \in 0..MaxClock => CorpusGuardsEveryCheck
  <2> SUFFICES ASSUME clock \in 0..MaxClock, NEW gone \in AllChecks
               PROVE  [without |-> gone, now |-> clock, status |-> 1] \in Runs
    BY DEF CorpusGuardsEveryCheck
  <2>1. PICK i \in 1..42 : Corpus[i].check = gone BY EveryCheckIsALabel
  <2>2. Actual(i, gone, clock).check # gone BY GoneIsNeverNamed DEF Actual
  <2>3. Expected(Corpus[i]).check = gone BY <2>1 DEF Expected
  <2>4. ~RunCase(i, gone, clock) BY <2>2, <2>3 DEF RunCase
  <2>5. ExitStatus(gone, clock) = 1 BY <2>4, CorpusInOrder DEF ExitStatus
  <2> QED BY <2>5, RunsTell
<1> QED BY <1>1, ClockBounded, PTL
=============================================================================
