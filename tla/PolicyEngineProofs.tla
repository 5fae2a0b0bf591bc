------------------------- MODULE PolicyEngineProofs -------------------------
(***************************************************************************)
(* Theorems about PolicyEngine, for any documents, transactions and        *)
(* threads.                                                                *)
(***************************************************************************)
EXTENDS PolicyEngine, TLAPS

\* What is asked of signatures: a principal's key is used for what that
\* principal agreed to, and for nothing else.
NoForgery == \A d \in Documents : VerifySignature(d) => d \in Agreements

-----------------------------------------------------------------------------
(* The checks *)

Named == {Checks[i] : i \in DOMAIN Checks}

\* Seven checks, none of which is called "none".
LEMMA ChecksAreNamed ==
    /\ DOMAIN Checks = 1..7
    /\ \A i \in 1..7 : Checks[i] \in Named /\ Checks[i] # "none"
BY SMT DEF Checks, Named

\* A set of positions that is not empty has a first one.
LEMMA FirstPosition ==
    ASSUME NEW S \in SUBSET (1..7), S # {}
    PROVE  \E i \in S : \A j \in S : i <= j
<1> DEFINE Before(k) == \A j \in S : k <= j
<1>1. Before(1) OBVIOUS
<1>2. SUFFICES ASSUME \A i \in S : ~Before(i) PROVE FALSE
  OBVIOUS
<1>3. \A k \in 1..7 : Before(k) => Before(k + 1)
  <2>1. SUFFICES ASSUME NEW k \in 1..7, Before(k), NEW j \in S PROVE k + 1 <= j
    OBVIOUS
  <2>2. k # j BY <1>2, <2>1
  <2> QED BY <2>1, <2>2
<1>4. \A j \in S : 8 <= j
  <2>1. Before(8) BY <1>1, <1>3
  <2> QED BY <2>1
<1>5. PICK j \in S : TRUE
  OBVIOUS
<1> QED BY <1>4, <1>5

\* The reason evaluate() gives is a check that fails, or "none" when all pass.
LEMMA FailedCheckSpec ==
    ASSUME NEW d, NEW tx, NEW now
    PROVE  LET check == FailedCheck(d, tx, now) IN
           \/ check \in Named /\ ~Passes(check, d, tx, now) /\ check # "none"
           \/ check = "none" /\ \A i \in 1..7 : Passes(Checks[i], d, tx, now)
<1> DEFINE failed == {i \in DOMAIN Checks : ~Passes(Checks[i], d, tx, now)}
           first == CHOOSE i \in failed : \A j \in failed : i <= j
<1>1. failed \in SUBSET (1..7) BY ChecksAreNamed
<1>2. CASE failed = {}
  BY <1>2, ChecksAreNamed DEF FailedCheck
<1>3. CASE failed # {}
  <2> HIDE DEF failed
  <2>1. first \in failed BY <1>1, <1>3, FirstPosition
  <2>2. first \in 1..7 /\ ~Passes(Checks[first], d, tx, now) BY <1>1, <2>1 DEF failed
  <2>3. FailedCheck(d, tx, now) = Checks[first] BY <1>3 DEF FailedCheck, failed
  <2> QED BY <2>2, <2>3, ChecksAreNamed
<1> QED BY <1>2, <1>3
-----------------------------------------------------------------------------
(* Types *)

Outcome == {"ALLOW", "DENY", "NEEDS_HUMAN"}

\* A decision on its way, or taken.
LEMMA DecisionOf ==
    ASSUME NEW d \in Documents, NEW tx \in Transactions, NEW at \in Nat, NEW outcome \in Outcome,
           NEW check \in Named \cup {"none", "replay", "human_review_threshold"}
    PROVE  [doc |-> d, tx |-> tx, at |-> at, outcome |-> outcome, check |-> check] \in Decision
BY DEF Decision, Named, Outcome

\* No thread has a call at first.
THEOREM PolicyTypeInit == Init => TypeOK
BY DEF Init, TypeOK, Ids

\* Every step of evaluate(), and of the clock, keeps the types.
THEOREM PolicyTypeStep == TypeOK /\ [Next]_vars => TypeOK'
<1> SUFFICES ASSUME TypeOK, [Next]_vars PROVE TypeOK'
  OBVIOUS
<1>1. ASSUME NEW t \in Threads, NEW d \in Documents, NEW tx \in Transactions, Evaluate(t, d, tx)
      PROVE  TypeOK'
  <2> DEFINE check == FailedCheck(d, tx, clock)
             next == IF check = "none" THEN "claim" ELSE "done"
  <2>1. check \in Named \cup {"none"} BY FailedCheckSpec
  <2> HIDE DEF check
  <2>2. Denied(d, tx, check) \in Decision BY <2>1, DecisionOf DEF TypeOK, Denied, Outcome
  <2>3. call' = [call EXCEPT ![t] = Denied(d, tx, check)] /\ pc' = [pc EXCEPT ![t] = next]
    BY <1>1 DEF Evaluate, check
  <2>4. UNCHANGED <<clock, spent, granted>> BY <1>1 DEF Evaluate
  <2> QED BY <2>2, <2>3, <2>4 DEF TypeOK
<1>2. ASSUME NEW t \in Threads, Claim(t) PROVE TypeOK'
  <2> DEFINE c == call[t]
  <2>1. c \in Decision /\ c.doc.id \in Ids /\ pc[t] = "claim"
    BY <1>2 DEF Claim, TypeOK, Decision, Ids
  <2>2. \E outcome \in Outcome, check \in Named \cup {"none", "replay", "human_review_threshold"} :
            Decide(t, outcome, check)
    BY <1>2 DEF Claim, Grant, Outcome
  <2>3. PICK outcome \in Outcome, check \in Named \cup {"none", "replay", "human_review_threshold"} :
            Decide(t, outcome, check)
    BY <2>2
  <2>4. call' = [call EXCEPT ![t] = [c EXCEPT !.outcome = outcome, !.check = check]]
    BY <2>1, <2>3 DEF Decide, Decision, TypeOK
  <2>5. [c EXCEPT !.outcome = outcome, !.check = check] \in Decision
    BY <2>1 DEF Decision, Named, Outcome
  <2>6. pc' = [pc EXCEPT ![t] = "done"] BY <2>3 DEF Decide
  <2>7. granted' \in [Ids -> Nat]
    BY <1>2, <2>1 DEF Claim, Grant, TypeOK
  <2>8. spent' \in SUBSET Ids /\ clock' = clock BY <1>2, <2>1 DEF Claim, TypeOK
  <2> QED BY <2>4, <2>5, <2>6, <2>7, <2>8 DEF TypeOK
<1>3. ASSUME NEW t \in Threads, Return(t) PROVE TypeOK'
  BY <1>3 DEF Return, TypeOK
<1>4. CASE Tick BY <1>4 DEF Tick, TypeOK
<1>5. CASE UNCHANGED vars BY <1>5 DEF vars, TypeOK
<1> QED BY <1>1, <1>2, <1>3, <1>4, <1>5 DEF Next

\* Every reachable state of PolicyEngine has its types.
THEOREM PolicyTypeCorrect == Spec => []TypeOK
<1>1. Init => TypeOK BY PolicyTypeInit
<1>2. TypeOK /\ [Next]_vars => TypeOK' BY PolicyTypeStep
<1> QED BY <1>1, <1>2, PTL DEF Spec
-----------------------------------------------------------------------------
(* The nonce is spent by a grant *)

\* Nothing is granted and nothing is spent at first.
THEOREM SpentInit == Init => SpentByOneGrant
BY DEF Init, SpentByOneGrant

\* Only the claim changes either of the two, and it changes both.
THEOREM SpentStep == TypeOK /\ SpentByOneGrant /\ [Next]_vars => SpentByOneGrant'
<1> SUFFICES ASSUME TypeOK, SpentByOneGrant, [Next]_vars PROVE SpentByOneGrant'
  OBVIOUS
<1>1. ASSUME NEW t \in Threads, Claim(t) PROVE SpentByOneGrant'
  <2> DEFINE id == call[t].doc.id
  <2>1. id \in Ids BY <1>1 DEF Claim, TypeOK, Decision, Ids
  <2>2. spent' = spent \cup {id} BY <1>1 DEF Claim
  <2>3. CASE id \in spent
    <3>1. granted' = granted BY <1>1, <2>3 DEF Claim
    <3> QED BY <2>2, <2>3, <3>1 DEF SpentByOneGrant
  <2>4. CASE id \notin spent
    <3>1. granted' = [granted EXCEPT ![id] = @ + 1] BY <1>1, <2>4 DEF Claim, Grant
    <3>2. granted[id] = 0 BY <2>1, <2>4 DEF SpentByOneGrant
    <3>3. granted'[id] = 1 BY <2>1, <3>1, <3>2 DEF TypeOK
    <3>4. \A i \in Ids : i # id => granted'[i] = granted[i] BY <3>1 DEF TypeOK
    <3> QED BY <2>2, <3>3, <3>4 DEF SpentByOneGrant
  <2> QED BY <2>3, <2>4
<1>2. ASSUME UNCHANGED <<spent, granted>> PROVE SpentByOneGrant'
  BY <1>2 DEF SpentByOneGrant
<1> QED BY <1>1, <1>2 DEF Next, Evaluate, Return, Tick, vars

\* Whoever evaluates what and when: a mandate id is spent by one grant, and by no
\* denial.
THEOREM NonceSpentByOneGrant == Spec => []SpentByOneGrant
<1>1. Init => TypeOK /\ SpentByOneGrant BY PolicyTypeInit, SpentInit
<1>2. TypeOK /\ SpentByOneGrant /\ [Next]_vars => (TypeOK /\ SpentByOneGrant)'
  BY PolicyTypeStep, SpentStep
<1> QED BY <1>1, <1>2, PTL DEF Spec

-----------------------------------------------------------------------------
(* A grant has passed every check *)

\* What a thread knows of its call: at the claim, and in a grant, no check of the
\* document at the time read has failed, and what is allowed needed no review.
GrantInv == \A t \in Threads :
    LET c == call[t] IN
    /\ pc[t] = "claim" => FailedCheck(c.doc, c.tx, c.at) = "none"
    /\ pc[t] = "done" /\ c.outcome # "DENY" => FailedCheck(c.doc, c.tx, c.at) = "none"
    /\ pc[t] = "done" /\ c.outcome = "ALLOW" => ~NeedsReview(c.doc, c.tx)

\* No thread has a call at first.
THEOREM GrantInit == Init => GrantInv
BY DEF Init, GrantInv

\* Evaluate goes on to the claim, and the claim to a grant, past every check only.
THEOREM GrantStep == TypeOK /\ GrantInv /\ [Next]_vars => GrantInv'
<1> SUFFICES ASSUME TypeOK, GrantInv, [Next]_vars, NEW u \in Threads
             PROVE  LET c == call'[u] IN
                    /\ pc'[u] = "claim" => FailedCheck(c.doc, c.tx, c.at) = "none"
                    /\ pc'[u] = "done" /\ c.outcome # "DENY" => FailedCheck(c.doc, c.tx, c.at) = "none"
                    /\ pc'[u] = "done" /\ c.outcome = "ALLOW" => ~NeedsReview(c.doc, c.tx)
  BY DEF GrantInv, FailedCheck, Passes, NeedsReview
<1> USE DEF TypeOK
<1>1. CASE pc'[u] = pc[u] /\ call'[u] = call[u]
  BY <1>1 DEF GrantInv
<1>2. ASSUME NEW d \in Documents, NEW tx \in Transactions, Evaluate(u, d, tx)
      PROVE  LET c == call'[u] IN
             /\ pc'[u] = "claim" => FailedCheck(c.doc, c.tx, c.at) = "none"
             /\ c.outcome = "DENY"
  <2>1. /\ call'[u] = Denied(d, tx, FailedCheck(d, tx, clock))
        /\ pc'[u] = "claim" => FailedCheck(d, tx, clock) = "none"
    BY <1>2 DEF Evaluate
  <2> QED BY <2>1 DEF Denied
<1>3. CASE Claim(u)
  <2>1. FailedCheck(call[u].doc, call[u].tx, call[u].at) = "none"
    BY <1>3 DEF GrantInv, Claim
  <2>2. /\ call'[u].doc = call[u].doc /\ call'[u].tx = call[u].tx /\ call'[u].at = call[u].at
        /\ call'[u].outcome = "ALLOW" => ~NeedsReview(call[u].doc, call[u].tx)
        /\ pc'[u] = "done"
    BY <1>3 DEF Claim, Grant, Decide, Decision
  <2> QED BY <2>1, <2>2
<1>4. CASE Return(u) BY <1>4 DEF Return
<1>5. ASSUME NEW t \in Threads, t # u,
             \/ \E d \in Documents, tx \in Transactions : Evaluate(t, d, tx)
             \/ Claim(t) \/ Return(t)
      PROVE  pc'[u] = pc[u] /\ call'[u] = call[u]
  BY <1>5 DEF Evaluate, Claim, Grant, Decide, Return
<1>6. CASE Tick \/ UNCHANGED vars
  BY <1>1, <1>6 DEF Tick, vars
<1> QED BY <1>1, <1>2, <1>3, <1>4, <1>5, <1>6 DEF Next
\* The inductive invariant of evaluate().
THEOREM PolicyInvariant == Spec => [](TypeOK /\ GrantInv)
<1>1. Init => TypeOK /\ GrantInv BY PolicyTypeInit, GrantInit
<1>2. TypeOK /\ GrantInv /\ [Next]_vars => (TypeOK /\ GrantInv)'
  BY PolicyTypeStep, GrantStep
<1> QED BY <1>1, <1>2, PTL DEF Spec

\* What it means to pass every check.
LEMMA PassesAll ==
    ASSUME NEW d \in Documents, NEW tx \in Transactions, NEW at \in Nat,
           FailedCheck(d, tx, at) = "none"
    PROVE  /\ tx.amount \in Int /\ tx.amount > 0
           /\ VerifySignature(d)
           /\ d.expiry \in Nat /\ at < d.expiry
           /\ d.merchant \in {None, tx.merchant}
           /\ AmountFits(d, tx)
           /\ d.scope # None => tx.category \in d.scope
<1>1. \A i \in 1..7 : Passes(Checks[i], d, tx, at) BY FailedCheckSpec
<1>2. /\ Checks[1] = "invalid_amount" /\ Checks[3] = "signature" /\ Checks[4] = "expiry"
      /\ Checks[5] = "merchant_match" /\ Checks[6] = "amount_cap" /\ Checks[7] = "category_scope"
  BY DEF Checks
<1>3. /\ Passes("invalid_amount", d, tx, at) /\ Passes("signature", d, tx, at)
      /\ Passes("expiry", d, tx, at) /\ Passes("merchant_match", d, tx, at)
      /\ Passes("amount_cap", d, tx, at) /\ Passes("category_scope", d, tx, at)
  <2>1. 1 \in 1..7 /\ 3 \in 1..7 /\ 4 \in 1..7 /\ 5 \in 1..7 /\ 6 \in 1..7 /\ 7 \in 1..7
    OBVIOUS
  <2> QED BY <1>1, <1>2, <2>1
<1>4. tx.amount \in Int /\ tx.amount > 0 BY <1>3 DEF Passes
<1>5. VerifySignature(d) BY <1>3 DEF Passes
<1>6. d.expiry # Naive /\ d.expiry > at BY <1>3 DEF Passes
<1>7. d.expiry \in Nat BY <1>6, PolicyAssumption DEF NormalizedMandate
<1>8. d.merchant \in {None, tx.merchant} BY <1>3 DEF Passes
<1>9. AmountFits(d, tx) BY <1>3 DEF Passes
<1>10. d.scope # None => tx.category \in d.scope BY <1>3 DEF Passes
<1> QED BY <1>4, <1>5, <1>6, <1>7, <1>8, <1>9, <1>10

\* A ceiling that is a number binds an amount that is one, and half of it what is
\* not reviewed.
LEMMA CeilingBinds ==
    ASSUME NEW d \in Documents, NEW tx, tx.amount \in Int, AmountFits(d, tx),
           d.exact = None, d.max \in Int
    PROVE  /\ tx.amount <= d.max
           /\ ~NeedsReview(d, tx) => tx.amount <= d.max - tx.amount
<1>1. NaN \notin Int /\ Infinity \notin Int /\ None \notin Int
  BY PolicyAssumption
<1>2. d.max # None /\ ~Over(tx.amount, d.max) BY <1>1 DEF AmountFits
<1>3. \A a \in Int : Over(a, d.max) <=> a > d.max BY <1>1 DEF Over
<1>4. 2 * tx.amount \in Int /\ (2 * tx.amount <= d.max => tx.amount <= d.max - tx.amount)
  OBVIOUS
<1>5. ~NeedsReview(d, tx) => ~Over(2 * tx.amount, d.max) BY <1>2 DEF NeedsReview
<1> QED BY <1>2, <1>3, <1>4, <1>5

\* The invariant makes every grant one the document permits.
LEMMA GrantedPasses ==
    ASSUME TypeOK, GrantInv, NEW c \in Granted
    PROVE  /\ c \in Decision
           /\ FailedCheck(c.doc, c.tx, c.at) = "none"
           /\ c.outcome = "ALLOW" => ~NeedsReview(c.doc, c.tx)
<1>1. PICK t \in Threads : c = call[t] /\ pc[t] = "done" BY DEF Granted, Decided
<1>2. c.outcome # "DENY" BY DEF Granted
<1> QED BY <1>1, <1>2 DEF TypeOK, GrantInv

\* Whatever is granted is inside the document it is granted for.
THEOREM GrantsPermitted == Spec => []GrantsArePermitted
<1>1. TypeOK /\ GrantInv => GrantsArePermitted
  <2> SUFFICES ASSUME TypeOK, GrantInv, NEW c \in Granted
               PROVE  /\ c.doc.expiry # Naive /\ c.at < c.doc.expiry
                      /\ c.tx.amount \in Int /\ c.tx.amount > 0
                      /\ c.doc.exact # None => c.tx.amount = c.doc.exact
                      /\ c.doc.exact = None /\ c.doc.max \in Int =>
                            /\ c.tx.amount <= c.doc.max
                            /\ c.outcome = "ALLOW" => c.tx.amount <= c.doc.max - c.tx.amount
                      /\ c.doc.merchant # None => c.tx.merchant = c.doc.merchant
                      /\ c.doc.scope # None => c.tx.category \in c.doc.scope
    BY DEF GrantsArePermitted
  <2>1. c.doc \in Documents /\ c.tx \in Transactions /\ c.at \in Nat
    BY GrantedPasses DEF Decision
  <2>2. FailedCheck(c.doc, c.tx, c.at) = "none" BY GrantedPasses
  <2>3. /\ c.tx.amount \in Int /\ c.tx.amount > 0
        /\ c.doc.expiry \in Nat /\ c.at < c.doc.expiry
        /\ c.doc.merchant \in {None, c.tx.merchant}
        /\ AmountFits(c.doc, c.tx)
        /\ c.doc.scope # None => c.tx.category \in c.doc.scope
    BY <2>1, <2>2, PassesAll
  <2>4. c.doc.expiry # Naive BY <2>3, PolicyAssumption
  <2>5. c.doc.exact # None => c.tx.amount = c.doc.exact BY <2>3 DEF AmountFits
  <2>6. c.doc.exact = None /\ c.doc.max \in Int =>
            /\ c.tx.amount <= c.doc.max
            /\ c.outcome = "ALLOW" => c.tx.amount <= c.doc.max - c.tx.amount
    BY <2>1, <2>3, CeilingBinds, GrantedPasses
  <2> QED BY <2>3, <2>4, <2>5, <2>6
<1> QED BY <1>1, PolicyInvariant, PTL

\* Where nobody's key is used without him, whatever is granted was agreed to.
THEOREM GrantsAgreed ==
    ASSUME NoForgery
    PROVE  Spec => []GrantsAreAgreed
<1>1. TypeOK /\ GrantInv => GrantsAreAgreed
  <2> SUFFICES ASSUME TypeOK, GrantInv, NEW c \in Granted PROVE c.doc \in Agreements
    BY DEF GrantsAreAgreed
  <2>1. c.doc \in Documents /\ VerifySignature(c.doc)
    <3>1. c.doc \in Documents /\ c.tx \in Transactions /\ c.at \in Nat
      BY GrantedPasses DEF Decision
    <3>2. FailedCheck(c.doc, c.tx, c.at) = "none" BY GrantedPasses
    <3> QED BY <3>1, <3>2, PassesAll
  <2> QED BY <2>1, NoForgery DEF NoForgery
<1> QED BY <1>1, PolicyInvariant, PTL

-----------------------------------------------------------------------------
(* Reasons *)

\* Of the checks that fail the first is named: the ones before it pass.
LEMMA EarlierChecksPass ==
    ASSUME NEW d, NEW tx, NEW now, NEW n \in 1..7, FailedCheck(d, tx, now) = Checks[n]
    PROVE  \A i \in 1..7 : i < n => Passes(Checks[i], d, tx, now)
<1> DEFINE failed == {i \in DOMAIN Checks : ~Passes(Checks[i], d, tx, now)}
           first == CHOOSE i \in failed : \A j \in failed : i <= j
<1>1. failed \in SUBSET (1..7) BY ChecksAreNamed
<1>2. failed # {} BY ChecksAreNamed DEF FailedCheck
<1>3. FailedCheck(d, tx, now) = Checks[first] BY <1>2 DEF FailedCheck
<1> HIDE DEF failed
<1>4. first \in failed /\ \A j \in failed : first <= j BY <1>1, <1>2, FirstPosition
<1> HIDE DEF first
<1>5. first \in 1..7 BY <1>1, <1>4
<1>6. first = n
  <2>1. \A i, j \in 1..7 : Checks[i] = Checks[j] => i = j BY SMT DEF Checks
  <2> QED BY <1>3, <1>5, <2>1
<1>7. ASSUME NEW i \in 1..7, i < n PROVE i \notin failed BY <1>4, <1>6, <1>7
<1> QED BY <1>7, ChecksAreNamed DEF failed

\* A decision names the check that failed first, unless all passed: then the
\* nonce or the threshold decided, or nothing did.
ReasonInv == \A t \in Threads :
    LET c == call[t]
        failed == FailedCheck(c.doc, c.tx, c.at)
    IN  pc[t] = "done" =>
            \/ c.check = failed /\ failed # "none"
            \/ failed = "none" /\ c.check \in {"none", "replay", "human_review_threshold"}

\* Nothing is decided at first.
THEOREM ReasonInit == Init => ReasonInv
BY DEF Init, ReasonInv

\* Evaluate gives the reason it found, the claim one of its own three.
THEOREM ReasonStep == TypeOK /\ GrantInv /\ ReasonInv /\ [Next]_vars => ReasonInv'
<1> SUFFICES ASSUME TypeOK, GrantInv, ReasonInv, [Next]_vars, NEW u \in Threads, pc'[u] = "done"
             PROVE  LET c == call'[u]
                        failed == FailedCheck(c.doc, c.tx, c.at)
                    IN  \/ c.check = failed /\ failed # "none"
                        \/ failed = "none" /\ c.check \in {"none", "replay", "human_review_threshold"}
  BY DEF ReasonInv, FailedCheck, Passes
<1> USE DEF TypeOK
<1>1. CASE pc'[u] = pc[u] /\ call'[u] = call[u]
  BY <1>1 DEF ReasonInv
<1>2. ASSUME NEW d \in Documents, NEW tx \in Transactions, Evaluate(u, d, tx)
      PROVE  LET c == call'[u] IN
             c.check = FailedCheck(c.doc, c.tx, c.at) /\ c.check # "none"
  <2>1. /\ call'[u] = Denied(d, tx, FailedCheck(d, tx, clock))
        /\ FailedCheck(d, tx, clock) # "none"
    BY <1>2 DEF Evaluate
  <2> QED BY <2>1 DEF Denied
<1>3. CASE Claim(u)
  <2>1. FailedCheck(call[u].doc, call[u].tx, call[u].at) = "none"
    BY <1>3 DEF GrantInv, Claim
  <2>2. /\ call'[u].doc = call[u].doc /\ call'[u].tx = call[u].tx /\ call'[u].at = call[u].at
        /\ call'[u].check \in {"none", "replay", "human_review_threshold"}
    BY <1>3 DEF Claim, Grant, Decide, Decision
  <2> QED BY <2>1, <2>2
<1>4. CASE Return(u) BY <1>4 DEF Return
<1>5. ASSUME NEW t \in Threads, t # u,
             \/ \E d \in Documents, tx \in Transactions : Evaluate(t, d, tx)
             \/ Claim(t) \/ Return(t)
      PROVE  pc'[u] = pc[u] /\ call'[u] = call[u]
  BY <1>5 DEF Evaluate, Claim, Grant, Decide, Return
<1>6. CASE Tick \/ UNCHANGED vars
  BY <1>1, <1>6 DEF Tick, vars
<1> QED BY <1>1, <1>2, <1>3, <1>4, <1>5, <1>6 DEF Next

\* The inductive invariant of the reasons.
THEOREM ReasonInvariant == Spec => [](TypeOK /\ ReasonInv)
<1>1. Init => TypeOK /\ GrantInv /\ ReasonInv BY PolicyTypeInit, GrantInit, ReasonInit
<1>2. TypeOK /\ GrantInv /\ ReasonInv /\ [Next]_vars => (TypeOK /\ GrantInv /\ ReasonInv)'
  BY PolicyTypeStep, GrantStep, ReasonStep
<1> QED BY <1>1, <1>2, PTL DEF Spec

\* What the caller may conclude from the reason alone.
LEMMA ReasonTells ==
    ASSUME NEW d \in Documents, NEW tx \in Transactions, NEW at \in Nat
    PROVE  LET check == FailedCheck(d, tx, at) IN
           /\ check \in {"expiry", "merchant_match", "amount_cap", "category_scope"} => VerifySignature(d)
           /\ check = "signature" => d.principal \in PublicKeys
           /\ check \notin {"replay", "human_review_threshold"}
<1> DEFINE check == FailedCheck(d, tx, at)
<1>1. /\ Checks[1] = "invalid_amount" /\ Checks[2] = "unknown_principal" /\ Checks[3] = "signature"
      /\ Checks[4] = "expiry" /\ Checks[5] = "merchant_match" /\ Checks[6] = "amount_cap"
      /\ Checks[7] = "category_scope"
  BY DEF Checks
<1>2. ASSUME NEW n \in 4..7, check = Checks[n]
      PROVE  VerifySignature(d)
  <2>1. n \in 1..7 /\ 3 \in 1..7 /\ 3 < n OBVIOUS
  <2>2. Passes(Checks[3], d, tx, at) BY <1>2, <2>1, EarlierChecksPass
  <2> QED BY <1>1, <2>2 DEF Passes
<1>3. ASSUME check = "signature"
      PROVE  d.principal \in PublicKeys
  <2>1. 2 \in 1..7 /\ 3 \in 1..7 OBVIOUS
  <2>2. Passes(Checks[2], d, tx, at) BY <1>1, <1>3, <2>1, EarlierChecksPass
  <2> QED BY <1>1, <2>2 DEF Passes
<1>4. check \notin {"replay", "human_review_threshold"}
  <2>1. check \in Named \cup {"none"} BY FailedCheckSpec
  <2>2. Named = {"invalid_amount", "unknown_principal", "signature", "expiry", "merchant_match",
                 "amount_cap", "category_scope"}
    BY SMT DEF Named, Checks
  <2> QED BY <2>1, <2>2
<1> HIDE DEF check
<1>5. ASSUME check \in {"expiry", "merchant_match", "amount_cap", "category_scope"}
      PROVE  VerifySignature(d)
  <2>1. 4 \in 4..7 /\ 5 \in 4..7 /\ 6 \in 4..7 /\ 7 \in 4..7 OBVIOUS
  <2> QED BY <1>1, <1>2, <1>5, <2>1
<1> QED BY <1>3, <1>4, <1>5 DEF check

\* A reason that quotes a mandate, or that it is used up, is given to somebody who
\* holds one its principal agreed to, and a replay only of one still alive.
THEOREM ReasonsEarned ==
    ASSUME NoForgery
    PROVE  Spec => []ReasonsAreEarned
<1>1. TypeOK /\ ReasonInv => ReasonsAreEarned
  <2> SUFFICES ASSUME TypeOK, ReasonInv, NEW c \in Decided
               PROVE  /\ c.check \in {"expiry", "merchant_match", "amount_cap", "category_scope", "replay"}
                            => c.doc \in Agreements
                      /\ c.check = "signature" => c.doc.principal \in PublicKeys
                      /\ c.check = "replay" => c.at < c.doc.expiry
    BY DEF ReasonsAreEarned
  <2> DEFINE failed == FailedCheck(c.doc, c.tx, c.at)
  <2>1. PICK t \in Threads : c = call[t] /\ pc[t] = "done" BY DEF Decided
  <2>2. c.doc \in Documents /\ c.tx \in Transactions /\ c.at \in Nat
    BY <2>1 DEF TypeOK, Decision
  <2>3. \/ c.check = failed /\ failed # "none"
        \/ failed = "none" /\ c.check \in {"none", "replay", "human_review_threshold"}
    BY <2>1 DEF ReasonInv
  <2>4. /\ failed \in {"expiry", "merchant_match", "amount_cap", "category_scope"} => VerifySignature(c.doc)
        /\ failed = "signature" => c.doc.principal \in PublicKeys
        /\ failed \notin {"replay", "human_review_threshold"}
    BY <2>2, ReasonTells
  <2>5. failed = "none" => VerifySignature(c.doc) /\ c.at < c.doc.expiry
    BY <2>2, PassesAll
  <2>6. VerifySignature(c.doc) => c.doc \in Agreements BY <2>2, NoForgery DEF NoForgery
  <2> HIDE DEF failed
  <2> QED BY <2>3, <2>4, <2>5, <2>6
<1> QED BY <1>1, ReasonInvariant, PTL

-----------------------------------------------------------------------------
(* The threshold *)

\* More than half of the ceiling stays more than half of it when the amount grows.
LEMMA ReviewIsMonotone ==
    ASSUME NEW d \in Documents, NEW a \in Int, NEW b \in Int, a < b, NEW tx, NEW larger,
           tx.amount = a, larger.amount = b, NeedsReview(d, tx)
    PROVE  NeedsReview(d, larger)
<1>1. NaN \notin Int /\ Infinity \notin Int BY PolicyAssumption
<1>2. d.max \in Amounts BY PolicyAssumption DEF NeedsReview, NormalizedMandate
<1>3. d.max \in Int /\ 2 * a > d.max BY <1>1, <1>2 DEF NeedsReview, Over, Amounts
<1>4. 2 * b > d.max BY <1>3
<1> QED BY <1>1, <1>3, <1>4 DEF NeedsReview, Over

\* No amount slips between the threshold and the ceiling: what is larger than a
\* purchase that goes to a human goes to one too, or is denied.
THEOREM LargerNeverEasier == Spec => []LargerIsNotEasier
<1>1. TypeOK /\ GrantInv => LargerIsNotEasier
  <2> SUFFICES ASSUME TypeOK, GrantInv, NEW t \in Threads, pc[t] = "claim",
                      NeedsReview(call[t].doc, call[t].tx),
                      NEW other \in Transactions, Over(other.amount, call[t].tx.amount)
               PROVE  LET larger == [call[t].tx EXCEPT !.amount = other.amount] IN
                      \/ FailedCheck(call[t].doc, larger, call[t].at) # "none"
                      \/ NeedsReview(call[t].doc, larger)
    BY DEF LargerIsNotEasier
  <2> DEFINE d == call[t].doc
             tx == call[t].tx
             larger == [tx EXCEPT !.amount = other.amount]
  <2>1. d \in Documents /\ tx \in Transactions /\ call[t].at \in Nat BY DEF TypeOK, Decision
  <2>2. tx.amount \in Int
    <3>1. FailedCheck(d, tx, call[t].at) = "none" BY DEF GrantInv
    <3> QED BY <2>1, <3>1, PassesAll
  <2>3. larger.amount = other.amount BY <2>1, PolicyAssumption DEF ProposedTransaction
  <2>4. CASE other.amount \in Int
    <3>1. tx.amount < other.amount BY <2>2, <2>4, PolicyAssumption DEF Over
    <3>2. NeedsReview(d, tx) OBVIOUS
    <3> HIDE DEF d, tx, larger
    <3>3. NeedsReview(d, larger) BY <2>1, <2>2, <2>3, <2>4, <3>1, <3>2, ReviewIsMonotone
    <3> QED BY <3>3 DEF d, tx, larger
  <2>5. CASE other.amount \notin Int
    <3>1. ~Passes("invalid_amount", d, larger, call[t].at) BY <2>3, <2>5 DEF Passes
    <3>2. 1 \in 1..7 /\ Checks[1] = "invalid_amount" BY DEF Checks
    <3> QED BY <3>1, <3>2, FailedCheckSpec
  <2> QED BY <2>4, <2>5
<1> QED BY <1>1, PolicyInvariant, PTL

-----------------------------------------------------------------------------
(* One call, one step *)

\* What a principal agrees to he signs, with his own key.
AgreedIsSigned == \A d \in Agreements : VerifySignature(d)

\* To pass the checks in their order is to be permitted by the terms.
LEMMA PassedIsPermitted ==
    ASSUME NoForgery, AgreedIsSigned,
           NEW d \in Documents, NEW tx \in Transactions, NEW at \in Nat
    PROVE  FailedCheck(d, tx, at) = "none" <=> Use!Permitted(d, tx, at)
<1>0. /\ NaN \notin Int /\ Infinity \notin Int /\ None \notin Int /\ Naive \notin Int
      /\ d.expiry \in Nat \cup {Naive} /\ d.max \in Amounts \cup {None} /\ d.exact \in Amounts \cup {None}
  BY PolicyAssumption DEF NormalizedMandate
<1>1. ASSUME FailedCheck(d, tx, at) = "none"
      PROVE  Use!Permitted(d, tx, at)
  <2>1. /\ tx.amount \in Int /\ tx.amount > 0
        /\ VerifySignature(d)
        /\ d.expiry \in Nat /\ at < d.expiry
        /\ d.merchant \in {None, tx.merchant}
        /\ AmountFits(d, tx)
        /\ d.scope # None => tx.category \in d.scope
    BY <1>1, PassesAll
  <2>2. d \in Agreements BY <2>1 DEF NoForgery
  <2>3. Use!Alive(d, at) BY <1>0, <2>1 DEF Use!Alive
  <2>4. d.exact # None => tx.amount = d.exact BY <2>1 DEF AmountFits
  <2>5. Use!Capped(d) => tx.amount <= d.max BY <2>1, CeilingBinds DEF Use!Capped
  <2> QED BY <2>1, <2>2, <2>3, <2>4, <2>5 DEF Use!Permitted, Use!Within
<1>2. ASSUME Use!Permitted(d, tx, at)
      PROVE  FailedCheck(d, tx, at) = "none"
  <2>1. /\ d \in Agreements /\ Use!Alive(d, at)
        /\ tx.amount \in Int /\ tx.amount > 0
        /\ d.exact # None => tx.amount = d.exact
        /\ Use!Capped(d) => tx.amount <= d.max
        /\ d.merchant # None => tx.merchant = d.merchant
        /\ d.scope # None => tx.category \in d.scope
    BY <1>2 DEF Use!Permitted, Use!Within
  <2>2. VerifySignature(d) BY <2>1 DEF AgreedIsSigned
  <2>3. d.principal \in PublicKeys BY <2>2 DEF VerifySignature, Verify
  <2>4. d.expiry # Naive /\ d.expiry > at BY <1>0, <2>1 DEF Use!Alive
  <2>5. AmountFits(d, tx)
    <3>1. CASE d.exact # None BY <2>1, <3>1 DEF AmountFits
    <3>2. CASE d.exact = None /\ d.max \in Int
      <4>1. tx.amount <= d.max BY <2>1, <3>2 DEF Use!Capped
      <4>2. ~(tx.amount > d.max) BY <2>1, <3>2, <4>1
      <4> QED BY <1>0, <2>1, <3>2, <4>2 DEF AmountFits, Over
    <3>3. CASE d.exact = None /\ d.max \notin Int
      <4>1. d.max = None \/ d.max = NaN \/ d.max = Infinity BY <1>0, <3>3 DEF Amounts
      <4> QED BY <3>3, <4>1 DEF AmountFits, Over
    <3> QED BY <3>1, <3>2, <3>3
  <2>6. /\ Passes("invalid_amount", d, tx, at) /\ Passes("unknown_principal", d, tx, at)
        /\ Passes("signature", d, tx, at) /\ Passes("expiry", d, tx, at)
        /\ Passes("merchant_match", d, tx, at) /\ Passes("amount_cap", d, tx, at)
        /\ Passes("category_scope", d, tx, at)
    BY <2>1, <2>2, <2>3, <2>4, <2>5 DEF Passes
  <2>7. \A i \in 1..7 : Passes(Checks[i], d, tx, at)
    <3>1. /\ Checks[1] = "invalid_amount" /\ Checks[2] = "unknown_principal" /\ Checks[3] = "signature"
          /\ Checks[4] = "expiry" /\ Checks[5] = "merchant_match" /\ Checks[6] = "amount_cap"
          /\ Checks[7] = "category_scope"
      BY DEF Checks
    <3>2. \A i \in 1..7 : i = 1 \/ i = 2 \/ i = 3 \/ i = 4 \/ i = 5 \/ i = 6 \/ i = 7 OBVIOUS
    <3> QED BY <2>6, <3>1, <3>2
  <2>8. Named = {Checks[i] : i \in 1..7} BY ChecksAreNamed DEF Named
  <2> QED BY <2>7, <2>8, FailedCheckSpec
<1> QED BY <1>1, <1>2

\* Half of the ceiling is the same in both.
LEMMA LargeIsReviewed ==
    ASSUME NEW d \in Documents, NEW tx, tx.amount \in Int
    PROVE  NeedsReview(d, tx) <=> Use!Large(d, tx)
<1>0. /\ NaN \notin Int /\ Infinity \notin Int /\ None \notin Int
      /\ d.max \in Amounts \cup {None}
  BY PolicyAssumption DEF NormalizedMandate
<1>1. CASE d.max \in Int
  <2>1. Over(2 * tx.amount, d.max) <=> 2 * tx.amount > d.max BY <1>0, <1>1 DEF Over
  <2>2. 2 * tx.amount > d.max <=> tx.amount > d.max - tx.amount BY <1>1
  <2> QED BY <1>0, <1>1, <2>1, <2>2 DEF NeedsReview, Use!Large, Use!Capped
<1>2. CASE d.max \notin Int
  <2>1. d.max = None \/ d.max = NaN \/ d.max = Infinity BY <1>0, <1>2 DEF Amounts
  <2>2. ~NeedsReview(d, tx) BY <2>1 DEF NeedsReview, Over
  <2> QED BY <1>2, <2>2 DEF Use!Large, Use!Capped
<1> QED BY <1>1, <1>2

\* Nobody has asked anything at first.
THEOREM UseInit == Init => Use!Init
BY DEF Init, Use!Init

\* The checks are the question, and the answer where one of them fails; the claim
\* is the decision where none does.
THEOREM UseStep ==
    ASSUME NoForgery, AgreedIsSigned
    PROVE  TypeOK /\ GrantInv /\ [Next]_vars => [Use!Next]_(Use!vars)
<1> SUFFICES ASSUME TypeOK, GrantInv, [Next]_vars
             PROVE  Use!Next \/ UNCHANGED Use!vars
  OBVIOUS
<1> DEFINE asked == [t \in Threads |->
                IF pc[t] = "idle" THEN None
                ELSE [doc |-> call[t].doc, tx |-> call[t].tx, at |-> call[t].at]]
           verdict == [t \in Threads |->
                CASE pc[t] = "idle" -> "idle" [] pc[t] = "claim" -> "asked" [] OTHER -> call[t].outcome]
<1>0. /\ pc \in [Threads -> {"idle", "claim", "done"}]
      /\ call \in [Threads -> Decision \cup {NoCall}]
      /\ \A t \in Threads : pc[t] # "idle" => call[t] \in Decision
      /\ clock \in Nat
  BY DEF TypeOK
<1>1. ASSUME NEW t \in Threads, NEW d \in Documents, NEW tx \in Transactions, Evaluate(t, d, tx)
      PROVE  Use!Ask(t, d, tx)
  <2> DEFINE check == FailedCheck(d, tx, clock)
  <2>1. /\ pc[t] = "idle"
        /\ call' = [call EXCEPT ![t] = Denied(d, tx, check)]
        /\ pc' = [pc EXCEPT ![t] = IF check = "none" THEN "claim" ELSE "done"]
        /\ UNCHANGED <<clock, spent>>
    BY <1>1 DEF Evaluate
  <2>2. check = "none" <=> Use!Permitted(d, tx, clock) BY <1>0, PassedIsPermitted
  <2> HIDE DEF check
  <2>3. /\ call'[t].doc = d /\ call'[t].tx = tx /\ call'[t].at = clock /\ call'[t].outcome = "DENY"
        /\ \A u \in Threads : u # t => call'[u] = call[u]
    BY <1>0, <2>1 DEF Denied
  <2>4. verdict[t] = "idle" BY <2>1
  <2>5. asked' = [asked EXCEPT ![t] = [doc |-> d, tx |-> tx, at |-> clock]]
    BY <1>0, <2>1, <2>3
  <2>6. CASE check = "none"
    <3>1. verdict' = [verdict EXCEPT ![t] = "asked"] BY <1>0, <2>1, <2>3, <2>6
    <3> QED BY <2>1, <2>4, <2>5, <3>1 DEF Use!Ask, Use!Say
  <2>7. CASE check # "none"
    <3>1. verdict' = [verdict EXCEPT ![t] = "DENY"] BY <1>0, <2>1, <2>3, <2>7
    <3> QED BY <2>1, <2>2, <2>4, <2>5, <2>7, <3>1 DEF Use!Ask, Use!Say
  <2> QED BY <2>6, <2>7
<1>2. ASSUME NEW t \in Threads, Claim(t)
      PROVE  Use!Decide(t)
  <2> DEFINE c == call[t]
  <2>1. /\ pc[t] = "claim" /\ c \in Decision
        /\ c.doc \in Documents /\ c.tx \in Transactions /\ c.at \in Nat
    BY <1>0, <1>2 DEF Claim, Decision
  <2>2. FailedCheck(c.doc, c.tx, c.at) = "none" BY <2>1 DEF GrantInv
  <2>3. Use!Permitted(c.doc, c.tx, c.at) BY <2>1, <2>2, PassedIsPermitted
  <2>4. NeedsReview(c.doc, c.tx) <=> Use!Large(c.doc, c.tx)
    BY <2>1, <2>2, PassesAll, LargeIsReviewed
  <2>5. /\ asked[t].doc = c.doc /\ asked[t].tx = c.tx /\ asked[t].at = c.at
        /\ verdict[t] = "asked"
    BY <2>1
  <2>6. ASSUME NEW outcome, NEW check, Decide(t, outcome, check)
        PROVE  asked' = asked /\ verdict' = [verdict EXCEPT ![t] = outcome]
    <3>1. /\ call'[t].doc = c.doc /\ call'[t].tx = c.tx /\ call'[t].at = c.at
          /\ call'[t].outcome = outcome
          /\ pc'[t] = "done"
          /\ \A u \in Threads : u # t => call'[u] = call[u] /\ pc'[u] = pc[u]
      BY <1>0, <2>1, <2>6 DEF Decide, Decision
    <3>2. asked' = asked BY <2>1, <3>1
    <3>3. verdict' = [verdict EXCEPT ![t] = outcome] BY <2>1, <3>1
    <3> QED BY <3>2, <3>3
  <2>7. spent' = spent \cup {c.doc.id} /\ clock' = clock BY <1>2 DEF Claim
  <2>8. CASE c.doc.id \in spent
    <3>1. Decide(t, "DENY", "replay") BY <1>2, <2>8 DEF Claim
    <3>2. asked' = asked /\ verdict' = [verdict EXCEPT ![t] = "DENY"] BY <2>6, <3>1
    <3>3. spent' = spent BY <2>7, <2>8
    <3> HIDE DEF asked, verdict, c
    <3> QED BY <2>5, <2>7, <2>8, <3>2, <3>3 DEF Use!Decide, Use!Say, asked, verdict
  <2>9. CASE c.doc.id \notin spent
    <3> DEFINE outcome == IF Use!Large(c.doc, c.tx) THEN "NEEDS_HUMAN" ELSE "ALLOW"
    <3>1. \E check : Decide(t, outcome, check) BY <1>2, <2>4, <2>9 DEF Claim, Grant
    <3>2. asked' = asked /\ verdict' = [verdict EXCEPT ![t] = outcome] BY <2>6, <3>1
    <3> QED BY <2>3, <2>5, <2>7, <2>9, <3>2 DEF Use!Decide, Use!Say
  <2> QED BY <2>8, <2>9
<1>3. ASSUME NEW t \in Threads, Return(t)
      PROVE  Use!Return(t)
  <2>1. /\ pc[t] = "done" /\ call[t] \in Decision
        /\ call' = [call EXCEPT ![t] = NoCall] /\ pc' = [pc EXCEPT ![t] = "idle"]
        /\ UNCHANGED <<clock, spent>>
    BY <1>0, <1>3 DEF Return
  <2>2. verdict[t] \notin {"idle", "asked"} BY <2>1 DEF Decision
  <2>3. asked' = [asked EXCEPT ![t] = None] BY <1>0, <2>1
  <2>4. verdict' = [verdict EXCEPT ![t] = "idle"] BY <1>0, <2>1
  <2> QED BY <2>1, <2>2, <2>3, <2>4 DEF Use!Return, Use!Say
<1>4. CASE Tick BY <1>4 DEF Tick, Use!Next, Use!Tick
<1>5. CASE UNCHANGED vars BY <1>5 DEF vars, Use!vars
<1> QED BY <1>1, <1>2, <1>3, <1>4, <1>5 DEF Next, Use!Next

\* Where signatures are what they should be, a call of evaluate() decides as if in
\* one step and by the terms alone, for any documents, purchases and threads.
THEOREM EvaluateIsAtomic ==
    ASSUME NoForgery, AgreedIsSigned
    PROVE  Spec => ImplementsMandateUse
<1>1. Init => TypeOK /\ GrantInv /\ Use!Init BY PolicyTypeInit, GrantInit, UseInit
<1>2. TypeOK /\ GrantInv /\ [Next]_vars => (TypeOK /\ GrantInv)' BY PolicyTypeStep, GrantStep
<1>3. TypeOK /\ GrantInv /\ [Next]_vars => [Use!Next]_(Use!vars) BY UseStep
<1> QED BY <1>1, <1>2, <1>3, PTL DEF Spec, ImplementsMandateUse, Use!Spec
=============================================================================
