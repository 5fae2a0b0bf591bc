---------------------------- MODULE PolicyEngine ----------------------------
(***************************************************************************)
(* evaluate() (policy_engine.py): threads run its checks at once, over     *)
(* mandate documents that may share an id and transactions that may be     *)
(* nonsense, and claim the nonce (nonce_store.py) last.  Signatures are    *)
(* those of keys.py over schema.py's signing_payload().                    *)
(*                                                                         *)
(* Amounts are integers in some small unit, NaN and infinity (minus        *)
(* infinity fails the first check as NaN does).  Half of a cap is compared *)
(* without rounding, as in binary floats.                                  *)
(***************************************************************************)
EXTENDS Integers

CONSTANTS
    Threads,
    PublicKeys,    \* the principals in keys.PUBLIC_KEYS
    Documents,     \* mandates as they can be submitted
    Agreements,    \* those of them that their principals agreed to and signed
    Transactions,  \* proposed transactions
    NaN, Infinity,
    None,          \* an optional field that is not there
    Naive,         \* an expiry without a time zone
    MaxClock       \* bound: ticks of the clock

Amounts == Int \cup {NaN, Infinity}

\* AP2 mandates have a max and a scope, ACP tokens a merchant and an exact
\* amount, but the schema lets a document have any of them, and does not bound
\* its amounts.
NormalizedMandate(d) ==
    /\ DOMAIN d = {"id", "principal", "signature", "expiry", "merchant", "exact", "max", "scope"}
    /\ d.expiry \in Nat \cup {Naive}
    /\ d.exact \in Amounts \cup {None} /\ d.max \in Amounts \cup {None}

\* The schema refuses the amounts evaluate() refuses; evaluate() does not count
\* on it, and neither does the model.
ProposedTransaction(tx) == DOMAIN tx = {"merchant", "amount", "category"} /\ tx.amount \in Amounts

ASSUME PolicyAssumption ==
    /\ {NaN, Infinity, None, Naive} \cap Int = {} /\ None \notin Amounts
    /\ \A d \in Documents : NormalizedMandate(d)
    /\ Agreements \subseteq Documents
    /\ \A d \in Agreements : d.principal \in PublicKeys
    /\ \A tx \in Transactions : ProposedTransaction(tx)
    /\ MaxClock \in Nat

VARIABLES
    clock,
    spent,    \* the nonce table
    granted,  \* per mandate id, how many decisions were ALLOW or NEEDS_HUMAN
    pc,       \* per thread: "idle", "claim", or "done" with a decision returned
    call      \* the arguments, the time read and the decision of its call

vars == <<clock, spent, granted, pc, call>>

Ids == {d.id : d \in Documents}

-----------------------------------------------------------------------------
(* The rules *)

\* a > b; every comparison with NaN is false.
Over(a, b) ==
    /\ NaN \notin {a, b} /\ b # Infinity
    /\ a # Infinity => a > b

\* Mutant: the ceiling is not among the signed fields.
SigningPayloadCapless(d) == [f \in DOMAIN d \ {"signature", "max"} |-> d[f]]

\* signing_payload(): every field but the signature.
SigningPayload(d) == [f \in DOMAIN d \ {"signature"} |-> d[f]]

\* keys.sign(): only the holder of the key makes such a value.
Sign(principal, payload) == [by |-> principal, over |-> payload]

\* keys.verify(): under the principal's own key; no key, no valid signature.
Verify(principal, payload, signature) ==
    principal \in PublicKeys /\ signature = Sign(principal, payload)

VerifySignature(d) == Verify(d.principal, SigningPayload(d), d.signature)

\* Mutant: the ceiling goes before the exact amount.
AmountFitsCapFirst(d, tx) ==
    IF d.max # None THEN ~Over(tx.amount, d.max) ELSE d.exact # None => tx.amount = d.exact

\* Mutant: a purchase for all of the ceiling does not fit.
AmountFitsBelow(d, tx) ==
    IF d.exact # None THEN tx.amount = d.exact ELSE d.max # None => Over(d.max, tx.amount)

\* An exact amount goes before a ceiling.
AmountFits(d, tx) ==
    IF d.exact # None THEN tx.amount = d.exact ELSE d.max # None => ~Over(tx.amount, d.max)

\* Mutant: the signature is verified after the expiry.
ChecksExpiryFirst == <<"invalid_amount", "unknown_principal", "expiry", "signature",
                       "merchant_match", "amount_cap", "category_scope">>

Checks == <<"invalid_amount", "unknown_principal", "signature", "expiry",
            "merchant_match", "amount_cap", "category_scope">>

Passes(check, d, tx, now) ==
    CASE check = "invalid_amount"    -> tx.amount \in Int /\ tx.amount > 0
      [] check = "unknown_principal" -> d.principal \in PublicKeys
      [] check = "signature"         -> VerifySignature(d)
      [] check = "expiry"            -> d.expiry # Naive /\ d.expiry > now
      [] check = "merchant_match"    -> d.merchant \in {None, tx.merchant}
      [] check = "amount_cap"        -> AmountFits(d, tx)
      [] check = "category_scope"    -> d.scope # None => tx.category \in d.scope

\* The name of the first check that fails, "none" when all pass.
FailedCheck(d, tx, now) ==
    LET failed == {i \in DOMAIN Checks : ~Passes(Checks[i], d, tx, now)} IN
    IF failed = {} THEN "none" ELSE Checks[CHOOSE i \in failed : \A j \in failed : i <= j]

\* Mutant: the comparison the wrong way round.
NeedsReviewBelow(d, tx) == d.max # None /\ d.exact = None /\ Over(d.max, 2 * tx.amount)

\* Mutant: one half of the ceiling is too much already.
NeedsReviewAtHalf(d, tx) == d.max # None /\ d.exact = None /\ ~Over(d.max, 2 * tx.amount)

\* More than HUMAN_REVIEW_FRACTION_OF_CAP, one half, of an AP2 ceiling.
NeedsReview(d, tx) == d.max # None /\ d.exact = None /\ Over(2 * tx.amount, d.max)

-----------------------------------------------------------------------------
(* evaluate() *)

NoCall == [doc |-> None, tx |-> None, at |-> 0, outcome |-> "DENY", check |-> "none"]

Init ==
    /\ clock = 0
    /\ spent = {}
    /\ granted = [i \in Ids |-> 0]
    /\ pc = [t \in Threads |-> "idle"]
    /\ call = [t \in Threads |-> NoCall]

\* The arguments, the time read and the decision so far.
Denied(d, tx, check) == [doc |-> d, tx |-> tx, at |-> clock, outcome |-> "DENY", check |-> check]

\* Mutant: the nonce is spent before the mandate's terms are checked.
EvaluateClaimingEarly(t, d, tx) ==
    /\ pc[t] = "idle"
    /\ LET check == FailedCheck(d, tx, clock) IN
        /\ call' = [call EXCEPT ![t] = Denied(d, tx, check)]
        /\ pc' = [pc EXCEPT ![t] = IF check = "none" THEN "claim" ELSE "done"]
        /\ spent' = IF check \in {"merchant_match", "amount_cap", "category_scope"}
                    THEN spent \cup {d.id} ELSE spent
    /\ UNCHANGED <<clock, granted>>

\* The checks up to the claim; the clock is read among them.  An expiry without
\* a time zone cannot be compared with it: the call ends in a TypeError, and
\* nothing has changed.
Evaluate(t, d, tx) ==
    /\ pc[t] = "idle"
    /\ LET check == FailedCheck(d, tx, clock) IN
        /\ check = "expiry" => d.expiry # Naive
        /\ call' = [call EXCEPT ![t] = Denied(d, tx, check)]
        /\ pc' = [pc EXCEPT ![t] = IF check = "none" THEN "claim" ELSE "done"]
    /\ UNCHANGED <<clock, spent, granted>>

\* Mutant: the two fields swapped.
DecideSwapped(t, outcome, check) ==
    /\ call' = [call EXCEPT ![t].outcome = check, ![t].check = outcome]
    /\ pc' = [pc EXCEPT ![t] = "done"]

Decide(t, outcome, check) ==
    /\ call' = [call EXCEPT ![t].outcome = outcome, ![t].check = check]
    /\ pc' = [pc EXCEPT ![t] = "done"]

Grant(t) ==
    /\ IF NeedsReview(call[t].doc, call[t].tx)
       THEN Decide(t, "NEEDS_HUMAN", "human_review_threshold")
       ELSE Decide(t, "ALLOW", "none")
    /\ granted' = [granted EXCEPT ![call[t].doc.id] = @ + 1]

\* NonceStore.claim(): the INSERT succeeds once per mandate id.
Claim(t) ==
    /\ pc[t] = "claim"
    /\ IF call[t].doc.id \in spent
       THEN Decide(t, "DENY", "replay") /\ UNCHANGED granted
       ELSE Grant(t)
    /\ spent' = spent \cup {call[t].doc.id}
    /\ UNCHANGED clock

\* The caller has its decision.
Return(t) ==
    /\ pc[t] = "done"
    /\ call' = [call EXCEPT ![t] = NoCall]
    /\ pc' = [pc EXCEPT ![t] = "idle"]
    /\ UNCHANGED <<clock, spent, granted>>

Tick ==
    /\ clock < MaxClock
    /\ clock' = clock + 1
    /\ UNCHANGED <<spent, granted, pc, call>>

Next ==
    \/ \E t \in Threads :
        \/ \E d \in Documents, tx \in Transactions : Evaluate(t, d, tx)
        \/ Claim(t)
        \/ Return(t)
    \/ Tick

Spec == Init /\ [][Next]_vars

-----------------------------------------------------------------------------
(* Properties *)

Decision == [doc: Documents, tx: Transactions, at: Nat, outcome: {"ALLOW", "DENY", "NEEDS_HUMAN"},
             check: {Checks[i] : i \in DOMAIN Checks} \cup {"none", "replay", "human_review_threshold"}]

\* Every decision has its fields; a decision taken is one of the code's.
TypeOK ==
    /\ clock \in Nat
    /\ spent \in SUBSET Ids
    /\ granted \in [Ids -> Nat]
    /\ pc \in [Threads -> {"idle", "claim", "done"}]
    /\ call \in [Threads -> Decision \cup {NoCall}]
    /\ \A t \in Threads : pc[t] # "idle" => call[t] \in Decision

Decided == {call[t] : t \in {u \in Threads : pc[u] = "done"}}
Granted == {c \in Decided : c.outcome # "DENY"}

\* Whatever documents carry a mandate id and however their evaluations
\* interleave, the id is granted once, and it is spent by that grant and by
\* nothing else: a denial leaves it to its principal.
SpentByOneGrant == \A i \in Ids : granted[i] = (IF i \in spent THEN 1 ELSE 0)

\* Only a document its principal agreed to is ever granted, whatever copies of it
\* with other terms, other names or other people's signatures are about.
GrantsAreAgreed == \A c \in Granted : c.doc \in Agreements

\* What a grant promises, read off the document: it was alive, and merchant,
\* amount and category are inside what it states.  A ceiling that is no number
\* is none, which evaluate() does not look at.
GrantsArePermitted == \A c \in Granted :
    /\ c.doc.expiry # Naive /\ c.at < c.doc.expiry
    /\ c.tx.amount \in Int /\ c.tx.amount > 0
    /\ c.doc.exact # None => c.tx.amount = c.doc.exact
    /\ c.doc.exact = None /\ c.doc.max \in Int =>
            /\ c.tx.amount <= c.doc.max
            /\ c.outcome = "ALLOW" => c.tx.amount <= c.doc.max - c.tx.amount
    /\ c.doc.merchant # None => c.tx.merchant = c.doc.merchant
    /\ c.doc.scope # None => c.tx.category \in c.doc.scope

\* Under one ceiling a larger purchase is never treated more leniently than a
\* smaller one: what goes to a human would, had its amount been larger, go to one
\* too or be denied, so that no amount slips between the threshold and the cap.
LargerIsNotEasier ==
    \A t \in Threads : pc[t] = "claim" /\ NeedsReview(call[t].doc, call[t].tx) =>
        \A other \in Transactions :
            LET larger == [call[t].tx EXCEPT !.amount = other.amount] IN
            Over(other.amount, call[t].tx.amount) =>
                \/ FailedCheck(call[t].doc, larger, call[t].at) # "none"
                \/ NeedsReview(call[t].doc, larger)

\* A reason that quotes the mandate, or that it is used up, is only given for a
\* mandate its principal signed; a principal nobody knows is told apart.
ReasonsAreEarned == \A c \in Decided :
    /\ c.check \in {"expiry", "merchant_match", "amount_cap", "category_scope", "replay"}
            => c.doc \in Agreements
    /\ c.check = "signature" => c.doc.principal \in PublicKeys
    /\ c.check = "replay" => c.at < c.doc.expiry

-----------------------------------------------------------------------------
(* What a caller may take evaluate() for *)

Use == INSTANCE MandateUse WITH
    used    <- spent,
    asked   <- [t \in Threads |->
        IF pc[t] = "idle" THEN None
        ELSE [doc |-> call[t].doc, tx |-> call[t].tx, at |-> call[t].at]],
    verdict <- [t \in Threads |->
        CASE pc[t] = "idle" -> "idle" [] pc[t] = "claim" -> "asked" [] OTHER -> call[t].outcome]

\* A call of evaluate(), whose checks and claim other calls come between, decides
\* as if in one step, and by the terms alone: what is permitted and unused is
\* never denied, and nothing else is granted.
ImplementsMandateUse == Use!Spec
=============================================================================
