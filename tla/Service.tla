------------------------------ MODULE Service ------------------------------
(***************************************************************************)
(* The authorization service of Darwaza: calls of authorize(),             *)
(* resolve_approval() and execute_approval() (service.py) made by threads  *)
(* of the API process and of CLI processes, which share the nonce table,   *)
(* the approval queue, the audit log and the Razorpay account.             *)
(*                                                                         *)
(* One action is one access to something shared: a SQL statement with its  *)
(* commit, an append to the audit log, a request to Razorpay.  What a call *)
(* computes between two accesses belongs to the action before it.          *)
(***************************************************************************)
EXTENDS Naturals, Sequences, FiniteSets

CONSTANTS
    Threads,         \* threads that call the service
    Processes,       \* operating-system processes: the API, a CLI invocation
    ProcessOf,       \* the process a thread runs in
    KeyedProcesses,  \* processes configured with the Razorpay keys
    Mandates,        \* mandate ids
    Requests,        \* ids ApprovalQueue.enqueue can draw (uuid4)
    None,            \* no mandate, no request
    MaxAttempts,     \* razorpay_client.MAX_ATTEMPTS
    MaxTrail,        \* bound: authorize() starts only below this many log entries
    MaxInFlight      \* bound: create requests per receipt still travelling

ASSUME ServiceAssumption ==
    /\ ProcessOf \in [Threads -> Processes]
    /\ KeyedProcesses \subseteq Processes
    /\ None \notin Mandates \cup Requests
    /\ MaxAttempts \in Nat \ {0}
    /\ MaxTrail \in Nat
    /\ MaxInFlight \in Nat

VARIABLES
    spent,      \* mandates in the nonce table
    rows,       \* the approval queue, by request id
    created,    \* number of orders Razorpay holds for the receipt of a request
    inflight,   \* create requests whose caller gave up, not yet at Razorpay
    trail,      \* the audit log, by mandate, in log order
    expired,    \* mandates whose expiry has passed
    pc,         \* the next step of a thread's call
    call        \* the local variables of that call

stores == <<spent, rows, trail>>
razorpay == <<created, inflight>>
local == <<pc, call>>
vars == <<spent, rows, created, inflight, trail, expired, pc, call>>

-----------------------------------------------------------------------------
(* Values *)

Statuses == {"absent", "pending", "approved_pending_execution", "executed", "denied"}
Outcomes == {"ALLOW", "DENY", "NEEDS_HUMAN"}
Steps == {"idle", "evaluate", "claim", "append", "enqueue", "get", "resolve",
          "append_human", "get_execution", "lookup", "create", "record_failure",
          "mark_executed", "resolve_error", "mark_error"}

\* A row; order 0 is a NULL razorpay_order_id, failed says that
\* execution_attempts is no longer 0.
Row == [status: Statuses, mandate: Mandates \cup {None}, order: Nat, failed: BOOLEAN]
NoRow == [status |-> "absent", mandate |-> None, order |-> 0, failed |-> FALSE]

\* An audit entry: policy entries name no request, human ones do (in "reason").
Entry == [outcome: Outcomes, request: Requests \cup {None}]
Flag == [outcome |-> "NEEDS_HUMAN", request |-> None]

\* The locals of a call: outcome is the decision an authorize() call will
\* return, or the human's verdict in a resolve_approval() call.
Call == [mandate: Mandates \cup {None}, request: Requests \cup {None},
         outcome: Outcomes, attempt: 0..MaxAttempts, order: Nat]
CallOf(m, r, o) == [mandate |-> m, request |-> r, outcome |-> o, attempt |-> 0, order |-> 0]
NoCall == CallOf(None, None, "DENY")

Status(r) == rows[r].status
Approved(r) == Status(r) \in {"approved_pending_execution", "executed"}

Init ==
    /\ spent = {}
    /\ rows = [r \in Requests |-> NoRow]
    /\ created = [r \in Requests |-> 0]
    /\ inflight = [r \in Requests |-> 0]
    /\ trail = [m \in Mandates |-> <<>>]
    /\ expired = {}
    /\ pc = [t \in Threads |-> "idle"]
    /\ call = [t \in Threads |-> NoCall]

-----------------------------------------------------------------------------
(* Control flow of a call *)

Begin(t, step, c) ==
    /\ pc[t] = "idle"
    /\ pc' = [pc EXCEPT ![t] = step]
    /\ call' = [call EXCEPT ![t] = c]

Go(t, step, c) ==
    /\ pc' = [pc EXCEPT ![t] = step]
    /\ call' = [call EXCEPT ![t] = c]

Return(t) ==
    /\ pc' = [pc EXCEPT ![t] = "idle"]
    /\ call' = [call EXCEPT ![t] = NoCall]

\* The lines of the log, by mandate and place.
Lines == UNION {{m} \X DOMAIN trail[m] : m \in Mandates}

LogEntry(m, e) == trail' = [trail EXCEPT ![m] = Append(@, e)]

\* _attempt_execution: create_order() fails at once without the keys, and
\* otherwise makes its first attempt.
StartExecution(t, c) ==
    IF ProcessOf[t] \in KeyedProcesses
    THEN Go(t, "lookup", [c EXCEPT !.attempt = 1])
    ELSE Go(t, "record_failure", c)

-----------------------------------------------------------------------------
(* authorize() *)

Authorize(t, m) ==
    /\ Cardinality(Lines) < MaxTrail
    /\ Begin(t, "evaluate", CallOf(m, None, "DENY"))
    /\ UNCHANGED <<stores, razorpay, expired>>

\* evaluate() up to the claim.  Which rule decides depends on the proposed
\* transaction, so any outcome is possible, but for an expired mandate.
Evaluate(t) ==
    /\ pc[t] = "evaluate"
    /\ \E o \in Outcomes :
        /\ call[t].mandate \in expired => o = "DENY"
        /\ Go(t, IF o = "DENY" THEN "append" ELSE "claim", [call[t] EXCEPT !.outcome = o])
    /\ UNCHANGED <<stores, razorpay, expired>>

\* Mutant: INSERT OR IGNORE, as in add(), taken for a claim.
ClaimIgnoring(t) ==
    /\ pc[t] = "claim"
    /\ Go(t, "append", call[t])
    /\ spent' = spent \cup {call[t].mandate}
    /\ UNCHANGED <<rows, trail, razorpay, expired>>

\* NonceStore.claim(): one INSERT, refused when the id is already there.
Claim(t) ==
    /\ pc[t] = "claim"
    /\ LET m == call[t].mandate IN
        Go(t, "append", IF m \in spent THEN [call[t] EXCEPT !.outcome = "DENY"] ELSE call[t])
    /\ spent' = spent \cup {call[t].mandate}
    /\ UNCHANGED <<rows, trail, razorpay, expired>>

AppendDecision(t) ==
    /\ pc[t] = "append"
    /\ LogEntry(call[t].mandate, [outcome |-> call[t].outcome, request |-> None])
    /\ IF call[t].outcome = "NEEDS_HUMAN" THEN Go(t, "enqueue", call[t]) ELSE Return(t)
    /\ UNCHANGED <<spent, rows, razorpay, expired>>

Enqueue(t) ==
    /\ pc[t] = "enqueue"
    /\ \E r \in Requests :
        /\ Status(r) = "absent"
        /\ rows' = [rows EXCEPT ![r] = [NoRow EXCEPT !.status = "pending", !.mandate = call[t].mandate]]
    /\ Return(t)
    /\ UNCHANGED <<spent, trail, razorpay, expired>>

-----------------------------------------------------------------------------
(* resolve_approval(): verdict "ALLOW" approves, "DENY" denies *)

ResolveApproval(t, r, verdict) ==
    /\ Begin(t, "get", CallOf(None, r, verdict))
    /\ UNCHANGED <<stores, razorpay, expired>>

GetForResolve(t) ==
    /\ pc[t] = "get"
    /\ LET r == call[t].request IN
        IF Status(r) = "pending"
        THEN Go(t, "resolve", [call[t] EXCEPT !.mandate = rows[r].mandate])
        ELSE Return(t)  \* ApprovalNotFoundError, ApprovalAlreadyResolvedError
    /\ UNCHANGED <<stores, razorpay, expired>>

\* Mutant: the UPDATE without AND status = 'pending'.
ResolveUnguarded(t) ==
    /\ pc[t] = "resolve"
    /\ LET to == IF call[t].outcome = "ALLOW" THEN "approved_pending_execution" ELSE "denied" IN
        rows' = [rows EXCEPT ![call[t].request].status = to]
    /\ Go(t, "append_human", call[t])
    /\ UNCHANGED <<spent, trail, razorpay, expired>>

\* Mutant: the status of an approval whatever the human said.
ResolveApproving(t) ==
    /\ pc[t] = "resolve"
    /\ Status(call[t].request) = "pending"
    /\ rows' = [rows EXCEPT ![call[t].request].status = "approved_pending_execution"]
    /\ Go(t, "append_human", call[t])
    /\ UNCHANGED <<spent, trail, razorpay, expired>>

\* ApprovalQueue.resolve(): UPDATE ... WHERE status = 'pending'.
Resolve(t) ==
    /\ pc[t] = "resolve"
    /\ LET r == call[t].request
           to == IF call[t].outcome = "ALLOW" THEN "approved_pending_execution" ELSE "denied" IN
        \/ /\ Status(r) = "pending"
           /\ rows' = [rows EXCEPT ![r].status = to]
           /\ Go(t, "append_human", call[t])
        \/ /\ Status(r) # "pending"
           /\ Go(t, "resolve_error", call[t])
           /\ UNCHANGED rows
    /\ UNCHANGED <<spent, trail, razorpay, expired>>

\* Mutant: goes on to the execution whatever the verdict was.
AppendHumanDecisionAlways(t) ==
    /\ pc[t] = "append_human"
    /\ LogEntry(call[t].mandate, [outcome |-> call[t].outcome, request |-> call[t].request])
    /\ StartExecution(t, call[t])
    /\ UNCHANGED <<spent, rows, razorpay, expired>>

AppendHumanDecision(t) ==
    /\ pc[t] = "append_human"
    /\ LogEntry(call[t].mandate, [outcome |-> call[t].outcome, request |-> call[t].request])
    /\ IF call[t].outcome = "ALLOW" THEN StartExecution(t, call[t]) ELSE Return(t)
    /\ UNCHANGED <<spent, rows, razorpay, expired>>

-----------------------------------------------------------------------------
(* execute_approval() *)

ExecuteApproval(t, r) ==
    /\ Begin(t, "get_execution", CallOf(None, r, "ALLOW"))
    /\ UNCHANGED <<stores, razorpay, expired>>

\* Mutant: refuses a denied request only, not one that is still pending.
GetForExecutionLenient(t) ==
    /\ pc[t] = "get_execution"
    /\ LET r == call[t].request IN
        IF Status(r) \in {"pending", "approved_pending_execution"}
        THEN StartExecution(t, [call[t] EXCEPT !.mandate = rows[r].mandate])
        ELSE Return(t)
    /\ UNCHANGED <<stores, razorpay, expired>>

\* Mutant: a request whose execution failed once is not tried again.
GetForExecutionOnce(t) ==
    /\ pc[t] = "get_execution"
    /\ LET r == call[t].request IN
        IF Status(r) = "approved_pending_execution" /\ ~rows[r].failed
        THEN StartExecution(t, [call[t] EXCEPT !.mandate = rows[r].mandate])
        ELSE Return(t)
    /\ UNCHANGED <<stores, razorpay, expired>>

GetForExecution(t) ==
    /\ pc[t] = "get_execution"
    /\ LET r == call[t].request IN
        IF Status(r) = "approved_pending_execution"
        THEN StartExecution(t, [call[t] EXCEPT !.mandate = rows[r].mandate])
        ELSE Return(t)  \* the stored order; ApprovalNotFoundError, ApprovalNotYetApprovedError
    /\ UNCHANGED <<stores, razorpay, expired>>

-----------------------------------------------------------------------------
(* _attempt_execution() and razorpay_client.create_order() *)

\* What _is_retryable() says of the exception a request to Razorpay raised: the
\* fate of the request is unknown, or Razorpay refused it.
Retryable == BOOLEAN

\* Mutant: the loop does not look at its range.
AttemptFailedUncounted(t, retryable) ==
    IF ~retryable
    THEN Go(t, "record_failure", call[t])
    ELSE Go(t, "lookup", [call[t] EXCEPT !.attempt = @ + 1])

\* Mutant: a retry does not count as an attempt.
AttemptFailedForever(t, retryable) ==
    IF call[t].attempt = MaxAttempts \/ ~retryable
    THEN Go(t, "record_failure", call[t])
    ELSE Go(t, "lookup", call[t])

\* An attempt raised: the loop goes on only below MaxAttempts and for an error
\* that leaves the fate of the request unknown.
AttemptFailed(t, retryable) ==
    IF call[t].attempt = MaxAttempts \/ ~retryable
    THEN Go(t, "record_failure", call[t])
    ELSE Go(t, "lookup", [call[t] EXCEPT !.attempt = @ + 1])

\* Mutant: makes an order without looking for one.
FindExistingOrderBlind(t) ==
    /\ pc[t] = "lookup"
    /\ Go(t, "create", call[t]) \/ \E retryable \in Retryable : AttemptFailed(t, retryable)
    /\ UNCHANGED <<stores, razorpay, expired>>

\* order.all(receipt): some order with the receipt, if there is one.
FindExistingOrder(t) ==
    /\ pc[t] = "lookup"
    /\ LET r == call[t].request IN
        \/ \E k \in 1..created[r] : Go(t, "mark_executed", [call[t] EXCEPT !.order = k])
        \/ created[r] = 0 /\ Go(t, "create", call[t])
        \/ \E retryable \in Retryable : AttemptFailed(t, retryable)
    /\ UNCHANGED <<stores, razorpay, expired>>

\* Razorpay's side of order.create: one more order with the receipt.
NewOrder(r) == created' = [created EXCEPT ![r] = @ + 1]

\* Mutant: takes a request that timed out for an order made.
CreateOrderOptimistic(t) ==
    /\ pc[t] = "create"
    /\ LET r == call[t].request
           made == Go(t, "mark_executed", [call[t] EXCEPT !.order = created[r] + 1]) IN
        \/ NewOrder(r) /\ made /\ UNCHANGED inflight
        \/ /\ inflight[r] < MaxInFlight
           /\ inflight' = [inflight EXCEPT ![r] = @ + 1]
           /\ made
           /\ UNCHANGED created
    /\ UNCHANGED <<stores, expired>>

\* order.create(): answered; made, but the answer lost; timed out while still
\* travelling; never sent, a 5xx, or rejected.
CreateOrder(t) ==
    /\ pc[t] = "create"
    /\ LET r == call[t].request IN
        \/ /\ NewOrder(r)
           /\ Go(t, "mark_executed", [call[t] EXCEPT !.order = created[r] + 1])
           /\ UNCHANGED inflight
        \/ /\ NewOrder(r)
           /\ AttemptFailed(t, TRUE)
           /\ UNCHANGED inflight
        \/ /\ inflight[r] < MaxInFlight
           /\ inflight' = [inflight EXCEPT ![r] = @ + 1]
           /\ AttemptFailed(t, TRUE)
           /\ UNCHANGED created
        \/ /\ \E retryable \in Retryable : AttemptFailed(t, retryable)
           /\ UNCHANGED razorpay
    /\ UNCHANGED <<stores, expired>>

\* A travelling create request reaches Razorpay after its caller gave up.
LateOrder(r) ==
    /\ inflight[r] > 0
    /\ inflight' = [inflight EXCEPT ![r] = @ - 1]
    /\ NewOrder(r)
    /\ UNCHANGED <<stores, expired, local>>

\* UPDATE ... WHERE status = 'approved_pending_execution'; never an error.
RecordExecutionFailure(t) ==
    /\ pc[t] = "record_failure"
    /\ LET r == call[t].request IN
        rows' = IF Status(r) = "approved_pending_execution"
                THEN [rows EXCEPT ![r].failed = TRUE] ELSE rows
    /\ Return(t)
    /\ UNCHANGED <<spent, trail, razorpay, expired>>

\* Mutant: the UPDATE without its condition on the status.
MarkExecutedUnguarded(t) ==
    /\ pc[t] = "mark_executed"
    /\ rows' = [rows EXCEPT ![call[t].request].status = "executed",
                            ![call[t].request].order = call[t].order]
    /\ Return(t)
    /\ UNCHANGED <<spent, trail, razorpay, expired>>

\* Mutant: the UPDATE that matched no row goes unnoticed.
MarkExecutedUnnoticed(t) ==
    /\ pc[t] = "mark_executed"
    /\ LET r == call[t].request IN
        rows' = IF Status(r) = "approved_pending_execution"
                THEN [rows EXCEPT ![r].status = "executed", ![r].order = call[t].order] ELSE rows
    /\ Return(t)
    /\ UNCHANGED <<spent, trail, razorpay, expired>>

\* UPDATE ... WHERE status = 'approved_pending_execution', or a ValueError.
MarkExecuted(t) ==
    /\ pc[t] = "mark_executed"
    /\ LET r == call[t].request IN
        \/ /\ Status(r) = "approved_pending_execution"
           /\ rows' = [rows EXCEPT ![r].status = "executed", ![r].order = call[t].order]
           /\ Return(t)
        \/ /\ Status(r) # "approved_pending_execution"
           /\ Go(t, "mark_error", call[t])
           /\ UNCHANGED rows
    /\ UNCHANGED <<spent, trail, razorpay, expired>>

\* The ValueError of resolve() or mark_executed() reaches the top level.
Surface(t) ==
    /\ pc[t] \in {"resolve_error", "mark_error"}
    /\ Return(t)
    /\ UNCHANGED <<stores, razorpay, expired>>

-----------------------------------------------------------------------------
(* Failures and time *)

\* A step that opens a store can raise before it changes anything: SQLite
\* "database is locked" after busy_timeout, portalocker.LockException after
\* ten seconds, "import razorpay" without the package (before the first
\* attempt only: create_order() catches what its attempts raise).  Nothing
\* catches these below the top level of the API or the CLI: the call ends.
Raise(t) ==
    /\ pc[t] \notin {"idle", "evaluate", "create", "resolve_error", "mark_error"}
    /\ pc[t] = "lookup" => call[t].attempt = 1
    /\ Return(t)
    /\ UNCHANGED <<stores, razorpay, expired>>

Crash(p) ==
    /\ \E t \in Threads : ProcessOf[t] = p /\ pc[t] # "idle"
    /\ pc' = [t \in Threads |-> IF ProcessOf[t] = p THEN "idle" ELSE pc[t]]
    /\ call' = [t \in Threads |-> IF ProcessOf[t] = p THEN NoCall ELSE call[t]]
    /\ UNCHANGED <<stores, razorpay, expired>>

Expire(m) ==
    /\ m \notin expired
    /\ expired' = expired \cup {m}
    /\ UNCHANGED <<stores, razorpay, local>>

-----------------------------------------------------------------------------
(* Specification *)

\* The next step of the call thread t is in.
Step(t) ==
    \/ Evaluate(t) \/ Claim(t) \/ AppendDecision(t) \/ Enqueue(t)
    \/ GetForResolve(t) \/ Resolve(t) \/ AppendHumanDecision(t)
    \/ GetForExecution(t) \/ FindExistingOrder(t) \/ CreateOrder(t)
    \/ RecordExecutionFailure(t) \/ MarkExecuted(t) \/ Surface(t)

Start(t) ==
    \/ \E m \in Mandates : Authorize(t, m)
    \/ \E r \in Requests, verdict \in {"ALLOW", "DENY"} : ResolveApproval(t, r, verdict)
    \/ \E r \in Requests : ExecuteApproval(t, r)

Next ==
    \/ \E t \in Threads : Start(t) \/ Step(t) \/ Raise(t)
    \/ \E p \in Processes : Crash(p)
    \/ \E r \in Requests : LateOrder(r)
    \/ \E m \in Mandates : Expire(m)

Spec == Init /\ [][Next]_vars

\* A thread that is running takes its next step: every blocking operation of
\* the code has a timeout.  Callers, crashes, the network and the clock owe
\* nothing.
FairSpec == Spec /\ \A t \in Threads : WF_vars(Step(t))

-----------------------------------------------------------------------------
(* Properties *)

\* The stores and the locals of every call have the types the code gives them;
\* no call makes more than MaxAttempts attempts.
TypeOK ==
    /\ spent \in SUBSET Mandates
    /\ rows \in [Requests -> Row]
    /\ created \in [Requests -> Nat]
    /\ inflight \in [Requests -> Nat]
    /\ trail \in [Mandates -> Seq(Entry)]
    /\ expired \in SUBSET Mandates
    /\ pc \in [Threads -> Steps]
    /\ call \in [Threads -> Call]

Human(e) == e.request # None
Reserves(e) == ~Human(e) /\ e.outcome # "DENY"

\* Razorpay never sees a create request for something a human has not approved:
\* not from a stale read of the row, not from a retry, not from a late answer.
ExecutionNeedsApproval ==
    \A r \in Requests : created[r] + inflight[r] > 0 => Approved(r)

\* A mandate is good for one decision (the claim in evaluate(), LIMITATIONS D4):
\* the log holds one ALLOW or NEEDS_HUMAN of the policy for it, the queue one
\* row, and a row only for the one that was flagged.
SingleUse ==
    /\ \A m \in Mandates : \A i, j \in DOMAIN trail[m] :
            Reserves(trail[m][i]) /\ Reserves(trail[m][j]) => i = j
    /\ \A r \in Requests : Status(r) # "absent" =>
            /\ \E i \in DOMAIN trail[rows[r].mandate] : trail[rows[r].mandate][i] = Flag
            /\ \A s \in Requests : rows[s].mandate = rows[r].mandate => s = r

\* Of all the callers that resolve a request one writes the human's decision
\* into the audit log, after the flag it answers, and the row's status is that
\* decision.
OneVerdict ==
    \A m \in Mandates : \A i \in DOMAIN trail[m] :
        LET r == trail[m][i].request IN
        Human(trail[m][i]) =>
            /\ rows[r].mandate = m
            /\ \E j \in 1..(i-1) : trail[m][j] = Flag
            /\ \A j \in DOMAIN trail[m] : trail[m][j].request = r => j = i
            /\ trail[m][i].outcome = "ALLOW" => Approved(r)
            /\ trail[m][i].outcome = "DENY" => Status(r) = "denied"

\* A row is 'executed' only with the id of an order Razorpay really holds for
\* its receipt, whatever was lost or retried before mark_executed().
RecordedOrderExists ==
    \A r \in Requests :
        IF Status(r) = "executed" THEN rows[r].order \in 1..created[r] ELSE rows[r].order = 0

\* Every call the service accepts comes to an end: the retry loop of
\* create_order() gives up whatever Razorpay answers.
EveryCallReturns == \A t \in Threads : pc[t] # "idle" ~> pc[t] = "idle"

\* A step in which nothing fails: no crash, no store error, and Razorpay answers.
Calm ==
    \/ \E t \in Threads :
        \/ Start(t)
        \/ Step(t) /\ (pc[t] \in {"lookup", "create"} => pc'[t] \in {"create", "mark_executed"})
    \/ \E r \in Requests : LateOrder(r)
    \/ \E m \in Mandates : Expire(m)

\* execute_approval() is called again and again by a process with the keys.
Retried(r) ==
    []<><<\E t \in Threads : ProcessOf[t] \in KeyedProcesses /\ ExecuteApproval(t, r)>>_vars

\* No failure is final: whatever crashed, raised or timed out before, and in
\* whichever call, once failures cease a request that was approved, and is
\* retried, gets its order recorded.
ApprovedGetsExecuted ==
    \A r \in Requests :
        <>[][Calm]_vars /\ Retried(r) =>
            (Status(r) = "approved_pending_execution" ~> Status(r) = "executed")

\* One order per receipt: the idempotency of create_order().
OneOrderPerReceipt == \A r \in Requests : created[r] <= 1

\* resolve_approval() fails with its two documented errors only.
ResolveRaisesDocumentedErrors == \A t \in Threads : pc[t] # "resolve_error"

\* Every step is audited: an order has the human's approval in the log.
OrdersAreAudited ==
    \A r \in Requests : created[r] > 0 =>
        \E i \in DOMAIN trail[rows[r].mandate] : trail[rows[r].mandate][i].request = r

-----------------------------------------------------------------------------
(* Why they hold: what a call may rely on at each of its steps *)

OnMandate == {"evaluate", "claim", "append", "enqueue", "resolve", "append_human"}
OnRequest == {"get", "resolve", "append_human", "get_execution", "lookup", "create",
              "record_failure", "mark_executed"}
Executing == {"lookup", "create", "record_failure", "mark_executed"}

\* A call knows which mandate or which request it is about.
CallTargets == \A t \in Threads :
    /\ pc[t] \in OnMandate => call[t].mandate \in Mandates
    /\ pc[t] \in OnRequest => call[t].request \in Requests

\* A row is about a mandate from the moment it exists.
RowsAreFilled == \A r \in Requests : Status(r) # "absent" => rows[r].mandate \in Mandates

\* Only an approved request is executed, and the order found or made is there.
CallsExecuteApproved == \A t \in Threads :
    /\ pc[t] \in Executing => Approved(call[t].request)
    /\ pc[t] = "append_human" /\ call[t].outcome = "ALLOW" => Approved(call[t].request)
    /\ pc[t] = "mark_executed" => call[t].order \in 1..created[call[t].request]

\* The inductive invariant of the execution path: what each call may rely on,
\* and the two properties that follow.
ExecutionInv ==
    /\ TypeOK
    /\ CallTargets
    /\ RowsAreFilled
    /\ CallsExecuteApproved
    /\ ExecutionNeedsApproval
    /\ RecordedOrderExists

-----------------------------------------------------------------------------
\* What the queue promises its users, one request at a time.
Verdict(r) ==
    CASE Status(r) = "absent" -> "none"
      [] Status(r) = "pending" -> "waiting"
      [] Status(r) = "denied" -> "no"
      [] OTHER -> "yes"

Lifecycle == INSTANCE ApprovalLifecycle WITH
    verdict <- [r \in Requests |-> Verdict(r)],
    orders  <- created,
    settled <- [r \in Requests |-> rows[r].order]

\* The service keeps the lifecycle the queue promises.
ImplementsLifecycle == Lifecycle!Spec
=============================================================================
