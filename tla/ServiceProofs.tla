--------------------------- MODULE ServiceProofs ---------------------------
(***************************************************************************)
(* Theorems of Service, for any threads, processes, mandates, requests and *)
(* bounds, with any interleaving, crash, lost answer and late order.       *)
(***************************************************************************)
EXTENDS Service, TLAPS

-----------------------------------------------------------------------------
(* Calls and the moves of a thread *)

\* A value of the right type may be put in any field of a call.
LEMMA CallUpdates ==
    ASSUME NEW c \in Call
    PROVE  /\ \A m \in Mandates \cup {None} : [c EXCEPT !.mandate = m] \in Call
           /\ \A r \in Requests \cup {None} : [c EXCEPT !.request = r] \in Call
           /\ \A o \in Outcomes : [c EXCEPT !.outcome = o] \in Call
           /\ \A n \in 0..MaxAttempts : [c EXCEPT !.attempt = n] \in Call
           /\ \A k \in Nat : [c EXCEPT !.order = k] \in Call
BY DEF Call

\* The record every operation opens its call with is a call.
LEMMA CallOfType ==
    \A m \in Mandates \cup {None}, r \in Requests \cup {None}, o \in Outcomes : CallOf(m, r, o) \in Call
BY ServiceAssumption DEF CallOf, Call

\* A thread with nothing to do still carries a call.
LEMMA NoCallType == NoCall \in Call
BY CallOfType DEF NoCall, Outcomes

\* A row the queue does not hold yet is a row.
LEMMA NoRowType == NoRow \in Row
BY DEF NoRow, Row, Statuses

\* Type correctness goes with what it needs: a call has its target, a row its
\* mandate.
Typing == TypeOK /\ CallTargets /\ RowsAreFilled

\* A call c that may stand at a step.
Stands(step, c) ==
    /\ step \in Steps
    /\ c \in Call
    /\ step \in OnMandate => c.mandate \in Mandates
    /\ step \in OnRequest => c.request \in Requests

CallTyping ==
    /\ pc \in [Threads -> Steps]
    /\ call \in [Threads -> Call]
    /\ CallTargets

StoreTyping ==
    /\ spent \in SUBSET Mandates
    /\ rows \in [Requests -> Row]
    /\ created \in [Requests -> Nat]
    /\ inflight \in [Requests -> Nat]
    /\ trail \in [Mandates -> Seq(Entry)]
    /\ expired \in SUBSET Mandates
    /\ RowsAreFilled

\* Typing splits into what the threads need and what the stores need.
LEMMA TypingParts ==
    /\ Typing <=> CallTyping /\ StoreTyping
    /\ Typing' <=> CallTyping' /\ StoreTyping'
BY DEF Typing, TypeOK, CallTyping, StoreTyping

\* A thread stands at a step its call is fit for.
LEMMA Standing ==
    ASSUME CallTyping, NEW t \in Threads
    PROVE  Stands(pc[t], call[t])
BY DEF CallTyping, CallTargets, Stands

\* Moving a thread to a step where its call may stand keeps the calls typed.
LEMMA MoveTyping ==
    ASSUME CallTyping, NEW t \in Threads, NEW step, NEW c, Stands(step, c),
           pc' = [pc EXCEPT ![t] = step], call' = [call EXCEPT ![t] = c]
    PROVE  CallTyping'
BY DEF CallTyping, CallTargets, Stands

\* Going on to the next step of a handler keeps the calls typed.
LEMMA GoTyping ==
    ASSUME CallTyping, NEW t \in Threads, NEW step, NEW c, Stands(step, c), Go(t, step, c)
    PROVE  CallTyping'
BY MoveTyping DEF Go

\* A handler that returns leaves its thread idle with no call.
LEMMA ReturnTyping ==
    ASSUME CallTyping, NEW t \in Threads, Return(t)
    PROVE  CallTyping'
<1>1. Stands("idle", NoCall)
  BY NoCallType DEF Stands, Steps, OnMandate, OnRequest
<1> QED
  BY <1>1, MoveTyping DEF Return

\* Starting to execute an order and failing an attempt.
LEMMA StartExecutionTyping ==
    ASSUME CallTyping, NEW t \in Threads, NEW c \in Call, c.request \in Requests,
           StartExecution(t, c)
    PROVE  CallTyping'
<1>1. Stands("record_failure", c)
  BY DEF Stands, Steps, OnMandate, OnRequest
<1>2. Stands("lookup", [c EXCEPT !.attempt = 1])
  <2>1. [c EXCEPT !.attempt = 1] \in Call
    BY CallUpdates, ServiceAssumption
  <2>2. [c EXCEPT !.attempt = 1].request = c.request
    BY DEF Call
  <2> QED
    BY <2>1, <2>2 DEF Stands, Steps, OnMandate, OnRequest
<1> QED
  BY <1>1, <1>2, GoTyping DEF StartExecution

\* A failed order attempt, retried or given up, keeps the calls typed.
LEMMA AttemptFailedTyping ==
    ASSUME CallTyping, NEW t \in Threads, pc[t] \in OnRequest,
           NEW retryable, AttemptFailed(t, retryable)
    PROVE  CallTyping'
<1>1. Stands(pc[t], call[t])
  BY Standing
<1>2. Stands("record_failure", call[t])
  BY <1>1 DEF Stands, Steps, OnMandate, OnRequest
<1>3. ASSUME call[t].attempt # MaxAttempts
      PROVE  Stands("lookup", [call[t] EXCEPT !.attempt = @ + 1])
  <2>1. call[t] \in Call /\ call[t].attempt \in 0..MaxAttempts
    BY <1>1 DEF Stands, Call
  <2>2. [call[t] EXCEPT !.attempt = @ + 1] \in Call
    BY <1>3, <2>1, CallUpdates, ServiceAssumption
  <2>3. [call[t] EXCEPT !.attempt = @ + 1].request = call[t].request
    BY <2>1 DEF Call
  <2> QED
    BY <1>1, <2>2, <2>3 DEF Stands, Steps, OnMandate, OnRequest
<1> QED
  BY <1>2, <1>3, GoTyping DEF AttemptFailed

\* A step that writes no store keeps the stores typed.
LEMMA SameStoresTyping ==
    ASSUME StoreTyping, UNCHANGED <<stores, razorpay, expired>>
    PROVE  StoreTyping'
BY DEF StoreTyping, RowsAreFilled, Status, stores, razorpay

\* Appending an entry to the trail keeps the stores typed.
LEMMA LogTyping ==
    ASSUME StoreTyping, NEW m \in Mandates, NEW e \in Entry, LogEntry(m, e),
           UNCHANGED <<spent, rows, razorpay, expired>>
    PROVE  StoreTyping'
BY DEF StoreTyping, RowsAreFilled, Status, LogEntry, razorpay

\* A row may take any value of its type that keeps it filled.
LEMMA RowTyping ==
    ASSUME StoreTyping, NEW r \in Requests, NEW row \in Row,
           row.status # "absent" => row.mandate \in Mandates,
           rows' = [rows EXCEPT ![r] = row],
           UNCHANGED <<spent, trail, razorpay, expired>>
    PROVE  StoreTyping'
BY DEF StoreTyping, RowsAreFilled, Status, razorpay

\* The UPDATE statements of the queue make rows of rows.
LEMMA RowUpdates ==
    ASSUME NEW row \in Row
    PROVE  /\ \A s \in Statuses, k \in Nat : [row EXCEPT !.status = s, !.order = k] \in Row
           /\ \A s \in Statuses, m \in Mandates : [row EXCEPT !.status = s, !.mandate = m] \in Row
           /\ \A s \in Statuses : [row EXCEPT !.status = s] \in Row
           /\ [row EXCEPT !.failed = TRUE] \in Row
BY DEF Row

-----------------------------------------------------------------------------
(* Type correctness *)

\* The empty stores and idle threads the service starts with are typed.
THEOREM TypingInit == Init => Typing
BY ServiceAssumption, NoCallType, NoRowType
DEF Init, Typing, TypeOK, CallTargets, RowsAreFilled, OnMandate, OnRequest, Status, NoRow,
    Steps, Entry

\* The entry of each service operation keeps Typing.
LEMMA TypingStart ==
    ASSUME Typing, NEW t \in Threads, Start(t)
    PROVE  Typing'
<1>1. CallTyping /\ StoreTyping
  BY TypingParts
<1>2. ASSUME NEW m \in Mandates, Authorize(t, m)
      PROVE  Typing'
  <2>1. Stands("evaluate", CallOf(m, None, "DENY"))
    BY CallOfType DEF Stands, Steps, OnMandate, OnRequest, CallOf, Outcomes
  <2>2. CallTyping'
    BY <1>1, <1>2, <2>1, MoveTyping DEF Authorize, Begin
  <2> QED
    BY <1>1, <1>2, <2>2, SameStoresTyping, TypingParts DEF Authorize
<1>3. ASSUME NEW r \in Requests, NEW verdict \in {"ALLOW", "DENY"}, NEW step \in {"get", "get_execution"}
      PROVE  Stands(step, CallOf(None, r, verdict))
  BY CallOfType DEF Stands, Steps, OnMandate, OnRequest, CallOf, Outcomes
<1>4. ASSUME NEW r \in Requests, NEW verdict \in {"ALLOW", "DENY"}, ResolveApproval(t, r, verdict)
      PROVE  Typing'
  <2>1. CallTyping'
    BY <1>1, <1>3, <1>4, MoveTyping DEF ResolveApproval, Begin
  <2> QED
    BY <1>1, <1>4, <2>1, SameStoresTyping, TypingParts DEF ResolveApproval
<1>5. ASSUME NEW r \in Requests, ExecuteApproval(t, r)
      PROVE  Typing'
  <2>1. CallTyping'
    BY <1>1, <1>3, <1>5, MoveTyping DEF ExecuteApproval, Begin
  <2> QED
    BY <1>1, <1>5, <2>1, SameStoresTyping, TypingParts DEF ExecuteApproval
<1> QED
  BY <1>2, <1>4, <1>5 DEF Start

\* The steps of authorize keep Typing.
LEMMA TypingAuthorize ==
    ASSUME Typing, NEW t \in Threads,
           Evaluate(t) \/ Claim(t) \/ AppendDecision(t) \/ Enqueue(t)
    PROVE  Typing'
<1>1. CallTyping /\ StoreTyping /\ Stands(pc[t], call[t])
  BY TypingParts, Standing
<1>2. CASE Evaluate(t)
  <2>1. PICK o \in Outcomes :
          Go(t, IF o = "DENY" THEN "append" ELSE "claim", [call[t] EXCEPT !.outcome = o])
    BY <1>2 DEF Evaluate
  <2>2. \A step \in {"append", "claim"} : Stands(step, [call[t] EXCEPT !.outcome = o])
    BY <1>1, <1>2, CallUpdates DEF Stands, Evaluate, Steps, OnMandate, OnRequest, Call
  <2> QED
    BY <1>1, <1>2, <2>1, <2>2, GoTyping, SameStoresTyping, TypingParts DEF Evaluate
<1>3. CASE Claim(t)
  <2>1. Stands("append", call[t]) /\ Stands("append", [call[t] EXCEPT !.outcome = "DENY"])
    BY <1>1, <1>3, CallUpdates DEF Stands, Claim, Steps, OnMandate, OnRequest, Call, Outcomes
  <2>2. CallTyping'
    BY <1>1, <1>3, <2>1, GoTyping DEF Claim
  <2>3. StoreTyping'
    BY <1>1, <1>3 DEF Claim, StoreTyping, RowsAreFilled, Status, razorpay, Stands, OnMandate
  <2> QED
    BY <2>2, <2>3, TypingParts
<1>4. CASE AppendDecision(t)
  <2>1. [outcome |-> call[t].outcome, request |-> None] \in Entry
    BY <1>1 DEF Stands, Call, Entry
  <2>2. StoreTyping'
    BY <1>1, <1>4, <2>1, LogTyping DEF AppendDecision, Stands, OnMandate
  <2>3. Stands("enqueue", call[t])
    BY <1>1, <1>4 DEF Stands, AppendDecision, Steps, OnMandate, OnRequest
  <2>4. CallTyping'
    BY <1>1, <1>4, <2>3, GoTyping, ReturnTyping DEF AppendDecision
  <2> QED
    BY <2>2, <2>4, TypingParts
<1>5. CASE Enqueue(t)
  <2>1. PICK r \in Requests :
          rows' = [rows EXCEPT ![r] = [NoRow EXCEPT !.status = "pending", !.mandate = call[t].mandate]]
    BY <1>5 DEF Enqueue
  <2> DEFINE row == [NoRow EXCEPT !.status = "pending", !.mandate = call[t].mandate]
  <2>2. row \in Row /\ row.mandate \in Mandates
    BY <1>1, <1>5 DEF Stands, Enqueue, OnMandate, NoRow, Row, Statuses
  <2>3. StoreTyping'
    BY <1>1, <1>5, <2>1, <2>2, RowTyping DEF Enqueue
  <2> QED
    BY <1>1, <1>5, <2>3, ReturnTyping, TypingParts DEF Enqueue
<1> QED
  BY <1>2, <1>3, <1>4, <1>5

\* The steps of resolve keep Typing.
LEMMA TypingResolve ==
    ASSUME Typing, NEW t \in Threads,
           GetForResolve(t) \/ Resolve(t) \/ AppendHumanDecision(t)
    PROVE  Typing'
<1> DEFINE r == call[t].request
<1>1. CallTyping /\ StoreTyping /\ Stands(pc[t], call[t])
  BY TypingParts, Standing
<1>2. call[t] \in Call /\ r \in Requests /\ rows[r] \in Row
  BY <1>1 DEF Stands, OnRequest, StoreTyping, GetForResolve, Resolve, AppendHumanDecision
<1>3. CASE GetForResolve(t)
  <2>1. CASE Status(r) = "pending"
    <3>1. rows[r].mandate \in Mandates
      BY <1>1, <1>2, <2>1 DEF StoreTyping, RowsAreFilled
    <3>2. [call[t] EXCEPT !.mandate = rows[r].mandate] \in Call
      BY <1>2, <3>1, CallUpdates
    <3>3. Stands("resolve", [call[t] EXCEPT !.mandate = rows[r].mandate])
      BY <1>2, <3>1, <3>2 DEF Stands, Steps, Call
    <3> QED
      BY <1>1, <1>3, <2>1, <3>3, GoTyping, SameStoresTyping, TypingParts DEF GetForResolve
  <2>2. CASE Status(r) # "pending"
    BY <1>1, <1>3, <2>2, ReturnTyping, SameStoresTyping, TypingParts DEF GetForResolve
  <2> QED
    BY <2>1, <2>2
<1>4. CASE Resolve(t)
  <2>1. CASE Status(r) = "pending"
    <3> DEFINE to == IF call[t].outcome = "ALLOW" THEN "approved_pending_execution" ELSE "denied"
    <3>1. rows' = [rows EXCEPT ![r] = [rows[r] EXCEPT !.status = to]] /\ Go(t, "append_human", call[t])
      BY <1>4, <2>1 DEF Resolve
    <3>2. [rows[r] EXCEPT !.status = to] \in Row
      BY <1>2, RowUpdates DEF Statuses
    <3>3. rows[r].mandate \in Mandates /\ [rows[r] EXCEPT !.status = to].mandate = rows[r].mandate
      BY <1>1, <1>2, <2>1 DEF StoreTyping, RowsAreFilled, Row
    <3>4. StoreTyping'
      BY <1>1, <1>2, <1>4, <3>1, <3>2, <3>3, RowTyping DEF Resolve
    <3>5. Stands("append_human", call[t])
      BY <1>1, <1>4 DEF Stands, Resolve, Steps, OnMandate, OnRequest
    <3> QED
      BY <1>1, <3>1, <3>4, <3>5, GoTyping, TypingParts
  <2>2. CASE Status(r) # "pending"
    <3>1. Stands("resolve_error", call[t])
      BY <1>1 DEF Stands, Steps, OnMandate, OnRequest
    <3>2. Go(t, "resolve_error", call[t]) /\ UNCHANGED <<stores, razorpay, expired>>
      BY <1>4, <2>2 DEF Resolve, stores
    <3> QED
      BY <1>1, <3>1, <3>2, GoTyping, SameStoresTyping, TypingParts
  <2> QED
    BY <2>1, <2>2
<1>5. CASE AppendHumanDecision(t)
  <2>1. call[t].mandate \in Mandates
    BY <1>1, <1>5 DEF Stands, AppendHumanDecision, OnMandate
  <2>2. [outcome |-> call[t].outcome, request |-> r] \in Entry
    BY <1>2 DEF Call, Entry
  <2>3. StoreTyping'
    BY <1>1, <1>5, <2>1, <2>2, LogTyping DEF AppendHumanDecision
  <2>4. CallTyping'
    BY <1>1, <1>2, <1>5, StartExecutionTyping, ReturnTyping DEF AppendHumanDecision
  <2> QED
    BY <2>3, <2>4, TypingParts
<1> QED
  BY <1>3, <1>4, <1>5

\* What CreateOrder does to Razorpay, whatever becomes of the call.
LEMMA CreateOrderEffect ==
    ASSUME NEW t \in Threads, CreateOrder(t)
    PROVE  LET r == call[t].request IN
           \/ /\ created' = [created EXCEPT ![r] = created[r] + 1]
              /\ inflight' = inflight
           \/ /\ created' = created
              /\ inflight' = [inflight EXCEPT ![r] = inflight[r] + 1]
           \/ /\ created' = created
              /\ inflight' = inflight
BY ZenonT(30) DEF CreateOrder, NewOrder, razorpay

\* The steps of an execution keep Typing: lookup, create, record.
LEMMA TypingExecute ==
    ASSUME Typing, NEW t \in Threads,
           \/ GetForExecution(t) \/ FindExistingOrder(t) \/ CreateOrder(t)
           \/ RecordExecutionFailure(t) \/ MarkExecuted(t)
    PROVE  Typing'
<1> DEFINE r == call[t].request
<1>1. CallTyping /\ StoreTyping /\ Stands(pc[t], call[t]) /\ pc[t] \in OnRequest
  BY TypingParts, Standing
  DEF GetForExecution, FindExistingOrder, CreateOrder, RecordExecutionFailure, MarkExecuted, OnRequest
<1>2. call[t] \in Call /\ r \in Requests /\ rows[r] \in Row /\ created[r] \in Nat
  BY <1>1 DEF Stands, StoreTyping
\* Any order number may be noted on the way to mark_executed.
<1>3. ASSUME NEW k \in Nat
      PROVE  Stands("mark_executed", [call[t] EXCEPT !.order = k])
  <2>1. [call[t] EXCEPT !.order = k] \in Call
    BY <1>2, CallUpdates
  <2>2. [call[t] EXCEPT !.order = k].request = r
    BY <1>2 DEF Call
  <2> QED
    BY <1>2, <2>1, <2>2 DEF Stands, Steps, OnMandate, OnRequest
<1>4. CASE GetForExecution(t)
  <2>1. CASE Status(r) = "approved_pending_execution"
    <3>1. rows[r].mandate \in Mandates
      BY <1>1, <1>2, <2>1 DEF StoreTyping, RowsAreFilled
    <3>2. [call[t] EXCEPT !.mandate = rows[r].mandate] \in Call
      BY <1>2, <3>1, CallUpdates
    <3>3. [call[t] EXCEPT !.mandate = rows[r].mandate].request \in Requests
      BY <1>2 DEF Call
    <3>4. StartExecution(t, [call[t] EXCEPT !.mandate = rows[r].mandate])
      BY <1>4, <2>1 DEF GetForExecution
    <3>5. CallTyping'
      BY <1>1, <3>2, <3>3, <3>4, StartExecutionTyping
    <3> QED
      BY <1>1, <1>4, <3>5, SameStoresTyping, TypingParts DEF GetForExecution
  <2>2. CASE Status(r) # "approved_pending_execution"
    BY <1>1, <1>4, <2>2, ReturnTyping, SameStoresTyping, TypingParts DEF GetForExecution
  <2> QED
    BY <2>1, <2>2
<1>5. CASE FindExistingOrder(t)
  <2>1. Stands("create", call[t])
    BY <1>2 DEF Stands, Steps, OnMandate, OnRequest
  <2>2. ASSUME NEW k \in 1..created[r], Go(t, "mark_executed", [call[t] EXCEPT !.order = k])
        PROVE  CallTyping'
    BY <1>1, <1>2, <1>3, <2>2, GoTyping
  <2>3. ASSUME Go(t, "create", call[t])
        PROVE  CallTyping'
    BY <1>1, <2>1, <2>3, GoTyping
  <2>4. ASSUME NEW retryable \in BOOLEAN, AttemptFailed(t, retryable)
        PROVE  CallTyping'
    BY <1>1, <2>4, AttemptFailedTyping
  <2>5. CallTyping'
    BY <1>5, <2>2, <2>3, <2>4 DEF FindExistingOrder, Retryable
  <2> QED
    BY <1>1, <1>5, <2>5, SameStoresTyping, TypingParts DEF FindExistingOrder
<1>6. CASE CreateOrder(t)
  <2>1. ASSUME Go(t, "mark_executed", [call[t] EXCEPT !.order = created[r] + 1])
        PROVE  CallTyping'
    BY <1>1, <1>2, <1>3, <2>1, GoTyping
  <2>2. ASSUME NEW retryable \in BOOLEAN, AttemptFailed(t, retryable)
        PROVE  CallTyping'
    BY <1>1, <2>2, AttemptFailedTyping
  <2>3. CallTyping'
    BY <1>6, <2>1, <2>2 DEF CreateOrder, Retryable
  <2>4. /\ created' \in [Requests -> Nat]
        /\ inflight' \in [Requests -> Nat]
    <3>1. created \in [Requests -> Nat] /\ inflight \in [Requests -> Nat] /\ inflight[r] \in Nat
      BY <1>1, <1>2 DEF StoreTyping
    <3>2. /\ [created EXCEPT ![r] = created[r] + 1] \in [Requests -> Nat]
          /\ [inflight EXCEPT ![r] = inflight[r] + 1] \in [Requests -> Nat]
      BY <1>2, <3>1
    <3> HIDE DEF r
    <3> QED
      BY <1>6, <3>1, <3>2, CreateOrderEffect DEF r
  <2>5. StoreTyping'
    BY <1>1, <1>6, <2>4 DEF CreateOrder, StoreTyping, RowsAreFilled, Status, stores
  <2> QED
    BY <2>3, <2>5, TypingParts
<1>7. CASE RecordExecutionFailure(t)
  <2>1. [rows[r] EXCEPT !.failed = TRUE] \in Row
    BY <1>2, RowUpdates
  <2>2. ASSUME Status(r) = "approved_pending_execution"
        PROVE  StoreTyping'
    <3>1. rows' = [rows EXCEPT ![r] = [rows[r] EXCEPT !.failed = TRUE]]
      BY <1>7, <2>2 DEF RecordExecutionFailure
    <3>2. [rows[r] EXCEPT !.failed = TRUE].mandate \in Mandates
      BY <1>1, <1>2, <2>2 DEF StoreTyping, RowsAreFilled, Row
    <3> QED
      BY <1>1, <1>2, <1>7, <2>1, <3>1, <3>2, RowTyping DEF RecordExecutionFailure
  <2>3. ASSUME Status(r) # "approved_pending_execution"
        PROVE  StoreTyping'
    BY <1>1, <1>7, <2>3, SameStoresTyping DEF RecordExecutionFailure, stores
  <2> QED
    BY <1>1, <1>7, <2>2, <2>3, ReturnTyping, TypingParts DEF RecordExecutionFailure
<1>8. CASE MarkExecuted(t)
  <2>1. CASE Status(r) = "approved_pending_execution"
    <3> DEFINE row == [rows[r] EXCEPT !.status = "executed", !.order = call[t].order]
    <3>1. rows' = [rows EXCEPT ![r] = row] /\ Return(t)
      BY <1>8, <2>1 DEF MarkExecuted
    <3>2. row \in Row
      BY <1>2, RowUpdates DEF Statuses, Call
    <3>3. row.mandate \in Mandates
      BY <1>1, <1>2, <2>1 DEF StoreTyping, RowsAreFilled, Row
    <3>4. StoreTyping'
      BY <1>1, <1>2, <1>8, <3>1, <3>2, <3>3, RowTyping DEF MarkExecuted
    <3> QED
      BY <1>1, <3>1, <3>4, ReturnTyping, TypingParts
  <2>2. CASE Status(r) # "approved_pending_execution"
    <3>1. Stands("mark_error", call[t])
      BY <1>1 DEF Stands, Steps, OnMandate, OnRequest
    <3>2. Go(t, "mark_error", call[t]) /\ UNCHANGED <<stores, razorpay, expired>>
      BY <1>8, <2>2 DEF MarkExecuted, stores
    <3> QED
      BY <1>1, <3>1, <3>2, GoTyping, SameStoresTyping, TypingParts
  <2> QED
    BY <2>1, <2>2
<1> QED
  BY <1>4, <1>5, <1>6, <1>7, <1>8

\* Errors, crashes, late orders and expiry keep Typing.
LEMMA TypingOther ==
    ASSUME Typing,
           \/ \E t \in Threads : Surface(t) \/ Raise(t)
           \/ \E p \in Processes : Crash(p)
           \/ \E r \in Requests : LateOrder(r)
           \/ \E m \in Mandates : Expire(m)
    PROVE  Typing'
<1>1. CallTyping /\ StoreTyping
  BY TypingParts
<1>2. ASSUME NEW t \in Threads, Surface(t) \/ Raise(t)
      PROVE  Typing'
  BY <1>1, <1>2, ReturnTyping, SameStoresTyping, TypingParts DEF Surface, Raise
<1>3. ASSUME NEW p \in Processes, Crash(p)
      PROVE  Typing'
  <2>1. CallTyping'
    BY <1>1, <1>3, NoCallType DEF Crash, CallTyping, CallTargets, Steps, OnMandate, OnRequest
  <2> QED
    BY <1>1, <1>3, <2>1, SameStoresTyping, TypingParts DEF Crash
<1>4. ASSUME NEW r \in Requests, LateOrder(r)
      PROVE  Typing'
  BY <1>1, <1>4, TypingParts
  DEF LateOrder, NewOrder, CallTyping, StoreTyping, CallTargets, RowsAreFilled, Status, stores, local
<1>5. ASSUME NEW m \in Mandates, Expire(m)
      PROVE  Typing'
  BY <1>1, <1>5, TypingParts
  DEF Expire, CallTyping, StoreTyping, CallTargets, RowsAreFilled, Status, stores, razorpay, local
<1> QED
  BY <1>2, <1>3, <1>4, <1>5

\* Every step of the service keeps Typing.
THEOREM TypingStep == Typing /\ [Next]_vars => Typing'
<1> SUFFICES ASSUME Typing, [Next]_vars
             PROVE  Typing'
  OBVIOUS
<1>1. CASE UNCHANGED vars
  BY <1>1 DEF Typing, TypeOK, CallTargets, RowsAreFilled, Status, vars
<1>2. ASSUME NEW t \in Threads, Start(t)
      PROVE  Typing'
  BY <1>2, TypingStart
<1>3. ASSUME NEW t \in Threads, Step(t)
      PROVE  Typing'
  BY <1>3, TypingAuthorize, TypingResolve, TypingExecute, TypingOther DEF Step
<1> QED
  BY <1>1, <1>2, <1>3, TypingOther DEF Next

\* The service's state is always well typed, and every call and row knows its
\* mandate or request: rows and calls never lose track of what they are about.
THEOREM ServiceTypeCorrect == Spec => []TypeOK
<1>1. Spec => []Typing
  BY TypingInit, TypingStep, PTL DEF Spec
<1>2. Typing => TypeOK
  BY DEF Typing
<1> QED
  BY <1>1, <1>2, PTL

-----------------------------------------------------------------------------
(* What a step does to a row and to Razorpay *)

\* Nothing but resolve(), mark_executed(), record_execution_failure() and
\* enqueue() writes the queue, each from the status its WHERE names.
RowStep(r) ==
    LET old == rows[r]
        new == rows'[r] IN
    \/ new = old
    \/ /\ old.status = "absent" /\ new.status = "pending"
       /\ new.mandate \in Mandates /\ new.order = 0
    \/ /\ old.status = "pending" /\ new.status \in {"approved_pending_execution", "denied"}
       /\ new.mandate = old.mandate /\ new.order = old.order
    \/ /\ old.status = "approved_pending_execution" /\ new.status = old.status
       /\ new.mandate = old.mandate /\ new.order = old.order
    \/ /\ old.status = "approved_pending_execution" /\ new.status = "executed"
       /\ new.mandate = old.mandate
       /\ \E t \in Threads :
            pc[t] = "mark_executed" /\ call[t].request = r /\ new.order = call[t].order

\* A step changes a row only along the queue's transitions.
LEMMA RowSteps ==
    ASSUME Typing, [Next]_vars, NEW r \in Requests
    PROVE  RowStep(r)
<1> USE DEF RowStep, Status
<1>0. rows \in [Requests -> Row] /\ rows[r] \in Row
  BY DEF Typing, TypeOK
<1>1. CASE UNCHANGED rows
  BY <1>1
<1>2. ASSUME NEW t \in Threads, Enqueue(t)
      PROVE  RowStep(r)
  <2>1. call[t].mandate \in Mandates
    BY <1>2 DEF Typing, CallTargets, Enqueue, OnMandate
  <2>2. PICK q \in Requests :
          /\ rows[q].status = "absent"
          /\ rows' = [rows EXCEPT ![q] = [NoRow EXCEPT !.status = "pending", !.mandate = call[t].mandate]]
    BY <1>2 DEF Enqueue
  <2> DEFINE new == [NoRow EXCEPT !.status = "pending", !.mandate = call[t].mandate]
  <2>3. new.status = "pending" /\ new.mandate = call[t].mandate /\ new.order = 0
    BY DEF NoRow
  <2>4. r = q => rows'[r] = new
    BY <1>0, <2>2
  <2>5. r # q => rows'[r] = rows[r]
    BY <1>0, <2>2
  <2> HIDE DEF new
  <2> QED
    BY <2>1, <2>2, <2>3, <2>4, <2>5
<1>3. ASSUME NEW t \in Threads, Resolve(t)
      PROVE  RowStep(r)
  BY <1>0, <1>3 DEF Resolve, Row
<1>4. ASSUME NEW t \in Threads, RecordExecutionFailure(t)
      PROVE  RowStep(r)
  BY <1>0, <1>4 DEF RecordExecutionFailure, Row
<1>5. ASSUME NEW t \in Threads, MarkExecuted(t)
      PROVE  RowStep(r)
  <2>1. CASE rows' = rows
    BY <2>1
  <2>2. CASE /\ rows[call[t].request].status = "approved_pending_execution"
             /\ rows' = [rows EXCEPT ![call[t].request].status = "executed",
                                     ![call[t].request].order = call[t].order]
    <3>1. CASE call[t].request # r
      BY <1>0, <2>2, <3>1
    <3>2. CASE call[t].request = r
      <4> DEFINE new == [rows[r] EXCEPT !.status = "executed", !.order = call[t].order]
      <4>1. rows'[r] = new
        BY <1>0, <2>2, <3>2
      <4>2. new.status = "executed" /\ new.mandate = rows[r].mandate /\ new.order = call[t].order
        BY <1>0 DEF Row
      <4>3. pc[t] = "mark_executed"
        BY <1>5 DEF MarkExecuted
      <4> HIDE DEF new
      <4> QED
        BY <2>2, <3>2, <4>1, <4>2, <4>3
    <3> QED
      BY <3>1, <3>2
  <2> QED
    BY <1>5, <2>1, <2>2 DEF MarkExecuted
<1>6. \/ UNCHANGED rows
      \/ \E t \in Threads : Enqueue(t) \/ Resolve(t) \/ RecordExecutionFailure(t) \/ MarkExecuted(t)
  BY DEF Next, vars, Start, Step, Authorize, Evaluate, Claim, AppendDecision, ResolveApproval,
      GetForResolve, AppendHumanDecision, ExecuteApproval, GetForExecution, FindExistingOrder,
      CreateOrder, Surface, Raise, Crash, LateOrder, Expire, stores
<1> QED
  BY <1>1, <1>2, <1>3, <1>4, <1>5, <1>6

\* Orders and travelling requests appear only for a request some thread is
\* creating an order for, and an order only stays or comes from one travelling.
OrderStep(r) ==
    \/ created'[r] = created[r] /\ inflight'[r] = inflight[r]
    \/ /\ \E t \in Threads : pc[t] = "create" /\ call[t].request = r
       /\ \/ created'[r] = created[r] + 1 /\ inflight'[r] = inflight[r]
          \/ created'[r] = created[r] /\ inflight'[r] = inflight[r] + 1
    \/ inflight[r] > 0 /\ inflight'[r] = inflight[r] - 1 /\ created'[r] = created[r] + 1

\* A step adds at most one order at Razorpay for a request, and removes none.
LEMMA OrderSteps ==
    ASSUME Typing, [Next]_vars, NEW r \in Requests
    PROVE  OrderStep(r)
<1> USE DEF OrderStep
<1>1. created \in [Requests -> Nat] /\ inflight \in [Requests -> Nat]
  BY DEF Typing, TypeOK
<1>2. CASE UNCHANGED razorpay
  BY <1>2 DEF razorpay
<1>3. ASSUME NEW t \in Threads, CreateOrder(t)
      PROVE  OrderStep(r)
  <2>1. pc[t] = "create"
    BY <1>3 DEF CreateOrder, Retryable
  <2> QED
    BY <1>1, <1>3, <2>1, CreateOrderEffect
<1>4. ASSUME NEW q \in Requests, LateOrder(q)
      PROVE  OrderStep(r)
  BY <1>1, <1>4 DEF LateOrder, NewOrder
<1>5. \/ UNCHANGED razorpay
      \/ \E t \in Threads : CreateOrder(t)
      \/ \E q \in Requests : LateOrder(q)
  BY DEF Next, vars, Start, Step, Authorize, Evaluate, Claim, AppendDecision, Enqueue, Resolve,
      ResolveApproval, GetForResolve, AppendHumanDecision, ExecuteApproval, GetForExecution,
      FindExistingOrder, RecordExecutionFailure, MarkExecuted, Surface, Raise, Crash, Expire, razorpay
<1> QED
  BY <1>2, <1>3, <1>4, <1>5

\* An approval is never taken back and an order never disappears.
LEMMA Progress ==
    ASSUME Typing, [Next]_vars, NEW r \in Requests
    PROVE  /\ Approved(r) => Approved(r)'
           /\ created[r] \in Nat /\ created'[r] \in Nat /\ created[r] <= created'[r]
<1>1. rows[r] \in Row /\ created[r] \in Nat /\ inflight[r] \in Nat
  BY DEF Typing, TypeOK
<1>2. Approved(r) => Approved(r)'
  BY RowSteps DEF RowStep, Approved, Status
<1>3. created'[r] \in Nat /\ created[r] <= created'[r]
  BY <1>1, OrderSteps DEF OrderStep
<1> QED
  BY <1>1, <1>2, <1>3

-----------------------------------------------------------------------------
(* Execution needs approval, and a recorded order exists *)

\* A call c at a step executes only an approved request.
ExecutesApproved(step, c) ==
    /\ step \in Executing => Approved(c.request)
    /\ step = "append_human" /\ c.outcome = "ALLOW" => Approved(c.request)
    /\ step = "mark_executed" => c.order \in 1..created[c.request]

\* A thread that did not move still executes an approved request.
LEMMA ExecutesApprovedStays ==
    ASSUME Typing, [Next]_vars, NEW t \in Threads, ExecutesApproved(pc[t], call[t]),
           pc'[t] = pc[t], call'[t] = call[t]
    PROVE  ExecutesApproved(pc[t], call[t])'
<1>1. pc[t] \in Executing \cup {"append_human"} => call[t].request \in Requests
  BY DEF Typing, CallTargets, OnRequest, Executing
<1>2. pc[t] = "mark_executed" => call[t].order \in Nat
  BY DEF ExecutesApproved
<1> QED
  BY <1>1, <1>2, Progress DEF ExecutesApproved, Executing

\* A thread outside an execution owes no approval.
LEMMA IdleExecutesNothing ==
    ASSUME NEW c, NEW step, step \notin Executing, step # "append_human"
    PROVE  ExecutesApproved(step, c)'
BY DEF ExecutesApproved, Executing

\* The moves of the execution itself.
LEMMA StartExecutesApproved ==
    ASSUME Typing, [Next]_vars, NEW t \in Threads, NEW c \in Call, c.request \in Requests,
           Approved(c.request), StartExecution(t, c)
    PROVE  ExecutesApproved(pc[t], call[t])'
<1>1. Approved(c.request)'
  BY Progress
<1>2. [c EXCEPT !.attempt = 1].request = c.request
  BY DEF Call
<1>3. pc \in [Threads -> Steps] /\ call \in [Threads -> Call]
  BY DEF Typing, TypeOK
<1> QED
  BY <1>1, <1>2, <1>3 DEF StartExecution, Go, ExecutesApproved

\* A failed attempt goes on executing the request it was executing.
LEMMA FailedExecutesApproved ==
    ASSUME Typing, [Next]_vars, NEW t \in Threads, pc[t] \in Executing,
           ExecutesApproved(pc[t], call[t]), NEW retryable, AttemptFailed(t, retryable)
    PROVE  ExecutesApproved(pc[t], call[t])'
<1>1. call[t] \in Call /\ call[t].request \in Requests
  BY DEF Typing, TypeOK, CallTargets, Executing, OnRequest
<1>0. PICK r \in Requests : r = call[t].request
  BY <1>1
<1>2. Approved(r)'
  BY <1>0, Progress DEF ExecutesApproved
<1>3. [call[t] EXCEPT !.attempt = @ + 1].request = call[t].request
  BY <1>1 DEF Call
<1>4. pc \in [Threads -> Steps] /\ call \in [Threads -> Call]
  BY DEF Typing, TypeOK
<1> QED
  BY <1>0, <1>2, <1>3, <1>4 DEF AttemptFailed, Go, ExecutesApproved

\* A thread's own step keeps its execution on an approved request.
LEMMA ExecutesApprovedStep ==
    ASSUME Typing, NEW t \in Threads, ExecutesApproved(pc[t], call[t]),
           Next, Start(t) \/ Step(t) \/ Raise(t)
    PROVE  ExecutesApproved(pc[t], call[t])'
<1> DEFINE r == call[t].request
<1>1. pc \in [Threads -> Steps] /\ call \in [Threads -> Call] /\ call[t] \in Call
  BY DEF Typing, TypeOK
<1>2. pc[t] \in OnRequest => r \in Requests
  BY DEF Typing, CallTargets
<1>3. ASSUME pc'[t] \notin Executing, pc'[t] # "append_human"
      PROVE  ExecutesApproved(pc[t], call[t])'
  BY <1>3 DEF ExecutesApproved, Executing
<1>4. CASE Start(t)
  BY <1>1, <1>3, <1>4 DEF Start, Authorize, ResolveApproval, ExecuteApproval, Begin, Executing
<1>5. CASE Evaluate(t) \/ Claim(t) \/ AppendDecision(t) \/ Enqueue(t) \/ GetForResolve(t)
           \/ RecordExecutionFailure(t) \/ MarkExecuted(t) \/ Surface(t) \/ Raise(t)
  <2>1. pc'[t] \in {"append", "claim", "enqueue", "idle", "resolve", "mark_error"}
    BY <1>1, <1>5 DEF Evaluate, Claim, AppendDecision, Enqueue, GetForResolve,
      RecordExecutionFailure, MarkExecuted, Surface, Raise, Go, Return
  <2> QED
    BY <1>3, <2>1 DEF Executing
<1>6. CASE Resolve(t)
  <2>1. CASE Status(r) # "pending"
    BY <1>1, <1>3, <1>6, <2>1 DEF Resolve, Go, Executing
  <2>2. CASE Status(r) = "pending"
    <3>1. r \in Requests /\ rows \in [Requests -> Row]
      BY <1>2, <1>6 DEF Resolve, OnRequest, Typing, TypeOK
    <3>0. PICK q \in Requests : q = r
      BY <3>1
    <3>2. call[t].outcome = "ALLOW" => Approved(q)'
      BY <1>6, <2>2, <3>0, <3>1 DEF Resolve, Approved, Status, Row
    <3>3. pc'[t] = "append_human" /\ call'[t] = call[t]
      BY <1>1, <1>6, <2>2 DEF Resolve, Go
    <3> QED
      BY <3>0, <3>2, <3>3 DEF ExecutesApproved, Executing
  <2> QED
    BY <2>1, <2>2
<1>7. CASE AppendHumanDecision(t)
  <2>1. r \in Requests
    BY <1>2, <1>7 DEF AppendHumanDecision, OnRequest
  <2>2. CASE call[t].outcome = "ALLOW"
    BY <1>1, <1>7, <2>1, <2>2, StartExecutesApproved DEF AppendHumanDecision, ExecutesApproved
  <2>3. CASE call[t].outcome # "ALLOW"
    BY <1>1, <1>3, <1>7, <2>3 DEF AppendHumanDecision, Return, Executing
  <2> QED
    BY <2>2, <2>3
<1>8. CASE GetForExecution(t)
  <2>1. r \in Requests
    BY <1>2, <1>8 DEF GetForExecution, OnRequest
  <2>2. CASE Status(r) = "approved_pending_execution"
    <3> DEFINE c == [call[t] EXCEPT !.mandate = rows[r].mandate]
    <3>1. rows[r].mandate \in Mandates
      BY <2>1, <2>2 DEF Typing, RowsAreFilled
    <3>2. c \in Call /\ c.request = r
      BY <1>1, <3>1, CallUpdates DEF Call
    <3>3. StartExecution(t, c) /\ Approved(r)
      BY <1>8, <2>2 DEF GetForExecution, Approved
    <3> HIDE DEF c
    <3> QED
      BY <2>1, <3>2, <3>3, StartExecutesApproved
  <2>3. CASE Status(r) # "approved_pending_execution"
    BY <1>1, <1>3, <1>8, <2>3 DEF GetForExecution, Return, Executing
  <2> QED
    BY <2>2, <2>3
<1>9. ASSUME pc[t] \in {"lookup", "create"}, NEW retryable, AttemptFailed(t, retryable)
      PROVE  ExecutesApproved(pc[t], call[t])'
  BY <1>9, FailedExecutesApproved DEF Executing
\* An order to record is one Razorpay has.
<1>10. ASSUME pc[t] \in {"lookup", "create"}, NEW q \in Requests, q = r, NEW k \in 1..created'[q],
              Go(t, "mark_executed", [call[t] EXCEPT !.order = k])
       PROVE  ExecutesApproved(pc[t], call[t])'
  <2>1. Approved(q)'
    BY <1>10, Progress DEF ExecutesApproved, Executing
  <2>2. [call[t] EXCEPT !.order = k].request = q /\ [call[t] EXCEPT !.order = k].order = k
    BY <1>1, <1>10 DEF Call
  <2>3. pc'[t] = "mark_executed" /\ call'[t] = [call[t] EXCEPT !.order = k]
    BY <1>1, <1>10 DEF Go
  <2> QED
    BY <1>10, <2>1, <2>2, <2>3 DEF ExecutesApproved
<1>11. CASE FindExistingOrder(t)
  <2>1. pc[t] = "lookup" /\ r \in Requests /\ Approved(r)
    BY <1>2, <1>11 DEF FindExistingOrder, OnRequest, ExecutesApproved, Executing
  <2>0. PICK q \in Requests : q = r
    BY <2>1
  <2>2. created'[q] = created[q] /\ created[q] \in Nat
    BY <1>11, <2>1 DEF FindExistingOrder, razorpay, Typing, TypeOK
  <2>3. ASSUME Go(t, "create", call[t])
        PROVE  ExecutesApproved(pc[t], call[t])'
    BY <1>1, <2>0, <2>1, <2>3, Progress DEF Go, ExecutesApproved
  <2>4. \/ \E k \in 1..created[r] : Go(t, "mark_executed", [call[t] EXCEPT !.order = k])
        \/ Go(t, "create", call[t])
        \/ \E retryable \in BOOLEAN : AttemptFailed(t, retryable)
    BY <1>11 DEF FindExistingOrder, Retryable
  <2> HIDE DEF r
  <2>5. ASSUME NEW k \in 1..created[r], Go(t, "mark_executed", [call[t] EXCEPT !.order = k])
        PROVE  ExecutesApproved(pc[t], call[t])'
    BY <1>10, <2>0, <2>1, <2>2, <2>5
  <2> QED
    BY <1>9, <2>1, <2>3, <2>4, <2>5
<1>12. CASE CreateOrder(t)
  <2>1. pc[t] = "create" /\ r \in Requests /\ created[r] \in Nat /\ created \in [Requests -> Nat]
    BY <1>2, <1>12 DEF CreateOrder, OnRequest, Typing, TypeOK
  <2>2. \/ NewOrder(r) /\ Go(t, "mark_executed", [call[t] EXCEPT !.order = created[r] + 1])
        \/ \E retryable \in BOOLEAN : AttemptFailed(t, retryable)
    BY <1>12 DEF CreateOrder, Retryable
  <2>0. PICK q \in Requests : q = r
    BY <2>1
  <2>3. NewOrder(r) => created'[q] = created[q] + 1
    BY <2>0, <2>1 DEF NewOrder
  <2> HIDE DEF r
  <2>4. ASSUME NewOrder(r), Go(t, "mark_executed", [call[t] EXCEPT !.order = created[r] + 1])
        PROVE  ExecutesApproved(pc[t], call[t])'
    <3>1. PICK k \in Nat : k = created[r] + 1
      BY <2>1
    <3>2. k \in 1..created'[q]
      BY <2>0, <2>1, <2>3, <2>4, <3>1
    <3> QED
      BY <1>10, <2>0, <2>1, <2>4, <3>1, <3>2
  <2> QED
    BY <1>9, <2>1, <2>2, <2>4
<1> QED
  BY <1>4, <1>5, <1>6, <1>7, <1>8, <1>11, <1>12 DEF Step

\* What a thread does moves no other.
LEMMA ActsAlone ==
    ASSUME Typing, NEW u \in Threads, Start(u) \/ Step(u) \/ Raise(u), NEW t \in Threads, u # t
    PROVE  pc'[t] = pc[t] /\ call'[t] = call[t]
<1>1. pc \in [Threads -> Steps] /\ call \in [Threads -> Call]
  BY DEF Typing, TypeOK
<1>2. \E step, c : pc' = [pc EXCEPT ![u] = step] /\ call' = [call EXCEPT ![u] = c]
  BY DEF Start, Step, Raise, Authorize, ResolveApproval, ExecuteApproval, Begin, Evaluate,
    Claim, AppendDecision, Enqueue, GetForResolve, Resolve, AppendHumanDecision, GetForExecution,
    FindExistingOrder, CreateOrder, RecordExecutionFailure, MarkExecuted, Surface,
    StartExecution, AttemptFailed, Go, Return
<1> QED
  BY <1>1, <1>2

\* A step moves one thread, or takes the threads of a process out of their
\* calls, or moves none.
LEMMA OneMoves ==
    ASSUME Typing, [Next]_vars, NEW t \in Threads
    PROVE  \/ pc'[t] = pc[t] /\ call'[t] = call[t]
           \/ pc'[t] = "idle"
           \/ Next /\ (Start(t) \/ Step(t) \/ Raise(t))
<1>1. ASSUME NEW p \in Processes, Crash(p)
      PROVE  \/ pc'[t] = pc[t] /\ call'[t] = call[t]
             \/ pc'[t] = "idle"
  BY <1>1 DEF Crash, Typing, TypeOK
<1>2. ASSUME UNCHANGED local
      PROVE  pc'[t] = pc[t] /\ call'[t] = call[t]
  BY <1>2 DEF local
<1> QED
  BY <1>1, <1>2, ActsAlone DEF Next, LateOrder, Expire, vars, local

\* The invariant of executions holds when the service starts.
THEOREM ExecutionInvInit == Init => ExecutionInv
<1> SUFFICES ASSUME Init
             PROVE  ExecutionInv
  OBVIOUS
<1>1. Typing
  BY TypingInit
<1>2. CallsExecuteApproved /\ ExecutionNeedsApproval /\ RecordedOrderExists
  BY DEF Init, CallsExecuteApproved, ExecutionNeedsApproval, RecordedOrderExists, Executing,
    Status, NoRow
<1> QED
  BY <1>1, <1>2 DEF Typing, ExecutionInv

\* Every step of the service keeps the invariant of executions.
THEOREM ExecutionInvStep == ExecutionInv /\ [Next]_vars => ExecutionInv'
<1> SUFFICES ASSUME ExecutionInv, [Next]_vars
             PROVE  ExecutionInv'
  OBVIOUS
<1>1. Typing /\ Typing'
  BY TypingStep DEF Typing, ExecutionInv
<1>2. CallsExecuteApproved'
  <2>1. ASSUME NEW t \in Threads
        PROVE  ExecutesApproved(pc[t], call[t])'
    <3>1. ExecutesApproved(pc[t], call[t])
      BY DEF ExecutionInv, CallsExecuteApproved, ExecutesApproved
    <3>2. CASE pc'[t] = pc[t] /\ call'[t] = call[t]
      BY <1>1, <3>1, <3>2, ExecutesApprovedStays
    <3>3. CASE pc'[t] = "idle"
      BY <3>3 DEF ExecutesApproved, Executing
    <3>4. CASE Next /\ (Start(t) \/ Step(t) \/ Raise(t))
      BY <1>1, <3>1, <3>4, ExecutesApprovedStep
    <3> QED
      BY <1>1, <3>2, <3>3, <3>4, OneMoves
  <2> QED
    BY <2>1 DEF CallsExecuteApproved, ExecutesApproved
<1>3. ExecutionNeedsApproval'
  <2> SUFFICES ASSUME NEW r \in Requests, created'[r] + inflight'[r] > 0
               PROVE  Approved(r)'
    BY DEF ExecutionNeedsApproval
  <2>1. created[r] \in Nat /\ inflight[r] \in Nat
    BY <1>1 DEF Typing, TypeOK
  <2>2. Approved(r)
    <3>1. CASE created[r] + inflight[r] > 0
      BY <3>1 DEF ExecutionInv, ExecutionNeedsApproval
    <3>2. CASE \E t \in Threads : pc[t] = "create" /\ call[t].request = r
      BY <3>2 DEF ExecutionInv, CallsExecuteApproved, Executing
    <3> QED
      BY <1>1, <2>1, <3>1, <3>2, OrderSteps DEF OrderStep
  <2> QED
    BY <1>1, <2>2, Progress
<1>4. RecordedOrderExists'
  <2> SUFFICES ASSUME NEW r \in Requests
               PROVE  IF rows'[r].status = "executed"
                      THEN rows'[r].order \in 1..created'[r] ELSE rows'[r].order = 0
    BY DEF RecordedOrderExists, Status
  <2>1. IF rows[r].status = "executed" THEN rows[r].order \in 1..created[r] ELSE rows[r].order = 0
    BY DEF ExecutionInv, RecordedOrderExists, Status
  <2>2. \A t \in Threads : pc[t] = "mark_executed" /\ call[t].request = r =>
            call[t].order \in 1..created[r]
    BY DEF ExecutionInv, CallsExecuteApproved
  <2>3. created[r] \in Nat /\ created'[r] \in Nat /\ created[r] <= created'[r]
    BY <1>1, Progress
  <2> QED
    BY <1>1, <2>1, <2>2, <2>3, RowSteps DEF RowStep
<1> QED
  BY <1>1, <1>2, <1>3, <1>4 DEF Typing, ExecutionInv

\* The inductive invariant behind the safety theorems: whoever executes a
\* request holds its approval, across threads, retries and restarts.
THEOREM ExecutionInvariant == Spec => []ExecutionInv
BY ExecutionInvInit, ExecutionInvStep, PTL DEF Spec

\* Nothing reaches Razorpay for a request no human approved.
THEOREM NoExecutionWithoutApproval == Spec => []ExecutionNeedsApproval
<1>1. ExecutionInv => ExecutionNeedsApproval
  BY DEF ExecutionInv
<1> QED
  BY <1>1, ExecutionInvariant, PTL

\* An executed row names an order that exists.
THEOREM RecordedOrdersExist == Spec => []RecordedOrderExists
<1>1. ExecutionInv => RecordedOrderExists
  BY DEF ExecutionInv
<1> QED
  BY <1>1, ExecutionInvariant, PTL

-----------------------------------------------------------------------------
(* The service implements the lifecycle its queue promises *)


\* A service just started is a lifecycle just started.
LEMMA LifecycleInit == Init => Lifecycle!Init
BY DEF Init, Lifecycle!Init, Verdict, Status, NoRow

\* The mapped variables.
Verdicts == [r \in Requests |-> Verdict(r)]
Settled == [r \in Requests |-> rows[r].order]

\* A step that leaves the mapped variables is a stutter of the lifecycle.
LEMMA LifecycleStutter ==
    ASSUME UNCHANGED <<Verdicts, created, Settled>>
    PROVE  UNCHANGED Lifecycle!vars
BY DEF Lifecycle!vars, Verdicts, Settled

\* A write to one row is a step of that request's lifecycle.
LEMMA LifecycleRow ==
    ASSUME Typing, NEW q \in Requests, NEW row, rows' = [rows EXCEPT ![q] = row]
    PROVE  /\ row.status = "pending" => Verdicts' = [Verdicts EXCEPT ![q] = "waiting"]
           /\ row.status = "denied" => Verdicts' = [Verdicts EXCEPT ![q] = "no"]
           /\ row.status \in {"approved_pending_execution", "executed"} =>
                Verdicts' = [Verdicts EXCEPT ![q] = "yes"]
           /\ row.order = rows[q].order => Settled' = Settled
           /\ Settled' = [Settled EXCEPT ![q] = row.order]
<1>1. rows \in [Requests -> Row]
  BY DEF Typing, TypeOK
<1>2. rows'[q] = row /\ \A r \in Requests : r # q => rows'[r] = rows[r]
  BY <1>1
<1>3. \A r \in Requests : r # q => Verdict(r)' = Verdict(r)
  BY <1>2 DEF Verdict, Status
<1>4. ASSUME NEW v, Verdict(q)' = v
      PROVE  Verdicts' = [Verdicts EXCEPT ![q] = v]
  <2>1. Verdicts' = [r \in Requests |-> Verdict(r)']
    BY DEF Verdicts
  <2> QED
    BY <1>3, <1>4, <2>1 DEF Verdicts
<1>5. ASSUME row.status = "pending"
      PROVE  Verdicts' = [Verdicts EXCEPT ![q] = "waiting"]
  <2>1. Verdict(q)' = "waiting"
    BY <1>2, <1>5 DEF Verdict, Status
  <2> QED
    BY <1>4, <2>1
<1>6. ASSUME row.status = "denied"
      PROVE  Verdicts' = [Verdicts EXCEPT ![q] = "no"]
  <2>1. Verdict(q)' = "no"
    BY <1>2, <1>6 DEF Verdict, Status
  <2> QED
    BY <1>4, <2>1
<1>7. ASSUME row.status \in {"approved_pending_execution", "executed"}
      PROVE  Verdicts' = [Verdicts EXCEPT ![q] = "yes"]
  <2>1. Verdict(q)' = "yes"
    BY <1>2, <1>7 DEF Verdict, Status
  <2> QED
    BY <1>4, <2>1
<1>8. Settled' = [Settled EXCEPT ![q] = row.order]
  <2>1. \A r \in Requests : rows'[r].order = IF r = q THEN row.order ELSE rows[r].order
    BY <1>2
  <2>2. Settled' = [r \in Requests |-> IF r = q THEN row.order ELSE rows[r].order]
    BY <2>1 DEF Settled
  <2>3. [Settled EXCEPT ![q] = row.order] =
            [r \in Requests |-> IF r = q THEN row.order ELSE rows[r].order]
    BY DEF Settled
  <2> QED
    BY <2>2, <2>3
<1>9. row.order = rows[q].order => Settled' = Settled
  <2> SUFFICES ASSUME row.order = rows[q].order
               PROVE  \A r \in Requests : rows'[r].order = rows[r].order
    BY DEF Settled
  <2> QED
    BY <1>2
<1> QED
  BY <1>5, <1>6, <1>7, <1>8, <1>9

\* Every step of the service is a step of the lifecycle or a stutter.
LEMMA LifecycleStep == ExecutionInv /\ [Next]_vars => [Lifecycle!Next]_(Lifecycle!vars)
<1> SUFFICES ASSUME ExecutionInv, [Next]_vars
             PROVE  [Lifecycle!Next]_(Lifecycle!vars)
  OBVIOUS
<1>0. Typing /\ rows \in [Requests -> Row] /\ call \in [Threads -> Call]
  BY DEF ExecutionInv, Typing, TypeOK
<1>1. CASE UNCHANGED <<rows, created>>
  BY <1>1, LifecycleStutter DEF Verdicts, Settled, Verdict, Status
<1>2. ASSUME NEW t \in Threads, Enqueue(t)
      PROVE  Lifecycle!Next
  <2> DEFINE row == [NoRow EXCEPT !.status = "pending", !.mandate = call[t].mandate]
  <2>1. PICK q \in Requests : Status(q) = "absent" /\ rows' = [rows EXCEPT ![q] = row]
    BY <1>2 DEF Enqueue
  <2>2. row.status = "pending" /\ row.order = 0
    BY DEF NoRow
  <2>3. rows[q].order = 0
    BY <2>1 DEF ExecutionInv, RecordedOrderExists, Status
  <2> HIDE DEF row
  <2>4. Verdicts' = [Verdicts EXCEPT ![q] = "waiting"] /\ Settled' = Settled
    BY <1>0, <2>1, <2>2, <2>3, LifecycleRow
  <2>5. Verdicts[q] = "none" /\ created' = created
    BY <1>2, <2>1 DEF Verdicts, Verdict, Enqueue, razorpay
  <2>6. Lifecycle!Ask(q)
    BY <2>4, <2>5 DEF Lifecycle!Ask, Verdicts, Settled
  <2> QED
    BY <2>6 DEF Lifecycle!Next
<1>3. ASSUME NEW t \in Threads, Resolve(t), ~UNCHANGED rows
      PROVE  Lifecycle!Next
  <2>1. PICK q \in Requests : q = call[t].request
    BY <1>0, <1>3 DEF Resolve, Typing, CallTargets, OnRequest
  <2>2. PICK s \in {"approved_pending_execution", "denied"} :
          Status(q) = "pending" /\ rows' = [rows EXCEPT ![q] = [rows[q] EXCEPT !.status = s]]
    BY <1>3, <2>1 DEF Resolve
  <2>3. [rows[q] EXCEPT !.status = s].status = s /\ [rows[q] EXCEPT !.status = s].order = rows[q].order
    BY <1>0 DEF Row
  <2> DEFINE row == [rows[q] EXCEPT !.status = s]
  <2> HIDE DEF row
  <2>4. /\ \E v \in {"yes", "no"} : Verdicts' = [Verdicts EXCEPT ![q] = v]
        /\ Settled' = Settled
    <3>1. rows' = [rows EXCEPT ![q] = row] /\ row.status = s /\ row.order = rows[q].order
      BY <2>2, <2>3 DEF row
    <3> QED
      BY <1>0, <3>1, LifecycleRow
  <2>5. Verdicts[q] = "waiting" /\ created' = created
    BY <1>3, <2>2 DEF Verdicts, Verdict, Resolve, razorpay
  <2>6. Lifecycle!Answer(q)
    BY <2>4, <2>5 DEF Lifecycle!Answer, Verdicts, Settled
  <2> QED
    BY <2>6 DEF Lifecycle!Next
<1>4. ASSUME NEW t \in Threads, MarkExecuted(t), ~UNCHANGED rows
      PROVE  Lifecycle!Next
  <2>1. PICK q \in Requests : q = call[t].request
    BY <1>0, <1>4 DEF MarkExecuted, Typing, CallTargets, OnRequest
  <2> DEFINE row == [rows[q] EXCEPT !.status = "executed", !.order = call[t].order]
  <2>2. /\ Status(q) = "approved_pending_execution"
        /\ rows' = [rows EXCEPT ![q] = row]
        /\ created' = created
    BY <1>4, <2>1 DEF MarkExecuted, razorpay
  <2>3. row.status = "executed" /\ row.order = call[t].order
    BY <1>0 DEF Row
  <2>4. call[t].order \in 1..created[q]
    BY <1>4, <2>1 DEF ExecutionInv, CallsExecuteApproved, MarkExecuted
  <2> HIDE DEF row
  <2>5. Verdicts' = [Verdicts EXCEPT ![q] = "yes"] /\ Settled' = [Settled EXCEPT ![q] = row.order]
    BY <1>0, <2>2, <2>3, LifecycleRow
  <2>6. Verdicts[q] = "yes" /\ Settled[q] = 0
    BY <2>2 DEF Verdicts, Verdict, Settled, ExecutionInv, RecordedOrderExists, Status
  <2>7. Verdicts' = Verdicts
    BY <2>5, <2>6 DEF Verdicts
  <2>8. Lifecycle!Settle(q)
    BY <2>2, <2>3, <2>4, <2>5, <2>6, <2>7 DEF Lifecycle!Settle, Verdicts, Settled
  <2> QED
    BY <2>8 DEF Lifecycle!Next
<1>5. ASSUME NEW t \in Threads, RecordExecutionFailure(t)
      PROVE  UNCHANGED Lifecycle!vars
  <2>1. PICK q \in Requests : q = call[t].request
    BY <1>0, <1>5 DEF RecordExecutionFailure, Typing, CallTargets, OnRequest
  <2>2. created' = created
    BY <1>5 DEF RecordExecutionFailure, razorpay
  <2>3. CASE rows' = rows
    BY <2>2, <2>3, LifecycleStutter DEF Verdicts, Settled, Verdict, Status
  <2>4. CASE /\ Status(q) = "approved_pending_execution"
             /\ rows' = [rows EXCEPT ![q] = [rows[q] EXCEPT !.failed = TRUE]]
    <3>1. /\ [rows[q] EXCEPT !.failed = TRUE].status = rows[q].status
          /\ [rows[q] EXCEPT !.failed = TRUE].order = rows[q].order
      BY <1>0 DEF Row
    <3>2. Verdicts' = [Verdicts EXCEPT ![q] = "yes"] /\ Settled' = Settled
      BY <1>0, <2>4, <3>1, LifecycleRow DEF Status
    <3>3. Verdicts' = Verdicts
      BY <2>4, <3>2 DEF Verdicts, Verdict
    <3> QED
      BY <2>2, <3>2, <3>3, LifecycleStutter
  <2> QED
    BY <1>5, <2>1, <2>3, <2>4 DEF RecordExecutionFailure
\* A new order, at once or late, for an approved request.
<1>6. ASSUME NEW q \in Requests, Approved(q), NewOrder(q), UNCHANGED rows
      PROVE  Lifecycle!Next
  <2>1. Verdicts[q] = "yes" /\ UNCHANGED <<Verdicts, Settled>>
    BY <1>6 DEF Verdicts, Settled, Verdict, Approved, Status
  <2>2. Lifecycle!Order(q)
    BY <1>6, <2>1 DEF Lifecycle!Order, NewOrder, Verdicts, Settled
  <2> QED
    BY <2>2 DEF Lifecycle!Next
<1>7. ASSUME NEW t \in Threads, CreateOrder(t), ~UNCHANGED created
      PROVE  Lifecycle!Next
  <2>1. PICK q \in Requests : q = call[t].request
    BY <1>0, <1>7 DEF CreateOrder, Typing, CallTargets, OnRequest
  <2>2. Approved(q) /\ UNCHANGED rows
    BY <1>7, <2>1 DEF CreateOrder, ExecutionInv, CallsExecuteApproved, Executing, stores
  <2>3. NewOrder(q)
    BY <1>7, <2>1, CreateOrderEffect DEF NewOrder
  <2> QED
    BY <1>6, <2>2, <2>3
<1>8. ASSUME NEW q \in Requests, LateOrder(q)
      PROVE  Lifecycle!Next
  <2>1. created[q] \in Nat /\ inflight[q] \in Nat /\ inflight[q] > 0
    BY <1>0, <1>8 DEF LateOrder, Typing, TypeOK
  <2>2. Approved(q)
    BY <2>1 DEF ExecutionInv, ExecutionNeedsApproval
  <2> QED
    BY <1>6, <1>8, <2>2 DEF LateOrder, stores
<1>9. \/ UNCHANGED <<rows, created>>
      \/ \E t \in Threads : \/ Enqueue(t) \/ RecordExecutionFailure(t)
                            \/ Resolve(t) /\ ~UNCHANGED rows
                            \/ MarkExecuted(t) /\ ~UNCHANGED rows
                            \/ CreateOrder(t) /\ ~UNCHANGED created
      \/ \E q \in Requests : LateOrder(q)
  BY DEF Next, vars, Start, Step, Authorize, Evaluate, Claim, AppendDecision, Resolve, MarkExecuted,
      ResolveApproval, GetForResolve, AppendHumanDecision, ExecuteApproval, GetForExecution,
      FindExistingOrder, CreateOrder, Surface, Raise, Crash, Expire, stores, razorpay
<1> QED
  BY <1>1, <1>2, <1>3, <1>4, <1>5, <1>7, <1>8, <1>9

\* However calls overlap, crash and retry, each request lives the life the
\* approval queue promises: one answer, orders only after a yes, one settlement.
THEOREM ServiceImplementsLifecycle == Spec => ImplementsLifecycle
<1>1. Spec => []ExecutionInv /\ [][Next]_vars /\ Init
  BY ExecutionInvariant DEF Spec
<1> QED
  BY <1>1, LifecycleInit, LifecycleStep, PTL DEF ImplementsLifecycle, Lifecycle!Spec
=============================================================================
