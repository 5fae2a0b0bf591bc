---------------------------- MODULE LedgerProofs ----------------------------
(***************************************************************************)
(* What the nonce table, the audit log and the queue hold of a mandate     *)
(* agrees, whatever the calls of Service interleave with and wherever they *)
(* crash: SingleUse, OneVerdict and, where the service keeps one order per *)
(* receipt, OneOrderPerReceipt.                                            *)
(***************************************************************************)
EXTENDS ServiceProofs

-----------------------------------------------------------------------------
(* The inductive invariant *)

\* What the log and the queue hold of a mandate and of a request.
Reserved(m) == \E i \in DOMAIN trail[m] : Reserves(trail[m][i])
Flagged(m) == \E i \in DOMAIN trail[m] : trail[m][i] = Flag
Filed(m) == \E r \in Requests : rows[r].mandate = m
Decided(r) == \E m \in Mandates : \E i \in DOMAIN trail[m] : trail[m][i].request = r

\* A thread that holds the claim of its mandate, and is about to log it.
Claims(t) == pc[t] = "append" /\ call[t].outcome # "DENY"

\* What is logged of a mandate: one reservation, of a mandate spent, and answers
\* to a request of it, each after the flag, alone, and with the row's verdict.
EntryInv(m, i) ==
    LET r == trail[m][i].request IN
    Human(trail[m][i]) =>
        /\ rows[r].mandate = m
        /\ trail[m][i].outcome \in {"ALLOW", "DENY"}
        /\ \E j \in 1..(i-1) : trail[m][j] = Flag
        /\ \A j \in DOMAIN trail[m] : trail[m][j].request = r => j = i
        /\ trail[m][i].outcome = "ALLOW" => Approved(r)
        /\ trail[m][i].outcome = "DENY" => Status(r) = "denied"

MandateInv(m) ==
    /\ Reserved(m) => m \in spent
    /\ \A i, j \in DOMAIN trail[m] : Reserves(trail[m][i]) /\ Reserves(trail[m][j]) => i = j
    /\ \A i \in DOMAIN trail[m] : EntryInv(m, i)

\* A row is the only one of a mandate that was flagged.
RowInv(r) ==
    IF Status(r) = "absent" THEN rows[r].mandate = None
    ELSE /\ Flagged(rows[r].mandate)
         /\ \A s \in Requests : rows[s].mandate = rows[r].mandate => s = r

\* What a call may rely on between the claim, the log, the queue and the answer.
ThreadInv(t) ==
    LET m == call[t].mandate
        r == call[t].request
        verdict == call[t].outcome IN
    /\ Claims(t) => m \in spent /\ ~Reserved(m)
    /\ pc[t] = "enqueue" => Flagged(m) /\ ~Filed(m)
    /\ pc[t] \in {"get", "resolve", "append_human"} => verdict \in {"ALLOW", "DENY"}
    /\ pc[t] \in {"resolve", "append_human"} => Status(r) # "absent" /\ rows[r].mandate = m
    /\ pc[t] = "append_human" =>
        /\ IF verdict = "ALLOW" THEN Approved(r) ELSE Status(r) = "denied"
        /\ ~Decided(r)

\* Two calls never hold the same claim, the same flag or the same verdict.
Apart(t, u) ==
    /\ ~(Claims(t) /\ Claims(u) /\ call[t].mandate = call[u].mandate)
    /\ ~(pc[t] = "enqueue" /\ pc[u] = "enqueue" /\ call[t].mandate = call[u].mandate)
    /\ ~(pc[t] = "append_human" /\ pc[u] = "append_human" /\ call[t].request = call[u].request)

LedgerInv ==
    /\ \A m \in Mandates : MandateInv(m)
    /\ \A r \in Requests : RowInv(r)
    /\ \A t \in Threads : ThreadInv(t)
    /\ \A t, u \in Threads : t # u => Apart(t, u)

-----------------------------------------------------------------------------
(* What a step writes *)

\* The entries of a log that one was appended to.
LEMMA Appending ==
    ASSUME NEW a \in Seq(Entry), NEW e \in Entry
    PROVE  LET n == Len(a)
               b == Append(a, e)
           IN  /\ n \in Nat /\ DOMAIN a = 1..n /\ DOMAIN b = 1..(n + 1) /\ b[n + 1] = e
               /\ \A i \in 1..n : b[i] = a[i] /\ i \in 1..(n + 1) /\ i # n + 1
               /\ \A i \in 1..(n + 1) : i \in 1..n \/ i = n + 1
OBVIOUS

PolicyEntry(t) == [outcome |-> call[t].outcome, request |-> None]
HumanEntry(t) == [outcome |-> call[t].outcome, request |-> call[t].request]

\* The log of a mandate grows by the decision, or the answer, of one call about it.
LEMMA TrailStep ==
    ASSUME Typing, [Next]_vars, NEW m \in Mandates
    PROVE  \/ trail'[m] = trail[m]
           \/ \E t \in Threads :
                /\ AppendDecision(t) /\ call[t].mandate = m /\ PolicyEntry(t) \in Entry
                /\ trail'[m] = Append(trail[m], PolicyEntry(t))
           \/ \E t \in Threads :
                /\ AppendHumanDecision(t) /\ call[t].mandate = m
                /\ HumanEntry(t) \in Entry /\ call[t].request \in Requests
                /\ trail'[m] = Append(trail[m], HumanEntry(t))
<1>1. trail \in [Mandates -> Seq(Entry)] /\ \A t \in Threads : call[t] \in Call
  BY DEF Typing, TypeOK
<1>2. ASSUME NEW t \in Threads, AppendDecision(t)
      PROVE  \/ trail'[m] = trail[m]
             \/ /\ call[t].mandate = m /\ PolicyEntry(t) \in Entry
                /\ trail'[m] = Append(trail[m], PolicyEntry(t))
  <2>1. trail' = [trail EXCEPT ![call[t].mandate] = Append(@, PolicyEntry(t))]
    BY <1>2 DEF AppendDecision, LogEntry, PolicyEntry
  <2>2. PolicyEntry(t) \in Entry BY <1>1 DEF PolicyEntry, Entry, Call
  <2> QED BY <1>1, <2>1, <2>2
<1>3. ASSUME NEW t \in Threads, AppendHumanDecision(t)
      PROVE  \/ trail'[m] = trail[m]
             \/ /\ call[t].mandate = m
                /\ HumanEntry(t) \in Entry /\ call[t].request \in Requests
                /\ trail'[m] = Append(trail[m], HumanEntry(t))
  <2>1. trail' = [trail EXCEPT ![call[t].mandate] = Append(@, HumanEntry(t))]
    BY <1>3 DEF AppendHumanDecision, LogEntry, HumanEntry
  <2>2. call[t].request \in Requests
    BY <1>3 DEF Typing, CallTargets, OnRequest, AppendHumanDecision
  <2>3. HumanEntry(t) \in Entry BY <1>1, <2>2 DEF HumanEntry, Entry, Call
  <2> QED BY <1>1, <2>1, <2>2, <2>3
<1>4. \/ UNCHANGED trail
      \/ \E t \in Threads : AppendDecision(t) \/ AppendHumanDecision(t)
  BY DEF Next, vars, Start, Step, Authorize, Evaluate, Claim, Enqueue, ResolveApproval,
      GetForResolve, Resolve, ExecuteApproval, GetForExecution, FindExistingOrder, CreateOrder,
      RecordExecutionFailure, MarkExecuted, Surface, Raise, Crash, LateOrder, Expire, stores
<1> QED BY <1>2, <1>3, <1>4

\* A mandate is reserved by the call that holds its claim.
LEMMA ReservedStep ==
    ASSUME Typing, [Next]_vars, NEW m \in Mandates, Reserved(m)'
    PROVE  \/ Reserved(m)
           \/ \E t \in Threads : AppendDecision(t) /\ Claims(t) /\ call[t].mandate = m
<1>1. trail[m] \in Seq(Entry) BY DEF Typing, TypeOK
<1>2. PICK i \in DOMAIN trail'[m] : Reserves(trail'[m][i]) BY DEF Reserved, Reserves, Human
<1>3. CASE trail'[m] = trail[m] BY <1>2, <1>3 DEF Reserved
<1>4. ASSUME NEW t \in Threads, AppendDecision(t), call[t].mandate = m, PolicyEntry(t) \in Entry,
             trail'[m] = Append(trail[m], PolicyEntry(t))
      PROVE  Reserved(m) \/ Claims(t)
  <2>1. (i \in DOMAIN trail[m] /\ trail'[m][i] = trail[m][i]) \/ trail'[m][i] = PolicyEntry(t)
    BY <1>1, <1>2, <1>4, Appending
  <2> QED BY <1>2, <1>4, <2>1 DEF Reserved, Reserves, PolicyEntry, Claims, AppendDecision
<1>5. ASSUME NEW t \in Threads, call[t].request \in Requests, HumanEntry(t) \in Entry,
             trail'[m] = Append(trail[m], HumanEntry(t))
      PROVE  Reserved(m)
  <2>1. (i \in DOMAIN trail[m] /\ trail'[m][i] = trail[m][i]) \/ trail'[m][i] = HumanEntry(t)
    BY <1>1, <1>2, <1>5, Appending
  <2>2. ~Reserves(HumanEntry(t)) BY <1>5, ServiceAssumption DEF Reserves, Human, HumanEntry
  <2> QED BY <1>2, <2>1, <2>2 DEF Reserved
<1> QED BY <1>3, <1>4, <1>5, TrailStep

\* A flag stays in the log.
LEMMA FlaggedStays ==
    ASSUME Typing, [Next]_vars, NEW m \in Mandates, Flagged(m)
    PROVE  Flagged(m)'
<1>1. trail[m] \in Seq(Entry) BY DEF Typing, TypeOK
<1>2. \A e \in Entry : trail'[m] = Append(trail[m], e) => Flagged(m)'
  BY <1>1, Appending DEF Flagged
<1> QED BY <1>2, TrailStep DEF Flagged

\* A request is answered by the call that resolved it.
LEMMA DecidedStep ==
    ASSUME Typing, [Next]_vars, NEW r \in Requests, Decided(r)'
    PROVE  \/ Decided(r)
           \/ \E t \in Threads : AppendHumanDecision(t) /\ call[t].request = r
<1>1. PICK m \in Mandates : \E i \in DOMAIN trail'[m] : trail'[m][i].request = r BY DEF Decided
<1>0. PICK i \in DOMAIN trail'[m] : trail'[m][i].request = r BY <1>1
<1>2. trail[m] \in Seq(Entry) BY DEF Typing, TypeOK
<1>3. CASE trail'[m] = trail[m] BY <1>0, <1>3 DEF Decided
<1>4. ASSUME NEW t \in Threads, PolicyEntry(t) \in Entry, trail'[m] = Append(trail[m], PolicyEntry(t))
      PROVE  Decided(r)
  <2>1. (i \in DOMAIN trail[m] /\ trail'[m][i] = trail[m][i]) \/ trail'[m][i] = PolicyEntry(t)
    BY <1>0, <1>2, <1>4, Appending
  <2>2. PolicyEntry(t).request # r BY ServiceAssumption DEF PolicyEntry
  <2> QED BY <1>0, <2>1, <2>2 DEF Decided
<1>5. ASSUME NEW t \in Threads, HumanEntry(t) \in Entry, trail'[m] = Append(trail[m], HumanEntry(t))
      PROVE  Decided(r) \/ call[t].request = r
  <2>1. (i \in DOMAIN trail[m] /\ trail'[m][i] = trail[m][i]) \/ trail'[m][i] = HumanEntry(t)
    BY <1>0, <1>2, <1>5, Appending
  <2> QED BY <1>0, <2>1 DEF Decided, HumanEntry
<1> QED BY <1>3, <1>4, <1>5, TrailStep

\* What a row is about changes only when the row of a flagged call is inserted.
LEMMA FilingStep ==
    ASSUME Typing, [Next]_vars
    PROVE  \/ \A r \in Requests : rows'[r].mandate = rows[r].mandate
                                  /\ (Status(r)' = "absent" <=> Status(r) = "absent")
           \/ \E t \in Threads, q \in Requests :
                /\ Enqueue(t) /\ Status(q) = "absent"
                /\ rows'[q].mandate = call[t].mandate /\ rows'[q].status = "pending"
                /\ \A r \in Requests \ {q} : rows'[r] = rows[r]
<1>1. rows \in [Requests -> Row] BY DEF Typing, TypeOK
<1>2. ASSUME NEW t \in Threads, Enqueue(t)
      PROVE  \E q \in Requests :
                /\ Status(q) = "absent"
                /\ rows'[q].mandate = call[t].mandate /\ rows'[q].status = "pending"
                /\ \A r \in Requests \ {q} : rows'[r] = rows[r]
  <2>1. PICK q \in Requests :
          /\ Status(q) = "absent"
          /\ rows' = [rows EXCEPT ![q] = [NoRow EXCEPT !.status = "pending", !.mandate = call[t].mandate]]
    BY <1>2 DEF Enqueue
  <2>2. rows'[q] = [NoRow EXCEPT !.status = "pending", !.mandate = call[t].mandate]
    BY <1>1, <2>1
  <2> QED BY <1>1, <2>1, <2>2 DEF NoRow
<1>3. ASSUME ~\E t \in Threads : Enqueue(t), NEW r \in Requests
      PROVE  rows'[r].mandate = rows[r].mandate /\ (rows'[r].status = "absent" <=> rows[r].status = "absent")
  <2>1. rows[r] \in Row BY <1>1
  <2>2. ASSUME NEW t \in Threads, Resolve(t) \/ RecordExecutionFailure(t) \/ MarkExecuted(t)
        PROVE  rows'[r].mandate = rows[r].mandate /\ (rows'[r].status = "absent" <=> rows[r].status = "absent")
    <3>1. CASE Resolve(t) BY <1>1, <2>1, <3>1 DEF Resolve, Row, Status
    <3>2. CASE RecordExecutionFailure(t) BY <1>1, <2>1, <3>2 DEF RecordExecutionFailure, Row, Status
    <3>3. CASE MarkExecuted(t) BY <1>1, <2>1, <3>3 DEF MarkExecuted, Row, Status
    <3> QED BY <2>2, <3>1, <3>2, <3>3
  <2>3. \/ UNCHANGED rows
        \/ \E t \in Threads : Resolve(t) \/ RecordExecutionFailure(t) \/ MarkExecuted(t)
    BY <1>3 DEF Next, vars, Start, Step, Authorize, Evaluate, Claim, AppendDecision, ResolveApproval,
        GetForResolve, AppendHumanDecision, ExecuteApproval, GetForExecution, FindExistingOrder,
        CreateOrder, Surface, Raise, Crash, LateOrder, Expire, stores
  <2> QED BY <2>2, <2>3
<1> QED BY <1>2, <1>3 DEF Status

\* Nothing leaves the nonce table.
LEMMA SpentStays == ASSUME [Next]_vars PROVE spent \subseteq spent'
BY DEF Next, vars, Start, Step, Authorize, Evaluate, Claim, AppendDecision, Enqueue, ResolveApproval,
    GetForResolve, Resolve, AppendHumanDecision, ExecuteApproval, GetForExecution, FindExistingOrder,
    CreateOrder, RecordExecutionFailure, MarkExecuted, Surface, Raise, Crash, LateOrder, Expire, stores

-----------------------------------------------------------------------------
(* How a call comes to the steps the invariant speaks of *)

Arrived(t) ==
    /\ Claims(t)' =>
        /\ Claim(t) /\ call[t].mandate \notin spent /\ call'[t].mandate = call[t].mandate
    /\ pc'[t] = "enqueue" =>
        /\ AppendDecision(t) /\ call[t].outcome = "NEEDS_HUMAN" /\ call'[t] = call[t]
    /\ pc'[t] = "get" =>
        call'[t].outcome \in {"ALLOW", "DENY"}
    /\ pc'[t] = "resolve" =>
        /\ GetForResolve(t) /\ Status(call[t].request) = "pending"
        /\ call'[t].request = call[t].request /\ call'[t].outcome = call[t].outcome
        /\ call'[t].mandate = rows[call[t].request].mandate
    /\ pc'[t] = "append_human" =>
        /\ Resolve(t) /\ Status(call[t].request) = "pending" /\ call'[t] = call[t]

\* Each of these steps is reached from one place, with what was found there.
LEMMA Arrivals ==
    ASSUME Typing, NEW t \in Threads, Start(t) \/ Step(t) \/ Raise(t)
    PROVE  Arrived(t)
<1>1. pc \in [Threads -> Steps] /\ call \in [Threads -> Call] /\ call[t] \in Call
  BY DEF Typing, TypeOK
<1>2. ASSUME pc'[t] \notin {"append", "enqueue", "get", "resolve", "append_human"}
      PROVE  Arrived(t)
  BY <1>2 DEF Arrived, Claims
<1>3. CASE Start(t)
  <2>1. ASSUME NEW r \in Requests, NEW verdict \in {"ALLOW", "DENY"}, ResolveApproval(t, r, verdict)
        PROVE  Arrived(t)
    <3>1. pc'[t] = "get" /\ call'[t].outcome = verdict
      BY <1>1, <2>1 DEF ResolveApproval, Begin, CallOf
    <3> QED BY <2>1, <3>1 DEF Arrived, Claims
  <2>2. ASSUME NEW m \in Mandates, Authorize(t, m) PROVE Arrived(t)
    BY <1>1, <1>2, <2>2 DEF Authorize, Begin
  <2>3. ASSUME NEW r \in Requests, ExecuteApproval(t, r) PROVE Arrived(t)
    BY <1>1, <1>2, <2>3 DEF ExecuteApproval, Begin
  <2> QED BY <1>3, <2>1, <2>2, <2>3 DEF Start
<1>4. CASE Evaluate(t)
  <2>1. PICK o \in Outcomes :
          Go(t, IF o = "DENY" THEN "append" ELSE "claim", [call[t] EXCEPT !.outcome = o])
    BY <1>4 DEF Evaluate
  <2>2. pc'[t] = (IF o = "DENY" THEN "append" ELSE "claim") /\ call'[t] = [call[t] EXCEPT !.outcome = o]
    BY <1>1, <2>1 DEF Go
  <2>3. call'[t].outcome = o BY <1>1, <2>2 DEF Call
  <2> QED BY <2>2, <2>3 DEF Arrived, Claims
<1>5. CASE Claim(t)
  <2> DEFINE m == call[t].mandate
  <2>1. pc'[t] = "append" /\ call'[t] = IF m \in spent THEN [call[t] EXCEPT !.outcome = "DENY"] ELSE call[t]
    BY <1>1, <1>5 DEF Claim, Go
  <2>2. CASE m \in spent
    <3>1. call'[t].outcome = "DENY" BY <1>1, <2>1, <2>2 DEF Call
    <3> QED BY <2>1, <3>1 DEF Arrived, Claims
  <2>3. CASE m \notin spent BY <1>5, <2>1, <2>3 DEF Arrived, Claims
  <2> QED BY <2>2, <2>3
<1>6. CASE AppendDecision(t)
  <2>1. CASE call[t].outcome = "NEEDS_HUMAN"
    <3>1. pc'[t] = "enqueue" /\ call'[t] = call[t] BY <1>1, <1>6, <2>1 DEF AppendDecision, Go
    <3> QED BY <1>6, <2>1, <3>1 DEF Arrived, Claims
  <2>2. CASE call[t].outcome # "NEEDS_HUMAN"
    BY <1>1, <1>2, <1>6, <2>2 DEF AppendDecision, Return
  <2> QED BY <2>1, <2>2
<1>7. CASE GetForResolve(t)
  <2>1. CASE Status(call[t].request) = "pending"
    <3>1. pc'[t] = "resolve" /\ call'[t] = [call[t] EXCEPT !.mandate = rows[call[t].request].mandate]
      BY <1>1, <1>7, <2>1 DEF GetForResolve, Go
    <3>2. /\ call'[t].request = call[t].request /\ call'[t].outcome = call[t].outcome
          /\ call'[t].mandate = rows[call[t].request].mandate
      BY <1>1, <3>1 DEF Call
    <3> QED BY <1>7, <2>1, <3>1, <3>2 DEF Arrived, Claims
  <2>2. CASE Status(call[t].request) # "pending"
    BY <1>1, <1>2, <1>7, <2>2 DEF GetForResolve, Return
  <2> QED BY <2>1, <2>2
<1>8. CASE Resolve(t)
  <2>1. CASE Status(call[t].request) = "pending"
    <3>1. pc'[t] = "append_human" /\ call'[t] = call[t] BY <1>1, <1>8, <2>1 DEF Resolve, Go
    <3> QED BY <1>8, <2>1, <3>1 DEF Arrived, Claims
  <2>2. CASE Status(call[t].request) # "pending"
    BY <1>1, <1>2, <1>8, <2>2 DEF Resolve, Go
  <2> QED BY <2>1, <2>2
<1>9. ASSUME NEW c, StartExecution(t, c)
      PROVE  pc'[t] \in {"lookup", "record_failure"}
  BY <1>1, <1>9 DEF StartExecution, Go
<1>10. ASSUME NEW retryable, AttemptFailed(t, retryable)
       PROVE  pc'[t] \in {"lookup", "record_failure"}
  BY <1>1, <1>10 DEF AttemptFailed, Go
<1>11. Return(t) => pc'[t] = "idle" BY <1>1 DEF Return
<1>12. CASE AppendHumanDecision(t) BY <1>2, <1>9, <1>11, <1>12 DEF AppendHumanDecision
<1>13. CASE GetForExecution(t) BY <1>2, <1>9, <1>11, <1>13 DEF GetForExecution
<1>14. CASE FindExistingOrder(t) \/ CreateOrder(t)
  <2>1. \A c : Go(t, "mark_executed", c) => pc'[t] = "mark_executed" BY <1>1 DEF Go
  <2>2. \A c : Go(t, "create", c) => pc'[t] = "create" BY <1>1 DEF Go
  <2>3. pc'[t] \in {"mark_executed", "create", "lookup", "record_failure"}
    BY <1>10, <1>14, <2>1, <2>2 DEF FindExistingOrder, CreateOrder
  <2> QED BY <1>2, <2>3
<1>15. CASE MarkExecuted(t) BY <1>1, <1>2, <1>11, <1>15 DEF MarkExecuted, Go
<1>16. CASE Enqueue(t) \/ RecordExecutionFailure(t) \/ Surface(t) \/ Raise(t)
  BY <1>2, <1>11, <1>16 DEF Enqueue, RecordExecutionFailure, Surface, Raise
<1> QED
  BY <1>3, <1>4, <1>5, <1>6, <1>7, <1>8, <1>12, <1>13, <1>14, <1>15, <1>16 DEF Step

-----------------------------------------------------------------------------
(* The invariant is inductive *)

\* What is decided of a row stays decided, and a row stays about its mandate.
LEMMA RowsKeep ==
    ASSUME Typing, [Next]_vars, NEW r \in Requests
    PROVE  /\ Approved(r) => Approved(r)'
           /\ Status(r) = "denied" => Status(r)' = "denied"
           /\ Status(r) # "absent" => Status(r)' # "absent" /\ rows'[r].mandate = rows[r].mandate
<1>1. rows[r] \in Row BY DEF Typing, TypeOK
<1> QED BY <1>1, RowSteps DEF RowStep, Row, Statuses, Approved, Status

\* The log of a mandate, under whatever is appended to it.
LEMMA MandateStep ==
    ASSUME Typing, LedgerInv, [Next]_vars, NEW m \in Mandates
    PROVE  MandateInv(m)'
<1> DEFINE n == Len(trail[m])
<1>1. trail[m] \in Seq(Entry) /\ n \in Nat /\ DOMAIN trail[m] = 1..n BY DEF Typing, TypeOK
<1>2. MandateInv(m) BY DEF LedgerInv
<1>3. Reserved(m)' => m \in spent'
  <2>1. ASSUME NEW t \in Threads, Claims(t), call[t].mandate = m PROVE m \in spent
    BY <2>1 DEF LedgerInv, ThreadInv
  <2> QED BY <1>2, <2>1, ReservedStep, SpentStays DEF MandateInv
\* An answer already in the log stays what it was.
<1>4. ASSUME NEW i \in 1..n, Human(trail[m][i])
      PROVE  \E r \in Requests :
             /\ trail[m][i].request = r /\ Decided(r)
             /\ rows'[r].mandate = m
             /\ trail[m][i].outcome \in {"ALLOW", "DENY"}
             /\ \E j \in 1..(i-1) : trail[m][j] = Flag
             /\ \A j \in 1..n : trail[m][j].request = r => j = i
             /\ trail[m][i].outcome = "ALLOW" => Approved(r)'
             /\ trail[m][i].outcome = "DENY" => Status(r)' = "denied"
  <2>1. PICK r \in Requests : r = trail[m][i].request
    <3>1. trail[m][i] \in Entry BY <1>1
    <3> QED BY <1>4, <3>1 DEF Entry, Human
  <2>2. EntryInv(m, i) BY <1>1, <1>2 DEF MandateInv
  <2>3. rows[r].mandate = m /\ Status(r) # "absent"
    BY <1>4, <2>1, <2>2, ServiceAssumption DEF EntryInv, LedgerInv, RowInv
  <2>4. Decided(r) BY <1>1, <2>1 DEF Decided
  <2>5. /\ Approved(r) => Approved(r)'
        /\ Status(r) = "denied" => Status(r)' = "denied"
        /\ rows'[r].mandate = rows[r].mandate
    BY <2>3, RowsKeep
  <2> QED BY <1>1, <1>4, <2>1, <2>2, <2>3, <2>4, <2>5 DEF EntryInv
<1>5. ASSUME NEW i \in 1..n,
             \A j \in 1..n : trail'[m][j] = trail[m][j],
             \A j \in DOMAIN trail'[m] : j \in 1..n \/ trail'[m][j].request # trail[m][i].request
      PROVE  EntryInv(m, i)'
  <2>1. CASE ~Human(trail[m][i]) BY <1>5, <2>1 DEF EntryInv, Human
  <2>2. CASE Human(trail[m][i])
    <3>1. PICK r \in Requests :
             /\ trail[m][i].request = r /\ Decided(r)
             /\ rows'[r].mandate = m
             /\ trail[m][i].outcome \in {"ALLOW", "DENY"}
             /\ \E j \in 1..(i-1) : trail[m][j] = Flag
             /\ \A j \in 1..n : trail[m][j].request = r => j = i
             /\ trail[m][i].outcome = "ALLOW" => Approved(r)'
             /\ trail[m][i].outcome = "DENY" => Status(r)' = "denied"
      BY <1>4, <2>2
    <3>2. PICK j \in 1..(i-1) : trail[m][j] = Flag BY <3>1
    <3>3. j \in 1..n /\ trail'[m][j] = Flag BY <1>1, <1>5, <3>2
    <3>4. \A k \in DOMAIN trail'[m] : trail'[m][k].request = r => k = i BY <1>5, <3>1
    <3> QED BY <1>5, <3>1, <3>2, <3>3, <3>4 DEF EntryInv, Approved, Status
  <2> QED BY <2>1, <2>2
<1>6. CASE trail'[m] = trail[m]
  <2>1. ASSUME NEW i \in DOMAIN trail'[m] PROVE EntryInv(m, i)'
    BY <1>1, <1>6, <1>5
  <2>2. \A i, j \in DOMAIN trail'[m] : Reserves(trail'[m][i]) /\ Reserves(trail'[m][j]) => i = j
    BY <1>2, <1>6 DEF MandateInv
  <2> QED BY <1>3, <2>1, <2>2 DEF MandateInv, Reserves, Human
<1>7. CASE \E t \in Threads :
                /\ AppendDecision(t) /\ call[t].mandate = m /\ PolicyEntry(t) \in Entry
                /\ trail'[m] = Append(trail[m], PolicyEntry(t))
  <2>1. PICK t \in Threads :
                /\ AppendDecision(t) /\ call[t].mandate = m /\ PolicyEntry(t) \in Entry
                /\ trail'[m] = Append(trail[m], PolicyEntry(t))
    BY <1>7
  <2>2. /\ DOMAIN trail'[m] = 1..(n + 1) /\ trail'[m][n + 1] = PolicyEntry(t)
        /\ \A i \in 1..n : trail'[m][i] = trail[m][i]
        /\ \A i \in 1..(n + 1) : i \in 1..n \/ i = n + 1
    BY <1>1, <2>1, Appending
  <2>3. ~Human(PolicyEntry(t)) /\ \A r \in Requests : PolicyEntry(t).request # r
    BY ServiceAssumption DEF Human, PolicyEntry
  <2>4. ASSUME NEW i \in 1..(n + 1) PROVE EntryInv(m, i)'
    <3>1. CASE i = n + 1 BY <2>2, <2>3, <3>1 DEF EntryInv, Human
    <3>2. CASE i \in 1..n
      <4>1. CASE Human(trail[m][i])
        <5>1. trail[m][i].request # None BY <4>1 DEF Human
        <5> QED BY <1>5, <2>2, <3>2, <5>1 DEF PolicyEntry
      <4>2. CASE ~Human(trail[m][i]) BY <2>2, <3>2, <4>2 DEF EntryInv, Human
      <4> QED BY <4>1, <4>2
    <3> QED BY <2>2, <3>1, <3>2
  <2>5. ASSUME Reserves(PolicyEntry(t)) PROVE ~Reserved(m)
    <3>1. Claims(t) BY <2>1, <2>5 DEF Reserves, PolicyEntry, Claims, AppendDecision
    <3> QED BY <2>1, <3>1 DEF LedgerInv, ThreadInv
  <2>6. \A i, j \in 1..(n + 1) : Reserves(trail'[m][i]) /\ Reserves(trail'[m][j]) => i = j
    BY <1>1, <1>2, <2>2, <2>5 DEF MandateInv, Reserved
  <2> QED BY <1>3, <2>2, <2>4, <2>6 DEF MandateInv, Reserves, Human
<1>8. CASE \E t \in Threads :
                /\ AppendHumanDecision(t) /\ call[t].mandate = m
                /\ HumanEntry(t) \in Entry /\ call[t].request \in Requests
                /\ trail'[m] = Append(trail[m], HumanEntry(t))
  <2>1. PICK t \in Threads :
                /\ AppendHumanDecision(t) /\ call[t].mandate = m
                /\ HumanEntry(t) \in Entry /\ call[t].request \in Requests
                /\ trail'[m] = Append(trail[m], HumanEntry(t))
    BY <1>8
  <2>2. PICK q \in Requests : q = call[t].request BY <2>1
  <2>3. /\ DOMAIN trail'[m] = 1..(n + 1) /\ trail'[m][n + 1] = HumanEntry(t)
        /\ \A i \in 1..n : trail'[m][i] = trail[m][i]
        /\ \A i \in 1..(n + 1) : i \in 1..n \/ i = n + 1
    BY <1>1, <2>1, Appending
  <2>4. HumanEntry(t).request = q /\ HumanEntry(t).outcome = call[t].outcome /\ ~Reserves(HumanEntry(t))
    BY <2>2, ServiceAssumption DEF HumanEntry, Reserves, Human
  <2>5. /\ call[t].outcome \in {"ALLOW", "DENY"} /\ Status(q) # "absent" /\ rows[q].mandate = m
        /\ IF call[t].outcome = "ALLOW" THEN Approved(q) ELSE Status(q) = "denied"
        /\ ~Decided(q)
    <3>1. ThreadInv(t) /\ pc[t] = "append_human" BY <2>1 DEF LedgerInv, AppendHumanDecision
    <3> QED BY <2>1, <2>2, <3>1 DEF ThreadInv
  <2>6. /\ rows'[q].mandate = m
        /\ call[t].outcome = "ALLOW" => Approved(q)'
        /\ call[t].outcome = "DENY" => Status(q)' = "denied"
    BY <2>5, RowsKeep
  <2>7. \A j \in 1..n : trail[m][j].request # q BY <1>1, <2>5 DEF Decided
  <2>8. \E j \in 1..n : trail[m][j] = Flag
    BY <1>1, <2>5 DEF LedgerInv, RowInv, Flagged
  <2>9. ASSUME NEW i \in 1..(n + 1) PROVE EntryInv(m, i)'
    <3>1. CASE i = n + 1
      <4>1. n + 1 - 1 = n BY <1>1
      <4> QED BY <2>3, <2>4, <2>5, <2>6, <2>7, <2>8, <3>1, <4>1 DEF EntryInv, Human, Approved, Status
    <3>2. CASE i \in 1..n
      <4>1. trail[m][i].request # q BY <2>7, <3>2
      <4> QED BY <1>5, <2>3, <2>4, <3>2, <4>1
    <3> QED BY <2>3, <3>1, <3>2
  <2>10. \A i, j \in 1..(n + 1) : Reserves(trail'[m][i]) /\ Reserves(trail'[m][j]) => i = j
    BY <1>1, <1>2, <2>3, <2>4 DEF MandateInv
  <2> QED BY <1>3, <2>3, <2>9, <2>10 DEF MandateInv, Reserves, Human
<1> QED BY <1>6, <1>7, <1>8, TrailStep

\* The row of a request, under whatever is inserted or updated.
LEMMA RowInvStep ==
    ASSUME Typing, LedgerInv, [Next]_vars, NEW r \in Requests
    PROVE  RowInv(r)'
<1>1. \A q \in Requests : RowInv(q) BY DEF LedgerInv
<1>2. \A q \in Requests : Status(q) # "absent" => rows[q].mandate \in Mandates
  BY DEF Typing, RowsAreFilled
<1>3. CASE \A q \in Requests : rows'[q].mandate = rows[q].mandate
                               /\ (Status(q)' = "absent" <=> Status(q) = "absent")
  <2>1. Status(r) # "absent" => Flagged(rows[r].mandate)'
    <3>1. ASSUME NEW m \in Mandates, m = rows[r].mandate, Flagged(m) PROVE Flagged(rows[r].mandate)'
      BY <1>3, <3>1, FlaggedStays DEF Flagged
    <3> QED BY <1>1, <1>2, <3>1 DEF RowInv
  <2> QED BY <1>1, <1>3, <2>1 DEF RowInv, Status
<1>4. CASE \E t \in Threads, q \in Requests :
                /\ Enqueue(t) /\ Status(q) = "absent"
                /\ rows'[q].mandate = call[t].mandate /\ rows'[q].status = "pending"
                /\ \A s \in Requests \ {q} : rows'[s] = rows[s]
  <2>1. PICK t \in Threads, q \in Requests :
                /\ Enqueue(t) /\ Status(q) = "absent"
                /\ rows'[q].mandate = call[t].mandate /\ rows'[q].status = "pending"
                /\ \A s \in Requests \ {q} : rows'[s] = rows[s]
    BY <1>4
  <2>2. PICK m \in Mandates : m = call[t].mandate
    BY <2>1 DEF Typing, CallTargets, Enqueue, OnMandate
  <2>3. Flagged(m) /\ ~Filed(m)
    BY <2>1, <2>2 DEF LedgerInv, ThreadInv, Enqueue
  <2>4. Flagged(m)' BY <2>3, FlaggedStays
  <2>5. CASE r = q
    <3>1. \A s \in Requests : rows'[s].mandate = m => s = q BY <2>1, <2>3 DEF Filed
    <3>2. rows'[r].mandate = m /\ rows'[r].status # "absent" BY <2>1, <2>2, <2>5
    <3>3. Flagged(rows[r].mandate)' BY <2>4, <3>2 DEF Flagged
    <3> QED BY <2>5, <3>1, <3>2, <3>3 DEF RowInv, Status
  <2>6. CASE r # q
    <3>1. rows'[r] = rows[r] BY <2>1, <2>6
    <3>2. CASE Status(r) = "absent" BY <1>1, <3>1, <3>2 DEF RowInv, Status
    <3>3. CASE Status(r) # "absent"
      <4>1. PICK k \in Mandates : k = rows[r].mandate BY <1>2, <3>3
      <4>2. Flagged(k)' BY <1>1, <3>3, <4>1, FlaggedStays DEF RowInv
      <4>3. Flagged(rows[r].mandate)' BY <3>1, <4>1, <4>2 DEF Flagged
      <4>4. k # m BY <2>3, <4>1 DEF Filed
      <4>5. \A s \in Requests : rows'[s].mandate = k => s = r
        BY <1>1, <2>1, <2>2, <3>3, <4>1, <4>4 DEF RowInv
      <4> QED BY <3>1, <3>3, <4>1, <4>3, <4>5 DEF RowInv, Status
    <3> QED BY <3>2, <3>3
  <2> QED BY <2>5, <2>6
<1> QED BY <1>3, <1>4, FilingStep

\* What the stores give a call that did not move, whatever the others did.
LEMMA ThreadKeeps ==
    ASSUME Typing, LedgerInv, [Next]_vars, NEW t \in Threads,
           pc'[t] = pc[t], call'[t] = call[t]
    PROVE  ThreadInv(t)'
<1>1. ThreadInv(t) /\ \A u \in Threads : u # t => Apart(t, u) BY DEF LedgerInv
<1>2. /\ pc \in [Threads -> Steps] /\ call \in [Threads -> Call]
      /\ pc[t] \in OnMandate => call[t].mandate \in Mandates
      /\ pc[t] \in OnRequest => call[t].request \in Requests
  BY DEF Typing, TypeOK, CallTargets
<1>3. Claims(t)' => call'[t].mandate \in spent' /\ ~Reserved(call[t].mandate)'
  <2> SUFFICES ASSUME Claims(t) PROVE call'[t].mandate \in spent' /\ ~Reserved(call[t].mandate)'
    BY DEF Claims
  <2>1. PICK m \in Mandates : m = call[t].mandate BY <1>2 DEF Claims, OnMandate
  <2>2. m \in spent /\ ~Reserved(m) BY <1>1, <2>1 DEF ThreadInv
  <2>3. ASSUME NEW u \in Threads, AppendDecision(u), Claims(u), call[u].mandate = m
        PROVE  FALSE
    <3>1. CASE u = t
      <4>1. pc'[t] # "append" BY <1>2, <2>3, <3>1 DEF AppendDecision, Go, Return
      <4> QED BY <4>1 DEF Claims
    <3>2. CASE u # t BY <1>1, <2>1, <2>3, <3>2 DEF Apart
    <3> QED BY <3>1, <3>2
  <2>4. ~Reserved(m)' BY <2>2, <2>3, ReservedStep
  <2>5. ~Reserved(call[t].mandate)' BY <2>1, <2>4 DEF Reserved, Reserves, Human
  <2> QED BY <2>1, <2>2, <2>5, SpentStays
<1>4. pc[t] = "enqueue" => Flagged(call[t].mandate)' /\ ~Filed(call[t].mandate)'
  <2> SUFFICES ASSUME pc[t] = "enqueue" PROVE Flagged(call[t].mandate)' /\ ~Filed(call[t].mandate)'
    OBVIOUS
  <2>1. PICK m \in Mandates : m = call[t].mandate BY <1>2 DEF OnMandate
  <2>2. Flagged(m)' BY <1>1, <2>1, FlaggedStays DEF ThreadInv
  <2>3. ~Filed(m) BY <1>1, <2>1 DEF ThreadInv
  <2>4. ASSUME NEW u \in Threads, Enqueue(u), call[u].mandate = m PROVE FALSE
    <3>1. CASE u = t
      <4>1. pc'[t] = "idle" BY <1>2, <2>4, <3>1 DEF Enqueue, Return
      <4> QED BY <4>1
    <3>2. CASE u # t BY <1>1, <2>1, <2>4, <3>2 DEF Apart, Enqueue
    <3> QED BY <3>1, <3>2
  <2>5. ~\E r \in Requests : rows'[r].mandate = m BY <2>3, <2>4, FilingStep DEF Filed
  <2> QED BY <2>1, <2>2, <2>5 DEF Flagged, Filed
<1>5. pc[t] \in {"resolve", "append_human"} =>
        Status(call[t].request)' # "absent" /\ rows'[call[t].request].mandate = call[t].mandate
  <2> SUFFICES ASSUME pc[t] \in {"resolve", "append_human"}
               PROVE  Status(call[t].request)' # "absent" /\ rows'[call[t].request].mandate = call[t].mandate
    OBVIOUS
  <2>1. PICK r \in Requests : r = call[t].request BY <1>2 DEF OnRequest
  <2>2. Status(r) # "absent" /\ rows[r].mandate = call[t].mandate BY <1>1, <2>1 DEF ThreadInv
  <2> QED BY <2>1, <2>2, RowsKeep DEF Status
<1>6. pc[t] = "append_human" =>
        /\ IF call[t].outcome = "ALLOW" THEN Approved(call[t].request)' ELSE Status(call[t].request)' = "denied"
        /\ ~Decided(call[t].request)'
  <2> SUFFICES ASSUME pc[t] = "append_human"
               PROVE  /\ IF call[t].outcome = "ALLOW" THEN Approved(call[t].request)'
                         ELSE Status(call[t].request)' = "denied"
                      /\ ~Decided(call[t].request)'
    OBVIOUS
  <2>1. PICK r \in Requests : r = call[t].request BY <1>2 DEF OnRequest
  <2>2. /\ IF call[t].outcome = "ALLOW" THEN Approved(r) ELSE Status(r) = "denied"
        /\ ~Decided(r)
    BY <1>1, <2>1 DEF ThreadInv
  <2>3. ASSUME NEW u \in Threads, AppendHumanDecision(u), call[u].request = r PROVE FALSE
    <3>1. CASE u = t
      <4>1. pc'[t] # "append_human"
        BY <1>2, <2>3, <3>1 DEF AppendHumanDecision, StartExecution, Go, Return
      <4> QED BY <4>1
    <3>2. CASE u # t BY <1>1, <2>1, <2>3, <3>2 DEF Apart, AppendHumanDecision
    <3> QED BY <3>1, <3>2
  <2>4. ~Decided(r)' BY <2>2, <2>3, DecidedStep
  <2>5. IF call[t].outcome = "ALLOW" THEN Approved(r)' ELSE Status(r)' = "denied" BY <2>2, RowsKeep
  <2> QED BY <2>1, <2>4, <2>5 DEF Decided, Approved, Status
<1>7. pc[t] \in {"get", "resolve", "append_human"} => call[t].outcome \in {"ALLOW", "DENY"}
  BY <1>1 DEF ThreadInv
<1> QED BY <1>3, <1>4, <1>5, <1>6, <1>7
  DEF ThreadInv, Claims, Reserved, Reserves, Human, Flagged, Filed, Approved, Status, Decided

\* What a call that moved finds where it arrives.
LEMMA ThreadMoves ==
    ASSUME Typing, LedgerInv, [Next]_vars, NEW t \in Threads, Start(t) \/ Step(t) \/ Raise(t)
    PROVE  ThreadInv(t)'
<1>1. ThreadInv(t) BY DEF LedgerInv
<1>2. /\ pc \in [Threads -> Steps] /\ call \in [Threads -> Call]
      /\ rows \in [Requests -> Row] /\ trail \in [Mandates -> Seq(Entry)]
      /\ pc[t] \in OnMandate => call[t].mandate \in Mandates
      /\ pc[t] \in OnRequest => call[t].request \in Requests
  BY DEF Typing, TypeOK, CallTargets
<1>3. Arrived(t) BY Arrivals
<1>4. ASSUME Claims(t)' PROVE call'[t].mandate \in spent' /\ ~Reserved(call[t].mandate)'
  <2>1. Claim(t) /\ call[t].mandate \notin spent /\ call'[t].mandate = call[t].mandate
    BY <1>3, <1>4 DEF Arrived
  <2>2. PICK m \in Mandates : m = call[t].mandate BY <1>2, <2>1 DEF Claim, OnMandate
  <2>3. ~Reserved(m) BY <2>1, <2>2 DEF LedgerInv, MandateInv
  <2>4. spent' = spent \cup {m} /\ trail' = trail BY <2>1, <2>2 DEF Claim
  <2>5. ~\E i \in DOMAIN trail'[m] : Reserves(trail'[m][i]) BY <2>3, <2>4 DEF Reserved
  <2> QED BY <2>1, <2>2, <2>4, <2>5 DEF Reserved, Reserves, Human
<1>5. ASSUME pc'[t] = "enqueue" PROVE Flagged(call[t].mandate)' /\ ~Filed(call[t].mandate)'
  <2>1. AppendDecision(t) /\ call[t].outcome = "NEEDS_HUMAN" /\ call'[t] = call[t]
    BY <1>3, <1>5 DEF Arrived
  <2>2. PICK m \in Mandates : m = call[t].mandate BY <1>2, <2>1 DEF AppendDecision, OnMandate
  <2>3. trail'[m] = Append(trail[m], Flag) /\ rows' = rows
    BY <1>2, <2>1, <2>2 DEF AppendDecision, LogEntry, Flag
  <2>4. \E i \in DOMAIN trail'[m] : trail'[m][i] = Flag
    <3>1. Flag \in Entry BY DEF Flag, Entry, Outcomes
    <3> QED BY <1>2, <2>3, <3>1, Appending
  <2>5. ~Reserved(m) BY <1>1, <2>1, <2>2 DEF ThreadInv, Claims, AppendDecision
  <2>6. ASSUME NEW r \in Requests PROVE rows[r].mandate # m
    <3> SUFFICES ASSUME rows[r].mandate = m PROVE FALSE OBVIOUS
    <3>1. RowInv(r) BY DEF LedgerInv
    <3>2. Flagged(m) BY <3>1, ServiceAssumption DEF RowInv
    <3> QED BY <2>5, <3>2 DEF Flagged, Reserved, Reserves, Human, Flag
  <2> QED BY <2>1, <2>2, <2>3, <2>4, <2>6 DEF Flagged, Filed
<1>6. ASSUME pc'[t] = "resolve"
      PROVE  /\ call'[t].outcome \in {"ALLOW", "DENY"}
             /\ Status(call[t].request)' # "absent" /\ rows'[call'[t].request].mandate = call'[t].mandate
  <2>1. /\ GetForResolve(t) /\ Status(call[t].request) = "pending"
        /\ call'[t].request = call[t].request /\ call'[t].outcome = call[t].outcome
        /\ call'[t].mandate = rows[call[t].request].mandate
    BY <1>3, <1>6 DEF Arrived
  <2>2. rows' = rows /\ pc[t] = "get" BY <2>1 DEF GetForResolve, stores
  <2> QED BY <1>1, <2>1, <2>2 DEF ThreadInv, Status
<1>7. ASSUME pc'[t] = "append_human"
      PROVE  /\ call'[t].outcome \in {"ALLOW", "DENY"}
             /\ Status(call[t].request)' # "absent" /\ rows'[call'[t].request].mandate = call'[t].mandate
             /\ IF call'[t].outcome = "ALLOW" THEN Approved(call[t].request)'
                ELSE Status(call[t].request)' = "denied"
             /\ ~Decided(call[t].request)'
  <2>1. Resolve(t) /\ Status(call[t].request) = "pending" /\ call'[t] = call[t]
    BY <1>3, <1>7 DEF Arrived
  <2>2. PICK r \in Requests : r = call[t].request BY <1>2, <2>1 DEF Resolve, OnRequest
  <2>3. /\ call[t].outcome \in {"ALLOW", "DENY"} /\ rows[r].mandate = call[t].mandate
    BY <1>1, <2>1, <2>2 DEF ThreadInv, Resolve
  <2>4. /\ rows'[r].status = IF call[t].outcome = "ALLOW" THEN "approved_pending_execution" ELSE "denied"
        /\ rows'[r].mandate = rows[r].mandate /\ trail' = trail
    <3> DEFINE to == IF call[t].outcome = "ALLOW" THEN "approved_pending_execution" ELSE "denied"
    <3>1. rows' = [rows EXCEPT ![r] = [rows[r] EXCEPT !.status = to]] /\ trail' = trail
      BY <2>1, <2>2 DEF Resolve
    <3>2. rows'[r] = [rows[r] EXCEPT !.status = to] /\ rows[r] \in Row BY <1>2, <3>1
    <3>3. rows'[r].status = to /\ rows'[r].mandate = rows[r].mandate BY <3>2 DEF Row
    <3> QED BY <3>1, <3>3
  <2>5. ~Decided(r)
    <3> SUFFICES ASSUME NEW m \in Mandates, NEW i \in DOMAIN trail[m], trail[m][i].request = r
                 PROVE  FALSE
      BY DEF Decided
    <3>1. EntryInv(m, i) BY DEF LedgerInv, MandateInv
    <3>2. Human(trail[m][i]) BY ServiceAssumption DEF Human
    <3> QED BY <2>1, <2>2, <3>1, <3>2 DEF EntryInv, Approved
  <2> QED BY <2>1, <2>2, <2>3, <2>4, <2>5 DEF Decided, Approved, Status
<1>8. pc'[t] = "get" => call'[t].outcome \in {"ALLOW", "DENY"} BY <1>3 DEF Arrived
<1> QED BY <1>4, <1>5, <1>6, <1>7, <1>8
  DEF ThreadInv, Claims, Reserved, Reserves, Human, Flagged, Filed, Approved, Status, Decided

\* A call that arrives where another stands would have found its claim taken, its
\* flag in the log, or its row decided.
LEMMA ApartMoves ==
    ASSUME Typing, LedgerInv, NEW t \in Threads, Start(t) \/ Step(t) \/ Raise(t),
           NEW u \in Threads, u # t
    PROVE  Apart(t, u)' /\ Apart(u, t)'
<1>1. pc'[u] = pc[u] /\ call'[u] = call[u] BY ActsAlone
<1>2. Arrived(t) BY Arrivals
<1>3. ThreadInv(t) /\ ThreadInv(u) BY DEF LedgerInv
<1>4. ~(Claims(t)' /\ Claims(u) /\ call'[t].mandate = call[u].mandate)
  BY <1>2, <1>3 DEF Arrived, ThreadInv
<1>5. ~(pc'[t] = "enqueue" /\ pc[u] = "enqueue" /\ call'[t].mandate = call[u].mandate)
  <2> SUFFICES ASSUME pc'[t] = "enqueue", pc[u] = "enqueue", call'[t].mandate = call[u].mandate
               PROVE  FALSE
    OBVIOUS
  <2>1. AppendDecision(t) /\ call[t].outcome = "NEEDS_HUMAN" /\ call'[t] = call[t]
    BY <1>2 DEF Arrived
  <2>2. ~Reserved(call[u].mandate) BY <1>3, <2>1 DEF ThreadInv, Claims, AppendDecision
  <2>3. Flagged(call[u].mandate) BY <1>3 DEF ThreadInv
  <2> QED BY <2>2, <2>3 DEF Flagged, Reserved, Reserves, Human, Flag
<1>6. ~(pc'[t] = "append_human" /\ pc[u] = "append_human" /\ call'[t].request = call[u].request)
  <2> SUFFICES ASSUME pc'[t] = "append_human", pc[u] = "append_human", call'[t].request = call[u].request
               PROVE  FALSE
    OBVIOUS
  <2>1. Status(call[u].request) = "pending" BY <1>2 DEF Arrived
  <2> QED BY <1>3, <2>1 DEF ThreadInv, Approved
<1>7. ~(Claims(t)' /\ Claims(u)' /\ call'[t].mandate = call'[u].mandate)
  BY <1>1, <1>4 DEF Claims
<1> QED BY <1>1, <1>5, <1>6, <1>7 DEF Apart, Claims

\* Two calls that did not move are apart as they were.
LEMMA ApartStep ==
    ASSUME Typing, LedgerInv, [Next]_vars, NEW t \in Threads, NEW u \in Threads, t # u
    PROVE  Apart(t, u)'
<1>1. CASE Start(t) \/ Step(t) \/ Raise(t) BY <1>1, ApartMoves
<1>2. CASE Start(u) \/ Step(u) \/ Raise(u) BY <1>2, ApartMoves
<1>3. CASE pc'[t] = "idle" \/ pc'[u] = "idle" BY <1>3 DEF Apart, Claims
<1>4. CASE pc'[t] = pc[t] /\ call'[t] = call[t] /\ pc'[u] = pc[u] /\ call'[u] = call[u]
  BY <1>4 DEF LedgerInv, Apart, Claims
<1> QED BY <1>1, <1>2, <1>3, <1>4, OneMoves

\* Nothing is claimed, logged or queued at first.
THEOREM LedgerInit == Init => LedgerInv
<1> SUFFICES ASSUME Init PROVE LedgerInv
  OBVIOUS
<1>1. ASSUME NEW m \in Mandates PROVE MandateInv(m)
  BY DEF Init, MandateInv, Reserved
<1>2. ASSUME NEW r \in Requests PROVE RowInv(r)
  BY DEF Init, RowInv, Status, NoRow
<1>3. ASSUME NEW t \in Threads PROVE ThreadInv(t)
  BY DEF Init, ThreadInv, Claims
<1>4. ASSUME NEW t \in Threads, NEW u \in Threads PROVE Apart(t, u)
  BY DEF Init, Apart, Claims
<1> QED BY <1>1, <1>2, <1>3, <1>4 DEF LedgerInv

\* Every step of every call, and every failure, keeps the ledger consistent.
THEOREM LedgerStep == Typing /\ LedgerInv /\ [Next]_vars => LedgerInv'
<1> SUFFICES ASSUME Typing, LedgerInv, [Next]_vars PROVE LedgerInv'
  OBVIOUS
<1>1. ASSUME NEW t \in Threads PROVE ThreadInv(t)'
  <2>1. CASE pc'[t] = "idle" BY <2>1 DEF ThreadInv, Claims
  <2> QED BY <2>1, OneMoves, ThreadKeeps, ThreadMoves
<1> QED BY <1>1, MandateStep, RowInvStep, ApartStep DEF LedgerInv

\* The inductive invariant of the ledger.
THEOREM LedgerInvariant == Spec => [](Typing /\ LedgerInv)
BY TypingInit, TypingStep, LedgerInit, LedgerStep, PTL DEF Spec

\* A mandate is good for one decision, however many calls race for it and
\* wherever they stop.
THEOREM MandatesAreSingleUse == Spec => []SingleUse
<1>1. Typing /\ LedgerInv => SingleUse
  BY DEF LedgerInv, MandateInv, RowInv, Flagged, SingleUse
<1> QED BY <1>1, LedgerInvariant, PTL

\* Of all the callers that resolve a request one answers it, with what was done.
THEOREM VerdictsAreOne == Spec => []OneVerdict
<1>1. LedgerInv => OneVerdict
  BY DEF LedgerInv, MandateInv, EntryInv, OneVerdict
<1> QED BY <1>1, LedgerInvariant, PTL

-----------------------------------------------------------------------------
(* One order per receipt, where the service keeps it *)

\* The calls for one receipt are serialized: no two are between their look and
\* their order at once, and no create request outlives its caller.
Serialized ==
    /\ \A r \in Requests : inflight[r] = 0
    /\ \A t, u \in Threads :
        pc[t] = "create" /\ pc[u] = "create" /\ call[t].request = call[u].request => t = u

\* An order is about to be made only where there is none.
OrderInv ==
    /\ \A r \in Requests : created[r] <= 1
    /\ \A t \in Threads : pc[t] = "create" => created[call[t].request] = 0

\* The only way to create_order is a look that found no order.
LEMMA CreateArrives ==
    ASSUME Typing, NEW t \in Threads, Start(t) \/ Step(t) \/ Raise(t), pc'[t] = "create"
    PROVE  created[call[t].request] = 0 /\ call'[t] = call[t] /\ UNCHANGED created
<1>1. pc \in [Threads -> Steps] /\ call \in [Threads -> Call] BY DEF Typing, TypeOK
<1>2. ASSUME NEW step, NEW c, Go(t, step, c) PROVE pc'[t] = step /\ call'[t] = c
  BY <1>1, <1>2 DEF Go
<1>3. ~Return(t) BY <1>1 DEF Return
<1>4. ASSUME NEW c PROVE ~StartExecution(t, c)
  BY <1>2 DEF StartExecution
<1>5. ASSUME NEW retryable PROVE ~AttemptFailed(t, retryable)
  BY <1>2 DEF AttemptFailed
<1>6. ~Start(t)
  BY <1>1 DEF Start, Authorize, ResolveApproval, ExecuteApproval, Begin
<1>7. ~Raise(t) /\ ~Surface(t) /\ ~RecordExecutionFailure(t) /\ ~Enqueue(t)
  BY <1>3 DEF Raise, Surface, RecordExecutionFailure, Enqueue
<1>8. ~Evaluate(t) /\ ~Claim(t) /\ ~AppendDecision(t)
  <2>1. ~Evaluate(t)
    <3> SUFFICES ASSUME NEW o \in Outcomes,
                        Go(t, IF o = "DENY" THEN "append" ELSE "claim", [call[t] EXCEPT !.outcome = o])
                 PROVE  FALSE
      BY DEF Evaluate
    <3>1. pc'[t] = IF o = "DENY" THEN "append" ELSE "claim" BY <1>1 DEF Go
    <3> QED BY <3>1
  <2>2. ~Claim(t) BY <1>1 DEF Claim, Go
  <2>3. ~AppendDecision(t) BY <1>2, <1>3 DEF AppendDecision
  <2> QED BY <2>1, <2>2, <2>3
<1>9. ~GetForResolve(t) /\ ~Resolve(t) /\ ~AppendHumanDecision(t) /\ ~GetForExecution(t)
  BY <1>2, <1>3, <1>4 DEF GetForResolve, Resolve, AppendHumanDecision, GetForExecution
<1>10. ~CreateOrder(t) /\ ~MarkExecuted(t)
  <2>1. \A c : ~Go(t, "mark_executed", c) /\ ~Go(t, "mark_error", c) BY <1>2
  <2>2. ~CreateOrder(t) BY <1>5, <2>1 DEF CreateOrder
  <2>3. ~MarkExecuted(t) BY <1>3, <2>1 DEF MarkExecuted
  <2> QED BY <2>2, <2>3
<1>11. FindExistingOrder(t) BY <1>6, <1>7, <1>8, <1>9, <1>10 DEF Step
<1>12. \A k : ~Go(t, "mark_executed", [call[t] EXCEPT !.order = k]) BY <1>2
<1>13. created[call[t].request] = 0 /\ Go(t, "create", call[t])
  BY <1>5, <1>11, <1>12 DEF FindExistingOrder
<1> QED BY <1>2, <1>11, <1>13 DEF FindExistingOrder, razorpay

\* The idempotency of create_order() is worth what LIMITATIONS.md says: the look
\* before each attempt keeps one order per receipt where the calls for a receipt
\* are serialized, through any failures, lost answers, retries and crashes.
THEOREM OneOrderWhereSerialized == Spec /\ []Serialized => []OneOrderPerReceipt
<1>1. Init => OrderInv
  BY DEF Init, OrderInv
<1>2. Typing /\ OrderInv /\ Serialized /\ [Next]_vars => OrderInv'
  <2> SUFFICES ASSUME Typing, OrderInv, Serialized, [Next]_vars PROVE OrderInv'
    OBVIOUS
  <2>1. /\ created \in [Requests -> Nat] /\ inflight \in [Requests -> Nat]
        /\ pc \in [Threads -> Steps] /\ call \in [Threads -> Call]
        /\ \A t \in Threads : pc[t] \in OnRequest => call[t].request \in Requests
    BY DEF Typing, TypeOK, CallTargets
  <2>2. \A r \in Requests : inflight[r] = 0 /\ created[r] <= 1 /\ ~LateOrder(r)
    BY DEF OrderInv, Serialized, LateOrder
  <2>3. ASSUME NEW t \in Threads, CreateOrder(t)
        PROVE  /\ pc[t] = "create" /\ call[t].request \in Requests
               /\ created[call[t].request] = 0
               /\ \/ UNCHANGED created
                  \/ created' = [created EXCEPT ![call[t].request] = created[call[t].request] + 1]
    <3>1. pc[t] = "create" /\ call[t].request \in Requests
      BY <2>1, <2>3 DEF CreateOrder, OnRequest
    <3>2. PICK r \in Requests : r = call[t].request BY <3>1
    <3> QED BY <2>3, <3>1, <3>2 DEF CreateOrder, NewOrder, razorpay, OrderInv
  <2>4. UNCHANGED created \/ \E t \in Threads : CreateOrder(t)
    BY <2>2 DEF Next, vars, Start, Step, Authorize, Evaluate, Claim, AppendDecision, Enqueue,
        ResolveApproval, GetForResolve, Resolve, AppendHumanDecision, ExecuteApproval,
        GetForExecution, FindExistingOrder, RecordExecutionFailure, MarkExecuted, Surface, Raise,
        Crash, Expire, razorpay
  <2>5. ASSUME NEW r \in Requests PROVE created'[r] <= 1
    <3>1. CASE UNCHANGED created BY <2>2, <3>1
    <3>2. ASSUME NEW t \in Threads, CreateOrder(t) PROVE created'[r] <= 1
      BY <2>1, <2>2, <2>3, <3>2
    <3> QED BY <2>4, <3>1, <3>2
  <2>6. ASSUME NEW t \in Threads, pc'[t] = "create" PROVE created'[call'[t].request] = 0
    <3>1. CASE Start(t) \/ Step(t) \/ Raise(t)
      <4>1. created[call[t].request] = 0 /\ call'[t] = call[t] /\ UNCHANGED created
        BY <2>6, <3>1, CreateArrives
      <4> QED BY <4>1
    <3>2. CASE pc'[t] = pc[t] /\ call'[t] = call[t] /\ ~(Start(t) \/ Step(t) \/ Raise(t))
      <4>1. pc[t] = "create" /\ created[call[t].request] = 0 /\ call[t].request \in Requests
        BY <2>1, <2>6, <3>2 DEF OrderInv, OnRequest
      <4>2. ASSUME NEW u \in Threads, CreateOrder(u) PROVE created'[call[t].request] = 0
        <5>1. u # t BY <3>2, <4>2 DEF Step
        <5>2. pc[u] = "create" /\ call[u].request \in Requests BY <2>3, <4>2
        <5>3. call[u].request # call[t].request BY <4>1, <5>1, <5>2 DEF Serialized
        <5> QED BY <2>1, <2>3, <4>1, <4>2, <5>2, <5>3
      <4>3. created'[call[t].request] = 0 BY <2>4, <4>1, <4>2
      <4>4. PICK r : r = call[t].request /\ r = call'[t].request BY <3>2
      <4> QED BY <4>3, <4>4
    <3> QED BY <2>6, <3>1, <3>2, OneMoves
  <2> QED BY <2>5, <2>6 DEF OrderInv
<1>3. OrderInv => OneOrderPerReceipt BY DEF OrderInv, OneOrderPerReceipt
<1> QED BY <1>1, <1>2, <1>3, TypingInit, TypingStep, PTL DEF Spec
=============================================================================
