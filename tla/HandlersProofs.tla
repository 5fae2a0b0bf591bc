--------------------------- MODULE HandlersProofs ---------------------------
(***************************************************************************)
(* Theorems of Handlers: what users are told is so, for any number of      *)
(* threads in any processes, racing for the same mandates and requests.    *)
(***************************************************************************)
EXTENDS Handlers, LedgerProofs

-----------------------------------------------------------------------------
(* Which handler a call belongs to *)

InAuthorize == {"evaluate", "claim", "append", "enqueue"}
InResolve == {"get", "resolve", "append_human", "resolve_error"}

\* The human's approval of a request is in the log of its mandate.
ApprovalLogged(r) == \E i \in DOMAIN trail[rows[r].mandate] :
    trail[rows[r].mandate][i] = [outcome |-> "ALLOW", request |-> r]

\* A step belongs to its handler; the execution, which two share, was logged as
\* approved when it goes on from a resolve.
HandlerInv(t) ==
    /\ pc[t] \in InAuthorize => handler[t] = "authorize"
    /\ pc[t] \in InResolve => handler[t] = "resolve"
    /\ pc[t] = "get_execution" => handler[t] = "execute"
    /\ pc[t] \in Executing \cup {"mark_error"} => handler[t] \in {"resolve", "execute"}
    /\ pc[t] \in Executing /\ handler[t] = "resolve" =>
        call[t].outcome = "ALLOW" /\ ApprovalLogged(call[t].request)

HandlersInv == \A t \in Threads : HandlerInv(t)

\* How a call goes from one step to the next.
Moved(t) ==
    \/ pc'[t] = "idle"
    \/ pc[t] \in InAuthorize /\ pc'[t] \in {"claim", "append", "enqueue"}
    \/ pc[t] \in {"get", "resolve"} /\ pc'[t] \in {"resolve", "append_human", "resolve_error"}
    \/ /\ AppendHumanDecision(t) /\ call[t].outcome = "ALLOW" /\ pc'[t] \in Executing
       /\ call'[t].request = call[t].request /\ call'[t].outcome = "ALLOW"
    \/ pc[t] = "get_execution" /\ pc'[t] \in Executing
    \/ /\ pc[t] \in Executing /\ pc'[t] \in Executing \cup {"mark_error"}
       /\ call'[t].request = call[t].request /\ call'[t].outcome = call[t].outcome

\* Every step of a call is such a move.
LEMMA Moves ==
    ASSUME Typing, NEW t \in Threads, Step(t)
    PROVE  Moved(t)
<1>1. pc \in [Threads -> Steps] /\ call \in [Threads -> Call] /\ call[t] \in Call
  BY DEF Typing, TypeOK
<1>2. Return(t) => pc'[t] = "idle" BY <1>1 DEF Return
<1>3. ASSUME NEW step, NEW c, Go(t, step, c) PROVE pc'[t] = step /\ call'[t] = c
  BY <1>1, <1>3 DEF Go
<1>4. \A n : /\ [call[t] EXCEPT !.attempt = n].request = call[t].request
             /\ [call[t] EXCEPT !.attempt = n].outcome = call[t].outcome
             /\ [call[t] EXCEPT !.order = n].request = call[t].request
             /\ [call[t] EXCEPT !.order = n].outcome = call[t].outcome
  BY <1>1 DEF Call
<1>5. ASSUME NEW c, StartExecution(t, c)
      PROVE  pc'[t] \in Executing /\ (call'[t] = c \/ call'[t] = [c EXCEPT !.attempt = 1])
  <2>1. CASE Go(t, "lookup", [c EXCEPT !.attempt = 1]) BY <1>3, <2>1 DEF Executing
  <2>2. CASE Go(t, "record_failure", c) BY <1>3, <2>2 DEF Executing
  <2> QED BY <1>5, <2>1, <2>2 DEF StartExecution
<1>6. ASSUME NEW retryable, AttemptFailed(t, retryable)
      PROVE  /\ pc'[t] \in Executing
             /\ call'[t].request = call[t].request /\ call'[t].outcome = call[t].outcome
  <2>1. CASE Go(t, "record_failure", call[t]) BY <1>3, <2>1 DEF Executing
  <2>2. CASE Go(t, "lookup", [call[t] EXCEPT !.attempt = call[t].attempt + 1])
    <3>1. PICK n : n = call[t].attempt + 1 OBVIOUS
    <3>2. pc'[t] = "lookup" /\ call'[t] = [call[t] EXCEPT !.attempt = n] BY <1>3, <2>2, <3>1
    <3>3. call'[t].request = call[t].request /\ call'[t].outcome = call[t].outcome BY <1>4, <3>2
    <3> QED BY <3>2, <3>3 DEF Executing
  <2> QED BY <1>6, <2>1, <2>2 DEF AttemptFailed
<1>7. CASE Evaluate(t)
  <2>1. PICK o \in Outcomes :
          Go(t, IF o = "DENY" THEN "append" ELSE "claim", [call[t] EXCEPT !.outcome = o])
    BY <1>7 DEF Evaluate
  <2>2. pc'[t] = IF o = "DENY" THEN "append" ELSE "claim" BY <1>3, <2>1
  <2> QED BY <1>7, <2>2 DEF Moved, Evaluate, InAuthorize
<1>8. CASE Claim(t)
  <2>1. pc'[t] = "append" BY <1>1, <1>8 DEF Claim, Go
  <2> QED BY <1>8, <2>1 DEF Moved, Claim, InAuthorize
<1>9. CASE AppendDecision(t)
  BY <1>2, <1>3, <1>9 DEF Moved, AppendDecision, InAuthorize
<1>10. CASE Enqueue(t) \/ RecordExecutionFailure(t) \/ Surface(t)
  BY <1>2, <1>10 DEF Moved, Enqueue, RecordExecutionFailure, Surface
<1>11. CASE GetForResolve(t)
  BY <1>2, <1>3, <1>11 DEF Moved, GetForResolve
<1>12. CASE Resolve(t)
  <2>1. \A c : Go(t, "append_human", c) => pc'[t] = "append_human" BY <1>3
  <2>2. \A c : Go(t, "resolve_error", c) => pc'[t] = "resolve_error" BY <1>3
  <2>3. pc[t] = "resolve" /\ pc'[t] \in {"append_human", "resolve_error"}
    BY <1>12, <2>1, <2>2 DEF Resolve
  <2> QED BY <2>3 DEF Moved
<1>13. CASE AppendHumanDecision(t)
  <2>1. CASE call[t].outcome = "ALLOW"
    <3>1. StartExecution(t, call[t]) BY <1>13, <2>1 DEF AppendHumanDecision
    <3>2. /\ pc'[t] \in Executing
          /\ call'[t].request = call[t].request /\ call'[t].outcome = call[t].outcome
      BY <1>4, <1>5, <3>1
    <3> QED BY <1>13, <2>1, <3>2 DEF Moved
  <2>2. CASE call[t].outcome # "ALLOW"
    BY <1>2, <1>13, <2>2 DEF Moved, AppendHumanDecision
  <2> QED BY <2>1, <2>2
<1>14. CASE GetForExecution(t)
  <2>1. CASE Status(call[t].request) = "approved_pending_execution"
    <3>1. StartExecution(t, [call[t] EXCEPT !.mandate = rows[call[t].request].mandate])
      BY <1>14, <2>1 DEF GetForExecution
    <3>2. pc'[t] \in Executing BY <1>5, <3>1
    <3> QED BY <1>14, <3>2 DEF Moved, GetForExecution
  <2>2. CASE Status(call[t].request) # "approved_pending_execution"
    BY <1>2, <1>14, <2>2 DEF Moved, GetForExecution
  <2> QED BY <2>1, <2>2
<1>15. CASE FindExistingOrder(t) \/ CreateOrder(t)
  <2>1. pc[t] \in Executing BY <1>15 DEF FindExistingOrder, CreateOrder, Executing
  <2>2. ASSUME NEW k, Go(t, "mark_executed", [call[t] EXCEPT !.order = k])
        PROVE  /\ pc'[t] \in Executing
               /\ call'[t].request = call[t].request /\ call'[t].outcome = call[t].outcome
    <3>1. pc'[t] = "mark_executed" /\ call'[t] = [call[t] EXCEPT !.order = k] BY <1>3, <2>2
    <3>2. call'[t].request = call[t].request /\ call'[t].outcome = call[t].outcome BY <1>4, <3>1
    <3> QED BY <3>1, <3>2 DEF Executing
  <2>3. ASSUME Go(t, "create", call[t])
        PROVE  /\ pc'[t] \in Executing
               /\ call'[t].request = call[t].request /\ call'[t].outcome = call[t].outcome
    BY <1>3, <2>3 DEF Executing
  <2>4. /\ pc'[t] \in Executing
        /\ call'[t].request = call[t].request /\ call'[t].outcome = call[t].outcome
    BY <1>6, <1>15, <2>2, <2>3 DEF FindExistingOrder, CreateOrder
  <2> QED BY <2>1, <2>4 DEF Moved
<1>16. CASE MarkExecuted(t)
  <2>1. pc[t] \in Executing BY <1>16 DEF MarkExecuted, Executing
  <2>2. Return(t) \/ Go(t, "mark_error", call[t]) BY <1>16 DEF MarkExecuted
  <2>3. Go(t, "mark_error", call[t]) => pc'[t] = "mark_error" /\ call'[t] = call[t] BY <1>3
  <2> QED BY <1>2, <2>1, <2>2, <2>3 DEF Moved
<1> QED
  BY <1>7, <1>8, <1>9, <1>10, <1>11, <1>12, <1>13, <1>14, <1>15, <1>16 DEF Step

\* Approvals stay in the log, and requests about their mandates.
LEMMA ApprovalStays ==
    ASSUME Typing, [Next]_vars, NEW r \in Requests, Status(r) # "absent", ApprovalLogged(r)
    PROVE  ApprovalLogged(r)'
<1>1. PICK m \in Mandates : m = rows[r].mandate BY DEF Typing, RowsAreFilled
<1>2. rows'[r].mandate = m BY <1>1, RowsKeep
<1>3. trail[m] \in Seq(Entry) BY DEF Typing, TypeOK
<1>4. PICK i \in DOMAIN trail[m] : trail[m][i] = [outcome |-> "ALLOW", request |-> r]
  BY <1>1 DEF ApprovalLogged
<1>5. i \in DOMAIN trail'[m] /\ trail'[m][i] = trail[m][i]
  <2>1. \A e \in Entry : trail'[m] = Append(trail[m], e) => i \in DOMAIN trail'[m] /\ trail'[m][i] = trail[m][i]
    BY <1>3, Appending
  <2> QED BY <2>1, TrailStep
<1> QED BY <1>2, <1>4, <1>5 DEF ApprovalLogged

\* Nobody is in a handler at first.
THEOREM HandlersInvInit == HandlersInit => HandlersInv
BY DEF HandlersInit, Init, HandlersInv, HandlerInv, InAuthorize, InResolve, Executing

\* A call keeps its handler from its first step to its last.
THEOREM HandlersInvStep ==
    ExecutionInv /\ LedgerInv /\ HandlersInv /\ [HandlersNext]_handlerVars => HandlersInv'
<1> SUFFICES ASSUME ExecutionInv, LedgerInv, HandlersInv, [HandlersNext]_handlerVars, NEW t \in Threads
             PROVE  HandlerInv(t)'
  BY DEF HandlersInv
<1>1. [Next]_vars /\ Typing /\ HandlerInv(t)
  BY DEF HandlersNext, handlerVars, ExecutionInv, Typing, HandlersInv
<1>2. CASE UNCHANGED handlerVars
  <2>1. UNCHANGED <<pc, call, rows, trail, handler>> BY <1>2 DEF handlerVars, vars
  <2> QED BY <1>1, <2>1 DEF HandlerInv, ApprovalLogged
<1>3. CASE HandlersNext
  <2>1. handler'[t] = HandlerOf(t) BY <1>3 DEF HandlersNext, Handling
  <2>2. /\ pc \in [Threads -> Steps] /\ call \in [Threads -> Call]
        /\ pc[t] \in OnRequest => call[t].request \in Requests
        /\ pc[t] \in OnMandate => call[t].mandate \in Mandates
        /\ pc[t] \in Executing => Approved(call[t].request)
    BY <1>1 DEF Typing, TypeOK, CallTargets, ExecutionInv, CallsExecuteApproved
  <2>3. CASE pc'[t] = "idle"
    BY <2>3 DEF HandlerInv, InAuthorize, InResolve, Executing
  <2>4. ASSUME pc'[t] # "idle", pc[t] # "idle" PROVE handler'[t] = handler[t]
    BY <2>1, <2>4 DEF HandlerOf
  \* In a resolve, the approval of what is being executed stays in the log.
  <2>5. ASSUME pc[t] \in Executing, handler[t] = "resolve", call'[t].request = call[t].request
        PROVE  ApprovalLogged(call[t].request)'
    <3>1. PICK r \in Requests : r = call[t].request BY <2>2, <2>5 DEF OnRequest, Executing
    <3>2. ApprovalLogged(r) /\ Status(r) # "absent" BY <1>1, <2>2, <2>5, <3>1 DEF HandlerInv, Approved
    <3>3. ApprovalLogged(r)' BY <1>1, <3>2, ApprovalStays
    <3> QED BY <2>5, <3>1, <3>3 DEF ApprovalLogged
  <2>6. CASE pc'[t] = pc[t] /\ call'[t] = call[t] /\ pc'[t] # "idle"
    <3>1. handler'[t] = handler[t] BY <2>4, <2>6
    <3> QED BY <1>1, <2>5, <2>6, <3>1 DEF HandlerInv
  <2>7. CASE Start(t)
    <3>1. pc[t] = "idle" /\ pc'[t] \in {"evaluate", "get", "get_execution"}
      BY <2>2, <2>7 DEF Start, Authorize, ResolveApproval, ExecuteApproval, Begin
    <3>2. handler'[t] = CASE pc'[t] = "evaluate" -> "authorize"
                          [] pc'[t] = "get" -> "resolve"
                          [] pc'[t] = "get_execution" -> "execute"
      BY <2>1, <3>1 DEF HandlerOf
    <3> QED BY <3>1, <3>2 DEF HandlerInv, InAuthorize, InResolve, Executing
  <2>8. CASE Step(t) /\ pc'[t] # "idle"
    <3>1. pc[t] # "idle" /\ Moved(t)
      BY <1>1, <2>8, Moves DEF Step, Evaluate, Claim, AppendDecision, Enqueue, GetForResolve, Resolve,
        AppendHumanDecision, GetForExecution, FindExistingOrder, CreateOrder, RecordExecutionFailure,
        MarkExecuted, Surface
    <3>2. handler'[t] = handler[t] BY <2>4, <2>8, <3>1
    <3>3. CASE pc[t] \in InAuthorize /\ pc'[t] \in {"claim", "append", "enqueue"}
      BY <1>1, <3>2, <3>3 DEF HandlerInv, InAuthorize, InResolve, Executing
    <3>4. CASE pc[t] \in {"get", "resolve"} /\ pc'[t] \in {"resolve", "append_human", "resolve_error"}
      BY <1>1, <3>2, <3>4 DEF HandlerInv, InAuthorize, InResolve, Executing
    <3>5. CASE pc[t] = "get_execution" /\ pc'[t] \in Executing
      BY <1>1, <3>2, <3>5 DEF HandlerInv, InAuthorize, InResolve, Executing
    <3>6. CASE /\ pc[t] \in Executing /\ pc'[t] \in Executing \cup {"mark_error"}
               /\ call'[t].request = call[t].request /\ call'[t].outcome = call[t].outcome
      <4>1. handler[t] = "resolve" => call'[t].outcome = "ALLOW" /\ ApprovalLogged(call[t].request)'
        BY <1>1, <2>5, <3>6 DEF HandlerInv
      <4> QED BY <1>1, <3>2, <3>6, <4>1 DEF HandlerInv, InAuthorize, InResolve, Executing
    <3>7. CASE /\ AppendHumanDecision(t) /\ call[t].outcome = "ALLOW" /\ pc'[t] \in Executing
               /\ call'[t].request = call[t].request /\ call'[t].outcome = "ALLOW"
      <4>1. pc[t] = "append_human" /\ handler[t] = "resolve"
        BY <1>1, <3>7 DEF AppendHumanDecision, HandlerInv, InResolve
      <4>2. PICK r \in Requests : r = call[t].request BY <2>2, <4>1 DEF OnRequest
      <4>3. PICK m \in Mandates : m = call[t].mandate BY <2>2, <4>1 DEF OnMandate
      <4>4. rows[r].mandate = m BY <4>1, <4>2, <4>3 DEF LedgerInv, ThreadInv
      <4>5. rows' = rows /\ trail'[m] = Append(trail[m], HumanEntry(t))
        BY <1>1, <3>7, <4>3 DEF AppendHumanDecision, LogEntry, HumanEntry, Typing, TypeOK
      <4>6. HumanEntry(t) = [outcome |-> "ALLOW", request |-> r] /\ HumanEntry(t) \in Entry
        BY <3>7, <4>2 DEF HumanEntry, Entry, Outcomes
      <4>7. \E i \in DOMAIN trail'[m] : trail'[m][i] = HumanEntry(t)
        <5>1. trail[m] \in Seq(Entry) BY <1>1 DEF Typing, TypeOK
        <5> QED BY <4>5, <4>6, <5>1, Appending
      <4>8. ApprovalLogged(call[t].request)' BY <3>7, <4>2, <4>4, <4>5, <4>6, <4>7 DEF ApprovalLogged
      <4> QED BY <3>2, <3>7, <4>1, <4>8 DEF HandlerInv, InAuthorize, InResolve, Executing
    <3> QED BY <2>8, <3>1, <3>3, <3>4, <3>5, <3>6, <3>7 DEF Moved
  <2>9. CASE Raise(t) BY <2>2, <2>3, <2>9 DEF Raise, Return
  <2> QED BY <1>1, <2>3, <2>6, <2>7, <2>8, <2>9, OneMoves
<1> QED BY <1>2, <1>3

\* Every behaviour of the handlers is one of the service.
THEOREM HandlersImplement == HandlersSpec => Spec
<1>1. HandlersInit => Init BY DEF HandlersInit
<1>2. [HandlersNext]_handlerVars => [Next]_vars BY DEF HandlersNext, handlerVars
<1> QED BY <1>1, <1>2, PTL DEF HandlersSpec, Spec

-----------------------------------------------------------------------------
(* What users are told *)

\* How a call ends by itself.
LEMMA Endings ==
    ASSUME Typing, NEW t \in Threads, Answered(t)
    PROVE  \/ AppendDecision(t) \/ Enqueue(t)
           \/ GetForResolve(t) /\ Status(call[t].request) # "pending"
           \/ AppendHumanDecision(t) /\ call[t].outcome # "ALLOW"
           \/ GetForExecution(t) /\ Status(call[t].request) # "approved_pending_execution"
           \/ RecordExecutionFailure(t)
           \/ MarkExecuted(t) /\ Status(call[t].request) = "approved_pending_execution"
           \/ Surface(t)
<1>1. pc \in [Threads -> Steps] /\ call \in [Threads -> Call] /\ pc'[t] = "idle" /\ Step(t)
  BY DEF Typing, TypeOK, Answered
<1>2. ASSUME NEW step, NEW c, Go(t, step, c) PROVE step = "idle"
  BY <1>1, <1>2 DEF Go
<1>3. ASSUME NEW c PROVE ~StartExecution(t, c) BY <1>2 DEF StartExecution
<1>4. ASSUME NEW retryable PROVE ~AttemptFailed(t, retryable) BY <1>2 DEF AttemptFailed
<1>5. ~Evaluate(t)
  <2> SUFFICES ASSUME NEW o \in Outcomes,
                      Go(t, IF o = "DENY" THEN "append" ELSE "claim", [call[t] EXCEPT !.outcome = o])
               PROVE  FALSE
    BY DEF Evaluate
  <2>1. pc'[t] = IF o = "DENY" THEN "append" ELSE "claim" BY <1>1 DEF Go
  <2> QED BY <1>1, <2>1
<1>6. ~Claim(t) BY <1>1 DEF Claim, Go
<1>7. \A c : ~Go(t, "append_human", c) /\ ~Go(t, "resolve_error", c) /\ ~Go(t, "resolve", c)
             /\ ~Go(t, "mark_executed", c) /\ ~Go(t, "mark_error", c) /\ ~Go(t, "create", c)
  BY <1>2
<1>8. ~Resolve(t) BY <1>7 DEF Resolve
<1>9. ~FindExistingOrder(t) /\ ~CreateOrder(t)
  BY <1>4, <1>7 DEF FindExistingOrder, CreateOrder
<1>10. GetForResolve(t) => Status(call[t].request) # "pending" BY <1>7 DEF GetForResolve
<1>11. AppendHumanDecision(t) => call[t].outcome # "ALLOW" BY <1>3 DEF AppendHumanDecision
<1>12. GetForExecution(t) => Status(call[t].request) # "approved_pending_execution"
  BY <1>3 DEF GetForExecution
<1>13. MarkExecuted(t) => Status(call[t].request) = "approved_pending_execution"
  BY <1>7 DEF MarkExecuted
<1> QED BY <1>1, <1>5, <1>6, <1>8, <1>9, <1>10, <1>11, <1>12, <1>13 DEF Step

\* The end of an authorize: the decision, or a request id for a human.
LEMMA AuthorizeTrue ==
    ASSUME ExecutionInv, LedgerInv, HandlersInv, NEW t \in Threads, AppendDecision(t) \/ Enqueue(t)
    PROVE  OrderIsTrue(t) /\ VerdictIsTrue(t) /\ FlagIsTrue(t)
<1>1. handler[t] = "authorize"
  BY DEF HandlersInv, HandlerInv, InAuthorize, AppendDecision, Enqueue
<1>2. ReplyTo(t) = AuthorizeReply(t) BY <1>1 DEF ReplyTo
<1>3. ReplyTo(t).order = 0 BY <1>2 DEF AuthorizeReply, Reply
<1>4. OrderIsTrue(t) /\ VerdictIsTrue(t) BY <1>1, <1>3 DEF OrderIsTrue, VerdictIsTrue
<1>5. CASE AppendDecision(t)
  <2>1. ReplyTo(t).code # 202 BY <1>2, <1>5 DEF AuthorizeReply, Reply, AppendDecision
  <2> QED BY <1>4, <2>1 DEF FlagIsTrue
<1>6. CASE Enqueue(t)
  <2>1. rows \in [Requests -> Row] BY DEF ExecutionInv, TypeOK
  <2>2. PICK q \in Requests :
          /\ Status(q) = "absent"
          /\ rows' = [rows EXCEPT ![q] = [NoRow EXCEPT !.status = "pending", !.mandate = call[t].mandate]]
    BY <1>6 DEF Enqueue
  <2>3. rows'[q] = [NoRow EXCEPT !.status = "pending", !.mandate = call[t].mandate] BY <2>1, <2>2
  <2>4. rows'[q].status = "pending" /\ rows'[q].mandate = call[t].mandate BY <2>3 DEF NoRow
  <2>5. \A r \in Requests : Status(r) = "absent" /\ rows'[r].status = "pending" => r = q
    BY <2>1, <2>2 DEF Status
  <2>6. Enqueued = q BY <2>2, <2>4, <2>5 DEF Enqueued
  <2>7. ReplyTo(t).request = q BY <1>2, <1>6, <2>6 DEF AuthorizeReply, Reply, Enqueue
  <2>8. Flagged(call[t].mandate) /\ trail' = trail BY <1>6 DEF LedgerInv, ThreadInv, Enqueue
  <2>9. FlagIsTrue(t) BY <2>4, <2>7, <2>8 DEF FlagIsTrue, Flagged
  <2> QED BY <1>4, <2>9
<1> QED BY <1>5, <1>6

\* A refusal, or an error, reports nothing that could be untrue.
LEMMA RefusalTrue ==
    ASSUME NEW t \in Threads, handler[t] \in {"resolve", "execute"},
           ReplyTo(t).code >= 404, ReplyTo(t).order = 0, ReplyTo(t).code \in Nat
    PROVE  OrderIsTrue(t) /\ VerdictIsTrue(t) /\ FlagIsTrue(t)
<1>1. ReplyTo(t).code # 200 OBVIOUS
<1>2. ExitStatus(t) = 1 BY DEF ExitStatus
<1> QED BY <1>1, <1>2 DEF OrderIsTrue, VerdictIsTrue, FlagIsTrue

\* The end of an execution, and of a denial, with what was recorded.
LEMMA AttemptedTrue ==
    ASSUME NEW t \in Threads, handler[t] \in {"resolve", "execute"},
           ReplyTo(t) = Attempted(t),
           NEW r \in Requests, call[t].request = r, rows'[r].mandate = rows[r].mandate,
           pc[t] = "mark_executed" =>
                /\ rows'[r].status = "executed" /\ rows'[r].order = call[t].order
                /\ call[t].order <= created'[r],
           handler[t] = "resolve" =>
                /\ \E i \in DOMAIN trail'[rows[r].mandate] :
                      trail'[rows[r].mandate][i] = [outcome |-> call[t].outcome, request |-> r]
                /\ rows'[r].status \in
                      (IF call[t].outcome = "ALLOW" THEN {"approved_pending_execution", "executed"}
                       ELSE {"denied"})
    PROVE  OrderIsTrue(t) /\ VerdictIsTrue(t) /\ FlagIsTrue(t)
<1>1. /\ ReplyTo(t).request = r /\ ReplyTo(t).code = 200
      /\ ReplyTo(t).order = IF pc[t] = "mark_executed" THEN call[t].order ELSE 0
  BY DEF Attempted, Reply
<1>2. ASSUME handler[t] = "execute", ExitStatus(t) = 0 PROVE pc[t] = "mark_executed"
  BY <1>1, <1>2 DEF ExitStatus
<1>3. OrderIsTrue(t) BY <1>1, <1>2 DEF OrderIsTrue
<1>4. VerdictIsTrue(t) BY <1>1 DEF VerdictIsTrue
<1>5. FlagIsTrue(t) BY DEF FlagIsTrue
<1> QED BY <1>3, <1>4, <1>5

\* Whatever is told when a call ends is so at that moment.
LEMMA EveryAnswerTrue ==
    ASSUME ExecutionInv, LedgerInv, HandlersInv, [Next]_vars, NEW t \in Threads, Answered(t)
    PROVE  OrderIsTrue(t) /\ VerdictIsTrue(t) /\ FlagIsTrue(t)
<1>1. Typing BY DEF ExecutionInv, Typing
<1>2. HandlerInv(t) /\ ThreadInv(t) BY DEF HandlersInv, LedgerInv
<1>3. /\ rows \in [Requests -> Row] /\ created \in [Requests -> Nat]
      /\ trail \in [Mandates -> Seq(Entry)]
      /\ pc[t] \in OnRequest => call[t].request \in Requests
      /\ pc[t] \in OnMandate => call[t].mandate \in Mandates
  BY DEF ExecutionInv, TypeOK, CallTargets
<1>4. CASE AppendDecision(t) \/ Enqueue(t) BY <1>4, AuthorizeTrue
<1>5. CASE GetForResolve(t) /\ Status(call[t].request) # "pending"
  <2>1. pc[t] = "get" /\ handler[t] = "resolve"
    BY <1>2, <1>5 DEF GetForResolve, HandlerInv, InResolve
  <2>2. ReplyTo(t) = Reply(IF Status(call[t].request) = "absent" THEN 404 ELSE 409, call[t].request, 0)
    BY <2>1 DEF ReplyTo, ResolveReply
  <2>3. ReplyTo(t).code \in {404, 409} /\ ReplyTo(t).order = 0 BY <2>2 DEF Reply
  <2> QED BY <2>1, <2>3, RefusalTrue
<1>6. CASE Surface(t)
  <2>1. /\ handler[t] \in {"resolve", "execute"} /\ pc[t] \in {"resolve_error", "mark_error"}
        /\ pc[t] = "resolve_error" => handler[t] = "resolve"
    BY <1>2, <1>6 DEF Surface, HandlerInv, InResolve
  <2>2. ReplyTo(t) = Reply(500, call[t].request, 0)
    <3>1. CASE handler[t] = "resolve" BY <2>1, <3>1 DEF ReplyTo, ResolveReply
    <3>2. CASE handler[t] = "execute" BY <2>1, <3>2 DEF ReplyTo, ExecuteReply
    <3> QED BY <2>1, <3>1, <3>2
  <2>3. ReplyTo(t).code = 500 /\ ReplyTo(t).order = 0 BY <2>2 DEF Reply
  <2> QED BY <2>1, <2>3, RefusalTrue
<1>7. CASE GetForExecution(t) /\ Status(call[t].request) # "approved_pending_execution"
  <2>1. pc[t] = "get_execution" /\ handler[t] = "execute"
    BY <1>2, <1>7 DEF GetForExecution, HandlerInv
  <2>2. PICK r \in Requests : r = call[t].request BY <1>3, <2>1 DEF OnRequest
  <2>3. CASE Status(r) # "executed"
    <3>1. ReplyTo(t) = Reply(404, r, 0) \/ ReplyTo(t) = Reply(409, r, 0)
      BY <2>1, <2>2, <2>3 DEF ReplyTo, ExecuteReply
    <3>2. ReplyTo(t).code \in {404, 409} /\ ReplyTo(t).order = 0 BY <3>1 DEF Reply
    <3> QED BY <2>1, <3>2, RefusalTrue
  <2>4. CASE Status(r) = "executed"
    <3>1. ReplyTo(t) = Reply(200, r, rows[r].order)
      BY <2>1, <2>2, <2>4 DEF ReplyTo, ExecuteReply
    <3>2. ReplyTo(t).request = r /\ ReplyTo(t).order = rows[r].order BY <3>1 DEF Reply
    <3>3. rows' = rows /\ created' = created BY <1>7 DEF GetForExecution, stores, razorpay
    <3>4. rows[r].order \in Nat /\ rows[r].order <= created[r]
      BY <1>3, <2>4 DEF ExecutionInv, RecordedOrderExists
    <3> QED BY <2>1, <2>4, <3>2, <3>3, <3>4 DEF OrderIsTrue, VerdictIsTrue, FlagIsTrue, Status
  <2> QED BY <2>3, <2>4
<1>8. CASE AppendHumanDecision(t) /\ call[t].outcome # "ALLOW"
  <2>1. pc[t] = "append_human" /\ handler[t] = "resolve"
    BY <1>2, <1>8 DEF AppendHumanDecision, HandlerInv, InResolve
  <2>2. PICK r \in Requests, m \in Mandates : r = call[t].request /\ m = call[t].mandate
    BY <1>3, <2>1 DEF OnRequest, OnMandate
  <2>3. rows[r].mandate = m /\ Status(r) = "denied" BY <1>2, <1>8, <2>1, <2>2 DEF ThreadInv
  <2>4. rows' = rows /\ trail'[m] = Append(trail[m], HumanEntry(t))
    BY <1>3, <1>8, <2>2 DEF AppendHumanDecision, LogEntry, HumanEntry
  <2>5. \E i \in DOMAIN trail'[m] : trail'[m][i] = HumanEntry(t)
    <3>1. HumanEntry(t) \in Entry
      BY <1>1, <2>2 DEF Typing, TypeOK, Call, HumanEntry, Entry
    <3> QED BY <1>3, <2>4, <3>1, Appending
  <2>6. ReplyTo(t) = Attempted(t) BY <2>1 DEF ReplyTo, ResolveReply
  <2> QED BY <1>8, <2>1, <2>2, <2>3, <2>4, <2>5, <2>6, AttemptedTrue DEF HumanEntry, Status
<1>9. CASE \/ RecordExecutionFailure(t)
           \/ MarkExecuted(t) /\ Status(call[t].request) = "approved_pending_execution"
  <2>1. /\ pc[t] \in {"record_failure", "mark_executed"} /\ handler[t] \in {"resolve", "execute"}
        /\ trail' = trail /\ created' = created
    BY <1>2, <1>9 DEF RecordExecutionFailure, MarkExecuted, HandlerInv, Executing, razorpay
  <2>2. PICK r \in Requests : r = call[t].request BY <1>3, <2>1 DEF OnRequest
  <2>3. Approved(r) /\ Approved(r)' /\ rows'[r].mandate = rows[r].mandate
    <3>1. Approved(r) BY <2>1, <2>2 DEF ExecutionInv, CallsExecuteApproved, Executing
    <3> QED BY <1>1, <3>1, RowsKeep DEF Approved
  <2>4. ReplyTo(t) = Attempted(t)
    <3>1. CASE handler[t] = "resolve" BY <2>1, <3>1 DEF ReplyTo, ResolveReply
    <3>2. CASE handler[t] = "execute" BY <2>1, <3>2 DEF ReplyTo, ExecuteReply
    <3> QED BY <2>1, <3>1, <3>2
  <2>5. ASSUME pc[t] = "mark_executed"
        PROVE  /\ rows'[r].status = "executed" /\ rows'[r].order = call[t].order
               /\ call[t].order <= created'[r]
    <3>1. MarkExecuted(t) /\ Status(r) = "approved_pending_execution"
      BY <1>9, <2>2, <2>5 DEF RecordExecutionFailure
    <3>2. rows' = [rows EXCEPT ![r] = [rows[r] EXCEPT !.status = "executed", !.order = call[t].order]]
      BY <1>3, <2>2, <3>1 DEF MarkExecuted
    <3>3. rows'[r].status = "executed" /\ rows'[r].order = call[t].order
      BY <1>3, <3>2 DEF Row
    <3>4. call[t].order \in 1..created[r]
      BY <2>2, <2>5 DEF ExecutionInv, CallsExecuteApproved
    <3> QED BY <1>3, <2>1, <3>3, <3>4
  <2>6. handler[t] = "resolve" =>
            /\ call[t].outcome = "ALLOW"
            /\ \E i \in DOMAIN trail[rows[r].mandate] :
                  trail[rows[r].mandate][i] = [outcome |-> "ALLOW", request |-> r]
    BY <1>2, <2>1, <2>2 DEF HandlerInv, Executing, ApprovalLogged
  <2> QED BY <2>1, <2>2, <2>3, <2>4, <2>5, <2>6, AttemptedTrue DEF Approved, Status
<1> QED BY <1>1, <1>4, <1>5, <1>6, <1>7, <1>8, <1>9, Endings

\* What users are told - an order, a verdict, a request to wait for - is so at the
\* moment they are told, whoever else works on the same mandate and request.
THEOREM AnswersTrue == HandlersSpec => AnswersAreTrue
<1>1. HandlersSpec => [](ExecutionInv /\ LedgerInv)
  BY HandlersImplement, ExecutionInvariant, LedgerInvariant, PTL
<1>2. HandlersInit => HandlersInv BY HandlersInvInit
<1>3. ExecutionInv /\ LedgerInv /\ HandlersInv /\ [HandlersNext]_handlerVars => HandlersInv'
  BY HandlersInvStep
<1>4. ExecutionInv /\ LedgerInv /\ HandlersInv /\ [HandlersNext]_handlerVars =>
        [\A t \in Threads : Answered(t) => OrderIsTrue(t) /\ VerdictIsTrue(t) /\ FlagIsTrue(t)]_handlerVars
  <2>1. HandlersNext => [Next]_vars BY DEF HandlersNext
  <2> QED BY <2>1, EveryAnswerTrue
<1> QED BY <1>1, <1>2, <1>3, <1>4, PTL DEF HandlersSpec, AnswersAreTrue
=============================================================================
