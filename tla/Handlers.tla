------------------------------ MODULE Handlers ------------------------------
(***************************************************************************)
(* The callers of the service: the handlers of the HTTP API (api.py) and   *)
(* the commands of the CLI (cli.py), and what each tells its user when its *)
(* call of Service ends.                                                   *)
(***************************************************************************)
EXTENDS Service

VARIABLE handler  \* the handler a thread is in: "authorize", "resolve", "execute"

handlerVars == <<vars, handler>>

HandlersInit == Init /\ handler = [t \in Threads |-> "none"]

\* A call is begun by the handler it is for, and left when the call ends.
HandlerOf(t) ==
    CASE pc'[t] = "idle" -> "none"
      [] pc[t] = "idle" /\ pc'[t] = "evaluate" -> "authorize"
      [] pc[t] = "idle" /\ pc'[t] = "get" -> "resolve"
      [] pc[t] = "idle" /\ pc'[t] = "get_execution" -> "execute"
      [] OTHER -> handler[t]

Handling == handler' = [t \in Threads |-> HandlerOf(t)]

HandlersNext == Next /\ Handling

HandlersSpec == HandlersInit /\ [][HandlersNext]_handlerVars

-----------------------------------------------------------------------------
(* What the user is told *)

\* An HTTP status, the request it is about, the order reported (0: none).  An
\* exception nobody catches is a 500, and exit status 1 of a command.
Reply(code, request, order) == [code |-> code, request |-> request, order |-> order]

\* The id enqueue() drew.
Enqueued == CHOOSE r \in Requests : Status(r) = "absent" /\ rows'[r].status = "pending"

AuthorizeReply(t) ==
    IF pc[t] = "enqueue" THEN Reply(202, Enqueued, 0)
    ELSE Reply(IF call[t].outcome = "ALLOW" THEN 200 ELSE 403, None, 0)

\* The end of _attempt_execution(): the order, or an error and no order.
Attempted(t) == Reply(200, call[t].request, IF pc[t] = "mark_executed" THEN call[t].order ELSE 0)

ResolveReply(t) ==
    LET r == call[t].request IN
    CASE pc[t] = "get" -> Reply(IF Status(r) = "absent" THEN 404 ELSE 409, r, 0)
      [] pc[t] \in {"resolve_error", "mark_error"} -> Reply(500, r, 0)
      [] OTHER -> Attempted(t)

ExecuteReply(t) ==
    LET r == call[t].request IN
    CASE pc[t] = "get_execution" /\ Status(r) = "absent" -> Reply(404, r, 0)
      [] pc[t] = "get_execution" /\ Status(r) = "executed" -> Reply(200, r, rows[r].order)
      [] pc[t] = "get_execution" /\ Status(r) \notin {"absent", "executed"} -> Reply(409, r, 0)
      [] pc[t] = "mark_error" -> Reply(500, r, 0)
      [] OTHER -> Attempted(t)

ReplyTo(t) ==
    CASE handler[t] = "authorize" -> AuthorizeReply(t)
      [] handler[t] = "resolve" -> ResolveReply(t)
      [] handler[t] = "execute" -> ExecuteReply(t)

\* The command's exit status.  decide succeeds whatever is decided, approve
\* without an order; execute succeeds with one only.
ExitStatus(t) ==
    IF ReplyTo(t).code >= 404 \/ (handler[t] = "execute" /\ ReplyTo(t).order = 0) THEN 1 ELSE 0

\* The call of thread t ends in this step, by itself.
Answered(t) == pc[t] # "idle" /\ Step(t) /\ pc'[t] = "idle"

-----------------------------------------------------------------------------
(* Properties *)

\* An order told to a user is the order of record and one Razorpay has.
OrderIsTrue(t) ==
    LET reply == ReplyTo(t) IN
    /\ reply.order # 0 => /\ rows'[reply.request].status = "executed"
                          /\ rows'[reply.request].order = reply.order
                          /\ reply.order <= created'[reply.request]
    /\ handler[t] = "execute" /\ ExitStatus(t) = 0 => rows'[reply.request].status = "executed"

\* A verdict told to a human is the one in the queue, and in the log.
VerdictIsTrue(t) ==
    LET reply == ReplyTo(t)
        log   == trail'[rows[reply.request].mandate]
    IN  handler[t] = "resolve" /\ reply.code = 200 =>
            /\ \E i \in DOMAIN log : log[i] = [outcome |-> call[t].outcome, request |-> reply.request]
            /\ rows'[reply.request].status \in
                   (IF call[t].outcome = "ALLOW" THEN {"approved_pending_execution", "executed"}
                    ELSE {"denied"})

\* A request id told to an agent waits for its human and is about its mandate,
\* whose flag is in the log.
FlagIsTrue(t) ==
    handler[t] = "authorize" /\ ReplyTo(t).code = 202 =>
        LET row == rows'[ReplyTo(t).request] IN
        /\ row.status = "pending" /\ row.mandate = call[t].mandate
        /\ \E i \in DOMAIN trail'[row.mandate] : trail'[row.mandate][i] = Flag

\* What users are told is so, at the moment they are told, whoever else works on
\* the same request: of two racing drivers nobody is given an order that is not
\* the one recorded, and no human a verdict that another one has overridden.
AnswersAreTrue ==
    [][\A t \in Threads : Answered(t) => OrderIsTrue(t) /\ VerdictIsTrue(t) /\ FlagIsTrue(t)]_handlerVars
=============================================================================
