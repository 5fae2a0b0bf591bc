------------------------------ MODULE Metrics ------------------------------
(***************************************************************************)
(* The counters each process keeps of the decisions it made                *)
(* (observability.py), beside the audit log that all of them write, and    *)
(* GET /metrics (api.py), which reads both one after the other.            *)
(***************************************************************************)
EXTENDS Handlers

ASSUME MetricsAssumption ==
    IsFiniteSet(Threads) /\ IsFiniteSet(Processes) /\ IsFiniteSet(Mandates)

VARIABLES
    counters,  \* COUNTERS of each process, by outcome
    metrics    \* per process, what a GET /metrics under way has read so far, or None

metricsVars == <<handlerVars, counters, metrics>>

\* Counted by outcome; the breakdown of denials by failed_check is left out.
Zero == [o \in Outcomes |-> 0]
\* The sum of the values of f, as the number of marks when x has f[x] of them.
Total(f) == Cardinality(UNION {{x} \X (1..f[x]) : x \in DOMAIN f})

MetricsInit ==
    /\ HandlersInit
    /\ counters = [p \in Processes |-> Zero]
    /\ metrics = [p \in Processes |-> None]

-----------------------------------------------------------------------------
(* Counting *)

\* Mutant: a retried execution counts as a decision, too.
RecordsExecutions(t) == ReplyTo(t).code < 404

\* log_decision() and log_resolution() count, as the last thing before the call
\* returns; log_execution() does not, nor does a call that raised.
Records(t) == handler[t] \in {"authorize", "resolve"} /\ ReplyTo(t).code < 404

Count(t) ==
    counters' = IF Answered(t) /\ Records(t)
                THEN [counters EXCEPT ![ProcessOf[t]][call[t].outcome] = @ + 1]
                ELSE counters

\* A process that dies takes its counters with it, busy or not.
Restart(p) ==
    /\ Crash(p) \/ (UNCHANGED vars /\ \A t \in Threads : ProcessOf[t] = p => pc[t] = "idle")
    /\ counters' = [counters EXCEPT ![p] = Zero]
    /\ metrics' = [metrics EXCEPT ![p] = None]

-----------------------------------------------------------------------------
(* GET /metrics *)

Decisions(p) == Total(counters[p])

\* Mutant: the file is read before the counters.
MetricsReadsLogFirst == <<"entries", "counters">>

\* snapshot(), then the lines of the file are counted.
MetricsReads == <<"counters", "entries">>

Read(what, p) == IF what = "counters" THEN Decisions(p) ELSE Cardinality(Lines)

BeginMetrics(p) ==
    metrics[p] = None /\ metrics' = [metrics EXCEPT ![p] = Read(MetricsReads[1], p)]
AnswerMetrics(p) == metrics[p] # None /\ metrics' = [metrics EXCEPT ![p] = None]

\* The answer to be given, when the second read happens now.
MetricsReply(p) ==
    [what \in {"counters", "entries"} |-> IF what = MetricsReads[1] THEN metrics[p] ELSE Read(what, p)]

-----------------------------------------------------------------------------
MetricsNext ==
    \/ /\ \/ \E t \in Threads : (Start(t) \/ Raise(t)) /\ UNCHANGED counters
          \/ \E t \in Threads : Step(t) /\ Count(t)
          \/ (\E r \in Requests : LateOrder(r)) /\ UNCHANGED counters
          \/ (\E m \in Mandates : Expire(m)) /\ UNCHANGED counters
       /\ Handling
       /\ UNCHANGED metrics
    \/ \E p \in Processes : Restart(p) /\ Handling
    \/ /\ \E p \in Processes : BeginMetrics(p) \/ AnswerMetrics(p)
       /\ UNCHANGED <<handlerVars, counters>>

MetricsSpec == MetricsInit /\ [][MetricsNext]_metricsVars

-----------------------------------------------------------------------------
(* Properties *)

Logged(o) == {l \in Lines : trail[l[1]][l[2]].outcome = o}

\* The counters of all processes together never show a decision the audit log
\* lacks: what they lose at restarts and for calls that raised they only lose.
CountersAreLogged ==
    \A o \in Outcomes : Total([p \in Processes |-> counters[p][o]]) <= Cardinality(Logged(o))

\* So it is in an answer of GET /metrics, though its two numbers are read at
\* different moments: no dashboard sees more decisions than entries.
MetricsAreOrdered ==
    [][\A p \in Processes : AnswerMetrics(p) => MetricsReply(p).counters <= MetricsReply(p).entries]_metricsVars
=============================================================================
