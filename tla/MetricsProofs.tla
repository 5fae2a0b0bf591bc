---------------------------- MODULE MetricsProofs ----------------------------
(***************************************************************************)
(* Theorems of Metrics: the counters of all processes never show more than *)
(* the log has, nor does an answer of GET /metrics, for any finite number  *)
(* of threads, processes and mandates, any restarts and calls that raise.  *)
(***************************************************************************)
EXTENDS Metrics, HandlersProofs, FiniteSetTheorems

-----------------------------------------------------------------------------
(* Sums *)

\* The marks that Total(f) counts.
Marks(f) == UNION {{x} \X (1..f[x]) : x \in DOMAIN f}

(* A mark is one of the first f[x] of some x. *)
LEMMA MarkOf ==
    ASSUME NEW S, NEW f \in [S -> Nat]
    PROVE  Marks(f) = {k \in S \X Nat : k[2] \in 1..f[k[1]]}
<1>1. DOMAIN f = S /\ \A x \in S : 1..f[x] \subseteq Nat
  OBVIOUS
<1>2. ASSUME NEW k \in Marks(f)
      PROVE  k \in S \X Nat /\ k[2] \in 1..f[k[1]]
  <2>1. PICK x \in S : k \in {x} \X (1..f[x])
    BY <1>1, <1>2 DEF Marks
  <2> QED
    BY <1>1, <2>1
<1>3. ASSUME NEW k \in S \X Nat, k[2] \in 1..f[k[1]]
      PROVE  k \in Marks(f)
  <2>1. k[1] \in S /\ k \in {k[1]} \X (1..f[k[1]])
    BY <1>3
  <2> QED
    BY <1>1, <2>1 DEF Marks
<1> QED
  BY <1>2, <1>3

(* n marks for one x are n. *)
LEMMA StackSize ==
    ASSUME NEW x, NEW n \in Nat
    PROVE  IsFiniteSet({x} \X (1..n)) /\ Cardinality({x} \X (1..n)) = n
<1>1. IsFiniteSet({x}) /\ Cardinality({x}) = 1
  BY FS_Singleton
<1>2. IsFiniteSet(1..n) /\ Cardinality(1..n) = n
  BY FS_Interval
<1>3. /\ IsFiniteSet({x} \X (1..n))
      /\ Cardinality({x} \X (1..n)) = Cardinality({x}) * Cardinality(1..n)
  BY <1>1, <1>2, FS_Product
<1> QED
  BY <1>1, <1>2, <1>3

(* Finitely many x have finitely many marks. *)
LEMMA MarksFinite ==
    ASSUME NEW S, IsFiniteSet(S), NEW f \in [S -> Nat]
    PROVE  IsFiniteSet(Marks(f)) /\ Total(f) = Cardinality(Marks(f)) /\ Total(f) \in Nat
<1> DEFINE stacks == {{x} \X (1..f[x]) : x \in S}
           g == [x \in S |-> {x} \X (1..f[x])]
<1>1. g \in Surjection(S, stacks)
  BY DEF Surjection
<1>2. IsFiniteSet(stacks)
  BY <1>1, FS_Surjection DEF ExistsSurjection
<1>3. ASSUME NEW T \in stacks
      PROVE  IsFiniteSet(T)
  <2>1. PICK x \in S : T = {x} \X (1..f[x])
    OBVIOUS
  <2> QED
    BY <2>1, StackSize
<1>4. IsFiniteSet(UNION stacks)
  BY <1>2, <1>3, FS_UNION
<1>5. Marks(f) = UNION stacks
  BY DEF Marks
<1> QED
  BY <1>4, <1>5, FS_CardinalityType DEF Marks, Total

(* What is nowhere more has no greater sum. *)
LEMMA TotalBelow ==
    ASSUME NEW S, IsFiniteSet(S), NEW f \in [S -> Nat], NEW g \in [S -> Nat],
           \A x \in S : g[x] <= f[x]
    PROVE  Total(g) <= Total(f)
<1>1. ASSUME NEW k \in Marks(g)
      PROVE  k \in Marks(f)
  <2>1. k \in S \X Nat /\ k[2] \in 1..g[k[1]]
    BY <1>1, MarkOf
  <2>2. k[1] \in S /\ g[k[1]] <= f[k[1]] /\ f[k[1]] \in Nat /\ g[k[1]] \in Nat
    BY <2>1
  <2>3. k[2] \in 1..f[k[1]]
    BY <2>1, <2>2
  <2> QED
    BY <2>1, <2>3, MarkOf
<1> QED
  BY <1>1, MarksFinite, FS_Subset

(* One more somewhere is one more in sum. *)
LEMMA TotalAdds ==
    ASSUME NEW S, IsFiniteSet(S), NEW f \in [S -> Nat], NEW x \in S
    PROVE  Total([f EXCEPT ![x] = f[x] + 1]) = Total(f) + 1
<1> DEFINE g == [f EXCEPT ![x] = f[x] + 1]
<1>1. g \in [S -> Nat] /\ g[x] = f[x] + 1 /\ f[x] \in Nat /\ \A y \in S : y # x => g[y] = f[y]
  OBVIOUS
<1> HIDE DEF g
<1>2. Marks(g) = Marks(f) \cup {<<x, f[x] + 1>>}
  <2>1. ASSUME NEW k \in S \X Nat
        PROVE  k[2] \in 1..g[k[1]] <=> k[2] \in 1..f[k[1]] \/ k = <<x, f[x] + 1>>
    <3>1. k[1] \in S /\ k[2] \in Nat /\ k = <<k[1], k[2]>>
      OBVIOUS
    <3>2. CASE k[1] = x
      <4>1. k[2] \in 1..(f[x] + 1) <=> k[2] \in 1..f[x] \/ k[2] = f[x] + 1
        BY <1>1, <3>1
      <4> QED
        BY <1>1, <3>1, <3>2, <4>1
    <3>3. CASE k[1] # x
      BY <1>1, <3>1, <3>3
    <3> QED
      BY <3>2, <3>3
  <2>2. <<x, f[x] + 1>> \in S \X Nat
    BY <1>1
  <2>3. Marks(g) = {k \in S \X Nat : k[2] \in 1..g[k[1]]}
    BY <1>1, MarkOf
  <2>4. Marks(f) = {k \in S \X Nat : k[2] \in 1..f[k[1]]}
    BY MarkOf
  <2> QED
    BY <2>1, <2>2, <2>3, <2>4
<1>3. <<x, f[x] + 1>> \notin Marks(f)
  <2>1. ~(f[x] + 1 \in 1..f[x])
    BY <1>1
  <2> QED
    BY <2>1, MarkOf
<1>4. IsFiniteSet(Marks(f)) /\ Total(f) = Cardinality(Marks(f))
  BY MarksFinite
<1>5. Total(g) = Cardinality(Marks(g))
  BY <1>1, MarksFinite
<1>6. Cardinality(Marks(g)) = Cardinality(Marks(f)) + 1
  BY <1>2, <1>3, <1>4, FS_AddElement
<1> QED
  BY <1>4, <1>5, <1>6 DEF g

(* No summand is more than the sum. *)
LEMMA TotalCovers ==
    ASSUME NEW S, IsFiniteSet(S), NEW f \in [S -> Nat], NEW x \in S
    PROVE  f[x] <= Total(f)
<1>1. ASSUME NEW k \in {x} \X (1..f[x])
      PROVE  k \in Marks(f)
  BY <1>1 DEF Marks
<1>2. {x} \X (1..f[x]) \in SUBSET Marks(f)
  BY <1>1
<1>3. Cardinality({x} \X (1..f[x])) = f[x]
  BY StackSize
<1> QED
  BY <1>2, <1>3, MarksFinite, FS_Subset

(* The three outcomes add up. *)
LEMMA TotalOfOutcomes ==
    ASSUME NEW f \in [Outcomes -> Nat]
    PROVE  Total(f) = f["ALLOW"] + f["DENY"] + f["NEEDS_HUMAN"]
<1> DEFINE stack(o) == {o} \X (1..f[o])
<1>1. "ALLOW" \in Outcomes /\ "DENY" \in Outcomes /\ "NEEDS_HUMAN" \in Outcomes
  BY DEF Outcomes
<1>2. \A o \in Outcomes : IsFiniteSet(stack(o)) /\ Cardinality(stack(o)) = f[o] /\ f[o] \in Nat
  BY StackSize
<1>3. Marks(f) = (stack("ALLOW") \cup stack("DENY")) \cup stack("NEEDS_HUMAN")
  BY DEF Marks, Outcomes
<1>4. /\ stack("ALLOW") \cap stack("DENY") = {}
      /\ (stack("ALLOW") \cup stack("DENY")) \cap stack("NEEDS_HUMAN") = {}
  OBVIOUS
<1>5. Total(f) = Cardinality(Marks(f))
  BY DEF Total, Marks
<1> HIDE DEF stack
<1>6. /\ IsFiniteSet(stack("ALLOW") \cup stack("DENY"))
      /\ Cardinality(stack("ALLOW") \cup stack("DENY")) = f["ALLOW"] + f["DENY"]
  BY <1>1, <1>2, <1>4, FS_Union, FS_EmptySet
<1>7. Cardinality(Marks(f)) = (f["ALLOW"] + f["DENY"]) + f["NEEDS_HUMAN"]
  <2> DEFINE both == stack("ALLOW") \cup stack("DENY")
  <2>1. IsFiniteSet(both) /\ Cardinality(both) = f["ALLOW"] + f["DENY"]
    BY <1>6
  <2>2. Marks(f) = both \cup stack("NEEDS_HUMAN") /\ both \cap stack("NEEDS_HUMAN") = {}
    BY <1>3, <1>4
  <2>3. IsFiniteSet(stack("NEEDS_HUMAN")) /\ Cardinality(stack("NEEDS_HUMAN")) = f["NEEDS_HUMAN"]
    BY <1>1, <1>2
  <2> HIDE DEF both
  <2>4. Cardinality(both \cup stack("NEEDS_HUMAN")) =
            Cardinality(both) + Cardinality(stack("NEEDS_HUMAN")) - Cardinality({})
    BY <2>1, <2>2, <2>3, FS_Union
  <2> QED
    BY <1>1, <1>2, <2>1, <2>2, <2>3, <2>4, FS_EmptySet
<1> QED
  BY <1>5, <1>7

-----------------------------------------------------------------------------
(* The log grows *)

(* A line of the log is a mandate and a place in what is logged of it. *)
LEMMA LineOf ==
    Typing => Lines = {l \in Mandates \X Nat : l[2] \in DOMAIN trail[l[1]]}
<1> SUFFICES ASSUME Typing
             PROVE  Lines = {l \in Mandates \X Nat : l[2] \in DOMAIN trail[l[1]]}
  OBVIOUS
<1>1. \A m \in Mandates : trail[m] \in Seq(Entry) /\ DOMAIN trail[m] = 1..Len(trail[m])
  BY DEF Typing, TypeOK
<1>2. ASSUME NEW l \in Lines
      PROVE  l \in Mandates \X Nat /\ l[2] \in DOMAIN trail[l[1]]
  <2>1. PICK m \in Mandates : l \in {m} \X DOMAIN trail[m]
    BY <1>2 DEF Lines
  <2> QED
    BY <1>1, <2>1
<1>3. ASSUME NEW l \in Mandates \X Nat, l[2] \in DOMAIN trail[l[1]]
      PROVE  l \in Lines
  <2>1. l[1] \in Mandates /\ l \in {l[1]} \X DOMAIN trail[l[1]]
    BY <1>3
  <2> QED
    BY <2>1 DEF Lines
<1> QED
  BY <1>1, <1>2, <1>3

LogFinite == IsFiniteSet(Lines) /\ \A o \in Outcomes : IsFiniteSet(Logged(o))

(* The log has finitely many lines. *)
LEMMA LinesFinite == Typing => LogFinite
<1> SUFFICES ASSUME Typing
             PROVE  LogFinite
  OBVIOUS
<1> DEFINE f == [m \in Mandates |-> Len(trail[m])]
<1>1. \A m \in Mandates : trail[m] \in Seq(Entry) /\ DOMAIN trail[m] = 1..Len(trail[m])
  BY DEF Typing, TypeOK
<1>2. f \in [Mandates -> Nat]
  BY <1>1
<1>3. Marks(f) = Lines
  BY <1>1 DEF Marks, Lines
<1> HIDE DEF f
<1>4. IsFiniteSet(Lines)
  BY <1>2, <1>3, MarksFinite, MetricsAssumption
<1>5. \A o \in Outcomes : Logged(o) \in SUBSET Lines
  BY DEF Logged
<1> QED
  BY <1>4, <1>5, FS_Subset DEF LogFinite

(* No step takes a line away, or changes one. *)
LEMMA LoggedStays ==
    ASSUME Typing, Typing', [Next]_vars
    PROVE  /\ Lines \subseteq Lines'
           /\ \A o \in Outcomes : Logged(o) \subseteq Logged(o)'
<1>0. Lines' = {l \in Mandates \X Nat : l[2] \in DOMAIN trail'[l[1]]}
  <2>1. (Typing => Lines = {l \in Mandates \X Nat : l[2] \in DOMAIN trail[l[1]]})'
    BY LineOf, PTL
  <2> QED
    BY <2>1
<1>1. ASSUME NEW l \in Lines
      PROVE  l \in Lines' /\ trail'[l[1]][l[2]] = trail[l[1]][l[2]]
  <2>1. /\ l \in Mandates \X Nat /\ l[1] \in Mandates /\ l[2] \in DOMAIN trail[l[1]]
        /\ trail[l[1]] \in Seq(Entry)
    BY <1>1, LineOf DEF Typing, TypeOK
  <2>2. ASSUME NEW e \in Entry, trail'[l[1]] = Append(trail[l[1]], e)
        PROVE  l[2] \in DOMAIN trail'[l[1]] /\ trail'[l[1]][l[2]] = trail[l[1]][l[2]]
    BY <2>1, <2>2, Appending
  <2>3. l[2] \in DOMAIN trail'[l[1]] /\ trail'[l[1]][l[2]] = trail[l[1]][l[2]]
    BY <2>1, <2>2, TrailStep
  <2> QED
    BY <1>0, <2>1, <2>3
<1> QED
  BY <1>1 DEF Logged

Appends(t) == AppendDecision(t) \/ AppendHumanDecision(t)

(* A call that logs its decision adds a line with its outcome. *)
LEMMA LoggedAdds ==
    ASSUME Typing, Typing', NEW t \in Threads, Appends(t),
           NEW o \in Outcomes, o = call[t].outcome
    PROVE  Cardinality(Logged(o)') >= Cardinality(Logged(o)) + 1
<1>1. PICK m \in Mandates : m = call[t].mandate
  BY DEF Appends, AppendDecision, AppendHumanDecision, Typing, TypeOK, CallTargets, OnMandate, Call
<1>2. PICK e \in Entry : e.outcome = o /\ trail' = [trail EXCEPT ![m] = Append(@, e)]
  <2>1. CASE AppendDecision(t)
    <3>1. PolicyEntry(t) \in Entry
      BY <1>1 DEF PolicyEntry, Entry
    <3> QED
      BY <1>1, <2>1, <3>1 DEF AppendDecision, LogEntry, PolicyEntry
  <2>2. CASE AppendHumanDecision(t)
    <3>1. HumanEntry(t) \in Entry
      BY <1>1, <2>2 DEF HumanEntry, Entry, Typing, CallTargets, OnRequest, AppendHumanDecision
    <3> QED
      BY <1>1, <2>2, <3>1 DEF AppendHumanDecision, LogEntry, HumanEntry
  <2> QED
    BY <2>1, <2>2 DEF Appends
<1>3. trail \in [Mandates -> Seq(Entry)] /\ trail[m] \in Seq(Entry) /\ Len(trail[m]) \in Nat
  BY DEF Typing, TypeOK
<1>4. trail'[m] = Append(trail[m], e)
  BY <1>2, <1>3
<1> DEFINE n == Len(trail[m]) + 1
           line == <<m, n>>
<1>5. line \in Logged(o)'
  <2>1. n \in DOMAIN trail'[m] /\ trail'[m][n] = e
    BY <1>3, <1>4, Appending
  <2>2. line \in Lines'
    BY <2>1 DEF Lines
  <2> QED
    BY <1>2, <2>1, <2>2 DEF Logged
<1>6. line \notin Logged(o)
  <2>1. n \notin DOMAIN trail[m]
    BY <1>3
  <2> QED
    BY <2>1, LineOf DEF Logged
<1>7. [Next]_vars
  BY DEF Appends, Next, Step
<1>8. Logged(o) \cup {line} \in SUBSET Logged(o)'
  BY <1>5, <1>7, LoggedStays
<1>9. IsFiniteSet(Logged(o)) /\ IsFiniteSet(Logged(o)')
  <2>1. (Typing => LogFinite)'
    BY LinesFinite, PTL
  <2> QED
    BY <2>1, LinesFinite DEF LogFinite
<1> HIDE DEF line
<1>10. Cardinality(Logged(o) \cup {line}) = Cardinality(Logged(o)) + 1
  BY <1>6, <1>9, FS_AddElement
<1>11. Cardinality(Logged(o) \cup {line}) <= Cardinality(Logged(o)')
  BY <1>8, <1>9, FS_Subset
<1>12. Cardinality(Logged(o)) \in Nat /\ Cardinality(Logged(o)') \in Nat
  BY <1>9, FS_CardinalityType
<1> QED
  BY <1>10, <1>11, <1>12

-----------------------------------------------------------------------------
(* Calls whose decision is logged and not yet counted *)

IsUncounted(t) == pc[t] = "enqueue" \/ (pc[t] \in Executing /\ handler[t] = "resolve")
Uncounted(o) == {t \in Threads : IsUncounted(t) /\ call[t].outcome = o}

\* What the counters show of an outcome, by process.
Shown(o) == [p \in Processes |-> counters[p][o]]

\* What the counters show, and what is still to be counted, is in the log.
CountInv ==
    /\ counters \in [Processes -> [Outcomes -> Nat]]
    /\ \A o \in Outcomes : Total(Shown(o)) + Cardinality(Uncounted(o)) <= Cardinality(Logged(o))

\* What a GET /metrics under way has read of the counters is in the log, too.
ReadInv ==
    /\ metrics = [p \in Processes |-> metrics[p]]
    /\ \A p \in Processes :
        metrics[p] # None => metrics[p] \in Nat /\ metrics[p] <= Cardinality(Lines)

MetricsInv == HandlersInv /\ CountInv /\ ReadInv

(* A call comes to be counted when it logs its decision, with that outcome. *)
LEMMA UncountedFrom ==
    ASSUME Typing, HandlersInv, Handling, NEW t \in Threads, Step(t), IsUncounted(t)'
    PROVE  call'[t].outcome = call[t].outcome /\ (IsUncounted(t) \/ Appends(t))
<1>1. HandlerInv(t) /\ Moved(t) /\ pc'[t] # "idle"
  BY Moves DEF HandlersInv, IsUncounted, Executing
<1>2. pc[t] # "idle"
  BY <1>1 DEF Step, Evaluate, Claim, AppendDecision, Enqueue, GetForResolve, Resolve,
    AppendHumanDecision, GetForExecution, FindExistingOrder, CreateOrder, RecordExecutionFailure,
    MarkExecuted, Surface
<1>3. handler'[t] = handler[t]
  BY <1>1, <1>2 DEF Handling, HandlerOf
<1>4. CASE pc'[t] = "enqueue"
  BY <1>4, Arrivals DEF Arrived, Appends
<1>5. CASE pc'[t] \in Executing /\ handler[t] = "resolve"
  <2>1. CASE AppendHumanDecision(t) /\ call[t].outcome = "ALLOW" /\ call'[t].outcome = "ALLOW"
    BY <2>1 DEF Appends
  <2>2. CASE pc[t] \in Executing /\ call'[t].outcome = call[t].outcome
    BY <1>5, <2>2 DEF IsUncounted
  <2>3. pc[t] # "get_execution"
    BY <1>1, <1>5 DEF HandlerInv
  <2> QED
    BY <1>1, <1>5, <2>1, <2>2, <2>3 DEF Moved, Executing
<1> QED
  BY <1>3, <1>4, <1>5 DEF IsUncounted

(* A call is counted when it logs its decision, or was to be counted. *)
LEMMA CountedFrom ==
    ASSUME Typing, HandlersInv, NEW t \in Threads, Answered(t), Records(t)
    PROVE  IsUncounted(t) \/ Appends(t)
<1>1. HandlerInv(t) /\ handler[t] \in {"authorize", "resolve"} /\ ReplyTo(t).code < 404
  BY DEF HandlersInv, Records
<1>2. CASE AppendDecision(t) \/ AppendHumanDecision(t)
  BY <1>2 DEF Appends
<1>3. CASE Enqueue(t)
  BY <1>3 DEF Enqueue, IsUncounted
<1>4. CASE GetForResolve(t)
  <2>1. pc[t] = "get" /\ handler[t] = "resolve"
    BY <1>1, <1>4 DEF GetForResolve, HandlerInv, InResolve
  <2>2. ReplyTo(t).code \in {404, 409}
    BY <2>1 DEF ReplyTo, ResolveReply, Reply
  <2> QED
    BY <1>1, <2>2
<1>5. CASE GetForExecution(t)
  BY <1>1, <1>5 DEF GetForExecution, HandlerInv
<1>6. CASE RecordExecutionFailure(t) \/ MarkExecuted(t)
  <2>1. pc[t] \in Executing
    BY <1>6 DEF RecordExecutionFailure, MarkExecuted, Executing
  <2> QED
    BY <1>1, <2>1 DEF HandlerInv, IsUncounted
<1>7. CASE Surface(t)
  <2>1. pc[t] \in {"resolve_error", "mark_error"} /\ handler[t] = "resolve"
    BY <1>1, <1>7 DEF Surface, HandlerInv, InResolve
  <2>2. ReplyTo(t).code = 500
    BY <2>1 DEF ReplyTo, ResolveReply, Reply
  <2> QED
    BY <1>1, <2>2
<1> QED
  BY <1>2, <1>3, <1>4, <1>5, <1>6, <1>7, Endings

(* A call counts itself once, under its outcome, or not at all. *)
LEMMA Counting ==
    ASSUME CountInv, NEW t \in Threads, Count(t), NEW o \in Outcomes
    PROVE  /\ counters' \in [Processes -> [Outcomes -> Nat]]
           /\ \/ Shown(o)' = Shown(o)
              \/ /\ Answered(t) /\ Records(t) /\ call[t].outcome = o
                 /\ Total(Shown(o)') = Total(Shown(o)) + 1
<1>1. counters \in [Processes -> [Outcomes -> Nat]] /\ ProcessOf[t] \in Processes
  BY ServiceAssumption DEF CountInv
<1>2. CASE counters' = counters
  BY <1>1, <1>2 DEF Shown
<1>3. CASE Answered(t) /\ Records(t) /\ counters' # counters
  <2>1. PICK p \in Processes : p = ProcessOf[t]
    BY <1>1
  <2>2. PICK c : c = call[t].outcome
    OBVIOUS
  <2>3. counters' = [counters EXCEPT ![p] = [counters[p] EXCEPT ![c] = counters[p][c] + 1]]
    BY <1>3, <2>1, <2>2 DEF Count
  <2>4. counters' \in [Processes -> [Outcomes -> Nat]]
    <3>1. PICK f \in [Outcomes -> Nat] : f = counters[p]
      BY <1>1
    <3>2. ASSUME c \in Outcomes
          PROVE  [f EXCEPT ![c] = f[c] + 1] \in [Outcomes -> Nat]
      BY <3>2
    <3>3. ASSUME c \notin Outcomes
          PROVE  [f EXCEPT ![c] = f[c] + 1] = f
      BY <3>3
    <3> QED
      BY <1>1, <2>3, <3>1, <3>2, <3>3
  <2>5. CASE c = o
    <3>1. Shown(o) \in [Processes -> Nat]
      BY <1>1 DEF Shown
    <3>2. Shown(o)' = [Shown(o) EXCEPT ![p] = Shown(o)[p] + 1]
      BY <1>1, <2>3, <2>5 DEF Shown
    <3>3. Total([Shown(o) EXCEPT ![p] = Shown(o)[p] + 1]) = Total(Shown(o)) + 1
      BY <3>1, TotalAdds, MetricsAssumption
    <3> QED
      BY <1>3, <2>2, <2>4, <2>5, <3>2, <3>3
  <2>6. CASE c # o
    <3>1. Shown(o)' = Shown(o)
      BY <1>1, <2>3, <2>6 DEF Shown
    <3> QED
      BY <2>4, <3>1
  <2> QED
    BY <2>5, <2>6
<1> QED
  BY <1>2, <1>3 DEF Count

(* Sizes: what the balance compares are numbers. *)
LEMMA Sizes ==
    ASSUME NEW o \in Outcomes, Typing, counters \in [Processes -> [Outcomes -> Nat]]
    PROVE  /\ IsFiniteSet(Uncounted(o)) /\ Cardinality(Uncounted(o)) \in Nat
           /\ IsFiniteSet(Logged(o)) /\ Cardinality(Logged(o)) \in Nat
           /\ Shown(o) \in [Processes -> Nat] /\ Total(Shown(o)) \in Nat
<1>1. Uncounted(o) \in SUBSET Threads
  BY DEF Uncounted
<1>2. IsFiniteSet(Uncounted(o))
  BY <1>1, FS_Subset, MetricsAssumption
<1>3. IsFiniteSet(Logged(o))
  BY LinesFinite DEF LogFinite
<1>4. Shown(o) \in [Processes -> Nat]
  BY DEF Shown
<1> QED
  BY <1>2, <1>3, <1>4, FS_CardinalityType, MarksFinite, MetricsAssumption

(* The same of the next state. *)
LEMMA NextSizes ==
    ASSUME NEW o \in Outcomes, Typing, counters \in [Processes -> [Outcomes -> Nat]], [Next]_vars, Typing'
    PROVE  /\ IsFiniteSet(Logged(o)') /\ Cardinality(Logged(o)') \in Nat
           /\ Cardinality(Logged(o)) <= Cardinality(Logged(o)')
<1>1. (Typing => LogFinite)'
  BY LinesFinite, PTL
<1>2. IsFiniteSet(Logged(o)')
  BY <1>1 DEF LogFinite
<1>3. Logged(o) \in SUBSET Logged(o)'
  BY LoggedStays
<1> QED
  BY <1>2, <1>3, FS_CardinalityType, FS_Subset

(* A step that moves no call on, and counts nothing, keeps the balance. *)
LEMMA OthersBalance ==
    ASSUME Typing, Typing', [Next]_vars, CountInv,
           counters' \in [Processes -> [Outcomes -> Nat]],
           \A p \in Processes, o \in Outcomes : counters'[p][o] <= counters[p][o],
           \A o \in Outcomes : Uncounted(o)' \subseteq Uncounted(o)
    PROVE  CountInv'
<1> SUFFICES ASSUME NEW o \in Outcomes
             PROVE  Total(Shown(o)') + Cardinality(Uncounted(o)') <= Cardinality(Logged(o)')
  BY DEF CountInv, Total, Shown, Uncounted, IsUncounted, Logged, Lines
<1>1. counters \in [Processes -> [Outcomes -> Nat]]
  BY DEF CountInv
<1>2. Total(Shown(o)') <= Total(Shown(o)) /\ Total(Shown(o)') \in Nat
  <2>1. /\ Shown(o)' \in [Processes -> Nat]
        /\ \A p \in Processes : Shown(o)'[p] <= Shown(o)[p]
    BY DEF Shown
  <2>2. Shown(o) \in [Processes -> Nat]
    BY <1>1, Sizes
  <2> QED
    BY <2>1, <2>2, TotalBelow, MarksFinite, MetricsAssumption
<1>3. Cardinality(Uncounted(o)') <= Cardinality(Uncounted(o)) /\ Cardinality(Uncounted(o)') \in Nat
  BY <1>1, Sizes, FS_Subset, FS_CardinalityType
<1> QED
  BY <1>1, <1>2, <1>3, Sizes, NextSizes DEF CountInv

(* So does the step of a call, whether it logs, counts or neither. *)
LEMMA StepBalances ==
    ASSUME Typing, Typing', HandlersInv, CountInv, Handling, NEW t \in Threads, Step(t), Count(t)
    PROVE  CountInv'
<1> SUFFICES ASSUME NEW o \in Outcomes
             PROVE  Total(Shown(o)') + Cardinality(Uncounted(o)') <= Cardinality(Logged(o)')
  <2>1. counters' \in [Processes -> [Outcomes -> Nat]]
    <3>1. PICK o \in Outcomes : TRUE
      BY DEF Outcomes
    <3> QED
      BY <3>1, Counting
  <2> QED
    BY <2>1 DEF CountInv, Total, Shown, Uncounted, IsUncounted, Logged, Lines
<1>1. counters \in [Processes -> [Outcomes -> Nat]] /\ [Next]_vars
  BY DEF CountInv, Next
<1>2. ASSUME NEW u \in Uncounted(o)', u # t
      PROVE  u \in Uncounted(o)
  <2>1. u \in Threads /\ pc'[u] = pc[u] /\ call'[u] = call[u]
    BY <1>2, ActsAlone DEF Uncounted
  <2>2. handler'[u] = "resolve" => handler[u] = "resolve" \/ pc[u] = "idle"
    BY <2>1 DEF Handling, HandlerOf
  <2> QED
    BY <1>2, <2>1, <2>2 DEF Uncounted, IsUncounted, Executing
<1>3. t \in Uncounted(o)' => call[t].outcome = o /\ (t \in Uncounted(o) \/ Appends(t))
  BY UncountedFrom DEF Uncounted, IsUncounted
<1>4. Answered(t) => t \notin Uncounted(o)'
  BY DEF Answered, Uncounted, IsUncounted, Executing
<1> DEFINE counted == Answered(t) /\ Records(t) /\ call[t].outcome = o
<1>5. counted => t \in Uncounted(o) \/ Appends(t)
  BY CountedFrom DEF Uncounted
<1>6. \/ Total(Shown(o)') = Total(Shown(o))
      \/ counted /\ Total(Shown(o)') = Total(Shown(o)) + 1
  BY Counting
<1>7. /\ Total(Shown(o)) \in Nat /\ IsFiniteSet(Uncounted(o)) /\ Cardinality(Uncounted(o)) \in Nat
      /\ Cardinality(Logged(o)) \in Nat /\ Cardinality(Logged(o)') \in Nat
      /\ Cardinality(Logged(o)) <= Cardinality(Logged(o)')
      /\ Total(Shown(o)) + Cardinality(Uncounted(o)) <= Cardinality(Logged(o))
  BY <1>1, Sizes, NextSizes DEF CountInv
<1> HIDE DEF counted
\* It logs its decision: one more line, for one more to count or one counted.
<1>8. CASE Appends(t) /\ call[t].outcome = o
  <2>1. Cardinality(Logged(o)') >= Cardinality(Logged(o)) + 1
    BY <1>8, LoggedAdds
  <2>2. CASE counted
    <3>1. Uncounted(o)' \in SUBSET Uncounted(o)
      BY <1>2, <1>4, <2>2 DEF counted
    <3>2. Cardinality(Uncounted(o)') \in Nat /\ Cardinality(Uncounted(o)') <= Cardinality(Uncounted(o))
      BY <1>7, <3>1, FS_Subset, FS_CardinalityType
    <3> QED
      BY <1>6, <1>7, <2>1, <3>2
  <2>3. CASE ~counted
    <3>1. Uncounted(o)' \in SUBSET (Uncounted(o) \cup {t})
      BY <1>2
    <3>2. /\ IsFiniteSet(Uncounted(o) \cup {t})
          /\ Cardinality(Uncounted(o) \cup {t}) <= Cardinality(Uncounted(o)) + 1
          /\ Cardinality(Uncounted(o) \cup {t}) \in Nat
      <4> DEFINE U == Uncounted(o)
      <4>1. IsFiniteSet(U) /\ Cardinality(U) \in Nat
        BY <1>7
      <4> HIDE DEF U
      <4>2. /\ IsFiniteSet(U \cup {t})
            /\ Cardinality(U \cup {t}) = IF t \in U THEN Cardinality(U) ELSE Cardinality(U) + 1
        BY <4>1, FS_AddElement
      <4>3. Cardinality(U \cup {t}) <= Cardinality(U) + 1 /\ Cardinality(U \cup {t}) \in Nat
        BY <4>1, <4>2
      <4> QED
        BY <4>2, <4>3 DEF U
    <3>3. /\ Cardinality(Uncounted(o)') <= Cardinality(Uncounted(o) \cup {t})
          /\ Cardinality(Uncounted(o)') \in Nat
      BY <3>1, <3>2, FS_Subset, FS_CardinalityType
    <3> QED
      BY <1>6, <1>7, <2>1, <2>3, <3>2, <3>3
  <2> QED
    BY <2>2, <2>3
\* It counts what it had logged, or goes on.
<1>9. CASE ~(Appends(t) /\ call[t].outcome = o)
  <2>1. Uncounted(o)' \in SUBSET Uncounted(o)
    BY <1>2, <1>3, <1>9
  <2>2. CASE counted
    <3>1. t \in Uncounted(o) /\ t \notin Uncounted(o)'
      BY <1>4, <1>5, <1>9, <2>2 DEF counted
    <3>2. Uncounted(o)' \in SUBSET (Uncounted(o) \ {t})
      BY <2>1, <3>1
    <3>3. /\ IsFiniteSet(Uncounted(o) \ {t})
          /\ Cardinality(Uncounted(o) \ {t}) = Cardinality(Uncounted(o)) - 1
          /\ Cardinality(Uncounted(o) \ {t}) \in Nat
      BY <1>7, <3>1, FS_RemoveElement, FS_CardinalityType
    <3>4. /\ Cardinality(Uncounted(o)') <= Cardinality(Uncounted(o) \ {t})
          /\ Cardinality(Uncounted(o)') \in Nat
      BY <3>2, <3>3, FS_Subset, FS_CardinalityType
    <3> QED
      BY <1>6, <1>7, <3>3, <3>4
  <2>3. CASE ~counted
    <3>1. Cardinality(Uncounted(o)') \in Nat /\ Cardinality(Uncounted(o)') <= Cardinality(Uncounted(o))
      BY <1>7, <2>1, FS_Subset, FS_CardinalityType
    <3> QED
      BY <1>6, <1>7, <2>3, <3>1
  <2> QED
    BY <2>2, <2>3
<1> QED
  BY <1>8, <1>9

-----------------------------------------------------------------------------
(* The invariant *)

(* What a process shows of all outcomes is in the log. *)
LEMMA DecisionsLogged ==
    ASSUME Typing, CountInv, NEW p \in Processes
    PROVE  Decisions(p) \in Nat /\ Decisions(p) <= Cardinality(Lines)
<1>1. counters \in [Processes -> [Outcomes -> Nat]] /\ counters[p] \in [Outcomes -> Nat]
  BY DEF CountInv
<1>2. ASSUME NEW o \in Outcomes
      PROVE  /\ counters[p][o] \in Nat /\ counters[p][o] <= Cardinality(Logged(o))
             /\ IsFiniteSet(Logged(o)) /\ Cardinality(Logged(o)) \in Nat
  <2>1. Shown(o) \in [Processes -> Nat] /\ Shown(o)[p] = counters[p][o]
    BY <1>1 DEF Shown
  <2>2. Shown(o)[p] <= Total(Shown(o))
    BY <2>1, TotalCovers, MetricsAssumption
  <2> QED
    BY <1>1, <2>1, <2>2, Sizes DEF CountInv
<1>3. "ALLOW" \in Outcomes /\ "DENY" \in Outcomes /\ "NEEDS_HUMAN" \in Outcomes
  BY DEF Outcomes
<1> DEFINE A == Logged("ALLOW")
           D == Logged("DENY")
           H == Logged("NEEDS_HUMAN")
<1>4. A \cap D = {} /\ (A \cup D) \cap H = {} /\ (A \cup D) \cup H \in SUBSET Lines
  BY DEF Logged
<1>5. /\ IsFiniteSet(A) /\ IsFiniteSet(D) /\ IsFiniteSet(H)
      /\ Cardinality(A) \in Nat /\ Cardinality(D) \in Nat /\ Cardinality(H) \in Nat
      /\ counters[p]["ALLOW"] <= Cardinality(A) /\ counters[p]["ALLOW"] \in Nat
      /\ counters[p]["DENY"] <= Cardinality(D) /\ counters[p]["DENY"] \in Nat
      /\ counters[p]["NEEDS_HUMAN"] <= Cardinality(H) /\ counters[p]["NEEDS_HUMAN"] \in Nat
  BY <1>2, <1>3
<1> HIDE DEF A, D, H
<1> DEFINE AD == A \cup D
<1>6. IsFiniteSet(AD) /\ Cardinality(AD) = Cardinality(A) + Cardinality(D)
  <2>1. A \cap D = {} /\ Cardinality({}) = 0
    BY <1>4, FS_EmptySet
  <2>2. /\ IsFiniteSet(A \cup D)
        /\ Cardinality(A \cup D) = Cardinality(A) + Cardinality(D) - Cardinality(A \cap D)
    BY <1>5, FS_Union
  <2>3. Cardinality(A \cup D) = Cardinality(A) + Cardinality(D)
    <3> DEFINE a == Cardinality(A)
               d == Cardinality(D)
    <3>1. a \in Nat /\ d \in Nat /\ Cardinality(A \cup D) = a + d - 0
      BY <1>5, <2>1, <2>2
    <3> HIDE DEF a, d
    <3>2. Cardinality(A \cup D) = a + d
      BY <3>1
    <3> QED
      BY <3>2 DEF a, d
  <2> QED
    BY <2>2, <2>3
<1>7. AD \cap H = {} /\ AD \cup H \in SUBSET Lines
  BY <1>4
<1> HIDE DEF AD
<1>8. Cardinality(AD \cup H) = Cardinality(A) + Cardinality(D) + Cardinality(H)
  BY <1>5, <1>6, <1>7, FS_Union, FS_EmptySet
<1>9. Cardinality(AD \cup H) <= Cardinality(Lines) /\ Cardinality(Lines) \in Nat
  BY <1>7, LinesFinite, FS_Subset, FS_CardinalityType DEF LogFinite
<1>10. Decisions(p) = counters[p]["ALLOW"] + counters[p]["DENY"] + counters[p]["NEEDS_HUMAN"]
  BY <1>1, TotalOfOutcomes DEF Decisions
<1> QED
  BY <1>5, <1>8, <1>9, <1>10

\* Nothing is counted, or logged, at first.
THEOREM MetricsInvInit == MetricsInit => Typing /\ MetricsInv
<1> SUFFICES ASSUME MetricsInit
             PROVE  Typing /\ MetricsInv
  OBVIOUS
<1>1. Init /\ Typing /\ HandlersInv
  BY TypingInit, HandlersInvInit DEF MetricsInit, HandlersInit
<1>2. counters \in [Processes -> [Outcomes -> Nat]]
  BY DEF MetricsInit, Zero
<1>3. ASSUME NEW o \in Outcomes
      PROVE  Total(Shown(o)) + Cardinality(Uncounted(o)) <= Cardinality(Logged(o))
  <2>1. Marks(Shown(o)) = {}
    BY <1>3 DEF Marks, Shown, MetricsInit, Zero
  <2>2. Total(Shown(o)) = 0
    BY <2>1, FS_EmptySet DEF Marks, Total
  <2>3. Uncounted(o) = {}
    BY <1>1 DEF Uncounted, IsUncounted, Init, Executing
  <2>4. Cardinality(Uncounted(o)) = 0
    BY <2>3, FS_EmptySet
  <2> QED
    BY <1>1, <1>2, <2>2, <2>4, Sizes
<1>4. ReadInv
  BY DEF ReadInv, MetricsInit
<1> QED
  BY <1>1, <1>2, <1>3, <1>4 DEF MetricsInv, CountInv

(* A step that is of no call under way keeps the balance. *)
LEMMA ServiceBalances ==
    ASSUME Typing, Typing', MetricsInv, Handling, [Next]_vars, UNCHANGED counters,
           (\E t \in Threads : Start(t) \/ Raise(t)) \/ UNCHANGED local
    PROVE  CountInv'
<1>1. counters' \in [Processes -> [Outcomes -> Nat]]
      /\ \A p \in Processes, o \in Outcomes : counters'[p][o] <= counters[p][o]
  BY DEF MetricsInv, CountInv
<1>2. ASSUME NEW o \in Outcomes, NEW u \in Uncounted(o)'
      PROVE  u \in Uncounted(o)
  <2>1. u \in Threads /\ pc'[u] # "idle" /\ pc'[u] \in Executing \cup {"enqueue"}
    BY <1>2 DEF Uncounted, IsUncounted, Executing
  <2>2. pc'[u] = pc[u] /\ call'[u] = call[u]
    <3>1. CASE UNCHANGED local
      BY <3>1 DEF local
    <3>2. ASSUME NEW t \in Threads, Start(t) \/ Raise(t)
          PROVE  pc'[u] = pc[u] /\ call'[u] = call[u]
      <4>1. pc'[t] \in {"idle", "evaluate", "get", "get_execution"}
        BY <3>2 DEF Start, Raise, Return, Authorize, ResolveApproval, ExecuteApproval, Begin,
          Typing, TypeOK
      <4>2. u # t
        BY <2>1, <4>1 DEF Executing
      <4> QED
        BY <2>1, <3>2, <4>2, ActsAlone
    <3> QED
      BY <3>1, <3>2
  <2>3. handler'[u] = handler[u]
    BY <2>1, <2>2 DEF Handling, HandlerOf, Executing
  <2> QED
    BY <1>2, <2>1, <2>2, <2>3 DEF Uncounted, IsUncounted
<1> QED
  BY <1>1, <1>2, OthersBalance DEF MetricsInv

(* So does a restart, which loses what was counted. *)
LEMMA RestartBalances ==
    ASSUME Typing, Typing', MetricsInv, Handling, NEW p \in Processes, Restart(p)
    PROVE  CountInv'
<1>1. counters \in [Processes -> [Outcomes -> Nat]] /\ counters' = [counters EXCEPT ![p] = Zero]
  BY DEF Restart, MetricsInv, CountInv
<1>2. /\ counters' \in [Processes -> [Outcomes -> Nat]]
      /\ \A q \in Processes, o \in Outcomes : counters'[q][o] <= counters[q][o]
  <2>1. Zero \in [Outcomes -> Nat] /\ \A o \in Outcomes : Zero[o] = 0
    BY DEF Zero
  <2> QED
    BY <1>1, <2>1
<1>3. [Next]_vars
  BY DEF Restart, Next
<1>4. ASSUME NEW o \in Outcomes, NEW u \in Uncounted(o)'
      PROVE  u \in Uncounted(o)
  <2>1. u \in Threads /\ pc'[u] # "idle"
    BY <1>4 DEF Uncounted, IsUncounted, Executing
  <2>2. pc'[u] = pc[u] /\ call'[u] = call[u]
    BY <2>1 DEF Restart, Crash, vars
  <2>3. handler'[u] = handler[u]
    BY <2>1, <2>2 DEF Handling, HandlerOf
  <2> QED
    BY <1>4, <2>1, <2>2, <2>3 DEF Uncounted, IsUncounted
<1> QED
  BY <1>2, <1>3, <1>4, OthersBalance DEF MetricsInv

(* Every step of Metrics is one of the handlers', or of nobody. *)
LEMMA MetricsMoves ==
    ASSUME [MetricsNext]_metricsVars
    PROVE  /\ [HandlersNext]_handlerVars \/ (UNCHANGED vars /\ Handling)
           /\ [Next]_vars
  BY DEF MetricsNext, metricsVars, handlerVars, HandlersNext, Next, Restart

(* What a GET /metrics under way has read stays in the log. *)
LEMMA ReadStays ==
    ASSUME Typing, Typing', MetricsInv, [MetricsNext]_metricsVars
    PROVE  ReadInv'
<1>1. Cardinality(Lines) \in Nat /\ Cardinality(Lines') \in Nat /\ Cardinality(Lines) <= Cardinality(Lines')
  <2>1. (Typing => LogFinite)'
    BY LinesFinite, PTL
  <2>2. IsFiniteSet(Lines) /\ IsFiniteSet(Lines')
    BY <2>1, LinesFinite DEF LogFinite
  <2>3. Lines \in SUBSET Lines'
    BY MetricsMoves, LoggedStays
  <2> QED
    BY <2>2, <2>3, FS_Subset, FS_CardinalityType
<1>2. CASE UNCHANGED metrics
  BY <1>1, <1>2 DEF MetricsInv, ReadInv
<1>3. ASSUME NEW p \in Processes, BeginMetrics(p), UNCHANGED <<handlerVars, counters>>
      PROVE  ReadInv'
  <2>1. metrics' = [metrics EXCEPT ![p] = Decisions(p)]
    BY <1>3 DEF BeginMetrics, Read, MetricsReads
  <2>2. Decisions(p) \in Nat /\ Decisions(p) <= Cardinality(Lines)
    BY DecisionsLogged DEF MetricsInv
  <2> HIDE DEF Decisions
  <2> QED
    BY <1>1, <2>1, <2>2 DEF MetricsInv, ReadInv
<1>4. ASSUME NEW p \in Processes, metrics' = [metrics EXCEPT ![p] = None]
      PROVE  ReadInv'
  BY <1>1, <1>4 DEF MetricsInv, ReadInv
<1> QED
  BY <1>2, <1>3, <1>4 DEF MetricsNext, metricsVars, AnswerMetrics, Restart

\* No step shows more than the log has, or takes from the log what was shown.
THEOREM MetricsInvStep ==
    /\ ExecutionInv /\ Typing' /\ LedgerInv
    /\ MetricsInv /\ [MetricsNext]_metricsVars
    => MetricsInv'
<1> SUFFICES ASSUME ExecutionInv, Typing', LedgerInv, MetricsInv, [MetricsNext]_metricsVars
             PROVE  MetricsInv'
  OBVIOUS
<1>1. Typing
  BY DEF ExecutionInv, Typing
<1>2. HandlersInv'
  <2>1. CASE [HandlersNext]_handlerVars
    BY <2>1, HandlersInvStep DEF MetricsInv
  <2>2. CASE UNCHANGED vars /\ Handling
    <3> SUFFICES ASSUME NEW t \in Threads
                 PROVE  HandlerInv(t)'
      BY DEF HandlersInv
    <3>1. UNCHANGED <<pc, call, rows, trail>> /\ (pc[t] # "idle" => handler'[t] = handler[t])
      BY <2>2 DEF vars, Handling, HandlerOf
    <3> QED
      BY <3>1 DEF MetricsInv, HandlersInv, HandlerInv, ApprovalLogged, InAuthorize, InResolve, Executing
  <2> QED
    BY <2>1, <2>2, MetricsMoves
<1>3. CountInv'
  <2>1. ASSUME NEW t \in Threads, Step(t), Count(t), Handling
        PROVE  CountInv'
    BY <1>1, <2>1, StepBalances DEF MetricsInv
  <2>2. ASSUME NEW t \in Threads, Start(t) \/ Raise(t), UNCHANGED counters, Handling
        PROVE  CountInv'
    <3>1. [Next]_vars
      BY <2>2 DEF Next
    <3> QED
      BY <1>1, <2>2, <3>1, ServiceBalances
  <2>3. ASSUME (\E r \in Requests : LateOrder(r)) \/ (\E m \in Mandates : Expire(m)),
               UNCHANGED counters, Handling
        PROVE  CountInv'
    <3>1. [Next]_vars /\ UNCHANGED local
      BY <2>3 DEF Next, LateOrder, Expire
    <3> QED
      BY <1>1, <2>3, <3>1, ServiceBalances
  <2>4. ASSUME NEW p \in Processes, Restart(p), Handling
        PROVE  CountInv'
    BY <1>1, <2>4, RestartBalances
  <2>5. CASE UNCHANGED <<handlerVars, counters>>
    BY <2>5 DEF MetricsInv, CountInv, handlerVars, vars, Total, Shown, Uncounted, IsUncounted,
      Logged, Lines
  <2> QED
    BY <2>1, <2>2, <2>3, <2>4, <2>5 DEF MetricsNext, metricsVars
<1>4. ReadInv'
  BY <1>1, ReadStays
<1> QED
  BY <1>2, <1>3, <1>4 DEF MetricsInv

\* Every behaviour with counters is one of the service.
THEOREM MetricsImplement == MetricsSpec => Spec
<1>1. MetricsInit => Init
  BY DEF MetricsInit, HandlersInit
<1>2. [MetricsNext]_metricsVars => [Next]_vars
  BY MetricsMoves
<1> QED
  BY <1>1, <1>2, PTL DEF MetricsSpec, Spec

\* The inductive invariant: counted and yet to be counted are in the log.
THEOREM MetricsInvariant == MetricsSpec => [](Typing /\ MetricsInv)
<1>1. MetricsSpec => [](ExecutionInv /\ LedgerInv /\ Typing)
  BY MetricsImplement, ExecutionInvariant, LedgerInvariant, PTL
<1>2. MetricsInit => MetricsInv
  BY MetricsInvInit
<1> QED
  BY <1>1, <1>2, MetricsInvStep, PTL DEF MetricsSpec

\* The counters of all processes together never show a decision that is not in
\* the audit log, whatever restarts, raises and races.
THEOREM CountersLogged == MetricsSpec => []CountersAreLogged
<1>1. Typing /\ MetricsInv => CountersAreLogged
  <2> SUFFICES ASSUME Typing, MetricsInv, NEW o \in Outcomes
               PROVE  Total(Shown(o)) <= Cardinality(Logged(o))
    BY DEF CountersAreLogged, Shown
  <2> QED
    BY Sizes DEF MetricsInv, CountInv
<1> QED
  BY <1>1, MetricsInvariant, PTL

\* No answer of GET /metrics shows more decisions than entries, though it reads
\* the two at different moments.
THEOREM MetricsOrdered == MetricsSpec => MetricsAreOrdered
<1>1. MetricsInv /\ [MetricsNext]_metricsVars =>
        [\A p \in Processes : AnswerMetrics(p) => MetricsReply(p).counters <= MetricsReply(p).entries]_metricsVars
  <2> SUFFICES ASSUME MetricsInv, NEW p \in Processes, AnswerMetrics(p)
               PROVE  MetricsReply(p).counters <= MetricsReply(p).entries
    OBVIOUS
  <2>1. metrics[p] <= Cardinality(Lines)
    BY DEF AnswerMetrics, MetricsInv, ReadInv
  <2>2. MetricsReply(p).counters = metrics[p] /\ MetricsReply(p).entries = Cardinality(Lines)
    BY DEF MetricsReply, MetricsReads, Read
  <2> QED
    BY <2>1, <2>2
<1> QED
  BY <1>1, MetricsInvariant, PTL DEF MetricsSpec, MetricsAreOrdered
=============================================================================
