--------------------------- MODULE AuditLogProofs ---------------------------
(***************************************************************************)
(* Theorems of AuditLog and AuditReader.  First within the scope the       *)
(* docstring of the code sets: one process, any number of threads, any     *)
(* restarts, no write cut short.  Then for any processes and any writes:   *)
(* what is lost is reported, and what GET /v1/audit-log says of the log is *)
(* so, for any limit and any cap.                                          *)
(***************************************************************************)
EXTENDS AuditReader, SequenceTheorems, NaturalsInduction, WellFoundedInduction, TLAPS

-----------------------------------------------------------------------------
(* The scan of an intact file finds its last entry. *)
LEMMA ScanOfChain ==
    ASSUME TypeOK, ChainIntact
    PROVE  ScanTip = LogTip
<1>1. lines \in Seq(Entry) /\ Len(lines) \in Nat
  BY DEF TypeOK
<1>2. \A i \in 1..Len(lines) : lines[i] # Garbage
  BY DEF ChainIntact, VerifyChain
<1>3. CASE lines = <<>>
  BY <1>3 DEF ScanTip, LogTip
<1>4. CASE lines # <<>>
  <2>1. Len(lines) \in 1..Len(lines) /\ 1 \in 1..Len(lines)
    BY <1>1, <1>4
  <2> DEFINE LastLine(i) == /\ \A j \in 1..i : lines[j] # Garbage
                            /\ i < Len(lines) => lines[i + 1] = Garbage
  <2>2. LastLine(Len(lines))
    BY <1>1, <1>2
  <2>3. ASSUME NEW i \in 1..Len(lines), LastLine(i)
        PROVE  i = Len(lines)
    <3>1. CASE i < Len(lines)
      BY <1>1, <1>2, <2>3, <3>1
    <3> QED
      BY <1>1, <3>1
  <2>4. (CHOOSE i \in 1..Len(lines) : LastLine(i)) = Len(lines)
    BY <2>1, <2>2, <2>3
  <2> QED
    BY <1>2, <1>4, <2>1, <2>4 DEF ScanTip, LogTip
<1> QED
  BY <1>3, <1>4

\* The tip of a log is a tip: genesis or the hash of an entry.
LEMMA LogTipType ==
    ASSUME TypeOK
    PROVE  LogTip \in Tip
<1>1. lines \in Seq(Entry)
  BY DEF TypeOK
<1>2. lines # <<>> => lines[Len(lines)] \in Entry
  BY <1>1
<1> QED
  BY <1>2 DEF LogTip, Tip, Genesis, TipAfter, Entry

-----------------------------------------------------------------------------

\* An empty log with every lock free satisfies the invariant.
THEOREM ChainInit == Init => ChainInv
BY AuditLogAssumption
DEF Init, ChainInv, TypeOK, LockHeld, TipCurrent, ChainIntact, VerifyChain, AckedIsLogged,
    Entry, Garbage, Tip

\* With one writing process, every step of append, restart or crash keeps it.
THEOREM ChainStep == SoleWriterScope /\ ChainInv /\ [Next]_vars => ChainInv'
<1> SUFFICES ASSUME SoleWriterScope, ChainInv, [Next]_vars
             PROVE  ChainInv'
  OBVIOUS
<1>0. /\ lines \in Seq(Entry) /\ Len(lines) \in Nat
      /\ tip \in [Processes -> Tip \cup {NoTip}]
      /\ pc \in [Threads -> {"idle", "build", "write", "publish"}]
      /\ entry \in [Threads -> Entry]
      /\ built \in Nat /\ acked \in SUBSET Nat
      /\ holder \in Threads \cup {Nobody}
      /\ ProcessOf \in [Threads -> Processes] /\ Nobody \notin Threads
  BY AuditLogAssumption DEF ChainInv, TypeOK
<1>1. CASE UNCHANGED vars
  BY <1>1 DEF vars, ChainInv, TypeOK, LockHeld, TipCurrent, LogTip, ChainIntact, VerifyChain,
    AckedIsLogged
<1>2. ASSUME NEW t \in Threads, AcquireLock(t)
      PROVE  ChainInv'
  BY <1>0, <1>2 DEF AcquireLock, ChainInv, TypeOK, LockHeld, TipCurrent, LogTip, ChainIntact,
    VerifyChain, AckedIsLogged
<1>3. ASSUME NEW t \in Threads, BuildEntry(t)
      PROVE  ChainInv'
  <2> DEFINE p == ProcessOf[t]
  <2>1. p \in Processes /\ \A u \in Threads : u # t => pc[u] = "idle"
    BY <1>0, <1>3 DEF BuildEntry, ChainInv, LockHeld
  <2>2. TipFor(p) = LogTip
    BY <1>3, <2>1, ScanOfChain DEF BuildEntry, TipFor, ChainInv, TipCurrent
  <2>3. LogTip \in Tip
    BY LogTipType DEF ChainInv
  <2> DEFINE e == [seq |-> LogTip.seq + 1, prev |-> LogTip.hash, hash |-> built + 1]
  <2>4. /\ tip' = [tip EXCEPT ![p] = LogTip]
        /\ entry' = [entry EXCEPT ![t] = e]
        /\ pc' = [pc EXCEPT ![t] = "write"]
        /\ built' = built + 1
        /\ UNCHANGED <<lines, terminated, holder, acked>>
    BY <1>3, <2>2 DEF BuildEntry
  <2>5. e \in Entry
    BY <1>0, <2>3 DEF Entry, Tip
  <2>6. LogTip.seq = Len(lines)
    <3>1. CASE lines = <<>>
      BY <3>1 DEF LogTip, Genesis
    <3>2. CASE lines # <<>>
      <4>1. Len(lines) \in 1..Len(lines)
        BY <1>0, <3>2
      <4>2. lines[Len(lines)].seq = Len(lines)
        BY <4>1 DEF ChainInv, ChainIntact, VerifyChain
      <4> QED
        BY <3>2, <4>2 DEF LogTip, TipAfter
    <3> QED
      BY <3>1, <3>2
  <2>7. TypeOK'
    BY <1>0, <2>1, <2>3, <2>4, <2>5 DEF ChainInv, TypeOK
  <2>8. LogTip' = LogTip
    BY <2>4 DEF LogTip
  <2>9. \A q \in Processes : tip'[q] = LogTip
    BY <1>0, <2>1, <2>4 DEF SoleWriterScope
  <2>10. pc'[t] = "write" /\ entry'[t] = e /\ \A u \in Threads : u # t => pc'[u] = "idle"
    BY <1>0, <2>1, <2>4
  <2>11. TipCurrent'
    BY <2>4, <2>6, <2>8, <2>9, <2>10 DEF TipCurrent
  <2>12. LockHeld'
    BY <1>0, <1>3, <2>4, <2>10 DEF LockHeld, ChainInv, BuildEntry
  <2> QED
    BY <2>4, <2>7, <2>11, <2>12 DEF ChainInv, ChainIntact, VerifyChain, AckedIsLogged
<1>4. ASSUME NEW t \in Threads, WriteEntry(t)
      PROVE  ChainInv'
  <2>1. \A u \in Threads : u # t => pc[u] = "idle"
    BY <1>0, <1>4 DEF WriteEntry, ChainInv, LockHeld
  <2>2. /\ lines' = Append(lines, entry[t]) /\ terminated'
        /\ pc' = [pc EXCEPT ![t] = "publish"]
        /\ UNCHANGED <<tip, holder, entry, built, acked>>
    BY <1>4 DEF WriteEntry, AddText, ChainInv
  <2>3. entry[t] \in Entry /\ entry[t].seq = Len(lines) + 1 /\ entry[t].prev = LogTip.hash
    BY <1>0, <1>4 DEF WriteEntry, ChainInv, TipCurrent
  <2>4. /\ lines' \in Seq(Entry) /\ Len(lines') = Len(lines) + 1 /\ lines' # <<>>
        /\ lines'[Len(lines) + 1] = entry[t]
        /\ \A i \in 1..Len(lines) : lines'[i] = lines[i]
    BY <1>0, <2>2, <2>3
  <2>5. TypeOK'
    BY <1>0, <2>2, <2>4 DEF ChainInv, TypeOK
  <2>6. ASSUME NEW i \in 1..Len(lines')
        PROVE  /\ lines'[i] # Garbage
               /\ lines'[i].prev = (IF i = 1 THEN Genesis.hash ELSE lines'[i - 1].hash)
               /\ lines'[i].seq = i
    <3>1. CASE i \in 1..Len(lines)
      <4>1. i # 1 => i - 1 \in 1..Len(lines)
        BY <1>0, <3>1
      <4>2. /\ lines[i] # Garbage
            /\ lines[i].prev = (IF i = 1 THEN Genesis.hash ELSE lines[i - 1].hash)
            /\ lines[i].seq = i
        BY <3>1 DEF ChainInv, ChainIntact, VerifyChain
      <4> QED
        BY <2>4, <3>1, <4>1, <4>2
    <3>2. CASE i = Len(lines) + 1
      <4>1. lines'[i].seq = i /\ lines'[i].prev = LogTip.hash
        BY <2>3, <2>4, <3>2
      <4>2. lines'[i] # Garbage
        BY <1>0, <3>2, <4>1 DEF Garbage
      <4>3. LogTip.hash = (IF i = 1 THEN Genesis.hash ELSE lines'[i - 1].hash)
        <5>1. CASE lines = <<>>
          BY <3>2, <5>1 DEF LogTip
        <5>2. CASE lines # <<>>
          <6>1. Len(lines) \in 1..Len(lines) /\ i # 1 /\ i - 1 = Len(lines)
            BY <1>0, <3>2, <5>2
          <6> QED
            BY <2>4, <5>2, <6>1 DEF LogTip, TipAfter
        <5> QED
          BY <5>1, <5>2
      <4> QED
        BY <4>1, <4>2, <4>3
    <3> QED
      BY <1>0, <2>4, <3>1, <3>2
  <2>7. ChainIntact'
    BY <2>6 DEF ChainIntact, VerifyChain
  <2>8. pc'[t] = "publish" /\ \A u \in Threads : u # t => pc'[u] = "idle"
    BY <1>0, <2>1, <2>2
  <2>9. TipCurrent'
    BY <2>2, <2>4, <2>8 DEF TipCurrent
  <2>10. AckedIsLogged'
    <3> SUFFICES ASSUME NEW h \in acked
                 PROVE  \E i \in 1..Len(lines') : lines'[i].hash = h
      BY <2>2 DEF AckedIsLogged
    <3>1. PICK i \in 1..Len(lines) : lines[i].hash = h
      BY DEF ChainInv, AckedIsLogged
    <3> QED
      BY <1>0, <2>4, <3>1
  <2>11. LockHeld'
    BY <1>0, <1>4, <2>2, <2>8 DEF LockHeld, ChainInv, WriteEntry
  <2> QED
    BY <2>2, <2>5, <2>7, <2>9, <2>10, <2>11 DEF ChainInv
<1>5. ASSUME NEW t \in Threads, PublishTip(t)
      PROVE  ChainInv'
  <2>1. \A u \in Threads : u # t => pc[u] = "idle"
    BY <1>0, <1>5 DEF PublishTip, ChainInv, LockHeld
  <2>2. lines # <<>> /\ lines[Len(lines)] = entry[t]
    BY <1>5 DEF PublishTip, ChainInv, TipCurrent
  <2>3. TipAfter(entry[t]) = LogTip /\ LogTip \in Tip
    BY <2>2, LogTipType DEF LogTip, ChainInv
  <2>4. /\ tip' = [tip EXCEPT ![ProcessOf[t]] = LogTip]
        /\ acked' = acked \cup {entry[t].hash}
        /\ holder' = Nobody
        /\ pc' = [pc EXCEPT ![t] = "idle"]
        /\ entry' = [entry EXCEPT ![t] = Garbage]
        /\ UNCHANGED <<lines, terminated, built>>
    BY <1>5, <2>3 DEF PublishTip
  <2>5. Garbage \in Entry /\ entry[t].hash \in Nat
    BY <1>0 DEF Garbage, Entry
  <2>6. TypeOK'
    BY <1>0, <2>3, <2>4, <2>5 DEF ChainInv, TypeOK
  <2>7. \A u \in Threads : pc'[u] = "idle"
    BY <1>0, <2>1, <2>4
  <2>8. LogTip' = LogTip
    BY <2>4 DEF LogTip
  <2>9. \A q \in Processes : tip'[q] = LogTip
    BY <1>0, <2>4 DEF SoleWriterScope
  <2>10. TipCurrent' /\ LockHeld'
    BY <2>7, <2>8, <2>9 DEF TipCurrent, LockHeld
  <2>11. AckedIsLogged'
    <3>1. Len(lines) \in 1..Len(lines)
      BY <1>0, <2>2
    <3> QED
      BY <2>2, <2>4, <3>1 DEF AckedIsLogged, ChainInv
  <2> QED
    BY <2>4, <2>6, <2>10, <2>11 DEF ChainInv, ChainIntact, VerifyChain
<1>6. ASSUME NEW t \in Threads, WriteFails(t)
      PROVE  ChainInv'
  <2>1. \A u \in Threads : u # t => pc[u] = "idle"
    BY <1>0, <1>6 DEF WriteFails, ChainInv, LockHeld
  <2>2. /\ holder' = Nobody
        /\ pc' = [pc EXCEPT ![t] = "idle"]
        /\ entry' = [entry EXCEPT ![t] = Garbage]
        /\ UNCHANGED <<lines, terminated, tip, built, acked>>
    BY <1>6 DEF WriteFails, SoleWriterScope
  <2>3. Garbage \in Entry
    BY DEF Garbage, Entry
  <2>4. TypeOK'
    BY <1>0, <2>2, <2>3 DEF ChainInv, TypeOK
  <2>5. \A u \in Threads : pc[u] # "publish" /\ pc'[u] = "idle"
    BY <1>0, <1>6, <2>1, <2>2 DEF WriteFails
  <2>6. LogTip' = LogTip
    BY <2>2 DEF LogTip
  <2>7. TipCurrent' /\ LockHeld'
    BY <2>2, <2>5, <2>6 DEF TipCurrent, LockHeld, ChainInv
  <2> QED
    BY <2>2, <2>4, <2>7 DEF ChainInv, ChainIntact, VerifyChain, AckedIsLogged
<1>7. ASSUME NEW p \in Processes, Restart(p)
      PROVE  ChainInv'
  <2>1. \A t \in Threads : ProcessOf[t] = p
    BY <1>0 DEF SoleWriterScope
  <2>2. \A t \in Threads : pc'[t] = "idle" /\ entry'[t] = Garbage
    BY <1>7, <2>1 DEF Restart
  <2>3. Garbage \in Entry
    BY DEF Garbage, Entry
  <2>4. TypeOK'
    BY <1>0, <1>7, <2>3 DEF Restart, ChainInv, TypeOK
  <2>5. \A q \in Processes : tip'[q] = NoTip
    BY <1>0, <1>7 DEF Restart, SoleWriterScope
  <2>6. TipCurrent' /\ LockHeld'
    BY <2>2, <2>5 DEF TipCurrent, LockHeld
  <2> QED
    BY <1>7, <2>4, <2>6 DEF Restart, ChainInv, ChainIntact, VerifyChain, AckedIsLogged
<1> QED
  BY <1>1, <1>2, <1>3, <1>4, <1>5, <1>6, <1>7 DEF Next

\* The inductive invariant of the sole writer: the cached tip is the file's
\* whenever nobody is between the write and the update of the tip.
THEOREM ChainInvariant == SoleWriterScope => (Spec => []ChainInv)
<1> SUFFICES ASSUME SoleWriterScope
             PROVE  Spec => []ChainInv
  OBVIOUS
<1>1. ChainInv /\ [Next]_vars => ChainInv'
  BY ChainStep
<1> QED
  BY <1>1, ChainInit, PTL DEF Spec

\* With a single writer process the chain verifies at every moment, under any
\* interleaving of its threads and any restart.
THEOREM SoleWriterChain == SoleWriterScope => (Spec => []ChainIntact)
<1>1. ChainInv => ChainIntact
  BY DEF ChainInv
<1> QED
  BY <1>1, ChainInvariant, PTL

\* And no entry append_entry() returned is missing from the file.
THEOREM SoleWriterKeepsEntries == SoleWriterScope => (Spec => []AckedIsLogged)
<1>1. ChainInv => AckedIsLogged
  BY DEF ChainInv
<1> QED
  BY <1>1, ChainInvariant, PTL

-----------------------------------------------------------------------------
(* One call, one step *)

\* No hash is given out twice, and the one about to be written is in no line.
FreshInv ==
    /\ built <= MaxAppends
    /\ \A i \in 1..Len(lines) : lines[i].hash \in 1..built
    /\ \A t \in Threads :
        /\ pc[t] = "build" => built < MaxAppends
        /\ pc[t] = "write" => /\ entry[t].hash \in 1..built
                              /\ \A i \in 1..Len(lines) : lines[i].hash # entry[t].hash
        /\ pc[t] = "publish" => entry[t].hash \in 1..built

\* Nothing is built and nothing is written at first.
THEOREM FreshInit == Init => FreshInv
BY AuditLogAssumption DEF Init, FreshInv

\* Entries are built under the lock, each with the next hash.
THEOREM FreshStep == SoleWriterScope /\ ChainInv /\ FreshInv /\ [Next]_vars => FreshInv'
<1> SUFFICES ASSUME SoleWriterScope, ChainInv, FreshInv, [Next]_vars
             PROVE  FreshInv'
  OBVIOUS
<1>0. /\ lines \in Seq(Entry) /\ Len(lines) \in Nat
      /\ pc \in [Threads -> {"idle", "build", "write", "publish"}]
      /\ entry \in [Threads -> Entry]
      /\ built \in Nat /\ MaxAppends \in Nat
      /\ ProcessOf \in [Threads -> Processes] /\ Nobody \notin Threads
  BY AuditLogAssumption DEF ChainInv, TypeOK
<1>1. CASE UNCHANGED vars
  BY <1>1 DEF vars, FreshInv
<1>2. ASSUME NEW t \in Threads, AcquireLock(t)
      PROVE  FreshInv'
  BY <1>0, <1>2 DEF AcquireLock, FreshInv
<1>3. ASSUME NEW t \in Threads, BuildEntry(t)
      PROVE  FreshInv'
  <2>1. \A u \in Threads : u # t => pc[u] = "idle"
    BY <1>0, <1>3 DEF BuildEntry, ChainInv, LockHeld
  <2>2. /\ \A u \in Threads : u # t => pc'[u] = "idle"
        /\ pc'[t] = "write" /\ entry'[t].hash = built + 1
        /\ built' = built + 1 /\ lines' = lines /\ built < MaxAppends
    BY <1>0, <1>3, <2>1 DEF BuildEntry, FreshInv
  <2>3. \A i \in 1..Len(lines) : lines[i].hash \in 1..built
    BY DEF FreshInv
  <2> QED
    BY <1>0, <2>2, <2>3 DEF FreshInv
<1>4. ASSUME NEW t \in Threads, WriteEntry(t)
      PROVE  FreshInv'
  <2>1. \A u \in Threads : u # t => pc[u] = "idle"
    BY <1>0, <1>4 DEF WriteEntry, ChainInv, LockHeld
  <2>2. /\ \A u \in Threads : u # t => pc'[u] = "idle"
        /\ pc'[t] = "publish" /\ entry'[t] = entry[t] /\ entry[t].hash \in 1..built
        /\ built' = built /\ lines' = Append(lines, entry[t])
    BY <1>0, <1>4, <2>1 DEF WriteEntry, AddText, ChainInv, FreshInv
  <2>3. /\ Len(lines') = Len(lines) + 1 /\ lines'[Len(lines) + 1] = entry[t]
        /\ \A i \in 1..Len(lines) : lines'[i] = lines[i]
    BY <1>0, <2>2
  <2>4. \A i \in 1..Len(lines) : lines[i].hash \in 1..built
    BY DEF FreshInv
  <2>5. \A i \in 1..Len(lines') : lines'[i].hash \in 1..built
    BY <1>0, <2>2, <2>3, <2>4
  <2>6. built <= MaxAppends
    BY DEF FreshInv
  <2> QED
    BY <2>2, <2>5, <2>6 DEF FreshInv
<1>5. ASSUME NEW t \in Threads, PublishTip(t) \/ WriteFails(t)
      PROVE  FreshInv'
  <2>1. /\ pc' = [pc EXCEPT ![t] = "idle"] /\ entry' = [entry EXCEPT ![t] = Garbage]
        /\ UNCHANGED <<lines, built>>
    BY <1>5 DEF PublishTip, WriteFails, SoleWriterScope
  <2> QED
    BY <1>0, <2>1 DEF FreshInv
<1>6. ASSUME NEW p \in Processes, Restart(p)
      PROVE  FreshInv'
  BY <1>0, <1>6 DEF Restart, FreshInv, SoleWriterScope
<1> QED
  BY <1>1, <1>2, <1>3, <1>4, <1>5, <1>6 DEF Next

\* An empty file is an empty log.
THEOREM AtomicInit == Init => Atomic!Init
BY DEF Init, Atomic!Init

\* The write is the step that logs, the update of the tip the one that returns.
THEOREM AtomicStep ==
    SoleWriterScope /\ ChainInv /\ FreshInv /\ [Next]_vars => [Atomic!Next]_(Atomic!vars)
<1> SUFFICES ASSUME SoleWriterScope, ChainInv, FreshInv, [Next]_vars
             PROVE  Atomic!Next \/ UNCHANGED Atomic!vars
  OBVIOUS
<1> DEFINE log == [i \in 1..Len(lines) |-> lines[i].hash]
           owed == [t \in Threads |-> IF pc[t] = "publish" THEN entry[t].hash ELSE 0]
<1>0. /\ lines \in Seq(Entry) /\ Len(lines) \in Nat
      /\ pc \in [Threads -> {"idle", "build", "write", "publish"}]
      /\ entry \in [Threads -> Entry]
      /\ built \in Nat /\ MaxAppends \in Nat
  BY AuditLogAssumption DEF ChainInv, TypeOK
<1>1. ASSUME NEW t \in Threads, pc[t] # "publish", pc'[t] # "publish",
             lines' = lines, acked' = acked,
             \A u \in Threads : u # t => pc'[u] = pc[u] /\ entry'[u] = entry[u]
      PROVE  UNCHANGED Atomic!vars
  <2>1. owed' = owed
    BY <1>1
  <2> QED
    BY <1>1, <2>1 DEF Atomic!vars
<1>2. ASSUME NEW t \in Threads, AcquireLock(t) \/ BuildEntry(t) \/ WriteFails(t)
      PROVE  UNCHANGED Atomic!vars
  <2>1. /\ pc[t] # "publish" /\ pc'[t] # "publish" /\ lines' = lines /\ acked' = acked
        /\ \A u \in Threads : u # t => pc'[u] = pc[u] /\ entry'[u] = entry[u]
    BY <1>0, <1>2 DEF AcquireLock, BuildEntry, WriteFails, SoleWriterScope
  <2> QED
    BY <1>1, <2>1
<1>3. ASSUME NEW t \in Threads, WriteEntry(t)
      PROVE  Atomic!Log(t)
  <2> DEFINE h == entry[t].hash
  <2>1. /\ lines' = Append(lines, entry[t]) /\ pc[t] = "write"
        /\ pc' = [pc EXCEPT ![t] = "publish"] /\ entry' = entry /\ acked' = acked
    BY <1>3 DEF WriteEntry, AddText, ChainInv
  <2>2. h \in 1..MaxAppends /\ \A i \in DOMAIN log : log[i] # h
    BY <1>0, <2>1 DEF FreshInv
  <2>3. log' = Append(log, h)
    <3>1. /\ Len(lines') = Len(lines) + 1 /\ lines'[Len(lines) + 1] = entry[t]
          /\ \A i \in 1..Len(lines) : lines'[i] = lines[i]
      BY <1>0, <2>1
    <3>2. log \in Seq(Nat) /\ Len(log) = Len(lines) /\ h \in Nat
      <4>1. \A i \in 1..Len(lines) : lines[i].hash \in Nat
        BY <1>0 DEF FreshInv
      <4>2. log \in [1..Len(lines) -> Nat]
        BY <4>1
      <4> HIDE DEF log
      <4> QED
        BY <1>0, <2>2, <4>2
    <3>3. /\ Append(log, h) \in Seq(Nat) /\ Len(Append(log, h)) = Len(lines) + 1
          /\ Append(log, h)[Len(lines) + 1] = h
          /\ \A i \in 1..Len(lines) : Append(log, h)[i] = log[i]
      BY <1>0, <3>2
    <3>4. /\ DOMAIN log' = 1..(Len(lines) + 1)
          /\ \A i \in DOMAIN log' : log'[i] = Append(log, h)[i]
      BY <1>0, <3>1, <3>3
    <3>5. log' \in Seq(Nat) /\ Len(log') = Len(lines) + 1
      BY <1>0, <3>3, <3>4
    <3> QED
      BY <3>3, <3>4, <3>5, SeqEqual
  <2>4. owed[t] = 0 /\ owed' = [owed EXCEPT ![t] = h]
    BY <1>0, <2>1
  <2> HIDE DEF log, owed, h
  <2>5. \E g \in 1..MaxAppends :
            /\ \A i \in DOMAIN log : log[i] # g
            /\ log' = Append(log, g)
            /\ owed' = [owed EXCEPT ![t] = g]
    BY <2>2, <2>3, <2>4
  <2> QED
    BY <2>1, <2>4, <2>5 DEF Atomic!Log, log, owed
<1>4. ASSUME NEW t \in Threads, PublishTip(t)
      PROVE  Atomic!Return(t)
  <2>1. /\ pc[t] = "publish" /\ pc' = [pc EXCEPT ![t] = "idle"]
        /\ entry' = [entry EXCEPT ![t] = Garbage]
        /\ acked' = acked \cup {entry[t].hash} /\ lines' = lines
    BY <1>4 DEF PublishTip
  <2>2. owed[t] = entry[t].hash /\ owed[t] # 0
    BY <1>0, <2>1 DEF FreshInv
  <2>3. owed' = [owed EXCEPT ![t] = 0]
    BY <1>0, <2>1
  <2> QED
    BY <2>1, <2>2, <2>3 DEF Atomic!Return
<1>5. ASSUME NEW p \in Processes, Restart(p)
      PROVE  \E T \in SUBSET Threads : Atomic!Forget(T)
  <2> DEFINE T == {t \in Threads : ProcessOf[t] = p}
  <2>1. owed' = [t \in Threads |-> IF t \in T THEN 0 ELSE owed[t]]
    BY <1>5 DEF Restart
  <2>2. UNCHANGED <<lines, acked>>
    BY <1>5 DEF Restart
  <2>3. T \in SUBSET Threads
    OBVIOUS
  <2>4. Atomic!Forget(T)
    BY <2>1, <2>2 DEF Atomic!Forget
  <2> QED
    BY <2>3, <2>4
<1>6. CASE UNCHANGED vars
  BY <1>6 DEF vars, Atomic!vars
<1> QED
  BY <1>2, <1>3, <1>4, <1>5, <1>6 DEF Next, Atomic!Next

\* One writing process makes append_entry() atomic, for any number of its threads
\* and any restarts: this is what Service takes it for.
THEOREM LogIsAtomic == SoleWriterScope => (Spec => ImplementsAtomicLog)
<1> SUFFICES ASSUME SoleWriterScope
             PROVE  Spec => ImplementsAtomicLog
  OBVIOUS
<1>1. Init => ChainInv /\ FreshInv /\ Atomic!Init
  BY ChainInit, FreshInit, AtomicInit
<1>2. ChainInv /\ FreshInv /\ [Next]_vars => (ChainInv /\ FreshInv)'
  BY ChainStep, FreshStep
<1>3. ChainInv /\ FreshInv /\ [Next]_vars => [Atomic!Next]_(Atomic!vars)
  BY AtomicStep
<1> QED
  BY <1>1, <1>2, <1>3, PTL DEF Spec, ImplementsAtomicLog, Atomic!Spec

-----------------------------------------------------------------------------
(* Any processes, any writes *)

\* A line of the file does not parse.
Damaged == \E i \in 1..Len(lines) : lines[i] = Garbage

\* The line with hash h is there and nothing can be added to it, or the file
\* is damaged for good.
Kept(h) ==
    \/ Damaged
    \/ \E i \in 1..Len(lines) : lines[i].hash = h /\ (i < Len(lines) \/ terminated)

\* What append_entry() returned, and what it is about to return, is kept.
LossInv ==
    /\ TypeOK
    /\ lines = <<>> => terminated
    /\ \A t \in Threads : pc[t] = "publish" => Kept(entry[t].hash)
    /\ \A h \in acked : Kept(h)

(* A line added leaves a file of entries, with at least a line. *)
LEMMA AddTextType ==
    ASSUME LossInv, NEW l \in Entry, AddText(l)
    PROVE  /\ lines' \in Seq(Entry) /\ lines' # <<>>
           /\ Len(lines') = (IF terminated THEN Len(lines) + 1 ELSE Len(lines))
<1>0. lines \in Seq(Entry) /\ Len(lines) \in Nat /\ Garbage \in Entry
  BY DEF LossInv, TypeOK, Garbage, Entry
<1>1. CASE terminated
  BY <1>0, <1>1 DEF AddText
<1>2. CASE ~terminated
  <2>1. lines # <<>> /\ Len(lines) \in 1..Len(lines)
    BY <1>0, <1>2 DEF LossInv
  <2>2. lines' = [lines EXCEPT ![Len(lines)] = Garbage]
    BY <1>2 DEF AddText
  <2> QED
    BY <1>0, <1>2, <2>1, <2>2
<1> QED
  BY <1>1, <1>2

(* Text added to the file damages it, or leaves its lines and adds one. *)
LEMMA AddTextGrows ==
    ASSUME LossInv, NEW l \in Entry, AddText(l)
    PROVE  \/ ~terminated /\ Damaged'
           \/ /\ terminated /\ Len(lines') = Len(lines) + 1 /\ lines'[Len(lines) + 1] = l
              /\ \A i \in 1..Len(lines) : lines'[i] = lines[i]
<1>0. lines \in Seq(Entry) /\ Len(lines) \in Nat
  BY DEF LossInv, TypeOK
<1>1. CASE terminated
  BY <1>0, <1>1 DEF AddText
<1>2. CASE ~terminated
  <2>1. Len(lines) \in 1..Len(lines)
    BY <1>0, <1>2 DEF LossInv
  <2>2. lines' = [lines EXCEPT ![Len(lines)] = Garbage]
    BY <1>2 DEF AddText
  <2>3. Len(lines') = Len(lines) /\ lines'[Len(lines)] = Garbage
    BY <1>0, <2>1, <2>2
  <2> QED
    BY <1>2, <2>1, <2>3 DEF Damaged, Garbage
<1> QED
  BY <1>1, <1>2

(* A file that is damaged stays so: whatever is added, the torn line remains. *)
LEMMA DamageStays ==
    ASSUME LossInv, NEW l \in Entry, AddText(l), Damaged
    PROVE  Damaged'
<1>0. lines \in Seq(Entry) /\ Len(lines) \in Nat
  BY DEF LossInv, TypeOK
<1>1. PICK i \in 1..Len(lines) : lines[i] = Garbage
  BY DEF Damaged
<1>2. CASE ~terminated /\ Damaged'
  BY <1>2
<1>3. CASE Len(lines') = Len(lines) + 1 /\ \A j \in 1..Len(lines) : lines'[j] = lines[j]
  <2>1. i \in 1..Len(lines') /\ lines'[i] = Garbage
    BY <1>0, <1>1, <1>3
  <2> QED
    BY <2>1 DEF Damaged, Garbage
<1> QED
  BY <1>2, <1>3, AddTextGrows

(* What is kept stays kept, whether the text added ends its line or not. *)
LEMMA KeptStays ==
    ASSUME LossInv, NEW l \in Entry, AddText(l), NEW h, Kept(h)
    PROVE  Kept(h)'
<1>0. lines \in Seq(Entry) /\ Len(lines) \in Nat
  BY DEF LossInv, TypeOK
<1>1. CASE Damaged
  BY <1>1, DamageStays DEF Kept
<1>2. CASE ~terminated /\ Damaged'
  BY <1>2 DEF Kept
<1>3. CASE /\ ~Damaged /\ Len(lines') = Len(lines) + 1
           /\ \A j \in 1..Len(lines) : lines'[j] = lines[j]
  <2>1. PICK i \in 1..Len(lines) : lines[i].hash = h
    BY <1>3 DEF Kept
  <2>2. i \in 1..Len(lines') /\ lines'[i].hash = h /\ i < Len(lines')
    BY <1>0, <1>3, <2>1
  <2> QED
    BY <2>2 DEF Kept
<1> QED
  BY <1>1, <1>2, <1>3, AddTextGrows

(* A set of naturals that is not empty has a least element. *)
LEMMA LeastOf ==
    ASSUME NEW S, S \subseteq Nat, S # {}
    PROVE  \E m \in S : \A k \in S : ~(k < m)
<1>1. PICK m \in S : \A k \in S : <<k, m>> \notin OpToRel(<, Nat)
  BY WFMin, NatLessThanWellFounded, Zenon
<1> QED
  BY <1>1, Zenon DEF OpToRel

(* The scan finds a tip in any file. *)
LEMMA ScanTipType ==
    ASSUME TypeOK
    PROVE  ScanTip \in Tip
<1>0. lines \in Seq(Entry) /\ Len(lines) \in Nat
  BY DEF TypeOK
<1>1. CASE lines = <<>> \/ lines[1] = Garbage
  BY <1>1 DEF ScanTip, Tip, Genesis
<1>2. CASE ~(lines = <<>> \/ lines[1] = Garbage)
  <2> DEFINE LastLine(i) == /\ \A j \in 1..i : lines[j] # Garbage
                            /\ i < Len(lines) => lines[i + 1] = Garbage
             torn == {i \in 1..Len(lines) : lines[i] = Garbage}
             n == CHOOSE i \in 1..Len(lines) : LastLine(i)
  <2>1. \E i \in 1..Len(lines) : LastLine(i)
    <3>1. CASE torn = {}
      <4>1. Len(lines) \in 1..Len(lines)
        BY <1>0, <1>2
      <4> QED
        BY <1>0, <3>1, <4>1
    <3>2. CASE torn # {}
      <4> HIDE DEF torn
      <4>0. torn \subseteq Nat
        BY DEF torn
      <4>1. PICK m \in torn : \A k \in torn : ~(k < m)
        BY <4>0, <3>2, LeastOf
      <4>2. m \in 1..Len(lines) /\ m # 1 /\ lines[m] = Garbage
        BY <1>2, <4>1 DEF torn
      <4>3. m - 1 \in 1..Len(lines)
        BY <1>0, <4>2
      <4>4. \A j \in 1..(m - 1) : j \in 1..Len(lines) /\ j < m
        BY <1>0, <4>2
      <4>5. LastLine(m - 1)
        BY <1>0, <4>1, <4>2, <4>4 DEF torn
      <4> QED
        BY <4>3, <4>5
    <3> QED
      BY <3>1, <3>2
  <2>2. n \in 1..Len(lines)
    BY <2>1
  <2>3. ScanTip = TipAfter(lines[n])
    BY <1>2 DEF ScanTip
  <2>4. lines[n] \in Entry
    BY <1>0, <2>2
  <2> QED
    BY <2>3, <2>4 DEF TipAfter, Tip, Entry
<1> QED
  BY <1>1, <1>2

\* The empty log has lost nothing.
THEOREM LossInit == Init => LossInv
BY AuditLogAssumption
DEF Init, LossInv, TypeOK, Entry, Garbage

\* No step of any process loses an entry without damaging the file for good.
THEOREM LossStep == LossInv /\ [Next]_vars => LossInv'
<1> SUFFICES ASSUME LossInv, [Next]_vars
             PROVE  LossInv'
  OBVIOUS
<1>0. /\ lines \in Seq(Entry) /\ Len(lines) \in Nat
      /\ tip \in [Processes -> Tip \cup {NoTip}]
      /\ pc \in [Threads -> {"idle", "build", "write", "publish"}]
      /\ entry \in [Threads -> Entry] /\ Garbage \in Entry
      /\ built \in Nat /\ acked \in SUBSET Nat
      /\ holder \in Threads \cup {Nobody}
      /\ ProcessOf \in [Threads -> Processes]
  BY AuditLogAssumption DEF LossInv, TypeOK, Entry, Garbage
<1>1. CASE UNCHANGED vars
  BY <1>1 DEF vars, LossInv, TypeOK, Kept, Damaged
<1>2. ASSUME NEW t \in Threads, AcquireLock(t)
      PROVE  LossInv'
  BY <1>0, <1>2 DEF AcquireLock, LossInv, TypeOK, Kept, Damaged
<1>3. ASSUME NEW t \in Threads, BuildEntry(t)
      PROVE  LossInv'
  <2> DEFINE last == TipFor(ProcessOf[t])
             e == [seq |-> last.seq + 1, prev |-> last.hash, hash |-> built + 1]
  <2>1. last \in Tip
    BY <1>0, ScanTipType DEF TipFor, LossInv
  <2>2. e \in Entry
    BY <1>0, <2>1 DEF Tip, Entry
  <2>3. /\ tip' = [tip EXCEPT ![ProcessOf[t]] = last]
        /\ entry' = [entry EXCEPT ![t] = e]
        /\ built' = built + 1
        /\ pc' = [pc EXCEPT ![t] = "write"]
        /\ UNCHANGED <<lines, terminated, holder, acked>>
    BY <1>3 DEF BuildEntry
  <2>4. TypeOK'
    BY <1>0, <2>1, <2>2, <2>3 DEF LossInv, TypeOK
  <2>5. \A u \in Threads : pc'[u] = "publish" => pc[u] = "publish" /\ entry'[u] = entry[u]
    BY <1>0, <2>3
  <2> QED
    BY <2>3, <2>4, <2>5 DEF LossInv, Kept, Damaged
<1>4. ASSUME NEW t \in Threads, WriteEntry(t)
      PROVE  LossInv'
  <2>1. /\ AddText(entry[t]) /\ terminated' = TRUE
        /\ pc' = [pc EXCEPT ![t] = "publish"]
        /\ UNCHANGED <<tip, holder, entry, built, acked>>
    BY <1>4 DEF WriteEntry
  <2>2. entry[t] \in Entry
    BY <1>0
  <2>3. lines' \in Seq(Entry)
    BY <2>1, <2>2, AddTextType
  <2>4. TypeOK'
    BY <1>0, <2>1, <2>3 DEF LossInv, TypeOK
  <2>5. Kept(entry[t].hash)'
    <3>1. CASE ~terminated /\ Damaged'
      BY <3>1 DEF Kept
    <3>2. CASE Len(lines') = Len(lines) + 1 /\ lines'[Len(lines) + 1] = entry[t]
      <4>1. Len(lines) + 1 \in 1..Len(lines')
        BY <1>0, <3>2
      <4>2. \E i \in 1..Len(lines') : lines'[i].hash = entry[t].hash /\ terminated'
        BY <2>1, <3>2, <4>1
      <4> QED
        BY <2>1, <4>2 DEF Kept
    <3> QED
      BY <2>1, <2>2, <3>1, <3>2, AddTextGrows
  <2>6. \A h : Kept(h) => Kept(h)'
    BY <2>1, <2>2, KeptStays
  <2>7. \A u \in Threads : pc'[u] = "publish" => u = t \/ pc[u] = "publish"
    BY <1>0, <2>1
  <2>8. \A u \in Threads : pc'[u] = "publish" => Kept(entry[u].hash)'
    BY <2>1, <2>5, <2>6, <2>7 DEF LossInv, Kept, Damaged
  <2>9. \A h \in acked' : Kept(h)'
    BY <2>1, <2>6 DEF LossInv
  <2> QED
    BY <2>1, <2>4, <2>8, <2>9 DEF LossInv, Kept, Damaged
<1>5. ASSUME NEW t \in Threads, PublishTip(t)
      PROVE  LossInv'
  <2>1. /\ pc[t] = "publish"
        /\ tip' = [tip EXCEPT ![ProcessOf[t]] = TipAfter(entry[t])]
        /\ acked' = acked \cup {entry[t].hash}
        /\ holder' = Nobody
        /\ pc' = [pc EXCEPT ![t] = "idle"]
        /\ entry' = [entry EXCEPT ![t] = Garbage]
        /\ UNCHANGED <<lines, terminated, built>>
    BY <1>5 DEF PublishTip
  <2>2. TipAfter(entry[t]) \in Tip /\ entry[t].hash \in Nat
    <3>1. entry[t] \in Entry
      BY <1>0
    <3> QED
      BY <3>1 DEF TipAfter, Tip, Entry
  <2>3. TypeOK'
    BY <1>0, <2>1, <2>2 DEF LossInv, TypeOK
  <2>4. \A u \in Threads : pc'[u] = "publish" => pc[u] = "publish" /\ entry'[u] = entry[u]
    BY <1>0, <2>1
  <2>5. \A h \in acked' : Kept(h)
    BY <2>1 DEF LossInv
  <2> QED
    BY <2>1, <2>3, <2>4, <2>5 DEF LossInv, Kept, Damaged
<1>6. ASSUME NEW t \in Threads, WriteFails(t)
      PROVE  LossInv'
  <2>1. /\ holder' = Nobody
        /\ pc' = [pc EXCEPT ![t] = "idle"]
        /\ entry' = [entry EXCEPT ![t] = Garbage]
        /\ UNCHANGED <<tip, built, acked>>
    BY <1>6 DEF WriteFails
  <2>2. \A u \in Threads : pc'[u] = "publish" => pc[u] = "publish" /\ entry'[u] = entry[u]
    BY <1>0, <2>1
  <2>3. CASE UNCHANGED <<lines, terminated>>
    <3>1. TypeOK'
      BY <1>0, <2>1, <2>3 DEF LossInv, TypeOK
    <3> QED
      BY <2>1, <2>2, <2>3, <3>1 DEF LossInv, Kept, Damaged
  <2>4. ASSUME NEW l \in {Garbage, entry[t]}, AddText(l), terminated' = FALSE
        PROVE  LossInv'
    <3>1. l \in Entry
      BY <1>0
    <3>2. lines' \in Seq(Entry) /\ lines' # <<>>
      BY <2>4, <3>1, AddTextType
    <3>3. TypeOK'
      BY <1>0, <2>1, <2>4, <3>2 DEF LossInv, TypeOK
    <3>4. \A h : Kept(h) => Kept(h)'
      BY <2>4, <3>1, KeptStays
    <3>5. \A u \in Threads : pc'[u] = "publish" => Kept(entry[u].hash)'
      <4> SUFFICES ASSUME NEW u \in Threads, pc'[u] = "publish"
                   PROVE  Kept(entry[u].hash)'
        OBVIOUS
      <4>1. PICK h : h = entry[u].hash
        OBVIOUS
      <4>2. Kept(h)'
        BY <2>2, <3>4, <4>1 DEF LossInv
      <4>3. h = entry'[u].hash
        BY <2>2, <4>1
      <4> QED
        BY <4>2, <4>3 DEF Kept, Damaged
    <3>6. \A h \in acked' : Kept(h)'
      BY <2>1, <3>4 DEF LossInv
    <3> QED
      BY <3>2, <3>3, <3>5, <3>6 DEF LossInv, Kept, Damaged
  <2> QED
    BY <1>6, <2>3, <2>4 DEF WriteFails
<1>7. ASSUME NEW p \in Processes, Restart(p)
      PROVE  LossInv'
  <2>1. TypeOK'
    BY <1>0, <1>7 DEF Restart, LossInv, TypeOK
  <2>2. \A u \in Threads : pc'[u] = "publish" => pc[u] = "publish" /\ entry'[u] = entry[u]
    BY <1>7 DEF Restart
  <2> QED
    BY <1>7, <2>1, <2>2 DEF Restart, LossInv, Kept, Damaged
<1> QED
  BY <1>1, <1>2, <1>3, <1>4, <1>5, <1>6, <1>7 DEF Next

\* The inductive invariant of the log of many writers: every entry that was, or
\* is about to be, returned is on a line nothing can be added to, or a torn
\* line remains.
THEOREM LossInvariant == Spec => []LossInv
BY LossInit, LossStep, PTL DEF Spec

\* The files, the caches, the lock and the calls have their types, whatever
\* processes write and wherever a write stops.
THEOREM LogTypeCorrect == Spec => []TypeOK
<1>1. LossInv => TypeOK
  BY DEF LossInv
<1> QED
  BY <1>1, LossInvariant, PTL

\* A file that is not damaged has every entry that was returned.
LEMMA UndamagedIsWhole ==
    ASSUME LossInv, ~Damaged
    PROVE  AckedIsLogged
<1> SUFFICES ASSUME NEW h \in acked
             PROVE  \E i \in 1..Len(lines) : lines[i].hash = h
  BY DEF AckedIsLogged
<1> QED
  BY DEF LossInv, Kept

\* With any number of processes appending, dying and being cut short, a file
\* that verify_chain() accepts lacks no entry append_entry() returned.
THEOREM LossReported == Spec => []LossIsReported
<1>1. LossInv => LossIsReported
  BY UndamagedIsWhole DEF LossIsReported, VerifyChain, Damaged
<1> QED
  BY <1>1, LossInvariant, PTL

-----------------------------------------------------------------------------
(* The reader beside the writers: what the verdict vouches for *)

\* What verify_chain() checks, of any list of entries.
Chained(s) ==
    \A i \in 1..Len(s) :
        /\ s[i].prev = (IF i = 1 THEN Genesis.hash ELSE s[i - 1].hash)
        /\ s[i].seq = i

\* The file still starts with the entries that were read.
StillThere ==
    /\ Len(got.entries) <= Len(lines)
    /\ \A i \in 1..Len(got.entries) : lines[i] = got.entries[i]

\* Between the two reads the file only grows behind what was read, unless it is
\* damaged, and then it stays so.
ReaderInv ==
    /\ LossInv
    /\ got \in [entries: Seq(Entry), returned: SUBSET Nat, intact: BOOLEAN]
    /\ reader = "failed" => Damaged
    /\ reader \in {"half", "answered"} =>
        /\ got.returned \subseteq {got.entries[i].hash : i \in DOMAIN got.entries}
        /\ Damaged \/ StillThere
    /\ reader = "answered" /\ got.intact => Chained(got.entries)

-----------------------------------------------------------------------------
(* Pages *)

(* Reversal puts the i-th entry from the end at place i. *)
LEMMA ReverseEntries ==
    ASSUME NEW s \in Seq(Entry)
    PROVE  /\ Len(Reverse(s)) = Len(s)
           /\ \A i \in 1..Len(s) : Reverse(s)[i] = s[Len(s) - i + 1]
BY DEF Reverse

(* A page of a log has the newest entries in reverse: its i-th is the i-th from
   the end, and it has one unless the log has none. *)
LEMMA PageEntries ==
    ASSUME NEW s \in Seq(Entry), NEW limit \in Limits
    PROVE  /\ Len(Page(s, limit)) \in 0..Len(s)
           /\ Len(s) > 0 => Len(Page(s, limit)) > 0
           /\ \A i \in 1..Len(Page(s, limit)) : Page(s, limit)[i] = s[Len(s) - i + 1]
<1> DEFINE capped == IF limit < 1 THEN 1 ELSE IF limit > MaxLimit THEN MaxLimit ELSE limit
           first  == IF Len(s) > capped THEN Len(s) - capped + 1 ELSE 1
           newest == SubSeq(s, first, Len(s))
<1>1. capped \in Nat \ {0} /\ Len(s) \in Nat
  BY ReaderAssumption
<1>2. first \in 1..(Len(s) + 1) /\ (Len(s) > 0 => first <= Len(s))
  BY <1>1
<1>3. \A i \in first..Len(s) : s[i] \in Entry
  BY <1>1, <1>2
<1> HIDE DEF capped, first
<1>4. /\ newest \in Seq(Entry)
      /\ Len(newest) = (IF first <= Len(s) THEN Len(s) - first + 1 ELSE 0)
      /\ \A i \in 1..(Len(s) - first + 1) : newest[i] = s[first + i - 1]
  BY <1>1, <1>2, <1>3, SubSeqProperties
<1>5. Page(s, limit) = Reverse(newest)
  BY DEF Page, first, capped
<1> HIDE DEF newest
<1>6. /\ Len(Page(s, limit)) = Len(newest)
      /\ \A i \in 1..Len(newest) : Page(s, limit)[i] = newest[Len(newest) - i + 1]
  BY <1>4, <1>5, ReverseEntries
<1>7. ASSUME NEW i \in 1..Len(newest)
      PROVE  newest[Len(newest) - i + 1] = s[Len(s) - i + 1]
  <2>1. Len(newest) = Len(s) - first + 1 /\ Len(newest) - i + 1 \in 1..(Len(s) - first + 1)
    BY <1>1, <1>2, <1>4
  <2>2. newest[Len(newest) - i + 1] = s[first + (Len(newest) - i + 1) - 1]
    BY <1>4, <2>1
  <2>3. first + (Len(newest) - i + 1) - 1 = Len(s) - i + 1
    BY <1>1, <1>2, <2>1
  <2> QED
    BY <2>2, <2>3
<1> QED
  BY <1>1, <1>2, <1>4, <1>6, <1>7

(* A page of a chain starts with the newest entry and chains backwards. *)
LEMMA PageOfChain ==
    ASSUME NEW s \in Seq(Entry), Chained(s), NEW limit \in Limits
    PROVE  /\ s # <<>> => Page(s, limit)[1] = Last(s)
           /\ \A i \in 1..(Len(Page(s, limit)) - 1) :
                  /\ Page(s, limit)[i].prev = Page(s, limit)[i + 1].hash
                  /\ Page(s, limit)[i].seq = Page(s, limit)[i + 1].seq + 1
<1> DEFINE page == Page(s, limit)
<1>0. /\ Len(s) \in Nat /\ Len(page) \in 0..Len(s)
      /\ Len(s) > 0 => Len(page) > 0
      /\ \A i \in 1..Len(page) : page[i] = s[Len(s) - i + 1]
  BY PageEntries
<1> HIDE DEF page
<1>1. s # <<>> => page[1] = Last(s)
  <2> SUFFICES ASSUME s # <<>>
               PROVE  page[1] = Last(s)
    OBVIOUS
  <2>1. Len(s) > 0 /\ 1 \in 1..Len(page)
    BY <1>0
  <2>2. page[1] = s[Len(s) - 1 + 1]
    BY <1>0, <2>1
  <2> QED
    BY <1>0, <2>2 DEF Last
<1>2. ASSUME NEW i \in 1..(Len(page) - 1)
      PROVE  page[i].prev = page[i + 1].hash /\ page[i].seq = page[i + 1].seq + 1
  <2> DEFINE n == Len(s) - i + 1
  <2>1. i \in 1..Len(page) /\ i + 1 \in 1..Len(page) /\ Len(s) - (i + 1) + 1 = n - 1
    BY <1>0
  <2>2. n \in 1..Len(s) /\ n - 1 \in 1..Len(s) /\ n # 1
    BY <1>0
  <2>3. page[i] = s[n] /\ page[i + 1] = s[n - 1]
    BY <1>0, <2>1
  <2>4. s[n].prev = s[n - 1].hash /\ s[n].seq = n /\ s[n - 1].seq = n - 1
    BY <2>2 DEF Chained
  <2> QED
    BY <1>0, <2>3, <2>4
<1> QED
  BY <1>1, <1>2 DEF page

-----------------------------------------------------------------------------
(* The steps of writers and reader *)

(* Whatever step the writers take, damage stays, and so does what was read. *)
LEMMA WritersKeep ==
    ASSUME LossInv, Next, UNCHANGED got, got.entries \in Seq(Entry)
    PROVE  /\ Damaged => Damaged'
           /\ StillThere => Damaged' \/ StillThere'
<1>0. /\ lines \in Seq(Entry) /\ Len(lines) \in Nat /\ Len(got.entries) \in Nat
      /\ entry \in [Threads -> Entry] /\ Garbage \in Entry
  BY DEF LossInv, TypeOK, Entry, Garbage
<1>1. CASE UNCHANGED lines
  BY <1>1 DEF Damaged, StillThere
<1>2. ASSUME NEW l \in Entry, AddText(l)
      PROVE  /\ Damaged => Damaged'
             /\ StillThere => Damaged' \/ StillThere'
  <2>1. Damaged => Damaged'
    BY <1>2, DamageStays
  <2>2. CASE /\ Len(lines') = Len(lines) + 1
             /\ \A i \in 1..Len(lines) : lines'[i] = lines[i]
    BY <1>0, <2>1, <2>2 DEF StillThere
  <2> QED
    BY <1>2, <2>1, <2>2, AddTextGrows
<1>3. UNCHANGED lines \/ \E l \in Entry : AddText(l)
  <2>1. ASSUME NEW t \in Threads, WriteEntry(t) \/ WriteFails(t)
        PROVE  UNCHANGED lines \/ \E l \in Entry : AddText(l)
    <3>1. entry[t] \in Entry
      BY <1>0
    <3> QED
      BY <1>0, <2>1, <3>1 DEF WriteEntry, WriteFails
  <2>2. ASSUME NEW t \in Threads, AcquireLock(t) \/ BuildEntry(t) \/ PublishTip(t)
        PROVE  UNCHANGED lines
    BY <2>2 DEF AcquireLock, BuildEntry, PublishTip
  <2>3. ASSUME NEW p \in Processes, Restart(p)
        PROVE  UNCHANGED lines
    BY <2>3 DEF Restart
  <2> QED
    BY <2>1, <2>2, <2>3 DEF Next
<1> QED
  BY <1>1, <1>2, <1>3

\* Every step of the reader is a stutter of the log.
THEOREM ReaderLeavesLog == ReaderSpec => Spec
<1>1. ReaderInit => Init
  BY DEF ReaderInit
<1>2. [ReaderNext]_allVars => [Next]_vars
  BY DEF ReaderNext, allVars
<1> QED
  BY <1>1, <1>2, PTL DEF ReaderSpec, Spec

\* Nobody has read anything at the start.
THEOREM ReaderInitial == ReaderInit => ReaderInv
BY LossInit DEF ReaderInit, ReaderInv, Nothing

\* No step of a writer, a restart or the reader takes from what the verdict
\* vouches for.
THEOREM ReaderStep == ReaderInv /\ [ReaderNext]_allVars => ReaderInv'
<1> SUFFICES ASSUME ReaderInv, [ReaderNext]_allVars
             PROVE  ReaderInv'
  OBVIOUS
<1>1. LossInv'
  <2>1. [Next]_vars
    BY DEF ReaderNext, allVars
  <2> QED
    BY <2>1, LossStep DEF ReaderInv
<1>0. /\ lines \in Seq(Entry) /\ Len(lines) \in Nat /\ got.entries \in Seq(Entry)
  BY DEF ReaderInv, LossInv, TypeOK
<1>2. CASE UNCHANGED allVars
  BY <1>1, <1>2 DEF ReaderInv, allVars, vars, readerVars, Damaged, StillThere, Chained
<1>3. CASE Next /\ UNCHANGED readerVars
  <2>1. UNCHANGED reader /\ UNCHANGED got
    BY <1>3 DEF readerVars
  <2>2. (Damaged => Damaged') /\ (StillThere => Damaged' \/ StillThere')
    BY <1>0, <1>3, <2>1, WritersKeep DEF ReaderInv
  <2>3. Chained(got.entries) => Chained(got.entries)'
    BY <2>1 DEF Chained
  <2> QED
    BY <1>1, <2>1, <2>2, <2>3 DEF ReaderInv
<1>4. CASE ReadFirst /\ UNCHANGED vars
  <2>1. /\ got' = [got EXCEPT !.entries = lines, !.returned = acked]
        /\ reader' = (IF Garbage \in ToSet(lines) THEN "failed" ELSE "half")
        /\ UNCHANGED <<lines, acked>>
    BY <1>4 DEF ReadFirst, Read, Reads, vars
  <2>2. /\ got' \in [entries: Seq(Entry), returned: SUBSET Nat, intact: BOOLEAN]
        /\ got'.entries = lines /\ got'.returned = acked
    BY <1>0, <2>1 DEF ReaderInv, LossInv, TypeOK
  <2>3. Garbage \in ToSet(lines) <=> Damaged
    BY <1>0 DEF ToSet, Damaged
  <2>4. Damaged' <=> Damaged
    BY <2>1 DEF Damaged, Garbage
  <2>5. reader' = "failed" => Damaged'
    BY <2>1, <2>3, <2>4
  <2>6. ~Damaged => acked \subseteq {lines[i].hash : i \in DOMAIN lines}
    BY <1>0, UndamagedIsWhole DEF ReaderInv, AckedIsLogged
  <2>7. reader' = "half" => got'.returned \subseteq {got'.entries[i].hash : i \in DOMAIN got'.entries}
    BY <2>1, <2>2, <2>3, <2>6
  <2>8. StillThere'
    BY <1>0, <2>1, <2>2 DEF StillThere
  <2> QED
    BY <1>1, <2>1, <2>2, <2>5, <2>7, <2>8 DEF ReaderInv
<1>5. CASE ReadSecond /\ UNCHANGED vars
  <2>1. /\ got' = [got EXCEPT !.intact = VerifyChain]
        /\ reader = "half" /\ reader' = "answered" /\ UNCHANGED lines
    BY <1>5 DEF ReadSecond, Read, Reads, vars
  <2>2. /\ got' \in [entries: Seq(Entry), returned: SUBSET Nat, intact: BOOLEAN]
        /\ got'.entries = got.entries /\ got'.returned = got.returned
        /\ got'.intact = VerifyChain
    BY <2>1 DEF ReaderInv, VerifyChain
  <2>3. (Damaged => Damaged') /\ (StillThere => StillThere')
    BY <2>1, <2>2 DEF Damaged, StillThere, Garbage
  <2>4. ASSUME VerifyChain
        PROVE  Chained(got'.entries)
    <3>1. ~Damaged
      BY <2>4 DEF VerifyChain, Damaged
    <3>2. StillThere
      BY <2>1, <3>1 DEF ReaderInv
    <3>3. \A i \in 1..Len(got.entries) : i \in 1..Len(lines) /\ (i # 1 => i - 1 \in 1..Len(got.entries))
      BY <1>0, <3>2 DEF StillThere
    <3>4. \A i \in 1..Len(got.entries) :
              /\ lines[i].prev = (IF i = 1 THEN Genesis.hash ELSE lines[i - 1].hash)
              /\ lines[i].seq = i
      BY <2>4, <3>3 DEF VerifyChain
    <3>5. \A i \in 1..Len(got.entries) : lines[i] = got.entries[i]
      BY <3>2 DEF StillThere
    <3>6. \A i \in 1..Len(got.entries) :
              lines[i - 1].hash = got.entries[i - 1].hash \/ i = 1
      BY <3>3, <3>5
    <3>7. Chained(got.entries)
      BY <3>4, <3>5, <3>6 DEF Chained
    <3> QED
      BY <2>2, <3>7
  <2>5. (reader' = "answered" /\ got'.intact) => Chained(got.entries)'
    BY <2>2, <2>4 DEF Chained
  <2> QED
    BY <1>1, <2>1, <2>2, <2>3, <2>5 DEF ReaderInv
<1>6. CASE Leave /\ UNCHANGED vars
  <2>1. got' = Nothing /\ reader' = "idle"
    BY <1>6 DEF Leave
  <2>2. got' \in [entries: Seq(Entry), returned: SUBSET Nat, intact: BOOLEAN]
    BY <2>1 DEF Nothing
  <2> QED
    BY <1>1, <2>1, <2>2 DEF ReaderInv
<1> QED
  BY <1>2, <1>3, <1>4, <1>5, <1>6 DEF ReaderNext

\* The inductive invariant of the endpoint beside the writers.
THEOREM ReaderInvariant == ReaderSpec => []ReaderInv
BY ReaderInitial, ReaderStep, PTL DEF ReaderSpec

\* An answer that says chain_intact is what it says, for every limit: its entries
\* chain, the newest first, with none missing that had been returned.
THEOREM PageVerified == ReaderSpec => []PageIsVerified
<1>1. ReaderInv => PageIsVerified
  <2> SUFFICES ASSUME ReaderInv, reader = "answered", got.intact
               PROVE  /\ got.returned \subseteq {got.entries[i].hash : i \in DOMAIN got.entries}
                      /\ \A limit \in Limits :
                          LET page == Page(got.entries, limit) IN
                          /\ got.entries # <<>> => page[1] = Last(got.entries)
                          /\ \A i \in 1..(Len(page) - 1) :
                                 /\ page[i].prev = page[i + 1].hash
                                 /\ page[i].seq = page[i + 1].seq + 1
    BY DEF PageIsVerified
  <2>1. got.entries \in Seq(Entry) /\ Chained(got.entries)
    BY DEF ReaderInv
  <2>2. got.returned \subseteq {got.entries[i].hash : i \in DOMAIN got.entries}
    BY DEF ReaderInv
  <2> QED
    BY <2>1, <2>2, PageOfChain
<1> QED
  BY <1>1, ReaderInvariant, PTL

\* The endpoint fails only over a file verify_chain() rejects, and from then on
\* rejects at every moment.
THEOREM FailureMeansDamage == ReaderSpec => []FailureIsDamage
<1>1. ReaderInv => FailureIsDamage
  BY DEF ReaderInv, FailureIsDamage, VerifyChain, Damaged
<1> QED
  BY <1>1, ReaderInvariant, PTL

\* With readers beside the writers too, the verdict reports every loss.
THEOREM LossReportedToReaders == ReaderSpec => []LossIsReported
BY ReaderLeavesLog, LossReported, PTL
=============================================================================
