------------------------------ MODULE AuditLog ------------------------------
(***************************************************************************)
(* The hash-chained audit log (audit_log.py): append_entry() by threads of *)
(* one or more processes under the lock on the sidecar file, the cache of  *)
(* the log's tip that each process keeps, writes cut short, crashes and    *)
(* restarts, and verify_chain().                                           *)
(*                                                                         *)
(* A hash is a number: no two entries have the same one, for each carries  *)
(* the fresh decision_id of its call.  0 is GENESIS_HASH.                  *)
(***************************************************************************)
EXTENDS Naturals, Sequences

CONSTANTS
    Threads,      \* threads that append
    Processes,    \* the processes they run in
    ProcessOf,
    Nobody,       \* holder of a free lock
    NoTip,        \* no entry for the log in a process's cache
    TornWrites,   \* whether a write can stop half-way (a kill, a full disk)
    MaxAppends    \* bound: entries ever built

ASSUME AuditLogAssumption ==
    /\ ProcessOf \in [Threads -> Processes]
    /\ Nobody \notin Threads
    /\ NoTip \notin [seq: Nat, hash: Nat]
    /\ TornWrites \in BOOLEAN
    /\ MaxAppends \in Nat

VARIABLES
    lines,       \* the file, line by line
    terminated,  \* the file is empty or ends with a newline
    tip,         \* _tip_cache of each process
    holder,      \* the thread that holds the file lock
    pc, entry,   \* where a thread is in append_entry(), the entry it built
    built,       \* number of entries built so far, the last hash given out
    acked        \* hashes of the entries append_entry() returned

vars == <<lines, terminated, tip, holder, pc, entry, built, acked>>

-----------------------------------------------------------------------------

Entry == [seq: Nat, prev: Nat, hash: Nat]
\* A line json.loads() rejects, and the entry of an idle thread.
Garbage == [seq |-> 0, prev |-> 0, hash |-> 0]
Tip == [seq: Nat, hash: Nat]
Genesis == [seq |-> 0, hash |-> 0]
\* Mutant: the entry itself, with its previous hash.
TipAfterWhole(e) == e

TipAfter(e) == [seq |-> e.seq, hash |-> e.hash]

\* _scan_tip(): the last line before the first one that does not parse.
ScanTip ==
    IF lines = <<>> \/ lines[1] = Garbage
    THEN Genesis
    ELSE LET n == CHOOSE i \in 1..Len(lines) :
                    /\ \A j \in 1..i : lines[j] # Garbage
                    /\ i < Len(lines) => lines[i + 1] = Garbage
         IN  TipAfter(lines[n])

\* Mutant: lines that do not parse are skipped.
VerifyChainSkipping ==
    LET Parses(l) == l # Garbage
        parsed == SelectSeq(lines, Parses) IN
    \A i \in 1..Len(parsed) :
        /\ parsed[i].prev = (IF i = 1 THEN Genesis.hash ELSE parsed[i - 1].hash)
        /\ parsed[i].seq = i

\* verify_chain() answers True.
VerifyChain ==
    \A i \in 1..Len(lines) :
        /\ lines[i] # Garbage
        /\ lines[i].prev = (IF i = 1 THEN Genesis.hash ELSE lines[i - 1].hash)
        /\ lines[i].seq = i

Init ==
    /\ lines = <<>>
    /\ terminated = TRUE
    /\ tip = [p \in Processes |-> NoTip]
    /\ holder = Nobody
    /\ pc = [t \in Threads |-> "idle"]
    /\ entry = [t \in Threads |-> Garbage]
    /\ built = 0
    /\ acked = {}

-----------------------------------------------------------------------------
(* append_entry() *)

\* Mutant: no lock.
AcquireLockFree(t) ==
    /\ pc[t] = "idle"
    /\ built < MaxAppends
    /\ holder' = t
    /\ pc' = [pc EXCEPT ![t] = "build"]
    /\ UNCHANGED <<lines, terminated, tip, entry, built, acked>>

\* portalocker.Lock.__enter__: exclusive among all threads and processes.
AcquireLock(t) ==
    /\ pc[t] = "idle"
    /\ built < MaxAppends
    /\ holder = Nobody
    /\ holder' = t
    /\ pc' = [pc EXCEPT ![t] = "build"]
    /\ UNCHANGED <<lines, terminated, tip, entry, built, acked>>

\* _tip_for(): the cached tip, else a scan of the file, which is then cached.
TipFor(p) == IF tip[p] = NoTip THEN ScanTip ELSE tip[p]

BuildEntry(t) ==
    /\ pc[t] = "build"
    /\ LET last == TipFor(ProcessOf[t]) IN
        /\ tip' = [tip EXCEPT ![ProcessOf[t]] = last]
        /\ entry' = [entry EXCEPT ![t] =
                        [seq |-> last.seq + 1, prev |-> last.hash, hash |-> built + 1]]
    /\ built' = built + 1
    /\ pc' = [pc EXCEPT ![t] = "write"]
    /\ UNCHANGED <<lines, terminated, holder, acked>>

\* Mutant: the file is opened with mode "w".
AddTextTruncating(l) == lines' = <<l>>

\* Text added at the end of the file: a line of its own, or more of a line
\* that was cut short, and then nothing that parses.
AddText(l) ==
    lines' = IF terminated THEN Append(lines, l) ELSE [lines EXCEPT ![Len(lines)] = Garbage]

WriteEntry(t) ==
    /\ pc[t] = "write"
    /\ AddText(entry[t])
    /\ terminated' = TRUE
    /\ pc' = [pc EXCEPT ![t] = "publish"]
    /\ UNCHANGED <<tip, holder, entry, built, acked>>

\* Mutant: the cache is filled once and never moves on.
PublishTipStale(t) ==
    /\ pc[t] = "publish"
    /\ acked' = acked \cup {entry[t].hash}
    /\ holder' = Nobody
    /\ pc' = [pc EXCEPT ![t] = "idle"]
    /\ entry' = [entry EXCEPT ![t] = Garbage]
    /\ UNCHANGED <<lines, terminated, tip, built>>

\* The cache moves on, the lock is released and the entry returned.
PublishTip(t) ==
    /\ pc[t] = "publish"
    /\ tip' = [tip EXCEPT ![ProcessOf[t]] = TipAfter(entry[t])]
    /\ acked' = acked \cup {entry[t].hash}
    /\ holder' = Nobody
    /\ pc' = [pc EXCEPT ![t] = "idle"]
    /\ entry' = [entry EXCEPT ![t] = Garbage]
    /\ UNCHANGED <<lines, terminated, built>>

-----------------------------------------------------------------------------
(* Failures *)

\* Mutant: an error after the whole line is in the file (a sync that fails).
WriteFailsLate(t) ==
    /\ pc[t] = "write"
    /\ AddText(entry[t]) /\ UNCHANGED terminated
    /\ holder' = Nobody
    /\ pc' = [pc EXCEPT ![t] = "idle"]
    /\ entry' = [entry EXCEPT ![t] = Garbage]
    /\ UNCHANGED <<tip, built, acked>>

\* write() or flush() raises with nothing in the file or, when writes can be cut
\* short, with a part or all but the newline.  The lock is released, the cache
\* keeps the tip it had.
WriteFails(t) ==
    /\ pc[t] = "write"
    /\ \/ UNCHANGED <<lines, terminated>>
       \/ TornWrites /\ AddText(Garbage) /\ terminated' = FALSE
       \/ TornWrites /\ AddText(entry[t]) /\ terminated' = FALSE
    /\ holder' = Nobody
    /\ pc' = [pc EXCEPT ![t] = "idle"]
    /\ entry' = [entry EXCEPT ![t] = Garbage]
    /\ UNCHANGED <<tip, built, acked>>

\* A process dies and starts again: its cache is gone, the system frees its
\* lock, the file keeps what was written.
Restart(p) ==
    /\ tip' = [tip EXCEPT ![p] = NoTip]
    /\ holder' = IF \E t \in Threads : t = holder /\ ProcessOf[t] = p THEN Nobody ELSE holder
    /\ pc' = [t \in Threads |-> IF ProcessOf[t] = p THEN "idle" ELSE pc[t]]
    /\ entry' = [t \in Threads |-> IF ProcessOf[t] = p THEN Garbage ELSE entry[t]]
    /\ UNCHANGED <<lines, terminated, built, acked>>

-----------------------------------------------------------------------------

Next ==
    \/ \E t \in Threads :
        AcquireLock(t) \/ BuildEntry(t) \/ WriteEntry(t) \/ PublishTip(t) \/ WriteFails(t)
    \/ \E p \in Processes : Restart(p)

Spec == Init /\ [][Next]_vars

-----------------------------------------------------------------------------
(* Properties *)

\* File, caches, lock and calls have their types; a cache holds tips only.
TypeOK ==
    /\ lines \in Seq(Entry)
    /\ terminated \in BOOLEAN
    /\ tip \in [Processes -> Tip \cup {NoTip}]
    /\ holder \in Threads \cup {Nobody}
    /\ pc \in [Threads -> {"idle", "build", "write", "publish"}]
    /\ entry \in [Threads -> Entry]
    /\ built \in Nat
    /\ acked \in SUBSET Nat

\* verify_chain() never reports a break that nobody made, at any moment of any
\* append, after any restart.
ChainIntact == VerifyChain

\* What append_entry() returned can be read back from the file.
AckedIsLogged == \A h \in acked : \E i \in 1..Len(lines) : lines[i].hash = h

\* Whatever gets lost, verify_chain() reports: a file that lacks an entry
\* append_entry() returned never passes for a chain, whoever restarts.
LossIsReported == VerifyChain => AckedIsLogged

-----------------------------------------------------------------------------
(* Why the chain of a sole writer holds *)

\* The scope of the module: one process, no write that stops half-way.
SoleWriterScope == ~TornWrites /\ \A p, q \in Processes : p = q

\* The entry the next one must chain off.
LogTip == IF lines = <<>> THEN Genesis ELSE TipAfter(lines[Len(lines)])

\* A thread inside append_entry() holds the lock.
LockHeld == \A t \in Threads : pc[t] # "idle" => holder = t

\* Outside the moment between a write and the cache's update, a cached tip is
\* the log's; the entry about to be written continues the chain.
TipCurrent ==
    /\ \A p \in Processes : tip[p] # NoTip /\ (\A t \in Threads : pc[t] # "publish") => tip[p] = LogTip
    /\ \A t \in Threads : pc[t] = "write" =>
            entry[t].seq = Len(lines) + 1 /\ entry[t].prev = LogTip.hash
    /\ \A t \in Threads : pc[t] = "publish" => lines # <<>> /\ lines[Len(lines)] = entry[t]

\* The inductive invariant of a log with one writing process: the lock, the
\* cache and the file agree at every step of append_entry().
ChainInv ==
    /\ TypeOK
    /\ terminated
    /\ LockHeld
    /\ TipCurrent
    /\ ChainIntact
    /\ AckedIsLogged

-----------------------------------------------------------------------------
(* What a caller may take append_entry() for *)

\* An entry is owed to its caller from the write to the return.
Atomic == INSTANCE AtomicLog WITH
    Hashes   <- 1..MaxAppends,
    log      <- [i \in 1..Len(lines) |-> lines[i].hash],
    owed     <- [t \in Threads |-> IF pc[t] = "publish" THEN entry[t].hash ELSE 0],
    returned <- acked

\* Within the module's scope a call of append_entry() is one step on a log that
\* only grows, by entries that are new: none is written twice, changed or moved,
\* none is returned that is not there, and a call that raises has left nothing.
ImplementsAtomicLog == Atomic!Spec
=============================================================================
