# Darwaza in TLA+

Darwaza decides whether a buying agent may make a purchase under a mandate its
principal signed: ALLOW, DENY, or NEEDS_HUMAN, in which case the request waits
in a queue until a human approves or denies it, and an approved request is
executed as a Razorpay order. This directory models the code that decides,
remembers, executes and answers (`src/darwaza/`), and the evaluation that guards
it (`evals/`), checks the models with TLC on small instances, and proves the most
important properties with TLAPS for any number of threads, processes, mandates,
documents and requests.

Paths below are those of the repository. `tlc -config X.cfg MCmodule.tla` runs a
check, `tlapm XProofs.tla` checks the proofs of a module. `PROJECT.json` lists the
runs, what each definition translates, and the hazards the properties are for.

## The system

| Component | State it keeps | Operations | Modelled in |
|---|---|---|---|
| Service (`service.py`) | none of its own | `authorize`, `resolve_approval`, `execute_approval`, `_attempt_execution` | `Service` |
| Policy engine (`policy_engine.py`), keys (`keys.py`), schema (`schema.py`) | a registry of keys; claims in the nonce store | `evaluate`, `sign`, `verify`, `signing_payload` | `PolicyEngine`, abstractly `MandateUse`; one step of `Service` |
| Nonce store (`nonce_store.py`) | SQLite table of spent mandate ids | `claim` | `Service`, `PolicyEngine` |
| Approval queue (`approval_queue.py`) | SQLite table of requests and their status | `enqueue`, `get`, `resolve`, `mark_executed`, `record_execution_failure`, lists | `Service`, abstractly `ApprovalLifecycle` |
| Razorpay client (`razorpay_client.py`) | none; orders are at Razorpay | `create_order`, `_find_existing_order` | `Service`; the amount in `Simulation` |
| Audit log (`audit_log.py`) | JSONL file, lock file, tip cache per process | `append_entry`, `verify_chain` | `AuditLog`, abstractly `AtomicLog`; one step of `Service` |
| Rate limiter (`rate_limit.py`) | buckets per (agent, mandate), in memory | `allow` | `RateLimiter`, `Gateway` |
| HTTP API (`api.py`), CLI (`cli.py`) | none | handlers and commands that call the service and answer | `Handlers`, `Gateway`, `Metrics`, `AuditReader`, `Simulation` |
| Observability (`observability.py`) | counters in memory, per process | `log_*`, `record`, `snapshot` | `Metrics` |
| Buyer agent, catalog, scenarios (`simulate.py`) | a constant catalog | demo callers of `authorize` | `Simulation` |
| Evaluation (`evals/`) | a labelled corpus | `run.py` sends it through `evaluate` | `Evals` |
| Config, LLM explainer, dashboard | none | constants, a text, a page | no |

### How the parts interact

A call of `authorize` evaluates the rules and claims the mandate's nonce
(`nonces.db`), appends its decision to the audit log, and for NEEDS_HUMAN
inserts a row into `approvals.db`. `resolve_approval` reads the row, updates its
status where it is still `pending`, appends the human's decision to the log,
and, if approved, calls Razorpay and records the order. `execute_approval` reads
the row and does that last part again. There is no transaction around any of
this. FastAPI runs the synchronous handlers on a thread pool, and every CLI
command is a process of its own on the same files, so every one of these steps
may meet the steps of other calls. `GET /metrics` and `GET /v1/audit-log` read
the log, without its lock, in two steps each, while the others write.

### What is hard

- Interleaving: two humans on one request, an approval and a retry of the same
  execution, two authorizations of one mandate, two processes on one log.
- Crashes and errors between two steps, each of which has committed something:
  the claim and the log entry, the entry and the row, the approval and its
  entry, the order and its record.
- Razorpay: answers that are lost, requests that time out and arrive later.
- Stale reads: the status `get()` returned, the cached tip of the log.
- Readers that read twice: two numbers, or entries and a verdict, of different
  moments.
- Numbers: NaN, half of a cap, exact amounts beside caps, refills, paise, whole
  seconds.
- A test corpus that no longer notices the loss of what it was made for.

### What makes each part correct

- Service and queue: a mandate is granted once; a request is resolved once, and
  log and queue agree on the verdict; Razorpay is asked for approved requests
  only; an executed row names an order that exists; a call ends; a failure is
  never final; what a caller is told is so.
- Audit log: the chain verifies unless somebody broke it; what is returned is in
  the file; what is lost is noticed, by readers too.
- Counters: they never show a decision that the log lacks.
- Policy engine: grants stay inside a document its principal signed; denials cost
  nothing; reasons are given in the order in which trust is established; a
  larger purchase is not treated more leniently.
- Rate limiter: no window of time lets more through than the burst and the
  refill; no token is lost; a caller that waits as told gets on.
- Evaluation and demo: every case and scenario ends as it is labelled, and
  the loss of any check of the engine makes the run fail.

## The modules

### `Service`, `MCService`, `ServiceProofs`, `LedgerProofs`

One action is one access to something shared: a SQL statement with its commit,
an append to the log, a request to Razorpay. What a call computes between two
accesses belongs to the action before it. `pc[t]` says which access the call of
thread `t` makes next and `call[t]` holds its local variables, so that a value
read earlier (the status, the mandate of the row, the order found) is the old one
when it is used.

| Variable | In the code |
|---|---|
| `spent` | `spent_mandates` of `nonces.db` |
| `rows` | `pending_approvals` of `approvals.db`: status, mandate, order id, whether `execution_attempts` is above 0 |
| `created` | the orders Razorpay holds for the receipt `darwaza-<request_id>` |
| `inflight` | create requests whose caller's timeout has passed and which have not arrived |
| `trail` | the audit log, split by mandate; a human's entry names the request, as its `reason` does |
| `expired` | mandates whose `expiry` is in the past |

| Call | Actions, in order |
|---|---|
| `authorize` | `Authorize`, `Evaluate`, `Claim`, `AppendDecision`, `Enqueue` |
| `resolve_approval` | `ResolveApproval`, `GetForResolve`, `Resolve`, `AppendHumanDecision`, then execution |
| `execute_approval` | `ExecuteApproval`, `GetForExecution`, then execution |
| `_attempt_execution` | `FindExistingOrder`, `CreateOrder` up to `MaxAttempts` times, then `MarkExecuted` or `RecordExecutionFailure` |

`Evaluate` may reach any outcome, for what decides is the proposed transaction;
`PolicyEngine` has the rules. `CreateOrder` has the outcomes a client can meet:
answered; the order made and the answer lost; timed out while the request still
travels (`LateOrder` delivers it later); not made. `Raise` ends a call at any
access that can raise an exception nobody catches (a locked database after
`busy_timeout`, the lock on the log after ten seconds, a missing `razorpay`
package), `Crash` ends all the calls of a process. `Surface` is the `ValueError`
of the two guarded UPDATEs on its way out.

Razorpay is modelled from how the client uses it. Its lookup by receipt is taken
to see every order made before it; orders are not deleted.

`ApprovalLifecycle` is what the queue promises, one request at a time: asked
once, answered once, orders only after a yes, settled once with one of them.
`Service` implements it under the mapping `Lifecycle`: the verdict is the status
of the row, the orders are Razorpay's, and a request is settled with the order
id in its row.

### `Handlers`, `MCHandlers`, `HandlersProofs`

The handlers of the API and the commands of the CLI around `Service`. `handler[t]`
is the one thread `t` is in; every step of `Service` is a step of `HandlersNext`
and the other way round. `ReplyTo(t)` is the answer with which a call that ends
in this step leaves: the status code, the request it names and the order in its
body (`AuthorizeReply`, `ResolveReply`, `ExecuteReply` follow the `except` clauses and
the body of each handler), and `ExitStatus` what the command makes of it.

### `Metrics`, `MCMetrics`, `MetricsProofs`

`counters[p]` is `COUNTERS` of process `p`, by outcome: `Count` belongs to the last
step of a call that `log_decision` or `log_resolution` ends (`Records`), and
`Restart` clears it, of an idle process too. `GET /metrics` is two actions, for
the snapshot and the lines of the file, with anything in between. `Total`, a sum,
is the number of marks when each index has as many as its value: a cardinality
is what can be reasoned about for any number of processes.

### `AuditLog`, `AtomicLog`, `MCAuditLog`, `AuditLogProofs`

`append_entry` step by step: the lock, the tip (cached, or scanned from the
file) and the entry built from it, the write, the update of the cache. `WriteFails`
cuts the write short: nothing, a part, or everything but the newline is in the
file, the exception releases the lock, and the cache keeps its tip. `Restart`
kills a process at any of these moments. An entry added after a line without a
newline becomes part of that line, which then parses no more (`AddText`). A
hash is a number given out once, for every entry contains a fresh decision id
and a timestamp: collisions are left out. Lines, not bytes, are the content of
the file.

`AtomicLog` is what `append_entry` promises its callers: one step puts a new entry
at the end of a log that only grows, and the entry is returned after that step
and not before. `Service` and `Metrics` take an append for such a step. In the scope
of one process and whole writes `AuditLog` implements it under the mapping
`Atomic`: a thread owes the entry it has written until it returns it, a call that
fails before its write has done nothing, a restart is `Forget`.

### `AuditReader`, `MCAuditReader` (proofs in `AuditLogProofs`)

`GET /v1/audit-log` beside those writers: `ReadFirst` takes the entries, and fails
where a line does not parse, `ReadSecond` is `verify_chain`, which reads the file
again. `Page` is the part of the entries that is answered. `got.returned` is a
history: the entries `append_entry` had returned by the first read.

### `PolicyEngine`, `MandateUse`, `MCPolicyEngine`, `PolicyEngineProofs`

`Checks` are the names of the checks in the order of the code, `Passes` what each
asks, `FailedCheck` the first that fails. A document has any combination of the
optional fields, and documents may share an id. A signature is a value that
names the key and the fields it was made over (`SigningPayload`: all but the
signature), so that a copy with another field, or with the signature of another
principal, does not verify. Amounts are integers, NaN or infinity (minus infinity
fails the first check as NaN does), comparisons with NaN are false. An expiry
without a time zone ends the call in the `TypeError` of the comparison, which
changes nothing, so `Evaluate` is not taken. The clock is read among the checks and
the claim comes in a step of its own, so the evaluations of two threads
interleave there. `granted` counts the grants of an id.

`MandateUse` is what `evaluate` promises: a decision taken in one step between the
question and the answer, by the terms of what the principal agreed to (`Permitted`)
and the mandates used by then. It has no signatures, no order of checks and no
arithmetic of NaN, and its terms are written down from what a mandate means, not
check by check. `PolicyEngine` implements it under the mapping `Use`: the spent ids
are the used ones, a thread about to claim has asked, and the decision is the
claim, or the checks where one of them fails.

### `Evals`

The corpus of `generate_dataset.py`, one definition per attack class in the order of
the file, with amounts in paise. `Evaluated` is `evaluate` as `run.py` calls it: one
case after the other, the ids the earlier ones claimed in `Claimed`. Its argument
`without` names a check that is gone, `"none"` for the engine as it is; `now` is when
it runs, from the day the corpus is generated to the day its mandates expire.

### `Simulation`, `SimulationProofs`

The catalog, the deterministic buyer agent and the three scenarios, run under a
fresh mandate id (`Fresh`, `demo_simulate`) and again under a fixed one (`Again`, the
CLI), and `OrderAmount`, the paise that `create_order` makes of an amount. The two
belong together: they are what goes into the policy engine, and what comes out
of an approval.

### `RateLimiter`, `Gateway`, `MCGateway`, `RateLimiterProofs`

`allow()` is three sections, each under a lock, with the clock running between
them: find or create the bucket, refill and consume, and after a refusal refill
and compute how long to wait. Tokens are counted in units so that a tick refills
a whole number of them. `allowed` is the history the window property is about.
`Gateway` is the handler in front of it: `RetryAfterSeconds` is the header, rounded
half to even and at least 1, and `wait` and `refused` record until when a pair was
told to wait and how often it was refused although it had.

## What is checked

| Run | Question | Instance |
|---|---|---|
| `service_safety` | the safety properties, the refinement and the answers | `MCHandlers`: 2 threads in 2 processes, 1 mandate, 2 requests, 3 attempts, 2 log entries before `authorize` stops, 1 travelling create request |
| `service_liveness` | does every call end? does an approved request that is retried get its order? | the same with 1 request, 1 log entry |
| `service_serialized` | do the mandates' rows, entries and claims mix? is there one order per receipt when calls do not overlap and nothing arrives late? do counters and log agree as far as they should? | `MCMetrics`: 1 thread, 2 mandates, 2 requests, 2 attempts, 3 log entries, no travelling request |
| `service_overlap` | one order per receipt when calls overlap? **violated** | 2 threads, 1 request |
| `service_delayed` | one order per receipt when a request arrives late? **violated** | 1 thread, 1 request |
| `service_race` | only documented errors? **violated** | 2 threads, 1 request |
| `service_unaudited` | an audit entry behind every order? **violated** | 1 thread, 1 request |
| `auditlog_sole` | the chain of one process; is an append one step to its callers? | 3 threads, 5 entries, restarts |
| `auditlog_damage` | is a loss noticed? is a page that says it is intact intact? | `MCAuditReader`: 2 processes, torn writes, 5 entries, one reader, pages of at most 3 |
| `auditlog_torn` | is every returned entry in the file after a torn write? **violated** | 1 process, 4 entries |
| `policyengine_rules` | grants, claims, reasons; does a call decide in one step, by the terms alone? the corpus, the scenarios and the paise charged | 2 threads, 9 documents with 2 ids, 10 purchases, 2 ticks, 4 units to a paisa |
| `ratelimiter_window` | window bound, no lost tokens, Retry-After | `MCGateway`: 3 threads, 1 pair, 10 ticks of a third of a second, burst of 2 tokens, a quarter of a token per tick |

Bounds. Two threads are enough for every race the code has: each of its guarded
statements and each stale read involves one other caller. Two requests for one
mandate make `SingleUse` falsifiable, and three attempts reach every exit of the
retry loop. The log bound, over the entries of all mandates together, stops
`authorize` from starting, never a call under way. One travelling request is enough to overtake a retry; the number of orders
per receipt is bounded by the attempts that are made. `service_serialized`
has two attempts, enough for a retry to meet the order of the first, because its
counters and its two mandates make the instance large; the other runs have
three. In `AuditLog` five entries leave room for a torn line, the entry lost in
it, a restart and two more; the cap of 500 on a page is 3. The amounts in
`MCPolicyEngine` lie about half of the cap, up to the cap and above it, one document
has an exact amount below its cap, one a ceiling of NaN, one no time zone, and
three are a copy of the first with a higher ceiling, with another principal's
signature, or with the name and signature of a stranger. A unit is a quarter of a paisa, so
that the amounts a human is asked about end at, before and halfway between paise. In `MCGateway` a refused caller waits four thirds of
a second, which the header rounds down to one: the case `WaitingHelps` is about.
One pair is enough, for no step looks at the bucket of another.

Fairness. `FairSpec` asks that a thread in a call takes its next step. The code
justifies it: every blocking operation has a timeout (SQLite's
`busy_timeout`, the ten seconds of the file lock and of each Razorpay request)
and the loop of `create_order` is bounded. Nothing is asked of callers, crashes,
Razorpay or the clock, and which way a step goes is never fair.
`ApprovedGetsExecuted` states its own premise: from some moment on nothing crashes,
raises or fails at Razorpay (`Calm`), and a process with the keys calls
`execute_approval` for the request again and again (`Retried`), as the message the
CLI prints asks. What failed before that moment, and how often, is open.

Deadlock is checked in every run.

### What the checks show

The properties hold but for four, each of which is something the
documentation says:

1. **Two overlapping executions make two orders** (`service_overlap`).
   `LIMITATIONS.md` says the calls for one receipt are serialized; nothing
   serializes an `approve` still in its Razorpay call and an `execute`, and
   both look the receipt up before either has made its order. The queue still
   records one of them. `service_serialized` shows the claim is right when calls
   do not overlap.
2. **A request that arrives after its timeout makes a second order**
   (`service_delayed`), with a single caller. The comment of `_is_retryable`
   says the lookup rules this out.
3. **The loser of two concurrent resolutions gets a `ValueError`**
   (`service_race`), which neither entry point maps to an answer, where the
   docstring promises `ApprovalAlreadyResolvedError`.
4. **An order without the human's decision in the log** (`service_unaudited`):
   the approval is committed before it is logged, and a later `execute` does not
   log it.

A fifth is about the log: **the entry after a torn line is lost**
(`auditlog_torn`): it is glued to the torn line. `LossIsReported` shows that
`verify_chain` does say so, in any order of tears, restarts and writers.

What holds and is easily thought not to: whoever of two racing drivers is told of
an order is told the recorded one, the other gets an error (`AnswersAreTrue`); the
counters read by `/metrics` are never ahead of the log, because an entry is
written before it is counted and the counters are read first (`CountersAreLogged`,
`MetricsAreOrdered`); `get_audit_log` reads the file twice without the lock, and
still a page that comes with `chain_intact` is a piece of an intact chain
(`PageIsVerified`), because the verdict comes second; it raises on a torn line, but
only over a log whose verdict is false for good (`FailureIsDamage`). Rounding may send
a caller back early once, never twice (`WaitingHelps`). No human's yes is charged
above a ceiling in whole paise (`ChargeIsApproved`). The run
of the corpus notices the loss of any of the nine checks (`CorpusGuardsEveryCheck`), and
it does because it compares the reason too: the outcomes would not show the loss of
`unknown_principal`, whose cases the signature check denies as well.

The corpus agrees with its labels for as long as its mandates live, and no longer
(`CorpusAgrees`): `generate_dataset.py` dates them a year after the day it is run
(which is also why two runs of it do not write the same bytes, as its docstring
has it), `run.py` reads the committed file, and from that day in 2027 the CI step
fails with no change of code.

Three more facts follow from the models and are within what the documentation
admits or leaves open, so no run reports them: a ceiling of NaN in a signed mandate
binds nothing (`GrantsArePermitted` says so), a second process on one log forks the
chain (the module's scope note), and an approval is not measured against the
mandate's expiry again.

## What is proved

The theorems are about every value of the constants that the modules' `ASSUME`s
allow: any sets of threads, processes, mandates, requests, documents and keys, any
bounds. What else a theorem assumes is in its statement, and named here. All the
invariants that the passing runs check are theorems, and so are both action
properties and the three refinements.

### Service and queue: `ServiceProofs`, `LedgerProofs`

- `ServiceTypeCorrect`, `ExecutionInvariant`, `NoExecutionWithoutApproval`,
  `RecordedOrdersExist`, `ServiceImplementsLifecycle`.
- The argument. Neither `ExecutionNeedsApproval` nor `RecordedOrderExists` is
  inductive: both speak of what a thread will do with a status it read earlier.
  `CallsExecuteApproved` closes the gap: a call that is executing is about an
  approved request, because approval is never taken back, and the order it is
  about to record is among those made, because orders are never deleted. With
  `CallTargets` (a call at such a step has a request) and `RowsAreFilled` this
  is `ExecutionInv`, which every action preserves. The refinement uses it at
  the two steps the abstract specification guards: an order is placed for a
  yes, and a request is settled with an order placed.
- `MandatesAreSingleUse`, `VerdictsAreOne`, from `LedgerInvariant`. Both properties
  compare the nonce table, the log and the queue, which are written one after
  the other, so the invariant has to say what a call between two of the writes
  owns. `ThreadInv`: who has claimed a mandate finds it spent and nothing reserved
  in its log; who is about to enqueue finds the flag and no row; who has resolved
  a request finds the row resolved as it did and no answer in the log. `Apart`: no
  two calls own the same one of these. `MandateInv` and `RowInv` say the rest, of
  what is written. A crash leaves what is owned to nobody, and the guards of the
  claim and of the two UPDATEs never give it out again, which is the proof's core.
- `OneOrderWhereSerialized`: `OneOrderPerReceipt` for behaviours in which
  `Serialized` always holds: no two calls for one receipt are between their look
  and their order, and no create request outlives its caller. This is what
  `LIMITATIONS.md` relies on; `service_overlap` and `service_delayed` show that either
  half is needed. It allows any failures, lost answers, retries and crashes.

### Handlers and counters: `HandlersProofs`, `MetricsProofs`

- `HandlersImplement`: every behaviour of the handlers is one of `Service`.
  `AnswersTrue`: the action property `AnswersAreTrue`. The invariant `HandlersInv` says
  which handler a step belongs to, and that the execution that goes on from a
  resolve has its approval in the log (`ApprovalLogged`); the rest of what a reply
  says is in `ExecutionInv` and `LedgerInv` at the step that gives it.
- `CountersLogged`, `MetricsOrdered`: for any finite sets of threads, processes and
  mandates (`MetricsAssumption`; numbers of lines mean nothing otherwise). The
  property is not inductive, for a count may be due for an entry that is in the
  log already: `CountInv` adds the calls that have logged and not counted
  (`Uncounted`) to what is shown, and the sum is at most what is logged. A call
  that logs adds to both sides, one that counts moves its mark from one part to
  the other, a crash takes marks away. `ReadInv` says that what `GET /metrics` read
  first is still in the log.

### Audit log and its reader: `AuditLogProofs`

- Under `SoleWriterScope` (one process, a write that fails leaves nothing in the
  file: the scope the module's docstring sets): `ChainInvariant`,
  `SoleWriterChain`, `SoleWriterKeepsEntries`. The thread that is in `append_entry`
  holds the lock (`LockHeld`), so that between two appends a cached tip is the
  log's, and the entry about to be written continues the chain (`TipCurrent`).
  `ScanOfChain` shows that a scan of an intact chain finds its last line.
- In the same scope `LogIsAtomic`: `AuditLog` implements `AtomicLog`. Beside `LockHeld` and
  `TipCurrent` it needs `FreshInv`: the hash of an entry about to be written is on no line
  yet, so that what is added is new. The step is the write; what comes before it is a
  stutter.
- Without it, for any processes, stale caches and torn writes: `LogTypeCorrect`,
  `LossReported`. The invariant `LossInv` says of every entry returned or about to
  be that it is on a line to which nothing can be added any more, because it
  ends in a newline or is not the last, or else a line of the file does not
  parse; and that stays so, for no line is ever removed.
- `ReaderLeavesLog`, `PageVerified`, `FailureMeansDamage`, `LossReportedToReaders`. Between
  the two reads of `GET /v1/audit-log` the file grows behind what was read, or is
  damaged (`ReaderInv`); so a verdict of intact, coming second, is about the
  entries of the first read, too.

### Policy engine and the charge: `PolicyEngineProofs`, `SimulationProofs`

- `PolicyTypeCorrect`, `NonceSpentByOneGrant`, `GrantsPermitted`, `LargerNeverEasier`,
  and, from `NoForgery` (a principal's key is used for what the principal agreed to
  and for nothing else), `GrantsAgreed` and `ReasonsEarned`.
- The argument. `SpentByOneGrant` is inductive beside the types: the claim alone
  changes either side, and both. The others follow from `GrantInv`: a thread that
  is about to claim, and one that has a grant, has a document in which no check
  failed at the time read, and `ReasonInv`: the reason of a decision is the first
  check that failed, or one of the claim's own. `FailedCheckSpec` and
  `EarlierChecksPass` say what the first of the checks that fail is, `PassesAll` what
  passing all of them means, `CeilingBinds` that NaN and infinity do not slip
  through between the ceiling and its half.
- `EvaluateIsAtomic`: `PolicyEngine` implements `MandateUse`, from `NoForgery` and
  `AgreedIsSigned` (what a principal agreed to carries a valid signature): the two
  together say that a valid signature is an agreement. Beside `GrantInv` it rests on
  `PassedIsPermitted`, that passing the seven checks in their order is the same as
  being within the terms, and `LargeIsReviewed`, that the review threshold is one half
  of a ceiling that binds. It adds to the invariants what they leave open: what is
  permitted and unused is not denied.
- `ChargeApproved`, for any number of units to a paisa: `OrderIsNearest` is what
  rounding half to even does, `OrderStaysBelow` why it never passes a ceiling in
  whole paise.
- `ScenariosEndAsStated`, where the demo's principal has a key. `MandateFields` computes
  the mandate it signs, `MandateStands` shows that every check that is not about the
  purchase passes at the time of signing, so that the amount alone decides
  (`MandateDecides`), and `AgentBuys` what an agent that obeys the poisoned listing
  asks for.

- `CorpusAgreesWhileAlive`, where the registry is that of `keys.py` and `None` is neither the
  name of a merchant nor a set of categories: at any time before the mandates of the corpus
  expire all 42 cases get what they are labelled with, from then on the run fails.
  `EarlyReturns` writes the checks down as the code has them, one `if` after the other,
  `SignatureTells` says when a signature is valid, and `AP2Decides` and `ACPDecides`, from both,
  how any mandate or token of the two forms has to be labelled; each case is an instance
  (`UntrustedLabels`, `OutsideLabels`, `InsideLabels`). What an earlier case claimed matters to
  those that get as far as the claim: their ids are distinct but for the two replays
  (`ClaimedOnce`). The clock stays within the bound (`ClockBounded`).
- `LostCheckIsNoticed`, under any registry: a decision never names a check the engine does
  not have (`GoneIsNeverNamed`), and each check is the label of a case
  (`EveryCheckIsALabel`).

### Rate limiter and gateway: `RateLimiterProofs`

- `RateTypeCorrect`, `WindowsBounded`, `BurstsComeBack`. Neither of the last two says
  what the bucket holds, which is what makes them true: `BucketInv` is an account
  of it. `Paid`: the tokens now, and the cost of all that was let through since any
  request, are within the capacity and what was refilled since. `Kept`: a bucket
  that is not full holds at least what was refilled since the last request let
  through.
- `GatewayImplements`, and `WaitingIsWorthIt` where `Unit <= Capacity` (a bucket can
  hold the token of one request; with the code's settings it holds ten). The
  invariant `RetryInv` says when a pair refused once, or twice, after waiting has
  enough for a request, the half second that rounding may take away included, and
  that a thread about to refuse such a pair a third time had not waited.

### Only model-checked

- Liveness (`EveryCallReturns`, `ApprovedGetsExecuted`), which is out of the prover's
  reach, as is anything with `ENABLED`.
- The five runs that find what the documentation says violated.

## What is not modelled

- JSON, base64 and pydantic parsing, the text of reasons and explanations. That
  nobody without the key makes a valid signature is taken of Ed25519.
- SQLite and the file lock themselves: a statement with its commit is atomic. A
  write to the log that is not cut short is seen whole by a reader without the
  lock.
- Amounts in `Service`: `PolicyEngine` and `Simulation` have them.
- The two list endpoints and `review`, which only read rows; `healthz`; the
  counters by `failed_check`; log lines and timers.
- The LLM explainer (it returns a text and does not raise), `decide_with_llm`
  (a live model), the report `run.py` prints, the dashboard.
- The memory of the rate limiter, which keeps a bucket for every pair ever seen,
  and the rounding of its floats.

## Plan

1. Core: `Service` with `ApprovalLifecycle`, `AuditLog`, their proofs. Done.
2. The policy engine and the rate limiter, with their proofs. Done.
3. The callers and readers: `Handlers`, `Gateway`, `Metrics`, `AuditReader`, the
   corpus and the scenarios. Done.
4. Proofs of the ledger, the answers, the counters, the reader, torn writes,
   windows and waiting, and the charge. Done.
5. What an append and an evaluation are to their callers, as specifications the
   detailed modules implement (`AtomicLog`, `MandateUse`), and the corpus at every time,
   with their proofs. Done.
6. Left: the handler's page beside more than one reader; an expired mandate across
   `Service`, whose approval is not measured against the expiry again (no document
   says that it should be); the dashboard's tally of one page.
