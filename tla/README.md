# Aftercare-Agent in TLA+

Aftercare-Agent handles after-sales cases with durable, resumable Runs. Nearly
all coordination happens in PostgreSQL: worker processes, channel adapters,
operators and periodic scans never talk to each other, they race on rows. Around
it stand caches in the API process, a second evidence store, a sandbox provider
and a backup directory, each with races of its own. This directory models those
races, checks them with TLC on small instances, and proves the main safety
properties with TLAPS for every number of workers, Runs, signals and threads and
for every bound.

## The system and its parts

| Part | Code | State | Operations | Interacts with |
|---|---|---|---|---|
| Run lifecycle, execution lease | `persistence/repositories.py`, `domain/runtime.py` | `aftercare_runs`, `aftercare_checkpoints` | claim, claim_next, renew, transition, save | everything |
| Execution queue | `migrations/007`, `008` | `aftercare_execution_queue` | trigger on every write of a Run row | claim_next |
| Worker | `runtime/worker.py` | in memory: claim, previous checkpoint, heartbeat | run_once, run_next, heartbeat renew or fail, commit, daemon loop | Run, slots, Harness |
| Slots and limits | `persistence/admission.py` | `aftercare_execution_slots`, `aftercare_admission_limits`, retry budgets | acquire, renew, release, configure, reserve_retry, open | Worker |
| Harness | `runtime/model_harness.py`, `runtime/harness.py` | the checkpoint it is given | one bounded slice: model, tool or evaluate phase, or a route | Worker, model, tools |
| Waits and inbox | `persistence/waits.py`, `domain/waits.py` | `aftercare_waits`, `aftercare_inbox`, `aftercare_wait_wakeups` | register, activate, receive, time out | Run, channels, approvals |
| Approvals | `persistence/approvals.py` | `aftercare_approvals` | request, decide, expire, lock for dispatch | waits, actions |
| Action ledger, refund flow | `persistence/actions.py`, `actions/`, `runtime/vertical_slice.py` | `aftercare_actions`, the provider | reserve, mark requested, call the provider, mark receipt | approvals, Run |
| Reviews, strategy migrations | `persistence/reviews.py`, `persistence/strategy_migrations.py` | `aftercare_reviews`, overrides, migrations | request, decide, override, migrate | Run, checkpoints, Harness |
| Delivery | `persistence/events.py`, `runtime/publisher.py`, `persistence/projection.py`, `runtime/event_tail.py` | outbox, projection positions and buffers | append, claim, publish, ack, retry, ingest | every writer of events |
| Grants | `persistence/case_grants.py`, `auth/grants.py`, `api/app.py` | `aftercare_case_grants` and their events | grant, revoke, resolve, list | every request, event streams |
| Evidence | `persistence/investigations.py`, `investigation/` | observations, EGM bindings and commands, buyer cursor | ingest, bind, project, revoke, import | Worker, connectors, EGM |
| Judgment | `runtime/judgment.py`, `domain/investigation.py` | assessments | render the ledger, judge a proposal | evidence, Harness |
| Sandbox | `sandbox/`, `runtime/sandbox_executor.py` | allocations, artifacts | acquire, begin, publish, release, sweep | tool steps |
| Token checks | `auth/oidc.py`, `auth/introspection.py`, `auth/guard.py` | key cache, verdict cache | verify, introspect | the issuer |
| Operations | `ops/` | dumps, manifests, drill records, WAL archive | create, drill, retention, status, wal, reconcile | the database, an operator |

What makes the system hard: a lease may expire while its holder is in a model or
provider call; processes are started with the same owner name; a reply may come
before the wait it answers, after its deadline, twice, or with another clock's
timestamp; a refund is requested outside any transaction and its answer may be
lost; limits, grants and deployments change under running work; one fact lives
in two stores that share no transaction; caches outlive what they cached;
commands are killed between two files. The full list, at the lines where it
bites, is `hazards` in `PROJECT.json`.

## Modules

```
RunTable ── SlotTable ── Worker ── WorkerInv ── MCWorker
   │
   └─ WaitTable ──┬─ Waits ── MCWaits
                  └─ Refund ── MCRefund
OutboxTable ── Delivery ── MCDelivery
                 └ implements EventStream

ReviewGate, Access, Dispatch, RetryBudget ── MCControl
EvidenceBridge, Assessment ── MCEvidence
Sandbox, SigningKeys, TokenVerdicts ── MCLeases
Backups, WalArchive, Recovery ── MCOperations
ReviewGate, EvidenceBridge, Sandbox ── MCProgress

WorkerInv ── WorkerProofs               Delivery ── DeliveryProofs
EvidenceBridge ── EvidenceProofs        Recovery, ReviewGate ── ControlProofs
WalArchive, SigningKeys ── OperationsProofs
Sandbox, Refund ── RefundProofs
Access, Waits, RetryBudget ── WaitsProofs
TokenVerdicts, Dispatch ── DispatchProofs
```

The parts under `MCControl` to `MCProgress` share no state. Each of these modules
has a variable `part`, chosen at the start: a behaviour is one of that part, the
others stay in one initial state, so the state spaces add up instead of
multiplying. The symmetry sets are shared in the same way: a model value stands
for a person in one part and a Worker in another.

**Reading time.** `RunTable`, `SlotTable` and `OutboxTable` keep a timestamp as the ticks left
until it, since the code only ever compares it with the database clock; every
action that lets time pass ages all rows. `WaitTable` keeps instants, because
`created_at`, `deadline` and `received_at` come from different clocks and are
compared with each other.

**One action is one transaction.** Every transaction here locks the Run row (and
mostly the Case row) before it decides, so transactions on one Run are serial.
Steps outside a transaction, the Harness and the provider call, are actions of
their own. The clock can move between two statements of a transaction; where
that shows (claim, then slot; renew, then slot) the action takes the advance as
a parameter, bounded by `Drift`.

### RunTable, SlotTable
Rows and statements as operators: `Claimable` and `Dispatchable` are the WHERE
clauses of `claim()` and `claim_next()`, `Claimed` and `Moved` the UPDATEs,
`HoldsLease` the fence check of every later statement, `QueueSync` the trigger of
migration 008. `SlotRefused`/`SlotAcquired` are `acquire_slot()`, including the
purge of expired rows and the RATE_LIMITED case where a Run's own old slot
outlives its lease.

### Worker
| Action | Code |
|---|---|
| `RunOnce`, `RunNext` | claim, slot and `get_latest` in one transaction; RATE_LIMITED rolls all of it back |
| `HeartbeatRenew`, `HeartbeatFail` | `LeaseHeartbeat`: Run and slot renewed together; any exception ends the thread for good |
| `HarnessReturn` | `run_model_harness` returns one step further (`HarnessAdvance`) or hands a stored proposal to the evaluator (`HarnessPropose`); `run_fake_harness`, the default, returns up to `max_steps` steps of its script further, a version each, and completes the Run without an evaluator (`HarnessScript`) |
| `Commit` | the final transaction of `_execute_claim`: judge the proposal, save, transition, trigger, release |
| `SliceLost`, `Crash` | LEASE_LOST; a dead process or a raising Harness. Nothing but memory is lost |
| `ConfigureLimit`, `ResolveReview` | the operator's limit and the effect of a review decision |

Both workers carry the same `lease_owner`, so that only the fencing token can
tell them apart. A live worker whose lease runs out counts as a fault. A slice may run
either Harness, which covers a deployment of one and a change from one to the other.

### WaitTable, Waits
One Run parks on waits of successive generations. `Settle` is
`_settle_if_ready()`: an eligible reply wins over the deadline, however late the
scan comes; the wakeup row is written and the Run made READY in the same commit.
`Park` registers only; `ParkActive` registers, parks and activates in one
transaction (`pause_for_customer`), and may be settled at once by an early reply.
`Receive` covers new, replayed and misdirected signals from a clock up to `Lag`
off. A signal remembers whether its `received_at` was in the future when stored.

### Refund
The approval Run, its wait, the approval row, the Action row and the provider.
`Approve`, `ClaimAndRequest`, `ProviderRequest`, `ConfirmRefund` and
`RaiseUnconfirmed` are the three transactions and the call between them of
`approve_and_confirm_refund()`; the API's `decide_approval`, the rejecting flow,
`expire`, `resolve_timeout`, review decisions and generic daemons run beside it.
The provider is external: it may not get the request, executes at most once per
idempotency key, and its answer may be lost.

### OutboxTable, Delivery, EventStream
The events of one Case on their way out. An append is two actions, because what
other transactions see between the insert and the commit matters: `append_event`
and `append_outbox` take the lock and the next position, `CommitAppend` and
`RollbackAppend` end the transaction. `claim_outbox` takes any non-empty set of
due rows, which is what SKIP LOCKED and LIMIT can leave. `PublishOk` and
`PublishRaise` are the broker call, `ack_outbox` and `retry_outbox` the
transaction after it; LEASE_LOST abandons the rest of the batch, as the exception
does. The broker is external: it keeps every event it accepted (also when the
call raised, or not) and hands any of them over at any time and any number of
times. `ingest` is the whole of `ProjectionRepository.ingest()`, with `_drain()`
in it; a CONFLICT changes nothing. `Poll`, `Yield` and `Reconnect` are the tail
of a client whose cursor is the last event it received.

`EventStream` is the promise: a log of distinct ids that grows at its end and a
consumed prefix of it that never shrinks. `Delivery` maps `log` to the committed
outbox rows and `consumed` to the applied rows.

### Dispatch, RetryBudget
`Select` is the SELECT of `claim_next()` with its order by tenant, priority and
age, its SKIP LOCKED and its prefilter; `Number` draws the dispatch number under
the tenant's row; `Dispatch` and `Rollback` end the transaction after
`acquire_slot()` counted again. Between them other Workers order by stale
numbers. Dispatch numbers and queue places are only ever compared, so the model
keeps their ranks (`Ranked`): the numbers stay small and a behaviour may go on
for ever. `number` holds a tenant's committed number and a Worker's drawn one,
`queue` the place of a Run, and 0 means none. `over` is a history variable: the
dispatches of one tenant while another waits. Only shared Workers are modelled:
one pinned to a tenant takes no part in the order. `RetryBudget` takes the statements of `reserve_retry()` one by one;
its producers, like the callers of `configure_retry_budget()`, are outside the package.

### ReviewGate
One Run between the model Harness and the people who release it. A slice that
commits is one action (its fencing is `Worker`'s matter): the disjuncts of `Slice`
are the ways `run_model_harness()` ends, from a strategy that drifted, through
refusals, rejected turns and provider errors, to a tool answer or a proposal.
`CrashAfterTurn` is a slice that paid and did not save. `BeforeRunRetry` is charged to
no budget and looks at no deadline, as in the code; `MaxTransients` alone bounds it. `RequestReview`, `Decide`
(`CancelRun`, `ContinueRun`, `OverrideRun`) and `MigrateStrategy` are transactions
under the Case and Run locks; `Deploy` changes what the workers run with. Replays
and refusals change nothing and have no action.

### Access
One Case's grant rows. A request is two steps, `Authorize` and `EndRequest`,
because the row lock lasts from one to the other; a stream re-reads its grant
before every event (`CheckEvent`, `YieldEvent`). Administrators write from
revisions they saw. A caller is a token: two of them may belong to one subject.

### EvidenceBridge, Assessment
Workers take a fact through the ledger, the EGM node, a reserved command, the EGM
call and its receipt, each a step after which they may stop; an import repeats
that for a page and then advances the cursor; a correction withdraws and sends a
second command. EGM is external: it replays an operation id with the same
request and refuses a stale revision. `Assessment` is the reading side: rows
arrive, age and are withdrawn while a Run shows the ledger to the model and
judges its answer in a later slice, with the clock of the slice and the rows of
the commit.

### Sandbox
The executor's calls to the provider, one by one, with a failure path after each;
allocations by key, leases, the two phases of a release, the sweep. The provider
is `FakeSandboxProvider`, the one the wiring builds.

### SigningKeys, TokenVerdicts
The two caches of the API process, with request threads. Keys are fetched under
the verifier's lock, with a clock read before it; verdicts are asked for without
one and stored in the order of arrival. `verdicts` is the dictionary: each token's
entry with its place in insertion order, which is what eviction goes by. The issuer is external: its answer is
taken at one moment and arrives up to a timeout later, or never. Its clock may lag by up
to the skew, and an active verdict may come without an expiry (`dated`); then only
`verify()` looks at the token's age, and allows `clock_skew_seconds`. The timeout bounds a
whole call; httpx applies its timeout to each phase of one (connect, write, read), so the
`Timeout` and `CallTimeout` of the bounds stand for a few times the configured value.

### Backups, WalArchive, Recovery
`Backups` has one process for each of `create`, `drill`, `retention` and `status`,
every file operation a step after which `Crash` may come. The database's content
is the moment at which it is looked at. `WalArchive` builds the archive (copies in
order, failures, a failover, a deletion) and states the verdicts of the check as
operators on what it read. `Recovery` separates an UPDATE's stamp from its commit
and a snapshot from its clock reading, which is what the safety margin is for.

## Runs

| Run | Instance | Shows | States |
|---|---|---|---|
| `worker_fencing` | 2 workers, 1 owner name, 1 Run, 4 versions, 2 steps a slice, 2 faults, drift 1 | `FenceIsUnique`, `HolderIsCurrent`, `CheckpointsFollowFence` | 115 thousand |
| `worker_admission` | 2 workers, 2 Runs, global and tenant limits 1..2, 1 fault | `NoOverAdmission` | 560 thousand |
| `worker_progress` | 2 workers, 2 Runs, one global slot, 1 fault, fairness | `EveryRunDecided` | 319 thousand |
| `waits` | 2 hosts, 2 generations, 2 signals, 4 instants, lag 1 | `ParkedIsOpen`, `WakeupMatchesWait`, `NoLostReply`, `WakesOnce` | 1.4 million |
| `refund` | 2 dispatchers, 2 deciders, 1 daemon, 5 fences, lag 1 | `RefundIsApproved`, `RefundIsRecorded`, `DecisionSettlesWait`, `ConfirmedCompletesRun` | 80 thousand |
| `refund_unknown` | the same | violated: `UnknownIsRecorded` | |
| `delivery` | 3 positions, 2 writers; either 2 publishers under 1 owner name and 2 faults, or 2 clients and pages of 2 | `AckedIsSent`, `InOrderStream`, `TailIsComplete`, `BufferIsPastGap` | 365 thousand |
| `control` | gate: 2 reviews, 2 keys, 2 people, 2 plans, 2 model turns, 1 tool call, 1 crash | `BudgetConserved`, `ReleasedIsResumable`, `DecisionsRouteOnce` | 755 thousand |
| | grants: 3 callers of 2 subjects, 2 revisions | `ActsUnderGrant`, `NoEscalation`, `ListingMatchesAccess` | |
| | dispatch: 2 tenants, 3 Runs, 2 Workers, limits 1 and 2 | `NoTenantStarves` | |
| | retries: 2 producers, 2 keys, budget 4 | `RetriesAccounted` | |
| `evidence` | bridge: 2 workers, 2 facts, pages of 1, 2 exports, 1 correction, 1 foreign write, 1 stop | `StoresAgree`, `CursorCovers` | 2.1 million |
| | judgment: 5 evidence ids, 6 proposals | `ReadyIsSupported` | |
| `leases` | sandboxes: 2 executors, 1 step, 2 keys, capacity 1, 1 crash | `CapacityHeld`, `RecordedIsAttributable` | 3.0 million |
| | signing keys: 2 threads, 2 tokens, 2 keys, clock to 4 | `RetiredKeysFade` | |
| | verdicts: 2 callers, 2 tokens, a cache of 1, skew 1, clock to 4 | `TrustEnds` | |
| `operations` | backups: 3 names, 1 recent and 2 daily kept, 1 crash, 2 drills | `RetentionSparesTheNewest`, `StatusIsRight` | 1.6 million |
| | archive: 4 segments, 3 per log, 2 timelines, 1 deletion | `HolesAreRight`, `CoveredRollsForward` | |
| | review list: 2 Actions, margin 3, a list of 2 | `ListIsComplete` | |
| `progress` | fairness; gate: 1 review, 1 key, 1 plan, 2 tool calls of 2 ids, 2 transient failures; import: 2 workers, 2 facts, one export, no correction or foreign write; sandboxes: 1 crash and leases that run out | `GateComesToRest`, `ImportsComplete`, `GivenBack` | 259 thousand |

What TLAPS proves beyond these (below) is not repeated in the runs: the type
invariants, which are part of the inductive invariants, and
`RunMatchesCheckpoint`, `RunnableIsQueued`, `SaveExtendsLatest`,
`SlotOutlastsLease`, `ClaimIsUnique`, `AckedIsFinal`, `IngestNeverConflicts`,
`CapKeepsTheNewest`. The type invariants of Assessment,
Backups, Dispatch and TokenVerdicts say more than the proofs need or are about
modules without a proof; they describe the states, and a line in the cfg checks one.

**Bounds.** A takeover needs two workers and one expiry; two faults add a
takeover of the takeover. Four checkpoint versions fit a model, tool, evaluate
and judge sequence, with a retry or review in it; two steps a slice make versions
skip and let a script complete in the first slice or in a later one. Two Runs and limits up to two
make a scope both full and not full, and let a limit be lowered under use. Two
generations and two signals give an early, a late and a misdirected reply and a
replay over a later wait. Past `MaxVersion` a Run may only end, so that the
progress run has no behaviour cut off in the middle. Three positions let two
events wait in the gap buffer and be drained by the third; two faults let a
publisher overrun its lease and its successor crash. Pages of two over three
positions need a second page, and leave room for commits between them.

In the gate, two reviews let one be continued and the next overridden, two keys be
reused or not, two plans drift. A second export and a second worker are what a
conflict of evidence needs. Capacity one with two keys makes one worker wait for
the other's sandbox. A cache of one is full at once. Three segments per log and
four in all put a log boundary, and a hole on either side of it, in reach. Three
backups over two days let retention keep one as the newest and one for its day, and
remove the other. The recovery margin is the least that satisfies its assumption, and a list
of two is full, and so perhaps capped, when both Actions changed and not when one
did. Two
Workers and an urgent tenant with two Runs reach the bound of `NoTenantStarves`.

**Deadlock** is checked except where the modelled time or attempts end: `refund`,
`leases`, `operations` and `progress`.

**Fairness** (`worker_progress`, `progress`). Daemons poll forever (`run_daemon`), so a
`RunNext` that stays possible is taken; Harness calls carry timeouts and return or
raise; the final transaction is attempted; the clock advances. Nothing is assumed
of heartbeats, of crashes (bounded by `MaxFaults`) or of people deciding reviews.
In `progress` each part has its own. *Gate*: daemons claim again and clocks advance; nothing is
assumed of the people. The charge of every call, the tool limit and the deadline end the
loops of model, tools and input, but not the retry after a `before_run` that fails
transiently (`model_harness.py:398-412`): there `GateComesToRest` assumes finitely many
failures (`MaxTransients`). A Run whose last answer repeated a call id comes to no rest
either, since no slice can load its checkpoint (`SavedCheckpointLoads` below);
`RepeatsCall` names that case in the property. *Import*: a Run that is claimed again starts its import
again (`runtime/worker_cli.py:119`) and a worker's steps are taken; strong
fairness of the start, because a worker busy with another fact cannot begin one.
*Sandboxes*: the executor's own steps are fair; nothing is assumed of the clock, of crashes
or of the sweep, which has no caller. `GivenBack` therefore ends its promise where a crash or an
expired lease begins. `ImportsComplete` is of one export without corrections or foreign
writes: with them a fact may conflict on every replay (below), and a second conflict of
one command goes to a person (`connector_bridge.py:620`).
No liveness is claimed for delivery: nothing in the package calls
`OutboxPublisher.publish_once()` or `ProjectionRepository.ingest()`. `BufferIsPastGap` is
the safety side: the consumer never holds back an event that it could apply.
No liveness is claimed for waits: the package has no caller of
`resolve_timeout()` or `ApprovalRepository.expire()`, the documents leave them to
a periodic scan, so no fairness is justified. `ParkedIsOpen` shows the safety
side, that such a scan always finds an open wait to end. `NoTenantStarves` is a
bound, not a liveness property: a tenant that could be served is passed over at
most once per Worker and once more; the bound is reached.

## Proofs

| Module | About | Theorems | Inductive invariant |
|---|---|---|---|
| `WorkerProofs` | Worker | `TypeCorrect`, `FencesUnique`, `HolderCurrent`, `CheckpointsFenced` | `FencingInv` (in `WorkerInv`) |
| | | `SavesExtend`, `RunsMatch`, `RunnableQueued`, `SlotsOutlast`, `Admission` | the properties themselves on top of `FencingInv` |
| `WaitsProofs` | Waits | `WaitsTypeCorrect`, `ParkedRunsOpen`, `WakeupsMatch`, `RepliesNotLost`, `WakesOnlyOnce` | `WaitsInv` |
| | Access | `GrantsBindRequests`, `ListingIsAccess`, `GrantsNeverEscalate` | `AccessInv` |
| | RetryBudget | `RetriesAreAccounted` | `RbInv` |
| `RefundProofs` | Refund | `RefundTypeCorrect`, `RefundsApproved`, `RefundsRecorded`, `DecisionsSettle`, `ConfirmationsComplete` | `RefundInv` |
| | Sandbox | `CapacityIsHeld`, `RecordsAttributable` | `SbInv` |
| `DeliveryProofs` | Delivery | `DeliveryTypeCorrect`, `ClaimsUnique`, `AckedSent`, `AckedStays`, `NoIngestConflict`, `BufferPastGap`, `TailsComplete`, `DeliveryRefinesStream` | `DeliveryInv` |
| `EvidenceProofs` | EvidenceBridge | `BridgeStoresAgree`, `CursorIsCovered` | `BridgeInv` |
| `ControlProofs` | ReviewGate | `BudgetIsConserved`, `ReleasedCanResume`, `DecisionsRoute` | `GateInv` |
| | Recovery | `TypesHold`, `ReviewListIsComplete`, `CapIsByAge` | `RvInv` |
| `DispatchProofs` | Dispatch | `NoTenantIsStarved` | `DpInv` |
| | TokenVerdicts | `TrustDoesEnd` | `TvInv` |
| `OperationsProofs` | WalArchive | `HolesAreReported`, `CoverageRollsForward` | `WalInv` |
| | SigningKeys | `LockIsFetching`, `RetirementBound` | `SkInv` |

Most invariants are theorems of their own (`FencingInvariant`, `WaitsInvariant`,
`GateInvariant` and so on). TLC checked each on the instance of its run as well. A module holds the proofs of
parts that share no definition; the pairs are chosen so that the provers, for
which everything in a module is context, stay quick.

The constants are arbitrary up to the named assumptions: leases, timeouts, cache
lives and page sizes positive, model values distinct, bounds natural numbers. Some
sets are assumed finite, because the code counts them: workers and Runs, tenants
with the Workers that serve them, the ids of a Run's tool calls, and the Actions of
a report. The facts on cardinality which a proof uses are collected in one
definition (`NewestCounted`, `ResultsCounted`, `Counting`, `HoldersCounted`), a
hypothesis of the lemmas that is proved from the library of finite sets at the end
of the module.

*Worker.* "The holder of a valid lease" is not inductive, for a lease may expire
and the claim still be the newest. `FencingInv` therefore speaks of `Current(w)`,
the worker whose token is the Run's, expired or not: it is the only one with that
token, its Run is still RUNNING under its name, no checkpoint was saved since its
claim, and all checkpoints carry smaller tokens. A claim raises the token, which
turns every other worker not current for good. What a slice hands back is past what it
started from, by however many versions (`ResultExtendsPrev`), so a save by the current
worker is past all others (`SavesExtend`). The table properties follow, each
with the facts the trigger and the slot statements maintain.

*Waits.* The four properties are inductive together once it is added that a
signal not marked as dated ahead lies in the past, and that stored signals name
a generation in scope. `WakesOnce` then follows step by step.

*Refund.* `DispatchOK` ties each dispatcher past its second transaction to a
fence the Run has reached and to an Action that left RESERVED; `LedgerOK` ties
the ledger to approval and provider; `ApprovalOK` ties decision, inbox and wait.
`CONFIRMED` survives because a COMPLETED Run is never claimed again.

*Delivery.* Uniqueness of claims needs that a claim in hand is of no later attempt
than its row (`ClaimsOK`); everything about the consumer needs that committed
positions are `1..last` with distinct ids (`LogOK`), which rests on one writer at
a time past the Case lock (`WriterOK`), and that whatever left the database is a
committed row (`WireOK`). `ProjOK` then makes the applied table the committed
prefix, and the refinement follows: a commit is `Publish`, an ingest that applies
is `Consume`, every other step leaves log and prefix alone.

*Recovery.* The list is built from a cut at the recovery point less the margin, while
what a dump misses is decided by its snapshot. `OpenOK` bounds how long a
transaction stays open after its stamp, `PointOK` how long after the snapshot the
point is read, and `MissedOK` combines them: a row that differs from the dump was
stamped at most `MaxOpen` before the snapshot. Assumed: finitely many Actions,
`Margin > MaxOpen + MaxGap`, and a report made on the surviving database. The two
delays are not bounded by the code; the margin is chosen by the operator.

*Signing keys.* A key in the cache was published no longer than one call before the
fetch (`CacheOK`), an answer in hand no longer than the call that brought it, and a
thread that found its key holds one good up to a cache life and a call before the
thread began (`CheckOK`). The bound for every cache life, cooldown and timeout
follows.

*Review gate.* `BudgetConserved` and `ReleasedIsResumable` are inductive with the
types and one more fact, `Unstarted`: a Run without a checkpoint has its whole
budget. Without it the first slice could start from any budget. Each end of a slice
has a lemma on what it spends; a decision that adds to the budget makes a new
checkpoint from the last one, so no addition is made twice from one.

*Access.* The row lock keeps a revision from changing under a request that has read
it. For that to be inductive a transaction in flight has to know its revision
(`RequestsNamed`) and a stream that may send has to have been checked since its last
event (`StreamsChecked`). That nobody has read a row
before the Case is opened (`UnopenedIsEmpty`) lets its creator's grant be the first.
`NoEscalation` then follows step by step.

*Retry budget.* The counter equals the reserved units only because of what the
transaction that holds the row has read: `ReadIsCurrent` says that its key is still
new and that its units still fit.

*Evidence bridge.* A worker carries a command between two stores that share no
transaction, and others move both meanwhile. `ProcOK` says what remains true of the
row and the receipt it will find: a command it holds is stored, a revision it rebases
from is `Stale` (EGM did not execute the command at it and never will), and every fact of an import up
to the one in hand is in both stores. `Evolves` collects how the stores can
move; what a worker knows survives it, and only the worker that steps has to be
looked at anew.

*Sandboxes.* The capacity holds because admission counts under the lock; that no
failure path keeps a sandbox needs that a live one is in use or orphaned
(`LiveAreUsed`); that a record can be attributed needs what an executor relies on at
each of its steps (`ExecOK`).

*WAL archive.* The archiver leads (`ArchiverLeads`), and until a file is deleted no
timeline has a gap (`NothingMissing`), until a failover leaves segments behind
none at all is missing (`NothingBehind`). The verdict on holes compares names, so
half of the proof is that segment names order as their indexes do, by quotient
and remainder.

*Dispatch.* The bound on overtakes is not inductive. `Overtaken(u, t)` says why it
holds: while `t`'s number is above `u`'s, new selections prefer `u`, and `t` can be
dispatched again only by the Workers that already selected for it, so the overtakes
and those claims together stay within the bound; while it is not, at most one
dispatch of `t` has got past `u`, with a number drawn before `u`'s. This
needs that a drawn number is above its tenant's and that no tenant has two on the
way (`NumbersRise`, from the lock of the fairness row), and that a Run is held once
(`HeldAlone`). `RankedOrder` shows that ranking keeps the order of the numbers.

*Token verdicts.* An entry's deadline is at most a cache life away, and that of an active
one at most a cache life and a call after the revocation (`EntryTrust`), because the
call that brought it was asked before the revocation and was out no longer than its
timeout (`CallTrust`). That no request older than the expiry and the skew is accepted is
carried from `verify()` through every step of the call, and a verdict that carries the
expiry is compared with it at the end. The order in which verdicts arrive, and what eviction
drops, play no part.

Only model-checked: the liveness properties (`EveryRunDecided`,
`GateComesToRest`, `ImportsComplete`, `GivenBack`),
which are out of the prover's reach; `RetentionSparesTheNewest` and
`StatusIsRight` of Backups and `ReadyIsSupported` of Assessment, whose inductive
invariants have not been worked out; of the type invariants, the order and the bound
of the verdict cache (`TvTypeOK`) and the places of the queue (`DpTypeOK`), which no
other theorem needs; and the disagreements below.

## Disagreements with the documents

The first is a run, `refund_unknown`: it checks the line that `PROJECT.json` quotes,
and TLC finds it violated. The others came up while the modules were written.
Their properties are defined in the modules, under "What the documentation says",
and TLC violates each when it takes the place of the properties of the cfg in the
last column, with the change given there.

| Property | Said | Done | Seen with |
|---|---|---|---|
| `UnknownIsRecorded` | an unconfirmed answer is recorded as UNKNOWN | the exception raised in the recording transaction rolls the record back | `refund_unknown` |
| `TurnsUseDeployedRules` | a changed policy or tool schema stops the Run for a migration | only strategy and model configuration are compared | `control`, two `Rules` |
| `SavedCheckpointLoads` | a saved checkpoint satisfies its own validator | a repeated call id of an answered tool call is saved and can never be loaded | `control`, `ToolLimit` 2 |
| `RedeliveryAccepted` | a fact that arrives twice is recorded once | from a newer export the unchanged fact is a conflict | `evidence` |
| `ImportsComplete` | a crash replays a page instead of skipping a message | a fact withdrawn before the cursor passes it conflicts on every replay | `progress`, `Corrections` {1} |
| `LedgerRenders` | an extract is bounded and canonical | a long one is cut inside its JSON and the ledger cannot be rendered | `evidence`, `Oversized` not empty |
| `SweepReclaims` | the lease sweep reclaims an unconfirmed sandbox anyway | the sweep only marks it and nothing confirms, so it goes on counting; nor does anything call the sweep | `leases` |
| `CachedWithinExpiry` | a verdict is never cached beyond its token's expiry | it is kept for the whole cache life | `leases` |
| `ChainVerdictIsTrue` | an unbroken chain, for every segment size | a missing last segment of a log is not seen | `operations` |
| `CoverageIsTrue` | the archive can roll the newest dump forward | positions are compared, the segment itself may be gone | `operations` |
| `LagBoundsLoss` | the lag bounds what would be lost | it measures the last copy, not how old the copied segment was | `operations` |
| `RefusedCreateKeepsBackups` | pick another name for this dump | the refused create removes the dump that has the name | `operations`, `Reuse` TRUE |
| `RecordsAreOfThisBackup` | whether this backup was restored | records are matched by name, also to a later backup | `operations`, `Reuse` TRUE, `KeepDaily` 1 |
| `FailedDrillsAreRecorded` | a failure is recorded as carefully as a success | an error of the database leaves no record | `operations` |
| `ListIsComplete` | one row per Action the copy misdescribes | read from the copy itself, none of the later changes is known | `operations`, `FromCopy` TRUE |

What limits them: after `refund_unknown` the refund is not lost, `RefundIsRecorded`
holds and a later call asks the provider again under the same key. After
`CachedWithinExpiry` nothing follows, because the guard compares the expiry of a verdict
again (`TrustEnds`). A hole inside a log is found (`HolesAreRight`), and while
no file was deleted and no failover left segments behind, an archive said to roll
the newest dump forward does (`CoveredRollsForward`).
As long as no name is used twice, an ok status is right (`StatusIsRight`).

Other things the models make visible and no document contradicts: a daemon may
claim and complete the approval Run before the dispatcher does, leaving an
approved Action RESERVED; a decision made while the requester's clock is ahead is
recorded without waking the Run until the timeout; `expire()` leaves wait and Run
to the timeout scan; the turns a worker bought before it crashed are the only
ones the persisted budget does not count.

## Not modelled

- **No caller in the package**: `SandboxManager.renew`, the receipts of
  `apply_once`, `lookup()` of the refund provider. They would be actions nothing takes.
- **Across components**: that a stored assessment is stale when the refund it
  supports is requested; Action deduplication over Cases; resuming a `wait`
  checkpoint in the Worker. Each would compose two modules that are near the limit
  of what TLC explores by themselves.
- **Queries and rows without races**: approvals without a wait, Step and Attempt rows, Case admission,
  read-only listings, scoring of evidence.
- **PostgreSQL's and libraries' own**: row-level security, the connection pool,
  migrations under an advisory lock, pg_dump and pg_restore.
- **No state a property speaks of**: wiring and configuration, command lines,
  payload formats and digests, provider payload mapping, metrics and capacity
  reports, release and point-in-time evidence files, offline evaluations, the web console.

`components` in `PROJECT.json` has the same list by source file.
