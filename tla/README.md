# ParityLab, specified in TLA+

ParityLab creates *runs* of a failure scenario against a Stripe sandbox, stores
the evidence each run produces and grades it. The parts of it that are hard to
get right are the ones where several processes meet in PostgreSQL: API
processes that create runs and record webhooks, workers that drain an outbox,
and browsers that follow a run's evidence while it grows. The modules in this
directory model those parts from the Go and SQL sources (`services/api`,
`db/migrations`) and, for the stream, from the run page (`apps/web`). TLC
checks them on small instances; TLAPS proves the safety properties of all of
them, and both refinements, for every instance. Liveness is model-checked.

## 1. Inventory

| Component | State | Operations | Interacts with |
|---|---|---|---|
| Run creation (`engine/service.go`, `stripe_service.go`, `postgres/repository.go`) | `runs`, `run_events`, `reports`, `idempotency_records`, `run_number_seq`, an advisory lock per key hash | preflight, run number, PaymentIntent, one serializable transaction | Stripe (external), outbox (inserts a row in the same transaction) |
| Outbox and worker (`worker/worker.go`, `repository.go` 968-1057) | `outbox` rows: lock owner, lock time, attempts, availability, end state; each worker's loop and heartbeat goroutine | claim, heartbeat, process, complete, retry, dead-letter | runs the jobs of the next two rows |
| Webhook ingress and correlation (`httpapi/webhook.go`, `repository.go` 517-822) | `webhook_events`, `stripe_webhook_evidence`, the run, its events and report | `MarkWebhookSeen`, `ProcessStripeWebhook` | Stripe delivers at least once; the outbox carries the job |
| Verification relay and reference merchant (`verification/contract.go`, `worker/reference_merchant.go`, `RecordVerification`) | `reference_merchant_effects`, `assertions`, the report | deliveries by fault, the merchant's effect, one assertion | shares the report with correlation |
| Event stream (`httpapi/handler.go` 367-506, `eventsAfter`, `product-pages.tsx`) | the handler's cursor and batch; the browser's last event ID and the page's ledger | connect with `Last-Event-ID`, replay, `run.complete`, poll, reconnect | reads what correlation appends |
| In-memory repository (`engine/memory_repository.go`) | the same data under one mutex | the same | the contract of run creation and of the outbox |
| Accounts and sessions (`auth/service.go`, `postgres/auth_repository.go`, `httpapi/auth_routes.go`) | `users`, `sessions`, `audit_records` | register, login, logout, session lookup | calls the limiter; lets every tenant request in |
| Login limiter (`auth_routes.go` 15-84) | at most 4096 buckets of failures in a window | limited, failure, success, sweep and eviction | called around login |
| Tenant resources (the same files) | `environments`, `notifications`, `findings`, `projects` | select environment, read and read all, resolve and reopen, update settings | run creation inserts notifications and findings |
| Startup (`postgres/migrate.go`, `ensureSeedRuns`, both `main.go`) | `schema_migrations`, the schema, a session advisory lock, seed runs, `run_number_seq` | migrate, seed, listen | several processes and releases at once; run creation draws its numbers |
| Stripe connections (`stripe_service.go`, `secrets/cipher.go`) | one encrypted row per connection | validate, list | read by run creation |
| Scenario timelines and reports (`engine/timeline.go`) | none | pure construction | run creation |
| Signatures and sandbox guards, HTTP reads, web pages, infrastructure | none of the server's | - | - |

What is hard about them, and what makes each correct:

* **Run creation.** Two equal requests race through a preflight outside any
  transaction, a Stripe call and a transaction whose snapshot is older than the
  lock it waits for; a commit answer may be lost; a record may expire while its
  row stays. Correct means: one run per key and scope, and all successful
  answers name it.
* **Outbox.** A worker stalls past its lease and wakes up, dies at any point, or
  its heartbeat errors while the operation has already succeeded. Correct means:
  only the latest claim settles a row, nothing undone is acknowledged, nothing
  is dead-lettered early, everything is settled in the end.
* **Correlation and verification.** Their transactions take the run and its
  report in opposite orders; both read a JSON report and write it back; a job
  may run twice, at once or one after the other. Correct means: evidence is
  added exactly once and never overwritten, counts agree with rows, and the
  verdict is the one an undisturbed relay gives.
* **Stream.** Connections break with frames in flight while evidence arrives.
  Correct means: no gap, no replay of what was acknowledged, `run.complete`
  after the replay, and everything shown in the end.
* **Accounts and limiter.** Login and logout are several transactions; each may
  fail, or commit and lose its answer, and a handler may die between any two.
  The limiter checks and counts in two critical sections. Correct means: no
  client holds a token whose sign-in is not in the audit trail, a logout that was
  confirmed is final, the limit is overrun by no more than the concurrency, and a
  lockout ends.
* **Tenant resources.** READ COMMITTED statements work on a snapshot and evaluate
  their conditions again on rows they waited for; selecting an environment is
  lock, clear, set. Correct means: exactly one default, counts that say what the
  request did, no acknowledged change lost, no deadlock.
* **Startup.** Processes of different releases migrate and seed one database at
  once, and one dies with a migration half done or with the lock held. Correct
  means: every migration takes effect once and in order, nobody serves on a
  schema that is not its own, user runs keep clear of the seeds' numbers, and
  everyone who can come up does.

`PROJECT.json` lists these hazards at their lines, each with the properties that
would catch it.

## 2. Modules

| Module | Models | Used by |
|---|---|---|
| `Outbox` | the `outbox` table, `RunOnce`, `withHeartbeat`, crash and restart | `MCOutbox`, `OutboxProofs` |
| `OutboxContract` | what the outbox port promises: the in-memory adapter, one step per operation | instantiated by `Outbox` |
| `IdempotentRuns` | the contract of run creation: one request, one step | instantiated by `RunCreation` |
| `RunCreation` | both creation paths on PostgreSQL, statement by statement | `MCRunCreation`, `RunCreationProofs` |
| `RunEvidence` | webhooks, correlation, relay, merchant and verification, by statement with row locks | `MCRunEvidence`, `RunEvidenceProofs` |
| `EventStream` | the stream handler, the wire, the EventSource and the page | checked as it is, `EventStreamProofs` |
| `LoginLimiter` | the limiter's map; its operations as actions on it | extended by `Sessions` |
| `Sessions` | register, login and logout, statement by statement, around the limiter | `MCSessions`, `SessionsProofs` |
| `TenantResources` | the protected mutations of one project as READ COMMITTED transactions | `MCTenantResources`, `TenantResourcesProofs` |
| `Startup` | migrations, seeds and run numbers of several processes | `MCStartup`, `StartupProofs` |
| `*Proofs` | for each of the seven components its inductive invariant `IInv`, lemmas and theorems | - |
| `MC*` | the constants of the runs | - |

### Outbox

A row is `status`, `lockedBy`, `stale` (locked_at is older than the lease),
`due` (available_at has passed) and `attempts`. The two clock comparisons are
Boolean because no statement uses more of the time than that. `recorded` says
that the job's own transaction committed: the outbox statement that settles the
row is a separate transaction. A worker is `pc`, its claim (`job`, `seen`), the
heartbeat goroutine `hb` and the `result` of the operation. `withHeartbeat`
joins the goroutine before it returns, and a heartbeat error wins over the
operation's result (`Verdict`). A claim is two steps. `SelectForClaim` is
`SELECT ... ORDER BY created_at, id FOR UPDATE SKIP LOCKED LIMIT 1`: it locks the
oldest claimable row that nobody has locked, and so passes over a row that
another claim holds (`ClaimLocked`), or that a late statement of its owner holds,
although either may still be rolled back and leave the older row claimable behind
the younger. `CommitClaim` is the `UPDATE` and the commit; a `Crash` in between is
the rollback. `CompleteOutbox`, `RetryOutbox` and `FailOutbox` are the statements
of the same names; `OwnsRow` is the `locked_by = $n` clause they share with the
heartbeat, and they wait for a claim that has the row (`Updates`). `Stall` makes a live worker's lease old,
`Crash` stops a worker wherever it stands, `Restart` is the platform's.
Worker names are distinct: `PARITYLAB_WORKER_ID` defaults to host name and
process id; two processes configured with one name are not modelled.
`OutboxContract` has the same table and nothing of the workers: each of its
actions is one method of the in-memory adapter. It does not promise an order of
claims, which `SKIP LOCKED` could not keep. The mapping is the identity on the
table: a claim is the contract's when it commits, and every step that does not
touch the table, the selection of a claim included, is a stutter.

### RunCreation and IdempotentRuns

A request has a `pc` per statement. `Begin` takes the snapshot and then waits;
`Lookup` reads the snapshot; `Store` checks the primary key against the
committed table, as PostgreSQL does. The inserts and the commit are one step,
because the advisory lock keeps other transactions on the key out and nothing
before the commit is visible. Stripe is external: it remembers the parameters
of each idempotency key, may refuse, and may lose its answer. `Expire` lets 24
hours pass. `Abort` covers every error return and the death of the process.
`IdempotentRuns` is the memory adapter's create, replay and conflict plus a
request that fails, stored or not; the refinement mapping drops expiry, topics
and the reason of a failure.

### RunEvidence

Each attempt of a job is a transaction with a set of row `locks`; its writes
appear at its commit. READ COMMITTED statements see the latest commits. The
outbox is reduced to what `Outbox` proves of it: a queued job is attempted, by
two workers too, until an attempt is known to have succeeded. `Matches` is the
correlation test, `HasAssertion` the guard that makes the assertion idempotent,
`Deliveries` and `Passed` the relay's fault table and the worker's verdict.
`BreakDeadlock` is PostgreSQL's deadlock detector, external. The insert of an
assertion takes a key-share lock on its run through the foreign key, which is
what closes the cycle with `ProcessStripeWebhook`. The timeline of a new run is
one event.

### EventStream

One run, one page. The table is its length, because sequence numbers have no
gap (`LedgerConsistent`). The handler reads a batch, writes it, and reads again
at once when the batch was full; `opened` is a history variable. The wire is a
queue that a `Drop` empties, so a batch may be written in one step. The
EventSource is external: it repeats a lost connection with its last event ID and
gives up for good on any status but 200.

### LoginLimiter and Sessions

A bucket is its failures and the ticks `left` until `resetAt`; one clock (`Tick`)
runs for all buckets, and a window opens with `Window` ticks, which stand for the
five minutes. `maintainLocked` sweeps
on every 64th operation and whenever the map is full: `Maintained` lets any
operation be a 64th, and gives every map the eviction, which follows Go's
unspecified iteration order, can leave. `Sessions` composes it with the
handlers. Between two statements of a login anything else may happen; a
statement that fails may have committed. A session row is live or ended (revoked
or expired: `Session` treats both alike). `handed` are the tokens clients hold,
`loggedOut` those whose logout was answered 204. Tokens are drawn fresh; a
collision of 256 random bits is left out.

### TenantResources

A request is one transaction: `pc` is its statement, `found` the rows the
statement has still to visit, `locks` the rows it has written or waited for,
`written` what it has changed, `draft` the version of the projects row an update
of the settings has written under its lock. Changes appear at `Commit`, which includes the
audit record. `IndexMustWait`, `SetTarget` and `SetRefused` are the partial unique
index: it waits for a transaction that may still take its default back or
commit a new one, and then lets the update in or fails it. A unique check and the
insertion of its entry are one step, as in the B-tree. `readBy` and `settings`
record the writing request where the code stores a time or a text, which is all
the properties need; ids of other projects are the id `None` or a run that is
not stored. Requests are numbered by arrival.

### Startup

A process's `Files` are the checksums of its migration directory; `executed` is
what the schema really went through, `recorded` what `schema_migrations` says.
`Execute` runs the body (a `setval` in it takes effect at once), `CommitMigration`
makes body and record visible together. The lock belongs to a session: a crash
leaves it `"dead"` until PostgreSQL ends the session. `SeedCollides` is the path
that `RunCreation` models in detail: the seed was stored while the insert waited.
`schema_migrations` is keyed by file name; the model keys a migration by its place
in name order, which assumes that releases only append names, as the numbered
files do. A renamed file, or one inserted before an applied one, is not modelled.
The `3` that `000003` spells out is the constant `FloorLiteral`; that it covers the
`Seeds` of `ensureSeedRuns` is an assumption of `StartupConstants`, so that a
fourth seed without a new floor would show as a failed assumption.
One file stands for `000001` and `000002`, and `000004` to `000007`, which add
nothing the properties tell apart, are left out.

## 3. Runs

| Run | Instance | Shows |
|---|---|---|
| `outbox` | 2 workers, 2 rows (1 malformed), 2 attempts, 2 disruptions | fencing, no lost or early-settled job, the retry budget, settled rows are final, every row is settled, refinement of `OutboxContract` |
| `outbox_retries` | 1 row, 2 disruptions | *violated*: attempts exceed `MaxAttempts` |
| `run_creation` | 3 requests, 2 scopes, 1 key, 2 bodies | one run per key, equal answers, refinement of `IdempotentRuns`, every request is answered |
| `run_creation_race` | 2 requests, 1 scope | *violated*: concurrent misses do not converge |
| `run_evidence` | 2 workers, 2 runs, 2 events, 5 contents, 1 failure | ledger, report, assertions and receipts agree; nothing is lost, repeated or overwritten |
| `run_evidence_liveness` | 2 workers, 2 runs, 1 event, 1 failure | both transactions finish although they deadlock; retries change no verdict |
| `run_evidence_early` | 1 run, 1 event | *violated*: an early webhook is given up for good |
| `event_stream` | 5 events, batches of 2, 2 failures | exact resume, no gap, `run.complete` after the replay, everything shown |
| `event_stream_status` | 2 events, 1 failure | *violated*: "reconnecting" on a stream that never will |
| `sessions` | 2 handlers, 1 account from 3 addresses, 2 buckets, 1 failure allowed in a window of 2 ticks, 2 tokens, 2 faults | bounded overrun, audited tokens, final logouts, lockouts that end however often the key is tried meanwhile |
| `tenant_resources` | 3 requests on one table, 3 environments, 2 runs, 2 faults | one default, refusals only behind another selection, exact counts, no deadlock |
| `startup` | 3 API processes of 2 releases, 1 worker with an edited file, 3 seeds, 2 faults | each migration once and in order, the seeds' numbers are safe, everyone comes up |

**Bounds.** Two workers are enough for a takeover, a late settler and a
deadlock; a second row lets a worker move on while its old row is pending. Two
attempts make "one left" and "none left" different; two disruptions let a row
exceed its limit by crashes alone, or a claim be rolled back while another
passes over its row. Three requests let one commit while two wait,
in one scope or across two that share the lock. Two runs of one shape are two
projects with one key, the only way to an ambiguous match; five contents reach
every outcome of the correlation. One failure is enough for every partial
failure between two commits. Five events in batches of two give a full batch, a
short one and an empty one after an exact multiple; two failures break a stream
and then the stream that replaces it. Three keys and two buckets force an
eviction, also of a bucket that is counting; two handlers and a limit of one let
one overrun the other, and a window of two ticks leaves time for a refusal in the
middle of it that could push its end away. Two faults let an audit record fail
and then the revocation that answers it. `InOrder` constrains the run to use
handlers and tokens, which are interchangeable, in their order: a symmetry set
would not be sound for `LockoutEnds`. Three selections are what it takes for the index to meet
a default that a third transaction has cleared and not committed; two
notifications give read-all a row it must skip and one it must mark.
Requests on different tables share no row, so that `Contending` keeps those of
one behaviour on one table. Two processes of one release race for each seed, one without the floor serves while
another sets it, and two faults let a start fail, and fail again on what the
first left behind. `MaxDisruptions`, `MaxFailures`, `MaxFaults`, `MaxEvents`,
`MaxNumber`, `RunIds` and `Token` are the only bounds that the code does not have. `Window` is a scale, not a bound: the
code's window is as many ticks as its clock resolves.

**Deadlock.** All runs say `CHECK_DEADLOCK FALSE`: when every request is
answered, every job done and every event shown, the system rests.
Waiting on one another is covered by the liveness properties.

**Fairness.** *Outbox*: clocks advance; operations return, since every call
carries a context; an idle worker polls, a claim that has its row commits; a stopped worker is restarted
(`render.yaml` runs it as a service). Crashes, stalls and enqueues are not
forced, and liveness assumes finitely many disruptions: a worker that dies each
time settles nothing. *RunCreation*: a handler keeps running and gets a free
advisory lock; an abort is never forced, so it cannot stand in for a lock that
is not released. *RunEvidence*: claims as in `Outbox`, with fewer failures than
`MaxAttempts`; PostgreSQL breaks deadlocks and hands a row lock to a waiter that
asks again and again, hence strong fairness on the two lock waits of the cycle.
*EventStream*: ticker, retry timer and network keep going; finitely many
failures. *Sessions*: the clock alone ticks; no request is assumed to come along and
sweep the map. *TenantResources*: a statement that has nothing to wait for ends;
the deadlock detector is left out on purpose, since `RequestsAnswered` says these
transactions do not need it. *Startup*: the platform restarts processes,
statements end, dead sessions are noticed; PostgreSQL queues the waiters of an
advisory lock, hence strong fairness on taking it, without which a process that
is refused and restarted for ever could starve the others.

## 4. Proofs

Every invariant and every action property of a passing run is also a theorem,
for all values of the constants, and so are the two refinements. Each `*Proofs`
module has the same layout: the inductive invariant `IInv`, lemmas about the
operators, `InitIInv`, one step lemma per conjunct or group of conjuncts (with
one case per action), `Inductive` (`Spec => []IInv`) and the theorems that follow.

| Module | Theorem | Property |
|---|---|---|
| `OutboxProofs` | `TypeCorrect` | `TypeOK` |
| | `Fencing` | `FencingSound`: a worker the row still names works on the row's latest claim |
| | `Acknowledged` | `PublishedHasEffect`: a published row's job has committed |
| | `DeadLetters` | `DeadLetterJustified`: a dead-lettered row is malformed or has used up its attempts |
| | `Retries` | `RetryBudget`: attempts exceed `MaxAttempts` by at most the disruptions |
| | `SettledOnce` | `SettledOnceByLatestClaim`: settled rows are final; only the latest claim settles a held row |
| | `Refinement` | `ImplementsOutboxContract` |
| `RunCreationProofs` | `TypeCorrect` | `TypeOK` |
| | `OneRunPerKey` | `AtMostOneRunPerKey`: one committed run per key of a scope, expiry included |
| | `Agreement` | `AnswersAgree`: whoever is told a run is told the one committed for its key and body |
| | `Refinement` | `ImplementsContract` |
| `RunEvidenceProofs` | `TypeCorrect` | `TypeOK` |
| | `LedgerAgrees` | `LedgerConsistent`: count, its copy in the report and the event rows agree |
| | `ReportAgrees` | `AssertionsAgree`: the report's assertions are the assertion rows, each once |
| | `MatchedOnce` | `MatchedExactlyOnce`: all traces of an event are in the one run it matches |
| | `AcknowledgedDurable` | `AcknowledgedIsDurable`: 200 only for stored content with one job |
| | `VerdictStable` | `VerdictIndependentOfRetries`: a recorded verdict is that of an undisturbed relay |
| | `OnlyGrows` | `EvidenceOnlyGrows`: no transaction removes or rewrites evidence |
| `EventStreamProofs` | `TypeCorrect` | `TypeOK` |
| | `Resumes` | `ResumesExactly`: the wire carries what lies between last event ID and cursor, in order |
| | `PrefixShown` | `LedgerPrefix`: the page shows a gapless prefix of the stored events |
| | `CompleteLast` | `CompleteAfterReplay`: `run.complete` follows the replay, once |
| `SessionsProofs` | `TypeCorrect` | `TypeOK` |
| | `Overrun` | `OverrunBounded`: the limit is overrun by no more than the other handlers |
| | `Audited` | `HandedIsAudited`: clients only hold audited tokens |
| | `LogoutFinal` | `LogoutIsFinal`: no token is valid after its logout was confirmed |
| `TenantResourcesProofs` | `TypeCorrect` | `TypeOK` |
| | `DefaultKept` | `OneDefault`: exactly one default environment |
| | `Refusals` | `RefusedBehindAnother`: a selection fails only by a fault or behind another that committed |
| | `Acknowledgements` | `AcknowledgedIsKept`: exact counts, nothing acknowledged is lost |
| `StartupProofs` | `TypeCorrect` | `TypeOK` |
| | `OwnSchema` | `ServesOwnSchema`: a serving process has its files behind the schema, in order, once |
| | `FloorProtects` | `FloorProtectsSeeds`: no seed's number is drawn once the floor is recorded |

**Assumptions.** They are the named `ASSUME` of each module, which TLC evaluates
on every run. All say what kind of values the constants are: numbers where the
code has numbers, limits that are at least 1 where the code's are (`MaxAttempts`,
`BatchSize`, `Limit`, `MaxBuckets`, `Window`), and that `None` (SQL's NULL, Go's nil) is
none of the values it is compared with. `SessionConstants` also says that a
limiter key is an address with an email and that handlers are finitely many,
without which a bound by their number says nothing; `EvidenceConstants` that the
timeline's event is none of Stripe's and that a run's fault is one the relay
knows; `TenantConstants` that a project starts with a default; `StartupConstants`
that the floor is one of the migrations and its literal no less than the seeds. Nothing bounds workers, requests, rows,
events, releases or failures.

**Why the invariants are needed, and the argument of each module.**

* *Outbox.* `JobNamed`: a worker that claims or works does so on a row.
  `ClaimsTrue`: what a claim selected holds until it commits (the row is
  claimable, its count is the one that was read, no other claim has it), because
  the row lock keeps every other statement away and time only makes a row more
  claimable; without it the claim's commit would act on what was true a step ago. `ResultTrue`: an
  operation that returned "ok" has committed and a "permanent" one worked on a
  malformed row; without it nothing connects the worker's local result with the
  effect `CompleteOutbox` acknowledges. `AttemptsPaid`: a pending row nobody holds
  has an attempt left, and one whose lease can be taken over has had its last
  attempt paid for by a disruption, which is what makes `RetryBudget` survive the
  next claim. The fencing argument: an owner name identifies a claim because a
  worker has one claim at a time and forgets it before it makes another. For the
  refinement every step on the table is the contract's operation of the same name,
  and a claim is the contract's at its commit, where `ClaimsTrue` gives its guard.
* *RunCreation.* `NumbersOwn`: no stored run has the number of a request that may
  still store one. `SnapshotHolds`: a snapshot may miss the record of its key, but
  what it shows is still there after the wait; this is the fact the stale snapshot
  makes doubtful. `RecordsMatchRuns` (record and run are stored together) and
  `AnswersOnRecord` then give both properties. The advisory lock does not occur in
  the argument: the primary key alone keeps the runs apart, and the lock only
  decides which answer the second request gets. In the refinement, `Store` and
  `Lookup` are the contract's create and replay; waiting, numbering and Stripe are
  stutters.
* *RunEvidence.* `AttemptTrue` is what a transaction relies on after each statement
  (its event is still pending, the sequence number it read is still the next one,
  the report it read is still the stored one), and `LocksApart` is why: lemma
  `Isolation` shows that no other worker changes what an attempt has locked, a
  receipt or a created run. Lemma `WorkerStep` sorts the steps of a worker by what
  they do to the tables (nothing, give up, record, verify, deliver), so that each
  property is proved over five cases. `RelayAt` says what a relay has delivered and
  where that leaves the merchant, deliveries of earlier attempts included; it makes
  the verdict independent of retries. `QueueTrue` and `RowsTrue` tie jobs to rows.
* *EventStream.* `BatchTrue`: a batch starts at the cursor, ends within the table,
  and one that is not full reaches what was stored at the opening; hence an idle
  handler has replayed. The wire is reasoned about as a sequence: `Carries(s, a, b)`
  and `Completes(s, a, o)` say what a sequence of frames transports, and lemmas show
  how appending a batch, appending a signal and taking the first frame change `a`
  and `b`.
* *Sessions.* `StepsTrue` says what a handler relies on between two statements: a
  login's token is nobody else's until its row is there, a reply has its audit row,
  a logout that is about to be audited has ended the session. `BucketsOK` bounds the
  map, with lemmas on the sweep, the eviction and the clock. For `Overrun`, a handler that is
  let in finds fewer than `Limit` failures, and one that counts leaves the flight.
  It speaks of a key's current bucket: guesses counted in a bucket that was evicted,
  or in a window that is over, are forgotten as the code forgets them.
* *TenantResources.* `SelectTrue`: a selection has cleared or has still to clear the
  default unless another one committed meanwhile, and past the index it is alone.
  `MarkTrue`: a notification a transaction has marked is unread to all others and
  locked until it commits, and read-all has marked or has still to visit what was
  unread when it came in. `DraftTrue`: an update of the settings holds the projects
  row from its `UPDATE` to its commit, so that the version it commits is the current
  one with its own field changed.
* *Startup.* `RecordedExecuted`: the records are the executed bodies, in order.
  `ScanTrue`: what the lock's holder has scanned agrees with its files and what it
  applies is the next one. `Verified` and `SeedsStored` carry this past the
  release of the lock. `FloorSet`: `setval` takes effect before the record commits
  and is never undone.

Only model-checked: the liveness properties `EventuallySettled`,
`EveryRequestAnswered`, `EvidenceArrives`, `EveryEventShown`, `LockoutEnds`,
`RequestsAnswered` and `EventuallyUp`. They rest on fairness, which is outside
the prover. The refinements are of the safety parts; neither contract states
fairness.

## 5. What the checks found

* `docs/security/THREAT_MODEL.md:53` answers poison messages with bounded
  retries. The limit is only looked at by a worker that survives the attempt; a
  job that kills its worker is claimed again whatever `attempts` says.
  `RetryBudget` states the bound that does hold.
* `docs/WORKSTREAMS/ENGINE.md:60` says concurrent misses converge through the
  repository transaction. The one that waited for the lock has a snapshot from
  before the wait, does not see the record and fails on its primary key with
  `persistence_failed`. A later retry is answered correctly (`AnswersAgree`).
* `docs/operations/SLO.md:14` sets one normalized effect for 100% of persisted
  events. A webhook processed before `createRun` commits is stored as
  `run_not_found` and never looked at again.
* `docs/ARCHITECTURE.md:24` calls a terminal run immutable; correlation updates
  its event count and snapshot (no run of its own: it is the code's plain
  intention). `EvidenceOnlyGrows` is what holds instead.
* `docs/STATE.md:49` promises an honest stream status; after an error status the
  browser has closed the EventSource and the page says "reconnecting".

Behaviour the models make visible, about which no document says otherwise:

* claims are not in due-time order (`docs/WORKSTREAMS/ENGINE.md:84` uses the word):
  the claim orders by `created_at, id` among the rows that are due, and passes over
  locked ones, so that a younger row may be claimed while an older one stays
  claimable;
* two concurrent selections of different environments may end with the second
  one refused (`environment_update_failed`) although nothing is wrong with it;
* a login that fails for a reason of the server's counts against the key's limit,
  and a session whose revocation also fails stays live, its token unknown to
  anyone;
* a logout that answers `logout_failed` may have revoked the session;
* `000003` may set the sequence back past a number that an older release has
  drawn and not yet stored; the primary key then fails one of the two requests;
* an API process that loses a seed race exits, and depends on its supervisor.

## 6. Not modelled

Cryptography (signatures, password hashes, encryption) is a valid/invalid
choice. Timelines, reports' wording and the read endpoints have no state of
their own. The in-memory adapter's webhooks, reports and tenant resources do
under one mutex what the PostgreSQL adapter does by statement, and are not
compared with it (its `MarkNotificationRead` overwrites a read time that
PostgreSQL keeps). A Stripe connection is one upsert and one read. Web pages
other than the run page, infrastructure and test scripts are outside.

## 7. Plan

Done: the seven components with their contracts (`OutboxContract`,
`IdempotentRuns`), and the proofs of all their safety properties and refinements.
Left:

1. `EvidenceContract`: receipts and verdicts in one step each, as the in-memory
   adapter has them, and `RunEvidence` shown to implement it, by the lemmas of
   `RunEvidenceProofs` on what a commit does to the tables.
2. Stronger statements where the proofs show more than the properties say: the
   owner of a row or report between two statements as a property of its own, and
   the bound of the limiter's map.
