# Verification of the industrial control agent

TLA+ models of the program under `backend/` and `frontend/`, the TLC
configurations that check them, and theorems about them that TLAPS checks.
The reference is the source; line numbers below are those of
`backend/plan_repository.py` unless another file is named.

    tlc -workers 2 -config MCModelJobQueue.cfg MCModelJobQueue.tla
    tlapm ModelJobQueueProofs.tla
    tlapm IdempotencyProofs.tla
    tlapm AuditOutboxProofs.tla
    tlapm PlanReviewProofs.tla
    tlapm TrafficGuardProofs.tla
    tlapm RedisTrafficGuardProofs.tla
    tlapm WorkerProcessProofs.tla
    tlapm BrowserProofs.tla

## 1. Inventory

The program turns a description of an industrial control task into a control
plan with the help of a paid language model, reviews and exports plans, and
keeps a tamper-evident audit trail. It runs as an HTTP API, any number of
model-job workers and an audit dispatcher around one database (SQLite for
development, PostgreSQL in production) and optionally Redis.

| Component | State it keeps | Operations | Talks to |
|---|---|---|---|
| Model-job queue (398-935) | `model_jobs` rows: status, attempts, fencing token, lease owner and expiry, due time, plan | enqueue, claim, heartbeat, cancel, complete, fail | API, workers, audit chain, idempotency, plans |
| Model-job worker (`model_job_worker.py`) | one job per process, one heartbeat thread per run | `run_once`, `_maintain_lease`, start, stop, crash | queue, traffic guard, LLM client |
| Idempotency records (275-351, 1566-1651) | record per actor, operation and key: hash, in progress or completed, expiry | claim, replay, release, complete, purge | API handlers, queue, plans, reviews |
| Plans, reviews, export (353-390, 951-1075; `main.py` 723-914, 1154-1279) | plans with versions, reviews | create, optimise, review, export | audit chain, idempotency |
| Audit chain (1077-1158, 1435-1564) | `audit_events`, each with the hash of the one before | append, verify | every writing transaction |
| Audit outbox (`outbox_worker.py`; 1160-1263, 1318-1336) | `audit_outbox` rows: lock, attempts, due time, published | claim a batch, deliver, mark, back off, purge | external sink |
| Traffic guard (`traffic_guard.py`) | windows, daily budget, concurrency leases; in process, in the database or in Redis | acquire, release | API, workers |
| LLM client (`llm_client.py`) | circuit breaker, deadline, abandoned threads | `chat` | model service |
| Pipeline and validation (`agent_core.py`, `validation/`) | none between calls | generate, optimise, validate, score, gate | LLM client |
| Readiness (`main.py` 430-479) | `service_heartbeats` | `/ready` | all of the above |
| Authentication (`auth.py`) | key cache | verify a token, check a role | API |
| Migration (`migrate_sqlite_to_postgres.py`) | none | copy plans parents first, reviews, audit | two databases |
| Frontend (`App.jsx`, `api.js`) | pending idempotency keys, the plan on screen | submit, poll, cancel, review, export | API |
| `traffic_control.py`, `archive/` | an older limiter and prototypes no running module imports | | |

**What is hard.** Every transaction may interleave with those of other
processes. Workers die without a word; leases expire under workers that are
alive, and calls of theirs arrive late; heartbeat threads outlive their run;
cancellations meet results. On PostgreSQL transactions run at READ COMMITTED,
so a row read without a lock may be stale when it is written, and the
audit-chain lock can close a cycle of waiting transactions. Idempotency and
outbox locks expire without a fencing token. Deliveries repeat. Limits count
windows, clients and running calls in three different ways. `PROJECT.json`
lists each hazard with its line and the properties aimed at it.

**What makes each component correct.**

- Queue and worker: one outcome per job, one plan per success, none otherwise;
  a superseded worker changes nothing; cancellation sticks; every job ends;
  the limit and coalescing count the right rows; the audit trail tells what happened.
- Idempotency: one effect per key and hash; a replay returns the first result.
- Plans: an export happens only while the latest review approves that content;
  a derived plan never needs less review than its parent.
- Audit: the chain is unbroken and complete; every event reaches the sink at
  least once and is not purged before.
- Traffic guard: limits hold over every window; a slot taken is given back.
- LLM client: `chat` ends by its deadline, with one request at a time.
- Scoring: level monotone in findings and never below the worst severity.
- Migration: parents before children; fails only on an invalid graph.
- Frontend: a retry reuses its key until the job has ended; what is on screen
  belongs to the plan it names.

## 2. Plan

The modules, in the order they were written:

1. `JobLifecycle` - what a submitter is promised; `ModelJobQueue` - the queue
   and its workers with atomic transactions, shown to implement it;
   `ModelJobQueueProofs`.
2. `ModelJobQueuePg` - the same at READ COMMITTED, extending `ModelJobQueue`.
3. `IdempotentAnswers` - what an endpoint with keys promises its callers;
   `Idempotency` - the records and the handlers that use them, shown to keep
   the promise; `IdempotencyProofs`.
4. `AuditDelivery` - what the trail promises a sink; `AuditOutbox` - chain,
   outbox and dispatchers, shown to keep the promise; `AuditOutboxProofs`.
5. `PlanReview` - versions, reviews, access and export; `PlanReviewProofs`.
6. `TrafficGuard`, `RedisTrafficGuard` - limits, budgets and leases;
   `TrafficGuardProofs`, `RedisTrafficGuardProofs`.
7. `LLMClient` - attempts, deadline and breaker; `WorkerHeartbeat` - the
   threads of a worker and the readiness check; `WorkerProcessProofs`.
8. `AgentWorkflow` with `RiskScoring` - the pipeline from reply to gate;
   `DeviceScopes` - which words of a plan speak for which device.
9. `PlanMigration` - the import of a legacy database.
10. `JobClient`, `ReviewPanel` - the two stateful halves of the browser, the
    first with a short account of the server, shown to keep the promises of
    `IdempotentAnswers` and `JobLifecycle`; `BrowserProofs`.

`Idempotency`, `ModelJobQueue` and `JobClient` meet in their abstract
specifications: the first two implement them in full detail, and the third's
server, of which the client sees little, implements both at once.

## 3. The modules

### JobLifecycle

The abstract specification: a job is absent, open, cancelling, or ended as
succeeded, failed or cancelled, and has plan versions. It may move only
forward; a version appears with a success and never otherwise; an accepted job
ends. Attempts, tokens, leases and workers do not occur in it.

### ModelJobQueue

One action per repository transaction and per step of a worker that can be
seen from outside.

| Code | Model |
|---|---|
| `model_jobs` columns | `status`, `req` (actor, operation, request hash), `attempts`, `token`, `owner`, `lease`, `due`, `planId` |
| `plans`, `audit_events` | `plans` (job and token that wrote it), `audit` (how often each action was appended per job) |
| `run_once`, `_execute` | `pc` and `task` per worker: idle, claimed, aborting, executing, down |
| heartbeat threads | `beats`, a set: several can be alive for one worker |
| `enqueue_model_job` 398 | `Enqueue(r, j)` |
| `cancel_model_job` 733 | `Cancel(j)` |
| `claim_model_job` 563 | `Claim(w)`: exhausted jobs, expired cancellations and the oldest claimable job, in one step |
| `model_job_cancel_requested` 716 | `CheckCancel(w)` |
| `complete_model_job` 778, `fail_model_job` 852 | `Complete(w)`, `Fail(w, retryable)`, with the end of `run_once` |
| `_maintain_lease`, `heartbeat_model_job` 690 | `Heartbeat(b)`, `HeartbeatEnds(b)` |
| process death, start | `Crash(w)`, `Restart(w)` |
| clocks | `LeaseExpires(j)`, `BackoffElapses(j)` |

What is abstracted. Timestamps are only compared with the caller's clock, so a
lease is live or expired and a queued job due or not. A lease may expire at any
moment, also under a worker that renews it: this covers slow hosts and clocks
that disagree. `created_at` is the job's id; it is taken before the insert
starts, so ids may be inserted in any order. Payloads, progress, error texts
and results are left out. The model call is the choice of how the attempt
ends; a refusal by the traffic guard and a rolled back completion are failures
with the verdict `_retry_policy` gives. A caller without idempotency key is
modelled. A restarted worker keeps its name: it has no task and no thread, so
nothing distinguishes it from a new one except rows it still owns, which it
can do nothing with until it claims them again under a new token.

### ModelJobQueuePg

Extends `ModelJobQueue` by the open transactions of the workers (`sweep`), row
locks and the advisory lock of the audit chain. `claim_model_job` is split into
its statements; complete, fail and cancel into locking their row and the rest.
The other transactions stay one step, enabled while the locks they need are
free. A cycle of waiting transactions (a claim that holds the audit chain and
waits for a row whose holder waits for the audit chain) is resolved by
`DeadlockVictim`, with what a rolled back transaction does to its process.
`FOR UPDATE SKIP LOCKED` skips locked rows. The queue's own advisory lock
serialises enqueues and is not held together with a row lock of another kind,
so an enqueue is one step.

### IdempotentAnswers

The abstract specification of an endpoint with idempotency keys: resources made
for a body, keys bound to a resource of the body they were sent with until they
are forgotten, and callers, each answered once at most, with the resource its
key is bound to. Records, locks, takeovers, retries and crashes do not occur in it.

### Idempotency

The five write handlers of `main.py` (`/generate` 723, `/optimize`,
`/jobs/generate` 528, `/jobs/optimize`, `/plans/{id}/reviews` 1154) have one
shape: claim the key, work, store the resource together with the completion of
the record, release the key if that did not happen. A caller of the model is
one such request; a client's retry is another caller with the same key.

| Code | Model |
|---|---|
| `idempotency_records` | `rec`: absent, in progress or completed; body hash, resource, lock live or expired |
| the handler | `pc`: new, inserting, raced, working, failing, done, dead; `answer` |
| `claim_idempotency` 275, `_resolve_idempotency_row` 1599 | `Look(c)`: no row, another body, replay, in progress, takeover |
| the INSERT, the unique constraint, `_claim_after_race` 1627 | `Insert(c)`, `ClaimAfterRace(c)` |
| `create_plan`, `create_review`, `enqueue_model_job` with `_complete_idempotency` 1566 | `Store(c)`, `StoreRefused(c)` |
| errors of the work, the `finally` block, `release_idempotency` 330 | `WorkFails(c)`, `Release(c)`, which may itself fail |
| process death | `Crash(c)` |
| `locked_until`, `purge_operational_records` 1318 | `LockExpires(k)`, `Purge(k)` |

`origin` is history: for which body a resource was created. `Promise` maps a
completed record to a bound key, and its purge to a forgotten one; what a
request holds before its completion is bound to nothing. A key stands for actor, operation and
header value; a caller without the header takes no part. `enqueue_model_job`
may answer with an active job of the same body, so `Store` may bind a resource
another caller created. The claim is split between SELECT and INSERT, where
PostgreSQL lets others in. The purge removes records completed seven days
ago, which no request outlives.

`Spec` lets a request take any time, longer than the 180 seconds of its lock
included. `PromptSpec` lets a lock expire only when nobody works under it: a
handler makes one model call at most, which ends after 90 seconds
(`llm_client.py` 76), and the rest of it is short.

### AuditDelivery, AuditOutbox

`AuditDelivery` is the promise: events are recorded append-only, the sink gets
recorded events only, and every one of them. `AuditOutbox` is how it is kept.

| Code | Model |
|---|---|
| `audit_events` | `chain`: events in the order of `sequence`, each with the event its `previous_hash` stands for; `open`: those of unfinished transactions |
| `audit_outbox` | `outbox`: pending, published, old (past the retention) or purged; owner, lock, due |
| `_lock_audit_chain` 1557, `_append_audit` 1435 | `ChainFree`, `AppendAudit(w)`, once or more per transaction |
| `_transaction` 1714 | `Commit(w)`, `Rollback(w)` |
| `run_once` (`outbox_worker.py` 36) | `at` and `batch`; `Purge`, `Claim`, `Deliver`, `MarkPublished`, `MarkFailed` per step, `Crash`, `Restart` |
| the sink (external) | `accepted`; it recognises repeated events by their id, so a set will do |

A hash stands for what it covers, so `verify_audit_chain` is the comparison of
neighbours in `ChainIsUnbroken`. Rows are ordered by `created_at`, which is
read under the lock of the chain; on hosts whose clocks disagree only the order
of delivery changes. A row that `SKIP LOCKED` passes over is being changed by
another transaction, so the claim counts as coming after it. A delivery that
the sink accepts may look refused (a timeout), and a mark may raise before or
after its commit. An exception outside the `try` leaves `run_once` and ends the
process: `Crash`. A restarted dispatcher has a new worker id in the code and
keeps its name here; it holds no batch, so it marks nothing until it claims.

### PlanReview

The plans table with its reviews and the plans' part of the audit trail. A user
has one request open at a time; a handler reads the plan, decides and writes in
a later transaction.

| Code | Model |
|---|---|
| `plans`, `reviews`, `audit_events` | `plan`, `reviews` (in the order of commits), `audit` |
| `/generate`, `create_plan` 353 | `Generate(u)` |
| `/optimize` with a plan id (`main.py` 818), the worker's copy | `BeginOptimize(u, p)`, `FinishOptimize(u)` |
| `/plans/{id}/reviews`, `create_review` 951 | `BeginReview`, `StampReview` (the clock is read before the transaction), `CommitReview`, `ReviewConflicts` |
| `/plans/{id}/export`, `authorize_export` 1039 | `BeginExport`, `Authorize` (under the row lock), `CommitExport` |
| `_ensure_plan_access`, `require_roles`, `list_plans` | `MayAccess`, `HasRole`, `Inbox` |
| errors, disconnects, process death | `Abort(u)` |

A decision carries the stamp of its host's clock; `Skew` says how hosts
differ. `clock` advances with every committed review.

### TrafficGuard, RedisTrafficGuard

The process-local guard with the daily budget in the database, and the guard in
Redis; `create_traffic_guard` chooses one of them. A deque is a log and the
number of stamps popped from its left, so that past admissions stay visible.
`Acquire(r)` is `acquire` under its lock in the order of its checks; `Charge`
and `RefusedByBudget` are the later transaction; `EndCall` releases. Clients
beyond `MAX_TRACKED_CLIENTS` are forgotten, the least recently admitted first.

In Redis a script is one step; the bucket of a request and the expiry of its
lease come from the caller's clock, the expiry of keys from the server's.
Requests travel for up to `MaxDelay` (`Send`, `Admitted`, `Refused`,
`RequestLost`), the answer of an admission and its release may be lost, and
clocks differ by `Skew`; `Ahead` is that of the foremost clock. A key that lives
for a window and a second from its last request may die before a late request
of its bucket comes, which then begins a new count: the properties say what
holds all the same. In the window from any `t` on, on the server's clock, there
are requests of at most `BucketsMet` buckets, and each bucket has no more than
its limit in a spell of that length (`RateIsBounded`).

### LLMClient

`chat` with its loop: `AskBreaker` is `is_open` under the breaker's lock (143),
`SendRequest`, a step of its own, looks at the time left and sends the request in
a thread (145, 234); the thread's result (`Succeeds`, `FailsForGood`, `FailsForNow`) races
the hard limit of the wait (`Abandon`, after which the thread runs on until
`AbandonedEnds`); `SleepBeforeRetry` computes back-off or Retry-After against
the budget. Time is discrete; whatever waits for a moment acts within `MaxLag`
of it. Each chat has its breaker, as each client of the application has
(`main.py` 265, `llm_client.py` 121) and serves one chat.

### WorkerHeartbeat

The main thread of `model_job_worker.py` (`FindNothing`, `ClaimJob`,
`CallReturns`, `WakeUp`), `_maintain_lease` (`Beat`, `BeatFails`), death and
start of workers, and `service_is_healthy` as `/ready` uses it. Unlike in
`ModelJobQueue`, where a lease may expire at any moment, time passes in seconds
here and the question is whether the heartbeat's interval is short enough.

### AgentWorkflow, RiskScoring

`generate_control_plan` and `optimize_control_plan`: the reply and each field
may be bad, each with its exception; then `RuleEngine` runs the rules in order,
each of which answers any status or raises. `RiskScoring` holds the operators
of `scoring.py`, `_build_report` and `_build_safety_gate`.

### DeviceScopes

`_scoped_texts` and `multi_device_scopes` of `device_semantics.py`, and the
rules of `rules.py` that judge device by device. Text is abstracted to its
structure: a request is a set of mentions of devices, a plan is sentences of
clauses, a clause names groups of devices or none and states points. The term
lists of `catalog.py` and the splitting of text are not modelled: they decide
which of these structures a text has.

### PlanMigration

`migrate`: three reads of the source with a snapshot each, the loop of
`_parent_first`, the check that the target is empty and the writing
transaction, with foreign keys, unique numbers and the `setval` of the sequence.
The old API goes on writing to the source and the new one may append events
to the target at any time; the importer may die and be run again.

### JobClient, ReviewPanel

`JobClient` is `idempotentRequest`, `waitForModelJob` and the calls around them
in `frontend/src/api.js`, with the server's two job endpoints in short:
`pendingIdempotencyKeys`, a call per body, POSTs that are lost or answered
late, and jobs that end whenever they like. `PromptSpec` is a page that is not
loaded anew and whose requests are served within the time of their claims.
`Promise` and `Queue` say what the short account may leave out: seen through
them, the server's steps are steps of `IdempotentAnswers` (a key has the name of
the request that made it) and of `JobLifecycle` (an active job is open, whether
or not it is being cancelled).
`ReviewPanel` is the panel of a persisted plan in `App.jsx` with the approval
form and the export buttons; its handlers are asynchronous and their answers
come in any order. An approval may be stored and its answer lost, the retry is
then answered with it; `export_allowed` in that answer is read after the commit
(`main.py` 1235), when another reviewer may have rejected.

## 4. The runs

| Run | Instances | Distinct states | Time |
|---|---|---|---|
| `queue_safety` | 2 jobs, 2 requests, 2 workers, 2 attempts; room for 2 jobs or for 1 | 337,265 | 16 s |
| `queue_liveness` | 2 jobs, 1 worker, 2 attempts | 32,772 | 10 s |
| `queue_pg` | 2 jobs with 1 attempt, or 1 job with 3; 2 workers | 366,061 | 14 s |
| `pg_outcome` | 1 job, 2 workers, 1 attempt | violation | |
| `idempotency` | 4 requests, 2 keys, 2 bodies; of any duration, or prompt | 210,166 | 10 s |
| `outbox` | 2 events, 2 writers, 2 dispatchers; batches of 2, or of 1 and prompt | 48,290 | 35 s |
| `plan_store` | review: 3 users, 1 plan, 2 reviews; lineage: 2 users, 2 plans; import: 3 plans | 2,489,533 | 77 s |
| `traffic_guards` | local: 4 clients of which 3 are tracked, 1 process, 1 day; shared: 2 processes, 1 client, 2 days; rate and leases: the Redis guard | 1,294,272 | 120 s |
| `worker_process` | beats and faulty: 2 workers; chats: 2 chats; workflow: 6 rules | 319,010 | 16 s |
| `browser` | prompt: 2 bodies, 3 requests; slow: 1 body; panel: 2 plans, 2 requests | 238,195 | 17 s |
| `validation` | scopes: 3 mentions, 2 clauses; long: 2 mentions, 3 clauses | 122,070 | 18 s |
| `device_scopes_unjudged` | that of `validation` | violation | |

What each one asks of the system is in `PROJECT.json`; the properties are in
section 5.

**Instances chosen by a variable.** A run of several instances has a variable
the initial states choose and no step changes (`tight`, `contested`, `prompt`,
`part`, `reading`). Where the instances are of different modules, a behaviour takes the
steps of one module only, and the variables of the others keep one value. The
properties name the instance they are about; where no bounds small enough for
TLC make every limit of a component matter at once, each limit has an instance.

**Bounds.** Two workers are enough for one to be superseded by the other, and
two attempts for a superseded one to return; three attempts add a worker
that lost its job and claims it a second time while a thread of its first run
is still alive. Two jobs make a claim settle one job while it takes another,
and let claims wait for each other's rows. The liveness instance is smaller
because TLC's liveness check uses no symmetry. `MaxAttempts` bounds tokens, so
no state constraint is needed.

Four requests on one key are a slow claimant, the retry that takes its record
over, a third call let in by the late release of the first, and a reuse of the
key for another body; a second key makes requests share a job without sharing
a key. Two writers let the chain fork; two events let a batch be half done when
its lock expires; batches of one make the backlog longer than a batch, where
later events could starve.

One plan and two reviews by three users, one of whom is designer and reviewer,
are a decision on a version somebody else has decided on and an export between
the two; two versions are a derivation whose parent's review is bypassed. Three
plans with every parent graph include a cycle of three, a dangling parent and
an order that is no order of creation; two rows and three numbers let the new
API's events meet the imported ones.

The local guard has one client more than it tracks and windows shorter than its
day; the shared one charges at midnight. Both are behaviours of `TrafficGuard`
itself, cut down to some processes, clients and days. In `rate` requests arrive in a
later window than they were sent in; in `leases` the clocks of two processes
differ by a unit. The lease of a worker is shorter than its longest call, as a
configured one may be (the default of 180 s is not), so that it must be renewed;
the interval of the beats is shorter than lease and staleness, as with the
defaults (15, 180 and 30 s). A chat has two
attempts and a threshold of one failure, less than the code's (three and
three), so that a chat meets its own open breaker between its attempts as well
as one whose cool-down is over. Three requests are a lost one, its retry and the next
submission. The six rules have severities that reach every band of the score
with and without a critical finding; mentions and clauses cover every shape the
loop of `_scoped_texts` tells apart.

**Symmetry.** Requests, workers, keys, bodies, clients and calls are compared
for equality only, hence the symmetry sets; jobs are ordered by their id,
processes and users differ by clock and role, and are not symmetric. No
symmetry where liveness is checked.

**Fairness.** Queue (`FairSpec`): clocks advance, so an unrenewed lease expires
and a backoff ends (weak). A live worker goes on with its job (weak): the LLM
client has a total deadline, which `worker_process` checks, and the database
calls return. A dead worker is started again (weak): the deployment keeps the
process running; nothing in the repository does, so this is an assumption on
its environment. Some worker claims (strong): a worker that may crash between
any two claims would otherwise crash before each of them for ever. Submissions,
cancellations, crashes and heartbeats are owed nothing.

`AuditOutbox` assumes the same of clocks and restarts, that no step of a run is
cut short each time it is tried, and that the sink accepts an event it is
offered again and again. Delivery is checked for batches worked off before
their lock expires (`PromptNext`: 12 seconds per record, a delivery times out
after 10): a batch that outlived its lock every time might never be marked and
keep later ones waiting. Safety has no such restriction.

`PromptNext` of `Idempotency` lets a lock expire only when nobody works under
it: a handler makes one model call at most, which ends after 90 seconds
(`llm_client.py` 76), and the rest of it is short; the lock lasts 180.

A chat's own thread goes on and time passes (`MCSpec` of `MCWorkerProcess`);
the model service is owed nothing and may stay silent.

**Deadlock** is checked in the runs of the queue and the outbox, where clients
can always submit or processes restart. It is off where requests, admissions,
words or time are bounded and a behaviour ends when they are used up.

## 5. What is checked

| Property | Run | What it says |
|---|---|---|
| `OutcomeMatchesPlans` | `queue_safety` | a job has a plan exactly when it succeeded, one, written under its last token |
| `IndInv` | `queue_safety` | the inductive invariant: exclusive tokens, no stranded job, granted tasks |
| `AuditTrailIsTrue` | `queue_safety` | one terminal event per job, the right one, and every attempt accounted for |
| `AdmissionHolds` | `queue_safety` | coalescing and the limit count every unfinished job |
| `StaleHeartbeatRenewsNothing` | `queue_safety` | a left-over thread renews nothing of a later run |
| `ImplementsLifecycleSafety`, `ImplementsLifecycle` | `queue_safety`, `queue_liveness` | refinement of `JobLifecycle`: forward only, and every job ends |
| `WaitsEnd` | `queue_pg` | who waits for a lock is in a pair the detector breaks or waits for somebody who does not |
| `OneVersionPerJob`, `OverwritesAreBounded`, `StaleWorkerChangesNothing` | `queue_pg` | one plan per job, the loss of a last attempt as the only overwritten end, and the fence: what remains true at READ COMMITTED |
| `RepliesAgree` | `idempotency` | refinement of `IdempotentAnswers`: whoever took the record over, completed or released it, a key is bound to one resource, and repeated calls of the same body return that one, created first (`src/README.md` 178) |
| `PromptCallersAreAlone` | `idempotency` | prompt handlers of a key never run side by side and keep their claims |
| `ChainAndOutboxAgree` | `outbox` | `verify_audit_chain` succeeds whenever it is asked; event and outbox row are committed together |
| `PublishedWereAccepted` | `outbox` | nothing is marked, let alone purged, before the sink has it |
| `LiveLocksAreRespected` | `outbox` | comparing worker ids suffices as fencing |
| `PromptDelivererIsAlone`, `KeepsThePromise` | `outbox` | no event delivered side by side; every event reaches the sink |
| `ExportsFollowApprovals` | `plan_store` | decisions saw the earlier ones, the latest is the last committed, and no rejection slips before an export's event |
| `FourEyes` | `plan_store` | no plan under review leaves on its creator's word |
| `LineageIsReviewed` | `plan_store` | derived versions stay under review and build on what their author may read; list and object check agree |
| `ImportsAreWhole`, `ImportedChainGoesOn` | `plan_store` | an import is whole or absent, parents first; the chain goes on with a free number |
| `LocalLimitsHold` | `traffic_guards` | limits hold in windows that begin anywhere, slots are accounted for, Retry-After is long enough |
| `DayBudgetHolds` | `traffic_guards` | processes share a day's budget and are charged for what they begin; leases are given back once |
| `RateAtMostDoubles` | `traffic_guards` | the fixed windows of Redis admit at most twice the rate (two buckets meet at the delay of this instance); the day's budget holds |
| `CallsTogetherAreLimited` | `traffic_guards` | concurrency over processes with lost answers, failed releases and skewed clocks |
| `LeaseIsKept`, `NoFalseAlarms` | `worker_process` | the lease is renewed through any call; `/ready` notices and does not cry wolf |
| `ChatsKeepTheirBudget`, `ChatsEnd` | `worker_process` | deadline, one request at a time, late results are time-outs, and an end for every chat |
| `NothingIsPaidTwice`, `ResubmittingIsFresh` | `browser` | retries find their job; a new submission after an end gets a new one |
| `ServerKeepsItsWord` | `browser` | refinement of `IdempotentAnswers` and of `JobLifecycle` by the server the page talks to |
| `HandedOutMeansApproved` | `browser` | what is copied or downloaded was approved |
| `PointsHaveOwners`, `LoneDevicesAreReadWhole` | `validation` | the loop over clauses agrees with a declarative reading; numbering a lone device changes no verdict |
| `LevelsCoverFindings`, `FailuresHideNothing` | `worker_process` | no finding above the level; an exception in a rule makes nothing look better and keeps the gate shut |

Every property has a mutant in `PROJECT.json`: a plausible slip in the code
(operators commented `Fault:`) under which TLC finds the property violated.
Type invariants are conjuncts of these properties; those of `PlanReview` and of
`ModelJobQueuePg` are proved only.

## 6. What is proved

Every safety property that a run checks is a theorem as well. Where TLC checks a property in an instance chosen by a variable
(section 4), the theorem is about the checked specification with any values of
the constants; where that specification narrows a module, the property is proved
of the module's own `Spec` first, and every checked step is one of the module's
or leaves it alone.

Induction is used in two forms: over the steps of a behaviour, by the temporal
prover, and over finite sets and sequences, by the absence of a smallest
counterexample. The library's induction theorems take an operator, which the
provers cannot instantiate; for a fixed operator the same argument is a few
lines (sums of charges and of weights, lengths of filtered sequences, the loop
over the clauses of a sentence).
No module with a theorem uses a RECURSIVE operator.

### The queue

`ModelJobQueueProofs` proves, for any sets of jobs, requests and workers and
any limits, from `JobAssumption` (ids are naturals), `NullAssumption` (the nulls
are not members) and `LimitAssumption` (limits are positive, as `max(1, ...)`
makes them in the code): `TypeOK`, `OutcomeMatchesPlans`, `TokensAreExclusive`,
`NoJobIsStranded`, `TerminalIsFinal`, `CancellationSticks` and
`ImplementsLifecycleSafety`.

The argument. `OutcomeMatchesPlans` is not inductive: a late
`complete_model_job` could add a second plan if its token could equal the
row's. `IndInv` adds what excludes that: a worker's token was granted and is
not ahead of the row (`TasksAreGranted`), two workers on one job have
different ones (`TokensAreExclusive`), a row names a holder exactly while it is
leased (`NoJobIsStranded`), and an unused id has no attempts
(`UnusedIdsAreFresh`, so that an enqueued job can be claimed). Each action
preserves `IndInv`; the lemmas are one per action. The action properties and
the step simulation of `JobLifecycle` follow from `IndInv` and `Next`, and so
do `StaleWorkersAreFenced` and `HeartbeatsAreFenced`: only a claim and the
thread of the running attempt make a lease live, and a claim raises the token.

Two more invariants rest on it. `AuditTrailHolds`: the lemmas say for each
action what it does to one job's row and which events it appends with that
(`AuditMoves`), a table from which the counts of the trail follow.
`AdmissionIsKept`: pending jobs differ and are no more than the limit, because
no step but an accepted submission adds one (`OtherStepAdmits`) and a submission
counts them first.

**At READ COMMITTED** (`ModelJobQueuePg`) `OutcomeMatchesPlans` is false
(section 7), and with it half of `IndInv`. `PgIndInv` is what is left: rows and
tokens as before, and what an open claim knows (`SweepsAreIdle`, `LocksAreHeld`,
`FailedAreExhausted`): the jobs it read as exhausted were at their last attempt,
and since nothing lowers `attempts`, they still are when they are overwritten,
whoever finished them meanwhile. Hence `OverwritesBounded`. A job's plan is
stored only under its current token by the one who holds it, and the token of a
job on its last attempt is never granted again: `VersionsAreUnique`, also after
an overwrite. `StaleWorkersAreFencedAgain` and `AdmissionIsKeptAgain` are the
theorems above again, the latter because submissions queue for an advisory lock
of their own. `WaitingEnds`: whoever holds the audit chain waits for a row only
if the row's holder waits for the chain or for nothing.

### Idempotency

`IdempotencyProofs` proves, for any sets of requests, keys and bodies, from
`CallerAssumption` and `NothingAssumption` (resources, refusals and the null
are told apart): for `Spec`, `RepliesAgree`; for
`PromptSpec`, `OneExecutionAtATime` and `ClaimsStand`, and both together for
`PromptCallersAreAlone`.

The argument. Each step is one of the promise (`StepKeepsPromise`). A
completion binds a key that is bound to nothing, because it asks for a row in
progress (`StoreStep`); all other steps keep the bindings or forget one
(`KeepsBindings`), and those that answer with a resource read it from the record
of the caller's body (`PromiseKept`). The invariant says that a completed record
carries the body its resource was created for (`RecordFitsTheRequest`), which
stays true because a request that has not stored anything has no answer yet and
is nobody's resource (`UnstoredIsNoResource`). For prompt requests the
invariant is that every claim stands and claims differ: a takeover needs an
expired lock and an INSERT an absent row, and a standing claim excludes both
(`ClaimedRow`). `PromptInv` relies on the guard of `LockExpires` in
`PromptNext`, and on nothing else about time.

### The audit trail

`AuditOutboxProofs`, for any numbers of events, writers and dispatchers and any
batch size. `NothingIsForgotten` (`PublishedWereAccepted`) is inductive together
with `DeliveredWasAccepted` (a dispatcher about to mark holds, at the head of
its batch, an event the sink has) and the shape of the rows.

`ChainIsNeverBroken`: `ChainInv` says that each event continues the one before
it, that the events of an open transaction are the last of the chain (only its
holder of the advisory lock can append, and a rollback takes away a suffix), and
that the rows are those of the events. `LocksAreRespected`: a claim, late mark or
purge changes no row under a live lock; the claim's batch is the result of a
filter over the chain, so the lemmas about it say which rows it may contain and
how many. `PromptDeliverersAreAlone` adds, for prompt dispatchers, that the rows
somebody holds are locked by him (`HeldRowsAreLocked`), so that two batches never
share one. `TrailImplementsDelivery` is the refinement of `AuditDelivery` step
by step: a commit appends the transaction's events to the committed trail and
every other step leaves it alone or hands the sink one of its events.

### Plans, reviews, exports, and their import

`PlanReviewProofs` proves `FourEyes` and `LineageIsReviewed` for any users,
roles, reports and bounds, and `ExportsFollowApprovals` if the clocks of the
hosts agree (`\A u \in User : Skew[u] = ahead`); `NobodyAssumption`,
`SkewAssumption` and `BoundsAssumption` are used.

The argument. `Sound` is the type invariant with the references: what a request,
an event or a review names is a stored plan. Three lemmas then say what one step
can do, by a case analysis of `Next` made once: `TableStep` (which transaction
records a decision or an export, changes a version, stores a derived plan),
`TrailStep` and `PlansStay` (events, owners, parents and the review requirement
never change), and `HandlerStep` (what a request carries). Three inductive
invariants rest on them. `FourEyesInv`: a review under way is of somebody else's
plan, every stored approval has its event, and what was authorised was approved.
`LineageInv`: whoever waits for the model has read the parent's requirement and
was allowed to. `OrderInv`: a version counts the reviews of its plan, and a
review that can still be committed is stamped after all stored ones; this is
where the version check makes up for stamps that are taken too early, and where
the clocks must agree and two reviews not fall into one microsecond (the model's
clock moves with each commit). `ExportInv` adds that an authorised export holds
the row, so that the approval it saw stays the last decision until its event.

The import (`MigrationsAreWhole`, `ImportedChainsContinue`) is proved for any
finite set of legacy plans with any graph of parents, from `ImportAssumption`.
`OrderingLosesNothing`: the plans read are those in the order and those pending,
and each turn of the loop appends a sorted set of plans whose parents are listed
(`SortedOnce`, by counting; `OrderGrows`). `ChainIsGapless`: the target's numbers
are exactly those up to its sequence's, so a chain that has begun lets no import
with events in, and `setval` makes the sequence go on where the import ended.

### Limits

`TrafficGuardProofs` proves of the local guard, for any clients, processes and
limits: no window holds more than its limit, wherever it begins (`WindowsHold`),
leases and slots are accounted for (`LeasesAndSlotsHold`), and no day is charged
more than the budget (`BudgetHolds`: a day's charges are a sum over processes,
and each step adds what the table adds). The invariant `GuardInv` describes a
deque (`Deque`): popped stamps are out of the window, and in the whole log a
stamp and the one a limit's number of places later are a window apart
(`Spread`). A stamp is appended when the deque has room, so the one that many
places before it was popped. The other half counts: each lease held and each
slot taken belongs to a request in the state that owes it.

`ClientsAreLimited` adds the limit of each client and Retry-After, if
`GlobalRequests <= MaxTracked` (12 and 4096 by default; the code takes
any positive setting). A client is forgotten only when more than `MaxTracked` have been
admitted since, and the global limit admits no more than `GlobalRequests` in a
window: what was forgotten had expired. Without the assumption the limit per
client does not hold. Retry-After is the age of the oldest stamp in the deque
that refused: once it has passed, that stamp is popped and there is room.

`RedisTrafficGuardProofs` proves `ConcurrencyHolds` under `SettingsAreSound` and
`LeasesOutliveCalls`: a lease, on the clock of whoever counts it, is longer than
the way of its answer and the call, on the clock of whoever took it. With the
120 s of the code, 90 s of a call and 3 s of the Redis client, clocks may differ
by less than 27 s. `LeaseInv` says that whoever is admitted, or will be when its
answer arrives, has a lease in the set that no clock has passed.

`RatesHold` and `DaysHold` assume nothing of delays and clocks but that one
clock is foremost, as in any finite set of processes. A key lives for `Window`
and a second from its last request (`traffic_guard.py` 426). `KeyFits` says that
it counts every admission of its bucket in the last window (`KeysAgree`), and
that no spell as long as that saw more of them than the limit: if a late request
finds the key gone, everything before it is older than a window (`CountedOnce`).
A window that begins anywhere therefore has at most the limit for each bucket it
has requests of. Their stamps lie between `MaxDelay` before the window's
begin and `Ahead` after its end, so there are at most
`BucketsMet == (2 * Window + MaxDelay + Ahead - 2) \div Window + 1` of them
(`BucketsBetween`, `FewInFew`): with windows of 60 units two as long as delay
and difference of clocks are within a unit together, three with the 3 s a request
may take by the socket's time-out (391) and clocks apart by less than the rest
of a window. `DayInv`: the key of a day holds its count until the day is over by
the foremost clock. A request that is still under way then may begin a new
count; `DailyBudget` leaves out such requests, and only those.

### A worker's process

`WorkerProcessProofs`, of the client of the model service: under
`SettingsAreSound` a chat of any settings has one request at a time, takes a
late result for a time-out and is over by its deadline and the scheduler's lag
(`WorkerChatsFitTheirBudget`). No state says how long the whole chat takes; the
invariant is that each wait ends within what is left of the deadline: while a
chat waits or sleeps (`WaitsFit`), while a request is under way (`RequestsFit`)
and when the outcome is taken (`OutcomesFit`). `BreakersRefuseNobody`: with
fewer retries than failures open a breaker, as the defaults have it (2 and 3),
no chat is told that the service is unavailable: its breaker has counted no more
failures than the chat has had attempts (section 7).

Of the heartbeat: `LeaseIsAlwaysRenewed` if no heartbeat fails and a lease is
longer than a second: the next beat is due before the lease is over
(`Renewing`), which is what a third of the lease is for. Without these
assumptions it is false: with a lease of a second the beat comes when the lease
is over, and a failed beat ends the thread. `ReadyNeverCriesWolf` and
`DeathsAreNoticed` hold with failing beats as well: the age of the last beat and
the wait of whoever sleeps or beats add up to no more than the pause or the
interval (`SeenInTime`, for a pause and an interval that the staleness covers),
and whoever was seen last has not been down for longer than that (`SeenWhenUp`).

The pipeline (`FindingsAreCovered`, `FailuresShow`), for any rules, severities
and order in which each rule is registered once (`EngineAssumption`). `EngineInv`:
a rule has one turn, so one that raised is still a warning when the report is
made, and a report is that of all rules or says that there is none. The rest is
about the operators of `RiskScoring`: a total is independent of the order in
which findings are added (`TotalWithout`), so more findings score no less
(`TotalGrows`), and neither the band nor the worst level falls with them
(`MoreFindings`). A warning is a finding and no answer adds one; hence a rule
that raises hides nothing.

The reading of plans (`LoopAgreesWithReading`, `NumbersChangeNothing`), for any
devices, requests, clauses and plans that satisfy `SettingsAreSound`. The loop of
`_scoped_texts` is a fold, that is a recursive function on the prefixes of a
sentence (`ReadingExists`, `ReadInTurn`). Its invariant (`TurnReads`) is that
`current_owner_keys` are those an ownerless clause in the next place would speak of
by the declarative reading, and that each device has what the clauses so far say of it.
The reading looks back for the nearest clause that says who is spoken of; one
clause further on, that is the last clause or whatever was the nearest before
(`NearestIsLast`, `SpeaksOfTheSame`), which is all the loop remembers.
`LoneDeviceOwnsAll`: the only device is whom every clause speaks of, because
each way to inherit owners leads to it; so its scope is the whole plan.

### The browser

`BrowserProofs` proves of `JobClient`, for any bodies, requests and jobs, any
refusals, any limit on waiting and any number of reloads, from `ClientAssumption`:
`OneActiveJob`, `KeysLeadHome` and `FreshAfterTheEnd` (`EndsAreFresh`), and of
`PromptSpec` in addition `WorkIsNotRepeated` (`LostAnswersCostNothing`).

The argument. `ClientInv` makes the four tables agree: a key is a request sent
for the body it was made for (`IsKey`), an answer tells of the job in its key's
record (`PostsFit`), a record leads to a job of its key's body (`RecordsFit`), a
call on the page waits under the key it keeps (`CallsFit`), a body has one
active job and what was shown has ended (`JobsFit`). The steps of the page are
reduced to one description (`PageMoves`) and most of the server's to another
(`NothingMade`), so that only sending, making and ending a job need a case of
their own. `WorkIsNotRepeated` needs `PromptInv`: claims stand until the
request that holds them is done (`ClaimsStand`), nobody is refused
(`NobodyRefused`), a key that is kept no longer led to a job whose end was shown
(`KeysSettled`), and every job is that of a key (`JobsHaveKeys`). It is false without the restrictions of `PromptSpec`: a
refused retry drops a key that has a job (section 7).

`ServerIsReliable`: every step, the page's and the network's included, leaves
the server alone or is one of `ServerMoves`: a request is sent, goes on or is
answered (`Proceeds`), a record gets a job once, a job is made or ends (`Lives`).
Of a new answer, binding or end, `ClientInv` before and after the step then says
what the abstract specifications ask (`KeysKeepTheirWord`, `JobsKeepTheirWord`);
that a request is answered once is an invariant of its own (`AnswersAwaited`).

`ReviewPanel`, for any plans and any number of requests under way: a text
leaves the panel only if the plan's approval has been recorded
(`OnlyApprovedTextLeaves`). `PanelInv` says it of what is on its way: an answer
that says yes was given when the approval of its plan was recorded (`Sincere`),
and approvals that are withdrawn stay recorded. That is all the panel promises;
which plan is unlocked on the screen is another matter (section 7).

### What is only model-checked

Liveness (`ImplementsLifecycle`, `KeepsThePromise`, `ChatsEnd`): the prover
handles neither fairness nor ENABLED. The safety parts of the first two are
proved (`QueueImplementsLifecycle`, `TrailImplementsDelivery`).

## 7. Findings

**An overwritten success** (`pg_outcome`). `claim_model_job` reads the
exhausted jobs without a lock (571) and updates them by id only (581-592). On
PostgreSQL a worker whose lease expired on the last attempt, but which is
alive, may commit `complete_model_job` between the two: the update then
overwrites `succeeded` by `failed`, while the plan and the audit event of the
success stay. `queue_pg` shows how far it goes: only jobs on their last
attempt, always to `failed`, and never a second plan. SQLite is not affected.

**Devices nobody judges** (`device_scopes_unjudged`). As soon as one device has
a number, the rules judge numbered devices only (`device_semantics.py` 901,
`rules.py` 508-514): with a request for pump 1 and a fan without a number, a
plan that protects the pump alone passes.

Other disagreements between code and documents, met while modelling and not
kept as runs; the models contain the behaviour and the properties above are
stated so that they hold with it:

- Reviews are stamped with the host's clock before their transaction (976) and
  the latest stamp counts (1661): on hosts whose clocks differ a committed
  rejection may not be the latest review. `ExportsFollowApprovals` is checked
  with one clock, and proved for clocks that agree.
- The Redis guard counts in fixed windows (`traffic_guard.py` 403): two bursts
  around a boundary pass twice the documented rate, and with late requests or
  clocks that differ three may (`RatesHold`).
- Every client is built with a circuit breaker of its own and serves one
  request (`llm_client.py` 121): failures of one request never open the breaker
  of the next, and with the default retries not even those of its own
  (`BreakersRefuseNobody`).
- `README.md` 164 gives risk bands by score only; `risk_level_floor`
  (`scoring.py` 35) raises the level to that of the worst finding.
- The importer checks for an empty target at READ COMMITTED without a lock
  (`migrate_sqlite_to_postgres.py` 112): rows the new API commits afterwards
  are imported onto.
- `idempotentRequest` forgets a key on a refusal such as 401 (`api.js` 181)
  although an earlier request under it may have made a job.
- An approval that comes back after another plan was opened unlocks the plan
  on screen (`App.jsx` 344), and the box ticked for one plan stays ticked for
  the next (`SafetyReviewGate.jsx` 13). The server decides again on export.
- One exception in `_maintain_lease` (`model_job_worker.py` 193) ends the
  renewal of the lease for the rest of the call.
- A clause about a device without a number counts for the device named before
  (`device_semantics.py` 876).
- The ordinals of `device_semantics.py` 59 leave out the Chinese zero: device
  105 is read as device 5.

## 8. Not modelled

- Legacy traffic control (`traffic_control.py`): only its own tests import it.
- Authentication (`auth.py`): cryptography and a key cache; roles are guards
  of `PlanReview`.
- Schema migrations: straight-line DDL. Settings and observability: reading the
  environment and writing log lines; limits are constants of the models.
- Of the validation engine: the recognition of terms, numerals, negations and
  conditions in Chinese and English text (`catalog.py`, most of
  `device_semantics.py` before 490), which maps strings to the structures
  `DeviceScopes` starts from, and the rules on I/O tables, interlocks, alarms
  and modes, each a search for terms without state.
- Of the frontend: the OIDC session, the workbench state of `App.jsx`, and
  rendering. Of the API: routing, headers and response shapes.
- Prompts, report texts and rule texts (data without state), and `archive/`.
