--------------------------- MODULE ModelJobQueue ---------------------------
(***************************************************************************)
(* The persistent model-job queue of backend/plan_repository.py and the    *)
(* worker processes of backend/model_job_worker.py that drain it.          *)
(*                                                                         *)
(* Every transaction of the repository is one step: SQLite runs them under *)
(* BEGIN IMMEDIATE, one writer at a time.  (PostgreSQL runs them at READ   *)
(* COMMITTED; ModelJobQueuePg splits the one transaction for which that    *)
(* makes a difference.)  Between two transactions anything may happen:     *)
(* another worker, an API call, a crash, the end of a lease.               *)
(*                                                                         *)
(* Time is abstract.  lease_until and available_at are only ever compared  *)
(* with the caller's clock, so a lease is "live" or "expired" and a queued *)
(* job is due or not; the environment may expire any lease at any moment,  *)
(* which covers slow workers and clocks that disagree.  The fairness part  *)
(* says which expirations must happen.                                     *)
(***************************************************************************)
EXTENDS Naturals, FiniteSets

CONSTANTS
  Job,          \* ids of model_jobs rows: the created_at stamp of the row
  Request,      \* what coalescing compares: (actor_sub, operation, request_hash)
  Worker,       \* worker_id of the worker processes
  NoRequest,    \* req of an id that is not used yet
  NoWorker,     \* lease_owner IS NULL
  MaxAttempts,  \* MODEL_JOB_MAX_ATTEMPTS, after max(1, ...)
  MaxPending    \* MODEL_JOB_QUEUE_MAX_PENDING, after max(1, ...)

ASSUME JobAssumption == Job \subseteq Nat
ASSUME NullAssumption == NoWorker \notin Worker /\ NoRequest \notin Request
ASSUME LimitAssumption == MaxAttempts \in Nat \ {0} /\ MaxPending \in Nat \ {0}

VARIABLES
  status,       \* model_jobs.status, "absent" before the row is inserted
  req,          \* the request the row was inserted for
  attempts,     \* model_jobs.attempts
  token,        \* model_jobs.fencing_token
  owner,        \* model_jobs.lease_owner
  lease,        \* lease_until: "none" (NULL), "live" or "expired"
  due,          \* available_at <= now
  planId,       \* model_jobs.plan_id: 0 (NULL) or the token that wrote it
  plans,        \* rows of plans inserted for a job
  audit,        \* audit_events per job: how often each action was appended
  pc,           \* where each worker process is in ModelJobRunner.run_once
  task,         \* the job and token its run_once works on
  beats         \* the live lease-heartbeat threads (_maintain_lease)

rowVars == <<status, req, attempts, token, owner, lease, due, planId>>
dbVars  == <<rowVars, plans, audit>>
procVars == <<pc, task, beats>>
vars == <<dbVars, procVars>>

Active   == {"queued", "running", "cancel_requested"}
Leased   == {"running", "cancel_requested"}
Terminal == {"succeeded", "failed", "cancelled"}
Event    == {"queued", "recovered", "retry_scheduled", "cancel_requested",
             "succeeded", "failed", "cancelled", "plan"}
Busy     == {"claimed", "aborting", "executing"}

NoTask == [job |-> 0, token |-> 0]
Task   == [job : Job, token : Nat]
Beat   == [worker : Worker, job : Job, token : Nat]
PlanRow == [job : Job, token : Nat]

\* The plans a job has produced.
PlansOf(j) == {p \in plans : p.job = j}

Pending == {j \in Job : status[j] \in Active}

\* _append_audit for every <<job, action>> of E, in the step's transaction.
Audited(E) ==
  audit' = [j \in Job |-> [e \in Event |->
              audit[j][e] + (IF <<j, e>> \in E THEN 1 ELSE 0)]]

Init ==
  /\ status   = [j \in Job |-> "absent"]
  /\ req      = [j \in Job |-> NoRequest]
  /\ attempts = [j \in Job |-> 0]
  /\ token    = [j \in Job |-> 0]
  /\ owner    = [j \in Job |-> NoWorker]
  /\ lease    = [j \in Job |-> "none"]
  /\ due      = [j \in Job |-> TRUE]
  /\ planId   = [j \in Job |-> 0]
  /\ plans    = {}
  /\ audit    = [j \in Job |-> [e \in Event |-> 0]]
  /\ pc       = [w \in Worker |-> "idle"]
  /\ task     = [w \in Worker |-> NoTask]
  /\ beats    = {}

-----------------------------------------------------------------------------
(***************************************************************************)
(* The API side.                                                           *)
(***************************************************************************)

\* Fault: a job whose cancellation was requested does not answer any more.
CoalescesOpenOnly(r) == \E j \in Pending : req[j] = r /\ status[j] # "cancel_requested"

\* An active job of the same request answers the new submission.
Coalesces(r) == \E j \in Pending : req[j] = r

\* Fault: one job too many.
HasRoomForOneMore == Cardinality(Pending) <= MaxPending

HasRoom == Cardinality(Pending) < MaxPending

\* enqueue_model_job for a caller without idempotency key.  The stamp is
\* taken before the transaction starts, so rows need not be inserted in the
\* order of their stamps: any unused id will do.  When an active job of the
\* same request exists, or the queue is full, nothing is written.
Enqueue(r, j) ==
  /\ status[j] = "absent"
  /\ ~ Coalesces(r)
  /\ HasRoom
  /\ status' = [status EXCEPT ![j] = "queued"]
  /\ req'    = [req EXCEPT ![j] = r]
  /\ Audited({<<j, "queued">>})
  /\ UNCHANGED <<attempts, token, owner, lease, due, planId, plans, procVars>>

\* cancel_model_job: a queued job is cancelled at once, a running one is
\* marked and keeps its lease; any other status is left alone.
Cancel(j) ==
  /\ \/ /\ status[j] = "queued"
        /\ status' = [status EXCEPT ![j] = "cancelled"]
        /\ Audited({<<j, "cancelled">>})
     \/ /\ status[j] = "running"
        /\ status' = [status EXCEPT ![j] = "cancel_requested"]
        /\ Audited({<<j, "cancel_requested">>})
  /\ UNCHANGED <<req, attempts, token, owner, lease, due, planId, plans, procVars>>

-----------------------------------------------------------------------------
(***************************************************************************)
(* claim_model_job: one transaction that settles abandoned jobs and hands  *)
(* out the oldest claimable one.                                           *)
(***************************************************************************)

\* Fault: the last attempt's lost lease is nobody's business.
ExhaustedIgnored == {}

Exhausted == {j \in Job : /\ status[j] = "running"
                          /\ lease[j] = "expired"
                          /\ attempts[j] >= MaxAttempts}

ExpiredCancelled == {j \in Job : status[j] = "cancel_requested" /\ lease[j] = "expired"}

Claimable ==
  {j \in Job : /\ attempts[j] < MaxAttempts
               /\ \/ status[j] = "queued" /\ due[j]
                  \/ status[j] = "running" /\ lease[j] = "expired"}

\* The at most one job the SELECT ... ORDER BY created_at LIMIT 1 returns.
Oldest(S) == {j \in S : \A k \in S : j <= k}

Taken == Oldest(Claimable)

\* Fault: the status is looked at after the UPDATE.
RecoveredAfterUpdate(S) == S

\* The rows a claim of S audits as recovered: read before the UPDATE.
Recovered(S) == {j \in S : status[j] = "running"}

\* Fault: a claim reuses the fencing token.
SameToken(j) == IF token[j] = 0 THEN 1 ELSE token[j]

NextToken(j) == token[j] + 1

\* The heartbeat thread starts with the claim.
Claim(w) ==
  LET Settled == Exhausted \cup ExpiredCancelled IN
  /\ pc[w] = "idle"
  /\ Taken # {} \/ Settled # {}
  /\ status' = [j \in Job |-> IF j \in Exhausted THEN "failed"
                              ELSE IF j \in ExpiredCancelled THEN "cancelled"
                              ELSE IF j \in Taken THEN "running"
                              ELSE status[j]]
  /\ owner'  = [j \in Job |-> IF j \in Settled THEN NoWorker
                              ELSE IF j \in Taken THEN w ELSE owner[j]]
  /\ lease'  = [j \in Job |-> IF j \in Settled THEN "none"
                              ELSE IF j \in Taken THEN "live" ELSE lease[j]]
  /\ attempts' = [j \in Job |-> IF j \in Taken THEN attempts[j] + 1 ELSE attempts[j]]
  /\ token'    = [j \in Job |-> IF j \in Taken THEN NextToken(j) ELSE token[j]]
  /\ Audited({<<j, "failed">> : j \in Exhausted}
             \cup {<<j, "cancelled">> : j \in ExpiredCancelled}
             \cup {<<j, "recovered">> : j \in Recovered(Taken)})
  /\ IF Taken = {}
       THEN UNCHANGED procVars
       ELSE \E j \in Taken :
              /\ pc'    = [pc EXCEPT ![w] = "claimed"]
              /\ task'  = [task EXCEPT ![w] = [job |-> j, token |-> NextToken(j)]]
              /\ beats' = beats \cup {[worker |-> w, job |-> j, token |-> NextToken(j)]}
  /\ UNCHANGED <<req, due, planId, plans>>

-----------------------------------------------------------------------------
(***************************************************************************)
(* The rest of run_once.                                                   *)
(***************************************************************************)

\* Fault: no guard at all.
HoldsAnyway(w, j, t) == TRUE

\* Fault: the guard asks for the status only.
HoldsByStatus(w, j, t) == status[j] \in Leased

\* Fault: the guard does not ask for the token.
HoldsByOwner(w, j, t) == owner[j] = w /\ status[j] \in Leased

\* The guard of heartbeat, complete and fail: owner, token and status.
Holds(w, j, t) == owner[j] = w /\ token[j] = t /\ status[j] \in Leased

\* Fault: what the attempt ended with outranks a cancellation.
CancelOverlooked(j) == FALSE

\* A cancellation outranks whatever the attempt ended with.
CancelPending(j) == status[j] = "cancel_requested"

WillRetry(j, retryable) == retryable /\ attempts[j] < MaxAttempts

\* model_job_cancel_requested: the row is read once, before the model call.
CheckCancel(w) ==
  /\ pc[w] = "claimed"
  /\ LET j == task[w].job
         cancelled == token[j] = task[w].token /\ status[j] = "cancel_requested"
     IN  pc' = [pc EXCEPT ![w] = IF cancelled THEN "aborting" ELSE "executing"]
  /\ UNCHANGED <<dbVars, task, beats>>

\* run_once returns and the next one starts; stop_heartbeat is set, but
\* join(timeout=2) may leave the heartbeat thread alive for one more update.
RunOnceEnds(w) ==
  /\ pc'   = [pc EXCEPT ![w] = "idle"]
  /\ task' = [task EXCEPT ![w] = NoTask]
  /\ UNCHANGED beats

\* A finished job gives its lease back.
DropLease(j) ==
  /\ owner' = [owner EXCEPT ![j] = NoWorker]
  /\ lease' = [lease EXCEPT ![j] = "none"]

\* _finalize_cancelled_job on a row whose lease the worker holds.
FinalizeCancelled(j) ==
  /\ status' = [status EXCEPT ![j] = "cancelled"]
  /\ Audited({<<j, "cancelled">>})
  /\ DropLease(j)
  /\ UNCHANGED <<req, attempts, token, due, planId, plans>>

\* complete_model_job.  Without the lease the result is thrown away.
Complete(w) ==
  LET j == task[w].job
      t == task[w].token
  IN
  /\ pc[w] = "executing"
  /\ \/ /\ ~ Holds(w, j, t)
        /\ UNCHANGED dbVars
     \/ /\ Holds(w, j, t)
        /\ CancelPending(j)
        /\ FinalizeCancelled(j)
     \/ /\ Holds(w, j, t)
        /\ ~ CancelPending(j)
        /\ plans'  = plans \cup {[job |-> j, token |-> t]}
        /\ planId' = [planId EXCEPT ![j] = t]
        /\ status' = [status EXCEPT ![j] = "succeeded"]
        /\ Audited({<<j, "plan">>, <<j, "succeeded">>})
        /\ DropLease(j)
        /\ UNCHANGED <<req, attempts, token, due>>
  /\ RunOnceEnds(w)

\* fail_model_job, after the cancellation check said so or after any
\* exception of _execute: a refusal of the traffic guard, a failed model
\* call, a rolled back complete_model_job.  Whether the error is retryable
\* is _retry_policy's verdict on the exception.
Fail(w, retryable) ==
  LET j == task[w].job
      t == task[w].token
      willRetry == WillRetry(j, retryable)
  IN
  /\ \/ pc[w] = "executing"
     \/ pc[w] = "aborting" /\ ~ retryable
  /\ \/ /\ ~ Holds(w, j, t)
        /\ UNCHANGED dbVars
     \/ /\ Holds(w, j, t)
        /\ CancelPending(j)
        /\ FinalizeCancelled(j)
     \/ /\ Holds(w, j, t)
        /\ ~ CancelPending(j)
        /\ status' = [status EXCEPT ![j] = IF willRetry THEN "queued" ELSE "failed"]
        /\ due'    = [due EXCEPT ![j] = IF willRetry THEN FALSE ELSE @]
        /\ Audited({<<j, IF willRetry THEN "retry_scheduled" ELSE "failed">>})
        /\ DropLease(j)
        /\ UNCHANGED <<req, attempts, token, planId, plans>>
  /\ RunOnceEnds(w)

\* The process dies, with its heartbeat threads and without a word to the
\* database.  Also what an exception in claim_model_job or fail_model_job
\* does: main() does not catch it.
Crash(w) ==
  /\ pc[w] # "down"
  /\ pc'    = [pc EXCEPT ![w] = "down"]
  /\ task'  = [task EXCEPT ![w] = NoTask]
  /\ beats' = {b \in beats : b.worker # w}
  /\ UNCHANGED dbVars

\* A new process with the same place in the deployment.  Its worker_id is
\* new in the code; nothing of the old process is left to confuse them.
Restart(w) ==
  /\ pc[w] = "down"
  /\ pc' = [pc EXCEPT ![w] = "idle"]
  /\ UNCHANGED <<dbVars, task, beats>>

-----------------------------------------------------------------------------
(***************************************************************************)
(* Heartbeat threads and the passing of time.                              *)
(***************************************************************************)

\* b's run_once has not ended.
Current(b) == task[b.worker] = [job |-> b.job, token |-> b.token]

\* One round of _maintain_lease.  heartbeat_model_job extends the lease, an
\* expired one included; a refused thread ends, and so does one whose
\* run_once is over.
Heartbeat(b) ==
  /\ lease' = IF Holds(b.worker, b.job, b.token)
                THEN [lease EXCEPT ![b.job] = "live"] ELSE lease
  /\ beats' = IF Holds(b.worker, b.job, b.token) /\ Current(b)
                THEN beats ELSE beats \ {b}
  /\ UNCHANGED <<status, req, attempts, token, owner, due, planId, plans, audit,
                 pc, task>>

\* The thread ends without an update: stop_heartbeat was set, or a database
\* error killed it (nothing catches it) while its run_once goes on.
HeartbeatEnds(b) ==
  /\ beats' = beats \ {b}
  /\ UNCHANGED <<dbVars, pc, task>>

LeaseExpires(j) ==
  /\ lease[j] = "live"
  /\ lease' = [lease EXCEPT ![j] = "expired"]
  /\ UNCHANGED <<status, req, attempts, token, owner, due, planId, plans, audit,
                 procVars>>

BackoffElapses(j) ==
  /\ ~ due[j]
  /\ due' = [due EXCEPT ![j] = TRUE]
  /\ UNCHANGED <<status, req, attempts, token, owner, lease, planId, plans, audit,
                 procVars>>

-----------------------------------------------------------------------------
Finish(w) == Complete(w) \/ \E retryable \in BOOLEAN : Fail(w, retryable)

Next ==
  \/ \E j \in Job : \/ \E r \in Request : Enqueue(r, j)
                    \/ Cancel(j)
                    \/ LeaseExpires(j)
                    \/ BackoffElapses(j)
  \/ \E w \in Worker : Claim(w) \/ CheckCancel(w) \/ Finish(w) \/ Crash(w) \/ Restart(w)
  \/ \E b \in beats : Heartbeat(b) \/ HeartbeatEnds(b)

Spec == Init /\ [][Next]_vars

\* A lease nobody renews.
Abandoned(j) == \A b \in beats : ~ Holds(b.worker, b.job, b.token) \/ b.job # j

(***************************************************************************)
(* Fairness.  Clocks advance: an unrenewed lease expires and a backoff     *)
(* ends.  A worker that is up goes on with its job (LLMClient bounds the   *)
(* model call by a total deadline) and a worker that is down is started    *)
(* again.  Claiming needs strong fairness: processes may crash again and   *)
(* again, but not always before the first claim they could make.           *)
(* Submitting, cancelling, crashing and heartbeats are owed nothing.       *)
(***************************************************************************)
Fairness ==
  /\ \A j \in Job : /\ WF_vars(Abandoned(j) /\ LeaseExpires(j))
                    /\ WF_vars(BackoffElapses(j))
  /\ \A w \in Worker : WF_vars(CheckCancel(w)) /\ WF_vars(Finish(w)) /\ WF_vars(Restart(w))
  /\ SF_vars(\E w \in Worker : Claim(w))

FairSpec == Spec /\ Fairness

-----------------------------------------------------------------------------
(***************************************************************************)
(* What must hold.                                                         *)
(***************************************************************************)

\* Types, and the retry budget: no job is attempted more than MaxAttempts
\* times, however its workers end.
TypeOK ==
  /\ status   \in [Job -> {"absent"} \cup Active \cup Terminal]
  /\ req      \in [Job -> Request \cup {NoRequest}]
  /\ attempts \in [Job -> 0..MaxAttempts]
  /\ token    \in [Job -> Nat]
  /\ owner    \in [Job -> Worker \cup {NoWorker}]
  /\ lease    \in [Job -> {"none", "live", "expired"}]
  /\ due      \in [Job -> BOOLEAN]
  /\ planId   \in [Job -> Nat]
  /\ plans    \subseteq PlanRow
  /\ audit    \in [Job -> [Event -> Nat]]
  /\ pc       \in [Worker -> Busy \cup {"idle", "down"}]
  /\ task     \in [Worker -> Task \cup {NoTask}]
  /\ beats    \subseteq Beat

\* complete_model_job writes the plan and the job's success together: a job
\* that succeeded has exactly one plan, written by the last holder of its
\* lease, and no other job has any, however many workers tried.
OutcomeMatchesPlans ==
  \A j \in Job :
    /\ PlansOf(j) =
         IF status[j] = "succeeded" THEN {[job |-> j, token |-> token[j]]} ELSE {}
    /\ planId[j] = IF status[j] = "succeeded" THEN token[j] ELSE 0

\* The audit trail tells how each job ended: one terminal event, the one its
\* status names, and a plan event exactly for a success.
AuditNamesTheOutcome ==
  \A j \in Job :
    /\ \A e \in Terminal : audit[j][e] = IF status[j] = e THEN 1 ELSE 0
    /\ audit[j]["plan"] = audit[j]["succeeded"]

\* The audit trail accounts for every attempt: each one started from the
\* queue (entered once per "queued" and per "retry_scheduled" event) or as a
\* recovery, except for an entry that is still waiting or was cancelled there.
AuditAccountsForAttempts ==
  \A j \in Job :
    attempts[j] + (IF status[j] = "queued" THEN 1 ELSE 0)
                + (IF status[j] = "cancelled" /\ audit[j]["cancel_requested"] = 0
                     THEN 1 ELSE 0)
    = audit[j]["queued"] + audit[j]["retry_scheduled"] + audit[j]["recovered"]

\* The audit trail names the end of each job once, and accounts for every
\* attempt that was made at it.
AuditTrailIsTrue == AuditNamesTheOutcome /\ AuditAccountsForAttempts

\* enqueue_model_job coalesces: two active jobs never serve one request.
ActiveJobsDiffer ==
  \A i, j \in Job :
    /\ i # j
    /\ status[i] \in Active
    /\ status[j] \in Active
    => req[i] # req[j]

\* The queue limit counts every job that is not finished.
QueueIsBounded == Cardinality({j \in Job : status[j] \in Active}) <= MaxPending

\* Every unfinished job can still be moved on by somebody: a queued one has
\* attempts left to be claimed with, a leased one has an owner and an expiry.
NoJobIsStranded ==
  \A j \in Job :
    /\ status[j] = "queued" => attempts[j] < MaxAttempts
    /\ status[j] \in Leased <=> owner[j] # NoWorker
    /\ status[j] \in Leased <=> lease[j] # "none"

\* The fencing tokens of two workers on one job differ, and only the worker
\* the row names can have the current one while the job is leased.
TokensAreExclusive ==
  \A v, w \in Worker :
    /\ pc[v] \in Busy
    /\ pc[w] \in Busy
    /\ task[v].job = task[w].job
    /\ v # w
    => task[v].token # task[w].token

\* What a worker works on is a claim that was granted, possibly superseded.
TasksAreGranted ==
  \A w \in Worker :
    pc[w] \in Busy =>
      /\ task[w] \in Task
      /\ 0 < task[w].token
      /\ task[w].token <= token[task[w].job]

\* An id that is not used yet carries no attempts.
UnusedIdsAreFresh == \A j \in Job : status[j] = "absent" => attempts[j] = 0

\* What holds of the rows and tasks by themselves, without looking at the plans.
RowInv ==
  /\ TypeOK
  /\ TasksAreGranted
  /\ TokensAreExclusive
  /\ UnusedIdsAreFresh
  /\ NoJobIsStranded

\* The inductive invariant behind the safety theorems: a late complete_model_job
\* is harmless because a token is granted once (TokensAreExclusive), to a task
\* that cannot be ahead of its row (TasksAreGranted), and the row stops
\* naming its holder when the job ends (NoJobIsStranded).
IndInv == RowInv /\ OutcomeMatchesPlans

\* A finished job is never reopened, changed or attempted again, whatever
\* late calls its former workers make.
FinishedJobStays(j) ==
  status[j] \in Terminal =>
    /\ status'[j] = status[j]
    /\ planId'[j] = planId[j]
    /\ token'[j] = token[j]
    /\ PlansOf(j)' = PlansOf(j)

TerminalIsFinal == [][\A j \in Job : FinishedJobStays(j)]_vars

\* A job whose cancellation was requested is cancelled and nothing else: its
\* worker's result is thrown away and no retry or recovery revives it.
CancelledJobStops(j) ==
  status[j] = "cancel_requested" =>
    /\ status'[j] \in {"cancel_requested", "cancelled"}
    /\ PlansOf(j)' = PlansOf(j)

CancellationSticks == [][\A j \in Job : CancelledJobStops(j)]_vars

\* A worker that lost its job to a later claim ends its run without touching
\* the row ("fencing token rejects late writes of the old instance").
StaleRunIsHarmless(w) ==
  LET j == task[w].job IN
  /\ pc[w] \in {"aborting", "executing"}
  /\ pc'[w] = "idle"
  /\ task[w].token < token[j]
  => /\ status'[j] = status[j]
     /\ owner'[j] = owner[j]
     /\ lease'[j] = lease[j]
     /\ plans' = plans

StaleWorkerChangesNothing == [][\A w \in Worker : StaleRunIsHarmless(w)]_vars

\* An expired lease is renewed only by the heartbeat of the claim it belongs
\* to: a thread left over from an earlier run of the same worker cannot.
RenewedByItsThread(j) ==
  /\ lease[j] = "expired"
  /\ lease'[j] = "live"
  /\ token'[j] = token[j]
  => [worker |-> owner[j], job |-> j, token |-> token[j]] \in beats

StaleHeartbeatRenewsNothing == [][\A j \in Job : RenewedByItsThread(j)]_vars

\* The queue implements the life cycle promised to the submitter: the phase
\* hides waiting, running and retrying, the versions are the plan rows.
PhaseOf(j) ==
  CASE status[j] \in {"queued", "running"}  -> "open"
    [] status[j] = "cancel_requested"       -> "cancelling"
    [] OTHER                                -> status[j]

Lifecycle == INSTANCE JobLifecycle
  WITH phase    <- [j \in Job |-> PhaseOf(j)],
       versions <- [j \in Job |-> PlansOf(j)]

\* The whole promise, with its liveness part.
ImplementsLifecycle == Lifecycle!Spec

\* Its safety part.
ImplementsLifecycleSafety == Lifecycle!Safety

=============================================================================
