-------------------------- MODULE ModelJobQueuePg --------------------------
(***************************************************************************)
(* ModelJobQueue on PostgreSQL: transactions run at READ COMMITTED and     *)
(* are kept apart by row locks and by the advisory lock of the audit chain *)
(* only.  Four of them take more than one lock and are split here:         *)
(*                                                                         *)
(*  - claim_model_job reads the exhausted jobs without locking them and    *)
(*    then updates and audits them one by one, likewise the expired        *)
(*    cancellations, before it takes a job with SKIP LOCKED;               *)
(*  - complete_model_job, fail_model_job and cancel_model_job lock the row *)
(*    first and the audit chain later.                                     *)
(*                                                                         *)
(* What a transaction wrote becomes visible when it commits.  The others   *)
(* are one step, taken while nobody holds the locks they need.  A cycle of *)
(* waiting transactions is broken by the deadlock detector, which rolls    *)
(* one of them back.                                                       *)
(***************************************************************************)
EXTENDS ModelJobQueue

CONSTANT Api    \* an API request, as the holder of a row lock

ASSUME ApiAssumption == Api \notin Worker \cup {NoWorker}

VARIABLES
  sweep,      \* the open claim transaction of each worker
  rowLock,    \* who holds the lock of each model_jobs row
  auditLock   \* who holds the advisory lock of the audit chain

lockVars == <<rowLock, auditLock>>
pgVars == <<vars, sweep, lockVars>>

(***************************************************************************)
(* sweep[w].step: "none", or which SELECT the transaction has done last;   *)
(* todo: rows it returned that are not updated yet; failed, cancelled:     *)
(* rows updated so far; owes: the last update's audit event is missing.    *)
(***************************************************************************)
Step == {"none", "exhausted", "cancelled"}
NoSweep == [step |-> "none", todo |-> {}, failed |-> {}, cancelled |-> {}, owes |-> FALSE]
Sweep == [step : Step, todo : SUBSET Job, failed : SUBSET Job, cancelled : SUBSET Job,
          owes : BOOLEAN]

PgInit ==
  /\ Init
  /\ sweep     = [w \in Worker |-> NoSweep]
  /\ rowLock   = [j \in Job |-> NoWorker]
  /\ auditLock = NoWorker

Free(j) == rowLock[j] = NoWorker

\* Fault: nothing keeps two appenders of the chain apart.
AuditShared(w) == TRUE

\* The chain is free for w, or w has it already.
AuditFree(w) == auditLock \in {NoWorker, w}

\* The row locks without those of w.
Unlocked(w) == [j \in Job |-> IF rowLock[j] = w THEN NoWorker ELSE rowLock[j]]

\* COMMIT and ROLLBACK release everything the worker's transaction holds.
ReleaseLocks(w) ==
  /\ sweep'     = [sweep EXCEPT ![w] = NoSweep]
  /\ rowLock'   = Unlocked(w)
  /\ auditLock' = IF auditLock = w THEN NoWorker ELSE auditLock

-----------------------------------------------------------------------------
(***************************************************************************)
(* claim_model_job, statement by statement.                                *)
(***************************************************************************)

\* BEGIN and the first SELECT: a plain read.
SelectExhausted(w) ==
  /\ pc[w] = "idle"
  /\ sweep[w] = NoSweep
  /\ sweep' = [sweep EXCEPT ![w].step = "exhausted", ![w].todo = Exhausted]
  /\ UNCHANGED <<vars, lockVars>>

\* One UPDATE of the loops.  It waits for the row lock; the row it then finds
\* may be a newer one than the SELECT returned.  _append_audit follows.
UpdateRow(w, j) ==
  /\ j \in sweep[w].todo
  /\ ~ sweep[w].owes
  /\ Free(j)
  /\ rowLock' = [rowLock EXCEPT ![j] = w]
  /\ sweep' = [sweep EXCEPT ![w].todo = @ \ {j},
                            ![w].owes = TRUE,
                            ![w].failed = IF sweep[w].step = "exhausted"
                                            THEN @ \cup {j} ELSE @,
                            ![w].cancelled = IF sweep[w].step = "cancelled"
                                               THEN @ \cup {j} ELSE @]
  /\ UNCHANGED <<vars, auditLock>>

\* pg_advisory_xact_lock of the audit chain, kept until the commit.
AppendAudit(w) ==
  /\ sweep[w].owes
  /\ AuditFree(w)
  /\ auditLock' = w
  /\ sweep' = [sweep EXCEPT ![w].owes = FALSE]
  /\ UNCHANGED <<vars, rowLock>>

SelectCancelled(w) ==
  /\ sweep[w].step = "exhausted"
  /\ sweep[w].todo = {}
  /\ ~ sweep[w].owes
  /\ sweep' = [sweep EXCEPT ![w].step = "cancelled",
                            ![w].todo = ExpiredCancelled \ sweep[w].failed]
  /\ UNCHANGED <<vars, lockVars>>

\* Fault: the UPDATE of a cancellation does not ask for the status either.
CancellingById(w) == sweep[w].cancelled

\* The rows the loops of w changed.  The UPDATE of an exhausted job names it
\* by id only, whatever its status is by now; the one of a cancellation asks
\* that the job be unfinished still.
Failing(w) == sweep[w].failed
Cancelling(w) == {j \in sweep[w].cancelled : status[j] \in Active}

\* SELECT ... FOR UPDATE SKIP LOCKED, the UPDATE of the job it found, COMMIT.
\* Waiting for the audit chain with that row locked can be left out: nobody
\* but the owner of the chain waits for rows, and it has no use for this one.
CommitClaim(w) ==
  LET taken   == Oldest({j \in Claimable : Free(j)})
      settled == Failing(w) \cup Cancelling(w)
      recovered == Recovered(taken)
  IN
  /\ sweep[w].step = "cancelled"
  /\ sweep[w].todo = {}
  /\ ~ sweep[w].owes
  /\ recovered # {} => AuditFree(w)
  /\ status' = [j \in Job |-> IF j \in Failing(w) THEN "failed"
                              ELSE IF j \in Cancelling(w) THEN "cancelled"
                              ELSE IF j \in taken THEN "running"
                              ELSE status[j]]
  /\ owner'  = [j \in Job |-> IF j \in settled THEN NoWorker
                              ELSE IF j \in taken THEN w ELSE owner[j]]
  /\ lease'  = [j \in Job |-> IF j \in settled THEN "none"
                              ELSE IF j \in taken THEN "live" ELSE lease[j]]
  /\ attempts' = [j \in Job |-> IF j \in taken THEN attempts[j] + 1 ELSE attempts[j]]
  /\ token'    = [j \in Job |-> IF j \in taken THEN NextToken(j) ELSE token[j]]
  /\ Audited({<<j, "failed">> : j \in sweep[w].failed}
             \cup {<<j, "cancelled">> : j \in sweep[w].cancelled}
             \cup {<<j, "recovered">> : j \in recovered})
  /\ IF taken = {}
       THEN UNCHANGED procVars
       ELSE \E j \in taken :
              /\ pc'    = [pc EXCEPT ![w] = "claimed"]
              /\ task'  = [task EXCEPT ![w] = [job |-> j, token |-> NextToken(j)]]
              /\ beats' = beats \cup {[worker |-> w, job |-> j, token |-> NextToken(j)]}
  /\ ReleaseLocks(w)
  /\ UNCHANGED <<req, due, planId, plans>>

-----------------------------------------------------------------------------
(***************************************************************************)
(* The other transactions.                                                 *)
(***************************************************************************)

\* SELECT ... FOR UPDATE of complete_model_job and fail_model_job.
LockRow(w) ==
  /\ pc[w] \in {"executing", "aborting"}
  /\ Free(task[w].job)
  /\ rowLock' = [rowLock EXCEPT ![task[w].job] = w]
  /\ UNCHANGED <<vars, sweep, auditLock>>

Storing(w) == pc[w] \in {"executing", "aborting"} /\ rowLock[task[w].job] = w

\* The rest of the transaction: guard, writes, audit chain, commit.
Store(w) ==
  /\ Storing(w)
  /\ Holds(w, task[w].job, task[w].token) => AuditFree(w)
  /\ Finish(w)
  /\ ReleaseLocks(w)

\* One statement or one short transaction, with no other lock held.
Short(w) == CheckCancel(w) \/ Restart(w)

PgHeartbeat(b) ==
  \/ Free(b.job) /\ Heartbeat(b)
  \/ HeartbeatEnds(b)

\* SELECT ... FOR UPDATE of cancel_model_job.
ApiLockRow(j) ==
  /\ status[j] # "absent"
  /\ Free(j)
  /\ rowLock' = [rowLock EXCEPT ![j] = Api]
  /\ UNCHANGED <<vars, sweep, auditLock>>

Cancellable(j) == status[j] \in {"queued", "running"}

\* The rest of it: nothing to do, or the update and its audit event.
ApiCancel(j) ==
  /\ rowLock[j] = Api
  /\ \/ ~ Cancellable(j) /\ UNCHANGED vars
     \/ auditLock = NoWorker /\ Cancel(j)
  /\ rowLock' = [rowLock EXCEPT ![j] = NoWorker]
  /\ UNCHANGED <<sweep, auditLock>>

PgEnqueue(r, j) == auditLock = NoWorker /\ Enqueue(r, j)

\* The connection of a dead process is closed and its transaction undone.
PgCrash(w) == Crash(w) /\ ReleaseLocks(w)

-----------------------------------------------------------------------------
(***************************************************************************)
(* Deadlock.                                                               *)
(***************************************************************************)

\* The owner of the audit chain is about to update a row somebody has locked.
WaitsForRow(w, j) ==
  /\ auditLock = w
  /\ j \in sweep[w].todo
  /\ ~ sweep[w].owes
  /\ ~ Free(j)

\* Whoever has locked row j needs the audit chain before it can commit.
HolderNeedsAudit(j) ==
  \/ rowLock[j] = Api /\ Cancellable(j)
  \/ \E w \in Worker : /\ rowLock[j] = w
                       /\ \/ sweep[w].owes
                          \/ Storing(w) /\ Holds(w, task[w].job, task[w].token)

\* Every cycle is of this kind: only a claim waits for a row while it holds
\* anything, and what it holds that others wait for is the audit chain.
Deadlocked(w, j) == WaitsForRow(w, j) /\ HolderNeedsAudit(j)

\* The detector rolls back one transaction of the cycle.  A claim is outside
\* run_once's try block: the process ends.  An error of complete_model_job is
\* an exception of _execute that _retry_policy does not retry; an error of
\* fail_model_job ends the process too.  A cancel request answers an error.
DeadlockVictim(w, j) ==
  /\ Deadlocked(w, j)
  /\ \/ PgCrash(w)
     \/ \E v \in Worker :
          /\ rowLock[j] = v
          /\ \/ PgCrash(v)
             \/ /\ pc[v] = "executing"
                /\ pc' = [pc EXCEPT ![v] = "aborting"]
                /\ ReleaseLocks(v)
                /\ UNCHANGED <<dbVars, task, beats>>
     \/ /\ rowLock[j] = Api
        /\ rowLock' = [rowLock EXCEPT ![j] = NoWorker]
        /\ UNCHANGED <<vars, sweep, auditLock>>

-----------------------------------------------------------------------------
PgClaim(w) == \/ SelectExhausted(w)
              \/ \E j \in Job : UpdateRow(w, j)
              \/ AppendAudit(w)
              \/ SelectCancelled(w)
              \/ CommitClaim(w)

PgNext ==
  \/ \E w \in Worker : \/ PgClaim(w)
                       \/ LockRow(w)
                       \/ Store(w)
                       \/ Short(w) /\ UNCHANGED <<sweep, lockVars>>
                       \/ PgCrash(w)
                       \/ \E j \in Job : DeadlockVictim(w, j)
  \/ /\ \E j \in Job : \/ \E r \in Request : PgEnqueue(r, j)
                       \/ LeaseExpires(j)
                       \/ BackoffElapses(j)
     /\ UNCHANGED <<sweep, lockVars>>
  \/ \E j \in Job : ApiLockRow(j) \/ ApiCancel(j)
  \/ /\ \E b \in beats : PgHeartbeat(b)
     /\ UNCHANGED <<sweep, lockVars>>

PgSpec == PgInit /\ [][PgNext]_pgVars

-----------------------------------------------------------------------------
(***************************************************************************)
(* What must hold.  TokensAreExclusive, NoJobIsStranded, ActiveJobsDiffer, *)
(* AuditAccountsForAttempts and StaleWorkerChangesNothing of ModelJobQueue *)
(* are checked again; OutcomeMatchesPlans does not survive.                *)
(***************************************************************************)

PgTypeOK ==
  /\ TypeOK
  /\ sweep \in [Worker -> Sweep]
  /\ rowLock \in [Job -> Worker \cup {NoWorker, Api}]
  /\ auditLock \in Worker \cup {NoWorker}

\* Even here a job delivers at most one plan version, and its row names it.
OnePlanPerJob ==
  \A j \in Job :
    PlansOf(j) = IF planId[j] = 0 THEN {} ELSE {[job |-> j, token |-> planId[j]]}

OneVersionPerJob == PgTypeOK /\ OnePlanPerJob

\* A claim is what an idle worker does; while it does nothing else it has no
\* transaction open.
SweepsAreIdle ==
  \A w \in Worker : IF sweep[w].step = "none" THEN sweep[w] = NoSweep ELSE pc[w] = "idle"

\* The rows a claim has updated so far.
Swept(w) == sweep[w].failed \cup sweep[w].cancelled

\* A row is locked by the claim that updated it, or by the worker about to
\* store the outcome of its job; a claim updates no row twice, and appends one
\* event after each update.
LocksAreHeld ==
  \A w \in Worker :
    /\ \A j \in Swept(w) : rowLock[j] = w
    /\ \A j \in Job : rowLock[j] = w =>
         \/ j \in Swept(w)
         \/ pc[w] \in {"executing", "aborting"} /\ task[w].job = j
    /\ sweep[w].todo \cap Swept(w) = {}
    /\ sweep[w].step = "exhausted" => sweep[w].cancelled = {}
    /\ Swept(w) # {} /\ ~ sweep[w].owes => auditLock = w

\* What a claim fails has no attempt left, whatever became of it meanwhile.
FailedAreExhausted ==
  \A w \in Worker :
    \A j \in sweep[w].failed \cup (IF sweep[w].step = "exhausted" THEN sweep[w].todo ELSE {}) :
      attempts[j] = MaxAttempts

\* Only a success writes a plan, and only an overwrite follows it.
PlansEndJobs == \A j \in Job : planId[j] # 0 => status[j] \in {"succeeded", "failed"}

\* The inductive invariant at READ COMMITTED.
PgIndInv ==
  /\ PgTypeOK
  /\ RowInv
  /\ SweepsAreIdle
  /\ LocksAreHeld
  /\ FailedAreExhausted
  /\ OnePlanPerJob
  /\ PlansEndJobs

\* The damage the unlocked read of claim_model_job can do is bounded: it is
\* always a job on its last attempt, and it always ends as failed.
OverwrittenAsFailed(j) ==
  status[j] \in Terminal /\ status'[j] # status[j]
    => status'[j] = "failed" /\ attempts[j] = MaxAttempts

\* The audit chain makes all waiting short or a cycle of two: when its owner
\* waits for a row, the row's holder waits for the chain (Deadlocked, which
\* the detector resolves) or for nothing at all.  Longer cycles, and waits for
\* a transaction that is gone, do not exist.
WaitsEnd ==
  \A w \in Worker, j \in Job :
    WaitsForRow(w, j) =>
      \/ Deadlocked(w, j)
      \/ rowLock[j] = Api
      \/ \E v \in Worker : rowLock[j] = v /\ Storing(v)

=============================================================================
