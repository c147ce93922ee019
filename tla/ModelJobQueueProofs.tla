------------------------ MODULE ModelJobQueueProofs ------------------------
(***************************************************************************)
(* Theorems about ModelJobQueue and ModelJobQueuePg for every set of jobs, *)
(* requests and workers and all limits.  The first part is about queues    *)
(* whose transactions are serial; the second about what READ COMMITTED     *)
(* leaves of it.                                                           *)
(***************************************************************************)
EXTENDS MCModelJobQueue, MCModelJobQueuePg, FiniteSetTheorems, TLAPS

\* The sets the type invariant is made of, expanded in almost every leaf.
USE DEF Active, Leased, Terminal, Busy, Task, Beat, PlanRow, NoTask, PlansOf

-----------------------------------------------------------------------------
(***************************************************************************)
(* The initial state and stuttering.                                       *)
(***************************************************************************)

\* The inductive invariant holds of an empty database and idle workers.
LEMMA InitIndInv == Init => IndInv
<1> SUFFICES ASSUME Init PROVE IndInv
  OBVIOUS
<1>1. TypeOK
  BY LimitAssumption DEF Init, TypeOK
<1>2. TasksAreGranted /\ TokensAreExclusive
  BY DEF Init, TasksAreGranted, TokensAreExclusive
<1>3. UnusedIdsAreFresh /\ NoJobIsStranded
  BY NullAssumption DEF Init, UnusedIdsAreFresh, NoJobIsStranded
<1>4. OutcomeMatchesPlans
  BY DEF Init, OutcomeMatchesPlans
<1> QED
  BY <1>1, <1>2, <1>3, <1>4 DEF IndInv, RowInv

\* A step that changes nothing preserves it.
LEMMA StutterInv ==
  ASSUME RowInv, UNCHANGED vars
  PROVE  RowInv' /\ (OutcomeMatchesPlans => OutcomeMatchesPlans')
BY DEF RowInv, vars, dbVars, rowVars, procVars, TypeOK, TasksAreGranted,
       TokensAreExclusive, UnusedIdsAreFresh, NoJobIsStranded, OutcomeMatchesPlans

\* Appending audit events keeps the counters numbers.
LEMMA AuditedType ==
  ASSUME TypeOK, NEW E, Audited(E)
  PROVE  audit' \in [Job -> [Event -> Nat]]
BY DEF TypeOK, Audited

-----------------------------------------------------------------------------
(***************************************************************************)
(* The API calls.                                                          *)
(***************************************************************************)

\* enqueue_model_job preserves the inductive invariant.
LEMMA EnqueueIndInv ==
  ASSUME RowInv, NEW j \in Job, NEW r \in Request, Enqueue(r, j)
  PROVE  RowInv' /\ (OutcomeMatchesPlans => OutcomeMatchesPlans')
<1> USE DEF RowInv, Enqueue
<1>1. TypeOK'
  BY DEF TypeOK, Audited, procVars
<1>2. TasksAreGranted' /\ TokensAreExclusive'
  BY DEF TasksAreGranted, TokensAreExclusive, procVars
<1>3. UnusedIdsAreFresh' /\ NoJobIsStranded'
  BY LimitAssumption DEF TypeOK, UnusedIdsAreFresh, NoJobIsStranded
<1>4. OutcomeMatchesPlans => OutcomeMatchesPlans'
  BY DEF TypeOK, OutcomeMatchesPlans
<1> QED
  BY <1>1, <1>2, <1>3, <1>4

\* cancel_model_job preserves the invariants.
LEMMA CancelIndInv ==
  ASSUME RowInv, NEW j \in Job, Cancel(j)
  PROVE  RowInv' /\ (OutcomeMatchesPlans => OutcomeMatchesPlans')
<1> USE DEF RowInv, Cancel
<1>1. TypeOK'
  <2>1. audit' \in [Job -> [Event -> Nat]]
    BY AuditedType
  <2>2. status' \in [Job -> {"absent"} \cup Active \cup Terminal]
    BY DEF TypeOK
  <2> QED
    BY <2>1, <2>2 DEF TypeOK, procVars
<1>2. TasksAreGranted' /\ TokensAreExclusive'
  BY DEF TasksAreGranted, TokensAreExclusive, procVars
<1>3. UnusedIdsAreFresh' /\ NoJobIsStranded'
  BY DEF TypeOK, UnusedIdsAreFresh, NoJobIsStranded
<1>4. OutcomeMatchesPlans => OutcomeMatchesPlans'
  BY DEF TypeOK, OutcomeMatchesPlans
<1> QED
  BY <1>1, <1>2, <1>3, <1>4

-----------------------------------------------------------------------------
(***************************************************************************)
(* The claim: the step with the bulk updates.                              *)
(***************************************************************************)

\* A job the claim settles or takes was unfinished, and at most one is taken.
LEMMA ClaimSets ==
  ASSUME TypeOK
  PROVE  /\ Exhausted \subseteq {j \in Job : status[j] = "running"}
         /\ ExpiredCancelled \subseteq {j \in Job : status[j] = "cancel_requested"}
         /\ Taken \subseteq {j \in Job : /\ status[j] \in {"queued", "running"}
                                         /\ attempts[j] < MaxAttempts}
         /\ Taken \cap Exhausted = {}
         /\ \A i, j \in Taken : i = j
<1>1. /\ Exhausted \subseteq {j \in Job : status[j] = "running"}
      /\ ExpiredCancelled \subseteq {j \in Job : status[j] = "cancel_requested"}
  BY DEF Exhausted, ExpiredCancelled
<1>2. Taken \subseteq {j \in Job : /\ status[j] \in {"queued", "running"}
                                  /\ attempts[j] < MaxAttempts}
  BY DEF Taken, Oldest, Claimable
<1>3. Taken \cap Exhausted = {}
  <2> SUFFICES ASSUME NEW j \in Taken, j \in Exhausted PROVE FALSE
    OBVIOUS
  <2>1. attempts[j] < MaxAttempts /\ attempts[j] >= MaxAttempts
    BY <1>2 DEF Exhausted
  <2>2. attempts[j] \in Nat /\ MaxAttempts \in Nat
    BY <1>2, LimitAssumption DEF TypeOK
  <2> QED
    BY <2>1, <2>2
<1>4. ASSUME NEW i \in Taken, NEW j \in Taken PROVE i = j
  <2>1. i <= j /\ j <= i
    BY DEF Taken, Oldest
  <2>2. i \in Nat /\ j \in Nat
    BY <1>2, JobAssumption
  <2> QED
    BY <2>1, <2>2
<1> QED
  BY <1>1, <1>2, <1>3, <1>4

\* claim_model_job preserves the inductive invariant.
LEMMA ClaimIndInv ==
  ASSUME RowInv, NEW w \in Worker, Claim(w)
  PROVE  RowInv' /\ (OutcomeMatchesPlans => OutcomeMatchesPlans')
<1> USE DEF RowInv
<1>0. TypeOK
  OBVIOUS
<1>s. /\ Exhausted \subseteq {j \in Job : status[j] = "running"}
      /\ ExpiredCancelled \subseteq {j \in Job : status[j] = "cancel_requested"}
      /\ Taken \subseteq {j \in Job : /\ status[j] \in {"queued", "running"}
                                      /\ attempts[j] < MaxAttempts}
      /\ Taken \cap Exhausted = {}
  BY <1>0, ClaimSets
<1>1. TypeOK'
  <2>1. /\ status' \in [Job -> {"absent"} \cup Active \cup Terminal]
        /\ owner'  \in [Job -> Worker \cup {NoWorker}]
        /\ lease'  \in [Job -> {"none", "live", "expired"}]
    BY <1>s DEF Claim, TypeOK
  <2>2. attempts' \in [Job -> 0..MaxAttempts] /\ token' \in [Job -> Nat]
    BY <1>s, LimitAssumption DEF Claim, TypeOK, NextToken
  <2>3. audit' \in [Job -> [Event -> Nat]]
    BY AuditedType DEF Claim
  <2>4. UNCHANGED <<req, due, planId, plans>>
    BY DEF Claim
  <2>5. /\ pc'   \in [Worker -> Busy \cup {"idle", "down"}]
        /\ task' \in [Worker -> Task \cup {NoTask}]
        /\ beats' \subseteq Beat
    <3>1. CASE Taken = {}
      BY <3>1 DEF Claim, TypeOK, procVars
    <3>2. CASE Taken # {}
      <4>1. PICK j \in Taken :
              /\ pc'    = [pc EXCEPT ![w] = "claimed"]
              /\ task'  = [task EXCEPT ![w] = [job |-> j, token |-> NextToken(j)]]
              /\ beats' = beats \cup {[worker |-> w, job |-> j, token |-> NextToken(j)]}
        BY <3>2 DEF Claim
      <4>2. j \in Job /\ NextToken(j) \in Nat
        BY <4>1, <1>s DEF TypeOK, NextToken
      <4> QED
        BY <4>1, <4>2 DEF TypeOK
    <3> QED
      BY <3>1, <3>2
  <2> QED
    BY <2>1, <2>2, <2>3, <2>4, <2>5 DEF TypeOK
<1>2. \A j \in Job : token'[j] = token[j] \/ (j \in Taken /\ token'[j] = token[j] + 1)
  <2>1. token' = [j \in Job |-> IF j \in Taken THEN NextToken(j) ELSE token[j]]
    BY DEF Claim
  <2>2. \A j \in Job : token'[j] = IF j \in Taken THEN NextToken(j) ELSE token[j]
    BY <2>1
  <2> QED
    BY <2>2 DEF NextToken
<1>3. TasksAreGranted' /\ TokensAreExclusive'
  <2>1. CASE Taken = {}
    <3>1. UNCHANGED <<pc, task>> /\ \A j \in Job : token'[j] = token[j]
      BY <1>2, <2>1 DEF Claim, procVars
    <3> QED
      BY <3>1 DEF TasksAreGranted, TokensAreExclusive
  <2>2. CASE Taken # {}
    <3>1. PICK j \in Taken :
            /\ pc'   = [pc EXCEPT ![w] = "claimed"]
            /\ task' = [task EXCEPT ![w] = [job |-> j, token |-> token[j] + 1]]
      BY <2>2 DEF Claim, NextToken
    <3>2. j \in Job /\ token[j] \in Nat /\ token'[j] = token[j] + 1
      BY <3>1, <1>s DEF Claim, NextToken, TypeOK
    <3>3. task'[w] = [job |-> j, token |-> token[j] + 1]
      BY <3>1 DEF TypeOK
    <3>4. \A v \in Worker \ {w} : pc'[v] = pc[v] /\ task'[v] = task[v]
      BY <3>1 DEF TypeOK
    <3>5. TasksAreGranted'
      <4> SUFFICES ASSUME NEW v \in Worker, pc'[v] \in Busy
                   PROVE  /\ task'[v] \in Task
                          /\ 0 < task'[v].token
                          /\ task'[v].token <= token'[task'[v].job]
        BY DEF TasksAreGranted
      <4>1. CASE v = w
        BY <4>1, <3>2, <3>3
      <4>2. CASE v # w
        <5>1. /\ task'[v] = task[v]
              /\ task[v] \in Task
              /\ 0 < task[v].token
              /\ task[v].token <= token[task[v].job]
          BY <4>2, <3>4 DEF TasksAreGranted
        <5>2. task[v].job \in Job /\ task[v].token \in Nat /\ token[task[v].job] \in Nat
          BY <5>1 DEF TypeOK
        <5> QED
          BY <5>1, <5>2, <1>2
      <4> QED
        BY <4>1, <4>2
    <3>6. TokensAreExclusive'
      <4>1. \A v \in Worker \ {w} :
              pc[v] \in Busy /\ task[v].job = j => task[v].token # token[j] + 1
        BY <3>2 DEF TasksAreGranted
      <4> QED
        BY <3>3, <3>4, <4>1 DEF TokensAreExclusive
    <3> QED
      BY <3>5, <3>6
  <2> QED
    BY <2>1, <2>2
<1>4. UnusedIdsAreFresh' /\ NoJobIsStranded'
  <2> SUFFICES ASSUME NEW j \in Job
               PROVE  /\ status'[j] = "absent" => attempts'[j] = 0
                      /\ status'[j] = "queued" => attempts'[j] < MaxAttempts
                      /\ status'[j] \in Leased <=> owner'[j] # NoWorker
                      /\ status'[j] \in Leased <=> lease'[j] # "none"
    BY DEF UnusedIdsAreFresh, NoJobIsStranded
  <2>1. CASE j \in Exhausted \cup ExpiredCancelled
    BY <2>1, <1>s DEF Claim
  <2>2. CASE j \in Taken
    <3>1. status'[j] = "running" /\ owner'[j] = w /\ lease'[j] = "live"
      BY <2>2, <1>s DEF Claim
    <3> QED
      BY <3>1, NullAssumption
  <2>3. CASE j \notin Taken /\ j \notin Exhausted \cup ExpiredCancelled
    <3>1. /\ status'[j] = status[j] /\ attempts'[j] = attempts[j]
          /\ owner'[j] = owner[j] /\ lease'[j] = lease[j]
      BY <2>3 DEF Claim
    <3> QED
      BY <3>1 DEF UnusedIdsAreFresh, NoJobIsStranded
  <2> QED
    BY <2>1, <2>2, <2>3
<1>5. OutcomeMatchesPlans => OutcomeMatchesPlans'
  <2>1. UNCHANGED <<plans, planId>>
    BY DEF Claim
  <2>2. \A j \in Job : /\ status'[j] = "succeeded" <=> status[j] = "succeeded"
                       /\ status[j] = "succeeded" => token'[j] = token[j]
    BY <1>s DEF Claim
  <2> QED
    BY <2>1, <2>2 DEF OutcomeMatchesPlans
<1> QED
  BY <1>1, <1>3, <1>4, <1>5

-----------------------------------------------------------------------------
(***************************************************************************)
(* The rest of run_once.                                                   *)
(***************************************************************************)

\* model_job_cancel_requested only moves the worker.
LEMMA CheckCancelIndInv ==
  ASSUME RowInv, NEW w \in Worker, CheckCancel(w)
  PROVE  RowInv' /\ (OutcomeMatchesPlans => OutcomeMatchesPlans')
<1> USE DEF RowInv, CheckCancel, dbVars, rowVars
<1>1. TypeOK'
  BY DEF TypeOK
<1>2. TasksAreGranted' /\ TokensAreExclusive'
  BY DEF TypeOK, TasksAreGranted, TokensAreExclusive
<1>3. UnusedIdsAreFresh' /\ NoJobIsStranded' /\ (OutcomeMatchesPlans => OutcomeMatchesPlans')
  BY DEF UnusedIdsAreFresh, NoJobIsStranded, OutcomeMatchesPlans
<1> QED
  BY <1>1, <1>2, <1>3

\* A worker whose run ends holds no task; the others keep theirs.
LEMMA RunOnceEndsTasks ==
  ASSUME RowInv, NEW w \in Worker, RunOnceEnds(w), UNCHANGED token
  PROVE  /\ TasksAreGranted'
         /\ TokensAreExclusive'
         /\ pc'   \in [Worker -> Busy \cup {"idle", "down"}]
         /\ task' \in [Worker -> Task \cup {NoTask}]
         /\ beats' \subseteq Beat
BY DEF RowInv, RunOnceEnds, TypeOK, TasksAreGranted, TokensAreExclusive

\* _finalize_cancelled_job by the holder of the lease.
LEMMA FinalizeCancelledRows ==
  ASSUME RowInv, NEW j \in Job, status[j] = "cancel_requested", FinalizeCancelled(j)
  PROVE  /\ UnusedIdsAreFresh' /\ NoJobIsStranded' /\ (OutcomeMatchesPlans => OutcomeMatchesPlans')
         /\ status' \in [Job -> {"absent"} \cup Active \cup Terminal]
         /\ owner'  \in [Job -> Worker \cup {NoWorker}]
         /\ lease'  \in [Job -> {"none", "live", "expired"}]
         /\ audit'  \in [Job -> [Event -> Nat]]
         /\ UNCHANGED <<req, attempts, token, due, planId, plans>>
<1> USE DEF RowInv, FinalizeCancelled, DropLease
<1>1. UnusedIdsAreFresh' /\ NoJobIsStranded'
  BY DEF TypeOK, UnusedIdsAreFresh, NoJobIsStranded
<1>2. OutcomeMatchesPlans => OutcomeMatchesPlans'
  BY DEF TypeOK, OutcomeMatchesPlans
<1> QED
  BY <1>1, <1>2 DEF TypeOK, Audited

\* complete_model_job preserves the invariants.
LEMMA CompleteIndInv ==
  ASSUME RowInv, NEW w \in Worker, Complete(w)
  PROVE  RowInv' /\ (OutcomeMatchesPlans => OutcomeMatchesPlans')
<1> DEFINE j == task[w].job
           t == task[w].token
<1>1. j \in Job /\ t \in Nat /\ 0 < t
  BY DEF RowInv, Complete, TasksAreGranted
<1>2. RunOnceEnds(w) /\ UNCHANGED token
  BY DEF Complete, FinalizeCancelled, dbVars, rowVars
<1> HIDE DEF j, t
<1>3. CASE UNCHANGED dbVars
  BY <1>2, <1>3, RunOnceEndsTasks
     DEF RowInv, dbVars, rowVars, TypeOK, UnusedIdsAreFresh, NoJobIsStranded,
         OutcomeMatchesPlans
<1>4. CASE CancelPending(j) /\ FinalizeCancelled(j)
  BY <1>1, <1>2, <1>4, RunOnceEndsTasks, FinalizeCancelledRows
     DEF RowInv, CancelPending, TypeOK
<1>5. CASE /\ Holds(w, j, t)
           /\ ~ CancelPending(j)
           /\ plans'  = plans \cup {[job |-> j, token |-> t]}
           /\ planId' = [planId EXCEPT ![j] = t]
           /\ status' = [status EXCEPT ![j] = "succeeded"]
           /\ Audited({<<j, "plan">>, <<j, "succeeded">>})
           /\ DropLease(j)
           /\ UNCHANGED <<req, attempts, token, due>>
  <2>1. status[j] = "running" /\ token[j] = t
    BY <1>5 DEF Holds, CancelPending
  <2>2. TypeOK'
    BY <1>1, <1>2, <1>5, RunOnceEndsTasks DEF RowInv, TypeOK, Audited, DropLease
  <2>3. UnusedIdsAreFresh' /\ NoJobIsStranded'
    BY <1>1, <1>5, <2>1 DEF RowInv, TypeOK, UnusedIdsAreFresh, NoJobIsStranded, DropLease
  <2>4. OutcomeMatchesPlans => OutcomeMatchesPlans'
    <3> SUFFICES ASSUME OutcomeMatchesPlans, NEW i \in Job
                 PROVE  /\ {p \in plans' : p.job = i} =
                             IF status'[i] = "succeeded"
                               THEN {[job |-> i, token |-> token'[i]]} ELSE {}
                        /\ planId'[i] = IF status'[i] = "succeeded" THEN token'[i] ELSE 0
      BY DEF OutcomeMatchesPlans
    <3>1. CASE i = j
      <4>1. {p \in plans : p.job = i} = {}
        BY <3>1, <2>1, <1>1 DEF RowInv, OutcomeMatchesPlans
      <4>2. {p \in plans' : p.job = i} = {[job |-> i, token |-> t]}
        BY <4>1, <3>1, <1>5
      <4>3. status'[i] = "succeeded" /\ planId'[i] = t /\ token'[i] = t
        BY <3>1, <1>1, <1>5, <2>1 DEF RowInv, TypeOK
      <4> QED
        BY <4>2, <4>3
    <3>2. CASE i # j
      <4>1. {p \in plans' : p.job = i} = {p \in plans : p.job = i}
        BY <3>2, <1>5
      <4>2. status'[i] = status[i] /\ planId'[i] = planId[i] /\ token'[i] = token[i]
        BY <3>2, <1>1, <1>5 DEF RowInv, TypeOK
      <4> QED
        BY <4>1, <4>2 DEF RowInv, OutcomeMatchesPlans
    <3> QED
      BY <3>1, <3>2
  <2> QED
    BY <1>2, <2>2, <2>3, <2>4, RunOnceEndsTasks DEF RowInv
<1> QED
  BY <1>3, <1>4, <1>5 DEF Complete, j, t

\* fail_model_job preserves the invariants.
LEMMA FailIndInv ==
  ASSUME RowInv, NEW w \in Worker, NEW retryable \in BOOLEAN, Fail(w, retryable)
  PROVE  RowInv' /\ (OutcomeMatchesPlans => OutcomeMatchesPlans')
<1> DEFINE j == task[w].job
           t == task[w].token
           willRetry == WillRetry(j, retryable)
<1>1. j \in Job /\ t \in Nat /\ 0 < t
  BY DEF RowInv, Fail, TasksAreGranted
<1>2. RunOnceEnds(w) /\ UNCHANGED token
  BY DEF Fail, FinalizeCancelled, dbVars, rowVars
<1> HIDE DEF j, t, willRetry
<1>3. CASE UNCHANGED dbVars
  BY <1>2, <1>3, RunOnceEndsTasks
     DEF RowInv, dbVars, rowVars, TypeOK, UnusedIdsAreFresh, NoJobIsStranded,
         OutcomeMatchesPlans
<1>4. CASE CancelPending(j) /\ FinalizeCancelled(j)
  BY <1>1, <1>2, <1>4, RunOnceEndsTasks, FinalizeCancelledRows
     DEF RowInv, CancelPending, TypeOK
<1>5. CASE /\ Holds(w, j, t)
           /\ ~ CancelPending(j)
           /\ status' = [status EXCEPT ![j] = IF willRetry THEN "queued" ELSE "failed"]
           /\ due'    = [due EXCEPT ![j] = IF willRetry THEN FALSE ELSE @]
           /\ Audited({<<j, IF willRetry THEN "retry_scheduled" ELSE "failed">>})
           /\ DropLease(j)
           /\ UNCHANGED <<req, attempts, token, planId, plans>>
  <2>1. status[j] = "running"
    BY <1>5 DEF Holds, CancelPending
  <2>2. willRetry => attempts[j] < MaxAttempts
    BY DEF willRetry, WillRetry
  <2>3. audit' \in [Job -> [Event -> Nat]]
    BY <1>5, AuditedType DEF RowInv
  <2>4. TypeOK'
    BY <1>1, <1>2, <1>5, <2>3, RunOnceEndsTasks DEF RowInv, TypeOK, DropLease
  <2>5. UnusedIdsAreFresh' /\ NoJobIsStranded'
    BY <1>1, <1>5, <2>1, <2>2
       DEF RowInv, TypeOK, UnusedIdsAreFresh, NoJobIsStranded, DropLease
  <2>6. OutcomeMatchesPlans => OutcomeMatchesPlans'
    BY <1>1, <1>5, <2>1 DEF RowInv, TypeOK, OutcomeMatchesPlans
  <2> QED
    BY <1>2, <2>4, <2>5, <2>6, RunOnceEndsTasks DEF RowInv
<1> QED
  BY <1>3, <1>4, <1>5 DEF Fail, j, t, willRetry

\* A crash and a restart touch no row and grant nothing.
LEMMA CrashRestartIndInv ==
  ASSUME RowInv, NEW w \in Worker, Crash(w) \/ Restart(w)
  PROVE  RowInv' /\ (OutcomeMatchesPlans => OutcomeMatchesPlans')
<1> USE DEF RowInv, Crash, Restart, dbVars, rowVars
<1>1. TypeOK'
  BY DEF TypeOK
<1>2. TasksAreGranted' /\ TokensAreExclusive'
  <2>1. /\ token' = token
        /\ \A v \in Worker : pc'[v] \in Busy => pc'[v] = pc[v] /\ task'[v] = task[v]
    BY DEF TypeOK
  <2> QED
    BY <2>1 DEF TasksAreGranted, TokensAreExclusive
<1>3. UnusedIdsAreFresh' /\ NoJobIsStranded' /\ (OutcomeMatchesPlans => OutcomeMatchesPlans')
  BY DEF UnusedIdsAreFresh, NoJobIsStranded, OutcomeMatchesPlans
<1> QED
  BY <1>1, <1>2, <1>3

-----------------------------------------------------------------------------
(***************************************************************************)
(* Heartbeat threads and time.                                             *)
(***************************************************************************)

\* A heartbeat renews a lease that is there; it creates none.
LEMMA HeartbeatIndInv ==
  ASSUME RowInv, NEW b \in beats, Heartbeat(b) \/ HeartbeatEnds(b)
  PROVE  RowInv' /\ (OutcomeMatchesPlans => OutcomeMatchesPlans')
<1> USE DEF RowInv, Heartbeat, HeartbeatEnds, dbVars, rowVars
<1>1. b.job \in Job
  BY DEF TypeOK
<1>2. TypeOK'
  BY <1>1 DEF TypeOK
<1>3. TasksAreGranted' /\ TokensAreExclusive'
  BY DEF TasksAreGranted, TokensAreExclusive
<1>4. NoJobIsStranded'
  BY <1>1 DEF TypeOK, NoJobIsStranded, Holds
<1>5. UnusedIdsAreFresh' /\ (OutcomeMatchesPlans => OutcomeMatchesPlans')
  BY DEF UnusedIdsAreFresh, OutcomeMatchesPlans
<1> QED
  BY <1>2, <1>3, <1>4, <1>5

\* The passing of time ends leases and backoffs.
LEMMA TimeIndInv ==
  ASSUME RowInv, NEW j \in Job, LeaseExpires(j) \/ BackoffElapses(j)
  PROVE  RowInv' /\ (OutcomeMatchesPlans => OutcomeMatchesPlans')
<1> USE DEF RowInv, LeaseExpires, BackoffElapses, procVars
<1>1. TypeOK'
  BY DEF TypeOK
<1>2. TasksAreGranted' /\ TokensAreExclusive'
  <2>1. UNCHANGED <<pc, task, token>>
    OBVIOUS
  <2> QED
    BY <2>1 DEF TasksAreGranted, TokensAreExclusive
<1>3. NoJobIsStranded'
  BY DEF TypeOK, NoJobIsStranded
<1>4. UnusedIdsAreFresh' /\ (OutcomeMatchesPlans => OutcomeMatchesPlans')
  BY DEF UnusedIdsAreFresh, OutcomeMatchesPlans
<1> QED
  BY <1>1, <1>2, <1>3, <1>4

-----------------------------------------------------------------------------
(***************************************************************************)
(* The invariants.                                                         *)
(***************************************************************************)

\* Every step of the queue, its workers and its environment preserves RowInv,
\* and OutcomeMatchesPlans as well.
LEMMA NextRowInv ==
  ASSUME RowInv, [Next]_vars
  PROVE  RowInv' /\ (OutcomeMatchesPlans => OutcomeMatchesPlans')
<1> DEFINE Kept == RowInv' /\ (OutcomeMatchesPlans => OutcomeMatchesPlans')
<1>1. ASSUME NEW j \in Job, NEW r \in Request, Enqueue(r, j) PROVE Kept
  BY <1>1, EnqueueIndInv
<1>2. ASSUME NEW j \in Job, Cancel(j) PROVE Kept
  BY <1>2, CancelIndInv
<1>3. ASSUME NEW j \in Job, LeaseExpires(j) \/ BackoffElapses(j) PROVE Kept
  BY <1>3, TimeIndInv
<1>4. ASSUME NEW w \in Worker, Claim(w) PROVE Kept
  BY <1>4, ClaimIndInv
<1>5. ASSUME NEW w \in Worker, CheckCancel(w) PROVE Kept
  BY <1>5, CheckCancelIndInv
<1>6. ASSUME NEW w \in Worker, Finish(w) PROVE Kept
  BY <1>6, CompleteIndInv, FailIndInv DEF Finish
<1>7. ASSUME NEW w \in Worker, Crash(w) \/ Restart(w) PROVE Kept
  BY <1>7, CrashRestartIndInv
<1>8. ASSUME NEW b \in beats, Heartbeat(b) \/ HeartbeatEnds(b) PROVE Kept
  BY <1>8, HeartbeatIndInv
<1>9. CASE UNCHANGED vars
  BY <1>9, StutterInv
<1> QED
  BY <1>1, <1>2, <1>3, <1>4, <1>5, <1>6, <1>7, <1>8, <1>9 DEF Next

\* IndInv is inductive.
LEMMA NextIndInv == IndInv /\ [Next]_vars => IndInv'
BY NextRowInv DEF IndInv

\* The inductive invariant holds in every reachable state.
THEOREM IndInvHolds == Spec => []IndInv
<1>1. Init => IndInv
  BY InitIndInv
<1>2. IndInv /\ [Next]_vars => IndInv'
  BY NextIndInv
<1> QED
  BY <1>1, <1>2, PTL DEF Spec

\* Type correctness, and with it the retry budget: no job is ever attempted
\* more than MaxAttempts times.
THEOREM TypeCorrect == Spec => []TypeOK
<1>1. IndInv => TypeOK
  BY DEF IndInv, RowInv
<1> QED
  BY <1>1, IndInvHolds, PTL

\* A job that succeeded has exactly one plan, written under its last fencing
\* token, and no other job has a plan.
THEOREM PlansMatchOutcomes == Spec => []OutcomeMatchesPlans
<1>1. IndInv => OutcomeMatchesPlans
  BY DEF IndInv, RowInv
<1> QED
  BY <1>1, IndInvHolds, PTL

\* No two workers ever work on one job with the same fencing token.
THEOREM TokensExclusive == Spec => []TokensAreExclusive
<1>1. IndInv => TokensAreExclusive
  BY DEF IndInv, RowInv
<1> QED
  BY <1>1, IndInvHolds, PTL

\* No unfinished job is left in a state from which no claim and no lease
\* expiry could move it.
THEOREM NoneStranded == Spec => []NoJobIsStranded
<1>1. IndInv => NoJobIsStranded
  BY DEF IndInv, RowInv
<1> QED
  BY <1>1, IndInvHolds, PTL

-----------------------------------------------------------------------------
(***************************************************************************)
(* What a step may do to a job.                                            *)
(***************************************************************************)

\* The status changes of the code that add no plan.
PlainMoves ==
  {<<"absent", "queued">>, <<"queued", "running">>, <<"queued", "cancelled">>,
   <<"running", "queued">>, <<"running", "cancel_requested">>,
   <<"running", "failed">>, <<"cancel_requested", "cancelled">>}

\* Everything one step can do to job j.
JobMoves(j) ==
  \/ /\ status'[j] = status[j]
     /\ PlansOf(j)' = PlansOf(j)
     /\ planId'[j] = planId[j]
     /\ status[j] \in Terminal => token'[j] = token[j]
  \/ /\ <<status[j], status'[j]>> \in PlainMoves
     /\ PlansOf(j)' = PlansOf(j)
     /\ planId'[j] = planId[j]
  \/ /\ status[j] = "running"
     /\ status'[j] = "succeeded"
     /\ planId'[j] # 0
     /\ PlansOf(j)' = {[job |-> j, token |-> planId'[j]]}

\* Only a success leaves a plan behind.
RunningHaveNoPlan == \A j \in Job : status[j] = "running" => PlansOf(j) = {}

\* It follows from OutcomeMatchesPlans.
LEMMA NoPlanYet == OutcomeMatchesPlans => RunningHaveNoPlan
BY DEF OutcomeMatchesPlans, RunningHaveNoPlan

\* No transaction of the repository does anything else.
LEMMA StepMovesJobs ==
  ASSUME RowInv, RunningHaveNoPlan, [Next]_vars, NEW i \in Job
  PROVE  JobMoves(i)
<1> USE DEF RowInv, PlainMoves
<1>1. ASSUME NEW j \in Job, NEW r \in Request, Enqueue(r, j) PROVE JobMoves(i)
  BY <1>1 DEF Enqueue, JobMoves, TypeOK
<1>2. ASSUME NEW j \in Job, Cancel(j) PROVE JobMoves(i)
  BY <1>2 DEF Cancel, JobMoves, TypeOK
<1>3. ASSUME UNCHANGED <<status, plans, planId, token>> PROVE JobMoves(i)
  BY <1>3 DEF JobMoves
<1>4. ASSUME NEW w \in Worker, Claim(w) PROVE JobMoves(i)
  <2>1. /\ Exhausted \subseteq {j \in Job : status[j] = "running"}
        /\ ExpiredCancelled \subseteq {j \in Job : status[j] = "cancel_requested"}
        /\ Taken \subseteq {j \in Job : status[j] \in {"queued", "running"}}
    BY ClaimSets
  <2>2. /\ status'[i] = IF i \in Exhausted THEN "failed"
                        ELSE IF i \in ExpiredCancelled THEN "cancelled"
                        ELSE IF i \in Taken THEN "running" ELSE status[i]
        /\ token'[i] = IF i \in Taken THEN NextToken(i) ELSE token[i]
        /\ UNCHANGED <<planId, plans>>
    BY <1>4 DEF Claim
  <2> QED
    BY <2>1, <2>2 DEF JobMoves
<1>5. ASSUME NEW w \in Worker, NEW j \in Job, Holds(w, j, token[j]), CancelPending(j),
             FinalizeCancelled(j)
      PROVE  JobMoves(i)
  BY <1>5 DEF FinalizeCancelled, CancelPending, JobMoves, TypeOK
<1>6. ASSUME NEW w \in Worker, Complete(w) PROVE JobMoves(i)
  <2> DEFINE j == task[w].job
             t == task[w].token
  <2>1. j \in Job /\ t \in Nat /\ 0 < t
    BY <1>6 DEF Complete, TasksAreGranted
  <2>2. CASE UNCHANGED dbVars
    BY <2>2, <1>3 DEF dbVars, rowVars
  <2>3. CASE Holds(w, j, t) /\ CancelPending(j) /\ FinalizeCancelled(j)
    BY <2>1, <2>3, <1>5 DEF Holds
  <2>4. CASE /\ Holds(w, j, t)
             /\ ~ CancelPending(j)
             /\ plans'  = plans \cup {[job |-> j, token |-> t]}
             /\ planId' = [planId EXCEPT ![j] = t]
             /\ status' = [status EXCEPT ![j] = "succeeded"]
             /\ UNCHANGED token
    <3>1. CASE i = j
      <4>1. status[i] = "running" /\ status'[i] = "succeeded"
        BY <3>1, <2>1, <2>4 DEF Holds, CancelPending, TypeOK
      <4>2. PlansOf(i) = {}
        BY <4>1 DEF RunningHaveNoPlan
      <4>3. PlansOf(i)' = {[job |-> i, token |-> t]} /\ planId'[i] = t
        BY <4>2, <3>1, <2>4 DEF TypeOK
      <4> QED
        BY <2>1, <4>1, <4>3 DEF JobMoves
    <3>2. CASE i # j
      <4>1. PlansOf(i)' = PlansOf(i)
        BY <3>2, <2>4
      <4>2. status'[i] = status[i] /\ planId'[i] = planId[i] /\ token'[i] = token[i]
        BY <3>2, <2>4 DEF TypeOK
      <4> QED
        BY <4>1, <4>2 DEF JobMoves
    <3> QED
      BY <3>1, <3>2
  <2> QED
    BY <1>6, <2>2, <2>3, <2>4 DEF Complete
<1>7. ASSUME NEW w \in Worker, NEW retryable \in BOOLEAN, Fail(w, retryable)
      PROVE  JobMoves(i)
  <2> DEFINE j == task[w].job
             t == task[w].token
             willRetry == WillRetry(j, retryable)
  <2>1. j \in Job
    BY <1>7 DEF Fail, TasksAreGranted
  <2>2. CASE UNCHANGED dbVars
    BY <2>2, <1>3 DEF dbVars, rowVars
  <2>3. CASE Holds(w, j, t) /\ CancelPending(j) /\ FinalizeCancelled(j)
    BY <2>1, <2>3, <1>5 DEF Holds
  <2>4. CASE /\ Holds(w, j, t)
             /\ ~ CancelPending(j)
             /\ status' = [status EXCEPT ![j] = IF willRetry THEN "queued" ELSE "failed"]
             /\ UNCHANGED <<token, planId, plans>>
    <3> HIDE DEF willRetry
    <3> QED
      BY <2>1, <2>4 DEF Holds, CancelPending, JobMoves, TypeOK
  <2> QED
    BY <1>7, <2>2, <2>3, <2>4 DEF Fail
<1> QED
  BY <1>1, <1>2, <1>3, <1>4, <1>6, <1>7
     DEF Next, Finish, LeaseExpires, BackoffElapses, CheckCancel, Crash, Restart,
         Heartbeat, HeartbeatEnds, vars, dbVars, rowVars

\* Nothing happens to a finished job.
THEOREM FinishedStays == Spec => TerminalIsFinal
<1>1. IndInv /\ [Next]_vars => [\A j \in Job : FinishedJobStays(j)]_vars
  BY StepMovesJobs, NoPlanYet DEF IndInv, JobMoves, PlainMoves, FinishedJobStays
<1> QED
  BY <1>1, IndInvHolds, PTL DEF Spec, TerminalIsFinal

\* A cancelled job delivers nothing and is not revived.
THEOREM CancellationIsKept == Spec => CancellationSticks
<1>1. IndInv /\ [Next]_vars => [\A j \in Job : CancelledJobStops(j)]_vars
  BY StepMovesJobs, NoPlanYet DEF IndInv, JobMoves, PlainMoves, CancelledJobStops
<1> QED
  BY <1>1, IndInvHolds, PTL DEF Spec, CancellationSticks

-----------------------------------------------------------------------------
(***************************************************************************)
(* Refinement.                                                             *)
(***************************************************************************)

\* Every behaviour of the queue, its workers and its environment is one of
\* the job life cycle promised to the submitter.
THEOREM QueueImplementsLifecycle == Spec => ImplementsLifecycleSafety
<1>1. Init => Lifecycle!Init
  BY DEF Init, Lifecycle!Init, PhaseOf
<1>2. IndInv /\ [Next]_vars => [Lifecycle!Next]_(Lifecycle!vars)
  <2> SUFFICES ASSUME IndInv, [Next]_vars, NEW j \in Job
               PROVE  Lifecycle!Keeps(j) \/ Lifecycle!Advances(j)
    BY DEF Lifecycle!Next
  <2>1. JobMoves(j)
    BY StepMovesJobs, NoPlanYet DEF IndInv
  <2> QED
    BY <2>1
       DEF JobMoves, PlainMoves, PhaseOf, IndInv, RowInv, TypeOK, Lifecycle!Keeps,
           Lifecycle!Advances, Lifecycle!Moves, Lifecycle!Ended
<1> QED
  BY <1>1, <1>2, IndInvHolds, PTL DEF Spec, ImplementsLifecycleSafety, Lifecycle!Safety

-----------------------------------------------------------------------------
(***************************************************************************)
(* Late workers and late heartbeats.                                       *)
(***************************************************************************)

\* A worker whose token was superseded finishes without touching the row.
LEMMA StaleRunStep ==
  ASSUME RowInv, [Next]_vars, NEW w \in Worker
  PROVE  StaleRunIsHarmless(w)
<1> DEFINE Ends == /\ pc[w] \in {"aborting", "executing"}
                   /\ pc'[w] = "idle"
                   /\ task[w].token < token[task[w].job]
<1> SUFFICES ASSUME Ends PROVE UNCHANGED dbVars
  BY DEF StaleRunIsHarmless, dbVars, rowVars
<1>1. task[w].token \in Nat /\ token[task[w].job] \in Nat
  BY DEF RowInv, TypeOK, TasksAreGranted
<1>2. token[task[w].job] # task[w].token
  BY <1>1
<1>3. UNCHANGED pc => FALSE
  OBVIOUS
<1>4. ASSUME NEW v \in Worker, Claim(v) PROVE FALSE
  <2>1. CASE Taken = {}
    BY <1>4, <2>1, <1>3 DEF Claim, procVars
  <2>2. CASE Taken # {}
    <3>1. pc' = [pc EXCEPT ![v] = "claimed"]
      BY <1>4, <2>2 DEF Claim
    <3> QED
      BY <3>1 DEF RowInv, TypeOK
  <2> QED
    BY <2>1, <2>2
<1>5. ASSUME NEW v \in Worker, CheckCancel(v) \/ Crash(v) \/ Restart(v) PROVE FALSE
  BY <1>5 DEF CheckCancel, Crash, Restart, RowInv, TypeOK
<1>6. ASSUME NEW v \in Worker, Finish(v) PROVE UNCHANGED dbVars
  <2>1. pc' = [pc EXCEPT ![v] = "idle"]
    BY <1>6 DEF Finish, Complete, Fail, RunOnceEnds
  <2>2. v = w
    BY <2>1 DEF RowInv, TypeOK
  <2>3. ~ Holds(w, task[w].job, task[w].token)
    BY <1>2 DEF Holds
  <2> QED
    BY <1>6, <2>2, <2>3 DEF Finish, Complete, Fail
<1>7. ASSUME NEW j \in Job,
             \/ \E r \in Request : Enqueue(r, j)
             \/ Cancel(j) \/ LeaseExpires(j) \/ BackoffElapses(j)
      PROVE  FALSE
  BY <1>7, <1>3 DEF Enqueue, Cancel, LeaseExpires, BackoffElapses, procVars
<1>8. ASSUME NEW b \in beats, Heartbeat(b) \/ HeartbeatEnds(b) PROVE FALSE
  BY <1>8, <1>3 DEF Heartbeat, HeartbeatEnds
<1> QED
  BY <1>3, <1>4, <1>5, <1>6, <1>7, <1>8 DEF Next, vars, procVars

\* The fencing token keeps the late calls of a superseded worker out.
THEOREM StaleWorkersAreFenced == Spec => StaleWorkerChangesNothing
<1>1. IndInv /\ [Next]_vars => [\A w \in Worker : StaleRunIsHarmless(w)]_vars
  BY StaleRunStep DEF IndInv
<1> QED
  BY <1>1, IndInvHolds, PTL DEF Spec, StaleWorkerChangesNothing

\* Only the claim and the heartbeat write a live lease, and the claim raises
\* the token.
LEMMA RenewalStep ==
  ASSUME IndInv, [Next]_vars, NEW j \in Job
  PROVE  RenewedByItsThread(j)
<1> SUFFICES ASSUME lease[j] = "expired", lease'[j] = "live", token'[j] = token[j]
             PROVE  [worker |-> owner[j], job |-> j, token |-> token[j]] \in beats
  BY DEF RenewedByItsThread
<1>1. UNCHANGED lease => FALSE
  OBVIOUS
<1>2. ASSUME NEW i \in Job, DropLease(i) PROVE FALSE
  BY <1>2 DEF DropLease, IndInv, RowInv, TypeOK
<1>3. ASSUME NEW w \in Worker, Claim(w) PROVE FALSE
  <2>1. j \in Taken
    BY <1>3 DEF Claim
  <2>2. token'[j] = token[j] + 1 /\ token[j] \in Nat
    BY <1>3, <2>1 DEF Claim, NextToken, IndInv, RowInv, TypeOK
  <2> QED
    BY <2>2
<1>4. ASSUME NEW w \in Worker, Finish(w) PROVE FALSE
  <2>1. task[w].job \in Job
    BY <1>4 DEF Finish, Complete, Fail, IndInv, RowInv, TasksAreGranted
  <2>2. UNCHANGED lease \/ DropLease(task[w].job)
    BY <1>4 DEF Finish, Complete, Fail, FinalizeCancelled, dbVars, rowVars
  <2> QED
    BY <1>1, <1>2, <2>1, <2>2
<1>5. ASSUME NEW i \in Job, LeaseExpires(i) PROVE FALSE
  BY <1>5 DEF LeaseExpires, IndInv, RowInv, TypeOK
<1>6. ASSUME NEW b \in beats, Heartbeat(b)
      PROVE  [worker |-> owner[j], job |-> j, token |-> token[j]] \in beats
  <2>1. b \in Beat
    BY DEF IndInv, RowInv, TypeOK
  <2>2. Holds(b.worker, b.job, b.token) /\ b.job = j
    BY <1>6, <2>1 DEF Heartbeat, IndInv, RowInv, TypeOK
  <2>3. b = [worker |-> owner[j], job |-> j, token |-> token[j]]
    BY <2>1, <2>2 DEF Holds
  <2> QED
    BY <2>3
<1>7. ASSUME NEW i \in Job,
             (\E r \in Request : Enqueue(r, i)) \/ Cancel(i) \/ BackoffElapses(i)
      PROVE  FALSE
  BY <1>7, <1>1 DEF Enqueue, Cancel, BackoffElapses
<1>8. ASSUME NEW w \in Worker, CheckCancel(w) \/ Crash(w) \/ Restart(w) PROVE FALSE
  BY <1>8, <1>1 DEF CheckCancel, Crash, Restart, dbVars, rowVars
<1>9. ASSUME NEW b \in beats, HeartbeatEnds(b) PROVE FALSE
  BY <1>9, <1>1 DEF HeartbeatEnds, dbVars, rowVars
<1> QED
  BY <1>1, <1>3, <1>4, <1>5, <1>6, <1>7, <1>8, <1>9 DEF Next, vars, dbVars, rowVars

\* A heartbeat thread that outlived its run renews nobody else's lease.
THEOREM HeartbeatsAreFenced == Spec => StaleHeartbeatRenewsNothing
<1>1. IndInv /\ [Next]_vars => [\A j \in Job : RenewedByItsThread(j)]_vars
  BY RenewalStep
<1> QED
  BY <1>1, IndInvHolds, PTL DEF Spec, StaleHeartbeatRenewsNothing

-----------------------------------------------------------------------------
(***************************************************************************)
(* The audit trail.                                                        *)
(***************************************************************************)

\* The step appends exactly the events E to the trail of job j.
Appends(j, E) ==
  \A e \in Event : audit'[j][e] = audit[j][e] + (IF e \in E THEN 1 ELSE 0)

\* The changes of status that start no attempt, with the events they append.
AuditedMoves ==
  {<<"absent", "queued", {"queued"}>>,
   <<"queued", "cancelled", {"cancelled"}>>,
   <<"running", "cancel_requested", {"cancel_requested"}>>,
   <<"running", "failed", {"failed"}>>,
   <<"cancel_requested", "cancelled", {"cancelled"}>>,
   <<"running", "succeeded", {"plan", "succeeded"}>>,
   <<"running", "queued", {"retry_scheduled"}>>}

\* Everything one step can do to the status, the attempts and the trail of j.
AuditMoves(j) ==
  \/ /\ status'[j] = status[j]
     /\ attempts'[j] = attempts[j]
     /\ Appends(j, {})
  \/ /\ attempts'[j] = attempts[j]
     /\ \E m \in AuditedMoves :
          /\ status[j] = m[1]
          /\ status'[j] = m[2]
          /\ Appends(j, m[3])
  \/ /\ status[j] \in {"queued", "running"}
     /\ status'[j] = "running"
     /\ attempts'[j] = attempts[j] + 1
     /\ Appends(j, IF status[j] = "running" THEN {"recovered"} ELSE {})

\* A transition of one job with its events, the other jobs left alone.
LEMMA OneJobAudited ==
  ASSUME IndInv, NEW i \in Job, NEW j \in Job, NEW m \in AuditedMoves,
         status[j] = m[1],
         status' = [status EXCEPT ![j] = m[2]],
         UNCHANGED attempts,
         Audited({<<j, e>> : e \in m[3]})
  PROVE  AuditMoves(i)
<1>1. CASE i = j
  <2>1. Appends(j, m[3])
    BY DEF Audited, Appends
  <2> QED
    BY <1>1, <2>1 DEF AuditMoves, IndInv, RowInv, TypeOK
<1>2. CASE i # j
  <2>1. Appends(i, {})
    BY <1>2 DEF Audited, Appends
  <2> QED
    BY <1>2, <2>1 DEF AuditMoves, IndInv, RowInv, TypeOK
<1> QED
  BY <1>1, <1>2

\* A step that leaves status, attempts and the trail alone.
LEMMA QuietAudit ==
  ASSUME IndInv, NEW i \in Job, UNCHANGED <<status, attempts, audit>>
  PROVE  AuditMoves(i)
BY DEF AuditMoves, Appends, IndInv, RowInv, TypeOK

\* The claim appends one event to every job it settles or recovers.
LEMMA ClaimAudit ==
  ASSUME IndInv, NEW w \in Worker, Claim(w), NEW i \in Job
  PROVE  AuditMoves(i)
<1>1. /\ Exhausted \subseteq {j \in Job : status[j] = "running"}
      /\ ExpiredCancelled \subseteq {j \in Job : status[j] = "cancel_requested"}
      /\ Taken \subseteq {j \in Job : status[j] \in {"queued", "running"}}
      /\ Taken \cap Exhausted = {}
  BY ClaimSets DEF IndInv, RowInv
<1>2. /\ status'[i] = IF i \in Exhausted THEN "failed"
                      ELSE IF i \in ExpiredCancelled THEN "cancelled"
                      ELSE IF i \in Taken THEN "running" ELSE status[i]
      /\ attempts'[i] = IF i \in Taken THEN attempts[i] + 1 ELSE attempts[i]
  BY DEF Claim
<1>3. \A e \in Event :
        audit'[i][e] = audit[i][e] +
          (IF \/ e = "failed" /\ i \in Exhausted
              \/ e = "cancelled" /\ i \in ExpiredCancelled
              \/ e = "recovered" /\ i \in Taken /\ status[i] = "running"
             THEN 1 ELSE 0)
  BY DEF Claim, Audited, Recovered
<1>4. CASE i \in Exhausted
  <2>1. Appends(i, {"failed"})
    BY <1>1, <1>3, <1>4 DEF Appends
  <2> QED
    BY <1>1, <1>2, <1>4, <2>1 DEF AuditMoves, AuditedMoves
<1>5. CASE i \in ExpiredCancelled
  <2>1. Appends(i, {"cancelled"})
    BY <1>1, <1>3, <1>5 DEF Appends
  <2> QED
    BY <1>1, <1>2, <1>5, <2>1 DEF AuditMoves, AuditedMoves
<1>6. CASE i \in Taken
  <2>1. Appends(i, IF status[i] = "running" THEN {"recovered"} ELSE {})
    BY <1>1, <1>3, <1>6 DEF Appends
  <2> QED
    BY <1>1, <1>2, <1>6, <2>1 DEF AuditMoves
<1>7. CASE i \notin Exhausted \cup ExpiredCancelled \cup Taken
  <2>1. Appends(i, {})
    BY <1>3, <1>7 DEF Appends
  <2> QED
    BY <1>2, <1>7, <2>1 DEF AuditMoves
<1> QED
  BY <1>4, <1>5, <1>6, <1>7

\* The end of a run by the holder of the lease, or by somebody else.
LEMMA FinishAudit ==
  ASSUME IndInv, NEW w \in Worker, Finish(w), NEW i \in Job
  PROVE  AuditMoves(i)
<1> DEFINE j == task[w].job
           t == task[w].token
<1>1. j \in Job
  BY DEF Finish, Complete, Fail, IndInv, RowInv, TasksAreGranted
<1>2. CASE UNCHANGED dbVars
  BY <1>2, QuietAudit DEF dbVars, rowVars
<1>3. CASE CancelPending(j) /\ FinalizeCancelled(j)
  <2> DEFINE m == <<"cancel_requested", "cancelled", {"cancelled"}>>
  <2>1. {<<j, e>> : e \in m[3]} = {<<j, "cancelled">>}
    OBVIOUS
  <2>2. m \in AuditedMoves /\ m[1] = "cancel_requested" /\ m[2] = "cancelled"
    BY DEF AuditedMoves
  <2> HIDE DEF m, j
  <2> QED
    BY <1>1, <1>3, <2>1, <2>2, OneJobAudited DEF CancelPending, FinalizeCancelled
<1>4. CASE /\ Holds(w, j, t) /\ ~ CancelPending(j)
           /\ status' = [status EXCEPT ![j] = "succeeded"]
           /\ Audited({<<j, "plan">>, <<j, "succeeded">>})
           /\ UNCHANGED attempts
  <2> DEFINE m == <<"running", "succeeded", {"plan", "succeeded"}>>
  <2>1. {<<j, e>> : e \in m[3]} = {<<j, "plan">>, <<j, "succeeded">>}
    OBVIOUS
  <2>2. m \in AuditedMoves /\ m[1] = "running" /\ m[2] = "succeeded"
    BY DEF AuditedMoves
  <2> HIDE DEF m, j
  <2> QED
    BY <1>1, <1>4, <2>1, <2>2, OneJobAudited DEF CancelPending, Holds
<1>5. ASSUME NEW willRetry \in BOOLEAN,
             Holds(w, j, t), ~ CancelPending(j),
             status' = [status EXCEPT ![j] = IF willRetry THEN "queued" ELSE "failed"],
             Audited({<<j, IF willRetry THEN "retry_scheduled" ELSE "failed">>}),
             UNCHANGED attempts
      PROVE  AuditMoves(i)
  <2> DEFINE event == IF willRetry THEN "retry_scheduled" ELSE "failed"
             m == <<"running", IF willRetry THEN "queued" ELSE "failed", {event}>>
  <2>1. {<<j, e>> : e \in m[3]} = {<<j, event>>}
    OBVIOUS
  <2>2. m \in AuditedMoves
    BY DEF AuditedMoves
  <2>3. m[1] = "running" /\ m[2] = IF willRetry THEN "queued" ELSE "failed"
    OBVIOUS
  <2> HIDE DEF m, j
  <2> QED
    BY <1>1, <1>5, <2>1, <2>2, <2>3, OneJobAudited DEF CancelPending, Holds
<1>6. CASE Complete(w)
  BY <1>2, <1>3, <1>4, <1>6 DEF Complete
<1>7. ASSUME NEW retryable \in BOOLEAN, Fail(w, retryable) PROVE AuditMoves(i)
  <2>1. WillRetry(j, retryable) \in BOOLEAN
    BY DEF WillRetry
  <2> QED
    BY <1>2, <1>3, <1>5, <1>7, <2>1 DEF Fail
<1> QED
  BY <1>6, <1>7 DEF Finish

\* No transaction audits anything but what it does.
LEMMA StepAudits ==
  ASSUME IndInv, [Next]_vars, NEW i \in Job
  PROVE  AuditMoves(i)
<1>1. ASSUME NEW j \in Job, NEW r \in Request, Enqueue(r, j) PROVE AuditMoves(i)
  <2> DEFINE m == <<"absent", "queued", {"queued"}>>
  <2>1. {<<j, e>> : e \in m[3]} = {<<j, "queued">>}
    OBVIOUS
  <2>2. m \in AuditedMoves /\ m[1] = "absent" /\ m[2] = "queued"
    BY DEF AuditedMoves
  <2> HIDE DEF m
  <2> QED
    BY <1>1, <2>1, <2>2, OneJobAudited DEF Enqueue
<1>2. ASSUME NEW j \in Job, Cancel(j) PROVE AuditMoves(i)
  <2> DEFINE m == <<"queued", "cancelled", {"cancelled"}>>
             n == <<"running", "cancel_requested", {"cancel_requested"}>>
  <2>1. /\ {<<j, e>> : e \in m[3]} = {<<j, "cancelled">>}
        /\ {<<j, e>> : e \in n[3]} = {<<j, "cancel_requested">>}
    OBVIOUS
  <2>2. /\ m \in AuditedMoves /\ m[1] = "queued" /\ m[2] = "cancelled"
        /\ n \in AuditedMoves /\ n[1] = "running" /\ n[2] = "cancel_requested"
    BY DEF AuditedMoves
  <2> HIDE DEF m, n
  <2> QED
    BY <1>2, <2>1, <2>2, OneJobAudited DEF Cancel
<1>3. ASSUME NEW w \in Worker, Claim(w) PROVE AuditMoves(i)
  BY <1>3, ClaimAudit
<1>4. ASSUME NEW w \in Worker, Finish(w) PROVE AuditMoves(i)
  BY <1>4, FinishAudit
<1>5. CASE UNCHANGED <<status, attempts, audit>>
  BY <1>5, QuietAudit
<1> QED
  BY <1>1, <1>2, <1>3, <1>4, <1>5
     DEF Next, LeaseExpires, BackoffElapses, CheckCancel, Crash, Restart, Heartbeat,
         HeartbeatEnds, vars, dbVars, rowVars

\* A cancellation request is on record exactly when one was made; without this
\* a cancelled job's last attempt could not be told from its wait.
RequestsAreAudited ==
  \A j \in Job :
    /\ status[j] \in {"absent", "queued", "running"} => audit[j]["cancel_requested"] = 0
    /\ status[j] = "cancel_requested" => audit[j]["cancel_requested"] # 0

\* The inductive form of the audit invariant.
AuditInv == AuditTrailIsTrue /\ RequestsAreAudited

\* AuditInv for one job.
TrailFits(st, tries, trail) ==
  /\ \A e \in Terminal : trail[e] = IF st = e THEN 1 ELSE 0
  /\ trail["plan"] = trail["succeeded"]
  /\ tries + (IF st = "queued" THEN 1 ELSE 0)
           + (IF st = "cancelled" /\ trail["cancel_requested"] = 0 THEN 1 ELSE 0)
     = trail["queued"] + trail["retry_scheduled"] + trail["recovered"]
  /\ st \in {"absent", "queued", "running"} => trail["cancel_requested"] = 0
  /\ st = "cancel_requested" => trail["cancel_requested"] # 0

\* A transition of the table keeps the account of a job's trail.
LEMMA NextAuditInv == IndInv /\ AuditInv /\ [Next]_vars => AuditInv'
<1> SUFFICES ASSUME IndInv, AuditInv, [Next]_vars, NEW j \in Job
             PROVE  TrailFits(status'[j], attempts'[j], audit'[j])
  BY DEF AuditInv, AuditTrailIsTrue, AuditNamesTheOutcome, AuditAccountsForAttempts,
         RequestsAreAudited, TrailFits
<1>1. AuditMoves(j)
  BY StepAudits
<1>2. /\ attempts[j] \in Nat
      /\ \A e \in Event : audit[j][e] \in Nat
  BY DEF IndInv, RowInv, TypeOK
<1>3. TrailFits(status[j], attempts[j], audit[j])
  BY DEF AuditInv, AuditTrailIsTrue, AuditNamesTheOutcome, AuditAccountsForAttempts,
         RequestsAreAudited, TrailFits
<1>4. CASE status'[j] = status[j] /\ attempts'[j] = attempts[j] /\ Appends(j, {})
  <2>1. \A e \in Event : audit'[j][e] = audit[j][e]
    BY <1>2, <1>4 DEF Appends
  <2> QED
    BY <1>2, <1>3, <1>4, <2>1 DEF Event, TrailFits
<1>5. ASSUME NEW m \in AuditedMoves, attempts'[j] = attempts[j],
             status[j] = m[1], status'[j] = m[2], Appends(j, m[3])
      PROVE  TrailFits(status'[j], attempts'[j], audit'[j])
  <2>1. \/ m = <<"absent", "queued", {"queued"}>>
        \/ m = <<"queued", "cancelled", {"cancelled"}>>
        \/ m = <<"running", "cancel_requested", {"cancel_requested"}>>
        \/ m = <<"running", "failed", {"failed"}>>
        \/ m = <<"cancel_requested", "cancelled", {"cancelled"}>>
        \/ m = <<"running", "succeeded", {"plan", "succeeded"}>>
        \/ m = <<"running", "queued", {"retry_scheduled"}>>
    BY DEF AuditedMoves
  <2>2. CASE m = <<"absent", "queued", {"queued"}>>
    <3>1. status[j] = "absent" /\ status'[j] = "queued" /\ m[3] = {"queued"}
      BY <1>5, <2>2
    <3>2. /\ audit'[j]["queued"] = audit[j]["queued"] + 1
          /\ \A e \in Event \ {"queued"} : audit'[j][e] = audit[j][e]
      BY <1>2, <1>5, <3>1 DEF Appends, Event
    <3> QED
      BY <1>2, <1>3, <1>5, <3>1, <3>2 DEF Event, TrailFits
  <2>3. CASE m = <<"queued", "cancelled", {"cancelled"}>>
    <3>1. status[j] = "queued" /\ status'[j] = "cancelled" /\ m[3] = {"cancelled"}
      BY <1>5, <2>3
    <3>2. /\ audit'[j]["cancelled"] = audit[j]["cancelled"] + 1
          /\ \A e \in Event \ {"cancelled"} : audit'[j][e] = audit[j][e]
      BY <1>2, <1>5, <3>1 DEF Appends, Event
    <3> QED
      BY <1>2, <1>3, <1>5, <3>1, <3>2 DEF Event, TrailFits
  <2>4. CASE m = <<"running", "cancel_requested", {"cancel_requested"}>>
    <3>1. status[j] = "running" /\ status'[j] = "cancel_requested" /\ m[3] = {"cancel_requested"}
      BY <1>5, <2>4
    <3>2. /\ audit'[j]["cancel_requested"] = audit[j]["cancel_requested"] + 1
          /\ \A e \in Event \ {"cancel_requested"} : audit'[j][e] = audit[j][e]
      BY <1>2, <1>5, <3>1 DEF Appends, Event
    <3> QED
      BY <1>2, <1>3, <1>5, <3>1, <3>2 DEF Event, TrailFits
  <2>5. CASE m = <<"running", "failed", {"failed"}>>
    <3>1. status[j] = "running" /\ status'[j] = "failed" /\ m[3] = {"failed"}
      BY <1>5, <2>5
    <3>2. /\ audit'[j]["failed"] = audit[j]["failed"] + 1
          /\ \A e \in Event \ {"failed"} : audit'[j][e] = audit[j][e]
      BY <1>2, <1>5, <3>1 DEF Appends, Event
    <3> QED
      BY <1>2, <1>3, <1>5, <3>1, <3>2 DEF Event, TrailFits
  <2>6. CASE m = <<"cancel_requested", "cancelled", {"cancelled"}>>
    <3>1. status[j] = "cancel_requested" /\ status'[j] = "cancelled" /\ m[3] = {"cancelled"}
      BY <1>5, <2>6
    <3>2. /\ audit'[j]["cancelled"] = audit[j]["cancelled"] + 1
          /\ \A e \in Event \ {"cancelled"} : audit'[j][e] = audit[j][e]
      BY <1>2, <1>5, <3>1 DEF Appends, Event
    <3> QED
      BY <1>2, <1>3, <1>5, <3>1, <3>2 DEF Event, TrailFits
  <2>7. CASE m = <<"running", "succeeded", {"plan", "succeeded"}>>
    <3>1. status[j] = "running" /\ status'[j] = "succeeded" /\ m[3] = {"plan", "succeeded"}
      BY <1>5, <2>7
    <3>2. /\ audit'[j]["plan"] = audit[j]["plan"] + 1
          /\ audit'[j]["succeeded"] = audit[j]["succeeded"] + 1
          /\ \A e \in Event \ {"plan", "succeeded"} : audit'[j][e] = audit[j][e]
      BY <1>2, <1>5, <3>1 DEF Appends, Event
    <3> QED
      BY <1>2, <1>3, <1>5, <3>1, <3>2 DEF Event, TrailFits
  <2>8. CASE m = <<"running", "queued", {"retry_scheduled"}>>
    <3>1. status[j] = "running" /\ status'[j] = "queued" /\ m[3] = {"retry_scheduled"}
      BY <1>5, <2>8
    <3>2. /\ audit'[j]["retry_scheduled"] = audit[j]["retry_scheduled"] + 1
          /\ \A e \in Event \ {"retry_scheduled"} : audit'[j][e] = audit[j][e]
      BY <1>2, <1>5, <3>1 DEF Appends, Event
    <3> QED
      BY <1>2, <1>3, <1>5, <3>1, <3>2 DEF Event, TrailFits
  <2> QED
    BY <2>1, <2>2, <2>3, <2>4, <2>5, <2>6, <2>7, <2>8
<1>6. CASE /\ status[j] \in {"queued", "running"}
           /\ status'[j] = "running"
           /\ attempts'[j] = attempts[j] + 1
           /\ Appends(j, IF status[j] = "running" THEN {"recovered"} ELSE {})
  BY SMTT(30), <1>2, <1>3, <1>6 DEF Appends, Event, TrailFits
<1> QED
  BY <1>1, <1>4, <1>5, <1>6 DEF AuditMoves

\* The trail names every end once and accounts for every attempt.
THEOREM AuditTrailHolds == Spec => []AuditTrailIsTrue
<1>1. Init => AuditInv
  BY DEF Init, Event, AuditInv, AuditTrailIsTrue, AuditNamesTheOutcome,
         AuditAccountsForAttempts, RequestsAreAudited
<1>2. IndInv /\ AuditInv /\ [Next]_vars => AuditInv'
  BY NextAuditInv
<1>3. AuditInv => AuditTrailIsTrue
  BY DEF AuditInv
<1> QED
  BY <1>1, <1>2, <1>3, IndInvHolds, PTL DEF Spec

-----------------------------------------------------------------------------
(***************************************************************************)
(* Admission.                                                              *)
(***************************************************************************)

\* The steps other than an accepted submission.
OtherStep ==
  \/ \E j \in Job : Cancel(j) \/ LeaseExpires(j) \/ BackoffElapses(j)
  \/ \E w \in Worker : Claim(w) \/ CheckCancel(w) \/ Finish(w) \/ Crash(w) \/ Restart(w)
  \/ \E b \in beats : Heartbeat(b) \/ HeartbeatEnds(b)

\* None of them makes a job pending or changes what it was submitted for.
LEMMA OtherStepAdmits ==
  ASSUME RowInv, OtherStep \/ UNCHANGED vars
  PROVE  Pending' \subseteq Pending /\ UNCHANGED req
<1>1. UNCHANGED status => Pending' = Pending
  BY DEF Pending
<1>2. ASSUME NEW j \in Job, Cancel(j) PROVE Pending' \subseteq Pending /\ UNCHANGED req
  BY <1>2 DEF Cancel, Pending, RowInv, TypeOK
<1>3. ASSUME NEW w \in Worker, Claim(w)
      PROVE  Pending' \subseteq Pending /\ UNCHANGED req
  <2>1. Taken \subseteq Pending
    BY ClaimSets DEF RowInv, Pending
  <2> QED
    BY <1>3, <2>1 DEF Claim, Pending
<1>4. ASSUME NEW w \in Worker, Finish(w)
      PROVE  Pending' \subseteq Pending /\ UNCHANGED req
  <2> DEFINE j == task[w].job
  <2>1. j \in Job
    BY <1>4 DEF Finish, Complete, Fail, RowInv, TasksAreGranted
  <2>2. /\ UNCHANGED req
        /\ \/ UNCHANGED status
           \/ j \in Pending /\ \E s : status' = [status EXCEPT ![j] = s]
    BY <1>4, <2>1 DEF Finish, Complete, Fail, FinalizeCancelled, Holds, Pending, dbVars, rowVars
  <2> HIDE DEF j
  <2> QED
    BY <2>1, <2>2 DEF Pending, RowInv, TypeOK
<1> QED
  BY <1>1, <1>2, <1>3, <1>4
     DEF OtherStep, LeaseExpires, BackoffElapses, CheckCancel, Crash, Restart, Heartbeat,
         HeartbeatEnds, vars, dbVars, rowVars

\* Both halves of admission; the limit needs the pending set to be finite,
\* which it is because submissions come one at a time.
AdmissionInv ==
  /\ ActiveJobsDiffer
  /\ IsFiniteSet(Pending)
  /\ Cardinality(Pending) <= MaxPending

\* There is nothing pending at first.
LEMMA InitAdmissionInv == Init => AdmissionInv
<1> SUFFICES ASSUME Init PROVE AdmissionInv
  OBVIOUS
<1>1. Pending = {}
  BY DEF Init, Pending
<1>2. IsFiniteSet(Pending) /\ Cardinality(Pending) = 0
  BY <1>1, FS_EmptySet
<1> QED
  BY <1>1, <1>2, LimitAssumption DEF AdmissionInv, ActiveJobsDiffer, Pending

\* Jobs that leave the queue disturb neither.
LEMMA FewerPending ==
  ASSUME AdmissionInv, Pending' \subseteq Pending, UNCHANGED req
  PROVE  AdmissionInv'
<1>1. /\ IsFiniteSet(Pending')
      /\ Cardinality(Pending') <= Cardinality(Pending)
  BY FS_Subset DEF AdmissionInv
<1>2. Cardinality(Pending) \in Nat /\ Cardinality(Pending') \in Nat
  BY <1>1, FS_CardinalityType DEF AdmissionInv
<1>3. Cardinality(Pending') <= MaxPending
  BY <1>1, <1>2, LimitAssumption DEF AdmissionInv
<1>4. ActiveJobsDiffer'
  BY DEF AdmissionInv, ActiveJobsDiffer, Pending
<1> QED
  BY <1>1, <1>3, <1>4 DEF AdmissionInv

\* An accepted submission makes one more job pending.
LEMMA EnqueueAdds ==
  ASSUME RowInv, IsFiniteSet(Pending), NEW j \in Job, NEW r \in Request, Enqueue(r, j)
  PROVE  /\ Pending' = Pending \cup {j} /\ j \notin Pending
         /\ IsFiniteSet(Pending')
         /\ Cardinality(Pending) \in Nat
         /\ Cardinality(Pending') = Cardinality(Pending) + 1
<1>1. Pending' = Pending \cup {j} /\ j \notin Pending
  BY DEF Enqueue, Pending, RowInv, TypeOK
<1> QED
  BY <1>1, FS_AddElement, FS_CardinalityType

\* Enqueueing respects both, and nothing else adds a pending job.
LEMMA NextAdmissionInv == RowInv /\ AdmissionInv /\ [Next]_vars => AdmissionInv'
<1> SUFFICES ASSUME RowInv, AdmissionInv, [Next]_vars PROVE AdmissionInv'
  OBVIOUS
<1>1. ASSUME NEW j \in Job, NEW r \in Request, Enqueue(r, j) PROVE AdmissionInv'
  <2>1. /\ Pending' = Pending \cup {j} /\ j \notin Pending
        /\ IsFiniteSet(Pending')
        /\ Cardinality(Pending) \in Nat
        /\ Cardinality(Pending') = Cardinality(Pending) + 1
    BY <1>1, EnqueueAdds DEF AdmissionInv
  <2>2. Cardinality(Pending') <= MaxPending
    BY <1>1, <2>1, LimitAssumption DEF Enqueue, HasRoom
  <2>3. ActiveJobsDiffer'
    <3> SUFFICES ASSUME NEW i \in Pending', NEW k \in Pending', i # k
                 PROVE  req'[i] # req'[k]
      BY DEF ActiveJobsDiffer, Pending
    <3>1. /\ req'[j] = r
          /\ \A l \in Pending : req'[l] = req[l] /\ req[l] # r
      BY <1>1, <2>1 DEF Enqueue, Coalesces, Pending, RowInv, TypeOK
    <3>2. \A l, n \in Pending : l # n => req[l] # req[n]
      BY DEF AdmissionInv, ActiveJobsDiffer, Pending
    <3> QED
      BY <2>1, <3>1, <3>2
  <2> QED
    BY <2>1, <2>2, <2>3 DEF AdmissionInv
<1>2. CASE OtherStep \/ UNCHANGED vars
  BY <1>2, OtherStepAdmits, FewerPending
<1> QED
  BY <1>1, <1>2 DEF Next, OtherStep

\* Pending jobs serve different requests and never outnumber the limit.
THEOREM AdmissionIsKept == Spec => [](ActiveJobsDiffer /\ QueueIsBounded)
<1>1. Init => AdmissionInv
  BY InitAdmissionInv
<1>2. IndInv /\ AdmissionInv /\ [Next]_vars => AdmissionInv'
  BY NextAdmissionInv DEF IndInv
<1>3. AdmissionInv => ActiveJobsDiffer /\ QueueIsBounded
  BY DEF AdmissionInv, QueueIsBounded, Pending
<1> QED
  BY <1>1, <1>2, <1>3, IndInvHolds, PTL DEF Spec

-----------------------------------------------------------------------------
(***************************************************************************)
(* The queue at the limit of one job.                                      *)
(***************************************************************************)

\* The instance's names for what both instances share.
USE DEF Tight!Active, Tight!Leased, Tight!Terminal, Tight!Busy, Tight!NoTask, Tight!PlansOf

\* Audit events are appended in one way.
LEMMA TightAudit == \A E : Tight!Audited(E) <=> Audited(E)
BY DEF Tight!Audited, Audited, Tight!Event, Event

\* It accepts only a submission that meets no other pending job.
LEMMA TightEnqueue ==
  ASSUME NEW j \in Job, NEW r \in Request, Tight!Enqueue(r, j), IsFiniteSet(Pending)
  PROVE  Enqueue(r, j) /\ Cardinality(Pending) < 1
<1>1. Tight!Cardinality(Pending) = Cardinality(Pending)
  BY DEF Tight!Cardinality, Cardinality
<1>2. Cardinality(Pending) < 1
  BY <1>1 DEF Tight!Enqueue, Tight!HasRoom, Tight!Pending, Pending
<1>3. HasRoom
  BY <1>2, LimitAssumption, FS_CardinalityType DEF HasRoom
<1> QED
  BY <1>2, <1>3
     DEF Tight!Enqueue, Enqueue, Tight!Coalesces, Coalesces, Tight!Pending, Pending,
         Tight!Audited, Audited, Tight!Event, Event, Tight!procVars, procVars

\* Its claims are claims.
LEMMA TightClaim == ASSUME NEW w \in Worker, Tight!Claim(w) PROVE Claim(w)
<1>1. /\ Tight!Exhausted = Exhausted
      /\ Tight!ExpiredCancelled = ExpiredCancelled
      /\ Tight!Taken = Taken
  BY DEF Tight!Exhausted, Exhausted, Tight!ExpiredCancelled, ExpiredCancelled,
         Tight!Taken, Taken, Tight!Oldest, Oldest, Tight!Claimable, Claimable
<1>2. /\ \A j : Tight!NextToken(j) = NextToken(j)
      /\ \A S : Tight!Recovered(S) = Recovered(S)
  BY DEF Tight!NextToken, NextToken, Tight!Recovered, Recovered
<1> QED
  BY <1>1, <1>2, TightAudit DEF Tight!Claim, Claim, Tight!procVars, procVars

\* Its runs end as runs do.
LEMMA TightFinish == ASSUME NEW w \in Worker, Tight!Finish(w) PROVE Finish(w)
<1>1. \A j, t : Tight!Holds(w, j, t) <=> Holds(w, j, t)
  BY DEF Tight!Holds, Holds
<1>2. /\ \A j : Tight!CancelPending(j) <=> CancelPending(j)
      /\ \A j, x : Tight!WillRetry(j, x) <=> WillRetry(j, x)
  BY DEF Tight!CancelPending, CancelPending, Tight!WillRetry, WillRetry
<1>3. \A j : Tight!FinalizeCancelled(j) <=> FinalizeCancelled(j)
  BY TightAudit DEF Tight!FinalizeCancelled, FinalizeCancelled, Tight!DropLease, DropLease
<1>4. Tight!RunOnceEnds(w) <=> RunOnceEnds(w)
  BY DEF Tight!RunOnceEnds, RunOnceEnds
<1>5. Tight!Complete(w) => Complete(w)
  BY <1>1, <1>2, <1>3, <1>4, TightAudit
     DEF Tight!Complete, Complete, Tight!DropLease, DropLease,
         Tight!dbVars, dbVars, Tight!rowVars, rowVars
<1>6. ASSUME NEW x \in BOOLEAN, Tight!Fail(w, x) PROVE Fail(w, x)
  BY <1>1, <1>2, <1>3, <1>4, <1>6, TightAudit
     DEF Tight!Fail, Fail, Tight!DropLease, DropLease,
         Tight!dbVars, dbVars, Tight!rowVars, rowVars
<1> QED
  BY <1>5, <1>6 DEF Tight!Finish, Finish

\* Apart from that it makes the steps every queue makes.
LEMMA TightSteps ==
  ASSUME Tight!Next, IsFiniteSet(Pending)
  PROVE  \/ \E j \in Job, r \in Request : Enqueue(r, j) /\ Cardinality(Pending) < 1
         \/ OtherStep
<1> USE DEF Tight!procVars, procVars, Tight!dbVars, dbVars, Tight!rowVars, rowVars
<1>1. ASSUME NEW j \in Job, Tight!Cancel(j) \/ Tight!LeaseExpires(j) \/ Tight!BackoffElapses(j)
      PROVE  OtherStep
  BY <1>1, TightAudit
     DEF Tight!Cancel, Cancel, Tight!LeaseExpires, LeaseExpires,
         Tight!BackoffElapses, BackoffElapses, OtherStep
<1>2. ASSUME NEW w \in Worker,
             Tight!CheckCancel(w) \/ Tight!Crash(w) \/ Tight!Restart(w)
      PROVE  OtherStep
  BY <1>2 DEF Tight!CheckCancel, CheckCancel, Tight!Crash, Crash, Tight!Restart, Restart,
              OtherStep
<1>3. ASSUME NEW w \in Worker, Tight!Claim(w) \/ Tight!Finish(w) PROVE OtherStep
  BY <1>3, TightClaim, TightFinish DEF OtherStep
<1>4. ASSUME NEW b \in beats, Tight!Heartbeat(b) \/ Tight!HeartbeatEnds(b) PROVE OtherStep
  BY <1>4 DEF Tight!Heartbeat, Heartbeat, Tight!HeartbeatEnds, HeartbeatEnds,
              Tight!Holds, Holds, Tight!Current, Current, OtherStep
<1> QED
  BY <1>1, <1>2, <1>3, <1>4, TightEnqueue DEF Tight!Next

\* The rows are sound at either limit, and the smaller one is kept too.
MCAdmissionInv ==
  /\ RowInv
  /\ AdmissionInv
  /\ tight => Cardinality(Pending) <= 1

\* Every step of either queue preserves it.
LEMMA MCNextAdmissionInv == MCAdmissionInv /\ [MCNext]_<<vars, tight>> => MCAdmissionInv'
<1> SUFFICES ASSUME MCAdmissionInv, [MCNext]_<<vars, tight>> PROVE MCAdmissionInv'
  OBVIOUS
<1> USE DEF MCAdmissionInv
<1>1. Cardinality(Pending) \in Nat /\ IsFiniteSet(Pending)
  BY FS_CardinalityType DEF AdmissionInv
<1>2. ASSUME [Next]_vars PROVE RowInv' /\ AdmissionInv'
  BY <1>2, NextRowInv, NextAdmissionInv
<1>3. ASSUME NEW j \in Job, NEW r \in Request, Enqueue(r, j), Cardinality(Pending) < 1,
             UNCHANGED tight
      PROVE  MCAdmissionInv'
  <2>1. Cardinality(Pending') = Cardinality(Pending) + 1
    BY <1>1, <1>3, EnqueueAdds
  <2>2. RowInv' /\ AdmissionInv'
    BY <1>2, <1>3 DEF Next
  <2> QED
    BY <1>1, <1>3, <2>1, <2>2
<1>4. CASE (OtherStep \/ UNCHANGED vars) /\ UNCHANGED tight
  <2>1. RowInv' /\ AdmissionInv'
    BY <1>2, <1>4 DEF Next, OtherStep
  <2>2. Pending' \subseteq Pending
    BY <1>4, OtherStepAdmits
  <2>3. Cardinality(Pending') <= Cardinality(Pending) /\ Cardinality(Pending') \in Nat
    BY <1>1, <2>2, FS_Subset, FS_CardinalityType
  <2> QED
    BY <1>1, <1>4, <2>1, <2>3
<1>5. CASE Next /\ ~ tight /\ UNCHANGED tight
  BY <1>2, <1>5
<1>6. CASE Tight!Next /\ UNCHANGED tight
  BY <1>1, <1>3, <1>4, <1>6, TightSteps
<1> QED
  BY <1>4, <1>5, <1>6 DEF MCNext

\* Whether the queue has room for many jobs or for one: it coalesces, and it
\* never holds more unfinished jobs than its limit.
THEOREM AdmissionIsKeptAtBothLimits == MCSpec => []AdmissionHolds
<1>1. MCInit => MCAdmissionInv
  <2> SUFFICES ASSUME MCInit PROVE MCAdmissionInv
    OBVIOUS
  <2>1. Pending = {}
    BY DEF MCInit, Init, Pending
  <2> QED
    BY <2>1, InitIndInv, InitAdmissionInv, FS_EmptySet DEF MCInit, MCAdmissionInv, IndInv
<1>2. MCAdmissionInv /\ [MCNext]_<<vars, tight>> => MCAdmissionInv'
  BY MCNextAdmissionInv
<1>3. MCAdmissionInv => AdmissionHolds
  <2>1. Tight!Cardinality(Pending) = Cardinality(Pending)
    BY DEF Tight!Cardinality, Cardinality
  <2> QED
    BY <2>1 DEF MCAdmissionInv, AdmissionInv, AdmissionHolds, QueueIsBounded,
                Tight!QueueIsBounded, Pending
<1> QED
  BY <1>1, <1>2, <1>3, PTL DEF MCSpec
-----------------------------------------------------------------------------
(***************************************************************************)
(* READ COMMITTED.  All steps but the commit of a claim and an aborted     *)
(* complete_model_job are steps of the serial queue, whose lemmas are used *)
(* again.                                                                  *)
(***************************************************************************)

\* The deadlock detector rolls complete_model_job of v back, and fail_model_job
\* follows.
Aborts(v) ==
  /\ pc[v] = "executing"
  /\ pc' = [pc EXCEPT ![v] = "aborting"]
  /\ ReleaseLocks(v)
  /\ UNCHANGED <<dbVars, task, beats>>

\* A transaction does to the rows what one of ModelJobQueue does, unless it is
\* the commit of a claim; and no other one starts an attempt.
LEMMA PgSteps ==
  ASSUME [PgNext]_pgVars
  PROVE  \/ [Next]_vars /\ UNCHANGED attempts
         \/ \E w \in Worker : CommitClaim(w)
         \/ \E v \in Worker : Aborts(v)
<1>1. CASE UNCHANGED vars
  BY <1>1 DEF vars, dbVars, rowVars
<1>2. ASSUME NEW w \in Worker, PgClaim(w)
      PROVE  UNCHANGED vars \/ CommitClaim(w)
  BY <1>2 DEF PgClaim, SelectExhausted, UpdateRow, AppendAudit, SelectCancelled
<1>3. ASSUME NEW w \in Worker, Store(w) PROVE Next /\ UNCHANGED attempts
  BY <1>3 DEF Store, Next, Finish, Complete, Fail, FinalizeCancelled, dbVars, rowVars
<1>4. ASSUME NEW w \in Worker, Short(w) \/ PgCrash(w) PROVE Next /\ UNCHANGED attempts
  BY <1>4 DEF Short, PgCrash, Next, CheckCancel, Restart, Crash, dbVars, rowVars
<1>5. ASSUME NEW w \in Worker, NEW j \in Job, DeadlockVictim(w, j)
      PROVE  \/ \E v \in Worker : PgCrash(v) \/ Aborts(v)
             \/ UNCHANGED vars
  BY <1>5 DEF DeadlockVictim, Aborts
<1>6. ASSUME NEW j \in Job,
             \/ \E r \in Request : PgEnqueue(r, j)
             \/ LeaseExpires(j)
             \/ BackoffElapses(j)
      PROVE  Next /\ UNCHANGED attempts
  BY <1>6 DEF PgEnqueue, Next, Enqueue, LeaseExpires, BackoffElapses
<1>7. ASSUME NEW j \in Job, ApiLockRow(j) \/ ApiCancel(j)
      PROVE  UNCHANGED vars \/ (Next /\ UNCHANGED attempts)
  BY <1>7 DEF ApiLockRow, ApiCancel, Next, Cancel
<1>8. ASSUME NEW b \in beats, PgHeartbeat(b) PROVE Next /\ UNCHANGED attempts
  BY <1>8 DEF PgHeartbeat, Next, Heartbeat, HeartbeatEnds, dbVars, rowVars
<1>9. ASSUME NEW w \in Worker, LockRow(w) PROVE UNCHANGED vars
  BY <1>9 DEF LockRow
<1> QED
  BY <1>1, <1>2, <1>3, <1>4, <1>5, <1>6, <1>7, <1>8, <1>9 DEF PgNext, pgVars

-----------------------------------------------------------------------------
(***************************************************************************)
(* The locks.                                                              *)
(***************************************************************************)

\* The variables of the transactions that are open.
LockTypes ==
  /\ sweep \in [Worker -> Sweep]
  /\ rowLock \in [Job -> Worker \cup {NoWorker, Api}]
  /\ auditLock \in Worker \cup {NoWorker}

\* What PgIndInv says of them.
LockInv == LockTypes /\ SweepsAreIdle /\ LocksAreHeld /\ FailedAreExhausted

\* What LockInv says of worker v.
LocksOf(v) ==
  /\ IF sweep[v].step = "none" THEN sweep[v] = NoSweep ELSE pc[v] = "idle"
  /\ \A j \in Swept(v) : rowLock[j] = v
  /\ \A j \in Job : rowLock[j] = v =>
       \/ j \in Swept(v)
       \/ pc[v] \in {"executing", "aborting"} /\ task[v].job = j
  /\ sweep[v].todo \cap Swept(v) = {}
  /\ sweep[v].step = "exhausted" => sweep[v].cancelled = {}
  /\ Swept(v) # {} /\ ~ sweep[v].owes => auditLock = v
  /\ \A j \in sweep[v].failed \cup (IF sweep[v].step = "exhausted" THEN sweep[v].todo ELSE {}) :
       attempts[j] = MaxAttempts

\* LockInv speaks of each worker by itself.
LEMMA LocksByWorker ==
  /\ LockInv => LockTypes /\ \A v \in Worker : LocksOf(v)
  /\ LockTypes' /\ (\A v \in Worker : LocksOf(v)') => LockInv'
BY DEF LockInv, LocksOf, SweepsAreIdle, LocksAreHeld, FailedAreExhausted

\* Worker v goes on as it was, as far as its locks are concerned.
GoesOn(v) ==
  /\ sweep'[v] = sweep[v]
  /\ sweep[v] # NoSweep => pc'[v] = pc[v]
  /\ pc[v] \in {"executing", "aborting"} =>
       pc'[v] \in {"executing", "aborting"} /\ task'[v] = task[v]
  /\ \A j \in Job : rowLock'[j] = v <=> rowLock[j] = v
  /\ auditLock = v => auditLock' = v

\* Attempts that are used up stay so.
StaysExhausted == \A j \in Job : attempts[j] = MaxAttempts => attempts'[j] = MaxAttempts

\* Such a worker keeps its locks.
LEMMA GoesOnKeeps ==
  ASSUME LockTypes, NEW v \in Worker, LocksOf(v), GoesOn(v), StaysExhausted
  PROVE  LocksOf(v)'
<1>1. sweep[v] \in Sweep /\ sweep[v].todo \subseteq Job /\ Swept(v) \subseteq Job
      /\ sweep[v].failed \subseteq Job /\ NoSweep.step = "none"
  BY DEF LockTypes, Sweep, Swept, NoSweep
<1>2. Swept(v)' = Swept(v)
  BY DEF Swept, GoesOn
<1> QED
  BY <1>1, <1>2 DEF LocksOf, GoesOn, StaysExhausted

\* A transaction of v ends, and with it every lock v holds.
LEMMA ReleaseKeeps ==
  ASSUME LockInv, NEW w \in Worker, ReleaseLocks(w), StaysExhausted,
         \A v \in Worker \ {w} : pc'[v] = pc[v] /\ task'[v] = task[v]
  PROVE  LockInv'
<1>1. LockTypes /\ \A v \in Worker : LocksOf(v)
  BY LocksByWorker
<1>2. /\ sweep' = [sweep EXCEPT ![w] = NoSweep]
      /\ \A j \in Job : rowLock'[j] = IF rowLock[j] = w THEN NoWorker ELSE rowLock[j]
      /\ auditLock' = IF auditLock = w THEN NoWorker ELSE auditLock
      /\ w # NoWorker
  BY NullAssumption DEF ReleaseLocks, Unlocked
<1>3. LockTypes'
  <2>1. NoSweep \in Sweep
    BY DEF NoSweep, Sweep, Step
  <2> QED
    BY <1>1, <2>1 DEF LockTypes, ReleaseLocks, Unlocked
<1>4. ASSUME NEW v \in Worker PROVE LocksOf(v)'
  <2>1. CASE v = w
    <3>1. sweep'[v] = NoSweep
      BY <1>1, <1>2, <2>1 DEF LockTypes
    <3>2. Swept(v)' = {}
      BY <3>1 DEF Swept, NoSweep
    <3>3. \A j \in Job : rowLock'[j] # v
      BY <1>2, <2>1
    <3> QED
      BY <3>1, <3>2, <3>3 DEF LocksOf, NoSweep
  <2>2. CASE v # w
    <3>1. GoesOn(v)
      BY <1>1, <1>2, <2>2, NullAssumption DEF GoesOn, LockTypes
    <3> QED
      BY <1>1, <3>1, GoesOnKeeps
  <2> QED
    BY <2>1, <2>2
<1> QED
  BY <1>3, <1>4, LocksByWorker

\* A short transaction of w, or of the API, that finds the locks free.
LEMMA ShortKeeps ==
  ASSUME LockInv, UNCHANGED <<sweep, lockVars>>, UNCHANGED attempts,
         \A v \in Worker :
           \/ pc'[v] = pc[v] /\ task'[v] = task[v]
           \/ pc[v] \notin {"idle", "executing", "aborting"}
  PROVE  LockInv'
<1>1. LockTypes /\ \A v \in Worker : LocksOf(v)
  BY LocksByWorker
<1>2. LockTypes'
  BY <1>1 DEF LockTypes, lockVars
<1>3. ASSUME NEW v \in Worker PROVE LocksOf(v)'
  <2>1. sweep[v] # NoSweep => pc[v] = "idle"
    BY <1>1 DEF LocksOf, NoSweep
  <2>2. GoesOn(v)
    BY <2>1 DEF GoesOn, lockVars
  <2> QED
    BY <1>1, <2>2, GoesOnKeeps DEF StaysExhausted
<1> QED
  BY <1>2, <1>3, LocksByWorker

\* A statement of the claim of w: the rows others have locked stay locked.
LEMMA StatementKeeps ==
  ASSUME LockInv, NEW w \in Worker, UNCHANGED vars, LockTypes', LocksOf(w)',
         \A v \in Worker \ {w} : /\ sweep'[v] = sweep[v]
                                 /\ \A j \in Job : rowLock'[j] = v <=> rowLock[j] = v
                                 /\ auditLock = v => auditLock' = v
  PROVE  LockInv'
<1>1. ASSUME NEW v \in Worker \ {w} PROVE LocksOf(v)'
  <2>1. GoesOn(v) /\ StaysExhausted
    BY DEF GoesOn, StaysExhausted, vars, dbVars, rowVars, procVars
  <2> QED
    BY <2>1, GoesOnKeeps, LocksByWorker
<1> QED
  BY <1>1, LocksByWorker

\* The statements of claim_model_job before its last.
LEMMA SweepKeepsLocks ==
  ASSUME LockInv, TypeOK, NEW w \in Worker,
         \/ SelectExhausted(w)
         \/ \E j \in Job : UpdateRow(w, j)
         \/ AppendAudit(w)
         \/ SelectCancelled(w)
  PROVE  LockInv'
<1>0. LockTypes /\ LocksOf(w) /\ sweep[w] \in Sweep
  BY LocksByWorker DEF LockTypes
<1> USE NullAssumption DEF LockTypes, lockVars, Step
<1>1. CASE SelectExhausted(w)
  <2>1. /\ sweep' = [sweep EXCEPT ![w].step = "exhausted", ![w].todo = Exhausted]
        /\ pc[w] = "idle" /\ sweep[w] = NoSweep
        /\ UNCHANGED <<vars, rowLock, auditLock>>
    BY <1>1 DEF SelectExhausted
  <2>2. /\ sweep'[w].step = "exhausted" /\ sweep'[w].todo = Exhausted
        /\ sweep'[w].failed = {} /\ sweep'[w].cancelled = {} /\ sweep'[w].owes = FALSE
    BY <1>0, <2>1 DEF NoSweep, Sweep
  <2>3. ASSUME NEW j \in Exhausted PROVE j \in Job /\ attempts[j] = MaxAttempts
    <3>1. j \in Job /\ attempts[j] >= MaxAttempts
      BY DEF Exhausted
    <3>2. attempts[j] \in 0..MaxAttempts
      BY <3>1 DEF TypeOK
    <3> QED
      BY <3>1, <3>2, LimitAssumption
  <2>4. LockTypes'
    <3>1. Exhausted \in SUBSET Job
      BY <2>3
    <3> HIDE DEF LockTypes
    <3>2. sweep' \in [Worker -> Sweep]
      BY <1>0, <2>1, <3>1 DEF Sweep, LockTypes
    <3> QED
      BY <1>0, <2>1, <3>2 DEF LockTypes
  <2>5. Swept(w)' = {} /\ Swept(w) = {} /\ sweep'[w].todo \cap Swept(w)' = {}
    <3>1. NoSweep.failed = {} /\ NoSweep.cancelled = {}
      BY DEF NoSweep
    <3>2. Swept(w)' = {}
      BY <2>2 DEF Swept
    <3>3. Swept(w) = {}
      BY <2>1, <3>1 DEF Swept
    <3> QED
      BY <3>2, <3>3
  <2>6. UNCHANGED <<pc, task, attempts>>
    BY <2>1 DEF vars, dbVars, rowVars, procVars
  <2>7. \A j \in Job : rowLock'[j] # w
    <3>1. \A j \in Job : rowLock[j] # w
      BY <1>0, <2>1, <2>5 DEF LocksOf
    <3> QED
      BY <2>1, <3>1
  <2>8. LocksOf(w)'
    <3>1. \A j \in sweep'[w].failed \cup (IF sweep'[w].step = "exhausted"
                                            THEN sweep'[w].todo ELSE {}) :
            attempts'[j] = MaxAttempts
      BY <2>2, <2>3, <2>6
    <3> QED
      BY <2>1, <2>2, <2>5, <2>6, <2>7, <3>1 DEF LocksOf
  <2> QED
    BY <2>1, <2>4, <2>8, <1>0, StatementKeeps
<1>2. ASSUME NEW j \in Job, UpdateRow(w, j) PROVE LockInv'
  <2>1. /\ j \in sweep[w].todo /\ ~ sweep[w].owes /\ rowLock[j] = NoWorker
        /\ rowLock' = [rowLock EXCEPT ![j] = w]
        /\ UNCHANGED <<vars, auditLock>>
    BY <1>2 DEF UpdateRow, Free
  <2>2. sweep[w].step \in {"exhausted", "cancelled"} /\ pc[w] = "idle"
    BY <1>0, <2>1 DEF LocksOf, NoSweep, Sweep
  <2>3. /\ sweep'[w].step = sweep[w].step
        /\ sweep'[w].todo = sweep[w].todo \ {j}
        /\ sweep'[w].owes = TRUE
        /\ sweep'[w].failed = IF sweep[w].step = "exhausted"
                                THEN sweep[w].failed \cup {j} ELSE sweep[w].failed
        /\ sweep'[w].cancelled = IF sweep[w].step = "cancelled"
                                   THEN sweep[w].cancelled \cup {j} ELSE sweep[w].cancelled
        /\ sweep' \in [Worker -> Sweep]
        /\ \A v \in Worker \ {w} : sweep'[v] = sweep[v]
    BY ZenonT(60), <1>0, <1>2 DEF UpdateRow, Sweep
  <2>4. LockTypes'
    BY <1>0, <2>1, <2>3
  <2>5. Swept(w)' = Swept(w) \cup {j}
    BY <2>2, <2>3 DEF Swept
  <2>6. \A i \in Job : rowLock'[i] = IF i = j THEN w ELSE rowLock[i]
    BY <1>0, <2>1
  <2>7. LocksOf(w)'
    <3>1. Swept(w) \subseteq Job
      BY <1>0 DEF Swept, Sweep
    <3>2. /\ \A i \in Swept(w)' : rowLock'[i] = w
          /\ \A i \in Job : rowLock'[i] = w => \/ i \in Swept(w)'
                                               \/ /\ pc[w] \in {"executing", "aborting"}
                                                  /\ task[w].job = i
          /\ sweep'[w].todo \cap Swept(w)' = {}
      BY <1>0, <2>3, <2>5, <2>6, <3>1 DEF LocksOf
    <3>3. \A i \in sweep'[w].failed \cup (IF sweep'[w].step = "exhausted"
                                            THEN sweep'[w].todo ELSE {}) :
            attempts[i] = MaxAttempts
      BY <1>0, <2>1, <2>3 DEF LocksOf
    <3>4. sweep'[w].step = "exhausted" => sweep'[w].cancelled = {}
      BY <1>0, <2>3 DEF LocksOf
    <3> QED
      BY <2>1, <2>2, <2>3, <3>2, <3>3, <3>4
         DEF LocksOf, vars, dbVars, rowVars, procVars
  <2>8. \A v \in Worker \ {w}, i \in Job : rowLock'[i] = v <=> rowLock[i] = v
    BY <2>1, <2>6
  <2> QED
    BY <2>1, <2>3, <2>4, <2>7, <2>8, StatementKeeps
<1>3. CASE AppendAudit(w)
  <2>1. /\ sweep[w].owes /\ auditLock \in {NoWorker, w} /\ auditLock' = w
        /\ sweep' = [sweep EXCEPT ![w].owes = FALSE]
        /\ UNCHANGED <<vars, rowLock>>
    BY <1>3 DEF AppendAudit, AuditFree
  <2>2. sweep'[w] = [sweep[w] EXCEPT !.owes = FALSE]
    BY <1>0, <2>1
  <2>3. LockTypes'
    BY <1>0, <2>1 DEF Sweep
  <2>4. Swept(w)' = Swept(w)
    BY <1>0, <2>2 DEF Swept, Sweep
  <2>5. sweep[w].step # "none" /\ pc[w] = "idle"
    BY <1>0, <2>1 DEF LocksOf, NoSweep
  <2>6. LocksOf(w)'
    BY <1>0, <2>1, <2>2, <2>4, <2>5 DEF LocksOf, Sweep, vars, dbVars, rowVars, procVars
  <2> QED
    BY <1>0, <2>1, <2>3, <2>6, StatementKeeps
<1>4. CASE SelectCancelled(w)
  <2>1. /\ sweep[w].step = "exhausted" /\ sweep[w].todo = {} /\ ~ sweep[w].owes
        /\ sweep' = [sweep EXCEPT ![w].step = "cancelled",
                                  ![w].todo = ExpiredCancelled \ sweep[w].failed]
        /\ UNCHANGED <<vars, rowLock, auditLock>>
    BY <1>4 DEF SelectCancelled
  <2>2. /\ sweep'[w] = [sweep[w] EXCEPT !.step = "cancelled",
                                        !.todo = ExpiredCancelled \ sweep[w].failed]
        /\ sweep[w].cancelled = {} /\ pc[w] = "idle"
    BY <1>0, <2>1 DEF LocksOf
  <2>3. LockTypes'
    BY <1>0, <2>1 DEF Sweep, ExpiredCancelled
  <2>4. Swept(w)' = Swept(w) /\ Swept(w) = sweep[w].failed
    BY <1>0, <2>2 DEF Swept, Sweep
  <2>5. LocksOf(w)'
    BY <1>0, <2>1, <2>2, <2>4 DEF LocksOf, Sweep, vars, dbVars, rowVars, procVars
  <2> QED
    BY <1>0, <2>1, <2>3, <2>5, StatementKeeps
<1> QED
  BY <1>1, <1>2, <1>3, <1>4

\* A row is locked or unlocked, without a word to anybody else.
LEMMA RowLockKeeps ==
  ASSUME LockInv, NEW j \in Job, UNCHANGED <<sweep, auditLock, attempts>>,
         \A v \in Worker : pc'[v] = pc[v] /\ task'[v] = task[v],
         \/ /\ Free(j)
            /\ \/ rowLock' = [rowLock EXCEPT ![j] = Api]
               \/ \E w \in Worker : /\ pc[w] \in {"executing", "aborting"} /\ task[w].job = j
                                    /\ rowLock' = [rowLock EXCEPT ![j] = w]
         \/ rowLock[j] = Api /\ rowLock' = [rowLock EXCEPT ![j] = NoWorker]
  PROVE  LockInv'
<1>0. LockTypes /\ \A v \in Worker : LocksOf(v)
  BY LocksByWorker
<1> USE NullAssumption, ApiAssumption DEF Free
<1>1. LockTypes'
  BY <1>0 DEF LockTypes
<1>2. \A i \in Job \ {j} : rowLock'[i] = rowLock[i]
  BY <1>0 DEF LockTypes
<1>3. ASSUME NEW v \in Worker PROVE LocksOf(v)'
  <2>1. CASE rowLock'[j] = v /\ rowLock[j] # v
    <3>1. pc[v] \in {"executing", "aborting"} /\ task[v].job = j
      BY <1>0, <2>1 DEF LockTypes
    <3>2. Swept(v)' = Swept(v) /\ Swept(v) = {} /\ sweep[v] = NoSweep
      BY <1>0, <3>1 DEF LocksOf, Swept, NoSweep
    <3> QED
      BY <1>0, <1>2, <3>1, <3>2 DEF LocksOf, NoSweep
  <2>2. CASE ~(rowLock'[j] = v /\ rowLock[j] # v)
    <3>1. \A i \in Job : rowLock'[i] = v <=> rowLock[i] = v
      BY <1>0, <1>2, <2>2 DEF LockTypes
    <3>2. GoesOn(v) /\ StaysExhausted
      BY <3>1 DEF GoesOn, StaysExhausted
    <3> QED
      BY <1>0, <3>2, GoesOnKeeps
  <2> QED
    BY <2>1, <2>2
<1> QED
  BY <1>1, <1>3, LocksByWorker
-----------------------------------------------------------------------------
(***************************************************************************)
(* The commit of a claim.                                                  *)
(***************************************************************************)

\* The job it takes: at most one.
TakenFree == Oldest({j \in Claimable : Free(j)})

\* The job it takes is unfinished and none of those it settles.
LEMMA CommitSets ==
  ASSUME TypeOK, LockInv, NEW w \in Worker
  PROVE  /\ TakenFree \subseteq {j \in Job : /\ status[j] \in {"queued", "running"}
                                             /\ attempts[j] < MaxAttempts}
         /\ \A i, j \in TakenFree : i = j
         /\ Failing(w) \subseteq Swept(w)
         /\ Cancelling(w) \subseteq {j \in Swept(w) : status[j] \in Active}
         /\ Swept(w) \subseteq Job
         /\ TakenFree \cap Swept(w) = {}
<1>1. TakenFree \subseteq {j \in Job : /\ status[j] \in {"queued", "running"}
                                       /\ attempts[j] < MaxAttempts
                                       /\ rowLock[j] = NoWorker}
  BY DEF TakenFree, Oldest, Claimable, Free
<1>2. ASSUME NEW i \in TakenFree, NEW j \in TakenFree PROVE i = j
  <2>1. i <= j /\ j <= i
    BY DEF TakenFree, Oldest
  <2>2. i \in Nat /\ j \in Nat
    BY <1>1, JobAssumption
  <2> QED
    BY <2>1, <2>2
<1>3. Swept(w) \subseteq Job
  BY DEF LockInv, LockTypes, Sweep, Swept
<1>4. \A j \in Swept(w) : rowLock[j] = w
  BY DEF LockInv, LocksAreHeld
<1>5. TakenFree \cap Swept(w) = {}
  BY <1>1, <1>4, NullAssumption
<1> QED
  BY <1>1, <1>2, <1>3, <1>5 DEF Failing, Cancelling, Swept

\* What it does to one job: the exhausted jobs fail, whatever became of them;
\* a cancellation or an attempt takes an unfinished job on.
LEMMA CommitRow ==
  ASSUME TypeOK, LockInv, NEW w \in Worker, CommitClaim(w), NEW j \in Job
  PROVE  \/ /\ j \in Failing(w)
            /\ status'[j] = "failed" /\ owner'[j] = NoWorker /\ lease'[j] = "none"
            /\ attempts'[j] = attempts[j] /\ token'[j] = token[j]
         \/ /\ status[j] \in Active
            /\ status'[j] = "cancelled" /\ owner'[j] = NoWorker /\ lease'[j] = "none"
            /\ attempts'[j] = attempts[j] /\ token'[j] = token[j]
         \/ /\ status[j] \in {"queued", "running"} /\ attempts[j] < MaxAttempts
            /\ j \in TakenFree
            /\ status'[j] = "running" /\ owner'[j] = w /\ lease'[j] = "live"
            /\ attempts'[j] = attempts[j] + 1 /\ token'[j] = token[j] + 1
         \/ /\ status'[j] = status[j] /\ owner'[j] = owner[j] /\ lease'[j] = lease[j]
            /\ attempts'[j] = attempts[j] /\ token'[j] = token[j]
<1>0. /\ TakenFree \subseteq {i \in Job : /\ status[i] \in {"queued", "running"}
                                          /\ attempts[i] < MaxAttempts}
      /\ Failing(w) \subseteq Swept(w)
      /\ Cancelling(w) \subseteq {i \in Swept(w) : status[i] \in Active}
      /\ TakenFree \cap Swept(w) = {}
  BY CommitSets
<1>1. /\ status'[j] = IF j \in Failing(w) THEN "failed"
                      ELSE IF j \in Cancelling(w) THEN "cancelled"
                      ELSE IF j \in TakenFree THEN "running" ELSE status[j]
      /\ owner'[j] = IF j \in Failing(w) \cup Cancelling(w) THEN NoWorker
                     ELSE IF j \in TakenFree THEN w ELSE owner[j]
      /\ lease'[j] = IF j \in Failing(w) \cup Cancelling(w) THEN "none"
                     ELSE IF j \in TakenFree THEN "live" ELSE lease[j]
      /\ attempts'[j] = IF j \in TakenFree THEN attempts[j] + 1 ELSE attempts[j]
      /\ token'[j] = IF j \in TakenFree THEN token[j] + 1 ELSE token[j]
  BY DEF CommitClaim, TakenFree, NextToken
<1>2. CASE j \in Failing(w)
  BY <1>0, <1>1, <1>2
<1>3. CASE j \notin Failing(w) /\ j \in Cancelling(w)
  BY <1>0, <1>1, <1>3
<1>4. CASE j \notin Failing(w) \cup Cancelling(w)
  BY <1>0, <1>1, <1>4
<1> QED
  BY <1>2, <1>3, <1>4

\* What it does to the processes: at most w is given the job taken, under the
\* next token.
LEMMA CommitTasks ==
  ASSUME TypeOK, LockInv, NEW w \in Worker, CommitClaim(w)
  PROVE  \/ UNCHANGED procVars /\ UNCHANGED token
         \/ \E j \in TakenFree :
              /\ j \in Job /\ token'[j] = token[j] + 1
              /\ \A i \in Job \ {j} : token'[i] = token[i]
              /\ pc'    = [pc EXCEPT ![w] = "claimed"]
              /\ task'  = [task EXCEPT ![w] = [job |-> j, token |-> token[j] + 1]]
              /\ beats' = beats \cup {[worker |-> w, job |-> j, token |-> token[j] + 1]}
<1>1. token' = [j \in Job |-> IF j \in TakenFree THEN token[j] + 1 ELSE token[j]]
  BY DEF CommitClaim, TakenFree, NextToken
<1>2. CASE TakenFree = {}
  <2>1. UNCHANGED procVars
    BY <1>2 DEF CommitClaim, TakenFree
  <2> QED
    BY <1>1, <1>2, <2>1 DEF TypeOK
<1>3. CASE TakenFree # {}
  <2>1. PICK j \in TakenFree :
          /\ pc'    = [pc EXCEPT ![w] = "claimed"]
          /\ task'  = [task EXCEPT ![w] = [job |-> j, token |-> token[j] + 1]]
          /\ beats' = beats \cup {[worker |-> w, job |-> j, token |-> token[j] + 1]}
    BY <1>3 DEF CommitClaim, TakenFree, NextToken
  <2>2. j \in Job /\ \A i \in TakenFree : i = j
    BY CommitSets
  <2> QED
    BY <1>1, <2>1, <2>2
<1> QED
  BY <1>2, <1>3

\* The commit of a claim grants an attempt at most once.
LEMMA CommitTokens ==
  ASSUME RowInv, LockInv, NEW w \in Worker, CommitClaim(w)
  PROVE  TasksAreGranted' /\ TokensAreExclusive'
<1>0. TypeOK /\ TasksAreGranted /\ TokensAreExclusive
  BY DEF RowInv
<1>1. CASE UNCHANGED procVars /\ UNCHANGED token
  BY <1>0, <1>1 DEF procVars, TasksAreGranted, TokensAreExclusive
<1>2. ASSUME NEW j \in Job, token'[j] = token[j] + 1,
             \A i \in Job \ {j} : token'[i] = token[i],
             pc' = [pc EXCEPT ![w] = "claimed"],
             task' = [task EXCEPT ![w] = [job |-> j, token |-> token[j] + 1]]
      PROVE  TasksAreGranted' /\ TokensAreExclusive'
  <2>1. /\ token[j] \in Nat
        /\ task'[w] = [job |-> j, token |-> token[j] + 1]
        /\ \A v \in Worker \ {w} : pc'[v] = pc[v] /\ task'[v] = task[v]
    BY <1>0, <1>2 DEF TypeOK
  <2>2. ASSUME NEW v \in Worker \ {w}, pc[v] \in Busy
        PROVE  /\ task[v] \in Task /\ 0 < task[v].token
               /\ task[v].token <= token'[task[v].job]
               /\ task[v].job = j => task[v].token # token[j] + 1
    <3>1. task[v] \in Task /\ 0 < task[v].token /\ task[v].token <= token[task[v].job]
      BY <1>0, <2>2 DEF TasksAreGranted
    <3>2. task[v].job \in Job /\ task[v].token \in Nat /\ token[task[v].job] \in Nat
      BY <1>0, <3>1 DEF TypeOK
    <3> QED
      BY <1>2, <2>1, <3>1, <3>2
  <2>3. TasksAreGranted'
    <3>1. task'[w] \in Task /\ 0 < task'[w].token /\ task'[w].token <= token'[task'[w].job]
      BY <1>2, <2>1
    <3> QED
      BY <2>1, <2>2, <3>1 DEF TasksAreGranted
  <2>4. TokensAreExclusive'
    BY <1>0, <2>1, <2>2 DEF TokensAreExclusive
  <2> QED
    BY <2>3, <2>4
<1> QED
  BY <1>0, <1>1, <1>2, CommitTasks

\* The commit of a claim keeps the rows sound.
LEMMA CommitRowInv ==
  ASSUME RowInv, LockInv, NEW w \in Worker, CommitClaim(w)
  PROVE  RowInv'
<1>0. TypeOK /\ UnusedIdsAreFresh /\ NoJobIsStranded
  BY DEF RowInv
<1>1. TypeOK'
  <2>1. /\ status' = [j \in Job |-> status'[j]]
        /\ owner' = [j \in Job |-> owner'[j]]
        /\ lease' = [j \in Job |-> lease'[j]]
        /\ attempts' = [j \in Job |-> attempts'[j]]
        /\ token' = [j \in Job |-> token'[j]]
    BY DEF CommitClaim
  <2>2. ASSUME NEW j \in Job
        PROVE  /\ status'[j] \in {"absent"} \cup Active \cup Terminal
               /\ owner'[j] \in Worker \cup {NoWorker}
               /\ lease'[j] \in {"none", "live", "expired"}
               /\ attempts'[j] \in 0..MaxAttempts
               /\ token'[j] \in Nat
    <3>1. /\ status[j] \in {"absent"} \cup Active \cup Terminal
          /\ owner[j] \in Worker \cup {NoWorker}
          /\ lease[j] \in {"none", "live", "expired"}
          /\ attempts[j] \in 0..MaxAttempts
          /\ token[j] \in Nat
      BY <1>0 DEF TypeOK
    <3> QED
      BY <1>0, <3>1, CommitRow, LimitAssumption
  <2>3. audit' \in [Job -> [Event -> Nat]]
    BY <1>0, AuditedType DEF CommitClaim
  <2>4. /\ pc' \in [Worker -> Busy \cup {"idle", "down"}]
        /\ task' \in [Worker -> Task \cup {NoTask}]
        /\ beats' \subseteq Beat
    <3>1. CASE UNCHANGED procVars
      BY <1>0, <3>1 DEF TypeOK, procVars
    <3>2. ASSUME NEW j \in Job,
                 pc' = [pc EXCEPT ![w] = "claimed"],
                 task' = [task EXCEPT ![w] = [job |-> j, token |-> token[j] + 1]],
                 beats' = beats \cup {[worker |-> w, job |-> j, token |-> token[j] + 1]}
          PROVE  /\ pc' \in [Worker -> Busy \cup {"idle", "down"}]
                 /\ task' \in [Worker -> Task \cup {NoTask}]
                 /\ beats' \subseteq Beat
      <4>1. token[j] + 1 \in Nat
        BY <1>0 DEF TypeOK
      <4> QED
        BY <1>0, <3>2, <4>1 DEF TypeOK, Beat
    <3> QED
      BY <1>0, <3>1, <3>2, CommitTasks
  <2>5. UNCHANGED <<req, due, planId, plans>>
    BY DEF CommitClaim
  <2> QED
    BY <1>0, <2>1, <2>2, <2>3, <2>4, <2>5 DEF TypeOK
<1>2. UnusedIdsAreFresh' /\ NoJobIsStranded'
  <2> SUFFICES ASSUME NEW j \in Job
               PROVE  /\ status'[j] = "absent" => attempts'[j] = 0
                      /\ status'[j] = "queued" => attempts'[j] < MaxAttempts
                      /\ status'[j] \in Leased <=> owner'[j] # NoWorker
                      /\ status'[j] \in Leased <=> lease'[j] # "none"
    BY DEF UnusedIdsAreFresh, NoJobIsStranded
  <2> QED
    BY <1>0, CommitRow, NullAssumption DEF UnusedIdsAreFresh, NoJobIsStranded
<1> QED
  BY <1>1, <1>2, CommitTokens DEF RowInv
-----------------------------------------------------------------------------
(***************************************************************************)
(* The inductive invariant.                                                *)
(***************************************************************************)

\* What the plans and the ends of the jobs have to do with each other.
PlanInv == OnePlanPerJob /\ PlansEndJobs

\* PgIndInv, in three parts that are kept one after the other.
LEMMA PgIndInvParts == PgIndInv <=> RowInv /\ LockInv /\ PlanInv
BY DEF PgIndInv, PgTypeOK, LockInv, LockTypes, PlanInv, RowInv

\* A worker whose complete_model_job was rolled back works on.
LEMMA AbortsRowInv ==
  ASSUME RowInv, NEW v \in Worker, Aborts(v)
  PROVE  RowInv'
<1>1. TypeOK'
  BY DEF RowInv, Aborts, TypeOK, dbVars, rowVars
<1>2. TasksAreGranted' /\ TokensAreExclusive'
  <2>1. /\ token' = token /\ task' = task
        /\ \A u \in Worker : pc'[u] \in Busy => pc[u] \in Busy
    BY DEF RowInv, Aborts, TypeOK, dbVars, rowVars
  <2> QED
    BY <2>1 DEF RowInv, TasksAreGranted, TokensAreExclusive
<1>3. UnusedIdsAreFresh' /\ NoJobIsStranded'
  BY DEF RowInv, Aborts, UnusedIdsAreFresh, NoJobIsStranded, dbVars, rowVars
<1> QED
  BY <1>1, <1>2, <1>3 DEF RowInv

\* Every step keeps the rows sound.
LEMMA PgRowInv == RowInv /\ LockInv /\ [PgNext]_pgVars => RowInv'
BY PgSteps, NextRowInv, CommitRowInv, AbortsRowInv

\* Every step keeps the locks in order.
LEMMA PgLockInv == RowInv /\ LockInv /\ [PgNext]_pgVars => LockInv'
<1> SUFFICES ASSUME RowInv, LockInv, [PgNext]_pgVars PROVE LockInv'
  OBVIOUS
<1>0. TypeOK
  BY DEF RowInv
<1>1. CASE UNCHANGED pgVars
  BY <1>1, ShortKeeps DEF pgVars, vars, dbVars, rowVars, procVars
<1>2. ASSUME NEW w \in Worker, CommitClaim(w) PROVE LockInv'
  <2>1. ReleaseLocks(w)
    BY <1>2 DEF CommitClaim
  <2>2. StaysExhausted
    <3> SUFFICES ASSUME NEW j \in Job, attempts[j] = MaxAttempts
                 PROVE  attempts'[j] = MaxAttempts
      BY DEF StaysExhausted
    <3> QED
      BY <1>0, <1>2, CommitRow, LimitAssumption
  <2>3. \A v \in Worker \ {w} : pc'[v] = pc[v] /\ task'[v] = task[v]
    BY <1>0, <1>2, CommitTasks DEF TypeOK, procVars
  <2> QED
    BY <2>1, <2>2, <2>3, ReleaseKeeps
<1>3. ASSUME NEW w \in Worker, PgClaim(w) PROVE LockInv'
  BY <1>0, <1>2, <1>3, SweepKeepsLocks DEF PgClaim
<1>4. ASSUME NEW w \in Worker, LockRow(w) PROVE LockInv'
  <2>1. task[w].job \in Job
    BY <1>4 DEF LockRow, RowInv, TasksAreGranted
  <2>2. UNCHANGED <<pc, task, attempts, sweep, auditLock>>
    BY <1>4 DEF LockRow, vars, dbVars, rowVars, procVars
  <2> QED
    BY <1>4, <2>1, <2>2, RowLockKeeps DEF LockRow
<1>5. ASSUME NEW w \in Worker,
             \/ Store(w)
             \/ PgCrash(w)
             \/ Aborts(w)
      PROVE  LockInv'
  <2>1. ReleaseLocks(w) /\ UNCHANGED attempts
    BY <1>5 DEF Store, PgCrash, Aborts, Finish, Complete, Fail, FinalizeCancelled, Crash,
                dbVars, rowVars
  <2>2. \A v \in Worker \ {w} : pc'[v] = pc[v] /\ task'[v] = task[v]
    BY <1>0, <1>5 DEF Store, PgCrash, Aborts, Finish, Complete, Fail, RunOnceEnds, Crash, TypeOK
  <2> QED
    BY <2>1, <2>2, ReleaseKeeps DEF StaysExhausted
<1>6. ASSUME NEW w \in Worker, Short(w), UNCHANGED <<sweep, lockVars>> PROVE LockInv'
  <2>1. /\ UNCHANGED attempts
        /\ \A v \in Worker : \/ pc'[v] = pc[v] /\ task'[v] = task[v]
                             \/ pc[v] \notin {"idle", "executing", "aborting"}
    BY <1>0, <1>6 DEF Short, CheckCancel, Restart, TypeOK, dbVars, rowVars
  <2> QED
    BY <1>6, <2>1, ShortKeeps
<1>7. ASSUME NEW w \in Worker, NEW j \in Job, DeadlockVictim(w, j) PROVE LockInv'
  <2>1. CASE \E v \in Worker : PgCrash(v) \/ Aborts(v)
    BY <1>5, <2>1
  <2>2. CASE /\ rowLock[j] = Api
             /\ rowLock' = [rowLock EXCEPT ![j] = NoWorker]
             /\ UNCHANGED <<vars, sweep, auditLock>>
    BY <2>2, RowLockKeeps DEF vars, dbVars, rowVars, procVars
  <2> QED
    BY <1>7, <2>1, <2>2 DEF DeadlockVictim, Aborts
<1>8. ASSUME NEW j \in Job,
             \/ \E r \in Request : PgEnqueue(r, j)
             \/ LeaseExpires(j)
             \/ BackoffElapses(j),
             UNCHANGED <<sweep, lockVars>>
      PROVE  LockInv'
  BY <1>8, ShortKeeps DEF PgEnqueue, Enqueue, LeaseExpires, BackoffElapses, procVars
<1>9. ASSUME NEW j \in Job, ApiLockRow(j) \/ ApiCancel(j) PROVE LockInv'
  <2>1. UNCHANGED <<pc, task, attempts, sweep, auditLock>>
    BY <1>9 DEF ApiLockRow, ApiCancel, Cancel, vars, dbVars, rowVars, procVars
  <2> QED
    BY <1>9, <2>1, RowLockKeeps DEF ApiLockRow, ApiCancel
<1>10. ASSUME NEW b \in beats, PgHeartbeat(b), UNCHANGED <<sweep, lockVars>> PROVE LockInv'
  BY <1>10, ShortKeeps DEF PgHeartbeat, Heartbeat, HeartbeatEnds, dbVars, rowVars
<1> QED
  BY <1>1, <1>3, <1>4, <1>5, <1>6, <1>7, <1>8, <1>9, <1>10 DEF PgNext

\* Every step keeps at most one plan of each job, and a name for it.
LEMMA PgPlanInv == RowInv /\ LockInv /\ PlanInv /\ [PgNext]_pgVars => PlanInv'
<1> SUFFICES ASSUME RowInv, LockInv, PlanInv, [PgNext]_pgVars PROVE PlanInv'
  OBVIOUS
<1>1. CASE [Next]_vars
  <2>1. RunningHaveNoPlan
    BY DEF PlanInv, OnePlanPerJob, PlansEndJobs, RunningHaveNoPlan
  <2>2. \A j \in Job : JobMoves(j)
    BY <1>1, <2>1, StepMovesJobs
  <2> QED
    BY <2>2 DEF PlanInv, OnePlanPerJob, PlansEndJobs, JobMoves, PlainMoves
<1>2. ASSUME NEW w \in Worker, CommitClaim(w) PROVE PlanInv'
  <2>1. UNCHANGED <<plans, planId>>
    BY <1>2 DEF CommitClaim
  <2>2. \A j \in Job : \/ status'[j] = "failed" \/ status[j] \in Active
                       \/ status'[j] = status[j]
    BY <1>2, CommitRow DEF RowInv
  <2> QED
    BY <2>1, <2>2 DEF PlanInv, OnePlanPerJob, PlansEndJobs
<1>3. ASSUME NEW v \in Worker, Aborts(v) PROVE PlanInv'
  BY <1>3 DEF Aborts, PlanInv, OnePlanPerJob, PlansEndJobs, dbVars, rowVars
<1> QED
  BY <1>1, <1>2, <1>3, PgSteps

\* Every transaction, statement and rollback preserves the invariant.
LEMMA NextPgIndInv == PgIndInv /\ [PgNext]_pgVars => PgIndInv'
BY PgIndInvParts, PgRowInv, PgLockInv, PgPlanInv DEF PgIndInv, PgTypeOK, RowInv, LockInv,
   LockTypes, PlanInv

\* Nothing is open and nothing locked at first.
LEMMA InitPgIndInv == PgInit => PgIndInv
<1> SUFFICES ASSUME PgInit PROVE PgIndInv
  OBVIOUS
<1>1. RowInv
  BY InitIndInv DEF PgInit, IndInv
<1>2. LockInv
  BY NullAssumption, ApiAssumption
     DEF PgInit, LockInv, LockTypes, SweepsAreIdle, LocksAreHeld, FailedAreExhausted,
         NoSweep, Sweep, Step, Swept
<1>3. PlanInv
  BY DEF PgInit, Init, PlanInv, OnePlanPerJob, PlansEndJobs
<1> QED
  BY <1>1, <1>2, <1>3, PgIndInvParts

\* The inductive invariant holds at READ COMMITTED.
THEOREM PgIndInvHolds == PgSpec => []PgIndInv
<1>1. PgInit => PgIndInv
  BY InitPgIndInv
<1>2. PgIndInv /\ [PgNext]_pgVars => PgIndInv'
  BY NextPgIndInv
<1> QED
  BY <1>1, <1>2, PTL DEF PgSpec

\* Whatever claims, late results and cancellations overtake each other, no job
\* delivers a second plan version, and its row names the one it delivered.
THEOREM VersionsAreUnique == PgSpec => []OneVersionPerJob
<1>1. PgIndInv => OneVersionPerJob
  BY DEF PgIndInv, OneVersionPerJob
<1> QED
  BY <1>1, PgIndInvHolds, PTL

\* The queue's own promises survive READ COMMITTED: no two workers have one
\* token, and no unfinished job is out of everybody's reach.
THEOREM RowsStaySound == PgSpec => [](TokensAreExclusive /\ NoJobIsStranded)
<1>1. PgIndInv => TokensAreExclusive /\ NoJobIsStranded
  BY DEF PgIndInv, RowInv
<1> QED
  BY <1>1, PgIndInvHolds, PTL
-----------------------------------------------------------------------------
(***************************************************************************)
(* What the locks are good for, and what they are not.                     *)
(***************************************************************************)

\* The owner of the audit chain waits for a row in a cycle of two, which the
\* deadlock detector breaks, or for somebody who waits for nothing.
THEOREM WaitingEnds == PgSpec => []WaitsEnd
<1>1. ASSUME PgIndInv, NEW w \in Worker, NEW j \in Job, WaitsForRow(w, j),
             rowLock[j] # Api
      PROVE  Deadlocked(w, j) \/ \E v \in Worker : rowLock[j] = v /\ Storing(v)
  <2>1. LockTypes /\ \A v \in Worker : LocksOf(v)
    BY <1>1, PgIndInvParts, LocksByWorker
  <2>2. /\ auditLock = w /\ j \in sweep[w].todo
        /\ rowLock[j] # NoWorker
    BY <1>1 DEF WaitsForRow, Free
  <2>3. PICK v \in Worker : rowLock[j] = v
    BY <1>1, <2>1, <2>2 DEF LockTypes
  <2>4. pc[w] = "idle"
    BY <2>1, <2>2 DEF LocksOf, NoSweep
  <2>5. v # w
    BY <2>1, <2>2, <2>3, <2>4 DEF LocksOf
  <2>6. CASE j \in Swept(v)
    <3>1. sweep[v].owes
      BY <2>1, <2>2, <2>5, <2>6 DEF LocksOf
    <3> QED
      BY <1>1, <2>3, <3>1 DEF Deadlocked, HolderNeedsAudit
  <2>7. CASE pc[v] \in {"executing", "aborting"} /\ task[v].job = j
    BY <2>3, <2>7 DEF Storing
  <2> QED
    BY <2>1, <2>3, <2>6, <2>7 DEF LocksOf
<1>2. PgIndInv => WaitsEnd
  BY <1>1 DEF WaitsEnd
<1> QED
  BY <1>2, PgIndInvHolds, PTL

\* What one step does to a job that has ended: nothing, or a claim fails it
\* that counted its last attempt as lost before.
LEMMA OverwriteStep ==
  ASSUME PgIndInv, [PgNext]_pgVars, NEW j \in Job
  PROVE  OverwrittenAsFailed(j)
<1> SUFFICES ASSUME status[j] \in Terminal, status'[j] # status[j]
             PROVE  status'[j] = "failed" /\ attempts[j] = MaxAttempts
  BY DEF OverwrittenAsFailed
<1>0. RowInv /\ LockInv /\ PlanInv
  BY PgIndInvParts
<1>1. CASE [Next]_vars
  <2>1. RunningHaveNoPlan
    BY <1>0 DEF PlanInv, OnePlanPerJob, PlansEndJobs, RunningHaveNoPlan
  <2>2. JobMoves(j)
    BY <1>0, <1>1, <2>1, StepMovesJobs
  <2> QED
    BY <2>2 DEF JobMoves, PlainMoves
<1>2. ASSUME NEW w \in Worker, CommitClaim(w)
      PROVE  status'[j] = "failed" /\ attempts[j] = MaxAttempts
  <2>1. j \in Failing(w) /\ status'[j] = "failed"
    BY <1>0, <1>2, CommitRow DEF RowInv
  <2> QED
    BY <1>0, <2>1 DEF Failing, LockInv, FailedAreExhausted
<1>3. ASSUME NEW v \in Worker, Aborts(v) PROVE FALSE
  BY <1>3 DEF Aborts, dbVars, rowVars
<1> QED
  BY <1>1, <1>2, <1>3, PgSteps

\* A finished job is overwritten only by the loss of its last attempt, as
\* failed.
THEOREM OverwritesBounded == PgSpec => [][\A j \in Job : OverwrittenAsFailed(j)]_pgVars
<1>1. PgIndInv /\ [PgNext]_pgVars => [\A j \in Job : OverwrittenAsFailed(j)]_pgVars
  BY OverwriteStep
<1> QED
  BY <1>1, PgIndInvHolds, PTL DEF PgSpec

\* The same of the instance TLC checks.
THEOREM MCOverwritesBounded == MCPgSpec => OverwritesAreBounded
<1> DEFINE Inv == contested => PgIndInv
           Mine == contested => \A j \in Job : OverwrittenAsFailed(j)
<1>1. MCPgInit => Inv
  BY InitPgIndInv DEF MCPgInit
<1>2. Inv /\ [MCPgNext]_<<pgVars, contested>> => Inv'
  <2> SUFFICES ASSUME Inv, [MCPgNext]_<<pgVars, contested>>, contested' PROVE PgIndInv'
    OBVIOUS
  <2>1. contested /\ [PgNext]_pgVars
    BY DEF MCPgNext
  <2> QED
    BY <2>1, NextPgIndInv
<1>3. Inv /\ [MCPgNext]_<<pgVars, contested>> => [Mine]_<<pgVars, contested>>
  <2> SUFFICES ASSUME Inv, MCPgNext, contested
               PROVE  \A j \in Job : OverwrittenAsFailed(j)
    OBVIOUS
  <2>1. PgNext
    BY DEF MCPgNext
  <2> QED
    BY <2>1, OverwriteStep
<1> HIDE DEF Inv
<1> QED
  BY <1>1, <1>2, <1>3, PTL DEF MCPgSpec, OverwritesAreBounded

\* The fencing token keeps late results out at READ COMMITTED as well.
THEOREM StaleWorkersAreFencedAgain == PgSpec => StaleWorkerChangesNothing
<1>1. ASSUME PgIndInv, [PgNext]_pgVars, NEW w \in Worker
      PROVE  StaleRunIsHarmless(w)
  <2>0. RowInv /\ LockInv
    BY <1>1, PgIndInvParts
  <2>1. CASE [Next]_vars
    BY <2>0, <2>1, StaleRunStep
  <2>2. ASSUME NEW v \in Worker, CommitClaim(v), pc[w] \in {"aborting", "executing"}
        PROVE  pc'[w] # "idle"
    BY <2>0, <2>2, CommitTasks DEF RowInv, TypeOK, procVars
  <2>3. ASSUME NEW v \in Worker, Aborts(v), pc[w] \in {"aborting", "executing"}
        PROVE  pc'[w] # "idle"
    BY <2>0, <2>3 DEF Aborts, RowInv, TypeOK
  <2> QED
    BY <1>1, <2>1, <2>2, <2>3, PgSteps DEF StaleRunIsHarmless
<1>2. PgIndInv /\ [PgNext]_pgVars => [\A w \in Worker : StaleRunIsHarmless(w)]_vars
  BY <1>1
<1> QED
  BY <1>2, PgIndInvHolds, PTL DEF PgSpec, StaleWorkerChangesNothing

\* Submissions take turns by an advisory lock of their own, so admission is what
\* it was: pending jobs differ and never outnumber the limit.
THEOREM AdmissionIsKeptAgain == PgSpec => [](ActiveJobsDiffer /\ QueueIsBounded)
<1>1. PgInit => AdmissionInv
  BY InitAdmissionInv DEF PgInit
<1>2. PgIndInv /\ AdmissionInv /\ [PgNext]_pgVars => AdmissionInv'
  <2> SUFFICES ASSUME PgIndInv, AdmissionInv, [PgNext]_pgVars PROVE AdmissionInv'
    OBVIOUS
  <2>0. RowInv /\ LockInv
    BY PgIndInvParts
  <2>1. CASE [Next]_vars
    BY <2>0, <2>1, NextAdmissionInv
  <2>2. ASSUME NEW w \in Worker, CommitClaim(w)
        PROVE  Pending' \subseteq Pending /\ UNCHANGED req
    BY <2>0, <2>2, CommitRow DEF RowInv, CommitClaim, Pending
  <2>3. ASSUME NEW v \in Worker, Aborts(v)
        PROVE  Pending' \subseteq Pending /\ UNCHANGED req
    BY <2>3 DEF Aborts, Pending, dbVars, rowVars
  <2> QED
    BY <2>1, <2>2, <2>3, PgSteps, FewerPending
<1>3. AdmissionInv => ActiveJobsDiffer /\ QueueIsBounded
  BY DEF AdmissionInv, QueueIsBounded, Pending
<1> QED
  BY <1>1, <1>2, <1>3, PgIndInvHolds, PTL DEF PgSpec

=============================================================================
