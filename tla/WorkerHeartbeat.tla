-------------------------- MODULE WorkerHeartbeat --------------------------
(***************************************************************************)
(* The two threads of a model-job worker, run_once and _maintain_lease of  *)
(* backend/model_job_worker.py, and what /ready of backend/main.py makes   *)
(* of their heartbeats.                                                    *)
(*                                                                         *)
(* The main thread beats, claims a job and is then busy with a model call; *)
(* meanwhile the heartbeat thread beats and renews the lease of the job.   *)
(* All instances of the service write one row of service_heartbeats.       *)
(*                                                                         *)
(* Time is in seconds and passes for everybody at once.  Whoever is due    *)
(* acts before it passes: threads and database are prompt, except that the *)
(* heartbeat's calls may hang or fail where DbFails says so.  Workers die  *)
(* and are started again at any time.                                      *)
(***************************************************************************)
EXTENDS Integers, FiniteSets

CONSTANTS
  Worker,      \* instances of the worker
  Lease,       \* MODEL_JOB_LEASE_SECONDS
  BeatCap,     \* the 15 of _maintain_lease
  LoopSleep,   \* time.sleep(2) of main
  MaxCall,     \* the longest _execute
  Staleness,   \* MODEL_JOB_WORKER_MAX_STALENESS_SECONDS
  DbFails,     \* whether the heartbeats' database calls may be slow or fail
  Nobody       \* no instance has beaten yet

ASSUME TimesAssumption ==
  /\ {Lease, BeatCap, LoopSleep, MaxCall, Staleness} \subseteq Nat \ {0}
  /\ DbFails \in BOOLEAN
  /\ Nobody \notin Worker

VARIABLES
  at,          \* the main thread: down, loop, asleep, calling
  wait,        \* seconds until it wakes up, or the call returns
  beater,      \* the heartbeat thread: off, on, dead of an exception
  beatIn,      \* seconds until its next beat
  lease,       \* seconds left of the lease of the worker's job
  owner,       \* whether the worker still owns the job it claimed
  seen,        \* the row of service_heartbeats: instance and age in seconds
  downFor      \* how long each worker has been down

vars == <<at, wait, beater, beatIn, lease, owner, seen, downFor>>

AtMost(x, y) == IF x < y THEN x ELSE y
AtLeast(x, y) == IF x > y THEN x ELSE y

\* Fault: a beat when the lease is over.
IntervalOfLease == Lease

\* max(1.0, min(15.0, lease_seconds / 3)), in whole seconds.
Interval == AtLeast(1, AtMost(BeatCap, Lease \div 3))

Init ==
  /\ at      = [w \in Worker |-> "down"]
  /\ wait    = [w \in Worker |-> 0]
  /\ beater  = [w \in Worker |-> "off"]
  /\ beatIn  = [w \in Worker |-> 0]
  /\ lease   = [w \in Worker |-> 0]
  /\ owner   = [w \in Worker |-> FALSE]
  /\ seen    = [by |-> Nobody, age |-> Staleness + 1]
  /\ downFor = [w \in Worker |-> 0]

\* record_service_heartbeat: an upsert on the name of the service.
RecordHeartbeat(w) == seen' = [by |-> w, age |-> 0]

\* service_is_healthy, and with it model_job_worker of /ready.
Healthy == seen.by # Nobody /\ seen.age <= Staleness

-----------------------------------------------------------------------------
(***************************************************************************)
(* The main thread.                                                        *)
(***************************************************************************)

Start(w) ==
  /\ at[w] = "down"
  /\ at' = [at EXCEPT ![w] = "loop"]
  /\ downFor' = [downFor EXCEPT ![w] = 0]
  /\ UNCHANGED <<wait, beater, beatIn, lease, owner, seen>>

\* The job of another worker whose lease has run out.
Recoverable(v) == owner[v] /\ lease[v] = 0

\* Fault: run_once beats only when it has a job.
BeatsWithJob(w, claimed) == IF claimed THEN RecordHeartbeat(w) ELSE UNCHANGED seen

BeatsFirst(w, claimed) == RecordHeartbeat(w)

\* run_once finds no job and main sleeps.
FindNothing(w) ==
  /\ at[w] = "loop"
  /\ BeatsFirst(w, FALSE)
  /\ at'   = [at EXCEPT ![w] = "asleep"]
  /\ wait' = [wait EXCEPT ![w] = LoopSleep]
  /\ UNCHANGED <<beater, beatIn, lease, owner, downFor>>

\* run_once claims a queued job, or one whose lease has run out, starts the
\* heartbeat thread and goes on to _execute.
ClaimJob(w) ==
  /\ at[w] = "loop"
  /\ BeatsFirst(w, TRUE)
  /\ \/ owner' = [owner EXCEPT ![w] = TRUE]
     \/ \E v \in Worker \ {w} :
          /\ Recoverable(v)
          /\ owner' = [owner EXCEPT ![v] = FALSE, ![w] = TRUE]
  /\ \E n \in 1..MaxCall : wait' = [wait EXCEPT ![w] = n]
  /\ at'     = [at EXCEPT ![w] = "calling"]
  /\ lease'  = [lease EXCEPT ![w] = Lease]
  /\ beater' = [beater EXCEPT ![w] = "on"]
  /\ beatIn' = [beatIn EXCEPT ![w] = Interval]
  /\ UNCHANGED downFor

WakeUp(w) ==
  /\ at[w] = "asleep" /\ wait[w] = 0
  /\ at' = [at EXCEPT ![w] = "loop"]
  /\ UNCHANGED <<wait, beater, beatIn, lease, owner, seen, downFor>>

\* The call returns; the job is completed, failed or, when another worker
\* has taken it, left alone; the heartbeat thread is stopped.
CallReturns(w) ==
  /\ at[w] = "calling" /\ wait[w] = 0
  /\ at'     = [at EXCEPT ![w] = "loop"]
  /\ beater' = [beater EXCEPT ![w] = "off"]
  /\ beatIn' = [beatIn EXCEPT ![w] = 0]
  /\ owner'  = [owner EXCEPT ![w] = FALSE]
  /\ lease'  = [lease EXCEPT ![w] = 0]
  /\ UNCHANGED <<wait, seen, downFor>>

\* The process dies, is stopped, or main ends with the exception of a failed
\* heartbeat or claim, which no try covers.  Its job keeps its lease.
Die(w) ==
  /\ at[w] # "down"
  /\ at'     = [at EXCEPT ![w] = "down"]
  /\ wait'   = [wait EXCEPT ![w] = 0]
  /\ beater' = [beater EXCEPT ![w] = "off"]
  /\ beatIn' = [beatIn EXCEPT ![w] = 0]
  /\ UNCHANGED <<lease, owner, seen, downFor>>

-----------------------------------------------------------------------------
(***************************************************************************)
(* The heartbeat thread, and time.                                         *)
(***************************************************************************)

\* One round of _maintain_lease: the service's heartbeat, then the job's,
\* which ends the thread when the job is no longer this worker's.
Beat(w) ==
  /\ beater[w] = "on" /\ beatIn[w] = 0
  /\ RecordHeartbeat(w)
  /\ IF owner[w]
       THEN /\ lease'  = [lease EXCEPT ![w] = Lease]
            /\ beatIn' = [beatIn EXCEPT ![w] = Interval]
            /\ UNCHANGED beater
       ELSE /\ beater' = [beater EXCEPT ![w] = "off"]
            /\ UNCHANGED <<lease, beatIn>>
  /\ UNCHANGED <<at, wait, owner, downFor>>

\* Either database call raises: the thread ends and nobody notices.
BeatFails(w) ==
  /\ DbFails
  /\ beater[w] = "on" /\ beatIn[w] = 0
  /\ beater' = [beater EXCEPT ![w] = "dead"]
  /\ UNCHANGED <<at, wait, beatIn, lease, owner, seen, downFor>>

Due(w) ==
  \/ at[w] = "loop"
  \/ at[w] \in {"asleep", "calling"} /\ wait[w] = 0
  \/ beater[w] = "on" /\ beatIn[w] = 0 /\ ~ DbFails

Down(n) == AtLeast(n - 1, 0)

Tick ==
  /\ \A w \in Worker : ~ Due(w)
  /\ wait'   = [w \in Worker |-> Down(wait[w])]
  /\ beatIn' = [w \in Worker |-> Down(beatIn[w])]
  /\ lease'  = [w \in Worker |-> Down(lease[w])]
  /\ seen'   = [seen EXCEPT !.age = AtMost(@ + 1, Staleness + 1)]
  /\ downFor' = [w \in Worker |-> IF at[w] = "down" THEN AtMost(downFor[w] + 1, Staleness + 1) ELSE 0]
  /\ UNCHANGED <<at, beater, owner>>

Next ==
  \/ \E w \in Worker :
       \/ Start(w) \/ FindNothing(w) \/ ClaimJob(w) \/ WakeUp(w) \/ CallReturns(w) \/ Die(w)
       \/ Beat(w) \/ BeatFails(w)
  \/ Tick

Spec == Init /\ [][Next]_vars

-----------------------------------------------------------------------------
(***************************************************************************)
(* What must hold.                                                         *)
(***************************************************************************)

TypeOK ==
  /\ at      \in [Worker -> {"down", "loop", "asleep", "calling"}]
  /\ wait    \in [Worker -> 0..AtLeast(MaxCall, LoopSleep)]
  /\ beater  \in [Worker -> {"off", "on", "dead"}]
  /\ beatIn  \in [Worker -> 0..BeatCap]
  /\ lease   \in [Worker -> 0..Lease]
  /\ owner   \in [Worker -> BOOLEAN]
  /\ seen    \in [by : Worker \cup {Nobody}, age : 0..(Staleness + 1)]
  /\ downFor \in [Worker -> 0..(Staleness + 1)]

\* "The lease is renewed during execution": while a worker is at a call,
\* however long, its job is its own and cannot be claimed by another, so no
\* model call is made twice at a time.
LeaseIsRenewed ==
  \A w \in Worker : at[w] = "calling" => owner[w] /\ lease[w] > 0

\* /ready complains of the worker only when none is up but those that start
\* this instant, or whose heartbeat is late or gone in the middle of a call.
NoFalseAlarm ==
  ~ Healthy => \A w \in Worker :
                 \/ at[w] \in {"down", "loop"}
                 \/ at[w] = "calling" /\ (beater[w] # "on" \/ beatIn[w] = 0)

\* /ready notices when the last worker has been gone longer than the
\* staleness it allows.
DeathIsNoticed ==
  (\A w \in Worker : downFor[w] > Staleness) => ~ Healthy

=============================================================================
