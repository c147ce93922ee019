------------------------- MODULE MCModelJobQueuePg -------------------------
(***************************************************************************)
(* Instances of ModelJobQueuePg for TLC: one job that workers claim in     *)
(* turn, or several jobs on their only attempt, so that a claim has        *)
(* several rows to settle and transactions can wait in a cycle.            *)
(***************************************************************************)
EXTENDS ModelJobQueuePg, TLC

CONSTANT ContestedJob   \* the job of the first instance

VARIABLE contested      \* which of the two it is

Brief == INSTANCE ModelJobQueuePg WITH MaxAttempts <- 1

MCPgInit == PgInit /\ contested \in BOOLEAN

MCPgNext ==
  /\ \/ contested /\ PgNext /\ \A j \in Job \ {ContestedJob} : status'[j] = "absent"
     \/ ~contested /\ Brief!PgNext
  /\ UNCHANGED contested

MCPgSpec == MCPgInit /\ [][MCPgNext]_<<pgVars, contested>>

\* The damage the unlocked read of claim_model_job can do is bounded: a
\* finished job that changes was on its last attempt and ends as failed.
OverwritesAreBounded ==
  [][contested => \A j \in Job : OverwrittenAsFailed(j)]_<<pgVars, contested>>

PgSymmetry == Permutations(Worker) \cup Permutations(Request)
=============================================================================
