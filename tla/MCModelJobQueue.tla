-------------------------- MODULE MCModelJobQueue --------------------------
(***************************************************************************)
(* Instances of ModelJobQueue for TLC.  Job ids are the numbers 1..n.  The *)
(* queue is run at two limits: one that leaves room for every job, and one *)
(* that a single job exhausts.                                             *)
(***************************************************************************)
EXTENDS ModelJobQueue, TLC

VARIABLE tight   \* whether the queue has room for a single job

Tight == INSTANCE ModelJobQueue WITH MaxPending <- 1

MCInit == Init /\ tight \in BOOLEAN

MCNext ==
  /\ \/ ~tight /\ Next
     \/ tight /\ Tight!Next
  /\ UNCHANGED tight

MCSpec == MCInit /\ [][MCNext]_<<vars, tight>>

\* Jobs that are not finished, whichever of their states enqueue_model_job
\* meets them in, count against the queue limit, and no two of them are for
\* the same request.
AdmissionHolds == ActiveJobsDiffer /\ (IF tight THEN Tight!QueueIsBounded ELSE QueueIsBounded)

\* Neither workers nor requests are told apart by anything but equality.
Symmetry == Permutations(Worker) \cup Permutations(Request)
=============================================================================
