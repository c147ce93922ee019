---------------------------- MODULE JobLifecycle ----------------------------
(***************************************************************************)
(* What the job queue promises the person who submitted a job, with no     *)
(* worker, lease, token or retry in sight: a job is open until it ends     *)
(* once, a requested cancellation is kept, and a job delivers one plan     *)
(* version if and only if it succeeds.                                     *)
(***************************************************************************)
CONSTANT Job

VARIABLES
  phase,      \* where each job is
  versions    \* the plan versions each job has delivered

vars == <<phase, versions>>

Open == {"open", "cancelling"}
Ended == {"succeeded", "failed", "cancelled"}
Phase == {"absent"} \cup Open \cup Ended

\* Being submitted, asked to stop, and ending.
Moves ==
  {<<"absent", "open">>, <<"open", "cancelling">>, <<"cancelling", "cancelled">>}
    \cup {"open"} \X Ended

Init ==
  /\ phase    = [j \in Job |-> "absent"]
  /\ versions = [j \in Job |-> {}]

\* What a step may do to one job.
Keeps(j) == phase'[j] = phase[j] /\ versions'[j] = versions[j]

Advances(j) ==
  /\ <<phase[j], phase'[j]>> \in Moves
  /\ IF phase'[j] = "succeeded"
       THEN \E v \in versions'[j] : versions'[j] = {v}
       ELSE versions'[j] = versions[j]

\* One transaction may settle several jobs.
Next == \A j \in Job : Keeps(j) \/ Advances(j)

Safety == Init /\ [][Next]_vars

\* An open job ends.
Ends == \A j \in Job : phase[j] \in Open ~> phase[j] \in Ended

Spec == Safety /\ Ends

=============================================================================
