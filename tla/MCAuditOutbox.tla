--------------------------- MODULE MCAuditOutbox ---------------------------
(***************************************************************************)
(* Instances of AuditOutbox for TLC: dispatchers of any speed that take    *)
(* two events at a time, or dispatchers that take one and work it off      *)
(* before its lock expires.                                                *)
(***************************************************************************)
EXTENDS AuditOutbox, TLC

VARIABLE prompt   \* whether every batch is worked off in time

Slow == INSTANCE AuditOutbox WITH Batch <- 2

MCInit == Init /\ prompt \in BOOLEAN

MCNext ==
  /\ \/ prompt /\ PromptNext
     \/ ~prompt /\ Slow!Next
  /\ UNCHANGED prompt

MCSpec == MCInit /\ [][MCNext]_<<vars, prompt>> /\ Fairness

\* verify_audit_chain never fails, and the chain and the outbox tell of the
\* same events: "audit and outbox are committed together".
ChainAndOutboxAgree == ChainIsUnbroken /\ RowsMatchEvents

\* As long as batches are worked off in time, no two dispatchers deliver the
\* same event side by side.
PromptDelivererIsAlone == prompt => OneDelivererAtATime

\* The sink is offered committed events only, and by prompt dispatchers every
\* one of them.
KeepsThePromise ==
  /\ Promise!Safety
  /\ \A e \in Event : prompt /\ e \in Promise!Recorded ~> e \in accepted
=============================================================================
