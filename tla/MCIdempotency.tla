--------------------------- MODULE MCIdempotency ---------------------------
(***************************************************************************)
(* Instances of Idempotency for TLC: handlers of any duration, or handlers *)
(* that end before their lock does.                                        *)
(***************************************************************************)
EXTENDS Idempotency, TLC

VARIABLE prompt   \* whether every handler ends before its lock

MCInit == Init /\ prompt \in BOOLEAN

MCNext ==
  /\ \/ prompt /\ PromptNext
     \/ ~prompt /\ Next
  /\ UNCHANGED prompt

MCSpec == MCInit /\ [][MCNext]_<<vars, prompt>>

\* As long as no handler outlives the lock of its claim, no key's operation
\* runs twice side by side, whatever retries and releases come in between,
\* and nobody takes its record away before its answer is stored there.
PromptCallersAreAlone == prompt => OneExecutionAtATime /\ ClaimsStand

Symmetry == Permutations(Caller) \cup Permutations(Key) \cup Permutations(Hash)
=============================================================================
