--------------------------- MODULE AuditDelivery ---------------------------
(***************************************************************************)
(* What the audit trail promises an external sink: events are recorded in  *)
(* an append-only order, the sink gets recorded events only, and it gets   *)
(* every one of them.  Nothing is said of the order, nor of how often.     *)
(***************************************************************************)
EXTENDS Naturals, Sequences

CONSTANTS
  Event        \* audit events

VARIABLES
  recorded,    \* the committed events in the order of the chain
  accepted     \* the events the sink has accepted

vars == <<recorded, accepted>>

Recorded == {recorded[i] : i \in DOMAIN recorded}

Init == recorded = <<>> /\ accepted = {}

\* A business transaction commits, with one event or more.
Record ==
  /\ Len(recorded') > Len(recorded)
  /\ SubSeq(recorded', 1, Len(recorded)) = recorded
  /\ UNCHANGED accepted

Accept(e) ==
  /\ e \in Recorded
  /\ accepted' = accepted \cup {e}
  /\ UNCHANGED recorded

Next == Record \/ \E e \in Event : Accept(e)

Safety == Init /\ [][Next]_vars

Delivered == \A e \in Event : e \in Recorded ~> e \in accepted

Spec == Safety /\ Delivered
=============================================================================
