---------------------------- MODULE PlanMigration ----------------------------
(***************************************************************************)
(* The import of a legacy SQLite database into PostgreSQL: migrate of      *)
(* migrate_sqlite_to_postgres.py.  The source is read table by table, each *)
(* SELECT with a snapshot of its own; plans are put into an order that     *)
(* satisfies the foreign key; one transaction of the target looks whether  *)
(* it is empty and writes everything.                                      *)
(*                                                                         *)
(* Rows are their keys.  An audit event of the target is its sequence      *)
(* number and that of the event whose hash it continues.  The importer may *)
(* be run again, and may die at any step.                                  *)
(***************************************************************************)
EXTENDS Naturals, Sequences, FiniteSets, SequencesExt

CONSTANTS
  Plan,
  NoParent, Unknown,   \* parent_plan_id NULL, or of a plan that does not exist
  MaxRows, MaxNumber   \* bounds of source rows of a kind and sequence numbers

\* What the constants are assumed to be.
SettingsAreSound ==
  /\ IsFiniteSet(Plan) /\ NoParent \notin Plan /\ Unknown \notin Plan
  /\ NoParent # Unknown

VARIABLES
  parent, srcPlans, srcReviews, srcAudit,   \* the source: reviews as a set of plans
                                            \* and numbers, the number of audit events
  pc,                                       \* of the importer
  plans, reviews, audit,                    \* plan_rows, review_rows, audit_rows
  order, pending,                           \* of _parent_first
  tPlans, tReviews, tAudit, tOutbox,        \* the committed target
  serial,                                   \* the sequence of audit_events.sequence
  imported                                  \* an import was committed

vars == <<parent, srcPlans, srcReviews, srcAudit, pc, plans, reviews, audit, order, pending,
          tPlans, tReviews, tAudit, tOutbox, serial, imported>>

source == <<parent, srcPlans, srcReviews, srcAudit>>
local == <<plans, reviews, audit, order, pending>>
target == <<tPlans, tReviews, tAudit, tOutbox, imported>>

Init ==
  /\ parent \in [Plan -> Plan \cup {NoParent, Unknown}]
  /\ srcPlans \in SUBSET Plan
  /\ srcReviews \in SUBSET (srcPlans \X {1})
  /\ srcAudit \in 0..1
  /\ pc = "idle"
  /\ plans = {} /\ reviews = {} /\ audit = 0
  /\ order = <<>> /\ pending = {}
  /\ tPlans = <<>> /\ tReviews = {} /\ tAudit = {} /\ tOutbox = {}
  /\ serial = 0 /\ imported = FALSE

-----------------------------------------------------------------------------
(***************************************************************************)
(* Reading and ordering                                                    *)
(***************************************************************************)

GoTo(where) == pc' = where

\* The run ends without an import.
Leave ==
  /\ pc' = "idle"
  /\ plans' = {} /\ reviews' = {} /\ audit' = 0 /\ order' = <<>> /\ pending' = {}

ReadPlans ==
  /\ pc = "idle"
  /\ GoTo("reviews")
  /\ plans' = srcPlans
  /\ UNCHANGED <<source, reviews, audit, order, pending, target, serial>>

ReadReviews ==
  /\ pc = "reviews"
  /\ GoTo("audit")
  /\ reviews' = srcReviews
  /\ UNCHANGED <<source, plans, audit, order, pending, target, serial>>

ReadAudit ==
  /\ pc = "audit"
  /\ GoTo("order")
  /\ audit' = srcAudit
  /\ pending' = plans
  /\ order' = <<>>
  /\ UNCHANGED <<source, plans, reviews, target, serial>>

\* Plans whose parent is in the order already.
Ready == {p \in pending : parent[p] = NoParent \/ parent[p] \in Range(order)}

\* "Plan parent graph is invalid or cyclic".
RefuseGraph == Leave

\* One turn of the loop of _parent_first, and its end.  Within a turn the rows
\* are sorted by created_at, which may be any order.
OrderPlans ==
  /\ pc = "order"
  /\ \/ /\ pending # {} /\ Ready # {}
        /\ \E s \in SetToSeqs(Ready) : order' = order \o s
        /\ pending' = pending \ Ready
        /\ UNCHANGED <<pc, plans, reviews, audit>>
     \/ pending # {} /\ Ready = {} /\ RefuseGraph
     \/ pending = {} /\ GoTo("check") /\ UNCHANGED local
  /\ UNCHANGED <<source, target, serial>>

-----------------------------------------------------------------------------
(***************************************************************************)
(* Writing                                                                 *)
(***************************************************************************)

TargetEmpty == tPlans = <<>> /\ tReviews = {} /\ tAudit = {} /\ tOutbox = {}

\* _require_empty_target, at the start of the transaction.
RequireEmpty ==
  /\ pc = "check"
  /\ IF TargetEmpty THEN GoTo("write") /\ UNCHANGED local ELSE Leave
  /\ UNCHANGED <<source, target, serial>>

Numbers == {e.number : e \in tAudit}

\* Fault: no foreign key from reviews to plans.
NoForeignKey == TRUE

\* The constraints of the target on the rows to write.
ForeignKeys == \A r \in reviews : r[1] \in plans

\* Fault: setval is not called.
SerialKept == UNCHANGED serial

\* setval to the largest sequence, if there were audit rows.
SetSerial ==
  serial' = IF audit = 0 THEN serial
            ELSE CHOOSE n \in Numbers \cup (1..audit) : \A k \in Numbers \cup (1..audit) : k <= n

\* _normalize_audit keeps number and hash of each event.
AuditRows(n) == {[number |-> k, prev |-> k - 1] : k \in 1..n}

\* _historical_outbox: every event is to be delivered, again or not.
OutboxRows(n) == 1..n

\* The inserts, in one transaction: it commits, or a constraint fails and
\* nothing is written.
Write ==
  /\ pc = "write"
  /\ \/ /\ ForeignKeys
        /\ Range(tPlans) \cap plans = {} /\ Numbers \cap (1..audit) = {}
        /\ tPlans' = tPlans \o order
        /\ tReviews' = tReviews \cup reviews
        /\ tAudit' = tAudit \cup AuditRows(audit)
        /\ tOutbox' = tOutbox \cup OutboxRows(audit)
        /\ SetSerial
        /\ imported' = TRUE
        /\ GoTo("done")
        /\ UNCHANGED local
     \/ /\ ~ForeignKeys \/ Range(tPlans) \cap plans # {} \/ Numbers \cap (1..audit) # {}
        /\ Leave
        /\ UNCHANGED <<target, serial>>
  /\ UNCHANGED source

\* The importer is run again after it ended, or dies.
Restart ==
  /\ pc # "idle"
  /\ Leave
  /\ UNCHANGED <<source, target, serial>>

-----------------------------------------------------------------------------
(***************************************************************************)
(* The applications on both sides                                          *)
(***************************************************************************)

\* The old API stores a plan with its event, or a review with its own.
SourceWrites ==
  /\ srcAudit < MaxRows
  /\ srcAudit' = srcAudit + 1
  /\ \/ \E p \in Plan \ srcPlans :
          /\ parent[p] \in srcPlans \cup {NoParent}
          /\ srcPlans' = srcPlans \cup {p}
          /\ UNCHANGED srcReviews
     \/ \E p \in srcPlans :
          /\ srcReviews' = srcReviews \cup {<<p, srcAudit + 2>>}
          /\ UNCHANGED srcPlans
  /\ UNCHANGED <<parent, pc, local, target, serial>>

\* The new API appends an event after the last one, with its outbox row.  A
\* number that is taken fails the transaction; the number is used up.
TargetAppends ==
  /\ serial < MaxNumber
  /\ serial' = serial + 1
  /\ IF serial + 1 \in Numbers THEN UNCHANGED <<tAudit, tOutbox>>
     ELSE /\ tAudit' = tAudit \cup {[number |-> serial + 1,
                                     prev |-> CHOOSE n \in Numbers \cup {0} :
                                                \A k \in Numbers : k <= n]}
          /\ tOutbox' = tOutbox \cup {serial + 1}
  /\ UNCHANGED <<source, pc, local, tPlans, tReviews, imported>>

Next ==
  \/ ReadPlans \/ ReadReviews \/ ReadAudit \/ OrderPlans
  \/ RequireEmpty \/ Write \/ Restart
  \/ SourceWrites \/ TargetAppends

Spec == Init /\ [][Next]_vars

-----------------------------------------------------------------------------
(***************************************************************************)
(* Properties                                                              *)
(***************************************************************************)

\* Every variable holds rows of its table; no plan is there twice.
TypeOK ==
  /\ parent \in [Plan -> Plan \cup {NoParent, Unknown}]
  /\ srcPlans \subseteq Plan /\ srcReviews \subseteq Plan \X Nat /\ srcAudit \in Nat
  /\ pc \in {"idle", "reviews", "audit", "order", "check", "write", "done"}
  /\ plans \subseteq Plan /\ reviews \subseteq Plan \X Nat /\ audit \in Nat
  /\ order \in Seq(Plan) /\ pending \subseteq Plan
  /\ tPlans \in Seq(Plan) /\ IsInjective(tPlans)
  /\ tReviews \subseteq Plan \X Nat
  /\ tAudit \subseteq [number : Nat \ {0}, prev : Nat] /\ tOutbox \subseteq Nat
  /\ serial \in Nat /\ imported \in BOOLEAN

\* Each plan stands after its parent; graphs that allow no such order are
\* refused.
ParentsFirst ==
  \A i \in DOMAIN tPlans :
    parent[tPlans[i]] # NoParent => \E j \in 1..(i - 1) : tPlans[j] = parent[tPlans[i]]

\* Whatever the source does meanwhile, an import is whole: the target has
\* every plan that was read, no review without its plan, and one outbox row
\* for every event.
ImportIsWhole ==
  /\ imported /\ pc = "done" => plans \subseteq Range(tPlans) /\ reviews \subseteq tReviews
  /\ ~imported => tPlans = <<>> /\ tReviews = {}
  /\ \A r \in tReviews : r[1] \in Range(tPlans)
  /\ tOutbox = Numbers

\* The new API continues the imported chain: every event continues the one
\* before it, and the next number is free.
ChainGoesOn ==
  /\ \A e \in tAudit : e.prev < e.number /\ \A k \in Numbers : k <= e.prev \/ k >= e.number
  /\ serial + 1 \notin Numbers
=============================================================================
