---------------------------- MODULE AuditOutbox ----------------------------
(***************************************************************************)
(* The audit trail of backend/plan_repository.py and its dispatcher, of    *)
(* backend/outbox_worker.py.  Business transactions append events to a     *)
(* hash chain and, with each, a row to audit_outbox; dispatchers claim     *)
(* batches of rows, deliver them to the sink and mark them.                *)
(*                                                                         *)
(* A hash stands for the event it covers: previous_hash is the event that  *)
(* was newest for the writer.  A business transaction is split where other *)
(* connections can come between; the rest of it is left out.               *)
(***************************************************************************)
EXTENDS Naturals, Sequences, FiniteSets

CONSTANTS
  Event,       \* audit events
  Writer,      \* connections that run business transactions
  Dispatcher,  \* dispatcher processes
  Batch,       \* batch_size
  NoEvent,     \* the empty previous_hash
  Nobody       \* the null of locked_by

ASSUME BatchAssumption == Batch \in Nat \ {0}
ASSUME NoneAssumption == NoEvent \notin Event /\ Nobody \notin Dispatcher

VARIABLES
  chain,       \* audit_events in the order of sequence, uncommitted ones too
  open,        \* the events of each writer's open transaction
  outbox,      \* audit_outbox: the row of each event
  at, batch,   \* where each dispatcher is, and the records it still holds
  accepted     \* the events the sink has accepted

vars == <<chain, open, outbox, at, batch, accepted>>

NoRow == [status |-> "none", owner |-> Nobody, lock |-> "none", due |-> FALSE]

Pending == [status |-> "pending", owner |-> Nobody, lock |-> "none", due |-> TRUE]

Published(row) ==
  [status |-> "published", owner |-> Nobody, lock |-> "none", due |-> FALSE]

Retried(row) == [row EXCEPT !.due = FALSE, !.owner = Nobody, !.lock = "none"]

Locked(row, d) == [row EXCEPT !.owner = d, !.lock = "live"]

\* "old": published longer ago than purge_operational_records keeps it.
Row ==
  {NoRow}
  \cup [status : {"pending"}, owner : {Nobody}, lock : {"none"}, due : BOOLEAN]
  \cup [status : {"pending"}, owner : Dispatcher, lock : {"live", "expired"}, due : {TRUE}]
  \cup [status : {"published", "old", "purged"}, owner : {Nobody}, lock : {"none"}, due : {FALSE}]

Init ==
  /\ chain    = <<>>
  /\ open     = [w \in Writer |-> {}]
  /\ outbox   = [e \in Event |-> NoRow]
  /\ at       = [d \in Dispatcher |-> "idle"]
  /\ batch    = [d \in Dispatcher |-> <<>>]
  /\ accepted = {}

-----------------------------------------------------------------------------
(***************************************************************************)
(* Business transactions.                                                  *)
(***************************************************************************)

\* The events of transactions that have not ended.
Opened == UNION {open[w] : w \in Writer}

Committed(e) == e \notin Opened

\* The rows of s that are about events of E, in the order of s.
Kept(s, E) ==
  LET kept[n \in 0..Len(s)] ==
        IF n = 0 THEN <<>>
        ELSE IF s[n].id \in E THEN Append(kept[n - 1], s[n])
        ELSE kept[n - 1]
  IN  kept[Len(s)]

\* Fault: the chain is not locked.
ChainShared(w) == TRUE

\* The advisory lock of the chain on PostgreSQL; on SQLite the write lock of
\* the database, which create_plan takes with its INSERT of the plan and the
\* others with BEGIN IMMEDIATE.
ChainFree(w) == \A v \in Writer \ {w} : open[v] = {}

\* The newest event the writer can see.
NewestFor(w) ==
  LET seen == Kept(chain, {e \in Event : Committed(e) \/ e \in open[w]})
  IN IF seen = <<>> THEN NoEvent ELSE seen[Len(seen)].id

\* _append_audit, once or more in a transaction.
AppendAudit(w) ==
  \E e \in Event :
    /\ \A i \in DOMAIN chain : chain[i].id # e
    /\ ChainFree(w)
    /\ chain'  = Append(chain, [id |-> e, prev |-> NewestFor(w)])
    /\ open'   = [open EXCEPT ![w] = @ \cup {e}]
    /\ outbox' = [outbox EXCEPT ![e] = Pending]
    /\ UNCHANGED <<at, batch, accepted>>

Commit(w) ==
  /\ open[w] # {}
  /\ open' = [open EXCEPT ![w] = {}]
  /\ UNCHANGED <<chain, outbox, at, batch, accepted>>

\* The rows a rollback takes away.
Undone(w, e) == e \in open[w]

\* The business transaction fails, or its process dies.
Rollback(w) ==
  /\ open[w] # {}
  /\ chain'  = Kept(chain, Event \ open[w])
  /\ outbox' = [e \in Event |-> IF Undone(w, e) THEN NoRow ELSE outbox[e]]
  /\ open'   = [open EXCEPT ![w] = {}]
  /\ UNCHANGED <<at, batch, accepted>>

-----------------------------------------------------------------------------
(***************************************************************************)
(* AuditOutboxDispatcher.run_once.                                         *)
(***************************************************************************)

\* Fault: rows are purged by their age alone.
PurgedByAge(e) == outbox[e].status # "none" /\ ~ outbox[e].due

\* published_at is not null and before the cutoff.
Purgeable(e) == outbox[e].status = "old"

\* purge_operational_records, at the start of every run.
Purge(d) ==
  /\ at[d] = "idle"
  /\ outbox' = [e \in Event |-> IF Purgeable(e)
                                THEN [outbox[e] EXCEPT !.status = "purged"]
                                ELSE outbox[e]]
  /\ at' = [at EXCEPT ![d] = "claiming"]
  /\ UNCHANGED <<chain, open, batch, accepted>>

\* Fault: locks are not looked at.
ClaimableLocked(e) == outbox[e].status = "pending" /\ outbox[e].due /\ Committed(e)

\* Fault: expired locks are not looked at.
ClaimableUnlocked(e) ==
  outbox[e].status = "pending" /\ outbox[e].due /\ outbox[e].lock = "none" /\ Committed(e)

\* The WHERE of claim_outbox_events.
Claimable(e) ==
  outbox[e].status = "pending" /\ outbox[e].due /\ outbox[e].lock # "live" /\ Committed(e)

\* ORDER BY created_at LIMIT batch_size.  created_at is read under the lock
\* of the chain.
Oldest ==
  LET rows == Kept(chain, {e \in Event : Claimable(e)})
  IN  [i \in 1..(IF Len(rows) < Batch THEN Len(rows) ELSE Batch) |-> rows[i].id]

Holds(d, e) == \E i \in DOMAIN batch[d] : batch[d][i] = e

\* claim_outbox_events; rows that SKIP LOCKED leaves out are those another
\* transaction is just changing.
Claim(d) ==
  /\ at[d] = "claiming"
  /\ batch' = [batch EXCEPT ![d] = Oldest]
  /\ at' = [at EXCEPT ![d] = IF Oldest = <<>> THEN "idle" ELSE "delivering"]
  /\ outbox' = [e \in Event |-> IF Holds(d, e)' THEN Locked(outbox[e], d) ELSE outbox[e]]
  /\ UNCHANGED <<chain, open, accepted>>

\* _deliver: an accepted event may still look refused, when the answer is
\* lost or comes too late.
Deliver(d) ==
  /\ at[d] = "delivering"
  /\ \/ /\ accepted' = accepted \cup {Head(batch[d])}
        /\ at' = [at EXCEPT ![d] = "delivered"]
     \/ /\ accepted' \in {accepted, accepted \cup {Head(batch[d])}}
        /\ at' = [at EXCEPT ![d] = "refused"]
  /\ UNCHANGED <<chain, open, outbox, batch>>

\* On to the next record of the batch.
Advance(d) ==
  /\ batch' = [batch EXCEPT ![d] = Tail(@)]
  /\ at' = [at EXCEPT ![d] = IF Len(batch[d]) = 1 THEN "idle" ELSE "delivering"]

\* Fault: the marks do not ask who has locked the row.
OwnedByAnyone(d, e) == outbox[e].status = "pending"

\* The WHERE of mark_outbox_published and mark_outbox_failed.
Owns(d, e) == outbox[e].owner = d /\ outbox[e].status = "pending"

\* The row of the record at hand, if it is still this dispatcher's.
Mark(d, row) ==
  LET e == Head(batch[d]) IN
  outbox' = IF Owns(d, e) THEN [outbox EXCEPT ![e] = row] ELSE outbox

\* mark_outbox_published.  When it raises, before or after its commit, the
\* record is handled as a failed one.
MarkPublished(d) ==
  /\ at[d] = "delivered"
  /\ \/ /\ Mark(d, Published(outbox[Head(batch[d])]))
        /\ Advance(d)
     \/ /\ Mark(d, Published(outbox[Head(batch[d])])) \/ UNCHANGED outbox
        /\ at' = [at EXCEPT ![d] = "refused"]
        /\ UNCHANGED batch
  /\ UNCHANGED <<chain, open, accepted>>

\* mark_outbox_failed, with the backoff.
MarkFailed(d) ==
  /\ at[d] = "refused"
  /\ Mark(d, Retried(outbox[Head(batch[d])]))
  /\ Advance(d)
  /\ UNCHANGED <<chain, open, accepted>>

\* The process dies, or an exception leaves run_once.
Crash(d) ==
  /\ at[d] # "down"
  /\ at' = [at EXCEPT ![d] = "down"]
  /\ batch' = [batch EXCEPT ![d] = <<>>]
  /\ UNCHANGED <<chain, open, outbox, accepted>>

Restart(d) ==
  /\ at[d] = "down"
  /\ at' = [at EXCEPT ![d] = "idle"]
  /\ UNCHANGED <<chain, open, outbox, batch, accepted>>

-----------------------------------------------------------------------------
(***************************************************************************)
(* Time.                                                                   *)
(***************************************************************************)

\* locked_until has passed.
LockExpires(e) ==
  /\ outbox[e].lock = "live"
  /\ outbox' = [outbox EXCEPT ![e].lock = "expired"]
  /\ UNCHANGED <<chain, open, at, batch, accepted>>

\* available_at has come.
BackoffElapses(e) ==
  /\ outbox[e].status = "pending"
  /\ ~ outbox[e].due
  /\ outbox' = [outbox EXCEPT ![e].due = TRUE]
  /\ UNCHANGED <<chain, open, at, batch, accepted>>

\* published_at is before the cutoff.
Ages(e) ==
  /\ outbox[e].status = "published"
  /\ outbox' = [outbox EXCEPT ![e].status = "old"]
  /\ UNCHANGED <<chain, open, at, batch, accepted>>

Write(w) == AppendAudit(w) \/ Commit(w) \/ Rollback(w)

RunOnce(d) == \/ Purge(d) \/ Claim(d) \/ Deliver(d)
              \/ MarkPublished(d) \/ MarkFailed(d)
              \/ Crash(d) \/ Restart(d)

Next == \/ \E w \in Writer : Write(w)
        \/ \E d \in Dispatcher : RunOnce(d)
        \/ \E e \in Event : LockExpires(e) \/ BackoffElapses(e) \/ Ages(e)

Spec == Init /\ [][Next]_vars

\* The dispatcher that took the lock has died.
AbandonedLockExpires(e) == LockExpires(e) /\ \A d \in Dispatcher : ~ Holds(d, e)

\* A batch is worked off before its lock expires: 12 seconds for a record
\* whose delivery times out after 10.
PromptNext ==
  \/ \E w \in Writer : Write(w)
  \/ \E d \in Dispatcher : RunOnce(d)
  \/ \E e \in Event : AbandonedLockExpires(e) \/ BackoffElapses(e) \/ Ages(e)

PromptSpec == Init /\ [][PromptNext]_vars

\* Clocks advance, dead dispatchers are started again, and no step of a run
\* is cut short by a crash each time it is tried; the sink accepts an event
\* it is offered again and again.
Fairness ==
  /\ \A e \in Event :
       /\ WF_vars(AbandonedLockExpires(e))
       /\ WF_vars(BackoffElapses(e))
       /\ SF_vars(\E d \in Dispatcher : /\ at[d] = "delivering"
                                        /\ Head(batch[d]) = e
                                        /\ Deliver(d)
                                        /\ at'[d] = "delivered")
  /\ \A d \in Dispatcher : WF_vars(Restart(d))
  /\ SF_vars(\E d \in Dispatcher : Purge(d))
  /\ SF_vars(\E d \in Dispatcher : Claim(d))
  /\ SF_vars(\E d \in Dispatcher : Deliver(d))
  /\ SF_vars(\E d \in Dispatcher : MarkPublished(d) /\ batch' # batch)
  /\ SF_vars(\E d \in Dispatcher : MarkFailed(d))

\* A batch that outlived its lock every time might never be marked.
FairSpec == PromptSpec /\ Fairness

-----------------------------------------------------------------------------
(***************************************************************************)
(* What must hold.                                                         *)
(***************************************************************************)

\* The chain as other connections see it.
CommittedChain == Kept(chain, {e \in Event : Committed(e)})

TypeOK ==
  /\ chain    \in Seq([id : Event, prev : Event \cup {NoEvent}])
  /\ open     \in [Writer -> SUBSET Event]
  /\ outbox   \in [Event -> Row]
  /\ at       \in [Dispatcher -> {"idle", "claiming", "delivering", "delivered",
                                  "refused", "down"}]
  /\ batch    \in [Dispatcher -> Seq(Event)]
  /\ accepted \in SUBSET Event

\* verify_audit_chain answers TRUE whenever it is asked: concurrent and
\* rolled back transactions neither fork the chain nor leave a gap in it.
ChainIsUnbroken ==
  \A i \in DOMAIN CommittedChain :
    CommittedChain[i].prev = IF i = 1 THEN NoEvent ELSE CommittedChain[i - 1].id

\* A row is not published, let alone purged, before the sink has the event.
PublishedWereAccepted ==
  \A e \in Event :
    outbox[e].status \in {"published", "old", "purged"} => e \in accepted

\* The chain and the outbox tell of the same events, and the sink knows of no
\* other: "audit and outbox are committed together".
RowsMatchEvents ==
  LET events == {CommittedChain[i].id : i \in DOMAIN CommittedChain} IN
  /\ events = {e \in Event : Committed(e) /\ outbox[e].status # "none"}
  /\ accepted \subseteq events

\* While a lock is live, its row is changed only by the dispatcher that
\* works on it, whatever marks late dispatchers send.
RespectsLock(e) ==
  /\ outbox[e].lock = "live"
  /\ outbox'[e] # outbox[e]
  => \/ outbox'[e] = [outbox[e] EXCEPT !.lock = "expired"]
     \/ LET d == outbox[e].owner IN
        Holds(d, e) /\ e = Head(batch[d]) /\ at'[d] # at[d]

LiveLocksAreRespected == [][\A e \in Event : RespectsLock(e)]_vars

\* As long as batches are worked off in time, no two dispatchers deliver the
\* same event side by side.
OneDelivererAtATime ==
  \A c, d \in Dispatcher : \A e \in Event : Holds(c, e) /\ Holds(d, e) => c = d

-----------------------------------------------------------------------------
(***************************************************************************)
(* The inductive invariant: what the lock of the chain is for.             *)
(***************************************************************************)

Chained == {chain[i].id : i \in DOMAIN chain}

\* No event is appended twice, and each row names the one before it, be they
\* committed or not.
ChainIsLinked ==
  /\ \A i, j \in DOMAIN chain : chain[i].id = chain[j].id => i = j
  /\ \A i \in DOMAIN chain :
       chain[i].prev = IF i = 1 THEN NoEvent ELSE chain[i - 1].id

\* One transaction at a time appends events, so that those that are not
\* committed are the last ones: a rollback leaves no gap.
OpenIsLast ==
  /\ \A v, w \in Writer : open[v] # {} /\ open[w] # {} => v = w
  /\ \A w \in Writer : open[w] \subseteq Chained
  /\ \E n \in 0..Len(chain) : \A i \in DOMAIN chain : chain[i].id \notin Opened <=> i <= n

\* Every event has a row, and rows that are locked, held or delivered are
\* about committed events, which no rollback takes away.
RowsAreChained ==
  /\ \A e \in Event : outbox[e].status # "none" <=> e \in Chained
  /\ \A e \in Event : outbox[e].lock # "none" => e \notin Opened
  /\ \A d \in Dispatcher, e \in Event : Holds(d, e) => e \in Chained /\ e \notin Opened
  /\ \A e \in accepted : e \in Chained /\ e \notin Opened

\* A dispatcher holds records as long as it works on one, each of them once.
BatchesFit ==
  \A d \in Dispatcher :
    /\ at[d] \in {"delivering", "delivered", "refused"} <=> batch[d] # <<>>
    /\ \A i, j \in DOMAIN batch[d] : batch[d][i] = batch[d][j] => i = j

ChainInv == TypeOK /\ ChainIsLinked /\ OpenIsLast /\ RowsAreChained /\ BatchesFit

\* What a prompt dispatcher holds is locked by it, until it is published.
HeldRowsAreLocked ==
  \A d \in Dispatcher, e \in Event : Holds(d, e) =>
    \/ outbox[e].owner = d /\ outbox[e].lock = "live"
    \/ outbox[e].status \in {"published", "old", "purged"}

PromptInv == ChainInv /\ HeldRowsAreLocked /\ OneDelivererAtATime

Promise == INSTANCE AuditDelivery
           WITH recorded <- [i \in DOMAIN CommittedChain |-> CommittedChain[i].id]

=============================================================================
