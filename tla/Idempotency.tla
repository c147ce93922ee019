---------------------------- MODULE Idempotency ----------------------------
(***************************************************************************)
(* The idempotency records of backend/plan_repository.py and the write     *)
(* handlers of backend/main.py that use them: /generate, /optimize,        *)
(* /jobs/generate, /jobs/optimize and /plans/{id}/reviews.  They all claim *)
(* the caller's key, do their work, store a resource together with the     *)
(* completion of the record, and release the key when they fail.           *)
(*                                                                         *)
(* A caller is one HTTP request; a client that retries is another caller   *)
(* with the same key.  Keys stand for (actor_sub, operation, key); callers *)
(* without a key take no part in any of this.  A resource has the name of  *)
(* the caller that created it.                                             *)
(*                                                                         *)
(* claim_idempotency is split where PostgreSQL lets others in, between the *)
(* SELECT that finds no row and the INSERT; SQLite's BEGIN IMMEDIATE gives *)
(* the behaviours in which nobody comes between.                           *)
(***************************************************************************)
EXTENDS Naturals, FiniteSets

CONSTANTS
  Caller,      \* HTTP requests, each served once
  Key,         \* (actor_sub, operation, idempotency_key)
  Hash,        \* request_fingerprint of the request body
  Nothing      \* no row, no answer, no resource

VARIABLES
  rec,         \* idempotency_records: the row of each key
  pc,          \* where each request's handler is
  key, hash,   \* what the request carries
  answer,      \* what it was answered, or would have been but for a crash
  origin       \* the request hash each resource was created for

vars == <<rec, pc, key, hash, answer, origin>>

NoRow == [status |-> "absent", hash |-> Nothing, resource |-> Nothing, lock |-> "none"]

InProgress(h) == [status |-> "in_progress", hash |-> h, resource |-> Nothing, lock |-> "live"]

Completed(h, r) == [status |-> "completed", hash |-> h, resource |-> r, lock |-> "none"]

Row ==
  {NoRow}
  \cup [status : {"in_progress"}, hash : Hash, resource : {Nothing}, lock : {"live", "expired"}]
  \cup [status : {"completed"}, hash : Hash, resource : Caller, lock : {"none"}]

\* The answers without a resource.
Refusal == {"conflict", "in_progress", "error"}

ASSUME CallerAssumption == Caller \cap (Refusal \cup {Nothing}) = {}
ASSUME NothingAssumption == Nothing \notin Hash \cup Refusal

InFlight(k) == {c \in Caller : key[c] = k /\ pc[c] \notin {"new", "done", "dead"}}

\* The callers that believe the key is theirs.
Claimants(k) == {c \in Caller : key[c] = k /\ pc[c] \in {"working", "failing"}}

Init ==
  /\ rec    = [k \in Key |-> NoRow]
  /\ pc     = [c \in Caller |-> "new"]
  /\ key    \in [Caller -> Key]
  /\ hash   \in [Caller -> Hash]
  /\ answer = [c \in Caller |-> Nothing]
  /\ origin = [c \in Caller |-> Nothing]

Answer(c, a) ==
  /\ pc' = [pc EXCEPT ![c] = "done"]
  /\ answer' = [answer EXCEPT ![c] = a]

GoTo(c, where) ==
  /\ pc' = [pc EXCEPT ![c] = where]
  /\ UNCHANGED answer

-----------------------------------------------------------------------------
(***************************************************************************)
(* claim_idempotency.                                                      *)
(***************************************************************************)

\* The request_hash check.
SameRequest(k, h) == rec[k].hash = h

\* Fault: an unfinished record is taken over at once.
LockIgnored(k) == TRUE

\* Whether an unfinished record may be taken over: locked_until < now.
TakeoverAllowed(k) == rec[k].lock = "expired"

\* SELECT (FOR UPDATE), and _resolve_idempotency_row when there is a row.
Look(c) ==
  LET k == key[c] IN
  /\ pc[c] = "new"
  /\ \/ /\ rec[k].status = "absent"
        /\ GoTo(c, "inserting")
        /\ UNCHANGED rec
     \/ /\ rec[k].status # "absent"
        /\ ~ SameRequest(k, hash[c])
        /\ Answer(c, "conflict")
        /\ UNCHANGED rec
     \/ /\ rec[k].status = "completed"
        /\ SameRequest(k, hash[c])
        /\ Answer(c, rec[k].resource)
        /\ UNCHANGED rec
     \/ /\ rec[k].status = "in_progress"
        /\ SameRequest(k, hash[c])
        /\ ~ TakeoverAllowed(k)
        /\ Answer(c, "in_progress")
        /\ UNCHANGED rec
     \/ /\ rec[k].status = "in_progress"
        /\ SameRequest(k, hash[c])
        /\ TakeoverAllowed(k)
        /\ rec' = [rec EXCEPT ![k].lock = "live"]
        /\ GoTo(c, "working")
  /\ UNCHANGED <<key, hash, origin>>

\* The unique constraint on (actor_sub, operation, idempotency_key).
InsertAccepted(k) == rec[k].status = "absent"

\* INSERT of a row in progress; IntegrityError when somebody was faster.
Insert(c) ==
  LET k == key[c] IN
  /\ pc[c] = "inserting"
  /\ \/ /\ InsertAccepted(k)
        /\ rec' = [rec EXCEPT ![k] = InProgress(hash[c])]
        /\ GoTo(c, "working")
     \/ /\ ~ InsertAccepted(k)
        /\ GoTo(c, "raced")
        /\ UNCHANGED rec
  /\ UNCHANGED <<key, hash, origin>>

\* _claim_after_race: never takes the key, not even an expired one.
ClaimAfterRace(c) ==
  LET k == key[c] IN
  /\ pc[c] = "raced"
  /\ \/ rec[k].status = "absent" /\ Answer(c, "in_progress")
     \/ /\ rec[k].status # "absent"
        /\ ~ SameRequest(k, hash[c])
        /\ Answer(c, "conflict")
     \/ /\ rec[k].status = "completed"
        /\ SameRequest(k, hash[c])
        /\ Answer(c, rec[k].resource)
     \/ /\ rec[k].status = "in_progress"
        /\ SameRequest(k, hash[c])
        /\ Answer(c, "in_progress")
  /\ UNCHANGED <<rec, key, hash, origin>>

-----------------------------------------------------------------------------
(***************************************************************************)
(* The end of the handler.                                                 *)
(***************************************************************************)

\* Fault: the update that completes the record does not ask for its status.
RecordOfRequest(c) == rec[key[c]].status # "absent" /\ SameRequest(key[c], hash[c])

\* The row the completing UPDATE and the releasing DELETE look for.  It may
\* be a later caller's: nothing in it tells its claimants apart.
Matches(c) == rec[key[c]].status = "in_progress" /\ SameRequest(key[c], hash[c])

\* Resource r and the completed record become visible together.
Bind(c, r) ==
  /\ rec'  = [rec EXCEPT ![key[c]] = Completed(hash[c], r)]
  /\ Answer(c, r)

\* create_plan, create_review or enqueue_model_job with its
\* _complete_idempotency, one transaction.  enqueue_model_job may answer with
\* an active job of the same request instead of a new one.
Store(c) ==
  /\ pc[c] = "working"
  /\ Matches(c)
  /\ \/ /\ origin' = [origin EXCEPT ![c] = hash[c]]
        /\ Bind(c, c)
     \/ /\ UNCHANGED origin
        /\ \E r \in Caller : origin[r] = hash[c] /\ Bind(c, r)
  /\ UNCHANGED <<key, hash>>

\* The transaction is rolled back because the record is gone or taken.
StoreRefused(c) ==
  /\ pc[c] = "working"
  /\ ~ Matches(c)
  /\ pc' = [pc EXCEPT ![c] = "failing"]
  /\ answer' = [answer EXCEPT ![c] = "conflict"]
  /\ UNCHANGED <<rec, key, hash, origin>>

\* The model call, the traffic guard, the plan version or the queue limit
\* makes the work fail.
WorkFails(c) ==
  /\ pc[c] = "working"
  /\ pc' = [pc EXCEPT ![c] = "failing"]
  /\ answer' = [answer EXCEPT ![c] = "error"]
  /\ UNCHANGED <<rec, key, hash, origin>>

\* The rows release_idempotency deletes.
Releases(c) == Matches(c)

\* _release_idempotency_safely in the finally block: an error of the DELETE
\* is swallowed and the row stays.
Release(c) ==
  /\ pc[c] = "failing"
  /\ pc' = [pc EXCEPT ![c] = "done"]
  /\ \/ Releases(c) /\ rec' = [rec EXCEPT ![key[c]] = NoRow]
     \/ UNCHANGED rec
  /\ UNCHANGED <<key, hash, answer, origin>>

\* The API process dies while it serves the request.
Crash(c) ==
  /\ pc[c] \notin {"new", "done", "dead"}
  /\ pc' = [pc EXCEPT ![c] = "dead"]
  /\ UNCHANGED <<rec, key, hash, answer, origin>>

-----------------------------------------------------------------------------
(***************************************************************************)
(* Time.                                                                   *)
(***************************************************************************)

\* 180 seconds after the claim.
LockExpires(k) ==
  /\ rec[k].lock = "live"
  /\ rec' = [rec EXCEPT ![k].lock = "expired"]
  /\ UNCHANGED <<pc, key, hash, answer, origin>>

\* purge_operational_records, seven days after the completion: no request
\* that carries the key is served that long.
Purge(k) ==
  /\ rec[k].status = "completed"
  /\ InFlight(k) = {}
  /\ rec'  = [rec EXCEPT ![k] = NoRow]
  /\ UNCHANGED <<pc, key, hash, answer, origin>>

Serve(c) == \/ Look(c) \/ Insert(c) \/ ClaimAfterRace(c)
            \/ Store(c) \/ StoreRefused(c) \/ WorkFails(c)
            \/ Release(c) \/ Crash(c)

\* Requests take any time, longer than the lock of their key included.
Next == (\E c \in Caller : Serve(c)) \/ (\E k \in Key : LockExpires(k) \/ Purge(k))

Spec == Init /\ [][Next]_vars

\* Requests end before the lock of their key does: LLMClient gives up after
\* 90 seconds.  Only the lock of a dead handler, or one whose release failed,
\* expires.
PromptNext ==
  \/ \E c \in Caller : Serve(c)
  \/ \E k \in Key : (Claimants(k) = {} /\ LockExpires(k)) \/ Purge(k)

PromptSpec == Init /\ [][PromptNext]_vars

-----------------------------------------------------------------------------
(***************************************************************************)
(* What must hold.                                                         *)
(***************************************************************************)

TypeOK ==
  /\ rec    \in [Key -> Row]
  /\ pc     \in [Caller -> {"new", "inserting", "raced", "working", "failing",
                            "done", "dead"}]
  /\ key    \in [Caller -> Key]
  /\ hash   \in [Caller -> Hash]
  /\ answer \in [Caller -> Caller \cup Refusal \cup {Nothing}]
  /\ origin \in [Caller -> Hash \cup {Nothing}]

\* "Repeated calls of the same user, operation and body return the resource
\* created first": however its lock expired and whoever released it meanwhile,
\* a key is bound to one resource, until its row is purged, and who is answered
\* with a resource gets that one, created for the body sent.
Promise == INSTANCE IdempotentAnswers
  WITH Body <- Hash, Resource <- Caller,
       sent     <- [c \in Caller |-> [key |-> key[c], body |-> hash[c]]],
       madeFor  <- origin,
       bound    <- [k \in Key |-> IF rec[k].status = "completed"
                                    THEN [body |-> rec[k].hash, resource |-> rec[k].resource]
                                    ELSE Nothing],
       answered <- [c \in Caller |-> IF answer[c] \in Caller THEN answer[c] ELSE Nothing]

RepliesAgree == Promise!Safety

\* "A repeated call during execution is answered 409": two requests never do
\* the work of one key at a time, as long as requests are prompt.
OneExecutionAtATime ==
  \A c, d \in Caller :
    c # d /\ key[c] = key[d] => ~ ({c, d} \subseteq Claimants(key[c]))

\* A prompt request does not lose its claim, nor the work done under it: the
\* row stays in progress, locked and for its body until its handler ends, and
\* its completion is never refused.
ClaimsStand ==
  \A k \in Key : \A c \in Claimants(k) :
    answer[c] # "conflict" /\ rec[k] = InProgress(hash[c])

=============================================================================
