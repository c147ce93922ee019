----------------------------- MODULE JobClient -----------------------------
(***************************************************************************)
(* The browser's side of the model-job queue, frontend/src/api.js, and the *)
(* endpoints it talks to, /jobs/generate, /jobs/optimize and /jobs/{id} of *)
(* backend/main.py.                                                        *)
(*                                                                         *)
(* generateControlPlan posts a job under an idempotency key it keeps for   *)
(* the body it posts, then polls the job until it ends.  The key is kept   *)
(* while the fate of the request is unknown, so that a retry finds the job *)
(* the lost request made, and dropped once it is known, so that a retry    *)
(* after a failure makes a new one.  The form is disabled during a call    *)
(* (ScenarioForm.jsx:82, OptimizationPanel.jsx:62): a body has one call at *)
(* a time.  A request the browser gave up on is still served.              *)
(*                                                                         *)
(* The jobs' life is ModelJobQueue's and the claim of a key Idempotency's: *)
(* here a job ends whenever it likes and a claim is one step.  A key goes   *)
(* with one body, so the comparison of request hashes is left out.         *)
(***************************************************************************)
EXTENDS Naturals, FiniteSets

CONSTANTS
  Payload,      \* path and body of a submission: the attemptKey
  Request,      \* POSTs: each is sent once; also the name of the key it made
  Job,          \* rows of model_jobs
  Refusals,     \* the statuses below 500, other than 408, 409 and 429, that occur
  WaitLimit,    \* polls in ten minutes, MODEL_JOB_WAIT_TIMEOUT_MS
  MaxReloads,   \* bound: how often the page is loaded anew
  Nothing       \* no key, no job, no request

ASSUME ClientAssumption ==
  /\ Refusals \subseteq {"401", "403", "404", "422"}
  /\ WaitLimit \in Nat /\ MaxReloads \in Nat
  /\ Nothing \notin Payload \cup Request \cup Job

VARIABLES
  pending,      \* pendingIdempotencyKeys: the key kept for each payload
  call,         \* the call of each payload: what it waits for
  post,         \* every POST: its payload and key, where it is, its answer
  record,       \* the idempotency record of each key
  job,          \* the job rows: payload and status
  shown,        \* the jobs whose end the user was shown
  reloads       \* how often the page was loaded anew

vars == <<pending, call, post, record, job, shown, reloads>>
server == <<record, job>>

Idle       == [at |-> "idle", request |-> Nothing, job |-> Nothing, polls |-> 0]
Posting(r) == [at |-> "posting", request |-> r, job |-> Nothing, polls |-> 0]
Polling(j, n) == [at |-> "polling", request |-> Nothing, job |-> j, polls |-> n]

Unsent   == [payload |-> Nothing, key |-> Nothing, at |-> "unsent", answer |-> "none", job |-> Nothing]
NoRecord == [status |-> "absent", job |-> Nothing]
NoJob    == [payload |-> Nothing, status |-> "absent"]

Final == {"succeeded", "failed", "cancelled"}

Init ==
  /\ pending = [p \in Payload |-> Nothing]
  /\ call    = [p \in Payload |-> Idle]
  /\ post    = [r \in Request |-> Unsent]
  /\ record  = [k \in Request |-> NoRecord]
  /\ job     = [j \in Job |-> NoJob]
  /\ shown   = {}
  /\ reloads = 0

-----------------------------------------------------------------------------
(***************************************************************************)
(* The browser: idempotentRequest and waitForModelJob.                     *)
(***************************************************************************)

\* pendingIdempotencyKeys.get(attemptKey) || newIdempotencyKey().
KeyFor(p, r) == IF pending[p] # Nothing THEN pending[p] ELSE r

\* The user submits: the key is chosen and kept, the POST is sent.
Submit(p, r) ==
  /\ call[p] = Idle
  /\ post[r] = Unsent
  /\ pending' = [pending EXCEPT ![p] = KeyFor(p, r)]
  /\ post' = [post EXCEPT ![r] = [Unsent EXCEPT !.payload = p, !.key = KeyFor(p, r), !.at = "sent"]]
  /\ call' = [call EXCEPT ![p] = Posting(r)]
  /\ UNCHANGED <<server, shown, reloads>>

\* The call ends with an error that leaves the fate of its request open.
GiveUp(p) ==
  /\ call' = [call EXCEPT ![p] = Idle]
  /\ UNCHANGED <<pending, server, shown, reloads>>

\* Fault: a server error ends the attempt like any other refusal.
DropsAny(a) == a \in {"conflict", "unavailable"} \cup Refusals

\* The answers after which idempotentRequest forgets the key: the code
\* IDEMPOTENCY_CONFLICT, and a status below 500 other than 408, 409, 429.
DropsKey(a) == a \in {"conflict"} \cup Refusals

\* The timer aborts the fetch, or the network fails: CLIENT_TIMEOUT or no
\* status at all.  The key is kept and the request may still be served.
PostLost(p) ==
  /\ call[p].at = "posting"
  /\ UNCHANGED post
  /\ GiveUp(p)

\* The answer to a POST arrives.  202 is kept under its key until the job
\* has ended (retainKeyOnSuccess).
PostAnswered(p) ==
  LET r == call[p].request IN
  /\ call[p].at = "posting"
  /\ post[r].at = "answered"
  /\ call' = [call EXCEPT ![p] = IF post[r].answer = "accepted"
                                  THEN Polling(post[r].job, 0)
                                  ELSE Idle]
  /\ pending' = [pending EXCEPT ![p] = IF DropsKey(post[r].answer) THEN Nothing ELSE @]
  /\ UNCHANGED <<post, server, shown, reloads>>

\* Fault: a job that ended badly keeps its key.
KeptOnFailure(p, status) == IF status = "succeeded" THEN Nothing ELSE pending[p]

\* releaseIdempotencyKey: on the result, and on an error that is
\* modelJobTerminal.
KeyAfter(p, status) == Nothing

\* The loop sees that the job has ended and the user is shown it.
SeeEnd(p) ==
  LET j == call[p].job IN
  /\ call[p].at = "polling"
  /\ job[j].status \in Final
  /\ shown' = shown \cup {j}
  /\ pending' = [pending EXCEPT ![p] = KeyAfter(p, job[j].status)]
  /\ call' = [call EXCEPT ![p] = Idle]
  /\ UNCHANGED <<post, server, reloads>>

\* Date.now() - startedAt >= MODEL_JOB_WAIT_TIMEOUT_MS.
WaitIsOver(n) == n >= WaitLimit

CountPoll(n) == n + 1

\* The job is seen active: another poll a second later, or the end of the
\* ten minutes, MODEL_JOB_WAIT_TIMEOUT.
PollAgain(p) ==
  /\ call[p].at = "polling"
  /\ job[call[p].job].status = "active"
  /\ ~ WaitIsOver(call[p].polls)
  /\ call' = [call EXCEPT ![p].polls = CountPoll(@)]
  /\ UNCHANGED <<pending, post, server, shown, reloads>>

WaitTimesOut(p) ==
  /\ call[p].at = "polling"
  /\ job[call[p].job].status = "active"
  /\ WaitIsOver(call[p].polls)
  /\ UNCHANGED post
  /\ GiveUp(p)

\* fetchModelJob fails: the network, a timeout, a token that has expired.
PollFails(p) ==
  /\ call[p].at = "polling"
  /\ UNCHANGED post
  /\ GiveUp(p)

\* The page is loaded anew, by the user or by the login redirect: the Map of
\* keys and the calls are gone.
Reload ==
  /\ reloads < MaxReloads
  /\ reloads' = reloads + 1
  /\ pending' = [p \in Payload |-> Nothing]
  /\ call'    = [p \in Payload |-> Idle]
  /\ UNCHANGED <<post, server, shown>>

-----------------------------------------------------------------------------
(***************************************************************************)
(* The server: enqueue_generate_job and enqueue_optimize_job.              *)
(***************************************************************************)

Answered(r, a, j) ==
  post' = [post EXCEPT ![r].at = "answered", ![r].answer = a, ![r].job = j]

\* The request is refused before it gets to the key: the token, the role,
\* the parent plan, the body.
Refuse(r) ==
  /\ post[r].at = "sent"
  /\ \E s \in Refusals : Answered(r, s, Nothing)
  /\ UNCHANGED <<pending, call, server, shown, reloads>>

\* claim_idempotency: the key is free, completed, or another request is at it.
Claim(r) ==
  LET k == post[r].key IN
  /\ post[r].at = "sent"
  /\ \/ /\ record[k].status \in {"absent", "expired"}
        /\ record' = [record EXCEPT ![k].status = "in_progress"]
        /\ post' = [post EXCEPT ![r].at = "claimed"]
     \/ /\ record[k].status = "completed"
        /\ Answered(r, "accepted", record[k].job)
        /\ UNCHANGED record
     \/ /\ record[k].status = "in_progress"
        /\ Answered(r, "in_progress", Nothing)
        /\ UNCHANGED record
  /\ UNCHANGED <<pending, call, job, shown, reloads>>

\* enqueue_model_job: the active job of the same body, when there is one.
ActiveJobs(p) == {j \in Job : job[j] = [payload |-> p, status |-> "active"]}

\* Fault: the update that completes the record does not ask for its status.
CompletedToo(k) == record[k].status # "absent"

\* The row that the completion and the release look for.
Claimed(k) == record[k].status \in {"in_progress", "expired"}

\* One transaction: the job, new or found, and the completed record.
Enqueue(r, j) ==
  LET p == post[r].payload IN
  /\ post[r].at = "claimed"
  /\ Claimed(post[r].key)
  /\ \/ j \in ActiveJobs(p) /\ UNCHANGED job
     \/ /\ ActiveJobs(p) = {}
        /\ job[j] = NoJob
        /\ job' = [job EXCEPT ![j] = [payload |-> p, status |-> "active"]]
  /\ record' = [record EXCEPT ![post[r].key] = [status |-> "completed", job |-> j]]
  /\ Answered(r, "accepted", j)
  /\ UNCHANGED <<pending, call, shown, reloads>>

\* _complete_idempotency finds that another request had the key meanwhile:
\* the transaction is rolled back and there is nothing left to release.
EnqueueConflicts(r) ==
  /\ post[r].at = "claimed"
  /\ ~ Claimed(post[r].key)
  /\ Answered(r, "conflict", Nothing)
  /\ UNCHANGED <<pending, call, server, shown, reloads>>

\* The queue is full or the database fails: whatever unfinished record the
\* key has is deleted and the caller told to come back.
EnqueueFails(r) ==
  LET k == post[r].key IN
  /\ post[r].at = "claimed"
  /\ record' = [record EXCEPT ![k] = IF Claimed(k) THEN NoRecord ELSE @]
  /\ Answered(r, "unavailable", Nothing)
  /\ UNCHANGED <<pending, call, job, shown, reloads>>

\* The API process dies under the request.
ServerDies(r) ==
  /\ post[r].at \in {"sent", "claimed"}
  /\ post' = [post EXCEPT ![r].at = "dead"]
  /\ UNCHANGED <<pending, call, server, shown, reloads>>

\* locked_until passes, 180 seconds after the claim, whether or not the
\* request that made it is done.
ClaimExpires(k) ==
  /\ record[k].status = "in_progress"
  /\ record' = [record EXCEPT ![k].status = "expired"]
  /\ UNCHANGED <<pending, call, post, job, shown, reloads>>

\* The worker finishes the job, or handleCancelJob stops it.
JobEnds(j) ==
  /\ job[j].status = "active"
  /\ \E s \in Final : job' = [job EXCEPT ![j].status = s]
  /\ UNCHANGED <<pending, call, post, record, shown, reloads>>

-----------------------------------------------------------------------------
Browse(p) ==
  \/ \E r \in Request : Submit(p, r)
  \/ PostLost(p) \/ PostAnswered(p)
  \/ SeeEnd(p) \/ PollAgain(p) \/ WaitTimesOut(p) \/ PollFails(p)

Serve(r) ==
  \/ Refuse(r) \/ Claim(r) \/ EnqueueConflicts(r) \/ EnqueueFails(r) \/ ServerDies(r)
  \/ \E j \in Job : Enqueue(r, j)

Next ==
  \/ \E p \in Payload : Browse(p)
  \/ Reload
  \/ \E r \in Request : Serve(r) \/ ClaimExpires(r)
  \/ \E j \in Job : JobEnds(j)

Spec == Init /\ [][Next]_vars

\* A page that is not loaded anew and whose token lasts, served by requests
\* that are done within the time of their claims.
Prompt ==
  /\ reloads' = reloads
  /\ \A r \in Request :
       /\ post'[r].answer \notin Refusals
       /\ post[r].at = "claimed" => record'[post[r].key].status # "expired"

PromptNext == Next /\ Prompt
PromptSpec == Init /\ [][PromptNext]_vars

-----------------------------------------------------------------------------
(***************************************************************************)
(* What must hold.                                                         *)
(***************************************************************************)

TypeOK ==
  /\ pending \in [Payload -> Request \cup {Nothing}]
  /\ call \in [Payload -> [at : {"idle", "posting", "polling"}, request : Request \cup {Nothing},
                           job : Job \cup {Nothing}, polls : 0..WaitLimit]]
  /\ post \in [Request -> [payload : Payload \cup {Nothing}, key : Request \cup {Nothing},
                           at : {"unsent", "sent", "claimed", "answered", "dead"},
                           answer : {"none", "accepted", "in_progress", "conflict", "unavailable"}
                                      \cup Refusals,
                           job : Job \cup {Nothing}]]
  /\ record \in [Request -> [status : {"absent", "in_progress", "expired", "completed"},
                             job : Job \cup {Nothing}]]
  /\ job \in [Job -> [payload : Payload \cup {Nothing}, status : {"absent", "active"} \cup Final]]
  /\ shown \subseteq Job
  /\ reloads \in 0..MaxReloads

\* The jobs of a body.
JobsOf(p) == {j \in Job : job[j].payload = p}

\* However many requests were lost, retried and served late, refused or sent
\* from a page loaded anew, a body has one active job.
OneActiveJob ==
  \A p \in Payload : Cardinality({j \in JobsOf(p) : job[j].status \notin Final}) <= 1

\* A model call is paid for twice only when the user asks for it again after
\* having seen how the first ended: a retry of a request whose answer was
\* lost, of an interrupted poll or of a wait that ran out finds its job.
WorkIsNotRepeated ==
  \A p \in Payload : JobsOf(p)' # JobsOf(p) => JobsOf(p) \subseteq shown

\* The other side of it: once the user was shown how a job ended, submitting
\* again never leads back to that job.
FreshAfterTheEnd ==
  \A p \in Payload :
    call[p].at = "posting" /\ call'[p].at = "polling" => call'[p].job \notin shown

\* A kept key never leads to another body's job, whoever the request was
\* that completed its record.
KeysLeadHome ==
  \A p \in Payload :
    /\ pending[p] # Nothing /\ record[pending[p]].job # Nothing
         => record[pending[p]].job \in JobsOf(p)
    /\ call[p].at = "polling" => call[p].job \in JobsOf(p)

\* This short account of the server makes no more of it than is true: to the
\* client it is an idempotent endpoint, as Idempotency is, and
Promise == INSTANCE IdempotentAnswers
  WITH Caller <- Request, Key <- Request, Body <- Payload, Resource <- Job,
       sent     <- [r \in Request |-> IF post[r].at = "unsent" THEN Nothing
                                       ELSE [key |-> post[r].key, body |-> post[r].payload]],
       madeFor  <- [j \in Job |-> job[j].payload],
       bound    <- [k \in Request |-> IF record[k].job = Nothing THEN Nothing
                                       ELSE [body |-> post[k].payload, resource |-> record[k].job]],
       answered <- [r \in Request |-> IF post[r].answer = "accepted" THEN post[r].job ELSE Nothing]

\* a queue of jobs, as ModelJobQueue is.
Queue == INSTANCE JobLifecycle
  WITH phase    <- [j \in Job |-> IF job[j].status = "active" THEN "open" ELSE job[j].status],
       versions <- [j \in Job |-> IF job[j].status = "succeeded" THEN {j} ELSE {}]

ServerInit == Promise!Init /\ Queue!Init
ServerStep == Promise!Next /\ Queue!Next
=============================================================================
