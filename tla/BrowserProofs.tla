--------------------------- MODULE BrowserProofs ---------------------------
(***************************************************************************)
(* Proofs about the pages of the browser: JobClient, for any bodies,       *)
(* requests, jobs, refusals and bounds, ReviewPanel, for any plans, and    *)
(* their behaviours in MCBrowser.                                          *)
(***************************************************************************)
EXTENDS MCBrowser, FiniteSetTheorems, TLAPS

-----------------------------------------------------------------------------
(***************************************************************************)
(* The inductive invariants of the job client.                             *)
(***************************************************************************)

\* The request that made the key k was sent, for the body p.
IsKey(k, p) == post[k].at # "unsent" /\ post[k].payload = p /\ post[k].key = k

\* Every request carries a key that was made for its body, and one that was
\* accepted has the job of its key's record.
PostsFit ==
  \A r \in Request :
    /\ post[r].at = "unsent" => post[r] = Unsent
    /\ post[r].at # "unsent" =>
         /\ post[r].payload \in Payload /\ post[r].key \in Request
         /\ IsKey(post[r].key, post[r].payload)
    /\ post[r].answer = "accepted" =>
         record[post[r].key] = [status |-> "completed", job |-> post[r].job]

\* A record is that of a key; completed, it has a job of the key's body.
RecordsFit ==
  \A k \in Request :
    /\ record[k].status = "completed" <=> record[k].job # Nothing
    /\ record[k].status # "absent" => IsKey(k, post[k].payload)
    /\ record[k].job # Nothing => job[record[k].job].payload = post[k].payload

\* A kept key was made for its body and leads to no job whose end the user was
\* shown; a call waits for an answer under the key that is kept, or for the
\* job the key leads to.
CallsFit ==
  \A p \in Payload :
    /\ pending[p] # Nothing => IsKey(pending[p], p) /\ record[pending[p]].job \notin shown
    /\ call[p].at = "posting" =>
         /\ call[p].request \in Request
         /\ post[call[p].request].at # "unsent"
         /\ post[call[p].request].payload = p
         /\ post[call[p].request].key = pending[p]
    /\ call[p].at = "polling" =>
         /\ pending[p] # Nothing /\ call[p].job \in Job
         /\ record[pending[p]].job = call[p].job

\* Jobs the user was shown have ended, and a body has one that has not.
JobsFit ==
  /\ \A j \in Job : job[j].payload = Nothing <=> job[j].status = "absent"
  /\ \A j \in shown : job[j].status \in Final
  /\ \A i, j \in Job : /\ job[i].payload = job[j].payload
                       /\ job[i].status = "active" /\ job[j].status = "active"
                       => i = j

ClientInv == TypeOK /\ PostsFit /\ RecordsFit /\ CallsFit /\ JobsFit

\* Requests served in time: a claim stands until its request is done, nobody
\* is refused, every key but the one that is kept leads to a job whose end the
\* user was shown, and every job is that of some key.
ClaimsStand ==
  /\ \A r \in Request : post[r].at = "claimed" => record[post[r].key].status = "in_progress"
  /\ \A r, s \in Request : /\ post[r].at = "claimed" /\ post[s].at = "claimed"
                           /\ post[r].key = post[s].key
                           => r = s

NobodyRefused == \A r \in Request : ~ DropsKey(post[r].answer)

KeysSettled ==
  \A k \in Request, p \in Payload :
    IsKey(k, p) /\ k # pending[p] => record[k].job \in shown

JobsHaveKeys ==
  \A j \in Job : job[j].status # "absent" => \E k \in Request : record[k].job = j

PromptInv == ClientInv /\ ClaimsStand /\ NobodyRefused /\ KeysSettled /\ JobsHaveKeys

-----------------------------------------------------------------------------
(***************************************************************************)
(* Types.                                                                  *)
(***************************************************************************)

CallType == [at : {"idle", "posting", "polling"}, request : Request \cup {Nothing},
             job : Job \cup {Nothing}, polls : 0..WaitLimit]

PostType == [payload : Payload \cup {Nothing}, key : Request \cup {Nothing},
             at : {"unsent", "sent", "claimed", "answered", "dead"},
             answer : {"none", "accepted", "in_progress", "conflict", "unavailable"}
                        \cup Refusals,
             job : Job \cup {Nothing}]

RecordType == [status : {"absent", "in_progress", "expired", "completed"}, job : Job \cup {Nothing}]

JobType == [payload : Payload \cup {Nothing}, status : {"absent", "active"} \cup Final]

\* What the handlers write has its type.
LEMMA ValuesAreTyped ==
  /\ Idle \in CallType
  /\ \A r \in Request : Posting(r) \in CallType
  /\ \A j \in Job : Polling(j, 0) \in CallType
  /\ Unsent \in PostType /\ NoRecord \in RecordType /\ NoJob \in JobType
<1>1. 0 \in 0..WaitLimit
  BY ClientAssumption
<1> QED
  BY <1>1 DEF Idle, Posting, Polling, Unsent, NoRecord, NoJob, CallType, PostType, RecordType, JobType

\* The type invariant in these words.
LEMMA TypeOKMeans ==
  TypeOK <=> /\ pending \in [Payload -> Request \cup {Nothing}]
             /\ call \in [Payload -> CallType]
             /\ post \in [Request -> PostType]
             /\ record \in [Request -> RecordType]
             /\ job \in [Job -> JobType]
             /\ shown \subseteq Job
             /\ reloads \in 0..MaxReloads
BY DEF TypeOK, CallType, PostType, RecordType, JobType

\* A page on which nothing has happened.
LEMMA InitClient == Init => PromptInv
<1> SUFFICES ASSUME Init PROVE PromptInv
  OBVIOUS
<1>1. TypeOK
  BY ValuesAreTyped, TypeOKMeans, ClientAssumption DEF Init
<1>2. /\ \A p \in Payload : pending[p] = Nothing /\ call[p].at = "idle"
      /\ \A r \in Request : post[r] = Unsent /\ post[r].at = "unsent" /\ post[r].answer = "none"
      /\ \A k \in Request : record[k].status = "absent" /\ record[k].job = Nothing
      /\ \A j \in Job : job[j].payload = Nothing /\ job[j].status = "absent"
      /\ shown = {}
  BY DEF Init, Idle, Unsent, NoRecord, NoJob
<1>3. PostsFit /\ RecordsFit /\ CallsFit /\ JobsFit
  BY <1>2 DEF PostsFit, RecordsFit, CallsFit, JobsFit
<1>4. ClaimsStand /\ KeysSettled /\ JobsHaveKeys
  BY <1>2 DEF ClaimsStand, KeysSettled, JobsHaveKeys, IsKey
<1>5. NobodyRefused
  BY <1>2, ClientAssumption DEF NobodyRefused, DropsKey
<1> QED
  BY <1>1, <1>3, <1>4, <1>5 DEF PromptInv, ClientInv

-----------------------------------------------------------------------------
(***************************************************************************)
(* Steps of the page.                                                      *)
(***************************************************************************)

\* What the page does but for sending a request: it forgets keys, ends calls,
\* begins to poll, and shows the end of a job, whose key it forgets.
PageMoves ==
  /\ UNCHANGED <<post, record, job>>
  /\ \A p \in Payload :
       /\ pending'[p] \in {pending[p], Nothing}
       /\ call'[p].at = "posting" => call'[p] = call[p] /\ pending'[p] = pending[p]
       /\ call'[p].at = "polling" =>
            /\ pending'[p] = pending[p]
            /\ \/ call[p].at = "polling" /\ call'[p].job = call[p].job
               \/ /\ call[p].at = "posting"
                  /\ post[call[p].request].answer = "accepted"
                  /\ call'[p].job = post[call[p].request].job
  /\ \/ shown' = shown
     \/ \E p \in Payload :
          /\ call[p].at = "polling" /\ job[call[p].job].status \in Final
          /\ pending'[p] = Nothing
          /\ shown' = shown \cup {call[p].job}

\* The types of what a page knows.
LEMMA CallsAreTyped ==
  ASSUME ClientInv, NEW p \in Payload
  PROVE  /\ call[p] \in CallType /\ pending[p] \in Request \cup {Nothing}
         /\ call[p].at = "posting" =>
              /\ call[p].request \in Request
              /\ post[call[p].request] \in PostType
              /\ post[call[p].request].answer = "accepted" => post[call[p].request].job \in Job
         /\ call[p].at = "polling" => call[p].job \in Job
<1>1. /\ call \in [Payload -> CallType] /\ pending \in [Payload -> Request \cup {Nothing}]
      /\ post \in [Request -> PostType] /\ record \in [Request -> RecordType]
  BY TypeOKMeans DEF ClientInv
<1>2. \A r \in Request : post[r].answer = "accepted" => post[r].job \in Job
  <2> SUFFICES ASSUME NEW r \in Request, post[r].answer = "accepted" PROVE post[r].job \in Job
    OBVIOUS
  <2>1. post[r].at # "unsent"
    <3>1. post[r].at = "unsent" => post[r] = Unsent
      BY DEF ClientInv, PostsFit
    <3>2. Unsent.answer = "none"
      BY DEF Unsent
    <3> QED
      BY <3>1, <3>2
  <2>2. post[r].key \in Request /\ record[post[r].key] = [status |-> "completed", job |-> post[r].job]
    BY <2>1 DEF ClientInv, PostsFit
  <2>3. record[post[r].key].job = post[r].job /\ record[post[r].key].job # Nothing
    BY <2>2 DEF ClientInv, RecordsFit
  <2> QED
    BY <1>1, <2>2, <2>3 DEF RecordType
<1> QED
  BY <1>1, <1>2 DEF ClientInv, CallsFit

\* The end of a call without an answer, or with one that tells nothing.
LEMMA GiveUpMoves ==
  ASSUME ClientInv, NEW p \in Payload, GiveUp(p), UNCHANGED post
  PROVE  PageMoves /\ TypeOK'
<1>1. /\ call \in [Payload -> CallType] /\ call' = [call EXCEPT ![p] = Idle]
      /\ UNCHANGED <<pending, post, record, job, shown, reloads>>
  BY TypeOKMeans DEF ClientInv, GiveUp, server
<1>2. \A q \in Payload : call'[q] = call[q] \/ call'[q].at = "idle"
  BY <1>1 DEF Idle
<1>3. PageMoves
  BY <1>1, <1>2 DEF PageMoves
<1>4. TypeOK'
  BY <1>1, TypeOKMeans, ValuesAreTyped DEF ClientInv, TypeOK, CallType
<1> QED
  BY <1>3, <1>4

LEMMA PostAnsweredMoves ==
  ASSUME ClientInv, NEW p \in Payload, PostAnswered(p)
  PROVE  PageMoves /\ TypeOK'
<1> DEFINE r == call[p].request
<1>1. /\ call[p].at = "posting"
      /\ call' = [call EXCEPT ![p] = IF post[r].answer = "accepted"
                                     THEN Polling(post[r].job, 0) ELSE Idle]
      /\ pending' = [pending EXCEPT ![p] = IF DropsKey(post[r].answer) THEN Nothing ELSE @]
      /\ UNCHANGED <<post, record, job, shown, reloads>>
  BY DEF PostAnswered, server
<1>2. /\ call \in [Payload -> CallType] /\ pending \in [Payload -> Request \cup {Nothing}]
  BY TypeOKMeans DEF ClientInv
<1>3. post[r].answer = "accepted" => post[r].job \in Job
  BY <1>1, CallsAreTyped
<1>4. post[r].answer = "accepted" => ~DropsKey(post[r].answer)
  BY ClientAssumption DEF DropsKey
<1>5. \A q \in Payload : q # p => call'[q] = call[q] /\ pending'[q] = pending[q]
  BY <1>1, <1>2
<1>6. /\ pending'[p] \in {pending[p], Nothing}
      /\ call'[p].at \in {"idle", "polling"}
      /\ call'[p].at = "polling" =>
           /\ post[r].answer = "accepted" /\ call'[p].job = post[r].job
           /\ pending'[p] = pending[p]
  BY <1>1, <1>2, <1>4 DEF Polling, Idle
<1>7. PageMoves
  BY <1>1, <1>5, <1>6 DEF PageMoves
<1>8. call' \in [Payload -> CallType] /\ pending' \in [Payload -> Request \cup {Nothing}]
  BY <1>1, <1>2, <1>3, ValuesAreTyped
<1> QED
  BY <1>1, <1>7, <1>8 DEF ClientInv, TypeOK, CallType

LEMMA SeeEndMoves ==
  ASSUME ClientInv, NEW p \in Payload, SeeEnd(p)
  PROVE  PageMoves /\ TypeOK'
<1>1. /\ call[p].at = "polling" /\ job[call[p].job].status \in Final
      /\ shown' = shown \cup {call[p].job}
      /\ pending' = [pending EXCEPT ![p] = Nothing]
      /\ call' = [call EXCEPT ![p] = Idle]
      /\ UNCHANGED <<post, record, job, reloads>>
  BY DEF SeeEnd, KeyAfter, server
<1>2. /\ call \in [Payload -> CallType] /\ pending \in [Payload -> Request \cup {Nothing}]
      /\ shown \subseteq Job
  BY TypeOKMeans DEF ClientInv
<1>3. call[p].job \in Job
  BY <1>1, CallsAreTyped
<1>4. /\ \A q \in Payload : q # p => call'[q] = call[q] /\ pending'[q] = pending[q]
      /\ call'[p].at = "idle" /\ pending'[p] = Nothing
  BY <1>1, <1>2 DEF Idle
<1>5. PageMoves
  BY <1>1, <1>4 DEF PageMoves
<1>6. /\ call' \in [Payload -> CallType] /\ pending' \in [Payload -> Request \cup {Nothing}]
      /\ shown' \subseteq Job
  BY <1>1, <1>2, <1>3, ValuesAreTyped
<1> QED
  BY <1>1, <1>5, <1>6 DEF ClientInv, TypeOK, CallType

LEMMA PollAgainMoves ==
  ASSUME ClientInv, NEW p \in Payload, PollAgain(p)
  PROVE  PageMoves /\ TypeOK'
<1>1. /\ call[p].at = "polling" /\ ~(call[p].polls >= WaitLimit)
      /\ call' = [call EXCEPT ![p].polls = @ + 1]
      /\ UNCHANGED <<pending, post, record, job, shown, reloads>>
  BY DEF PollAgain, WaitIsOver, CountPoll, server
<1>2. call \in [Payload -> CallType]
  BY TypeOKMeans DEF ClientInv
<1>3. call[p].polls + 1 \in 0..WaitLimit
  BY <1>1, <1>2, ClientAssumption DEF CallType
<1>4. /\ \A q \in Payload : q # p => call'[q] = call[q]
      /\ call'[p] = [call[p] EXCEPT !.polls = @ + 1]
  BY <1>1, <1>2
<1>5. call'[p].at = "polling" /\ call'[p].job = call[p].job /\ call'[p] \in CallType
  BY <1>1, <1>2, <1>3, <1>4 DEF CallType
<1>6. PageMoves
  BY <1>1, <1>4, <1>5 DEF PageMoves
<1>7. call' \in [Payload -> CallType]
  BY <1>1, <1>2, <1>4, <1>5
<1> QED
  BY <1>1, <1>6, <1>7 DEF ClientInv, TypeOK, CallType

LEMMA ReloadMoves ==
  ASSUME ClientInv, Reload
  PROVE  PageMoves /\ TypeOK'
<1>1. /\ reloads < MaxReloads /\ reloads' = reloads + 1
      /\ pending' = [p \in Payload |-> Nothing] /\ call' = [p \in Payload |-> Idle]
      /\ UNCHANGED <<post, record, job, shown>>
  BY DEF Reload, server
<1>2. \A q \in Payload : call'[q].at = "idle" /\ pending'[q] = Nothing
  BY <1>1 DEF Idle
<1>3. PageMoves
  BY <1>1, <1>2 DEF PageMoves
<1>4. call' \in [Payload -> CallType] /\ pending' \in [Payload -> Request \cup {Nothing}]
  BY <1>1, ValuesAreTyped
<1>5. reloads' \in 0..MaxReloads
  BY <1>1, ClientAssumption DEF ClientInv, TypeOK
<1> QED
  BY <1>1, <1>3, <1>4, <1>5 DEF ClientInv, TypeOK, CallType

\* What the page does keeps keys, calls and jobs in agreement.
LEMMA PageKeeps ==
  ASSUME ClientInv, PageMoves, TypeOK'
  PROVE  ClientInv'
<1>1. PostsFit' /\ RecordsFit'
  BY DEF ClientInv, PageMoves, PostsFit, RecordsFit, IsKey
<1>2. ASSUME NEW j \in shown', j \notin shown
      PROVE  \E p \in Payload : /\ j \in Job /\ job[j].payload = p /\ job[j].status \in Final
                                /\ pending'[p] = Nothing
  <2>1. PICK p \in Payload : /\ call[p].at = "polling" /\ job[call[p].job].status \in Final
                             /\ pending'[p] = Nothing /\ j = call[p].job
    BY <1>2 DEF PageMoves
  <2>2. /\ pending[p] # Nothing /\ pending[p] \in Request
        /\ record[pending[p]].job = j /\ j \in Job /\ IsKey(pending[p], p)
    BY <2>1, CallsAreTyped DEF ClientInv, CallsFit
  <2>3. job[j].payload = p
    BY <2>2, ClientAssumption DEF ClientInv, RecordsFit, IsKey
  <2> QED
    BY <2>1, <2>2, <2>3
<1>3. JobsFit'
  <2>1. job' = job
    BY DEF PageMoves
  <2> QED
    BY <1>2, <2>1 DEF ClientInv, JobsFit
<1>4. ASSUME NEW p \in Payload, pending'[p] # Nothing
      PROVE  /\ post'[pending'[p]].at # "unsent" /\ post'[pending'[p]].payload = p
             /\ post'[pending'[p]].key = pending'[p]
             /\ record'[pending'[p]].job \notin shown'
  <2>1. pending'[p] = pending[p] /\ record' = record /\ post' = post /\ job' = job
    BY <1>4 DEF PageMoves
  <2>2. IsKey(pending[p], p) /\ record[pending[p]].job \notin shown /\ pending[p] \in Request
    BY <1>4, <2>1, CallsAreTyped DEF ClientInv, CallsFit
  <2>3. ASSUME record[pending[p]].job \in shown' PROVE FALSE
    <3>1. PICK q \in Payload : /\ record[pending[p]].job \in Job
                               /\ job[record[pending[p]].job].payload = q /\ pending'[q] = Nothing
      BY <1>2, <2>2, <2>3
    <3>2. job[record[pending[p]].job].payload = p
      BY <2>2, <3>1, ClientAssumption DEF ClientInv, RecordsFit, IsKey
    <3> QED
      BY <1>4, <3>1, <3>2
  <2> QED
    BY <2>1, <2>2, <2>3 DEF IsKey
<1>5. ASSUME NEW p \in Payload, call'[p].at = "posting"
      PROVE  /\ call'[p].request \in Request
             /\ post'[call'[p].request].at # "unsent"
             /\ post'[call'[p].request].payload = p
             /\ post'[call'[p].request].key = pending'[p]
  BY <1>5 DEF ClientInv, CallsFit, PageMoves
<1>6. ASSUME NEW p \in Payload, call'[p].at = "polling"
      PROVE  /\ pending'[p] # Nothing /\ call'[p].job \in Job
             /\ record'[pending'[p]].job = call'[p].job
  <2>1. pending'[p] = pending[p] /\ record' = record
    BY <1>6 DEF PageMoves
  <2>2. CASE call[p].at = "polling" /\ call'[p].job = call[p].job
    BY <2>1, <2>2 DEF ClientInv, CallsFit
  <2>3. CASE /\ call[p].at = "posting" /\ post[call[p].request].answer = "accepted"
             /\ call'[p].job = post[call[p].request].job
    <3> DEFINE r == call[p].request
    <3>1. /\ r \in Request /\ post[r].at # "unsent" /\ post[r].key = pending[p]
          /\ post[r].key \in Request /\ post[r].job \in Job
      BY <2>3, CallsAreTyped DEF ClientInv, CallsFit, PostsFit
    <3>2. record[post[r].key] = [status |-> "completed", job |-> post[r].job]
      BY <2>3, <3>1 DEF ClientInv, PostsFit
    <3> QED
      BY <2>1, <2>3, <3>1, <3>2, ClientAssumption
  <2> QED
    BY <1>6, <2>2, <2>3 DEF PageMoves
<1>7. CallsFit'
  BY <1>4, <1>5, <1>6 DEF CallsFit, IsKey
<1> QED
  BY <1>1, <1>3, <1>7 DEF ClientInv

-----------------------------------------------------------------------------
(***************************************************************************)
(* A request is sent.                                                      *)
(***************************************************************************)

\* What sending a request does: the key is the one that is kept, or the
\* request's own.
LEMMA SubmitMoves ==
  ASSUME ClientInv, NEW p \in Payload, NEW r \in Request, Submit(p, r)
  PROVE  \E k \in Request :
           /\ post[r].at = "unsent"
           /\ k = r \/ k = pending[p]
           /\ pending[p] # Nothing => k = pending[p]
           /\ pending'[p] = k /\ call'[p].at = "posting" /\ call'[p].request = r
           /\ post'[r].payload = p /\ post'[r].key = k /\ post'[r].at = "sent"
           /\ post'[r].answer = "none"
           /\ \A q \in Payload \ {p} : pending'[q] = pending[q] /\ call'[q] = call[q]
           /\ \A s \in Request \ {r} : post'[s] = post[s]
           /\ UNCHANGED <<record, job, shown, reloads>>
           /\ TypeOK'
<1>1. /\ post[r] = Unsent
      /\ pending' = [pending EXCEPT ![p] = KeyFor(p, r)]
      /\ post' = [post EXCEPT ![r] = [Unsent EXCEPT !.payload = p, !.key = KeyFor(p, r), !.at = "sent"]]
      /\ call' = [call EXCEPT ![p] = Posting(r)]
      /\ UNCHANGED <<record, job, shown, reloads>>
  BY DEF Submit, server
<1>2. /\ call \in [Payload -> CallType] /\ pending \in [Payload -> Request \cup {Nothing}]
      /\ post \in [Request -> PostType]
  BY TypeOKMeans DEF ClientInv
<1>3. /\ KeyFor(p, r) \in Request /\ (KeyFor(p, r) = r \/ KeyFor(p, r) = pending[p])
      /\ pending[p] # Nothing => KeyFor(p, r) = pending[p]
  BY <1>2 DEF KeyFor
<1> DEFINE sent == [Unsent EXCEPT !.payload = p, !.key = KeyFor(p, r), !.at = "sent"]
<1>4. sent \in PostType
  BY <1>3, ValuesAreTyped DEF PostType, Unsent
<1>5. /\ sent.payload = p /\ sent.key = KeyFor(p, r) /\ sent.at = "sent" /\ sent.answer = "none"
      /\ Posting(r).at = "posting" /\ Posting(r).request = r /\ Unsent.at = "unsent"
  BY DEF Unsent, Posting
<1>6. /\ post'[r] = sent /\ \A s \in Request \ {r} : post'[s] = post[s]
      /\ post' \in [Request -> PostType]
  BY <1>1, <1>2, <1>4
<1>7. /\ call'[p] = Posting(r) /\ pending'[p] = KeyFor(p, r)
      /\ \A q \in Payload \ {p} : pending'[q] = pending[q] /\ call'[q] = call[q]
      /\ call' \in [Payload -> CallType] /\ pending' \in [Payload -> Request \cup {Nothing}]
  BY <1>1, <1>2, <1>3, ValuesAreTyped
<1>8. TypeOK'
  BY <1>1, <1>6, <1>7 DEF ClientInv, TypeOK, CallType, PostType
<1> HIDE DEF sent
<1> QED
  BY ZenonT(60), <1>1, <1>3, <1>5, <1>6, <1>7, <1>8

\* A request under a key that was made for its body.
LEMMA SubmitKeeps ==
  ASSUME ClientInv, NEW p \in Payload, NEW r \in Request, Submit(p, r)
  PROVE  ClientInv'
<1>1. PICK k \in Request :
        /\ post[r].at = "unsent"
        /\ k = r \/ k = pending[p]
        /\ pending[p] # Nothing => k = pending[p]
        /\ pending'[p] = k /\ call'[p].at = "posting" /\ call'[p].request = r
        /\ post'[r].payload = p /\ post'[r].key = k /\ post'[r].at = "sent"
        /\ post'[r].answer = "none"
        /\ \A q \in Payload \ {p} : pending'[q] = pending[q] /\ call'[q] = call[q]
        /\ \A s \in Request \ {r} : post'[s] = post[s]
        /\ UNCHANGED <<record, job, shown, reloads>>
        /\ TypeOK'
  BY SubmitMoves
<1>2. \A i \in Request : \A q : /\ IsKey(i, q) => i # r
                                /\ i # r => (IsKey(i, q)' <=> IsKey(i, q))
  BY <1>1 DEF IsKey
<1>3. IsKey(k, p)'
  <2>1. CASE k = r
    BY <1>1, <2>1 DEF IsKey
  <2>2. CASE k # r
    <3>1. IsKey(k, p)
      BY <1>1, <2>2, ClientAssumption DEF ClientInv, CallsFit
    <3> QED
      BY <1>2, <2>2, <3>1
  <2> QED
    BY <2>1, <2>2
<1>4. PostsFit'
  <2> SUFFICES ASSUME NEW s \in Request
               PROVE  /\ post'[s].at = "unsent" => post'[s] = Unsent
                      /\ post'[s].at # "unsent" =>
                           /\ post'[s].payload \in Payload /\ post'[s].key \in Request
                           /\ post'[post'[s].key].at # "unsent"
                           /\ post'[post'[s].key].payload = post'[s].payload
                           /\ post'[post'[s].key].key = post'[s].key
                      /\ post'[s].answer = "accepted" =>
                           record'[post'[s].key] = [status |-> "completed", job |-> post'[s].job]
    BY DEF PostsFit, IsKey
  <2>1. CASE s = r
    BY <1>1, <1>3, <2>1 DEF IsKey
  <2>2. CASE s # r
    <3>1. post'[s] = post[s] /\ record' = record
      BY <1>1, <2>2
    <3>2. post[s].at # "unsent" => /\ post[s].payload \in Payload /\ post[s].key \in Request
                                   /\ IsKey(post[s].key, post[s].payload)
      BY DEF ClientInv, PostsFit
    <3>3. post[s].at # "unsent" => post'[post[s].key] = post[post[s].key]
      BY <1>1, <1>2, <3>2
    <3> QED
      BY <3>1, <3>2, <3>3 DEF ClientInv, PostsFit, IsKey
  <2> QED
    BY <2>1, <2>2
<1>5. RecordsFit'
  <2> SUFFICES ASSUME NEW i \in Request
               PROVE  /\ record'[i].status = "completed" <=> record'[i].job # Nothing
                      /\ record'[i].status # "absent" =>
                           post'[i].at # "unsent" /\ post'[i].key = i
                      /\ record'[i].job # Nothing => job'[record'[i].job].payload = post'[i].payload
    BY DEF RecordsFit, IsKey
  <2>1. record[i].status # "absent" => i # r
    BY <1>2 DEF ClientInv, RecordsFit
  <2>2. record[i].job # Nothing => record[i].status # "absent"
    BY DEF ClientInv, RecordsFit
  <2> QED
    BY <1>1, <2>1, <2>2 DEF ClientInv, RecordsFit, IsKey
<1>6. CallsFit'
  <2> SUFFICES ASSUME NEW q \in Payload
               PROVE  /\ pending'[q] # Nothing =>
                           /\ post'[pending'[q]].at # "unsent" /\ post'[pending'[q]].payload = q
                           /\ post'[pending'[q]].key = pending'[q]
                           /\ record'[pending'[q]].job \notin shown'
                      /\ call'[q].at = "posting" =>
                           /\ call'[q].request \in Request
                           /\ post'[call'[q].request].at # "unsent"
                           /\ post'[call'[q].request].payload = q
                           /\ post'[call'[q].request].key = pending'[q]
                      /\ call'[q].at = "polling" =>
                           /\ pending'[q] # Nothing /\ call'[q].job \in Job
                           /\ record'[pending'[q]].job = call'[q].job
    BY DEF CallsFit, IsKey
  <2>1. CASE q = p
    <3>1. record[k].job \notin shown
      <4>1. CASE pending[p] # Nothing
        BY <1>1, <4>1 DEF ClientInv, CallsFit
      <4>2. CASE pending[p] = Nothing
        <5>1. k = r
          BY <1>1, <4>2, ClientAssumption
        <5>2. record[r].status = "absent"
          BY <1>2 DEF ClientInv, RecordsFit
        <5>3. record[r].job = Nothing
          BY <5>2 DEF ClientInv, RecordsFit
        <5> QED
          BY <5>1, <5>3, ClientAssumption DEF ClientInv, TypeOK
      <4> QED
        BY <4>1, <4>2
    <3> QED
      BY <1>1, <1>3, <2>1, <3>1 DEF IsKey
  <2>2. CASE q # p
    <3>1. /\ pending'[q] = pending[q] /\ call'[q] = call[q] /\ record' = record /\ shown' = shown
      BY <1>1, <2>2
    <3>2. pending[q] # Nothing => pending[q] \in Request /\ IsKey(pending[q], q)
      BY CallsAreTyped DEF ClientInv, CallsFit
    <3>3. pending[q] # Nothing => post'[pending[q]] = post[pending[q]]
      BY <1>1, <1>2, <3>2
    <3>4. call[q].at = "posting" => post'[call[q].request] = post[call[q].request]
      BY <1>1, CallsAreTyped DEF ClientInv, CallsFit
    <3> QED
      BY <3>1, <3>2, <3>3, <3>4 DEF ClientInv, CallsFit, IsKey
  <2> QED
    BY <2>1, <2>2
<1>7. JobsFit'
  BY <1>1 DEF ClientInv, JobsFit
<1> QED
  BY <1>1, <1>4, <1>5, <1>6, <1>7 DEF ClientInv

-----------------------------------------------------------------------------
(***************************************************************************)
(* Steps of the server.                                                    *)
(***************************************************************************)

\* The request r goes on; nothing of the page changes, nor what the request
\* is.
Serving(r) ==
  /\ UNCHANGED <<pending, call, shown, reloads>>
  /\ post[r].at # "unsent" /\ post'[r].at # "unsent"
  /\ post'[r].payload = post[r].payload /\ post'[r].key = post[r].key
  /\ \A s \in Request \ {r} : post'[s] = post[s]

\* No record is completed and no job made; what is answered is known already.
NothingMade(r) ==
  /\ job' = job
  /\ \A k \in Request :
       /\ record'[k].status = "completed" <=> record[k].status = "completed"
       /\ record[k].status = "completed" => record'[k] = record[k]
       /\ record'[k].job = record[k].job
       /\ record'[k].status # "absent" => record[k].status # "absent" \/ k = post[r].key
  /\ post'[r].answer = "accepted" =>
       record[post[r].key] = [status |-> "completed", job |-> post'[r].job]

\* What a request that is under way looks like.
LEMMA PostsAreTyped ==
  ASSUME ClientInv, NEW r \in Request, post[r].at # "unsent"
  PROVE  /\ post[r] \in PostType /\ post[r].payload \in Payload
         /\ post[r].key \in Request /\ post[post[r].key] \in PostType
         /\ record[post[r].key] \in RecordType
         /\ IsKey(post[r].key, post[r].payload)
BY TypeOKMeans DEF ClientInv, PostsFit

LEMMA KeysStay ==
  ASSUME ClientInv, NEW r \in Request, Serving(r), NEW k \in Request, NEW p
  PROVE  IsKey(k, p)' <=> IsKey(k, p)
BY DEF Serving, IsKey

\* Requests stay what they are.
LEMMA PostsStay ==
  ASSUME ClientInv, NEW r \in Request, Serving(r), NEW s \in Request, post'[s].at # "unsent"
  PROVE  /\ post[s].at # "unsent" /\ post'[s].payload = post[s].payload /\ post'[s].key = post[s].key
         /\ post[s].payload \in Payload /\ post[s].key \in Request
         /\ post'[post'[s].key].at # "unsent"
         /\ post'[post'[s].key].payload = post'[s].payload
         /\ post'[post'[s].key].key = post'[s].key
<1>1. /\ post[s].at # "unsent" /\ post'[s].payload = post[s].payload /\ post'[s].key = post[s].key
  BY DEF Serving
<1>2. post[s].payload \in Payload /\ post[s].key \in Request /\ IsKey(post[s].key, post[s].payload)
  BY <1>1, PostsAreTyped
<1> QED
  BY <1>1, <1>2 DEF IsKey, Serving

\* A step in which nothing is made.
LEMMA NothingMadeKeeps ==
  ASSUME ClientInv, NEW r \in Request, Serving(r), NothingMade(r), TypeOK'
  PROVE  ClientInv'
<1>1. /\ post[r].key \in Request /\ IsKey(post[r].key, post[r].payload)
  BY PostsAreTyped DEF Serving
<1>2. PostsFit'
  <2> SUFFICES ASSUME NEW s \in Request
               PROVE  /\ post'[s].at = "unsent" => post'[s] = Unsent
                      /\ post'[s].at # "unsent" =>
                           /\ post'[s].payload \in Payload /\ post'[s].key \in Request
                           /\ post'[post'[s].key].at # "unsent"
                           /\ post'[post'[s].key].payload = post'[s].payload
                           /\ post'[post'[s].key].key = post'[s].key
                      /\ post'[s].answer = "accepted" =>
                           record'[post'[s].key] = [status |-> "completed", job |-> post'[s].job]
    BY DEF PostsFit, IsKey
  <2>1. post'[s].at = "unsent" => post'[s] = Unsent
    BY DEF Serving, ClientInv, PostsFit
  <2>2. ASSUME post'[s].answer = "accepted"
        PROVE  record'[post'[s].key] = [status |-> "completed", job |-> post'[s].job]
    <3>1. post'[s].at # "unsent"
      BY <2>1, <2>2 DEF Unsent
    <3>2. post[s].key \in Request /\ post'[s].key = post[s].key
      BY <3>1, PostsStay
    <3>3. record[post[s].key] = [status |-> "completed", job |-> post'[s].job]
      BY <2>2 DEF Serving, NothingMade, ClientInv, PostsFit
    <3>4. record[post[s].key].status = "completed"
      BY <3>3
    <3> QED
      BY <3>2, <3>3, <3>4 DEF NothingMade
  <2> QED
    BY <2>1, <2>2, PostsStay
<1>3. RecordsFit'
  <2> SUFFICES ASSUME NEW k \in Request
               PROVE  /\ record'[k].status = "completed" <=> record'[k].job # Nothing
                      /\ record'[k].status # "absent" =>
                           post'[k].at # "unsent" /\ post'[k].key = k
                      /\ record'[k].job # Nothing => job'[record'[k].job].payload = post'[k].payload
    BY DEF RecordsFit, IsKey
  <2>1. record'[k].status # "absent" => IsKey(k, post[k].payload)
    BY <1>1 DEF NothingMade, ClientInv, RecordsFit, IsKey
  <2>2. post'[k].payload = post[k].payload
    BY DEF Serving
  <2>3. record'[k].status # "absent" => post'[k].at # "unsent" /\ post'[k].key = k
    BY <2>1 DEF Serving, IsKey
  <2> QED
    BY <2>2, <2>3 DEF NothingMade, ClientInv, RecordsFit
<1>4. CallsFit'
  <2> SUFFICES ASSUME NEW q \in Payload
               PROVE  /\ pending'[q] # Nothing =>
                           /\ post'[pending'[q]].at # "unsent" /\ post'[pending'[q]].payload = q
                           /\ post'[pending'[q]].key = pending'[q]
                           /\ record'[pending'[q]].job \notin shown'
                      /\ call'[q].at = "posting" =>
                           /\ call'[q].request \in Request
                           /\ post'[call'[q].request].at # "unsent"
                           /\ post'[call'[q].request].payload = q
                           /\ post'[call'[q].request].key = pending'[q]
                      /\ call'[q].at = "polling" =>
                           /\ pending'[q] # Nothing /\ call'[q].job \in Job
                           /\ record'[pending'[q]].job = call'[q].job
    BY DEF CallsFit, IsKey
  <2>1. pending' = pending /\ call' = call /\ shown' = shown
    BY DEF Serving
  <2>2. \A k \in Request : record'[k].job = record[k].job
    BY DEF NothingMade
  <2>3. pending[q] # Nothing => pending[q] \in Request
    BY CallsAreTyped
  <2>4. pending[q] # Nothing =>
          /\ post'[pending[q]].at # "unsent" /\ post'[pending[q]].payload = q
          /\ post'[pending[q]].key = pending[q]
          /\ record[pending[q]].job \notin shown
    BY <2>3 DEF ClientInv, CallsFit, IsKey, Serving
  <2>5. call[q].at = "posting" =>
          /\ call[q].request \in Request
          /\ post'[call[q].request].at # "unsent"
          /\ post'[call[q].request].payload = q
          /\ post'[call[q].request].key = pending[q]
    BY DEF ClientInv, CallsFit, Serving
  <2>6. call[q].at = "polling" =>
          pending[q] # Nothing /\ call[q].job \in Job /\ record[pending[q]].job = call[q].job
    BY DEF ClientInv, CallsFit
  <2> QED
    BY <2>1, <2>2, <2>3, <2>4, <2>5, <2>6
<1>5. JobsFit'
  BY DEF ClientInv, JobsFit, NothingMade, Serving
<1> QED
  BY <1>2, <1>3, <1>4, <1>5 DEF ClientInv

\* An answer is written down, and nothing else of the request changes.
LEMMA AnswerServes ==
  ASSUME ClientInv, NEW r \in Request, post[r].at # "unsent", NEW a, NEW j \in Job \cup {Nothing},
         a \in {"accepted", "in_progress", "conflict", "unavailable"} \cup Refusals,
         Answered(r, a, j), UNCHANGED <<pending, call, shown, reloads>>
  PROVE  /\ Serving(r) /\ post' \in [Request -> PostType]
         /\ post'[r].at = "answered" /\ post'[r].answer = a /\ post'[r].job = j
<1>1. post \in [Request -> PostType] /\ post[r] \in PostType
  BY PostsAreTyped, TypeOKMeans DEF ClientInv
<1>2. post' = [post EXCEPT ![r] = [post[r] EXCEPT !.at = "answered", !.answer = a, !.job = j]]
  BY <1>1 DEF Answered, PostType
<1>3. [post[r] EXCEPT !.at = "answered", !.answer = a, !.job = j] \in PostType
  BY <1>1 DEF PostType
<1>4. /\ post'[r] = [post[r] EXCEPT !.at = "answered", !.answer = a, !.job = j]
      /\ \A s \in Request \ {r} : post'[s] = post[s]
      /\ post' \in [Request -> PostType]
  BY <1>1, <1>2, <1>3
<1>5. /\ post'[r].at = "answered" /\ post'[r].answer = a /\ post'[r].job = j
      /\ post'[r].payload = post[r].payload /\ post'[r].key = post[r].key
  BY <1>1, <1>4 DEF PostType
<1> QED
  BY <1>4, <1>5 DEF Serving

\* The request reaches another place.
LEMMA MoveServes ==
  ASSUME ClientInv, NEW r \in Request, post[r].at # "unsent",
         NEW place \in {"claimed", "dead"}, post' = [post EXCEPT ![r].at = place],
         UNCHANGED <<pending, call, shown, reloads>>
  PROVE  /\ Serving(r) /\ post' \in [Request -> PostType]
         /\ post'[r].at = place /\ post'[r].answer = post[r].answer /\ post'[r].job = post[r].job
<1>1. post \in [Request -> PostType] /\ post[r] \in PostType
  BY PostsAreTyped, TypeOKMeans DEF ClientInv
<1>2. [post[r] EXCEPT !.at = place] \in PostType
  BY <1>1 DEF PostType
<1>3. /\ post'[r] = [post[r] EXCEPT !.at = place]
      /\ \A s \in Request \ {r} : post'[s] = post[s]
      /\ post' \in [Request -> PostType]
  BY <1>1, <1>2
<1>4. /\ post'[r].at = place /\ post'[r].answer = post[r].answer /\ post'[r].job = post[r].job
      /\ post'[r].payload = post[r].payload /\ post'[r].key = post[r].key
  BY <1>1, <1>3 DEF PostType
<1> QED
  BY <1>3, <1>4 DEF Serving

\* The records and jobs of a step in which only an answer is given.
LEMMA OnlyAnAnswer ==
  ASSUME ClientInv, NEW r \in Request, Serving(r), post' \in [Request -> PostType],
         UNCHANGED <<record, job>>,
         post'[r].answer = "accepted" =>
           record[post[r].key] = [status |-> "completed", job |-> post'[r].job]
  PROVE  NothingMade(r) /\ TypeOK'
<1>1. NothingMade(r)
  BY DEF NothingMade
<1>2. TypeOK'
  BY DEF ClientInv, TypeOK, Serving, PostType
<1> QED
  BY <1>1, <1>2

\* A record is begun, deleted or expires.
LEMMA RecordTurns ==
  ASSUME ClientInv, NEW r \in Request, Serving(r), post' \in [Request -> PostType], job' = job,
         NEW new \in {"absent", "in_progress", "expired"},
         record[post[r].key].status # "completed",
         record' = [record EXCEPT ![post[r].key].status = new],
         post'[r].answer # "accepted"
  PROVE  NothingMade(r) /\ TypeOK'
<1> DEFINE k == post[r].key
<1>1. k \in Request /\ record[k] \in RecordType /\ record \in [Request -> RecordType]
  BY PostsAreTyped, TypeOKMeans DEF Serving, ClientInv
<1>2. /\ record'[k] = [record[k] EXCEPT !.status = new]
      /\ \A i \in Request \ {k} : record'[i] = record[i]
  BY <1>1
<1>3. record'[k].status = new /\ record'[k].job = record[k].job /\ record'[k] \in RecordType
  BY <1>1, <1>2 DEF RecordType
<1>4. NothingMade(r)
  BY <1>1, <1>2, <1>3 DEF NothingMade
<1>5. record' \in [Request -> RecordType]
  BY <1>1, <1>2, <1>3
<1>6. TypeOK'
  BY <1>5 DEF ClientInv, TypeOK, Serving, PostType, RecordType
<1> QED
  BY <1>4, <1>6

LEMMA RefuseKeeps ==
  ASSUME ClientInv, NEW r \in Request, Refuse(r)
  PROVE  ClientInv' /\ Serving(r) /\ NothingMade(r)
<1>1. PICK s \in Refusals : Answered(r, s, Nothing)
  BY DEF Refuse
<1>2. post[r].at # "unsent" /\ UNCHANGED <<pending, call, record, job, shown, reloads>>
  BY DEF Refuse, server
<1>3. /\ Serving(r) /\ post' \in [Request -> PostType] /\ post'[r].answer = s
  BY <1>1, <1>2, AnswerServes
<1>4. s # "accepted"
  BY ClientAssumption
<1>5. NothingMade(r) /\ TypeOK'
  BY <1>2, <1>3, <1>4, OnlyAnAnswer
<1> QED
  BY <1>3, <1>5, NothingMadeKeeps

LEMMA ClaimKeeps ==
  ASSUME ClientInv, NEW r \in Request, Claim(r)
  PROVE  ClientInv' /\ Serving(r) /\ NothingMade(r)
<1> DEFINE k == post[r].key
<1>1. post[r].at # "unsent" /\ UNCHANGED <<pending, call, job, shown, reloads>>
  BY DEF Claim
<1>2. k \in Request /\ record[k] \in RecordType
  BY <1>1, PostsAreTyped
<1>3. CASE /\ record[k].status \in {"absent", "expired"}
           /\ record' = [record EXCEPT ![k].status = "in_progress"]
           /\ post' = [post EXCEPT ![r].at = "claimed"]
  <2>1. Serving(r) /\ post' \in [Request -> PostType] /\ post'[r].answer = post[r].answer
    BY <1>1, <1>3, MoveServes
  <2>2. post[r].answer # "accepted"
    <3>1. record[k].status # "completed"
      BY <1>3
    <3>2. post[r].answer = "accepted" => record[k] = [status |-> "completed", job |-> post[r].job]
      BY DEF ClientInv, PostsFit
    <3> QED
      BY <3>1, <3>2
  <2>3. record[k].status # "completed"
    BY <1>3
  <2>4. NothingMade(r) /\ TypeOK'
    BY <1>1, <1>3, <2>1, <2>2, <2>3, RecordTurns
  <2> QED
    BY <2>1, <2>4, NothingMadeKeeps
<1>4. CASE /\ record[k].status = "completed"
           /\ Answered(r, "accepted", record[k].job)
           /\ UNCHANGED record
  <2>1. record[k].job \in Job \cup {Nothing} /\ record[k] = [status |-> "completed", job |-> record[k].job]
    BY <1>2, <1>4 DEF RecordType
  <2>2. Serving(r) /\ post' \in [Request -> PostType] /\ post'[r].job = record[k].job
    BY <1>1, <1>4, <2>1, AnswerServes
  <2>3. NothingMade(r) /\ TypeOK'
    BY <1>1, <1>4, <2>1, <2>2, OnlyAnAnswer
  <2> QED
    BY <2>2, <2>3, NothingMadeKeeps
<1>5. CASE Answered(r, "in_progress", Nothing) /\ UNCHANGED record
  <2>1. Serving(r) /\ post' \in [Request -> PostType] /\ post'[r].answer = "in_progress"
    BY <1>1, <1>5, AnswerServes
  <2>2. NothingMade(r) /\ TypeOK'
    BY <1>1, <1>5, <2>1, OnlyAnAnswer
  <2> QED
    BY <2>1, <2>2, NothingMadeKeeps
<1> QED
  BY <1>3, <1>4, <1>5 DEF Claim

LEMMA ConflictKeeps ==
  ASSUME ClientInv, NEW r \in Request, EnqueueConflicts(r)
  PROVE  ClientInv' /\ Serving(r) /\ NothingMade(r)
<1>1. /\ post[r].at # "unsent" /\ UNCHANGED <<pending, call, record, job, shown, reloads>>
      /\ Answered(r, "conflict", Nothing)
  BY DEF EnqueueConflicts, server
<1>2. Serving(r) /\ post' \in [Request -> PostType] /\ post'[r].answer = "conflict"
  BY <1>1, AnswerServes
<1>3. NothingMade(r) /\ TypeOK'
  BY <1>1, <1>2, OnlyAnAnswer
<1> QED
  BY <1>2, <1>3, NothingMadeKeeps

LEMMA FailsKeeps ==
  ASSUME ClientInv, NEW r \in Request, EnqueueFails(r)
  PROVE  ClientInv' /\ Serving(r) /\ NothingMade(r)
<1> DEFINE k == post[r].key
<1>1. /\ post[r].at # "unsent" /\ UNCHANGED <<pending, call, job, shown, reloads>>
      /\ Answered(r, "unavailable", Nothing)
      /\ record' = [record EXCEPT ![k] = IF Claimed(k) THEN NoRecord ELSE @]
  BY DEF EnqueueFails
<1>2. Serving(r) /\ post' \in [Request -> PostType] /\ post'[r].answer = "unavailable"
  BY <1>1, AnswerServes
<1>3. k \in Request /\ record[k] \in RecordType /\ record \in [Request -> RecordType]
  BY <1>1, PostsAreTyped, TypeOKMeans DEF ClientInv
<1>4. CASE Claimed(k)
  <2>1. record[k].status # "completed" /\ record[k].job = Nothing
    BY <1>3, <1>4 DEF Claimed, ClientInv, RecordsFit
  <2>2. [record[k] EXCEPT !.status = "absent"] = NoRecord
    BY <1>3, <2>1 DEF RecordType, NoRecord
  <2>3. record' = [record EXCEPT ![k].status = "absent"]
    BY <1>1, <1>4, <2>2
  <2>4. NothingMade(r) /\ TypeOK'
    BY <1>1, <1>2, <2>1, <2>3, RecordTurns
  <2> QED
    BY <1>2, <2>4, NothingMadeKeeps
<1>5. CASE ~Claimed(k)
  <2>1. record' = record
    BY <1>1, <1>3, <1>5
  <2>2. NothingMade(r) /\ TypeOK'
    BY <1>1, <1>2, <2>1, OnlyAnAnswer
  <2> QED
    BY <1>2, <2>2, NothingMadeKeeps
<1> QED
  BY <1>4, <1>5

LEMMA DeathKeeps ==
  ASSUME ClientInv, NEW r \in Request, ServerDies(r)
  PROVE  ClientInv' /\ Serving(r) /\ NothingMade(r)
<1>1. /\ post[r].at # "unsent" /\ UNCHANGED <<pending, call, record, job, shown, reloads>>
      /\ post' = [post EXCEPT ![r].at = "dead"]
  BY DEF ServerDies, server
<1>2. /\ Serving(r) /\ post' \in [Request -> PostType]
      /\ post'[r].answer = post[r].answer /\ post'[r].job = post[r].job
  BY <1>1, MoveServes
<1>3. post[r].answer = "accepted" =>
        record[post[r].key] = [status |-> "completed", job |-> post[r].job]
  BY DEF ClientInv, PostsFit
<1>4. NothingMade(r) /\ TypeOK'
  BY <1>1, <1>2, <1>3, OnlyAnAnswer
<1> QED
  BY <1>2, <1>4, NothingMadeKeeps

LEMMA ExpiryKeeps ==
  ASSUME ClientInv, NEW k \in Request, ClaimExpires(k)
  PROVE  ClientInv' /\ Serving(k) /\ NothingMade(k) /\ post[k].key = k
<1>1. /\ record[k].status = "in_progress"
      /\ record' = [record EXCEPT ![k].status = "expired"]
      /\ UNCHANGED <<pending, call, post, job, shown, reloads>>
  BY DEF ClaimExpires
<1>2. post[k].at # "unsent" /\ post[k].key = k
  BY <1>1 DEF ClientInv, RecordsFit, IsKey
<1>3. Serving(k) /\ post' \in [Request -> PostType]
  BY <1>1, <1>2, TypeOKMeans DEF Serving, ClientInv
<1>4. post'[k].answer # "accepted"
  <2>1. post[k].answer = "accepted" => record[k] = [status |-> "completed", job |-> post[k].job]
    BY <1>2 DEF ClientInv, PostsFit
  <2> QED
    BY <1>1, <2>1
<1>5. NothingMade(k) /\ TypeOK'
  BY <1>1, <1>2, <1>3, <1>4, RecordTurns
<1> QED
  BY <1>2, <1>3, <1>5, NothingMadeKeeps

\* A job ends: what the user was shown and what keys lead to stays.
LEMMA JobEndsKeeps ==
  ASSUME ClientInv, NEW j \in Job, JobEnds(j)
  PROVE  /\ ClientInv' /\ UNCHANGED <<pending, call, post, record, shown, reloads>>
         /\ \A i \in Job : /\ job'[i].payload = job[i].payload
                           /\ job'[i].status = "absent" <=> job[i].status = "absent"
<1>1. PICK s \in Final : job' = [job EXCEPT ![j].status = s]
  BY DEF JobEnds
<1>2. /\ job[j].status = "active" /\ UNCHANGED <<pending, call, post, record, shown, reloads>>
  BY DEF JobEnds
<1>3. job \in [Job -> JobType] /\ job[j] \in JobType
  BY TypeOKMeans DEF ClientInv
<1>4. [job[j] EXCEPT !.status = s] \in JobType
  BY <1>3 DEF JobType
<1>5. /\ job'[j] = [job[j] EXCEPT !.status = s] /\ job' \in [Job -> JobType]
      /\ \A i \in Job \ {j} : job'[i] = job[i]
  BY <1>1, <1>3, <1>4
<1>6. job'[j].status = s /\ job'[j].payload = job[j].payload
  BY <1>3, <1>5 DEF JobType
<1>7. s \notin {"absent", "active"}
  BY DEF Final
<1>8. TypeOK'
  BY <1>2, <1>5 DEF ClientInv, TypeOK, JobType
<1>9. PostsFit'
  BY <1>2 DEF ClientInv, PostsFit, IsKey
<1>10. RecordsFit'
  <2>1. \A k \in Request : record[k].job # Nothing => record[k].job \in Job
    BY TypeOKMeans DEF ClientInv, RecordType
  <2>2. \A i \in Job : job'[i].payload = job[i].payload
    BY <1>5, <1>6
  <2> QED
    BY <1>2, <2>1, <2>2 DEF ClientInv, RecordsFit, IsKey
<1>11. CallsFit'
  BY <1>2 DEF ClientInv, CallsFit, IsKey
<1>12. JobsFit'
  <2>1. \A i \in Job : job'[i].payload = Nothing <=> job'[i].status = "absent"
    BY <1>2, <1>5, <1>6, <1>7 DEF ClientInv, JobsFit
  <2>2. \A i \in shown' : job'[i].status \in Final
    <3>1. shown' = shown /\ shown \subseteq Job
      BY <1>2 DEF ClientInv, TypeOK
    <3> QED
      BY <1>5, <1>6, <3>1 DEF ClientInv, JobsFit
  <2>3. ASSUME NEW i \in Job, NEW l \in Job, job'[i].payload = job'[l].payload,
               job'[i].status = "active", job'[l].status = "active"
        PROVE  i = l
    <3>1. i # j /\ l # j
      BY <1>6, <1>7, <2>3
    <3>2. job'[i] = job[i] /\ job'[l] = job[l]
      BY <1>5, <3>1
    <3> QED
      BY <2>3, <3>2 DEF ClientInv, JobsFit
  <2> QED
    BY <2>1, <2>2, <2>3 DEF JobsFit
<1> QED
  BY <1>2, <1>5, <1>6, <1>7, <1>8, <1>9, <1>10, <1>11, <1>12 DEF ClientInv

\* A job is made for the key of the request, or the active one found.
LEMMA EnqueueMoves ==
  ASSUME ClientInv, NEW r \in Request, NEW j \in Job, Enqueue(r, j)
  PROVE  LET k == post[r].key
             p == post[r].payload
         IN  /\ Serving(r) /\ post[r].at = "claimed" /\ record[k].status # "completed"
             /\ post'[r].at = "answered" /\ post'[r].answer = "accepted" /\ post'[r].job = j
             /\ record'[k] = [status |-> "completed", job |-> j]
             /\ \A i \in Request \ {k} : record'[i] = record[i]
             /\ job'[j].payload = p /\ job'[j].status = "active" /\ j \notin shown
             /\ \A i \in Job \ {j} : job'[i] = job[i]
             /\ \/ job'[j] = job[j]
                \/ /\ job[j] = NoJob
                   /\ \A i \in Job : ~(job[i].payload = p /\ job[i].status = "active")
             /\ TypeOK'
<1> DEFINE k == post[r].key
           p == post[r].payload
<1>1. /\ post[r].at # "unsent" /\ post[r].at = "claimed" /\ Claimed(k)
      /\ \/ j \in ActiveJobs(p) /\ UNCHANGED job
         \/ /\ ActiveJobs(p) = {} /\ job[j] = NoJob
            /\ job' = [job EXCEPT ![j] = [payload |-> p, status |-> "active"]]
      /\ record' = [record EXCEPT ![k] = [status |-> "completed", job |-> j]]
      /\ Answered(r, "accepted", j)
      /\ UNCHANGED <<pending, call, shown, reloads>>
  BY DEF Enqueue
<1>2. /\ Serving(r) /\ post' \in [Request -> PostType]
      /\ post'[r].at = "answered" /\ post'[r].answer = "accepted" /\ post'[r].job = j
  BY <1>1, AnswerServes
<1>3. k \in Request /\ p \in Payload /\ record \in [Request -> RecordType] /\ job \in [Job -> JobType]
  BY <1>1, PostsAreTyped, TypeOKMeans DEF ClientInv
<1>4. /\ record'[k] = [status |-> "completed", job |-> j]
      /\ \A i \in Request \ {k} : record'[i] = record[i]
      /\ record' \in [Request -> RecordType]
  BY <1>1, <1>3 DEF RecordType
<1>5. /\ job'[j] = [payload |-> p, status |-> "active"] /\ job' \in [Job -> JobType]
      /\ \A i \in Job \ {j} : job'[i] = job[i]
      /\ \/ job'[j] = job[j]
         \/ job[j] = NoJob /\ ActiveJobs(p) = {}
  BY <1>1, <1>3 DEF ActiveJobs, JobType
<1>6. job'[j].payload = p /\ job'[j].status = "active"
  BY <1>5
<1>7. j \notin shown
  <2>1. job[j].status \in {"active", "absent"}
    BY <1>5 DEF NoJob
  <2> QED
    BY <2>1 DEF ClientInv, JobsFit, Final
<1>8. ASSUME ActiveJobs(p) = {}, NEW i \in Job, job[i].payload = p, job[i].status = "active"
      PROVE  FALSE
  <2>1. job[i] = [payload |-> p, status |-> "active"]
    BY <1>3, <1>8 DEF JobType
  <2> QED
    BY <1>8, <2>1 DEF ActiveJobs
<1>9. record[k].status # "completed"
  BY <1>1 DEF Claimed
<1>10. TypeOK'
  BY <1>1, <1>2, <1>4, <1>5 DEF ClientInv, TypeOK, PostType, RecordType, JobType
<1> QED
  BY <1>1, <1>2, <1>4, <1>5, <1>6, <1>7, <1>8, <1>9, <1>10

LEMMA EnqueueKeeps ==
  ASSUME ClientInv, NEW r \in Request, NEW j \in Job, Enqueue(r, j)
  PROVE  ClientInv'
<1>1. PICK k \in Request, p \in Payload :
        /\ k = post[r].key /\ p = post[r].payload /\ IsKey(k, p)
        /\ Serving(r) /\ record[k].status # "completed"
        /\ post'[r].answer = "accepted" /\ post'[r].job = j
        /\ record'[k] = [status |-> "completed", job |-> j]
        /\ \A i \in Request \ {k} : record'[i] = record[i]
        /\ job'[j].payload = p /\ job'[j].status = "active" /\ j \notin shown
        /\ \A i \in Job \ {j} : job'[i] = job[i]
        /\ \/ job'[j] = job[j]
           \/ /\ job[j] = NoJob
              /\ \A i \in Job : ~(job[i].payload = p /\ job[i].status = "active")
        /\ TypeOK'
  <2>1. post[r].at # "unsent"
    BY EnqueueMoves
  <2>2. post[r].key \in Request /\ post[r].payload \in Payload /\ IsKey(post[r].key, post[r].payload)
    BY <2>1, PostsAreTyped
  <2> QED
    BY <2>2, EnqueueMoves
<1>2. /\ record[k].job = Nothing /\ record'[k].job = j /\ record'[k].status = "completed"
      /\ j # Nothing
  BY <1>1, ClientAssumption DEF ClientInv, RecordsFit
<1>3. /\ \A i \in Request : record[i].job # Nothing => record[i].job \in Job
      /\ NoJob.payload = Nothing
  BY TypeOKMeans DEF ClientInv, RecordType, NoJob
<1>4. PostsFit'
  <2> SUFFICES ASSUME NEW s \in Request
               PROVE  /\ post'[s].at = "unsent" => post'[s] = Unsent
                      /\ post'[s].at # "unsent" =>
                           /\ post'[s].payload \in Payload /\ post'[s].key \in Request
                           /\ post'[post'[s].key].at # "unsent"
                           /\ post'[post'[s].key].payload = post'[s].payload
                           /\ post'[post'[s].key].key = post'[s].key
                      /\ post'[s].answer = "accepted" =>
                           record'[post'[s].key] = [status |-> "completed", job |-> post'[s].job]
    BY DEF PostsFit, IsKey
  <2>1. post'[s].at = "unsent" => post'[s] = Unsent
    BY <1>1 DEF Serving, ClientInv, PostsFit
  <2>2. ASSUME post'[s].answer = "accepted"
        PROVE  record'[post'[s].key] = [status |-> "completed", job |-> post'[s].job]
    <3>1. post'[s].at # "unsent"
      BY <2>1, <2>2 DEF Unsent
    <3>2. post[s].key \in Request /\ post'[s].key = post[s].key
      BY <1>1, <3>1, PostsStay
    <3>3. CASE s = r
      BY <1>1, <3>2, <3>3
    <3>4. CASE s # r
      <4>1. post'[s] = post[s]
        BY <1>1, <3>4 DEF Serving
      <4>2. record[post[s].key] = [status |-> "completed", job |-> post[s].job]
        BY <2>2, <4>1 DEF ClientInv, PostsFit
      <4>3. post[s].key # k
        BY <1>1, <4>2
      <4> QED
        BY <1>1, <3>2, <4>1, <4>2, <4>3
    <3> QED
      BY <3>3, <3>4
  <2> QED
    BY <1>1, <2>1, <2>2, PostsStay
<1>5. RecordsFit'
  <2> SUFFICES ASSUME NEW i \in Request
               PROVE  /\ record'[i].status = "completed" <=> record'[i].job # Nothing
                      /\ record'[i].status # "absent" =>
                           post'[i].at # "unsent" /\ post'[i].key = i
                      /\ record'[i].job # Nothing => job'[record'[i].job].payload = post'[i].payload
    BY DEF RecordsFit, IsKey
  <2>1. CASE i = k
    <3>1. post'[k].at # "unsent" /\ post'[k].key = k /\ post'[k].payload = p
      BY <1>1 DEF Serving, IsKey
    <3> QED
      BY <1>1, <1>2, <2>1, <3>1
  <2>2. CASE i # k
    <3>1. record'[i] = record[i]
      BY <1>1, <2>2
    <3>2. record[i].status # "absent" => post'[i].at # "unsent" /\ post'[i].key = i
      BY <1>1 DEF ClientInv, RecordsFit, IsKey, Serving
    <3>3. ASSUME record[i].job # Nothing PROVE job'[record[i].job].payload = post'[i].payload
      <4>1. record[i].job \in Job /\ job[record[i].job].payload = post[i].payload
        BY <1>3, <3>3 DEF ClientInv, RecordsFit
      <4>2. post'[i].payload = post[i].payload
        BY <1>1 DEF Serving
      <4>3. post[i].payload # Nothing
        <5>1. record[i].status # "absent"
          BY <3>3 DEF ClientInv, RecordsFit
        <5>2. post[i].at # "unsent"
          BY <5>1 DEF ClientInv, RecordsFit, IsKey
        <5> QED
          BY <5>2, PostsAreTyped, ClientAssumption
      <4>4. job'[record[i].job] = job[record[i].job]
        BY <1>1, <1>3, <4>1, <4>3
      <4> QED
        BY <4>1, <4>2, <4>4
    <3> QED
      BY <3>1, <3>2, <3>3 DEF ClientInv, RecordsFit
  <2> QED
    BY <2>1, <2>2
<1>6. CallsFit'
  <2> SUFFICES ASSUME NEW q \in Payload
               PROVE  /\ pending'[q] # Nothing =>
                           /\ post'[pending'[q]].at # "unsent" /\ post'[pending'[q]].payload = q
                           /\ post'[pending'[q]].key = pending'[q]
                           /\ record'[pending'[q]].job \notin shown'
                      /\ call'[q].at = "posting" =>
                           /\ call'[q].request \in Request
                           /\ post'[call'[q].request].at # "unsent"
                           /\ post'[call'[q].request].payload = q
                           /\ post'[call'[q].request].key = pending'[q]
                      /\ call'[q].at = "polling" =>
                           /\ pending'[q] # Nothing /\ call'[q].job \in Job
                           /\ record'[pending'[q]].job = call'[q].job
    BY DEF CallsFit, IsKey
  <2>1. pending' = pending /\ call' = call /\ shown' = shown
    BY <1>1 DEF Serving
  <2>2. pending[q] # Nothing => pending[q] \in Request
    BY CallsAreTyped
  <2>3. pending[q] # Nothing =>
          /\ post'[pending[q]].at # "unsent" /\ post'[pending[q]].payload = q
          /\ post'[pending[q]].key = pending[q]
          /\ record[pending[q]].job \notin shown
    BY <1>1, <2>2 DEF ClientInv, CallsFit, IsKey, Serving
  <2>4. pending[q] # Nothing => record'[pending[q]].job \notin shown
    BY <1>1, <1>2, <2>2, <2>3
  <2>5. call[q].at = "posting" =>
          /\ call[q].request \in Request
          /\ post'[call[q].request].at # "unsent"
          /\ post'[call[q].request].payload = q
          /\ post'[call[q].request].key = pending[q]
    BY <1>1 DEF ClientInv, CallsFit, Serving
  <2>6. call[q].at = "polling" =>
          pending[q] # Nothing /\ call[q].job \in Job /\ record[pending[q]].job = call[q].job
    BY DEF ClientInv, CallsFit
  <2>7. call[q].at = "polling" => record'[pending[q]].job = call[q].job
    BY <1>1, <1>2, <2>2, <2>6, ClientAssumption
  <2> QED
    BY <2>1, <2>3, <2>4, <2>5, <2>6, <2>7
<1>7. JobsFit'
  <2>1. p # Nothing
    BY ClientAssumption
  <2>2. \A i \in Job : job'[i].payload = Nothing <=> job'[i].status = "absent"
    BY <1>1, <2>1 DEF ClientInv, JobsFit
  <2>3. \A i \in shown' : job'[i].status \in Final
    <3>1. shown' = shown /\ shown \subseteq Job
      BY <1>1 DEF Serving, ClientInv, TypeOK
    <3> QED
      BY <1>1, <3>1 DEF ClientInv, JobsFit
  <2>4. ASSUME NEW i \in Job, NEW l \in Job, job'[i].payload = job'[l].payload,
               job'[i].status = "active", job'[l].status = "active"
        PROVE  i = l
    <3>1. CASE job'[j] = job[j]
      BY <1>1, <2>4, <3>1 DEF ClientInv, JobsFit
    <3>2. CASE \A m \in Job : ~(job[m].payload = p /\ job[m].status = "active")
      BY <1>1, <2>4, <3>2 DEF ClientInv, JobsFit
    <3> QED
      BY <1>1, <3>1, <3>2
  <2> QED
    BY <2>2, <2>3, <2>4 DEF JobsFit
<1> QED
  BY <1>1, <1>4, <1>5, <1>6, <1>7 DEF ClientInv

-----------------------------------------------------------------------------
(***************************************************************************)
(* The job client in general.                                              *)
(***************************************************************************)

\* What the page does but for Submit.
LEMMA PageActions ==
  ASSUME ClientInv, NEW p \in Payload,
         \/ PostLost(p) \/ PostAnswered(p) \/ SeeEnd(p)
         \/ PollAgain(p) \/ WaitTimesOut(p) \/ PollFails(p)
  PROVE  PageMoves /\ TypeOK'
<1>1. ASSUME PostLost(p) \/ WaitTimesOut(p) \/ PollFails(p) PROVE GiveUp(p) /\ UNCHANGED post
  BY <1>1 DEF PostLost, WaitTimesOut, PollFails
<1> QED
  BY <1>1, GiveUpMoves, PostAnsweredMoves, SeeEndMoves, PollAgainMoves

\* Every step keeps requests, keys, calls, records and jobs in agreement.
LEMMA ClientStep ==
  ASSUME ClientInv, [Next]_vars
  PROVE  ClientInv'
<1>1. ASSUME NEW p \in Payload, Browse(p) PROVE ClientInv'
  BY <1>1, SubmitKeeps, PageActions, PageKeeps DEF Browse
<1>2. CASE Reload
  BY <1>2, ReloadMoves, PageKeeps
<1>3. ASSUME NEW r \in Request, Serve(r) PROVE ClientInv'
  BY <1>3, RefuseKeeps, ClaimKeeps, ConflictKeeps, FailsKeeps, DeathKeeps, EnqueueKeeps DEF Serve
<1>4. ASSUME NEW k \in Request, ClaimExpires(k) PROVE ClientInv'
  BY <1>4, ExpiryKeeps
<1>5. ASSUME NEW j \in Job, JobEnds(j) PROVE ClientInv'
  BY <1>5, JobEndsKeeps
<1>6. CASE UNCHANGED vars
  BY <1>6 DEF vars, ClientInv, TypeOK, PostsFit, RecordsFit, CallsFit, JobsFit, IsKey
<1> QED
  BY <1>1, <1>2, <1>3, <1>4, <1>5, <1>6 DEF Next

\* What is in agreement is what must hold.
LEMMA ClientInvMeans == ClientInv => OneActiveJob /\ KeysLeadHome
<1> SUFFICES ASSUME ClientInv PROVE OneActiveJob /\ KeysLeadHome
  OBVIOUS
<1>1. OneActiveJob
  <2> SUFFICES ASSUME NEW p \in Payload
               PROVE  Cardinality({j \in JobsOf(p) : job[j].status \notin Final}) <= 1
    BY DEF OneActiveJob
  <2> DEFINE S == {j \in JobsOf(p) : job[j].status \notin Final}
  <2>1. \A i, j \in S : i = j
    <3> SUFFICES ASSUME NEW i \in S, NEW j \in S PROVE i = j
      OBVIOUS
    <3>1. /\ i \in Job /\ j \in Job /\ job[i] \in JobType /\ job[j] \in JobType
          /\ job[i].payload = p /\ job[j].payload = p
          /\ job[i].status \notin Final /\ job[j].status \notin Final
      BY TypeOKMeans DEF JobsOf, ClientInv
    <3>2. p # Nothing
      BY ClientAssumption
    <3>3. job[i].status = "active" /\ job[j].status = "active"
      BY <3>1, <3>2 DEF ClientInv, JobsFit, JobType
    <3> QED
      BY <3>1, <3>3 DEF ClientInv, JobsFit
  <2>2. CASE S = {}
    BY <2>2, FS_EmptySet
  <2>3. CASE S # {}
    <3>1. PICK j \in S : TRUE
      BY <2>3
    <3>2. S = {j}
      BY <2>1, <3>1
    <3>3. Cardinality(S) = 1
      BY <3>2, FS_Singleton
    <3> QED
      BY <3>3
  <2> QED
    BY <2>2, <2>3
<1>2. KeysLeadHome
  <2> SUFFICES ASSUME NEW p \in Payload
               PROVE  /\ pending[p] # Nothing /\ record[pending[p]].job # Nothing
                           => record[pending[p]].job \in JobsOf(p)
                      /\ call[p].at = "polling" => call[p].job \in JobsOf(p)
    BY DEF KeysLeadHome
  <2>1. ASSUME pending[p] # Nothing, record[pending[p]].job # Nothing
        PROVE  record[pending[p]].job \in JobsOf(p)
    <3>1. pending[p] \in Request /\ IsKey(pending[p], p)
      BY <2>1, CallsAreTyped DEF ClientInv, CallsFit
    <3>2. record[pending[p]].job \in Job
      BY <2>1, <3>1, TypeOKMeans DEF ClientInv, RecordType
    <3>3. job[record[pending[p]].job].payload = p
      BY <2>1, <3>1 DEF ClientInv, RecordsFit, IsKey
    <3> QED
      BY <3>2, <3>3 DEF JobsOf
  <2>2. ASSUME call[p].at = "polling" PROVE call[p].job \in JobsOf(p)
    <3>1. pending[p] # Nothing /\ record[pending[p]].job = call[p].job /\ call[p].job \in Job
      BY <2>2 DEF ClientInv, CallsFit
    <3> QED
      BY <2>1, <3>1, ClientAssumption
  <2> QED
    BY <2>1, <2>2
<1> QED
  BY <1>1, <1>2

\* A call never begins to poll a job whose end the user was shown.
LEMMA FreshStep ==
  ASSUME ClientInv, [Next]_vars
  PROVE  FreshAfterTheEnd
<1> SUFFICES ASSUME NEW p \in Payload, call[p].at = "posting", call'[p].at = "polling"
             PROVE  call'[p].job \notin shown
  BY DEF FreshAfterTheEnd
<1>1. CASE PageMoves
  <2> DEFINE r == call[p].request
  <2>1. post[r].answer = "accepted" /\ call'[p].job = post[r].job
    BY <1>1 DEF PageMoves
  <2>2. /\ r \in Request /\ post[r].at # "unsent" /\ post[r].key = pending[p]
        /\ post[r].key \in Request
    BY PostsAreTyped DEF ClientInv, CallsFit
  <2>3. record[post[r].key] = [status |-> "completed", job |-> post[r].job]
    BY <2>1, <2>2 DEF ClientInv, PostsFit
  <2>4. pending[p] # Nothing
    BY <2>2, ClientAssumption
  <2>5. record[pending[p]].job = post[r].job
    BY <2>2, <2>3
  <2> QED
    BY <2>1, <2>4, <2>5 DEF ClientInv, CallsFit
<1>2. ASSUME NEW q \in Payload, NEW r \in Request, Submit(q, r) PROVE FALSE
  <2>1. call'[p] = call[p] \/ call'[p].at = "posting"
    BY <1>2, SubmitMoves
  <2> QED
    BY <2>1
<1>3. ASSUME call' = call PROVE FALSE
  BY <1>3
<1>4. ASSUME NEW r \in Request, Serve(r) \/ ClaimExpires(r) PROVE call' = call
  BY <1>4 DEF Serve, Refuse, Claim, EnqueueConflicts, EnqueueFails, ServerDies, Enqueue, ClaimExpires
<1>5. ASSUME NEW j \in Job, JobEnds(j) PROVE call' = call
  BY <1>5 DEF JobEnds
<1>6. CASE Reload
  BY <1>1, <1>6, ReloadMoves
<1>7. ASSUME NEW q \in Payload, Browse(q) PROVE call'[p].job \notin shown
  BY <1>1, <1>2, <1>7, PageActions DEF Browse
<1>8. CASE UNCHANGED vars
  BY <1>3, <1>8 DEF vars
<1> QED
  BY <1>3, <1>4, <1>5, <1>6, <1>7, <1>8 DEF Next

-----------------------------------------------------------------------------
(***************************************************************************)
(* Requests served in time.                                                *)
(***************************************************************************)

\* A page whose requests are never refused drops a key only when it has shown
\* the job the key leads to.
LEMMA PromptPage ==
  ASSUME PromptInv, NEW p \in Payload, reloads' = reloads,
         \/ PostLost(p) \/ PostAnswered(p) \/ SeeEnd(p)
         \/ PollAgain(p) \/ WaitTimesOut(p) \/ PollFails(p)
  PROVE  /\ shown \subseteq shown'
         /\ \A q \in Payload :
              \/ pending'[q] = pending[q]
              \/ pending'[q] = Nothing /\ call[q].at = "polling" /\ call[q].job \in shown'
<1>1. pending \in [Payload -> Request \cup {Nothing}]
  BY TypeOKMeans DEF PromptInv, ClientInv
<1>2. ASSUME PostLost(p) \/ WaitTimesOut(p) \/ PollFails(p) \/ PollAgain(p)
      PROVE  pending' = pending /\ shown' = shown
  BY <1>2 DEF PostLost, WaitTimesOut, PollFails, PollAgain, GiveUp
<1>3. CASE PostAnswered(p)
  <2>1. /\ call[p].at = "posting" /\ shown' = shown
        /\ pending' = [pending EXCEPT ![p] = IF DropsKey(post[call[p].request].answer) THEN Nothing ELSE @]
    BY <1>3 DEF PostAnswered
  <2>2. call[p].request \in Request
    BY <2>1, CallsAreTyped DEF PromptInv
  <2>3. ~DropsKey(post[call[p].request].answer)
    BY <2>2 DEF PromptInv, NobodyRefused
  <2> QED
    BY <1>1, <2>1, <2>3
<1>4. CASE SeeEnd(p)
  BY <1>1, <1>4 DEF SeeEnd, KeyAfter
<1> QED
  BY <1>2, <1>3, <1>4

LEMMA PromptPageKeeps ==
  ASSUME PromptInv, NEW p \in Payload, reloads' = reloads,
         \/ PostLost(p) \/ PostAnswered(p) \/ SeeEnd(p)
         \/ PollAgain(p) \/ WaitTimesOut(p) \/ PollFails(p)
  PROVE  ClaimsStand' /\ NobodyRefused' /\ KeysSettled' /\ JobsHaveKeys'
<1>1. UNCHANGED <<post, record, job>>
  BY PageActions DEF PageMoves, PromptInv
<1>2. ClaimsStand' /\ NobodyRefused' /\ JobsHaveKeys'
  BY <1>1 DEF PromptInv, ClaimsStand, NobodyRefused, JobsHaveKeys
<1>3. KeysSettled'
  <2> SUFFICES ASSUME NEW k \in Request, NEW q \in Payload, IsKey(k, q), k # pending'[q]
               PROVE  record[k].job \in shown'
    BY <1>1 DEF KeysSettled, IsKey
  <2>1. /\ shown \subseteq shown'
        /\ \/ pending'[q] = pending[q]
           \/ pending'[q] = Nothing /\ call[q].at = "polling" /\ call[q].job \in shown'
    BY PromptPage
  <2>2. CASE k # pending[q]
    BY <2>1, <2>2 DEF PromptInv, KeysSettled
  <2>3. CASE k = pending[q]
    BY <2>1, <2>3 DEF PromptInv, ClientInv, CallsFit
  <2> QED
    BY <2>2, <2>3
<1> QED
  BY <1>2, <1>3

\* A new key is made only when the others have led to jobs the user was shown.
LEMMA PromptSubmitKeeps ==
  ASSUME PromptInv, NEW p \in Payload, NEW r \in Request, Submit(p, r)
  PROVE  ClaimsStand' /\ NobodyRefused' /\ KeysSettled' /\ JobsHaveKeys'
<1>1. PICK k \in Request :
        /\ post[r].at = "unsent"
        /\ k = r \/ k = pending[p]
        /\ pending[p] # Nothing => k = pending[p]
        /\ pending'[p] = k
        /\ post'[r].payload = p /\ post'[r].key = k /\ post'[r].at = "sent"
        /\ post'[r].answer = "none"
        /\ \A q \in Payload \ {p} : pending'[q] = pending[q]
        /\ \A s \in Request \ {r} : post'[s] = post[s]
        /\ UNCHANGED <<record, job, shown>>
  BY SubmitMoves DEF PromptInv
<1>2. ClaimsStand'
  BY <1>1 DEF PromptInv, ClaimsStand
<1>3. NobodyRefused'
  BY <1>1, ClientAssumption DEF PromptInv, NobodyRefused, DropsKey
<1>4. JobsHaveKeys'
  BY <1>1 DEF PromptInv, JobsHaveKeys
<1>5. KeysSettled'
  <2> SUFFICES ASSUME NEW i \in Request, NEW q \in Payload, i # pending'[q],
                      post'[i].at # "unsent", post'[i].payload = q, post'[i].key = i
               PROVE  record[i].job \in shown
    BY <1>1 DEF KeysSettled, IsKey
  <2>1. i # r
    BY <1>1
  <2>2. IsKey(i, q)
    BY <1>1, <2>1 DEF IsKey
  <2>3. i # pending[q]
    BY <1>1, ClientAssumption
  <2> QED
    BY <2>2, <2>3 DEF PromptInv, KeysSettled
<1> QED
  BY <1>2, <1>3, <1>4, <1>5

\* A step of the server in which nothing is made.
LEMMA PromptServingKeeps ==
  ASSUME PromptInv, NEW r \in Request, Serving(r), NothingMade(r)
  PROVE  KeysSettled' /\ JobsHaveKeys'
<1>1. UNCHANGED <<pending, shown, job>> /\ \A k \in Request : record'[k].job = record[k].job
  BY DEF Serving, NothingMade
<1>2. \A k \in Request : \A p : IsKey(k, p)' <=> IsKey(k, p)
  BY KeysStay DEF PromptInv
<1>3. KeysSettled'
  BY <1>1, <1>2 DEF PromptInv, KeysSettled
<1> QED
  BY <1>1, <1>3 DEF PromptInv, JobsHaveKeys

\* The request under way stands in nobody's way: no claim is begun, and a
\* record another request has claimed stays as it is.
LEMMA PromptAnswerKeeps ==
  ASSUME PromptInv, NEW r \in Request, Serving(r), post'[r].at # "claimed",
         ~DropsKey(post'[r].answer),
         \A s \in Request \ {r} : post[s].at = "claimed" =>
           record'[post[s].key].status = "in_progress"
  PROVE  ClaimsStand' /\ NobodyRefused'
<1>1. \A s \in Request \ {r} : post'[s] = post[s]
  BY DEF Serving
<1>2. NobodyRefused'
  BY <1>1 DEF PromptInv, NobodyRefused
<1>3. ClaimsStand'
  BY <1>1 DEF PromptInv, ClaimsStand
<1> QED
  BY <1>2, <1>3

LEMMA PromptClaimKeeps ==
  ASSUME PromptInv, NEW r \in Request, Claim(r)
  PROVE  ClaimsStand' /\ NobodyRefused'
<1> DEFINE k == post[r].key
<1>1. ClientInv /\ Serving(r) /\ post[r].at = "sent" /\ UNCHANGED <<pending, call, shown, reloads>>
  BY ClaimKeeps DEF PromptInv, Claim
<1>2. k \in Request /\ record[k] \in RecordType /\ record \in [Request -> RecordType]
  BY <1>1, PostsAreTyped, TypeOKMeans DEF ClientInv, Serving
<1>3. CASE /\ record[k].status \in {"absent", "expired"}
           /\ record' = [record EXCEPT ![k].status = "in_progress"]
           /\ post' = [post EXCEPT ![r].at = "claimed"]
  <2>1. post'[r].at = "claimed" /\ post'[r].answer = post[r].answer /\ post'[r].key = k
    BY <1>1, <1>3, MoveServes DEF Serving
  <2>2. record'[k].status = "in_progress" /\ \A i \in Request \ {k} : record'[i] = record[i]
    BY <1>2, <1>3 DEF RecordType
  <2>3. \A s \in Request : post[s].at = "claimed" => post[s].key # k
    BY <1>3 DEF PromptInv, ClaimsStand
  <2>4. \A s \in Request \ {r} : post'[s] = post[s]
    BY <1>1 DEF Serving
  <2>5. NobodyRefused'
    BY <2>1, <2>4 DEF PromptInv, NobodyRefused
  <2>6. ASSUME NEW s \in Request, post'[s].at = "claimed"
        PROVE  record'[post'[s].key].status = "in_progress"
    <3>1. CASE s = r
      BY <2>1, <2>2, <3>1
    <3>2. CASE s # r
      <4>1. post[s].at = "claimed" /\ post'[s].key = post[s].key /\ post[s].key # k
        BY <2>3, <2>4, <2>6, <3>2
      <4>2. post[s].key \in Request
        BY <1>1, <4>1, PostsAreTyped
      <4> QED
        BY <2>2, <4>1, <4>2 DEF PromptInv, ClaimsStand
    <3> QED
      BY <3>1, <3>2
  <2>7. ClaimsStand'
    BY <2>1, <2>3, <2>4, <2>6 DEF PromptInv, ClaimsStand
  <2> QED
    BY <2>5, <2>7
<1>4. ASSUME NEW a \in {"accepted", "in_progress"}, NEW j \in Job \cup {Nothing},
             Answered(r, a, j), UNCHANGED record
      PROVE  ClaimsStand' /\ NobodyRefused'
  <2>1. post'[r].at = "answered" /\ post'[r].answer = a
    BY <1>1, <1>4, AnswerServes DEF Serving
  <2>2. ~DropsKey(a)
    BY ClientAssumption DEF DropsKey
  <2> QED
    BY <1>1, <1>4, <2>1, <2>2, PromptAnswerKeeps DEF PromptInv, ClaimsStand
<1>5. record[k].job \in Job \cup {Nothing}
  BY <1>2 DEF RecordType
<1> QED
  BY <1>3, <1>4, <1>5 DEF Claim

LEMMA PromptFailsKeeps ==
  ASSUME PromptInv, NEW r \in Request, EnqueueFails(r)
  PROVE  ClaimsStand' /\ NobodyRefused'
<1> DEFINE k == post[r].key
<1>1. /\ ClientInv /\ Serving(r) /\ post[r].at = "claimed"
      /\ record' = [record EXCEPT ![k] = IF Claimed(k) THEN NoRecord ELSE @]
      /\ Answered(r, "unavailable", Nothing) /\ UNCHANGED <<pending, call, shown, reloads>>
  BY FailsKeeps DEF PromptInv, EnqueueFails
<1>2. record \in [Request -> RecordType]
  BY <1>1, TypeOKMeans DEF ClientInv
<1>3. post'[r].at = "answered" /\ post'[r].answer = "unavailable"
  BY <1>1, AnswerServes
<1>4. ~DropsKey("unavailable")
  BY ClientAssumption DEF DropsKey
<1>5. ASSUME NEW s \in Request \ {r}, post[s].at = "claimed"
      PROVE  record'[post[s].key].status = "in_progress"
  <2>1. post[s].key \in Request /\ post[s].key # k
    BY <1>1, <1>5, PostsAreTyped DEF PromptInv, ClaimsStand
  <2>2. record'[post[s].key] = record[post[s].key]
    BY <1>1, <1>2, <2>1
  <2> QED
    BY <1>5, <2>2 DEF PromptInv, ClaimsStand
<1> QED
  BY <1>1, <1>3, <1>4, <1>5, PromptAnswerKeeps

LEMMA PromptDeathKeeps ==
  ASSUME PromptInv, NEW r \in Request, ServerDies(r)
  PROVE  ClaimsStand' /\ NobodyRefused'
<1>1. /\ ClientInv /\ Serving(r) /\ post[r].at # "unsent" /\ post' = [post EXCEPT ![r].at = "dead"]
      /\ UNCHANGED <<pending, call, record, shown, reloads>>
  BY DeathKeeps DEF PromptInv, ServerDies, server
<1>2. post'[r].at = "dead" /\ post'[r].answer = post[r].answer
  BY <1>1, MoveServes
<1>3. ~DropsKey(post'[r].answer)
  BY <1>2 DEF PromptInv, NobodyRefused
<1> QED
  BY <1>1, <1>2, <1>3, PromptAnswerKeeps DEF PromptInv, ClaimsStand

LEMMA PromptExpiryKeeps ==
  ASSUME PromptInv, NEW k \in Request, ClaimExpires(k), Prompt
  PROVE  ClaimsStand' /\ NobodyRefused'
<1>1. /\ post' = post /\ record' = [record EXCEPT ![k].status = "expired"]
  BY DEF ClaimExpires
<1>2. record \in [Request -> RecordType]
  BY TypeOKMeans DEF PromptInv, ClientInv
<1>3. ASSUME NEW s \in Request, post[s].at = "claimed"
      PROVE  record'[post[s].key].status = "in_progress"
  <2>1. post[s].key \in Request
    BY <1>3, PostsAreTyped DEF PromptInv
  <2>2. record'[post[s].key].status # "expired"
    BY <1>3 DEF Prompt
  <2>3. record'[k].status = "expired"
    BY <1>1, <1>2 DEF RecordType
  <2>4. record'[post[s].key] = record[post[s].key]
    BY <1>1, <1>2, <2>1, <2>2, <2>3
  <2> QED
    BY <1>3, <2>4 DEF PromptInv, ClaimsStand
<1> QED
  BY <1>1, <1>3 DEF PromptInv, ClaimsStand, NobodyRefused

\* A claimed key is the one its page has kept, and leads nowhere yet.
LEMMA ClaimedIsKept ==
  ASSUME PromptInv, NEW r \in Request, post[r].at = "claimed"
  PROVE  /\ post[r].key \in Request /\ post[r].payload \in Payload
         /\ IsKey(post[r].key, post[r].payload)
         /\ pending[post[r].payload] = post[r].key /\ record[post[r].key].job = Nothing
<1>1. /\ post[r].key \in Request /\ post[r].payload \in Payload
      /\ IsKey(post[r].key, post[r].payload)
  BY PostsAreTyped DEF PromptInv
<1>2. record[post[r].key].status = "in_progress"
  BY DEF PromptInv, ClaimsStand
<1>3. record[post[r].key].job = Nothing
  BY <1>1, <1>2 DEF PromptInv, ClientInv, RecordsFit
<1>4. Nothing \notin shown
  BY ClientAssumption DEF PromptInv, ClientInv, TypeOK
<1>5. pending[post[r].payload] = post[r].key
  BY <1>1, <1>3, <1>4 DEF PromptInv, KeysSettled
<1> QED
  BY <1>1, <1>3, <1>5

LEMMA PromptEnqueueKeeps ==
  ASSUME PromptInv, NEW r \in Request, NEW j \in Job, Enqueue(r, j)
  PROVE  /\ ClaimsStand' /\ NobodyRefused' /\ KeysSettled' /\ JobsHaveKeys'
         /\ WorkIsNotRepeated
<1>1. PICK k \in Request, p \in Payload :
        /\ k = post[r].key /\ p = post[r].payload /\ IsKey(k, p)
        /\ pending[p] = k /\ record[k].job = Nothing
        /\ Serving(r) /\ post[r].at = "claimed"
        /\ post'[r].at = "answered" /\ post'[r].answer = "accepted"
        /\ record'[k] = [status |-> "completed", job |-> j]
        /\ \A i \in Request \ {k} : record'[i] = record[i]
        /\ job'[j].payload = p /\ job'[j].status = "active"
        /\ \A i \in Job \ {j} : job'[i] = job[i]
        /\ job'[j] = job[j] \/ job[j] = NoJob
  BY EnqueueMoves, ClaimedIsKept DEF PromptInv
<1>2. pending' = pending /\ shown' = shown /\ record'[k].job = j
  BY <1>1 DEF Serving
<1>3. ClaimsStand' /\ NobodyRefused'
  <2>1. ~DropsKey("accepted")
    BY ClientAssumption DEF DropsKey
  <2>2. ASSUME NEW s \in Request \ {r}, post[s].at = "claimed"
        PROVE  record'[post[s].key].status = "in_progress"
    <3>1. post[s].key \in Request /\ post[s].key # k
      BY <1>1, <2>2, PostsAreTyped DEF PromptInv, ClaimsStand
    <3> QED
      BY <1>1, <2>2, <3>1 DEF PromptInv, ClaimsStand
  <2> QED
    BY <1>1, <2>1, <2>2, PromptAnswerKeeps
<1>4. KeysSettled'
  <2>1. \A i \in Request : \A q : IsKey(i, q)' <=> IsKey(i, q)
    BY <1>1, KeysStay DEF PromptInv
  <2>2. \A q : IsKey(k, q) => q = p
    BY <1>1 DEF IsKey
  <2> QED
    BY <1>1, <1>2, <2>1, <2>2 DEF PromptInv, KeysSettled
<1>5. JobsHaveKeys'
  <2> SUFFICES ASSUME NEW i \in Job, job'[i].status # "absent"
               PROVE  \E l \in Request : record'[l].job = i
    BY DEF JobsHaveKeys
  <2>1. CASE i = j
    BY <1>2, <2>1
  <2>2. CASE i # j
    <3>1. PICK l \in Request : record[l].job = i
      BY <1>1, <2>2 DEF PromptInv, JobsHaveKeys
    <3> QED
      BY <1>1, <3>1, ClientAssumption
  <2> QED
    BY <2>1, <2>2
<1>6. WorkIsNotRepeated
  <2> SUFFICES ASSUME NEW q \in Payload, JobsOf(q)' # JobsOf(q), NEW i \in JobsOf(q)
               PROVE  i \in shown
    BY DEF WorkIsNotRepeated
  <2>1. q = p
    <3>1. \A l \in Job : q # p => (job'[l].payload = q <=> job[l].payload = q)
      BY <1>1, ClientAssumption DEF NoJob
    <3> QED
      BY <3>1 DEF JobsOf
  <2>2. i \in Job /\ job[i].payload = p
    BY <2>1 DEF JobsOf
  <2>3. job[i].status # "absent"
    BY <2>2, ClientAssumption DEF PromptInv, ClientInv, JobsFit
  <2>4. PICK l \in Request : record[l].job = i
    BY <2>2, <2>3 DEF PromptInv, JobsHaveKeys
  <2>5. i # Nothing
    BY <2>2, ClientAssumption
  <2>6. IsKey(l, p)
    <3>1. record[l].status # "absent"
      BY <2>4, <2>5 DEF PromptInv, ClientInv, RecordsFit
    <3>2. job[i].payload = post[l].payload /\ IsKey(l, post[l].payload)
      BY <2>4, <2>5, <3>1 DEF PromptInv, ClientInv, RecordsFit
    <3> QED
      BY <2>2, <3>2
  <2>7. l # pending[p]
    BY <1>1, <2>4, <2>5
  <2> QED
    BY <2>4, <2>6, <2>7 DEF PromptInv, KeysSettled
<1> QED
  BY <1>3, <1>4, <1>5, <1>6

\* Every step in which requests are served in time.
LEMMA PromptStep ==
  ASSUME PromptInv, [PromptNext]_vars
  PROVE  PromptInv'
<1>1. ClientInv'
  BY ClientStep DEF PromptInv, PromptNext
<1> DEFINE Rest == ClaimsStand /\ NobodyRefused /\ KeysSettled /\ JobsHaveKeys
<1>2. CASE UNCHANGED vars
  BY <1>1, <1>2 DEF vars, PromptInv, ClaimsStand, NobodyRefused, KeysSettled, JobsHaveKeys, IsKey
<1>3. ASSUME PromptNext PROVE Rest'
  <2>1. Next /\ Prompt /\ reloads' = reloads
    BY <1>3 DEF PromptNext, Prompt
  <2>2. ASSUME NEW p \in Payload, Browse(p) PROVE Rest'
    <3>1. \/ \E r \in Request : Submit(p, r)
          \/ \/ PostLost(p) \/ PostAnswered(p) \/ SeeEnd(p)
             \/ PollAgain(p) \/ WaitTimesOut(p) \/ PollFails(p)
      BY <2>2 DEF Browse
    <3> QED
      BY <2>1, <3>1, PromptSubmitKeeps, PromptPageKeeps
  <2>3. CASE Reload
    <3>1. reloads' = reloads + 1 /\ reloads \in Nat
      BY <2>3, ClientAssumption DEF Reload, PromptInv, ClientInv, TypeOK
    <3> QED
      BY <2>1, <3>1
  <2>4. ASSUME NEW r \in Request, Refuse(r) PROVE FALSE
    <3>1. PICK s \in Refusals : Answered(r, s, Nothing)
      BY <2>4 DEF Refuse
    <3>2. post[r].at # "unsent" /\ UNCHANGED <<pending, call, shown, reloads>>
      BY <2>4 DEF Refuse
    <3>3. post'[r].answer = s
      BY <3>1, <3>2, AnswerServes DEF PromptInv
    <3> QED
      BY <2>1, <3>3 DEF Prompt
  <2>5. ASSUME NEW r \in Request, EnqueueConflicts(r) PROVE FALSE
    BY <2>5 DEF EnqueueConflicts, Claimed, PromptInv, ClaimsStand
  <2>6. ASSUME NEW r \in Request, Claim(r) \/ EnqueueFails(r) \/ ServerDies(r) PROVE Rest'
    <3>1. Serving(r) /\ NothingMade(r)
      BY <2>6, ClaimKeeps, FailsKeeps, DeathKeeps DEF PromptInv
    <3> QED
      BY <2>6, <3>1, PromptServingKeeps, PromptClaimKeeps, PromptFailsKeeps, PromptDeathKeeps
  <2>7. ASSUME NEW k \in Request, ClaimExpires(k) PROVE Rest'
    <3>1. Serving(k) /\ NothingMade(k)
      BY <2>7, ExpiryKeeps DEF PromptInv
    <3> QED
      BY <2>1, <2>7, <3>1, PromptServingKeeps, PromptExpiryKeeps
  <2>8. ASSUME NEW r \in Request, NEW j \in Job, Enqueue(r, j) PROVE Rest'
    BY <2>8, PromptEnqueueKeeps
  <2>9. ASSUME NEW j \in Job, JobEnds(j) PROVE Rest'
    <3>1. /\ UNCHANGED <<pending, post, record, shown>>
          /\ \A i \in Job : job'[i].status = "absent" <=> job[i].status = "absent"
      BY <2>9, JobEndsKeeps DEF PromptInv
    <3> QED
      BY <3>1 DEF PromptInv, ClaimsStand, NobodyRefused, KeysSettled, JobsHaveKeys, IsKey
  <2> HIDE DEF Rest
  <2>10. ASSUME NEW r \in Request, Serve(r) PROVE Rest'
    BY <2>4, <2>5, <2>6, <2>8, <2>10 DEF Serve
  <2> QED
    BY <2>1, <2>2, <2>3, <2>7, <2>9, <2>10 DEF Next
<1> QED
  BY <1>1, <1>2, <1>3 DEF PromptInv

\* A job is made only when the user was shown the end of all others of its
\* body.
LEMMA NotRepeatedStep ==
  ASSUME PromptInv, [PromptNext]_vars
  PROVE  WorkIsNotRepeated
<1> SUFFICES ASSUME ~WorkIsNotRepeated PROVE FALSE
  OBVIOUS
<1>1. ~(\A i \in Job : job'[i].payload = job[i].payload)
  BY DEF WorkIsNotRepeated, JobsOf
<1>2. job' # job
  BY <1>1
<1>3. ~UNCHANGED vars
  BY <1>2 DEF vars
<1>4. \A r \in Request : \A j \in Job : ~Enqueue(r, j)
  BY PromptEnqueueKeeps
<1>5. \A j \in Job : ~JobEnds(j)
  BY <1>1, JobEndsKeeps DEF PromptInv
<1>6. \A p \in Payload : ~Browse(p)
  BY <1>2 DEF Browse, Submit, PostLost, PostAnswered, SeeEnd, PollAgain, WaitTimesOut, PollFails,
              GiveUp, server
<1>7. ~Reload
  BY <1>2 DEF Reload, server
<1>8. \A r \in Request : ~Serve(r) /\ ~ClaimExpires(r)
  BY <1>2, <1>4 DEF Serve, Refuse, Claim, EnqueueConflicts, EnqueueFails, ServerDies, ClaimExpires,
                    server
<1> QED
  BY <1>3, <1>5, <1>6, <1>7, <1>8 DEF PromptNext, Next

\* Whatever is lost, refused, served late or reloaded, a body has one active
\* job, a key that is kept leads to a job of its body, and whoever was shown
\* how a job ended and submits again gets another.
THEOREM EndsAreFresh == Spec => [](TypeOK /\ OneActiveJob /\ KeysLeadHome) /\ [][FreshAfterTheEnd]_vars
<1>1. Init => ClientInv
  BY InitClient DEF PromptInv
<1>2. ClientInv /\ [Next]_vars => ClientInv'
  BY ClientStep
<1>3. ClientInv => TypeOK /\ OneActiveJob /\ KeysLeadHome
  BY ClientInvMeans DEF ClientInv
<1>4. ClientInv /\ [Next]_vars => [FreshAfterTheEnd]_vars
  BY FreshStep
<1> QED
  BY <1>1, <1>2, <1>3, <1>4, PTL DEF Spec

-----------------------------------------------------------------------------
(***************************************************************************)
(* What the server of the client's account promises.                       *)
(***************************************************************************)

\* Nobody is answered before it is.
AnswersAwaited ==
  \A r \in Request : post[r].at \in {"sent", "claimed"} => post[r].answer = "none"

\* What a step does to a request: it is sent, goes on unanswered, or is answered.
Proceeds(r) ==
  \/ post'[r] = post[r]
  \/ post[r].at = "unsent" /\ post'[r].at = "sent" /\ post'[r].answer = "none"
  \/ /\ post[r].at \in {"sent", "claimed"}
     /\ post'[r].at \in {"claimed", "dead"} /\ post'[r].answer = post[r].answer
     /\ post'[r].payload = post[r].payload /\ post'[r].key = post[r].key
  \/ /\ post[r].at \in {"sent", "claimed"} /\ post'[r].at = "answered"
     /\ post'[r].payload = post[r].payload /\ post'[r].key = post[r].key

\* What it does to a job: it is made, or ends.
Lives(j) ==
  \/ job'[j] = job[j]
  \/ job[j] = NoJob /\ job'[j].status = "active" /\ job'[j].payload \in Payload
  \/ job[j].status = "active" /\ job'[j].status \in Final /\ job'[j].payload = job[j].payload

\* A record gets a job once.
ServerMoves ==
  /\ \A r \in Request : Proceeds(r)
  /\ \A k \in Request : record'[k].job = record[k].job \/ record[k].job = Nothing
  /\ \A j \in Job : Lives(j)

\* The server goes on with a request.
LEMMA ServeProceeds ==
  ASSUME ClientInv, NEW r \in Request, Serve(r), Serving(r)
  PROVE  \A s \in Request : Proceeds(s)
<1>1. post \in [Request -> PostType] /\ post[r] \in PostType
  BY TypeOKMeans DEF ClientInv
<1>2. ASSUME NEW a, NEW j, Answered(r, a, j) PROVE post'[r].at = "answered"
  BY <1>1, <1>2 DEF Answered, PostType
<1>3. ASSUME NEW place, post' = [post EXCEPT ![r].at = place]
      PROVE  post'[r].at = place /\ post'[r].answer = post[r].answer
  BY <1>1, <1>3 DEF PostType
<1>4. /\ post[r].at \in {"sent", "claimed"}
      /\ \/ post'[r].at = "answered"
         \/ post'[r].at \in {"claimed", "dead"} /\ post'[r].answer = post[r].answer
  BY <1>2, <1>3 DEF Serve, Refuse, Claim, EnqueueConflicts, EnqueueFails, ServerDies, Enqueue
<1> QED
  BY <1>4 DEF Serving, Proceeds

LEMMA EnqueueProceeds ==
  ASSUME ClientInv, NEW r \in Request, NEW j \in Job, Enqueue(r, j)
  PROVE  ServerMoves
<1>1. PICK k \in Request, p \in Payload :
        /\ k = post[r].key /\ p = post[r].payload /\ IsKey(k, p)
        /\ Serving(r) /\ record[k].status # "completed"
        /\ post'[r].answer = "accepted" /\ post'[r].job = j
        /\ record'[k] = [status |-> "completed", job |-> j]
        /\ \A i \in Request \ {k} : record'[i] = record[i]
        /\ job'[j].payload = p /\ job'[j].status = "active" /\ j \notin shown
        /\ \A i \in Job \ {j} : job'[i] = job[i]
        /\ \/ job'[j] = job[j]
           \/ /\ job[j] = NoJob
              /\ \A i \in Job : ~(job[i].payload = p /\ job[i].status = "active")
        /\ TypeOK'
  <2>1. post[r].at # "unsent"
    BY EnqueueMoves
  <2>2. post[r].key \in Request /\ post[r].payload \in Payload /\ IsKey(post[r].key, post[r].payload)
    BY <2>1, PostsAreTyped
  <2> QED
    BY <2>2, EnqueueMoves
<1>2. record[k].job = Nothing
  BY <1>1 DEF ClientInv, RecordsFit
<1>3. Serve(r)
  BY DEF Serve
<1>4. \A s \in Request : Proceeds(s)
  BY <1>1, <1>3, ServeProceeds
<1>5. \A i \in Job : Lives(i)
  BY <1>1 DEF Lives
<1> QED
  BY <1>1, <1>2, <1>4, <1>5 DEF ServerMoves

LEMMA ServeMoves ==
  ASSUME ClientInv, NEW r \in Request, Serve(r)
  PROVE  ServerMoves
<1>1. ASSUME NEW j \in Job, Enqueue(r, j) PROVE ServerMoves
  BY <1>1, EnqueueProceeds
<1>2. ASSUME ~ \E j \in Job : Enqueue(r, j) PROVE ServerMoves
  <2>1. Serving(r) /\ NothingMade(r)
    BY <1>2, RefuseKeeps, ClaimKeeps, ConflictKeeps, FailsKeeps, DeathKeeps DEF Serve
  <2>2. \A s \in Request : Proceeds(s)
    BY <2>1, ServeProceeds
  <2> QED
    BY <2>1, <2>2 DEF ServerMoves, NothingMade, Lives
<1> QED
  BY <1>1, <1>2

LEMMA StepMoves ==
  ASSUME ClientInv, Next
  PROVE  ServerMoves
<1>1. ASSUME UNCHANGED <<post, record, job>> PROVE ServerMoves
  BY <1>1 DEF ServerMoves, Proceeds, Lives
<1>2. ASSUME NEW p \in Payload, NEW r \in Request, Submit(p, r) PROVE ServerMoves
  <2>1. /\ post[r].at = "unsent" /\ post'[r].at = "sent" /\ post'[r].answer = "none"
        /\ \A s \in Request \ {r} : post'[s] = post[s]
        /\ UNCHANGED <<record, job>>
    BY <1>2, SubmitMoves
  <2> QED
    BY <2>1 DEF ServerMoves, Proceeds, Lives
<1>3. ASSUME NEW j \in Job, JobEnds(j) PROVE ServerMoves
  <2>1. job \in [Job -> JobType] /\ UNCHANGED <<post, record>>
    BY <1>3, TypeOKMeans DEF ClientInv, JobEnds
  <2>2. \A i \in Job : Lives(i)
    BY <1>3, <2>1 DEF JobEnds, Lives, JobType
  <2> QED
    BY <2>1, <2>2 DEF ServerMoves, Proceeds
<1>4. ASSUME NEW p \in Payload, Browse(p) PROVE ServerMoves
  BY <1>1, <1>2, <1>4, PageActions DEF Browse, PageMoves
<1>5. CASE Reload
  BY <1>1, <1>5, ReloadMoves DEF PageMoves
<1>6. ASSUME NEW k \in Request, ClaimExpires(k) PROVE ServerMoves
  <2>1. NothingMade(k) /\ post' = post
    BY <1>6, ExpiryKeeps DEF ClaimExpires
  <2> QED
    BY <2>1 DEF ServerMoves, NothingMade, Proceeds, Lives
<1> QED
  BY <1>3, <1>4, <1>5, <1>6, ServeMoves DEF Next

\* Whoever has no answer has none after the step, or is done.
LEMMA AwaitedStep ==
  ASSUME ClientInv, AnswersAwaited, [Next]_vars
  PROVE  AnswersAwaited'
<1>1. CASE Next
  BY <1>1, StepMoves DEF ServerMoves, Proceeds, AnswersAwaited
<1>2. CASE UNCHANGED vars
  BY <1>2 DEF vars, AnswersAwaited
<1> QED
  BY <1>1, <1>2

\* The requests of Promise.
SentAs(r) == IF post[r].at = "unsent" THEN Nothing
             ELSE [key |-> post[r].key, body |-> post[r].payload]

BoundTo(k) == IF record[k].job = Nothing THEN Nothing
              ELSE [body |-> post[k].payload, resource |-> record[k].job]

AnsweredWith(r) == IF post[r].answer = "accepted" THEN post[r].job ELSE Nothing

\* A key stays bound to one job of its body, which is what its requests are
\* answered with.
LEMMA KeysKeepTheirWord ==
  ASSUME ClientInv, ClientInv', AnswersAwaited, ServerMoves
  PROVE  Promise!Next
<1>1. \A r \in Request : job'[record'[r].job].payload = post'[r].payload \/ record'[r].job = Nothing
  BY DEF ClientInv, RecordsFit
<1>2. record' \in [Request -> RecordType] /\ post' \in [Request -> PostType]
  BY TypeOKMeans DEF ClientInv, TypeOK, PostType, RecordType
<1>3. ASSUME NEW k \in Request PROVE BoundTo(k)' = BoundTo(k) \/ Promise!Binds(k) \/ Promise!Forgets(k)
  <2>1. CASE record[k].job # Nothing
    <3>1. record'[k].job = record[k].job
      BY <2>1 DEF ServerMoves
    <3>2. post[k].at # "unsent"
      BY <2>1 DEF ClientInv, RecordsFit, IsKey
    <3>3. post'[k].payload = post[k].payload
      BY <3>2 DEF ServerMoves, Proceeds
    <3> QED
      BY <2>1, <3>1, <3>3 DEF BoundTo
  <2>2. CASE record[k].job = Nothing /\ record'[k].job = Nothing
    BY <2>2 DEF BoundTo
  <2>3. CASE record[k].job = Nothing /\ record'[k].job # Nothing
    <3>1. record'[k].job \in Job /\ job'[record'[k].job].payload = post'[k].payload
      BY <1>1, <1>2, <2>3 DEF RecordType
    <3>2. post'[k].payload \in Payload
      <4>1. record'[k].status # "absent"
        BY <2>3 DEF ClientInv, RecordsFit
      <4>2. post'[k].at # "unsent"
        BY <4>1 DEF ClientInv, RecordsFit, IsKey
      <4> QED
        BY <4>2 DEF ClientInv, PostsFit
    <3> QED
      BY <2>3, <3>1, <3>2 DEF Promise!Binds, Promise!Binding
  <2> QED
    BY <2>1, <2>2, <2>3
<1>4. ASSUME NEW r \in Request PROVE SentAs(r)' = SentAs(r) \/ Promise!Sends(r)
  <2>1. CASE post[r].at = "unsent" /\ post'[r].at # "unsent"
    <3>1. post'[r].key \in Request /\ post'[r].payload \in Payload
      BY <2>1 DEF ClientInv, PostsFit
    <3> QED
      BY <2>1, <3>1 DEF Promise!Sends
  <2>2. CASE ~ (post[r].at = "unsent" /\ post'[r].at # "unsent")
    BY <2>2 DEF ServerMoves, Proceeds, SentAs
  <2> QED
    BY <2>1, <2>2
<1>5. ASSUME NEW r \in Request PROVE AnsweredWith(r)' = AnsweredWith(r) \/ Promise!Answers(r)
  <2> SUFFICES ASSUME AnsweredWith(r)' # AnsweredWith(r) PROVE Promise!Answers(r)
    OBVIOUS
  <2>1. /\ post[r].at \in {"sent", "claimed"} /\ post[r].answer = "none"
        /\ post'[r].key = post[r].key /\ post'[r].payload = post[r].payload
        /\ post'[r].at # "unsent" /\ post'[r].answer = "accepted"
    <3>1. post[r].at = "unsent" => post[r] = Unsent
      BY DEF ClientInv, PostsFit
    <3>2. Unsent.answer = "none"
      BY DEF Unsent
    <3> QED
      BY <3>1, <3>2 DEF ServerMoves, Proceeds, AnsweredWith, AnswersAwaited
  <2>2. /\ post[r].key \in Request /\ post'[post[r].key].payload = post[r].payload
        /\ record'[post[r].key] = [status |-> "completed", job |-> post'[r].job]
    BY <2>1 DEF ClientInv, PostsFit, IsKey
  <2>3. record'[post[r].key].job = post'[r].job /\ post'[r].job # Nothing
    BY <2>2 DEF ClientInv, RecordsFit
  <2> QED
    BY <2>1, <2>2, <2>3 DEF Promise!Answers, Promise!Binding
<1>6. ASSUME NEW j \in Job PROVE job'[j].payload = job[j].payload \/ Promise!Makes(j)
  BY DEF ServerMoves, Lives, Promise!Makes, NoJob
<1> QED
  BY <1>3, <1>4, <1>5, <1>6 DEF Promise!Next, BoundTo, SentAs, AnsweredWith

\* A job ends once.
LEMMA JobsKeepTheirWord ==
  ASSUME ServerMoves
  PROVE  Queue!Next
<1> SUFFICES ASSUME NEW j \in Job PROVE Queue!Keeps(j) \/ Queue!Advances(j)
  BY DEF Queue!Next
<1>1. Lives(j)
  BY DEF ServerMoves
<1> QED
  BY <1>1 DEF Lives, NoJob, Final, Queue!Keeps, Queue!Advances, Queue!Moves, Queue!Open, Queue!Ended

-----------------------------------------------------------------------------
(***************************************************************************)
(* The panel.                                                              *)
(***************************************************************************)

Requests == [kind : {"open", "review", "apply", "audit", "trail", "export"},
             plan : Plan, at : {"asked", "answered"}, ok : BOOLEAN, mounted : BOOLEAN]

\* An answer that says yes was given when the plan's approval was recorded.
Sincere(r) == r \in Requests /\ (r.ok => r.plan \in recorded)

\* So are all that are under way, and every text that left the page is that of
\* such a plan.
PanelInv ==
  /\ {onScreen, approval, audit} \subseteq Plan \cup {Nothing}
  /\ {flag, confirmed, submitting} \subseteq BOOLEAN
  /\ \A r \in requests : Sincere(r)
  /\ IsFiniteSet(requests) /\ Panel!Cardinality(requests) <= MaxRequests
  /\ approved \subseteq recorded /\ recorded \subseteq Plan
  /\ exported \subseteq recorded

LEMMA PanelInvMeans == PanelInv => Panel!TypeOK /\ Panel!ExportsAreCleared
BY DEF PanelInv, Panel!TypeOK, Panel!ExportsAreCleared, Sincere, Requests

LEMMA PanelCardinality == \A S : Panel!Cardinality(S) = Cardinality(S)
BY DEF Panel!Cardinality, Cardinality

\* A request ends or goes on.
LEMMA OneGoesOn ==
  ASSUME PanelInv, NEW r \in requests, NEW next,
         requests' \in {requests \ {r}, (requests \ {r}) \cup {next}}
  PROVE  IsFiniteSet(requests)' /\ Panel!Cardinality(requests)' <= MaxRequests
<1>1. IsFiniteSet(requests) /\ Cardinality(requests) <= MaxRequests
  BY PanelCardinality DEF PanelInv
<1>2. IsFiniteSet(requests \ {r}) /\ Cardinality(requests \ {r}) = Cardinality(requests) - 1
  BY <1>1, FS_RemoveElement
<1>3. /\ IsFiniteSet((requests \ {r}) \cup {next})
      /\ Cardinality((requests \ {r}) \cup {next}) \in
           {Cardinality(requests \ {r}), Cardinality(requests \ {r}) + 1}
  BY <1>2, FS_AddElement
<1>4. Cardinality(requests) \in Nat /\ MaxRequests \in Nat
  BY <1>1, FS_CardinalityType, PanelAssumption DEF Panel!SettingsAreSound
<1>5. IsFiniteSet(requests)'
  BY <1>2, <1>3
<1>6. Cardinality(requests') <= MaxRequests
  BY <1>1, <1>2, <1>3, <1>4
<1> QED
  BY <1>5, <1>6, PanelCardinality

\* A request is sent.
LEMMA OneIsSent ==
  ASSUME PanelInv, NEW r, Panel!Send(r)
  PROVE  IsFiniteSet(requests)' /\ Panel!Cardinality(requests)' <= MaxRequests
<1>1. /\ IsFiniteSet(requests) /\ Cardinality(requests) < MaxRequests
      /\ r \notin requests /\ requests' = requests \cup {r}
  BY PanelCardinality DEF PanelInv, Panel!Send
<1>2. IsFiniteSet(requests') /\ Cardinality(requests') = Cardinality(requests) + 1
  BY <1>1, FS_AddElement
<1>3. Cardinality(requests) \in Nat /\ MaxRequests \in Nat
  BY <1>1, FS_CardinalityType, PanelAssumption DEF Panel!SettingsAreSound
<1>4. Cardinality(requests') <= MaxRequests
  BY <1>1, <1>2, <1>3
<1> QED
  BY <1>2, <1>4, PanelCardinality

\* The form is gone, for all requests.
LEMMA AllUnmounted ==
  ASSUME PanelInv, requests' = {[r EXCEPT !.mounted = FALSE] : r \in requests}
  PROVE  IsFiniteSet(requests)' /\ Panel!Cardinality(requests)' <= MaxRequests
<1> DEFINE f == [r \in requests |-> [r EXCEPT !.mounted = FALSE]]
<1>1. IsFiniteSet(requests) /\ Cardinality(requests) <= MaxRequests
  BY PanelCardinality DEF PanelInv
<1>2. f \in Surjection(requests, requests')
  BY DEF Surjection
<1>3. IsFiniteSet(requests') /\ Cardinality(requests') <= Cardinality(requests)
  BY <1>1, <1>2, FS_Surjection
<1>4. /\ Cardinality(requests) \in Nat /\ Cardinality(requests') \in Nat /\ MaxRequests \in Nat
  BY <1>1, <1>3, FS_CardinalityType, PanelAssumption DEF Panel!SettingsAreSound
<1>5. Cardinality(requests') <= MaxRequests
  BY <1>1, <1>3, <1>4
<1> QED
  BY <1>3, <1>5, PanelCardinality

\* What is asked for is a request that nobody has answered.
LEMMA AskedIsSincere ==
  ASSUME NEW kind \in {"open", "review", "audit", "trail", "export"}, NEW p \in Plan
  PROVE  /\ Panel!Asked(kind, p) \in Requests /\ Panel!Asked(kind, p).ok = FALSE
         /\ \A m \in BOOLEAN : /\ [Panel!Asked(kind, p) EXCEPT !.mounted = m] \in Requests
                               /\ [Panel!Asked(kind, p) EXCEPT !.mounted = m].ok = FALSE
<1>1. (kind \in {"review", "trail"}) \in BOOLEAN
  OBVIOUS
<1>2. ASSUME NEW b \in BOOLEAN
      PROVE  [kind |-> kind, plan |-> p, at |-> "asked", ok |-> FALSE, mounted |-> b] \in Requests
  BY DEF Requests
<1>3. ASSUME NEW ok, NEW b, NEW m
      PROVE  [[kind |-> kind, plan |-> p, at |-> "asked", ok |-> ok, mounted |-> b]
                EXCEPT !.mounted = m]
               = [kind |-> kind, plan |-> p, at |-> "asked", ok |-> ok, mounted |-> m]
  OBVIOUS
<1> DEFINE now == kind \in {"review", "trail"}
<1>4. Panel!Asked(kind, p) = [kind |-> kind, plan |-> p, at |-> "asked", ok |-> FALSE, mounted |-> now]
  BY DEF Panel!Asked
<1>5. now \in BOOLEAN
  BY <1>1
<1> HIDE DEF now
<1>6. Panel!Asked(kind, p) \in Requests /\ Panel!Asked(kind, p).ok = FALSE
  BY <1>2, <1>4, <1>5
<1>7. ASSUME NEW m \in BOOLEAN
      PROVE  /\ [Panel!Asked(kind, p) EXCEPT !.mounted = m] \in Requests
             /\ [Panel!Asked(kind, p) EXCEPT !.mounted = m].ok = FALSE
  <2>1. [Panel!Asked(kind, p) EXCEPT !.mounted = m]
          = [kind |-> kind, plan |-> p, at |-> "asked", ok |-> FALSE, mounted |-> m]
    <3>1. [[kind |-> kind, plan |-> p, at |-> "asked", ok |-> FALSE, mounted |-> now]
             EXCEPT !.mounted = m]
            = [kind |-> kind, plan |-> p, at |-> "asked", ok |-> FALSE, mounted |-> m]
      BY Zenon, <1>3
    <3> QED
      BY Zenon, <1>4, <3>1
  <2> QED
    BY <1>2, <2>1
<1> QED
  BY <1>6, <1>7

\* The panel asks for something.
LEMMA AskingKeeps ==
  ASSUME PanelInv, NEW kind \in {"open", "review", "audit", "trail", "export"}, NEW p \in Plan,
         Panel!Send(Panel!Asked(kind, p)), submitting' \in BOOLEAN,
         UNCHANGED <<onScreen, flag, approval, audit, confirmed, approved, recorded, exported>>
  PROVE  PanelInv'
<1>1. requests' = requests \cup {Panel!Asked(kind, p)}
  BY DEF Panel!Send
<1>2. \A r \in requests' : Sincere(r)'
  BY <1>1, AskedIsSincere DEF PanelInv, Sincere
<1>3. IsFiniteSet(requests)' /\ Panel!Cardinality(requests)' <= MaxRequests
  BY OneIsSent
<1> QED
  BY <1>2, <1>3 DEF PanelInv

\* An answer is taken, or the next request of a handler is made.
LEMMA TakingKeeps ==
  ASSUME PanelInv, NEW r \in requests,
         NEW next \in Requests, next.ok => next.plan \in recorded',
         requests' \in {requests \ {r}, (requests \ {r}) \cup {next}},
         {onScreen', approval', audit'} \subseteq Plan \cup {Nothing},
         {flag', confirmed', submitting'} \subseteq BOOLEAN,
         recorded \subseteq recorded', approved' \subseteq recorded', recorded' \subseteq Plan,
         exported' \subseteq recorded'
  PROVE  PanelInv'
<1>1. \A s \in requests' : Sincere(s)'
  BY DEF PanelInv, Sincere
<1>2. IsFiniteSet(requests)' /\ Panel!Cardinality(requests)' <= MaxRequests
  BY OneGoesOn
<1> QED
  BY <1>1, <1>2 DEF PanelInv

\* Every step of the panel, the server and the network.
LEMMA PanelStep ==
  ASSUME PanelInv, [Panel!Next]_page
  PROVE  PanelInv'
<1> USE DEF Panel!panel, Panel!form, Panel!server
<1>1. /\ onScreen \in Plan \cup {Nothing} /\ approval \in Plan \cup {Nothing}
      /\ audit \in Plan \cup {Nothing}
      /\ flag \in BOOLEAN /\ confirmed \in BOOLEAN /\ submitting \in BOOLEAN
      /\ approved \subseteq recorded /\ recorded \subseteq Plan /\ exported \subseteq recorded
      /\ \A r \in requests : Sincere(r)
  BY DEF PanelInv
<1>2. \A r \in requests : r \in Requests /\ r.plan \in Plan /\ r.ok \in BOOLEAN /\ r.mounted \in BOOLEAN
                          /\ (r.ok => r.plan \in recorded)
  BY <1>1 DEF Sincere, Requests
<1>3. CASE Panel!Close
  <2>1. /\ requests' = {[r EXCEPT !.mounted = FALSE] : r \in requests}
        /\ onScreen' = Nothing /\ flag' = FALSE /\ approval' = Nothing /\ audit' = Nothing
        /\ confirmed' = FALSE /\ submitting' = FALSE
        /\ UNCHANGED <<approved, recorded, exported>>
    BY <1>3 DEF Panel!Close, Panel!FormGone
  <2>2. \A r \in requests' : Sincere(r)'
    BY <1>1, <2>1 DEF Sincere, Requests
  <2>3. IsFiniteSet(requests)' /\ Panel!Cardinality(requests)' <= MaxRequests
    BY <2>1, AllUnmounted
  <2> QED
    BY <1>1, <2>1, <2>2, <2>3 DEF PanelInv
<1>4. ASSUME NEW p \in Plan, Panel!Choose(p) PROVE PanelInv'
  BY <1>1, <1>4, AskingKeeps DEF Panel!Choose
<1>5. ASSUME NEW p \in Plan, Panel!OtherRejects(p) PROVE PanelInv'
  <2>1. /\ approved' = approved \ {p} /\ requests' = requests
        /\ UNCHANGED <<onScreen, flag, approval, audit, confirmed, submitting, recorded, exported>>
    BY <1>5 DEF Panel!OtherRejects
  <2> QED
    BY <1>1, <2>1 DEF PanelInv, Sincere
<1>6. CASE Panel!Tick
  <2>1. /\ confirmed' \in BOOLEAN /\ requests' = requests
        /\ UNCHANGED <<onScreen, flag, approval, audit, submitting, approved, recorded, exported>>
    BY <1>1, <1>6 DEF Panel!Tick
  <2> QED
    BY <1>1, <2>1 DEF PanelInv, Sincere
<1>7. ASSUME NEW kind \in {"review", "audit", "export"}, onScreen # Nothing,
             Panel!Send(Panel!Asked(kind, onScreen)), submitting' \in BOOLEAN,
             UNCHANGED <<onScreen, flag, approval, audit, confirmed, approved, recorded, exported>>
      PROVE  PanelInv'
  BY <1>1, <1>7, AskingKeeps
<1>8. CASE Panel!SubmitReview
  BY <1>7, <1>8 DEF Panel!SubmitReview, Panel!FormVisible
<1>9. CASE Panel!RefreshAudit
  BY <1>1, <1>7, <1>9 DEF Panel!RefreshAudit
<1>10. CASE Panel!ClickExport
  BY <1>1, <1>7, <1>10 DEF Panel!ClickExport, Panel!ExportAllowed
<1>11. ASSUME NEW r \in requests, Panel!Opened(r) PROVE PanelInv'
  <2>1. /\ requests' = requests \ {r} /\ onScreen' = r.plan /\ flag' = r.ok
        /\ approval' \in {r.plan, Nothing} /\ audit' = r.plan
        /\ UNCHANGED <<confirmed, submitting, approved, recorded, exported>>
    BY <1>11 DEF Panel!Opened, Panel!ApprovalOf
  <2> QED
    BY <1>1, <1>2, <2>1, TakingKeeps
<1>12. ASSUME NEW r \in requests, Panel!Reviewed(r) PROVE PanelInv'
  <2> DEFINE next == [r EXCEPT !.kind = "apply"]
  <2>1. next \in Requests /\ next.ok = r.ok /\ next.plan = r.plan
    BY <1>2 DEF Requests
  <2>2. /\ requests' \in {requests \ {r}, (requests \ {r}) \cup {next}}
        /\ approval' \in {approval, r.plan} /\ submitting' \in BOOLEAN
        /\ UNCHANGED <<onScreen, flag, audit, confirmed, approved, recorded, exported>>
    BY <1>1, <1>12 DEF Panel!Reviewed, Panel!EndsSubmit
  <2> HIDE DEF next
  <2> QED
    BY <1>1, <1>2, <2>1, <2>2, TakingKeeps
<1>13. ASSUME NEW r \in requests, Panel!Applied(r) PROVE PanelInv'
  <2> DEFINE next == [Panel!Asked("trail", r.plan) EXCEPT !.mounted = r.mounted]
  <2>1. next \in Requests /\ next.ok = FALSE
    BY <1>2, AskedIsSincere
  <2>2. /\ requests' = (requests \ {r}) \cup {next} /\ flag' \in BOOLEAN
        /\ UNCHANGED <<onScreen, approval, audit, confirmed, submitting, approved, recorded, exported>>
    BY <1>13 DEF Panel!Applied
  <2> HIDE DEF next
  <2> QED
    BY <1>1, <1>2, <2>1, <2>2, TakingKeeps
<1>14. ASSUME NEW r \in requests, Panel!AuditRead(r) PROVE PanelInv'
  <2>1. /\ requests' = requests \ {r} /\ audit' = r.plan /\ submitting' \in BOOLEAN
        /\ UNCHANGED <<onScreen, flag, approval, confirmed, approved, recorded, exported>>
    BY <1>1, <1>14 DEF Panel!AuditRead, Panel!EndsSubmit
  <2> QED
    BY <1>1, <1>2, <2>1, TakingKeeps
<1>15. ASSUME NEW r \in requests, Panel!Exported(r) PROVE PanelInv'
  <2>1. /\ requests' = requests \ {r}
        /\ exported' = IF r.ok THEN exported \cup {r.plan} ELSE exported
        /\ UNCHANGED <<onScreen, flag, approval, audit, confirmed, submitting, approved, recorded>>
    BY <1>15 DEF Panel!Exported, Panel!HandsOut
  <2> QED
    BY <1>1, <1>2, <2>1, TakingKeeps
<1>16. ASSUME NEW r \in requests, NEW ok \in BOOLEAN, Panel!Answer(r, ok),
              ok => r.plan \in recorded', recorded \subseteq recorded', recorded' \subseteq Plan,
              approved' \subseteq recorded',
              UNCHANGED <<onScreen, flag, approval, audit, confirmed, submitting, exported>>
       PROVE  PanelInv'
  <2> DEFINE next == [r EXCEPT !.at = "answered", !.ok = ok]
  <2>1. next \in Requests /\ next.ok = ok /\ next.plan = r.plan
    BY <1>2 DEF Requests
  <2>2. requests' = (requests \ {r}) \cup {next}
    BY <1>16 DEF Panel!Answer
  <2> HIDE DEF next
  <2> QED
    BY <1>1, <1>2, <1>16, <2>1, <2>2, TakingKeeps
<1>17. ASSUME NEW r \in requests, Panel!ServerReads(r) PROVE PanelInv'
  <2>1. /\ Panel!Answer(r, r.plan \in approved) /\ (r.plan \in approved) \in BOOLEAN
        /\ UNCHANGED <<onScreen, flag, approval, audit, confirmed, submitting, approved, recorded,
                       exported>>
    BY <1>17 DEF Panel!ServerReads
  <2>2. recorded \subseteq recorded' /\ recorded' \subseteq Plan /\ approved' \subseteq recorded'
    BY <1>1, <2>1
  <2>3. r.plan \in approved => r.plan \in recorded'
    BY <2>1, <2>2
  <2> QED
    BY <1>16, <2>1, <2>2, <2>3
<1>18. ASSUME NEW r \in requests, Panel!ServerReviews(r) PROVE PanelInv'
  <2>0. r.plan \in Plan
    BY <1>2 DEF Requests
  <2>1. UNCHANGED <<onScreen, flag, approval, audit, confirmed, submitting, exported>>
    BY <1>18 DEF Panel!ServerReviews
  <2>2. CASE /\ approved' = approved \cup {r.plan} /\ recorded' = recorded \cup {r.plan}
             /\ \E arrives \in BOOLEAN : Panel!Answer(r, arrives)
    <3>1. /\ recorded \subseteq recorded' /\ recorded' \subseteq Plan
          /\ approved' \subseteq recorded' /\ r.plan \in recorded'
      BY <1>1, <2>0, <2>2
    <3>2. PICK arrives \in BOOLEAN : Panel!Answer(r, arrives)
      BY <2>2
    <3> QED
      BY <1>16, <2>1, <3>1, <3>2
  <2>3. CASE Panel!Answer(r, FALSE) /\ UNCHANGED <<approved, recorded>>
    <3>1. recorded \subseteq recorded' /\ recorded' \subseteq Plan /\ approved' \subseteq recorded'
      BY <1>1, <2>3
    <3> QED
      BY <1>16, <2>1, <2>3, <3>1
  <2>4. CASE r.plan \in recorded /\ Panel!Answer(r, TRUE) /\ UNCHANGED <<approved, recorded>>
    <3>1. /\ recorded \subseteq recorded' /\ recorded' \subseteq Plan
          /\ approved' \subseteq recorded' /\ r.plan \in recorded'
      BY <1>1, <2>4
    <3> QED
      BY <1>16, <2>1, <2>4, <3>1
  <2> QED
    BY <1>18, <2>2, <2>3, <2>4 DEF Panel!ServerReviews, Panel!Stored
<1>19. ASSUME NEW r \in requests, Panel!ReadFails(r) PROVE PanelInv'
  <2>1. /\ requests' = requests \ {r} /\ submitting' \in BOOLEAN
        /\ UNCHANGED <<onScreen, flag, approval, audit, confirmed, approved, recorded, exported>>
    BY <1>1, <1>19 DEF Panel!ReadFails, Panel!EndsSubmit
  <2> QED
    BY <1>1, <1>2, <2>1, TakingKeeps
<1>20. CASE UNCHANGED page
  BY <1>20 DEF PanelInv, page, Sincere
<1> QED
  BY <1>3, <1>4, <1>5, <1>6, <1>8, <1>9, <1>10, <1>11, <1>12, <1>13, <1>14, <1>15, <1>17, <1>18,
     <1>19, <1>20 DEF Panel!Next

\* A closed panel.
LEMMA InitPanel == Panel!Init => PanelInv
<1> SUFFICES ASSUME Panel!Init PROVE PanelInv
  OBVIOUS
<1>1. /\ onScreen = Nothing /\ flag = FALSE /\ approval = Nothing /\ audit = Nothing
      /\ confirmed = FALSE /\ submitting = FALSE
      /\ requests = {} /\ approved = {} /\ recorded = {} /\ exported = {}
  BY DEF Panel!Init
<1>2. IsFiniteSet({}) /\ Cardinality({}) = 0 /\ MaxRequests \in Nat
  BY FS_EmptySet, PanelAssumption DEF Panel!SettingsAreSound
<1>3. Panel!Cardinality(requests) <= MaxRequests /\ IsFiniteSet(requests)
  BY <1>1, <1>2, PanelCardinality
<1> QED
  BY <1>1, <1>3 DEF PanelInv

-----------------------------------------------------------------------------
(***************************************************************************)
(* The pages.                                                              *)
(***************************************************************************)

\* A step of a page is one of its part, or none of it.
LEMMA PartSteps ==
  ASSUME [MCNext]_<<vars, page, part>>
  PROVE  /\ part' = part
         /\ part = "prompt" => [PromptNext]_vars
         /\ part = "slow" => [Next]_vars
         /\ part = "panel" => [Panel!Next]_page
BY DEF MCNext

\* However its answers are lost and its requests sent again, a page whose
\* requests are served in time pays for no job twice, and its keys lead home.
THEOREM LostAnswersCostNothing == MCSpec => NothingIsPaidTwice
<1> DEFINE Inv == part = "prompt" => PromptInv
<1>1. MCInit => Inv
  BY InitClient DEF MCInit
<1>2. Inv /\ [MCNext]_<<vars, page, part>> => Inv'
  BY PartSteps, PromptStep
<1>3. Inv => (part = "prompt" => TypeOK /\ OneActiveJob /\ KeysLeadHome)
  BY ClientInvMeans DEF PromptInv, ClientInv
<1>4. Inv /\ [MCNext]_<<vars, page, part>> => [part = "prompt" => WorkIsNotRepeated]_<<vars, part>>
  BY PartSteps, NotRepeatedStep
<1> QED
  BY <1>1, <1>2, <1>3, <1>4, PTL DEF MCSpec, NothingIsPaidTwice

\* A user who was shown how a job ended and submits again gets another job,
\* however late, refused or reloaded, and a body has one active job at a time.
THEOREM ShownJobsAreDone == MCSpec => ResubmittingIsFresh
<1> DEFINE Inv == part = "slow" => ClientInv
<1>1. MCInit => Inv
  BY InitClient DEF MCInit, PromptInv
<1>2. Inv /\ [MCNext]_<<vars, page, part>> => Inv'
  BY PartSteps, ClientStep
<1>3. Inv => (part = "slow" => OneActiveJob /\ KeysLeadHome)
  BY ClientInvMeans
<1>4. Inv /\ [MCNext]_<<vars, page, part>> => [part = "slow" => FreshAfterTheEnd]_<<vars, part>>
  BY PartSteps, FreshStep
<1> QED
  BY <1>1, <1>2, <1>3, <1>4, PTL DEF MCSpec, ResubmittingIsFresh

\* What the page is answered, it may rely on: the client's account of the server
\* is an idempotent endpoint and a queue of jobs, however many requests overtake,
\* outlive or repeat each other.
THEOREM ServerIsReliable == MCSpec => ServerKeepsItsWord
<1> DEFINE Inv == part # "panel" => ClientInv /\ AnswersAwaited
<1>1. MCInit => Inv
  BY InitClient DEF MCInit, PromptInv, Init, AnswersAwaited, Unsent
<1>2. ASSUME [MCNext]_<<vars, page, part>>, part # "panel" PROVE [Next]_vars /\ part' = part
  BY <1>2 DEF MCNext, PromptNext
<1>3. Inv /\ [MCNext]_<<vars, page, part>> => Inv'
  <2>1. part' = part \/ ~ [MCNext]_<<vars, page, part>>
    BY PartSteps
  <2> QED
    BY <1>2, <2>1, ClientStep, AwaitedStep
<1>4. MCInit => (part # "panel" => ServerInit)
  BY DEF MCInit, Init, ServerInit, Promise!Init, Queue!Init, Unsent, NoRecord, NoJob
<1>5. Inv /\ [MCNext]_<<vars, page, part>> => [part # "panel" => ServerStep]_<<vars, part>>
  <2> SUFFICES ASSUME Inv, part # "panel", Next PROVE ServerStep
    BY <1>2
  <2>1. ServerMoves /\ ClientInv'
    BY StepMoves, ClientStep
  <2> QED
    BY <2>1, KeysKeepTheirWord, JobsKeepTheirWord DEF ServerStep
<1> QED
  BY <1>1, <1>3, <1>4, <1>5, PTL DEF MCSpec, ServerKeepsItsWord

\* Whatever answers overtake each other, a text that leaves the panel is that
\* of a plan whose approval the server has recorded.
THEOREM OnlyApprovedTextLeaves == MCSpec => []HandedOutMeansApproved
<1> DEFINE Inv == part = "panel" => PanelInv
<1>1. MCInit => Inv
  BY InitPanel DEF MCInit
<1>2. Inv /\ [MCNext]_<<vars, page, part>> => Inv'
  BY PartSteps, PanelStep
<1>3. Inv => HandedOutMeansApproved
  BY PanelInvMeans DEF HandedOutMeansApproved
<1> QED
  BY <1>1, <1>2, <1>3, PTL DEF MCSpec

=============================================================================
