------------------------- MODULE IdempotencyProofs -------------------------
(***************************************************************************)
(* Proofs about Idempotency, for any sets of callers, keys and hashes.     *)
(***************************************************************************)
EXTENDS MCIdempotency, TLAPS

\* A completed record names the body its resource was created for.
RecordFitsTheRequest ==
  \A k \in Key :
    rec[k].status = "completed" => origin[rec[k].resource] = rec[k].hash

\* A request that has not stored anything is nobody's resource and has no answer.
UnstoredIsNoResource ==
  \A c \in Caller :
    pc[c] \in {"new", "inserting", "raced", "working"} =>
      origin[c] = Nothing /\ answer[c] = Nothing

\* What RepliesAgree needs, for requests of any duration.
IndInv == TypeOK /\ RecordFitsTheRequest /\ UnstoredIsNoResource

\* Initially nothing is recorded.
LEMMA InitIndInv == Init => IndInv
  BY CallerAssumption
  DEF Init, IndInv, TypeOK, RecordFitsTheRequest, UnstoredIsNoResource, NoRow, Row, Refusal

\* No handler leaves the types.
LEMMA TypeStep == TypeOK /\ [Next]_vars => TypeOK'
<1> SUFFICES ASSUME TypeOK, [Next]_vars PROVE TypeOK'
  OBVIOUS
<1> USE DEF TypeOK, Row, NoRow, Refusal
<1>1. ASSUME NEW c \in Caller, Look(c) PROVE TypeOK'
  BY SMTT(30), <1>1 DEF Look, Answer, GoTo
<1>2. ASSUME NEW c \in Caller, Insert(c) PROVE TypeOK'
  BY <1>2 DEF Insert, GoTo, InProgress
<1>3. ASSUME NEW c \in Caller, ClaimAfterRace(c) PROVE TypeOK'
  BY <1>3 DEF ClaimAfterRace, Answer
<1>4. ASSUME NEW c \in Caller, Store(c) PROVE TypeOK'
  BY SMTT(30), <1>4 DEF Store, Bind, Answer, Completed
<1>5. ASSUME NEW c \in Caller, StoreRefused(c) \/ WorkFails(c) \/ Release(c) \/ Crash(c)
      PROVE TypeOK'
  BY <1>5 DEF StoreRefused, WorkFails, Release, Crash
<1>6. ASSUME NEW k \in Key, LockExpires(k) PROVE TypeOK'
  BY <1>6 DEF LockExpires
<1>7. ASSUME NEW k \in Key, Purge(k) PROVE TypeOK'
  BY <1>7 DEF Purge
<1>8. CASE UNCHANGED vars
  BY <1>8 DEF vars
<1> QED
  BY <1>1, <1>2, <1>3, <1>4, <1>5, <1>6, <1>7, <1>8 DEF Next, Serve

-----------------------------------------------------------------------------
(***************************************************************************)
(* Requests of any duration.                                               *)
(***************************************************************************)

\* A completed record names a caller that stored something.
LEMMA ResourceWasStored ==
  ASSUME IndInv, NEW k \in Key, rec[k].status = "completed"
  PROVE  /\ rec[k].resource \in Caller
         /\ rec[k].hash \in Hash
         /\ origin[rec[k].resource] = rec[k].hash
         /\ pc[rec[k].resource] \notin {"new", "inserting", "raced", "working"}
<1>1. rec[k].resource \in Caller /\ rec[k].hash \in Hash
  BY DEF IndInv, TypeOK, Row, NoRow
<1> QED
  BY <1>1, NothingAssumption DEF IndInv, RecordFitsTheRequest, UnstoredIsNoResource

\* Storing a new resource, or answering with an active one of the same body.
LEMMA StoreStep ==
  ASSUME IndInv, NEW c \in Caller, Store(c), TypeOK'
  PROVE  /\ RecordFitsTheRequest' /\ UnstoredIsNoResource'
         /\ \A d \in Caller : origin'[d] = origin[d] \/ origin[d] = Nothing
         /\ \E r \in Caller : /\ origin'[r] = hash[c]
                             /\ rec' = [rec EXCEPT ![key[c]] = Completed(hash[c], r)]
                             /\ answer' = [answer EXCEPT ![c] = r]
<1>1. UnstoredIsNoResource'
  BY DEF IndInv, TypeOK, UnstoredIsNoResource, Store, Bind, Answer
<1>2. PICK r \in Caller : Bind(c, r) /\ origin'[r] = hash[c]
  BY DEF IndInv, TypeOK, Store
<1>3. \A k \in Key : rec[k].status = "completed"
                       => origin'[rec[k].resource] = origin[rec[k].resource]
  <2> SUFFICES ASSUME NEW k \in Key, rec[k].status = "completed"
               PROVE  origin'[rec[k].resource] = origin[rec[k].resource]
    OBVIOUS
  <2>1. rec[k].resource \in Caller /\ rec[k].resource # c
    BY ResourceWasStored DEF Store
  <2> QED
    BY <2>1 DEF IndInv, TypeOK, Store
<1>4. \A d \in Caller : origin'[d] = origin[d] \/ origin[d] = Nothing
  BY DEF IndInv, TypeOK, UnstoredIsNoResource, Store
<1>5. rec' = [rec EXCEPT ![key[c]] = Completed(hash[c], r)] /\ answer' = [answer EXCEPT ![c] = r]
  BY <1>2 DEF Bind, Answer
<1>6. RecordFitsTheRequest'
  <2>1. UNCHANGED <<key, hash>>
    BY DEF Store
  <2> QED
    BY <1>2, <1>3, <1>5, <2>1 DEF IndInv, TypeOK, RecordFitsTheRequest, Completed
<1> QED
  BY <1>1, <1>2, <1>4, <1>5, <1>6

\* A step that leaves the bindings alone: it completes no row, and a completed
\* one stays as it is or is purged.
KeepsBindings ==
  /\ UNCHANGED origin
  /\ \A c \in Caller : pc'[c] \in {"new", "inserting", "raced", "working"}
                         => /\ pc[c] \in {"new", "inserting", "raced", "working"}
                            /\ answer'[c] = answer[c]
  /\ \A k \in Key : rec'[k] = rec[k] \/ rec'[k].status # "completed"

\* Such a step preserves the invariant.
LEMMA OtherSteps == IndInv /\ TypeOK' /\ KeepsBindings => IndInv'
<1> SUFFICES ASSUME IndInv, TypeOK', KeepsBindings PROVE IndInv'
  OBVIOUS
<1>1. RecordFitsTheRequest'
  BY DEF IndInv, RecordFitsTheRequest, KeepsBindings
<1>2. UnstoredIsNoResource'
  BY DEF IndInv, UnstoredIsNoResource, KeepsBindings
<1> QED
  BY <1>1, <1>2 DEF IndInv

\* All steps but Store are such steps.
LEMMA OtherActions ==
  ASSUME TypeOK, TypeOK',
         \/ \E c \in Caller : \/ Look(c) \/ Insert(c) \/ ClaimAfterRace(c)
                              \/ StoreRefused(c) \/ WorkFails(c)
                              \/ Release(c) \/ Crash(c)
         \/ \E k \in Key : LockExpires(k) \/ Purge(k)
         \/ UNCHANGED vars
  PROVE  KeepsBindings
<1> USE DEF KeepsBindings
<1>1. ASSUME NEW c \in Caller, Look(c) PROVE KeepsBindings
  <2>1. UNCHANGED <<key, hash, origin>>
    BY <1>1 DEF Look
  <2>2. \A d \in Caller : pc'[d] \in {"new", "inserting", "raced", "working"}
                            => /\ pc[d] \in {"new", "inserting", "raced", "working"}
                               /\ answer'[d] = answer[d]
    BY <1>1 DEF Look, Answer, GoTo, TypeOK
  <2>3. \/ UNCHANGED rec
        \/ /\ rec[key[c]].status = "in_progress"
           /\ rec' = [rec EXCEPT ![key[c]].lock = "live"]
    BY <1>1 DEF Look
  <2>4. \A k \in Key : \/ rec'[k] = rec[k]
                       \/ /\ rec[k].status # "completed"
                          /\ rec'[k].status # "completed"
    BY <2>3 DEF TypeOK, Row, NoRow
  <2> QED
    BY <2>1, <2>2, <2>4
<1>2. ASSUME NEW c \in Caller, Insert(c) PROVE KeepsBindings
  BY <1>2 DEF Insert, GoTo, TypeOK, InProgress, InsertAccepted
<1>3. ASSUME NEW c \in Caller, ClaimAfterRace(c) PROVE KeepsBindings
  BY <1>3 DEF ClaimAfterRace, Answer, TypeOK
<1>4. ASSUME NEW c \in Caller, StoreRefused(c) \/ WorkFails(c) \/ Crash(c)
      PROVE KeepsBindings
  BY <1>4 DEF StoreRefused, WorkFails, Crash, TypeOK
<1>5. ASSUME NEW c \in Caller, Release(c) PROVE KeepsBindings
  BY <1>5 DEF Release, Releases, Matches, NoRow, TypeOK
<1>6. ASSUME NEW k \in Key, LockExpires(k) PROVE KeepsBindings
  <2>1. rec[k].status # "completed" /\ rec'[k].status # "completed"
    BY <1>6 DEF LockExpires, TypeOK, Row, NoRow
  <2> QED
    BY <1>6, <2>1 DEF LockExpires, TypeOK
<1>7. ASSUME NEW k \in Key, Purge(k) PROVE KeepsBindings
  BY <1>7 DEF Purge, NoRow, TypeOK
<1>8. CASE UNCHANGED vars
  BY <1>8 DEF vars
<1> QED
  BY <1>1, <1>2, <1>3, <1>4, <1>5, <1>6, <1>7, <1>8

\* Every step preserves the invariant.
LEMMA NextIndInv == IndInv /\ [Next]_vars => IndInv'
<1> SUFFICES ASSUME IndInv, [Next]_vars PROVE IndInv'
  OBVIOUS
<1>1. TypeOK /\ TypeOK'
  BY TypeStep DEF IndInv
<1>2. ASSUME NEW c \in Caller, Store(c) PROVE IndInv'
  BY <1>1, <1>2, StoreStep DEF IndInv
<1>3. ASSUME ~ \E c \in Caller : Store(c) PROVE IndInv'
  <2>1. KeepsBindings
    BY <1>1, <1>3, OtherActions DEF Next, Serve
  <2> QED
    BY <1>1, <2>1, OtherSteps
<1> QED
  BY <1>2, <1>3

\* The invariant holds of all behaviours, whatever the requests' durations.
THEOREM IndInvHolds == Spec => []IndInv
  BY InitIndInv, NextIndInv, PTL DEF Spec

\* What a key is bound to and what a caller was answered with, for Promise.
BoundTo(k) == IF rec[k].status = "completed"
              THEN [body |-> rec[k].hash, resource |-> rec[k].resource] ELSE Nothing

AnsweredWith(c) == IF answer[c] \in Caller THEN answer[c] ELSE Nothing

\* A step that binds no key anew and answers with bound resources only.
LEMMA PromiseKept ==
  ASSUME TypeOK, UNCHANGED <<key, hash>>,
         \A r \in Caller : \/ origin'[r] = origin[r]
                           \/ origin[r] = Nothing /\ origin'[r] \in Hash,
         \A k \in Key : \/ BoundTo(k)' = BoundTo(k) \/ BoundTo(k)' = Nothing
                        \/ /\ BoundTo(k) = Nothing
                           /\ \E b \in Hash, r \in Caller :
                             BoundTo(k)' = [body |-> b, resource |-> r] /\ origin'[r] = b,
         \A c \in Caller :
           \/ AnsweredWith(c)' = AnsweredWith(c)
           \/ /\ AnsweredWith(c) = Nothing /\ AnsweredWith(c)' # Nothing
              /\ BoundTo(key[c])' = [body |-> hash[c], resource |-> AnsweredWith(c)']
  PROVE  Promise!Next
<1>1. \A r \in Caller : origin'[r] = origin[r] \/ Promise!Makes(r)
  BY DEF Promise!Makes
<1>2. \A k \in Key : BoundTo(k)' = BoundTo(k) \/ Promise!Binds(k) \/ Promise!Forgets(k)
  BY DEF Promise!Binds, Promise!Forgets, Promise!Binding, BoundTo
<1>3. \A c \in Caller : AnsweredWith(c)' = AnsweredWith(c) \/ Promise!Answers(c)
  BY DEF Promise!Answers, Promise!Binding, BoundTo, AnsweredWith, TypeOK
<1> QED
  BY <1>1, <1>2, <1>3 DEF Promise!Next, BoundTo, AnsweredWith

\* Every step keeps the promise.
LEMMA StepKeepsPromise == IndInv /\ [Next]_vars => [Promise!Next]_(Promise!vars)
<1> SUFFICES ASSUME IndInv, Next PROVE Promise!Next
  BY DEF vars, Promise!vars
<1>1. TypeOK /\ TypeOK'
  BY TypeStep DEF IndInv
<1>2. UNCHANGED <<key, hash>>
  BY DEF Next, Serve, Look, Insert, ClaimAfterRace, Store, StoreRefused, WorkFails, Release,
         Crash, LockExpires, Purge
<1> USE CallerAssumption, NothingAssumption DEF Refusal
<1>3. ASSUME NEW c \in Caller, Store(c) PROVE Promise!Next
  <2>1. /\ \A d \in Caller : \/ origin'[d] = origin[d]
                             \/ origin[d] = Nothing /\ origin'[d] \in Hash
        /\ key[c] \in Key /\ hash[c] \in Hash
        /\ rec[key[c]].status = "in_progress" /\ answer[c] = Nothing
    BY <1>1, <1>3, StoreStep DEF IndInv, UnstoredIsNoResource, TypeOK, Store, Matches
  <2>2. PICK r \in Caller : /\ origin'[r] = hash[c]
                            /\ rec' = [rec EXCEPT ![key[c]] = Completed(hash[c], r)]
                            /\ answer' = [answer EXCEPT ![c] = r]
    BY <1>1, <1>3, StoreStep
  <2>3. /\ \A k \in Key : k # key[c] => rec'[k] = rec[k]
        /\ rec'[key[c]] = Completed(hash[c], r)
        /\ \A d \in Caller : d # c => answer'[d] = answer[d]
        /\ answer'[c] = r
    BY <1>1, <2>1, <2>2 DEF TypeOK
  <2>4. /\ BoundTo(key[c]) = Nothing /\ BoundTo(key[c])' = [body |-> hash[c], resource |-> r]
        /\ \A k \in Key : k # key[c] => BoundTo(k)' = BoundTo(k)
    BY <1>2, <2>1, <2>3 DEF BoundTo, Completed
  <2>5. /\ AnsweredWith(c) = Nothing /\ AnsweredWith(c)' = r
        /\ \A d \in Caller : d # c => AnsweredWith(d)' = AnsweredWith(d)
    BY <2>1, <2>3 DEF AnsweredWith
  <2> QED
    BY <1>1, <1>2, <2>1, <2>2, <2>4, <2>5, PromiseKept
<1>4. ASSUME ~ \E c \in Caller : Store(c) PROVE Promise!Next
  <2>1. KeepsBindings
    BY <1>1, <1>4, OtherActions DEF Next, Serve
  <2>2. \A k \in Key : BoundTo(k)' = BoundTo(k) \/ BoundTo(k)' = Nothing
    BY <2>1 DEF KeepsBindings, BoundTo
  <2>3. ASSUME NEW c \in Caller
        PROVE  \/ AnsweredWith(c)' = AnsweredWith(c)
               \/ /\ answer[c] = Nothing /\ UNCHANGED rec
                  /\ rec[key[c]].status = "completed" /\ rec[key[c]].hash = hash[c]
                  /\ answer'[c] = rec[key[c]].resource
    <3>1. ASSUME NEW d \in Caller, Look(d) \/ ClaimAfterRace(d)
          PROVE  \/ AnsweredWith(c)' = AnsweredWith(c)
                 \/ /\ answer[c] = Nothing /\ UNCHANGED rec
                    /\ rec[key[c]].status = "completed" /\ rec[key[c]].hash = hash[c]
                    /\ answer'[c] = rec[key[c]].resource
      BY <1>1, <3>1 DEF Look, ClaimAfterRace, Answer, GoTo, SameRequest, AnsweredWith, IndInv,
                        UnstoredIsNoResource, TypeOK
    <3>2. ASSUME NEW d \in Caller,
                 Insert(d) \/ StoreRefused(d) \/ WorkFails(d) \/ Release(d) \/ Crash(d)
          PROVE  AnsweredWith(c)' = AnsweredWith(c)
      BY <1>1, <3>2 DEF Insert, GoTo, StoreRefused, WorkFails, Release, Crash, AnsweredWith,
                        IndInv, UnstoredIsNoResource, TypeOK
    <3>3. ASSUME NEW k \in Key, LockExpires(k) \/ Purge(k)
          PROVE  AnsweredWith(c)' = AnsweredWith(c)
      BY <3>3 DEF LockExpires, Purge, AnsweredWith
    <3> QED
      BY <1>4, <3>1, <3>2, <3>3 DEF Next, Serve
  <2>4. ASSUME NEW c \in Caller
        PROVE  \/ AnsweredWith(c)' = AnsweredWith(c)
               \/ /\ AnsweredWith(c) = Nothing /\ AnsweredWith(c)' # Nothing
                  /\ BoundTo(key[c])' = [body |-> hash[c], resource |-> AnsweredWith(c)']
    <3> SUFFICES ASSUME /\ answer[c] = Nothing /\ UNCHANGED rec
                        /\ rec[key[c]].status = "completed" /\ rec[key[c]].hash = hash[c]
                        /\ answer'[c] = rec[key[c]].resource
                 PROVE  /\ AnsweredWith(c) = Nothing /\ AnsweredWith(c)' # Nothing
                        /\ BoundTo(key[c])' = [body |-> hash[c], resource |-> AnsweredWith(c)']
      BY <2>3
    <3>1. rec[key[c]].resource \in Caller
      BY <1>1, ResourceWasStored DEF TypeOK
    <3> QED
      BY <1>2, <3>1 DEF BoundTo, AnsweredWith
  <2> QED
    BY <1>1, <1>2, <2>1, <2>2, <2>4, PromiseKept DEF KeepsBindings
<1> QED
  BY <1>3, <1>4

\* Records, claims and races implement the promise: whatever a request is
\* delayed, repeated, refused or overtaken by, it is answered with the resource
\* created first for its key and body.
THEOREM RepliesAreFirst == Spec => RepliesAgree
<1>1. Init => Promise!Init
  BY CallerAssumption DEF Init, Promise!Init, NoRow, Refusal
<1> QED
  BY <1>1, IndInvHolds, StepKeepsPromise, PTL DEF Spec, RepliesAgree, Promise!Safety

-----------------------------------------------------------------------------
(***************************************************************************)
(* Prompt requests.                                                        *)
(***************************************************************************)

\* Who has claimed a key and not ended yet.
Claiming(c) == pc[c] \in {"working", "failing"}

\* ClaimsStand, request by request.
EachClaimStands ==
  \A c \in Caller :
    Claiming(c) => answer[c] # "conflict" /\ rec[key[c]] = InProgress(hash[c])

\* OneExecutionAtATime, request by request.
ClaimsDiffer ==
  \A c, d \in Caller : Claiming(c) /\ Claiming(d) /\ key[c] = key[d] => c = d

\* Who has not claimed anything yet has no answer.
Unanswered == \A c \in Caller : pc[c] \in {"new", "inserting"} => answer[c] = Nothing

\* What the claims need.
PromptInv == TypeOK /\ EachClaimStands /\ ClaimsDiffer /\ Unanswered

\* A step that gives nobody a claim, and keeps the rows others have claimed.
TakesNoClaim ==
  /\ UNCHANGED <<key, hash>>
  /\ \A c \in Caller :
       /\ Claiming(c)' => /\ Claiming(c)
                          /\ rec'[key[c]] = rec[key[c]]
                          /\ answer'[c] = answer[c] \/ answer'[c] = "error"
       /\ pc'[c] \in {"new", "inserting"} =>
            pc[c] \in {"new", "inserting"} /\ answer'[c] = answer[c]

\* Such a step preserves the invariant.
LEMMA UnclaimedSteps == PromptInv /\ TypeOK' /\ TakesNoClaim => PromptInv'
<1> SUFFICES ASSUME PromptInv, TypeOK', TakesNoClaim PROVE PromptInv'
  OBVIOUS
<1>1. EachClaimStands'
  BY DEF PromptInv, EachClaimStands, TakesNoClaim, InProgress
<1>2. ClaimsDiffer'
  BY DEF PromptInv, ClaimsDiffer, TakesNoClaim
<1>3. Unanswered'
  BY DEF PromptInv, Unanswered, TakesNoClaim
<1> QED
  BY <1>1, <1>2, <1>3 DEF PromptInv

\* What a claim that stands says of the row.
LEMMA ClaimedRow ==
  ASSUME PromptInv, NEW c \in Caller, Claiming(c)
  PROVE  /\ rec[key[c]].status = "in_progress"
         /\ rec[key[c]].hash = hash[c]
         /\ rec[key[c]].lock = "live"
<1>1. rec[key[c]] = InProgress(hash[c])
  BY DEF PromptInv, EachClaimStands
<1>2. /\ InProgress(hash[c]).status = "in_progress"
      /\ InProgress(hash[c]).hash = hash[c]
      /\ InProgress(hash[c]).lock = "live"
  BY DEF InProgress
<1> QED
  BY <1>1, <1>2

\* A request that claims a key nobody holds, and leaves it locked for itself.
LEMMA ClaimSteps ==
  ASSUME PromptInv, TypeOK', NEW c \in Caller, UNCHANGED <<key, hash, answer>>,
         pc' = [pc EXCEPT ![c] = "working"],
         answer[c] = Nothing,
         rec' = [rec EXCEPT ![key[c]] = InProgress(hash[c])],
         \A d \in Caller : Claiming(d) => key[d] # key[c]
  PROVE  PromptInv'
<1>1. EachClaimStands'
  <2> SUFFICES ASSUME NEW d \in Caller, Claiming(d)'
               PROVE  answer[d] # "conflict" /\ rec'[key[d]] = InProgress(hash[d])
    BY DEF EachClaimStands, InProgress
  <2>1. CASE d = c
    BY <2>1, NothingAssumption DEF Refusal, PromptInv, TypeOK
  <2>2. CASE d # c
    <3>1. Claiming(d)
      BY <2>2 DEF Claiming, PromptInv, TypeOK
    <3> QED
      BY <3>1 DEF PromptInv, TypeOK, EachClaimStands
  <2> QED
    BY <2>1, <2>2
<1>2. ClaimsDiffer'
  BY DEF PromptInv, TypeOK, ClaimsDiffer, Claiming
<1>3. Unanswered'
  BY DEF PromptInv, TypeOK, Unanswered
<1> QED
  BY <1>1, <1>2, <1>3 DEF PromptInv

\* Every step of prompt requests preserves the invariant.
LEMMA NextPromptInv == PromptInv /\ [PromptNext]_vars => PromptInv'
<1> SUFFICES ASSUME PromptInv, [PromptNext]_vars PROVE PromptInv'
  OBVIOUS
<1>1. TypeOK'
  BY TypeStep DEF PromptInv, PromptNext, Next
<1>2. TypeOK
  BY DEF PromptInv
<1>3. ASSUME NEW c \in Caller, Look(c) PROVE PromptInv'
  <2>1. CASE rec[key[c]].status = "in_progress" /\ SameRequest(key[c], hash[c])
             /\ TakeoverAllowed(key[c])
    <3>1. /\ rec' = [rec EXCEPT ![key[c]].lock = "live"]
          /\ pc' = [pc EXCEPT ![c] = "working"]
          /\ pc[c] = "new"
          /\ UNCHANGED <<key, hash, answer>>
      BY <1>3, <2>1 DEF Look, GoTo
    <3>2. rec' = [rec EXCEPT ![key[c]] = InProgress(hash[c])]
      <4>1. rec[key[c]] \in [status : {"in_progress"}, hash : Hash,
                             resource : {Nothing}, lock : {"live", "expired"}]
        BY <1>2, <2>1 DEF TypeOK, Row, NoRow
      <4>2. [rec[key[c]] EXCEPT !.lock = "live"] = InProgress(hash[c])
        BY <2>1, <4>1 DEF InProgress, SameRequest
      <4> QED
        BY <3>1, <4>2
    <3>3. \A d \in Caller : Claiming(d) => key[d] # key[c]
      BY <2>1, ClaimedRow DEF TakeoverAllowed
    <3>4. answer[c] = Nothing
      BY <3>1 DEF PromptInv, Unanswered
    <3> QED
      BY <1>1, <3>1, <3>2, <3>3, <3>4, ClaimSteps
  <2>2. CASE ~ (rec[key[c]].status = "in_progress" /\ SameRequest(key[c], hash[c])
                /\ TakeoverAllowed(key[c]))
    <3>1. TakesNoClaim
      BY <1>2, <1>3, <2>2 DEF Look, Answer, GoTo, TakesNoClaim, Claiming, TypeOK
    <3> QED
      BY <1>1, <3>1, UnclaimedSteps
  <2> QED
    BY <2>1, <2>2
<1>4. ASSUME NEW c \in Caller, Insert(c) PROVE PromptInv'
  <2>1. CASE InsertAccepted(key[c])
    <3>1. /\ rec' = [rec EXCEPT ![key[c]] = InProgress(hash[c])]
          /\ pc' = [pc EXCEPT ![c] = "working"]
          /\ pc[c] = "inserting"
          /\ UNCHANGED <<key, hash, answer>>
      BY <1>4, <2>1 DEF Insert, GoTo
    <3>2. \A d \in Caller : Claiming(d) => key[d] # key[c]
      BY <2>1, ClaimedRow DEF InsertAccepted
    <3>3. answer[c] = Nothing
      BY <3>1 DEF PromptInv, Unanswered
    <3> QED
      BY <1>1, <3>1, <3>2, <3>3, ClaimSteps
  <2>2. CASE ~ InsertAccepted(key[c])
    <3>1. TakesNoClaim
      BY <1>2, <1>4, <2>2 DEF Insert, GoTo, TakesNoClaim, Claiming, TypeOK
    <3> QED
      BY <1>1, <3>1, UnclaimedSteps
  <2> QED
    BY <2>1, <2>2
<1>5. ASSUME NEW c \in Caller, ClaimAfterRace(c) PROVE PromptInv'
  <2>1. TakesNoClaim
    BY <1>2, <1>5 DEF ClaimAfterRace, Answer, TakesNoClaim, Claiming, TypeOK
  <2> QED
    BY <1>1, <2>1, UnclaimedSteps
<1>6. ASSUME NEW c \in Caller, Store(c) PROVE PromptInv'
  <2>1. /\ pc' = [pc EXCEPT ![c] = "done"]
        /\ \A d \in Caller : d # c => answer'[d] = answer[d]
        /\ \A k \in Key : k # key[c] => rec'[k] = rec[k]
        /\ UNCHANGED <<key, hash>>
        /\ Claiming(c)
    BY <1>2, <1>6 DEF Store, Bind, Answer, Claiming, TypeOK
  <2>2. \A d \in Caller : Claiming(d) /\ d # c => key[d] # key[c]
    BY <2>1 DEF PromptInv, ClaimsDiffer
  <2>3. TakesNoClaim
    BY <1>2, <2>1, <2>2 DEF TakesNoClaim, Claiming, TypeOK
  <2> QED
    BY <1>1, <2>3, UnclaimedSteps
<1>7. ASSUME NEW c \in Caller, StoreRefused(c) PROVE FALSE
  BY <1>7, ClaimedRow DEF StoreRefused, Claiming, Matches, SameRequest
<1>8. ASSUME NEW c \in Caller, WorkFails(c) \/ Crash(c) PROVE PromptInv'
  <2>1. TakesNoClaim
    BY <1>2, <1>8 DEF WorkFails, Crash, TakesNoClaim, Claiming, TypeOK
  <2> QED
    BY <1>1, <2>1, UnclaimedSteps
<1>9. ASSUME NEW c \in Caller, Release(c) PROVE PromptInv'
  <2>1. /\ pc' = [pc EXCEPT ![c] = "done"]
        /\ \A k \in Key : k # key[c] => rec'[k] = rec[k]
        /\ UNCHANGED <<key, hash, answer>>
        /\ Claiming(c)
    BY <1>2, <1>9 DEF Release, Claiming, TypeOK
  <2>2. \A d \in Caller : Claiming(d) /\ d # c => key[d] # key[c]
    BY <2>1 DEF PromptInv, ClaimsDiffer
  <2>3. TakesNoClaim
    BY <1>2, <2>1, <2>2 DEF TakesNoClaim, Claiming, TypeOK
  <2> QED
    BY <1>1, <2>3, UnclaimedSteps
<1>10. ASSUME NEW k \in Key, Claimants(k) = {} /\ LockExpires(k) PROVE PromptInv'
  <2>1. TakesNoClaim
    BY <1>2, <1>10 DEF LockExpires, Claimants, TakesNoClaim, Claiming, TypeOK
  <2> QED
    BY <1>1, <2>1, UnclaimedSteps
<1>11. ASSUME NEW k \in Key, Purge(k) PROVE PromptInv'
  <2>1. TakesNoClaim
    BY <1>2, <1>11 DEF Purge, InFlight, TakesNoClaim, Claiming, TypeOK
  <2> QED
    BY <1>1, <2>1, UnclaimedSteps
<1>12. CASE UNCHANGED vars
  <2>1. TakesNoClaim
    BY <1>12 DEF vars, TakesNoClaim, Claiming
  <2> QED
    BY <1>1, <2>1, UnclaimedSteps
<1> QED
  BY <1>3, <1>4, <1>5, <1>6, <1>7, <1>8, <1>9, <1>10, <1>11, <1>12
  DEF PromptNext, Serve

\* There are no claims at first.
LEMMA InitPromptInv == Init => PromptInv
BY CallerAssumption
DEF Init, PromptInv, TypeOK, EachClaimStands, ClaimsDiffer, Unanswered, Claiming,
    NoRow, Row, Refusal

\* What the invariant says of the records.
LEMMA PromptInvMeans == PromptInv => OneExecutionAtATime /\ ClaimsStand
BY DEF PromptInv, ClaimsDiffer, EachClaimStands, Claiming, OneExecutionAtATime, ClaimsStand,
       Claimants

\* The claims' invariant holds as long as requests are prompt.
THEOREM PromptInvHolds == PromptSpec => []PromptInv
BY InitPromptInv, NextPromptInv, PTL DEF PromptSpec

\* No two prompt requests work for one key at a time.
THEOREM OneExecution == PromptSpec => []OneExecutionAtATime
BY PromptInvHolds, PromptInvMeans, PTL

\* No prompt request loses its claim or has its completion refused.
THEOREM ClaimsAreKept == PromptSpec => []ClaimsStand
BY PromptInvHolds, PromptInvMeans, PTL

\* When handlers are prompt and when they are not: as long as they are, no two
\* work for one key at a time and none loses its claim.
THEOREM PromptCallersStayAlone == MCSpec => []PromptCallersAreAlone
<1> DEFINE Inv == prompt => PromptInv
<1>1. MCInit => Inv
  BY InitPromptInv DEF MCInit
<1>2. Inv /\ [MCNext]_<<vars, prompt>> => Inv'
  <2> SUFFICES ASSUME Inv, [MCNext]_<<vars, prompt>>, prompt' PROVE PromptInv'
    OBVIOUS
  <2>1. prompt /\ [PromptNext]_vars
    BY DEF MCNext
  <2> QED
    BY <2>1, NextPromptInv
<1>3. Inv => PromptCallersAreAlone
  BY PromptInvMeans DEF PromptCallersAreAlone
<1> QED
  BY <1>1, <1>2, <1>3, PTL DEF MCSpec

=============================================================================
