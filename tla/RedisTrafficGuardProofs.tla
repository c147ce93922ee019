----------------------- MODULE RedisTrafficGuardProofs -----------------------
(***************************************************************************)
(* Proofs about RedisTrafficGuard, for any processes, clients and calls,   *)
(* any limits and any differences between clocks.                          *)
(***************************************************************************)
EXTENDS RedisTrafficGuard, FiniteSetTheorems, FunctionTheorems, SequenceTheorems, TLAPS

\* lease_ttl is longer than a call with the way of its request, even for a
\* process whose clock is ahead of the holder's: with 120 s, 90 s and 3 s
\* clocks may differ by less than 27 s.
LeasesOutliveCalls ==
  \A p, q \in Process : Skew[q] + MaxDelay + MaxCall < Skew[p] + LeaseTTL

\* The types the argument needs; the counters of the rates play no part in it.
CallTypes ==
  /\ now \in Nat
  /\ pc \in [Call -> {"idle", "sent", "running", "releasing"}]
  /\ call \in [Call -> Request]
  /\ log \in Seq([client : Client, stamp : Nat, at : Nat])
  /\ leases \subseteq [id : Nat, expires : Nat]
  /\ IsFiniteSet(leases)

\* A request carries a time its process read at most MaxDelay ago.
RequestsAreFresh ==
  \A r \in Call :
    /\ call[r].sent <= now
    /\ pc[r] = "sent" => /\ call[r].stamp = call[r].sent + Skew[call[r].process]
                         /\ now <= call[r].sent + MaxDelay

\* A running call was admitted by such a request and is at most MaxCall old.
CallsAreShort ==
  \A r \in Running :
    /\ call[r].stamp = call[r].sent + Skew[call[r].process]
    /\ call[r].began <= call[r].sent + MaxDelay
    /\ now <= call[r].began + MaxCall

\* The lease of call r.
LeaseOf(r) == [id |-> call[r].lease, expires |-> call[r].stamp + LeaseTTL]

\* A running call has its lease in the set.
LeasesAreKept == \A r \in Running : LeaseOf(r) \in leases

Holders == {r \in Call : pc[r] \in {"running", "releasing"}}

\* Lease ids count the admissions, and no two calls hold the same one.
LeaseIdsDiffer ==
  /\ \A r \in Holders : call[r].lease <= Len(log)
  /\ \A r, s \in Holders : r # s => call[r].lease # call[s].lease

LeaseInv ==
  /\ CallTypes
  /\ RequestsAreFresh
  /\ CallsAreShort
  /\ LeasesAreKept
  /\ LeaseIdsDiffer
  /\ ConcurrencyIsShared

-----------------------------------------------------------------------------
(***************************************************************************)
(* Leases and calls.                                                       *)
(***************************************************************************)

\* Whoever's clock judges it, the lease of a running call is alive.
LEMMA RunningLeasesAreAlive ==
  ASSUME SettingsAreSound, LeasesOutliveCalls, LeaseInv,
         NEW s \in Call, pc[s] = "sent", NEW r \in Running
  PROVE  LeaseOf(r) \in Alive(call[s].stamp)
<1> DEFINE p == call[r].process
           q == call[s].process
<1>1. /\ p \in Process /\ q \in Process
      /\ call[r].stamp \in Nat /\ call[r].sent \in Nat /\ call[r].began \in Nat
      /\ call[s].stamp \in Nat /\ call[s].sent \in Nat /\ now \in Nat
  BY DEF LeaseInv, CallTypes, Request, Running
<1>2. /\ Skew[p] \in Nat /\ Skew[q] \in Nat
      /\ MaxDelay \in Nat /\ MaxCall \in Nat /\ LeaseTTL \in Nat
  BY <1>1 DEF SettingsAreSound
<1>3. Skew[q] + MaxDelay + MaxCall < Skew[p] + LeaseTTL
  BY <1>1 DEF LeasesOutliveCalls
<1>4. /\ call[s].stamp = call[s].sent + Skew[q] /\ call[s].sent <= now
      /\ call[r].stamp = call[r].sent + Skew[p]
      /\ call[r].began <= call[r].sent + MaxDelay /\ now <= call[r].began + MaxCall
  BY DEF LeaseInv, RequestsAreFresh, CallsAreShort
<1> HIDE DEF p, q
<1>5. call[r].stamp + LeaseTTL > call[s].stamp
  BY <1>1, <1>2, <1>3, <1>4
<1> QED
  BY <1>5 DEF LeaseInv, LeasesAreKept, LeaseOf, Alive

\* There are no more running calls than leases in a set that holds theirs.
LEMMA RunningCallsAreCounted ==
  ASSUME LeaseInv, NEW A \in SUBSET leases, \A r \in Running : LeaseOf(r) \in A
  PROVE  /\ IsFiniteSet(A) /\ IsFiniteSet(Running)
         /\ Cardinality(Running) <= Cardinality(A)
<1> DEFINE f == [r \in Running |-> LeaseOf(r)]
<1>1. IsFiniteSet(A)
  BY FS_Subset DEF LeaseInv, CallTypes
<1>2. f \in [Running -> A]
  OBVIOUS
<1>3. \A a, b \in Running : f[a] = f[b] => a = b
  BY DEF LeaseOf, LeaseInv, LeaseIdsDiffer, Holders, Running
<1>4. f \in Injection(Running, A)
  BY <1>2, <1>3 DEF Injection, IsInjective
<1> QED
  BY <1>1, <1>4, FS_Injection

-----------------------------------------------------------------------------
(***************************************************************************)
(* The steps.                                                              *)
(***************************************************************************)

\* A step that starts no call keeps the limit.
LEMMA NoMoreCalls ==
  ASSUME SettingsAreSound, LeaseInv, Running' \subseteq Running
  PROVE  ConcurrencyIsShared'
<1>1. IsFiniteSet(Running)
  BY RunningCallsAreCounted DEF LeaseInv, LeasesAreKept
<1>2. IsFiniteSet(Running') /\ Cardinality(Running') <= Cardinality(Running)
  BY <1>1, FS_Subset
<1>3. Cardinality(Running) \in Nat /\ Cardinality(Running') \in Nat /\ MaxConcurrency \in Nat
  BY <1>1, <1>2, FS_CardinalityType DEF SettingsAreSound
<1> QED
  BY <1>2, <1>3 DEF LeaseInv, ConcurrencyIsShared

\* A thread leaves its state for one in which it runs no call; its request
\* and the leases stay.
LEMMA LeavingKeepsLeases ==
  ASSUME SettingsAreSound, LeaseInv, NEW r \in Call, pc[r] # "idle",
         NEW where \in {"idle", "releasing"}, where = "releasing" => pc[r] = "running",
         GoTo(r, where), UNCHANGED <<now, call, log>>,
         leases' \subseteq leases, \A s \in Running' : LeaseOf(s) \in leases'
  PROVE  LeaseInv'
<1> USE DEF LeaseInv, GoTo
<1>1. \A s \in Call : pc'[s] = pc[s] \/ (s = r /\ pc'[s] = where)
  BY DEF CallTypes
<1>2. Running' \subseteq Running /\ Holders' \subseteq Holders
  BY <1>1 DEF Running, Holders
<1>3. CallTypes'
  BY FS_Subset DEF CallTypes
<1>4. RequestsAreFresh' /\ CallsAreShort'
  BY <1>1, <1>2 DEF RequestsAreFresh, CallsAreShort
<1>5. LeasesAreKept'
  BY DEF LeasesAreKept, LeaseOf
<1>6. LeaseIdsDiffer'
  BY <1>2 DEF LeaseIdsDiffer
<1>7. ConcurrencyIsShared'
  BY <1>2, NoMoreCalls
<1> QED
  BY <1>3, <1>4, <1>5, <1>6, <1>7

\* A new request does not touch the calls under way.
LEMMA SendStep ==
  ASSUME SettingsAreSound, LeaseInv, NEW r \in Call, Send(r)
  PROVE  LeaseInv'
<1> USE DEF LeaseInv, Send, GoTo
<1>1. PICK p \in Process, c \in Client :
        call' = [call EXCEPT ![r] =
          [process |-> p, client |-> c, sent |-> now, stamp |-> now + Skew[p],
           lease |-> 0, began |-> 0]]
  OBVIOUS
<1>2. /\ call'[r] = [process |-> p, client |-> c, sent |-> now, stamp |-> now + Skew[p],
                     lease |-> 0, began |-> 0]
      /\ \A s \in Call \ {r} : call'[s] = call[s] /\ pc'[s] = pc[s]
      /\ pc'[r] = "sent"
  BY <1>1 DEF CallTypes
<1>3. now \in Nat /\ Skew[p] \in Nat /\ MaxDelay \in Nat
  BY DEF CallTypes, SettingsAreSound
<1>4. Running' = Running /\ Holders' = Holders /\ r \notin Holders /\ Running \subseteq Holders
  BY <1>2 DEF Running, Holders
<1>5. CallTypes'
  BY <1>1, <1>3 DEF CallTypes, Request
<1>6. RequestsAreFresh'
  BY <1>2, <1>3 DEF RequestsAreFresh
<1>7. CallsAreShort' /\ LeasesAreKept'
  BY <1>2, <1>4 DEF CallsAreShort, LeasesAreKept, LeaseOf, Holders
<1>8. LeaseIdsDiffer'
  BY <1>2, <1>4 DEF LeaseIdsDiffer, Holders
<1>9. ConcurrencyIsShared'
  BY <1>4, NoMoreCalls
<1> QED
  BY <1>5, <1>6, <1>7, <1>8, <1>9

\* An admission adds a lease for its call, drops no lease of a running one,
\* and finds fewer of them than the limit.
LEMMA AdmittedStep ==
  ASSUME SettingsAreSound, LeasesOutliveCalls, LeaseInv, NEW r \in Call, Admitted(r)
  PROVE  LeaseInv'
<1> DEFINE t == call[r].stamp
           id == Len(log) + 1
           own == [id |-> id, expires |-> t + LeaseTTL]
<1> USE DEF LeaseInv, GoTo
<1>1. /\ pc[r] = "sent" /\ now' = now
      /\ Cardinality(Alive(t)) < MaxConcurrency
      /\ leases' = Alive(t) \cup {own}
      /\ log' = Append(log, [client |-> call[r].client, stamp |-> t, at |-> now])
      /\ \/ pc' = [pc EXCEPT ![r] = "running"]
            /\ call' = [call EXCEPT ![r].lease = id, ![r].began = now]
         \/ pc' = [pc EXCEPT ![r] = "idle"] /\ call' = call
  BY DEF Admitted, Below
<1>2. /\ t \in Nat /\ now \in Nat /\ call[r] \in Request /\ LeaseTTL \in Nat
      /\ MaxDelay \in Nat /\ MaxCall \in Nat /\ MaxConcurrency \in Nat
  BY DEF CallTypes, Request, SettingsAreSound
<1>3. /\ Len(log) \in Nat /\ Len(log') = Len(log) + 1
      /\ log' \in Seq([client : Client, stamp : Nat, at : Nat])
  <2>1. [client |-> call[r].client, stamp |-> t, at |-> now]
          \in [client : Client, stamp : Nat, at : Nat]
    BY <1>2 DEF Request
  <2> HIDE DEF t
  <2> QED
    BY <1>1, <2>1, LenProperties, AppendProperties DEF CallTypes
<1>4. Alive(t) \in SUBSET leases /\ \A s \in Running : LeaseOf(s) \in Alive(t)
  BY <1>1, RunningLeasesAreAlive DEF Alive
<1>5. /\ IsFiniteSet(Alive(t)) /\ IsFiniteSet(Running)
      /\ Cardinality(Running) <= Cardinality(Alive(t))
  BY <1>4, RunningCallsAreCounted
<1>6. IsFiniteSet(leases') /\ leases' \subseteq [id : Nat, expires : Nat]
  <2>1. own \in [id : Nat, expires : Nat]
    BY <1>2, <1>3
  <2>2. leases' \subseteq [id : Nat, expires : Nat]
    BY <1>1, <1>4, <2>1 DEF CallTypes
  <2> HIDE DEF own
  <2>3. IsFiniteSet(leases')
    BY <1>1, <1>5, FS_AddElement
  <2> QED
    BY <2>2, <2>3
<1>7. \A s \in Call \ {r} : call'[s] = call[s] /\ pc'[s] = pc[s]
  BY <1>1 DEF CallTypes
<1>8. /\ call'[r].sent = call[r].sent
      /\ pc'[r] # "sent"
  BY <1>1, <1>2 DEF CallTypes, Request
<1>9. RequestsAreFresh'
  BY <1>1, <1>7, <1>8 DEF RequestsAreFresh
<1>10. CASE pc' = [pc EXCEPT ![r] = "idle"] /\ call' = call
  <2>1. Running' = Running /\ Holders' = Holders
    BY <1>1, <1>10 DEF Running, Holders, CallTypes
  <2>2. CallTypes'
    BY <1>1, <1>2, <1>3, <1>6, <1>10 DEF CallTypes
  <2>3. CallsAreShort' /\ LeasesAreKept'
    BY <1>1, <1>4, <1>10, <2>1 DEF CallsAreShort, LeasesAreKept, LeaseOf
  <2>4. LeaseIdsDiffer'
    <3>1. \A s \in Holders : call[s].lease \in Nat /\ call[s].lease <= Len(log)
      BY DEF LeaseIdsDiffer, Holders, CallTypes, Request
    <3> QED
      BY <1>3, <1>10, <2>1, <3>1 DEF LeaseIdsDiffer
  <2>5. ConcurrencyIsShared'
    BY <2>1, NoMoreCalls
  <2> QED
    BY <1>9, <2>2, <2>3, <2>4, <2>5
<1>11. CASE /\ pc' = [pc EXCEPT ![r] = "running"]
            /\ call' = [call EXCEPT ![r].lease = id, ![r].began = now]
  <2>1. /\ call'[r] = [call[r] EXCEPT !.lease = id, !.began = now]
        /\ pc'[r] = "running"
    BY <1>2, <1>11 DEF CallTypes
  <2>2. /\ call'[r].lease = id /\ call'[r].began = now
        /\ call'[r].stamp = t /\ call'[r].sent = call[r].sent
        /\ call'[r].process = call[r].process /\ call'[r] \in Request
    <3>1. id \in Nat /\ now \in Nat /\ call[r] \in Request
      BY <1>2, <1>3
    <3> HIDE DEF id
    <3> QED
      BY <2>1, <3>1 DEF Request
  <2>3. Running' = Running \cup {r} /\ Holders' = Holders \cup {r} /\ r \notin Holders
    BY <1>1, <1>7, <2>1 DEF Running, Holders
  <2>4. CallTypes'
    BY <1>1, <1>2, <1>3, <1>6, <1>7, <1>11, <2>2 DEF CallTypes
  <2>5. CallsAreShort'
    <3>1. /\ call[r].sent \in Nat /\ now <= call[r].sent + MaxDelay
          /\ t = call[r].sent + Skew[call[r].process]
      BY <1>1, <1>2 DEF RequestsAreFresh, Request
    <3>2. now <= now + MaxCall
      BY <1>2
    <3>3. \A s \in Running : s \in Call /\ s # r /\ call'[s] = call[s]
      BY <1>1, <1>7 DEF Running
    <3>4. now' = now
      BY <1>1
    <3> HIDE DEF t, id
    <3> SUFFICES ASSUME NEW s \in Running'
                 PROVE  /\ call'[s].stamp = call'[s].sent + Skew[call'[s].process]
                        /\ call'[s].began <= call'[s].sent + MaxDelay
                        /\ now' <= call'[s].began + MaxCall
      BY DEF CallsAreShort
    <3>5. CASE s = r
      BY <2>2, <3>1, <3>2, <3>4, <3>5
    <3>6. CASE s \in Running
      BY <3>3, <3>4, <3>6 DEF CallsAreShort
    <3> QED
      BY <2>3, <3>5, <3>6
  <2>6. LeasesAreKept'
    <3>1. \A s \in Running : LeaseOf(s)' = LeaseOf(s)
      BY <1>1, <1>7 DEF Running, LeaseOf
    <3>2. LeaseOf(r)' = own
      BY <2>2 DEF LeaseOf
    <3> HIDE DEF own, t
    <3> QED
      BY <1>1, <1>4, <2>3, <3>1, <3>2 DEF LeasesAreKept
  <2>7. LeaseIdsDiffer'
    <3>1. \A s \in Holders : s # r /\ call'[s] = call[s] /\ call[s].lease \in Nat
                             /\ call[s].lease <= Len(log)
      BY <1>7, <2>3 DEF LeaseIdsDiffer, Holders, CallTypes, Request
    <3> QED
      BY SMTT(30), <1>3, <2>2, <2>3, <3>1 DEF LeaseIdsDiffer
  <2>8. ConcurrencyIsShared'
    <3>1. r \notin Running
      BY <1>1 DEF Running
    <3>2. /\ Cardinality(Running') = Cardinality(Running) + 1
          /\ Cardinality(Running) \in Nat /\ Cardinality(Alive(t)) \in Nat
      BY <1>5, <2>3, <3>1, FS_AddElement, FS_CardinalityType
    <3> QED
      BY <1>1, <1>2, <1>5, <3>2 DEF ConcurrencyIsShared
  <2> QED
    BY <1>9, <2>4, <2>5, <2>6, <2>7, <2>8
<1> QED
  BY <1>1, <1>10, <1>11

\* Every step keeps the invariant.
LEMMA LeaseStep ==
  ASSUME SettingsAreSound, LeasesOutliveCalls, LeaseInv, [Next]_vars
  PROVE  LeaseInv'
<1>1. ASSUME NEW r \in Call, Send(r) PROVE LeaseInv'
  BY <1>1, SendStep
<1>2. ASSUME NEW r \in Call, Admitted(r) PROVE LeaseInv'
  BY <1>2, AdmittedStep
<1>3. ASSUME NEW r \in Call, Refused(r) PROVE LeaseInv'
  <2>1. \A s \in Running : LeaseOf(s) \in Alive(call[r].stamp)
    BY <1>3, RunningLeasesAreAlive DEF Refused
  <2>2. /\ pc[r] = "sent" /\ GoTo(r, "idle") /\ UNCHANGED <<now, call, log>>
        /\ leases' = Alive(call[r].stamp)
    BY <1>3 DEF Refused
  <2>3. Running' \subseteq Running
    BY <2>2 DEF GoTo, Running, LeaseInv, CallTypes
  <2>4. leases' \subseteq leases /\ \A s \in Running' : LeaseOf(s) \in leases'
    BY <2>1, <2>2, <2>3 DEF Alive
  <2> QED
    BY <2>2, <2>4, LeavingKeepsLeases
<1>4. ASSUME NEW r \in Call, RequestLost(r) \/ EndCall(r) \/ ReleaseFails(r) PROVE LeaseInv'
  <2>1. PICK where \in {"idle", "releasing"} :
          /\ where = "releasing" => pc[r] = "running"
          /\ pc[r] # "idle" /\ GoTo(r, where) /\ UNCHANGED <<now, call, log, leases>>
    BY <1>4 DEF RequestLost, EndCall, ReleaseFails
  <2>2. Running' \subseteq Running
    BY <2>1 DEF GoTo, Running, LeaseInv, CallTypes
  <2>3. \A s \in Running' : LeaseOf(s) \in leases'
    BY <2>1, <2>2 DEF LeaseInv, LeasesAreKept
  <2> QED
    BY <2>1, <2>3, LeavingKeepsLeases
<1>5. ASSUME NEW r \in Call, Release(r) PROVE LeaseInv'
  <2>1. /\ pc[r] = "releasing" /\ GoTo(r, "idle") /\ UNCHANGED <<now, call, log>>
        /\ leases' = {l \in leases : l.id # call[r].lease}
    BY <1>5 DEF Release
  <2>2. \A s \in Running' : s \in Running /\ s # r
    BY <2>1 DEF GoTo, Running, LeaseInv, CallTypes
  <2>3. \A s \in Running' : LeaseOf(s) \in leases /\ LeaseOf(s).id # call[r].lease
    BY <2>1, <2>2 DEF LeaseInv, LeasesAreKept, LeaseIdsDiffer, Holders, Running, LeaseOf
  <2>4. leases' \subseteq leases /\ \A s \in Running' : LeaseOf(s) \in leases'
    BY <2>1, <2>3
  <2> QED
    BY <2>1, <2>4, LeavingKeepsLeases
<1>6. CASE Tick
  <2> USE DEF LeaseInv
  <2>1. /\ now' = now + 1 /\ UNCHANGED <<leases, pc, call, log>>
        /\ \A r \in Call : /\ pc[r] = "sent" => now < call[r].sent + MaxDelay
                           /\ pc[r] = "running" => now < call[r].began + MaxCall
    BY <1>6 DEF Tick
  <2>2. Running' = Running /\ Holders' = Holders
    BY <2>1 DEF Running, Holders
  <2>3. CallTypes'
    BY <2>1 DEF CallTypes
  <2>4. now \in Nat /\ MaxDelay \in Nat /\ MaxCall \in Nat
        /\ \A r \in Call : call[r].sent \in Nat /\ call[r].began \in Nat
    BY DEF CallTypes, Request, SettingsAreSound
  <2>5. RequestsAreFresh'
    BY <2>1, <2>4 DEF RequestsAreFresh
  <2>6. CallsAreShort'
    BY <2>1, <2>2, <2>4 DEF CallsAreShort, Running
  <2>7. LeasesAreKept' /\ LeaseIdsDiffer'
    BY <2>1, <2>2 DEF LeasesAreKept, LeaseIdsDiffer, LeaseOf
  <2>8. ConcurrencyIsShared'
    BY <2>2, NoMoreCalls
  <2> QED
    BY <2>3, <2>5, <2>6, <2>7, <2>8
<1>7. CASE UNCHANGED vars
  BY <1>7 DEF vars, LeaseInv, CallTypes, RequestsAreFresh, CallsAreShort, LeasesAreKept,
              LeaseIdsDiffer, ConcurrencyIsShared, Running, Holders, LeaseOf
<1> QED
  BY <1>1, <1>2, <1>3, <1>4, <1>5, <1>6, <1>7 DEF Next

\* At first nobody runs anything.
LEMMA InitLeases ==
  ASSUME SettingsAreSound, Init
  PROVE  LeaseInv
<1>1. Running = {} /\ Holders = {}
  BY DEF Init, Running, Holders
<1>2. CallTypes
  BY FS_EmptySet, EmptySeq DEF Init, CallTypes, Request
<1>3. RequestsAreFresh
  BY DEF Init, RequestsAreFresh
<1>4. ConcurrencyIsShared
  BY <1>1, FS_EmptySet DEF ConcurrencyIsShared, SettingsAreSound
<1> QED
  BY <1>1, <1>2, <1>3, <1>4 DEF LeaseInv, CallsAreShort, LeasesAreKept, LeaseIdsDiffer

\* The limit of concurrency holds over all processes, although requests,
\* answers and releases get lost, as long as the lease of a call is longer
\* than the call by more than clocks differ.
THEOREM ConcurrencyHolds ==
  ASSUME SettingsAreSound, LeasesOutliveCalls
  PROVE  Spec => []ConcurrencyIsShared
<1>1. Init => LeaseInv
  BY InitLeases
<1>2. LeaseInv /\ [Next]_vars => LeaseInv'
  BY LeaseStep
<1>3. LeaseInv => ConcurrencyIsShared
  BY DEF LeaseInv
<1> QED
  BY <1>1, <1>2, <1>3, PTL DEF Spec

-----------------------------------------------------------------------------
(***************************************************************************)
(* The counters of the rates.  A window is cut into the buckets t \div w.  *)
(***************************************************************************)

\* One process is furthest ahead, as in every finite set that is not empty.
OneIsFurthestAhead == \E p \in Process : \A q \in Process : Skew[q] <= Skew[p]

RateSettings == SettingsAreSound /\ OneIsFurthestAhead /\ MaxTime \in Nat

\* A time lies in its bucket.
LEMMA BucketBounds ==
  ASSUME NEW t \in Nat, NEW w \in Nat \ {0}
  PROVE  /\ t \div w \in Nat
         /\ (t \div w) * w <= t
         /\ t < (t \div w) * w + w
OBVIOUS

\* Buckets do not overlap.
LEMMA BucketIsUnique ==
  ASSUME NEW t \in Nat, NEW w \in Nat \ {0}, NEW b \in Nat, b * w <= t, t < b * w + w
  PROVE  t \div w = b
<1>1. /\ t \div w \in Nat
      /\ (t \div w) * w <= t
      /\ t < (t \div w) * w + w
  BY BucketBounds
<1> DEFINE a == t \div w
<1> HIDE DEF a
<1>2. ~(a < b)
  <2> SUFFICES ASSUME a < b PROVE FALSE
    OBVIOUS
  <2>1. PICK k \in Nat : b = a + 1 + k
    <3>1. a \in Nat /\ b - a - 1 \in Nat /\ b = a + 1 + (b - a - 1)
      BY <1>1 DEF a
    <3> QED
      BY <3>1
  <2>2. b * w = a * w + w + k * w /\ k * w \in Nat /\ a * w \in Nat
    BY <1>1, <2>1 DEF a
  <2>3. t < a * w + w
    BY <1>1 DEF a
  <2> QED
    BY <2>2, <2>3
<1>3. ~(b < a)
  <2> SUFFICES ASSUME b < a PROVE FALSE
    OBVIOUS
  <2>1. PICK k \in Nat : a = b + 1 + k
    <3>1. a \in Nat /\ a - b - 1 \in Nat /\ a = b + 1 + (a - b - 1)
      BY <1>1 DEF a
    <3> QED
      BY <3>1
  <2>2. a * w = b * w + w + k * w /\ k * w \in Nat /\ b * w \in Nat
    BY <2>1
  <2>3. a * w <= t
    BY <1>1 DEF a
  <2> QED
    BY <2>2, <2>3
<1>4. a \in Nat
  BY <1>1 DEF a
<1> QED
  BY <1>2, <1>3, <1>4 DEF a

\* Later times lie in later buckets.
LEMMA BucketsGrow ==
  ASSUME NEW t \in Nat, NEW m \in Nat, t <= m, NEW w \in Nat \ {0}
  PROVE  t \div w \in 0..(m \div w)
<1> DEFINE a == t \div w
           b == m \div w
<1>1. a \in Nat /\ b \in Nat /\ a * w <= t /\ m < b * w + w
  BY BucketBounds
<1> HIDE DEF a, b
<1>2. ~(b < a)
  <2> SUFFICES ASSUME b < a PROVE FALSE
    OBVIOUS
  <2>1. PICK k \in Nat : a = b + 1 + k
    <3>1. a - b - 1 \in Nat /\ a = b + 1 + (a - b - 1)
      BY <1>1
    <3> QED
      BY <3>1
  <2>2. a * w = b * w + w + k * w /\ k * w \in Nat /\ b * w \in Nat
    BY <1>1, <2>1
  <2> QED
    BY <1>1, <2>2
<1> QED
  BY <1>1, <1>2 DEF a, b

\* No clock is further ahead than Ahead.
LEMMA AheadIsMost ==
  ASSUME RateSettings
  PROVE  Ahead \in Nat /\ \A q \in Process : Skew[q] \in Nat /\ Skew[q] <= Ahead
<1>1. PICK p \in Process : \A q \in Process : Skew[q] <= Skew[p]
  BY DEF RateSettings, OneIsFurthestAhead
<1>2. Ahead \in {Skew[q] : q \in Process} /\ \A q \in Process : Skew[q] <= Ahead
  BY <1>1 DEF Ahead
<1>3. \A q \in Process : Skew[q] \in Nat
  BY DEF RateSettings, SettingsAreSound
<1> QED
  BY <1>2, <1>3

\* No stamp is later than MaxStamp.
LEMMA StampBound ==
  ASSUME RateSettings
  PROVE  MaxStamp \in Nat /\ \A q \in Process : MaxTime + Skew[q] <= MaxStamp
BY AheadIsMost DEF MaxStamp, RateSettings

\* What the arguments about the rates need of the rest of the state: the stamp
\* of an admission was true on its way by some clock.
TravelInv ==
  /\ now \in 0..MaxTime
  /\ pc \in [Call -> {"idle", "sent", "running", "releasing"}]
  /\ call \in [Call -> Request]
  /\ log \in Seq([client : Client, stamp : Nat, at : Nat])
  /\ leases \in SUBSET [id : 1..Len(log), expires : Nat]
  /\ RequestsAreFresh
  /\ \A i \in DOMAIN log :
       /\ log[i].at <= now
       /\ log[i].stamp <= log[i].at + Ahead /\ log[i].at <= log[i].stamp + MaxDelay

\* Of the admissions of a bucket, those the last Window saw,
Recent(S, b) == {i \in InBucket(S, b) : now <= log[i].at + Window}

\* and those of a spell as long as a key lives.
Spell(S, b, t) == {i \in InBucket(S, b) : log[i].at \in t..(t + Window)}

\* A key of a window lives longer than Window after each of its admissions: it
\* knows the recent ones, and no spell saw more of them than the limit.
KeyFits(key, limit, S, b) ==
  /\ key \in Key(limit)
  /\ key.n <= Cardinality(InBucket(S, b))
  /\ \A i \in InBucket(S, b) : log[i].at + Window + 1 <= key.dies
  /\ Cardinality(Recent(S, b)) <= key.n
  /\ \A t \in Nat : Cardinality(Spell(S, b, t)) <= limit

\* An admission is logged behind all others.
LEMMA OneMoreLogged ==
  ASSUME TravelInv, NEW e \in [client : Client, stamp : Nat, at : Nat],
         log' = Append(log, e)
  PROVE  /\ DOMAIN log' = DOMAIN log \cup {Len(log) + 1} /\ Len(log) + 1 \notin DOMAIN log
         /\ \A i \in DOMAIN log : log'[i] = log[i]
         /\ log'[Len(log) + 1] = e
<1>1. /\ DOMAIN log = 1..Len(log) /\ Len(log) \in Nat
      /\ DOMAIN log' = 1..Len(log')
  BY LenProperties, AppendProperties DEF TravelInv
<1>2. /\ Len(log') = Len(log) + 1 /\ log'[Len(log) + 1] = e
      /\ \A i \in 1..Len(log) : log'[i] = log[i]
  BY AppendProperties DEF TravelInv
<1> HIDE DEF TravelInv
<1> QED
  BY <1>1, <1>2

\* It is one more of its bucket and of no other.
LEMMA OneMoreInBucket ==
  ASSUME TravelInv, NEW e \in [client : Client, stamp : Nat, at : Nat],
         log' = Append(log, e), NEW S, NEW b
  PROVE  /\ e.client \in S /\ Bucket(e.stamp) = b =>
              InBucket(S, b)' = InBucket(S, b) \cup {Len(log) + 1}
         /\ ~(e.client \in S /\ Bucket(e.stamp) = b) =>
              InBucket(S, b)' = InBucket(S, b)
         /\ Len(log) + 1 \notin InBucket(S, b)
BY OneMoreLogged DEF InBucket

\* Entries of the log are what was appended.
LEMMA LogEntries ==
  ASSUME TravelInv
  PROVE  \A i \in DOMAIN log : log[i].client \in Client /\ log[i].stamp \in Nat /\ log[i].at \in Nat
<1>1. \A i \in DOMAIN log : log[i] \in [client : Client, stamp : Nat, at : Nat]
  BY ElementOfSeq, LenProperties DEF TravelInv
<1> QED
  BY <1>1

\* The log is finite, and so is a part of it.
LEMMA PartsAreFinite ==
  ASSUME TravelInv, NEW T, T \subseteq DOMAIN log
  PROVE  IsFiniteSet(T) /\ Cardinality(T) \in Nat
<1>1. IsFiniteSet(DOMAIN log)
  <2>1. DOMAIN log = 1..Len(log) /\ Len(log) \in Nat
    BY LenProperties DEF TravelInv
  <2> QED
    BY <2>1, FS_Interval
<1> QED
  BY <1>1, FS_Subset, FS_CardinalityType

\* A part of a finite set has no more elements.
LEMMA PartsAreSmaller ==
  ASSUME NEW T, IsFiniteSet(T), NEW R, R \subseteq T
  PROVE  Cardinality(R) <= Cardinality(T) /\ Cardinality(R) \in Nat /\ Cardinality(T) \in Nat
BY FS_Subset, FS_CardinalityType

\* The admissions of a bucket and their times.
LEMMA BucketTimes ==
  ASSUME TravelInv, NEW S, NEW b
  PROVE  /\ IsFiniteSet(InBucket(S, b)) /\ Cardinality(InBucket(S, b)) \in Nat
         /\ \A i \in InBucket(S, b) : log[i].at \in Nat /\ log[i].at <= now
         /\ now \in Nat
<1>1. InBucket(S, b) \subseteq DOMAIN log
  BY DEF InBucket
<1>2. \A i \in DOMAIN log : log[i].at \in Nat
  BY LogEntries
<1> QED
  BY <1>1, <1>2, PartsAreFinite DEF TravelInv

\* While its bucket gets no admission, time only takes from what a key has to
\* know.
LEMMA KeyStays ==
  ASSUME RateSettings, TravelInv, NEW key, NEW limit, NEW S, NEW b, KeyFits(key, limit, S, b),
         InBucket(S, b)' = InBucket(S, b), \A i \in InBucket(S, b) : log'[i] = log[i],
         now <= now', now' \in Nat
  PROVE  /\ key \in Key(limit)
         /\ key.n <= Cardinality(InBucket(S, b)')
         /\ \A i \in InBucket(S, b)' : log'[i].at + Window + 1 <= key.dies
         /\ Cardinality(Recent(S, b)') <= key.n
         /\ \A t \in Nat : Cardinality(Spell(S, b, t)') <= limit
<1>1. Recent(S, b)' \subseteq Recent(S, b)
  <2>1. Window \in Nat
    BY DEF RateSettings, SettingsAreSound
  <2> QED
    BY <2>1, BucketTimes DEF Recent
<1>2. IsFiniteSet(Recent(S, b))
  BY BucketTimes, FS_Subset DEF Recent
<1>3. /\ Cardinality(Recent(S, b)') <= Cardinality(Recent(S, b))
      /\ Cardinality(Recent(S, b)') \in Nat /\ Cardinality(Recent(S, b)) \in Nat
  BY <1>1, <1>2, PartsAreSmaller
<1>4. key.n \in Nat
  BY DEF KeyFits, Key
<1>5. \A t \in Nat : Spell(S, b, t)' = Spell(S, b, t)
  BY DEF Spell
<1> QED
  BY <1>3, <1>4, <1>5 DEF KeyFits

\* The admitted request is counted, and starts the key's time anew: if the key
\* had expired, nothing of its bucket was recent.
LEMMA CountedOnce ==
  ASSUME RateSettings, TravelInv, NEW S,
         NEW e \in [client : Client, stamp : Nat, at : Nat], e.at = now, e.client \in S,
         log' = Append(log, e), now' = now,
         NEW b, b = Bucket(e.stamp),
         NEW key, NEW limit \in Nat, KeyFits(key, limit, S, b), Below(Value(key), limit),
         NEW k, k = Increased(key, Window + 1)
  PROVE  /\ k \in Key(limit)
         /\ k.n <= Cardinality(InBucket(S, b)')
         /\ \A i \in InBucket(S, b)' : log'[i].at + Window + 1 <= k.dies
         /\ Cardinality(Recent(S, b)') <= k.n
         /\ \A t \in Nat : Cardinality(Spell(S, b, t)') <= limit
<1> DEFINE new == Len(log) + 1
<1>1. /\ DOMAIN log' = DOMAIN log \cup {new} /\ new \notin DOMAIN log
      /\ \A i \in DOMAIN log : log'[i] = log[i]
      /\ log'[new] = e
      /\ InBucket(S, b)' = InBucket(S, b) \cup {new} /\ new \notin InBucket(S, b)
      /\ InBucket(S, b) \subseteq DOMAIN log
  <2>1. InBucket(S, b) \subseteq DOMAIN log
    BY DEF InBucket
  <2> QED
    BY <2>1, OneMoreLogged, OneMoreInBucket
<1> HIDE DEF new
<1>2. /\ Window \in Nat /\ now \in Nat /\ key.n \in Nat /\ key.dies \in Nat
      /\ IsFiniteSet(InBucket(S, b)) /\ Cardinality(InBucket(S, b)) \in Nat
      /\ \A i \in InBucket(S, b) : log[i].at \in Nat /\ log[i].at <= now
                                  /\ log[i].at + Window + 1 <= key.dies
  BY BucketTimes DEF RateSettings, SettingsAreSound, KeyFits, Key
<1>3. /\ k = [n |-> Value(key) + 1, dies |-> now + (Window + 1)]
      /\ Value(key) \in Nat /\ Value(key) <= key.n /\ Value(key) < limit
  BY <1>2 DEF Increased, Value, Below
<1>4. k \in Key(limit)
  BY <1>2, <1>3 DEF Key
<1>5. k.n <= Cardinality(InBucket(S, b)')
  <2>1. Cardinality(InBucket(S, b)') = Cardinality(InBucket(S, b)) + 1
    BY <1>1, <1>2, FS_AddElement
  <2> QED
    BY <1>2, <1>3, <2>1 DEF KeyFits
<1>6. \A i \in InBucket(S, b)' : log'[i].at + Window + 1 <= k.dies
  BY <1>1, <1>2, <1>3
<1>7. /\ IsFiniteSet(Recent(S, b)) /\ Cardinality(Recent(S, b)) \in Nat
      /\ Cardinality(Recent(S, b)) <= Value(key)
  <2>1. IsFiniteSet(Recent(S, b)) /\ Cardinality(Recent(S, b)) \in Nat
    BY <1>2, FS_Subset, FS_CardinalityType DEF Recent
  <2>2. CASE now < key.dies
    BY <2>1, <2>2 DEF Value, KeyFits
  <2>3. CASE ~(now < key.dies)
    <3>1. Recent(S, b) = {}
      BY <1>2, <2>3 DEF Recent
    <3> QED
      BY <1>3, <2>1, <3>1, FS_EmptySet
  <2> QED
    BY <2>2, <2>3, <2>1
<1>8. Cardinality(Recent(S, b) \cup {new}) = Cardinality(Recent(S, b)) + 1
  BY <1>1, <1>7, FS_AddElement DEF Recent
<1>9. Cardinality(Recent(S, b)') <= k.n
  <2>1. Recent(S, b)' = Recent(S, b) \cup {new}
    BY <1>1, <1>2 DEF Recent
  <2> QED
    BY <1>3, <1>7, <1>8, <2>1
<1>10. ASSUME NEW t \in Nat PROVE Cardinality(Spell(S, b, t)') <= limit
  <2>1. CASE now \notin t..(t + Window)
    <3>1. Spell(S, b, t)' = Spell(S, b, t)
      BY <1>1, <2>1 DEF Spell
    <3> QED
      BY <3>1 DEF KeyFits
  <2>2. CASE now \in t..(t + Window)
    <3>1. Spell(S, b, t)' \subseteq Recent(S, b) \cup {new}
      BY <1>1, <1>2, <2>2 DEF Spell, Recent
    <3>2. IsFiniteSet(Recent(S, b) \cup {new})
      BY <1>7, FS_AddElement
    <3>3. /\ Cardinality(Spell(S, b, t)') <= Cardinality(Recent(S, b) \cup {new})
          /\ Cardinality(Spell(S, b, t)') \in Nat
      BY <3>1, <3>2, PartsAreSmaller
    <3> QED
      BY <1>3, <1>7, <1>8, <3>3
  <2> QED
    BY <2>1, <2>2
<1> QED
  BY <1>4, <1>5, <1>6, <1>9, <1>10

\* A thread moves on; nobody's request changes but that of a call admitted.
LEMMA MovingKeepsTravel ==
  ASSUME RateSettings, TravelInv, NEW r \in Call,
         NEW where \in {"idle", "running", "releasing"}, GoTo(r, where),
         UNCHANGED <<now, log>>, call' \in [Call -> Request],
         \A s \in Call : call'[s].sent = call[s].sent /\ (s # r => call'[s] = call[s]),
         leases' \in SUBSET [id : 1..Len(log), expires : Nat]
  PROVE  TravelInv'
<1>1. \A s \in Call : pc'[s] = "sent" => s # r /\ pc[s] = "sent"
  BY DEF GoTo, TravelInv
<1>2. RequestsAreFresh'
  BY <1>1 DEF RequestsAreFresh, TravelInv
<1>3. /\ pc' \in [Call -> {"idle", "sent", "running", "releasing"}]
      /\ now' \in 0..MaxTime /\ log' \in Seq([client : Client, stamp : Nat, at : Nat])
      /\ \A i \in DOMAIN log' : /\ log'[i].at <= now'
                                /\ log'[i].stamp <= log'[i].at + Ahead
                                /\ log'[i].at <= log'[i].stamp + MaxDelay
  BY DEF GoTo, TravelInv
<1> QED
  BY <1>2, <1>3 DEF TravelInv, Ahead

\* A request that is sent carries a stamp of that moment.
LEMMA SendTravels ==
  ASSUME RateSettings, TravelInv, NEW r \in Call, Send(r)
  PROVE  TravelInv'
<1>1. PICK p \in Process, c \in Client :
        call' = [call EXCEPT ![r] =
          [process |-> p, client |-> c, sent |-> now, stamp |-> now + Skew[p],
           lease |-> 0, began |-> 0]]
  BY DEF Send
<1>2. /\ now \in Nat /\ Skew[p] \in Nat /\ MaxDelay \in Nat
      /\ pc' = [pc EXCEPT ![r] = "sent"] /\ UNCHANGED <<now, leases, log>>
  BY DEF TravelInv, RateSettings, SettingsAreSound, Send, GoTo
<1>3. call' \in [Call -> Request] /\ pc' \in [Call -> {"idle", "sent", "running", "releasing"}]
  BY <1>1, <1>2 DEF TravelInv, Request
<1>4. RequestsAreFresh'
  <2>1. call'[r] = [process |-> p, client |-> c, sent |-> now, stamp |-> now + Skew[p],
                    lease |-> 0, began |-> 0]
    BY <1>1 DEF TravelInv
  <2>2. \A s \in Call \ {r} : call'[s] = call[s] /\ pc'[s] = pc[s]
    BY <1>1, <1>2 DEF TravelInv
  <2> QED
    BY <1>2, <2>1, <2>2 DEF RequestsAreFresh, TravelInv
<1> QED
  BY <1>2, <1>3, <1>4 DEF TravelInv, Ahead

\* An admission is stamped as some clock showed on its way.
LEMMA AdmittedTravels ==
  ASSUME RateSettings, TravelInv, NEW r \in Call, Admitted(r)
  PROVE  TravelInv'
<1>1. PICK e \in [client : Client, stamp : Nat, at : Nat] :
        /\ e = [client |-> call[r].client, stamp |-> call[r].stamp, at |-> now]
        /\ log' = Append(log, e)
  <2>1. [client |-> call[r].client, stamp |-> call[r].stamp, at |-> now]
          \in [client : Client, stamp : Nat, at : Nat]
    BY DEF TravelInv, Request
  <2> QED
    BY <2>1 DEF Admitted
<1>2. e.at = now /\ e.stamp <= e.at + Ahead /\ e.at <= e.stamp + MaxDelay
  <2>1. /\ call[r].process \in Process /\ call[r].sent \in Nat /\ now \in Nat
        /\ call[r].stamp = call[r].sent + Skew[call[r].process]
        /\ call[r].sent <= now /\ now <= call[r].sent + MaxDelay
    BY DEF TravelInv, RequestsAreFresh, Request, Admitted, RateSettings
  <2>2. /\ Skew[call[r].process] \in Nat /\ Skew[call[r].process] <= Ahead
        /\ Ahead \in Nat /\ MaxDelay \in Nat
    BY <2>1, AheadIsMost DEF RateSettings, SettingsAreSound
  <2>3. e.at = now /\ e.stamp = call[r].stamp
    BY <1>1
  <2>4. PICK s \in Nat, a \in Nat : s = call[r].sent /\ a = Skew[call[r].process]
    BY <2>1, <2>2
  <2> QED
    BY <2>1, <2>2, <2>3, <2>4
<1>3. \A i \in DOMAIN log' : /\ log'[i].at <= now
                             /\ log'[i].stamp <= log'[i].at + Ahead
                             /\ log'[i].at <= log'[i].stamp + MaxDelay
  <2>1. /\ DOMAIN log' = DOMAIN log \cup {Len(log) + 1}
        /\ \A i \in DOMAIN log : log'[i] = log[i]
        /\ log'[Len(log) + 1] = e
    BY <1>1, OneMoreLogged
  <2>2. \A i \in DOMAIN log : /\ log[i].at <= now
                              /\ log[i].stamp <= log[i].at + Ahead
                              /\ log[i].at <= log[i].stamp + MaxDelay
    BY DEF TravelInv
  <2>3. e.at <= now
    BY <1>2 DEF TravelInv
  <2> QED
    BY <1>2, <2>1, <2>2, <2>3
<1>4. /\ log' \in Seq([client : Client, stamp : Nat, at : Nat])
      /\ Len(log') = Len(log) + 1 /\ Len(log) \in Nat
  BY <1>1, AppendProperties, LenProperties DEF TravelInv
<1>5. leases' \in SUBSET [id : 1..Len(log'), expires : Nat]
  <2>1. /\ leases' = Alive(call[r].stamp)
                       \cup {[id |-> Len(log) + 1, expires |-> call[r].stamp + LeaseTTL]}
        /\ Alive(call[r].stamp) \subseteq leases
    BY DEF Admitted, Alive
  <2>2. [id |-> Len(log) + 1, expires |-> call[r].stamp + LeaseTTL]
          \in [id : 1..Len(log'), expires : Nat]
    BY <1>4 DEF TravelInv, Request, RateSettings, SettingsAreSound
  <2>3. leases \subseteq [id : 1..Len(log'), expires : Nat]
    BY <1>4 DEF TravelInv
  <2> QED
    BY <2>1, <2>2, <2>3
<1>6. /\ now' = now
      /\ pc' \in [Call -> {"idle", "sent", "running", "releasing"}]
      /\ \A s \in Call : pc'[s] = "sent" => s # r /\ pc[s] = "sent"
  BY DEF Admitted, GoTo, TravelInv
<1>7. /\ call' \in [Call -> Request]
      /\ \A s \in Call : call'[s].sent = call[s].sent /\ (s # r => call'[s] = call[s])
  <2>1. PICK id \in Nat : id = Len(log) + 1
    BY <1>4
  <2>2. call' = call \/ call' = [call EXCEPT ![r].lease = id, ![r].began = now]
    BY <2>1 DEF Admitted
  <2>3. CASE call' = call
    BY <2>3 DEF TravelInv
  <2>4. CASE call' = [call EXCEPT ![r].lease = id, ![r].began = now]
    <3>1. call' = [call EXCEPT ![r] = [call[r] EXCEPT !.lease = id, !.began = now]]
      BY <2>4 DEF TravelInv, Request
    <3>2. PICK q \in Request : q = [call[r] EXCEPT !.lease = id, !.began = now]
      <4>1. call[r] \in Request /\ id \in Nat /\ now \in Nat
        BY <2>1 DEF TravelInv
      <4> QED
        BY <4>1 DEF Request
    <3>3. q.sent = call[r].sent
      BY <3>2 DEF TravelInv, Request
    <3>4. /\ call'[r] = q /\ \A s \in Call \ {r} : call'[s] = call[s]
          /\ call' \in [Call -> Request]
      BY <3>1, <3>2 DEF TravelInv
    <3> QED
      BY <3>3, <3>4
  <2> QED
    BY <2>2, <2>3, <2>4
<1>8. RequestsAreFresh'
  BY <1>6, <1>7 DEF RequestsAreFresh, TravelInv
<1> QED
  BY <1>3, <1>4, <1>5, <1>6, <1>7, <1>8 DEF TravelInv, Ahead

\* Every step keeps what is known of the requests and of the log.
LEMMA TravelStep ==
  ASSUME RateSettings, TravelInv, [Next]_vars
  PROVE  TravelInv'
<1>1. ASSUME NEW r \in Call, Send(r) PROVE TravelInv'
  BY <1>1, SendTravels
<1>2. ASSUME NEW r \in Call, Admitted(r) PROVE TravelInv'
  BY <1>2, AdmittedTravels
<1>3. ASSUME NEW r \in Call,
             RequestLost(r) \/ Refused(r) \/ EndCall(r) \/ Release(r) \/ ReleaseFails(r)
      PROVE  TravelInv'
  <2>1. PICK where \in {"idle", "running", "releasing"} : GoTo(r, where)
    BY <1>3 DEF RequestLost, Refused, EndCall, Release, ReleaseFails
  <2>2. UNCHANGED <<now, log, call>> /\ leases' \subseteq leases
    BY <1>3 DEF RequestLost, Refused, EndCall, Release, ReleaseFails, Alive
  <2>3. /\ call' \in [Call -> Request] /\ leases' \in SUBSET [id : 1..Len(log), expires : Nat]
        /\ \A s \in Call : call'[s].sent = call[s].sent /\ (s # r => call'[s] = call[s])
    BY <2>2 DEF TravelInv
  <2> QED
    BY <2>1, <2>2, <2>3, MovingKeepsTravel
<1>4. ASSUME Tick PROVE TravelInv'
  <2>1. /\ now' = now + 1 /\ now < MaxTime /\ UNCHANGED <<leases, pc, call, log>>
        /\ \A r \in Call : pc[r] = "sent" => now < call[r].sent + MaxDelay
    BY <1>4 DEF Tick
  <2>2. now' \in 0..MaxTime
    BY <2>1 DEF TravelInv, RateSettings
  <2>3. RequestsAreFresh'
    BY <2>1 DEF RequestsAreFresh, TravelInv, Request, RateSettings, SettingsAreSound
  <2>4. \A i \in DOMAIN log : log[i].at <= now'
    <3>1. \A i \in DOMAIN log : log[i].at \in Nat
      BY LogEntries
    <3> QED
      BY <2>1, <3>1 DEF TravelInv
  <2> QED
    BY <2>1, <2>2, <2>3, <2>4 DEF TravelInv, Ahead
<1>5. ASSUME UNCHANGED vars PROVE TravelInv'
  BY <1>5 DEF vars, TravelInv, RequestsAreFresh, Ahead
<1> QED
  BY <1>1, <1>2, <1>3, <1>4, <1>5 DEF Next

Buckets == 0..Bucket(MaxStamp)
Days == 0..Day(MaxStamp)

\* Every key of a window fits its admissions.
RateInv ==
  /\ TravelInv
  /\ globalKey \in [Buckets -> Key(GlobalRequests)]
  /\ clientKey \in [Buckets -> [Client -> Key(ClientRequests)]]
  /\ dayKey \in [Days -> Key(DailyRequests)]
  /\ \A b \in Buckets : KeyFits(globalKey[b], GlobalRequests, Client, b)
  /\ \A b \in Buckets, c \in Client : KeyFits(clientKey[b][c], ClientRequests, {c}, b)

\* The keys of a request are there.
LEMMA SentInBounds ==
  ASSUME RateSettings, TravelInv, NEW r \in Call, pc[r] = "sent"
  PROVE  /\ call[r].stamp \in Nat /\ call[r].stamp <= MaxStamp
         /\ Bucket(call[r].stamp) \in Buckets /\ Day(call[r].stamp) \in Days
<1>1. /\ call[r].process \in Process /\ call[r].sent \in Nat /\ call[r].stamp \in Nat
      /\ now \in Nat /\ now <= MaxTime
      /\ call[r].stamp = call[r].sent + Skew[call[r].process] /\ call[r].sent <= now
  BY DEF TravelInv, RequestsAreFresh, Request, RateSettings
<1>2. /\ MaxTime + Skew[call[r].process] <= MaxStamp /\ MaxStamp \in Nat
      /\ Skew[call[r].process] \in Nat /\ MaxTime \in Nat
  BY <1>1, StampBound DEF RateSettings, SettingsAreSound
<1>3. call[r].stamp <= MaxStamp
  BY <1>1, <1>2
<1>4. Window \in Nat \ {0} /\ DayLength \in Nat \ {0}
  BY DEF RateSettings, SettingsAreSound
<1>5. call[r].stamp \div Window \in 0..(MaxStamp \div Window)
  BY <1>1, <1>2, <1>3, <1>4, BucketsGrow
<1>6. call[r].stamp \div DayLength \in 0..(MaxStamp \div DayLength)
  BY <1>1, <1>2, <1>3, <1>4, BucketsGrow
<1> QED
  BY <1>1, <1>3, <1>5, <1>6 DEF Buckets, Days, Bucket, Day

\* An admission is counted in both keys of its window and in no other.
LEMMA AdmittedCounts ==
  ASSUME RateSettings, RateInv, NEW r \in Call, Admitted(r)
  PROVE  /\ \A b \in Buckets : KeyFits(globalKey[b], GlobalRequests, Client, b)'
         /\ \A b \in Buckets, c \in Client : KeyFits(clientKey[b][c], ClientRequests, {c}, b)'
<1>1. PICK b \in Buckets, c \in Client : b = Bucket(call[r].stamp) /\ c = call[r].client
  BY SentInBounds DEF Admitted, RateInv, TravelInv, Request
<1>2. PICK e \in [client : Client, stamp : Nat, at : Nat] :
        /\ e = [client |-> call[r].client, stamp |-> call[r].stamp, at |-> now]
        /\ log' = Append(log, e)
  <2>1. [client |-> call[r].client, stamp |-> call[r].stamp, at |-> now]
          \in [client : Client, stamp : Nat, at : Nat]
    BY DEF RateInv, TravelInv, Request
  <2> QED
    BY <2>1 DEF Admitted
<1>3. e.client = c /\ Bucket(e.stamp) = b /\ e.at = now
  BY <1>1, <1>2
<1>4. TravelInv /\ now' = now /\ now \in Nat /\ now <= now'
  BY DEF RateInv, TravelInv, Admitted
<1>5. ASSUME NEW key, NEW limit, NEW S, NEW a, KeyFits(key, limit, S, a), ~(c \in S /\ a = b)
      PROVE  /\ key \in Key(limit)
             /\ key.n <= Cardinality(InBucket(S, a)')
             /\ \A i \in InBucket(S, a)' : log'[i].at + Window + 1 <= key.dies
             /\ Cardinality(Recent(S, a)') <= key.n
             /\ \A t \in Nat : Cardinality(Spell(S, a, t)') <= limit
  <2>1. InBucket(S, a)' = InBucket(S, a) /\ InBucket(S, a) \subseteq DOMAIN log
    BY <1>2, <1>3, <1>4, <1>5, OneMoreInBucket DEF InBucket
  <2>2. \A i \in InBucket(S, a) : log'[i] = log[i]
    BY <1>2, <1>4, <2>1, OneMoreLogged
  <2> QED
    BY <1>4, <1>5, <2>1, <2>2, KeyStays
<1>6. PICK g, k : g = globalKey[b] /\ k = Increased(g, Window + 1)
  OBVIOUS
<1>7. PICK h, l : h = clientKey[b][c] /\ l = Increased(h, Window + 1)
  OBVIOUS
<1>8. /\ Below(Value(g), GlobalRequests) /\ Below(Value(h), ClientRequests)
      /\ globalKey' = [globalKey EXCEPT ![b] = k]
      /\ clientKey' = [clientKey EXCEPT ![b][c] = l]
  BY <1>1, <1>6, <1>7 DEF Admitted
<1>9. GlobalRequests \in Nat /\ ClientRequests \in Nat
  BY DEF RateSettings, SettingsAreSound
<1>10. \A a \in Buckets : KeyFits(globalKey[a], GlobalRequests, Client, a)'
  <2>1. KeyFits(g, GlobalRequests, Client, b)
    BY <1>6 DEF RateInv
  <2>2. globalKey'[b] = k /\ \A a \in Buckets \ {b} : globalKey'[a] = globalKey[a]
    BY <1>8 DEF RateInv
  <2>3. /\ k \in Key(GlobalRequests)
        /\ k.n <= Cardinality(InBucket(Client, b)')
        /\ \A i \in InBucket(Client, b)' : log'[i].at + Window + 1 <= k.dies
        /\ Cardinality(Recent(Client, b)') <= k.n
        /\ \A t \in Nat : Cardinality(Spell(Client, b, t)') <= GlobalRequests
    <3>1. e.client \in Client /\ b = Bucket(e.stamp)
      BY <1>3
    <3>2. /\ e.at = now /\ log' = Append(log, e) /\ now' = now /\ TravelInv
          /\ GlobalRequests \in Nat /\ Below(Value(g), GlobalRequests)
          /\ k = Increased(g, Window + 1)
      BY <1>2, <1>3, <1>4, <1>6, <1>8, <1>9
    <3> QED
      BY <2>1, <3>1, <3>2, CountedOnce
  <2>4. KeyFits(globalKey[b], GlobalRequests, Client, b)'
    BY <2>2, <2>3 DEF KeyFits, Key
  <2>5. ASSUME NEW a \in Buckets \ {b} PROVE KeyFits(globalKey[a], GlobalRequests, Client, a)'
    <3>1. PICK x : x = globalKey[a] /\ x = globalKey'[a]
      BY <2>2
    <3>2. KeyFits(x, GlobalRequests, Client, a)
      BY <3>1 DEF RateInv
    <3> QED
      BY <1>5, <3>1, <3>2 DEF KeyFits, Key
  <2> QED
    BY <2>4, <2>5
<1>11. \A a \in Buckets, d \in Client : KeyFits(clientKey[a][d], ClientRequests, {d}, a)'
  <2>1. KeyFits(h, ClientRequests, {c}, b)
    BY <1>7 DEF RateInv
  <2>2. /\ clientKey'[b][c] = l
        /\ \A a \in Buckets, d \in Client :
             ~(a = b /\ d = c) => clientKey'[a][d] = clientKey[a][d]
    BY <1>8 DEF RateInv
  <2>3. /\ l \in Key(ClientRequests)
        /\ l.n <= Cardinality(InBucket({c}, b)')
        /\ \A i \in InBucket({c}, b)' : log'[i].at + Window + 1 <= l.dies
        /\ Cardinality(Recent({c}, b)') <= l.n
        /\ \A t \in Nat : Cardinality(Spell({c}, b, t)') <= ClientRequests
    <3>1. e.client \in {c} /\ b = Bucket(e.stamp)
      BY <1>3
    <3>2. /\ e.at = now /\ log' = Append(log, e) /\ now' = now /\ TravelInv
          /\ ClientRequests \in Nat /\ Below(Value(h), ClientRequests)
          /\ l = Increased(h, Window + 1)
      BY <1>2, <1>3, <1>4, <1>7, <1>8, <1>9
    <3> QED
      BY <2>1, <3>1, <3>2, CountedOnce
  <2>4. KeyFits(clientKey[b][c], ClientRequests, {c}, b)'
    BY <2>2, <2>3 DEF KeyFits, Key
  <2>5. ASSUME NEW a \in Buckets, NEW d \in Client, ~(a = b /\ d = c)
        PROVE  KeyFits(clientKey[a][d], ClientRequests, {d}, a)'
    <3>1. PICK x : x = clientKey[a][d] /\ x = clientKey'[a][d]
      BY <2>2, <2>5
    <3>2. KeyFits(x, ClientRequests, {d}, a) /\ ~(c \in {d} /\ a = b)
      BY <2>5, <3>1 DEF RateInv
    <3> QED
      BY <1>5, <3>1, <3>2 DEF KeyFits, Key
  <2> QED
    BY <2>4, <2>5
<1> QED
  BY <1>10, <1>11

\* An admission keeps the types of the keys.
LEMMA AdmittedKeys ==
  ASSUME RateSettings, RateInv, NEW r \in Call, Admitted(r)
  PROVE  /\ globalKey' \in [Buckets -> Key(GlobalRequests)]
         /\ clientKey' \in [Buckets -> [Client -> Key(ClientRequests)]]
         /\ dayKey' \in [Days -> Key(DailyRequests)]
<1>1. PICK b \in Buckets, c \in Client, d \in Days :
        b = Bucket(call[r].stamp) /\ c = call[r].client /\ d = Day(call[r].stamp)
  BY SentInBounds DEF Admitted, RateInv, TravelInv, Request
<1>2. now \in Nat /\ Window \in Nat \ {0} /\ DayLength \in Nat \ {0} /\ call[r].stamp \in Nat
  BY DEF RateInv, TravelInv, RateSettings, SettingsAreSound, Request
<1>3. \A limit \in Nat : \A key \in Key(limit), ttl \in Nat :
        Below(Value(key), limit) => Increased(key, ttl) \in Key(limit)
  BY <1>2 DEF Below, Value, Increased, Key
<1>4. (d + 1) * DayLength - call[r].stamp \in Nat
  <2>1. /\ d = call[r].stamp \div DayLength
        /\ call[r].stamp < (call[r].stamp \div DayLength) * DayLength + DayLength
    BY <1>1, <1>2, BucketBounds DEF Day
  <2>2. d \in Nat /\ (d + 1) * DayLength = d * DayLength + DayLength
        /\ d * DayLength \in Nat
    BY <1>2, <2>1, BucketBounds
  <2> QED
    BY <1>2, <2>1, <2>2
<1>5. /\ GlobalRequests \in Nat /\ ClientRequests \in Nat /\ DailyRequests \in Nat
      /\ Window + 1 \in Nat
  BY <1>2 DEF RateSettings, SettingsAreSound
<1>6. /\ globalKey[b] \in Key(GlobalRequests) /\ clientKey[b][c] \in Key(ClientRequests)
      /\ dayKey[d] \in Key(DailyRequests)
  BY DEF RateInv
<1>7. PICK x, y, z :
        /\ x = Increased(globalKey[b], Window + 1)
        /\ y = Increased(clientKey[b][c], Window + 1)
        /\ z = Increased(dayKey[d], (d + 1) * DayLength - call[r].stamp)
  OBVIOUS
<1>8. /\ globalKey' = [globalKey EXCEPT ![b] = x]
      /\ clientKey' = [clientKey EXCEPT ![b][c] = y]
      /\ dayKey' = [dayKey EXCEPT ![d] = z]
  BY <1>1, <1>7 DEF Admitted
<1>9. /\ Below(Value(globalKey[b]), GlobalRequests)
      /\ Below(Value(clientKey[b][c]), ClientRequests)
      /\ Below(Value(dayKey[d]), DailyRequests)
  BY <1>1 DEF Admitted
<1>10. x \in Key(GlobalRequests)
  BY <1>3, <1>5, <1>6, <1>7, <1>9
<1>11. y \in Key(ClientRequests)
  BY <1>3, <1>5, <1>6, <1>7, <1>9
<1>12. z \in Key(DailyRequests)
  BY <1>3, <1>4, <1>5, <1>6, <1>7, <1>9
<1> QED
  BY <1>8, <1>10, <1>11, <1>12 DEF RateInv

\* Every step keeps the counters true.
LEMMA RateStep ==
  ASSUME RateSettings, RateInv, [Next]_vars
  PROVE  RateInv'
<1>1. TravelInv'
  BY TravelStep DEF RateInv
<1>2. Buckets' = Buckets /\ Days' = Days
  BY DEF Buckets, Days, MaxStamp, Ahead
<1>3. ASSUME NEW r \in Call, Admitted(r) PROVE RateInv'
  BY <1>1, <1>2, <1>3, AdmittedCounts, AdmittedKeys DEF RateInv
<1>4. ASSUME UNCHANGED <<globalKey, clientKey, dayKey, log>>, now <= now', now' \in Nat
      PROVE  RateInv'
  <2>1. \A S, b : InBucket(S, b)' = InBucket(S, b) /\ InBucket(S, b) \subseteq DOMAIN log
    BY <1>4 DEF InBucket
  <2>2. \A b \in Buckets : KeyFits(globalKey[b], GlobalRequests, Client, b)'
    <3> TAKE b \in Buckets
    <3>1. PICK x : x = globalKey[b] /\ x = globalKey'[b]
      BY <1>4
    <3>2. KeyFits(x, GlobalRequests, Client, b)
      BY <3>1 DEF RateInv
    <3>3. TravelInv
      BY DEF RateInv
    <3> QED
      BY <1>4, <2>1, <3>1, <3>2, <3>3, KeyStays DEF KeyFits, Key
  <2>3. \A b \in Buckets, c \in Client : KeyFits(clientKey[b][c], ClientRequests, {c}, b)'
    <3> TAKE b \in Buckets, c \in Client
    <3>1. PICK x : x = clientKey[b][c] /\ x = clientKey'[b][c]
      BY <1>4
    <3>2. KeyFits(x, ClientRequests, {c}, b)
      BY <3>1 DEF RateInv
    <3>3. TravelInv
      BY DEF RateInv
    <3> QED
      BY <1>4, <2>1, <3>1, <3>2, <3>3, KeyStays DEF KeyFits, Key
  <2> QED
    BY <1>1, <1>2, <1>4, <2>2, <2>3 DEF RateInv
<1>5. \/ \E r \in Call : Admitted(r)
      \/ UNCHANGED <<globalKey, clientKey, dayKey, log>> /\ (now' = now \/ now' = now + 1)
  BY DEF Next, Send, RequestLost, Refused, Refusal, EndCall, Release, ReleaseFails, Tick, vars
<1>6. now \in Nat
  BY DEF RateInv, TravelInv
<1> QED
  BY <1>3, <1>4, <1>5, <1>6

\* The admissions of a day that came before it was over by the foremost clock.
OnTime(d) == {i \in DOMAIN log : /\ Day(log[i].stamp) = d
                                /\ log[i].at + Ahead < (d + 1) * DayLength}

\* Until then its key counts them.
DayInv ==
  \A d \in Days :
    /\ Cardinality(OnTime(d)) <= DailyRequests
    /\ now + Ahead < (d + 1) * DayLength =>
         /\ dayKey[d].n = Cardinality(OnTime(d))
         /\ dayKey[d].n > 0 => (d + 1) * DayLength <= dayKey[d].dies + Ahead

\* A day ends where the next one begins.
LEMMA DayEnds ==
  ASSUME SettingsAreSound, NEW t \in Nat, NEW d, d = Day(t)
  PROVE  d \in Nat /\ (d + 1) * DayLength \in Nat /\ t < (d + 1) * DayLength
<1>1. DayLength \in Nat \ {0}
  BY DEF SettingsAreSound
<1>2. /\ d = t \div DayLength /\ t \div DayLength \in Nat
      /\ t < (t \div DayLength) * DayLength + DayLength
  BY <1>1, BucketBounds DEF Day
<1>3. (d + 1) * DayLength = d * DayLength + DayLength /\ d * DayLength \in Nat
  BY <1>1, <1>2
<1> QED
  BY <1>1, <1>2, <1>3

\* An admission before the end of its day is counted on it; one that comes
\* later starts the key anew and is none of those.
LEMMA AdmittedOnDay ==
  ASSUME RateSettings, RateInv, DayInv, NEW r \in Call, Admitted(r)
  PROVE  DayInv'
<1>1. PICK t \in Nat, d \in Days : t = call[r].stamp /\ d = Day(t)
  BY SentInBounds DEF Admitted, RateInv
<1>2. PICK e \in [client : Client, stamp : Nat, at : Nat] :
        /\ e = [client |-> call[r].client, stamp |-> call[r].stamp, at |-> now]
        /\ log' = Append(log, e)
  <2>1. [client |-> call[r].client, stamp |-> call[r].stamp, at |-> now]
          \in [client : Client, stamp : Nat, at : Nat]
    BY DEF RateInv, TravelInv, Request
  <2> QED
    BY <2>1 DEF Admitted
<1>3. e.stamp = t /\ e.at = now /\ Day(e.stamp) = d
  BY <1>1, <1>2
<1>4. TravelInv /\ SettingsAreSound /\ pc[r] = "sent" /\ now' = now /\ now \in Nat
  BY DEF RateInv, RateSettings, Admitted, TravelInv
<1>5. d \in Nat /\ (d + 1) * DayLength \in Nat /\ t < (d + 1) * DayLength
  BY <1>1, <1>4, DayEnds
<1>6. t <= now + Ahead /\ Ahead \in Nat
  <2>1. /\ call[r].process \in Process /\ call[r].sent \in Nat /\ call[r].sent <= now
        /\ call[r].stamp = call[r].sent + Skew[call[r].process]
    BY <1>4 DEF TravelInv, RequestsAreFresh, Request
  <2>2. /\ Skew[call[r].process] \in Nat /\ Skew[call[r].process] <= Ahead /\ Ahead \in Nat
    BY <2>1, AheadIsMost
  <2> QED
    BY <1>1, <1>4, <2>1, <2>2
<1>7. PICK key, k : key = dayKey[d] /\ k = Increased(key, (d + 1) * DayLength - t)
  OBVIOUS
<1>8. Below(Value(key), DailyRequests) /\ dayKey' = [dayKey EXCEPT ![d] = k]
  BY <1>1, <1>7 DEF Admitted
<1>9. /\ dayKey'[d] = k
      /\ \A a \in Days \ {d} : dayKey'[a] = dayKey[a]
      /\ key.n \in Nat /\ key.dies \in Nat /\ DailyRequests \in Nat
  BY <1>7, <1>8 DEF RateInv, Key, RateSettings, SettingsAreSound
<1>10. /\ DOMAIN log' = DOMAIN log \cup {Len(log) + 1} /\ Len(log) + 1 \notin DOMAIN log
       /\ \A i \in DOMAIN log : log'[i] = log[i]
       /\ log'[Len(log) + 1] = e
  BY <1>2, <1>4, OneMoreLogged
<1>11. \A a : a # d => OnTime(a)' = OnTime(a)
  BY <1>3, <1>10 DEF OnTime, Ahead
<1>12. Days' = Days /\ Ahead' = Ahead
  BY DEF Days, MaxStamp, Ahead
<1>13. ASSUME NEW a \in Days, a # d
       PROVE  /\ Cardinality(OnTime(a)') <= DailyRequests
              /\ now' + Ahead < (a + 1) * DayLength =>
                   /\ dayKey'[a].n = Cardinality(OnTime(a)')
                   /\ dayKey'[a].n > 0 => (a + 1) * DayLength <= dayKey'[a].dies + Ahead
  BY <1>4, <1>9, <1>11, <1>13 DEF DayInv
<1>14. CASE now + Ahead < (d + 1) * DayLength
  <2>1. /\ key.n = Cardinality(OnTime(d))
        /\ key.n > 0 => (d + 1) * DayLength <= key.dies + Ahead
    BY <1>7, <1>14 DEF DayInv
  <2>2. Value(key) = key.n
    BY <1>4, <1>5, <1>6, <1>9, <1>14, <2>1 DEF Value
  <2>3. k = [n |-> key.n + 1, dies |-> now + ((d + 1) * DayLength - t)]
    BY <1>7, <2>2 DEF Increased
  <2>4. PICK end \in Nat : end = (d + 1) * DayLength
    BY <1>5
  <2>5. (d + 1) * DayLength <= k.dies + Ahead
    <3>1. k.dies = now + (end - t)
      BY <2>3, <2>4
    <3> QED
      BY <1>4, <1>6, <2>4, <3>1
  <2>6. OnTime(d)' = OnTime(d) \cup {Len(log) + 1} /\ Len(log) + 1 \notin OnTime(d)
    BY <1>3, <1>10, <1>12, <1>14 DEF OnTime
  <2>7. Cardinality(OnTime(d)') = Cardinality(OnTime(d)) + 1
    <3>1. OnTime(d) \subseteq DOMAIN log
      BY DEF OnTime
    <3> QED
      BY <1>4, <2>6, <3>1, PartsAreFinite, FS_AddElement
  <2>8. k.n = Cardinality(OnTime(d)') /\ k.n <= DailyRequests
    BY <1>8, <1>9, <2>1, <2>2, <2>3, <2>7 DEF Below
  <2> QED
    BY <1>9, <1>12, <1>13, <2>5, <2>8 DEF DayInv
<1>15. CASE ~(now + Ahead < (d + 1) * DayLength)
  <2>1. OnTime(d)' = OnTime(d)
    BY <1>3, <1>10, <1>12, <1>15 DEF OnTime
  <2>2. Cardinality(OnTime(d)') <= DailyRequests
    BY <2>1 DEF DayInv
  <2> QED
    BY <1>4, <1>12, <1>13, <1>15, <2>2 DEF DayInv
<1> QED
  BY <1>14, <1>15

\* Every step keeps the days within their budget.
LEMMA DayStep ==
  ASSUME RateSettings, RateInv, DayInv, [Next]_vars
  PROVE  DayInv'
<1>1. ASSUME NEW r \in Call, Admitted(r) PROVE DayInv'
  BY <1>1, AdmittedOnDay
<1>2. ASSUME UNCHANGED <<dayKey, log>>, now <= now', now' \in Nat PROVE DayInv'
  <2>1. \A d : OnTime(d)' = OnTime(d)
    BY <1>2 DEF OnTime, Ahead
  <2>2. now \in Nat /\ Days' = Days /\ Ahead' = Ahead /\ Ahead \in Nat
    BY AheadIsMost DEF RateInv, TravelInv, Days, MaxStamp, Ahead
  <2>3. \A d \in Days : (d + 1) * DayLength \in Nat
    <3>1. DayLength \in Nat
      BY DEF RateSettings, SettingsAreSound
    <3>2. \A d \in Days : d \in Nat
      BY DEF Days
    <3> QED
      BY <3>1, <3>2
  <2>4. \A d \in Days : now' + Ahead < (d + 1) * DayLength => now + Ahead < (d + 1) * DayLength
    BY <1>2, <2>2, <2>3
  <2> QED
    BY <1>2, <2>1, <2>2, <2>4 DEF DayInv
<1>3. \/ \E r \in Call : Admitted(r)
      \/ UNCHANGED <<dayKey, log>> /\ (now' = now \/ now' = now + 1)
  BY DEF Next, Send, RequestLost, Refused, Refusal, EndCall, Release, ReleaseFails, Tick, vars
<1>4. now \in Nat
  BY DEF RateInv, TravelInv
<1> QED
  BY <1>1, <1>2, <1>3, <1>4

\* At first nothing is counted.
LEMMA InitRate ==
  ASSUME RateSettings, Init
  PROVE  RateInv /\ DayInv
<1>1. log = <<>> /\ DOMAIN log = {}
  BY DEF Init
<1>2. \A S, b : InBucket(S, b) = {}
  BY <1>1 DEF InBucket
<1>3. \A d : OnTime(d) = {}
  BY <1>1 DEF OnTime
<1>4. Cardinality({}) = 0
  BY FS_EmptySet
<1>5. TravelInv
  <2>1. now \in 0..MaxTime
    BY DEF Init, RateSettings
  <2>2. call \in [Call -> Request] /\ RequestsAreFresh
    BY DEF Init, Request, RequestsAreFresh
  <2>3. log \in Seq([client : Client, stamp : Nat, at : Nat])
    BY <1>1, EmptySeq
  <2> QED
    BY <1>1, <2>1, <2>2, <2>3 DEF Init, TravelInv
<1>6. /\ GlobalRequests \in Nat /\ ClientRequests \in Nat /\ DailyRequests \in Nat
  BY DEF RateSettings, SettingsAreSound
<1>7. \A limit \in Nat : NoKey \in Key(limit)
  BY DEF NoKey, Key
<1>8. \A limit \in Nat : \A S, b : KeyFits(NoKey, limit, S, b)
  <2>1. \A S, b : Recent(S, b) = {} /\ \A t : Spell(S, b, t) = {}
    BY <1>2 DEF Recent, Spell
  <2> TAKE limit \in Nat
  <2> TAKE S, b
  <2>2. NoKey \in Key(limit) /\ NoKey.n = 0
    BY <1>7 DEF NoKey
  <2>3. /\ Cardinality(InBucket(S, b)) = 0 /\ Cardinality(Recent(S, b)) = 0
        /\ \A t \in Nat : Cardinality(Spell(S, b, t)) = 0
    BY <1>2, <1>4, <2>1
  <2> QED
    BY <1>2, <2>2, <2>3 DEF KeyFits
<1>9. /\ globalKey = [b \in Buckets |-> NoKey]
      /\ clientKey = [b \in Buckets |-> [c \in Client |-> NoKey]]
      /\ dayKey = [d \in Days |-> NoKey]
  BY DEF Init, Buckets, Days
<1>10. RateInv
  BY <1>5, <1>6, <1>7, <1>8, <1>9 DEF RateInv
<1>11. DayInv
  <2>1. \A d \in Days : dayKey[d].n = 0
    BY <1>9 DEF NoKey
  <2>2. \A d : Cardinality(OnTime(d)) = 0
    BY <1>3, <1>4
  <2> QED
    BY <1>6, <2>1, <2>2 DEF DayInv
<1> QED
  BY <1>10, <1>11

\* Sets that make up n others of at most limit elements each: x comes at place
\* rank[b][x] of the limit places of the set f[x] = b.
LEMMA FewInFew ==
  ASSUME NEW T, IsFiniteSet(T), NEW n \in Nat, NEW limit \in Nat \ {0}, NEW f \in [T -> 0..n],
         \A b \in 0..n : Cardinality({x \in T : f[x] = b}) <= limit
  PROVE  Cardinality(T) <= (n + 1) * limit
<1> DEFINE Part(b) == {x \in T : f[x] = b}
           Ranks(b) == Injection(Part(b), 0..(limit - 1))
           rank == [b \in 0..n |-> CHOOSE g \in Ranks(b) : TRUE]
           place == [x \in T |-> f[x] * limit + rank[f[x]][x]]
<1>1. ASSUME NEW b \in 0..n PROVE \E g : g \in Ranks(b)
  <2>1. IsFiniteSet(Part(b)) /\ Cardinality(Part(b)) \in Nat /\ Cardinality(Part(b)) <= limit
    BY <1>1, FS_Subset, FS_CardinalityType
  <2>2. PICK g : g \in Bijection(Part(b), 1..Cardinality(Part(b)))
    <3>1. ExistsBijection(1..Cardinality(Part(b)), Part(b))
      BY <2>1, FS_CardinalityType
    <3>2. ExistsBijection(Part(b), 1..Cardinality(Part(b)))
      BY <3>1, Fun_ExistsBijSymmetric
    <3> QED
      BY <3>2 DEF ExistsBijection
  <2>3. g \in [Part(b) -> 1..Cardinality(Part(b))] /\ \A x, y \in Part(b) : g[x] = g[y] => x = y
    BY <2>2 DEF Bijection, Injection, IsInjective
  <2> HIDE DEF Part
  <2> DEFINE h == [x \in Part(b) |-> g[x] - 1]
  <2>4. h \in [Part(b) -> 0..(limit - 1)]
    BY <2>1, <2>3
  <2>5. \A x, y \in Part(b) : h[x] = h[y] => x = y
    BY <2>1, <2>3
  <2>6. h \in Injection(Part(b), 0..(limit - 1))
    BY <2>4, <2>5 DEF Injection, IsInjective
  <2> QED
    BY <2>6
<1>2. \A b \in 0..n : rank[b] \in Ranks(b)
  BY <1>1
<1>3. ASSUME NEW x \in T
      PROVE  /\ f[x] \in 0..n /\ rank[f[x]][x] \in 0..(limit - 1)
             /\ place[x] = f[x] * limit + rank[f[x]][x]
             /\ place[x] \in 0..((n + 1) * limit - 1) /\ place[x] \div limit = f[x]
  <2>1. f[x] \in 0..n /\ x \in Part(f[x])
    OBVIOUS
  <2>2. rank[f[x]] \in [Part(f[x]) -> 0..(limit - 1)]
    BY <1>2, <2>1 DEF Injection
  <2>3. rank[f[x]][x] \in 0..(limit - 1) /\ place[x] = f[x] * limit + rank[f[x]][x]
    BY <2>1, <2>2
  <2> HIDE DEF Part, Ranks, rank, place
  <2>4. PICK b \in 0..n, k \in 0..(limit - 1), p \in {place[x]} : b = f[x] /\ k = rank[f[x]][x]
    BY <2>1, <2>3
  <2>5. b * limit \in Nat /\ p = b * limit + k /\ p \in Nat
        /\ b * limit <= p /\ p < b * limit + limit
    BY <2>3, <2>4
  <2>6. p \div limit = b
    BY <2>4, <2>5, BucketIsUnique
  <2>7. p <= (n + 1) * limit - 1 /\ (n + 1) * limit - 1 \in Int
    <3>1. PICK m \in Nat : n = b + m
      <4>1. n - b \in Nat /\ n = b + (n - b)
        OBVIOUS
      <4> QED
        BY <4>1
    <3>2. (n + 1) * limit = b * limit + m * limit + limit /\ m * limit \in Nat
      BY <3>1
    <3> QED
      BY <2>4, <2>5, <3>2
  <2> QED
    BY <2>3, <2>4, <2>5, <2>6, <2>7
<1>4. place \in Injection(T, 0..((n + 1) * limit - 1))
  <2>1. place \in [T -> 0..((n + 1) * limit - 1)]
    BY <1>3
  <2>2. ASSUME NEW x \in T, NEW y \in T, place[x] = place[y] PROVE x = y
    <3>1. PICK b \in 0..n : b = f[x] /\ b = f[y] /\ x \in Part(b) /\ y \in Part(b)
      BY <1>3, <2>2
    <3>2. rank[b][x] = rank[b][y]
      <4> HIDE DEF place, rank
      <4>1. PICK j \in 0..(limit - 1), k \in 0..(limit - 1) :
              /\ j = rank[b][x] /\ place[x] = b * limit + j
              /\ k = rank[b][y] /\ place[y] = b * limit + k
        BY <1>3, <3>1
      <4>2. b * limit + j = b * limit + k
        BY <2>2, <4>1
      <4>3. b \in Nat
        OBVIOUS
      <4>4. b * limit \in Nat
        BY <4>3
      <4> QED
        BY <4>1, <4>2, <4>4
    <3>3. rank[b] \in Injection(Part(b), 0..(limit - 1))
      BY <1>2
    <3> HIDE DEF rank, Part
    <3> QED
      BY <3>1, <3>2, <3>3 DEF Injection, IsInjective
  <2> HIDE DEF place
  <2> QED
    BY <2>1, <2>2 DEF Injection, IsInjective
<1> HIDE DEF place
<1>5. /\ (n + 1) * limit \in Nat /\ (n + 1) * limit - 1 \in Int
      /\ (n + 1) * limit >= 1
  <2>1. (n + 1) * limit = n * limit + limit /\ n * limit \in Nat
    OBVIOUS
  <2> QED
    BY <2>1
<1>6. IsFiniteSet(0..((n + 1) * limit - 1)) /\ Cardinality(0..((n + 1) * limit - 1)) = (n + 1) * limit
  BY <1>5, FS_Interval
<1> QED
  BY <1>4, <1>6, FS_Injection

\* Stamps that lie within m of each other lie in at most m \div w + 1 further
\* buckets.
LEMMA BucketsBetween ==
  ASSUME NEW w \in Nat \ {0}, NEW from \in Nat, NEW m \in Nat, NEW s \in Nat,
         from <= s, s <= from + m
  PROVE  s \div w - from \div w \in 0..((m + w - 1) \div w)
<1> DEFINE a == from \div w
           b == s \div w
<1>1. /\ a \in Nat /\ b \in Nat /\ a * w <= from /\ from < a * w + w
      /\ b * w <= s
  BY BucketBounds
<1>2. a \in 0..b
  BY BucketsGrow
<1> HIDE DEF a, b
<1>3. PICK k \in Nat : b = a + k
  <2>1. b - a \in Nat /\ b = a + (b - a)
    BY <1>1, <1>2
  <2> QED
    BY <2>1
<1>4. b * w = a * w + k * w /\ k * w \in Nat /\ a * w \in Nat
  BY <1>1, <1>3
<1>5. k * w <= m + w - 1 /\ m + w - 1 \in Nat
  BY <1>1, <1>4
<1>6. (k * w) \div w \in 0..((m + w - 1) \div w)
  BY <1>4, <1>5, BucketsGrow
<1>7. (k * w) \div w = k
  BY <1>4, BucketIsUnique
<1> QED
  BY <1>1, <1>3, <1>6, <1>7 DEF a, b

\* No bucket has more than its limit of anyone's admissions in a spell.
LEMMA SpellsAreLimited ==
  ASSUME RateSettings, RateInv, NEW b, NEW t \in Nat
  PROVE  /\ Cardinality(Spell(Client, b, t)) <= GlobalRequests
         /\ \A c \in Client : Cardinality(Spell({c}, b, t)) <= ClientRequests
<1>1. GlobalRequests \in Nat /\ ClientRequests \in Nat /\ Window \in Nat \ {0}
  BY DEF RateSettings, SettingsAreSound
<1>2. CASE b \in Buckets
  BY <1>2 DEF RateInv, KeyFits
<1>3. CASE b \notin Buckets
  <2>1. ASSUME NEW i \in DOMAIN log PROVE Bucket(log[i].stamp) \in Buckets
    <3>1. log[i].stamp \in Nat /\ log[i].stamp <= MaxStamp /\ MaxStamp \in Nat
      <4>1. log[i].stamp \in Nat /\ log[i].at \in Nat
        BY LogEntries DEF RateInv
      <4>2. /\ log[i].at <= now /\ log[i].stamp <= log[i].at + Ahead /\ now \in 0..MaxTime
        BY DEF RateInv, TravelInv
      <4> QED
        BY <4>1, <4>2, AheadIsMost DEF RateSettings, MaxStamp
    <3>2. PICK s \in Nat, m \in Nat : s = log[i].stamp /\ m = MaxStamp
      BY <3>1
    <3>3. s \div Window \in 0..(m \div Window)
      BY <1>1, <3>1, <3>2, BucketsGrow
    <3> QED
      BY <3>2, <3>3 DEF Bucket, Buckets
  <2>2. \A S : Spell(S, b, t) = {}
    BY <1>3, <2>1 DEF InBucket, Spell
  <2> QED
    BY <1>1, <2>2, FS_EmptySet
<1> QED
  BY <1>2, <1>3

\* In a window of the server's time meet few buckets.
LEMMA WindowsMeetFewBuckets ==
  ASSUME RateSettings, RateInv, NEW t \in Nat, NEW S, NEW limit \in Nat \ {0},
         \A b \in Nat : Cardinality(Spell(S, b, t)) <= limit
  PROVE  Cardinality(AdmittedFrom(S, t)) <= BucketsMet * limit
<1>1. /\ Window \in Nat \ {0} /\ MaxDelay \in Nat /\ Ahead \in Nat /\ TravelInv
  BY AheadIsMost DEF RateSettings, SettingsAreSound, RateInv
<1> DEFINE from == IF t < MaxDelay THEN 0 ELSE t - MaxDelay
           m == Window + MaxDelay + Ahead - 1
           first == Bucket(from)
           f == [i \in AdmittedFrom(S, t) |-> Bucket(log[i].stamp) - first]
           n == (m + Window - 1) \div Window
<1>2. from \in Nat /\ m \in Nat /\ n \in Nat /\ first \in Nat
  <2>1. from \in Nat /\ m \in Nat /\ m + Window - 1 \in Nat
    BY <1>1
  <2> HIDE DEF from, m
  <2> QED
    BY <1>1, <2>1, BucketBounds DEF Bucket
<1>3. ASSUME NEW i \in AdmittedFrom(S, t)
      PROVE  /\ Bucket(log[i].stamp) \in Nat /\ Bucket(log[i].stamp) - first \in 0..n
             /\ i \in Spell(S, Bucket(log[i].stamp), t)
  <2>1. /\ i \in DOMAIN log /\ log[i].client \in S /\ log[i].at \in t..(t + Window - 1)
    BY DEF AdmittedFrom
  <2>2. log[i].at \in Nat /\ log[i].stamp \in Nat
    BY <1>1, <2>1, LogEntries
  <2>3. PICK s \in Nat, a \in Nat : s = log[i].stamp /\ a = log[i].at
    BY <2>2
  <2>4. s <= a + Ahead /\ a <= s + MaxDelay /\ t <= a /\ a <= t + Window - 1
    BY <1>1, <2>1, <2>3 DEF TravelInv
  <2>5. from <= s /\ s <= from + m
    BY <1>1, <2>4
  <2> HIDE DEF from, m
  <2>6. s \div Window - from \div Window \in 0..n
    BY <1>1, <1>2, <2>5, BucketsBetween
  <2>7. s \div Window \in Nat
    BY <1>1, BucketBounds
  <2>8. a \in t..(t + Window)
    BY <1>1, <2>4
  <2> QED
    BY <2>1, <2>3, <2>6, <2>7, <2>8 DEF Bucket, Spell, InBucket
<1>4. AdmittedFrom(S, t) \subseteq DOMAIN log
  BY DEF AdmittedFrom
<1>5. IsFiniteSet(AdmittedFrom(S, t))
  BY <1>1, <1>4, PartsAreFinite
<1>6. \A b \in 0..n : Cardinality({i \in AdmittedFrom(S, t) : f[i] = b}) <= limit
  <2> TAKE b \in 0..n
  <2>1. first + b \in Nat
    BY <1>2
  <2>2. {i \in AdmittedFrom(S, t) : f[i] = b} \subseteq Spell(S, first + b, t)
    <3>1. SUFFICES ASSUME NEW i \in AdmittedFrom(S, t), f[i] = b
                   PROVE  i \in Spell(S, first + b, t)
      OBVIOUS
    <3>2. f[i] = Bucket(log[i].stamp) - first /\ Bucket(log[i].stamp) \in Nat
      BY <1>3
    <3> HIDE DEF f, first, n
    <3>3. Bucket(log[i].stamp) = first + b
      BY <1>2, <3>1, <3>2
    <3> QED
      BY <1>3, <3>3
  <2>3. IsFiniteSet(Spell(S, first + b, t))
    <3>1. Spell(S, first + b, t) \subseteq DOMAIN log
      BY DEF Spell, InBucket
    <3> QED
      BY <1>1, <3>1, PartsAreFinite
  <2> HIDE DEF first, f, n
  <2>4. Cardinality(Spell(S, first + b, t)) <= limit
    BY <2>1
  <2> QED
    BY <2>2, <2>3, <2>4, PartsAreSmaller
<1>7. f \in [AdmittedFrom(S, t) -> 0..n]
  BY <1>3
<1>8. BucketsMet = n + 1
  BY <1>1 DEF BucketsMet
<1> HIDE DEF f, n
<1> QED
  BY <1>2, <1>5, <1>6, <1>7, <1>8, FewInFew

\* What the invariant says of the rates.
LEMMA RatesFollow ==
  ASSUME RateSettings, RateInv
  PROVE  TypeOK /\ KeysAgree /\ RateIsBounded
<1>1. TypeOK
  BY DEF TypeOK, RateInv, TravelInv, Buckets, Days
<1>2. /\ Window \in Nat \ {0} /\ GlobalRequests \in Nat \ {0} /\ ClientRequests \in Nat \ {0}
      /\ MaxTime \in Nat
  BY DEF RateSettings, SettingsAreSound
<1>3. KeysAgree
  <2> SUFFICES ASSUME NEW b \in Buckets
               PROVE  /\ Cardinality(Recent(Client, b)) <= Value(globalKey[b])
                      /\ Value(globalKey[b]) <= Cardinality(InBucket(Client, b))
    BY DEF KeysAgree, RateInv, Recent
  <2>1. PICK key \in Key(GlobalRequests) : key = globalKey[b]
    BY DEF RateInv
  <2>2. KeyFits(key, GlobalRequests, Client, b) /\ TravelInv
    BY <2>1 DEF RateInv
  <2>3. /\ key.n \in Nat /\ key.dies \in Nat /\ now \in Nat
        /\ Cardinality(InBucket(Client, b)) \in Nat
        /\ \A i \in InBucket(Client, b) : log[i].at \in Nat
    BY <2>2, BucketTimes DEF Key
  <2>4. CASE now < key.dies
    BY <2>1, <2>2, <2>4 DEF Value, KeyFits
  <2>5. CASE ~(now < key.dies)
    <3>1. Recent(Client, b) = {}
      BY <1>2, <2>2, <2>3, <2>5 DEF Recent, KeyFits
    <3> QED
      BY <2>1, <2>3, <2>5, <3>1, FS_EmptySet DEF Value
  <2> QED
    BY <2>4, <2>5
<1>4. RateIsBounded
  <2> SUFFICES ASSUME NEW t \in 0..MaxTime
               PROVE  /\ Cardinality(AdmittedFrom(Client, t)) <= BucketsMet * GlobalRequests
                      /\ \A c \in Client :
                           Cardinality(AdmittedFrom({c}, t)) <= BucketsMet * ClientRequests
    BY DEF RateIsBounded
  <2>1. t \in Nat
    BY <1>2
  <2>2. /\ \A b \in Nat : Cardinality(Spell(Client, b, t)) <= GlobalRequests
        /\ \A c \in Client : \A b \in Nat : Cardinality(Spell({c}, b, t)) <= ClientRequests
    BY <2>1, SpellsAreLimited
  <2>3. Cardinality(AdmittedFrom(Client, t)) <= BucketsMet * GlobalRequests
    BY <1>2, <2>1, <2>2, WindowsMeetFewBuckets
  <2>4. ASSUME NEW c \in Client
        PROVE  Cardinality(AdmittedFrom({c}, t)) <= BucketsMet * ClientRequests
    BY <1>2, <2>1, <2>2, WindowsMeetFewBuckets
  <2> QED
    BY <2>3, <2>4
<1> QED
  BY <1>1, <1>3, <1>4

\* What the invariant says of the days.
LEMMA DaysFollow ==
  ASSUME RateSettings, RateInv, DayInv
  PROVE  DailyBudget
BY DEF DailyBudget, DayInv, Days, OnTime

\* However late requests are and however clocks differ: no counter forgets or
\* invents a request while it counts, and a window of the server's time that
\* begins anywhere has at most the limit for each bucket that can meet in it.
THEOREM RatesHold ==
  ASSUME RateSettings
  PROVE  Spec => [](TypeOK /\ KeysAgree /\ RateIsBounded)
<1>1. Init => RateInv
  BY InitRate
<1>2. RateInv /\ [Next]_vars => RateInv'
  BY RateStep
<1>3. RateInv => TypeOK /\ KeysAgree /\ RateIsBounded
  BY RatesFollow
<1> QED
  BY <1>1, <1>2, <1>3, PTL DEF Spec

\* No day gets more than its budget before it is over by the foremost clock.
THEOREM DaysHold ==
  ASSUME RateSettings
  PROVE  Spec => []DailyBudget
<1>1. Init => RateInv /\ DayInv
  BY InitRate
<1>2. RateInv /\ DayInv /\ [Next]_vars => RateInv' /\ DayInv'
  BY RateStep, DayStep
<1>3. RateInv /\ DayInv => DailyBudget
  BY DaysFollow
<1> QED
  BY <1>1, <1>2, <1>3, PTL DEF Spec
=============================================================================
