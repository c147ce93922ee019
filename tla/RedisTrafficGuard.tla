------------------------- MODULE RedisTrafficGuard -------------------------
(***************************************************************************)
(* The guard that several processes share through Redis:                   *)
(* RedisModelAPITrafficGuard of traffic_guard.py with its two scripts, as  *)
(* guarded_llm_client of main.py and the worker's _execute use it.         *)
(*                                                                         *)
(* Redis runs a script as one step.  What the caller computes before, the  *)
(* buckets and the expiry of its lease, comes from the caller's wall       *)
(* clock; expiry of keys from the server's.  Between the two a request     *)
(* travels up to MaxDelay (socket_timeout); an answer may get lost, and so *)
(* may a release.  A call ends within MaxCall, the deadline of the model   *)
(* client.                                                                 *)
(***************************************************************************)
EXTENDS Naturals, Sequences, FiniteSets

CONSTANTS
  Process, Client, Call,
  Skew,            \* how far each process's clock is ahead of the server's
  MaxConcurrency, GlobalRequests, ClientRequests, DailyRequests, Window,
  DayLength,       \* DAILY_WINDOW_SECONDS
  LeaseTTL,        \* lease_ttl
  MaxCall, MaxDelay,
  MaxTime, MaxAdmitted   \* bounds of the clock and of the log

\* What the settings of the guard are checked to be.
SettingsAreSound ==
  /\ MaxConcurrency \in Nat \ {0} /\ GlobalRequests \in Nat \ {0}
  /\ ClientRequests \in Nat \ {0} /\ DailyRequests \in Nat \ {0}
  /\ Window \in Nat \ {0} /\ DayLength \in Nat \ {0} /\ LeaseTTL \in Nat \ {0}
  /\ MaxCall \in Nat /\ MaxDelay \in Nat
  /\ Skew \in [Process -> Nat]

VARIABLES
  now,          \* the server's clock
  globalKey,    \* the counter of each window bucket: its value, when it expires
  clientKey,    \* the counters of each window bucket and client
  dayKey,       \* the counter of each day
  leases,       \* the sorted set of leases
  pc, call,     \* each thread: where it is, and what its request carries
  log           \* the admissions so far

vars == <<now, globalKey, clientKey, dayKey, leases, pc, call, log>>

\* How far the foremost clock is ahead.  The server's own only counts down the
\* keys: it may be taken to be the last of all.
Ahead == CHOOSE m \in {Skew[p] : p \in Process} : \A p \in Process : Skew[p] <= m

MaxStamp == MaxTime + Ahead

Bucket(t) == t \div Window
Day(t) == t \div DayLength

NoKey == [n |-> 0, dies |-> 0]

Request == [process : Process, client : Client, sent : Nat, stamp : Nat,
            lease : Nat, began : Nat]

Init ==
  /\ now = 0
  /\ globalKey = [b \in 0..Bucket(MaxStamp) |-> NoKey]
  /\ clientKey = [b \in 0..Bucket(MaxStamp) |-> [c \in Client |-> NoKey]]
  /\ dayKey = [d \in 0..Day(MaxStamp) |-> NoKey]
  /\ leases = {}
  /\ pc = [r \in Call |-> "idle"]
  /\ call \in [Call -> [process : Process, client : Client, sent : {0}, stamp : {0},
                        lease : {0}, began : {0}]]
  /\ log = <<>>

GoTo(r, where) == pc' = [pc EXCEPT ![r] = where]

-----------------------------------------------------------------------------
(***************************************************************************)
(* The acquire script                                                      *)
(***************************************************************************)

\* GET, nil for a key that has expired.
Value(key) == IF now < key.dies THEN key.n ELSE 0

Increased(key, ttl) == [n |-> Value(key) + 1, dies |-> now + ttl]

\* Fault: leases are judged as if the caller's clock were one unit later.
Early(stamp) == {l \in leases : l.expires > stamp + 1}

\* ZREMRANGEBYSCORE with the caller's time.
Alive(stamp) == {l \in leases : l.expires > stamp}

\* acquire computes its arguments, then calls Redis.
Send(r) ==
  /\ pc[r] = "idle"
  /\ \E p \in Process, c \in Client :
        call' = [call EXCEPT ![r] =
          [process |-> p, client |-> c, sent |-> now, stamp |-> now + Skew[p],
           lease |-> 0, began |-> 0]]
  /\ GoTo(r, "sent")
  /\ UNCHANGED <<now, globalKey, clientKey, dayKey, leases, log>>

\* The caller gives up (socket_timeout), the request never got there.
RequestLost(r) ==
  /\ pc[r] = "sent"
  /\ GoTo(r, "idle")
  /\ UNCHANGED <<now, globalKey, clientKey, dayKey, leases, call, log>>

\* A refusal returns before anything is counted.
Refusal(b, c) == UNCHANGED globalKey

\* Fault: the counter may reach one more than the limit.
BelowOrAt(n, limit) == n <= limit

Below(n, limit) == n < limit

\* The script finds room everywhere, counts the request in every key and adds
\* its lease; Redis answers or the answer gets lost.
Admitted(r) ==
  LET t == call[r].stamp
      b == Bucket(t)
      c == call[r].client
      id == Len(log) + 1
  IN
  /\ pc[r] = "sent"
  /\ Len(log) < MaxAdmitted
  /\ Below(Cardinality(Alive(t)), MaxConcurrency)
  /\ Below(Value(dayKey[Day(t)]), DailyRequests)
  /\ Below(Value(globalKey[b]), GlobalRequests)
  /\ Below(Value(clientKey[b][c]), ClientRequests)
  /\ globalKey' = [globalKey EXCEPT ![b] = Increased(@, Window + 1)]
  /\ clientKey' = [clientKey EXCEPT ![b][c] = Increased(@, Window + 1)]
  /\ dayKey' = [dayKey EXCEPT ![Day(t)] = Increased(@, (Day(t) + 1) * DayLength - t)]
  /\ leases' = Alive(t) \cup {[id |-> id, expires |-> t + LeaseTTL]}
  /\ log' = Append(log, [client |-> c, stamp |-> t, at |-> now])
  /\ \/ /\ GoTo(r, "running")
        /\ call' = [call EXCEPT ![r].lease = id, ![r].began = now]
     \/ /\ GoTo(r, "idle")
        /\ UNCHANGED call
  /\ UNCHANGED now

\* One of the limits is reached: codes 3, 4, 1 and 2.
Refused(r) ==
  LET t == call[r].stamp
      b == Bucket(t)
      c == call[r].client
  IN
  /\ pc[r] = "sent"
  /\ \/ ~Below(Cardinality(Alive(t)), MaxConcurrency)
     \/ ~Below(Value(dayKey[Day(t)]), DailyRequests)
     \/ ~Below(Value(globalKey[b]), GlobalRequests)
     \/ ~Below(Value(clientKey[b][c]), ClientRequests)
  /\ leases' = Alive(t)
  /\ Refusal(b, c)
  /\ GoTo(r, "idle")
  /\ UNCHANGED <<now, clientKey, dayKey, call, log>>

-----------------------------------------------------------------------------
(***************************************************************************)
(* The call and its release                                                *)
(***************************************************************************)

\* The model call ends.
EndCall(r) ==
  /\ pc[r] = "running"
  /\ GoTo(r, "releasing")
  /\ UNCHANGED <<now, globalKey, clientKey, dayKey, leases, call, log>>

\* ZREM of the release script; whether it removes anything is not looked at.
Release(r) ==
  /\ pc[r] = "releasing"
  /\ leases' = {l \in leases : l.id # call[r].lease}
  /\ GoTo(r, "idle")
  /\ UNCHANGED <<now, globalKey, clientKey, dayKey, call, log>>

\* The release raises, or the process dies before it: the lease stays until
\* it expires.
ReleaseFails(r) ==
  /\ pc[r] \in {"running", "releasing"}
  /\ GoTo(r, "idle")
  /\ UNCHANGED <<now, globalKey, clientKey, dayKey, leases, call, log>>

\* Time passes, but no request travels and no call lasts longer than it may.
Tick ==
  /\ now < MaxTime
  /\ \A r \in Call : /\ pc[r] = "sent" => now < call[r].sent + MaxDelay
                     /\ pc[r] = "running" => now < call[r].began + MaxCall
  /\ now' = now + 1
  /\ UNCHANGED <<globalKey, clientKey, dayKey, leases, pc, call, log>>

Next ==
  \/ \E r \in Call : \/ Send(r) \/ RequestLost(r) \/ Admitted(r) \/ Refused(r)
                     \/ EndCall(r) \/ Release(r) \/ ReleaseFails(r)
  \/ Tick

Spec == Init /\ [][Next]_vars

-----------------------------------------------------------------------------
(***************************************************************************)
(* Properties                                                              *)
(***************************************************************************)

Key(limit) == [n : 0..limit, dies : Nat]

\* Every variable holds what its key, lease or request may hold; no counter
\* passes its limit.
TypeOK ==
  /\ now \in Nat
  /\ globalKey \in [0..Bucket(MaxStamp) -> Key(GlobalRequests)]
  /\ clientKey \in [0..Bucket(MaxStamp) -> [Client -> Key(ClientRequests)]]
  /\ dayKey \in [0..Day(MaxStamp) -> Key(DailyRequests)]
  /\ leases \in SUBSET [id : 1..Len(log), expires : Nat]
  /\ pc \in [Call -> {"idle", "sent", "running", "releasing"}]
  /\ call \in [Call -> Request]
  /\ log \in Seq([client : Client, stamp : Nat, at : Nat])

Running == {r \in Call : pc[r] = "running"}

\* No more model calls run than the limit, over all processes, lost answers
\* and failed releases included: a lease outlives its call, even as judged by
\* a process whose clock is ahead.
ConcurrencyIsShared == Cardinality(Running) <= MaxConcurrency

\* The admissions of the clients S stamped in bucket b.
InBucket(S, b) == {i \in DOMAIN log : log[i].client \in S /\ Bucket(log[i].stamp) = b}

\* Their admissions in the Window units of the server's time from t on.
AdmittedFrom(S, t) ==
  {i \in DOMAIN log : log[i].client \in S /\ log[i].at \in t..(t + Window - 1)}

\* So many buckets may meet in a window of the server's time: two when requests
\* are prompt and clocks agree, more with every Window of delay and difference.
BucketsMet == (2 * Window + MaxDelay + Ahead - 2) \div Window + 1

\* In a window that begins anywhere no more is admitted than the limit for
\* each bucket that can meet in it, in all and of each client: the key of a
\* bucket is renewed with every request and outlives the window after the last.
RateIsBounded ==
  \A t \in 0..MaxTime :
    /\ Cardinality(AdmittedFrom(Client, t)) <= BucketsMet * GlobalRequests
    /\ \A c \in Client : Cardinality(AdmittedFrom({c}, t)) <= BucketsMet * ClientRequests

\* A day has no more than its budget until the server reaches its end by the
\* foremost clock, when the key of the day may expire; only requests that are
\* under way then begin a new count.
DailyBudget ==
  \A d \in 0..Day(MaxStamp) :
    Cardinality({i \in DOMAIN log : /\ Day(log[i].stamp) = d
                                   /\ log[i].at + Ahead < (d + 1) * DayLength}) <= DailyRequests

\* The counter of a bucket holds every request admitted in it within the last
\* window, however late it came, and none that was refused.
KeysAgree ==
  \A b \in DOMAIN globalKey :
    /\ Cardinality({i \in InBucket(Client, b) : now <= log[i].at + Window}) <= Value(globalKey[b])
    /\ Value(globalKey[b]) <= Cardinality(InBucket(Client, b))
=============================================================================
