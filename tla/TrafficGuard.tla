---------------------------- MODULE TrafficGuard ----------------------------
(***************************************************************************)
(* The process-local guard of the paid model calls with its daily budget   *)
(* in the database: ModelAPITrafficGuard, DatabaseModelAPITrafficGuard and *)
(* TrafficGuardLease of traffic_guard.py, as guarded_llm_client of main.py *)
(* and the worker's _execute use them.                                     *)
(*                                                                         *)
(* A deque of time stamps is a log and a head: popleft moves the head, so  *)
(* what was admitted before stays visible to the properties.  Each process *)
(* has its guard; the processes share the table model_api_daily_usage.     *)
(* acquire of the local guard is one step, under its lock; the budget is   *)
(* charged by a later transaction, and released leases go back then.       *)
(*                                                                         *)
(* Times are whole units of the process's monotonic clock; the date of the *)
(* budget moves on its own.  Access tokens are left out: they are compared *)
(* before anything is counted.                                             *)
(***************************************************************************)
EXTENDS Integers, SequencesExt, FiniteSets, FiniteSetsExt

CONSTANTS
  Process,         \* API and worker processes, each with a guard
  Client,          \* addresses of callers, or subjects of a worker's jobs
  Call,            \* threads that may ask for a lease
  MaxConcurrency, GlobalRequests, ClientRequests, Window,  \* TrafficGuardSettings
  LocalDaily, DailyWindow,   \* the rolling day of the local guard
  DailyRequests,   \* the budget of a calendar day
  MaxTracked,      \* MAX_TRACKED_CLIENTS
  MaxTime, MaxAdmitted, MaxDay   \* bounds of the clock, the logs and the days

ASSUME SettingsAssumption ==
  /\ MaxConcurrency \in Nat \ {0} /\ GlobalRequests \in Nat \ {0}
  /\ ClientRequests \in Nat \ {0} /\ Window \in Nat \ {0}
  /\ LocalDaily \in Nat \ {0} /\ DailyWindow \in Nat \ {0}
  /\ DailyRequests \in Nat \ {0} /\ MaxTracked \in Nat \ {0}
ASSUME ProcessAssumption == IsFiniteSet(Process)
ASSUME BoundsAssumption == MaxTime \in Nat /\ MaxAdmitted \in Nat /\ MaxDay \in Nat

VARIABLES
  now,          \* the clock
  log,          \* per process, when it admitted requests
  head,         \* per process, how many of them _global_requests has dropped
  dailyHead,    \* the same of _daily_requests
  clientLog,    \* per process and client, when its requests were admitted
  clientHead,   \* how many of them the client's deque has dropped
  tracked,      \* per process, the keys of _client_requests, oldest first
  active,       \* per process, _active_requests
  today, usage, \* the date and the rows of model_api_daily_usage
  pc, call,     \* each thread: where it is, and for which process and client
  hint,         \* the Retry-After of its last rate refusal
  wasted, served   \* per process, leases refused by the budget and calls begun

vars == <<now, log, head, dailyHead, clientLog, clientHead, tracked, active,
          today, usage, pc, call, hint, wasted, served>>

windows == <<log, head, dailyHead, clientLog, clientHead, tracked>>

NoHint == [due |-> 0, size |-> 0, limit |-> "none"]

Hint == [due : Nat, size : Nat, limit : {"none", "daily", "global", "client"}]

Init ==
  /\ now = 0
  /\ log = [p \in Process |-> <<>>]
  /\ head = [p \in Process |-> 0]
  /\ dailyHead = [p \in Process |-> 0]
  /\ clientLog = [p \in Process |-> [c \in Client |-> <<>>]]
  /\ clientHead = [p \in Process |-> [c \in Client |-> 0]]
  /\ tracked = [p \in Process |-> <<>>]
  /\ active = [p \in Process |-> 0]
  /\ today = 0
  /\ usage = [d \in 0..MaxDay |-> 0]
  /\ pc = [r \in Call |-> "idle"]
  /\ call \in [Call -> [process : Process, client : Client]]
  /\ hint = [r \in Call |-> NoHint]
  /\ wasted = [p \in Process |-> 0]
  /\ served = [p \in Process |-> 0]

Holding(p) == {r \in Call : pc[r] \in {"leased", "running"} /\ call[r].process = p}

-----------------------------------------------------------------------------
(***************************************************************************)
(* The local guard                                                         *)
(***************************************************************************)

\* Fault: a stamp as old as the window is still counted.
OlderThan(stamp, width) == stamp + width < now

\* A stamp the window has passed.
Expired(stamp, width) == stamp + width <= now

\* _prune: k is the head of deque s once its expired stamps are popped from
\* the left, h the head before.
IsPruned(s, h, k, width) ==
  /\ k \in h..Len(s)
  /\ \A i \in (h + 1)..k : Expired(s[i], width)
  /\ k < Len(s) => ~Expired(s[k + 1], width)

\* _retry_after, from the oldest stamp left.
RetryAfter(stamp, width) ==
  IF stamp + width > now + 1 THEN stamp + width - now ELSE 1

\* A refusal by a rate limit tells the caller when to come back.
Refuse(r, s, k, width, limit) ==
  /\ hint' = [hint EXCEPT ![r] = [due |-> now + RetryAfter(s[k + 1], width),
                                  size |-> Len(s), limit |-> limit]]
  /\ UNCHANGED <<log, clientLog, tracked, active, today, usage, pc, now, wasted, served, call>>

IsTracked(p, c) == c \in {tracked[p][i] : i \in DOMAIN tracked[p]}

\* The client to forget so that another one fits: the least recently admitted.
Evicted(p, c) ==
  IF ~IsTracked(p, c) /\ Len(tracked[p]) >= MaxTracked THEN {Head(tracked[p])} ELSE {}

\* The keys that stay in front of client c, which goes to the end.
Others(p, c) ==
  IF IsTracked(p, c) THEN RemoveAt(tracked[p], CHOOSE i \in DOMAIN tracked[p] : tracked[p][i] = c)
  ELSE IF Evicted(p, c) # {} THEN Tail(tracked[p])
  ELSE tracked[p]

\* No lease is free: nothing is counted, nobody is forgotten.
CapacityRefusal(r, p, c, ch) ==
  /\ clientHead' = [clientHead EXCEPT ![p][c] = ch]
  /\ hint' = [hint EXCEPT ![r] = NoHint]
  /\ UNCHANGED <<log, clientLog, tracked, active, today, usage, pc, now, wasted, served, call>>

Full(p) == active[p] >= MaxConcurrency

\* The request is admitted: its client is tracked, another one may have to go
\* with its deque, and the stamp is appended to all three deques.
Admit(r, p, c, ch) ==
  /\ Len(log[p]) < MaxAdmitted
  /\ tracked' = [tracked EXCEPT ![p] = Append(Others(p, c), c)]
  /\ clientHead' = [clientHead EXCEPT ![p] =
        [d \in Client |-> IF d \in Evicted(p, c) THEN Len(clientLog[p][d])
                          ELSE IF d = c THEN ch ELSE @[d]]]
  /\ clientLog' = [clientLog EXCEPT ![p][c] = Append(@, now)]
  /\ log' = [log EXCEPT ![p] = Append(@, now)]
  /\ active' = [active EXCEPT ![p] = @ + 1]
  /\ pc' = [pc EXCEPT ![r] = "leased"]
  /\ hint' = [hint EXCEPT ![r] = NoHint]
  /\ UNCHANGED <<now, today, usage, wasted, served, call>>

\* ModelAPITrafficGuard.acquire, in the order of its checks.
Acquire(r) ==
  LET p == call[r].process
      c == call[r].client
  IN
  /\ pc[r] = "idle"
  /\ \E h, dh \in 0..Len(log[p]), ch \in 0..Len(clientLog[p][c]) :
       /\ IsPruned(log[p], head[p], h, Window)
       /\ IsPruned(log[p], dailyHead[p], dh, DailyWindow)
       /\ IsPruned(clientLog[p][c], clientHead[p][c], ch, Window)
       /\ head' = [head EXCEPT ![p] = h]
       /\ dailyHead' = [dailyHead EXCEPT ![p] = dh]
       /\ \/ /\ Len(log[p]) - dh >= LocalDaily
             /\ Refuse(r, log[p], dh, DailyWindow, "daily")
             /\ UNCHANGED clientHead
          \/ /\ Len(log[p]) - dh < LocalDaily
             /\ Len(log[p]) - h >= GlobalRequests
             /\ Refuse(r, log[p], h, Window, "global")
             /\ UNCHANGED clientHead
          \/ /\ Len(log[p]) - dh < LocalDaily
             /\ Len(log[p]) - h < GlobalRequests
             /\ \/ /\ Len(clientLog[p][c]) - ch >= ClientRequests
                   /\ Refuse(r, clientLog[p][c], ch, Window, "client")
                   /\ clientHead' = [clientHead EXCEPT ![p][c] = ch]
                \/ /\ Len(clientLog[p][c]) - ch < ClientRequests
                   /\ Full(p)
                   /\ CapacityRefusal(r, p, c, ch)
                \/ /\ Len(clientLog[p][c]) - ch < ClientRequests
                   /\ ~Full(p)
                   /\ Admit(r, p, c, ch)

\* TrafficGuardLease.release, once, and _release.
Release(p) == active' = [active EXCEPT ![p] = IF @ > 0 THEN @ - 1 ELSE @]

-----------------------------------------------------------------------------
(***************************************************************************)
(* The daily budget and the call                                           *)
(***************************************************************************)

\* Fault: the row is inserted or increased without its condition.
AlwaysBudget == TRUE

\* The upsert of _consume_daily_request returns a row.
HasBudget == usage[today] < DailyRequests

\* The budget of the day is charged; the client is built and called.
Charge(r) ==
  /\ pc[r] = "leased"
  /\ HasBudget
  /\ usage' = [usage EXCEPT ![today] = @ + 1]
  /\ pc' = [pc EXCEPT ![r] = "running"]
  /\ served' = [served EXCEPT ![call[r].process] = @ + 1]
  /\ UNCHANGED <<windows, now, active, today, call, hint, wasted>>

\* No budget left, or the database fails: the lease goes back, the stamps in
\* the deques stay.
RefusedByBudget(r) ==
  /\ pc[r] = "leased"
  /\ Release(call[r].process)
  /\ pc' = [pc EXCEPT ![r] = "idle"]
  /\ wasted' = [wasted EXCEPT ![call[r].process] = @ + 1]
  /\ UNCHANGED <<windows, now, today, usage, call, hint, served>>

\* The call ends one way or another; guarded_llm_client closes the client and
\* releases the lease whatever close does.
EndCall(r) ==
  /\ pc[r] = "running"
  /\ Release(call[r].process)
  /\ pc' = [pc EXCEPT ![r] = "idle"]
  /\ UNCHANGED <<windows, now, today, usage, call, hint, wasted, served>>

\* An idle thread turns to another request.
Turn(r) ==
  /\ pc[r] = "idle"
  /\ call' \in [Call -> [process : Process, client : Client]]
  /\ \A q \in Call \ {r} : call'[q] = call[q]
  /\ hint' = [hint EXCEPT ![r] = NoHint]
  /\ UNCHANGED <<windows, now, active, today, usage, pc, wasted, served>>

Tick ==
  /\ now < MaxTime
  /\ now' = now + 1
  /\ UNCHANGED <<windows, active, today, usage, pc, call, hint, wasted, served>>

NextDay ==
  /\ today < MaxDay
  /\ today' = today + 1
  /\ UNCHANGED <<windows, now, active, usage, pc, call, hint, wasted, served>>

Next ==
  \/ \E r \in Call : Acquire(r) \/ Charge(r) \/ RefusedByBudget(r) \/ EndCall(r) \/ Turn(r)
  \/ Tick
  \/ NextDay

Spec == Init /\ [][Next]_vars

-----------------------------------------------------------------------------
(***************************************************************************)
(* Properties                                                              *)
(***************************************************************************)

Stamps == Seq(Nat)

\* Every variable holds what its deque, counter or row may hold.
TypeOK ==
  /\ now \in Nat /\ today \in 0..MaxDay
  /\ log \in [Process -> Stamps]
  /\ head \in [Process -> Nat] /\ dailyHead \in [Process -> Nat]
  /\ clientLog \in [Process -> [Client -> Stamps]]
  /\ clientHead \in [Process -> [Client -> Nat]]
  /\ tracked \in [Process -> Seq(Client)]
  /\ active \in [Process -> Nat]
  /\ usage \in [0..MaxDay -> Nat]
  /\ pc \in [Call -> {"idle", "leased", "running"}]
  /\ call \in [Call -> [process : Process, client : Client]]
  /\ hint \in [Call -> Hint]
  /\ wasted \in [Process -> Nat] /\ served \in [Process -> Nat]

\* The stamps of s are at most n to any span of the window: the n-th request
\* after another one is admitted a whole window later.
Spread(s, n, width) == \A i \in DOMAIN s : i + n \in DOMAIN s => s[i] + width <= s[i + n]

\* No process admits more than the global limit in any window, wherever the
\* window begins.
GlobalLimit == \A p \in Process : Spread(log[p], GlobalRequests, Window)

\* Nor more than the client limit for one client, although clients are
\* forgotten when there are too many of them.
ClientLimit ==
  \A p \in Process, c \in Client : Spread(clientLog[p][c], ClientRequests, Window)

\* Nor more than the local guard's own daily limit.
LocalDailyLimit == \A p \in Process : Spread(log[p], LocalDaily, DailyWindow)

\* The counter of active requests is the number of leases held: no lease is
\* lost or given back twice, whichever way a request ends.
LeasesAreCounted ==
  \A p \in Process :
    /\ active[p] = Cardinality(Holding(p))
    /\ active[p] <= MaxConcurrency

\* A slot of the rate windows is taken by requests with a lease only: those
\* begun, those waiting for the budget and those it refused.  A refusal for
\* lack of capacity costs nothing.
SlotsAreAccounted ==
  \A p \in Process :
    Len(log[p]) = served[p] + wasted[p] + Cardinality({r \in Holding(p) : pc[r] = "leased"})

\* All processes together stay within the budget of each day, and exactly the
\* calls that were begun are charged, whoever began them.
BudgetIsShared ==
  /\ \A d \in 0..MaxDay : usage[d] <= DailyRequests
  /\ MapThenSumSet(LAMBDA d : usage[d], 0..MaxDay) = MapThenSumSet(LAMBDA p : served[p], Process)

\* Retry-After is long enough: once it has passed, and nobody else was
\* admitted meanwhile, the limit that refused the request admits it.
RetryAfterSuffices ==
  \A r \in Call :
    LET p == call[r].process
        s == IF hint[r].limit = "client" THEN clientLog[p][call[r].client] ELSE log[p]
        width == IF hint[r].limit = "daily" THEN DailyWindow ELSE Window
        limit == CASE hint[r].limit = "daily" -> LocalDaily
                   [] hint[r].limit = "client" -> ClientRequests
                   [] OTHER -> GlobalRequests
    IN
    hint[r].limit # "none" /\ now >= hint[r].due /\ Len(s) = hint[r].size =>
      Cardinality({i \in DOMAIN s : ~Expired(s[i], width)}) < limit
=============================================================================
