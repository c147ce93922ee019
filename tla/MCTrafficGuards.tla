-------------------------- MODULE MCTrafficGuards --------------------------
(***************************************************************************)
(* The two guards create_traffic_guard chooses from, for TLC.  They are    *)
(* never in use together, and no bounds small enough for TLC make all      *)
(* their limits matter at a time; a behaviour is one of these instances:   *)
(*   local   one process on one day, with more clients than it tracks;     *)
(*   shared  two processes that share the budget of two days, one client;  *)
(*   rate    the Redis guard, by one clock, with requests that travel;     *)
(*   leases  the Redis guard, two processes whose clocks differ.           *)
(***************************************************************************)
EXTENDS TrafficGuard, TLC

CONSTANTS p1, p2, c1, c2, Unused

VARIABLES
  part,                                 \* which instance
  globalKey, clientKey, dayKey, leases  \* what Redis holds

redis == <<globalKey, clientKey, dayKey, leases>>
memory == <<head, dailyHead, clientLog, clientHead, tracked, active, today, usage,
            hint, wasted, served>>

Rate == INSTANCE RedisTrafficGuard
  WITH Process <- {p1}, Skew <- [p \in {p1} |-> 0], Client <- {c1, c2},
       MaxConcurrency <- 2, GlobalRequests <- 2, ClientRequests <- 1, DailyRequests <- 4,
       Window <- 2, DayLength <- 4, LeaseTTL <- 2, MaxCall <- 0, MaxDelay <- 1,
       MaxTime <- 3, MaxAdmitted <- 5

Leases == INSTANCE RedisTrafficGuard
  WITH Process <- {p1, p2}, Skew <- [p \in {p1, p2} |-> IF p = p1 THEN 0 ELSE 1], Client <- {c1},
       MaxConcurrency <- 1, GlobalRequests <- 9, ClientRequests <- 9, DailyRequests <- 9,
       Window <- 9, DayLength <- 9, LeaseTTL <- 4, MaxCall <- 1, MaxDelay <- 1,
       MaxTime <- 4, MaxAdmitted <- 3

ASSUME RedisAssumption == Rate!SettingsAreSound /\ Leases!SettingsAreSound

NoRedis == globalKey = Unused /\ clientKey = Unused /\ dayKey = Unused /\ leases = Unused

NoMemory ==
  /\ head = Unused /\ dailyHead = Unused /\ clientLog = Unused /\ clientHead = Unused
  /\ tracked = Unused /\ active = Unused /\ today = Unused /\ usage = Unused
  /\ hint = Unused /\ wasted = Unused /\ served = Unused

OneProcess == today = 0 /\ \A r \in Call : call[r].process = p1
OneClient == \A q, r \in Call : call[q].client = call[r].client

MCInit ==
  \/ part = "local" /\ Init /\ OneProcess /\ NoRedis
  \/ part = "shared" /\ Init /\ OneClient /\ NoRedis
  \/ part = "rate" /\ Rate!Init /\ NoMemory
  \/ part = "leases" /\ Leases!Init /\ NoMemory

MCNext ==
  /\ \/ part = "local" /\ Next /\ OneProcess' /\ UNCHANGED redis
     \/ part = "shared" /\ Next /\ OneClient' /\ UNCHANGED redis
     \/ part = "rate" /\ Rate!Next /\ UNCHANGED memory
     \/ part = "leases" /\ Leases!Next /\ UNCHANGED memory
  /\ UNCHANGED part

MCSpec == MCInit /\ [][MCNext]_<<vars, redis, part>>

\* Every limit of the local guard holds in windows that begin anywhere, a
\* refusal or a lease that is not given takes no slot of them, and a caller
\* that waits as long as Retry-After says is not refused by the same limit
\* again unless others came first, whatever clients the guard has forgotten.
LocalLimitsHold ==
  part = "local" =>
    /\ TypeOK
    /\ GlobalLimit /\ ClientLimit /\ LocalDailyLimit
    /\ SlotsAreAccounted
    /\ RetryAfterSuffices

\* Processes that share the database stay within the budget of each day, and
\* are charged for the calls they begin, neither more nor less; no lease of
\* their own guards is lost on the way.
DayBudgetHolds == part = "shared" => LeasesAreCounted /\ BudgetIsShared

\* The fixed windows of the Redis guard admit at most twice the rate in a
\* window that begins anywhere (two buckets meet in it at these delays), and
\* the budget of a day, late and reordered requests included.
RateAtMostDoubles ==
  part = "rate" =>
    Rate!TypeOK /\ Rate!KeysAgree /\ Rate!DailyBudget /\ Rate!RateIsBounded

\* Processes with different clocks, whose answers and releases get lost, run
\* no more model calls together than the limit of concurrency.
CallsTogetherAreLimited == part = "leases" => Leases!ConcurrencyIsShared

\* The processes differ by their clocks in one of the instances.
Symmetry == Permutations(Client) \cup Permutations(Call)
=============================================================================
