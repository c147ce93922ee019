------------------------ MODULE WorkerProcessProofs ------------------------
(***************************************************************************)
(* Proofs about the process of a worker: WorkerHeartbeat, for any workers  *)
(* and any length of a lease and of a call; LLMClient, for any chats, any  *)
(* time-outs and delays and any lag of the scheduler;                      *)
(* AgentWorkflow, for any rules, severities and order of registration; and *)
(* about the reading of plans by the rules it runs: DeviceScopes, for any  *)
(* devices, requests and plans.                                            *)
(***************************************************************************)
EXTENDS MCWorkerProcess, MCValidation, Sequences, FiniteSetTheorems, WellFoundedInduction,
        TLAPS

Types ==
  /\ at     \in [Worker -> {"down", "loop", "asleep", "calling"}]
  /\ wait   \in [Worker -> Nat]
  /\ beater \in [Worker -> {"off", "on", "dead"}]
  /\ beatIn \in [Worker -> Nat]
  /\ lease  \in [Worker -> Nat]
  /\ owner  \in [Worker -> BOOLEAN]
  /\ seen   \in [by : Worker \cup {Nobody}, age : Nat]
  /\ downFor \in [Worker -> Nat]

\* The configured times are numbers, and so is the interval of the beats.
LEMMA Times ==
  /\ Lease \in Nat \ {0} /\ LoopSleep \in Nat \ {0} /\ MaxCall \in Nat \ {0}
  /\ Staleness \in Nat \ {0} /\ Interval \in Nat \ {0}
  /\ Lease > 1 => Interval < Lease
<1>1. /\ Lease \in Nat \ {0} /\ LoopSleep \in Nat \ {0} /\ MaxCall \in Nat \ {0}
      /\ Staleness \in Nat \ {0} /\ BeatCap \in Nat \ {0}
  BY TimesAssumption
<1>2. Lease \div 3 \in Nat /\ (Lease > 1 => Lease \div 3 < Lease)
  BY <1>1
<1> QED
  BY <1>1, <1>2 DEF Interval, AtLeast, AtMost

\* A heartbeat that fails, and time that passes whether or not heartbeats are
\* late: what happens with prompt threads and with faulty ones.
AnyFailure(w) ==
  /\ beater[w] = "on" /\ beatIn[w] = 0
  /\ beater' = [beater EXCEPT ![w] = "dead"]
  /\ UNCHANGED <<at, wait, beatIn, lease, owner, seen, downFor>>

AnyTick ==
  /\ \A w \in Worker : at[w] = "asleep" => wait[w] # 0
  /\ wait'   = [w \in Worker |-> Down(wait[w])]
  /\ beatIn' = [w \in Worker |-> Down(beatIn[w])]
  /\ lease'  = [w \in Worker |-> Down(lease[w])]
  /\ seen'   = [seen EXCEPT !.age = AtMost(@ + 1, Staleness + 1)]
  /\ downFor' = [w \in Worker |-> IF at[w] = "down" THEN AtMost(downFor[w] + 1, Staleness + 1) ELSE 0]
  /\ UNCHANGED <<at, beater, owner>>

AnyStep ==
  \/ \E w \in Worker :
       \/ Start(w) \/ FindNothing(w) \/ ClaimJob(w) \/ WakeUp(w) \/ CallReturns(w) \/ Die(w)
       \/ Beat(w) \/ AnyFailure(w)
  \/ AnyTick

\* The steps of workers whose database answers are among them,
LEMMA StepsAreAny == Next => AnyStep
<1>1. Tick => AnyTick
  BY DEF Tick, AnyTick, Due
<1>2. \A w \in Worker : BeatFails(w) => AnyFailure(w)
  BY DEF BeatFails, AnyFailure
<1> QED
  BY <1>1, <1>2, Zenon DEF Next, AnyStep

\* and so are those of workers whose database fails.
LEMMA FaultyStepsAreAny == Faulty!Next => AnyStep
<1>1. Faulty!Tick => AnyTick
  BY DEF Faulty!Tick, AnyTick, Faulty!Due, Faulty!Down, Down, Faulty!AtMost, AtMost,
         Faulty!AtLeast, AtLeast
<1>2. \A w \in Worker :
        /\ Faulty!BeatFails(w) => AnyFailure(w)
        /\ Faulty!Start(w) => Start(w)
        /\ Faulty!WakeUp(w) => WakeUp(w)
        /\ Faulty!CallReturns(w) => CallReturns(w)
        /\ Faulty!Die(w) => Die(w)
  BY DEF Faulty!BeatFails, AnyFailure, Faulty!Start, Start, Faulty!WakeUp, WakeUp,
         Faulty!CallReturns, CallReturns, Faulty!Die, Die
<1>3. Faulty!Interval = Interval
  BY DEF Faulty!Interval, Interval, Faulty!AtMost, AtMost, Faulty!AtLeast, AtLeast
<1>4. \A w \in Worker :
        /\ Faulty!FindNothing(w) => FindNothing(w)
        /\ Faulty!ClaimJob(w) => ClaimJob(w)
        /\ Faulty!Beat(w) => Beat(w)
  BY <1>3 DEF Faulty!FindNothing, FindNothing, Faulty!BeatsFirst, BeatsFirst,
         Faulty!RecordHeartbeat, RecordHeartbeat, Faulty!ClaimJob, ClaimJob,
         Faulty!Recoverable, Recoverable, Faulty!Beat, Beat
<1> QED
  BY <1>1, <1>2, <1>4, Zenon DEF Faulty!Next, AnyStep

\* Types, step by step.
LEMMA TypesStep ==
  ASSUME Types, [AnyStep]_vars
  PROVE  Types'
<1> USE DEF Types, RecordHeartbeat, BeatsFirst
<1>0. 0 \in Nat /\ LoopSleep \in Nat
  BY Times
<1>1. ASSUME NEW w \in Worker,
             Start(w) \/ FindNothing(w) \/ WakeUp(w) \/ CallReturns(w) \/ Die(w) \/ AnyFailure(w)
      PROVE  Types'
  <2>1. CASE Start(w)
    BY <2>1, <1>0 DEF Start
  <2>2. CASE FindNothing(w)
    BY <2>2, <1>0 DEF FindNothing
  <2>3. CASE WakeUp(w)
    BY <2>3 DEF WakeUp
  <2>4. CASE CallReturns(w)
    BY <2>4, <1>0 DEF CallReturns
  <2>5. CASE Die(w)
    BY <2>5, <1>0 DEF Die
  <2>6. CASE AnyFailure(w)
    BY <2>6 DEF AnyFailure
  <2> QED
    BY <1>1, <2>1, <2>2, <2>3, <2>4, <2>5, <2>6
<1>2. ASSUME NEW w \in Worker, ClaimJob(w) PROVE Types'
  <2>1. /\ at' \in [Worker -> {"down", "loop", "asleep", "calling"}] /\ wait' \in [Worker -> Nat]
        /\ beater' \in [Worker -> {"off", "on", "dead"}] /\ beatIn' \in [Worker -> Nat]
        /\ lease' \in [Worker -> Nat]
    BY <1>2, Times DEF ClaimJob
  <2>2. owner' \in [Worker -> BOOLEAN]
    BY <1>2 DEF ClaimJob
  <2>3. seen' \in [by : Worker \cup {Nobody}, age : Nat] /\ downFor' = downFor
    BY <1>2 DEF ClaimJob
  <2> QED
    BY <2>1, <2>2, <2>3
<1>3. ASSUME NEW w \in Worker, Beat(w) PROVE Types'
  BY <1>3, Times DEF Beat
<1>4. CASE AnyTick
  <2>1. \A n \in Nat : Down(n) \in Nat /\ AtMost(n + 1, Staleness + 1) \in Nat
    BY Times DEF Down, AtLeast, AtMost
  <2> QED
    BY <1>4, <2>1 DEF AnyTick
<1>5. CASE UNCHANGED vars
  BY <1>5 DEF vars
<1> QED
  BY <1>1, <1>2, <1>3, <1>4, <1>5 DEF AnyStep

\* Everybody starts down, and nobody has beaten.
LEMMA InitTypes == Init => Types
BY Times DEF Init, Types

-----------------------------------------------------------------------------
(***************************************************************************)
(* The lease of a call.                                                    *)
(***************************************************************************)

\* A worker at a call owns its job, and its next beat is due before the lease
\* of the job is over.
Renewing ==
  \A w \in Worker : at[w] = "calling" =>
    owner[w] /\ beater[w] = "on" /\ beatIn[w] < lease[w]

\* Nothing of worker v changes but what is seen of it.
Same(v) ==
  at'[v] = at[v] /\ owner'[v] = owner[v] /\ beater'[v] = beater[v]
  /\ beatIn'[v] = beatIn[v] /\ lease'[v] = lease[v]

\* The beats come in time as long as none of them fails.
LEMMA RenewingStep ==
  ASSUME ~DbFails, Lease > 1, Types, Renewing, [Next]_vars
  PROVE  Renewing'
<1> SUFFICES ASSUME NEW v \in Worker, at'[v] = "calling"
             PROVE  owner'[v] /\ beater'[v] = "on" /\ beatIn'[v] < lease'[v]
  BY DEF Renewing
<1>1. CASE Same(v)
  BY <1>1 DEF Same, Renewing
<1>2. ASSUME NEW w \in Worker,
             Start(w) \/ FindNothing(w) \/ WakeUp(w) \/ CallReturns(w) \/ Die(w)
      PROVE  Same(v)
  BY <1>2 DEF Start, FindNothing, WakeUp, CallReturns, Die, Same, Types
<1>3. ASSUME NEW w \in Worker, ClaimJob(w)
      PROVE  owner'[v] /\ beater'[v] = "on" /\ beatIn'[v] < lease'[v]
  <2>1. CASE v = w
    BY <1>3, <2>1, Times DEF ClaimJob, Types
  <2>2. CASE v # w
    <3>1. /\ at'[v] = at[v] /\ beater'[v] = beater[v] /\ beatIn'[v] = beatIn[v]
          /\ lease'[v] = lease[v]
      BY <1>3, <2>2 DEF ClaimJob, Types
    <3>2. lease[v] \in Nat /\ beatIn[v] \in Nat /\ at[v] = "calling"
      BY <3>1 DEF Types
    <3>3. ~Recoverable(v)
      BY <3>2 DEF Recoverable, Renewing
    <3>4. owner'[v] = owner[v]
      BY <1>3, <2>2, <3>3 DEF ClaimJob, Types
    <3> QED
      BY <3>1, <3>2, <3>4 DEF Renewing
  <2> QED
    BY <2>1, <2>2
<1>4. ASSUME NEW w \in Worker, Beat(w)
      PROVE  owner'[v] /\ beater'[v] = "on" /\ beatIn'[v] < lease'[v]
  <2>1. CASE v # w
    BY <1>1, <1>4, <2>1 DEF Beat, Same, Types
  <2>2. CASE v = w
    <3>1. at[w] = "calling" /\ owner[w]
      BY <1>4, <2>2 DEF Beat, Renewing
    <3> QED
      BY <1>4, <2>2, <3>1, Times DEF Beat, Renewing, Types
  <2> QED
    BY <2>1, <2>2
<1>5. ASSUME NEW w \in Worker, BeatFails(w) PROVE FALSE
  BY <1>5 DEF BeatFails
<1>6. CASE Tick
  <2>1. /\ at' = at /\ owner' = owner /\ beater' = beater
        /\ beatIn'[v] = Down(beatIn[v]) /\ lease'[v] = Down(lease[v])
        /\ ~Due(v)
    BY <1>6 DEF Tick
  <2>2. /\ owner[v] /\ beater[v] = "on" /\ beatIn[v] < lease[v]
        /\ beatIn[v] \in Nat /\ lease[v] \in Nat
    BY <2>1 DEF Renewing, Types
  <2>3. beatIn[v] # 0
    BY <2>1, <2>2 DEF Due
  <2> QED
    BY <2>1, <2>2, <2>3 DEF Down, AtLeast
<1>7. CASE UNCHANGED vars
  BY <1>1, <1>7 DEF vars, Same
<1> QED
  BY <1>1, <1>2, <1>3, <1>4, <1>5, <1>6, <1>7 DEF Next

\* As long as no beat fails, a worker at a call of any length keeps its job and
\* the lease of it.
THEOREM LeaseIsAlwaysRenewed ==
  ASSUME ~DbFails, Lease > 1
  PROVE  Spec => []LeaseIsRenewed
<1>1. Init => Types /\ Renewing
  BY InitTypes DEF Init, Renewing
<1>2. Types /\ Renewing /\ [Next]_vars => (Types /\ Renewing)'
  BY StepsAreAny, TypesStep, RenewingStep
<1>3. Types /\ Renewing => LeaseIsRenewed
  BY DEF Types, Renewing, LeaseIsRenewed
<1> QED
  BY <1>1, <1>2, <1>3, PTL DEF Spec

-----------------------------------------------------------------------------
(***************************************************************************)
(* What /ready sees.                                                       *)
(***************************************************************************)

\* A worker that sleeps or waits for its next beat has been seen since it fell
\* asleep, or since its last beat.
SeenInTime ==
  \A w \in Worker :
    /\ at[w] = "asleep" => seen.by # Nobody /\ seen.age + wait[w] <= LoopSleep
    /\ at[w] = "calling" => seen.by # Nobody
    /\ at[w] = "calling" /\ beater[w] = "on" /\ beatIn[w] > 0 =>
         seen.age + beatIn[w] <= Interval

\* A beat of anybody brings what is seen of the service up to date.
LEMMA BeatIsSeen ==
  ASSUME Types, SeenInTime, NEW w \in Worker, RecordHeartbeat(w), NEW v \in Worker,
         wait'[v] = wait[v], beatIn'[v] = beatIn[v], at'[v] = at[v], beater'[v] = beater[v]
  PROVE  /\ at'[v] = "asleep" => seen'.by # Nobody /\ seen'.age + wait'[v] <= LoopSleep
         /\ at'[v] = "calling" => seen'.by # Nobody
         /\ at'[v] = "calling" /\ beater'[v] = "on" /\ beatIn'[v] > 0 =>
              seen'.age + beatIn'[v] <= Interval
<1>1. seen'.by # Nobody /\ seen'.age = 0
  BY TimesAssumption DEF RecordHeartbeat
<1>2. seen.age \in Nat /\ wait[v] \in Nat /\ beatIn[v] \in Nat
  BY DEF Types
<1> QED
  BY <1>1, <1>2, Times DEF SeenInTime

\* Beats and pauses keep up, whether or not beats fail.
LEMMA SeenInTimeStep ==
  ASSUME Types, SeenInTime, [AnyStep]_vars
  PROVE  SeenInTime'
<1> DEFINE Seen(v) ==
      /\ at[v] = "asleep" => seen.by # Nobody /\ seen.age + wait[v] <= LoopSleep
      /\ at[v] = "calling" => seen.by # Nobody
      /\ at[v] = "calling" /\ beater[v] = "on" /\ beatIn[v] > 0 =>
           seen.age + beatIn[v] <= Interval
<1> SUFFICES ASSUME NEW v \in Worker PROVE Seen(v)'
  BY DEF SeenInTime
<1>0. Seen(v)
  BY DEF SeenInTime
<1>1. ASSUME NEW w \in Worker,
             Start(w) \/ WakeUp(w) \/ CallReturns(w) \/ Die(w) \/ AnyFailure(w)
      PROVE  Seen(v)'
  <2>1. seen' = seen
    BY <1>1 DEF Start, WakeUp, CallReturns, Die, AnyFailure
  <2>2. CASE v # w
    <3>1. at'[v] = at[v] /\ wait'[v] = wait[v] /\ beater'[v] = beater[v] /\ beatIn'[v] = beatIn[v]
      BY <1>1, <2>2 DEF Start, WakeUp, CallReturns, Die, AnyFailure, Types
    <3> QED
      BY <1>0, <2>1, <3>1
  <2>3. CASE v = w /\ AnyFailure(w)
    BY <1>0, <2>1, <2>3 DEF AnyFailure, Types
  <2>4. CASE v = w /\ ~AnyFailure(w)
    <3>1. at'[v] \in {"loop", "down"}
      BY <1>1, <2>4 DEF Start, WakeUp, CallReturns, Die, Types
    <3> QED
      BY <3>1
  <2> QED
    BY <2>2, <2>3, <2>4
<1>2. ASSUME NEW w \in Worker, FindNothing(w) PROVE Seen(v)'
  <2>1. RecordHeartbeat(w)
    BY <1>2 DEF FindNothing, BeatsFirst
  <2>2. CASE v # w
    <3>1. at'[v] = at[v] /\ wait'[v] = wait[v] /\ beater'[v] = beater[v] /\ beatIn'[v] = beatIn[v]
      BY <1>2, <2>2 DEF FindNothing, Types
    <3> QED
      BY <2>1, <3>1, BeatIsSeen
  <2>3. CASE v = w
    <3>1. at'[v] = "asleep" /\ wait'[v] = LoopSleep
      BY <1>2, <2>3 DEF FindNothing, Types
    <3>2. seen'.by # Nobody /\ seen'.age = 0
      BY <2>1, TimesAssumption DEF RecordHeartbeat
    <3> QED
      BY <3>1, <3>2, Times
  <2> QED
    BY <2>2, <2>3
<1>3. ASSUME NEW w \in Worker, ClaimJob(w) PROVE Seen(v)'
  <2>1. RecordHeartbeat(w)
    BY <1>3 DEF ClaimJob, BeatsFirst
  <2>2. CASE v # w
    <3>1. at'[v] = at[v] /\ wait'[v] = wait[v] /\ beater'[v] = beater[v] /\ beatIn'[v] = beatIn[v]
      BY <1>3, <2>2 DEF ClaimJob, Types
    <3> QED
      BY <2>1, <3>1, BeatIsSeen
  <2>3. CASE v = w
    <3>1. at'[v] = "calling" /\ beatIn'[v] = Interval
      BY <1>3, <2>3 DEF ClaimJob, Types
    <3>2. seen'.by # Nobody /\ seen'.age = 0
      BY <2>1, TimesAssumption DEF RecordHeartbeat
    <3> QED
      BY <3>1, <3>2, Times
  <2> QED
    BY <2>2, <2>3
<1>4. ASSUME NEW w \in Worker, Beat(w) PROVE Seen(v)'
  <2>1. RecordHeartbeat(w) /\ at' = at /\ wait' = wait
    BY <1>4 DEF Beat
  <2>2. CASE v # w
    <3>1. beater'[v] = beater[v] /\ beatIn'[v] = beatIn[v]
      BY <1>4, <2>2 DEF Beat, Types
    <3> QED
      BY <2>1, <3>1, BeatIsSeen
  <2>3. CASE v = w
    <3>1. beatIn'[v] \in {0, Interval}
      BY <1>4, <2>3 DEF Beat, Types
    <3>2. seen'.by # Nobody /\ seen'.age = 0
      BY <2>1, TimesAssumption DEF RecordHeartbeat
    <3>3. at[v] = "asleep" => wait[v] <= LoopSleep
      BY <1>0, Times DEF Types
    <3>4. wait[v] \in Nat
      BY DEF Types
    <3> QED
      BY <2>1, <3>1, <3>2, <3>3, <3>4, Times
  <2> QED
    BY <2>2, <2>3
<1>5. CASE AnyTick
  <2>1. /\ at' = at /\ beater' = beater /\ (at[v] = "asleep" => wait[v] # 0)
        /\ wait'[v] = Down(wait[v]) /\ beatIn'[v] = Down(beatIn[v])
    BY <1>5 DEF AnyTick
  <2>2. seen'.by = seen.by /\ seen'.age = AtMost(seen.age + 1, Staleness + 1)
    BY <1>5 DEF AnyTick, Types
  <2>3. seen.age \in Nat /\ wait[v] \in Nat /\ beatIn[v] \in Nat
    BY DEF Types
  <2>4. seen'.age \in Nat /\ seen'.age <= seen.age + 1
    BY <2>2, <2>3, Times DEF AtMost
  <2>5. at[v] = "asleep" => wait[v] > 0 /\ wait'[v] = wait[v] - 1
    BY <2>1, <2>3 DEF Down, AtLeast
  <2>6. beatIn'[v] > 0 => beatIn[v] > 0 /\ beatIn'[v] = beatIn[v] - 1
    BY <2>1, <2>3 DEF Down, AtLeast
  <2> QED
    BY <1>0, <2>1, <2>2, <2>3, <2>4, <2>5, <2>6, Times
<1>6. CASE UNCHANGED vars
  BY <1>0, <1>6 DEF vars
<1> QED
  BY <1>1, <1>2, <1>3, <1>4, <1>5, <1>6 DEF AnyStep

\* If the staleness allowed covers both, a beat that is awaited is not late.
LEMMA SeenInTimeMeans ==
  ASSUME LoopSleep <= Staleness, Interval <= Staleness
  PROVE  Types /\ SeenInTime => NoFalseAlarm
<1>1. ASSUME Types, SeenInTime, ~Healthy, NEW w \in Worker
      PROVE  \/ at[w] \in {"down", "loop"}
             \/ at[w] = "calling" /\ (beater[w] # "on" \/ beatIn[w] = 0)
  <2>1. /\ at[w] \in {"down", "loop", "asleep", "calling"}
        /\ seen.age \in Nat /\ wait[w] \in Nat /\ beatIn[w] \in Nat
    BY <1>1 DEF Types
  <2>2. at[w] # "asleep"
    BY <1>1, <2>1, Times DEF SeenInTime, Healthy
  <2>3. ~(at[w] = "calling" /\ beater[w] = "on" /\ beatIn[w] > 0)
    BY <1>1, <2>1, Times DEF SeenInTime, Healthy
  <2> QED
    BY <2>1, <2>2, <2>3
<1> QED
  BY <1>1 DEF NoFalseAlarm

\* If the staleness allowed covers the pause of the loop and the interval of the
\* beats, /ready complains only when no worker is up but those that start this
\* instant or whose heartbeat is late or gone.
THEOREM ReadyNeverCriesWolf ==
  ASSUME LoopSleep <= Staleness, Interval <= Staleness
  PROVE  Spec => []NoFalseAlarm
<1>1. Init => Types /\ SeenInTime
  BY InitTypes DEF Init, SeenInTime
<1>2. Types /\ SeenInTime /\ [Next]_vars => (Types /\ SeenInTime)'
  BY StepsAreAny, TypesStep, SeenInTimeStep
<1> QED
  BY <1>1, <1>2, SeenInTimeMeans, PTL DEF Spec

-----------------------------------------------------------------------------

\* Only a worker that is up beats, and whoever was seen last has been down no
\* longer than that.
SeenWhenUp ==
  /\ \A w \in Worker : at[w] # "down" => downFor[w] = 0
  /\ \A w \in Worker : beater[w] # "off" => at[w] = "calling"
  /\ seen.by # Nobody => downFor[seen.by] <= seen.age

\* The age of the last beat and the time since a death pass together.
LEMMA SeenWhenUpStep ==
  ASSUME Types, SeenWhenUp, [AnyStep]_vars
  PROVE  SeenWhenUp'
<1>1. ASSUME NEW w \in Worker, FindNothing(w) \/ ClaimJob(w) \/ Beat(w)
      PROVE  SeenWhenUp'
  <2>1. seen'.by = w /\ seen'.age = 0 /\ downFor' = downFor /\ at[w] # "down"
    BY <1>1 DEF FindNothing, ClaimJob, Beat, BeatsFirst, RecordHeartbeat, SeenWhenUp
  <2>2. downFor[w] = 0
    BY <2>1 DEF SeenWhenUp
  <2>3. \A v \in Worker : at'[v] # "down" => at[v] # "down"
    BY <1>1, <2>1 DEF FindNothing, ClaimJob, Beat, Types
  <2>4. \A v \in Worker : beater'[v] # "off" => at'[v] = "calling"
    BY <1>1 DEF FindNothing, ClaimJob, Beat, Types, SeenWhenUp
  <2> QED
    BY <2>1, <2>2, <2>3, <2>4 DEF SeenWhenUp
<1>2. ASSUME NEW w \in Worker,
             WakeUp(w) \/ CallReturns(w) \/ Die(w) \/ AnyFailure(w)
      PROVE  SeenWhenUp'
  <2>1. seen' = seen /\ downFor' = downFor
    BY <1>2 DEF WakeUp, CallReturns, Die, AnyFailure
  <2>2. \A v \in Worker : at'[v] # "down" => at[v] # "down"
    BY <1>2 DEF WakeUp, CallReturns, Die, AnyFailure, Types
  <2>3. \A v \in Worker : beater'[v] # "off" => at'[v] = "calling"
    BY <1>2 DEF WakeUp, CallReturns, Die, AnyFailure, Types, SeenWhenUp
  <2> QED
    BY <2>1, <2>2, <2>3 DEF SeenWhenUp
<1>3. ASSUME NEW w \in Worker, Start(w) PROVE SeenWhenUp'
  <2>1. /\ seen' = seen /\ beater' = beater
        /\ at' = [at EXCEPT ![w] = "loop"] /\ downFor' = [downFor EXCEPT ![w] = 0]
        /\ at[w] = "down"
    BY <1>3 DEF Start
  <2>2. \A v \in Worker : /\ at'[v] # "down" => downFor'[v] = 0
                          /\ beater'[v] # "off" => at'[v] = "calling"
    BY <2>1 DEF Types, SeenWhenUp
  <2>3. seen.age \in Nat /\ seen.by \in Worker \cup {Nobody}
    BY DEF Types
  <2>4. seen.by # Nobody => downFor'[seen.by] <= seen.age
    BY <2>1, <2>3 DEF Types, SeenWhenUp
  <2> QED
    BY <2>1, <2>2, <2>4 DEF SeenWhenUp
<1>4. CASE AnyTick
  <2>1. /\ at' = at /\ beater' = beater
        /\ \A v \in Worker :
             downFor'[v] = IF at[v] = "down" THEN AtMost(downFor[v] + 1, Staleness + 1) ELSE 0
    BY <1>4 DEF AnyTick
  <2>2. seen'.by = seen.by /\ seen'.age = AtMost(seen.age + 1, Staleness + 1)
    BY <1>4 DEF AnyTick, Types
  <2>3. ASSUME seen.by # Nobody PROVE downFor'[seen.by] <= seen'.age
    <3>1. /\ seen.by \in Worker /\ seen.age \in Nat /\ downFor[seen.by] \in Nat
          /\ downFor[seen.by] <= seen.age
      BY <2>3 DEF Types, SeenWhenUp
    <3> QED
      BY <2>1, <2>2, <3>1, Times DEF AtMost
  <2> QED
    BY <2>1, <2>2, <2>3 DEF SeenWhenUp
<1>5. CASE UNCHANGED vars
  BY <1>5 DEF vars, SeenWhenUp
<1> QED
  BY <1>1, <1>2, <1>3, <1>4, <1>5 DEF AnyStep

\* A service whose workers are all gone is not seen in time.
LEMMA SeenWhenUpMeans == Types /\ SeenWhenUp => DeathIsNoticed
<1> SUFFICES ASSUME Types, SeenWhenUp, \A w \in Worker : downFor[w] > Staleness, Healthy
             PROVE  FALSE
  BY DEF DeathIsNoticed
<1>1. seen.by \in Worker /\ seen.age \in Nat /\ downFor[seen.by] \in Nat
  BY DEF Types, Healthy
<1> QED
  BY <1>1, Times DEF SeenWhenUp, Healthy

\* Whatever fails, /ready notices once every worker has been gone for longer
\* than the staleness it allows.
THEOREM DeathsAreNoticed == Spec => []DeathIsNoticed
<1>1. Init => Types /\ SeenWhenUp
  BY InitTypes DEF Init, SeenWhenUp
<1>2. Types /\ SeenWhenUp /\ [Next]_vars => (Types /\ SeenWhenUp)'
  BY StepsAreAny, TypesStep, SeenWhenUpStep
<1> QED
  BY <1>1, <1>2, SeenWhenUpMeans, PTL DEF Spec

-----------------------------------------------------------------------------
(***************************************************************************)
(* The chats: what they wait for, and how long.                            *)
(***************************************************************************)

Under == {"checking", "allowed", "waiting", "sleeping"}

ChatTypes ==
  /\ now \in Nat
  /\ pc \in [Chat -> Under \cup {"idle", "done"}]
  /\ deadline \in [Chat -> Nat] /\ until \in [Chat -> Nat]
  /\ attempt \in [Chat -> 0..MaxRetries] /\ started \in [Chat -> Nat]
  /\ running \in [Chat -> Nat]
  /\ outcome \in [Chat -> Chats!Outcome] /\ ended \in [Chat -> Nat]

\* What a chat waits for lies within its budget; a sleep that ends late is the
\* one thing after which it looks at the clock again.
WaitsFit(c) ==
  /\ pc[c] \in {"waiting", "sleeping"} => until[c] <= deadline[c]
  /\ pc[c] \in {"checking", "allowed"} => until[c] <= deadline[c] + MaxLag
  /\ pc[c] \in Under => now <= until[c] + MaxLag

\* Each request is an attempt, and its thread ends before the next one begins
\* unless the chat is over.
RequestsFit(c) ==
  /\ pc[c] = "idle" => attempt[c] = 0 /\ started[c] = 0 /\ running[c] = 0
  /\ pc[c] \in {"checking", "allowed", "sleeping"} => started[c] = attempt[c] /\ running[c] = 0
  /\ pc[c] = "waiting" => started[c] = attempt[c] + 1 /\ running[c] = 1
  /\ running[c] <= 1 /\ started[c] <= MaxRetries + 1

\* A chat that is not done has no outcome; one that is was either in time or
\* timed out.
OutcomesFit(c) ==
  /\ pc[c] # "done" => outcome[c] = "none"
  /\ outcome[c] \notin {"none", "unavailable"} /\ ended[c] >= deadline[c] =>
       outcome[c] = "timeout"

ChatFits(c) == WaitsFit(c) /\ RequestsFit(c) /\ OutcomesFit(c)

ChatInv == ChatTypes /\ \A c \in Chat : ChatFits(c)

\* A chat none of whose variables change in a step that takes no time stays fit.
LEMMA OthersFit ==
  ASSUME NEW d \in Chat, ChatFits(d), now' = now,
         pc'[d] = pc[d], deadline'[d] = deadline[d], until'[d] = until[d],
         attempt'[d] = attempt[d], started'[d] = started[d], running'[d] = running[d],
         outcome'[d] = outcome[d], ended'[d] = ended[d]
  PROVE  ChatFits(d)'
BY DEF ChatFits, WaitsFit, RequestsFit, OutcomesFit

\* Nothing of a chat but c changes.
Only(c) ==
  \A d \in Chat \ {c} :
    /\ pc'[d] = pc[d] /\ deadline'[d] = deadline[d] /\ until'[d] = until[d]
    /\ attempt'[d] = attempt[d] /\ started'[d] = started[d] /\ running'[d] = running[d]
    /\ outcome'[d] = outcome[d] /\ ended'[d] = ended[d]

\* The step of one chat.
LEMMA OneChat ==
  ASSUME ChatInv, NEW c \in Chat, Only(c), now' = now, ChatTypes', ChatFits(c)'
  PROVE  ChatInv'
BY OthersFit DEF ChatInv, Only

\* What is known of a chat's numbers.
LEMMA ChatNumbers ==
  ASSUME Chats!SettingsAreSound, ChatInv, NEW c \in Chat
  PROVE  /\ now \in Nat /\ deadline[c] \in Nat /\ until[c] \in Nat
         /\ attempt[c] \in Nat /\ attempt[c] <= MaxRetries
         /\ started[c] \in Nat /\ running[c] \in Nat
         /\ MaxRetries \in Nat /\ Timeout \in Nat \ {0} /\ TotalTimeout \in Nat \ {0}
         /\ MaxLag \in Nat /\ Delays \subseteq Nat
BY DEF Chats!SettingsAreSound, ChatInv, ChatTypes

\* The end of a chat that was under way, in time, by the breaker or as a
\* time-out, its thread ended or left behind.
LEMMA FinishFits ==
  ASSUME Chats!SettingsAreSound, ChatInv, NEW c \in Chat, pc[c] \in Under,
         NEW how \in Chats!Outcome \ {"none"}, Chats!Finish(c, how),
         how \in {"unavailable", "timeout"} \/ now < deadline[c],
         \/ UNCHANGED running
         \/ running[c] = 1 /\ running' = [running EXCEPT ![c] = @ - 1]
  PROVE  ChatInv'
<1>1. /\ pc' = [pc EXCEPT ![c] = "done"] /\ outcome' = [outcome EXCEPT ![c] = how]
      /\ ended' = [ended EXCEPT ![c] = now]
      /\ UNCHANGED <<now, deadline, until, attempt, started>>
  BY DEF Chats!Finish
<1>2. /\ pc'[c] = "done" /\ outcome'[c] = how /\ ended'[c] = now
      /\ running'[c] \in {running[c], running[c] - 1} /\ running'[c] \in Nat
  BY <1>1, ChatNumbers DEF ChatInv, ChatTypes
<1>3. Only(c)
  BY <1>1 DEF Only, ChatInv, ChatTypes
<1>4. ChatTypes'
  <2>1. running' \in [Chat -> Nat]
    BY ChatNumbers DEF ChatInv, ChatTypes
  <2> QED
    BY <1>1, <2>1 DEF ChatInv, ChatTypes
<1>5. ChatFits(c)'
  <2>1. RequestsFit(c) /\ now \in Nat /\ deadline[c] \in Nat
    BY ChatNumbers DEF ChatInv, ChatFits
  <2>2. running'[c] <= 1 /\ started'[c] <= MaxRetries + 1
    BY <1>1, <1>2, <2>1, ChatNumbers DEF RequestsFit
  <2>3. WaitsFit(c)' /\ RequestsFit(c)'
    BY <1>2, <2>2 DEF WaitsFit, RequestsFit, Under
  <2>4. OutcomesFit(c)'
    BY <1>1, <1>2, <2>1 DEF OutcomesFit
  <2> QED
    BY <2>3, <2>4 DEF ChatFits
<1> QED
  BY <1>1, <1>3, <1>4, <1>5, OneChat

\* chat is called.
LEMMA BeginFits ==
  ASSUME Chats!SettingsAreSound, ChatInv, NEW c \in Chat, Chats!Begin(c)
  PROVE  ChatInv'
<1>1. /\ pc[c] = "idle" /\ pc' = [pc EXCEPT ![c] = "checking"]
      /\ deadline' = [deadline EXCEPT ![c] = now + TotalTimeout]
      /\ until' = [until EXCEPT ![c] = now]
      /\ UNCHANGED <<now, attempt, started, running, outcome, ended>>
  BY DEF Chats!Begin
<1>2. /\ pc'[c] = "checking" /\ deadline'[c] = now + TotalTimeout /\ until'[c] = now
      /\ Only(c)
  BY <1>1 DEF Only, ChatInv, ChatTypes
<1>3. ChatTypes'
  BY <1>1, ChatNumbers DEF ChatInv, ChatTypes, Under
<1>4. ChatFits(c)'
  BY <1>1, <1>2, ChatNumbers DEF ChatInv, ChatFits, WaitsFit, RequestsFit, OutcomesFit, Under
<1> QED
  BY <1>1, <1>2, <1>3, <1>4, OneChat

\* A request is sent.
LEMMA RequestFits ==
  ASSUME Chats!SettingsAreSound, ChatInv, NEW c \in Chat, pc[c] = "allowed", now < deadline[c],
         pc' = [pc EXCEPT ![c] = "waiting"],
         until' = [until EXCEPT ![c] = now + Chats!AttemptTimeout(c)],
         started' = [started EXCEPT ![c] = @ + 1],
         running' = [running EXCEPT ![c] = @ + 1],
         UNCHANGED <<now, deadline, attempt, outcome, ended>>
  PROVE  ChatInv'
<1>1. /\ Chats!AttemptTimeout(c) \in Nat /\ now + Chats!AttemptTimeout(c) \in Nat
      /\ now + Chats!AttemptTimeout(c) <= deadline[c]
  BY ChatNumbers DEF Chats!AttemptTimeout
<1>2. /\ pc'[c] = "waiting" /\ until'[c] = now + Chats!AttemptTimeout(c)
      /\ started'[c] = started[c] + 1 /\ running'[c] = running[c] + 1
      /\ Only(c)
  BY DEF Only, ChatInv, ChatTypes
<1>3. ChatTypes'
  <2>1. /\ pc' \in [Chat -> Under \cup {"idle", "done"}] /\ until' \in [Chat -> Nat]
        /\ started' \in [Chat -> Nat] /\ running' \in [Chat -> Nat]
    BY <1>1, ChatNumbers DEF ChatInv, ChatTypes, Under
  <2> QED
    BY <2>1 DEF ChatInv, ChatTypes
<1>4. ChatFits(c)'
  <2>1. RequestsFit(c) /\ OutcomesFit(c)
    BY DEF ChatInv, ChatFits
  <2>2. WaitsFit(c)'
    BY <1>1, <1>2, ChatNumbers DEF WaitsFit, Under
  <2>3. RequestsFit(c)'
    BY <1>2, <2>1, ChatNumbers DEF RequestsFit
  <2>4. OutcomesFit(c)'
    BY <1>2, <2>1 DEF OutcomesFit
  <2> QED
    BY <2>2, <2>3, <2>4 DEF ChatFits
<1> QED
  BY <1>2, <1>3, <1>4, OneChat

\* A chat goes to sleep before it tries again.
LEMMA SleepFits ==
  ASSUME Chats!SettingsAreSound, ChatInv, NEW c \in Chat, pc[c] = "waiting", ~Chats!Exhausted(c),
         NEW delay \in Delays, delay < deadline[c] - now,
         pc' = [pc EXCEPT ![c] = "sleeping"],
         until' = [until EXCEPT ![c] = now + delay],
         attempt' = [attempt EXCEPT ![c] = @ + 1],
         running' = [running EXCEPT ![c] = @ - 1],
         UNCHANGED <<now, deadline, started, outcome, ended>>
  PROVE  ChatInv'
<1>1. RequestsFit(c) /\ OutcomesFit(c)
  BY DEF ChatInv, ChatFits
<1>2. /\ delay \in Nat /\ now + delay <= deadline[c] /\ now + delay \in Nat
      /\ attempt[c] + 1 \in 0..MaxRetries /\ running[c] - 1 = 0
  BY <1>1, ChatNumbers DEF Chats!Exhausted, RequestsFit
<1>3. /\ pc'[c] = "sleeping" /\ until'[c] = now + delay
      /\ attempt'[c] = attempt[c] + 1 /\ running'[c] = 0
      /\ Only(c)
  BY <1>2 DEF Only, ChatInv, ChatTypes
<1>4. ChatTypes'
  BY <1>2 DEF ChatInv, ChatTypes, Under
<1>5. ChatFits(c)'
  BY <1>1, <1>2, <1>3, ChatNumbers DEF ChatFits, WaitsFit, RequestsFit, OutcomesFit, Under
<1> QED
  BY <1>3, <1>4, <1>5, OneChat

\* An error worth a retry.
LEMMA TransientFits ==
  ASSUME Chats!SettingsAreSound, ChatInv, NEW c \in Chat, NEW failure, Chats!FailsForNow(c, failure)
  PROVE  ChatInv'
<1>1. /\ pc[c] = "waiting" /\ pc[c] \in Under
      /\ running' = [running EXCEPT ![c] = @ - 1] /\ running[c] = 1
  BY DEF Chats!FailsForNow, Chats!ThreadEnds, ChatInv, ChatFits, RequestsFit, Under
<1>2. ASSUME NEW how \in {"timeout", "failed"}, Chats!Finish(c, how), how = "timeout" \/ ~Chats!Late(c)
      PROVE  ChatInv'
  <2>1. how \in Chats!Outcome \ {"none"} /\ (how \in {"unavailable", "timeout"} \/ now < deadline[c])
    BY <1>2, ChatNumbers DEF Chats!Late, Chats!Outcome
  <2> QED
    BY <1>1, <1>2, <2>1, FinishFits
<1>3. CASE Chats!Late(c) /\ Chats!Finish(c, "timeout")
  BY <1>2, <1>3
<1>4. CASE ~Chats!Late(c) /\ Chats!Finish(c, IF failure = "sdkTimeout" THEN "timeout" ELSE "failed")
  BY <1>2, <1>4
<1>5. CASE ~Chats!Exhausted(c) /\ Chats!SleepBeforeRetry(c)
  <2>1. PICK delay \in Delays :
          \/ Chats!Finish(c, "timeout")
          \/ /\ delay < deadline[c] - now
             /\ pc' = [pc EXCEPT ![c] = "sleeping"]
             /\ until' = [until EXCEPT ![c] = now + delay]
             /\ attempt' = [attempt EXCEPT ![c] = @ + 1]
             /\ UNCHANGED <<now, deadline, started, outcome, ended>>
    BY <1>5 DEF Chats!SleepBeforeRetry
  <2> QED
    BY <1>1, <1>2, <1>5, <2>1, SleepFits
<1> QED
  BY <1>3, <1>4, <1>5 DEF Chats!FailsForNow

\* The other ends of an attempt.
LEMMA EndFits ==
  ASSUME Chats!SettingsAreSound, ChatInv, NEW c \in Chat,
         Chats!Succeeds(c) \/ Chats!FailsForGood(c) \/ Chats!Abandon(c)
  PROVE  ChatInv'
<1>1. /\ pc[c] \in Under /\ running[c] = 1
      /\ running' = [running EXCEPT ![c] = @ - 1] \/ UNCHANGED running
  BY DEF Chats!Succeeds, Chats!FailsForGood, Chats!Abandon, Chats!ThreadEnds, ChatInv, ChatFits,
         RequestsFit, Under
<1>2. PICK how \in Chats!Outcome \ {"none"} : Chats!Finish(c, how) /\ (how = "timeout" \/ ~Chats!Late(c))
  BY DEF Chats!Succeeds, Chats!FailsForGood, Chats!Abandon, Chats!GiveUp, Chats!Outcome
<1>3. how \in {"unavailable", "timeout"} \/ now < deadline[c]
  BY <1>2, ChatNumbers DEF Chats!Late
<1> QED
  BY <1>1, <1>2, <1>3, FinishFits

\* The breaker has answered: the chat is over, or may send a request.
LEMMA AskFits ==
  ASSUME Chats!SettingsAreSound, ChatInv, NEW c \in Chat, Chats!AskBreaker(c)
  PROVE  ChatInv'
<1>1. pc[c] = "checking" /\ pc[c] \in Under /\ UNCHANGED running
  BY DEF Chats!AskBreaker, Under
<1>2. CASE Chats!Finish(c, "unavailable")
  BY <1>1, <1>2, FinishFits DEF Chats!Outcome
<1>3. CASE /\ pc' = [pc EXCEPT ![c] = "allowed"]
           /\ UNCHANGED <<now, deadline, until, attempt, started, outcome, ended>>
  <2>1. pc'[c] = "allowed" /\ Only(c)
    BY <1>1, <1>3 DEF Only, ChatInv, ChatTypes
  <2>2. ChatTypes'
    BY <1>1, <1>3 DEF ChatInv, ChatTypes, Under
  <2>3. ChatFits(c)'
    BY <1>1, <1>3, <2>1 DEF ChatInv, ChatFits, WaitsFit, RequestsFit, OutcomesFit, Under
  <2> QED
    BY <1>3, <2>1, <2>2, <2>3, OneChat
<1> QED
  BY <1>2, <1>3 DEF Chats!AskBreaker

\* It is sent, unless no time is left.
LEMMA SendFits ==
  ASSUME Chats!SettingsAreSound, ChatInv, NEW c \in Chat, Chats!SendRequest(c)
  PROVE  ChatInv'
<1>1. pc[c] = "allowed" /\ pc[c] \in Under
  BY DEF Chats!SendRequest, Under
<1>2. CASE Chats!Finish(c, "timeout") /\ UNCHANGED running
  BY <1>1, <1>2, FinishFits DEF Chats!Outcome
<1> QED
  BY <1>1, <1>2, RequestFits DEF Chats!SendRequest

\* The sleep is over, late by the scheduler's lag at most.
LEMMA WakeFits ==
  ASSUME Chats!SettingsAreSound, ChatInv, NEW c \in Chat, Chats!Wake(c)
  PROVE  ChatInv'
<1>1. /\ pc[c] = "sleeping" /\ pc' = [pc EXCEPT ![c] = "checking"]
      /\ until' = [until EXCEPT ![c] = now]
      /\ UNCHANGED <<now, deadline, attempt, started, running, outcome, ended>>
  BY DEF Chats!Wake
<1>2. pc'[c] = "checking" /\ until'[c] = now /\ Only(c)
  BY <1>1 DEF Only, ChatInv, ChatTypes
<1>3. ChatTypes'
  BY <1>1 DEF ChatInv, ChatTypes, Under
<1>4. ChatFits(c)'
  BY <1>1, <1>2, ChatNumbers DEF ChatInv, ChatFits, WaitsFit, RequestsFit, OutcomesFit, Under
<1> QED
  BY <1>1, <1>2, <1>3, <1>4, OneChat

\* A thread left behind ends after its chat is over.
LEMMA LeftBehindFits ==
  ASSUME Chats!SettingsAreSound, ChatInv, NEW c \in Chat, Chats!AbandonedEnds(c)
  PROVE  ChatInv'
<1>1. /\ pc[c] # "waiting" /\ running[c] > 0
      /\ running' = [running EXCEPT ![c] = @ - 1]
      /\ UNCHANGED <<now, pc, deadline, until, attempt, started, outcome, ended>>
  BY DEF Chats!AbandonedEnds, Chats!ThreadEnds
<1>2. /\ RequestsFit(c) /\ WaitsFit(c) /\ OutcomesFit(c)
  BY DEF ChatInv, ChatFits
<1>3. pc[c] = "done" /\ running'[c] = running[c] - 1 /\ running[c] - 1 \in Nat /\ Only(c)
  BY <1>1, <1>2, ChatNumbers DEF RequestsFit, Only, ChatInv, ChatTypes, Under
<1>4. ChatTypes'
  BY <1>1, <1>3 DEF ChatInv, ChatTypes
<1>5. ChatFits(c)'
  BY <1>1, <1>2, <1>3, ChatNumbers DEF ChatFits, WaitsFit, RequestsFit, OutcomesFit, Under
<1> QED
  BY <1>1, <1>3, <1>4, <1>5, OneChat

\* Time passes no further than the lag of a chat that has something to do.
LEMMA TickFits ==
  ASSUME Chats!SettingsAreSound, ChatInv, Chats!Tick
  PROVE  ChatInv'
<1>1. /\ now' = now + 1 /\ UNCHANGED <<pc, deadline, until, attempt, started, running, outcome, ended>>
      /\ \A c \in Chat : pc[c] \in Under => now < until[c] + MaxLag
  BY DEF Chats!Tick, Chats!Underway, Under
<1>2. ChatTypes'
  BY <1>1 DEF ChatInv, ChatTypes
<1>3. ASSUME NEW c \in Chat PROVE ChatFits(c)'
  BY <1>1, ChatNumbers DEF ChatInv, ChatFits, WaitsFit, RequestsFit, OutcomesFit
<1> QED
  BY <1>2, <1>3 DEF ChatInv

\* Every step keeps every chat within its budget.
LEMMA ChatStep ==
  ASSUME Chats!SettingsAreSound, ChatInv, [Chats!Next]_chats
  PROVE  ChatInv'
<1>1. CASE UNCHANGED chats
  BY <1>1 DEF chats, ChatInv, ChatTypes, ChatFits, WaitsFit, RequestsFit, OutcomesFit
<1> QED
  BY <1>1, BeginFits, AskFits, SendFits, EndFits, TransientFits, WakeFits, LeftBehindFits, TickFits
     DEF Chats!Next

\* What is fit is in time.
LEMMA ChatInvMeans ==
  ASSUME Chats!SettingsAreSound
  PROVE  ChatInv => Chats!OneRequestAtATime /\ Chats!LateResultsAreTimeouts /\ Chats!OverByTheDeadline
<1>1. ChatInv => Chats!OneRequestAtATime /\ Chats!LateResultsAreTimeouts
  BY DEF ChatInv, ChatFits, RequestsFit, OutcomesFit, Chats!OneRequestAtATime,
         Chats!LateResultsAreTimeouts
<1>2. ChatInv => Chats!OverByTheDeadline
  <2> SUFFICES ASSUME ChatInv, NEW c \in Chat, pc[c] \in Under
               PROVE  now <= deadline[c] + 2 * MaxLag
    BY DEF Chats!OverByTheDeadline, Chats!Underway, Under
  <2> QED
    BY ChatNumbers DEF ChatInv, ChatFits, WaitsFit, Under
<1> QED
  BY <1>1, <1>2

-----------------------------------------------------------------------------
(***************************************************************************)
(* The breaker.                                                            *)
(***************************************************************************)

\* What ChatTypes leaves out: the bound of the clock and the breakers.
BreakerTypes ==
  /\ now \in 0..MaxTime
  /\ failures \in [Chat -> Nat] /\ lastFailure \in [Chat -> Nat]

\* What one step does to the breakers: it leaves them alone, or it is a step
\* of the chat that owns the one it changes.
LEMMA BreakerMoves ==
  ASSUME [Chats!Next]_chats
  PROVE  \/ UNCHANGED Chats!breakers /\ (now' = now \/ (now < MaxTime /\ now' = now + 1))
         \/ \E c \in Chat :
              /\ now' = now
              /\ \/ Chats!AskBreaker(c) /\ Chats!Reset(c) /\ UNCHANGED lastFailure
                 \/ pc[c] = "waiting" /\ (Chats!RecordFailure(c) \/ Chats!RecordSuccess(c))
<1>1. ASSUME NEW c \in Chat, Chats!AskBreaker(c)
      PROVE  Chats!Reset(c) /\ UNCHANGED <<now, lastFailure>>
  BY <1>1 DEF Chats!AskBreaker, Chats!Finish
<1>2. ASSUME NEW c \in Chat,
             Chats!Begin(c) \/ Chats!SendRequest(c) \/ Chats!Wake(c) \/ Chats!AbandonedEnds(c)
      PROVE  UNCHANGED <<now, Chats!breakers>>
  BY <1>2 DEF Chats!Begin, Chats!SendRequest, Chats!Finish, Chats!Wake, Chats!AbandonedEnds
<1>3. ASSUME NEW c \in Chat,
             \/ Chats!Succeeds(c) \/ Chats!FailsForGood(c) \/ Chats!Abandon(c)
             \/ \E failure \in Chats!TransientError : Chats!FailsForNow(c, failure)
      PROVE  /\ now' = now /\ pc[c] = "waiting"
             /\ Chats!RecordSuccess(c) \/ Chats!RecordFailure(c) \/ UNCHANGED Chats!breakers
  BY <1>3 DEF Chats!Succeeds, Chats!FailsForGood, Chats!Abandon, Chats!GiveUp,
              Chats!FailsForNow, Chats!SleepBeforeRetry, Chats!Finish
<1>4. CASE Chats!Tick
  BY <1>4 DEF Chats!Tick
<1>5. CASE UNCHANGED chats
  BY <1>5 DEF chats, Chats!breakers
<1> QED
  BY <1>1, <1>2, <1>3, <1>4, <1>5 DEF Chats!Next

\* Breakers count.
LEMMA BreakerTypesStep ==
  ASSUME Chats!SettingsAreSound, BreakerTypes, [Chats!Next]_chats
  PROVE  BreakerTypes'
<1>1. MaxTime \in Nat /\ now \in Nat
  BY DEF Chats!SettingsAreSound, BreakerTypes
<1>2. CASE UNCHANGED Chats!breakers /\ (now' = now \/ (now < MaxTime /\ now' = now + 1))
  BY <1>1, <1>2 DEF BreakerTypes, Chats!breakers
<1>3. ASSUME NEW c \in Chat, now' = now,
             \/ Chats!Reset(c) /\ UNCHANGED lastFailure
             \/ Chats!RecordFailure(c) \/ Chats!RecordSuccess(c)
      PROVE  BreakerTypes'
  BY <1>1, <1>3 DEF BreakerTypes, Chats!Reset, Chats!RecordFailure, Chats!RecordSuccess
<1> QED
  BY <1>2, <1>3, BreakerMoves

\* The breaker of a chat under way knows of no more failures than the chat had
\* attempts, and no chat was refused.
NeverRefused ==
  \A c \in Chat :
    /\ pc[c] # "done" => failures[c] <= attempt[c]
    /\ outcome[c] # "unavailable"

\* With fewer retries than a breaker lets pass, it stays so.
LEMMA NeverRefusedStep ==
  ASSUME Chats!SettingsAreSound, MaxRetries < Threshold, ChatInv, BreakerTypes, NeverRefused,
         [Chats!Next]_chats
  PROVE  NeverRefused'
<1>1. /\ \A c \in Chat : failures[c] \in Nat /\ attempt[c] \in Nat /\ attempt[c] <= MaxRetries
      /\ MaxRetries \in Nat /\ Threshold \in Nat
      /\ failures \in [Chat -> Nat]
  BY ChatNumbers DEF BreakerTypes, Chats!SettingsAreSound
<1>2. ASSUME NEW c \in Chat, Chats!Begin(c) \/ Chats!Wake(c) \/ Chats!AbandonedEnds(c)
      PROVE  NeverRefused'
  BY <1>2 DEF NeverRefused, ChatInv, ChatTypes, Chats!Begin, Chats!Wake, Chats!AbandonedEnds,
              Chats!ThreadEnds, Chats!breakers
<1>3. ASSUME NEW c \in Chat, Chats!AskBreaker(c) PROVE NeverRefused'
  <2>1. ~Chats!IsOpen(c)
    <3>1. failures[c] <= attempt[c]
      BY <1>3 DEF NeverRefused, Chats!AskBreaker
    <3> QED
      BY <1>1, <3>1 DEF Chats!IsOpen
  <2>2. pc' = [pc EXCEPT ![c] = "allowed"] /\ UNCHANGED <<attempt, outcome>> /\ pc[c] = "checking"
    BY <1>3, <2>1 DEF Chats!AskBreaker
  <2>3. \A d \in Chat : failures'[d] = failures[d] \/ (d = c /\ failures'[d] = 0)
    BY <1>1, <1>3 DEF Chats!AskBreaker, Chats!Reset
  <2> QED
    BY <1>1, <2>2, <2>3 DEF NeverRefused, ChatInv, ChatTypes
<1>4. ASSUME NEW c \in Chat, Chats!SendRequest(c) PROVE NeverRefused'
  BY <1>4 DEF NeverRefused, ChatInv, ChatTypes, Chats!SendRequest, Chats!Finish, Chats!breakers
<1>5. ASSUME NEW c \in Chat, NEW how, how # "unavailable", Chats!Finish(c, how),
             \A d \in Chat \ {c} : failures'[d] = failures[d]
      PROVE  NeverRefused'
  BY <1>5 DEF NeverRefused, ChatInv, ChatTypes, Chats!Finish
<1>6. \A c \in Chat :
        \/ Chats!RecordFailure(c) \/ Chats!RecordSuccess(c) \/ UNCHANGED Chats!breakers
        => \A d \in Chat \ {c} : failures'[d] = failures[d]
  BY <1>1 DEF Chats!RecordFailure, Chats!RecordSuccess, Chats!breakers
<1>7. ASSUME NEW c \in Chat, Chats!Succeeds(c) \/ Chats!FailsForGood(c) \/ Chats!Abandon(c)
      PROVE  NeverRefused'
  <2>1. PICK how : how # "unavailable" /\ Chats!Finish(c, how)
    BY <1>7 DEF Chats!Succeeds, Chats!FailsForGood, Chats!Abandon, Chats!GiveUp
  <2>2. Chats!RecordFailure(c) \/ Chats!RecordSuccess(c) \/ UNCHANGED Chats!breakers
    BY <1>7 DEF Chats!Succeeds, Chats!FailsForGood, Chats!Abandon
  <2> QED
    BY <1>5, <1>6, <2>1, <2>2
<1>8. ASSUME NEW c \in Chat, NEW failure, Chats!FailsForNow(c, failure) PROVE NeverRefused'
  <2>1. Chats!RecordFailure(c) /\ pc[c] = "waiting"
    BY <1>8 DEF Chats!FailsForNow
  <2>2. CASE \E how : how # "unavailable" /\ Chats!Finish(c, how)
    BY <1>5, <1>6, <2>1, <2>2
  <2>3. CASE /\ pc' = [pc EXCEPT ![c] = "sleeping"]
             /\ attempt' = [attempt EXCEPT ![c] = @ + 1]
             /\ UNCHANGED outcome
    <3>1. failures' = [failures EXCEPT ![c] = @ + 1]
      BY <2>1 DEF Chats!RecordFailure
    <3>2. \A d \in Chat : failures'[d] <= attempt'[d] \/ (d # c /\ pc[d] = "done")
      BY <1>1, <2>1, <2>3, <3>1 DEF NeverRefused, ChatInv, ChatTypes
    <3> QED
      BY <2>3, <3>2 DEF NeverRefused, ChatInv, ChatTypes
  <2> QED
    BY <1>8, <2>2, <2>3 DEF Chats!FailsForNow, Chats!SleepBeforeRetry
<1>9. CASE UNCHANGED <<pc, attempt, outcome, failures>>
  BY <1>9 DEF NeverRefused
<1> QED
  BY <1>2, <1>3, <1>4, <1>7, <1>8, <1>9 DEF Chats!Next, Chats!Tick, Chats!breakers, chats

\* The two make up TypeOK.
LEMMA TypesMakeTypeOK == ChatInv /\ BreakerTypes => Chats!TypeOK
BY DEF ChatInv, ChatTypes, BreakerTypes, Chats!TypeOK, Chats!Underway, Under

\* At first every chat fits its budget.
LEMMA InitChats ==
  Chats!SettingsAreSound /\ Chats!Init => ChatInv /\ BreakerTypes /\ NeverRefused
<1>1. Chats!SettingsAreSound /\ Chats!Init => ChatInv
  BY DEF Chats!Init, Chats!SettingsAreSound, ChatInv, ChatTypes, ChatFits, WaitsFit, RequestsFit,
         OutcomesFit, Under, Chats!Outcome
<1> QED
  BY <1>1 DEF Chats!Init, Chats!SettingsAreSound, BreakerTypes, NeverRefused

-----------------------------------------------------------------------------
(***************************************************************************)
(* The score of a report: a sum over its findings, which the community     *)
(* modules define by a recursive function on the subsets of a set.         *)
(***************************************************************************)

\* What a finding of a rule weighs.
W(r) == Engine!Weight(SeverityOf[r])

\* The element a sum takes next, the sums g of the subsets of S, and the sum.
Chosen(T) == CHOOSE x \in T : TRUE

SumOf(g, T) == IF T = {} THEN 0 ELSE W(Chosen(T)) + g[T \ {Chosen(T)}]

IsSum(S, g) == g = [T \in SUBSET S |-> SumOf(g, T)]

Total(S) == Engine!MapThenSumSet(LAMBDA r : Engine!Weight(SeverityOf[r]), S)

\* Induction over the naturals, for a set of them.
LEMMA SetInduction ==
  ASSUME NEW S, 0 \in S, \A n \in Nat : n \in S => n + 1 \in S
  PROVE  Nat \subseteq S
<1> DEFINE R == {p \in Nat \X Nat : p[1] < p[2]}
           T == Nat \ S
<1>1. IsWellFoundedOn(R, Nat)
  BY NatLessThanWellFounded DEF OpToRel
<1> HIDE DEF R
<1>2. SUFFICES ASSUME T # {} PROVE FALSE
  OBVIOUS
<1>3. PICK x \in T : \A y \in T : ~ (<<y, x>> \in R)
  BY <1>1, <1>2, WFMin
<1>4. x # 0 /\ x - 1 \in Nat
  BY <1>3
<1>5. x - 1 \in T /\ <<x - 1, x>> \in R
  BY <1>3, <1>4 DEF R
<1> QED
  BY <1>3, <1>5

\* What holds of a set when it holds of its parts holds of every finite set.
LEMMA SubsetInduction ==
  ASSUME NEW S, IsFiniteSet(S), NEW C,
         \A T \in SUBSET S : (\A U \in SUBSET T : U # T => U \in C) => T \in C
  PROVE  SUBSET S \subseteq C
<1> DEFINE Bad == (SUBSET S) \ C
<1>1. SUFFICES ASSUME Bad # {} PROVE FALSE
  OBVIOUS
<1>2. IsWellFoundedOn(StrictSubsetOrdering(S), SUBSET S)
  BY FS_StrictSubsetOrderingWellFounded, FS_FiniteSubsetsOfFinite
<1> DEFINE R == StrictSubsetOrdering(S)
<1>3. Bad \subseteq SUBSET S
  OBVIOUS
<1> HIDE DEF Bad, R
<1>4. PICK T \in Bad : \A U \in Bad : ~ (<<U, T>> \in R)
  BY <1>1, <1>2, <1>3, WFMin DEF R
<1>5. ASSUME NEW U \in SUBSET T, U # T PROVE U \in C
  BY <1>4, <1>5 DEF Bad, R, StrictSubsetOrdering
<1> QED
  BY <1>4, <1>5 DEF Bad

\* The sums of all subsets exist, smaller sets first.
LEMMA SumExists ==
  ASSUME NEW S, IsFiniteSet(S)
  PROVE  \E g : IsSum(S, g)
<1> DEFINE Upto(n, g) == /\ g = [T \in SUBSET S |-> g[T]]
                         /\ \A T \in SUBSET S : Cardinality(T) <= n => g[T] = SumOf(g, T)
           N == {n \in Nat : \E g : Upto(n, g)}
<1>1. 0 \in N
  <2> DEFINE g == [T \in SUBSET S |-> 0]
  <2>1. ASSUME NEW T \in SUBSET S, Cardinality(T) <= 0 PROVE T = {}
    BY <2>1, FS_Subset, FS_EmptySet, FS_CardinalityType
  <2>2. \A T \in SUBSET S : Cardinality(T) <= 0 => g[T] = SumOf(g, T)
    BY <2>1 DEF SumOf
  <2>3. Upto(0, g)
    BY <2>2
  <2> QED
    BY <2>3
<1>2. ASSUME NEW n \in Nat, n \in N PROVE n + 1 \in N
  <2>1. PICK g : Upto(n, g)
    BY <1>2
  <2> DEFINE h == [T \in SUBSET S |-> SumOf(g, T)]
  <2>2. ASSUME NEW T \in SUBSET S, Cardinality(T) <= n + 1 PROVE h[T] = SumOf(h, T)
    <3>1. CASE T = {}
      BY <3>1 DEF SumOf
    <3>2. CASE T # {}
      <4> DEFINE U == T \ {Chosen(T)}
      <4>1. Chosen(T) \in T /\ U \in SUBSET S
        BY <3>2 DEF Chosen
      <4>2. Cardinality(T) \in Nat /\ Cardinality(U) = Cardinality(T) - 1
        BY <4>1, FS_Subset, FS_CardinalityType, FS_RemoveElement
      <4>3. Cardinality(U) <= n
        BY <2>2, <4>2
      <4>4. g[U] = SumOf(g, U)
        BY <2>1, <4>1, <4>3
      <4>5. h[U] = g[U]
        BY <4>1, <4>4
      <4> QED
        BY <4>5 DEF SumOf
    <3> QED
      BY <3>1, <3>2
  <2>3. Upto(n + 1, h)
    BY <2>2
  <2>4. \E e : Upto(n + 1, e)
    BY <2>3
  <2> HIDE DEF Upto
  <2> QED
    BY <2>4
<1> HIDE DEF N
<1>3. Cardinality(S) \in N
  BY <1>1, <1>2, SetInduction, FS_CardinalityType
<1>4. PICK g : Upto(Cardinality(S), g)
  BY <1>3 DEF N
<1>5. \A T \in SUBSET S : Cardinality(T) <= Cardinality(S)
  BY FS_Subset
<1>6. IsSum(S, g)
  BY <1>4, <1>5 DEF IsSum
<1> QED
  BY <1>6

\* Those of a subset are the same whatever set they are computed for.
LEMMA SumsAgree ==
  ASSUME NEW S, IsFiniteSet(S), NEW g, IsSum(S, g), NEW R \in SUBSET S, NEW h, IsSum(R, h)
  PROVE  h[R] = g[R]
<1> DEFINE C == {T \in SUBSET R : h[T] = g[T]}
<1>1. ASSUME NEW T \in SUBSET R, \A U \in SUBSET T : U # T => U \in C PROVE T \in C
  <2>1. g[T] = SumOf(g, T) /\ h[T] = SumOf(h, T)
    BY DEF IsSum
  <2>2. CASE T = {}
    BY <2>1, <2>2 DEF SumOf
  <2>3. CASE T # {}
    <3>1. T \ {Chosen(T)} \in SUBSET T /\ T \ {Chosen(T)} # T
      BY <2>3 DEF Chosen
    <3>2. h[T \ {Chosen(T)}] = g[T \ {Chosen(T)}]
      BY <1>1, <3>1
    <3> QED
      BY <2>1, <3>2 DEF SumOf
  <2> QED
    BY <2>2, <2>3
<1> HIDE DEF C
<1>2. IsFiniteSet(R)
  BY FS_Subset
<1>3. R \in C
  BY <1>1, <1>2, SubsetInduction
<1> QED
  BY <1>3 DEF C

\* Hence a total is computed element by element.
LEMMA TotalBy ==
  ASSUME NEW S, IsFiniteSet(S)
  PROVE  /\ S = {} => Total(S) = 0
         /\ S # {} => /\ Chosen(S) \in S
                      /\ Total(S) = W(Chosen(S)) + Total(S \ {Chosen(S)})
<1>1. ASSUME NEW R PROVE Total(R) = (CHOOSE g : IsSum(R, g))[R]
  BY DEF Total, Engine!MapThenSumSet, Engine!MapThenFoldSet, IsSum, SumOf, Chosen, W
<1> DEFINE g == CHOOSE g : IsSum(S, g)
           R == S \ {Chosen(S)}
           h == CHOOSE h : IsSum(R, h)
<1>2. IsSum(S, g) /\ IsSum(R, h)
  BY SumExists, FS_Subset
<1>3. Total(S) = g[S] /\ Total(R) = h[R]
  BY <1>1
<1>4. R \in SUBSET S
  OBVIOUS
<1> HIDE DEF g, h
<1>5. h[R] = g[R]
  BY <1>2, <1>4, SumsAgree
<1>6. g[S] = SumOf(g, S)
  BY <1>2 DEF IsSum
<1> QED
  BY <1>3, <1>5, <1>6 DEF SumOf, Chosen

\* The element taken first does not matter.
LEMMA TotalWithout ==
  ASSUME NEW S, IsFiniteSet(S), \A r \in S : W(r) \in Nat
  PROVE  Total(S) \in Nat /\ \A d \in S : Total(S) = W(d) + Total(S \ {d})
<1> DEFINE Fine(T) == Total(T) \in Nat /\ \A d \in T : Total(T) = W(d) + Total(T \ {d})
           C == {T \in SUBSET S : Fine(T)}
<1>1. ASSUME NEW T \in SUBSET S, \A U \in SUBSET T : U # T => U \in C PROVE Fine(T)
  <2>1. IsFiniteSet(T)
    BY FS_Subset
  <2>2. CASE T = {}
    <3>1. Total(T) = 0
      BY <2>1, <2>2, TotalBy
    <3> QED
      BY <2>2, <3>1
  <2>3. CASE T # {}
    <3> DEFINE x == Chosen(T)
    <3>1. x \in T /\ Total(T) = W(x) + Total(T \ {x}) /\ W(x) \in Nat
      BY <2>1, <2>3, TotalBy
    <3>2. ASSUME NEW y \in T PROVE Fine(T \ {y})
      <4>1. T \ {y} \in SUBSET T /\ T \ {y} # T
        OBVIOUS
      <4>2. T \ {y} \in C
        BY <1>1, <4>1
      <4> QED
        BY <4>2
    <3>3. Total(T \ {x}) \in Nat
      BY <3>1, <3>2
    <3>4. Total(T) \in Nat
      BY <3>1, <3>3
    <3>5. ASSUME NEW d \in T PROVE Total(T) = W(d) + Total(T \ {d})
      <4>1. CASE d = x
        BY <3>1, <4>1
      <4>2. CASE d # x
        <5>1. d \in T \ {x} /\ x \in T \ {d} /\ W(d) \in Nat
          BY <3>1, <4>2
        <5>2. Total(T \ {x}) = W(d) + Total((T \ {x}) \ {d}) /\ Total(T \ {x}) \in Nat
          BY <3>1, <3>2, <5>1
        <5>3. Total(T \ {d}) = W(x) + Total((T \ {d}) \ {x}) /\ Total(T \ {d}) \in Nat
          BY <3>2, <5>1
        <5>4. (T \ {x}) \ {d} = (T \ {d}) \ {x} /\ (T \ {x}) \ {d} \in SUBSET T
              /\ (T \ {x}) \ {d} # T
          BY <5>1
        <5>5. Total((T \ {x}) \ {d}) \in Nat
          BY <1>1, <5>4
        <5> HIDE DEF x, Fine
        <5> QED
          BY <3>1, <5>1, <5>2, <5>3, <5>4, <5>5
      <4> QED
        BY <4>1, <4>2
    <3> QED
      BY <3>4, <3>5
  <2> QED
    BY <2>2, <2>3
<1>2. \A T \in SUBSET S : (\A U \in SUBSET T : U # T => U \in C) => T \in C
  BY <1>1
<1> HIDE DEF C, Fine
<1>3. S \in C
  BY <1>2, SubsetInduction
<1> QED
  BY <1>3 DEF C, Fine

\* More findings do not score less.
LEMMA TotalGrows ==
  ASSUME NEW S, IsFiniteSet(S), \A r \in S : W(r) \in Nat, NEW A \in SUBSET S
  PROVE  Total(A) <= Total(S)
<1> DEFINE Grows(T) == \A B \in SUBSET T : Total(B) <= Total(T)
           C == {T \in SUBSET S : Grows(T)}
<1>1. ASSUME NEW T \in SUBSET S, \A U \in SUBSET T : U # T => U \in C PROVE Grows(T)
  <2> SUFFICES ASSUME NEW B \in SUBSET T PROVE Total(B) <= Total(T)
    OBVIOUS
  <2>1. IsFiniteSet(T) /\ IsFiniteSet(B)
    BY FS_Subset
  <2>2. Total(T) \in Nat /\ Total(B) \in Nat
    BY <2>1, TotalWithout
  <2>3. CASE B = T
    BY <2>2, <2>3
  <2>4. CASE B # T
    <3>1. PICK d \in T : d \notin B
      BY <2>4
    <3>2. T \ {d} \in SUBSET T /\ T \ {d} # T /\ B \in SUBSET (T \ {d}) /\ W(d) \in Nat
      BY <3>1
    <3>3. Total(B) <= Total(T \ {d})
      BY <1>1, <3>2
    <3>4. Total(T) = W(d) + Total(T \ {d}) /\ Total(T \ {d}) \in Nat
      BY <2>1, <3>2, FS_Subset, TotalWithout
    <3> QED
      BY <2>2, <3>2, <3>3, <3>4
  <2> QED
    BY <2>3, <2>4
<1>2. \A T \in SUBSET S : (\A U \in SUBSET T : U # T => U \in C) => T \in C
  BY <1>1
<1> HIDE DEF C, Grows
<1>3. S \in C
  BY <1>2, SubsetInduction
<1> QED
  BY <1>3 DEF C, Grows

\* There are finitely many rules, all of which have weights.
LEMMA RulesWeigh == IsFiniteSet(Rule) /\ \A r \in Rule : W(r) \in Nat
<1>1. IsFiniteSet(Rule)
  <2> DEFINE S == {i \in 1..Len(Order) : Order[i] \in Rule}
             f == [i \in 1..Len(Order) |-> Order[i]]
  <2>1. Order \in Seq(Rule) /\ \A r \in Rule : \E i \in DOMAIN Order : Order[i] = r
    BY EngineAssumption DEF Engine!OrderIsSound
  <2>2. Len(Order) \in Nat /\ DOMAIN Order = 1..Len(Order)
        /\ \A i \in 1..Len(Order) : Order[i] \in Rule
    BY <2>1
  <2>3. f \in Surjection(1..Len(Order), Rule)
    BY <2>1, <2>2 DEF Surjection
  <2>4. IsFiniteSet(1..Len(Order))
    BY <2>2, FS_Interval
  <2> QED
    BY <2>3, <2>4, FS_Surjection
<1>2. \A s \in Engine!Severity : Engine!Weight(s) \in Nat
  BY DEF Engine!Severity, Engine!Weight
<1>3. SeverityOf \in [Rule -> Engine!Severity]
  BY EngineAssumption DEF Engine!SeveritiesAreSound
<1> QED
  BY <1>1, <1>2, <1>3 DEF W

Results == [Rule -> Engine!RuleStatus]

\* Levels are ordered by their rank.
LEMMA Ranks ==
  /\ Engine!Rank("unknown") = 0 /\ Engine!Rank("low") = 1 /\ Engine!Rank("medium") = 2
  /\ Engine!Rank("high") = 3 /\ Engine!Rank("critical") = 4
BY DEF Engine!Rank

\* A finding has the level of its severity; info is of no level.
LEMMA LevelsOfFindings ==
  ASSUME NEW r \in Rule
  PROVE  Engine!LevelOf(SeverityOf[r]) \in Engine!RiskLevel
<1>1. SeverityOf[r] \in Engine!Severity
  BY EngineAssumption DEF Engine!SeveritiesAreSound
<1> QED
  BY <1>1 DEF Engine!LevelOf, Engine!Severity, Engine!RiskLevel

\* Among some levels one is the highest.
LEMMA HighestLevel ==
  ASSUME NEW L \in SUBSET Engine!RiskLevel, L # {}
  PROVE  \E l \in L : \A k \in L : Engine!Rank(k) <= Engine!Rank(l)
<1>1. \A k \in L : k \in {"unknown", "low", "medium", "high", "critical"}
  BY DEF Engine!RiskLevel
<1>2. CASE "critical" \in L
  BY <1>1, <1>2, Ranks
<1>3. CASE "critical" \notin L /\ "high" \in L
  BY <1>1, <1>3, Ranks
<1>4. CASE "critical" \notin L /\ "high" \notin L /\ "medium" \in L
  BY <1>1, <1>4, Ranks
<1>5. CASE "critical" \notin L /\ "high" \notin L /\ "medium" \notin L /\ "low" \in L
  BY <1>1, <1>5, Ranks
<1>6. CASE L \subseteq {"unknown"}
  <2>1. PICK l \in L : TRUE
    OBVIOUS
  <2>2. \A k \in L : k = l
    BY <1>6, <2>1
  <2>3. l = "unknown"
    BY <1>6, <2>1
  <2>4. \A k \in L : Engine!Rank(k) <= Engine!Rank(l)
    BY <2>2, <2>3, Ranks
  <2> QED
    BY <2>4
<1> QED
  BY <1>1, <1>2, <1>3, <1>4, <1>5, <1>6

\* The worst level is that of a finding, or no level, and no finding's is higher.
LEMMA WorstIsHighest ==
  ASSUME NEW a \in Results
  PROVE  /\ Engine!Worst(a) \in Engine!RiskLevel
         /\ \/ Engine!Worst(a) = "unknown"
            \/ \E r \in Engine!Findings(a) : Engine!Worst(a) = Engine!LevelOf(SeverityOf[r])
         /\ \A r \in Engine!Findings(a) :
              Engine!Rank(Engine!LevelOf(SeverityOf[r])) <= Engine!Rank(Engine!Worst(a))
<1> DEFINE L == {Engine!LevelOf(SeverityOf[r]) : r \in Engine!Findings(a)} \cup {"unknown"}
           w == CHOOSE l \in L : \A k \in L : Engine!Rank(k) <= Engine!Rank(l)
<1>1. Engine!Findings(a) \subseteq Rule
  BY DEF Engine!Findings
<1>2. L \in SUBSET Engine!RiskLevel /\ L # {}
  BY <1>1, LevelsOfFindings DEF Engine!RiskLevel
<1>3. Engine!Worst(a) = w
  BY DEF Engine!Worst
<1>4. \E l \in L : \A k \in L : Engine!Rank(k) <= Engine!Rank(l)
  BY <1>2, HighestLevel
<1>5. w \in L /\ \A k \in L : Engine!Rank(k) <= Engine!Rank(w)
  <2> HIDE DEF L
  <2> QED
    BY <1>4
<1> HIDE DEF w
<1> QED
  BY <1>2, <1>3, <1>5

\* A score that is not less is in no lower band.
LEMMA BandsGrow ==
  ASSUME NEW m \in Nat, NEW n \in Nat, m <= n
  PROVE  /\ Engine!Band(n) \in Engine!RiskLevel /\ Engine!Band(n) # "unknown"
         /\ Engine!Rank(Engine!Band(m)) <= Engine!Rank(Engine!Band(n))
<1> DEFINE InBand(k) == \/ k < 10 /\ Engine!Band(k) = "low"
                        \/ k \in 10..24 /\ Engine!Band(k) = "medium"
                        \/ k \in 25..49 /\ Engine!Band(k) = "high"
                        \/ k > 49 /\ Engine!Band(k) = "critical"
<1>1. ASSUME NEW k \in Nat PROVE InBand(k)
  <2>1. CASE k < 10
    BY <2>1 DEF Engine!Band
  <2>2. CASE k \in 10..24
    BY <2>2 DEF Engine!Band
  <2>3. CASE k \in 25..49
    BY <2>3 DEF Engine!Band
  <2>4. CASE k > 49
    BY <2>4 DEF Engine!Band
  <2> QED
    BY <2>1, <2>2, <2>3, <2>4
<1>2. InBand(m) /\ InBand(n)
  BY <1>1
<1> QED
  BY <1>2, Ranks DEF Engine!RiskLevel

\* What a score and a level are, and that they are no lower when the findings
\* are more.
LEMMA MoreFindings ==
  ASSUME NEW a \in Results, NEW b \in Results, Engine!Findings(a) \subseteq Engine!Findings(b)
  PROVE  /\ Engine!Score(b) \in Nat /\ Engine!Score(a) <= Engine!Score(b)
         /\ Engine!Level(b) \in Engine!RiskLevel
         /\ Engine!Rank(Engine!Level(a)) <= Engine!Rank(Engine!Level(b))
         /\ Engine!Rank(Engine!Worst(b)) <= Engine!Rank(Engine!Level(b))
<1> DEFINE A == Engine!Findings(a)
           B == Engine!Findings(b)
<1>1. IsFiniteSet(B) /\ (\A r \in B : W(r) \in Nat) /\ A \in SUBSET B
      /\ IsFiniteSet(A) /\ (\A r \in A : W(r) \in Nat)
  <2>1. A \subseteq Rule /\ B \subseteq Rule
    BY DEF Engine!Findings
  <2> QED
    BY <2>1, RulesWeigh, FS_Subset
<1>2. Engine!Score(a) = Total(A) /\ Engine!Score(b) = Total(B)
  BY DEF Engine!Score, Total
<1>3. Engine!Score(a) \in Nat /\ Engine!Score(b) \in Nat /\ Engine!Score(a) <= Engine!Score(b)
  <2> HIDE DEF A, B
  <2> QED
    BY <1>1, <1>2, TotalWithout, TotalGrows
<1>4. /\ Engine!Band(Engine!Score(a)) \in Engine!RiskLevel
      /\ Engine!Band(Engine!Score(b)) \in Engine!RiskLevel
      /\ Engine!Rank(Engine!Band(Engine!Score(a))) <= Engine!Rank(Engine!Band(Engine!Score(b)))
  BY <1>3, BandsGrow
<1>5. Engine!Worst(a) \in Engine!RiskLevel /\ Engine!Worst(b) \in Engine!RiskLevel
  BY WorstIsHighest
<1>6. Engine!Rank(Engine!Worst(a)) <= Engine!Rank(Engine!Worst(b))
  <2>1. CASE Engine!Worst(a) = "unknown"
    BY <1>5, <2>1, Ranks DEF Engine!RiskLevel
  <2>2. CASE \E r \in A : Engine!Worst(a) = Engine!LevelOf(SeverityOf[r])
    BY <2>2, WorstIsHighest
  <2> QED
    BY <2>1, <2>2, WorstIsHighest
<1>7. \A l \in Engine!RiskLevel : Engine!Rank(l) \in Nat
  BY Ranks DEF Engine!RiskLevel
<1> QED
  BY <1>3, <1>4, <1>5, <1>6, <1>7 DEF Engine!Level, Engine!Higher

-----------------------------------------------------------------------------
(***************************************************************************)
(* The pipeline.                                                           *)
(***************************************************************************)

\* Rules that raised have had their turn and count as a warning; a report that
\* is given is that of all rules, or says that there is none.
EngineInv ==
  /\ workflow \in {"generate", "optimize"}
  /\ stage \in {"chat", "fields", "bounds", "rules", "returned", "raised"}
  /\ field \in 1..(Len(Engine!Fields(workflow)) + 1)
  /\ stage \in {"chat", "fields"} => field <= Len(Engine!Fields(workflow))
  /\ next \in 1..(Len(Order) + 1)
  /\ res \in Results
  /\ raised \subseteq Rule
  /\ \A r \in raised : res[r] = "warning" /\ \E i \in 1..(next - 1) : Order[i] = r
  /\ stage # "returned" => report = Engine!NoReport
  /\ stage = "returned" => \/ report = Engine!Unavailable
                           \/ next = Len(Order) + 1 /\ report = Engine!Report(res, raised)

\* The rules have turns of their own.
LEMMA Turns ==
  /\ Len(Order) \in Nat
  /\ \A i \in 1..Len(Order) : Order[i] \in Rule
  /\ \A i, j \in 1..Len(Order) : Order[i] = Order[j] => i = j
<1>1. Order \in Seq(Rule)
  BY EngineAssumption DEF Engine!OrderIsSound
<1>2. Len(Order) \in Nat /\ DOMAIN Order = 1..Len(Order)
  BY <1>1
<1> QED
  BY <1>1, <1>2, EngineAssumption DEF Engine!OrderIsSound

\* A workflow reads some fields.
LEMMA SomeFields == Len(Engine!Fields(workflow)) \in Nat \ {0}
BY DEF Engine!Fields

\* A rule that had no turn yet answers or raises.
LEMMA TurnKeeps ==
  ASSUME EngineInv, stage = "rules", next <= Len(Order),
         NEW status \in Engine!RuleStatus, res' = [res EXCEPT ![Order[next]] = status],
         \/ raised' = raised
         \/ raised' = raised \cup {Order[next]} /\ status = "warning",
         next' = next + 1,
         UNCHANGED <<workflow, stage, field, report, error>>
  PROVE  EngineInv'
<1>1. next \in 1..Len(Order) /\ Order[next] \in Rule /\ res \in Results /\ raised \subseteq Rule
      /\ next' \in 1..(Len(Order) + 1)
  BY Turns DEF EngineInv
<1>2. res' \in Results /\ raised' \subseteq Rule
  BY <1>1 DEF Results
<1>3. ASSUME NEW r \in raised
      PROVE  res'[r] = "warning" /\ \E i \in 1..(next' - 1) : Order[i] = r
  <2>1. PICK i \in 1..(next - 1) : Order[i] = r
    BY DEF EngineInv
  <2>2. i \in 1..Len(Order) /\ i # next /\ i \in 1..(next' - 1)
    BY <1>1, <2>1
  <2>3. r # Order[next]
    BY <1>1, <2>1, <2>2, Turns
  <2>4. res'[r] = res[r] /\ res[r] = "warning"
    BY <1>1, <2>3 DEF EngineInv, Results
  <2> QED
    BY <2>1, <2>2, <2>4
<1>4. status = "warning" =>
        res'[Order[next]] = "warning" /\ \E i \in 1..(next' - 1) : Order[i] = Order[next]
  <2>1. next \in 1..(next' - 1)
    BY <1>1
  <2> QED
    BY <1>1, <2>1 DEF Results
<1>5. \A r \in raised' : res'[r] = "warning" /\ \E i \in 1..(next' - 1) : Order[i] = r
  BY <1>3, <1>4
<1> QED
  BY <1>1, <1>2, <1>5 DEF EngineInv

\* Every step of the pipeline.
LEMMA EngineStep ==
  ASSUME EngineInv, [Engine!Next]_engine
  PROVE  EngineInv'
<1>1. CASE Engine!Ask
  BY <1>1 DEF Engine!Ask, Engine!Raise, EngineInv
<1>2. CASE Engine!ReadField
  BY <1>2, SomeFields DEF Engine!ReadField, Engine!Raise, EngineInv
<1>3. CASE Engine!BuildResponse
  BY <1>3 DEF Engine!BuildResponse, Engine!Raise, EngineInv
<1>4. CASE Engine!RunRule
  <2>1. PICK status \in Engine!RuleStatus : res' = [res EXCEPT ![Order[next]] = status]
    BY <1>4 DEF Engine!RunRule
  <2>2. /\ stage = "rules" /\ next <= Len(Order) /\ next' = next + 1
        /\ UNCHANGED <<workflow, stage, field, raised, report, error>>
    BY <1>4 DEF Engine!RunRule
  <2> QED
    BY <2>1, <2>2, TurnKeeps
<1>5. CASE Engine!RuleRaises
  <2>1. "warning" \in Engine!RuleStatus
    BY DEF Engine!RuleStatus
  <2>2. /\ stage = "rules" /\ next <= Len(Order) /\ next' = next + 1
        /\ res' = [res EXCEPT ![Order[next]] = "warning"] /\ raised' = raised \cup {Order[next]}
        /\ UNCHANGED <<workflow, stage, field, report, error>>
    BY <1>5 DEF Engine!RuleRaises, Engine!ErrorResult
  <2> QED
    BY <2>1, <2>2, TurnKeeps
<1>6. CASE Engine!BuildReport
  <2>1. /\ stage = "rules" /\ next > Len(Order) /\ report' = Engine!Report(res, raised)
        /\ stage' = "returned" /\ UNCHANGED <<workflow, field, next, res, raised, error>>
    BY <1>6 DEF Engine!BuildReport, Engine!Return
  <2>2. next = Len(Order) + 1
    BY <2>1, Turns DEF EngineInv
  <2>3. report' = Engine!Report(res', raised')
    BY <2>1
  <2> HIDE DEF Engine!Report
  <2> QED
    BY <2>1, <2>2, <2>3 DEF EngineInv
<1>7. CASE Engine!EngineFails
  BY <1>7 DEF Engine!EngineFails, Engine!EngineErrorCaught, Engine!Return, EngineInv
<1>8. CASE UNCHANGED engine
  BY <1>8 DEF engine, EngineInv, Engine!Report
<1> QED
  BY <1>1, <1>2, <1>3, <1>4, <1>5, <1>6, <1>7, <1>8 DEF Engine!Next

\* At first nothing was read or judged.
LEMMA InitEngine == Engine!Init => EngineInv
BY SomeFields, Turns DEF Engine!Init, EngineInv, Results, Engine!RuleStatus

\* What a report says of results.
LEMMA ReportSays ==
  ASSUME NEW a \in Results, NEW R \in SUBSET Rule
  PROVE  LET p == Engine!Report(a, R) IN
         /\ p.status \in {"complete", "partial", "insufficient_data"}
         /\ p.status = "insufficient_data" <=> Engine!Applicable(a) = {}
         /\ p.status = "complete" => R = {}
         /\ p.level = IF p.status = "insufficient_data" THEN "unknown" ELSE Engine!Level(a)
         /\ p.score = Engine!Score(a)
         /\ p.critical \in 0..Engine!Cardinality(Rule)
         /\ p.critical = 0 => Engine!Critical(a) = {}
         /\ p \in [status : {"complete", "partial", "insufficient_data"}, level : Engine!RiskLevel,
                   score : Nat, critical : 0..Engine!Cardinality(Rule)]
<1> DEFINE p == Engine!Report(a, R)
           status == IF Engine!Applicable(a) # {} THEN Engine!Execution(R) ELSE "insufficient_data"
           level == IF Engine!Applicable(a) # {} THEN Engine!Level(a) ELSE "unknown"
           count == Engine!Cardinality(Engine!Critical(a))
<1>1. p = [status |-> status, level |-> level, score |-> Engine!Score(a), critical |-> count]
  BY DEF Engine!Report
<1>2. Engine!Execution(R) = IF R = {} THEN "complete" ELSE "partial"
  BY DEF Engine!Execution
<1>3. Engine!Level(a) \in Engine!RiskLevel /\ Engine!Score(a) \in Nat
  BY MoreFindings
<1>4. \A S : Engine!Cardinality(S) = Cardinality(S)
  BY DEF Engine!Cardinality, Cardinality, Engine!IsFiniteSet, IsFiniteSet
<1>5. Engine!Critical(a) \in SUBSET Rule
  BY DEF Engine!Critical, Engine!Findings
<1>6. count \in 0..Engine!Cardinality(Rule) /\ (count = 0 => Engine!Critical(a) = {})
  BY <1>4, <1>5, RulesWeigh, FS_Subset, FS_CardinalityType, FS_EmptySet
<1>7. level \in Engine!RiskLevel /\ status \in {"complete", "partial", "insufficient_data"}
      /\ (status = "insufficient_data" <=> Engine!Applicable(a) = {})
      /\ (status = "complete" => R = {})
      /\ level = IF status = "insufficient_data" THEN "unknown" ELSE Engine!Level(a)
  BY <1>2, <1>3 DEF Engine!RiskLevel
<1> HIDE DEF p, status, level, count
<1>8. p.status = status /\ p.level = level /\ p.score = Engine!Score(a) /\ p.critical = count
  BY <1>1
<1>9. p \in [status : {"complete", "partial", "insufficient_data"}, level : Engine!RiskLevel,
             score : Nat, critical : 0..Engine!Cardinality(Rule)]
  BY <1>1, <1>3, <1>6, <1>7
<1>10. /\ p.status \in {"complete", "partial", "insufficient_data"}
       /\ p.status = "insufficient_data" <=> Engine!Applicable(a) = {}
       /\ p.status = "complete" => R = {}
       /\ p.level = IF p.status = "insufficient_data" THEN "unknown" ELSE Engine!Level(a)
       /\ p.score = Engine!Score(a)
       /\ p.critical \in 0..Engine!Cardinality(Rule)
       /\ p.critical = 0 => Engine!Critical(a) = {}
  BY <1>6, <1>7, <1>8
<1> QED
  BY <1>9, <1>10 DEF p

\* A report that there is none.
LEMMA NoneAvailable ==
  /\ Engine!Unavailable.status = "unavailable" /\ Engine!Unavailable.level = "unknown"
  /\ Engine!NoReport.status = "none"
BY DEF Engine!Unavailable, Engine!NoReport

\* A plan that is returned has the report of all its rules, or none.
LEMMA Reported ==
  ASSUME EngineInv, stage = "returned", report.status # "unavailable"
  PROVE  next = Len(Order) + 1 /\ report = Engine!Report(res, raised)
BY NoneAvailable DEF EngineInv

\* The types follow.
LEMMA EngineTypes == EngineInv => Engine!TypeOK
<1> SUFFICES ASSUME EngineInv PROVE Engine!TypeOK
  OBVIOUS
<1> DEFINE Reports == [status : {"none", "complete", "partial", "unavailable", "insufficient_data"},
                       level : Engine!RiskLevel, score : Nat,
                       critical : 0..Engine!Cardinality(Rule)]
<1>1. Engine!Cardinality(Rule) \in Nat
  <2>1. Engine!Cardinality(Rule) = Cardinality(Rule)
    BY DEF Engine!Cardinality, Cardinality, Engine!IsFiniteSet, IsFiniteSet
  <2> QED
    BY <2>1, RulesWeigh, FS_CardinalityType
<1>2. Engine!NoReport \in Reports /\ Engine!Unavailable \in Reports
  BY <1>1 DEF Engine!NoReport, Engine!Unavailable, Engine!RiskLevel
<1>3. res \in Results /\ raised \in SUBSET Rule
  BY DEF EngineInv
<1>4. Engine!Report(res, raised) \in Reports
  BY <1>3, ReportSays
<1>5. report \in Reports
  BY <1>2, <1>4 DEF EngineInv
<1> QED
  BY <1>5 DEF EngineInv, Engine!TypeOK, Results

\* No finding is above the level of the report.
LEMMA EngineLevels == EngineInv => Engine!LevelCoversFindings
<1> SUFFICES ASSUME EngineInv, stage = "returned" PROVE Engine!LevelCoversFindings
  BY DEF Engine!LevelCoversFindings, Engine!Returned
<1>1. CASE report = Engine!Unavailable
  BY <1>1, NoneAvailable DEF Engine!LevelCoversFindings
<1>2. CASE report = Engine!Report(res, raised)
  <2>1. res \in Results /\ raised \in SUBSET Rule
    BY DEF EngineInv
  <2>2. /\ report.status \in {"complete", "partial", "insufficient_data"}
        /\ report.level = IF report.status = "insufficient_data" THEN "unknown"
                          ELSE Engine!Level(res)
    BY <1>2, <2>1, ReportSays
  <2>3. ASSUME NEW r \in Engine!Findings(res)
        PROVE  Engine!Rank(Engine!Level(res)) >= Engine!Rank(Engine!LevelOf(SeverityOf[r]))
    <3>1. /\ Engine!Rank(Engine!LevelOf(SeverityOf[r])) <= Engine!Rank(Engine!Worst(res))
          /\ Engine!Worst(res) \in Engine!RiskLevel
      BY <2>1, WorstIsHighest
    <3>2. /\ Engine!Rank(Engine!Worst(res)) <= Engine!Rank(Engine!Level(res))
          /\ Engine!Level(res) \in Engine!RiskLevel
      BY <2>1, MoreFindings
    <3>3. r \in Rule
      BY DEF Engine!Findings
    <3>4. Engine!LevelOf(SeverityOf[r]) \in Engine!RiskLevel
      BY <3>3, LevelsOfFindings
    <3>5. \A l \in Engine!RiskLevel : Engine!Rank(l) \in Nat
      BY Ranks DEF Engine!RiskLevel
    <3> QED
      BY <3>1, <3>2, <3>4, <3>5
  <2> QED
    BY <2>2, <2>3 DEF Engine!LevelCoversFindings
<1> QED
  BY <1>1, <1>2 DEF EngineInv

\* Whoever needs no review was judged by every rule.
LEMMA EngineGate == EngineInv => Engine!OpenGateMeansChecked
<1> SUFFICES ASSUME EngineInv, stage = "returned", Engine!GateOpen(report)
             PROVE  /\ next = Len(Order) + 1 /\ raised = {}
                    /\ Engine!Applicable(res) # {} /\ Engine!Critical(res) = {}
  BY DEF Engine!OpenGateMeansChecked, Engine!Returned
<1>1. report.status = "complete" /\ report.critical = 0
  BY DEF Engine!GateOpen
<1>2. next = Len(Order) + 1 /\ report = Engine!Report(res, raised)
  BY <1>1, Reported
<1>3. res \in Results /\ raised \in SUBSET Rule
  BY DEF EngineInv
<1> QED
  BY <1>1, <1>2, <1>3, ReportSays

\* A rule that raised counts as much as any answer it could have given.
LEMMA EngineFailures == EngineInv => Engine!FailureHidesNothing
<1> SUFFICES ASSUME EngineInv, stage = "returned", report.status = "partial",
                    NEW r \in raised, NEW status \in Engine!RuleStatus
             PROVE  LET other == [res EXCEPT ![r] = status] IN
                    /\ Engine!Rank(Engine!Level(other)) <= Engine!Rank(report.level)
                    /\ Engine!Score(other) <= report.score
  BY DEF Engine!FailureHidesNothing, Engine!Returned
<1> DEFINE other == [res EXCEPT ![r] = status]
<1>1. res \in Results /\ raised \in SUBSET Rule /\ res[r] = "warning"
  BY DEF EngineInv
<1>2. report = Engine!Report(res, raised)
  BY Reported
<1>3. report.level = Engine!Level(res) /\ report.score = Engine!Score(res)
  BY <1>1, <1>2, ReportSays
<1>4. other \in Results
  BY <1>1 DEF Results
<1>5. Engine!Findings(other) \subseteq Engine!Findings(res)
  BY <1>1 DEF Engine!Findings, Results
<1> HIDE DEF other
<1>6. /\ Engine!Rank(Engine!Level(other)) <= Engine!Rank(report.level)
      /\ Engine!Score(other) <= report.score
  BY <1>1, <1>3, <1>4, <1>5, MoreFindings
<1> QED
  BY <1>6 DEF other

-----------------------------------------------------------------------------
(***************************************************************************)
(* The process of a worker.                                                *)
(***************************************************************************)

\* A step of the process is one of its part, or none of it.
LEMMA PartSteps ==
  ASSUME [MCNext]_all
  PROVE  /\ part' = part
         /\ part = "beats" => [Next]_vars
         /\ part \in {"beats", "faulty"} => [AnyStep]_vars
         /\ part = "chats" => [Chats!Next]_chats
         /\ part = "workflow" => [Engine!Next]_engine
<1>1. CASE MCNext
  BY <1>1, StepsAreAny, FaultyStepsAreAny DEF MCNext
<1>2. CASE UNCHANGED all
  BY <1>2 DEF all
<1> QED
  BY <1>1, <1>2

\* While a worker waits for the model its job is its own and the lease of it
\* lives, as long as no beat fails: nobody else runs the job meanwhile.
THEOREM LeasesAreKept ==
  ASSUME ~DbFails, Lease > 1
  PROVE  MCSpec => []LeaseIsKept
<1> DEFINE Inv == part = "beats" => Types /\ Renewing
<1>1. MCInit => Inv
  BY InitTypes DEF MCInit, Init, Renewing
<1>2. Inv /\ [MCNext]_all => Inv'
  BY PartSteps, StepsAreAny, TypesStep, RenewingStep
<1>3. Inv => LeaseIsKept
  BY DEF Types, Renewing, LeaseIsRenewed, LeaseIsKept
<1> QED
  BY <1>1, <1>2, <1>3, PTL DEF MCSpec

\* The bounds of TypeOK, which the code's arithmetic keeps.
Bounds ==
  /\ \A w \in Worker : /\ wait[w] <= AtLeast(MaxCall, LoopSleep)
                       /\ beatIn[w] <= BeatCap /\ lease[w] <= Lease
                       /\ downFor[w] <= Staleness + 1
  /\ seen.age <= Staleness + 1

\* The two make up TypeOK.
LEMMA TypesAndBounds == Types /\ Bounds => TypeOK
<1> SUFFICES ASSUME Types, Bounds PROVE TypeOK
  OBVIOUS
<1>1. AtLeast(MaxCall, LoopSleep) \in Nat /\ BeatCap \in Nat /\ Lease \in Nat /\ Staleness + 1 \in Nat
  BY TimesAssumption DEF AtLeast
<1>2. /\ \A w \in Worker : /\ wait[w] \in 0..AtLeast(MaxCall, LoopSleep)
                           /\ beatIn[w] \in 0..BeatCap /\ lease[w] \in 0..Lease
                           /\ downFor[w] \in 0..(Staleness + 1)
      /\ seen.age \in 0..(Staleness + 1) /\ seen.by \in Worker \cup {Nobody}
  BY <1>1 DEF Types, Bounds
<1>3. seen \in [by : Worker \cup {Nobody}, age : 0..(Staleness + 1)]
  BY <1>2 DEF Types
<1> QED
  BY <1>2, <1>3 DEF Types, TypeOK

\* The pause between beats has a bound.
LEMMA IntervalIsBounded == Interval \in 0..BeatCap
<1>1. BeatCap \in Nat \ {0} /\ Lease \in Nat
  BY TimesAssumption
<1>2. Lease \div 3 \in Nat
  BY <1>1
<1> QED
  BY <1>1, <1>2 DEF Interval, AtLeast, AtMost

\* Every step keeps the bounds.
LEMMA BoundsStep ==
  ASSUME Types, Bounds, [AnyStep]_vars
  PROVE  Bounds'
<1>1. /\ MaxCall \in Nat /\ LoopSleep \in Nat /\ BeatCap \in Nat /\ Lease \in Nat /\ Staleness \in Nat
      /\ AtLeast(MaxCall, LoopSleep) \in Nat
      /\ MaxCall <= AtLeast(MaxCall, LoopSleep) /\ LoopSleep <= AtLeast(MaxCall, LoopSleep)
      /\ Interval \in 0..BeatCap
  BY TimesAssumption, IntervalIsBounded DEF AtLeast
<1>2. \A w \in Worker :
        /\ wait[w] \in Nat /\ wait[w] <= AtLeast(MaxCall, LoopSleep)
        /\ beatIn[w] \in Nat /\ beatIn[w] <= BeatCap
        /\ lease[w] \in Nat /\ lease[w] <= Lease
        /\ downFor[w] \in Nat /\ downFor[w] <= Staleness + 1
  BY DEF Types, Bounds
<1>3. seen.age \in Nat /\ seen.age <= Staleness + 1
  BY DEF Types, Bounds
<1> DEFINE maximum == AtLeast(MaxCall, LoopSleep)
<1>4. maximum \in Nat /\ MaxCall <= maximum /\ LoopSleep <= maximum
  BY <1>1
<1>5. \A w \in Worker : wait[w] <= maximum
  BY <1>2
<1> HIDE DEF maximum
<1>6. ASSUME NEW w \in Worker,
             \/ Start(w) \/ FindNothing(w) \/ ClaimJob(w) \/ WakeUp(w) \/ CallReturns(w) \/ Die(w)
             \/ Beat(w) \/ AnyFailure(w)
      PROVE  /\ \A v \in Worker : /\ wait'[v] \in {wait[v], 0, LoopSleep} \cup 1..MaxCall
                                  /\ beatIn'[v] \in {beatIn[v], 0, Interval}
                                  /\ lease'[v] \in {lease[v], 0, Lease}
                                  /\ downFor'[v] \in {downFor[v], 0}
             /\ seen'.age \in {seen.age, 0}
  <2> USE DEF Types, RecordHeartbeat, BeatsFirst
  <2>1. CASE Start(w)
    BY <2>1 DEF Start
  <2>2. CASE FindNothing(w)
    BY <2>2 DEF FindNothing
  <2>3. CASE ClaimJob(w)
    BY <2>3 DEF ClaimJob
  <2>4. CASE WakeUp(w) \/ CallReturns(w) \/ Die(w)
    BY <2>4 DEF WakeUp, CallReturns, Die
  <2>5. CASE Beat(w)
    BY <2>5 DEF Beat
  <2>6. CASE AnyFailure(w)
    BY <2>6 DEF AnyFailure
  <2> QED
    BY <1>6, <2>1, <2>2, <2>3, <2>4, <2>5, <2>6
<1>7. ASSUME NEW w \in Worker,
             \/ Start(w) \/ FindNothing(w) \/ ClaimJob(w) \/ WakeUp(w) \/ CallReturns(w) \/ Die(w)
             \/ Beat(w) \/ AnyFailure(w)
      PROVE  Bounds'
  <2>1. \A v \in Worker : /\ wait'[v] <= maximum
                          /\ beatIn'[v] <= BeatCap /\ lease'[v] <= Lease
                          /\ downFor'[v] <= Staleness + 1
    <3> HIDE <1>7
    <3> SUFFICES ASSUME NEW v \in Worker
                 PROVE  /\ wait'[v] <= maximum
                        /\ beatIn'[v] <= BeatCap /\ lease'[v] <= Lease
                        /\ downFor'[v] <= Staleness + 1
      OBVIOUS
    <3>1. /\ wait'[v] \in {wait[v], 0, LoopSleep} \cup 1..MaxCall
          /\ beatIn'[v] \in {beatIn[v], 0, Interval}
          /\ lease'[v] \in {lease[v], 0, Lease}
          /\ downFor'[v] \in {downFor[v], 0}
      BY <1>6, <1>7
    <3>2. /\ wait[v] \in Nat /\ wait[v] <= maximum /\ beatIn[v] <= BeatCap
          /\ lease[v] <= Lease /\ downFor[v] <= Staleness + 1
      BY <1>2, <1>5
    <3> QED
      BY <1>1, <1>4, <3>1, <3>2
  <2>2. seen'.age <= Staleness + 1
    BY <1>1, <1>3, <1>6, <1>7
  <2> QED
    BY <2>1, <2>2 DEF Bounds, maximum
<1>8. CASE AnyTick
  <2>1. \A v \in Worker : /\ wait'[v] = Down(wait[v]) /\ beatIn'[v] = Down(beatIn[v])
                          /\ lease'[v] = Down(lease[v])
                          /\ downFor'[v] \in {AtMost(downFor[v] + 1, Staleness + 1), 0}
    BY <1>8 DEF AnyTick
  <2>2. seen'.age = AtMost(seen.age + 1, Staleness + 1)
    BY <1>8 DEF AnyTick, Types
  <2>3. \A n \in Nat : Down(n) <= n /\ AtMost(n + 1, Staleness + 1) <= Staleness + 1
    BY <1>1 DEF Down, AtLeast, AtMost
  <2>4. \A n, m \in Nat : n <= m => Down(n) <= m
    BY DEF Down, AtLeast
  <2>5. \A v \in Worker : /\ wait'[v] <= maximum
                          /\ beatIn'[v] <= BeatCap /\ lease'[v] <= Lease
                          /\ downFor'[v] <= Staleness + 1
    BY <1>1, <1>2, <1>4, <1>5, <2>1, <2>3, <2>4
  <2> QED
    BY <1>3, <2>2, <2>3, <2>5 DEF Bounds, maximum
<1>9. CASE UNCHANGED vars
  BY <1>9 DEF vars, Bounds
<1> QED
  BY <1>7, <1>8, <1>9 DEF AnyStep

\* They hold at first.
LEMMA InitBounds == Init => Bounds
BY TimesAssumption DEF Init, Bounds, AtLeast

\* With a staleness that covers the pause of the loop and the interval of the
\* beats, /ready complains only when no worker is up but those that start, or
\* whose heartbeat is late or gone in a long call, heartbeats that hang or fail
\* included; and it notices when the last worker is gone.
THEOREM ReadyTellsTheTruth ==
  ASSUME LoopSleep <= Staleness, Interval <= Staleness
  PROVE  MCSpec => []NoFalseAlarms
<1> DEFINE Inv == part \in {"beats", "faulty"} => Types /\ Bounds /\ SeenInTime /\ SeenWhenUp
<1>1. MCInit => Inv
  BY InitTypes, InitBounds DEF MCInit, Init, SeenInTime, SeenWhenUp
<1>2. Inv /\ [MCNext]_all => Inv'
  BY PartSteps, TypesStep, BoundsStep, SeenInTimeStep, SeenWhenUpStep
<1>3. Types /\ SeenInTime => NoFalseAlarm
  BY SeenInTimeMeans
<1>4. Faulty!NoFalseAlarm <=> NoFalseAlarm
  BY DEF Faulty!NoFalseAlarm, NoFalseAlarm, Faulty!Healthy, Healthy
<1>5. Types /\ SeenWhenUp => DeathIsNoticed
  BY SeenWhenUpMeans
<1>6. Inv => NoFalseAlarms
  BY <1>3, <1>4, <1>5, TypesAndBounds DEF NoFalseAlarms
<1> QED
  BY <1>1, <1>2, <1>6, PTL DEF MCSpec

\* The chats of a worker keep to their budget, whatever the service does and
\* however their threads, sleeps and time-outs add up.
THEOREM WorkerChatsFitTheirBudget == MCSpec => []ChatsKeepTheirBudget
<1> DEFINE Inv == part = "chats" => ChatInv /\ BreakerTypes
<1>1. MCInit => Inv
  BY ChatsAssumption, InitChats DEF MCInit
<1>2. Inv /\ [MCNext]_all => Inv'
  BY PartSteps, ChatsAssumption, ChatStep, BreakerTypesStep
<1>3. Inv => ChatsKeepTheirBudget
  BY TypesMakeTypeOK, ChatInvMeans, ChatsAssumption DEF ChatsKeepTheirBudget
<1> QED
  BY <1>1, <1>2, <1>3, PTL DEF MCSpec

\* A breaker that lets more failures pass than a chat has retries, as with the
\* defaults (three and two), never refuses the one chat that uses it: as the
\* clients are built, failures of a model service stop no call.
THEOREM BreakersRefuseNobody ==
  ASSUME MaxRetries < Threshold
  PROVE  MCSpec => [](part = "chats" => \A c \in Chat : outcome[c] # "unavailable")
<1> DEFINE Inv == part = "chats" => ChatInv /\ BreakerTypes /\ NeverRefused
<1>1. MCInit => Inv
  BY ChatsAssumption, InitChats DEF MCInit
<1>2. Inv /\ [MCNext]_all => Inv'
  BY PartSteps, ChatsAssumption, ChatStep, BreakerTypesStep, NeverRefusedStep
<1>3. Inv => (part = "chats" => \A c \in Chat : outcome[c] # "unavailable")
  BY DEF NeverRefused
<1> QED
  BY <1>1, <1>2, <1>3, PTL DEF MCSpec

\* The level of a report is not lower than that of any finding, whatever rules
\* there are and whichever of them raise; none that could not be assessed is low.
THEOREM FindingsAreCovered == MCSpec => []LevelsCoverFindings
<1> DEFINE Inv == part = "workflow" => EngineInv
<1>1. MCInit => Inv
  BY InitEngine DEF MCInit
<1>2. Inv /\ [MCNext]_all => Inv'
  BY PartSteps, EngineStep
<1>3. Inv => LevelsCoverFindings
  BY EngineLevels DEF LevelsCoverFindings
<1> QED
  BY <1>1, <1>2, <1>3, PTL DEF MCSpec

\* A rule that raises never makes a plan look better, and a plan that needs no
\* review was judged by every rule.
THEOREM FailuresShow == MCSpec => []FailuresHideNothing
<1> DEFINE Inv == part = "workflow" => EngineInv
<1>1. MCInit => Inv
  BY InitEngine DEF MCInit
<1>2. Inv /\ [MCNext]_all => Inv'
  BY PartSteps, EngineStep
<1>3. Inv => FailuresHideNothing
  BY EngineTypes, EngineGate, EngineFailures DEF FailuresHideNothing
<1> QED
  BY <1>1, <1>2, <1>3, PTL DEF MCSpec

-----------------------------------------------------------------------------
(***************************************************************************)
(* Reading a sentence: the loop over its clauses, a fold, which the        *)
(* community modules define by a recursive function on the subsets of the  *)
(* positions in the sentence.                                              *)
(***************************************************************************)

\* The position a fold takes last, what has been read of the positions T when
\* g tells it for the smaller sets, and g doing so for all subsets of D.
Nearest(T) == CHOOSE x \in T : \A y \in T : x >= y

Unread(kinds) == [current |-> Scopes!UniqueOwner(kinds), got |-> [d \in Device |-> {}]]

ReadTo(g, s, kinds, T) ==
  IF T = {} THEN Unread(kinds)
  ELSE Scopes!ReadClause(g[T \ {Nearest(T)}], s[Nearest(T)], kinds)

IsReading(g, s, kinds, D) == g = [T \in SUBSET D |-> ReadTo(g, s, kinds, T)]

LEMMA NearestIsLast ==
  ASSUME NEW n \in Nat, NEW T \in SUBSET (1..n), n \in T
  PROVE  Nearest(T) = n
<1>1. \A y \in T : n >= y
  OBVIOUS
<1>2. Nearest(T) \in T /\ Nearest(T) >= n
  BY <1>1 DEF Nearest
<1>3. Nearest(T) \in 1..n
  BY <1>2
<1> QED
  BY <1>2, <1>3

\* Sentences of any length can be read.
LEMMA ReadingExists ==
  ASSUME NEW s, NEW kinds, NEW n \in Nat
  PROVE  \E g : IsReading(g, s, kinds, 1..n)
<1> DEFINE N == {m \in Nat : \E g : IsReading(g, s, kinds, 1..m)}
<1>1. 0 \in N
  <2> DEFINE g == [T \in SUBSET (1..0) |-> ReadTo({}, s, kinds, {})]
  <2>1. \A T \in SUBSET (1..0) : T = {}
    OBVIOUS
  <2>2. IsReading(g, s, kinds, 1..0)
    BY <2>1 DEF IsReading, ReadTo
  <2> HIDE DEF g
  <2> QED
    BY <2>2
<1>2. ASSUME NEW m \in Nat, m \in N PROVE m + 1 \in N
  <2>1. PICK g : IsReading(g, s, kinds, 1..m)
    BY <1>2
  <2> DEFINE h == [T \in SUBSET (1..(m + 1)) |-> ReadTo(g, s, kinds, T)]
  <2>2. \A T \in SUBSET (1..m) : h[T] = g[T]
    <3>1. \A T \in SUBSET (1..m) : T \in SUBSET (1..(m + 1))
      OBVIOUS
    <3> QED
      BY <2>1, <3>1 DEF IsReading
  <2>3. ASSUME NEW T \in SUBSET (1..(m + 1)) PROVE h[T] = ReadTo(h, s, kinds, T)
    <3>1. CASE T = {}
      BY <3>1 DEF ReadTo
    <3>2. CASE T # {} /\ m + 1 \in T
      <4>1. Nearest(T) = m + 1
        BY <3>2, NearestIsLast
      <4>2. T \ {m + 1} \in SUBSET (1..m)
        OBVIOUS
      <4>3. h[T \ {m + 1}] = g[T \ {m + 1}]
        BY <2>2, <4>2
      <4>4. h[T] = ReadTo(g, s, kinds, T)
        OBVIOUS
      <4> HIDE DEF h
      <4> QED
        BY <4>1, <4>3, <4>4 DEF ReadTo
    <3>3. CASE T # {} /\ m + 1 \notin T
      <4>1. T \in SUBSET (1..m)
        BY <3>3
      <4>2. h[T] = ReadTo(g, s, kinds, T)
        OBVIOUS
      <4>3. \A U \in SUBSET T : h[U] = g[U]
        BY <2>2, <4>1
      <4>4. h[T \ {Nearest(T)}] = g[T \ {Nearest(T)}]
        BY <4>3
      <4> HIDE DEF h
      <4> QED
        BY <4>2, <4>4 DEF ReadTo
    <3> QED
      BY <3>1, <3>2, <3>3
  <2>4. IsReading(h, s, kinds, 1..(m + 1))
    BY <2>3 DEF IsReading
  <2> HIDE DEF h
  <2> QED
    BY <2>4
<1> HIDE DEF N
<1>3. n \in N
  BY <1>1, <1>2, SetInduction
<1> QED
  BY <1>3 DEF N

\* Hence a sentence is read clause by clause.
LEMMA ReadInTurn ==
  ASSUME NEW s, NEW n \in Nat, DOMAIN s = 1..n, NEW kinds
  PROVE  \E g : /\ Scopes!ReadSentence(s, kinds) = g[1..n].got
                /\ g[1..0] = Unread(kinds)
                /\ \A i \in 1..n : g[1..i] = Scopes!ReadClause(g[1..(i - 1)], s[i], kinds)
<1> DEFINE g == CHOOSE g : IsReading(g, s, kinds, DOMAIN s)
<1>1. IsReading(g, s, kinds, 1..n)
  BY ReadingExists
<1>2. Scopes!ReadSentence(s, kinds) = g[1..n].got
  BY DEF Scopes!ReadSentence, Scopes!FoldLeft, Scopes!MapThenFoldSet, Scopes!Max, IsReading,
         ReadTo, Unread, Nearest
<1> HIDE DEF g
<1>3. \A T \in SUBSET (1..n) : g[T] = ReadTo(g, s, kinds, T)
  BY <1>1 DEF IsReading
<1>4. g[1..0] = Unread(kinds)
  <2>1. 1..0 = {} /\ 1..0 \in SUBSET (1..n)
    OBVIOUS
  <2> QED
    BY <1>3, <2>1 DEF ReadTo
<1>5. ASSUME NEW i \in 1..n PROVE g[1..i] = Scopes!ReadClause(g[1..(i - 1)], s[i], kinds)
  <2>1. i \in Nat /\ 1..i \in SUBSET (1..i) /\ i \in 1..i
    OBVIOUS
  <2>2. Nearest(1..i) = i
    BY <2>1, NearestIsLast
  <2>3. 1..i \in SUBSET (1..n) /\ 1..i # {}
    BY <2>1
  <2>4. (1..i) \ {i} = 1..(i - 1)
    BY <2>1
  <2> QED
    BY <1>3, <2>2, <2>3, <2>4 DEF ReadTo
<1> QED
  BY <1>2, <1>4, <1>5

-----------------------------------------------------------------------------
(***************************************************************************)
(* Whom the clauses of a sentence speak of.                                *)
(***************************************************************************)

\* Whom a clause speaks of goes back no further than to the clause before.
LEMMA SpeaksOfTheSame ==
  ASSUME NEW s, NEW kinds, NEW i \in Nat \ {0}, Scopes!Covered(s[i], kinds) = {}
  PROVE  Scopes!SpeaksOf(s, i, kinds) =
           IF s[i].hard \/ i = 1 THEN Scopes!UniqueOwner(kinds)
           ELSE IF s[i - 1].segments # <<>> THEN Scopes!FollowedBy(s[i - 1], kinds)
           ELSE Scopes!SpeaksOf(s, i - 1, kinds)
<1> DEFINE A == Scopes!Antecedents(s, i, kinds)
           Opens(j) == s[j].segments # <<>> \/ Scopes!Covered(s[j], kinds) # {}
           Of(j) == IF s[j].segments # <<>> THEN Scopes!FollowedBy(s[j], kinds)
                    ELSE Scopes!Covered(s[j], kinds)
<1>1. Scopes!SpeaksOf(s, i, kinds) =
        IF A = {} THEN Scopes!UniqueOwner(kinds)
        ELSE Of(CHOOSE m \in A : \A n \in A : n <= m)
  BY DEF Scopes!SpeaksOf, Scopes!FollowedBy
<1>2. A = {j \in 1..(i - 1) : Opens(j) /\ \A k \in (j + 1)..i : ~ s[k].hard}
  BY DEF Scopes!Antecedents
<1>3. CASE s[i].hard \/ i = 1
  <2>1. A = {}
    BY <1>2, <1>3
  <2> QED
    BY <1>1, <1>3, <2>1
<1>4. CASE ~ s[i].hard /\ i # 1
  <2>1. i - 1 \in 1..(i - 1) /\ i - 1 \in Nat \ {0} /\ (i - 1) + 1 = i
    BY <1>4
  <2>2. CASE Opens(i - 1)
    <3>1. i - 1 \in A
      BY <1>2, <1>4, <2>1, <2>2
    <3>2. \A n \in A : n \in Int /\ n <= i - 1
      BY <1>2
    <3> HIDE DEF A, Of
    <3>3. (CHOOSE m \in A : \A n \in A : n <= m) = i - 1
      BY <3>1, <3>2
    <3>4. Scopes!SpeaksOf(s, i, kinds) = Of(i - 1)
      BY <1>1, <3>1, <3>3
    <3>5. CASE s[i - 1].segments # <<>>
      BY <1>4, <3>4, <3>5 DEF Of
    <3>6. CASE s[i - 1].segments = <<>>
      <4>1. Scopes!Covered(s[i - 1], kinds) # {}
        BY <2>2, <3>6
      <4>2. Scopes!SpeaksOf(s, i - 1, kinds) = Scopes!Covered(s[i - 1], kinds)
        BY <4>1 DEF Scopes!SpeaksOf
      <4> QED
        BY <1>4, <3>4, <3>6, <4>2 DEF Of
    <3> QED
      BY <3>5, <3>6
  <2>3. CASE ~ Opens(i - 1)
    <3> DEFINE B == Scopes!Antecedents(s, i - 1, kinds)
    <3>1. B = {j \in 1..((i - 1) - 1) : Opens(j) /\ \A k \in (j + 1)..(i - 1) : ~ s[k].hard}
      BY DEF Scopes!Antecedents
    <3>2. A = B
      <4>1. ASSUME NEW j \in A PROVE j \in B
        <5>1. j # i - 1
          BY <1>2, <2>3
        <5> QED
          BY <1>2, <3>1, <5>1
      <4>2. ASSUME NEW j \in B PROVE j \in A
        <5>1. \A k \in (j + 1)..i : k = i \/ k \in (j + 1)..(i - 1)
          BY <3>1
        <5> QED
          BY <1>2, <1>4, <3>1, <5>1
      <4> QED
        BY <4>1, <4>2
    <3>3. Scopes!SpeaksOf(s, i - 1, kinds) =
            IF B = {} THEN Scopes!UniqueOwner(kinds)
            ELSE Of(CHOOSE m \in B : \A n \in B : n <= m)
      BY <2>3 DEF Scopes!SpeaksOf, Scopes!FollowedBy
    <3> HIDE DEF A, B, Of
    <3>4. Scopes!SpeaksOf(s, i, kinds) = Scopes!SpeaksOf(s, i - 1, kinds)
      BY <1>1, <3>2, <3>3
    <3> QED
      BY <1>4, <2>3, <3>4
  <2> QED
    BY <2>2, <2>3
<1> QED
  BY <1>3, <1>4

\* Whom the clauses after clause i go on about; at the beginning of a
\* sentence, the only device there is.
Current(s, i, kinds) ==
  IF i = 0 THEN Scopes!UniqueOwner(kinds)
  ELSE IF s[i].segments # <<>> THEN Scopes!FollowedBy(s[i], kinds)
  ELSE Scopes!SpeaksOf(s, i, kinds)

\* Clause i of a sentence states the item of device d.
States(s, i, kinds, d, item) ==
  \/ \E g \in Scopes!ToSet(s[i].segments) : Scopes!SegmentTells(g, d, item)
  \/ s[i].segments = <<>> /\ item \in s[i].says /\ d \in Scopes!SpeaksOf(s, i, kinds)

\* What a segment deals out to a device is what it tells of it.
LEMMA DealtIsTold ==
  ASSUME NEW g, g.dealt \in BOOLEAN, NEW d, NEW item
  PROVE  d \in Scopes!Owners(g) /\ item \in Scopes!Assigned(g, d) <=> Scopes!SegmentTells(g, d, item)
<1>1. CASE g.dealt
  <2>1. \A i : i \in Scopes!LastPlace(g, d) <=>
               /\ i \in DOMAIN g.owners /\ g.owners[i] = d
               /\ \A j \in DOMAIN g.owners : g.owners[j] = d => j <= i
    BY DEF Scopes!LastPlace
  <2>2. Scopes!SegmentTells(g, d, item) <=>
          /\ Len(g.owners) = Len(g.says)
          /\ \E i \in Scopes!LastPlace(g, d) : g.says[i] = item
    BY <1>1, <2>1 DEF Scopes!SegmentTells
  <2>3. \A i \in Scopes!LastPlace(g, d) : d \in Scopes!Owners(g)
    BY <2>1 DEF Scopes!Owners, Scopes!ToSet
  <2>4. Scopes!Assigned(g, d) =
          IF Len(g.owners) # Len(g.says) THEN {}
          ELSE {g.says[i] : i \in Scopes!LastPlace(g, d)}
    BY <1>1 DEF Scopes!Assigned
  <2> QED
    BY <2>2, <2>3, <2>4
<1>2. CASE ~ g.dealt
  BY <1>2 DEF Scopes!Owners, Scopes!Assigned, Scopes!SegmentTells, Scopes!ToSet
<1> QED
  BY <1>1, <1>2

\* One turn of the loop: who is spoken of, and what each device is given.
LEMMA TurnReads ==
  ASSUME NEW s, NEW kinds, NEW i \in Nat \ {0}, NEW st,
         \A g \in Scopes!ToSet(s[i].segments) : g.dealt \in BOOLEAN,
         st.current = Current(s, i - 1, kinds), NEW d \in Device, NEW item
  PROVE  LET new == Scopes!ReadClause(st, s[i], kinds) IN
         /\ new.current = Current(s, i, kinds)
         /\ item \in new.got[d] <=> item \in st.got[d] \/ States(s, i, kinds, d, item)
<1> DEFINE new == Scopes!ReadClause(st, s[i], kinds)
           Theirs == {h \in Scopes!ToSet(s[i].segments) : d \in Scopes!Owners(h)}
<1>1. CASE s[i].segments # <<>>
  <2>1. new.current = Scopes!FollowedBy(s[i], kinds)
        /\ new.got[d] = st.got[d] \cup UNION {Scopes!Assigned(g, d) : g \in Theirs}
    BY <1>1 DEF Scopes!ReadClause
  <2>2. item \in UNION {Scopes!Assigned(g, d) : g \in Theirs} <=>
        \E g \in Scopes!ToSet(s[i].segments) : Scopes!SegmentTells(g, d, item)
    BY DealtIsTold
  <2> QED
    BY <1>1, <2>1, <2>2 DEF Current, States
<1>2. CASE s[i].segments = <<>>
  <2> DEFINE owners == IF Scopes!Covered(s[i], kinds) # {} THEN Scopes!Covered(s[i], kinds)
                       ELSE Scopes!Inherited(s[i], st.current, kinds)
  <2>1. new.current = owners
        /\ new.got[d] = IF d \in owners THEN st.got[d] \cup s[i].says ELSE st.got[d]
    BY <1>2 DEF Scopes!ReadClause
  <2>2. owners = Scopes!SpeaksOf(s, i, kinds)
    <3>1. CASE Scopes!Covered(s[i], kinds) # {}
      BY <3>1 DEF Scopes!SpeaksOf
    <3>2. CASE Scopes!Covered(s[i], kinds) = {}
      BY <3>2, SpeaksOfTheSame DEF Current, Scopes!Inherited
    <3> QED
      BY <3>1, <3>2
  <2>3. Scopes!ToSet(s[i].segments) = {}
    BY <1>2 DEF Scopes!ToSet
  <2> QED
    BY <1>2, <2>1, <2>2, <2>3 DEF Current, States
<1> QED
  BY <1>1, <1>2

\* The loop gives a device what the clauses state of it, and no more.
LEMMA SentenceIsRead ==
  ASSUME NEW s, NEW n \in Nat, DOMAIN s = 1..n, NEW kinds,
         \A i \in 1..n : \A g \in Scopes!ToSet(s[i].segments) : g.dealt \in BOOLEAN,
         NEW d \in Device, NEW item
  PROVE  item \in Scopes!ReadSentence(s, kinds)[d] <=> \E i \in 1..n : States(s, i, kinds, d, item)
<1>1. PICK g : /\ Scopes!ReadSentence(s, kinds) = g[1..n].got
               /\ g[1..0] = Unread(kinds)
               /\ \A i \in 1..n : g[1..i] = Scopes!ReadClause(g[1..(i - 1)], s[i], kinds)
  BY ReadInTurn
<1> DEFINE Read(m) == /\ g[1..m].current = Current(s, m, kinds)
                      /\ item \in g[1..m].got[d] <=> \E i \in 1..m : States(s, i, kinds, d, item)
           N == {m \in Nat : m <= n => Read(m)}
<1>2. 0 \in N
  BY <1>1 DEF Current, Unread
<1>3. ASSUME NEW m \in Nat, m \in N PROVE m + 1 \in N
  <2> SUFFICES ASSUME m + 1 <= n PROVE Read(m + 1)
    OBVIOUS
  <2>1. m + 1 \in 1..n /\ m + 1 \in Nat \ {0} /\ (m + 1) - 1 = m /\ m <= n
    OBVIOUS
  <2>2. Read(m)
    BY <1>3, <2>1
  <2> HIDE DEF N
  <2>3. g[1..(m + 1)] = Scopes!ReadClause(g[1..m], s[m + 1], kinds)
    BY <1>1, <2>1
  <2>4. /\ g[1..(m + 1)].current = Current(s, m + 1, kinds)
        /\ item \in g[1..(m + 1)].got[d] <=>
             item \in g[1..m].got[d] \/ States(s, m + 1, kinds, d, item)
    <3> DEFINE i == m + 1
               st == g[1..m]
    <3>1. i \in Nat \ {0} /\ st.current = Current(s, i - 1, kinds)
          /\ \A e \in Scopes!ToSet(s[i].segments) : e.dealt \in BOOLEAN
      BY <2>1, <2>2
    <3> HIDE DEF st, i, Read
    <3>2. /\ Scopes!ReadClause(st, s[i], kinds).current = Current(s, i, kinds)
          /\ item \in Scopes!ReadClause(st, s[i], kinds).got[d] <=>
               item \in st.got[d] \/ States(s, i, kinds, d, item)
      BY <3>1, TurnReads
    <3> QED
      BY <2>3, <3>2 DEF i, st
  <2>5. (\E i \in 1..(m + 1) : States(s, i, kinds, d, item)) <=>
        (\E i \in 1..m : States(s, i, kinds, d, item)) \/ States(s, m + 1, kinds, d, item)
    BY <2>1
  <2> QED
    BY <2>2, <2>4, <2>5
<1> HIDE DEF N
<1>4. n \in N
  BY <1>2, <1>3, SetInduction
<1> QED
  BY <1>1, <1>4 DEF N

-----------------------------------------------------------------------------
(***************************************************************************)
(* Plans and requests.                                                     *)
(***************************************************************************)

\* Requests and plans are made of what may be said, and requests are finite.
ReadingInv == Scopes!TypeOK /\ IsFiniteSet(said)

\* The sentences of a plan are sequences of clauses with segments.
LEMMA SentencesAreTyped ==
  ASSUME Scopes!TypeOK, NEW s \in Scopes!ToSet(plan)
  PROVE  \E n \in Nat : /\ DOMAIN s = 1..n
                        /\ \A i \in 1..n : /\ s[i] \in Clause /\ s[i] \in Scopes!ClauseType
                                           /\ s[i].segments \in Seq(Scopes!Segment)
<1>1. s \in Seq(Clause)
  BY DEF Scopes!TypeOK, Scopes!ToSet
<1>2. Len(s) \in Nat /\ DOMAIN s = 1..Len(s) /\ \A i \in 1..Len(s) : s[i] \in Clause
  BY <1>1
<1>3. \A c \in Clause : c \in Scopes!ClauseType
  BY ReadingAssumption DEF Scopes!SettingsAreSound
<1>4. \A c \in Scopes!ClauseType : c.segments \in Seq(Scopes!Segment)
  BY DEF Scopes!ClauseType
<1> QED
  BY <1>2, <1>3, <1>4

\* What a device is given of a plan.
LEMMA ScopeIsStated ==
  ASSUME Scopes!TypeOK, NEW kinds, NEW d \in Device, NEW item
  PROVE  item \in Scopes!ScopeOf(d, kinds) <=>
           \E s \in Scopes!ToSet(plan) : \E i \in DOMAIN s : States(s, i, kinds, d, item)
<1>1. ASSUME NEW s \in Scopes!ToSet(plan)
      PROVE  item \in Scopes!ReadSentence(s, kinds)[d] <=>
               \E i \in DOMAIN s : States(s, i, kinds, d, item)
  <2>1. PICK n \in Nat : /\ DOMAIN s = 1..n
                         /\ \A i \in 1..n : s[i].segments \in Seq(Scopes!Segment)
    BY SentencesAreTyped
  <2>2. ASSUME NEW i \in 1..n, NEW g \in Scopes!ToSet(s[i].segments) PROVE g.dealt \in BOOLEAN
    <3>1. g \in Scopes!Segment
      BY <2>1 DEF Scopes!ToSet
    <3> QED
      BY <3>1 DEF Scopes!Segment
  <2> QED
    BY <2>1, <2>2, SentenceIsRead
<1> QED
  BY <1>1 DEF Scopes!ScopeOf

\* The declarative reading of a plan.
LEMMA PlansAreOwned == Scopes!TypeOK => Scopes!ScopesAreOwned
<1> SUFFICES ASSUME Scopes!TypeOK,
                    NEW kinds \in {Scopes!MotorKinds, Scopes!ActuatorKinds},
                    NEW d \in Scopes!Scoped(kinds), NEW item \in Item
             PROVE  (item \in Scopes!ScopeOf(d, kinds)) <=>
                      \E s \in Scopes!ToSet(plan) : \E i \in DOMAIN s :
                        States(s, i, kinds, d, item)
  BY DEF Scopes!ScopesAreOwned, States
<1>1. d \in Device
  BY DEF Scopes!Scoped, Scopes!Instances
<1> QED
  BY <1>1, ScopeIsStated

\* With one device, which is the only one its plan names, and nothing dealt
\* out, every clause states what it says of that device.
LEMMA LoneDeviceOwnsAll ==
  ASSUME Scopes!TypeOK, NEW kinds, NEW d \in Device,
         Scopes!Scoped(kinds) = {d}, Scopes!UniqueOwner(kinds) = {d},
         Scopes!NamedIn(plan) \subseteq {d},
         \A c \in Scopes!Clauses : \A g \in Scopes!ToSet(c.segments) : ~ g.dealt,
         NEW item, NEW s \in Scopes!ToSet(plan), NEW i \in DOMAIN s
  PROVE  States(s, i, kinds, d, item) <=> item \in Scopes!SaidBy(s[i])
<1>1. PICK n \in Nat :
        /\ DOMAIN s = 1..n
        /\ \A j \in 1..n : /\ s[j] \in Clause /\ s[j] \in Scopes!ClauseType
                           /\ s[j].segments \in Seq(Scopes!Segment)
  BY SentencesAreTyped
<1>2. \A j \in 1..n : s[j] \in Scopes!Clauses
  BY <1>1 DEF Scopes!Clauses, Scopes!ToSet
<1>3. ASSUME NEW j \in 1..n, NEW g \in Scopes!ToSet(s[j].segments)
      PROVE  Scopes!Owners(g) = {d} /\ ~ g.dealt /\ DOMAIN g.owners # {}
  <2>1. g \in Scopes!Segment
    BY <1>1 DEF Scopes!ToSet
  <2>2. g.owners \in Seq(Device) \ {<<>>}
    BY <2>1 DEF Scopes!Segment
  <2>3. DOMAIN g.owners = 1..Len(g.owners) /\ Len(g.owners) \in Nat \ {0}
    BY <2>2
  <2>4. 1 \in DOMAIN g.owners
    BY <2>3
  <2>5. Scopes!Owners(g) \subseteq Scopes!NamedIn(plan)
    BY <1>1 DEF Scopes!NamedIn, Scopes!ToSet
  <2> QED
    BY <1>2, <2>4, <2>5 DEF Scopes!Owners, Scopes!ToSet
<1>4. CASE s[i].segments # <<>>
  <2>1. s[i].says = {}
    BY <1>1, <1>4 DEF Scopes!ClauseType
  <2>2. ASSUME NEW g \in Scopes!ToSet(s[i].segments)
        PROVE  Scopes!SegmentTells(g, d, item) <=> item \in Scopes!ToSet(g.says)
    <3>1. ~ g.dealt /\ Scopes!Owners(g) = {d}
      BY <1>1, <1>3
    <3>2. \E k \in DOMAIN g.owners : g.owners[k] = d
      BY <3>1 DEF Scopes!Owners, Scopes!ToSet
    <3> QED
      BY <3>1, <3>2 DEF Scopes!SegmentTells
  <2> QED
    BY <1>4, <2>1, <2>2 DEF States, Scopes!SaidBy
<1>5. CASE s[i].segments = <<>>
  <2>1. Scopes!ToSet(s[i].segments) = {}
    BY <1>5 DEF Scopes!ToSet
  <2>2. \A c : Scopes!Covered(c, kinds) \subseteq {d}
    BY DEF Scopes!Covered
  <2>3. ASSUME NEW m \in 1..n, s[m].segments # <<>> PROVE Scopes!FollowedBy(s[m], kinds) = {d}
    <3>1. s[m].segments \in Seq(Scopes!Segment)
      BY <1>1
    <3>2. Len(s[m].segments) \in DOMAIN s[m].segments
      BY <2>3, <3>1
    <3>3. Scopes!Last(s[m].segments) \in Scopes!ToSet(s[m].segments)
      BY <3>2 DEF Scopes!ToSet, Scopes!Last
    <3> QED
      BY <1>3, <3>3 DEF Scopes!FollowedBy
  <2> DEFINE N == {m \in Nat : m <= n => Current(s, m, kinds) = {d}}
  <2>4. 0 \in N
    BY DEF Current
  <2>5. ASSUME NEW m \in Nat, m \in N PROVE m + 1 \in N
    <3> SUFFICES ASSUME m + 1 <= n PROVE Current(s, m + 1, kinds) = {d}
      OBVIOUS
    <3> DEFINE k == m + 1
    <3>1. k \in 1..n /\ k \in Nat \ {0} /\ k - 1 = m
      OBVIOUS
    <3>2. Current(s, m, kinds) = {d}
      BY <2>5
    <3> HIDE DEF N, k
    <3>3. CASE s[k].segments # <<>>
      BY <2>3, <3>1, <3>3 DEF Current
    <3>4. CASE s[k].segments = <<>> /\ Scopes!Covered(s[k], kinds) # {}
      <4>1. Scopes!SpeaksOf(s, k, kinds) = Scopes!Covered(s[k], kinds)
        BY <3>4 DEF Scopes!SpeaksOf
      <4> QED
        BY <2>2, <3>1, <3>4, <4>1 DEF Current
    <3>5. CASE s[k].segments = <<>> /\ Scopes!Covered(s[k], kinds) = {}
      BY <3>1, <3>2, <3>5, SpeaksOfTheSame DEF Current
    <3> QED
      BY <3>3, <3>4, <3>5 DEF k
  <2> HIDE DEF N
  <2>6. i \in N /\ i \in 1..n
    BY <1>1, <2>4, <2>5, SetInduction
  <2>7. Scopes!SpeaksOf(s, i, kinds) = {d}
    BY <1>5, <2>6 DEF N, Current
  <2> QED
    BY <1>5, <2>1, <2>7 DEF States, Scopes!SaidBy
<1> QED
  BY <1>4, <1>5

\* Numbering a lone device changes no verdict.
LEMMA LoneDevicesLoseNothing == ReadingInv => Scopes!LoneDeviceIsReadWhole
<1> SUFFICES ASSUME ReadingInv, NEW r \in DOMAIN Scopes!CheckList,
                    NEW kinds, kinds = Scopes!CheckList[r],
                    Scopes!Cardinality(Scopes!Discovered(kinds)) = 1,
                    Scopes!Cardinality(Scopes!Scoped(kinds)) = 1,
                    Scopes!NamedIn(plan) \subseteq Scopes!Scoped(kinds),
                    \A c \in Scopes!Clauses : \A g \in Scopes!ToSet(c.segments) : ~ g.dealt,
                    Scopes!CheckListVerdict(r) # "not_applicable"
             PROVE  Scopes!CheckListVerdict(r) = Scopes!Verdict(Needs[r] \subseteq Scopes!WholePlan)
  BY DEF Scopes!LoneDeviceIsReadWhole
<1>1. PICK d \in Device : Scopes!Scoped(kinds) = {d}
  <2>1. IsFiniteSet({m.who : m \in said})
    <3> DEFINE f == [m \in said |-> m.who]
    <3>1. f \in Surjection(said, {m.who : m \in said})
      BY DEF Surjection
    <3> QED
      BY <3>1, FS_Surjection DEF ReadingInv
  <2>2. Scopes!Scoped(kinds) \subseteq {m.who : m \in said} /\ Scopes!Scoped(kinds) \subseteq Device
    BY DEF Scopes!Scoped, Scopes!Instances
  <2>3. IsFiniteSet(Scopes!Scoped(kinds))
    BY <2>1, <2>2, FS_Subset
  <2>4. Cardinality(Scopes!Scoped(kinds)) = 1
    BY DEF Scopes!Cardinality, Scopes!IsFiniteSet, Cardinality, IsFiniteSet
  <2> QED
    BY <2>2, <2>3, <2>4, FS_Singleton
<1>2. Scopes!UniqueOwner(kinds) = {d}
  BY <1>1 DEF Scopes!UniqueOwner
<1>3. ASSUME NEW item PROVE item \in Scopes!ScopeOf(d, kinds) <=> item \in Scopes!WholePlan
  <2>1. item \in Scopes!ScopeOf(d, kinds) <=>
          \E s \in Scopes!ToSet(plan) : \E i \in DOMAIN s : States(s, i, kinds, d, item)
    BY ScopeIsStated DEF ReadingInv
  <2>2. ASSUME NEW s \in Scopes!ToSet(plan), NEW i \in DOMAIN s
        PROVE  States(s, i, kinds, d, item) <=> item \in Scopes!SaidBy(s[i])
    BY <1>1, <1>2, LoneDeviceOwnsAll DEF ReadingInv
  <2>3. item \in Scopes!WholePlan <=>
          \E s \in Scopes!ToSet(plan) : \E i \in DOMAIN s : item \in Scopes!SaidBy(s[i])
    BY DEF Scopes!WholePlan, Scopes!Clauses, Scopes!ToSet
  <2> QED
    BY <2>1, <2>2, <2>3
<1>4. Scopes!AllComplete(kinds, Needs[r]) <=> Needs[r] \subseteq Scopes!WholePlan
  BY <1>1, <1>3 DEF Scopes!AllComplete
<1>5. Scopes!CheckListVerdict(r) = Scopes!Verdict(Scopes!AllComplete(kinds, Needs[r]))
  BY <1>1 DEF Scopes!CheckListVerdict
<1> QED
  BY <1>4, <1>5 DEF Scopes!Verdict

-----------------------------------------------------------------------------
(***************************************************************************)
(* Every behaviour of MCValidation.                                        *)
(***************************************************************************)

\* A clause more, in a new sentence or at the end of the last, or a mention.
LEMMA ReadingStep == ReadingInv /\ [ReadingNext]_<<said, plan, reading>> => ReadingInv'
<1> SUFFICES ASSUME ReadingInv, [ReadingNext]_<<said, plan, reading>> PROVE ReadingInv'
  OBVIOUS
<1> USE DEF ReadingInv, Scopes!TypeOK
<1>1. CASE \E m \in Mention : said' = said \cup {m} /\ UNCHANGED plan
  BY <1>1, FS_AddElement
<1>2. CASE \E c \in Clause : plan' = Append(plan, <<c>>) /\ UNCHANGED said
  BY <1>2
<1>3. CASE plan # <<>> /\ UNCHANGED said
           /\ \E c \in Clause : plan' = [plan EXCEPT ![Len(plan)] = Append(@, c)]
  <2>1. PICK c \in Clause : plan' = [plan EXCEPT ![Len(plan)] = Append(@, c)]
    BY <1>3
  <2>2. Len(plan) \in DOMAIN plan /\ plan[Len(plan)] \in Seq(Clause)
    BY <1>3
  <2>3. Append(plan[Len(plan)], c) \in Seq(Clause) \ {<<>>}
    BY <2>2
  <2> QED
    BY <1>3, <2>1, <2>2, <2>3
<1>4. CASE UNCHANGED <<said, plan>>
  BY <1>4
<1> QED
  BY <1>1, <1>2, <1>3, <1>4
  DEF ReadingNext, Scopes!Next, Scopes!Mentioned, Scopes!NewSentence, Scopes!NewClause,
      Long!Next, Long!Mentioned, Long!NewSentence, Long!NewClause

\* Requests and plans are of the kinds there are, and finite.
LEMMA ReadingKeeps == ReadingSpec => []ReadingInv
<1>1. ReadingInit => ReadingInv
  BY FS_EmptySet DEF ReadingInit, ReadingInv, Scopes!Init, Scopes!TypeOK
<1> QED
  BY <1>1, ReadingStep, PTL DEF ReadingSpec

\* The loop over the clauses of a sentence, which carries along who was spoken
\* of last, gives every device the points of the clauses that name it and of
\* those that go on about it, and no other: for any devices, plans and requests.
THEOREM LoopAgreesWithReading == ReadingSpec => []PointsHaveOwners
<1>1. ReadingInv => PointsHaveOwners
  BY PlansAreOwned DEF ReadingInv, PointsHaveOwners, Long!TypeOK, Scopes!TypeOK
<1> QED
  BY <1>1, ReadingKeeps, PTL

\* A number given to the only device changes no verdict of a check list.
THEOREM NumbersChangeNothing == ReadingSpec => []LoneDevicesAreReadWhole
<1>1. ReadingInv => LoneDevicesAreReadWhole
  BY LoneDevicesLoseNothing DEF LoneDevicesAreReadWhole
<1> QED
  BY <1>1, ReadingKeeps, PTL
=============================================================================
