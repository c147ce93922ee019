-------------------------- MODULE MCWorkerProcess --------------------------
(***************************************************************************)
(* What runs inside a worker's process while it executes a job, for TLC:   *)
(*   beats     the main thread and the heartbeat thread of two workers;    *)
(*   faulty    the same, but any heartbeat may hang or fail;               *)
(*   chats     two chats with the model service;                           *)
(*   workflow  the pipeline from the reply to report and gate.             *)
(* They have no state in common; a behaviour is one of these.              *)
(***************************************************************************)
EXTENDS WorkerHeartbeat

CONSTANTS
  Chat, MaxRetries, Timeout, TotalTimeout, Delays,
  Threshold, Cooldown, MaxLag, MaxTime,   \* of LLMClient
  Rule, Order, SeverityOf,                \* of AgentWorkflow
  Unused

VARIABLES
  part,         \* which of them
  now, pc, deadline, until, attempt, started, running, outcome, ended,
  failures, lastFailure,   \* the variables of LLMClient
  workflow, stage, field, next, res, raised, report, error   \* of AgentWorkflow

\* Six rules, whose severities reach every band of the score with and without a
\* critical finding.
MCSeverityOf == [emergency |-> "critical", duplicate |-> "high", overload |-> "high",
                 stop |-> "high", alarm |-> "medium", note |-> "low"]
MCRule == DOMAIN MCSeverityOf
MCOrder == <<"duplicate", "emergency", "overload", "alarm", "stop", "note">>

Faulty == INSTANCE WorkerHeartbeat WITH DbFails <- TRUE

Chats == INSTANCE LLMClient

Engine == INSTANCE AgentWorkflow WITH kind <- workflow, pc <- stage

ASSUME ChatsAssumption == Chats!SettingsAreSound

ASSUME EngineAssumption == Engine!OrderIsSound /\ Engine!SeveritiesAreSound

chats == <<now, pc, deadline, until, attempt, started, running, outcome, ended,
           failures, lastFailure>>

engine == <<workflow, stage, field, next, res, raised, report, error>>

all == <<part, vars, chats, engine>>

NoChats ==
  /\ now = Unused /\ pc = Unused /\ deadline = Unused /\ until = Unused
  /\ attempt = Unused /\ started = Unused /\ running = Unused
  /\ outcome = Unused /\ ended = Unused /\ failures = Unused
  /\ lastFailure = Unused

NoBeats ==
  /\ at = Unused /\ wait = Unused /\ beater = Unused /\ beatIn = Unused
  /\ lease = Unused /\ owner = Unused /\ seen = Unused /\ downFor = Unused

NoEngine ==
  /\ workflow = Unused /\ stage = Unused /\ field = Unused /\ next = Unused
  /\ res = Unused /\ raised = Unused /\ report = Unused /\ error = Unused

MCInit ==
  \/ part \in {"beats", "faulty"} /\ Init /\ NoChats /\ NoEngine
  \/ part = "chats" /\ Chats!Init /\ NoBeats /\ NoEngine
  \/ part = "workflow" /\ Engine!Init /\ NoBeats /\ NoChats

MCNext ==
  /\ \/ part = "beats" /\ Next /\ UNCHANGED <<chats, engine>>
     \/ part = "faulty" /\ Faulty!Next /\ UNCHANGED <<chats, engine>>
     \/ part = "chats" /\ Chats!Next /\ UNCHANGED <<vars, engine>>
     \/ part = "workflow" /\ Engine!Next /\ UNCHANGED <<vars, chats>>
  /\ UNCHANGED part

\* A step of the chats.
Does(A) == part = "chats" /\ A /\ UNCHANGED <<vars, engine, part>>

\* The threads of a chat go on and time passes; the service may stay silent.
MCSpec ==
  /\ MCInit /\ [][MCNext]_all
  /\ \A c \in Chat : /\ WF_all(Does(Chats!AskBreaker(c)))
                     /\ WF_all(Does(Chats!SendRequest(c)))
                     /\ WF_all(Does(Chats!Abandon(c)))
                     /\ WF_all(Does(Chats!Wake(c)))
  /\ WF_all(Does(Chats!Tick))

\* While a worker waits for the model, however long, the lease of its job is
\* renewed in time: nobody else may run the job meanwhile.
LeaseIsKept == part = "beats" => LeaseIsRenewed

\* The readiness check notices when the last worker is gone, and complains only
\* when none is up but those that just start, or whose heartbeat is late or
\* gone in a long model call.
NoFalseAlarms ==
  /\ part \in {"beats", "faulty"} => TypeOK /\ DeathIsNoticed
  /\ part = "beats" => NoFalseAlarm
  /\ part = "faulty" => Faulty!NoFalseAlarm

\* However attempts, back-off and Retry-After add up, a chat is over by its
\* deadline, sends one request after the other, and takes no result that
\* comes too late.
ChatsKeepTheirBudget ==
  part = "chats" =>
    /\ Chats!TypeOK
    /\ Chats!OneRequestAtATime
    /\ Chats!LateResultsAreTimeouts
    /\ Chats!OverByTheDeadline

\* A chat that was begun ends, although the service may never answer.
ChatsEnd ==
  \A c \in Chat : (part = "chats" /\ pc[c] = "checking") ~> (part = "chats" /\ pc[c] = "done")

\* The level of a report is not lower than that of any finding, and a report
\* without an assessment is never "low".
LevelsCoverFindings == part = "workflow" => Engine!LevelCoversFindings

\* A rule that raises makes the plan look no better than any result it could
\* have given, and keeps the gate shut: a plan that needs no review was judged
\* by every rule and none found a critical fault.
FailuresHideNothing ==
  part = "workflow" =>
    Engine!TypeOK /\ Engine!OpenGateMeansChecked /\ Engine!FailureHidesNothing
=============================================================================
