------------------------------ MODULE LLMClient ------------------------------
(***************************************************************************)
(* The client of the model service: OpenRouterLLMClient.chat and           *)
(* CircuitBreaker of llm_client.py.  A chat is one call of chat with its   *)
(* attempts; each attempt runs in a thread of its own and is waited for    *)
(* until its hard limit.                                                   *)
(*                                                                         *)
(* Time is the monotonic clock in whole units.  Whatever waits for a       *)
(* moment acts at most MaxLag after it.  As main.py and the worker build   *)
(* clients, each chat has a client of its own, and with it a breaker.      *)
(***************************************************************************)
EXTENDS Integers

CONSTANTS
  Chat,
  MaxRetries, Timeout, TotalTimeout,   \* max_retries, timeout, total_timeout
  Delays,              \* what back-off and Retry-After can ask for
  Threshold, Cooldown, \* of the breaker
  MaxLag, MaxTime      \* bounds of the scheduler's delay and of the clock

\* What the constructor is assumed to be given.
SettingsAreSound ==
  /\ MaxRetries \in Nat /\ Timeout \in Nat \ {0} /\ TotalTimeout \in Nat \ {0}
  /\ Delays \subseteq Nat
  /\ Threshold \in Nat \ {0} /\ Cooldown \in Nat
  /\ MaxLag \in Nat /\ MaxTime \in Nat

VARIABLES
  now,
  pc,             \* where each chat is
  deadline,       \* the end of its budget
  until,          \* what it waits for: the limit of the attempt, the end of a sleep
  attempt,        \* attempts that ended with an error worth a retry
  started,        \* requests it sent
  running,        \* of them, those whose thread still runs
  outcome, ended, \* how the chat ended, and when
  failures, lastFailure   \* the state of its breaker

vars == <<now, pc, deadline, until, attempt, started, running, outcome, ended,
          failures, lastFailure>>

breakers == <<failures, lastFailure>>

\* Errors that are retried: the SDK's time-out, a lost connection, 408, 409, 429, 5xx.
TransientError == {"sdkTimeout", "connection", "status"}

\* A chat that was called and is not over.
Underway == {"checking", "allowed", "waiting", "sleeping"}

Outcome == {"none", "answer", "format", "crash", "failed", "timeout", "unavailable"}

Init ==
  /\ now = 0
  /\ pc = [c \in Chat |-> "idle"]
  /\ deadline = [c \in Chat |-> 0] /\ until = [c \in Chat |-> 0]
  /\ attempt = [c \in Chat |-> 0] /\ started = [c \in Chat |-> 0]
  /\ running = [c \in Chat |-> 0]
  /\ outcome = [c \in Chat |-> "none"] /\ ended = [c \in Chat |-> 0]
  /\ failures = [c \in Chat |-> 0] /\ lastFailure = [c \in Chat |-> 0]

-----------------------------------------------------------------------------
(***************************************************************************)
(* The breaker                                                             *)
(***************************************************************************)

\* is_open; its side effect is Reset.
IsOpen(c) == failures[c] >= Threshold /\ now - lastFailure[c] < Cooldown

\* is_open forgets the failures once the cooldown has passed.
Reset(c) ==
  failures' = [failures EXCEPT ![c] =
                 IF @ >= Threshold /\ now - lastFailure[c] >= Cooldown THEN 0 ELSE @]

RecordFailure(c) ==
  /\ failures' = [failures EXCEPT ![c] = @ + 1]
  /\ lastFailure' = [lastFailure EXCEPT ![c] = now]

RecordSuccess(c) ==
  /\ failures' = [failures EXCEPT ![c] = 0]
  /\ UNCHANGED lastFailure

-----------------------------------------------------------------------------
(***************************************************************************)
(* A chat                                                                  *)
(***************************************************************************)

\* The chat returns or raises.
Finish(c, how) ==
  /\ pc' = [pc EXCEPT ![c] = "done"]
  /\ outcome' = [outcome EXCEPT ![c] = how]
  /\ ended' = [ended EXCEPT ![c] = now]
  /\ UNCHANGED <<now, deadline, until, attempt, started>>

\* chat is called; the budget starts.
Begin(c) ==
  /\ pc[c] = "idle"
  /\ now + TotalTimeout + 2 * MaxLag <= MaxTime
  /\ pc' = [pc EXCEPT ![c] = "checking"]
  /\ deadline' = [deadline EXCEPT ![c] = now + TotalTimeout]
  /\ until' = [until EXCEPT ![c] = now]
  /\ UNCHANGED <<now, attempt, started, running, outcome, ended, breakers>>

\* _attempt_timeout.
AttemptTimeout(c) ==
  IF deadline[c] - now < Timeout THEN deadline[c] - now ELSE Timeout

\* The head of the loop: the breaker is asked and answers under its lock.
AskBreaker(c) ==
  /\ pc[c] = "checking"
  /\ Reset(c)
  /\ UNCHANGED <<lastFailure, running>>
  /\ \/ IsOpen(c) /\ Finish(c, "unavailable")
     \/ /\ ~IsOpen(c)
        /\ pc' = [pc EXCEPT ![c] = "allowed"]
        /\ UNCHANGED <<now, deadline, until, attempt, started, outcome, ended>>

\* Later, when the lock is free again, the time that is left is looked at and
\* the request sent from a thread of its own.
SendRequest(c) ==
  /\ pc[c] = "allowed"
  /\ UNCHANGED breakers
  /\ \/ /\ now >= deadline[c]
        /\ Finish(c, "timeout")
        /\ UNCHANGED running
     \/ /\ now < deadline[c]
        /\ pc' = [pc EXCEPT ![c] = "waiting"]
        /\ until' = [until EXCEPT ![c] = now + AttemptTimeout(c)]
        /\ started' = [started EXCEPT ![c] = @ + 1]
        /\ running' = [running EXCEPT ![c] = @ + 1]
        /\ UNCHANGED <<now, deadline, attempt, outcome, ended>>

\* The thread has put its result into the queue.
ThreadEnds(c) == running' = [running EXCEPT ![c] = @ - 1]

\* Fault: no look at the deadline once the result is there.
NeverLate(c) == FALSE

\* _raise_if_deadline_exceeded.
Late(c) == now >= deadline[c]

\* A response arrives; too late, it is dropped without a trace in the breaker.
Succeeds(c) ==
  /\ pc[c] = "waiting"
  /\ ThreadEnds(c)
  /\ \/ /\ Late(c)
        /\ Finish(c, "timeout")
        /\ UNCHANGED breakers
     \/ /\ ~Late(c)
        /\ \/ RecordSuccess(c) /\ Finish(c, "answer")
           \* the content is empty
           \/ RecordFailure(c) /\ Finish(c, "format")
           \* the response has no choices: an exception nobody expects
           \/ UNCHANGED breakers /\ Finish(c, "crash")

\* Errors that are not: authentication, a 4xx status other than 408, 409 and
\* 429, any other exception.
FailsForGood(c) ==
  /\ pc[c] = "waiting"
  /\ ThreadEnds(c)
  /\ RecordFailure(c)
  /\ Finish(c, IF Late(c) THEN "timeout" ELSE "failed")

Exhausted(c) == attempt[c] >= MaxRetries

\* _sleep_before_retry: a delay that does not end before the deadline is not
\* begun.
SleepBeforeRetry(c) ==
  \E delay \in Delays :
    \/ /\ delay >= deadline[c] - now
       /\ Finish(c, "timeout")
    \/ /\ delay < deadline[c] - now
       /\ pc' = [pc EXCEPT ![c] = "sleeping"]
       /\ until' = [until EXCEPT ![c] = now + delay]
       /\ attempt' = [attempt EXCEPT ![c] = @ + 1]
       /\ UNCHANGED <<now, deadline, started, outcome, ended>>

FailsForNow(c, error) ==
  /\ pc[c] = "waiting"
  /\ ThreadEnds(c)
  /\ RecordFailure(c)
  /\ \/ Late(c) /\ Finish(c, "timeout")
     \/ /\ ~Late(c) /\ Exhausted(c)
        /\ Finish(c, IF error = "sdkTimeout" THEN "timeout" ELSE "failed")
     \/ ~Late(c) /\ ~Exhausted(c) /\ SleepBeforeRetry(c)

\* LLMTimeoutError of the attempt is raised on.
GiveUp(c) == Finish(c, "timeout")

\* Fault: the queue is read without a limit.
NoHardLimit(c) == FALSE

HardLimit(c) == now >= until[c]

\* Nothing in the queue by the hard limit: the client is closed, the thread
\* is left behind.
Abandon(c) ==
  /\ pc[c] = "waiting"
  /\ HardLimit(c)
  /\ RecordFailure(c)
  /\ GiveUp(c)
  /\ UNCHANGED running

\* The sleep is over.
Wake(c) ==
  /\ pc[c] = "sleeping"
  /\ now >= until[c]
  /\ pc' = [pc EXCEPT ![c] = "checking"]
  /\ until' = [until EXCEPT ![c] = now]
  /\ UNCHANGED <<now, deadline, attempt, started, running, outcome, ended, breakers>>

\* The thread left behind ends.
AbandonedEnds(c) ==
  /\ pc[c] # "waiting"
  /\ running[c] > 0
  /\ ThreadEnds(c)
  /\ UNCHANGED <<now, pc, deadline, until, attempt, started, outcome, ended, breakers>>

\* A chat that is neither idle nor done acts within MaxLag of what it waits for.
Tick ==
  /\ now < MaxTime
  /\ \A c \in Chat :
       pc[c] \in Underway => now < until[c] + MaxLag
  /\ now' = now + 1
  /\ UNCHANGED <<pc, deadline, until, attempt, started, running, outcome, ended, breakers>>

Next ==
  \/ \E c \in Chat :
       \/ Begin(c) \/ AskBreaker(c) \/ SendRequest(c) \/ Succeeds(c) \/ FailsForGood(c)
       \/ \E error \in TransientError : FailsForNow(c, error)
       \/ Abandon(c) \/ Wake(c) \/ AbandonedEnds(c)
  \/ Tick

Spec == Init /\ [][Next]_vars

-----------------------------------------------------------------------------
(***************************************************************************)
(* Properties                                                              *)
(***************************************************************************)

\* Every variable holds what its counterpart may hold.
TypeOK ==
  /\ now \in 0..MaxTime
  /\ pc \in [Chat -> {"idle", "done"} \cup Underway]
  /\ deadline \in [Chat -> Nat] /\ until \in [Chat -> Nat]
  /\ attempt \in [Chat -> 0..MaxRetries] /\ started \in [Chat -> Nat]
  /\ running \in [Chat -> Nat]
  /\ outcome \in [Chat -> Outcome] /\ ended \in [Chat -> Nat]
  /\ failures \in [Chat -> Nat] /\ lastFailure \in [Chat -> Nat]

\* A chat sends at most three requests, one after the other: none is sent
\* while a thread of the same chat is still running, left behind or not.
OneRequestAtATime ==
  \A c \in Chat : running[c] <= 1 /\ started[c] <= MaxRetries + 1

\* A result that comes after the budget, an answer as well as an error, is a
\* time-out to the caller.
LateResultsAreTimeouts ==
  \A c \in Chat :
    outcome[c] \notin {"none", "unavailable"} /\ ended[c] >= deadline[c] =>
      outcome[c] = "timeout"

\* However attempts, time-outs, back-off and Retry-After add up, a chat is
\* over by its deadline but for the delay of the scheduler.
OverByTheDeadline ==
  \A c \in Chat :
    pc[c] \in Underway => now <= deadline[c] + 2 * MaxLag
=============================================================================
