------------------------- MODULE IdempotentAnswers -------------------------
(***************************************************************************)
(* What an idempotent endpoint promises its callers, with no record, lock  *)
(* or retry in sight: a resource is created for one body, a key is bound   *)
(* to one resource, of the body it was sent with, until it is forgotten,   *)
(* and whoever is answered with a resource gets the one its key is bound   *)
(* to, created for the body it sent.                                       *)
(***************************************************************************)
CONSTANTS Caller, Key, Body, Resource, Nothing

VARIABLES
  sent,      \* the key and body of each caller, or nothing yet
  madeFor,   \* the body each resource was created for
  bound,     \* the body and resource each key is bound to
  answered   \* the resource each caller was answered with

vars == <<sent, madeFor, bound, answered>>

Binding(b, r) == [body |-> b, resource |-> r]

Init ==
  /\ sent \in [Caller -> [key : Key, body : Body] \cup {Nothing}]
  /\ madeFor  = [r \in Resource |-> Nothing]
  /\ bound    = [k \in Key |-> Nothing]
  /\ answered = [c \in Caller |-> Nothing]

\* What a step may do to one resource, one key and one caller.
Makes(r) == madeFor[r] = Nothing /\ madeFor'[r] \in Body

Binds(k) ==
  /\ bound[k] = Nothing
  /\ \E b \in Body, r \in Resource : bound'[k] = Binding(b, r) /\ madeFor'[r] = b

Forgets(k) == bound'[k] = Nothing

Sends(c) == sent[c] = Nothing /\ sent'[c] \in [key : Key, body : Body]

Answers(c) ==
  /\ answered[c] = Nothing /\ answered'[c] # Nothing
  /\ bound'[sent[c].key] = Binding(sent[c].body, answered'[c])

\* One transaction may make, bind and answer.
Next ==
  /\ \A r \in Resource : madeFor'[r] = madeFor[r] \/ Makes(r)
  /\ \A k \in Key : bound'[k] = bound[k] \/ Binds(k) \/ Forgets(k)
  /\ \A c \in Caller : /\ sent'[c] = sent[c] \/ Sends(c)
                       /\ answered'[c] = answered[c] \/ Answers(c)

Safety == Init /\ [][Next]_vars
=============================================================================
