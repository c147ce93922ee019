----------------------------- MODULE PlanReview -----------------------------
(***************************************************************************)
(* Plan versions, their reviews and their controlled export:               *)
(* create_plan, create_review, authorize_export of plan_repository.py and  *)
(* the handlers /generate, /optimize, /plans/{id}, .../reviews and         *)
(* .../export of main.py, with the worker's copy of the review rule.       *)
(*                                                                         *)
(* A user has one request open at a time.  A handler reads the plan in a   *)
(* connection of its own, decides, and writes in a later transaction;      *)
(* other requests run in between.  A review carries the wall clock of the  *)
(* host that served it, taken before its transaction, and the latest       *)
(* review of a plan is the one with the largest stamp.  The clock moves    *)
(* when a review commits: no two of them fall into one microsecond.        *)
(* authorize_export holds the row of the plan from its read to its audit   *)
(* event (FOR UPDATE; SQLite's BEGIN IMMEDIATE makes it one step).         *)
(*                                                                         *)
(* Left out: idempotency keys (module Idempotency), the text of reports,   *)
(* comments and the audit hash chain (module AuditOutbox).                 *)
(***************************************************************************)
EXTENDS Naturals, Sequences, FiniteSets

CONSTANTS
  User,         \* subjects of verified tokens
  Roles,        \* the roles of each user's token
  Skew,         \* how far the clock of the host that serves a user is ahead
  Content,      \* what a report says, as far as its hash tells
  AuthEnabled,  \* FALSE in the local development mode: nobody is authenticated
  Nobody,       \* no creator, no lock holder
  MaxPlans, MaxReviews, MaxEvents   \* bounds of the plan, review and audit tables

VARIABLES
  plan,       \* the plans table; a plan's id is its place
  reviews,    \* the reviews of each plan, in the order they were committed
  audit,      \* the audit events of plans, in the order they were committed
  rowLock,    \* per plan, the export that holds its row
  clock,      \* true time
  pc, req     \* each user's request: where its handler is, what it carries

vars == <<plan, reviews, audit, rowLock, clock, pc, req>>

Role == {"designer", "reviewer", "admin"}
Decision == {"approved", "rejected"}
PlanId == 1..MaxPlans
NoPlan == 0

ASSUME NobodyAssumption == Nobody \notin User
ASSUME RolesAssumption == Roles \in [User -> SUBSET Role]
ASSUME SkewAssumption == Skew \in [User -> Nat]
ASSUME AuthAssumption == AuthEnabled \in BOOLEAN
ASSUME BoundsAssumption == MaxPlans \in Nat /\ MaxReviews \in Nat /\ MaxEvents \in Nat

Plan == [owner : User \cup {Nobody}, parent : PlanId \cup {NoPlan},
         required : BOOLEAN, content : Content, version : Nat]

Review == [reviewer : User, decision : Decision, content : Content,
           at : Nat, basis : Nat]

Action == {"plan.created", "plan.optimized", "plan.review.approved",
           "plan.review.rejected", "plan.review.self_denied", "plan.exported",
           "plan.export.denied", "plan.optimize.denied", "plan.read.denied",
           "plan.audit.read.denied"}

Event == [action : Action, plan : PlanId, actor : User]

Request == [plan : PlanId \cup {NoPlan}, decision : Decision, version : Nat,
            required : BOOLEAN, at : Nat, allowed : BOOLEAN]

Idle == [plan |-> NoPlan, decision |-> "rejected", version |-> 0,
         required |-> FALSE, at |-> 0, allowed |-> FALSE]

Handler == {"idle", "optimizing", "reviewing", "stamped", "exporting", "authorized"}

Init ==
  /\ plan    = <<>>
  /\ reviews = [p \in PlanId |-> <<>>]
  /\ audit   = <<>>
  /\ rowLock = [p \in PlanId |-> Nobody]
  /\ clock   = 0
  /\ pc      = [u \in User |-> "idle"]
  /\ req     = [u \in User |-> Idle]

-----------------------------------------------------------------------------
(***************************************************************************)
(* Who may do what                                                         *)
(***************************************************************************)

\* require_roles; without authentication every role is granted.
HasRole(u, roles) == ~AuthEnabled \/ Roles[u] \cap roles # {}

\* _ensure_plan_access.
MayAccess(u, p) ==
  \/ ~AuthEnabled
  \/ Roles[u] \cap {"reviewer", "admin"} # {}
  \/ plan[p].owner = u

\* /plans: the filter on created_by.
Inbox(u) ==
  {p \in DOMAIN plan :
     AuthEnabled /\ Roles[u] \cap {"reviewer", "admin"} = {} => plan[p].owner = u}

\* The creator a new plan is stored with.
Creator(u) == IF AuthEnabled THEN u ELSE Nobody

\* Fault: the creator is not compared with the reviewer.
NeverOwn(u, p) == FALSE

\* A review of one's own plan.
SelfReview(u, p) == AuthEnabled /\ plan[p].owner = u

Append1(s, action, p, u) == Append(s, [action |-> action, plan |-> p, actor |-> u])

\* The audit event of an action; MaxEvents bounds the table.
Audited(u, p, action) ==
  /\ Len(audit) < MaxEvents
  /\ audit' = Append1(audit, action, p, u)

Start(u, where, r) ==
  /\ pc' = [pc EXCEPT ![u] = where]
  /\ req' = [req EXCEPT ![u] = r]

End(u) == Start(u, "idle", Idle)

\* A refusal that leaves an event in a transaction of its own.
Denied(u, p, action) ==
  /\ Audited(u, p, action)
  /\ UNCHANGED <<plan, reviews, rowLock, clock, pc, req>>

-----------------------------------------------------------------------------
(***************************************************************************)
(* New versions                                                            *)
(***************************************************************************)

\* _insert_plan: a new row, at version 1 and without reviews.
InsertPlan(u, parent, required, content, action) ==
  /\ Len(plan) < MaxPlans
  /\ plan' = Append(plan, [owner |-> Creator(u), parent |-> parent,
                           required |-> required, content |-> content, version |-> 1])
  /\ Audited(u, Len(plan) + 1, action)

\* Fault: the gate of the new report alone decides.
GateDecides(required, gate) == gate

\* A version derived from a plan under review stays under review, whatever
\* the safety gate says of its own report.
StillRequired(required, gate) == required \/ gate

\* /generate, or a generate job: nothing is read before the plan is stored.
Generate(u) ==
  /\ pc[u] = "idle"
  /\ HasRole(u, {"designer", "admin"})
  /\ \E gate \in BOOLEAN, content \in Content :
        InsertPlan(u, NoPlan, gate, content, "plan.created")
  /\ UNCHANGED <<reviews, rowLock, clock, pc, req>>

\* /optimize with a plan_id: _validated_parent_plan, then the model is called.
\* A report that is not the parent's is refused without a trace: no step.
BeginOptimize(u, p) ==
  /\ pc[u] = "idle"
  /\ HasRole(u, {"designer", "admin"})
  /\ \/ /\ ~MayAccess(u, p)
        /\ Denied(u, p, "plan.optimize.denied")
     \/ /\ MayAccess(u, p)
        /\ Start(u, "optimizing",
                 [Idle EXCEPT !.plan = p, !.required = plan[p].required])
        /\ UNCHANGED <<plan, reviews, audit, rowLock, clock>>

\* The model answered: the derived plan is stored.
FinishOptimize(u) ==
  /\ pc[u] = "optimizing"
  /\ \E gate \in BOOLEAN, content \in Content :
        InsertPlan(u, req[u].plan, StillRequired(req[u].required, gate), content,
                   "plan.optimized")
  /\ End(u)
  /\ UNCHANGED <<reviews, rowLock, clock>>

-----------------------------------------------------------------------------
(***************************************************************************)
(* Reviews                                                                 *)
(***************************************************************************)

\* /plans/{id}/reviews reads the plan and refuses its creator.
BeginReview(u, p) ==
  /\ pc[u] = "idle"
  /\ HasRole(u, {"reviewer", "admin"})
  /\ \/ /\ SelfReview(u, p)
        /\ Denied(u, p, "plan.review.self_denied")
     \/ /\ ~SelfReview(u, p)
        /\ \E d \in Decision :
              Start(u, "reviewing",
                    [Idle EXCEPT !.plan = p, !.decision = d, !.version = plan[p].version])
        /\ UNCHANGED <<plan, reviews, audit, rowLock, clock>>

\* create_review takes its time stamp before its transaction.
StampReview(u) ==
  /\ pc[u] = "reviewing"
  /\ Start(u, "stamped", [req[u] EXCEPT !.at = clock + Skew[u]])
  /\ UNCHANGED <<plan, reviews, audit, rowLock, clock>>

\* The WHERE clause of the version update.
Current(u, p) == plan[p].version = req[u].version

\* The transaction of create_review: it waits for the row of the plan.
CommitReview(u) ==
  LET p == req[u].plan
      d == req[u].decision
  IN
  /\ pc[u] = "stamped"
  /\ rowLock[p] = Nobody
  /\ Current(u, p)
  /\ Len(reviews[p]) < MaxReviews
  /\ plan' = [plan EXCEPT ![p].version = @ + 1]
  /\ reviews' = [reviews EXCEPT ![p] =
        Append(@, [reviewer |-> u, decision |-> d, content |-> plan[p].content,
                   at |-> req[u].at, basis |-> req[u].version])]
  /\ Audited(u, p, IF d = "approved" THEN "plan.review.approved"
                                     ELSE "plan.review.rejected")
  /\ clock' = clock + 1
  /\ End(u)
  /\ UNCHANGED rowLock

\* PlanConcurrentUpdateError.
ReviewConflicts(u) ==
  /\ pc[u] = "stamped"
  /\ rowLock[req[u].plan] = Nobody
  /\ ~Current(u, req[u].plan)
  /\ End(u)
  /\ UNCHANGED <<plan, reviews, audit, rowLock, clock>>

-----------------------------------------------------------------------------
(***************************************************************************)
(* Export                                                                  *)
(***************************************************************************)

\* The reviews _latest_review may return: the largest created_at, and among
\* equals the largest id, which is random.
Latest(p) ==
  {i \in DOMAIN reviews[p] :
     \A j \in DOMAIN reviews[p] : reviews[p][j].at <= reviews[p][i].at}

\* What export_allowed and authorize_export find.
Allows(p, allowed) ==
  \/ ~plan[p].required /\ allowed
  \/ plan[p].required /\ reviews[p] = <<>> /\ ~allowed
  \/ /\ plan[p].required
     /\ \E i \in Latest(p) :
          allowed = (/\ reviews[p][i].decision = "approved"
                     /\ reviews[p][i].content = plan[p].content)

\* /plans/{id} and /plans/{id}/audit change nothing but for a refusal.
RefuseRead(u, p) ==
  /\ pc[u] = "idle"
  /\ HasRole(u, Role)
  /\ ~MayAccess(u, p)
  /\ \E action \in {"plan.read.denied", "plan.audit.read.denied"} : Denied(u, p, action)

\* /plans/{id}/export reads the plan and checks the access.
BeginExport(u, p) ==
  /\ pc[u] = "idle"
  /\ HasRole(u, Role)
  /\ \/ /\ ~MayAccess(u, p)
        /\ Denied(u, p, "plan.export.denied")
     \/ /\ MayAccess(u, p)
        /\ Start(u, "exporting", [Idle EXCEPT !.plan = p])
        /\ UNCHANGED <<plan, reviews, audit, rowLock, clock>>

\* Fault: the SELECT takes no lock.
NoLock(u, p) == UNCHANGED rowLock

\* SELECT ... FOR UPDATE.
LockRow(u, p) ==
  /\ rowLock[p] = Nobody
  /\ rowLock' = [rowLock EXCEPT ![p] = u]

\* authorize_export locks the plan, then reads its latest review.
Authorize(u) ==
  LET p == req[u].plan IN
  /\ pc[u] = "exporting"
  /\ LockRow(u, p)
  /\ \E allowed \in BOOLEAN :
        /\ Allows(p, allowed)
        /\ Start(u, "authorized", [req[u] EXCEPT !.allowed = allowed])
  /\ UNCHANGED <<plan, reviews, audit, clock>>

Unlocked(u) == [p \in PlanId |-> IF rowLock[p] = u THEN Nobody ELSE rowLock[p]]

\* Its audit event and commit; only then does the report leave.
CommitExport(u) ==
  /\ pc[u] = "authorized"
  /\ Audited(u, req[u].plan,
             IF req[u].allowed THEN "plan.exported" ELSE "plan.export.denied")
  /\ rowLock' = Unlocked(u)
  /\ End(u)
  /\ UNCHANGED <<plan, reviews, clock>>

\* A request that fails, is cut off or whose process dies: the open
\* transaction rolls back and its locks go.
Abort(u) ==
  /\ pc[u] # "idle"
  /\ rowLock' = Unlocked(u)
  /\ End(u)
  /\ UNCHANGED <<plan, reviews, audit, clock>>

Step(u) ==
  \/ Generate(u)
  \/ \E p \in DOMAIN plan : \/ BeginOptimize(u, p) \/ BeginReview(u, p)
                           \/ RefuseRead(u, p) \/ BeginExport(u, p)
  \/ FinishOptimize(u)
  \/ StampReview(u) \/ CommitReview(u) \/ ReviewConflicts(u)
  \/ Authorize(u) \/ CommitExport(u)
  \/ Abort(u)

Next == \E u \in User : Step(u)

Spec == Init /\ [][Next]_vars
-----------------------------------------------------------------------------
(***************************************************************************)
(* Properties                                                              *)
(***************************************************************************)

\* Every variable holds what its table, lock or request may hold.
TypeOK ==
  /\ plan \in Seq(Plan) /\ Len(plan) <= MaxPlans
  /\ reviews \in [PlanId -> Seq(Review)]
  /\ audit \in Seq(Event)
  /\ rowLock \in [PlanId -> User \cup {Nobody}]
  /\ clock \in Nat
  /\ pc \in [User -> Handler]
  /\ req \in [User -> Request]

\* Every decision was taken by somebody who had seen all the earlier ones:
\* the i-th review of a plan was based on the version the first i - 1 left.
DecisionsSawTheEarlierOnes ==
  \A p \in PlanId : \A i \in DOMAIN reviews[p] : reviews[p][i].basis = i

\* The review _latest_review finds is the one committed last: although the
\* stamps are taken before the transactions, the version check puts them in
\* the order of the commits, as long as the hosts' clocks agree.
LatestIsLastCommitted ==
  \A p \in PlanId : reviews[p] # <<>> => Latest(p) = {Len(reviews[p])}

DecidesOn(e, p) ==
  e.plan = p /\ e.action \in {"plan.review.approved", "plan.review.rejected"}

\* The audit trail justifies each export: the last decision on the plan
\* before the export of a plan under review is an approval.  Nobody can slip
\* a rejection between the check of authorize_export and its event.
ExportFollowsApproval ==
  \A i \in DOMAIN audit :
    audit[i].action = "plan.exported" /\ plan[audit[i].plan].required =>
      \E j \in 1..(i - 1) :
        /\ audit[j].action = "plan.review.approved"
        /\ audit[j].plan = audit[i].plan
        /\ \A k \in (j + 1)..(i - 1) : ~DecidesOn(audit[k], audit[i].plan)

\* No reviewer decides on a version somebody else has decided on since, the
\* decision that counts is the one committed last, and none slips between the
\* check of an export and its audit event.
ExportsFollowApprovals ==
  DecisionsSawTheEarlierOnes /\ LatestIsLastCommitted /\ ExportFollowsApproval

\* Four eyes: with authentication on, no plan under review leaves the system
\* unless somebody other than its creator approved this very version.
FourEyes ==
  AuthEnabled =>
    \A i \in DOMAIN audit :
      audit[i].action = "plan.exported" /\ plan[audit[i].plan].required =>
        \E j \in 1..(i - 1) :
          /\ audit[j].action = "plan.review.approved"
          /\ audit[j].plan = audit[i].plan
          /\ audit[j].actor # plan[audit[i].plan].owner

\* Optimising a plan does not shake off its review: every version derived
\* from one under review, over any number of steps, is under review itself.
LineageStaysUnderReview ==
  \A p \in DOMAIN plan :
    plan[p].parent # NoPlan /\ plan[plan[p].parent].required => plan[p].required

\* What another designer wrote is not built upon: the author of a version
\* may read the version it derives from.
LineageIsAccessible ==
  \A p \in DOMAIN plan :
    plan[p].parent # NoPlan /\ plan[p].owner # Nobody =>
      \/ plan[plan[p].parent].owner = plan[p].owner
      \/ Roles[plan[p].owner] \cap {"reviewer", "admin"} # {}

\* The two implementations of access agree: the list filtered by the database
\* holds exactly the plans the object check lets through.
InboxIsWhatMayBeOpened ==
  \A u \in User : HasRole(u, Role) => Inbox(u) = {p \in DOMAIN plan : MayAccess(u, p)}

\* A chain of optimisations, whatever the safety gate says of its last
\* report, stays under the review its first version needed, builds on what
\* its author may read, and is listed to those who may open it.
LineageIsReviewed ==
  LineageStaysUnderReview /\ LineageIsAccessible /\ InboxIsWhatMayBeOpened
=============================================================================
