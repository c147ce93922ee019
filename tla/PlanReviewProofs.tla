-------------------------- MODULE PlanReviewProofs --------------------------
(***************************************************************************)
(* Proofs about PlanReview, for any users, roles and reports and any       *)
(* bounds on the tables; and about the import of PlanMigration as          *)
(* MCPlanStore runs it, for any plans of the legacy database.              *)
(***************************************************************************)
EXTENDS MCPlanStore, SequenceTheorems, FiniteSetTheorems, TLAPS

\* A request under way names a stored plan.
RequestsNamePlans == \A u \in User : pc[u] # "idle" => req[u].plan \in DOMAIN plan

\* So does an audit event.
EventsNamePlans == \A i \in DOMAIN audit : audit[i].plan \in DOMAIN plan

\* Only stored plans have reviews.
ReviewsAreOfPlans == \A p \in PlanId : reviews[p] # <<>> => p \in DOMAIN plan

Sound == TypeOK /\ RequestsNamePlans /\ EventsNamePlans /\ ReviewsAreOfPlans

\* What no step changes of a stored plan.
PlansStay ==
  /\ DOMAIN plan \subseteq DOMAIN plan'
  /\ \A p \in DOMAIN plan : /\ plan'[p].owner = plan[p].owner
                            /\ plan'[p].parent = plan[p].parent
                            /\ plan'[p].required = plan[p].required

-----------------------------------------------------------------------------
(***************************************************************************)
(* The tables, row by row.                                                 *)
(***************************************************************************)

\* The rows of the plans and audit tables are numbered from 1.
LEMMA Rows ==
  ASSUME TypeOK
  PROVE  /\ Len(plan) \in Nat /\ DOMAIN plan = 1..Len(plan)
         /\ Len(audit) \in Nat /\ DOMAIN audit = 1..Len(audit)
         /\ DOMAIN plan \subseteq PlanId
         /\ \A p \in DOMAIN plan : plan[p] \in Plan
         /\ \A i \in DOMAIN audit : audit[i] \in Event
<1>1. Len(plan) \in Nat /\ DOMAIN plan = 1..Len(plan)
  BY LenProperties DEF TypeOK
<1>2. Len(audit) \in Nat /\ DOMAIN audit = 1..Len(audit)
  BY LenProperties DEF TypeOK
<1>3. DOMAIN plan \subseteq PlanId
  BY <1>1, BoundsAssumption DEF TypeOK, PlanId
<1>4. \A p \in DOMAIN plan : plan[p] \in Plan
  BY <1>1, ElementOfSeq DEF TypeOK
<1>5. \A i \in DOMAIN audit : audit[i] \in Event
  BY <1>2, ElementOfSeq DEF TypeOK
<1> QED
  BY <1>1, <1>2, <1>3, <1>4, <1>5

\* After a step that keeps the types, too.
LEMMA PlanIdsNext ==
  ASSUME TypeOK'
  PROVE  DOMAIN plan' \subseteq PlanId
<1>1. plan' \in Seq(Plan) /\ Len(plan') <= MaxPlans
  BY DEF TypeOK
<1>2. Len(plan') \in Nat /\ DOMAIN plan' = 1..Len(plan')
  BY <1>1, LenProperties
<1> QED
  BY <1>1, <1>2, BoundsAssumption DEF PlanId

\* The reviews of a plan are numbered from 1 as well.
LEMMA ReviewRows ==
  ASSUME TypeOK, NEW p \in PlanId
  PROVE  /\ Len(reviews[p]) \in Nat /\ DOMAIN reviews[p] = 1..Len(reviews[p])
         /\ \A i \in DOMAIN reviews[p] : reviews[p][i] \in Review
<1>1. reviews[p] \in Seq(Review)
  BY DEF TypeOK
<1> QED
  BY <1>1, LenProperties, ElementOfSeq

\* What one audit event does to the trail.
LEMMA AuditedRow ==
  ASSUME TypeOK, NEW u \in User, NEW p \in DOMAIN plan', DOMAIN plan' \subseteq PlanId,
         NEW a \in Action, Audited(u, p, a)
  PROVE  /\ audit' \in Seq(Event)
         /\ DOMAIN audit' = 1..(Len(audit) + 1)
         /\ \A i \in DOMAIN audit : i \in DOMAIN audit' /\ audit'[i] = audit[i]
         /\ audit'[Len(audit) + 1] = [action |-> a, plan |-> p, actor |-> u]
<1> DEFINE e == [action |-> a, plan |-> p, actor |-> u]
<1>1. e \in Event
  BY DEF Event
<1>2. audit' = Append(audit, e) /\ audit \in Seq(Event)
  BY DEF Audited, Append1, TypeOK
<1> HIDE DEF e
<1>3. /\ Append(audit, e) \in Seq(Event)
      /\ Len(Append(audit, e)) = Len(audit) + 1
      /\ \A i \in 1..Len(audit) : Append(audit, e)[i] = audit[i]
      /\ Append(audit, e)[Len(audit) + 1] = e
  BY <1>1, <1>2, AppendProperties
<1>4. DOMAIN Append(audit, e) = 1..(Len(audit) + 1)
  BY <1>3, LenProperties
<1> QED
  BY <1>2, <1>3, <1>4, Rows DEF e

\* What _insert_plan does to the plans.
LEMMA InsertedRow ==
  ASSUME TypeOK, NEW u \in User, NEW parent \in PlanId \cup {NoPlan},
         NEW required \in BOOLEAN, NEW content \in Content, NEW a \in Action,
         InsertPlan(u, parent, required, content, a)
  PROVE  /\ plan' \in Seq(Plan) /\ Len(plan') <= MaxPlans
         /\ DOMAIN plan' = 1..(Len(plan) + 1) /\ DOMAIN plan' \subseteq PlanId
         /\ Len(plan) + 1 \in DOMAIN plan'
         /\ \A p \in DOMAIN plan : p \in DOMAIN plan' /\ plan'[p] = plan[p]
         /\ plan'[Len(plan) + 1] = [owner |-> Creator(u), parent |-> parent,
              required |-> required, content |-> content, version |-> 1]
<1> DEFINE r == [owner |-> Creator(u), parent |-> parent, required |-> required,
                 content |-> content, version |-> 1]
<1>1. r \in Plan
  BY DEF Plan, Creator
<1>2. plan' = Append(plan, r) /\ plan \in Seq(Plan) /\ Len(plan) < MaxPlans
  BY DEF InsertPlan, TypeOK
<1> HIDE DEF r
<1>3. /\ Append(plan, r) \in Seq(Plan)
      /\ Len(Append(plan, r)) = Len(plan) + 1
      /\ \A i \in 1..Len(plan) : Append(plan, r)[i] = plan[i]
      /\ Append(plan, r)[Len(plan) + 1] = r
  BY <1>1, <1>2, AppendProperties
<1>4. DOMAIN Append(plan, r) = 1..(Len(plan) + 1)
  BY <1>3, LenProperties
<1>5. 1..(Len(plan) + 1) \subseteq PlanId
  BY <1>2, Rows, BoundsAssumption DEF PlanId
<1>6. Len(plan') <= MaxPlans
  BY <1>2, <1>3, Rows, BoundsAssumption
<1> QED
  BY <1>2, <1>3, <1>4, <1>5, <1>6, Rows DEF r

\* The version update of create_review and the review it stores.
LEMMA CommittedRow ==
  ASSUME Sound, NEW u \in User, CommitReview(u)
  PROVE  LET p == req[u].plan IN
         /\ p \in DOMAIN plan
         /\ plan' \in Seq(Plan) /\ Len(plan') = Len(plan) /\ DOMAIN plan' = DOMAIN plan
         /\ \A q \in DOMAIN plan :
              plan'[q] = IF q = p THEN [plan[p] EXCEPT !.version = @ + 1] ELSE plan[q]
         /\ reviews' \in [PlanId -> Seq(Review)]
         /\ \A q \in PlanId : q # p => reviews'[q] = reviews[q]
         /\ Len(reviews'[p]) = Len(reviews[p]) + 1
         /\ \A i \in DOMAIN reviews[p] : reviews'[p][i] = reviews[p][i]
         /\ reviews'[p][Len(reviews[p]) + 1] =
              [reviewer |-> u, decision |-> req[u].decision, content |-> plan[p].content,
               at |-> req[u].at, basis |-> req[u].version]
<1> DEFINE p == req[u].plan
           new == [plan[p] EXCEPT !.version = @ + 1]
           r == [reviewer |-> u, decision |-> req[u].decision, content |-> plan[p].content,
                 at |-> req[u].at, basis |-> req[u].version]
<1>1. p \in DOMAIN plan /\ p \in PlanId /\ plan[p] \in Plan /\ p \in 1..Len(plan)
  BY Rows DEF Sound, RequestsNamePlans, CommitReview
<1>2. new \in Plan
  BY <1>1 DEF Plan
<1>3. plan' = [plan EXCEPT ![p] = new] /\ plan \in Seq(Plan)
  BY <1>1 DEF CommitReview, Sound, TypeOK
<1>4. req[u] \in Request
  BY DEF Sound, TypeOK
<1>5. r \in Review
  BY <1>1, <1>4 DEF Plan, Request, Review
<1>6. reviews' = [reviews EXCEPT ![p] = Append(reviews[p], r)]
  BY <1>1 DEF CommitReview, Sound, TypeOK
<1> HIDE DEF p, new, r
<1>7. /\ plan' \in Seq(Plan) /\ Len(plan') = Len(plan)
      /\ \A q \in 1..Len(plan) : plan'[q] = IF q = p THEN new ELSE plan[q]
  BY <1>1, <1>2, <1>3, ExceptSeq
<1>8. DOMAIN plan' = DOMAIN plan
  BY <1>3
<1>9. reviews[p] \in Seq(Review)
  BY <1>1 DEF Sound, TypeOK
<1>10. /\ Append(reviews[p], r) \in Seq(Review)
       /\ Len(Append(reviews[p], r)) = Len(reviews[p]) + 1
       /\ \A i \in 1..Len(reviews[p]) : Append(reviews[p], r)[i] = reviews[p][i]
       /\ Append(reviews[p], r)[Len(reviews[p]) + 1] = r
  BY <1>5, <1>9, AppendProperties
<1>11. /\ reviews' \in [PlanId -> Seq(Review)]
       /\ reviews'[p] = Append(reviews[p], r)
       /\ \A q \in PlanId : q # p => reviews'[q] = reviews[q]
  BY <1>1, <1>6, <1>10 DEF Sound, TypeOK
<1>12. DOMAIN reviews[p] = 1..Len(reviews[p])
  BY <1>1, ReviewRows DEF Sound
<1> QED
  BY <1>1, <1>7, <1>8, <1>10, <1>11, <1>12, Rows DEF Sound, p, new, r

\* An audit event without a change of the plans or their reviews.
LEMMA AuditOnly ==
  ASSUME Sound, NEW u \in User, NEW p \in DOMAIN plan, NEW a \in Action,
         Audited(u, p, a), UNCHANGED <<plan, reviews>>
  PROVE  audit' \in Seq(Event) /\ EventsNamePlans' /\ ReviewsAreOfPlans' /\ PlansStay
<1>1. DOMAIN plan' \subseteq PlanId /\ p \in DOMAIN plan'
  BY Rows DEF Sound
<1>2. /\ audit' \in Seq(Event)
      /\ DOMAIN audit' = 1..(Len(audit) + 1)
      /\ \A i \in DOMAIN audit : audit'[i] = audit[i]
      /\ audit'[Len(audit) + 1] = [action |-> a, plan |-> p, actor |-> u]
  BY <1>1, AuditedRow DEF Sound
<1>3. EventsNamePlans'
  BY <1>1, <1>2, Rows DEF Sound, EventsNamePlans
<1> QED
  BY <1>2, <1>3 DEF Sound, ReviewsAreOfPlans, PlansStay

\* A new plan and its event.
LEMMA NewPlan ==
  ASSUME Sound, NEW u \in User, NEW parent \in PlanId \cup {NoPlan},
         NEW required \in BOOLEAN, NEW content \in Content, NEW a \in Action,
         InsertPlan(u, parent, required, content, a), UNCHANGED reviews
  PROVE  audit' \in Seq(Event) /\ EventsNamePlans' /\ ReviewsAreOfPlans' /\ PlansStay
<1>1. /\ DOMAIN plan' = 1..(Len(plan) + 1) /\ DOMAIN plan' \subseteq PlanId
      /\ \A p \in DOMAIN plan : p \in DOMAIN plan' /\ plan'[p] = plan[p]
  BY InsertedRow DEF Sound
<1>2. Len(plan) + 1 \in DOMAIN plan' /\ Audited(u, Len(plan) + 1, a)
  BY <1>1, Rows DEF InsertPlan, Sound
<1>3. /\ audit' \in Seq(Event)
      /\ DOMAIN audit' = 1..(Len(audit) + 1)
      /\ \A i \in DOMAIN audit : audit'[i] = audit[i]
      /\ audit'[Len(audit) + 1] = [action |-> a, plan |-> Len(plan) + 1, actor |-> u]
  BY <1>1, <1>2, AuditedRow DEF Sound
<1>4. EventsNamePlans'
  BY <1>1, <1>2, <1>3, Rows DEF Sound, EventsNamePlans
<1>5. PlansStay
  BY <1>1 DEF PlansStay
<1> QED
  BY <1>1, <1>3, <1>4, <1>5 DEF Sound, ReviewsAreOfPlans

\* A committed review and its event.
LEMMA NewReview ==
  ASSUME Sound, NEW u \in User, CommitReview(u)
  PROVE  audit' \in Seq(Event) /\ EventsNamePlans' /\ ReviewsAreOfPlans' /\ PlansStay
<1> DEFINE p == req[u].plan
           a == IF req[u].decision = "approved" THEN "plan.review.approved"
                                                 ELSE "plan.review.rejected"
<1>1. /\ p \in DOMAIN plan /\ DOMAIN plan' = DOMAIN plan
      /\ \A q \in DOMAIN plan :
           plan'[q] = IF q = p THEN [plan[p] EXCEPT !.version = @ + 1] ELSE plan[q]
      /\ \A q \in PlanId : q # p => reviews'[q] = reviews[q]
  BY CommittedRow
<1>2. PlansStay
  BY <1>1, Rows DEF PlansStay, Sound, Plan
<1>3. a \in Action /\ Audited(u, p, a)
  BY DEF Action, CommitReview
<1> HIDE DEF a
<1>4. DOMAIN plan' \subseteq PlanId /\ p \in DOMAIN plan'
  BY <1>1, Rows DEF Sound
<1>5. /\ audit' \in Seq(Event)
      /\ DOMAIN audit' = 1..(Len(audit) + 1)
      /\ \A i \in DOMAIN audit : audit'[i] = audit[i]
      /\ audit'[Len(audit) + 1] = [action |-> a, plan |-> p, actor |-> u]
  BY <1>3, <1>4, AuditedRow DEF Sound
<1>6. EventsNamePlans'
  BY <1>1, <1>4, <1>5, Rows DEF Sound, EventsNamePlans
<1>7. ReviewsAreOfPlans'
  BY <1>1 DEF Sound, ReviewsAreOfPlans
<1> QED
  BY <1>2, <1>5, <1>6, <1>7

-----------------------------------------------------------------------------
(***************************************************************************)
(* Types and references.                                                   *)
(***************************************************************************)

\* Initially the tables are empty.
LEMMA InitSound == Init => Sound
<1> SUFFICES ASSUME Init PROVE Sound
  OBVIOUS
<1>1. /\ plan \in Seq(Plan) /\ Len(plan) = 0 /\ audit \in Seq(Event) /\ Len(audit) = 0
      /\ reviews \in [PlanId -> Seq(Review)]
  BY EmptySeq DEF Init
<1>2. Idle \in Request
  BY DEF Idle, Request, Decision
<1>3. TypeOK
  BY <1>1, <1>2, BoundsAssumption DEF TypeOK, Init, Handler
<1> QED
  BY <1>3, Rows DEF Init, Sound, RequestsNamePlans, EventsNamePlans, ReviewsAreOfPlans

\* Where a request goes keeps the types.
LEMMA StartStep ==
  ASSUME Sound, NEW u \in User, NEW where \in Handler, NEW r \in Request,
         where # "idle" => r.plan \in DOMAIN plan', Start(u, where, r),
         DOMAIN plan \subseteq DOMAIN plan'
  PROVE  /\ pc' \in [User -> Handler] /\ req' \in [User -> Request]
         /\ RequestsNamePlans'
  BY DEF Start, Sound, TypeOK, RequestsNamePlans

\* So does its end.
LEMMA EndStep ==
  ASSUME Sound, NEW u \in User, End(u), DOMAIN plan \subseteq DOMAIN plan'
  PROVE  /\ pc' \in [User -> Handler] /\ req' \in [User -> Request]
         /\ RequestsNamePlans'
<1>1. Idle \in Request /\ "idle" \in Handler
  BY DEF Idle, Request, Decision, Handler
<1> QED
  BY <1>1, StartStep DEF End

\* A refusal keeps types and references.
LEMMA DeniedStep ==
  ASSUME Sound, NEW u \in User, NEW p \in DOMAIN plan, NEW a \in Action, Denied(u, p, a)
  PROVE  Sound' /\ PlansStay
<1>1. audit' \in Seq(Event) /\ EventsNamePlans' /\ ReviewsAreOfPlans' /\ PlansStay
  BY AuditOnly DEF Denied
<1> QED
  BY <1>1 DEF Denied, Sound, TypeOK, RequestsNamePlans

\* No step leaves the types or loses a plan.
LEMMA SoundStep == Sound /\ [Next]_vars => Sound' /\ PlansStay
<1> SUFFICES ASSUME Sound, [Next]_vars PROVE Sound' /\ PlansStay
  OBVIOUS
<1> DEFINE Tables == UNCHANGED <<plan, reviews, audit>>
<1>1. ASSUME Tables PROVE EventsNamePlans' /\ ReviewsAreOfPlans' /\ PlansStay
  BY <1>1 DEF Sound, EventsNamePlans, ReviewsAreOfPlans, PlansStay
<1>2. Idle \in Request
  BY DEF Idle, Request, Decision
<1>3. \A p \in DOMAIN plan : p \in PlanId /\ plan[p] \in Plan
  BY Rows DEF Sound
<1>4. ASSUME NEW u \in User, Generate(u) PROVE Sound' /\ PlansStay
  <2>1. PICK gate \in BOOLEAN, content \in Content :
          InsertPlan(u, NoPlan, gate, content, "plan.created")
    BY <1>4 DEF Generate
  <2>2. audit' \in Seq(Event) /\ EventsNamePlans' /\ ReviewsAreOfPlans' /\ PlansStay
    BY <1>4, <2>1, NewPlan DEF Generate, Action
  <2>3. plan' \in Seq(Plan) /\ Len(plan') <= MaxPlans
    BY <2>1, InsertedRow DEF Sound, Action
  <2> QED
    BY <1>4, <2>2, <2>3 DEF Generate, Sound, TypeOK, RequestsNamePlans, PlansStay
<1>5. ASSUME NEW u \in User, NEW p \in DOMAIN plan, BeginOptimize(u, p)
      PROVE Sound' /\ PlansStay
  <2>1. CASE Denied(u, p, "plan.optimize.denied")
    BY <2>1, DeniedStep DEF Action
  <2>2. CASE /\ Start(u, "optimizing",
                      [Idle EXCEPT !.plan = p, !.required = plan[p].required])
             /\ UNCHANGED <<plan, reviews, audit, rowLock, clock>>
    <3>1. [Idle EXCEPT !.plan = p, !.required = plan[p].required] \in Request
      BY <1>2, <1>3 DEF Request, Plan
    <3>2. [Idle EXCEPT !.plan = p, !.required = plan[p].required].plan = p
      BY DEF Idle
    <3>3. /\ pc' \in [User -> Handler] /\ req' \in [User -> Request]
          /\ RequestsNamePlans'
      BY <2>2, <3>1, <3>2, StartStep DEF Handler
    <3> QED
      BY <1>1, <2>2, <3>3 DEF Sound, TypeOK
  <2> QED
    BY <1>5, <2>1, <2>2 DEF BeginOptimize
<1>6. ASSUME NEW u \in User, FinishOptimize(u) PROVE Sound' /\ PlansStay
  <2>1. PICK gate \in BOOLEAN, content \in Content :
          InsertPlan(u, req[u].plan, StillRequired(req[u].required, gate), content,
                     "plan.optimized")
    BY <1>6 DEF FinishOptimize
  <2>2. /\ req[u].plan \in PlanId \cup {NoPlan}
        /\ StillRequired(req[u].required, gate) \in BOOLEAN
    BY <2>1 DEF Sound, TypeOK, Request, StillRequired
  <2>3. audit' \in Seq(Event) /\ EventsNamePlans' /\ ReviewsAreOfPlans' /\ PlansStay
    BY <1>6, <2>1, <2>2, NewPlan DEF FinishOptimize, Action
  <2>4. plan' \in Seq(Plan) /\ Len(plan') <= MaxPlans
    BY <2>1, <2>2, InsertedRow DEF Sound, Action
  <2>5. pc' \in [User -> Handler] /\ req' \in [User -> Request] /\ RequestsNamePlans'
    BY <1>6, <2>3, EndStep DEF FinishOptimize, PlansStay
  <2> QED
    BY <1>6, <2>3, <2>4, <2>5 DEF FinishOptimize, Sound, TypeOK
<1>7. ASSUME NEW u \in User, NEW p \in DOMAIN plan, BeginReview(u, p)
      PROVE Sound' /\ PlansStay
  <2>1. CASE Denied(u, p, "plan.review.self_denied")
    BY <2>1, DeniedStep DEF Action
  <2>2. CASE /\ \E d \in Decision :
                  Start(u, "reviewing",
                        [Idle EXCEPT !.plan = p, !.decision = d, !.version = plan[p].version])
             /\ UNCHANGED <<plan, reviews, audit, rowLock, clock>>
    <3>1. PICK d \in Decision :
            Start(u, "reviewing",
                  [Idle EXCEPT !.plan = p, !.decision = d, !.version = plan[p].version])
      BY <2>2
    <3>2. [Idle EXCEPT !.plan = p, !.decision = d, !.version = plan[p].version] \in Request
      BY <1>2, <1>3 DEF Request, Plan
    <3>3. [Idle EXCEPT !.plan = p, !.decision = d, !.version = plan[p].version].plan = p
      BY DEF Idle
    <3>4. /\ pc' \in [User -> Handler] /\ req' \in [User -> Request]
          /\ RequestsNamePlans'
      BY <2>2, <3>1, <3>2, <3>3, StartStep DEF Handler
    <3> QED
      BY <1>1, <2>2, <3>4 DEF Sound, TypeOK
  <2> QED
    BY <1>7, <2>1, <2>2 DEF BeginReview
<1>8. ASSUME NEW u \in User, StampReview(u) PROVE Sound' /\ PlansStay
  <2> DEFINE now == clock + Skew[u]
  <2>0. now \in Nat
    BY SkewAssumption DEF Sound, TypeOK
  <2> HIDE DEF now
  <2>1. [req[u] EXCEPT !.at = now] \in Request /\ [req[u] EXCEPT !.at = now].plan = req[u].plan
    BY <2>0 DEF Sound, TypeOK, Request
  <2>2. req[u].plan \in DOMAIN plan
    BY <1>8 DEF Sound, RequestsNamePlans, StampReview
  <2>3. /\ pc' \in [User -> Handler] /\ req' \in [User -> Request]
        /\ RequestsNamePlans'
    BY <1>8, <2>1, <2>2, StartStep DEF StampReview, Handler, now
  <2> QED
    BY <1>1, <1>8, <2>3 DEF StampReview, Sound, TypeOK
<1>9. ASSUME NEW u \in User, CommitReview(u) PROVE Sound' /\ PlansStay
  <2>1. audit' \in Seq(Event) /\ EventsNamePlans' /\ ReviewsAreOfPlans' /\ PlansStay
    BY <1>9, NewReview
  <2>2. /\ plan' \in Seq(Plan) /\ Len(plan') = Len(plan)
        /\ reviews' \in [PlanId -> Seq(Review)]
    BY <1>9, CommittedRow
  <2>3. /\ pc' \in [User -> Handler] /\ req' \in [User -> Request]
        /\ RequestsNamePlans'
    BY <1>9, <2>1, EndStep DEF CommitReview, PlansStay
  <2>4. clock' \in Nat /\ UNCHANGED rowLock
    BY <1>9 DEF CommitReview, Sound, TypeOK
  <2> QED
    BY <2>1, <2>2, <2>3, <2>4 DEF Sound, TypeOK
<1>10. ASSUME NEW u \in User, ReviewConflicts(u) PROVE Sound' /\ PlansStay
  <2>1. /\ pc' \in [User -> Handler] /\ req' \in [User -> Request]
        /\ RequestsNamePlans'
    BY <1>10, EndStep DEF ReviewConflicts
  <2> QED
    BY <1>1, <1>10, <2>1 DEF ReviewConflicts, Sound, TypeOK
<1>11. ASSUME NEW u \in User, NEW p \in DOMAIN plan, RefuseRead(u, p)
       PROVE Sound' /\ PlansStay
  BY <1>11, DeniedStep DEF RefuseRead, Action
<1>12. ASSUME NEW u \in User, NEW p \in DOMAIN plan, BeginExport(u, p)
       PROVE Sound' /\ PlansStay
  <2>1. CASE Denied(u, p, "plan.export.denied")
    BY <2>1, DeniedStep DEF Action
  <2>2. CASE /\ Start(u, "exporting", [Idle EXCEPT !.plan = p])
             /\ UNCHANGED <<plan, reviews, audit, rowLock, clock>>
    <3>1. [Idle EXCEPT !.plan = p] \in Request /\ [Idle EXCEPT !.plan = p].plan = p
      BY <1>2, <1>3 DEF Request, Idle
    <3>2. /\ pc' \in [User -> Handler] /\ req' \in [User -> Request]
          /\ RequestsNamePlans'
      BY <2>2, <3>1, StartStep DEF Handler
    <3> QED
      BY <1>1, <2>2, <3>2 DEF Sound, TypeOK
  <2> QED
    BY <1>12, <2>1, <2>2 DEF BeginExport
<1>13. ASSUME NEW u \in User, Authorize(u) PROVE Sound' /\ PlansStay
  <2>1. PICK allowed \in BOOLEAN :
          Start(u, "authorized", [req[u] EXCEPT !.allowed = allowed])
    BY <1>13 DEF Authorize
  <2>2. /\ [req[u] EXCEPT !.allowed = allowed] \in Request
        /\ [req[u] EXCEPT !.allowed = allowed].plan = req[u].plan
    BY DEF Sound, TypeOK, Request
  <2>3. req[u].plan \in DOMAIN plan
    BY <1>13 DEF Sound, RequestsNamePlans, Authorize
  <2>4. /\ pc' \in [User -> Handler] /\ req' \in [User -> Request]
        /\ RequestsNamePlans'
    BY <1>13, <2>1, <2>2, <2>3, StartStep DEF Authorize, Handler
  <2>5. rowLock' \in [PlanId -> User \cup {Nobody}]
    BY <1>13 DEF Authorize, LockRow, Sound, TypeOK
  <2> QED
    BY <1>1, <1>13, <2>4, <2>5 DEF Authorize, Sound, TypeOK
<1>14. ASSUME NEW u \in User, CommitExport(u) PROVE Sound' /\ PlansStay
  <2> DEFINE a == IF req[u].allowed THEN "plan.exported" ELSE "plan.export.denied"
  <2>1. /\ req[u].plan \in DOMAIN plan /\ a \in Action /\ Audited(u, req[u].plan, a)
        /\ UNCHANGED <<plan, reviews>>
    BY <1>14 DEF CommitExport, Sound, RequestsNamePlans, Action
  <2> HIDE DEF a
  <2>2. audit' \in Seq(Event) /\ EventsNamePlans' /\ ReviewsAreOfPlans' /\ PlansStay
    BY <2>1, AuditOnly
  <2>3. /\ pc' \in [User -> Handler] /\ req' \in [User -> Request]
        /\ RequestsNamePlans'
    BY <1>14, <2>1, EndStep DEF CommitExport
  <2>4. rowLock' \in [PlanId -> User \cup {Nobody}]
    BY <1>14 DEF CommitExport, Unlocked, Sound, TypeOK
  <2> QED
    BY <1>14, <2>2, <2>3, <2>4 DEF CommitExport, Sound, TypeOK
<1>15. ASSUME NEW u \in User, Abort(u) PROVE Sound' /\ PlansStay
  <2>1. /\ pc' \in [User -> Handler] /\ req' \in [User -> Request]
        /\ RequestsNamePlans'
    BY <1>15, EndStep DEF Abort
  <2>2. rowLock' \in [PlanId -> User \cup {Nobody}]
    BY <1>15 DEF Abort, Unlocked, Sound, TypeOK
  <2> QED
    BY <1>1, <1>15, <2>1, <2>2 DEF Abort, Sound, TypeOK
<1>16. CASE UNCHANGED vars
  BY <1>1, <1>16 DEF vars, Sound, TypeOK, RequestsNamePlans
<1> QED
  BY <1>4, <1>5, <1>6, <1>7, <1>8, <1>9, <1>10, <1>11, <1>12, <1>13, <1>14, <1>15, <1>16
  DEF Next, Step

\* Type correctness: plans, reviews, audit events, locks and requests keep
\* their shapes, and every event, review and request names a stored plan.
THEOREM TypesAndReferences == Spec => []Sound
<1>1. Init => Sound
  BY InitSound
<1>2. Sound /\ [Next]_vars => Sound'
  BY SoundStep
<1> QED
  BY <1>1, <1>2, PTL DEF Spec

-----------------------------------------------------------------------------
(***************************************************************************)
(* What one step can do.                                                   *)
(***************************************************************************)

IsDecision(a) == a \in {"plan.review.approved", "plan.review.rejected"}

\* The audit trail grows by an event or not at all; exports and decisions are
\* recorded by the transactions that make them.
NextEvent ==
  \/ UNCHANGED audit
  \/ \E u \in User, p \in DOMAIN plan', a \in Action :
       /\ Audited(u, p, a)
       /\ a = "plan.exported" => CommitExport(u) /\ req[u].allowed /\ p = req[u].plan
       /\ IsDecision(a) => /\ CommitReview(u) /\ p = req[u].plan
                           /\ a = "plan.review.approved" <=> req[u].decision = "approved"

\* Only a commit of create_review touches reviews or the versions of plans.
NextReview ==
  \/ /\ UNCHANGED reviews
     /\ \A p \in DOMAIN plan : plan'[p] = plan[p]
  \/ \E u \in User : CommitReview(u)

\* Only an optimisation stores a plan that derives from another.
NextPlan ==
  \/ DOMAIN plan' = DOMAIN plan
  \/ \E u \in User, parent \in PlanId \cup {NoPlan}, gate \in BOOLEAN, content \in Content :
       \/ InsertPlan(u, NoPlan, gate, content, "plan.created")
       \/ /\ pc[u] = "optimizing"
          /\ InsertPlan(u, req[u].plan, StillRequired(req[u].required, gate), content,
                        "plan.optimized")

NextTables == NextEvent /\ NextReview /\ NextPlan

\* A step that records something but a decision or an export.
LEMMA OtherEvent ==
  ASSUME Sound, NEW u \in User, NEW p \in DOMAIN plan', NEW a \in Action, Audited(u, p, a),
         a # "plan.exported", ~IsDecision(a)
  PROVE  NextEvent
  BY DEF NextEvent

\* Every step does to the tables what NextTables lists.
LEMMA TableStep == Sound /\ [Next]_vars => NextTables
<1> SUFFICES ASSUME Sound, [Next]_vars PROVE NextTables
  OBVIOUS
<1> USE DEF NextTables
<1>1. ASSUME UNCHANGED <<plan, reviews, audit>> PROVE NextTables
  BY <1>1 DEF NextEvent, NextReview, NextPlan
<1>2. ASSUME NEW u \in User, NEW p \in DOMAIN plan, NEW a \in Action,
             a # "plan.exported", ~IsDecision(a), Denied(u, p, a)
      PROVE NextTables
  BY <1>2, OtherEvent DEF Denied, NextReview, NextPlan
<1>3. ASSUME NEW u \in User, Generate(u) PROVE NextTables
  <2>1. PICK gate \in BOOLEAN, content \in Content :
          InsertPlan(u, NoPlan, gate, content, "plan.created")
    BY <1>3 DEF Generate
  <2>2. /\ \A p \in DOMAIN plan : plan'[p] = plan[p]
        /\ Len(plan) + 1 \in DOMAIN plan'
    BY <2>1, InsertedRow DEF Sound, Action
  <2>3. Audited(u, Len(plan) + 1, "plan.created")
    BY <2>1 DEF InsertPlan
  <2>4. NextEvent
    BY <2>2, <2>3, OtherEvent DEF Action, IsDecision
  <2> QED
    BY <1>3, <2>1, <2>2, <2>4 DEF Generate, NextReview, NextPlan
<1>4. ASSUME NEW u \in User, FinishOptimize(u) PROVE NextTables
  <2>1. PICK gate \in BOOLEAN, content \in Content :
          InsertPlan(u, req[u].plan, StillRequired(req[u].required, gate), content,
                     "plan.optimized")
    BY <1>4 DEF FinishOptimize
  <2>2. /\ req[u].plan \in PlanId \cup {NoPlan}
        /\ StillRequired(req[u].required, gate) \in BOOLEAN
    BY DEF Sound, TypeOK, Request, StillRequired
  <2>3. /\ \A p \in DOMAIN plan : plan'[p] = plan[p]
        /\ Len(plan) + 1 \in DOMAIN plan'
    BY <2>1, <2>2, InsertedRow DEF Sound, Action
  <2>4. Audited(u, Len(plan) + 1, "plan.optimized")
    BY <2>1 DEF InsertPlan
  <2>5. NextEvent
    BY <2>3, <2>4, OtherEvent DEF Action, IsDecision
  <2> QED
    BY <1>4, <2>1, <2>2, <2>3, <2>5 DEF FinishOptimize, NextReview, NextPlan
<1>5. ASSUME NEW u \in User, NEW p \in DOMAIN plan,
             BeginOptimize(u, p) \/ BeginReview(u, p) \/ RefuseRead(u, p) \/ BeginExport(u, p)
      PROVE NextTables
  <2>1. \/ UNCHANGED <<plan, reviews, audit>>
        \/ \E a \in {"plan.optimize.denied", "plan.review.self_denied", "plan.read.denied",
                     "plan.audit.read.denied", "plan.export.denied"} : Denied(u, p, a)
    BY <1>5 DEF BeginOptimize, BeginReview, RefuseRead, BeginExport
  <2> QED
    BY <1>1, <1>2, <2>1 DEF Action, IsDecision
<1>6. ASSUME NEW u \in User, CommitReview(u) PROVE NextTables
  <2> DEFINE p == req[u].plan
             a == IF req[u].decision = "approved" THEN "plan.review.approved"
                                                   ELSE "plan.review.rejected"
  <2>1. p \in DOMAIN plan' /\ DOMAIN plan' = DOMAIN plan
    BY <1>6, CommittedRow
  <2>2. /\ a \in Action /\ Audited(u, p, a) /\ a # "plan.exported"
        /\ a = "plan.review.approved" <=> req[u].decision = "approved"
    BY <1>6 DEF CommitReview, Action
  <2> HIDE DEF p, a
  <2> QED
    BY <1>6, <2>1, <2>2 DEF NextEvent, NextReview, NextPlan, p
<1>7. ASSUME NEW u \in User, CommitExport(u) PROVE NextTables
  <2> DEFINE p == req[u].plan
             a == IF req[u].allowed THEN "plan.exported" ELSE "plan.export.denied"
  <2>1. p \in DOMAIN plan' /\ UNCHANGED <<plan, reviews>>
    BY <1>7 DEF CommitExport, Sound, RequestsNamePlans
  <2>2. /\ a \in Action /\ Audited(u, p, a) /\ ~IsDecision(a)
        /\ a = "plan.exported" => req[u].allowed
    BY <1>7 DEF CommitExport, Action, IsDecision
  <2> HIDE DEF p, a
  <2> QED
    BY <1>7, <2>1, <2>2 DEF NextEvent, NextReview, NextPlan, p
<1>8. ASSUME NEW u \in User,
             StampReview(u) \/ ReviewConflicts(u) \/ Authorize(u) \/ Abort(u)
      PROVE NextTables
  BY <1>1, <1>8 DEF StampReview, ReviewConflicts, Authorize, Abort
<1>9. CASE UNCHANGED vars
  BY <1>1, <1>9 DEF vars
<1> QED
  BY <1>3, <1>4, <1>5, <1>6, <1>7, <1>8, <1>9 DEF Next, Step

\* Events are appended, never changed.
TrailGrows ==
  /\ DOMAIN audit' \in {DOMAIN audit, 1..(Len(audit) + 1)}
  /\ \A i \in DOMAIN audit : i \in DOMAIN audit' /\ audit'[i] = audit[i]

\* No step does anything else to the trail.
LEMMA TrailStep == Sound /\ [Next]_vars => TrailGrows
<1> SUFFICES ASSUME Sound, [Next]_vars PROVE TrailGrows
  OBVIOUS
<1>1. NextEvent
  BY TableStep DEF NextTables
<1>2. DOMAIN plan' \subseteq PlanId
  BY SoundStep, PlanIdsNext DEF Sound
<1>3. ASSUME NEW u \in User, NEW p \in DOMAIN plan', NEW a \in Action, Audited(u, p, a)
      PROVE TrailGrows
  BY <1>2, <1>3, AuditedRow DEF Sound, TrailGrows
<1> QED
  BY <1>1, <1>3 DEF NextEvent, TrailGrows

\* Where a request is after a step: where it was, at its end, or at what its
\* own handler began.
LEMMA HandlerStep ==
  ASSUME Sound, [Next]_vars, NEW u \in User
  PROVE  \/ pc'[u] = "idle"
         \/ pc'[u] = pc[u] /\ req'[u] = req[u]
         \/ \E p \in DOMAIN plan :
              \/ /\ MayAccess(u, p) /\ pc'[u] = "optimizing"
                 /\ req'[u] = [Idle EXCEPT !.plan = p, !.required = plan[p].required]
              \/ \E d \in Decision :
                   /\ ~SelfReview(u, p) /\ pc'[u] = "reviewing"
                   /\ req'[u] = [Idle EXCEPT !.plan = p, !.decision = d,
                                              !.version = plan[p].version]
              \/ pc'[u] = "exporting"
         \/ StampReview(u) /\ pc'[u] = "stamped"
                           /\ req'[u] = [req[u] EXCEPT !.at = clock + Skew[u]]
         \/ \E allowed \in BOOLEAN :
              /\ Authorize(u) /\ pc'[u] = "authorized" /\ Allows(req[u].plan, allowed)
              /\ req'[u] = [req[u] EXCEPT !.allowed = allowed]
<1> DEFINE Kept == pc'[u] = pc[u] /\ req'[u] = req[u]
<1>1. pc \in [User -> Handler] /\ req \in [User -> Request]
  BY DEF Sound, TypeOK
<1>2. ASSUME NEW v \in User, NEW where, NEW r, Start(v, where, r)
      PROVE IF v = u THEN pc'[u] = where /\ req'[u] = r ELSE Kept
  BY <1>1, <1>2 DEF Start
<1>3. CASE UNCHANGED vars
  BY <1>3 DEF vars
<1>4. ASSUME NEW v \in User, Generate(v) PROVE Kept
  BY <1>4 DEF Generate
<1>5. ASSUME NEW v \in User, FinishOptimize(v) \/ CommitReview(v) \/ ReviewConflicts(v)
                             \/ CommitExport(v) \/ Abort(v)
      PROVE pc'[u] = "idle" \/ Kept
  <2>1. Start(v, "idle", Idle)
    BY <1>5 DEF FinishOptimize, CommitReview, ReviewConflicts, CommitExport, Abort, End
  <2> QED
    BY <1>2, <2>1
<1>6. ASSUME NEW v \in User, NEW p \in DOMAIN plan, BeginOptimize(v, p)
      PROVE \/ Kept
            \/ /\ MayAccess(u, p) /\ pc'[u] = "optimizing"
               /\ req'[u] = [Idle EXCEPT !.plan = p, !.required = plan[p].required]
  BY <1>2, <1>6 DEF BeginOptimize, Denied
<1>7. ASSUME NEW v \in User, NEW p \in DOMAIN plan, BeginReview(v, p)
      PROVE \/ Kept
            \/ \E d \in Decision :
                 /\ ~SelfReview(u, p) /\ pc'[u] = "reviewing"
                 /\ req'[u] = [Idle EXCEPT !.plan = p, !.decision = d,
                                            !.version = plan[p].version]
  BY <1>2, <1>7 DEF BeginReview, Denied
<1>8. ASSUME NEW v \in User, NEW p \in DOMAIN plan, RefuseRead(v, p) PROVE Kept
  BY <1>8 DEF RefuseRead, Denied
<1>9. ASSUME NEW v \in User, NEW p \in DOMAIN plan, BeginExport(v, p)
      PROVE Kept \/ pc'[u] = "exporting"
  BY <1>2, <1>9 DEF BeginExport, Denied
<1>10. ASSUME NEW v \in User, StampReview(v)
       PROVE \/ Kept
             \/ StampReview(u) /\ pc'[u] = "stamped"
                               /\ req'[u] = [req[u] EXCEPT !.at = clock + Skew[u]]
  BY <1>2, <1>10 DEF StampReview
<1>11. ASSUME NEW v \in User, Authorize(v)
       PROVE \/ Kept
             \/ \E allowed \in BOOLEAN :
                  /\ Authorize(u) /\ pc'[u] = "authorized" /\ Allows(req[u].plan, allowed)
                  /\ req'[u] = [req[u] EXCEPT !.allowed = allowed]
  <2>1. PICK allowed \in BOOLEAN :
          /\ Allows(req[v].plan, allowed)
          /\ Start(v, "authorized", [req[v] EXCEPT !.allowed = allowed])
    BY <1>11 DEF Authorize
  <2> QED
    BY <1>2, <1>11, <2>1
<1> QED
  BY <1>3, <1>4, <1>5, <1>6, <1>7, <1>8, <1>9, <1>10, <1>11 DEF Next, Step

-----------------------------------------------------------------------------
(***************************************************************************)
(* Four eyes.                                                              *)
(***************************************************************************)

\* Somebody other than its creator approved the plan.
ApprovedByAnother(p) ==
  \E j \in DOMAIN audit : /\ audit[j].action = "plan.review.approved"
                         /\ audit[j].plan = p
                         /\ audit[j].actor # plan[p].owner

\* No review under way is of one's own plan.
ReviewsByOthers ==
  \A u \in User : pc[u] \in {"reviewing", "stamped"} => ~SelfReview(u, req[u].plan)

\* Each stored approval has its event.
ApprovalsAreRecorded ==
  \A p \in DOMAIN plan : \A i \in DOMAIN reviews[p] :
    reviews[p][i].decision = "approved" => ApprovedByAnother(p)

\* What authorize_export let through was approved.
AuthorizedWereApproved ==
  \A u \in User :
    pc[u] = "authorized" /\ req[u].allowed /\ plan[req[u].plan].required =>
      ApprovedByAnother(req[u].plan)

FourEyesInv ==
  /\ Sound
  /\ ReviewsByOthers
  /\ AuthEnabled => ApprovalsAreRecorded /\ AuthorizedWereApproved
  /\ FourEyes

\* An approval stays in the trail, and the creator of a plan in its row.
LEMMA ApprovalStays ==
  ASSUME PlansStay, TrailGrows, NEW p \in DOMAIN plan, ApprovedByAnother(p)
  PROVE  ApprovedByAnother(p)'
  BY DEF PlansStay, TrailGrows, ApprovedByAnother

\* The commit of an approval records it.
LEMMA ApprovalIsRecorded ==
  ASSUME Sound, ReviewsByOthers, AuthEnabled, NEW u \in User, CommitReview(u),
         req[u].decision = "approved", NEW p, p = req[u].plan
  PROVE  ApprovedByAnother(p)'
<1> DEFINE e == [action |-> "plan.review.approved", plan |-> p, actor |-> u]
<1>1. /\ p \in DOMAIN plan /\ DOMAIN plan' = DOMAIN plan
      /\ plan'[p] = [plan[p] EXCEPT !.version = @ + 1] /\ plan[p] \in Plan
  BY CommittedRow, Rows DEF Sound
<1>2. plan'[p].owner = plan[p].owner
  BY <1>1 DEF Plan
<1>3. Audited(u, p, "plan.review.approved") /\ pc[u] = "stamped"
  BY DEF CommitReview
<1>4. p \in DOMAIN plan' /\ DOMAIN plan' \subseteq PlanId
  BY <1>1, Rows DEF Sound
<1>5. DOMAIN audit' = 1..(Len(audit) + 1) /\ audit'[Len(audit) + 1] = e
  BY <1>3, <1>4, AuditedRow DEF Sound, Action
<1>6. Len(audit) + 1 \in DOMAIN audit'
  BY <1>5, Rows DEF Sound
<1>7. plan[p].owner # u
  BY <1>3 DEF ReviewsByOthers, SelfReview
<1> QED
  BY <1>2, <1>5, <1>6, <1>7 DEF ApprovedByAnother

\* No step breaks the invariant of four eyes.
LEMMA FourEyesStep == FourEyesInv /\ [Next]_vars => FourEyesInv'
<1> SUFFICES ASSUME FourEyesInv, [Next]_vars PROVE FourEyesInv'
  OBVIOUS
<1>1. Sound /\ Sound' /\ PlansStay /\ TrailGrows /\ NextTables
  BY SoundStep, TrailStep, TableStep DEF FourEyesInv
<1>2. \A u \in User : pc[u] # "idle" => req[u].plan \in DOMAIN plan
  BY <1>1 DEF Sound, RequestsNamePlans
<1>3. ReviewsByOthers'
  <2> SUFFICES ASSUME NEW u \in User, pc'[u] \in {"reviewing", "stamped"}
               PROVE  ~SelfReview(u, req[u].plan)'
    BY DEF ReviewsByOthers
  <2>1. PICK p \in DOMAIN plan : req'[u].plan = p /\ ~SelfReview(u, p)
    <3>1. CASE pc'[u] = pc[u] /\ req'[u] = req[u]
      BY <1>2, <3>1 DEF FourEyesInv, ReviewsByOthers
    <3>2. CASE StampReview(u) /\ req'[u] = [req[u] EXCEPT !.at = clock + Skew[u]]
      BY <1>1, <1>2, <3>2 DEF FourEyesInv, ReviewsByOthers, StampReview, Sound, TypeOK, Request
    <3>3. ASSUME NEW p \in DOMAIN plan, NEW d \in Decision, ~SelfReview(u, p),
                 req'[u] = [Idle EXCEPT !.plan = p, !.decision = d, !.version = plan[p].version]
          PROVE  req'[u].plan = p
      BY <3>3 DEF Idle
    <3> QED
      BY <1>1, <3>1, <3>2, <3>3, HandlerStep
  <2> QED
    BY <1>1, <2>1 DEF PlansStay, SelfReview
<1>4. ASSUME AuthEnabled PROVE ApprovalsAreRecorded'
  <2> SUFFICES ASSUME NEW p \in DOMAIN plan', NEW i \in DOMAIN reviews'[p],
                      reviews'[p][i].decision = "approved"
               PROVE  ApprovedByAnother(p)'
    BY DEF ApprovalsAreRecorded
  <2>1. p \in PlanId
    BY <1>1, PlanIdsNext DEF Sound
  <2>2. ASSUME reviews'[p] = reviews[p] PROVE ApprovedByAnother(p)'
    <3>1. reviews[p] # <<>>
      BY <2>2, EmptySeq
    <3>2. p \in DOMAIN plan
      BY <1>1, <2>1, <3>1 DEF Sound, ReviewsAreOfPlans
    <3>3. ApprovedByAnother(p)
      BY <1>4, <2>2, <3>2 DEF FourEyesInv, ApprovalsAreRecorded
    <3> QED
      BY <1>1, <3>2, <3>3, ApprovalStays
  <2>3. ASSUME NEW u \in User, CommitReview(u), p = req[u].plan PROVE ApprovedByAnother(p)'
    <3>1. /\ p \in DOMAIN plan
          /\ reviews' \in [PlanId -> Seq(Review)]
          /\ Len(reviews'[p]) = Len(reviews[p]) + 1
          /\ \A k \in DOMAIN reviews[p] : reviews'[p][k] = reviews[p][k]
          /\ reviews'[p][Len(reviews[p]) + 1] =
               [reviewer |-> u, decision |-> req[u].decision, content |-> plan[p].content,
                at |-> req[u].at, basis |-> req[u].version]
      BY <1>1, <2>3, CommittedRow
    <3>2. DOMAIN reviews'[p] = 1..(Len(reviews[p]) + 1)
      BY <2>1, <3>1, LenProperties
    <3>3. Len(reviews[p]) \in Nat /\ DOMAIN reviews[p] = 1..Len(reviews[p])
      BY <1>1, <2>1, ReviewRows DEF Sound
    <3>4. CASE i \in DOMAIN reviews[p]
      <4>1. ApprovedByAnother(p)
        BY <1>4, <3>1, <3>4 DEF FourEyesInv, ApprovalsAreRecorded
      <4> QED
        BY <1>1, <3>1, <4>1, ApprovalStays
    <3>5. CASE i = Len(reviews[p]) + 1
      <4>1. req[u].decision = "approved"
        BY <3>1, <3>5
      <4> QED
        BY <1>1, <1>4, <2>3, <4>1, ApprovalIsRecorded DEF FourEyesInv
    <3> QED
      BY <3>2, <3>3, <3>4, <3>5
  <2>4. ASSUME NEW u \in User, CommitReview(u), p # req[u].plan PROVE reviews'[p] = reviews[p]
    BY <1>1, <2>1, <2>4, CommittedRow
  <2> QED
    BY <1>1, <2>2, <2>3, <2>4 DEF NextTables, NextReview
<1>5. ASSUME AuthEnabled PROVE AuthorizedWereApproved'
  <2> SUFFICES ASSUME NEW u \in User, pc'[u] = "authorized", req'[u].allowed,
                      plan'[req'[u].plan].required
               PROVE  ApprovedByAnother(req[u].plan)'
    BY DEF AuthorizedWereApproved
  <2>1. CASE pc'[u] = pc[u] /\ req'[u] = req[u]
    <3>1. req[u].plan \in DOMAIN plan /\ plan[req[u].plan].required
      BY <1>1, <1>2, <2>1 DEF PlansStay
    <3>2. ApprovedByAnother(req[u].plan)
      BY <1>5, <2>1, <3>1 DEF FourEyesInv, AuthorizedWereApproved
    <3>3. ApprovedByAnother(req[u].plan)'
      BY <1>1, <2>1, <3>1, <3>2 DEF PlansStay, TrailGrows, ApprovedByAnother
    <3> QED
      BY <3>3
  <2>2. ASSUME NEW allowed \in BOOLEAN, Authorize(u), Allows(req[u].plan, allowed),
               req'[u] = [req[u] EXCEPT !.allowed = allowed]
        PROVE  ApprovedByAnother(req[u].plan)'
    <3> DEFINE p == req[u].plan
    <3>1. req'[u].plan = p /\ req'[u].allowed = allowed /\ p \in DOMAIN plan /\ p \in PlanId
      BY <1>1, <1>2, <2>2, Rows DEF Authorize, Sound, TypeOK, Request
    <3>2. allowed /\ plan[p].required
      BY <1>1, <3>1 DEF PlansStay
    <3>3. \E i \in DOMAIN reviews[p] : reviews[p][i].decision = "approved"
      BY <2>2, <3>2 DEF Allows, Latest
    <3>4. ApprovedByAnother(p)
      BY <1>5, <3>1, <3>3 DEF FourEyesInv, ApprovalsAreRecorded
    <3> QED
      BY <1>1, <3>1, <3>4 DEF PlansStay, TrailGrows, ApprovedByAnother
  <2> QED
    BY <1>1, <2>1, <2>2, HandlerStep
<1>6. FourEyes'
  <2> SUFFICES ASSUME AuthEnabled, NEW i \in DOMAIN audit',
                      audit'[i].action = "plan.exported", plan'[audit'[i].plan].required
               PROVE  \E j \in 1..(i - 1) :
                        /\ audit'[j].action = "plan.review.approved"
                        /\ audit'[j].plan = audit'[i].plan
                        /\ audit'[j].actor # plan'[audit'[i].plan].owner
    BY DEF FourEyes
  <2>1. Len(audit) \in Nat /\ DOMAIN audit = 1..Len(audit)
    BY <1>1, Rows DEF Sound
  <2>2. CASE i \in DOMAIN audit
    <3> DEFINE p == audit[i].plan
    <3>1. /\ audit'[i] = audit[i] /\ p \in DOMAIN plan
          /\ plan'[p].required = plan[p].required /\ plan'[p].owner = plan[p].owner
      BY <1>1, <2>2 DEF TrailGrows, Sound, EventsNamePlans, PlansStay
    <3>2. PICK j \in 1..(i - 1) : /\ audit[j].action = "plan.review.approved"
                                  /\ audit[j].plan = p /\ audit[j].actor # plan[p].owner
      BY <2>2, <3>1 DEF FourEyesInv, FourEyes
    <3>3. audit'[j] = audit[j]
      BY <1>1, <2>1, <2>2 DEF TrailGrows
    <3> QED
      BY <3>1, <3>2, <3>3
  <2>3. CASE i = Len(audit) + 1
    <3>1. PICK u \in User, p \in DOMAIN plan', a \in Action :
            /\ Audited(u, p, a)
            /\ a = "plan.exported" => CommitExport(u) /\ req[u].allowed /\ p = req[u].plan
      BY <1>1, <2>1, <2>3 DEF NextTables, NextEvent
    <3>2. DOMAIN plan' \subseteq PlanId
      BY <1>1, PlanIdsNext DEF Sound
    <3>3. audit'[i] = [action |-> a, plan |-> p, actor |-> u]
      BY <1>1, <2>3, <3>1, <3>2, AuditedRow DEF Sound
    <3>4. CommitExport(u) /\ req[u].allowed /\ p = req[u].plan /\ audit'[i].plan = p
      BY <3>1, <3>3
    <3>5. p \in DOMAIN plan /\ pc[u] = "authorized"
      BY <1>2, <3>4 DEF CommitExport
    <3>6. plan'[p].required = plan[p].required /\ plan'[p].owner = plan[p].owner
      BY <1>1, <3>5 DEF PlansStay
    <3>7. ApprovedByAnother(p)
      BY <3>4, <3>5, <3>6 DEF FourEyesInv, AuthorizedWereApproved
    <3>8. PICK j \in DOMAIN audit : /\ audit[j].action = "plan.review.approved"
                                    /\ audit[j].plan = p /\ audit[j].actor # plan[p].owner
      BY <3>7 DEF ApprovedByAnother
    <3>9. j \in 1..(i - 1) /\ audit'[j] = audit[j]
      BY <1>1, <2>1, <2>3 DEF TrailGrows
    <3> QED
      BY <3>4, <3>6, <3>8, <3>9
  <2> QED
    BY <1>1, <2>1, <2>2, <2>3 DEF TrailGrows
<1> QED
  BY <1>1, <1>3, <1>4, <1>5, <1>6 DEF FourEyesInv

\* Four eyes: with authentication on, a plan under review is exported only
\* after somebody other than its creator approved it.
THEOREM FourEyesHold == Spec => []FourEyes
<1>1. Init => FourEyesInv
  <2> SUFFICES ASSUME Init PROVE FourEyesInv
    OBVIOUS
  <2>1. Sound
    BY InitSound
  <2>2. DOMAIN plan = {} /\ DOMAIN audit = {}
    BY <2>1, Rows, EmptySeq DEF Init, Sound
  <2> QED
    BY <2>1, <2>2 DEF Init, FourEyesInv, ReviewsByOthers, ApprovalsAreRecorded,
                      AuthorizedWereApproved, FourEyes
<1>2. FourEyesInv /\ [Next]_vars => FourEyesInv'
  BY FourEyesStep
<1>3. FourEyesInv => FourEyes
  BY DEF FourEyesInv
<1> QED
  BY <1>1, <1>2, <1>3, PTL DEF Spec

-----------------------------------------------------------------------------
(***************************************************************************)
(* Derived versions.                                                       *)
(***************************************************************************)

\* A parent is a stored plan.
ParentsAreStored ==
  \A p \in DOMAIN plan : plan[p].parent # NoPlan => plan[p].parent \in DOMAIN plan

\* Whoever waits for the model knows whether the parent is under review, and
\* was allowed to read it.
OptimizersKnowTheParent ==
  \A u \in User :
    pc[u] = "optimizing" => /\ req[u].required = plan[req[u].plan].required
                           /\ MayAccess(u, req[u].plan)

LineageInv ==
  /\ Sound
  /\ ParentsAreStored
  /\ OptimizersKnowTheParent
  /\ LineageStaysUnderReview
  /\ LineageIsAccessible

\* What holds of the version derived from a plan.
DerivedWell(p) ==
  plan[p].parent # NoPlan =>
    LET q == plan[p].parent IN
    /\ q \in DOMAIN plan
    /\ plan[q].required => plan[p].required
    /\ plan[p].owner # Nobody =>
         \/ plan[q].owner = plan[p].owner
         \/ Roles[plan[p].owner] \cap {"reviewer", "admin"} # {}

\* The properties of the lineage, plan by plan.
LEMMA LineageByPlan ==
  ParentsAreStored /\ LineageStaysUnderReview /\ LineageIsAccessible
    <=> \A p \in DOMAIN plan : DerivedWell(p)
  BY DEF ParentsAreStored, LineageStaysUnderReview, LineageIsAccessible, DerivedWell

\* Each step that stores a plan stores one that is well derived.
LEMMA NewPlanIsDerivedWell ==
  ASSUME LineageInv, PlansStay, NEW u \in User, NEW parent \in PlanId \cup {NoPlan},
         NEW required \in BOOLEAN, NEW content \in Content, NEW a \in Action,
         InsertPlan(u, parent, required, content, a),
         parent # NoPlan => /\ parent \in DOMAIN plan
                            /\ plan[parent].required => required
                            /\ MayAccess(u, parent),
         NEW p \in DOMAIN plan', p \notin DOMAIN plan
  PROVE  DerivedWell(p)'
<1>1. /\ DOMAIN plan' = 1..(Len(plan) + 1)
      /\ plan'[Len(plan) + 1] = [owner |-> Creator(u), parent |-> parent,
           required |-> required, content |-> content, version |-> 1]
  BY InsertedRow DEF LineageInv, Sound
<1>2. p = Len(plan) + 1
  BY <1>1, Rows DEF LineageInv, Sound
<1>3. plan'[p].owner = Creator(u) /\ plan'[p].parent = parent /\ plan'[p].required = required
  BY <1>1, <1>2
<1>4. ASSUME parent # NoPlan
      PROVE  /\ parent \in DOMAIN plan'
             /\ plan'[parent].required => required
             /\ Creator(u) # Nobody =>
                  \/ plan'[parent].owner = Creator(u)
                  \/ Roles[Creator(u)] \cap {"reviewer", "admin"} # {}
  BY <1>4 DEF PlansStay, MayAccess, Creator
<1> QED
  BY <1>3, <1>4 DEF DerivedWell

\* No step breaks the invariant of derived versions.
LEMMA LineageStep == LineageInv /\ [Next]_vars => LineageInv'
<1> SUFFICES ASSUME LineageInv, [Next]_vars PROVE LineageInv'
  OBVIOUS
<1>1. Sound /\ Sound' /\ PlansStay /\ NextTables
  BY SoundStep, TableStep DEF LineageInv
<1>2. \A u \in User : pc[u] # "idle" => req[u].plan \in DOMAIN plan
  BY <1>1 DEF Sound, RequestsNamePlans
<1>3. ASSUME NEW p \in DOMAIN plan PROVE DerivedWell(p)'
  <2>1. DerivedWell(p)
    BY LineageByPlan DEF LineageInv
  <2> QED
    BY <1>1, <2>1 DEF PlansStay, DerivedWell
<1>4. ASSUME NEW p \in DOMAIN plan', p \notin DOMAIN plan PROVE DerivedWell(p)'
  <2>1. PICK u \in User, gate \in BOOLEAN, content \in Content :
          \/ InsertPlan(u, NoPlan, gate, content, "plan.created")
          \/ /\ pc[u] = "optimizing"
             /\ InsertPlan(u, req[u].plan, StillRequired(req[u].required, gate), content,
                           "plan.optimized")
    BY <1>1, <1>4 DEF NextTables, NextPlan
  <2>2. CASE InsertPlan(u, NoPlan, gate, content, "plan.created")
    BY <1>1, <1>4, <2>2, NewPlanIsDerivedWell DEF Action
  <2>3. CASE /\ pc[u] = "optimizing"
             /\ InsertPlan(u, req[u].plan, StillRequired(req[u].required, gate), content,
                           "plan.optimized")
    <3> DEFINE parent == req[u].plan
               required == StillRequired(req[u].required, gate)
    <3>1. parent \in DOMAIN plan /\ parent \in PlanId
      BY <1>1, <1>2, <2>3, Rows DEF Sound
    <3>2. required \in BOOLEAN
      BY <1>1 DEF Sound, TypeOK, Request, StillRequired
    <3>3. (plan[parent].required => required) /\ MayAccess(u, parent)
      BY <2>3 DEF LineageInv, OptimizersKnowTheParent, StillRequired
    <3>4. InsertPlan(u, parent, required, content, "plan.optimized")
      BY <2>3
    <3> HIDE DEF parent, required
    <3> QED
      BY <1>1, <1>4, <3>1, <3>2, <3>3, <3>4, NewPlanIsDerivedWell DEF Action
  <2> QED
    BY <2>1, <2>2, <2>3
<1>5. ParentsAreStored' /\ LineageStaysUnderReview' /\ LineageIsAccessible'
  BY <1>3, <1>4 DEF ParentsAreStored, LineageStaysUnderReview, LineageIsAccessible, DerivedWell
<1>6. OptimizersKnowTheParent'
  <2> SUFFICES ASSUME NEW u \in User, pc'[u] = "optimizing"
               PROVE  /\ req'[u].required = plan'[req'[u].plan].required
                      /\ MayAccess(u, req[u].plan)'
    BY DEF OptimizersKnowTheParent
  <2>1. PICK p \in DOMAIN plan : /\ req'[u].plan = p /\ req'[u].required = plan[p].required
                                 /\ MayAccess(u, p)
    <3>1. CASE pc'[u] = pc[u] /\ req'[u] = req[u]
      BY <1>2, <3>1 DEF LineageInv, OptimizersKnowTheParent
    <3>2. ASSUME NEW p \in DOMAIN plan, MayAccess(u, p),
                 req'[u] = [Idle EXCEPT !.plan = p, !.required = plan[p].required]
          PROVE  req'[u].plan = p /\ req'[u].required = plan[p].required
      BY <3>2 DEF Idle
    <3> QED
      BY <1>1, <3>1, <3>2, HandlerStep
  <2> QED
    BY <1>1, <2>1 DEF PlansStay, MayAccess
<1> QED
  BY <1>1, <1>5, <1>6 DEF LineageInv

\* The list of plans and the check of a single plan agree, whoever asks.
LEMMA InboxIsTheCheck == InboxIsWhatMayBeOpened
  BY DEF InboxIsWhatMayBeOpened, Inbox, MayAccess

\* Derived versions stay under the review of the version they derive from, and
\* their authors were allowed to read it; lists agree with the access check.
THEOREM LineageHolds == Spec => []LineageIsReviewed
<1>1. Init => LineageInv
  <2> SUFFICES ASSUME Init PROVE LineageInv
    OBVIOUS
  <2>1. Sound
    BY InitSound
  <2>2. DOMAIN plan = {}
    BY <2>1, Rows, EmptySeq DEF Init, Sound
  <2> QED
    BY <2>1, <2>2 DEF Init, LineageInv, ParentsAreStored, OptimizersKnowTheParent,
                      LineageStaysUnderReview, LineageIsAccessible
<1>2. LineageInv /\ [Next]_vars => LineageInv'
  BY LineageStep
<1>3. LineageInv => LineageIsReviewed
  BY InboxIsTheCheck DEF LineageInv, LineageIsReviewed
<1> QED
  BY <1>1, <1>2, <1>3, PTL DEF Spec

-----------------------------------------------------------------------------
(***************************************************************************)
(* The order of the reviews, on hosts whose clocks agree.                  *)
(***************************************************************************)

\* Each review moves the version of its plan by one.
VersionsCountReviews == \A p \in DOMAIN plan : plan[p].version = Len(reviews[p]) + 1

\* What a reviewer read is not ahead of the row.
ReadsArePast ==
  \A u \in User :
    pc[u] \in {"reviewing", "stamped"} => req[u].version <= plan[req[u].plan].version

\* No stamp is ahead of the hosts' clock, and stored ones are behind it.
StampsArePast(ahead) ==
  /\ \A p \in PlanId : \A i \in DOMAIN reviews[p] : reviews[p][i].at < clock + ahead
  /\ \A u \in User : pc[u] = "stamped" => req[u].at <= clock + ahead

\* A review that may still be committed is stamped after the stored ones.
CurrentStampsAreLast ==
  \A u \in User :
    pc[u] = "stamped" /\ req[u].version = plan[req[u].plan].version =>
      \A i \in DOMAIN reviews[req[u].plan] : reviews[req[u].plan][i].at < req[u].at

\* Stamps are in the order of the commits.
StampsIncrease ==
  \A p \in PlanId : \A i, j \in DOMAIN reviews[p] :
    i < j => reviews[p][i].at < reviews[p][j].at

OrderInv(ahead) ==
  /\ Sound
  /\ VersionsCountReviews
  /\ ReadsArePast
  /\ StampsArePast(ahead)
  /\ CurrentStampsAreLast
  /\ StampsIncrease
  /\ DecisionsSawTheEarlierOnes

\* The clock moves with a review, and never back.
LEMMA ClockStep ==
  ASSUME Sound, [Next]_vars
  PROVE  clock' \in {clock, clock + 1}
<1>1. ASSUME NEW u \in User, Step(u), ~UNCHANGED clock PROVE CommitReview(u)
  BY <1>1 DEF Step, Generate, BeginOptimize, BeginReview, RefuseRead, BeginExport, Denied,
              FinishOptimize, StampReview, ReviewConflicts, Authorize, CommitExport, Abort
<1> QED
  BY <1>1 DEF Next, CommitReview, vars

\* The rows of reviews after a step, without a commit.
LEMMA OrderWithoutReview ==
  ASSUME NEW ahead \in Nat, \A u \in User : Skew[u] = ahead,
         OrderInv(ahead), [Next]_vars,
         UNCHANGED reviews, \A p \in DOMAIN plan : plan'[p] = plan[p]
  PROVE  OrderInv(ahead)'
<1>1. Sound /\ Sound' /\ PlansStay /\ NextTables /\ clock' \in {clock, clock + 1}
  BY SoundStep, TableStep, ClockStep DEF OrderInv
<1>2. \A u \in User : pc[u] # "idle" => req[u].plan \in DOMAIN plan
  BY <1>1 DEF Sound, RequestsNamePlans
<1>3. /\ clock \in Nat /\ clock' \in Nat
      /\ \A u \in User : req[u] \in Request
      /\ \A p \in DOMAIN plan : p \in PlanId /\ plan[p] \in Plan
  BY <1>1, Rows DEF Sound, TypeOK
<1>4. \A p \in PlanId : \A i \in DOMAIN reviews[p] : reviews[p][i].at \in Nat
  BY <1>1, ReviewRows DEF Sound, Review
<1>5. VersionsCountReviews'
  <2> SUFFICES ASSUME NEW p \in DOMAIN plan' PROVE plan'[p].version = Len(reviews[p]) + 1
    BY DEF VersionsCountReviews
  <2>1. CASE p \in DOMAIN plan
    BY <2>1 DEF OrderInv, VersionsCountReviews
  <2>2. CASE p \notin DOMAIN plan
    <3>1. PICK u \in User, parent \in PlanId \cup {NoPlan}, required \in BOOLEAN,
               content \in Content, a \in Action : InsertPlan(u, parent, required, content, a)
      <4>1. \A u \in User, gate \in BOOLEAN :
              /\ req[u].plan \in PlanId \cup {NoPlan}
              /\ StillRequired(req[u].required, gate) \in BOOLEAN
        BY <1>3 DEF Request, StillRequired
      <4>2. PICK u \in User, gate \in BOOLEAN, content \in Content :
              \/ InsertPlan(u, NoPlan, gate, content, "plan.created")
              \/ InsertPlan(u, req[u].plan, StillRequired(req[u].required, gate), content,
                            "plan.optimized")
        BY <1>1, <2>2 DEF NextTables, NextPlan
      <4>3. CASE InsertPlan(u, NoPlan, gate, content, "plan.created")
        BY <4>3 DEF Action
      <4>4. CASE InsertPlan(u, req[u].plan, StillRequired(req[u].required, gate), content,
                            "plan.optimized")
        BY <4>1, <4>4 DEF Action
      <4> QED
        BY <4>2, <4>3, <4>4
    <3>2. /\ DOMAIN plan' = 1..(Len(plan) + 1)
          /\ plan'[Len(plan) + 1].version = 1
      <4>1. /\ DOMAIN plan' = 1..(Len(plan) + 1)
            /\ plan'[Len(plan) + 1] = [owner |-> Creator(u), parent |-> parent,
                 required |-> required, content |-> content, version |-> 1]
        BY <1>1, <3>1, InsertedRow DEF Sound
      <4> QED
        BY <4>1
    <3>3. p = Len(plan) + 1 /\ p \in PlanId
      BY <1>1, <2>2, <3>2, Rows, PlanIdsNext DEF Sound
    <3>4. reviews[p] = <<>>
      BY <1>1, <2>2, <3>3 DEF Sound, ReviewsAreOfPlans
    <3> QED
      BY <3>2, <3>3, <3>4, EmptySeq
  <2> QED
    BY <2>1, <2>2
<1>6. ASSUME NEW u \in User, pc'[u] \in {"reviewing", "stamped"}
      PROVE  \/ pc'[u] = pc[u] /\ req'[u] = req[u]
             \/ /\ pc'[u] = "reviewing" /\ req'[u].plan \in DOMAIN plan
                /\ req'[u].version = plan[req'[u].plan].version
             \/ /\ pc'[u] = "stamped" /\ pc[u] = "reviewing"
                /\ req'[u].plan = req[u].plan /\ req'[u].version = req[u].version
                /\ req'[u].at = clock + ahead
  <2>1. ASSUME NEW p \in DOMAIN plan, NEW d \in Decision,
               req'[u] = [Idle EXCEPT !.plan = p, !.decision = d, !.version = plan[p].version]
        PROVE  req'[u].plan = p /\ req'[u].version = plan[p].version
    BY <2>1 DEF Idle
  <2>2. ASSUME StampReview(u), req'[u] = [req[u] EXCEPT !.at = clock + Skew[u]]
        PROVE  /\ pc[u] = "reviewing"
               /\ req'[u].plan = req[u].plan /\ req'[u].version = req[u].version
               /\ req'[u].at = clock + ahead
    BY <1>3, <2>2 DEF StampReview, Request
  <2>3. \/ pc'[u] = pc[u] /\ req'[u] = req[u]
        \/ \E p \in DOMAIN plan, d \in Decision :
             /\ pc'[u] = "reviewing"
             /\ req'[u] = [Idle EXCEPT !.plan = p, !.decision = d, !.version = plan[p].version]
        \/ StampReview(u) /\ pc'[u] = "stamped"
                          /\ req'[u] = [req[u] EXCEPT !.at = clock + Skew[u]]
    BY <1>1, <1>6, HandlerStep
  <2> QED
    BY <2>1, <2>2, <2>3
<1>7. ReadsArePast'
  <2> SUFFICES ASSUME NEW u \in User, pc'[u] \in {"reviewing", "stamped"}
               PROVE  req'[u].version <= plan'[req'[u].plan].version
    BY DEF ReadsArePast
  <2>1. CASE req'[u].plan = req[u].plan /\ req'[u].version = req[u].version
             /\ pc[u] \in {"reviewing", "stamped"}
    BY <1>2, <2>1 DEF OrderInv, ReadsArePast
  <2>2. CASE req'[u].plan \in DOMAIN plan /\ req'[u].version = plan[req'[u].plan].version
    BY <1>3, <2>2 DEF Plan
  <2> QED
    BY <1>6, <2>1, <2>2
<1>8. StampsArePast(ahead)'
  <2>1. \A p \in PlanId : \A i \in DOMAIN reviews[p] : reviews[p][i].at < clock' + ahead
    BY <1>1, <1>3, <1>4 DEF OrderInv, StampsArePast
  <2>2. ASSUME NEW u \in User, pc'[u] = "stamped" PROVE req'[u].at <= clock' + ahead
    <3>1. \/ req'[u].at = clock + ahead
          \/ req'[u].at <= clock + ahead /\ req'[u].at \in Nat
      BY <1>3, <1>6, <2>2 DEF OrderInv, StampsArePast, Request
    <3> QED
      BY <1>1, <1>3, <3>1
  <2> QED
    BY <2>1, <2>2 DEF StampsArePast
<1>9. CurrentStampsAreLast'
  <2> SUFFICES ASSUME NEW u \in User, pc'[u] = "stamped",
                      req'[u].version = plan'[req'[u].plan].version,
                      NEW i \in DOMAIN reviews[req'[u].plan]
               PROVE  reviews[req'[u].plan][i].at < req'[u].at
    BY DEF CurrentStampsAreLast
  <2>1. CASE pc'[u] = pc[u] /\ req'[u] = req[u]
    BY <1>2, <2>1 DEF OrderInv, CurrentStampsAreLast
  <2>2. CASE pc[u] = "reviewing" /\ req'[u].plan = req[u].plan /\ req'[u].at = clock + ahead
    BY <1>2, <1>3, <2>2 DEF OrderInv, StampsArePast
  <2> QED
    BY <1>6, <2>1, <2>2
<1>10. StampsIncrease' /\ DecisionsSawTheEarlierOnes'
  BY DEF OrderInv, StampsIncrease, DecisionsSawTheEarlierOnes
<1> QED
  BY <1>1, <1>5, <1>7, <1>8, <1>9, <1>10 DEF OrderInv

\* The commit of a review keeps the order: its stamp is the last one, and it
\* is based on the version the others left.
LEMMA OrderWithReview ==
  ASSUME NEW ahead \in Nat, \A u \in User : Skew[u] = ahead,
         OrderInv(ahead), [Next]_vars, NEW v \in User, CommitReview(v)
  PROVE  OrderInv(ahead)'
<1> DEFINE p == req[v].plan
           new == [reviewer |-> v, decision |-> req[v].decision, content |-> plan[p].content,
                   at |-> req[v].at, basis |-> req[v].version]
           n == Len(reviews[p])
<1>1. Sound /\ Sound' /\ clock' = clock + 1
  BY SoundStep DEF OrderInv, CommitReview
<1>2. /\ p \in DOMAIN plan /\ p \in PlanId /\ DOMAIN plan' = DOMAIN plan
      /\ \A q \in DOMAIN plan :
           plan'[q] = IF q = p THEN [plan[p] EXCEPT !.version = @ + 1] ELSE plan[q]
      /\ \A q \in PlanId : q # p => reviews'[q] = reviews[q]
      /\ reviews' \in [PlanId -> Seq(Review)] /\ Len(reviews'[p]) = n + 1
      /\ \A i \in DOMAIN reviews[p] : reviews'[p][i] = reviews[p][i]
      /\ reviews'[p][n + 1] = new
  BY <1>1, CommittedRow, Rows DEF Sound
<1>3. n \in Nat /\ DOMAIN reviews[p] = 1..n /\ DOMAIN reviews'[p] = 1..(n + 1)
  BY <1>1, <1>2, ReviewRows, LenProperties DEF Sound
<1>4. /\ clock \in Nat
      /\ \A u \in User : req[u] \in Request
      /\ \A q \in DOMAIN plan : q \in PlanId /\ plan[q] \in Plan
  BY <1>1, Rows DEF Sound, TypeOK
<1>5. \A q \in PlanId : \A i \in DOMAIN reviews[q] : reviews[q][i].at \in Nat
  BY <1>1, ReviewRows DEF Sound, Review
<1>6. /\ pc[v] = "stamped" /\ plan[p].version = req[v].version
      /\ plan[p].version = n + 1 /\ plan'[p].version = n + 2
  BY <1>2, <1>3, <1>4 DEF CommitReview, Current, OrderInv, VersionsCountReviews, Plan
<1>7. /\ req[v].at \in Nat /\ req[v].at <= clock + ahead
      /\ \A i \in DOMAIN reviews[p] : reviews[p][i].at < req[v].at
      /\ new.at = req[v].at /\ new.basis = n + 1
  BY <1>4, <1>6 DEF OrderInv, StampsArePast, CurrentStampsAreLast, Request
<1> HIDE DEF new
<1>8. \A u \in User : pc'[u] = "idle" \/ (pc'[u] = pc[u] /\ req'[u] = req[u])
  BY <1>1 DEF CommitReview, End, Start, Sound, TypeOK
<1>9. \A u \in User : pc[u] # "idle" => req[u].plan \in DOMAIN plan
  BY <1>1 DEF Sound, RequestsNamePlans
<1>10. VersionsCountReviews'
  <2> SUFFICES ASSUME NEW q \in DOMAIN plan PROVE plan'[q].version = Len(reviews'[q]) + 1
    BY <1>2 DEF VersionsCountReviews
  <2>1. CASE q = p
    BY <1>2, <1>3, <1>6, <2>1
  <2>2. CASE q # p
    BY <1>2, <1>4, <2>2 DEF OrderInv, VersionsCountReviews
  <2> QED
    BY <2>1, <2>2
<1>11. ReadsArePast'
  <2> SUFFICES ASSUME NEW u \in User, pc[u] \in {"reviewing", "stamped"}, req'[u] = req[u]
               PROVE  req[u].version <= plan'[req[u].plan].version
    BY <1>8 DEF ReadsArePast
  <2>1. req[u].plan \in DOMAIN plan /\ req[u].version <= plan[req[u].plan].version
        /\ req[u].version \in Nat
    BY <1>4, <1>9 DEF OrderInv, ReadsArePast, Request
  <2>2. CASE req[u].plan = p
    BY <1>3, <1>6, <2>1, <2>2
  <2>3. CASE req[u].plan # p
    BY <1>2, <2>1, <2>3
  <2> QED
    BY <2>2, <2>3
<1>12. StampsArePast(ahead)'
  <2>1. ASSUME NEW q \in PlanId, NEW i \in DOMAIN reviews'[q]
        PROVE  reviews'[q][i].at < clock' + ahead
    <3>1. CASE q = p /\ i = n + 1
      BY <1>1, <1>2, <1>4, <1>7, <3>1
    <3>2. CASE i \in DOMAIN reviews[q] /\ reviews'[q][i] = reviews[q][i]
      <4>1. reviews[q][i].at < clock + ahead /\ reviews[q][i].at \in Nat
        BY <1>5, <3>2 DEF OrderInv, StampsArePast
      <4> QED
        BY <1>1, <1>4, <3>2, <4>1
    <3>3. \/ q = p /\ i = n + 1
          \/ i \in DOMAIN reviews[q] /\ reviews'[q][i] = reviews[q][i]
      <4>1. CASE q # p
        BY <1>2, <2>1, <4>1
      <4>2. CASE q = p
        <5>1. i \in 1..(n + 1)
          BY <1>3, <2>1, <4>2
        <5>2. i = n + 1 \/ i \in DOMAIN reviews[p]
          BY <1>3, <5>1
        <5> QED
          BY <1>2, <4>2, <5>2
      <4> QED
        BY <4>1, <4>2
    <3> QED
      BY <3>1, <3>2, <3>3
  <2>2. ASSUME NEW u \in User, pc'[u] = "stamped" PROVE req'[u].at <= clock' + ahead
    <3>1. req'[u].at <= clock + ahead /\ req'[u].at \in Nat
      BY <1>4, <1>8, <2>2 DEF OrderInv, StampsArePast, Request
    <3> QED
      BY <1>1, <1>4, <3>1
  <2> QED
    BY <2>1, <2>2 DEF StampsArePast
<1>13. CurrentStampsAreLast'
  <2> SUFFICES ASSUME NEW u \in User, pc[u] = "stamped", req'[u] = req[u],
                      req[u].version = plan'[req[u].plan].version,
                      NEW i \in DOMAIN reviews'[req[u].plan]
               PROVE  reviews'[req[u].plan][i].at < req[u].at
    BY <1>8 DEF CurrentStampsAreLast
  <2>1. req[u].plan \in DOMAIN plan /\ req[u].version <= plan[req[u].plan].version
    BY <1>9 DEF OrderInv, ReadsArePast
  <2>2. req[u].plan # p
    BY SMTT(30), <1>3, <1>6, <2>1
  <2> QED
    BY <1>2, <1>4, <2>1, <2>2 DEF OrderInv, CurrentStampsAreLast
<1>14. StampsIncrease'
  <2> SUFFICES ASSUME NEW q \in PlanId, NEW i \in DOMAIN reviews'[q],
                      NEW j \in DOMAIN reviews'[q], i < j
               PROVE  reviews'[q][i].at < reviews'[q][j].at
    BY DEF StampsIncrease
  <2>1. CASE q # p
    BY <1>2, <2>1 DEF OrderInv, StampsIncrease
  <2>2. CASE q = p /\ j = n + 1
    <3>1. i \in DOMAIN reviews[p]
      BY <1>3, <2>2
    <3>2. reviews'[p][i] = reviews[p][i] /\ reviews'[p][n + 1].at = req[v].at
      BY <1>2, <1>7, <3>1
    <3> QED
      BY <1>7, <2>2, <3>1, <3>2
  <2>3. CASE q = p /\ j # n + 1
    <3>1. i \in DOMAIN reviews[p] /\ j \in DOMAIN reviews[p]
      BY <1>3, <2>3
    <3> QED
      BY <1>2, <2>3, <3>1 DEF OrderInv, StampsIncrease
  <2> QED
    BY <2>1, <2>2, <2>3
<1>15. DecisionsSawTheEarlierOnes'
  <2> SUFFICES ASSUME NEW q \in PlanId, NEW i \in DOMAIN reviews'[q]
               PROVE  reviews'[q][i].basis = i
    BY DEF DecisionsSawTheEarlierOnes
  <2>1. CASE q # p \/ i \in DOMAIN reviews[p]
    BY <1>2, <2>1 DEF OrderInv, DecisionsSawTheEarlierOnes
  <2>2. CASE q = p /\ i = n + 1
    BY <1>2, <1>7, <2>2
  <2> QED
    BY <1>3, <2>1, <2>2
<1> QED
  BY <1>1, <1>10, <1>11, <1>12, <1>13, <1>14, <1>15 DEF OrderInv

\* Every step keeps the order of the decisions, if clocks agree.
LEMMA OrderStep ==
  ASSUME NEW ahead \in Nat, \A u \in User : Skew[u] = ahead
  PROVE  OrderInv(ahead) /\ [Next]_vars => OrderInv(ahead)'
<1> SUFFICES ASSUME OrderInv(ahead), [Next]_vars PROVE OrderInv(ahead)'
  OBVIOUS
<1>1. NextReview
  BY TableStep DEF OrderInv, NextTables
<1> QED
  BY <1>1, OrderWithoutReview, OrderWithReview DEF NextReview

\* With stamps in the order of the commits, the latest review is the last.
LEMMA LatestIsLast == ASSUME NEW ahead \in Nat, OrderInv(ahead) PROVE LatestIsLastCommitted
<1> SUFFICES ASSUME NEW p \in PlanId, reviews[p] # <<>> PROVE Latest(p) = {Len(reviews[p])}
  BY DEF LatestIsLastCommitted
<1> DEFINE n == Len(reviews[p])
<1>1. n \in Nat /\ DOMAIN reviews[p] = 1..n /\ \A i \in 1..n : reviews[p][i].at \in Nat
  BY ReviewRows DEF OrderInv, Sound, Review
<1>2. n \in 1..n
  <2>1. reviews[p] \in Seq(Review)
    BY DEF OrderInv, Sound, TypeOK
  <2>2. n \in Nat \ {0}
    BY <2>1, EmptySeq
  <2> QED
    BY <2>2
<1>3. \A i \in 1..n : i # n => reviews[p][i].at < reviews[p][n].at
  BY <1>1, <1>2 DEF OrderInv, StampsIncrease
<1> HIDE DEF n
<1>4. n \in Latest(p)
  BY <1>1, <1>2, <1>3 DEF Latest
<1>5. ASSUME NEW i \in Latest(p) PROVE i = n
  BY <1>1, <1>2, <1>3, <1>5 DEF Latest
<1> QED
  BY <1>4, <1>5 DEF n

-----------------------------------------------------------------------------
(***************************************************************************)
(* Exports.                                                                *)
(***************************************************************************)

\* The last decision on the plan is an approval.
ApprovedLast(p) ==
  \E j \in DOMAIN audit :
    /\ audit[j].action = "plan.review.approved"
    /\ audit[j].plan = p
    /\ \A k \in DOMAIN audit : k > j => ~DecidesOn(audit[k], p)

\* The trail agrees with the reviews.
LastApprovalsAreRecorded ==
  \A p \in DOMAIN plan :
    reviews[p] # <<>> /\ reviews[p][Len(reviews[p])].decision = "approved" => ApprovedLast(p)

\* Between its check and its event an export holds the row, so that its plan
\* is decided on by nobody.
AuthorizedHoldTheRow ==
  \A u \in User :
    pc[u] = "authorized" =>
      /\ rowLock[req[u].plan] = u
      /\ req[u].allowed /\ plan[req[u].plan].required => ApprovedLast(req[u].plan)

ExportInv(ahead) ==
  /\ OrderInv(ahead)
  /\ LastApprovalsAreRecorded
  /\ AuthorizedHoldTheRow
  /\ ExportFollowsApproval

\* A row stays locked until the request that locked it ends.
LEMMA LockStep ==
  ASSUME Sound, [Next]_vars, NEW u \in User, NEW p \in PlanId, rowLock[p] = u,
         pc'[u] # "idle"
  PROVE  rowLock'[p] = u
<1>1. ASSUME UNCHANGED rowLock PROVE rowLock'[p] = u
  BY <1>1
<1>2. ASSUME NEW v \in User, Generate(v) \/ FinishOptimize(v) \/ StampReview(v)
                             \/ CommitReview(v) \/ ReviewConflicts(v)
      PROVE UNCHANGED rowLock
  BY <1>2 DEF Generate, FinishOptimize, StampReview, CommitReview, ReviewConflicts
<1>3. ASSUME NEW v \in User, NEW q \in DOMAIN plan,
             BeginOptimize(v, q) \/ BeginReview(v, q) \/ RefuseRead(v, q) \/ BeginExport(v, q)
      PROVE UNCHANGED rowLock
  BY <1>3 DEF BeginOptimize, BeginReview, RefuseRead, BeginExport, Denied
<1>4. ASSUME NEW v \in User, Authorize(v) PROVE rowLock'[p] = u
  BY <1>4, NobodyAssumption DEF Authorize, LockRow, Sound, TypeOK
<1>5. ASSUME NEW v \in User, CommitExport(v) \/ Abort(v) PROVE rowLock'[p] = u
  <2>1. End(v) /\ rowLock' = Unlocked(v)
    BY <1>5 DEF CommitExport, Abort
  <2>2. v # u
    BY <2>1 DEF End, Start, Sound, TypeOK
  <2> QED
    BY <2>1, <2>2 DEF Unlocked
<1> QED
  BY <1>1, <1>2, <1>3, <1>4, <1>5 DEF Next, Step, vars

\* An approval stays the last decision until the next review commits.
LEMMA ApprovedLastStays ==
  ASSUME Sound, [Next]_vars, NEW p \in DOMAIN plan, ApprovedLast(p),
         \A u \in User : CommitReview(u) => req[u].plan # p
  PROVE  ApprovedLast(p)'
<1>1. TrailGrows /\ NextEvent /\ Sound'
  BY TrailStep, TableStep, SoundStep DEF NextTables
<1>2. Len(audit) \in Nat /\ DOMAIN audit = 1..Len(audit)
  BY Rows DEF Sound
<1>3. PICK j \in DOMAIN audit : /\ audit[j].action = "plan.review.approved"
                                /\ audit[j].plan = p
                                /\ \A k \in DOMAIN audit : k > j => ~DecidesOn(audit[k], p)
  BY DEF ApprovedLast
<1>4. j \in DOMAIN audit' /\ audit'[j] = audit[j]
  BY <1>1 DEF TrailGrows
<1>5. ASSUME NEW k \in DOMAIN audit', k > j PROVE ~DecidesOn(audit'[k], p)
  <2>1. CASE k \in DOMAIN audit
    BY <1>1, <1>3, <1>5, <2>1 DEF TrailGrows
  <2>2. CASE k \notin DOMAIN audit
    <3>1. k = Len(audit) + 1
      BY <1>1, <1>2, <2>2 DEF TrailGrows
    <3>2. PICK u \in User, q \in DOMAIN plan', a \in Action :
            /\ Audited(u, q, a)
            /\ IsDecision(a) => CommitReview(u) /\ q = req[u].plan
      BY <1>1, <2>2 DEF NextEvent
    <3>3. audit'[k] = [action |-> a, plan |-> q, actor |-> u]
      BY <1>1, <3>1, <3>2, AuditedRow, PlanIdsNext DEF Sound
    <3> QED
      BY <3>2, <3>3 DEF DecidesOn, IsDecision
  <2> QED
    BY <2>1, <2>2
<1> QED
  BY <1>3, <1>4, <1>5 DEF ApprovedLast

\* The commit of an approval makes it the last decision.
LEMMA ApprovalIsLast ==
  ASSUME Sound, NEW u \in User, CommitReview(u), req[u].decision = "approved",
         NEW p, p = req[u].plan
  PROVE  ApprovedLast(p)'
<1> DEFINE e == [action |-> "plan.review.approved", plan |-> p, actor |-> u]
<1>1. p \in DOMAIN plan' /\ DOMAIN plan' \subseteq PlanId
  BY CommittedRow, Rows DEF Sound
<1>2. Audited(u, p, "plan.review.approved")
  BY DEF CommitReview
<1>3. DOMAIN audit' = 1..(Len(audit) + 1) /\ audit'[Len(audit) + 1] = e
  BY <1>1, <1>2, AuditedRow DEF Sound, Action
<1>4. Len(audit) \in Nat
  BY Rows DEF Sound
<1>5. \A k \in DOMAIN audit' : ~(k > Len(audit) + 1)
  BY <1>3, <1>4
<1> QED
  BY <1>3, <1>4, <1>5 DEF ApprovedLast

\* No step breaks the invariant of exports.
LEMMA ExportStep ==
  ASSUME NEW ahead \in Nat, \A u \in User : Skew[u] = ahead
  PROVE  ExportInv(ahead) /\ [Next]_vars => ExportInv(ahead)'
<1> SUFFICES ASSUME ExportInv(ahead), [Next]_vars PROVE ExportInv(ahead)'
  OBVIOUS
<1>1. OrderInv(ahead)'
  BY OrderStep DEF ExportInv
<1>2. Sound /\ Sound' /\ PlansStay /\ TrailGrows /\ NextTables
  BY SoundStep, TrailStep, TableStep DEF ExportInv, OrderInv
<1>3. \A u \in User : pc[u] # "idle" => req[u].plan \in DOMAIN plan /\ req[u].plan \in PlanId
  BY <1>2, Rows DEF Sound, RequestsNamePlans
<1>4. LastApprovalsAreRecorded'
  <2> SUFFICES ASSUME NEW p \in DOMAIN plan', reviews'[p] # <<>>,
                      reviews'[p][Len(reviews'[p])].decision = "approved"
               PROVE  ApprovedLast(p)'
    BY DEF LastApprovalsAreRecorded
  <2>1. p \in PlanId
    BY <1>2, PlanIdsNext DEF Sound
  <2>2. ASSUME reviews'[p] = reviews[p], \A u \in User : CommitReview(u) => req[u].plan # p
        PROVE  ApprovedLast(p)'
    <3>1. p \in DOMAIN plan
      BY <1>2, <2>1, <2>2 DEF Sound, ReviewsAreOfPlans
    <3>2. ApprovedLast(p)
      BY <2>2, <3>1 DEF ExportInv, LastApprovalsAreRecorded
    <3> QED
      BY <1>2, <2>2, <3>1, <3>2, ApprovedLastStays
  <2>3. ASSUME NEW u \in User, CommitReview(u), p = req[u].plan PROVE ApprovedLast(p)'
    <3>1. reviews'[p][Len(reviews'[p])].decision = req[u].decision
      <4>1. /\ Len(reviews'[p]) = Len(reviews[p]) + 1
            /\ reviews'[p][Len(reviews[p]) + 1] =
                 [reviewer |-> u, decision |-> req[u].decision, content |-> plan[p].content,
                  at |-> req[u].at, basis |-> req[u].version]
        BY <1>2, <2>3, CommittedRow
      <4> QED
        BY <4>1
    <3> QED
      BY <1>2, <2>3, <3>1, ApprovalIsLast
  <2>4. ASSUME \A u \in User : CommitReview(u) => req[u].plan # p
        PROVE  reviews'[p] = reviews[p]
    <3>1. CASE UNCHANGED reviews
      BY <3>1
    <3>2. ASSUME NEW u \in User, CommitReview(u) PROVE reviews'[p] = reviews[p]
      BY <1>2, <2>1, <2>4, <3>2, CommittedRow
    <3> QED
      BY <1>2, <3>1, <3>2 DEF NextTables, NextReview
  <2> QED
    BY <2>2, <2>3, <2>4
<1>5. AuthorizedHoldTheRow'
  <2> SUFFICES ASSUME NEW u \in User, pc'[u] = "authorized", NEW p, p = req'[u].plan
               PROVE  /\ rowLock'[p] = u
                      /\ req'[u].allowed /\ plan'[p].required => ApprovedLast(p)'
    BY DEF AuthorizedHoldTheRow, ApprovedLast
  <2>1. CASE pc'[u] = pc[u] /\ req'[u] = req[u]
    <3>1. p \in DOMAIN plan /\ p \in PlanId /\ rowLock[p] = u
          /\ plan'[p].required = plan[p].required
      BY <1>2, <1>3, <2>1 DEF ExportInv, AuthorizedHoldTheRow, PlansStay
    <3>2. rowLock'[p] = u
      BY <1>2, <2>1, <3>1, LockStep
    <3>3. \A v \in User : CommitReview(v) => req[v].plan # p
      BY <3>1, NobodyAssumption DEF CommitReview
    <3>4. req[u].allowed /\ plan[p].required => ApprovedLast(p)
      BY <2>1 DEF ExportInv, AuthorizedHoldTheRow
    <3> QED
      BY <1>2, <2>1, <3>1, <3>2, <3>3, <3>4, ApprovedLastStays
  <2>2. ASSUME NEW allowed \in BOOLEAN, Authorize(u), Allows(req[u].plan, allowed),
               req'[u] = [req[u] EXCEPT !.allowed = allowed]
        PROVE  /\ rowLock'[p] = u
               /\ req'[u].allowed /\ plan'[p].required => ApprovedLast(p)'
    <3>1. /\ p = req[u].plan /\ req'[u].allowed = allowed
          /\ p \in DOMAIN plan /\ p \in PlanId
      BY <1>2, <1>3, <2>2 DEF Authorize, Sound, TypeOK, Request
    <3>2. rowLock'[p] = u /\ UNCHANGED <<plan, reviews, audit>>
      BY <1>2, <2>2, <3>1 DEF Authorize, LockRow, Sound, TypeOK
    <3>3. ASSUME allowed, plan[p].required PROVE ApprovedLast(p)
      <4>1. reviews[p] # <<>> /\ \E i \in Latest(p) : reviews[p][i].decision = "approved"
        <5>1. PICK i \in Latest(p) : reviews[p][i].decision = "approved"
          BY <2>2, <3>1, <3>3 DEF Allows
        <5>2. i \in 1..Len(reviews[p])
          BY <1>2, <3>1, <5>1, ReviewRows DEF Latest, Sound
        <5>3. reviews[p] # <<>>
          BY <5>2, EmptySeq
        <5> QED
          BY <5>1, <5>3
      <4>2. Latest(p) = {Len(reviews[p])}
        BY <3>1, <4>1, LatestIsLast DEF ExportInv, LatestIsLastCommitted
      <4> QED
        BY <3>1, <4>1, <4>2 DEF ExportInv, LastApprovalsAreRecorded
    <3>4. ApprovedLast(p) => ApprovedLast(p)'
      BY <3>2 DEF ApprovedLast
    <3> QED
      BY <3>1, <3>2, <3>3, <3>4
  <2> QED
    BY <1>2, <2>1, <2>2, HandlerStep
<1>6. ExportFollowsApproval'
  <2> SUFFICES ASSUME NEW i \in DOMAIN audit',
                      audit'[i].action = "plan.exported", plan'[audit'[i].plan].required
               PROVE  \E j \in 1..(i - 1) :
                        /\ audit'[j].action = "plan.review.approved"
                        /\ audit'[j].plan = audit'[i].plan
                        /\ \A k \in (j + 1)..(i - 1) : ~DecidesOn(audit'[k], audit'[i].plan)
    BY DEF ExportFollowsApproval
  <2>1. Len(audit) \in Nat /\ DOMAIN audit = 1..Len(audit)
    BY <1>2, Rows DEF Sound
  <2>2. CASE i \in DOMAIN audit
    <3> DEFINE p == audit[i].plan
    <3>1. audit'[i] = audit[i] /\ p \in DOMAIN plan /\ plan'[p].required = plan[p].required
      BY <1>2, <2>2 DEF TrailGrows, Sound, EventsNamePlans, PlansStay
    <3>2. PICK j \in 1..(i - 1) :
            /\ audit[j].action = "plan.review.approved" /\ audit[j].plan = p
            /\ \A k \in (j + 1)..(i - 1) : ~DecidesOn(audit[k], p)
      BY <2>2, <3>1 DEF ExportInv, ExportFollowsApproval
    <3>3. \A k \in 1..(i - 1) : audit'[k] = audit[k]
      BY <1>2, <2>1, <2>2 DEF TrailGrows
    <3>4. \A k \in (j + 1)..(i - 1) : k \in 1..(i - 1)
      BY <2>1, <2>2
    <3> QED
      BY <3>1, <3>2, <3>3, <3>4
  <2>3. CASE i = Len(audit) + 1
    <3>1. PICK u \in User, p \in DOMAIN plan', a \in Action :
            /\ Audited(u, p, a)
            /\ a = "plan.exported" => CommitExport(u) /\ req[u].allowed /\ p = req[u].plan
      BY <1>2, <2>1, <2>3 DEF NextTables, NextEvent
    <3>2. audit'[i] = [action |-> a, plan |-> p, actor |-> u]
      BY <1>2, <2>3, <3>1, AuditedRow, PlanIdsNext DEF Sound
    <3>3. CommitExport(u) /\ req[u].allowed /\ p = req[u].plan /\ audit'[i].plan = p
      BY <3>1, <3>2
    <3>4. p \in DOMAIN plan /\ pc[u] = "authorized" /\ plan'[p].required = plan[p].required
      BY <1>2, <1>3, <3>3 DEF CommitExport, PlansStay
    <3>5. ApprovedLast(p)
      BY <3>3, <3>4 DEF ExportInv, AuthorizedHoldTheRow
    <3>6. PICK j \in DOMAIN audit :
            /\ audit[j].action = "plan.review.approved" /\ audit[j].plan = p
            /\ \A k \in DOMAIN audit : k > j => ~DecidesOn(audit[k], p)
      BY <3>5 DEF ApprovedLast
    <3>7. j \in 1..(i - 1) /\ audit'[j] = audit[j]
      BY <1>2, <2>1, <2>3 DEF TrailGrows
    <3>8. ASSUME NEW k \in (j + 1)..(i - 1) PROVE ~DecidesOn(audit'[k], p)
      <4>1. k \in DOMAIN audit /\ k > j
        <5>1. j \in Nat /\ k \in Nat /\ j + 1 <= k /\ k <= Len(audit)
          BY <2>1, <2>3, <3>7
        <5> QED
          BY <2>1, <5>1
      <4> QED
        BY <1>2, <3>6, <4>1 DEF TrailGrows
    <3> QED
      BY <3>3, <3>6, <3>7, <3>8
  <2> QED
    BY <1>2, <2>1, <2>2, <2>3 DEF TrailGrows
<1> QED
  BY <1>1, <1>4, <1>5, <1>6 DEF ExportInv

\* On hosts whose clocks agree, no reviewer decides on a version somebody else
\* has decided on since, the latest review is the one committed last, and the
\* last decision before an export of a plan under review is an approval.
THEOREM ExportsAreOrdered ==
  ASSUME NEW ahead \in Nat, \A u \in User : Skew[u] = ahead
  PROVE  Spec => []ExportsFollowApprovals
<1>1. Init => ExportInv(ahead)
  <2> SUFFICES ASSUME Init PROVE ExportInv(ahead)
    OBVIOUS
  <2>1. Sound
    BY InitSound
  <2>2. DOMAIN plan = {} /\ DOMAIN audit = {}
    BY <2>1, Rows, EmptySeq DEF Init, Sound
  <2>3. \A p \in PlanId : DOMAIN reviews[p] = {}
    BY <2>1, ReviewRows, EmptySeq DEF Init, Sound
  <2>4. OrderInv(ahead)
    BY <2>1, <2>2, <2>3 DEF Init, OrderInv, VersionsCountReviews, ReadsArePast, StampsArePast,
                            CurrentStampsAreLast, StampsIncrease, DecisionsSawTheEarlierOnes
  <2> QED
    BY <2>2, <2>4 DEF Init, ExportInv, LastApprovalsAreRecorded, AuthorizedHoldTheRow,
                      ExportFollowsApproval
<1>2. ExportInv(ahead) /\ [Next]_vars => ExportInv(ahead)'
  BY ExportStep
<1>3. ExportInv(ahead) => ExportsFollowApprovals
  BY LatestIsLast DEF ExportInv, OrderInv, ExportsFollowApprovals
<1> QED
  BY <1>1, <1>2, <1>3, PTL DEF Spec
-----------------------------------------------------------------------------
(***************************************************************************)
(* The import of a legacy database, of any plans.                          *)
(***************************************************************************)

\* s lists plans, none twice, each after the parent that g gives it.
InOrder(s, g) ==
  /\ s \in Seq(Legacy)
  /\ \A i, j \in 1..Len(s) : s[i] = s[j] => i = j
  /\ \A i \in 1..Len(s) : g[s[i]] # Nobody => \E j \in 1..(i - 1) : s[j] = g[s[i]]

\* While it orders the plans, the importer has each of those it read either in
\* the order or pending.
OrderingLosesNothing ==
  /\ step = "order" => /\ Import!Range(order) \cup pending = readPlans
                       /\ Import!Range(order) \cap pending = {}
  /\ step \in {"check", "write"} => Import!Range(order) = readPlans
  /\ step \in {"order", "check", "write"} => InOrder(order, parents)

\* The target has whole imports.
TargetIsWhole ==
  /\ InOrder(tPlans, parents)
  /\ \A r \in tReviews : r[1] \in Import!Range(tPlans)
  /\ step = "done" => readPlans \subseteq Import!Range(tPlans) /\ readReviews \subseteq tReviews
  /\ ~imported => tPlans = <<>> /\ tReviews = {}

\* Its chain has every number up to that of the sequence, and an outbox row
\* for each: importing into a chain that has begun is refused by its numbers.
ChainIsGapless == tAudit = Import!AuditRows(serial) /\ tOutbox = 1..serial

ImportInv == Import!TypeOK /\ OrderingLosesNothing /\ TargetIsWhole /\ ChainIsGapless

\* The set counted by the imported module is the one the theorems count.
LEMMA ImportCounts == \A S : Import!Cardinality(S) = Cardinality(S)
  BY DEF Import!Cardinality, Cardinality

\* What a sequence ranges over.
LEMMA ImportRange ==
  ASSUME NEW s \in Seq(Legacy)
  PROVE  /\ Len(s) \in Nat /\ DOMAIN s = 1..Len(s)
         /\ \A i \in 1..Len(s) : s[i] \in Legacy
         /\ \A x : x \in Import!Range(s) <=> \E i \in 1..Len(s) : s[i] = x
<1>1. Len(s) \in Nat /\ DOMAIN s = 1..Len(s)
  BY LenProperties
<1>2. \A i \in 1..Len(s) : s[i] \in Legacy
  BY ElementOfSeq
<1> QED
  BY <1>1, <1>2 DEF Import!Range

\* Sorting a set of plans in any way loses none and lists none twice.
LEMMA SortedOnce ==
  ASSUME NEW S \in SUBSET Legacy, NEW s \in Import!SetToSeqs(S)
  PROVE  /\ s \in Seq(Legacy) /\ Import!Range(s) = S
         /\ \A i, j \in 1..Len(s) : s[i] = s[j] => i = j
<1> DEFINE n == Cardinality(S)
<1>1. IsFiniteSet(S) /\ n \in Nat
  <2>1. IsFiniteSet(Legacy)
    BY ImportAssumption DEF Import!SettingsAreSound, Import!IsFiniteSet, IsFiniteSet
  <2> QED
    BY <2>1, FS_Subset, FS_CardinalityType
<1>2. /\ s \in [1..n -> S]
      /\ \A i, j \in 1..n : i # j => s[i] # s[j]
  BY ImportCounts DEF Import!SetToSeqs
<1> HIDE DEF n
<1>3. s \in Seq(Legacy) /\ Len(s) = n
  <2>1. s \in Seq(S)
    BY <1>1, <1>2, SeqDef
  <2>2. Len(s) \in Nat /\ DOMAIN s = 1..Len(s)
    BY <2>1, LenProperties
  <2>3. DOMAIN s = 1..n
    BY <1>2
  <2>4. Len(s) = n
    <3>1. \A k : k \in 1..Len(s) <=> k \in 1..n
      BY <2>2, <2>3
    <3>2. Len(s) # 0 => Len(s) \in 1..Len(s)
      BY <2>2
    <3>3. n # 0 => n \in 1..n
      BY <1>1
    <3>4. n \in Nat /\ Len(s) \in Nat
      BY <1>1, <2>2
    <3>5. Len(s) <= n
      BY <3>1, <3>2, <3>4
    <3>6. n <= Len(s)
      BY <3>1, <3>3, <3>4
    <3> QED
      BY <3>4, <3>5, <3>6
  <2> QED
    BY <2>1, <2>4, SeqMonotonic
<1>4. S \subseteq Import!Range(s)
  <2>1. IsFiniteSet(1..n) /\ Cardinality(1..n) = n
    BY <1>1, FS_Interval
  <2>2. s \in Injection(1..n, S)
    BY <1>2 DEF Injection, IsInjective
  <2>3. s \in Surjection(1..n, S)
    BY <1>1, <2>1, <2>2, FS_Injection DEF n
  <2> QED
    BY <1>3, <2>3, ImportRange DEF Surjection
<1>5. Import!Range(s) \subseteq S
  BY <1>2, <1>3, ImportRange
<1> QED
  BY <1>2, <1>3, <1>4, <1>5

\* Appending plans whose parents are listed already keeps the order.
LEMMA OrderGrows ==
  ASSUME NEW g, NEW s, InOrder(s, g), NEW t \in Seq(Legacy),
         \A i, j \in 1..Len(t) : t[i] = t[j] => i = j,
         Import!Range(s) \cap Import!Range(t) = {},
         \A i \in 1..Len(t) : g[t[i]] # Nobody =>
           \/ g[t[i]] \in Import!Range(s)
           \/ \E j \in 1..(i - 1) : t[j] = g[t[i]]
  PROVE  InOrder(s \o t, g) /\ Import!Range(s \o t) = Import!Range(s) \cup Import!Range(t)
<1>1. /\ s \in Seq(Legacy) /\ Len(s) \in Nat /\ Len(t) \in Nat
      /\ \A x : x \in Import!Range(s) <=> \E i \in 1..Len(s) : s[i] = x
      /\ \A x : x \in Import!Range(t) <=> \E i \in 1..Len(t) : t[i] = x
  BY ImportRange DEF InOrder
<1>2. s \o t \in Seq(Legacy) /\ Len(s \o t) = Len(s) + Len(t)
  BY <1>1, ConcatProperties
<1>3. \A i \in 1..Len(s) : (s \o t)[i] = s[i]
  BY <1>1, ConcatProperties
<1>4. \A i \in 1..Len(t) : (s \o t)[Len(s) + i] = t[i]
  <2> TAKE i \in 1..Len(t)
  <2>1. Len(s) + i \in 1..(Len(s) + Len(t)) /\ ~(Len(s) + i <= Len(s)) /\ (Len(s) + i) - Len(s) = i
    BY <1>1
  <2>2. (s \o t)[Len(s) + i] = IF Len(s) + i <= Len(s) THEN s[Len(s) + i] ELSE t[(Len(s) + i) - Len(s)]
    BY <1>1, <2>1, ConcatProperties
  <2> QED
    BY <2>1, <2>2
<1>5. \A i \in 1..Len(s \o t) : i \in 1..Len(s) \/ \E k \in 1..Len(t) : i = Len(s) + k
  <2> TAKE i \in 1..Len(s \o t)
  <2>1. i \in 1..Len(s) \/ (i - Len(s) \in 1..Len(t) /\ i = Len(s) + (i - Len(s)))
    BY <1>1, <1>2
  <2> QED
    BY <2>1
<1>6. \A i \in 1..Len(s) : i \in 1..Len(s \o t)
  BY <1>1, <1>2
<1>7. \A i \in 1..Len(t) : Len(s) + i \in 1..Len(s \o t)
  BY <1>1, <1>2
<1>8. \A x : x \in Import!Range(s \o t) <=> \E i \in 1..Len(s \o t) : (s \o t)[i] = x
  BY <1>2, ImportRange
<1>9. Import!Range(s \o t) = Import!Range(s) \cup Import!Range(t)
  <2>1. \A x : x \in Import!Range(s \o t) => x \in Import!Range(s) \cup Import!Range(t)
    BY <1>1, <1>3, <1>4, <1>5, <1>8
  <2>2. \A x \in Import!Range(s) : x \in Import!Range(s \o t)
    BY <1>1, <1>3, <1>6, <1>8
  <2>3. \A x \in Import!Range(t) : x \in Import!Range(s \o t)
    BY <1>1, <1>4, <1>7, <1>8
  <2> QED
    BY <2>1, <2>2, <2>3
<1>10. \A i, j \in 1..Len(s \o t) : (s \o t)[i] = (s \o t)[j] => i = j
  <2> SUFFICES ASSUME NEW i \in 1..Len(s \o t), NEW j \in 1..Len(s \o t), (s \o t)[i] = (s \o t)[j]
               PROVE  i = j
    OBVIOUS
  <2>1. CASE i \in 1..Len(s) /\ j \in 1..Len(s)
    BY <1>3, <2>1 DEF InOrder
  <2>2. ASSUME NEW k \in 1..Len(t), i = Len(s) + k, NEW l \in 1..Len(t), j = Len(s) + l
        PROVE  i = j
    BY <1>4, <2>2
  <2>3. ASSUME i \in 1..Len(s), NEW l \in 1..Len(t), j = Len(s) + l
        PROVE  FALSE
    BY <1>1, <1>3, <1>4, <2>3
  <2>4. ASSUME j \in 1..Len(s), NEW k \in 1..Len(t), i = Len(s) + k
        PROVE  FALSE
    BY <1>1, <1>3, <1>4, <2>4
  <2> QED
    BY <1>5, <2>1, <2>2, <2>3, <2>4
<1>11. ASSUME NEW i \in 1..Len(s \o t), g[(s \o t)[i]] # Nobody
       PROVE  \E j \in 1..(i - 1) : (s \o t)[j] = g[(s \o t)[i]]
  <2>1. CASE i \in 1..Len(s)
    <3>1. (s \o t)[i] = s[i]
      BY <1>3, <2>1
    <3>2. PICK j \in 1..(i - 1) : s[j] = g[s[i]]
      BY <1>11, <2>1, <3>1 DEF InOrder
    <3>3. j \in 1..Len(s)
      BY <1>1, <2>1, <3>2
    <3> QED
      BY <1>3, <3>1, <3>2, <3>3
  <2>2. ASSUME NEW k \in 1..Len(t), i = Len(s) + k
        PROVE  \E j \in 1..(i - 1) : (s \o t)[j] = g[(s \o t)[i]]
    <3>1. (s \o t)[i] = t[k]
      BY <1>4, <2>2
    <3>2. CASE g[t[k]] \in Import!Range(s)
      <4>1. PICK j \in 1..Len(s) : s[j] = g[t[k]]
        BY <1>1, <3>2
      <4>2. j \in 1..(i - 1)
        BY <1>1, <2>2, <4>1
      <4> QED
        BY <1>3, <3>1, <4>1, <4>2
    <3>3. CASE \E j \in 1..(k - 1) : t[j] = g[t[k]]
      <4>1. PICK j \in 1..(k - 1) : t[j] = g[t[k]]
        BY <3>3
      <4>2. j \in 1..Len(t) /\ Len(s) + j \in 1..(i - 1)
        BY <1>1, <2>2, <4>1
      <4> QED
        BY <1>4, <3>1, <4>1, <4>2
    <3> QED
      BY <1>11, <3>1, <3>2, <3>3
  <2> QED
    BY <1>5, <2>1, <2>2
<1> QED
  BY <1>2, <1>9, <1>10, <1>11 DEF InOrder

\* Plans are put in order turn by turn.
LEMMA OrderPlansKeepsImport ==
  ASSUME ImportInv, Import!OrderPlans
  PROVE  ImportInv'
<1>1. /\ step = "order" /\ step' \in {"order", "check", "idle"}
      /\ UNCHANGED <<parents, srcPlans, srcReviews, srcAudit>>
      /\ UNCHANGED <<tPlans, tReviews, tAudit, tOutbox, imported, serial>>
  BY DEF Import!OrderPlans, Import!source, Import!target, Import!RefuseGraph, Import!Leave,
         Import!GoTo
<1>2. TargetIsWhole' /\ ChainIsGapless'
  BY <1>1 DEF ImportInv, TargetIsWhole, ChainIsGapless, InOrder, Import!Range, Import!AuditRows
<1>3. CASE /\ pending # {} /\ Import!Ready # {}
           /\ \E s \in Import!SetToSeqs(Import!Ready) : order' = order \o s
           /\ pending' = pending \ Import!Ready
           /\ UNCHANGED <<step, readPlans, readReviews, readAudit>>
  <2>1. PICK s \in Import!SetToSeqs(Import!Ready) : order' = order \o s
    BY <1>3
  <2>2. Import!Ready \in SUBSET pending /\ pending \in SUBSET Legacy
    BY DEF ImportInv, Import!TypeOK, Import!Ready
  <2>3. /\ s \in Seq(Legacy) /\ Import!Range(s) = Import!Ready
        /\ \A i, j \in 1..Len(s) : s[i] = s[j] => i = j
    BY <2>2, SortedOnce
  <2>4. InOrder(order, parents) /\ Import!Range(order) \cap Import!Range(s) = {}
    BY <1>1, <2>2, <2>3 DEF ImportInv, OrderingLosesNothing
  <2>5. \A i \in 1..Len(s) : parents[s[i]] # Nobody => parents[s[i]] \in Import!Range(order)
    <3>1. \A i \in 1..Len(s) : s[i] \in Import!Ready
      BY <2>3, ImportRange
    <3> QED
      BY <3>1 DEF Import!Ready
  <2>6. InOrder(order', parents) /\ Import!Range(order') = Import!Range(order) \cup Import!Ready
    BY <2>1, <2>3, <2>4, <2>5, OrderGrows
  <2>7. Import!Range(order)' = Import!Range(order')
    BY DEF Import!Range
  <2>8. InOrder(order, parents)'
    BY <1>1, <2>6 DEF InOrder
  <2>9. OrderingLosesNothing'
    BY <1>1, <1>3, <2>2, <2>4, <2>6, <2>7, <2>8 DEF ImportInv, OrderingLosesNothing
  <2>10. Import!TypeOK'
    BY <1>1, <1>3, <2>6 DEF ImportInv, Import!TypeOK, InOrder, Import!IsInjective
  <2> QED
    BY <1>2, <2>9, <2>10 DEF ImportInv
<1>4. CASE Import!Leave
  <2>1. step' = "idle"
    BY <1>4 DEF Import!Leave
  <2>2. OrderingLosesNothing'
    BY <2>1 DEF OrderingLosesNothing
  <2>3. Import!TypeOK'
    BY <1>1, <1>4 DEF ImportInv, Import!TypeOK, Import!Leave, Import!IsInjective
  <2> QED
    BY <1>2, <2>2, <2>3 DEF ImportInv
<1>5. CASE pending = {} /\ Import!GoTo("check") /\ UNCHANGED Import!local
  <2>1. step' = "check" /\ UNCHANGED <<readPlans, readReviews, readAudit, order, pending>>
    BY <1>5 DEF Import!GoTo, Import!local
  <2>2. OrderingLosesNothing'
    BY <1>1, <1>5, <2>1 DEF ImportInv, OrderingLosesNothing, InOrder, Import!Range
  <2>3. Import!TypeOK'
    BY <1>1, <2>1 DEF ImportInv, Import!TypeOK, Import!IsInjective
  <2> QED
    BY <1>2, <2>2, <2>3 DEF ImportInv
<1> QED
  BY <1>3, <1>4, <1>5 DEF Import!OrderPlans, Import!RefuseGraph

\* Rows of a chain without gaps have the numbers from 1 on.
LEMMA ImportedNumbers ==
  ASSUME tAudit = Import!AuditRows(serial)
  PROVE  Import!Numbers = 1..serial
<1>1. \A k \in 1..serial : [number |-> k, prev |-> k - 1] \in tAudit
  BY DEF Import!AuditRows
<1>2. \A k \in 1..serial : k \in Import!Numbers
  <2> TAKE k \in 1..serial
  <2>1. [number |-> k, prev |-> k - 1].number = k
    OBVIOUS
  <2> QED
    BY <1>1, <2>1 DEF Import!Numbers
<1>3. \A e \in tAudit : e.number \in 1..serial
  BY DEF Import!AuditRows
<1>4. \A k \in Import!Numbers : k \in 1..serial
  BY <1>3 DEF Import!Numbers
<1> QED
  BY <1>2, <1>4

\* The largest number that setval finds in an empty chain is the last one
\* imported.
LEMMA SerialFollows ==
  ASSUME ImportInv, Import!SetSerial, Import!Numbers \cap (1..readAudit) = {}
  PROVE  \/ readAudit = 0 /\ serial' = serial
         \/ readAudit # 0 /\ serial = 0 /\ serial' = readAudit
<1>1. serial \in Nat /\ readAudit \in Nat
  BY DEF ImportInv, Import!TypeOK
<1>2. CASE readAudit = 0
  BY <1>2 DEF Import!SetSerial
<1>3. CASE readAudit # 0
  <2>1. Import!Numbers = 1..serial
    BY ImportedNumbers DEF ImportInv, ChainIsGapless
  <2>2. 1 \in 1..readAudit /\ readAudit \in 1..readAudit
    BY <1>1, <1>3
  <2>3. serial = 0
    <3>1. 1 \notin 1..serial
      BY <2>1, <2>2
    <3> QED
      BY <1>1, <3>1
  <2>4. Import!Numbers \cup (1..readAudit) = 1..readAudit
    BY <2>1, <2>3
  <2>5. \E n \in 1..readAudit : \A k \in 1..readAudit : k <= n
    BY <1>1, <2>2
  <2>6. serial' = CHOOSE n \in 1..readAudit : \A k \in 1..readAudit : k <= n
    BY <1>3, <2>4 DEF Import!SetSerial
  <2>7. serial' \in 1..readAudit /\ \A k \in 1..readAudit : k <= serial'
    BY <2>5, <2>6
  <2>8. serial' = readAudit
    BY <1>1, <2>2, <2>7
  <2> QED
    BY <1>3, <2>3, <2>8
<1> QED
  BY <1>2, <1>3

\* The rows of a chain without gaps have their types.
LEMMA GaplessTypes ==
  ASSUME ChainIsGapless', serial' \in Nat
  PROVE  tAudit' \subseteq [number : Nat \ {0}, prev : Nat] /\ tOutbox' \subseteq Nat
<1>1. \A k \in 1..serial' : k \in Nat \ {0} /\ k - 1 \in Nat
  OBVIOUS
<1> QED
  BY <1>1 DEF ChainIsGapless, Import!AuditRows

\* An order lists no plan twice.
LEMMA InjectiveOrder ==
  ASSUME InOrder(tPlans, parents)'
  PROVE  tPlans' \in Seq(Legacy) /\ Import!IsInjective(tPlans)'
<1>1. tPlans' \in Seq(Legacy) /\ \A i, j \in 1..Len(tPlans') : tPlans'[i] = tPlans'[j] => i = j
  BY DEF InOrder
<1>2. DOMAIN tPlans' = 1..Len(tPlans')
  BY <1>1, LenProperties
<1> QED
  BY <1>1, <1>2 DEF Import!IsInjective

\* The transaction of the import, committed or not.
LEMMA WriteKeepsImport ==
  ASSUME ImportInv, Import!Write
  PROVE  ImportInv'
<1>1. /\ step = "write" /\ step' \in {"done", "idle"}
      /\ UNCHANGED <<parents, srcPlans, srcReviews, srcAudit>>
  BY DEF Import!Write, Import!source, Import!Leave, Import!GoTo
<1>2. OrderingLosesNothing'
  BY <1>1 DEF OrderingLosesNothing
<1>3. CASE /\ Import!ForeignKeys
           /\ Import!Range(tPlans) \cap readPlans = {}
           /\ Import!Numbers \cap (1..readAudit) = {}
           /\ tPlans' = tPlans \o order
           /\ tReviews' = tReviews \cup readReviews
           /\ tAudit' = tAudit \cup Import!AuditRows(readAudit)
           /\ tOutbox' = tOutbox \cup Import!OutboxRows(readAudit)
           /\ Import!SetSerial
           /\ imported' = TRUE
           /\ UNCHANGED <<readPlans, readReviews, readAudit, order, pending>>
  <2>1. /\ InOrder(tPlans, parents) /\ InOrder(order, parents)
        /\ Import!Range(order) = readPlans
    BY <1>1 DEF ImportInv, OrderingLosesNothing, TargetIsWhole
  <2>2. \A i \in 1..Len(order) : parents[order[i]] # Nobody =>
          \E j \in 1..(i - 1) : order[j] = parents[order[i]]
    BY <2>1 DEF InOrder
  <2>3. /\ order \in Seq(Legacy) /\ \A i, j \in 1..Len(order) : order[i] = order[j] => i = j
        /\ Import!Range(tPlans) \cap Import!Range(order) = {}
    BY <1>3, <2>1 DEF InOrder
  <2>4. /\ InOrder(tPlans \o order, parents)
        /\ Import!Range(tPlans \o order) = Import!Range(tPlans) \cup Import!Range(order)
    BY <2>1, <2>2, <2>3, OrderGrows
  <2>5. Import!Range(tPlans)' = Import!Range(tPlans) \cup readPlans
    <3>1. Import!Range(tPlans)' = Import!Range(tPlans')
      BY DEF Import!Range
    <3> QED
      BY <1>3, <2>1, <2>4, <3>1
  <2>6. InOrder(tPlans, parents)'
    BY <1>1, <1>3, <2>4 DEF InOrder
  <2>7. TargetIsWhole'
    <3>1. (\A r \in tReviews : r[1] \in Import!Range(tPlans))'
      BY <1>3, <2>5 DEF Import!ForeignKeys, ImportInv, TargetIsWhole
    <3> QED
      BY <1>3, <2>5, <2>6, <3>1 DEF TargetIsWhole
  <2>8. ChainIsGapless' /\ serial' \in Nat
    <3>1. /\ serial \in Nat /\ readAudit \in Nat
          /\ tAudit = Import!AuditRows(serial) /\ tOutbox = 1..serial
      BY DEF ImportInv, Import!TypeOK, ChainIsGapless
    <3>2. CASE readAudit = 0 /\ serial' = serial
      <4>1. 1..readAudit = {}
        BY <3>2
      <4>2. Import!AuditRows(readAudit) = {} /\ Import!OutboxRows(readAudit) = {}
        BY <4>1 DEF Import!AuditRows, Import!OutboxRows
      <4> QED
        BY <1>3, <3>1, <3>2, <4>2 DEF ChainIsGapless, Import!AuditRows
    <3>3. CASE readAudit # 0 /\ serial = 0 /\ serial' = readAudit
      <4>1. 1..serial = {}
        BY <3>3
      <4>2. tAudit = {} /\ tOutbox = {}
        BY <3>1, <4>1 DEF Import!AuditRows
      <4>3. /\ tAudit' = Import!AuditRows(readAudit)
            /\ tOutbox' = 1..readAudit
        BY <1>3, <4>2 DEF Import!OutboxRows
      <4> QED
        BY <3>1, <3>3, <4>3 DEF ChainIsGapless, Import!AuditRows
    <3> QED
      BY <1>3, <3>2, <3>3, SerialFollows
  <2>9. Import!TypeOK'
    <3>1. tReviews' \subseteq Legacy \X Nat
      BY <1>3 DEF ImportInv, Import!TypeOK
    <3>2. /\ tAudit' \subseteq [number : Nat \ {0}, prev : Nat] /\ tOutbox' \subseteq Nat
      BY <2>8, GaplessTypes
    <3>3. tPlans' \in Seq(Legacy) /\ Import!IsInjective(tPlans)'
      BY <2>6, InjectiveOrder
    <3> QED
      BY <1>1, <1>3, <2>8, <3>1, <3>2, <3>3 DEF ImportInv, Import!TypeOK
  <2> QED
    BY <1>2, <2>7, <2>8, <2>9 DEF ImportInv
<1>4. CASE Import!Leave /\ UNCHANGED <<tPlans, tReviews, tAudit, tOutbox, imported, serial>>
  <2>1. TargetIsWhole' /\ ChainIsGapless'
    BY <1>1, <1>4 DEF ImportInv, TargetIsWhole, ChainIsGapless, InOrder, Import!Range,
                      Import!AuditRows, Import!Leave
  <2>2. Import!TypeOK'
    BY <1>1, <1>4 DEF ImportInv, Import!TypeOK, Import!Leave, Import!IsInjective
  <2> QED
    BY <1>2, <2>1, <2>2 DEF ImportInv
<1> QED
  BY <1>3, <1>4 DEF Import!Write, Import!local, Import!target

\* The new API appends to the chain.
LEMMA AppendKeepsImport ==
  ASSUME ImportInv, Import!TargetAppends
  PROVE  ImportInv'
<1>1. /\ UNCHANGED <<parents, srcPlans, srcReviews, srcAudit, step>>
      /\ UNCHANGED <<readPlans, readReviews, readAudit, order, pending>>
      /\ UNCHANGED <<tPlans, tReviews, imported>> /\ serial' = serial + 1
  BY DEF Import!TargetAppends, Import!source, Import!local
<1>2. /\ serial \in Nat /\ Import!Numbers = 1..serial
      /\ tAudit = Import!AuditRows(serial) /\ tOutbox = 1..serial
  BY ImportedNumbers DEF ImportInv, Import!TypeOK, ChainIsGapless
<1>3. serial + 1 \notin Import!Numbers
  BY <1>2
<1>4. (CHOOSE n \in Import!Numbers \cup {0} : \A k \in Import!Numbers : k <= n) = serial
  <2> DEFINE m == CHOOSE n \in (1..serial) \cup {0} : \A k \in 1..serial : k <= n
  <2>1. \E n \in (1..serial) \cup {0} : \A k \in 1..serial : k <= n
    <3>1. serial \in (1..serial) \cup {0} /\ \A k \in 1..serial : k <= serial
      BY <1>2
    <3> QED
      BY <3>1
  <2>2. m \in (1..serial) \cup {0} /\ \A k \in 1..serial : k <= m
    BY <2>1
  <2> HIDE DEF m
  <2>3. m = serial
    <3>1. serial = 0 \/ serial \in 1..serial
      BY <1>2
    <3> QED
      BY <1>2, <2>2, <3>1
  <2> QED
    BY <1>2, <2>3 DEF m
<1>5. /\ tAudit' = tAudit \cup {[number |-> serial + 1, prev |-> serial]}
      /\ tOutbox' = tOutbox \cup {serial + 1}
  BY <1>3, <1>4 DEF Import!TargetAppends
<1>6. ChainIsGapless'
  <2>1. 1..(serial + 1) = (1..serial) \cup {serial + 1}
    BY <1>2
  <2>2. (serial + 1) - 1 = serial
    BY <1>2
  <2>3. tAudit' = {[number |-> k, prev |-> k - 1] : k \in (1..serial) \cup {serial + 1}}
    BY <1>2, <1>5, <2>2 DEF Import!AuditRows
  <2> QED
    BY <1>1, <1>2, <1>5, <2>1, <2>3 DEF ChainIsGapless, Import!AuditRows
<1>7. OrderingLosesNothing' /\ TargetIsWhole'
  BY <1>1 DEF ImportInv, OrderingLosesNothing, TargetIsWhole, InOrder, Import!Range
<1>8. Import!TypeOK'
  <2>1. serial' \in Nat
    BY <1>1, <1>2
  <2>2. tAudit' \subseteq [number : Nat \ {0}, prev : Nat] /\ tOutbox' \subseteq Nat
    BY <1>6, <2>1, GaplessTypes
  <2> QED
    BY <1>1, <2>1, <2>2 DEF ImportInv, Import!TypeOK, Import!IsInjective
<1> QED
  BY <1>6, <1>7, <1>8 DEF ImportInv

\* No step of the import, and none of the applications on its two sides,
\* breaks the invariant.
LEMMA ImportStep ==
  ASSUME ImportInv, [Import!Next]_tables
  PROVE  ImportInv'
<1>1. CASE UNCHANGED tables
  BY <1>1 DEF tables, ImportInv, Import!TypeOK, OrderingLosesNothing, TargetIsWhole,
              ChainIsGapless, InOrder, Import!Range, Import!AuditRows, Import!IsInjective
<1>2. CASE Import!ReadPlans \/ Import!ReadReviews
  <2>1. /\ UNCHANGED <<parents, srcPlans, srcReviews, srcAudit, tPlans, tReviews, tAudit>>
        /\ UNCHANGED <<tOutbox, imported, serial, readAudit, order, pending>>
        /\ step' \in {"reviews", "audit"}
    BY <1>2 DEF Import!ReadPlans, Import!ReadReviews, Import!source, Import!target, Import!GoTo
  <2>2. OrderingLosesNothing' /\ TargetIsWhole' /\ ChainIsGapless'
    BY <2>1 DEF ImportInv, OrderingLosesNothing, TargetIsWhole, ChainIsGapless, InOrder,
                Import!Range, Import!AuditRows
  <2>3. readPlans' \subseteq Legacy /\ readReviews' \subseteq Legacy \X Nat
    BY <1>2 DEF ImportInv, Import!TypeOK, Import!ReadPlans, Import!ReadReviews
  <2>4. Import!TypeOK'
    BY <2>1, <2>3 DEF ImportInv, Import!TypeOK, Import!IsInjective
  <2> QED
    BY <2>2, <2>4 DEF ImportInv
<1>3. CASE Import!ReadAudit
  <2>1. /\ UNCHANGED <<parents, srcPlans, srcReviews, srcAudit, tPlans, tReviews, tAudit>>
        /\ UNCHANGED <<tOutbox, imported, serial, readPlans, readReviews>>
        /\ step' = "order" /\ pending' = readPlans /\ order' = <<>> /\ readAudit' = srcAudit
    BY <1>3 DEF Import!ReadAudit, Import!source, Import!target, Import!GoTo
  <2>2. TargetIsWhole' /\ ChainIsGapless'
    BY <2>1 DEF ImportInv, TargetIsWhole, ChainIsGapless, InOrder, Import!Range,
                Import!AuditRows
  <2>3. <<>> \in Seq(Legacy) /\ Len(<<>>) = 0
    BY EmptySeq
  <2>4. InOrder(order, parents)'
    BY <2>1, <2>3 DEF InOrder
  <2>5. \A x : x \notin Import!Range(<<>>)
    <3>1. \A x : x \in Import!Range(<<>>) => \E i \in 1..0 : <<>>[i] = x
      BY <2>3, ImportRange
    <3> QED
      BY <3>1
  <2>6. Import!Range(order)' = Import!Range(<<>>)
    BY <2>1 DEF Import!Range
  <2>7. OrderingLosesNothing'
    BY <2>1, <2>4, <2>5, <2>6 DEF OrderingLosesNothing
  <2>8. Import!TypeOK'
    BY <2>1, <2>3 DEF ImportInv, Import!TypeOK, Import!IsInjective
  <2> QED
    BY <2>2, <2>7, <2>8 DEF ImportInv
<1>4. CASE Import!OrderPlans
  BY <1>4, OrderPlansKeepsImport
<1>5. CASE Import!RequireEmpty \/ Import!Restart
  <2>1. /\ UNCHANGED <<parents, srcPlans, srcReviews, srcAudit, tPlans, tReviews, tAudit>>
        /\ UNCHANGED <<tOutbox, imported, serial>>
        /\ \/ /\ step = "check" /\ step' = "write"
              /\ UNCHANGED <<readPlans, readReviews, readAudit, order, pending>>
           \/ Import!Leave
    BY <1>5 DEF Import!RequireEmpty, Import!Restart, Import!source, Import!target,
                Import!local, Import!GoTo
  <2>2. step' # "done"
    BY <2>1 DEF Import!Leave
  <2>3. OrderingLosesNothing' /\ TargetIsWhole' /\ ChainIsGapless'
    BY <2>1, <2>2 DEF ImportInv, OrderingLosesNothing, TargetIsWhole, ChainIsGapless, InOrder,
                      Import!Range, Import!AuditRows, Import!Leave
  <2>4. <<>> \in Seq(Legacy)
    BY EmptySeq
  <2>5. /\ step' \in {"write", "idle"} /\ readPlans' \subseteq Legacy
        /\ readReviews' \subseteq Legacy \X Nat /\ readAudit' \in Nat
        /\ order' \in Seq(Legacy) /\ pending' \subseteq Legacy
    <3>1. /\ readPlans \subseteq Legacy /\ readReviews \subseteq Legacy \X Nat
          /\ readAudit \in Nat /\ order \in Seq(Legacy) /\ pending \subseteq Legacy
      BY DEF ImportInv, Import!TypeOK
    <3>2. CASE Import!Leave
      BY <2>4, <3>2 DEF Import!Leave
    <3> QED
      BY <2>1, <3>1, <3>2
  <2>6. Import!TypeOK'
    BY <2>1, <2>5 DEF ImportInv, Import!TypeOK, Import!IsInjective
  <2> QED
    BY <2>3, <2>6 DEF ImportInv
<1>6. CASE Import!Write
  BY <1>6, WriteKeepsImport
<1>7. CASE Import!SourceWrites
  <2>1. /\ UNCHANGED <<parents, step, readPlans, readReviews, readAudit, order, pending>>
        /\ UNCHANGED <<tPlans, tReviews, tAudit, tOutbox, imported, serial>>
    BY <1>7 DEF Import!SourceWrites, Import!local, Import!target
  <2>2. OrderingLosesNothing' /\ TargetIsWhole' /\ ChainIsGapless'
    BY <2>1 DEF ImportInv, OrderingLosesNothing, TargetIsWhole, ChainIsGapless, InOrder,
                Import!Range, Import!AuditRows
  <2>3. srcPlans' \subseteq Legacy /\ srcReviews' \subseteq Legacy \X Nat /\ srcAudit' \in Nat
    BY <1>7 DEF ImportInv, Import!TypeOK, Import!SourceWrites
  <2>4. Import!TypeOK'
    BY <2>1, <2>3 DEF ImportInv, Import!TypeOK, Import!IsInjective
  <2> QED
    BY <2>2, <2>4 DEF ImportInv
<1>8. CASE Import!TargetAppends
  BY <1>8, AppendKeepsImport
<1> QED
  BY <1>1, <1>2, <1>3, <1>4, <1>5, <1>6, <1>7, <1>8 DEF Import!Next

\* It holds before the first import.
LEMMA ImportInit ==
  ASSUME Import!Init
  PROVE  ImportInv
<1>1. <<>> \in Seq(Legacy) /\ Len(<<>>) = 0 /\ DOMAIN <<>> = {}
  BY EmptySeq
<1>2. Import!TypeOK
  <2>1. srcReviews \subseteq Legacy \X Nat
    BY DEF Import!Init
  <2>2. Import!IsInjective(tPlans)
    BY <1>1 DEF Import!Init, Import!IsInjective
  <2>3. /\ parents \in [Legacy -> Legacy \cup {Nobody, Unused}]
        /\ srcPlans \subseteq Legacy /\ srcAudit \in Nat
    BY DEF Import!Init
  <2>4. /\ step = "idle" /\ readPlans = {} /\ readReviews = {} /\ readAudit = 0
        /\ order = <<>> /\ pending = {} /\ tPlans = <<>> /\ tReviews = {} /\ tAudit = {}
        /\ tOutbox = {} /\ serial = 0 /\ imported = FALSE
    BY DEF Import!Init
  <2> QED
    BY <1>1, <2>1, <2>2, <2>3, <2>4 DEF Import!TypeOK
<1>3. OrderingLosesNothing
  BY DEF Import!Init, OrderingLosesNothing
<1>4. TargetIsWhole
  BY <1>1 DEF Import!Init, TargetIsWhole, InOrder
<1>5. ChainIsGapless
  <2>1. 1..0 = {}
    OBVIOUS
  <2> QED
    BY <2>1 DEF Import!Init, ChainIsGapless, Import!AuditRows
<1> QED
  BY <1>2, <1>3, <1>4, <1>5 DEF ImportInv

\* What the invariant says of the target.
LEMMA ImportResult ==
  ASSUME ImportInv
  PROVE  /\ Import!TypeOK /\ Import!ParentsFirst /\ Import!ImportIsWhole
         /\ Import!ChainGoesOn
<1>1. Import!Numbers = 1..serial /\ serial \in Nat
  BY ImportedNumbers DEF ImportInv, ChainIsGapless, Import!TypeOK
<1>2. Import!ParentsFirst
  <2>1. DOMAIN tPlans = 1..Len(tPlans)
    BY LenProperties DEF ImportInv, Import!TypeOK
  <2> QED
    BY <2>1 DEF ImportInv, TargetIsWhole, InOrder, Import!ParentsFirst
<1>3. Import!ImportIsWhole
  BY <1>1 DEF ImportInv, TargetIsWhole, ChainIsGapless, Import!ImportIsWhole
<1>4. Import!ChainGoesOn
  <2>1. \A e \in tAudit : e.number \in 1..serial /\ e.prev = e.number - 1
    BY DEF ImportInv, ChainIsGapless, Import!AuditRows
  <2>2. \A e \in tAudit : e.prev < e.number /\ \A k \in Import!Numbers : k <= e.prev \/ k >= e.number
    BY <1>1, <2>1
  <2> QED
    BY <1>1, <2>2 DEF Import!ChainGoesOn
<1> QED
  BY <1>2, <1>3, <1>4 DEF ImportInv

\* The import runs by itself: it has the tables, and the rest stands still.
LEMMA ImportsRunAlone == MCSpec => [](part = "import" => ImportInv)
<1>1. MCInit => (part = "import" => ImportInv)
  BY ImportInit DEF MCInit
<1>2. (part = "import" => ImportInv) /\ [MCNext]_<<vars, tables, part>>
        => (part = "import" => ImportInv)'
  <2> SUFFICES ASSUME part = "import" => ImportInv, [MCNext]_<<vars, tables, part>>,
                      part' = "import"
               PROVE  ImportInv'
    OBVIOUS
  <2>1. part = "import" /\ [Import!Next]_tables
    BY DEF MCNext
  <2> QED
    BY <2>1, ImportStep
<1> QED
  BY <1>1, <1>2, PTL DEF MCSpec

\* What the importer read is imported as a whole or not at all, parents before
\* their versions: for any graph of any plans, whatever the old API writes
\* meanwhile and whenever the importer dies.
THEOREM MigrationsAreWhole == MCSpec => []ImportsAreWhole
<1>1. (part = "import" => ImportInv) => ImportsAreWhole
  BY ImportResult DEF ImportsAreWhole
<1> QED
  BY <1>1, ImportsRunAlone, PTL

\* The chain that the new API appends to is the imported one: no number is
\* missing, none is taken twice, and each event continues the one before it.
THEOREM ImportedChainsContinue == MCSpec => []ImportedChainGoesOn
<1>1. (part = "import" => ImportInv) => ImportedChainGoesOn
  BY ImportResult DEF ImportedChainGoesOn
<1> QED
  BY <1>1, ImportsRunAlone, PTL
=============================================================================
