---------------------------- MODULE ReviewPanel ----------------------------
(***************************************************************************)
(* The persisted-plan panel of the browser: openPersistedPlan, approve-    *)
(* PersistedPlan, loadControlledExport of frontend/src/App.jsx, the form   *)
(* of components/SafetyReviewGate.jsx and the export buttons of            *)
(* components/ReportPreview.jsx, against the server's approvals.           *)
(*                                                                         *)
(* Every handler is asynchronous: what it asked the server for one plan    *)
(* may come back when the panel shows another.  React keeps the form's     *)
(* state as long as the panel stays mounted, whatever plan it shows: the   *)
(* components have no key.  All plans here need a review.                  *)
(***************************************************************************)
EXTENDS Naturals, FiniteSets

CONSTANTS
  Plan,        \* persisted plans that need a review
  MaxRequests, \* bound: requests on the way at a time
  NoPlan       \* the panel is closed; there is no approval, no audit trail

\* What the constants are assumed to be.
SettingsAreSound == MaxRequests \in Nat /\ NoPlan \notin Plan

VARIABLES
  shown,       \* selectedPersistedPlan
  flag,        \* its export_allowed
  approval,    \* persistedApproval: the plan of the approval on screen
  audit,       \* planAudit: the plan whose trail is on screen
  confirmed,   \* the checkbox of the form
  submitting,  \* isSubmitting of the form
  requests,    \* requests of the page the server or the network has
  approved,    \* the server: plans whose latest review is an approval
  recorded,    \* the server: plans that were ever approved
  exported     \* plans whose text was copied or downloaded

vars == <<shown, flag, approval, audit, confirmed, submitting,
          requests, approved, recorded, exported>>
panel  == <<shown, flag, approval, audit>>
form   == <<confirmed, submitting>>
server == <<approved, recorded>>

\* A request: what it is for, the plan of the closure that made it, how far
\* it is, what the server answered, and for an approval and what follows on
\* it whether the form that sent it is still mounted.
Asked(kind, p) ==
  [kind |-> kind, plan |-> p, at |-> "asked", ok |-> FALSE,
   mounted |-> kind \in {"review", "trail"}]

Init ==
  /\ shown = NoPlan /\ flag = FALSE /\ approval = NoPlan /\ audit = NoPlan
  /\ confirmed = FALSE /\ submitting = FALSE
  /\ requests = {} /\ approved = {} /\ recorded = {} /\ exported = {}

Send(r) ==
  /\ Cardinality(requests) < MaxRequests
  /\ r \notin requests
  /\ requests' = requests \cup {r}

\* setIsSubmitting(false) at the end of handleSubmit.
EndsSubmit(r) == submitting' = IF r.mounted THEN FALSE ELSE submitting

-----------------------------------------------------------------------------
(***************************************************************************)
(* Opening and closing.                                                    *)
(***************************************************************************)

\* A plan is chosen in the inbox.
Choose(p) ==
  /\ Send(Asked("open", p))
  /\ UNCHANGED <<panel, form, server, exported>>

\* plan.latest_review, or null.
ApprovalOf(r) == IF r.ok THEN r.plan ELSE NoPlan

\* Both answers of Promise.all are there: the panel shows the plan, its
\* latest review and its trail, whatever was chosen since.
Opened(r) ==
  /\ r \in requests /\ r.kind = "open" /\ r.at = "answered"
  /\ requests' = requests \ {r}
  /\ shown' = r.plan
  /\ flag' = r.ok
  /\ approval' = ApprovalOf(r)
  /\ audit' = r.plan
  /\ UNCHANGED <<form, server, exported>>

\* The panel is unmounted, and the form with it.
FormGone == confirmed' = FALSE /\ submitting' = FALSE

Close ==
  /\ shown # NoPlan
  /\ shown' = NoPlan /\ flag' = FALSE /\ approval' = NoPlan /\ audit' = NoPlan
  /\ FormGone
  /\ requests' = {[r EXCEPT !.mounted = FALSE] : r \in requests}
  /\ UNCHANGED <<server, exported>>

-----------------------------------------------------------------------------
(***************************************************************************)
(* The approval form.                                                      *)
(***************************************************************************)

\* "Approval recorded" is on screen in the place of the form.
SaysRecorded == shown # NoPlan /\ approval # NoPlan

FormVisible == shown # NoPlan /\ ~ SaysRecorded

Tick ==
  /\ FormVisible /\ ~ submitting
  /\ confirmed' = ~ confirmed
  /\ UNCHANGED <<submitting, panel, requests, server, exported>>

\* handleSubmit, approvePersistedPlan and submitReview up to the request.
SubmitReview ==
  /\ FormVisible /\ ~ submitting
  /\ confirmed
  /\ Send(Asked("review", shown))
  /\ submitting' = TRUE
  /\ UNCHANGED <<confirmed, panel, server, exported>>

\* The approval comes back: setApproval, whatever plan is on screen, and the
\* handler goes on to refresh the inbox.
Reviewed(r) ==
  /\ r \in requests /\ r.kind = "review" /\ r.at = "answered"
  /\ IF r.ok
       THEN /\ approval' = r.plan
            /\ requests' = (requests \ {r}) \cup {[r EXCEPT !.kind = "apply"]}
            /\ UNCHANGED submitting
       ELSE /\ requests' = requests \ {r}
            /\ EndsSubmit(r)
            /\ UNCHANGED approval
  /\ UNCHANGED <<shown, flag, audit, confirmed, server, exported>>

\* The inbox is fresh: export_allowed, which the server read after its commit,
\* when another reviewer may have rejected, is written into the plan on screen
\* and the trail of the approved plan is asked for.
Applied(r) ==
  /\ r \in requests /\ r.kind = "apply"
  /\ \E allowed \in BOOLEAN : flag' = (shown # NoPlan /\ allowed)
  /\ requests' = (requests \ {r}) \cup {[Asked("trail", r.plan) EXCEPT !.mounted = r.mounted]}
  /\ UNCHANGED <<shown, approval, audit, form, server, exported>>

\* refreshSelectedAudit, here from the panel's button.
RefreshAudit ==
  /\ shown # NoPlan
  /\ Send(Asked("audit", shown))
  /\ UNCHANGED <<panel, form, server, exported>>

AuditRead(r) ==
  /\ r \in requests /\ r.kind \in {"audit", "trail"} /\ r.at = "answered"
  /\ requests' = requests \ {r}
  /\ audit' = r.plan
  /\ EndsSubmit(r)
  /\ UNCHANGED <<shown, flag, approval, confirmed, server, exported>>

-----------------------------------------------------------------------------
(***************************************************************************)
(* Copy and download.                                                      *)
(***************************************************************************)

ExportAllowed == shown # NoPlan /\ (flag \/ approval # NoPlan)

ClickExport ==
  /\ ExportAllowed
  /\ Send(Asked("export", shown))
  /\ UNCHANGED <<panel, form, server, exported>>

\* Fault: the text on screen is handed out when the server refuses.
HandsOutAnyway(r) == TRUE

\* loadControlledExport throws on an error.
HandsOut(r) == r.ok

Exported(r) ==
  /\ r \in requests /\ r.kind = "export" /\ r.at = "answered"
  /\ requests' = requests \ {r}
  /\ exported' = IF HandsOut(r)
                   THEN exported \cup {r.plan}
                   ELSE exported
  /\ UNCHANGED <<panel, form, server>>

-----------------------------------------------------------------------------
(***************************************************************************)
(* The server and the network.                                             *)
(***************************************************************************)

Answer(r, ok) ==
  requests' = (requests \ {r}) \cup {[r EXCEPT !.at = "answered", !.ok = ok]}

\* The plan or its export is read: latest_review at that moment.
ServerReads(r) ==
  /\ r \in requests /\ r.at = "asked" /\ r.kind \in {"open", "audit", "trail", "export"}
  /\ Answer(r, r.plan \in approved)
  /\ UNCHANGED <<panel, form, server, exported>>

\* The row of the approval in reviews.
Stored(p) == recorded \cup {p}

\* The review is stored, and the answer perhaps lost; or it was, and a retry
\* under the same key is answered with it; or it is refused: a version
\* conflict, the author.
ServerReviews(r) ==
  /\ r \in requests /\ r.at = "asked" /\ r.kind = "review"
  /\ \/ /\ approved' = approved \cup {r.plan}
        /\ recorded' = Stored(r.plan)
        /\ \E arrives \in BOOLEAN : Answer(r, arrives)
     \/ r.plan \in recorded /\ Answer(r, TRUE) /\ UNCHANGED server
     \/ Answer(r, FALSE) /\ UNCHANGED server
  /\ UNCHANGED <<panel, form, exported>>

\* Another reviewer rejects the plan.
OtherRejects(p) ==
  /\ p \in approved
  /\ approved' = approved \ {p}
  /\ UNCHANGED <<panel, form, recorded, requests, exported>>

\* A request for reading fails: an error is shown and nothing changes.
ReadFails(r) ==
  /\ r \in requests /\ r.kind \in {"open", "audit", "trail", "export"}
  /\ requests' = requests \ {r}
  /\ EndsSubmit(r)
  /\ UNCHANGED <<panel, confirmed, server, exported>>

Next ==
  \/ \E p \in Plan : Choose(p) \/ OtherRejects(p)
  \/ Close \/ Tick \/ SubmitReview \/ RefreshAudit \/ ClickExport
  \/ \E r \in requests :
       \/ Opened(r) \/ Reviewed(r) \/ Applied(r) \/ AuditRead(r) \/ Exported(r)
       \/ ServerReads(r) \/ ServerReviews(r) \/ ReadFails(r)

Spec == Init /\ [][Next]_vars

-----------------------------------------------------------------------------
(***************************************************************************)
(* What must hold.                                                         *)
(***************************************************************************)

TypeOK ==
  /\ {shown, approval, audit} \subseteq Plan \cup {NoPlan}
  /\ {flag, confirmed, submitting} \subseteq BOOLEAN
  /\ requests \subseteq [kind : {"open", "review", "apply", "audit", "trail", "export"},
                         plan : Plan, at : {"asked", "answered"}, ok : BOOLEAN,
                         mounted : BOOLEAN]
  /\ Cardinality(requests) <= MaxRequests
  /\ approved \subseteq recorded /\ recorded \subseteq Plan

\* Whatever the panel shows and whenever reviewers change their minds, a text
\* that is copied or downloaded is that of a plan whose approval the server
\* has recorded.
ExportsAreCleared == exported \subseteq recorded

=============================================================================
