----------------------------- MODULE MCBrowser -----------------------------
(***************************************************************************)
(* The pages of the browser, for TLC.  A behaviour is one of these:        *)
(*   prompt  the job client of one page, served within the time of a       *)
(*           claim, and never refused for its token;                       *)
(*   slow    the job client in general, for one body: requests that        *)
(*           outlive their claims, refused retries, a page loaded anew;    *)
(*   panel   the panel of a persisted plan.                                *)
(***************************************************************************)
EXTENDS JobClient, TLC

CONSTANTS
  Plan, MaxRequests,   \* of ReviewPanel
  Unused

VARIABLES
  part,         \* which of them
  onScreen, flag, approval, audit, confirmed, submitting,   \* of ReviewPanel
  requests, approved, recorded, exported

page == <<onScreen, flag, approval, audit, confirmed, submitting,
          requests, approved, recorded, exported>>

Panel == INSTANCE ReviewPanel WITH NoPlan <- Nothing, shown <- onScreen

ASSUME PanelAssumption == Panel!SettingsAreSound

NoPanel ==
  /\ onScreen = Unused /\ flag = Unused /\ approval = Unused /\ audit = Unused
  /\ confirmed = Unused /\ submitting = Unused /\ requests = Unused
  /\ approved = Unused /\ recorded = Unused /\ exported = Unused

NoJobs ==
  /\ pending = Unused /\ call = Unused /\ post = Unused /\ record = Unused
  /\ job = Unused /\ shown = Unused /\ reloads = Unused

\* All requests of the page are for one body.
OneBody == \E p \in Payload : \A r \in Request : post'[r].payload \in {p, Nothing}

MCInit ==
  \/ part \in {"prompt", "slow"} /\ Init /\ NoPanel
  \/ part = "panel" /\ Panel!Init /\ NoJobs

MCNext ==
  /\ \/ part = "prompt" /\ PromptNext /\ UNCHANGED page
     \/ part = "slow" /\ Next /\ OneBody /\ UNCHANGED page
     \/ part = "panel" /\ Panel!Next /\ UNCHANGED vars
  /\ UNCHANGED part

MCSpec == MCInit /\ [][MCNext]_<<vars, page, part>>

\* A retry of a request whose answer was lost, of an interrupted poll or of a
\* wait that ran out finds the job that was made and pays for no other: a key
\* that is kept leads to a job of the same body.
NothingIsPaidTwice ==
  /\ [](part = "prompt" => TypeOK /\ OneActiveJob /\ KeysLeadHome)
  /\ [][part = "prompt" => WorkIsNotRepeated]_<<vars, part>>

\* A user who was shown how a job ended and submits again gets another job,
\* however late the earlier requests are served, and never two at a time.
ResubmittingIsFresh ==
  /\ [](part = "slow" => OneActiveJob /\ KeysLeadHome)
  /\ [][part = "slow" => FreshAfterTheEnd]_<<vars, part>>

\* What the page is answered, it may rely on: a key stays bound to one job, of
\* the body the page sent with it, and a job ends once, however many requests
\* overtake, outlive or repeat each other.
ServerKeepsItsWord ==
  /\ part # "panel" => ServerInit
  /\ [][part # "panel" => ServerStep]_<<vars, part>>

\* Whatever answers overtake each other while the panel turns from plan to
\* plan, the text that is handed out is that of a plan approved at some time.
HandedOutMeansApproved == part = "panel" => Panel!TypeOK /\ Panel!ExportsAreCleared

Symmetry == Permutations(Payload) \cup Permutations(Request) \cup Permutations(Job)
=============================================================================
