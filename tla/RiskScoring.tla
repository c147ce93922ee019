----------------------------- MODULE RiskScoring -----------------------------
(***************************************************************************)
(* How the results of the validation rules become a report and a gate:     *)
(* scoring.py, _build_report of engine.py and _build_safety_gate of        *)
(* agent_core.py.  A rule reports with its own severity, so the results    *)
(* are the statuses of the rules.                                          *)
(***************************************************************************)
EXTENDS Integers, FiniteSets, FiniteSetsExt

CONSTANTS
  Rule,        \* the registered rules
  SeverityOf   \* default_severity of each

Severity == {"info", "low", "medium", "high", "critical"}

\* Every rule has a severity.
SeveritiesAreSound == SeverityOf \in [Rule -> Severity]

\* What rules answer; the status "error" exists and no rule gives it.
RuleStatus == {"passed", "warning", "failed", "not_applicable"}

RiskLevel == {"unknown", "low", "medium", "high", "critical"}

\* SEVERITY_WEIGHTS.
Weight(s) ==
  CASE s = "critical" -> 30 [] s = "high" -> 15 [] s = "medium" -> 8
    [] s = "low" -> 3 [] s = "info" -> 0

\* _RISK_ORDER.
Rank(level) ==
  CASE level = "unknown" -> 0 [] level = "low" -> 1 [] level = "medium" -> 2
    [] level = "high" -> 3 [] level = "critical" -> 4

\* Results with a status that scores, SCORING_STATUSES.
Findings(res) == {r \in Rule : res[r] \in {"warning", "failed"}}

\* score_rule_results; a rule has one result.
Score(res) == MapThenSumSet(LAMBDA r : Weight(SeverityOf[r]), Findings(res))

\* risk_level_for_score.
Band(score) ==
  CASE score < 10 -> "low"
    [] score \in 10..24 -> "medium"
    [] score \in 25..49 -> "high"
    [] OTHER -> "critical"

\* _severity_to_risk_level.
LevelOf(s) == IF s = "info" THEN "unknown" ELSE s

Higher(a, b) == IF Rank(a) > Rank(b) THEN a ELSE b

\* The level of the worst finding.
Worst(res) ==
  LET levels == {LevelOf(SeverityOf[r]) : r \in Findings(res)} \cup {"unknown"} IN
  CHOOSE l \in levels : \A k \in levels : Rank(k) <= Rank(l)

\* Fault: the level is the band of the score, whatever the findings are.
BandOnly(res) == Band(Score(res))

\* risk_level_floor.
Level(res) == Higher(Worst(res), Band(Score(res)))

Applicable(res) == {r \in Rule : res[r] # "not_applicable"}

Critical(res) == {r \in Findings(res) : SeverityOf[r] = "critical"}

\* The status of a loop over all rules, of which those in raised failed.
Execution(raised) == IF raised = {} THEN "complete" ELSE "partial"

\* _unavailable_report.
Unavailable == [status |-> "unavailable", level |-> "unknown", score |-> 0, critical |-> 0]

\* _build_report.
Report(res, raised) ==
  LET applies == Applicable(res) # {} IN
  [status |-> IF applies THEN Execution(raised) ELSE "insufficient_data",
   level |-> IF applies THEN Level(res) ELSE "unknown",
   score |-> Score(res),
   critical |-> Cardinality(Critical(res))]

\* _build_safety_gate: the plan needs no review.
GateOpen(report) ==
  report.status = "complete" /\ report.level # "critical" /\ report.critical = 0
=============================================================================
