---------------------------- MODULE AgentWorkflow ----------------------------
(***************************************************************************)
(* One run of generate_control_plan or optimize_control_plan of            *)
(* agent_core.py: the model is asked, the fields of its reply are read one *)
(* by one, and the rules judge the plan.  RuleEngine of engine.py runs the *)
(* rules in the order of their registration.                               *)
(*                                                                         *)
(* Texts are left out: what is chosen is whether the call, a field, the    *)
(* size limits or a rule is good, and how it fails.                        *)
(***************************************************************************)
EXTENDS RiskScoring, Sequences

CONSTANTS
  Order     \* the rules in the order of registration

\* Every rule is registered once.
OrderIsSound ==
  /\ Order \in Seq(Rule)
  /\ \A r \in Rule : \E i \in DOMAIN Order : Order[i] = r
  /\ \A i, j \in DOMAIN Order : Order[i] = Order[j] => i = j

VARIABLES
  kind,      \* what is run
  pc,        \* "chat", "fields", "bounds", "rules", "returned" or "raised"
  field,     \* the next field to read
  next,      \* the next rule to run
  res,       \* the results so far
  raised,    \* rules that raised an exception or answered for another one
  report,    \* validation_report, once there is one
  error      \* the class of the exception raised

vars == <<kind, pc, field, next, res, raised, report, error>>

NoReport == [status |-> "none", level |-> "unknown", score |-> 0, critical |-> 0]

\* The fields each workflow requires, in the order it reads them.
Fields(k) ==
  IF k = "generate"
  THEN <<"requirement_analysis", "io_table", "control_logic", "safety_design",
         "ladder_idea", "report_markdown">>
  ELSE <<"optimized_report", "change_summary">>

Init ==
  /\ kind \in {"generate", "optimize"}
  /\ pc = "chat" /\ field = 1 /\ next = 1
  /\ res = [r \in Rule |-> "not_applicable"]
  /\ raised = {} /\ report = NoReport /\ error = "none"

Raise(class) ==
  /\ pc' = "raised"
  /\ error' = class
  /\ UNCHANGED <<kind, field, next, res, raised, report>>

\* The reply comes and holds an object, or the client or the parser raises.
Ask ==
  /\ pc = "chat"
  /\ \/ /\ pc' = "fields"
        /\ UNCHANGED <<kind, field, next, res, raised, report, error>>
     \/ \E class \in {"LLMClientError", "LLMTimeoutError", "LLMResponseFormatError"} :
          Raise(class)

\* _required_text or _normalize_io_table of the next field.
ReadField ==
  /\ pc = "fields"
  /\ \/ /\ field' = field + 1
        /\ pc' = IF field = Len(Fields(kind)) THEN "bounds" ELSE "fields"
        /\ UNCHANGED <<kind, next, res, raised, report, error>>
     \/ Raise("SkillExecutionError")

\* The response model checks the sizes.
BuildResponse ==
  /\ pc = "bounds"
  /\ \/ /\ pc' = "rules"
        /\ UNCHANGED <<kind, field, next, res, raised, report, error>>
     \/ Raise("SkillExecutionError")

\* The next rule gives its result.
RunRule ==
  /\ pc = "rules" /\ next <= Len(Order)
  /\ \E status \in RuleStatus : res' = [res EXCEPT ![Order[next]] = status]
  /\ next' = next + 1
  /\ UNCHANGED <<kind, pc, field, raised, report, error>>

\* Fault: the result of a rule that failed is "not applicable".
ErrorIgnored(r) == res' = [res EXCEPT ![r] = "not_applicable"]

\* _rule_error_result.
ErrorResult(r) == res' = [res EXCEPT ![r] = "warning"]

\* The next rule raises an exception, or answers with another rule's id.
RuleRaises ==
  /\ pc = "rules" /\ next <= Len(Order)
  /\ ErrorResult(Order[next])
  /\ raised' = raised \cup {Order[next]}
  /\ next' = next + 1
  /\ UNCHANGED <<kind, pc, field, report, error>>

\* The plan is returned with a report.
Return(r) ==
  /\ report' = r
  /\ pc' = "returned"
  /\ UNCHANGED <<kind, field, next, res, raised, error>>

BuildReport ==
  /\ pc = "rules" /\ next > Len(Order)
  /\ Return(Report(res, raised))

\* validate and validate_context answer any other exception, setting up the
\* engine included, with a report that says so.
EngineErrorCaught == Return(Unavailable)

EngineFails == pc = "rules" /\ EngineErrorCaught

Next == Ask \/ ReadField \/ BuildResponse \/ RunRule \/ RuleRaises \/ BuildReport \/ EngineFails

Spec == Init /\ [][Next]_vars

-----------------------------------------------------------------------------
(***************************************************************************)
(* Properties                                                              *)
(***************************************************************************)

\* Every variable holds what its counterpart may hold; scores are not negative.
TypeOK ==
  /\ kind \in {"generate", "optimize"}
  /\ pc \in {"chat", "fields", "bounds", "rules", "returned", "raised"}
  /\ field \in 1..(Len(Fields(kind)) + 1)
  /\ next \in 1..(Len(Order) + 1)
  /\ res \in [Rule -> RuleStatus]
  /\ raised \subseteq Rule
  /\ report \in [status : {"none", "complete", "partial", "unavailable", "insufficient_data"},
                 level : RiskLevel, score : Nat, critical : 0..Cardinality(Rule)]

Returned == pc = "returned"

\* A plan that may leave without review was judged by every rule, each by its
\* own code, at least one of which applied, and none found a critical fault.
OpenGateMeansChecked ==
  Returned /\ GateOpen(report) =>
    /\ next = Len(Order) + 1 /\ raised = {}
    /\ Applicable(res) # {}
    /\ Critical(res) = {}

\* The level is not lower than that of any finding, although a single finding
\* of high severity scores in the medium band; and a report without an
\* assessment is never "low".
LevelCoversFindings ==
  Returned =>
    /\ report.status \in {"complete", "partial"} =>
         \A r \in Findings(res) : Rank(report.level) >= Rank(LevelOf(SeverityOf[r]))
    /\ report.status \in {"unavailable", "insufficient_data"} => report.level = "unknown"

\* A rule that fails makes the plan look no better than any result it could
\* have given: neither the level nor the gate gains by an exception.
FailureHidesNothing ==
  Returned /\ report.status = "partial" =>
    \A r \in raised, status \in RuleStatus :
      LET other == [res EXCEPT ![r] = status] IN
      /\ Rank(Level(other)) <= Rank(report.level)
      /\ Score(other) <= report.score
=============================================================================
