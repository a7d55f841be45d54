------------------------------- MODULE Assurance -------------------------------
(***************************************************************************)
(* The integrity ledger and, beside it, the response to a breach and the   *)
(* assessment of causes.  They share no table here: the ledger is the      *)
(* module extended, the others are instances with constants and variables  *)
(* of their own.                                                           *)
(***************************************************************************)
EXTENDS IntegrityLedger

CONSTANTS Workers, MaxVersion, MaxDecision, Actions, MaxEvaluations, MaxReopened, Suppressions,
          Files, TypeOf, EventMarks, FindingMarks, Findings, TimeOf, Causes, Rule, Penalty,
          TopN, Known, Limits, MaxAnalyses, MaxStudies

VARIABLES assessment, decision, alert, action, confirmed, evaluations, worker,
          linked, parsed, detected, stored, studies

Breach == INSTANCE BreachResponse

Counterfactual == INSTANCE CauseAssessment

breachVars == <<assessment, decision, alert, action, confirmed, evaluations, worker>>

\* One line of decisions (breach_decision_service), and every evaluation of an
\* assessment counted once (privacy_breach_alert_service).
BreachRecordsTrue == Breach!BreachRecordsTrue

\* Closed alerts stay closed until someone reopens them (privacy_breach_alert_service).
ClosedUntilReopened == Breach!ClosedUntilReopened

\* The minimal set of a counterfactual study is enough
\* (counterfactual_analysis_service).
MinimalSetIsEnough == Counterfactual!MinimalSetIsEnough
=============================================================================
