------------------------- MODULE InvestigationView -------------------------
(***************************************************************************)
(* What the application reports about the governed chain: the workflow     *)
(* facts, the chain a report is anchored on, the investigation stages and  *)
(* the readiness of the final report.  Four services read the same rows,   *)
(* each with queries of its own; nothing here changes state.               *)
(*                                                                         *)
(* An incident is taken to have a title and a summary, and an analysed one *)
(* to have scores, a confidence cap and limitations: the services that     *)
(* compute these always fill them in.                                      *)
(***************************************************************************)
EXTENDS GovernedChain

-----------------------------------------------------------------------------
(* get_workflow_provenance_facts: the newest current row, stage by stage *)

\* An accepted diagnosis of the branch goes before a newer one.
DiagnosisOf(a, r) ==
    LET branch == {d \in DOMAIN diagnoses : DiagnosisOn(d, a, r)}
        accepted == {d \in branch : diagnoses[d].status = "accepted"}
    IN  Newest(IF accepted # {} THEN accepted ELSE branch)

ImplementationOf(a, r, m) ==
    Newest({i \in DOMAIN implementations :
              /\ implementations[i].chain.action = m
              /\ implementations[i].chain.analysis = a
              /\ implementations[i].chain.review = r
              /\ implementations[i].workflow_status = "current"})

TestsOf(m, i) ==
    {t \in DOMAIN tests : /\ tests[t].action = m /\ tests[t].implementation = i
                          /\ tests[t].workflow_status = "current"}

TestOf(m, i) == Newest(TestsOf(m, i))

RetestOf(i, t) ==
    Newest({k \in DOMAIN retests : /\ retests[k].implementation = i /\ retests[k].test = t
                                   /\ retests[k].workflow_status = "current"})

\* The outcome on every reference at once.
OutcomeOf(chain, i, t, k) ==
    Newest({o \in DOMAIN outcomes :
              /\ outcomes[o].chain = chain
              /\ outcomes[o].implementation = i
              /\ outcomes[o].test = t
              /\ outcomes[o].retest = k
              /\ outcomes[o].workflow_status = "current"})

Facts ==
    LET a == Newest(CurrentAnalyses)
        r == Newest({q \in DOMAIN reviews : Permission(a, q)})
        d == DiagnosisOf(a, r)
        m == FactsAction
        i == ImplementationOf(a, r, m)
        t == TestOf(m, i)
        k == RetestOf(i, t)
    IN  [analysis |-> a, review |-> r, diagnosis |-> d, action |-> m,
         implementation |-> i, test |-> t, retest |-> k,
         outcome |-> OutcomeOf([analysis |-> a, review |-> r, diagnosis |-> d,
                                action |-> m], i, t, k)]

-----------------------------------------------------------------------------
(* get_exact_report_chain: one anchor, then the rows its references name *)

\* review_for_analysis, on the current analysis.
LatestReview ==
    LET a == Newest(CurrentAnalyses)
    IN  Newest({r \in DOMAIN reviews : reviews[r].analysis = a})

Decision == LET r == LatestReview IN IF r = 0 THEN "none" ELSE reviews[r].decision
DecidedAs(decisions) == Decision \in decisions
Valid == LatestReview # 0 /\ reviews[LatestReview].progression_valid

\* Every row on the anchor's chain is current and names the one before it.
ExactFrom(o) ==
    LET chain == outcomes[o].chain
        i == outcomes[o].implementation
        t == outcomes[o].test
        k == outcomes[o].retest
        f == outcomes[o].fix
    IN  /\ Permission(chain.analysis, chain.review)
        /\ chain.diagnosis # 0 /\ DiagnosisOn(chain.diagnosis, chain.analysis, chain.review)
        /\ actions[chain.action].diagnosis = chain.diagnosis
        /\ ActionOn(chain.action, chain.analysis, chain.review)
        /\ implementations[i].chain = chain
        /\ implementations[i].workflow_status = "current"
        /\ tests[t].action = chain.action /\ tests[t].implementation = i
        /\ tests[t].workflow_status = "current"
        /\ retests[k].chain = chain
        /\ retests[k].implementation = i /\ retests[k].test = t
        /\ retests[k].workflow_status = "current"
        /\ fixes[f].chain = chain /\ fixes[f].implementation = i
        /\ fixes[f].test = t /\ fixes[f].retest = k
        /\ fixes[f].workflow_status = "current"
        /\ outcomes[o].workflow_status = "current"

\* Nothing to anchor on: what the human review alone says.
Unanchored ==
    CASE CurrentAnalyses = {} -> "blocked"
      [] DecidedAs({"rejected_false_positive"}) /\ Valid -> "current_false_positive"
      [] LatestReview = 0 \/ (DecidedAs({"approved"}) /\ Valid) -> "current_incomplete"
      [] OTHER -> "blocked"

\* A verification without its outcome fails closed too.
ReportChainStatus(facts) ==
    IF facts.outcome # 0
    THEN IF ExactFrom(facts.outcome) THEN "current_complete" ELSE "blocked"
    ELSE IF facts.retest # 0 /\ \E f \in DOMAIN fixes :
                /\ fixes[f].retest = facts.retest /\ fixes[f].workflow_status = "current"
         THEN "blocked"
         ELSE Unanchored

-----------------------------------------------------------------------------
(* collect_workflow_facts and get_workflow_state: the stages of the screen *)

Approved == DecidedAs({"approved"})
RemediationComplete(facts) ==
    facts.action # 0 /\ actions[facts.action].status \in {"awaiting_retest", "completed"}
ChangeInForce(facts) ==
    facts.implementation # 0 /\ implementations[facts.implementation].status = "completed"
TestPassed(facts) == facts.test # 0 /\ tests[facts.test].status = "passed"
\* A retest's status: inconclusive if incomparable, failed if it exposes a sandbox patch,
\* completed otherwise.
RetestFailed(k) == /\ retests[k].result = "exposed"
                   /\ implementations[retests[k].implementation].mode = "controlled_patch"
Retested(facts) == /\ facts.retest # 0
                   /\ retests[facts.retest].result # "incomparable"
                   /\ ~ RetestFailed(facts.retest)
Verified(facts) == facts.outcome # 0 /\ outcomes[facts.outcome].result = "passed"

\* Fault: an approved incident is reportable as soon as its action is complete.
ReportStageOpenEarly(facts) ==
    /\ Valid
    /\ Approved => RemediationComplete(facts)
    /\ ~ DecidedAs({"request_more_evidence", "inconclusive", "escalated"})

ReportStageOpen(facts) ==
    /\ Valid
    /\ Approved => RemediationComplete(facts) /\ Verified(facts)
    /\ ~ DecidedAs({"request_more_evidence", "inconclusive", "escalated"})

-----------------------------------------------------------------------------
(* get_report_readiness, and what build_final_investigation_report makes of it *)

FalsePositiveChain == DecidedAs({"rejected_false_positive"}) /\ Valid

\* Fault: what was verified is not asked whether it is still in place.
ReportReadyWhatever(facts) ==
    \/ FalsePositiveChain
    \/ Approved /\ facts.review # 0 /\ RemediationComplete(facts) /\ Verified(facts)

ReportReady(facts) ==
    \/ FalsePositiveChain
    \/ /\ Approved /\ facts.review # 0
       /\ RemediationComplete(facts) /\ ChangeInForce(facts) /\ TestPassed(facts)
       /\ Retested(facts) /\ Verified(facts)

FinalReport(facts) ==
    LET status == ReportChainStatus(facts)
    IN  [ready |-> ReportReady(facts)
                      /\ status \in {"current_complete", "current_false_positive"},
         disposition |-> CASE status = "current_false_positive" -> "rejected_false_positive"
                           [] status = "current_complete" -> "verified_remediation"
                           [] OTHER -> "investigation_incomplete"]

-----------------------------------------------------------------------------
(* Safety *)

\* What one service calls ready the other can anchor: a remediated incident reads
\* "final report ready" only on one exact chain, whose verification passed on a clean
\* retest of a passed test and whose change has not been rolled back since.
ReadyIsProven ==
    \A facts \in {Facts} : ReportReady(facts) =>
        /\ FinalReport(facts).ready
        /\ Approved =>
             /\ FinalReport(facts).disposition = "verified_remediation"
             /\ LET o == outcomes[facts.outcome]
                IN  /\ fixes[o.fix].status = "passed"
                    /\ retests[o.retest].result = "clean"
                    /\ tests[o.test].status = "passed"
                    /\ implementations[o.implementation].status = "completed"
                    /\ diagnoses[o.chain.diagnosis].status = "accepted"

\* The screen offers the final report exactly when the readiness check grants it,
\* but for two cases the screen does not look into: a plain rejection, and a
\* verified change that was rolled back afterwards.
ScreenAgrees ==
    \A facts \in {Facts} : ReportStageOpen(facts) <=>
        \/ ReportReady(facts)
        \/ Valid /\ DecidedAs({"rejected"})
        \/ /\ Approved /\ RemediationComplete(facts) /\ Verified(facts)
           /\ ~ ChangeInForce(facts)

\* The report and the incident's status tell the same story: a false positive reads
\* "false_positive", a verified remediation "fixed", unless a test that overlapped the
\* verified one was retested and failed afterwards.
ReadyMatchesStatus ==
    \A facts \in {Facts} : ReportReady(facts) =>
        \/ FalsePositiveChain /\ incident = "false_positive"
        \/ Approved /\ incident = "fixed"
        \/ Approved /\ \E f \in DOMAIN fixes :
              /\ f > outcomes[facts.outcome].fix
              /\ fixes[f].implementation = facts.implementation
              /\ fixes[f].test < facts.test
              /\ fixes[f].status = "failed"

\* What is reported ready, and the screen, the readiness check and the incident's status,
\* agree (incident_workflow_service, report_readiness_service).
ReadyMatches == ScreenAgrees /\ ReadyMatchesStatus
=============================================================================
