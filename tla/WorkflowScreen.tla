--------------------------- MODULE WorkflowScreen ---------------------------
(***************************************************************************)
(* What a user is told of an incident: the six stages, the current stage   *)
(* and the next action (incident_workflow_service.get_workflow_state), the *)
(* lifecycle phase, computed once for the workflow and once for the        *)
(* remediation panel (remediation_lifecycle_service), and the rows a final *)
(* report cites (get_exact_report_chain, final_report_service).            *)
(*                                                                         *)
(* Three counts that get_workflow_state takes are not part of the chain:   *)
(* is any evidence linked, parsed or not, are there retest evidence files, *)
(* and has a report been generated.  They are parameters, and what is      *)
(* claimed is claimed for every value they can have.                       *)
(***************************************************************************)
EXTENDS InvestigationView

-----------------------------------------------------------------------------
(* Stages and next action *)

Rejections         == {"rejected", "rejected_false_positive"}
EscalatedDecisions == {"inconclusive", "escalated"}

\* What get_workflow_state has read before it decides anything.
Situation(facts, linked) ==
    [linked |-> linked, analysed |-> CurrentAnalyses # {}, acted |-> actions # <<>>,
     valid |-> Valid, decision |-> Decision, permitted |-> facts.review # 0,
     remediated |-> RemediationComplete(facts), inForce |-> ChangeInForce(facts),
     tested |-> TestPassed(facts), retested |-> Retested(facts),
     verified |-> Verified(facts),
     failed |-> facts.outcome # 0 /\ outcomes[facts.outcome].result = "failed",
     reportable |-> ReportStageOpen(facts)]

Codes == <<"overview", "root_cause", "human_review", "remediation", "fix_verification",
           "final_report">>

Open(s) ==
    LET approved == s.decision = "approved"
    IN  {"overview"} \cup {code \in {"root_cause"}       : s.linked}
                     \cup {code \in {"human_review"}     : s.analysed}
                     \cup {code \in {"remediation"}      : approved /\ s.permitted}
                     \cup {code \in {"fix_verification"} :
                             approved /\ s.inForce /\ s.tested /\ s.retested}
                     \cup {code \in {"final_report"}     : s.reportable}

Completed(s, reported) ==
    LET approved == s.decision = "approved"
        rejected == s.decision \in Rejections
    IN  {"overview"} \cup {code \in {"root_cause"}       : s.analysed}
                     \cup {code \in {"human_review"}     : s.valid}
                     \cup {code \in {"remediation"}      : IF approved THEN s.remediated ELSE rejected}
                     \cup {code \in {"fix_verification"} : IF approved THEN s.verified ELSE rejected}
                     \cup {code \in {"final_report"}     : reported}

First(S) == CHOOSE n \in S : \A m \in S : n <= m

\* The first open stage that is not completed, else the last.
CurrentStage(s, reported) ==
    LET unfinished == Open(s) \ Completed(s, reported)
        positions == {n \in DOMAIN Codes : Codes[n] \in unfinished}
    IN  IF positions = {} THEN "final_report" ELSE Codes[First(positions)]

\* Fault: a retest is taken for a verification.
ToVerifyUntilRetested(s) == ~ s.retested

ToVerify(s) == ~ s.verified

Offer(when, code, stage) == [when |-> when, code |-> code, stage |-> stage]

\* The first offer that applies, with the stage it leads to.
NextAction(s, retestEvidence, reported) ==
    LET approved == s.decision = "approved"
        offers ==
          << Offer(~ s.linked, "add_supporting_evidence", "root_cause"),
             Offer(~ s.analysed, "run_root_cause", "root_cause"),
             Offer(~ s.valid, "complete_human_review", "human_review"),
             Offer(s.decision = "request_more_evidence", "add_requested_evidence", "root_cause"),
             Offer(s.decision \in EscalatedDecisions, "await_escalation_review", "human_review"),
             Offer(s.decision \in Rejections /\ ~ reported, "review_incident_disposition", "final_report"),
             Offer(approved /\ ~ s.remediated /\ s.acted, "update_remediation", "remediation"),
             Offer(approved /\ ~ s.remediated, "record_remediation", "remediation"),
             Offer(approved /\ ~ retestEvidence, "add_retest_evidence", "fix_verification"),
             Offer(approved /\ s.failed, "update_remediation", "remediation"),
             Offer(approved /\ ToVerify(s), "run_fix_verification", "fix_verification"),
             Offer(~ reported, "generate_final_report", "final_report"),
             Offer(TRUE, "download_final_report", "final_report") >>
    IN  offers[First({n \in DOMAIN offers : offers[n].when})]

-----------------------------------------------------------------------------
(* The rows a report cites *)

NoRows == [analysis |-> 0, review |-> 0, diagnosis |-> 0, action |-> 0,
           implementation |-> 0, test |-> 0, retest |-> 0, outcome |-> 0]

\* A row whose other references lead elsewhere is left out.
ActionFor(a, r, d) ==
    LET named == {n \in DOMAIN actions : /\ d # 0 /\ actions[n].review = r
                                         /\ actions[n].diagnosis = d
                                         /\ actions[n].workflow_status = "current"}
    IN  Newest({n \in {Newest(named)} \ {0} : actions[n].analysis = a})

ChangeFor(chain) ==
    LET named == {n \in DOMAIN implementations :
                    /\ chain.action # 0 /\ implementations[n].chain.action = chain.action
                    /\ implementations[n].workflow_status = "current"}
    IN  Newest({n \in {Newest(named)} \ {0} : implementations[n].chain = chain})

RetestFor(chain, i, t) ==
    Newest({n \in {RetestOf(i, t)} \ {0} : t # 0 /\ retests[n].chain = chain})

\* No verification to anchor on: stage by stage below an approved review.
RowsBelowTest(chain, i, t) ==
    [analysis |-> chain.analysis, review |-> chain.review, diagnosis |-> chain.diagnosis,
     action |-> chain.action, implementation |-> i, test |-> t,
     retest |-> RetestFor(chain, i, t), outcome |-> 0]
RowsBelowChange(chain, i) ==
    RowsBelowTest(chain, i, IF i = 0 THEN 0 ELSE TestOf(chain.action, i))
RowsBelowAction(chain) == RowsBelowChange(chain, ChangeFor(chain))
RowsBelowReview(a, r, d) ==
    RowsBelowAction([analysis |-> a, review |-> r, diagnosis |-> d,
                     action |-> ActionFor(a, r, d)])

PartialRows(a, r) ==
    IF Approved THEN RowsBelowReview(a, r, DiagnosisOf(a, r))
    ELSE [NoRows EXCEPT !.analysis = a, !.review = IF FalsePositiveChain THEN r ELSE 0]

\* A chain that is blocked keeps its analysis only.
RowsOf(status, facts) ==
    CASE status = "current_complete" ->
           [column \in DOMAIN NoRows |->
              IF column \in DOMAIN outcomes[facts.outcome].chain
              THEN outcomes[facts.outcome].chain[column]
              ELSE IF column = "outcome" THEN facts.outcome
              ELSE outcomes[facts.outcome][column]]
      [] status \in {"current_incomplete", "current_false_positive"} ->
           PartialRows(facts.analysis, LatestReview)
      [] OTHER -> [NoRows EXCEPT !.analysis = facts.analysis]

\* Fault: the rows are gathered stage by stage even when there is an outcome.
CitedRowsByStage(facts) == RowsOf("current_incomplete", facts)

\* Anchored on the outcome of the facts if there is one.
CitedRows(facts) == RowsOf(ReportChainStatus(facts), facts)

-----------------------------------------------------------------------------
(* The lifecycle phase *)

\* The implementation restored by the newest rollback among S; a rollback that failed
\* leaves nothing in the chain.
RestoredLast(S) ==
    LET c == Newest({n \in DOMAIN cases : /\ cases[n].result = "rolled_back"
                                          /\ cases[n].implementation \in S})
    IN  IF c = 0 THEN 0 ELSE cases[c].implementation

Learned(o) == \E c \in DOMAIN cases : /\ cases[c].outcome = o /\ cases[c].eligible
                                      /\ cases[c].workflow_status = "current"

\* derive_lifecycle_phase: what each phase asks for, in the order it is asked.
PhaseOrder(rows, restored, eligible) ==
    LET Concluded(result) == rows.outcome # 0 /\ outcomes[rows.outcome].result = result
        Tested(status) == rows.test # 0 /\ tests[rows.test].status = status
        RolledBackChange == /\ rows.implementation # 0
                            /\ implementations[rows.implementation].status = "rolled_back"
    IN  << <<incident = "false_positive", "FALSE_POSITIVE">>,
           <<incident = "closed", "CLOSED">>,
           <<incident = "fixed" \/ (Concluded("passed") /\ eligible), "RESOLVED">>,
           <<restored \/ Tested("failed"), "REMEDIATING">>,
           <<rows.retest # 0 /\ RetestFailed(rows.retest), "REMEDIATING">>,
           <<Concluded("failed") \/ RolledBackChange, "REMEDIATING">>,
           <<rows.retest # 0 \/ Tested("passed"), "VERIFYING">>,
           <<rows.implementation # 0, "REMEDIATING">>,
           <<incident \in {"under_review", "confirmed_incident", "needs_more_evidence"},
             "INVESTIGATING">>,
           <<TRUE, "OPEN">> >>

\* The first that applies.
Phase(rows, restored, eligible) ==
    LET order == PhaseOrder(rows, restored, eligible)
    IN  order[First({n \in DOMAIN order : order[n][1]})][2]

\* The workflow looks for a rollback of the implementation it shows and leaves learning
\* aside; the panel takes the incident's latest rollback and the case of the outcome.
WorkflowPhase(facts) == Phase(facts, RestoredLast({facts.implementation}) # 0, FALSE)
PanelPhase(rows) ==
    Phase(rows, RestoredLast(DOMAIN implementations) # 0,
          rows.outcome # 0 /\ Learned(rows.outcome))

-----------------------------------------------------------------------------
(* Safety *)

\* The next action leads to a stage that is open, which is the current one unless no
\* stage is open and unfinished ("final_report" is then named by default), and to the
\* final report exactly when the readiness check grants one.  The code leaves open:
\* evidence is added before the stage it belongs to opens, retest evidence files are
\* asked for whether the chain needs them or not, fix verification is offered before the
\* change is tested, a failed verification leads back to the remediation while its own
\* stage stays current, and a rejection or a verified change rolled back leads to a draft.
NextActionLeadsOn ==
    \A facts \in {Facts}, linked \in {events \cup findings # {}, TRUE} :
        \A s \in {Situation(facts, linked)}, ready \in {ReportReady(facts)},
           retestEvidence, reported \in BOOLEAN :
            \A next \in {NextAction(s, retestEvidence, reported)} :
                /\ \/ next.stage \in Open(s)
                   \/ next.code \in {"add_supporting_evidence", "add_retest_evidence",
                                     "run_fix_verification"}
                /\ \/ CurrentStage(s, reported) \in {next.stage, "final_report"}
                   \/ next.code = "update_remediation" /\ s.failed
                /\ ready => next.stage = "final_report" \/ next.code = "add_retest_evidence"
                /\ next.code \in {"generate_final_report", "download_final_report"} =>
                     ready \/ s.decision \in Rejections \/ ~ s.inForce

\* What the report cites is what the workflow shows, but for a manual action, which a
\* report never cites, and the review of a false positive, which the workflow's gate
\* does not pass.
RowsAgree(facts, cited) ==
    \A column \in DOMAIN cited :
        \/ cited[column] = facts[column]
        \/ column = "action" /\ cited.action = 0 /\ actions[facts.action].diagnosis = 0
        \/ column = "review" /\ FalsePositiveChain

\* The panel and the workflow name one phase, but for the rollback of an implementation
\* the workflow no longer shows, and for an outcome that still counts after another test,
\* an older one of the same change or one of another change, failed its verification.
PhasesAgree(facts, shown, named) ==
    \/ shown = named
    \/ /\ named = "REMEDIATING"
       /\ RestoredLast(DOMAIN implementations) \notin {0, facts.implementation}
    \/ /\ named = "RESOLVED"
       /\ \E f \in DOMAIN fixes : /\ f > outcomes[facts.outcome].fix
                                  /\ fixes[f].status = "failed"

\* The workflow screen, the remediation panel and the final report, which gather their
\* rows with queries of their own, tell of one chain.
ScreensTellOneChain ==
    \A facts \in {Facts} : \A cited \in {CitedRows(facts)} :
        /\ RowsAgree(facts, cited)
        /\ PhasesAgree(facts, WorkflowPhase(facts), PanelPhase(cited))
=============================================================================
