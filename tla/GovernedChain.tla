--------------------------- MODULE GovernedChain ---------------------------
(***************************************************************************)
(* The governed chain of one incident: evidence -> root-cause analysis ->  *)
(* human review -> diagnosis -> remediation action -> implementation ->    *)
(* sandbox test -> controlled retest -> fix verification -> outcome ->     *)
(* learning case, with the invalidation cascade that runs back down it.    *)
(*                                                                         *)
(* Every table is a sequence of rows in order of creation; a row's id is   *)
(* its index, so "the newest" row is the one with the largest id.  An      *)
(* action is one whole request handler run to its commit.                  *)
(***************************************************************************)
EXTENDS Naturals, Sequences, FiniteSets

CONSTANTS
    Alerts,          \* live privacy alerts that can be linked to the incident
    Records,         \* scanner / CI/CD records that can be linked to it
    Files,           \* evidence files uploaded for it
    Changes,         \* identities of implemented changes (patch id or change hash)
    ReviewDecisions, \* the root-cause review decisions exercised
    StatusInputs,    \* the remediation statuses a client sends
    ModeInputs,      \* the implementation modes used
    MaxAnalyses, MaxReviews, MaxDiagnoses, MaxActions,  \* rows per table
    MaxImplementations, MaxTests, MaxRetests

VARIABLES
    events,          \* files whose normalised events are linked to the incident
    findings,        \* sources with a detection or a linked scanner record
    incident,        \* Incident.status
    analyses, reviews, diagnoses, actions, implementations, tests, retests,
    fixes, outcomes, cases

chainRows == <<diagnoses, actions, implementations, tests, retests, fixes,
               outcomes, cases>>
vars == <<events, findings, incident, analyses, reviews, chainRows>>

-----------------------------------------------------------------------------
(* Domains *)

AllDecisions == {"approved", "rejected", "rejected_false_positive",
                 "inconclusive", "request_more_evidence", "escalated"}
IncidentStatus == {"new", "under_review", "confirmed_incident", "false_positive",
                   "needs_more_evidence", "fixed", "closed"}
RemediationStatus == {"not_started", "assigned", "in_progress", "awaiting_retest",
                      "completed", "cancelled"}
Modes == {"controlled_patch", "manual", "external_configuration_change"}
WorkflowStatus == {"current", "stale", "superseded"}
Evidence == Alerts \cup Records \cup Files

ASSUME DisjointSources ==
    /\ Alerts \cap Records = {} /\ Alerts \cap Files = {} /\ Records \cap Files = {}
ASSUME Inputs ==
    /\ ReviewDecisions \subseteq AllDecisions
    /\ StatusInputs \subseteq RemediationStatus
    /\ ModeInputs \subseteq Modes
ASSUME Bounds ==
    /\ MaxAnalyses \in Nat /\ MaxReviews \in Nat /\ MaxDiagnoses \in Nat
    /\ MaxActions \in Nat /\ MaxImplementations \in Nat
    /\ MaxTests \in Nat /\ MaxRetests \in Nat

\* The references a descendant of an action stores.
Chain == [analysis : Nat, review : Nat, diagnosis : Nat, action : Nat]

Analysis == [events : SUBSET Files, findings : SUBSET Evidence, current : BOOLEAN]
Review == [analysis : Nat, decision : AllDecisions, progression_valid : BOOLEAN]
Diagnosis == [analysis : Nat, review : Nat, workflow_status : WorkflowStatus,
              status : {"awaiting_human_review", "accepted", "rejected",
                        "more_evidence_requested"}]
Action == [diagnosis : Nat, analysis : Nat, review : Nat,   \* diagnosis 0: a manual action
           status : RemediationStatus, workflow_status : WorkflowStatus]
Implementation == [chain : Chain, mode : Modes, change : Changes,
                   status : {"completed", "rolled_back"},
                   workflow_status : WorkflowStatus]
Test == [action : Nat, implementation : Nat, status : {"running", "passed", "failed"},
         completed_at : Nat, workflow_status : WorkflowStatus]
Retest == [chain : Chain, implementation : Nat, test : Nat,
           result : {"clean", "exposed", "incomparable"},
           workflow_status : WorkflowStatus]
FixVerification == [chain : Chain, implementation : Nat, test : Nat, retest : Nat,
                    status : {"passed", "failed"}, workflow_status : WorkflowStatus]
Outcome == [chain : Chain, implementation : Nat, test : Nat, retest : Nat, fix : Nat,
            result : {"passed", "failed"}, eligible : BOOLEAN,
            workflow_status : WorkflowStatus]
Case == [outcome : Nat, implementation : Nat,              \* outcome 0: a rollback penalty
         result : {"passed", "failed", "rolled_back"}, eligible : BOOLEAN,
         workflow_status : WorkflowStatus]

\* Every table holds rows of its own shape and the incident a known status
\* (the column types and enums of app/models).
TypeOK ==
    /\ events \subseteq Files
    /\ findings \subseteq Evidence
    /\ incident \in IncidentStatus
    /\ analyses \in Seq(Analysis)
    /\ reviews \in Seq(Review)
    /\ diagnoses \in Seq(Diagnosis)
    /\ actions \in Seq(Action)
    /\ implementations \in Seq(Implementation)
    /\ tests \in Seq(Test)
    /\ retests \in Seq(Retest)
    /\ fixes \in Seq(FixVerification)
    /\ outcomes \in Seq(Outcome)
    /\ cases \in Seq(Case)

Init ==
    /\ events = {}
    /\ findings = {}
    /\ incident = "new"
    /\ analyses = <<>>
    /\ reviews = <<>>
    /\ diagnoses = <<>> /\ actions = <<>> /\ implementations = <<>>
    /\ tests = <<>> /\ retests = <<>>
    /\ fixes = <<>> /\ outcomes = <<>> /\ cases = <<>>

-----------------------------------------------------------------------------
(* Selecting and retiring rows *)

Newest(ids) == IF ids = {} THEN 0 ELSE CHOOSE n \in ids : \A m \in ids : m <= n

Retire(rows, ids, status) ==
    [n \in DOMAIN rows |->
        IF n \in ids THEN [rows[n] EXCEPT !.workflow_status = status] ELSE rows[n]]

\* Fault: the eligibility of a retired row is kept.
RetireLearningStatusOnly(rows, ids, status) == Retire(rows, ids, status)

\* Outcomes and learning cases also lose their eligibility.
RetireLearning(rows, ids, status) ==
    [n \in DOMAIN rows |->
        IF n \in ids
        THEN [rows[n] EXCEPT !.workflow_status = status, !.eligible = FALSE]
        ELSE rows[n]]

\* get_current_analysis; the partial unique index keeps it to one row.
CurrentAnalyses == {a \in DOMAIN analyses : analyses[a].current}

-----------------------------------------------------------------------------
(* Permission: the gate every governed transition passes *)

\* Fault: the newest review must approve, but r need not be that review.
PermissionOfAnyReview(a, r) ==
    /\ a \in CurrentAnalyses
    /\ r \in DOMAIN reviews /\ reviews[r].analysis = a
    /\ \E q \in DOMAIN reviews :
          /\ q = Newest({p \in DOMAIN reviews : reviews[p].analysis = a})
          /\ reviews[q].decision = "approved" /\ reviews[q].progression_valid

Permission(a, r) ==
    /\ a \in CurrentAnalyses
    /\ r \in DOMAIN reviews
    /\ reviews[r].analysis = a
    /\ \A q \in DOMAIN reviews : reviews[q].analysis = a => q <= r
    /\ reviews[r].decision = "approved"
    /\ reviews[r].progression_valid

DiagnosisOn(d, a, r) ==
    /\ diagnoses[d].analysis = a
    /\ diagnoses[d].review = r
    /\ diagnoses[d].workflow_status = "current"

ActionOn(m, a, r) ==
    /\ actions[m].analysis = a
    /\ actions[m].review = r
    /\ actions[m].workflow_status = "current"

PermitsDiagnosis(d) ==
    LET a == diagnoses[d].analysis
        r == diagnoses[d].review
    IN  Permission(a, r) /\ DiagnosisOn(d, a, r)

PermitsAction(m) ==
    LET a == actions[m].analysis
        r == actions[m].review
    IN  /\ Permission(a, r)
        /\ ActionOn(m, a, r)
        /\ actions[m].diagnosis # 0 => DiagnosisOn(actions[m].diagnosis, a, r)

\* Fault: the chain is composed with the latest review, not the action's own.
ChainOfLatest(m) == [analysis |-> actions[m].analysis, review |-> Len(reviews),
                     diagnosis |-> actions[m].diagnosis, action |-> m]

ChainOf(m) == [analysis |-> actions[m].analysis, review |-> actions[m].review,
               diagnosis |-> actions[m].diagnosis, action |-> m]

-----------------------------------------------------------------------------
(* The action the workflow facts report, which is the one a fix is verified for *)

FactsAction ==
    LET a == Newest(CurrentAnalyses)
        r == Newest({q \in DOMAIN reviews : Permission(a, q)})
        branch == {e \in DOMAIN diagnoses : DiagnosisOn(e, a, r)}
        accepted == {e \in branch : diagnoses[e].status = "accepted"}
        d == IF accepted # {} THEN Newest(accepted) ELSE Newest(branch)
        of(e) == Newest({m \in DOMAIN actions :
                            ActionOn(m, a, r) /\ actions[m].diagnosis = e})
    IN  IF of(d) # 0 THEN of(d) ELSE of(0)   \* else a manual action

-----------------------------------------------------------------------------
(* Invalidation *)

\* The rows invalidate_downstream_for_stale_analysis reaches from the analyses in gone.
ActionsUnder(gone) == {m \in DOMAIN actions : actions[m].analysis \in gone}
\* Fault: rolled-back implementations, and what hangs from them, are passed over.
ImplementationsUnderCompleted(gone) ==
    {i \in DOMAIN implementations :
        implementations[i].chain.action \in ActionsUnder(gone)
            /\ implementations[i].status = "completed"}
ImplementationsUnder(gone) ==
    {i \in DOMAIN implementations : implementations[i].chain.action \in ActionsUnder(gone)}
TestsUnder(gone) == {t \in DOMAIN tests : tests[t].action \in ActionsUnder(gone)}
RetestsUnder(gone) ==
    {k \in DOMAIN retests : retests[k].implementation \in ImplementationsUnder(gone)}
FixesUnder(gone) == {f \in DOMAIN fixes : fixes[f].retest \in RetestsUnder(gone)}
OutcomesUnder(gone) == {o \in DOMAIN outcomes : outcomes[o].chain.analysis \in gone}
CasesUnder(gone) == {c \in DOMAIN cases : cases[c].outcome \in OutcomesUnder(gone)}

InvalidateReviews(gone) ==
    reviews' = [r \in DOMAIN reviews |->
                   IF reviews[r].analysis \in gone
                   THEN [reviews[r] EXCEPT !.progression_valid = FALSE]
                   ELSE reviews[r]]

InvalidateDownstream(gone) ==
    /\ diagnoses' = Retire(diagnoses,
                           {d \in DOMAIN diagnoses : diagnoses[d].analysis \in gone}, "stale")
    /\ actions' = Retire(actions, ActionsUnder(gone), "stale")
    /\ implementations' = Retire(implementations, ImplementationsUnder(gone), "stale")
    /\ tests' = Retire(tests, TestsUnder(gone), "stale")
    /\ retests' = Retire(retests, RetestsUnder(gone), "stale")
    /\ fixes' = Retire(fixes, FixesUnder(gone), "stale")
    /\ outcomes' = RetireLearning(outcomes, OutcomesUnder(gone), "stale")
    /\ cases' = RetireLearning(cases, CasesUnder(gone), "stale")

\* Fault: the previous analysis is not closed.
SupersededNone(gone) == analyses

\* The analysis rows once those in gone are no longer current.
Superseded(gone) ==
    [a \in DOMAIN analyses |->
        IF a \in gone THEN [analyses[a] EXCEPT !.current = FALSE] ELSE analyses[a]]

MarkStale ==
    /\ analyses' = Superseded(CurrentAnalyses)
    /\ InvalidateReviews(CurrentAnalyses)
    /\ InvalidateDownstream(CurrentAnalyses)

-----------------------------------------------------------------------------
(* Evidence *)

\* create_or_link_incident: an alert is linked once.
LinkAlert(x) ==
    /\ x \in Alerts \ findings
    /\ findings' = findings \cup {x}
    /\ MarkStale
    /\ UNCHANGED <<events, incident>>

\* link_scanner_evidence: linking the same record again marks stale again.
LinkRecord(x) ==
    /\ findings' = findings \cup {x}
    /\ MarkStale
    /\ UNCHANGED <<events, incident>>

\* parse_evidence inserts the file's normalised events, and nothing else.
ParseEvidence(f) ==
    /\ f \notin events
    /\ events' = events \cup {f}
    /\ UNCHANGED <<findings, incident, analyses, reviews, chainRows>>

\* Fault: detections are stored without marking the analysis stale.
DetectEvidenceQuietly(f) ==
    /\ f \in events \ findings
    /\ findings' = findings \cup {f}
    /\ UNCHANGED <<events, incident, analyses, reviews, chainRows>>

\* detect_evidence on a parsed file whose events hold something sensitive.
DetectEvidence(f) ==
    /\ f \in events \ findings
    /\ findings' = findings \cup {f}
    /\ MarkStale
    /\ UNCHANGED <<events, incident>>

-----------------------------------------------------------------------------
(* Analysis and human review *)

\* A scanner record is evidence for the ranking but no detection to analyse.
Analyse(force) ==
    /\ Len(analyses) < MaxAnalyses
    /\ CurrentAnalyses = {} \/ force
    /\ findings \ Records # {}
    /\ analyses' = Append(Superseded(CurrentAnalyses),
                          [events |-> events, findings |-> findings, current |-> TRUE])
    /\ InvalidateReviews(CurrentAnalyses)
    /\ InvalidateDownstream(CurrentAnalyses)
    /\ incident' = "under_review"
    /\ UNCHANGED <<events, findings>>

\* Fault: an escalation is stored as a status of its own.
StatusAfterReviewVerbatim(decision) ==
    IF decision = "escalated" THEN "escalated" ELSE "confirmed_incident"

StatusAfterReview(decision) ==
    CASE decision = "approved" -> "confirmed_incident"
      [] decision \in {"rejected", "rejected_false_positive"} -> "false_positive"
      [] decision \in {"inconclusive", "escalated"} -> "under_review"
      [] decision = "request_more_evidence" -> "needs_more_evidence"

SubmitReview(decision) ==
    /\ Len(reviews) < MaxReviews
    /\ \E a \in CurrentAnalyses :
          reviews' = Append(reviews, [analysis |-> a, decision |-> decision,
                                      progression_valid |-> TRUE])
    /\ incident' = StatusAfterReview(decision)
    /\ UNCHANGED <<events, findings, analyses, chainRows>>

-----------------------------------------------------------------------------
(* Diagnosis *)

\* The chain of the branch's previous diagnoses is superseded as a whole.
SupersedeDiagnoses(old) ==
    LET oldActions == {m \in DOMAIN actions : actions[m].diagnosis \in old}
        oldImplementations == {i \in DOMAIN implementations :
                                  implementations[i].chain.diagnosis \in old}
        oldOutcomes == {o \in DOMAIN outcomes : outcomes[o].chain.diagnosis \in old}
    IN  /\ actions' = Retire(actions, oldActions, "superseded")
        /\ tests' = Retire(tests, {t \in DOMAIN tests : tests[t].action \in oldActions},
                           "superseded")
        /\ implementations' = Retire(implementations, oldImplementations, "superseded")
        /\ retests' = Retire(retests, {k \in DOMAIN retests :
                                 retests[k].implementation \in oldImplementations},
                             "superseded")
        /\ fixes' = Retire(fixes, {f \in DOMAIN fixes : fixes[f].chain.diagnosis \in old},
                           "superseded")
        /\ outcomes' = RetireLearning(outcomes, oldOutcomes, "superseded")
        /\ cases' = RetireLearning(cases, {c \in DOMAIN cases :
                                      cases[c].outcome \in oldOutcomes},
                                   "superseded")

GenerateDiagnosis ==
    /\ Len(diagnoses) < MaxDiagnoses
    /\ \E a \in CurrentAnalyses, r \in DOMAIN reviews :
          /\ Permission(a, r)
          /\ LET old == {d \in DOMAIN diagnoses : DiagnosisOn(d, a, r)}
             IN  /\ diagnoses' = Append(Retire(diagnoses, old, "superseded"),
                        [analysis |-> a, review |-> r, workflow_status |-> "current",
                         status |-> "awaiting_human_review"])
                 /\ SupersedeDiagnoses(old)
    /\ UNCHANGED <<events, findings, incident, analyses, reviews>>

\* Accepting passes the gate and creates the action; a repeated accept changes nothing.
AcceptDiagnosis(d) ==
    /\ Len(actions) < MaxActions
    /\ diagnoses[d].status = "awaiting_human_review"
    /\ PermitsDiagnosis(d)
    /\ diagnoses' = [diagnoses EXCEPT ![d].status = "accepted"]
    /\ actions' = Append(actions,
          [diagnosis |-> d, analysis |-> diagnoses[d].analysis,
           review |-> diagnoses[d].review,
           status |-> "not_started", workflow_status |-> "current"])
    /\ UNCHANGED <<events, findings, incident, analyses, reviews, implementations,
                   tests, retests, fixes, outcomes, cases>>

\* Fault: the status of the diagnosis is not looked at.
DeclineAnyDiagnosis(d, status) ==
    /\ diagnoses' = [diagnoses EXCEPT ![d].status = status]
    /\ UNCHANGED <<events, findings, incident, analyses, reviews, actions,
                   implementations, tests, retests, fixes, outcomes, cases>>

\* Rejecting or asking for more evidence is open on stale diagnoses too.
DeclineDiagnosis(d, status) ==
    /\ diagnoses[d].status = "awaiting_human_review"
    /\ diagnoses' = [diagnoses EXCEPT ![d].status = status]
    /\ UNCHANGED <<events, findings, incident, analyses, reviews, actions,
                   implementations, tests, retests, fixes, outcomes, cases>>

-----------------------------------------------------------------------------
(* Remediation action and implementation *)

CreateAction(status) ==
    /\ Len(actions) < MaxActions
    /\ \E a \in CurrentAnalyses, r \in DOMAIN reviews :
          /\ Permission(a, r)
          /\ actions' = Append(actions,
                [diagnosis |-> 0, analysis |-> a, review |-> r,
                 status |-> status, workflow_status |-> "current"])
    /\ UNCHANGED <<events, findings, incident, analyses, reviews, diagnoses,
                   implementations, tests, retests, fixes, outcomes, cases>>

\* Fault: every updated action is rebound to the review in force, not only a legacy one.
RebindAction(m, status) ==
    /\ \E a \in CurrentAnalyses, r \in DOMAIN reviews :
          /\ Permission(a, r)
          /\ actions' = [actions EXCEPT ![m].analysis = a, ![m].review = r,
                                        ![m].status = status]
    /\ UNCHANGED <<events, findings, incident, analyses, reviews, diagnoses,
                   implementations, tests, retests, fixes, outcomes, cases>>

UpdateAction(m, status) ==
    /\ PermitsAction(m)
    /\ actions' = [actions EXCEPT ![m].status = status]
    /\ UNCHANGED <<events, findings, incident, analyses, reviews, diagnoses,
                   implementations, tests, retests, fixes, outcomes, cases>>

\* The idempotency key: the same change of the same action is recorded once.
Recorded(m, mode, change) ==
    \E i \in DOMAIN implementations :
        /\ implementations[i].chain.action = m
        /\ implementations[i].mode = mode
        /\ implementations[i].change = change

RecordImplementation(m, mode, change) ==
    /\ Len(implementations) < MaxImplementations
    /\ PermitsAction(m)
    /\ actions[m].diagnosis # 0
    /\ ~ Recorded(m, mode, change)
    /\ implementations' = Append(implementations,
          [chain |-> ChainOf(m), mode |-> mode, change |-> change,
           status |-> "completed", workflow_status |-> "current"])
    /\ actions' = IF actions[m].status = "not_started"
                  THEN [actions EXCEPT ![m].status = "awaiting_retest"]
                  ELSE actions
    /\ UNCHANGED <<events, findings, incident, analyses, reviews, diagnoses,
                   tests, retests, fixes, outcomes, cases>>

-----------------------------------------------------------------------------
(* Controlled rollback of a sandbox patch *)

\* execute_controlled_rollback: the status only of an implementation still current.
RolledBack(i) ==
    IF implementations[i].workflow_status = "current"
    THEN [implementations EXCEPT ![i].status = "rolled_back"]
    ELSE implementations

\* One penalty case per patch, current and never eligible.
WithPenalty(rows, i) ==
    IF \E c \in DOMAIN rows : rows[c].implementation = i /\ rows[c].result = "rolled_back"
    THEN rows
    ELSE Append(rows, [outcome |-> 0, implementation |-> i, result |-> "rolled_back",
                       eligible |-> FALSE, workflow_status |-> "current"])

\* Whether a failure of implementation i ends with its workspace restored.
AutoRollback(i, restored) == restored /\ implementations[i].mode = "controlled_patch"

\* The reviewer's rollback of the sandbox patch.
RollbackPatch(i) ==
    /\ implementations[i].mode = "controlled_patch"
    /\ PermitsAction(implementations[i].chain.action)
    /\ implementations' = RolledBack(i)
    /\ cases' = WithPenalty(cases, i)
    /\ UNCHANGED <<events, findings, incident, analyses, reviews, diagnoses, actions,
                   tests, retests, fixes, outcomes>>

-----------------------------------------------------------------------------
(* Test, retest, verification *)

InForce(i) ==
    /\ implementations[i].workflow_status = "current"
    /\ implementations[i].status = "completed"
    /\ PermitsAction(implementations[i].chain.action)

\* run_profile commits the running row before it starts the command ...
StartTest(i) ==
    /\ Len(tests) < MaxTests
    /\ InForce(i)
    /\ tests' = Append(tests,
          [action |-> implementations[i].chain.action, implementation |-> i,
           status |-> "running", completed_at |-> 0, workflow_status |-> "current"])
    /\ UNCHANGED <<events, findings, incident, analyses, reviews, diagnoses, actions,
                   implementations, retests, fixes, outcomes, cases>>

Finished == {t \in DOMAIN tests : tests[t].status # "running"}

\* ... and stores the verdict when it ends, whatever happened to the chain meanwhile.
FinishTest(t, passed, restored) ==
    LET i == tests[t].implementation
        rollback == ~ passed /\ AutoRollback(i, restored)
    IN  /\ tests[t].status = "running"
        /\ tests' = [tests EXCEPT ![t].status = IF passed THEN "passed" ELSE "failed",
                                  ![t].completed_at = Cardinality(Finished) + 1]
        /\ implementations' = IF rollback THEN RolledBack(i) ELSE implementations
        /\ cases' = IF rollback THEN WithPenalty(cases, i) ELSE cases
        /\ UNCHANGED <<events, findings, incident, analyses, reviews, diagnoses, actions,
                       retests, fixes, outcomes>>

RecordRetest(t, result, restored) ==
    LET i == tests[t].implementation
        rollback == result = "exposed" /\ AutoRollback(i, restored)
    IN  /\ Len(retests) < MaxRetests
        /\ InForce(i)
        /\ tests[t].workflow_status = "current"
        /\ tests[t].status = "passed"
        /\ \A k \in DOMAIN retests : retests[k].test # t
        /\ retests' = Append(retests,
              [chain |-> ChainOf(implementations[i].chain.action),
               implementation |-> i, test |-> t, result |-> result,
               workflow_status |-> "current"])
        /\ implementations' = IF rollback THEN RolledBack(i) ELSE implementations
        /\ cases' = IF rollback THEN WithPenalty(cases, i) ELSE cases
        /\ UNCHANGED <<events, findings, incident, analyses, reviews, diagnoses, actions,
                       tests, fixes, outcomes>>

\* assert_fix_verification_allowed with controlled_retest_id = k.
Verifiable(k) ==
    LET m == FactsAction
        i == retests[k].implementation
        t == retests[k].test
        eligible == {j \in DOMAIN implementations :
                        /\ implementations[j].chain = ChainOf(m)
                        /\ implementations[j].status = "completed"
                        /\ implementations[j].workflow_status = "current"}
        passedTests == {u \in DOMAIN tests :
                           /\ tests[u].action = m
                           /\ tests[u].implementation = i
                           /\ tests[u].status = "passed"
                           /\ tests[u].workflow_status = "current"}
    IN  /\ m # 0
        /\ actions[m].status \in {"awaiting_retest", "completed"}
        /\ PermitsAction(m)
        /\ actions[m].diagnosis # 0
        /\ incident # "closed"
        /\ i = Newest(eligible)
        /\ t \in passedTests
        /\ \A u \in passedTests : tests[u].completed_at <= tests[t].completed_at
        /\ retests[k].chain = ChainOf(m)
        /\ retests[k].result # "incomparable"
        /\ retests[k].workflow_status = "current"

\* Fault: matching dimensions pass, whatever the retest found.
VerificationStatusByMatch(k) ==
    IF retests[k].result = "incomparable" THEN "failed" ELSE "passed"
VerificationStatus(k) == IF retests[k].result = "clean" THEN "passed" ELSE "failed"
StatusAfterVerification(status) ==
    IF status = "passed" THEN "fixed" ELSE "confirmed_incident"

\* Fault: the tests and the acceptance count, the verification's result does not.
EligibleIfTested(k) ==
    /\ diagnoses[retests[k].chain.diagnosis].status = "accepted"
    /\ tests[retests[k].test].status = "passed"

\* complete_passed_chain, with the diagnosis read back from its row.
Eligible(k) ==
    /\ VerificationStatus(k) = "passed"
    /\ diagnoses[retests[k].chain.diagnosis].status = "accepted"
    /\ tests[retests[k].test].status = "passed"

VerifyFix(k, restored) ==
    LET chain == retests[k].chain
        i == retests[k].implementation
        t == retests[k].test
        status == VerificationStatus(k)
        rollback == status = "failed" /\ AutoRollback(i, restored)
        learned == Append(cases, [outcome |-> Len(outcomes) + 1, implementation |-> i,
                                  result |-> status, eligible |-> Eligible(k),
                                  workflow_status |-> "current"])
    IN  /\ Verifiable(k)
        /\ \A f \in DOMAIN fixes : fixes[f].retest # k
        /\ fixes' = Append(fixes,
              [chain |-> chain, implementation |-> i, test |-> t, retest |-> k,
               status |-> status, workflow_status |-> "current"])
        /\ outcomes' = Append(outcomes,
              [chain |-> chain, implementation |-> i, test |-> t, retest |-> k,
               fix |-> Len(fixes) + 1, result |-> status, eligible |-> Eligible(k),
               workflow_status |-> "current"])
        /\ incident' = StatusAfterVerification(status)
        /\ implementations' = IF rollback THEN RolledBack(i) ELSE implementations
        /\ cases' = IF rollback THEN WithPenalty(learned, i) ELSE learned
        /\ UNCHANGED <<events, findings, analyses, reviews, diagnoses, actions,
                       tests, retests>>

-----------------------------------------------------------------------------
Next ==
    \/ \E x \in Alerts : LinkAlert(x)
    \/ \E x \in Records : LinkRecord(x)
    \/ \E f \in Files : ParseEvidence(f) \/ DetectEvidence(f)
    \/ \E force \in BOOLEAN : Analyse(force)
    \/ \E decision \in ReviewDecisions : SubmitReview(decision)
    \/ GenerateDiagnosis
    \/ \E d \in DOMAIN diagnoses :
          \/ AcceptDiagnosis(d)
          \/ \E status \in {"rejected", "more_evidence_requested"} :
                DeclineDiagnosis(d, status)
    \/ \E status \in StatusInputs : CreateAction(status)
    \/ \E m \in DOMAIN actions :
          \/ \E status \in StatusInputs : UpdateAction(m, status)
          \/ \E mode \in ModeInputs, change \in Changes : RecordImplementation(m, mode, change)
    \/ \E i \in DOMAIN implementations : StartTest(i) \/ RollbackPatch(i)
    \/ \E t \in DOMAIN tests, restored \in BOOLEAN :
          \/ \E passed \in BOOLEAN : FinishTest(t, passed, restored)
          \/ \E result \in {"clean", "exposed", "incomparable"} :
                RecordRetest(t, result, restored)
    \/ \E k \in DOMAIN retests, restored \in BOOLEAN : VerifyFix(k, restored)

Spec == Init /\ [][Next]_vars

-----------------------------------------------------------------------------
(* Safety *)

AnalysisCurrent(a) == a \in CurrentAnalyses

\* Every stored reference leads to a row, and every row repeats the references of
\* the row it hangs from: a diagnosis names a review and that review's analysis, an
\* action those of its diagnosis, a descendant the action's own chain and the change
\* and test of its parent.  No stage is ever composed from rows that merely happen to
\* be the latest of their tables.
ExactChains ==
    /\ \A r \in DOMAIN reviews : reviews[r].analysis \in DOMAIN analyses
    /\ \A d \in DOMAIN diagnoses :
          /\ diagnoses[d].review \in DOMAIN reviews
          /\ diagnoses[d].analysis = reviews[diagnoses[d].review].analysis
    /\ \A m \in DOMAIN actions :
          /\ actions[m].review \in DOMAIN reviews
          /\ actions[m].analysis = reviews[actions[m].review].analysis
          /\ actions[m].diagnosis # 0 =>
                /\ actions[m].diagnosis \in DOMAIN diagnoses
                /\ actions[m].review = diagnoses[actions[m].diagnosis].review
    /\ \A i \in DOMAIN implementations :
          /\ implementations[i].chain.action \in DOMAIN actions
          /\ implementations[i].chain = ChainOf(implementations[i].chain.action)
    /\ \A t \in DOMAIN tests :
          /\ tests[t].implementation \in DOMAIN implementations
          /\ tests[t].action = implementations[tests[t].implementation].chain.action
    /\ \A k \in DOMAIN retests :
          /\ retests[k].test \in DOMAIN tests
          /\ retests[k].implementation = tests[retests[k].test].implementation
          /\ retests[k].chain = implementations[retests[k].implementation].chain
    /\ \A f \in DOMAIN fixes :
          /\ fixes[f].retest \in DOMAIN retests
          /\ fixes[f].test = retests[fixes[f].retest].test
          /\ fixes[f].implementation = retests[fixes[f].retest].implementation
          /\ fixes[f].chain = retests[fixes[f].retest].chain
    /\ \A o \in DOMAIN outcomes :
          /\ outcomes[o].fix \in DOMAIN fixes
          /\ outcomes[o].retest = fixes[outcomes[o].fix].retest
          /\ outcomes[o].test = fixes[outcomes[o].fix].test
          /\ outcomes[o].implementation = fixes[outcomes[o].fix].implementation
          /\ outcomes[o].chain = fixes[outcomes[o].fix].chain
    /\ \A c \in DOMAIN cases :
          /\ cases[c].implementation \in DOMAIN implementations
          /\ cases[c].outcome # 0 =>
                /\ cases[c].outcome \in DOMAIN outcomes
                /\ cases[c].implementation = outcomes[cases[c].outcome].implementation

\* No row of the chain stays current, and no case eligible, once the analysis it
\* descends from is stale: mark_stale and create_analysis_record reach every
\* descendant, through whichever reference each cascade query follows.  Only the
\* penalty case of a rollback outlives its analysis.
NoCurrentUnderStale ==
    /\ \A r \in DOMAIN reviews :
          reviews[r].progression_valid => AnalysisCurrent(reviews[r].analysis)
    /\ \A d \in DOMAIN diagnoses :
          diagnoses[d].workflow_status = "current" => AnalysisCurrent(diagnoses[d].analysis)
    /\ \A m \in DOMAIN actions :
          actions[m].workflow_status = "current" => AnalysisCurrent(actions[m].analysis)
    /\ \A i \in DOMAIN implementations :
          implementations[i].workflow_status = "current" =>
              AnalysisCurrent(implementations[i].chain.analysis)
    /\ \A t \in DOMAIN tests :
          tests[t].workflow_status = "current" =>
              AnalysisCurrent(actions[tests[t].action].analysis)
    /\ \A k \in DOMAIN retests :
          retests[k].workflow_status = "current" =>
              AnalysisCurrent(retests[k].chain.analysis)
    /\ \A f \in DOMAIN fixes :
          fixes[f].workflow_status = "current" => AnalysisCurrent(fixes[f].chain.analysis)
    /\ \A o \in DOMAIN outcomes :
          outcomes[o].workflow_status = "current" \/ outcomes[o].eligible =>
              AnalysisCurrent(outcomes[o].chain.analysis)
    /\ \A c \in DOMAIN cases :
          cases[c].outcome # 0 /\ (cases[c].workflow_status = "current" \/ cases[c].eligible)
              => AnalysisCurrent(outcomes[cases[c].outcome].chain.analysis)

\* What a learning case rests on.
Proven(c) ==
    LET o == outcomes[cases[c].outcome]
        i == implementations[o.implementation]
        a == o.chain.analysis
        r == o.chain.review
    IN  /\ cases[c].workflow_status = "current"
        /\ o.eligible /\ o.workflow_status = "current"
        /\ fixes[o.fix].status = "passed" /\ fixes[o.fix].workflow_status = "current"
        /\ fixes[o.fix].chain = o.chain /\ fixes[o.fix].retest = o.retest
        /\ retests[o.retest].result = "clean"
        /\ retests[o.retest].workflow_status = "current"
        /\ retests[o.retest].chain = o.chain /\ retests[o.retest].test = o.test
        /\ tests[o.test].status = "passed" /\ tests[o.test].workflow_status = "current"
        /\ tests[o.test].implementation = o.implementation
        /\ i.chain = o.chain /\ i.workflow_status = "current"
        /\ ActionOn(o.chain.action, a, r)
        /\ actions[o.chain.action].diagnosis = o.chain.diagnosis
        /\ diagnoses[o.chain.diagnosis].status = "accepted"
        /\ DiagnosisOn(o.chain.diagnosis, a, r)
        /\ reviews[r].decision = "approved" /\ reviews[r].progression_valid
        /\ reviews[r].analysis = a /\ AnalysisCurrent(a)

\* A case that ranks future remediations rests on one exact chain: a current analysis,
\* a review of it that approved and still lets work progress, an accepted diagnosis,
\* the action made from it, a change, a passed test, a clean retest and a passed
\* verification, each bound to the one before, every one of them still current.
ExemplarIsProven == \A c \in DOMAIN cases : cases[c].eligible => Proven(c)

\* An incident reads "fixed" only while its last verification passed and nothing
\* was decided about it since: the verified chain hangs from the newest analysis
\* and from that analysis's newest review, which approved it.
FixedIsProven ==
    incident = "fixed" =>
        LET f == fixes[Len(fixes)]
        IN  /\ f.status = "passed"
            /\ f.chain.analysis = Len(analyses)
            /\ f.chain.review = Len(reviews)
            /\ reviews[f.chain.review].decision = "approved"
            /\ retests[f.retest].result = "clean"

\* No change is ever implemented for a diagnosis a human has not accepted, and a
\* diagnosis once acted on is never declined afterwards.
ImplementedOnlyIfAccepted ==
    \A i \in DOMAIN implementations :
        LET d == implementations[i].chain.diagnosis
        IN  d # 0 /\ diagnoses[d].status = "accepted"

\* One analysis is current, and each branch (analysis, review) has one current
\* diagnosis: what the two partial unique indexes would otherwise refuse with an
\* error in the middle of a handler.
OneCurrentBranch ==
    /\ Cardinality(CurrentAnalyses) <= 1
    /\ \A d, e \in DOMAIN diagnoses :
          /\ DiagnosisOn(d, diagnoses[e].analysis, diagnoses[e].review)
          /\ diagnoses[e].workflow_status = "current"
          => d = e

\* What is reported as current analysis was computed from every finding the
\* incident has: linking evidence after the snapshot always marks it stale.
SnapshotCoversFindings ==
    \A a \in CurrentAnalyses : analyses[a].findings = findings

-----------------------------------------------------------------------------
(* What a step may never do *)

\* No row of a table is deleted or revived, and its bound fields keep their values.
Kept(old, new, bound) ==
    /\ Len(new) >= Len(old)
    /\ \A n \in DOMAIN old :
          /\ \A field \in bound : new[n][field] = old[n][field]
          /\ old[n].workflow_status # "current" => new[n].workflow_status # "current"

\* What a step leaves of the rows it finds.
RowsStand ==
    /\ \A a \in DOMAIN analyses :
          /\ analyses'[a].current => analyses[a].current
          /\ analyses'[a].events = analyses[a].events
          /\ analyses'[a].findings = analyses[a].findings
    /\ \A r \in DOMAIN reviews :
          /\ reviews'[r].progression_valid => reviews[r].progression_valid
          /\ reviews'[r].analysis = reviews[r].analysis
          /\ reviews'[r].decision = reviews[r].decision
    /\ Kept(diagnoses, diagnoses', {"analysis", "review"})
    /\ Kept(actions, actions', {"diagnosis", "analysis", "review"})
    /\ Kept(implementations, implementations', {"chain", "mode", "change"})
    /\ Kept(tests, tests', {"action", "implementation"})
    /\ Kept(retests, retests', {"chain", "implementation", "test", "result"})
    /\ Kept(fixes, fixes', {"chain", "implementation", "test", "retest", "status"})
    /\ Kept(outcomes, outcomes',
            {"chain", "implementation", "test", "retest", "fix", "result"})
    /\ Kept(cases, cases', {"outcome", "implementation", "result"})
    /\ \A o \in DOMAIN outcomes : outcomes'[o].eligible => outcomes[o].eligible
    /\ \A c \in DOMAIN cases : cases'[c].eligible => cases[c].eligible
    /\ \A i \in DOMAIN implementations :
          implementations[i].status = "rolled_back" =>
              implementations'[i].status = "rolled_back"

\* A retired row stays retired and an identity stays bound: no handler revives a
\* stale or superseded row, restores eligibility, undoes a rollback, or rebinds a
\* stored reference.  The snapshot of an analysis and the decision of a review never
\* change, so every old row means for ever what it meant when a human saw it.
NeverRevived == [][RowsStand]_vars

\* A diagnosis or action the gate refuses, it refuses for good: approving again
\* after a rejection, or analysing again after staleness, never re-admits old work.
RefusedForGood ==
    [][ /\ \A d \in DOMAIN diagnoses : PermitsDiagnosis(d)' => PermitsDiagnosis(d)
        /\ \A m \in DOMAIN actions : PermitsAction(m)' => PermitsAction(m)
      ]_vars

\* Review r is the one in force on analysis a: the newest of a current analysis, and
\* it approves.  An older approval is not in force, whether the reviews after it
\* approved, rejected or did one after the other.
Governs(a, r) ==
    /\ AnalysisCurrent(a)
    /\ r \in DOMAIN reviews
    /\ reviews[r].analysis = a /\ reviews[r].decision = "approved"
    /\ \A q \in DOMAIN reviews : reviews[q].analysis = a => q <= r

\* ... and the action of chain c, with the diagnosis it was made from, is current under it.
GovernsChain(c) ==
    /\ Governs(c.analysis, c.review)
    /\ ActionOn(c.action, c.analysis, c.review)
    /\ c.diagnosis # 0 => DiagnosisOn(c.diagnosis, c.analysis, c.review)

Added(old, new) == DOMAIN new \ DOMAIN old

NewRowsPermitted ==
    /\ \A d \in Added(diagnoses, diagnoses') :
          Governs(diagnoses'[d].analysis, diagnoses'[d].review)
    /\ \A m \in Added(actions, actions') :
          Governs(actions'[m].analysis, actions'[m].review)
    /\ \A i \in Added(implementations, implementations') :
          GovernsChain(implementations'[i].chain)
    /\ \A t \in Added(tests, tests') : GovernsChain(ChainOf(tests'[t].action))
    /\ \A k \in Added(retests, retests') : GovernsChain(retests'[k].chain)
    /\ \A f \in Added(fixes, fixes') : GovernsChain(fixes'[f].chain)
    /\ \A o \in Added(outcomes, outcomes') : GovernsChain(outcomes'[o].chain)

\* Every new row hangs from the review in force when it is created: a diagnosis or an
\* action names that review and its analysis, and a change, test, retest, verification
\* or outcome descends from an action and a diagnosis current under exactly that
\* review, whatever was approved, rejected and approved again before.
OnlyUnderPermission == [][NewRowsPermitted]_vars

-----------------------------------------------------------------------------
(* What the documentation says and the code does not keep *)

\* A rolled-back change never stands as a success: no case that ranks remediations
\* belongs to an implementation whose patch was rolled back (docstring of
\* _record_rolled_back_learning).
RolledBackNeverExemplar ==
    \A c \in DOMAIN cases :
        cases[c].eligible => implementations[cases[c].implementation].status # "rolled_back"

\* The evidence an analysis hashed is the evidence the incident has for as long as
\* the analysis is current, normalised events included (docstrings of mark_stale and
\* compute_evidence_snapshot_hash).
SnapshotCoversEvents ==
    \A a \in CurrentAnalyses : analyses[a].events = events
=============================================================================
