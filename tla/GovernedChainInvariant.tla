----------------------- MODULE GovernedChainInvariant -----------------------
(***************************************************************************)
(* The safety of GovernedChain for every set of evidence and every bound   *)
(* on the tables: exact chains, nothing current under a stale analysis,    *)
(* and no row ever revived.                                                *)
(*                                                                         *)
(* The argument has two parts.  Every step keeps the rows it finds: their  *)
(* references, and whether they are retired (RowsKept).  And a step either *)
(* leaves the analyses alone and hangs its new rows from the current one   *)
(* (NewRowsGoverned), or runs the cascade over every current analysis,     *)
(* after which no row is current at all (NothingCurrent).                  *)
(*                                                                         *)
(* Before it, type correctness: what each operator on the tables returns,  *)
(* and that one step keeps every table well typed.                         *)
(***************************************************************************)
EXTENDS GovernedChain, SequenceTheorems, FiniteSetTheorems, TLAPS

-----------------------------------------------------------------------------
(* Rows of a table *)

\* A function from 1..n into S is a sequence over S of length n.
LEMMA FunctionIsSeq ==
    ASSUME NEW S, NEW n \in Nat, NEW f \in [1..n -> S]
    PROVE  f \in Seq(S) /\ Len(f) = n
<1>1. f \in Seq(S)
    BY SeqDef
<1>2. DOMAIN f = 1..n /\ DOMAIN f = 1..Len(f) /\ Len(f) \in Nat
    BY <1>1, LenProperties
<1>. QED
    BY <1>1, <1>2

\* Retiring rows keeps the table's type and length.
LEMMA RetireType ==
    ASSUME NEW S, NEW rows \in Seq(S), NEW ids, NEW status,
           \A row \in S : [row EXCEPT !.workflow_status = status] \in S
    PROVE  /\ Retire(rows, ids, status) \in Seq(S)
           /\ Len(Retire(rows, ids, status)) = Len(rows)
<1>1. DOMAIN rows = 1..Len(rows) /\ Len(rows) \in Nat
    BY LenProperties
<1>2. \A n \in 1..Len(rows) : rows[n] \in S
    BY ElementOfSeq
<1>3. Retire(rows, ids, status) \in [1..Len(rows) -> S]
    BY <1>1, <1>2 DEF Retire
<1>. QED
    BY <1>1, <1>3, FunctionIsSeq

\* Retiring outcomes or cases keeps the table's type and length.
LEMMA RetireLearningType ==
    ASSUME NEW S, NEW rows \in Seq(S), NEW ids, NEW status,
           \A row \in S : [row EXCEPT !.workflow_status = status,
                                      !.eligible = FALSE] \in S
    PROVE  /\ RetireLearning(rows, ids, status) \in Seq(S)
           /\ Len(RetireLearning(rows, ids, status)) = Len(rows)
<1>1. DOMAIN rows = 1..Len(rows) /\ Len(rows) \in Nat
    BY LenProperties
<1>2. \A n \in 1..Len(rows) : rows[n] \in S
    BY ElementOfSeq
<1>3. RetireLearning(rows, ids, status) \in [1..Len(rows) -> S]
    BY <1>1, <1>2 DEF RetireLearning
<1>. QED
    BY <1>1, <1>3, FunctionIsSeq

\* Every row type is closed under a change of workflow status.
LEMMA RowTypesRetire ==
    ASSUME NEW status \in WorkflowStatus
    PROVE  /\ \A row \in Diagnosis : [row EXCEPT !.workflow_status = status] \in Diagnosis
           /\ \A row \in Action : [row EXCEPT !.workflow_status = status] \in Action
           /\ \A row \in Implementation :
                 [row EXCEPT !.workflow_status = status] \in Implementation
           /\ \A row \in Test : [row EXCEPT !.workflow_status = status] \in Test
           /\ \A row \in Retest : [row EXCEPT !.workflow_status = status] \in Retest
           /\ \A row \in FixVerification :
                 [row EXCEPT !.workflow_status = status] \in FixVerification
           /\ \A row \in Outcome :
                 [row EXCEPT !.workflow_status = status, !.eligible = FALSE] \in Outcome
           /\ \A row \in Case :
                 [row EXCEPT !.workflow_status = status, !.eligible = FALSE] \in Case
BY DEF Diagnosis, Action, Implementation, Test, Retest, FixVerification, Outcome, Case

\* The cascade keeps the type of every table below the analyses and reviews.
LEMMA InvalidateDownstreamType ==
    ASSUME TypeOK, NEW gone, InvalidateDownstream(gone)
    PROVE  /\ diagnoses' \in Seq(Diagnosis) /\ actions' \in Seq(Action)
           /\ implementations' \in Seq(Implementation) /\ tests' \in Seq(Test)
           /\ retests' \in Seq(Retest) /\ fixes' \in Seq(FixVerification)
           /\ outcomes' \in Seq(Outcome) /\ cases' \in Seq(Case)
<1>1. "stale" \in WorkflowStatus
    BY DEF WorkflowStatus
<1>2. diagnoses' \in Seq(Diagnosis) /\ actions' \in Seq(Action)
    BY <1>1, RowTypesRetire, RetireType DEF InvalidateDownstream, TypeOK
<1>3. implementations' \in Seq(Implementation) /\ tests' \in Seq(Test)
    BY <1>1, RowTypesRetire, RetireType DEF InvalidateDownstream, TypeOK
<1>4. retests' \in Seq(Retest) /\ fixes' \in Seq(FixVerification)
    BY <1>1, RowTypesRetire, RetireType DEF InvalidateDownstream, TypeOK
<1>5. outcomes' \in Seq(Outcome) /\ cases' \in Seq(Case)
    BY <1>1, RowTypesRetire, RetireLearningType DEF InvalidateDownstream, TypeOK
<1>. QED
    BY <1>2, <1>3, <1>4, <1>5

-----------------------------------------------------------------------------
(* Type correctness *)

\* What the two halves of mark_stale and of create_analysis_record leave behind.
LEMMA SupersededType ==
    ASSUME TypeOK, NEW gone
    PROVE  Superseded(gone) \in Seq(Analysis) /\ Len(Superseded(gone)) = Len(analyses)
<1>1. DOMAIN analyses = 1..Len(analyses) /\ Len(analyses) \in Nat
    BY LenProperties DEF TypeOK
<1>2. \A a \in 1..Len(analyses) : analyses[a] \in Analysis
    BY ElementOfSeq DEF TypeOK
<1>3. Superseded(gone) \in [1..Len(analyses) -> Analysis]
    BY <1>1, <1>2 DEF Superseded, Analysis
<1>. QED
    BY <1>1, <1>3, FunctionIsSeq

\* Closing reviews keeps the table's type.
LEMMA InvalidateReviewsType ==
    ASSUME TypeOK, NEW gone, InvalidateReviews(gone)
    PROVE  reviews' \in Seq(Review)
<1>1. DOMAIN reviews = 1..Len(reviews) /\ Len(reviews) \in Nat
    BY LenProperties DEF TypeOK
<1>2. \A r \in 1..Len(reviews) : reviews[r] \in Review
    BY ElementOfSeq DEF TypeOK
<1>3. reviews' \in [1..Len(reviews) -> Review]
    BY <1>1, <1>2 DEF InvalidateReviews, Review
<1>. QED
    BY <1>1, <1>3, FunctionIsSeq

\* So does the whole cascade of a stale analysis.
LEMMA MarkStaleType ==
    ASSUME TypeOK, MarkStale
    PROVE  /\ analyses' \in Seq(Analysis) /\ reviews' \in Seq(Review)
           /\ diagnoses' \in Seq(Diagnosis) /\ actions' \in Seq(Action)
           /\ implementations' \in Seq(Implementation) /\ tests' \in Seq(Test)
           /\ retests' \in Seq(Retest) /\ fixes' \in Seq(FixVerification)
           /\ outcomes' \in Seq(Outcome) /\ cases' \in Seq(Case)
BY SupersededType, InvalidateReviewsType, InvalidateDownstreamType DEF MarkStale

\* A new diagnosis supersedes the chain of its branch without changing any type.
LEMMA SupersedeDiagnosesType ==
    ASSUME TypeOK, NEW old, SupersedeDiagnoses(old)
    PROVE  /\ actions' \in Seq(Action)
           /\ implementations' \in Seq(Implementation) /\ tests' \in Seq(Test)
           /\ retests' \in Seq(Retest) /\ fixes' \in Seq(FixVerification)
           /\ outcomes' \in Seq(Outcome) /\ cases' \in Seq(Case)
<1>1. "superseded" \in WorkflowStatus
    BY DEF WorkflowStatus
<1>2. actions' \in Seq(Action) /\ tests' \in Seq(Test)
    BY <1>1, RowTypesRetire, RetireType DEF SupersedeDiagnoses, TypeOK
<1>3. implementations' \in Seq(Implementation) /\ retests' \in Seq(Retest)
    BY <1>1, RowTypesRetire, RetireType DEF SupersedeDiagnoses, TypeOK
<1>4. fixes' \in Seq(FixVerification)
    BY <1>1, RowTypesRetire, RetireType DEF SupersedeDiagnoses, TypeOK
<1>5. outcomes' \in Seq(Outcome) /\ cases' \in Seq(Case)
    BY <1>1, RowTypesRetire, RetireLearningType DEF SupersedeDiagnoses, TypeOK
<1>. QED
    BY <1>2, <1>3, <1>4, <1>5

\* Ids that pass the gate are row ids.
LEMMA PermissionIds ==
    ASSUME TypeOK, NEW a, NEW r, Permission(a, r)
    PROVE  a \in Nat /\ a \in DOMAIN analyses /\ r \in Nat /\ r \in DOMAIN reviews
<1>1. DOMAIN analyses = 1..Len(analyses) /\ DOMAIN reviews = 1..Len(reviews)
      /\ Len(analyses) \in Nat /\ Len(reviews) \in Nat
    BY LenProperties DEF TypeOK
<1>. QED
    BY <1>1 DEF Permission, CurrentAnalyses

\* The chain copied from an existing action is well typed.
LEMMA ChainOfType ==
    ASSUME TypeOK, NEW m \in DOMAIN actions
    PROVE  ChainOf(m) \in Chain
<1>1. DOMAIN actions = 1..Len(actions) /\ Len(actions) \in Nat
    BY LenProperties DEF TypeOK
<1>2. actions[m] \in Action
    BY <1>1, ElementOfSeq DEF TypeOK
<1>. QED
    BY <1>1, <1>2 DEF ChainOf, Chain, Action

\* A rollback keeps the types of implementations and cases.
LEMMA RollbackType ==
    ASSUME TypeOK, NEW i \in DOMAIN implementations, NEW rows \in Seq(Case)
    PROVE  RolledBack(i) \in Seq(Implementation) /\ WithPenalty(rows, i) \in Seq(Case)
<1>1. DOMAIN implementations = 1..Len(implementations) /\ Len(implementations) \in Nat
    BY LenProperties DEF TypeOK
<1>2. implementations[i] \in Implementation
    BY <1>1, ElementOfSeq DEF TypeOK
<1>3. [implementations[i] EXCEPT !.status = "rolled_back"] \in Implementation
    BY <1>2 DEF Implementation
<1>4. RolledBack(i) \in Seq(Implementation)
    BY <1>1, <1>3, ExceptSeq DEF RolledBack, TypeOK
<1>5. [outcome |-> 0, implementation |-> i, result |-> "rolled_back",
       eligible |-> FALSE, workflow_status |-> "current"] \in Case
    BY <1>1 DEF Case, WorkflowStatus
<1>. QED
    BY <1>4, <1>5 DEF WithPenalty

\* One step keeps every table well typed; the references of ExactChains say that
\* the rows a handler looks up through stored ids exist.
LEMMA TypeStep ==
    ASSUME TypeOK, ExactChains, [Next]_vars
    PROVE  TypeOK'
<1>. USE Inputs
<1>dom. /\ DOMAIN analyses = 1..Len(analyses) /\ Len(analyses) \in Nat
        /\ DOMAIN diagnoses = 1..Len(diagnoses) /\ Len(diagnoses) \in Nat
        /\ DOMAIN actions = 1..Len(actions) /\ Len(actions) \in Nat
        /\ DOMAIN implementations = 1..Len(implementations) /\ Len(implementations) \in Nat
        /\ DOMAIN tests = 1..Len(tests) /\ Len(tests) \in Nat
        /\ DOMAIN retests = 1..Len(retests) /\ Len(retests) \in Nat
        /\ Len(fixes) \in Nat /\ Len(outcomes) \in Nat
    BY LenProperties DEF TypeOK
<1>rows. /\ \A d \in DOMAIN diagnoses : diagnoses[d] \in Diagnosis
         /\ \A m \in DOMAIN actions : actions[m] \in Action
         /\ \A i \in DOMAIN implementations : implementations[i] \in Implementation
         /\ \A t \in DOMAIN tests : tests[t] \in Test
         /\ \A k \in DOMAIN retests : retests[k] \in Retest
    BY <1>dom, ElementOfSeq DEF TypeOK
<1>wf. "current" \in WorkflowStatus /\ "superseded" \in WorkflowStatus
    BY DEF WorkflowStatus
<1>1. ASSUME NEW x \in Alerts, LinkAlert(x) PROVE TypeOK'
    <2>1. findings' \subseteq Evidence /\ events' \subseteq Files /\ incident' \in IncidentStatus
        BY <1>1 DEF LinkAlert, TypeOK, Evidence
    <2>. QED
        BY <1>1, <2>1, MarkStaleType DEF LinkAlert, TypeOK
<1>2. ASSUME NEW x \in Records, LinkRecord(x) PROVE TypeOK'
    <2>1. findings' \subseteq Evidence /\ events' \subseteq Files /\ incident' \in IncidentStatus
        BY <1>2 DEF LinkRecord, TypeOK, Evidence
    <2>. QED
        BY <1>2, <2>1, MarkStaleType DEF LinkRecord, TypeOK
<1>3. ASSUME NEW f \in Files, ParseEvidence(f) PROVE TypeOK'
    BY <1>3 DEF ParseEvidence, TypeOK, chainRows
<1>4. ASSUME NEW f \in Files, DetectEvidence(f) PROVE TypeOK'
    <2>1. findings' \subseteq Evidence /\ events' \subseteq Files /\ incident' \in IncidentStatus
        BY <1>4 DEF DetectEvidence, TypeOK, Evidence
    <2>. QED
        BY <1>4, <2>1, MarkStaleType DEF DetectEvidence, TypeOK
<1>5. ASSUME NEW force \in BOOLEAN, Analyse(force) PROVE TypeOK'
    <2>1. [events |-> events, findings |-> findings, current |-> TRUE] \in Analysis
        BY DEF TypeOK, Analysis
    <2>2. analyses' \in Seq(Analysis)
        BY <1>5, <2>1, SupersededType DEF Analyse
    <2>3. incident' \in IncidentStatus
        BY <1>5 DEF Analyse, IncidentStatus
    <2>. QED
        BY <1>5, <2>2, <2>3, InvalidateReviewsType, InvalidateDownstreamType
        DEF Analyse, TypeOK
<1>6. ASSUME NEW decision \in ReviewDecisions, SubmitReview(decision) PROVE TypeOK'
    <2>1. decision \in AllDecisions
        OBVIOUS
    <2>2. PICK a \in CurrentAnalyses :
              reviews' = Append(reviews, [analysis |-> a, decision |-> decision,
                                          progression_valid |-> TRUE])
        BY <1>6 DEF SubmitReview
    <2>3. a \in Nat
        BY <1>dom DEF CurrentAnalyses
    <2>4. reviews' \in Seq(Review)
        BY <2>1, <2>2, <2>3 DEF TypeOK, Review
    <2>5. incident' \in IncidentStatus
        BY <1>6, <2>1 DEF SubmitReview, StatusAfterReview, IncidentStatus, AllDecisions
    <2>. QED
        BY <1>6, <2>4, <2>5 DEF SubmitReview, TypeOK, chainRows
<1>7. ASSUME GenerateDiagnosis PROVE TypeOK'
    <2>1. PICK a \in CurrentAnalyses, r \in DOMAIN reviews :
              /\ Permission(a, r)
              /\ LET old == {d \in DOMAIN diagnoses : DiagnosisOn(d, a, r)}
                 IN  /\ diagnoses' = Append(Retire(diagnoses, old, "superseded"),
                            [analysis |-> a, review |-> r, workflow_status |-> "current",
                             status |-> "awaiting_human_review"])
                     /\ SupersedeDiagnoses(old)
        BY <1>7 DEF GenerateDiagnosis
    <2>2. [analysis |-> a, review |-> r, workflow_status |-> "current",
           status |-> "awaiting_human_review"] \in Diagnosis
        BY <1>wf, <2>1, PermissionIds DEF Diagnosis
    <2>. DEFINE old == {d \in DOMAIN diagnoses : DiagnosisOn(d, a, r)}
    <2>3. Retire(diagnoses, old, "superseded") \in Seq(Diagnosis)
        BY <1>wf, RowTypesRetire, RetireType DEF TypeOK
    <2>4. diagnoses' \in Seq(Diagnosis)
        BY <2>1, <2>2, <2>3
    <2>5. SupersedeDiagnoses(old)
        BY <2>1
    <2>. HIDE DEF old
    <2>. QED
        BY <1>7, <2>4, <2>5, SupersedeDiagnosesType DEF GenerateDiagnosis, TypeOK
<1>8. ASSUME NEW d \in DOMAIN diagnoses, AcceptDiagnosis(d) PROVE TypeOK'
    <2>1. [diagnoses[d] EXCEPT !.status = "accepted"] \in Diagnosis
        BY <1>rows DEF Diagnosis
    <2>2. diagnoses' \in Seq(Diagnosis)
        BY <1>8, <1>dom, <2>1, ExceptSeq DEF AcceptDiagnosis, TypeOK
    <2>3. [diagnosis |-> d, analysis |-> diagnoses[d].analysis,
           review |-> diagnoses[d].review,
           status |-> "not_started", workflow_status |-> "current"] \in Action
        BY <1>dom, <1>rows, <1>wf DEF Diagnosis, Action, RemediationStatus
    <2>. QED
        BY <1>8, <2>2, <2>3 DEF AcceptDiagnosis, TypeOK
<1>9. ASSUME NEW d \in DOMAIN diagnoses,
             NEW status \in {"rejected", "more_evidence_requested"},
             DeclineDiagnosis(d, status)
      PROVE  TypeOK'
    <2>1. [diagnoses[d] EXCEPT !.status = status] \in Diagnosis
        BY <1>rows DEF Diagnosis
    <2>2. diagnoses' \in Seq(Diagnosis)
        BY <1>9, <1>dom, <2>1, ExceptSeq DEF DeclineDiagnosis, TypeOK
    <2>. QED
        BY <1>9, <2>2 DEF DeclineDiagnosis, TypeOK
<1>10. ASSUME NEW status \in StatusInputs, CreateAction(status) PROVE TypeOK'
    <2>1. PICK a \in CurrentAnalyses, r \in DOMAIN reviews :
              /\ Permission(a, r)
              /\ actions' = Append(actions,
                    [diagnosis |-> 0, analysis |-> a, review |-> r,
                     status |-> status, workflow_status |-> "current"])
        BY <1>10 DEF CreateAction
    <2>2. [diagnosis |-> 0, analysis |-> a, review |-> r,
           status |-> status, workflow_status |-> "current"] \in Action
        BY <1>wf, <2>1, PermissionIds DEF Action
    <2>. QED
        BY <1>10, <2>1, <2>2 DEF CreateAction, TypeOK
<1>11. ASSUME NEW m \in DOMAIN actions, NEW status \in StatusInputs, UpdateAction(m, status)
       PROVE  TypeOK'
    <2>1. [actions[m] EXCEPT !.status = status] \in Action
        BY <1>rows DEF Action
    <2>2. actions' \in Seq(Action)
        BY <1>11, <1>dom, <2>1, ExceptSeq DEF UpdateAction, TypeOK
    <2>. QED
        BY <1>11, <2>2 DEF UpdateAction, TypeOK
<1>12. ASSUME NEW m \in DOMAIN actions, NEW mode \in ModeInputs, NEW change \in Changes,
              RecordImplementation(m, mode, change)
       PROVE  TypeOK'
    <2>1. [chain |-> ChainOf(m), mode |-> mode, change |-> change,
           status |-> "completed", workflow_status |-> "current"] \in Implementation
        BY <1>wf, ChainOfType DEF Implementation
    <2>2. implementations' \in Seq(Implementation)
        BY <1>12, <2>1 DEF RecordImplementation, TypeOK
    <2>3. [actions[m] EXCEPT !.status = "awaiting_retest"] \in Action
        BY <1>rows DEF Action, RemediationStatus
    <2>4. [actions EXCEPT ![m].status = "awaiting_retest"] \in Seq(Action)
        BY <1>dom, <2>3, ExceptSeq DEF TypeOK
    <2>5. actions' \in Seq(Action)
        BY <1>12, <2>4 DEF RecordImplementation, TypeOK
    <2>. QED
        BY <1>12, <2>2, <2>5 DEF RecordImplementation, TypeOK
<1>13. ASSUME NEW i \in DOMAIN implementations, StartTest(i) PROVE TypeOK'
    <2>1. [action |-> implementations[i].chain.action, implementation |-> i,
           status |-> "running", completed_at |-> 0, workflow_status |-> "current"] \in Test
        BY <1>dom, <1>rows, <1>wf DEF Test, Implementation, Chain
    <2>. QED
        BY <1>13, <2>1 DEF StartTest, TypeOK
<1>14. ASSUME NEW i \in DOMAIN implementations, RollbackPatch(i) PROVE TypeOK'
    BY <1>14, RollbackType DEF RollbackPatch, TypeOK
<1>15. ASSUME NEW t \in DOMAIN tests, NEW passed \in BOOLEAN, NEW restored \in BOOLEAN,
              FinishTest(t, passed, restored)
       PROVE  TypeOK'
    <2>1. Finished \subseteq 1..Len(tests)
        BY <1>dom DEF Finished
    <2>2. Cardinality(Finished) + 1 \in Nat
        <3>1. IsFiniteSet(1..Len(tests))
            BY <1>dom, FS_Interval
        <3>2. IsFiniteSet(Finished)
            BY <2>1, <3>1, FS_Subset
        <3>. QED
            BY <3>2, FS_CardinalityType
    <2>3. [[tests[t] EXCEPT !.status = IF passed THEN "passed" ELSE "failed"]
              EXCEPT !.completed_at = Cardinality(Finished) + 1] \in Test
        BY <1>rows, <2>2 DEF Test
    <2>4. tests' = [tests EXCEPT ![t] =
              [[tests[t] EXCEPT !.status = IF passed THEN "passed" ELSE "failed"]
                  EXCEPT !.completed_at = Cardinality(Finished) + 1]]
        BY <1>15, <1>dom DEF FinishTest
    <2>5. tests' \in Seq(Test)
        BY <1>dom, <2>3, <2>4, ExceptSeq DEF TypeOK
    <2>6. tests[t].implementation \in DOMAIN implementations
        BY DEF ExactChains
    <2>7. implementations' \in Seq(Implementation) /\ cases' \in Seq(Case)
        BY <1>15, <2>6, RollbackType DEF FinishTest, TypeOK
    <2>. QED
        BY <1>15, <2>5, <2>7 DEF FinishTest, TypeOK
<1>16. ASSUME NEW t \in DOMAIN tests, NEW result \in {"clean", "exposed", "incomparable"},
              NEW restored \in BOOLEAN, RecordRetest(t, result, restored)
       PROVE  TypeOK'
    <2>. DEFINE i == tests[t].implementation
    <2>1. i \in DOMAIN implementations /\ implementations[i].chain.action \in DOMAIN actions
        BY DEF ExactChains
    <2>2. [chain |-> ChainOf(implementations[i].chain.action),
           implementation |-> i, test |-> t, result |-> result,
           workflow_status |-> "current"] \in Retest
        BY <1>dom, <1>wf, <2>1, ChainOfType DEF Retest
    <2>3. retests' \in Seq(Retest)
        BY <1>16, <2>2 DEF RecordRetest, TypeOK
    <2>4. implementations' \in Seq(Implementation) /\ cases' \in Seq(Case)
        BY <1>16, <2>1, RollbackType DEF RecordRetest, TypeOK
    <2>. QED
        BY <1>16, <2>3, <2>4 DEF RecordRetest, TypeOK
<1>17. ASSUME NEW k \in DOMAIN retests, NEW restored \in BOOLEAN, VerifyFix(k, restored)
       PROVE  TypeOK'
    <2>. DEFINE i == retests[k].implementation
                status == VerificationStatus(k)
                learned == Append(cases,
                    [outcome |-> Len(outcomes) + 1, implementation |-> i,
                     result |-> status, eligible |-> Eligible(k),
                     workflow_status |-> "current"])
    <2>1. /\ i \in DOMAIN implementations /\ i \in Nat
          /\ retests[k].chain \in Chain /\ retests[k].test \in Nat
        BY <1>dom, <1>rows DEF ExactChains, Retest
    <2>2. status \in {"passed", "failed"} /\ Eligible(k) \in BOOLEAN
        BY DEF VerificationStatus, Eligible
    <2>3. [chain |-> retests[k].chain, implementation |-> i, test |-> retests[k].test,
           retest |-> k, status |-> status, workflow_status |-> "current"]
              \in FixVerification
        BY <1>dom, <1>wf, <2>1, <2>2 DEF FixVerification
    <2>4. [chain |-> retests[k].chain, implementation |-> i, test |-> retests[k].test,
           retest |-> k, fix |-> Len(fixes) + 1, result |-> status,
           eligible |-> Eligible(k), workflow_status |-> "current"] \in Outcome
        BY <1>dom, <1>wf, <2>1, <2>2 DEF Outcome
    <2>5. [outcome |-> Len(outcomes) + 1, implementation |-> i, result |-> status,
           eligible |-> Eligible(k), workflow_status |-> "current"] \in Case
        BY <1>dom, <1>wf, <2>1, <2>2 DEF Case
    <2>6. learned \in Seq(Case)
        BY <2>5 DEF TypeOK
    <2>7. fixes' \in Seq(FixVerification)
        BY <1>17, <2>3 DEF VerifyFix, TypeOK
    <2>8. outcomes' \in Seq(Outcome)
        BY <1>17, <2>4 DEF VerifyFix, TypeOK
    <2>9. incident' \in IncidentStatus
        BY <1>17 DEF VerifyFix, StatusAfterVerification, IncidentStatus
    <2>10. /\ implementations' \in {implementations, RolledBack(i)}
           /\ cases' \in {learned, WithPenalty(learned, i)}
        BY <1>17 DEF VerifyFix
    <2>. HIDE DEF learned
    <2>11. implementations' \in Seq(Implementation) /\ cases' \in Seq(Case)
        BY <2>1, <2>6, <2>10, RollbackType DEF TypeOK
    <2>. QED
        BY <1>17, <2>7, <2>8, <2>9, <2>11 DEF VerifyFix, TypeOK
<1>18. CASE UNCHANGED vars
    BY <1>18 DEF vars, chainRows, TypeOK
<1>. QED
    BY <1>1, <1>2, <1>3, <1>4, <1>5, <1>6, <1>7, <1>8, <1>9, <1>10, <1>11, <1>12,
       <1>13, <1>14, <1>15, <1>16, <1>17, <1>18 DEF Next

-----------------------------------------------------------------------------
(* What a step keeps of each table *)

KeptAnalyses(old, new) ==
    \A a \in DOMAIN old :
        /\ a \in DOMAIN new
        /\ new[a].current => old[a].current
        /\ new[a].events = old[a].events /\ new[a].findings = old[a].findings
KeptReviews(old, new) ==
    \A r \in DOMAIN old :
        /\ r \in DOMAIN new /\ new[r].analysis = old[r].analysis
        /\ new[r].decision = old[r].decision
        /\ new[r].progression_valid => old[r].progression_valid
KeptStatus(old, new) ==
    \A n \in DOMAIN old :
        /\ n \in DOMAIN new
        /\ new[n].workflow_status = "current" => old[n].workflow_status = "current"
KeptDiagnoses(old, new) ==
    /\ KeptStatus(old, new)
    /\ \A d \in DOMAIN old : /\ new[d].analysis = old[d].analysis
                             /\ new[d].review = old[d].review
KeptActions(old, new) ==
    /\ KeptStatus(old, new)
    /\ \A m \in DOMAIN old : /\ new[m].analysis = old[m].analysis
                             /\ new[m].review = old[m].review
                             /\ new[m].diagnosis = old[m].diagnosis
KeptImplementations(old, new) ==
    /\ KeptStatus(old, new)
    /\ \A i \in DOMAIN old :
          /\ new[i].chain = old[i].chain
          /\ new[i].mode = old[i].mode /\ new[i].change = old[i].change
          /\ old[i].status = "rolled_back" => new[i].status = "rolled_back"
KeptTests(old, new) ==
    /\ KeptStatus(old, new)
    /\ \A t \in DOMAIN old : /\ new[t].action = old[t].action
                             /\ new[t].implementation = old[t].implementation
KeptRetests(old, new) ==
    /\ KeptStatus(old, new)
    /\ \A k \in DOMAIN old : /\ new[k].chain = old[k].chain
                             /\ new[k].implementation = old[k].implementation
                             /\ new[k].test = old[k].test
                             /\ new[k].result = old[k].result
KeptFixes(old, new) ==
    /\ KeptStatus(old, new)
    /\ \A f \in DOMAIN old : /\ new[f].chain = old[f].chain
                             /\ new[f].implementation = old[f].implementation
                             /\ new[f].test = old[f].test
                             /\ new[f].retest = old[f].retest
                             /\ new[f].status = old[f].status
KeptOutcomes(old, new) ==
    /\ KeptStatus(old, new)
    /\ \A o \in DOMAIN old : /\ new[o].chain = old[o].chain
                             /\ new[o].implementation = old[o].implementation
                             /\ new[o].test = old[o].test
                             /\ new[o].retest = old[o].retest
                             /\ new[o].fix = old[o].fix
                             /\ new[o].result = old[o].result
                             /\ new[o].eligible => old[o].eligible
KeptCases(old, new) ==
    /\ KeptStatus(old, new)
    /\ \A c \in DOMAIN old : /\ new[c].outcome = old[c].outcome
                             /\ new[c].implementation = old[c].implementation
                             /\ new[c].result = old[c].result
                             /\ new[c].eligible => old[c].eligible

KeptChainRows ==
    /\ KeptDiagnoses(diagnoses, diagnoses') /\ KeptActions(actions, actions')
    /\ KeptImplementations(implementations, implementations')
    /\ KeptTests(tests, tests') /\ KeptRetests(retests, retests')
    /\ KeptFixes(fixes, fixes') /\ KeptOutcomes(outcomes, outcomes')
    /\ KeptCases(cases, cases')
RowsKept ==
    /\ KeptAnalyses(analyses, analyses') /\ KeptReviews(reviews, reviews')
    /\ KeptChainRows

-----------------------------------------------------------------------------
(* What a step adds *)

\* Outcome o repeats the references of fix verification f.
RepeatsFix(o, f) ==
    /\ o.retest = f.retest /\ o.test = f.test
    /\ o.implementation = f.implementation /\ o.chain = f.chain

NewRowsGoverned ==
    /\ \A r \in DOMAIN reviews' \ DOMAIN reviews :
          reviews'[r].analysis \in CurrentAnalyses
    /\ \A d \in DOMAIN diagnoses' \ DOMAIN diagnoses :
          /\ diagnoses'[d].review \in DOMAIN reviews
          /\ diagnoses'[d].analysis = reviews[diagnoses'[d].review].analysis
          /\ diagnoses'[d].analysis \in CurrentAnalyses
    /\ \A m \in DOMAIN actions' \ DOMAIN actions :
          /\ actions'[m].review \in DOMAIN reviews
          /\ actions'[m].analysis = reviews[actions'[m].review].analysis
          /\ actions'[m].diagnosis # 0 =>
                /\ actions'[m].diagnosis \in DOMAIN diagnoses
                /\ actions'[m].review = diagnoses[actions'[m].diagnosis].review
          /\ actions'[m].analysis \in CurrentAnalyses
    /\ \A i \in DOMAIN implementations' \ DOMAIN implementations :
          LET m == implementations'[i].chain.action
          IN  /\ m \in DOMAIN actions /\ implementations'[i].chain = ChainOf(m)
              /\ actions[m].analysis \in CurrentAnalyses
    /\ \A t \in DOMAIN tests' \ DOMAIN tests :
          LET i == tests'[t].implementation
          IN  /\ i \in DOMAIN implementations
              /\ tests'[t].action = implementations[i].chain.action
              /\ actions[tests'[t].action].analysis \in CurrentAnalyses
    /\ \A k \in DOMAIN retests' \ DOMAIN retests :
          LET i == retests'[k].implementation
          IN  /\ i \in DOMAIN implementations
              /\ retests'[k].test \in DOMAIN tests
              /\ i = tests[retests'[k].test].implementation
              /\ retests'[k].chain = implementations[i].chain
              /\ retests'[k].chain.analysis \in CurrentAnalyses
    /\ \A f \in DOMAIN fixes' \ DOMAIN fixes :
          /\ fixes'[f].retest \in DOMAIN retests
          /\ fixes'[f].test = retests[fixes'[f].retest].test
          /\ fixes'[f].implementation = retests[fixes'[f].retest].implementation
          /\ fixes'[f].chain = retests[fixes'[f].retest].chain
          /\ fixes'[f].chain.analysis \in CurrentAnalyses
    /\ \A o \in DOMAIN outcomes' \ DOMAIN outcomes :
          /\ outcomes'[o].fix \in DOMAIN fixes'
          /\ RepeatsFix(outcomes'[o], fixes'[outcomes'[o].fix])
          /\ outcomes'[o].chain.analysis \in CurrentAnalyses
    /\ \A c \in DOMAIN cases' \ DOMAIN cases :
          /\ cases'[c].implementation \in DOMAIN implementations
          /\ cases'[c].outcome # 0 =>
                /\ cases'[c].outcome \in DOMAIN outcomes'
                /\ cases'[c].implementation = outcomes'[cases'[c].outcome].implementation
                /\ outcomes'[cases'[c].outcome].chain.analysis \in CurrentAnalyses

\* The chain of action m when the actions table is rows.
ChainIn(rows, m) == [analysis |-> rows[m].analysis, review |-> rows[m].review,
                     diagnosis |-> rows[m].diagnosis, action |-> m]

SameIds ==
    /\ DOMAIN reviews' = DOMAIN reviews /\ DOMAIN diagnoses' = DOMAIN diagnoses
    /\ DOMAIN actions' = DOMAIN actions /\ DOMAIN implementations' = DOMAIN implementations
    /\ DOMAIN tests' = DOMAIN tests /\ DOMAIN retests' = DOMAIN retests
    /\ DOMAIN fixes' = DOMAIN fixes /\ DOMAIN outcomes' = DOMAIN outcomes
    /\ DOMAIN cases' = DOMAIN cases

NothingCurrent ==
    /\ \A r \in DOMAIN reviews : ~ reviews[r].progression_valid
    /\ \A d \in DOMAIN diagnoses : diagnoses[d].workflow_status # "current"
    /\ \A m \in DOMAIN actions : actions[m].workflow_status # "current"
    /\ \A i \in DOMAIN implementations : implementations[i].workflow_status # "current"
    /\ \A t \in DOMAIN tests : tests[t].workflow_status # "current"
    /\ \A k \in DOMAIN retests : retests[k].workflow_status # "current"
    /\ \A f \in DOMAIN fixes : fixes[f].workflow_status # "current"
    /\ \A o \in DOMAIN outcomes : ~ outcomes[o].eligible
                                      /\ outcomes[o].workflow_status # "current"
    /\ \A c \in DOMAIN cases :
          cases[c].outcome # 0 => ~ cases[c].eligible
                                      /\ cases[c].workflow_status # "current"

-----------------------------------------------------------------------------
(* The inductive invariant *)

\* Type correctness, exact chains and the cascade hold together: the cascade finds a
\* row through references that ExactChains ties to the row's own analysis, and a
\* handler finds the rows it reads because those references lead somewhere.
IInv == TypeOK /\ ExactChains /\ NoCurrentUnderStale

\* Rows of a well typed table have its row type.
LEMMA Rows ==
    ASSUME TypeOK
    PROVE  /\ \A a \in DOMAIN analyses : analyses[a] \in Analysis
           /\ \A r \in DOMAIN reviews : reviews[r] \in Review
           /\ \A d \in DOMAIN diagnoses : diagnoses[d] \in Diagnosis
           /\ \A m \in DOMAIN actions : actions[m] \in Action
           /\ \A i \in DOMAIN implementations : implementations[i] \in Implementation
           /\ \A t \in DOMAIN tests : tests[t] \in Test
           /\ \A k \in DOMAIN retests : retests[k] \in Retest
           /\ \A f \in DOMAIN fixes : fixes[f] \in FixVerification
           /\ \A o \in DOMAIN outcomes : outcomes[o] \in Outcome
           /\ \A c \in DOMAIN cases : cases[c] \in Case
BY LenProperties, ElementOfSeq DEF TypeOK

\* A retest is of an implementation that exists, the one its test ran on.
LEMMA RetestRefs ==
    ASSUME ExactChains, NEW k \in DOMAIN retests
    PROVE  /\ retests[k].test \in DOMAIN tests
           /\ retests[k].implementation \in DOMAIN implementations
           /\ retests[k].implementation = tests[retests[k].test].implementation
           /\ retests[k].chain = implementations[retests[k].implementation].chain
BY DEF ExactChains

\* What appending a row leaves of a table, and what it adds.
LEMMA AppendKeeps ==
    ASSUME NEW S, NEW rows \in Seq(S), NEW row \in S
    PROVE  /\ \A n \in DOMAIN rows :
                 n \in DOMAIN Append(rows, row) /\ Append(rows, row)[n] = rows[n]
           /\ \A n \in DOMAIN Append(rows, row) \ DOMAIN rows :
                 n = Len(rows) + 1 /\ Append(rows, row)[n] = row
           /\ Len(rows) + 1 \in DOMAIN Append(rows, row)
           /\ Append(rows, row)[Len(rows) + 1] = row
<1>1. DOMAIN rows = 1..Len(rows) /\ Len(rows) \in Nat
    BY LenProperties
<1>2. DOMAIN Append(rows, row) = 1..(Len(rows) + 1)
    BY <1>1, AppendProperties, LenProperties
<1>. QED
    BY <1>1, <1>2, AppendProperties

\* Retiring rows keeps their references and revives none.
LEMMA RetireKeeps ==
    ASSUME TypeOK, NEW ids, NEW status \in {"stale", "superseded"}
    PROVE  /\ KeptDiagnoses(diagnoses, Retire(diagnoses, ids, status))
           /\ KeptActions(actions, Retire(actions, ids, status))
           /\ KeptImplementations(implementations, Retire(implementations, ids, status))
           /\ KeptTests(tests, Retire(tests, ids, status))
           /\ KeptRetests(retests, Retire(retests, ids, status))
           /\ KeptFixes(fixes, Retire(fixes, ids, status))
           /\ KeptOutcomes(outcomes, RetireLearning(outcomes, ids, status))
           /\ KeptCases(cases, RetireLearning(cases, ids, status))
<1>1. KeptDiagnoses(diagnoses, Retire(diagnoses, ids, status))
    BY Rows DEF KeptDiagnoses, KeptStatus, Retire, Diagnosis
<1>2. KeptActions(actions, Retire(actions, ids, status))
    BY Rows DEF KeptActions, KeptStatus, Retire, Action
<1>3. KeptImplementations(implementations, Retire(implementations, ids, status))
    BY Rows DEF KeptImplementations, KeptStatus, Retire, Implementation
<1>4. KeptTests(tests, Retire(tests, ids, status))
    BY Rows DEF KeptTests, KeptStatus, Retire, Test
<1>5. KeptRetests(retests, Retire(retests, ids, status))
    BY Rows DEF KeptRetests, KeptStatus, Retire, Retest
<1>6. KeptFixes(fixes, Retire(fixes, ids, status))
    BY Rows DEF KeptFixes, KeptStatus, Retire, FixVerification
<1>7. KeptOutcomes(outcomes, RetireLearning(outcomes, ids, status))
    BY Rows DEF KeptOutcomes, KeptStatus, RetireLearning, Outcome
<1>8. KeptCases(cases, RetireLearning(cases, ids, status))
    BY Rows DEF KeptCases, KeptStatus, RetireLearning, Case
<1>. QED
    BY <1>1, <1>2, <1>3, <1>4, <1>5, <1>6, <1>7, <1>8

\* Closing analyses and invalidating their reviews keeps both tables.
LEMMA SupersededKeeps ==
    ASSUME TypeOK, NEW gone
    PROVE  /\ KeptAnalyses(analyses, Superseded(gone))
           /\ DOMAIN Superseded(gone) = DOMAIN analyses
           /\ InvalidateReviews(gone) =>
                 KeptReviews(reviews, reviews') /\ DOMAIN reviews' = DOMAIN reviews
<1>1. KeptAnalyses(analyses, Superseded(gone)) /\ DOMAIN Superseded(gone) = DOMAIN analyses
    BY Rows DEF KeptAnalyses, Superseded, Analysis
<1>2. ASSUME InvalidateReviews(gone)
      PROVE  KeptReviews(reviews, reviews') /\ DOMAIN reviews' = DOMAIN reviews
    BY <1>2, Rows DEF KeptReviews, InvalidateReviews, Review
<1>. QED
    BY <1>1, <1>2

\* The cascade keeps the rows below the analyses and adds none.
LEMMA CascadeKeeps ==
    ASSUME TypeOK, NEW gone, InvalidateReviews(gone), InvalidateDownstream(gone)
    PROVE  KeptReviews(reviews, reviews') /\ KeptChainRows /\ SameIds
<1>1. KeptReviews(reviews, reviews') /\ DOMAIN reviews' = DOMAIN reviews
    BY SupersededKeeps
<1>2. KeptChainRows
    BY RetireKeeps DEF InvalidateDownstream, KeptChainRows
<1>3. /\ DOMAIN diagnoses' = DOMAIN diagnoses /\ DOMAIN actions' = DOMAIN actions
      /\ DOMAIN implementations' = DOMAIN implementations
      /\ DOMAIN tests' = DOMAIN tests /\ DOMAIN retests' = DOMAIN retests
      /\ DOMAIN fixes' = DOMAIN fixes /\ DOMAIN outcomes' = DOMAIN outcomes
      /\ DOMAIN cases' = DOMAIN cases
    BY DEF InvalidateDownstream, Retire, RetireLearning
<1>. QED
    BY <1>1, <1>2, <1>3 DEF SameIds

\* The cascade over every current analysis leaves nothing current: whatever reference
\* a query follows to a row, the row's own chain names the same analysis.
LEMMA CascadeReachesAll ==
    ASSUME IInv, InvalidateReviews(CurrentAnalyses), InvalidateDownstream(CurrentAnalyses)
    PROVE  NothingCurrent'
<1>. DEFINE gone == CurrentAnalyses
<1>. USE DEF IInv
<1>chain. \A m \in DOMAIN actions : ChainOf(m).analysis = actions[m].analysis
    BY DEF ChainOf
<1>reach. \A i \in DOMAIN implementations :
              implementations[i].chain.analysis \in gone => i \in ImplementationsUnder(gone)
    BY <1>chain DEF ExactChains, ImplementationsUnder, ActionsUnder
<1>1. \A r \in DOMAIN reviews' : ~ reviews'[r].progression_valid
    BY Rows DEF InvalidateReviews, NoCurrentUnderStale, AnalysisCurrent, Review
<1>2. \A d \in DOMAIN diagnoses' : diagnoses'[d].workflow_status # "current"
    BY Rows DEF InvalidateDownstream, Retire, NoCurrentUnderStale, AnalysisCurrent, Diagnosis
<1>3. \A m \in DOMAIN actions' : actions'[m].workflow_status # "current"
    BY Rows DEF InvalidateDownstream, Retire, NoCurrentUnderStale, AnalysisCurrent, Action,
                ActionsUnder
<1>4. \A i \in DOMAIN implementations' : implementations'[i].workflow_status # "current"
    BY <1>reach, Rows DEF InvalidateDownstream, Retire, NoCurrentUnderStale,
                          AnalysisCurrent, Implementation
<1>5. \A t \in DOMAIN tests' : tests'[t].workflow_status # "current"
    <2>1. \A t \in DOMAIN tests : tests[t].action \in DOMAIN actions
        BY DEF ExactChains
    <2>. QED
        BY <2>1, Rows DEF InvalidateDownstream, Retire, NoCurrentUnderStale,
                          AnalysisCurrent, Test, TestsUnder, ActionsUnder
<1>6. \A k \in DOMAIN retests' : retests'[k].workflow_status # "current"
    <2>1. \A k \in DOMAIN retests :
              retests[k].chain.analysis \in gone => k \in RetestsUnder(gone)
        BY <1>reach DEF ExactChains, RetestsUnder
    <2>. QED
        BY <2>1, Rows DEF InvalidateDownstream, Retire, NoCurrentUnderStale,
                          AnalysisCurrent, Retest
<1>7. \A f \in DOMAIN fixes' : fixes'[f].workflow_status # "current"
    <2>1. \A f \in DOMAIN fixes :
              fixes[f].chain.analysis \in gone => f \in FixesUnder(gone)
        BY <1>reach DEF ExactChains, FixesUnder, RetestsUnder
    <2>. QED
        BY <2>1, Rows DEF InvalidateDownstream, Retire, NoCurrentUnderStale,
                          AnalysisCurrent, FixVerification
<1>8. \A o \in DOMAIN outcomes' :
          ~ outcomes'[o].eligible /\ outcomes'[o].workflow_status # "current"
    BY Rows DEF InvalidateDownstream, RetireLearning, NoCurrentUnderStale,
                AnalysisCurrent, Outcome, OutcomesUnder
<1>9. \A c \in DOMAIN cases' :
          cases'[c].outcome # 0 =>
              ~ cases'[c].eligible /\ cases'[c].workflow_status # "current"
    <2>1. \A c \in DOMAIN cases :
              cases[c].outcome # 0 => cases[c].outcome \in DOMAIN outcomes
        BY DEF ExactChains
    <2>. QED
        BY <2>1, Rows DEF InvalidateDownstream, RetireLearning, NoCurrentUnderStale,
                          AnalysisCurrent, Case, CasesUnder, OutcomesUnder
<1>. QED
    BY <1>1, <1>2, <1>3, <1>4, <1>5, <1>6, <1>7, <1>8, <1>9 DEF NothingCurrent

-----------------------------------------------------------------------------
(* The two kinds of step *)

\* A step that runs the cascade over every current analysis keeps the invariant.
LEMMA CascadeStep ==
    ASSUME IInv, TypeOK', KeptAnalyses(analyses, analyses'),
           InvalidateReviews(CurrentAnalyses), InvalidateDownstream(CurrentAnalyses)
    PROVE  IInv' /\ RowsKept
<1>kept. RowsKept /\ SameIds
    BY CascadeKeeps DEF RowsKept, IInv
<1>gone. NothingCurrent'
    BY CascadeReachesAll
<1>1. ExactChains'
    <2>1. \A r \in DOMAIN reviews' : reviews'[r].analysis \in DOMAIN analyses'
        BY <1>kept DEF RowsKept, SameIds, KeptAnalyses, KeptReviews, ExactChains, IInv
    <2>d. \A d \in DOMAIN diagnoses' :
              /\ diagnoses'[d].review \in DOMAIN reviews'
              /\ diagnoses'[d].analysis = reviews'[diagnoses'[d].review].analysis
        BY <1>kept DEF RowsKept, KeptChainRows, SameIds, KeptReviews, KeptDiagnoses,
                       ExactChains, IInv
    <2>m. \A m \in DOMAIN actions' :
              /\ actions'[m].review \in DOMAIN reviews'
              /\ actions'[m].analysis = reviews'[actions'[m].review].analysis
              /\ actions'[m].diagnosis # 0 =>
                    /\ actions'[m].diagnosis \in DOMAIN diagnoses'
                    /\ actions'[m].review = diagnoses'[actions'[m].diagnosis].review
        BY <1>kept DEF RowsKept, KeptChainRows, SameIds, KeptReviews, KeptDiagnoses,
                       KeptActions, ExactChains, IInv
    <2>2. \A i \in DOMAIN implementations' :
              /\ implementations'[i].chain.action \in DOMAIN actions'
              /\ implementations'[i].chain = ChainIn(actions', implementations'[i].chain.action)
        <3>1. \A m \in DOMAIN actions : m \in DOMAIN actions'
                                            /\ ChainIn(actions', m) = ChainOf(m)
            BY <1>kept DEF RowsKept, KeptChainRows, KeptActions, KeptStatus,
                           ChainOf, ChainIn
        <3>2. \A i \in DOMAIN implementations' :
                  /\ i \in DOMAIN implementations
                  /\ implementations'[i].chain = implementations[i].chain
            BY <1>kept DEF RowsKept, KeptChainRows, SameIds, KeptImplementations
        <3>. QED
            BY <3>1, <3>2 DEF ExactChains, IInv
    <2>3. \A t \in DOMAIN tests' :
              /\ tests'[t].implementation \in DOMAIN implementations'
              /\ tests'[t].action = implementations'[tests'[t].implementation].chain.action
        BY <1>kept DEF RowsKept, KeptChainRows, SameIds, KeptImplementations, KeptTests,
                       ExactChains, IInv
    <2>4. \A k \in DOMAIN retests' :
              /\ retests'[k].test \in DOMAIN tests'
              /\ retests'[k].implementation = tests'[retests'[k].test].implementation
              /\ retests'[k].chain = implementations'[retests'[k].implementation].chain
        <3>1. \A k \in DOMAIN retests' :
                  /\ k \in DOMAIN retests /\ retests'[k].test = retests[k].test
                  /\ retests'[k].implementation = retests[k].implementation
                  /\ retests'[k].chain = retests[k].chain
            BY <1>kept DEF RowsKept, KeptChainRows, SameIds, KeptRetests
        <3>2. \A t \in DOMAIN tests :
                  t \in DOMAIN tests' /\ tests'[t].implementation = tests[t].implementation
            BY <1>kept DEF RowsKept, KeptChainRows, SameIds, KeptTests
        <3>3. \A i \in DOMAIN implementations :
                  implementations'[i].chain = implementations[i].chain
            BY <1>kept DEF RowsKept, KeptChainRows, KeptImplementations
        <3>. QED
            BY <3>1, <3>2, <3>3, RetestRefs DEF IInv
    <2>5. \A f \in DOMAIN fixes' :
              /\ fixes'[f].retest \in DOMAIN retests'
              /\ fixes'[f].test = retests'[fixes'[f].retest].test
              /\ fixes'[f].implementation = retests'[fixes'[f].retest].implementation
              /\ fixes'[f].chain = retests'[fixes'[f].retest].chain
        BY <1>kept DEF RowsKept, KeptChainRows, SameIds, KeptRetests, KeptFixes,
                       ExactChains, IInv
    <2>6. \A o \in DOMAIN outcomes' :
              /\ outcomes'[o].fix \in DOMAIN fixes'
              /\ RepeatsFix(outcomes'[o], fixes'[outcomes'[o].fix])
        BY <1>kept DEF RowsKept, KeptChainRows, SameIds, KeptFixes, KeptOutcomes,
                       ExactChains, RepeatsFix, IInv
    <2>7. \A c \in DOMAIN cases' :
              /\ cases'[c].implementation \in DOMAIN implementations'
              /\ cases'[c].outcome # 0 =>
                    /\ cases'[c].outcome \in DOMAIN outcomes'
                    /\ cases'[c].implementation = outcomes'[cases'[c].outcome].implementation
        BY <1>kept DEF RowsKept, KeptChainRows, SameIds, KeptOutcomes, KeptCases,
                       ExactChains, IInv
    <2>. QED
        BY <2>1, <2>d, <2>m, <2>2, <2>3, <2>4, <2>5, <2>6, <2>7
        DEF ExactChains, ChainOf, ChainIn, RepeatsFix
<1>2. NoCurrentUnderStale'
    BY <1>gone DEF NothingCurrent, NoCurrentUnderStale
<1>. QED
    BY <1>kept, <1>1, <1>2 DEF IInv

\* So does a step that leaves the analyses alone and whose new rows hang from the
\* current one.
LEMMA GovernedStep ==
    ASSUME IInv, TypeOK', UNCHANGED analyses, RowsKept, NewRowsGoverned
    PROVE  IInv'
<1>. USE DEF IInv
<1>cur. CurrentAnalyses' = CurrentAnalyses /\ CurrentAnalyses \subseteq DOMAIN analyses
    BY DEF CurrentAnalyses
<1>same. \A m \in DOMAIN actions :
             /\ m \in DOMAIN actions' /\ ChainIn(actions', m) = ChainOf(m)
             /\ ChainOf(m).analysis = actions[m].analysis
    BY DEF RowsKept, KeptChainRows, KeptActions, KeptStatus, ChainOf, ChainIn
<1>r. \A r \in DOMAIN reviews' :
          /\ reviews'[r].analysis \in DOMAIN analyses'
          /\ reviews'[r].progression_valid => reviews'[r].analysis \in CurrentAnalyses
    BY <1>cur DEF RowsKept, KeptReviews, NewRowsGoverned, ExactChains,
                  NoCurrentUnderStale, AnalysisCurrent
<1>d. \A d \in DOMAIN diagnoses' :
          /\ diagnoses'[d].review \in DOMAIN reviews'
          /\ diagnoses'[d].analysis = reviews'[diagnoses'[d].review].analysis
          /\ diagnoses'[d].workflow_status = "current" =>
                diagnoses'[d].analysis \in CurrentAnalyses
    BY DEF RowsKept, KeptReviews, KeptChainRows, KeptDiagnoses, KeptStatus,
           NewRowsGoverned, ExactChains, NoCurrentUnderStale, AnalysisCurrent
<1>m. \A m \in DOMAIN actions' :
          /\ actions'[m].review \in DOMAIN reviews'
          /\ actions'[m].analysis = reviews'[actions'[m].review].analysis
          /\ actions'[m].diagnosis # 0 =>
                /\ actions'[m].diagnosis \in DOMAIN diagnoses'
                /\ actions'[m].review = diagnoses'[actions'[m].diagnosis].review
          /\ actions'[m].workflow_status = "current" =>
                actions'[m].analysis \in CurrentAnalyses
    BY DEF RowsKept, KeptReviews, KeptChainRows, KeptDiagnoses, KeptActions, KeptStatus,
           NewRowsGoverned, ExactChains, NoCurrentUnderStale, AnalysisCurrent
<1>i. \A i \in DOMAIN implementations' :
          /\ implementations'[i].chain.action \in DOMAIN actions'
          /\ implementations'[i].chain = ChainIn(actions', implementations'[i].chain.action)
          /\ implementations'[i].workflow_status = "current" =>
                implementations'[i].chain.analysis \in CurrentAnalyses
    <2>1. ASSUME NEW i \in DOMAIN implementations
          PROVE  /\ implementations'[i].chain.action \in DOMAIN actions'
                 /\ implementations'[i].chain = ChainIn(actions', implementations'[i].chain.action)
                 /\ implementations'[i].workflow_status = "current" =>
                       implementations'[i].chain.analysis \in CurrentAnalyses
        BY <1>same DEF RowsKept, KeptChainRows, KeptImplementations, KeptStatus,
                       ExactChains, NoCurrentUnderStale, AnalysisCurrent
    <2>2. ASSUME NEW i \in DOMAIN implementations' \ DOMAIN implementations
          PROVE  /\ implementations'[i].chain.action \in DOMAIN actions'
                 /\ implementations'[i].chain = ChainIn(actions', implementations'[i].chain.action)
                 /\ implementations'[i].chain.analysis \in CurrentAnalyses
        BY <1>same DEF NewRowsGoverned
    <2>. QED
        BY <2>1, <2>2
<1>t. \A t \in DOMAIN tests' :
          /\ tests'[t].implementation \in DOMAIN implementations'
          /\ tests'[t].action = implementations'[tests'[t].implementation].chain.action
          /\ tests'[t].workflow_status = "current" =>
                actions'[tests'[t].action].analysis \in CurrentAnalyses
    <2>1. \A i \in DOMAIN implementations :
              /\ i \in DOMAIN implementations'
              /\ implementations'[i].chain = implementations[i].chain
              /\ implementations[i].chain.action \in DOMAIN actions
        BY DEF RowsKept, KeptChainRows, KeptImplementations, KeptStatus, ExactChains
    <2>2. \A m \in DOMAIN actions : actions'[m].analysis = actions[m].analysis
        BY DEF RowsKept, KeptChainRows, KeptActions
    <2>3. ASSUME NEW t \in DOMAIN tests
          PROVE  /\ tests'[t].implementation \in DOMAIN implementations'
                 /\ tests'[t].action =
                       implementations'[tests'[t].implementation].chain.action
                 /\ tests'[t].workflow_status = "current" =>
                       actions'[tests'[t].action].analysis \in CurrentAnalyses
        BY <2>1, <2>2 DEF RowsKept, KeptChainRows, KeptTests, KeptStatus, ExactChains,
                          NoCurrentUnderStale, AnalysisCurrent
    <2>4. ASSUME NEW t \in DOMAIN tests' \ DOMAIN tests
          PROVE  /\ tests'[t].implementation \in DOMAIN implementations'
                 /\ tests'[t].action =
                       implementations'[tests'[t].implementation].chain.action
                 /\ actions'[tests'[t].action].analysis \in CurrentAnalyses
        BY <2>1, <2>2 DEF NewRowsGoverned
    <2>. QED
        BY <2>3, <2>4
<1>k. \A k \in DOMAIN retests' :
          /\ retests'[k].test \in DOMAIN tests'
          /\ retests'[k].implementation = tests'[retests'[k].test].implementation
          /\ retests'[k].chain = implementations'[retests'[k].implementation].chain
          /\ retests'[k].workflow_status = "current" =>
                retests'[k].chain.analysis \in CurrentAnalyses
    <2>1. \A t \in DOMAIN tests :
              t \in DOMAIN tests' /\ tests'[t].implementation = tests[t].implementation
        BY DEF RowsKept, KeptChainRows, KeptTests, KeptStatus
    <2>2. \A i \in DOMAIN implementations :
              implementations'[i].chain = implementations[i].chain
        BY DEF RowsKept, KeptChainRows, KeptImplementations
    <2>3. ASSUME NEW k \in DOMAIN retests
          PROVE  /\ retests'[k].test \in DOMAIN tests'
                 /\ retests'[k].implementation = tests'[retests'[k].test].implementation
                 /\ retests'[k].chain = implementations'[retests'[k].implementation].chain
                 /\ retests'[k].workflow_status = "current" =>
                       retests'[k].chain.analysis \in CurrentAnalyses
        BY <2>1, <2>2, RetestRefs DEF RowsKept, KeptChainRows, KeptRetests, KeptStatus,
           NoCurrentUnderStale, AnalysisCurrent
    <2>4. ASSUME NEW k \in DOMAIN retests' \ DOMAIN retests
          PROVE  /\ retests'[k].test \in DOMAIN tests'
                 /\ retests'[k].implementation = tests'[retests'[k].test].implementation
                 /\ retests'[k].chain = implementations'[retests'[k].implementation].chain
                 /\ retests'[k].chain.analysis \in CurrentAnalyses
        BY <2>1, <2>2 DEF NewRowsGoverned
    <2>. QED
        BY <2>3, <2>4
<1>f. \A f \in DOMAIN fixes' :
          /\ fixes'[f].retest \in DOMAIN retests'
          /\ fixes'[f].test = retests'[fixes'[f].retest].test
          /\ fixes'[f].implementation = retests'[fixes'[f].retest].implementation
          /\ fixes'[f].chain = retests'[fixes'[f].retest].chain
          /\ fixes'[f].workflow_status = "current" =>
                fixes'[f].chain.analysis \in CurrentAnalyses
    BY DEF RowsKept, KeptChainRows, KeptRetests, KeptFixes, KeptStatus,
           NewRowsGoverned, ExactChains, NoCurrentUnderStale, AnalysisCurrent
<1>o. \A o \in DOMAIN outcomes' :
          /\ outcomes'[o].fix \in DOMAIN fixes'
          /\ RepeatsFix(outcomes'[o], fixes'[outcomes'[o].fix])
          /\ outcomes'[o].workflow_status = "current" \/ outcomes'[o].eligible =>
                outcomes'[o].chain.analysis \in CurrentAnalyses
    BY DEF RowsKept, KeptChainRows, KeptFixes, KeptOutcomes, KeptStatus, RepeatsFix,
           NewRowsGoverned, ExactChains, NoCurrentUnderStale, AnalysisCurrent
<1>c. \A c \in DOMAIN cases' :
          /\ cases'[c].implementation \in DOMAIN implementations'
          /\ cases'[c].outcome # 0 =>
                /\ cases'[c].outcome \in DOMAIN outcomes'
                /\ cases'[c].implementation = outcomes'[cases'[c].outcome].implementation
                /\ cases'[c].workflow_status = "current" \/ cases'[c].eligible =>
                      outcomes'[cases'[c].outcome].chain.analysis \in CurrentAnalyses
    BY DEF RowsKept, KeptChainRows, KeptImplementations, KeptOutcomes, KeptCases, KeptStatus,
           NewRowsGoverned, ExactChains, NoCurrentUnderStale, AnalysisCurrent
<1>1. ExactChains'
    BY <1>r, <1>d, <1>m, <1>i, <1>t, <1>k, <1>f, <1>o, <1>c
    DEF ExactChains, ChainOf, ChainIn, RepeatsFix
<1>2. NoCurrentUnderStale'
    BY <1>cur, <1>r, <1>d, <1>m, <1>i, <1>t, <1>k, <1>f, <1>o, <1>c
    DEF NoCurrentUnderStale, AnalysisCurrent
<1>. QED
    BY <1>1, <1>2

-----------------------------------------------------------------------------
(* The handlers that run no cascade *)

\* A table left alone keeps its rows.
LEMMA UnchangedKeeps ==
    /\ analyses' = analyses => KeptAnalyses(analyses, analyses')
    /\ reviews' = reviews => KeptReviews(reviews, reviews')
    /\ diagnoses' = diagnoses => KeptDiagnoses(diagnoses, diagnoses')
    /\ actions' = actions => KeptActions(actions, actions')
    /\ implementations' = implementations =>
          KeptImplementations(implementations, implementations')
    /\ tests' = tests => KeptTests(tests, tests')
    /\ retests' = retests => KeptRetests(retests, retests')
    /\ fixes' = fixes => KeptFixes(fixes, fixes')
    /\ outcomes' = outcomes => KeptOutcomes(outcomes, outcomes')
    /\ cases' = cases => KeptCases(cases, cases')
BY DEF KeptAnalyses, KeptReviews, KeptDiagnoses, KeptActions, KeptImplementations,
       KeptTests, KeptRetests, KeptFixes, KeptOutcomes, KeptCases, KeptStatus

\* A rollback keeps both tables and adds penalty cases only.
LEMMA RollbackKeeps ==
    ASSUME TypeOK, NEW i \in DOMAIN implementations, NEW rows \in Seq(Case)
    PROVE  /\ KeptImplementations(implementations, RolledBack(i))
           /\ DOMAIN RolledBack(i) = DOMAIN implementations
           /\ KeptCases(rows, WithPenalty(rows, i))
           /\ \A c \in DOMAIN WithPenalty(rows, i) \ DOMAIN rows :
                 /\ WithPenalty(rows, i)[c].outcome = 0
                 /\ WithPenalty(rows, i)[c].implementation = i
<1>1. /\ KeptImplementations(implementations, RolledBack(i))
      /\ DOMAIN RolledBack(i) = DOMAIN implementations
    BY Rows DEF KeptImplementations, KeptStatus, RolledBack, Implementation
<1>2. i \in Nat
    BY LenProperties DEF TypeOK
<1>. DEFINE penalty == [outcome |-> 0, implementation |-> i, result |-> "rolled_back",
                        eligible |-> FALSE, workflow_status |-> "current"]
<1>3. penalty \in Case
    BY <1>2 DEF Case, WorkflowStatus
<1>4. WithPenalty(rows, i) \in {rows, Append(rows, penalty)}
    BY DEF WithPenalty
<1>5. /\ KeptCases(rows, Append(rows, penalty)) /\ KeptCases(rows, rows)
      /\ \A c \in DOMAIN Append(rows, penalty) \ DOMAIN rows :
            /\ Append(rows, penalty)[c].outcome = 0
            /\ Append(rows, penalty)[c].implementation = i
    BY <1>3, AppendKeeps DEF KeptCases, KeptStatus
<1>. QED
    BY <1>1, <1>4, <1>5

\* Submitting a review.
LEMMA ReviewStep ==
    ASSUME IInv, NEW decision \in ReviewDecisions, SubmitReview(decision)
    PROVE  UNCHANGED analyses /\ RowsKept /\ NewRowsGoverned
<1>1. PICK a \in CurrentAnalyses :
          reviews' = Append(reviews, [analysis |-> a, decision |-> decision,
                                      progression_valid |-> TRUE])
    BY DEF SubmitReview
<1>. DEFINE row == [analysis |-> a, decision |-> decision, progression_valid |-> TRUE]
<1>2. row \in Review
    BY Inputs, LenProperties DEF Review, CurrentAnalyses, IInv, TypeOK
<1>3. KeptReviews(reviews, reviews')
    BY <1>1, <1>2, AppendKeeps DEF KeptReviews, IInv, TypeOK
<1>4. \A r \in DOMAIN reviews' \ DOMAIN reviews : reviews'[r].analysis \in CurrentAnalyses
    BY <1>1, <1>2, AppendKeeps DEF IInv, TypeOK
<1>5. UNCHANGED <<analyses, chainRows>>
    BY DEF SubmitReview
<1>6. RowsKept
    BY <1>3, <1>5, UnchangedKeeps DEF RowsKept, KeptChainRows, chainRows
<1>7. NewRowsGoverned
    BY <1>4, <1>5 DEF NewRowsGoverned, chainRows
<1>. QED
    BY <1>5, <1>6, <1>7

\* Generating a diagnosis, which supersedes the previous one of its branch.
LEMMA DiagnosisStep ==
    ASSUME IInv, GenerateDiagnosis
    PROVE  UNCHANGED analyses /\ RowsKept /\ NewRowsGoverned
<1>1. PICK a \in CurrentAnalyses, r \in DOMAIN reviews :
          /\ Permission(a, r)
          /\ LET old == {d \in DOMAIN diagnoses : DiagnosisOn(d, a, r)}
             IN  /\ diagnoses' = Append(Retire(diagnoses, old, "superseded"),
                        [analysis |-> a, review |-> r, workflow_status |-> "current",
                         status |-> "awaiting_human_review"])
                 /\ SupersedeDiagnoses(old)
    BY DEF GenerateDiagnosis
<1>. DEFINE old == {d \in DOMAIN diagnoses : DiagnosisOn(d, a, r)}
            row == [analysis |-> a, review |-> r, workflow_status |-> "current",
                    status |-> "awaiting_human_review"]
            rest == Retire(diagnoses, old, "superseded")
<1>2. row \in Diagnosis
    BY <1>1, PermissionIds DEF Diagnosis, WorkflowStatus, IInv
<1>3. rest \in Seq(Diagnosis)
    BY RowTypesRetire, RetireType DEF IInv, TypeOK, WorkflowStatus
<1>4. KeptDiagnoses(diagnoses, rest) /\ DOMAIN rest = DOMAIN diagnoses
    BY RetireKeeps DEF IInv, Retire
<1>5. diagnoses' = Append(rest, row) /\ SupersedeDiagnoses(old)
    BY <1>1
<1>. HIDE DEF old, rest
<1>6. KeptDiagnoses(diagnoses, diagnoses')
    BY <1>2, <1>3, <1>4, <1>5, AppendKeeps DEF KeptDiagnoses, KeptStatus
<1>7. \A d \in DOMAIN diagnoses' \ DOMAIN diagnoses :
          /\ diagnoses'[d].review \in DOMAIN reviews
          /\ diagnoses'[d].analysis = reviews[diagnoses'[d].review].analysis
          /\ diagnoses'[d].analysis \in CurrentAnalyses
    <2>1. \A d \in DOMAIN diagnoses' \ DOMAIN diagnoses : diagnoses'[d] = row
        BY <1>2, <1>3, <1>4, <1>5, AppendKeeps
    <2>2. r \in DOMAIN reviews /\ reviews[r].analysis = a
        BY <1>1 DEF Permission
    <2>. QED
        BY <2>1, <2>2
<1>8. /\ KeptActions(actions, actions') /\ KeptTests(tests, tests')
      /\ KeptImplementations(implementations, implementations')
      /\ KeptRetests(retests, retests') /\ KeptFixes(fixes, fixes')
      /\ KeptOutcomes(outcomes, outcomes') /\ KeptCases(cases, cases')
    BY <1>5, RetireKeeps DEF IInv, SupersedeDiagnoses
<1>9. UNCHANGED <<analyses, reviews>>
    BY DEF GenerateDiagnosis
<1>10. RowsKept
    BY <1>6, <1>8, <1>9, UnchangedKeeps DEF RowsKept, KeptChainRows
<1>11. /\ DOMAIN actions' = DOMAIN actions /\ DOMAIN tests' = DOMAIN tests
       /\ DOMAIN implementations' = DOMAIN implementations
       /\ DOMAIN retests' = DOMAIN retests /\ DOMAIN fixes' = DOMAIN fixes
       /\ DOMAIN outcomes' = DOMAIN outcomes /\ DOMAIN cases' = DOMAIN cases
    BY <1>5 DEF SupersedeDiagnoses, Retire, RetireLearning
<1>12. NewRowsGoverned
    BY <1>7, <1>9, <1>11 DEF NewRowsGoverned
<1>. QED
    BY <1>9, <1>10, <1>12

\* Accepting or declining a diagnosis, and creating or updating an action.
LEMMA ActionStep ==
    ASSUME IInv,
           \/ \E d \in DOMAIN diagnoses :
                 \/ AcceptDiagnosis(d)
                 \/ \E status \in {"rejected", "more_evidence_requested"} :
                       DeclineDiagnosis(d, status)
           \/ \E status \in StatusInputs :
                 \/ CreateAction(status)
                 \/ \E m \in DOMAIN actions : UpdateAction(m, status)
    PROVE  UNCHANGED analyses /\ RowsKept /\ NewRowsGoverned
<1>. USE DEF IInv
<1>1. ASSUME NEW d \in DOMAIN diagnoses, AcceptDiagnosis(d)
      PROVE  UNCHANGED analyses /\ RowsKept /\ NewRowsGoverned
    <2>. DEFINE row == [diagnosis |-> d, analysis |-> diagnoses[d].analysis,
                        review |-> diagnoses[d].review,
                        status |-> "not_started", workflow_status |-> "current"]
    <2>1. row \in Action
        <3>1. d \in Nat
            BY LenProperties DEF TypeOK
        <3>2. diagnoses[d] \in Diagnosis
            BY Rows
        <3>. QED
            BY <3>1, <3>2 DEF Diagnosis, Action, RemediationStatus, WorkflowStatus
    <2>2. /\ row.analysis \in CurrentAnalyses /\ actions' = Append(actions, row)
          /\ row.review \in DOMAIN reviews /\ row.analysis = reviews[row.review].analysis
          /\ row.diagnosis \in DOMAIN diagnoses
          /\ row.review = diagnoses[row.diagnosis].review
        BY <1>1 DEF AcceptDiagnosis, PermitsDiagnosis, Permission
    <2>. HIDE DEF row
    <2>3. /\ KeptActions(actions, actions')
          /\ \A m \in DOMAIN actions' \ DOMAIN actions : actions'[m] = row
        BY <2>1, <2>2, AppendKeeps, SMTT(30) DEF TypeOK, KeptActions, KeptStatus
    <2>4. KeptDiagnoses(diagnoses, diagnoses') /\ DOMAIN diagnoses' = DOMAIN diagnoses
        BY <1>1, Rows DEF AcceptDiagnosis, KeptDiagnoses, KeptStatus, Diagnosis
    <2>5. UNCHANGED <<analyses, reviews, implementations, tests, retests, fixes,
                      outcomes, cases>>
        BY <1>1 DEF AcceptDiagnosis
    <2>6. RowsKept
        BY <2>3, <2>4, <2>5, UnchangedKeeps DEF RowsKept, KeptChainRows
    <2>. QED
        BY <2>2, <2>3, <2>4, <2>5, <2>6 DEF NewRowsGoverned
<1>2. ASSUME NEW d \in DOMAIN diagnoses,
             NEW status \in {"rejected", "more_evidence_requested"},
             DeclineDiagnosis(d, status)
      PROVE  UNCHANGED analyses /\ RowsKept /\ NewRowsGoverned
    <2>1. KeptDiagnoses(diagnoses, diagnoses') /\ DOMAIN diagnoses' = DOMAIN diagnoses
        BY <1>2, Rows DEF DeclineDiagnosis, KeptDiagnoses, KeptStatus, Diagnosis
    <2>2. UNCHANGED <<analyses, reviews, actions, implementations, tests, retests, fixes,
                      outcomes, cases>>
        BY <1>2 DEF DeclineDiagnosis
    <2>3. RowsKept
        BY <2>1, <2>2, UnchangedKeeps DEF RowsKept, KeptChainRows
    <2>. QED
        BY <2>1, <2>2, <2>3 DEF NewRowsGoverned
<1>3. ASSUME NEW status \in StatusInputs, CreateAction(status)
      PROVE  UNCHANGED analyses /\ RowsKept /\ NewRowsGoverned
    <2>1. PICK a \in CurrentAnalyses, r \in DOMAIN reviews :
              /\ Permission(a, r)
              /\ actions' = Append(actions,
                    [diagnosis |-> 0, analysis |-> a, review |-> r,
                     status |-> status, workflow_status |-> "current"])
        BY <1>3 DEF CreateAction
    <2>. DEFINE row == [diagnosis |-> 0, analysis |-> a, review |-> r,
                        status |-> status, workflow_status |-> "current"]
    <2>2. row \in Action
        BY <2>1, Inputs, PermissionIds DEF Action, WorkflowStatus
    <2>3. /\ KeptActions(actions, actions')
          /\ \A m \in DOMAIN actions' \ DOMAIN actions : actions'[m] = row
        BY <2>1, <2>2, AppendKeeps, SMTT(30) DEF TypeOK, KeptActions, KeptStatus
    <2>4. UNCHANGED <<analyses, reviews, diagnoses, implementations, tests, retests,
                      fixes, outcomes, cases>>
        BY <1>3 DEF CreateAction
    <2>5. RowsKept
        BY <2>3, <2>4, UnchangedKeeps DEF RowsKept, KeptChainRows
    <2>6. r \in DOMAIN reviews /\ reviews[r].analysis = a
        BY <2>1 DEF Permission
    <2>. QED
        BY <2>3, <2>4, <2>5, <2>6 DEF NewRowsGoverned
<1>4. ASSUME NEW m \in DOMAIN actions, NEW status \in StatusInputs, UpdateAction(m, status)
      PROVE  UNCHANGED analyses /\ RowsKept /\ NewRowsGoverned
    <2>1. KeptActions(actions, actions') /\ DOMAIN actions' = DOMAIN actions
        BY <1>4, Rows DEF UpdateAction, KeptActions, KeptStatus, Action
    <2>2. UNCHANGED <<analyses, reviews, diagnoses, implementations, tests, retests,
                      fixes, outcomes, cases>>
        BY <1>4 DEF UpdateAction
    <2>3. RowsKept
        BY <2>1, <2>2, UnchangedKeeps DEF RowsKept, KeptChainRows
    <2>. QED
        BY <2>1, <2>2, <2>3 DEF NewRowsGoverned
<1>. QED
    BY <1>1, <1>2, <1>3, <1>4

\* An action the gate admits hangs from the current analysis.
LEMMA PermittedIsCurrent ==
    ASSUME NEW m, PermitsAction(m)
    PROVE  actions[m].analysis \in CurrentAnalyses
BY DEF PermitsAction, Permission

\* Recording an implementation, starting a test and rolling a patch back.
LEMMA ImplementationStep ==
    ASSUME IInv,
           \/ \E m \in DOMAIN actions, mode \in ModeInputs, change \in Changes :
                 RecordImplementation(m, mode, change)
           \/ \E i \in DOMAIN implementations : StartTest(i) \/ RollbackPatch(i)
    PROVE  UNCHANGED analyses /\ RowsKept /\ NewRowsGoverned
<1>. USE DEF IInv
<1>1. ASSUME NEW m \in DOMAIN actions, NEW mode \in ModeInputs, NEW change \in Changes,
             RecordImplementation(m, mode, change)
      PROVE  UNCHANGED analyses /\ RowsKept /\ NewRowsGoverned
    <2>. DEFINE row == [chain |-> ChainOf(m), mode |-> mode, change |-> change,
                        status |-> "completed", workflow_status |-> "current"]
    <2>1. row \in Implementation
        BY Inputs, ChainOfType DEF Implementation, WorkflowStatus
    <2>2. /\ implementations' = Append(implementations, row)
          /\ row.chain = ChainOf(m) /\ ChainOf(m).action = m
          /\ actions[m].analysis \in CurrentAnalyses
        BY <1>1, PermittedIsCurrent DEF RecordImplementation, ChainOf
    <2>. HIDE DEF row
    <2>3. /\ KeptImplementations(implementations, implementations')
          /\ \A i \in DOMAIN implementations' \ DOMAIN implementations :
                implementations'[i] = row
        BY <2>1, <2>2, AppendKeeps, SMTT(30) DEF TypeOK, KeptImplementations, KeptStatus
    <2>4. KeptActions(actions, actions') /\ DOMAIN actions' = DOMAIN actions
        BY <1>1, Rows DEF RecordImplementation, KeptActions, KeptStatus, Action
    <2>5. UNCHANGED <<analyses, reviews, diagnoses, tests, retests, fixes, outcomes, cases>>
        BY <1>1 DEF RecordImplementation
    <2>6. RowsKept
        BY <2>3, <2>4, <2>5, UnchangedKeeps DEF RowsKept, KeptChainRows
    <2>. QED
        BY <2>2, <2>3, <2>4, <2>5, <2>6 DEF NewRowsGoverned
<1>2. ASSUME NEW i \in DOMAIN implementations, StartTest(i)
      PROVE  UNCHANGED analyses /\ RowsKept /\ NewRowsGoverned
    <2>. DEFINE row == [action |-> implementations[i].chain.action, implementation |-> i,
                        status |-> "running", completed_at |-> 0,
                        workflow_status |-> "current"]
    <2>1. row \in Test
        <3>1. i \in Nat
            BY LenProperties DEF TypeOK
        <3>2. implementations[i] \in Implementation
            BY Rows
        <3>. QED
            BY <3>1, <3>2 DEF Test, Implementation, Chain, WorkflowStatus
    <2>2. /\ tests' = Append(tests, row)
          /\ row.implementation = i /\ row.action = implementations[i].chain.action
          /\ actions[row.action].analysis \in CurrentAnalyses
        BY <1>2, PermittedIsCurrent DEF StartTest, InForce
    <2>. HIDE DEF row
    <2>3. /\ KeptTests(tests, tests')
          /\ \A t \in DOMAIN tests' \ DOMAIN tests : tests'[t] = row
        <3>1. tests \in Seq(Test)
            BY DEF TypeOK
        <3>. HIDE DEF IInv
        <3>. QED
            BY <2>1, <2>2, <3>1, AppendKeeps DEF KeptTests, KeptStatus
    <2>4. UNCHANGED <<analyses, reviews, diagnoses, actions, implementations, retests,
                      fixes, outcomes, cases>>
        BY <1>2 DEF StartTest
    <2>5. RowsKept
        BY <2>3, <2>4, UnchangedKeeps DEF RowsKept, KeptChainRows
    <2>. QED
        BY <2>2, <2>3, <2>4, <2>5 DEF NewRowsGoverned
<1>3. ASSUME NEW i \in DOMAIN implementations, RollbackPatch(i)
      PROVE  UNCHANGED analyses /\ RowsKept /\ NewRowsGoverned
    <2>1. cases \in Seq(Case) /\ implementations' = RolledBack(i)
              /\ cases' = WithPenalty(cases, i)
        BY <1>3 DEF RollbackPatch, TypeOK
    <2>2. /\ KeptImplementations(implementations, implementations')
          /\ DOMAIN implementations' = DOMAIN implementations
          /\ KeptCases(cases, cases')
          /\ \A c \in DOMAIN cases' \ DOMAIN cases :
                cases'[c].outcome = 0 /\ cases'[c].implementation = i
        BY <2>1, RollbackKeeps
    <2>3. UNCHANGED <<analyses, reviews, diagnoses, actions, tests, retests, fixes,
                      outcomes>>
        BY <1>3 DEF RollbackPatch
    <2>4. RowsKept
        BY <2>2, <2>3, UnchangedKeeps DEF RowsKept, KeptChainRows
    <2>. QED
        BY <2>2, <2>3, <2>4 DEF NewRowsGoverned
<1>. QED
    BY <1>1, <1>2, <1>3

\* Finishing a test and recording a retest, with the automatic rollback either may run.
LEMMA TestStep ==
    ASSUME IInv, NEW t \in DOMAIN tests, NEW restored \in BOOLEAN,
           \/ \E passed \in BOOLEAN : FinishTest(t, passed, restored)
           \/ \E result \in {"clean", "exposed", "incomparable"} :
                 RecordRetest(t, result, restored)
    PROVE  UNCHANGED analyses /\ RowsKept /\ NewRowsGoverned
<1>. USE DEF IInv
<1>. DEFINE i == tests[t].implementation
<1>i. /\ i \in DOMAIN implementations /\ i \in Nat /\ t \in Nat
      /\ implementations[i].chain.action \in DOMAIN actions
      /\ implementations[i].chain = ChainOf(implementations[i].chain.action)
    BY LenProperties, SMTT(30) DEF TypeOK, ExactChains
<1>roll. ASSUME \/ implementations' = implementations /\ cases' = cases
                \/ implementations' = RolledBack(i) /\ cases' = WithPenalty(cases, i)
         PROVE  /\ KeptImplementations(implementations, implementations')
                /\ DOMAIN implementations' = DOMAIN implementations
                /\ KeptCases(cases, cases')
                /\ \A c \in DOMAIN cases' \ DOMAIN cases :
                      cases'[c].outcome = 0 /\ cases'[c].implementation = i
    <2>1. cases \in Seq(Case)
        BY DEF TypeOK
    <2>. QED
        BY <1>i, <1>roll, <2>1, RollbackKeeps, UnchangedKeeps
<1>1. ASSUME NEW passed \in BOOLEAN, FinishTest(t, passed, restored)
      PROVE  UNCHANGED analyses /\ RowsKept /\ NewRowsGoverned
    <2>1. \/ implementations' = implementations /\ cases' = cases
          \/ implementations' = RolledBack(i) /\ cases' = WithPenalty(cases, i)
        BY <1>1 DEF FinishTest
    <2>2. KeptTests(tests, tests') /\ DOMAIN tests' = DOMAIN tests
        <3>1. tests' = [tests EXCEPT ![t].status = IF passed THEN "passed" ELSE "failed",
                                     ![t].completed_at = Cardinality(Finished) + 1]
            BY <1>1 DEF FinishTest
        <3>2. \A u \in DOMAIN tests : tests[u] \in Test
            BY Rows
        <3>. QED
            BY <3>1, <3>2 DEF KeptTests, KeptStatus, Test
    <2>3. UNCHANGED <<analyses, reviews, diagnoses, actions, retests, fixes, outcomes>>
        BY <1>1 DEF FinishTest
    <2>4. RowsKept
        BY <1>roll, <2>1, <2>2, <2>3, UnchangedKeeps DEF RowsKept, KeptChainRows
    <2>. QED
        BY <1>i, <1>roll, <2>1, <2>2, <2>3, <2>4 DEF NewRowsGoverned
<1>2. ASSUME NEW result \in {"clean", "exposed", "incomparable"},
             RecordRetest(t, result, restored)
      PROVE  UNCHANGED analyses /\ RowsKept /\ NewRowsGoverned
    <2>. DEFINE row == [chain |-> ChainOf(implementations[i].chain.action),
                        implementation |-> i, test |-> t, result |-> result,
                        workflow_status |-> "current"]
    <2>1. row \in Retest
        BY <1>i, ChainOfType DEF Retest, WorkflowStatus
    <2>2. /\ retests' = Append(retests, row)
          /\ row.implementation = i /\ row.test = t
          /\ row.chain = implementations[i].chain
          /\ row.chain.analysis \in CurrentAnalyses
        <3>1. actions[implementations[i].chain.action].analysis \in CurrentAnalyses
            BY <1>2, PermittedIsCurrent DEF RecordRetest, InForce
        <3>. QED
            BY <1>2, <1>i, <3>1 DEF RecordRetest, ChainOf
    <2>. HIDE DEF row
    <2>3. /\ KeptRetests(retests, retests')
          /\ \A k \in DOMAIN retests' \ DOMAIN retests : retests'[k] = row
        BY <2>1, <2>2, AppendKeeps, SMTT(30) DEF TypeOK, KeptRetests, KeptStatus
    <2>4. \/ implementations' = implementations /\ cases' = cases
          \/ implementations' = RolledBack(i) /\ cases' = WithPenalty(cases, i)
        BY <1>2 DEF RecordRetest
    <2>5. UNCHANGED <<analyses, reviews, diagnoses, actions, tests, fixes, outcomes>>
        BY <1>2 DEF RecordRetest
    <2>6. RowsKept
        BY <1>roll, <2>3, <2>4, <2>5, UnchangedKeeps DEF RowsKept, KeptChainRows
    <2>. QED
        BY <1>i, <1>roll, <2>2, <2>3, <2>4, <2>5, <2>6, SMTT(30) DEF NewRowsGoverned
<1>. QED
    BY <1>1, <1>2

\* Verifying a fix, which stores the verification, its outcome and its case.
LEMMA VerificationStep ==
    ASSUME IInv, NEW k \in DOMAIN retests, NEW restored \in BOOLEAN, VerifyFix(k, restored)
    PROVE  UNCHANGED analyses /\ RowsKept /\ NewRowsGoverned
<1>. USE DEF IInv
<1>. DEFINE chain == retests[k].chain
            i == retests[k].implementation
            status == VerificationStatus(k)
            fix == [chain |-> chain, implementation |-> i, test |-> retests[k].test,
                    retest |-> k, status |-> status, workflow_status |-> "current"]
            outcome == [chain |-> chain, implementation |-> i, test |-> retests[k].test,
                        retest |-> k, fix |-> Len(fixes) + 1, result |-> status,
                        eligible |-> Eligible(k), workflow_status |-> "current"]
            case == [outcome |-> Len(outcomes) + 1, implementation |-> i,
                     result |-> status, eligible |-> Eligible(k),
                     workflow_status |-> "current"]
            learned == Append(cases, case)
<1>1. /\ i \in DOMAIN implementations /\ i \in Nat /\ k \in Nat
      /\ chain \in Chain /\ retests[k].test \in Nat
      /\ Len(fixes) \in Nat /\ Len(outcomes) \in Nat
    <2>1. retests[k] \in Retest
        BY Rows
    <2>2. /\ retests \in Seq(Retest) /\ implementations \in Seq(Implementation)
          /\ fixes \in Seq(FixVerification) /\ outcomes \in Seq(Outcome)
        BY DEF TypeOK
    <2>3. i \in DOMAIN implementations
        BY RetestRefs
    <2>4. k \in Nat /\ i \in Nat /\ Len(fixes) \in Nat /\ Len(outcomes) \in Nat
        BY <2>2, <2>3, LenProperties
    <2>. QED
        BY <2>1, <2>3, <2>4 DEF Retest
<1>2. status \in {"passed", "failed"} /\ Eligible(k) \in BOOLEAN
    BY DEF VerificationStatus, Eligible
<1>3. fix \in FixVerification /\ outcome \in Outcome /\ case \in Case
    BY <1>1, <1>2 DEF FixVerification, Outcome, Case, WorkflowStatus
<1>4. chain.analysis \in CurrentAnalyses
    <2>1. PICK m : PermitsAction(m) /\ chain = ChainOf(m)
        BY DEF VerifyFix, Verifiable
    <2>. QED
        BY <2>1, PermittedIsCurrent DEF ChainOf
<1>5. fixes' = Append(fixes, fix) /\ outcomes' = Append(outcomes, outcome)
    BY DEF VerifyFix
<1>6. \/ implementations' = implementations /\ cases' = learned
      \/ implementations' = RolledBack(i) /\ cases' = WithPenalty(learned, i)
    BY DEF VerifyFix
<1>7. /\ fix.retest = k /\ fix.chain = chain
      /\ fix.implementation = i /\ fix.test = retests[k].test
      /\ outcome.fix = Len(fixes) + 1 /\ outcome.chain = chain
      /\ outcome.implementation = i /\ RepeatsFix(outcome, fix)
      /\ case.outcome = Len(outcomes) + 1 /\ case.implementation = i
    BY DEF RepeatsFix
<1>. HIDE DEF fix, outcome, case
<1>8. /\ KeptFixes(fixes, fixes')
      /\ \A f \in DOMAIN fixes' \ DOMAIN fixes : fixes'[f] = fix
      /\ Len(fixes) + 1 \in DOMAIN fixes' /\ fixes'[Len(fixes) + 1] = fix
    BY <1>3, <1>5, AppendKeeps, SMTT(30) DEF TypeOK, KeptFixes, KeptStatus
<1>9. /\ KeptOutcomes(outcomes, outcomes')
      /\ \A o \in DOMAIN outcomes' \ DOMAIN outcomes : outcomes'[o] = outcome
      /\ Len(outcomes) + 1 \in DOMAIN outcomes' /\ outcomes'[Len(outcomes) + 1] = outcome
    BY <1>3, <1>5, AppendKeeps, SMTT(30) DEF TypeOK, KeptOutcomes, KeptStatus
<1>10. /\ learned \in Seq(Case) /\ KeptCases(cases, learned)
       /\ \A c \in DOMAIN learned \ DOMAIN cases : learned[c] = case
    BY <1>3, AppendKeeps DEF TypeOK, KeptCases, KeptStatus
<1>. HIDE DEF learned
<1>11. /\ KeptImplementations(implementations, implementations')
       /\ DOMAIN implementations' = DOMAIN implementations
       /\ KeptCases(learned, cases')
       /\ \A c \in DOMAIN cases' \ DOMAIN learned :
             cases'[c].outcome = 0 /\ cases'[c].implementation = i
    BY <1>1, <1>6, <1>10, RollbackKeeps
    DEF KeptImplementations, KeptCases, KeptStatus
<1>12. KeptCases(cases, cases')
    BY <1>10, <1>11 DEF KeptCases, KeptStatus
<1>13. \A c \in DOMAIN cases' \ DOMAIN cases :
           cases'[c].outcome \in {0, Len(outcomes) + 1} /\ cases'[c].implementation = i
    BY <1>7, <1>10, <1>11 DEF KeptCases
<1>14. UNCHANGED <<analyses, reviews, diagnoses, actions, tests, retests>>
    BY DEF VerifyFix
<1>15. RowsKept
    BY <1>8, <1>9, <1>11, <1>12, <1>14, UnchangedKeeps DEF RowsKept, KeptChainRows
<1>16. /\ \A f \in DOMAIN fixes' \ DOMAIN fixes :
             /\ fixes'[f].retest = k /\ fixes'[f].chain = retests[k].chain
             /\ fixes'[f].test = retests[k].test /\ fixes'[f].implementation = i
             /\ fixes'[f].chain.analysis \in CurrentAnalyses
       /\ \A o \in DOMAIN outcomes' \ DOMAIN outcomes :
             /\ outcomes'[o].fix \in DOMAIN fixes'
             /\ RepeatsFix(outcomes'[o], fixes'[outcomes'[o].fix])
             /\ outcomes'[o].chain.analysis \in CurrentAnalyses
    BY <1>4, <1>7, <1>8, <1>9
<1>17. \A c \in DOMAIN cases' \ DOMAIN cases :
           /\ cases'[c].implementation \in DOMAIN implementations
           /\ cases'[c].outcome # 0 =>
                 /\ cases'[c].outcome \in DOMAIN outcomes'
                 /\ cases'[c].implementation = outcomes'[cases'[c].outcome].implementation
                 /\ outcomes'[cases'[c].outcome].chain.analysis \in CurrentAnalyses
    BY <1>1, <1>4, <1>7, <1>9, <1>13
<1>. QED
    BY <1>1, <1>11, <1>14, <1>15, <1>16, <1>17 DEF NewRowsGoverned

-----------------------------------------------------------------------------
(* The theorems *)

\* Every step keeps the invariant and the rows it finds.
LEMMA InvariantStep ==
    ASSUME IInv, [Next]_vars
    PROVE  IInv' /\ RowsKept
<1>type. TypeOK'
    BY TypeStep DEF IInv
<1>1. ASSUME MarkStale PROVE IInv' /\ RowsKept
    <2>1. KeptAnalyses(analyses, analyses')
        BY <1>1, SupersededKeeps DEF MarkStale, IInv
    <2>. QED
        BY <1>1, <1>type, <2>1, CascadeStep DEF MarkStale
<1>2. ASSUME NEW force \in BOOLEAN, Analyse(force) PROVE IInv' /\ RowsKept
    <2>. DEFINE rest == Superseded(CurrentAnalyses)
                row == [events |-> events, findings |-> findings, current |-> TRUE]
    <2>1. row \in Analysis
        BY DEF IInv, TypeOK, Analysis
    <2>2. rest \in Seq(Analysis) /\ KeptAnalyses(analyses, rest)
              /\ DOMAIN rest = DOMAIN analyses
        BY SupersededType, SupersededKeeps DEF IInv
    <2>3. analyses' = Append(rest, row)
        BY <1>2 DEF Analyse
    <2>. HIDE DEF rest, row
    <2>4. KeptAnalyses(analyses, analyses')
        BY <2>1, <2>2, <2>3, AppendKeeps DEF KeptAnalyses
    <2>. QED
        BY <1>2, <1>type, <2>4, CascadeStep DEF Analyse
<1>3. ASSUME UNCHANGED analyses /\ RowsKept /\ NewRowsGoverned PROVE IInv' /\ RowsKept
    BY <1>3, <1>type, GovernedStep
<1>4. ASSUME UNCHANGED <<analyses, reviews, chainRows>> PROVE IInv' /\ RowsKept
    <2>1. RowsKept
        BY <1>4, UnchangedKeeps DEF RowsKept, KeptChainRows, chainRows
    <2>2. NewRowsGoverned
        BY <1>4 DEF NewRowsGoverned, chainRows
    <2>. QED
        BY <1>3, <1>4, <2>1, <2>2
<1>5. CASE \/ \E x \in Alerts : LinkAlert(x)
           \/ \E x \in Records : LinkRecord(x)
           \/ \E f \in Files : ParseEvidence(f) \/ DetectEvidence(f)
    BY <1>1, <1>4, <1>5 DEF LinkAlert, LinkRecord, ParseEvidence, DetectEvidence
<1>6. CASE \E force \in BOOLEAN : Analyse(force)
    BY <1>2, <1>6
<1>7. CASE \E decision \in ReviewDecisions : SubmitReview(decision)
    BY <1>3, <1>7, ReviewStep
<1>8. CASE GenerateDiagnosis
    BY <1>3, <1>8, DiagnosisStep
<1>9. CASE \/ \E d \in DOMAIN diagnoses :
                 \/ AcceptDiagnosis(d)
                 \/ \E status \in {"rejected", "more_evidence_requested"} :
                       DeclineDiagnosis(d, status)
           \/ \E status \in StatusInputs :
                 \/ CreateAction(status)
                 \/ \E m \in DOMAIN actions : UpdateAction(m, status)
    BY <1>3, <1>9, ActionStep
<1>10. CASE \/ \E m \in DOMAIN actions, mode \in ModeInputs, change \in Changes :
                  RecordImplementation(m, mode, change)
            \/ \E j \in DOMAIN implementations : StartTest(j) \/ RollbackPatch(j)
    BY <1>3, <1>10, ImplementationStep
<1>11. CASE \E t \in DOMAIN tests, restored \in BOOLEAN :
                \/ \E passed \in BOOLEAN : FinishTest(t, passed, restored)
                \/ \E result \in {"clean", "exposed", "incomparable"} :
                      RecordRetest(t, result, restored)
    BY <1>3, <1>11, TestStep
<1>12. CASE \E k \in DOMAIN retests, restored \in BOOLEAN : VerifyFix(k, restored)
    BY <1>3, <1>12, VerificationStep
<1>13. CASE UNCHANGED vars
    BY <1>4, <1>13 DEF vars
<1>. QED
    BY <1>5, <1>6, <1>7, <1>8, <1>9, <1>10, <1>11, <1>12, <1>13 DEF Next

\* The empty database satisfies the invariant.
LEMMA InvariantInit == Init => IInv
BY DEF Init, IInv, TypeOK, IncidentStatus, ExactChains, NoCurrentUnderStale

\* The invariant holds for every set of evidence and every bound on the tables.
THEOREM Invariance == Spec => []IInv
<1>1. IInv /\ [Next]_vars => IInv'
    BY InvariantStep
<1>. QED
    BY InvariantInit, <1>1, PTL DEF Spec

\* Every table keeps its row type and the incident a known status, whatever the
\* handlers of the governed chain do.
THEOREM TypeCorrect == Spec => []TypeOK
<1>1. IInv => TypeOK
    BY DEF IInv
<1>. QED
    BY Invariance, <1>1, PTL

\* No stage of the chain is ever bound to rows of another chain: each reference leads
\* to a row, and each descendant of an action carries that action's own chain.
THEOREM ChainsExact == Spec => []ExactChains
<1>1. IInv => ExactChains
    BY DEF IInv
<1>. QED
    BY Invariance, <1>1, PTL

\* mark_stale and create_analysis_record reach every descendant: nothing below a stale
\* analysis stays current, valid for progression or eligible for ranking.
THEOREM StaleCascade == Spec => []NoCurrentUnderStale
<1>1. IInv => NoCurrentUnderStale
    BY DEF IInv
<1>. QED
    BY Invariance, <1>1, PTL

\* Every row is for ever what it was when a human saw it: what a row refers to and
\* what it recorded never change, and no handler deletes it or revives it once it was
\* stale, superseded, closed for progression, withdrawn from ranking or rolled back.
THEOREM RetiredForGood == Spec => NeverRevived
<1>1. ASSUME NEW S, NEW old \in Seq(S), NEW new \in Seq(S), NEW bound, KeptStatus(old, new),
             \A n \in DOMAIN old : \A field \in bound : new[n][field] = old[n][field]
      PROVE  Kept(old, new, bound)
    <2>1. /\ DOMAIN old = 1..Len(old) /\ Len(old) \in Nat
          /\ DOMAIN new = 1..Len(new) /\ Len(new) \in Nat
        BY LenProperties
    <2>2. Len(old) = 0 \/ Len(old) \in DOMAIN old
        BY <2>1
    <2>3. Len(new) >= Len(old)
        BY <1>1, <2>1, <2>2 DEF KeptStatus
    <2>. QED
        BY <1>1, <2>3 DEF Kept, KeptStatus
<1>2. ASSUME IInv, IInv', RowsKept PROVE RowsStand
    <2>0. /\ diagnoses \in Seq(Diagnosis) /\ diagnoses' \in Seq(Diagnosis)
          /\ actions \in Seq(Action) /\ actions' \in Seq(Action)
          /\ implementations \in Seq(Implementation) /\ implementations' \in Seq(Implementation)
          /\ tests \in Seq(Test) /\ tests' \in Seq(Test)
          /\ retests \in Seq(Retest) /\ retests' \in Seq(Retest)
          /\ fixes \in Seq(FixVerification) /\ fixes' \in Seq(FixVerification)
          /\ outcomes \in Seq(Outcome) /\ outcomes' \in Seq(Outcome)
          /\ cases \in Seq(Case) /\ cases' \in Seq(Case)
        BY <1>2 DEF IInv, TypeOK
    <2>1. Kept(diagnoses, diagnoses', {"analysis", "review"})
        BY <1>1, <1>2, <2>0 DEF RowsKept, KeptChainRows, KeptDiagnoses
    <2>2. Kept(actions, actions', {"diagnosis", "analysis", "review"})
        BY <1>1, <1>2, <2>0 DEF RowsKept, KeptChainRows, KeptActions
    <2>3. Kept(implementations, implementations', {"chain", "mode", "change"})
        BY <1>1, <1>2, <2>0 DEF RowsKept, KeptChainRows, KeptImplementations
    <2>4. Kept(tests, tests', {"action", "implementation"})
        BY <1>1, <1>2, <2>0 DEF RowsKept, KeptChainRows, KeptTests
    <2>5. Kept(retests, retests', {"chain", "implementation", "test", "result"})
        BY <1>1, <1>2, <2>0 DEF RowsKept, KeptChainRows, KeptRetests
    <2>6. Kept(fixes, fixes', {"chain", "implementation", "test", "retest", "status"})
        BY <1>1, <1>2, <2>0 DEF RowsKept, KeptChainRows, KeptFixes
    <2>7. Kept(outcomes, outcomes',
               {"chain", "implementation", "test", "retest", "fix", "result"})
        BY <1>1, <1>2, <2>0 DEF RowsKept, KeptChainRows, KeptOutcomes
    <2>8. Kept(cases, cases', {"outcome", "implementation", "result"})
        BY <1>1, <1>2, <2>0 DEF RowsKept, KeptChainRows, KeptCases
    <2>9. /\ KeptAnalyses(analyses, analyses') /\ KeptReviews(reviews, reviews')
          /\ \A o \in DOMAIN outcomes : outcomes'[o].eligible => outcomes[o].eligible
          /\ \A c \in DOMAIN cases : cases'[c].eligible => cases[c].eligible
          /\ \A i \in DOMAIN implementations :
                implementations[i].status = "rolled_back" =>
                    implementations'[i].status = "rolled_back"
        BY <1>2 DEF RowsKept, KeptChainRows, KeptImplementations, KeptOutcomes, KeptCases
    <2>. QED
        BY <2>1, <2>2, <2>3, <2>4, <2>5, <2>6, <2>7, <2>8, <2>9
        DEF RowsStand, KeptAnalyses, KeptReviews
<1>3. IInv /\ IInv' /\ [Next]_vars => [RowsStand]_vars
    BY <1>2, InvariantStep
<1>. QED
    BY Invariance, <1>3, PTL DEF Spec, NeverRevived
=============================================================================
