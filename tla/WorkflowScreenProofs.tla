------------------------ MODULE WorkflowScreenProofs ------------------------
(***************************************************************************)
(* What the application reports about the chain is true of the chain, and  *)
(* its reports tell one story.                                             *)
(*                                                                         *)
(* A final report is ready only on one exact, proven chain, and the screen *)
(* offers it when the readiness check grants it and leads there stage by   *)
(* stage.  The facts are found by queries that know nothing of each other; *)
(* that their results fit together follows from the lineage of the rows    *)
(* (GovernedChainLineage) and from what Verdicts says.                     *)
(*                                                                         *)
(* The screen, the remediation panel, the readiness check and the status   *)
(* of the incident all look at the branch of one diagnosis.  That they     *)
(* agree rests on what such a branch is while its diagnosis is current     *)
(* (BranchInv): it is whole, every step of it was taken once, its          *)
(* verifications are ordered as the permissions they were made under, and  *)
(* the incident's status is the verdict of the last of them.               *)
(***************************************************************************)
EXTENDS WorkflowScreen, GovernedChainLineage


-----------------------------------------------------------------------------
(* What verifications and outcomes say *)

\* A verification names the rows its retest names; an outcome that is current and passed
\* has kept its eligibility.
Verdicts ==
    /\ \A f \in DOMAIN fixes :
          /\ fixes[f].implementation = retests[fixes[f].retest].implementation
          /\ fixes[f].test = retests[fixes[f].retest].test
    /\ \A o \in DOMAIN outcomes :
          outcomes[o].workflow_status = "current" /\ outcomes[o].result = "passed"
              => outcomes[o].eligible

\* What a step leaves of both tables.
VerdictsKept ==
    /\ \A f \in DOMAIN fixes :
          /\ fixes'[f].implementation = fixes[f].implementation
          /\ fixes'[f].test = fixes[f].test
    /\ \A o \in DOMAIN outcomes :
          /\ outcomes'[o].result = outcomes[o].result
          /\ outcomes'[o].workflow_status = "current" =>
                /\ outcomes[o].workflow_status = "current"
                /\ outcomes'[o].eligible = outcomes[o].eligible

\* What a step may add to them.
VerdictsAdded ==
    /\ \A f \in DOMAIN fixes' \ DOMAIN fixes :
          /\ fixes'[f].retest \in DOMAIN retests
          /\ fixes'[f].implementation = retests[fixes'[f].retest].implementation
          /\ fixes'[f].test = retests[fixes'[f].retest].test
    /\ \A o \in DOMAIN outcomes' \ DOMAIN outcomes :
          outcomes'[o].result = "passed" => outcomes'[o].eligible

\* Retiring verifications and outcomes keeps what they say.
LEMMA RetiredVerdicts ==
    ASSUME TypeOK, NEW gone, NEW left, NEW status \in {"stale", "superseded"},
           fixes' = Retire(fixes, gone, status),
           outcomes' = RetireLearning(outcomes, left, status)
    PROVE  VerdictsKept /\ VerdictsAdded
<1>1. \A f \in DOMAIN fixes : /\ fixes'[f].implementation = fixes[f].implementation
                              /\ fixes'[f].test = fixes[f].test
    BY Rows DEF Retire, FixVerification
<1>2. \A o \in DOMAIN outcomes :
          /\ outcomes'[o].result = outcomes[o].result
          /\ outcomes'[o].workflow_status = "current" =>
                /\ outcomes[o].workflow_status = "current"
                /\ outcomes'[o].eligible = outcomes[o].eligible
    BY Rows DEF RetireLearning, Outcome
<1>3. DOMAIN fixes' = DOMAIN fixes /\ DOMAIN outcomes' = DOMAIN outcomes
    BY DEF Retire, RetireLearning
<1>. QED
    BY <1>1, <1>2, <1>3 DEF VerdictsKept, VerdictsAdded

\* A verification that passes makes its outcome eligible: the gate has seen the accepted
\* diagnosis and the passed test.
LEMMA VerificationVerdicts ==
    ASSUME IInv, Lineage, NEW k \in DOMAIN retests, NEW restored \in BOOLEAN,
           VerifyFix(k, restored)
    PROVE  VerdictsKept /\ VerdictsAdded
<1>1. PICK fix, outcome :
          /\ fix = [chain |-> retests[k].chain, implementation |-> retests[k].implementation,
                    test |-> retests[k].test, retest |-> k,
                    status |-> VerificationStatus(k), workflow_status |-> "current"]
          /\ outcome = [chain |-> retests[k].chain,
                        implementation |-> retests[k].implementation,
                        test |-> retests[k].test, retest |-> k, fix |-> Len(fixes) + 1,
                        result |-> VerificationStatus(k), eligible |-> Eligible(k),
                        workflow_status |-> "current"]
    OBVIOUS
<1>2. fixes' = Append(fixes, fix) /\ outcomes' = Append(outcomes, outcome)
    BY <1>1 DEF VerifyFix
<1>3. /\ retests \in Seq(Retest) /\ fixes \in Seq(FixVerification)
      /\ outcomes \in Seq(Outcome) /\ retests[k] \in Retest
      /\ implementations \in Seq(Implementation)
      /\ retests[k].implementation \in DOMAIN implementations
    BY Rows DEF IInv, TypeOK, ExactChains
<1>4. fix \in FixVerification /\ outcome \in Outcome
    <2>1. /\ k \in Nat /\ retests[k].implementation \in Nat /\ Len(fixes) \in Nat
          /\ retests[k].chain \in Chain /\ retests[k].test \in Nat
        BY <1>3, LenProperties DEF Retest
    <2>2. VerificationStatus(k) \in {"passed", "failed"} /\ Eligible(k) \in BOOLEAN
        BY DEF VerificationStatus, Eligible
    <2>. QED
        BY <1>1, <2>1, <2>2 DEF FixVerification, Outcome, WorkflowStatus
<1>5. /\ fix.retest = k /\ fix.implementation = retests[k].implementation
      /\ fix.test = retests[k].test
      /\ outcome.result = VerificationStatus(k) /\ outcome.eligible = Eligible(k)
    BY <1>1
<1>6. outcome.result = "passed" => outcome.eligible
    BY <1>5, VerifiedRows DEF VerifyFix, Eligible
<1>7. /\ \A f \in DOMAIN fixes : fixes'[f] = fixes[f]
      /\ \A f \in DOMAIN fixes' \ DOMAIN fixes : fixes'[f] = fix
      /\ \A o \in DOMAIN outcomes : outcomes'[o] = outcomes[o]
      /\ \A o \in DOMAIN outcomes' \ DOMAIN outcomes : outcomes'[o] = outcome
    BY <1>2, <1>3, <1>4, AppendKeeps
<1>. QED
    BY <1>5, <1>6, <1>7 DEF VerdictsKept, VerdictsAdded

\* Every step keeps what was said, and adds nothing that is not so.
LEMMA VerdictRows ==
    ASSUME IInv, Lineage, [Next]_vars
    PROVE  VerdictsKept /\ VerdictsAdded
<1>1. CASE InvalidateDownstream(CurrentAnalyses)
    BY <1>1, RetiredVerdicts DEF InvalidateDownstream, IInv
<1>2. CASE GenerateDiagnosis
    <2>1. PICK old : SupersedeDiagnoses(old)
        BY <1>2 DEF GenerateDiagnosis
    <2>. QED
        BY <2>1, RetiredVerdicts DEF SupersedeDiagnoses, IInv
<1>3. CASE \E k \in DOMAIN retests, restored \in BOOLEAN : VerifyFix(k, restored)
    BY <1>3, VerificationVerdicts
<1>4. CASE UNCHANGED <<fixes, outcomes>>
    BY <1>4, SMTT(30) DEF VerdictsKept, VerdictsAdded
<1>5. \/ InvalidateDownstream(CurrentAnalyses) \/ GenerateDiagnosis
      \/ \E k \in DOMAIN retests, restored \in BOOLEAN : VerifyFix(k, restored)
      \/ UNCHANGED <<fixes, outcomes>>
    BY ZenonT(60) DEF Next, LinkAlert, LinkRecord, DetectEvidence, MarkStale, Analyse, ParseEvidence,
           SubmitReview, AcceptDiagnosis, DeclineDiagnosis, CreateAction, UpdateAction,
           RecordImplementation, StartTest, RollbackPatch, FinishTest, RecordRetest,
           chainRows, vars
<1>. QED
    BY <1>1, <1>2, <1>3, <1>4, <1>5

\* One step of Verdicts.
LEMMA VerdictsStep ==
    ASSUME LInv, Verdicts, RowsKept, FieldsKept, [Next]_vars
    PROVE  Verdicts'
<1>1. VerdictsKept /\ VerdictsAdded
    BY VerdictRows DEF LInv
<1>2. \A k \in DOMAIN retests : /\ retests'[k].implementation = retests[k].implementation
                                /\ retests'[k].test = retests[k].test
    BY DEF RowsKept, KeptChainRows, KeptRetests, FieldsKept, SameRetests
<1>3. \A f \in DOMAIN fixes : fixes'[f].retest = fixes[f].retest
                                  /\ fixes[f].retest \in DOMAIN retests
    BY DEF RowsKept, KeptChainRows, KeptFixes, LInv, IInv, ExactChains
<1>4. \A f \in DOMAIN fixes' :
          /\ fixes'[f].implementation = retests'[fixes'[f].retest].implementation
          /\ fixes'[f].test = retests'[fixes'[f].retest].test
    BY <1>1, <1>2, <1>3 DEF Verdicts, VerdictsKept, VerdictsAdded
<1>5. \A o \in DOMAIN outcomes' :
          outcomes'[o].workflow_status = "current" /\ outcomes'[o].result = "passed"
              => outcomes'[o].eligible
    BY <1>1 DEF Verdicts, VerdictsKept, VerdictsAdded
<1>. QED
    BY <1>4, <1>5 DEF Verdicts

\* Verdicts hold in every state the chain reaches.
LEMMA VerdictsInvariant == Spec => [](LInv /\ Verdicts)
<1>1. Init => LInv /\ Verdicts
    BY LInvInit DEF Init, Verdicts
<1>2. LInv /\ Verdicts /\ [Next]_vars => LInv' /\ Verdicts'
    BY LInvStep, VerdictsStep DEF Founded
<1>. QED
    BY <1>1, <1>2, PTL DEF Spec

-----------------------------------------------------------------------------
(* What the queries find *)

\* The newest of some rows of a table is one of them, if there is any.
LEMMA NewestOfRows ==
    ASSUME NEW S, NEW rows \in Seq(S), NEW ids, ids \subseteq DOMAIN rows
    PROVE  /\ Newest(ids) # 0 => Newest(ids) \in ids
           /\ ids # {} => Newest(ids) \in ids /\ \A n \in ids : n <= Newest(ids)
<1>1. DOMAIN rows = 1..Len(rows) /\ Len(rows) \in Nat
    BY LenProperties
<1>2. ids # {} => Newest(ids) \in ids /\ \A n \in ids : n <= Newest(ids)
    BY <1>1, NewestIsGreatest
<1>3. Newest(ids) # 0 => ids # {}
    BY DEF Newest
<1>. QED
    BY <1>2, <1>3

\* The action the facts report is a current one of the branch.
LEMMA FactsActionFound ==
    ASSUME TypeOK, NEW a, a = Newest(CurrentAnalyses),
           NEW r, r = Newest({q \in DOMAIN reviews : Permission(a, q)}),
           FactsAction # 0
    PROVE  FactsAction \in DOMAIN actions /\ ActionOn(FactsAction, a, r)
<1>1. PICK d : FactsAction = Newest({m \in DOMAIN actions :
                                 ActionOn(m, a, r) /\ actions[m].diagnosis = d})
    BY DEF FactsAction
<1>2. actions \in Seq(Action)
    BY DEF TypeOK
<1>. DEFINE ids == {m \in DOMAIN actions : ActionOn(m, a, r) /\ actions[m].diagnosis = d}
<1>3. ids \subseteq DOMAIN actions /\ Newest(ids) # 0 /\ FactsAction = Newest(ids)
    BY <1>1
<1>4. \A m \in ids : m \in DOMAIN actions /\ ActionOn(m, a, r)
    OBVIOUS
<1>. HIDE DEF ids
<1>5. FactsAction \in ids
    BY <1>2, <1>3, NewestOfRows
<1>. QED
    BY <1>4, <1>5

\* When the facts report an outcome, its references are the other facts, and the gate has
\* let all of them through.
LEMMA FactsFitTogether ==
    ASSUME LInv, NEW facts, facts = Facts, facts.outcome # 0
    PROVE  LET o == facts.outcome
           IN  /\ o \in DOMAIN outcomes /\ outcomes[o].workflow_status = "current"
               /\ outcomes[o].chain = [analysis |-> facts.analysis, review |-> facts.review,
                                       diagnosis |-> facts.diagnosis,
                                       action |-> facts.action]
               /\ outcomes[o].implementation = facts.implementation
               /\ outcomes[o].test = facts.test /\ outcomes[o].retest = facts.retest
               /\ Permission(facts.analysis, facts.review)
               /\ DiagnosisOn(facts.diagnosis, facts.analysis, facts.review)
               /\ ActionOn(facts.action, facts.analysis, facts.review)
               /\ implementations[facts.implementation].workflow_status = "current"
               /\ tests[facts.test].workflow_status = "current"
               /\ retests[facts.retest].workflow_status = "current"
<1>1. PICK a, r, d, m, i, t, k, o :
          /\ a = Newest(CurrentAnalyses)
          /\ r = Newest({q \in DOMAIN reviews : Permission(a, q)})
          /\ d = DiagnosisOf(a, r) /\ m = FactsAction /\ i = ImplementationOf(a, r, m)
          /\ t = TestOf(m, i) /\ k = RetestOf(i, t)
          /\ o = OutcomeOf([analysis |-> a, review |-> r, diagnosis |-> d, action |-> m],
                           i, t, k)
          /\ facts = [analysis |-> a, review |-> r, diagnosis |-> d, action |-> m,
                      implementation |-> i, test |-> t, retest |-> k, outcome |-> o]
    BY DEF Facts
<1>2. /\ reviews \in Seq(Review) /\ diagnoses \in Seq(Diagnosis) /\ actions \in Seq(Action)
      /\ implementations \in Seq(Implementation) /\ tests \in Seq(Test)
      /\ retests \in Seq(Retest) /\ outcomes \in Seq(Outcome) /\ TypeOK /\ IInv /\ Lineage
    BY DEF LInv, IInv, TypeOK
<1>3. /\ facts.analysis = a /\ facts.review = r /\ facts.diagnosis = d
      /\ facts.action = m /\ facts.implementation = i /\ facts.test = t
      /\ facts.retest = k /\ facts.outcome = o /\ o # 0
    BY <1>1
<1>4. /\ o \in DOMAIN outcomes /\ outcomes[o].workflow_status = "current"
      /\ outcomes[o].chain = [analysis |-> a, review |-> r, diagnosis |-> d, action |-> m]
      /\ outcomes[o].implementation = i /\ outcomes[o].test = t /\ outcomes[o].retest = k
    <2>. DEFINE ids == {n \in DOMAIN outcomes :
                  /\ outcomes[n].chain =
                        [analysis |-> a, review |-> r, diagnosis |-> d, action |-> m]
                  /\ outcomes[n].implementation = i /\ outcomes[n].test = t
                  /\ outcomes[n].retest = k /\ outcomes[n].workflow_status = "current"}
    <2>1. o = Newest(ids) /\ ids \subseteq DOMAIN outcomes
        BY <1>1 DEF OutcomeOf
    <2>2. o \in ids
        <3>. HIDE DEF ids
        <3>. QED
            BY <1>2, <1>3, <2>1, NewestOfRows
    <2>. QED
        BY <2>2
<1>5. /\ r \in DOMAIN reviews /\ d \in DOMAIN diagnoses /\ m \in DOMAIN actions
      /\ i \in DOMAIN implementations /\ t \in DOMAIN tests /\ k \in DOMAIN retests
    <2>1. /\ outcomes[o].chain.diagnosis = d /\ outcomes[o].chain.action = m
          /\ outcomes[o].chain.review = r
        BY <1>4
    <2>2. /\ d \in DOMAIN diagnoses /\ m \in DOMAIN actions
          /\ i \in DOMAIN implementations /\ t \in DOMAIN tests /\ k \in DOMAIN retests
          /\ ApprovedBy(outcomes[o].chain.analysis, r)
        BY <1>2, <1>4, <2>1, OutcomeRefs
    <2>. QED
        BY <2>2 DEF ApprovedBy
<1>6. r # 0 /\ d # 0 /\ m # 0 /\ i # 0 /\ t # 0 /\ k # 0
    BY <1>2, <1>5, LenProperties
<1>7. Permission(a, r)
    <2>. DEFINE ids == {q \in DOMAIN reviews : Permission(a, q)}
    <2>1. r = Newest(ids) /\ ids \subseteq DOMAIN reviews
        BY <1>1
    <2>2. r \in ids
        <3>. HIDE DEF ids
        <3>. QED
            BY <1>2, <1>6, <2>1, NewestOfRows
    <2>. QED
        BY <2>2
<1>8. DiagnosisOn(d, a, r)
    <2>. DEFINE branch == {e \in DOMAIN diagnoses : DiagnosisOn(e, a, r)}
                ids == IF {e \in branch : diagnoses[e].status = "accepted"} # {}
                       THEN {e \in branch : diagnoses[e].status = "accepted"} ELSE branch
    <2>1. d = Newest(ids) /\ ids \subseteq branch /\ branch \subseteq DOMAIN diagnoses
        BY <1>1 DEF DiagnosisOf
    <2>2. d \in branch
        <3>. HIDE DEF branch, ids
        <3>1. ids \subseteq DOMAIN diagnoses
            BY <2>1
        <3>. QED
            BY <1>2, <1>6, <2>1, <3>1, NewestOfRows
    <2>. QED
        BY <2>2
<1>9. ActionOn(m, a, r)
    BY <1>1, <1>2, <1>6, FactsActionFound
<1>10. implementations[i].workflow_status = "current"
    <2>. DEFINE ids == {j \in DOMAIN implementations :
                   /\ implementations[j].chain.action = m
                   /\ implementations[j].chain.analysis = a
                   /\ implementations[j].chain.review = r
                   /\ implementations[j].workflow_status = "current"}
    <2>1. i = Newest(ids) /\ ids \subseteq DOMAIN implementations
        BY <1>1 DEF ImplementationOf
    <2>2. i \in ids
        <3>. HIDE DEF ids
        <3>. QED
            BY <1>2, <1>6, <2>1, NewestOfRows
    <2>. QED
        BY <2>2, SMTT(30)
<1>11. tests[t].workflow_status = "current"
    <2>. DEFINE ids == {u \in DOMAIN tests :
                   /\ tests[u].action = m /\ tests[u].implementation = i
                   /\ tests[u].workflow_status = "current"}
    <2>1. t = Newest(ids) /\ ids \subseteq DOMAIN tests
        BY <1>1 DEF TestOf, TestsOf
    <2>2. t \in ids
        <3>. HIDE DEF ids
        <3>. QED
            BY <1>2, <1>6, <2>1, NewestOfRows
    <2>. QED
        BY <2>2
<1>12. retests[k].workflow_status = "current"
    <2>. DEFINE ids == {n \in DOMAIN retests :
                   /\ retests[n].implementation = i /\ retests[n].test = t
                   /\ retests[n].workflow_status = "current"}
    <2>1. k = Newest(ids) /\ ids \subseteq DOMAIN retests
        BY <1>1 DEF RetestOf
    <2>2. k \in ids
        <3>. HIDE DEF ids
        <3>. QED
            BY <1>2, <1>6, <2>1, NewestOfRows
    <2>. QED
        BY <2>2
<1>. QED
    BY <1>3, <1>4, <1>7, <1>8, <1>9, <1>10, <1>11, <1>12

\* An outcome the facts report as passed is the anchor of one exact chain, with the proof
\* a final report claims.
LEMMA AnchoredOutcome ==
    ASSUME LInv, Verdicts, NEW facts, facts = Facts, Verified(facts)
    PROVE  LET o == outcomes[facts.outcome]
           IN  /\ ExactFrom(facts.outcome)
               /\ fixes[o.fix].status = "passed"
               /\ o.implementation = facts.implementation
               /\ o.test = facts.test /\ o.retest = facts.retest
               /\ retests[o.retest].result = "clean"
               /\ tests[o.test].status = "passed"
               /\ diagnoses[o.chain.diagnosis].status = "accepted"
<1>1. PICK o, chain, f, k, t, i, m, d :
          /\ o = facts.outcome /\ chain = outcomes[o].chain /\ f = outcomes[o].fix
          /\ k = outcomes[o].retest /\ t = outcomes[o].test
          /\ i = outcomes[o].implementation /\ m = chain.action /\ d = chain.diagnosis
    OBVIOUS
<1>2. /\ o \in DOMAIN outcomes /\ outcomes[o].workflow_status = "current"
      /\ chain = [analysis |-> facts.analysis, review |-> facts.review,
                  diagnosis |-> facts.diagnosis, action |-> facts.action]
      /\ i = facts.implementation /\ t = facts.test /\ k = facts.retest
      /\ Permission(facts.analysis, facts.review)
      /\ DiagnosisOn(facts.diagnosis, facts.analysis, facts.review)
      /\ ActionOn(facts.action, facts.analysis, facts.review)
      /\ implementations[i].workflow_status = "current"
      /\ tests[t].workflow_status = "current" /\ retests[k].workflow_status = "current"
    BY <1>1, FactsFitTogether DEF Verified
<1>3. /\ chain.analysis = facts.analysis /\ chain.review = facts.review
      /\ d = facts.diagnosis /\ m = facts.action
    BY <1>1, <1>2
<1>4. /\ f \in DOMAIN fixes /\ fixes[f].chain = chain /\ fixes[f].retest = k
      /\ k \in DOMAIN retests /\ retests[k].chain = chain /\ retests[k].test = t
      /\ retests[k].implementation = i
      /\ t \in DOMAIN tests /\ tests[t].status = "passed" /\ tests[t].implementation = i
      /\ i \in DOMAIN implementations /\ implementations[i].chain = chain
      /\ actions[m].diagnosis = d /\ d # 0 /\ diagnoses[d].status = "accepted"
    <2>1. IInv /\ Lineage /\ o \in DOMAIN outcomes
        BY <1>2 DEF LInv
    <2>2. /\ outcomes[o].fix = f /\ outcomes[o].retest = k /\ outcomes[o].test = t
          /\ outcomes[o].implementation = i /\ outcomes[o].chain = chain
        BY <1>1
    <2>3. /\ f \in DOMAIN fixes /\ fixes[f].chain = chain /\ fixes[f].retest = k
          /\ k \in DOMAIN retests /\ retests[k].chain = chain /\ retests[k].test = t
          /\ retests[k].implementation = i
          /\ t \in DOMAIN tests /\ tests[t].status = "passed" /\ tests[t].implementation = i
          /\ i \in DOMAIN implementations /\ implementations[i].chain = chain
        BY <2>1, <2>2, OutcomeRefs
    <2>4. /\ actions[chain.action].diagnosis = chain.diagnosis /\ chain.diagnosis # 0
          /\ diagnoses[chain.diagnosis].status = "accepted"
        BY <2>1, <2>2, OutcomeRefs
    <2>. QED
        BY <1>1, <2>3, <2>4
<1>5. outcomes[o].eligible
    BY <1>1, <1>2 DEF Verified, Verdicts
<1>6. fixes[f].status = "passed" /\ fixes[f].workflow_status = "current"
    BY <1>1, <1>2, <1>5 DEF LInv, Standing
<1>7. retests[k].result = "clean"
    BY <1>4, <1>6 DEF LInv, Lineage
<1>8. tests[t].action = m
    BY <1>1, <1>4 DEF LInv, IInv, ExactChains
<1>9. fixes[f].implementation = i /\ fixes[f].test = t
    BY <1>4 DEF Verdicts
<1>10. ExactFrom(o)
    BY <1>1, <1>2, <1>3, <1>4, <1>6, <1>8, <1>9 DEF ExactFrom
<1>. QED
    BY <1>1, <1>2, <1>4, <1>6, <1>7, <1>10

-----------------------------------------------------------------------------
(* What the human review alone says *)

\* The latest review of the current analysis, and the only one the gate may accept.
LEMMA LatestReviewFound ==
    ASSUME LInv, NEW a, a = Newest(CurrentAnalyses), NEW r, r = LatestReview, r # 0
    PROVE  /\ r \in DOMAIN reviews /\ reviews[r].analysis = a /\ a \in CurrentAnalyses
           /\ Decision = reviews[r].decision /\ Decision \in AllDecisions
           /\ \A q \in DOMAIN reviews : reviews[q].analysis = a => q <= r
           /\ \A q : Permission(a, q) => q = r
<1>1. /\ reviews \in Seq(Review) /\ analyses \in Seq(Analysis) /\ TypeOK
      /\ \A q \in DOMAIN reviews : reviews[q].analysis \in DOMAIN analyses
    BY DEF LInv, IInv, TypeOK, ExactChains
<1>. DEFINE ids == {q \in DOMAIN reviews : reviews[q].analysis = a}
<1>2. r = Newest(ids) /\ ids \subseteq DOMAIN reviews
    BY DEF LatestReview
<1>3. r \in ids /\ \A q \in ids : q <= r
    <2>. HIDE DEF ids
    <2>1. r \in ids
        BY <1>1, <1>2, NewestOfRows
    <2>. QED
        BY <1>1, <1>2, <2>1, NewestOfRows
<1>4. r \in DOMAIN reviews /\ reviews[r].analysis = a /\ a \in DOMAIN analyses
    BY <1>1, <1>3
<1>5. a \in CurrentAnalyses
    <2>1. a # 0
        BY <1>1, <1>4, LenProperties
    <2>2. CurrentAnalyses \subseteq DOMAIN analyses
        BY DEF CurrentAnalyses
    <2>. QED
        BY <1>1, <2>1, <2>2, NewestOfRows
<1>6. \A q \in DOMAIN reviews : reviews[q].analysis = a => q <= r
    BY <1>3
<1>7. ASSUME NEW q, Permission(a, q) PROVE q = r
    <2>1. q \in DOMAIN reviews /\ q <= r /\ r <= q
        BY <1>4, <1>6, <1>7 DEF Permission
    <2>2. q \in Nat /\ r \in Nat
        BY <1>1, <1>4, <2>1, LenProperties
    <2>. QED
        BY <2>1, <2>2
<1>8. Decision = reviews[r].decision /\ Decision \in AllDecisions
    BY <1>1, <1>4, Rows DEF Decision, Review
<1>. QED
    BY <1>4, <1>5, <1>6, <1>7, <1>8

\* The facts report a review just when the latest one approves and is still valid.
LEMMA ReviewOfFacts ==
    ASSUME LInv, NEW facts, facts = Facts, LatestReview # 0
    PROVE  /\ facts.review # 0 <=> Approved /\ Valid
           /\ facts.analysis = Newest(CurrentAnalyses)
<1>1. PICK a, r : a = Newest(CurrentAnalyses) /\ r = LatestReview
    OBVIOUS
<1>2. facts.analysis = a /\ facts.review = Newest({q \in DOMAIN reviews : Permission(a, q)})
    BY <1>1 DEF Facts
<1>3. /\ r \in DOMAIN reviews /\ reviews[r].analysis = a /\ a \in CurrentAnalyses
      /\ Decision = reviews[r].decision
      /\ \A q \in DOMAIN reviews : reviews[q].analysis = a => q <= r
      /\ \A q : Permission(a, q) => q = r
    BY <1>1, LatestReviewFound
<1>4. Permission(a, r) <=> Approved /\ Valid
    BY <1>1, <1>3 DEF Permission, Approved, DecidedAs, Valid
<1>5. reviews \in Seq(Review) /\ r # 0
    BY <1>1 DEF LInv, IInv, TypeOK
<1>6. CASE Permission(a, r)
    <2>1. {q \in DOMAIN reviews : Permission(a, q)} = {r}
        BY <1>3, <1>6
    <2>2. facts.review = r
        BY <1>2, <2>1 DEF Newest
    <2>. QED
        BY <1>1, <1>2, <1>4, <1>5, <1>6, <2>2
<1>7. CASE ~ Permission(a, r)
    <2>1. {q \in DOMAIN reviews : Permission(a, q)} = {}
        BY <1>3, <1>7
    <2>2. facts.review = 0
        BY <1>2, <2>1 DEF Newest
    <2>. QED
        BY <1>1, <1>2, <1>4, <1>7, <2>2
<1>. QED
    BY <1>6, <1>7

\* A rejected false positive has no remediation chain to anchor on.
LEMMA FalsePositiveStands ==
    ASSUME LInv, NEW facts, facts = Facts, FalsePositiveChain
    PROVE  ReportChainStatus(facts) = "current_false_positive"
<1>1. /\ LatestReview # 0 /\ Decision = "rejected_false_positive" /\ Valid
      /\ ~ Approved
    BY DEF FalsePositiveChain, Valid, DecidedAs, Approved
<1>2. facts.review = 0 /\ CurrentAnalyses # {}
    BY <1>1, ReviewOfFacts, LatestReviewFound
<1>3. /\ reviews \in Seq(Review) /\ implementations \in Seq(Implementation)
      /\ retests \in Seq(Retest)
    BY DEF LInv, IInv, TypeOK
<1>4. 0 \notin DOMAIN reviews
    BY <1>3, LenProperties
<1>5. facts.outcome = 0
    BY <1>2, <1>4, FactsFitTogether DEF Permission
<1>6. facts.retest = 0
    <2>1. PICK a, m, i, t :
              /\ facts.implementation = i /\ i = ImplementationOf(a, 0, m)
              /\ facts.retest = RetestOf(i, t)
        BY <1>2 DEF Facts
    <2>2. i = 0
        <3>. DEFINE ids == {j \in DOMAIN implementations :
                               /\ implementations[j].chain.action = m
                               /\ implementations[j].chain.analysis = a
                               /\ implementations[j].chain.review = 0
                               /\ implementations[j].workflow_status = "current"}
        <3>1. i = Newest(ids)
            BY <2>1 DEF ImplementationOf
        <3>2. \A j \in DOMAIN implementations : implementations[j].chain.review # 0
            <4>1. \A j \in DOMAIN implementations :
                      /\ implementations[j].chain.action \in DOMAIN actions
                      /\ implementations[j].chain = ChainOf(implementations[j].chain.action)
                BY DEF LInv, IInv, ExactChains
            <4>2. \A n \in DOMAIN actions : actions[n].review # 0
                BY <1>4 DEF LInv, Lineage, ApprovedBy
            <4>3. \A n : ChainOf(n).review = actions[n].review
                BY DEF ChainOf
            <4>. QED
                BY <4>1, <4>2, <4>3
        <3>3. ids = {}
            BY <3>2
        <3>. QED
            BY <3>1, <3>3 DEF Newest
    <2>3. \A k \in DOMAIN retests : retests[k].implementation # 0
        BY <1>3, LenProperties DEF LInv, IInv, ExactChains
    <2>4. {k \in DOMAIN retests : /\ retests[k].implementation = 0 /\ retests[k].test = t
                                  /\ retests[k].workflow_status = "current"} = {}
        BY <2>3
    <2>. QED
        BY <2>1, <2>2, <2>4 DEF RetestOf, Newest
<1>7. ReportChainStatus(facts) = Unanchored
    BY <1>5, <1>6 DEF ReportChainStatus
<1>. QED
    BY <1>1, <1>2, <1>7 DEF Unanchored, DecidedAs

-----------------------------------------------------------------------------
(* The report and the screen *)

\* What the readiness check grants, the report's own chain confirms, and the chain is
\* proven from the acceptance to the verification.
LEMMA ReadyHolds ==
    ASSUME LInv, Verdicts
    PROVE  ReadyIsProven
<1>. SUFFICES ASSUME NEW facts, facts = Facts, ReportReady(facts)
              PROVE  /\ FinalReport(facts).ready
                     /\ Approved =>
                          /\ FinalReport(facts).disposition = "verified_remediation"
                          /\ LET o == outcomes[facts.outcome]
                             IN  /\ fixes[o.fix].status = "passed"
                                 /\ retests[o.retest].result = "clean"
                                 /\ tests[o.test].status = "passed"
                                 /\ implementations[o.implementation].status = "completed"
                                 /\ diagnoses[o.chain.diagnosis].status = "accepted"
    BY DEF ReadyIsProven
<1>1. CASE FalsePositiveChain
    <2>1. ReportChainStatus(facts) = "current_false_positive"
        BY <1>1, FalsePositiveStands
    <2>2. ~ Approved
        BY <1>1 DEF FalsePositiveChain, Approved, DecidedAs
    <2>. QED
        BY <1>1, <2>1, <2>2 DEF FinalReport, ReportReady
<1>2. CASE ~ FalsePositiveChain
    <2>1. Verified(facts) /\ ChangeInForce(facts) /\ facts.outcome # 0
        BY <1>2 DEF ReportReady, Verified
    <2>2. ExactFrom(facts.outcome)
        BY <2>1, AnchoredOutcome
    <2>3. ReportChainStatus(facts) = "current_complete"
        BY <2>1, <2>2 DEF ReportChainStatus
    <2>4. implementations[outcomes[facts.outcome].implementation].status = "completed"
        BY <2>1, AnchoredOutcome DEF ChangeInForce
    <2>. QED
        BY <2>1, <2>3, <2>4, AnchoredOutcome DEF FinalReport
<1>. QED
    BY <1>1, <1>2

\* The stages of the screen and the readiness check draw the same conclusion from the
\* facts, but for the plain rejection and the change rolled back after its verification.
LEMMA ScreenHolds ==
    ASSUME LInv, Verdicts
    PROVE  ScreenAgrees
<1>. SUFFICES ASSUME NEW facts, facts = Facts
              PROVE  ReportStageOpen(facts) <=>
                        \/ ReportReady(facts)
                        \/ Valid /\ DecidedAs({"rejected"})
                        \/ /\ Approved /\ RemediationComplete(facts) /\ Verified(facts)
                           /\ ~ ChangeInForce(facts)
    BY DEF ScreenAgrees
<1>1. CASE LatestReview = 0
    BY <1>1 DEF ReportStageOpen, ReportReady, FalsePositiveChain, Approved, Valid,
                DecidedAs, Decision
<1>2. CASE LatestReview # 0 /\ ~ Approved
    <2>1. Decision \in AllDecisions
        BY <1>2, LatestReviewFound
    <2>. QED
        BY <1>2, <2>1 DEF ReportStageOpen, ReportReady, FalsePositiveChain, Approved,
                          DecidedAs, AllDecisions
<1>3. CASE LatestReview # 0 /\ Approved
    <2>1. ~ DecidedAs({"rejected"}) /\ ~ FalsePositiveChain
              /\ ~ DecidedAs({"request_more_evidence", "inconclusive", "escalated"})
        BY <1>3 DEF Approved, DecidedAs, FalsePositiveChain
    <2>2. facts.review # 0 <=> Valid
        BY <1>3, ReviewOfFacts
    <2>3. ASSUME Verified(facts), ChangeInForce(facts)
          PROVE  TestPassed(facts) /\ Retested(facts)
        <3>1. facts.outcome # 0 /\ IInv /\ Lineage
            BY <2>3 DEF Verified, LInv
        <3>2. /\ facts.outcome \in DOMAIN outcomes
              /\ outcomes[facts.outcome].test = facts.test
              /\ outcomes[facts.outcome].retest = facts.retest
            BY <3>1, FactsFitTogether
        <3>3. tests[facts.test].status = "passed" /\ retests[facts.retest].result = "clean"
            BY <2>3, <3>2, AnchoredOutcome
        <3>4. facts.test \in DOMAIN tests /\ facts.retest \in DOMAIN retests
            BY <3>1, <3>2, OutcomeRefs
        <3>5. facts.test # 0 /\ facts.retest # 0
            <4>1. tests \in Seq(Test) /\ retests \in Seq(Retest)
                BY DEF LInv, IInv, TypeOK
            <4>. QED
                BY <3>4, <4>1, LenProperties
        <3>. QED
            BY <3>3, <3>5 DEF TestPassed, Retested, RetestFailed
    <2>4. Verified(facts) => Valid
        <3>1. ASSUME Verified(facts) PROVE facts.review # 0
            <4>1. Permission(facts.analysis, facts.review) /\ reviews \in Seq(Review)
                BY <3>1, FactsFitTogether DEF Verified, LInv, IInv, TypeOK
            <4>. QED
                BY <4>1, LenProperties DEF Permission
        <3>. QED
            BY <2>2, <3>1
    <2>. QED
        BY <1>3, <2>1, <2>2, <2>3, <2>4 DEF ReportStageOpen, ReportReady
<1>. QED
    BY <1>1, <1>2, <1>3

\* A remediated incident is ready for its final report only on one exact chain that is
\* proven and still in force; a rejected one only as a valid false positive.
THEOREM ReadyProven == Spec => []ReadyIsProven
<1>1. LInv /\ Verdicts => ReadyIsProven
    BY ReadyHolds
<1>. QED
    BY <1>1, VerdictsInvariant, PTL

\* The screen offers the final report just when the readiness check grants it, but for
\* the two cases the screen does not look into.
THEOREM ScreenTruthful == Spec => []ScreenAgrees
<1>1. LInv /\ Verdicts => ScreenAgrees
    BY ScreenHolds
<1>. QED
    BY <1>1, VerdictsInvariant, PTL

-----------------------------------------------------------------------------
(* The current stage and the next action *)

\* Some positions have a first one: the newest of their mirror images.
LEMMA FirstIsLeast ==
    ASSUME NEW n \in Nat, NEW S, S \subseteq 1 .. n, S # {}
    PROVE  First(S) \in S /\ \A m \in S : First(S) <= m
<1>. DEFINE mirror == {n + 1 - m : m \in S}
<1>1. mirror \subseteq 1 .. n /\ mirror # {}
    OBVIOUS
<1>2. PICK last \in mirror : \A m \in mirror : m <= last
    <2>. HIDE DEF mirror
    <2>. QED
        BY <1>1, NewestIsGreatest
<1>3. PICK x \in S : last = n + 1 - x
    BY <1>2
<1>4. ASSUME NEW m \in S PROVE x <= m
    <2>1. n + 1 - m \in mirror /\ m \in 1 .. n /\ x \in 1 .. n
        OBVIOUS
    <2>2. n + 1 - m <= n + 1 - x
        BY <1>2, <1>3, <2>1
    <2>. QED
        BY <2>1, <2>2
<1>5. \E m \in S : \A k \in S : m <= k
    BY <1>3, <1>4
<1>. QED
    BY <1>5, Zenon DEF First

\* The current stage is the first that is open and unfinished ...
LEMMA StageFirst ==
    ASSUME NEW s, NEW reported, NEW n \in 1 .. 6,
           Codes[n] \in Open(s) \ Completed(s, reported),
           \A m \in 1 .. n - 1 : Codes[m] \notin Open(s) \ Completed(s, reported)
    PROVE  CurrentStage(s, reported) = Codes[n]
<1>. DEFINE positions == {m \in DOMAIN Codes : Codes[m] \in Open(s) \ Completed(s, reported)}
<1>1. DOMAIN Codes = 1 .. 6
    BY DEF Codes
<1>2. n \in positions /\ positions \subseteq 1 .. 6 /\ \A m \in positions : n <= m
    BY <1>1
<1>3. First(positions) = n
    <2>. HIDE DEF positions
    <2>1. positions # {} /\ 6 \in Nat
        BY <1>2
    <2>2. First(positions) \in positions /\ \A m \in positions : First(positions) <= m
        BY <1>2, <2>1, FirstIsLeast
    <2>3. First(positions) \in 1 .. 6 /\ n \in 1 .. 6
        BY <1>2, <2>2
    <2>4. First(positions) <= n /\ n <= First(positions)
        BY <1>2, <2>2
    <2>. QED
        BY <2>3, <2>4
<1>. QED
    BY <1>2, <1>3 DEF CurrentStage

\* ... or the last, and none but these.
LEMMA StageUnfinished ==
    ASSUME NEW s, NEW reported
    PROVE  CurrentStage(s, reported) \in (Open(s) \ Completed(s, reported)) \cup {"final_report"}
<1>. DEFINE positions == {m \in DOMAIN Codes : Codes[m] \in Open(s) \ Completed(s, reported)}
<1>1. DOMAIN Codes = 1 .. 6
    BY DEF Codes
<1>2. CASE positions = {}
    BY <1>2 DEF CurrentStage
<1>3. CASE positions # {}
    <2>1. First(positions) \in positions
        <3>1. positions \subseteq 1 .. 6
            BY <1>1
        <3>. HIDE DEF positions
        <3>. QED
            BY <1>3, <3>1, FirstIsLeast
    <2>. QED
        BY <1>3, <2>1 DEF CurrentStage
<1>. QED
    BY <1>2, <1>3

\* The next action is the first offer that applies: what it leads to, and what then holds
\* of the situation.
LEMMA NextActionFirst ==
    ASSUME NEW s, NEW retestEvidence \in BOOLEAN, NEW reported \in BOOLEAN,
           NEW next, next = NextAction(s, retestEvidence, reported)
    PROVE
      \/ /\ ~ s.linked
         /\ next.code = "add_supporting_evidence" /\ next.stage = "root_cause"
      \/ /\ s.linked /\ ~ s.analysed
         /\ next.code = "run_root_cause" /\ next.stage = "root_cause"
      \/ /\ s.linked /\ s.analysed /\ ~ s.valid
         /\ next.code = "complete_human_review" /\ next.stage = "human_review"
      \/ /\ s.linked /\ s.analysed /\ s.valid
         /\ \/ /\ s.decision = "request_more_evidence"
               /\ next.code = "add_requested_evidence" /\ next.stage = "root_cause"
            \/ /\ s.decision \in EscalatedDecisions
               /\ next.code = "await_escalation_review" /\ next.stage = "human_review"
            \/ /\ s.decision \in Rejections /\ ~ reported
               /\ next.code = "review_incident_disposition" /\ next.stage = "final_report"
            \/ /\ s.decision = "approved" /\ ~ s.remediated
               /\ next.code \in {"update_remediation", "record_remediation"}
               /\ next.stage = "remediation"
            \/ /\ s.decision = "approved" /\ s.remediated
               /\ next.code = "add_retest_evidence" /\ next.stage = "fix_verification"
            \/ /\ s.decision = "approved" /\ s.remediated /\ s.failed
               /\ next.code = "update_remediation" /\ next.stage = "remediation"
            \/ /\ s.decision = "approved" /\ s.remediated /\ ~ s.verified
               /\ next.code = "run_fix_verification" /\ next.stage = "fix_verification"
            \/ /\ s.decision \notin {"request_more_evidence"} \cup EscalatedDecisions
               /\ s.decision = "approved" => s.remediated /\ ~ s.failed /\ s.verified
               /\ s.decision \in Rejections => reported
               /\ next.code = IF reported THEN "download_final_report"
                                          ELSE "generate_final_report"
               /\ next.stage = "final_report"
<1>. DEFINE approved == s.decision = "approved"
            offers ==
          << Offer(~ s.linked, "add_supporting_evidence", "root_cause"),
             Offer(~ s.analysed, "run_root_cause", "root_cause"),
             Offer(~ s.valid, "complete_human_review", "human_review"),
             Offer(s.decision = "request_more_evidence", "add_requested_evidence", "root_cause"),
             Offer(s.decision \in EscalatedDecisions, "await_escalation_review", "human_review"),
             Offer(s.decision \in Rejections /\ ~ reported, "review_incident_disposition",
                   "final_report"),
             Offer(approved /\ ~ s.remediated /\ s.acted, "update_remediation", "remediation"),
             Offer(approved /\ ~ s.remediated, "record_remediation", "remediation"),
             Offer(approved /\ ~ retestEvidence, "add_retest_evidence", "fix_verification"),
             Offer(approved /\ s.failed, "update_remediation", "remediation"),
             Offer(approved /\ ToVerify(s), "run_fix_verification", "fix_verification"),
             Offer(~ reported, "generate_final_report", "final_report"),
             Offer(TRUE, "download_final_report", "final_report") >>
            applies == {n \in DOMAIN offers : offers[n].when}
<1>1. NextAction(s, retestEvidence, reported) = offers[First(applies)]
    BY Zenon DEF NextAction
<1>2. DOMAIN offers = 1 .. 13
    OBVIOUS
<1>3. 13 \in applies
    BY DEF Offer
<1>4. PICK n : n = First(applies)
    <2>. HIDE DEF applies
    <2>. QED
        OBVIOUS
<1>5. n \in 1 .. 13 /\ offers[n].when /\ \A m \in 1 .. n - 1 : ~ offers[m].when
    <2>1. applies \subseteq 1 .. 13 /\ applies # {}
        BY <1>2, <1>3
    <2>2. n \in applies /\ \A m \in applies : n <= m
        <3>. HIDE DEF applies
        <3>. QED
            BY <1>4, <2>1, FirstIsLeast
    <2>. QED
        BY <1>2, <2>1, <2>2
<1>6. next = offers[n]
    <2>. HIDE DEF offers, applies
    <2>. QED
        BY <1>1, <1>4, Zenon
<1>7. /\ offers[1].when <=> ~ s.linked
      /\ offers[2].when <=> ~ s.analysed
      /\ offers[3].when <=> ~ s.valid
      /\ offers[4].when <=> s.decision = "request_more_evidence"
      /\ offers[5].when <=> s.decision \in EscalatedDecisions
      /\ offers[6].when <=> s.decision \in Rejections /\ ~ reported
      /\ offers[7].when <=> approved /\ ~ s.remediated /\ s.acted
      /\ offers[8].when <=> approved /\ ~ s.remediated
    BY DEF Offer
<1>8. /\ offers[9].when <=> approved /\ ~ retestEvidence
      /\ offers[10].when <=> approved /\ s.failed
      /\ offers[11].when <=> approved /\ ~ s.verified
      /\ offers[12].when <=> ~ reported
    BY DEF Offer, ToVerify
<1>. DEFINE Leads(m, code, stage) == offers[m].code = code /\ offers[m].stage = stage
<1>9. /\ Leads(1, "add_supporting_evidence", "root_cause")
      /\ Leads(2, "run_root_cause", "root_cause")
      /\ Leads(3, "complete_human_review", "human_review")
      /\ Leads(4, "add_requested_evidence", "root_cause")
      /\ Leads(5, "await_escalation_review", "human_review")
      /\ Leads(6, "review_incident_disposition", "final_report")
      /\ Leads(7, "update_remediation", "remediation")
      /\ Leads(8, "record_remediation", "remediation")
      /\ Leads(9, "add_retest_evidence", "fix_verification")
      /\ Leads(10, "update_remediation", "remediation")
      /\ Leads(11, "run_fix_verification", "fix_verification")
      /\ Leads(12, "generate_final_report", "final_report")
      /\ Leads(13, "download_final_report", "final_report")
    BY DEF Offer
<1>. HIDE DEF offers
<1>10. CASE n \in {1, 2, 3}
    BY <1>5, <1>6, <1>7, <1>9, <1>10
<1>11. CASE n \in {4, 5, 6}
    BY <1>5, <1>6, <1>7, <1>9, <1>11
<1>12. CASE n \in {7, 8, 9, 10, 11}
    BY <1>5, <1>6, <1>7, <1>8, <1>9, <1>12
<1>13. CASE n \in {12, 13}
    BY <1>5, <1>6, <1>7, <1>8, <1>9, <1>13
<1>. QED
    BY <1>5, <1>10, <1>11, <1>12, <1>13

-----------------------------------------------------------------------------
(* Where the next action leads *)

\* An incident with a current analysis has findings it was made from.
AnalysedOnFindings == CurrentAnalyses # {} => findings # {}

\* Every step keeps AnalysedOnFindings: an analysis reads the findings there are, and
\* none is lost while an analysis is current.
LEMMA AnalysedStep ==
    ASSUME TypeOK, AnalysedOnFindings, [Next]_vars
    PROVE  AnalysedOnFindings'
<1>1. CASE HeadStale
    <2>1. \A a \in DOMAIN Superseded(CurrentAnalyses) :
              ~ Superseded(CurrentAnalyses)[a].current
        BY Rows DEF Superseded, CurrentAnalyses, Analysis
    <2>. QED
        BY <1>1, <2>1 DEF HeadStale, AnalysedOnFindings, CurrentAnalyses
<1>2. CASE UNCHANGED <<analyses, findings>>
    BY <1>2 DEF AnalysedOnFindings, CurrentAnalyses
<1>3. CASE UNCHANGED findings /\ findings # {}
    BY <1>3 DEF AnalysedOnFindings
<1>. QED
    BY <1>1, <1>2, <1>3, SnapshotMoves

\* AnalysedOnFindings holds in every state the chain reaches.
LEMMA AnalysedInvariant == Spec => []AnalysedOnFindings
<1>1. Init => AnalysedOnFindings
    BY DEF Init, AnalysedOnFindings, CurrentAnalyses
<1>2. TypeOK /\ AnalysedOnFindings /\ [Next]_vars => AnalysedOnFindings'
    BY AnalysedStep
<1>. QED
    BY TypeCorrect, <1>1, <1>2, PTL DEF Spec

\* What the screen decides from, when its rows are the chain's: linked evidence under the
\* analysis, the analysis under a valid review, the permission of an approval.
Consistent(s) ==
    /\ s.analysed => s.linked
    /\ s.valid => s.analysed /\ s.decision \in AllDecisions
    /\ s.decision = "approved" => s.analysed
    /\ s.valid /\ s.decision = "approved" => s.permitted
    /\ s.failed => ~ s.verified
    /\ s.reportable <=>
          /\ s.valid
          /\ s.decision = "approved" => s.remediated /\ s.verified
          /\ s.decision \notin {"request_more_evidence", "inconclusive", "escalated"}

\* The situations the chain gives rise to are consistent, and reports are ready in those
\* that are reportable but for the exceptions of ScreenAgrees.
LEMMA SituationHolds ==
    ASSUME LInv, Verdicts, AnalysedOnFindings, NEW facts, facts = Facts,
           NEW linked \in {events \cup findings # {}, TRUE},
           NEW s, s = Situation(facts, linked)
    PROVE  /\ Consistent(s)
           /\ s.reportable => \/ ReportReady(facts) \/ s.decision = "rejected" \/ ~ s.inForce
           /\ ReportReady(facts) => s.reportable
<1>1. /\ s.linked <=> linked
      /\ s.analysed <=> CurrentAnalyses # {}
      /\ s.valid <=> Valid
      /\ s.decision = Decision
      /\ s.permitted <=> facts.review # 0
      /\ s.remediated <=> RemediationComplete(facts)
      /\ s.inForce <=> ChangeInForce(facts)
      /\ s.verified <=> Verified(facts)
      /\ s.failed <=> (facts.outcome # 0 /\ outcomes[facts.outcome].result = "failed")
      /\ s.reportable <=> ReportStageOpen(facts)
    BY DEF Situation
<1>2. s.analysed => s.linked
    BY <1>1 DEF AnalysedOnFindings
<1>3. s.valid => s.analysed /\ s.decision \in AllDecisions
    <2>1. ASSUME Valid PROVE CurrentAnalyses # {} /\ Decision \in AllDecisions
        BY <2>1, LatestReviewFound DEF Valid
    <2>. QED
        BY <1>1, <2>1
<1>4. s.decision = "approved" => s.analysed
    <2>1. ASSUME Decision = "approved" PROVE CurrentAnalyses # {}
        <3>1. LatestReview # 0
            BY <2>1 DEF Decision
        <3>. QED
            BY <3>1, LatestReviewFound
    <2>. QED
        BY <1>1, <2>1
<1>5. s.valid /\ s.decision = "approved" => s.permitted
    <2>1. Decision = "approved" => Approved
        BY DEF Approved, DecidedAs
    <2>2. Valid => LatestReview # 0
        BY DEF Valid
    <2>. QED
        BY <1>1, <2>1, <2>2, ReviewOfFacts
<1>6. s.failed => ~ s.verified
    BY <1>1 DEF Verified
<1>7. s.reportable <=>
          /\ s.valid
          /\ s.decision = "approved" => s.remediated /\ s.verified
          /\ s.decision \notin {"request_more_evidence", "inconclusive", "escalated"}
    BY <1>1 DEF ReportStageOpen, Approved, DecidedAs
<1>8. ReportStageOpen(facts) <=>
          \/ ReportReady(facts)
          \/ Valid /\ DecidedAs({"rejected"})
          \/ /\ Approved /\ RemediationComplete(facts) /\ Verified(facts)
             /\ ~ ChangeInForce(facts)
    BY ScreenHolds DEF ScreenAgrees
<1>9. /\ s.reportable => ReportReady(facts) \/ s.decision = "rejected" \/ ~ s.inForce
      /\ ReportReady(facts) => s.reportable
    BY <1>1, <1>8 DEF DecidedAs
<1>. QED
    BY <1>2, <1>3, <1>4, <1>5, <1>6, <1>7, <1>9 DEF Consistent

\* What is unfinished, of what is open, below a valid review.
LEMMA UnfinishedStages ==
    ASSUME NEW s, Consistent(s), NEW reported \in BOOLEAN, NEW current,
           current = CurrentStage(s, reported)
    PROVE  /\ ~ s.linked => current = "final_report"
           /\ s.linked /\ ~ s.analysed => current = "root_cause"
           /\ s.analysed /\ ~ s.valid => current = "human_review"
           /\ s.valid /\ s.decision # "approved" => current = "final_report"
           /\ s.valid /\ s.decision = "approved" /\ ~ s.remediated => current = "remediation"
           /\ s.valid /\ s.decision = "approved" /\ s.remediated =>
                 /\ current \in {"fix_verification", "final_report"}
                 /\ s.verified => current = "final_report"
<1>1. /\ Codes[1] = "overview" /\ Codes[2] = "root_cause" /\ Codes[3] = "human_review"
      /\ Codes[4] = "remediation"
    BY DEF Codes
<1>. DEFINE unfinished == Open(s) \ Completed(s, reported)
<1>2. /\ "overview" \notin unfinished
      /\ s.linked /\ ~ s.analysed => "root_cause" \in unfinished
      /\ s.analysed => "root_cause" \notin unfinished
      /\ s.analysed /\ ~ s.valid => "human_review" \in unfinished
      /\ s.valid => "human_review" \notin unfinished
    BY DEF Open, Completed, Consistent
<1>3. /\ s.valid /\ s.decision = "approved" /\ ~ s.remediated => "remediation" \in unfinished
      /\ s.decision = "approved" /\ s.remediated => "remediation" \notin unfinished
      /\ s.decision = "approved" /\ s.verified => "fix_verification" \notin unfinished
      /\ s.decision # "approved" =>
            "remediation" \notin unfinished /\ "fix_verification" \notin unfinished
    BY DEF Open, Completed, Consistent
<1>4. unfinished \subseteq {"overview", "root_cause", "human_review", "remediation",
                            "fix_verification", "final_report"}
    BY DEF Open
<1>5. current \in unfinished \cup {"final_report"}
    BY StageUnfinished
<1>6. \A n \in 1 .. 6 : /\ Codes[n] \in unfinished
                        /\ \A m \in 1 .. n - 1 : Codes[m] \notin unfinished
                        => current = Codes[n]
    BY StageFirst
<1>7. s.valid => s.analysed
    BY DEF Consistent
<1>. HIDE DEF unfinished
<1>8. s.linked /\ ~ s.analysed => current = "root_cause"
    BY <1>1, <1>2, <1>6
<1>9. s.analysed /\ ~ s.valid => current = "human_review"
    BY <1>1, <1>2, <1>6
<1>10. s.valid /\ s.decision = "approved" /\ ~ s.remediated => current = "remediation"
    BY <1>1, <1>2, <1>3, <1>6, <1>7
<1>11. ~ s.linked => current = "final_report"
    <2>1. ~ s.linked => unfinished \subseteq {"final_report"}
        BY <1>2, <1>3, <1>4 DEF Open, Consistent, unfinished
    <2>. QED
        BY <1>5, <2>1
<1>. QED
    BY <1>2, <1>3, <1>4, <1>5, <1>7, <1>8, <1>9, <1>10, <1>11

\* In a consistent situation the first offer that applies leads on.
LEMMA OfferLeads ==
    ASSUME NEW s, Consistent(s), NEW retestEvidence \in BOOLEAN, NEW reported \in BOOLEAN,
           NEW ready \in BOOLEAN, ready => s.reportable,
           s.reportable => ready \/ s.decision = "rejected" \/ ~ s.inForce,
           NEW next, next = NextAction(s, retestEvidence, reported)
    PROVE  /\ \/ next.stage \in Open(s)
              \/ next.code \in {"add_supporting_evidence", "add_retest_evidence",
                                "run_fix_verification"}
           /\ \/ CurrentStage(s, reported) \in {next.stage, "final_report"}
              \/ next.code = "update_remediation" /\ s.failed
           /\ ready => next.stage = "final_report" \/ next.code = "add_retest_evidence"
           /\ next.code \in {"generate_final_report", "download_final_report"} =>
                ready \/ s.decision \in Rejections \/ ~ s.inForce
<1>1. PICK current : current = CurrentStage(s, reported)
    OBVIOUS
<1>2. /\ ~ s.linked => current = "final_report"
      /\ s.linked /\ ~ s.analysed => current = "root_cause"
      /\ s.analysed /\ ~ s.valid => current = "human_review"
      /\ s.valid /\ s.decision # "approved" => current = "final_report"
      /\ s.valid /\ s.decision = "approved" /\ ~ s.remediated => current = "remediation"
      /\ s.valid /\ s.decision = "approved" /\ s.remediated =>
            /\ current \in {"fix_verification", "final_report"}
            /\ s.verified => current = "final_report"
    BY <1>1, UnfinishedStages
<1>3. /\ s.linked => "root_cause" \in Open(s)
      /\ s.analysed => "human_review" \in Open(s)
      /\ s.decision = "approved" /\ s.permitted => "remediation" \in Open(s)
      /\ s.reportable => "final_report" \in Open(s)
    BY DEF Open
<1>. USE DEF Consistent
<1>4. CASE ~ s.linked
    BY <1>1, <1>2, <1>3, <1>4, NextActionFirst
<1>5. CASE s.linked /\ ~ s.analysed
    BY <1>1, <1>2, <1>3, <1>5, NextActionFirst
<1>6. CASE s.analysed /\ ~ s.valid
    BY <1>1, <1>2, <1>3, <1>6, NextActionFirst
<1>7. CASE s.valid /\ s.decision # "approved"
    BY <1>1, <1>2, <1>3, <1>7, NextActionFirst DEF Rejections, EscalatedDecisions, AllDecisions
<1>8. CASE s.valid /\ s.decision = "approved" /\ ~ s.remediated
    BY <1>1, <1>2, <1>3, <1>8, NextActionFirst DEF Rejections, EscalatedDecisions, AllDecisions
<1>9. CASE s.valid /\ s.decision = "approved" /\ s.remediated
    BY <1>1, <1>2, <1>3, <1>9, NextActionFirst DEF Rejections, EscalatedDecisions, AllDecisions
<1>. QED
    BY <1>4, <1>5, <1>6, <1>7, <1>8, <1>9

\* What the screen offers, in every state of the chain's invariants.
LEMMA NextActionHolds ==
    ASSUME LInv, Verdicts, AnalysedOnFindings
    PROVE  NextActionLeadsOn
<1>. USE DEF NextActionLeadsOn
<1>. TAKE facts \in {Facts}, linked \in {events \cup findings # {}, TRUE}
<1>. TAKE s \in {Situation(facts, linked)}, ready \in {ReportReady(facts)},
         retestEvidence, reported \in BOOLEAN
<1>. TAKE next \in {NextAction(s, retestEvidence, reported)}
<1>. HIDE DEF NextActionLeadsOn
<1>1. /\ Consistent(s)
      /\ s.reportable => \/ ReportReady(facts) \/ s.decision = "rejected" \/ ~ s.inForce
      /\ ReportReady(facts) => s.reportable
    BY SituationHolds
<1>2. ready \in BOOLEAN
    BY DEF ReportReady
<1>. QED
    BY <1>1, <1>2, OfferLeads

\* The next action leads to an open stage, the current one while any is unfinished, and to
\* the final report when the readiness check grants one, but for the exceptions it names.
THEOREM NextActionLeads == Spec => []NextActionLeadsOn
<1>1. LInv /\ Verdicts /\ AnalysedOnFindings => NextActionLeadsOn
    BY NextActionHolds
<1>. QED
    BY <1>1, VerdictsInvariant, AnalysedInvariant, PTL

-----------------------------------------------------------------------------
(* The branch of one diagnosis *)

CurrentDiagnosis(d) == diagnoses[d].workflow_status = "current"

\* The rows made for a diagnosis are retired with it and never without it: as long as the
\* diagnosis is current, all of them are.
WholeBranch ==
    /\ \A m \in DOMAIN actions :
          actions[m].diagnosis # 0 /\ CurrentDiagnosis(actions[m].diagnosis)
              => actions[m].workflow_status = "current"
    /\ \A i \in DOMAIN implementations : CurrentDiagnosis(implementations[i].chain.diagnosis)
              => implementations[i].workflow_status = "current"
    /\ \A t \in DOMAIN tests :
          CurrentDiagnosis(implementations[tests[t].implementation].chain.diagnosis)
              => tests[t].workflow_status = "current"
    /\ \A k \in DOMAIN retests : CurrentDiagnosis(retests[k].chain.diagnosis)
              => retests[k].workflow_status = "current"
    /\ \A f \in DOMAIN fixes : CurrentDiagnosis(fixes[f].chain.diagnosis)
              => fixes[f].workflow_status = "current"
    /\ \A o \in DOMAIN outcomes : CurrentDiagnosis(outcomes[o].chain.diagnosis)
              => outcomes[o].workflow_status = "current"

\* A diagnosis is accepted into one action, a test retested once, a retest verified once,
\* and a verification and its outcome are recorded together.
UsedOnce ==
    /\ \A m, n \in DOMAIN actions :
          actions[m].diagnosis # 0 /\ actions[m].diagnosis = actions[n].diagnosis => m = n
    /\ \A k, l \in DOMAIN retests : retests[k].test = retests[l].test => k = l
    /\ \A f, g \in DOMAIN fixes : fixes[f].retest = fixes[g].retest => f = g
    /\ Len(outcomes) = Len(fixes)
    /\ \A o \in DOMAIN outcomes : outcomes[o].fix = o

\* The review a verification was made under is in force.
Allowed(f) == Permission(fixes[f].chain.analysis, fixes[f].chain.review)

\* A verification the gate still stands behind.
InForceFix(f) == Allowed(f) /\ CurrentDiagnosis(fixes[f].chain.diagnosis)

\* What is verified after such a one is of the same chain, and of a change that is not
\* older than the one it verified, as long as that one is in place.
LaterFixes ==
    \A f, g \in DOMAIN fixes : f < g /\ InForceFix(f) =>
        /\ fixes[g].chain = fixes[f].chain
        /\ implementations[fixes[f].implementation].status = "completed" =>
              fixes[f].implementation <= fixes[g].implementation

\* The incident's status tells of the last verification, while the review it was made
\* under is in force, and else of the last review, while that is valid.
StatusTold ==
    /\ \A f \in DOMAIN fixes : Allowed(f) =>
          incident = StatusAfterVerification(fixes[Len(fixes)].status)
    /\ \A r \in DOMAIN reviews :
          r = Len(reviews) /\ reviews[r].progression_valid /\ reviews[r].decision # "approved"
              => incident = StatusAfterReview(reviews[r].decision)

BranchInv == WholeBranch /\ UsedOnce /\ LaterFixes /\ StatusTold

-----------------------------------------------------------------------------
(* What a step leaves of a branch, and what it adds *)

\* A diagnosis is current after the step.
StaysCurrent(d) == diagnoses'[d].workflow_status = "current"

\* Outside gone no row is retired, and what is added is current.
StaysOutside(old, new, gone) ==
    /\ \A n \in DOMAIN old \ gone : new[n].workflow_status = old[n].workflow_status
    /\ \A n \in DOMAIN new \ DOMAIN old : new[n].workflow_status = "current"

\* A step retires a row of a branch only with the branch's diagnosis.
BranchStays ==
    /\ StaysOutside(actions, actions',
            {m \in DOMAIN actions : \/ actions[m].diagnosis = 0
                                    \/ ~ StaysCurrent(actions[m].diagnosis)})
    /\ StaysOutside(implementations, implementations',
            {i \in DOMAIN implementations :
                ~ StaysCurrent(implementations[i].chain.diagnosis)})
    /\ StaysOutside(tests, tests',
            {t \in DOMAIN tests :
                ~ StaysCurrent(implementations[tests[t].implementation].chain.diagnosis)})
    /\ StaysOutside(retests, retests',
            {k \in DOMAIN retests : ~ StaysCurrent(retests[k].chain.diagnosis)})
    /\ StaysOutside(fixes, fixes',
            {f \in DOMAIN fixes : ~ StaysCurrent(fixes[f].chain.diagnosis)})
    /\ StaysOutside(outcomes, outcomes',
            {o \in DOMAIN outcomes : ~ StaysCurrent(outcomes[o].chain.diagnosis)})

\* At most one row is new.
OneAdded(old, new) == \A m, n \in DOMAIN new \ DOMAIN old : m = n

\* What a step adds refers to a row no other refers to.
AddedOnce ==
    /\ OneAdded(actions, actions') /\ OneAdded(retests, retests')
    /\ OneAdded(fixes, fixes')
    /\ \A m \in DOMAIN actions' \ DOMAIN actions, n \in DOMAIN actions :
          actions'[m].diagnosis # 0 => actions'[m].diagnosis # actions[n].diagnosis
    /\ \A k \in DOMAIN retests' \ DOMAIN retests, l \in DOMAIN retests :
          retests'[k].test # retests[l].test
    /\ \A f \in DOMAIN fixes' \ DOMAIN fixes, g \in DOMAIN fixes :
          fixes'[f].retest # fixes[g].retest
    /\ Len(outcomes) = Len(fixes) => Len(outcomes') = Len(fixes')
    /\ \A o \in DOMAIN outcomes' \ DOMAIN outcomes :
          Len(outcomes) = Len(fixes) => outcomes'[o].fix = o

\* Appending a row, whatever it is.
LEMMA AppendRow ==
    ASSUME NEW S, NEW rows \in Seq(S), NEW row
    PROVE  /\ \A n \in DOMAIN rows :
                 n \in DOMAIN Append(rows, row) /\ Append(rows, row)[n] = rows[n]
           /\ \A n \in DOMAIN Append(rows, row) \ DOMAIN rows :
                 n = Len(rows) + 1 /\ Append(rows, row)[n] = row
           /\ Len(Append(rows, row)) = Len(rows) + 1
           /\ Len(rows) + 1 \in DOMAIN Append(rows, row)
           /\ Append(rows, row)[Len(rows) + 1] = row
<1>1. rows \in Seq(S \cup {row})
    <2>1. \A n \in 1..Len(rows) : rows[n] \in S
        BY ElementOfSeq
    <2>2. DOMAIN rows = 1..Len(rows) /\ Len(rows) \in Nat
        BY LenProperties
    <2>3. rows \in [1..Len(rows) -> S]
        BY LenProperties
    <2>4. rows \in [1..Len(rows) -> S \cup {row}]
        BY <2>3
    <2>. QED
        BY <2>2, <2>4, FunctionIsSeq
<1>2. Len(Append(rows, row)) = Len(rows) + 1
    BY <1>1, AppendProperties
<1>. QED
    BY <1>1, <1>2, AppendKeeps

\* A table to which at most a current row is added, and of which nothing is retired.
Grown(old, new) ==
    \/ DOMAIN new = DOMAIN old /\ LeftCurrent(old, new)
    \/ \E row : row.workflow_status = "current" /\ new = Append(old, row)

\* What such a table keeps.
LEMMA GrownTable ==
    ASSUME NEW S, NEW old \in Seq(S), NEW new, Grown(old, new), NEW gone
    PROVE  StaysOutside(old, new, gone) /\ OneAdded(old, new)
BY AppendRow DEF Grown, LeftCurrent, StaysOutside, OneAdded

\* Tables of which nothing is retired and to which nothing is added.
LEMMA RetiredTable ==
    ASSUME NEW rows, NEW ids, NEW status, NEW gone, ids \subseteq gone
    PROVE  /\ StaysOutside(rows, Retire(rows, ids, status), gone)
           /\ StaysOutside(rows, RetireLearning(rows, ids, status), gone)
           /\ DOMAIN Retire(rows, ids, status) = DOMAIN rows
           /\ DOMAIN RetireLearning(rows, ids, status) = DOMAIN rows
<1>1. /\ DOMAIN Retire(rows, ids, status) = DOMAIN rows
      /\ DOMAIN RetireLearning(rows, ids, status) = DOMAIN rows
    BY DEF Retire, RetireLearning
<1>2. \A n \in DOMAIN rows \ gone : /\ Retire(rows, ids, status)[n] = rows[n]
                                    /\ RetireLearning(rows, ids, status)[n] = rows[n]
    BY DEF Retire, RetireLearning
<1>. QED
    BY <1>1, <1>2 DEF StaysOutside

\* A new diagnosis retires what belongs to the branch's previous one.
LEMMA DiagnosisStays ==
    ASSUME IInv, GenerateDiagnosis
    PROVE  BranchStays /\ AddedOnce
<1>1. PICK a, r, old :
          /\ old = {d \in DOMAIN diagnoses : DiagnosisOn(d, a, r)}
          /\ diagnoses' = Append(Retire(diagnoses, old, "superseded"),
                 [analysis |-> a, review |-> r, workflow_status |-> "current",
                  status |-> "awaiting_human_review"])
          /\ SupersedeDiagnoses(old)
    BY DEF GenerateDiagnosis
<1>2. \A d \in old : ~ StaysCurrent(d)
    <2>. DEFINE rest == Retire(diagnoses, old, "superseded")
    <2>1. diagnoses \in Seq(Diagnosis) /\ rest \in Seq(Diagnosis)
        <3>1. diagnoses \in Seq(Diagnosis)
            BY DEF IInv, TypeOK
        <3>2. \A row \in Diagnosis : [row EXCEPT !.workflow_status = "superseded"] \in Diagnosis
            BY DEF Diagnosis, WorkflowStatus
        <3>. QED
            BY <3>1, <3>2, RetireType
    <2>2. \A d \in old : d \in DOMAIN rest /\ rest[d].workflow_status = "superseded"
        BY <1>1, Rows DEF Retire, Diagnosis, IInv
    <2>. HIDE DEF rest
    <2>3. PICK row : diagnoses' = Append(rest, row)
        BY <1>1 DEF rest
    <2>. QED
        BY <2>1, <2>2, <2>3, AppendRow DEF StaysCurrent
<1>3. /\ {m \in DOMAIN actions : actions[m].diagnosis \in old}
            \subseteq {m \in DOMAIN actions : \/ actions[m].diagnosis = 0
                                                \/ ~ StaysCurrent(actions[m].diagnosis)}
      /\ {i \in DOMAIN implementations : implementations[i].chain.diagnosis \in old}
            \subseteq {i \in DOMAIN implementations :
                          ~ StaysCurrent(implementations[i].chain.diagnosis)}
      /\ {f \in DOMAIN fixes : fixes[f].chain.diagnosis \in old}
            \subseteq {f \in DOMAIN fixes : ~ StaysCurrent(fixes[f].chain.diagnosis)}
      /\ {o \in DOMAIN outcomes : outcomes[o].chain.diagnosis \in old}
            \subseteq {o \in DOMAIN outcomes : ~ StaysCurrent(outcomes[o].chain.diagnosis)}
    BY <1>2
<1>kept. \A i \in DOMAIN implementations : implementations'[i].chain = implementations[i].chain
    BY <1>1, Rows DEF SupersedeDiagnoses, Retire, Implementation, IInv
<1>4. {t \in DOMAIN tests : tests[t].action \in {m \in DOMAIN actions :
                                                     actions[m].diagnosis \in old}}
          \subseteq {t \in DOMAIN tests : ~ StaysCurrent(
                        implementations[tests[t].implementation].chain.diagnosis)}
    <2>1. ASSUME NEW t \in DOMAIN tests, actions[tests[t].action].diagnosis \in old
          PROVE  implementations[tests[t].implementation].chain.diagnosis \in old
        <3>1. /\ tests[t].implementation \in DOMAIN implementations
              /\ tests[t].action = implementations[tests[t].implementation].chain.action
              /\ implementations[tests[t].implementation].chain = ChainOf(tests[t].action)
            BY DEF IInv, ExactChains
        <3>. QED
            BY <2>1, <3>1 DEF ChainOf
    <2>. QED
        BY <1>2, <2>1
<1>5. {k \in DOMAIN retests : retests[k].implementation \in
                {i \in DOMAIN implementations : implementations[i].chain.diagnosis \in old}}
          \subseteq {k \in DOMAIN retests : ~ StaysCurrent(retests[k].chain.diagnosis)}
    BY <1>2, SMTT(30) DEF IInv, ExactChains
<1>6. BranchStays
    BY <1>1, <1>3, <1>4, <1>5, RetiredTable DEF SupersedeDiagnoses, BranchStays
<1>7. /\ DOMAIN actions' = DOMAIN actions /\ DOMAIN retests' = DOMAIN retests
      /\ DOMAIN fixes' = DOMAIN fixes /\ DOMAIN outcomes' = DOMAIN outcomes
    BY <1>1 DEF SupersedeDiagnoses, Retire, RetireLearning
<1>. QED
    BY <1>6, <1>7 DEF AddedOnce, OneAdded

\* Every other handler leaves of a branch what it finds, and adds to it at most one current
\* row of a table.
BranchGrown ==
    /\ Grown(actions, actions') /\ Grown(implementations, implementations')
    /\ Grown(tests, tests') /\ Grown(retests, retests')
    /\ Grown(fixes, fixes') /\ Grown(outcomes, outcomes')

\* A table left alone, and one of which a rollback or an update rewrites a status.
LEMMA UnchangedGrown ==
    ASSUME TypeOK
    PROVE  /\ \A rows : Grown(rows, rows)
           /\ \A i : Grown(implementations, RolledBack(i))
           /\ \A m, status : Grown(actions, [actions EXCEPT ![m].status = status])
           /\ \A t, status, n : Grown(tests, [tests EXCEPT ![t].status = status,
                                                       ![t].completed_at = n])
<1>1. \A rows : Grown(rows, rows)
    BY DEF Grown, LeftCurrent
<1>2. \A i : Grown(implementations, RolledBack(i))
    BY Rows DEF Grown, LeftCurrent, RolledBack, Implementation
<1>3. \A m, status : Grown(actions, [actions EXCEPT ![m].status = status])
    BY Rows DEF Grown, LeftCurrent, Action
<1>4. \A t, status, n : Grown(tests, [tests EXCEPT ![t].status = status,
                                                    ![t].completed_at = n])
    BY Rows DEF Grown, LeftCurrent, Test
<1>. QED
    BY <1>1, <1>2, <1>3, <1>4

\* Nothing added below the diagnosis but implementations and tests.
LEMMA NothingAddedOnce ==
    ASSUME DOMAIN actions' = DOMAIN actions, DOMAIN retests' = DOMAIN retests,
           UNCHANGED <<fixes, outcomes>>
    PROVE  AddedOnce
BY DEF AddedOnce, OneAdded

\* Accepting a diagnosis: an action that already came from it would have accepted it.
LEMMA AcceptanceGrown ==
    ASSUME IInv, Lineage, NEW d \in DOMAIN diagnoses, AcceptDiagnosis(d)
    PROVE  BranchGrown /\ AddedOnce
<1>1. PICK row : /\ actions' = Append(actions, row)
                 /\ row.workflow_status = "current" /\ row.diagnosis = d
    <2>. DEFINE new == [diagnosis |-> d, analysis |-> diagnoses[d].analysis,
                        review |-> diagnoses[d].review,
                        status |-> "not_started", workflow_status |-> "current"]
    <2>1. actions' = Append(actions, new)
        BY DEF AcceptDiagnosis
    <2>. QED
        BY <2>1
<1>2. UNCHANGED <<implementations, tests, retests, fixes, outcomes>>
    BY DEF AcceptDiagnosis
<1>3. BranchGrown
    BY <1>1, <1>2, UnchangedGrown DEF BranchGrown, Grown, IInv
<1>4. /\ OneAdded(actions, actions')
      /\ \A m \in DOMAIN actions' \ DOMAIN actions : actions'[m].diagnosis = d
    BY <1>1, AppendRow DEF OneAdded, IInv, TypeOK
<1>5. \A n \in DOMAIN actions : actions[n].diagnosis # 0 => actions[n].diagnosis # d
    BY DEF Lineage, AcceptDiagnosis
<1>. QED
    BY <1>2, <1>3, <1>4, <1>5 DEF AddedOnce, OneAdded

\* A manual action comes from no diagnosis; an update adds none.
LEMMA ActionGrown ==
    ASSUME TypeOK, \/ \E status \in StatusInputs : CreateAction(status)
                   \/ \E m \in DOMAIN actions, status \in StatusInputs :
                         UpdateAction(m, status)
    PROVE  BranchGrown /\ AddedOnce
<1>1. UNCHANGED <<implementations, tests, retests, fixes, outcomes>>
    BY DEF CreateAction, UpdateAction
<1>2. ASSUME NEW status \in StatusInputs, CreateAction(status)
      PROVE  Grown(actions, actions') /\ AddedOnce
    <2>1. PICK row : /\ actions' = Append(actions, row)
                     /\ row.workflow_status = "current" /\ row.diagnosis = 0
        BY <1>2 DEF CreateAction
    <2>2. /\ OneAdded(actions, actions')
          /\ \A m \in DOMAIN actions' \ DOMAIN actions : actions'[m].diagnosis = 0
        BY <2>1, AppendRow, SMTT(30) DEF OneAdded, TypeOK
    <2>. QED
        BY <1>1, <2>1, <2>2 DEF Grown, AddedOnce, OneAdded
<1>3. ASSUME NEW m \in DOMAIN actions, NEW status \in StatusInputs, UpdateAction(m, status)
      PROVE  Grown(actions, actions') /\ AddedOnce
    <2>1. actions' = [actions EXCEPT ![m].status = status]
        BY <1>3 DEF UpdateAction
    <2>. QED
        BY <1>1, <2>1, UnchangedGrown, NothingAddedOnce
<1>. QED
    BY <1>1, <1>2, <1>3, UnchangedGrown DEF BranchGrown

\* A change and a test are recorded as current.
LEMMA ChangeGrown ==
    ASSUME TypeOK, \/ \E m \in DOMAIN actions, mode \in ModeInputs, change \in Changes :
                         RecordImplementation(m, mode, change)
                   \/ \E i \in DOMAIN implementations : StartTest(i) \/ RollbackPatch(i)
                   \/ \E t \in DOMAIN tests, passed, restored \in BOOLEAN :
                         FinishTest(t, passed, restored)
    PROVE  BranchGrown /\ AddedOnce
<1>1. UNCHANGED <<retests, fixes, outcomes>>
    BY DEF RecordImplementation, StartTest, RollbackPatch, FinishTest
<1>2. /\ Grown(actions, actions') /\ DOMAIN actions' = DOMAIN actions
    <2>1. actions' = actions \/ \E m, status : actions' = [actions EXCEPT ![m].status = status]
        BY DEF RecordImplementation, StartTest, RollbackPatch, FinishTest
    <2>. QED
        BY <2>1, UnchangedGrown
<1>3. Grown(implementations, implementations')
    <2>1. ASSUME NEW m \in DOMAIN actions, NEW mode \in ModeInputs, NEW change \in Changes,
                 RecordImplementation(m, mode, change)
          PROVE  Grown(implementations, implementations')
        <3>1. PICK row : /\ implementations' = Append(implementations, row)
                         /\ row.workflow_status = "current"
            BY <2>1 DEF RecordImplementation
        <3>. QED
            BY <3>1 DEF Grown
    <2>. QED
        BY <2>1, UnchangedGrown DEF StartTest, RollbackPatch, FinishTest
<1>4. Grown(tests, tests')
    <2>1. ASSUME NEW i \in DOMAIN implementations, StartTest(i) PROVE Grown(tests, tests')
        <3>1. PICK row : tests' = Append(tests, row) /\ row.workflow_status = "current"
            BY <2>1 DEF StartTest
        <3>. QED
            BY <3>1 DEF Grown
    <2>2. ASSUME NEW t \in DOMAIN tests, NEW passed \in BOOLEAN, NEW restored \in BOOLEAN,
                 FinishTest(t, passed, restored)
          PROVE  Grown(tests, tests')
        <3>1. PICK status, n : tests' = [tests EXCEPT ![t].status = status,
                                                      ![t].completed_at = n]
            BY <2>2 DEF FinishTest
        <3>. QED
            BY <3>1, UnchangedGrown
    <2>3. \/ \E i \in DOMAIN implementations : StartTest(i)
          \/ \E t \in DOMAIN tests, passed, restored \in BOOLEAN :
                FinishTest(t, passed, restored)
          \/ UNCHANGED tests
        BY DEF RecordImplementation, RollbackPatch
    <2>. QED
        BY <2>1, <2>2, <2>3, UnchangedGrown
<1>. QED
    BY <1>1, <1>2, <1>3, <1>4, UnchangedGrown, NothingAddedOnce DEF BranchGrown

\* A retest is recorded of a test that has none.
LEMMA RetestGrown ==
    ASSUME TypeOK, NEW t \in DOMAIN tests, NEW restored \in BOOLEAN,
           NEW result \in {"clean", "exposed", "incomparable"},
           RecordRetest(t, result, restored)
    PROVE  BranchGrown /\ AddedOnce
<1>1. PICK row : /\ retests' = Append(retests, row)
                 /\ row.workflow_status = "current" /\ row.test = t
    BY DEF RecordRetest
<1>2. UNCHANGED <<actions, tests, fixes, outcomes>> /\ Grown(implementations, implementations')
    BY UnchangedGrown DEF RecordRetest
<1>3. BranchGrown
    BY <1>1, <1>2, UnchangedGrown DEF BranchGrown, Grown
<1>4. /\ OneAdded(retests, retests')
      /\ \A k \in DOMAIN retests' \ DOMAIN retests : retests'[k].test = t
    BY <1>1, AppendRow, SMTT(30) DEF OneAdded, TypeOK
<1>5. \A k \in DOMAIN retests : retests[k].test # t
    BY DEF RecordRetest
<1>. QED
    BY <1>2, <1>3, <1>4, <1>5 DEF AddedOnce, OneAdded

\* A verification is recorded of a retest that has none, and its outcome with it.
LEMMA VerificationGrown ==
    ASSUME TypeOK, NEW k \in DOMAIN retests, NEW restored \in BOOLEAN, VerifyFix(k, restored)
    PROVE  BranchGrown /\ AddedOnce
<1>1. PICK fix, outcome :
          /\ fixes' = Append(fixes, fix) /\ fix.workflow_status = "current" /\ fix.retest = k
          /\ outcomes' = Append(outcomes, outcome) /\ outcome.workflow_status = "current"
          /\ outcome.fix = Len(fixes) + 1
    BY DEF VerifyFix
<1>2. UNCHANGED <<actions, tests, retests>> /\ Grown(implementations, implementations')
    BY UnchangedGrown DEF VerifyFix
<1>3. BranchGrown
    BY <1>1, <1>2, UnchangedGrown DEF BranchGrown, Grown
<1>4. /\ OneAdded(fixes, fixes') /\ Len(fixes') = Len(fixes) + 1
      /\ \A f \in DOMAIN fixes' \ DOMAIN fixes : fixes'[f].retest = k
    BY <1>1, AppendRow, SMTT(30) DEF OneAdded, TypeOK
<1>5. /\ Len(outcomes') = Len(outcomes) + 1
      /\ \A o \in DOMAIN outcomes' \ DOMAIN outcomes :
            o = Len(outcomes) + 1 /\ outcomes'[o].fix = Len(fixes) + 1
    BY <1>1, AppendRow DEF TypeOK
<1>6. \A f \in DOMAIN fixes : fixes[f].retest # k
    BY DEF VerifyFix
<1>. QED
    BY <1>2, <1>3, <1>4, <1>5, <1>6 DEF AddedOnce, OneAdded

\* The diagnosis of every chain is a row.
LEMMA ChainDiagnoses ==
    ASSUME IInv, Lineage
    PROVE  /\ \A i \in DOMAIN implementations :
                 implementations[i].chain.diagnosis \in DOMAIN diagnoses
           /\ \A k \in DOMAIN retests : retests[k].chain.diagnosis \in DOMAIN diagnoses
           /\ \A f \in DOMAIN fixes : fixes[f].chain.diagnosis \in DOMAIN diagnoses
           /\ \A o \in DOMAIN outcomes : outcomes[o].chain.diagnosis \in DOMAIN diagnoses
<1>1. \A i \in DOMAIN implementations : implementations[i].chain.diagnosis \in DOMAIN diagnoses
    <2>1. \A m \in DOMAIN actions :
              ChainOf(m).diagnosis = actions[m].diagnosis
        BY DEF ChainOf
    <2>. QED
        BY <2>1 DEF IInv, ExactChains, Lineage
<1>2. \A k \in DOMAIN retests : retests[k].chain.diagnosis \in DOMAIN diagnoses
    BY <1>1 DEF IInv, ExactChains
<1>3. \A f \in DOMAIN fixes : fixes[f].chain.diagnosis \in DOMAIN diagnoses
    BY <1>2 DEF IInv, ExactChains
<1>. QED
    BY <1>1, <1>2, <1>3 DEF IInv, ExactChains

\* The cascade retires every branch, with its diagnosis.
LEMMA CascadeStays ==
    ASSUME IInv, Lineage, InvalidateReviews(CurrentAnalyses),
           InvalidateDownstream(CurrentAnalyses)
    PROVE  BranchStays /\ AddedOnce
<1>1. \A d \in DOMAIN diagnoses : ~ StaysCurrent(d)
    <2>1. NothingCurrent' /\ DOMAIN diagnoses' = DOMAIN diagnoses
        BY CascadeReachesAll DEF InvalidateDownstream, Retire
    <2>. QED
        BY <2>1 DEF NothingCurrent, StaysCurrent
<1>2. \A m \in DOMAIN actions : \/ actions[m].diagnosis = 0
                                 \/ ~ StaysCurrent(actions[m].diagnosis)
    BY <1>1 DEF Lineage
<1>3. /\ \A i \in DOMAIN implementations : ~ StaysCurrent(implementations[i].chain.diagnosis)
      /\ \A k \in DOMAIN retests : ~ StaysCurrent(retests[k].chain.diagnosis)
      /\ \A f \in DOMAIN fixes : ~ StaysCurrent(fixes[f].chain.diagnosis)
      /\ \A o \in DOMAIN outcomes : ~ StaysCurrent(outcomes[o].chain.diagnosis)
    BY <1>1, ChainDiagnoses
<1>4. \A t \in DOMAIN tests :
          ~ StaysCurrent(implementations[tests[t].implementation].chain.diagnosis)
    BY <1>3 DEF IInv, ExactChains
<1>5. /\ DOMAIN actions' = DOMAIN actions /\ DOMAIN implementations' = DOMAIN implementations
      /\ DOMAIN tests' = DOMAIN tests /\ DOMAIN retests' = DOMAIN retests
      /\ DOMAIN fixes' = DOMAIN fixes /\ DOMAIN outcomes' = DOMAIN outcomes
    BY DEF InvalidateDownstream, Retire, RetireLearning
<1>6. BranchStays
    BY <1>2, <1>3, <1>4, <1>5 DEF BranchStays, StaysOutside
<1>. QED
    BY <1>5, <1>6 DEF AddedOnce, OneAdded

\* Every step retires a row only with its diagnosis, and adds to what nothing was added to.
LEMMA BranchMoves ==
    ASSUME IInv, Lineage, [Next]_vars
    PROVE  BranchStays /\ AddedOnce
<1>1. ASSUME BranchGrown PROVE BranchStays
    BY <1>1, GrownTable DEF BranchGrown, BranchStays, IInv, TypeOK
<1>3. CASE \/ \E x \in Alerts : LinkAlert(x)
           \/ \E x \in Records : LinkRecord(x)
           \/ \E f \in Files : DetectEvidence(f)
           \/ \E force \in BOOLEAN : Analyse(force)
    BY <1>3, CascadeStays DEF LinkAlert, LinkRecord, DetectEvidence, MarkStale, Analyse
<1>4. CASE \/ \E f \in Files : ParseEvidence(f)
           \/ \E decision \in ReviewDecisions : SubmitReview(decision)
           \/ \E d \in DOMAIN diagnoses, status \in {"rejected", "more_evidence_requested"} :
                 DeclineDiagnosis(d, status)
           \/ UNCHANGED vars
    <2>1. UNCHANGED <<actions, implementations, tests, retests, fixes, outcomes>>
        BY <1>4 DEF ParseEvidence, SubmitReview, DeclineDiagnosis, chainRows, vars
    <2>2. BranchGrown
        BY <2>1, UnchangedGrown DEF BranchGrown, IInv
    <2>. QED
        BY <1>1, <2>1, <2>2, NothingAddedOnce
<1>5. CASE GenerateDiagnosis
    BY <1>5, DiagnosisStays
<1>6. CASE \E d \in DOMAIN diagnoses : AcceptDiagnosis(d)
    BY <1>1, <1>6, AcceptanceGrown
<1>7. CASE \/ \E status \in StatusInputs : CreateAction(status)
           \/ \E m \in DOMAIN actions, status \in StatusInputs : UpdateAction(m, status)
    BY <1>1, <1>7, ActionGrown DEF IInv
<1>8. CASE \/ \E m \in DOMAIN actions, mode \in ModeInputs, change \in Changes :
                 RecordImplementation(m, mode, change)
           \/ \E i \in DOMAIN implementations : StartTest(i) \/ RollbackPatch(i)
           \/ \E t \in DOMAIN tests, passed, restored \in BOOLEAN :
                 FinishTest(t, passed, restored)
    BY <1>1, <1>8, ChangeGrown DEF IInv
<1>9. CASE \E t \in DOMAIN tests, restored \in BOOLEAN,
              result \in {"clean", "exposed", "incomparable"} :
                 RecordRetest(t, result, restored)
    BY <1>1, <1>9, RetestGrown DEF IInv
<1>10. CASE \E k \in DOMAIN retests, restored \in BOOLEAN : VerifyFix(k, restored)
    BY <1>1, <1>10, VerificationGrown DEF IInv
<1>. QED
    BY <1>3, <1>4, <1>5, <1>6, <1>7, <1>8, <1>9, <1>10 DEF Next

-----------------------------------------------------------------------------
(* The branch stays whole *)

\* One step of WholeBranch.
LEMMA WholeBranchStep ==
    ASSUME IInv, Lineage, WholeBranch, RowsKept, [Next]_vars
    PROVE  WholeBranch'
<1>. USE DEF RowsKept, KeptChainRows, KeptStatus
<1>1. BranchStays
    BY BranchMoves
<1>2. \A d \in DOMAIN diagnoses : StaysCurrent(d) => CurrentDiagnosis(d)
    BY DEF KeptDiagnoses, StaysCurrent, CurrentDiagnosis
<1>3. ASSUME NEW m \in DOMAIN actions', actions'[m].diagnosis # 0,
             StaysCurrent(actions'[m].diagnosis)
      PROVE  actions'[m].workflow_status = "current"
    <2>1. CASE m \in DOMAIN actions
        <3>1. actions'[m].diagnosis = actions[m].diagnosis
            BY <2>1 DEF KeptActions
        <3>2. actions[m].diagnosis \in DOMAIN diagnoses
            BY <1>3, <2>1, <3>1 DEF Lineage
        <3>3. actions[m].workflow_status = "current"
            BY <1>2, <1>3, <2>1, <3>1, <3>2 DEF WholeBranch
        <3>. QED
            BY <1>1, <1>3, <2>1, <3>1, <3>3 DEF BranchStays, StaysOutside
    <2>. QED
        BY <1>1, <2>1 DEF BranchStays, StaysOutside
<1>4. \A i \in DOMAIN implementations' : StaysCurrent(implementations'[i].chain.diagnosis)
          => implementations'[i].workflow_status = "current"
    BY <1>1, <1>2, ChainDiagnoses
    DEF WholeBranch, BranchStays, StaysOutside, KeptImplementations
<1>5. ASSUME NEW t \in DOMAIN tests', NEW i, i = tests'[t].implementation,
             StaysCurrent(implementations'[i].chain.diagnosis)
      PROVE  tests'[t].workflow_status = "current"
    <2>1. CASE t \in DOMAIN tests
        <3>1. i = tests[t].implementation /\ i \in DOMAIN implementations
            BY <1>5, <2>1 DEF KeptTests, IInv, ExactChains
        <3>2. implementations'[i].chain = implementations[i].chain
            BY <3>1 DEF KeptImplementations
        <3>3. tests[t].workflow_status = "current"
            BY <1>2, <1>5, <2>1, <3>1, <3>2, ChainDiagnoses DEF WholeBranch
        <3>. QED
            BY <1>1, <1>5, <2>1, <3>1, <3>2, <3>3 DEF BranchStays, StaysOutside
    <2>. QED
        BY <1>1, <2>1 DEF BranchStays, StaysOutside
<1>6. \A k \in DOMAIN retests' : StaysCurrent(retests'[k].chain.diagnosis)
          => retests'[k].workflow_status = "current"
    BY <1>1, <1>2, ChainDiagnoses DEF WholeBranch, BranchStays, StaysOutside, KeptRetests
<1>7. \A f \in DOMAIN fixes' : StaysCurrent(fixes'[f].chain.diagnosis)
          => fixes'[f].workflow_status = "current"
    BY <1>1, <1>2, ChainDiagnoses DEF WholeBranch, BranchStays, StaysOutside, KeptFixes
<1>8. \A o \in DOMAIN outcomes' : StaysCurrent(outcomes'[o].chain.diagnosis)
          => outcomes'[o].workflow_status = "current"
    BY <1>1, <1>2, ChainDiagnoses DEF WholeBranch, BranchStays, StaysOutside, KeptOutcomes
<1>. QED
    BY <1>3, <1>4, <1>5, <1>6, <1>7, <1>8 DEF WholeBranch, StaysCurrent, CurrentDiagnosis

\* One step of UsedOnce.
LEMMA UsedOnceStep ==
    ASSUME LInv, IInv', UsedOnce, RowsKept, FieldsKept, [Next]_vars
    PROVE  UsedOnce'
<1>1. AddedOnce
    BY BranchMoves DEF LInv
<1>. USE DEF RowsKept, KeptChainRows, KeptStatus, FieldsKept
<1>2. \A m, n \in DOMAIN actions' :
          actions'[m].diagnosis # 0 /\ actions'[m].diagnosis = actions'[n].diagnosis => m = n
    BY <1>1 DEF UsedOnce, AddedOnce, OneAdded, KeptActions
<1>3. \A k, l \in DOMAIN retests' : retests'[k].test = retests'[l].test => k = l
    BY <1>1 DEF UsedOnce, AddedOnce, OneAdded, KeptRetests, SameRetests
<1>4. \A f, g \in DOMAIN fixes' : fixes'[f].retest = fixes'[g].retest => f = g
    BY <1>1 DEF UsedOnce, AddedOnce, OneAdded, KeptFixes
<1>5. \A o \in DOMAIN outcomes' : outcomes'[o].fix = o
    BY <1>1 DEF UsedOnce, AddedOnce, KeptOutcomes
<1>6. Len(outcomes') = Len(fixes')
    BY <1>1 DEF UsedOnce, AddedOnce
<1>. QED
    BY <1>2, <1>3, <1>4, <1>5, <1>6 DEF UsedOnce

-----------------------------------------------------------------------------
(* Verifications made under one permission *)

\* A verification's chain is that of its action, and its change and test are its retest's.
LEMMA FixChain ==
    ASSUME IInv, Lineage, Verdicts, NEW f \in DOMAIN fixes, NEW c, c = fixes[f].chain
    PROVE  /\ c.action \in DOMAIN actions /\ c = ChainOf(c.action)
           /\ c.diagnosis = actions[c.action].diagnosis
           /\ c.diagnosis # 0 /\ c.diagnosis \in DOMAIN diagnoses
           /\ diagnoses[c.diagnosis].analysis = c.analysis
           /\ diagnoses[c.diagnosis].review = c.review
           /\ ApprovedBy(c.analysis, c.review)
           /\ fixes[f].implementation \in DOMAIN implementations
           /\ implementations[fixes[f].implementation].chain = c
           /\ fixes[f].retest \in DOMAIN retests
<1>1. /\ fixes[f].retest \in DOMAIN retests /\ c = retests[fixes[f].retest].chain
      /\ fixes[f].implementation = retests[fixes[f].retest].implementation
    BY DEF IInv, ExactChains, Verdicts
<1>2. /\ fixes[f].implementation \in DOMAIN implementations
      /\ implementations[fixes[f].implementation].chain = c
    BY <1>1 DEF IInv, ExactChains
<1>3. c.action \in DOMAIN actions /\ c = ChainOf(c.action) /\ c.diagnosis # 0
    BY <1>2 DEF IInv, ExactChains, Lineage
<1>4. /\ c.diagnosis = actions[c.action].diagnosis
      /\ c.analysis = actions[c.action].analysis /\ c.review = actions[c.action].review
    BY <1>3 DEF ChainOf
<1>5. /\ c.diagnosis \in DOMAIN diagnoses
      /\ diagnoses[c.diagnosis].analysis = c.analysis
      /\ diagnoses[c.diagnosis].review = c.review
      /\ ApprovedBy(c.analysis, c.review)
    BY <1>3, <1>4 DEF Lineage
<1>. QED
    BY <1>1, <1>2, <1>3, <1>4, <1>5

\* What a step leaves of the verifications: their chains, and no more of their permission.
LEMMA InForceHeld ==
    ASSUME LInv, Verdicts, RowsKept, FieldsKept, NEW f \in DOMAIN fixes
    PROVE  /\ f \in DOMAIN fixes' /\ fixes'[f].chain = fixes[f].chain
           /\ Allowed(f)' => Allowed(f)
           /\ InForceFix(f)' => InForceFix(f)
<1>1. f \in DOMAIN fixes' /\ fixes'[f].chain = fixes[f].chain
    BY DEF RowsKept, KeptChainRows, KeptFixes, KeptStatus
<1>2. PICK a, r, d : /\ a = fixes[f].chain.analysis /\ r = fixes[f].chain.review
                     /\ d = fixes[f].chain.diagnosis
    OBVIOUS
<1>3. a \in DOMAIN analyses /\ r \in DOMAIN reviews /\ d \in DOMAIN diagnoses
    <2>1. d \in DOMAIN diagnoses /\ ApprovedBy(a, r)
        BY <1>2, FixChain DEF LInv
    <2>. QED
        BY <2>1 DEF ApprovedBy, LInv, IInv, ExactChains
<1>4. Permission(a, r)' => Permission(a, r)
    BY <1>3, PermissionHeld
<1>5. diagnoses'[d].workflow_status = "current" => diagnoses[d].workflow_status = "current"
    BY <1>3 DEF RowsKept, KeptChainRows, KeptDiagnoses, KeptStatus
<1>6. (Allowed(f)' <=> Permission(a, r)') /\ (Allowed(f) <=> Permission(a, r))
    BY <1>1, <1>2 DEF Allowed
<1>. QED
    BY <1>1, <1>2, <1>4, <1>5, <1>6 DEF InForceFix, CurrentDiagnosis

\* What the gate of a verification finds: the branch of the permission in force, and the
\* newest change of it that is in place.
LEMMA VerifiedBranch ==
    ASSUME IInv, Lineage, NEW k \in DOMAIN retests, Verifiable(k),
           NEW c, c = retests[k].chain
    PROVE  /\ Permission(c.analysis, c.review)
           /\ DiagnosisOn(c.diagnosis, c.analysis, c.review)
           /\ c.action \in DOMAIN actions /\ c = ChainOf(c.action)
           /\ c.diagnosis = actions[c.action].diagnosis
           /\ c.diagnosis # 0 /\ c.diagnosis \in DOMAIN diagnoses
           /\ \A j \in DOMAIN implementations :
                 /\ implementations[j].chain = c
                 /\ implementations[j].status = "completed"
                 /\ implementations[j].workflow_status = "current"
                 => j <= retests[k].implementation
<1>. DEFINE eligible == {j \in DOMAIN implementations :
                           /\ implementations[j].chain = c
                           /\ implementations[j].status = "completed"
                           /\ implementations[j].workflow_status = "current"}
<1>1. PICK m :
          /\ m # 0 /\ PermitsAction(m) /\ actions[m].diagnosis # 0 /\ c = ChainOf(m)
          /\ retests[k].implementation = Newest(eligible)
    BY DEF Verifiable
<1>2. /\ c.analysis = actions[m].analysis /\ c.review = actions[m].review
      /\ c.diagnosis = actions[m].diagnosis /\ c.action = m
    BY <1>1 DEF ChainOf
<1>3. m \in DOMAIN actions
    BY <1>2 DEF IInv, ExactChains
<1>4. Permission(c.analysis, c.review) /\ DiagnosisOn(c.diagnosis, c.analysis, c.review)
    BY <1>1, <1>2 DEF PermitsAction
<1>5. c.diagnosis \in DOMAIN diagnoses /\ c.diagnosis # 0
    BY <1>1, <1>2, <1>3 DEF Lineage
<1>6. implementations \in Seq(Implementation) /\ eligible \subseteq DOMAIN implementations
    BY DEF IInv, TypeOK
<1>7. \A j \in eligible : j <= retests[k].implementation
    <2>. HIDE DEF eligible
    <2>. QED
        BY <1>1, <1>6, NewestOfRows
<1>. QED
    BY <1>1, <1>2, <1>3, <1>4, <1>5, <1>7

\* The verification a step adds, if it adds one.
LEMMA FixAdded ==
    ASSUME TypeOK, NEW k \in DOMAIN retests, NEW restored \in BOOLEAN, VerifyFix(k, restored)
    PROVE  /\ Verifiable(k) /\ Len(fixes) \in Nat /\ Len(fixes') = Len(fixes) + 1
           /\ DOMAIN fixes' = DOMAIN fixes \cup {Len(fixes')}
           /\ fixes'[Len(fixes')].chain = retests[k].chain
           /\ fixes'[Len(fixes')].implementation = retests[k].implementation
           /\ incident' = StatusAfterVerification(fixes'[Len(fixes')].status)
<1>1. PICK fix : /\ fixes' = Append(fixes, fix)
                 /\ fix.chain = retests[k].chain
                 /\ fix.implementation = retests[k].implementation
                 /\ fix.status = VerificationStatus(k)
    BY DEF VerifyFix
<1>2. /\ \A n \in DOMAIN fixes : n \in DOMAIN fixes'
      /\ \A n \in DOMAIN fixes' \ DOMAIN fixes : n = Len(fixes) + 1
      /\ Len(fixes') = Len(fixes) + 1 /\ Len(fixes) + 1 \in DOMAIN fixes'
      /\ fixes'[Len(fixes) + 1] = fix /\ Len(fixes) \in Nat
    BY <1>1, AppendRow, LenProperties DEF TypeOK
<1>3. Verifiable(k) /\ incident' = StatusAfterVerification(VerificationStatus(k))
    BY DEF VerifyFix
<1>. QED
    BY <1>1, <1>2, <1>3

\* What is verified now is of the chain of whatever is in force, and of no older a change.
LEMMA LaterFix ==
    ASSUME LInv, Verdicts, WholeBranch, UsedOnce, NEW k \in DOMAIN retests, Verifiable(k),
           NEW f \in DOMAIN fixes, InForceFix(f)
    PROVE  /\ retests[k].chain = fixes[f].chain
           /\ implementations[fixes[f].implementation].status = "completed" =>
                 fixes[f].implementation <= retests[k].implementation
<1>. USE DEF LInv
<1>1. PICK c, e : c = retests[k].chain /\ e = fixes[f].chain
    OBVIOUS
<1>2. /\ Permission(c.analysis, c.review)
      /\ DiagnosisOn(c.diagnosis, c.analysis, c.review)
      /\ c.action \in DOMAIN actions /\ c = ChainOf(c.action)
      /\ c.diagnosis = actions[c.action].diagnosis
      /\ c.diagnosis # 0 /\ c.diagnosis \in DOMAIN diagnoses
    BY <1>1, VerifiedBranch
<1>3. /\ Permission(e.analysis, e.review) /\ CurrentDiagnosis(e.diagnosis)
      /\ e.action \in DOMAIN actions /\ e = ChainOf(e.action)
      /\ e.diagnosis = actions[e.action].diagnosis
      /\ e.diagnosis # 0 /\ e.diagnosis \in DOMAIN diagnoses
      /\ diagnoses[e.diagnosis].analysis = e.analysis
      /\ diagnoses[e.diagnosis].review = e.review
      /\ fixes[f].implementation \in DOMAIN implementations
      /\ implementations[fixes[f].implementation].chain = e
    BY <1>1, FixChain DEF InForceFix, Allowed
<1>4. e.analysis = c.analysis /\ e.review = c.review
    BY <1>2, <1>3, PermittedIsNewest
<1>5. e.diagnosis = c.diagnosis
    BY <1>2, <1>3, <1>4 DEF OneDiagnosis, DiagnosisOn, CurrentDiagnosis
<1>6. e = c
    <2>1. e.action = c.action
        BY <1>2, <1>3, <1>5 DEF UsedOnce
    <2>. QED
        BY <1>2, <1>3, <2>1
<1>7. implementations[fixes[f].implementation].workflow_status = "current"
    BY <1>3 DEF WholeBranch
<1>. QED
    BY <1>1, <1>3, <1>6, <1>7, VerifiedBranch

\* One step of LaterFixes.
LEMMA LaterFixesStep ==
    ASSUME LInv, Verdicts, WholeBranch, UsedOnce, LaterFixes, RowsKept, FieldsKept, [Next]_vars
    PROVE  LaterFixes'
<1>1. TypeOK /\ VerdictsKept /\ fixes \in Seq(FixVerification)
    BY VerdictRows DEF LInv, IInv, TypeOK
<1>2. ASSUME NEW f \in DOMAIN fixes, NEW g \in DOMAIN fixes', f < g, InForceFix(f)'
      PROVE  /\ fixes'[g].chain = fixes'[f].chain
             /\ implementations'[fixes'[f].implementation].status = "completed" =>
                   fixes'[f].implementation <= fixes'[g].implementation
    <2>1. fixes'[f].chain = fixes[f].chain /\ InForceFix(f)
        BY <1>2, InForceHeld
    <2>2. implementations'[fixes'[f].implementation].status = "completed" =>
              implementations[fixes[f].implementation].status = "completed"
        <3>1. PICK i : i = fixes[f].implementation
            OBVIOUS
        <3>2. i \in DOMAIN implementations /\ fixes'[f].implementation = i
            BY <1>1, <3>1, FixChain DEF LInv, VerdictsKept
        <3>3. implementations[i].status \in {"completed", "rolled_back"}
            BY <1>1, <3>2, Rows DEF Implementation
        <3>. QED
            BY <3>1, <3>2, <3>3 DEF RowsKept, KeptChainRows, KeptImplementations
    <2>3. fixes'[f].implementation = fixes[f].implementation
        BY <1>1 DEF VerdictsKept
    <2>4. CASE g \in DOMAIN fixes
        <3>1. /\ fixes'[g].chain = fixes[g].chain
              /\ fixes'[g].implementation = fixes[g].implementation
            BY <1>1, <2>4, InForceHeld DEF VerdictsKept
        <3>. QED
            BY <1>2, <2>1, <2>2, <2>3, <2>4, <3>1 DEF LaterFixes
    <2>5. CASE g \notin DOMAIN fixes
        <3>1. ~ UNCHANGED fixes /\ DOMAIN fixes' # DOMAIN fixes
            BY <2>5
        <3>2. PICK k \in DOMAIN retests, restored \in BOOLEAN : VerifyFix(k, restored)
            BY <1>1, <3>1, FixedSteps DEF FixedRowsLeft, SubmitReview, chainRows, Analyse,
                InvalidateDownstream, Retire
        <3>3. /\ Verifiable(k) /\ g = Len(fixes')
              /\ fixes'[g].chain = retests[k].chain
              /\ fixes'[g].implementation = retests[k].implementation
            BY <1>1, <2>5, <3>2, FixAdded
        <3>. QED
            BY <2>1, <2>2, <2>3, <3>3, LaterFix
    <2>. QED
        BY <2>4, <2>5
<1>3. ASSUME NEW f \in DOMAIN fixes' \ DOMAIN fixes, NEW g \in DOMAIN fixes', f < g
      PROVE  FALSE
    <2>1. DOMAIN fixes' # DOMAIN fixes
        BY <1>3
    <2>2. PICK k \in DOMAIN retests, restored \in BOOLEAN : VerifyFix(k, restored)
        BY <1>1, <2>1, FixedSteps DEF FixedRowsLeft, SubmitReview, chainRows, Analyse,
            InvalidateDownstream, Retire
    <2>3. /\ f = Len(fixes) + 1 /\ Len(fixes) \in Nat
          /\ g \in DOMAIN fixes \cup {Len(fixes) + 1}
        BY <1>1, <1>3, <2>2, FixAdded
    <2>4. DOMAIN fixes = 1..Len(fixes)
        BY <1>1, LenProperties
    <2>. QED
        BY <1>3, <2>3, <2>4
<1>. QED
    BY <1>2, <1>3 DEF LaterFixes

\* One step of StatusTold.
LEMMA StatusToldStep ==
    ASSUME LInv, Verdicts, StatusTold, RowsKept, FieldsKept, [Next]_vars
    PROVE  StatusTold'
<1>. DEFINE Told == \A f \in DOMAIN fixes' : Allowed(f)' =>
                        incident' = StatusAfterVerification(fixes'[Len(fixes')].status)
            Decided == \A r \in DOMAIN reviews' :
                           /\ r = Len(reviews') /\ reviews'[r].progression_valid
                           /\ reviews'[r].decision # "approved"
                           => incident' = StatusAfterReview(reviews'[r].decision)
<1>1. /\ TypeOK /\ IInv /\ Lineage /\ InOrder /\ fixes \in Seq(FixVerification)
      /\ reviews \in Seq(Review)
      /\ DOMAIN fixes = 1..Len(fixes) /\ Len(fixes) \in Nat
      /\ DOMAIN reviews = 1..Len(reviews) /\ Len(reviews) \in Nat
    <2>1. /\ TypeOK /\ IInv /\ Lineage /\ InOrder /\ fixes \in Seq(FixVerification)
          /\ reviews \in Seq(Review)
        BY DEF LInv, IInv, TypeOK
    <2>. QED
        BY <2>1, LenProperties
<1>2. ASSUME NEW r \in DOMAIN reviews
      PROVE  /\ r \in DOMAIN reviews'
             /\ reviews'[r].decision = reviews[r].decision
             /\ reviews'[r].progression_valid => reviews[r].progression_valid
    BY <1>2 DEF RowsKept, KeptReviews, FieldsKept, SameReviews
<1>3. CASE FixedRowsLeft
    <2>1. /\ DOMAIN fixes' = DOMAIN fixes /\ DOMAIN reviews' = DOMAIN reviews
          /\ incident' = incident
          /\ Len(fixes') = Len(fixes) /\ Len(reviews') = Len(reviews)
        BY <1>3 DEF FixedRowsLeft
    <2>2. Told
        <3>1. \A f \in DOMAIN fixes : fixes'[f].status = fixes[f].status
            BY DEF FieldsKept, SameFixes
        <3>2. ASSUME NEW f \in DOMAIN fixes', Allowed(f)'
              PROVE  incident' = StatusAfterVerification(fixes'[Len(fixes')].status)
            <4>1. /\ f \in DOMAIN fixes
                  /\ Allowed(f)
                BY <2>1, <3>2, InForceHeld
            <4>2. Len(fixes) \in DOMAIN fixes
                BY <1>1, <4>1
            <4>. QED
                BY <2>1, <3>1, <4>1, <4>2 DEF StatusTold
        <3>. QED
            BY <3>2
    <2>3. ASSUME NEW r \in DOMAIN reviews', r = Len(reviews'),
                 reviews'[r].progression_valid, reviews'[r].decision # "approved"
          PROVE  incident' = StatusAfterReview(reviews'[r].decision)
        <3>1. r \in DOMAIN reviews /\ r = Len(reviews)
            BY <2>1, <2>3
        <3>2. reviews'[r].decision = reviews[r].decision
            BY <1>2, <3>1
        <3>3. reviews[r].progression_valid
            BY <1>2, <2>3, <3>1
        <3>. QED
            BY <2>1, <2>3, <3>1, <3>2, <3>3 DEF StatusTold
    <2>. QED
        BY <2>2, <2>3 DEF StatusTold
<1>4. CASE \E force \in BOOLEAN : Analyse(force)
    <2>1. NothingCurrent'
        BY <1>1, <1>4, CascadeReachesAll DEF Analyse
    <2>2. \A r \in DOMAIN reviews' : ~ reviews'[r].progression_valid
        BY <2>1 DEF NothingCurrent
    <2>. QED
        BY <2>2 DEF StatusTold, Permission, Allowed
<1>5. ASSUME NEW decision \in ReviewDecisions, SubmitReview(decision)
      PROVE  StatusTold'
    <2>1. PICK a, row :
              /\ a \in CurrentAnalyses
              /\ reviews' = Append(reviews, row) /\ row.analysis = a /\ row.decision = decision
              /\ row.progression_valid
        BY <1>5 DEF SubmitReview
    <2>2. /\ incident' = StatusAfterReview(decision) /\ UNCHANGED <<analyses, fixes>>
        BY <1>5 DEF SubmitReview, chainRows
    <2>3. /\ Len(reviews') = Len(reviews) + 1 /\ Len(reviews') \in DOMAIN reviews'
          /\ reviews'[Len(reviews')] = row
        BY <1>1, <2>1, AppendRow
    <2>4. ASSUME NEW f \in DOMAIN fixes, Allowed(f)'
          PROVE  FALSE
        <3>0. PICK b, r : b = fixes[f].chain.analysis /\ r = fixes[f].chain.review
            OBVIOUS
        <3>1. Permission(b, r)'
            BY <2>2, <2>4, <3>0 DEF Allowed
        <3>2. b = a
            <4>1. a = Len(analyses)
                BY <1>1, <2>1 DEF InOrder
            <4>2. b \in CurrentAnalyses
                BY <2>2, <3>1 DEF Permission, CurrentAnalyses
            <4>. QED
                BY <1>1, <4>1, <4>2 DEF InOrder
        <3>3. Len(reviews') <= r
            BY <2>1, <2>3, <3>1, <3>2 DEF Permission
        <3>4. r \in DOMAIN reviews
            BY <1>1, <3>0, FixChain DEF ApprovedBy
        <3>. QED
            BY <1>1, <2>3, <3>3, <3>4
    <2>5. Told
        BY <2>2, <2>4
    <2>6. Decided
        BY <2>1, <2>2, <2>3
    <2>. QED
        BY <2>5, <2>6 DEF StatusTold
<1>6. ASSUME NEW k \in DOMAIN retests, NEW restored \in BOOLEAN, VerifyFix(k, restored)
      PROVE  StatusTold'
    <2>1. /\ Verifiable(k)
          /\ incident' = StatusAfterVerification(fixes'[Len(fixes')].status)
        BY <1>1, <1>6, FixAdded
    <2>2. Told
        BY <2>1
    <2>3. PICK c : c = retests[k].chain
        OBVIOUS
    <2>4. Permission(c.analysis, c.review)
        BY <1>1, <2>1, <2>3, VerifiedBranch
    <2>5. reviews[Len(reviews)].decision = "approved"
        BY <1>1, <2>4, PermittedIsNewest DEF Permission
    <2>6. UNCHANGED reviews
        BY <1>6 DEF VerifyFix
    <2>7. Decided
        BY <2>5, <2>6
    <2>. QED
        BY <2>2, <2>7 DEF StatusTold
<1>. QED
    BY <1>1, <1>3, <1>4, <1>5, <1>6, FixedSteps

\* The branch invariant holds in every state the chain reaches.
LEMMA BranchInvariant == Spec => [](LInv /\ Verdicts /\ BranchInv)
<1>1. Init => LInv /\ Verdicts /\ BranchInv
    <2>1. Init => LInv /\ Verdicts
        BY LInvInit DEF Init, Verdicts
    <2>2. Init => BranchInv
        BY DEF Init, BranchInv, WholeBranch, UsedOnce, LaterFixes, StatusTold
    <2>. QED
        BY <2>1, <2>2
<1>2. ASSUME LInv, Verdicts, BranchInv, [Next]_vars
      PROVE  LInv' /\ Verdicts' /\ BranchInv'
    <2>1. LInv' /\ RowsKept /\ FieldsKept
        BY <1>2, LInvStep DEF Founded
    <2>2. Verdicts'
        BY <1>2, <2>1, VerdictsStep
    <2>3. WholeBranch' /\ UsedOnce'
        BY <1>2, <2>1, WholeBranchStep, UsedOnceStep DEF BranchInv, LInv
    <2>4. LaterFixes' /\ StatusTold'
        BY <1>2, <2>1, LaterFixesStep, StatusToldStep DEF BranchInv
    <2>. QED
        BY <2>1, <2>2, <2>3, <2>4 DEF BranchInv
<1>. QED
    BY <1>1, <1>2, PTL DEF Spec

-----------------------------------------------------------------------------
(* The report and the incident's status *)

\* The columns of the facts, query by query.
LEMMA FactsColumns ==
    ASSUME NEW facts, facts = Facts
    PROVE  /\ facts.analysis = Newest(CurrentAnalyses)
           /\ facts.review = Newest({q \in DOMAIN reviews : Permission(facts.analysis, q)})
           /\ facts.diagnosis = DiagnosisOf(facts.analysis, facts.review)
           /\ facts.action = FactsAction
           /\ facts.implementation =
                 ImplementationOf(facts.analysis, facts.review, facts.action)
           /\ facts.test = TestOf(facts.action, facts.implementation)
           /\ facts.retest = RetestOf(facts.implementation, facts.test)
           /\ facts.outcome =
                 OutcomeOf([analysis |-> facts.analysis, review |-> facts.review,
                            diagnosis |-> facts.diagnosis, action |-> facts.action],
                           facts.implementation, facts.test, facts.retest)
    BY DEF Facts

\* No current change of an action is newer than the one the query finds ...
LEMMA NewestChange ==
    ASSUME TypeOK, NEW a, NEW r, NEW m, NEW j \in DOMAIN implementations,
           implementations[j].chain.action = m, implementations[j].chain.analysis = a,
           implementations[j].chain.review = r,
           implementations[j].workflow_status = "current"
    PROVE  j <= ImplementationOf(a, r, m)
<1>. DEFINE ids == {i \in DOMAIN implementations :
                      /\ implementations[i].chain.action = m
                      /\ implementations[i].chain.analysis = a
                      /\ implementations[i].chain.review = r
                      /\ implementations[i].workflow_status = "current"}
<1>1. /\ j \in ids /\ ids \subseteq DOMAIN implementations
      /\ implementations \in Seq(Implementation)
    BY DEF TypeOK
<1>2. ImplementationOf(a, r, m) = Newest(ids)
    BY DEF ImplementationOf
<1>. HIDE DEF ids
<1>. QED
    BY <1>1, <1>2, NewestOfRows

\* ... and no current test of a change.
LEMMA NewestTest ==
    ASSUME TypeOK, NEW m, NEW i, NEW u \in DOMAIN tests,
           tests[u].action = m, tests[u].implementation = i,
           tests[u].workflow_status = "current"
    PROVE  u <= TestOf(m, i)
<1>1. u \in TestsOf(m, i) /\ TestsOf(m, i) \subseteq DOMAIN tests /\ tests \in Seq(Test)
    BY DEF TestsOf, TypeOK
<1>. QED
    BY <1>1, NewestOfRows DEF TestOf

\* The latest review of the current analysis is the latest of all.
LEMMA LatestOfAll ==
    ASSUME LInv, NEW r, r = LatestReview, r # 0
    PROVE  r = Len(reviews) /\ r \in DOMAIN reviews
<1>1. PICK a : a = Newest(CurrentAnalyses)
    OBVIOUS
<1>2. /\ r \in DOMAIN reviews /\ reviews[r].analysis = a /\ a \in CurrentAnalyses
      /\ \A q \in DOMAIN reviews : reviews[q].analysis = a => q <= r
    BY <1>1, LatestReviewFound
<1>3. /\ DOMAIN analyses = 1..Len(analyses) /\ Len(analyses) \in Nat
      /\ DOMAIN reviews = 1..Len(reviews) /\ Len(reviews) \in Nat
    BY LenProperties DEF LInv, IInv, TypeOK
<1>4. Len(reviews) \in DOMAIN reviews /\ r <= Len(reviews)
    BY <1>2, <1>3
<1>5. /\ reviews[Len(reviews)].analysis \in DOMAIN analyses
      /\ reviews[r].analysis <= reviews[Len(reviews)].analysis
    BY <1>2, <1>4 DEF LInv, InOrder, IInv, ExactChains
<1>6. a = Len(analyses)
    BY <1>2 DEF LInv, InOrder
<1>7. reviews[Len(reviews)].analysis = a
    BY <1>2, <1>3, <1>5, <1>6
<1>8. Len(reviews) <= r
    BY <1>2, <1>4, <1>7
<1>. QED
    BY <1>2, <1>3, <1>4, <1>8

\* A verification in force that is not the last, when a later one failed: the failure
\* is of the same change, on a test that was started before the one that is shown.
LEMMA LaterFailure ==
    ASSUME LInv, Verdicts, BranchInv, NEW facts, facts = Facts,
           Verified(facts), ChangeInForce(facts),
           NEW g \in DOMAIN fixes, g # outcomes[facts.outcome].fix,
           outcomes[facts.outcome].fix <= g
    PROVE  /\ fixes[g].implementation = facts.implementation
           /\ fixes[g].test < facts.test
<1>1. PICK o, f, c, m, i : /\ o = facts.outcome /\ f = outcomes[o].fix
                           /\ c = outcomes[o].chain /\ m = facts.action
                           /\ i = facts.implementation
    OBVIOUS
<1>2. /\ TypeOK /\ IInv /\ Lineage /\ WholeBranch /\ UsedOnce /\ LaterFixes
      /\ tests \in Seq(Test) /\ fixes \in Seq(FixVerification)
      /\ implementations \in Seq(Implementation)
    BY DEF LInv, IInv, BranchInv, TypeOK
<1>3. /\ o \in DOMAIN outcomes
      /\ c = [analysis |-> facts.analysis, review |-> facts.review,
              diagnosis |-> facts.diagnosis, action |-> m]
      /\ outcomes[o].implementation = i /\ outcomes[o].test = facts.test
      /\ outcomes[o].retest = facts.retest
      /\ Permission(facts.analysis, facts.review)
      /\ DiagnosisOn(facts.diagnosis, facts.analysis, facts.review)
    BY <1>1, FactsFitTogether DEF Verified
<1>4. /\ c.analysis = facts.analysis /\ c.review = facts.review
      /\ c.diagnosis = facts.diagnosis /\ c.action = m
    BY <1>3
<1>5. /\ f \in DOMAIN fixes /\ fixes[f].chain = c /\ fixes[f].retest = facts.retest
      /\ facts.retest \in DOMAIN retests /\ retests[facts.retest].test = facts.test
      /\ retests[facts.retest].implementation = i
      /\ i \in DOMAIN implementations /\ facts.test \in DOMAIN tests
    BY <1>1, <1>2, <1>3, OutcomeRefs, ZenonT(60)
<1>6. InForceFix(f)
    BY <1>3, <1>4, <1>5 DEF InForceFix, Allowed, CurrentDiagnosis, DiagnosisOn
<1>7. f < g
    <2>1. DOMAIN fixes \subseteq Nat
        BY <1>2, LenProperties
    <2>. QED
        BY <1>1, <1>5, <2>1
<1>8. fixes[f].implementation = i /\ implementations[i].status = "completed"
    BY <1>1, <1>5 DEF Verdicts, ChangeInForce
<1>9. fixes[g].chain = c /\ i <= fixes[g].implementation
    BY <1>2, <1>5, <1>6, <1>7, <1>8 DEF LaterFixes
<1>10. PICK j, k, t : j = fixes[g].implementation /\ k = fixes[g].retest /\ t = fixes[g].test
    OBVIOUS
<1>11. /\ j \in DOMAIN implementations /\ implementations[j].chain = c
       /\ k \in DOMAIN retests
    BY <1>2, <1>9, <1>10, FixChain
<1>12. /\ retests[k].test = t /\ retests[k].implementation = j
       /\ t \in DOMAIN tests /\ tests[t].implementation = j
    BY <1>2, <1>10, <1>11 DEF Verdicts, Lineage
<1>13. CurrentDiagnosis(c.diagnosis)
    BY <1>3, <1>4 DEF DiagnosisOn, CurrentDiagnosis
<1>14. j = i
    <2>1. implementations[j].workflow_status = "current"
        BY <1>2, <1>11, <1>13 DEF WholeBranch
    <2>2. j <= i
        <3>1. i = ImplementationOf(facts.analysis, facts.review, m)
            BY <1>1, FactsColumns
        <3>2. /\ implementations[j].chain.action = m
              /\ implementations[j].chain.analysis = facts.analysis
              /\ implementations[j].chain.review = facts.review
            BY <1>4, <1>11
        <3>. QED
            BY <1>2, <1>11, <2>1, <3>1, <3>2, NewestChange
    <2>3. DOMAIN implementations \subseteq Nat
        BY <1>2, LenProperties
    <2>. QED
        BY <1>5, <1>9, <1>10, <1>11, <2>2, <2>3
<1>15. t <= facts.test
    <2>1. tests[t].workflow_status = "current" /\ tests[t].action = m
        BY <1>2, <1>4, <1>11, <1>12, <1>13 DEF WholeBranch, IInv, ExactChains
    <2>2. facts.test = TestOf(m, i)
        BY <1>1, FactsColumns
    <2>. QED
        BY <1>2, <1>12, <1>14, <2>1, <2>2, NewestTest
<1>16. t # facts.test
    <2>1. t = facts.test => k = facts.retest
        BY <1>2, <1>5, <1>11, <1>12 DEF UsedOnce
    <2>2. k # facts.retest
        BY <1>1, <1>2, <1>5, <1>10 DEF UsedOnce
    <2>. QED
        BY <2>1, <2>2
<1>17. t < facts.test
    <2>1. DOMAIN tests \subseteq Nat
        BY <1>2, LenProperties
    <2>. QED
        BY <1>5, <1>12, <1>15, <1>16, <2>1
<1>. QED
    BY <1>1, <1>10, <1>14, <1>17

\* What is reported ready and the incident's status tell the same story.
LEMMA StatusHolds ==
    ASSUME LInv, Verdicts, BranchInv
    PROVE  ReadyMatchesStatus
<1>. SUFFICES ASSUME NEW facts, facts = Facts, ReportReady(facts)
              PROVE  \/ FalsePositiveChain /\ incident = "false_positive"
                     \/ Approved /\ incident = "fixed"
                     \/ Approved /\ \E f \in DOMAIN fixes :
                           /\ f > outcomes[facts.outcome].fix
                           /\ fixes[f].implementation = facts.implementation
                           /\ fixes[f].test < facts.test
                           /\ fixes[f].status = "failed"
    BY DEF ReadyMatchesStatus
<1>1. StatusTold /\ TypeOK /\ IInv /\ Lineage
    BY DEF BranchInv, LInv, IInv
<1>2. CASE FalsePositiveChain
    <2>1. PICK r : r = LatestReview
        OBVIOUS
    <2>2. r # 0 /\ reviews[r].progression_valid /\ Decision = "rejected_false_positive"
        BY <1>2, <2>1 DEF FalsePositiveChain, Valid, DecidedAs
    <2>3. r = Len(reviews) /\ r \in DOMAIN reviews /\ Decision = reviews[r].decision
        BY <2>1, <2>2, LatestOfAll, LatestReviewFound
    <2>4. incident = StatusAfterReview(reviews[r].decision)
        BY <1>1, <2>2, <2>3 DEF StatusTold
    <2>. QED
        BY <1>2, <2>2, <2>3, <2>4 DEF StatusAfterReview
<1>3. CASE ~ FalsePositiveChain
    <2>1. Approved /\ Verified(facts) /\ ChangeInForce(facts)
        BY <1>3 DEF ReportReady
    <2>2. PICK f, g : f = outcomes[facts.outcome].fix /\ g = Len(fixes)
        OBVIOUS
    <2>3. /\ facts.outcome \in DOMAIN outcomes
          /\ outcomes[facts.outcome].chain =
                [analysis |-> facts.analysis, review |-> facts.review,
                 diagnosis |-> facts.diagnosis, action |-> facts.action]
          /\ Permission(facts.analysis, facts.review)
        BY <2>1, FactsFitTogether DEF Verified
    <2>4. f \in DOMAIN fixes /\ fixes[f].chain = outcomes[facts.outcome].chain
        BY <1>1, <2>2, <2>3, OutcomeRefs
    <2>5. fixes[f].status = "passed"
        BY <2>1, <2>2, AnchoredOutcome
    <2>6. incident = StatusAfterVerification(fixes[g].status)
        <3>1. Allowed(f)
            BY <2>3, <2>4 DEF Allowed
        <3>. QED
            BY <1>1, <2>2, <2>4, <3>1 DEF StatusTold
    <2>7. /\ DOMAIN fixes = 1..g /\ g \in Nat /\ g \in DOMAIN fixes
          /\ f <= g /\ f \in Nat
        <3>1. DOMAIN fixes = 1..g /\ g \in Nat
            BY <1>1, <2>2, LenProperties DEF TypeOK
        <3>2. f \in Nat /\ 1 <= f /\ f <= g
            BY <2>4, <3>1
        <3>. QED
            BY <3>1, <3>2
    <2>8. CASE fixes[g].status = "passed"
        BY <2>1, <2>6, <2>8 DEF StatusAfterVerification
    <2>9. CASE fixes[g].status # "passed"
        <3>1. fixes[g].status = "failed"
            BY <1>1, <2>7, <2>9, Rows DEF FixVerification
        <3>2. f # g /\ f < g
            BY <2>5, <2>7, <2>9
        <3>3. fixes[g].implementation = facts.implementation /\ fixes[g].test < facts.test
            BY <2>1, <2>2, <2>7, <3>2, LaterFailure
        <3>. QED
            BY <2>1, <2>2, <2>7, <3>1, <3>2, <3>3
    <2>. QED
        BY <2>8, <2>9
<1>. QED
    BY <1>2, <1>3

\* What is reported ready is what the screen offers and what the incident's status tells,
\* however tests, retests and verifications of one change overlap
\* (incident_workflow_service, report_readiness_service, remediation_fix_service).
THEOREM ReadinessTold == Spec => []ReadyMatches
<1>1. LInv /\ Verdicts /\ BranchInv => ReadyMatches
    BY ScreenHolds, StatusHolds DEF ReadyMatches
<1>. QED
    BY <1>1, BranchInvariant, PTL

-----------------------------------------------------------------------------
(* What the facts report, stage by stage *)

\* Whatever the facts name is a row of the branch they have followed so far.
LEMMA FactsFound ==
    ASSUME TypeOK, NEW facts, facts = Facts
    PROVE  /\ facts.review # 0 => Permission(facts.analysis, facts.review)
           /\ facts.diagnosis # 0 =>
                 /\ facts.diagnosis \in DOMAIN diagnoses
                 /\ DiagnosisOn(facts.diagnosis, facts.analysis, facts.review)
           /\ facts.action # 0 =>
                 /\ facts.action \in DOMAIN actions
                 /\ ActionOn(facts.action, facts.analysis, facts.review)
           /\ facts.implementation # 0 =>
                 /\ facts.implementation \in DOMAIN implementations
                 /\ implementations[facts.implementation].chain.action = facts.action
                 /\ implementations[facts.implementation].chain.analysis = facts.analysis
                 /\ implementations[facts.implementation].chain.review = facts.review
                 /\ implementations[facts.implementation].workflow_status = "current"
           /\ facts.test # 0 =>
                 /\ facts.test \in DOMAIN tests
                 /\ tests[facts.test].action = facts.action
                 /\ tests[facts.test].implementation = facts.implementation
                 /\ tests[facts.test].workflow_status = "current"
           /\ facts.retest # 0 =>
                 /\ facts.retest \in DOMAIN retests
                 /\ retests[facts.retest].implementation = facts.implementation
                 /\ retests[facts.retest].test = facts.test
                 /\ retests[facts.retest].workflow_status = "current"
<1>1. PICK a, r, m, i, t : /\ a = facts.analysis /\ r = facts.review /\ m = facts.action
                           /\ i = facts.implementation /\ t = facts.test
    OBVIOUS
<1>2. /\ reviews \in Seq(Review) /\ diagnoses \in Seq(Diagnosis)
      /\ implementations \in Seq(Implementation) /\ tests \in Seq(Test)
      /\ retests \in Seq(Retest)
    BY DEF TypeOK
<1>3. r # 0 => Permission(a, r)
    <2>. DEFINE ids == {q \in DOMAIN reviews : Permission(a, q)}
    <2>1. r = Newest(ids) /\ ids \subseteq DOMAIN reviews
        BY <1>1, FactsColumns
    <2>2. r # 0 => r \in ids
        <3>. HIDE DEF ids
        <3>. QED
            BY <1>2, <2>1, NewestOfRows
    <2>. QED
        BY <2>2
<1>4. facts.diagnosis # 0 => /\ facts.diagnosis \in DOMAIN diagnoses
                             /\ DiagnosisOn(facts.diagnosis, a, r)
    <2>. DEFINE branch == {e \in DOMAIN diagnoses : DiagnosisOn(e, a, r)}
                accepted == {e \in branch : diagnoses[e].status = "accepted"}
                ids == IF accepted # {} THEN accepted ELSE branch
    <2>1. /\ facts.diagnosis = Newest(ids) /\ ids \subseteq branch
          /\ branch \subseteq DOMAIN diagnoses
        BY <1>1, FactsColumns DEF DiagnosisOf
    <2>2. facts.diagnosis # 0 => facts.diagnosis \in branch
        <3>. HIDE DEF branch, ids
        <3>1. ids \subseteq DOMAIN diagnoses
            BY <2>1
        <3>. QED
            BY <1>2, <2>1, <3>1, NewestOfRows
    <2>. QED
        BY <2>2
<1>5. m # 0 => m \in DOMAIN actions /\ ActionOn(m, a, r)
    BY <1>1, FactsColumns, FactsActionFound
<1>6. i # 0 => /\ i \in DOMAIN implementations /\ implementations[i].chain.action = m
               /\ implementations[i].chain.analysis = a /\ implementations[i].chain.review = r
               /\ implementations[i].workflow_status = "current"
    <2>. DEFINE ids == {j \in DOMAIN implementations :
                          /\ implementations[j].chain.action = m
                          /\ implementations[j].chain.analysis = a
                          /\ implementations[j].chain.review = r
                          /\ implementations[j].workflow_status = "current"}
    <2>1. i = Newest(ids) /\ ids \subseteq DOMAIN implementations
        BY <1>1, FactsColumns DEF ImplementationOf
    <2>2. i # 0 => i \in ids
        <3>. HIDE DEF ids
        <3>. QED
            BY <1>2, <2>1, NewestOfRows
    <2>. QED
        BY <2>2
<1>7. t # 0 => /\ t \in DOMAIN tests /\ tests[t].action = m /\ tests[t].implementation = i
               /\ tests[t].workflow_status = "current"
    <2>1. t = Newest(TestsOf(m, i)) /\ TestsOf(m, i) \subseteq DOMAIN tests
        BY <1>1, FactsColumns DEF TestOf, TestsOf
    <2>2. t # 0 => t \in TestsOf(m, i)
        BY <1>2, <2>1, NewestOfRows
    <2>. QED
        BY <2>2 DEF TestsOf
<1>8. facts.retest # 0 => /\ facts.retest \in DOMAIN retests
                          /\ retests[facts.retest].implementation = i
                          /\ retests[facts.retest].test = t
                          /\ retests[facts.retest].workflow_status = "current"
    <2>. DEFINE ids == {k \in DOMAIN retests :
                          /\ retests[k].implementation = i /\ retests[k].test = t
                          /\ retests[k].workflow_status = "current"}
    <2>1. facts.retest = Newest(ids) /\ ids \subseteq DOMAIN retests
        BY <1>1, FactsColumns DEF RetestOf
    <2>2. facts.retest # 0 => facts.retest \in ids
        <3>. HIDE DEF ids
        <3>. QED
            BY <1>2, <2>1, NewestOfRows
    <2>. QED
        BY <2>2
<1>. QED
    BY <1>1, <1>3, <1>4, <1>5, <1>6, <1>7, <1>8

\* No table has a row of number 0.
LEMMA NoRowZero ==
    ASSUME TypeOK
    PROVE  /\ 0 \notin DOMAIN analyses /\ 0 \notin DOMAIN reviews
           /\ 0 \notin DOMAIN diagnoses /\ 0 \notin DOMAIN actions
           /\ 0 \notin DOMAIN implementations /\ 0 \notin DOMAIN tests
           /\ 0 \notin DOMAIN retests /\ 0 \notin DOMAIN fixes
           /\ 0 \notin DOMAIN outcomes /\ 0 \notin DOMAIN cases
<1>1. /\ analyses \in Seq(Analysis) /\ reviews \in Seq(Review)
      /\ diagnoses \in Seq(Diagnosis) /\ actions \in Seq(Action)
      /\ implementations \in Seq(Implementation) /\ tests \in Seq(Test)
      /\ retests \in Seq(Retest) /\ fixes \in Seq(FixVerification)
      /\ outcomes \in Seq(Outcome) /\ cases \in Seq(Case)
    BY DEF TypeOK
<1>2. ASSUME NEW S, NEW rows \in Seq(S) PROVE 0 \notin DOMAIN rows
    BY LenProperties
<1>. QED
    BY <1>1, <1>2

\* What the facts leave out, they leave out from there on.
LEMMA FactsEnd ==
    ASSUME LInv, NEW facts, facts = Facts
    PROVE  /\ facts.review = 0 => /\ facts.diagnosis = 0 /\ facts.action = 0
                                  /\ facts.implementation = 0
           /\ facts.action # 0 /\ actions[facts.action].diagnosis = 0 =>
                 facts.implementation = 0
           /\ facts.action = 0 => facts.implementation = 0
           /\ facts.implementation = 0 => facts.test = 0
           /\ facts.test = 0 => facts.retest = 0
           /\ facts.retest = 0 => facts.outcome = 0
<1>1. TypeOK /\ IInv /\ Lineage
    BY DEF LInv, IInv
<1>2. facts.implementation # 0 =>
          /\ facts.action \in DOMAIN actions /\ actions[facts.action].diagnosis # 0
          /\ actions[facts.action].review = facts.review
    <2>1. ASSUME NEW i \in DOMAIN implementations, NEW m, m = implementations[i].chain.action
          PROVE  /\ m \in DOMAIN actions /\ actions[m].diagnosis # 0
                 /\ actions[m].review = implementations[i].chain.review
        <3>1. /\ m \in DOMAIN actions /\ implementations[i].chain = ChainOf(m)
              /\ implementations[i].chain.diagnosis # 0
            BY <1>1, <2>1 DEF IInv, ExactChains, Lineage
        <3>. QED
            BY <3>1 DEF ChainOf
    <2>. QED
        BY <1>1, <2>1, FactsFound
<1>3. ASSUME facts.review = 0
      PROVE  facts.diagnosis = 0 /\ facts.action = 0 /\ facts.implementation = 0
    <2>1. ASSUME facts.diagnosis # 0 PROVE FALSE
        <3>1. /\ facts.diagnosis \in DOMAIN diagnoses
              /\ diagnoses[facts.diagnosis].review = 0
            BY <1>1, <1>3, <2>1, FactsFound DEF DiagnosisOn
        <3>. QED
            BY <1>1, <3>1, NoRowZero DEF Lineage, ApprovedBy
    <2>2. ASSUME NEW m \in DOMAIN actions, actions[m].review = 0 PROVE FALSE
        BY <1>1, <2>2, NoRowZero DEF Lineage, ApprovedBy
    <2>3. facts.action # 0 => /\ facts.action \in DOMAIN actions
                              /\ actions[facts.action].review = 0
        BY <1>1, <1>3, FactsFound DEF ActionOn
    <2>. QED
        BY <1>2, <1>3, <2>1, <2>2, <2>3
<1>4. facts.action = 0 => facts.implementation = 0
    BY <1>1, <1>2, NoRowZero
<1>5. facts.implementation = 0 => facts.test = 0
    <2>1. facts.test # 0 => facts.implementation \in DOMAIN implementations
        BY <1>1, FactsFound DEF IInv, ExactChains
    <2>. QED
        BY <1>1, <2>1, NoRowZero
<1>6. facts.test = 0 => facts.retest = 0
    <2>1. facts.retest # 0 => facts.test \in DOMAIN tests
        BY <1>1, FactsFound DEF Lineage
    <2>. QED
        BY <1>1, <2>1, NoRowZero
<1>7. facts.retest = 0 => facts.outcome = 0
    <2>1. ASSUME facts.outcome # 0 PROVE facts.retest \in DOMAIN retests
        <3>1. /\ facts.outcome \in DOMAIN outcomes
              /\ outcomes[facts.outcome].retest = facts.retest
            BY <2>1, FactsFitTogether
        <3>. QED
            BY <1>1, <3>1, OutcomeRefs
    <2>. QED
        BY <1>1, <2>1, NoRowZero
<1>. QED
    BY <1>2, <1>3, <1>4, <1>5, <1>6, <1>7

\* Only a permitted review is reported: where the latest one does not approve, or is no
\* longer valid, none is.
LEMMA UnapprovedFacts ==
    ASSUME LInv, NEW facts, facts = Facts, ~ (Approved /\ Valid)
    PROVE  facts.review = 0
<1>1. CASE LatestReview # 0
    BY <1>1, ReviewOfFacts
<1>2. CASE LatestReview = 0
    <2>. DEFINE ids == {q \in DOMAIN reviews : reviews[q].analysis = facts.analysis}
    <2>1. TypeOK /\ reviews \in Seq(Review)
        BY DEF LInv, IInv, TypeOK
    <2>2. Newest(ids) = 0 /\ ids \subseteq DOMAIN reviews
        BY <1>2, FactsColumns DEF LatestReview
    <2>3. ids = {}
        <3>. HIDE DEF ids
        <3>. QED
            BY <2>1, <2>2, NewestOfRows, NoRowZero
    <2>4. ~ Permission(facts.analysis, facts.review)
        BY <2>3 DEF Permission
    <2>. QED
        BY <2>1, <2>4, FactsFound
<1>. QED
    BY <1>1, <1>2

-----------------------------------------------------------------------------
(* The rows a report cites *)

\* The action of the facts is their diagnosis's own, or a manual one.
LEMMA FactsActionOn ==
    ASSUME TypeOK, NEW facts, facts = Facts, facts.action # 0
    PROVE  actions[facts.action].diagnosis \in {0, facts.diagnosis}
<1>1. PICK a, r, d : a = facts.analysis /\ r = facts.review /\ d = facts.diagnosis
    OBVIOUS
<1>. DEFINE of(e) == {m \in DOMAIN actions : ActionOn(m, a, r) /\ actions[m].diagnosis = e}
<1>2. /\ a = Newest(CurrentAnalyses) /\ r = Newest({q \in DOMAIN reviews : Permission(a, q)})
      /\ d = DiagnosisOf(a, r) /\ facts.action = FactsAction
    BY <1>1, FactsColumns
<1>3. facts.action = IF Newest(of(d)) # 0 THEN Newest(of(d)) ELSE Newest(of(0))
    BY <1>2 DEF FactsAction, DiagnosisOf
<1>4. \A e : Newest(of(e)) # 0 => actions[Newest(of(e))].diagnosis = e
    <2>1. \A e : of(e) \subseteq DOMAIN actions
        OBVIOUS
    <2>2. \A e : \A m \in of(e) : actions[m].diagnosis = e
        OBVIOUS
    <2>3. actions \in Seq(Action)
        BY DEF TypeOK
    <2>. HIDE DEF of
    <2>. QED
        BY <2>1, <2>2, <2>3, NewestOfRows
<1>. HIDE DEF of
<1>. QED
    BY <1>1, <1>3, <1>4

\* The facts' current verification has its outcome, and it is the facts' own: the report
\* is never blocked on a verification without one.
LEMMA OutcomeOfVerification ==
    ASSUME LInv, Verdicts, BranchInv, NEW facts, facts = Facts, facts.retest # 0,
           NEW f \in DOMAIN fixes, fixes[f].retest = facts.retest
    PROVE  facts.outcome # 0
<1>1. PICK m, i, t, k, c : /\ m = facts.action /\ i = facts.implementation /\ t = facts.test
                           /\ k = facts.retest /\ c = fixes[f].chain
    OBVIOUS
<1>2. /\ TypeOK /\ IInv /\ Lineage /\ WholeBranch /\ UsedOnce
      /\ outcomes \in Seq(Outcome) /\ fixes \in Seq(FixVerification)
    BY DEF LInv, IInv, BranchInv, TypeOK
<1>3. /\ k \in DOMAIN retests /\ retests[k].implementation = i /\ retests[k].test = t
      /\ c = retests[k].chain /\ i \in DOMAIN implementations
      /\ c = implementations[i].chain
    BY <1>1, <1>2, FactsFound DEF IInv, ExactChains
<1>4. /\ i # 0 /\ c.action = m /\ c.analysis = facts.analysis /\ c.review = facts.review
    <2>1. i # 0
        BY <1>2, <1>3, NoRowZero
    <2>2. /\ implementations[i].chain.action = m
          /\ implementations[i].chain.analysis = facts.analysis
          /\ implementations[i].chain.review = facts.review
        BY <1>1, <1>2, <2>1, FactsFound
    <2>. QED
        BY <1>3, <2>1, <2>2
<1>5. /\ m \in DOMAIN actions /\ c = ChainOf(m)
      /\ c.diagnosis # 0 /\ c.diagnosis = actions[m].diagnosis
    BY <1>1, <1>2, <1>4, FixChain
<1>6. c.diagnosis = facts.diagnosis
    <2>1. m # 0
        BY <1>2, <1>5, NoRowZero
    <2>2. actions[m].diagnosis \in {0, facts.diagnosis}
        BY <1>1, <1>2, <2>1, FactsActionOn
    <2>. QED
        BY <1>5, <2>2
<1>7. CurrentDiagnosis(c.diagnosis)
    BY <1>2, <1>5, <1>6, FactsFound DEF DiagnosisOn, CurrentDiagnosis
<1>8. /\ f \in DOMAIN outcomes /\ outcomes[f].fix = f /\ outcomes[f].chain = c
      /\ outcomes[f].retest = k /\ outcomes[f].test = t /\ outcomes[f].implementation = i
    <2>1. f \in DOMAIN outcomes
        BY <1>2, LenProperties DEF UsedOnce
    <2>2. outcomes[f].fix = f
        BY <1>2, <2>1 DEF UsedOnce
    <2>3. outcomes[f].chain = c /\ outcomes[f].retest = k
        BY <1>1, <1>2, <2>1, <2>2 DEF IInv, ExactChains, Lineage
    <2>. QED
        BY <1>2, <1>3, <2>1, <2>2, <2>3 DEF Lineage
<1>9. outcomes[f].workflow_status = "current"
    BY <1>2, <1>7, <1>8 DEF WholeBranch
<1>. DEFINE chain == [analysis |-> facts.analysis, review |-> facts.review,
                      diagnosis |-> facts.diagnosis, action |-> m]
            ids == {o \in DOMAIN outcomes :
                      /\ outcomes[o].chain = chain /\ outcomes[o].implementation = i
                      /\ outcomes[o].test = t /\ outcomes[o].retest = k
                      /\ outcomes[o].workflow_status = "current"}
<1>10. c = chain
    BY <1>4, <1>5, <1>6 DEF ChainOf
<1>11. f \in ids /\ ids \subseteq DOMAIN outcomes
    BY <1>8, <1>9, <1>10
<1>12. facts.outcome = Newest(ids)
    BY <1>1, FactsColumns DEF OutcomeOf
<1>13. Newest(ids) \in ids
    <2>. HIDE DEF ids
    <2>. QED
        BY <1>2, <1>11, NewestOfRows
<1>. QED
    BY <1>2, <1>12, <1>13, NoRowZero

\* The newest of at most one row.
LEMMA NewestOfOne == \A n : Newest({n}) = n
BY DEF Newest


\* There is no newest of no rows.
LEMMA NewestOfNone == Newest({}) = 0
BY DEF Newest

\* An outcome of the facts anchors the report, whatever its result.
LEMMA OutcomeAnchors ==
    ASSUME LInv, Verdicts, BranchInv, NEW facts, facts = Facts, facts.outcome # 0
    PROVE  ExactFrom(facts.outcome)
<1>1. PICK o, chain, f, k, t, i, m, d :
          /\ o = facts.outcome /\ chain = outcomes[o].chain /\ f = outcomes[o].fix
          /\ k = outcomes[o].retest /\ t = outcomes[o].test
          /\ i = outcomes[o].implementation /\ m = chain.action /\ d = chain.diagnosis
    OBVIOUS
<1>2. IInv /\ Lineage /\ WholeBranch
    BY DEF LInv, BranchInv
<1>3. /\ o \in DOMAIN outcomes /\ outcomes[o].workflow_status = "current"
      /\ chain = [analysis |-> facts.analysis, review |-> facts.review,
                  diagnosis |-> facts.diagnosis, action |-> facts.action]
      /\ i = facts.implementation /\ t = facts.test /\ k = facts.retest
      /\ Permission(facts.analysis, facts.review)
      /\ DiagnosisOn(facts.diagnosis, facts.analysis, facts.review)
      /\ ActionOn(facts.action, facts.analysis, facts.review)
      /\ implementations[i].workflow_status = "current"
      /\ tests[t].workflow_status = "current" /\ retests[k].workflow_status = "current"
    BY <1>1, FactsFitTogether
<1>4. /\ chain.analysis = facts.analysis /\ chain.review = facts.review
      /\ d = facts.diagnosis /\ m = facts.action
    BY <1>1, <1>3
<1>5. /\ f \in DOMAIN fixes /\ fixes[f].chain = chain /\ fixes[f].retest = k
      /\ k \in DOMAIN retests /\ retests[k].chain = chain /\ retests[k].test = t
      /\ retests[k].implementation = i
      /\ t \in DOMAIN tests /\ tests[t].implementation = i
      /\ i \in DOMAIN implementations /\ implementations[i].chain = chain
      /\ actions[m].diagnosis = d /\ d # 0
    <2>1. /\ outcomes[o].fix = f /\ outcomes[o].retest = k /\ outcomes[o].test = t
          /\ outcomes[o].implementation = i /\ outcomes[o].chain = chain
        BY <1>1
    <2>2. /\ f \in DOMAIN fixes /\ fixes[f].chain = chain /\ fixes[f].retest = k
          /\ k \in DOMAIN retests /\ retests[k].chain = chain /\ retests[k].test = t
          /\ retests[k].implementation = i
          /\ t \in DOMAIN tests /\ tests[t].implementation = i
          /\ i \in DOMAIN implementations /\ implementations[i].chain = chain
        BY <1>2, <1>3, <2>1, OutcomeRefs
    <2>3. actions[chain.action].diagnosis = chain.diagnosis /\ chain.diagnosis # 0
        BY <1>2, <1>3, <2>1, OutcomeRefs
    <2>. QED
        BY <1>1, <2>2, <2>3
<1>6. tests[t].action = m /\ fixes[f].implementation = i /\ fixes[f].test = t
    <2>1. /\ tests[t].action = implementations[tests[t].implementation].chain.action
          /\ fixes[f].implementation = retests[fixes[f].retest].implementation
          /\ fixes[f].test = retests[fixes[f].retest].test
        BY <1>2, <1>5 DEF IInv, ExactChains
    <2>. QED
        BY <1>1, <1>5, <2>1
<1>7. fixes[f].workflow_status = "current"
    BY <1>1, <1>2, <1>3, <1>4, <1>5 DEF WholeBranch, DiagnosisOn, CurrentDiagnosis
<1>. QED
    BY <1>1, <1>3, <1>4, <1>5, <1>6, <1>7 DEF ExactFrom

\* The action a report gathers is the one of the facts, unless that is a manual one.
LEMMA ActionCited ==
    ASSUME LInv, NEW facts, facts = Facts,
           NEW m, m = ActionFor(facts.analysis, facts.review, facts.diagnosis)
    PROVE  \/ m = facts.action
           \/ m = 0 /\ facts.action # 0 /\ actions[facts.action].diagnosis = 0
<1>1. PICK a, r, d : a = facts.analysis /\ r = facts.review /\ d = facts.diagnosis
    OBVIOUS
<1>2. TypeOK /\ IInv /\ Lineage /\ actions \in Seq(Action)
    BY DEF LInv, IInv, TypeOK
<1>. DEFINE of(e) == {n \in DOMAIN actions : ActionOn(n, a, r) /\ actions[n].diagnosis = e}
            named == {n \in DOMAIN actions : /\ d # 0 /\ actions[n].review = r
                                             /\ actions[n].diagnosis = d
                                             /\ actions[n].workflow_status = "current"}
<1>3. facts.action = IF Newest(of(d)) # 0 THEN Newest(of(d)) ELSE Newest(of(0))
    <2>1. /\ a = Newest(CurrentAnalyses)
          /\ r = Newest({q \in DOMAIN reviews : Permission(a, q)})
          /\ d = DiagnosisOf(a, r) /\ facts.action = FactsAction
        BY <1>1, FactsColumns
    <2>. QED
        BY <2>1 DEF FactsAction, DiagnosisOf
<1>4. m = Newest({n \in {Newest(named)} \ {0} : actions[n].analysis = a})
    BY <1>1 DEF ActionFor
<1>5. CASE d = 0
    <2>1. named = {}
        BY <1>5
    <2>2. {n \in {Newest(named)} \ {0} : actions[n].analysis = a} = {}
        <3>. HIDE DEF named
        <3>. QED
            BY <2>1, NewestOfNone
    <2>3. m = 0
        BY <1>4, <2>2, NewestOfNone
    <2>. QED
        BY <1>1, <1>2, <1>5, <2>3, FactsActionOn
<1>6. CASE d # 0
    <2>1. diagnoses[d].analysis = a
        BY <1>1, <1>2, <1>6, FactsFound DEF DiagnosisOn
    <2>2. named = of(d)
        BY <1>2, <1>6, <2>1 DEF Lineage, ActionOn
    <2>3. of(d) \subseteq DOMAIN actions /\ \A n \in of(d) : actions[n].analysis = a
        BY DEF ActionOn
    <2>. HIDE DEF of, named
    <2>4. CASE of(d) = {}
        <3>1. {n \in {Newest(named)} \ {0} : actions[n].analysis = a} = {}
            BY <2>2, <2>4, NewestOfNone
        <3>2. m = 0
            BY <1>4, <3>1, NewestOfNone
        <3>3. facts.action = Newest(of(0))
            BY <1>3, <2>4, NewestOfNone
        <3>4. facts.action # 0 => actions[facts.action].diagnosis = 0
            <4>1. of(0) \subseteq DOMAIN actions /\ \A n \in of(0) : actions[n].diagnosis = 0
                BY DEF of
            <4>. QED
                BY <1>2, <3>3, <4>1, NewestOfRows
        <3>. QED
            BY <3>2, <3>4
    <2>5. CASE of(d) # {}
        <3>1. Newest(of(d)) \in of(d) /\ Newest(of(d)) # 0
            BY <1>2, <2>3, <2>5, NewestOfRows, NoRowZero
        <3>2. {n \in {Newest(named)} \ {0} : actions[n].analysis = a} = {Newest(of(d))}
            BY <2>2, <2>3, <3>1
        <3>. QED
            BY <1>3, <1>4, <3>1, <3>2, NewestOfOne
    <2>. QED
        BY <2>4, <2>5
<1>. QED
    BY <1>5, <1>6

\* Below one action, the report gathers what the facts do.
LEMMA ChangeCited ==
    ASSUME LInv, NEW facts, facts = Facts,
           NEW chain, chain = [analysis |-> facts.analysis, review |-> facts.review,
                               diagnosis |-> facts.diagnosis, action |-> facts.action]
    PROVE  /\ ChangeFor(chain) = facts.implementation
           /\ facts.implementation # 0 => implementations[facts.implementation].chain = chain
<1>1. PICK a, r, m : a = facts.analysis /\ r = facts.review /\ m = facts.action
    OBVIOUS
<1>2. /\ TypeOK /\ IInv /\ Lineage /\ implementations \in Seq(Implementation)
    BY DEF LInv, IInv, TypeOK
<1>. DEFINE named == {n \in DOMAIN implementations :
                        /\ m # 0 /\ implementations[n].chain.action = m
                        /\ implementations[n].workflow_status = "current"}
            ids == {n \in DOMAIN implementations :
                      /\ implementations[n].chain.action = m
                      /\ implementations[n].chain.analysis = a
                      /\ implementations[n].chain.review = r
                      /\ implementations[n].workflow_status = "current"}
<1>3. ASSUME NEW n \in DOMAIN implementations, implementations[n].chain.action = m
      PROVE  /\ implementations[n].chain.analysis = a /\ implementations[n].chain.review = r
             /\ implementations[n].chain = chain /\ m # 0
    <2>1. /\ m \in DOMAIN actions /\ implementations[n].chain = ChainOf(m)
          /\ implementations[n].chain.diagnosis # 0
        BY <1>2, <1>3 DEF IInv, ExactChains, Lineage
    <2>2. m # 0
        BY <1>2, <2>1, NoRowZero
    <2>3. ActionOn(m, a, r)
        BY <1>1, <1>2, <2>2, FactsFound
    <2>4. actions[m].diagnosis # 0
        BY <2>1 DEF ChainOf
    <2>5. actions[m].diagnosis = facts.diagnosis
        BY <1>1, <1>2, <2>2, <2>4, FactsActionOn
    <2>. QED
        BY <1>1, <2>1, <2>2, <2>3, <2>5 DEF ChainOf, ActionOn
<1>4. named = ids
    BY <1>3
<1>5. facts.implementation = Newest(ids)
    BY <1>1, FactsColumns DEF ImplementationOf
<1>6. ChangeFor(chain) = Newest({n \in {Newest(named)} \ {0} : implementations[n].chain = chain})
    BY <1>1 DEF ChangeFor
<1>7. ids \subseteq DOMAIN implementations /\ \A n \in ids : implementations[n].chain = chain
    BY <1>3
<1>. HIDE DEF ids, named
<1>8. CASE Newest(ids) = 0
    <2>1. {n \in {Newest(named)} \ {0} : implementations[n].chain = chain} = {}
        BY <1>4, <1>8
    <2>. QED
        BY <1>5, <1>6, <1>8, <2>1, NewestOfNone
<1>9. CASE Newest(ids) # 0
    <2>1. Newest(ids) \in ids
        BY <1>2, <1>7, <1>9, NewestOfRows
    <2>2. {n \in {Newest(named)} \ {0} : implementations[n].chain = chain} = {Newest(ids)}
        BY <1>4, <1>7, <1>9, <2>1
    <2>. QED
        BY <1>5, <1>6, <1>7, <2>1, <2>2, NewestOfOne
<1>. QED
    BY <1>8, <1>9

\* The retest a report cites is the one the facts found.
LEMMA RetestCited ==
    ASSUME LInv, NEW facts, facts = Facts, NEW chain,
           facts.implementation # 0 => implementations[facts.implementation].chain = chain
    PROVE  RetestFor(chain, facts.implementation, facts.test) = facts.retest
<1>1. PICK i, t, k : i = facts.implementation /\ t = facts.test /\ k = facts.retest
    OBVIOUS
<1>2. TypeOK /\ IInv /\ Lineage
    BY DEF LInv, IInv
<1>3. RetestFor(chain, i, t) = Newest({n \in {k} \ {0} : t # 0 /\ retests[n].chain = chain})
    BY <1>1, FactsColumns DEF RetestFor
<1>4. CASE k = 0
    <2>1. {n \in {k} \ {0} : t # 0 /\ retests[n].chain = chain} = {}
        BY <1>4
    <2>. QED
        BY <1>1, <1>3, <1>4, <2>1, NewestOfNone
<1>5. CASE k # 0
    <2>1. /\ k \in DOMAIN retests /\ retests[k].implementation = i /\ retests[k].test = t
        BY <1>1, <1>2, <1>5, FactsFound
    <2>2. i # 0 /\ t # 0 /\ retests[k].chain = implementations[i].chain
        BY <1>2, <2>1, NoRowZero DEF IInv, ExactChains, Lineage
    <2>3. {n \in {k} \ {0} : t # 0 /\ retests[n].chain = chain} = {k}
        BY <1>1, <1>5, <2>2
    <2>. QED
        BY <1>1, <1>3, <2>3, NewestOfOne
<1>. QED
    BY <1>4, <1>5

\* The columns of the rows, the action and the review apart.
SameRows(facts, cited) ==
    /\ cited.analysis = facts.analysis /\ cited.diagnosis = facts.diagnosis
    /\ cited.implementation = facts.implementation /\ cited.test = facts.test
    /\ cited.retest = facts.retest /\ cited.outcome = facts.outcome

\* Rows anchored on an outcome are the facts.
LEMMA AnchoredRows ==
    ASSUME LInv, Verdicts, BranchInv, NEW facts, facts = Facts, facts.outcome # 0,
           NEW cited, cited = CitedRows(facts)
    PROVE  /\ DOMAIN cited = DOMAIN NoRows /\ SameRows(facts, cited)
           /\ cited.action = facts.action /\ cited.review = facts.review
<1>1. PICK o, chain : /\ o = facts.outcome
                      /\ chain = [analysis |-> facts.analysis, review |-> facts.review,
                                  diagnosis |-> facts.diagnosis, action |-> facts.action]
    OBVIOUS
<1>2. /\ outcomes[o].chain = chain /\ outcomes[o].implementation = facts.implementation
      /\ outcomes[o].test = facts.test /\ outcomes[o].retest = facts.retest
    BY <1>1, FactsFitTogether
<1>3. ReportChainStatus(facts) = "current_complete"
    BY OutcomeAnchors DEF ReportChainStatus
<1>4. cited = [column \in DOMAIN NoRows |->
                  IF column \in DOMAIN chain THEN chain[column]
                  ELSE IF column = "outcome" THEN o ELSE outcomes[o][column]]
    BY <1>1, <1>2, <1>3 DEF CitedRows, RowsOf
<1>5. DOMAIN chain = {"analysis", "review", "diagnosis", "action"}
    BY <1>1
<1>6. DOMAIN NoRows = {"analysis", "review", "diagnosis", "action", "implementation",
                       "test", "retest", "outcome"}
    BY DEF NoRows
<1>7. DOMAIN cited = DOMAIN NoRows
    BY <1>4
<1>8. /\ cited.analysis = chain.analysis /\ cited.review = chain.review
      /\ cited.diagnosis = chain.diagnosis /\ cited.action = chain.action
      /\ cited.implementation = outcomes[o].implementation
      /\ cited.test = outcomes[o].test /\ cited.retest = outcomes[o].retest
      /\ cited.outcome = o
    BY <1>4, <1>5, <1>6
<1>. QED
    BY <1>1, <1>2, <1>7, <1>8 DEF SameRows

\* Rows gathered below an approved review are the facts, but for a manual action.
LEMMA GatheredRows ==
    ASSUME LInv, NEW facts, facts = Facts, facts.outcome = 0, Approved, Valid,
           NEW cited, cited = RowsOf("current_incomplete", facts)
    PROVE  /\ DOMAIN cited = DOMAIN NoRows /\ SameRows(facts, cited)
           /\ cited.review = facts.review
           /\ \/ cited.action = facts.action
              \/ cited.action = 0 /\ actions[facts.action].diagnosis = 0
<1>1. PICK a, r, d, m, i, t, k :
          /\ a = facts.analysis /\ r = facts.review /\ d = facts.diagnosis
          /\ m = ActionFor(a, r, d)
          /\ i = facts.implementation /\ t = facts.test /\ k = facts.retest
    OBVIOUS
<1>2. PICK chain : chain = [analysis |-> a, review |-> r, diagnosis |-> d, action |-> m]
    OBVIOUS
<1>3. LatestReview = r /\ d = DiagnosisOf(a, r)
    <2>1. LatestReview # 0
        BY DEF Valid
    <2>2. /\ r # 0 /\ a = Newest(CurrentAnalyses)
        BY <1>1, <2>1, ReviewOfFacts
    <2>3. Permission(a, r)
        BY <1>1, <2>2, FactsFound DEF LInv, IInv
    <2>. QED
        BY <1>1, <2>1, <2>2, <2>3, LatestReviewFound, FactsColumns
<1>4. cited = RowsBelowAction(chain)
    BY <1>1, <1>2, <1>3 DEF RowsOf, PartialRows, RowsBelowReview
<1>5. /\ \/ m = facts.action
         \/ m = 0 /\ facts.action # 0 /\ actions[facts.action].diagnosis = 0
      /\ ChangeFor(chain) = i
      /\ i # 0 => m = facts.action /\ implementations[i].chain = chain
    <2>1. \/ m = facts.action
          \/ m = 0 /\ facts.action # 0 /\ actions[facts.action].diagnosis = 0
        BY <1>1, ActionCited
    <2>2. CASE m = facts.action
        BY <1>1, <1>2, <2>2, ChangeCited
    <2>3. CASE m = 0 /\ facts.action # 0 /\ actions[facts.action].diagnosis = 0
        <3>1. i = 0
            BY <1>1, <2>3, FactsEnd
        <3>2. chain.action = 0
            BY <1>2, <2>3
        <3>3. ChangeFor(chain) = 0
            <4>1. {n \in DOMAIN implementations :
                      /\ chain.action # 0 /\ implementations[n].chain.action = chain.action
                      /\ implementations[n].workflow_status = "current"} = {}
                BY <3>2
            <4>2. {n \in {Newest({})} \ {0} : implementations[n].chain = chain} = {}
                BY NewestOfNone
            <4>. QED
                BY <4>1, <4>2, NewestOfNone DEF ChangeFor
        <3>. QED
            BY <2>3, <3>1, <3>3
    <2>. QED
        BY <2>1, <2>2, <2>3
<1>6. (IF i = 0 THEN 0 ELSE TestOf(chain.action, i)) = t
    <2>1. CASE i = 0
        BY <1>1, <2>1, FactsEnd
    <2>2. CASE i # 0
        BY <1>1, <1>2, <1>5, <2>2, FactsColumns
    <2>. QED
        BY <2>1, <2>2
<1>7. RetestFor(chain, i, t) = k
    BY <1>1, <1>5, RetestCited
<1>8. cited = [analysis |-> chain.analysis, review |-> chain.review,
               diagnosis |-> chain.diagnosis, action |-> chain.action,
               implementation |-> i, test |-> t, retest |-> k, outcome |-> 0]
    BY <1>4, <1>5, <1>6, <1>7 DEF RowsBelowAction, RowsBelowChange, RowsBelowTest
<1>9. /\ DOMAIN cited = DOMAIN NoRows
      /\ cited.analysis = a /\ cited.review = r /\ cited.diagnosis = d /\ cited.action = m
      /\ cited.implementation = i /\ cited.test = t /\ cited.retest = k
      /\ cited.outcome = 0
    BY <1>2, <1>8 DEF NoRows
<1>. QED
    BY <1>1, <1>5, <1>9 DEF SameRows

\* Where no review approves, the report cites the analysis, and the review at most.
LEMMA BareRows ==
    ASSUME LInv, NEW facts, facts = Facts, ~ (Approved /\ Valid),
           NEW cited, cited \in {RowsOf(Unanchored, facts)}
    PROVE  /\ DOMAIN cited = DOMAIN NoRows /\ SameRows(facts, cited)
           /\ cited.action = facts.action
           /\ cited.review = facts.review \/ FalsePositiveChain
<1>1. /\ facts.review = 0 /\ facts.diagnosis = 0 /\ facts.action = 0
      /\ facts.implementation = 0 /\ facts.test = 0 /\ facts.retest = 0
      /\ facts.outcome = 0
    BY UnapprovedFacts, FactsEnd
<1>2. PICK r : /\ cited = [NoRows EXCEPT !.analysis = facts.analysis, !.review = r]
               /\ r = 0 \/ FalsePositiveChain
    <2>1. CASE Unanchored \in {"current_incomplete", "current_false_positive"}
        <3>1. ~ Approved
            BY <2>1 DEF Unanchored, DecidedAs, Decision, Valid, Approved
        <3>. QED
            BY <2>1, <3>1 DEF RowsOf, PartialRows
    <2>2. CASE Unanchored = "blocked"
        BY <2>2 DEF RowsOf, NoRows
    <2>3. Unanchored \in {"current_incomplete", "current_false_positive", "blocked"}
        BY DEF Unanchored
    <2>. QED
        BY <2>1, <2>2, <2>3
<1>3. /\ DOMAIN cited = DOMAIN NoRows
      /\ cited.analysis = facts.analysis /\ cited.review = r /\ cited.diagnosis = 0
      /\ cited.action = 0 /\ cited.implementation = 0 /\ cited.test = 0
      /\ cited.retest = 0 /\ cited.outcome = 0
    BY <1>2 DEF NoRows
<1>. QED
    BY <1>1, <1>2, <1>3 DEF SameRows

\* The report's rows and the workflow's agree.
LEMMA RowsHold ==
    ASSUME LInv, Verdicts, BranchInv, NEW facts, facts = Facts,
           NEW cited, cited = CitedRows(facts)
    PROVE  RowsAgree(facts, cited) /\ SameRows(facts, cited)
<1>1. /\ DOMAIN cited = DOMAIN NoRows /\ SameRows(facts, cited)
      /\ \/ cited.action = facts.action
         \/ cited.action = 0 /\ actions[facts.action].diagnosis = 0
      /\ cited.review = facts.review \/ FalsePositiveChain
    <2>1. CASE facts.outcome # 0
        BY <2>1, AnchoredRows
    <2>2. CASE facts.outcome = 0
        <3>1. ReportChainStatus(facts) = Unanchored
            BY <2>2, OutcomeOfVerification DEF ReportChainStatus
        <3>2. CASE Approved /\ Valid
            <4>1. CurrentAnalyses # {} /\ ~ DecidedAs({"rejected_false_positive"})
                BY <3>2, LatestReviewFound DEF Approved, DecidedAs, Valid
            <4>2. Unanchored = "current_incomplete"
                BY <3>2, <4>1 DEF Unanchored, Approved
            <4>. QED
                BY <2>2, <3>1, <3>2, <4>2, GatheredRows DEF CitedRows
        <3>3. CASE ~ (Approved /\ Valid)
            BY <3>1, <3>3, BareRows DEF CitedRows
        <3>. QED
            BY <3>2, <3>3
    <2>. QED
        BY <2>1, <2>2
<1>2. DOMAIN cited = {"analysis", "review", "diagnosis", "action", "implementation",
                      "test", "retest", "outcome"}
    BY <1>1 DEF NoRows
<1>. QED
    BY <1>1, <1>2 DEF RowsAgree, SameRows

-----------------------------------------------------------------------------
(* The lifecycle phase *)

\* With one more position that applies, the first is what it was, or the new one.
LEMMA FirstOfMore ==
    ASSUME NEW n \in Nat, NEW S, NEW T, NEW x,
           S \subseteq T, T \subseteq S \cup {x}, T \subseteq 1 .. n, S # {}
    PROVE  First(T) = First(S) \/ (First(T) = x /\ x \notin S)
<1>1. First(S) \in S /\ \A m \in S : First(S) <= m
    BY FirstIsLeast
<1>2. First(T) \in T /\ \A m \in T : First(T) <= m
    BY FirstIsLeast
<1>3. CASE First(T) \in S
    <2>1. First(S) <= First(T) /\ First(T) <= First(S)
        BY <1>1, <1>2, <1>3
    <2>2. First(S) \in 1 .. n /\ First(T) \in 1 .. n
        BY <1>1, <1>2
    <2>. QED
        BY <2>1, <2>2
<1>4. CASE First(T) \notin S
    BY <1>2, <1>4
<1>. QED
    BY <1>3, <1>4

\* What the first of ten conditions that holds stands for.
FirstOf(order) == order[First({n \in 1 .. 10 : order[n][1]})][2]

\* With one condition more that holds, it is what it was, or what that one stands for.
LEMMA FirstWithMore ==
    ASSUME NEW x \in 1 .. 10, NEW old, NEW new,
           \A n \in 1 .. 10 : n # x => new[n] = old[n],
           old[x][1] => new[x][1], new[x][2] = old[x][2], old[10][1]
    PROVE  \/ FirstOf(new) = FirstOf(old)
           \/ new[x][1] /\ ~ old[x][1] /\ FirstOf(new) = new[x][2]
<1>1. PICK S, T : S = {n \in 1 .. 10 : old[n][1]} /\ T = {n \in 1 .. 10 : new[n][1]}
    OBVIOUS
<1>2. FirstOf(old) = old[First(S)][2] /\ FirstOf(new) = new[First(T)][2]
    BY <1>1 DEF FirstOf
<1>3. PICK last \in Nat : last = 10
    OBVIOUS
<1>4. /\ S \subseteq T /\ T \subseteq S \cup {x} /\ T \subseteq 1 .. last /\ 10 \in S
      /\ S \subseteq 1 .. last /\ S # {} /\ T # {}
    BY <1>1, <1>3
<1>5. First(T) = First(S) \/ (First(T) = x /\ x \notin S)
    BY <1>4, FirstOfMore
<1>6. First(S) \in S /\ First(T) \in T
    BY <1>4, FirstIsLeast
<1>7. CASE First(T) = First(S)
    <2>1. First(S) \in 1 .. 10 /\ (First(S) = x => new[x][2] = old[x][2])
        BY <1>1, <1>6
    <2>2. new[First(S)][2] = old[First(S)][2]
        BY <2>1
    <2>. QED
        BY <1>2, <1>7, <2>2
<1>8. CASE First(T) = x /\ x \notin S
    BY <1>1, <1>2, <1>6, <1>8
<1>. QED
    BY <1>5, <1>7, <1>8

\* The phase is the first of ten.
LEMMA PhaseIsFirst ==
    ASSUME NEW rows, NEW restored, NEW eligible
    PROVE  Phase(rows, restored, eligible) = FirstOf(PhaseOrder(rows, restored, eligible))
<1>1. DOMAIN PhaseOrder(rows, restored, eligible) = 1 .. 10
    BY DEF PhaseOrder
<1>. QED
    BY <1>1, Zenon DEF Phase, FirstOf

\* A rollback seen in addition changes the phase to remediation, or not at all.
LEMMA PhaseRestored ==
    ASSUME NEW rows, NEW eligible \in BOOLEAN
    PROVE  \/ Phase(rows, TRUE, eligible) = Phase(rows, FALSE, eligible)
           \/ Phase(rows, TRUE, eligible) = "REMEDIATING"
<1>1. PICK old, new : /\ old = PhaseOrder(rows, FALSE, eligible)
                      /\ new = PhaseOrder(rows, TRUE, eligible)
    OBVIOUS
<1>2. /\ new[1] = old[1] /\ new[2] = old[2] /\ new[3] = old[3] /\ new[5] = old[5]
      /\ new[6] = old[6] /\ new[7] = old[7] /\ new[8] = old[8] /\ new[9] = old[9]
      /\ new[10] = old[10]
    BY <1>1 DEF PhaseOrder
<1>3. /\ new[4][2] = old[4][2] /\ new[4][2] = "REMEDIATING" /\ new[4][1]
      /\ old[10][1]
    BY <1>1 DEF PhaseOrder
<1>4. \A n \in 1 .. 10 : n # 4 => new[n] = old[n]
    BY <1>2
<1>5. FirstOf(new) = FirstOf(old) \/ FirstOf(new) = "REMEDIATING"
    <2>1. PICK x \in 1 .. 10 : x = 4
        OBVIOUS
    <2>2. \A n \in 1 .. 10 : n # x => new[n] = old[n]
        BY <1>4, <2>1
    <2>3. old[x][1] => new[x][1]
        BY <1>3, <2>1
    <2>4. new[x][2] = old[x][2] /\ new[x][2] = "REMEDIATING" /\ old[10][1]
        BY <1>3, <2>1
    <2>5. FirstOf(new) = FirstOf(old) \/ (new[x][1] /\ ~ old[x][1] /\ FirstOf(new) = new[x][2])
        BY <2>2, <2>3, <2>4, FirstWithMore, Zenon
    <2>. QED
        BY <2>4, <2>5
<1>. QED
    BY <1>1, <1>5, PhaseIsFirst

\* So does a case in force, to a resolution that the incident's status does not tell of.
LEMMA PhaseLearned ==
    ASSUME NEW rows, NEW restored \in BOOLEAN
    PROVE  \/ Phase(rows, restored, TRUE) = Phase(rows, restored, FALSE)
           \/ /\ Phase(rows, restored, TRUE) = "RESOLVED" /\ incident # "fixed"
              /\ rows.outcome # 0 /\ outcomes[rows.outcome].result = "passed"
<1>1. PICK old, new : /\ old = PhaseOrder(rows, restored, FALSE)
                      /\ new = PhaseOrder(rows, restored, TRUE)
    OBVIOUS
<1>2. /\ new[1] = old[1] /\ new[2] = old[2] /\ new[4] = old[4] /\ new[5] = old[5]
      /\ new[6] = old[6] /\ new[7] = old[7] /\ new[8] = old[8] /\ new[9] = old[9]
      /\ new[10] = old[10]
    BY <1>1 DEF PhaseOrder
<1>3. new[3][2] = old[3][2] /\ new[3][2] = "RESOLVED" /\ old[10][1]
    BY <1>1 DEF PhaseOrder
<1>4. old[3][1] <=> incident = "fixed"
    BY <1>1 DEF PhaseOrder
<1>5. new[3][1] <=> \/ incident = "fixed"
                    \/ rows.outcome # 0 /\ outcomes[rows.outcome].result = "passed"
    BY <1>1 DEF PhaseOrder
<1>6. \A n \in 1 .. 10 : n # 3 => new[n] = old[n]
    BY <1>2
<1>7. \/ FirstOf(new) = FirstOf(old)
      \/ new[3][1] /\ ~ old[3][1] /\ FirstOf(new) = "RESOLVED"
    <2>1. PICK x \in 1 .. 10 : x = 3
        OBVIOUS
    <2>2. \A n \in 1 .. 10 : n # x => new[n] = old[n]
        BY <1>6, <2>1
    <2>3. old[x][1] => new[x][1]
        BY <1>4, <1>5, <2>1
    <2>4. new[x][2] = old[x][2] /\ new[x][2] = "RESOLVED" /\ old[10][1]
        BY <1>3, <2>1
    <2>5. FirstOf(new) = FirstOf(old) \/ (new[x][1] /\ ~ old[x][1] /\ FirstOf(new) = new[x][2])
        BY <2>2, <2>3, <2>4, FirstWithMore, Zenon
    <2>. QED
        BY <2>1, <2>4, <2>5
<1>. QED
    BY <1>1, <1>4, <1>5, <1>7, PhaseIsFirst

\* The newest rollback among some implementations, if there is one, is of one of them.
LEMMA RestoredFound ==
    ASSUME TypeOK, NEW S, S \subseteq DOMAIN implementations,
           NEW ids, ids = {c \in DOMAIN cases : /\ cases[c].result = "rolled_back"
                                                /\ cases[c].implementation \in S}
    PROVE  /\ RestoredLast(S) # 0 <=> ids # {}
           /\ RestoredLast(S) # 0 =>
                 \E c \in ids : RestoredLast(S) = cases[c].implementation
<1>1. cases \in Seq(Case) /\ ids \subseteq DOMAIN cases
    BY DEF TypeOK
<1>2. RestoredLast(S) = IF Newest(ids) = 0 THEN 0 ELSE cases[Newest(ids)].implementation
    BY DEF RestoredLast
<1>3. CASE ids = {}
    BY <1>2, <1>3, NewestOfNone
<1>4. CASE ids # {}
    <2>1. Newest(ids) \in ids
        BY <1>1, <1>4, NewestOfRows
    <2>2. Newest(ids) # 0
        BY <1>1, <2>1, NoRowZero
    <2>3. cases[Newest(ids)].implementation \in S
        BY <2>1
    <2>4. cases[Newest(ids)].implementation # 0
        BY <2>3, NoRowZero
    <2>. QED
        BY <1>2, <1>4, <2>1, <2>2, <2>4
<1>. QED
    BY <1>3, <1>4

\* The workflow's rollback is one the panel sees; the panel's other one is of another
\* implementation.
LEMMA RestoredSeen ==
    ASSUME TypeOK, NEW facts, facts = Facts
    PROVE  /\ RestoredLast({facts.implementation}) # 0 =>
                 RestoredLast(DOMAIN implementations) # 0
           /\ /\ RestoredLast({facts.implementation}) = 0
              /\ RestoredLast(DOMAIN implementations) # 0
              => RestoredLast(DOMAIN implementations) \notin {0, facts.implementation}
<1>1. PICK i : i = facts.implementation
    OBVIOUS
<1>2. PICK all, own :
          /\ all = {c \in DOMAIN cases : /\ cases[c].result = "rolled_back"
                                         /\ cases[c].implementation \in DOMAIN implementations}
          /\ own = {c \in DOMAIN cases : /\ cases[c].result = "rolled_back"
                                         /\ cases[c].implementation \in {i}}
    OBVIOUS
<1>3. /\ RestoredLast(DOMAIN implementations) # 0 <=> all # {}
      /\ RestoredLast(DOMAIN implementations) # 0 =>
            \E c \in all : RestoredLast(DOMAIN implementations) = cases[c].implementation
    BY <1>2, RestoredFound
<1>4. CASE i \in DOMAIN implementations
    <2>1. RestoredLast({i}) # 0 <=> own # {}
        BY <1>2, <1>4, RestoredFound
    <2>2. own \subseteq all /\ \A c \in all : cases[c].implementation = i => c \in own
        BY <1>2, <1>4
    <2>. QED
        BY <1>1, <1>3, <2>1, <2>2
<1>5. CASE i \notin DOMAIN implementations
    <2>1. i = 0
        BY <1>1, <1>5, FactsFound
    <2>2. RestoredLast({i}) = 0
        <3>. DEFINE c == Newest(own)
        <3>1. RestoredLast({i}) = IF c = 0 THEN 0 ELSE cases[c].implementation
            BY <1>2 DEF RestoredLast
        <3>2. cases \in Seq(Case) /\ own \subseteq DOMAIN cases
            BY <1>2 DEF TypeOK
        <3>3. c # 0 => c \in own
            BY <3>2, NewestOfRows
        <3>4. c # 0 => cases[c].implementation = i
            BY <1>2, <3>3
        <3>. QED
            BY <2>1, <3>1, <3>4
    <2>3. \A c \in all : cases[c].implementation # 0
        BY <1>2, NoRowZero
    <2>. QED
        BY <1>1, <1>3, <2>1, <2>2, <2>3
<1>. QED
    BY <1>4, <1>5

\* The panel's phase and the workflow's agree, but for what PhasesAgree names.
LEMMA PhasesHold ==
    ASSUME LInv, Verdicts, BranchInv, NEW facts, facts = Facts,
           NEW cited, SameRows(facts, cited)
    PROVE  PhasesAgree(facts, WorkflowPhase(facts), PanelPhase(cited))
<1>1. PICK own, all, learned :
          /\ own = (RestoredLast({facts.implementation}) # 0)
          /\ all = (RestoredLast(DOMAIN implementations) # 0)
          /\ learned = (facts.outcome # 0 /\ Learned(facts.outcome))
    OBVIOUS
<1>2. own \in BOOLEAN /\ all \in BOOLEAN /\ learned \in BOOLEAN
    BY <1>1
<1>3. WorkflowPhase(facts) = Phase(facts, own, FALSE)
    BY <1>1 DEF WorkflowPhase
<1>4. PanelPhase(cited) = Phase(facts, all, learned)
    <2>1. PhaseOrder(cited, all, learned) = PhaseOrder(facts, all, learned)
        BY DEF PhaseOrder, SameRows
    <2>2. PanelPhase(cited) = Phase(cited, all, learned)
        BY <1>1 DEF PanelPhase, SameRows
    <2>. QED
        BY <2>1, <2>2, PhaseIsFirst
<1>5. Phase(facts, all, learned) # Phase(facts, own, learned) =>
          /\ Phase(facts, all, learned) = "REMEDIATING"
          /\ RestoredLast(DOMAIN implementations) \notin {0, facts.implementation}
    <2>1. own => all
        BY <1>1, RestoredSeen DEF LInv, IInv
    <2>2. CASE own = all
        BY <2>2
    <2>3. CASE ~ own /\ all
        <3>1. own = FALSE /\ all = TRUE
            BY <1>2, <2>3
        <3>2. RestoredLast(DOMAIN implementations) \notin {0, facts.implementation}
            BY <1>1, <2>3, RestoredSeen DEF LInv, IInv
        <3>. QED
            BY <1>2, <3>1, <3>2, PhaseRestored
    <2>. QED
        BY <1>2, <2>1, <2>2, <2>3
<1>6. Phase(facts, own, learned) # Phase(facts, own, FALSE) =>
          /\ Phase(facts, own, learned) = "RESOLVED"
          /\ incident # "fixed" /\ Verified(facts)
    <2>1. CASE learned = TRUE
        BY <1>2, <2>1, PhaseLearned DEF Verified
    <2>2. CASE learned = FALSE
        BY <2>2
    <2>. QED
        BY <1>2, <2>1, <2>2
<1>7. ASSUME incident # "fixed", Verified(facts)
      PROVE  \E f \in DOMAIN fixes : /\ f > outcomes[facts.outcome].fix
                                     /\ fixes[f].status = "failed"
    <2>1. PICK f, g : f = outcomes[facts.outcome].fix /\ g = Len(fixes)
        OBVIOUS
    <2>2. StatusTold /\ TypeOK /\ IInv /\ Lineage
        BY DEF BranchInv, LInv, IInv
    <2>3. /\ facts.outcome \in DOMAIN outcomes
          /\ outcomes[facts.outcome].chain =
                [analysis |-> facts.analysis, review |-> facts.review,
                 diagnosis |-> facts.diagnosis, action |-> facts.action]
          /\ Permission(facts.analysis, facts.review)
        BY <1>7, FactsFitTogether DEF Verified
    <2>4. f \in DOMAIN fixes /\ fixes[f].chain = outcomes[facts.outcome].chain
        BY <2>1, <2>2, <2>3, OutcomeRefs
    <2>5. fixes[f].status = "passed"
        BY <1>7, <2>1, AnchoredOutcome
    <2>6. incident = StatusAfterVerification(fixes[g].status)
        BY <2>1, <2>2, <2>3, <2>4 DEF StatusTold, Allowed
    <2>7. /\ DOMAIN fixes = 1..g /\ g \in Nat /\ g \in DOMAIN fixes /\ f <= g /\ f \in Nat
        BY <2>1, <2>2, <2>4, LenProperties, SMTT(30) DEF TypeOK
    <2>8. fixes[g].status = "failed"
        BY <1>7, <2>2, <2>6, <2>7, Rows DEF FixVerification, StatusAfterVerification
    <2>. QED
        BY <2>1, <2>5, <2>7, <2>8
<1>. QED
    BY <1>3, <1>4, <1>5, <1>6, <1>7 DEF PhasesAgree

\* The three screens tell of one chain.
LEMMA ChainTold ==
    ASSUME LInv, Verdicts, BranchInv
    PROVE  ScreensTellOneChain
<1>. USE DEF ScreensTellOneChain
<1>. TAKE facts \in {Facts}
<1>. TAKE cited \in {CitedRows(facts)}
<1>. HIDE DEF ScreensTellOneChain
<1>1. facts = Facts /\ cited = CitedRows(facts)
    OBVIOUS
<1>2. RowsAgree(facts, cited) /\ SameRows(facts, cited)
    BY <1>1, RowsHold
<1>3. PhasesAgree(facts, WorkflowPhase(facts), PanelPhase(cited))
    BY <1>1, <1>2, PhasesHold
<1>. QED
    BY <1>2, <1>3

\* The workflow screen and the remediation panel, whose queries know nothing of each other,
\* name the same rows of one chain, and the same phase but for the cases PhasesAgree names
\* (incident_workflow_service, remediation_lifecycle_service).
THEOREM ScreensTold == Spec => []ScreensTellOneChain
<1>1. LInv /\ Verdicts /\ BranchInv => ScreensTellOneChain
    BY ChainTold
<1>. QED
    BY <1>1, BranchInvariant, PTL
=============================================================================
