------------------------ MODULE CertifiedChainProofs ------------------------
(***************************************************************************)
(* The governed chain implements CertifiedFixes, for every set of evidence *)
(* and every bound on the tables: each handler maps to one abstract step   *)
(* or to a stutter.                                                        *)
(***************************************************************************)
EXTENDS CertifiedChain, GovernedChainLineage

-----------------------------------------------------------------------------
(* The abstract variables *)

Basis == Newest(CurrentAnalyses)
Approval == Newest({r \in DOMAIN reviews : Permission(Basis, r)})

\* The gate admits some review of some analysis.
Permitted == \E a \in DOMAIN analyses, r \in DOMAIN reviews : Permission(a, r)

\* The newest of at most one row.
LEMMA NewestOfOne ==
    ASSUME NEW n \in Nat, NEW ids, ids \subseteq {n}
    PROVE  Newest(ids) = IF ids = {} THEN 0 ELSE n
<1>1. CASE ids = {}
    BY <1>1 DEF Newest
<1>2. CASE ids = {n}
    BY <1>2 DEF Newest
<1>. QED
    BY <1>1, <1>2

\* The basis is the newest analysis while it is current; the approval in force is the
\* newest review, if the gate accepts it.
LEMMA BasisAndApproval ==
    LInv => /\ Basis = IF CurrentAnalyses = {} THEN 0 ELSE Len(analyses)
            /\ Approval = IF Permitted THEN Len(reviews) ELSE 0
<1>. SUFFICES ASSUME LInv
              PROVE  /\ Basis = IF CurrentAnalyses = {} THEN 0 ELSE Len(analyses)
                     /\ Approval = IF Permitted THEN Len(reviews) ELSE 0
    OBVIOUS
<1>. DEFINE admitted == {r \in DOMAIN reviews : Permission(Basis, r)}
<1>1. Basis = IF CurrentAnalyses = {} THEN 0 ELSE Len(analyses)
    <2>1. Len(analyses) \in Nat
        BY LenProperties DEF LInv, IInv, TypeOK
    <2>. QED
        BY <2>1, NewestOfOne DEF LInv, InOrder, Basis
<1>2. \A a, r : Permission(a, r) => a = Len(analyses) /\ r = Len(reviews)
    BY PermittedIsNewest DEF LInv
<1>3. \A a, r : Permission(a, r) => a = Basis /\ r \in DOMAIN reviews
    BY <1>1, <1>2 DEF Permission
<1>4. admitted \subseteq {Len(reviews)} /\ (admitted = {} <=> ~ Permitted)
    <2>1. admitted \subseteq {Len(reviews)}
        BY <1>2
    <2>2. admitted # {} => Permitted
        BY PermissionIds DEF Permitted, LInv, IInv
    <2>3. Permitted => admitted # {}
        BY <1>3 DEF Permitted
    <2>. QED
        BY <2>1, <2>2, <2>3
<1>5. Approval = Newest(admitted)
    BY DEF Approval
<1>. HIDE DEF admitted
<1>6. Approval = IF Permitted THEN Len(reviews) ELSE 0
    <2>1. Len(reviews) \in Nat
        BY LenProperties DEF LInv, IInv, TypeOK
    <2>. QED
        BY <1>4, <1>5, <2>1, NewestOfOne
<1>. QED
    BY <1>1, <1>6

\* The same, of the state a step leads to.
LEMMA BasisAndApprovalNext ==
    LInv' => /\ Basis' = IF CurrentAnalyses' = {} THEN 0 ELSE Len(analyses')
             /\ Approval' = IF Permitted' THEN Len(reviews') ELSE 0
<1>1. (LInv => /\ Basis = IF CurrentAnalyses = {} THEN 0 ELSE Len(analyses)
               /\ Approval = IF Permitted THEN Len(reviews) ELSE 0)'
    BY BasisAndApproval, PTL
<1>. QED
    BY <1>1

\* What case c certifies.
CertificateOf(c) ==
    [id |-> cases[c].outcome,
     basis |-> outcomes[cases[c].outcome].chain.analysis,
     approval |-> outcomes[cases[c].outcome].chain.review]

\* Cases and outcomes that keep what a certificate says keep every certificate.
LEMMA CertificatesLeft ==
    ASSUME LInv, KeptCases(cases, cases'), LeftEligible(cases, cases'),
           \A c \in DOMAIN cases' \ DOMAIN cases : ~ cases'[c].eligible,
           UNCHANGED outcomes
    PROVE  InForceCertificates' = InForceCertificates
<1>1. \A c \in DOMAIN cases : /\ c \in DOMAIN cases'
                              /\ cases'[c].eligible = cases[c].eligible
                              /\ cases'[c].outcome = cases[c].outcome
    BY DEF KeptCases, KeptStatus, LeftEligible
<1>2. {n \in DOMAIN cases' : cases'[n].eligible} = {n \in DOMAIN cases : cases[n].eligible}
    BY <1>1
<1>3. \A c \in {n \in DOMAIN cases : cases[n].eligible} : CertificateOf(c)' = CertificateOf(c)
    BY <1>1 DEF CertificateOf
<1>. QED
    BY <1>2, <1>3 DEF InForceCertificates, CertificateOf

\* New evidence withdraws every certificate, and with them the basis.
LEMMA CascadeWithdraws ==
    ASSUME LInv, LInv', InvalidateReviews(CurrentAnalyses),
           InvalidateDownstream(CurrentAnalyses)
    PROVE  /\ InForceCertificates' = {}
           /\ Len(reviews') = Len(reviews) /\ Len(outcomes') = Len(outcomes)
<1>1. \A c \in DOMAIN cases' : ~ cases'[c].eligible
    <2>1. NothingCurrent'
        BY CascadeReachesAll DEF LInv
    <2>2. Standing'
        BY DEF LInv
    <2>. QED
        BY <2>1, <2>2 DEF NothingCurrent, Standing
<1>2. InForceCertificates' = {}
    BY <1>1 DEF InForceCertificates
<1>3. /\ reviews \in Seq(Review) /\ reviews' \in Seq(Review)
      /\ outcomes \in Seq(Outcome) /\ outcomes' \in Seq(Outcome)
    BY DEF LInv, IInv, TypeOK
<1>4. DOMAIN reviews' = DOMAIN reviews /\ DOMAIN outcomes' = DOMAIN outcomes
    BY DEF InvalidateReviews, InvalidateDownstream, RetireLearning
<1>. QED
    BY <1>2, <1>3, <1>4, SameLength

\* Marking the analysis stale is a withdrawal.
LEMMA StaleWithdraws ==
    ASSUME LInv, LInv', MarkStale
    PROVE  Abstract!Withdraw
<1>1. /\ InForceCertificates' = {}
      /\ Len(reviews') = Len(reviews) /\ Len(outcomes') = Len(outcomes)
    BY CascadeWithdraws DEF MarkStale
<1>2. Len(analyses') = Len(analyses)
    BY SupersededType DEF MarkStale, LInv, IInv
<1>3. CurrentAnalyses' = {}
    BY Rows DEF MarkStale, Superseded, CurrentAnalyses, Analysis, LInv, IInv
<1>4. ~ Permitted'
    BY <1>3 DEF Permitted, Permission
<1>5. Basis' = 0 /\ Approval' = 0
    BY <1>3, <1>4, BasisAndApprovalNext
<1>. QED
    BY <1>1, <1>2, <1>5 DEF Abstract!Withdraw, Basis, Approval

\* An analysis is a new basis, on which no review has been made.
LEMMA AnalyseRebases ==
    ASSUME LInv, LInv', NEW force \in BOOLEAN, Analyse(force)
    PROVE  Abstract!Rebase
<1>. DEFINE rest == Superseded(CurrentAnalyses)
            row == [events |-> events, findings |-> findings, current |-> TRUE]
<1>1. /\ InForceCertificates' = {}
      /\ Len(reviews') = Len(reviews) /\ Len(outcomes') = Len(outcomes)
    BY CascadeWithdraws DEF Analyse
<1>2. row \in Analysis /\ row.current
    BY DEF LInv, IInv, TypeOK, Analysis
<1>3. /\ analyses' = Append(rest, row) /\ rest \in Seq(Analysis)
      /\ Len(rest) = Len(analyses) /\ Len(analyses) \in Nat
    BY SupersededType, LenProperties DEF Analyse, LInv, IInv, TypeOK
<1>. HIDE DEF rest, row
<1>4. Len(analyses') = Len(analyses) + 1
    BY <1>2, <1>3, AppendProperties
<1>5. CurrentAnalyses' # {}
    BY <1>2, <1>3, AppendKeeps DEF CurrentAnalyses
<1>6. Basis' = Len(analyses')
    BY <1>5, BasisAndApprovalNext
<1>7. ~ Permitted'
    <2>1. \A r \in DOMAIN reviews' : reviews'[r].analysis \in 1..Len(analyses)
        <3>1. \A r \in DOMAIN reviews : reviews[r].analysis \in 1..Len(analyses)
            BY LenProperties DEF LInv, IInv, ExactChains, TypeOK
        <3>2. InvalidateReviews(CurrentAnalyses)
            BY DEF Analyse
        <3>. QED
            BY <3>1, <3>2, Rows DEF InvalidateReviews, Review, LInv, IInv
    <2>2. CurrentAnalyses' \subseteq {Len(analyses) + 1}
        BY <1>4 DEF LInv, InOrder
    <2>. QED
        BY <1>3, <2>1, <2>2 DEF Permitted, Permission
<1>8. Approval' = 0
    BY <1>7, BasisAndApprovalNext
<1>. QED
    BY <1>1, <1>4, <1>6, <1>8 DEF Abstract!Rebase, Basis, Approval

\* A review decides on the basis in force: it approves it or takes its approval away.
LEMMA ReviewDecides ==
    ASSUME LInv, LInv', NEW decision \in ReviewDecisions, SubmitReview(decision)
    PROVE  Abstract!Decide(decision = "approved")
<1>1. PICK a \in CurrentAnalyses :
          reviews' = Append(reviews, [analysis |-> a, decision |-> decision,
                                      progression_valid |-> TRUE])
    BY DEF SubmitReview
<1>. DEFINE row == [analysis |-> a, decision |-> decision, progression_valid |-> TRUE]
            n == Len(reviews) + 1
<1>2. row \in Review
    <2>1. analyses \in Seq(Analysis)
        BY DEF LInv, IInv, TypeOK
    <2>2. a \in Nat
        BY <2>1, LenProperties DEF CurrentAnalyses
    <2>3. decision \in AllDecisions
        BY Inputs
    <2>. QED
        BY <2>2, <2>3 DEF Review
<1>3. reviews' = Append(reviews, row) /\ reviews \in Seq(Review) /\ Len(reviews) \in Nat
    BY <1>1, LenProperties DEF LInv, IInv, TypeOK
<1>4. row.analysis = a /\ row.decision = decision /\ row.progression_valid
    OBVIOUS
<1>5. UNCHANGED <<analyses, outcomes, cases>>
    BY DEF SubmitReview, chainRows
<1>. HIDE DEF row
<1>6. /\ Len(reviews') = n /\ n \in DOMAIN reviews' /\ reviews'[n] = row
      /\ DOMAIN reviews' = 1..n
    BY <1>2, <1>3, AppendKeeps, AppendProperties, LenProperties
<1>7. CurrentAnalyses' = CurrentAnalyses /\ a = Len(analyses) /\ CurrentAnalyses # {}
    BY <1>5 DEF CurrentAnalyses, LInv, InOrder
<1>8. Basis' = Basis /\ Basis = a /\ a # 0
    <2>1. Len(analyses) \in Nat /\ DOMAIN analyses = 1..Len(analyses)
        BY LenProperties DEF LInv, IInv, TypeOK
    <2>. QED
        BY <1>5, <1>7, <2>1, BasisAndApproval, BasisAndApprovalNext DEF CurrentAnalyses
<1>9. Permitted' <=> decision = "approved"
    <2>1. ASSUME decision = "approved" PROVE Permitted'
        <3>1. \A q \in DOMAIN reviews' : q <= n
            BY <1>3, <1>6
        <3>. QED
            BY <1>4, <1>5, <1>6, <1>7, <2>1, <3>1 DEF Permitted, Permission, CurrentAnalyses
    <2>2. ASSUME NEW b, NEW r, Permission(b, r)' PROVE decision = "approved"
        <3>1. b = a /\ r \in 1..n
            BY <1>6, <1>7, <2>2 DEF Permission, LInv, InOrder
        <3>2. n <= r
            BY <1>4, <1>6, <2>2, <3>1 DEF Permission
        <3>3. r = n
            BY <1>3, <3>1, <3>2
        <3>. QED
            BY <1>4, <1>6, <2>2, <3>3 DEF Permission
    <2>. QED
        BY <2>1, <2>2 DEF Permitted
<1>10. Approval' = IF decision = "approved" THEN Len(reviews') ELSE 0
    BY <1>9, BasisAndApprovalNext
<1>11. InForceCertificates' = InForceCertificates
    BY <1>5 DEF InForceCertificates
<1>. QED
    BY <1>5, <1>6, <1>8, <1>10, <1>11 DEF Abstract!Decide, Basis, Approval

\* With analyses and reviews left alone, basis and approval stay as they are.
LEMMA HeadSame ==
    ASSUME LInv, LInv', UNCHANGED <<analyses, reviews>>
    PROVE  /\ Len(analyses') = Len(analyses) /\ Basis' = Basis
           /\ Len(reviews') = Len(reviews) /\ Approval' = Approval
<1>1. CurrentAnalyses' = CurrentAnalyses
    BY DEF CurrentAnalyses
<1>2. Permitted' <=> Permitted
    BY <1>1 DEF Permitted, Permission
<1>. QED
    BY <1>1, <1>2, BasisAndApproval, BasisAndApprovalNext

\* A new diagnosis supersedes those of the approval in force, and with them exactly the
\* certificates issued under it: an eligible case stands on a current diagnosis.
LEMMA DiagnosisRetries ==
    ASSUME LInv, LInv', GenerateDiagnosis
    PROVE  Abstract!Retry
<1>1. PICK a \in CurrentAnalyses, r \in DOMAIN reviews :
          /\ Permission(a, r)
          /\ SupersedeDiagnoses({d \in DOMAIN diagnoses : DiagnosisOn(d, a, r)})
    BY DEF GenerateDiagnosis
<1>2. PICK old : old = {d \in DOMAIN diagnoses : DiagnosisOn(d, a, r)}
    OBVIOUS
<1>3. r = Approval /\ ApprovedBy(a, r)
    BY <1>1, PermittedIsNewest, PermissionIds, PermissionApproves, BasisAndApproval
    DEF LInv, IInv, Permitted
<1>4. /\ outcomes' = RetireLearning(outcomes, {o \in DOMAIN outcomes :
                          outcomes[o].chain.diagnosis \in old}, "superseded")
      /\ cases' = RetireLearning(cases, {c \in DOMAIN cases : cases[c].outcome \in
                       {o \in DOMAIN outcomes : outcomes[o].chain.diagnosis \in old}},
                       "superseded")
    BY <1>1, <1>2 DEF SupersedeDiagnoses
<1>5. /\ DOMAIN cases' = DOMAIN cases /\ DOMAIN outcomes' = DOMAIN outcomes
      /\ SameOutcomes(outcomes, outcomes') /\ KeptOutcomes(outcomes, outcomes')
      /\ KeptCases(cases, cases')
    BY <1>4, RetireSame, RetireKeeps DEF RetireLearning, LInv, IInv
<1>6. \A c \in DOMAIN cases : cases'[c].eligible <=>
          /\ cases[c].eligible
          /\ outcomes[cases[c].outcome].chain.diagnosis \notin old
    <2>1. TypeOK /\ \A c \in DOMAIN cases : cases[c].eligible =>
                        cases[c].outcome \in DOMAIN outcomes
        BY DEF LInv, IInv, ExactChains, Standing
    <2>. QED
        BY <1>4, <2>1, Rows DEF RetireLearning, Case
<1>7. ASSUME NEW c \in DOMAIN cases, cases[c].eligible
      PROVE  outcomes[cases[c].outcome].chain.diagnosis \in old <=>
                 outcomes[cases[c].outcome].chain.review = r
    <2>1. PICK o : o = cases[c].outcome
        OBVIOUS
    <2>2. PICK d : d = outcomes[o].chain.diagnosis
        OBVIOUS
    <2>3. o \in DOMAIN outcomes /\ outcomes[o].eligible
        BY <1>7, <2>1 DEF LInv, IInv, ExactChains, Standing
    <2>4. diagnoses[d].workflow_status = "current"
        BY <2>2, <2>3 DEF LInv, Standing
    <2>5. /\ d \in DOMAIN diagnoses
          /\ diagnoses[d].analysis = outcomes[o].chain.analysis
          /\ diagnoses[d].review = outcomes[o].chain.review
          /\ ApprovedBy(outcomes[o].chain.analysis, outcomes[o].chain.review)
        BY <2>2, <2>3, OutcomeRefs DEF LInv
    <2>6. outcomes[o].chain.review = r => outcomes[o].chain.analysis = a
        BY <1>3, <2>5 DEF ApprovedBy
    <2>. QED
        BY <1>2, <2>1, <2>2, <2>4, <2>5, <2>6 DEF DiagnosisOn
<1>8. \A c \in DOMAIN cases :
          /\ cases'[c].outcome = cases[c].outcome
          /\ cases[c].eligible => outcomes'[cases[c].outcome].chain =
                                      outcomes[cases[c].outcome].chain
    BY <1>5 DEF KeptCases, KeptOutcomes, LInv, IInv, ExactChains, Standing
<1>9. InForceCertificates' = {c \in InForceCertificates : c.approval # r}
    BY <1>5, <1>6, <1>7, <1>8 DEF InForceCertificates
<1>10. Len(outcomes') = Len(outcomes)
    <2>1. outcomes \in Seq(Outcome) /\ outcomes' \in Seq(Outcome)
        BY DEF LInv, IInv, TypeOK
    <2>. QED
        BY <1>5, <2>1, SameLength
<1>11. UNCHANGED <<analyses, reviews>>
    BY DEF GenerateDiagnosis
<1>. QED
    BY <1>3, <1>9, <1>10, <1>11, HeadSame DEF Abstract!Retry, Basis, Approval

\* A verification passes the gate under the approval in force; the case it adds ranks
\* remediations just when the chain it completes passed.
LEMMA VerificationVerifies ==
    ASSUME LInv, LInv', NEW k \in DOMAIN retests, NEW restored \in BOOLEAN,
           VerifyFix(k, restored)
    PROVE  Abstract!Verify(Eligible(k))
<1>1. PICK chain, i, n :
          chain = retests[k].chain /\ i = retests[k].implementation /\ n = Len(outcomes) + 1
    OBVIOUS
<1>2. PICK case, outcome :
          /\ case = [outcome |-> n, implementation |-> i, result |-> VerificationStatus(k),
                     eligible |-> Eligible(k), workflow_status |-> "current"]
          /\ outcome = [chain |-> chain, implementation |-> i, test |-> retests[k].test,
                        retest |-> k, fix |-> Len(fixes) + 1,
                        result |-> VerificationStatus(k),
                        eligible |-> Eligible(k), workflow_status |-> "current"]
    OBVIOUS
<1>3. /\ outcomes' = Append(outcomes, outcome)
      /\ cases' \in {Append(cases, case), WithPenalty(Append(cases, case), i)}
      /\ UNCHANGED <<analyses, reviews>>
    BY <1>1, <1>2 DEF VerifyFix
<1>4. /\ retests[k] \in Retest /\ i \in DOMAIN implementations
      /\ TypeOK /\ IInv /\ Lineage /\ Verifiable(k)
    BY <1>1, Rows DEF LInv, IInv, ExactChains, VerifyFix
<1>5. Permission(chain.analysis, chain.review)
    BY <1>1, <1>4, VerifiedRows
<1>6. /\ chain.analysis = Basis /\ chain.review = Approval /\ Approval # 0
      /\ Len(outcomes) \in Nat
    <2>1. Permitted /\ CurrentAnalyses # {}
        BY <1>4, <1>5, PermissionIds DEF Permitted, Permission
    <2>2. chain.analysis = Len(analyses) /\ chain.review = Len(reviews)
        BY <1>5, PermittedIsNewest DEF LInv
    <2>3. chain.review \in DOMAIN reviews /\ reviews \in Seq(Review)
          /\ outcomes \in Seq(Outcome)
        BY <1>4, <1>5 DEF Permission, TypeOK
    <2>4. chain.review # 0 /\ Len(outcomes) \in Nat
        BY <2>3, LenProperties
    <2>. QED
        BY <2>1, <2>2, <2>4, BasisAndApproval
<1>7. /\ retests \in Seq(Retest) /\ fixes \in Seq(FixVerification)
      /\ implementations \in Seq(Implementation)
      /\ outcomes \in Seq(Outcome) /\ cases \in Seq(Case)
    BY <1>4 DEF TypeOK
<1>8. outcome \in Outcome /\ case \in Case
    <2>1. k \in Nat /\ i \in Nat /\ Len(fixes) \in Nat /\ chain \in Chain
          /\ retests[k].test \in Nat
        BY <1>1, <1>4, <1>7, LenProperties DEF Retest
    <2>2. VerificationStatus(k) \in {"passed", "failed"} /\ Eligible(k) \in BOOLEAN
        BY DEF VerificationStatus, Eligible
    <2>. QED
        BY <1>1, <1>2, <1>6, <2>1, <2>2 DEF Outcome, Case, WorkflowStatus
<1>9. /\ case.outcome = n /\ case.eligible = Eligible(k) /\ outcome.chain = chain
    BY <1>2
<1>10. PICK learned : learned = Append(cases, case)
    OBVIOUS
<1>11. /\ learned \in Seq(Case)
       /\ DOMAIN learned = DOMAIN cases \cup {Len(cases) + 1}
       /\ \A c \in DOMAIN cases : learned[c] = cases[c]
       /\ learned[Len(cases) + 1] = case
    BY <1>7, <1>8, <1>10, AppendKeeps, AppendProperties
<1>12. /\ KeptCases(learned, cases') /\ LeftEligible(learned, cases')
       /\ \A c \in DOMAIN cases' \ DOMAIN learned : ~ cases'[c].eligible
    <2>1. CASE cases' = learned
        BY <2>1 DEF KeptCases, KeptStatus, LeftEligible, LeftCurrent
    <2>2. CASE cases' = WithPenalty(learned, i)
        BY <1>4, <1>11, <2>2, RollbackKeeps, RollbackLeaves
    <2>. QED
        BY <1>3, <1>10, <2>1, <2>2
<1>13. \A c \in DOMAIN learned :
           /\ c \in DOMAIN cases'
           /\ cases'[c].eligible = learned[c].eligible
           /\ cases'[c].outcome = learned[c].outcome
    BY <1>12 DEF KeptCases, KeptStatus, LeftEligible
<1>14. {c \in DOMAIN cases' : cases'[c].eligible}
           = {c \in DOMAIN cases : cases[c].eligible}
                 \cup (IF Eligible(k) THEN {Len(cases) + 1} ELSE {})
    BY <1>9, <1>11, <1>12, <1>13
<1>15. /\ \A c \in DOMAIN cases : cases[c].eligible =>
              /\ cases'[c].outcome = cases[c].outcome
              /\ outcomes'[cases[c].outcome] = outcomes[cases[c].outcome]
       /\ cases'[Len(cases) + 1].outcome = n
       /\ outcomes'[n].chain = chain /\ Len(outcomes') = n
    <2>1. \A c \in DOMAIN cases : cases[c].eligible => cases[c].outcome \in DOMAIN outcomes
        BY DEF LInv, IInv, ExactChains, Standing
    <2>2. /\ \A o \in DOMAIN outcomes : outcomes'[o] = outcomes[o]
          /\ outcomes'[n] = outcome /\ Len(outcomes') = n
        BY <1>1, <1>3, <1>7, <1>8, AppendKeeps, AppendProperties
    <2>. QED
        BY <1>9, <1>11, <1>13, <2>1, <2>2
<1>16. InForceCertificates' = InForceCertificates \cup
           (IF Eligible(k)
            THEN {[id |-> n, basis |-> chain.analysis, approval |-> chain.review]}
            ELSE {})
    BY <1>14, <1>15 DEF InForceCertificates
<1>. QED
    BY <1>1, <1>3, <1>6, <1>15, <1>16, HeadSame DEF Abstract!Verify, Basis, Approval

\* The handlers in between, and the penalty cases of a rollback, change nothing a ranking
\* can see.
LEMMA RestStutters ==
    ASSUME LInv, LInv', UNCHANGED <<analyses, reviews, outcomes>>,
           \/ UNCHANGED cases
           \/ \E i \in DOMAIN implementations : cases' = WithPenalty(cases, i)
    PROVE  UNCHANGED Abstract!certVars
<1>1. InForceCertificates' = InForceCertificates
    <2>1. CASE UNCHANGED cases
        BY <2>1 DEF InForceCertificates
    <2>2. CASE \E i \in DOMAIN implementations : cases' = WithPenalty(cases, i)
        <3>1. PICK i \in DOMAIN implementations : cases' = WithPenalty(cases, i)
            BY <2>2
        <3>2. TypeOK /\ cases \in Seq(Case)
            BY DEF LInv, IInv, TypeOK
        <3>3. /\ KeptCases(cases, cases') /\ LeftEligible(cases, cases')
              /\ \A c \in DOMAIN cases' \ DOMAIN cases : ~ cases'[c].eligible
            BY <3>1, <3>2, RollbackKeeps, RollbackLeaves
        <3>. QED
            BY <3>3, CertificatesLeft
    <2>. QED
        BY <2>1, <2>2
<1>. QED
    BY <1>1, HeadSame DEF Abstract!certVars, Basis, Approval

\* Every step of the chain is a step of CertifiedFixes, or none.
LEMMA ChainStep ==
    ASSUME LInv, LInv', [Next]_vars
    PROVE  [Abstract!Next]_(Abstract!certVars)
<1>stutter. ASSUME UNCHANGED <<analyses, reviews, outcomes>>,
                   \/ UNCHANGED cases
                   \/ \E i \in DOMAIN implementations : cases' = WithPenalty(cases, i)
            PROVE  UNCHANGED Abstract!certVars
    BY <1>stutter, RestStutters
<1>1. CASE \/ \E x \in Alerts : LinkAlert(x)
           \/ \E x \in Records : LinkRecord(x)
           \/ \E f \in Files : DetectEvidence(f)
    BY <1>1, StaleWithdraws DEF LinkAlert, LinkRecord, DetectEvidence, Abstract!Next
<1>2. CASE \E force \in BOOLEAN : Analyse(force)
    BY <1>2, AnalyseRebases DEF Abstract!Next
<1>3. CASE \E decision \in ReviewDecisions : SubmitReview(decision)
    <2>1. PICK decision \in ReviewDecisions : SubmitReview(decision)
        BY <1>3
    <2>2. Abstract!Decide(decision = "approved")
        BY <2>1, ReviewDecides
    <2>3. (decision = "approved") \in BOOLEAN
        OBVIOUS
    <2>. QED
        BY <2>2, <2>3 DEF Abstract!Next
<1>4. CASE GenerateDiagnosis
    BY <1>4, DiagnosisRetries DEF Abstract!Next
<1>5. CASE \E k \in DOMAIN retests, restored \in BOOLEAN : VerifyFix(k, restored)
    <2>1. PICK k \in DOMAIN retests, restored \in BOOLEAN : VerifyFix(k, restored)
        BY <1>5
    <2>2. Abstract!Verify(Eligible(k)) /\ Eligible(k) \in BOOLEAN
        BY <2>1, VerificationVerifies DEF Eligible
    <2>. QED
        BY <2>2 DEF Abstract!Next
<1>6. CASE \/ \E f \in Files : ParseEvidence(f)
           \/ \E d \in DOMAIN diagnoses :
                 \/ AcceptDiagnosis(d)
                 \/ \E status \in {"rejected", "more_evidence_requested"} :
                       DeclineDiagnosis(d, status)
           \/ \E status \in StatusInputs : CreateAction(status)
           \/ \E m \in DOMAIN actions :
                 \/ \E status \in StatusInputs : UpdateAction(m, status)
                 \/ \E mode \in ModeInputs, change \in Changes :
                       RecordImplementation(m, mode, change)
           \/ \E i \in DOMAIN implementations : StartTest(i)
           \/ UNCHANGED vars
    <2>1. UNCHANGED <<analyses, reviews, outcomes, cases>>
        BY <1>6 DEF ParseEvidence, AcceptDiagnosis, DeclineDiagnosis, CreateAction,
                    UpdateAction, RecordImplementation, StartTest, chainRows, vars
    <2>. QED
        BY <1>stutter, <2>1
<1>7. CASE \E i \in DOMAIN implementations : RollbackPatch(i)
    BY <1>stutter, <1>7 DEF RollbackPatch
<1>8. CASE \E t \in DOMAIN tests, restored \in BOOLEAN :
              \/ \E passed \in BOOLEAN : FinishTest(t, passed, restored)
              \/ \E result \in {"clean", "exposed", "incomparable"} :
                    RecordRetest(t, result, restored)
    <2>1. PICK t \in DOMAIN tests, restored \in BOOLEAN :
              \/ \E passed \in BOOLEAN : FinishTest(t, passed, restored)
              \/ \E result \in {"clean", "exposed", "incomparable"} :
                    RecordRetest(t, result, restored)
        BY <1>8
    <2>2. PICK i : i = tests[t].implementation
        OBVIOUS
    <2>3. i \in DOMAIN implementations
        BY <2>2 DEF LInv, IInv, ExactChains
    <2>4. UNCHANGED <<analyses, reviews, outcomes>>
        BY <2>1 DEF FinishTest, RecordRetest
    <2>5. UNCHANGED cases \/ cases' = WithPenalty(cases, i)
        BY <2>1, <2>2 DEF FinishTest, RecordRetest
    <2>. QED
        BY <1>stutter, <2>3, <2>4, <2>5
<1>. QED
    BY <1>1, <1>2, <1>3, <1>4, <1>5, <1>6, <1>7, <1>8 DEF Next

\* An incident without rows has made, approved and certified nothing.
LEMMA ChainInit == Init => Abstract!Init
<1>. SUFFICES ASSUME Init PROVE Abstract!Init
    OBVIOUS
<1>1. /\ Len(analyses) = 0 /\ Len(reviews) = 0 /\ Len(outcomes) = 0
      /\ DOMAIN analyses = {} /\ DOMAIN reviews = {} /\ DOMAIN cases = {}
    BY DEF Init
<1>2. CurrentAnalyses = {} /\ InForceCertificates = {}
    BY <1>1 DEF CurrentAnalyses, InForceCertificates
<1>3. Basis = 0
    BY <1>2 DEF Basis, Newest
<1>4. {r \in DOMAIN reviews : Permission(Basis, r)} = {}
    BY <1>1
<1>5. Approval = 0
    BY <1>4 DEF Approval, Newest
<1>. QED
    BY <1>1, <1>2, <1>3, <1>5 DEF Abstract!Init, Basis, Approval

\* Whatever the handlers do, the cases that rank remediations are issued under the
\* approval in force only, fall together with the analysis and never come back: every
\* behaviour of the chain is one of CertifiedFixes.
THEOREM ChainImplementsCertified == Spec => ImplementsCertifiedFixes
<1>1. LInv /\ LInv' /\ [Next]_vars => [Abstract!Next]_(Abstract!certVars)
    BY ChainStep
<1>2. Spec => Abstract!Init /\ [][Abstract!Next]_(Abstract!certVars)
    BY ChainInit, LineageInvariance, <1>1, PTL DEF Spec
<1>. QED
    BY <1>2 DEF ImplementsCertifiedFixes, Abstract!Spec

-----------------------------------------------------------------------------
(* What CertifiedFixes is proved to promise, of the chain *)

Promise == INSTANCE CertifiedFixesProofs WITH
    bases <- Len(analyses),
    basis <- Newest(CurrentAnalyses),
    decisions <- Len(reviews),
    approval <- Newest({r \in DOMAIN reviews : Permission(Newest(CurrentAnalyses), r)}),
    verifications <- Len(outcomes),
    certificates <- InForceCertificates

\* The specification the chain implements is the one those proofs are about.
LEMMA PromiseApplies == ImplementsCertifiedFixes => Promise!Spec
BY DEF ImplementsCertifiedFixes, Abstract!Spec, Promise!Spec,
       Abstract!Init, Promise!Init, Abstract!Next, Promise!Next,
       Abstract!certVars, Promise!certVars, Abstract!Withdraw, Promise!Withdraw,
       Abstract!Rebase, Promise!Rebase, Abstract!Decide, Promise!Decide,
       Abstract!Retry, Promise!Retry, Abstract!Verify, Promise!Verify

\* Every case that ranks remediations was verified on the analysis in force.
THEOREM CasesOnBasis == Spec => []CasesOnCurrentBasis
<1>1. Promise!Spec => []Promise!CertifiedOnBasis
    BY Promise!CertificatesOnBasis
<1>2. Promise!CertifiedOnBasis => CasesOnCurrentBasis
    BY DEF CasesOnCurrentBasis, Abstract!CertifiedOnBasis, Promise!CertifiedOnBasis
<1>. QED
    BY <1>1, <1>2, PromiseApplies, ChainImplementsCertified, PTL

\* A case that lost its eligibility never ranks again: a certificate of the chain bears
\* the number of a verification that was not over before.
THEOREM CasesNotReinstated == Spec => Abstract!NeverReissued
<1>1. Promise!Spec => Promise!NeverReissued
    BY Promise!CertificatesNotReissued
<1>2. Promise!NeverReissued => Abstract!NeverReissued
    BY DEF Abstract!NeverReissued, Promise!NeverReissued, Abstract!certVars, Promise!certVars
<1>. QED
    BY <1>1, <1>2, PromiseApplies, ChainImplementsCertified, PTL
=============================================================================
