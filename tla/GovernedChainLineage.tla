------------------------ MODULE GovernedChainLineage ------------------------
(***************************************************************************)
(* What a reader of the governed chain may rely on, for every set of       *)
(* evidence and every bound on the tables: what ranks remediations is      *)
(* proven by one exact chain, an incident reads fixed only with proof, no  *)
(* change precedes its acceptance, refusals are final, and nothing is      *)
(* created without permission.                                             *)
(*                                                                         *)
(* On top of the invariant of GovernedChainInvariant this needs to know    *)
(* where each row comes from (Lineage), in which order analyses and        *)
(* reviews were made (InOrder), and that whatever is still eligible stands *)
(* on rows that are still current (Standing).                              *)
(***************************************************************************)
EXTENDS GovernedChainInvariant, WellFoundedInduction

-----------------------------------------------------------------------------
(* The strengthened invariant *)

\* Only the newest analysis is ever current, reviews follow the analyses, and those of
\* the current analysis let work progress.
InOrder ==
    /\ CurrentAnalyses \subseteq {Len(analyses)}
    /\ \A q, r \in DOMAIN reviews : q <= r => reviews[q].analysis <= reviews[r].analysis
    /\ \A r \in DOMAIN reviews :
          AnalysisCurrent(reviews[r].analysis) => reviews[r].progression_valid

\* Analysis a was approved by review r.
ApprovedBy(a, r) ==
    /\ r \in DOMAIN reviews
    /\ reviews[r].analysis = a
    /\ reviews[r].decision = "approved"

\* The rows each row was made from, and what they had to be at that time: an approval
\* cannot change, an acceptance is not taken back, a passed test stays passed.
Lineage ==
    /\ \A d \in DOMAIN diagnoses : ApprovedBy(diagnoses[d].analysis, diagnoses[d].review)
    /\ \A m \in DOMAIN actions :
          /\ ApprovedBy(actions[m].analysis, actions[m].review)
          /\ actions[m].diagnosis # 0 =>
                LET d == actions[m].diagnosis
                IN  /\ d \in DOMAIN diagnoses /\ diagnoses[d].status = "accepted"
                    /\ diagnoses[d].analysis = actions[m].analysis
                    /\ diagnoses[d].review = actions[m].review
    /\ \A i \in DOMAIN implementations : implementations[i].chain.diagnosis # 0
    /\ \A k \in DOMAIN retests :
          /\ retests[k].test \in DOMAIN tests
          /\ tests[retests[k].test].status = "passed"
          /\ tests[retests[k].test].implementation = retests[k].implementation
    /\ \A f \in DOMAIN fixes :
          fixes[f].status = "passed" => retests[fixes[f].retest].result = "clean"
    /\ \A o \in DOMAIN outcomes :
          /\ fixes[outcomes[o].fix].retest = outcomes[o].retest
          /\ retests[outcomes[o].retest].test = outcomes[o].test
          /\ retests[outcomes[o].retest].implementation = outcomes[o].implementation

\* An eligible outcome stands on a passed verification, a retest, a test, an
\* implementation, an action and a diagnosis that are current; an eligible case on an
\* eligible outcome.
Standing ==
    /\ \A o \in DOMAIN outcomes : outcomes[o].eligible =>
          /\ outcomes[o].workflow_status = "current"
          /\ fixes[outcomes[o].fix].status = "passed"
          /\ fixes[outcomes[o].fix].workflow_status = "current"
          /\ retests[outcomes[o].retest].workflow_status = "current"
          /\ tests[outcomes[o].test].workflow_status = "current"
          /\ implementations[outcomes[o].implementation].workflow_status = "current"
          /\ actions[outcomes[o].chain.action].workflow_status = "current"
          /\ diagnoses[outcomes[o].chain.diagnosis].workflow_status = "current"
    /\ \A c \in DOMAIN cases : cases[c].eligible =>
          /\ cases[c].outcome # 0
          /\ cases[c].workflow_status = "current"
          /\ outcomes[cases[c].outcome].eligible

\* One current diagnosis per analysis and review.
OneDiagnosis ==
    \A d, e \in DOMAIN diagnoses :
        /\ DiagnosisOn(d, diagnoses[e].analysis, diagnoses[e].review)
        /\ diagnoses[e].workflow_status = "current"
        => d = e

LInv == IInv /\ InOrder /\ Lineage /\ Standing /\ OneDiagnosis

-----------------------------------------------------------------------------
(* What the rows of a chain are, by the invariant *)

\* Every reference of an outcome, down to the approval, and what it finds there.
LEMMA OutcomeRefs ==
    ASSUME IInv, Lineage, NEW o \in DOMAIN outcomes
    PROVE  LET chain == outcomes[o].chain
               f == outcomes[o].fix
               k == outcomes[o].retest
               t == outcomes[o].test
               i == outcomes[o].implementation
               m == chain.action
               d == chain.diagnosis
           IN  /\ f \in DOMAIN fixes /\ fixes[f].chain = chain /\ fixes[f].retest = k
               /\ k \in DOMAIN retests /\ retests[k].chain = chain /\ retests[k].test = t
               /\ retests[k].implementation = i
               /\ t \in DOMAIN tests /\ tests[t].status = "passed"
               /\ tests[t].implementation = i
               /\ i \in DOMAIN implementations /\ implementations[i].chain = chain
               /\ m \in DOMAIN actions /\ actions[m].diagnosis = d
               /\ actions[m].analysis = chain.analysis /\ actions[m].review = chain.review
               /\ d \in DOMAIN diagnoses /\ d # 0 /\ diagnoses[d].status = "accepted"
               /\ diagnoses[d].analysis = chain.analysis
               /\ diagnoses[d].review = chain.review
               /\ ApprovedBy(chain.analysis, chain.review)
<1>. DEFINE chain == outcomes[o].chain
            k == outcomes[o].retest
            i == outcomes[o].implementation
            m == chain.action
            d == chain.diagnosis
<1>1. /\ outcomes[o].fix \in DOMAIN fixes /\ fixes[outcomes[o].fix].chain = chain
      /\ fixes[outcomes[o].fix].retest = k
      /\ k \in DOMAIN retests /\ retests[k].chain = chain
    BY DEF IInv, ExactChains, Lineage
<1>2. /\ retests[k].test = outcomes[o].test /\ retests[k].implementation = i
      /\ i \in DOMAIN implementations /\ implementations[i].chain = chain
    BY <1>1 DEF IInv, ExactChains, Lineage
<1>3. /\ outcomes[o].test \in DOMAIN tests /\ tests[outcomes[o].test].status = "passed"
      /\ tests[outcomes[o].test].implementation = i
    BY <1>1, <1>2 DEF Lineage
<1>4. m \in DOMAIN actions /\ chain = ChainOf(m) /\ d # 0
    BY <1>2 DEF IInv, ExactChains, Lineage
<1>5. /\ actions[m].diagnosis = d /\ actions[m].analysis = chain.analysis
      /\ actions[m].review = chain.review
    BY <1>4 DEF ChainOf
<1>6. /\ d \in DOMAIN diagnoses /\ diagnoses[d].status = "accepted"
      /\ diagnoses[d].analysis = chain.analysis /\ diagnoses[d].review = chain.review
      /\ ApprovedBy(chain.analysis, chain.review)
    BY <1>4, <1>5 DEF Lineage
<1>. QED
    BY <1>1, <1>2, <1>3, <1>4, <1>5, <1>6

\* A case that ranks remediations is proven by one exact chain.
LEMMA ProvenExemplars ==
    ASSUME IInv, InOrder, Lineage, Standing
    PROVE  ExemplarIsProven
<1>. SUFFICES ASSUME NEW c \in DOMAIN cases, cases[c].eligible
              PROVE  Proven(c)
    BY DEF ExemplarIsProven
<1>. DEFINE n == cases[c].outcome
<1>1. n \in DOMAIN outcomes /\ outcomes[n].eligible /\ cases[c].workflow_status = "current"
    BY DEF Standing, IInv, ExactChains
<1>2. /\ outcomes[n].workflow_status = "current"
      /\ fixes[outcomes[n].fix].status = "passed"
      /\ fixes[outcomes[n].fix].workflow_status = "current"
      /\ retests[outcomes[n].retest].workflow_status = "current"
      /\ tests[outcomes[n].test].workflow_status = "current"
      /\ implementations[outcomes[n].implementation].workflow_status = "current"
      /\ actions[outcomes[n].chain.action].workflow_status = "current"
      /\ diagnoses[outcomes[n].chain.diagnosis].workflow_status = "current"
    BY <1>1 DEF Standing
<1>3. retests[outcomes[n].retest].result = "clean"
    BY <1>1, <1>2, OutcomeRefs DEF Lineage
<1>4. ApprovedBy(outcomes[n].chain.analysis, outcomes[n].chain.review)
    BY <1>1, OutcomeRefs
<1>5. AnalysisCurrent(outcomes[n].chain.analysis)
    BY <1>1, <1>2 DEF IInv, NoCurrentUnderStale
<1>6. reviews[outcomes[n].chain.review].progression_valid
    BY <1>4, <1>5 DEF ApprovedBy, InOrder
<1>7. /\ actions[outcomes[n].chain.action].analysis = outcomes[n].chain.analysis
      /\ actions[outcomes[n].chain.action].review = outcomes[n].chain.review
    BY <1>1, OutcomeRefs
<1>. QED
    BY <1>1, <1>2, <1>3, <1>4, <1>5, <1>6, <1>7, OutcomeRefs
    DEF Proven, DiagnosisOn, ActionOn, ApprovedBy

\* No change without an accepted diagnosis.
LEMMA AcceptedChanges ==
    ASSUME IInv, Lineage
    PROVE  ImplementedOnlyIfAccepted
<1>. SUFFICES ASSUME NEW i \in DOMAIN implementations
              PROVE  LET d == implementations[i].chain.diagnosis
                     IN  d # 0 /\ diagnoses[d].status = "accepted"
    BY DEF ImplementedOnlyIfAccepted
<1>. DEFINE m == implementations[i].chain.action
<1>1. /\ m \in DOMAIN actions /\ implementations[i].chain = ChainOf(m)
      /\ implementations[i].chain.diagnosis # 0
    BY DEF IInv, ExactChains, Lineage
<1>2. implementations[i].chain.diagnosis = actions[m].diagnosis
    BY <1>1 DEF ChainOf
<1>. QED
    BY <1>1, <1>2 DEF Lineage

\* One current analysis, one current diagnosis per branch.
LEMMA CurrentBranch ==
    ASSUME InOrder, OneDiagnosis
    PROVE  OneCurrentBranch
<1>1. /\ IsFiniteSet({Len(analyses)}) /\ Cardinality({Len(analyses)}) = 1
    BY FS_Singleton
<1>2. Cardinality(CurrentAnalyses) <= 1
    BY <1>1, FS_Subset DEF InOrder
<1>. QED
    BY <1>2 DEF OneDiagnosis, OneCurrentBranch

-----------------------------------------------------------------------------
(* What a step keeps of the rows, and what it adds *)

SameReviews(old, new) == \A r \in DOMAIN old : new[r].decision = old[r].decision
SameDiagnoses(old, new) ==
    \A d \in DOMAIN old : /\ new[d].review = old[d].review
                          /\ old[d].status = "accepted" => new[d].status = "accepted"
SameTests(old, new) ==
    \A t \in DOMAIN old : old[t].status = "passed" => new[t].status = "passed"
SameRetests(old, new) ==
    \A k \in DOMAIN old : new[k].test = old[k].test /\ new[k].result = old[k].result
SameFixes(old, new) == \A f \in DOMAIN old : new[f].status = old[f].status
SameOutcomes(old, new) ==
    \A o \in DOMAIN old : /\ new[o].implementation = old[o].implementation
                          /\ new[o].test = old[o].test /\ new[o].retest = old[o].retest

\* The columns no handler rewrites.
FieldsKept ==
    /\ SameReviews(reviews, reviews') /\ SameDiagnoses(diagnoses, diagnoses')
    /\ SameTests(tests, tests') /\ SameRetests(retests, retests')
    /\ SameFixes(fixes, fixes') /\ SameOutcomes(outcomes, outcomes')

\* New rows are made from what Lineage asks for.
NewRowsFounded ==
    /\ \A d \in DOMAIN diagnoses' \ DOMAIN diagnoses :
          /\ ApprovedBy(diagnoses'[d].analysis, diagnoses'[d].review)
          /\ \A e \in DOMAIN diagnoses' :
                /\ diagnoses'[e].analysis = diagnoses'[d].analysis
                /\ diagnoses'[e].review = diagnoses'[d].review
                /\ diagnoses'[e].workflow_status = "current"
                => e = d
    /\ \A m \in DOMAIN actions' \ DOMAIN actions :
          /\ ApprovedBy(actions'[m].analysis, actions'[m].review)
          /\ actions'[m].diagnosis # 0 =>
                LET d == actions'[m].diagnosis
                IN  /\ d \in DOMAIN diagnoses /\ diagnoses'[d].status = "accepted"
                    /\ diagnoses[d].analysis = actions'[m].analysis
                    /\ diagnoses[d].review = actions'[m].review
    /\ \A i \in DOMAIN implementations' \ DOMAIN implementations :
          implementations'[i].chain.diagnosis # 0
    /\ \A k \in DOMAIN retests' \ DOMAIN retests :
          /\ retests'[k].test \in DOMAIN tests
          /\ tests[retests'[k].test].status = "passed"
          /\ tests[retests'[k].test].implementation = retests'[k].implementation
    /\ \A f \in DOMAIN fixes' \ DOMAIN fixes :
          /\ fixes'[f].retest \in DOMAIN retests
          /\ fixes'[f].status = "passed" => retests[fixes'[f].retest].result = "clean"
    /\ \A o \in DOMAIN outcomes' \ DOMAIN outcomes :
          LET k == outcomes'[o].retest
              i == outcomes'[o].implementation
          IN  /\ k \in DOMAIN retests /\ fixes'[outcomes'[o].fix].retest = k
              /\ retests[k].test = outcomes'[o].test /\ retests[k].implementation = i
              /\ outcomes'[o].eligible =>
                    /\ outcomes'[o].workflow_status = "current"
                    /\ fixes'[outcomes'[o].fix].status = "passed"
                    /\ fixes'[outcomes'[o].fix].workflow_status = "current"
                    /\ retests'[k].workflow_status = "current"
                    /\ tests'[outcomes'[o].test].workflow_status = "current"
                    /\ implementations'[i].workflow_status = "current"
                    /\ actions'[outcomes'[o].chain.action].workflow_status = "current"
                    /\ diagnoses'[outcomes'[o].chain.diagnosis].workflow_status = "current"
    /\ \A c \in DOMAIN cases' \ DOMAIN cases : cases'[c].eligible =>
          /\ cases'[c].outcome # 0
          /\ cases'[c].workflow_status = "current"
          /\ outcomes'[cases'[c].outcome].eligible

\* What an outcome or a case that stays eligible stands on is not retired.
StillStanding ==
    /\ \A o \in DOMAIN outcomes : outcomes'[o].eligible =>
          /\ outcomes'[o].workflow_status = outcomes[o].workflow_status
          /\ fixes'[outcomes[o].fix].workflow_status = fixes[outcomes[o].fix].workflow_status
          /\ retests'[outcomes[o].retest].workflow_status =
                retests[outcomes[o].retest].workflow_status
          /\ tests'[outcomes[o].test].workflow_status =
                tests[outcomes[o].test].workflow_status
          /\ actions'[outcomes[o].chain.action].workflow_status =
                actions[outcomes[o].chain.action].workflow_status
          /\ implementations'[outcomes[o].implementation].workflow_status =
                implementations[outcomes[o].implementation].workflow_status
          /\ diagnoses'[outcomes[o].chain.diagnosis].workflow_status =
                diagnoses[outcomes[o].chain.diagnosis].workflow_status
    /\ \A c \in DOMAIN cases : cases'[c].eligible /\ cases[c].outcome # 0 =>
          /\ cases'[c].workflow_status = cases[c].workflow_status
          /\ outcomes'[cases[c].outcome].eligible = outcomes[cases[c].outcome].eligible

Founded == FieldsKept /\ NewRowsFounded /\ StillStanding

\* A step that is founded in this sense keeps the lineage of every row ...
LEMMA LineageStep ==
    ASSUME IInv, IInv', RowsKept, Lineage, FieldsKept, NewRowsFounded
    PROVE  Lineage'
<1>. USE DEF RowsKept, KeptChainRows, FieldsKept
<1>r. \A r \in DOMAIN reviews : /\ r \in DOMAIN reviews'
                                /\ reviews'[r].analysis = reviews[r].analysis
                                /\ reviews'[r].decision = reviews[r].decision
    BY DEF KeptReviews, SameReviews
<1>a. \A a, r : ApprovedBy(a, r) => /\ r \in DOMAIN reviews'
                                    /\ reviews'[r].analysis = a
                                    /\ reviews'[r].decision = "approved"
    BY <1>r DEF ApprovedBy
<1>dk. \A d \in DOMAIN diagnoses :
          /\ d \in DOMAIN diagnoses' /\ diagnoses'[d].analysis = diagnoses[d].analysis
          /\ diagnoses'[d].review = diagnoses[d].review
          /\ diagnoses[d].status = "accepted" => diagnoses'[d].status = "accepted"
    BY DEF KeptDiagnoses, KeptStatus, SameDiagnoses
<1>tk. \A t \in DOMAIN tests :
          /\ t \in DOMAIN tests' /\ tests'[t].implementation = tests[t].implementation
          /\ tests[t].status = "passed" => tests'[t].status = "passed"
    BY DEF KeptTests, KeptStatus, SameTests
<1>kk. \A k \in DOMAIN retests :
          /\ k \in DOMAIN retests' /\ retests'[k].implementation = retests[k].implementation
          /\ retests'[k].test = retests[k].test /\ retests'[k].result = retests[k].result
    BY DEF KeptRetests, KeptStatus, SameRetests
<1>fk. \A f \in DOMAIN fixes :
          /\ f \in DOMAIN fixes' /\ fixes'[f].retest = fixes[f].retest
          /\ fixes'[f].status = fixes[f].status
    BY DEF KeptFixes, KeptStatus, SameFixes
<1>1. \A d \in DOMAIN diagnoses' :
          /\ diagnoses'[d].review \in DOMAIN reviews'
          /\ reviews'[diagnoses'[d].review].analysis = diagnoses'[d].analysis
          /\ reviews'[diagnoses'[d].review].decision = "approved"
    BY <1>a, <1>dk DEF Lineage, NewRowsFounded
<1>2. \A m \in DOMAIN actions' :
          /\ actions'[m].review \in DOMAIN reviews'
          /\ reviews'[actions'[m].review].analysis = actions'[m].analysis
          /\ reviews'[actions'[m].review].decision = "approved"
          /\ actions'[m].diagnosis # 0 =>
                LET d == actions'[m].diagnosis
                IN  /\ d \in DOMAIN diagnoses' /\ diagnoses'[d].status = "accepted"
                    /\ diagnoses'[d].analysis = actions'[m].analysis
                    /\ diagnoses'[d].review = actions'[m].review
    <2>1. \A m \in DOMAIN actions : /\ actions'[m].analysis = actions[m].analysis
                                    /\ actions'[m].review = actions[m].review
                                    /\ actions'[m].diagnosis = actions[m].diagnosis
        BY DEF KeptActions
    <2>2. ASSUME NEW m \in DOMAIN actions
          PROVE  /\ ApprovedBy(actions'[m].analysis, actions'[m].review)
                 /\ actions'[m].diagnosis # 0 =>
                       LET d == actions'[m].diagnosis
                       IN  /\ d \in DOMAIN diagnoses /\ diagnoses'[d].status = "accepted"
                           /\ diagnoses[d].analysis = actions'[m].analysis
                           /\ diagnoses[d].review = actions'[m].review
        BY <1>dk, <2>1 DEF Lineage
    <2>3. ASSUME NEW m \in DOMAIN actions' \ DOMAIN actions
          PROVE  /\ ApprovedBy(actions'[m].analysis, actions'[m].review)
                 /\ actions'[m].diagnosis # 0 =>
                       LET d == actions'[m].diagnosis
                       IN  /\ d \in DOMAIN diagnoses /\ diagnoses'[d].status = "accepted"
                           /\ diagnoses[d].analysis = actions'[m].analysis
                           /\ diagnoses[d].review = actions'[m].review
        BY DEF NewRowsFounded
    <2>. QED
        BY <1>a, <1>dk, <2>2, <2>3
<1>3. \A i \in DOMAIN implementations' : implementations'[i].chain.diagnosis # 0
    BY DEF KeptImplementations, Lineage, NewRowsFounded
<1>4. \A k \in DOMAIN retests' :
          /\ retests'[k].test \in DOMAIN tests'
          /\ tests'[retests'[k].test].status = "passed"
          /\ tests'[retests'[k].test].implementation = retests'[k].implementation
    BY <1>tk, <1>kk DEF Lineage, NewRowsFounded
<1>5. \A f \in DOMAIN fixes' :
          fixes'[f].status = "passed" => retests'[fixes'[f].retest].result = "clean"
    BY <1>kk, <1>fk DEF Lineage, NewRowsFounded, IInv, ExactChains
<1>6. \A o \in DOMAIN outcomes' :
          /\ fixes'[outcomes'[o].fix].retest = outcomes'[o].retest
          /\ retests'[outcomes'[o].retest].test = outcomes'[o].test
          /\ retests'[outcomes'[o].retest].implementation = outcomes'[o].implementation
    <2>1. \A o \in DOMAIN outcomes :
              /\ outcomes'[o].fix = outcomes[o].fix
              /\ outcomes'[o].retest = outcomes[o].retest
              /\ outcomes'[o].test = outcomes[o].test
              /\ outcomes'[o].implementation = outcomes[o].implementation
              /\ outcomes[o].fix \in DOMAIN fixes
              /\ outcomes[o].retest \in DOMAIN retests
        BY OutcomeRefs DEF KeptOutcomes, SameOutcomes
    <2>. QED
        BY <1>kk, <1>fk, <2>1 DEF Lineage, NewRowsFounded
<1>. QED
    BY <1>1, <1>2, <1>3, <1>4, <1>5, <1>6 DEF Lineage, ApprovedBy

\* ... and what the eligible ones stand on ...
LEMMA StandingStep ==
    ASSUME IInv, RowsKept, Lineage, Standing, Founded
    PROVE  Standing'
<1>. USE DEF Founded
<1>1. ASSUME NEW o \in DOMAIN outcomes, outcomes'[o].eligible
      PROVE  /\ outcomes'[o].workflow_status = "current"
             /\ fixes'[outcomes'[o].fix].status = "passed"
             /\ fixes'[outcomes'[o].fix].workflow_status = "current"
             /\ retests'[outcomes'[o].retest].workflow_status = "current"
             /\ tests'[outcomes'[o].test].workflow_status = "current"
             /\ implementations'[outcomes'[o].implementation].workflow_status = "current"
             /\ actions'[outcomes'[o].chain.action].workflow_status = "current"
             /\ diagnoses'[outcomes'[o].chain.diagnosis].workflow_status = "current"
    <2>1. /\ outcomes[o].eligible /\ outcomes'[o].chain = outcomes[o].chain
          /\ outcomes'[o].fix = outcomes[o].fix
          /\ outcomes'[o].implementation = outcomes[o].implementation
          /\ outcomes'[o].test = outcomes[o].test /\ outcomes'[o].retest = outcomes[o].retest
        BY <1>1 DEF RowsKept, KeptChainRows, KeptOutcomes, FieldsKept, SameOutcomes
    <2>2. fixes'[outcomes[o].fix].status = fixes[outcomes[o].fix].status
        BY OutcomeRefs DEF FieldsKept, SameFixes
    <2>. QED
        BY <1>1, <2>1, <2>2 DEF Standing, StillStanding
<1>2. ASSUME NEW c \in DOMAIN cases, cases'[c].eligible
      PROVE  /\ cases'[c].outcome # 0 /\ cases'[c].workflow_status = "current"
             /\ outcomes'[cases'[c].outcome].eligible
    <2>1. cases[c].eligible /\ cases'[c].outcome = cases[c].outcome
        BY <1>2 DEF RowsKept, KeptChainRows, KeptCases
    <2>. QED
        BY <1>2, <2>1 DEF Standing, StillStanding
<1>. QED
    BY <1>1, <1>2 DEF Standing, NewRowsFounded

\* ... and the one current diagnosis of each branch.
LEMMA OneDiagnosisStep ==
    ASSUME RowsKept, OneDiagnosis, FieldsKept, NewRowsFounded
    PROVE  OneDiagnosis'
<1>1. \A d \in DOMAIN diagnoses :
          /\ diagnoses'[d].analysis = diagnoses[d].analysis
          /\ diagnoses'[d].review = diagnoses[d].review
          /\ diagnoses'[d].workflow_status = "current" =>
                diagnoses[d].workflow_status = "current"
    BY DEF RowsKept, KeptChainRows, KeptDiagnoses, KeptStatus, FieldsKept, SameDiagnoses
<1>2. ASSUME NEW d \in DOMAIN diagnoses', NEW e \in DOMAIN diagnoses',
             diagnoses'[d].analysis = diagnoses'[e].analysis,
             diagnoses'[d].review = diagnoses'[e].review,
             diagnoses'[d].workflow_status = "current",
             diagnoses'[e].workflow_status = "current"
      PROVE  d = e
    <2>1. CASE d \in DOMAIN diagnoses /\ e \in DOMAIN diagnoses
        BY <1>1, <1>2, <2>1 DEF OneDiagnosis, DiagnosisOn
    <2>2. CASE ~ (d \in DOMAIN diagnoses /\ e \in DOMAIN diagnoses)
        BY <1>2, <2>2 DEF NewRowsFounded
    <2>. QED
        BY <2>1, <2>2
<1>. QED
    BY <1>2 DEF OneDiagnosis, DiagnosisOn

-----------------------------------------------------------------------------
(* Tables under the operators the handlers use *)

\* A table left alone keeps its columns.
LEMMA UnchangedSame ==
    /\ reviews' = reviews => SameReviews(reviews, reviews')
    /\ diagnoses' = diagnoses => SameDiagnoses(diagnoses, diagnoses')
    /\ tests' = tests => SameTests(tests, tests')
    /\ retests' = retests => SameRetests(retests, retests')
    /\ fixes' = fixes => SameFixes(fixes, fixes')
    /\ outcomes' = outcomes => SameOutcomes(outcomes, outcomes')
BY DEF SameReviews, SameDiagnoses, SameTests, SameRetests, SameFixes, SameOutcomes

\* Retiring rows changes no other column.
LEMMA RetireSame ==
    ASSUME TypeOK, NEW ids, NEW status
    PROVE  /\ SameDiagnoses(diagnoses, Retire(diagnoses, ids, status))
           /\ SameTests(tests, Retire(tests, ids, status))
           /\ SameRetests(retests, Retire(retests, ids, status))
           /\ SameFixes(fixes, Retire(fixes, ids, status))
           /\ SameOutcomes(outcomes, RetireLearning(outcomes, ids, status))
<1>1. SameDiagnoses(diagnoses, Retire(diagnoses, ids, status))
    BY Rows DEF SameDiagnoses, Retire, Diagnosis
<1>2. SameTests(tests, Retire(tests, ids, status))
    BY Rows DEF SameTests, Retire, Test
<1>3. SameRetests(retests, Retire(retests, ids, status))
    BY Rows DEF SameRetests, Retire, Retest
<1>4. SameFixes(fixes, Retire(fixes, ids, status))
    BY Rows DEF SameFixes, Retire, FixVerification
<1>5. SameOutcomes(outcomes, RetireLearning(outcomes, ids, status))
    BY Rows DEF SameOutcomes, RetireLearning, Outcome
<1>. QED
    BY <1>1, <1>2, <1>3, <1>4, <1>5

LeftCurrent(old, new) ==
    \A n \in DOMAIN old : new[n].workflow_status = old[n].workflow_status
LeftEligible(old, new) ==
    /\ LeftCurrent(old, new)
    /\ \A n \in DOMAIN old : new[n].eligible = old[n].eligible

\* A step that retires nothing.
NothingRetired ==
    /\ LeftCurrent(diagnoses, diagnoses') /\ LeftCurrent(actions, actions')
    /\ LeftCurrent(implementations, implementations') /\ LeftCurrent(tests, tests')
    /\ LeftCurrent(retests, retests') /\ LeftCurrent(fixes, fixes')
    /\ LeftEligible(outcomes, outcomes') /\ LeftEligible(cases, cases')

\* A table left alone retires nothing.
LEMMA UnchangedLeft ==
    /\ diagnoses' = diagnoses => LeftCurrent(diagnoses, diagnoses')
    /\ actions' = actions => LeftCurrent(actions, actions')
    /\ implementations' = implementations => LeftCurrent(implementations, implementations')
    /\ tests' = tests => LeftCurrent(tests, tests')
    /\ retests' = retests => LeftCurrent(retests, retests')
    /\ fixes' = fixes => LeftCurrent(fixes, fixes')
    /\ outcomes' = outcomes => LeftEligible(outcomes, outcomes')
    /\ cases' = cases => LeftEligible(cases, cases')
BY DEF LeftCurrent, LeftEligible

\* A step that retires nothing leaves every eligible row what it stands on.
LEMMA NothingRetiredStands ==
    ASSUME IInv, Lineage, NothingRetired
    PROVE  StillStanding
<1>1. ASSUME NEW o \in DOMAIN outcomes
      PROVE  /\ outcomes'[o].workflow_status = outcomes[o].workflow_status
             /\ fixes'[outcomes[o].fix].workflow_status =
                   fixes[outcomes[o].fix].workflow_status
             /\ retests'[outcomes[o].retest].workflow_status =
                   retests[outcomes[o].retest].workflow_status
             /\ tests'[outcomes[o].test].workflow_status =
                   tests[outcomes[o].test].workflow_status
             /\ actions'[outcomes[o].chain.action].workflow_status =
                   actions[outcomes[o].chain.action].workflow_status
             /\ implementations'[outcomes[o].implementation].workflow_status =
                   implementations[outcomes[o].implementation].workflow_status
             /\ diagnoses'[outcomes[o].chain.diagnosis].workflow_status =
                   diagnoses[outcomes[o].chain.diagnosis].workflow_status
    BY OutcomeRefs DEF NothingRetired, LeftEligible, LeftCurrent
<1>2. ASSUME NEW c \in DOMAIN cases, cases[c].outcome # 0
      PROVE  /\ cases'[c].workflow_status = cases[c].workflow_status
             /\ outcomes'[cases[c].outcome].eligible = outcomes[cases[c].outcome].eligible
    BY <1>2 DEF NothingRetired, LeftEligible, LeftCurrent, IInv, ExactChains
<1>. QED
    BY <1>1, <1>2 DEF StillStanding

\* A rollback retires nothing either, and its penalty case is never eligible.
LEMMA RollbackLeaves ==
    ASSUME TypeOK, NEW i \in DOMAIN implementations, NEW rows \in Seq(Case)
    PROVE  /\ LeftCurrent(implementations, RolledBack(i))
           /\ LeftEligible(rows, WithPenalty(rows, i))
           /\ \A c \in DOMAIN WithPenalty(rows, i) \ DOMAIN rows :
                 ~ WithPenalty(rows, i)[c].eligible
<1>1. LeftCurrent(implementations, RolledBack(i))
    BY Rows DEF LeftCurrent, RolledBack, Implementation
<1>2. i \in Nat
    BY LenProperties DEF TypeOK
<1>. DEFINE penalty == [outcome |-> 0, implementation |-> i, result |-> "rolled_back",
                        eligible |-> FALSE, workflow_status |-> "current"]
<1>3. penalty \in Case
    BY <1>2 DEF Case, WorkflowStatus
<1>4. WithPenalty(rows, i) \in {rows, Append(rows, penalty)}
    BY DEF WithPenalty
<1>5. ~ penalty.eligible
    OBVIOUS
<1>. HIDE DEF penalty
<1>6. /\ LeftEligible(rows, Append(rows, penalty)) /\ LeftEligible(rows, rows)
      /\ \A c \in DOMAIN Append(rows, penalty) \ DOMAIN rows :
            ~ Append(rows, penalty)[c].eligible
    BY <1>3, <1>5, AppendKeeps DEF LeftEligible, LeftCurrent
<1>. QED
    BY <1>1, <1>4, <1>6

\* The gate admits what an approving review of the current analysis stands behind.
LEMMA PermissionApproves ==
    ASSUME NEW a, NEW r, Permission(a, r)
    PROVE  a \in CurrentAnalyses /\ ApprovedBy(a, r)
BY DEF Permission, ApprovedBy

-----------------------------------------------------------------------------
(* Every handler is founded *)

\* The cascade, which leaves nothing eligible.
LEMMA CascadeFounded ==
    ASSUME IInv, InvalidateReviews(CurrentAnalyses), InvalidateDownstream(CurrentAnalyses)
    PROVE  Founded
<1>1. SameReviews(reviews, reviews')
    BY Rows DEF SameReviews, InvalidateReviews, Review, IInv
<1>2. FieldsKept
    BY <1>1, RetireSame DEF FieldsKept, InvalidateDownstream, IInv
<1>3. NewRowsFounded
    <2>1. SameIds
        BY CascadeKeeps DEF IInv
    <2>2. DOMAIN diagnoses' = DOMAIN diagnoses /\ DOMAIN actions' = DOMAIN actions
        BY DEF InvalidateDownstream, Retire
    <2>. QED
        BY <2>1, <2>2 DEF SameIds, NewRowsFounded
<1>4. StillStanding
    <2>1. NothingCurrent'
        BY CascadeReachesAll
    <2>2. KeptCases(cases, cases') /\ KeptOutcomes(outcomes, outcomes')
        BY CascadeKeeps DEF IInv, KeptChainRows
    <2>3. \A o \in DOMAIN outcomes : ~ outcomes'[o].eligible
        BY <2>1, <2>2 DEF NothingCurrent, KeptOutcomes, KeptStatus
    <2>4. \A c \in DOMAIN cases : cases[c].outcome # 0 => ~ cases'[c].eligible
        BY <2>1, <2>2 DEF NothingCurrent, KeptCases, KeptStatus
    <2>. QED
        BY <2>3, <2>4 DEF StillStanding
<1>. QED
    BY <1>2, <1>3, <1>4 DEF Founded

\* A step that touches no row of the chain.
LEMMA UnchangedFounded ==
    ASSUME IInv, Lineage, UNCHANGED chainRows, SameReviews(reviews, reviews')
    PROVE  Founded
<1>1. FieldsKept
    BY UnchangedSame DEF FieldsKept, chainRows
<1>2. NewRowsFounded
    BY DEF NewRowsFounded, chainRows
<1>3. StillStanding
    BY UnchangedLeft, NothingRetiredStands DEF NothingRetired, chainRows
<1>. QED
    BY <1>1, <1>2, <1>3 DEF Founded

\* Submitting a review.
LEMMA ReviewFounded ==
    ASSUME IInv, Lineage, NEW decision \in ReviewDecisions, SubmitReview(decision)
    PROVE  Founded
<1>1. PICK a \in CurrentAnalyses :
          reviews' = Append(reviews, [analysis |-> a, decision |-> decision,
                                      progression_valid |-> TRUE])
    BY DEF SubmitReview
<1>. DEFINE row == [analysis |-> a, decision |-> decision, progression_valid |-> TRUE]
<1>2. row \in Review
    BY Inputs, LenProperties DEF Review, CurrentAnalyses, IInv, TypeOK
<1>3. SameReviews(reviews, reviews')
    BY <1>1, <1>2, AppendKeeps DEF SameReviews, IInv, TypeOK
<1>. QED
    BY <1>3, UnchangedFounded DEF SubmitReview

\* Generating a diagnosis: an outcome of another branch keeps all it stands on, because
\* the supersession follows the diagnosis each row's own chain names.
LEMMA DiagnosisFounded ==
    ASSUME IInv, Lineage, GenerateDiagnosis
    PROVE  Founded
<1>1. PICK a \in CurrentAnalyses, r \in DOMAIN reviews :
          /\ Permission(a, r)
          /\ LET old == {d \in DOMAIN diagnoses : DiagnosisOn(d, a, r)}
             IN  /\ diagnoses' = Append(Retire(diagnoses, old, "superseded"),
                        [analysis |-> a, review |-> r, workflow_status |-> "current",
                         status |-> "awaiting_human_review"])
                 /\ SupersedeDiagnoses(old)
    BY DEF GenerateDiagnosis
<1>. DEFINE old == {d \in DOMAIN diagnoses : DiagnosisOn(d, a, r)}
            row == [analysis |-> a, review |-> r, workflow_status |-> "current",
                    status |-> "awaiting_human_review"]
            rest == Retire(diagnoses, old, "superseded")
<1>2. row \in Diagnosis
    BY <1>1, PermissionIds DEF Diagnosis, WorkflowStatus, IInv
<1>3. rest \in Seq(Diagnosis) /\ DOMAIN rest = DOMAIN diagnoses
    BY RowTypesRetire, RetireType DEF IInv, TypeOK, WorkflowStatus, Retire
<1>4. SameDiagnoses(diagnoses, rest) /\ KeptDiagnoses(diagnoses, rest)
    BY RetireSame, RetireKeeps DEF IInv
<1>5. /\ \A d \in DOMAIN diagnoses : d \notin old => rest[d] = diagnoses[d]
      /\ \A d \in old : rest[d].workflow_status = "superseded"
    BY Rows DEF Retire, IInv, Diagnosis
<1>6. diagnoses' = Append(rest, row) /\ SupersedeDiagnoses(old)
    BY <1>1
<1>7. \A d \in DOMAIN diagnoses : DiagnosisOn(d, a, r) => d \in old
    OBVIOUS
<1>8. row.analysis = a /\ row.review = r
    OBVIOUS
<1>. HIDE DEF old, rest, row
<1>9. /\ \A d \in DOMAIN diagnoses : d \in DOMAIN diagnoses' /\ diagnoses'[d] = rest[d]
      /\ \A d \in DOMAIN diagnoses' \ DOMAIN diagnoses :
            d = Len(rest) + 1 /\ diagnoses'[d] = row
    BY <1>2, <1>3, <1>6, AppendKeeps
<1>10. FieldsKept
    <2>1. SameDiagnoses(diagnoses, diagnoses')
        BY <1>4, <1>9 DEF SameDiagnoses
    <2>2. /\ SameTests(tests, tests') /\ SameRetests(retests, retests')
          /\ SameFixes(fixes, fixes') /\ SameOutcomes(outcomes, outcomes')
        BY <1>6, RetireSame DEF SupersedeDiagnoses, IInv
    <2>. QED
        BY <2>1, <2>2, UnchangedSame DEF FieldsKept, GenerateDiagnosis
<1>11. NewRowsFounded
    <2>1. /\ DOMAIN actions' = DOMAIN actions
          /\ DOMAIN implementations' = DOMAIN implementations
          /\ DOMAIN retests' = DOMAIN retests /\ DOMAIN fixes' = DOMAIN fixes
          /\ DOMAIN outcomes' = DOMAIN outcomes /\ DOMAIN cases' = DOMAIN cases
        BY <1>6 DEF SupersedeDiagnoses, Retire, RetireLearning
    <2>2. ASSUME NEW d \in DOMAIN diagnoses' \ DOMAIN diagnoses
          PROVE  /\ ApprovedBy(diagnoses'[d].analysis, diagnoses'[d].review)
                 /\ \A e \in DOMAIN diagnoses' :
                       /\ diagnoses'[e].analysis = diagnoses'[d].analysis
                       /\ diagnoses'[e].review = diagnoses'[d].review
                       /\ diagnoses'[e].workflow_status = "current"
                       => e = d
        <3>1. ApprovedBy(diagnoses'[d].analysis, diagnoses'[d].review)
            BY <1>1, <1>8, <1>9, PermissionApproves
        <3>2. ASSUME NEW e \in DOMAIN diagnoses,
                     diagnoses'[e].analysis = a, diagnoses'[e].review = r,
                     diagnoses'[e].workflow_status = "current"
              PROVE  FALSE
            <4>1. rest[e].workflow_status = "current" /\ rest[e].analysis = a
                      /\ rest[e].review = r
                BY <1>9, <3>2
            <4>2. DiagnosisOn(e, a, r)
                BY <1>4, <4>1 DEF SameDiagnoses, KeptDiagnoses, KeptStatus, DiagnosisOn
            <4>. QED
                BY <1>5, <1>7, <4>1, <4>2
        <3>. QED
            BY <1>8, <1>9, <3>1, <3>2
    <2>. QED
        BY <2>1, <2>2 DEF NewRowsFounded
<1>12. StillStanding
    <2>1. ASSUME NEW o \in DOMAIN outcomes, outcomes'[o].eligible
          PROVE  /\ outcomes'[o].workflow_status = outcomes[o].workflow_status
                 /\ fixes'[outcomes[o].fix].workflow_status =
                       fixes[outcomes[o].fix].workflow_status
                 /\ retests'[outcomes[o].retest].workflow_status =
                       retests[outcomes[o].retest].workflow_status
                 /\ tests'[outcomes[o].test].workflow_status =
                       tests[outcomes[o].test].workflow_status
                 /\ actions'[outcomes[o].chain.action].workflow_status =
                       actions[outcomes[o].chain.action].workflow_status
                 /\ implementations'[outcomes[o].implementation].workflow_status =
                       implementations[outcomes[o].implementation].workflow_status
                 /\ diagnoses'[outcomes[o].chain.diagnosis].workflow_status =
                       diagnoses[outcomes[o].chain.diagnosis].workflow_status
        <3>. DEFINE d == outcomes[o].chain.diagnosis
        <3>1. d \notin old /\ outcomes'[o] = outcomes[o]
            BY <1>6, <2>1, Rows DEF SupersedeDiagnoses, RetireLearning, IInv, Outcome
        <3>2. fixes'[outcomes[o].fix] = fixes[outcomes[o].fix]
            BY <1>6, <3>1, OutcomeRefs DEF SupersedeDiagnoses, Retire
        <3>3. implementations'[outcomes[o].implementation]
                  = implementations[outcomes[o].implementation]
            BY <1>6, <3>1, OutcomeRefs DEF SupersedeDiagnoses, Retire
        <3>5. actions'[outcomes[o].chain.action] = actions[outcomes[o].chain.action]
            BY <1>6, <3>1, OutcomeRefs DEF SupersedeDiagnoses, Retire
        <3>6. tests'[outcomes[o].test] = tests[outcomes[o].test]
            <4>1. tests[outcomes[o].test].action = outcomes[o].chain.action
                BY OutcomeRefs DEF IInv, ExactChains
            <4>. QED
                BY <1>6, <3>1, <4>1, OutcomeRefs DEF SupersedeDiagnoses, Retire
        <3>7. retests'[outcomes[o].retest] = retests[outcomes[o].retest]
            BY <1>6, <3>1, OutcomeRefs DEF SupersedeDiagnoses, Retire
        <3>4. diagnoses'[d] = diagnoses[d]
            BY <1>5, <1>9, <3>1, OutcomeRefs
        <3>. QED
            BY <3>1, <3>2, <3>3, <3>4, <3>5, <3>6, <3>7
    <2>2. ASSUME NEW c \in DOMAIN cases, cases'[c].eligible, cases[c].outcome # 0
          PROVE  /\ cases'[c].workflow_status = cases[c].workflow_status
                 /\ outcomes'[cases[c].outcome].eligible =
                       outcomes[cases[c].outcome].eligible
        <3>. DEFINE o == cases[c].outcome
        <3>1. o \in DOMAIN outcomes
            BY <2>2, SMTT(30) DEF IInv, ExactChains
        <3>2. outcomes[o].chain.diagnosis \notin old /\ cases'[c] = cases[c]
            BY <1>6, <2>2, <3>1, Rows DEF SupersedeDiagnoses, RetireLearning, IInv, Case
        <3>3. outcomes'[o] = outcomes[o]
            BY <1>6, <3>1, <3>2 DEF SupersedeDiagnoses, RetireLearning
        <3>. QED
            BY <3>2, <3>3
    <2>. QED
        BY <2>1, <2>2 DEF StillStanding
<1>. QED
    BY <1>10, <1>11, <1>12 DEF Founded

\* Accepting or declining a diagnosis, and creating or updating an action.
LEMMA ActionFounded ==
    ASSUME IInv, Lineage,
           \/ \E d \in DOMAIN diagnoses :
                 \/ AcceptDiagnosis(d)
                 \/ \E status \in {"rejected", "more_evidence_requested"} :
                       DeclineDiagnosis(d, status)
           \/ \E status \in StatusInputs :
                 \/ CreateAction(status)
                 \/ \E m \in DOMAIN actions : UpdateAction(m, status)
    PROVE  Founded
<1>. USE DEF IInv
<1>stands. ASSUME LeftCurrent(diagnoses, diagnoses'), LeftCurrent(actions, actions'),
                  UNCHANGED <<implementations, tests, retests, fixes, outcomes, cases>>
           PROVE  StillStanding
    BY <1>stands, UnchangedLeft, NothingRetiredStands DEF NothingRetired
<1>1. ASSUME NEW d \in DOMAIN diagnoses, AcceptDiagnosis(d)
      PROVE  Founded
    <2>. DEFINE row == [diagnosis |-> d, analysis |-> diagnoses[d].analysis,
                        review |-> diagnoses[d].review,
                        status |-> "not_started", workflow_status |-> "current"]
    <2>1. row \in Action
        <3>1. d \in Nat
            BY LenProperties DEF TypeOK
        <3>2. diagnoses[d] \in Diagnosis
            BY Rows
        <3>. QED
            BY <3>1, <3>2 DEF Diagnosis, Action, RemediationStatus, WorkflowStatus
    <2>2. /\ actions' = Append(actions, row) /\ row.diagnosis = d
          /\ row.analysis = diagnoses[d].analysis /\ row.review = diagnoses[d].review
          /\ ApprovedBy(row.analysis, row.review)
        BY <1>1, PermissionApproves DEF AcceptDiagnosis, PermitsDiagnosis
    <2>. HIDE DEF row
    <2>3. /\ \A m \in DOMAIN actions' \ DOMAIN actions : actions'[m] = row
          /\ LeftCurrent(actions, actions')
        BY <2>1, <2>2, AppendKeeps DEF TypeOK, LeftCurrent
    <2>4. /\ SameDiagnoses(diagnoses, diagnoses') /\ LeftCurrent(diagnoses, diagnoses')
          /\ DOMAIN diagnoses' = DOMAIN diagnoses /\ diagnoses'[d].status = "accepted"
        BY <1>1, Rows DEF AcceptDiagnosis, SameDiagnoses, LeftCurrent, Diagnosis
    <2>5. UNCHANGED <<reviews, implementations, tests, retests, fixes, outcomes, cases>>
        BY <1>1 DEF AcceptDiagnosis
    <2>6. FieldsKept
        BY <2>4, <2>5, UnchangedSame DEF FieldsKept
    <2>7. NewRowsFounded
        BY <2>2, <2>3, <2>4, <2>5 DEF NewRowsFounded
    <2>. QED
        BY <1>stands, <2>3, <2>4, <2>5, <2>6, <2>7 DEF Founded
<1>2. ASSUME NEW d \in DOMAIN diagnoses,
             NEW status \in {"rejected", "more_evidence_requested"},
             DeclineDiagnosis(d, status)
      PROVE  Founded
    <2>1. /\ SameDiagnoses(diagnoses, diagnoses') /\ LeftCurrent(diagnoses, diagnoses')
          /\ DOMAIN diagnoses' = DOMAIN diagnoses
        BY <1>2, Rows DEF DeclineDiagnosis, SameDiagnoses, LeftCurrent, Diagnosis
    <2>2. UNCHANGED <<reviews, actions, implementations, tests, retests, fixes, outcomes,
                      cases>>
        BY <1>2 DEF DeclineDiagnosis
    <2>3. FieldsKept
        BY <2>1, <2>2, UnchangedSame DEF FieldsKept
    <2>4. NewRowsFounded
        BY <2>1, <2>2 DEF NewRowsFounded
    <2>. QED
        BY <1>stands, <2>1, <2>2, <2>3, <2>4, UnchangedLeft DEF Founded
<1>3. ASSUME NEW status \in StatusInputs, CreateAction(status)
      PROVE  Founded
    <2>1. PICK a \in CurrentAnalyses, r \in DOMAIN reviews :
              /\ Permission(a, r)
              /\ actions' = Append(actions,
                    [diagnosis |-> 0, analysis |-> a, review |-> r,
                     status |-> status, workflow_status |-> "current"])
        BY <1>3 DEF CreateAction
    <2>. DEFINE row == [diagnosis |-> 0, analysis |-> a, review |-> r,
                        status |-> status, workflow_status |-> "current"]
    <2>2. row \in Action
        BY <2>1, Inputs, PermissionIds DEF Action, WorkflowStatus
    <2>3. /\ actions' = Append(actions, row) /\ row.diagnosis = 0
          /\ ApprovedBy(row.analysis, row.review)
        BY <2>1, PermissionApproves
    <2>. HIDE DEF row
    <2>4. /\ \A m \in DOMAIN actions' \ DOMAIN actions : actions'[m] = row
          /\ LeftCurrent(actions, actions')
        BY <2>2, <2>3, AppendKeeps DEF TypeOK, LeftCurrent
    <2>5. UNCHANGED <<reviews, diagnoses, implementations, tests, retests, fixes, outcomes,
                      cases>>
        BY <1>3 DEF CreateAction
    <2>6. FieldsKept
        BY <2>5, UnchangedSame DEF FieldsKept
    <2>7. NewRowsFounded
        BY <2>3, <2>4, <2>5 DEF NewRowsFounded
    <2>. QED
        BY <1>stands, <2>4, <2>5, <2>6, <2>7, UnchangedLeft DEF Founded
<1>4. ASSUME NEW m \in DOMAIN actions, NEW status \in StatusInputs, UpdateAction(m, status)
      PROVE  Founded
    <2>1. DOMAIN actions' = DOMAIN actions /\ LeftCurrent(actions, actions')
        BY <1>4, Rows DEF UpdateAction, LeftCurrent, Action
    <2>2. UNCHANGED <<reviews, diagnoses, implementations, tests, retests, fixes, outcomes,
                      cases>>
        BY <1>4 DEF UpdateAction
    <2>3. FieldsKept
        BY <2>2, UnchangedSame DEF FieldsKept
    <2>4. NewRowsFounded
        BY <2>1, <2>2 DEF NewRowsFounded
    <2>. QED
        BY <1>stands, <2>1, <2>2, <2>3, <2>4, UnchangedLeft DEF Founded
<1>. QED
    BY <1>1, <1>2, <1>3, <1>4

\* Recording an implementation, starting a test and rolling a patch back.
LEMMA ImplementationFounded ==
    ASSUME IInv, Lineage,
           \/ \E m \in DOMAIN actions, mode \in ModeInputs, change \in Changes :
                 RecordImplementation(m, mode, change)
           \/ \E i \in DOMAIN implementations : StartTest(i) \/ RollbackPatch(i)
    PROVE  Founded
<1>. USE DEF IInv
<1>1. ASSUME NEW m \in DOMAIN actions, NEW mode \in ModeInputs, NEW change \in Changes,
             RecordImplementation(m, mode, change)
      PROVE  Founded
    <2>. DEFINE row == [chain |-> ChainOf(m), mode |-> mode, change |-> change,
                        status |-> "completed", workflow_status |-> "current"]
    <2>1. row \in Implementation
        BY Inputs, ChainOfType DEF Implementation, WorkflowStatus
    <2>2. implementations' = Append(implementations, row) /\ row.chain.diagnosis # 0
        BY <1>1 DEF RecordImplementation, ChainOf
    <2>. HIDE DEF row
    <2>3. /\ \A i \in DOMAIN implementations' \ DOMAIN implementations :
                implementations'[i] = row
          /\ LeftCurrent(implementations, implementations')
        BY <2>1, <2>2, AppendKeeps, SMTT(30) DEF TypeOK, LeftCurrent
    <2>4. DOMAIN actions' = DOMAIN actions /\ LeftCurrent(actions, actions')
        BY <1>1, Rows DEF RecordImplementation, LeftCurrent, Action
    <2>5. UNCHANGED <<reviews, diagnoses, tests, retests, fixes, outcomes, cases>>
        BY <1>1 DEF RecordImplementation
    <2>6. FieldsKept
        BY <2>5, UnchangedSame DEF FieldsKept
    <2>7. NewRowsFounded
        BY <2>2, <2>3, <2>4, <2>5 DEF NewRowsFounded
    <2>8. StillStanding
        BY <2>3, <2>4, <2>5, UnchangedLeft, NothingRetiredStands DEF NothingRetired
    <2>. QED
        BY <2>6, <2>7, <2>8 DEF Founded
<1>2. ASSUME NEW i \in DOMAIN implementations, StartTest(i)
      PROVE  Founded
    <2>. DEFINE row == [action |-> implementations[i].chain.action, implementation |-> i,
                        status |-> "running", completed_at |-> 0,
                        workflow_status |-> "current"]
    <2>1. row \in Test
        <3>1. i \in Nat
            BY LenProperties DEF TypeOK
        <3>2. implementations[i] \in Implementation
            BY Rows
        <3>. QED
            BY <3>1, <3>2 DEF Test, Implementation, Chain, WorkflowStatus
    <2>2. tests' = Append(tests, row)
        BY <1>2 DEF StartTest
    <2>. HIDE DEF row
    <2>3. SameTests(tests, tests') /\ LeftCurrent(tests, tests')
        <3>1. tests \in Seq(Test)
            BY DEF TypeOK
        <3>. HIDE DEF IInv
        <3>. QED
            BY <2>1, <2>2, <3>1, AppendKeeps DEF SameTests, LeftCurrent
    <2>4. UNCHANGED <<reviews, diagnoses, actions, implementations, retests, fixes,
                      outcomes, cases>>
        BY <1>2 DEF StartTest
    <2>5. FieldsKept
        BY <2>3, <2>4, UnchangedSame DEF FieldsKept
    <2>6. NewRowsFounded
        BY <2>4 DEF NewRowsFounded
    <2>7. StillStanding
        BY <2>3, <2>4, UnchangedLeft, NothingRetiredStands DEF NothingRetired
    <2>. QED
        BY <2>5, <2>6, <2>7 DEF Founded
<1>3. ASSUME NEW i \in DOMAIN implementations, RollbackPatch(i)
      PROVE  Founded
    <2>1. cases \in Seq(Case) /\ implementations' = RolledBack(i)
              /\ cases' = WithPenalty(cases, i)
        BY <1>3 DEF RollbackPatch, TypeOK
    <2>2. /\ LeftCurrent(implementations, implementations')
          /\ LeftEligible(cases, cases')
          /\ \A c \in DOMAIN cases' \ DOMAIN cases : ~ cases'[c].eligible
          /\ DOMAIN implementations' = DOMAIN implementations
        BY <2>1, RollbackLeaves, RollbackKeeps
    <2>3. UNCHANGED <<reviews, diagnoses, actions, tests, retests, fixes, outcomes>>
        BY <1>3 DEF RollbackPatch
    <2>4. FieldsKept
        BY <2>3, UnchangedSame DEF FieldsKept
    <2>5. NewRowsFounded
        BY <2>2, <2>3 DEF NewRowsFounded
    <2>6. StillStanding
        BY <2>2, <2>3, UnchangedLeft, NothingRetiredStands DEF NothingRetired
    <2>. QED
        BY <2>4, <2>5, <2>6 DEF Founded
<1>. QED
    BY <1>1, <1>2, <1>3

\* Finishing a test, which may pass a running one only, and recording a retest.
LEMMA TestFounded ==
    ASSUME IInv, Lineage, NEW t \in DOMAIN tests, NEW restored \in BOOLEAN,
           \/ \E passed \in BOOLEAN : FinishTest(t, passed, restored)
           \/ \E result \in {"clean", "exposed", "incomparable"} :
                 RecordRetest(t, result, restored)
    PROVE  Founded
<1>. USE DEF IInv
<1>. DEFINE i == tests[t].implementation
<1>i. /\ i \in DOMAIN implementations /\ i \in Nat /\ t \in Nat
      /\ implementations[i].chain.action \in DOMAIN actions
    BY LenProperties DEF TypeOK, ExactChains
<1>roll. ASSUME \/ implementations' = implementations /\ cases' = cases
                \/ implementations' = RolledBack(i) /\ cases' = WithPenalty(cases, i)
         PROVE  /\ LeftCurrent(implementations, implementations')
                /\ LeftEligible(cases, cases')
                /\ \A c \in DOMAIN cases' \ DOMAIN cases : ~ cases'[c].eligible
                /\ DOMAIN implementations' = DOMAIN implementations
    <2>1. cases \in Seq(Case)
        BY DEF TypeOK
    <2>. QED
        BY <1>i, <1>roll, <2>1, RollbackLeaves, RollbackKeeps, UnchangedLeft
<1>1. ASSUME NEW passed \in BOOLEAN, FinishTest(t, passed, restored)
      PROVE  Founded
    <2>1. \/ implementations' = implementations /\ cases' = cases
          \/ implementations' = RolledBack(i) /\ cases' = WithPenalty(cases, i)
        BY <1>1 DEF FinishTest
    <2>2. SameTests(tests, tests') /\ LeftCurrent(tests, tests')
        <3>1. /\ tests[t].status = "running"
              /\ tests' = [tests EXCEPT ![t].status = IF passed THEN "passed" ELSE "failed",
                                        ![t].completed_at = Cardinality(Finished) + 1]
            BY <1>1 DEF FinishTest
        <3>. QED
            BY <3>1, Rows DEF SameTests, LeftCurrent, Test
    <2>3. UNCHANGED <<reviews, diagnoses, actions, retests, fixes, outcomes>>
        BY <1>1 DEF FinishTest
    <2>4. FieldsKept
        BY <2>2, <2>3, UnchangedSame DEF FieldsKept
    <2>5. NewRowsFounded
        BY <1>roll, <2>1, <2>3 DEF NewRowsFounded
    <2>6. StillStanding
        BY <1>roll, <2>1, <2>2, <2>3, UnchangedLeft, NothingRetiredStands
        DEF NothingRetired
    <2>. QED
        BY <2>4, <2>5, <2>6 DEF Founded
<1>2. ASSUME NEW result \in {"clean", "exposed", "incomparable"},
             RecordRetest(t, result, restored)
      PROVE  Founded
    <2>. DEFINE row == [chain |-> ChainOf(implementations[i].chain.action),
                        implementation |-> i, test |-> t, result |-> result,
                        workflow_status |-> "current"]
    <2>1. row \in Retest
        BY <1>i, ChainOfType DEF Retest, WorkflowStatus
    <2>2. /\ retests' = Append(retests, row)
          /\ row.implementation = i /\ row.test = t /\ tests[t].status = "passed"
        BY <1>2 DEF RecordRetest
    <2>. HIDE DEF row
    <2>3. /\ SameRetests(retests, retests') /\ LeftCurrent(retests, retests')
          /\ \A k \in DOMAIN retests' \ DOMAIN retests : retests'[k] = row
        BY <2>1, <2>2, AppendKeeps DEF TypeOK, SameRetests, LeftCurrent
    <2>4. \/ implementations' = implementations /\ cases' = cases
          \/ implementations' = RolledBack(i) /\ cases' = WithPenalty(cases, i)
        BY <1>2 DEF RecordRetest
    <2>5. UNCHANGED <<reviews, diagnoses, actions, tests, fixes, outcomes>>
        BY <1>2 DEF RecordRetest
    <2>6. FieldsKept
        BY <2>3, <2>5, UnchangedSame DEF FieldsKept
    <2>7. NewRowsFounded
        BY <1>roll, <2>2, <2>3, <2>4, <2>5 DEF NewRowsFounded
    <2>8. StillStanding
        BY <1>roll, <2>3, <2>4, <2>5, UnchangedLeft, NothingRetiredStands
        DEF NothingRetired
    <2>. QED
        BY <2>6, <2>7, <2>8 DEF Founded
<1>. QED
    BY <1>1, <1>2

\* The newest of some rows is one of them and no other is newer: of the sets of newer
\* rows, the smallest is empty.
LEMMA NewestIsGreatest ==
    ASSUME NEW n \in Nat, NEW ids, ids \subseteq 1..n, ids # {}
    PROVE  Newest(ids) \in ids /\ \A m \in ids : m <= Newest(ids)
<1>. DEFINE R == StrictSubsetOrdering(1..n)
            F == FiniteSubsetsOf(1..n)
            newer(m) == {k \in ids : k > m}
            T == {newer(m) : m \in ids}
<1>1. IsWellFoundedOn(R, F)
    BY FS_StrictSubsetOrderingWellFounded
<1>2. F = SUBSET (1..n)
    <2>1. IsFiniteSet(1..n)
        BY FS_Interval
    <2>. QED
        BY <2>1, FS_FiniteSubsetsOfFinite
<1>3. T \subseteq F /\ T # {}
    <2>1. \A m \in ids : newer(m) \in SUBSET (1..n)
        OBVIOUS
    <2>. HIDE DEF newer, F
    <2>. QED
        BY <1>2, <2>1
<1>4. PICK x \in T : \A y \in T : ~ (<<y, x>> \in R)
    <2>. HIDE DEF T, R, F
    <2>. QED
        BY <1>1, <1>3, WFMin
<1>5. PICK m \in ids : x = newer(m)
    BY <1>4
<1>. HIDE DEF R, F
<1>6. ASSUME NEW k \in ids, k > m
      PROVE  FALSE
    <2>1. newer(k) \subseteq newer(m) /\ k \in newer(m) /\ k \notin newer(k)
        <3>1. k \in Int /\ m \in Int /\ \A j \in ids : j \in Int
            OBVIOUS
        <3>2. \A j \in ids : j > k => j > m
            BY <1>6, <3>1
        <3>3. k \in newer(m)
            BY <1>6
        <3>4. k \notin newer(k)
            BY <3>1
        <3>. QED
            BY <3>2, <3>3, <3>4
    <2>2. newer(k) \in SUBSET (1..n) /\ newer(m) \in SUBSET (1..n)
        OBVIOUS
    <2>3. newer(k) \in T
        OBVIOUS
    <2>. HIDE DEF newer
    <2>4. <<newer(k), newer(m)>> \in R
        BY <2>1, <2>2 DEF StrictSubsetOrdering, R
    <2>. QED
        BY <1>4, <1>5, <2>3, <2>4
<1>7. \A k \in ids : k <= m
    BY <1>6 DEF newer
<1>. QED
    BY <1>7 DEF Newest

\* What verifying a fix reads: the retest's chain is the reported action's own, and its
\* implementation the newest of that chain still in force.
LEMMA VerifiedRows ==
    ASSUME IInv, Lineage, NEW k \in DOMAIN retests, Verifiable(k)
    PROVE  LET chain == retests[k].chain
               i == retests[k].implementation
           IN  /\ chain.diagnosis # 0
               /\ Permission(chain.analysis, chain.review)
               /\ i \in DOMAIN implementations
               /\ implementations[i].workflow_status = "current"
               /\ retests[k].workflow_status = "current"
               /\ tests[retests[k].test].workflow_status = "current"
               /\ ActionOn(chain.action, chain.analysis, chain.review)
               /\ DiagnosisOn(chain.diagnosis, chain.analysis, chain.review)
               /\ tests[retests[k].test].status = "passed"
               /\ diagnoses[chain.diagnosis].status = "accepted"
<1>. USE DEF IInv
<1>. DEFINE chain == retests[k].chain
            i == retests[k].implementation
<1>1. PICK m :
          /\ PermitsAction(m) /\ actions[m].diagnosis # 0 /\ chain = ChainOf(m)
          /\ retests[k].workflow_status = "current"
          /\ tests[retests[k].test].workflow_status = "current"
          /\ i = Newest({j \in DOMAIN implementations :
                            /\ implementations[j].chain = ChainOf(m)
                            /\ implementations[j].status = "completed"
                            /\ implementations[j].workflow_status = "current"})
    BY DEF Verifiable
<1>. DEFINE eligible == {j \in DOMAIN implementations :
                            /\ implementations[j].chain = ChainOf(m)
                            /\ implementations[j].status = "completed"
                            /\ implementations[j].workflow_status = "current"}
<1>2. /\ chain.analysis = actions[m].analysis /\ chain.review = actions[m].review
      /\ chain.diagnosis = actions[m].diagnosis /\ chain.action = m
    BY <1>1 DEF ChainOf
<1>3. /\ i \in DOMAIN implementations /\ implementations[i].chain = chain
      /\ m \in DOMAIN actions
    BY <1>2 DEF ExactChains
<1>4. DOMAIN implementations = 1..Len(implementations) /\ Len(implementations) \in Nat
    BY LenProperties DEF TypeOK
<1>5. i \in eligible
    <2>1. eligible \subseteq 1..Len(implementations)
        BY <1>4
    <2>2. i = Newest(eligible) /\ i # 0
        BY <1>1, <1>3, <1>4
    <2>. HIDE DEF eligible
    <2>3. eligible # {}
        BY <2>2 DEF Newest
    <2>. QED
        BY <1>4, <2>1, <2>2, <2>3, NewestIsGreatest
<1>6. /\ Permission(chain.analysis, chain.review)
      /\ ActionOn(chain.action, chain.analysis, chain.review)
      /\ DiagnosisOn(chain.diagnosis, chain.analysis, chain.review)
    BY <1>1, <1>2 DEF PermitsAction
<1>7. /\ tests[retests[k].test].status = "passed"
      /\ diagnoses[chain.diagnosis].status = "accepted"
    BY <1>1, <1>2, <1>3 DEF Lineage
<1>. QED
    BY <1>1, <1>2, <1>3, <1>5, <1>6, <1>7

\* The verification and the outcome repeat the retest's chain.
LEMMA VerifiedChains ==
    ASSUME IInv, NEW k \in DOMAIN retests, NEW restored \in BOOLEAN, VerifyFix(k, restored)
    PROVE  /\ \A f \in DOMAIN fixes' \ DOMAIN fixes : fixes'[f].chain = retests[k].chain
           /\ \A o \in DOMAIN outcomes' \ DOMAIN outcomes :
                 outcomes'[o].chain = retests[k].chain
<1>. USE DEF IInv
<1>. DEFINE fix == [chain |-> retests[k].chain, implementation |-> retests[k].implementation,
                    test |-> retests[k].test, retest |-> k,
                    status |-> VerificationStatus(k), workflow_status |-> "current"]
            outcome == [chain |-> retests[k].chain,
                        implementation |-> retests[k].implementation,
                        test |-> retests[k].test, retest |-> k, fix |-> Len(fixes) + 1,
                        result |-> VerificationStatus(k), eligible |-> Eligible(k),
                        workflow_status |-> "current"]
<1>1. /\ fixes' = Append(fixes, fix) /\ outcomes' = Append(outcomes, outcome)
      /\ fix.chain = retests[k].chain /\ outcome.chain = retests[k].chain
    BY DEF VerifyFix
<1>2. /\ retests[k] \in Retest /\ k \in Nat /\ Len(fixes) \in Nat
    BY Rows, LenProperties DEF TypeOK
<1>3. VerificationStatus(k) \in {"passed", "failed"} /\ Eligible(k) \in BOOLEAN
    BY DEF VerificationStatus, Eligible
<1>4. fix \in FixVerification /\ outcome \in Outcome
    BY <1>2, <1>3 DEF FixVerification, Outcome, Retest, WorkflowStatus
<1>. HIDE DEF fix, outcome
<1>. QED
    BY <1>1, <1>4, AppendKeeps DEF TypeOK

\* Verifying a fix: an outcome that starts eligible stands on rows the gate found current.
LEMMA VerificationFounded ==
    ASSUME IInv, Lineage, NEW k \in DOMAIN retests, NEW restored \in BOOLEAN,
           VerifyFix(k, restored)
    PROVE  Founded
<1>. USE DEF IInv
<1>. DEFINE chain == retests[k].chain
            i == retests[k].implementation
            status == VerificationStatus(k)
            fix == [chain |-> chain, implementation |-> i, test |-> retests[k].test,
                    retest |-> k, status |-> status, workflow_status |-> "current"]
            outcome == [chain |-> chain, implementation |-> i, test |-> retests[k].test,
                        retest |-> k, fix |-> Len(fixes) + 1, result |-> status,
                        eligible |-> Eligible(k), workflow_status |-> "current"]
            case == [outcome |-> Len(outcomes) + 1, implementation |-> i,
                     result |-> status, eligible |-> Eligible(k),
                     workflow_status |-> "current"]
            learned == Append(cases, case)
<1>1. /\ i \in DOMAIN implementations /\ i \in Nat /\ k \in Nat
      /\ chain \in Chain /\ retests[k].test \in Nat
      /\ Len(fixes) \in Nat /\ Len(outcomes) \in Nat
    <2>1. retests[k] \in Retest
        BY Rows
    <2>2. /\ retests \in Seq(Retest) /\ implementations \in Seq(Implementation)
          /\ fixes \in Seq(FixVerification) /\ outcomes \in Seq(Outcome)
        BY DEF TypeOK
    <2>3. i \in DOMAIN implementations
        BY DEF ExactChains
    <2>4. k \in Nat /\ i \in Nat /\ Len(fixes) \in Nat /\ Len(outcomes) \in Nat
        BY <2>2, <2>3, LenProperties
    <2>. QED
        BY <2>1, <2>3, <2>4 DEF Retest
<1>2. /\ status \in {"passed", "failed"} /\ Eligible(k) \in BOOLEAN
      /\ status = "passed" => retests[k].result = "clean"
      /\ Eligible(k) => status = "passed"
    BY DEF VerificationStatus, Eligible
<1>3. fix \in FixVerification /\ outcome \in Outcome /\ case \in Case
    BY <1>1, <1>2 DEF FixVerification, Outcome, Case, WorkflowStatus
<1>4. /\ implementations[i].workflow_status = "current"
      /\ retests[k].workflow_status = "current"
      /\ tests[retests[k].test].workflow_status = "current"
      /\ actions[chain.action].workflow_status = "current"
      /\ diagnoses[chain.diagnosis].workflow_status = "current"
    BY VerifiedRows DEF VerifyFix, ActionOn, DiagnosisOn
<1>5. fixes' = Append(fixes, fix) /\ outcomes' = Append(outcomes, outcome)
    BY DEF VerifyFix
<1>6. \/ implementations' = implementations /\ cases' = learned
      \/ implementations' = RolledBack(i) /\ cases' = WithPenalty(learned, i)
    BY DEF VerifyFix
<1>7. /\ fix.retest = k /\ fix.status = status /\ fix.workflow_status = "current"
      /\ outcome.fix = Len(fixes) + 1 /\ outcome.chain = chain /\ outcome.retest = k
      /\ outcome.implementation = i /\ outcome.test = retests[k].test
      /\ outcome.eligible = Eligible(k) /\ outcome.workflow_status = "current"
      /\ case.outcome = Len(outcomes) + 1 /\ case.eligible = Eligible(k)
      /\ case.workflow_status = "current"
    OBVIOUS
<1>. HIDE DEF fix, outcome, case
<1>8. /\ SameFixes(fixes, fixes') /\ LeftCurrent(fixes, fixes')
      /\ \A f \in DOMAIN fixes' \ DOMAIN fixes : fixes'[f] = fix
      /\ fixes'[Len(fixes) + 1] = fix
    BY <1>3, <1>5, AppendKeeps, SMTT(30) DEF TypeOK, SameFixes, LeftCurrent
<1>9. /\ SameOutcomes(outcomes, outcomes') /\ LeftEligible(outcomes, outcomes')
      /\ \A o \in DOMAIN outcomes' \ DOMAIN outcomes : outcomes'[o] = outcome
      /\ outcomes'[Len(outcomes) + 1] = outcome
    BY <1>3, <1>5, AppendKeeps, SMTT(30) DEF TypeOK, SameOutcomes, LeftEligible, LeftCurrent
<1>10. /\ learned \in Seq(Case) /\ LeftEligible(cases, learned)
       /\ \A c \in DOMAIN cases : c \in DOMAIN learned
       /\ \A c \in DOMAIN learned \ DOMAIN cases : learned[c] = case
    BY <1>3, AppendKeeps, SMTT(30) DEF TypeOK, LeftEligible, LeftCurrent
<1>. HIDE DEF learned
<1>11. /\ LeftCurrent(implementations, implementations')
       /\ DOMAIN implementations' = DOMAIN implementations
       /\ LeftEligible(learned, cases')
       /\ \A c \in DOMAIN cases' \ DOMAIN learned : ~ cases'[c].eligible
       /\ KeptCases(learned, cases')
    <2>1. CASE implementations' = implementations /\ cases' = learned
        BY <2>1 DEF LeftEligible, LeftCurrent, KeptCases, KeptStatus
    <2>2. CASE implementations' = RolledBack(i) /\ cases' = WithPenalty(learned, i)
        BY <1>1, <1>10, <2>2, RollbackKeeps, RollbackLeaves
    <2>. QED
        BY <1>6, <2>1, <2>2
<1>12. LeftEligible(cases, cases')
    BY <1>10, <1>11 DEF LeftEligible, LeftCurrent
<1>13. \A c \in DOMAIN cases' \ DOMAIN cases : cases'[c].eligible =>
           /\ cases'[c].outcome = Len(outcomes) + 1
           /\ cases'[c].workflow_status = "current"
           /\ Eligible(k)
    BY <1>7, <1>10, <1>11 DEF LeftEligible, LeftCurrent, KeptCases
<1>14. UNCHANGED <<analyses, reviews, diagnoses, actions, tests, retests>>
    BY DEF VerifyFix
<1>15. FieldsKept
    BY <1>8, <1>9, <1>14, UnchangedSame DEF FieldsKept
<1>16. NewRowsFounded
    <2>1. \A f \in DOMAIN fixes' \ DOMAIN fixes :
              /\ fixes'[f].retest \in DOMAIN retests
              /\ fixes'[f].status = "passed" => retests[fixes'[f].retest].result = "clean"
        BY <1>2, <1>7, <1>8
    <2>2. \A o \in DOMAIN outcomes' \ DOMAIN outcomes :
              /\ outcomes'[o].retest = k /\ outcomes'[o].implementation = i
              /\ outcomes'[o].test = retests[k].test
              /\ fixes'[outcomes'[o].fix].retest = k
              /\ outcomes'[o].chain = chain
              /\ outcomes'[o].eligible =>
                    /\ outcomes'[o].workflow_status = "current"
                    /\ fixes'[outcomes'[o].fix].status = "passed"
                    /\ fixes'[outcomes'[o].fix].workflow_status = "current"
        BY <1>2, <1>7, <1>8, <1>9
    <2>3. /\ implementations'[i].workflow_status = "current"
          /\ retests'[k].workflow_status = "current"
          /\ tests'[retests[k].test].workflow_status = "current"
          /\ actions'[chain.action].workflow_status = "current"
          /\ diagnoses'[chain.diagnosis].workflow_status = "current"
        BY <1>1, <1>4, <1>11, <1>14 DEF LeftCurrent
    <2>4. \A c \in DOMAIN cases' \ DOMAIN cases : cases'[c].eligible =>
              /\ cases'[c].outcome # 0 /\ cases'[c].workflow_status = "current"
              /\ outcomes'[cases'[c].outcome].eligible
        BY <1>1, <1>7, <1>9, <1>13
    <2>. QED
        BY <1>11, <1>14, <2>1, <2>2, <2>3, <2>4 DEF NewRowsFounded
<1>17. StillStanding
    BY <1>8, <1>9, <1>11, <1>12, <1>14, UnchangedLeft, NothingRetiredStands
    DEF NothingRetired
<1>. QED
    BY <1>15, <1>16, <1>17 DEF Founded

\* Every step is founded.
LEMMA FoundedStep ==
    ASSUME IInv, Lineage, [Next]_vars
    PROVE  Founded
<1>1. ASSUME MarkStale PROVE Founded
    BY <1>1, CascadeFounded DEF MarkStale
<1>2. CASE \/ \E x \in Alerts : LinkAlert(x)
           \/ \E x \in Records : LinkRecord(x)
           \/ \E f \in Files : DetectEvidence(f)
    BY <1>1, <1>2 DEF LinkAlert, LinkRecord, DetectEvidence
<1>3. CASE \E f \in Files : ParseEvidence(f)
    BY <1>3, UnchangedFounded, UnchangedSame DEF ParseEvidence
<1>4. CASE \E force \in BOOLEAN : Analyse(force)
    BY <1>4, CascadeFounded DEF Analyse
<1>5. CASE \E decision \in ReviewDecisions : SubmitReview(decision)
    BY <1>5, ReviewFounded
<1>6. CASE GenerateDiagnosis
    BY <1>6, DiagnosisFounded
<1>7. CASE \/ \E d \in DOMAIN diagnoses :
                 \/ AcceptDiagnosis(d)
                 \/ \E status \in {"rejected", "more_evidence_requested"} :
                       DeclineDiagnosis(d, status)
           \/ \E status \in StatusInputs :
                 \/ CreateAction(status)
                 \/ \E m \in DOMAIN actions : UpdateAction(m, status)
    BY <1>7, ActionFounded
<1>8. CASE \/ \E m \in DOMAIN actions, mode \in ModeInputs, change \in Changes :
                 RecordImplementation(m, mode, change)
           \/ \E i \in DOMAIN implementations : StartTest(i) \/ RollbackPatch(i)
    BY <1>8, ImplementationFounded
<1>9. CASE \E t \in DOMAIN tests, restored \in BOOLEAN :
               \/ \E passed \in BOOLEAN : FinishTest(t, passed, restored)
               \/ \E result \in {"clean", "exposed", "incomparable"} :
                     RecordRetest(t, result, restored)
    BY <1>9, TestFounded
<1>10. CASE \E k \in DOMAIN retests, restored \in BOOLEAN : VerifyFix(k, restored)
    BY <1>10, VerificationFounded
<1>11. CASE UNCHANGED vars
    BY <1>11, UnchangedFounded, UnchangedSame DEF vars
<1>. QED
    BY <1>2, <1>3, <1>4, <1>5, <1>6, <1>7, <1>8, <1>9, <1>10, <1>11 DEF Next

-----------------------------------------------------------------------------
(* The order of analyses and reviews *)

\* What a step does to the two tables at the head of the chain: nothing, the cascade, a
\* new analysis on top of it, or a new review.
HeadUnchanged == UNCHANGED <<analyses, reviews>>
HeadAnalysed ==
    /\ analyses' = Append(Superseded(CurrentAnalyses),
                          [events |-> events, findings |-> findings, current |-> TRUE])
    /\ InvalidateReviews(CurrentAnalyses)
HeadStale == analyses' = Superseded(CurrentAnalyses) /\ InvalidateReviews(CurrentAnalyses)
HeadReviewed ==
    /\ UNCHANGED analyses
    /\ \E a \in CurrentAnalyses, decision \in ReviewDecisions :
          reviews' = Append(reviews, [analysis |-> a, decision |-> decision,
                                      progression_valid |-> TRUE])

\* A step leaves analyses and reviews alone, or adds or retires one of them.
LEMMA HeadStep ==
    ASSUME [Next]_vars
    PROVE  HeadUnchanged \/ HeadAnalysed \/ HeadStale \/ HeadReviewed
<1>1. CASE \/ \E x \in Alerts : LinkAlert(x)
           \/ \E x \in Records : LinkRecord(x)
           \/ \E f \in Files : ParseEvidence(f) \/ DetectEvidence(f)
           \/ \E force \in BOOLEAN : Analyse(force)
           \/ \E decision \in ReviewDecisions : SubmitReview(decision)
    BY <1>1 DEF LinkAlert, LinkRecord, ParseEvidence, DetectEvidence, Analyse, SubmitReview,
                MarkStale, HeadUnchanged, HeadAnalysed, HeadStale, HeadReviewed
<1>2. CASE GenerateDiagnosis
    BY <1>2 DEF GenerateDiagnosis, HeadUnchanged
<1>3. CASE \/ \E d \in DOMAIN diagnoses :
                 \/ AcceptDiagnosis(d)
                 \/ \E status \in {"rejected", "more_evidence_requested"} :
                       DeclineDiagnosis(d, status)
           \/ \E status \in StatusInputs : CreateAction(status)
           \/ \E m \in DOMAIN actions :
                 \/ \E status \in StatusInputs : UpdateAction(m, status)
                 \/ \E mode \in ModeInputs, change \in Changes :
                       RecordImplementation(m, mode, change)
    BY <1>3 DEF AcceptDiagnosis, DeclineDiagnosis, CreateAction, UpdateAction,
                RecordImplementation, HeadUnchanged
<1>4. CASE \/ \E i \in DOMAIN implementations : StartTest(i) \/ RollbackPatch(i)
           \/ \E t \in DOMAIN tests, restored \in BOOLEAN :
                 \/ \E passed \in BOOLEAN : FinishTest(t, passed, restored)
                 \/ \E result \in {"clean", "exposed", "incomparable"} :
                       RecordRetest(t, result, restored)
           \/ \E k \in DOMAIN retests, restored \in BOOLEAN : VerifyFix(k, restored)
    BY <1>4, ZenonT(60) DEF StartTest, RollbackPatch, FinishTest, RecordRetest, VerifyFix, HeadUnchanged
<1>5. CASE UNCHANGED vars
    BY <1>5 DEF vars, HeadUnchanged
<1>. QED
    BY <1>1, <1>2, <1>3, <1>4, <1>5 DEF Next

\* A new analysis is the last row and the only current one; a new review is made on it.
LEMMA InOrderStep ==
    ASSUME IInv, InOrder, [Next]_vars
    PROVE  InOrder'
<1>. USE DEF IInv
<1>dom. /\ DOMAIN analyses = 1..Len(analyses) /\ Len(analyses) \in Nat
        /\ DOMAIN reviews = 1..Len(reviews) /\ Len(reviews) \in Nat
    BY LenProperties DEF TypeOK
<1>int. \A r \in DOMAIN reviews : reviews[r].analysis \in 1..Len(analyses)
    BY <1>dom DEF ExactChains
<1>same. ASSUME InvalidateReviews(CurrentAnalyses)
         PROVE  /\ DOMAIN reviews' = DOMAIN reviews
                /\ \A r \in DOMAIN reviews : reviews'[r].analysis = reviews[r].analysis
    BY <1>same, Rows DEF InvalidateReviews, Review
<1>inv. ASSUME InvalidateReviews(CurrentAnalyses)
        PROVE  \A q, r \in DOMAIN reviews' :
                   q <= r => reviews'[q].analysis <= reviews'[r].analysis
    BY <1>same, <1>inv DEF InOrder
<1>gone. \A a \in DOMAIN Superseded(CurrentAnalyses) :
             ~ Superseded(CurrentAnalyses)[a].current
    BY Rows DEF Superseded, CurrentAnalyses, Analysis
<1>1. CASE HeadUnchanged
    BY <1>1 DEF HeadUnchanged, InOrder, CurrentAnalyses, AnalysisCurrent
<1>2. CASE HeadStale
    <2>1. CurrentAnalyses' = {}
        BY <1>2, <1>gone DEF HeadStale, CurrentAnalyses
    <2>. QED
        BY <1>2, <1>inv, <2>1 DEF HeadStale, InOrder, AnalysisCurrent
<1>3. CASE HeadAnalysed
    <2>. DEFINE rest == Superseded(CurrentAnalyses)
                row == [events |-> events, findings |-> findings, current |-> TRUE]
    <2>1. row \in Analysis
        BY DEF TypeOK, Analysis
    <2>2. rest \in Seq(Analysis) /\ Len(rest) = Len(analyses)
        BY SupersededType
    <2>3. analyses' = Append(rest, row) /\ InvalidateReviews(CurrentAnalyses)
        BY <1>3 DEF HeadAnalysed
    <2>4. \A a \in DOMAIN rest : ~ rest[a].current
        BY <1>gone
    <2>. HIDE DEF rest, row
    <2>5. CurrentAnalyses' \subseteq {Len(rest) + 1}
        BY <2>1, <2>2, <2>3, <2>4, AppendKeeps DEF CurrentAnalyses
    <2>6. Len(analyses') = Len(rest) + 1
        BY <2>1, <2>2, <2>3, AppendProperties
    <2>. QED
        <3>1. \A r \in DOMAIN reviews' : reviews'[r].analysis # Len(rest) + 1
            BY <1>dom, <1>int, <1>same, <2>2, <2>3
        <3>. QED
            BY <1>inv, <2>3, <2>5, <2>6, <3>1 DEF InOrder, AnalysisCurrent
<1>4. CASE HeadReviewed
    <2>1. PICK a \in CurrentAnalyses, decision \in ReviewDecisions :
              reviews' = Append(reviews, [analysis |-> a, decision |-> decision,
                                          progression_valid |-> TRUE])
        BY <1>4 DEF HeadReviewed
    <2>. DEFINE row == [analysis |-> a, decision |-> decision, progression_valid |-> TRUE]
    <2>2. /\ row \in Review /\ row.analysis = Len(analyses) /\ row.progression_valid
          /\ reviews' = Append(reviews, row)
        BY <1>dom, <2>1, Inputs DEF Review, InOrder
    <2>. HIDE DEF row
    <2>3. /\ \A r \in DOMAIN reviews : reviews'[r] = reviews[r]
          /\ \A r \in DOMAIN reviews' \ DOMAIN reviews :
                r = Len(reviews) + 1 /\ reviews'[r] = row
        BY <2>2, AppendKeeps DEF TypeOK
    <2>4. ASSUME NEW q \in DOMAIN reviews', NEW r \in DOMAIN reviews', q <= r
          PROVE  reviews'[q].analysis <= reviews'[r].analysis
        <3>1. CASE r \in DOMAIN reviews
            <4>1. q \in DOMAIN reviews
                BY <1>dom, <2>3, <2>4, <3>1
            <4>. QED
                BY <2>3, <2>4, <3>1, <4>1 DEF InOrder
        <3>2. CASE r \notin DOMAIN reviews
            BY <1>dom, <1>int, <2>2, <2>3, <3>2
        <3>. QED
            BY <3>1, <3>2
    <2>5. UNCHANGED analyses
        BY <1>4 DEF HeadReviewed
    <2>6. \A r \in DOMAIN reviews' :
              AnalysisCurrent(reviews'[r].analysis) => reviews'[r].progression_valid
        BY <2>2, <2>3 DEF InOrder
    <2>. QED
        BY <2>4, <2>5, <2>6 DEF InOrder, CurrentAnalyses, AnalysisCurrent
<1>. QED
    BY <1>1, <1>2, <1>3, <1>4, HeadStep

-----------------------------------------------------------------------------
(* The invariant, and what follows from it alone *)

\* One step of LInv, with what it keeps of the rows on the way.
LEMMA LInvStep ==
    ASSUME LInv, [Next]_vars
    PROVE  LInv' /\ RowsKept /\ Founded
<1>. USE DEF LInv
<1>1. IInv' /\ RowsKept
    BY InvariantStep
<1>2. Founded
    BY FoundedStep
<1>3. Lineage' /\ Standing' /\ OneDiagnosis'
    BY <1>1, <1>2, LineageStep, StandingStep, OneDiagnosisStep DEF Founded
<1>4. InOrder'
    BY InOrderStep
<1>. QED
    BY <1>1, <1>2, <1>3, <1>4

\* The empty database satisfies it.
LEMMA LInvInit == Init => LInv
<1>1. Init => IInv
    BY InvariantInit
<1>2. Init => InOrder /\ Lineage /\ Standing /\ OneDiagnosis
    BY DEF Init, InOrder, Lineage, Standing, OneDiagnosis, CurrentAnalyses
<1>. QED
    BY <1>1, <1>2 DEF LInv

\* The order of the head tables, the lineage of every row and the standing of what is
\* eligible hold for every set of evidence and every bound on the tables.
THEOREM LineageInvariance == Spec => []LInv
<1>1. LInv /\ [Next]_vars => LInv'
    BY LInvStep
<1>. QED
    BY LInvInit, <1>1, PTL DEF Spec

\* Whatever ranks remediations (is_eligible_exemplar) is proven by one exact chain of
\* current rows, from the approved review to the passed verification.
THEOREM ExemplarsProven == Spec => []ExemplarIsProven
<1>1. LInv => ExemplarIsProven
    BY ProvenExemplars DEF LInv
<1>. QED
    BY LineageInvariance, <1>1, PTL

\* No implementation is ever recorded for a diagnosis a human has not accepted, and no
\* later decision takes the acceptance back.
THEOREM ChangesAccepted == Spec => []ImplementedOnlyIfAccepted
<1>1. LInv => ImplementedOnlyIfAccepted
    BY AcceptedChanges DEF LInv
<1>. QED
    BY LineageInvariance, <1>1, PTL

\* The two partial unique indexes never refuse a handler of the chain: at most one
\* analysis is current, and one diagnosis per analysis and review.
THEOREM BranchesSingle == Spec => []OneCurrentBranch
<1>1. LInv => OneCurrentBranch
    BY CurrentBranch DEF LInv
<1>. QED
    BY LineageInvariance, <1>1, PTL

-----------------------------------------------------------------------------
(* An incident reads fixed only with proof *)

\* Tables with the same ids have the same length.
LEMMA SameLength ==
    ASSUME NEW S, NEW old \in Seq(S), NEW new \in Seq(S), DOMAIN new = DOMAIN old
    PROVE  Len(new) = Len(old)
<1>1. /\ DOMAIN old = 1..Len(old) /\ Len(old) \in Nat
      /\ DOMAIN new = 1..Len(new) /\ Len(new) \in Nat
    BY LenProperties
<1>. QED
    BY <1>1

\* FixedIsProven speaks of the newest verification; it is there.
FixedInv == FixedIsProven /\ (incident = "fixed" => Len(fixes) \in DOMAIN fixes)

\* What every step but an analysis, a review and a verification leaves of it.
FixedRowsLeft ==
    /\ UNCHANGED incident
    /\ DOMAIN analyses' = DOMAIN analyses /\ DOMAIN reviews' = DOMAIN reviews
    /\ DOMAIN fixes' = DOMAIN fixes

\* The steps that may change the incident's status, or the length of a table it speaks of.
LEMMA FixedSteps ==
    ASSUME TypeOK, [Next]_vars
    PROVE  \/ FixedRowsLeft
           \/ \E force \in BOOLEAN : Analyse(force)
           \/ \E decision \in ReviewDecisions : SubmitReview(decision)
           \/ \E k \in DOMAIN retests, restored \in BOOLEAN : VerifyFix(k, restored)
<1>1. ASSUME MarkStale, UNCHANGED incident PROVE FixedRowsLeft
    BY <1>1 DEF MarkStale, Superseded, InvalidateReviews, InvalidateDownstream, Retire,
                FixedRowsLeft
<1>2. CASE \/ \E x \in Alerts : LinkAlert(x)
           \/ \E x \in Records : LinkRecord(x)
           \/ \E f \in Files : DetectEvidence(f)
    BY <1>1, <1>2 DEF LinkAlert, LinkRecord, DetectEvidence
<1>3. CASE \E f \in Files : ParseEvidence(f)
    BY <1>3 DEF ParseEvidence, FixedRowsLeft, chainRows
<1>4. CASE GenerateDiagnosis
    BY <1>4 DEF GenerateDiagnosis, SupersedeDiagnoses, Retire, FixedRowsLeft
<1>5. CASE \/ \E d \in DOMAIN diagnoses :
                 \/ AcceptDiagnosis(d)
                 \/ \E status \in {"rejected", "more_evidence_requested"} :
                       DeclineDiagnosis(d, status)
           \/ \E status \in StatusInputs : CreateAction(status)
           \/ \E m \in DOMAIN actions :
                 \/ \E status \in StatusInputs : UpdateAction(m, status)
                 \/ \E mode \in ModeInputs, change \in Changes :
                       RecordImplementation(m, mode, change)
    BY <1>5 DEF AcceptDiagnosis, DeclineDiagnosis, CreateAction, UpdateAction,
                RecordImplementation, FixedRowsLeft
<1>6. CASE \/ \E i \in DOMAIN implementations : StartTest(i) \/ RollbackPatch(i)
           \/ \E t \in DOMAIN tests, restored \in BOOLEAN :
                 \/ \E passed \in BOOLEAN : FinishTest(t, passed, restored)
                 \/ \E result \in {"clean", "exposed", "incomparable"} :
                       RecordRetest(t, result, restored)
    BY <1>6, ZenonT(60) DEF StartTest, RollbackPatch, FinishTest, RecordRetest, FixedRowsLeft
<1>7. CASE UNCHANGED vars
    BY <1>7 DEF vars, chainRows, FixedRowsLeft
<1>. QED
    BY <1>2, <1>3, <1>4, <1>5, <1>6, <1>7 DEF Next

\* The permission a verification passes is that of the newest review: reviews follow the
\* analyses, so none made later can be on an earlier one.
LEMMA PermittedIsNewest ==
    ASSUME IInv, InOrder, NEW a, NEW r, Permission(a, r)
    PROVE  a = Len(analyses) /\ r = Len(reviews)
<1>1. /\ DOMAIN analyses = 1..Len(analyses) /\ Len(analyses) \in Nat
      /\ DOMAIN reviews = 1..Len(reviews) /\ Len(reviews) \in Nat
    BY LenProperties DEF IInv, TypeOK
<1>2. a = Len(analyses)
    BY DEF Permission, InOrder
<1>3. r \in DOMAIN reviews /\ reviews[r].analysis = a
    BY DEF Permission
<1>4. Len(reviews) \in DOMAIN reviews /\ r <= Len(reviews)
    BY <1>1, <1>3
<1>5. reviews[Len(reviews)].analysis \in 1..Len(analyses)
    BY <1>1, <1>4 DEF IInv, ExactChains
<1>6. a <= reviews[Len(reviews)].analysis
    BY <1>3, <1>4 DEF InOrder
<1>7. reviews[Len(reviews)].analysis = a
    BY <1>1, <1>2, <1>5, <1>6
<1>8. Len(reviews) <= r
    BY <1>4, <1>7 DEF Permission
<1>. QED
    BY <1>1, <1>2, <1>3, <1>4, <1>8

\* One step of FixedInv: whatever makes the incident fixed leaves its proof newest.
LEMMA FixedStep ==
    ASSUME LInv, LInv', FixedInv, RowsKept, Founded, [Next]_vars
    PROVE  FixedInv'
<1>. USE DEF LInv, IInv
<1>1. CASE FixedRowsLeft
    <2>1. /\ Len(analyses') = Len(analyses) /\ Len(reviews') = Len(reviews)
          /\ Len(fixes') = Len(fixes)
        <3>1. /\ analyses \in Seq(Analysis) /\ analyses' \in Seq(Analysis)
              /\ reviews \in Seq(Review) /\ reviews' \in Seq(Review)
              /\ fixes \in Seq(FixVerification) /\ fixes' \in Seq(FixVerification)
            BY DEF TypeOK
        <3>2. /\ DOMAIN analyses' = DOMAIN analyses /\ DOMAIN reviews' = DOMAIN reviews
              /\ DOMAIN fixes' = DOMAIN fixes
            BY <1>1 DEF FixedRowsLeft
        <3>. HIDE DEF LInv, IInv
        <3>. QED
            BY <3>1, <3>2, SameLength
    <2>2. ASSUME incident' = "fixed"
          PROVE  LET f == fixes'[Len(fixes)]
                 IN  /\ f.status = "passed"
                     /\ f.chain.analysis = Len(analyses) /\ f.chain.review = Len(reviews)
                     /\ reviews'[f.chain.review].decision = "approved"
                     /\ retests'[f.retest].result = "clean"
        <3>. DEFINE n == Len(fixes)
                    f == fixes[n]
        <3>1. /\ n \in DOMAIN fixes /\ f.status = "passed"
              /\ f.chain.analysis = Len(analyses) /\ f.chain.review = Len(reviews)
              /\ reviews[f.chain.review].decision = "approved"
              /\ retests[f.retest].result = "clean"
            BY <1>1, <2>2 DEF FixedRowsLeft, FixedInv, FixedIsProven
        <3>2. /\ fixes'[n].status = f.status /\ fixes'[n].chain = f.chain
              /\ fixes'[n].retest = f.retest
            BY <3>1 DEF RowsKept, KeptChainRows, KeptFixes, Founded, FieldsKept, SameFixes
        <3>3. /\ f.retest \in DOMAIN retests
              /\ f.chain.action \in DOMAIN actions /\ f.chain = ChainOf(f.chain.action)
            <4>1. ExactChains /\ n \in DOMAIN fixes
                BY <3>1
            <4>. HIDE DEF LInv, IInv
            <4>2. /\ f.retest \in DOMAIN retests
                  /\ f.chain = retests[f.retest].chain
                BY <4>1 DEF ExactChains
            <4>. QED
                BY <4>1, <4>2 DEF ExactChains
        <3>4. f.chain.review \in DOMAIN reviews
            BY <3>3 DEF Lineage, ApprovedBy, ChainOf
        <3>5. /\ reviews'[f.chain.review].decision = reviews[f.chain.review].decision
              /\ retests'[f.retest].result = retests[f.retest].result
            BY <3>3, <3>4 DEF Founded, FieldsKept, SameReviews, SameRetests
        <3>. QED
            BY <3>1, <3>2, <3>5
    <2>3. incident' = "fixed" => Len(fixes') \in DOMAIN fixes'
        BY <1>1, <2>1 DEF FixedRowsLeft, FixedInv
    <2>. QED
        BY <2>1, <2>2, <2>3 DEF FixedInv, FixedIsProven
<1>2. CASE incident' # "fixed"
    BY <1>2 DEF FixedInv, FixedIsProven
<1>3. ASSUME NEW k \in DOMAIN retests, NEW restored \in BOOLEAN, VerifyFix(k, restored),
             incident' = "fixed"
      PROVE  FixedInv'
    <2>. DEFINE chain == retests[k].chain
                fix == [chain |-> chain, implementation |-> retests[k].implementation,
                        test |-> retests[k].test, retest |-> k,
                        status |-> VerificationStatus(k), workflow_status |-> "current"]
    <2>1. VerificationStatus(k) = "passed" /\ retests[k].result = "clean"
        BY <1>3 DEF VerifyFix, StatusAfterVerification, VerificationStatus
    <2>2. fix \in FixVerification
        <3>1. retests[k] \in Retest
            BY Rows
        <3>2. retests \in Seq(Retest)
            BY DEF TypeOK
        <3>. HIDE DEF LInv, IInv
        <3>3. k \in Nat
            BY <3>2, LenProperties
        <3>. QED
            BY <2>1, <3>1, <3>3 DEF FixVerification, Retest, WorkflowStatus
    <2>3. Permission(chain.analysis, chain.review)
        BY <1>3, VerifiedRows DEF VerifyFix
    <2>4. /\ chain.analysis = Len(analyses) /\ chain.review = Len(reviews)
          /\ reviews[chain.review].decision = "approved"
        BY <2>3, PermittedIsNewest DEF Permission
    <2>5. /\ fixes' = Append(fixes, fix) /\ fix.chain = chain /\ fix.retest = k
          /\ fix.status = "passed" /\ UNCHANGED <<analyses, reviews, retests>>
        BY <1>3, <2>1 DEF VerifyFix
    <2>. HIDE DEF fix
    <2>6. Len(fixes') = Len(fixes) + 1 /\ Len(fixes) + 1 \in DOMAIN fixes'
              /\ fixes'[Len(fixes) + 1] = fix
        BY <2>2, <2>5, AppendKeeps, AppendProperties DEF TypeOK
    <2>. QED
        BY <2>1, <2>4, <2>5, <2>6 DEF FixedInv, FixedIsProven
<1>4. \/ \E force \in BOOLEAN : Analyse(force)
      \/ \E decision \in ReviewDecisions : SubmitReview(decision)
      => incident' # "fixed"
    BY Inputs DEF Analyse, SubmitReview, StatusAfterReview, AllDecisions
<1>. QED
    BY <1>1, <1>2, <1>3, <1>4, FixedSteps

\* An incident reads "fixed" only while its newest verification passed on a clean retest,
\* for the newest analysis and that analysis's newest review, which approved it.
THEOREM FixedProven == Spec => []FixedIsProven
<1>1. Init => FixedInv
    BY DEF Init, FixedInv, FixedIsProven
<1>2. LInv /\ LInv' /\ FixedInv /\ [Next]_vars => FixedInv'
    BY LInvStep, FixedStep
<1>3. FixedInv => FixedIsProven
    BY DEF FixedInv
<1>. QED
    BY LineageInvariance, <1>1, <1>2, <1>3, PTL DEF Spec

-----------------------------------------------------------------------------
(* The snapshot of the current analysis *)

\* A step that changes the analyses or the findings makes every analysis stale, or adds
\* one made from the findings there are.
LEMMA SnapshotMoves ==
    ASSUME [Next]_vars
    PROVE  \/ HeadStale
           \/ UNCHANGED <<analyses, findings>>
           \/ HeadAnalysed /\ UNCHANGED findings /\ findings # {}
<1>1. CASE \/ \E x \in Alerts : LinkAlert(x)
           \/ \E x \in Records : LinkRecord(x)
           \/ \E f \in Files : ParseEvidence(f) \/ DetectEvidence(f)
           \/ \E force \in BOOLEAN : Analyse(force)
           \/ \E decision \in ReviewDecisions : SubmitReview(decision)
    BY <1>1 DEF LinkAlert, LinkRecord, ParseEvidence, DetectEvidence, Analyse,
                SubmitReview, MarkStale, HeadStale, HeadAnalysed
<1>2. CASE GenerateDiagnosis
    BY <1>2 DEF GenerateDiagnosis
<1>3. CASE \/ \E d \in DOMAIN diagnoses :
                 \/ AcceptDiagnosis(d)
                 \/ \E status \in {"rejected", "more_evidence_requested"} :
                       DeclineDiagnosis(d, status)
           \/ \E status \in StatusInputs : CreateAction(status)
           \/ \E m \in DOMAIN actions :
                 \/ \E status \in StatusInputs : UpdateAction(m, status)
                 \/ \E mode \in ModeInputs, change \in Changes :
                       RecordImplementation(m, mode, change)
    BY <1>3 DEF AcceptDiagnosis, DeclineDiagnosis, CreateAction, UpdateAction,
                RecordImplementation
<1>4. CASE \/ \E i \in DOMAIN implementations : StartTest(i) \/ RollbackPatch(i)
           \/ \E t \in DOMAIN tests, restored \in BOOLEAN :
                 \/ \E passed \in BOOLEAN : FinishTest(t, passed, restored)
                 \/ \E result \in {"clean", "exposed", "incomparable"} :
                       RecordRetest(t, result, restored)
           \/ \E k \in DOMAIN retests, restored \in BOOLEAN : VerifyFix(k, restored)
    BY <1>4, ZenonT(60) DEF StartTest, RollbackPatch, FinishTest, RecordRetest, VerifyFix
<1>5. CASE UNCHANGED vars
    BY <1>5 DEF vars
<1>. QED
    BY <1>1, <1>2, <1>3, <1>4, <1>5 DEF Next

\* Only an analysis makes a row current, and it has just read the findings; every handler
\* that adds a finding leaves no analysis current.
LEMMA SnapshotStep ==
    ASSUME TypeOK, SnapshotCoversFindings, [Next]_vars
    PROVE  SnapshotCoversFindings'
<1>gone. \A a \in DOMAIN Superseded(CurrentAnalyses) :
             ~ Superseded(CurrentAnalyses)[a].current
    BY Rows DEF Superseded, CurrentAnalyses, Analysis
<1>1. CASE HeadStale
    BY <1>1, <1>gone DEF HeadStale, SnapshotCoversFindings, CurrentAnalyses
<1>2. CASE UNCHANGED <<analyses, findings>>
    BY <1>2 DEF SnapshotCoversFindings, CurrentAnalyses
<1>3. CASE HeadAnalysed /\ UNCHANGED findings
    <2>. DEFINE rest == Superseded(CurrentAnalyses)
                row == [events |-> events, findings |-> findings, current |-> TRUE]
    <2>1. row \in Analysis
        BY DEF TypeOK, Analysis
    <2>2. rest \in Seq(Analysis)
        BY SupersededType
    <2>3. analyses' = Append(rest, row) /\ row.findings = findings /\ findings' = findings
        BY <1>3 DEF HeadAnalysed
    <2>4. \A a \in DOMAIN rest : ~ rest[a].current
        BY <1>gone
    <2>. HIDE DEF rest, row
    <2>5. \A a \in CurrentAnalyses' : analyses'[a] = row
        BY <2>1, <2>2, <2>3, <2>4, AppendKeeps DEF CurrentAnalyses
    <2>. QED
        BY <2>3, <2>5 DEF SnapshotCoversFindings
<1>4. HeadStale \/ UNCHANGED <<analyses, findings>> \/ (HeadAnalysed /\ UNCHANGED findings)
    BY SnapshotMoves
<1>. QED
    BY <1>1, <1>2, <1>3, <1>4

\* The analysis reported as current was computed from every finding the incident has.
THEOREM SnapshotCovers == Spec => []SnapshotCoversFindings
<1>1. Init => SnapshotCoversFindings
    BY DEF Init, SnapshotCoversFindings, CurrentAnalyses
<1>2. TypeOK /\ SnapshotCoversFindings /\ [Next]_vars => SnapshotCoversFindings'
    BY SnapshotStep
<1>. QED
    BY TypeCorrect, <1>1, <1>2, PTL DEF Spec

-----------------------------------------------------------------------------
(* Refusals are final *)

\* What the gate admits of old rows after a step it admitted before: a review or an
\* analysis retired once is never in force again, and new reviews only take over.
LEMMA PermissionHeld ==
    ASSUME RowsKept, FieldsKept, NEW a \in DOMAIN analyses, NEW r \in DOMAIN reviews,
           Permission(a, r)'
    PROVE  Permission(a, r)
<1>1. a \in CurrentAnalyses
    BY DEF Permission, CurrentAnalyses, RowsKept, KeptAnalyses
<1>2. \A q \in DOMAIN reviews : /\ q \in DOMAIN reviews'
                                /\ reviews'[q].analysis = reviews[q].analysis
                                /\ reviews'[q].decision = reviews[q].decision
                                /\ reviews'[q].progression_valid =>
                                      reviews[q].progression_valid
    BY DEF RowsKept, KeptReviews, FieldsKept, SameReviews
<1>. QED
    BY <1>1, <1>2 DEF Permission

\* A diagnosis or action the gate refuses, it refuses for good: approving again after a
\* rejection, or analysing again after staleness, never re-admits old work.
THEOREM RefusalsFinal == Spec => RefusedForGood
<1>. DEFINE Step ==
        /\ \A d \in DOMAIN diagnoses : PermitsDiagnosis(d)' => PermitsDiagnosis(d)
        /\ \A m \in DOMAIN actions : PermitsAction(m)' => PermitsAction(m)
<1>1. ASSUME LInv, RowsKept, FieldsKept PROVE Step
    <2>. USE <1>1
    <2>1. \A a, r : ApprovedBy(a, r) => a \in DOMAIN analyses /\ r \in DOMAIN reviews
        BY DEF ApprovedBy, LInv, IInv, ExactChains
    <2>2. \A d \in DOMAIN diagnoses :
              /\ diagnoses'[d].analysis = diagnoses[d].analysis
              /\ diagnoses'[d].review = diagnoses[d].review
              /\ diagnoses'[d].workflow_status = "current" =>
                    diagnoses[d].workflow_status = "current"
        BY DEF RowsKept, KeptChainRows, KeptDiagnoses, KeptStatus, FieldsKept, SameDiagnoses
    <2>3. \A m \in DOMAIN actions :
              /\ actions'[m].analysis = actions[m].analysis
              /\ actions'[m].review = actions[m].review
              /\ actions'[m].diagnosis = actions[m].diagnosis
              /\ actions'[m].workflow_status = "current" =>
                    actions[m].workflow_status = "current"
        BY DEF RowsKept, KeptChainRows, KeptActions, KeptStatus
    <2>4. ASSUME NEW d \in DOMAIN diagnoses, PermitsDiagnosis(d)'
          PROVE  PermitsDiagnosis(d)
        <3>1. PICK a \in DOMAIN analyses, r \in DOMAIN reviews :
                  a = diagnoses[d].analysis /\ r = diagnoses[d].review
            BY <2>1 DEF LInv, Lineage
        <3>2. Permission(a, r)' /\ diagnoses'[d].workflow_status = "current"
            BY <2>2, <2>4, <3>1 DEF PermitsDiagnosis, DiagnosisOn
        <3>3. Permission(a, r)
            BY <3>2, PermissionHeld
        <3>. QED
            BY <2>2, <3>1, <3>2, <3>3 DEF PermitsDiagnosis, DiagnosisOn
    <2>5. ASSUME NEW m \in DOMAIN actions, PermitsAction(m)'
          PROVE  PermitsAction(m)
        <3>1. PICK a \in DOMAIN analyses, r \in DOMAIN reviews :
                  a = actions[m].analysis /\ r = actions[m].review
            BY <2>1 DEF LInv, Lineage
        <3>2. PICK d : d = actions[m].diagnosis
            OBVIOUS
        <3>3. /\ Permission(a, r)' /\ actions'[m].workflow_status = "current"
              /\ d # 0 => diagnoses'[d].workflow_status = "current"
            BY <2>3, <2>5, <3>1, <3>2 DEF PermitsAction, ActionOn, DiagnosisOn
        <3>4. Permission(a, r)
            BY <3>3, PermissionHeld
        <3>5. d # 0 => DiagnosisOn(d, a, r)
            <4>1. ASSUME d # 0
                  PROVE  /\ d \in DOMAIN diagnoses
                         /\ diagnoses[d].analysis = a /\ diagnoses[d].review = r
                BY <3>1, <3>2, <4>1 DEF LInv, Lineage
            <4>. QED
                BY <2>2, <3>3, <4>1 DEF DiagnosisOn
        <3>. QED
            BY <2>3, <3>1, <3>2, <3>3, <3>4, <3>5 DEF PermitsAction, ActionOn
    <2>. QED
        BY <2>4, <2>5
<1>2. LInv /\ [Next]_vars => [Step]_vars
    BY <1>1, LInvStep DEF Founded
<1>3. Spec => [][Step]_vars
    BY LineageInvariance, <1>2, PTL DEF Spec
<1>. QED
    BY <1>3 DEF RefusedForGood

-----------------------------------------------------------------------------
(* Nothing is created without permission *)

\* What the gate admits is in force.
LEMMA PermissionGoverns ==
    ASSUME NEW a, NEW r, Permission(a, r)
    PROVE  Governs(a, r)
BY DEF Permission, Governs, AnalysisCurrent

\* What descends from an admitted action does so under the review in force.
LEMMA ActionGoverns ==
    ASSUME NEW m, PermitsAction(m)
    PROVE  GovernsChain(ChainOf(m))
<1>1. Governs(actions[m].analysis, actions[m].review)
    BY PermissionGoverns DEF PermitsAction
<1>. QED
    BY <1>1 DEF PermitsAction, GovernsChain, ChainOf

\* No table the permission governs gets a row.
NothingCreated ==
    /\ DOMAIN diagnoses' = DOMAIN diagnoses /\ DOMAIN actions' = DOMAIN actions
    /\ DOMAIN implementations' = DOMAIN implementations
    /\ DOMAIN tests' = DOMAIN tests /\ DOMAIN retests' = DOMAIN retests
    /\ DOMAIN fixes' = DOMAIN fixes /\ DOMAIN outcomes' = DOMAIN outcomes

\* Every handler that creates a row passed the gate for the review the row names,
\* whichever table it read the permission from; a verdict that comes late only fills in
\* a running test.
LEMMA CreationStep ==
    ASSUME IInv, Lineage, [Next]_vars
    PROVE  NewRowsPermitted
<1>. USE DEF Added
<1>none. ASSUME NothingCreated PROVE NewRowsPermitted
    BY <1>none DEF NothingCreated, NewRowsPermitted
<1>1. CASE \/ \E x \in Alerts : LinkAlert(x)
           \/ \E x \in Records : LinkRecord(x)
           \/ \E f \in Files : DetectEvidence(f)
           \/ \E force \in BOOLEAN : Analyse(force)
    <2>1. InvalidateDownstream(CurrentAnalyses)
        BY <1>1 DEF LinkAlert, LinkRecord, DetectEvidence, Analyse, MarkStale
    <2>2. NothingCreated
        BY <2>1 DEF InvalidateDownstream, Retire, RetireLearning, NothingCreated
    <2>. QED
        BY <1>none, <2>2
<1>2. CASE \/ \E f \in Files : ParseEvidence(f)
           \/ \E decision \in ReviewDecisions : SubmitReview(decision)
           \/ UNCHANGED vars
    BY <1>2, <1>none DEF ParseEvidence, SubmitReview, vars, chainRows, NothingCreated
<1>3. CASE GenerateDiagnosis
    <2>1. PICK a \in CurrentAnalyses, r \in DOMAIN reviews, old \in SUBSET DOMAIN diagnoses :
              /\ Permission(a, r) /\ SupersedeDiagnoses(old)
              /\ diagnoses' = Append(Retire(diagnoses, old, "superseded"),
                    [analysis |-> a, review |-> r, workflow_status |-> "current",
                     status |-> "awaiting_human_review"])
        BY <1>3 DEF GenerateDiagnosis
    <2>. DEFINE row == [analysis |-> a, review |-> r, workflow_status |-> "current",
                        status |-> "awaiting_human_review"]
                rest == Retire(diagnoses, old, "superseded")
    <2>2. row \in Diagnosis
        BY <2>1, PermissionIds DEF Diagnosis, WorkflowStatus, IInv
    <2>3. rest \in Seq(Diagnosis) /\ DOMAIN rest = DOMAIN diagnoses
        BY RowTypesRetire, RetireType DEF IInv, TypeOK, WorkflowStatus, Retire
    <2>4. diagnoses' = Append(rest, row) /\ row.analysis = a /\ row.review = r
        BY <2>1
    <2>. HIDE DEF row, rest
    <2>5. \A d \in DOMAIN diagnoses' \ DOMAIN diagnoses : diagnoses'[d] = row
        BY <2>2, <2>3, <2>4, AppendKeeps
    <2>6. /\ DOMAIN actions' = DOMAIN actions
          /\ DOMAIN implementations' = DOMAIN implementations
          /\ DOMAIN tests' = DOMAIN tests /\ DOMAIN retests' = DOMAIN retests
          /\ DOMAIN fixes' = DOMAIN fixes /\ DOMAIN outcomes' = DOMAIN outcomes
        BY <2>1 DEF SupersedeDiagnoses, Retire, RetireLearning
    <2>7. Governs(a, r)
        BY <2>1, PermissionGoverns
    <2>. QED
        BY <2>4, <2>5, <2>6, <2>7 DEF NewRowsPermitted
<1>act. ASSUME NEW row \in Action, actions' = Append(actions, row),
               Governs(row.analysis, row.review), DOMAIN diagnoses' = DOMAIN diagnoses,
               UNCHANGED <<implementations, tests, retests, fixes, outcomes>>
        PROVE  NewRowsPermitted
    <2>1. \A m \in DOMAIN actions' \ DOMAIN actions : actions'[m] = row
        BY <1>act, AppendKeeps DEF IInv, TypeOK
    <2>. QED
        BY <1>act, <2>1 DEF NewRowsPermitted
<1>4. ASSUME NEW status \in StatusInputs, CreateAction(status)
      PROVE  NewRowsPermitted
    <2>1. PICK a \in CurrentAnalyses, r \in DOMAIN reviews :
              /\ Permission(a, r)
              /\ actions' = Append(actions,
                    [diagnosis |-> 0, analysis |-> a, review |-> r,
                     status |-> status, workflow_status |-> "current"])
        BY <1>4 DEF CreateAction
    <2>2. [diagnosis |-> 0, analysis |-> a, review |-> r, status |-> status,
           workflow_status |-> "current"] \in Action
        BY <2>1, Inputs, PermissionIds DEF Action, WorkflowStatus, IInv
    <2>3. Governs(a, r)
        BY <2>1, PermissionGoverns
    <2>. QED
        BY <1>4, <1>act, <2>1, <2>2, <2>3 DEF CreateAction
<1>5. ASSUME NEW d \in DOMAIN diagnoses, AcceptDiagnosis(d)
      PROVE  NewRowsPermitted
    <2>. DEFINE row == [diagnosis |-> d, analysis |-> diagnoses[d].analysis,
                        review |-> diagnoses[d].review,
                        status |-> "not_started", workflow_status |-> "current"]
    <2>1. row \in Action
        <3>1. d \in Nat
            BY LenProperties DEF IInv, TypeOK
        <3>2. diagnoses[d] \in Diagnosis
            BY Rows DEF IInv
        <3>. QED
            BY <3>1, <3>2 DEF Diagnosis, Action, RemediationStatus, WorkflowStatus
    <2>2. Governs(row.analysis, row.review)
        BY <1>5, PermissionGoverns DEF AcceptDiagnosis, PermitsDiagnosis
    <2>3. DOMAIN diagnoses' = DOMAIN diagnoses
        BY <1>5 DEF AcceptDiagnosis
    <2>. QED
        BY <1>5, <1>act, <2>1, <2>2, <2>3 DEF AcceptDiagnosis
<1>6. CASE \/ \E d \in DOMAIN diagnoses, status \in {"rejected", "more_evidence_requested"} :
                 DeclineDiagnosis(d, status)
           \/ \E m \in DOMAIN actions, status \in StatusInputs : UpdateAction(m, status)
    BY <1>6, <1>none DEF DeclineDiagnosis, UpdateAction, NothingCreated
<1>7. ASSUME NEW m \in DOMAIN actions, NEW mode \in ModeInputs, NEW change \in Changes,
             RecordImplementation(m, mode, change)
      PROVE  NewRowsPermitted
    <2>. DEFINE row == [chain |-> ChainOf(m), mode |-> mode, change |-> change,
                        status |-> "completed", workflow_status |-> "current"]
    <2>1. row \in Implementation
        BY Inputs, ChainOfType DEF Implementation, WorkflowStatus, IInv
    <2>2. /\ implementations' = Append(implementations, row) /\ row.chain = ChainOf(m)
          /\ GovernsChain(ChainOf(m))
        BY <1>7, ActionGoverns DEF RecordImplementation
    <2>. HIDE DEF row
    <2>3. \A i \in DOMAIN implementations' \ DOMAIN implementations :
              implementations'[i] = row
        BY <2>1, <2>2, AppendKeeps DEF IInv, TypeOK
    <2>4. DOMAIN actions' = DOMAIN actions
        BY <1>7 DEF RecordImplementation
    <2>. QED
        BY <1>7, <2>2, <2>3, <2>4 DEF RecordImplementation, NewRowsPermitted
<1>8. ASSUME NEW i \in DOMAIN implementations, StartTest(i)
      PROVE  NewRowsPermitted
    <2>. DEFINE m == implementations[i].chain.action
                row == [action |-> m, implementation |-> i, status |-> "running",
                        completed_at |-> 0, workflow_status |-> "current"]
    <2>1. row \in Test
        <3>1. i \in Nat
            BY LenProperties DEF IInv, TypeOK
        <3>2. implementations[i] \in Implementation
            BY Rows DEF IInv
        <3>. QED
            BY <3>1, <3>2 DEF Test, Implementation, Chain, WorkflowStatus
    <2>2. /\ tests' = Append(tests, row) /\ row.action = m /\ GovernsChain(ChainOf(m))
        BY <1>8, ActionGoverns DEF StartTest, InForce
    <2>. HIDE DEF row
    <2>3. \A t \in DOMAIN tests' \ DOMAIN tests : tests'[t] = row
        BY <2>1, <2>2, AppendKeeps DEF IInv, TypeOK
    <2>4. UNCHANGED <<diagnoses, actions, implementations, retests, fixes, outcomes>>
        BY <1>8 DEF StartTest
    <2>. QED
        BY <2>2, <2>3, <2>4 DEF NewRowsPermitted
<1>9. CASE \/ \E i \in DOMAIN implementations : RollbackPatch(i)
           \/ \E t \in DOMAIN tests, restored \in BOOLEAN, passed \in BOOLEAN :
                 FinishTest(t, passed, restored)
    BY <1>9, <1>none DEF RollbackPatch, FinishTest, RolledBack, NothingCreated
<1>10. ASSUME NEW t \in DOMAIN tests, NEW restored \in BOOLEAN,
              NEW result \in {"clean", "exposed", "incomparable"},
              RecordRetest(t, result, restored)
       PROVE  NewRowsPermitted
    <2>. DEFINE i == tests[t].implementation
                m == implementations[i].chain.action
                row == [chain |-> ChainOf(m), implementation |-> i, test |-> t,
                        result |-> result, workflow_status |-> "current"]
    <2>1. /\ i \in Nat /\ t \in Nat /\ m \in DOMAIN actions
        BY LenProperties DEF IInv, TypeOK, ExactChains
    <2>2. row \in Retest
        BY <2>1, ChainOfType DEF Retest, WorkflowStatus, IInv
    <2>3. /\ retests' = Append(retests, row) /\ row.chain = ChainOf(m)
          /\ GovernsChain(ChainOf(m))
        BY <1>10, ActionGoverns DEF RecordRetest, InForce
    <2>. HIDE DEF row
    <2>4. \A k \in DOMAIN retests' \ DOMAIN retests : retests'[k] = row
        BY <2>2, <2>3, AppendKeeps DEF IInv, TypeOK
    <2>5. /\ DOMAIN implementations' = DOMAIN implementations
          /\ UNCHANGED <<diagnoses, actions, tests, fixes, outcomes>>
        BY <1>10 DEF RecordRetest, RolledBack
    <2>. QED
        BY <2>3, <2>4, <2>5 DEF NewRowsPermitted
<1>11. ASSUME NEW k \in DOMAIN retests, NEW restored \in BOOLEAN, VerifyFix(k, restored)
       PROVE  NewRowsPermitted
    <2>. DEFINE chain == retests[k].chain
    <2>1. /\ \A f \in DOMAIN fixes' \ DOMAIN fixes : fixes'[f].chain = chain
          /\ \A o \in DOMAIN outcomes' \ DOMAIN outcomes : outcomes'[o].chain = chain
        BY <1>11, VerifiedChains
    <2>2. GovernsChain(chain)
        BY <1>11, VerifiedRows, PermissionGoverns DEF VerifyFix, GovernsChain
    <2>3. /\ DOMAIN implementations' = DOMAIN implementations
          /\ UNCHANGED <<diagnoses, actions, tests, retests>>
        BY <1>11 DEF VerifyFix, RolledBack
    <2>. QED
        BY <2>1, <2>2, <2>3 DEF NewRowsPermitted
<1>. QED
    BY <1>1, <1>2, <1>3, <1>4, <1>5, <1>6, <1>7, <1>8, <1>9, <1>10, <1>11 DEF Next

\* Every new row hangs from the review in force when it is created, and what descends
\* from an action does so while that action and its diagnosis are current under exactly
\* that review.
THEOREM CreatedUnderPermission == Spec => OnlyUnderPermission
<1>1. LInv /\ [Next]_vars => [NewRowsPermitted]_vars
    BY CreationStep DEF LInv
<1>2. Spec => [][NewRowsPermitted]_vars
    BY LineageInvariance, <1>1, PTL DEF Spec
<1>. QED
    BY <1>2 DEF OnlyUnderPermission
=============================================================================
