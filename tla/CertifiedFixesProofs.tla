------------------------ MODULE CertifiedFixesProofs ------------------------
(***************************************************************************)
(* What the abstract specification promises follows from it: certificates  *)
(* rest on the basis in force, and a withdrawn one is never reissued.      *)
(***************************************************************************)
EXTENDS CertifiedFixes, TLAPS

\* An approval is a decision on the basis in force, so a certificate issued under it
\* names that basis; every certificate's verification is over.
CertInv == CertTypeOK /\ CertifiedOnBasis /\ (approval # 0 => basis # 0)

\* The initial state has no certificate.
LEMMA CertInit == Init => CertInv
BY DEF Init, CertInv, CertTypeOK, CertifiedOnBasis

\* One step issues certificates on the basis in force only, or withdraws them all.
LEMMA CertStep ==
    ASSUME CertInv, [Next]_certVars
    PROVE  CertInv'
<1>. USE DEF CertInv, CertTypeOK, CertifiedOnBasis, Certificate
<1>1. CASE Withdraw
    BY <1>1 DEF Withdraw
<1>2. CASE Rebase
    BY <1>2 DEF Rebase
<1>3. ASSUME NEW approved \in BOOLEAN, Decide(approved) PROVE CertInv'
    BY <1>3 DEF Decide
<1>4. CASE Retry
    BY <1>4 DEF Retry
<1>5. ASSUME NEW passed \in BOOLEAN, Verify(passed) PROVE CertInv'
    BY <1>5 DEF Verify
<1>6. CASE UNCHANGED certVars
    BY <1>6 DEF certVars
<1>. QED
    BY <1>1, <1>2, <1>3, <1>4, <1>5, <1>6 DEF Next

\* Every certificate in force was issued on the basis in force: what a ranking that
\* trusts certificates relies on.
THEOREM CertificatesOnBasis == Spec => []CertifiedOnBasis
<1>1. CertInv /\ [Next]_certVars => CertInv'
    BY CertStep
<1>2. CertInv => CertifiedOnBasis
    BY DEF CertInv
<1>. QED
    BY CertInit, <1>1, <1>2, PTL DEF Spec

\* A withdrawn certificate never comes back: certificates enter with the number of a
\* verification that was not over before.
THEOREM CertificatesNotReissued == Spec => NeverReissued
<1>. DEFINE Step == \A c \in certificates' : c \notin certificates => c.id > verifications
<1>1. CertInv /\ [Next]_certVars => CertInv'
    BY CertStep
<1>2. CertInv /\ [Next]_certVars => [Step]_certVars
    BY DEF CertInv, CertTypeOK, Next, Withdraw, Rebase, Decide, Retry, Verify, Certificate
<1>3. Spec => [][Step]_certVars
    BY CertInit, <1>1, <1>2, PTL DEF Spec
<1>. QED
    BY <1>3 DEF NeverReissued
=============================================================================
