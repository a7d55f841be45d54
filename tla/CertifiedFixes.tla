--------------------------- MODULE CertifiedFixes ---------------------------
(***************************************************************************)
(* What the governed chain promises to whoever ranks remediations by past  *)
(* outcomes: a certificate that a fix worked is issued only on the basis   *)
(* (root-cause analysis) in force and under the approval (human review) in *)
(* force, and every certificate falls when the basis does.  A withdrawn    *)
(* certificate never comes back.                                           *)
(***************************************************************************)
EXTENDS Naturals

VARIABLES
    bases,          \* analyses made so far; the newest has this number
    basis,          \* the analysis in force, 0 when it is stale or missing
    decisions,      \* reviews submitted so far
    approval,       \* the approving review in force, 0 when there is none
    verifications,  \* verifications concluded so far
    certificates    \* the certificates in force

certVars == <<bases, basis, decisions, approval, verifications, certificates>>

Certificate == [id : Nat, basis : Nat, approval : Nat]

\* Counters are natural numbers and certificates name ids below them.
CertTypeOK ==
    /\ bases \in Nat /\ basis \in Nat /\ decisions \in Nat /\ approval \in Nat
    /\ verifications \in Nat
    /\ certificates \subseteq Certificate

Init ==
    /\ bases = 0 /\ basis = 0
    /\ decisions = 0 /\ approval = 0
    /\ verifications = 0 /\ certificates = {}

\* New evidence: nothing is certified until the next analysis.
Withdraw ==
    /\ basis' = 0 /\ approval' = 0
    /\ certificates' = {}
    /\ UNCHANGED <<bases, decisions, verifications>>

\* A new analysis is a new basis, not yet approved.
Rebase ==
    /\ bases' = bases + 1
    /\ basis' = bases'
    /\ approval' = 0
    /\ certificates' = {}
    /\ UNCHANGED <<decisions, verifications>>

\* A review of the basis in force approves it or takes its approval away.
Decide(approved) ==
    /\ basis # 0
    /\ decisions' = decisions + 1
    /\ approval' = IF approved THEN decisions' ELSE 0
    /\ UNCHANGED <<bases, basis, verifications, certificates>>

\* A new attempt under the same approval withdraws what the previous one certified.
Retry ==
    /\ certificates' = {c \in certificates : c.approval # approval}
    /\ UNCHANGED <<bases, basis, decisions, approval, verifications>>

\* A verification under the approval in force; passing it is what certifies.
Verify(passed) ==
    /\ approval # 0
    /\ verifications' = verifications + 1
    /\ certificates' = certificates \cup
          (IF passed
           THEN {[id |-> verifications + 1, basis |-> basis, approval |-> approval]}
           ELSE {})
    /\ UNCHANGED <<bases, basis, decisions, approval>>

Next ==
    \/ Withdraw
    \/ Rebase
    \/ \E approved \in BOOLEAN : Decide(approved)
    \/ Retry
    \/ \E passed \in BOOLEAN : Verify(passed)

Spec == Init /\ [][Next]_certVars

-----------------------------------------------------------------------------
\* Every certificate in force was issued on the basis in force, by a
\* verification that took place under an approval.
CertifiedOnBasis ==
    \A c \in certificates :
        c.basis = basis /\ basis # 0 /\ c.approval # 0 /\ c.id <= verifications

\* A certificate that is not in force and whose verification is over stays out.
NeverReissued ==
    [][\A c \in certificates' : c \notin certificates => c.id > verifications]_certVars
=============================================================================
