--------------------------- MODULE CertifiedChain ---------------------------
(***************************************************************************)
(* The governed chain implements CertifiedFixes: the current analysis is   *)
(* the basis, the review the gate accepts is the approval, and the learning *)
(* cases eligible to rank remediations are the certificates.               *)
(***************************************************************************)
EXTENDS GovernedChain

InForceCertificates ==
    {[id |-> cases[c].outcome,
      basis |-> outcomes[cases[c].outcome].chain.analysis,
      approval |-> outcomes[cases[c].outcome].chain.review] :
        c \in {n \in DOMAIN cases : cases[n].eligible}}

Abstract == INSTANCE CertifiedFixes WITH
    bases <- Len(analyses),
    basis <- Newest(CurrentAnalyses),
    decisions <- Len(reviews),
    approval <- Newest({r \in DOMAIN reviews : Permission(Newest(CurrentAnalyses), r)}),
    verifications <- Len(outcomes),
    certificates <- InForceCertificates

\* Whatever the handlers do, the cases that rank remediations come and go as the
\* certificates of CertifiedFixes do: issued under the approval in force only,
\* withdrawn together when the analysis falls, never reinstated.
ImplementsCertifiedFixes == Abstract!Spec

\* Every ranking case was verified on the analysis in force.
CasesOnCurrentBasis == Abstract!CertifiedOnBasis
=============================================================================
