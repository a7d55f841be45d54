--------------------------- MODULE MCGovernedChain ---------------------------
(***************************************************************************)
(* Two instances of the governed chain over the same tables: the one the   *)
(* configuration gives, with one attempt to remediate and everything above *)
(* it twice, and one with second attempts all the way down to the case.    *)
(***************************************************************************)
EXTENDS CertifiedChain, TLC

CONSTANTS alert1, file1, change1

VARIABLE part

Rework == INSTANCE GovernedChain WITH
    Alerts <- {alert1}, Records <- {}, Files <- {}, Changes <- {change1},
    ReviewDecisions <- {"approved", "rejected"}, StatusInputs <- {"not_started"},
    ModeInputs <- {"controlled_patch"}, MaxAnalyses <- 2, MaxReviews <- 2, MaxDiagnoses <- 2,
    MaxActions <- 2, MaxImplementations <- 2, MaxTests <- 2, MaxRetests <- 2

ChainsInit == Init /\ part \in {"chain", "rework"}

ChainsNext == /\ part' = part
              /\ \/ part = "chain" /\ Next
                 \/ part = "rework" /\ Rework!Next

ChainsSpec == ChainsInit /\ [][ChainsNext]_<<part, vars>>
=============================================================================
