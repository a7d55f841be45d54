-------------------------- MODULE MCEvidenceReports --------------------------
(***************************************************************************)
(* What is made of an incident's evidence, side by side: two instances of  *)
(* the governed chain and its read models, one with many pieces of         *)
(* evidence and one attempt to remediate, one with one piece of evidence   *)
(* and overlapping tests and retests; the exposure profiles of the         *)
(* classified values; and the evidence files themselves.                   *)
(***************************************************************************)
EXTENDS WorkflowScreen, EvidenceOfIncident, TLC

CONSTANTS alert1, alert2, alert3, record1, file1, change1, w1, w2

VARIABLE part

Sources == INSTANCE GovernedChain WITH
    Alerts <- {alert1, alert2}, Records <- {record1}, Files <- {file1}, Changes <- {change1},
    ReviewDecisions <- {"approved", "rejected"}, StatusInputs <- {"not_started"},
    ModeInputs <- {"manual"}, MaxAnalyses <- 2, MaxReviews <- 2, MaxDiagnoses <- 1,
    MaxActions <- 1, MaxImplementations <- 1, MaxTests <- 1, MaxRetests <- 1

\* Two values that a rule combines, one of them noted alone by the first version of
\* the rules.
Combination == [all |-> {"a", "b"}, any |-> {}, excluded |-> {}, least |-> 2]
OnItsOwn    == [all |-> {}, any |-> {"a"}, excluded |-> {"b"}, least |-> 1]

Versions == <<[both |-> Combination, alone |-> OnItsOwn], [both |-> Combination]>>

\* Two samples and an upload: one content that is classified, one that no parser reads,
\* one that is neither.
SampleContents == [i \in {"sample1", "sample2"} |-> IF i = "sample1" THEN "classified" ELSE "garbled"]

SampleFiles == <<"sample1", "sample2">>

MCInit == /\ part \in {"evidence", "reports", "exposure", "files"}
          /\ Init /\ Exposures!Init /\ Store!Init

MCNext == /\ part' = part
          /\ \/ part = "evidence" /\ Sources!Next /\ UNCHANGED <<exposureVars, filesVars>>
             \/ part = "reports" /\ Next /\ UNCHANGED <<exposureVars, filesVars>>
             \/ part = "exposure" /\ Exposures!Next /\ UNCHANGED <<vars, filesVars>>
             \/ part = "files" /\ Store!Next /\ UNCHANGED <<vars, exposureVars>>

MCSpec == MCInit /\ [][MCNext]_<<part, vars, exposureVars, filesVars>>

Interchangeable == Permutations({alert1, alert2})
=============================================================================
