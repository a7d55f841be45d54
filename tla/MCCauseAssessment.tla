------------------------- MODULE MCCauseAssessment -------------------------
(***************************************************************************)
(* The causes of CauseRules, scored over its files.                        *)
(***************************************************************************)
EXTENDS CauseAssessment, CauseRules
=============================================================================
