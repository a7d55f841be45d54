------------------------------ MODULE MCAssurance ------------------------------
(***************************************************************************)
(* What stands beside the governed chain, checked side by side: a          *)
(* behaviour is one of the service named by part, while the others rest in *)
(* their initial states.                                                   *)
(***************************************************************************)
EXTENDS Assurance, CauseRules

CONSTANTS w1, w2, a1, audit1, evidence1, row

VARIABLES part,
          schema, version, managed, origin, stranded

\* An alert operation locks the alert and then writes its audit event; the approval of a
\* breach decision appends to the ledger and then locks the alerts it raises.
LockOrders == {<<Ledger>>, <<row, Ledger>>, <<Ledger, row>>}

ScopeOf == [i \in Item |-> IF i = evidence1 THEN "incident" ELSE "global"]

\* Two requests at a time: on the alert and its containment ...
Handling == INSTANCE BreachResponse WITH MaxDecision <- 0

\* ... and on the decisions that raise it.
Decisions == INSTANCE BreachResponse WITH
  Actions <- {}, MaxEvaluations <- 2, MaxReopened <- 0, Suppressions <- {}

\* The schema of the database, through all its revisions.
Schema == INSTANCE SchemaHistory

causeVars  == <<linked, parsed, detected, stored, studies>>
schemaVars == <<schema, version, managed, origin, stranded>>
allVars    == <<part, vars, breachVars, causeVars, schemaVars>>

AssuranceInit ==
  /\ part \in {"ledger", "breach", "decisions", "causes", "schema"}
  /\ Init
  /\ IF part = "decisions" THEN Decisions!Init ELSE Breach!Init
  /\ Counterfactual!Init
  /\ IF part = "schema" THEN Schema!Init ELSE Schema!AtBase

AssuranceNext ==
  /\ part' = part
  /\ \/ /\ part = "ledger" /\ Next
        /\ UNCHANGED <<breachVars, causeVars, schemaVars>>
     \/ /\ part = "breach" /\ Handling!Next
        /\ UNCHANGED <<vars, causeVars, schemaVars>>
     \/ /\ part = "decisions" /\ Decisions!Next
        /\ UNCHANGED <<vars, causeVars, schemaVars>>
     \/ /\ part = "causes" /\ Counterfactual!Next
        /\ UNCHANGED <<vars, breachVars, schemaVars>>
     \/ /\ part = "schema" /\ Schema!Next
        /\ UNCHANGED <<vars, breachVars, causeVars>>

AssuranceSpec == AssuranceInit /\ [][AssuranceNext]_allVars /\ Fairness

\* An upgrade reaches head, head serves the classes, and an upgrade takes nothing
\* away (alembic/env.py, alembic/versions).
HeadServes      == part = "schema" => Schema!HeadReachable /\ Schema!HeadServesModels
UpgradesOnlyAdd == Schema!UpgradesOnlyAdd
=============================================================================
