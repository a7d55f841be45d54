------------------------------ MODULE MCServices ------------------------------
(***************************************************************************)
(* Five services that share no table, checked side by side: a behaviour is *)
(* one of the service named by part, while the others rest in their        *)
(* initial states.  The controlled patch is the module extended: one       *)
(* request at a time on it, so that only deaths and edits interfere.       *)
(***************************************************************************)
EXTENDS Services, TLC

CONSTANTS t1, s1, s2, w1, w2, u1, u2, e1, e2, e3, e4, g

VARIABLE part

\* Two events of one group at the receiver ...
OneGroup == [e \in {e1, e2} |-> g]

\* ... and one beside e3, which the receiver refuses, and e4, which the local scan drops.
Refusals == INSTANCE EventIntake WITH
  Events <- {e1, e3, e4}, Unsafe <- {e4}, Residual <- {e3},
  GroupOf <- [e \in {e1, e3, e4} |-> g], MaxAlerts <- 1

intakeVars       == <<host, queue, dropped, emitted, flushes, slot, rows, alerts, clock, running, outages>>
verificationVars == <<setup, org, admin, open, challenge, token, checks, checked, rulings>>
membersVars      == <<operational, account, member, invites, resets, work, requests>>
noticesVars      == <<notice, outbox, delivered, desk, batch, overlapped, deaths>>
patchVars        == vars
allVars          == <<part, intakeVars, verificationVars, membersVars, noticesVars, patchVars>>

ServicesInit ==
  /\ part \in {"intake", "refusals", "verification", "members", "notices", "patch"}
  /\ Intake!Init /\ Verification!Init /\ Members!Init /\ Notices!Init /\ Init

ServicesNext ==
  /\ part' = part
  /\ \/ /\ part = "intake" /\ Intake!Next
        /\ UNCHANGED <<verificationVars, membersVars, noticesVars, patchVars>>
     \/ /\ part = "refusals" /\ Refusals!Next
        /\ UNCHANGED <<verificationVars, membersVars, noticesVars, patchVars>>
     \/ /\ part = "verification" /\ Verification!Next
        /\ UNCHANGED <<intakeVars, membersVars, noticesVars, patchVars>>
     \/ /\ part = "members" /\ Members!Next
        /\ UNCHANGED <<intakeVars, verificationVars, noticesVars, patchVars>>
     \/ /\ part = "notices" /\ Notices!Next
        /\ UNCHANGED <<intakeVars, verificationVars, membersVars, patchVars>>
     \/ /\ part = "patch" /\ Next
        /\ UNCHANGED <<intakeVars, verificationVars, membersVars, noticesVars>>

\* The intake by itself.
IntakeSpec == ServicesInit /\ part = "intake" /\ [][ServicesNext]_allVars

ServicesSpec == ServicesInit /\ [][ServicesNext]_allVars /\ Intake!Fairness /\ Fairness
=============================================================================
