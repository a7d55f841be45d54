------------------------- MODULE CompanyVerification -------------------------
(***************************************************************************)
(* Registration of the company and its verification                        *)
(* (organisation_access_service.complete_setup, organisation_setup_router, *)
(* organisation_verification_policy_service, the domain, e-mail, registry  *)
(* and manual-review services), with the platform operator's decisions.    *)
(*                                                                         *)
(* The requests of the organisation's administrator lock nothing: each     *)
(* reads the organisation, works on what it read and commits the columns   *)
(* it changed.  The platform operator's requests are single statements'    *)
(* work on the committed rows and are one step each.                       *)
(***************************************************************************)
EXTENDS Naturals, FiniteSets

CONSTANTS Workers,      \* requests of the organisation's administrators
          Users,        \* who may become an administrator
          Founder,      \* who registers the company
          Items,        \* what policy_requirements_met asks for
          MaxRequests,  \* bound: administrator requests
          MaxRulings    \* bound: operator decisions

VARIABLES
  setup,      \* DeploymentSetup: the bootstrap token is consumed, setup completed
  org,        \* the singleton organisation
  admin,      \* administrator memberships: none, pending or active
  open,       \* open manual reviews
  challenge,  \* a DNS challenge is pending
  token,      \* an unconsumed e-mail token exists
  work,       \* the request each worker has in progress
  requests, rulings

vars == <<setup, org, admin, open, challenge, token, work, requests, rulings>>

Status  == {"active", "suspended"}
Overall == {"pending", "partial", "verified", "manual", "rejected", "suspended"}
Checked == {"pending", "verified", "manual"}
Ops     == {"legal", "recheck", "challenge", "domain", "issue", "email", "change", "review"}
Results == {"matched", "mismatch", "unavailable"}

NoOrg == [status |-> "none", overall |-> "pending", item |-> [i \in Items |-> "pending"]]
Idle  == [op |-> "idle", read |-> NoOrg, result |-> "matched"]

Init == /\ setup = [consumed |-> FALSE, completed |-> FALSE] /\ org = NoOrg
        /\ admin = [u \in Users |-> "none"] /\ open = 0
        /\ challenge = FALSE /\ token = FALSE
        /\ work = [w \in Workers |-> Idle] /\ requests = 0 /\ rulings = 0

(***************************************************************************)
(* complete_setup under the setup lock.  A registration that fails later   *)
(* is rolled back with the bootstrap token it consumed.                    *)
(***************************************************************************)
Register ==
  /\ ~setup.completed /\ org = NoOrg /\ ~setup.consumed
  /\ setup' = [setup EXCEPT !.consumed = TRUE]
  /\ org' = [NoOrg EXCEPT !.status = "active"]
  /\ admin' = [admin EXCEPT ![Founder] = "pending"]
  /\ UNCHANGED <<open, challenge, token, work, requests, rulings>>

(***************************************************************************)
(* The policy.                                                             *)
(***************************************************************************)
SomeMet(o) == \E i \in Items : o.item[i] = "verified"         \* Fault: any item will do
PolicyMet(o) == \A i \in Items : o.item[i] = "verified"

ComputeOverall(o) ==
  CASE o.overall \in {"rejected", "suspended", "manual"}  -> o.overall
    [] PolicyMet(o)                                       -> "verified"
    [] \E i \in Items : o.item[i] = "manual"              -> "manual"
    [] \E i \in Items : o.item[i] = "verified"            -> "partial"
    [] OTHER                                              -> "pending"

\* recompute_and_maybe_activate on what the request holds; activation also
\* assigns the status.
Recompute(o) ==
  LET n == [o EXCEPT !.overall = ComputeOverall(o)] IN
  IF n.overall = "verified" THEN [n EXCEPT !.status = "active"] ELSE n

\* invalidate_identity_change
Invalidate(o, i) ==
  [o EXCEPT !.item[i] = "pending",
            !.overall = IF @ = "verified" THEN "pending" ELSE @]

\* verify_legal (and verify_pan where the policy asks for the PAN).
Check(o, result) ==
  LET v == IF o.overall = "verified" THEN Invalidate(o, "legal") ELSE o IN
  CASE result = "matched"     -> Recompute([v EXCEPT !.item["legal"] = "verified"])
    [] result = "unavailable" -> Recompute([v EXCEPT !.item["legal"] = "manual", !.overall = "manual"])
    [] result = "mismatch"    -> Recompute([v EXCEPT !.item["legal"] = "pending", !.overall = "manual"])

\* verify_pan where the policy does not ask for it: a new number drops the
\* overall status, which is then computed again.
CheckPan(o) == Recompute([o EXCEPT !.overall = IF @ = "verified" THEN "pending" ELSE @])

ChallengeDomain(o) == Invalidate(o, "domain")
VerifyDomain(o)    == Recompute([o EXCEPT !.item["domain"] = "verified"])

\* issue_email_verification leaves the overall status alone.
IssueToken(o)   == [o EXCEPT !.item["email"] = "pending"]
ConsumeToken(o) == Recompute([o EXCEPT !.item["email"] = "verified"])
ChangeEmail(o)  == Recompute([o EXCEPT !.item["email"] = "pending"])

\* route_to_manual_review
RequestReview(o) == [o EXCEPT !.overall = "manual"]

\* What a request makes of the organisation it read.
Effect(o, op, result) ==
  CASE op = "legal"     -> Check(o, result)
    [] op = "recheck"   -> CheckPan(o)
    [] op = "challenge" -> ChallengeDomain(o)
    [] op = "domain"    -> VerifyDomain(o)
    [] op = "issue"     -> IssueToken(o)
    [] op = "email"     -> ConsumeToken(o)
    [] op = "change"    -> ChangeEmail(o)
    [] op = "review"    -> RequestReview(o)

(***************************************************************************)
(* A request reads: require_pending_setup_actor.                           *)
(***************************************************************************)
Read(w) ==
  /\ work[w] = Idle /\ requests < MaxRequests
  /\ org.status = "active" /\ \E u \in Users : admin[u] # "none"
  /\ \E op \in Ops, result \in Results :
       /\ op # "legal" => result = "matched"
       /\ op = "domain" => challenge
       /\ op = "email" => token
       /\ op = "change" => org.overall = "verified"
       /\ work' = [work EXCEPT ![w] = [op |-> op, read |-> org, result |-> result]]
  /\ requests' = requests + 1
  /\ UNCHANGED <<setup, org, admin, open, challenge, token, rulings>>

\* SQLAlchemy writes the columns whose value differs from the one read.
Write(read, new) ==
  [status  |-> IF new.status = read.status THEN org.status ELSE new.status,
   overall |-> IF new.overall = read.overall THEN org.overall ELSE new.overall,
   item    |-> [i \in Items |-> IF new.item[i] = read.item[i] THEN org.item[i] ELSE new.item[i]]]

\* activate_verified_organisation: the first pending administrator.
Pending == {u \in Users : admin[u] = "pending"}
Activated == [u \in Users |-> IF u \in Pending THEN "active" ELSE admin[u]]

\* ... and commits.  The e-mail token is read FOR UPDATE, so it is still
\* there; a DNS challenge is not.
Finish(w) ==
  LET q == work[w]  new == Effect(q.read, q.op, q.result) IN
  /\ q # Idle /\ (q.op = "email" => token)
  /\ org' = Write(q.read, new)
  /\ IF q.op \in {"legal", "recheck", "domain", "email", "change"} /\ new.overall = "verified"
     THEN admin' = Activated /\ setup' = [setup EXCEPT !.completed = TRUE]
     ELSE UNCHANGED <<admin, setup>>
  /\ open' = IF q.op = "review" /\ open = 0 THEN 1 ELSE open
  /\ challenge' = CASE q.op = "challenge" -> TRUE [] q.op = "domain" -> FALSE [] OTHER -> challenge
  /\ token' = CASE q.op = "issue" -> TRUE [] q.op \in {"email", "change"} -> FALSE [] OTHER -> token
  /\ work' = [work EXCEPT ![w] = Idle]
  /\ UNCHANGED <<requests, rulings>>

\* Any error rolls the request back: a refused record, an expired token, a
\* token another request consumed first.
Abandon(w) ==
  /\ work[w] # Idle /\ work' = [work EXCEPT ![w] = Idle]
  /\ UNCHANGED <<setup, org, admin, open, challenge, token, requests, rulings>>

(***************************************************************************)
(* The platform operator.                                                  *)
(***************************************************************************)
Rule == rulings < MaxRulings /\ rulings' = rulings + 1 /\ org # NoOrg
        /\ UNCHANGED <<challenge, token, work, requests>>

\* decide_manual_review
Approve ==
  /\ Rule /\ open > 0 /\ open' = open - 1
  /\ org' = [status |-> "active", overall |-> "verified", item |-> [i \in Items |-> "verified"]]
  /\ admin' = Activated /\ setup' = [setup EXCEPT !.completed = TRUE]

Reject ==
  /\ Rule /\ open > 0 /\ open' = open - 1
  /\ org' = [org EXCEPT !.overall = "rejected"]
  /\ UNCHANGED <<admin, setup>>

MoreInfo ==
  /\ Rule /\ open > 0 /\ open' = open - 1
  /\ org' = [org EXCEPT !.overall = "manual"]
  /\ UNCHANGED <<admin, setup>>

\* suspend_organisation
Suspend ==
  /\ Rule
  /\ org' = [org EXCEPT !.status = "suspended", !.overall = "suspended"]
  /\ UNCHANGED <<admin, setup, open>>

\* recover_organisation_admin: a suspended overall status becomes verified,
\* whatever it was before the suspension.
Recover(u) ==
  /\ Rule
  /\ org' = [org EXCEPT !.status = "active",
                        !.overall = IF org.status = "suspended" /\ @ = "suspended" THEN "verified" ELSE @]
  /\ admin' = [admin EXCEPT ![u] = "active"]
  /\ UNCHANGED <<setup, open>>

RulesInFavour == Approve \/ \E u \in Users : Recover(u)

Next == \/ Register
        \/ \E w \in Workers : Read(w) \/ Finish(w) \/ Abandon(w)
        \/ Approve \/ Reject \/ MoreInfo \/ Suspend
        \/ \E u \in Users : Recover(u)

Spec == Init /\ [][Next]_vars

-----------------------------------------------------------------------------
\* Types, and the setup row goes with the organisation it registered.
TypeOK ==
  /\ setup \in [consumed : BOOLEAN, completed : BOOLEAN]
  /\ org = NoOrg \/ org \in [status : Status, overall : Overall, item : [Items -> Checked]]
  /\ admin \in [Users -> {"none", "pending", "active"}]
  /\ setup.consumed = (org # NoOrg)

\* A suspended organisation is active again only by the operator: no request
\* of an administrator that was under way when the suspension committed lifts
\* it (suspend_organisation; activation assigns the status, too).
SuspensionHolds ==
  [][org.status = "suspended" /\ org'.status = "active" => RulesInFavour]_vars

\* The overall status becomes verified by the operator, or at the end of a
\* request that saw every item of the policy verified: one check alone, a
\* repeated check or a PAN that is not asked for never activates the company.
EarnedOrDecided ==
  [][org.overall # "verified" /\ org'.overall = "verified"
       => RulesInFavour \/ \A i \in Items : org'.item[i] = "verified"]_vars

\* A company is active and verified only by the operator, or by all its checks.
VerifiedRightly == SuspensionHolds /\ EarnedOrDecided
=============================================================================
