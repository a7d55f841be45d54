----------------------------- MODULE Membership -----------------------------
(***************************************************************************)
(* Members of the verified organisation (organisation_access_service,      *)
(* user_router) and the one-time tokens that let people in: invitations    *)
(* and password resets (password_reset_service).                           *)
(*                                                                         *)
(* A request reads and checks in one step and commits in another: other    *)
(* requests commit between them.  Accepting an invitation and confirming a *)
(* reset hold the token's row FOR UPDATE from the first to the second;     *)
(* nothing else is locked.  A token past its time to live is one nobody    *)
(* uses any more.  user.token_version is left out.                         *)
(***************************************************************************)
EXTENDS Naturals, FiniteSets, Sequences

CONSTANTS Workers, Users,
          Founder,      \* the first administrator
          MaxTokens,    \* bound: invitations, and resets
          MaxRequests   \* bound: requests

VARIABLES
  operational,  \* the organisation is active and verified
  account,      \* users: none, active or inactive (users.is_active)
  member,       \* organisation_memberships: role and status
  invites,      \* organisation_invitations
  resets,       \* password_reset_tokens
  work,         \* the request each worker has in progress
  requests

vars == <<operational, account, member, invites, resets, work, requests>>

Roles    == {"admin", "viewer"}
Standing == {"none", "active", "suspended", "revoked"}
Outside  == [role |-> "viewer", status |-> "none"]
Idle     == [op |-> "idle", target |-> Founder, arg |-> "none", ids |-> {}]

Init == /\ operational = TRUE
        /\ account = [u \in Users |-> IF u = Founder THEN "active" ELSE "none"]
        /\ member = [u \in Users |-> IF u = Founder THEN [role |-> "admin", status |-> "active"] ELSE Outside]
        /\ invites = <<>> /\ resets = <<>>
        /\ work = [w \in Workers |-> Idle] /\ requests = 0

(***************************************************************************)
(* Who may act, and the check on the last administrator.                   *)
(***************************************************************************)
\* count_active_org_admins counts memberships; the account is not looked at.
ActiveAdmins == {u \in Users : member[u].role = "admin" /\ member[u].status = "active"}

\* get_current_user and require_manage_users: the actor's account is active.
UsableAdmins == {u \in ActiveAdmins : account[u] = "active"}
MayManage(u) == operational /\ u \in UsableAdmins

\* assert_not_last_org_admin for a request that takes u's administration away.
NotLastAdmin(u) == u \in ActiveAdmins => Cardinality(ActiveAdmins) > 1

Held(kind) == UNION {work[w].ids : w \in {v \in Workers : work[v].op = kind}}

Begin(w, op, target, arg, ids) ==
  /\ work[w] = Idle /\ requests < MaxRequests /\ requests' = requests + 1
  /\ work' = [work EXCEPT ![w] = [op |-> op, target |-> target, arg |-> arg, ids |-> ids]]
  /\ UNCHANGED <<operational, account, member, invites, resets>>

End(w) == work' = [work EXCEPT ![w] = Idle] /\ UNCHANGED <<operational, requests>>

(***************************************************************************)
(* Members.                                                                *)
(***************************************************************************)
\* What each request of an administrator checks on the way in.
\* change_membership_role forbids a change of one's own role.
BeginRole(w) ==
  \E a, u \in Users, r \in Roles :
    /\ MayManage(a) /\ member[u].status # "none"
    /\ r # "admin" => NotLastAdmin(u)
    /\ a = u => r = member[u].role
    /\ Begin(w, "role", u, r, {})

\* set_membership_status
BeginStatus(w) ==
  \E a, u \in Users, s \in Standing \ {"none"} :
    /\ MayManage(a) /\ member[u].status # "none"
    /\ s # "active" => NotLastAdmin(u)
    /\ Begin(w, "status", u, s, {})

\* set_user_active by PATCH /users/{id}; the deactivate endpoint, which
\* refuses one's own account, allows less.
BeginActive(w) ==
  \E a, u \in Users, s \in {"active", "inactive"} :
    /\ MayManage(a) /\ member[u].status # "none" /\ account[u] # "none"
    /\ s = "inactive" => NotLastAdmin(u)
    /\ Begin(w, "active", u, s, {})

\* assign_unassigned_user takes any user, a member too, and checks nothing.
BeginAssign(w) ==
  \E a, u \in Users, r \in Roles :
    /\ MayManage(a) /\ account[u] # "none"
    /\ Begin(w, "assign", u, r, {})

\* POST /users: a new account with an active membership.
BeginCreate(w) ==
  \E a, u \in Users, r \in Roles :
    MayManage(a) /\ account[u] = "none" /\ Begin(w, "create", u, r, {})

FinishCreate(w) ==
  LET q == work[w] IN
  /\ q.op = "create" /\ account[q.target] = "none"
  /\ account' = [account EXCEPT ![q.target] = "active"]
  /\ member' = [member EXCEPT ![q.target] = [role |-> q.arg, status |-> "active"]]
  /\ End(w) /\ UNCHANGED <<invites, resets>>

FinishMember(w) ==
  LET q == work[w] IN
  /\ q.op \in {"role", "status", "active", "assign"}
  /\ member' = CASE q.op = "role"   -> [member EXCEPT ![q.target].role = q.arg]
                 [] q.op = "status" -> [member EXCEPT ![q.target].status = q.arg]
                 [] q.op = "assign" -> [member EXCEPT ![q.target] = [role |-> q.arg, status |-> "active"]]
                 [] OTHER           -> member
  /\ account' = IF q.op = "active" THEN [account EXCEPT ![q.target] = q.arg] ELSE account
  /\ End(w) /\ UNCHANGED <<invites, resets>>

(***************************************************************************)
(* Invitations.                                                            *)
(***************************************************************************)
PendingFor(u) == {i \in DOMAIN invites : invites[i].to = u /\ invites[i].status = "pending"}

\* create_invitation reads the pending invitations of the address ...
BeginInvite(w) ==
  \E a, u \in Users, r \in Roles :
    MayManage(a) /\ Begin(w, "invite", u, r, PendingFor(u))

Revoked(ids) == [i \in DOMAIN invites |-> IF i \in ids THEN [invites[i] EXCEPT !.status = "revoked"] ELSE invites[i]]
Invitation(u, r) == [to |-> u, role |-> r, status |-> "pending", used |-> 0]

\* ... revokes those it read, whatever they have become, and inserts a new
\* one: the partial unique index refuses a second pending invitation.
FinishInvite(w) ==
  LET q == work[w] IN
  /\ q.op = "invite" /\ Len(invites) < MaxTokens /\ q.ids \intersect Held("accept") = {}
  /\ PendingFor(q.target) \subseteq q.ids
  /\ invites' = Append(Revoked(q.ids), Invitation(q.target, q.arg))
  /\ End(w) /\ UNCHANGED <<account, member, resets>>

\* revoke_invitation reads without a lock.
BeginRevoke(w) ==
  \E a \in Users, i \in DOMAIN invites :
    MayManage(a) /\ invites[i].status = "pending" /\ Begin(w, "revoke", invites[i].to, "none", {i})

FinishRevoke(w) ==
  LET q == work[w] IN
  /\ q.op = "revoke" /\ q.ids \intersect Held("accept") = {}
  /\ invites' = Revoked(q.ids)
  /\ End(w) /\ UNCHANGED <<account, member, resets>>

\* An invitation that was accepted stays so for _assert_invitation_usable,
\* which also looks at accepted_at, even after a late revocation.
Usable(i) == invites[i].status = "pending" /\ invites[i].used = 0

Conflicting(i) == LET m == member[invites[i].to] IN m.status = "active" /\ m.role # invites[i].role

BeginAcceptUnlocked(w) ==                   \* Fault: no FOR UPDATE
  \E i \in DOMAIN invites :
    /\ Usable(i) /\ operational /\ ~Conflicting(i)
    /\ Begin(w, "accept", invites[i].to, invites[i].role, {i})

BeginAccept(w) ==
  \E i \in DOMAIN invites :
    /\ i \notin Held("accept")
    /\ Usable(i) /\ operational /\ ~Conflicting(i)
    /\ Begin(w, "accept", invites[i].to, invites[i].role, {i})

\* The account is created or activated again, the membership made active.
FinishAccept(w) ==
  LET q == work[w] IN
  /\ q.op = "accept"
  /\ account' = [account EXCEPT ![q.target] = "active"]
  /\ member' = [member EXCEPT ![q.target] = [role |-> q.arg, status |-> "active"]]
  /\ invites' = [i \in DOMAIN invites |->
                   IF i \in q.ids THEN [invites[i] EXCEPT !.status = "accepted", !.used = @ + 1] ELSE invites[i]]
  /\ End(w) /\ UNCHANGED resets

(***************************************************************************)
(* Password resets.                                                        *)
(***************************************************************************)
LiveResets(u) == {i \in DOMAIN resets : resets[i].user = u /\ ~resets[i].consumed}
Consumed(ids) == [i \in DOMAIN resets |-> IF i \in ids THEN [resets[i] EXCEPT !.consumed = TRUE] ELSE resets[i]]

BeginRequest(w) ==
  \E u \in Users : account[u] = "active" /\ Begin(w, "request", u, "none", LiveResets(u))

FinishRequest(w) ==
  LET q == work[w] IN
  /\ q.op = "request" /\ Len(resets) < MaxTokens /\ q.ids \intersect Held("confirm") = {}
  /\ resets' = Append(Consumed(q.ids), [user |-> q.target, consumed |-> FALSE, used |-> 0])
  /\ End(w) /\ UNCHANGED <<account, member, invites>>

BeginConfirm(w) ==
  \E i \in DOMAIN resets :
    /\ i \notin Held("confirm")
    /\ ~resets[i].consumed /\ account[resets[i].user] = "active"
    /\ Begin(w, "confirm", resets[i].user, "none", {i})

FinishConfirm(w) ==
  LET q == work[w] IN
  /\ q.op = "confirm"
  /\ resets' = [i \in DOMAIN resets |->
                  IF i \in q.ids THEN [resets[i] EXCEPT !.consumed = TRUE, !.used = @ + 1] ELSE resets[i]]
  /\ End(w) /\ UNCHANGED <<account, member, invites>>

(***************************************************************************)
(* Errors after the read roll the request back; a person signs up; the     *)
(* platform operator suspends the organisation or restores an              *)
(* administrator.                                                          *)
(***************************************************************************)
Abandon(w) == work[w] # Idle /\ End(w) /\ UNCHANGED <<account, member, invites, resets>>

SignUp(u) ==
  /\ account[u] = "none" /\ account' = [account EXCEPT ![u] = "active"]
  /\ UNCHANGED <<operational, member, invites, resets, work, requests>>

Suspend ==
  /\ operational /\ operational' = FALSE
  /\ UNCHANGED <<account, member, invites, resets, work, requests>>

Recover(u) ==
  /\ account[u] # "none" /\ requests < MaxRequests /\ requests' = requests + 1
  /\ operational' = TRUE
  /\ account' = [account EXCEPT ![u] = "active"]
  /\ member' = [member EXCEPT ![u] = [role |-> "admin", status |-> "active"]]
  /\ UNCHANGED <<invites, resets, work>>

Next ==
  \/ \E w \in Workers :
       \/ BeginRole(w) \/ BeginStatus(w) \/ BeginActive(w) \/ BeginAssign(w) \/ FinishMember(w)
       \/ BeginCreate(w) \/ FinishCreate(w)
       \/ BeginInvite(w) \/ FinishInvite(w) \/ BeginRevoke(w) \/ FinishRevoke(w)
       \/ BeginAccept(w) \/ FinishAccept(w)
       \/ BeginRequest(w) \/ FinishRequest(w) \/ BeginConfirm(w) \/ FinishConfirm(w)
       \/ Abandon(w)
  \/ Suspend
  \/ \E u \in Users : SignUp(u) \/ Recover(u)

Spec == Init /\ [][Next]_vars

-----------------------------------------------------------------------------
\* Types, and the row locks: two requests never hold one token.
TypeOK ==
  /\ operational \in BOOLEAN
  /\ account \in [Users -> {"none", "active", "inactive"}]
  /\ member \in [Users -> [role : Roles, status : Standing]]
  /\ invites \in Seq([to : Users, role : Roles, status : {"pending", "revoked", "accepted"}, used : Nat])
  /\ resets \in Seq([user : Users, consumed : BOOLEAN, used : Nat])
  /\ \A v, w \in Workers : v # w /\ work[v].op = work[w].op /\ work[v].op \in {"accept", "confirm"}
                             => work[v].ids \intersect work[w].ids = {}

\* "Single-use" (docs/ORGANISATION_DEPLOYMENT.md): whatever requests overlap,
\* an invitation lets in, and a reset link sets a password, at most once, and
\* only while the row is still open when the request commits.
OneTimeTokens ==
  [][/\ \A i \in DOMAIN invites : invites'[i].used # invites[i].used
                                   => invites[i].status = "pending" /\ invites'[i].used = 1
     /\ \A i \in DOMAIN resets : resets'[i].used # resets[i].used
                                  => ~resets[i].consumed /\ resets'[i].used = 1]_vars

\* Two administrators who invite one address at the same time leave one
\* pending invitation, though neither locks the other's.
OnePendingInvitation == \A u \in Users : Cardinality(PendingFor(u)) <= 1

\* docs/ORGANISATION_DEPLOYMENT.md:41, "Last Organisation Admin cannot
\* demote/disable themselves": with requests one at a time, whoever takes the
\* last usable administrator away is that administrator.
LastAdminKept == [][\A u \in Users : UsableAdmins = {u} => UsableAdmins' # {}]_vars
=============================================================================
