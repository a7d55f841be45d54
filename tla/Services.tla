-------------------------------- MODULE Services --------------------------------
(***************************************************************************)
(* Services that share no table: the controlled patch, which is the module *)
(* extended, the notifications, the members, the verification of the       *)
(* company and the intake of events, each an instance with variables of    *)
(* its own.                                                                *)
(***************************************************************************)
EXTENDS ControlledPatch

\* The notifications.
CONSTANTS Staff, People, Deliverers, Channels, RetryCount, MaxDeaths, None
VARIABLES notice, outbox, delivered, desk, batch, overlapped, deaths
Notices == INSTANCE CustomerNotice WITH MaxCrashes <- MaxDeaths, crashes <- deaths

\* The members, and the verification of the company, whose requests come from the Workers
\* of the patch.
CONSTANTS Requesters, Users, Founder, MaxTokens, MaxRequests, Items, MaxChecks, MaxRulings
VARIABLES operational, account, member, invites, resets, work, requests,
          setup, org, admin, open, challenge, token, checks, checked, rulings
Members == INSTANCE Membership WITH Workers <- Requesters
Verification == INSTANCE CompanyVerification WITH
  MaxRequests <- MaxChecks, work <- checks, requests <- checked

\* The intake of events.
CONSTANTS Threads, Slots, Events, Unsafe, Residual, Groups, GroupOf, QueueMax, MaxFlushes,
          MaxAlerts, MaxOutages
VARIABLES host, queue, dropped, emitted, flushes, slot, rows, alerts, clock, running, outages
Intake == INSTANCE EventIntake

\* An event counts once (siem_import_service.ingest_event) and makes one open alert per
\* group (live_alert_grouping_service), and every call of the connector ends
\* (connectors/runtime client).
GroupedOnce == Intake!CountedOnce /\ Intake!OneOpenAlert
CallsEnd == Intake!CallsEnd

\* A failed send is stored in the queue, and what is not is counted (docs/CONNECTOR_FRAMEWORK.md).
NothingLost == Intake!NothingLost

\* Only the operator lifts a suspension, and a company is verified by the
\* operator or by all its checks (organisation_verification_policy_service).
VerifiedRightly == Verification!VerifiedRightly

\* Invitations and resets work once (organisation_access_service,
\* password_reset_service).
OneTimeTokens == Members!OneTimeTokens

\* What was rejected reaches nobody, and overlapping runs of the outbox send
\* nothing twice (customer_notification_service).
SentAsDecided == Notices!SentAsDecided
=============================================================================
