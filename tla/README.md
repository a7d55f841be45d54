# PrivacyTrace-NP: a TLA+ model of the governed remediation workflow

PrivacyTrace-NP collects privacy evidence (logs, alerts, scanner and CI/CD
records), ranks the root cause of an incident, and leads a human-governed chain
from the approved root cause to a verified fix: analysis, review, diagnosis,
action, implementation, sandbox test, controlled retest, verification, outcome,
learning case. This directory holds TLA+ modules of that system, the TLC runs
that check them on small instances and the proofs TLAPS checks about them.

## 1. Inventory

The backend is a FastAPI application on SQLAlchemy and PostgreSQL (`READ
COMMITTED`, sessions with `autoflush=False`). A request handler opens a session,
calls one service function and commits once, with a few exceptions that matter
(a test, a failed verification and a controlled rollback commit twice). There is
no background scheduler: besides requests, code runs only at start-up
(`app/main.py:54-76`, recovery of interrupted patches) and in the runtime
connector inside a monitored program.

Components of the core, all under `src/backend/app/services/`:

| Component | State | Operations | What makes it correct |
|---|---|---|---|
| Evidence intake: `ingestion_service`, `normalization_service`, `detection_service` | evidence files on disk and in the database, normalised events, detections | `ingest_upload`, the sample scenario, `parse_evidence`, `detect_evidence` | a file has its bytes and its status tells of its events; new findings mark the analysis of their incident stale |
| Evidence linking: `live_monitor_service`, `scanner_bridge_service`, `cicd_evidence_service` | alerts and records with their incident | `create_or_link_incident`, `link_scanner_evidence` and its CI/CD twin | the same |
| Root-cause analysis: `causality_engine`, `root_cause_analysis_service` | versioned analyses, at most one current per incident | `analyse_incident`, `mark_stale`, `create_analysis_record`, the invalidation cascade | one current analysis; nothing below a stale one stays current |
| Human review: `review_service`, `review_policy_service` | review decisions bound to an analysis version, incident status | `submit_review` | only the newest review of the current analysis governs |
| Provenance gate: `workflow_provenance_service` | none, reads the chain | `assert_current_governed_remediation_permission`, `get_workflow_provenance_facts` | what is refused once is refused for good; rows are never composed by "latest" |
| Diagnosis: `ai_remediation_diagnosis_service` | diagnoses, one current per analysis and review | `generate_problem_specific_remediation`, `review_diagnosis` | a change needs an accepted diagnosis; a new one supersedes the whole branch |
| Action: `remediation_action_service` | actions | `create_remediation_action`, `update_remediation_action` | no revival of a stale action |
| Lifecycle: `remediation_lifecycle_service` | implementation records, controlled retests | `record_implementation`, `record_controlled_retest` | exact chain, idempotency |
| Sandbox test: `sandbox_test_execution_service` | test executions | `run_profile` (commits `running`, runs the command, commits the verdict) | the late verdict revives nothing |
| Verification: `fix_verification_gate_service`, `fix_verification_service`, `verification_outcome_service` | fix verifications, outcomes | `verify_fix` | only the exact, current, tested, retested chain verifies |
| Learning: `verified_outcome_learning_service` | cases eligible to rank remediations, playbook counters | `record_verified_outcome` | an eligible case is proven and current |
| Controlled patch: `controlled_patch_service`, `controlled_rollback_service` | patch proposals, the sandbox file, rollback executions | propose, approve, apply, roll back, recover | the file and the row agree after every crash; one retry |
| Alert grouping and breach alerts: `live_alert_grouping_service`, `privacy_breach_alert_service` | groups with count and window, signatures | attach or create under an advisory lock | no event lost or counted twice |
| Integrity ledger: `integrity_ledger_service` | hash chain and its head row | append, verify | one line of entries, no gap |
| Breach response: `privacy_impact_service`, `privacy_breach_alert_service`, `breach_decision_service`, `containment_service`, `alert_operations_service` | versions of the assessment, breach alerts with occurrence counts and suppression, decisions with supersession links, containment actions | assess, review, approve, raise or refresh an alert, acknowledge, resolve, reopen, suppress, propose, approve, supersede, authorise, execute | the line of decisions never forks; every evaluation is counted; what was closed stays closed until reopened |
| Organisation: `organisation_access_service`, `organisation_verification_policy_service` and the check services | the one organisation, its overall status and six items, challenges and tokens | register, check, request a review, operator decisions | only the operator lifts a suspension; verified is earned or decided |
| Members: `organisation_access_service`, `password_reset_service` | accounts, memberships, invitations, resets | invite, accept, revoke, change, assign, request and confirm a reset | a token works once |
| Notification: `customer_notification_service` | a notification and its outbox rows | draft, decide, queue, process the outbox with `skip_locked`, retry | nobody is told what was rejected; overlapping runs send nothing twice |
| Runtime connector (`src/connectors/runtime`) and receiver (`connector_ingest_service`, `siem_import_service.ingest_event`) | bounded queue of events, event rows by (source, envelope id) | emit, flush, ingest | nothing is lost unreported, nothing counted twice |
| Cause assessment: `causality_engine`, `root_cause_evidence_strength_service`, `counterfactual_analysis_service` | stored ranks and scores, counterfactual studies | score, cap, rank, remove evidence and score again | the caps hold, the minimal set is enough |
| Read models: `workflow_provenance_service`, `incident_workflow_service`, `report_readiness_service` | none, each queries the chain anew | facts, report chain, stages, readiness | the four agree, and what is called ready is proven |
| Exposure profiles: `exposure_profile_service`, `privacy_ingestion_pipeline_service`, `sensitive_data_classification_service` | classified values, versioned profiles combined from them | import, detect, link, recalculate, review | the profiles are those the rows call for, whatever overlaps |
| Schema: `backend/app/models`, `backend/alembic` | the database's tables, columns, keys and its revision | upgrade, downgrade, the empty-database case of `env.py` | head is reached and serves the classes; an upgrade takes nothing away |
| Timeline, exports, SIEM field mapping, text of a report | derived rows | import, render | left out |
| Detection content, masking, taxonomy, AI provider | none | pure functions on text | outside a model's reach |
| Routers, frontend, evaluation, scripts | none of the core | decoding, display | outside the model |

How they interact. Evidence services call `mark_stale` inside their own
transaction. Analysis, review and verification each write the incident's status.
Every governed transition first calls the provenance gate, which re-reads the
current analysis, its newest review and the diagnosis and action named by the
caller; then it inserts a row carrying the ids the gate returned. The cascade
runs in the opposite direction: from an analysis it follows, table by table, a
different stored reference (the action of an implementation, the implementation
of a retest, the retest of a verification, the analysis of an outcome, the
outcome of a case). A failed test, an exposed retest and a failed verification
roll a sandbox patch back automatically and leave a penalty case.

What is hard. The cascade has to find every descendant although no table holds
the whole path; the gate has to refuse old work after a reject-and-approve or a
re-analysis; the verdict of a test arrives after anything may have happened; the
incident's status has three writers; verification chooses "the" action by one
query and the implementation and test by two others; and most handlers check
without a lock. Beside the chain, transactions of one resource race: two appends to
the hash chain, two evaluations of one alert, two acceptances of one invitation,
two runs of an outbox, a resend of an event the receiver still works on; and a
process may die between a write to disk and its commit. `PROJECT.json` lists these
hazards at their lines, with the properties that cover them.

## 2. Modules

| Module | What it is |
|---|---|
| `GovernedChain` | one incident's chain: 13 variables, 17 actions, the properties |
| `CertifiedFixes` | what the chain promises a reader of its cases: certificates issued on the basis in force, withdrawn with it, never reissued |
| `CertifiedChain` | the refinement mapping from `GovernedChain` to `CertifiedFixes` |
| `InvestigationView` | extends `GovernedChain` with workflow facts, report chain, stages and readiness, as operators |
| `ControlledPatch` | one patch, its workspace file and snapshot, rollbacks, crashes, startup recovery |
| `IntegrityLedger` | the hash chain, its head, the locks around it, verification |
| `AppendOnlyLog` | what the ledger promises: everyone sees one log that only grows |
| `EventIntake` | connector queue, network, receiver and alert grouping |
| `BreachResponse` | assessments, breach alerts, decisions, containment |
| `CompanyVerification` | registration and verification of the company |
| `Membership` | members, invitations, password resets |
| `CustomerNotice` | a notification and its outbox |
| `CauseAssessment` | scores, caps, ranks, evidence strength, counterfactual studies |
| `WorkflowScreen` | extends `InvestigationView` with the stages, the next action, the lifecycle phases and the rows a report cites |
| `ExposureProfiles` | classified values of an incident and the profiles combined from them, under overlapping requests |
| `EvidenceFiles` | evidence files from registration to detection, on disk and in the database |
| `SchemaModels`, `SchemaRevisions`, `SchemaHistory` | what the mapped classes declare; what the 37 revisions do; the commands that move a database through them |
| `CauseRules` | three causes of `root_cause_rules.yaml` over four files, given to `CauseAssessment` by the configurations |
| `MCGovernedChain` | extends `CertifiedChain`: two instances of the chain over the same tables, one at a time |
| `MCCauseAssessment` | cause assessment over `CauseRules` |
| `Services` | extends `ControlledPatch`; beside it, as instances, intake, verification, members, notices, with the properties of all |
| `Assurance` | extends `IntegrityLedger`; beside it the response to a breach and the cause assessment |
| `EvidenceOfIncident` | exposure profiles and evidence files side by side |
| `MCServices` | extends `Services`: one part at a time, and a second instance of the intake |
| `MCAssurance` | extends `Assurance`: one part at a time, with the schema |
| `MCEvidenceReports` | extends `WorkflowScreen` and `EvidenceOfIncident`; beside them a second instance of the chain |
| `GovernedChainInvariant` | the first inductive invariant of the chain and its theorems |
| `GovernedChainLineage` | the second, stronger invariant and the theorems on exemplars, fixes, branches, refusals, permission |
| `CertifiedFixesProofs`, `CertifiedChainProofs` | the theorems on the abstract specification; that the chain implements it |
| `WorkflowScreenProofs` | the theorems on the readiness check, the stages of the screen, its next action, the panel and the incident's status |
| `ServicesProofs` | the theorems on notifications, members, company and intake |
| `AssuranceProofs` | the theorems on the ledger, on the response to a breach and on counterfactual studies |
| `EvidenceProofs` | the theorems on exposure profiles and evidence files |

What a run checks and a theorem states is one definition: the runs and the proof
modules extend the same composition (`Services`, `Assurance`, `EvidenceOfIncident`),
whose constants the runs give values and the theorems leave open.

The compositions that are checked have a variable `part` that names the component whose
behaviour is being followed; the others rest in their initial states. Since the
components of one composition share no table, their interleavings say nothing new, and
one run answers for all of them. A component that needs two instances (one that has the
resends, one that has the refusals) appears under two part names over the same
variables.

### GovernedChain and the code

Each table is a sequence of rows in order of creation and a row's id is its
index; "newest by timestamp, then id" is then the largest index. A row keeps the
columns that guards and cascades read: its references, its status, its
`workflow_status` and, for outcomes and cases, `eligible_for_learning`. The four
references that descendants of an action copy are one record, `Chain`.

| Action | Handler |
|---|---|
| `LinkAlert`, `LinkRecord` | `create_or_link_incident`; `link_scanner_evidence` and the CI/CD link |
| `ParseEvidence`, `DetectEvidence` | `parse_evidence`, `detect_evidence` for a file linked to the incident |
| `Analyse(force)` | `analyse_incident` with `create_analysis_record` and the cascade |
| `SubmitReview(decision)` | `submit_review` |
| `GenerateDiagnosis` | `generate_problem_specific_remediation`, supersession of the branch included |
| `AcceptDiagnosis`, `DeclineDiagnosis` | `review_diagnosis`, with the action an acceptance creates |
| `CreateAction`, `UpdateAction` | `create_remediation_action`, `update_remediation_action` |
| `RecordImplementation` | `record_implementation` |
| `StartTest`, `FinishTest` | `run_profile` before and after its command |
| `RecordRetest` | `record_controlled_retest`, with the automatic rollback of an exposed retest |
| `VerifyFix` | `verify_fix`: gate, verification, outcome, case, incident status, automatic rollback |
| `RollbackPatch` | `rollback_sandbox_patch` through `execute_controlled_rollback` |

Choices a reader should know:

- A handler is one atomic step, the test excepted. `submit_review` and the
  generation of a diagnosis lock the incident row, `record_implementation` its
  action, the analysis an advisory lock; `mark_stale`, `review_diagnosis`,
  `record_controlled_retest` and `verify_fix` lock nothing, so an interleaving of
  these with a cascade is outside this module. The hazard stands in the list
  without a property.
- The second transaction of a failed test, retest or verification (the automatic
  rollback) is folded into the step, and succeeds or not nondeterministically
  (`restored`). A crash between the two is in `ControlledPatch`.
- `Analyse` is enabled only when there is a detection to analyse; a failed
  analysis rolls back and is a stuttering step. So are a forced second parse or
  detection, a repeated accept and a repeated idempotent request.
- `mark_stale` returns early when the incident has no ranked causes; an analysis
  is stored only together with ranked causes, so a current analysis is always
  reached.
- The single current analysis is a partial unique index in the code. The model
  does not assume it: `CurrentAnalyses` is a set and `OneCurrentBranch` checks it.
- `requires_revalidation` and `derived_from_stale_analysis` are set exactly where
  `workflow_status` becomes `stale`, so one field stands for them.
- `accepted_with_edits` is folded into `accepted`, `generated` into
  `awaiting_human_review`. A retest's result is `clean`, `exposed` or, when the
  dimensions do not match, `incomparable`; the gate refuses the last one, so a
  verification is only ever passed or failed, and the five dimension matches an
  outcome needs for eligibility are those the retest already had.
- The completion time of a test is its rank among completions.
- `closed` is a status the gate guards against but no service sets.
- Rows of the legacy schema (without provenance) and their backfill, playbook counters,
  drafts and the audit log are left out; the patch proposal and the workspace file are
  in `ControlledPatch`. A patch has one implementation in the model, as the idempotency
  key makes it for one action.


### The other modules and the code

| Module | State | Actions |
|---|---|---|
| `ControlledPatch` | the `PatchProposal`, implementation, rollback and test rows; `request_logger.py` and its `.orig`; what each request has read and not yet committed; whether the application serves | approve, apply (check, write, commit or abort, or an interrupted write), test (start, finish), roll back (request, restore, refuse, commit, fail), and the faults of the world: an invalidation, an edit of the workspace, the death of the process, start-up recovery |
| `IntegrityLedger` | committed records and head, the advisory lock and the row locks, what each transaction has written | begin with the locks a handler will take, lock, append, verify, commit, abort, the database's deadlock abort; one loss or alteration of a record |
| `EventIntake` | the connector's deque and counters, threads, requests on the wire, event rows, grouped alerts | emit, flush, each step of a call, each step of the receiver, an outage, the group's window and a dismissal |
| `BreachResponse` | assessment, alert, decisions, containment actions, the requests in progress | each handler up to its commit, the commit, its failure |
| `CompanyVerification`, `Membership` | organisation and items; accounts, members, invitations, resets | requests as read, then finish or abandon; the operator's decisions |
| `CustomerNotice` | the notification, its outbox, what was delivered | draft, decisions read and committed, the outbox's take, send, skip, commit; a crash |
| `CauseAssessment` | linked, parsed and detected files, the stored ranking, the studies | link, parse, detect, analyse, a counterfactual run |
| `ExposureProfiles` | classified rows, profiles, linked alerts, loaded rules, the incident's and the ledger's lock | classify, link, recalculate (read, commit, abort), a live event, a review, a deployment of rules |
| `EvidenceFiles` | rows, files on disk, events, detections, requests in progress | upload, sample load, write, insert, commit, give up, the three commits of a parse, detect, a crash |
| `SchemaHistory` | the objects in the database, its revision and its origin | upgrade by one or to head, downgrade by one |
| `InvestigationView`, `WorkflowScreen` | none of their own | none: operators over `GovernedChain`, for every value of the counts that are not part of the chain |

A request that reads, and writes later, is two steps wherever the code takes no
lock between them; where it takes one, the lock is part of the state. The schema
modules were compared with a simulation of the migration files: the objects after
every revision, up and down, are the same.

## 3. Runs

Deadlock checking is off in every run: the bounds on rows and requests stop the
system, and so does the real system when nobody sends a request.

| Run | Question | Instance |
|---|---|---|
| `governed_chain` | Do the cascade and the gates hold the chain together while evidence, analyses, reviews and diagnoses come and go around one sandbox patch? Can second attempts leave an eligible case or a fixed incident without the exact chain that proves it? Does the chain implement `CertifiedFixes`? | two parts, below |
| `evidence_reports` | Is everything made of evidence true: snapshot, read models, exposure profiles, the files themselves? | four parts, below |
| `services` | Do intake, verification, members, and notifications keep their promises under overlapping requests, and the controlled patch under crashes and foreign edits? | six parts, below |
| `assurance` | Do ledger, breach response, decisions, cause assessment and schema? | five parts, below |
| `rolled_back_exemplar`, `stale_events`, `interrupted_apply`, `lost_in_flush`, `breach_suppression`, `last_admin`, `retest_counts`, `schema_keys` | The findings: each checks what a document or docstring says and is violated. | the smallest that shows it |

Parts of `governed_chain`: `chain` (one file that is linked, parsed and detected,
reviews that approve or escalate, manual changes of an action, two analyses, reviews
and diagnoses, one action, implementation, test and retest) and `rework` (one alert,
reviews that approve or reject, two rows of every table). Every property of the run
is checked of both.

Parts of `evidence_reports`: `evidence` (two interchangeable alerts, a record, a
file, two reviews, manual changes), `reports` (two analyses, three reviews, two
overlapping tests, two retests, one controlled patch; reviews approve, reject as a
false positive or ask for evidence), `exposure` (two workers, one alert, two
categories, two versions of the rules, two occurrences, two deployments, one
review), `files` (two workers, two samples, one upload, four requests, one crash).

Parts of `services`: `intake` (two events of one group, queue of one, two flushes,
two receiver slots, one outage), `refusals` (an event beside one the receiver
refuses and one the local scan drops), `verification` (one request at a time, six
requests, three rulings of the operator), `members` (two requests at a time, two
tokens, three requests), `notices` (two staff requests at a time, two runs of the
outbox, two channels, two attempts, one crash), `patch` (one request at a time, two
tests, two crashes, two foreign edits).

Parts of `assurance`: `ledger` (two transactions, two items, one locked row, one
loss or alteration), `breach` (two requests on one alert and its containment, three
evaluations, one reopening), `decisions` (two requests, three decisions, two
evaluations), `causes` (three causes over four files), `schema` (all 37 revisions,
up by one or to head, down by one, from an empty database or an original one).

### What the properties say

The chain (`GovernedChain`):

- `TypeOK`: rows of their own shape, and an incident status the enum has.
- `ExactChains`: every reference a row stores leads to a row, and every row repeats
  the references of the row it hangs from: an action those of its diagnosis, a
  descendant the action's own chain and the change and test of its parent.
- `NoCurrentUnderStale`: once an analysis is stale, nothing that descends from it
  is current, valid for progression or eligible.
- `ImplementedOnlyIfAccepted`: a change has an accepted diagnosis, for ever.
- `OneCurrentBranch`: one current analysis; one current diagnosis per branch.
- `ExemplarIsProven`: a case that ranks remediations rests on one exact chain, and
  each of its rows is current: outcome, verification, retest, test, implementation,
  action, diagnosis, the review's progression and the analysis.
- `FixedIsProven`: the incident reads fixed only while its last verification
  passed and no later analysis or review was made.
- `SnapshotCoversFindings`: a current analysis was computed from all findings.
- `NeverRevived` (a step property, as the next two): no handler revives a retired
  row, restores eligibility or undoes a rollback, and what a row refers to and
  recorded never changes: its references, an analysis's snapshot, a review's decision,
  the verdicts. Exempt are the columns a handler may change, such as an action's
  status.
- `RefusedForGood`: what the gate refuses stays refused.
- `OnlyUnderPermission`: each new row hangs from the very review in force, the newest
  of the current analysis, and what descends from an action is created while that
  action and its diagnosis are current under it.
- `ImplementsCertifiedFixes`: the chain, seen through the mapping of
  `CertifiedChain`, is a behaviour of `CertifiedFixes!Spec`.

Its readers (`InvestigationView`, `WorkflowScreen`):

- `ReadyIsProven`: what readiness calls ready is a proven fix or a reviewed false
  positive.
- `ReadyMatches` = `ScreenAgrees` (what the stages call complete, the report's
  chain holds) and `ReadyMatchesStatus` (readiness and the incident's status).
- `NextActionLeadsOn`: the next action leads to the stage that is current, and to
  the report exactly when there is one, except where the code leaves it open (the
  exceptions are listed at the property).
- `ScreensTellOneChain`: screen, panel and report tell of one chain.

Evidence: `ProfilesSettle` = `ProfilesMatchRows` and `SupersessionEnds`;
`CombinedTogether`; `FilesKept`, `StatusTellsEvents`, `FoundOnce`. Services:
`GroupedOnce` = `CountedOnce` and `OneOpenAlert`; `CallsEnd`;
`VerifiedRightly` = `SuspensionHolds` and `EarnedOrDecided`; `OneTimeTokens`;
`SentAsDecided` = `RejectedReachesNobody` and `DeliveredOnce`; `FailureKeepsMark` and
`StartupAnswers` of the patch. Assurance: `ChainIsHistory`, `VerdictIsTrue`,
`LogSpec`, `RequestsEnd` of the ledger; `BreachRecordsTrue` = `OneDecisionChain`
and `EveryOccurrenceCounted`; `ClosedUntilReopened`; `MinimalSetIsEnough`;
`HeadServes` = `HeadReachable` and `HeadServesModels`; `UpgradesOnlyAdd`. Each is
stated in words at its definition.

### Bounds

Two of a table is what a confusion of an old row with a new one takes; three
reviews is what approve, reject, approve takes; one sandbox patch is enough where
the question is how the rows under it fall. Verifications, outcomes and cases are
bounded by the retests. Two requests is what a race takes; two crashes, a crash
during the recovery from one; one queue place, a queue at its limit. Every property
has a faulty variant of the code (the definitions marked `Fault:`) under which TLC
finds it violated in the same run: the interesting case is within the bounds.

Some instances have one request at a time although the code serialises nothing, and
what is claimed of them is chosen accordingly:

- The patch has one request at a time, beside deaths of the process, start-up
  recovery and edits of the file. Its two properties are about those: a failure and
  the mark it leaves, and the recovery's answer. Nothing is claimed of requests that
  overlap. They read the row, and write later: with two, TLC refutes that patch and
  implementation agree, and a rollback can restore the file between another request's
  check and its use of it.
- The company has one administrator request at a time, beside the operator's rulings.
  With two checks TLC refutes `EarnedOrDecided`: the second writes what it computed
  from items the first has changed. What holds of any number is proved (section 4).
- The intake has one thread of the host in both parts, for the liveness of a call.
  `GroupedOnce` is proved for any number.
- `RejectedReachesNobody` of the notification excepts what two staff requests decided
  at once (an approval and a rejection that read the same draft), and is refuted
  without the exception.

### Fairness

- `GovernedChain` and its readers: none. Every step is a client's request.
- `ControlledPatch`: weak fairness of start-up, of serving and of a rollback that
  runs. A supervisor restarts the process and a request that began runs on. Nobody
  is obliged to send one, to edit the workspace or to kill the process.
- `IntegrityLedger`: strong fairness of a transaction's next statement (it may wait
  for a lock again and again) and weak fairness of the database's deadlock abort.
- `EventIntake`: weak fairness of a host thread in a call, because the host
  schedules it and `urlopen` has a timeout. Nothing is assumed of the receiver.

### Findings

- `controlled_rollback_service.py:95` says rolled-back attempts are "never success
  exemplars". A reviewer may roll a patch back after its fix was verified; the
  implementation becomes `rolled_back` and a penalty case is added, and the earlier
  outcome and case stay current and eligible (`rolled_back_exemplar`).
- `causality_engine.py:1033-1034` and `:964-966` say `mark_stale` is invoked
  whenever evidence is added to an analysed incident, and that the snapshot hash
  covers events. `parse_evidence` adds the events of a linked file without it
  (`stale_events`). Detection on that file later does mark the analysis stale.
- `docs/CONTROLLED_WORKSPACE_MODEL.md:15` says an interrupted apply is marked for
  recovery. The mark is written when an exception is raised, not when the process
  dies (`interrupted_apply`).
- `docs/CONNECTOR_FRAMEWORK.md:77` says failed sends are stored in the queue, and
  `client.py:4` that failures never raise into the host. When the receiver dies with a
  request pending, `getresponse` raises `RemoteDisconnected` or
  `ConnectionResetError`, which `_post` does not catch. `emit` does, and counts the
  event without storing it; `flush` has already cleared the queue, and ends with the
  exception: the event in hand and the rest are neither stored nor counted
  (`lost_in_flush`, with one thread). With two threads an event appended between the
  copy of the queue and its clearing is lost too.
- `docs/ALERT_OPERATIONS.md:21` says critical credential alerts require a
  time-bounded suppression; an alert suppressed before it became critical keeps its
  open-ended one (`breach_suppression`).
- `docs/ORGANISATION_DEPLOYMENT.md:41` says the last administrator cannot demote
  itself; by assigning itself as an unassigned user it can (`last_admin`).
- `root_cause_evidence_strength_service.py:8-14` says retest evidence is never read
  by the strength; the counts of events and detections include it (`retest_counts`).
- `alembic/env.py:95` takes the foreign keys out of the initial tables; 23 of them
  are added back by no revision (`schema_keys`).

### Remarks met while modelling

These follow from the models or from reading, and no run is about them.

- Evidence files: two loads of the sample scenario at once let the loser unlink the
  winner's file (`FilesKept` excepts it); a forced parse of a file whose event has a
  classified value always fails (a restricting foreign key, revision 017) and leaves
  the file `failed`; a crash after the first commit of a parse leaves `parsing`,
  which `parse_all` never takes up; overlapping parses end `failed` over stored
  events, overlapping detections and a detection after a forced parse store a
  detection twice. Those cases are excepted in `StatusTellsEvents` and `FoundOnce`
  by the ids two requests handled at once.
- Exposure profiles: `docs/EXPOSURE_PROFILES.md:7` combines values of one event;
  a recurrence moves all rows of its alert to the newest event. A recurrence of a
  linked alert recalculates nothing. A row that a live event writes for an alert
  already linked keeps an empty `incident_id` (`live_monitor_service.py:463`), and no
  profile of the incident ever counts it. A second alert that sees a value already known
  gets no row. Import and link take incident and ledger locks in opposite orders;
  the database breaks the deadlock.
- Screen: the next action can lead to a stage that is closed; retest evidence files
  are asked for although the controlled retest passed; `current_stage` is
  `final_report` by default; the panel takes the latest rollback of the incident,
  whatever it belongs to, and calls a change resolved by the verification it passed
  although a later verification failed, of an older test or of another change that
  came to the front after a rollback (the exceptions in `PhasesAgree`).
- Readiness: a ready and approved incident need not be `fixed` when two tests
  overlapped (excepted in `ReadyMatchesStatus`); the screen offers a final report
  for a rejected cause, readiness does not.
- Cause assessment: the greedy search need not keep the decisive file; strength 0
  falls back to the confidence of the candidate; the bands leave 0.44–0.45 and
  0.74–0.75 to `low`; a study's fingerprint ignores the evidence of other causes.
- Schema: revisions 025, 027 and 028 have an empty downgrade; after one past 028 or
  past 001 head cannot be reached again.

## 4. Proofs

The theorems hold for every value of the constants, under the assumptions named in the
modules: in `GovernedChain` the three sources are disjoint (`DisjointSources`; they are
different tables), inputs are of the known kinds (`Inputs`) and bounds are natural
numbers (`Bounds`); in `IntegrityLedger` the ledger is not a row (`LedgerIsNoRow`) and
plans are sequences of locks (`PlansAreLocks`). A theorem on another service has what it
needs of the constants as its hypothesis, said below with the service. A bound on
requests, rows or crashes is never a hypothesis: it holds whatever the bound is.

### The chain, first invariant (`GovernedChainInvariant`)

- `Invariance`: `Spec => []IInv`, where
  `IInv == TypeOK /\ ExactChains /\ NoCurrentUnderStale`; `TypeCorrect`,
  `ChainsExact`, `StaleCascade` are its parts; `RetiredForGood` is `NeverRevived`.

`NoCurrentUnderStale` is not inductive alone, because the cascade does not look for
"rows under this analysis": it retires implementations by action, retests by
implementation and verifications by retest. That the rows so reached are those whose own
chain names the analysis is `ExactChains`, which is inductive with the types because no
reference is ever rebound (the same fact that gives `NeverRevived`); the lemma
`CascadeReachesAll` says that under `ExactChains` every row that hangs from an analysis
in the set is in the corresponding `...Under` set, and `CascadeStep` that a step made of
the cascade and the closing of the same analyses keeps the invariant. `RetireKeeps` and
`SupersededKeeps` say what retiring leaves alone. A governed step (`GovernedStep`)
appends rows whose chain is on a current analysis, by the gate. Late verdicts and
rollbacks change neither a `workflow_status` nor a reference.

### The chain, second invariant (`GovernedChainLineage`)

`LInv` adds four parts to `IInv`, each of which a later theorem cannot do without:

- `InOrder`: only the newest analysis is ever current, and reviews follow the
  analyses. So the newest review of the current analysis is the newest review, and
  a gate that refuses a row will refuse it for good.
- `Lineage`: what each row was made from, and that this is never taken back: an
  approval cannot change, an acceptance stays, a passed test stays passed.
- `Standing`: an eligible outcome stands on a passed verification, a retest, a test, an
  implementation, an action and a diagnosis that are all current; an eligible case on an
  eligible outcome. A case alone could outlive its outcome between two cascades; this
  says that the cascade takes both.
- `OneDiagnosis`: one current diagnosis per analysis and review.

Each handler is shown to be "founded": the fields of old rows that lineage reads are
kept (`FieldsKept`), new rows have what lineage asks (`NewRowsFounded`), and what is
still eligible still stands (`StillStanding`): whatever retires a test, a retest, an
action or a diagnosis withdraws the outcomes above it in the same step. From that the
three conjuncts follow once for all handlers (`LineageStep`, `StandingStep`,
`OneDiagnosisStep`); `InOrder` has a proof of its own, since it is about the two tables
that head the chain.

- `ExemplarsProven` (`ExemplarIsProven`), `ChangesAccepted`
  (`ImplementedOnlyIfAccepted`), `BranchesSingle` (`OneCurrentBranch`) follow from
  `LInv`.
- `FixedProven` (`FixedIsProven`) needs besides that a fixed incident has a
  verification at all.
- `SnapshotCovers` (`SnapshotCoversFindings`) is inductive with the types.
- `RefusalsFinal` (`RefusedForGood`) from `InOrder` and what founded steps keep;
  `CreatedUnderPermission` (`OnlyUnderPermission`) handler by handler: the gate's facts
  name the review in force, and what the handler inserts carries them.

### The refinement (`CertifiedFixesProofs`, `CertifiedChainProofs`)

`CertificatesOnBasis` and `CertificatesNotReissued` are the two promises of
`CertifiedFixes`, from the invariant that a basis in force is the newest one and
certificates exist only for it. `ChainImplementsCertified` shows the mapping step by
step: `mark_stale` is `Withdraw` (lemma `CascadeWithdraws`: the cascade takes
exactly the certificates), an analysis `Rebase`, a review `Decide`, a new diagnosis
`Retry`, a verification `Verify`, and every other handler a stutter, the penalty
case of a rollback included. So the promises carry over to the chain:
`CasesOnBasis` and `CasesNotReinstated` are the abstract theorems, instantiated.

### The readers of the chain (`WorkflowScreenProofs`)

The workflow facts are gathered by one query for the action and two others for
implementation and test. `FactsFitTogether` shows that under `LInv` they are rows of
one chain all the same. With the invariant `Verdicts` (a verification names the rows
of its retest; a current passed outcome is eligible) follow `ReadyProven`
(`ReadyIsProven`) and `ScreenTruthful` (`ScreenAgrees`, the first conjunct of the
run property `ReadyMatches`).

`NextActionLeads` (`NextActionLeadsOn`) is about the thirteen offers of the screen and
its six stages. Both are first-match searches, so the lemmas first say what the
first match is (`FirstIsLeast`, `StageFirst`, `NextActionFirst`: which offer is made,
and what then holds of the situation). Over any record of flags the statement is
false; it holds because the flags of the chain are `Consistent` (`SituationHolds`):
under an analysis there is evidence, under a valid review an analysis, under an
approval a permission, and a report is ready when they say so. That evidence stays
under an analysis is an invariant of its own (`AnalysedOnFindings`): an incident
analysed has findings, and no handler takes a finding away.

`ReadinessTold` (`ReadyMatches`) and `ScreensTold` (`ScreensTellOneChain`) relate what
four pieces of code report of one branch: the readiness check, the screen, the panel
and the incident's status. Each finds "the" test, retest and verification by a query
of its own, and with several implementations, tests and retests under one diagnosis
nothing in `LInv` says they find the same. `BranchInv` adds what a branch is while its
diagnosis is current: all its rows are current (`WholeBranch`: they are retired with
the diagnosis and never without it); a diagnosis is accepted once, a test retested
once, a retest verified once, and a verification comes with its outcome (`UsedOnce`);
a verification that stands is followed only by ones of the same chain, of a change that
is not older while the first one is in place (`LaterFixes`), which is why the exceptions
in `PhasesAgree` are all there are; and the incident's
status is the verdict of the last verification unless something above it was redone
since (`StatusTold`). Both theorems hold for any number of implementations, tests
and retests, where the run has one implementation.

### The services (`ServicesProofs`)

The controlled patch has no theorem: what it keeps when requests overlap is too little
to state, and with one request at a time TLC covers it.

Notifications: `NoticesSentAsDecided` (`SentAsDecided`), for any number of staff
requests, runs of the outbox, channels, attempts and crashes. `NoticeInv`: rows of
their shape; the rows a run holds are due and no other run holds them (`RowsHeld`:
`SKIP LOCKED`); what the provider accepted is in the row, in the hands of a run or
lost in a crash (`Delivery`), which is why a message can go out once more per crash and
not otherwise; and, while no two staff requests overlapped, each holds a notification
that still is as it read it (`Orderly`). The proof is what showed that the module had
given staff one request at a time; it now has any number, with the unique index that
refuses a second queueing of a channel.

Members: `TokensWorkOnce` (`OneTimeTokens`), for any number of requests, users and
tokens, the founder being a user. `TokenInv`: a token a request holds is open, unused
and in no other's hands (`InHands`; its row is locked from the read to the commit),
and a reset that is not consumed has not been used (`Unspent`).

Company: `CompanyVerifiedOnSight`, for any number of items, rulings and overlapping
administrator requests. A suspension ends only by the operator's decision
(`SuspensionHolds`), and a company becomes verified only by the operator or by a request
in whose own reading of the company, with the check it adds, every item is verified
(`VerifiedOnSight`). That the items are verified in the database too (`EarnedOrDecided`)
is what two overlapping checks break; the run has one at a time. `CompanyInv`: a request
under way has read an active company.

Intake: `EventsGroupedOnce` (`GroupedOnce`), for any number of threads, events, groups,
receiver slots, alerts and outages. The hypotheses `IntakeConstants`: every event has a
group, the queue has a place (`max(1, queue_max)` in the client), `None` is no thread.
`IntakeInv`: a thread that waits does so on one request that carries its event
(`Waited`); the request that groups is alone, and where it is about to create an alert
there is no open one in the window, unless one was dismissed (`Claimed`). That no row is
stamped later than the clock (`Stamped`) is needed besides. That the counts of a group's
alerts add up to its events takes `Counted`: a request that is about to repeat an alert
repeats one of its event's group. The sum is a recursive function over the alerts, and
what it computes is proved without an induction theorem: partial sums exist by the least
length without them (`SumsExist`), whatever gives them gives the sum (`TotalIsLast`), so
a new alert or a raised count adds one (`TotalsGrow`).

### Evidence (`EvidenceProofs`)

Profiles: `ProfilesAreSettled` (`ProfilesSettle`) and `ValuesCameTogether`
(`CombinedTogether`), for any number of requests, alerts, categories, occurrences,
deployments and reviews. The hypotheses `ExposureInputs`: the taxonomy and each version
of the rules are finite, and `None` is no worker, alert or kind of request.
`ExposureInv`: who has read the rows holds the incident and who wrote some holds the
ledger, and an alert is linked by one request (`Exclusive`); rows of one group came
together, uncommitted ones included, and later groups have later numbers (`InGroups`);
the candidates a request has read are those its commit calls for, unless something
changed since and was counted (`Gathered`); and what a profile combines came together
(`Combined`). A commit that holds the incident alone finds no other between its read and
its write, which is what makes `ProfilesMatchRows` inductive; a live event does come
between, and either it leaves the incident's rows as they are (`CandidatesSame`) or it
counts as a change. That pointers end is `Succession`: each profile has a way along the
pointers that meets none twice. A recalculation cuts a way at its first profile that is
current again, or lengthens it by the profile that takes over (`RecalculationSucceeds`),
and a way that meets none twice is no longer than there are profiles.

Files: `FilesAreKept` (`FilesKept`), `StatusIsTrue` (`StatusTellsEvents`) and
`ValuesFoundOnce` (`FoundOnce`), for any number of requests, samples, uploads and
crashes. The hypotheses `FileInputs`: a row is not `None`, the manifest lists ids, each
of which has a content. `FilesInv`: a registration has written its file, unless
another of the same id took it away, and only one commits an id (`Registering`); what
was never committed nobody parses or searches (`Unregistered`); a file on which no
requests overlapped has one request that handles it, which knows its status and what
was found (`Alone`); and what the status tells holds while the request is at work and
when it dies (`Told`).

### The ledger, the response to a breach, counterfactual studies (`AssuranceProofs`)

`LedgerInv` is `Shapes`, `OneWriter` (who holds the ledger's lock is the only one with
uncommitted records), `Committed` (the records are the head's history), `Sessions` (what
the lock's holder has added lies in its own history, after the committed one) and
`Accounted` (nothing is missing but what was lost). From it `LedgerTypes`,
`ChainTellsHistory` (`ChainIsHistory`), `NumbersAreUnique`, `VerificationIsTrue`
(`VerdictIsTrue`), and `LedgerImplementsLog` (`LogSpec`): every step is an append to the
log or a stutter, for any number of requests and any lock orders.

`BreachRecords` (`BreachRecordsTrue`) and `ClosedStays` (`ClosedUntilReopened`) hold for
any number of requests, evaluations, versions and actions, where decisions are numbered
and an alert is muted for a time or for good (`BreachInputs`). `BreachInv`: whoever
raises the alert holds its row as it is (`AlertHeld`); the decisions are one line with
one end, the largest version (`Line`); and a request about to write a decision holds
what it read of it (`HeldDecisions`).

`MinimalSetsAreEnough` (`MinimalSetIsEnough`) holds for any rules, penalties, files and
limits, where files are numbered and signals are of the five kinds (`CaseConstants`):
the run has one rule set and four files. The search changes what it leaves out turn by
turn, and its invariant is that the cause is still first without that
(`GreedyKeepsFirst`: at the first turn after which it were not, the turn would have left
out nothing). That the search ends takes a finite set of tested files, so the proof goes
through what can stand behind a signal (`BackingIsRead`, `TestedAreFiles`). Neither the
score nor the ranking is looked into: the claim does not depend on them.

### Only model-checked

- Liveness under fairness: `StartupAnswers`, `CallsEnd`, `RequestsEnd`.
- The controlled patch (`FailureKeepsMark`), and of the company `EarnedOrDecided`.
- What scores, ranks and strengths are: sums over signals and files by the folds of the
  library, which take an operator as a parameter. `OneSourceNeverHigh` is about them.
- The schema (`HeadServes`, `UpgradesOnlyAdd`): the properties are about one concrete
  history of 37 revisions, so TLC's answer is complete for them.
- With two implementations, three tests and three retests the chain's readers were
  checked too (1,778,822 states, apart from the run), before they were proved.
- Stated in the modules, in no run: `OnePendingInvitation`, `OneSourceNeverHigh`
  and the type invariants of the parts of the compositions
  (each held when checked on the module alone).

## 5. Not modelled

Detection content, masking and taxonomy (pure functions on text), routers and request
schemas, the frontend, evaluation and scripts, the AI provider, session tokens and
login, SIEM field mapping, alert assignment and escalation, preventive controls, drafts,
playbook counters, timeline, exports and the text of a report. `PROJECT.json` lists them
with their reasons. Two hazards of the core have no property. Requests on one patch
overlap unserialised (section 3). And `mark_stale` takes no lock, so a handler that
passed the gate before it and commits after it inserts a current row under a stale
analysis. `GovernedChain` runs a handler as one step; splitting every governed handler
there multiplies its states beyond a run.

## 6. Plan

1. A module of one governed handler split at its gate and its commit beside
   `mark_stale`, small enough to be checked, for the hazard above.
2. Controlled patch: what still holds of overlapping requests on one patch, stated and
   checked with two.
3. Learning: playbook counters and the ranking by similarity.
