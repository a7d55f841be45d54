------------------------------ MODULE SchemaModels ------------------------------
(***************************************************************************)
(* What the mapped classes of backend/app/models declare: the tables, the  *)
(* groups of columns that a revision added to a table after the table was  *)
(* created, the foreign keys and the unique indexes over such columns.     *)
(*                                                                         *)
(* A schema is a set of objects, each of which a database has or has not:  *)
(*   <<"table", t>>              table t with the columns it was born with *)
(*   <<"columns", t, r>>         the columns revision r added to t         *)
(*   <<"key", t, c, u, r>>       the foreign key of t.c to table u that    *)
(*                               revision r named, or "" when the          *)
(*                               declaration left the name to the database *)
(*   <<"unique", t, c, r>>       the unique index of t over columns c      *)
(* The columns a revision adds to one table are guarded, added and dropped *)
(* together, so they are one object.  A plain index goes with its columns. *)
(***************************************************************************)
\* Foreign keys from these columns to one table.
To(target, cols) == {<<c, target>> : c \in cols}

Keys(t, refs, name) == {<<"key", t, ref[1], ref[2], name>> : ref \in refs}

\* A table created with its foreign keys; columns added to it later, with theirs.
Table(t, refs) == {<<"table", t>>} \cup Keys(t, refs, "")

Columns(t, revisions, refs) == {<<"columns", t, r>> : r \in revisions} \cup Keys(t, refs, "")

Unique(t, cols, name) == {<<"unique", t, cols, name>>}

-----------------------------------------------------------------------------
AccessEvent ==
    Table("access_events", To("evidence_files", {"evidence_id"}))

AffectedSubjectReference ==
    Table("affected_subject_references", To("incidents", {"incident_id"}))
    \cup Columns("affected_subject_references", {"017"}, {})

AIRemediationSuggestion ==
    Table("ai_remediation_suggestions",
        To("incidents", {"incident_id"}) \cup To("users", {"requested_by_user_id"}))

AuditLog ==
    Table("audit_logs", To("users", {"actor_id"}))
    \cup Columns("audit_logs", {"007", "033"}, To("organisations", {"organisation_id"}))

BreachAlert ==
    Table("breach_alerts",
        To("incidents", {"incident_id"})
        \cup To("privacy_impact_assessments", {"assessment_id"})
        \cup To("users", {"acknowledged_by", "resolved_by"}))
    \cup Columns("breach_alerts", {"016", "018"},
             To("users", {"assigned_user_id", "escalated_by", "reopened_by", "suppressed_by"}))

BreachAlertEvidenceLink ==
    Table("breach_alert_evidence_links",
        To("breach_alerts", {"alert_id"}) \cup To("evidence_files", {"evidence_id"}))

BreachDecisionRecord ==
    Table("breach_decision_records",
        To("breach_decision_records", {"superseded_by_record_id", "supersedes_record_id"})
        \cup To("incidents", {"incident_id"})
        \cup To("privacy_impact_assessments", {"assessment_id"})
        \cup To("users", {"approved_by", "created_by", "reviewed_by"}))
    \cup Columns("breach_decision_records", {"017"}, {})

BreachDecisionFactor ==
    Table("breach_decision_factors", To("breach_decision_records", {"decision_record_id"}))

CicdEvidence ==
    Table("cicd_evidence", To("incidents", {"linked_incident_id"}))

ContainmentAction ==
    Table("containment_actions",
        To("affected_subject_references", {"affected_subject_reference_id"})
        \cup To("incidents", {"incident_id"}) \cup To("users", {"approved_by", "executed_by"}))

CounterfactualAnalysis ==
    Table("counterfactual_analyses",
        To("incidents", {"incident_id"}) \cup To("root_cause_scores", {"root_cause_id"})
        \cup To("users", {"created_by"}))
    \cup Columns("counterfactual_analyses", {"018"}, {})

CounterfactualTestResult ==
    Table("counterfactual_test_results", To("counterfactual_analyses", {"analysis_id"}))

CustomerNotificationDecision ==
    Table("customer_notification_decisions",
        To("affected_subject_references", {"affected_subject_reference_id"})
        \cup To("incidents", {"incident_id"})
        \cup To("privacy_impact_assessments", {"assessment_id"})
        \cup To("users", {"approved_by", "created_by", "rejected_by"}))

NotificationOutbox ==
    Table("notification_outbox", To("customer_notification_decisions", {"notification_id"}))

DeliveryAttempt ==
    Table("delivery_attempts", To("notification_outbox", {"outbox_id"}))

DependencyRisk ==
    Table("dependency_risks", To("evidence_files", {"evidence_id"}))

DeploymentEvent ==
    Table("deployment_events", To("evidence_files", {"evidence_id"}))

Detection ==
    Table("detections",
        To("evidence_files", {"evidence_id"}) \cup To("incidents", {"incident_id"}))
    \cup Columns("detections", {"002"}, To("normalized_events", {"normalized_event_id"}))

EvaluationMetric ==
    Table("evaluation_metrics", {})
    \cup Columns("evaluation_metrics", {"005"}, {})

EvidenceFile ==
    Table("evidence_files",
        To("incidents", {"linked_incident_id"}) \cup To("users", {"uploaded_by"}))
    \cup Columns("evidence_files", {"007"}, {})

EvidenceProvenance ==
    Table("evidence_provenance", To("evidence_files", {"evidence_id", "parent_evidence_id"}))

ProvenanceRelationship ==
    Table("provenance_relationships", To("users", {"created_by"}))

ExposureProfile ==
    Table("exposure_profiles",
        To("affected_subject_references", {"affected_subject_reference_id"})
        \cup To("exposure_profiles", {"superseded_by_profile_id"})
        \cup To("incidents", {"incident_id"}) \cup To("users", {"reviewed_by"}))
    \cup Columns("exposure_profiles", {"018"}, {})
    \cup Unique("exposure_profiles", "incident_id, rule_id, grouping_method, grouping_key", "018")

ExposureProfileFactor ==
    Table("exposure_profile_factors",
        To("detections", {"detection_id"})
        \cup To("exposure_profiles", {"exposure_profile_id"})
        \cup To("sensitive_data_classifications", {"classification_id"}))

FixVerification ==
    Table("fix_verifications", To("incidents", {"incident_id"}))
    \cup Columns("fix_verifications", {"028"},
             To("controlled_retests", {"controlled_retest_id"})
             \cup To("remediation_actions", {"remediation_action_id"})
             \cup To("remediation_diagnoses", {"remediation_diagnosis_id"})
             \cup To("remediation_implementation_records", {"implementation_id"})
             \cup To("remediation_test_executions", {"test_execution_id"})
             \cup To("review_decisions", {"review_decision_id"})
             \cup To("root_cause_analyses", {"root_cause_analysis_id"}))
    \cup Unique("fix_verifications", "controlled_retest_id", "")

Incident ==
    Table("incidents", {})
    \cup Columns("incidents", {"033"}, To("organisations", {"organisation_id"}))

IntegrationEvent ==
    Table("integration_events", {})
    \cup Columns("integration_events", {"029", "037"}, {})
    \cup Unique("integration_events", "source_name, client_event_id", "037")

IntegrationToken ==
    Table("integration_tokens", To("users", {"created_by_user_id"}))
    \cup Columns("integration_tokens", {"033"}, To("organisations", {"organisation_id"}))

IntegrityLedgerHead ==
    Table("integrity_ledger_head", {})

IntegrityLedgerRecord ==
    Table("integrity_ledger_records", {})

IntegrityVerificationRun ==
    Table("integrity_verification_runs", To("users", {"executed_by"}))
    \cup Columns("integrity_verification_runs", {"018", "020"},
             To("privacy_alerts", {"integrity_alert_id"}))

LiveMonitorRuntimeState ==
    Table("live_monitor_runtime_state", {})

LlmReport ==
    Table("llm_reports", To("incidents", {"incident_id"}))
    \cup Columns("llm_reports", {"007"}, {})

NormalizedEvent ==
    Table("normalized_events",
        To("evidence_files", {"evidence_id"}) \cup To("incidents", {"linked_incident_id"}))
    \cup Columns("normalized_events", {"021", "025", "029"}, {})

Organisation ==
    Table("organisations", {})
    \cup Columns("organisations", {"034", "035"}, To("users", {"verified_by"}))

OrganisationMembership ==
    Table("organisation_memberships",
        To("organisations", {"organisation_id"}) \cup To("users", {"approved_by", "user_id"}))

OrganisationInvitation ==
    Table("organisation_invitations",
        To("organisations", {"organisation_id"}) \cup To("users", {"invited_by"}))

DeploymentSetup ==
    Table("deployment_setup",
        To("organisations", {"organisation_id"}) \cup To("users", {"completed_by_user_id"}))
    \cup Columns("deployment_setup", {"035"}, {})

OrganisationDomainChallenge ==
    Table("organisation_domain_challenges", To("organisations", {"organisation_id"}))

OrganisationEmailVerification ==
    Table("organisation_email_verifications",
        To("organisations", {"organisation_id"}) \cup To("users", {"user_id"}))

OrganisationManualReview ==
    Table("organisation_manual_reviews",
        To("organisations", {"organisation_id"})
        \cup To("users", {"requested_by", "reviewer_id"}))
    \cup Columns("organisation_manual_reviews", {"035"}, {})

PasswordResetToken ==
    Table("password_reset_tokens", To("users", {"user_id"}))

PreventiveControl ==
    Table("preventive_controls",
        To("breach_decision_records", {"decision_record_id"})
        \cup To("incidents", {"incident_id"})
        \cup To("preventive_controls", {"supersedes_control_id"})
        \cup To("remediation_actions", {"remediation_action_id"})
        \cup To("root_cause_scores", {"root_cause_id"})
        \cup To("users", {"approved_by", "created_by", "implemented_by", "retired_by",
            "reviewed_by", "verified_by"}))

PreventiveControlEvidenceLink ==
    Table("preventive_control_evidence_links",
        To("evidence_files", {"evidence_id"}) \cup To("preventive_controls", {"control_id"}))

PrivacyAlert ==
    Table("privacy_alerts",
        To("evidence_files", {"evidence_id"}) \cup To("incidents", {"linked_incident_id"}))
    \cup Columns("privacy_alerts", {"012", "018", "021", "026", "029"}, {})
    \cup Unique("privacy_alerts", "integrity_failure_fingerprint", "018")

PrivacyImpactAssessment ==
    Table("privacy_impact_assessments",
        To("incidents", {"incident_id"})
        \cup To("users", {"approved_by", "created_by", "reviewed_by"}))
    \cup Columns("privacy_impact_assessments", {"017"}, {})

PrivacyImpactFactor ==
    Table("privacy_impact_factors", To("privacy_impact_assessments", {"assessment_id"}))
    \cup Columns("privacy_impact_factors", {"018"}, {})

PrivacyHarm ==
    Table("privacy_harms", To("privacy_impact_assessments", {"assessment_id"}))

RemediationAction ==
    Table("remediation_actions",
        To("incidents", {"incident_id"}) \cup To("users", {"created_by"}))
    \cup Columns("remediation_actions", {"025", "027", "036"},
             To("remediation_diagnoses", {"diagnosis_id"})
             \cup To("review_decisions", {"review_decision_id"})
             \cup To("root_cause_analyses", {"root_cause_analysis_id"})
             \cup To("users", {"approved_by"}))
    \cup Unique("remediation_actions", "diagnosis_id", "027")
    \cup Unique("remediation_actions", "idempotency_key", "")

RemediationDiagnosis ==
    Table("remediation_diagnoses",
        To("incidents", {"incident_id"})
        \cup To("root_cause_analyses", {"root_cause_analysis_id"})
        \cup To("users", {"created_by_user_id", "reviewed_by_user_id"}))
    \cup Columns("remediation_diagnoses", {"024", "025"},
             To("review_decisions", {"review_decision_id"}))
    \cup Unique("remediation_diagnoses", "incident_id, root_cause_analysis_id, review_decision_id", "032")

Report ==
    Table("reports", To("incidents", {"incident_id"}))
    \cup Columns("reports", {"007", "025", "030"},
             To("controlled_retests", {"controlled_retest_id"})
             \cup To("fix_verifications", {"fix_verification_id"})
             \cup To("patch_proposals", {"patch_proposal_id"})
             \cup To("remediation_actions", {"remediation_action_id"})
             \cup To("remediation_diagnoses", {"remediation_diagnosis_id"})
             \cup To("remediation_implementation_records", {"implementation_id"})
             \cup To("remediation_test_executions", {"test_execution_id"})
             \cup To("review_decisions", {"review_decision_id"})
             \cup To("root_cause_analyses", {"root_cause_analysis_id"})
             \cup To("verification_outcomes", {"verification_outcome_id"}))

ReviewDecision ==
    Table("review_decisions",
        To("incidents", {"incident_id"}) \cup To("users", {"reviewer_id"}))
    \cup Columns("review_decisions", {"013", "025"},
             To("root_cause_analyses", {"root_cause_analysis_id"}))

ReviewDraft ==
    Table("review_drafts",
        To("incidents", {"incident_id"}) \cup To("users", {"last_updated_by"}))

RollbackExecution ==
    Table("rollback_executions",
        To("incidents", {"incident_id"}) \cup To("patch_proposals", {"patch_proposal_id"})
        \cup To("remediation_implementation_records", {"implementation_id"}))

RootCauseAnalysis ==
    Table("root_cause_analyses", To("incidents", {"incident_id"}))
    \cup Unique("root_cause_analyses", "incident_id", "027")
    \cup Unique("root_cause_analyses", "incident_id, analysis_version", "027")

RootCauseScore ==
    Table("root_cause_scores", To("incidents", {"incident_id"}))
    \cup Columns("root_cause_scores", {"003", "009", "019", "022"}, {})
    \cup Unique("root_cause_scores", "root_cause_id", "")

SastFinding ==
    Table("sast_findings", To("evidence_files", {"evidence_id"}))

ScannerEvidenceRecord ==
    Table("scanner_evidence_records",
        To("evidence_files", {"import_evidence_id"})
        \cup To("incidents", {"linked_incident_id"}))

SecretFinding ==
    Table("secret_findings", To("evidence_files", {"evidence_id"}))

SensitiveDataClassification ==
    Table("sensitive_data_classifications",
        To("affected_subject_references", {"affected_subject_reference_id"})
        \cup To("detections", {"detection_id"}) \cup To("evidence_files", {"evidence_id"})
        \cup To("incidents", {"incident_id"})
        \cup To("normalized_events", {"normalized_event_id"})
        \cup To("privacy_alerts", {"privacy_alert_id"}) \cup To("users", {"reviewed_by"}))

User ==
    Table("users", {})
    \cup Columns("users", {"006", "007", "033", "034"}, {})

PatchProposal ==
    Table("patch_proposals", To("incidents", {"incident_id"}) \cup To("users", {"approved_by"}))
    \cup Columns("patch_proposals", {"025", "027"}, {})

VerifiedRemediationCase ==
    Table("verified_remediation_cases", To("incidents", {"incident_id"}))
    \cup Columns("verified_remediation_cases", {"025", "027", "036"}, {})

RemediationPlaybook ==
    Table("remediation_playbooks", {})

RemediationImplementationRecord ==
    Table("remediation_implementation_records",
        To("incidents", {"incident_id"}) \cup To("patch_proposals", {"patch_proposal_id"})
        \cup To("remediation_actions", {"remediation_action_id"})
        \cup To("remediation_diagnoses", {"diagnosis_id"})
        \cup To("review_decisions", {"review_decision_id"})
        \cup To("root_cause_analyses", {"root_cause_analysis_id"})
        \cup To("users", {"implemented_by_user_id"}))

RemediationTestExecution ==
    Table("remediation_test_executions", To("incidents", {"incident_id"}))
    \cup Columns("remediation_test_executions", {"027", "028"},
             To("remediation_implementation_records", {"implementation_id"}))

ExposureVerificationProfile ==
    Table("exposure_verification_profiles", To("incidents", {"incident_id"}))

VerificationOutcome ==
    Table("verification_outcomes", To("incidents", {"incident_id"}))
    \cup Columns("verification_outcomes", {"027", "028"},
             To("controlled_retests", {"controlled_retest_id"})
             \cup To("remediation_implementation_records", {"implementation_id"}))

ControlledRetest ==
    Table("controlled_retests",
        To("detections", {"original_finding_id"}) \cup To("incidents", {"incident_id"})
        \cup To("remediation_actions", {"remediation_action_id"})
        \cup To("remediation_diagnoses", {"diagnosis_id"})
        \cup To("remediation_implementation_records", {"implementation_id"})
        \cup To("remediation_test_executions", {"test_execution_id"})
        \cup To("review_decisions", {"review_decision_id"})
        \cup To("root_cause_analyses", {"root_cause_analysis_id"})
        \cup To("users", {"created_by_user_id"}))
    \cup Columns("controlled_retests", {"031"}, {})

AlertTraceReference ==
    Table("alert_trace_references", {})
    \cup Columns("alert_trace_references", {"029"}, {})

-----------------------------------------------------------------------------
(***************************************************************************)
(* Base.metadata once app.models is imported: one set of objects for each  *)
(* mapped class.                                                           *)
(***************************************************************************)
Models ==
    {AccessEvent, AffectedSubjectReference, AIRemediationSuggestion, AuditLog,
     BreachAlert, BreachAlertEvidenceLink, BreachDecisionRecord,
     BreachDecisionFactor, CicdEvidence, ContainmentAction,
     CounterfactualAnalysis, CounterfactualTestResult,
     CustomerNotificationDecision, NotificationOutbox, DeliveryAttempt,
     DependencyRisk, DeploymentEvent, Detection, EvaluationMetric,
     EvidenceFile, EvidenceProvenance, ProvenanceRelationship, ExposureProfile,
     ExposureProfileFactor, FixVerification, Incident, IntegrationEvent,
     IntegrationToken, IntegrityLedgerHead, IntegrityLedgerRecord,
     IntegrityVerificationRun, LiveMonitorRuntimeState, LlmReport,
     NormalizedEvent, Organisation, OrganisationMembership,
     OrganisationInvitation, DeploymentSetup, OrganisationDomainChallenge,
     OrganisationEmailVerification, OrganisationManualReview,
     PasswordResetToken, PreventiveControl, PreventiveControlEvidenceLink,
     PrivacyAlert, PrivacyImpactAssessment, PrivacyImpactFactor, PrivacyHarm,
     RemediationAction, RemediationDiagnosis, Report, ReviewDecision,
     ReviewDraft, RollbackExecution, RootCauseAnalysis, RootCauseScore,
     SastFinding, ScannerEvidenceRecord, SecretFinding,
     SensitiveDataClassification, User, PatchProposal, VerifiedRemediationCase,
     RemediationPlaybook, RemediationImplementationRecord,
     RemediationTestExecution, ExposureVerificationProfile,
     VerificationOutcome, ControlledRetest, AlertTraceReference}

\* Every object the classes declare.
Declared == UNION Models
=============================================================================
