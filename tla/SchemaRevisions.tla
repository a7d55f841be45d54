----------------------------- MODULE SchemaRevisions -----------------------------
(***************************************************************************)
(* The 37 revisions of backend/alembic/versions: what each upgrade and     *)
(* each downgrade asks of the database, in order.                          *)
(*                                                                         *)
(* A step works on bundles: the objects that one guard of the revision     *)
(* covers, a table with its foreign keys or a group of columns with what   *)
(* is nested under it.  "create" is a call without a guard: it fails when  *)
(* the object is there.  "ensure" looks first.  "drop" fails when the      *)
(* object is missing, "dropIfThere" looks first.  "relink" drops whatever  *)
(* foreign key a table has to incidents and adds the one named here.       *)
(* The statements that only rewrite rows are left out.                     *)
(***************************************************************************)
EXTENDS SchemaModels

Create(bundles)      == [does |-> "create", what |-> bundles]
Ensure(bundles)      == [does |-> "ensure", what |-> bundles]
Drop(bundles)        == [does |-> "drop", what |-> bundles]
DropIfThere(bundles) == [does |-> "dropIfThere", what |-> bundles]
Relink(tables, name) == [does |-> "relink", what |-> tables, name |-> name]
Refuse               == [does |-> "refuse"]

Added(t, r)     == Columns(t, {r}, {})
Each(objects)   == {{o} : o \in objects}
Key(t, ref, name) == Keys(t, {ref}, name)
Trigger(t)      == {<<"trigger", t>>}

\* A key of 031 that also carries incident_id: the two rows belong to one incident.
Owned(t, refs)  == {<<"owned", t, ref[1], ref[2]>> : ref \in refs}

-----------------------------------------------------------------------------
\* create_all and drop_all of the metadata: see SchemaHistory for an empty database.
R001 ==
    [up   |-> <<Ensure(Models)>>,
     down |-> <<DropIfThere(Models)>>]

R002 ==
    [up   |-> <<Ensure({Added("detections", "002")}),
               Ensure({Key("detections", <<"normalized_event_id", "normalized_events">>, "002")})>>,
     down |-> <<Drop({Key("detections", <<"normalized_event_id", "normalized_events">>, "002")}),
               Drop({Columns("detections", {"002"}, To("normalized_events", {"normalized_event_id"}))})>>]

R003 ==
    [up   |-> <<Ensure({Added("root_cause_scores", "003")
                         \cup Unique("root_cause_scores", "root_cause_id", "003")})>>,
     down |-> <<Drop({Unique("root_cause_scores", "root_cause_id", "003")}),
               Drop({Added("root_cause_scores", "003")})>>]

ReportTables ==
    {Table("llm_reports", To("incidents", {"incident_id"}))}

R004 ==
    [up   |-> <<Ensure(ReportTables)>>,
     down |-> <<Drop(ReportTables)>>]

R005 ==
    [up   |-> <<Ensure({Added("evaluation_metrics", "005")})>>,
     down |-> <<DropIfThere({Added("evaluation_metrics", "005")})>>]

R006 ==
    [up   |-> <<Ensure({Added("users", "006")})>>,
     down |-> <<DropIfThere({Added("users", "006")})>>]

CryptoColumns ==
    {Added(t, "007") : t \in {"users", "audit_logs", "reports", "llm_reports", "evidence_files"}}

R007 ==
    [up   |-> <<Ensure(CryptoColumns)>>,
     down |-> <<DropIfThere(CryptoColumns)>>]

ScannerTables ==
    {Table("scanner_evidence_records",
         To("evidence_files", {"import_evidence_id"})
         \cup To("incidents", {"linked_incident_id"}))}

R008 ==
    [up   |-> <<Ensure(ScannerTables)>>,
     down |-> <<Drop(ScannerTables)>>]

R009 ==
    [up   |-> <<Ensure({Added("root_cause_scores", "009")})>>,
     down |-> <<Drop({Added("root_cause_scores", "009")})>>]

AlertTables ==
    {Table("privacy_alerts",
         To("evidence_files", {"evidence_id"}) \cup To("incidents", {"linked_incident_id"}))}

R010 ==
    [up   |-> <<Ensure(AlertTables)>>,
     down |-> <<Drop(AlertTables)>>]

SuggestionTables ==
    {Table("ai_remediation_suggestions",
         To("incidents", {"incident_id"}) \cup To("users", {"requested_by_user_id"}))}

R011 ==
    [up   |-> <<Ensure(SuggestionTables)>>,
     down |-> <<Drop(SuggestionTables)>>]

TokenTables ==
    {Table("integration_tokens", To("users", {"created_by_user_id"}))}

R012 ==
    [up   |-> <<Ensure(TokenTables),
               Ensure({Added("privacy_alerts", "012")})>>,
     down |-> <<Drop({Added("privacy_alerts", "012")}),
               Drop(TokenTables)>>]

WorkflowTables ==
    {Table("review_drafts",
         To("incidents", {"incident_id"}) \cup To("users", {"last_updated_by"})),
     Table("remediation_actions",
         To("incidents", {"incident_id"}) \cup To("users", {"created_by"})),
     Table("cicd_evidence", To("incidents", {"linked_incident_id"}))}

R013 ==
    [up   |-> <<Ensure(WorkflowTables),
               Ensure({Added("review_decisions", "013")})>>,
     down |-> <<Drop({Added("review_decisions", "013")}),
               Drop(WorkflowTables)>>]

ImpactTables ==
    {Table("privacy_impact_assessments",
         To("incidents", {"incident_id"})
         \cup To("users", {"approved_by", "created_by", "reviewed_by"})),
     Table("privacy_impact_factors", To("privacy_impact_assessments", {"assessment_id"})),
     Table("privacy_harms", To("privacy_impact_assessments", {"assessment_id"})),
     Table("affected_subject_references", To("incidents", {"incident_id"}))}

ResponseTables ==
    {Table("breach_alerts",
         To("incidents", {"incident_id"})
         \cup To("privacy_impact_assessments", {"assessment_id"})
         \cup To("users", {"acknowledged_by", "resolved_by"})),
     Table("containment_actions",
         To("affected_subject_references", {"affected_subject_reference_id"})
         \cup To("incidents", {"incident_id"})
         \cup To("users", {"approved_by", "executed_by"})),
     Table("customer_notification_decisions",
         To("affected_subject_references", {"affected_subject_reference_id"})
         \cup To("incidents", {"incident_id"})
         \cup To("privacy_impact_assessments", {"assessment_id"})
         \cup To("users", {"approved_by", "created_by", "rejected_by"})),
     Table("notification_outbox", To("customer_notification_decisions", {"notification_id"})),
     Table("delivery_attempts", To("notification_outbox", {"outbox_id"}))}

R014 ==
    [up   |-> <<Ensure(ImpactTables \cup ResponseTables)>>,
     down |-> <<DropIfThere(ImpactTables \cup ResponseTables)>>]

GuardTriggers ==
    {Trigger(t) : t \in {"breach_decision_records", "breach_decision_factors",
                         "integrity_ledger_records"}}

DecisionTables ==
    {Table("breach_decision_records",
         To("breach_decision_records", {"superseded_by_record_id", "supersedes_record_id"})
         \cup To("incidents", {"incident_id"})
         \cup To("privacy_impact_assessments", {"assessment_id"})
         \cup To("users", {"approved_by", "created_by", "reviewed_by"})),
     Table("breach_decision_factors", To("breach_decision_records", {"decision_record_id"})),
     Table("evidence_provenance", To("evidence_files", {"evidence_id", "parent_evidence_id"})),
     Table("provenance_relationships", To("users", {"created_by"}))}

LedgerTables ==
    {Table("integrity_ledger_head", {}),
     Table("integrity_ledger_records", {}),
     Table("integrity_verification_runs", To("users", {"executed_by"}))}

R015 ==
    [up   |-> <<Create(DecisionTables \cup LedgerTables),
               Create(GuardTriggers)>>,
     down |-> <<DropIfThere(GuardTriggers),
               Drop(DecisionTables \cup LedgerTables)>>]

AlertHandlingColumns ==
    Columns("breach_alerts", {"016"}, {})
    \cup Keys("breach_alerts",
              To("users", {"assigned_user_id", "escalated_by", "reopened_by", "suppressed_by"}),
              "016")

EvidenceLinkTables ==
    {Table("breach_alert_evidence_links",
         To("breach_alerts", {"alert_id"}) \cup To("evidence_files", {"evidence_id"}))}

CounterfactualTables ==
    {Table("counterfactual_analyses",
         To("incidents", {"incident_id"}) \cup To("root_cause_scores", {"root_cause_id"})
         \cup To("users", {"created_by"})),
     Table("counterfactual_test_results", To("counterfactual_analyses", {"analysis_id"}))}

ControlTables ==
    {Table("preventive_controls",
         To("breach_decision_records", {"decision_record_id"})
         \cup To("incidents", {"incident_id"})
         \cup To("preventive_controls", {"supersedes_control_id"})
         \cup To("remediation_actions", {"remediation_action_id"})
         \cup To("root_cause_scores", {"root_cause_id"})
         \cup To("users", {"approved_by", "created_by", "implemented_by", "retired_by",
            "reviewed_by", "verified_by"})),
     Table("preventive_control_evidence_links",
         To("evidence_files", {"evidence_id"}) \cup To("preventive_controls", {"control_id"}))}

R016 ==
    [up   |-> <<Create(CounterfactualTables),
               Ensure({AlertHandlingColumns}),
               Ensure(EvidenceLinkTables),
               Create(ControlTables)>>,
     down |-> <<DropIfThere(ControlTables \cup EvidenceLinkTables),
               DropIfThere({AlertHandlingColumns}),
               DropIfThere(CounterfactualTables)>>]

TaxonomyColumns ==
    {Added(t, "017") : t \in {"affected_subject_references", "privacy_impact_assessments",
                              "breach_decision_records"}}

ClassificationTables ==
    {Table("sensitive_data_classifications",
         To("affected_subject_references", {"affected_subject_reference_id"})
         \cup To("detections", {"detection_id"}) \cup To("evidence_files", {"evidence_id"})
         \cup To("incidents", {"incident_id"})
         \cup To("normalized_events", {"normalized_event_id"})
         \cup To("privacy_alerts", {"privacy_alert_id"}) \cup To("users", {"reviewed_by"})),
     Table("exposure_profiles",
         To("affected_subject_references", {"affected_subject_reference_id"})
         \cup To("exposure_profiles", {"superseded_by_profile_id"})
         \cup To("incidents", {"incident_id"}) \cup To("users", {"reviewed_by"})),
     Table("exposure_profile_factors",
         To("detections", {"detection_id"})
         \cup To("exposure_profiles", {"exposure_profile_id"})
         \cup To("sensitive_data_classifications", {"classification_id"}))}

R017 ==
    [up   |-> <<Ensure(TaxonomyColumns),
               Create(ClassificationTables)>>,
     down |-> <<DropIfThere(ClassificationTables),
               DropIfThere(TaxonomyColumns)>>]

StabilisationColumns ==
    {Added(t, "018") : t \in {"privacy_impact_factors", "counterfactual_analyses",
                              "exposure_profiles", "privacy_alerts",
                              "integrity_verification_runs", "breach_alerts"}}

R018 ==
    [up   |-> <<Create(StabilisationColumns),
               Create({Unique("exposure_profiles",
                         "incident_id, rule_id, grouping_method, grouping_key", "018"),
                Unique("privacy_alerts", "integrity_failure_fingerprint", "018")}),
               Create({Key("integrity_verification_runs", <<"integrity_alert_id", "privacy_alerts">>, "018")}),
               Create({Trigger("integrity_ledger_head")})>>,
     down |-> <<Refuse>>]

R019 ==
    [up   |-> <<Ensure({Added("root_cause_scores", "019")})>>,
     down |-> <<DropIfThere({Added("root_cause_scores", "019")})>>]

R020 ==
    [up   |-> <<Create({Added("integrity_verification_runs", "020")})>>,
     down |-> <<Drop({Added("integrity_verification_runs", "020")})>>]

EngineTables ==
    {Table("live_monitor_runtime_state", {}),
     Table("integration_events", {})}

R021 ==
    [up   |-> <<Ensure({Added("privacy_alerts", "021"), Added("normalized_events", "021")}),
               Ensure(EngineTables)>>,
     down |-> <<Drop(EngineTables),
               Drop({Added("privacy_alerts", "021"), Added("normalized_events", "021")})>>]

R022 ==
    [up   |-> <<Ensure({Added("root_cause_scores", "022")})>>,
     down |-> <<Drop({Added("root_cause_scores", "022")})>>]

DiagnosisTables ==
    {Table("remediation_diagnoses",
         To("incidents", {"incident_id"})
         \cup To("users", {"created_by_user_id", "reviewed_by_user_id"}))}

R023 ==
    [up   |-> <<Ensure(DiagnosisTables)>>,
     down |-> <<Drop(DiagnosisTables)>>]

LearningTables ==
    {Table("patch_proposals",
         To("incidents", {"incident_id"}) \cup To("users", {"approved_by"})),
     Table("verified_remediation_cases", To("incidents", {"incident_id"})),
     Table("remediation_playbooks", {})}

\* The downgrade leaves the columns of the diagnoses.
R024 ==
    [up   |-> <<Ensure(LearningTables),
               Ensure({Added("remediation_diagnoses", "024")})>>,
     down |-> <<Drop(LearningTables)>>]

ProvenanceColumns ==
    {Added(t, "025") : t \in {"review_decisions", "remediation_diagnoses", "patch_proposals",
                              "verified_remediation_cases", "normalized_events", "reports",
                              "audit_logs"}}
    \cup {Added("remediation_actions", "025")
          \cup Unique("remediation_actions", "idempotency_key", "025")}

AnalysisTables ==
    {Table("root_cause_analyses", To("incidents", {"incident_id"}))}

OutcomeTables ==
    {Table("remediation_test_executions", To("incidents", {"incident_id"})),
     Table("exposure_verification_profiles", To("incidents", {"incident_id"})),
     Table("verification_outcomes", To("incidents", {"incident_id"})),
     Table("alert_trace_references", {})}

\* The downgrade is empty, as in 027 and 028.
R025 ==
    [up   |-> <<Ensure(AnalysisTables \cup OutcomeTables),
               Ensure(ProvenanceColumns)>>,
     down |-> <<>>]

R026 ==
    [up   |-> <<Ensure({Added("privacy_alerts", "026")})>>,
     down |-> <<DropIfThere({Added("privacy_alerts", "026")})>>]

StatusColumns ==
    {Added(t, "027") : t \in {"remediation_actions", "patch_proposals",
                              "remediation_test_executions", "verification_outcomes",
                              "verified_remediation_cases"}}

LifecycleTables ==
    {"root_cause_analyses", "review_decisions", "remediation_diagnoses", "remediation_actions",
     "patch_proposals", "remediation_test_executions", "verification_outcomes",
     "verified_remediation_cases", "fix_verifications"}

OneCurrentIndexes ==
    {Unique("root_cause_analyses", "incident_id", "027"),
     Unique("root_cause_analyses", "incident_id, analysis_version", "027"),
     Unique("remediation_actions", "diagnosis_id", "027"),
     Unique("verification_outcomes", "fix_verification_id", "027"),
     Unique("verified_remediation_cases", "verification_outcome_id", "027")}

\* Columns that name an earlier link of the remediation chain.
Analysis  == To("root_cause_analyses", {"root_cause_analysis_id"})
Review    == To("review_decisions", {"review_decision_id"})
Diagnosis == To("remediation_diagnoses", {"diagnosis_id"})
Action    == To("remediation_actions", {"remediation_action_id"})
Patch     == To("patch_proposals", {"patch_proposal_id"})
Test      == To("remediation_test_executions", {"test_execution_id"})
Retest    == To("controlled_retests", {"controlled_retest_id"})
Fix       == To("fix_verifications", {"fix_verification_id"})
Outcome   == To("verification_outcomes", {"verification_outcome_id"})
Implementation     == To("remediation_implementation_records", {"implementation_id"})
RemediationOfDiagnosis == To("remediation_diagnoses", {"remediation_diagnosis_id"})

ChainKeys ==
    Keys("review_decisions", Analysis, "027")
    \cup Keys("remediation_diagnoses", Analysis \cup Review, "027")
    \cup Keys("remediation_actions", Diagnosis \cup Analysis \cup Review, "027")
    \cup Keys("patch_proposals", Action \cup Diagnosis \cup Analysis, "027")
    \cup Keys("remediation_test_executions", Action \cup Patch, "027")
    \cup Keys("verification_outcomes",
              Analysis \cup Review \cup RemediationOfDiagnosis \cup Action \cup Patch
              \cup Test \cup Fix, "027")
    \cup Keys("verified_remediation_cases", Outcome, "027")

R027 ==
    [up   |-> <<Ensure(StatusColumns),
               Relink(LifecycleTables, "027"),
               Ensure(OneCurrentIndexes),
               Ensure(Each(ChainKeys))>>,
     down |-> <<>>]

VerifiedChainKeys ==
    Keys("fix_verifications",
         Analysis \cup Review \cup RemediationOfDiagnosis \cup Action \cup Implementation
         \cup Test \cup Retest, "028")
    \cup Keys("verification_outcomes", Implementation \cup Retest, "028")

ImplementationTables ==
    {Table("remediation_implementation_records",
         To("incidents", {"incident_id"}) \cup To("patch_proposals", {"patch_proposal_id"})
         \cup To("remediation_actions", {"remediation_action_id"})
         \cup To("remediation_diagnoses", {"diagnosis_id"})
         \cup To("review_decisions", {"review_decision_id"})
         \cup To("root_cause_analyses", {"root_cause_analysis_id"})
         \cup To("users", {"implemented_by_user_id"})),
     Table("controlled_retests",
         To("detections", {"original_finding_id"}) \cup To("incidents", {"incident_id"})
         \cup To("remediation_actions", {"remediation_action_id"})
         \cup To("remediation_diagnoses", {"diagnosis_id"})
         \cup To("remediation_implementation_records", {"implementation_id"})
         \cup To("remediation_test_executions", {"test_execution_id"})
         \cup To("review_decisions", {"review_decision_id"})
         \cup To("root_cause_analyses", {"root_cause_analysis_id"})
         \cup To("users", {"created_by_user_id"}))}

\* The last keys have no guard.
R028 ==
    [up   |-> <<Ensure(ImplementationTables),
               Ensure({Added("remediation_test_executions", "028")
                  \cup Keys("remediation_test_executions", Implementation, "028"),
                Added("fix_verifications", "028"), Added("verification_outcomes", "028")}),
               Ensure({Unique("fix_verifications", "controlled_retest_id", "028"),
                Unique("verification_outcomes", "controlled_retest_id", "028"),
                Unique("remediation_playbooks", "remediation_type", "028")}),
               Create(Each(VerifiedChainKeys))>>,
     down |-> <<>>]

CorrelationColumns ==
    {Added(t, "029") : t \in {"privacy_alerts", "alert_trace_references", "normalized_events",
                              "integration_events"}}

R029 ==
    [up   |-> <<Ensure(CorrelationColumns)>>,
     down |-> <<DropIfThere(CorrelationColumns)>>]

ReportKeys ==
    Keys("reports",
         Analysis \cup Review \cup RemediationOfDiagnosis \cup Action \cup Implementation
         \cup Patch \cup Test \cup Retest \cup Fix \cup Outcome, "030")

R030 ==
    [up   |-> <<Ensure({Added("reports", "030")}),
               Ensure(Each(ReportKeys))>>,
     down |-> <<DropIfThere(Each(ReportKeys)),
               DropIfThere({Added("reports", "030")})>>]

OwnerIndexes ==
    {Unique("root_cause_analyses", "analysis_id, incident_id", "031"),
     Unique("root_cause_analyses",
            "analysis_id, incident_id, analysis_version, evidence_snapshot_hash", "031"),
     Unique("review_decisions", "id, incident_id", "031"),
     Unique("remediation_diagnoses", "diagnosis_id, incident_id", "031"),
     Unique("remediation_actions", "remediation_action_id, incident_id", "031"),
     Unique("patch_proposals", "patch_proposal_id, incident_id", "031"),
     Unique("remediation_implementation_records", "implementation_id, incident_id", "031"),
     Unique("remediation_test_executions", "execution_id, incident_id", "031"),
     Unique("controlled_retests", "controlled_retest_id, incident_id", "031"),
     Unique("fix_verifications", "id, incident_id", "031"),
     Unique("verification_outcomes", "verification_outcome_id, incident_id", "031")}

OwnerKeys ==
    Owned("review_decisions", Analysis)
    \cup Owned("remediation_diagnoses", Analysis \cup Review)
    \cup Owned("remediation_actions", Analysis \cup Review \cup Diagnosis)
    \cup Owned("patch_proposals", Analysis \cup Diagnosis \cup Action)
    \cup Owned("remediation_implementation_records",
               Analysis \cup Review \cup Diagnosis \cup Action \cup Patch)
    \cup Owned("remediation_test_executions", Action \cup Implementation \cup Patch)
    \cup Owned("controlled_retests",
               Analysis \cup Review \cup Diagnosis \cup Action \cup Implementation \cup Test)
    \cup Owned("fix_verifications",
               Analysis \cup Review \cup RemediationOfDiagnosis \cup Action \cup Implementation
               \cup Test \cup Retest)
    \cup Owned("verification_outcomes",
               Analysis \cup Review \cup RemediationOfDiagnosis \cup Action \cup Patch
               \cup Implementation \cup Test \cup Retest \cup Fix)
    \cup Owned("reports",
               Analysis \cup Review \cup RemediationOfDiagnosis \cup Action \cup Patch
               \cup Implementation \cup Test \cup Retest \cup Fix \cup Outcome)

R031 ==
    [up   |-> <<Ensure({Added("controlled_retests", "031")}),
               Create(OwnerIndexes),
               Create(Each(OwnerKeys)),
               Relink({"reports"}, "031")>>,
     down |-> <<Drop({Key("reports", <<"incident_id", "incidents">>, "031")}),
               Drop(Each(OwnerKeys)),
               Drop(OwnerIndexes),
               Create({Key("reports", <<"incident_id", "incidents">>, "031 downgrade")}),
               Drop({Added("controlled_retests", "031")})>>]

CurrentBranchIndex ==
    {Unique("remediation_diagnoses",
            "incident_id, root_cause_analysis_id, review_decision_id", "032")}

R032 ==
    [up   |-> <<Create(CurrentBranchIndex)>>,
     down |-> <<Drop(CurrentBranchIndex)>>]

TenantTables == {"incidents", "audit_logs", "integration_tokens"}

TenantKeys == UNION {Key(t, <<"organisation_id", "organisations">>, "033") : t \in TenantTables}

OrganisationTables ==
    {Table("organisations", {}),
     Table("organisation_memberships",
         To("organisations", {"organisation_id"}) \cup To("users", {"approved_by", "user_id"})),
     Table("organisation_invitations",
         To("organisations", {"organisation_id"}) \cup To("users", {"invited_by"})),
     Table("deployment_setup",
         To("organisations", {"organisation_id"}) \cup To("users", {"completed_by_user_id"}))}

\* A tenant table is created with its columns, so the downgrade always comes to the drop of its key.
R033 ==
    [up   |-> <<Ensure(OrganisationTables),
               Ensure({Added(t, "033") : t \in TenantTables \cup {"users"}}),
               Ensure(Each(TenantKeys))>>,
     down |-> <<Drop(Each(TenantKeys)),
               DropIfThere({Added(t, "033") : t \in TenantTables \cup {"users"}}),
               DropIfThere(OrganisationTables)>>]

VerifiedByKey == Key("organisations", <<"verified_by", "users">>, "034")

VerificationTables ==
    {Table("organisation_domain_challenges", To("organisations", {"organisation_id"})),
     Table("organisation_email_verifications",
         To("organisations", {"organisation_id"}) \cup To("users", {"user_id"})),
     Table("organisation_manual_reviews",
         To("organisations", {"organisation_id"})
         \cup To("users", {"requested_by", "reviewer_id"}))}

\* Dropping the column verified_by drops its key.
R034 ==
    [up   |-> <<Ensure({Added("organisations", "034")}),
               Ensure({VerifiedByKey}),
               Ensure({Added("users", "034")}),
               Ensure(VerificationTables)>>,
     down |-> <<DropIfThere(VerificationTables),
               DropIfThere({Added("users", "034")}),
               DropIfThere({VerifiedByKey}),
               DropIfThere({Added("organisations", "034")})>>]

ResetTables ==
    {Table("password_reset_tokens", To("users", {"user_id"}))}

R035 ==
    [up   |-> <<Ensure({Added("deployment_setup", "035"), Added("organisations", "035"),
                  Added("organisation_manual_reviews", "035")}),
               Ensure(ResetTables)>>,
     down |-> <<DropIfThere(ResetTables),
               DropIfThere({Added("deployment_setup", "035"), Added("organisations", "035"),
                     Added("organisation_manual_reviews", "035")})>>]

\* Fault: the cases get no fingerprint.
ActionFingerprint == {Added("remediation_actions", "036")}

FingerprintColumns ==
    {Added(t, "036") : t \in {"remediation_actions", "verified_remediation_cases"}}

RollbackTables ==
    {Table("rollback_executions",
         To("incidents", {"incident_id"}) \cup To("patch_proposals", {"patch_proposal_id"})
         \cup To("remediation_implementation_records", {"implementation_id"}))}

R036 ==
    [up   |-> <<Ensure(RollbackTables),
               Ensure(FingerprintColumns)>>,
     down |-> <<DropIfThere(FingerprintColumns),
               DropIfThere(RollbackTables)>>]

ClientEventIndex == {Unique("integration_events", "source_name, client_event_id", "037")}

R037 ==
    [up   |-> <<Ensure({Added("integration_events", "037")}),
               Ensure(ClientEventIndex)>>,
     down |-> <<DropIfThere(ClientEventIndex),
               DropIfThere({Added("integration_events", "037")})>>]

-----------------------------------------------------------------------------
Revisions ==
    <<R001, R002, R003, R004, R005, R006, R007, R008, R009, R010, R011, R012, R013,
      R014, R015, R016, R017, R018, R019, R020, R021, R022, R023, R024, R025, R026,
      R027, R028, R029, R030, R031, R032, R033, R034, R035, R036, R037>>
=============================================================================
