------------------------------ MODULE SchemaHistory ------------------------------
(***************************************************************************)
(* A database under Alembic (backend/alembic/env.py): commands that move   *)
(* its schema through the revisions, up and down, one transaction each.    *)
(*                                                                         *)
(* Revision 001 creates whatever the classes declare on the day it runs.   *)
(* For an empty database without a version table env.py hands it a reduced *)
(* metadata instead, without the later tables and without foreign keys, so *)
(* that the later revisions find room for what they add.  A database that  *)
(* ran 001 when it was new has neither the later tables nor the columns    *)
(* that 002 to 037 added to the first ones.                                *)
(***************************************************************************)
EXTENDS SchemaRevisions, Naturals, Sequences, SequencesExt

VARIABLES
    schema,       \* the objects the database has
    version,      \* the revision in alembic_version, 0 for none
    managed,      \* there is an alembic_version table
    origin,       \* how the database began: "empty", or "original" 001
    stranded      \* history: a downgrade went where no upgrade leads back

vars == <<schema, version, managed, origin, stranded>>

Latest == Len(Revisions)

-----------------------------------------------------------------------------
(* What one step of a revision does.                                       *)

IsOwner(o) == o[1] \in {"table", "columns"}

\* What the guard of a bundle looks for.
First(bundle) ==
    IF \E o \in bundle : IsOwner(o) THEN CHOOSE o \in bundle : IsOwner(o)
    ELSE CHOOSE o \in bundle : TRUE

RefersTo(o, tables) == o[1] \in {"key", "owned"} /\ o[4] \in tables

\* New objects need their table, a key also the table it refers to.
Grounded(new, s) ==
    \A o \in new : /\ <<"table", o[2]>> \in s
                   /\ o[1] \in {"key", "owned"} => <<"table", o[4]>> \in s

Fails(s)     == [ok |-> FALSE, schema |-> s]
Becomes(s)   == [ok |-> TRUE, schema |-> s]

Extended(new, s) ==
    IF Grounded(new, s \cup new) THEN Becomes(s \cup new) ELSE Fails(s)

\* Dropping a table takes all that belongs to it, and is refused while
\* another table has a key to it.
Without(bundles, s) ==
    LET tables == {o[2] : o \in {First(b) : b \in bundles} \cap {u \in s : u[1] = "table"}}
        rest   == {o \in s \ UNION bundles : o[2] \notin tables}
    IN  IF \E o \in rest : RefersTo(o, tables) THEN Fails(s) ELSE Becomes(rest)

\* Fault: relinking drops every foreign key of the table.
AnyKeys(tables, s) == {o \in s : o[1] = "key" /\ o[2] \in tables}

IncidentKeys(tables, s) ==
    {o \in s : o[1] = "key" /\ o[2] \in tables /\ o[3] = "incident_id" /\ o[4] = "incidents"}

Applied(step, s) ==
    CASE step.does = "create" ->
           IF s \cap UNION step.what # {} THEN Fails(s) ELSE Extended(UNION step.what, s)
      [] step.does = "ensure" ->
           Extended(UNION {b \in step.what : First(b) \notin s}, s)
      [] step.does = "drop" ->
           IF \E b \in step.what : First(b) \notin s THEN Fails(s) ELSE Without(step.what, s)
      [] step.does = "dropIfThere" ->
           Without({b \in step.what : First(b) \in s}, s)
      [] step.does = "relink" ->
           Extended(UNION {Key(t, <<"incident_id", "incidents">>, step.name) : t \in step.what},
                    s \ IncidentKeys(step.what, s))
      [] step.does = "refuse" -> Fails(s)

\* A command runs its steps until one fails.
Ran(steps, s) ==
    FoldLeft(LAMBDA at, step : IF at.ok THEN Applied(step, at.schema) ELSE at, Becomes(s), steps)

-----------------------------------------------------------------------------
(* Revision 001 and the two metadata it may be given.                      *)

_POST_INITIAL_TABLES ==
    {"affected_subject_references", "ai_remediation_suggestions",
     "breach_alert_evidence_links", "breach_alerts", "breach_decision_factors",
     "breach_decision_records", "cicd_evidence", "containment_actions",
     "counterfactual_analyses", "counterfactual_test_results",
     "customer_notification_decisions", "delivery_attempts", "evidence_provenance",
     "exposure_profile_factors", "exposure_profiles", "integration_tokens",
     "integrity_ledger_head", "integrity_ledger_records", "integrity_verification_runs",
     "llm_reports", "notification_outbox", "preventive_control_evidence_links",
     "preventive_controls", "privacy_alerts", "privacy_harms",
     "privacy_impact_assessments", "privacy_impact_factors", "provenance_relationships",
     "remediation_actions", "remediation_diagnoses", "remediation_test_executions",
     "patch_proposals", "verified_remediation_cases", "remediation_playbooks",
     "review_drafts", "root_cause_analyses", "scanner_evidence_records",
     "sensitive_data_classifications", "exposure_verification_profiles",
     "verification_outcomes", "alert_trace_references", "controlled_retests",
     "remediation_implementation_records", "organisations", "organisation_memberships",
     "organisation_invitations", "deployment_setup"}

\* Columns and unique indexes of today's classes, no foreign key.
_initial_revision_metadata ==
    {{o \in class : o[1] # "key"} :
        class \in {m \in Models : First(m)[2] \notin _POST_INITIAL_TABLES}}

_is_unversioned_empty_database == ~managed /\ schema = {}

Script(from, to) ==
    FlattenSeq([i \in 1..(to - from) |->
        IF from + i = 1 /\ _is_unversioned_empty_database
        THEN <<Ensure(_initial_revision_metadata)>>
        ELSE Revisions[from + i].up])

Upgraded(to)   == Ran(Script(version, to), schema)
Downgraded(to) == Ran(FlattenSeq([i \in 1..(version - to) |-> Revisions[version + 1 - i].down]),
                      schema)

\* The schema 001 left behind when it was the only revision.
Original ==
    UNION {Table("access_events", To("evidence_files", {"evidence_id"})),
           Table("audit_logs", To("users", {"actor_id"})),
           Table("dependency_risks", To("evidence_files", {"evidence_id"})),
           Table("deployment_events", To("evidence_files", {"evidence_id"})),
           Table("detections", To("evidence_files", {"evidence_id"})
                               \cup To("incidents", {"incident_id"})),
           Table("evaluation_metrics", {}),
           Table("evidence_files", To("incidents", {"linked_incident_id"})
                                   \cup To("users", {"uploaded_by"})),
           Table("fix_verifications", To("incidents", {"incident_id"})),
           Table("incidents", {}),
           Table("normalized_events", To("evidence_files", {"evidence_id"})
                                      \cup To("incidents", {"linked_incident_id"})),
           Table("reports", To("incidents", {"incident_id"})),
           Table("review_decisions", To("incidents", {"incident_id"})
                                     \cup To("users", {"reviewer_id"})),
           Table("root_cause_scores", To("incidents", {"incident_id"})),
           Table("sast_findings", To("evidence_files", {"evidence_id"})),
           Table("secret_findings", To("evidence_files", {"evidence_id"})),
           Table("users", {})}

-----------------------------------------------------------------------------
AtBase ==
    schema = {} /\ version = 0 /\ managed = FALSE /\ origin = "empty" /\ stranded = FALSE

AtOriginal ==
    schema = Original /\ version = 1 /\ managed = TRUE /\ origin = "original" /\ stranded = FALSE

Init == AtBase \/ AtOriginal

\* alembic upgrade +1, alembic upgrade head: run_migrations_online commits all
\* the revisions of a command or none.
Upgrade ==
    \E to \in {version + 1, Latest} :
       /\ to <= Latest
       /\ to > version
       /\ Upgraded(to).ok
       /\ schema' = Upgraded(to).schema
       /\ version' = to
       /\ managed' = TRUE
       /\ UNCHANGED <<origin, stranded>>

\* alembic downgrade -1.  The downgrades of 027 and 028 leave what 028 cannot
\* create a second time, and the version table outlives the last downgrade.
Downgrade ==
    /\ version > 0
    /\ Downgraded(version - 1).ok
    /\ schema' = Downgraded(version - 1).schema
    /\ version' = version - 1
    /\ stranded' = (stranded \/ version \in {1, 28})
    /\ UNCHANGED <<managed, origin>>

Next == Upgrade \/ Downgrade

Spec == Init /\ [][Next]_vars

-----------------------------------------------------------------------------
\* The version and the schema belong together.
TypeOK ==
    /\ version \in 0..Latest
    /\ Grounded({o \in schema : o[1] # "table"}, schema)
    /\ version > 0 => managed
    /\ origin \in {"empty", "original"}
    /\ stranded \in BOOLEAN

\* An upgrade to head goes through from wherever a database stands, whichever
\* way it began and whatever revisions it has been taken back over, except
\* after a downgrade past 028 or past 001.  The unguarded steps never meet an
\* object that 001 or an earlier revision left, which is the balance that the
\* list in env.py keeps by hand (docs/DATABASE_MIGRATION_STRATEGY.md:182).
HeadReachable == version < Latest => (Upgraded(Latest).ok <=> ~stranded)

Reference(o) == <<o[2], o[3], o[4]>>

Enforced(s) == {Reference(o) : o \in {k \in s : k[1] = "key"}}

\* At head the application finds every table, column and unique index its
\* classes declare and the triggers that keep the ledger append-only, and no
\* class finds a reference enforced by nothing when 001 was run for what it was.
HeadServesModels ==
    version = Latest =>
      /\ {o \in Declared : IsOwner(o)} \subseteq schema
      /\ \A o \in Declared : o[1] = "unique" =>
            \E u \in schema : u[1] = "unique" /\ u[2] = o[2] /\ u[3] = o[3]
      /\ (UNION GuardTriggers) \cup Trigger("integrity_ledger_head") \subseteq schema
      /\ origin = "original" =>
            Enforced(Declared) \ Enforced(schema)
              \subseteq {<<"remediation_actions", "approved_by", "users">>}

\* "Later revisions add the real constraints" (backend/alembic/env.py:82): at
\* head every foreign key the classes declare is enforced.
ModelKeysEnforced == version = Latest => Enforced(Declared) \subseteq Enforced(schema)

\* Upgrading never takes away a table or a group of columns, and no reference
\* that was enforced before is left unenforced: a key is only dropped to be
\* replaced (docs/DATABASE_MIGRATION_STRATEGY.md:220).
UpgradesOnlyAdd ==
    [][version' > version =>
         /\ {o \in schema : IsOwner(o)} \subseteq schema'
         /\ Enforced(schema) \subseteq Enforced(schema')]_vars

=============================================================================
