-------------------------- MODULE SchemaMigrations --------------------------
(***************************************************************************)
(* The chain of schema migrations and the runners that apply it.           *)
(*                                                                         *)
(*   backend/alembic/versions/*      revisions 1 to 23                     *)
(*   backend/alembic/env.py          the lock and the transaction          *)
(*   app/db/models.py                what the program expects of a schema  *)
(*                                                                         *)
(* A schema is a function from the names of its objects to the revision    *)
(* whose definition of them stands.  Objects are tables, the unique keys   *)
(* the program relies on, written table(columns), the triggers that keep   *)
(* evidence immutable, types, and groups of columns or of plain indexes    *)
(* that one revision creates and drops together.  Of the data, the kinds   *)
(* of optimization runs that exist are kept, and whether a run has two     *)
(* jobs, for these are what revisions inspect, convert or refuse.          *)
(***************************************************************************)
EXTENDS Integers, Sequences, FiniteSets, FiniteSetsExt

CONSTANTS
    Runners,       \* processes that may run alembic
    Upgrades,      \* the revisions somebody upgrades to
    Downgrades,    \* the revisions somebody downgrades to
    NoRunner, Orphan,
    MaxCommands,   \* bound on the commands given
    MaxCrashes,    \* bound on the runners that die
    MaxWrites      \* bound on what applications write in between

Newest == 23

\* What the constants have to be
MigrationConstants ==
    /\ Upgrades \subseteq 0..Newest /\ Downgrades \subseteq 0..Newest
    /\ NoRunner \notin Runners /\ Orphan \notin Runners /\ NoRunner # Orphan
    /\ MaxCommands \in Nat /\ MaxCrashes \in Nat /\ MaxWrites \in Nat

-----------------------------------------------------------------------------
(* The revisions.  make: CREATE or ADD, which fails on an object that is    *)
(* there; ensure: the same with IF NOT EXISTS; put: OR REPLACE, ALTER, or   *)
(* DROP and CREATE; rename: from the old name to the new; leave: what the   *)
(* downgrade does not drop; reversible: whether there is a downgrade.       *)

Revision == [make |-> {}, ensure |-> {}, put |-> {}, rename |-> <<>>, leave |-> {}, reversible |-> TRUE]

rev_0001 == [Revision EXCEPT
    !.ensure = {"vector"},
    !.make = {"users", "targets", "encrypted_secrets", "target_evaluation_mappings",
        "target_capability_snapshots", "namespaces", "query_shapes", "telemetry_windows",
        "metric_observations", "workload_snapshots", "optimization_runs", "optimization_candidates",
        "candidate_actions", "evaluation_runs", "evaluation_trial_pairs", "trial_metrics",
        "admission_decisions", "safety_check_results", "approval_requests", "approval_decisions",
        "ledger_entries", "rollback_records", "experience_records", "jobs", "audit_events",
        "system_settings"}]

rev_0002 == [Revision EXCEPT !.make = {"experience_records.0002"}]

rev_0003 == [Revision EXCEPT !.make = {"jobs.0003", "ix_jobs_claimable"}]

rev_0004 == [Revision EXCEPT
    !.rename = [encrypted_secrets |-> "target_credentials",
        target_evaluation_mappings |-> "evaluation_mappings",
        target_capability_snapshots |-> "capability_snapshots",
        optimization_candidates |-> "candidates", evaluation_trial_pairs |-> "trial_pairs",
        safety_check_results |-> "safety_results", system_settings |-> "settings"],
    !.ensure = {"run_status", "candidate_status"},
    !.make = {"columns.0004", "foreign_keys.0004", "indexes.0004", "ix_runs_target_created", "checks.0004",
        "optimization_runs.workload_snapshot_id", "approval_requests.admission_decision_id",
        "targets(owner_user_id, name)", "target_credentials(target_id)",
        "evaluation_mappings(target_id)", "namespaces(target_id, name)",
        "query_shapes(namespace_id, shape_hash)", "workload_snapshots(fingerprint)",
        "candidates(candidate_hash)", "trial_pairs(evaluation_run_id, pair_number)",
        "admission_decisions(candidate_id)", "approval_requests(admission_decision_id)",
        "approval_decisions(approval_request_id)", "ledger_entries(optimization_run_id, sequence_number)",
        "rollback_records(candidate_id)", "settings(scope, key)"}]

rev_0005 == [Revision EXCEPT !.make = {"users.role", "refresh_tokens", "refresh_tokens(token_id)",
    "refresh_tokens(token_hash)", "indexes.0005"}]

rev_0006 == [Revision EXCEPT !.make = {"users(email)"}]

rev_0007 == [Revision EXCEPT
    !.put = {"approval_requests.admission_decision_id"},
    !.make = {"approval_requests.0007", "fk_approval_target", "indexes.0007"}]

rev_0008 == [Revision EXCEPT !.make = {"production_ledger_entries",
    "production_ledger_entries(target_id, sequence)", "prevent_production_ledger_mutation",
    "production_ledger_append_only"}]

rev_0009 == [Revision EXCEPT !.make = {"production_action_recovery",
    "production_action_recovery(idempotency_key)", "ix_recovery_target_state"}]

rev_0010 == [Revision EXCEPT !.make = {"experience_records.0010", "indexes.0010"}]

rev_0011 == [Revision EXCEPT
    !.put = {"run_status", "optimization_runs.workload_snapshot_id"},
    !.make = {"optimization_runs.0011", "checks.0011", "jobs(optimization_run_id): initial"}]

rev_0012 == [Revision EXCEPT !.make = {"jobs.0012", "ix_jobs_status_available"}]

rev_0013 == [Revision EXCEPT
    !.put = {"reject_workload_snapshot_mutation"},
    !.make = {"workload_snapshots.0013", "workload_snapshots(source_run_id)",
        "workload_snapshot_source_windows", "workload_snapshot_query_shapes", "workload_snapshot_metrics",
        "workload_snapshot_source_windows(workload_snapshot_id, telemetry_window_id)",
        "workload_snapshot_query_shapes(workload_snapshot_id, query_shape_id)",
        "workload_snapshot_metrics(source_metric_observation_id)", "indexes.0013",
        "workload_snapshots_immutable", "workload_snapshot_source_windows_immutable",
        "workload_snapshot_query_shapes_immutable", "workload_snapshot_metrics_immutable"}]

rev_0014 == [Revision EXCEPT
    !.put = {"reject_diagnosis_mutation"},
    !.make = {"ai_invocations", "diagnosis_artifacts", "diagnosis_findings", "indexes.0014",
        "diagnosis_artifacts(optimization_run_id)", "diagnosis_artifacts(artifact_fingerprint)",
        "diagnosis_findings(diagnosis_artifact_id, finding_id)",
        "ai_invocations_immutable", "diagnosis_artifacts_immutable", "diagnosis_findings_immutable"}]

\* The four artifacts of a run before its deployment, and the triggers on them
Predeployment == {
    "candidate_generation_artifacts", "candidate_generation_artifacts(optimization_run_id)",
    "candidate_generation_artifacts(artifact_fingerprint)",
    "candidate_ranking_artifacts", "candidate_ranking_artifacts(optimization_run_id)",
    "candidate_ranking_artifacts(artifact_fingerprint)",
    "evaluation_plans", "evaluation_plans(optimization_run_id)", "evaluation_plans(artifact_fingerprint)",
    "admission_artifacts", "admission_artifacts(optimization_run_id)",
    "admission_artifacts(artifact_fingerprint)"}

Predeployment_immutable == {"candidate_generation_artifacts_immutable",
    "candidate_ranking_artifacts_immutable", "evaluation_plans_immutable", "admission_artifacts_immutable"}

rev_0015 == [Revision EXCEPT
    !.put = {"reject_predeployment_evidence_mutation"},
    !.make = {"run_completion_reason", "optimization_runs.completion_reason", "ck_completed_run_reason",
              "candidates.0015", "candidates(optimization_run_id, deterministic_fingerprint)",
              "candidate_actions_immutable"}
        \cup Predeployment \cup Predeployment_immutable]

\* A mistake: its downgrade leaves the trigger where it is
rev_0016_LeavesTrigger == [Revision EXCEPT
    !.put = {"reject_candidate_definition_mutation"}, !.make = {"candidates_definition_immutable"},
    !.leave = {"candidates_definition_immutable"}]

rev_0016 == [Revision EXCEPT
    !.put = {"reject_candidate_definition_mutation"}, !.make = {"candidates_definition_immutable"}]

rev_0017 == [Revision EXCEPT
    !.put = {"reject_r19lp_artifact_mutation"},
    !.make = {"authority_decisions", "authority_decisions(optimization_run_id)",
        "authority_decisions(integrity_fingerprint)", "deployment_artifacts",
        "deployment_artifacts(optimization_run_id)", "deployment_artifacts(idempotency_key)",
        "authority_decisions_immutable"}]

rev_0018 == [Revision EXCEPT
    !.ensure = {"approval_requests.optimization_run_id", "approval_requests.candidate_fingerprint",
        "approval_requests(optimization_run_id)", "jobs(optimization_run_id, kind, continuation)"},
    !.leave = {"approval_requests.optimization_run_id"}]

rev_0019 == [Revision EXCEPT !.reversible = FALSE,
    !.ensure = {"ix_jobs_claim_pending", "ix_jobs_claim_expired", "ix_runs_requester_created",
        "ix_runs_target_created", "ix_approvals_status_expiry", "ix_production_ledger_created",
        "ix_audit_run_created"}]

rev_0020 == [Revision EXCEPT !.reversible = FALSE, !.ensure = {"admission_artifacts.production_eligible"}]

rev_0021 == [Revision EXCEPT !.reversible = FALSE,
    !.ensure = {"query_settings_deployments", "query_settings_deployments(idempotency_key)",
        "query_settings_deployments(target_id, query_shape_hash, ownership_token)"}]

rev_0022 == [Revision EXCEPT !.reversible = FALSE, !.put = {"reject_candidate_definition_mutation"}]

rev_0023 == [Revision EXCEPT !.reversible = FALSE,
    !.put = {"jobs(optimization_run_id): initial"}, !.make = {"jobs(optimization_run_id): continuation"}]

Revisions == <<rev_0001, rev_0002, rev_0003, rev_0004, rev_0005, rev_0006, rev_0007, rev_0008,
    rev_0009, rev_0010, rev_0011, rev_0012, rev_0013, rev_0014, rev_0015, rev_0016, rev_0017,
    rev_0018, rev_0019, rev_0020, rev_0021, rev_0022, rev_0023>>

Makes == [r \in 1..Newest |-> Revisions[r].make \cup Revisions[r].ensure \cup Revisions[r].put]

\* The revision whose definition of n a downgrade of r brings back, 0 if there is none
Earlier(n, r) == Max({0} \cup {q \in 1..r-1 : n \in Makes[q]})

\* What a downgrade of r redefines, and what it drops
Restored == [r \in 1..Newest |->
    [n \in {m \in Makes[r] \ Revisions[r].leave : Earlier(m, r) > 0} |-> Earlier(n, r)]]

Dropped == [r \in 1..Newest |-> {n \in Makes[r] \ Revisions[r].leave : Earlier(n, r) = 0}]

\* upgrade() of revision r on schema s
Upgraded(s, r) ==
    LET v == Revisions[r]
        old == DOMAIN v.rename
        kept == (DOMAIN s \ old) \cup {v.rename[o] : o \in old}
    IN [n \in kept \cup Makes[r] |->
            IF n \in v.make \cup v.put \/ n \notin kept THEN r
            ELSE IF n \in DOMAIN s THEN s[n] ELSE s[CHOOSE o \in old : v.rename[o] = n]]

Collides(s, r) == Revisions[r].make \cap DOMAIN s # {}

\* downgrade() of revision r on schema s
Downgraded(s, r) ==
    LET v == Revisions[r]
        kept == DOMAIN s \ (Dropped[r] \cup {v.rename[o] : o \in DOMAIN v.rename})
    IN [n \in kept \cup DOMAIN v.rename |->
            IF n \in DOMAIN Restored[r] THEN Restored[r][n]
            ELSE IF n \in DOMAIN s THEN s[n] ELSE s[v.rename[n]]]

-----------------------------------------------------------------------------
(* What the revisions make of the runs.  A kind of run: its status (ACTIVE  *)
(* is each of the states 11 brought that 10 has no name for), whether it    *)
(* has a snapshot, and the reason of its completion.                        *)

Run(status, snapshot, reason) == [status |-> status, snapshot |-> snapshot, reason |-> reason]

Bare == Run("BARE", FALSE, "none")

\* The kinds of run from 0004, from 0011 and from 0015 on
Kinds4 == {Run(s, TRUE, "none") : s \in {"PENDING", "RUNNING", "COMPLETED", "FAILED"}}
Kinds11 == {Run(s, b, "none") : s \in {"CREATED", "ACTIVE", "COMPLETED", "FAILED"}, b \in BOOLEAN}
Kinds15 == {Run(s, b, "none") : s \in {"CREATED", "ACTIVE", "FAILED"}, b \in BOOLEAN}
           \cup {Run("COMPLETED", b, w) : b \in BOOLEAN, w \in {"LEGACY", "TOLD"}}

\* The kinds an application of revision v may write, by the checks of the schema
KindsAt(v) ==
    CASE v = 0 -> {}
      [] v \in 1..3 -> {Bare}
      [] v \in 4..10 -> Kinds4
      [] v \in 11..14 -> Kinds11
      [] OTHER -> Kinds15

\* 0004: a column that is NOT NULL without a default cannot be added to a table with rows
columns_addable(rows) == rows = {}

\* 0011: a RUNNING run has no stage, and two jobs of a run have no place in the new index
lifecycle_addable(db) == (\A k \in db.rows : k.status # "RUNNING") /\ db.twins = {}

\* 0011: the other states have no older name, and the snapshot is required again
lifecycle_removable(rows) ==
    \A k \in rows : k.status \in {"CREATED", "COMPLETED", "FAILED"} /\ k.snapshot

lifecycle_named(k) == IF k.status = "PENDING" THEN [k EXCEPT !.status = "CREATED"] ELSE k

lifecycle_unnamed_Fails(k) == IF k.status = "CREATED" THEN [k EXCEPT !.status = "FAILED"] ELSE k

lifecycle_unnamed(k) == IF k.status = "CREATED" THEN [k EXCEPT !.status = "PENDING"] ELSE k

\* 0015: what was completed before has no reason of its own
reasoned(k) == IF k.status = "COMPLETED" /\ k.reason = "none" THEN [k EXCEPT !.reason = "LEGACY"] ELSE k

RefusesUpgrade(db, r) ==
    \/ r = 4 /\ ~columns_addable(db.rows)
    \/ r = 11 /\ ~lifecycle_addable(db)
    \/ r = 23 /\ "initial" \in db.twins

RefusesDowngrade(db, r) ==
    \/ ~Revisions[r].reversible
    \/ r = 11 /\ ~lifecycle_removable(db.rows)

RowsUp(rows, r) ==
    CASE r = 11 -> {lifecycle_named(k) : k \in rows}
      [] r = 15 -> {reasoned(k) : k \in rows}
      [] OTHER -> rows

RowsDown(rows, r) ==
    CASE r = 1 -> {}
      [] r = 4 -> {Bare : k \in rows}
      [] r = 11 -> {lifecycle_unnamed(k) : k \in rows}
      [] r = 15 -> {[k EXCEPT !.reason = "none"] : k \in rows}
      [] OTHER -> rows

\* A database: alembic_version, the schema, the rows; ok is FALSE once a revision raised
UpOne(db, r) ==
    IF ~db.ok \/ Collides(db.schema, r) \/ RefusesUpgrade(db, r)
    THEN [db EXCEPT !.ok = FALSE]
    ELSE [db EXCEPT !.version = r, !.schema = Upgraded(@, r), !.rows = RowsUp(@, r)]

DownOne(db, r) ==
    IF ~db.ok \/ RefusesDowngrade(db, r)
    THEN [db EXCEPT !.ok = FALSE]
    ELSE [db EXCEPT !.version = r - 1, !.schema = Downgraded(@, r), !.rows = RowsDown(@, r),
                    !.twins = IF r = 4 THEN {} ELSE @]

\* What becomes of a database on the way up from a revision, and down from it, by revision
Up(db, from) ==
    LET after[v \in 0..Newest] == IF v <= from THEN db ELSE UpOne(after[v - 1], v) IN after

Down(db, from) ==
    LET after[v \in 0..Newest] == IF v >= from THEN db ELSE DownOne(after[v + 1], v + 1) IN after

\* context.run_migrations() from the revision it read: one transaction for all of them.
\* A revision that is there already is no upgrade; one that is not is no downgrade.
Migrated(db, from, way, to) ==
    IF way = "upgrade" THEN Up(db, from)[to]
    ELSE IF to > from THEN [db EXCEPT !.ok = FALSE] ELSE Down(db, from)[to]

\* A database before its first revision
Empty == [version |-> 0, schema |-> <<>>, rows |-> {}, twins |-> {}, ok |-> TRUE]

\* The schema that the chain of upgrades makes of an empty database, by revision
Chain == [v \in 0..Newest |-> Up(Empty, 0)[v].schema]

-----------------------------------------------------------------------------
(* The paths that scripts/check_r19b_migrations.py tries, between 10 and 11 *)

migrate_command(db, way, to) == Migrated([db EXCEPT !.ok = TRUE], db.version, way, to)

seed_legacy(db, statuses) == [db EXCEPT !.rows = {Run(s, TRUE, "none") : s \in statuses}]

fresh_schema(db) ==
    /\ db.version = Newest /\ {"foreign_keys.0004", "jobs(optimization_run_id): initial"} \subseteq DOMAIN db.schema
    /\ db.schema["optimization_runs.workload_snapshot_id"] = 11 /\ db.schema["run_status"] = 11

\* What it asserts: a new database; an older one up and down again; and what is refused
migrations_accepted ==
    LET at10 == migrate_command(Empty, "upgrade", 10)
        legacy == seed_legacy(at10, {"PENDING", "COMPLETED", "FAILED"})
        upgraded == migrate_command(legacy, "upgrade", 11)
        active == [migrate_command(seed_legacy(at10, {"PENDING"}), "upgrade", 11)
                       EXCEPT !.rows = {Run("ACTIVE", TRUE, "none")}]
    IN /\ fresh_schema(migrate_command(Empty, "upgrade", Newest))
       /\ upgraded.ok /\ upgraded.rows = {Run(s, TRUE, "none") : s \in {"CREATED", "COMPLETED", "FAILED"}}
       /\ LET down == migrate_command(upgraded, "downgrade", 10) IN down.ok /\ down.rows = legacy.rows
       /\ ~migrate_command(seed_legacy(at10, {"RUNNING"}), "upgrade", 11).ok
       /\ ~migrate_command(active, "downgrade", 10).ok

-----------------------------------------------------------------------------
(* What the mapped classes name: tables, and the keys they call unique     *)

AccountModels == {"users", "users(email)", "refresh_tokens", "refresh_tokens(token_id)",
    "refresh_tokens(token_hash)", "targets", "targets(owner_user_id, name)", "target_credentials",
    "target_credentials(target_id)", "evaluation_mappings", "evaluation_mappings(target_id)",
    "capability_snapshots", "namespaces", "namespaces(target_id, name)", "query_shapes",
    "query_shapes(namespace_id, shape_hash)"}

WorkloadModels == {"telemetry_windows", "metric_observations", "workload_snapshots",
    "workload_snapshots(fingerprint)", "workload_snapshots(source_run_id)",
    "workload_snapshot_source_windows",
    "workload_snapshot_source_windows(workload_snapshot_id, telemetry_window_id)",
    "workload_snapshot_query_shapes", "workload_snapshot_query_shapes(workload_snapshot_id, query_shape_id)",
    "workload_snapshot_metrics", "workload_snapshot_metrics(source_metric_observation_id)",
    "ai_invocations", "diagnosis_artifacts", "diagnosis_artifacts(optimization_run_id)",
    "diagnosis_artifacts(artifact_fingerprint)", "diagnosis_findings",
    "diagnosis_findings(diagnosis_artifact_id, finding_id)"}

EvidenceModels == {"optimization_runs", "run_status", "run_completion_reason", "candidates",
        "candidates(candidate_hash)", "candidates(optimization_run_id, deterministic_fingerprint)",
        "candidate_actions", "evaluation_runs", "trial_pairs", "trial_pairs(evaluation_run_id, pair_number)",
        "trial_metrics", "admission_decisions", "admission_decisions(candidate_id)",
        "authority_decisions", "authority_decisions(optimization_run_id)",
        "authority_decisions(integrity_fingerprint)", "deployment_artifacts",
        "deployment_artifacts(optimization_run_id)", "deployment_artifacts(idempotency_key)"}
    \cup Predeployment

OutcomeModels == {"query_settings_deployments", "query_settings_deployments(idempotency_key)",
    "query_settings_deployments(target_id, query_shape_hash, ownership_token)", "safety_results",
    "approval_requests", "approval_requests(admission_decision_id)",
    "approval_requests(optimization_run_id)", "approval_decisions",
    "approval_decisions(approval_request_id)", "ledger_entries",
    "ledger_entries(optimization_run_id, sequence_number)", "rollback_records",
    "rollback_records(candidate_id)", "experience_records", "jobs", "audit_events", "settings",
    "settings(scope, key)"}

Models == AccountModels \cup WorkloadModels \cup EvidenceModels \cup OutcomeModels

\* What the other modules of this development take for granted of the rows: one initial job
\* and one continuation, one ledger sequence, one recovery record, evidence nobody changes
Relied == {"jobs(optimization_run_id): initial", "jobs(optimization_run_id): continuation",
    "production_ledger_entries(target_id, sequence)", "production_ledger_append_only",
    "production_action_recovery(idempotency_key)", "candidates_definition_immutable",
    "candidate_actions_immutable", "authority_decisions_immutable", "diagnosis_artifacts_immutable",
    "workload_snapshots_immutable", "admission_artifacts_immutable"}

-----------------------------------------------------------------------------
VARIABLES
    version, schema,  \* what is committed: alembic_version and the schema
    runs, twins,      \* the kinds of runs; the kinds of second jobs a run has
    lock,             \* the advisory lock: a runner, nobody, or a dead one's session
    pc, command, seen,\* where a runner is, what it was told, the revision it read
    raised,           \* has its last migration raised
    commands, crashes, writes

vars == <<version, schema, runs, twins, lock, pc, command, seen, raised, commands, crashes, writes>>

Database == [version |-> version, schema |-> schema, rows |-> runs, twins |-> twins, ok |-> TRUE]

Commands == ({"upgrade"} \X Upgrades) \cup ({"downgrade"} \X Downgrades)

TypeOK ==
    /\ version \in 0..Newest /\ DOMAIN schema \subseteq UNION {DOMAIN Chain[v] : v \in DOMAIN Chain}
    /\ twins \subseteq {"initial", "continuation"}
    /\ lock \in Runners \cup {NoRunner, Orphan}
    /\ pc \in [Runners -> {"idle", "waiting", "locked", "migrating", "unlock"}]
    /\ command \in [Runners -> Commands \cup {<<>>}] /\ seen \in [Runners -> 0..Newest]
    /\ raised \in [Runners -> BOOLEAN]

Init ==
    /\ version = 0 /\ schema = <<>> /\ runs = {} /\ twins = {} /\ lock = NoRunner
    /\ pc = [r \in Runners |-> "idle"] /\ command = [r \in Runners |-> <<>>]
    /\ seen = [r \in Runners |-> 0] /\ raised = [r \in Runners |-> FALSE]
    /\ commands = 0 /\ crashes = 0 /\ writes = 0

\* alembic is started
start(r) ==
    /\ pc[r] = "idle" /\ commands < MaxCommands
    /\ commands' = commands + 1
    /\ \E c \in Commands : command' = [command EXCEPT ![r] = c]
    /\ pc' = [pc EXCEPT ![r] = "waiting"] /\ raised' = [raised EXCEPT ![r] = FALSE]
    /\ UNCHANGED <<version, schema, runs, twins, lock, seen, crashes, writes>>

\* A mistake: whoever holds the lock
acquire_Unlocked(r) ==
    /\ pc[r] = "waiting"
    /\ lock' = r /\ pc' = [pc EXCEPT ![r] = "locked"]
    /\ UNCHANGED <<version, schema, runs, twins, command, seen, raised, commands, crashes, writes>>

\* pg_try_advisory_lock, and the commit that ends its implicit transaction
acquire(r) ==
    /\ pc[r] = "waiting" /\ lock = NoRunner
    /\ lock' = r /\ pc' = [pc EXCEPT ![r] = "locked"]
    /\ UNCHANGED <<version, schema, runs, twins, command, seen, raised, commands, crashes, writes>>

\* The deadline passes with the lock still held by another
give_up(r) ==
    /\ pc[r] = "waiting" /\ lock # NoRunner
    /\ pc' = [pc EXCEPT ![r] = "idle"]
    /\ UNCHANGED <<version, schema, runs, twins, lock, command, seen, raised, commands, crashes, writes>>

\* The transaction begins: alembic reads where the database is
read_version(r) ==
    /\ pc[r] = "locked"
    /\ seen' = [seen EXCEPT ![r] = version] /\ pc' = [pc EXCEPT ![r] = "migrating"]
    /\ UNCHANGED <<version, schema, runs, twins, lock, command, raised, commands, crashes, writes>>

\* It commits every revision of the way, or raises and leaves everything as it was
migrate(r) ==
    LET db == Migrated(Database, seen[r], command[r][1], command[r][2])
    IN /\ pc[r] = "migrating"
       /\ IF db.ok THEN /\ version' = db.version /\ schema' = db.schema
                        /\ runs' = db.rows /\ twins' = db.twins
                   ELSE UNCHANGED <<version, schema, runs, twins>>
       /\ raised' = [raised EXCEPT ![r] = ~db.ok]
       /\ pc' = [pc EXCEPT ![r] = "unlock"]
       /\ UNCHANGED <<lock, command, seen, commands, crashes, writes>>

\* The finally clause
unlock(r) ==
    /\ pc[r] = "unlock"
    /\ lock' = IF lock = r THEN NoRunner ELSE lock
    /\ pc' = [pc EXCEPT ![r] = "idle"]
    /\ UNCHANGED <<version, schema, runs, twins, command, seen, raised, commands, crashes, writes>>

\* A runner dies: its transaction is rolled back, its session holds the lock until reap
crash(r) ==
    /\ pc[r] # "idle" /\ crashes < MaxCrashes
    /\ crashes' = crashes + 1
    /\ lock' = IF lock = r THEN Orphan ELSE lock
    /\ pc' = [pc EXCEPT ![r] = "idle"]
    /\ UNCHANGED <<version, schema, runs, twins, command, seen, raised, commands, writes>>

reap ==
    /\ lock = Orphan /\ lock' = NoRunner
    /\ UNCHANGED <<version, schema, runs, twins, pc, command, seen, raised, commands, crashes, writes>>

\* An application of the revision in force writes a run
write_run ==
    /\ writes < MaxWrites /\ writes' = writes + 1
    /\ \E k \in KindsAt(version) \ runs : runs' = runs \cup {k}
    /\ UNCHANGED <<version, schema, twins, lock, pc, command, seen, raised, commands, crashes>>

\* It enqueues a second job of a run, which the unique indexes may forbid
write_second_job(kind) ==
    /\ writes < MaxWrites /\ writes' = writes + 1
    /\ version >= 4 /\ runs # {} /\ kind \notin twins
    /\ LET initial == "jobs(optimization_run_id): initial"
       IN initial \in DOMAIN schema => schema[initial] = 23 /\ kind = "continuation"
    /\ twins' = twins \cup {kind}
    /\ UNCHANGED <<version, schema, runs, lock, pc, command, seen, raised, commands, crashes>>

Next ==
    \/ \E r \in Runners :
        \/ start(r) \/ acquire(r) \/ give_up(r) \/ read_version(r) \/ migrate(r) \/ unlock(r)
        \/ crash(r)
    \/ reap \/ write_run
    \/ \E kind \in {"initial", "continuation"} : write_second_job(kind)

Spec == Init /\ [][Next]_vars

-----------------------------------------------------------------------------
(* Properties *)

\* Whatever was upgraded, downgraded, refused or interrupted: alembic_version tells which
\* schema stands, the one its chain of upgrades makes of an empty database (0018 leaves one
\* column behind on purpose); the rows are of kinds it can hold; and at the newest revision
\* there is all that the models and the services rely on.
SchemaIsVersioned ==
    /\ migrations_accepted
    /\ LET residue == IF version < 18 THEN {"approval_requests.optimization_run_id"} ELSE {}
       IN [n \in DOMAIN schema \ residue |-> schema[n]] = Chain[version]
    /\ runs \subseteq KindsAt(version)
    /\ version \in 11..22 => twins = {}
    /\ version = Newest => Models \cup Relied \subseteq DOMAIN schema /\ "initial" \notin twins

\* Two names of one status, at 0010 and at 0011
Renamed(s, t) == s = t \/ {s, t} = {"PENDING", "CREATED"}

\* 0011 and 0015 in both directions: a migration never turns a run into one that stands
\* elsewhere; it keeps its reason while there is a column for it; and from the operational
\* indexes on (0019), nothing goes back.
MigrationKeepsRuns ==
    [][version' # version =>
        /\ version >= 19 => version' > version
        /\ version' >= 4 => \A k \in runs : \E new \in runs' :
              /\ Renamed(k.status, new.status) /\ k.snapshot = new.snapshot
              /\ version' >= 15 /\ k.reason # "none" => new.reason = k.reason]_vars

\* env.py, the session lock: runners that overlap do not make each other fail; an upgrade
\* raises over the rows it finds and over nothing else.
UpgradeRaisesOverRowsOnly ==
    [][\A r \in Runners : pc[r] = "migrating" /\ raised'[r] /\ command[r][1] = "upgrade" =>
          \/ version < 4 /\ runs # {}
          \/ version < 11 /\ (twins # {} \/ \E k \in runs : k.status = "RUNNING")]_vars

\* docs/R20_R23_HARDENING_AUDIT.md:75, "migration 0019 adds seven operational indexes"
OperationalIndexesAdded == version >= 19 => \A n \in rev_0019.ensure : schema[n] = 19
=============================================================================
