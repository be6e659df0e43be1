# A verification development of the query-optimization framework

This directory holds TLA+ modules that model the control plane of the framework, the TLC
configurations that check them, and theorems about them that TLAPS proves.  The code is the
reference: each definition is translated from the lines that `PROJECT.json` names under `map`
(paths there are relative to the repository, which is `src/`).  Paths in this file are relative
to `src/backend/app/` unless they begin with `docs/`, `scripts/` or `README.md`.

Contents: 1 the system · 2 what is hard about it · 3 the plan · 4 the modules and the code ·
5 the runs · 6 fairness · 7 the proofs · 8 where code and documentation disagree ·
9 abstractions · 10 what is not modelled · 11 what is left

## 1. The system

A *run* takes one MongoDB target through a fixed rail of states, from `CREATED` to a terminal
state.  The control plane keeps everything in PostgreSQL; worker processes poll a job table,
claim a run's job and drive the run as far as it goes; an API creates runs and decides
approvals; the target is touched through a typed adapter only.

| Part | State it keeps | Operations | Talks to |
|---|---|---|---|
| Job queue, `worker/durable.py` | `jobs` rows: status, owner, lease, attempts | enqueue, claim, heartbeat, complete, fail | PostgreSQL, clocks of the workers |
| Worker process, `worker/service.py` | its identity, the job in hand | poll, dispatch, handler loop, shutdown | queue, orchestrator |
| Orchestrator, `runs/orchestrator.py` | none of its own | one stage per call, by the run's status | all services below |
| Run repository and graph, `db/repositories.py`, `state_machine/` | `optimization_runs` | transition with evidence guards | PostgreSQL |
| Workload snapshots, `workloads/durable.py` | windows, observations, snapshots | persist a window, create a snapshot | PostgreSQL |
| Diagnosis, `diagnosis/durable.py` | invocations (the audit), one artifact per run | create or reuse | AI provider, PostgreSQL |
| Candidates, `candidates/`, `query_shapes/registry.py` | candidate rows and their set | derive, create or reuse | target metadata |
| Ranking, plan, evaluation, admission, authority | one immutable artifact per run each | create or reuse, record pairs, decide | PostgreSQL, AI provider |
| Approvals, `approvals/durable.py` | `approval_requests`, decisions | request, approve and enqueue, reject | API, queue |
| Deployment, `production/durable.py` with `production/target_lock.py` and `recovery/durable.py` | artifact, recovery journal, advisory lock | deploy with recovery | target, ledger |
| Monitoring, `monitoring/durable.py`, `monitoring/post_deployment.py` | experience records | collect, decide | rollback |
| Rollback, `rollback/durable.py` | rollback records | drop the run's own index | target, ledger |
| Ledger, `ledger/postgres.py` | hash chain per target | append, verify | PostgreSQL |
| Query settings, `production/query_settings_durable.py` | its own deployments | deploy, rollback | target, ledger |
| In-process settings, `production/query_settings.py`, `approvals/flow.py` | dictionaries of one process | deploy, roll back | target adapter |
| In-process deployment, `production/executor.py`, `approvals/flow.py`, `rollback/owned_index.py` | dictionaries of one process | approve, deploy, roll back | target adapter |
| Workload shift, `monitoring/workload_shift.py` | counters of one process | observe | a scheduler callback |
| Sandbox, `evaluation/sandbox.py`, `isolation/lock.py` | a copy of the data, one lock of the process | evaluate; the lock's windows | evaluation target, AI provider |
| AI provider, `ai/provider.py` | none | structured request with one retry, embedding | the model's server |
| Auth, `auth/` | users, refresh tokens | login, refresh, logout | API |
| Metadata store, `alembic/` | the schema, its revision | upgrade, downgrade | PostgreSQL |
| Experiments, `benchmarks/`, `scripts/` | manifests and files of trials, a benchmark database | orchestrate, measure a pair, invalidate, verify, export | files, MongoDB |

The last three parts are apart from the control plane: operators run them by hand.

The others meet in three ways.  *Shared rows*: every durable service runs short PostgreSQL
transactions, and between two of them another process may act; what protects a row is `FOR
UPDATE`, a unique constraint, or a condition of the `UPDATE`.  *The lease*: a worker may drive a
run only while it owns the job, which it asks for between stages (`ensure_lease_owned`), so a
worker whose lease ran out goes on until it asks.  *The target*: one advisory lock per target
is to keep mutations apart; human operators do not take it.

What makes each part correct, in a sentence, with the property that says so:

* queue – a job is settled once, by the holder of its latest claim (`ImplementsContract`), the
  owner column alone tells that holder (`OwnerHoldsLatestClaim`), retries are bounded
  (`RetryBudget`), a healthy holder keeps its job (`HealthyHolder`), and every job is
  settled in the end (`JobsSettle`);
* run – each state has the evidence its name promises (`EvidenceChain`), evidence once written
  is never changed (`EvidenceFrozen`), production is reached with an authority or an approval
  only (`ProductionIsAuthorized`), a decision takes effect (`DecisionTakesEffect`), and no run
  is left with nobody to work on it (`NothingStranded`, `RunSettles`);
* deployment – one mutation of a target at a time (`TargetExclusion`), a run that says
  `DEPLOYED` has the evidence (`DeployedEvidence`), `ROLLED_BACK` is true (`RolledBackTruth`),
  an index once verified is not built a second time (`NoRedeploy`), the ledger is in order
  (`LedgerOrdered`), the lock is always freed and the run comes to rest (`LockFreed`, `RunRests`);
* ledger – the chain verifies and only grows at its end (`ChainsVerify`, `AppendedAtEnd`);
* snapshots, diagnosis – what is stored is what the policy asks for and what the audited call
  answered, and the AI is not asked again after a failure (`SnapshotIsSound`, `DiagnosisIsSound`);
* candidates, evaluation, admission, monitoring – the verdict follows from the evidence, one
  decision a run, one cause a rollback (`DerivationIsSound`, `EvidenceIsSound`,
  `AdmissionIsSound`, `MonitoringIsSound`);
* query settings – ledgered once, told truly, no deployed hint removed but the one of the action
  rolled back (`LedgeredOnce`, `RowsTellWhatWasSeen`, `UndoesOwnHintOnly`), and in one process as if in one step
  (`SettingsAreAtomic`);
* in-process deployment, shift detection – in order on a target and truly told
  (`DeploymentsAreLedgered`), one re-analysis an episode (`EpisodesAskOnce`);
* sandbox and model – a benchmark runs alone, on the data it was copied from, with its own index
  only; advice is what was received (`MeasurementIsSound`); whoever waits for the lock gets it
  (`EveryCallEnds`);
* sessions – a refresh token is used once, a login has one valid token, a lockout holds
  (`SessionsAreSound`);
* schema – the revision names the schema that stands, whatever overlapped or died
  (`SchemaIsVersioned`), runs survive migrations as what they were (`MigrationKeepsRuns`), and
  an upgrade raises over rows it cannot convert and over nothing else
  (`UpgradeRaisesOverRowsOnly`);
* experiments – what passed is whole, its arms began equal (`EvidenceIsWhole`), and nothing is
  measured a second time over (`MeasuredOnce`).

## 2. What is hard about it

`PROJECT.json` lists the hazards, each at its line with the properties that would catch it.
They fall into these groups.

* **A lease that ran out under a live worker.**  Two workers then drive one run; the first
  learns of it only when it next asks.  Every service must be safe against its own twin.
* **A process that dies between two transactions**, or between a transaction and a call to the
  target: between claim and complete, between the index build and its record, between a record
  and its ledger entry, between an AI answer and the artifact made of it.
* **State read, awaited, and used**: the attempts copied at the claim, the status the
  orchestrator chose its next transition from, the approval checked before the mutation, the
  index verified before the drop, the clock read before the wait for a row's lock.
* **Locks with nothing to lock**: `FOR UPDATE` on a row that does not exist yet leaves the
  decision to a unique constraint, where there is one.
* **Locks that outlive their holder**: an advisory lock belongs to a session, and the session
  of a dead process ends when PostgreSQL notices.
* **Clocks**: lease expiry is compared with the clock of the claiming worker.
* **Humans**: operators change the target outside the lock; approvers and rejecters race each
  other and the expiry.
* **Operators' tools that are interrupted, repeated and run at once**: a migration that dies
  holding the advisory lock, a trial file half written, an invalidation that writes back a
  manifest it read before the orchestration changed it, a benchmark that stops between the reset
  and the drop of its index.
* **Boundaries of counts and windows**: how many pairs suffice, which windows a snapshot may
  hold, when a breach is sustained.

## 3. The plan

Most important behaviour first; each module is written so that it can be proved about as well
as checked (constants with named assumptions, one action per operation, invariants as
conjunctions, no recursive operator).

1. `JobQueue` with its contract `LeasedWork`, and `JobQueueProofs` – *done*
2. `RunStates`, `IndexDeployment` (deployment, monitoring, rollback, lock),
   `IndexDeploymentProofs` – *done*
3. `RunLifecycle`, the orchestrator with approvals and evidence, and `RunLifecycleProofs` –
   *done*
4. `QuerySettings` and `QuerySettingsProofs` – *done*
5. The records that workers write side by side: `Ledger`, `DiagnosisAudit`, `WorkloadSnapshots`,
   `Sessions`, and `RecordsProofs` – *done*
6. The conclusions of a run: `CandidateDerivation`, `AdmissionDecision`, `PostDeploymentMonitor`,
   and `VerdictsProofs` – *done*
7. The in-process parts: `DirectDeployment`, `WorkloadShift`, `TrialEvidence`, `Measurement`, and
   `InProcessProofs`; `DirectSettings` with its contract `AtomicChange`, proved in
   `QuerySettingsProofs` – *done*
8. What operators run: `SchemaMigrations`, `Experiments`, `BenchmarkPairs`, and
   `OperationsProofs` – *done*
9. The components of section 10 that have state of their own – *left*

Composition: `MCRecords`, `MCVerdicts`, `MCInProcess`, `MCOperations` and `MCQuerySettings` put
components side by side that share no state (section 5).  Components that do share state are one
module: deployment, monitoring, rollback, lock and lease in `IndexDeployment`; orchestrator,
repository, approvals, artifacts and jobs in `RunLifecycle`; sandbox, isolation lock and provider
in `Measurement`; orchestration, runner, invalidation and export in `Experiments`.
`IndexDeployment` opens up the production stages that `RunLifecycle` takes in one step, and
`JobQueue` opens up the leases that both take as claims and losses.  `SchemaMigrations` says of
which revision on the unique keys exist that the other modules rely on (`Relied`).  `RunStates` is
shared by `IndexDeployment` and `RunLifecycle`.

Abstract specifications: `LeasedWork` is what the queue promises, which `JobQueue` implements by
`Contract == INSTANCE LeasedWork WITH ...`; `AtomicChange` is what the executor of settings in
one process promises whoever reads its ledger, which `DirectSettings` implements by
`Atomic == INSTANCE AtomicChange WITH ...`.

## 4. The modules and the code

An action is what the code does between two awaits that something else can come between: one
PostgreSQL transaction, one call to the target, or the local code that follows it.  Its guard is
the condition of the SQL statement or of the branch that leads there, together with the worker's
position `pc`.  Variables are rows, the external state of the target, and the locals a coroutine
carries over an await.  `PROJECT.json` maps every definition to its lines; definitions whose
name has a suffix (`claim_KeepsOwner`, `verify_Waits`) are the code with one mistake in it,
used to see that the properties notice.

**`JobQueue`** (`worker/durable.py`, `worker/service.py`).  A job's row is `status`, `attempts`,
`lease_owner`, `lease_left` (time until `lease_expires_at`) and `available_in`.  `enqueue`,
`claim` (the single `UPDATE ... FOR UPDATE SKIP LOCKED`, ordered by availability), `heartbeat`,
the completion in `handler_returns`, `fail` with its backoff are one action each (a loop that is
told to stop while it sleeps renews once more before it ends); so are the errors of each call (`complete_error` is the exception after the commit).  `run_once` is split
over `pc`; the heartbeat task is `beating`, the event it sets is `lease_lost`, shutdown is
`stopping`.  `Skew` is the offset of a worker's clock, `Tick` passes time for all.

**`LeasedWork`** is what the queue promises: a job is granted, perhaps again to another, and
settled once, by the holder of the newest grant.  `Contract` maps a grant to a claim by the
pair of worker and number of the attempt.

**`IndexDeployment`** (`production/durable.py`, `production/target_lock.py`,
`recovery/durable.py`, `monitoring/durable.py`, `rollback/durable.py`, the stages of
`runs/orchestrator.py` from `APPROVED` on).  `deploy_for_run` is `load` … `finish`,
`rollback_for_run` is `rb_lookup` … `rb_record`, monitoring is `collect`, `remember`, `settle`.
`lock` is the advisory lock, held by a worker, by nobody, or by the session of a dead process
(`Orphan`), which `reap` ends.  `slot` and `rest` are what `_state()` reports of the target:
what stands under the index's name, and the other indexes; `maker` records who put it there,
which the program cannot see.  `notice_loss` is a lease that runs out under a live worker,
`approval_expires` and `human_edit` are the outside.

**`RunLifecycle`** (`runs/orchestrator.py`, `db/repositories.py`, `worker/service.py`,
`approvals/durable.py`, `authority/durable.py`, and the services that create artifacts).  A stage
is one action, or two where another process can come between its read and its write (`generate`
and `persist_generation`, `rank` and `persist_ranking`).  `transition` checks the edge against
the *locked* status and the evidence its reason names; `evidence` holds the run's artifacts as
records, so that a guard is a condition on fields.  `approve` and `reject` are whole
transactions with the job they enqueue.

**`RunStates`** is the frozen graph of `state_machine/`, with its terminal states.

**`QuerySettings`** (`production/query_settings_durable.py`).  `deploy` and `rollback` read by
read and write by write under the target lock; `check` and `append` are the two transactions of
`_append_once`.  An action is a record of the hint it sets (`allowed`) and the setting it was
planned against (`previous`), since the code hashes the whole action into row, key and
ownership token (`query_settings_durable.py`:65-67): several actions may set one hint, and each
has a row of its own.  `maker` records whose deployment made the present setting, which the
program cannot see.

**`Ledger`** (`ledger/postgres.py`).  `append` is `select` (with the wait of `FOR UPDATE` in
`lock`), `insert` (with the wait of the unique index), `commit` or `rollback`; `verify_target`
is the recomputation of the chain.

**`WorkloadSnapshots`** (`workloads/durable.py`, the telemetry insert).  `newest` and `select`
are the two selections of one `READ COMMITTED` transaction, between which `persist_completed`
may commit a window.

**`DiagnosisAudit`** (`diagnosis/durable.py`).  `lookup`, `ask`, `count`, `insert`, `persist`,
`transition` are its transactions and its call of the provider.

**`CandidateDerivation`** (`query_shapes/registry.py` `canonicalize`, `candidates/durable.py`,
`candidates/index_generator.py`).  From the queries of a snapshot to the keys of the candidates:
`Token` is what canonicalization makes of a value, `generate` the equality-sort-range order
with its length limits, `Referenced` the choice of shapes by the findings, `Lacking` what the
target does not have yet.  Fields are numbers in their alphabetical order, and `Sorted` puts each
where the number of fields up to it says.

**`TrialEvidence`** (`evaluation/durable.py`, driven by `_evaluate_real` of
`scripts/r24_system_acceptance.py`:573-643, the executor that measures on real collections).
`execute` lists the candidates, in any order and anew in each execution, since the query has no
`ORDER BY` (:584-597); `drop`, `baseline`, `create`, `candidate`, `clean` are the executor's calls
to the target, `record` and `insert` are `record_pair`.

**`AdmissionDecision`** (`admission/statistics.py`, `admission/durable.py`).  `Evaluate` is the
whole verdict on a request, gate by gate in the order of the code; `decide` and `commit` are the
transaction, with the unique index that decides between two workers.

**`PostDeploymentMonitor`** (`monitoring/post_deployment.py`, `monitoring/durable.py`).
`rollback_required` is `_decide`, with `Sum` and `numbers` for `_average` and `Latest` for the
slice of the last windows; the stage is `monitor` (or `monitor_raises`), `roll_back`,
`record_audit`, `lookup`, `record_experience`, `transition`.  `collect_windows` is a callable the
service is given (`monitoring/durable.py`:24-32): each call may get any collection of
`Collections`, unlike that of the call before, and `decided` keeps what each decided on what.

**`DirectDeployment`** (`approvals/flow.py`, `production/executor.py`, `autonomy/policy.py`,
`rollback/owned_index.py`, `ledger/chain.py`).  Tasks of one event loop; the holder of the
per-target `asyncio.Lock` is `holder`.  A call comes in one of the two deployment modes:
`require_current_approval` looks at the approvals only where `approval_required` says so
(`executor.py`:68), so that in `FULL_AUTONOMOUS` an index is deployed without one.  The entries of
the model's ledger carry the mode, which the code does not store.

**`WorkloadShift`** (`monitoring/workload_shift.py`).  `observe` up to the await of the
scheduler, and `resume` after it.

**`Sessions`** (`auth/routes.py`, `auth/`).  `login`, `refresh` and `logout` with the lock of the
user's or the token's row; `begin` reads the clock, before the wait.

**`DirectSettings`** (`production/query_settings.py`, `approvals/flow.py`, `autonomy/policy.py`,
`ledger/chain.py`).  The executor of one process, await by await under its lock: `read_hint`,
`verify` (with the human gate that a setting in place raises in every mode), `prepare`,
`set_hint`, `applied`; `rb_read`, `rb_set`, `rolled_back`.  `human_sets` and `adapter_raises` are
the outside.

**`AtomicChange`** is its promise: intent, change and entry are one step each, changes come one
after the other, and a setting that was there is replaced under a current approval only.  It
promises nothing more once somebody else changed the setting or the adapter raised (`Disturb`).

**`Measurement`** (`evaluation/sandbox.py`, `evaluation/mongodb_copier.py`, `isolation/lock.py`,
`ai/provider.py`).  `queue` is the `asyncio.Lock`, which serves its waiters in their order.
`evaluate` reads the source collection by collection, replaces the copy, compares, reads the
source again, builds the index, and benchmarks in its window of the lock; `ask` is a request that
holds the lock for one attempt and queues again for the second.  `Verdict` is how `_structured`
ends.

**`SchemaMigrations`** (`alembic/versions/`, `alembic/env.py`, `db/models.py`,
`scripts/check_r19b_migrations.py`).  A schema is a function from the names of its objects to
the revision whose definition stands.  `rev_0001` … `rev_0023` say what each revision makes,
redefines, renames and leaves behind; `Upgraded` and `Downgraded` apply them, `RowsUp` and
`RowsDown` convert the runs, `RefusesUpgrade` and `RefusesDowngrade` are what raises.  `Up` and
`Down` follow a database from revision to revision, `Chain` is what the upgrades make of an empty
one, and `KindsAt` says which kinds of run an application of a revision may write.  A process
is `start`, `acquire` or `give_up`, `read_version`, `migrate` (one transaction), `unlock`; it may
`crash`, and `reap` ends its session.  `Models` is what the mapped classes name.

**`Experiments`** (`scripts/experiment_orchestrator.py`, `scripts/run_commercebench_profile.py`,
`benchmarks/r28_runner.py`, `benchmarks/orchestration.py`, the two `invalidate_*` scripts,
`check_r28_authoritative_evidence.py`, `generate_exports.py`).  All state is files.  `launch`,
`reuse`, `begin`, `finish`, `record`, `complete` are the orchestration with its writes one by one;
`child_begins`, `ensure_pair`, `conclude`, `child_fails` the process that measures; `invalidate`,
`mark`, `read_top`, `write_top` an invalidation, which may run beside it; `Verified` and
`Exported` read the outcome.

**`BenchmarkPairs`** (`benchmarks/mongodb_executor.py`, `benchmarks/reset.py`,
`benchmarks/ablations.py`).  `reset` chooses between the full restore and the delta reset by the
plan the executor has in memory; `restore_drops`, `restore_inserts`, `build_reset_plan`,
`drop_optimizer_indexes`, `delta_reset_writes`, `observed_digest` are their commands;
`candidate_setup`, `measure`, `next_arm`, `persist` are an arm and the pair.  `begun` records
what an arm began from, which the program does not.

The modules whose name ends in `Proofs` hold the proofs; the `MC` modules hold the instances for
TLC.

## 5. The runs

| Run | Question | Distinct states |
|---|---|---|
| `job_queue` | does the owner column fence, do retries end, does the queue implement its contract, with late heartbeats and clocks apart; with punctual ones, does a healthy holder keep its job, and is every job settled? | 1.2 million |
| `deployment_safety` | is the target changed by one worker at a time, and is what the rows and the ledger say of it true, through lost leases, crashes and operators? | 1.9 million |
| `deployment_liveness` | is the lock always freed, and does the run come to rest? | 329 thousand |
| `lifecycle_safety` | does every state have its evidence, and does every decision take effect, with overlapping workers? | 1.6 million |
| `lifecycle_liveness` | does the run come to rest? | 44 thousand |
| `query_settings` | are settings ledgered once and truly, and does a rollback remove no deployed hint but its own action's; does the executor of one process implement `AtomicChange`? | 6.1 million |
| `records` | do concurrent transactions write only what they may (ledger, diagnosis, snapshots, sessions)? | 1.3 million |
| `verdicts` | do derivation, admission and monitoring conclude what the evidence says? | 257 thousand |
| `in_process` | are the in-process deployment, the shift detector, the trial executor, the sandbox and the model's lock right at every await? | 480 thousand |
| `operations` | are schema and evidence what they claim to be, whatever operators start, interrupt, repeat and overlap? | 2.0 million |
| `deployment_ledger_gap` | violated: every write is in the ledger (section 8) | – |
| `admission_short` | violated: an admitted candidate has the pairs required (section 8) | – |

**Bounds, and why they suffice.**

* `job_queue`, two timings.  The configuration gives the constants of "on time", and
  `MCJobQueue` changes them for "late".  "late": two jobs, two workers with clocks one unit
  apart, a lease of two units, two attempts, three claims of a job, one database error,
  heartbeats as late as one likes.  Three claims let a job be lost, taken, and lost again after its attempts are used up;
  the second job makes the order of claims matter.  A third worker adds nothing a second cannot
  do: only the holder of the row and one that was dispossessed are told apart.  "on time": a lease
  of three units, so that the heartbeat's interval, a third of the lease in the code, is one
  unit, and interval and skew together are less than the lease; `w2` survives, `w1` may die or be
  stopped.  Five claims let the claims lost to the skew and the crash be repeated.
* `deployment_safety`: two scenarios.  "one run": two workers, which may overlap, three claims,
  one crash, one operator's edit – the original, the one that recovers, and the one that
  finds all done.  "two runs": both propose the same index and are worked on in turn, twice
  each, with a crash – adoption and the ownership of a rollback.  Both at once are too many
  states and show no further interaction: a worker holds one run, and runs meet at the lock
  and the target.
* `lifecycle_safety`: two candidates and a plan that may take one of them, so that selection,
  ranking and admission can name the wrong one; two users, so that one may decide their own
  request; two claims and a crash with overlap.
* `query_settings`: two processes and four calls (deploy and roll back by both) either way.
  *durable*: three actions, of which two set one hint and the third another, two evidence
  fingerprints, a crash and an operator's edit; a third action of the one hint could do nothing
  that the second cannot.  *direct*: two
  actions of which the second replaces what the first one set, with one setting of somebody
  else or one exception of the adapter.
* `records`: *ledger* three writers, two targets, four entries (one that holds the lock, one
  that waits for it, one that finds an empty chain; a fork needs two, its detection three);
  *diagnosis* two workers, two answers, four calls; *snapshots* two runs, three units of time,
  two windows (the second late); *passwords* a limit of two failures, a lockout of two units,
  four checks; *tokens* two logins, three tokens, a lifetime of two.
* `verdicts`: requests of one metric or two (the second another, or another observation of the
  same key) whose counts lie on both sides of every threshold of the three profiles; four baselines (even, with a window without latency, with none, too short) with
  every sequence of up to four windows of eight kinds, one for each cause and each threshold;
  where workers overlap and die and calls follow each other, each of the three calls collects any
  of four, two of which require a rollback.  *derivation*: any filter of six fields (one above the limit),
  and two queries of one or two namespaces with any findings, allowlist and accessibility.
* `in_process`: *direct* two tasks, one action, two evidences, both modes, three calls, one request for approval
  (with two evidences it is current for one call and stale for another);
  *shift* eight windows for three in a row, so that an episode can end and another begin;
  *trial* three pairs (one measured in reversed order), two candidates in any order, three
  executions (one may fail in either candidate, the next begin with the other);
  *measure* an evaluator and two callers, one of either provider, so that three tasks queue for
  the lock, with three calls (an index left by one evaluation meets the next) and two writes of the
  application (away from a value and back to it).
* `operations`: *migrations* two processes, three commands up to revisions 4, 18 or 23 or down to
  3, 10 or 15 – on either side of each revision that converts, refuses or leaves something
  behind – with a crash and two rows written in between; the chain of all 23 revisions is
  evaluated in every case.  *experiments* one constituent of each kind, of two pairs after one
  calibration pair, over the evidence of two earlier generations; three launches, a fault and two
  invalidations, so that what is interrupted, then invalidated, is launched again.  *pairs* two
  datasets, an index with the optimizer's prefix and one without, three calls and a fault: a call
  that fails, one that inherits what it left, and one after that.

**Side by side.**  The components of `MCRecords`, `MCVerdicts`, `MCInProcess`, `MCOperations` and
`MCQuerySettings` share no variable, so a product of them has no behaviour that matters beyond
those of each, and would only multiply states.  `acting` is chosen in the initial state and names
the one component whose steps are taken.  Some names restrict a component further to a case that
a part of a property needs and say so ("one diagnosis": calls do not overlap; "one stage": one
worker at a time monitors; "undisturbed": nobody else changes the target): that part fails
otherwise, and section 8 has the configurations that show it.

**Symmetry** is used only in runs without liveness properties, and over sets whose members
nothing distinguishes (`Skew` distinguishes the workers of `JobQueue`, so there is none there).

**Deadlock** is checked in the job queue, which can always go on.  In the other configurations
it is off: claims and calls are bounded, and runs end.

Where a module has a `TypeOK` that no run lists, it documents the types of its variables.

## 6. Fairness

Weak fairness only, and never of a user, an operator, a crash, a fault, an expiry or a request.

* `JobQueue`, in "on time": time passes; a worker that is neither dead nor stopped polls, beats, and ends
  its handler or its `fail`.  The poll loop is `while not stopping`; the heartbeat is a task of
  the same event loop; a handler ends because the orchestrator takes a bounded number of steps.
* `IndexDeployment`: a worker with a stage takes its next step, a free one polls for each
  run, and PostgreSQL ends the sessions of dead processes (`reap`), which is what releases
  session-level advisory locks.
* `RunLifecycle`: a worker with a job works on it and a free one polls.  Nobody has to decide an
  approval, so `RunSettles` counts `APPROVAL_PENDING` as rest.

* `Measurement`: each task takes its next step once it was called, for every await of it returns
  or raises: the driver and the HTTP client have timeouts.  Nobody has to call, and the
  application need not write.

`RunRests` and `RunSettles` also count a run whose job used up its claims: nobody comes back to
it (section 8, `FailedJobEndsRun`).  In `deployment_liveness` `MaxClaims` is the bound of the
attempts and stands for `max_attempts`.

## 7. The proofs

For all values of the constants, from the assumptions named in the modules: `QueueConstants`,
`DeploymentConstants`, `LedgerConstants`, `QuerySettingsConstants`, `SettingsConstants`,
`RecordsConstants`, `DirectConstants`, `InProcessConstants`, `AdmissionConstants`,
`VerdictsConstants`, `MonitoringConstants`, `DerivingConstants`, `OperationsConstants` (that
"nobody" is not a worker, that bounds are numbers, that windows are of their type, that a workload
has one query of an identity and of a shape, that an entry is not the genesis hash, that an action
sets a hint of its own, that the scenarios' requests are among the requests, that the sets of
constituents are finite and have none in common), `RequestsAreTyped`, `LifecycleConstants`
(finitely many candidates) and `AbsentIsNoArtifact` (what stands for a missing artifact is none).

Five theorems assume more, and say so in their statement; in each case a configuration of
section 8 shows that the property fails without it, or the paragraph below says what the code
leaves open: `HealthyHolderIsSafe` (`Timely`, `ClocksAgree`), `SnapshotsFollowThePolicy`
(`WindowsFit`), `MeasurementsAreSound` (one evaluator), `EpisodesAreAskedOnce`
(`ObservedInTurn`) and `EvidenceIsSoundInTurn` (`ExecutedInTurn`).  What the theorems about
`MCRecords`, `MCVerdicts` and `MCInProcess` say of "one diagnosis", "one stage" and "undisturbed"
is said there of `acting`.

| Theorem | Says |
|---|---|
| `JobQueueProofs!TypeCorrect` | rows and locals keep their types |
| `JobQueueProofs!OwnerFencing` | a row that names a worker stands for the very claim it handles |
| `JobQueueProofs!RetriesBounded` | a job goes back to `PENDING` only while it has attempts left |
| `JobQueueProofs!QueueImplementsContract` | the queue refines `LeasedWork` |
| `JobQueueProofs!HealthyHolderIsSafe` | with punctual heartbeats and clocks that agree within the lease, a healthy holder keeps its job |
| `IndexDeploymentProofs!TypeCorrect` | rows, target, lock and workers keep their types |
| `IndexDeploymentProofs!TargetMutualExclusion` | no two workers are inside a deployment or rollback of the target |
| `IndexDeploymentProofs!DeploymentsAreEvidenced` | a run past `DEPLOYING` has its artifact, its verified state and its journal |
| `IndexDeploymentProofs!NothingRedeployed` | an index is created for a `DEPLOYING` run only, before it is recorded as applied or taken back |
| `IndexDeploymentProofs!LedgerTellsInOrder` | no event of a run is entered twice or after a later one |
| `IndexDeploymentProofs!RollbacksAreTrue` | a run that ends `ROLLED_BACK` has its record, its entry and no index of its own |
| `RunLifecycleProofs!TypeCorrect` | run, artifacts, request, jobs and workers keep their types |
| `RunLifecycleProofs!ArtifactsAreChained` | every artifact rests on the artifacts before it |
| `RunLifecycleProofs!ArtifactsAreFrozen` | no step changes an artifact that exists |
| `RunLifecycleProofs!ProductionNeedsAuthority` | a run in production has its authority, and a human's approval where one is required |
| `RunLifecycleProofs!DecisionsTakeEffect` | request, decision, run and continuation job say the same |
| `RunLifecycleProofs!RunsAreNotStranded` | a run that is neither over nor waiting for a human has a job |
| `RecordsProofs!TypeCorrect` | rows and transactions keep their types |
| `RecordsProofs!ChainsAlwaysVerify` | the verification of an untampered chain never fails |
| `RecordsProofs!AppendsComeLast` | rows never change, and commits come in the order of the chain |
| `RecordsProofs!DiagnosesAreAudited` | a diagnosis says what its recorded call answered; called one at a time, the model answers once |
| `RecordsProofs!SnapshotsFollowThePolicy` | a snapshot has the windows the policy asks for, and no window of another |
| `RecordsProofs!SessionsKeepTheirRules` | a token has one successor, a login one valid token, a lockout holds |
| `QuerySettingsProofs!TypeCorrect` | rows, ledger, setting, lock and calls keep their types |
| `QuerySettingsProofs!EventsEnteredOnce` | a success is told after its entry only, and no entry is made twice |
| `QuerySettingsProofs!RowsAreEvidenced` | a row that says `APPLIED` or `ROLLED_BACK` was written by a call that saw that setting |
| `QuerySettingsProofs!RollbackUndoesOwnHint` | a rollback removes no deployed hint but the one of its own action |
| `QuerySettingsProofs!SettingTypes` | state, approvals, ledger and calls of the executor of one process keep their types |
| `QuerySettingsProofs!ExecutorIsAtomic` | the executor of one process refines `AtomicChange` |
| `InProcessProofs!BenchmarkIsIsolated` | nothing else runs while a benchmark does, and advice is the last answer received |
| `InProcessProofs!MeasurementsAreSound` | with one evaluator, a benchmark runs on what was read and on its own index alone |
| `InProcessProofs!DeploymentsKeepTheLedger` | what was prepared was approved unless its mode needs no approval, entries come in the order of the protocol; left alone, the ledger tells which indexes are there |
| `InProcessProofs!EpisodesAreAskedOnce` | observed in turn, an episode is asked about once, not early and not never |
| `InProcessProofs!EvidenceIsSoundInTurn` | executed in turn, what goes to admission is complete, measured once, and compares arms that differ in the candidate's index alone |
| `VerdictsProofs!AdmissionsAreSound` | a verdict follows from the evidence that counts, and a run gets one decision, on its best admitted candidate |
| `VerdictsProofs!MonitoringStaysSound` | a rollback is required for an alarm or a sustained streak and never without a cause; what is recorded of the run some call decided; a run that left monitoring has the audit and the experience of what happened to it |
| `VerdictsProofs!DerivationStaysSound` | every candidate follows its query and stays inside its namespaces, none is proposed twice, and no protected find is passed over |
| `OperationsProofs!EvidenceStaysWhole` | what passed has its whole evidence, what was verified is what is exported, and both arms of a pair began from the dataset as generated |
| `OperationsProofs!PairsAreMeasuredOnce` | no step changes a file of trials that has both its arms |
| `OperationsProofs!SchemaStaysVersioned` | `alembic_version` tells which schema stands, the one its chain of upgrades makes of an empty database, with rows it can hold and, at the newest, all that models and services rely on |
| `OperationsProofs!MigrationsKeepRuns` | a migration leaves of every run one of the same status, snapshot and reason, and from 0019 on nothing goes back |
| `OperationsProofs!UpgradesRaiseOverRowsOnly` | runners that overlap or die never make an upgrade raise, only the rows it finds do |

*Job queue.*  `OwnerHoldsLatestClaim` is not inductive: `complete` and `fail` match on the owner
alone, so it must be known that a worker with a job in hand has that job and no other
(`JobInHand`) and that a job nobody created was never claimed (`AbsentUnclaimed`).  `IInv` is
their conjunction with `TypeOK` and `RetryBudget`.  The contract's step follows from it: the
worker that settles is the one whose grant is the newest, because the row still names it.

`HealthyHolderKeepsJob` needs to know how much is left of the lease: a healthy holder owns its row
with at least what is left when its next heartbeat is due (`Renewed`).  No other worker takes
that for expired if clocks differ by less (`ClocksAgree`: a lease minus its third, which the code
does not enforce; its default lease of 30 seconds, `worker/durable.py`:60, leaves 20).  In "late"
neither holds, and the holder does lose its job.

*Deployment.*  Exclusion is inductive by itself once typed.  `DeployedEvidence` needs what a
worker has established at each point of `deploy_for_run` before it is written into the run's
status (`DeploymentFooting`), that an `APPLIED` artifact has its evidence whichever attempt
wrote it (`AppliedEvidence`), and that no late worker's status runs ahead (`LateStatus`): the
status is chosen from a value read earlier, and what makes that safe is that no path leads
back to `DEPLOYING`.

*Ledger.*  `ChainsVerify` needs that what a waiting writer will link to is a committed row
(`PriorCommitted`), that what it has pending succeeds it (`PendingSucceeds`), and that committed
rows have distinct keys, without gaps, each linked to the one before (`KeysUnique`, `NoGaps`,
`Linked`).  The unique index is what rules out the fork on an empty chain, where `FOR UPDATE`
locks nothing.

*Diagnosis.*  An artifact is made of what a worker carries from the recorded call to its insertion
(`InHand`).  One call at a time asks only while nothing was answered (`AskedInTurn`).

*Snapshots.*  A transaction selects the newest window (`Anchored`) and then the windows up to
it (`Selected`); windows committed in between end later than those before (`WindowsEnded`), and are
therefore none that the policy would ask for.  That needs that no window is longer than the
lookback (`WindowsFit`): the code takes both from its callers and compares them nowhere.  Two
transactions that inserted the same window cannot both commit (`InsertedApart`).

*Sessions.*  The row locks make a request that is to issue a token the only one of its login, at a
time when the login has no valid token (`MayIssue`); what a request presents belongs to the login
it carries (`Presents`), a token comes after one that was used (`Descends`), and the user's row
counts exactly the wrong passwords since the last right one (`Counted`).

*Query settings.*  The lock is held from `acquire` on (`Exclusive`), so only the operator moves the
setting under a call.  A row exists once a deployment inserted it (`RowExists`), what is about
to be marked was seen (`SawItsEnd`), and between the question whether an entry is there and its
insertion nobody else enters it (`Asked`): without that, `_append_once`, two transactions without
a unique key, would enter it twice.  That a rollback removes no deployed hint but its action's
needs that a setting a deployment made is the hint of that deployment's action (`MakersHint`) and
that what a rollback is about to replace is, if a deployment made it, the hint of its own
(`OwnHint`).  More does not hold: two actions may set one hint, and the code compares hints
(section 8, `NeverUndoesAnother`).

*In-process settings.*  The refinement maps the setting to the hint, and the log to the ledger
with, at its end, the entry that the task between its call of the adapter and its reading back
will make (`Pending`).  Its invariant says who is inside the lock (`Exclusive`), that a task stands
where its call leads (`OwnBranch`), and, while nothing was disturbed, what it has established at
each point (`Established`, `RollbackOfEntry`, `AppliedIsTyped`).  The theorem is about `AllSpec`,
whose steps are those of the executor or leave it as it is (`DirectAlone`).

*Sandbox and model.*  A task that has the lock is the first of its queue (`Exclusion`), and no
other is inside a window of it.  With one evaluator the copy stays what was
read (`CopyStands`): with two, each replaces the other's copy outside the lock (section 8).

*In-process deployment.*  A task past `require_current_approval` has an approval of its evidence,
lapsed or not, or a mode that needs none.  The ledger's order follows from the entries that a task past its
`PREPARED` finds at the end of the ledger, rollbacks apart (`CreatesPrepared`), and from the
lock that deployments hold (`DeploysLocked`); rollbacks do not take it, which is why they are
excepted.  Left alone, index and ledger disagree only under a task that is about to make
the entry (`Undisturbed`).

*Workload shift.*  An episode that is open was accepted in this episode (`OpenIsAccepted`), and one
that was accepted is open or is about to be marked by the call that asked (`AcceptedIsOpen`).  A
second call in between would ask again, which `ObservedInTurn` excludes.

*Trials.*  An execution has a list of all candidates, each once (`Listed`), has passed only what
is recorded (`PassedBy`) and left no index behind (`Behind`); so at the end of the list none is
left, whatever was there at the beginning.  An index that an execution that died left on the
collection may be there while another candidate is measured, in both of its arms: what an
execution itself adds and drops between the two is its own candidate's (`Armed`), so the arms
differ in that alone.  That there is no other index is not so (section 8, `HonestPairs`).

*Admission.*  A request is admitted exactly if it passes a conjunction of conditions (`Passes`),
each of which only gets harder with worse evidence and looks at the required metrics alone; the
maximum of `required_pairs` is a maximum because the greatest element of a finite set of
numbers exists, which is proved through well-foundedness.  `DecisionIsOne` follows from what a call
holds between its reading and its transaction, whose unique index decides between two.

*Monitoring.*  What a call has done before it stands where it stands (`Told`): the audit event
before the lookup, the experience before the transition.  One call at a time finds, when it
records an experience, still none (`RecordedInTurn`).  A call that is to roll back, or has,
decided so, and one that lets the deployment stand decided that (`Told`), though another call may
have decided otherwise on other windows.  That a required rollback has a cause rests on the mean
of the measured baseline: a window no slower than each of them is not slower than their mean
(`NoWorseIsNotSlow`, by the sum as a recursive function over the places, `MeanIsBounded`), so one
that alarms or belongs to a sustained regression is worse than some baseline window in some
respect (`CauseIsWorse`).  Each decision is kept with the windows it was made on (`CausesSeen`).
That the number of slow windows among the last reaches the threshold exactly when all of them are
slow is a fact about cardinalities (`SustainedIsAll`, `RegressionIsStreak`).

*Derivation.*  Nothing here changes but the position, so the invariant says what each position has
established (`DerivationInv`).  The weight is in the lemmas about one query: `Sorted` has each item
once, because the places of distinct fields are distinct (`SortedPlaces`), so the keys of a query
have its fields in their groups (`GeneratedKeys`, `KeysFollowQuery`).  Canonical sorts have no
directions, so a sort adds no key (`ShapeOfQuery`).  Fingerprints of different shapes differ
(`FingerprintsDiffer`), so nothing is skipped as derived before (`NoneDerivedBefore`) and every
referenced find gets its candidate (`NothingVetoed`).

*Rollback.*  `JInv` adds to `IInv` what the ledger says of a run (`Story`), what a rollback record
stands for (`RollbackRecord`: an applied artifact, and, once it says `ROLLED_BACK`, the entry and
an index that is not the run's), and what each worker may rely on (`Standing`).  What is not
written back is what makes it inductive (`WorkKeeps`): a run never returns to `APPROVED`, an
artifact never loses `APPLIED`, an entry never goes, and a run whose artifact is applied never
becomes the maker of the index again, because `create` is reached with an unapplied artifact
only.  Only the holder of the target lock enters events, so a worker that found none may enter its
own.

*Run lifecycle.*  `EvidenceChain` is not inductive: a worker writes what it computed from a read
some steps earlier.  `Implied(status)` says what a run in a status has, or had when a worker read
it; evidence only grows (`Stays`), so it still has it when the worker writes (`EvidenceInHand`,
`JobInHand`).  `RunEarned`, `DecisionStands` and `JobsStand` say the same of the run, the decision
and the jobs.  That a late worker of the initial job cannot move a run out of `APPROVAL_PENDING`
follows from the authority: its goal there is `APPROVED`, which needs an autonomous one, while
a request exists only under one that requires a human.

*Experiments.*  What passed is said in four places: a constituent's own manifest, the merged ones in
memory, the manifest of all, and the copy of it that an invalidation holds between its reading and
its writing back, which may be older than any number of orchestrations.  `PassedHasEvidence` says
of all four that the evidence is there; it is inductive because evidence only grows
(`EvidenceStays`): a file with both arms is never opened again (`FilesFrozen`), and a process that
dies tears the one it writes, which has none yet.  `ChildProgress` is what the process has found
and made at each point, so that an exit code of 0 stands for the whole; `TodoIsPlan` and
`RecordedStands` relate the plan, which has each constituent once, to what was recorded, so that a
manifest written for the constituent at hand is not one already counted.  `Sound` also says that a
manifest of all is of one generation, because an orchestration drops the superseded ones when it
takes it over: that is why nothing superseded is exported with what was verified.  The last copy of
a superseded result is always one from before (`LastCopyPassed`), and keys are those of a bench
that runs, or of one that a fault ended (`KeysCounted`).

*Pairs.*  `ResetProgress` is what a reset has established at each of its points, whichever way it
goes and wherever the call before it stopped; `PairProgress` says which arms have begun, in either
order, and from what.

*Migrations.*  What a schema is at a revision is said twice: as the chain of upgrades, revision
after revision, and directly (`Alike`).  A name stands if some revision made it (`NamesAt`,
before and after the renaming of 0004), and its definition is that of the last revision that
touched it (`Standing`, `Last`).  An upgrade and a downgrade both lead from what
`Alike` says of one revision to what it says of its neighbour (`UpgradeStands`, `DowngradeStands`),
which is where the revisions themselves are looked at: no name up to 0018 is made twice
(`MadeOnce`), and what 0004 renames no other revision touches (`RenamedOnce`).  The second is
what makes a downgrade that redefines the right one, since `Earlier` looks back over the chain.
`Alike` leaves open one name, the column that 0018 adds and does not drop; a chain of upgrades
never has it before 0018 (`ChainHasNoResidue`), so there both descriptions agree
(`AlikeIsChain`).  That the way up and the way down exist for every revision, and that what holds
at one end holds at the other, is shown by a least counterexample over the 24 revisions (`WayUp`,
`WayDown`, `UpFits`, `DownFits`) in place of an induction.

The invariant of the runners (`MigrationInv`) is that what is committed fits its revision (`Fits`),
that a runner past `acquire` has the lock, and that one about to migrate works from the
revision in force: without the lock another may have moved it.  A revision that raises does so
over the rows or the second jobs (`Refusable`), since in a database that fits no upgrade meets an
object that is there already.

Model-checked only: the five liveness properties (`JobsSettle`, `LockFreed`, `RunRests`,
`RunSettles`, `EveryCallEnds`), since fairness and `ENABLED` are beyond the prover.  Every invariant
and every action property of the passing runs is a theorem.

What the proofs found in the model: two arms of the `CASE` of `Measurement`'s `Verdict`
overlapped, so that what it returned was not determined; the metrics and the admitted candidates
of `AdmissionDecision`, the windows and experiences of `PostDeploymentMonitor` and the keys and
candidates of `CandidateDerivation` are now written so that they say the same without a fold; the
baselines, windows, thresholds, fields and workloads of `MCVerdicts` became constants, with the
assumptions the code justifies, among them that a shape is stored once (`query_shapes` has a
unique key), without which two rows of one content would derive one fingerprint; and the
comparison with worse evidence now also goes down to a metric without any observation.  The ways
up and down the revisions are recursive functions, `Up` and `Down`, where they were folds, and the
artifacts of 0015 are spelled out as names, which the prover can tell apart.  The two steps of the
invalidations that change a field of a field (`mark`, `read_top`) name what they change, since the
prover reads an `@` within an `@` differently from TLC.

## 8. Where code and documentation disagree

`deployment_ledger_gap` and `admission_short` are runs of `PROJECT.json`.  The other
configurations whose name ends in `Claims` hold the rest; TLC stops at the first violation, so
each property is to be checked alone:

| Configuration | Module |
|---|---|
| `DeploymentClaims` | `IndexDeployment` |
| `LifecycleClaims` | `MCRunLifecycle` |
| `QuerySettingsClaims` | `MCQuerySettings` |
| `RecordsClaims` | `MCRecords` |
| `VerdictsClaims` | `MCVerdicts` |
| `InProcessClaims` | `MCInProcess` |
| `OperationsClaims` | `MCOperations` |

Each property states a sentence of the documentation, or of a docstring or test, that the code
does not keep; TLC finds the behaviour.

| Configuration (property) | What is said | What the code does |
|---|---|---|
| `DeploymentLedgerGap` (`EveryWriteInLedger`) | `README.md`:66, every real write gets chained into a ledger | `production/durable.py`:115-116 are two transactions; the reconcile branch :77-85 after a death between them never appends |
| `AdmissionShort` (`AdmittedHasRequiredPairs`) | `docs/BENCHMARKING.md`:9,:13, the required count is the maximum of metrics, benefit and profile minimum | `admission/statistics.py`:238-247 hold a metric to a count of its own calibration only |
| `DeploymentClaims` (`ExpiredApprovalFailsClosed`) | `docs/PHASE_STATUS.md`:515, expired approvals fail closed before mutation | checked at `production/durable.py`:211-217, awaits before the mutation at :104-106 |
| `DeploymentClaims` (`RecordedRollbackIsFinal`) | `rollback/durable.py`:33-35, a recorded rollback outcome is terminal | a replayed stage collects anew (`monitoring/durable.py`:36), may forget an alarm (`r24_system_acceptance.py`:759-808 returns a fresh window) and decide to keep (`runs/orchestrator.py`:204-205) |
| `DeploymentClaims` (`DropsOwnIndexOnly`) | `rollback/durable.py`:22, the run's own index | an existing index of that definition is adopted (`production/durable.py`:97-99), and names are made from the definition (`index_generator.py`:61); the drop is by name, after the checks (`rollback/durable.py`:49-70) |
| `DeploymentClaims` (`BlockedIsRecorded`) | `docs/R19LP_IMPLEMENTATION_AUDIT.md`:17, terminal outcomes are persisted | a held lock ends the run blocked without a record (`rollback/durable.py`:39-41) |
| `LifecycleClaims` (`FailedJobEndsRun`) | `README.md`:42, any stage can drop straight to `FAILED` | a job that used up its attempts is `FAILED` and the run is told nothing (`worker/durable.py`:146-156) |
| `LifecycleClaims` (`OneJobDrivesRun`) | `worker/service.py`:46, one claimed job owns the complete slice | the request commits `APPROVAL_PENDING` before the initial job completes (`orchestrator.py`:183), and an approval enqueues the second (`approvals/durable.py`:69) |
| `QuerySettingsClaims` (`NeverUndoesAnother`) | `query_settings_durable.py`:1, exact rollback of optimizer-owned query hints | ownership is told by the hint alone (:202); a rollback of an action whose hint an operator removed undoes the deployment of another action with the same hint, which has a row of its own (:65-67) |
| `QuerySettingsClaims` (`HumanSettingKept`) | `autonomy/readiness.py`:37, a human-created setting must never be altered | a retry with a row goes on over a setting made meanwhile (`query_settings_durable.py`:105-121) |
| `QuerySettingsClaims` (`RestoresWhatItReplaced`) | `actions/schemas.py`:73, the inverse restores the state observed before the update | a row keeps the before-state of its first attempt (:111); a later attempt may replace another setting, and the rollback restores the first (:205) |
| `QuerySettingsClaims` (`LedgerTellsState`) | `README.md`:66 | an action that was rolled back may be deployed again, and its second `APPLIED` finds the first in the ledger and is not appended (:313-314) |
| `RecordsClaims` (`PolicySuffices`) | `docs/R19E_WORKLOAD_SNAPSHOT_AUDIT.md`:22 | an observation belongs to one snapshot (`models.py`:204); a run that selects windows which another run's snapshot holds is refused, with fresh evidence there (`workloads/durable.py`:122, :181-184) |
| `VerdictsClaims` (`OutcomeOnceAlways`) | `docs/R19LP_IMPLEMENTATION_AUDIT.md`:17, idempotently | lookup and record are two transactions without a unique key (`monitoring/durable.py`:84) |
| `VerdictsClaims` (`IndexHasSort`) | `README.md`:54, equality, sort, range | sort directions become type tokens in `registry.py`:42-50, which `candidates/durable.py`:194 does not recognise as directions |
| `VerdictsClaims` (`KeysDistinct`) | `docs/PHASE_STATUS.md`:325, candidates are de-duplicated | the fingerprint contains the shape's hash (`index_generator.py`:68-73) |
| `InProcessClaims` (`OncePerEpisode`) | `docs/PHASE_STATUS.md`:429, re-analysis once per episode | the episode is marked open after the await (`workload_shift.py`:42, :54); an observation that overlaps asks again, or marks the next episode open |
| `InProcessClaims` (`PairRecordedOnce`) | `evaluation/durable.py`:56, retries reuse the pair number | two executions each insert an evaluation (:60) |
| `InProcessClaims` (`HonestPairs`) | `runs/orchestrator.py`:152-153 | only the candidate's own index is dropped before a pair (`r24_system_acceptance.py`:615); that of an overlapping execution, or of one that failed and listed another candidate first (:584-597), is there during a baseline |
| `InProcessClaims` (`DropsWhatItVerified`) | `rollback/owned_index.py`:41, only when all checks still hold | verified before the awaits that lead to the drop by name (:60-61) |
| `OperationsClaims` (`Resumable`) | `scripts/experiment_orchestrator.py`:2, resumable; `docs/R28_EXECUTION_HANDOFF.md`:40, resume from the first that has not passed | a standard constituent that was interrupted left its file, which `benchmarks/r28_runner.py`:203 refuses to overwrite in every later launch |
| `OperationsClaims` (`SupersededStaysOut`) | `scripts/invalidate_r28a_publication.py`:7, never mixed with the authoritative run | the constituents of the manifest of all get another classification and keep the status `PASSED` (:90); `generate_exports.py`:64 leaves out only the classification of the runs before the fix |
| `OperationsClaims` (`LaunchReads`) | `scripts/experiment_orchestrator.py`:192, so re-invocations merge | `_load_existing` hands the key `classification` that an invalidation added to a constructor that does not know it (`benchmarks/orchestration.py`:90) |
| `OperationsClaims` (`OperationalIndexesAdded`) | `docs/R20_R23_HARDENING_AUDIT.md`:75, 0019 adds seven operational indexes | one of them exists since revision 4 (`0004`:126), and `IF NOT EXISTS` keeps the older definition |

Where the passing runs need the case out of the way, they say so in a scenario or a guard that
is named (`acting`, `Executors`, `Evaluators`, `ShiftTasks`), and no property is weakened
elsewhere.

Met on the way, without a property of their own: the superseding script finds the copies of its own
earlier runs and copies them again (`….pre-supersession.pre-supersession.json`); evaluations of the
sandbox that overlap replace each other's copy, since the isolation lock covers the benchmark
alone; `mongodb_copier.py`:47 reads the used size of the file system as the free one; the index
of `run_commercebench_smoke.py`:38 lacks the optimizer's prefix, so a delta reset leaves it, and
its digest then fails closed.

## 9. Abstractions

* The shipped `worker/main` wires the snapshot service alone and leaves the others `None`, which
  ends a run `BLOCKED`; `scripts/r24_system_acceptance.py` wires all of them.  The modules model
  the full wiring.
* Contents that no decision looks at are left out: fingerprints and hashes of rows nothing
  changes are constant (a ledger entry's identity stands for its hash, so tampering is out of
  scope; the input hash of a diagnosis is constant), payloads are absent, an AI's answer is any
  value of its type.
* Floats: which side of a margin an interval lies on is an input of `AdmissionDecision`, since the
  gates and counts are its subject; ratios of `PostDeploymentMonitor` are compared in
  hundredths, exactly.
* `RunLifecycle` keeps of a job its status, owner and attempts; that the owner column fences is
  what `OwnerFencing` proves.  Its 32-step limit cannot be reached: a run has fewer states.
* `IndexDeployment` has one target and one index, where runs can meet; `DirectDeployment` has one
  target, and "human" is a different definition under the same name.  The in-process executor
  is used by tests and the demo only.
* `TrialEvidence` reduces a measurement to the indexes present when it was taken.
* `JobQueue` has no case of its own for a claim that commits and whose reply is lost: for the row it
  is the claim of a worker that dies at once, and the expired lease brings it back.
* `Measurement` keeps of a database what each collection holds and which candidates' indexes are
  built, and of an answer of the model which of its kinds it is.
* `BenchmarkPairs` has one executor at a time on a database, as `docs/R28_EXECUTION_HANDOFF.md`:39
  asks ("heavy experiments run sequentially"); the three parts of a dataset that a workload writes
  are each as generated or not; counts and latencies are left out.
* `Experiments` has one orchestration at a time for the same reason; invalidations run whenever
  somebody runs them.  An orchestrator that is killed alone leaves its child measuring
  (`benchmarks/orchestration.py`:158-167); that the child has ended before the next launch is part
  of the assumption, and `crash` ends both.  The backup and the write in place of an invalidation
  (`invalidate_r28a_publication.py`:49-57) are one step, `mark`: a backup torn in the middle of its
  copying is not modelled.  Hashes of files are constant, since nothing changes a file without
  rewriting it.
* `SchemaMigrations` groups the columns and plain indexes that one revision makes and drops
  together; of the rows it keeps which kinds of run exist, and whether a run has two jobs.
* `Sessions` leaves out access tokens, signatures and password hashing; nothing in the
  repository disables a user, so `disable` is external; the API processes agree on the time.
* `MCRecords` draws ledger entries in one order, since their identities are interchangeable.

## 10. What is not modelled

Components without state or order: action schemas, authority predicates and the readiness report,
privacy and secrets, the MongoDB client and capability probes, telemetry providers' text
normalisation, the metrics estimator, logging and assembly, the frontend.  Components nothing in
the control plane uses: resource protection, recommendations and experience retrieval, the
safety bench and the policies of the ablations, the crash harness, the in-memory predecessors of
the durable diagnosis and snapshots.  Read-only API endpoints.  Scripts other than those
section 4 names: acceptance, load and build scripts that are run by hand and keep no state.
`PROJECT.json` lists each with its reason.

## 11. What is left

*More of the system*: resource protection as thresholds, the experience store, and run creation
through the API with its idempotency.

*More composition*: `AtomicChange` as the promise of `DirectDeployment`, and, with a crash between
change and entry, of `IndexDeployment` and `QuerySettings`.

*More proofs*: that they implement that promise, once it is stated.
