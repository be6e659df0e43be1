--------------------------- MODULE IndexDeployment ---------------------------
(***************************************************************************)
(* The production half of a run: deploying one admitted index to the       *)
(* MongoDB target, monitoring it and rolling it back.                      *)
(*                                                                         *)
(*   production/durable.py     DurableDeploymentService                    *)
(*   production/target_lock.py PostgresTargetMutationLock                  *)
(*   recovery/durable.py       DurableRecovery                             *)
(*   monitoring/durable.py     DurableMonitoringService                    *)
(*   rollback/durable.py       DurableRollbackService                      *)
(*   runs/orchestrator.py      the states APPROVED to MONITORING           *)
(*                                                                         *)
(* Several worker processes drive the runs.  Each action is what the code  *)
(* does between two awaits that another process, a human operator, an      *)
(* expiry or a crash can come between: one PostgreSQL transaction or one   *)
(* MongoDB call, with the checks on local data that follow it.  All runs   *)
(* here aim at one target and propose the same index, the case in which    *)
(* they can meet.                                                          *)
(*                                                                         *)
(* The external state is what _state() reports: the entry under the        *)
(* index's name (slot) and the remaining indexes (rest).  maker records    *)
(* who put the entry there; the program cannot see it.                     *)
(***************************************************************************)
EXTENDS Integers, Sequences, RunStates

CONSTANTS
    Runs, Workers,
    NoWorker, Orphan,  \* lock free; lock held by the session of a dead process
    NoState,           \* a NULL state column
    Human, Nobody,     \* makers of the index that are not a run
    HumanGated,        \* runs whose authority_type is HUMAN_REQUIRED
    Overlap,           \* TRUE: a lease may run out under a live worker
    MaxClaims,         \* bound on the claims of each run's job
    MaxCrashes,        \* bound on process crashes
    MaxEdits           \* bound on changes by human operators

ASSUME DeploymentConstants ==
    /\ HumanGated \subseteq Runs
    /\ Overlap \in BOOLEAN
    /\ MaxClaims \in Nat /\ MaxCrashes \in Nat /\ MaxEdits \in Nat
    /\ NoWorker \notin Workers /\ Orphan \notin Workers /\ NoWorker # Orphan
    /\ Human \notin Runs /\ Nobody \notin Runs /\ Human # Nobody

VARIABLES
    \* PostgreSQL
    run_status,     \* optimization_runs.status
    approved,       \* runs with an APPROVED, unexpired approval request
    artifact,       \* deployment_artifacts.status, or "NONE"
    after_state,    \* deployment_artifacts.after_state
    recovery,       \* production_action_recovery.state, or "NONE"
    rollback,       \* rollback_records.status, or "NONE"
    expected_after, \* rollback_payload.expected_after
    experience,     \* <<run, outcome>> of experience_records
    ledger,         \* <<run, event_type>> in the order of sequence
    lock,           \* the advisory lock of the target
    lease,          \* the worker that holds the lease of the run's job
    claims,         \* times the run's job was claimed
    \* MongoDB
    slot, rest, maker,
    \* locals of the workers
    pc,
    run,            \* the run being worked on (stale when idle)
    lost,           \* workers whose lease_lost event is set
    bound_status,   \* bound["run_status"]
    bound_after,    \* bound["after_state"] of a rollback
    seen,           \* the state last read
    seen_artifact,  \* artifact["status"] as _intent returned it; "CREATED" if new
    outcome,        \* what monitoring decided
    \* bookkeeping of the model
    creates,        \* indexes the program created, per run
    crashes, edits

db == <<run_status, approved, artifact, after_state, recovery, rollback,
        expected_after, experience, ledger>>
mongo == <<slot, rest, maker>>
notes == <<bound_status, bound_after, seen, seen_artifact, outcome>>
vars == <<db, lock, lease, claims, mongo, pc, run, lost, notes, creates, crashes, edits>>

Slots == {"absent", "exact", "different"}
State == [slot : Slots, rest : {0, 1}]
Outcomes == {"COMPLETED", "ROLLED_BACK", "ROLLBACK_BLOCKED"}
Events == {"DEPLOYMENT_INTENT", "DEPLOYMENT_APPLIED", "ROLLBACK_APPLIED"}
Points ==
    {"idle", "step", "load", "acquire", "inspect", "intent", "begin", "reconcile",
     "journal", "ledger_intent", "execute", "observe", "create", "confirm", "verify",
     "mark", "ledger_applied", "finish", "to_monitoring", "collect", "rb_lookup",
     "rb_acquire", "rb_inspect", "rb_decide", "rb_block", "rb_intent", "drop",
     "rb_check", "rb_ledger", "rb_record", "remember", "settle"}

DatabaseTypes ==
    /\ run_status \in [Runs -> RunStatus]
    /\ approved \subseteq Runs
    /\ artifact \in [Runs -> {"NONE", "INTENT_RECORDED", "APPLIED"}]
    /\ after_state \in [Runs -> State \cup {NoState}]
    /\ recovery \in [Runs -> {"NONE", "INTENT_RECORDED", "EXECUTION_STARTED",
                              "EXECUTION_CONFIRMED"}]
    /\ rollback \in [Runs -> {"NONE", "INTENT_RECORDED", "ROLLED_BACK",
                              "ROLLBACK_BLOCKED"}]
    /\ expected_after \in [Runs -> State \cup {NoState}]
    /\ experience \subseteq Runs \X Outcomes
    /\ ledger \in Seq(Runs \X Events)

LeaseTypes ==
    /\ lock \in Workers \cup {NoWorker, Orphan}
    /\ lease \in [Runs -> Workers \cup {NoWorker}]
    /\ claims \in [Runs -> Nat]

TargetTypes ==
    /\ slot \in Slots /\ rest \in {0, 1} /\ maker \in Runs \cup {Human, Nobody}
    /\ creates \in [Runs -> Nat]

WorkerTypes ==
    /\ pc \in [Workers -> Points]
    /\ run \in [Workers -> Runs]
    /\ lost \subseteq Workers

NoteTypes ==
    /\ bound_status \in [Workers -> RunStatus]
    /\ bound_after \in [Workers -> State \cup {NoState}]
    /\ seen \in [Workers -> State \cup {NoState}]
    /\ seen_artifact \in [Workers -> {"NONE", "CREATED", "INTENT_RECORDED", "APPLIED"}]
    /\ outcome \in [Workers -> Outcomes]

TypeOK ==
    /\ DatabaseTypes
    /\ LeaseTypes
    /\ TargetTypes
    /\ WorkerTypes
    /\ NoteTypes
    /\ crashes \in Nat /\ edits \in Nat

\* The runs are approved, by authority or by a human, and nothing is deployed.
Init ==
    /\ run_status = [r \in Runs |-> "APPROVED"]
    /\ approved = HumanGated
    /\ artifact = [r \in Runs |-> "NONE"]
    /\ after_state = [r \in Runs |-> NoState]
    /\ recovery = [r \in Runs |-> "NONE"]
    /\ rollback = [r \in Runs |-> "NONE"]
    /\ expected_after = [r \in Runs |-> NoState]
    /\ experience = {}
    /\ ledger = <<>>
    /\ lock = NoWorker
    /\ lease = [r \in Runs |-> NoWorker]
    /\ claims = [r \in Runs |-> 0]
    /\ slot = "absent" /\ rest = 0 /\ maker = Nobody
    /\ pc = [w \in Workers |-> "idle"]
    /\ \E r \in Runs : run = [w \in Workers |-> r]
    /\ lost = {}
    /\ bound_status = [w \in Workers |-> "APPROVED"]
    /\ bound_after = [w \in Workers |-> NoState]
    /\ seen = [w \in Workers |-> NoState]
    /\ seen_artifact = [w \in Workers |-> "NONE"]
    /\ outcome = [w \in Workers |-> "COMPLETED"]
    /\ creates = [r \in Runs |-> 0]
    /\ crashes = 0 /\ edits = 0

-----------------------------------------------------------------------------
(* Helpers *)

Current == [slot |-> slot, rest |-> rest]
InLedger(r, event) == \E i \in DOMAIN ledger : ledger[i] = <<r, event>>

Goto(w, point) == pc' = [pc EXCEPT ![w] = point]

\* The coroutine's local variables are gone.
Forget(w) ==
    /\ bound_status' = [bound_status EXCEPT ![w] = "APPROVED"]
    /\ bound_after' = [bound_after EXCEPT ![w] = NoState]
    /\ seen' = [seen EXCEPT ![w] = NoState]
    /\ seen_artifact' = [seen_artifact EXCEPT ![w] = "NONE"]
    /\ outcome' = [outcome EXCEPT ![w] = "COMPLETED"]

\* Leave without the finally that releases the target lock
Leave_KeepsLock(w) ==
    /\ Goto(w, "idle")
    /\ lease' = [lease EXCEPT ![run[w]] = IF @ = w THEN NoWorker ELSE @]
    /\ lost' = lost \ {w}
    /\ Forget(w)
    /\ UNCHANGED <<lock, run, claims, crashes, edits>>

\* The job ends: an exception unwinds every try/finally (the target lock is
\* released) and fail() frees the row, or LeaseLostError leaves it to its new
\* owner.
Leave(w) ==
    /\ Goto(w, "idle")
    /\ lock' = IF lock = w THEN NoWorker ELSE lock
    /\ lease' = [lease EXCEPT ![run[w]] = IF @ = w THEN NoWorker ELSE @]
    /\ lost' = lost \ {w}
    /\ Forget(w)
    /\ UNCHANGED <<run, claims, crashes, edits>>

Abort(w) == Leave(w) /\ UNCHANGED <<db, mongo, creates>>

\* Only the worker's control point moves, apart from what the action says.
Stay == UNCHANGED <<lock, lease, claims, run, lost, notes, crashes, edits>>

\* release() of the target lock at the end of a deployment or a rollback
Release == lock' = NoWorker

\* RunRepository.transition locks the row and validates the edge.
CanTransition(r, next) == ValidTransition(run_status[r], next)
SetStatus(r, next) == run_status' = [run_status EXCEPT ![r] = next]

-----------------------------------------------------------------------------
(* Claiming the job and the orchestrator's dispatch on the run's status *)

Active(w, r) == pc[w] # "idle" /\ run[w] = r

\* The job of run r is pending or its lease ran out.  The jobs of terminal runs
\* are completed.
claim(w, r) ==
    /\ pc[w] = "idle"
    /\ run_status[r] \notin Terminal
    /\ claims[r] < MaxClaims
    /\ lease[r] = NoWorker \/ Overlap
    /\ lease' = [lease EXCEPT ![r] = w]
    /\ claims' = [claims EXCEPT ![r] = @ + 1]
    /\ run' = [run EXCEPT ![w] = r]
    /\ Goto(w, "step")
    /\ UNCHANGED <<db, lock, mongo, lost, notes, creates, crashes, edits>>

\* The heartbeat of a worker that lost its lease finds out, sooner or later.
notice_loss(w) ==
    /\ pc[w] # "idle"
    /\ lease[run[w]] # w
    /\ w \notin lost
    /\ lost' = lost \cup {w}
    /\ UNCHANGED <<db, lock, lease, claims, mongo, pc, run, notes, creates, crashes, edits>>

\* OptimizationRunOrchestrator.run reads the status and picks the stage.
Stage(status) ==
    IF status \in {"APPROVED", "DEPLOYING"} THEN "load"
    ELSE IF status = "DEPLOYED" THEN "to_monitoring" ELSE "collect"

step(w) ==
    /\ pc[w] = "step"
    /\ IF w \in lost \/ run_status[run[w]] \in Terminal
       THEN Abort(w)
       ELSE /\ Goto(w, Stage(run_status[run[w]]))
            /\ Stay /\ UNCHANGED <<db, mongo, creates>>

-----------------------------------------------------------------------------
(* DurableDeploymentService.deploy_for_run *)

\* _load_bound_action: a human-gated run needs an approval that has not expired.
load(w) ==
    /\ pc[w] = "load"
    /\ IF w \in lost \/ run[w] \in HumanGated \ approved
       THEN Abort(w)
       ELSE /\ bound_status' = [bound_status EXCEPT ![w] = run_status[run[w]]]
            /\ Goto(w, "acquire")
            /\ UNCHANGED <<db, lock, lease, claims, mongo, run, lost, bound_after, seen,
                           seen_artifact, outcome, creates, crashes, edits>>

\* acquire that does not look at the answer of try_acquire
acquire_Unchecked(w) ==
    /\ pc[w] = "acquire"
    /\ lock' = w
    /\ Goto(w, "inspect")
    /\ UNCHANGED <<db, lease, claims, mongo, run, lost, notes, creates, crashes, edits>>

\* try_acquire; TARGET_LOCK_UNAVAILABLE if another session holds the lock
acquire(w) ==
    /\ pc[w] = "acquire"
    /\ IF lock # NoWorker
       THEN Abort(w)
       ELSE /\ lock' = w
            /\ Goto(w, "inspect")
            /\ UNCHANGED <<db, lease, claims, mongo, run, lost, notes, creates, crashes, edits>>

\* before = _state(action)
ReadState(w) ==
    /\ seen' = [seen EXCEPT ![w] = Current]
    /\ UNCHANGED <<bound_status, bound_after, seen_artifact, outcome>>

inspect(w) ==
    /\ pc[w] = "inspect"
    /\ IF w \in lost THEN Abort(w)
       ELSE /\ ReadState(w)
            /\ Goto(w, "intent")
            /\ UNCHANGED <<db, lock, lease, claims, mongo, run, lost, creates, crashes, edits>>

\* _intent: create the run's one artifact, or take the existing one
intent(w) ==
    /\ pc[w] = "intent"
    /\ LET r == run[w] IN
       /\ artifact' = [artifact EXCEPT ![r] = IF @ = "NONE" THEN "INTENT_RECORDED" ELSE @]
       /\ seen_artifact' =
             [seen_artifact EXCEPT ![w] = IF artifact[r] = "NONE" THEN "CREATED" ELSE artifact[r]]
    /\ Goto(w, "begin")
    /\ UNCHANGED <<run_status, approved, after_state, recovery, rollback, expected_after,
                   experience, ledger, lock, lease, claims, mongo, run, lost, bound_status,
                   bound_after, seen, outcome, creates, crashes, edits>>

\* begin that takes an artifact found INTENT_RECORDED for an applied one
begin_TrustsIntent(w) ==
    /\ pc[w] = "begin"
    /\ LET r == run[w]
           next == IF seen_artifact[w] # "CREATED" THEN "reconcile" ELSE "journal"
       IN  IF bound_status[w] = "APPROVED" /\ CanTransition(r, "DEPLOYING")
           THEN /\ SetStatus(r, "DEPLOYING")
                /\ Goto(w, next)
                /\ Stay
                /\ UNCHANGED <<approved, artifact, after_state, recovery, rollback,
                               expected_after, experience, ledger, mongo, creates>>
           ELSE IF bound_status[w] \in {"DEPLOYING", "DEPLOYED"}
           THEN Goto(w, next) /\ Stay /\ UNCHANGED <<db, mongo, creates>>
           ELSE Abort(w)

\* The status is the one read before the lock was taken.
begin(w) ==
    /\ pc[w] = "begin"
    /\ LET r == run[w]
           next == IF seen_artifact[w] = "APPLIED" THEN "reconcile" ELSE "journal"
       IN  \/ /\ bound_status[w] = "APPROVED"
              /\ CanTransition(r, "DEPLOYING")
              /\ SetStatus(r, "DEPLOYING")
              /\ Goto(w, next)
              /\ Stay
              /\ UNCHANGED <<approved, artifact, after_state, recovery, rollback,
                             expected_after, experience, ledger, mongo, creates>>
           \/ /\ bound_status[w] \in {"DEPLOYING", "DEPLOYED"}
              /\ Goto(w, next)
              /\ Stay
              /\ UNCHANGED <<db, mongo, creates>>
           \/ /\ \/ bound_status[w] = "APPROVED" /\ ~CanTransition(r, "DEPLOYING")
                 \/ bound_status[w] \notin {"APPROVED", "DEPLOYING", "DEPLOYED"}
              /\ Abort(w)

\* The artifact is APPLIED already: verify and move the run on, add nothing to
\* the ledger.
reconcile(w) ==
    /\ pc[w] = "reconcile"
    /\ LET r == run[w] IN
       IF seen[w].slot # "exact" \/ run_status[r] \notin {"DEPLOYING", "DEPLOYED"}
       THEN Abort(w)
       ELSE /\ SetStatus(r, "DEPLOYED")
            /\ Release
            /\ Goto(w, "step")
            /\ UNCHANGED <<approved, artifact, after_state, recovery, rollback,
                           expected_after, experience, ledger, lease, claims, mongo, run,
                           lost, notes, creates, crashes, edits>>

\* record_intent: INSERT ... ON CONFLICT DO NOTHING
journal(w) ==
    /\ pc[w] = "journal"
    /\ recovery' = [recovery EXCEPT ![run[w]] = IF @ = "NONE" THEN "INTENT_RECORDED" ELSE @]
    /\ Goto(w, IF seen_artifact[w] = "CREATED" THEN "ledger_intent" ELSE "execute")
    /\ Stay
    /\ UNCHANGED <<run_status, approved, artifact, after_state, rollback, expected_after,
                   experience, ledger, mongo, creates>>

AppendLedger(w, event) ==
    /\ ledger' = Append(ledger, <<run[w], event>>)
    /\ Stay
    /\ UNCHANGED <<run_status, approved, artifact, after_state, recovery, rollback,
                   expected_after, experience, mongo, creates>>

\* _append_intent, by the attempt that created the artifact only
ledger_intent(w) ==
    /\ pc[w] = "ledger_intent"
    /\ AppendLedger(w, "DEPLOYMENT_INTENT")
    /\ Goto(w, "execute")

SetRecovery(w, state) ==
    /\ recovery' = [recovery EXCEPT ![run[w]] = state]
    /\ Stay
    /\ UNCHANGED <<run_status, approved, artifact, after_state, rollback, expected_after,
                   experience, ledger, mongo, creates>>

\* execute_or_recover, first transaction
execute(w) ==
    /\ pc[w] = "execute"
    /\ IF w \in lost THEN Abort(w)
       ELSE IF recovery[run[w]] = "EXECUTION_CONFIRMED"
       THEN /\ Goto(w, "verify")
            /\ Stay /\ UNCHANGED <<db, mongo, creates>>
       ELSE /\ SetRecovery(w, "EXECUTION_STARTED")
            /\ Goto(w, "observe")

\* target_has_exact_effect
observe(w) ==
    /\ pc[w] = "observe"
    /\ Goto(w, IF slot = "exact" THEN "confirm" ELSE "create")
    /\ Stay /\ UNCHANGED <<db, mongo, creates>>

\* apply_mutation.  MongoDB ignores the request if the exact index exists and
\* refuses it if the name is taken by another specification.
create(w) ==
    /\ pc[w] = "create"
    /\ IF w \in lost \/ slot = "different"
       THEN Abort(w)
       ELSE /\ slot' = "exact"
            /\ maker' = IF slot = "absent" THEN run[w] ELSE maker
            /\ creates' = [creates EXCEPT ![run[w]] = IF slot = "absent" THEN @ + 1 ELSE @]
            /\ Goto(w, "confirm")
            /\ Stay /\ UNCHANGED <<db, rest>>

\* execute_or_recover, last transaction
confirm(w) ==
    /\ pc[w] = "confirm"
    /\ SetRecovery(w, "EXECUTION_CONFIRMED")
    /\ Goto(w, "verify")

\* verify that waits for the index instead of failing
verify_Waits(w) ==
    /\ pc[w] = "verify"
    /\ slot = "exact"
    /\ ReadState(w)
    /\ Goto(w, "mark")
    /\ UNCHANGED <<db, lock, lease, claims, mongo, run, lost, creates, crashes, edits>>

\* after = _state(action); EXTERNAL_EFFECT_VERIFICATION_FAILED
verify(w) ==
    /\ pc[w] = "verify"
    /\ IF w \in lost \/ slot # "exact"
       THEN Abort(w)
       ELSE /\ ReadState(w)
            /\ Goto(w, "mark")
            /\ UNCHANGED <<db, lock, lease, claims, mongo, run, lost, creates, crashes, edits>>

\* _mark_applied
mark(w) ==
    /\ pc[w] = "mark"
    /\ artifact' = [artifact EXCEPT ![run[w]] = "APPLIED"]
    /\ after_state' = [after_state EXCEPT ![run[w]] = seen[w]]
    /\ Goto(w, "ledger_applied")
    /\ Stay
    /\ UNCHANGED <<run_status, approved, recovery, rollback, expected_after, experience,
                   ledger, mongo, creates>>

\* _append_applied
ledger_applied(w) ==
    /\ pc[w] = "ledger_applied"
    /\ AppendLedger(w, "DEPLOYMENT_APPLIED")
    /\ Goto(w, "finish")

\* DEPLOYING -> DEPLOYED, and the lock is released
finish(w) ==
    /\ pc[w] = "finish"
    /\ IF w \in lost THEN Abort(w)
       ELSE /\ IF run_status[run[w]] = "DEPLOYING"
               THEN SetStatus(run[w], "DEPLOYED")
               ELSE UNCHANGED run_status
            /\ Release
            /\ Goto(w, "step")
            /\ UNCHANGED <<approved, artifact, after_state, recovery, rollback,
                           expected_after, experience, ledger, lease, claims, mongo, run,
                           lost, notes, creates, crashes, edits>>

deploy_for_run(w) ==
    \/ load(w) \/ acquire(w) \/ inspect(w) \/ intent(w) \/ begin(w) \/ reconcile(w)
    \/ journal(w) \/ ledger_intent(w) \/ execute(w) \/ observe(w) \/ create(w)
    \/ confirm(w) \/ verify(w) \/ mark(w) \/ ledger_applied(w) \/ finish(w)

-----------------------------------------------------------------------------
(* The orchestrator's DEPLOYED and MONITORING stages and monitor_for_run *)

to_monitoring(w) ==
    /\ pc[w] = "to_monitoring"
    /\ IF w \in lost \/ ~CanTransition(run[w], "MONITORING")
       THEN Abort(w)
       ELSE /\ SetStatus(run[w], "MONITORING")
            /\ Goto(w, "step")
            /\ Stay
            /\ UNCHANGED <<approved, artifact, after_state, recovery, rollback,
                           expected_after, experience, ledger, mongo, creates>>

Conclude(w, result) == outcome' = [outcome EXCEPT ![w] = result]

\* The windows are unavailable, or they show a stable or shifted workload, or
\* they call for a rollback.
collect(w) ==
    /\ pc[w] = "collect"
    /\ \/ Abort(w)
       \/ /\ Conclude(w, "COMPLETED")
          /\ Goto(w, "remember")
          /\ UNCHANGED <<db, lock, lease, claims, mongo, run, lost, bound_status, bound_after,
                         seen, seen_artifact, creates, crashes, edits>>
       \/ /\ Goto(w, "rb_lookup")
          /\ Stay /\ UNCHANGED <<db, mongo, creates>>

\* The experience record, unless the run has one with this outcome
remember(w) ==
    /\ pc[w] = "remember"
    /\ experience' = experience \cup {<<run[w], outcome[w]>>}
    /\ Goto(w, "settle")
    /\ Stay
    /\ UNCHANGED <<run_status, approved, artifact, after_state, recovery, rollback,
                   expected_after, ledger, mongo, creates>>

\* MONITORING -> the outcome
settle(w) ==
    /\ pc[w] = "settle"
    /\ IF w \in lost \/ ~CanTransition(run[w], outcome[w])
       THEN Abort(w)
       ELSE /\ SetStatus(run[w], outcome[w])
            /\ Goto(w, "step")
            /\ Stay
            /\ UNCHANGED <<approved, artifact, after_state, recovery, rollback,
                           expected_after, experience, ledger, mongo, creates>>

-----------------------------------------------------------------------------
(* DurableRollbackService.rollback_for_run; it never looks at the lease *)

\* _bound and _recorded_outcome
rb_lookup(w) ==
    /\ pc[w] = "rb_lookup"
    /\ LET r == run[w] IN
       IF rollback[r] \in {"ROLLED_BACK", "ROLLBACK_BLOCKED"}
       THEN /\ Conclude(w, rollback[r])
            /\ Goto(w, "remember")
            /\ UNCHANGED bound_after
       ELSE /\ bound_after' = [bound_after EXCEPT ![w] = after_state[r]]
            /\ Goto(w, "rb_acquire")
            /\ UNCHANGED outcome
    /\ UNCHANGED <<db, lock, lease, claims, mongo, run, lost, bound_status, seen,
                   seen_artifact, creates, crashes, edits>>

\* rb_acquire that does not look at the answer of try_acquire
rb_acquire_Unchecked(w) ==
    /\ pc[w] = "rb_acquire"
    /\ lock' = w
    /\ Goto(w, "rb_inspect")
    /\ UNCHANGED <<db, lease, claims, mongo, run, lost, notes, creates, crashes, edits>>

\* try_acquire; without the lock the rollback is given up and not recorded
rb_acquire(w) ==
    /\ pc[w] = "rb_acquire"
    /\ IF lock = NoWorker
       THEN /\ lock' = w
            /\ Goto(w, "rb_inspect")
            /\ UNCHANGED outcome
       ELSE /\ Conclude(w, "ROLLBACK_BLOCKED")
            /\ Goto(w, "remember")
            /\ UNCHANGED lock
    /\ UNCHANGED <<db, lease, claims, mongo, run, lost, bound_status, bound_after, seen,
                   seen_artifact, creates, crashes, edits>>

\* state = _state(action)
rb_inspect(w) ==
    /\ pc[w] = "rb_inspect"
    /\ ReadState(w)
    /\ Goto(w, "rb_decide")
    /\ UNCHANGED <<db, lock, lease, claims, mongo, run, lost, creates, crashes, edits>>

\* _without_owned_index
Without(state) == [slot |-> "absent", rest |-> state.rest]

\* rb_decide that takes a recorded intent for a drop that was done
rb_decide_TrustsIntent(w) ==
    /\ pc[w] = "rb_decide"
    /\ Goto(w, IF rollback[run[w]] = "INTENT_RECORDED" THEN "rb_ledger"
               ELSE IF seen[w].slot = "exact" /\ seen[w] = bound_after[w]
               THEN "rb_intent" ELSE "rb_block")
    /\ Stay /\ UNCHANGED <<db, mongo, creates>>

\* An earlier attempt's drop is recognised by the state it expected; otherwise
\* _safe_reason allows the drop if the state is still the one after deployment.
rb_decide(w) ==
    /\ pc[w] = "rb_decide"
    /\ Goto(w, IF rollback[run[w]] = "INTENT_RECORDED" /\ seen[w] = expected_after[run[w]]
               THEN "rb_ledger"
               ELSE IF seen[w].slot = "exact" /\ seen[w] = bound_after[w]
               THEN "rb_intent" ELSE "rb_block")
    /\ Stay /\ UNCHANGED <<db, mongo, creates>>

\* _record refuses to replace a final outcome by another status.
CanRecord(r, status) == rollback[r] \in {"NONE", "INTENT_RECORDED", status}

\* _record of a final outcome, the lock is released
RecordOutcome(w, status) ==
    IF ~CanRecord(run[w], status) THEN Abort(w)
    ELSE /\ rollback' = [rollback EXCEPT ![run[w]] = status]
         /\ expected_after' = [expected_after EXCEPT ![run[w]] = NoState]
         /\ Release
         /\ Conclude(w, status)
         /\ Goto(w, "remember")
         /\ UNCHANGED <<run_status, approved, artifact, after_state, recovery, experience,
                        ledger, lease, claims, mongo, run, lost, bound_status, bound_after,
                        seen, seen_artifact, creates, crashes, edits>>

rb_block(w) == pc[w] = "rb_block" /\ RecordOutcome(w, "ROLLBACK_BLOCKED")

\* _record of the intent; a first intent's payload stays
rb_intent(w) ==
    /\ pc[w] = "rb_intent"
    /\ LET r == run[w] IN
       IF ~CanRecord(r, "INTENT_RECORDED") THEN Abort(w)
       ELSE /\ rollback' = [rollback EXCEPT ![r] = "INTENT_RECORDED"]
            /\ expected_after' = [expected_after EXCEPT ![r] =
                                     IF rollback[r] = "NONE" THEN Without(seen[w]) ELSE @]
            /\ Goto(w, "drop")
            /\ Stay
            /\ UNCHANGED <<run_status, approved, artifact, after_state, recovery, experience,
                           ledger, mongo, creates>>

\* drop_index: by name, whatever the index is by now; MongoDB reports an error
\* if there is none.
drop(w) ==
    /\ pc[w] = "drop"
    /\ IF slot = "absent" THEN Abort(w)
       ELSE /\ slot' = "absent"
            /\ maker' = Nobody
            /\ Goto(w, "rb_check")
            /\ Stay /\ UNCHANGED <<db, rest, creates>>

\* after = _state(action); INVERSE_EFFECT_UNVERIFIED
rb_check(w) ==
    /\ pc[w] = "rb_check"
    /\ Goto(w, IF Current = Without(seen[w]) THEN "rb_ledger" ELSE "rb_block")
    /\ Stay /\ UNCHANGED <<db, mongo, creates>>

\* rb_ledger without _rollback_ledger_exists
rb_ledger_Always(w) ==
    /\ pc[w] = "rb_ledger"
    /\ Goto(w, "rb_record")
    /\ AppendLedger(w, "ROLLBACK_APPLIED")

\* _finalize_record appends unless the ledger has the rollback already.
rb_ledger(w) ==
    /\ pc[w] = "rb_ledger"
    /\ Goto(w, "rb_record")
    /\ IF InLedger(run[w], "ROLLBACK_APPLIED")
       THEN Stay /\ UNCHANGED <<db, mongo, creates>>
       ELSE AppendLedger(w, "ROLLBACK_APPLIED")

rb_record(w) == pc[w] = "rb_record" /\ RecordOutcome(w, "ROLLED_BACK")

rollback_for_run(w) ==
    \/ rb_lookup(w) \/ rb_acquire(w) \/ rb_inspect(w) \/ rb_decide(w) \/ rb_block(w)
    \/ rb_intent(w) \/ drop(w) \/ rb_check(w) \/ rb_ledger(w) \/ rb_record(w)

-----------------------------------------------------------------------------
(* The environment *)

\* A worker process dies.  PostgreSQL may notice its dead session at once or
\* later; until then the session keeps the advisory lock.
crash(w) ==
    /\ pc[w] # "idle"
    /\ crashes < MaxCrashes
    /\ crashes' = crashes + 1
    /\ lock' \in IF lock = w THEN {NoWorker, Orphan} ELSE {lock}
    /\ Goto(w, "idle")
    /\ lease' = [lease EXCEPT ![run[w]] = IF @ = w THEN NoWorker ELSE @]
    /\ lost' = lost \ {w}
    /\ Forget(w)
    /\ UNCHANGED <<db, claims, mongo, run, creates, edits>>

reap ==
    /\ lock = Orphan
    /\ lock' = NoWorker
    /\ UNCHANGED <<db, lease, claims, mongo, pc, run, lost, notes, creates, crashes, edits>>

\* expires_at passes
approval_expires(r) ==
    /\ r \in approved
    /\ approved' = approved \ {r}
    /\ UNCHANGED <<run_status, artifact, after_state, recovery, rollback, expected_after,
                   experience, ledger, lock, lease, claims, mongo, pc, run, lost, notes,
                   creates, crashes, edits>>

\* An operator creates or drops the index, or changes another one.
human_edit ==
    /\ edits < MaxEdits
    /\ edits' = edits + 1
    /\ \/ /\ slot = "absent"
          /\ slot' \in {"exact", "different"}
          /\ maker' = Human
          /\ UNCHANGED rest
       \/ /\ slot # "absent"
          /\ slot' = "absent"
          /\ maker' = Nobody
          /\ UNCHANGED rest
       \/ /\ rest' = 1 - rest
          /\ UNCHANGED <<slot, maker>>
    /\ UNCHANGED <<db, lock, lease, claims, pc, run, lost, notes, creates, crashes>>

work(w) ==
    \/ step(w) \/ deploy_for_run(w) \/ to_monitoring(w) \/ collect(w)
    \/ rollback_for_run(w) \/ remember(w) \/ settle(w)

Next ==
    \/ \E w \in Workers :
          \/ \E r \in Runs : claim(w, r)
          \/ notice_loss(w) \/ work(w) \/ crash(w)
    \/ \E r \in Runs : approval_expires(r)
    \/ reap \/ human_edit

Spec == Init /\ [][Next]_vars

\* The event loop runs a worker's coroutine, a free worker polls for jobs, and
\* PostgreSQL ends dead sessions.
Fairness ==
    /\ \A w \in Workers : WF_vars(work(w)) /\ WF_vars(\E r \in Runs : claim(w, r))
    /\ WF_vars(reap)

FairSpec == Spec /\ Fairness

-----------------------------------------------------------------------------
(* Properties *)

\* Where the code holds the target lock
Locked ==
    {"inspect", "intent", "begin", "reconcile", "journal", "ledger_intent", "execute",
     "observe", "create", "confirm", "verify", "mark", "ledger_applied", "finish",
     "rb_inspect", "rb_decide", "rb_block", "rb_intent", "drop", "rb_check", "rb_ledger",
     "rb_record"}

\* Between try_acquire and release a worker really has the target to itself:
\* no other worker, not even one whose lease ran out unnoticed, is inside a
\* deployment or a rollback, and no dead session's lock is taken for free.
TargetExclusion == \A w \in Workers : pc[w] \in Locked => lock = w

\* A run is past deployment only with its artifact APPLIED, a post-deployment
\* state that shows the exact index, and a confirmed recovery journal, whatever
\* crashes and recoveries came between them.
DeployedEvidence ==
    \A r \in Runs :
        run_status[r] \in {"DEPLOYED", "MONITORING"} \cup Terminal =>
            /\ artifact[r] = "APPLIED"
            /\ after_state[r].slot = "exact"
            /\ recovery[r] = "EXECUTION_CONFIRMED"

\* _deploy_locked: an already applied effect is reconciled, never created again.
\* A worker creates the index only while the run is DEPLOYING, after the intent
\* was journalled and before it was recorded as applied; a delayed worker that
\* loaded the run earlier cannot bring back what a rollback has removed.
NoRedeploy ==
    [][\A r \in Runs :
          creates'[r] # creates[r] =>
              /\ run_status[r] = "DEPLOYING"
              /\ artifact[r] = "INTENT_RECORDED"
              /\ recovery[r] = "EXECUTION_STARTED"
              /\ rollback[r] = "NONE"]_vars

Rank(event) == CASE event = "DEPLOYMENT_INTENT" -> 1
                 [] event = "DEPLOYMENT_APPLIED" -> 2
                 [] event = "ROLLBACK_APPLIED" -> 3

\* The ledger tells a run's story once and in order: however often recovery
\* replays a stage, no event of a run is claimed twice or after a later one.
LedgerOrdered ==
    \A i, j \in DOMAIN ledger :
        i < j /\ ledger[i][1] = ledger[j][1] => Rank(ledger[i][2]) < Rank(ledger[j][2])

\* A run ends ROLLED_BACK only on evidence: the rollback record and the ledger
\* say so, and the index the run made is no longer in the target.
RolledBackTruth ==
    \A r \in Runs :
        run_status[r] = "ROLLED_BACK" =>
            /\ rollback[r] = "ROLLED_BACK"
            /\ InLedger(r, "ROLLBACK_APPLIED")
            /\ maker # r

\* The target lock is never held for ever, through crashes and failed attempts.
LockFreed == lock # NoWorker ~> lock = NoWorker

\* Every run comes to rest: it ends, or its job has used up its claims.
RunRests ==
    \A r \in Runs :
        <>[](/\ run_status[r] \in Terminal \/ claims[r] = MaxClaims
             /\ \A w \in Workers : ~Active(w, r))

-----------------------------------------------------------------------------
(* What the documentation claims and the code does not keep *)

\* README: "Every real write gets chained into a ledger."
EveryWriteInLedger ==
    \A r \in Runs :
        run_status[r] \in {"DEPLOYED", "MONITORING"} \cup Terminal /\ creates[r] > 0 =>
            InLedger(r, "DEPLOYMENT_APPLIED")

\* DurableRollbackService: "Drop only the exact index created by the matching
\* durable artifact."
DropsOwnIndexOnly ==
    [][\A w \in Workers :
          pc[w] = "drop" /\ pc'[w] = "rb_check" => maker = run[w]]_vars

\* rollback_for_run: "A recorded rollback outcome is terminal factual evidence.
\* Replaying a recovered job must return that fact".
RecordedRollbackIsFinal ==
    \A r \in Runs :
        rollback[r] = "ROLLED_BACK" /\ run_status[r] \in Terminal =>
            run_status[r] = "ROLLED_BACK"

\* R19LP audit: "Factual terminal outcome is idempotently persisted": a run that
\* ends ROLLBACK_BLOCKED has a rollback record that says so.
BlockedIsRecorded ==
    \A r \in Runs :
        run_status[r] = "ROLLBACK_BLOCKED" => rollback[r] = "ROLLBACK_BLOCKED"

\* PHASE_STATUS, phase 48: "expired approvals, and self-approval all fail closed before
\* mutation": no index is created for a run whose approval has expired.
ExpiredApprovalFailsClosed ==
    [][\A r \in HumanGated : creates'[r] # creates[r] => r \in approved]_vars
=============================================================================
