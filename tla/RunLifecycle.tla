---------------------------- MODULE RunLifecycle ----------------------------
(***************************************************************************)
(* The life of one optimization run, from its creation to its end.         *)
(*                                                                         *)
(*   runs/orchestrator.py   OptimizationRunOrchestrator.run                *)
(*   db/repositories.py     RunRepository.transition                       *)
(*   worker/service.py      OptimizationJobHandler.handle                  *)
(*   approvals/durable.py   DurableApprovalService                         *)
(*   authority/durable.py   DurableAuthorityService                        *)
(*   workloads, diagnosis, candidates, ranking, evaluation, admission      *)
(*                          the services that create the run's artifacts   *)
(*                                                                         *)
(* A run has two job rows in its life: the initial one and the             *)
(* continuation that an approval enqueues.  Several workers may hold the   *)
(* run at once: through a lease that ran out unnoticed, and through the    *)
(* two jobs.  Each action is one transaction, or the local code between    *)
(* two awaits.  The queue itself is checked in JobQueue; here a job is its *)
(* status, owner and attempts, and OwnerFencing proved there is what lets  *)
(* fail read the attempts from the row.  IndexDeployment opens up the      *)
(* stages from APPROVED on, which are single steps here.                   *)
(***************************************************************************)
EXTENDS Integers, Sequences, FiniteSets, SequencesExt, RunStates

CONSTANTS
    Workers, NoWorker,
    Candidates,      \* the index candidates that can be derived from the snapshot
    NoCandidate,     \* a NULL candidate id
    Absent,          \* an artifact that does not exist
    Users, Requester, Nobody,
    PlanLimit,       \* how many candidates a plan selects (3 in the code)
    MaxAttempts,     \* max_attempts of the job queue
    Overlap,         \* TRUE: a lease may run out under a live worker
    MaxClaims,       \* bound on the attempts column
    MaxCrashes       \* bound on process crashes

ASSUME LifecycleConstants ==
    /\ NoWorker \notin Workers
    /\ NoCandidate \notin Candidates /\ IsFiniteSet(Candidates)
    /\ Requester \in Users /\ Nobody \notin Users
    /\ PlanLimit \in Nat \ {0} /\ MaxAttempts \in Nat \ {0}
    /\ Overlap \in BOOLEAN
    /\ MaxClaims \in Nat /\ MaxCrashes \in Nat

VARIABLES
    run,       \* the row of optimization_runs
    evidence,  \* the run's artifacts
    approval,  \* the run's approval request, with its decision
    fresh,     \* expires_at of the request has not passed
    jobs,      \* the rows of jobs
    pc, job, lost,   \* the workers
    seen,      \* the status the orchestrator read
    drafted,   \* the candidates it derived and has still to persist
    ordered,   \* the ranking it received and has still to persist
    goal,      \* the state the orchestrator will ask transition for
    crashes

locals == <<pc, job, lost, seen, drafted, ordered, goal>>
vars == <<run, evidence, approval, fresh, jobs, locals, crashes>>

Jobs == {"initial", "continuation"}
Orders == UNION {SetToSeqs(S) : S \in SUBSET Candidates}
Modes == {"APPROVAL_CONTROLLED", "FULL_AUTONOMOUS"}
Reasons == {"NONE", "NO_CANDIDATES", "NO_ADMITTED_CANDIDATE", "APPROVAL_REJECTED",
            "DEPLOYMENT_SUCCEEDED"}

Run == [status : RunStatus, reason : Reasons, mode : Modes, metric : BOOLEAN]
Admission == [admitted : SUBSET Candidates, selected : Candidates \cup {NoCandidate}]
Authority == [candidate : Candidates, type : {"AUTONOMOUS", "HUMAN_REQUIRED"}]
Approval == [candidate : Candidates, status : {"PENDING", "APPROVED", "REJECTED"},
             decider : Users \cup {Nobody}]
Evidence ==
    [snapshot : BOOLEAN,
     diagnosis : BOOLEAN,
     generation : (SUBSET Candidates) \cup {Absent},
     ranking : Orders \cup {Absent},
     plan : Orders \cup {Absent},
     evaluated : SUBSET Candidates,
     admission : Admission \cup {Absent},
     authority : Authority \cup {Absent}]
Job == [status : {"ABSENT", "PENDING", "RUNNING", "COMPLETED", "FAILED"},
        owner : Workers \cup {NoWorker}, attempts : Nat]

\* None of them is taken for one that does not exist
ASSUME AbsentIsNoArtifact ==
    /\ \A generation \in SUBSET Candidates : Absent # generation
    /\ \A order \in Orders : Absent # order
    /\ \A admission \in Admission : Absent # admission
    /\ \A authority \in Authority : Absent # authority
    /\ \A request \in Approval : Absent # request

Points == {"idle", "load", "stage", "persist", "request", "transition", "deploy", "done"}

TypeOK ==
    /\ run \in Run
    /\ evidence \in Evidence
    /\ approval \in Approval \cup {Absent}
    /\ fresh \in BOOLEAN
    /\ jobs \in [Jobs -> Job]
    /\ pc \in [Workers -> Points]
    /\ job \in [Workers -> Jobs]
    /\ lost \subseteq Workers
    /\ seen \in [Workers -> RunStatus]
    /\ drafted \in [Workers -> SUBSET Candidates]
    /\ ordered \in [Workers -> Orders]
    /\ goal \in [Workers -> RunStatus]
    /\ crashes \in Nat

NoEvidence ==
    [snapshot |-> FALSE, diagnosis |-> FALSE, generation |-> Absent, ranking |-> Absent,
     plan |-> Absent, evaluated |-> {}, admission |-> Absent, authority |-> Absent]

\* create_run_with_initial_job: the run and its initial job in one transaction.
\* The primary metric may be missing.
Init ==
    /\ run \in [status : {"CREATED"}, reason : {"NONE"}, mode : Modes, metric : BOOLEAN]
    /\ evidence = NoEvidence
    /\ approval = Absent
    /\ fresh = FALSE
    /\ jobs = [j \in Jobs |-> [status |-> IF j = "initial" THEN "PENDING" ELSE "ABSENT",
                               owner |-> NoWorker, attempts |-> 0]]
    /\ pc = [w \in Workers |-> "idle"]
    /\ job = [w \in Workers |-> "initial"]
    /\ lost = {}
    /\ seen = [w \in Workers |-> "CREATED"]
    /\ drafted = [w \in Workers |-> {}]
    /\ ordered = [w \in Workers |-> <<>>]
    /\ goal = [w \in Workers |-> "CREATED"]
    /\ crashes = 0

-----------------------------------------------------------------------------
(* Jobs *)

Owned(w) == jobs[job[w]].status = "RUNNING" /\ jobs[job[w]].owner = w

\* run_once ends.
Leave(w) ==
    /\ pc' = [pc EXCEPT ![w] = "idle"]
    /\ lost' = lost \ {w}
    /\ seen' = [seen EXCEPT ![w] = "CREATED"]
    /\ drafted' = [drafted EXCEPT ![w] = {}]
    /\ ordered' = [ordered EXCEPT ![w] = <<>>]
    /\ goal' = [goal EXCEPT ![w] = "CREATED"]
    /\ UNCHANGED job

\* claim that never takes over a running job
claim_PendingOnly(w, j) ==
    /\ pc[w] = "idle"
    /\ jobs[j].attempts < MaxClaims
    /\ jobs[j].status = "PENDING"
    /\ jobs' = [jobs EXCEPT ![j] = [status |-> "RUNNING", owner |-> w, attempts |-> @.attempts + 1]]
    /\ job' = [job EXCEPT ![w] = j]
    /\ pc' = [pc EXCEPT ![w] = "load"]
    /\ UNCHANGED <<run, evidence, approval, fresh, lost, seen, drafted, ordered, goal, crashes>>

\* A pending job, or a running one whose lease ran out: its owner is dead
\* (NoWorker stands for it) or, with Overlap, late with its heartbeat.
claim(w, j) ==
    /\ pc[w] = "idle"
    /\ jobs[j].attempts < MaxClaims
    /\ \/ jobs[j].status = "PENDING"
       \/ jobs[j].status = "RUNNING" /\ (jobs[j].owner = NoWorker \/ Overlap)
    /\ jobs' = [jobs EXCEPT ![j] = [status |-> "RUNNING", owner |-> w, attempts |-> @.attempts + 1]]
    /\ job' = [job EXCEPT ![w] = j]
    /\ pc' = [pc EXCEPT ![w] = "load"]
    /\ UNCHANGED <<run, evidence, approval, fresh, lost, seen, drafted, ordered, goal, crashes>>

\* The heartbeat of a worker that lost its job finds out.
notice_loss(w) ==
    /\ pc[w] # "idle" /\ ~Owned(w) /\ w \notin lost
    /\ lost' = lost \cup {w}
    /\ UNCHANGED <<run, evidence, approval, fresh, jobs, pc, job, seen, drafted, ordered, goal, crashes>>

\* fail() on the row the worker owns: retried while it has attempts left
Failed(w, permanent) ==
    jobs' = IF Owned(w)
            THEN [jobs EXCEPT ![job[w]].owner = NoWorker,
                              ![job[w]].status =
                                 IF permanent \/ jobs[job[w]].attempts >= MaxAttempts
                                 THEN "FAILED" ELSE "PENDING"]
            ELSE jobs

\* The handler raises, and run_once fails the job.
Fail(w, permanent) ==
    /\ Failed(w, permanent)
    /\ Leave(w)
    /\ UNCHANGED <<run, evidence, approval, fresh, crashes>>

\* Any awaited call may raise, and any service may report that it is blocked:
\* no fresh telemetry, no AI answer, an incomplete ranking, a database error.
\* LeaseLostError is among them: the row is no longer this worker's, and stays.
raises(w) ==
    /\ pc[w] \notin {"idle", "done"}
    /\ Fail(w, FALSE)

\* The handler returned: complete() if the row is still this worker's.
complete(w) ==
    /\ pc[w] = "done"
    /\ jobs' = IF w \notin lost /\ Owned(w)
               THEN [jobs EXCEPT ![job[w]] = [@ EXCEPT !.status = "COMPLETED", !.owner = NoWorker]]
               ELSE jobs
    /\ Leave(w)
    /\ UNCHANGED <<run, evidence, approval, fresh, crashes>>

\* The process of w dies; its job waits for the lease to run out.
crash(w) ==
    /\ pc[w] # "idle"
    /\ crashes < MaxCrashes
    /\ crashes' = crashes + 1
    /\ jobs' = IF Owned(w) THEN [jobs EXCEPT ![job[w]] = [@ EXCEPT !.owner = NoWorker]] ELSE jobs
    /\ Leave(w)
    /\ UNCHANGED <<run, evidence, approval, fresh>>

-----------------------------------------------------------------------------
(* OptimizationRunOrchestrator.run: read the status, then one stage *)

Goto(w, point) == pc' = [pc EXCEPT ![w] = point]

\* Only worker w's place and goal change, besides what the action says.
HeadFor(w, next) ==
    /\ goal' = [goal EXCEPT ![w] = next]
    /\ Goto(w, "transition")
    /\ drafted' = [drafted EXCEPT ![w] = {}]
    /\ ordered' = [ordered EXCEPT ![w] = <<>>]
    /\ UNCHANGED <<run, approval, fresh, jobs, job, lost, seen, crashes>>

\* A terminal run, or one that waits for an approval, ends the handler.
load(w) ==
    /\ pc[w] = "load"
    /\ w \notin lost
    /\ seen' = [seen EXCEPT ![w] = run.status]
    /\ Goto(w, IF run.status \in Terminal \cup {"APPROVAL_PENDING"} THEN "done" ELSE "stage")
    /\ UNCHANGED <<run, evidence, approval, fresh, jobs, job, lost, drafted, ordered, goal, crashes>>

\* Worker w stands at the stage for this status and its lease is not known lost.
At(w, status) == pc[w] = "stage" /\ seen[w] = status /\ w \notin lost

\* _validate_created: the run needs its initial job and nothing else, the target
\* and its evaluation target must be active.  A violation is permanent.
validate_created(w) ==
    /\ At(w, "CREATED")
    /\ \/ /\ {j \in Jobs : jobs[j].status # "ABSENT"} = {"initial"}
          /\ HeadFor(w, "SNAPSHOTTING")
          /\ UNCHANGED evidence
       \/ Fail(w, TRUE)

\* WorkloadSnapshotService.create_for_run: one transaction under the run's row
\* lock.  An integrity failure is permanent.
snapshot(w) ==
    /\ At(w, "SNAPSHOTTING")
    /\ \/ /\ evidence.snapshot \/ run.status = "SNAPSHOTTING"
          /\ evidence' = [evidence EXCEPT !.snapshot = TRUE]
          /\ HeadFor(w, "DIAGNOSING")
       \/ Fail(w, TRUE)

\* DiagnosisService.create_for_run: reuse, or ask the model and persist under the
\* run's row lock
diagnose(w) ==
    /\ At(w, "DIAGNOSING")
    /\ \/ /\ evidence.diagnosis \/ run.status = "DIAGNOSING"
          /\ evidence' = [evidence EXCEPT !.diagnosis = TRUE]
          /\ HeadFor(w, "GENERATING_CANDIDATES")
       \/ Fail(w, TRUE)

AfterGeneration(candidates) == IF candidates = {} THEN "COMPLETED" ELSE "RANKING"

\* CandidateGenerationService.create_for_run: reuse, or derive the candidates
\* from the snapshot and from the indexes the target has at this time
generate(w) ==
    /\ At(w, "GENERATING_CANDIDATES")
    /\ \/ /\ evidence.generation # Absent
          /\ HeadFor(w, AfterGeneration(evidence.generation))
          /\ UNCHANGED evidence
       \/ /\ evidence.generation = Absent
          /\ \E candidates \in SUBSET Candidates : drafted' = [drafted EXCEPT ![w] = candidates]
          /\ Goto(w, "persist")
          /\ UNCHANGED <<run, evidence, approval, fresh, jobs, job, lost, seen, ordered, goal, crashes>>

\* persist_generation that goes on with its own candidates after losing the race
persist_generation_Overwrites(w) ==
    /\ pc[w] = "persist" /\ seen[w] = "GENERATING_CANDIDATES"
    /\ evidence' = [evidence EXCEPT !.generation = drafted[w]]
    /\ HeadFor(w, AfterGeneration(drafted[w]))

\* The transaction of create_for_run.  Another worker may have created the
\* artifact meanwhile: it is reused, or the unique index refuses the row (raises).
persist_generation(w) ==
    /\ pc[w] = "persist" /\ seen[w] = "GENERATING_CANDIDATES"
    /\ LET generation == IF evidence.generation = Absent THEN drafted[w] ELSE evidence.generation
       IN  /\ evidence' = [evidence EXCEPT !.generation = generation]
           /\ HeadFor(w, AfterGeneration(generation))

\* _load: "a non-empty completed generation artifact is required"
Rankable == evidence.generation \notin {Absent, {}}

\* CandidateRankingService.create_for_run: reuse, or let the model order all
\* candidates of the run
rank(w) ==
    /\ At(w, "RANKING")
    /\ \/ /\ evidence.ranking # Absent
          /\ HeadFor(w, "CALIBRATING")
          /\ UNCHANGED evidence
       \/ /\ evidence.ranking = Absent
          /\ Rankable
          /\ \E order \in SetToSeqs(evidence.generation) : ordered' = [ordered EXCEPT ![w] = order]
          /\ Goto(w, "persist")
          /\ UNCHANGED <<run, evidence, approval, fresh, jobs, job, lost, seen, drafted, goal, crashes>>

persist_ranking(w) ==
    /\ pc[w] = "persist" /\ seen[w] = "RANKING"
    /\ evidence' = [evidence EXCEPT !.ranking = IF @ = Absent THEN ordered[w] ELSE @]
    /\ HeadFor(w, "CALIBRATING")

\* SubSeq(ranking, 1, min(3, len(ranking)))
Selection(ranking) ==
    SubSeq(ranking, 1, IF PlanLimit <= Len(ranking) THEN PlanLimit ELSE Len(ranking))

\* create_plan_for_run
create_plan(w) ==
    /\ At(w, "CALIBRATING")
    /\ evidence.plan # Absent \/ evidence.ranking # Absent
    /\ evidence' = [evidence EXCEPT !.plan = IF @ = Absent THEN Selection(evidence.ranking) ELSE @]
    /\ HeadFor(w, "EVALUATING")

\* The injected executor records pairs and marks the evaluations of candidates
\* COMPLETED one by one; it may raise between any two.
evaluate(w) ==
    /\ At(w, "EVALUATING")
    /\ \/ /\ HeadFor(w, "ADMISSION")
          /\ UNCHANGED evidence
       \/ /\ \E c \in evidence.generation \ evidence.evaluated :
                evidence' = [evidence EXCEPT !.evaluated = @ \cup {c}]
          /\ UNCHANGED <<run, approval, fresh, jobs, locals, crashes>>

\* The highest-ranked admitted candidate
FirstAdmitted(plan, admitted) ==
    LET i == SelectInSeq(plan, LAMBDA c : c \in admitted)
    IN  IF i = 0 THEN NoCandidate ELSE plan[i]

AfterAdmission(admission) ==
    IF admission.selected = NoCandidate THEN "COMPLETED" ELSE "ADMITTED"

\* decide_for_run of admission, any set of verdicts
decide_admission(w) ==
    /\ At(w, "ADMISSION")
    /\ \/ /\ evidence.admission # Absent
          /\ HeadFor(w, AfterAdmission(evidence.admission))
          /\ UNCHANGED evidence
       \/ /\ evidence.admission = Absent /\ evidence.plan # Absent
          /\ \E admitted \in SUBSET Range(evidence.plan) :
                LET admission == [admitted |-> admitted,
                                  selected |-> FirstAdmitted(evidence.plan, admitted)]
                IN  /\ evidence' = [evidence EXCEPT !.admission = admission]
                    /\ HeadFor(w, AfterAdmission(admission))

\* Without a human only in the autonomous mode, and then if the evidence makes the
\* candidate eligible
AuthorityTypes == IF run.mode = "FULL_AUTONOMOUS" THEN {"AUTONOMOUS", "HUMAN_REQUIRED"}
                  ELSE {"HUMAN_REQUIRED"}

\* DurableAuthorityService.decide_for_run, and where its answer leads
decide_authority(w) ==
    /\ pc[w] = "stage" /\ seen[w] = "ADMITTED"
    /\ \E authority \in
          IF evidence.authority # Absent THEN {evidence.authority}
          ELSE IF run.status = "ADMITTED" /\ evidence.admission.selected # NoCandidate
          THEN [candidate : {evidence.admission.selected}, type : AuthorityTypes]
          ELSE {} :
          /\ evidence' = [evidence EXCEPT !.authority = authority]
          /\ goal' = [goal EXCEPT ![w] = IF authority.type = "AUTONOMOUS"
                                         THEN "APPROVED" ELSE "APPROVAL_PENDING"]
          /\ Goto(w, IF authority.type = "AUTONOMOUS" THEN "transition" ELSE "request")
    /\ UNCHANGED <<run, approval, fresh, jobs, job, lost, seen, drafted, ordered, crashes>>

\* DurableApprovalService.request: the run's one request is created, or taken as
\* it is, expired or not
request(w) ==
    /\ pc[w] = "request"
    /\ \/ /\ approval = Absent
          /\ approval' = [candidate |-> evidence.authority.candidate, status |-> "PENDING",
                          decider |-> Nobody]
          /\ fresh' = TRUE
       \/ /\ approval # Absent
          /\ approval.candidate = evidence.authority.candidate
          /\ UNCHANGED <<approval, fresh>>
    /\ Goto(w, "transition")
    /\ UNCHANGED <<run, evidence, jobs, job, lost, seen, drafted, ordered, goal, crashes>>

-----------------------------------------------------------------------------
(* RunRepository.transition *)

\* Why a worker completes a run, by the stage it is at
Reason(w) ==
    IF goal[w] # "COMPLETED" THEN "NONE"
    ELSE CASE seen[w] = "GENERATING_CANDIDATES" -> "NO_CANDIDATES"
           [] seen[w] = "ADMISSION" -> "NO_ADMITTED_CANDIDATE"
           [] OTHER -> "DEPLOYMENT_SUCCEEDED"

\* EvidenceFor that takes any plan for a finished evaluation
EvidenceFor_AnyPlan(next, reason) ==
    CASE <<run.status, next>> = <<"EVALUATING", "ADMISSION">> -> evidence.plan # Absent
      [] OTHER -> TRUE

\* The evidence that each edge demands of the row and the artifacts
EvidenceFor(next, reason) ==
    CASE <<run.status, next>> = <<"SNAPSHOTTING", "DIAGNOSING">> -> evidence.snapshot
      [] <<run.status, next>> = <<"DIAGNOSING", "GENERATING_CANDIDATES">> -> evidence.diagnosis
      [] <<run.status, next>> = <<"GENERATING_CANDIDATES", "RANKING">> ->
            evidence.generation \notin {Absent, {}}
      [] <<run.status, next>> = <<"GENERATING_CANDIDATES", "COMPLETED">> ->
            evidence.generation = {} /\ reason = "NO_CANDIDATES"
      [] <<run.status, next>> = <<"RANKING", "CALIBRATING">> ->
            run.metric /\ evidence.ranking # Absent
      [] <<run.status, next>> = <<"CALIBRATING", "EVALUATING">> -> evidence.plan # Absent
      [] <<run.status, next>> = <<"EVALUATING", "ADMISSION">> ->
            evidence.plan # Absent /\ Range(evidence.plan) \subseteq evidence.evaluated
      [] <<run.status, next>> = <<"ADMISSION", "ADMITTED">> ->
            evidence.admission # Absent /\ evidence.admission.selected # NoCandidate
      [] <<run.status, next>> = <<"ADMISSION", "COMPLETED">> ->
            /\ evidence.admission # Absent /\ evidence.admission.admitted = {}
            /\ reason = "NO_ADMITTED_CANDIDATE"
      [] OTHER -> TRUE

\* The row is locked and the edge and its evidence are checked against the row,
\* not against what the worker read; a refusal raises (raises).
transition(w) ==
    /\ pc[w] = "transition"
    /\ w \notin lost
    /\ ValidTransition(run.status, goal[w])
    /\ EvidenceFor(goal[w], Reason(w))
    /\ run' = [run EXCEPT !.status = goal[w], !.reason = Reason(w)]
    /\ Goto(w, IF goal[w] = "APPROVAL_PENDING" THEN "done" ELSE "load")
    /\ UNCHANGED <<evidence, approval, fresh, jobs, job, lost, seen, drafted, ordered, goal, crashes>>

-----------------------------------------------------------------------------
(* The stages from APPROVED on, in large steps *)

Authorized ==
    \/ evidence.authority.type = "AUTONOMOUS"
    \/ approval # Absent /\ approval.status = "APPROVED" /\ fresh

\* _load_bound_action, which reads the run again
load_bound_action(w) ==
    /\ At(w, "APPROVED") \/ At(w, "DEPLOYING")
    /\ evidence.authority # Absent
    /\ Authorized
    /\ seen' = [seen EXCEPT ![w] = run.status]
    /\ Goto(w, "deploy")
    /\ UNCHANGED <<run, evidence, approval, fresh, jobs, job, lost, drafted, ordered, goal, crashes>>

\* deploy_for_run under the target lock, to DEPLOYING and to DEPLOYED
deploy(w) ==
    /\ pc[w] = "deploy"
    /\ \/ /\ seen[w] = "APPROVED" /\ run.status = "APPROVED"
          /\ run' = [run EXCEPT !.status = "DEPLOYING"]
          /\ seen' = [seen EXCEPT ![w] = "DEPLOYING"]
          /\ UNCHANGED pc
       \/ /\ seen[w] \in {"DEPLOYING", "DEPLOYED"} /\ run.status \in {"DEPLOYING", "DEPLOYED"}
          /\ run' = [run EXCEPT !.status = "DEPLOYED"]
          /\ Goto(w, "load")
          /\ UNCHANGED seen
    /\ UNCHANGED <<evidence, approval, fresh, jobs, job, lost, drafted, ordered, goal, crashes>>

begin_monitoring(w) == At(w, "DEPLOYED") /\ HeadFor(w, "MONITORING") /\ UNCHANGED evidence

\* The end the monitoring outcome leads to
monitor(w) ==
    /\ At(w, "MONITORING")
    /\ \E outcome \in {"COMPLETED", "ROLLED_BACK", "ROLLBACK_BLOCKED"} : HeadFor(w, outcome)
    /\ UNCHANGED evidence

-----------------------------------------------------------------------------
(* DurableApprovalService at the API, and time *)

\* Decidable without the four-eyes rule
Decidable_BySelf(user) ==
    /\ approval # Absent /\ approval.status = "PENDING" /\ fresh
    /\ run.status = "APPROVAL_PENDING"

\* The request is PENDING and unexpired, the run waits for it, and the decider is
\* not the requester.
Decidable(user) ==
    /\ approval # Absent /\ approval.status = "PENDING" /\ fresh
    /\ user # Requester
    /\ run.status = "APPROVAL_PENDING"

\* approve_and_enqueue_continuation without its INSERT INTO jobs
approve_NoJob(user) ==
    /\ Decidable(user)
    /\ approval' = [approval EXCEPT !.status = "APPROVED", !.decider = user]
    /\ run' = [run EXCEPT !.status = "APPROVED"]
    /\ UNCHANGED <<evidence, fresh, jobs, locals, crashes>>

\* approve_and_enqueue_continuation: request, decision, run and job in one
\* transaction; ON CONFLICT DO NOTHING
approve(user) ==
    /\ Decidable(user)
    /\ approval' = [approval EXCEPT !.status = "APPROVED", !.decider = user]
    /\ run' = [run EXCEPT !.status = "APPROVED"]
    /\ jobs' = [jobs EXCEPT !["continuation"].status = IF @ = "ABSENT" THEN "PENDING" ELSE @]
    /\ UNCHANGED <<evidence, fresh, locals, crashes>>

\* reject_and_complete_run that leaves the run alone
reject_RequestOnly(user) ==
    /\ Decidable(user)
    /\ approval' = [approval EXCEPT !.status = "REJECTED", !.decider = user]
    /\ UNCHANGED <<run, evidence, fresh, jobs, locals, crashes>>

\* reject_and_complete_run
reject(user) ==
    /\ Decidable(user)
    /\ approval' = [approval EXCEPT !.status = "REJECTED", !.decider = user]
    /\ run' = [run EXCEPT !.status = "COMPLETED", !.reason = "APPROVAL_REJECTED"]
    /\ UNCHANGED <<evidence, fresh, jobs, locals, crashes>>

\* expires_at passes
expire ==
    /\ fresh
    /\ fresh' = FALSE
    /\ UNCHANGED <<run, evidence, approval, jobs, locals, crashes>>

work(w) ==
    \/ load(w) \/ validate_created(w) \/ snapshot(w) \/ diagnose(w)
    \/ generate(w) \/ persist_generation(w) \/ rank(w) \/ persist_ranking(w) \/ create_plan(w)
    \/ evaluate(w) \/ decide_admission(w) \/ decide_authority(w) \/ request(w) \/ transition(w)
    \/ load_bound_action(w) \/ deploy(w) \/ begin_monitoring(w) \/ monitor(w)
    \/ raises(w) \/ complete(w)

Next ==
    \/ \E w \in Workers :
          \/ \E j \in Jobs : claim(w, j)
          \/ notice_loss(w) \/ work(w) \/ crash(w)
    \/ \E user \in Users : approve(user) \/ reject(user)
    \/ expire

Spec == Init /\ [][Next]_vars

\* A worker that has a job works on it and a free worker polls.  Nobody has to
\* decide an approval.
Fairness == \A w \in Workers : WF_vars(work(w)) /\ WF_vars(\E j \in Jobs : claim(w, j))

FairSpec == Spec /\ Fairness

-----------------------------------------------------------------------------
(* Properties *)

\* Every artifact rests on the ones before it, whichever worker created which of
\* them: the ranking orders exactly the generated candidates, the plan is its
\* head, admission judged candidates whose evaluation is complete and selected the
\* highest-ranked admitted one, and authority and approval are about that one.
EvidenceChain ==
    LET e == evidence IN
    /\ e.generation # Absent => e.snapshot /\ e.diagnosis
    /\ e.ranking # Absent => e.generation # Absent /\ e.ranking \in SetToSeqs(e.generation)
    /\ e.plan # Absent => e.ranking # Absent /\ e.plan = Selection(e.ranking) /\ e.plan # <<>>
    /\ e.admission # Absent =>
          /\ e.plan # Absent /\ Range(e.plan) \subseteq e.evaluated
          /\ e.admission.admitted \subseteq Range(e.plan)
          /\ e.admission.selected = FirstAdmitted(e.plan, e.admission.admitted)
    /\ e.authority # Absent =>
          /\ e.admission # Absent /\ e.authority.candidate = e.admission.selected
          /\ e.authority.type = "AUTONOMOUS" => run.mode = "FULL_AUTONOMOUS"
    /\ approval # Absent =>
          /\ e.authority # Absent /\ e.authority.type = "HUMAN_REQUIRED"
          /\ approval.candidate = e.authority.candidate

\* An artifact that exists is never replaced or changed, also not by a worker that
\* computed its own version before another one was persisted.
EvidenceFrozen ==
    [][\A kind \in {"generation", "ranking", "plan", "admission", "authority"} :
          evidence[kind] # Absent => evidence'[kind] = evidence[kind]]_vars

\* A run gets into production only with an authority: its own mode and evidence, or
\* the approval of somebody other than its requester.
ProductionIsAuthorized ==
    \/ run.status \in {"DEPLOYING", "DEPLOYED", "MONITORING", "ROLLED_BACK", "ROLLBACK_BLOCKED"}
    \/ run.reason = "DEPLOYMENT_SUCCEEDED"
    => /\ evidence.authority # Absent
       /\ evidence.authority.candidate \in evidence.evaluated
       /\ \/ evidence.authority.type = "AUTONOMOUS" /\ approval = Absent
          \/ approval # Absent /\ approval.status = "APPROVED" /\ approval.decider # Requester

\* A decision and its effects are one: an approval comes with the continuation job
\* and a run on its way to production, a rejection ends the run for good and
\* enqueues nothing.
DecisionTakesEffect ==
    /\ jobs["continuation"].status # "ABSENT" <=> approval # Absent /\ approval.status = "APPROVED"
    /\ run.reason = "APPROVAL_REJECTED" <=> approval # Absent /\ approval.status = "REJECTED"
    /\ run.status = "APPROVAL_PENDING" => approval # Absent /\ approval.status = "PENDING"

\* OptimizationJobHandler.handle: approval is the only pause.  A run that has not
\* ended and does not wait for an approval has a job that some worker holds or will
\* claim, unless the queue has given a job up.
NothingStranded ==
    \/ run.status \in Terminal \cup {"APPROVAL_PENDING"}
    \/ \E j \in Jobs : jobs[j].status \in {"PENDING", "RUNNING", "FAILED"}

\* Every run comes to rest: it ends, waits for an approval, or has a job the queue
\* gave up.
RunSettles ==
    <>[](\/ run.status \in Terminal \cup {"APPROVAL_PENDING"}
         \/ \E j \in Jobs : jobs[j].status = "FAILED")

-----------------------------------------------------------------------------
(* What the documentation claims and the code does not keep *)

\* README: "Any stage can also drop straight to `FAILED`": a run whose job was given
\* up does not stay where it is.
FailedJobEndsRun ==
    (/\ \E j \in Jobs : jobs[j].status = "FAILED"
     /\ \A j \in Jobs : jobs[j].status \notin {"PENDING", "RUNNING"}
     /\ run.status # "APPROVAL_PENDING")
    ~> run.status \in Terminal

\* OptimizationJobHandler.handle: "One claimed job owns the complete uninterrupted
\* state-machine slice."
OneJobDrivesRun ==
    \A v, w \in Workers :
        pc[v] = "deploy" /\ Owned(v) /\ pc[w] = "deploy" /\ Owned(w) => job[v] = job[w]
=============================================================================
