------------------------------ MODULE JobQueue ------------------------------
(***************************************************************************)
(* The durable job queue (backend/app/worker/durable.py) and the polling   *)
(* worker process around it (backend/app/worker/service.py).               *)
(*                                                                         *)
(* JobRepository keeps one PostgreSQL row per job.  Every method of it is  *)
(* a single UPDATE or INSERT statement in a transaction of its own, so     *)
(* each is one atomic action here.  DurableJobWorker.run_once runs in      *)
(* several processes at once; the awaits between its statements are the    *)
(* places where other processes, the clock, a crash or a database error    *)
(* step in.                                                                *)
(*                                                                         *)
(* Time.  The program stores the absolute instants lease_expires_at and    *)
(* available_at and compares them with the caller's own clock.  Only the   *)
(* differences to the present matter, so the model stores those            *)
(* differences (lease_left, available_in) and Tick lowers them.  Skew[w]   *)
(* is how far the clock of worker w runs ahead of the database's.          *)
(***************************************************************************)
EXTENDS Integers, Sequences

CONSTANTS
    Jobs,             \* job identifiers
    Workers,          \* worker identities; one per process incarnation (worker_id)
    NoJob, NoWorker,  \* the NULLs
    Lease,            \* lease_duration
    MaxAttempts,      \* max_attempts
    Skew,             \* clock offset of each worker
    Mortal,           \* the workers that may be killed or told to stop
    Timely,           \* TRUE: a healthy heartbeat loop runs at its interval
    MaxClaims,        \* bound on the attempts column
    MaxFaults         \* bound on crashes and database errors together

ASSUME QueueConstants ==
    /\ Lease \in Nat \ {0}
    /\ MaxAttempts \in Nat \ {0}
    /\ Skew \in [Workers -> Nat]
    /\ Mortal \subseteq Workers
    /\ Timely \in BOOLEAN
    /\ MaxClaims \in Nat
    /\ MaxFaults \in Nat
    /\ NoJob \notin Jobs
    /\ NoWorker \notin Workers

VARIABLES
    created,          \* jobs in the order (created_at, id)
    status, attempts, lease_owner, lease_left, available_in,   \* columns of jobs
    pc,               \* where run_once of each worker stands
    job,              \* the Job run_once claimed
    claimed_attempts, \* Job.attempts, a copy made at the claim
    lease_lost,       \* workers whose lease_lost event is set
    beating,          \* workers whose heartbeat_loop is alive
    stopping,         \* processes that got SIGTERM or SIGINT
    faults            \* crashes and database errors so far

rows == <<created, status, attempts, lease_owner, lease_left, available_in>>
locals == <<pc, job, claimed_attempts, lease_lost, beating, stopping>>
vars == <<rows, locals, faults>>

Statuses == {"ABSENT", "PENDING", "RUNNING", "COMPLETED", "FAILED"}
Settled == {"COMPLETED", "FAILED"}
Points == {"idle", "handling", "fail_transient", "fail_permanent", "exited"}

TypeOK ==
    /\ created \in Seq(Jobs)
    /\ status \in [Jobs -> Statuses]
    /\ attempts \in [Jobs -> Nat]
    /\ lease_owner \in [Jobs -> Workers \cup {NoWorker}]
    /\ lease_left \in [Jobs -> Nat]
    /\ available_in \in [Jobs -> Nat]
    /\ pc \in [Workers -> Points]
    /\ job \in [Workers -> Jobs \cup {NoJob}]
    /\ claimed_attempts \in [Workers -> Nat]
    /\ lease_lost \subseteq Workers
    /\ beating \subseteq Workers
    /\ stopping \subseteq Workers
    /\ faults \in Nat

Init ==
    /\ created = <<>>
    /\ status = [j \in Jobs |-> "ABSENT"]
    /\ attempts = [j \in Jobs |-> 0]
    /\ lease_owner = [j \in Jobs |-> NoWorker]
    /\ lease_left = [j \in Jobs |-> 0]
    /\ available_in = [j \in Jobs |-> 0]
    /\ pc = [w \in Workers |-> "idle"]
    /\ job = [w \in Workers |-> NoJob]
    /\ claimed_attempts = [w \in Workers |-> 0]
    /\ lease_lost = {}
    /\ beating = {}
    /\ stopping = {}
    /\ faults = 0

-----------------------------------------------------------------------------
(* JobRepository: one SQL statement each *)

\* INSERT of a pending job; available_at defaults to the database's now().
enqueue(j) ==
    /\ status[j] = "ABSENT"
    /\ created' = Append(created, j)
    /\ status' = [status EXCEPT ![j] = "PENDING"]
    /\ UNCHANGED <<attempts, lease_owner, lease_left, available_in, locals, faults>>

\* Claimable without the test of the expiry
Claimable_AnyRunning(w, j) ==
    \/ status[j] = "PENDING" /\ available_in[j] <= Skew[w]
    \/ status[j] = "RUNNING"

\* Claimable without the recovery of abandoned jobs
Claimable_PendingOnly(w, j) == status[j] = "PENDING" /\ available_in[j] <= Skew[w]

\* The WHERE clause of claim, read with the clock of worker w.
Claimable(w, j) ==
    \/ status[j] = "PENDING" /\ available_in[j] <= Skew[w]
    \/ status[j] = "RUNNING" /\ lease_left[j] <= Skew[w]

\* ORDER BY created_at, id LIMIT 1
FirstClaimable(w, j) ==
    /\ Claimable(w, j)
    /\ \E i \in DOMAIN created :
          /\ created[i] = j
          /\ \A k \in 1 .. (i - 1) : ~Claimable(w, created[k])

\* The WHERE clause shared by complete and fail.  It has no test of the expiry.
OwnedRow(w, j) == status[j] = "RUNNING" /\ lease_owner[j] = w

LeaseUntil(w) == Lease + Skew[w]

\* min(16, 2 ** max(0, attempt - 1))
backoff_seconds(attempt) ==
    CASE attempt <= 1 -> 1
      [] attempt = 2 -> 2
      [] attempt = 3 -> 4
      [] attempt = 4 -> 8
      [] OTHER -> 16

-----------------------------------------------------------------------------
(* DurableJobWorker.run_once *)

\* What ends a call of run_once.  WorkerService.run calls it again unless the
\* process was told to stop.
EndRunOnce(w) ==
    /\ pc' = [pc EXCEPT ![w] = IF w \in stopping THEN "exited" ELSE "idle"]
    /\ job' = [job EXCEPT ![w] = NoJob]
    /\ lease_lost' = lease_lost \ {w}
    /\ beating' = beating \ {w}
    /\ UNCHANGED <<claimed_attempts, stopping>>

\* claim that takes over an abandoned job without writing its own name
claim_KeepsOwner(w, j) ==
    /\ pc[w] = "idle"
    /\ w \notin stopping
    /\ attempts[j] < MaxClaims
    /\ FirstClaimable(w, j)
    /\ status' = [status EXCEPT ![j] = "RUNNING"]
    /\ lease_owner' = [lease_owner EXCEPT ![j] = IF @ = NoWorker THEN w ELSE @]
    /\ lease_left' = [lease_left EXCEPT ![j] = LeaseUntil(w)]
    /\ attempts' = [attempts EXCEPT ![j] = @ + 1]
    /\ pc' = [pc EXCEPT ![w] = "handling"]
    /\ job' = [job EXCEPT ![w] = j]
    /\ claimed_attempts' = [claimed_attempts EXCEPT ![w] = attempts[j] + 1]
    /\ beating' = beating \cup {w}
    /\ UNCHANGED <<created, available_in, lease_lost, stopping, faults>>

\* claim() and the start of the heartbeat task
claim(w, j) ==
    /\ pc[w] = "idle"
    /\ w \notin stopping
    /\ attempts[j] < MaxClaims
    /\ FirstClaimable(w, j)
    /\ status' = [status EXCEPT ![j] = "RUNNING"]
    /\ lease_owner' = [lease_owner EXCEPT ![j] = w]
    /\ lease_left' = [lease_left EXCEPT ![j] = LeaseUntil(w)]
    /\ attempts' = [attempts EXCEPT ![j] = @ + 1]
    /\ pc' = [pc EXCEPT ![w] = "handling"]
    /\ job' = [job EXCEPT ![w] = j]
    /\ claimed_attempts' = [claimed_attempts EXCEPT ![w] = attempts[j] + 1]
    /\ beating' = beating \cup {w}
    /\ UNCHANGED <<created, available_in, lease_lost, stopping, faults>>

\* run_once is between its claim and its end
Busy(w) == pc[w] \in {"handling", "fail_transient", "fail_permanent"}

\* heartbeat(): the lease is renewed if the row is still this worker's and the
\* lease has not run out by its clock; otherwise heartbeat_loop sets lease_lost.  The loop
\* ends once lease_lost is set; set by a signal while it sleeps, it renews once more.
heartbeat(w) ==
    /\ Busy(w)
    /\ w \in beating
    /\ IF OwnedRow(w, job[w]) /\ lease_left[job[w]] > Skew[w]
       THEN /\ lease_left' = [lease_left EXCEPT ![job[w]] = LeaseUntil(w)]
            /\ UNCHANGED lease_lost
       ELSE /\ lease_lost' = lease_lost \cup {w}
            /\ UNCHANGED lease_left
    /\ beating' = beating \ (lease_lost' \cap {w})
    /\ UNCHANGED <<created, status, attempts, lease_owner, available_in, pc, job,
                   claimed_attempts, stopping, faults>>

\* A database error inside heartbeat_loop ends the task; nobody looks at its
\* exception until run_once ends, and lease_lost stays unset.
heartbeat_error(w) ==
    /\ Busy(w)
    /\ w \in beating
    /\ faults < MaxFaults
    /\ beating' = beating \ {w}
    /\ faults' = faults + 1
    /\ UNCHANGED <<rows, pc, job, claimed_attempts, lease_lost, stopping>>

\* complete() on the row of job j
MarkCompleted(j) ==
    /\ status' = [status EXCEPT ![j] = "COMPLETED"]
    /\ lease_owner' = [lease_owner EXCEPT ![j] = NoWorker]
    /\ lease_left' = [lease_left EXCEPT ![j] = 0]
    /\ UNCHANGED <<created, attempts, available_in>>

\* handler_returns with a complete() that has no test of the owner
handler_returns_Unfenced(w) ==
    /\ pc[w] = "handling"
    /\ IF w \notin lease_lost
       THEN MarkCompleted(job[w])
       ELSE UNCHANGED rows
    /\ EndRunOnce(w)
    /\ UNCHANGED faults

\* The handler returns; run_once completes the job, or raises LeaseLostError
\* and leaves the row as it is.
handler_returns(w) ==
    /\ pc[w] = "handling"
    /\ IF w \notin lease_lost /\ OwnedRow(w, job[w])
       THEN MarkCompleted(job[w])
       ELSE UNCHANGED rows
    /\ EndRunOnce(w)
    /\ UNCHANGED faults

\* The handler returns and complete() raises a database error, after or before
\* its transaction was committed.  run_once handles it as a transient failure.
complete_error(w) ==
    /\ pc[w] = "handling"
    /\ w \notin lease_lost
    /\ faults < MaxFaults
    /\ \/ OwnedRow(w, job[w]) /\ MarkCompleted(job[w])
       \/ UNCHANGED rows
    /\ pc' = [pc EXCEPT ![w] = "fail_transient"]
    /\ faults' = faults + 1
    /\ UNCHANGED <<job, claimed_attempts, lease_lost, beating, stopping>>

\* The handler raises: a permanent or a transient failure.
handler_raises(w) ==
    /\ pc[w] = "handling"
    /\ \E point \in {"fail_transient", "fail_permanent"} :
          pc' = [pc EXCEPT ![w] = point]
    /\ UNCHANGED <<rows, job, claimed_attempts, lease_lost, beating, stopping, faults>>

\* ensure_lease_owned() raises LeaseLostError inside the handler; the row stays
\* RUNNING until its lease runs out.
ensure_lease_owned(w) ==
    /\ pc[w] = "handling"
    /\ w \in lease_lost
    /\ EndRunOnce(w)
    /\ UNCHANGED <<rows, faults>>

\* Final one attempt too late
Final_OffByOne(w) == pc[w] = "fail_permanent" \/ claimed_attempts[w] > MaxAttempts

\* No further attempt: decided with the copy of attempts made at the claim.
Final(w) == pc[w] = "fail_permanent" \/ claimed_attempts[w] >= MaxAttempts

\* fail() on the row of job j: terminal, or pending again after a delay
MarkFailed(w, j) ==
    /\ IF Final(w)
       THEN /\ status' = [status EXCEPT ![j] = "FAILED"]
            /\ UNCHANGED available_in
       ELSE /\ status' = [status EXCEPT ![j] = "PENDING"]
            /\ available_in' = [available_in EXCEPT
                   ![j] = backoff_seconds(claimed_attempts[w]) + Skew[w]]
    /\ lease_owner' = [lease_owner EXCEPT ![j] = NoWorker]
    /\ lease_left' = [lease_left EXCEPT ![j] = 0]
    /\ UNCHANGED <<created, attempts>>

\* run_once calls fail(); if the row is no longer this worker's, LeaseLostError
\* leaves it as it is.
fail(w) ==
    /\ pc[w] \in {"fail_transient", "fail_permanent"}
    /\ IF OwnedRow(w, job[w]) THEN MarkFailed(w, job[w]) ELSE UNCHANGED rows
    /\ EndRunOnce(w)
    /\ UNCHANGED faults

\* fail() itself meets a database error: WorkerService.run catches it, waits a
\* poll interval and goes on; the row stays RUNNING.
fail_error(w) ==
    /\ pc[w] \in {"fail_transient", "fail_permanent"}
    /\ faults < MaxFaults
    /\ EndRunOnce(w)
    /\ faults' = faults + 1
    /\ UNCHANGED rows

-----------------------------------------------------------------------------
(* The worker process *)

\* The process dies; its identity is never used again.
crash(w) ==
    /\ w \in Mortal
    /\ pc[w] # "exited"
    /\ faults < MaxFaults
    /\ pc' = [pc EXCEPT ![w] = "exited"]
    /\ job' = [job EXCEPT ![w] = NoJob]
    /\ lease_lost' = lease_lost \ {w}
    /\ beating' = beating \ {w}
    /\ faults' = faults + 1
    /\ UNCHANGED <<rows, claimed_attempts, stopping>>

\* SIGTERM: an idle worker leaves its loop, a busy one gets lease_lost set by
\* watch_shutdown.
stop(w) ==
    /\ w \in Mortal
    /\ pc[w] # "exited"
    /\ w \notin stopping
    /\ stopping' = stopping \cup {w}
    /\ lease_lost' = IF Busy(w) THEN lease_lost \cup {w} ELSE lease_lost
    /\ pc' = [pc EXCEPT ![w] = IF Busy(w) THEN @ ELSE "exited"]
    /\ UNCHANGED <<rows, job, claimed_attempts, beating, faults>>

\* heartbeat_loop sleeps lease/3 between two renewals.
RenewalDue(w) ==
    /\ Busy(w)
    /\ w \in beating
    /\ w \notin lease_lost
    /\ OwnedRow(w, job[w])
    /\ lease_left[job[w]] <= LeaseUntil(w) - (Lease \div 3)

Lower(n) == IF n > 0 THEN n - 1 ELSE 0

\* One unit of time.  If Timely, it does not pass while a healthy heartbeat is
\* due; otherwise an event loop may be held up for longer than its lease.
Tick ==
    /\ Timely => \A w \in Workers : ~RenewalDue(w)
    /\ lease_left' = [j \in Jobs |-> Lower(lease_left[j])]
    /\ available_in' = [j \in Jobs |-> Lower(available_in[j])]
    /\ UNCHANGED <<created, status, attempts, lease_owner, locals, faults>>

run_once(w) ==
    \/ \E j \in Jobs : claim(w, j)
    \/ heartbeat(w)
    \/ heartbeat_error(w)
    \/ handler_returns(w)
    \/ complete_error(w)
    \/ handler_raises(w)
    \/ ensure_lease_owned(w)
    \/ fail(w)
    \/ fail_error(w)

Next ==
    \/ \E j \in Jobs : enqueue(j)
    \/ \E w \in Workers : run_once(w) \/ crash(w) \/ stop(w)
    \/ Tick

Spec == Init /\ [][Next]_vars

\* A worker that is not killed keeps polling, keeps its heartbeat and its handler
\* running, and time passes.  Nothing obliges a fault, a stop or an enqueue.
Fairness ==
    /\ WF_vars(Tick)
    /\ \A w \in Workers :
          /\ WF_vars(\E j \in Jobs : claim(w, j))
          /\ WF_vars(heartbeat(w))
          /\ WF_vars(handler_returns(w) \/ handler_raises(w) \/ ensure_lease_owned(w))
          /\ WF_vars(fail(w))

FairSpec == Spec /\ Fairness

-----------------------------------------------------------------------------
(* Properties *)

\* complete and fail are fenced by the owner column alone: they compare no claim
\* number, and fail decides with a copy of attempts.  That is sound because a row
\* that names a worker as its owner stands for the very claim that worker is
\* handling, however often the job was lost to others in between.
OwnerHoldsLatestClaim ==
    \A w \in Workers, j \in Jobs :
        OwnedRow(w, j) /\ job[w] = j => claimed_attempts[w] = attempts[j]

\* A job goes back to PENDING only while it has attempts left, although crashes
\* let the attempts column of a RUNNING job pass max_attempts.
RetryBudget ==
    \A j \in Jobs : status[j] = "PENDING" => attempts[j] < MaxAttempts

\* While the heartbeat loop of a worker runs on time and has reported no loss, the
\* row is still its own: no other worker, not even one whose clock runs ahead,
\* has claimed the job.  (For Timely heartbeats.)
HealthyHolderKeepsJob ==
    \A w \in Workers :
        pc[w] = "handling" /\ w \in beating /\ w \notin lease_lost => OwnedRow(w, job[w])

\* Every persisted job is completed or failed in the end, whatever the faults,
\* as long as one worker survives and faults are finitely many.
EveryJobSettles ==
    \A j \in Jobs : status[j] = "PENDING" ~> status[j] \in Settled

\* The refinement mapping: a PENDING or RUNNING job is open; the claim a worker is
\* handling is the grant it holds.
PhaseOf(st) == IF st = "ABSENT" THEN "absent" ELSE IF st \in Settled THEN "settled" ELSE "open"
Phase == [j \in Jobs |-> PhaseOf(status[j])]
HeldGrant == [w \in Workers |-> IF job[w] = NoJob THEN <<NoJob, 0>>
                                ELSE <<job[w], claimed_attempts[w]>>]

\* The promise of the queue, stated without rows, clocks or leases.
Contract == INSTANCE LeasedWork WITH phase <- Phase, epoch <- attempts, grant <- HeldGrant

\* The queue implements the contract: a job is settled once, by the holder of its
\* latest claim.
ImplementsContract == Contract!Spec
=============================================================================
