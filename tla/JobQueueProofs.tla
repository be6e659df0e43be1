--------------------------- MODULE JobQueueProofs ---------------------------
(***************************************************************************)
(* Proofs about JobQueue for every set of jobs and workers, every lease,   *)
(* skew, retry limit and number of faults.                                 *)
(***************************************************************************)
EXTENDS MCJobQueue, TLAPS

\* A worker has a job in hand exactly while its run_once is between claim and end.
JobInHand == \A w \in Workers : Busy(w) <=> job[w] # NoJob

\* A row that was never inserted was never claimed.
AbsentUnclaimed == \A j \in Jobs : status[j] = "ABSENT" => attempts[j] = 0

\* The inductive invariant: the owner column names the latest claimant, so fail
\* decides with the current value of attempts.
IInv ==
    /\ TypeOK
    /\ JobInHand
    /\ AbsentUnclaimed
    /\ OwnerHoldsLatestClaim
    /\ RetryBudget

-----------------------------------------------------------------------------

\* backoff_seconds returns a delay of one to sixteen seconds.
LEMMA BackoffType ==
    ASSUME NEW n \in Nat
    PROVE  backoff_seconds(n) \in 1 .. 16
    BY DEF backoff_seconds

\* The type invariant and its strengthening hold initially.
LEMMA InitIInv == Init => IInv
    BY QueueConstants
    DEF Init, IInv, TypeOK, Statuses, Points, Busy, JobInHand, AbsentUnclaimed,
        OwnerHoldsLatestClaim, OwnedRow, RetryBudget

\* Ending run_once changes only the locals of that worker, and keeps their types.
LEMMA EndRunOnceTypes ==
    ASSUME TypeOK, NEW w \in Workers, EndRunOnce(w)
    PROVE  /\ pc' \in [Workers -> Points]
           /\ job' \in [Workers -> Jobs \cup {NoJob}]
           /\ claimed_attempts' \in [Workers -> Nat]
           /\ lease_lost' \subseteq Workers
           /\ beating' \subseteq Workers
           /\ stopping' \subseteq Workers
    BY DEF TypeOK, EndRunOnce, Points

\* The columns of the jobs table hold values of their types.
RowTypes ==
    /\ created \in Seq(Jobs)
    /\ status \in [Jobs -> Statuses]
    /\ attempts \in [Jobs -> Nat]
    /\ lease_owner \in [Jobs -> Workers \cup {NoWorker}]
    /\ lease_left \in [Jobs -> Nat]
    /\ available_in \in [Jobs -> Nat]

\* complete() writes values of the columns' types.
LEMMA MarkCompletedTypes ==
    ASSUME TypeOK, NEW j \in Jobs, MarkCompleted(j)
    PROVE  RowTypes'
    BY DEF TypeOK, RowTypes, MarkCompleted, Statuses

\* fail() writes values of the columns' types.
LEMMA MarkFailedTypes ==
    ASSUME TypeOK, NEW w \in Workers, NEW j \in Jobs, MarkFailed(w, j)
    PROVE  RowTypes'
<1>1. claimed_attempts[w] \in Nat /\ Skew[w] \in Nat
    BY QueueConstants DEF TypeOK
<1>2. backoff_seconds(claimed_attempts[w]) \in 1 .. 16
    BY <1>1, BackoffType
<1> DEFINE delay == backoff_seconds(claimed_attempts[w]) + Skew[w]
<1>3. delay \in Nat
    BY <1>1, <1>2
<1> HIDE DEF delay
<1>4. available_in' = available_in \/ available_in' = [available_in EXCEPT ![j] = delay]
    BY DEF MarkFailed, delay
<1>5. available_in' \in [Jobs -> Nat]
    BY <1>3, <1>4 DEF TypeOK
<1> QED
    BY <1>5 DEF TypeOK, RowTypes, MarkFailed, Statuses

\* Every step keeps the types.
LEMMA TypeStep == IInv /\ [Next]_vars => TypeOK'
<1> SUFFICES ASSUME IInv, [Next]_vars
             PROVE  TypeOK'
    OBVIOUS
<1> USE QueueConstants DEF IInv, TypeOK, Statuses, Points
<1>1. ASSUME NEW j \in Jobs, enqueue(j)
      PROVE  TypeOK'
    BY <1>1 DEF enqueue, locals
<1>2. ASSUME NEW w \in Workers, run_once(w)
      PROVE  TypeOK'
  <2>0. Busy(w) => job[w] \in Jobs
      BY DEF JobInHand
  <2>1. ASSUME NEW j \in Jobs, claim(w, j)
        PROVE  TypeOK'
      BY <2>1 DEF claim, LeaseUntil
  <2>2. CASE heartbeat(w)
    <3>1. lease_left' \in [Jobs -> Nat]
      <4>1. LeaseUntil(w) \in Nat /\ job[w] \in Jobs
        BY <2>0, <2>2, QueueConstants DEF heartbeat, LeaseUntil
      <4>2. lease_left' = lease_left \/ lease_left' = [lease_left EXCEPT ![job[w]] = LeaseUntil(w)]
        BY <2>2 DEF heartbeat
      <4> QED
        BY <4>1, <4>2
    <3>2. lease_lost' \subseteq Workers /\ beating' \subseteq Workers
      BY <2>2 DEF heartbeat
    <3> QED
      BY <2>2, <3>1, <3>2 DEF heartbeat
  <2>3. CASE heartbeat_error(w)
      BY <2>3 DEF heartbeat_error, rows
  <2>4. CASE handler_returns(w)
    <3>1. pc[w] = "handling" /\ job[w] \in Jobs /\ EndRunOnce(w) /\ faults' = faults
        BY <2>0, <2>4 DEF handler_returns, Busy
    <3>2. MarkCompleted(job[w]) \/ UNCHANGED rows
        BY <2>4 DEF handler_returns
    <3>3. RowTypes'
        BY <3>1, <3>2, MarkCompletedTypes DEF rows, RowTypes
    <3> QED
        BY <3>1, <3>3, EndRunOnceTypes DEF RowTypes
  <2>5. CASE complete_error(w)
    <3>1. job[w] \in Jobs
        BY <2>0, <2>5 DEF complete_error, Busy
    <3>2. MarkCompleted(job[w]) \/ UNCHANGED rows
        BY <2>5 DEF complete_error
    <3>3. RowTypes'
        BY <3>1, <3>2, MarkCompletedTypes DEF rows, RowTypes
    <3> QED
        BY <2>5, <3>3 DEF complete_error, RowTypes
  <2>6. CASE handler_raises(w)
      BY <2>6 DEF handler_raises, rows
  <2>7. CASE ensure_lease_owned(w)
      BY <2>7, EndRunOnceTypes DEF ensure_lease_owned, rows
  <2>8. CASE fail(w)
    <3>1. job[w] \in Jobs /\ EndRunOnce(w) /\ faults' = faults
        BY <2>0, <2>8 DEF fail, Busy
    <3>2. MarkFailed(w, job[w]) \/ UNCHANGED rows
        BY <2>8 DEF fail
    <3>3. RowTypes'
        BY <3>1, <3>2, MarkFailedTypes DEF rows, RowTypes
    <3> QED
        BY <3>1, <3>3, EndRunOnceTypes DEF RowTypes
  <2>9. CASE fail_error(w)
      BY <2>9, EndRunOnceTypes DEF fail_error, rows
  <2> QED
      BY <1>2, <2>1, <2>2, <2>3, <2>4, <2>5, <2>6, <2>7, <2>8, <2>9 DEF run_once
<1>3. ASSUME NEW w \in Workers, crash(w)
      PROVE  TypeOK'
    BY <1>3 DEF crash, rows
<1>4. ASSUME NEW w \in Workers, stop(w)
      PROVE  TypeOK'
    BY <1>4 DEF stop, rows, Busy
<1>5. CASE Tick
    BY <1>5 DEF Tick, Lower, locals
<1>6. CASE UNCHANGED vars
    BY <1>6 DEF vars, rows, locals
<1> QED
    BY <1>1, <1>2, <1>3, <1>4, <1>5, <1>6 DEF Next

\* What complete() and fail() do to the table: one row leaves RUNNING, the others
\* and the counts of attempts stay.
Released(j) ==
    /\ attempts' = attempts
    /\ status'[j] \in {"COMPLETED", "FAILED", "PENDING"}
    /\ \A k \in Jobs \ {j} : status'[k] = status[k] /\ lease_owner'[k] = lease_owner[k]

\* complete() releases its row as COMPLETED.
LEMMA CompletedReleases ==
    ASSUME TypeOK, NEW j \in Jobs, MarkCompleted(j)
    PROVE  Released(j) /\ status'[j] = "COMPLETED"
    BY DEF TypeOK, MarkCompleted, Released

\* fail() releases its row as FAILED or PENDING.
LEMMA FailedReleases ==
    ASSUME TypeOK, NEW w \in Workers, NEW j \in Jobs, MarkFailed(w, j)
    PROVE  Released(j) /\ status'[j] = IF Final(w) THEN "FAILED" ELSE "PENDING"
    BY DEF TypeOK, MarkFailed, Released

\* A released row keeps the fencing facts if it is PENDING only with attempts left.
LEMMA ReleaseKeepsFencing ==
    ASSUME IInv, NEW j \in Jobs, Released(j), status[j] = "RUNNING",
           status'[j] = "PENDING" => attempts[j] < MaxAttempts,
           \A w \in Workers : job'[w] \in {job[w], NoJob},
           claimed_attempts' = claimed_attempts
    PROVE  AbsentUnclaimed' /\ OwnerHoldsLatestClaim' /\ RetryBudget'
<1>1. AbsentUnclaimed'
    BY DEF IInv, AbsentUnclaimed, Released
<1>2. OwnerHoldsLatestClaim'
    BY QueueConstants DEF IInv, OwnerHoldsLatestClaim, OwnedRow, Released
<1>3. RetryBudget'
    BY DEF IInv, RetryBudget, Released
<1> QED
    BY <1>1, <1>2, <1>3

\* Ending run_once, or moving it on, keeps the job in hand in step with it.
LEMMA EndKeepsJobInHand ==
    ASSUME IInv, NEW w \in Workers, EndRunOnce(w)
    PROVE  /\ JobInHand'
           /\ \A v \in Workers : job'[v] \in {job[v], NoJob}
           /\ claimed_attempts' = claimed_attempts
    BY DEF IInv, TypeOK, EndRunOnce, JobInHand, Busy, Points

\* Every step keeps the relation between run_once, the job in hand and the rows.
LEMMA FencingStep ==
    IInv /\ [Next]_vars
        => JobInHand' /\ AbsentUnclaimed' /\ OwnerHoldsLatestClaim' /\ RetryBudget'
<1> SUFFICES ASSUME IInv, [Next]_vars
             PROVE  JobInHand' /\ AbsentUnclaimed' /\ OwnerHoldsLatestClaim' /\ RetryBudget'
    OBVIOUS
<1> DEFINE Goal == JobInHand' /\ AbsentUnclaimed' /\ OwnerHoldsLatestClaim' /\ RetryBudget'
<1> USE QueueConstants
        DEF IInv, TypeOK, Statuses, Points, Busy, JobInHand, AbsentUnclaimed,
            OwnerHoldsLatestClaim, OwnedRow, RetryBudget
<1>1. ASSUME NEW j \in Jobs, enqueue(j)
      PROVE  Goal
    BY <1>1 DEF enqueue, locals
<1>2. ASSUME NEW w \in Workers, run_once(w)
      PROVE  Goal
  <2>0. Busy(w) => job[w] \in Jobs
      OBVIOUS
  <2>1. ASSUME NEW j \in Jobs, claim(w, j)
        PROVE  Goal
    <3>1. status[j] \in {"PENDING", "RUNNING"}
        BY <2>1 DEF claim, FirstClaimable, Claimable
    <3> QED
        BY <2>1, <3>1 DEF claim
  <2>2. CASE heartbeat(w)
      BY <2>2 DEF heartbeat
  <2>3. CASE heartbeat_error(w)
      BY <2>3 DEF heartbeat_error, rows
  <2>4. CASE handler_returns(w)
    <3>1. job[w] \in Jobs /\ EndRunOnce(w)
        BY <2>0, <2>4 DEF handler_returns
    <3>2. CASE w \notin lease_lost /\ OwnedRow(w, job[w])
      <4>1. MarkCompleted(job[w])
          BY <2>4, <3>2 DEF handler_returns
      <4>2. Released(job[w]) /\ status'[job[w]] = "COMPLETED"
          BY <3>1, <4>1, CompletedReleases
      <4> QED
          BY <3>1, <3>2, <4>2, EndKeepsJobInHand, ReleaseKeepsFencing
    <3>3. CASE ~(w \notin lease_lost /\ OwnedRow(w, job[w]))
        BY <2>4, <3>3 DEF handler_returns, EndRunOnce, rows
    <3> QED
        BY <3>2, <3>3
  <2>5. CASE complete_error(w)
    <3>1. job[w] \in Jobs /\ job' = job /\ claimed_attempts' = claimed_attempts
        BY <2>0, <2>5 DEF complete_error
    <3>2. JobInHand'
        BY <2>5 DEF complete_error
    <3>3. CASE OwnedRow(w, job[w]) /\ MarkCompleted(job[w])
      <4>1. Released(job[w]) /\ status'[job[w]] = "COMPLETED"
          BY <3>1, <3>3, CompletedReleases
      <4> QED
          BY <3>1, <3>2, <3>3, <4>1, ReleaseKeepsFencing
    <3>4. CASE UNCHANGED rows
        BY <2>5, <3>4 DEF complete_error, rows
    <3> QED
        BY <2>5, <3>3, <3>4 DEF complete_error
  <2>6. CASE handler_raises(w)
      BY <2>6 DEF handler_raises, rows
  <2>7. CASE ensure_lease_owned(w)
      BY <2>7 DEF ensure_lease_owned, EndRunOnce, rows
  <2>8. CASE fail(w)
    <3>1. job[w] \in Jobs /\ EndRunOnce(w)
        BY <2>0, <2>8 DEF fail
    <3>2. CASE OwnedRow(w, job[w])
      <4>1. MarkFailed(w, job[w])
          BY <2>8, <3>2 DEF fail
      <4>2. /\ Released(job[w])
            /\ status'[job[w]] = IF Final(w) THEN "FAILED" ELSE "PENDING"
          BY <3>1, <4>1, FailedReleases
      <4>3. ~Final(w) => attempts[job[w]] < MaxAttempts
          BY <3>1, <3>2 DEF Final
      <4> QED
          BY <3>1, <3>2, <4>2, <4>3, EndKeepsJobInHand, ReleaseKeepsFencing
    <3>3. CASE ~OwnedRow(w, job[w])
        BY <2>8, <3>3 DEF fail, EndRunOnce, rows
    <3> QED
        BY <3>2, <3>3
  <2>9. CASE fail_error(w)
      BY <2>9 DEF fail_error, EndRunOnce, rows
  <2> QED
      BY <1>2, <2>1, <2>2, <2>3, <2>4, <2>5, <2>6, <2>7, <2>8, <2>9 DEF run_once
<1>3. ASSUME NEW w \in Workers, crash(w)
      PROVE  Goal
    BY <1>3 DEF crash, rows
<1>4. ASSUME NEW w \in Workers, stop(w)
      PROVE  Goal
    BY <1>4 DEF stop, rows
<1>5. CASE Tick
    BY <1>5 DEF Tick, locals
<1>6. CASE UNCHANGED vars
    BY <1>6 DEF vars, rows, locals
<1> QED
    BY <1>1, <1>2, <1>3, <1>4, <1>5, <1>6 DEF Next

\* The inductive invariant holds in every reachable state of the queue.
LEMMA Invariance == Spec => []IInv
<1>1. IInv /\ [Next]_vars => IInv'
    BY TypeStep, FencingStep DEF IInv
<1> QED
    BY InitIInv, <1>1, PTL DEF Spec

\* Type correctness of the jobs table and of the workers' locals
\* (worker/durable.py) for every instance.
THEOREM TypeCorrect == Spec => []TypeOK
    BY Invariance, PTL DEF IInv

\* A row that names a worker as owner stands for the claim that worker is
\* handling, so complete() and fail() (worker/durable.py) are fenced by the owner
\* column although they compare no claim number.
THEOREM OwnerFencing == Spec => []OwnerHoldsLatestClaim
    BY Invariance, PTL DEF IInv

\* fail() (worker/durable.py) never sends a job back to PENDING without an attempt
\* left.
THEOREM RetriesBounded == Spec => []RetryBudget
    BY Invariance, PTL DEF IInv

-----------------------------------------------------------------------------
(* Refinement: the queue implements LeasedWork *)

\* The initial states of the queue are initial states of its contract.
LEMMA ContractInit == Init => Contract!Init
    BY DEF Init, Phase, PhaseOf, Settled, HeldGrant, Contract!Init, Contract!Nothing

\* Ending run_once drops the grant of that worker and of no other.
LEMMA EndDropsGrant ==
    ASSUME IInv, NEW w \in Workers, EndRunOnce(w)
    PROVE  HeldGrant' = [HeldGrant EXCEPT ![w] = <<NoJob, 0>>]
    BY DEF IInv, TypeOK, EndRunOnce, HeldGrant

\* A worker that owns the row of its job holds the newest grant of an open item.
LEMMA OwnerHoldsNewestGrant ==
    ASSUME IInv, NEW w \in Workers, job[w] \in Jobs, OwnedRow(w, job[w])
    PROVE  Phase[job[w]] = "open" /\ HeldGrant[w] = <<job[w], attempts[job[w]]>>
    BY QueueConstants DEF IInv, OwnerHoldsLatestClaim, OwnedRow, Phase, PhaseOf, Settled,
                          HeldGrant

\* A row released as COMPLETED or FAILED is an item settled, one released as
\* PENDING an item that stays open.
LEMMA ReleasePhase ==
    ASSUME IInv, NEW j \in Jobs, Released(j), status[j] = "RUNNING"
    PROVE  Phase' = IF status'[j] = "PENDING" THEN Phase
                    ELSE [Phase EXCEPT ![j] = "settled"]
    BY DEF IInv, TypeOK, Released, Phase, PhaseOf, Settled

\* Every step of the queue is a step of the contract or leaves it unchanged.
LEMMA ContractStep == IInv /\ [Next]_vars => [Contract!Next]_(Contract!vars)
<1> SUFFICES ASSUME IInv, [Next]_vars
             PROVE  [Contract!Next]_(Contract!vars)
    OBVIOUS
<1> USE QueueConstants DEF PhaseOf, Settled
<1>1. ASSUME NEW j \in Jobs, enqueue(j)
      PROVE  Contract!Submit(j)
    BY <1>1 DEF IInv, TypeOK, enqueue, locals, Phase, HeldGrant, Contract!Submit
<1>2. ASSUME NEW w \in Workers, run_once(w)
      PROVE  [Contract!Next]_(Contract!vars)
  <2>0. /\ Busy(w) => job[w] \in Jobs
        /\ ~Busy(w) => job[w] = NoJob
      BY DEF IInv, TypeOK, JobInHand
  <2>1. ASSUME NEW j \in Jobs, claim(w, j)
        PROVE  Contract!Grant(w, j)
      BY <2>0, <2>1 DEF IInv, TypeOK, Busy, claim, FirstClaimable, Claimable, Phase,
                        HeldGrant, Contract!Grant, Contract!Nothing
  <2>2. CASE heartbeat(w) \/ heartbeat_error(w) \/ handler_raises(w)
      BY <2>2 DEF heartbeat, heartbeat_error, handler_raises, rows, Phase, HeldGrant,
                  Contract!vars
  <2>3. ASSUME EndRunOnce(w), UNCHANGED rows
        PROVE  Contract!Drop(w)
      BY <2>3, EndDropsGrant DEF rows, Phase, Contract!Drop, Contract!Nothing
  <2>4. CASE handler_returns(w)
    <3>1. job[w] \in Jobs /\ EndRunOnce(w)
        BY <2>0, <2>4 DEF handler_returns, Busy
    <3>2. CASE w \notin lease_lost /\ OwnedRow(w, job[w])
      <4>1. Released(job[w]) /\ status'[job[w]] = "COMPLETED"
          BY <2>4, <3>1, <3>2, CompletedReleases DEF IInv, handler_returns
      <4>2. Phase' = [Phase EXCEPT ![job[w]] = "settled"] /\ attempts' = attempts
          BY <3>1, <3>2, <4>1, ReleasePhase DEF OwnedRow, Released
      <4>3. Contract!Settle(w, job[w])
          BY <3>1, <3>2, <4>2, OwnerHoldsNewestGrant, EndDropsGrant
          DEF Contract!Settle, Contract!Nothing
      <4> QED
          BY <3>1, <4>3 DEF Contract!Next
    <3>3. CASE ~(w \notin lease_lost /\ OwnedRow(w, job[w]))
        BY <2>3, <2>4, <3>1, <3>3 DEF handler_returns, Contract!Next
    <3> QED
        BY <3>2, <3>3
  <2>5. CASE complete_error(w)
    <3>1. job[w] \in Jobs /\ HeldGrant' = HeldGrant
        BY <2>0, <2>5 DEF complete_error, Busy, HeldGrant
    <3>2. CASE OwnedRow(w, job[w]) /\ MarkCompleted(job[w])
      <4>1. Released(job[w]) /\ status'[job[w]] = "COMPLETED"
          BY <3>1, <3>2, CompletedReleases DEF IInv
      <4>2. Phase' = [Phase EXCEPT ![job[w]] = "settled"] /\ attempts' = attempts
          BY <3>1, <3>2, <4>1, ReleasePhase DEF OwnedRow, Released
      <4>3. Contract!Settle(w, job[w])
          BY <3>1, <3>2, <4>2, OwnerHoldsNewestGrant DEF Contract!Settle
      <4> QED
          BY <3>1, <4>3 DEF Contract!Next
    <3>3. CASE UNCHANGED rows
        BY <3>1, <3>3 DEF rows, Phase, Contract!vars
    <3> QED
        BY <2>5, <3>2, <3>3 DEF complete_error
  <2>6. CASE fail(w)
    <3>1. job[w] \in Jobs /\ EndRunOnce(w)
        BY <2>0, <2>6 DEF fail, Busy
    <3>2. CASE OwnedRow(w, job[w])
      <4>1. /\ Released(job[w])
            /\ status'[job[w]] = IF Final(w) THEN "FAILED" ELSE "PENDING"
          BY <2>6, <3>1, <3>2, FailedReleases DEF IInv, fail
      <4>2. attempts' = attempts
          BY <4>1 DEF Released
      <4>3. CASE Final(w)
        <5>1. Phase' = [Phase EXCEPT ![job[w]] = "settled"]
            BY <3>1, <3>2, <4>1, <4>3, ReleasePhase DEF OwnedRow
        <5>2. Contract!Settle(w, job[w])
            BY <3>1, <3>2, <4>2, <5>1, OwnerHoldsNewestGrant, EndDropsGrant
            DEF Contract!Settle, Contract!Nothing
        <5> QED
            BY <3>1, <5>2 DEF Contract!Next
      <4>4. CASE ~Final(w)
        <5>1. Phase' = Phase
            BY <3>1, <3>2, <4>1, <4>4, ReleasePhase DEF OwnedRow
        <5>2. Contract!Drop(w)
            BY <3>1, <4>2, <5>1, EndDropsGrant DEF Contract!Drop, Contract!Nothing
        <5> QED
            BY <5>2 DEF Contract!Next
      <4> QED
          BY <4>3, <4>4
    <3>3. CASE ~OwnedRow(w, job[w])
        BY <2>3, <2>6, <3>1, <3>3 DEF fail, Contract!Next
    <3> QED
        BY <3>2, <3>3
  <2>7. CASE ensure_lease_owned(w) \/ fail_error(w)
      BY <2>3, <2>7 DEF ensure_lease_owned, fail_error, rows, Contract!Next
  <2> QED
      BY <1>2, <2>1, <2>2, <2>4, <2>5, <2>6, <2>7 DEF run_once, Contract!Next
<1>3. ASSUME NEW w \in Workers, crash(w)
      PROVE  Contract!Drop(w)
    BY <1>3 DEF IInv, TypeOK, crash, rows, Phase, HeldGrant, Contract!Drop, Contract!Nothing
<1>4. ASSUME NEW w \in Workers, stop(w)
      PROVE  UNCHANGED Contract!vars
    BY <1>4 DEF stop, rows, Phase, HeldGrant, Contract!vars
<1>5. CASE Tick
    BY <1>5 DEF Tick, locals, Phase, HeldGrant, Contract!vars
<1>6. CASE UNCHANGED vars
    BY <1>6 DEF vars, rows, locals, Phase, HeldGrant, Contract!vars
<1> QED
    BY <1>1, <1>2, <1>3, <1>4, <1>5, <1>6 DEF Next, Contract!Next

\* The job queue of worker/durable.py implements LeasedWork: every job is settled
\* at most once, and only by the holder of its latest claim.
THEOREM QueueImplementsContract == Spec => ImplementsContract
    BY Invariance, ContractInit, ContractStep, PTL
    DEF Spec, ImplementsContract, Contract!Spec

-----------------------------------------------------------------------------
(* Leases and clocks: a heartbeat at its interval keeps the job *)

\* What the lease has to outlast: no clock runs ahead of another by as much as a holder
\* has left of its lease when its renewal is due.
ClocksAgree == \A v, w \in Workers : Skew[v] < LeaseUntil(w) - (Lease \div 3)

\* heartbeat_loop of w runs, and has reported no loss of the job being handled.
Healthy(w) == pc[w] = "handling" /\ w \in beating /\ w \notin lease_lost

\* The strengthening of HealthyHolderKeepsJob: the row of a healthy holder is its own, with
\* no less of the lease than is left when the renewal is due.
Renewed == \A w \in Workers : Healthy(w) =>
    /\ OwnedRow(w, job[w])
    /\ lease_left[job[w]] >= LeaseUntil(w) - (Lease \div 3)

\* No clock reads a renewed lease as run out: neither claim nor heartbeat (worker/durable.py)
\* finds the row of a healthy holder abandoned.
LEMMA RenewedIsNotClaimable ==
    ASSUME ClocksAgree, IInv, Renewed, NEW w \in Workers, Healthy(w), NEW v \in Workers
    PROVE  job[w] \in Jobs /\ ~Claimable(v, job[w]) /\ lease_left[job[w]] > Skew[v]
<1>1. job[w] \in Jobs
    BY DEF IInv, TypeOK, JobInHand, Healthy, Busy
<1>2. lease_left[job[w]] \in Nat /\ Skew[v] \in Int /\ Skew[w] \in Int /\ Lease \in Int
    BY <1>1, QueueConstants DEF IInv, TypeOK
<1> QED
    BY <1>1, <1>2 DEF ClocksAgree, Renewed, OwnedRow, Claimable, LeaseUntil

\* Every step of the queue keeps the leases of healthy holders renewed.
LEMMA RenewedStep ==
    ASSUME Timely, ClocksAgree, IInv, Renewed, [Next]_vars
    PROVE  Renewed'
<1> SUFFICES ASSUME NEW x \in Workers, Healthy(x)'
             PROVE  (OwnedRow(x, job[x]) /\ lease_left[job[x]] >= LeaseUntil(x) - (Lease \div 3))'
    BY DEF Renewed
<1> DEFINE Kept == (OwnedRow(x, job[x]) /\ lease_left[job[x]] >= LeaseUntil(x) - (Lease \div 3))'
<1> USE QueueConstants DEF LeaseUntil
<1>0. Skew[x] \in Nat /\ Lease \in Nat /\ (Lease \div 3) \in Nat /\ (Lease \div 3) <= Lease
    OBVIOUS
<1>t. /\ status \in [Jobs -> Statuses] /\ lease_owner \in [Jobs -> Workers \cup {NoWorker}]
      /\ lease_left \in [Jobs -> Nat] /\ pc \in [Workers -> Points]
      /\ job \in [Workers -> Jobs \cup {NoJob}] /\ \A w \in Workers : Busy(w) <=> job[w] # NoJob
    BY DEF IInv, TypeOK, JobInHand
\* Where the holder was healthy and its row was let alone, nothing changes.
<1>s. ASSUME Healthy(x), job'[x] = job[x], status'[job[x]] = status[job[x]],
             lease_owner'[job[x]] = lease_owner[job[x]], lease_left'[job[x]] = lease_left[job[x]]
      PROVE  Kept
    BY <1>s DEF Renewed, OwnedRow
<1>1. ASSUME NEW j \in Jobs, enqueue(j)
      PROVE  Kept
  <2>1. Healthy(x) /\ job' = job
    BY <1>1 DEF enqueue, locals, Healthy
  <2>2. job[x] \in Jobs /\ job[x] # j
    BY <1>1, <1>t, <2>1 DEF enqueue, Healthy, Busy, Renewed, OwnedRow
  <2> QED
    BY <1>1, <1>s, <1>t, <2>1, <2>2 DEF enqueue
<1>2. ASSUME NEW w \in Workers, run_once(w)
      PROVE  Kept
  <2>b. Busy(w) => job[w] \in Jobs
    BY <1>t
  <2>1. ASSUME NEW j \in Jobs, claim(w, j)
        PROVE  Kept
    <3>1. CASE x = w
      <4>1. pc'[x] = "handling" /\ job'[x] = j
        BY <1>t, <2>1, <3>1 DEF claim
      <4>2. status'[j] = "RUNNING" /\ lease_owner'[j] = x /\ lease_left'[j] = Lease + Skew[x]
        BY <1>t, <2>1, <3>1 DEF claim
      <4> QED
        BY <1>0, <4>1, <4>2 DEF OwnedRow
    <3>2. CASE x # w
      <4>1. Healthy(x) /\ job'[x] = job[x]
        BY <1>t, <2>1, <3>2 DEF claim, Healthy
      <4>2. job[x] \in Jobs /\ job[x] # j
        BY <2>1, <4>1, RenewedIsNotClaimable DEF claim, FirstClaimable
      <4> QED
        BY <1>s, <1>t, <2>1, <4>1, <4>2 DEF claim
    <3> QED
      BY <3>1, <3>2
  <2>2. CASE heartbeat(w)
    <3>1. Healthy(x) /\ job' = job
      BY <2>2 DEF heartbeat, Healthy
    <3>2. status' = status /\ lease_owner' = lease_owner /\ job[x] \in Jobs
      BY <2>2, <3>1, RenewedIsNotClaimable DEF heartbeat
    <3>3. CASE lease_left' = lease_left
      BY <1>s, <3>1, <3>2, <3>3
    <3>4. CASE lease_left' # lease_left
      <4>1. OwnedRow(w, job[w]) /\ lease_left' = [lease_left EXCEPT ![job[w]] = Lease + Skew[w]]
        BY <2>2, <3>4 DEF heartbeat
      <4>2. job[x] = job[w] => x = w
        BY <3>1, <4>1 DEF Renewed, OwnedRow
      <4>3. CASE x = w
        BY <1>0, <1>t, <3>1, <3>2, <4>1, <4>3 DEF OwnedRow
      <4>4. CASE x # w
        BY <1>s, <1>t, <3>1, <3>2, <4>1, <4>2, <4>4
      <4> QED
        BY <4>3, <4>4
    <3> QED
      BY <3>3, <3>4
  \* A step of w that ends its handling, or its heartbeat, and releases no row but its own
  <2>3. ASSUME pc'[w] # "handling" \/ w \notin beating', \A v \in Workers \ {w} : pc'[v] = pc[v] /\ job'[v] = job[v],
               beating' \subseteq beating, lease_lost \subseteq lease_lost' \cup {w},
               \/ UNCHANGED rows
               \/ /\ job[w] \in Jobs /\ OwnedRow(w, job[w])
                  /\ MarkCompleted(job[w]) \/ MarkFailed(w, job[w])
        PROVE  Kept
    <3>1. x # w /\ Healthy(x) /\ job'[x] = job[x]
      BY <2>3 DEF Healthy
    <3>2. job[x] \in Jobs
      BY <3>1, RenewedIsNotClaimable
    <3>3. CASE UNCHANGED rows
      BY <1>s, <3>1, <3>3 DEF rows
    <3>4. CASE OwnedRow(w, job[w]) /\ job[w] \in Jobs /\ (MarkCompleted(job[w]) \/ MarkFailed(w, job[w]))
      <4>1. job[x] # job[w]
        BY <3>1, <3>4 DEF Renewed, OwnedRow
      <4>2. /\ status'[job[x]] = status[job[x]] /\ lease_owner'[job[x]] = lease_owner[job[x]]
            /\ lease_left'[job[x]] = lease_left[job[x]]
        BY <1>t, <3>2, <3>4, <4>1 DEF MarkCompleted, MarkFailed
      <4> QED
        BY <1>s, <3>1, <4>2
    <3> QED
      BY <2>3, <3>3, <3>4
  <2>4. EndRunOnce(w) => /\ pc'[w] # "handling" /\ \A v \in Workers \ {w} : pc'[v] = pc[v] /\ job'[v] = job[v]
                         /\ beating' \subseteq beating /\ lease_lost \subseteq lease_lost' \cup {w}
    BY <1>t DEF EndRunOnce
  <2>5. CASE heartbeat_error(w)
    BY <2>3, <2>5 DEF heartbeat_error
  <2>6. CASE handler_returns(w)
    BY <2>b, <2>3, <2>4, <2>6 DEF handler_returns, Busy
  <2>7. CASE complete_error(w)
    <3>1. pc' = [pc EXCEPT ![w] = "fail_transient"] /\ UNCHANGED <<job, lease_lost, beating>>
      BY <2>7 DEF complete_error
    <3> QED
      BY <1>t, <2>b, <2>3, <2>7, <3>1 DEF complete_error, Busy
  <2>8. CASE handler_raises(w)
    <3>1. PICK point \in {"fail_transient", "fail_permanent"} : pc' = [pc EXCEPT ![w] = point]
      BY <2>8 DEF handler_raises
    <3>2. UNCHANGED <<rows, job, lease_lost, beating>>
      BY <2>8 DEF handler_raises
    <3> QED
      BY <1>t, <2>3, <3>1, <3>2
  <2>9. CASE ensure_lease_owned(w) \/ fail_error(w)
    BY <2>3, <2>4, <2>9 DEF ensure_lease_owned, fail_error
  <2>10. CASE fail(w)
    BY <2>b, <2>3, <2>4, <2>10 DEF fail, Busy
  <2> QED
    BY <1>2, <2>1, <2>2, <2>5, <2>6, <2>7, <2>8, <2>9, <2>10 DEF run_once
<1>3. ASSUME NEW w \in Workers, crash(w)
      PROVE  Kept
  <2>1. Healthy(x) /\ job'[x] = job[x]
    BY <1>3, <1>t DEF crash, Healthy
  <2> QED
    BY <1>3, <1>s, <2>1 DEF crash, rows
<1>4. ASSUME NEW w \in Workers, stop(w)
      PROVE  Kept
  <2>1. Healthy(x) /\ job'[x] = job[x]
    BY <1>4, <1>t DEF stop, Healthy
  <2> QED
    BY <1>4, <1>s, <2>1 DEF stop, rows
<1>5. CASE Tick
  <2>1. Healthy(x) /\ job' = job /\ status' = status /\ lease_owner' = lease_owner
    BY <1>5 DEF Tick, locals, Healthy
  <2>2. job[x] \in Jobs /\ OwnedRow(x, job[x])
    BY <2>1, RenewedIsNotClaimable DEF Renewed
  <2>3. lease_left[job[x]] > Lease + Skew[x] - (Lease \div 3) /\ lease_left[job[x]] \in Nat
    BY <1>0, <1>5, <1>t, <2>1, <2>2 DEF Tick, RenewalDue, Healthy, Busy
  <2>4. lease_left'[job[x]] = lease_left[job[x]] - 1
    BY <1>0, <1>5, <2>2, <2>3 DEF Tick, Lower
  <2> QED
    BY <1>0, <2>1, <2>2, <2>3, <2>4 DEF OwnedRow
<1>6. CASE UNCHANGED vars
  BY <1>6, <1>s DEF vars, rows, locals, Healthy
<1> QED
    BY <1>1, <1>2, <1>3, <1>4, <1>5, <1>6 DEF Next

\* heartbeat_loop (worker/durable.py) at its interval, for every lease and every clocks that
\* agree within it: a worker that has been told of no loss still owns the row of its job,
\* whatever other workers claim, whoever dies, and however often the job came back.
THEOREM HealthyHolderIsSafe ==
    ASSUME Timely, ClocksAgree
    PROVE  ScenarioSpec => []HealthyHolder
<1> DEFINE Inv == timed => IInv /\ Renewed
<1>1. ScenarioInit => Inv
    BY InitIInv DEF ScenarioInit, Init, Renewed, Healthy
<1>2. Inv /\ [ScenarioNext]_<<vars, scenario>> => Inv'
  <2> SUFFICES ASSUME Inv, [ScenarioNext]_<<vars, scenario>>, timed'
               PROVE  (IInv /\ Renewed)'
    OBVIOUS
  <2>1. timed /\ [Next]_vars
    BY DEF ScenarioNext, timed
  <2> QED
    BY <2>1, TypeStep, FencingStep, RenewedStep DEF IInv
<1>3. Inv => HealthyHolder
    BY DEF Renewed, HealthyHolder, HealthyHolderKeepsJob, Healthy
<1> QED
    BY <1>1, <1>2, <1>3, PTL DEF ScenarioSpec

=============================================================================
