------------------------ MODULE RunLifecycleProofs ------------------------
(***************************************************************************)
(* Proofs about RunLifecycle for every finite set of candidates, any sets  *)
(* of workers and users, and any number of claims and crashes.             *)
(***************************************************************************)
EXTENDS RunLifecycle, FiniteSetTheorems, NaturalsInduction, WellFoundedInduction, TLAPS

-----------------------------------------------------------------------------
(* The inductive invariant *)

\* The states by the evidence that stands behind them
Authorised == {"APPROVED", "DEPLOYING", "DEPLOYED", "MONITORING", "ROLLED_BACK", "ROLLBACK_BLOCKED"}
Selected == {"ADMITTED", "APPROVAL_PENDING"} \cup Authorised
Evaluated == {"ADMISSION"} \cup Selected
Planned == {"EVALUATING"} \cup Evaluated
Ranked == {"CALIBRATING"} \cup Planned
Generated == {"RANKING"} \cup Ranked
Diagnosed == {"GENERATING_CANDIDATES"} \cup Generated
Captured == {"DIAGNOSING"} \cup Diagnosed

\* The authority decided without a human, or a human did
HasAuthority ==
    /\ evidence.authority # Absent
    /\ evidence.authority.type = "AUTONOMOUS" \/ (approval # Absent /\ approval.status = "APPROVED")

\* What a run that is in a state, or was when a worker read it, has
Implied(status) ==
    /\ status \in Captured => evidence.snapshot
    /\ status \in Diagnosed => evidence.diagnosis
    /\ status \in Generated => evidence.generation \notin {Absent, {}}
    /\ status \in Ranked => evidence.ranking # Absent
    /\ status \in Planned => evidence.plan # Absent
    /\ status \in Evaluated => Range(evidence.plan) \subseteq evidence.evaluated
    /\ status \in Selected => evidence.admission # Absent /\ evidence.admission.selected # NoCandidate
    /\ status \in Authorised => HasAuthority

Resting == run.status \in Terminal \cup {"APPROVAL_PENDING"}
Continued == jobs["continuation"].status # "ABSENT"

\* The run's row: its state and its reason have their evidence
RunEarned ==
    /\ Implied(run.status)
    /\ run.reason = "DEPLOYMENT_SUCCEEDED" => HasAuthority

\* A request that was decided was decided by another, and the run is past it
DecisionStands ==
    approval # Absent =>
        /\ approval.status # "PENDING" => approval.decider \in Users \ {Requester}
        /\ approval.status = "APPROVED" => run.status \in Authorised \cup {"COMPLETED", "FAILED"}
        /\ approval.status = "REJECTED" => run.status = "COMPLETED"

\* A job that completed left the run at rest or to the other job
JobsStand ==
    /\ jobs["initial"].status # "ABSENT"
    /\ jobs["initial"].status = "COMPLETED" => Resting \/ Continued
    /\ jobs["continuation"].status = "COMPLETED" => run.status \in Terminal

\* What a worker has between its read and its write
EvidenceInHand(w) ==
    /\ Implied(seen[w])
    /\ pc[w] = "persist" =>
          /\ seen[w] \in {"GENERATING_CANDIDATES", "RANKING"}
          /\ seen[w] = "RANKING" => evidence.generation # Absent /\ ordered[w] \in SetToSeqs(evidence.generation)
    /\ pc[w] = "request" =>
          /\ goal[w] = "APPROVAL_PENDING"
          /\ evidence.authority # Absent /\ evidence.authority.type = "HUMAN_REQUIRED"
    /\ pc[w] = "transition" =>
          /\ goal[w] = "APPROVED" => evidence.authority # Absent /\ evidence.authority.type = "AUTONOMOUS"
          /\ goal[w] = "APPROVAL_PENDING" => approval # Absent
          /\ goal[w] = "COMPLETED" => seen[w] \in {"GENERATING_CANDIDATES", "ADMISSION", "MONITORING"}

\* A worker has a job that exists, and ends its handler when there is nothing left for it
JobInHand(w) ==
    /\ pc[w] # "idle" => jobs[job[w]].status # "ABSENT"
    /\ pc[w] = "done" /\ job[w] = "initial" => Resting \/ Continued
    /\ pc[w] = "done" /\ job[w] = "continuation" => run.status \in Terminal

IInv ==
    /\ TypeOK /\ EvidenceChain /\ RunEarned /\ DecisionStands /\ DecisionTakesEffect /\ JobsStand
    /\ \A w \in Workers : EvidenceInHand(w) /\ JobInHand(w)

-----------------------------------------------------------------------------
(* Lemmas about rankings and plans *)

\* SubSeq(ranking, 1, n): the head of an order of candidates is an order of its own range.
LEMMA HeadIsOrder ==
    ASSUME NEW S, NEW order \in SetToSeqs(S), IsFiniteSet(S), NEW n \in 0..Len(order)
    PROVE  SubSeq(order, 1, n) \in SetToSeqs(Range(SubSeq(order, 1, n)))
<1> DEFINE head == SubSeq(order, 1, n)
           R == Range(head)
<1>1. Cardinality(S) \in Nat
    BY FS_CardinalityType
<1>2. /\ order \in [1..Cardinality(S) -> S] /\ Len(order) = Cardinality(S)
      /\ \A i, j \in 1..Cardinality(S) : i # j => order[i] # order[j]
    BY <1>1 DEF SetToSeqs
<1>3. order \in Seq(S)
    BY <1>1, <1>2
<1>4. head \in Seq(S) /\ Len(head) = n /\ \A i \in 1..n : head[i] = order[i]
    BY <1>2, <1>3
<1>5. DOMAIN head = 1..n /\ R = {head[i] : i \in 1..n} /\ head \in [1..n -> R]
    <2>1. n \in Nat
        BY <1>1, <1>2
    <2>2. DOMAIN head = 1..n /\ head = [i \in 1..n |-> head[i]]
        BY <1>4, <2>1
    <2> QED
        BY <2>2 DEF Range
<1>6. head \in Surjection(1..n, R)
    <2>1. \A t \in R : \E i \in 1..n : head[i] = t
        BY <1>5
    <2> QED
        BY <1>5, <2>1 DEF Surjection
<1>7. \A i, j \in 1..n : i # j => head[i] # head[j]
    BY <1>1, <1>2, <1>4
<1>8. head \in Injection(1..n, R)
    BY <1>5, <1>7 DEF Injection, IsInjective
<1>9. IsFiniteSet(1..n) /\ Cardinality(1..n) = n
    BY <1>1, <1>2, FS_Interval
<1>10. Cardinality(R) = n
    BY <1>6, <1>8, <1>9, FS_Surjection, Zenon
<1> QED
    BY <1>5, <1>7, <1>10 DEF SetToSeqs

\* FirstAdmitted of a plan: one of its admitted candidates, or none.
LEMMA FirstAdmittedOfPlan ==
    ASSUME NEW S, NEW plan \in Seq(S), NEW admitted
    PROVE  \/ FirstAdmitted(plan, admitted) = NoCandidate
           \/ FirstAdmitted(plan, admitted) \in Range(plan) /\ FirstAdmitted(plan, admitted) \in admitted
<1> DEFINE I == {i \in 1..Len(plan) : plan[i] \in admitted}
<1>1. CASE I = {}
    BY <1>1 DEF FirstAdmitted, SelectInSeq
<1>2. CASE I # {}
    <2>1. I \subseteq Nat
        OBVIOUS
    <2>2. \E x \in I : \A y \in I : x =< y
        <3>1. PICK x \in I : \A y \in I : ~(<<y, x>> \in OpToRel(<, Nat))
            BY <1>2, <2>1, NatLessThanWellFounded, WFMin, Zenon
        <3>2. \A y \in I : ~(y < x)
            BY <2>1, <3>1 DEF OpToRel
        <3>3. \A m, k \in Nat : ~(m < k) => k =< m
            OBVIOUS
        <3>4. \A y \in I : x =< y
            BY <2>1, <3>1, <3>2, <3>3, Zenon
        <3> QED
            BY <3>4, Zenon
    <2>3. Min(I) \in I
        BY <2>2 DEF Min
    <2>4. SelectInSeq(plan, LAMBDA c : c \in admitted) = Min(I)
        BY <1>2 DEF SelectInSeq
    <2>5. FirstAdmitted(plan, admitted) = plan[Min(I)]
        BY <2>1, <2>3, <2>4 DEF FirstAdmitted
    <2>6. Min(I) \in DOMAIN plan /\ plan[Min(I)] \in admitted
        BY <2>3
    <2> QED
        BY <2>5, <2>6, Zenon DEF Range
<1> QED
    BY <1>1, <1>2

\* SetToSeqs: an order of candidates is a sequence of candidates.
LEMMA OrdersAreSequences ==
    ASSUME NEW order \in Orders
    PROVE  order \in Seq(Candidates) /\ Range(order) \subseteq Candidates
<1>1. PICK S \in SUBSET Candidates : order \in SetToSeqs(S)
    BY DEF Orders
<1>2. Cardinality(S) \in Nat
    BY LifecycleConstants, FS_CardinalityType, FS_Subset
<1>3. order \in [1..Cardinality(S) -> S]
    BY <1>1 DEF SetToSeqs
<1>4. order \in Seq(S)
    BY <1>2, <1>3
<1> QED
    BY <1>3, <1>4 DEF Range

\* Selection: a plan orders candidates of the ranking, and at least one if there is one.
LEMMA PlanIsOrder ==
    ASSUME NEW S \in SUBSET Candidates, NEW ranking \in SetToSeqs(S)
    PROVE  /\ Selection(ranking) \in Orders
           /\ S # {} => Selection(ranking) # <<>>
<1> DEFINE n == IF PlanLimit <= Len(ranking) THEN PlanLimit ELSE Len(ranking)
<1>1. IsFiniteSet(S) /\ Cardinality(S) \in Nat
    BY LifecycleConstants, FS_CardinalityType, FS_Subset
<1>2. ranking \in Seq(S) /\ Len(ranking) = Cardinality(S)
    BY <1>1 DEF SetToSeqs
<1>3. n \in 0..Len(ranking) /\ Selection(ranking) = SubSeq(ranking, 1, n)
    BY <1>1, <1>2, LifecycleConstants DEF Selection
<1>4. Selection(ranking) \in SetToSeqs(Range(Selection(ranking)))
    BY <1>1, <1>3, HeadIsOrder, Zenon
<1>5. Selection(ranking) \in Seq(S) /\ Len(Selection(ranking)) = n
    BY <1>2, <1>3
<1>6. Range(Selection(ranking)) \subseteq S
    BY <1>5 DEF Range
<1>7. ASSUME S # {} PROVE Selection(ranking) # <<>>
    <2>1. Cardinality(S) # 0
        BY <1>1, <1>7, FS_EmptySet
    <2>2. n # 0
        BY <1>1, <1>2, <2>1, LifecycleConstants
    <2> QED
        BY <1>5, <2>2
<1> QED
    BY <1>4, <1>6, <1>7 DEF Orders

-----------------------------------------------------------------------------
(* Types *)

\* The initial states have their types.
LEMMA InitTyped == Init => TypeOK
<1> SUFFICES ASSUME Init PROVE TypeOK
    OBVIOUS
<1>1. <<>> \in Orders
    <2>1. <<>> \in SetToSeqs({})
        BY FS_EmptySet DEF SetToSeqs
    <2> QED
        BY <2>1 DEF Orders
<1>2. run \in Run
    BY DEF Init, Run, RunStatus, Reasons
<1>3. evidence \in Evidence
    <2>1. evidence = NoEvidence
        BY DEF Init
    <2>2. NoEvidence \in Evidence
        BY DEF NoEvidence, Evidence
    <2> QED
        BY <2>1, <2>2
<1>4. jobs \in [Jobs -> Job]
    BY DEF Init, Job, Jobs
<1> QED
    BY <1>1, <1>2, <1>3, <1>4 DEF Init, TypeOK, Points, Jobs, RunStatus

\* What a worker carries keeps its types when run_once ends.
LEMMA LeaveTyped ==
    ASSUME TypeOK, NEW w \in Workers, Leave(w)
    PROVE  /\ pc' \in [Workers -> Points] /\ job' \in [Workers -> Jobs] /\ lost' \subseteq Workers
           /\ seen' \in [Workers -> RunStatus] /\ drafted' \in [Workers -> SUBSET Candidates]
           /\ ordered' \in [Workers -> Orders] /\ goal' \in [Workers -> RunStatus]
<1>1. <<>> \in Orders
    <2>1. <<>> \in SetToSeqs({})
        BY FS_EmptySet DEF SetToSeqs
    <2> QED
        BY <2>1 DEF Orders
<1> QED
    BY <1>1 DEF TypeOK, Leave, Points, RunStatus

\* fail, complete and a crash leave rows of jobs.
LEMMA FailTyped ==
    ASSUME TypeOK, NEW w \in Workers, NEW permanent \in BOOLEAN, Failed(w, permanent)
    PROVE  jobs' \in [Jobs -> Job]
<1>1. job[w] \in Jobs /\ jobs[job[w]] \in Job
    BY DEF TypeOK
<1>2. CASE Owned(w)
    <2>1. PICK s \in {"FAILED", "PENDING"} :
              jobs' = [jobs EXCEPT ![job[w]].owner = NoWorker, ![job[w]].status = s]
        BY <1>2 DEF Failed
    <2>2. jobs' = [jobs EXCEPT ![job[w]] = [[@ EXCEPT !.owner = NoWorker] EXCEPT !.status = s]]
        BY <1>1, <2>1 DEF TypeOK
    <2>3. [[jobs[job[w]] EXCEPT !.owner = NoWorker] EXCEPT !.status = s] \in Job
        BY <1>1 DEF Job
    <2> QED
        BY <2>2, <2>3 DEF TypeOK
<1>3. CASE ~Owned(w)
    BY <1>3 DEF Failed, TypeOK
<1> QED
    BY <1>2, <1>3

\* HeadFor: a worker that heads for a state keeps its types.
LEMMA HeadForTyped ==
    ASSUME TypeOK, NEW w \in Workers, NEW next \in RunStatus, HeadFor(w, next)
    PROVE  /\ pc' \in [Workers -> Points] /\ job' \in [Workers -> Jobs] /\ lost' \subseteq Workers
           /\ seen' \in [Workers -> RunStatus] /\ drafted' \in [Workers -> SUBSET Candidates]
           /\ ordered' \in [Workers -> Orders] /\ goal' \in [Workers -> RunStatus]
           /\ run' \in Run /\ approval' \in Approval \cup {Absent} /\ fresh' \in BOOLEAN
           /\ jobs' \in [Jobs -> Job] /\ crashes' \in Nat
<1>1. <<>> \in Orders
    <2>1. <<>> \in SetToSeqs({})
        BY FS_EmptySet DEF SetToSeqs
    <2> QED
        BY <2>1 DEF Orders
<1> QED
    BY <1>1 DEF TypeOK, HeadFor, Goto, Points

\* Every step of a worker, a user or time keeps the types.
LEMMA TypeStep == IInv /\ [Next]_vars => TypeOK'
<1> SUFFICES ASSUME TypeOK, \A w \in Workers : EvidenceInHand(w), [Next]_vars PROVE TypeOK'
    BY DEF IInv
<1> USE DEF RunStatus
<1>1. ASSUME NEW w \in Workers, NEW permanent \in BOOLEAN, Fail(w, permanent) PROVE TypeOK'
    BY <1>1, FailTyped, LeaveTyped DEF Fail, TypeOK
<1>2. ASSUME NEW w \in Workers, NEW next \in RunStatus, HeadFor(w, next), evidence' \in Evidence PROVE TypeOK'
    BY <1>2, HeadForTyped DEF TypeOK
<1>3. ASSUME NEW w \in Workers, NEW j \in Jobs, claim(w, j) PROVE TypeOK'
    <2>1. [status |-> "RUNNING", owner |-> w, attempts |-> jobs[j].attempts + 1] \in Job
        BY DEF TypeOK, Job
    <2>2. jobs' \in [Jobs -> Job]
        BY <1>3, <2>1 DEF claim, TypeOK
    <2> QED
        BY <1>3, <2>2 DEF claim, TypeOK, Points
<1>4. ASSUME NEW w \in Workers, notice_loss(w) PROVE TypeOK'
    BY <1>4 DEF notice_loss, TypeOK
<1>5. ASSUME NEW w \in Workers, crash(w) PROVE TypeOK'
    <2>1. jobs' \in [Jobs -> Job]
        BY <1>5 DEF crash, TypeOK, Job
    <2> QED
        BY <1>5, <2>1, LeaveTyped DEF crash, TypeOK
<1>6. ASSUME NEW w \in Workers, work(w) PROVE TypeOK'
    <2>1. CASE load(w)
        BY <2>1 DEF load, Goto, TypeOK, Points, Run
    <2>2. CASE validate_created(w)
        <3>1. CASE Fail(w, TRUE)
            BY <3>1, <1>1
        <3>2. CASE HeadFor(w, "SNAPSHOTTING") /\ UNCHANGED evidence
            BY <3>2, <1>2 DEF TypeOK
        <3> QED
            BY <2>2, <3>1, <3>2 DEF validate_created
    <2>3. CASE snapshot(w)
        <3>1. [evidence EXCEPT !.snapshot = TRUE] \in Evidence
            BY DEF TypeOK, Evidence
        <3> QED
            BY <2>3, <3>1, <1>1, <1>2 DEF snapshot
    <2>4. CASE diagnose(w)
        <3>1. [evidence EXCEPT !.diagnosis = TRUE] \in Evidence
            BY DEF TypeOK, Evidence
        <3> QED
            BY <2>4, <3>1, <1>1, <1>2 DEF diagnose
    <2>5. CASE generate(w)
        <3>1. CASE HeadFor(w, AfterGeneration(evidence.generation)) /\ UNCHANGED evidence
            BY <3>1, <1>2 DEF AfterGeneration, TypeOK
        <3>2. CASE ~(HeadFor(w, AfterGeneration(evidence.generation)) /\ UNCHANGED evidence)
            BY <2>5, <3>2 DEF generate, Goto, TypeOK, Points
        <3> QED
            BY <3>1, <3>2
    <2>6. CASE persist_generation(w)
        <3>1. PICK generation \in (SUBSET Candidates) \cup {Absent} :
                  /\ evidence' = [evidence EXCEPT !.generation = generation]
                  /\ HeadFor(w, AfterGeneration(generation))
            BY <2>6 DEF persist_generation, TypeOK, Evidence
        <3>2. evidence' \in Evidence
            BY <3>1 DEF TypeOK, Evidence
        <3> QED
            BY <3>1, <3>2, <1>2 DEF AfterGeneration
    <2>7. CASE rank(w)
        <3>1. CASE HeadFor(w, "CALIBRATING") /\ UNCHANGED evidence
            BY <3>1, <1>2 DEF TypeOK
        <3>2. CASE ~(HeadFor(w, "CALIBRATING") /\ UNCHANGED evidence)
            <4>1. PICK order \in SetToSeqs(evidence.generation) : ordered' = [ordered EXCEPT ![w] = order]
                BY <2>7, <3>2 DEF rank
            <4>2. evidence.generation \in SUBSET Candidates
                <5>1. Rankable
                    BY <2>7, <3>2 DEF rank
                <5>2. evidence.generation \in (SUBSET Candidates) \cup {Absent}
                    BY DEF TypeOK, Evidence
                <5> QED
                    BY <5>1, <5>2, Zenon DEF Rankable
            <4>3. order \in Orders
                BY <4>2 DEF Orders
            <4> QED
                BY <2>7, <3>2, <4>1, <4>3 DEF rank, Goto, TypeOK, Points
        <3> QED
            BY <3>1, <3>2
    <2>8. CASE persist_ranking(w)
        <3>1. evidence' \in Evidence
            BY <2>8 DEF persist_ranking, TypeOK, Evidence
        <3> QED
            BY <2>8, <3>1, <1>2 DEF persist_ranking
    <2>9. CASE create_plan(w)
        <3>1. evidence.plan = Absent => Selection(evidence.ranking) \in Orders
            <4>1. ASSUME evidence.plan = Absent PROVE evidence.ranking \in Orders
                BY <2>9, <4>1 DEF create_plan, TypeOK, Evidence
            <4> QED
                BY <4>1, PlanIsOrder DEF Orders
        <3>2. evidence' \in Evidence
            BY <2>9, <3>1 DEF create_plan, TypeOK, Evidence
        <3> QED
            BY <2>9, <3>2, <1>2 DEF create_plan
    <2>10. CASE evaluate(w)
        <3>1. CASE HeadFor(w, "ADMISSION") /\ UNCHANGED evidence
            BY <3>1, <1>2 DEF TypeOK
        <3>2. CASE ~(HeadFor(w, "ADMISSION") /\ UNCHANGED evidence)
            <4>1. PICK c \in evidence.generation \ evidence.evaluated :
                      evidence' = [evidence EXCEPT !.evaluated = @ \cup {c}]
                BY <2>10, <3>2 DEF evaluate
            <4>2. c \in Candidates
                <5>1. seen[w] = "EVALUATING"
                    BY <2>10 DEF evaluate, At
                <5>2. evidence.generation \notin {Absent, {}}
                    BY <5>1 DEF EvidenceInHand, Implied, Generated, Ranked, Planned
                <5>3. evidence.generation \in (SUBSET Candidates) \cup {Absent}
                    BY DEF TypeOK, Evidence
                <5> QED
                    BY <4>1, <5>2, <5>3, Zenon
            <4>3. evidence' \in Evidence
                BY <4>1, <4>2 DEF TypeOK, Evidence
            <4> QED
                BY <2>10, <3>2, <4>3 DEF evaluate, TypeOK, locals
        <3> QED
            BY <3>1, <3>2
    <2>11. CASE decide_admission(w)
        <3>1. CASE HeadFor(w, AfterAdmission(evidence.admission)) /\ UNCHANGED evidence
            BY <3>1, <1>2 DEF AfterAdmission, TypeOK
        <3>2. CASE ~(HeadFor(w, AfterAdmission(evidence.admission)) /\ UNCHANGED evidence)
            <4>1. evidence.plan \in Orders
                BY <2>11, <3>2 DEF decide_admission, TypeOK, Evidence
            <4>2. PICK admitted \in SUBSET Range(evidence.plan) :
                      LET admission == [admitted |-> admitted, selected |-> FirstAdmitted(evidence.plan, admitted)]
                      IN  /\ evidence' = [evidence EXCEPT !.admission = admission]
                          /\ HeadFor(w, AfterAdmission(admission))
                BY <2>11, <3>2 DEF decide_admission
            <4>3. FirstAdmitted(evidence.plan, admitted) \in Candidates \cup {NoCandidate}
                BY <4>1, OrdersAreSequences, FirstAdmittedOfPlan
            <4>4. [admitted |-> admitted, selected |-> FirstAdmitted(evidence.plan, admitted)] \in Admission
                BY <4>1, <4>2, <4>3, OrdersAreSequences DEF Admission
            <4>5. evidence' \in Evidence
                BY <4>2, <4>4 DEF TypeOK, Evidence
            <4> QED
                BY <4>2, <4>5, <1>2 DEF AfterAdmission
        <3> QED
            BY <3>1, <3>2
    <2>12. CASE decide_authority(w)
        <3>1. PICK authority :
                  /\ \/ evidence.authority # Absent /\ authority = evidence.authority
                     \/ /\ evidence.authority = Absent /\ evidence.admission.selected # NoCandidate
                        /\ authority \in [candidate : {evidence.admission.selected}, type : AuthorityTypes]
                  /\ evidence' = [evidence EXCEPT !.authority = authority]
                  /\ goal' = [goal EXCEPT ![w] = IF authority.type = "AUTONOMOUS" THEN "APPROVED" ELSE "APPROVAL_PENDING"]
                  /\ Goto(w, IF authority.type = "AUTONOMOUS" THEN "transition" ELSE "request")
            BY <2>12 DEF decide_authority
        <3>2. seen[w] = "ADMITTED"
            BY <2>12 DEF decide_authority
        <3>3. evidence.admission \in Admission
            BY <3>2 DEF EvidenceInHand, Implied, Selected, TypeOK, Evidence
        <3>4. authority \in Authority
            BY <3>1, <3>3 DEF TypeOK, Evidence, Authority, Admission, AuthorityTypes
        <3>5. evidence' \in Evidence
            BY <3>1, <3>4 DEF TypeOK, Evidence
        <3> QED
            BY <2>12, <3>1, <3>5 DEF decide_authority, Goto, TypeOK, Points
    <2>13. CASE request(w)
        <3>1. evidence.authority \in Authority
            BY <2>13 DEF request, EvidenceInHand, TypeOK, Evidence
        <3>2. [candidate |-> evidence.authority.candidate, status |-> "PENDING", decider |-> Nobody] \in Approval
            BY <3>1 DEF Authority, Approval
        <3> QED
            BY <2>13, <3>2 DEF request, Goto, TypeOK, Points
    <2>14. CASE transition(w)
        <3>1. run' \in Run
            BY <2>14 DEF transition, TypeOK, Run, Reason, Reasons
        <3> QED
            BY <2>14, <3>1 DEF transition, Goto, TypeOK, Points
    <2>15. CASE load_bound_action(w)
        BY <2>15 DEF load_bound_action, Goto, TypeOK, Points, Run
    <2>16. CASE deploy(w)
        <3>1. run' \in Run
            BY <2>16 DEF deploy, TypeOK, Run
        <3> QED
            BY <2>16, <3>1 DEF deploy, Goto, TypeOK, Points
    <2>17. CASE begin_monitoring(w)
        BY <2>17, <1>2 DEF begin_monitoring, TypeOK
    <2>18. CASE monitor(w)
        <3>1. PICK outcome \in {"COMPLETED", "ROLLED_BACK", "ROLLBACK_BLOCKED"} : HeadFor(w, outcome)
            BY <2>18 DEF monitor
        <3> QED
            BY <2>18, <3>1, <1>2 DEF monitor, TypeOK
    <2>19. CASE raises(w)
        BY <2>19, <1>1 DEF raises
    <2>20. CASE complete(w)
        <3>1. jobs' \in [Jobs -> Job]
            BY <2>20 DEF complete, TypeOK, Job
        <3> QED
            BY <2>20, <3>1, LeaveTyped DEF complete, TypeOK
    <2> QED
        BY <1>6, <2>1, <2>2, <2>3, <2>4, <2>5, <2>6, <2>7, <2>8, <2>9, <2>10, <2>11, <2>12, <2>13, <2>14, <2>15,
           <2>16, <2>17, <2>18, <2>19, <2>20 DEF work
<1>7. ASSUME NEW user \in Users, approve(user) PROVE TypeOK'
    <2>1. approval' \in Approval
        BY <1>7 DEF approve, Decidable, TypeOK, Approval
    <2>2. run' \in Run
        BY <1>7 DEF approve, TypeOK, Run
    <2>3. jobs' \in [Jobs -> Job]
        <3>1. "continuation" \in Jobs /\ jobs["continuation"] \in Job
            BY DEF TypeOK, Jobs
        <3>2. PICK s \in {jobs["continuation"].status, "PENDING"} :
                  jobs' = [jobs EXCEPT !["continuation"] = [@ EXCEPT !.status = s]]
            BY <1>7, <3>1 DEF approve
        <3>3. [jobs["continuation"] EXCEPT !.status = s] \in Job
            BY <3>1 DEF Job
        <3> QED
            BY <3>1, <3>2, <3>3 DEF TypeOK
    <2> QED
        BY <1>7, <2>1, <2>2, <2>3 DEF approve, TypeOK, locals
<1>8. ASSUME NEW user \in Users, reject(user) PROVE TypeOK'
    <2>1. approval' \in Approval
        BY <1>8 DEF reject, Decidable, TypeOK, Approval
    <2>2. run' \in Run
        BY <1>8 DEF reject, TypeOK, Run, Reasons
    <2> QED
        BY <1>8, <2>1, <2>2 DEF reject, TypeOK, locals
<1>9. CASE expire
    BY <1>9 DEF expire, TypeOK, locals
<1>10. CASE UNCHANGED vars
    BY <1>10 DEF vars, locals, TypeOK
<1> QED
    BY <1>3, <1>4, <1>5, <1>6, <1>7, <1>8, <1>9, <1>10 DEF Next

-----------------------------------------------------------------------------
(* What a step may change *)

\* A stage that creates or completes an artifact
Creates(w) ==
    \/ snapshot(w) \/ diagnose(w) \/ persist_generation(w) \/ persist_ranking(w) \/ create_plan(w)
    \/ evaluate(w) \/ decide_admission(w) \/ decide_authority(w)

WorkerStep(w) == (\E j \in Jobs : claim(w, j)) \/ notice_loss(w) \/ work(w) \/ crash(w)

\* Next: the row, the artifacts and the request are each changed by the operations that are
\* about them.
LEMMA Changes ==
    ASSUME [Next]_vars
    PROVE  \/ \E w \in Workers : Creates(w) /\ UNCHANGED <<run, approval>>
           \/ \E w \in Workers : request(w) /\ UNCHANGED <<run, evidence>>
           \/ \E w \in Workers : (transition(w) \/ deploy(w)) /\ UNCHANGED <<evidence, approval>>
           \/ \E user \in Users : approve(user) \/ reject(user)
           \/ UNCHANGED <<run, evidence, approval>>
<1>1. ASSUME NEW w \in Workers, NEW next, HeadFor(w, next) PROVE UNCHANGED <<run, approval>>
    BY <1>1 DEF HeadFor
<1>2. ASSUME NEW w \in Workers, NEW permanent, Fail(w, permanent) PROVE UNCHANGED <<run, evidence, approval>>
    BY <1>2 DEF Fail
<1>3. ASSUME NEW w \in Workers, NEW j \in Jobs, claim(w, j) PROVE UNCHANGED <<run, evidence, approval>>
    BY <1>3 DEF claim
<1>4. ASSUME NEW w \in Workers, notice_loss(w) \/ crash(w) PROVE UNCHANGED <<run, evidence, approval>>
    BY <1>4 DEF notice_loss, crash
<1>5. ASSUME NEW w \in Workers, Creates(w) PROVE UNCHANGED <<run, approval>>
    <2>1. CASE snapshot(w) \/ diagnose(w)
        BY <2>1, <1>1, <1>2 DEF snapshot, diagnose
    <2>2. CASE persist_generation(w) \/ persist_ranking(w) \/ create_plan(w)
        BY <2>2, <1>1 DEF persist_generation, persist_ranking, create_plan
    <2>3. CASE evaluate(w)
        BY <2>3, <1>1 DEF evaluate
    <2>4. CASE decide_admission(w)
        BY <2>4, <1>1 DEF decide_admission
    <2>5. CASE decide_authority(w)
        BY <2>5 DEF decide_authority
    <2> QED
        BY <1>5, <2>1, <2>2, <2>3, <2>4, <2>5 DEF Creates
<1>6. ASSUME NEW w \in Workers,
             \/ load(w) \/ validate_created(w) \/ generate(w) \/ rank(w) \/ load_bound_action(w)
             \/ begin_monitoring(w) \/ monitor(w) \/ raises(w) \/ complete(w)
      PROVE  UNCHANGED <<run, evidence, approval>>
    <2>1. CASE load(w) \/ load_bound_action(w) \/ complete(w)
        BY <2>1 DEF load, load_bound_action, complete
    <2>2. CASE validate_created(w) \/ raises(w)
        BY <2>2, <1>1, <1>2 DEF validate_created, raises
    <2>3. CASE generate(w) \/ rank(w)
        BY <2>3, <1>1 DEF generate, rank
    <2>4. CASE begin_monitoring(w) \/ monitor(w)
        BY <2>4, <1>1 DEF begin_monitoring, monitor
    <2> QED
        BY <1>6, <2>1, <2>2, <2>3, <2>4
<1>7. ASSUME NEW w \in Workers, request(w) PROVE UNCHANGED <<run, evidence>>
    BY <1>7 DEF request
<1>8. ASSUME NEW w \in Workers, transition(w) \/ deploy(w) PROVE UNCHANGED <<evidence, approval>>
    BY <1>8 DEF transition, deploy
<1>9. CASE expire \/ UNCHANGED vars
    BY <1>9 DEF expire, vars
<1> QED
    BY <1>3, <1>4, <1>5, <1>6, <1>7, <1>8, <1>9, Zenon DEF Next, work, Creates

\* A job that exists goes on existing, and is completed by the worker that is done with it.
LEMMA Rows ==
    ASSUME TypeOK, NEW w \in Workers, WorkerStep(w)
    PROVE  \A j \in Jobs :
              /\ jobs'[j].status = "ABSENT" <=> jobs[j].status = "ABSENT"
              /\ jobs'[j].status = "COMPLETED" => jobs[j].status = "COMPLETED" \/ (pc[w] = "done" /\ job[w] = j)
<1> SUFFICES ASSUME NEW j \in Jobs
             PROVE  /\ jobs'[j].status = "ABSENT" <=> jobs[j].status = "ABSENT"
                    /\ jobs'[j].status = "COMPLETED" =>
                          jobs[j].status = "COMPLETED" \/ (pc[w] = "done" /\ job[w] = j)
    OBVIOUS
<1>1. job[w] \in Jobs /\ jobs[job[w]] \in Job /\ jobs[j] \in Job /\ jobs \in [Jobs -> Job]
    BY DEF TypeOK
<1> DEFINE Kept == /\ jobs'[j].status = "ABSENT" <=> jobs[j].status = "ABSENT"
                   /\ jobs'[j].status = "COMPLETED" =>
                         jobs[j].status = "COMPLETED" \/ (pc[w] = "done" /\ job[w] = j)
<1>2. CASE jobs' = jobs
    BY <1>2
<1>3. ASSUME NEW permanent, Failed(w, permanent) PROVE Kept
    BY <1>1, <1>3 DEF Failed, Owned, Job
<1>4. CASE \E i \in Jobs : claim(w, i)
    BY <1>1, <1>4 DEF claim, Job
<1>5. CASE complete(w)
    BY <1>1, <1>5 DEF complete, Owned, Job
<1>6. CASE crash(w)
    BY <1>1, <1>6 DEF crash, Owned, Job
<1>7. ASSUME NEW next, HeadFor(w, next) PROVE jobs' = jobs
    BY <1>7 DEF HeadFor
<1>8. ASSUME NEW permanent, Fail(w, permanent) PROVE Failed(w, permanent)
    BY <1>8 DEF Fail
<1>9. CASE validate_created(w) \/ snapshot(w) \/ diagnose(w) \/ raises(w)
    <2>1. CASE \E next \in RunStatus : HeadFor(w, next)
        BY <2>1, <1>2, <1>7
    <2>2. CASE \E permanent \in BOOLEAN : Fail(w, permanent)
        BY <2>2, <1>3, <1>8
    <2> QED
        BY <1>9, <2>1, <2>2 DEF validate_created, snapshot, diagnose, raises, RunStatus
<1>10. CASE \/ load(w) \/ generate(w) \/ persist_generation(w) \/ rank(w) \/ persist_ranking(w) \/ create_plan(w)
            \/ evaluate(w) \/ decide_admission(w) \/ decide_authority(w) \/ request(w)
    <2>1. jobs' = jobs
        BY <1>7, <1>10 DEF load, generate, persist_generation, rank, persist_ranking, create_plan, evaluate,
                           decide_admission, decide_authority, request
    <2> QED
        BY <2>1, <1>2
<1>11. CASE \/ transition(w) \/ load_bound_action(w) \/ deploy(w) \/ begin_monitoring(w) \/ monitor(w) \/ notice_loss(w)
    <2>1. jobs' = jobs
        BY <1>7, <1>11 DEF transition, load_bound_action, deploy, begin_monitoring, monitor, notice_loss
    <2> QED
        BY <2>1, <1>2
<1> QED
    BY <1>4, <1>5, <1>6, <1>9, <1>10, <1>11, Zenon DEF WorkerStep, work

\* A step of a worker changes no other worker's place or locals.
LEMMA Frame ==
    ASSUME TypeOK, NEW w \in Workers, WorkerStep(w), NEW v \in Workers, v # w
    PROVE  /\ pc'[v] = pc[v] /\ job'[v] = job[v] /\ seen'[v] = seen[v]
           /\ ordered'[v] = ordered[v] /\ goal'[v] = goal[v]
<1> DEFINE Same == /\ pc'[v] = pc[v] /\ job'[v] = job[v] /\ seen'[v] = seen[v]
                   /\ ordered'[v] = ordered[v] /\ goal'[v] = goal[v]
<1>1. /\ pc \in [Workers -> Points] /\ job \in [Workers -> Jobs] /\ seen \in [Workers -> RunStatus]
      /\ ordered \in [Workers -> Orders] /\ goal \in [Workers -> RunStatus]
    BY DEF TypeOK
<1>2. CASE Leave(w)
    BY <1>1, <1>2 DEF Leave
<1>3. ASSUME NEW next, HeadFor(w, next), UNCHANGED seen PROVE Same
    BY <1>1, <1>3 DEF HeadFor, Goto
<1>4. CASE \E i \in Jobs : claim(w, i)
    BY <1>1, <1>4 DEF claim
<1>5. CASE complete(w) \/ crash(w) \/ raises(w)
    BY <1>2, <1>5 DEF complete, crash, raises, Fail
<1>6. CASE validate_created(w) \/ snapshot(w) \/ diagnose(w)
    BY <1>2, <1>3, <1>6 DEF validate_created, snapshot, diagnose, Fail, HeadFor
<1>7. CASE generate(w) \/ rank(w)
    <2>1. CASE \E next \in RunStatus : HeadFor(w, next)
        BY <2>1, <1>3 DEF HeadFor
    <2>2. CASE ~\E next \in RunStatus : HeadFor(w, next)
        <3>1. AfterGeneration(evidence.generation) \in RunStatus /\ "CALIBRATING" \in RunStatus
            BY DEF AfterGeneration, RunStatus
        <3>2. CASE generate(w)
            BY <1>1, <2>2, <3>1, <3>2 DEF generate, Goto
        <3>3. CASE rank(w)
            <4>1. PICK order : ordered' = [ordered EXCEPT ![w] = order]
                BY <2>2, <3>1, <3>3 DEF rank
            <4>2. UNCHANGED <<job, seen, goal>> /\ Goto(w, "persist")
                BY <2>2, <3>1, <3>3 DEF rank
            <4> QED
                BY <1>1, <4>1, <4>2 DEF Goto
        <3> QED
            BY <1>7, <3>2, <3>3
    <2> QED
        BY <2>1, <2>2
<1>8. CASE persist_generation(w) \/ persist_ranking(w) \/ create_plan(w) \/ begin_monitoring(w) \/ monitor(w)
    <2>1. PICK next : HeadFor(w, next)
        BY <1>8 DEF persist_generation, persist_ranking, create_plan, begin_monitoring, monitor
    <2> QED
        BY <2>1, <1>3 DEF HeadFor
<1>9. CASE evaluate(w)
    BY <1>3, <1>9 DEF evaluate, HeadFor, locals
<1>10. CASE decide_admission(w)
    <2>1. PICK next : HeadFor(w, next)
        BY <1>10 DEF decide_admission
    <2> QED
        BY <2>1, <1>3 DEF HeadFor
<1>11. CASE load(w) \/ load_bound_action(w) \/ deploy(w)
    BY <1>1, <1>11 DEF load, load_bound_action, deploy, Goto
<1>12. CASE decide_authority(w) \/ request(w) \/ transition(w) \/ notice_loss(w)
    BY <1>1, <1>12 DEF decide_authority, request, transition, notice_loss, Goto
<1> QED
    BY <1>4, <1>5, <1>6, <1>7, <1>8, <1>9, <1>10, <1>11, <1>12, Zenon DEF WorkerStep, work

\* What exists stays: artifacts and their contents, a decision, the end of a run.
Stays ==
    /\ run'.mode = run.mode
    /\ run.status \in Terminal => run' = run
    /\ evidence.snapshot => evidence'.snapshot
    /\ evidence.diagnosis => evidence'.diagnosis
    /\ evidence.generation # Absent => evidence'.generation = evidence.generation
    /\ evidence.ranking # Absent => evidence'.ranking = evidence.ranking
    /\ evidence.plan # Absent => evidence'.plan = evidence.plan
    /\ evidence.evaluated \subseteq evidence'.evaluated
    /\ evidence.admission # Absent => evidence'.admission = evidence.admission
    /\ evidence.authority # Absent => evidence'.authority = evidence.authority
    /\ approval # Absent =>
          /\ approval' # Absent /\ approval'.candidate = approval.candidate
          /\ approval.status # "PENDING" => approval' = approval

\* create_for_run and its kin reuse what is there.
LEMMA ArtifactsStay ==
    ASSUME TypeOK, [Next]_vars
    PROVE  Stays
<1> DEFINE EvidenceStays ==
             /\ evidence.snapshot => evidence'.snapshot
             /\ evidence.diagnosis => evidence'.diagnosis
             /\ evidence.generation # Absent => evidence'.generation = evidence.generation
             /\ evidence.ranking # Absent => evidence'.ranking = evidence.ranking
             /\ evidence.plan # Absent => evidence'.plan = evidence.plan
             /\ evidence.evaluated \subseteq evidence'.evaluated
             /\ evidence.admission # Absent => evidence'.admission = evidence.admission
             /\ evidence.authority # Absent => evidence'.authority = evidence.authority
           RunStays == run'.mode = run.mode /\ (run.status \in Terminal => run' = run)
           ApprovalStays ==
             approval # Absent =>
                /\ approval' # Absent /\ approval'.candidate = approval.candidate
                /\ approval.status # "PENDING" => approval' = approval
<1>1. ASSUME NEW w \in Workers, Creates(w) PROVE EvidenceStays
    <2>0. evidence \in Evidence
        BY DEF TypeOK
    <2>1. CASE snapshot(w)
        BY <2>0, <2>1 DEF snapshot, Evidence, Fail
    <2>2. CASE diagnose(w)
        BY <2>0, <2>2 DEF diagnose, Evidence, Fail
    <2>3. CASE persist_generation(w)
        BY <2>0, <2>3 DEF persist_generation, Evidence
    <2>4. CASE persist_ranking(w)
        BY <2>0, <2>4 DEF persist_ranking, Evidence
    <2>5. CASE create_plan(w)
        BY <2>0, <2>5 DEF create_plan, Evidence
    <2>6. CASE evaluate(w)
        BY <2>0, <2>6 DEF evaluate, Evidence
    <2>7. CASE decide_admission(w)
        <3>1. evidence' = evidence \/ (evidence.admission = Absent /\ \E a : evidence' = [evidence EXCEPT !.admission = a])
            BY <2>7 DEF decide_admission
        <3> QED
            BY <2>0, <3>1 DEF Evidence
    <2>8. CASE decide_authority(w)
        <3>1. \E a : evidence' = [evidence EXCEPT !.authority = a] /\ (evidence.authority # Absent => a = evidence.authority)
            BY <2>8 DEF decide_authority
        <3> QED
            BY <2>0, <3>1 DEF Evidence
    <2> QED
        BY <1>1, <2>1, <2>2, <2>3, <2>4, <2>5, <2>6, <2>7, <2>8 DEF Creates
<1>2. ASSUME NEW w \in Workers, request(w) PROVE ApprovalStays
    BY <1>2 DEF request
<1>3. ASSUME NEW w \in Workers, transition(w) \/ deploy(w) PROVE RunStays
    <2>1. run \in Run
        BY DEF TypeOK
    <2>2. CASE transition(w)
        <3>1. run.status \notin Terminal
            BY <2>2 DEF transition, ValidTransition, ForwardEdges, Terminal
        <3> QED
            BY <2>1, <2>2, <3>1 DEF transition, Run
    <2>3. CASE deploy(w)
        BY <2>1, <2>3 DEF deploy, Terminal, Run
    <2> QED
        BY <1>3, <2>2, <2>3
<1>4. ASSUME NEW user \in Users, approve(user) \/ reject(user) PROVE RunStays /\ ApprovalStays /\ UNCHANGED evidence
    <2>1. run \in Run /\ approval \in Approval
        BY <1>4 DEF TypeOK, approve, reject, Decidable
    <2>2. run.status = "APPROVAL_PENDING" /\ approval.status = "PENDING"
        BY <1>4 DEF approve, reject, Decidable
    <2>3. PICK s \in {"APPROVED", "REJECTED"} : approval' = [approval EXCEPT !.status = s, !.decider = user]
        BY <1>4 DEF approve, reject
    <2>4. approval' \in Approval /\ approval'.candidate = approval.candidate
        BY <2>1, <2>3 DEF Approval
    <2>5. approval' # Absent
        BY <2>4, AbsentIsNoArtifact, Zenon
    <2>6. run'.mode = run.mode
        BY <1>4, <2>1 DEF approve, reject, Run
    <2> QED
        BY <1>4, <2>2, <2>4, <2>5, <2>6 DEF approve, reject, Terminal
<1> QED
    BY <1>1, <1>2, <1>3, <1>4, Changes DEF Stays

\* What a state implies goes on being so.
LEMMA ImpliedStays ==
    ASSUME TypeOK, [Next]_vars, NEW status, Implied(status)
    PROVE  Implied(status)'
<1>1. Stays
    BY ArtifactsStay
<1>2. HasAuthority => HasAuthority'
    BY <1>1 DEF HasAuthority, Stays
<1>3. status \in Generated => evidence'.generation \notin {Absent, {}}
    BY <1>1 DEF Implied, Stays
<1>4. status \in Ranked => evidence'.ranking # Absent
    BY <1>1 DEF Implied, Stays
<1>5. status \in Planned => evidence'.plan # Absent
    BY <1>1 DEF Implied, Stays
<1>6. status \in Evaluated => Range(evidence'.plan) \subseteq evidence'.evaluated
    BY <1>1 DEF Implied, Stays, Planned, Evaluated
<1>7. status \in Selected => evidence'.admission # Absent /\ evidence'.admission.selected # NoCandidate
    BY <1>1 DEF Implied, Stays
<1>8. (status \in Captured => evidence'.snapshot) /\ (status \in Diagnosed => evidence'.diagnosis)
    BY <1>1 DEF Implied, Stays
<1> QED
    BY <1>2, <1>3, <1>4, <1>5, <1>6, <1>7, <1>8 DEF Implied

-----------------------------------------------------------------------------
(* The invariant, part by part *)

\* Every artifact that a step creates rests on those before it.
LEMMA ChainStep == IInv /\ [Next]_vars => EvidenceChain'
<1> SUFFICES ASSUME IInv, [Next]_vars PROVE EvidenceChain'
    OBVIOUS
<1>1. TypeOK /\ EvidenceChain /\ evidence \in Evidence
    BY DEF IInv, TypeOK
<1>2. Stays
    BY <1>1, ArtifactsStay
<1>3. ASSUME UNCHANGED <<evidence, approval>> PROVE EvidenceChain'
    BY <1>1, <1>2, <1>3 DEF EvidenceChain, Stays
<1>4. ASSUME NEW w \in Workers, Creates(w), UNCHANGED <<run, approval>> PROVE EvidenceChain'
    <2> USE <1>1, <1>4
    <2>0. EvidenceInHand(w)
        BY DEF IInv
    <2>1. CASE snapshot(w) \/ diagnose(w)
        <3>1. \/ evidence' = evidence
              \/ evidence' = [evidence EXCEPT !.snapshot = TRUE]
              \/ evidence' = [evidence EXCEPT !.diagnosis = TRUE]
            BY <2>1 DEF snapshot, diagnose, Fail
        <3> QED
            BY <3>1 DEF EvidenceChain, Evidence
    <2>2. CASE persist_generation(w)
        <3>1. PICK g : /\ evidence' = [evidence EXCEPT !.generation = g]
                       /\ evidence.generation = Absent \/ g = evidence.generation
            BY <2>2 DEF persist_generation
        <3>2. evidence.snapshot /\ evidence.diagnosis
            BY <2>0, <2>2 DEF persist_generation, EvidenceInHand, Implied, Captured, Diagnosed
        <3> QED
            BY <3>1, <3>2 DEF EvidenceChain, Evidence
    <2>3. CASE persist_ranking(w)
        <3>1. PICK r : /\ evidence' = [evidence EXCEPT !.ranking = r]
                       /\ r = ordered[w] \/ r = evidence.ranking
                       /\ evidence.ranking = Absent \/ r = evidence.ranking
            BY <2>3 DEF persist_ranking
        <3>2. evidence.generation # Absent /\ ordered[w] \in SetToSeqs(evidence.generation)
            BY <2>0, <2>3 DEF persist_ranking, EvidenceInHand
        <3> QED
            BY <3>1, <3>2 DEF EvidenceChain, Evidence
    <2>4. CASE create_plan(w)
        <3>1. PICK p : /\ evidence' = [evidence EXCEPT !.plan = p]
                       /\ \/ evidence.plan # Absent /\ p = evidence.plan
                          \/ evidence.plan = Absent /\ evidence.ranking # Absent /\ p = Selection(evidence.ranking)
            BY <2>4 DEF create_plan
        <3>2. evidence.generation \notin {Absent, {}}
            BY <2>0, <2>4 DEF create_plan, At, EvidenceInHand, Implied, Generated, Ranked
        <3>3. evidence.generation \in SUBSET Candidates
            <4>1. evidence.generation \in (SUBSET Candidates) \cup {Absent}
                BY DEF Evidence
            <4> QED
                BY <3>2, <4>1, Zenon
        <3>4. evidence.ranking # Absent => Selection(evidence.ranking) # <<>>
            BY <3>2, <3>3, PlanIsOrder DEF EvidenceChain
        <3> QED
            BY <3>1, <3>4 DEF EvidenceChain, Evidence
    <2>5. CASE evaluate(w)
        <3>1. PICK S : evidence' = [evidence EXCEPT !.evaluated = @ \cup S]
            <4>1. evidence' = evidence \/ \E c : evidence' = [evidence EXCEPT !.evaluated = @ \cup {c}]
                BY <2>5 DEF evaluate
            <4>2. evidence = [evidence EXCEPT !.evaluated = @ \cup {}]
                BY DEF Evidence
            <4> QED
                BY <4>1, <4>2
        <3> QED
            BY <3>1 DEF EvidenceChain, Evidence
    <2>6. CASE decide_admission(w)
        <3>1. \/ evidence' = evidence
              \/ /\ evidence.admission = Absent
                 /\ \E admitted \in SUBSET Range(evidence.plan) :
                       evidence' = [evidence EXCEPT !.admission =
                                       [admitted |-> admitted, selected |-> FirstAdmitted(evidence.plan, admitted)]]
            BY <2>6 DEF decide_admission
        <3>2. evidence.plan # Absent /\ Range(evidence.plan) \subseteq evidence.evaluated
            BY <2>0, <2>6 DEF decide_admission, At, EvidenceInHand, Implied, Evaluated, Planned
        <3> QED
            BY <3>1, <3>2 DEF EvidenceChain, Evidence
    <2>7. CASE decide_authority(w)
        <3>1. evidence.admission # Absent
            BY <2>0, <2>7 DEF decide_authority, EvidenceInHand, Implied, Selected
        <3>2. \/ evidence' = evidence
              \/ /\ evidence.authority = Absent
                 /\ \E a \in [candidate : {evidence.admission.selected}, type : AuthorityTypes] :
                       evidence' = [evidence EXCEPT !.authority = a]
            <4>1. CASE evidence.authority # Absent
                <5>1. evidence' = [evidence EXCEPT !.authority = evidence.authority]
                    BY <2>7, <4>1 DEF decide_authority
                <5> QED
                    BY <5>1 DEF Evidence
            <4>2. CASE evidence.authority = Absent
                BY <2>7, <4>2 DEF decide_authority
            <4> QED
                BY <4>1, <4>2
        <3>3. CASE evidence' = evidence
            BY <3>3, <1>3
        <3>4. ASSUME NEW a \in [candidate : {evidence.admission.selected}, type : AuthorityTypes],
                     evidence.authority = Absent, evidence' = [evidence EXCEPT !.authority = a]
              PROVE  EvidenceChain'
            <4>1. a.candidate = evidence.admission.selected /\ (a.type = "AUTONOMOUS" => run.mode = "FULL_AUTONOMOUS")
                BY DEF AuthorityTypes
            <4> QED
                BY <3>1, <3>4, <4>1 DEF EvidenceChain, Evidence
        <3> QED
            BY <3>2, <3>3, <3>4
    <2> QED
        BY <2>1, <2>2, <2>3, <2>4, <2>5, <2>6, <2>7 DEF Creates
<1>5. ASSUME NEW w \in Workers, request(w), UNCHANGED <<run, evidence>> PROVE EvidenceChain'
    <2>1. evidence.authority # Absent /\ evidence.authority.type = "HUMAN_REQUIRED"
        BY <1>5 DEF IInv, EvidenceInHand, request
    <2> QED
        BY <1>1, <1>5, <2>1 DEF request, EvidenceChain
<1>6. ASSUME NEW user \in Users, approve(user) \/ reject(user) PROVE EvidenceChain'
    <2>1. evidence' = evidence /\ approval # Absent
        BY <1>6 DEF approve, reject, Decidable
    <2> QED
        BY <1>1, <1>2, <2>1 DEF EvidenceChain, Stays
<1> QED
    BY <1>3, <1>4, <1>5, <1>6, Changes

\* Whoever moves the row, the evidence of its new state is there.
LEMMA EarnedStep == IInv /\ [Next]_vars => RunEarned'
<1> SUFFICES ASSUME IInv, [Next]_vars PROVE RunEarned'
    OBVIOUS
<1> USE DEF Authorised, Selected, Evaluated, Planned, Ranked, Generated, Diagnosed, Captured
<1>1. TypeOK /\ EvidenceChain /\ RunEarned /\ run \in Run
    BY DEF IInv, TypeOK
<1>2. \A status \in RunStatus : Implied(status) => Implied(status)'
    BY <1>1, ImpliedStays
<1>3. HasAuthority => HasAuthority'
    BY <1>1, ArtifactsStay DEF HasAuthority, Stays
<1>4. run.status \in RunStatus
    BY <1>1 DEF Run
<1>5. CASE run' = run
    BY <1>1, <1>2, <1>3, <1>4, <1>5 DEF RunEarned
<1>6. ASSUME NEW w \in Workers, transition(w), UNCHANGED <<evidence, approval>> PROVE RunEarned'
    <2> DEFINE next == goal[w]
    <2>1. run'.status = next /\ run'.reason = Reason(w)
        BY <1>1, <1>6 DEF transition, Run
    <2>2. ValidTransition(run.status, next) /\ EvidenceFor(next, Reason(w))
        BY <1>6 DEF transition
    <2>3. Implied(run.status)
        BY <1>1 DEF RunEarned
    <2>4. EvidenceInHand(w) /\ pc[w] = "transition"
        BY <1>6 DEF IInv, transition
    <2>5. next \in Authorised => HasAuthority
        <3>1. CASE next = "APPROVED"
            BY <2>4, <3>1 DEF EvidenceInHand, HasAuthority
        <3>2. CASE next \in Authorised \ {"APPROVED"}
            <4>1. run.status \in Authorised
                BY <2>2, <3>2 DEF ValidTransition, ForwardEdges
            <4> QED
                BY <2>3, <4>1 DEF Implied
        <3> QED
            BY <3>1, <3>2
    <2>6. next \in Selected => evidence.admission # Absent /\ evidence.admission.selected # NoCandidate
        <3>1. CASE run.status \in Selected
            BY <2>3, <3>1 DEF Implied
        <3>2. CASE run.status \notin Selected /\ next \in Selected
            <4>1. <<run.status, next>> = <<"ADMISSION", "ADMITTED">>
                BY <2>2, <3>2 DEF ValidTransition, ForwardEdges
            <4> QED
                BY <2>2, <4>1 DEF EvidenceFor
        <3> QED
            BY <3>1, <3>2
    <2> DEFINE Pair(a, b) == <<run.status, next>> = <<a, b>>
    <2>7. Implied(next)
        <3>1. CASE next \in Selected /\ run.status \notin Evaluated
            BY <2>2, <3>1 DEF ValidTransition, ForwardEdges
        <3>2. CASE next \in Selected /\ run.status \in Evaluated
            BY <2>3, <2>5, <2>6, <3>2 DEF Implied
        <3>3. CASE Pair("EVALUATING", "ADMISSION")
            BY <2>2, <2>3, <3>3 DEF EvidenceFor, Implied
        <3>4. CASE Pair("CALIBRATING", "EVALUATING")
            BY <2>2, <2>3, <3>4 DEF EvidenceFor, Implied
        <3>5. CASE Pair("RANKING", "CALIBRATING")
            BY <2>2, <2>3, <3>5 DEF EvidenceFor, Implied
        <3>6. CASE Pair("GENERATING_CANDIDATES", "RANKING")
            BY <2>2, <2>3, <3>6 DEF EvidenceFor, Implied
        <3>7. CASE Pair("DIAGNOSING", "GENERATING_CANDIDATES")
            BY <2>2, <2>3, <3>7 DEF EvidenceFor, Implied
        <3>8. CASE Pair("SNAPSHOTTING", "DIAGNOSING")
            BY <2>2, <2>3, <3>8 DEF EvidenceFor, Implied
        <3>9. CASE next \notin Captured
            BY <3>9 DEF Implied
        <3> QED
            BY <2>2, <3>1, <3>2, <3>3, <3>4, <3>5, <3>6, <3>7, <3>8, <3>9
            DEF ValidTransition, ForwardEdges
    <2>8. run'.reason = "DEPLOYMENT_SUCCEEDED" => HasAuthority
        <3>1. ASSUME Reason(w) = "DEPLOYMENT_SUCCEEDED" PROVE seen[w] = "MONITORING"
            BY <2>4, <3>1 DEF Reason, EvidenceInHand
        <3>2. seen[w] = "MONITORING" => HasAuthority
            BY <2>4 DEF EvidenceInHand, Implied
        <3> QED
            BY <2>1, <3>1, <3>2
    <2>9. next \in RunStatus
        BY <1>1 DEF TypeOK
    <2> QED
        BY <1>2, <1>3, <2>1, <2>7, <2>8, <2>9 DEF RunEarned
<1>7. ASSUME NEW w \in Workers, deploy(w) PROVE RunEarned'
    <2>1. run.status \in {"APPROVED", "DEPLOYING", "DEPLOYED"} /\ run'.status \in {"DEPLOYING", "DEPLOYED"} /\ run'.reason = run.reason
        BY <1>1, <1>7 DEF deploy, Run
    <2>2. Implied("DEPLOYING")' /\ Implied("DEPLOYED")'
        BY <1>1, <1>2, <2>1 DEF RunEarned, RunStatus, Implied
    <2> QED
        BY <1>1, <1>3, <2>1, <2>2 DEF RunEarned
<1>8. ASSUME NEW user \in Users, approve(user) PROVE RunEarned'
    <2>1. run.status = "APPROVAL_PENDING" /\ run'.status = "APPROVED" /\ run'.reason = run.reason
        BY <1>1, <1>8 DEF approve, Decidable, Run
    <2>2. approval # Absent /\ approval'.status = "APPROVED"
        BY <1>1, <1>8 DEF approve, Decidable, Approval, TypeOK
    <2>3. HasAuthority'
        BY <1>1, <2>2, ArtifactsStay DEF HasAuthority, Stays, EvidenceChain
    <2>4. Implied("APPROVAL_PENDING")'
        BY <1>1, <1>2, <2>1 DEF RunEarned, RunStatus
    <2>5. Implied("APPROVED")'
        BY <2>3, <2>4 DEF Implied
    <2> QED
        BY <2>1, <2>3, <2>5 DEF RunEarned
<1>9. ASSUME NEW user \in Users, reject(user) PROVE RunEarned'
    <2>1. run'.status = "COMPLETED" /\ run'.reason = "APPROVAL_REJECTED"
        BY <1>1, <1>9 DEF reject, Run
    <2> QED
        BY <2>1 DEF RunEarned, Implied
<1> QED
    BY <1>5, <1>6, <1>7, <1>8, <1>9, Changes

\* Only an approval makes a job.
LEMMA JobsAppear ==
    ASSUME TypeOK, [Next]_vars
    PROVE  \/ \E user \in Users : approve(user)
           \/ \A j \in Jobs : jobs'[j].status = "ABSENT" <=> jobs[j].status = "ABSENT"
<1>1. ASSUME NEW w \in Workers, WorkerStep(w)
      PROVE  \A j \in Jobs : jobs'[j].status = "ABSENT" <=> jobs[j].status = "ABSENT"
    BY <1>1, Rows
<1>2. ASSUME NEW user \in Users, reject(user) PROVE jobs' = jobs
    BY <1>2 DEF reject
<1>3. CASE expire \/ UNCHANGED vars
    BY <1>3 DEF expire, vars
<1>4. \/ \E w \in Workers : WorkerStep(w)
      \/ \E user \in Users : approve(user) \/ reject(user)
      \/ expire \/ UNCHANGED vars
    BY Zenon DEF Next, WorkerStep
<1> QED
    BY <1>1, <1>2, <1>3, <1>4

\* approve and reject, and whoever moves the row afterwards, keep decision, run and job together.
LEMMA DecisionStep == IInv /\ [Next]_vars => DecisionStands' /\ DecisionTakesEffect'
<1> SUFFICES ASSUME IInv, [Next]_vars PROVE DecisionStands' /\ DecisionTakesEffect'
    OBVIOUS
<1>1. TypeOK /\ EvidenceChain /\ DecisionStands /\ DecisionTakesEffect /\ run \in Run /\ approval \in Approval \cup {Absent}
    BY DEF IInv, TypeOK
<1>2. Stays
    BY <1>1, ArtifactsStay
<1>3. "continuation" \in Jobs
    BY DEF Jobs
<1> DEFINE SameJobs == jobs'["continuation"].status = "ABSENT" <=> jobs["continuation"].status = "ABSENT"
<1>4. (\E user \in Users : approve(user)) \/ SameJobs
    BY <1>1, <1>3, JobsAppear
<1>5. ASSUME UNCHANGED <<run, approval>>, SameJobs PROVE DecisionStands' /\ DecisionTakesEffect'
    BY <1>1, <1>5 DEF DecisionStands, DecisionTakesEffect
<1>6. ASSUME NEW w \in Workers, request(w), UNCHANGED run, SameJobs PROVE DecisionStands' /\ DecisionTakesEffect'
    <2>1. CASE approval' = approval
        BY <2>1, <1>5, <1>6
    <2>2. CASE approval = Absent /\ approval'.status = "PENDING"
        BY <1>1, <1>6, <2>2 DEF DecisionStands, DecisionTakesEffect
    <2> QED
        BY <1>6, <2>1, <2>2 DEF request
<1>7. ASSUME NEW w \in Workers, transition(w), UNCHANGED approval, SameJobs PROVE DecisionStands' /\ DecisionTakesEffect'
    <2>1. run'.status = goal[w] /\ run'.reason = Reason(w) /\ ValidTransition(run.status, goal[w])
        BY <1>1, <1>7 DEF transition, Run
    <2>2. run.status \notin Terminal
        BY <2>1 DEF ValidTransition, ForwardEdges, Terminal
    <2>3. approval # Absent => approval.status # "REJECTED"
        BY <1>1, <2>2 DEF DecisionStands, Terminal
    <2>4. run.status \in Authorised => goal[w] \in Authorised \cup {"COMPLETED", "FAILED"}
        BY <2>1 DEF ValidTransition, ForwardEdges, Authorised
    <2>5. DecisionStands'
        BY <1>1, <1>7, <2>1, <2>2, <2>3, <2>4 DEF DecisionStands, Terminal
    <2>6. Reason(w) # "APPROVAL_REJECTED"
        BY DEF Reason
    <2>7. ASSUME goal[w] = "APPROVAL_PENDING" PROVE approval # Absent /\ approval.status = "PENDING"
        <3>1. approval # Absent
            BY <1>7, <2>7 DEF IInv, EvidenceInHand, transition
        <3>2. run.status = "ADMITTED"
            BY <2>1, <2>7 DEF ValidTransition, ForwardEdges
        <3>3. approval.status # "APPROVED"
            BY <1>1, <3>1, <3>2 DEF DecisionStands, Authorised
        <3> QED
            BY <1>1, <2>3, <3>1, <3>3 DEF Approval
    <2>8. DecisionTakesEffect'
        BY <1>1, <1>7, <2>1, <2>3, <2>6, <2>7 DEF DecisionTakesEffect
    <2> QED
        BY <2>5, <2>8
<1>8. ASSUME NEW w \in Workers, deploy(w), UNCHANGED approval, SameJobs PROVE DecisionStands' /\ DecisionTakesEffect'
    <2>1. run.status \in Authorised /\ run'.status \in {"DEPLOYING", "DEPLOYED"} /\ run'.reason = run.reason
        BY <1>1, <1>8 DEF deploy, Run, Authorised
    <2> QED
        BY <1>1, <1>8, <2>1 DEF DecisionStands, DecisionTakesEffect, Authorised
<1>9. ASSUME NEW user \in Users, approve(user) PROVE DecisionStands' /\ DecisionTakesEffect'
    <2>1. approval \in Approval /\ approval.status = "PENDING" /\ user # Requester
        BY <1>1, <1>9 DEF approve, Decidable
    <2>2. run'.status = "APPROVED" /\ run'.reason = run.reason
        BY <1>1, <1>9 DEF approve, Run
    <2>3. approval'.status = "APPROVED" /\ approval'.decider = user
        BY <1>9, <2>1 DEF approve, Approval
    <2>4. approval' # Absent
        BY <1>1, <1>2, <1>9 DEF Stays, approve, Decidable
    <2>5. jobs'["continuation"].status # "ABSENT"
        <3>1. jobs \in [Jobs -> Job]
            BY <1>1 DEF TypeOK
        <3> QED
            BY <1>3, <1>9, <3>1 DEF approve, Job
    <2>6. run.reason # "APPROVAL_REJECTED"
        BY <1>1, <2>1 DEF DecisionTakesEffect
    <2> QED
        BY <2>1, <2>2, <2>3, <2>4, <2>5, <2>6 DEF DecisionStands, DecisionTakesEffect, Authorised
<1>10. ASSUME NEW user \in Users, reject(user) PROVE DecisionStands' /\ DecisionTakesEffect'
    <2>1. approval \in Approval /\ approval.status = "PENDING" /\ user # Requester /\ approval # Absent
        BY <1>1, <1>10 DEF reject, Decidable
    <2>2. run'.status = "COMPLETED" /\ run'.reason = "APPROVAL_REJECTED"
        BY <1>1, <1>10 DEF reject, Run
    <2>3. approval'.status = "REJECTED" /\ approval'.decider = user
        BY <1>10, <2>1 DEF reject, Approval
    <2>4. approval' # Absent
        BY <1>2, <2>1 DEF Stays
    <2>5. jobs' = jobs /\ jobs["continuation"].status = "ABSENT"
        BY <1>1, <1>10, <2>1 DEF reject, DecisionTakesEffect
    <2> QED
        BY <2>1, <2>2, <2>3, <2>4, <2>5 DEF DecisionStands, DecisionTakesEffect
<1>11. (\E user \in Users : approve(user)) \/ (\E user \in Users : reject(user)) \/ SameJobs
    BY <1>4
<1> QED
    BY <1>4, <1>5, <1>6, <1>7, <1>8, <1>9, <1>10, Changes

\* A run at rest stays there, or another job takes it on.
LEMMA RestStays ==
    IInv /\ [Next]_vars => /\ Resting \/ Continued => Resting' \/ Continued'
                           /\ run.status \in Terminal => run'.status \in Terminal
<1> SUFFICES ASSUME IInv, [Next]_vars
             PROVE  /\ Resting \/ Continued => Resting' \/ Continued'
                    /\ run.status \in Terminal => run'.status \in Terminal
    OBVIOUS
<1>1. TypeOK /\ EvidenceChain /\ DecisionTakesEffect /\ run \in Run
    BY DEF IInv, TypeOK
<1>2. Stays
    BY <1>1, ArtifactsStay
<1>3. "continuation" \in Jobs
    BY DEF Jobs
<1>4. DecisionTakesEffect'
    BY DecisionStep
<1>5. Continued => Continued'
    BY <1>1, <1>2, <1>4 DEF Continued, DecisionTakesEffect, Stays
<1>6. run.status \in Terminal => run'.status \in Terminal
    BY <1>2 DEF Stays
<1>7. ASSUME run.status = "APPROVAL_PENDING" PROVE Resting' \/ Continued'
    <2>1. CASE run' = run
        BY <2>1, <1>7 DEF Resting
    <2>2. ASSUME NEW w \in Workers, transition(w) PROVE Resting'
        <3>1. run'.status = goal[w] /\ ValidTransition("APPROVAL_PENDING", goal[w])
            BY <1>1, <1>7, <2>2 DEF transition, Run
        <3>2. goal[w] # "APPROVED"
            <4>1. evidence.authority.type # "AUTONOMOUS"
                BY <1>1, <1>7 DEF EvidenceChain, DecisionTakesEffect
            <4> QED
                BY <2>2, <4>1 DEF IInv, EvidenceInHand, transition
        <3> QED
            BY <3>1, <3>2 DEF ValidTransition, ForwardEdges, Resting, Terminal
    <2>3. ASSUME NEW w \in Workers, deploy(w) PROVE FALSE
        BY <1>7, <2>3 DEF deploy
    <2>4. ASSUME NEW user \in Users, approve(user) PROVE Continued'
        <3>1. approval'.status = "APPROVED" /\ approval' # Absent
            BY <1>1, <1>2, <2>4 DEF approve, Decidable, TypeOK, Approval, Stays
        <3> QED
            BY <1>4, <3>1 DEF DecisionTakesEffect, Continued
    <2>5. ASSUME NEW user \in Users, reject(user) PROVE Resting'
        BY <1>1, <2>5 DEF reject, Resting, Terminal, Run
    <2> QED
        BY <2>1, <2>2, <2>3, <2>4, <2>5, Changes
<1> QED
    BY <1>5, <1>6, <1>7 DEF Resting

\* A job is completed when the run is at rest, or another job has it.
LEMMA JobsStep == IInv /\ [Next]_vars => JobsStand'
<1> SUFFICES ASSUME IInv, [Next]_vars PROVE JobsStand'
    OBVIOUS
<1>1. TypeOK /\ JobsStand /\ jobs \in [Jobs -> Job]
    BY DEF IInv, TypeOK
<1>2. /\ Resting \/ Continued => Resting' \/ Continued'
      /\ run.status \in Terminal => run'.status \in Terminal
    BY RestStays
<1>3. "initial" \in Jobs /\ "continuation" \in Jobs /\ "initial" # "continuation"
    BY DEF Jobs
<1>4. ASSUME NEW w \in Workers, WorkerStep(w) PROVE JobsStand'
    <2>1. JobInHand(w)
        BY DEF IInv
    <2>2. \A j \in Jobs :
              /\ jobs'[j].status = "ABSENT" <=> jobs[j].status = "ABSENT"
              /\ jobs'[j].status = "COMPLETED" => jobs[j].status = "COMPLETED" \/ (pc[w] = "done" /\ job[w] = j)
        BY <1>1, <1>4, Rows
    <2>3. jobs'["initial"].status # "ABSENT"
        BY <1>1, <1>3, <2>2 DEF JobsStand
    <2>4. jobs'["initial"].status = "COMPLETED" => Resting \/ Continued
        BY <1>1, <1>3, <2>1, <2>2 DEF JobsStand, JobInHand
    <2>5. jobs'["continuation"].status = "COMPLETED" => run.status \in Terminal
        BY <1>1, <1>3, <2>1, <2>2 DEF JobsStand, JobInHand
    <2> QED
        BY <1>2, <2>3, <2>4, <2>5 DEF JobsStand
<1>5. ASSUME NEW user \in Users, approve(user) PROVE JobsStand'
    <2>1. PICK s \in {jobs["continuation"].status, "PENDING"} :
              /\ jobs' = [jobs EXCEPT !["continuation"].status = s]
              /\ s = "COMPLETED" => jobs["continuation"].status = "COMPLETED"
        BY <1>5 DEF approve
    <2>2. jobs'["initial"] = jobs["initial"] /\ jobs'["continuation"].status = s
        BY <1>1, <1>3, <2>1 DEF Job
    <2> QED
        BY <1>1, <1>2, <2>1, <2>2 DEF JobsStand
<1>6. CASE jobs' = jobs
    BY <1>1, <1>2, <1>6 DEF JobsStand
<1>7. \/ \E w \in Workers : WorkerStep(w)
      \/ \E user \in Users : approve(user)
      \/ jobs' = jobs
    BY Zenon DEF Next, WorkerStep, reject, expire, vars
<1> QED
    BY <1>4, <1>5, <1>6, <1>7

\* HeadFor: a stage that is through heads for a state that needs no authority, and completes a
\* run for one of three reasons.
Heading(w) ==
    /\ pc'[w] = "transition" /\ job'[w] = job[w] /\ seen'[w] = seen[w]
    /\ goal'[w] \notin {"APPROVED", "APPROVAL_PENDING"}
    /\ goal'[w] = "COMPLETED" => seen[w] \in {"GENERATING_CANDIDATES", "ADMISSION", "MONITORING"}

\* Where a step takes its worker.
LEMMA Places ==
    ASSUME IInv, NEW w \in Workers, WorkerStep(w)
    PROVE  \/ pc'[w] = "idle" /\ seen'[w] = "CREATED"
           \/ \E j \in Jobs : claim(w, j)
           \/ Heading(w)
           \/ load(w) \/ decide_authority(w) \/ request(w) \/ transition(w) \/ load_bound_action(w) \/ deploy(w)
           \/ /\ pc'[w] = "persist" /\ job'[w] = job[w] /\ seen'[w] = seen[w] /\ seen[w] = "GENERATING_CANDIDATES"
           \/ /\ pc'[w] = "persist" /\ job'[w] = job[w] /\ seen'[w] = seen[w] /\ seen[w] = "RANKING"
              /\ evidence.generation # Absent /\ ordered'[w] \in SetToSeqs(evidence.generation)
           \/ UNCHANGED <<pc, job, seen, ordered, goal>>
<1>1. /\ pc \in [Workers -> Points] /\ job \in [Workers -> Jobs] /\ seen \in [Workers -> RunStatus]
      /\ ordered \in [Workers -> Orders] /\ goal \in [Workers -> RunStatus]
    BY DEF IInv, TypeOK
<1>2. Leave(w) => pc'[w] = "idle" /\ seen'[w] = "CREATED"
    BY <1>1 DEF Leave
<1>3. ASSUME NEW next \in RunStatus \ {"APPROVED", "APPROVAL_PENDING"}, HeadFor(w, next),
             next = "COMPLETED" => seen[w] \in {"GENERATING_CANDIDATES", "ADMISSION", "MONITORING"}
      PROVE  Heading(w)
    BY <1>1, <1>3 DEF HeadFor, Goto, Heading
<1> USE DEF RunStatus
<1>4. CASE complete(w) \/ crash(w) \/ raises(w)
    BY <1>2, <1>4 DEF complete, crash, raises, Fail
<1>5. CASE validate_created(w) \/ snapshot(w) \/ diagnose(w)
    BY <1>2, <1>3, <1>5 DEF validate_created, snapshot, diagnose, Fail
<1>6. CASE generate(w)
    <2>1. CASE HeadFor(w, AfterGeneration(evidence.generation))
        BY <1>3, <1>6, <2>1 DEF generate, At, AfterGeneration
    <2>2. CASE ~HeadFor(w, AfterGeneration(evidence.generation))
        BY <1>1, <1>6, <2>2 DEF generate, At, Goto
    <2> QED
        BY <2>1, <2>2
<1>7. CASE persist_generation(w)
    <2>1. PICK g : HeadFor(w, AfterGeneration(g)) /\ seen[w] = "GENERATING_CANDIDATES"
        BY <1>7 DEF persist_generation
    <2> QED
        BY <1>3, <2>1 DEF AfterGeneration
<1>8. CASE rank(w)
    <2>1. CASE HeadFor(w, "CALIBRATING")
        BY <1>3, <2>1
    <2>2. CASE ~HeadFor(w, "CALIBRATING")
        <3>1. PICK order \in SetToSeqs(evidence.generation) : ordered' = [ordered EXCEPT ![w] = order]
            BY <1>8, <2>2 DEF rank
        <3>2. Goto(w, "persist") /\ UNCHANGED <<job, seen>> /\ seen[w] = "RANKING" /\ evidence.generation # Absent
            BY <1>8, <2>2 DEF rank, At, Rankable
        <3> QED
            BY <1>1, <3>1, <3>2 DEF Goto
    <2> QED
        BY <2>1, <2>2
<1>9. CASE persist_ranking(w) \/ create_plan(w) \/ begin_monitoring(w)
    BY <1>3, <1>9 DEF persist_ranking, create_plan, begin_monitoring
<1>10. CASE evaluate(w)
    BY <1>3, <1>10 DEF evaluate, locals
<1>11. CASE decide_admission(w)
    <2>1. PICK a : HeadFor(w, AfterAdmission(a)) /\ seen[w] = "ADMISSION"
        BY <1>11 DEF decide_admission, At
    <2> QED
        BY <1>3, <2>1 DEF AfterAdmission
<1>12. CASE monitor(w)
    BY <1>3, <1>12 DEF monitor, At
<1>13. CASE notice_loss(w)
    BY <1>13 DEF notice_loss
<1> QED
    BY <1>4, <1>5, <1>6, <1>7, <1>8, <1>9, <1>10, <1>11, <1>12, <1>13, Zenon DEF WorkerStep, work

\* Between its read and its write a worker keeps what it needs, whatever the others do.
LEMMA HandStep ==
    ASSUME IInv, [Next]_vars, NEW w \in Workers
    PROVE  EvidenceInHand(w)'
<1>1. TypeOK /\ EvidenceInHand(w) /\ RunEarned /\ run \in Run
    BY DEF IInv, TypeOK
<1>2. Stays
    BY <1>1, ArtifactsStay
<1>3. \A status \in RunStatus : Implied(status) => Implied(status)'
    BY <1>1, ImpliedStays
<1>4. /\ pc \in [Workers -> Points] /\ job \in [Workers -> Jobs] /\ seen \in [Workers -> RunStatus]
      /\ ordered \in [Workers -> Orders] /\ goal \in [Workers -> RunStatus]
    BY DEF IInv, TypeOK
<1> DEFINE Right(place, s, order, g) ==
             /\ place = "persist" =>
                   /\ s \in {"GENERATING_CANDIDATES", "RANKING"}
                   /\ s = "RANKING" => evidence'.generation # Absent /\ order \in SetToSeqs(evidence'.generation)
             /\ place = "request" =>
                   /\ g = "APPROVAL_PENDING"
                   /\ evidence'.authority # Absent /\ evidence'.authority.type = "HUMAN_REQUIRED"
             /\ place = "transition" =>
                   /\ g = "APPROVED" => evidence'.authority # Absent /\ evidence'.authority.type = "AUTONOMOUS"
                   /\ g = "APPROVAL_PENDING" => approval' # Absent
                   /\ g = "COMPLETED" => s \in {"GENERATING_CANDIDATES", "ADMISSION", "MONITORING"}
<1>5. ASSUME seen'[w] \in RunStatus, Implied(seen'[w]), Right(pc'[w], seen'[w], ordered'[w], goal'[w])
      PROVE  EvidenceInHand(w)'
    <2>1. PICK s \in RunStatus : s = seen'[w]
        BY <1>5
    <2>2. Implied(s)'
        BY <1>3, <1>5, <2>1
    <2> QED
        BY <1>5, <2>1, <2>2 DEF EvidenceInHand
<1>6. CASE /\ pc'[w] = pc[w] /\ seen'[w] = seen[w] /\ ordered'[w] = ordered[w] /\ goal'[w] = goal[w]
    <2>1. Right(pc[w], seen[w], ordered[w], goal[w])
        BY <1>1, <1>2 DEF EvidenceInHand, Stays
    <2> QED
        BY <1>1, <1>4, <1>5, <1>6, <2>1 DEF EvidenceInHand
<1>7. ASSUME WorkerStep(w) PROVE EvidenceInHand(w)'
    <2> DEFINE Fine == seen'[w] \in RunStatus /\ Implied(seen'[w]) /\ Right(pc'[w], seen'[w], ordered'[w], goal'[w])
    <2>0. Implied(seen[w]) /\ seen[w] \in RunStatus /\ run.status \in RunStatus /\ Implied(run.status)
        BY <1>1, <1>4 DEF EvidenceInHand, RunEarned, Run
    <2>1. CASE pc'[w] = "idle" /\ seen'[w] = "CREATED"
        <3>1. Implied("CREATED")
            BY DEF Implied, Authorised, Selected, Evaluated, Planned, Ranked, Generated, Diagnosed, Captured
        <3>2. Fine
            BY <2>1, <3>1 DEF RunStatus
        <3> QED
            BY <1>5, <3>2
    <2>2. CASE \E j \in Jobs : claim(w, j)
        <3>1. pc'[w] = "load" /\ seen'[w] = seen[w]
            BY <1>4, <2>2 DEF claim
        <3> QED
            BY <1>5, <2>0, <3>1
    <2>3. CASE Heading(w)
        BY <1>5, <2>0, <2>3 DEF Heading
    <2>4. CASE load(w)
        <3>1. pc'[w] \in {"done", "stage"} /\ seen'[w] = run.status
            BY <1>4, <2>4 DEF load, Goto
        <3> QED
            BY <1>5, <2>0, <3>1
    <2>5. CASE decide_authority(w)
        <3>1. seen'[w] = seen[w]
            BY <2>5 DEF decide_authority
        <3>2. PICK authority :
                  /\ evidence' = [evidence EXCEPT !.authority = authority]
                  /\ authority \in Authority
                  /\ goal'[w] = IF authority.type = "AUTONOMOUS" THEN "APPROVED" ELSE "APPROVAL_PENDING"
                  /\ pc'[w] = IF authority.type = "AUTONOMOUS" THEN "transition" ELSE "request"
            <4>1. seen[w] = "ADMITTED"
                BY <2>5 DEF decide_authority
            <4>2. evidence \in Evidence /\ evidence.admission # Absent /\ evidence.admission.selected # NoCandidate
                BY <1>1, <4>1 DEF EvidenceInHand, Implied, Selected, TypeOK
            <4>3. PICK authority :
                  /\ \/ evidence.authority # Absent /\ authority = evidence.authority
                     \/ /\ evidence.authority = Absent
                        /\ authority \in [candidate : {evidence.admission.selected}, type : AuthorityTypes]
                  /\ evidence' = [evidence EXCEPT !.authority = authority]
                  /\ goal' = [goal EXCEPT ![w] = IF authority.type = "AUTONOMOUS" THEN "APPROVED" ELSE "APPROVAL_PENDING"]
                  /\ Goto(w, IF authority.type = "AUTONOMOUS" THEN "transition" ELSE "request")
                BY <2>5 DEF decide_authority
            <4>4. authority \in Authority
                BY <4>2, <4>3 DEF Evidence, Admission, Authority, AuthorityTypes
            <4> QED
                BY <1>4, <4>3, <4>4 DEF Goto
        <3>3. evidence'.authority = authority
            BY <1>1, <3>2 DEF TypeOK, Evidence
        <3>4. authority # Absent
            BY <3>2, AbsentIsNoArtifact, Zenon
        <3> QED
            BY <1>5, <2>0, <3>1, <3>2, <3>3, <3>4 DEF Authority
    <2>6. CASE request(w)
        <3>1. pc[w] = "request" /\ pc'[w] = "transition" /\ seen'[w] = seen[w] /\ goal'[w] = goal[w] /\ evidence' = evidence
            BY <1>4, <2>6 DEF request, Goto
        <3>2. approval' # Absent
            <4>1. CASE approval # Absent
                BY <1>2, <4>1 DEF Stays
            <4>2. CASE approval = Absent
                <5>1. evidence.authority # Absent
                    BY <1>1, <3>1 DEF EvidenceInHand
                <5>2. evidence.authority \in Authority
                    BY <1>1, <5>1 DEF TypeOK, Evidence
                <5>3. approval' \in Approval
                    BY <2>6, <4>2, <5>2 DEF request, Approval, Authority
                <5> QED
                    BY <5>3, AbsentIsNoArtifact, Zenon
            <4> QED
                BY <4>1, <4>2
        <3> QED
            BY <1>1, <1>5, <2>0, <3>1, <3>2 DEF EvidenceInHand
    <2>7. CASE transition(w)
        <3>1. pc'[w] \in {"done", "load"} /\ seen'[w] = seen[w]
            BY <1>4, <2>7 DEF transition, Goto
        <3> QED
            BY <1>5, <2>0, <3>1
    <2>8. CASE load_bound_action(w)
        <3>1. pc'[w] = "deploy" /\ seen'[w] = run.status
            BY <1>4, <2>8 DEF load_bound_action, Goto
        <3> QED
            BY <1>5, <2>0, <3>1
    <2>9. CASE deploy(w)
        <3>1. pc'[w] \in {"deploy", "load"}
            BY <1>4, <2>9 DEF deploy, Goto
        <3>2. seen'[w] = seen[w] \/ (seen[w] = "APPROVED" /\ seen'[w] = "DEPLOYING")
            BY <1>4, <2>9 DEF deploy
        <3>3. Implied("APPROVED") => Implied("DEPLOYING")
            BY DEF Implied, Authorised, Selected, Evaluated, Planned, Ranked, Generated, Diagnosed, Captured
        <3> QED
            BY <1>5, <2>0, <3>1, <3>2, <3>3 DEF RunStatus
    <2>10. CASE pc'[w] = "persist" /\ seen'[w] = seen[w] /\ seen[w] = "GENERATING_CANDIDATES"
        BY <1>5, <2>0, <2>10
    <2>11. CASE /\ pc'[w] = "persist" /\ seen'[w] = seen[w] /\ seen[w] = "RANKING"
                /\ evidence.generation # Absent /\ ordered'[w] \in SetToSeqs(evidence.generation)
        <3>1. evidence'.generation = evidence.generation
            BY <1>2, <2>11 DEF Stays
        <3> QED
            BY <1>5, <2>0, <2>11, <3>1
    <2>12. CASE UNCHANGED <<pc, job, seen, ordered, goal>>
        BY <1>6, <2>12
    <2> QED
        BY <1>7, <2>1, <2>2, <2>3, <2>4, <2>5, <2>6, <2>7, <2>8, <2>9, <2>10, <2>11, <2>12, Places
<1>8. ASSUME NEW v \in Workers, v # w, WorkerStep(v) PROVE EvidenceInHand(w)'
    BY <1>1, <1>6, <1>8, Frame
<1>9. ASSUME UNCHANGED locals PROVE EvidenceInHand(w)'
    BY <1>6, <1>9 DEF locals
<1>10. (\E v \in Workers : WorkerStep(v)) \/ UNCHANGED locals
    BY Zenon DEF Next, WorkerStep, approve, reject, expire, vars
<1> QED
    BY <1>7, <1>8, <1>9, <1>10

\* A worker that ends its handler leaves the run at rest, or to the other job.
LEMMA JobInHandStep ==
    ASSUME IInv, [Next]_vars, NEW w \in Workers
    PROVE  JobInHand(w)'
<1>1. TypeOK /\ JobInHand(w) /\ DecisionStands /\ DecisionTakesEffect /\ run \in Run /\ jobs \in [Jobs -> Job]
    BY DEF IInv, TypeOK
<1>2. pc \in [Workers -> Points] /\ job \in [Workers -> Jobs]
    BY DEF IInv, TypeOK
<1>3. \A j \in Jobs : jobs[j].status # "ABSENT" => jobs'[j].status # "ABSENT"
    <2>1. ASSUME NEW user \in Users, approve(user), NEW j \in Jobs, jobs[j].status # "ABSENT"
          PROVE  jobs'[j].status # "ABSENT"
        BY <1>1, <2>1 DEF approve, Job
    <2> QED
        BY <1>1, <2>1, JobsAppear
<1>4. /\ Resting \/ Continued => Resting' \/ Continued'
      /\ run.status \in Terminal => run'.status \in Terminal
    BY RestStays
<1>5. CASE pc'[w] = pc[w] /\ job'[w] = job[w]
    BY <1>1, <1>2, <1>3, <1>4, <1>5 DEF JobInHand
<1>6. CASE pc'[w] = "idle"
    BY <1>6 DEF JobInHand
<1>7. ASSUME pc[w] # "idle", job'[w] = job[w], pc'[w] # "done" PROVE JobInHand(w)'
    BY <1>1, <1>2, <1>3, <1>7 DEF JobInHand
<1>8. ASSUME WorkerStep(w) PROVE JobInHand(w)'
    <2>1. CASE \E j \in Jobs : claim(w, j)
        <3>1. PICK j \in Jobs : claim(w, j)
            BY <2>1
        <3>2. pc'[w] = "load" /\ job'[w] = j /\ jobs'[j].status = "RUNNING"
            BY <1>1, <1>2, <3>1 DEF claim
        <3> QED
            BY <3>2 DEF JobInHand
    <2>2. CASE load(w)
        <3>1. pc[w] = "load" /\ job'[w] = job[w] /\ run' = run
            BY <2>2 DEF load
        <3>2. CASE run.status \in Terminal
            BY <1>1, <1>2, <1>3, <3>1, <3>2 DEF JobInHand, Resting
        <3>3. CASE run.status = "APPROVAL_PENDING"
            <4>1. job[w] # "continuation"
                BY <1>1, <3>1, <3>3 DEF JobInHand, DecisionTakesEffect
            <4> QED
                BY <1>1, <1>2, <1>3, <3>1, <3>3, <4>1 DEF JobInHand, Resting
        <3>4. CASE run.status \notin Terminal \cup {"APPROVAL_PENDING"}
            <4>1. pc'[w] = "stage"
                BY <1>2, <2>2, <3>4 DEF load, Goto
            <4> QED
                BY <1>7, <3>1, <4>1
        <3> QED
            BY <3>2, <3>3, <3>4
    <2>3. CASE transition(w)
        <3>1. pc[w] = "transition" /\ job'[w] = job[w] /\ run'.status = goal[w] /\ ValidTransition(run.status, goal[w])
            BY <1>1, <2>3 DEF transition, Run
        <3>2. CASE goal[w] # "APPROVAL_PENDING"
            <4>1. pc'[w] = "load"
                BY <1>2, <2>3, <3>2 DEF transition, Goto
            <4> QED
                BY <1>7, <3>1, <4>1
        <3>3. CASE goal[w] = "APPROVAL_PENDING"
            <4>1. run.status = "ADMITTED"
                BY <3>1, <3>3 DEF ValidTransition, ForwardEdges
            <4>2. job[w] # "continuation"
                BY <1>1, <3>1, <4>1 DEF JobInHand, DecisionTakesEffect, DecisionStands, Authorised
            <4> QED
                BY <1>1, <1>2, <1>3, <3>1, <3>3, <4>2 DEF JobInHand, Resting
        <3> QED
            BY <3>2, <3>3
    <2>4. CASE decide_authority(w) \/ request(w) \/ load_bound_action(w) \/ deploy(w)
        <3>1. pc[w] # "idle" /\ job'[w] = job[w] /\ pc'[w] # "done"
            <4>1. CASE decide_authority(w)
                BY <1>2, <4>1 DEF decide_authority, Goto
            <4>2. CASE request(w) \/ load_bound_action(w)
                BY <1>2, <4>2 DEF request, load_bound_action, At, Goto
            <4>3. CASE deploy(w)
                BY <1>2, <4>3 DEF deploy, Goto
            <4> QED
                BY <2>4, <4>1, <4>2, <4>3
        <3> QED
            BY <1>7, <3>1
    <2>5. CASE /\ pc'[w] \in {"transition", "persist"} /\ job'[w] = job[w]
               /\ ~\E j \in Jobs : claim(w, j)
        <3>1. CASE pc[w] # "idle"
            BY <1>7, <2>5, <3>1
        <3>2. CASE pc[w] = "idle"
            <4>1. ~work(w)
                BY <3>2 DEF work, load, validate_created, snapshot, diagnose, generate, persist_generation, rank,
                            persist_ranking, create_plan, evaluate, decide_admission, decide_authority, request,
                            transition, load_bound_action, deploy, begin_monitoring, monitor, raises, complete, At
            <4> QED
                BY <1>8, <2>5, <3>2, <4>1 DEF WorkerStep, notice_loss, crash
        <3> QED
            BY <3>1, <3>2
    <2>6. CASE UNCHANGED <<pc, job, seen, ordered, goal>>
        BY <1>5, <2>6
    <2> QED
        BY <1>6, <1>8, <2>1, <2>2, <2>3, <2>4, <2>5, <2>6, Places DEF Heading
<1>9. ASSUME NEW v \in Workers, v # w, WorkerStep(v) PROVE JobInHand(w)'
    BY <1>1, <1>5, <1>9, Frame
<1>10. ASSUME UNCHANGED locals PROVE JobInHand(w)'
    BY <1>5, <1>10 DEF locals
<1>11. (\E v \in Workers : WorkerStep(v)) \/ UNCHANGED locals
    BY Zenon DEF Next, WorkerStep, approve, reject, expire, vars
<1> QED
    BY <1>8, <1>9, <1>10, <1>11

-----------------------------------------------------------------------------
(* Theorems *)

\* A new run has no artifacts, no request and its initial job.
LEMMA InitIInv == Init => IInv
<1> SUFFICES ASSUME Init PROVE IInv
    OBVIOUS
<1>1. TypeOK
    BY InitTyped
<1>2. run.status = "CREATED" /\ run.reason = "NONE" /\ evidence = NoEvidence /\ approval = Absent
    BY DEF Init
<1>3. EvidenceChain
    BY <1>2 DEF EvidenceChain, NoEvidence
<1>4. Implied("CREATED")
    BY DEF Implied, Authorised, Selected, Evaluated, Planned, Ranked, Generated, Diagnosed, Captured
<1>5. RunEarned
    BY <1>2, <1>4 DEF RunEarned
<1>6. jobs["initial"].status = "PENDING" /\ jobs["continuation"].status = "ABSENT"
    BY DEF Init, Jobs
<1>7. DecisionStands /\ DecisionTakesEffect /\ JobsStand
    BY <1>2, <1>6 DEF DecisionStands, DecisionTakesEffect, JobsStand
<1>8. ASSUME NEW w \in Workers PROVE EvidenceInHand(w) /\ JobInHand(w)
    <2>1. pc[w] = "idle" /\ seen[w] = "CREATED"
        BY DEF Init
    <2> QED
        BY <1>4, <2>1 DEF EvidenceInHand, JobInHand
<1> QED
    BY <1>1, <1>3, <1>5, <1>7, <1>8 DEF IInv

\* Every step keeps the inductive invariant.
LEMMA StepIInv == IInv /\ [Next]_vars => IInv'
<1> SUFFICES ASSUME IInv, [Next]_vars PROVE IInv'
    OBVIOUS
<1>1. TypeOK'
    BY TypeStep
<1>2. EvidenceChain' /\ RunEarned' /\ DecisionStands' /\ DecisionTakesEffect' /\ JobsStand'
    BY ChainStep, EarnedStep, DecisionStep, JobsStep
<1>3. \A w \in Workers : EvidenceInHand(w)' /\ JobInHand(w)'
    BY HandStep, JobInHandStep
<1> QED
    BY <1>1, <1>2, <1>3 DEF IInv

\* Everything a run, its artifacts, its request, its jobs and its workers are has its type, and
\* what a worker carries fits what it read, in every reachable state.
THEOREM InvariantHolds == Spec => []IInv
<1> QED
    BY InitIInv, StepIInv, PTL DEF Spec

\* The row, the artifacts, the request, the jobs and the workers have their types.
THEOREM TypeCorrect == Spec => []TypeOK
<1>1. IInv => TypeOK
    BY DEF IInv
<1> QED
    BY <1>1, InvariantHolds, PTL

\* EvidenceChain: whichever workers created them, admission, authority and approval are about
\* candidates of the plan, of the ranking and of the generation of this run.
THEOREM ArtifactsAreChained == Spec => []EvidenceChain
<1>1. IInv => EvidenceChain
    BY DEF IInv
<1> QED
    BY <1>1, InvariantHolds, PTL

\* EvidenceFrozen: create_for_run, create_plan_for_run and decide_for_run reuse what another
\* worker persisted meanwhile.
THEOREM ArtifactsAreFrozen == Spec => EvidenceFrozen
<1>1. IInv /\ [Next]_vars =>
        [\A kind \in {"generation", "ranking", "plan", "admission", "authority"} :
            evidence[kind] # Absent => evidence'[kind] = evidence[kind]]_vars
    <2> SUFFICES ASSUME IInv, [Next]_vars
                 PROVE  \A kind \in {"generation", "ranking", "plan", "admission", "authority"} :
                            evidence[kind] # Absent => evidence'[kind] = evidence[kind]
        OBVIOUS
    <2>1. Stays
        BY ArtifactsStay DEF IInv
    <2> QED
        BY <2>1 DEF Stays
<1> QED
    BY <1>1, InvariantHolds, PTL DEF Spec, EvidenceFrozen

\* ProductionIsAuthorized: what gets into production was evaluated, and its authority or
\* somebody other than the requester agreed.
THEOREM ProductionNeedsAuthority == Spec => []ProductionIsAuthorized
<1>1. IInv => ProductionIsAuthorized
    <2> SUFFICES ASSUME IInv,
                        \/ run.status \in {"DEPLOYING", "DEPLOYED", "MONITORING", "ROLLED_BACK", "ROLLBACK_BLOCKED"}
                        \/ run.reason = "DEPLOYMENT_SUCCEEDED"
                 PROVE  /\ evidence.authority # Absent
                        /\ evidence.authority.candidate \in evidence.evaluated
                        /\ \/ evidence.authority.type = "AUTONOMOUS" /\ approval = Absent
                           \/ approval # Absent /\ approval.status = "APPROVED" /\ approval.decider # Requester
        BY DEF ProductionIsAuthorized
    <2>1. TypeOK /\ EvidenceChain /\ RunEarned /\ DecisionStands
        BY DEF IInv
    <2>2. HasAuthority
        BY <2>1 DEF RunEarned, Implied, Authorised
    <2>3. evidence.authority \in Authority /\ evidence.admission # Absent /\ evidence.plan # Absent
        BY <2>1, <2>2 DEF HasAuthority, TypeOK, Evidence, EvidenceChain
    <2>4. evidence.authority.candidate = FirstAdmitted(evidence.plan, evidence.admission.admitted)
        <3>1. evidence.authority.candidate = evidence.admission.selected
            BY <2>1, <2>2 DEF EvidenceChain, HasAuthority
        <3>2. evidence.admission.selected = FirstAdmitted(evidence.plan, evidence.admission.admitted)
            BY <2>1, <2>3 DEF EvidenceChain
        <3> QED
            BY <3>1, <3>2, Zenon
    <2>5. evidence.authority.candidate # NoCandidate
        BY <2>3, LifecycleConstants DEF Authority
    <2>6. evidence.plan \in Seq(Candidates)
        BY <2>1, <2>3, OrdersAreSequences DEF TypeOK, Evidence
    <2>7. evidence.authority.candidate \in Range(evidence.plan)
        BY <2>4, <2>5, <2>6, FirstAdmittedOfPlan
    <2>8. Range(evidence.plan) \subseteq evidence.evaluated
        BY <2>1, <2>3 DEF EvidenceChain
    <2>9. \/ evidence.authority.type = "AUTONOMOUS" /\ approval = Absent
          \/ approval # Absent /\ approval.status = "APPROVED" /\ approval.decider # Requester
        BY <2>1, <2>2 DEF HasAuthority, EvidenceChain, DecisionStands
    <2> QED
        BY <2>2, <2>7, <2>8, <2>9 DEF HasAuthority
<1> QED
    BY <1>1, InvariantHolds, PTL

\* DecisionTakesEffect: request, decision, run and continuation job say the same.
THEOREM DecisionsTakeEffect == Spec => []DecisionTakesEffect
<1>1. IInv => DecisionTakesEffect
    BY DEF IInv
<1> QED
    BY <1>1, InvariantHolds, PTL

\* NothingStranded: a run that is not at rest has a job that is not completed.
THEOREM RunsAreNotStranded == Spec => []NothingStranded
<1>1. IInv => NothingStranded
    <2> SUFFICES ASSUME IInv, ~Resting
                 PROVE  \E j \in Jobs : jobs[j].status \in {"PENDING", "RUNNING", "FAILED"}
        BY DEF NothingStranded, Resting
    <2>1. \A j \in Jobs : jobs[j].status \in {"ABSENT", "PENDING", "RUNNING", "COMPLETED", "FAILED"}
        BY DEF IInv, TypeOK, Job
    <2>2. "initial" \in Jobs /\ "continuation" \in Jobs
        BY DEF Jobs
    <2>3. jobs["initial"].status # "ABSENT" /\ (jobs["initial"].status = "COMPLETED" => Continued)
        BY DEF IInv, JobsStand
    <2>4. jobs["continuation"].status # "COMPLETED"
        BY DEF IInv, JobsStand, Resting
    <2> QED
        BY <2>1, <2>2, <2>3, <2>4 DEF Continued
<1> QED
    BY <1>1, InvariantHolds, PTL
=============================================================================
