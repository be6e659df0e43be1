------------------------ MODULE IndexDeploymentProofs ------------------------
(***************************************************************************)
(* Proofs about IndexDeployment for every set of runs and workers and any  *)
(* number of claims, crashes and human changes.                            *)
(***************************************************************************)
EXTENDS IndexDeployment, TLAPS

\* The run never goes back to a status before its approval.
LateStatus ==
    \A r \in Runs :
        run_status[r] \in {"APPROVED", "DEPLOYING", "DEPLOYED", "MONITORING"} \cup Terminal

\* What an APPLIED artifact stands for
Evidence(r) ==
    /\ artifact[r] = "APPLIED"
    /\ after_state[r].slot = "exact"
    /\ recovery[r] = "EXECUTION_CONFIRMED"

AppliedEvidence == \A r \in Runs : artifact[r] = "APPLIED" => Evidence(r)

\* What a worker inside a deployment may rely on.  It is the target lock that
\* makes its copy of the artifact's status stay true.
Unapplied ==
    {"journal", "ledger_intent", "execute", "observe", "create", "confirm", "verify", "mark"}

Footing(w) ==
    /\ pc[w] = "begin" =>
          artifact[run[w]] = IF seen_artifact[w] = "APPLIED" THEN "APPLIED"
                                                            ELSE "INTENT_RECORDED"
    /\ pc[w] \in Unapplied => artifact[run[w]] = "INTENT_RECORDED"
    /\ pc[w] \in {"reconcile", "ledger_applied", "finish"} => artifact[run[w]] = "APPLIED"
    /\ pc[w] \in {"verify", "mark"} => recovery[run[w]] = "EXECUTION_CONFIRMED"
    /\ pc[w] = "mark" => seen[w].slot = "exact"
    /\ pc[w] \in {"mark", "rb_decide", "rb_intent"} => seen[w] \in State

DeploymentFooting == \A w \in Workers : Footing(w)

\* The inductive invariant
IInv ==
    /\ TypeOK
    /\ TargetExclusion
    /\ LateStatus
    /\ AppliedEvidence
    /\ DeployedEvidence
    /\ DeploymentFooting

-----------------------------------------------------------------------------
(* Types *)

\* The initial states satisfy the invariant.
LEMMA InitIInv == Init => IInv
<1> SUFFICES ASSUME Init
             PROVE  IInv
    OBVIOUS
<1>1. DatabaseTypes
    BY DeploymentConstants DEF Init, DatabaseTypes, RunStatus
<1>2. LeaseTypes /\ TargetTypes
    BY DEF Init, LeaseTypes, TargetTypes, Slots
<1>3. WorkerTypes
    BY DEF Init, WorkerTypes, Points
<1>4. NoteTypes
    BY DEF Init, NoteTypes, RunStatus, Outcomes
<1>5. TypeOK
    BY <1>1, <1>2, <1>3, <1>4 DEF Init, TypeOK
<1>6. TargetExclusion /\ DeploymentFooting
    BY DEF Init, TargetExclusion, Locked, DeploymentFooting, Footing, Unapplied
<1>7. LateStatus /\ AppliedEvidence /\ DeployedEvidence
    BY DEF Init, LateStatus, AppliedEvidence, Evidence, DeployedEvidence, Terminal
<1> QED
    BY <1>5, <1>6, <1>7 DEF IInv

\* What the database columns and local variables may take from the target
LEMMA StateTypes ==
    /\ TypeOK => Current \in State
    /\ \A s \in State : Without(s) \in State
    BY DEF TypeOK, TargetTypes, Current, State, Without, Slots

\* An exception or a crash keeps the types of what it leaves behind.
LEMMA LeaveTypes ==
    ASSUME TypeOK, NEW w \in Workers, Forget(w), Goto(w, "idle"),
           UNCHANGED <<run, claims>>,
           lock' \in Workers \cup {NoWorker, Orphan},
           lease' = [lease EXCEPT ![run[w]] = IF @ = w THEN NoWorker ELSE @],
           lost' = lost \ {w}
    PROVE  LeaseTypes' /\ WorkerTypes' /\ NoteTypes'
<1>1. LeaseTypes'
    BY DEF TypeOK, LeaseTypes
<1>2. WorkerTypes'
    BY DEF TypeOK, WorkerTypes, Goto, Points
<1>3. NoteTypes'
    BY DEF TypeOK, NoteTypes, Forget, RunStatus, Outcomes
<1> QED
    BY <1>1, <1>2, <1>3

\* A job that ends with an exception keeps every type.
LEMMA AbortTypes ==
    ASSUME TypeOK, NEW w \in Workers, Abort(w)
    PROVE  TypeOK'
<1>1. LeaseTypes' /\ WorkerTypes' /\ NoteTypes'
  <2>1. lock' \in Workers \cup {NoWorker, Orphan}
      BY DEF Abort, Leave, TypeOK, LeaseTypes
  <2> QED
      BY <2>1, LeaveTypes DEF Abort, Leave
<1>2. DatabaseTypes' /\ TargetTypes'
    BY DEF TypeOK, DatabaseTypes, TargetTypes, Abort, db, mongo
<1> QED
    BY <1>1, <1>2 DEF TypeOK, Abort, Leave

\* A step of a worker keeps the types.
LEMMA WorkTypes ==
    ASSUME IInv, NEW w \in Workers, work(w)
    PROVE  TypeOK'
<1> TypeOK
    BY DEF IInv
<1>1. CASE step(w)
  <2> SUFFICES ASSUME ~Abort(w)
               PROVE  TypeOK'
      BY AbortTypes
  <2>1. DatabaseTypes' /\ LeaseTypes' /\ TargetTypes' /\ NoteTypes'
      BY <1>1 DEF step, Stay, TypeOK, DatabaseTypes, LeaseTypes, TargetTypes,
         NoteTypes, db, mongo, notes
  <2>2. WorkerTypes'
      BY <1>1 DEF step, Stay, TypeOK, WorkerTypes, Goto, Points, Stage
  <2> QED
      BY <1>1, <2>1, <2>2 DEF step, Stay, TypeOK
<1>2. CASE load(w)
  <2> SUFFICES ASSUME ~Abort(w)
               PROVE  TypeOK'
      BY AbortTypes
  <2>1. DatabaseTypes' /\ LeaseTypes' /\ TargetTypes'
      BY <1>2 DEF load, TypeOK, DatabaseTypes, LeaseTypes, TargetTypes, db, mongo
  <2>2. NoteTypes'
      BY <1>2 DEF load, TypeOK, NoteTypes, WorkerTypes, DatabaseTypes
  <2>3. WorkerTypes'
      BY <1>2 DEF load, TypeOK, WorkerTypes, Goto, Points
  <2> QED
      BY <1>2, <2>1, <2>2, <2>3 DEF load, TypeOK
<1>3. CASE acquire(w)
  <2> SUFFICES ASSUME ~Abort(w)
               PROVE  TypeOK'
      BY AbortTypes
  <2>1. DatabaseTypes' /\ TargetTypes' /\ NoteTypes'
      BY <1>3 DEF acquire, TypeOK, DatabaseTypes, TargetTypes, NoteTypes, db, mongo,
         notes
  <2>2. LeaseTypes'
      BY <1>3 DEF acquire, TypeOK, LeaseTypes
  <2>3. WorkerTypes'
      BY <1>3 DEF acquire, TypeOK, WorkerTypes, Goto, Points
  <2> QED
      BY <1>3, <2>1, <2>2, <2>3 DEF acquire, TypeOK
<1>4. CASE inspect(w)
  <2> SUFFICES ASSUME ~Abort(w)
               PROVE  TypeOK'
      BY AbortTypes
  <2>1. DatabaseTypes' /\ LeaseTypes' /\ TargetTypes'
      BY <1>4 DEF inspect, TypeOK, DatabaseTypes, LeaseTypes, TargetTypes, db, mongo
  <2>2. NoteTypes'
      BY <1>4, StateTypes DEF inspect, TypeOK, NoteTypes, WorkerTypes, ReadState
  <2>3. WorkerTypes'
      BY <1>4 DEF inspect, TypeOK, WorkerTypes, Goto, Points
  <2> QED
      BY <1>4, <2>1, <2>2, <2>3 DEF inspect, TypeOK
<1>5. CASE intent(w)
  <2>1. LeaseTypes' /\ TargetTypes'
      BY <1>5 DEF intent, TypeOK, LeaseTypes, TargetTypes, mongo
  <2>2. DatabaseTypes'
      BY <1>5 DEF intent, TypeOK, DatabaseTypes, WorkerTypes
  <2>3. NoteTypes'
      BY <1>5 DEF intent, TypeOK, NoteTypes, WorkerTypes, DatabaseTypes
  <2>4. WorkerTypes'
      BY <1>5 DEF intent, TypeOK, WorkerTypes, Goto, Points
  <2> QED
      BY <1>5, <2>1, <2>2, <2>3, <2>4 DEF intent, TypeOK
<1>6. CASE begin(w)
  <2> SUFFICES ASSUME ~Abort(w)
               PROVE  TypeOK'
      BY AbortTypes
  <2>1. LeaseTypes' /\ TargetTypes' /\ NoteTypes'
      BY <1>6 DEF begin, Stay, TypeOK, LeaseTypes, TargetTypes, NoteTypes, mongo,
         notes
  <2>2. DatabaseTypes'
      BY <1>6 DEF begin, Stay, TypeOK, DatabaseTypes, WorkerTypes, SetStatus,
         RunStatus, db
  <2>3. WorkerTypes'
      BY <1>6 DEF begin, Stay, TypeOK, WorkerTypes, Goto, Points
  <2> QED
      BY <1>6, <2>1, <2>2, <2>3 DEF begin, Stay, TypeOK
<1>7. CASE reconcile(w)
  <2> SUFFICES ASSUME ~Abort(w)
               PROVE  TypeOK'
      BY AbortTypes
  <2>1. TargetTypes' /\ NoteTypes'
      BY <1>7 DEF reconcile, TypeOK, TargetTypes, NoteTypes, mongo, notes
  <2>2. DatabaseTypes'
      BY <1>7 DEF reconcile, TypeOK, DatabaseTypes, WorkerTypes, SetStatus, RunStatus
  <2>3. LeaseTypes'
      BY <1>7 DEF reconcile, TypeOK, LeaseTypes, Release
  <2>4. WorkerTypes'
      BY <1>7 DEF reconcile, TypeOK, WorkerTypes, Goto, Points
  <2> QED
      BY <1>7, <2>1, <2>2, <2>3, <2>4 DEF reconcile, TypeOK
<1>8. CASE journal(w)
  <2>1. LeaseTypes' /\ TargetTypes' /\ NoteTypes'
      BY <1>8 DEF journal, Stay, TypeOK, LeaseTypes, TargetTypes, NoteTypes, mongo,
         notes
  <2>2. DatabaseTypes'
      BY <1>8 DEF journal, Stay, TypeOK, DatabaseTypes, WorkerTypes
  <2>3. WorkerTypes'
      BY <1>8 DEF journal, Stay, TypeOK, WorkerTypes, Goto, Points
  <2> QED
      BY <1>8, <2>1, <2>2, <2>3 DEF journal, Stay, TypeOK
<1>9. CASE ledger_intent(w)
  <2>1. LeaseTypes' /\ TargetTypes' /\ NoteTypes'
      BY <1>9 DEF ledger_intent, AppendLedger, Stay, TypeOK, LeaseTypes, TargetTypes,
         NoteTypes, mongo, notes
  <2>2. DatabaseTypes'
      BY <1>9 DEF ledger_intent, AppendLedger, Stay, TypeOK, DatabaseTypes,
         WorkerTypes, Events
  <2>3. WorkerTypes'
      BY <1>9 DEF ledger_intent, AppendLedger, Stay, TypeOK, WorkerTypes, Goto, Points
  <2> QED
      BY <1>9, <2>1, <2>2, <2>3 DEF ledger_intent, AppendLedger, Stay, TypeOK
<1>10. CASE execute(w)
  <2> SUFFICES ASSUME ~Abort(w)
               PROVE  TypeOK'
      BY AbortTypes
  <2>1. LeaseTypes' /\ TargetTypes' /\ NoteTypes'
      BY <1>10 DEF execute, SetRecovery, Stay, TypeOK, LeaseTypes, TargetTypes,
         NoteTypes, mongo, notes
  <2>2. DatabaseTypes'
      BY <1>10 DEF execute, SetRecovery, Stay, TypeOK, DatabaseTypes, WorkerTypes, db
  <2>3. WorkerTypes'
      BY <1>10 DEF execute, SetRecovery, Stay, TypeOK, WorkerTypes, Goto, Points
  <2> QED
      BY <1>10, <2>1, <2>2, <2>3 DEF execute, SetRecovery, Stay, TypeOK
<1>11. CASE observe(w)
  <2>1. DatabaseTypes' /\ LeaseTypes' /\ TargetTypes' /\ NoteTypes'
      BY <1>11 DEF observe, Stay, TypeOK, DatabaseTypes, LeaseTypes, TargetTypes,
         NoteTypes, db, mongo, notes
  <2>2. WorkerTypes'
      BY <1>11 DEF observe, Stay, TypeOK, WorkerTypes, Goto, Points
  <2> QED
      BY <1>11, <2>1, <2>2 DEF observe, Stay, TypeOK
<1>12. CASE create(w)
  <2> SUFFICES ASSUME ~Abort(w)
               PROVE  TypeOK'
      BY AbortTypes
  <2>1. DatabaseTypes' /\ LeaseTypes' /\ NoteTypes'
      BY <1>12 DEF create, Stay, TypeOK, DatabaseTypes, LeaseTypes, NoteTypes, db,
         notes
  <2>2. TargetTypes'
      BY <1>12 DEF create, Stay, TypeOK, TargetTypes, WorkerTypes, Slots
  <2>3. WorkerTypes'
      BY <1>12 DEF create, Stay, TypeOK, WorkerTypes, Goto, Points
  <2> QED
      BY <1>12, <2>1, <2>2, <2>3 DEF create, Stay, TypeOK
<1>13. CASE confirm(w)
  <2>1. LeaseTypes' /\ TargetTypes' /\ NoteTypes'
      BY <1>13 DEF confirm, SetRecovery, Stay, TypeOK, LeaseTypes, TargetTypes,
         NoteTypes, mongo, notes
  <2>2. DatabaseTypes'
      BY <1>13 DEF confirm, SetRecovery, Stay, TypeOK, DatabaseTypes, WorkerTypes
  <2>3. WorkerTypes'
      BY <1>13 DEF confirm, SetRecovery, Stay, TypeOK, WorkerTypes, Goto, Points
  <2> QED
      BY <1>13, <2>1, <2>2, <2>3 DEF confirm, SetRecovery, Stay, TypeOK
<1>14. CASE verify(w)
  <2> SUFFICES ASSUME ~Abort(w)
               PROVE  TypeOK'
      BY AbortTypes
  <2>1. DatabaseTypes' /\ LeaseTypes' /\ TargetTypes'
      BY <1>14 DEF verify, TypeOK, DatabaseTypes, LeaseTypes, TargetTypes, db, mongo
  <2>2. NoteTypes'
      BY <1>14, StateTypes DEF verify, TypeOK, NoteTypes, WorkerTypes, ReadState
  <2>3. WorkerTypes'
      BY <1>14 DEF verify, TypeOK, WorkerTypes, Goto, Points
  <2> QED
      BY <1>14, <2>1, <2>2, <2>3 DEF verify, TypeOK
<1>15. CASE mark(w)
  <2>1. LeaseTypes' /\ TargetTypes' /\ NoteTypes'
      BY <1>15 DEF mark, Stay, TypeOK, LeaseTypes, TargetTypes, NoteTypes, mongo,
         notes
  <2>2. DatabaseTypes'
      BY <1>15 DEF mark, Stay, TypeOK, DatabaseTypes, WorkerTypes, NoteTypes
  <2>3. WorkerTypes'
      BY <1>15 DEF mark, Stay, TypeOK, WorkerTypes, Goto, Points
  <2> QED
      BY <1>15, <2>1, <2>2, <2>3 DEF mark, Stay, TypeOK
<1>16. CASE ledger_applied(w)
  <2>1. LeaseTypes' /\ TargetTypes' /\ NoteTypes'
      BY <1>16 DEF ledger_applied, AppendLedger, Stay, TypeOK, LeaseTypes,
         TargetTypes, NoteTypes, mongo, notes
  <2>2. DatabaseTypes'
      BY <1>16 DEF ledger_applied, AppendLedger, Stay, TypeOK, DatabaseTypes,
         WorkerTypes, Events
  <2>3. WorkerTypes'
      BY <1>16 DEF ledger_applied, AppendLedger, Stay, TypeOK, WorkerTypes, Goto,
         Points
  <2> QED
      BY <1>16, <2>1, <2>2, <2>3 DEF ledger_applied, AppendLedger, Stay, TypeOK
<1>17. CASE finish(w)
  <2> SUFFICES ASSUME ~Abort(w)
               PROVE  TypeOK'
      BY AbortTypes
  <2>1. TargetTypes' /\ NoteTypes'
      BY <1>17 DEF finish, TypeOK, TargetTypes, NoteTypes, mongo, notes
  <2>2. DatabaseTypes'
      BY <1>17 DEF finish, TypeOK, DatabaseTypes, WorkerTypes, SetStatus, RunStatus,
         db
  <2>3. LeaseTypes'
      BY <1>17 DEF finish, TypeOK, LeaseTypes, Release
  <2>4. WorkerTypes'
      BY <1>17 DEF finish, TypeOK, WorkerTypes, Goto, Points
  <2> QED
      BY <1>17, <2>1, <2>2, <2>3, <2>4 DEF finish, TypeOK
<1>18. CASE to_monitoring(w)
  <2> SUFFICES ASSUME ~Abort(w)
               PROVE  TypeOK'
      BY AbortTypes
  <2>1. LeaseTypes' /\ TargetTypes' /\ NoteTypes'
      BY <1>18 DEF to_monitoring, Stay, TypeOK, LeaseTypes, TargetTypes, NoteTypes,
         mongo, notes
  <2>2. DatabaseTypes'
      BY <1>18 DEF to_monitoring, Stay, TypeOK, DatabaseTypes, WorkerTypes, SetStatus,
         RunStatus
  <2>3. WorkerTypes'
      BY <1>18 DEF to_monitoring, Stay, TypeOK, WorkerTypes, Goto, Points
  <2> QED
      BY <1>18, <2>1, <2>2, <2>3 DEF to_monitoring, Stay, TypeOK
<1>19. CASE collect(w)
  <2> SUFFICES ASSUME ~Abort(w)
               PROVE  TypeOK'
      BY AbortTypes
  <2>1. DatabaseTypes' /\ LeaseTypes' /\ TargetTypes'
      BY <1>19 DEF collect, Stay, TypeOK, DatabaseTypes, LeaseTypes, TargetTypes, db,
         mongo
  <2>2. NoteTypes'
      BY <1>19 DEF collect, Stay, TypeOK, NoteTypes, WorkerTypes, Conclude, Outcomes,
         notes
  <2>3. WorkerTypes'
      BY <1>19 DEF collect, Stay, TypeOK, WorkerTypes, Goto, Points
  <2> QED
      BY <1>19, <2>1, <2>2, <2>3 DEF collect, Stay, TypeOK
<1>20. CASE rb_lookup(w)
  <2>1. DatabaseTypes' /\ LeaseTypes' /\ TargetTypes'
      BY <1>20 DEF rb_lookup, TypeOK, DatabaseTypes, LeaseTypes, TargetTypes, db,
         mongo
  <2>2. NoteTypes'
    <3>1. CASE rollback[run[w]] \in {"ROLLED_BACK", "ROLLBACK_BLOCKED"}
        BY <1>20, <3>1 DEF rb_lookup, Conclude, TypeOK, NoteTypes, Outcomes
    <3>2. CASE rollback[run[w]] \notin {"ROLLED_BACK", "ROLLBACK_BLOCKED"}
        BY <1>20, <3>2 DEF rb_lookup, TypeOK, NoteTypes, DatabaseTypes, WorkerTypes
    <3> QED
        BY <3>1, <3>2
  <2>3. WorkerTypes'
      BY <1>20 DEF rb_lookup, TypeOK, WorkerTypes, Goto, Points
  <2> QED
      BY <1>20, <2>1, <2>2, <2>3 DEF rb_lookup, TypeOK
<1>21. CASE rb_acquire(w)
  <2>1. DatabaseTypes' /\ TargetTypes'
      BY <1>21 DEF rb_acquire, TypeOK, DatabaseTypes, TargetTypes, db, mongo
  <2>2. LeaseTypes'
      BY <1>21 DEF rb_acquire, TypeOK, LeaseTypes
  <2>3. NoteTypes'
      BY <1>21 DEF rb_acquire, TypeOK, NoteTypes, WorkerTypes, Conclude, Outcomes
  <2>4. WorkerTypes'
      BY <1>21 DEF rb_acquire, TypeOK, WorkerTypes, Goto, Points
  <2> QED
      BY <1>21, <2>1, <2>2, <2>3, <2>4 DEF rb_acquire, TypeOK
<1>22. CASE rb_inspect(w)
  <2>1. DatabaseTypes' /\ LeaseTypes' /\ TargetTypes'
      BY <1>22 DEF rb_inspect, TypeOK, DatabaseTypes, LeaseTypes, TargetTypes, db,
         mongo
  <2>2. NoteTypes'
      BY <1>22, StateTypes DEF rb_inspect, TypeOK, NoteTypes, WorkerTypes, ReadState
  <2>3. WorkerTypes'
      BY <1>22 DEF rb_inspect, TypeOK, WorkerTypes, Goto, Points
  <2> QED
      BY <1>22, <2>1, <2>2, <2>3 DEF rb_inspect, TypeOK
<1>23. CASE rb_decide(w)
  <2>1. DatabaseTypes' /\ LeaseTypes' /\ TargetTypes' /\ NoteTypes'
      BY <1>23 DEF rb_decide, Stay, TypeOK, DatabaseTypes, LeaseTypes, TargetTypes,
         NoteTypes, db, mongo, notes
  <2>2. WorkerTypes'
      BY <1>23 DEF rb_decide, Stay, TypeOK, WorkerTypes, Goto, Points
  <2> QED
      BY <1>23, <2>1, <2>2 DEF rb_decide, Stay, TypeOK
<1>24. CASE rb_block(w)
  <2> SUFFICES ASSUME ~Abort(w)
               PROVE  TypeOK'
      BY AbortTypes
  <2>1. TargetTypes'
      BY <1>24 DEF rb_block, RecordOutcome, TypeOK, TargetTypes, mongo
  <2>2. DatabaseTypes'
      BY <1>24 DEF rb_block, RecordOutcome, TypeOK, DatabaseTypes, WorkerTypes
  <2>3. LeaseTypes'
      BY <1>24 DEF rb_block, RecordOutcome, TypeOK, LeaseTypes, Release
  <2>4. NoteTypes'
      BY <1>24 DEF rb_block, RecordOutcome, TypeOK, NoteTypes, WorkerTypes, Conclude,
         Outcomes
  <2>5. WorkerTypes'
      BY <1>24 DEF rb_block, RecordOutcome, TypeOK, WorkerTypes, Goto, Points
  <2> QED
      BY <1>24, <2>1, <2>2, <2>3, <2>4, <2>5 DEF rb_block, RecordOutcome, TypeOK
<1>25. CASE rb_intent(w)
  <2> SUFFICES ASSUME ~Abort(w)
               PROVE  TypeOK'
      BY AbortTypes
  <2>1. LeaseTypes' /\ TargetTypes' /\ NoteTypes'
      BY <1>25 DEF rb_intent, Stay, TypeOK, LeaseTypes, TargetTypes, NoteTypes, mongo,
         notes
  <2>2. seen[w] \in State
      BY <1>25 DEF rb_intent, IInv, DeploymentFooting, Footing
  <2>3. DatabaseTypes'
    <3> DEFINE r == run[w]
    <3>1. r \in Runs
        BY DEF TypeOK, WorkerTypes
    <3>2. rollback' = [rollback EXCEPT ![r] = "INTENT_RECORDED"]
        BY <1>25 DEF rb_intent
    <3>3. expected_after' = [expected_after EXCEPT ![r] =
                               IF rollback[r] = "NONE" THEN Without(seen[w]) ELSE @]
        BY <1>25 DEF rb_intent
    <3>4. Without(seen[w]) \in State
        BY <2>2, StateTypes
    <3>5. UNCHANGED <<run_status, approved, artifact, after_state, recovery, experience, ledger>>
        BY <1>25 DEF rb_intent
    <3> QED
        BY <3>1, <3>2, <3>3, <3>4, <3>5 DEF TypeOK, DatabaseTypes
  <2>4. WorkerTypes'
      BY <1>25 DEF rb_intent, Stay, TypeOK, WorkerTypes, Goto, Points
  <2> QED
      BY <1>25, <2>1, <2>3, <2>4 DEF rb_intent, Stay, TypeOK
<1>26. CASE drop(w)
  <2> SUFFICES ASSUME ~Abort(w)
               PROVE  TypeOK'
      BY AbortTypes
  <2>1. DatabaseTypes' /\ LeaseTypes' /\ NoteTypes'
      BY <1>26 DEF drop, Stay, TypeOK, DatabaseTypes, LeaseTypes, NoteTypes, db, notes
  <2>2. TargetTypes'
      BY <1>26 DEF drop, Stay, TypeOK, TargetTypes, WorkerTypes, Slots
  <2>3. WorkerTypes'
      BY <1>26 DEF drop, Stay, TypeOK, WorkerTypes, Goto, Points
  <2> QED
      BY <1>26, <2>1, <2>2, <2>3 DEF drop, Stay, TypeOK
<1>27. CASE rb_check(w)
  <2>1. DatabaseTypes' /\ LeaseTypes' /\ TargetTypes' /\ NoteTypes'
      BY <1>27 DEF rb_check, Stay, TypeOK, DatabaseTypes, LeaseTypes, TargetTypes,
         NoteTypes, db, mongo, notes
  <2>2. WorkerTypes'
      BY <1>27 DEF rb_check, Stay, TypeOK, WorkerTypes, Goto, Points
  <2> QED
      BY <1>27, <2>1, <2>2 DEF rb_check, Stay, TypeOK
<1>28. CASE rb_ledger(w)
  <2>1. LeaseTypes' /\ TargetTypes' /\ NoteTypes'
      BY <1>28 DEF rb_ledger, AppendLedger, Stay, TypeOK, LeaseTypes, TargetTypes,
         NoteTypes, mongo, notes
  <2>2. DatabaseTypes'
    <3>1. CASE InLedger(run[w], "ROLLBACK_APPLIED")
        BY <1>28, <3>1 DEF rb_ledger, TypeOK, DatabaseTypes, db
    <3>2. CASE ~InLedger(run[w], "ROLLBACK_APPLIED")
      <4>1. AppendLedger(w, "ROLLBACK_APPLIED")
          BY <1>28, <3>2 DEF rb_ledger
      <4> QED
          BY <4>1 DEF AppendLedger, TypeOK, DatabaseTypes, WorkerTypes, Events
    <3> QED
        BY <3>1, <3>2
  <2>3. WorkerTypes'
      BY <1>28 DEF rb_ledger, AppendLedger, Stay, TypeOK, WorkerTypes, Goto, Points
  <2> QED
      BY <1>28, <2>1, <2>2, <2>3 DEF rb_ledger, AppendLedger, Stay, TypeOK
<1>29. CASE rb_record(w)
  <2> SUFFICES ASSUME ~Abort(w)
               PROVE  TypeOK'
      BY AbortTypes
  <2>1. TargetTypes'
      BY <1>29 DEF rb_record, RecordOutcome, TypeOK, TargetTypes, mongo
  <2>2. DatabaseTypes'
      BY <1>29 DEF rb_record, RecordOutcome, TypeOK, DatabaseTypes, WorkerTypes
  <2>3. LeaseTypes'
      BY <1>29 DEF rb_record, RecordOutcome, TypeOK, LeaseTypes, Release
  <2>4. NoteTypes'
      BY <1>29 DEF rb_record, RecordOutcome, TypeOK, NoteTypes, WorkerTypes, Conclude,
         Outcomes
  <2>5. WorkerTypes'
      BY <1>29 DEF rb_record, RecordOutcome, TypeOK, WorkerTypes, Goto, Points
  <2> QED
      BY <1>29, <2>1, <2>2, <2>3, <2>4, <2>5 DEF rb_record, RecordOutcome, TypeOK
<1>30. CASE remember(w)
  <2>1. LeaseTypes' /\ TargetTypes' /\ NoteTypes'
      BY <1>30 DEF remember, Stay, TypeOK, LeaseTypes, TargetTypes, NoteTypes, mongo,
         notes
  <2>2. DatabaseTypes'
      BY <1>30 DEF remember, Stay, TypeOK, DatabaseTypes, WorkerTypes, NoteTypes
  <2>3. WorkerTypes'
      BY <1>30 DEF remember, Stay, TypeOK, WorkerTypes, Goto, Points
  <2> QED
      BY <1>30, <2>1, <2>2, <2>3 DEF remember, Stay, TypeOK
<1>31. CASE settle(w)
  <2> SUFFICES ASSUME ~Abort(w)
               PROVE  TypeOK'
      BY AbortTypes
  <2>1. LeaseTypes' /\ TargetTypes' /\ NoteTypes'
      BY <1>31 DEF settle, Stay, TypeOK, LeaseTypes, TargetTypes, NoteTypes, mongo,
         notes
  <2>2. DatabaseTypes'
      BY <1>31 DEF settle, Stay, TypeOK, DatabaseTypes, WorkerTypes, SetStatus,
         NoteTypes, RunStatus, Outcomes
  <2>3. WorkerTypes'
      BY <1>31 DEF settle, Stay, TypeOK, WorkerTypes, Goto, Points
  <2> QED
      BY <1>31, <2>1, <2>2, <2>3 DEF settle, Stay, TypeOK
<1> QED
    BY <1>1, <1>2, <1>3, <1>4, <1>5, <1>6, <1>7, <1>8, <1>9, <1>10, <1>11, <1>12,
       <1>13, <1>14, <1>15, <1>16, <1>17, <1>18, <1>19, <1>20, <1>21, <1>22, <1>23,
       <1>24, <1>25, <1>26, <1>27, <1>28, <1>29, <1>30, <1>31 DEF work,
       deploy_for_run, rollback_for_run

\* Every step keeps the types.
LEMMA TypeStep ==
    ASSUME IInv, [Next]_vars
    PROVE  TypeOK'
<1> TypeOK
    BY DEF IInv
<1>1. ASSUME NEW w \in Workers, NEW r \in Runs, claim(w, r)
      PROVE  TypeOK'
    BY <1>1 DEF claim, Goto, Points, TypeOK, DatabaseTypes, LeaseTypes, TargetTypes,
                WorkerTypes, NoteTypes, db, mongo, notes
<1>2. ASSUME NEW w \in Workers, notice_loss(w)
      PROVE  TypeOK'
    BY <1>2 DEF notice_loss, TypeOK, DatabaseTypes, LeaseTypes, TargetTypes, WorkerTypes,
                NoteTypes, db, mongo, notes
<1>3. ASSUME NEW w \in Workers, crash(w)
      PROVE  TypeOK'
  <2>1. LeaseTypes' /\ WorkerTypes' /\ NoteTypes'
    <3>1. lock' \in Workers \cup {NoWorker, Orphan}
        BY <1>3 DEF crash, TypeOK, LeaseTypes
    <3> QED
        BY <1>3, <3>1, LeaveTypes DEF crash
  <2> QED
      BY <1>3, <2>1 DEF crash, TypeOK, DatabaseTypes, TargetTypes, db, mongo
<1>4. ASSUME NEW r \in Runs, approval_expires(r)
      PROVE  TypeOK'
    BY <1>4 DEF approval_expires, TypeOK, DatabaseTypes, LeaseTypes, TargetTypes,
                WorkerTypes, NoteTypes, mongo, notes
<1>5. CASE reap
    BY <1>5 DEF reap, TypeOK, DatabaseTypes, LeaseTypes, TargetTypes, WorkerTypes,
                NoteTypes, db, mongo, notes
<1>6. CASE human_edit
    BY <1>6 DEF human_edit, TypeOK, DatabaseTypes, LeaseTypes, TargetTypes, WorkerTypes,
                NoteTypes, Slots, db, notes
<1>7. CASE UNCHANGED vars
    BY <1>7 DEF vars, TypeOK, DatabaseTypes, LeaseTypes, TargetTypes, WorkerTypes,
                NoteTypes, db, mongo, notes
<1> QED
    BY <1>1, <1>2, <1>3, <1>4, <1>5, <1>6, <1>7, WorkTypes DEF Next

-----------------------------------------------------------------------------
(* Exclusion *)

\* What a step of worker w may do: change its own control point and local
\* variables, ...
Local(w) ==
    /\ pc' = [pc EXCEPT ![w] = pc'[w]]
    /\ run' = run
    /\ seen' = [seen EXCEPT ![w] = seen'[w]]
    /\ seen_artifact' = [seen_artifact EXCEPT ![w] = seen_artifact'[w]]

\* ... take the lock when it is free, release its own, enter no locked section
\* otherwise, ...
LockUse(w) ==
    \/ lock' = lock /\ (pc'[w] \in Locked => pc[w] \in Locked)
    \/ lock = NoWorker /\ lock' = w
    \/ lock = w /\ lock' = NoWorker /\ pc'[w] \notin Locked

\* ... and leave the deployment's records alone without the lock.
Quiet(w) == pc[w] \notin Locked => UNCHANGED <<artifact, after_state, recovery>>

\* Every action of a worker keeps to these rules.
LEMMA WorkShape ==
    ASSUME IInv, NEW w \in Workers, work(w)
    PROVE  Local(w) /\ LockUse(w) /\ Quiet(w)
<1> USE DEF IInv, TypeOK, WorkerTypes, NoteTypes, TargetExclusion, Locked, Local, LockUse, Quiet
<1>1. CASE step(w)
    BY <1>1 DEF step, Stage, Goto, Stay, Abort, Leave, Forget, notes, db
<1>2. CASE load(w)
    BY <1>2 DEF load, Goto, Abort, Leave, Forget, notes, db
<1>3. CASE acquire(w)
    BY <1>3 DEF acquire, Goto, Abort, Leave, Forget, notes, db
<1>4. CASE inspect(w)
    BY <1>4 DEF inspect, Goto, ReadState, Abort, Leave, Forget, notes, db
<1>5. CASE intent(w)
    BY <1>5 DEF intent, Goto, notes, db
<1>6. CASE begin(w)
    BY <1>6 DEF begin, Goto, Stay, Abort, Leave, Forget, notes, db
<1>7. CASE reconcile(w)
    BY <1>7 DEF reconcile, Goto, Release, Abort, Leave, Forget, notes, db
<1>8. CASE journal(w)
    BY <1>8 DEF journal, Goto, Stay, notes, db
<1>9. CASE ledger_intent(w)
    BY <1>9 DEF ledger_intent, AppendLedger, Goto, Stay, notes, db
<1>10. CASE execute(w)
    BY <1>10 DEF execute, SetRecovery, Goto, Stay, Abort, Leave, Forget, notes, db
<1>11. CASE observe(w)
    BY <1>11 DEF observe, Goto, Stay, notes, db
<1>12. CASE create(w)
    BY <1>12 DEF create, Goto, Stay, Abort, Leave, Forget, notes, db
<1>13. CASE confirm(w)
    BY <1>13 DEF confirm, SetRecovery, Goto, Stay, notes, db
<1>14. CASE verify(w)
    BY <1>14 DEF verify, Goto, ReadState, Abort, Leave, Forget, notes, db
<1>15. CASE mark(w)
    BY <1>15 DEF mark, Goto, Stay, notes, db
<1>16. CASE ledger_applied(w)
    BY <1>16 DEF ledger_applied, AppendLedger, Goto, Stay, notes, db
<1>17. CASE finish(w)
    BY <1>17 DEF finish, Goto, Release, Abort, Leave, Forget, notes, db
<1>18. CASE to_monitoring(w)
    BY <1>18 DEF to_monitoring, Goto, Stay, Abort, Leave, Forget, notes, db
<1>19. CASE collect(w)
    BY <1>19 DEF collect, Goto, Stay, Abort, Leave, Forget, notes, db
<1>20. CASE rb_lookup(w)
    BY <1>20 DEF rb_lookup, Goto, notes, db
<1>21. CASE rb_acquire(w)
    BY <1>21 DEF rb_acquire, Goto, notes, db
<1>22. CASE rb_inspect(w)
    BY <1>22 DEF rb_inspect, Goto, ReadState, notes, db
<1>23. CASE rb_decide(w)
    BY <1>23 DEF rb_decide, Goto, Stay, notes, db
<1>24. CASE rb_block(w)
    BY <1>24 DEF rb_block, RecordOutcome, Goto, Release, Abort, Leave, Forget, notes,
       db
<1>25. CASE rb_intent(w)
    BY <1>25 DEF rb_intent, Goto, Stay, Abort, Leave, Forget, notes, db
<1>26. CASE drop(w)
    BY <1>26 DEF drop, Goto, Stay, Abort, Leave, Forget, notes, db
<1>27. CASE rb_check(w)
    BY <1>27 DEF rb_check, Goto, Stay, notes, db
<1>28. CASE rb_ledger(w)
    BY <1>28 DEF rb_ledger, AppendLedger, Goto, Stay, notes, db
<1>29. CASE rb_record(w)
    BY <1>29 DEF rb_record, RecordOutcome, Goto, Release, Abort, Leave, Forget, notes,
       db
<1>30. CASE remember(w)
    BY <1>30 DEF remember, Goto, Stay, notes, db
<1>31. CASE settle(w)
    BY <1>31 DEF settle, Goto, Stay, Abort, Leave, Forget, notes, db
<1> QED
    BY <1>1, <1>2, <1>3, <1>4, <1>5, <1>6, <1>7, <1>8, <1>9, <1>10, <1>11, <1>12,
       <1>13, <1>14, <1>15, <1>16, <1>17, <1>18, <1>19, <1>20, <1>21, <1>22, <1>23,
       <1>24, <1>25, <1>26, <1>27, <1>28, <1>29, <1>30, <1>31 DEF work,
       deploy_for_run, rollback_for_run

\* Mutual exclusion on the target is kept.
LEMMA ExclusionStep ==
    ASSUME IInv, [Next]_vars
    PROVE  TargetExclusion'
<1> USE DEF IInv, TypeOK, WorkerTypes, TargetExclusion
<1>1. ASSUME NEW w \in Workers, work(w)
      PROVE  TargetExclusion'
  <2>1. Local(w) /\ LockUse(w)
      BY <1>1, WorkShape
  <2>2. ASSUME NEW v \in Workers, pc'[v] \in Locked
        PROVE  lock' = v
      BY <2>1, <2>2, DeploymentConstants DEF Local, LockUse, Locked
  <2> QED
      BY <2>2
<1>2. ASSUME NEW w \in Workers, NEW r \in Runs, claim(w, r)
      PROVE  TargetExclusion'
    BY <1>2 DEF claim, Goto, Locked
<1>3. ASSUME NEW w \in Workers, crash(w)
      PROVE  TargetExclusion'
    BY <1>3 DEF crash, Goto, Locked
<1>4. CASE reap
    BY <1>4, DeploymentConstants DEF reap
<1>5. UNCHANGED <<pc, lock>> => TargetExclusion'
    OBVIOUS
<1> QED
    BY <1>1, <1>2, <1>3, <1>4, <1>5 DEF Next, notice_loss, approval_expires, human_edit, vars

-----------------------------------------------------------------------------
(* Evidence of a deployment *)

\* The lifecycle graph, read backwards from the statuses a worker sets here
LEMMA Predecessors ==
    /\ \A s : ValidTransition(s, "DEPLOYING") => s = "APPROVED"
    /\ \A s : ValidTransition(s, "MONITORING") => s = "DEPLOYED"
    /\ \A s, t : /\ ValidTransition(s, t) /\ t \in Outcomes
                 /\ s \in {"APPROVED", "DEPLOYING", "DEPLOYED", "MONITORING"} \cup Terminal
                 => s \in {"DEPLOYED", "MONITORING"}
    BY DEF ValidTransition, ForwardEdges, Terminal, Outcomes

\* The run's status moves only from what a worker inside its stage may rely on.
LEMMA StatusMoves ==
    ASSUME IInv, NEW w \in Workers, work(w), NEW r \in Runs, run_status'[r] # run_status[r]
    PROVE  \/ run_status'[r] = "DEPLOYING"
           \/ run_status'[r] = "DEPLOYED" /\ Evidence(r)
           \/ /\ run_status'[r] \in {"MONITORING"} \cup Outcomes
              /\ run_status[r] \in {"DEPLOYED", "MONITORING"}
<1> USE DEF IInv, TypeOK, DatabaseTypes, WorkerTypes, NoteTypes
<1>1. \/ begin(w) \/ reconcile(w) \/ finish(w) \/ to_monitoring(w) \/ settle(w)
    BY DEF work, deploy_for_run, rollback_for_run, step, load, acquire, inspect, intent,
           journal, ledger_intent, execute, observe, create, confirm, verify, mark,
           ledger_applied, collect, rb_lookup, rb_acquire, rb_inspect, rb_decide, rb_block,
           rb_intent, drop, rb_check, rb_ledger, rb_record, remember, AppendLedger,
           SetRecovery, RecordOutcome, Abort, db
<1>2. CASE begin(w)
    BY <1>2 DEF begin, SetStatus, Abort, db
<1>3. CASE reconcile(w)
  <2>1. run_status' = [run_status EXCEPT ![run[w]] = "DEPLOYED"] /\ pc[w] = "reconcile"
      BY <1>3 DEF reconcile, SetStatus, Abort, db
  <2> QED
      BY <2>1 DEF DeploymentFooting, Footing, AppliedEvidence
<1>4. CASE finish(w)
  <2>1. run_status' = [run_status EXCEPT ![run[w]] = "DEPLOYED"] /\ pc[w] = "finish"
      BY <1>4 DEF finish, SetStatus, Abort, db
  <2> QED
      BY <2>1 DEF DeploymentFooting, Footing, AppliedEvidence
<1>5. CASE to_monitoring(w)
    BY <1>5, Predecessors DEF to_monitoring, SetStatus, CanTransition, Abort, db
<1>6. CASE settle(w)
  <2>1. /\ run_status' = [run_status EXCEPT ![run[w]] = outcome[w]]
        /\ ValidTransition(run_status[run[w]], outcome[w])
      BY <1>6 DEF settle, SetStatus, CanTransition, Abort, db
  <2>2. run_status[run[w]] \in {"DEPLOYED", "MONITORING"}
      BY <2>1, Predecessors DEF LateStatus
  <2> QED
      BY <2>1, <2>2
<1> QED
    BY <1>1, <1>2, <1>3, <1>4, <1>5, <1>6

\* An APPLIED artifact and its evidence are made in one step and never touched
\* again.
LEMMA EvidenceStep ==
    ASSUME IInv, NEW w \in Workers, work(w)
    PROVE  /\ AppliedEvidence'
           /\ \A r \in Runs : Evidence(r) => Evidence(r)'
<1> USE DEF IInv, TypeOK, DatabaseTypes, WorkerTypes, NoteTypes, AppliedEvidence, Evidence
<1>1. \/ UNCHANGED <<artifact, after_state, recovery>>
      \/ intent(w) \/ journal(w) \/ execute(w) \/ confirm(w) \/ mark(w)
    BY DEF work, deploy_for_run, rollback_for_run, step, load, acquire, inspect, begin,
           reconcile, ledger_intent, observe, create, verify, ledger_applied, finish,
           to_monitoring, collect, rb_lookup, rb_acquire, rb_inspect, rb_decide, rb_block,
           rb_intent, drop, rb_check, rb_ledger, rb_record, remember, settle, AppendLedger,
           RecordOutcome, Abort, db
<1>2. CASE UNCHANGED <<artifact, after_state, recovery>>
    BY <1>2
<1>3. CASE intent(w)
    BY <1>3 DEF intent
<1>4. CASE journal(w) \/ execute(w) \/ confirm(w)
  <2>1. artifact[run[w]] = "INTENT_RECORDED"
      BY <1>4 DEF journal, execute, confirm, DeploymentFooting, Footing, Unapplied
  <2>2. /\ UNCHANGED <<artifact, after_state>>
        /\ \A r \in Runs : r # run[w] => recovery'[r] = recovery[r]
      BY <1>4 DEF journal, execute, confirm, SetRecovery, Abort, db
  <2> QED
      BY <2>1, <2>2
<1>5. CASE mark(w)
  <2>1. recovery[run[w]] = "EXECUTION_CONFIRMED" /\ seen[w].slot = "exact"
      BY <1>5 DEF mark, DeploymentFooting, Footing
  <2> QED
      BY <1>5, <2>1 DEF mark
<1> QED
    BY <1>1, <1>2, <1>3, <1>4, <1>5

\* The footing of the worker that takes the step
LEMMA OwnFooting ==
    ASSUME IInv, NEW w \in Workers, work(w)
    PROVE  Footing(w)'
<1> USE DEF IInv, TypeOK, DatabaseTypes, WorkerTypes, NoteTypes, DeploymentFooting, Footing,
        Unapplied
<1>1. CASE pc'[w] \notin {"begin", "reconcile", "ledger_applied", "finish", "rb_decide",
                          "rb_intent"} \cup Unapplied
    BY <1>1
<1>2. CASE inspect(w) \/ observe(w) \/ create(w) \/ ledger_intent(w)
    BY <1>2 DEF inspect, observe, create, ledger_intent, AppendLedger, Goto, Stay, Abort,
                Leave, db
<1>3. CASE intent(w)
    BY <1>3 DEF intent, Goto
<1>4. CASE begin(w)
    BY <1>4 DEF begin, Goto, Stay, Abort, Leave, db
<1>5. CASE journal(w) \/ execute(w) \/ confirm(w)
    BY <1>5 DEF journal, execute, confirm, SetRecovery, Goto, Stay, Abort, Leave, db
<1>6. CASE verify(w)
    BY <1>6, StateTypes DEF verify, ReadState, Current, Goto, Abort, Leave, db
<1>7. CASE mark(w) \/ ledger_applied(w)
    BY <1>7 DEF mark, ledger_applied, AppendLedger, Goto, Stay
<1>8. CASE rb_inspect(w) \/ rb_decide(w)
    BY <1>8, StateTypes DEF rb_inspect, rb_decide, ReadState, Goto, Stay, notes, db
<1>9. \/ inspect(w) \/ observe(w) \/ create(w) \/ ledger_intent(w) \/ intent(w) \/ begin(w)
      \/ journal(w) \/ execute(w) \/ confirm(w) \/ verify(w) \/ mark(w) \/ ledger_applied(w)
      \/ rb_inspect(w) \/ rb_decide(w)
      \/ pc'[w] \notin {"begin", "reconcile", "ledger_applied", "finish", "rb_decide",
                        "rb_intent"} \cup Unapplied
    BY DEF work, deploy_for_run, rollback_for_run, step, Stage, load, acquire, reconcile,
           finish, to_monitoring, collect, rb_lookup, rb_acquire, rb_block, rb_intent, drop,
           rb_check, rb_ledger, rb_record, remember, settle, RecordOutcome, Goto, Abort, Leave
<1> QED
    BY <1>1, <1>2, <1>3, <1>4, <1>5, <1>6, <1>7, <1>8, <1>9

\* The other workers keep theirs: whoever relies on a record holds the lock.
LEMMA FootingStep ==
    ASSUME IInv, NEW w \in Workers, work(w)
    PROVE  DeploymentFooting'
<1>1. ASSUME NEW v \in Workers, v # w
      PROVE  Footing(v)'
  <2>1. Local(w) /\ Quiet(w)
      BY WorkShape
  <2>2. /\ pc'[v] = pc[v] /\ run'[v] = run[v]
        /\ seen'[v] = seen[v] /\ seen_artifact'[v] = seen_artifact[v]
      BY <1>1, <2>1 DEF Local, IInv, TypeOK, WorkerTypes, NoteTypes
  <2>3. pc[v] \in Locked => pc[w] \notin Locked
      BY <1>1 DEF IInv, TargetExclusion
  <2>4. pc[v] \in Locked => UNCHANGED <<artifact, recovery>>
      BY <2>1, <2>3 DEF Quiet
  <2> QED
      BY <2>2, <2>4 DEF IInv, DeploymentFooting, Footing, Unapplied, Locked
<1> QED
    BY <1>1, OwnFooting DEF DeploymentFooting

-----------------------------------------------------------------------------
(* The theorems *)

\* Every step keeps the status and the evidence together.
LEMMA StatusStep ==
    ASSUME IInv, [Next]_vars
    PROVE  LateStatus' /\ AppliedEvidence' /\ DeployedEvidence' /\ DeploymentFooting'
<1>1. ASSUME NEW w \in Workers, work(w)
      PROVE  LateStatus' /\ AppliedEvidence' /\ DeployedEvidence' /\ DeploymentFooting'
  <2>1. AppliedEvidence' /\ \A r \in Runs : Evidence(r) => Evidence(r)'
      BY <1>1, EvidenceStep
  <2>2. ASSUME NEW r \in Runs
        PROVE  /\ run_status'[r] \in {"APPROVED", "DEPLOYING", "DEPLOYED", "MONITORING"}
                                        \cup Terminal
               /\ run_status'[r] \in {"DEPLOYED", "MONITORING"} \cup Terminal => Evidence(r)
    <3>1. CASE run_status'[r] = run_status[r]
        BY <3>1 DEF IInv, LateStatus, DeployedEvidence, Evidence
    <3>2. CASE run_status'[r] # run_status[r]
        BY <1>1, <3>2, StatusMoves
        DEF IInv, DeployedEvidence, Evidence, Terminal, Outcomes
    <3> QED
        BY <3>1, <3>2
  <2>3. DeployedEvidence'
      BY <2>1, <2>2 DEF DeployedEvidence, Evidence
  <2> QED
      BY <1>1, <2>1, <2>2, <2>3, FootingStep DEF LateStatus
<1>2. ASSUME UNCHANGED <<run_status, artifact, after_state, recovery>>,
             \A v \in Workers :
                 \/ pc'[v] \in {"idle", "step"}
                 \/ /\ pc'[v] = pc[v] /\ run'[v] = run[v]
                    /\ seen'[v] = seen[v] /\ seen_artifact'[v] = seen_artifact[v]
      PROVE  LateStatus' /\ AppliedEvidence' /\ DeployedEvidence' /\ DeploymentFooting'
    BY <1>2 DEF IInv, LateStatus, AppliedEvidence, DeployedEvidence, Evidence,
                DeploymentFooting, Footing, Unapplied
<1>3. ASSUME NEW w \in Workers, NEW r \in Runs, claim(w, r)
      PROVE  LateStatus' /\ AppliedEvidence' /\ DeployedEvidence' /\ DeploymentFooting'
    BY <1>2, <1>3 DEF claim, Goto, db, notes, IInv, TypeOK, WorkerTypes, NoteTypes
<1>4. ASSUME NEW w \in Workers, crash(w)
      PROVE  LateStatus' /\ AppliedEvidence' /\ DeployedEvidence' /\ DeploymentFooting'
    BY <1>2, <1>4 DEF crash, Goto, Forget, db, IInv, TypeOK, WorkerTypes, NoteTypes
<1>5. ASSUME NEW w \in Workers, notice_loss(w)
      PROVE  LateStatus' /\ AppliedEvidence' /\ DeployedEvidence' /\ DeploymentFooting'
    BY <1>2, <1>5 DEF notice_loss, db, notes
<1>6. ASSUME NEW r \in Runs, approval_expires(r)
      PROVE  LateStatus' /\ AppliedEvidence' /\ DeployedEvidence' /\ DeploymentFooting'
    BY <1>2, <1>6 DEF approval_expires, notes
<1>7. CASE reap \/ human_edit \/ UNCHANGED vars
    BY <1>2, <1>7 DEF reap, human_edit, vars, db, notes
<1> QED
    BY <1>1, <1>3, <1>4, <1>5, <1>6, <1>7 DEF Next

\* The inductive invariant holds in every reachable state.
LEMMA Invariance == Spec => []IInv
<1>1. IInv /\ [Next]_vars => IInv'
    BY TypeStep, ExclusionStep, StatusStep DEF IInv
<1> QED
    BY InitIInv, <1>1, PTL DEF Spec

\* Rows, target and workers only ever hold values of their types.
THEOREM TypeCorrect == Spec => []TypeOK
<1>1. IInv => TypeOK
    BY DEF IInv
<1> QED
    BY <1>1, Invariance, PTL

\* The advisory lock keeps deployments and rollbacks of one target apart, although
\* it is tried and never waited for, leases run out under live workers and dead
\* sessions linger.
THEOREM TargetMutualExclusion == Spec => []TargetExclusion
<1>1. IInv => TargetExclusion
    BY DEF IInv
<1> QED
    BY <1>1, Invariance, PTL

\* No run passes deployment without its APPLIED artifact, its verified state and
\* its confirmed journal.
THEOREM DeploymentsAreEvidenced == Spec => []DeployedEvidence
<1>1. IInv => DeployedEvidence
    BY DEF IInv
<1> QED
    BY <1>1, Invariance, PTL

-----------------------------------------------------------------------------
(* Later: a late worker creates nothing, the ledger tells a run's story in *)
(* order, and a run is rolled back on evidence only.                       *)

\* Where the run was found MONITORING
Judging ==
    {"collect", "rb_lookup", "rb_acquire", "rb_inspect", "rb_decide", "rb_block", "rb_intent",
     "drop", "rb_check", "rb_ledger", "rb_record", "remember", "settle"}

\* Without an index nobody has made it.
MakerExists == slot = "absent" => maker = Nobody

\* What the ledger says of a run
Story(r) ==
    /\ artifact[r] = "NONE" => \A event \in Events : ~InLedger(r, event)
    /\ artifact[r] # "APPLIED" => ~InLedger(r, "DEPLOYMENT_APPLIED") /\ ~InLedger(r, "ROLLBACK_APPLIED")

\* What a rollback record stands for
RollbackRecord(r) ==
    /\ rollback[r] # "NONE" => artifact[r] = "APPLIED"
    /\ rollback[r] = "INTENT_RECORDED" => expected_after[r].slot = "absent"
    /\ rollback[r] = "ROLLED_BACK" => InLedger(r, "ROLLBACK_APPLIED") /\ maker # r

\* What a worker inside a stage may rely on besides its footing
Standing(w) ==
    LET r == run[w] IN
    /\ pc[w] \in Judging => artifact[r] = "APPLIED"
    /\ pc[w] \in {"acquire", "inspect", "intent", "begin"} /\ bound_status[w] # "APPROVED" =>
          run_status[r] # "APPROVED"
    /\ pc[w] \in Unapplied => run_status[r] # "APPROVED"
    /\ pc[w] \in {"observe", "create", "confirm"} => recovery[r] = "EXECUTION_STARTED"
    /\ pc[w] \in {"begin", "journal", "ledger_intent"} /\ seen_artifact[w] = "CREATED" =>
          \A event \in Events : ~InLedger(r, event)
    /\ pc[w] = "ledger_intent" => seen_artifact[w] = "CREATED"
    /\ pc[w] = "ledger_applied" => ~InLedger(r, "DEPLOYMENT_APPLIED") /\ ~InLedger(r, "ROLLBACK_APPLIED")
    /\ pc[w] = "rb_decide" /\ seen[w].slot = "absent" => maker # r
    /\ pc[w] \in {"rb_ledger", "rb_record"} => maker # r
    /\ pc[w] = "rb_record" => InLedger(r, "ROLLBACK_APPLIED")
    /\ pc[w] \in {"remember", "settle"} /\ outcome[w] = "ROLLED_BACK" => rollback[r] = "ROLLED_BACK"

\* The invariant that is inductive together with IInv
JInv ==
    /\ IInv
    /\ MakerExists
    /\ \A r \in Runs : Story(r) /\ RollbackRecord(r)
    /\ \A w \in Workers : Standing(w)
    /\ LedgerOrdered
    /\ RolledBackTruth

-----------------------------------------------------------------------------
(* Who writes what *)

\* The ledger grows by one event of the worker's run, at three points.
Entry(w, point, event) ==
    pc[w] = point /\ ledger' = Append(ledger, <<run[w], event>>)

\* _append_intent, _append_applied and _finalize_record are all that write to the ledger.
LEMMA LedgerMoves ==
    ASSUME NEW w \in Workers, work(w)
    PROVE  \/ ledger' = ledger
           \/ Entry(w, "ledger_intent", "DEPLOYMENT_INTENT")
           \/ Entry(w, "ledger_applied", "DEPLOYMENT_APPLIED")
           \/ Entry(w, "rb_ledger", "ROLLBACK_APPLIED") /\ ~InLedger(run[w], "ROLLBACK_APPLIED")
    BY DEF work, deploy_for_run, rollback_for_run, step, load, acquire, inspect, intent, begin,
           reconcile, journal, ledger_intent, execute, observe, create, confirm, verify, mark,
           ledger_applied, finish, to_monitoring, collect, rb_lookup, rb_acquire, rb_inspect,
           rb_decide, rb_block, rb_intent, drop, rb_check, rb_ledger, rb_record, remember, settle,
           AppendLedger, SetRecovery, RecordOutcome, Entry, Abort, db

\* _intent and _mark_applied are all that write the artifact's status, and never with an entry.
LEMMA ArtifactMoves ==
    ASSUME NEW w \in Workers, work(w)
    PROVE  artifact' = artifact \/ (intent(w) /\ ledger' = ledger) \/ (mark(w) /\ ledger' = ledger)
    BY DEF work, deploy_for_run, rollback_for_run, step, load, acquire, inspect, intent, begin,
           reconcile, journal, ledger_intent, execute, observe, create, confirm, verify, mark,
           ledger_applied, finish, to_monitoring, collect, rb_lookup, rb_acquire, rb_inspect,
           rb_decide, rb_block, rb_intent, drop, rb_check, rb_ledger, rb_record, remember, settle,
           AppendLedger, SetRecovery, RecordOutcome, Abort, db

\* _record is all that writes the rollback record.
LEMMA RecordMoves ==
    ASSUME NEW w \in Workers, work(w)
    PROVE  UNCHANGED <<rollback, expected_after>> \/ rb_block(w) \/ rb_intent(w) \/ rb_record(w)
    BY DEF work, deploy_for_run, rollback_for_run, step, load, acquire, inspect, intent, begin,
           reconcile, journal, ledger_intent, execute, observe, create, confirm, verify, mark,
           ledger_applied, finish, to_monitoring, collect, rb_lookup, rb_acquire, rb_inspect,
           rb_decide, drop, rb_check, rb_ledger, remember, settle,
           AppendLedger, SetRecovery, Abort, db

\* create and drop are all that write to the target.
LEMMA TargetMoves ==
    ASSUME NEW w \in Workers, work(w)
    PROVE  UNCHANGED <<slot, maker, creates>> \/ create(w) \/ drop(w)
    BY DEF work, deploy_for_run, rollback_for_run, step, load, acquire, inspect, intent, begin,
           reconcile, journal, ledger_intent, execute, observe, confirm, verify, mark,
           ledger_applied, finish, to_monitoring, collect, rb_lookup, rb_acquire, rb_inspect,
           rb_decide, rb_block, rb_intent, rb_check, rb_ledger, rb_record, remember, settle,
           AppendLedger, SetRecovery, RecordOutcome, Abort, Leave, mongo

\* What a worker keeps in bound_status and outcome is its own.
LEMMA OwnNotes ==
    ASSUME IInv, NEW w \in Workers, work(w)
    PROVE  /\ bound_status' = [bound_status EXCEPT ![w] = bound_status'[w]]
           /\ outcome' = [outcome EXCEPT ![w] = outcome'[w]]
<1> USE DEF IInv, TypeOK, NoteTypes
<1>1. CASE Leave(w)
    BY <1>1 DEF Leave, Forget
<1>2. CASE UNCHANGED <<bound_status, outcome>>
    BY <1>2
<1>3. CASE load(w)
    BY <1>1, <1>3 DEF load, Abort
<1>4. CASE collect(w)
    BY <1>1, <1>2, <1>4 DEF collect, Conclude, Abort, Stay, notes
<1>5. CASE rb_lookup(w) \/ rb_acquire(w)
    BY <1>5 DEF rb_lookup, rb_acquire, Conclude
<1>6. CASE rb_block(w) \/ rb_record(w)
    BY <1>1, <1>6 DEF rb_block, rb_record, RecordOutcome, Conclude, Abort
<1> QED
    BY <1>1, <1>2, <1>3, <1>4, <1>5, <1>6
       DEF work, deploy_for_run, rollback_for_run, step, acquire, inspect, intent, begin,
           reconcile, journal, ledger_intent, execute, observe, create, confirm, verify, mark,
           ledger_applied, finish, to_monitoring, rb_inspect, rb_decide, rb_intent, drop, rb_check,
           rb_ledger, remember, settle, ReadState, AppendLedger, SetRecovery, Abort, Stay, notes

\* An entry is added to those that are there.
LEMMA AppendAdds ==
    ASSUME TypeOK, NEW q \in Runs, NEW e \in Events, ledger' = Append(ledger, <<q, e>>), NEW r, NEW event
    PROVE  InLedger(r, event)' <=> InLedger(r, event) \/ (r = q /\ event = e)
<1>1. ledger \in Seq(Runs \X Events) /\ <<q, e>> \in Runs \X Events
    BY DEF TypeOK, DatabaseTypes
<1>2. /\ Len(ledger') = Len(ledger) + 1 /\ ledger'[Len(ledger) + 1] = <<q, e>>
      /\ \A i \in 1..Len(ledger) : ledger'[i] = ledger[i]
      /\ DOMAIN ledger = 1..Len(ledger) /\ DOMAIN ledger' = 1..(Len(ledger) + 1) /\ Len(ledger) \in Nat
    BY <1>1
<1>3. InLedger(r, event)' <=> \E i \in 1..(Len(ledger) + 1) : ledger'[i] = <<r, event>>
    BY <1>2 DEF InLedger
<1>4. \A i : i \in 1..(Len(ledger) + 1) <=> i \in 1..Len(ledger) \/ i = Len(ledger) + 1
    BY <1>2
<1>5. InLedger(r, event) <=> \E i \in 1..Len(ledger) : ledger'[i] = <<r, event>>
    BY <1>2 DEF InLedger
<1>6. ledger'[Len(ledger) + 1] = <<r, event>> <=> r = q /\ event = e
    BY <1>2
<1> QED
    BY <1>3, <1>4, <1>5, <1>6, Zenon

-----------------------------------------------------------------------------
(* What stays *)

\* A status, an artifact, an entry, a rollback and an index that is gone are not undone.
LEMMA WorkKeeps ==
    ASSUME JInv, NEW w \in Workers, work(w), NEW r \in Runs
    PROVE  /\ run_status[r] # "APPROVED" => run_status'[r] # "APPROVED"
           /\ artifact[r] = "APPLIED" => artifact'[r] = "APPLIED"
           /\ \A event : InLedger(r, event) => InLedger(r, event)'
           /\ rollback[r] = "ROLLED_BACK" => rollback'[r] = "ROLLED_BACK"
           /\ artifact[r] = "APPLIED" /\ maker # r => maker' # r
<1>0. IInv /\ TypeOK /\ DeploymentFooting
    BY DEF JInv, IInv
<1> USE <1>0
<1>1. run_status[r] # "APPROVED" => run_status'[r] # "APPROVED"
    BY StatusMoves DEF Outcomes
<1>2. artifact[r] = "APPLIED" => artifact'[r] = "APPLIED"
    BY EvidenceStep DEF IInv, AppliedEvidence, Evidence
<1>3. ASSUME NEW event, InLedger(r, event) PROVE InLedger(r, event)'
    <2>1. CASE ledger' = ledger
        BY <1>3, <2>1 DEF InLedger
    <2>2. CASE \E e \in Events : ledger' = Append(ledger, <<run[w], e>>)
        BY <1>3, <2>2, AppendAdds DEF TypeOK, WorkerTypes
    <2> QED
        BY <2>1, <2>2, LedgerMoves DEF Entry, Events
<1>4. rollback[r] = "ROLLED_BACK" => rollback'[r] = "ROLLED_BACK"
    BY RecordMoves DEF rb_block, rb_intent, rb_record, RecordOutcome, CanRecord, Abort, db, TypeOK, DatabaseTypes
<1>5. ASSUME artifact[r] = "APPLIED", maker # r PROVE maker' # r
    <2>1. CASE create(w)
        <3>1. artifact[run[w]] = "INTENT_RECORDED"
            BY <2>1 DEF create, DeploymentFooting, Footing, Unapplied
        <3> QED
            BY <1>5, <2>1, <3>1 DEF create, Abort, mongo
    <2>2. CASE drop(w)
        BY <1>5, <2>2, DeploymentConstants DEF drop, Abort, mongo
    <2> QED
        BY <1>5, <2>1, <2>2, TargetMoves
<1> QED
    BY <1>1, <1>2, <1>3, <1>4, <1>5

\* The ledger and the artifacts agree after every step of a worker.
LEMMA StoryStep ==
    ASSUME JInv, NEW w \in Workers, work(w), NEW r \in Runs
    PROVE  Story(r)'
<1>0. TypeOK /\ IInv /\ Story(r) /\ Footing(w) /\ Standing(w) /\ run[w] \in Runs
    BY DEF JInv, IInv, DeploymentFooting, TypeOK, WorkerTypes
<1>1. CASE artifact' = artifact /\ ledger' = ledger
    BY <1>0, <1>1 DEF Story, InLedger
<1>2. CASE artifact' # artifact
    <2>1. ledger' = ledger /\ (artifact'[r] = artifact[r] \/ (r = run[w] /\ artifact'[r] = "INTENT_RECORDED" /\ intent(w))
                                 \/ (artifact'[r] = "APPLIED"))
        BY <1>0, <1>2, ArtifactMoves DEF intent, mark, TypeOK, DatabaseTypes
    <2>2. \A event : InLedger(r, event)' <=> InLedger(r, event)
        BY <2>1 DEF InLedger
    <2>3. CASE artifact'[r] = artifact[r] \/ artifact'[r] = "APPLIED"
        BY <1>0, <2>2, <2>3 DEF Story
    <2>4. CASE r = run[w] /\ artifact'[r] = "INTENT_RECORDED" /\ intent(w)
        <3>1. artifact[r] # "APPLIED"
            BY <1>0, <2>4 DEF intent, TypeOK, DatabaseTypes
        <3> QED
            BY <1>0, <2>2, <2>4, <3>1 DEF Story
    <2> QED
        BY <2>1, <2>3, <2>4
<1>3. ASSUME NEW e \in Events, ledger' = Append(ledger, <<run[w], e>>), artifact' = artifact,
             pc[w] \in {"ledger_applied", "rb_ledger"} \/ (e = "DEPLOYMENT_INTENT" /\ pc[w] = "ledger_intent")
      PROVE  Story(r)'
    <2>1. \A event : InLedger(r, event)' <=> InLedger(r, event) \/ (r = run[w] /\ event = e)
        BY <1>0, <1>3, AppendAdds
    <2>2. CASE r # run[w]
        BY <1>0, <1>3, <2>1, <2>2 DEF Story
    <2>3. CASE r = run[w] /\ pc[w] = "ledger_intent"
        <3>1. artifact[r] = "INTENT_RECORDED"
            BY <1>0, <2>3 DEF Footing, Unapplied
        <3> QED
            BY <1>0, <1>3, <2>1, <2>3, <3>1 DEF Story
    <2>4. CASE r = run[w] /\ pc[w] \in {"ledger_applied", "rb_ledger"}
        <3>1. artifact[r] = "APPLIED"
            BY <1>0, <2>4 DEF Footing, Standing, Judging
        <3> QED
            BY <1>3, <3>1 DEF Story
    <2> QED
        BY <1>3, <2>2, <2>3, <2>4
<1>4. CASE artifact' = artifact /\ ledger' # ledger
    <2>1. CASE Entry(w, "ledger_intent", "DEPLOYMENT_INTENT")
        BY <1>3, <1>4, <2>1 DEF Entry, Events
    <2>2. CASE Entry(w, "ledger_applied", "DEPLOYMENT_APPLIED")
        BY <1>3, <1>4, <2>2 DEF Entry, Events
    <2>3. CASE Entry(w, "rb_ledger", "ROLLBACK_APPLIED")
        BY <1>3, <1>4, <2>3 DEF Entry, Events
    <2> QED
        BY <1>4, <2>1, <2>2, <2>3, LedgerMoves
<1> QED
    BY <1>1, <1>2, <1>4

\* A rollback record goes on standing for what it says.
LEMMA RecordStep ==
    ASSUME JInv, NEW w \in Workers, work(w), NEW r \in Runs
    PROVE  RollbackRecord(r)'
<1>0. TypeOK /\ RollbackRecord(r) /\ Footing(w) /\ Standing(w) /\ run[w] \in Runs
    BY DEF JInv, IInv, DeploymentFooting, TypeOK, WorkerTypes
<1>1. /\ artifact[r] = "APPLIED" => artifact'[r] = "APPLIED"
      /\ \A event : InLedger(r, event) => InLedger(r, event)'
      /\ artifact[r] = "APPLIED" /\ maker # r => maker' # r
    BY WorkKeeps
<1>2. CASE rollback'[r] = rollback[r] /\ expected_after'[r] = expected_after[r]
    BY <1>0, <1>1, <1>2 DEF RollbackRecord
<1>3. CASE r # run[w]
    <2>1. rollback'[r] = rollback[r] /\ expected_after'[r] = expected_after[r]
        BY <1>0, <1>3, RecordMoves DEF rb_block, rb_intent, rb_record, RecordOutcome, Abort, db, TypeOK, DatabaseTypes
    <2> QED
        BY <1>2, <2>1
<1>4. CASE r = run[w] /\ rb_block(w)
    <2>1. artifact[r] = "APPLIED"
        BY <1>0, <1>4 DEF rb_block, Standing, Judging
    <2>2. CASE Abort(w)
        BY <1>2, <2>2 DEF Abort, db
    <2>3. CASE rollback'[r] = "ROLLBACK_BLOCKED"
        BY <1>1, <2>1, <2>3 DEF RollbackRecord
    <2> QED
        BY <1>0, <1>4, <2>2, <2>3 DEF rb_block, RecordOutcome, TypeOK, DatabaseTypes
<1>5. CASE r = run[w] /\ rb_record(w)
    <2>1. artifact[r] = "APPLIED" /\ InLedger(r, "ROLLBACK_APPLIED") /\ maker # r
        BY <1>0, <1>5 DEF rb_record, Standing, Judging
    <2>2. CASE Abort(w)
        BY <1>2, <2>2 DEF Abort, db
    <2>3. CASE rollback'[r] = "ROLLED_BACK"
        BY <1>1, <2>1, <2>3 DEF RollbackRecord
    <2> QED
        BY <1>0, <1>5, <2>2, <2>3 DEF rb_record, RecordOutcome, TypeOK, DatabaseTypes
<1>6. CASE r = run[w] /\ rb_intent(w)
    <2>1. artifact[r] = "APPLIED"
        BY <1>0, <1>6 DEF rb_intent, Standing, Judging
    <2>2. CASE Abort(w)
        BY <1>2, <2>2 DEF Abort, db
    <2>3. CASE ~Abort(w)
        <3>1. /\ rollback'[r] = "INTENT_RECORDED" /\ rollback[r] \in {"NONE", "INTENT_RECORDED"}
              /\ expected_after'[r] = IF rollback[r] = "NONE" THEN Without(seen[w]) ELSE expected_after[r]
            BY <1>0, <1>6, <2>3 DEF rb_intent, CanRecord, TypeOK, DatabaseTypes
        <3>2. expected_after'[r].slot = "absent"
            BY <1>0, <3>1 DEF RollbackRecord, Without
        <3> QED
            BY <1>1, <2>1, <3>1, <3>2 DEF RollbackRecord
    <2> QED
        BY <2>2, <2>3
<1> QED
    BY <1>2, <1>3, <1>4, <1>5, <1>6, RecordMoves

\* No event of a run is entered twice or after a later one.
LEMMA OrderStep ==
    ASSUME JInv, NEW w \in Workers, work(w)
    PROVE  LedgerOrdered'
<1>0. TypeOK /\ LedgerOrdered /\ Footing(w) /\ Standing(w) /\ run[w] \in Runs /\ ledger \in Seq(Runs \X Events)
    BY DEF JInv, IInv, DeploymentFooting, TypeOK, WorkerTypes, DatabaseTypes
<1>1. CASE ledger' = ledger
    BY <1>0, <1>1 DEF LedgerOrdered
<1>2. ASSUME NEW e \in Events, ledger' = Append(ledger, <<run[w], e>>),
             \A event \in Events : InLedger(run[w], event) => Rank(event) < Rank(e)
      PROVE  LedgerOrdered'
    <2> SUFFICES ASSUME NEW i \in DOMAIN ledger', NEW j \in DOMAIN ledger', i < j, ledger'[i][1] = ledger'[j][1]
                 PROVE  Rank(ledger'[i][2]) < Rank(ledger'[j][2])
        BY DEF LedgerOrdered
    <2>1. /\ DOMAIN ledger = 1..Len(ledger) /\ DOMAIN ledger' = 1..(Len(ledger) + 1) /\ Len(ledger) \in Nat
          /\ ledger'[Len(ledger) + 1] = <<run[w], e>>
          /\ \A k \in 1..Len(ledger) : ledger'[k] = ledger[k]
        BY <1>0, <1>2
    <2>2. i \in DOMAIN ledger /\ ledger'[i] = ledger[i]
        BY <2>1
    <2>3. CASE j \in DOMAIN ledger
        BY <1>0, <2>1, <2>2, <2>3 DEF LedgerOrdered
    <2>4. CASE j = Len(ledger) + 1
        <3>1. ledger[i] \in Runs \X Events
            BY <1>0, <2>2
        <3>2. ledger[i] = <<run[w], ledger[i][2]>> /\ ledger[i][2] \in Events
            BY <2>1, <2>2, <2>4, <3>1
        <3>3. InLedger(run[w], ledger[i][2])
            BY <2>2, <3>2 DEF InLedger
        <3> QED
            BY <1>2, <2>1, <2>2, <2>4, <3>2, <3>3
    <2> QED
        BY <2>1, <2>3, <2>4
<1>3. CASE Entry(w, "ledger_intent", "DEPLOYMENT_INTENT")
    <2>1. \A event \in Events : ~InLedger(run[w], event)
        BY <1>0, <1>3 DEF Entry, Standing
    <2> QED
        BY <1>2, <1>3, <2>1 DEF Entry, Events
<1>4. CASE Entry(w, "ledger_applied", "DEPLOYMENT_APPLIED")
    <2>1. ~InLedger(run[w], "DEPLOYMENT_APPLIED") /\ ~InLedger(run[w], "ROLLBACK_APPLIED")
        BY <1>0, <1>4 DEF Entry, Standing
    <2> QED
        BY <1>2, <1>4, <2>1 DEF Entry, Events, Rank
<1>5. CASE Entry(w, "rb_ledger", "ROLLBACK_APPLIED") /\ ~InLedger(run[w], "ROLLBACK_APPLIED")
    BY <1>2, <1>5 DEF Entry, Events, Rank
<1> QED
    BY <1>1, <1>3, <1>4, <1>5, LedgerMoves

-----------------------------------------------------------------------------
(* Where the workers stand *)

\* The points at which a worker relies on something
Relying ==
    {"acquire", "inspect", "intent", "begin", "ledger_applied"} \cup Judging \cup Unapplied

\* The standing of the worker that deploys
LEMMA DeployStanding ==
    ASSUME JInv, NEW w \in Workers, deploy_for_run(w) \/ step(w) \/ to_monitoring(w)
    PROVE  Standing(w)'
<1>0. IInv /\ TypeOK /\ Footing(w) /\ Standing(w) /\ run[w] \in Runs /\ Story(run[w])
    BY DEF JInv, IInv, DeploymentFooting, TypeOK, WorkerTypes
<1>1. work(w)
    BY DEF work
<1>2. run'[w] = run[w]
    BY <1>0, <1>1, WorkShape DEF Local
<1>3. CASE pc'[w] \notin Relying
    BY <1>3 DEF Standing, Relying, Judging, Unapplied
<1>4. Goto(w, "idle") => pc'[w] \notin Relying
    BY <1>0 DEF Goto, TypeOK, WorkerTypes, Relying, Judging, Unapplied
<1> USE <1>0, <1>2 DEF TypeOK, WorkerTypes, NoteTypes, DatabaseTypes, Standing, Goto, Judging, Unapplied, InLedger
<1>5. CASE step(w)
    <2>1. CASE Abort(w)
        BY <1>3, <1>4, <2>1 DEF Abort, Leave
    <2>2. CASE ~Abort(w)
        <3>1. pc'[w] = Stage(run_status[run[w]]) /\ artifact' = artifact /\ run_status[run[w]] \notin Terminal
            BY <1>5, <2>2 DEF step, db
        <3>2. pc'[w] = "collect" => artifact[run[w]] = "APPLIED"
            BY <3>1 DEF Stage, IInv, LateStatus, DeployedEvidence, Terminal
        <3> QED
            BY <3>1, <3>2 DEF Stage
    <2> QED
        BY <2>1, <2>2
<1>6. CASE load(w)
    BY <1>3, <1>4, <1>6 DEF load, Abort, Leave, db
<1>7. CASE acquire(w)
    BY <1>3, <1>4, <1>7 DEF acquire, Abort, Leave, db, notes
<1>8. CASE inspect(w)
    BY <1>3, <1>4, <1>8 DEF inspect, ReadState, Abort, Leave, db
<1>9. CASE intent(w)
    <2>1. pc'[w] = "begin" /\ bound_status' = bound_status /\ run_status' = run_status /\ ledger' = ledger
        BY <1>9 DEF intent
    <2>2. seen_artifact'[w] = "CREATED" => artifact[run[w]] = "NONE"
        BY <1>9 DEF intent
    <2> QED
        BY <1>9, <2>1, <2>2 DEF Story, intent
<1>10. CASE begin(w)
    <2>1. CASE Abort(w)
        BY <1>3, <1>4, <2>1 DEF Abort, Leave
    <2>2. CASE ~Abort(w)
        <3>1. pc'[w] \in {"reconcile", "journal"} /\ ledger' = ledger /\ seen_artifact' = seen_artifact /\ pc[w] = "begin"
            BY <1>10, <2>2 DEF begin, Stay, notes, db
        <3>2. run_status'[run[w]] # "APPROVED"
            BY <1>10, <2>2 DEF begin, SetStatus, Stay, db
        <3> QED
            BY <3>1, <3>2
    <2> QED
        BY <2>1, <2>2
<1>11. CASE reconcile(w) \/ finish(w) \/ to_monitoring(w)
    <2>1. pc'[w] \in {"idle", "step"}
        BY <1>11 DEF reconcile, finish, to_monitoring, Abort, Leave
    <2> QED
        BY <1>3, <2>1 DEF Relying
<1>12. CASE journal(w)
    BY <1>12 DEF journal, Stay, notes
<1>13. CASE ledger_intent(w)
    BY <1>13 DEF ledger_intent, AppendLedger
<1>14. CASE execute(w)
    BY <1>3, <1>4, <1>14 DEF execute, SetRecovery, Abort, Leave, db
<1>15. CASE observe(w)
    BY <1>15 DEF observe, db
<1>16. CASE create(w)
    BY <1>3, <1>4, <1>16 DEF create, Abort, Leave, db
<1>17. CASE confirm(w)
    BY <1>17 DEF confirm, SetRecovery
<1>18. CASE verify(w)
    BY <1>3, <1>4, <1>18 DEF verify, Abort, Leave, db
<1>19. CASE mark(w)
    <2>1. pc'[w] = "ledger_applied" /\ ledger' = ledger /\ artifact[run[w]] = "INTENT_RECORDED"
        BY <1>19 DEF mark, Footing
    <2> QED
        BY <2>1 DEF Story
<1>20. CASE ledger_applied(w)
    BY <1>3, <1>20 DEF ledger_applied, Relying
<1> QED
    BY <1>5, <1>6, <1>7, <1>8, <1>9, <1>10, <1>11, <1>12, <1>13, <1>14, <1>15, <1>16, <1>17, <1>18,
       <1>19, <1>20 DEF deploy_for_run

\* _finalize_record's entry is in the ledger once it has run.
LEMMA LedgerGetsRollback ==
    ASSUME JInv, NEW w \in Workers, rb_ledger(w)
    PROVE  InLedger(run[w], "ROLLBACK_APPLIED")'
<1>0. TypeOK /\ run[w] \in Runs /\ "ROLLBACK_APPLIED" \in Events
    BY DEF JInv, IInv, TypeOK, WorkerTypes, Events
<1>1. run' = run
    BY DEF rb_ledger, AppendLedger, Stay, notes
<1>2. PICK r \in Runs : r = run[w]
    BY <1>0
<1>3. CASE InLedger(r, "ROLLBACK_APPLIED")
    <2>1. ledger' = ledger
        BY <1>2, <1>3 DEF rb_ledger, db
    <2> QED
        BY <1>1, <1>2, <1>3, <2>1 DEF InLedger
<1>4. CASE ~InLedger(r, "ROLLBACK_APPLIED")
    <2>1. ledger' = Append(ledger, <<r, "ROLLBACK_APPLIED">>)
        BY <1>2, <1>4 DEF rb_ledger, AppendLedger
    <2>2. InLedger(r, "ROLLBACK_APPLIED")'
        BY <1>0, <2>1, AppendAdds
    <2> QED
        BY <1>1, <1>2, <2>2 DEF InLedger
<1> QED
    BY <1>3, <1>4

\* The standing of the worker that judges a deployment and takes it back
LEMMA RollbackStanding ==
    ASSUME JInv, NEW w \in Workers, rollback_for_run(w) \/ collect(w) \/ remember(w) \/ settle(w)
    PROVE  Standing(w)'
<1>0. /\ IInv /\ TypeOK /\ Footing(w) /\ Standing(w) /\ run[w] \in Runs /\ RollbackRecord(run[w])
      /\ MakerExists
    BY DEF JInv, IInv, DeploymentFooting, TypeOK, WorkerTypes
<1>1. work(w)
    BY DEF work
<1>2. run'[w] = run[w]
    BY <1>0, <1>1, WorkShape DEF Local
<1>3. artifact[run[w]] = "APPLIED" /\ artifact'[run[w]] = "APPLIED"
    <2>1. artifact[run[w]] = "APPLIED"
        BY <1>0 DEF Standing, Judging, rollback_for_run, rb_lookup, rb_acquire, rb_inspect, rb_decide, rb_block,
                    rb_intent, drop, rb_check, rb_ledger, rb_record, collect, remember, settle
    <2> QED
        BY <1>0, <1>1, <2>1, WorkKeeps
<1>4. maker # run[w] => maker' # run[w]
    BY <1>0, <1>1, <1>3, WorkKeeps
<1> DEFINE Own ==
             /\ pc'[w] \in Judging \cup {"idle", "step"}
             /\ pc'[w] = "rb_decide" /\ seen'[w].slot = "absent" => maker' # run[w]
             /\ pc'[w] \in {"rb_ledger", "rb_record"} => maker' # run[w]
             /\ pc'[w] = "rb_record" => InLedger(run[w], "ROLLBACK_APPLIED")'
             /\ pc'[w] \in {"remember", "settle"} /\ outcome'[w] = "ROLLED_BACK" => rollback'[run[w]] = "ROLLED_BACK"
<1>5. Own => Standing(w)'
    BY <1>2, <1>3 DEF Standing, Judging, Unapplied, InLedger
<1>6. slot = "absent" => maker # run[w]
    BY <1>0, DeploymentConstants DEF MakerExists
<1> USE <1>0 DEF TypeOK, WorkerTypes, NoteTypes, DatabaseTypes, Standing, Goto, Judging
<1>7. CASE collect(w)
    BY <1>5, <1>7 DEF collect, Conclude, Abort, Leave
<1>8. CASE remember(w) \/ settle(w)
    BY <1>5, <1>8 DEF remember, settle, Stay, notes, Abort, Leave
<1>9. CASE rb_lookup(w)
    BY <1>5, <1>9 DEF rb_lookup, Conclude, db
<1>10. CASE rb_acquire(w)
    BY <1>5, <1>10 DEF rb_acquire, Conclude
<1>11. CASE rb_inspect(w)
    <2>1. pc'[w] = "rb_decide" /\ seen'[w].slot = slot
        BY <1>11 DEF rb_inspect, ReadState, Current
    <2> QED
        BY <1>4, <1>5, <1>6, <2>1
<1>12. CASE rb_decide(w)
    <2>1. pc'[w] \in {"rb_ledger", "rb_intent", "rb_block"}
        BY <1>12 DEF rb_decide
    <2>2. pc'[w] = "rb_ledger" => maker # run[w]
        BY <1>12 DEF rb_decide, RollbackRecord
    <2> QED
        BY <1>4, <1>5, <2>1, <2>2
<1>13. CASE rb_block(w)
    BY <1>5, <1>13 DEF rb_block, RecordOutcome, Conclude, Abort, Leave
<1>14. CASE rb_intent(w)
    BY <1>5, <1>14 DEF rb_intent, Abort, Leave
<1>15. CASE drop(w)
    BY <1>5, <1>15 DEF drop, Abort, Leave
<1>16. CASE rb_check(w)
    <2>1. pc'[w] \in {"rb_ledger", "rb_block"}
        BY <1>16 DEF rb_check
    <2>2. pc'[w] = "rb_ledger" => slot = "absent"
        BY <1>16 DEF rb_check, Current, Without
    <2> QED
        BY <1>4, <1>5, <1>6, <2>1, <2>2
<1>17. CASE rb_ledger(w)
    <2>1. pc[w] = "rb_ledger" /\ pc'[w] = "rb_record"
        BY <1>17 DEF rb_ledger
    <2>2. run'[w] = run[w] /\ InLedger(run[w], "ROLLBACK_APPLIED")'
        BY <1>2, <1>17, LedgerGetsRollback
    <2> QED
        BY <1>4, <1>5, <2>1, <2>2
<1>18. CASE rb_record(w)
    BY <1>5, <1>18 DEF rb_record, RecordOutcome, Conclude, Abort, Leave
<1> QED
    BY <1>7, <1>8, <1>9, <1>10, <1>11, <1>12, <1>13, <1>14, <1>15, <1>16, <1>17, <1>18 DEF rollback_for_run

\* The others keep theirs: what they rely on stays, or only the holder of the lock can change it.
LEMMA StandingStep ==
    ASSUME JInv, NEW w \in Workers, work(w), NEW v \in Workers
    PROVE  Standing(v)'
<1>0. IInv /\ TypeOK /\ Standing(v) /\ run[v] \in Runs
    BY DEF JInv, IInv, TypeOK, WorkerTypes
<1>1. CASE v = w
    BY <1>1, DeployStanding, RollbackStanding DEF work
<1>2. CASE v # w
    <2>1. Local(w) /\ Quiet(w)
        BY <1>0, WorkShape
    <2>2. /\ pc'[v] = pc[v] /\ run'[v] = run[v] /\ seen'[v] = seen[v] /\ seen_artifact'[v] = seen_artifact[v]
          /\ bound_status'[v] = bound_status[v] /\ outcome'[v] = outcome[v]
        BY <1>0, <1>2, <2>1, OwnNotes DEF Local, TypeOK, WorkerTypes, NoteTypes
    <2>3. pc[v] \in Locked => pc[w] \notin Locked
        BY <1>0, <1>2 DEF IInv, TargetExclusion
    <2>4. pc[v] \in Locked => recovery' = recovery /\ ledger' = ledger
        BY <2>1, <2>3, LedgerMoves DEF Quiet, Entry, Locked
    <2>5. PICK r \in Runs : r = run[v]
        BY <1>0
    <2>6. /\ run_status[r] # "APPROVED" => run_status'[r] # "APPROVED"
          /\ artifact[r] = "APPLIED" => artifact'[r] = "APPLIED"
          /\ InLedger(r, "ROLLBACK_APPLIED") => InLedger(r, "ROLLBACK_APPLIED")'
          /\ rollback[r] = "ROLLED_BACK" => rollback'[r] = "ROLLED_BACK"
          /\ artifact[r] = "APPLIED" /\ maker # r => maker' # r
        BY <2>5, WorkKeeps
    <2>7. pc[v] \in Locked => \A event : InLedger(r, event)' <=> InLedger(r, event)
        BY <2>4 DEF InLedger
    <2>8. r = run[v] /\ r = run'[v]
        BY <2>2, <2>5
    <2> QED
        BY <1>0, <2>2, <2>4, <2>5, <2>6, <2>7, <2>8 DEF Standing, Judging, Unapplied, Locked, InLedger
<1> QED
    BY <1>1, <1>2

-----------------------------------------------------------------------------
(* The invariant and the theorems *)

\* A run that ends ROLLED_BACK has what its worker knew when it settled.
LEMMA TruthStep ==
    ASSUME JInv, NEW w \in Workers, work(w)
    PROVE  RolledBackTruth'
<1> SUFFICES ASSUME NEW r \in Runs, run_status'[r] = "ROLLED_BACK"
             PROVE  rollback'[r] = "ROLLED_BACK" /\ InLedger(r, "ROLLBACK_APPLIED")' /\ maker' # r
    BY DEF RolledBackTruth, InLedger
<1>0. /\ IInv /\ TypeOK /\ Standing(w) /\ run[w] \in Runs /\ RollbackRecord(r) /\ RolledBackTruth
    BY DEF JInv, IInv, TypeOK, WorkerTypes
<1>1. rollback[r] = "ROLLED_BACK"
    <2>1. CASE run_status[r] = "ROLLED_BACK"
        BY <1>0, <2>1 DEF RolledBackTruth
    <2>2. CASE run_status[r] # "ROLLED_BACK"
        <3>1. settle(w)
            <4>1. run_status' # run_status
                BY <2>2
            <4>2. \/ begin(w) \/ reconcile(w) \/ finish(w) \/ to_monitoring(w) \/ settle(w)
                BY <4>1 DEF work, deploy_for_run, rollback_for_run, step, load, acquire, inspect,
                       intent, journal, ledger_intent, execute, observe, create, confirm, verify,
                       mark, ledger_applied, collect, rb_lookup, rb_acquire, rb_inspect, rb_decide,
                       rb_block, rb_intent, drop, rb_check, rb_ledger, rb_record, remember,
                       AppendLedger, SetRecovery, RecordOutcome, Abort, db
            <4>3. ~begin(w) /\ ~reconcile(w) /\ ~finish(w) /\ ~to_monitoring(w)
                BY <1>0, <2>2 DEF begin, reconcile, finish, to_monitoring, SetStatus, Abort, db, TypeOK,
                       DatabaseTypes
            <4> QED
                BY <4>2, <4>3
        <3>2. pc[w] = "settle" /\ r = run[w] /\ outcome[w] = "ROLLED_BACK"
            BY <1>0, <2>2, <3>1 DEF settle, SetStatus, Abort, db, TypeOK, DatabaseTypes
        <3> QED
            BY <1>0, <3>2 DEF Standing
    <2> QED
        BY <2>1, <2>2
<1>2. artifact[r] = "APPLIED" /\ InLedger(r, "ROLLBACK_APPLIED") /\ maker # r
    BY <1>0, <1>1 DEF RollbackRecord
<1> QED
    BY <1>0, <1>1, <1>2, WorkKeeps

\* create makes the index and its maker, and drop removes both.
LEMMA MakerStep ==
    ASSUME JInv, NEW w \in Workers, work(w)
    PROVE  MakerExists'
    BY TargetMoves DEF JInv, MakerExists, create, drop, Abort, mongo

\* The invariant survives every step.
LEMMA JInvStep ==
    ASSUME JInv, [Next]_vars
    PROVE  JInv'
<1>0. IInv /\ TypeOK /\ IInv' /\ run \in [Workers -> Runs]
    BY TypeStep, ExclusionStep, StatusStep DEF JInv, IInv, TypeOK, WorkerTypes
<1>1. ASSUME NEW w \in Workers, work(w) PROVE JInv'
    BY <1>0, <1>1, MakerStep, StoryStep, RecordStep, StandingStep, OrderStep, TruthStep DEF JInv
<1>2. ASSUME UNCHANGED <<run_status, artifact, recovery, rollback, expected_after, ledger>>,
             MakerExists', \A r \in Runs : maker # r => maker' # r,
             \A v \in Workers :
                 \/ pc'[v] \in {"idle", "step"}
                 \/ /\ pc'[v] = pc[v] /\ run'[v] = run[v] /\ seen'[v] = seen[v]
                    /\ seen_artifact'[v] = seen_artifact[v]
                    /\ bound_status'[v] = bound_status[v] /\ outcome'[v] = outcome[v]
      PROVE  JInv'
    <2>1. \A r, event : InLedger(r, event)' <=> InLedger(r, event)
        BY <1>2 DEF InLedger
    <2>2. ASSUME NEW r \in Runs PROVE Story(r)' /\ RollbackRecord(r)'
        BY <1>2, <2>1 DEF JInv, Story, RollbackRecord
    <2>3. ASSUME NEW v \in Workers PROVE Standing(v)'
        <3>1. CASE pc'[v] \in {"idle", "step"}
            BY <3>1 DEF Standing, Judging, Unapplied
        <3>2. CASE pc'[v] = pc[v] /\ run'[v] = run[v] /\ seen'[v] = seen[v]
                    /\ seen_artifact'[v] = seen_artifact[v]
                    /\ bound_status'[v] = bound_status[v] /\ outcome'[v] = outcome[v]
            <4>1. run[v] \in Runs /\ Standing(v)
                BY <1>0 DEF JInv
            <4> QED
                BY <1>2, <3>2, <4>1 DEF Standing, InLedger
        <3> QED
            BY <1>2, <3>1, <3>2
    <2>4. LedgerOrdered'
        BY <1>2 DEF JInv, LedgerOrdered
    <2>5. RolledBackTruth'
        BY <1>2, <2>1 DEF JInv, RolledBackTruth
    <2> QED
        BY <1>0, <1>2, <2>2, <2>3, <2>4, <2>5 DEF JInv
<1>3. ASSUME UNCHANGED <<slot, maker>> PROVE MakerExists' /\ \A r \in Runs : maker # r => maker' # r
    BY <1>3 DEF JInv, MakerExists
<1>4. ASSUME NEW w \in Workers, NEW r \in Runs, claim(w, r) PROVE JInv'
    BY <1>0, <1>2, <1>3, <1>4 DEF claim, Goto, db, mongo, notes, TypeOK, WorkerTypes, NoteTypes
<1>5. ASSUME NEW w \in Workers, crash(w) PROVE JInv'
    BY <1>0, <1>2, <1>3, <1>5 DEF crash, Goto, Forget, db, mongo, TypeOK, WorkerTypes, NoteTypes
<1>6. ASSUME NEW w \in Workers, notice_loss(w) PROVE JInv'
    BY <1>2, <1>3, <1>6 DEF notice_loss, db, mongo, notes
<1>7. ASSUME NEW r \in Runs, approval_expires(r) PROVE JInv'
    BY <1>2, <1>3, <1>7 DEF approval_expires, mongo, notes
<1>8. CASE reap \/ UNCHANGED vars
    BY <1>2, <1>3, <1>8 DEF reap, vars, db, mongo, notes
<1>9. CASE human_edit
    <2>1. MakerExists' /\ \A r \in Runs : maker # r => maker' # r
        BY <1>3, <1>9, DeploymentConstants DEF human_edit, MakerExists
    <2> QED
        BY <1>2, <1>9, <2>1 DEF human_edit, db, notes
<1> QED
    BY <1>1, <1>4, <1>5, <1>6, <1>7, <1>8, <1>9 DEF Next

\* Nothing is recorded and nobody is inside a stage at the start.
LEMMA InitJInv == Init => JInv
<1> SUFFICES ASSUME Init PROVE JInv
    OBVIOUS
<1>1. MakerExists
    BY DEF Init, MakerExists
<1>2. \A r \in Runs : Story(r) /\ RollbackRecord(r)
    BY DEF Init, Story, RollbackRecord, InLedger
<1>3. \A w \in Workers : Standing(w)
    BY DEF Init, Standing, Judging, Unapplied
<1>4. LedgerOrdered /\ RolledBackTruth
    BY DEF Init, LedgerOrdered, RolledBackTruth
<1> QED
    BY <1>1, <1>2, <1>3, <1>4, InitIInv DEF JInv

\* The inductive invariant holds in every reachable state.
LEMMA JInvariance == Spec => []JInv
    BY InitJInv, JInvStep, PTL DEF Spec

\* _deploy_locked never creates an index for a run that is not DEPLOYING, that recorded it
\* as applied, or that took it back: not for a worker whose lease ran out before the
\* rollback, and not for one that resumes after a crash.
THEOREM NothingRedeployed == Spec => NoRedeploy
<1>1. ASSUME JInv, [Next]_vars, NEW r \in Runs, creates'[r] # creates[r]
      PROVE  /\ run_status[r] = "DEPLOYING"
             /\ artifact[r] = "INTENT_RECORDED"
             /\ recovery[r] = "EXECUTION_STARTED"
             /\ rollback[r] = "NONE"
    <2>0. TypeOK /\ IInv
        BY <1>1 DEF JInv, IInv
    <2>1. PICK w \in Workers : work(w)
        BY <1>1 DEF Next, claim, notice_loss, crash, approval_expires, reap, human_edit, vars
    <2>2. create(w)
        BY <1>1, <2>1, TargetMoves DEF drop, Abort
    <2>3. pc[w] = "create" /\ run[w] = r
        BY <1>1, <2>0, <2>2 DEF create, Abort, TypeOK, DatabaseTypes, TargetTypes, WorkerTypes
    <2>4. artifact[r] = "INTENT_RECORDED" /\ recovery[r] = "EXECUTION_STARTED" /\ run_status[r] # "APPROVED"
        BY <1>1, <2>0, <2>3 DEF JInv, IInv, DeploymentFooting, Footing, Standing, Unapplied
    <2>5. rollback[r] = "NONE"
        BY <1>1, <2>4 DEF JInv, RollbackRecord
    <2>6. run_status[r] = "DEPLOYING"
        BY <2>0, <2>4 DEF IInv, LateStatus, DeployedEvidence
    <2> QED
        BY <2>4, <2>5, <2>6
<1>2. JInv /\ [Next]_vars =>
          [\A r \in Runs :
              creates'[r] # creates[r] =>
                  /\ run_status[r] = "DEPLOYING"
                  /\ artifact[r] = "INTENT_RECORDED"
                  /\ recovery[r] = "EXECUTION_STARTED"
                  /\ rollback[r] = "NONE"]_vars
    BY <1>1
<1> QED
    BY <1>2, JInvariance, PTL DEF Spec, NoRedeploy

\* However often a stage is replayed, the ledger has each event of a run once and no event
\* after a later one.
THEOREM LedgerTellsInOrder == Spec => []LedgerOrdered
<1>1. JInv => LedgerOrdered
    BY DEF JInv
<1> QED
    BY <1>1, JInvariance, PTL

\* A run that ends ROLLED_BACK has its rollback record, its ledger entry and no index of
\* its own left in the target.
THEOREM RollbacksAreTrue == Spec => []RolledBackTruth
<1>1. JInv => RolledBackTruth
    BY DEF JInv
<1> QED
    BY <1>1, JInvariance, PTL
=============================================================================
