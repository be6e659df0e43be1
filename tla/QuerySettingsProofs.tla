------------------------ MODULE QuerySettingsProofs ------------------------
(***************************************************************************)
(* Proofs about QuerySettings for every set of processes, hints and        *)
(* evidence, and every number of calls, crashes and edits; then that the   *)
(* executor of DirectSettings implements AtomicChange, for every set of    *)
(* tasks and actions.                                                      *)
(***************************************************************************)
EXTENDS MCQuerySettings, TLAPS

DeployPoints == {"insert", "set", "observe", "mark"}
RollbackPoints == {"rb_intent", "rb_set", "rb_observe", "rb_mark"}

\* The session of the advisory lock is that of the process that works
Exclusive == \A p \in Processes : pc[p] \notin {"idle", "acquire"} => lock = p

\* A deployment has its row once it is inserted, and a rollback has one to begin with
RowExists ==
    \A p \in Processes :
        /\ pc[p] \in DeployPoints => call[p].op = "deploy"
        /\ pc[p] \in RollbackPoints => call[p].op = "rollback"
        /\ pc[p] \in {"set", "observe", "mark"} => rows[Key(p)] # Absent
        /\ pc[p] # "idle" /\ call[p].op = "rollback" => rows[Key(p)] # Absent

\* What is written into the row was seen, and is the end of the operation
SawItsEnd ==
    \A p \in Processes :
        /\ pc[p] = "mark" => saw[p] = Hint(p)
        /\ pc[p] = "rb_mark" => saw[p] = rows[Key(p)].before

\* _append_once between its query and its insertion
Asked == \A p \in Processes : pc[p] = "append" => ~Contains(ledger, Entry(p))

\* A deployment that made the setting made it the hint of its action
MakersHint == maker \in Keys => hint = maker.action.allowed

\* What a rollback is about to undo is an operator's, nobody's, or the hint of its action
OwnHint ==
    \A p \in Processes :
        pc[p] \in {"rb_intent", "rb_set"} /\ maker \in Keys => maker.action.allowed = Hint(p)

IInv ==
    /\ TypeOK /\ Exclusive /\ RowExists /\ SawItsEnd /\ RowsTellWhatWasSeen
    /\ Asked /\ LedgerOnce /\ SuccessIsLedgered
    /\ MakersHint /\ OwnHint

-----------------------------------------------------------------------------
(* Types *)

\* The initial states satisfy the invariant.
LEMMA InitIInv == Init => IInv
<1> SUFFICES ASSUME Init
             PROVE  IInv
    OBVIOUS
<1>1. PICK k \in Keys : k = CHOOSE m \in Keys : TRUE
  <2>1. PICK a \in Actions, e \in Evidence : TRUE
      BY QuerySettingsConstants
  <2>2. [action |-> a, evidence |-> e] \in Keys
      BY DEF Keys
  <2> QED
      BY <2>2
<1>2. call \in [Processes -> [op : {"deploy", "rollback"}, key : Keys]]
    BY <1>1 DEF Init
<1>3. TypeOK
    BY <1>2, QuerySettingsConstants DEF Init, TypeOK, Settings, Points, Statuses
<1>4. Exclusive /\ SawItsEnd /\ Asked /\ SuccessIsLedgered /\ LedgerOnce /\ OwnHint
    BY DEF Init, Exclusive, SawItsEnd, Asked, SuccessIsLedgered, LedgerOnce, OwnHint
<1>5. RowExists /\ RowsTellWhatWasSeen
    BY DEF Init, RowExists, RowsTellWhatWasSeen, DeployPoints, RollbackPoints
<1>6. MakersHint
    BY QuerySettingsConstants DEF Init, MakersHint
<1> QED
    BY <1>3, <1>4, <1>5, <1>6 DEF IInv

\* A call is for a key, and a row that exists is a record.
LEMMA RecordTypes ==
    ASSUME TypeOK, NEW p \in Processes
    PROVE  /\ Key(p) \in Keys /\ Hint(p) \in Hints
           /\ call[p].op \in {"deploy", "rollback"}
           /\ rows[Key(p)] # Absent => rows[Key(p)] \in Row /\ rows[Key(p)].before \in Settings
           /\ Entry(p) \in Keys \X Events
<1>1. call[p].key \in Keys /\ call[p].op \in {"deploy", "rollback"}
    BY DEF TypeOK
<1>2. Hint(p) \in Hints
  <2>1. Key(p).action \in [allowed : Hints, previous : Settings]
      BY <1>1, QuerySettingsConstants DEF Key, Keys
  <2> QED
      BY <2>1 DEF Hint
<1>3. rows[Key(p)] # Absent => rows[Key(p)] \in Row
    BY <1>1 DEF TypeOK, Key
<1>4. rows[Key(p)] # Absent => rows[Key(p)].before \in Settings
    BY <1>3 DEF Row
<1>5. Entry(p) \in Keys \X Events
    BY <1>1 DEF Entry, Key, Events
<1> QED
    BY <1>1, <1>2, <1>3, <1>4, <1>5 DEF Key

\* _mark writes the status and what was observed, and leaves the state before alone.
LEMMA MarkedRow ==
    ASSUME TypeOK, NEW p \in Processes, rows[Key(p)] # Absent, NEW to \in Statuses, Mark(p, to)
    PROVE  /\ rows' = [rows EXCEPT ![Key(p)] = [status |-> to, before |-> rows[Key(p)].before,
                                                after |-> saw[p]]]
           /\ rows' \in [Keys -> Row \cup {Absent}]
           /\ \A k \in Keys : rows[k] # Absent <=> rows'[k] # Absent
<1>1. Key(p) \in Keys /\ rows[Key(p)] \in Row /\ rows \in [Keys -> Row \cup {Absent}]
    BY RecordTypes DEF TypeOK
<1>2. saw[p] \in Settings
    BY DEF TypeOK
<1>3. rows' = [rows EXCEPT ![Key(p)] = [status |-> to, before |-> rows[Key(p)].before,
                                         after |-> saw[p]]]
    BY <1>1 DEF Mark
<1>4. [status |-> to, before |-> rows[Key(p)].before, after |-> saw[p]] \in Row
    BY <1>1, <1>2 DEF Row
<1> QED
    BY <1>1, <1>3, <1>4, QuerySettingsConstants

\* Where deploy's reading leads, and from which row and setting
LEMMA ReadForDeploy ==
    ASSUME TypeOK, NEW p \in Processes, deploy_read(p)
    PROVE  /\ pc[p] = "read" /\ call[p].op = "deploy"
           /\ saw' = [saw EXCEPT ![p] = hint]
           /\ \E next \in {"insert", "check", "mark", "set"} :
                 /\ Local(p, next)
                 /\ next # "insert" => rows[Key(p)] # Absent
                 /\ next = "mark" => hint = Hint(p)
           /\ UNCHANGED <<hint, rows, ledger, maker, replaced>>
    BY DEF deploy_read, DeployBranch

\* Where rollback's reading leads
LEMMA ReadForRollback ==
    ASSUME TypeOK, NEW p \in Processes, rb_read(p)
    PROVE  /\ pc[p] = "read" /\ call[p].op = "rollback"
           /\ saw' = [saw EXCEPT ![p] = hint]
           /\ \E next \in {"check", "rb_mark", "rb_intent"} :
                 /\ Local(p, next)
                 /\ next = "rb_mark" => hint = rows[Key(p)].before
                 /\ next = "rb_intent" => hint = Hint(p)
           /\ UNCHANGED <<hint, rows, ledger, maker, replaced>>
    BY DEF rb_read, RollbackBranch

\* The steps inside a call keep the types.
LEMMA StepTypes ==
    ASSUME IInv, NEW p \in Processes, step(p)
    PROVE  TypeOK'
<1> TypeOK
    BY DEF IInv
<1> USE DEF Points
<1>1. CASE acquire(p)
    BY <1>1 DEF acquire, TypeOK, Goto
<1>2. CASE deploy_read(p)
  <2>1. PICK next \in {"insert", "check", "mark", "set"} : Local(p, next)
      BY <1>2, ReadForDeploy
  <2>2. saw' = [saw EXCEPT ![p] = hint] /\ UNCHANGED <<hint, rows, ledger, maker, replaced>>
      BY <1>2, ReadForDeploy
  <2> QED
      BY <2>1, <2>2 DEF TypeOK, Local, Goto
<1>3. CASE insert(p)
  <2>1. [status |-> "INTENT_RECORDED", before |-> saw[p], after |-> NoHint] \in Row
      BY DEF TypeOK, Row, Statuses, Settings
  <2>2. rows' \in [Keys -> Row \cup {Absent}]
      BY <1>3, <2>1, RecordTypes DEF insert, TypeOK
  <2> QED
      BY <1>3, <2>2 DEF insert, TypeOK, Local, Goto
<1>4. CASE set(p)
    BY <1>4, RecordTypes DEF set, TypeOK, Settings, Local, Goto
<1>5. CASE observe(p)
    BY <1>5 DEF observe, TypeOK, Local, Goto
<1>6. CASE mark(p)
  <2>1. rows[Key(p)] # Absent
      BY <1>6 DEF mark, IInv, RowExists
  <2>2. rows' \in [Keys -> Row \cup {Absent}]
      BY <1>6, <2>1, MarkedRow DEF mark, Statuses
  <2> QED
      BY <1>6, <2>2 DEF mark, TypeOK, Local, Goto
<1>7. CASE rb_read(p)
  <2>1. PICK next \in {"check", "rb_mark", "rb_intent"} : Local(p, next)
      BY <1>7, ReadForRollback
  <2>2. saw' = [saw EXCEPT ![p] = hint] /\ UNCHANGED <<hint, rows, ledger, maker, replaced>>
      BY <1>7, ReadForRollback
  <2> QED
      BY <2>1, <2>2 DEF TypeOK, Local, Goto
<1>8. CASE rb_intent(p)
  <2>1. rows[Key(p)] # Absent
      BY <1>8 DEF rb_intent, IInv, RowExists, RollbackPoints
  <2>2. rows' \in [Keys -> Row \cup {Absent}]
      BY <1>8, <2>1, MarkedRow DEF rb_intent, Statuses
  <2> QED
      BY <1>8, <2>2 DEF rb_intent, TypeOK, Local, Goto
<1>9. CASE rb_set(p)
  <2>1. rows[Key(p)].before \in Settings
      BY <1>9, RecordTypes DEF rb_set, IInv, RowExists, RollbackPoints
  <2> QED
      BY <1>9, <2>1 DEF rb_set, TypeOK, Local, Goto
<1>10. CASE rb_observe(p)
    BY <1>10 DEF rb_observe, TypeOK, Local, Goto
<1>11. CASE rb_mark(p)
  <2>1. rows[Key(p)] # Absent
      BY <1>11 DEF rb_mark, IInv, RowExists, RollbackPoints
  <2>2. rows' \in [Keys -> Row \cup {Absent}]
      BY <1>11, <2>1, MarkedRow DEF rb_mark, Statuses
  <2> QED
      BY <1>11, <2>2 DEF rb_mark, TypeOK, Local, Goto
<1>12. CASE check(p)
    BY <1>12 DEF check, TypeOK, Local, Goto
<1>13. CASE append(p)
  <2>1. ledger' \in Seq(Keys \X Events)
      BY <1>13, RecordTypes DEF append, TypeOK
  <2> QED
      BY <1>13, <2>1 DEF append, TypeOK, Local, Goto
<1>14. CASE return(p) \/ raises(p)
    BY <1>14 DEF return, raises, Over, Release, TypeOK, Goto
<1> QED
    BY <1>1, <1>2, <1>3, <1>4, <1>5, <1>6, <1>7, <1>8, <1>9, <1>10, <1>11, <1>12, <1>13,
       <1>14 DEF step

\* Every step keeps the types.
LEMMA NextTypes == IInv /\ [Next]_vars => TypeOK'
<1> SUFFICES ASSUME IInv, [Next]_vars
             PROVE  TypeOK'
    OBVIOUS
<1> TypeOK
    BY DEF IInv
<1> USE DEF Points
<1>1. CASE \E p \in Processes, k \in Keys : call_deploy(p, k) \/ call_rollback(p, k)
  <2>1. PICK p \in Processes, k \in Keys : call_deploy(p, k) \/ call_rollback(p, k)
      BY <1>1
  <2>2. call' \in [Processes -> [op : {"deploy", "rollback"}, key : Keys]]
      BY <2>1 DEF call_deploy, call_rollback, TypeOK
  <2>3. status' \in [Processes -> Statuses]
    <3>1. CASE call_deploy(p, k)
        BY <3>1 DEF call_deploy, TypeOK
    <3>2. CASE call_rollback(p, k)
      <4>1. rows[k].status \in Statuses
          BY <3>2 DEF call_rollback, TypeOK, Row
      <4> QED
          BY <3>2, <4>1 DEF call_rollback, TypeOK
    <3> QED
        BY <2>1, <3>1, <3>2
  <2> QED
      BY <2>1, <2>2, <2>3 DEF call_deploy, call_rollback, TypeOK, Goto
<1>2. CASE \E p \in Processes : step(p)
    BY <1>2, StepTypes
<1>3. CASE \E p \in Processes : crash(p)
    BY <1>3 DEF crash, Over, Release, TypeOK, Goto
<1>4. CASE human_edit
    BY <1>4 DEF human_edit, TypeOK
<1>5. CASE UNCHANGED vars
    BY <1>5 DEF vars, TypeOK
<1> QED
    BY <1>1, <1>2, <1>3, <1>4, <1>5 DEF Next

-----------------------------------------------------------------------------
(* The lock *)

\* While a process works inside a call, every other one is outside.
LEMMA Alone ==
    ASSUME IInv, NEW p \in Processes, pc[p] \notin {"idle", "acquire"}
    PROVE  \A q \in Processes \ {p} : pc[q] \in {"idle", "acquire"}
    BY QuerySettingsConstants DEF IInv, Exclusive

\* The steps of the lock's holder
inside(p) ==
    \/ deploy_read(p) \/ insert(p) \/ set(p) \/ observe(p) \/ mark(p)
    \/ rb_read(p) \/ rb_intent(p) \/ rb_set(p) \/ rb_observe(p) \/ rb_mark(p)
    \/ check(p) \/ append(p)

\* What a step inside the lock moves
LEMMA StepShape ==
    ASSUME IInv, NEW p \in Processes, inside(p)
    PROVE  /\ pc[p] \notin {"idle", "acquire"}
           /\ pc' = [pc EXCEPT ![p] = pc'[p]]
           /\ UNCHANGED <<lock, call>>
           /\ saw' = [saw EXCEPT ![p] = saw'[p]]
<1> USE DEF IInv, TypeOK, Local, Goto
<1>1. CASE deploy_read(p) \/ rb_read(p)
    BY <1>1, ReadForDeploy, ReadForRollback
<1>2. CASE insert(p) \/ set(p) \/ observe(p) \/ mark(p)
    BY <1>2 DEF insert, set, observe, mark
<1>3. CASE rb_intent(p) \/ rb_set(p) \/ rb_observe(p) \/ rb_mark(p)
    BY <1>3 DEF rb_intent, rb_set, rb_observe, rb_mark
<1>4. CASE check(p) \/ append(p)
    BY <1>4 DEF check, append
<1> QED
    BY <1>1, <1>2, <1>3, <1>4 DEF inside

\* Every step keeps the lock with the one process that works.
LEMMA ExclusiveStep == IInv /\ [Next]_vars => Exclusive'
<1> SUFFICES ASSUME IInv, [Next]_vars
             PROVE  Exclusive'
    OBVIOUS
<1> TypeOK /\ Exclusive
    BY DEF IInv
<1>1. CASE \E p \in Processes, k \in Keys : call_deploy(p, k) \/ call_rollback(p, k)
    BY <1>1 DEF call_deploy, call_rollback, Goto, TypeOK, Exclusive
<1>2. CASE \E p \in Processes : step(p)
  <2>1. PICK p \in Processes : step(p)
      BY <1>2
  <2>2. CASE acquire(p)
      BY <2>2, QuerySettingsConstants DEF acquire, Goto, TypeOK, Exclusive
  <2>3. CASE return(p) \/ raises(p)
      BY <2>3, QuerySettingsConstants DEF return, raises, Over, Release, Goto, TypeOK, Exclusive
  <2>4. CASE inside(p)
      BY <2>4, StepShape DEF TypeOK, Exclusive
  <2> QED
      BY <2>1, <2>2, <2>3, <2>4 DEF step, inside
<1>3. CASE \E p \in Processes : crash(p)
    BY <1>3, QuerySettingsConstants DEF crash, Over, Release, Goto, TypeOK, Exclusive
<1>4. CASE human_edit \/ UNCHANGED vars
    BY <1>4 DEF human_edit, vars, Exclusive
<1> QED
    BY <1>1, <1>2, <1>3, <1>4 DEF Next

-----------------------------------------------------------------------------
(* The rows *)

RowFacts == RowExists /\ SawItsEnd /\ RowsTellWhatWasSeen /\ MakersHint /\ OwnHint

\* A new call finds the row it needs, and starts with nothing seen.
LEMMA CallRows ==
    ASSUME IInv, NEW p \in Processes, NEW k \in Keys, call_deploy(p, k) \/ call_rollback(p, k)
    PROVE  RowFacts'
<1> USE DEF IInv, TypeOK, Key, Hint, Goto, DeployPoints, RollbackPoints
<1>1. pc' = [pc EXCEPT ![p] = "acquire"] /\ UNCHANGED <<hint, rows, saw, maker>>
    BY DEF call_deploy, call_rollback
<1>2. /\ call'[p].key = k
      /\ call'[p].op = "rollback" => rows[k] # Absent
      /\ \A q \in Processes \ {p} : call'[q] = call[q]
    BY DEF call_deploy, call_rollback
<1>3. RowExists'
    BY <1>1, <1>2 DEF RowExists
<1>4. SawItsEnd' /\ OwnHint'
    BY <1>1, <1>2 DEF SawItsEnd, OwnHint
<1>5. RowsTellWhatWasSeen' /\ MakersHint'
    BY <1>1 DEF RowsTellWhatWasSeen, MakersHint
<1> QED
    BY <1>3, <1>4, <1>5 DEF RowFacts

\* The end of a call changes nothing but the process.
LEMMA OverRows ==
    ASSUME IInv, NEW p \in Processes, Over(p)
    PROVE  RowFacts'
<1> USE DEF IInv, TypeOK, Key, Hint, Goto, Over, DeployPoints, RollbackPoints
<1>1. RowExists'
    BY DEF RowExists
<1>2. SawItsEnd' /\ OwnHint'
    BY DEF SawItsEnd, OwnHint
<1>3. RowsTellWhatWasSeen' /\ MakersHint'
    BY DEF RowsTellWhatWasSeen, MakersHint
<1> QED
    BY <1>1, <1>2, <1>3 DEF RowFacts

\* An operator's change makes the setting nobody's row's.
LEMMA EditRows ==
    ASSUME IInv, human_edit
    PROVE  RowFacts'
<1> USE DEF human_edit, Key, Hint, DeployPoints, RollbackPoints, IInv
<1>1. RowExists' /\ SawItsEnd' /\ RowsTellWhatWasSeen'
    BY DEF RowExists, SawItsEnd, RowsTellWhatWasSeen
<1>2. MakersHint'
    BY QuerySettingsConstants DEF MakersHint
<1>3. OwnHint'
    BY QuerySettingsConstants DEF OwnHint
<1> QED
    BY <1>1, <1>2, <1>3 DEF RowFacts

\* What a step of the lock's holder must establish for its own process, and for the
\* rows: the others are outside the lock.
LEMMA HolderRows ==
    ASSUME IInv, NEW p \in Processes, inside(p),
           /\ pc'[p] \in DeployPoints => call[p].op = "deploy"
           /\ pc'[p] \in RollbackPoints => call[p].op = "rollback",
           pc'[p] \in {"set", "observe", "mark"} => rows'[Key(p)] # Absent,
           \A k \in Keys : rows[k] # Absent => rows'[k] # Absent,
           pc'[p] = "mark" => saw'[p] = Hint(p),
           pc'[p] = "rb_mark" => saw'[p] = rows'[Key(p)].before,
           pc'[p] \in {"rb_intent", "rb_set"} /\ maker' \in Keys => maker'.action.allowed = Hint(p),
           RowsTellWhatWasSeen', MakersHint'
    PROVE  RowFacts'
<1>1. /\ pc[p] \notin {"idle", "acquire"}
      /\ pc' = [pc EXCEPT ![p] = pc'[p]] /\ UNCHANGED <<lock, call>>
    BY StepShape
<1>2. \A q \in Processes \ {p} : pc'[q] = pc[q] /\ pc'[q] \in {"idle", "acquire"}
    BY <1>1, Alone DEF IInv, TypeOK
<1>3. \A q \in Processes : Key(q)' = Key(q) /\ Hint(q)' = Hint(q) /\ Key(q) \in Keys
    BY <1>1, RecordTypes DEF Key, Hint, IInv
<1>4. RowExists'
    BY <1>1, <1>2, <1>3 DEF RowExists, IInv, DeployPoints, RollbackPoints
<1>5. SawItsEnd' /\ OwnHint'
    BY <1>2, <1>3 DEF SawItsEnd, OwnHint
<1> QED
    BY <1>4, <1>5 DEF RowFacts

\* A deployment's step
LEMMA DeployRows ==
    ASSUME IInv, NEW p \in Processes,
           deploy_read(p) \/ insert(p) \/ set(p) \/ observe(p) \/ mark(p)
    PROVE  RowFacts'
<1> TypeOK /\ inside(p)
    BY DEF IInv, inside
<1> USE DEF DeployPoints, RollbackPoints
<1>1. CASE deploy_read(p)
  <2>1. PICK next \in {"insert", "check", "mark", "set"} :
             /\ Local(p, next)
             /\ next # "insert" => rows[Key(p)] # Absent
             /\ next = "mark" => hint = Hint(p)
      BY <1>1, ReadForDeploy
  <2>2. call[p].op = "deploy" /\ saw' = [saw EXCEPT ![p] = hint]
        /\ UNCHANGED <<hint, rows, ledger, maker, replaced>>
      BY <1>1, ReadForDeploy
  <2>3. RowsTellWhatWasSeen' /\ MakersHint'
      BY <2>2 DEF IInv, RowsTellWhatWasSeen, MakersHint
  <2> QED
      BY <2>1, <2>2, <2>3, HolderRows DEF Local, Goto, TypeOK
<1>2. CASE insert(p)
  <2>1. /\ call[p].op = "deploy"
        /\ pc'[p] = "set" /\ UNCHANGED <<hint, saw, maker>>
      BY <1>2 DEF insert, Local, Goto, TypeOK, IInv, RowExists
  <2>2. PICK row \in Row : row.status = "INTENT_RECORDED" /\ rows' = [rows EXCEPT ![Key(p)] = row]
    <3>1. [status |-> "INTENT_RECORDED", before |-> saw[p], after |-> NoHint] \in Row
        BY DEF TypeOK, Row, Statuses, Settings
    <3> QED
        BY <1>2, <3>1 DEF insert
  <2>3. Key(p) \in Keys /\ row # Absent /\ rows \in [Keys -> Row \cup {Absent}]
      BY RecordTypes, QuerySettingsConstants DEF TypeOK
  <2>4. RowsTellWhatWasSeen'
      BY <2>2, <2>3 DEF IInv, RowsTellWhatWasSeen
  <2>5. MakersHint'
      BY <2>1, <2>2, <2>3 DEF IInv, MakersHint
  <2> QED
      BY <2>1, <2>2, <2>3, <2>4, <2>5, HolderRows
<1>3. CASE set(p)
  <2>1. /\ call[p].op = "deploy" /\ rows[Key(p)] # Absent
        /\ pc'[p] = "observe" /\ UNCHANGED <<rows, saw>>
      BY <1>3 DEF set, Local, Goto, TypeOK, IInv, RowExists
  <2>2. RowsTellWhatWasSeen'
      BY <2>1 DEF IInv, RowsTellWhatWasSeen
  <2>3. MakersHint'
      BY <1>3, <2>1 DEF set, Hint, IInv, MakersHint
  <2> QED
      BY <2>1, <2>2, <2>3, HolderRows
<1>4. CASE observe(p)
  <2>1. /\ call[p].op = "deploy" /\ rows[Key(p)] # Absent
        /\ pc'[p] = "mark" /\ saw'[p] = Hint(p) /\ UNCHANGED <<hint, rows, maker>>
      BY <1>4 DEF observe, Local, Goto, TypeOK, IInv, RowExists
  <2>2. RowsTellWhatWasSeen' /\ MakersHint'
      BY <2>1 DEF IInv, RowsTellWhatWasSeen, MakersHint
  <2> QED
      BY <2>1, <2>2, HolderRows
<1>5. CASE mark(p)
  <2>1. /\ rows[Key(p)] # Absent /\ saw[p] = Hint(p)
        /\ pc'[p] = "check" /\ UNCHANGED <<hint, maker>>
      BY <1>5 DEF mark, Local, Goto, TypeOK, IInv, RowExists, SawItsEnd
  <2>2. /\ rows' = [rows EXCEPT ![Key(p)] = [status |-> "APPLIED", before |-> rows[Key(p)].before,
                                             after |-> saw[p]]]
        /\ rows' \in [Keys -> Row \cup {Absent}]
        /\ \A k \in Keys : rows[k] # Absent <=> rows'[k] # Absent
      BY <1>5, <2>1, MarkedRow DEF mark, Statuses
  <2>3. Key(p) \in Keys /\ rows \in [Keys -> Row \cup {Absent}]
      BY RecordTypes DEF TypeOK
  <2>4. RowsTellWhatWasSeen'
      BY <2>1, <2>2, <2>3 DEF Hint, IInv, RowsTellWhatWasSeen
  <2>5. MakersHint'
      BY <2>1, <2>2 DEF IInv, MakersHint
  <2> QED
      BY <2>1, <2>2, <2>4, <2>5, HolderRows
<1> QED
    BY <1>1, <1>2, <1>3, <1>4, <1>5

\* A rollback's step.  rb_read finds the hint of its action in place, so whoever made it
\* set that hint.
LEMMA RollbackRows ==
    ASSUME IInv, NEW p \in Processes,
           rb_read(p) \/ rb_intent(p) \/ rb_set(p) \/ rb_observe(p) \/ rb_mark(p)
    PROVE  RowFacts'
<1> TypeOK /\ inside(p)
    BY DEF IInv, inside
<1> USE DEF DeployPoints, RollbackPoints
<1>1. CASE rb_read(p)
  <2>1. PICK next \in {"check", "rb_mark", "rb_intent"} :
             /\ Local(p, next)
             /\ next = "rb_mark" => hint = rows[Key(p)].before
             /\ next = "rb_intent" => hint = Hint(p)
      BY <1>1, ReadForRollback
  <2>2. call[p].op = "rollback" /\ saw' = [saw EXCEPT ![p] = hint] /\ pc[p] = "read"
        /\ UNCHANGED <<hint, rows, ledger, maker, replaced>>
      BY <1>1, ReadForRollback
  <2>3. RowsTellWhatWasSeen' /\ MakersHint'
      BY <2>2 DEF IInv, RowsTellWhatWasSeen, MakersHint
  <2>4. hint = Hint(p) => (maker \in Keys => maker.action.allowed = Hint(p))
      BY DEF IInv, MakersHint
  <2> QED
      BY <2>1, <2>2, <2>3, <2>4, HolderRows DEF Local, Goto, TypeOK
<1>2. CASE rb_intent(p)
  <2>1. /\ rows[Key(p)] # Absent /\ call[p].op = "rollback"
        /\ maker \in Keys => maker.action.allowed = Hint(p)
        /\ pc'[p] = "rb_set" /\ UNCHANGED <<hint, maker>>
      BY <1>2 DEF rb_intent, Local, Goto, TypeOK, IInv, RowExists, OwnHint
  <2>2. /\ rows' = [rows EXCEPT ![Key(p)] = [status |-> "ROLLBACK_INTENT",
                                             before |-> rows[Key(p)].before, after |-> saw[p]]]
        /\ rows' \in [Keys -> Row \cup {Absent}]
        /\ \A k \in Keys : rows[k] # Absent <=> rows'[k] # Absent
      BY <1>2, <2>1, MarkedRow DEF rb_intent, Statuses
  <2>3. Key(p) \in Keys /\ rows \in [Keys -> Row \cup {Absent}]
      BY RecordTypes DEF TypeOK
  <2>4. RowsTellWhatWasSeen'
      BY <2>2, <2>3 DEF IInv, RowsTellWhatWasSeen
  <2>5. MakersHint'
      BY <2>1, <2>2 DEF IInv, MakersHint
  <2> QED
      BY <2>1, <2>2, <2>4, <2>5, HolderRows
<1>3. CASE rb_set(p)
  <2>1. /\ call[p].op = "rollback" /\ maker' = Nobody
        /\ pc'[p] = "rb_observe" /\ UNCHANGED <<rows, saw>>
      BY <1>3 DEF rb_set, Local, Goto, TypeOK, IInv, RowExists
  <2>2. RowsTellWhatWasSeen' /\ MakersHint'
      BY <2>1, QuerySettingsConstants DEF IInv, RowsTellWhatWasSeen, MakersHint
  <2> QED
      BY <2>1, <2>2, HolderRows
<1>4. CASE rb_observe(p)
  <2>1. /\ call[p].op = "rollback" /\ saw'[p] = rows[Key(p)].before
        /\ pc'[p] = "rb_mark" /\ UNCHANGED <<hint, rows, maker>>
      BY <1>4 DEF rb_observe, Local, Goto, TypeOK, IInv, RowExists
  <2>2. RowsTellWhatWasSeen' /\ MakersHint'
      BY <2>1 DEF IInv, RowsTellWhatWasSeen, MakersHint
  <2> QED
      BY <2>1, <2>2, HolderRows
<1>5. CASE rb_mark(p)
  <2>1. /\ rows[Key(p)] # Absent /\ saw[p] = rows[Key(p)].before
        /\ pc'[p] = "check" /\ UNCHANGED <<hint, maker>>
      BY <1>5 DEF rb_mark, Local, Goto, TypeOK, IInv, RowExists, SawItsEnd
  <2>2. /\ rows' = [rows EXCEPT ![Key(p)] = [status |-> "ROLLED_BACK",
                                             before |-> rows[Key(p)].before, after |-> saw[p]]]
        /\ rows' \in [Keys -> Row \cup {Absent}]
        /\ \A k \in Keys : rows[k] # Absent <=> rows'[k] # Absent
      BY <1>5, <2>1, MarkedRow DEF rb_mark, Statuses
  <2>3. Key(p) \in Keys /\ rows \in [Keys -> Row \cup {Absent}]
      BY RecordTypes DEF TypeOK
  <2>4. RowsTellWhatWasSeen'
      BY <2>1, <2>2, <2>3 DEF IInv, RowsTellWhatWasSeen
  <2>5. MakersHint'
      BY <2>1, <2>2 DEF IInv, MakersHint
  <2> QED
      BY <2>1, <2>2, <2>4, <2>5, HolderRows
<1> QED
    BY <1>1, <1>2, <1>3, <1>4, <1>5

\* Every step keeps what the rows and the setting's maker say.
LEMMA RowStep == IInv /\ [Next]_vars => RowFacts'
<1> SUFFICES ASSUME IInv, [Next]_vars
             PROVE  RowFacts'
    OBVIOUS
<1>1. CASE \E p \in Processes, k \in Keys : call_deploy(p, k) \/ call_rollback(p, k)
    BY <1>1, CallRows
<1>2. CASE \E p \in Processes : step(p)
  <2>1. PICK p \in Processes : step(p)
      BY <1>2
  <2>2. CASE acquire(p)
    <3> USE <2>2 DEF acquire, Goto, Key, Hint, IInv, TypeOK, DeployPoints, RollbackPoints
    <3>1. RowExists' /\ SawItsEnd' /\ OwnHint'
        BY DEF RowExists, SawItsEnd, OwnHint
    <3>2. RowsTellWhatWasSeen' /\ MakersHint'
        BY DEF RowsTellWhatWasSeen, MakersHint
    <3> QED
        BY <3>1, <3>2 DEF RowFacts
  <2>3. CASE check(p) \/ append(p)
    <3>1. inside(p) /\ pc'[p] \in {"append", "return"} /\ UNCHANGED <<hint, rows, saw, maker>>
        BY <2>3 DEF inside, check, append, Local, Goto, IInv, TypeOK
    <3>2. RowsTellWhatWasSeen' /\ MakersHint'
        BY <3>1 DEF IInv, RowsTellWhatWasSeen, MakersHint
    <3> QED
        BY <3>1, <3>2, HolderRows DEF DeployPoints, RollbackPoints
  <2>4. CASE return(p) \/ raises(p)
      BY <2>4, OverRows DEF return, raises
  <2> QED
      BY <2>1, <2>2, <2>3, <2>4, DeployRows, RollbackRows DEF step
<1>3. CASE \E p \in Processes : crash(p)
    BY <1>3, OverRows DEF crash
<1>4. CASE human_edit
    BY <1>4, EditRows
<1>5. CASE UNCHANGED vars
    BY <1>5 DEF vars, Key, Hint, IInv, RowFacts, RowExists, SawItsEnd, RowsTellWhatWasSeen,
       MakersHint, OwnHint, DeployPoints, RollbackPoints
<1> QED
    BY <1>1, <1>2, <1>3, <1>4, <1>5 DEF Next

-----------------------------------------------------------------------------
(* The ledger *)

LedgerFacts == Asked /\ LedgerOnce /\ SuccessIsLedgered

\* A step that leaves the ledger alone and takes no process to the insertion or to the
\* end keeps all three.
LEMMA LedgerKept ==
    ASSUME IInv, ledger' = ledger,
           \A q \in Processes : pc'[q] \in {"append", "return"} => pc'[q] = pc[q] /\ call'[q] = call[q]
    PROVE  LedgerFacts'
<1>1. Asked' /\ SuccessIsLedgered'
    BY DEF IInv, Asked, SuccessIsLedgered, Entry, Key
<1>2. LedgerOnce'
    BY DEF IInv, LedgerOnce
<1> QED
    BY <1>1, <1>2 DEF LedgerFacts

\* Every step keeps the ledger free of repetitions: only the lock's holder appends, and
\* nobody did since it asked.
LEMMA LedgerStep == IInv /\ [Next]_vars => LedgerFacts'
<1> SUFFICES ASSUME IInv, [Next]_vars
             PROVE  LedgerFacts'
    OBVIOUS
<1> TypeOK
    BY DEF IInv
<1> USE DEF TypeOK, Goto, Local, Over
<1>1. CASE \E p \in Processes, k \in Keys : call_deploy(p, k) \/ call_rollback(p, k)
    BY <1>1, LedgerKept DEF call_deploy, call_rollback
<1>2. CASE \E p \in Processes : step(p)
  <2>1. PICK p \in Processes : step(p)
      BY <1>2
  <2>2. CASE acquire(p) \/ return(p) \/ raises(p)
      BY <2>2, LedgerKept DEF acquire, return, raises
  <2>3. CASE deploy_read(p) \/ rb_read(p)
    <3>1. pc'[p] \notin {"append", "return"}
        BY <2>3, ReadForDeploy, ReadForRollback
    <3>2. ledger' = ledger
        BY <2>3, ReadForDeploy, ReadForRollback
    <3>3. pc' = [pc EXCEPT ![p] = pc'[p]] /\ call' = call
        BY <2>3, StepShape DEF inside
    <3> QED
        BY <3>1, <3>2, <3>3, LedgerKept
  <2>4. CASE insert(p) \/ set(p) \/ observe(p) \/ mark(p)
      BY <2>4, LedgerKept DEF insert, set, observe, mark
  <2>5. CASE rb_intent(p) \/ rb_set(p) \/ rb_observe(p) \/ rb_mark(p)
      BY <2>5, LedgerKept DEF rb_intent, rb_set, rb_observe, rb_mark
  <2>6. CASE check(p)
    <3>1. \A q \in Processes : Entry(q)' = Entry(q)
        BY <2>6 DEF check, Entry, Key
    <3>2. Asked' /\ SuccessIsLedgered'
        BY <2>6, <3>1 DEF check, IInv, Asked, SuccessIsLedgered, Contains
    <3>3. LedgerOnce'
        BY <2>6 DEF check, IInv, LedgerOnce
    <3> QED
        BY <3>2, <3>3 DEF LedgerFacts
  <2>7. CASE append(p)
    <3>1. \A q \in Processes : Entry(q)' = Entry(q)
        BY <2>7 DEF append, Entry, Key
    <3>2. /\ ledger' = Append(ledger, Entry(p)) /\ ~Contains(ledger, Entry(p))
          /\ pc' = [pc EXCEPT ![p] = "return"]
          /\ \A q \in Processes \ {p} : pc'[q] \in {"idle", "acquire"}
        BY <2>7, Alone DEF append, IInv, Asked
    <3>3. Entry(p) \in Keys \X Events /\ ledger \in Seq(Keys \X Events)
        BY RecordTypes
    <3>4. /\ Len(ledger') = Len(ledger) + 1 /\ ledger'[Len(ledger')] = Entry(p)
          /\ \A i \in 1..Len(ledger) : ledger'[i] = ledger[i]
        BY <3>2, <3>3
    <3>5. LedgerOnce'
      <4>1. \A i \in 1..Len(ledger) : ledger[i] # Entry(p)
          BY <3>2 DEF Contains
      <4>2. DOMAIN ledger = 1..Len(ledger) /\ DOMAIN ledger' = 1..(Len(ledger) + 1)
          BY <3>2, <3>3
      <4> QED
          BY <3>3, <3>4, <4>1, <4>2 DEF IInv, LedgerOnce
    <3>6. Asked'
        BY <3>2 DEF Asked
    <3>7. SuccessIsLedgered'
      <4>1. Contains(ledger', Entry(p))
          BY <3>3, <3>4 DEF Contains
      <4>2. \A q \in Processes : pc'[q] = "return" => q = p
          BY <3>2
      <4> QED
          BY <3>1, <4>1, <4>2 DEF SuccessIsLedgered, Contains
    <3> QED
        BY <3>5, <3>6, <3>7 DEF LedgerFacts
  <2> QED
      BY <2>1, <2>2, <2>3, <2>4, <2>5, <2>6, <2>7 DEF step
<1>3. CASE \E p \in Processes : crash(p)
    BY <1>3, LedgerKept DEF crash
<1>4. CASE human_edit
    BY <1>4, LedgerKept DEF human_edit
<1>5. CASE UNCHANGED vars
    BY <1>5, LedgerKept DEF vars
<1> QED
    BY <1>1, <1>2, <1>3, <1>4, <1>5 DEF Next

-----------------------------------------------------------------------------
(* Theorems *)

\* The invariant is inductive.
LEMMA Invariance == Spec => []IInv
<1>1. IInv /\ [Next]_vars => IInv'
    BY NextTypes, ExclusiveStep, RowStep, LedgerStep DEF IInv, RowFacts, LedgerFacts
<1> QED
    BY InitIInv, <1>1, PTL DEF Spec

\* Calls that overlap, crash, repeat and meet operators' edits keep every variable in
\* its type.
THEOREM TypeCorrect == Spec => []TypeOK
<1>1. IInv => TypeOK
    BY DEF IInv
<1> QED
    BY <1>1, Invariance, PTL

\* _append_once enters every event of a deployment once, and before its call returns,
\* for any number of processes, calls and crashes.
THEOREM EventsEnteredOnce == Spec => []LedgeredOnce
<1>1. IInv => LedgeredOnce
    BY DEF IInv, LedgeredOnce
<1> QED
    BY <1>1, Invariance, PTL

\* A row that says APPLIED or ROLLED_BACK says what MongoDB was seen to have.
THEOREM RowsAreEvidenced == Spec => []RowsTellWhatWasSeen
<1>1. IInv => RowsTellWhatWasSeen
    BY DEF IInv
<1> QED
    BY <1>1, Invariance, PTL

\* rollback, "QUERY_SETTINGS_OWNERSHIP_DRIFT": however late its call, and although others deploy
\* and undo the same and other hints, it removes no deployed hint but its own action's.
THEOREM RollbackUndoesOwnHint == Spec => UndoesOwnHintOnly
<1>1. IInv => [\A p \in Processes :
                  pc[p] = "rb_set" /\ pc'[p] = "rb_observe" /\ maker \in Keys
                      => maker.action.allowed = Hint(p)]_vars
    BY DEF IInv, OwnHint
<1> QED
    BY <1>1, Invariance, PTL DEF UndoesOwnHintOnly

-----------------------------------------------------------------------------
(* The executor of one process *)

\* A task between two awaits under the lock is its holder
OneInside == \A t \in Processes : at[t] \in Direct!Deploying \cup Direct!RollingBack => holder = t

\* What a task was called for decides where it goes
OwnBranch ==
    \A t \in Processes :
        /\ at[t] # "idle" => doing[t] \in Direct!Calls
        /\ at[t] \in Direct!Deploying => doing[t].kind = "deploy"
        /\ at[t] \in Direct!RollingBack => doing[t].kind = "rollback"

\* The action of a rollback is in the ledger, and an entry that says APPLIED tells what the
\* action replaced and left
Approved(action, from) == from # NoHint => approvals[action] = "APPROVED"

AppliedIsTyped ==
    \A i \in DOMAIN journal : journal[i].phase = "APPLIED" =>
        /\ journal[i].before = journal[i].action.previous
        /\ journal[i].after = journal[i].action.allowed
        /\ journal[i].before # NoHint => journal[i].approved

RollbackOfEntry ==
    \A t \in Processes : at[t] # "idle" /\ doing[t].kind = "rollback" =>
        \E i \in DOMAIN journal : journal[i].phase = "APPLIED" /\ journal[i].action = doing[t].action

\* What the task under the lock has established, as long as nobody disturbs it
Established ==
    \A t \in Processes : LET d == doing[t].action IN
        /\ at[t] = "gate" => before[t] = setting
        /\ at[t] \in {"list", "set"} =>
              before[t] = setting /\ before[t] = d.previous /\ Approved(d, before[t])
        /\ at[t] = "observe" =>
              before[t] = d.previous /\ setting = d.allowed /\ Approved(d, before[t])
        /\ at[t] = "rb_set" => before[t] = setting /\ setting = d.allowed
        /\ at[t] = "rb_observe" => before[t] = d.allowed /\ setting = d.previous

SettingInv ==
    /\ Direct!TypeOK /\ OneInside /\ OwnBranch
    /\ disturbances = 0 => AppliedIsTyped /\ RollbackOfEntry /\ Established

-----------------------------------------------------------------------------

\* Nothing was called yet.
LEMMA SettingInit == ASSUME Direct!SettingsConstants PROVE Direct!Init => SettingInv
    BY DEF Direct!Init, SettingInv, Direct!SettingsConstants, Direct!TypeOK, Direct!HintValues, OneInside,
           OwnBranch, AppliedIsTyped, RollbackOfEntry,
           Established, Direct!Deploying, Direct!RollingBack, Direct!Calls, Direct!Idle

\* A call names an action and a mode
LEMMA CallType ==
    ASSUME SettingInv, NEW t \in Processes, at[t] # "idle"
    PROVE  doing[t].action \in Deployments /\ doing[t].mode \in Direct!Modes
    BY DEF SettingInv, OwnBranch, Direct!Calls

\* What is entered is an entry
LEMMA RecordsType ==
    ASSUME SettingInv, NEW t \in Processes, at[t] # "idle",
           NEW phase \in {"PREPARED", "APPLIED", "ROLLED_BACK"},
           NEW from \in Direct!HintValues, NEW to \in Direct!HintValues, Direct!Records(phase, t, from, to)
    PROVE  journal' \in Seq(Direct!Entry)
<1> DEFINE e == [phase |-> phase, action |-> doing[t].action, before |-> from, after |-> to,
                 mode |-> doing[t].mode, approved |-> approvals[doing[t].action] = "APPROVED"]
<1>1. (approvals[doing[t].action] = "APPROVED") \in BOOLEAN
    OBVIOUS
<1>2. e \in Direct!Entry
    BY <1>1, CallType DEF Direct!Entry
<1>3. journal' = Append(journal, e)
    BY DEF Direct!Records
<1> HIDE DEF e
<1> QED
    BY <1>2, <1>3 DEF SettingInv, Direct!TypeOK

\* Each conjunct of the invariant is preserved by every step.
LEMMA SettingTypesStep ==
    ASSUME Direct!SettingsConstants, SettingInv, [Direct!Next]_(Direct!vars)
    PROVE  Direct!TypeOK'
<1> USE DEF Direct!SettingsConstants, SettingInv, Direct!TypeOK, Direct!HintValues, Direct!Modes,
            Direct!Deploying, Direct!RollingBack, Direct!Calls, Direct!Idle
<1>1. ASSUME NEW t \in Processes, NEW d \in Deployments, NEW mode \in Direct!Modes,
             NEW expected \in Direct!HintValues,
             Direct!deploy(t, d, mode, expected)
      PROVE  Direct!TypeOK'
    BY <1>1 DEF Direct!deploy, Direct!Goes
<1>2. ASSUME NEW t \in Processes, NEW i \in DOMAIN journal, Direct!rollback(t, i)
      PROVE  Direct!TypeOK'
  <2>1. journal[i] \in Direct!Entry
      OBVIOUS
  <2>2. [kind |-> "rollback", action |-> journal[i].action, mode |-> journal[i].mode] \in Direct!Calls
      BY <2>1 DEF Direct!Entry
  <2> QED
      BY <1>2, <2>2 DEF Direct!rollback, Direct!Goes
<1>3. ASSUME NEW t \in Processes, Direct!acquire(t)
      PROVE  Direct!TypeOK'
    BY <1>3 DEF Direct!acquire, Direct!Goes
<1>4. ASSUME NEW t \in Processes, Direct!read_hint(t)
      PROVE  Direct!TypeOK'
    BY <1>4 DEF Direct!read_hint, Direct!Goes
<1>5. ASSUME NEW t \in Processes, Direct!verify(t)
      PROVE  Direct!TypeOK'
    BY <1>5, SMTT(30) DEF Direct!verify, Direct!Goes, Direct!Ends, OwnBranch
<1>6. ASSUME NEW t \in Processes, Direct!prepare(t)
      PROVE  Direct!TypeOK'
  <2>1. at[t] # "idle" /\ before[t] \in Direct!HintValues
      BY <1>6 DEF Direct!prepare
  <2>2. journal' \in Seq(Direct!Entry)
      BY <1>6, <2>1, RecordsType DEF Direct!prepare
  <2> QED
      BY <1>6, <2>2 DEF Direct!prepare, Direct!Goes, Direct!Ends
<1>7. ASSUME NEW t \in Processes, Direct!set_hint(t)
      PROVE  Direct!TypeOK'
    BY <1>7 DEF Direct!set_hint, Direct!Goes, OwnBranch
<1>8. ASSUME NEW t \in Processes, Direct!applied(t)
      PROVE  Direct!TypeOK'
  <2>1. at[t] # "idle" /\ before[t] \in Direct!HintValues
      BY <1>8 DEF Direct!applied
  <2>2. journal' \in Seq(Direct!Entry)
      BY <1>8, <2>1, RecordsType DEF Direct!applied
  <2> QED
      BY <1>8, <2>2 DEF Direct!applied, Direct!Goes, Direct!Ends
<1>9. ASSUME NEW t \in Processes, Direct!rb_read(t)
      PROVE  Direct!TypeOK'
    BY <1>9 DEF Direct!rb_read, Direct!Goes, Direct!Ends
<1>10. ASSUME NEW t \in Processes, Direct!rb_set(t)
      PROVE  Direct!TypeOK'
    BY <1>10 DEF Direct!rb_set, Direct!Goes, OwnBranch
<1>11. ASSUME NEW t \in Processes, Direct!rolled_back(t)
      PROVE  Direct!TypeOK'
  <2>1. at[t] # "idle" /\ before[t] \in Direct!HintValues
      BY <1>11 DEF Direct!rolled_back
  <2>2. journal' \in Seq(Direct!Entry)
      BY <1>11, <2>1, RecordsType DEF Direct!rolled_back
  <2> QED
      BY <1>11, <2>2 DEF Direct!rolled_back, Direct!Goes, Direct!Ends
<1>12. ASSUME NEW t \in Processes, Direct!adapter_raises(t)
      PROVE  Direct!TypeOK'
    BY <1>12 DEF Direct!adapter_raises, Direct!Goes, Direct!Ends
<1>13. ASSUME NEW d \in Deployments, Direct!approve(d)
      PROVE  Direct!TypeOK'
    BY <1>13 DEF Direct!approve
<1>14. ASSUME NEW h \in {NoHint, HumanHint}, Direct!human_sets(h)
      PROVE  Direct!TypeOK'
    BY <1>14 DEF Direct!human_sets
<1>15. CASE UNCHANGED Direct!vars
    BY <1>15 DEF Direct!vars
<1> QED
    BY <1>1, <1>2, <1>3, <1>4, <1>5, <1>6, <1>7, <1>8, <1>9, <1>10, <1>11, <1>12, <1>13, <1>14,
        <1>15 DEF Direct!Next


LEMMA OneInsideStep ==
    ASSUME Direct!SettingsConstants, SettingInv, [Direct!Next]_(Direct!vars)
    PROVE  OneInside' /\ OwnBranch'
<1> USE DEF Direct!SettingsConstants, SettingInv, Direct!TypeOK, OneInside, OwnBranch, Direct!Deploying,
            Direct!RollingBack, Direct!Goes, Direct!Ends
<1>1. ASSUME NEW t \in Processes, NEW d \in Deployments, NEW mode \in Direct!Modes,
             NEW expected \in Direct!HintValues,
             Direct!deploy(t, d, mode, expected)
      PROVE  OneInside' /\ OwnBranch'
    BY <1>1 DEF Direct!deploy, Direct!Calls
<1>2. ASSUME NEW t \in Processes, NEW i \in DOMAIN journal, Direct!rollback(t, i)
      PROVE  OneInside' /\ OwnBranch'
  <2>1. journal[i] \in Direct!Entry
      OBVIOUS
  <2>2. [kind |-> "rollback", action |-> journal[i].action, mode |-> journal[i].mode] \in Direct!Calls
      BY <2>1 DEF Direct!Entry, Direct!Calls
  <2> QED
      BY <1>2, <2>2 DEF Direct!rollback
<1>3. ASSUME NEW t \in Processes,
             Direct!acquire(t) \/ Direct!read_hint(t)
             \/ Direct!verify(t) \/ Direct!prepare(t) \/ Direct!set_hint(t) \/ Direct!applied(t)
      PROVE  OneInside' /\ OwnBranch'
    BY <1>3 DEF Direct!acquire, Direct!read_hint, Direct!verify, Direct!prepare, Direct!set_hint,
                Direct!applied, Direct!Calls
<1>4. ASSUME NEW t \in Processes,
             Direct!rb_read(t) \/ Direct!rb_set(t) \/ Direct!rolled_back(t) \/ Direct!adapter_raises(t)
      PROVE  OneInside' /\ OwnBranch'
    BY <1>4 DEF Direct!rb_read, Direct!rb_set, Direct!rolled_back, Direct!adapter_raises
<1>5. ASSUME NEW d \in Deployments, Direct!approve(d)
      PROVE  OneInside' /\ OwnBranch'
    BY <1>5 DEF Direct!approve
<1>6. ASSUME NEW h \in {NoHint, HumanHint}, Direct!human_sets(h)
      PROVE  OneInside' /\ OwnBranch'
    BY <1>6 DEF Direct!human_sets
<1>7. CASE UNCHANGED Direct!vars
    BY <1>7 DEF Direct!vars
<1> QED
    BY <1>1, <1>2, <1>3, <1>4, <1>5, <1>6, <1>7 DEF Direct!Next


\* While nobody disturbs: what is in the ledger
LEMMA StepLedger ==
    ASSUME Direct!SettingsConstants, SettingInv, [Direct!Next]_(Direct!vars), disturbances' = 0
    PROVE  AppliedIsTyped' /\ RollbackOfEntry'
<1>0. disturbances = 0 /\ AppliedIsTyped /\ RollbackOfEntry /\ Established
    BY DEF SettingInv, Direct!TypeOK, Direct!Next, Direct!vars, Direct!deploy, Direct!rollback,
           Direct!acquire, Direct!read_hint, Direct!verify, Direct!prepare, Direct!set_hint,
           Direct!applied, Direct!rb_read,
           Direct!rb_set, Direct!rolled_back, Direct!adapter_raises, Direct!approve, Direct!human_sets
<1>1. ASSUME UNCHANGED journal, \A t \in Processes : at'[t] = "idle" \/ (at[t] # "idle" /\ doing'[t] = doing[t])
      PROVE  AppliedIsTyped' /\ RollbackOfEntry'
    BY <1>0, <1>1 DEF AppliedIsTyped, RollbackOfEntry
<1>2. ASSUME NEW t \in Processes, NEW phase, NEW from, NEW to, Direct!Records(phase, t, from, to),
             \A u \in Processes : at'[u] = "idle" \/ (at[u] # "idle" /\ doing'[u] = doing[u]),
             phase = "APPLIED" =>
                /\ from = doing[t].action.previous /\ to = doing[t].action.allowed
                /\ Approved(doing[t].action, from)
      PROVE  AppliedIsTyped' /\ RollbackOfEntry'
  <2> DEFINE e == [phase |-> phase, action |-> doing[t].action, before |-> from, after |-> to,
                   mode |-> doing[t].mode, approved |-> approvals[doing[t].action] = "APPROVED"]
  <2>0. /\ e.phase = phase /\ e.action = doing[t].action /\ e.before = from /\ e.after = to
        /\ approvals[doing[t].action] = "APPROVED" => e.approved
      BY Zenon
  <2>a. journal' = Append(journal, e)
      BY <1>2 DEF Direct!Records
  <2> HIDE DEF e
  <2>1. \A j \in DOMAIN journal : j \in DOMAIN journal' /\ journal'[j] = journal[j]
      BY <2>a DEF SettingInv, Direct!TypeOK
  <2>2. \A j \in DOMAIN journal' \ DOMAIN journal : journal'[j] = e
      BY <2>a DEF SettingInv, Direct!TypeOK
  <2>3. AppliedIsTyped'
    <3>1. ASSUME NEW j \in DOMAIN journal', journal'[j].phase = "APPLIED", j \in DOMAIN journal
          PROVE  /\ journal'[j].before = journal'[j].action.previous
                 /\ journal'[j].after = journal'[j].action.allowed
                 /\ journal'[j].before # NoHint => journal'[j].approved
        BY <1>0, <2>1, <3>1 DEF AppliedIsTyped
    <3>2. ASSUME NEW j \in DOMAIN journal', journal'[j].phase = "APPLIED", j \notin DOMAIN journal
          PROVE  /\ journal'[j].before = journal'[j].action.previous
                 /\ journal'[j].after = journal'[j].action.allowed
                 /\ journal'[j].before # NoHint => journal'[j].approved
        BY <1>2, <2>0, <2>2, <3>2 DEF Approved
    <3> QED
        BY <3>1, <3>2 DEF AppliedIsTyped
  <2>4. RollbackOfEntry'
      BY <1>0, <1>2, <2>1 DEF RollbackOfEntry
  <2> QED
      BY <2>3, <2>4
<1> USE DEF SettingInv, Direct!TypeOK, Direct!Goes, Direct!Ends
<1>3. ASSUME NEW t \in Processes, NEW d \in Deployments, NEW mode \in Direct!Modes,
             NEW expected \in Direct!HintValues,
             Direct!deploy(t, d, mode, expected)
      PROVE  AppliedIsTyped' /\ RollbackOfEntry'
    BY <1>0, <1>3 DEF Direct!deploy, AppliedIsTyped, RollbackOfEntry
<1>4. ASSUME NEW t \in Processes, NEW i \in DOMAIN journal, Direct!rollback(t, i)
      PROVE  AppliedIsTyped' /\ RollbackOfEntry'
    BY <1>0, <1>4 DEF Direct!rollback, AppliedIsTyped, RollbackOfEntry
<1>5. ASSUME NEW t \in Processes, Direct!acquire(t) \/ Direct!read_hint(t)
                                  \/ Direct!verify(t) \/ Direct!set_hint(t) \/ Direct!rb_read(t) \/ Direct!rb_set(t)
      PROVE  AppliedIsTyped' /\ RollbackOfEntry'
    BY <1>1, <1>5 DEF Direct!acquire, Direct!read_hint, Direct!verify, Direct!set_hint, Direct!rb_read,
                      Direct!rb_set
<1>6. ASSUME NEW t \in Processes, Direct!prepare(t)
      PROVE  AppliedIsTyped' /\ RollbackOfEntry'
    BY <1>1, <1>2, <1>6 DEF Direct!prepare
<1>7. ASSUME NEW t \in Processes, Direct!applied(t)
      PROVE  AppliedIsTyped' /\ RollbackOfEntry'
    BY <1>0, <1>1, <1>2, <1>7 DEF Direct!applied, Established
<1>8. ASSUME NEW t \in Processes, Direct!rolled_back(t)
      PROVE  AppliedIsTyped' /\ RollbackOfEntry'
    BY <1>1, <1>2, <1>8 DEF Direct!rolled_back
<1>9. ASSUME NEW t \in Processes, Direct!adapter_raises(t)
      PROVE  AppliedIsTyped' /\ RollbackOfEntry'
    BY <1>0, <1>9 DEF Direct!adapter_raises
<1>10. ASSUME NEW d \in Deployments, Direct!approve(d)
      PROVE  AppliedIsTyped' /\ RollbackOfEntry'
    BY <1>0, <1>10 DEF Direct!approve, AppliedIsTyped, RollbackOfEntry
<1>11. ASSUME NEW h \in {NoHint, HumanHint}, Direct!human_sets(h)
      PROVE  AppliedIsTyped' /\ RollbackOfEntry'
    BY <1>0, <1>11 DEF Direct!human_sets
<1>12. CASE UNCHANGED Direct!vars
    BY <1>0, <1>12 DEF Direct!vars, AppliedIsTyped, RollbackOfEntry
<1> QED
    BY <1>3, <1>4, <1>5, <1>6, <1>7, <1>8, <1>9, <1>10, <1>11, <1>12 DEF Direct!Next


\* The task under the lock keeps what it established, for nobody else is there
LEMMA StepEstablished ==
    ASSUME Direct!SettingsConstants, SettingInv, [Direct!Next]_(Direct!vars), disturbances' = 0
    PROVE  Established'
<1>0. disturbances = 0 /\ AppliedIsTyped /\ RollbackOfEntry /\ Established
    BY DEF SettingInv, Direct!TypeOK, Direct!Next, Direct!vars, Direct!deploy, Direct!rollback,
           Direct!acquire, Direct!read_hint, Direct!verify, Direct!prepare, Direct!set_hint,
           Direct!applied, Direct!rb_read,
           Direct!rb_set, Direct!rolled_back, Direct!adapter_raises, Direct!approve, Direct!human_sets
<1> USE DEF Direct!SettingsConstants, SettingInv, Direct!TypeOK, OneInside, OwnBranch, Direct!Deploying,
            Direct!RollingBack, Direct!Goes, Direct!Ends, Established, Approved
<1>1. ASSUME NEW t \in Processes, NEW d \in Deployments, NEW mode \in Direct!Modes,
             NEW expected \in Direct!HintValues,
             Direct!deploy(t, d, mode, expected)
      PROVE  Established'
    BY <1>0, <1>1 DEF Direct!deploy
<1>2. ASSUME NEW t \in Processes, NEW i \in DOMAIN journal, Direct!rollback(t, i)
      PROVE  Established'
    BY <1>0, <1>2 DEF Direct!rollback
<1>3. ASSUME NEW t \in Processes, Direct!acquire(t)
      PROVE  Established'
    BY <1>0, <1>3 DEF Direct!acquire
<1>4. ASSUME NEW t \in Processes, Direct!read_hint(t)
      PROVE  Established'
    BY <1>0, <1>4 DEF Direct!read_hint
<1>5. ASSUME NEW t \in Processes, Direct!verify(t)
      PROVE  Established'
    BY <1>0, <1>5 DEF Direct!verify, Direct!approval_required
<1>6. ASSUME NEW t \in Processes, Direct!prepare(t)
      PROVE  Established'
    BY <1>0, <1>6 DEF Direct!prepare, Direct!Records
<1>7. ASSUME NEW t \in Processes, Direct!set_hint(t)
      PROVE  Established'
    BY <1>0, <1>7 DEF Direct!set_hint
<1>8. ASSUME NEW t \in Processes, Direct!applied(t) \/ Direct!rolled_back(t)
      PROVE  Established'
    BY <1>0, <1>8 DEF Direct!applied, Direct!rolled_back
<1>9. ASSUME NEW t \in Processes, Direct!rb_read(t)
      PROVE  Established'
    BY <1>0, <1>9 DEF Direct!rb_read
<1>10. ASSUME NEW t \in Processes, Direct!rb_set(t)
      PROVE  Established'
    BY <1>0, <1>10 DEF Direct!rb_set
<1>11. ASSUME NEW t \in Processes, Direct!adapter_raises(t)
      PROVE  Established'
    BY <1>0, <1>11 DEF Direct!adapter_raises
<1>12. ASSUME NEW d \in Deployments, Direct!approve(d)
      PROVE  Established'
    BY <1>0, <1>12 DEF Direct!approve
<1>13. ASSUME NEW h \in {NoHint, HumanHint}, Direct!human_sets(h)
      PROVE  Established'
    BY <1>0, <1>13 DEF Direct!human_sets
<1>14. CASE UNCHANGED Direct!vars
    BY <1>0, <1>14 DEF Direct!vars
<1> QED
    BY <1>1, <1>2, <1>3, <1>4, <1>5, <1>6, <1>7, <1>8, <1>9, <1>10, <1>11, <1>12, <1>13, <1>14 DEF Direct!Next

\* The invariant is inductive.
LEMMA SettingStep ==
    ASSUME Direct!SettingsConstants
    PROVE  SettingInv /\ [Direct!Next]_(Direct!vars) => SettingInv'
<1> SUFFICES ASSUME SettingInv, [Direct!Next]_(Direct!vars) PROVE SettingInv'
    OBVIOUS
<1> QED
    BY SettingTypesStep, OneInsideStep, StepLedger, StepEstablished DEF SettingInv

\* It holds as long as the executor lives.
LEMMA SettingInvariance == ASSUME Direct!SettingsConstants PROVE Direct!Spec => []SettingInv
    BY SettingInit, SettingStep, PTL DEF Direct!Spec

\* query_settings.py: the hint, the ledger, the approvals and the calls hold what they may hold.
THEOREM SettingTypes == ASSUME Direct!SettingsConstants PROVE Direct!Spec => []Direct!TypeOK
    BY SettingInvariance, PTL DEF SettingInv


-----------------------------------------------------------------------------
(* Refinement: the executor implements AtomicChange *)

\* The entries of the ledger as the contract sees them
Entered == [i \in DOMAIN journal |->
               Direct!Told(journal[i].phase, journal[i].approved, journal[i].before, journal[i].after)]

\* The kinds of entries
LEMMA ToldKinds ==
    ASSUME NEW approved, NEW from, NEW to
    PROVE  /\ Direct!Told("PREPARED", approved, from, to) = [kind |-> "intended", from |-> from, to |-> to]
           /\ Direct!Told("ROLLED_BACK", approved, from, to) = [kind |-> "undone", from |-> from, to |-> to]
           /\ from = NoHint => Direct!Told("APPLIED", approved, from, to)
                             = [kind |-> "deployed", from |-> from, to |-> to]
           /\ from # NoHint /\ approved =>
                 Direct!Told("APPLIED", approved, from, to) = [kind |-> "approved", from |-> from, to |-> to]
<1>1. CASE approved
    BY <1>1 DEF Direct!Told
<1>2. CASE ~approved
    BY <1>2 DEF Direct!Told
<1> QED
    BY <1>1, <1>2

\* No task has changed the setting without its entry: the log is the ledger
LEMMA LogAtRest ==
    ASSUME \A t \in Processes : ~Direct!Changed(t)
    PROVE  Direct!Log = Entered
    BY DEF Direct!Log, Entered

\* A task has: the log is ahead by its entry
LEMMA LogAhead ==
    ASSUME SettingInv, NEW t \in Processes, Direct!Changed(t)
    PROVE  Direct!Log = Append(Entered, Direct!Pending(t))
<1>1. \A u \in Processes : Direct!Changed(u) => u = t
    BY DEF SettingInv, OneInside, Direct!Changed, Direct!Deploying, Direct!RollingBack
<1>2. (CHOOSE u \in Processes : Direct!Changed(u)) = t
    BY <1>1
<1> QED
    BY <1>2 DEF Direct!Log, Entered

\* An entry is told as it was entered
LEMMA EnteredAppends ==
    ASSUME SettingInv, NEW t \in Processes,
           NEW phase \in {"PREPARED", "APPLIED", "ROLLED_BACK"}, NEW from, NEW to,
           Direct!Records(phase, t, from, to)
    PROVE  Entered' = Append(Entered, Direct!Told(phase, approvals[doing[t].action] = "APPROVED", from, to))
<1> DEFINE e == [phase |-> phase, action |-> doing[t].action, before |-> from, after |-> to,
                 mode |-> doing[t].mode, approved |-> approvals[doing[t].action] = "APPROVED"]
<1> DEFINE told == Direct!Told(phase, approvals[doing[t].action] = "APPROVED", from, to)
<1>1. Direct!Told(e.phase, e.approved, e.before, e.after) = told
    BY Zenon
<1>2. journal' = Append(journal, e)
    BY DEF Direct!Records
<1> HIDE DEF e, told
<1>3. /\ DOMAIN journal' = 1..Len(journal) + 1
      /\ \A i \in DOMAIN journal : journal'[i] = journal[i]
      /\ journal'[Len(journal) + 1] = e
    BY <1>2 DEF SettingInv, Direct!TypeOK
<1>4. Entered' = [i \in 1..Len(journal) + 1 |-> IF i \in DOMAIN journal THEN Entered[i] ELSE told]
    BY <1>1, <1>3 DEF Entered, SettingInv, Direct!TypeOK
<1>5. Entered \in Seq({Entered[i] : i \in DOMAIN journal}) /\ Len(Entered) = Len(journal)
    BY DEF Entered, SettingInv, Direct!TypeOK
<1> QED
    BY <1>4, <1>5 DEF SettingInv, Direct!TypeOK, told


\* The same of the state after a step
LEMMA LogAfter ==
    ASSUME SettingInv'
    PROVE  /\ (\A t \in Processes : ~Direct!Changed(t)') => Direct!Log' = Entered'
           /\ \A t \in Processes : Direct!Changed(t)' => Direct!Log' = Append(Entered', Direct!Pending(t)')
<1>1. ASSUME \A t \in Processes : ~Direct!Changed(t)' PROVE Direct!Log' = Entered'
    BY <1>1 DEF Direct!Log, Entered
<1>2. ASSUME NEW t \in Processes, Direct!Changed(t)' PROVE Direct!Log' = Append(Entered', Direct!Pending(t)')
  <2>1. \A u \in Processes : Direct!Changed(u)' => u = t
      BY <1>2 DEF SettingInv, OneInside, Direct!Changed, Direct!Deploying, Direct!RollingBack
  <2>2. (CHOOSE u \in Processes : Direct!Changed(u)') = t
      BY <1>2, <2>1
  <2> QED
      BY <1>2, <2>2 DEF Direct!Log, Entered
<1> QED
    BY <1>1, <1>2

\* A step that enters nothing and changes nothing leaves the log
LEMMA LogKept ==
    ASSUME SettingInv, SettingInv', UNCHANGED journal,
           \A t \in Processes : (Direct!Changed(t)' <=> Direct!Changed(t))
                                /\ (Direct!Changed(t) => Direct!Pending(t)' = Direct!Pending(t))
    PROVE  Direct!Log' = Direct!Log
<1>1. Entered' = Entered
    BY DEF Entered
<1>2. CASE \A t \in Processes : ~Direct!Changed(t)
    BY <1>1, <1>2, LogAtRest, LogAfter
<1>3. CASE \E t \in Processes : Direct!Changed(t)
    BY <1>1, <1>3, LogAhead, LogAfter
<1> QED
    BY <1>2, <1>3

\* Nothing is in the log yet.
LEMMA AtomicInit == ASSUME Direct!SettingsConstants PROVE Direct!Init => Direct!Atomic!Init
<1> SUFFICES ASSUME Direct!Init PROVE Direct!Atomic!Init
    OBVIOUS
<1>1. Direct!Log = Entered
    BY LogAtRest DEF Direct!Init, Direct!Changed
<1>2. Entered = <<>>
    BY DEF Direct!Init, Entered
<1> QED
    BY <1>1, <1>2 DEF Direct!Init, Direct!Atomic!Init, Direct!HintValues

\* What a step of a task does to the log
LEMMA AtomicStep ==
    ASSUME Direct!SettingsConstants
    PROVE  SettingInv /\ SettingInv' /\ [Direct!Next]_(Direct!vars) => [Direct!Atomic!Next]_(Direct!Atomic!vars)
<1> SUFFICES ASSUME SettingInv, SettingInv', [Direct!Next]_(Direct!vars)
             PROVE [Direct!Atomic!Next]_(Direct!Atomic!vars)
    OBVIOUS
<1>1. CASE disturbances' # 0
    BY <1>1 DEF SettingInv, Direct!TypeOK, Direct!Atomic!Next, Direct!Atomic!Disturb
<1>2. CASE disturbances' = 0
  <2>0. disturbances = 0 /\ AppliedIsTyped /\ RollbackOfEntry /\ Established
      BY <1>2 DEF SettingInv, Direct!TypeOK, Direct!Next, Direct!vars, Direct!deploy, Direct!rollback,
                  Direct!acquire, Direct!read_hint, Direct!verify, Direct!prepare, Direct!set_hint,
                  Direct!applied,
                  Direct!rb_read, Direct!rb_set, Direct!rolled_back, Direct!adapter_raises, Direct!approve,
                  Direct!human_sets
  <2>1. ASSUME UNCHANGED <<journal, setting>>,
               \A t \in Processes : (Direct!Changed(t)' <=> Direct!Changed(t))
                                    /\ (Direct!Changed(t) => Direct!Pending(t)' = Direct!Pending(t))
        PROVE  UNCHANGED Direct!Atomic!vars
      BY <1>2, <2>0, <2>1, LogKept DEF Direct!Atomic!vars
  <2>2. ASSUME UNCHANGED <<journal, setting, approvals>>, NEW t \in Processes, ~Direct!Changed(t), ~Direct!Changed(t)',
               \A u \in Processes \ {t} : at'[u] = at[u] /\ doing'[u] = doing[u] /\ before'[u] = before[u]
        PROVE  UNCHANGED Direct!Atomic!vars
    <3>1. ASSUME NEW u \in Processes
          PROVE  (Direct!Changed(u)' <=> Direct!Changed(u))
                 /\ (Direct!Changed(u) => Direct!Pending(u)' = Direct!Pending(u))
      <4>1. CASE u = t
          BY <2>2, <4>1 DEF Direct!Changed
      <4>2. CASE u # t
          BY <2>2, <4>2 DEF Direct!Changed, Direct!Pending
      <4> QED
          BY <4>1, <4>2
    <3> QED
        BY <2>1, <2>2, <3>1
  <2>3. ASSUME NEW t \in Processes, NEW d \in Deployments, NEW mode \in Direct!Modes,
               NEW expected \in Direct!HintValues,
               Direct!deploy(t, d, mode, expected)
        PROVE  UNCHANGED Direct!Atomic!vars
      BY <2>2, <2>3 DEF Direct!deploy, Direct!Goes, Direct!Changed, SettingInv, Direct!TypeOK
  <2>4. ASSUME NEW t \in Processes, NEW i \in DOMAIN journal, Direct!rollback(t, i)
        PROVE  UNCHANGED Direct!Atomic!vars
      BY <2>2, <2>4 DEF Direct!rollback, Direct!Goes, Direct!Changed, SettingInv, Direct!TypeOK
  <2>5. ASSUME NEW t \in Processes, Direct!acquire(t) \/ Direct!read_hint(t) \/ Direct!rb_read(t)
        PROVE  UNCHANGED Direct!Atomic!vars
      BY <2>2, <2>5 DEF Direct!acquire, Direct!read_hint, Direct!rb_read, Direct!Goes, Direct!Ends,
                        Direct!Changed, SettingInv, Direct!TypeOK
  <2>6. ASSUME NEW t \in Processes, Direct!verify(t)
        PROVE  UNCHANGED Direct!Atomic!vars
    <3>1. \A u \in Processes : ~Direct!Changed(u) /\ ~Direct!Changed(u)'
        BY <2>6 DEF Direct!verify, Direct!Goes, Direct!Ends, Direct!Changed, SettingInv, Direct!TypeOK,
                    OneInside, Direct!Deploying, Direct!RollingBack
    <3> QED
        BY <2>1, <2>6, <3>1 DEF Direct!verify
  <2>7. ASSUME NEW t \in Processes, Direct!prepare(t)
        PROVE  [Direct!Atomic!Next]_(Direct!Atomic!vars)
    <3>1. \A u \in Processes : ~Direct!Changed(u) /\ ~Direct!Changed(u)'
        BY <2>7 DEF Direct!prepare, Direct!Goes, Direct!Ends, Direct!Changed, SettingInv, Direct!TypeOK,
                    OneInside, Direct!Deploying, Direct!RollingBack
    <3>2. CASE UNCHANGED journal
        BY <2>1, <2>7, <3>1, <3>2 DEF Direct!prepare
    <3>3. CASE Direct!Records("PREPARED", t, before[t], before[t])
      <4>1. Direct!Log'
              = Append(Direct!Log, Direct!Told("PREPARED", approvals[doing[t].action] = "APPROVED", before[t], before[t]))
          BY <3>1, <3>3, LogAtRest, LogAfter, EnteredAppends
      <4>2. before[t] = setting
          BY <2>0, <2>7 DEF Direct!prepare, Established
      <4> QED
          BY <1>2, <2>0, <2>7, <4>1, <4>2, ToldKinds DEF Direct!prepare, Direct!Atomic!Next,
                                                         Direct!Atomic!Intend
    <3> QED
        BY <2>7, <3>2, <3>3 DEF Direct!prepare
  <2>8. ASSUME NEW t \in Processes, Direct!set_hint(t)
        PROVE  Direct!Atomic!Next
    <3> DEFINE d == doing[t].action
    <3>1. at[t] = "set" /\ Direct!Changed(t)' /\ \A u \in Processes : ~Direct!Changed(u)
        BY <2>8 DEF Direct!set_hint, Direct!Goes, Direct!Changed, SettingInv, Direct!TypeOK, OneInside,
                    Direct!Deploying, Direct!RollingBack
    <3>2. setting = before[t] /\ setting' = d.allowed /\ Approved(d, before[t]) /\ d.allowed \in Direct!HintValues
        BY <2>0, <2>8, <3>1, CallType DEF Direct!set_hint, Established, Direct!HintValues
    <3>3. Entered' = Entered
        BY <2>8 DEF Direct!set_hint, Entered
    <3>4. Direct!Log' = Append(Direct!Log, Direct!Pending(t)')
        BY <3>1, <3>3, LogAtRest, LogAfter
    <3>5. Direct!Pending(t)' = Direct!Told("APPLIED", approvals[d] = "APPROVED", setting, d.allowed)
        BY <2>8, <3>2 DEF Direct!set_hint, Direct!Goes, Direct!Pending, SettingInv, Direct!TypeOK
    <3>6. CASE setting = NoHint
      <4>1. Direct!Pending(t)' = [kind |-> "deployed", from |-> setting, to |-> d.allowed]
          BY <3>5, <3>6, ToldKinds
      <4> QED
          BY <1>2, <3>2, <3>4, <3>6, <4>1 DEF Direct!Atomic!Next, Direct!Atomic!Deploy, Direct!Atomic!Enter
    <3>7. CASE setting # NoHint
      <4>1. Direct!Pending(t)' = [kind |-> "approved", from |-> setting, to |-> d.allowed]
          BY <3>2, <3>5, <3>7 DEF Approved, Direct!Told
      <4> QED
          BY <1>2, <3>2, <3>4, <3>7, <4>1 DEF Direct!Atomic!Next, Direct!Atomic!Replace, Direct!Atomic!Enter
    <3> QED
        BY <3>6, <3>7
  <2>9. ASSUME NEW t \in Processes, Direct!applied(t) \/ Direct!rolled_back(t)
        PROVE  UNCHANGED Direct!Atomic!vars
    <3>1. Direct!Changed(t) /\ \A u \in Processes : ~Direct!Changed(u)'
        BY <2>9 DEF Direct!applied, Direct!rolled_back, Direct!Goes, Direct!Ends, Direct!Changed,
                    SettingInv, Direct!TypeOK, OneInside, Direct!Deploying, Direct!RollingBack
    <3>2. Entered' = Append(Entered, Direct!Pending(t))
      <4>1. CASE Direct!applied(t)
        <5>1. at[t] = "observe" /\ Direct!Records("APPLIED", t, before[t], setting) /\ setting = doing[t].action.allowed
            BY <2>0, <4>1 DEF Direct!applied, Established
        <5> QED
            BY <5>1, EnteredAppends DEF Direct!Pending
      <4>2. CASE Direct!rolled_back(t)
        <5>1. /\ at[t] = "rb_observe" /\ Direct!Records("ROLLED_BACK", t, before[t], setting)
              /\ setting = doing[t].action.previous
            BY <2>0, <4>2 DEF Direct!rolled_back, Established
        <5>2. Entered'
                = Append(Entered, Direct!Told("ROLLED_BACK", approvals[doing[t].action] = "APPROVED", before[t], setting))
            BY <5>1, EnteredAppends
        <5> QED
            BY <5>1, <5>2 DEF Direct!Pending, Direct!Told
      <4> QED
          BY <2>9, <4>1, <4>2
    <3>3. Direct!Log' = Direct!Log
        BY <3>1, <3>2, LogAhead, LogAfter
    <3> QED
        BY <1>2, <2>0, <2>9, <3>3 DEF Direct!applied, Direct!rolled_back, Direct!Atomic!vars
  <2>10. ASSUME NEW t \in Processes, Direct!rb_set(t)
         PROVE  Direct!Atomic!Next
    <3> DEFINE d == doing[t].action
    <3>1. at[t] = "rb_set" /\ Direct!Changed(t)' /\ \A u \in Processes : ~Direct!Changed(u)
        BY <2>10 DEF Direct!rb_set, Direct!Goes, Direct!Changed, SettingInv, Direct!TypeOK, OneInside,
                     Direct!Deploying, Direct!RollingBack
    <3>2. setting = before[t] /\ setting = d.allowed /\ setting' = d.previous
        BY <2>0, <2>10, <3>1 DEF Direct!rb_set, Established
    <3>3. Entered' = Entered
        BY <2>10 DEF Direct!rb_set, Entered
    <3>4. Direct!Log' = Append(Direct!Log, Direct!Pending(t)')
        BY <3>1, <3>3, LogAtRest, LogAfter
    <3>5. Direct!Pending(t)' = [kind |-> "undone", from |-> setting, to |-> d.previous]
      <4>1. at'[t] = "rb_observe" /\ before'[t] = setting /\ doing'[t] = doing[t]
          BY <2>10, <3>2 DEF Direct!rb_set, Direct!Goes, SettingInv, Direct!TypeOK
      <4> QED
          BY <4>1 DEF Direct!Pending, Direct!Told
    <3>6. PICK i \in DOMAIN journal : journal[i].phase = "APPLIED" /\ journal[i].action = d
        BY <2>0, <3>1 DEF RollbackOfEntry, SettingInv, OwnBranch, Direct!RollingBack
    <3>7. journal[i].before = d.previous /\ journal[i].after = d.allowed /\ (d.previous # NoHint => journal[i].approved)
        BY <2>0, <3>6 DEF AppliedIsTyped
    <3>8. /\ i \in DOMAIN Direct!Log /\ Direct!Log[i].kind \in {"deployed", "approved"}
          /\ Direct!Log[i].from = d.previous /\ Direct!Log[i].to = d.allowed
      <4>1. Direct!Log[i] = Direct!Told("APPLIED", journal[i].approved, d.previous, d.allowed) /\ i \in DOMAIN Direct!Log
          BY <3>1, <3>6, <3>7, LogAtRest DEF Entered
      <4> QED
          BY <3>7, <4>1 DEF Direct!Told
    <3>9. Direct!Atomic!Undo(i)
        BY <1>2, <3>2, <3>4, <3>5, <3>8 DEF Direct!Atomic!Undo, Direct!Atomic!Enter
    <3> QED
        BY <3>8, <3>9 DEF Direct!Atomic!Next
  <2>11. ASSUME NEW t \in Processes, Direct!adapter_raises(t)
         PROVE  FALSE
      BY <1>2, <2>0, <2>11 DEF Direct!adapter_raises
  <2>12. ASSUME NEW h \in {NoHint, HumanHint}, Direct!human_sets(h)
         PROVE  FALSE
      BY <1>2, <2>0, <2>12 DEF Direct!human_sets
  <2>13. ASSUME NEW d \in Deployments, Direct!approve(d)
         PROVE  UNCHANGED Direct!Atomic!vars
    <3>1. ASSUME NEW u \in Processes, Direct!Changed(u)
          PROVE  Direct!Pending(u)' = Direct!Pending(u)
      <4>1. CASE at[u] = "observe" /\ before[u] # NoHint
        <5>1. approvals[doing[u].action] = "APPROVED" /\ approvals'[doing[u].action] = "APPROVED"
            BY <2>0, <2>13, <4>1, CallType DEF Direct!approve, Established, Approved, SettingInv, Direct!TypeOK
        <5> QED
            BY <2>13, <4>1, <5>1 DEF Direct!approve, Direct!Pending
      <4>2. CASE at[u] = "observe" /\ before[u] = NoHint
          BY <2>13, <4>2 DEF Direct!approve, Direct!Pending, Direct!Told
      <4>3. CASE at[u] # "observe"
          BY <2>13, <4>3 DEF Direct!approve, Direct!Pending
      <4> QED
          BY <4>1, <4>2, <4>3
    <3> QED
        BY <2>1, <2>13, <3>1 DEF Direct!approve, Direct!Changed
  <2>14. CASE UNCHANGED Direct!vars
      BY <2>1, <2>14 DEF Direct!vars, Direct!Changed, Direct!Pending
  <2> QED
      BY <2>3, <2>4, <2>5, <2>6, <2>7, <2>8, <2>9, <2>10, <2>11, <2>12, <2>13, <2>14 DEF Direct!Next
<1> QED
    BY <1>1, <1>2

\* Whatever the durable service does, the executor takes its own steps or none
LEMMA DirectAlone == AllSpec => Direct!Spec
<1>1. AllInit => Direct!Init
    BY DEF AllInit
<1>2. [AllNext]_allvars => [Direct!Next]_(Direct!vars)
    BY DEF AllNext, allvars, direct_vars, Direct!vars
<1> QED
    BY <1>1, <1>2, PTL DEF AllSpec, Direct!Spec

\* query_settings.py: deploy and rollback of one process, as its tasks interleave, are one atomic
\* change after the other as long as nobody else touches the setting and the adapter does not
\* raise; each is entered as it was made, and covers a setting that was there if it is approved.
THEOREM ExecutorIsAtomic == AllSpec => SettingsAreAtomic
<1>1. Direct!Spec => Direct!Atomic!Spec
    BY DirectConstants, SettingInvariance, AtomicInit, AtomicStep, PTL DEF Direct!Spec, Direct!Atomic!Spec
<1> QED
    BY <1>1, DirectAlone DEF SettingsAreAtomic, Direct!SettingsAreAtomic
=============================================================================
