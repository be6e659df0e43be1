-------------------------- MODULE DirectDeployment --------------------------
(***************************************************************************)
(* Deployment and rollback inside one process, without the database.       *)
(*                                                                         *)
(*   approvals/flow.py         ApprovalFlow                                *)
(*   production/executor.py    ProductionExecutor                          *)
(*   rollback/owned_index.py   OwnedIndexRollbacker                        *)
(*   ledger/chain.py           AppendOnlyLedger                            *)
(*   autonomy/policy.py        approval_required                           *)
(*                                                                         *)
(* Tasks of one event loop share the three objects and one target.  Each   *)
(* await is a point where another task, or a human at the target, may      *)
(* step in; between two awaits a task runs alone.  The executor serializes *)
(* its deployments with an asyncio lock, the rollbacker takes none.        *)
(* A state hash stands for the state hashed, the indexes of the collection.*)
(* A ledger entry is taken with the mode its deployment was asked for in,  *)
(* which the code does not store.                                          *)
(***************************************************************************)
EXTENDS Integers, Sequences, SequencesExt, FiniteSets

CONSTANTS
    Tasks, Actions, Evidence,
    NoTask, NoRequest,
    Humans,        \* may a human create and drop indexes?
    Raises,        \* may a call of the adapter raise?
    MaxCalls,      \* bound on the calls of deploy and rollback
    MaxRequests    \* bound on the requests for approval

ASSUME DirectConstants ==
    /\ NoTask \notin Tasks /\ Humans \in BOOLEAN /\ Raises \in BOOLEAN
    /\ MaxCalls \in Nat /\ MaxRequests \in Nat

VARIABLES
    approvals,   \* the requests, in the order made
    ledger,      \* entries
    indexes,     \* what each action's index name denotes on the target
    holder,      \* the task that holds the target's lock
    pc,          \* where the tasks are
    request,     \* what they were called with
    calls

vars == <<approvals, ledger, indexes, holder, pc, request, calls>>

\* "own" is the definition the action types, "human" any other under the same name
States == [Actions -> {"absent", "own", "human"}]
Statuses == {"PENDING", "APPROVED", "STALE", "EXPIRED"}
Modes == {"APPROVAL_CONTROLLED", "FULL_AUTONOMOUS"}
Entries == [phase : {"PREPARED", "APPLIED", "ROLLED_BACK"}, action : Actions, evidence : Evidence, mode : Modes,
            after : States]
Approvals == [action : Actions, evidence : Evidence, status : Statuses, approved : BOOLEAN, late : BOOLEAN]
Requests == [action : Actions, evidence : Evidence, mode : Modes, expected : States, entry : 0..(2 * MaxCalls)]
Points == {"idle", "lock", "approval", "read", "create", "observe", "verify", "before", "drop", "check"}

TypeOK ==
    /\ approvals \in Seq(Approvals)
    /\ ledger \in Seq(Entries) /\ Len(ledger) <= 2 * MaxCalls
    /\ indexes \in States
    /\ holder \in Tasks \cup {NoTask}
    /\ pc \in [Tasks -> Points]
    /\ request \in [Tasks -> Requests \cup {NoRequest}]
    /\ calls \in 0..MaxCalls

AllAbsent == [a \in Actions |-> "absent"]

Init ==
    /\ approvals = <<>> /\ ledger = <<>> /\ indexes = AllAbsent
    /\ holder = NoTask
    /\ pc = [t \in Tasks |-> "idle"]
    /\ request = [t \in Tasks |-> NoRequest]
    /\ calls = 0

Goto(t, point) == pc' = [pc EXCEPT ![t] = point] /\ UNCHANGED request
Return(t) == pc' = [pc EXCEPT ![t] = "idle"] /\ request' = [request EXCEPT ![t] = NoRequest]
Record(t, phase, after) ==
    ledger' = Append(ledger, [phase |-> phase, action |-> request[t].action,
                              evidence |-> request[t].evidence, mode |-> request[t].mode, after |-> after])

-----------------------------------------------------------------------------
(* ApprovalFlow: synchronous *)

ask_approval(a, e) ==
    /\ Len(approvals) < MaxRequests
    /\ approvals' = Append(approvals, [action |-> a, evidence |-> e, status |-> "PENDING",
                                      approved |-> FALSE, late |-> FALSE])
    /\ UNCHANGED <<ledger, indexes, holder, pc, request, calls>>

Decided(approval) ==
    IF approval.late THEN [approval EXCEPT !.status = "EXPIRED"]
    ELSE [approval EXCEPT !.status = "APPROVED", !.approved = TRUE]

approve(i) ==
    /\ approvals[i].late \/ approvals[i].status = "PENDING"
    /\ approvals' = [approvals EXCEPT ![i] = Decided(@)]
    /\ UNCHANGED <<ledger, indexes, holder, pc, request, calls>>

\* The request's lifetime passes.
expire(i) ==
    /\ ~approvals[i].late
    /\ approvals' = [approvals EXCEPT ![i].late = TRUE]
    /\ UNCHANGED <<ledger, indexes, holder, pc, request, calls>>

\* require_current_approval marks what it finds approved, late or for other evidence
Reviewed(a, e) ==
    [i \in DOMAIN approvals |->
        IF approvals[i].action # a \/ approvals[i].status # "APPROVED" THEN approvals[i]
        ELSE [approvals[i] EXCEPT !.status = IF approvals[i].late THEN "EXPIRED"
                                             ELSE IF approvals[i].evidence # e THEN "STALE" ELSE @]]

Current(a, e) == \E i \in DOMAIN approvals :
    Reviewed(a, e)[i].action = a /\ Reviewed(a, e)[i].status = "APPROVED" /\ approvals[i].evidence = e

-----------------------------------------------------------------------------
(* ProductionExecutor.deploy *)

Call(t, r, point) ==
    /\ pc[t] = "idle" /\ calls < MaxCalls
    /\ calls' = calls + 1
    /\ request' = [request EXCEPT ![t] = r]
    /\ pc' = [pc EXCEPT ![t] = point]
    /\ UNCHANGED <<approvals, ledger, indexes, holder>>

\* An admitted action comes with its evidence, the mode of deployment and the state it was
\* verified against, the present one or an earlier one.
deploy(t, a, e, mode) ==
    \E s \in {AllAbsent, indexes} :
        Call(t, [action |-> a, evidence |-> e, mode |-> mode, expected |-> s, entry |-> 0], "lock")

\* async with that finds the lock free only in its own task
acquire_Unlocked(t) ==
    /\ pc[t] = "lock"
    /\ holder' = t /\ Goto(t, "approval")
    /\ UNCHANGED <<approvals, ledger, indexes, calls>>

acquire(t) ==
    /\ pc[t] = "lock" /\ holder = NoTask
    /\ holder' = t /\ Goto(t, "approval")
    /\ UNCHANGED <<approvals, ledger, indexes, calls>>

\* The task raises or returns: async with lets the lock go.
Exit(t) == Return(t) /\ holder' = IF holder = t THEN NoTask ELSE holder

\* The creation of an index is of the types that may go without, in that mode.
approval_required(mode) == mode # "FULL_AUTONOMOUS"

\* Where none is required, the approvals are not looked at.
require_current_approval(t) ==
    LET a == request[t].action  e == request[t].evidence IN
    /\ pc[t] = "approval"
    /\ IF approval_required(request[t].mode)
       THEN /\ approvals' = Reviewed(a, e)
            /\ IF Current(a, e) THEN Goto(t, "read") /\ UNCHANGED holder ELSE Exit(t)
       ELSE Goto(t, "read") /\ UNCHANGED <<approvals, holder>>
    /\ UNCHANGED <<ledger, indexes, calls>>

verify_preconditions(t) == indexes[request[t].action] = "absent"
verify_applied(t) == indexes[request[t].action] = "own"

\* The target is in the expected state and has no index of the name: PREPARED.
prepare(t) ==
    /\ pc[t] = "read"
    /\ IF indexes = request[t].expected /\ verify_preconditions(t)
       THEN Record(t, "PREPARED", indexes) /\ Goto(t, "create") /\ UNCHANGED holder
       ELSE Exit(t) /\ UNCHANGED ledger
    /\ UNCHANGED <<approvals, indexes, calls>>

\* create_index of the target: it keeps an equal index and refuses another of the name.
create_index(t) ==
    /\ pc[t] = "create"
    /\ IF indexes[request[t].action] = "human" THEN Exit(t) /\ UNCHANGED indexes
       ELSE /\ indexes' = [indexes EXCEPT ![request[t].action] = "own"]
            /\ Goto(t, "observe") /\ UNCHANGED holder
    /\ UNCHANGED <<approvals, ledger, calls>>

\* _verify_applied, then APPLIED, and deploy returns
applied(t) ==
    /\ pc[t] = "observe"
    /\ IF verify_applied(t) THEN Record(t, "APPLIED", indexes) ELSE UNCHANGED ledger
    /\ Exit(t)
    /\ UNCHANGED <<approvals, indexes, calls>>

-----------------------------------------------------------------------------
(* OwnedIndexRollbacker.rollback *)

\* An APPLIED entry of the ledger is to be rolled back.
rollback(t, n) ==
    /\ ledger[n].phase = "APPLIED"
    /\ Call(t, [action |-> ledger[n].action, evidence |-> ledger[n].evidence, mode |-> ledger[n].mode,
                expected |-> AllAbsent, entry |-> n], "verify")

\* _verify_ownership: the index is the one typed and nothing else has changed
verify_ownership(t) ==
    /\ pc[t] = "verify"
    /\ LET own == indexes[request[t].action] = "own" /\ indexes = ledger[request[t].entry].after
       IN  IF own THEN Goto(t, "before") ELSE Return(t)
    /\ UNCHANGED <<approvals, ledger, indexes, holder, calls>>

\* The state is read once more, for the record only.
before_state(t) ==
    /\ pc[t] = "before"
    /\ Goto(t, "drop")
    /\ UNCHANGED <<approvals, ledger, indexes, holder, calls>>

\* drop_index of the target, which raises when there is none
drop_index(t) ==
    /\ pc[t] = "drop"
    /\ IF indexes[request[t].action] = "absent" THEN Return(t) /\ UNCHANGED indexes
       ELSE Goto(t, "check") /\ indexes' = [indexes EXCEPT ![request[t].action] = "absent"]
    /\ UNCHANGED <<approvals, ledger, holder, calls>>

\* The index is gone: ROLLED_BACK.  It is there again: RESULTING_STATE_MISMATCH.
rolled_back(t) ==
    /\ pc[t] = "check"
    /\ IF indexes[request[t].action] = "absent" THEN Record(t, "ROLLED_BACK", indexes) ELSE UNCHANGED ledger
    /\ Return(t)
    /\ UNCHANGED <<approvals, indexes, holder, calls>>

-----------------------------------------------------------------------------

\* An adapter call raises, before or instead of its effect.
adapter_raises(t) ==
    /\ Raises /\ pc[t] \in {"read", "create", "observe", "verify", "before", "drop", "check"}
    /\ Exit(t)
    /\ UNCHANGED <<approvals, ledger, indexes, calls>>

human_edit(a, definition) ==
    /\ Humans /\ indexes[a] # definition
    /\ indexes' = [indexes EXCEPT ![a] = definition]
    /\ UNCHANGED <<approvals, ledger, holder, pc, request, calls>>

Deploying(t) ==
    \/ acquire(t) \/ require_current_approval(t) \/ prepare(t) \/ create_index(t) \/ applied(t)
RollingBack(t) == verify_ownership(t) \/ before_state(t) \/ drop_index(t) \/ rolled_back(t)

Next ==
    \/ \E a \in Actions, e \in Evidence : ask_approval(a, e)
    \/ \E i \in DOMAIN approvals : approve(i) \/ expire(i)
    \/ \E t \in Tasks :
          \/ \E a \in Actions, e \in Evidence, mode \in Modes : deploy(t, a, e, mode)
          \/ \E n \in DOMAIN ledger : rollback(t, n)
          \/ Deploying(t) \/ RollingBack(t) \/ adapter_raises(t)
    \/ \E a \in Actions : \E d \in {"absent", "human"} : human_edit(a, d)

Spec == Init /\ [][Next]_vars

-----------------------------------------------------------------------------
(* Properties *)

\* acquire, "Lock, verify, ledger, execute, verify, ledger, and always unlock": an APPLIED
\* entry answers the last PREPARED one; no other deployment comes between the two.
AppliedAnswersPrepared ==
    \A n \in DOMAIN ledger : ledger[n].phase = "APPLIED" =>
        \E m \in 1..(n - 1) :
            /\ ledger[m].phase = "PREPARED"
            /\ ledger[m].action = ledger[n].action /\ ledger[m].evidence = ledger[n].evidence
            /\ \A k \in (m + 1)..(n - 1) : ledger[k].phase = "ROLLED_BACK"

\* ApprovalFlow, "reject stale approval at deployment time": every deployment that was
\* prepared and not asked for in FULL_AUTONOMOUS had an approval of its own evidence, though
\* it may have lapsed since.
PreparedWasApproved ==
    \A n \in DOMAIN ledger : ledger[n].phase = "PREPARED" /\ approval_required(ledger[n].mode) =>
        \E i \in DOMAIN approvals :
            /\ approvals[i].action = ledger[n].action /\ approvals[i].evidence = ledger[n].evidence
            /\ approvals[i].approved

\* deploy, whatever overlaps, raises or lapses meanwhile: approved where its mode requires it,
\* then PREPARED, then APPLIED
DeploymentsInOrder == PreparedWasApproved /\ AppliedAnswersPrepared

\* The last word of the ledger on an action
LastOf(a) == SelectLastInSeq(ledger, LAMBDA entry : entry.action = a)

\* applied, rolled_back: at rest and without outside interference, an index is there
\* exactly if the ledger's last entry of its action says APPLIED.  Rollbacks overlap
\* deployments and each other.
TargetIsAsLedgered ==
    (\A t \in Tasks : pc[t] = "idle") =>
        \A a \in Actions :
            (indexes[a] = "own") = (LastOf(a) # 0 /\ ledger[LastOf(a)].phase = "APPLIED")

\* OwnedIndexRollbacker, "Remove an index only when all ownership and no-drift checks
\* still hold": what is dropped is the index, in the state, that the entry recorded.
DropsWhatItVerified ==
    [][\A t \in Tasks : drop_index(t) => indexes' = indexes \/ indexes = ledger[request[t].entry].after]_vars
=============================================================================
