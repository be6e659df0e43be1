--------------------------- MODULE DirectSettings ---------------------------
(***************************************************************************)
(* The query-settings executor that lives in the memory of one process.    *)
(*                                                                         *)
(*   production/query_settings.py     deploy and rollback                  *)
(*   approvals/flow.py, autonomy/policy.py, ledger/chain.py  what it calls *)
(*                                                                         *)
(* One query shape of one target.  An action is the hint it sets and the   *)
(* hint it expects to replace.  Each action here is one await, or the code *)
(* between two of them; a branch that raises ends the call and frees the   *)
(* lock.                                                                   *)
(***************************************************************************)
EXTENDS Integers, Sequences, SequencesExt

CONSTANTS
    Tasks, NoTask,
    Deployments,   \* the typed actions: allowed and previous
    NoHint, HumanHint,
    MaxDeployments, MaxDisturbances

HintValues == {NoHint, HumanHint} \cup {d.allowed : d \in Deployments}

SettingsConstants ==
    /\ NoTask \notin Tasks /\ NoHint # HumanHint
    /\ \A d \in Deployments : d.allowed \notin {NoHint, HumanHint} /\ d.previous \in HintValues
    /\ MaxDeployments \in Nat /\ MaxDisturbances \in Nat

VARIABLES
    hint,       \* the setting of the shape in MongoDB
    journal,    \* the ledger's entries about it
    approvals,  \* the state of the approval of each action
    holder,     \* who has the lock of the target
    at, doing,  \* where a task is, and what it was called with
    before,     \* the hint it read
    deployments,
    disturbances  \* settings of others, and calls of the adapter that raised

vars == <<hint, journal, approvals, holder, at, doing, before, deployments, disturbances>>

Modes == {"APPROVAL_CONTROLLED", "FULL_AUTONOMOUS"}
Idle == [kind |-> "none"]
Entry == [phase : {"PREPARED", "APPLIED", "ROLLED_BACK"}, action : Deployments, before : HintValues, after : HintValues,
          mode : Modes, approved : BOOLEAN]

Deploying == {"read", "gate", "list", "set", "observe"}
RollingBack == {"rb_read", "rb_set", "rb_observe"}

\* What a task was called with
Calls ==
    [kind : {"deploy"}, action : Deployments, mode : Modes, expected : HintValues]
        \cup [kind : {"rollback"}, action : Deployments, mode : Modes]

TypeOK ==
    /\ hint \in HintValues /\ journal \in Seq(Entry) /\ before \in [Tasks -> HintValues]
    /\ approvals \in [Deployments -> {"PENDING", "APPROVED", "EXPIRED", "STALE"}]
    /\ holder \in Tasks \cup {NoTask}
    /\ at \in [Tasks -> {"idle", "lock"} \cup Deploying \cup RollingBack]
    /\ doing \in [Tasks -> Calls \cup {Idle}]
    /\ disturbances \in Nat /\ deployments \in Nat

Init ==
    /\ hint \in {NoHint, HumanHint} /\ journal = <<>>
    /\ approvals = [d \in Deployments |-> "PENDING"]
    /\ holder = NoTask /\ at = [t \in Tasks |-> "idle"] /\ doing = [t \in Tasks |-> Idle]
    /\ before = [t \in Tasks |-> NoHint] /\ deployments = 0 /\ disturbances = 0

Goes(t, point) == at' = [at EXCEPT ![t] = point]

\* It returns or raises, which leaves the async with
Ends(t) ==
    /\ Goes(t, "idle") /\ doing' = [doing EXCEPT ![t] = Idle]
    /\ before' = [before EXCEPT ![t] = NoHint]
    /\ holder' = IF holder = t THEN NoTask ELSE holder

Records(phase, t, from, to) ==
    journal' = Append(journal, [phase |-> phase, action |-> doing[t].action, before |-> from, after |-> to,
                                mode |-> doing[t].mode, approved |-> approvals[doing[t].action] = "APPROVED"])

deploy(t, d, mode, expected) ==
    /\ at[t] = "idle" /\ deployments < MaxDeployments /\ deployments' = deployments + 1
    /\ doing' = [doing EXCEPT ![t] = [kind |-> "deploy", action |-> d, mode |-> mode, expected |-> expected]]
    /\ Goes(t, "lock") /\ UNCHANGED <<hint, journal, approvals, holder, before, disturbances>>

\* Of an entry of the ledger that says APPLIED
rollback(t, i) ==
    /\ at[t] = "idle" /\ deployments < MaxDeployments /\ deployments' = deployments + 1
    /\ journal[i].phase = "APPLIED"
    /\ doing' = [doing EXCEPT ![t] = [kind |-> "rollback", action |-> journal[i].action, mode |-> journal[i].mode]]
    /\ Goes(t, "lock") /\ UNCHANGED <<hint, journal, approvals, holder, before, disturbances>>

acquire(t) ==
    /\ at[t] = "lock" /\ holder = NoTask
    /\ holder' = t /\ Goes(t, IF doing[t].kind = "deploy" THEN "read" ELSE "rb_read")
    /\ UNCHANGED <<hint, journal, approvals, doing, before, deployments, disturbances>>

read_hint(t) ==
    /\ at[t] = "read" /\ before' = [before EXCEPT ![t] = hint] /\ Goes(t, "gate")
    /\ UNCHANGED <<hint, journal, approvals, holder, doing, deployments, disturbances>>

\* A mistake: the mode alone decides
approval_required_ModeOnly(t) == doing[t].mode # "FULL_AUTONOMOUS"

\* The permanent human gate: a setting that is there is somebody's
approval_required(t) == before[t] # NoHint \/ doing[t].mode # "FULL_AUTONOMOUS"

\* The state hash and the typed inverse evidence agree, and who must approve has approved;
\* an approval of other evidence becomes STALE by being presented
verify(t) ==
    /\ at[t] = "gate"
    /\ LET agrees == before[t] = doing[t].expected /\ before[t] = doing[t].action.previous
           allowed == approval_required(t) => approvals[doing[t].action] = "APPROVED"
       IN \/ agrees /\ allowed /\ Goes(t, "list") /\ UNCHANGED <<holder, doing, before, approvals>>
          \/ ~(agrees /\ allowed) /\ Ends(t) /\ UNCHANGED approvals
          \/ /\ agrees /\ approval_required(t) /\ approvals[doing[t].action] = "APPROVED" /\ Ends(t)
             /\ \E s \in {"EXPIRED", "STALE"} : approvals' = [approvals EXCEPT ![doing[t].action] = s]
    /\ UNCHANGED <<hint, journal, deployments, disturbances>>

\* list_indexes, all allowed ones are there or it raises, and the intent is entered
prepare(t) ==
    /\ at[t] = "list"
    /\ \/ Records("PREPARED", t, before[t], before[t]) /\ Goes(t, "set") /\ UNCHANGED <<holder, doing, before>>
       \/ Ends(t) /\ UNCHANGED journal
    /\ UNCHANGED <<hint, approvals, deployments, disturbances>>

set_hint(t) ==
    /\ at[t] = "set" /\ hint' = doing[t].action.allowed /\ Goes(t, "observe")
    /\ UNCHANGED <<journal, approvals, holder, doing, before, deployments, disturbances>>

\* The setting is read back: what the action sets, or it raises
applied(t) ==
    /\ at[t] = "observe" /\ Ends(t)
    /\ IF hint = doing[t].action.allowed THEN Records("APPLIED", t, before[t], hint) ELSE UNCHANGED journal
    /\ UNCHANGED <<hint, approvals, deployments, disturbances>>

\* Another hint than the action's blocks its rollback
rb_read(t) ==
    /\ at[t] = "rb_read"
    /\ IF hint = doing[t].action.allowed
       THEN before' = [before EXCEPT ![t] = hint] /\ Goes(t, "rb_set") /\ UNCHANGED <<holder, doing>>
       ELSE Ends(t)
    /\ UNCHANGED <<hint, journal, approvals, deployments, disturbances>>

rb_set(t) ==
    /\ at[t] = "rb_set" /\ hint' = doing[t].action.previous /\ Goes(t, "rb_observe")
    /\ UNCHANGED <<journal, approvals, holder, doing, before, deployments, disturbances>>

rolled_back(t) ==
    /\ at[t] = "rb_observe" /\ Ends(t)
    /\ IF hint = doing[t].action.previous THEN Records("ROLLED_BACK", t, before[t], hint) ELSE UNCHANGED journal
    /\ UNCHANGED <<hint, approvals, deployments, disturbances>>

-----------------------------------------------------------------------------
(* The others *)

approve(d) ==
    /\ approvals[d] = "PENDING" /\ approvals' = [approvals EXCEPT ![d] = "APPROVED"]
    /\ UNCHANGED <<hint, journal, holder, at, doing, before, deployments, disturbances>>

human_sets(h) ==
    /\ disturbances < MaxDisturbances /\ disturbances' = disturbances + 1
    /\ h # hint /\ hint' = h
    /\ UNCHANGED <<journal, approvals, holder, at, doing, before, deployments>>

adapter_raises(t) ==
    /\ disturbances < MaxDisturbances /\ disturbances' = disturbances + 1
    /\ at[t] \in {"read", "list", "set", "observe", "rb_read", "rb_set", "rb_observe"}
    /\ Ends(t) /\ UNCHANGED <<hint, journal, approvals, deployments>>

Next ==
    \/ \E t \in Tasks :
        \/ \E d \in Deployments, mode \in Modes, expected \in HintValues : deploy(t, d, mode, expected)
        \/ \E i \in DOMAIN journal : rollback(t, i)
        \/ acquire(t) \/ read_hint(t) \/ verify(t) \/ prepare(t) \/ set_hint(t) \/ applied(t)
        \/ rb_read(t) \/ rb_set(t) \/ rolled_back(t) \/ adapter_raises(t)
    \/ \E d \in Deployments : approve(d)
    \/ \E h \in {NoHint, HumanHint} : human_sets(h)

Spec == Init /\ [][Next]_vars

-----------------------------------------------------------------------------
(* Properties *)

\* What an entry of the ledger tells
Told(phase, approved, from, to) ==
    [kind |-> IF phase = "PREPARED" THEN "intended"
              ELSE IF phase = "ROLLED_BACK" THEN "undone"
              ELSE IF from = NoHint THEN "deployed"
              ELSE IF approved THEN "approved" ELSE "unapproved",
     from |-> from, to |-> to]

\* What the task that changed the setting will enter
Pending(t) ==
    IF at[t] = "observe"
    THEN Told("APPLIED", approvals[doing[t].action] = "APPROVED", before[t], doing[t].action.allowed)
    ELSE Told("ROLLED_BACK", FALSE, before[t], doing[t].action.previous)

Changed(t) == at[t] \in {"observe", "rb_observe"}

Log ==
    LET told == [i \in DOMAIN journal |->
                    Told(journal[i].phase, journal[i].approved, journal[i].before, journal[i].after)]
    IN IF \E t \in Tasks : Changed(t) THEN Append(told, Pending(CHOOSE t \in Tasks : Changed(t))) ELSE told

Atomic == INSTANCE AtomicChange WITH
    Settings <- HintValues, setting <- hint, log <- Log, disturbed <- disturbances > 0

\* deploy and rollback, whatever order the tasks call them in: changes come one after the
\* other, each is in the ledger with what it replaced and what it left, and a setting that was
\* there is replaced only under an approval that was current, also in full autonomy.
SettingsAreAtomic == Atomic!Spec
=============================================================================
