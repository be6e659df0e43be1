---------------------------- MODULE QuerySettings ----------------------------
(***************************************************************************)
(* Deployment and rollback of query-settings index hints.                  *)
(*                                                                         *)
(*   production/query_settings_durable.py                                  *)
(*                         DurableQuerySettingsDeploymentService           *)
(*                                                                         *)
(* One target and one query shape, whose hint the program and operators    *)
(* set.  A deployment row is found by its idempotency key, the hash of     *)
(* action and evidence.  An action is the hint it sets and the setting it  *)
(* was planned against, which deploy hashes but does not look at: several  *)
(* actions may set one hint.  Processes call deploy and rollback for any   *)
(* key, in any order and again after failures.                             *)
(* Each action is one transaction, one MongoDB command, or the local code  *)
(* between two awaits.  A call that raises is the action raises: a branch  *)
(* of the code that raises has no other action here.                       *)
(***************************************************************************)
EXTENDS Integers, Sequences, SequencesExt

CONSTANTS
    Processes, Nobody,
    Hints,      \* the hints the actions set
    Actions,    \* the actions
    HumanHint,  \* a hint that no action sets
    NoHint,     \* no setting for the shape
    Human,      \* who makes the operators' settings
    Evidence,   \* evidence hashes
    Absent,     \* no deployment row
    MaxCalls, MaxCrashes, MaxEdits    \* bounds

VARIABLES
    hint,      \* the setting in MongoDB
    rows,      \* query_settings_deployments, by idempotency key
    ledger,    \* production_ledger_entries of these deployments: key and event
    lock,      \* holder of the target's advisory lock
    pc, call,  \* the processes and what they were called for
    saw,       \* the hint a process read last
    status,    \* the row's status as rollback loaded it
    maker,     \* who made the present setting (history)
    replaced,  \* what a key's deployment overwrote (history)
    calls, crashes, edits

vars == <<hint, rows, ledger, lock, pc, call, saw, status, maker, replaced, calls, crashes, edits>>

Keys == [action : Actions, evidence : Evidence]
Settings == Hints \cup {HumanHint, NoHint}
Statuses == {"INTENT_RECORDED", "APPLIED", "ROLLBACK_INTENT", "ROLLED_BACK"}
Row == [status : Statuses, before : Settings, after : Settings]

ASSUME QuerySettingsConstants ==
    /\ Nobody \notin Processes /\ Actions # {} /\ Evidence # {}
    /\ Actions \subseteq [allowed : Hints, previous : Settings]
    /\ NoHint \notin Hints \cup {HumanHint} /\ HumanHint \notin Hints
    /\ Absent \notin Row /\ Human \notin Keys /\ Nobody \notin Keys
    /\ MaxCalls \in Nat /\ MaxCrashes \in Nat /\ MaxEdits \in Nat

Events == {"QUERY_SETTINGS_APPLIED", "QUERY_SETTINGS_ROLLED_BACK"}
Points == {"idle", "acquire", "read", "insert", "set", "observe", "mark",
           "rb_intent", "rb_set", "rb_observe", "rb_mark", "check", "append", "return"}

TypeOK ==
    /\ hint \in Settings
    /\ rows \in [Keys -> Row \cup {Absent}]
    /\ ledger \in Seq(Keys \X Events)
    /\ lock \in Processes \cup {Nobody}
    /\ pc \in [Processes -> Points]
    /\ call \in [Processes -> [op : {"deploy", "rollback"}, key : Keys]]
    /\ saw \in [Processes -> Settings]
    /\ status \in [Processes -> Statuses]
    /\ maker \in Keys \cup {Human, Nobody}
    /\ replaced \in [Keys -> Settings]
    /\ calls \in Nat /\ crashes \in Nat /\ edits \in Nat

\* The shape has no setting yet, or one that an operator made.
Init ==
    /\ hint \in {NoHint, HumanHint}
    /\ maker = IF hint = NoHint THEN Nobody ELSE Human
    /\ rows = [k \in Keys |-> Absent]
    /\ ledger = <<>>
    /\ lock = Nobody
    /\ pc = [p \in Processes |-> "idle"]
    /\ call \in [Processes -> {[op |-> "deploy", key |-> CHOOSE k \in Keys : TRUE]}]
    /\ saw = [p \in Processes |-> NoHint]
    /\ status = [p \in Processes |-> "INTENT_RECORDED"]
    /\ replaced = [k \in Keys |-> NoHint]
    /\ calls = 0 /\ crashes = 0 /\ edits = 0

Key(p) == call[p].key
Hint(p) == Key(p).action.allowed
Goto(p, point) == pc' = [pc EXCEPT ![p] = point]
Local(p, point) == Goto(p, point) /\ UNCHANGED <<lock, call, status, calls, crashes, edits>>

\* The finally clause: the lock is released, and the call is over.
Release(p) == lock' = IF lock = p THEN Nobody ELSE lock
Over(p) ==
    /\ Release(p)
    /\ Goto(p, "idle")
    /\ UNCHANGED <<hint, rows, ledger, call, saw, status, maker, replaced>>

call_deploy(p, k) ==
    /\ pc[p] = "idle" /\ calls < MaxCalls
    /\ calls' = calls + 1
    /\ call' = [call EXCEPT ![p] = [op |-> "deploy", key |-> k]]
    /\ Goto(p, "acquire")
    /\ UNCHANGED <<hint, rows, ledger, lock, saw, status, maker, replaced, crashes, edits>>

\* rollback loads the row before it has the lock.
call_rollback(p, k) ==
    /\ pc[p] = "idle" /\ calls < MaxCalls
    /\ rows[k] # Absent /\ rows[k].status # "INTENT_RECORDED"
    /\ calls' = calls + 1
    /\ call' = [call EXCEPT ![p] = [op |-> "rollback", key |-> k]]
    /\ status' = [status EXCEPT ![p] = rows[k].status]
    /\ Goto(p, "acquire")
    /\ UNCHANGED <<hint, rows, ledger, lock, saw, maker, replaced, crashes, edits>>

\* try_acquire; a held lock raises
acquire(p) ==
    /\ pc[p] = "acquire" /\ lock = Nobody
    /\ lock' = p
    /\ Goto(p, "read")
    /\ UNCHANGED <<hint, rows, ledger, call, saw, status, maker, replaced, calls, crashes, edits>>

-----------------------------------------------------------------------------
(* deploy *)

\* Where the row and the present setting lead; "raise" is nowhere
DeployBranch(row, allowed, current) ==
    IF row = Absent THEN IF current = NoHint THEN "insert" ELSE "raise"
    ELSE CASE row.status = "APPLIED" -> IF current = allowed THEN "check" ELSE "raise"
           [] row.status = "INTENT_RECORDED" /\ current = allowed -> "mark"
           [] OTHER -> "set"

\* _deploy_locked reads the setting and the row, which only the lock's holder writes.
deploy_read(p) ==
    /\ pc[p] = "read" /\ call[p].op = "deploy"
    /\ saw' = [saw EXCEPT ![p] = hint]
    /\ LET next == DeployBranch(rows[Key(p)], Hint(p), hint)
       IN  next # "raise" /\ Local(p, next)
    /\ UNCHANGED <<hint, rows, ledger, maker, replaced>>

\* _intent; uq_query_settings_owned refuses a second row of the same action
insert(p) ==
    /\ pc[p] = "insert"
    /\ \A k \in Keys : k.action = Key(p).action => rows[k] = Absent
    /\ rows' = [rows EXCEPT ![Key(p)] = [status |-> "INTENT_RECORDED", before |-> saw[p],
                                         after |-> NoHint]]
    /\ Local(p, "set")
    /\ UNCHANGED <<hint, ledger, saw, maker, replaced>>

set(p) ==
    /\ pc[p] = "set"
    /\ hint' = Hint(p)
    /\ maker' = IF hint = Hint(p) THEN maker ELSE Key(p)
    /\ replaced' = [replaced EXCEPT ![Key(p)] = IF hint = Hint(p) THEN @ ELSE hint]
    /\ Local(p, "observe")
    /\ UNCHANGED <<rows, ledger, saw>>

\* observe without the comparison
observe_Unverified(p) ==
    /\ pc[p] = "observe"
    /\ saw' = [saw EXCEPT ![p] = hint]
    /\ Local(p, "mark")
    /\ UNCHANGED <<hint, rows, ledger, maker, replaced>>

\* The effect is read back and compared.
observe(p) ==
    /\ pc[p] = "observe" /\ hint = Hint(p)
    /\ saw' = [saw EXCEPT ![p] = hint]
    /\ Local(p, "mark")
    /\ UNCHANGED <<hint, rows, ledger, maker, replaced>>

\* _mark
Mark(p, to) ==
    rows' = [rows EXCEPT ![Key(p)] = [status |-> to, before |-> @.before, after |-> saw[p]]]

mark(p) ==
    /\ pc[p] = "mark"
    /\ Mark(p, "APPLIED")
    /\ Local(p, "check")
    /\ UNCHANGED <<hint, ledger, saw, maker, replaced>>

-----------------------------------------------------------------------------
(* rollback *)

RollbackBranch(p, row, current) ==
    CASE status[p] = "ROLLED_BACK" -> IF current = row.before THEN "check" ELSE "raise"
      [] status[p] = "ROLLBACK_INTENT" /\ current = row.before -> "rb_mark"
      [] OTHER -> IF current = Hint(p) THEN "rb_intent" ELSE "raise"

\* rb_read without the ownership check
rb_read_Unchecked(p) ==
    /\ pc[p] = "read" /\ call[p].op = "rollback"
    /\ saw' = [saw EXCEPT ![p] = hint]
    /\ LET next == RollbackBranch(p, rows[Key(p)], hint)
       IN  Local(p, IF next = "raise" THEN "rb_intent" ELSE next)
    /\ UNCHANGED <<hint, rows, ledger, maker, replaced>>

\* The decision rests on the present setting and on the status loaded earlier.
rb_read(p) ==
    /\ pc[p] = "read" /\ call[p].op = "rollback"
    /\ saw' = [saw EXCEPT ![p] = hint]
    /\ LET next == RollbackBranch(p, rows[Key(p)], hint)
       IN  next # "raise" /\ Local(p, next)
    /\ UNCHANGED <<hint, rows, ledger, maker, replaced>>

rb_intent(p) ==
    /\ pc[p] = "rb_intent"
    /\ Mark(p, "ROLLBACK_INTENT")
    /\ Local(p, "rb_set")
    /\ UNCHANGED <<hint, ledger, saw, maker, replaced>>

rb_set(p) ==
    /\ pc[p] = "rb_set"
    /\ hint' = rows[Key(p)].before
    /\ maker' = Nobody
    /\ Local(p, "rb_observe")
    /\ UNCHANGED <<rows, ledger, saw, replaced>>

rb_observe(p) ==
    /\ pc[p] = "rb_observe" /\ hint = rows[Key(p)].before
    /\ saw' = [saw EXCEPT ![p] = hint]
    /\ Local(p, "rb_mark")
    /\ UNCHANGED <<hint, rows, ledger, maker, replaced>>

rb_mark(p) ==
    /\ pc[p] = "rb_mark"
    /\ Mark(p, "ROLLED_BACK")
    /\ Local(p, "check")
    /\ UNCHANGED <<hint, ledger, saw, maker, replaced>>

-----------------------------------------------------------------------------
(* _append_once: a query, then an insertion, not in one transaction *)

Entry(p) == <<Key(p), IF call[p].op = "deploy" THEN "QUERY_SETTINGS_APPLIED"
                      ELSE "QUERY_SETTINGS_ROLLED_BACK">>

\* check that appends whatever it finds
check_Ignored(p) ==
    /\ pc[p] = "check"
    /\ Local(p, "append")
    /\ UNCHANGED <<hint, rows, ledger, saw, maker, replaced>>

check(p) ==
    /\ pc[p] = "check"
    /\ Local(p, IF Contains(ledger, Entry(p)) THEN "return" ELSE "append")
    /\ UNCHANGED <<hint, rows, ledger, saw, maker, replaced>>

append(p) ==
    /\ pc[p] = "append"
    /\ ledger' = Append(ledger, Entry(p))
    /\ Local(p, "return")
    /\ UNCHANGED <<hint, rows, saw, maker, replaced>>

return(p) == pc[p] = "return" /\ Over(p) /\ UNCHANGED <<calls, crashes, edits>>

raises(p) == pc[p] \notin {"idle", "return"} /\ Over(p) /\ UNCHANGED <<calls, crashes, edits>>

\* The process dies; PostgreSQL ends its session and with it the advisory lock.
crash(p) ==
    /\ pc[p] # "idle" /\ crashes < MaxCrashes
    /\ crashes' = crashes + 1
    /\ Over(p)
    /\ UNCHANGED <<calls, edits>>

\* An operator sets or removes the hint.
human_edit ==
    /\ edits < MaxEdits
    /\ edits' = edits + 1
    /\ \E h \in Settings \ {hint} :
          /\ hint' = h
          /\ maker' = IF h = NoHint THEN Nobody ELSE Human
    /\ UNCHANGED <<rows, ledger, lock, pc, call, saw, status, replaced, calls, crashes>>

step(p) ==
    \/ acquire(p)
    \/ deploy_read(p) \/ insert(p) \/ set(p) \/ observe(p) \/ mark(p)
    \/ rb_read(p) \/ rb_intent(p) \/ rb_set(p) \/ rb_observe(p) \/ rb_mark(p)
    \/ check(p) \/ append(p) \/ return(p) \/ raises(p)

Next ==
    \/ \E p \in Processes :
          \/ \E k \in Keys : call_deploy(p, k) \/ call_rollback(p, k)
          \/ step(p) \/ crash(p)
    \/ human_edit

Spec == Init /\ [][Next]_vars

-----------------------------------------------------------------------------
(* Properties *)

\* _append_once: whatever calls are repeated, crash or overlap, no event of a
\* deployment is in the ledger twice, although the query and the insertion are two
\* transactions.
LedgerOnce == \A i, j \in DOMAIN ledger : i # j => ledger[i] # ledger[j]

\* A call that returns has its event in the ledger, also when an earlier attempt
\* died between the row and the ledger.
SuccessIsLedgered == \A p \in Processes : pc[p] = "return" => Contains(ledger, Entry(p))

\* Both: _append_once, repeated, is as good as once.
LedgeredOnce == LedgerOnce /\ SuccessIsLedgered

\* What a row says of its end was seen in MongoDB: APPLIED with its own hint in
\* place, ROLLED_BACK with the state before it.
RowsTellWhatWasSeen ==
    \A k \in Keys : rows[k] # Absent =>
        /\ rows[k].status = "APPLIED" => rows[k].after = k.action.allowed
        /\ rows[k].status = "ROLLED_BACK" => rows[k].after = rows[k].before

\* rollback, "QUERY_SETTINGS_OWNERSHIP_DRIFT": what a rollback removes, if a deployment made
\* it, is the hint of its own action, although it decides on a status it loaded before it had
\* the lock and on a setting it read some steps before.
UndoesOwnHintOnly ==
    [][\A p \in Processes :
          pc[p] = "rb_set" /\ pc'[p] = "rb_observe" /\ maker \in Keys => maker.action.allowed = Hint(p)]_vars

-----------------------------------------------------------------------------
(* What the documentation claims and the code does not keep *)

\* "Durable lifecycle and exact rollback of optimizer-owned query hints": a rollback removes the
\* setting its own deployment made.  It tells settings apart by their hint alone.
NeverUndoesAnother ==
    [][\A p \in Processes :
          pc[p] = "rb_set" /\ pc'[p] = "rb_observe" => maker \in {Key(p), Human, Nobody}]_vars

\* Autonomy readiness matrix: "human-created setting must never be altered".  A
\* deployment that has seen an operator's setting does not replace it.
HumanSettingKept ==
    [][\A p \in Processes :
          pc[p] = "set" /\ pc'[p] = "observe" => saw[p] # HumanHint]_vars

\* RestoreQuerySettingsIndexHintAction: "Exact inverse that restores the query
\* setting state observed before an update."
RestoresWhatItReplaced ==
    [][\A p \in Processes :
          pc[p] = "rb_set" /\ pc'[p] = "rb_observe" => hint' = replaced[Key(p)]]_vars

\* README: "Every real write gets chained into a ledger.": when a call returns, the
\* last event of its deployment in the ledger is this call's.
LedgerTellsState ==
    \A p \in Processes :
        pc[p] = "return" =>
            LET own == SelectSeq(ledger, LAMBDA e : e[1] = Key(p)) IN Last(own) = Entry(p)
=============================================================================
