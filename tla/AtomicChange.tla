---------------------------- MODULE AtomicChange ----------------------------
(***************************************************************************)
(* What an executor of query settings promises whoever reads its ledger:   *)
(* each change takes effect and is entered in one step, one after the      *)
(* other, and what was there is replaced under an approval only, which     *)
(* covers exactly that.  It promises nothing any more once somebody else   *)
(* changed the setting or the adapter raised.  Stated for                  *)
(* backend/app/production/query_settings.py, whose deploy and rollback     *)
(* implement it with a lock and two entries around an await.               *)
(***************************************************************************)
EXTENDS Sequences

CONSTANTS Settings, NoHint

VARIABLES
    setting,   \* of one query shape
    log,       \* the changes, each from one setting to another
    disturbed

vars == <<setting, log, disturbed>>

Init == setting \in Settings /\ log = <<>> /\ disturbed = FALSE

Enter(kind, to) ==
    /\ setting' = to
    /\ log' = Append(log, [kind |-> kind, from |-> setting, to |-> to])
    /\ disturbed' = FALSE

\* The intent is entered before anything changes
Intend ==
    /\ log' = Append(log, [kind |-> "intended", from |-> setting, to |-> setting])
    /\ disturbed' = FALSE /\ UNCHANGED setting

\* A deployment over nothing, in full autonomy or approved
Deploy(to) == setting = NoHint /\ Enter("deployed", to)

\* Over a setting that was there
Replace(to) == setting # NoHint /\ Enter("approved", to)

\* Of a change in the log, while its setting stands
Undo(i) ==
    /\ log[i].kind \in {"deployed", "approved"} /\ log[i].to = setting
    /\ Enter("undone", log[i].from)

Disturb == disturbed' = TRUE

Next ==
    \/ Intend
    \/ \E to \in Settings : Deploy(to) \/ Replace(to)
    \/ \E i \in DOMAIN log : Undo(i)
    \/ Disturb

Spec == Init /\ [][Next]_vars
=============================================================================
