----------------------------- MODULE LeasedWork -----------------------------
(***************************************************************************)
(* What the durable job queue promises its clients.  Work items are handed *)
(* out to workers under numbered grants.  An item may be granted again     *)
(* while an earlier grantee still works on it; only the holder of the      *)
(* newest grant can settle it or give it back, and a settled item is never *)
(* granted again.  Stated for backend/app/worker/durable.py, whose         *)
(* JobQueue implements it with a lease and an owner column instead of      *)
(* grant numbers.                                                          *)
(***************************************************************************)
EXTENDS Integers

CONSTANTS Jobs, Workers, NoJob

VARIABLES
    phase,   \* "absent", "open" or "settled", per item
    epoch,   \* number of grants given for an item
    grant    \* <<item, number>> each worker holds, or <<NoJob, 0>>

vars == <<phase, epoch, grant>>

Nothing == <<NoJob, 0>>

Init ==
    /\ phase = [j \in Jobs |-> "absent"]
    /\ epoch = [j \in Jobs |-> 0]
    /\ grant = [w \in Workers |-> Nothing]

\* Work appears.
Submit(j) ==
    /\ phase[j] = "absent"
    /\ phase' = [phase EXCEPT ![j] = "open"]
    /\ UNCHANGED <<epoch, grant>>

\* A worker without work gets the next grant of an open item.
Grant(w, j) ==
    /\ phase[j] = "open"
    /\ grant[w] = Nothing
    /\ epoch' = [epoch EXCEPT ![j] = @ + 1]
    /\ grant' = [grant EXCEPT ![w] = <<j, epoch[j] + 1>>]
    /\ UNCHANGED phase

\* The holder of the newest grant settles the item.  It may still hold the grant
\* for a while afterwards, having heard nothing of the success.
Settle(w, j) ==
    /\ phase[j] = "open"
    /\ grant[w] = <<j, epoch[j]>>
    /\ phase' = [phase EXCEPT ![j] = "settled"]
    /\ \/ grant' = [grant EXCEPT ![w] = Nothing]
       \/ UNCHANGED grant
    /\ UNCHANGED epoch

\* A worker drops its grant: it gives the item back, has lost it, or died.
Drop(w) ==
    /\ grant' = [grant EXCEPT ![w] = Nothing]
    /\ UNCHANGED <<phase, epoch>>

Next ==
    \/ \E j \in Jobs : Submit(j)
    \/ \E w \in Workers, j \in Jobs : Grant(w, j) \/ Settle(w, j)
    \/ \E w \in Workers : Drop(w)

Spec == Init /\ [][Next]_vars
=============================================================================
