--------------------------- MODULE MCQuerySettings ---------------------------
(***************************************************************************)
(* The two executors of query settings, the durable one and the one in the *)
(* memory of a process.  They share no state: acting names the one whose   *)
(* steps are explored, the other stays as it began.                        *)
(***************************************************************************)
EXTENDS QuerySettings

CONSTANTS p1, p2, h1, h2, e1, e2,
    Acting,  \* the executors to explore
    Deployments, MaxDeployments, MaxDisturbances  \* those of DirectSettings

VARIABLES acting, setting, journal, approvals, holder, at, doing, before, deployments, disturbances

Symmetry == Permutations({p1, p2}) \cup Permutations({e1, e2})

\* Two actions set the same hint, planned against different settings, and one another hint.
MCActions ==
    {[allowed |-> h1, previous |-> NoHint], [allowed |-> h1, previous |-> h2], [allowed |-> h2, previous |-> NoHint]}

\* The second action replaces what the first one set.
MCDeployments == {[allowed |-> h1, previous |-> NoHint], [allowed |-> h2, previous |-> h1]}

Direct == INSTANCE DirectSettings WITH Tasks <- Processes, NoTask <- Nobody, hint <- setting

ASSUME DirectConstants ==
    /\ Acting \subseteq {"durable", "direct"}
    /\ Direct!SettingsConstants

direct_vars == <<setting, journal, approvals, holder, at, doing, before, deployments, disturbances>>
allvars == <<acting, vars, direct_vars>>

AllInit ==
    /\ acting \in Acting /\ Init /\ Direct!Init
    /\ acting = "durable" => setting = NoHint
    /\ acting # "durable" => hint = NoHint

AllNext ==
    \/ acting = "durable" /\ Next /\ UNCHANGED <<acting, direct_vars>>
    \/ acting # "durable" /\ Direct!Next /\ UNCHANGED <<acting, vars>>

AllSpec == AllInit /\ [][AllNext]_allvars

-----------------------------------------------------------------------------
\* deploy and rollback in one process: each change is as if it were made and entered in the
\* ledger in one step, under an approval if it replaces something.
SettingsAreAtomic == Direct!SettingsAreAtomic
=============================================================================
