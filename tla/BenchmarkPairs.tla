--------------------------- MODULE BenchmarkPairs ---------------------------
(***************************************************************************)
(* The executor that measures a pair of CommerceBench arms on a database,  *)
(* and the reset that gives each arm its starting state.                   *)
(*                                                                         *)
(*   benchmarks/mongodb_executor.py   RealMongoBenchmarkExecutor           *)
(*   benchmarks/reset.py              delta_reset, observed_digest         *)
(*   benchmarks/ablations.py          candidate_setup_for                  *)
(*                                                                         *)
(* The database outlives the executor, which keeps the plan of its resets  *)
(* in memory.  One executor at a time uses the database ("heavy            *)
(* experiments run sequentially").  What the workload writes is one of     *)
(* three parts of the dataset, each as generated or not.                   *)
(***************************************************************************)
EXTENDS Naturals, Sequences

CONSTANTS
    Profiles,  \* the datasets
    Owned,     \* names of indexes with the prefix of the optimizer
    Foreign,   \* names without, such as that of run_commercebench_smoke.py
    MaxPairCalls, MaxPairFaults

None == "none"
Arms == {"baseline", "candidate"}
Parts == {"orders", "inventory", "events"}
Names == Owned \cup Foreign

PairConstants ==
    /\ None \notin Profiles \cup Names /\ Owned \cap Foreign = {}
    /\ MaxPairCalls \in Nat /\ MaxPairFaults \in Nat

VARIABLES
    data, dirty, indexes,  \* the dataset that is loaded, its parts that were written, its indexes
    implementation, plan,  \* the executor: how it resets, the dataset of its reset plan
    call, arms, pc,        \* its call, the arms that are left, where it is
    begun,                 \* what the arms of the call began from
    persisted,             \* the last pair that was persisted, if any
    calls, faults

database == <<data, dirty, indexes>>
executor == <<implementation, plan>>
bounds == <<calls, faults>>
vars == <<database, executor, call, arms, pc, begun, persisted, bounds>>

Calls == [profile : Profiles \cup {None}, pair : BOOLEAN, setup : Names \cup {None}]
Starts == [arm : Arms, data : Profiles \cup {None}, dirty : SUBSET Parts, indexes : SUBSET Names]

TypeOK ==
    /\ data \in Profiles \cup {None} /\ dirty \subseteq Parts /\ indexes \subseteq Names
    /\ implementation \in {"delta", "full"} /\ plan \in Profiles \cup {None}
    /\ call \in Calls /\ arms \in Seq(Arms)
    /\ pc \in {"idle", "reset", "drop", "insert", "planned", "unindex", "delete", "orders", "inventory", "digest",
               "setup", "measure", "measured", "persist"}
    /\ begun \subseteq Starts /\ persisted \subseteq [profile : Profiles, setup : Names \cup {None}, begun : SUBSET Starts]
    /\ calls \in 0..MaxPairCalls /\ faults \in 0..MaxPairFaults

Init ==
    /\ data = None /\ dirty = {} /\ indexes = {}
    /\ implementation \in {"delta", "full"} /\ plan = None
    /\ call = [profile |-> None, pair |-> FALSE, setup |-> None] /\ arms = <<>> /\ pc = "idle"
    /\ begun = {} /\ persisted = {} /\ calls = 0 /\ faults = 0

-----------------------------------------------------------------------------
(* The two calls *)

Called(profile, pair, setup) ==
    /\ pc = "idle" /\ calls < MaxPairCalls
    /\ calls' = calls + 1
    /\ call' = [profile |-> profile, pair |-> pair, setup |-> setup]
    /\ begun' = {}
    /\ UNCHANGED <<database, executor, persisted, faults>>

\* AB or BA, by the identity of the pair
run_pair(profile, setup) ==
    /\ Called(profile, TRUE, setup)
    /\ arms' \in {<<"baseline", "candidate">>, <<"candidate", "baseline">>}
    /\ pc' = "reset"

materialize_and_count(profile) ==
    /\ Called(profile, FALSE, None)
    /\ arms' = <<>> /\ pc' = "drop"

-----------------------------------------------------------------------------
(* _reset_inner, _restore and delta_reset *)

Goes(from, to) ==
    /\ pc = from /\ pc' = to
    /\ UNCHANGED <<executor, call, arms, begun, persisted, bounds>>

NeedsRestore == implementation = "full" \/ plan # call.profile

reset == Goes("reset", IF NeedsRestore THEN "drop" ELSE "unindex") /\ UNCHANGED database

\* With a collection go its indexes; until the last document is inserted nothing is loaded.
restore_drops == Goes("drop", "insert") /\ data' = None /\ dirty' = {} /\ indexes' = {}

restore_inserts ==
    /\ Goes("insert", IF call.pair /\ implementation = "full" THEN "setup" ELSE "planned")
    /\ data' = call.profile /\ UNCHANGED <<dirty, indexes>>

Pristine(profile) == data = profile /\ dirty = {} /\ indexes = {}

\* The plan is kept even if the digest, which is compared next, is another.
build_reset_plan ==
    /\ pc = "planned" /\ plan' = call.profile
    /\ pc' = IF call.pair /\ Pristine(call.profile) THEN "unindex" ELSE "idle"
    /\ UNCHANGED <<database, implementation, call, arms, begun, persisted, bounds>>

drop_optimizer_indexes ==
    Goes("unindex", "delete") /\ indexes' = indexes \ Owned /\ UNCHANGED <<data, dirty>>

delta_reset_writes ==
    \E step \in {<<"delete", "events", "orders">>, <<"orders", "orders", "inventory">>,
                 <<"inventory", "inventory", "digest">>} :
        Goes(step[1], step[3]) /\ dirty' = dirty \ {step[2]} /\ UNCHANGED <<data, indexes>>

\* RuntimeError: not the exact starting state
observed_digest == Goes("digest", IF Pristine(plan) THEN "setup" ELSE "idle") /\ UNCHANGED database

-----------------------------------------------------------------------------
(* An arm, and the pair *)

candidate_setup ==
    /\ pc = "setup" /\ pc' = "measure"
    /\ indexes' = indexes \cup (IF Head(arms) = "candidate" THEN {call.setup} \ {None} ELSE {})
    /\ begun' = begun \cup {[arm |-> Head(arms), data |-> data, dirty |-> dirty, indexes |-> indexes']}
    /\ UNCHANGED <<data, dirty, executor, call, arms, persisted, bounds>>

\* Warm-up and measurement write any of the parts; an operation that fails is counted.
measure ==
    /\ Goes("measure", "measured")
    /\ \E written \in SUBSET Parts : dirty' = dirty \cup written
    /\ UNCHANGED <<data, indexes>>

next_arm ==
    /\ pc = "measured" /\ arms' = Tail(arms)
    /\ pc' = IF arms' = <<>> THEN "persist" ELSE "reset"
    /\ UNCHANGED <<database, executor, call, begun, persisted, bounds>>

\* The fingerprints it compares are those of the plan, or of the generated dataset.
persist ==
    /\ pc = "persist" /\ pc' = "idle"
    /\ persisted' = {[profile |-> call.profile, setup |-> call.setup, begun |-> begun]}
    /\ UNCHANGED <<database, executor, call, arms, begun, bounds>>

-----------------------------------------------------------------------------
(* Faults *)

Fault ==
    /\ pc # "idle" /\ faults < MaxPairFaults
    /\ faults' = faults + 1 /\ pc' = "idle"
    /\ UNCHANGED <<database, call, arms, begun, persisted, calls>>

\* A command fails: the call raises and the executor remains with its plan.
command_fails == Fault /\ UNCHANGED executor

\* The process dies; the next one has no plan.
process_dies == Fault /\ plan' = None /\ implementation' \in {"delta", "full"}

Next ==
    \/ \E profile \in Profiles : materialize_and_count(profile) \/ \E setup \in Names \cup {None} : run_pair(profile, setup)
    \/ reset \/ restore_drops \/ restore_inserts \/ build_reset_plan
    \/ drop_optimizer_indexes \/ delta_reset_writes \/ observed_digest
    \/ candidate_setup \/ measure \/ next_arm \/ persist
    \/ command_fails \/ process_dies

Spec == Init /\ [][Next]_vars

-----------------------------------------------------------------------------
\* reset.py, "preserving the exact equivalent starting state": both arms of a pair that is
\* persisted began from the dataset as generated, the baseline without an index and the
\* candidate with its own alone, in either order of the arms, whatever the arms and calls
\* before left behind, under whatever name, and wherever one of them stopped.
ArmsBeginEqual ==
    \A p \in persisted :
        p.begun = {[arm |-> a, data |-> p.profile, dirty |-> {},
                    indexes |-> IF a = "candidate" THEN {p.setup} \ {None} ELSE {}] : a \in Arms}
=============================================================================
