---------------------------- MODULE MCOperations ----------------------------
(***************************************************************************)
(* What operators run by hand: the migrations of the metadata store, the   *)
(* orchestration of the recorded experiments, and the executor that        *)
(* measures a pair of them.  They share no state: acting names the one     *)
(* whose steps are explored, the others stay as they began.                *)
(***************************************************************************)
EXTENDS SchemaMigrations, TLC

CONSTANTS
    Acting,     \* the components to explore
    r1, r2,
    Standard, Publication, Superseded, Legacy, Calibration, Pairs, Noisy,  \* those of Experiments
    Selections, MaxLaunches, MaxFaults, MaxInvalidations,
    Profiles, Owned, Foreign, MaxPairCalls, MaxPairFaults                  \* those of BenchmarkPairs

VARIABLES
    acting,
    top, manifest, files, described, copies, x_pc, selected, todo, forced, merged, at, rc, exit,
    secrets, left, held, faulted, launches, faults, invalidations,
    data, dirty, indexes, implementation, plan, call, arms, b_pc, begun, persisted, b_calls, b_faults

Symmetry == Permutations({r1, r2})

Experiment == INSTANCE Experiments WITH pc <- x_pc

Benchmark == INSTANCE BenchmarkPairs WITH pc <- b_pc, calls <- b_calls, faults <- b_faults

ASSUME OperationsConstants ==
    MigrationConstants /\ Experiment!ExperimentConstants /\ Benchmark!PairConstants

x_vars == <<top, manifest, files, described, copies, x_pc, selected, todo, forced, merged, at, rc, exit,
            secrets, left, held, faulted, launches, faults, invalidations>>
b_vars == <<data, dirty, indexes, implementation, plan, call, arms, b_pc, begun, persisted, b_calls, b_faults>>
allvars == <<acting, vars, x_vars, b_vars>>

AllInit ==
    /\ acting \in Acting /\ Init /\ Experiment!Init /\ Benchmark!Init
    /\ acting = "pairs" \/ implementation = "delta"

AllNext ==
    \/ acting = "migrations" /\ Next /\ UNCHANGED <<acting, x_vars, b_vars>>
    \/ acting = "experiments" /\ Experiment!Next /\ UNCHANGED <<acting, vars, b_vars>>
    \/ acting = "pairs" /\ Benchmark!Next /\ UNCHANGED <<acting, vars, x_vars>>

AllSpec == AllInit /\ [][AllNext]_allvars

-----------------------------------------------------------------------------
\* The orchestrator, the runner, the invalidation and the export: evidence that passed is
\* whole, whatever is interrupted, repeated or invalidated; and the arms of each pair in it
\* began from the same dataset as generated.
EvidenceIsWhole == Experiment!EvidenceIsWhole /\ Benchmark!ArmsBeginEqual

\* run_pair, "existing pair evidence is never re-run or overwritten"
MeasuredOnce == Experiment!MeasuredOnce

-----------------------------------------------------------------------------
(* What the documentation says of the experiments, and the scripts do not keep *)

\* "Resumable": a constituent that is run again and meets no fault passes.
Resumable == Experiment!Resumable

\* "so they can never be mixed with the r28b authoritative run"
SupersededStaysOut == Experiment!SupersededStaysOut

\* "so re-invocations merge": also after an invalidation
LaunchReads == Experiment!LaunchReads
=============================================================================
