------------------------- MODULE MCIndexDeployment --------------------------
(***************************************************************************)
(* Instances of IndexDeployment for TLC.  Two runs whose leases run out    *)
(* under live workers, with crashes and operators, are too many states at  *)
(* once; the scenarios explore the hard cases in turn.                     *)
(***************************************************************************)
EXTENDS IndexDeployment, TLC

CONSTANTS r1, r2, w1, w2,
    Scenarios     \* the scenarios to explore

VARIABLE scenario

\* The workers run the same program.
WorkerSymmetry == Permutations({w1, w2})

\* "one run": only r1 is worked on; its lease may run out under a live worker and an
\* operator may change the target.
OneRunAlone == claims'[r2] = 0

\* "two runs": both are claimed up to twice, by one worker at a time each, and no
\* operator interferes.
TwoRunsInTurn ==
    /\ \A r \in Runs : claims'[r] <= 2 /\ (claims'[r] # claims[r] => lease[r] = NoWorker)
    /\ edits' = 0

ScenarioSpec ==
    /\ scenario \in Scenarios /\ Init
    /\ [][/\ Next /\ UNCHANGED scenario
          /\ scenario = "one run" => OneRunAlone
          /\ scenario = "two runs" => TwoRunsInTurn]_<<vars, scenario>>
=============================================================================
