---------------------------- MODULE MCInProcess ----------------------------
(***************************************************************************)
(* The components that live in the memory of one process, side by side:    *)
(* the direct deployment, the detector of workload shifts, the executor    *)
(* that measures pairs of trials, and the lock between benchmarks and the  *)
(* model.  They share no state, so it is enough to explore one of them at  *)
(* a time: acting names the one whose steps are taken, the others stay as  *)
(* they began.                                                             *)
(***************************************************************************)
EXTENDS DirectDeployment

CONSTANTS
    Acting,      \* the components to explore
    ShiftTasks,  \* the tasks that observe windows
    Executors,   \* the workers that may execute the trials
    Evaluators,  \* the tasks that evaluate in the sandbox
    \* constants of WorkloadShift, of WorkloadShift and TrialEvidence, of TrialEvidence,
    \* and of Measurement
    Shapes, Baseline, Observable, Threshold, Required, MaxWindows,
    Overlap,
    TrialCandidates, Pairs, BA, MaxExecutions,
    Callers, Provider, Candidates, CollectionCount, Contents, Missing, MaxWrites

VARIABLES
    acting,
    consecutive, episode_open, windows, asked, shift_pc, window,
    run, evaluations, pairs, trial_indexes, trial_pc, order, at, pair, arms, executions,
    source, copy, built, queue, measure_at, measuring, seen, cursor, replies, told, asks, writes

\* A baseline of two shapes; windows like it, just under and just at the threshold,
\* and one with a shape the baseline does not have
MCShapes == {"s1", "s2", "s3"}
MCBaseline == [s \in MCShapes |-> IF s = "s3" THEN 0 ELSE 50]
MCObservable ==
    {MCBaseline,
     [s \in MCShapes |-> CASE s = "s1" -> 69 [] s = "s2" -> 31 [] s = "s3" -> 0],
     [s \in MCShapes |-> CASE s = "s1" -> 40 [] s = "s2" -> 40 [] s = "s3" -> 20]}

\* One caller for each of the two providers
MCCallers == {"a1", "a2"}
MCProvider == [t \in MCCallers |-> IF t = "a1" THEN "ollama" ELSE "openai_compatible"]

Shift == INSTANCE WorkloadShift WITH
    Tasks <- ShiftTasks, pc <- shift_pc

Trial == INSTANCE TrialEvidence WITH
    Workers <- Executors, Candidates <- TrialCandidates, indexes <- trial_indexes, pc <- trial_pc

Measure == INSTANCE Measurement WITH
    at <- measure_at, doing <- measuring, calls <- asks

ASSUME InProcessConstants == Shift!ShiftConstants /\ Trial!TrialConstants /\ Measure!MeasurementConstants

shift_vars == <<consecutive, episode_open, windows, asked, shift_pc, window>>
trial_vars == <<run, evaluations, pairs, trial_indexes, trial_pc, order, at, pair, arms, executions>>
measure_vars == <<source, copy, built, queue, measure_at, measuring, seen, cursor, replies, told, asks, writes>>
allvars == <<acting, vars, shift_vars, trial_vars, measure_vars>>

AllInit ==
    /\ acting \in Acting
    /\ Init /\ Shift!Init /\ Trial!Init /\ Measure!Init
    /\ acting = "measure" \/ built = {}

\* "undisturbed": nobody else changes the target and its adapter does not raise.
AllNext ==
    \/ /\ acting \in {"direct", "undisturbed"} /\ Next
       /\ acting = "undisturbed" =>
             /\ ~\E a \in Actions : \E d \in {"absent", "human"} : human_edit(a, d)
             /\ ~\E t \in Tasks : adapter_raises(t)
       /\ UNCHANGED <<acting, shift_vars, trial_vars, measure_vars>>
    \/ acting = "shift" /\ Shift!Next /\ UNCHANGED <<acting, vars, trial_vars, measure_vars>>
    \/ acting = "trial" /\ Trial!Next /\ UNCHANGED <<acting, vars, shift_vars, measure_vars>>
    \/ acting = "measure" /\ Measure!Next /\ UNCHANGED <<acting, vars, shift_vars, trial_vars>>

AllSpec ==
    /\ AllInit /\ [][AllNext]_allvars
    /\ \A t \in Measure!Sharers : WF_measure_vars(acting = "measure" /\ Measure!Step(t))

-----------------------------------------------------------------------------
(* The properties of the components, which say what they are about *)

\* deploy and rollback: the entries of an action come in the order of its protocol, however
\* the tasks overlap and whatever raises; and without outside interference an index is
\* there, at rest, exactly if the last entry of its action says APPLIED.
DeploymentsAreLedgered ==
    /\ DeploymentsInOrder
    /\ acting = "undisturbed" => TargetIsAsLedgered

\* observe, "request re-analysis once for a sustained shift episode": neither a window, nor
\* a scheduler that raises makes it ask twice, early, or not at all.
EpisodesAskOnce == Shift!EpisodesAskOnce

\* The executor and record_pair together: what goes to ADMISSION is complete, measured
\* once, tells the candidate's index apart, and has left no index behind.
EvidenceIsSound == Trial!EvidenceIsSound

\* evaluate and _structured around their lock: a measurement is of the candidate alone on the
\* data it was copied from, and advice is what was received.
MeasurementIsSound == Measure!MeasurementIsSound

\* evaluate and _structured: whatever the calls before raise, who waits for the lock gets it
\* and every call comes to an end.
EveryCallEnds == \A t \in Measure!Sharers : measure_at[t] # "idle" ~> measure_at[t] = "idle"

-----------------------------------------------------------------------------
(* What the documentation claims; it fails when calls overlap, the last one also when one fails *)

\* observe, also when observations overlap: two requests are never of one episode.
OncePerEpisode == Shift!OncePerEpisode

\* record_pair, "retries reuse the exact pair number", also when executions overlap.
PairRecordedOnce == Trial!PairRecordedOnce

\* _evaluate_real, also when executions overlap or one has failed half-way: an arm is
\* measured with its own index alone, or with none.
HonestPairs == Trial!HonestPairs
=============================================================================
