--------------------------- MODULE WorkloadShift ---------------------------
(***************************************************************************)
(* The detector of workload shifts (backend/app/monitoring/                *)
(* workload_shift.py): one object whose observe is called by the tasks of  *)
(* one event loop.  It gives up control at one place, where it awaits the  *)
(* scheduler; until then observe is one step.                              *)
(*                                                                         *)
(* Fractions are hundredths.                                               *)
(***************************************************************************)
EXTENDS Integers, Sequences, FiniteSetsExt

CONSTANTS
    Tasks,
    Shapes,      \* the identifiers of query shapes
    Baseline,    \* the distribution all windows are compared with
    Observable,  \* the distributions a window may show
    Threshold,   \* TOTAL_VARIATION_THRESHOLD
    Required,    \* CONSECUTIVE_WINDOWS_REQUIRED
    Overlap,     \* may a window be observed while another call awaits the scheduler?
    Raises,      \* may the scheduler raise?
    MaxWindows   \* bound on the windows

\* _validated_distribution: unique shares that sum to one
ShiftConstants ==
    /\ \A d \in Observable \cup {Baseline} :
          d \in [Shapes -> 0..100] /\ MapThenSumSet(LAMBDA s : d[s], Shapes) = 100
    /\ Threshold \in 1..100 /\ Required \in Nat \ {0} /\ MaxWindows \in Nat
    /\ Overlap \in BOOLEAN /\ Raises \in BOOLEAN

VARIABLES
    consecutive,   \* _consecutive_shift_windows
    episode_open,  \* _shift_episode_open
    pc,            \* where the call of each task stands
    window,        \* the number of the window it observed
    windows,       \* of every window observed: was it a breach?
    asked          \* the requests to the scheduler: after which window, and did it accept?

vars == <<consecutive, episode_open, pc, window, windows, asked>>

TypeOK ==
    /\ consecutive \in Nat /\ episode_open \in BOOLEAN
    /\ pc \in [Tasks -> {"idle", "asking", "asked"}]
    /\ windows \in Seq(BOOLEAN) /\ window \in [Tasks -> 0..Len(windows)]
    /\ asked \subseteq [at : 1..Len(windows), accepted : BOOLEAN]

Init ==
    /\ consecutive = 0 /\ episode_open = FALSE
    /\ pc = [t \in Tasks |-> "idle"] /\ window = [t \in Tasks |-> 0]
    /\ windows = <<>> /\ asked = {}

\* total_variation_distance, without its factor 0.5
TwiceDistance(baseline, observed) ==
    MapThenSumSet(LAMBDA s : IF baseline[s] > observed[s] THEN baseline[s] - observed[s]
                             ELSE observed[s] - baseline[s], Shapes)

Breach(observed) == TwiceDistance(Baseline, observed) >= 2 * Threshold

Counted(observed) == IF Breach(observed) THEN consecutive + 1 ELSE 0

\* Only a window below the threshold ends an episode
StaysOpen(observed) == episode_open /\ Breach(observed)

\* observe, up to its return or the await
observe(t, observed) ==
    /\ pc[t] = "idle" /\ Len(windows) < MaxWindows
    /\ Overlap \/ \A u \in Tasks : pc[u] = "idle"
    /\ consecutive' = Counted(observed)
    /\ episode_open' = StaysOpen(observed)
    /\ windows' = Append(windows, Breach(observed))
    /\ window' = [window EXCEPT ![t] = Len(windows')]
    /\ pc' = [pc EXCEPT ![t] = IF Counted(observed) >= Required /\ ~StaysOpen(observed)
                               THEN "asking" ELSE "idle"]
    /\ UNCHANGED asked

\* The scheduler answers or raises; what it raises, observe raises
request_reanalysis(t, accepts) ==
    /\ pc[t] = "asking" /\ (Raises \/ accepts)
    /\ asked' = asked \cup {[at |-> window[t], accepted |-> accepts]}
    /\ pc' = [pc EXCEPT ![t] = IF accepts THEN "asked" ELSE "idle"]
    /\ UNCHANGED <<consecutive, episode_open, window, windows>>

\* A mistake: the episode is not marked
resume_Unmarked(t) ==
    /\ pc[t] = "asked" /\ pc' = [pc EXCEPT ![t] = "idle"]
    /\ UNCHANGED <<consecutive, episode_open, window, windows, asked>>

\* observe after the await
resume(t) ==
    /\ pc[t] = "asked" /\ pc' = [pc EXCEPT ![t] = "idle"]
    /\ episode_open' = TRUE
    /\ UNCHANGED <<consecutive, window, windows, asked>>

Next ==
    \E t \in Tasks :
        \/ \E observed \in Observable : observe(t, observed)
        \/ \E accepts \in BOOLEAN : request_reanalysis(t, accepts)
        \/ resume(t)

Spec == Init /\ [][Next]_vars

-----------------------------------------------------------------------------
(* Properties *)

\* Windows i to j are one episode, or lie in one
Sustained(i, j) == \A k \in i..j : windows[k]

Accepted == {a.at : a \in {a \in asked : a.accepted}}

\* observe, "once per episode": no two accepted requests are of the same episode.
OncePerEpisode == \A i, j \in Accepted : i < j => ~Sustained(i, j)

\* A request comes after Required breaches in a row and not before, once in an episode, and
\* an episode that has gone on for long enough is asked for: unless the scheduler refused
\* its last window, in which case the next one asks again.
EpisodesAskOnce ==
    /\ \A a \in asked : a.at >= Required /\ Sustained(a.at - Required + 1, a.at)
    /\ OncePerEpisode
    /\ LET n == Len(windows)
       IN (\A t \in Tasks : pc[t] = "idle") /\ n >= Required /\ Sustained(n - Required + 1, n) =>
             \/ [at |-> n, accepted |-> FALSE] \in asked
             \/ \E i \in Accepted : Sustained(i, n)
=============================================================================
