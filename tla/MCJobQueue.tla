----------------------------- MODULE MCJobQueue -----------------------------
(***************************************************************************)
(* Instances of JobQueue for TLC: scenario names the timing that is        *)
(* explored.                                                               *)
(*                                                                         *)
(* "late"    heartbeats may be held up for any time, every worker may be   *)
(*           killed or stopped, and leases run out under live holders.     *)
(* "on time" heartbeats run at their interval, and w2 survives.            *)
(***************************************************************************)
EXTENDS JobQueue

CONSTANTS j1, j2, w1, w2,
    Scenarios     \* the scenarios to explore

VARIABLE scenario

\* The clock of w2 runs one unit ahead.
SkewOfOne == [w \in Workers |-> IF w = w2 THEN 1 ELSE 0]

\* The constants of "on time" are those of the configuration.
Late == INSTANCE JobQueue WITH Lease <- 2, Mortal <- Workers, Timely <- FALSE, MaxClaims <- 3

timed == scenario = "on time"

ScenarioInit == scenario \in Scenarios /\ Init

ScenarioNext ==
    \/ scenario = "late" /\ Late!Next /\ UNCHANGED scenario
    \/ timed /\ Next /\ UNCHANGED scenario

\* Fairness, in "on time"
ScenarioFairness ==
    /\ WF_vars(timed /\ Tick)
    /\ \A w \in Workers :
          /\ WF_vars(timed /\ \E j \in Jobs : claim(w, j))
          /\ WF_vars(timed /\ heartbeat(w))
          /\ WF_vars(timed /\ (handler_returns(w) \/ handler_raises(w) \/ ensure_lease_owned(w)))
          /\ WF_vars(timed /\ fail(w))

ScenarioSpec ==
    /\ ScenarioInit /\ [][ScenarioNext]_<<vars, scenario>>
    /\ ScenarioFairness

-----------------------------------------------------------------------------
\* heartbeat_loop at its interval: no other worker gets the job of a healthy holder, though
\* their clocks disagree.
HealthyHolder == timed => HealthyHolderKeepsJob

\* Every persisted job is completed or failed in the end, whatever the faults, as long as
\* one worker survives.
JobsSettle ==
    \A j \in Jobs : timed /\ status[j] = "PENDING" ~> status[j] \in Settled
=============================================================================
