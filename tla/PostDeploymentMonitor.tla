------------------------ MODULE PostDeploymentMonitor ------------------------
(***************************************************************************)
(* The monitoring stage of a deployed run.                                 *)
(*                                                                         *)
(*   monitoring/post_deployment.py  PostDeploymentMonitor                  *)
(*   monitoring/durable.py          DurableMonitoringService               *)
(*                                                                         *)
(* A call collects windows, decides on them, rolls back when it must, and  *)
(* records an audit event and, once per outcome, an experience, each in a  *)
(* transaction of its own; then the run is moved on.  A stage whose        *)
(* process died is called again and collects anew: collect_windows is      *)
(* injected, and may give every call other windows.                        *)
(* The rollback itself is IndexDeployment's; here it is its answer.        *)
(* Ratios and fractions are in hundredths.                                 *)
(***************************************************************************)
EXTENDS Integers, Sequences, SequencesExt, FiniteSets, FiniteSetsExt

CONSTANTS
    Workers,
    Collections,        \* what collect_windows may give a call
    BaselineRequired,   \* baseline_seconds // window_seconds
    MonitoringMaximum,  \* monitoring_seconds // window_seconds
    Sustained,          \* sustained_regression_windows
    Overlap,            \* may two workers be in the stage, after a lost lease?
    MaxCalls            \* bound on the calls

None == -1   \* a p99 that was not measured

\* p99 of a window, its errors and timeouts, replica health, and the share of the first of
\* two query shapes
WindowType == [p99 : Nat \cup {None}, errors : Nat, timeouts : Nat, healthy : BOOLEAN, share : 0..100]

\* the windows before the deployment, and those observed after it
CollectionType == [baseline : Seq(WindowType), observed : Seq(WindowType)]

\* What the constants have to be
MonitorConstants ==
    /\ Collections \subseteq CollectionType
    /\ BaselineRequired \in Nat \ {0} /\ MonitoringMaximum \in Nat \ {0}
    /\ Sustained \in Nat \ {0} /\ Overlap \in BOOLEAN /\ MaxCalls \in Nat

VARIABLES
    rollback,    \* the recorded outcome of the rollback, or "none"
    audit,       \* history: the audited statuses
    experience,  \* how many experience_records the candidate has of each outcome
    run,         \* the run's status
    pc, result,  \* the calls under way, and the status each has
    decided,     \* history: every decision, with the windows it was made on
    calls

vars == <<rollback, audit, experience, run, pc, result, decided, calls>>

Terminal == {"STABLE", "WORKLOAD_SHIFT_DETECTED", "ROLLED_BACK", "ROLLBACK_BLOCKED"}
Outcomes == {"DEPLOYMENT_SUCCEEDED", "ROLLED_BACK", "ROLLBACK_BLOCKED"}

\* MonitoringDecision: on which windows, and what it requires
Decision == [collected : Collections, required : BOOLEAN]

-----------------------------------------------------------------------------
(* The decision *)

\* the measured latencies of _average
numbers(base) == {i \in DOMAIN base : base[i].p99 # None}

\* their sum, from the first window on
Sum(base) ==
    LET upto[i \in 0..Len(base)] ==
            IF i = 0 THEN 0 ELSE upto[i - 1] + IF i \in numbers(base) THEN base[i].p99 ELSE 0
    IN  upto[Len(base)]

\* _ratio against _average of the baseline is at least percent: sum * percent / count
RatioAtLeast(base, w, percent) ==
    /\ w.p99 > 0
    /\ Sum(base) > 0 => w.p99 * 100 * Cardinality(numbers(base)) >= Sum(base) * percent

\* The windows of observed[-k:]
Latest(observed, k) == {i \in DOMAIN observed : i > Len(observed) - k}

regression_windows(c) ==
    Cardinality({i \in Latest(c.observed, Sustained) : RatioAtLeast(c.baseline, c.observed[i], 120)})

\* catastrophic_p99, new_errors, new_timeouts, replica_unhealthy
Alarming(base, w) ==
    \/ RatioAtLeast(base, w, 300)
    \/ \A b \in ToSet(base) : w.errors > b.errors
    \/ \A b \in ToSet(base) : w.timeouts > b.timeouts
    \/ ~w.healthy

Alarm(c) == \E w \in ToSet(c.observed) : Alarming(c.baseline, w)

\* workload_comparable; of two shapes the distance is the difference of the first's share
Comparable(c) ==
    LET b == Last(c.baseline).share
        o == Last(c.observed).share
    IN  IF b > o THEN b - o < 20 ELSE o - b < 20

rollback_required(c) == Alarm(c) \/ (regression_windows(c) >= Sustained /\ Comparable(c))

\* _validate_window_counts
Decidable(c) == Len(c.baseline) >= BaselineRequired /\ Len(c.observed) \in 1..MonitoringMaximum

-----------------------------------------------------------------------------
(* The stage *)

TypeOK ==
    /\ rollback \in {"none", "ROLLED_BACK", "ROLLBACK_BLOCKED"}
    /\ audit \subseteq Terminal
    /\ experience \in [Outcomes -> Nat]
    /\ run \in {"MONITORING", "COMPLETED", "ROLLED_BACK", "ROLLBACK_BLOCKED"}
    /\ pc \in [Workers -> {"idle", "rollback", "audit", "lookup", "experience", "transition"}]
    /\ result \in [Workers -> Terminal \cup {"none"}]
    /\ decided \subseteq Decision
    /\ calls \in 0..MaxCalls

Init ==
    /\ rollback = "none" /\ audit = {} /\ experience = [o \in Outcomes |-> 0]
    /\ run = "MONITORING"
    /\ pc = [w \in Workers |-> "idle"] /\ result = [w \in Workers |-> "none"]
    /\ decided = {} /\ calls = 0

\* monitor_for_run is called, as long as the run is in the stage.
Called(w) ==
    /\ pc[w] = "idle" /\ run = "MONITORING" /\ calls < MaxCalls
    /\ Overlap \/ \A v \in Workers : pc[v] = "idle"
    /\ calls' = calls + 1
    /\ UNCHANGED <<rollback, audit, experience, run>>

\* It decides on the windows c that it is given.
monitor(w, c) ==
    /\ Called(w)
    /\ Decidable(c)
    /\ decided' = decided \cup {[collected |-> c, required |-> rollback_required(c)]}
    /\ IF rollback_required(c)
       THEN pc' = [pc EXCEPT ![w] = "rollback"] /\ UNCHANGED result
       ELSE /\ pc' = [pc EXCEPT ![w] = "audit"]
            /\ result' = [result EXCEPT ![w] = IF Comparable(c) THEN "STABLE" ELSE "WORKLOAD_SHIFT_DETECTED"]

\* Without telemetry, or without windows that can be decided on, it raises.
monitor_raises(w) == Called(w) /\ UNCHANGED <<pc, result, decided>>

\* _Coordinator.rollback: the recorded outcome, or an attempt that records one, or one that
\* is blocked by the target's lock and records nothing
roll_back(w) ==
    /\ pc[w] = "rollback"
    /\ pc' = [pc EXCEPT ![w] = "audit"]
    /\ \/ /\ \E s \in {"ROLLED_BACK", "ROLLBACK_BLOCKED"} : rollback' = IF rollback = "none" THEN s ELSE rollback
          /\ result' = [result EXCEPT ![w] = rollback']
       \/ /\ rollback = "none"
          /\ result' = [result EXCEPT ![w] = "ROLLBACK_BLOCKED"]
          /\ UNCHANGED rollback
    /\ UNCHANGED <<audit, experience, run, decided, calls>>

\* AuditRepository.create
record_audit(w) ==
    /\ pc[w] = "audit"
    /\ audit' = audit \cup {result[w]}
    /\ pc' = [pc EXCEPT ![w] = "lookup"]
    /\ UNCHANGED <<rollback, experience, run, result, decided, calls>>

outcome(w) == IF result[w] \in {"STABLE", "WORKLOAD_SHIFT_DETECTED"} THEN "DEPLOYMENT_SUCCEEDED" ELSE result[w]

\* any experience of the candidate counts as recorded
lookup_Any(w) ==
    /\ pc[w] = "lookup"
    /\ pc' = [pc EXCEPT ![w] = IF \E o \in Outcomes : experience[o] > 0 THEN "transition" ELSE "experience"]
    /\ UNCHANGED <<rollback, audit, experience, run, result, decided, calls>>

\* already_recorded
lookup(w) ==
    /\ pc[w] = "lookup"
    /\ pc' = [pc EXCEPT ![w] = IF experience[outcome(w)] > 0 THEN "transition" ELSE "experience"]
    /\ UNCHANGED <<rollback, audit, experience, run, result, decided, calls>>

\* ExperienceRepository.create
record_experience(w) ==
    /\ pc[w] = "experience"
    /\ experience' = [experience EXCEPT ![outcome(w)] = @ + 1]
    /\ pc' = [pc EXCEPT ![w] = "transition"]
    /\ UNCHANGED <<rollback, audit, run, result, decided, calls>>

\* OptimizationRunOrchestrator.run moves the run on; the state machine refuses a second time.
transition(w) ==
    /\ pc[w] = "transition"
    /\ run' = IF run # "MONITORING" THEN run
              ELSE IF outcome(w) = "DEPLOYMENT_SUCCEEDED" THEN "COMPLETED" ELSE result[w]
    /\ pc' = [pc EXCEPT ![w] = "idle"] /\ result' = [result EXCEPT ![w] = "none"]
    /\ UNCHANGED <<rollback, audit, experience, decided, calls>>

\* The process dies, or a statement raises out of the stage.
die(w) ==
    /\ pc[w] # "idle"
    /\ pc' = [pc EXCEPT ![w] = "idle"] /\ result' = [result EXCEPT ![w] = "none"]
    /\ UNCHANGED <<rollback, audit, experience, run, decided, calls>>

Next ==
    \E w \in Workers :
        \/ \E c \in Collections : monitor(w, c)
        \/ monitor_raises(w) \/ roll_back(w) \/ record_audit(w) \/ lookup(w)
        \/ record_experience(w) \/ transition(w) \/ die(w)

Spec == Init /\ [][Next]_vars

-----------------------------------------------------------------------------
(* Properties *)

\* The longest run of windows, up to the last, that are a fifth slower than the mean of the
\* measured baseline; every window with a latency is slower than no latency at all.
Slow(base, w) ==
    w.p99 > 0 /\ (Sum(base) = 0 \/ 5 * w.p99 * Cardinality(numbers(base)) >= 6 * Sum(base))
Streak(c) ==
    LET n == Len(c.observed)
    IN  Max({0} \cup {k \in 1..n : \A i \in (n - k + 1)..n : Slow(c.baseline, c.observed[i])})

\* _decide: a rollback is required exactly for an alarm or for a streak that is long enough
\* in a comparable workload.
SustainedIsStreak == \A d \in decided :
    d.required <=> Alarm(d.collected) \/ (Streak(d.collected) >= Sustained /\ Comparable(d.collected))

\* A deployment whose every window is as good as every baseline window is left alone, also
\* when some baseline windows measured no latency.
AsGood(base, w) ==
    /\ w.healthy /\ \E b \in ToSet(base) : b.p99 # None
    /\ \A b \in ToSet(base) :
        /\ w.errors <= b.errors /\ w.timeouts <= b.timeouts
        /\ b.p99 = None \/ w.p99 <= b.p99
NoCauseNoRollback == \A d \in decided :
    d.required => \E w \in ToSet(d.collected.observed) : ~AsGood(d.collected.baseline, w)

\* What is recorded of the run some call decided: a rollback, or that the deployment stands.
OutcomeWasDecided ==
    /\ (\/ rollback # "none" \/ run \in {"ROLLED_BACK", "ROLLBACK_BLOCKED"}
        \/ experience["ROLLED_BACK"] > 0 \/ experience["ROLLBACK_BLOCKED"] > 0)
       => \E d \in decided : d.required
    /\ run = "COMPLETED" \/ experience["DEPLOYMENT_SUCCEEDED"] > 0 => \E d \in decided : ~d.required

\* already_recorded: one experience of an outcome, though the stage dies and is called again.
OutcomeOnce == \A o \in Outcomes : experience[o] <= 1

\* A run that left the stage has its audit event and its experience, of what happened to it;
\* "ROLLED_BACK" is said, of the run or in an experience, only when it is recorded.
TerminalIsTold ==
    /\ run = "COMPLETED" => experience["DEPLOYMENT_SUCCEEDED"] > 0 /\ audit \cap {"STABLE", "WORKLOAD_SHIFT_DETECTED"} # {}
    /\ run \in {"ROLLED_BACK", "ROLLBACK_BLOCKED"} => experience[run] > 0 /\ run \in audit
    /\ run = "ROLLED_BACK" \/ experience["ROLLED_BACK"] > 0 => rollback = "ROLLED_BACK"

\* monitor as a whole: a deployment is rolled back when the windows of some call require it.
RollbackHasCause == SustainedIsStreak /\ NoCauseNoRollback /\ OutcomeWasDecided
=============================================================================
