---------------------------- MODULE MCVerdicts ----------------------------
(***************************************************************************)
(* The conclusions that a run's stages reach, side by side: the candidates *)
(* derived from its workload, their admission, and the outcome of its      *)
(* monitoring.  They share no state, so it is enough to explore one at a   *)
(* time: acting names the one whose steps are taken, the others stay as    *)
(* they began.                                                             *)
(***************************************************************************)
EXTENDS AdmissionDecision

CONSTANTS
    Acting,                      \* what to explore
    Collections, FewCollections, \* what one call decides on, and what overlapping calls do
    BaselineRequired, MonitoringMaximum, Sustained,
    Fields, Namespaces,
    Workloads, FewWorkloads,     \* what is explored of the derivation, and of it beside the others
    Catalogs

VARIABLES
    acting,
    rollback, audit, experience, run, monitor_pc, result, decided, monitor_calls,
    queries, findings, allowlisted, accessible, catalog, derivation_pc, inputs, metadata, definitions

derivation_vars ==
    <<queries, findings, allowlisted, accessible, catalog, derivation_pc, inputs, metadata, definitions>>
monitor_vars ==
    <<rollback, audit, experience, run, monitor_pc, result, decided, monitor_calls>>
allvars == <<acting, vars, monitor_vars, derivation_vars>>

-----------------------------------------------------------------------------
(* What the windows measure *)

Good == [p99 |-> 100, errors |-> 1, timeouts |-> 0, healthy |-> TRUE, share |-> 50]

\* even latencies, a window without a latency, none at all, and too few windows
Baselines ==
    {<<Good, Good>>, <<Good, [Good EXCEPT !.p99 = -1, !.errors = 2]>>,
     <<[Good EXCEPT !.p99 = -1], [Good EXCEPT !.p99 = -1]>>, <<Good>>}
\* as good, at the two thresholds, in another workload, without latency, and each other cause
Slower == [Good EXCEPT !.p99 = 120]
Shifted == [Good EXCEPT !.p99 = 130, !.share = 80]
Disaster == [Good EXCEPT !.p99 = 300]
Windows ==
    {Good, Slower, Shifted, Disaster, [Good EXCEPT !.p99 = -1], [Good EXCEPT !.errors = 2],
     [Good EXCEPT !.timeouts = 1], [Good EXCEPT !.healthy = FALSE]}
\* from no window to one more than the period has
MCCollections == [baseline : Baselines, observed : BoundedSeq(Windows, 4)]
\* two that stand, two that require a rollback
MCFewCollections ==
    [baseline : {<<Good, Good>>}, observed : {<<Good>>, <<Shifted>>, <<Disaster>>, <<Slower, Slower>>}]

Monitor == INSTANCE PostDeploymentMonitor WITH
    Overlap <- TRUE, pc <- monitor_pc, calls <- monitor_calls

ASSUME MonitoringConstants ==
    Monitor!MonitorConstants /\ FewCollections \subseteq Collections

-----------------------------------------------------------------------------
(* What the requests ask *)

Metric == [key |-> "p99", required |-> TRUE, applicable |-> TRUE, baseline |-> 10, candidate |-> 10,
           margin |-> TRUE, calibrated |-> TRUE, protect |-> 4, gain |-> 4, broken |-> "none", holds |-> TRUE]
Request == [profile |-> "AUTONOMOUS", primary |-> "p99", metrics |-> <<Metric>>,
            safe |-> TRUE, environment |-> TRUE, family |-> TRUE, benefit |-> TRUE]
\* Two candidates: admissible, admissible in a profile that is never eligible, with more
\* pairs, and a regression
FewRequests ==
    {Request, [Request EXCEPT !.profile = "SMOKE"],
     [Request EXCEPT !.metrics[1].baseline = 12, !.metrics[1].candidate = 12],
     [Request EXCEPT !.family = FALSE]}

\* Counts on both sides of every threshold: none, below three, three, the minimum of
\* AUTONOMOUS and PUBLICATION and their maxima
Primaries ==
    {[Metric EXCEPT !.baseline = b, !.candidate = b, !.margin = g, !.calibrated = k, !.protect = n, !.gain = i]
        : b \in {0, 2, 3, 10, 15, 30, 40}, g \in BOOLEAN, k \in BOOLEAN, n \in {0, 12, 31}, i \in {0, 16, 41}}
    \cup {[Metric EXCEPT !.candidate = c, !.broken = x] : c \in {9, 10}, x \in {"none", "baseline", "candidate"}}
OneMetric ==
    {[Request EXCEPT !.profile = p, !.metrics = <<m>>] : p \in DOMAIN PROFILES, m \in Primaries}
\* A second metric, protected, optional or not applicable, or with the key of the first
Seconds ==
    {[Metric EXCEPT !.key = "cpu", !.required = r, !.applicable = a, !.baseline = b, !.candidate = b,
                    !.calibrated = k, !.protect = n, !.holds = h]
        : r \in BOOLEAN, a \in BOOLEAN, b \in {0, 3, 10}, k \in BOOLEAN, n \in {12, 31}, h \in BOOLEAN}
    \cup {[Metric EXCEPT !.calibrated = k, !.gain = i] : k \in BOOLEAN, i \in {16, 41}}
TwoMetrics ==
    {[profile |-> p, primary |-> k, metrics |-> <<[Metric EXCEPT !.baseline = b, !.candidate = b], m>>,
      safe |-> o # "unsafe", environment |-> o # "elsewhere", family |-> o # "family", benefit |-> o # "benefit"]
        : p \in DOMAIN PROFILES, k \in {"p99", "cpu", "disk"}, b \in {3, 10}, m \in Seconds,
          o \in {"unsafe", "elsewhere", "family", "benefit", "fine"}}
ManyRequests == OneMetric \cup TwoMetrics

AllRequests == FewRequests \cup ManyRequests
MCRanked == <<"c1", "c2">>

ASSUME VerdictsConstants == "w1" \in Workers /\ AllRequests \subseteq Requests

-----------------------------------------------------------------------------
(* What the workloads ask *)

Derivation == INSTANCE CandidateDerivation WITH pc <- derivation_pc

MCFields == 1..6
MCNamespaces == {"n1", "n2"}
Filters == [MCFields -> {"none", "equality", "range"}]
Filter(equality, range) ==
    [f \in MCFields |-> IF f \in equality THEN "equality" ELSE IF f \in range THEN "range" ELSE "none"]
Sorts == {<<>>, <<<<2, -1>>, <<1, 1>>>>}
Shape(i, n, p, f, s) == [id |-> i, namespace |-> n, find |-> TRUE, protected |-> p, filter |-> f, sort |-> s]
\* One query of any filter: nothing, up to five fields, and six
AnyFilter == {{Shape(1, "n1", TRUE, f, s)} : f \in Filters, s \in Sorts}
\* Two queries of one namespace or of two, some of them aggregates, which have no filter
Queries(i) ==
    {Shape(i, n, p, f, s) :
        n \in MCNamespaces, p \in BOOLEAN, f \in {Filter({1}, {}), Filter({3}, {1})}, s \in Sorts}
    \cup {[Shape(i, n, TRUE, Filter({}, {}), <<>>) EXCEPT !.find = FALSE] : n \in MCNamespaces}
TwoQueries ==
    {{p, q} : p \in {p \in Queries(1) : p.namespace = "n1"}, q \in Queries(2)}
\* those of two shapes
MCWorkloads == AnyFilter
    \cup {w \in TwoQueries : \A p, q \in w : p.id < q.id => [p EXCEPT !.id = q.id, !.protected = q.protected] # q}
MCFewWorkloads == {{Shape(1, "n1", TRUE, Filter({1}, {}), <<>>)}}
MCCatalogs == {{}, {<<<<1, 1>>>>}}

ASSUME DerivingConstants == Derivation!DerivationConstants /\ FewWorkloads \subseteq Workloads

-----------------------------------------------------------------------------

AllInit ==
    /\ acting \in Acting
    /\ Init /\ Monitor!Init
    /\ acting # "derivation" => queries \in FewWorkloads /\ findings = {}
    /\ Derivation!Init
    /\ acting # "derivation" \/ Cardinality(queries) = 1 => allowlisted = Namespaces /\ accessible = Namespaces
    /\ acting # "derivation" => catalog = [n \in Namespaces |-> {}]

\* "requests": one worker decides, on any request for the first candidate.
RequestsNext ==
    \/ calls = 0 /\ \E r \in ManyRequests : begin("w1", [c \in ToSet(Ranked) |-> IF c = "c1" THEN r ELSE Request])
    \/ decide("w1") \/ commit("w1") \/ die("w1")

\* "admission": workers overlap and die, with a few requests for some candidates or all.
AdmissionNext ==
    \E w \in Workers :
        \/ \E S \in SUBSET ToSet(Ranked) : \E q \in [S -> FewRequests] : begin(w, q)
        \/ decide(w) \/ commit(w) \/ die(w)

\* "windows": one worker decides once, on any windows.
WindowsNext ==
    monitor_calls = 0 /\ \E c \in Collections : Monitor!monitor("w1", c)

\* "monitoring": workers overlap and die, with few windows; "one stage": they die, and one
\* at a time is in the stage.
MonitoringNext ==
    \E w \in Workers :
        \/ /\ \E c \in FewCollections : Monitor!monitor(w, c)
           /\ acting = "one stage" => \A v \in Workers : monitor_pc[v] = "idle"
        \/ Monitor!monitor_raises(w)
        \/ Monitor!roll_back(w) \/ Monitor!record_audit(w) \/ Monitor!lookup(w)
        \/ Monitor!record_experience(w) \/ Monitor!transition(w) \/ Monitor!die(w)

AllNext ==
    \/ /\ (acting = "requests" /\ RequestsNext) \/ (acting = "admission" /\ AdmissionNext)
       /\ UNCHANGED <<acting, monitor_vars, derivation_vars>>
    \/ /\ (acting = "windows" /\ WindowsNext) \/ (acting \in {"monitoring", "one stage"} /\ MonitoringNext)
       /\ UNCHANGED <<acting, vars, derivation_vars>>
    \/ acting = "derivation" /\ Derivation!Next /\ UNCHANGED <<acting, vars, monitor_vars>>

AllSpec == AllInit /\ [][AllNext]_allvars

-----------------------------------------------------------------------------
(* The properties of the three, which say what they are about *)

\* create_for_run of the admission: every verdict is what the counts and margins of its
\* request justify, and of overlapping workers one decides, on one candidate.
AdmissionIsSound == VerdictIsSound /\ DecisionIsOne

\* create_for_run of the candidates: they are indexes for the run's queries, within its
\* bounds, and none is missing because a model did not think of it.
DerivationIsSound == Derivation!DerivationIsSound

\* The stage as a whole: a deployment is rolled back when the windows of some call require
\* it, and only then; a run that left the stage has its audit event and its experience, of what happened to it;
\* and while one worker at a time is in the stage there is one experience of an outcome,
\* though the stage dies and is called again.
MonitoringIsSound ==
    /\ Monitor!RollbackHasCause /\ Monitor!TerminalIsTold
    /\ acting = "one stage" => Monitor!OutcomeOnce

-----------------------------------------------------------------------------
(* What the documentation claims and the code does not keep *)

\* README: "applying the classic Equality -> Sort -> Range pattern to a query shape's fields".
IndexHasSort == Derivation!IndexHasSort

\* docs/PHASE_STATUS.md: "Candidates are de-duplicated".
KeysDistinct == Derivation!KeysDistinct

\* already_recorded, also when workers overlap in the stage.
OutcomeOnceAlways == Monitor!OutcomeOnce
=============================================================================
