--------------------------- MODULE AdmissionDecision ---------------------------
(***************************************************************************)
(* The statistical admission of a run's candidates.                        *)
(*                                                                         *)
(*   admission/statistics.py  evaluate_candidate_admission                 *)
(*   admission/policy.py      PROFILES                                     *)
(*   admission/durable.py     DurableAdmissionService.decide_for_run       *)
(*                                                                         *)
(* The arithmetic on a metric's observations is reduced to what the        *)
(* verdict reads of it: how many observations there are, how many its      *)
(* calibration asks for, whether they are usable, and on which side of its *)
(* margin each interval lies.  The order of the gates, the counts and the  *)
(* transaction that records the verdicts are the code's.                   *)
(***************************************************************************)
EXTENDS Integers, Sequences, SequencesExt, FiniteSets, FiniteSetsExt

CONSTANTS
    Workers, Candidates,
    Ranked,      \* evaluation_plans.selected_candidate_ids
    Requests,    \* the AdmissionRequests a caller may bring for a candidate
    MaxCalls     \* bound on the calls of decide_for_run

ASSUME AdmissionConstants ==
    /\ Ranked \in Seq(Candidates) /\ IsInjective(Ranked)
    /\ {"nobody", "none"} \cap Candidates = {}
    /\ MaxCalls \in Nat

VARIABLES
    artifact,    \* the run's admission_artifacts row, or NoArtifact
    decisions,   \* admission_decisions: the verdict of each candidate
    standing,    \* candidates.status
    pc, brought, \* the calls under way and the requests they were given
    done,        \* how many candidates the open transaction has decided
    answers,     \* history: what the calls returned
    calls

vars == <<artifact, decisions, standing, pc, brought, done, answers, calls>>

-----------------------------------------------------------------------------
(* The verdict on one candidate *)

MINIMUM_OBSERVATIONS == 3

PROFILES ==
    [SMOKE       |-> [eligible |-> FALSE, minimum |-> 3,  maximum |-> 0],
     AUTONOMOUS  |-> [eligible |-> TRUE,  minimum |-> 10, maximum |-> 30],
     PUBLICATION |-> [eligible |-> FALSE, minimum |-> 15, maximum |-> 40]]

\* _validate_value, _finite_array: which of a metric's values are not finite or negative
Broken == {"none", "baseline", "candidate"}

\* A metric of a request; metrics of several scopes may have one key:
\*   margin      its permitted regression is above zero
\*   calibrated  it has two A/A scores at least
\*   protect     the pairs its A/A spread asks for within its margin
\*   gain        the pairs its A/A spread asks for within the minimum benefit
\*   broken      which of its values are unusable
\*   holds       the upper bound of its regression is within its margin
MetricType ==
    [key : STRING, required : BOOLEAN, applicable : BOOLEAN, baseline : Nat, candidate : Nat,
     margin : BOOLEAN, calibrated : BOOLEAN, protect : Nat, gain : Nat,
     broken : Broken, holds : BOOLEAN]

RequestType ==
    [profile : DOMAIN PROFILES, primary : STRING, metrics : Seq(MetricType),
     safe : BOOLEAN, environment : BOOLEAN, family : BOOLEAN, benefit : BOOLEAN]

ASSUME RequestsAreTyped == Requests \subseteq RequestType

required_metrics(r) == {m \in ToSet(r.metrics) : m.required /\ m.applicable}

actual_pairs(r) == IF required_metrics(r) = {} THEN 0 ELSE Min({m.baseline : m \in required_metrics(r)})

\* primary: the first of the required metrics that has its key, if there is one
primaries(r) ==
    LET P == {i \in DOMAIN r.metrics :
                r.metrics[i].required /\ r.metrics[i].applicable /\ r.metrics[i].key = r.primary}
    IN  IF P = {} THEN {} ELSE {r.metrics[Min(P)]}

\* _required_for_metric and _required_for_primary; estimate_required_pairs answers the
\* maximum for a metric without a margin, before it looks at the scores.
required_for_metric(m, maximum) == IF m.margin THEN m.protect ELSE maximum

required_for_primary(m) == m.gain

Uncalibratable(r) ==
    \/ \E m \in required_metrics(r) : m.broken = "baseline" \/ (m.margin /\ ~m.calibrated)
    \/ \E m \in primaries(r) : ~m.calibrated

\* required_pairs, and the count each metric is held to
required_pairs(r) ==
    LET s == PROFILES[r.profile] IN
    Max({MINIMUM_OBSERVATIONS, s.minimum} \cup
        (IF r.profile = "SMOKE" THEN {}
         ELSE {required_for_metric(m, s.maximum) : m \in required_metrics(r)}
              \cup {required_for_primary(m) : m \in primaries(r)}))

required_by_metric(r, m) ==
    IF r.profile = "SMOKE" THEN required_pairs(r)
    ELSE Max({MINIMUM_OBSERVATIONS, required_for_metric(m, PROFILES[r.profile].maximum)})

TooFew(r) == \E m \in required_metrics(r) : m.baseline < required_by_metric(r, m)

\* paired_max_statistic_upper_bound takes a family of the same pairs
Misaligned(r) == \E m, n \in required_metrics(r) : m.baseline # n.baseline \/ m.baseline < MINIMUM_OBSERVATIONS

\* the returns of evaluate_candidate_admission in their order
Gates(r) ==
    LET ms == required_metrics(r)
        counted == r.profile # "SMOKE"
        G(fails, status, reason, pairs) == [fails |-> fails, status |-> status, reason |-> reason, pairs |-> pairs]
    IN  <<G(~r.safe, "REJECTED_SAFETY_INVARIANT", "SAFETY_INVARIANT_FAILED", 0),
          G(~r.environment, "INCONCLUSIVE_ENVIRONMENT", "ENVIRONMENT_MISMATCH", 0),
          G(\E m \in ms : m.baseline = 0 \/ m.baseline # m.candidate,
            "INCONCLUSIVE_MISSING_METRIC", "REQUIRED_METRIC_MISSING", 0),
          G(primaries(r) = {}, "INCONCLUSIVE_MISSING_METRIC", "PRIMARY_METRIC_MISSING", 0),
          G(counted /\ Uncalibratable(r), "INCONCLUSIVE_MISSING_METRIC", "INVALID_METRIC_DATA", 0),
          G(counted /\ required_pairs(r) > PROFILES[r.profile].maximum,
            "INCONCLUSIVE_NOISE", "AA_CALIBRATION_EXCEEDS_PROFILE_MAXIMUM", required_pairs(r)),
          G(TooFew(r),
            "INCONCLUSIVE_MISSING_METRIC", "INSUFFICIENT_CANDIDATE_PAIRS", required_pairs(r)),
          G((\E m \in ms : m.broken # "none") \/ Misaligned(r),
            "INCONCLUSIVE_MISSING_METRIC", "INVALID_METRIC_DATA", required_pairs(r)),
          G(~r.family \/ \E m \in ms : ~m.holds,
            "REJECTED_REGRESSION", "PROTECTED_METRIC_REGRESSION", required_pairs(r)),
          G(~r.benefit, "REJECTED_NO_MEANINGFUL_BENEFIT", "PRIMARY_BENEFIT_NOT_PROVEN", required_pairs(r)),
          G(TRUE, "ADMITTED", "", required_pairs(r))>>

\* evaluate_candidate_admission
Evaluate(r) ==
    LET gates == Gates(r)
        g == gates[Min({i \in DOMAIN gates : gates[i].fails})]
    IN  [status |-> g.status, reason |-> g.reason, required |-> g.pairs,
         actual |-> actual_pairs(r), eligible |-> PROFILES[r.profile].eligible]

-----------------------------------------------------------------------------
(* The run's admission *)

\* admitted is in the order of Ranked.
NoArtifact == [selected |-> "none", admitted |-> {}, eligible |-> FALSE]
ArtifactType == [selected : Candidates \cup {"nobody"}, admitted : SUBSET Candidates, eligible : BOOLEAN]

Statuses == {"REJECTED_SAFETY_INVARIANT", "INCONCLUSIVE_ENVIRONMENT", "INCONCLUSIVE_MISSING_METRIC",
             "INCONCLUSIVE_NOISE", "REJECTED_REGRESSION", "REJECTED_NO_MEANINGFUL_BENEFIT", "ADMITTED"}

TypeOK ==
    /\ artifact \in ArtifactType \cup {NoArtifact}
    /\ decisions \in [Candidates -> Statuses \cup {"none"}]
    /\ standing \in [Candidates -> {"RANKED", "ADMITTED", "REJECTED"}]
    /\ pc \in [Workers -> {"idle", "deciding"}]
    /\ \A w \in Workers : pc[w] = "deciding" => brought[w] \in [ToSet(Ranked) -> Requests]
    /\ done \in [Workers -> 0..Len(Ranked)]
    /\ answers \subseteq ArtifactType
    /\ calls \in 0..MaxCalls

Init ==
    /\ artifact = NoArtifact
    /\ decisions = [c \in Candidates |-> "none"]
    /\ standing = [c \in Candidates |-> "RANKED"]
    /\ pc = [w \in Workers |-> "idle"] /\ brought = [w \in Workers |-> <<>>]
    /\ done = [w \in Workers |-> 0]
    /\ answers = {} /\ calls = 0

\* The transaction ends; what it did not commit is gone.
Ended(w) ==
    /\ pc' = [pc EXCEPT ![w] = "idle"]
    /\ brought' = [brought EXCEPT ![w] = <<>>]
    /\ done' = [done EXCEPT ![w] = 0]

\* decide_for_run, up to the comparison of the requests with the plan
begin(w, q) ==
    /\ pc[w] = "idle" /\ calls < MaxCalls /\ calls' = calls + 1
    /\ IF artifact # NoArtifact
       THEN answers' = answers \cup {artifact} /\ UNCHANGED <<pc, brought, done>>
       ELSE IF DOMAIN q = ToSet(Ranked)
       THEN /\ pc' = [pc EXCEPT ![w] = "deciding"] /\ brought' = [brought EXCEPT ![w] = q]
            /\ UNCHANGED <<answers, done>>
       ELSE UNCHANGED <<pc, brought, done, answers>>
    /\ UNCHANGED <<artifact, decisions, standing>>

\* The unique index on the candidate makes an insert wait for another transaction's
\* insert of the same candidate, and fail once that one is committed.
HeldByOther(w, c) == \E v \in Workers \ {w} : pc[v] = "deciding" /\ \E i \in 1..done[v] : Ranked[i] = c

Verdict(w, c) == Evaluate(brought[w][c])

\* admitted, selected and production_eligible
Result(w) ==
    LET admitted == {i \in DOMAIN Ranked : Verdict(w, Ranked[i]).status = "ADMITTED"}
        best == Ranked[Min(admitted)]
    IN  [selected |-> IF admitted = {} THEN "nobody" ELSE best,
         admitted |-> {Ranked[i] : i \in admitted},
         eligible |-> admitted # {} /\ Verdict(w, best).eligible]

\* the verdict on the next candidate
decide(w) ==
    /\ pc[w] = "deciding" /\ done[w] < Len(Ranked)
    /\ LET c == Ranked[done[w] + 1] IN
       IF decisions[c] # "none" THEN Ended(w)
       ELSE /\ ~HeldByOther(w, c)
            /\ done' = [done EXCEPT ![w] = @ + 1] /\ UNCHANGED <<pc, brought>>
    /\ UNCHANGED <<artifact, decisions, standing, answers, calls>>

\* only the selected candidate's standing changes
commit_SelectedOnly(w) ==
    /\ pc[w] = "deciding" /\ done[w] = Len(Ranked)
    /\ artifact = NoArtifact
    /\ artifact' = Result(w)
    /\ decisions' = [c \in Candidates |-> IF c \in ToSet(Ranked) THEN Verdict(w, c).status ELSE decisions[c]]
    /\ standing' = [c \in Candidates |-> IF c = Result(w).selected THEN "ADMITTED" ELSE standing[c]]
    /\ answers' = answers \cup {artifact'}
    /\ Ended(w)
    /\ UNCHANGED calls

\* the artifact of the run, with everything the transaction wrote
commit(w) ==
    /\ pc[w] = "deciding" /\ done[w] = Len(Ranked)
    /\ IF artifact # NoArtifact THEN UNCHANGED <<artifact, decisions, standing, answers>>
       ELSE /\ artifact' = Result(w)
            /\ decisions' = [c \in Candidates |-> IF c \in ToSet(Ranked) THEN Verdict(w, c).status ELSE decisions[c]]
            /\ standing' = [c \in Candidates |->
                   IF c \notin ToSet(Ranked) THEN standing[c]
                   ELSE IF Verdict(w, c).status = "ADMITTED" THEN "ADMITTED" ELSE "REJECTED"]
            /\ answers' = answers \cup {artifact'}
    /\ Ended(w)
    /\ UNCHANGED calls

\* The process dies or loses its connection.
die(w) ==
    /\ pc[w] = "deciding"
    /\ Ended(w)
    /\ UNCHANGED <<artifact, decisions, standing, answers, calls>>

\* the requests of a caller: one for each ranked candidate, or for some only
Brought == UNION {[S -> Requests] : S \in SUBSET ToSet(Ranked)}

Next == \E w \in Workers :
    \/ \E q \in Brought : begin(w, q)
    \/ decide(w) \/ commit(w) \/ die(w)

Spec == Init /\ [][Next]_vars

-----------------------------------------------------------------------------
(* Properties *)

\* What a call is deciding about
UnderDecision == UNION {{brought[w][c] : c \in DOMAIN brought[w]} : w \in {v \in Workers : pc[v] = "deciding"}}

Admits(r) == Evaluate(r).status = "ADMITTED"

\* The ways the measurements of a metric can be a worse case for the candidate
WorseMetric(m) ==
    {[m EXCEPT !.holds = FALSE], [m EXCEPT !.broken = "candidate"], [m EXCEPT !.calibrated = FALSE],
     [m EXCEPT !.protect = @ + 20], [m EXCEPT !.gain = @ + 20],
     [m EXCEPT !.candidate = m.baseline + 1], [m EXCEPT !.baseline = 0]}

\* The ways a request can be
Worse(r) ==
    {[r EXCEPT !.safe = FALSE], [r EXCEPT !.environment = FALSE],
     [r EXCEPT !.family = FALSE], [r EXCEPT !.benefit = FALSE]}
    \cup UNION {{[r EXCEPT !.metrics[i] = m] : m \in WorseMetric(r.metrics[i])} : i \in DOMAIN r.metrics}

\* evaluate_candidate_admission, gate by gate: evidence that is worse in any one way never
\* turns a refusal into an admission.
WorseNeverHelps == \A r \in UnderDecision : ~Admits(r) => \A s \in Worse(r) : ~Admits(s)

\* metric.required and metric.applicable: what is measured of other metrics, however bad,
\* changes neither the verdict nor the counts.
OthersDoNotCount == \A r \in UnderDecision : \A i \in DOMAIN r.metrics :
    LET m == r.metrics[i] IN
    ~(m.required /\ m.applicable) => \A n \in WorseMetric(m) : Evaluate([r EXCEPT !.metrics[i] = n]) = Evaluate(r)

\* "A candidate is admitted only when" its calibrations fit the profile and each of its
\* protected metrics has at least the pairs its own calibration asked for.
AdmittedIsCalibrated == \A r \in UnderDecision : Admits(r) /\ r.profile # "SMOKE" =>
    \A m \in required_metrics(r) :
        /\ m.margin => m.baseline >= m.protect
        /\ m \in primaries(r) => m.gain <= PROFILES[r.profile].maximum

\* "Required count is the maximum of all protected metrics, primary benefit, and profile
\* minimum": an admitted candidate has the count its own result says it required.
AdmittedHasRequiredPairs == \A r \in UnderDecision :
    Admits(r) => Evaluate(r).actual >= Evaluate(r).required

\* decide_for_run, "highest-ranked selection": the selected candidate was admitted and
\* nothing ranked above it was; nobody is selected only if nobody was admitted, and then
\* the run is not eligible for production.
SelectedIsBestRanked ==
    artifact # NoArtifact =>
        IF artifact.selected = "nobody"
        THEN ~artifact.eligible /\ \A c \in ToSet(Ranked) : decisions[c] # "ADMITTED"
        ELSE \E i \in DOMAIN Ranked :
                /\ artifact.selected = Ranked[i] /\ decisions[Ranked[i]] = "ADMITTED"
                /\ \A k \in 1..(i - 1) : decisions[Ranked[k]] # "ADMITTED"

\* decide_for_run in one transaction: the verdicts, the candidates' standing and the
\* artifact appear together and say the same, whoever else decides or dies meanwhile.
RowsAgree ==
    /\ artifact = NoArtifact => \A c \in Candidates : decisions[c] = "none" /\ standing[c] = "RANKED"
    /\ artifact # NoArtifact => \A c \in ToSet(Ranked) :
        /\ decisions[c] # "none"
        /\ decisions[c] = "ADMITTED" <=> c \in artifact.admitted
        /\ standing[c] = IF c \in artifact.admitted THEN "ADMITTED" ELSE "REJECTED"

\* existing: every call that returns, returns the run's one decision, also with other requests.
OneDecision == answers \subseteq {artifact}

\* evaluate_candidate_admission as a whole: it is monotone in the evidence, blind to what
\* is not protected, and strict about calibration.
VerdictIsSound == WorseNeverHelps /\ OthersDoNotCount /\ AdmittedIsCalibrated

\* decide_for_run as a whole: one decision of the run, about the best candidate, in rows
\* that agree.
DecisionIsOne == RowsAgree /\ SelectedIsBestRanked /\ OneDecision
=============================================================================
