--------------------------- MODULE VerdictsProofs ---------------------------
(***************************************************************************)
(* Proofs about the admission of a run's candidates (AdmissionDecision),   *)
(* for every ranking, every request of the types that                      *)
(* evaluate_candidate_admission accepts, and any workers; about a          *)
(* monitoring stage (PostDeploymentMonitor), for everything that its calls *)
(* may collect and every policy; and about the derivation of the           *)
(* candidates (CandidateDerivation), for every workload, catalog and       *)
(* diagnosis.                                                              *)
(***************************************************************************)
EXTENDS MCVerdicts, FiniteSetTheorems, NaturalsInduction, TLAPS

-----------------------------------------------------------------------------
(* Facts about numbers *)

\* A set of naturals has a least element, and Min (the first gate that fails, the best rank)
\* chooses it.
LEMMA MinIsLeast ==
    ASSUME NEW S \in SUBSET Nat, S # {}
    PROVE  Min(S) \in S /\ \A y \in S : Min(S) <= y
  <1>1. PICK x \in S : \A y \in S : <<y, x>> \notin OpToRel(<, Nat)
    BY NatLessThanWellFounded, WFMin, Zenon
  <1>2. \A y \in S : ~(y < x)
    BY <1>1, Zenon DEF OpToRel
  <1>3. \A y \in S : x <= y
    BY <1>2
  <1> QED BY <1>3 DEF Min

\* A bounded set of naturals has a greatest element, and Max (required_pairs) chooses it.
LEMMA MaxIsGreatest ==
    ASSUME NEW S \in SUBSET Nat, S # {}, NEW b \in Nat, \A x \in S : x <= b
    PROVE  Max(S) \in S /\ \A y \in S : y <= Max(S)
  <1> DEFINE T == {b - x : x \in S}
  <1>1. \A x \in S : b - x \in Nat
    OBVIOUS
  <1>2. T \in SUBSET Nat /\ T # {}
    BY <1>1
  <1>3. Min(T) \in T /\ \A d \in T : Min(T) <= d
    BY <1>2, MinIsLeast
  <1>4. PICK x \in S : Min(T) = b - x
    BY <1>3
  <1>5. ASSUME NEW y \in S PROVE x >= y
    <2>1. b - y \in T
      OBVIOUS
    <2>2. b - x <= b - y
      BY <1>3, <1>4, <2>1
    <2> QED BY <2>2
  <1>6. \A y \in S : Max(S) >= y /\ Max(S) \in S
    BY <1>5, Zenon DEF Max
  <1> QED BY <1>4, <1>6

\* The naturals of a finite sequence have a bound.
LEMMA SequenceIsBounded ==
    ASSUME NEW n \in Nat, NEW f \in [1..n -> Nat]
    PROVE  \E b \in Nat : \A i \in 1..n : f[i] <= b
  <1> DEFINE Bounded(j) == \E b \in Nat : \A i \in 1..j : f[i] <= b
             S == {j \in 0..n : ~Bounded(j)}
  <1> SUFFICES ASSUME ~Bounded(n) PROVE FALSE
    OBVIOUS
  <1>1. \E k \in 0..n : ~Bounded(k) /\ \A y \in 0..n : y < k => Bounded(y)
    <2> HIDE DEF Bounded
    <2>1. n \in S /\ S \in SUBSET Nat
      OBVIOUS
    <2> HIDE DEF S
    <2>2. Min(S) \in S /\ \A y \in S : Min(S) <= y
      BY <2>1, MinIsLeast
    <2> USE DEF S
    <2>3. Min(S) \in 0..n /\ ~Bounded(Min(S)) /\ \A y \in 0..n : y < Min(S) => Bounded(y)
      BY <2>2
    <2> HIDE DEF S
    <2> QED BY <2>3
  <1>2. PICK k \in 0..n : ~Bounded(k) /\ \A y \in 0..n : y < k => Bounded(y)
    BY <1>1
  <1> HIDE DEF S
  <1>3. k # 0
    <2>1. \A i \in 1..0 : f[i] <= 0
      OBVIOUS
    <2> QED BY <1>2, <2>1
  <1>4. PICK b \in Nat : \A i \in 1..(k - 1) : f[i] <= b
    <2>1. Bounded(k - 1)
      <3> HIDE DEF Bounded
      <3> QED BY <1>2, <1>3
    <2> QED BY <2>1
  <1>n. k \in 1..n
    BY <1>2, <1>3
  <1>5. f[k] \in Nat
    BY <1>n
  <1> DEFINE top == f[k]
  <1>t. top \in Nat
    BY <1>5
  <1> HIDE DEF top, Bounded
  <1>6. \A i \in 1..k : f[i] <= b + top
    <2> TAKE i \in 1..k
    <2>1. CASE i = k
      BY <1>t, <1>4, <2>1 DEF top
    <2>2. CASE i # k
      <3>1. i \in 1..(k - 1)
        BY <1>n, <2>2
      <3>2. f[i] <= b
        BY <1>4, <3>1
      <3>3. f[i] \in Nat
        BY <1>n, <3>1
      <3> QED BY <1>4, <1>t, <3>2, <3>3
    <2> QED BY <2>1, <2>2
  <1>7. b + top \in Nat
    BY <1>4, <1>t
  <1>8. Bounded(k)
    BY <1>6, <1>7 DEF Bounded
  <1> QED BY <1>2, <1>8

-----------------------------------------------------------------------------
(* The verdict: evaluate_candidate_admission *)

\* What the requests are: the metrics and the profile have their types.
LEMMA RequestTypes ==
    ASSUME NEW r \in RequestType
    PROVE  /\ r.profile \in DOMAIN PROFILES
           /\ \A m \in ToSet(r.metrics) : m \in MetricType
           /\ required_metrics(r) \subseteq ToSet(r.metrics)
           /\ \A i \in DOMAIN r.metrics : r.metrics[i] \in MetricType
           /\ PROFILES[r.profile].minimum \in Nat /\ PROFILES[r.profile].maximum \in Nat
  <1>1. r.profile \in DOMAIN PROFILES /\ r.metrics \in Seq(MetricType)
    BY DEF RequestType
  <1>2. \A i \in DOMAIN r.metrics : r.metrics[i] \in MetricType
    BY <1>1
  <1>3. PROFILES[r.profile].minimum \in Nat /\ PROFILES[r.profile].maximum \in Nat
    BY <1>1 DEF PROFILES
  <1> QED BY <1>1, <1>2, <1>3 DEF ToSet, required_metrics

\* primary: the first required metric with the key is one of the required ones.
LEMMA PrimaryIsRequired ==
    ASSUME NEW r \in RequestType
    PROVE  primaries(r) \subseteq required_metrics(r)
  <1> DEFINE P == {i \in DOMAIN r.metrics : r.metrics[i].required /\ r.metrics[i].applicable /\ r.metrics[i].key = r.primary}
  <1>1. CASE P = {}
    BY <1>1 DEF primaries
  <1>2. CASE P # {}
    <2>1. P \in SUBSET Nat
      BY DEF RequestType
    <2>2. Min(P) \in P
      BY <1>2, <2>1, MinIsLeast
    <2>3. primaries(r) = {r.metrics[Min(P)]}
      BY <1>2 DEF primaries
    <2> QED BY <2>2, <2>3 DEF required_metrics, ToSet
  <1> QED BY <1>1, <1>2

\* The counts that required_pairs is the maximum of
Counts(r) ==
    {MINIMUM_OBSERVATIONS, PROFILES[r.profile].minimum} \cup
        (IF r.profile = "SMOKE" THEN {}
         ELSE {required_for_metric(m, PROFILES[r.profile].maximum) : m \in required_metrics(r)}
              \cup {required_for_primary(m) : m \in primaries(r)})

\* required_pairs: the maximum exists and is one of the counts.
LEMMA RequiredPairsIsMaximum ==
    ASSUME NEW r \in RequestType
    PROVE  /\ Counts(r) \subseteq Nat
           /\ required_pairs(r) \in Counts(r)
           /\ \A n \in Counts(r) : n <= required_pairs(r)
  <1> DEFINE top == PROFILES[r.profile].maximum
             low == PROFILES[r.profile].minimum
             n == Len(r.metrics)
             protects == [i \in 1..n |-> r.metrics[i].protect]
             gains == [i \in 1..n |-> r.metrics[i].gain]
  <1>1. n \in Nat /\ DOMAIN r.metrics = 1..n /\ \A i \in 1..n : r.metrics[i] \in MetricType
    BY DEF RequestType
  <1>2. protects \in [1..n -> Nat] /\ gains \in [1..n -> Nat]
    BY <1>1 DEF MetricType
  <1>3. PICK a \in Nat : \A i \in 1..n : protects[i] <= a
    BY <1>1, <1>2, SequenceIsBounded
  <1>4. PICK b \in Nat : \A i \in 1..n : gains[i] <= b
    BY <1>1, <1>2, SequenceIsBounded
  <1>5. top \in Nat /\ low \in Nat
    BY RequestTypes
  <1>6. \A m \in required_metrics(r) : m.protect \in Nat /\ m.gain \in Nat /\ m.protect <= a /\ m.gain <= b
    BY <1>1, <1>2, <1>3, <1>4 DEF required_metrics, ToSet
  <1> HIDE DEF top, low, n, protects, gains
  <1>7. \A m \in required_metrics(r) : required_for_metric(m, top) \in Nat /\ required_for_metric(m, top) <= a + top
    BY <1>5, <1>6 DEF required_for_metric
  <1>8. \A m \in primaries(r) : required_for_primary(m) \in Nat /\ required_for_primary(m) <= b
    BY <1>6, PrimaryIsRequired DEF required_for_primary
  <1>9. \A c \in Counts(r) : c \in Nat /\ c <= 3 + low + a + top + b
    BY <1>5, <1>7, <1>8 DEF Counts, MINIMUM_OBSERVATIONS, top, low
  <1>10. Counts(r) # {} /\ 3 + low + a + top + b \in Nat
    BY <1>5 DEF Counts
  <1>11. required_pairs(r) = Max(Counts(r))
    BY DEF required_pairs, Counts
  <1> QED BY <1>9, <1>10, <1>11, MaxIsGreatest

\* The gates of evaluate_candidate_admission before its last return, all passed
Passes(r) ==
    /\ r.safe /\ r.environment
    /\ \A m \in required_metrics(r) : m.baseline # 0 /\ m.baseline = m.candidate
    /\ primaries(r) # {}
    /\ r.profile # "SMOKE" => ~Uncalibratable(r)
    /\ r.profile # "SMOKE" => ~(required_pairs(r) > PROFILES[r.profile].maximum)
    /\ \A m \in required_metrics(r) : ~(m.baseline < required_by_metric(r, m))
    /\ (\A m \in required_metrics(r) : m.broken = "none") /\ ~Misaligned(r)
    /\ r.family /\ \A m \in required_metrics(r) : m.holds
    /\ r.benefit

\* Every request is answered with one of the statuses, and admitted exactly when it passes
\* every gate (evaluate_candidate_admission).
LEMMA VerdictOf ==
    ASSUME NEW r \in RequestType
    PROVE  /\ Evaluate(r).status \in Statuses
           /\ Admits(r) <=> Passes(r)
           /\ Evaluate(r).eligible \in BOOLEAN
  <1> DEFINE gates == Gates(r)
             F == {i \in DOMAIN gates : gates[i].fails}
             ms == required_metrics(r)
             f3 == \E m \in ms : m.baseline = 0 \/ m.baseline # m.candidate
             f4 == primaries(r) = {}
             f5 == r.profile # "SMOKE" /\ Uncalibratable(r)
             f6 == r.profile # "SMOKE" /\ required_pairs(r) > PROFILES[r.profile].maximum
             f7 == TooFew(r)
             f8 == (\E m \in ms : m.broken # "none") \/ Misaligned(r)
             f9 == ~r.family \/ \E m \in ms : ~m.holds
  <1>1. DOMAIN gates = 1..11
    BY DEF Gates
  <1>2. /\ gates[1].fails = ~r.safe /\ gates[2].fails = ~r.environment /\ gates[3].fails = f3
        /\ gates[4].fails = f4 /\ gates[5].fails = f5 /\ gates[6].fails = f6 /\ gates[7].fails = f7
        /\ gates[8].fails = f8 /\ gates[9].fails = f9 /\ gates[10].fails = ~r.benefit /\ gates[11].fails = TRUE
    BY DEF Gates
  <1>3. /\ \A i \in 1..10 : gates[i].status \in Statuses \ {"ADMITTED"}
        /\ gates[11].status = "ADMITTED"
    <2>1. /\ gates[1].status = "REJECTED_SAFETY_INVARIANT" /\ gates[2].status = "INCONCLUSIVE_ENVIRONMENT"
          /\ gates[3].status = "INCONCLUSIVE_MISSING_METRIC" /\ gates[4].status = "INCONCLUSIVE_MISSING_METRIC"
          /\ gates[5].status = "INCONCLUSIVE_MISSING_METRIC" /\ gates[6].status = "INCONCLUSIVE_NOISE"
          /\ gates[7].status = "INCONCLUSIVE_MISSING_METRIC" /\ gates[8].status = "INCONCLUSIVE_MISSING_METRIC"
          /\ gates[9].status = "REJECTED_REGRESSION" /\ gates[10].status = "REJECTED_NO_MEANINGFUL_BENEFIT"
          /\ gates[11].status = "ADMITTED"
      BY DEF Gates
    <2> HIDE DEF gates
    <2> QED BY <2>1 DEF Statuses
  <1> HIDE DEF gates
  <1>4. F \in SUBSET Nat /\ 11 \in F
    BY <1>1, <1>2
  <1>5. Min(F) \in F /\ \A i \in F : Min(F) <= i
    BY <1>4, MinIsLeast
  <1>6. Evaluate(r).status = gates[Min(F)].status /\ Evaluate(r).eligible = PROFILES[r.profile].eligible
    BY DEF Evaluate, gates
  <1>7. Evaluate(r).status = "ADMITTED" <=> \A i \in 1..10 : ~gates[i].fails
    <2> HIDE DEF F
    <2>1. Min(F) \in 1..11
      BY <1>1, <1>5 DEF F
    <2>2. (\A i \in 1..10 : ~gates[i].fails) => Min(F) = 11
      BY <1>5, <2>1 DEF F
    <2>3. \A i \in 1..10 : gates[i].fails => Min(F) # 11
      BY <1>1, <1>5 DEF F
    <2> QED BY <1>3, <1>6, <2>1, <2>2, <2>3
  <1>8. Admits(r) <=> Passes(r)
    <2>1. (\A i \in 1..10 : ~gates[i].fails) <=>
             ~gates[1].fails /\ ~gates[2].fails /\ ~gates[3].fails /\ ~gates[4].fails /\ ~gates[5].fails
             /\ ~gates[6].fails /\ ~gates[7].fails /\ ~gates[8].fails /\ ~gates[9].fails /\ ~gates[10].fails
      OBVIOUS
    <2> HIDE DEF f3, f4, f5, f6, f7, f8, f9
    <2>2. Admits(r) <=> /\ r.safe /\ r.environment /\ ~f3 /\ ~f4 /\ ~f5 /\ ~f6 /\ ~f7 /\ ~f8 /\ ~f9 /\ r.benefit
      BY <1>2, <1>7, <2>1, Zenon DEF Admits
    <2>3. Passes(r) <=> /\ r.safe /\ r.environment /\ ~f3 /\ ~f4 /\ ~f5 /\ ~f6 /\ ~f7 /\ ~f8 /\ ~f9 /\ r.benefit
      BY Zenon DEF Passes, TooFew, f3, f4, f5, f6, f7, f8, f9
    <2> QED BY <2>2, <2>3
  <1>9. Evaluate(r).status \in Statuses
    BY <1>1, <1>3, <1>5, <1>6 DEF Statuses
  <1>10. Evaluate(r).eligible \in BOOLEAN
    <2>1. r.profile \in {"SMOKE", "AUTONOMOUS", "PUBLICATION"}
      BY RequestTypes DEF PROFILES
    <2>2. /\ PROFILES["SMOKE"].eligible = FALSE /\ PROFILES["AUTONOMOUS"].eligible = TRUE
          /\ PROFILES["PUBLICATION"].eligible = FALSE
      BY DEF PROFILES
    <2> QED BY <1>6, <2>1, <2>2
  <1> QED BY <1>8, <1>9, <1>10

\* n measures of a metric what is no better for the candidate than m does.
NoBetter(n, m) ==
    /\ n.key = m.key /\ n.required = m.required /\ n.applicable = m.applicable /\ n.margin = m.margin
    /\ n.holds => m.holds
    /\ n.broken = "none" => m.broken = "none"
    /\ n.calibrated => m.calibrated
    /\ m.protect <= n.protect /\ m.gain <= n.gain
    /\ n.baseline # 0 /\ n.baseline = n.candidate => m.baseline = n.baseline /\ m.candidate = n.candidate

\* A worse measurement is a measurement, and no better.
LEMMA WorseIsNoBetter ==
    ASSUME NEW m \in MetricType, NEW n \in WorseMetric(m)
    PROVE  n \in MetricType /\ NoBetter(n, m)
  <1> USE DEF MetricType
  <1>1. m.protect + 20 \in Nat /\ m.gain + 20 \in Nat /\ m.baseline + 1 \in Nat /\ m.protect <= m.protect + 20 /\ m.gain <= m.gain + 20
    OBVIOUS
  <1>2. CASE n = [m EXCEPT !.holds = FALSE]
    <2>1. n \in MetricType
      BY <1>2
    <2>2. n.holds = FALSE
      BY <1>2
    <2> QED BY <1>2, <2>1, <2>2 DEF NoBetter
  <1>3. CASE n = [m EXCEPT !.broken = "candidate"]
    BY <1>3 DEF NoBetter, Broken
  <1>4. CASE n = [m EXCEPT !.calibrated = FALSE]
    <2>1. n \in MetricType
      BY <1>4
    <2>2. n.calibrated = FALSE
      BY <1>4
    <2> QED BY <1>4, <2>1, <2>2 DEF NoBetter
  <1>5. CASE n = [m EXCEPT !.protect = @ + 20]
    BY <1>1, <1>5 DEF NoBetter
  <1>6. CASE n = [m EXCEPT !.gain = @ + 20]
    BY <1>1, <1>6 DEF NoBetter
  <1>7. CASE n = [m EXCEPT !.candidate = m.baseline + 1]
    BY <1>1, <1>7 DEF NoBetter
  <1>8. CASE n = [m EXCEPT !.baseline = 0]
    BY <1>8 DEF NoBetter
  <1> QED BY <1>2, <1>3, <1>4, <1>5, <1>6, <1>7, <1>8 DEF WorseMetric

\* A request asks the same of the same metrics, with measurements that are no better.
NoBetterRequest(s, r) ==
    /\ s \in RequestType /\ r \in RequestType
    /\ s.profile = r.profile /\ s.primary = r.primary
    /\ s.safe => r.safe
    /\ s.environment => r.environment
    /\ s.family => r.family
    /\ s.benefit => r.benefit
    /\ DOMAIN s.metrics = DOMAIN r.metrics
    /\ \A i \in DOMAIN r.metrics : NoBetter(s.metrics[i], r.metrics[i])

\* The worse requests are requests that are no better.
LEMMA WorseRequestIsNoBetter ==
    ASSUME NEW r \in RequestType, NEW s \in Worse(r)
    PROVE  NoBetterRequest(s, r)
  <1>1. /\ r.metrics \in Seq(MetricType) /\ \A i \in DOMAIN r.metrics : r.metrics[i] \in MetricType
    BY DEF RequestType
  <1>2. \A m \in MetricType : NoBetter(m, m)
    BY DEF NoBetter, MetricType
  <1>3. CASE s \in {[r EXCEPT !.safe = FALSE], [r EXCEPT !.environment = FALSE],
                    [r EXCEPT !.family = FALSE], [r EXCEPT !.benefit = FALSE]}
    <2>1. /\ s.profile = r.profile /\ s.primary = r.primary /\ s.metrics = r.metrics /\ s \in RequestType
          /\ s.safe => r.safe
          /\ s.environment => r.environment
          /\ s.family => r.family
          /\ s.benefit => r.benefit
      BY <1>3 DEF RequestType
    <2> QED BY <1>1, <1>2, <2>1 DEF NoBetterRequest
  <1>4. ASSUME NEW i \in DOMAIN r.metrics, NEW m \in WorseMetric(r.metrics[i]), s = [r EXCEPT !.metrics[i] = m]
        PROVE  NoBetterRequest(s, r)
    <2>1. m \in MetricType /\ NoBetter(m, r.metrics[i])
      BY <1>1, WorseIsNoBetter
    <2>2. s.metrics = [r.metrics EXCEPT ![i] = m]
      BY <1>4 DEF RequestType
    <2>3. /\ s.profile = r.profile /\ s.primary = r.primary /\ s.safe = r.safe /\ s.environment = r.environment
          /\ s.family = r.family /\ s.benefit = r.benefit
      BY <1>4 DEF RequestType
    <2>4. s.metrics \in Seq(MetricType) /\ DOMAIN s.metrics = DOMAIN r.metrics
      BY <1>1, <2>1, <2>2
    <2>5. s \in RequestType
      <3>1. s = [r EXCEPT !.metrics = [r.metrics EXCEPT ![i] = m]]
        BY <1>4
      <3>2. [r.metrics EXCEPT ![i] = m] \in Seq(MetricType)
        BY <2>2, <2>4
      <3> QED BY <3>1, <3>2 DEF RequestType
    <2>6. \A k \in DOMAIN r.metrics : NoBetter(s.metrics[k], r.metrics[k])
      BY <1>1, <1>2, <2>1, <2>2
    <2> QED BY <2>3, <2>4, <2>5, <2>6 DEF NoBetterRequest
  <1> QED BY <1>3, <1>4 DEF Worse

\* The required metrics of the two requests are the same, measurement by measurement.
LEMMA RequiredPairUp ==
    ASSUME NEW s, NEW r, NoBetterRequest(s, r)
    PROVE  /\ \A m \in required_metrics(r) : \E n \in required_metrics(s) : NoBetter(n, m)
           /\ \A n \in required_metrics(s) : \E m \in required_metrics(r) : NoBetter(n, m)
           /\ primaries(r) = {} <=> primaries(s) = {}
           /\ \A m \in primaries(r) : \E n \in primaries(s) : NoBetter(n, m)
           /\ \A n \in primaries(s) : \E m \in primaries(r) : NoBetter(n, m)
  <1> DEFINE P(q) == {i \in DOMAIN q.metrics : q.metrics[i].required /\ q.metrics[i].applicable /\ q.metrics[i].key = q.primary}
  <1>1. /\ DOMAIN s.metrics = DOMAIN r.metrics /\ s.primary = r.primary
        /\ \A i \in DOMAIN r.metrics : NoBetter(s.metrics[i], r.metrics[i])
        /\ r.metrics \in Seq(MetricType)
    BY DEF NoBetterRequest, RequestType
  <1>2. \A i \in DOMAIN r.metrics : /\ s.metrics[i].required = r.metrics[i].required
                                    /\ s.metrics[i].applicable = r.metrics[i].applicable
                                    /\ s.metrics[i].key = r.metrics[i].key
    BY <1>1 DEF NoBetter
  <1>3. P(s) = P(r)
    BY <1>1, <1>2
  <1>4. \A m \in required_metrics(r) : \E n \in required_metrics(s) : NoBetter(n, m)
    BY <1>1, <1>2 DEF required_metrics, ToSet
  <1>5. \A n \in required_metrics(s) : \E m \in required_metrics(r) : NoBetter(n, m)
    BY <1>1, <1>2 DEF required_metrics, ToSet
  <1>6. P(r) # {} => Min(P(r)) \in DOMAIN r.metrics
    <2>1. P(r) \in SUBSET Nat
      BY <1>1
    <2> QED BY <2>1, MinIsLeast
  <1>7. primaries(r) = IF P(r) = {} THEN {} ELSE {r.metrics[Min(P(r))]}
    BY DEF primaries
  <1>8. primaries(s) = IF P(s) = {} THEN {} ELSE {s.metrics[Min(P(s))]}
    BY DEF primaries
  <1> HIDE DEF P
  <1> QED BY <1>1, <1>3, <1>4, <1>5, <1>6, <1>7, <1>8

\* Worse calibrations never ask for fewer pairs.
LEMMA PairsAreMonotone ==
    ASSUME NEW s, NEW r, NoBetterRequest(s, r)
    PROVE  required_pairs(r) \in Nat /\ required_pairs(s) \in Nat /\ required_pairs(r) <= required_pairs(s)
  <1>1. s \in RequestType /\ r \in RequestType /\ s.profile = r.profile
    BY DEF NoBetterRequest
  <1> DEFINE top == PROFILES[r.profile].maximum
             low == PROFILES[r.profile].minimum
  <1>2. /\ required_pairs(r) \in Counts(r) /\ Counts(r) \subseteq Nat
        /\ required_pairs(s) \in Counts(s) /\ Counts(s) \subseteq Nat /\ \A n \in Counts(s) : n <= required_pairs(s)
    BY <1>1, RequiredPairsIsMaximum
  <1>3. ASSUME NEW c \in Counts(r) PROVE \E d \in Counts(s) : c <= d
    <2>1. CASE c \in {MINIMUM_OBSERVATIONS, low}
      <3>1. c \in Counts(s) /\ c \in Nat
        BY <1>1, <1>2, <1>3, <2>1 DEF Counts
      <3> QED BY <3>1
    <2>2. CASE r.profile # "SMOKE" /\ c \in {required_for_metric(m, top) : m \in required_metrics(r)}
      <3>1. PICK m \in required_metrics(r) : c = required_for_metric(m, top)
        BY <2>2
      <3>2. PICK n \in required_metrics(s) : NoBetter(n, m)
        BY RequiredPairUp
      <3>3. required_for_metric(n, top) \in Counts(s)
        BY <1>1, <2>2 DEF Counts
      <3>4. c \in Nat /\ required_for_metric(n, top) \in Nat
        BY <1>2, <1>3, <3>3
      <3>5. c <= required_for_metric(n, top)
        BY <3>1, <3>2, <3>4 DEF required_for_metric, NoBetter
      <3> QED BY <3>3, <3>5
    <2>3. CASE r.profile # "SMOKE" /\ c \in {required_for_primary(m) : m \in primaries(r)}
      <3>1. PICK m \in primaries(r) : c = required_for_primary(m)
        BY <2>3
      <3>2. PICK n \in primaries(s) : NoBetter(n, m)
        BY RequiredPairUp
      <3>3. required_for_primary(n) \in Counts(s)
        BY <1>1, <2>3 DEF Counts
      <3>4. c <= required_for_primary(n)
        BY <3>1, <3>2 DEF required_for_primary, NoBetter
      <3> QED BY <3>3, <3>4
    <2> QED BY <1>3, <2>1, <2>2, <2>3 DEF Counts
  <1>4. PICK d \in Counts(s) : required_pairs(r) <= d
    BY <1>2, <1>3
  <1>5. d \in Nat /\ d <= required_pairs(s)
    BY <1>2, <1>4
  <1> QED BY <1>2, <1>4, <1>5

\* required_by_metric: the maximum of a metric's own calibration and three
LEMMA RequiredByMetric ==
    ASSUME NEW r \in RequestType, NEW m \in required_metrics(r), r.profile # "SMOKE"
    PROVE  LET n == required_for_metric(m, PROFILES[r.profile].maximum) IN
           /\ n \in Nat
           /\ required_by_metric(r, m) = IF n > MINIMUM_OBSERVATIONS THEN n ELSE MINIMUM_OBSERVATIONS
  <1> DEFINE n == required_for_metric(m, PROFILES[r.profile].maximum)
             S == {MINIMUM_OBSERVATIONS, n}
  <1>1. n \in Nat /\ MINIMUM_OBSERVATIONS = 3
    BY RequiredPairsIsMaximum DEF Counts, MINIMUM_OBSERVATIONS
  <1>2. required_by_metric(r, m) = Max(S)
    BY DEF required_by_metric
  <1> HIDE DEF n
  <1>3. Max(S) \in S /\ \A y \in S : y <= Max(S)
    <2>1. S \in SUBSET Nat /\ S # {} /\ n + 3 \in Nat /\ \A x \in S : x <= n + 3
      BY <1>1
    <2> HIDE DEF S
    <2> QED BY <2>1, MaxIsGreatest
  <1> QED BY <1>1, <1>2, <1>3 DEF n

\* What passes every gate on worse evidence passes every gate.
LEMMA PassingIsMonotone ==
    ASSUME NEW s, NEW r, NoBetterRequest(s, r), Passes(s)
    PROVE  Passes(r)
  <1>1. /\ s \in RequestType /\ r \in RequestType /\ s.profile = r.profile
        /\ r.safe /\ r.environment /\ r.family /\ r.benefit
    BY DEF NoBetterRequest, Passes
  <1>2. ASSUME NEW m \in required_metrics(r), NEW n \in required_metrics(s), NoBetter(n, m)
        PROVE  /\ m.baseline = n.baseline /\ m.candidate = n.candidate /\ m.baseline # 0 /\ m.baseline = m.candidate
               /\ m.broken = "none" /\ m.holds
    BY <1>2 DEF Passes, NoBetter
  <1>3. /\ \A m \in required_metrics(r) : m \in MetricType
        /\ \A n \in required_metrics(s) : n \in MetricType
    BY <1>1, RequestTypes
  <1>4. \A m \in required_metrics(r) : m.baseline # 0 /\ m.baseline = m.candidate /\ m.broken = "none" /\ m.holds
    BY <1>2, RequiredPairUp
  <1>5. primaries(r) # {}
    BY RequiredPairUp DEF Passes
  <1>6. r.profile # "SMOKE" => ~Uncalibratable(r)
    <2> SUFFICES ASSUME r.profile # "SMOKE" PROVE ~Uncalibratable(r)
      OBVIOUS
    <2>1. ~Uncalibratable(s)
      BY <1>1 DEF Passes
    <2>2. ASSUME NEW m \in required_metrics(r) PROVE ~(m.broken = "baseline" \/ (m.margin /\ ~m.calibrated))
      <3>1. PICK n \in required_metrics(s) : NoBetter(n, m)
        BY RequiredPairUp
      <3> QED BY <1>4, <2>1, <3>1 DEF Uncalibratable, NoBetter
    <2>3. ASSUME NEW m \in primaries(r) PROVE m.calibrated
      <3>1. PICK n \in primaries(s) : NoBetter(n, m)
        BY RequiredPairUp
      <3> QED BY <2>1, <3>1 DEF Uncalibratable, NoBetter
    <2> QED BY <2>2, <2>3 DEF Uncalibratable
  <1>7. r.profile # "SMOKE" => ~(required_pairs(r) > PROFILES[r.profile].maximum)
    <2>1. PROFILES[r.profile].maximum \in Nat
      BY <1>1, RequestTypes
    <2>2. r.profile # "SMOKE" => ~(required_pairs(s) > PROFILES[r.profile].maximum)
      BY <1>1 DEF Passes
    <2> QED BY <2>1, <2>2, PairsAreMonotone
  <1>8. ASSUME NEW m \in required_metrics(r) PROVE ~(m.baseline < required_by_metric(r, m))
    <2>1. PICK n \in required_metrics(s) : NoBetter(n, m)
      BY RequiredPairUp
    <2>2. m.baseline = n.baseline /\ m.baseline \in Nat
      BY <1>2, <1>3, <2>1 DEF MetricType
    <2>3. ~(n.baseline < required_by_metric(s, n))
      BY DEF Passes
    <2>4. CASE r.profile = "SMOKE"
      <3>1. required_by_metric(r, m) = required_pairs(r) /\ required_by_metric(s, n) = required_pairs(s)
        BY <1>1, <2>4 DEF required_by_metric
      <3> QED BY <2>2, <2>3, <3>1, PairsAreMonotone
    <2>5. CASE r.profile # "SMOKE"
      <3> DEFINE top == PROFILES[r.profile].maximum
                 a == required_for_metric(m, top)
                 b == required_for_metric(n, top)
      <3>1. a \in Nat /\ required_by_metric(r, m) = IF a > MINIMUM_OBSERVATIONS THEN a ELSE MINIMUM_OBSERVATIONS
        BY <1>1, <2>5, RequiredByMetric
      <3>2. b \in Nat /\ required_by_metric(s, n) = IF b > MINIMUM_OBSERVATIONS THEN b ELSE MINIMUM_OBSERVATIONS
        BY <1>1, <2>5, RequiredByMetric
      <3>3. a <= b
        BY <2>1, <3>1, <3>2 DEF required_for_metric, NoBetter
      <3> HIDE DEF a, b
      <3> QED BY <2>2, <2>3, <3>1, <3>2, <3>3 DEF MINIMUM_OBSERVATIONS
    <2> QED BY <2>4, <2>5
  <1>9. ~Misaligned(r)
    <2> SUFFICES ASSUME NEW m \in required_metrics(r), NEW q \in required_metrics(r)
                 PROVE  ~(m.baseline # q.baseline \/ m.baseline < MINIMUM_OBSERVATIONS)
      BY DEF Misaligned
    <2>1. PICK n \in required_metrics(s) : NoBetter(n, m)
      BY RequiredPairUp
    <2>2. PICK o \in required_metrics(s) : NoBetter(o, q)
      BY RequiredPairUp
    <2>3. n.baseline = o.baseline /\ ~(n.baseline < MINIMUM_OBSERVATIONS)
      BY DEF Passes, Misaligned
    <2> QED BY <1>2, <2>1, <2>2, <2>3
  <1> QED BY <1>1, <1>4, <1>5, <1>6, <1>7, <1>8, <1>9 DEF Passes

\* evaluate_candidate_admission: a request that was refused is refused with worse evidence.
LEMMA WorseIsRefused ==
    ASSUME NEW r \in RequestType, ~Admits(r), NEW s \in Worse(r)
    PROVE  ~Admits(s)
  <1>1. NoBetterRequest(s, r)
    BY WorseRequestIsNoBetter
  <1>2. s \in RequestType
    BY <1>1 DEF NoBetterRequest
  <1> QED BY <1>1, <1>2, VerdictOf, PassingIsMonotone

\* _required_for_metric, _required_for_primary: an admitted candidate has the pairs its
\* calibrations asked for.
LEMMA AdmittedFits ==
    ASSUME NEW r \in RequestType, Admits(r), r.profile # "SMOKE", NEW m \in required_metrics(r)
    PROVE  /\ m.margin => m.baseline >= m.protect
           /\ m \in primaries(r) => m.gain <= PROFILES[r.profile].maximum
  <1> DEFINE top == PROFILES[r.profile].maximum
  <1>1. Passes(r) /\ m \in MetricType /\ top \in Nat
    BY VerdictOf, RequestTypes
  <1>2. m.protect \in Nat /\ m.gain \in Nat /\ m.baseline \in Nat
    BY <1>1 DEF MetricType
  <1>3. m.margin => m.baseline >= m.protect
    <2> DEFINE a == required_for_metric(m, top)
    <2>1. a \in Nat /\ required_by_metric(r, m) = IF a > MINIMUM_OBSERVATIONS THEN a ELSE MINIMUM_OBSERVATIONS
      BY RequiredByMetric
    <2>2. ~(m.baseline < required_by_metric(r, m))
      BY <1>1 DEF Passes
    <2>3. m.margin => a = m.protect
      BY DEF required_for_metric
    <2> HIDE DEF a
    <2> QED BY <1>2, <2>1, <2>2, <2>3 DEF MINIMUM_OBSERVATIONS
  <1>4. ASSUME m \in primaries(r) PROVE m.gain <= top
    <2>1. m.gain \in Counts(r)
      BY <1>4 DEF Counts, required_for_primary
    <2>2. m.gain <= required_pairs(r) /\ required_pairs(r) \in Nat
      BY <2>1, RequiredPairsIsMaximum
    <2>3. ~(required_pairs(r) > top)
      BY <1>1 DEF Passes
    <2> QED BY <1>1, <1>2, <2>2, <2>3
  <1> QED BY <1>3, <1>4

\* The gates as a function of what they read of a request
Table(safe, environment, family, benefit, profile, ms, none, uncalibratable, pairs, few, misaligned) ==
    LET counted == profile # "SMOKE"
        G(fails, status, reason, n) == [fails |-> fails, status |-> status, reason |-> reason, pairs |-> n]
    IN  <<G(~safe, "REJECTED_SAFETY_INVARIANT", "SAFETY_INVARIANT_FAILED", 0),
          G(~environment, "INCONCLUSIVE_ENVIRONMENT", "ENVIRONMENT_MISMATCH", 0),
          G(\E m \in ms : m.baseline = 0 \/ m.baseline # m.candidate,
            "INCONCLUSIVE_MISSING_METRIC", "REQUIRED_METRIC_MISSING", 0),
          G(none = {}, "INCONCLUSIVE_MISSING_METRIC", "PRIMARY_METRIC_MISSING", 0),
          G(counted /\ uncalibratable, "INCONCLUSIVE_MISSING_METRIC", "INVALID_METRIC_DATA", 0),
          G(counted /\ pairs > PROFILES[profile].maximum,
            "INCONCLUSIVE_NOISE", "AA_CALIBRATION_EXCEEDS_PROFILE_MAXIMUM", pairs),
          G(few, "INCONCLUSIVE_MISSING_METRIC", "INSUFFICIENT_CANDIDATE_PAIRS", pairs),
          G((\E m \in ms : m.broken # "none") \/ misaligned,
            "INCONCLUSIVE_MISSING_METRIC", "INVALID_METRIC_DATA", pairs),
          G(~family \/ \E m \in ms : ~m.holds,
            "REJECTED_REGRESSION", "PROTECTED_METRIC_REGRESSION", pairs),
          G(~benefit, "REJECTED_NO_MEANINGFUL_BENEFIT", "PRIMARY_BENEFIT_NOT_PROVEN", pairs),
          G(TRUE, "ADMITTED", "", pairs)>>

\* metric.required, metric.applicable: the verdict is a function of what is required.
LEMMA OthersAreIgnored ==
    ASSUME NEW r \in RequestType, NEW i \in DOMAIN r.metrics,
           ~(r.metrics[i].required /\ r.metrics[i].applicable), NEW n \in WorseMetric(r.metrics[i])
    PROVE  Evaluate([r EXCEPT !.metrics[i] = n]) = Evaluate(r)
  <1> DEFINE s == [r EXCEPT !.metrics[i] = n]
             P(q) == {k \in DOMAIN q.metrics : q.metrics[k].required /\ q.metrics[k].applicable /\ q.metrics[k].key = q.primary}
  <1>1. r.metrics \in Seq(MetricType) /\ r.metrics[i] \in MetricType
    BY DEF RequestType
  <1>2. NoBetter(n, r.metrics[i])
    BY <1>1, WorseIsNoBetter
  <1>3. s.metrics = [r.metrics EXCEPT ![i] = n]
    BY DEF RequestType
  <1>4. /\ s.profile = r.profile /\ s.primary = r.primary /\ s.safe = r.safe /\ s.environment = r.environment
        /\ s.family = r.family /\ s.benefit = r.benefit
    BY DEF RequestType
  <1> HIDE DEF s
  <1>5. /\ DOMAIN s.metrics = DOMAIN r.metrics
        /\ ~(s.metrics[i].required /\ s.metrics[i].applicable)
        /\ \A k \in DOMAIN r.metrics \ {i} : s.metrics[k] = r.metrics[k]
    BY <1>1, <1>2, <1>3 DEF NoBetter
  <1>6. required_metrics(s) = required_metrics(r)
    BY <1>5 DEF required_metrics, ToSet
  <1>7. P(s) = P(r)
    BY <1>4, <1>5
  <1>8. primaries(s) = primaries(r)
    <2>1. CASE P(r) = {}
      BY <1>7, <2>1 DEF primaries
    <2>2. CASE P(r) # {}
      <3>1. P(r) \in SUBSET Nat
        BY <1>1
      <3>2. Min(P(r)) \in P(r)
        BY <2>2, <3>1, MinIsLeast
      <3>3. s.metrics[Min(P(r))] = r.metrics[Min(P(r))]
        BY <1>5, <3>2
      <3>4. primaries(s) = {s.metrics[Min(P(s))]} /\ primaries(r) = {r.metrics[Min(P(r))]}
        BY <1>7, <2>2 DEF primaries
      <3> QED BY <1>7, <3>3, <3>4
    <2> QED BY <2>1, <2>2
  <1>9. required_pairs(s) = required_pairs(r)
    BY <1>4, <1>6, <1>8 DEF required_pairs
  <1>10. \A m : required_by_metric(s, m) = required_by_metric(r, m)
    BY <1>4, <1>9 DEF required_by_metric
  <1>11. Misaligned(s) = Misaligned(r) /\ Uncalibratable(s) = Uncalibratable(r) /\ actual_pairs(s) = actual_pairs(r)
    BY <1>6, <1>8 DEF Misaligned, Uncalibratable, actual_pairs
  <1>t. TooFew(s) = TooFew(r)
    BY <1>6, <1>10 DEF TooFew
  <1>12. Gates(s) = Gates(r)
    <2>1. Gates(s) = Table(s.safe, s.environment, s.family, s.benefit, s.profile, required_metrics(s), primaries(s),
                           Uncalibratable(s), required_pairs(s), TooFew(s), Misaligned(s))
      BY DEF Gates, Table
    <2>2. Gates(r) = Table(r.safe, r.environment, r.family, r.benefit, r.profile, required_metrics(r), primaries(r),
                           Uncalibratable(r), required_pairs(r), TooFew(r), Misaligned(r))
      BY DEF Gates, Table
    <2> QED BY <1>4, <1>6, <1>8, <1>9, <1>11, <1>t, <2>1, <2>2
  <1>13. Evaluate(s) = Evaluate(r)
    BY <1>4, <1>11, <1>12 DEF Evaluate
  <1> QED BY <1>13 DEF s

-----------------------------------------------------------------------------
(* The run's admission: decide_for_run *)

Standings == {"RANKED", "ADMITTED", "REJECTED"}

\* What decide_for_run is deciding are requests, one for each ranked candidate, and the rows
\* hold values of their types.
AdmissionTypes ==
    /\ pc \in [Workers -> {"idle", "deciding"}]
    /\ DOMAIN brought = Workers /\ brought = [w \in Workers |-> brought[w]]
    /\ \A w \in Workers : pc[w] = "deciding" => brought[w] \in [ToSet(Ranked) -> Requests]
    /\ decisions \in [Candidates -> Statuses \cup {"none"}]
    /\ standing \in [Candidates -> Standings]

\* Nothing is answered before there is an artifact.
NothingAnswered == artifact = NoArtifact => answers = {}

\* The inductive invariant of decide_for_run
AdmissionInv == AdmissionTypes /\ NothingAnswered /\ DecisionIsOne

\* What is under decision are requests of the type the verdict is about.
LEMMA UnderDecisionAreRequests ==
    ASSUME AdmissionTypes
    PROVE  UnderDecision \subseteq RequestType
  <1>1. ASSUME NEW w \in Workers, pc[w] = "deciding", NEW c \in DOMAIN brought[w]
        PROVE  brought[w][c] \in RequestType
    <2>1. brought[w] \in [ToSet(Ranked) -> Requests]
      BY <1>1 DEF AdmissionTypes
    <2> QED BY <2>1, RequestsAreTyped
  <1> SUFFICES ASSUME NEW r \in UnderDecision PROVE r \in RequestType
    OBVIOUS
  <1>2. PICK w \in Workers : pc[w] = "deciding" /\ r \in {brought[w][c] : c \in DOMAIN brought[w]}
    BY DEF UnderDecision
  <1>3. PICK c \in DOMAIN brought[w] : r = brought[w][c]
    BY <1>2
  <1> QED BY <1>1, <1>2, <1>3

\* evaluate_candidate_admission on whatever is under decision
LEMMA VerdictsAreSound ==
    ASSUME AdmissionTypes
    PROVE  VerdictIsSound
  <1>1. UnderDecision \subseteq RequestType
    BY UnderDecisionAreRequests
  <1>2. WorseNeverHelps
    BY <1>1, WorseIsRefused DEF WorseNeverHelps
  <1>3. OthersDoNotCount
    BY <1>1, OthersAreIgnored DEF OthersDoNotCount
  <1>4. AdmittedIsCalibrated
    BY <1>1, AdmittedFits DEF AdmittedIsCalibrated
  <1> QED BY <1>2, <1>3, <1>4 DEF VerdictIsSound

\* What commit() writes: the artifact names candidates, and the best ranked of the admitted.
LEMMA ResultIsBest ==
    ASSUME AdmissionTypes, NEW w \in Workers, pc[w] = "deciding"
    PROVE  /\ \A c \in ToSet(Ranked) : Verdict(w, c).status \in Statuses
           /\ Result(w) \in ArtifactType /\ Result(w) # NoArtifact
           /\ \A c \in ToSet(Ranked) : c \in Result(w).admitted <=> Verdict(w, c).status = "ADMITTED"
           /\ IF Result(w).selected = "nobody"
              THEN ~Result(w).eligible /\ \A c \in ToSet(Ranked) : Verdict(w, c).status # "ADMITTED"
              ELSE \E i \in DOMAIN Ranked :
                      /\ Result(w).selected = Ranked[i] /\ Verdict(w, Ranked[i]).status = "ADMITTED"
                      /\ \A k \in 1..(i - 1) : Verdict(w, Ranked[k]).status # "ADMITTED"
  <1> DEFINE admitted == {i \in DOMAIN Ranked : Verdict(w, Ranked[i]).status = "ADMITTED"}
             best == Ranked[Min(admitted)]
  <1>1. /\ Ranked \in Seq(Candidates) /\ DOMAIN Ranked = 1..Len(Ranked) /\ Len(Ranked) \in Nat
        /\ \A i \in DOMAIN Ranked : Ranked[i] \in Candidates /\ Ranked[i] \in ToSet(Ranked)
        /\ "nobody" \notin Candidates /\ "none" \notin Candidates
    BY AdmissionConstants DEF ToSet
  <1>2. \A c \in ToSet(Ranked) : Verdict(w, c).status \in Statuses /\ Verdict(w, c).eligible \in BOOLEAN
    <2> TAKE c \in ToSet(Ranked)
    <2>1. brought[w][c] \in RequestType
      BY RequestsAreTyped DEF AdmissionTypes
    <2> QED BY <2>1, VerdictOf DEF Verdict
  <1>3. /\ Result(w).selected = (IF admitted = {} THEN "nobody" ELSE best)
        /\ Result(w).admitted = {Ranked[i] : i \in admitted}
        /\ Result(w).eligible = (admitted # {} /\ Verdict(w, best).eligible)
        /\ Result(w) = [selected |-> IF admitted = {} THEN "nobody" ELSE best, admitted |-> {Ranked[i] : i \in admitted},
                        eligible |-> admitted # {} /\ Verdict(w, best).eligible]
    BY DEF Result
  <1>4. \A c \in ToSet(Ranked) : c \in Result(w).admitted <=> Verdict(w, c).status = "ADMITTED"
    BY <1>3 DEF ToSet
  <1>5. admitted # {} => /\ Min(admitted) \in DOMAIN Ranked /\ Verdict(w, best).status = "ADMITTED"
                         /\ \A k \in 1..(Min(admitted) - 1) : Verdict(w, Ranked[k]).status # "ADMITTED"
    <2> SUFFICES ASSUME admitted # {}
                 PROVE  /\ Min(admitted) \in DOMAIN Ranked /\ Verdict(w, best).status = "ADMITTED"
                        /\ \A k \in 1..(Min(admitted) - 1) : Verdict(w, Ranked[k]).status # "ADMITTED"
      OBVIOUS
    <2>1. admitted \in SUBSET Nat
      BY <1>1
    <2>2. Min(admitted) \in admitted /\ \A k \in admitted : Min(admitted) <= k
      BY <2>1, MinIsLeast
    <2> DEFINE first == Min(admitted)
    <2>3. first \in 1..Len(Ranked)
      BY <1>1, <2>2
    <2>4. ASSUME NEW k \in 1..(first - 1) PROVE k \notin admitted
      <3> HIDE DEF first, admitted
      <3>1. ~(first <= k)
        BY <2>3
      <3> QED BY <2>2, <3>1 DEF first
    <2>5. \A k \in 1..(first - 1) : k \in DOMAIN Ranked
      <3> HIDE DEF first
      <3> QED BY <1>1, <2>3
    <2> QED BY <2>2, <2>4, <2>5
  <1> HIDE DEF admitted
  <1>6. Result(w) \in ArtifactType /\ Result(w).selected # "none"
    <2>1. Result(w).selected \in Candidates \cup {"nobody"}
      BY <1>1, <1>3, <1>5
    <2>2. Result(w).admitted \in SUBSET Candidates
      BY <1>1, <1>3 DEF admitted
    <2>3. Result(w).eligible \in BOOLEAN
      BY <1>3
    <2> HIDE DEF best
    <2> QED BY <1>1, <1>3, <2>1, <2>2, <2>3 DEF ArtifactType
  <1>7. Result(w) # NoArtifact
    BY <1>6 DEF NoArtifact
  <1>8. CASE admitted = {}
    <2>1. Result(w).selected = "nobody" /\ ~Result(w).eligible
      BY <1>3, <1>8
    <2>2. \A c \in ToSet(Ranked) : Verdict(w, c).status # "ADMITTED"
      BY <1>8 DEF admitted, ToSet
    <2> QED BY <1>2, <1>4, <1>6, <1>7, <2>1, <2>2
  <1>9. CASE admitted # {}
    <2>1. Result(w).selected = best /\ best \in Candidates /\ best # "nobody"
      BY <1>1, <1>3, <1>5, <1>9
    <2> QED BY <1>2, <1>4, <1>5, <1>6, <1>7, <1>9, <2>1
  <1> QED BY <1>8, <1>9

\* The initial rows say nothing.
LEMMA AdmissionInit == Init => AdmissionInv
  <1>1. Init => AdmissionTypes
    BY DEF Init, AdmissionTypes, Standings
  <1>2. Init => NothingAnswered /\ OneDecision
    BY DEF Init, NothingAnswered, OneDecision
  <1>3. Init => RowsAgree /\ SelectedIsBestRanked
    BY DEF Init, RowsAgree, SelectedIsBestRanked
  <1> QED BY <1>1, <1>2, <1>3 DEF AdmissionInv, DecisionIsOne

\* A step that leaves the artifact and the candidates' rows alone, and answers what is there
LEMMA RowsLeftAlone ==
    ASSUME AdmissionInv, AdmissionTypes', UNCHANGED <<artifact, decisions, standing>>,
           answers' = answers \/ (artifact # NoArtifact /\ answers' = answers \cup {artifact})
    PROVE  AdmissionInv'
  <1>1. NothingAnswered' /\ OneDecision'
    BY DEF AdmissionInv, NothingAnswered, DecisionIsOne, OneDecision
  <1>2. RowsAgree' /\ SelectedIsBestRanked'
    BY DEF AdmissionInv, DecisionIsOne, RowsAgree, SelectedIsBestRanked
  <1> QED BY <1>1, <1>2 DEF AdmissionInv, DecisionIsOne

\* The end of a transaction keeps what the others are deciding.
LEMMA EndedKeepsTypes ==
    ASSUME AdmissionTypes, NEW w \in Workers, Ended(w),
           decisions' \in [Candidates -> Statuses \cup {"none"}], standing' \in [Candidates -> Standings]
    PROVE  AdmissionTypes'
  <1>1. pc' \in [Workers -> {"idle", "deciding"}] /\ pc'[w] = "idle" /\ \A v \in Workers \ {w} : pc'[v] = pc[v]
    BY DEF AdmissionTypes, Ended
  <1>2. /\ DOMAIN brought' = Workers /\ brought' = [v \in Workers |-> brought'[v]]
        /\ \A v \in Workers \ {w} : brought'[v] = brought[v]
    BY DEF AdmissionTypes, Ended
  <1>3. \A v \in Workers : pc'[v] = "deciding" => brought'[v] \in [ToSet(Ranked) -> Requests]
    <2> TAKE v \in Workers
    <2>1. CASE v = w
      BY <1>1, <2>1
    <2>2. CASE v # w
      <3>1. pc'[v] = pc[v] /\ brought'[v] = brought[v]
        BY <1>1, <1>2, <2>2
      <3> QED BY <3>1 DEF AdmissionTypes
    <2> QED BY <2>1, <2>2
  <1> QED BY <1>1, <1>2, <1>3 DEF AdmissionTypes

\* decide_for_run, up to the comparison of the requests with the plan
LEMMA BeginStep ==
    ASSUME AdmissionInv, NEW w \in Workers, NEW q, begin(w, q),
           DOMAIN q = ToSet(Ranked) => q \in [ToSet(Ranked) -> Requests]
    PROVE  AdmissionInv'
  <1>1. CASE UNCHANGED <<pc, brought>>
    <2>1. AdmissionTypes'
      BY <1>1 DEF AdmissionInv, AdmissionTypes, begin
    <2> QED BY <2>1, RowsLeftAlone DEF begin
  <1>2. CASE ~UNCHANGED <<pc, brought>>
    <2>1. /\ pc' = [pc EXCEPT ![w] = "deciding"] /\ brought' = [brought EXCEPT ![w] = q]
          /\ q \in [ToSet(Ranked) -> Requests] /\ UNCHANGED <<answers, artifact, decisions, standing>>
      BY <1>2 DEF begin
    <2>2. pc' \in [Workers -> {"idle", "deciding"}] /\ \A v \in Workers \ {w} : pc'[v] = pc[v]
      BY <2>1 DEF AdmissionInv, AdmissionTypes
    <2>3. /\ DOMAIN brought' = Workers /\ brought' = [v \in Workers |-> brought'[v]]
          /\ brought'[w] = q /\ \A v \in Workers \ {w} : brought'[v] = brought[v]
      BY <2>1 DEF AdmissionInv, AdmissionTypes
    <2>4. \A v \in Workers : pc'[v] = "deciding" => brought'[v] \in [ToSet(Ranked) -> Requests]
      <3> TAKE v \in Workers
      <3>1. CASE v = w
        BY <2>1, <2>3, <3>1
      <3>2. CASE v # w
        <4>1. pc'[v] = pc[v] /\ brought'[v] = brought[v]
          BY <2>2, <2>3, <3>2
        <4> QED BY <4>1 DEF AdmissionInv, AdmissionTypes
      <3> QED BY <3>1, <3>2
    <2>5. AdmissionTypes'
      BY <2>1, <2>2, <2>3, <2>4 DEF AdmissionInv, AdmissionTypes
    <2> QED BY <2>1, <2>5, RowsLeftAlone
  <1> QED BY <1>1, <1>2

\* the verdict on the next candidate, or the end of the transaction
LEMMA DecideStep ==
    ASSUME AdmissionInv, NEW w \in Workers, decide(w) \/ die(w)
    PROVE  AdmissionInv'
  <1>1. UNCHANGED <<artifact, decisions, standing, answers>>
    BY DEF decide, die
  <1>2. Ended(w) \/ UNCHANGED <<pc, brought>>
    BY DEF decide, die
  <1>3. AdmissionTypes'
    <2>1. CASE Ended(w)
      BY <1>1, <2>1, EndedKeepsTypes DEF AdmissionInv, AdmissionTypes
    <2>2. CASE UNCHANGED <<pc, brought>>
      BY <1>1, <2>2 DEF AdmissionInv, AdmissionTypes
    <2> QED BY <1>2, <2>1, <2>2
  <1> QED BY <1>1, <1>3, RowsLeftAlone

\* the artifact of the run, with everything the transaction wrote
LEMMA CommitStep ==
    ASSUME AdmissionInv, NEW w \in Workers, commit(w)
    PROVE  AdmissionInv'
  <1>1. Ended(w) /\ pc[w] = "deciding" /\ AdmissionTypes
    BY DEF commit, AdmissionInv
  <1>2. CASE artifact # NoArtifact
    <2>1. UNCHANGED <<artifact, decisions, standing, answers>>
      BY <1>2 DEF commit
    <2>2. AdmissionTypes'
      BY <1>1, <2>1, EndedKeepsTypes DEF AdmissionTypes
    <2> QED BY <2>1, <2>2, RowsLeftAlone
  <1>3. CASE artifact = NoArtifact
    <2> DEFINE status(c) == Verdict(w, c).status
               written == Result(w)
    <2>1. /\ artifact' = written /\ answers' = answers \cup {written}
          /\ decisions' = [c \in Candidates |-> IF c \in ToSet(Ranked) THEN status(c) ELSE decisions[c]]
          /\ standing' = [c \in Candidates |->
                 IF c \notin ToSet(Ranked) THEN standing[c] ELSE IF status(c) = "ADMITTED" THEN "ADMITTED" ELSE "REJECTED"]
      BY <1>3 DEF commit
    <2>2. /\ \A c \in ToSet(Ranked) : status(c) \in Statuses
          /\ written \in ArtifactType /\ written # NoArtifact
          /\ \A c \in ToSet(Ranked) : c \in written.admitted <=> status(c) = "ADMITTED"
          /\ IF written.selected = "nobody"
             THEN ~written.eligible /\ \A c \in ToSet(Ranked) : status(c) # "ADMITTED"
             ELSE \E i \in DOMAIN Ranked :
                     /\ written.selected = Ranked[i] /\ status(Ranked[i]) = "ADMITTED"
                     /\ \A k \in 1..(i - 1) : status(Ranked[k]) # "ADMITTED"
      BY <1>1, ResultIsBest
    <2> HIDE DEF status, written
    <2>3. /\ \A i \in DOMAIN Ranked : Ranked[i] \in Candidates /\ Ranked[i] \in ToSet(Ranked)
          /\ \A c \in ToSet(Ranked) : c \in Candidates
          /\ DOMAIN Ranked = 1..Len(Ranked) /\ Len(Ranked) \in Nat
      BY AdmissionConstants DEF ToSet
    <2>4. /\ \A c \in ToSet(Ranked) : /\ decisions'[c] = status(c)
                                      /\ standing'[c] = IF status(c) = "ADMITTED" THEN "ADMITTED" ELSE "REJECTED"
          /\ decisions' \in [Candidates -> Statuses \cup {"none"}] /\ standing' \in [Candidates -> Standings]
      BY <1>1, <2>1, <2>2, <2>3 DEF AdmissionTypes, Standings
    <2>5. AdmissionTypes'
      BY <1>1, <2>4, EndedKeepsTypes
    <2>6. NothingAnswered' /\ OneDecision'
      BY <1>3, <2>1, <2>2 DEF AdmissionInv, NothingAnswered, OneDecision
    <2>7. RowsAgree'
      BY <2>1, <2>2, <2>3, <2>4 DEF RowsAgree, Statuses
    <2>8. SelectedIsBestRanked'
      <3>1. CASE written.selected = "nobody"
        BY <2>1, <2>2, <2>4, <3>1 DEF SelectedIsBestRanked
      <3>2. CASE written.selected # "nobody"
        <4>1. PICK i \in DOMAIN Ranked : /\ written.selected = Ranked[i] /\ status(Ranked[i]) = "ADMITTED"
                                         /\ \A k \in 1..(i - 1) : status(Ranked[k]) # "ADMITTED"
          BY <2>2, <3>2
        <4>2. \A k \in 1..(i - 1) : k \in DOMAIN Ranked
          BY <2>3
        <4>3. decisions'[Ranked[i]] = "ADMITTED" /\ \A k \in 1..(i - 1) : decisions'[Ranked[k]] # "ADMITTED"
          BY <2>3, <2>4, <4>1, <4>2
        <4> QED BY <2>1, <3>2, <4>1, <4>3 DEF SelectedIsBestRanked
      <3> QED BY <3>1, <3>2
    <2> QED BY <2>5, <2>6, <2>7, <2>8 DEF AdmissionInv, DecisionIsOne
  <1> QED BY <1>2, <1>3

\* The calls that the scenarios make are calls of decide_for_run.
LEMMA AdmissionStep ==
    ASSUME AdmissionInv, [AllNext]_allvars
    PROVE  AdmissionInv'
  <1>1. CASE UNCHANGED vars
    <2>1. UNCHANGED <<artifact, decisions, standing, answers, pc, brought>>
      BY <1>1 DEF vars
    <2>2. AdmissionTypes'
      BY <2>1 DEF AdmissionInv, AdmissionTypes
    <2> QED BY <2>1, <2>2, RowsLeftAlone
  <1>2. CASE RequestsNext
    <2>1. CASE decide("w1") \/ die("w1") \/ commit("w1")
      BY <2>1, VerdictsConstants, DecideStep, CommitStep
    <2>2. ASSUME NEW r \in ManyRequests, begin("w1", [c \in ToSet(Ranked) |-> IF c = "c1" THEN r ELSE Request])
          PROVE  AdmissionInv'
      <3> DEFINE q == [c \in ToSet(Ranked) |-> IF c = "c1" THEN r ELSE Request]
      <3>1. r \in Requests /\ Request \in Requests
        BY VerdictsConstants DEF AllRequests, FewRequests
      <3>2. q \in [ToSet(Ranked) -> Requests]
        BY <3>1
      <3> HIDE DEF q
      <3>3. begin("w1", q)
        BY <2>2 DEF q
      <3> QED BY <3>2, <3>3, VerdictsConstants, BeginStep
    <2> QED BY <1>2, <2>1, <2>2 DEF RequestsNext
  <1>3. CASE AdmissionNext
    <2>1. PICK w \in Workers : \/ \E S \in SUBSET ToSet(Ranked) : \E q \in [S -> FewRequests] : begin(w, q)
                               \/ decide(w) \/ commit(w) \/ die(w)
      BY <1>3 DEF AdmissionNext
    <2>2. CASE decide(w) \/ commit(w) \/ die(w)
      BY <2>2, DecideStep, CommitStep
    <2>3. ASSUME NEW S \in SUBSET ToSet(Ranked), NEW q \in [S -> FewRequests], begin(w, q)
          PROVE  AdmissionInv'
      <3>1. FewRequests \subseteq Requests
        BY VerdictsConstants DEF AllRequests
      <3>2. DOMAIN q = ToSet(Ranked) => q \in [ToSet(Ranked) -> Requests]
        BY <3>1
      <3> QED BY <2>3, <3>2, BeginStep
    <2> QED BY <2>1, <2>2, <2>3
  <1> QED BY <1>1, <1>2, <1>3 DEF AllNext, allvars

\* evaluate_candidate_admission and decide_for_run, for every ranking, every request and any
\* workers that overlap and die: worse evidence never helps a candidate, what is not
\* protected does not count, an admitted candidate has the pairs its calibrations asked for;
\* and the run has one decision, about its best admitted candidate, in rows that agree.
THEOREM AdmissionsAreSound == AllSpec => []AdmissionIsSound
  <1>1. AllInit => AdmissionInv
    BY AdmissionInit DEF AllInit
  <1>2. AdmissionInv /\ [AllNext]_allvars => AdmissionInv'
    BY AdmissionStep
  <1>3. AdmissionInv => AdmissionIsSound
    BY VerdictsAreSound DEF AdmissionInv, AdmissionIsSound
  <1> QED BY <1>1, <1>2, <1>3, PTL DEF AllSpec

-----------------------------------------------------------------------------
(* The recording of a monitoring stage: monitor_for_run *)

Stages == {"idle", "rollback", "audit", "lookup", "experience", "transition"}

\* The rows and the calls of a monitoring stage hold values of their types.
MonitorTypes ==
    /\ rollback \in {"none", "ROLLED_BACK", "ROLLBACK_BLOCKED"}
    /\ audit \subseteq Monitor!Terminal
    /\ experience \in [Monitor!Outcomes -> Nat]
    /\ run \in {"MONITORING", "COMPLETED", "ROLLED_BACK", "ROLLBACK_BLOCKED"}
    /\ monitor_pc \in [Workers -> Stages]
    /\ result \in [Workers -> Monitor!Terminal \cup {"none"}]

\* What some call decided
Required == \E d \in decided : d.required
Standing == \E d \in decided : ~d.required

\* What a call has decided and done before it stands where it stands, and it says ROLLED_BACK
\* of what is rolled back only
Told(w) ==
    /\ monitor_pc[w] = "rollback" \/ result[w] \in {"ROLLED_BACK", "ROLLBACK_BLOCKED"} => Required
    /\ result[w] \in {"STABLE", "WORKLOAD_SHIFT_DETECTED"} => Standing
    /\ monitor_pc[w] \in {"audit", "lookup", "experience", "transition"} =>
        result[w] \in Monitor!Terminal /\ (result[w] = "ROLLED_BACK" => rollback = "ROLLED_BACK")
    /\ monitor_pc[w] \in {"lookup", "experience", "transition"} => result[w] \in audit
    /\ monitor_pc[w] = "transition" => experience[Monitor!outcome(w)] > 0

\* One worker at a time: already_recorded is still right when the experience is created.
RecordedInTurn ==
    acting = "one stage" =>
        /\ \A v, w \in Workers : monitor_pc[v] # "idle" /\ monitor_pc[w] # "idle" => v = w
        /\ \A w \in Workers : monitor_pc[w] = "experience" => experience[Monitor!outcome(w)] = 0
        /\ Monitor!OutcomeOnce

\* The means of _average

\* The cardinality that the monitor's module sees is the one of this module.
LEMMA SameCardinality == \A S : Monitor!Cardinality(S) = Cardinality(S)
  BY Zenon DEF Monitor!Cardinality, Cardinality, Monitor!IsFiniteSet, IsFiniteSet

\* f adds the measured latencies of the first m windows up, from the first on.
Adds(f, base, m) ==
    f = [i \in 0..m |-> IF i = 0 THEN 0
                        ELSE f[i - 1] + IF i \in Monitor!numbers(base) THEN base[i].p99 ELSE 0]

\* Every window adds to what those before it did: there is a sum of any number of them.
LEMMA SumExists ==
    ASSUME NEW base, NEW n \in Nat
    PROVE  \E f : Adds(f, base, n)
  <1> DEFINE S == {m \in Nat : ~\E f : Adds(f, base, m)}
             term(i) == IF i \in Monitor!numbers(base) THEN base[i].p99 ELSE 0
  <1> SUFFICES ASSUME S # {} PROVE FALSE
    BY Zenon
  <1>1. PICK m \in S : \A y \in S : <<y, m>> \notin OpToRel(<, Nat)
    <2> HIDE DEF S
    <2>1. S \in SUBSET Nat
      BY DEF S
    <2> QED BY <2>1, NatLessThanWellFounded, WFMin, Zenon
  <1>2. \A y \in S : ~(y < m)
    BY <1>1, Zenon DEF OpToRel
  <1>3. CASE m = 0
    <2> DEFINE g == [i \in 0..0 |-> 0]
    <2>1. g = [i \in 0..0 |-> IF i = 0 THEN 0 ELSE g[i - 1] + term(i)]
      OBVIOUS
    <2> QED BY <1>1, <1>3, <2>1 DEF Adds
  <1>4. CASE m > 0
    <2>1. m - 1 \in Nat /\ m - 1 \notin S
      BY <1>2, <1>4
    <2>2. PICK g : Adds(g, base, m - 1)
      BY <2>1
    <2> DEFINE h == [i \in 0..m |-> IF i = m THEN g[m - 1] + term(m) ELSE g[i]]
    <2>3. g = [i \in 0..m - 1 |-> IF i = 0 THEN 0 ELSE g[i - 1] + term(i)]
      BY <2>2, Zenon DEF Adds
    <2> HIDE DEF term
    <2>4. ASSUME NEW i \in 0..m PROVE h[i] = IF i = 0 THEN 0 ELSE h[i - 1] + term(i)
      BY <1>4, <2>3
    <2> HIDE DEF h
    <2>5. h = [i \in 0..m |-> IF i = 0 THEN 0 ELSE h[i - 1] + term(i)]
      BY <2>4 DEF h
    <2>6. Adds(h, base, m)
      BY <2>5, Zenon DEF Adds, term
    <2> QED BY <1>1, <2>6
  <1> QED BY <1>3, <1>4

\* Sum is what the windows of the sequence add up to.
LEMMA SumAdds ==
    ASSUME NEW base, Len(base) \in Nat
    PROVE  \E f : Adds(f, base, Len(base)) /\ Monitor!Sum(base) = f[Len(base)]
  <1>1. \E f : Adds(f, base, Len(base))
    BY SumExists
  <1> QED BY <1>1, Zenon DEF Monitor!Sum, Adds

\* _average: the mean of the measured latencies is a natural over their number, and is at
\* least any bound below each of them.
LEMMA MeanIsBounded ==
    ASSUME NEW base \in Seq(Monitor!WindowType), NEW x \in Nat,
           \A i \in Monitor!numbers(base) : x <= base[i].p99
    PROVE  /\ Monitor!Sum(base) \in Nat /\ Cardinality(Monitor!numbers(base)) \in Nat
           /\ x * Cardinality(Monitor!numbers(base)) <= Monitor!Sum(base)
  <1>1. Len(base) \in Nat /\ DOMAIN base = 1..Len(base)
    OBVIOUS
  <1>2. PICK f : Adds(f, base, Len(base)) /\ Monitor!Sum(base) = f[Len(base)]
    BY <1>1, SumAdds
  <1> DEFINE N == Monitor!numbers(base)
             upto(m) == {i \in N : i <= m}
             Right(m) == f[m] \in Nat /\ x * Cardinality(upto(m)) <= f[m]
             S == {m \in 0..Len(base) : ~Right(m)}
  <1>3. ASSUME NEW i \in N PROVE base[i].p99 \in Nat /\ x <= base[i].p99 /\ i \in 1..Len(base)
    <2>1. base[i] \in Monitor!WindowType /\ base[i].p99 # Monitor!None /\ i \in 1..Len(base)
      BY <1>1 DEF Monitor!numbers
    <2> QED BY <2>1 DEF Monitor!WindowType
  <1>4. ASSUME NEW m \in Int PROVE IsFiniteSet(upto(m)) /\ Cardinality(upto(m)) \in Nat
    <2>1. IsFiniteSet(1..Len(base))
      BY <1>1, FS_Interval
    <2>2. upto(m) \in SUBSET (1..Len(base))
      BY <1>3
    <2> QED BY <2>1, <2>2, FS_Subset, FS_CardinalityType
  <1>5. \A m \in 0..Len(base) : f[m] = IF m = 0 THEN 0 ELSE f[m - 1] + IF m \in N THEN base[m].p99 ELSE 0
    <2> DEFINE rhs(i) == IF i = 0 THEN 0 ELSE f[i - 1] + IF i \in N THEN base[i].p99 ELSE 0
    <2>1. f = [i \in 0..Len(base) |-> rhs(i)]
      BY <1>2, Zenon DEF Adds
    <2> HIDE DEF rhs
    <2>2. \A i \in 0..Len(base) : f[i] = rhs(i)
      BY <2>1
    <2> QED BY <2>2, Zenon DEF rhs
  <1>6. Right(0)
    <2>1. upto(0) = {}
      BY <1>3
    <2>2. f[0] = 0
      BY <1>1, <1>5
    <2>3. Cardinality(upto(0)) = 0
      BY <2>1, FS_EmptySet, Zenon
    <2>4. x * 0 = 0
      OBVIOUS
    <2> HIDE DEF upto
    <2> QED BY <2>2, <2>3, <2>4
  <1>7. ASSUME NEW m \in 1..Len(base), Right(m - 1) PROVE Right(m)
    <2>1. CASE m \in N
      <3>1. upto(m) = upto(m - 1) \cup {m} /\ m \notin upto(m - 1)
        <4>1. \A i \in N : i \in Nat
          BY <1>1, <1>3
        <4>2. m \in Nat /\ ~(m <= m - 1)
          BY <1>1
        <4>3. \A i \in N : i <= m <=> i <= m - 1 \/ i = m
          BY <4>1, <4>2
        <4> HIDE DEF N
        <4>4. \A i : i \in upto(m) <=> i \in upto(m - 1) \cup {m}
          BY <2>1, <4>3
        <4>5. m \notin upto(m - 1)
          BY <4>2
        <4> HIDE DEF upto
        <4> QED BY <4>4, <4>5
      <3>2. Cardinality(upto(m)) = Cardinality(upto(m - 1)) + 1 /\ Cardinality(upto(m - 1)) \in Nat
        <4>1. m - 1 \in Int
          BY <1>1
        <4>2. IsFiniteSet(upto(m - 1)) /\ Cardinality(upto(m - 1)) \in Nat
          BY <1>4, <4>1
        <4> HIDE DEF upto
        <4> QED BY <3>1, <4>2, FS_AddElement
      <3>3. f[m] = f[m - 1] + base[m].p99 /\ base[m].p99 \in Nat /\ x <= base[m].p99
        BY <1>3, <1>5, <2>1
      <3> DEFINE c == Cardinality(upto(m - 1))
      <3>4. x * (c + 1) = x * c + x /\ x * c \in Nat
        BY <3>2
      <3> HIDE DEF c, upto
      <3> QED BY <1>7, <3>2, <3>3, <3>4 DEF c
    <2>2. CASE m \notin N
      <3>1. upto(m) = upto(m - 1)
        BY <1>1, <1>3, <2>2
      <3> HIDE DEF upto
      <3> QED BY <1>1, <1>5, <1>7, <2>2, <3>1
    <2> QED BY <2>1, <2>2
  <1>8. \A m \in 0..Len(base) : Right(m)
    <2> HIDE DEF Right
    <2> SUFFICES ASSUME S # {} PROVE FALSE
      BY Zenon
    <2>0. S \in SUBSET Nat
      BY <1>1
    <2> HIDE DEF S
    <2>1. PICK m \in S : \A y \in S : <<y, m>> \notin OpToRel(<, Nat)
      BY <2>0, NatLessThanWellFounded, WFMin, Zenon
    <2>2. \A y \in S : ~(y < m)
      BY <2>0, <2>1, Zenon DEF OpToRel
    <2>3. m \in 1..Len(base) /\ ~Right(m)
      BY <1>1, <1>6 DEF S
    <2>4. m - 1 \notin S
      BY <2>2, <2>3
    <2>5. Right(m - 1)
      BY <1>1, <2>3, <2>4 DEF S
    <2> QED BY <1>7, <2>3, <2>5
  <1>9. upto(Len(base)) = N
    BY <1>3
  <1>10. Right(Len(base)) /\ Len(base) \in Int
    <2> HIDE DEF Right
    <2> QED BY <1>1, <1>8
  <1> QED BY <1>2, <1>4, <1>9, <1>10

\* _ratio: a latency below every measured one is below their mean, and so below any greater
\* multiple of it, also when windows without a latency are left out.
LEMMA NoWorseIsNotSlow ==
    ASSUME NEW base \in Seq(Monitor!WindowType), NEW w \in Monitor!WindowType,
           \E b \in Monitor!ToSet(base) : b.p99 # Monitor!None,
           \A b \in Monitor!ToSet(base) : b.p99 = Monitor!None \/ w.p99 <= b.p99,
           NEW percent \in Nat, percent > 100
    PROVE  ~Monitor!RatioAtLeast(base, w, percent)
  <1> SUFFICES ASSUME Monitor!RatioAtLeast(base, w, percent) PROVE FALSE
    OBVIOUS
  <1> DEFINE N == Monitor!numbers(base)
             c == Cardinality(N)
             p == w.p99
             t == Monitor!Sum(base)
  <1>1. \A i \in DOMAIN base : base[i] \in Monitor!ToSet(base)
    BY Zenon DEF Monitor!ToSet
  <1>2. p \in Nat /\ p > 0
    <2>1. p \in Nat \cup {-1}
      BY DEF Monitor!WindowType, Monitor!None
    <2>2. p > 0
      BY DEF Monitor!RatioAtLeast
    <2> QED BY <2>1, <2>2
  <1>3. \A i \in N : p <= base[i].p99
    BY <1>1 DEF Monitor!numbers
  <1>4. t \in Nat /\ c \in Nat /\ p * c <= t
    BY <1>2, <1>3, MeanIsBounded
  <1>5. c # 0
    <2>1. PICK b \in Monitor!ToSet(base) : b.p99 # Monitor!None
      OBVIOUS
    <2>2. PICK i \in DOMAIN base : b = base[i]
      BY <2>1, Zenon DEF Monitor!ToSet
    <2>3. i \in N
      BY <2>1, <2>2 DEF Monitor!numbers
    <2>4. N \in SUBSET (1..Len(base)) /\ Len(base) \in Nat
      BY DEF Monitor!numbers
    <2>5. IsFiniteSet(N)
      <3> HIDE DEF N
      <3>1. IsFiniteSet(1..Len(base))
        BY <2>4, FS_Interval
      <3> QED BY <2>4, <3>1, FS_Subset
    <2> QED BY <2>3, <2>5, FS_EmptySet, Zenon
  <1>6. t > 0 => p * 100 * c >= t * percent
    BY SameCardinality DEF Monitor!RatioAtLeast
  <1> HIDE DEF N, c, p, t
  <1>7. p * c \in Nat /\ p * c > 0 /\ p * 100 * c = 100 * (p * c)
    BY <1>2, <1>4, <1>5
  <1>8. t > 0 /\ 100 * (p * c) >= t * percent
    BY <1>4, <1>6, <1>7
  <1>9. t * percent >= t * 101 /\ t * 101 > 100 * t
    BY <1>4, <1>8
  <1> QED BY <1>4, <1>7, <1>8, <1>9

\* The two forms of "a fifth slower": five times the latency is at least six times the mean.
LEMMA SlowIsRatio ==
    ASSUME NEW base \in Seq(Monitor!WindowType), NEW w \in Monitor!WindowType
    PROVE  Monitor!Slow(base, w) <=> Monitor!RatioAtLeast(base, w, 120)
  <1> DEFINE c == Cardinality(Monitor!numbers(base))
             p == w.p99
             t == Monitor!Sum(base)
  <1>1. \A i \in Monitor!numbers(base) : 0 <= base[i].p99
    <2>1. \A i \in DOMAIN base : base[i] \in Monitor!WindowType
      OBVIOUS
    <2> QED BY <2>1 DEF Monitor!numbers, Monitor!WindowType
  <1>2. t \in Nat /\ c \in Nat
    BY <1>1, MeanIsBounded
  <1>3. p \in Int
    BY DEF Monitor!WindowType, Monitor!None
  <1>4. p * c \in Int /\ 5 * p * c = 5 * (p * c) /\ p * 100 * c = 100 * (p * c)
    BY <1>2, <1>3
  <1>5. Monitor!Slow(base, w) <=> p > 0 /\ (t = 0 \/ 5 * p * c >= 6 * t)
    BY SameCardinality DEF Monitor!Slow
  <1>6. Monitor!RatioAtLeast(base, w, 120) <=> p > 0 /\ (t > 0 => p * 100 * c >= t * 120)
    BY SameCardinality DEF Monitor!RatioAtLeast
  <1> HIDE DEF c, p, t
  <1> QED BY <1>2, <1>3, <1>4, <1>5, <1>6

\* regression_windows: as many slow windows among the latest as are required are all of them.
LEMMA SustainedIsAll ==
    ASSUME NEW c \in Collections
    PROVE  /\ Monitor!regression_windows(c) \in Nat
           /\ Monitor!regression_windows(c) >= Sustained <=>
                /\ Sustained <= Len(c.observed)
                /\ \A i \in Len(c.observed) - Sustained + 1..Len(c.observed) : Monitor!Slow(c.baseline, c.observed[i])
  <1> DEFINE n == Len(c.observed)
             I == n - Sustained + 1..n
             R == {i \in Monitor!Latest(c.observed, Sustained) : Monitor!RatioAtLeast(c.baseline, c.observed[i], 120)}
  <1>1. c.baseline \in Seq(Monitor!WindowType) /\ c.observed \in Seq(Monitor!WindowType)
    BY MonitoringConstants DEF Monitor!MonitorConstants, Monitor!CollectionType
  <1>2. n \in Nat /\ DOMAIN c.observed = 1..n /\ \A i \in 1..n : c.observed[i] \in Monitor!WindowType
    BY <1>1
  <1>3. Sustained \in Nat \ {0}
    BY MonitoringConstants DEF Monitor!MonitorConstants
  <1>4. Monitor!Latest(c.observed, Sustained) = {i \in 1..n : i > n - Sustained}
    BY <1>2 DEF Monitor!Latest
  <1>5. R = {i \in I : i \in 1..n /\ Monitor!Slow(c.baseline, c.observed[i])}
    <2>1. \A i \in 1..n : Monitor!Slow(c.baseline, c.observed[i]) <=> Monitor!RatioAtLeast(c.baseline, c.observed[i], 120)
      BY <1>1, <1>2, SlowIsRatio
    <2>2. \A i : i \in I /\ i \in 1..n <=> i \in 1..n /\ i > n - Sustained
      BY <1>2, <1>3
    <2> HIDE DEF I, n
    <2> QED BY <1>4, <2>1, <2>2
  <1>6. IsFiniteSet(I) /\ Cardinality(I) = Sustained
    <2>1. n - Sustained + 1 \in Int /\ n \in Int /\ n - (n - Sustained + 1) + 1 = Sustained /\ n - Sustained + 1 <= n
      BY <1>2, <1>3
    <2> HIDE DEF n
    <2> QED BY <2>1, FS_Interval
  <1>7. R \in SUBSET I
    BY <1>5
  <1>8. Cardinality(R) \in Nat /\ Cardinality(R) <= Sustained /\ (Cardinality(R) = Sustained => R = I)
    <2> HIDE DEF R, I
    <2>1. IsFiniteSet(R) /\ Cardinality(R) <= Cardinality(I) /\ (Cardinality(I) = Cardinality(R) => I = R)
      BY <1>6, <1>7, FS_Subset
    <2> QED BY <1>6, <2>1, FS_CardinalityType
  <1>9. Monitor!regression_windows(c) = Cardinality(R)
    BY SameCardinality DEF Monitor!regression_windows
  <1>10. Cardinality(R) >= Sustained <=> R = I
    <2> HIDE DEF R, I
    <2> QED BY <1>3, <1>6, <1>8
  <1>11. R = I <=> Sustained <= n /\ \A i \in I : Monitor!Slow(c.baseline, c.observed[i])
    <2>1. ASSUME R = I PROVE Sustained <= n /\ \A i \in I : Monitor!Slow(c.baseline, c.observed[i])
      <3>1. n - Sustained + 1 \in I
        BY <1>2, <1>3
      <3>2. n - Sustained + 1 \in 1..n
        <4> HIDE DEF I, R
        <4> QED BY <1>5, <2>1, <3>1
      <3> HIDE DEF I, R
      <3> QED BY <1>2, <1>3, <1>5, <2>1, <3>2
    <2>2. ASSUME Sustained <= n, \A i \in I : Monitor!Slow(c.baseline, c.observed[i]) PROVE R = I
      <3>1. \A i \in I : i \in 1..n
        BY <1>2, <1>3, <2>2
      <3> HIDE DEF I, R, n
      <3> QED BY <1>5, <2>2, <3>1
    <2> QED BY <2>1, <2>2
  <1> HIDE DEF R
  <1> QED BY <1>8, <1>9, <1>10, <1>11

\* _decide: there are as many slow windows among the latest as are required exactly if the
\* streak of slow windows up to the last is as long.
LEMMA RegressionIsStreak ==
    ASSUME NEW c \in Collections
    PROVE  Monitor!regression_windows(c) >= Sustained <=> Monitor!Streak(c) >= Sustained
  <1> DEFINE n == Len(c.observed)
             All(k) == \A i \in n - k + 1..n : Monitor!Slow(c.baseline, c.observed[i])
             K == {0} \cup {k \in 1..n : All(k)}
  <1>1. n \in Nat /\ Sustained \in Nat \ {0}
    BY MonitoringConstants DEF Monitor!MonitorConstants, Monitor!CollectionType
  <1>2. Monitor!regression_windows(c) >= Sustained <=> Sustained <= n /\ All(Sustained)
    BY SustainedIsAll
  <1>3. Monitor!Streak(c) = Max(K)
    BY Zenon DEF Monitor!Streak, Monitor!Max, Max
  <1> HIDE DEF All
  <1>4. K \in SUBSET Nat /\ K # {} /\ \A k \in K : k <= n
    BY <1>1
  <1>5. Max(K) \in K /\ \A k \in K : k <= Max(K)
    BY <1>1, <1>4, MaxIsGreatest
  <1>6. ASSUME Sustained <= n, All(Sustained) PROVE Max(K) >= Sustained
    <2>1. Sustained \in K
      BY <1>1, <1>6
    <2> QED BY <1>1, <1>4, <1>5, <2>1
  <1>7. ASSUME Max(K) >= Sustained PROVE Sustained <= n /\ All(Sustained)
    <2> DEFINE m == Max(K)
    <2>1. m \in 1..n /\ All(m)
      BY <1>1, <1>4, <1>5, <1>7
    <2> HIDE DEF m
    <2>2. \A i \in n - Sustained + 1..n : i \in n - m + 1..n
      BY <1>1, <1>7, <2>1 DEF m
    <2>3. Sustained <= n
      BY <1>1, <1>7, <2>1 DEF m
    <2> QED BY <2>1, <2>2, <2>3, Zenon DEF All
  <1> QED BY <1>2, <1>3, <1>6, <1>7

\* A window that a rollback answers to is worse than the baseline: no good window alarms, and
\* none is slow.
LEMMA CauseIsWorse ==
    ASSUME NEW base \in Seq(Monitor!WindowType), NEW w \in Monitor!WindowType,
           Monitor!Alarming(base, w) \/ Monitor!RatioAtLeast(base, w, 120)
    PROVE  ~Monitor!AsGood(base, w)
  <1> SUFFICES ASSUME Monitor!AsGood(base, w) PROVE FALSE
    OBVIOUS
  <1>2. \A b \in Monitor!ToSet(base) : b \in Monitor!WindowType
    BY DEF Monitor!ToSet
  <1>3. ~Monitor!RatioAtLeast(base, w, 120) /\ ~Monitor!RatioAtLeast(base, w, 300)
    BY NoWorseIsNotSlow DEF Monitor!AsGood
  <1>4. PICK b \in Monitor!ToSet(base) : w.errors <= b.errors /\ w.timeouts <= b.timeouts
    BY DEF Monitor!AsGood
  <1>5. ~(w.errors > b.errors) /\ ~(w.timeouts > b.timeouts)
    BY <1>2, <1>4 DEF Monitor!WindowType
  <1>6. w.healthy
    BY DEF Monitor!AsGood
  <1> QED BY <1>3, <1>4, <1>5, <1>6 DEF Monitor!Alarming

\* _decide: a rollback is required for a window that was observed and is not good.
LEMMA RollbackNeedsCause ==
    ASSUME NEW c \in Collections, Monitor!rollback_required(c)
    PROVE  \E w \in Monitor!ToSet(c.observed) : ~Monitor!AsGood(c.baseline, w)
  <1> DEFINE n == Len(c.observed)
  <1>1. c.baseline \in Seq(Monitor!WindowType) /\ c.observed \in Seq(Monitor!WindowType) /\ Sustained \in Nat \ {0}
    BY MonitoringConstants DEF Monitor!MonitorConstants, Monitor!CollectionType
  <1>2. /\ n \in Nat /\ DOMAIN c.observed = 1..n
        /\ \A i \in 1..n : c.observed[i] \in Monitor!WindowType
    BY <1>1
  <1>3. \A i \in DOMAIN c.observed : c.observed[i] \in Monitor!ToSet(c.observed)
    BY Zenon DEF Monitor!ToSet
  <1>4. CASE Monitor!Alarm(c)
    <2>1. PICK i \in DOMAIN c.observed : Monitor!Alarming(c.baseline, c.observed[i])
      BY <1>4, Zenon DEF Monitor!Alarm, Monitor!ToSet
    <2> QED BY <1>1, <1>2, <1>3, <2>1, CauseIsWorse
  <1>5. CASE Monitor!regression_windows(c) >= Sustained
    <2>1. Sustained <= n /\ \A i \in n - Sustained + 1..n : Monitor!Slow(c.baseline, c.observed[i])
      BY <1>5, SustainedIsAll
    <2>2. n \in 1..n /\ n \in n - Sustained + 1..n
      BY <1>1, <1>2, <2>1
    <2>3. Monitor!Slow(c.baseline, c.observed[n])
      BY <2>1, <2>2
    <2>4. Monitor!RatioAtLeast(c.baseline, c.observed[n], 120)
      BY <1>1, <1>2, <2>2, <2>3, SlowIsRatio
    <2> QED BY <1>1, <1>2, <1>3, <2>2, <2>4, CauseIsWorse
  <1> QED BY <1>4, <1>5 DEF Monitor!rollback_required

\* Every decision had its reason in the windows it was made on.
CausesSeen == Monitor!SustainedIsStreak /\ Monitor!NoCauseNoRollback

\* monitor_for_run decides for the reasons that the windows give it.
LEMMA DecisionHasCause ==
    ASSUME CausesSeen, NEW w \in Workers, NEW c \in Collections, Monitor!monitor(w, c)
    PROVE  CausesSeen'
  <1> DEFINE d == [collected |-> c, required |-> Monitor!rollback_required(c)]
  <1>1. decided' = decided \cup {d}
    BY DEF Monitor!monitor
  <1>2. d.collected = c /\ (d.required <=> Monitor!rollback_required(c))
    OBVIOUS
  <1>3. d.required <=> Monitor!Alarm(c) \/ (Monitor!Streak(c) >= Sustained /\ Monitor!Comparable(c))
    BY <1>2, RegressionIsStreak DEF Monitor!rollback_required
  <1>4. d.required => \E x \in Monitor!ToSet(c.observed) : ~Monitor!AsGood(c.baseline, x)
    BY <1>2, RollbackNeedsCause
  <1> HIDE DEF d
  <1>5. Monitor!SustainedIsStreak'
    BY <1>1, <1>2, <1>3, Zenon DEF CausesSeen, Monitor!SustainedIsStreak
  <1>6. Monitor!NoCauseNoRollback'
    BY <1>1, <1>2, <1>4, Zenon DEF CausesSeen, Monitor!NoCauseNoRollback
  <1> QED BY <1>5, <1>6 DEF CausesSeen

\* The inductive invariant of the stage
MonitorInv ==
    /\ MonitorTypes /\ CausesSeen /\ RecordedInTurn /\ Monitor!TerminalIsTold
    /\ Monitor!OutcomeWasDecided
    /\ \A w \in Workers : Told(w)

\* The initial state of the stage: nothing was decided or recorded.
LEMMA MonitorInit == Monitor!Init => MonitorInv
  <1> SUFFICES ASSUME Monitor!Init PROVE MonitorInv
    OBVIOUS
  <1> USE DEF Monitor!Init
  <1>1. MonitorTypes
    BY DEF MonitorTypes, Stages, Monitor!Outcomes
  <1>2. CausesSeen /\ Monitor!OutcomeWasDecided
    BY DEF CausesSeen, Monitor!SustainedIsStreak, Monitor!NoCauseNoRollback, Monitor!OutcomeWasDecided, Monitor!Outcomes
  <1>3. RecordedInTurn
    <2>1. Monitor!OutcomeOnce
      BY DEF Monitor!OutcomeOnce
    <2>2. \A w \in Workers : monitor_pc[w] = "idle"
      OBVIOUS
    <2> QED BY <2>1, <2>2 DEF RecordedInTurn
  <1>4. Monitor!TerminalIsTold /\ \A w \in Workers : Told(w)
    BY DEF Monitor!TerminalIsTold, Told, Monitor!Outcomes
  <1> QED BY <1>1, <1>2, <1>3, <1>4 DEF MonitorInv

\* A step of w: it alone moves, and what is recorded stays recorded.
Moves(w) ==
    /\ MonitorTypes'
    /\ \A v \in Workers \ {w} : monitor_pc'[v] = monitor_pc[v] /\ result'[v] = result[v]
    /\ rollback' = rollback \/ rollback = "none"
    /\ audit \subseteq audit'
    /\ \A o \in Monitor!Outcomes : experience[o] <= experience'[o]
    /\ decided \subseteq decided' /\ acting' = acting

\* A call that stands still keeps what was true of it.
LEMMA OthersStayTold ==
    ASSUME MonitorInv, NEW w \in Workers, Moves(w), NEW v \in Workers \ {w}
    PROVE  Told(v)'
  <1>1. monitor_pc'[v] = monitor_pc[v] /\ result'[v] = result[v] /\ Told(v)
    BY DEF Moves, MonitorInv
  <1>2. Monitor!outcome(v)' = Monitor!outcome(v)
    BY <1>1 DEF Monitor!outcome
  <1>3. monitor_pc[v] = "transition" => Monitor!outcome(v) \in Monitor!Outcomes
    BY <1>1 DEF Told, Monitor!outcome, Monitor!Terminal, Monitor!Outcomes
  <1>4. experience \in [Monitor!Outcomes -> Nat] /\ experience' \in [Monitor!Outcomes -> Nat]
    BY DEF Moves, MonitorInv, MonitorTypes
  <1>5. monitor_pc[v] = "transition" => experience'[Monitor!outcome(v)] > 0
    BY <1>1, <1>3, <1>4 DEF Told, Moves
  <1>6. (Required => Required') /\ (Standing => Standing')
    BY DEF Moves, Required, Standing
  <1> QED BY <1>1, <1>2, <1>5, <1>6 DEF Told, Moves

\* What was told of a run stays told while the run stays where it is.
LEMMA StaysTold ==
    ASSUME MonitorInv, NEW w \in Workers, Moves(w), run' = run,
           experience'["ROLLED_BACK"] = experience["ROLLED_BACK"] \/ rollback' = "ROLLED_BACK"
    PROVE  Monitor!TerminalIsTold'
  <1>1. experience \in [Monitor!Outcomes -> Nat] /\ experience' \in [Monitor!Outcomes -> Nat]
    BY DEF Moves, MonitorInv, MonitorTypes
  <1>2. run = "COMPLETED" => experience'["DEPLOYMENT_SUCCEEDED"] > 0
    BY <1>1 DEF Moves, MonitorInv, Monitor!TerminalIsTold, Monitor!Outcomes
  <1>3. run \in {"ROLLED_BACK", "ROLLBACK_BLOCKED"} => experience'[run] > 0
    BY <1>1 DEF Moves, MonitorInv, Monitor!TerminalIsTold, Monitor!Outcomes
  <1>4. run = "ROLLED_BACK" \/ experience'["ROLLED_BACK"] > 0 => rollback' = "ROLLED_BACK"
    BY DEF Moves, MonitorInv, Monitor!TerminalIsTold
  <1> QED BY <1>2, <1>3, <1>4 DEF Moves, MonitorInv, Monitor!TerminalIsTold

\* What is recorded of the run stays decided, and what is recorded now was decided before.
LEMMA StaysDecided ==
    ASSUME MonitorInv, NEW w \in Workers, Moves(w),
           rollback' = rollback \/ Required,
           \A o \in {"ROLLED_BACK", "ROLLBACK_BLOCKED"} :
              (experience'[o] = experience[o] /\ (run' = run \/ run' # o)) \/ Required,
           (/\ experience'["DEPLOYMENT_SUCCEEDED"] = experience["DEPLOYMENT_SUCCEEDED"]
            /\ run' = run \/ run' # "COMPLETED") \/ Standing
    PROVE  Monitor!OutcomeWasDecided'
  <1>1. (Required => Required') /\ (Standing => Standing')
    BY DEF Moves, Required, Standing
  <1>2. /\ (\/ rollback # "none" \/ run \in {"ROLLED_BACK", "ROLLBACK_BLOCKED"}
            \/ experience["ROLLED_BACK"] > 0 \/ experience["ROLLBACK_BLOCKED"] > 0)
           => Required
        /\ run = "COMPLETED" \/ experience["DEPLOYMENT_SUCCEEDED"] > 0 => Standing
    BY DEF MonitorInv, Monitor!OutcomeWasDecided, Required, Standing
  <1>3. /\ (\/ rollback' # "none" \/ run' \in {"ROLLED_BACK", "ROLLBACK_BLOCKED"}
            \/ experience'["ROLLED_BACK"] > 0 \/ experience'["ROLLBACK_BLOCKED"] > 0)
           => Required'
        /\ run' = "COMPLETED" \/ experience'["DEPLOYMENT_SUCCEEDED"] > 0 => Standing'
    BY <1>1, <1>2
  <1> QED BY <1>3 DEF Monitor!OutcomeWasDecided, Required, Standing

\* While nothing is recorded, one call at a time records each outcome once.
LEMMA StaysInTurn ==
    ASSUME MonitorInv, NEW w \in Workers, Moves(w), experience' = experience, monitor_pc[w] # "idle",
           monitor_pc'[w] = "experience" => experience[Monitor!outcome(w)'] = 0
    PROVE  RecordedInTurn'
  <1> SUFFICES ASSUME acting = "one stage" PROVE RecordedInTurn'
    BY DEF RecordedInTurn, Moves
  <1>1. \A v \in Workers \ {w} : monitor_pc[v] = "idle" /\ monitor_pc'[v] = "idle"
    BY DEF MonitorInv, RecordedInTurn, Moves
  <1>2. Monitor!OutcomeOnce'
    BY DEF MonitorInv, RecordedInTurn, Monitor!OutcomeOnce
  <1>3. \A v, u \in Workers : monitor_pc'[v] # "idle" /\ monitor_pc'[u] # "idle" => v = u
    BY <1>1
  <1>4. ASSUME NEW v \in Workers, monitor_pc'[v] = "experience" PROVE experience'[Monitor!outcome(v)'] = 0
    <2>1. v = w
      BY <1>1, <1>4
    <2> QED BY <1>4, <2>1
  <1> QED BY <1>2, <1>3, <1>4 DEF RecordedInTurn, Moves

\* A step that records nothing of the run and decides nothing
LEMMA QuietStep ==
    ASSUME MonitorInv, NEW w \in Workers, Moves(w), run' = run, decided' = decided, experience' = experience,
           monitor_pc[w] # "idle", Told(w)', rollback' = rollback \/ Required,
           monitor_pc'[w] = "experience" => experience[Monitor!outcome(w)'] = 0
    PROVE  MonitorInv'
  <1>1. Monitor!OutcomeWasDecided'
    BY StaysDecided
  <1>2. RecordedInTurn'
    BY StaysInTurn
  <1>3. Monitor!TerminalIsTold'
    BY StaysTold
  <1>4. \A v \in Workers : Told(v)'
    BY OthersStayTold
  <1>5. CausesSeen'
    BY DEF MonitorInv, CausesSeen, Monitor!SustainedIsStreak, Monitor!NoCauseNoRollback
  <1> QED BY <1>1, <1>2, <1>3, <1>4, <1>5 DEF MonitorInv, Moves

\* What is not recorded anew is recorded as often as before.
LEMMA ExperienceKept ==
    ASSUME MonitorTypes, experience' = experience
    PROVE  \A o \in Monitor!Outcomes : experience[o] <= experience'[o]
  <1>1. \A o \in Monitor!Outcomes : experience[o] \in Nat
    BY DEF MonitorTypes
  <1> QED BY <1>1

\* monitor_for_run up to the decision
LEMMA MonitorStep ==
    ASSUME MonitorInv, NEW w \in Workers, NEW c \in Collections, Monitor!monitor(w, c), acting' = acting,
           acting = "one stage" => \A v \in Workers : monitor_pc[v] = "idle"
    PROVE  MonitorInv'
  <1>1. UNCHANGED <<rollback, audit, experience, run, acting>> /\ monitor_pc[w] = "idle"
    BY DEF Monitor!monitor, Monitor!Called
  <1>2. decided' = decided \cup {[collected |-> c, required |-> Monitor!rollback_required(c)]}
    BY DEF Monitor!monitor
  <1>3. \/ /\ monitor_pc' = [monitor_pc EXCEPT ![w] = "rollback"] /\ result' = result
           /\ Monitor!rollback_required(c)
        \/ \E s \in {"STABLE", "WORKLOAD_SHIFT_DETECTED"} :
              /\ monitor_pc' = [monitor_pc EXCEPT ![w] = "audit"] /\ result' = [result EXCEPT ![w] = s]
              /\ ~Monitor!rollback_required(c)
    BY DEF Monitor!monitor
  <1>4. MonitorTypes'
    BY <1>1, <1>3 DEF MonitorInv, MonitorTypes, Stages, Monitor!Terminal
  <1>6. \A v \in Workers \ {w} : monitor_pc'[v] = monitor_pc[v] /\ result'[v] = result[v]
    BY <1>3 DEF MonitorInv, MonitorTypes
  <1>5. \A o \in Monitor!Outcomes : experience[o] <= experience'[o]
    BY <1>1, ExperienceKept DEF MonitorInv
  <1>7. Moves(w)
    BY <1>1, <1>2, <1>4, <1>5, <1>6 DEF Moves
  <1>8. Told(w)'
    <2> DEFINE d == [collected |-> c, required |-> Monitor!rollback_required(c)]
    <2>3. d \in decided' /\ (d.required <=> Monitor!rollback_required(c))
      BY <1>2
    <2> HIDE DEF d
    <2>1. CASE Monitor!rollback_required(c)
      <3>1. Required' /\ monitor_pc'[w] = "rollback" /\ result'[w] = result[w]
        BY <1>3, <2>1, <2>3 DEF MonitorInv, MonitorTypes, Required
      <3>2. result[w] \in {"STABLE", "WORKLOAD_SHIFT_DETECTED"} => Standing'
        BY <1>7 DEF MonitorInv, Told, Moves, Standing
      <3> QED BY <3>1, <3>2 DEF Told
    <2>2. CASE ~Monitor!rollback_required(c)
      <3>1. Standing'
        BY <2>2, <2>3 DEF Standing
      <3>2. monitor_pc'[w] = "audit" /\ result'[w] \in {"STABLE", "WORKLOAD_SHIFT_DETECTED"}
        BY <1>3, <2>2 DEF MonitorInv, MonitorTypes
      <3> QED BY <3>1, <3>2 DEF Told, Monitor!Terminal
    <2> QED BY <2>1, <2>2
  <1>9. RecordedInTurn'
    <2> SUFFICES ASSUME acting = "one stage" PROVE RecordedInTurn'
      BY <1>1 DEF RecordedInTurn
    <2>1. \A v \in Workers \ {w} : monitor_pc'[v] = "idle"
      BY <1>6
    <2>2. monitor_pc'[w] # "experience"
      BY <1>1, <1>3 DEF MonitorInv, MonitorTypes
    <2>3. Monitor!OutcomeOnce'
      BY <1>1 DEF MonitorInv, RecordedInTurn, Monitor!OutcomeOnce
    <2> QED BY <2>1, <2>2, <2>3 DEF RecordedInTurn
  <1>10. CausesSeen'
    BY DecisionHasCause DEF MonitorInv
  <1>11. Monitor!OutcomeWasDecided'
    BY <1>1, <1>7, StaysDecided
  <1> QED BY <1>1, <1>4, <1>7, <1>8, <1>9, <1>10, <1>11, OthersStayTold, StaysTold DEF MonitorInv

\* A step of one call that changes neither an experience nor the run
LEMMA CallMoves ==
    ASSUME MonitorInv, NEW w \in Workers, MonitorTypes', experience' = experience,
           \A v \in Workers \ {w} : monitor_pc'[v] = monitor_pc[v] /\ result'[v] = result[v],
           rollback' = rollback \/ rollback = "none", audit \subseteq audit',
           decided \subseteq decided', acting' = acting
    PROVE  Moves(w)
  <1>1. \A o \in Monitor!Outcomes : experience[o] <= experience'[o]
    BY ExperienceKept DEF MonitorInv
  <1> QED BY <1>1 DEF Moves

\* _Coordinator.rollback
LEMMA RollBackStep ==
    ASSUME MonitorInv, NEW w \in Workers, Monitor!roll_back(w), acting' = acting
    PROVE  MonitorInv'
  <1>1. /\ monitor_pc[w] = "rollback" /\ monitor_pc' = [monitor_pc EXCEPT ![w] = "audit"]
        /\ UNCHANGED <<audit, experience, run, decided, acting>>
    BY DEF Monitor!roll_back
  <1> DEFINE Answers(s) ==
            /\ result' = [result EXCEPT ![w] = s]
            /\ s = "ROLLED_BACK" => rollback' = "ROLLED_BACK"
  <1>2. /\ \E s \in {"ROLLED_BACK", "ROLLBACK_BLOCKED"} : Answers(s)
        /\ rollback' \in {"none", "ROLLED_BACK", "ROLLBACK_BLOCKED"}
        /\ rollback' = rollback \/ rollback = "none"
    <2>1. rollback \in {"none", "ROLLED_BACK", "ROLLBACK_BLOCKED"}
      BY DEF MonitorInv, MonitorTypes
    <2>2. CASE /\ \E s \in {"ROLLED_BACK", "ROLLBACK_BLOCKED"} : rollback' = IF rollback = "none" THEN s ELSE rollback
               /\ result' = [result EXCEPT ![w] = rollback']
      <3>1. rollback' \in {"ROLLED_BACK", "ROLLBACK_BLOCKED"} /\ (rollback' = rollback \/ rollback = "none")
        BY <2>1, <2>2
      <3>2. Answers(rollback')
        BY <2>2
      <3> QED BY <3>1, <3>2
    <2>3. CASE rollback' = rollback /\ result' = [result EXCEPT ![w] = "ROLLBACK_BLOCKED"]
      <3>1. Answers("ROLLBACK_BLOCKED")
        BY <2>3
      <3> QED BY <2>1, <2>3, <3>1
    <2> QED BY <2>2, <2>3 DEF Monitor!roll_back
  <1>3. MonitorTypes'
    BY <1>1, <1>2 DEF MonitorInv, MonitorTypes, Stages, Monitor!Terminal
  <1>4. \A v \in Workers \ {w} : monitor_pc'[v] = monitor_pc[v] /\ result'[v] = result[v]
    BY <1>1, <1>2 DEF MonitorInv, MonitorTypes
  <1>5. Moves(w)
    BY <1>1, <1>2, <1>3, <1>4, CallMoves
  <1>6. monitor_pc'[w] = "audit"
    BY <1>1 DEF MonitorInv, MonitorTypes
  <1>7. Required /\ Required'
    BY <1>1 DEF MonitorInv, Told, Required
  <1>8. Told(w)'
    BY <1>2, <1>6, <1>7 DEF MonitorInv, MonitorTypes, Told, Monitor!Terminal
  <1> QED BY <1>1, <1>5, <1>6, <1>7, <1>8, QuietStep

\* AuditRepository.create
LEMMA AuditStep ==
    ASSUME MonitorInv, NEW w \in Workers, Monitor!record_audit(w), acting' = acting
    PROVE  MonitorInv'
  <1>1. /\ monitor_pc[w] = "audit" /\ monitor_pc' = [monitor_pc EXCEPT ![w] = "lookup"]
        /\ audit' = audit \cup {result[w]}
        /\ UNCHANGED <<rollback, experience, run, result, decided, acting>>
    BY DEF Monitor!record_audit
  <1>2. /\ result[w] \in Monitor!Terminal /\ (result[w] = "ROLLED_BACK" => rollback = "ROLLED_BACK")
        /\ result[w] \in {"ROLLED_BACK", "ROLLBACK_BLOCKED"} => Required /\ Required'
        /\ result[w] \in {"STABLE", "WORKLOAD_SHIFT_DETECTED"} => Standing /\ Standing'
    BY <1>1 DEF MonitorInv, Told, Required, Standing
  <1>3. MonitorTypes'
    BY <1>1, <1>2 DEF MonitorInv, MonitorTypes, Stages
  <1>4. \A v \in Workers \ {w} : monitor_pc'[v] = monitor_pc[v] /\ result'[v] = result[v]
    BY <1>1 DEF MonitorInv, MonitorTypes
  <1>5. Moves(w)
    BY <1>1, <1>3, <1>4, CallMoves
  <1>6. monitor_pc'[w] = "lookup"
    BY <1>1 DEF MonitorInv, MonitorTypes
  <1>7. Told(w)'
    BY <1>1, <1>2, <1>6 DEF Told
  <1> QED BY <1>1, <1>5, <1>6, <1>7, QuietStep

\* already_recorded
LEMMA LookupStep ==
    ASSUME MonitorInv, NEW w \in Workers, Monitor!lookup(w), acting' = acting
    PROVE  MonitorInv'
  <1>1. /\ monitor_pc[w] = "lookup"
        /\ monitor_pc' = [monitor_pc EXCEPT ![w] =
              IF experience[Monitor!outcome(w)] > 0 THEN "transition" ELSE "experience"]
        /\ UNCHANGED <<rollback, audit, experience, run, result, decided, acting>>
    BY DEF Monitor!lookup
  <1>2. /\ result[w] \in Monitor!Terminal /\ (result[w] = "ROLLED_BACK" => rollback = "ROLLED_BACK")
        /\ result[w] \in audit
        /\ result[w] \in {"ROLLED_BACK", "ROLLBACK_BLOCKED"} => Required /\ Required'
        /\ result[w] \in {"STABLE", "WORKLOAD_SHIFT_DETECTED"} => Standing /\ Standing'
    BY <1>1 DEF MonitorInv, Told, Required, Standing
  <1>3. MonitorTypes'
    BY <1>1 DEF MonitorInv, MonitorTypes, Stages
  <1>4. \A v \in Workers \ {w} : monitor_pc'[v] = monitor_pc[v] /\ result'[v] = result[v]
    BY <1>1 DEF MonitorInv, MonitorTypes
  <1>5. Moves(w)
    BY <1>1, <1>3, <1>4, CallMoves
  <1>6. /\ monitor_pc'[w] \in {"transition", "experience"}
        /\ monitor_pc'[w] = "transition" <=> experience[Monitor!outcome(w)] > 0
    BY <1>1 DEF MonitorInv, MonitorTypes
  <1>7. Monitor!outcome(w)' = Monitor!outcome(w)
    BY <1>1 DEF Monitor!outcome
  <1>8. Told(w)'
    BY <1>1, <1>2, <1>6, <1>7 DEF Told
  <1>9. experience[Monitor!outcome(w)] \in Nat
    BY <1>2 DEF MonitorInv, MonitorTypes, Monitor!outcome, Monitor!Terminal, Monitor!Outcomes
  <1>10. monitor_pc'[w] = "experience" => experience[Monitor!outcome(w)'] = 0
    BY <1>6, <1>7, <1>9
  <1> QED BY <1>1, <1>5, <1>8, <1>10, QuietStep

\* The process dies.
LEMMA MonitorDies ==
    ASSUME MonitorInv, NEW w \in Workers, Monitor!die(w), acting' = acting
    PROVE  MonitorInv'
  <1>1. /\ monitor_pc[w] # "idle" /\ monitor_pc' = [monitor_pc EXCEPT ![w] = "idle"]
        /\ result' = [result EXCEPT ![w] = "none"]
        /\ UNCHANGED <<rollback, audit, experience, run, decided, acting>>
    BY DEF Monitor!die
  <1>3. MonitorTypes'
    BY <1>1 DEF MonitorInv, MonitorTypes, Stages
  <1>4. \A v \in Workers \ {w} : monitor_pc'[v] = monitor_pc[v] /\ result'[v] = result[v]
    BY <1>1 DEF MonitorInv, MonitorTypes
  <1>5. Moves(w)
    BY <1>1, <1>3, <1>4, CallMoves
  <1>6. monitor_pc'[w] = "idle" /\ result'[w] = "none"
    BY <1>1 DEF MonitorInv, MonitorTypes
  <1>7. Told(w)'
    BY <1>6 DEF Told
  <1> QED BY <1>1, <1>5, <1>6, <1>7, QuietStep

\* ExperienceRepository.create
LEMMA ExperienceStep ==
    ASSUME MonitorInv, NEW w \in Workers, Monitor!record_experience(w), acting' = acting
    PROVE  MonitorInv'
  <1> DEFINE o == Monitor!outcome(w)
  <1>1. /\ monitor_pc[w] = "experience" /\ monitor_pc' = [monitor_pc EXCEPT ![w] = "transition"]
        /\ experience' = [experience EXCEPT ![o] = @ + 1]
        /\ UNCHANGED <<rollback, audit, run, result, decided, acting>>
    BY DEF Monitor!record_experience
  <1>2. /\ result[w] \in Monitor!Terminal /\ (result[w] = "ROLLED_BACK" => rollback = "ROLLED_BACK")
        /\ result[w] \in audit
        /\ result[w] \in {"ROLLED_BACK", "ROLLBACK_BLOCKED"} => Required /\ Required'
        /\ result[w] \in {"STABLE", "WORKLOAD_SHIFT_DETECTED"} => Standing /\ Standing'
    BY <1>1 DEF MonitorInv, Told, Required, Standing
  <1>3. o \in Monitor!Outcomes /\ (o = "ROLLED_BACK" => rollback = "ROLLED_BACK")
    BY <1>2 DEF Monitor!outcome, Monitor!Terminal, Monitor!Outcomes
  <1>4. Monitor!outcome(w)' = o
    BY <1>1 DEF Monitor!outcome
  <1> HIDE DEF o
  <1>5. experience \in [Monitor!Outcomes -> Nat] /\ experience' \in [Monitor!Outcomes -> Nat]
    BY <1>1, <1>3 DEF MonitorInv, MonitorTypes
  <1>6. /\ experience'[o] = experience[o] + 1 /\ experience[o] \in Nat
        /\ \A p \in Monitor!Outcomes \ {o} : experience'[p] = experience[p] /\ experience[p] \in Nat
    BY <1>1, <1>3, <1>5
  <1>7. MonitorTypes'
    BY <1>1, <1>5 DEF MonitorInv, MonitorTypes, Stages
  <1>8. \A v \in Workers \ {w} : monitor_pc'[v] = monitor_pc[v] /\ result'[v] = result[v]
    BY <1>1 DEF MonitorInv, MonitorTypes
  <1>9. \A p \in Monitor!Outcomes : experience[p] <= experience'[p]
    BY <1>6
  <1>10. Moves(w)
    BY <1>1, <1>7, <1>8, <1>9 DEF Moves
  <1>11. monitor_pc'[w] = "transition"
    BY <1>1 DEF MonitorInv, MonitorTypes
  <1>12. Told(w)'
    BY <1>1, <1>2, <1>4, <1>6, <1>11 DEF Told
  <1>13. CausesSeen'
    BY <1>1 DEF MonitorInv, CausesSeen, Monitor!SustainedIsStreak, Monitor!NoCauseNoRollback
  <1>14. experience'["ROLLED_BACK"] = experience["ROLLED_BACK"] \/ rollback' = "ROLLED_BACK"
    BY <1>1, <1>3, <1>6 DEF Monitor!Outcomes
  <1>15. experience[o] = 0 /\ (\A p \in Monitor!Outcomes : experience[p] <= 1) =>
            \A p \in Monitor!Outcomes : experience'[p] <= 1
    BY <1>6
  <1>16. RecordedInTurn'
    <2> SUFFICES ASSUME acting = "one stage" PROVE RecordedInTurn'
      BY <1>1 DEF RecordedInTurn
    <2>1. experience[o] = 0 /\ \A p \in Monitor!Outcomes : experience[p] <= 1
      BY <1>1 DEF MonitorInv, RecordedInTurn, Monitor!OutcomeOnce, o
    <2>2. \A p \in Monitor!Outcomes : experience'[p] <= 1
      BY <2>1, <1>15
    <2>3. \A v \in Workers \ {w} : monitor_pc'[v] = "idle"
      BY <1>1, <1>8 DEF MonitorInv, RecordedInTurn
    <2> QED BY <2>2, <2>3, <1>11 DEF RecordedInTurn, Monitor!OutcomeOnce
  <1>17. Monitor!OutcomeWasDecided'
    <2>1. /\ o \in {"ROLLED_BACK", "ROLLBACK_BLOCKED"} => Required
          /\ o = "DEPLOYMENT_SUCCEEDED" => Standing
      BY <1>2 DEF o, Monitor!outcome, Monitor!Terminal
    <2>2. /\ \A p \in {"ROLLED_BACK", "ROLLBACK_BLOCKED"} : experience'[p] = experience[p] \/ Required
          /\ experience'["DEPLOYMENT_SUCCEEDED"] = experience["DEPLOYMENT_SUCCEEDED"] \/ Standing
      BY <1>6, <2>1 DEF Monitor!Outcomes
    <2> QED BY <1>1, <1>10, <2>2, StaysDecided
  <1> QED BY <1>1, <1>7, <1>10, <1>12, <1>13, <1>14, <1>16, <1>17, OthersStayTold, StaysTold DEF MonitorInv

\* OptimizationRunOrchestrator.run moves the run on.
LEMMA TransitionStep ==
    ASSUME MonitorInv, NEW w \in Workers, Monitor!transition(w), acting' = acting
    PROVE  MonitorInv'
  <1>1. /\ monitor_pc[w] = "transition" /\ monitor_pc' = [monitor_pc EXCEPT ![w] = "idle"]
        /\ result' = [result EXCEPT ![w] = "none"]
        /\ run' = IF run # "MONITORING" THEN run
                  ELSE IF Monitor!outcome(w) = "DEPLOYMENT_SUCCEEDED" THEN "COMPLETED" ELSE result[w]
        /\ UNCHANGED <<rollback, audit, experience, decided, acting>>
    BY DEF Monitor!transition
  <1>2. /\ result[w] \in Monitor!Terminal /\ (result[w] = "ROLLED_BACK" => rollback = "ROLLED_BACK")
        /\ result[w] \in audit /\ experience[Monitor!outcome(w)] > 0
        /\ result[w] \in {"ROLLED_BACK", "ROLLBACK_BLOCKED"} => Required
        /\ result[w] \in {"STABLE", "WORKLOAD_SHIFT_DETECTED"} => Standing
    BY <1>1 DEF MonitorInv, Told
  <1>3. MonitorTypes'
    BY <1>1, <1>2 DEF MonitorInv, MonitorTypes, Stages, Monitor!Terminal, Monitor!outcome
  <1>4. \A v \in Workers \ {w} : monitor_pc'[v] = monitor_pc[v] /\ result'[v] = result[v]
    BY <1>1 DEF MonitorInv, MonitorTypes
  <1>5. Moves(w)
    BY <1>1, <1>3, <1>4, CallMoves
  <1>6. monitor_pc'[w] = "idle" /\ result'[w] = "none"
    BY <1>1 DEF MonitorInv, MonitorTypes
  <1>7. Told(w)'
    BY <1>6 DEF Told
  <1>8. Monitor!TerminalIsTold'
    <2>1. CASE run' = run
      BY <1>1, <1>5, <2>1, StaysTold
    <2>2. CASE run = "MONITORING" /\ Monitor!outcome(w) = "DEPLOYMENT_SUCCEEDED"
      <3>1. result[w] \in {"STABLE", "WORKLOAD_SHIFT_DETECTED"}
        BY <1>2, <2>2 DEF Monitor!outcome, Monitor!Terminal
      <3>2. run' = "COMPLETED"
        BY <1>1, <2>2
      <3> QED BY <1>1, <1>2, <2>2, <3>1, <3>2 DEF MonitorInv, Monitor!TerminalIsTold
    <2>3. CASE run = "MONITORING" /\ Monitor!outcome(w) # "DEPLOYMENT_SUCCEEDED"
      <3>1. result[w] \in {"ROLLED_BACK", "ROLLBACK_BLOCKED"} /\ Monitor!outcome(w) = result[w]
        BY <1>2, <2>3 DEF Monitor!outcome, Monitor!Terminal
      <3>2. run' = result[w]
        BY <1>1, <2>3
      <3> QED BY <1>1, <1>2, <3>1, <3>2 DEF MonitorInv, Monitor!TerminalIsTold
    <2> QED BY <1>1, <2>1, <2>2, <2>3
  <1>9. CausesSeen'
    BY <1>1 DEF MonitorInv, CausesSeen, Monitor!SustainedIsStreak, Monitor!NoCauseNoRollback
  <1>10. RecordedInTurn'
    BY <1>1, <1>5, <1>6, StaysInTurn
  <1>11. Monitor!OutcomeWasDecided'
    <2>1. run' = run \/ (run' = result[w] /\ Required /\ run' # "COMPLETED") \/ (run' = "COMPLETED" /\ Standing)
      BY <1>1, <1>2 DEF Monitor!outcome, Monitor!Terminal
    <2>2. \A o \in {"ROLLED_BACK", "ROLLBACK_BLOCKED"} : run' = run \/ run' # o \/ Required
      BY <2>1
    <2> QED BY <1>1, <1>5, <2>1, <2>2, StaysDecided
  <1> QED BY <1>3, <1>5, <1>7, <1>8, <1>9, <1>10, <1>11, OthersStayTold DEF MonitorInv

\* A step of any scenario keeps the invariant of the stage.
LEMMA MonitorNextStep == MonitorInv /\ [AllNext]_allvars => MonitorInv'
  <1> SUFFICES ASSUME MonitorInv, [AllNext]_allvars PROVE MonitorInv'
    OBVIOUS
  <1>1. ASSUME UNCHANGED <<acting, rollback, audit, experience, run, monitor_pc, result, decided>>
        PROVE  MonitorInv'
    BY <1>1 DEF MonitorInv, MonitorTypes, CausesSeen, RecordedInTurn, Told, Required, Standing,
                Monitor!SustainedIsStreak, Monitor!NoCauseNoRollback, Monitor!OutcomeWasDecided,
                Monitor!TerminalIsTold, Monitor!OutcomeOnce, Monitor!outcome
  <1>2. CASE acting = "windows" /\ WindowsNext /\ acting' = acting
    <2>1. PICK c \in Collections : Monitor!monitor("w1", c)
      BY <1>2 DEF WindowsNext
    <2> QED BY <1>2, <2>1, MonitorStep, VerdictsConstants
  <1>3. CASE MonitoringNext /\ acting' = acting
    <2>1. ASSUME NEW w \in Workers, Monitor!monitor_raises(w) PROVE MonitorInv'
      BY <1>1, <1>3, <2>1 DEF Monitor!monitor_raises, Monitor!Called
    <2>2. ASSUME NEW w \in Workers, NEW c \in FewCollections, Monitor!monitor(w, c),
                 acting = "one stage" => \A v \in Workers : monitor_pc[v] = "idle"
          PROVE  MonitorInv'
      BY <1>3, <2>2, MonitorStep, MonitoringConstants
    <2>3. ASSUME NEW w \in Workers,
                 \/ Monitor!roll_back(w) \/ Monitor!record_audit(w) \/ Monitor!lookup(w)
                 \/ Monitor!record_experience(w) \/ Monitor!transition(w) \/ Monitor!die(w)
          PROVE  MonitorInv'
      BY <1>3, <2>3, RollBackStep, AuditStep, LookupStep, ExperienceStep, TransitionStep, MonitorDies
    <2> QED BY <1>3, <2>1, <2>2, <2>3 DEF MonitoringNext
  <1> QED BY <1>1, <1>2, <1>3 DEF AllNext, allvars, monitor_vars

\* monitor_for_run and the orchestrator after it, whatever windows each call collects, however
\* often the stage dies and is called again, and however many workers overlap in it: a
\* rollback is required exactly for an alarm or for a streak of slow windows of a comparable
\* workload, and never when every window was good; a rollback, or an experience or a status
\* that tells of one, is there only if some call required it, and a run completes only if some
\* call did not; a run that left the stage has the audit event and the experience of what happened to it, and says
\* ROLLED_BACK only of an index that was rolled back; and one worker at a time records one
\* experience of an outcome.
THEOREM MonitoringStaysSound == AllSpec => []MonitoringIsSound
  <1>1. AllInit => MonitorInv
    BY MonitorInit DEF AllInit
  <1>2. MonitorInv /\ [AllNext]_allvars => MonitorInv'
    BY MonitorNextStep
  <1>3. MonitorInv => MonitoringIsSound
    BY DEF MonitorInv, CausesSeen, RecordedInTurn, MonitoringIsSound, Monitor!RollbackHasCause
  <1> QED BY <1>1, <1>2, <1>3, PTL DEF AllSpec

-----------------------------------------------------------------------------
(* The derivation of candidates *)

\* The cardinality that the derivation's module sees is the one of this module.
LEMMA SameCount == \A S : Derivation!Cardinality(S) = Cardinality(S)
  BY Zenon DEF Derivation!Cardinality, Cardinality, Derivation!IsFiniteSet, IsFiniteSet

\* sorted() of a group: every field has a place, and every place a field.
LEMMA SortedPlaces ==
    ASSUME NEW items, IsFiniteSet(items), \A a \in items : a[1] \in Nat,
           \A a, b \in items : a[1] = b[1] => a = b
    PROVE  /\ Cardinality(items) \in Nat
           /\ Derivation!Sorted(items) \in [1..Cardinality(items) -> items]
           /\ \A i, j \in 1..Cardinality(items) :
                Derivation!Sorted(items)[i] = Derivation!Sorted(items)[j] => i = j
           /\ \A a \in items : \E i \in 1..Cardinality(items) : Derivation!Sorted(items)[i] = a
  <1> DEFINE n == Cardinality(items)
             upto(a) == {other \in items : other[1] <= a[1]}
             rank(a) == Derivation!Cardinality(upto(a))
             s == Derivation!Sorted(items)
             r == [a \in items |-> rank(a)]
  <1>1. n \in Nat
    BY FS_CardinalityType
  <1>2. ASSUME NEW a \in items PROVE rank(a) \in 1..n /\ IsFiniteSet(upto(a))
    <2>1. upto(a) \in SUBSET items /\ a \in upto(a)
      OBVIOUS
    <2> HIDE DEF upto
    <2>2. IsFiniteSet(upto(a)) /\ Cardinality(upto(a)) <= n
      BY <2>1, FS_Subset
    <2>3. Cardinality(upto(a)) \in Nat /\ Cardinality(upto(a)) # 0
      BY <2>1, <2>2, FS_CardinalityType, FS_EmptySet
    <2> QED BY <1>1, <2>2, <2>3, SameCount
  <1>3. ASSUME NEW a \in items, NEW b \in items, a[1] < b[1] PROVE rank(a) < rank(b)
    <2>1. upto(a) \in SUBSET upto(b) /\ b \in upto(b) /\ b \notin upto(a)
      BY <1>3
    <2>2. IsFiniteSet(upto(b)) /\ rank(a) \in 1..n /\ rank(b) \in 1..n
      BY <1>2
    <2> HIDE DEF upto
    <2>3. Cardinality(upto(a)) <= Cardinality(upto(b)) /\ (Cardinality(upto(b)) = Cardinality(upto(a)) => upto(b) = upto(a))
      BY <2>1, <2>2, FS_Subset
    <2>4. Cardinality(upto(a)) # Cardinality(upto(b))
      BY <2>1, <2>3
    <2> QED BY <1>1, <2>2, <2>3, <2>4, SameCount
  <1>4. ASSUME NEW a \in items, NEW b \in items, rank(a) = rank(b) PROVE a = b
    <2>1. rank(a) \in Nat
      BY <1>1, <1>2
    <2> HIDE DEF rank
    <2>2. ~(a[1] < b[1]) /\ ~(b[1] < a[1])
      BY <1>3, <1>4, <2>1
    <2> QED BY <2>2
  <1>5. r \in Injection(items, 1..n)
    <2> HIDE DEF rank, n
    <2>1. r \in [items -> 1..n] /\ \A a, b \in items : r[a] = r[b] => a = b
      BY <1>2, <1>4
    <2> QED BY <2>1, Zenon DEF Injection, IsInjective
  <1>6. r \in Surjection(items, 1..n)
    <2>1. IsFiniteSet(1..n) /\ Cardinality(1..n) = n
      BY <1>1, FS_Interval
    <2> HIDE DEF r
    <2> QED BY <1>5, <2>1, FS_Injection
  <1>7. ASSUME NEW i \in 1..n PROVE \E a \in items : rank(a) = i
    <2> HIDE DEF rank, n
    <2>1. \E a \in items : r[a] = i
      BY <1>6, Zenon DEF Surjection
    <2> QED BY <2>1
  <1>8. s = [i \in 1..n |-> CHOOSE item \in items : rank(item) = i]
    <2>1. s = [i \in 1..Derivation!Cardinality(items) |-> CHOOSE item \in items : rank(item) = i]
      BY Zenon DEF Derivation!Sorted
    <2> HIDE DEF rank, s
    <2> QED BY <2>1, SameCount, Zenon
  <1>9. ASSUME NEW i \in 1..n PROVE s[i] \in items /\ rank(s[i]) = i
    <2> HIDE DEF rank, n, s
    <2>1. s[i] = CHOOSE item \in items : rank(item) = i
      BY <1>8
    <2> QED BY <1>7, <2>1
  <1>10. s \in [1..n -> items]
    <2> HIDE DEF rank, n
    <2> QED BY <1>8, <1>9
  <1>11. ASSUME NEW i \in 1..n, NEW j \in 1..n, s[i] = s[j] PROVE i = j
    <2> HIDE DEF rank, n, s
    <2> QED BY <1>9, <1>11
  <1>12. ASSUME NEW a \in items PROVE \E i \in 1..n : s[i] = a
    <2> HIDE DEF rank, n, s
    <2> QED BY <1>2, <1>4, <1>9
  <1> HIDE DEF rank, n, s
  <1> QED BY <1>1, <1>10, <1>11, <1>12 DEF n, s

Equal(q) == {f \in Fields : q.filter[f] = "equality"}
Ranged(q) == {f \in Fields : q.filter[f] = "range"}

\* The keys that generate makes of what find_fields finds in the shape of a query
KeysOf(q) == Derivation!Sorted(Equal(q) \X {1}) \o Derivation!Sorted({}) \o Derivation!Sorted(Ranged(q) \X {1})

\* A query as a snapshot may hold it
Observed(q) == q \in Derivation!Query

\* _find_fields finds no sort in a canonical shape, so that generate has two groups, without
\* a field in common.
LEMMA GeneratedKeys ==
    ASSUME NEW q, Observed(q)
    PROVE  Derivation!generate(Derivation!find_fields(Derivation!canonicalize(q)))
             = IF Len(KeysOf(q)) \in 1..5 THEN {KeysOf(q)} ELSE {}
  <1> DEFINE c == Derivation!canonicalize(q)
             ff == Derivation!find_fields(c)
  <1>1. c.filter = q.filter /\ c.sort = Derivation!FieldsOf(q.sort) \X {0}
    BY DEF Observed, Derivation!canonicalize, Derivation!Query, Derivation!Token
  <1>2. ff.equality = Equal(q) /\ ff.range = Ranged(q) /\ ff.sort = {item \in c.sort : item[2] \in {-1, 1}}
    BY <1>1 DEF Derivation!find_fields, Equal, Ranged
  <1>3. ff.sort = {}
    BY <1>1, <1>2
  <1>4. Ranged(q) \cap Equal(q) = {}
    BY DEF Equal, Ranged
  <1> HIDE DEF ff, c
  <1>5. {item \in ff.sort : item[1] \notin ff.equality} = {}
    BY <1>3
  <1>6. ff.range \ (ff.equality \cup {item[1] : item \in {}}) = Ranged(q)
    BY <1>2, <1>4
  <1>7. Derivation!generate(ff) = IF Len(KeysOf(q)) \in 1..5 THEN {KeysOf(q)} ELSE {}
    BY <1>2, <1>5, <1>6, Zenon DEF Derivation!generate, KeysOf
  <1> QED BY <1>7 DEF ff, c

\* A group of fields in one direction: a sequence that has each of them once.
LEMMA GroupOfFields ==
    ASSUME Derivation!DerivationConstants, NEW S \in SUBSET Fields
    PROVE  LET s == Derivation!Sorted(S \X {1}) IN
           /\ IsFiniteSet(S) /\ Cardinality(S) \in Nat
           /\ s \in Seq(Fields \X {1}) /\ Len(s) = Cardinality(S)
           /\ \A i \in 1..Len(s) : s[i][1] \in S
           /\ \A i, j \in 1..Len(s) : s[i][1] = s[j][1] => i = j
           /\ \A f \in S : \E i \in 1..Len(s) : s[i][1] = f
  <1> DEFINE T == S \X {1}
             s == Derivation!Sorted(T)
             pair == [f \in S |-> <<f, 1>>]
  <1>1. IsFiniteSet(S) /\ S \subseteq Nat
    <2>1. Derivation!IsFiniteSet(Fields) /\ Fields \subseteq Nat
      BY DEF Derivation!DerivationConstants
    <2>2. IsFiniteSet(Fields)
      BY <2>1, Zenon DEF Derivation!IsFiniteSet, IsFiniteSet
    <2> QED BY <2>1, <2>2, FS_Subset
  <1>2. pair \in Bijection(S, T)
    <2>1. pair \in [S -> T] /\ (\A a, b \in S : pair[a] = pair[b] => a = b) /\ \A t \in T : \E a \in S : pair[a] = t
      OBVIOUS
    <2> HIDE DEF pair, T
    <2> QED BY <2>1, Zenon DEF Bijection, Injection, Surjection, IsInjective
  <1>3. IsFiniteSet(T) /\ Cardinality(T) = Cardinality(S)
    <2> HIDE DEF pair, T
    <2> QED BY <1>1, <1>2, FS_Bijection, Zenon DEF ExistsBijection
  <1>4. \A a \in T : a[1] \in Nat /\ a[1] \in S /\ a[2] = 1 /\ a \in Fields \X {1}
    BY <1>1
  <1>5. \A a, b \in T : a[1] = b[1] => a = b
    OBVIOUS
  <1> HIDE DEF T, pair, s
  <1> DEFINE n == Cardinality(S)
  <1>6. /\ n \in Nat /\ s \in [1..n -> T]
        /\ \A i, j \in 1..n : s[i] = s[j] => i = j
        /\ \A a \in T : \E i \in 1..n : s[i] = a
    BY <1>3, <1>4, <1>5, SortedPlaces DEF s
  <1> HIDE DEF n
  <1>7. s \in Seq(Fields \X {1}) /\ Len(s) = n
    <2>1. s \in [1..n -> Fields \X {1}]
      BY <1>4, <1>6
    <2> QED BY <1>6, <2>1
  <1>8. \A i \in 1..n : s[i][1] \in S
    BY <1>4, <1>6
  <1>9. \A i, j \in 1..n : s[i][1] = s[j][1] => i = j
    BY <1>5, <1>6
  <1>10. ASSUME NEW f \in S PROVE \E i \in 1..n : s[i][1] = f
    <2>1. <<f, 1>> \in T
      BY DEF T
    <2>2. PICK i \in 1..n : s[i] = <<f, 1>>
      BY <1>6, <2>1
    <2> QED BY <2>2
  <1> QED BY <1>1, <1>6, <1>7, <1>8, <1>9, <1>10 DEF n, s, T

\* generate, "equality -> sort -> range": the keys of a query have the fields that it compares
\* for equality first and then its ranges, each once.
LEMMA KeysFollowQuery ==
    ASSUME Derivation!DerivationConstants, NEW q, Observed(q)
    PROVE  LET k == KeysOf(q) IN
           /\ k \in Seq(Fields \X {1})
           /\ Derivation!FieldsOf(k) = Equal(q) \cup Ranged(q)
           /\ Cardinality(Equal(q)) \in Nat /\ Cardinality(Equal(q)) <= Len(k)
           /\ Derivation!FieldsOf(SubSeq(k, 1, Cardinality(Equal(q)))) = Equal(q)
           /\ Cardinality(Equal(q) \cup Ranged(q)) = Len(k)
  <1> DEFINE E == Equal(q)
             R == Ranged(q)
             a == Derivation!Sorted(E \X {1})
             b == Derivation!Sorted(R \X {1})
             k == KeysOf(q)
             m == Len(a)
  <1>1. E \in SUBSET Fields /\ R \in SUBSET Fields /\ E \cap R = {}
    BY DEF Equal, Ranged
  <1> HIDE DEF E, R
  <1>2. /\ Cardinality(E) \in Nat /\ a \in Seq(Fields \X {1}) /\ Len(a) = Cardinality(E)
        /\ \A i \in 1..Len(a) : a[i][1] \in E
        /\ \A i, j \in 1..Len(a) : a[i][1] = a[j][1] => i = j
        /\ \A f \in E : \E i \in 1..Len(a) : a[i][1] = f
    BY <1>1, GroupOfFields
  <1>3. /\ b \in Seq(Fields \X {1})
        /\ \A i \in 1..Len(b) : b[i][1] \in R
        /\ \A i, j \in 1..Len(b) : b[i][1] = b[j][1] => i = j
        /\ \A f \in R : \E i \in 1..Len(b) : b[i][1] = f
    BY <1>1, GroupOfFields
  <1>4. Derivation!Sorted({}) = <<>>
    <2>1. Cardinality({}) = 0 /\ 1..0 = {}
      BY FS_EmptySet
    <2>2. Derivation!Sorted({}) \in [1..Cardinality({}) -> {}]
      BY SortedPlaces, FS_EmptySet
    <2> HIDE DEF a
    <2> QED BY <2>1, <2>2
  <1>5. k = a \o b
    <2>1. k = a \o <<>> \o b
      BY <1>4, Zenon DEF KeysOf, E, R
    <2> HIDE DEF k, a, b
    <2> QED BY <1>2, <2>1
  <1> HIDE DEF a, b, k
  <1>6. /\ k \in Seq(Fields \X {1}) /\ Len(k) = m + Len(b) /\ m \in Nat /\ Len(b) \in Nat
        /\ \A i \in 1..m : k[i] = a[i]
        /\ \A i \in 1..Len(b) : k[m + i] = b[i]
    <2> DEFINE X == Fields \X {1}
    <2>1. a \in Seq(X) /\ b \in Seq(X)
      BY <1>2, <1>3
    <2> HIDE DEF X
    <2>2. /\ a \o b \in Seq(X) /\ Len(a \o b) = m + Len(b) /\ m \in Nat /\ Len(b) \in Nat
          /\ \A i \in 1..m : (a \o b)[i] = a[i]
          /\ \A i \in 1..Len(b) : (a \o b)[m + i] = b[i]
      BY <2>1
    <2> QED BY <1>5, <2>2 DEF X
  <1> HIDE DEF m
  <1>7. ASSUME NEW i \in 1..Len(k)
        PROVE  \/ i \in 1..m /\ k[i][1] \in E
               \/ i - m \in 1..Len(b) /\ k[i] = b[i - m] /\ k[i][1] \in R
    <2>1. CASE i \in 1..m
      BY <1>2, <1>6, <2>1 DEF m
    <2>2. CASE i \notin 1..m
      <3>1. i - m \in 1..Len(b) /\ m + (i - m) = i
        BY <1>6, <2>2
      <3>2. k[i] = b[i - m]
        BY <1>6, <3>1
      <3> QED BY <1>3, <3>1, <3>2
    <2> QED BY <2>1, <2>2
  <1>8. \A i, j \in 1..Len(k) : k[i][1] = k[j][1] => i = j
    <2> SUFFICES ASSUME NEW i \in 1..Len(k), NEW j \in 1..Len(k), k[i][1] = k[j][1] PROVE i = j
      OBVIOUS
    <2>1. CASE k[i][1] \in E
      <3>1. i \in 1..m /\ j \in 1..m
        BY <1>1, <1>7, <2>1
      <3> QED BY <1>2, <1>6, <3>1 DEF m
    <2>2. CASE k[i][1] \in R
      <3>1. i - m \in 1..Len(b) /\ j - m \in 1..Len(b) /\ k[i] = b[i - m] /\ k[j] = b[j - m]
        BY <1>1, <1>7, <2>2
      <3>2. i - m = j - m
        BY <1>3, <3>1
      <3> QED BY <1>6, <3>2
    <2> QED BY <1>7, <2>1, <2>2
  <1>9. \A f \in E : \E i \in 1..m : k[i][1] = f
    BY <1>2, <1>6 DEF m
  <1>10. ASSUME NEW f \in R PROVE \E i \in 1..Len(k) : k[i][1] = f
    <2>1. PICK i \in 1..Len(b) : b[i][1] = f
      BY <1>3
    <2>2. m + i \in 1..Len(k) /\ k[m + i] = b[i]
      BY <1>6
    <2> QED BY <2>1, <2>2
  <1>11. Derivation!FieldsOf(k) = E \cup R
    <2>1. DOMAIN k = 1..Len(k)
      BY <1>6
    <2>2. \A f : f \in Derivation!FieldsOf(k) <=> \E i \in 1..Len(k) : f = k[i][1]
      BY <2>1, Zenon DEF Derivation!FieldsOf
    <2>3. \A i \in 1..m : i \in 1..Len(k)
      BY <1>6
    <2> QED BY <1>7, <1>9, <1>10, <2>2, <2>3
  <1>12. Derivation!FieldsOf(SubSeq(k, 1, m)) = E
    <2> DEFINE t == SubSeq(k, 1, m)
    <2>1. DOMAIN t = 1..m /\ \A i \in 1..m : t[i] = k[i]
      BY <1>6
    <2> HIDE DEF t
    <2>2. \A f : f \in Derivation!FieldsOf(t) <=> \E i \in 1..m : f = k[i][1]
      BY <2>1, Zenon DEF Derivation!FieldsOf
    <2>3. \A i \in 1..m : k[i][1] \in E
      BY <1>2, <1>6 DEF m
    <2> QED BY <1>9, <2>2, <2>3 DEF t
  <1>13. Cardinality(E \cup R) = Len(k)
    <2> DEFINE g == [i \in 1..Len(k) |-> k[i][1]]
    <2>1. g \in [1..Len(k) -> E \cup R]
      BY <1>7
    <2>2. \A i, j \in 1..Len(k) : g[i] = g[j] => i = j
      BY <1>8
    <2>3. \A f \in E \cup R : \E i \in 1..Len(k) : g[i] = f
      BY <1>6, <1>9, <1>10
    <2> HIDE DEF g
    <2>4. g \in Bijection(1..Len(k), E \cup R)
      BY <2>1, <2>2, <2>3, Zenon DEF Bijection, Injection, Surjection, IsInjective
    <2>5. Len(k) \in Nat
      BY <1>6
    <2> QED BY <2>4, <2>5, FS_CountingElements, Zenon DEF ExistsBijection
  <1> QED BY <1>2, <1>6, <1>11, <1>12, <1>13 DEF k, E, R, m

\* The shapes whose namespace may be touched
Shapes == {s \in inputs : s.namespace \in DOMAIN metadata}

\* What _definitions skips as derived before
DerivedBefore(shape, keys) ==
    \E s \in Shapes :
        /\ s.id < shape.id
        /\ \E k \in Derivation!Lacking(s) : Derivation!fingerprint(s, k) = Derivation!fingerprint(shape, keys)

\* What each stage of create_for_run has left for the next
DerivationInv ==
    /\ queries \in Workloads
    /\ derivation_pc \in {"load", "metadata", "define", "done"}
    /\ derivation_pc # "load" =>
        inputs = {Derivation!canonicalize(q) : q \in {p \in queries : Derivation!Referenced(p)}}
    /\ derivation_pc \in {"define", "done"} =>
        metadata = [n \in {s.namespace : s \in inputs} \cap allowlisted \cap accessible |-> catalog[n]]
    /\ definitions =
        IF derivation_pc # "done" THEN {}
        ELSE UNION {{Derivation!Definition(s, keys) : keys \in {k \in Derivation!Lacking(s) : ~DerivedBefore(s, k)}}
                    : s \in Shapes}

\* A shape that was loaded is the canonical form of a query that was referenced.
LEMMA ShapeOfQuery ==
    ASSUME DerivationInv, derivation_pc = "done", NEW s \in Shapes
    PROVE  \E q \in queries :
            /\ Observed(q) /\ Derivation!Referenced(q) /\ s = Derivation!canonicalize(q)
            /\ s.id = q.id /\ s.namespace = q.namespace
            /\ s.namespace \in allowlisted \cap accessible /\ metadata[s.namespace] = catalog[s.namespace]
  <1>1. PICK q \in queries : Derivation!Referenced(q) /\ s = Derivation!canonicalize(q)
    BY Zenon DEF Shapes, DerivationInv
  <1>2. Observed(q)
    BY DerivingConstants DEF Observed, DerivationInv, Derivation!DerivationConstants
  <1>3. s.id = q.id /\ s.namespace = q.namespace
    BY <1>1, <1>2 DEF Derivation!canonicalize, Observed, Derivation!Query
  <1>4. s.namespace \in allowlisted \cap accessible /\ metadata[s.namespace] = catalog[s.namespace]
    BY DEF Shapes, DerivationInv
  <1> QED BY <1>1, <1>2, <1>3, <1>4

\* A candidate is what generate makes of the shape of one query, and the first of its kind.
LEMMA CandidateOfQuery ==
    ASSUME DerivationInv, derivation_pc = "done", NEW d \in definitions
    PROVE  \E s \in Shapes, q \in queries :
            /\ Observed(q) /\ Derivation!Referenced(q) /\ s = Derivation!canonicalize(q)
            /\ s.id = q.id /\ s.namespace = q.namespace /\ Derivation!QueryOf(d) = q
            /\ s.namespace \in allowlisted \cap accessible
            /\ Len(KeysOf(q)) \in 1..5 /\ KeysOf(q) \notin catalog[s.namespace]
            /\ d = Derivation!Definition(s, KeysOf(q)) /\ ~DerivedBefore(s, KeysOf(q))
            /\ KeysOf(q) \in Derivation!Lacking(s)
  <1>1. PICK s \in Shapes : \E k \in Derivation!Lacking(s) : ~DerivedBefore(s, k) /\ d = Derivation!Definition(s, k)
    BY Zenon DEF DerivationInv
  <1>2. PICK k \in Derivation!Lacking(s) : ~DerivedBefore(s, k) /\ d = Derivation!Definition(s, k)
    BY <1>1
  <1>3. PICK q \in queries :
            /\ Observed(q) /\ Derivation!Referenced(q) /\ s = Derivation!canonicalize(q)
            /\ s.id = q.id /\ s.namespace = q.namespace
            /\ s.namespace \in allowlisted \cap accessible /\ metadata[s.namespace] = catalog[s.namespace]
    BY ShapeOfQuery
  <1>4. k \in Derivation!generate(Derivation!find_fields(s)) /\ k \notin metadata[s.namespace]
    BY <1>2, Zenon DEF Derivation!Lacking
  <1>5. k = KeysOf(q) /\ Len(KeysOf(q)) \in 1..5
    BY <1>3, <1>4, GeneratedKeys
  <1>6. d.shape = q.id
    BY <1>2, <1>3 DEF Derivation!Definition
  <1>7. \A p \in queries : p.id = q.id => p = q
    BY DerivingConstants DEF DerivationInv, Derivation!DerivationConstants
  <1>8. Derivation!QueryOf(d) = q
    BY <1>6, <1>7 DEF Derivation!QueryOf
  <1> QED BY <1>2, <1>3, <1>4, <1>5, <1>8

\* A candidate follows its query and stays inside what the run may touch.
LEMMA CandidateFollows ==
    ASSUME DerivationInv, derivation_pc = "done", NEW d \in definitions
    PROVE  Derivation!FollowsQuery(d) /\ Derivation!StaysInside(d)
  <1>1. PICK s \in Shapes, q \in queries :
            /\ Observed(q) /\ Derivation!Referenced(q) /\ s = Derivation!canonicalize(q)
            /\ s.id = q.id /\ s.namespace = q.namespace /\ Derivation!QueryOf(d) = q
            /\ s.namespace \in allowlisted \cap accessible
            /\ Len(KeysOf(q)) \in 1..5 /\ KeysOf(q) \notin catalog[s.namespace]
            /\ d = Derivation!Definition(s, KeysOf(q)) /\ ~DerivedBefore(s, KeysOf(q))
            /\ KeysOf(q) \in Derivation!Lacking(s)
    BY CandidateOfQuery
  <1> DEFINE k == KeysOf(q)
  <1>2. d.keys = k /\ d.namespace = s.namespace
    BY <1>1 DEF Derivation!Definition
  <1>3. Derivation!Filtered(q, "equality") = Equal(q) /\ Derivation!Named(q) = Equal(q) \cup Ranged(q)
    <2>1. q.filter \in [Fields -> {"none", "equality", "range"}]
      BY <1>1 DEF Observed, Derivation!Query, Derivation!FilterClass
    <2> QED BY <2>1 DEF Derivation!Filtered, Derivation!Named, Equal, Ranged
  <1>4. /\ Derivation!FieldsOf(k) = Equal(q) \cup Ranged(q)
        /\ Derivation!FieldsOf(SubSeq(k, 1, Cardinality(Equal(q)))) = Equal(q)
        /\ Cardinality(Equal(q) \cup Ranged(q)) = Len(k)
    BY <1>1, DerivingConstants, KeysFollowQuery
  <1>5. Len(k) <= 5
    <2>1. Len(k) \in 1..5
      BY <1>1, Zenon
    <2>2. \A n \in 1..5 : n <= 5
      OBVIOUS
    <2> QED BY <2>1, <2>2, Zenon
  <1> HIDE DEF k
  <1>6. Derivation!FollowsQuery(d)
    BY <1>1, <1>2, <1>3, <1>4, <1>5, SameCount DEF Derivation!FollowsQuery
  <1>7. Derivation!StaysInside(d)
    BY <1>1, <1>2 DEF Derivation!StaysInside, k
  <1> QED BY <1>6, <1>7

\* Two candidates of a run have different fingerprints: of those with the same, the one of the
\* least id is derived.
LEMMA FingerprintsDiffer ==
    ASSUME DerivationInv, derivation_pc = "done", NEW d \in definitions, NEW e \in definitions,
           d.fingerprint = e.fingerprint
    PROVE  d = e
  <1>1. PICK s \in Shapes, q \in queries :
            /\ Observed(q) /\ s = Derivation!canonicalize(q) /\ s.id = q.id
            /\ d = Derivation!Definition(s, KeysOf(q)) /\ ~DerivedBefore(s, KeysOf(q))
            /\ KeysOf(q) \in Derivation!Lacking(s)
    BY CandidateOfQuery
  <1>2. PICK t \in Shapes, p \in queries :
            /\ Observed(p) /\ t = Derivation!canonicalize(p) /\ t.id = p.id
            /\ e = Derivation!Definition(t, KeysOf(p)) /\ ~DerivedBefore(t, KeysOf(p))
            /\ KeysOf(p) \in Derivation!Lacking(t)
    BY CandidateOfQuery
  <1>3. Derivation!fingerprint(s, KeysOf(q)) = Derivation!fingerprint(t, KeysOf(p))
    BY <1>1, <1>2 DEF Derivation!Definition
  <1>4. ~(s.id < t.id) /\ ~(t.id < s.id)
    BY <1>1, <1>2, <1>3 DEF DerivedBefore
  <1>5. q.id \in Nat /\ p.id \in Nat
    BY <1>1, <1>2 DEF Observed, Derivation!Query
  <1>6. q.id = p.id
    BY <1>1, <1>2, <1>4, <1>5
  <1>7. q = p
    BY <1>6, DerivingConstants DEF DerivationInv, Derivation!DerivationConstants
  <1> QED BY <1>1, <1>2, <1>7

\* Queries of one namespace with the same fingerprint have the same canonical content, which a
\* namespace holds once.
LEMMA NoneDerivedBefore ==
    ASSUME DerivationInv, derivation_pc = "done", NEW q \in queries, Observed(q),
           Derivation!canonicalize(q) \in Shapes
    PROVE  ~DerivedBefore(Derivation!canonicalize(q), KeysOf(q))
  <1> DEFINE s == Derivation!canonicalize(q)
  <1> SUFFICES ASSUME DerivedBefore(s, KeysOf(q)) PROVE FALSE
    OBVIOUS
  <1>1. PICK t \in Shapes : t.id < s.id /\ \E k \in Derivation!Lacking(t) :
                                Derivation!fingerprint(t, k) = Derivation!fingerprint(s, KeysOf(q))
    BY Zenon DEF DerivedBefore
  <1>2. PICK p \in queries : Observed(p) /\ t = Derivation!canonicalize(p) /\ t.id = p.id
    BY ShapeOfQuery
  <1>3. t.namespace = s.namespace /\ t.find = s.find /\ t.filter = s.filter /\ t.sort = s.sort
    BY <1>1 DEF Derivation!fingerprint
  <1>4. /\ s.id = q.id /\ s.namespace = q.namespace /\ s.find = q.find /\ s.filter = q.filter
        /\ s.sort = Derivation!FieldsOf(q.sort) \X {0}
    BY DEF Observed, Derivation!Query, Derivation!canonicalize, Derivation!Token
  <1>5. /\ t.namespace = p.namespace /\ t.find = p.find /\ t.filter = p.filter
        /\ t.sort = Derivation!FieldsOf(p.sort) \X {0}
    BY <1>2 DEF Observed, Derivation!Query, Derivation!canonicalize, Derivation!Token
  <1>6. Derivation!FieldsOf(p.sort) = Derivation!FieldsOf(q.sort)
    <2> DEFINE A == Derivation!FieldsOf(p.sort)
               B == Derivation!FieldsOf(q.sort)
    <2>1. A \X {0} = B \X {0}
      BY <1>3, <1>4, <1>5, Zenon
    <2> HIDE DEF A, B
    <2>2. \A f : f \in A <=> <<f, 0>> \in A \X {0}
      OBVIOUS
    <2>3. \A f : f \in B <=> <<f, 0>> \in B \X {0}
      OBVIOUS
    <2>4. A = B
      BY <2>1, <2>2, <2>3
    <2> QED BY <2>4 DEF A, B
  <1> HIDE DEF s
  <1>7. Derivation!SameShape(p, q)
    BY <1>3, <1>4, <1>5, <1>6 DEF Derivation!SameShape
  <1>8. p = q
    BY <1>7, DerivingConstants DEF DerivationInv, Derivation!DerivationConstants
  <1>9. q.id \in Nat
    BY DEF Observed, Derivation!Query
  <1> QED BY <1>1, <1>2, <1>4, <1>8, <1>9

\* _load_inputs: a protected find is derived from whatever the diagnosis says.
LEMMA NothingVetoed ==
    ASSUME DerivationInv
    PROVE  Derivation!NoHiddenVeto
  <1> SUFFICES ASSUME derivation_pc = "done", NEW q \in queries,
                      q.find /\ q.protected /\ q.namespace \in allowlisted \cap accessible,
                      Derivation!Named(q) # {},
                      Derivation!Cardinality(Derivation!Named(q) \cup Derivation!FieldsOf(q.sort)) <= 5
               PROVE  \/ \E d \in definitions : d.shape = q.id
                      \/ \E keys \in catalog[q.namespace] : Derivation!Named(q) \subseteq Derivation!FieldsOf(keys)
    BY Zenon DEF Derivation!NoHiddenVeto
  <1> DEFINE s == Derivation!canonicalize(q)
             k == KeysOf(q)
  <1>1. Observed(q)
    BY DerivingConstants DEF Observed, DerivationInv, Derivation!DerivationConstants
  <1>2. s.id = q.id /\ s.namespace = q.namespace
    BY <1>1 DEF Derivation!canonicalize, Observed, Derivation!Query
  <1>3. s \in inputs
    BY Zenon DEF Derivation!Referenced, DerivationInv
  <1>4. s \in Shapes /\ metadata[q.namespace] = catalog[q.namespace]
    <2> HIDE DEF s
    <2>1. s.namespace \in {x.namespace : x \in inputs}
      BY <1>3
    <2> QED BY <1>2, <1>3, <2>1 DEF Shapes, DerivationInv
  <1>5. Derivation!Named(q) = Equal(q) \cup Ranged(q)
    <2>1. q.filter \in [Fields -> {"none", "equality", "range"}]
      BY <1>1 DEF Observed, Derivation!Query, Derivation!FilterClass
    <2> QED BY <2>1 DEF Derivation!Filtered, Derivation!Named, Equal, Ranged
  <1>6. Derivation!FieldsOf(k) = Equal(q) \cup Ranged(q) /\ Cardinality(Equal(q) \cup Ranged(q)) = Len(k) /\ Len(k) \in Nat
    BY <1>1, DerivingConstants, KeysFollowQuery
  <1>7. Len(k) \in 1..5
    <2> DEFINE N == Equal(q) \cup Ranged(q)
               F == Derivation!FieldsOf(q.sort)
    <2>1. IsFiniteSet(Fields)
      BY DerivingConstants, Zenon DEF Derivation!DerivationConstants, Derivation!IsFiniteSet, IsFiniteSet
    <2>2. N \in SUBSET Fields
      BY DEF Equal, Ranged
    <2>3. F \in SUBSET Fields
      <3>1. q.sort \in Seq(Fields \X {1, -1})
        BY <1>1 DEF Observed, Derivation!Query
      <3>2. \A i \in DOMAIN q.sort : q.sort[i] \in Fields \X {1, -1}
        BY <3>1
      <3>3. \A i \in DOMAIN q.sort : q.sort[i][1] \in Fields
        BY <3>2
      <3> QED BY <3>3, Zenon DEF Derivation!FieldsOf
    <2> HIDE DEF F
    <2>4. IsFiniteSet(N \cup F) /\ IsFiniteSet(N)
      BY <2>1, <2>2, <2>3, FS_Subset
    <2>5. Cardinality(N) <= Cardinality(N \cup F)
      BY <2>4, FS_Subset
    <2>6. Cardinality(N \cup F) <= 5 /\ Cardinality(N \cup F) \in Nat
      BY <1>5, <2>4, SameCount, FS_CardinalityType DEF F
    <2>7. Cardinality(N) # 0
      BY <1>5, <2>4, FS_EmptySet
    <2>8. Cardinality(N) = Len(k) /\ Len(k) \in Nat
      BY <1>6, Zenon
    <2> HIDE DEF N, k
    <2> QED BY <2>5, <2>6, <2>7, <2>8
  <1>8. k \in Derivation!generate(Derivation!find_fields(s))
    BY <1>1, <1>7, GeneratedKeys
  <1>9. CASE k \in catalog[q.namespace]
    BY <1>5, <1>6, <1>9, Zenon
  <1>10. CASE k \notin catalog[q.namespace]
    <2>1. k \in Derivation!Lacking(s)
      BY <1>2, <1>4, <1>8, <1>10 DEF Derivation!Lacking
    <2>2. ~DerivedBefore(s, k)
      BY <1>1, <1>4, NoneDerivedBefore
    <2>3. Derivation!Definition(s, k) \in definitions
      <3>1. definitions = UNION {{Derivation!Definition(t, keys) :
                                    keys \in {x \in Derivation!Lacking(t) : ~DerivedBefore(t, x)}} : t \in Shapes}
        BY DEF DerivationInv
      <3> HIDE DEF s, k
      <3>2. Derivation!Definition(s, k) \in {Derivation!Definition(s, keys) :
                                keys \in {x \in Derivation!Lacking(s) : ~DerivedBefore(s, x)}}
        BY <2>1, <2>2
      <3> QED BY <1>4, <3>1, <3>2
    <2>4. Derivation!Definition(s, k).shape = q.id
      BY <1>2 DEF Derivation!Definition
    <2> QED BY <2>3, <2>4
  <1> QED BY <1>9, <1>10

\* What the stages leave to each other makes the derivation sound.
LEMMA DerivedIsSound == DerivationInv => DerivationIsSound
  <1> SUFFICES ASSUME DerivationInv PROVE DerivationIsSound
    OBVIOUS
  <1>1. CASE derivation_pc # "done"
    <2>1. definitions = {}
      BY <1>1 DEF DerivationInv
    <2> QED BY <1>1, <2>1 DEF DerivationIsSound, Derivation!DerivationIsSound, Derivation!NoHiddenVeto
  <1>2. CASE derivation_pc = "done"
    <2>1. \A d \in definitions : Derivation!FollowsQuery(d) /\ Derivation!StaysInside(d)
      BY <1>2, CandidateFollows
    <2>2. \A d, e \in definitions : d.fingerprint = e.fingerprint => d = e
      BY <1>2, FingerprintsDiffer
    <2> QED BY <2>1, <2>2, NothingVetoed DEF DerivationIsSound, Derivation!DerivationIsSound
  <1> QED BY <1>1, <1>2

\* create_for_run: each stage reads what the one before left.
LEMMA DerivationNextStep == DerivationInv /\ [AllNext]_allvars => DerivationInv'
  <1> SUFFICES ASSUME DerivationInv, [AllNext]_allvars PROVE DerivationInv'
    OBVIOUS
  <1>1. CASE UNCHANGED derivation_vars
    <2>1. UNCHANGED <<queries, findings, allowlisted, accessible, catalog, derivation_pc, inputs, metadata, definitions>>
      BY <1>1 DEF derivation_vars
    <2> QED BY <2>1 DEF DerivationInv, DerivedBefore, Shapes, Derivation!Lacking, Derivation!Referenced
  <1>2. CASE Derivation!load_inputs
    BY <1>2 DEF Derivation!load_inputs, DerivationInv, Derivation!Referenced
  <1>3. CASE Derivation!index_metadata
    BY <1>3 DEF Derivation!index_metadata, DerivationInv, Derivation!Referenced
  <1>4. CASE Derivation!define
    <2>1. /\ derivation_pc = "define" /\ derivation_pc' = "done"
          /\ UNCHANGED <<queries, findings, allowlisted, accessible, catalog, inputs, metadata>>
      BY <1>4 DEF Derivation!define
    <2>2. definitions' = UNION {{Derivation!Definition(s, keys) :
                                    keys \in {k \in Derivation!Lacking(s) : ~DerivedBefore(s, k)}} : s \in Shapes}
      BY <1>4, Zenon DEF Derivation!define, DerivedBefore, Shapes
    <2>3. Shapes' = Shapes /\ \A s : Derivation!Lacking(s)' = Derivation!Lacking(s)
      BY <2>1 DEF Shapes, Derivation!Lacking
    <2>4. \A s, k : DerivedBefore(s, k)' <=> DerivedBefore(s, k)
      BY <2>1 DEF DerivedBefore, Shapes, Derivation!Lacking
    <2> QED BY <2>1, <2>2, <2>3, <2>4 DEF DerivationInv, Derivation!Referenced
  <1> QED BY <1>1, <1>2, <1>3, <1>4 DEF AllNext, allvars, Derivation!Next

\* create_for_run of the candidates, for every workload, catalog and diagnosis: each candidate
\* is an index for one query of the run, of what it compares for equality first and of at most
\* five fields, in a namespace that may be touched and does not have it; none is derived
\* twice; and a protected find gets one whatever the advisory model said.
THEOREM DerivationStaysSound == AllSpec => []DerivationIsSound
  <1>1. AllInit => DerivationInv
    BY DEF AllInit, Derivation!Init, DerivationInv
  <1>2. DerivationInv /\ [AllNext]_allvars => DerivationInv'
    BY DerivationNextStep
  <1>3. DerivationInv => DerivationIsSound
    BY DerivedIsSound
  <1> QED BY <1>1, <1>2, <1>3, PTL DEF AllSpec
=============================================================================
