-------------------------- MODULE OperationsProofs --------------------------
(***************************************************************************)
(* Proofs about the experiments, the pairs and the migrations of           *)
(* MCOperations: for every set of constituents, datasets and indexes, and  *)
(* every number of launches, faults and invalidations, evidence that       *)
(* passed is whole and is measured once; and for every set of runners and  *)
(* every sequence of commands, crashes and writes, the schema is the one   *)
(* its revision says.                                                      *)
(***************************************************************************)
EXTENDS MCOperations, FiniteSetTheorems, NaturalsInduction, TLAPS

-----------------------------------------------------------------------------
(* The pairs of benchmark arms *)

\* What the arm of a pair has to begin from
Started(a) ==
    [arm |-> a, data |-> call.profile, dirty |-> {},
     indexes |-> IF a = "candidate" THEN {call.setup} \ {Benchmark!None} ELSE {}]

Resetting == {"reset", "drop", "insert", "planned"}
DeltaPoints == {"unindex", "delete", "orders", "inventory", "digest"}
ArmPoints == {"setup", "measure", "measured"}

\* The arms that have not begun
Ahead == {arms[i] : i \in DOMAIN arms}
AheadOfNext == {arms[i] : i \in DOMAIN arms \ {1}}

\* The arms of a call: none, one left, or both in either order
Orders == {<<"baseline">>, <<"candidate">>, <<"baseline", "candidate">>, <<"candidate", "baseline">>}

\* Where a call of a pair is, its arms up to there have begun as they have to
PairProgress ==
    /\ (b_pc \in Resetting /\ call.pair) \/ b_pc \in DeltaPoints \cup {"setup"} =>
          arms \in Orders /\ begun = {Started(a) : a \in Benchmark!Arms \ Ahead}
    /\ b_pc \in {"measure", "measured"} =>
          arms \in Orders /\ begun = {Started(a) : a \in Benchmark!Arms \ AheadOfNext}
    /\ b_pc = "persist" => begun = {Started(a) : a \in Benchmark!Arms}

\* What the resets have established
ResetProgress ==
    /\ b_pc # "idle" => call.profile \in Profiles
    /\ b_pc \in DeltaPoints => plan = call.profile
    /\ b_pc = "insert" => dirty = {} /\ indexes = {}
    /\ b_pc = "setup" => Benchmark!Pristine(call.profile)
    /\ b_pc \in DeltaPoints \cup ArmPoints \cup {"reset", "persist"} => call.pair

PairInv == Benchmark!TypeOK /\ ResetProgress /\ PairProgress /\ Benchmark!ArmsBeginEqual

-----------------------------------------------------------------------------

\* No executor has been called yet.
LEMMA PairInit == Benchmark!Init => PairInv
    BY OperationsConstants DEF Benchmark!PairConstants, Benchmark!Init, PairInv, Benchmark!TypeOK, Benchmark!Calls,
        ResetProgress, PairProgress, Benchmark!ArmsBeginEqual, DeltaPoints, ArmPoints, Resetting

\* The step of an arm takes one of the arms that have not begun.
LEMMA NextOfArms ==
    ASSUME arms \in Orders
    PROVE  /\ Head(arms) \in Benchmark!Arms /\ arms # <<>>
           /\ Benchmark!Arms \ AheadOfNext = (Benchmark!Arms \ Ahead) \cup {Head(arms)}
           /\ Tail(arms) \in Orders => {Tail(arms)[i] : i \in DOMAIN Tail(arms)} = AheadOfNext
           /\ Tail(arms) \in Orders \cup {<<>>}
           /\ Tail(arms) = <<>> => AheadOfNext = {}
<1>1. CASE arms = <<"baseline">>
    BY <1>1 DEF Ahead, AheadOfNext, Orders, Benchmark!Arms
<1>2. CASE arms = <<"candidate">>
    BY <1>2 DEF Ahead, AheadOfNext, Orders, Benchmark!Arms
<1>3. CASE arms = <<"baseline", "candidate">>
  <2>1. Head(arms) = "baseline" /\ Tail(arms) = <<"candidate">> /\ arms # <<>>
      BY <1>3
  <2>2. Ahead = {"baseline", "candidate"} /\ AheadOfNext = {"candidate"}
      BY <1>3 DEF Ahead, AheadOfNext
  <2> QED
      BY <2>1, <2>2 DEF Orders, Benchmark!Arms
<1>4. CASE arms = <<"candidate", "baseline">>
  <2>1. Head(arms) = "candidate" /\ Tail(arms) = <<"baseline">> /\ arms # <<>>
      BY <1>4
  <2>2. Ahead = {"baseline", "candidate"} /\ AheadOfNext = {"baseline"}
      BY <1>4 DEF Ahead, AheadOfNext
  <2> QED
      BY <2>1, <2>2 DEF Orders, Benchmark!Arms
<1> QED
    BY <1>1, <1>2, <1>3, <1>4 DEF Orders

\* Every step keeps the types.
LEMMA PairTypes ==
    ASSUME PairInv, [Benchmark!Next]_(Benchmark!vars)
    PROVE  Benchmark!TypeOK'
<1> USE OperationsConstants
    DEF Benchmark!PairConstants, PairInv, Benchmark!TypeOK, Benchmark!database, Benchmark!executor, Benchmark!bounds
<1>1. ASSUME NEW profile \in Profiles, NEW setup \in Benchmark!Names \cup {Benchmark!None},
             Benchmark!run_pair(profile, setup)
      PROVE  Benchmark!TypeOK'
  <2>1. <<"baseline", "candidate">> \in Seq(Benchmark!Arms) /\ <<"candidate", "baseline">> \in Seq(Benchmark!Arms)
      BY DEF Benchmark!Arms
  <2>2. call' \in Benchmark!Calls
      BY <1>1 DEF Benchmark!run_pair, Benchmark!Called, Benchmark!Calls
  <2>3. b_calls' \in 0..MaxPairCalls
      BY <1>1 DEF Benchmark!run_pair, Benchmark!Called
  <2> QED
      BY <1>1, <2>1, <2>2, <2>3 DEF Benchmark!run_pair, Benchmark!Called
<1>2. ASSUME NEW profile \in Profiles, Benchmark!materialize_and_count(profile)
      PROVE  Benchmark!TypeOK'
  <2>1. call' \in Benchmark!Calls
      BY <1>2 DEF Benchmark!materialize_and_count, Benchmark!Called, Benchmark!Calls
  <2> QED
      BY <1>2, <2>1 DEF Benchmark!materialize_and_count, Benchmark!Called
<1>3. ASSUME Benchmark!reset \/ Benchmark!restore_drops \/ Benchmark!drop_optimizer_indexes
                \/ Benchmark!observed_digest \/ Benchmark!measure
      PROVE  Benchmark!TypeOK'
    BY <1>3 DEF Benchmark!reset, Benchmark!restore_drops, Benchmark!drop_optimizer_indexes,
        Benchmark!observed_digest, Benchmark!measure, Benchmark!Goes
<1>4. ASSUME Benchmark!delta_reset_writes
      PROVE  Benchmark!TypeOK'
    BY <1>4 DEF Benchmark!delta_reset_writes, Benchmark!Goes
<1>5. ASSUME Benchmark!restore_inserts \/ Benchmark!build_reset_plan
      PROVE  Benchmark!TypeOK'
    BY <1>5 DEF Benchmark!restore_inserts, Benchmark!build_reset_plan, Benchmark!Goes, Benchmark!Calls
<1>6. ASSUME Benchmark!candidate_setup
      PROVE  Benchmark!TypeOK'
  <2>1. Head(arms) \in Benchmark!Arms
      BY <1>6, NextOfArms DEF Benchmark!candidate_setup, PairProgress
  <2>2. {call.setup} \ {Benchmark!None} \subseteq Benchmark!Names
      BY DEF Benchmark!Calls
  <2>3. indexes' \subseteq Benchmark!Names
      BY <1>6, <2>2 DEF Benchmark!candidate_setup
  <2>4. [arm |-> Head(arms), data |-> data, dirty |-> dirty, indexes |-> indexes'] \in Benchmark!Starts
      BY <2>1, <2>3 DEF Benchmark!Starts
  <2>5. begun' \subseteq Benchmark!Starts
      BY <1>6, <2>4 DEF Benchmark!candidate_setup
  <2> QED
      BY <1>6, <2>3, <2>5 DEF Benchmark!candidate_setup
<1>7. ASSUME Benchmark!next_arm
      PROVE  Benchmark!TypeOK'
  <2>1. arms # <<>>
      BY <1>7, NextOfArms DEF Benchmark!next_arm, PairProgress
  <2>2. arms' \in Seq(Benchmark!Arms)
      BY <1>7, <2>1 DEF Benchmark!next_arm
  <2> QED
      BY <1>7, <2>2 DEF Benchmark!next_arm
<1>8. ASSUME Benchmark!persist
      PROVE  Benchmark!TypeOK'
  <2>1. [profile |-> call.profile, setup |-> call.setup, begun |-> begun]
           \in [profile : Profiles, setup : Benchmark!Names \cup {Benchmark!None}, begun : SUBSET Benchmark!Starts]
      BY <1>8 DEF Benchmark!persist, ResetProgress, Benchmark!Calls
  <2> QED
      BY <1>8, <2>1 DEF Benchmark!persist
<1>9. ASSUME Benchmark!command_fails \/ Benchmark!process_dies
      PROVE  Benchmark!TypeOK'
    BY <1>9 DEF Benchmark!command_fails, Benchmark!process_dies, Benchmark!Fault
<1>10. CASE UNCHANGED Benchmark!vars
    BY <1>10 DEF Benchmark!vars
<1> QED
    BY <1>1, <1>2, <1>3, <1>4, <1>5, <1>6, <1>7, <1>8, <1>9, <1>10 DEF Benchmark!Next

\* A reset establishes what the next point of its call rests on.
LEMMA PairResets ==
    ASSUME PairInv, [Benchmark!Next]_(Benchmark!vars)
    PROVE  ResetProgress'
<1> USE OperationsConstants
    DEF Benchmark!PairConstants, PairInv, Benchmark!TypeOK, Benchmark!database, Benchmark!executor, Benchmark!bounds,
        ResetProgress, Benchmark!Goes, Benchmark!Pristine, DeltaPoints, ArmPoints
<1>1. ASSUME NEW profile \in Profiles, NEW setup \in Benchmark!Names \cup {Benchmark!None},
             Benchmark!run_pair(profile, setup) \/ Benchmark!materialize_and_count(profile)
      PROVE  ResetProgress'
    BY <1>1 DEF Benchmark!run_pair, Benchmark!materialize_and_count, Benchmark!Called
<1>2. ASSUME Benchmark!reset
      PROVE  ResetProgress'
    BY <1>2 DEF Benchmark!reset, Benchmark!NeedsRestore
<1>3. ASSUME Benchmark!restore_drops \/ Benchmark!drop_optimizer_indexes \/ Benchmark!measure
      PROVE  ResetProgress'
    BY <1>3 DEF Benchmark!restore_drops, Benchmark!drop_optimizer_indexes, Benchmark!measure
<1>4. ASSUME Benchmark!delta_reset_writes
      PROVE  ResetProgress'
    BY <1>4 DEF Benchmark!delta_reset_writes
<1>5. ASSUME Benchmark!restore_inserts
      PROVE  ResetProgress'
    BY <1>5 DEF Benchmark!restore_inserts
<1>6. ASSUME Benchmark!build_reset_plan
      PROVE  ResetProgress'
    BY <1>6 DEF Benchmark!build_reset_plan
<1>7. ASSUME Benchmark!observed_digest
      PROVE  ResetProgress'
    BY <1>7 DEF Benchmark!observed_digest
<1>8. ASSUME Benchmark!candidate_setup \/ Benchmark!next_arm \/ Benchmark!persist
      PROVE  ResetProgress'
    BY <1>8 DEF Benchmark!candidate_setup, Benchmark!next_arm, Benchmark!persist
<1>9. ASSUME Benchmark!command_fails \/ Benchmark!process_dies
      PROVE  ResetProgress'
    BY <1>9 DEF Benchmark!command_fails, Benchmark!process_dies, Benchmark!Fault
<1>10. CASE UNCHANGED Benchmark!vars
    BY <1>10 DEF Benchmark!vars
<1> QED
    BY <1>1, <1>2, <1>3, <1>4, <1>5, <1>6, <1>7, <1>8, <1>9, <1>10 DEF Benchmark!Next

\* What has begun and is ahead is left by the steps between two arms.
LEMMA ProgressKept ==
    ASSUME PairInv, UNCHANGED <<call, arms, begun>>,
           (b_pc \in Resetting /\ call.pair) \/ b_pc \in DeltaPoints,
           b_pc' \in Resetting \cup DeltaPoints \cup {"setup", "idle"}
    PROVE  PairProgress'
<1>1. arms \in Orders /\ begun = {Started(a) : a \in Benchmark!Arms \ Ahead}
    BY DEF PairInv, PairProgress
<1>2. Ahead' = Ahead /\ \A a \in Benchmark!Arms : Started(a)' = Started(a)
    BY DEF Ahead, Started
<1>3. arms' \in Orders /\ begun' = {Started(a)' : a \in Benchmark!Arms \ Ahead'}
    BY <1>1, <1>2
<1>4. b_pc' \notin {"measure", "measured", "persist"}
    BY DEF Resetting, DeltaPoints
<1> QED
    BY <1>3, <1>4 DEF PairProgress

\* An arm begins where the reset before it left the database, and the next one is reset again.
LEMMA PairArms ==
    ASSUME PairInv, [Benchmark!Next]_(Benchmark!vars)
    PROVE  PairProgress' /\ Benchmark!ArmsBeginEqual'
<1> USE DEF Benchmark!database, Benchmark!executor, Benchmark!bounds
<1>0. ASSUME UNCHANGED persisted PROVE Benchmark!ArmsBeginEqual'
    BY <1>0 DEF PairInv, Benchmark!ArmsBeginEqual
<1>1. ASSUME NEW profile \in Profiles, NEW setup \in Benchmark!Names \cup {Benchmark!None},
             Benchmark!run_pair(profile, setup)
      PROVE  PairProgress' /\ Benchmark!ArmsBeginEqual'
  <2>1. arms' \in Orders /\ Benchmark!Arms \ Ahead' = {}
      BY <1>1 DEF Benchmark!run_pair, Ahead, Orders, Benchmark!Arms
  <2> QED
      BY <1>0, <1>1, <2>1 DEF Benchmark!run_pair, Benchmark!Called, PairProgress
<1>2. ASSUME NEW profile \in Profiles, Benchmark!materialize_and_count(profile)
      PROVE  PairProgress' /\ Benchmark!ArmsBeginEqual'
    BY <1>0, <1>2 DEF Benchmark!materialize_and_count, Benchmark!Called, PairProgress, DeltaPoints, Benchmark!Calls,
        PairInv, Benchmark!TypeOK
<1>3. ASSUME Benchmark!reset
      PROVE  PairProgress' /\ Benchmark!ArmsBeginEqual'
  <2>1. call.pair /\ b_pc \in Resetting /\ b_pc' \in {"drop", "unindex"}
      BY <1>3 DEF Benchmark!reset, Benchmark!Goes, PairInv, ResetProgress, Resetting
  <2>2. b_pc' \in Resetting \cup DeltaPoints
      BY <2>1 DEF Resetting, DeltaPoints
  <2> QED
      BY <1>0, <1>3, <2>1, <2>2, ProgressKept DEF Benchmark!reset, Benchmark!Goes
<1>4. ASSUME Benchmark!drop_optimizer_indexes \/ Benchmark!delta_reset_writes \/ Benchmark!observed_digest
      PROVE  PairProgress' /\ Benchmark!ArmsBeginEqual'
  <2>1. b_pc \in DeltaPoints /\ b_pc' \in DeltaPoints \cup {"setup", "idle"} /\ UNCHANGED <<call, arms, begun, persisted>>
      BY <1>4 DEF Benchmark!drop_optimizer_indexes, Benchmark!delta_reset_writes, Benchmark!observed_digest,
          Benchmark!Goes, DeltaPoints
  <2> QED
      BY <1>0, <2>1, ProgressKept
<1>5. ASSUME Benchmark!restore_drops \/ Benchmark!restore_inserts \/ Benchmark!build_reset_plan
      PROVE  PairProgress' /\ Benchmark!ArmsBeginEqual'
  <2>1. /\ b_pc \in Resetting /\ b_pc' \in Resetting \cup {"setup", "unindex", "idle"}
        /\ UNCHANGED <<call, arms, begun, persisted>>
        /\ ~call.pair => b_pc' \in Resetting \cup {"idle"}
      BY <1>5 DEF Benchmark!restore_drops, Benchmark!restore_inserts, Benchmark!build_reset_plan, Benchmark!Goes,
          Resetting
  <2>2. CASE call.pair
    <3>1. b_pc' \in Resetting \cup DeltaPoints \cup {"setup", "idle"}
        BY <2>1 DEF DeltaPoints
    <3> QED
        BY <1>0, <2>1, <2>2, <3>1, ProgressKept
  <2>3. CASE ~call.pair
      BY <1>0, <2>1, <2>3 DEF PairProgress, Resetting, DeltaPoints
  <2> QED
      BY <2>2, <2>3
<1>6. ASSUME Benchmark!candidate_setup
      PROVE  PairProgress' /\ Benchmark!ArmsBeginEqual'
  <2>1. arms \in Orders /\ begun = {Started(a) : a \in Benchmark!Arms \ Ahead} /\ Benchmark!Pristine(call.profile)
      BY <1>6 DEF Benchmark!candidate_setup, PairInv, PairProgress, ResetProgress
  <2>2. /\ Started(Head(arms))' = [arm |-> Head(arms), data |-> data, dirty |-> dirty, indexes |-> indexes']
        /\ \A a \in Benchmark!Arms : Started(a)' = Started(a)
      BY <1>6, <2>1 DEF Benchmark!candidate_setup, Started, Benchmark!Pristine
  <2>3. begun' = begun \cup {Started(Head(arms))'}
      BY <1>6, <2>2 DEF Benchmark!candidate_setup
  <2>4. AheadOfNext' = AheadOfNext /\ arms' \in Orders
      BY <1>6, <2>1 DEF Benchmark!candidate_setup, AheadOfNext
  <2>5. begun' = {Started(a)' : a \in Benchmark!Arms \ AheadOfNext'}
    <3>1. /\ Head(arms) \in Benchmark!Arms /\ arms' = arms
          /\ Benchmark!Arms \ AheadOfNext' = (Benchmark!Arms \ Ahead) \cup {Head(arms)}
        BY <1>6, <2>1, <2>4, NextOfArms DEF Benchmark!candidate_setup
    <3>2. begun' = {Started(a)' : a \in Benchmark!Arms \ Ahead} \cup {Started(Head(arms))'}
        BY <2>1, <2>2, <2>3
    <3> QED
        BY <3>1, <3>2
  <2>6. b_pc' = "measure" /\ UNCHANGED persisted
      BY <1>6 DEF Benchmark!candidate_setup
  <2> QED
      BY <1>0, <2>4, <2>5, <2>6 DEF PairProgress, Resetting, DeltaPoints
<1>7. ASSUME Benchmark!measure
      PROVE  PairProgress' /\ Benchmark!ArmsBeginEqual'
  <2>1. b_pc = "measure" /\ b_pc' = "measured" /\ UNCHANGED <<call, arms, begun, persisted>>
      BY <1>7 DEF Benchmark!measure, Benchmark!Goes
  <2>2. arms \in Orders /\ begun = {Started(a) : a \in Benchmark!Arms \ AheadOfNext}
      BY <2>1 DEF PairInv, PairProgress
  <2>3. AheadOfNext' = AheadOfNext /\ \A a \in Benchmark!Arms : Started(a)' = Started(a)
      BY <2>1 DEF AheadOfNext, Started
  <2> QED
      BY <1>0, <2>1, <2>2, <2>3 DEF PairProgress, Resetting, DeltaPoints
<1>8. ASSUME Benchmark!next_arm
      PROVE  PairProgress' /\ Benchmark!ArmsBeginEqual'
  <2>1. arms \in Orders /\ begun = {Started(a) : a \in Benchmark!Arms \ AheadOfNext}
      BY <1>8 DEF Benchmark!next_arm, PairInv, PairProgress
  <2>2. arms' = Tail(arms) /\ UNCHANGED <<call, begun, persisted>>
      BY <1>8 DEF Benchmark!next_arm
  <2>3. \A a \in Benchmark!Arms : Started(a)' = Started(a)
      BY <2>2 DEF Started
  <2>4. CASE arms' = <<>>
    <3>1. b_pc' = "persist" /\ AheadOfNext = {}
        BY <1>8, <2>1, <2>2, <2>4, NextOfArms DEF Benchmark!next_arm
    <3> QED
        BY <1>0, <2>1, <2>2, <2>3, <3>1 DEF PairProgress, Resetting, DeltaPoints
  <2>5. CASE arms' # <<>>
    <3>1. b_pc' = "reset" /\ arms' \in Orders /\ Ahead' = AheadOfNext
        BY <1>8, <2>1, <2>2, <2>5, NextOfArms DEF Benchmark!next_arm, Ahead
    <3> QED
        BY <1>0, <2>1, <2>2, <2>3, <3>1 DEF PairProgress, Resetting, DeltaPoints
  <2> QED
      BY <2>4, <2>5
<1>9. ASSUME Benchmark!persist
      PROVE  PairProgress' /\ Benchmark!ArmsBeginEqual'
  <2>1. begun = {Started(a) : a \in Benchmark!Arms}
      BY <1>9 DEF Benchmark!persist, PairInv, PairProgress
  <2>2. persisted' = {[profile |-> call.profile, setup |-> call.setup, begun |-> begun]} /\ b_pc' = "idle"
      BY <1>9 DEF Benchmark!persist
  <2>3. Benchmark!ArmsBeginEqual'
      BY <2>1, <2>2 DEF Benchmark!ArmsBeginEqual, Started
  <2> QED
      BY <2>2, <2>3 DEF PairProgress, Resetting, DeltaPoints
<1>10. ASSUME Benchmark!command_fails \/ Benchmark!process_dies
       PROVE  PairProgress' /\ Benchmark!ArmsBeginEqual'
    BY <1>0, <1>10 DEF Benchmark!command_fails, Benchmark!process_dies, Benchmark!Fault, PairProgress, Resetting,
        DeltaPoints
<1>11. CASE UNCHANGED Benchmark!vars
  <2>1. UNCHANGED <<b_pc, call, arms, begun, persisted>>
      BY <1>11 DEF Benchmark!vars
  <2>2. Ahead' = Ahead /\ AheadOfNext' = AheadOfNext /\ \A a \in Benchmark!Arms : Started(a)' = Started(a)
      BY <2>1 DEF Ahead, AheadOfNext, Started
  <2> QED
      BY <1>0, <2>1, <2>2 DEF PairInv, PairProgress
<1> QED
    BY <1>1, <1>2, <1>3, <1>4, <1>5, <1>6, <1>7, <1>8, <1>9, <1>10, <1>11 DEF Benchmark!Next

\* The invariant is inductive.
LEMMA PairStep == PairInv /\ [Benchmark!Next]_(Benchmark!vars) => PairInv'
    BY PairTypes, PairResets, PairArms DEF PairInv

-----------------------------------------------------------------------------
(* The experiments *)

Distinct(s) == \A i, j \in DOMAIN s : s[i] = s[j] => i = j
Elements(s) == {s[i] : i \in DOMAIN s}

\* The constituents whose evidence is there
WithEvidence == {n \in Experiment!Commerce : Experiment!Evidenced(n)}

\* A manifest of all: what it says has passed has its evidence, and it is of one generation
Sound(m, evidenced) ==
    /\ m = [status |-> m.status, items |-> m.items]
    /\ m.items = [n \in DOMAIN m.items |-> [status |-> m.items[n].status, marked |-> m.items[n].marked]]
    /\ \A n \in DOMAIN m.items \cap Experiment!Commerce : m.items[n].status = "PASSED" => n \in evidenced
    /\ DOMAIN m.items \subseteq Superseded \/ DOMAIN m.items \subseteq Experiment!Constituents

\* The orchestration has its constituents one after the other, each once
TodoIsPlan ==
    /\ todo \in Seq(Experiment!Constituents) /\ Distinct(todo)
    /\ x_pc = "idle" => todo = <<>>
    /\ x_pc \notin {"idle", "next"} => todo # <<>>
    /\ x_pc \in {"pair", "writing"} => Experiment!Now \in Experiment!Commerce

\* What the child found and made
ChildProgress ==
    /\ x_pc \in {"pair", "writing"} /\ Experiment!Now \in Publication => Experiment!Now \in described
    /\ x_pc = "pair" /\ Experiment!Now \in Standard =>
          \/ at = 1 /\ files[Experiment!Now][1] = "absent"
          \/ at = 2 /\ files[Experiment!Now][1] \in {"whole", "void"}
    /\ x_pc = "writing" =>
          /\ at \in 1..Pairs /\ files[Experiment!Now][at] = "empty"
          /\ Experiment!Now \in Standard => at = 1
    /\ x_pc \in {"child"} => at = 1
    /\ x_pc = "exited" /\ rc = 0 /\ Experiment!Now \in Experiment!Commerce => Experiment!Evidenced(Experiment!Now)

\* What a manifest, the merged ones or the manifest of all say has passed
PassedHasEvidence ==
    /\ \A n \in Experiment!Commerce : manifest[n] = "PASSED" => n \in WithEvidence
    /\ \A n \in DOMAIN merged \cap Experiment!Commerce : merged[n] = "PASSED" => n \in WithEvidence
    /\ Sound(top, WithEvidence) /\ Sound(held, WithEvidence)

\* What has been recorded of the selected ones stands in their manifests
RecordedStands ==
    /\ x_pc # "idle" =>
          /\ exit = "none" /\ selected \cup Elements(todo) \subseteq DOMAIN merged
          /\ DOMAIN merged \subseteq Experiment!Constituents
          /\ \A n \in selected \ Elements(todo) : merged[n] = "PASSED" => manifest[n] = "PASSED"
    /\ x_pc = "idle" /\ exit = "ok" => \A n \in selected : manifest[n] = "PASSED"

\* The last copy is of what was there before the invalidations
CopyRecords == [status : {"PASSED", "INVALID"}, original : {"none", "PASSED", "INVALID"}]
LastCopyPassed ==
    /\ copies \in [Superseded \cup Legacy -> Seq(CopyRecords)]
    /\ \A n \in Superseded \cup Legacy : copies[n] # <<>> => copies[n][Len(copies[n])].status = "PASSED"

\* Keys are those of a bench that runs, or that died
HasKeys == x_pc \in {"child", "exited"} /\ Experiment!Now = "nosql"
KeysCounted ==
    /\ secrets \in Nat /\ faults \in Nat
    /\ HasKeys => secrets - 1 \in 0..faults
    /\ ~HasKeys => secrets <= faults

ExperimentInv ==
    /\ Experiment!TypeOK /\ TodoIsPlan /\ ChildProgress /\ PassedHasEvidence /\ RecordedStands
    /\ LastCopyPassed /\ KeysCounted

-----------------------------------------------------------------------------
(* What is planned *)

\* The instance of Experiments has its own Cardinality, which is the same.
LEMMA SameCardinality ==
    ASSUME NEW S
    PROVE  (Experiment!IsFiniteSet(S) <=> IsFiniteSet(S)) /\ Experiment!Cardinality(S) = Cardinality(S)
<1>1. Experiment!IsFiniteSet(S) <=> IsFiniteSet(S)
    BY DEF Experiment!IsFiniteSet, IsFiniteSet
<1>2. Experiment!Cardinality(S) = Cardinality(S)
    BY DEF Experiment!Cardinality, Cardinality
<1> QED
    BY <1>1, <1>2

\* A finite set as a sequence has its elements only, and each once.
LEMMA SetAsSeq ==
    ASSUME NEW S, IsFiniteSet(S)
    PROVE  /\ Experiment!SetToSeq(S) \in Seq(S)
           /\ Distinct(Experiment!SetToSeq(S))
<1> DEFINE n == Cardinality(S)
<1>1. n \in Nat /\ \E f \in [1..n -> S] : Experiment!IsInjective(f)
  <2>1. n \in Nat /\ ExistsBijection(1..n, S)
      BY FS_CardinalityType
  <2> QED
      BY <2>1 DEF ExistsBijection, Bijection, Injection, IsInjective, Experiment!IsInjective
<1>2. Experiment!SetToSeq(S) = CHOOSE f \in [1..n -> S] : Experiment!IsInjective(f)
    BY SameCardinality DEF Experiment!SetToSeq
<1>3. Experiment!SetToSeq(S) \in [1..n -> S] /\ Experiment!IsInjective(Experiment!SetToSeq(S))
    BY <1>1, <1>2
<1> HIDE DEF n
<1> QED
    BY <1>1, <1>3 DEF Experiment!IsInjective, Distinct

\* Two sequences without an element in common, one after the other
LEMMA DistinctConcat ==
    ASSUME NEW S, NEW T, NEW s \in Seq(S), NEW t \in Seq(T), Distinct(s), Distinct(t), S \cap T = {}
    PROVE  s \o t \in Seq(S \cup T) /\ Distinct(s \o t)
<1>1. s \in Seq(S \cup T) /\ t \in Seq(S \cup T)
    OBVIOUS
<1>2. s \o t \in Seq(S \cup T) /\ Len(s \o t) = Len(s) + Len(t)
    BY <1>1
<1>3. ASSUME NEW i \in 1..Len(s) + Len(t)
      PROVE  (s \o t)[i] = IF i <= Len(s) THEN s[i] ELSE t[i - Len(s)]
    BY <1>1, <1>3
<1>4. ASSUME NEW i \in 1..Len(s) + Len(t), NEW j \in 1..Len(s) + Len(t), (s \o t)[i] = (s \o t)[j]
      PROVE  i = j
  <2>1. CASE i <= Len(s) /\ j <= Len(s)
      BY <1>3, <1>4, <2>1 DEF Distinct
  <2>2. CASE i > Len(s) /\ j > Len(s)
      BY <1>3, <1>4, <2>2 DEF Distinct
  <2>3. CASE i <= Len(s) /\ j > Len(s)
    <3>1. s[i] \in S /\ t[j - Len(s)] \in T
        BY <2>3
    <3> QED
        BY <1>3, <1>4, <2>3, <3>1
  <2>4. CASE i > Len(s) /\ j <= Len(s)
    <3>1. s[j] \in S /\ t[i - Len(s)] \in T
        BY <2>4
    <3> QED
        BY <1>3, <1>4, <2>4, <3>1
  <2> QED
      BY <2>1, <2>2, <2>3, <2>4
<1> QED
    BY <1>2, <1>4 DEF Distinct

\* What launch plans, whatever it was asked for, is some of the constituents, each once.
LEMMA PlannedIsDistinct ==
    ASSUME NEW profiles
    PROVE  Experiment!Planned(profiles) \in Seq(Experiment!Constituents) /\ Distinct(Experiment!Planned(profiles))
<1> DEFINE a == IF "standard" \in profiles THEN Experiment!SetToSeq(Standard) ELSE <<>>
           b == IF "publication" \in profiles THEN Experiment!SetToSeq(Publication) ELSE <<>>
           c == IF "safety" \in profiles THEN <<"safety">> ELSE <<>>
           d == IF "nosql" \in profiles THEN <<"nosql">> ELSE <<>>
<1>1. /\ IsFiniteSet(Standard) /\ IsFiniteSet(Publication) /\ Standard \cap Publication = {}
      /\ {"safety", "nosql"} \cap (Standard \cup Publication) = {}
    BY OperationsConstants, SameCardinality DEF Experiment!ExperimentConstants, Experiment!Commerce
<1>2. a \in Seq(Standard) /\ Distinct(a)
    BY <1>1, SetAsSeq DEF Distinct
<1>3. b \in Seq(Publication) /\ Distinct(b)
    BY <1>1, SetAsSeq DEF Distinct
<1>4. c \in Seq({"safety"}) /\ Distinct(c) /\ d \in Seq({"nosql"}) /\ Distinct(d)
  <2>1. \A x : <<x>> \in Seq({x}) /\ Distinct(<<x>>) /\ <<>> \in Seq({x}) /\ Distinct(<<>>)
      BY DEF Distinct
  <2> QED
      BY <2>1
<1>5. Experiment!Planned(profiles) = a \o b \o c \o d
    BY DEF Experiment!Planned
<1> HIDE DEF a, b, c, d
<1>6. a \o b \in Seq(Standard \cup Publication) /\ Distinct(a \o b)
    BY <1>1, <1>2, <1>3, DistinctConcat
<1>7. /\ a \o b \o c \in Seq(Standard \cup Publication \cup {"safety"})
      /\ Distinct(a \o b \o c)
  <2>1. (Standard \cup Publication) \cap {"safety"} = {}
      BY <1>1
  <2> QED
      BY <1>4, <1>6, <2>1, DistinctConcat
<1>8. /\ a \o b \o c \o d \in Seq((Standard \cup Publication \cup {"safety"}) \cup {"nosql"})
      /\ Distinct(a \o b \o c \o d)
  <2>1. (Standard \cup Publication \cup {"safety"}) \cap {"nosql"} = {}
      BY <1>1
  <2> QED
      BY <1>4, <1>7, <2>1, DistinctConcat
<1>9. (Standard \cup Publication \cup {"safety"}) \cup {"nosql"} = Experiment!Constituents
    BY DEF Experiment!Constituents, Experiment!Commerce
<1> QED
    BY <1>5, <1>8, <1>9

\* The constituent at hand is not among those after it.
LEMMA NowAndRest ==
    ASSUME TodoIsPlan, todo # <<>>
    PROVE  /\ Experiment!Now \in Experiment!Constituents
           /\ Tail(todo) \in Seq(Experiment!Constituents) /\ Distinct(Tail(todo))
           /\ Elements(todo) = Elements(Tail(todo)) \cup {Experiment!Now}
           /\ Experiment!Now \notin Elements(Tail(todo))
<1>1. todo \in Seq(Experiment!Constituents) /\ Len(todo) >= 1 /\ Experiment!Now = todo[1]
    BY DEF TodoIsPlan, Experiment!Now
<1>2. /\ Tail(todo) \in Seq(Experiment!Constituents) /\ Len(Tail(todo)) = Len(todo) - 1
      /\ \A i \in 1..Len(todo) - 1 : Tail(todo)[i] = todo[i + 1]
    BY <1>1
<1>3. \A i \in 2..Len(todo) : i - 1 \in 1..Len(todo) - 1 /\ Tail(todo)[i - 1] = todo[i]
    BY <1>1, <1>2
<1>4. Distinct(Tail(todo)) /\ Experiment!Now \notin Elements(Tail(todo))
    BY <1>1, <1>2 DEF TodoIsPlan, Distinct, Elements
<1>5. \A x : x \in Elements(Tail(todo)) <=> \E i \in 2..Len(todo) : x = todo[i]
  <2>1. \A i \in 1..Len(todo) - 1 : i + 1 \in 2..Len(todo) /\ Tail(todo)[i] = todo[i + 1]
      BY <1>1, <1>2
  <2>2. DOMAIN Tail(todo) = 1..Len(todo) - 1
      BY <1>2
  <2>3. ASSUME NEW x \in Elements(Tail(todo)) PROVE \E i \in 2..Len(todo) : x = todo[i]
    <3>1. PICK i \in DOMAIN Tail(todo) : x = Tail(todo)[i]
        BY <2>3 DEF Elements
    <3> QED
        BY <2>1, <2>2, <3>1
  <2>4. ASSUME NEW i \in 2..Len(todo) PROVE todo[i] \in Elements(Tail(todo))
      BY <1>3, <2>2 DEF Elements
  <2> QED
      BY <2>3, <2>4
<1>6. Elements(todo) = Elements(Tail(todo)) \cup {Experiment!Now}
    BY <1>1, <1>5 DEF Elements
<1> QED
    BY <1>1, <1>2, <1>4, <1>6

-----------------------------------------------------------------------------
(* Each conjunct of the invariant is preserved by every step. *)

\* What Experiment!TypeOK says of all but the manifest of all and the keys
FilesTyped ==
    /\ manifest \in [Experiment!Constituents -> Experiment!Statuses \cup {"ABSENT"}]
    /\ files \in [Experiment!Commerce -> [1..Pairs -> Experiment!Files]] /\ described \subseteq Experiment!Commerce
    /\ x_pc \in {"idle", "next", "child", "pair", "writing", "exited", "recording"}
    /\ rc \in {0, 1} /\ at \in 1..Pairs + 1

\* The constituent at hand is a constituent, and of one kind.
LEMMA NowIsOne ==
    ASSUME ExperimentInv, x_pc \notin {"idle", "next"} \/ todo # <<>>
    PROVE  /\ Experiment!Now \in Experiment!Constituents
           /\ ~(Experiment!Now \in Standard /\ Experiment!Now \in Publication)
           /\ Experiment!Now \in Experiment!Commerce
                 <=> Experiment!Now \in Standard \/ Experiment!Now \in Publication
           /\ Experiment!Now = "nosql" => Experiment!Now \notin Experiment!Commerce
<1>1. todo # <<>>
    BY DEF ExperimentInv, TodoIsPlan
<1> QED
    BY <1>1, NowAndRest, OperationsConstants DEF ExperimentInv, Experiment!ExperimentConstants, Experiment!Commerce

\* No step writes what is not of its type.
LEMMA FilesTypedStep ==
    ASSUME ExperimentInv, [Experiment!Next]_(Experiment!vars)
    PROVE  FilesTyped'
<1> USE DEF FilesTyped, Experiment!files_vars, Experiment!run_vars, Experiment!invalidation_vars
<1>0. FilesTyped /\ Pairs \in Nat /\ 1 \in 1..Pairs /\ 1 \in 1..Pairs + 1
    BY OperationsConstants DEF ExperimentInv, Experiment!TypeOK, Experiment!ExperimentConstants
<1>1. ASSUME NEW profiles, NEW force, Experiment!launch(profiles, force)
      PROVE  FilesTyped'
    BY <1>0, <1>1 DEF Experiment!launch
<1>2. ASSUME Experiment!reuse \/ Experiment!record
      PROVE  FilesTyped'
    BY <1>0, <1>2 DEF Experiment!reuse, Experiment!record, Experiment!Recorded
<1>3. ASSUME Experiment!begin \/ Experiment!unprovisioned \/ Experiment!bench_passes
      PROVE  FilesTyped'
    BY <1>0, <1>3 DEF Experiment!begin, Experiment!unprovisioned, Experiment!bench_passes, Experiment!Exits,
        Experiment!Statuses
<1>4. ASSUME Experiment!child_begins \/ Experiment!conclude
      PROVE  FilesTyped'
  <2>1. Experiment!Now \in Experiment!Commerce
      BY <1>4 DEF Experiment!child_begins, Experiment!conclude, ExperimentInv, TodoIsPlan
  <2>2. described' \subseteq Experiment!Commerce
      BY <1>0, <1>4, <2>1 DEF Experiment!child_begins, Experiment!conclude
  <2> QED
      BY <1>0, <1>4, <2>2 DEF Experiment!child_begins, Experiment!conclude, Experiment!Exits
<1>5. ASSUME Experiment!ensure_pair
      PROVE  FilesTyped'
  <2>1. Experiment!Now \in Experiment!Commerce /\ at \in 1..Pairs
      BY <1>0, <1>5 DEF Experiment!ensure_pair, ExperimentInv, TodoIsPlan
  <2>2. files' = files \/ files' = [files EXCEPT ![Experiment!Now][at] = "empty"]
      BY <1>5 DEF Experiment!ensure_pair
  <2>3. files' \in [Experiment!Commerce -> [1..Pairs -> Experiment!Files]]
      BY <1>0, <2>1, <2>2 DEF Experiment!Files
  <2> QED
      BY <1>0, <1>5, <2>1, <2>3 DEF Experiment!ensure_pair
<1>6. ASSUME NEW file, Experiment!persist(file)
      PROVE  FilesTyped'
  <2>1. Experiment!Now \in Experiment!Commerce /\ at \in 1..Pairs
      BY <1>6 DEF Experiment!persist, ExperimentInv, TodoIsPlan, ChildProgress
  <2>2. files' \in [Experiment!Commerce -> [1..Pairs -> Experiment!Files]]
      BY <1>0, <1>6, <2>1 DEF Experiment!persist, Experiment!Files
  <2> QED
      BY <1>0, <1>6, <2>1, <2>2 DEF Experiment!persist
<1>7. ASSUME Experiment!child_fails \/ Experiment!crash
      PROVE  FilesTyped'
  <2>1. UNCHANGED files \/ (x_pc = "writing" /\ \E f \in {"empty", "part"} : files' = [files EXCEPT ![Experiment!Now][at] = f])
      BY <1>7 DEF Experiment!child_fails, Experiment!crash, Experiment!Torn
  <2>2. files' \in [Experiment!Commerce -> [1..Pairs -> Experiment!Files]]
    <3>1. CASE UNCHANGED files
        BY <1>0, <3>1
    <3>2. ASSUME x_pc = "writing", NEW f \in {"empty", "part"}, files' = [files EXCEPT ![Experiment!Now][at] = f]
          PROVE  files' \in [Experiment!Commerce -> [1..Pairs -> Experiment!Files]]
      <4>1. Experiment!Now \in Experiment!Commerce /\ at \in 1..Pairs
          BY <3>2 DEF ExperimentInv, TodoIsPlan, ChildProgress
      <4> QED
          BY <1>0, <3>2, <4>1 DEF Experiment!Files
    <3> QED
        BY <2>1, <3>1, <3>2
  <2> QED
      BY <1>0, <1>7, <2>2 DEF Experiment!child_fails, Experiment!crash, Experiment!Exits, Experiment!Over
<1>8. ASSUME Experiment!finish
      PROVE  FilesTyped'
  <2>1. Experiment!status_for_returncode(rc, Experiment!EvidencePresent(Experiment!Now)) \in Experiment!Statuses
      BY DEF Experiment!status_for_returncode, Experiment!Statuses
  <2> QED
      BY <1>0, <1>8, <2>1 DEF Experiment!finish
<1>9. ASSUME Experiment!complete
      PROVE  FilesTyped'
    BY <1>0, <1>9 DEF Experiment!complete, Experiment!Over
<1>10. ASSUME NEW script, Experiment!invalidate(script)
       PROVE  FilesTyped'
    BY <1>0, <1>10 DEF Experiment!invalidate
<1>11. ASSUME Experiment!mark \/ Experiment!read_top \/ Experiment!write_top
       PROVE  FilesTyped'
    BY <1>0, <1>11 DEF Experiment!mark, Experiment!read_top, Experiment!write_top
<1>12. CASE UNCHANGED Experiment!vars
    BY <1>0, <1>12 DEF Experiment!vars
<1> QED
    BY <1>1, <1>2, <1>3, <1>4, <1>5, <1>6, <1>7, <1>8, <1>9, <1>10, <1>11, <1>12 DEF Experiment!Next

\* run_pair opens no file that has its arms, and a process that dies tears the one it writes.
LEMMA FilesFrozen ==
    ASSUME ExperimentInv, [Experiment!Next]_(Experiment!vars)
    PROVE  /\ \A n \in Experiment!Commerce : \A p \in 1..Pairs :
                 files[n][p] \in {"whole", "void"} => files'[n][p] = files[n][p]
           /\ described \subseteq described'
<1> USE DEF Experiment!files_vars, Experiment!run_vars, Experiment!invalidation_vars
<1> DEFINE Frozen == \A n \in Experiment!Commerce : \A p \in 1..Pairs :
                        files[n][p] \in {"whole", "void"} => files'[n][p] = files[n][p]
<1>0. FilesTyped
    BY DEF ExperimentInv, Experiment!TypeOK, FilesTyped
<1>1. ASSUME UNCHANGED files \/ \E f \in Experiment!Files : files' = [files EXCEPT ![Experiment!Now][at] = f],
             ~UNCHANGED files => files[Experiment!Now][at] \notin {"whole", "void"}
      PROVE  Frozen
  <2>1. ASSUME NEW n \in Experiment!Commerce, NEW p \in 1..Pairs, files[n][p] \in {"whole", "void"},
               NEW f, files' = [files EXCEPT ![Experiment!Now][at] = f],
               files[Experiment!Now][at] \notin {"whole", "void"}
        PROVE  files'[n][p] = files[n][p]
    <3>1. ~(n = Experiment!Now /\ p = at)
        BY <2>1
    <3> QED
        BY <1>0, <2>1, <3>1 DEF FilesTyped
  <2> QED
      BY <1>1, <2>1
<1> HIDE DEF Frozen
<1>2. ASSUME UNCHANGED <<files, described>> PROVE Frozen /\ described \subseteq described'
    BY <1>1, <1>2
<1>3. ASSUME NEW profiles, NEW force, Experiment!launch(profiles, force)
      PROVE  Frozen /\ described \subseteq described'
    BY <1>2, <1>3 DEF Experiment!launch
<1>4. ASSUME \/ Experiment!reuse \/ Experiment!record \/ Experiment!begin \/ Experiment!unprovisioned
             \/ Experiment!bench_passes \/ Experiment!finish \/ Experiment!complete
             \/ Experiment!mark \/ Experiment!read_top \/ Experiment!write_top
      PROVE  Frozen /\ described \subseteq described'
    BY <1>2, <1>4 DEF Experiment!reuse, Experiment!record, Experiment!begin, Experiment!unprovisioned,
        Experiment!bench_passes, Experiment!finish, Experiment!complete, Experiment!mark, Experiment!read_top,
        Experiment!write_top
<1>5. ASSUME Experiment!child_begins \/ Experiment!conclude
      PROVE  Frozen /\ described \subseteq described'
    BY <1>1, <1>5 DEF Experiment!child_begins, Experiment!conclude
<1>6. ASSUME Experiment!ensure_pair
      PROVE  Frozen /\ described \subseteq described'
  <2>1. files' # files => files' = [files EXCEPT ![Experiment!Now][at] = "empty"]
                          /\ files[Experiment!Now][at] \in {"absent", "empty"}
      BY <1>6 DEF Experiment!ensure_pair, Experiment!Measured
  <2> QED
      BY <1>1, <1>6, <2>1 DEF Experiment!ensure_pair, Experiment!Files
<1>7. ASSUME NEW file, Experiment!persist(file)
      PROVE  Frozen /\ described \subseteq described'
    BY <1>1, <1>7 DEF Experiment!persist, Experiment!Files, ExperimentInv, ChildProgress
<1>8. ASSUME Experiment!child_fails \/ Experiment!crash
      PROVE  Frozen /\ described \subseteq described'
  <2>1. UNCHANGED files \/ (x_pc = "writing" /\ \E f \in {"empty", "part"} : files' = [files EXCEPT ![Experiment!Now][at] = f])
      BY <1>8 DEF Experiment!child_fails, Experiment!crash, Experiment!Torn
  <2> QED
      BY <1>1, <1>8, <2>1 DEF Experiment!child_fails, Experiment!crash, Experiment!Files, ExperimentInv, ChildProgress
<1>9. ASSUME NEW script, Experiment!invalidate(script)
      PROVE  Frozen /\ described \subseteq described'
    BY <1>2, <1>9 DEF Experiment!invalidate
<1>10. CASE UNCHANGED Experiment!vars
    BY <1>2, <1>10 DEF Experiment!vars
<1> QED
    BY <1>3, <1>4, <1>5, <1>6, <1>7, <1>8, <1>9, <1>10 DEF Experiment!Next, Frozen

\* What stands behind a result goes on standing there.
LEMMA EvidenceStays ==
    ASSUME ExperimentInv, [Experiment!Next]_(Experiment!vars), NEW n \in Experiment!Commerce, Experiment!Evidenced(n)
    PROVE  Experiment!Evidenced(n)'
<1>1. 1 \in 1..Pairs /\ 1..Calibration \subseteq 1..Pairs
    BY OperationsConstants DEF Experiment!ExperimentConstants
<1>2. \A p \in 1..Pairs : files[n][p] \in {"whole", "void"} => files'[n][p] = files[n][p]
    BY FilesFrozen
<1>3. n \in described'
    BY FilesFrozen DEF Experiment!Evidenced
<1>4. CASE n \in Standard
    BY <1>1, <1>2, <1>3, <1>4 DEF Experiment!Evidenced
<1>5. CASE n \notin Standard /\ n \in Noisy
    BY <1>1, <1>2, <1>3, <1>5 DEF Experiment!Evidenced
<1>6. CASE n \notin Standard /\ n \notin Noisy
    BY <1>1, <1>2, <1>3, <1>6 DEF Experiment!Evidenced
<1> QED
    BY <1>4, <1>5, <1>6

\* launch plans, reuse and record take the next, and the child is of the constituent at hand.
LEMMA TodoStep ==
    ASSUME ExperimentInv, [Experiment!Next]_(Experiment!vars)
    PROVE  TodoIsPlan'
<1> USE DEF Experiment!files_vars, Experiment!run_vars, Experiment!invalidation_vars
<1>0. TodoIsPlan
    BY DEF ExperimentInv
<1>1. ASSUME NEW profiles, NEW force, Experiment!launch(profiles, force)
      PROVE  TodoIsPlan'
  <2>1. CASE Experiment!Loadable
    <3>1. todo' = Experiment!Planned(profiles) /\ x_pc' = "next"
        BY <1>1, <2>1 DEF Experiment!launch
    <3>2. todo' \in Seq(Experiment!Constituents) /\ Distinct(todo')
        BY <3>1, PlannedIsDistinct
    <3> QED
        BY <3>1, <3>2 DEF TodoIsPlan
  <2>2. CASE ~Experiment!Loadable
    <3>1. UNCHANGED <<todo, x_pc>>
        BY <1>1, <2>2 DEF Experiment!launch
    <3> QED
        BY <1>0, <3>1 DEF TodoIsPlan, Experiment!Now
  <2> QED
      BY <2>1, <2>2
<1>2. ASSUME Experiment!reuse \/ Experiment!record
      PROVE  TodoIsPlan'
  <2>1. todo # <<>> /\ todo' = Tail(todo) /\ x_pc' = "next"
      BY <1>0, <1>2 DEF Experiment!reuse, Experiment!record, Experiment!Recorded, TodoIsPlan
  <2>2. todo' \in Seq(Experiment!Constituents) /\ Distinct(todo')
      BY <1>0, <2>1, NowAndRest
  <2> QED
      BY <2>1, <2>2 DEF TodoIsPlan
<1>3. ASSUME UNCHANGED todo, todo # <<>>, x_pc' # "idle",
             x_pc' \in {"pair", "writing"} => Experiment!Now \in Experiment!Commerce
      PROVE  TodoIsPlan'
    BY <1>0, <1>3 DEF TodoIsPlan, Experiment!Now
<1>4. ASSUME Experiment!begin
      PROVE  TodoIsPlan'
    BY <1>3, <1>4 DEF Experiment!begin
<1>5. ASSUME \/ Experiment!unprovisioned \/ Experiment!child_begins \/ Experiment!ensure_pair \/ Experiment!conclude
             \/ Experiment!child_fails \/ Experiment!bench_passes \/ Experiment!finish
      PROVE  TodoIsPlan'
    BY <1>0, <1>3, <1>5 DEF Experiment!unprovisioned, Experiment!child_begins, Experiment!ensure_pair,
        Experiment!conclude, Experiment!child_fails, Experiment!bench_passes, Experiment!finish, Experiment!Exits,
        TodoIsPlan
<1>6. ASSUME NEW file, Experiment!persist(file)
      PROVE  TodoIsPlan'
    BY <1>0, <1>3, <1>6 DEF Experiment!persist, TodoIsPlan
<1>7. ASSUME Experiment!complete \/ Experiment!crash
      PROVE  TodoIsPlan'
  <2>1. todo' = <<>> /\ x_pc' = "idle"
      BY <1>7 DEF Experiment!complete, Experiment!crash, Experiment!Over
  <2> QED
      BY <2>1 DEF TodoIsPlan, Distinct
<1>8. ASSUME UNCHANGED <<todo, x_pc>> PROVE TodoIsPlan'
    BY <1>0, <1>8 DEF TodoIsPlan, Experiment!Now
<1>9. ASSUME NEW script, Experiment!invalidate(script)
      PROVE  TodoIsPlan'
    BY <1>8, <1>9 DEF Experiment!invalidate
<1>10. ASSUME Experiment!mark \/ Experiment!read_top \/ Experiment!write_top \/ UNCHANGED Experiment!vars
       PROVE  TodoIsPlan'
    BY <1>8, <1>10 DEF Experiment!mark, Experiment!read_top, Experiment!write_top, Experiment!vars
<1> QED
    BY <1>1, <1>2, <1>4, <1>5, <1>6, <1>7, <1>9, <1>10 DEF Experiment!Next

\* A child that ends with 0 leaves the whole evidence of its constituent.
LEMMA ChildStep ==
    ASSUME ExperimentInv, [Experiment!Next]_(Experiment!vars)
    PROVE  ChildProgress'
<1> USE DEF Experiment!files_vars, Experiment!run_vars, Experiment!invalidation_vars
<1>0. /\ TodoIsPlan /\ ChildProgress /\ FilesTyped
      /\ Calibration \in Nat \ {0} /\ Pairs \in Nat /\ Calibration < Pairs
    BY OperationsConstants DEF ExperimentInv, Experiment!TypeOK, FilesTyped, Experiment!ExperimentConstants
<1>1. ASSUME x_pc' \in {"idle", "next", "recording"} PROVE ChildProgress'
    BY <1>1 DEF ChildProgress
<1>2. ASSUME NEW profiles, NEW force, Experiment!launch(profiles, force)
      PROVE  ChildProgress'
    BY <1>1, <1>2 DEF Experiment!launch
<1>3. ASSUME \/ Experiment!reuse \/ Experiment!record \/ Experiment!unprovisioned \/ Experiment!finish
             \/ Experiment!complete \/ Experiment!crash
      PROVE  ChildProgress'
    BY <1>1, <1>3 DEF Experiment!reuse, Experiment!record, Experiment!Recorded, Experiment!unprovisioned,
        Experiment!finish, Experiment!complete, Experiment!crash, Experiment!Over
<1>4. ASSUME Experiment!begin
      PROVE  ChildProgress'
    BY <1>4 DEF Experiment!begin, ChildProgress
<1>5. ASSUME Experiment!child_begins
      PROVE  ChildProgress'
  <2>1. ~(Experiment!Now \in Standard /\ Experiment!Now \in Publication) /\ at = 1
      BY <1>0, <1>5, NowIsOne DEF Experiment!child_begins, ChildProgress
  <2>2. UNCHANGED <<todo, files, at>> /\ Experiment!Now' = Experiment!Now
      BY <1>5 DEF Experiment!child_begins, Experiment!Now
  <2>3. \/ x_pc' = "exited" /\ rc' = 1
        \/ x_pc' = "pair" /\ Experiment!Now \in Standard /\ files[Experiment!Now][1] = "absent"
        \/ x_pc' = "pair" /\ Experiment!Now \notin Standard /\ Experiment!Now \in described'
      BY <1>5 DEF Experiment!child_begins, Experiment!Exits
  <2> QED
      BY <2>1, <2>2, <2>3 DEF ChildProgress
<1>6. ASSUME Experiment!ensure_pair
      PROVE  ChildProgress'
  <2>1. /\ Experiment!Now \in Experiment!Commerce /\ at \in 1..Pairs
        /\ Experiment!Now \in Standard => at = 1 /\ files[Experiment!Now][1] = "absent"
        /\ Experiment!Now \in Publication => Experiment!Now \in described
        /\ UNCHANGED <<todo, described>> /\ Experiment!Now' = Experiment!Now
      BY <1>0, <1>6 DEF Experiment!ensure_pair, TodoIsPlan, ChildProgress, FilesTyped, Experiment!Now
  <2>2. CASE Experiment!Measured(files[Experiment!Now][at])
    <3>1. Experiment!Now \notin Standard /\ x_pc' = "pair"
        BY <1>6, <2>1, <2>2 DEF Experiment!ensure_pair, Experiment!Measured
    <3> QED
        BY <2>1, <3>1 DEF ChildProgress
  <2>3. CASE ~Experiment!Measured(files[Experiment!Now][at])
    <3>1. x_pc' = "writing" /\ at' = at /\ files' = [files EXCEPT ![Experiment!Now][at] = "empty"]
        BY <1>6, <2>3 DEF Experiment!ensure_pair
    <3>2. files'[Experiment!Now][at] = "empty"
        BY <1>0, <2>1, <3>1 DEF FilesTyped
    <3> QED
        BY <2>1, <3>1, <3>2 DEF ChildProgress
  <2> QED
      BY <2>2, <2>3
<1>7. ASSUME NEW file, Experiment!persist(file)
      PROVE  ChildProgress'
  <2>1. /\ Experiment!Now \in Experiment!Commerce /\ at \in 1..Pairs
        /\ Experiment!Now \in Standard => at = 1
        /\ Experiment!Now \in Publication => Experiment!Now \in described
        /\ UNCHANGED <<todo, described>> /\ Experiment!Now' = Experiment!Now
      BY <1>0, <1>7 DEF Experiment!persist, TodoIsPlan, ChildProgress, Experiment!Now
  <2>2. files'[Experiment!Now][at] \in {"whole", "void"} /\ x_pc' = "pair" /\ at' = at + 1
      BY <1>0, <1>7, <2>1 DEF Experiment!persist, FilesTyped
  <2> QED
      BY <2>1, <2>2 DEF ChildProgress
<1>8. ASSUME Experiment!conclude
      PROVE  ChildProgress'
  <2>1. /\ Experiment!Now \in Experiment!Commerce /\ x_pc' = "exited"
        /\ Experiment!Now' = Experiment!Now
      BY <1>0, <1>8 DEF Experiment!conclude, Experiment!Exits, TodoIsPlan, Experiment!Now
  <2>2. CASE Experiment!Now \in Standard
    <3>1. files[Experiment!Now][1] \in {"whole", "void"} /\ files' = files /\ Experiment!Now \in described'
        BY <1>0, <1>8, <2>2 DEF Experiment!conclude, ChildProgress
    <3> QED
        BY <2>1, <2>2, <3>1 DEF ChildProgress, Experiment!Evidenced
  <2>3. CASE Experiment!Now \notin Standard
    <3>1. Experiment!Now \in Publication /\ Experiment!Now \in described'
        BY <1>0, <1>8, <2>1, <2>3 DEF Experiment!conclude, ChildProgress, Experiment!Commerce
    <3>2. CASE Experiment!Readable
      <4>1. \A p \in 1..at - 1 : files[Experiment!Now][p] = "whole"
          BY <3>2 DEF Experiment!Readable
      <4>2. at = Pairs + 1 \/ (at = Calibration + 1 /\ Experiment!Now \in Noisy)
          BY <1>8, <2>3, <3>2 DEF Experiment!conclude, Experiment!Calibrated
      <4>3. \A p \in 1..(IF Experiment!Now \in Noisy THEN Calibration ELSE Pairs) : p \in 1..at - 1
          BY <1>0, <4>2
      <4>4. files' = files
          BY <1>8 DEF Experiment!conclude
      <4> QED
          BY <2>1, <2>3, <3>1, <4>1, <4>3, <4>4 DEF ChildProgress, Experiment!Evidenced
    <3>3. CASE ~Experiment!Readable
      <4>1. rc' = 1
          BY <1>8, <2>3, <3>3 DEF Experiment!conclude, Experiment!Exits
      <4> QED
          BY <2>1, <4>1 DEF ChildProgress
    <3> QED
        BY <3>2, <3>3
  <2> QED
      BY <2>2, <2>3
<1>9. ASSUME Experiment!child_fails
      PROVE  ChildProgress'
  <2>1. x_pc' = "exited" /\ rc' = 1
      BY <1>9 DEF Experiment!child_fails, Experiment!Exits
  <2> QED
      BY <2>1 DEF ChildProgress
<1>10. ASSUME Experiment!bench_passes
       PROVE  ChildProgress'
  <2>1. x_pc' = "exited" /\ Experiment!Now' = Experiment!Now /\ Experiment!Now \notin Experiment!Commerce
      BY <1>10 DEF Experiment!bench_passes, Experiment!Exits, Experiment!Now
  <2> QED
      BY <2>1 DEF ChildProgress
<1>11. ASSUME UNCHANGED <<x_pc, todo, files, described, at, rc>> PROVE ChildProgress'
  <2>1. Experiment!Now' = Experiment!Now /\ (Experiment!Evidenced(Experiment!Now) => Experiment!Evidenced(Experiment!Now)')
      BY <1>11 DEF Experiment!Now, Experiment!Evidenced
  <2> QED
      BY <1>0, <1>11, <2>1 DEF ChildProgress
<1>12. ASSUME NEW script, Experiment!invalidate(script)
       PROVE  ChildProgress'
    BY <1>11, <1>12 DEF Experiment!invalidate
<1>13. ASSUME Experiment!mark \/ Experiment!read_top \/ Experiment!write_top \/ UNCHANGED Experiment!vars
       PROVE  ChildProgress'
    BY <1>11, <1>13 DEF Experiment!mark, Experiment!read_top, Experiment!write_top, Experiment!vars
<1> QED
    BY <1>2, <1>3, <1>4, <1>5, <1>6, <1>7, <1>8, <1>9, <1>10, <1>12, <1>13 DEF Experiment!Next

\* _persist writes what it was given.
LEMMA PersistedSays ==
    ASSUME NEW m
    PROVE  /\ Experiment!Persisted(m) = [status |-> Experiment!Persisted(m).status, items |-> Experiment!Persisted(m).items]
           /\ Experiment!Persisted(m).items = [n \in DOMAIN m |-> [status |-> m[n], marked |-> FALSE]]
           /\ Experiment!Persisted(m).status = "PASSED" => \A n \in DOMAIN m : m[n] = "PASSED"
<1> DEFINE statuses == {m[n] : n \in DOMAIN m}
<1>1. Experiment!overall_status(statuses) = "PASSED" => statuses = {"PASSED"}
  <2>1. CASE statuses = {}
      BY <2>1 DEF Experiment!overall_status
  <2>2. CASE "INVALID" \in statuses
    <3>1. statuses # {} /\ statuses # {"PASSED"}
        BY <2>2
    <3> HIDE DEF statuses
    <3> QED
        BY <2>2, <3>1 DEF Experiment!overall_status
  <2>3. CASE statuses # {} /\ "INVALID" \notin statuses /\ statuses # {"PASSED"}
    <3> HIDE DEF statuses
    <3> QED
        BY <2>3 DEF Experiment!overall_status
  <2> QED
      BY <2>1, <2>2, <2>3
<1>2. statuses = {"PASSED"} => \A n \in DOMAIN m : m[n] = "PASSED"
    OBVIOUS
<1> HIDE DEF statuses
<1>3. Experiment!Persisted(m) = [status |-> Experiment!overall_status(statuses),
                                 items |-> [n \in DOMAIN m |-> [status |-> m[n], marked |-> FALSE]]]
    BY DEF Experiment!Persisted, statuses
<1> QED
    BY <1>1, <1>2, <1>3

\* What _persist was given is what its manifest of all says.
LEMMA PersistedIsSound ==
    ASSUME NEW m, NEW evidenced, DOMAIN m \subseteq Experiment!Constituents,
           \A n \in DOMAIN m \cap Experiment!Commerce : m[n] = "PASSED" => n \in evidenced
    PROVE  Sound(Experiment!Persisted(m), evidenced)
<1> DEFINE t == Experiment!Persisted(m)
<1>1. /\ t = [status |-> t.status, items |-> t.items]
      /\ t.items = [n \in DOMAIN m |-> [status |-> m[n], marked |-> FALSE]]
    BY PersistedSays
<1> HIDE DEF t
<1>2. DOMAIN t.items = DOMAIN m /\ \A n \in DOMAIN m : t.items[n].status = m[n] /\ t.items[n].marked = FALSE
    BY <1>1
<1>3. t.items = [n \in DOMAIN t.items |-> [status |-> t.items[n].status, marked |-> t.items[n].marked]]
    BY <1>1, <1>2
<1>4. Sound(t, evidenced)
    BY <1>1, <1>2, <1>3 DEF Sound
<1> QED
    BY <1>4 DEF t

\* Evidence only grows.
LEMMA SoundStays ==
    ASSUME NEW m, NEW evidenced, Sound(m, evidenced), NEW more, evidenced \subseteq more
    PROVE  Sound(m, more)
    BY DEF Sound

\* Before there is a manifest of all, nothing is said to have passed.
LEMMA AbsentIsSound == ASSUME NEW evidenced PROVE Sound(Experiment!Absent, evidenced)
<1> DEFINE t == Experiment!Absent
<1>1. t = [status |-> "ABSENT", items |-> <<>>]
    BY DEF Experiment!Absent
<1>2. DOMAIN t.items = {} /\ t.items = <<>>
    BY <1>1
<1>3. t.items = [n \in DOMAIN t.items |-> [status |-> t.items[n].status, marked |-> t.items[n].marked]]
    BY <1>2
<1> HIDE DEF t
<1>4. Sound(t, evidenced)
    BY <1>1, <1>2, <1>3 DEF Sound
<1> QED
    BY <1>4 DEF t

\* Changing one field of a record leaves the other.
LEMMA FieldChanged ==
    ASSUME NEW x, NEW y, NEW z
    PROVE  /\ [[status |-> x, items |-> y] EXCEPT !.items = z] = [status |-> x, items |-> z]
           /\ [[status |-> x, marked |-> y] EXCEPT !.marked = z] = [status |-> x, marked |-> z]
    OBVIOUS

\* What an invalidation marks keeps its status.
LEMMA MarkedIsSound ==
    ASSUME NEW m, NEW evidenced, Sound(m, evidenced),
           NEW items, items = [n \in DOMAIN m.items |-> items[n]],
           \A n \in DOMAIN m.items : \E x : items[n] = [m.items[n] EXCEPT !.marked = x]
    PROVE  Sound([m EXCEPT !.items = items], evidenced)
<1> DEFINE t == [m EXCEPT !.items = items]
<1>1. t = [status |-> m.status, items |-> items]
  <2>1. m = [status |-> m.status, items |-> m.items]
      BY DEF Sound
  <2>2. [m EXCEPT !.items = items] = [[status |-> m.status, items |-> m.items] EXCEPT !.items = items]
      BY <2>1, Zenon
  <2>3. [[status |-> m.status, items |-> m.items] EXCEPT !.items = items] = [status |-> m.status, items |-> items]
      BY FieldChanged
  <2> QED
      BY <2>2, <2>3
<1>2. ASSUME NEW n \in DOMAIN m.items
      PROVE  items[n].status = m.items[n].status /\ items[n] = [status |-> items[n].status, marked |-> items[n].marked]
  <2>1. m.items[n] = [status |-> m.items[n].status, marked |-> m.items[n].marked]
      BY <1>2 DEF Sound
  <2>2. PICK x : items[n] = [m.items[n] EXCEPT !.marked = x]
      BY <1>2
  <2>3. [m.items[n] EXCEPT !.marked = x]
           = [[status |-> m.items[n].status, marked |-> m.items[n].marked] EXCEPT !.marked = x]
      BY <2>1, Zenon
  <2>4. items[n] = [status |-> m.items[n].status, marked |-> x]
      BY <2>2, <2>3, FieldChanged, Zenon
  <2> QED
      BY <2>4
<1>3. DOMAIN items = DOMAIN m.items /\ t.status = m.status /\ t.items = items
    BY <1>1
<1>4. items = [n \in DOMAIN items |-> [status |-> items[n].status, marked |-> items[n].marked]]
    BY <1>2, <1>3
<1> HIDE DEF t
<1>5. Sound(t, evidenced)
    BY <1>1, <1>2, <1>3, <1>4 DEF Sound
<1> QED
    BY <1>5 DEF t

\* What an orchestration takes over, records or persists has its evidence, and so has what an
\* invalidation writes back, however old.
LEMMA PassedStep ==
    ASSUME ExperimentInv, [Experiment!Next]_(Experiment!vars)
    PROVE  PassedHasEvidence'
<1> USE DEF Experiment!files_vars, Experiment!run_vars, Experiment!invalidation_vars
<1>0. /\ PassedHasEvidence /\ FilesTyped /\ TodoIsPlan /\ RecordedStands
      /\ WithEvidence \subseteq WithEvidence'
  <2>1. WithEvidence \subseteq WithEvidence'
      BY EvidenceStays DEF WithEvidence
  <2> QED
      BY <2>1 DEF ExperimentInv, Experiment!TypeOK, FilesTyped
<1> DEFINE ManifestHas == \A n \in Experiment!Commerce : manifest'[n] = "PASSED" => n \in WithEvidence'
           MergedHas == \A n \in DOMAIN merged' \cap Experiment!Commerce : merged'[n] = "PASSED" => n \in WithEvidence'
<1>a. ASSUME ManifestHas, MergedHas, UNCHANGED <<top, held>>
      PROVE  PassedHasEvidence'
  <2>1. Sound(top, WithEvidence') /\ Sound(held, WithEvidence')
      BY <1>0, SoundStays DEF PassedHasEvidence
  <2> QED
      BY <1>a, <2>1 DEF PassedHasEvidence
<1>b. UNCHANGED manifest => ManifestHas
    BY <1>0 DEF PassedHasEvidence
<1>c. UNCHANGED merged \/ merged' = <<>> => MergedHas
    BY <1>0 DEF PassedHasEvidence
<1>d. ASSUME ManifestHas, MergedHas, UNCHANGED held, top' = Experiment!Persisted(merged'),
             DOMAIN merged' \subseteq Experiment!Constituents
      PROVE  PassedHasEvidence'
  <2>1. Sound(held, WithEvidence')
      BY <1>0, SoundStays DEF PassedHasEvidence
  <2>2. Sound(Experiment!Persisted(merged'), WithEvidence')
      BY <1>d, PersistedIsSound
  <2> QED
      BY <1>d, <2>1, <2>2 DEF PassedHasEvidence
<1> HIDE DEF ManifestHas, MergedHas
<1>1. ASSUME NEW profiles, NEW force, Experiment!launch(profiles, force)
      PROVE  PassedHasEvidence'
  <2>1. CASE Experiment!Loadable
    <3> DEFINE kept == DOMAIN top.items \ Superseded
               planned == Experiment!ToSet(Experiment!Planned(profiles))
    <3>1. /\ merged' = [n \in kept \cup planned |-> IF n \in kept THEN top.items[n].status ELSE "PENDING"]
          /\ top' = Experiment!Persisted(merged') /\ UNCHANGED <<manifest, held>>
        BY <1>1, <2>1 DEF Experiment!launch
    <3>2. kept \subseteq Experiment!Constituents
        BY <1>0 DEF PassedHasEvidence, Sound
    <3>3. planned \subseteq Experiment!Constituents
        BY PlannedIsDistinct DEF Experiment!ToSet
    <3>4. \A n \in kept \cap Experiment!Commerce : top.items[n].status = "PASSED" => n \in WithEvidence
        BY <1>0 DEF PassedHasEvidence, Sound
    <3> HIDE DEF kept, planned
    <3>5. DOMAIN merged' \subseteq Experiment!Constituents
        BY <3>1, <3>2, <3>3
    <3>6. MergedHas
        BY <1>0, <3>1, <3>4 DEF MergedHas
    <3> QED
        BY <1>b, <1>d, <3>1, <3>5, <3>6
  <2>2. CASE ~Experiment!Loadable
      BY <1>1, <1>a, <1>b, <1>c, <2>2 DEF Experiment!launch
  <2> QED
      BY <2>1, <2>2
<1>2. ASSUME NEW status, Experiment!Recorded(status), todo # <<>>, x_pc # "idle", status = manifest[Experiment!Now],
             UNCHANGED <<manifest, held>>
      PROVE  PassedHasEvidence'
  <2>1. /\ merged' = [merged EXCEPT ![Experiment!Now] = status] /\ top' = Experiment!Persisted(merged')
      BY <1>2 DEF Experiment!Recorded
  <2>2. DOMAIN merged' \subseteq Experiment!Constituents
      BY <1>0, <1>2, <2>1 DEF RecordedStands
  <2>3. MergedHas
      BY <1>0, <1>2, <2>1 DEF MergedHas, PassedHasEvidence
  <2> QED
      BY <1>2, <1>b, <1>d, <2>1, <2>2, <2>3
<1>3. ASSUME Experiment!reuse \/ Experiment!record
      PROVE  PassedHasEvidence'
  <2>1. todo # <<>> /\ x_pc # "idle" /\ UNCHANGED <<manifest, held>> /\ Experiment!Recorded(manifest[Experiment!Now])
      BY <1>0, <1>3 DEF Experiment!reuse, Experiment!record, TodoIsPlan
  <2> QED
      BY <1>2, <2>1
<1>4. ASSUME Experiment!begin \/ Experiment!unprovisioned
      PROVE  PassedHasEvidence'
  <2>1. /\ \/ manifest' = manifest \/ \E x \in {"RUNNING", "FAILED"} : manifest' = [manifest EXCEPT ![Experiment!Now] = x]
        /\ UNCHANGED <<merged, top, held>>
      BY <1>4 DEF Experiment!begin, Experiment!unprovisioned
  <2>2. \A n \in Experiment!Commerce : manifest'[n] = "PASSED" => manifest[n] = "PASSED"
      BY <1>0, <2>1 DEF FilesTyped, Experiment!Constituents
  <2> QED
      BY <1>0, <1>a, <1>c, <2>1, <2>2 DEF ManifestHas, PassedHasEvidence
<1>5. ASSUME Experiment!finish
      PROVE  PassedHasEvidence'
  <2>1. /\ manifest' = [manifest EXCEPT ![Experiment!Now] =
               Experiment!status_for_returncode(rc, Experiment!EvidencePresent(Experiment!Now))]
        /\ UNCHANGED <<merged, top, held>> /\ x_pc = "exited"
      BY <1>5 DEF Experiment!finish
  <2>2. ASSUME Experiment!status_for_returncode(rc, Experiment!EvidencePresent(Experiment!Now)) = "PASSED",
               Experiment!Now \in Experiment!Commerce
        PROVE  Experiment!Now \in WithEvidence
      BY <2>1, <2>2 DEF Experiment!status_for_returncode, ExperimentInv, ChildProgress, WithEvidence
  <2>3. ManifestHas
      BY <1>0, <2>1, <2>2 DEF ManifestHas, PassedHasEvidence, FilesTyped
  <2> QED
      BY <1>a, <1>c, <2>1, <2>3
<1>6. ASSUME Experiment!complete
      PROVE  PassedHasEvidence'
  <2>1. top' = Experiment!Persisted(merged) /\ merged' = <<>> /\ UNCHANGED <<manifest, held>> /\ x_pc # "idle"
      BY <1>6 DEF Experiment!complete, Experiment!Over
  <2>2. Sound(Experiment!Persisted(merged), WithEvidence')
      BY <1>0, <2>1, PersistedIsSound DEF PassedHasEvidence, RecordedStands
  <2>3. Sound(held, WithEvidence')
      BY <1>0, SoundStays DEF PassedHasEvidence
  <2>4. ManifestHas /\ MergedHas
      BY <1>b, <1>c, <2>1
  <2> QED
      BY <2>1, <2>2, <2>3, <2>4 DEF PassedHasEvidence, ManifestHas, MergedHas
<1>7. ASSUME Experiment!crash
      PROVE  PassedHasEvidence'
  <2>1. UNCHANGED <<manifest, top>> /\ merged' = <<>> /\ (held' = Experiment!Absent \/ held' = held)
      BY <1>7 DEF Experiment!crash, Experiment!Over
  <2>2. Sound(top, WithEvidence') /\ Sound(held, WithEvidence') /\ Sound(Experiment!Absent, WithEvidence')
      BY <1>0, SoundStays, AbsentIsSound DEF PassedHasEvidence
  <2>3. ManifestHas /\ MergedHas
      BY <1>b, <1>c, <2>1
  <2> QED
      BY <2>1, <2>2, <2>3 DEF PassedHasEvidence, ManifestHas, MergedHas
<1>8. ASSUME \/ Experiment!child_begins \/ Experiment!ensure_pair \/ Experiment!conclude \/ Experiment!child_fails
             \/ Experiment!bench_passes \/ Experiment!mark
      PROVE  PassedHasEvidence'
  <2>1. UNCHANGED <<manifest, merged, top, held>>
      BY <1>8 DEF Experiment!child_begins, Experiment!ensure_pair, Experiment!conclude, Experiment!child_fails,
          Experiment!bench_passes, Experiment!mark
  <2> QED
      BY <1>a, <1>b, <1>c, <2>1
<1>9. ASSUME NEW file, Experiment!persist(file)
      PROVE  PassedHasEvidence'
    BY <1>9, <1>a, <1>b, <1>c DEF Experiment!persist
<1>10. ASSUME NEW script, Experiment!invalidate(script)
       PROVE  PassedHasEvidence'
    BY <1>10, <1>a, <1>b, <1>c DEF Experiment!invalidate
<1>11. ASSUME Experiment!read_top
       PROVE  PassedHasEvidence'
  <2> DEFINE items == [n \in DOMAIN top.items |->
                          [top.items[n] EXCEPT !.marked = top.items[n].marked \/ n \in Superseded]]
  <2>1. UNCHANGED <<manifest, merged, top>>
      BY <1>11 DEF Experiment!read_top
  <2>5. held' = [top EXCEPT !.items = items]
      BY <1>11, Zenon DEF Experiment!read_top
  <2>2. Sound(top, WithEvidence')
      BY <1>0, SoundStays DEF PassedHasEvidence
  <2>3. /\ items = [n \in DOMAIN top.items |-> items[n]]
        /\ \A n \in DOMAIN top.items : \E x : items[n] = [top.items[n] EXCEPT !.marked = x]
      OBVIOUS
  <2> HIDE DEF items
  <2>4. Sound(held', WithEvidence')
      BY <2>2, <2>3, <2>5, MarkedIsSound
  <2>6. ManifestHas /\ MergedHas
      BY <1>b, <1>c, <2>1
  <2> QED
      BY <2>1, <2>2, <2>4, <2>6 DEF PassedHasEvidence, ManifestHas, MergedHas
<1>12. ASSUME Experiment!write_top
       PROVE  PassedHasEvidence'
  <2>1. UNCHANGED <<manifest, merged>> /\ held' = Experiment!Absent /\ (top' = top \/ top' = held)
      BY <1>12 DEF Experiment!write_top
  <2>2. Sound(top, WithEvidence') /\ Sound(held, WithEvidence') /\ Sound(Experiment!Absent, WithEvidence')
      BY <1>0, SoundStays, AbsentIsSound DEF PassedHasEvidence
  <2>3. ManifestHas /\ MergedHas
      BY <1>b, <1>c, <2>1
  <2> QED
      BY <2>1, <2>2, <2>3 DEF PassedHasEvidence, ManifestHas, MergedHas
<1>13. CASE UNCHANGED Experiment!vars
    BY <1>13, <1>a, <1>b, <1>c DEF Experiment!vars
<1> QED
    BY <1>1, <1>3, <1>4, <1>5, <1>6, <1>7, <1>8, <1>9, <1>10, <1>11, <1>12, <1>13 DEF Experiment!Next

\* What an orchestration has recorded as passed still says so in its own manifest: only the
\* constituent at hand is written, and it is recorded after that.
LEMMA RecordedStep ==
    ASSUME ExperimentInv, [Experiment!Next]_(Experiment!vars)
    PROVE  RecordedStands'
<1> USE DEF Experiment!files_vars, Experiment!run_vars, Experiment!invalidation_vars
<1>0. RecordedStands /\ TodoIsPlan /\ FilesTyped
    BY DEF ExperimentInv, Experiment!TypeOK, FilesTyped
<1>1. ASSUME NEW profiles, NEW force, Experiment!launch(profiles, force)
      PROVE  RecordedStands'
  <2>1. CASE Experiment!Loadable
    <3> DEFINE kept == DOMAIN top.items \ Superseded
               planned == Experiment!ToSet(Experiment!Planned(profiles))
    <3>1. /\ merged' = [n \in kept \cup planned |-> IF n \in kept THEN top.items[n].status ELSE "PENDING"]
          /\ selected' = planned /\ todo' = Experiment!Planned(profiles) /\ x_pc' = "next" /\ exit' = "none"
        BY <1>1, <2>1 DEF Experiment!launch
    <3>2. kept \subseteq Experiment!Constituents
        BY DEF ExperimentInv, PassedHasEvidence, Sound
    <3>3. planned \subseteq Experiment!Constituents
        BY PlannedIsDistinct DEF Experiment!ToSet
    <3>4. Elements(todo)' = planned
        BY <3>1 DEF Elements, Experiment!ToSet
    <3> HIDE DEF kept, planned
    <3> QED
        BY <3>1, <3>2, <3>3, <3>4 DEF RecordedStands
  <2>2. CASE ~Experiment!Loadable
    <3>1. x_pc' = "idle" /\ exit' = "raised"
        BY <1>1, <2>2 DEF Experiment!launch
    <3> QED
        BY <3>1 DEF RecordedStands
  <2> QED
      BY <2>1, <2>2
<1>2. ASSUME Experiment!reuse \/ Experiment!record
      PROVE  RecordedStands'
  <2>1. /\ todo # <<>> /\ x_pc # "idle" /\ x_pc' = "next" /\ UNCHANGED <<manifest, selected, exit>>
        /\ merged' = [merged EXCEPT ![Experiment!Now] = manifest[Experiment!Now]]
        /\ todo' = Tail(todo)
      BY <1>0, <1>2 DEF Experiment!reuse, Experiment!record, Experiment!Recorded, TodoIsPlan
  <2>2. Elements(todo) = Elements(todo') \cup {Experiment!Now} /\ Elements(todo)' = Elements(todo')
      BY <1>0, <2>1, NowAndRest DEF Elements
  <2>3. DOMAIN merged' = DOMAIN merged
      BY <2>1
  <2>4. ASSUME NEW n \in selected \ Elements(todo'), merged'[n] = "PASSED"
        PROVE  manifest[n] = "PASSED"
      BY <1>0, <2>1, <2>2, <2>4 DEF RecordedStands
  <2> QED
      BY <1>0, <2>1, <2>2, <2>3, <2>4 DEF RecordedStands
<1>3. ASSUME UNCHANGED <<selected, todo, merged, exit>>, x_pc # "idle", x_pc' # "idle", todo # <<>>,
             UNCHANGED manifest \/ \E x : manifest' = [manifest EXCEPT ![Experiment!Now] = x]
      PROVE  RecordedStands'
  <2>1. Experiment!Now \in Elements(todo) /\ Elements(todo)' = Elements(todo)
      BY <1>0, <1>3, NowAndRest DEF Elements
  <2>2. \A n \in Experiment!Constituents : n # Experiment!Now => manifest'[n] = manifest[n]
      BY <1>0, <1>3 DEF FilesTyped
  <2> QED
      BY <1>0, <1>3, <2>1, <2>2 DEF RecordedStands
<1>4. ASSUME Experiment!begin \/ Experiment!unprovisioned \/ Experiment!finish
      PROVE  RecordedStands'
    BY <1>0, <1>3, <1>4 DEF Experiment!begin, Experiment!unprovisioned, Experiment!finish, TodoIsPlan
<1>5. ASSUME \/ Experiment!child_begins \/ Experiment!ensure_pair \/ Experiment!conclude \/ Experiment!child_fails
             \/ Experiment!bench_passes
      PROVE  RecordedStands'
    BY <1>0, <1>3, <1>5 DEF Experiment!child_begins, Experiment!ensure_pair, Experiment!conclude,
        Experiment!child_fails, Experiment!bench_passes, Experiment!Exits, TodoIsPlan
<1>6. ASSUME NEW file, Experiment!persist(file)
      PROVE  RecordedStands'
    BY <1>0, <1>3, <1>6 DEF Experiment!persist, TodoIsPlan
<1>7. ASSUME Experiment!complete
      PROVE  RecordedStands'
  <2>1. /\ x_pc = "next" /\ todo = <<>> /\ x_pc' = "idle" /\ UNCHANGED <<manifest, selected>>
        /\ exit' = "ok" => Experiment!Persisted(merged).status = "PASSED"
      BY <1>7 DEF Experiment!complete, Experiment!Over
  <2>2. ASSUME exit' = "ok", NEW n \in selected
        PROVE  manifest[n] = "PASSED"
    <3>1. n \notin Elements(todo) /\ n \in DOMAIN merged
        BY <1>0, <2>1, <2>2 DEF RecordedStands, Elements
    <3>2. merged[n] = "PASSED"
        BY <2>1, <2>2, <3>1, PersistedSays
    <3> QED
        BY <1>0, <2>1, <2>2, <3>1, <3>2 DEF RecordedStands
  <2> QED
      BY <2>1, <2>2 DEF RecordedStands
<1>8. ASSUME Experiment!crash
      PROVE  RecordedStands'
  <2>1. x_pc' = "idle" /\ exit' = "crashed"
      BY <1>8 DEF Experiment!crash, Experiment!Over
  <2> QED
      BY <2>1 DEF RecordedStands
<1>9. ASSUME UNCHANGED <<x_pc, selected, todo, merged, exit, manifest>>
      PROVE  RecordedStands'
    BY <1>0, <1>9 DEF RecordedStands, Elements
<1>10. ASSUME NEW script, Experiment!invalidate(script)
       PROVE  RecordedStands'
    BY <1>9, <1>10 DEF Experiment!invalidate
<1>11. ASSUME Experiment!mark \/ Experiment!read_top \/ Experiment!write_top \/ UNCHANGED Experiment!vars
       PROVE  RecordedStands'
    BY <1>9, <1>11 DEF Experiment!mark, Experiment!read_top, Experiment!write_top, Experiment!vars
<1> QED
    BY <1>1, <1>2, <1>4, <1>5, <1>6, <1>7, <1>8, <1>10, <1>11 DEF Experiment!Next

\* One element of a sequence is replaced.
LEMMA ElementReplaced ==
    ASSUME NEW S, NEW s \in Seq(S), NEW i \in 1..Len(s), NEW x \in S
    PROVE  /\ [s EXCEPT ![i] = x] \in Seq(S) /\ Len([s EXCEPT ![i] = x]) = Len(s)
           /\ \A j \in 1..Len(s) : j # i => [s EXCEPT ![i] = x][j] = s[j]
    OBVIOUS

\* An invalidation copies the last of the copies before it marks it, or marks one before it.
LEMMA CopiesStep ==
    ASSUME ExperimentInv, [Experiment!Next]_(Experiment!vars)
    PROVE  LastCopyPassed'
<1> USE DEF Experiment!files_vars, Experiment!run_vars, Experiment!invalidation_vars
<1>0. LastCopyPassed
    BY DEF ExperimentInv
<1>1. ASSUME UNCHANGED copies PROVE LastCopyPassed'
    BY <1>0, <1>1 DEF LastCopyPassed
<1>2. ASSUME NEW profiles, NEW force, Experiment!launch(profiles, force)
      PROVE  LastCopyPassed'
    BY <1>1, <1>2 DEF Experiment!launch
<1>3. ASSUME \/ Experiment!reuse \/ Experiment!record \/ Experiment!begin \/ Experiment!unprovisioned
             \/ Experiment!bench_passes \/ Experiment!finish \/ Experiment!complete \/ Experiment!child_begins
             \/ Experiment!ensure_pair \/ Experiment!conclude \/ Experiment!child_fails \/ Experiment!crash
             \/ Experiment!read_top \/ Experiment!write_top \/ UNCHANGED Experiment!vars
      PROVE  LastCopyPassed'
    BY <1>1, <1>3 DEF Experiment!reuse, Experiment!record, Experiment!begin, Experiment!unprovisioned,
        Experiment!bench_passes, Experiment!finish, Experiment!complete, Experiment!child_begins,
        Experiment!ensure_pair, Experiment!conclude, Experiment!child_fails, Experiment!crash, Experiment!read_top,
        Experiment!write_top, Experiment!vars
<1>4. ASSUME NEW file, Experiment!persist(file)
      PROVE  LastCopyPassed'
    BY <1>1, <1>4 DEF Experiment!persist
<1>5. ASSUME NEW script, Experiment!invalidate(script)
      PROVE  LastCopyPassed'
    BY <1>1, <1>5 DEF Experiment!invalidate
<1>6. ASSUME Experiment!mark
      PROVE  LastCopyPassed'
  <2> DEFINE n == Head(left)[1]
             i == Head(left)[2]
             copied == Experiment!Copied(copies[n], i)
             marked == [copied EXCEPT ![i] = Experiment!Marked(copied[i])]
  <2>1. copies' = [copies EXCEPT ![n] = marked] /\ i > 0
      BY <1>6 DEF Experiment!mark
  <2>2. CASE n \in Superseded \cup Legacy
    <3>1. /\ copies[n] \in Seq(CopyRecords)
          /\ copies[n] # <<>> => copies[n][Len(copies[n])].status = "PASSED"
        BY <1>0, <2>2 DEF LastCopyPassed
    <3>2. marked \in Seq(CopyRecords) /\ (marked # <<>> => marked[Len(marked)].status = "PASSED")
      <4> HIDE DEF n
      <4>1. CASE Len(copies[n]) = i
        <5>1. copied = Append(copies[n], copies[n][i]) /\ i \in 1..Len(copies[n]) /\ copies[n] # <<>>
            BY <2>1, <3>1, <4>1 DEF Experiment!Copied
        <5>2. copies[n][i] \in CopyRecords
            BY <3>1, <5>1
        <5> HIDE DEF copied, i
        <5>3. copied \in Seq(CopyRecords) /\ Len(copied) = i + 1 /\ copied[i + 1] = copies[n][i] /\ copied[i] = copies[n][i]
            BY <3>1, <4>1, <5>1, <5>2
        <5>4. Experiment!Marked(copied[i]) \in CopyRecords
            BY <5>2, <5>3 DEF Experiment!Marked, CopyRecords
        <5>5. marked \in Seq(CopyRecords) /\ Len(marked) = i + 1 /\ marked[i + 1] = copied[i + 1]
          <6>1. i \in 1..Len(copied) /\ i + 1 \in 1..Len(copied) /\ i + 1 # i
              BY <5>1, <5>3
          <6> QED
              BY <5>3, <5>4, <6>1, ElementReplaced
        <5> QED
            BY <3>1, <4>1, <5>1, <5>3, <5>5
      <4>2. CASE Len(copies[n]) # i
        <5>1. copied = copies[n]
            BY <4>2 DEF Experiment!Copied
        <5>2. CASE i \in 1..Len(copies[n])
          <6>1. copied[i] \in CopyRecords
              BY <3>1, <5>1, <5>2
          <6>2. Experiment!Marked(copied[i]) \in CopyRecords
              BY <6>1 DEF Experiment!Marked, CopyRecords
          <6> HIDE DEF copied
          <6>3. marked \in Seq(CopyRecords) /\ Len(marked) = Len(copies[n]) /\ marked[Len(marked)] = copied[Len(copies[n])]
              BY <3>1, <4>2, <5>1, <5>2, <6>2
          <6> QED
              BY <3>1, <5>1, <5>2, <6>3
        <5>3. CASE i \notin 1..Len(copies[n])
          <6>1. DOMAIN copied = 1..Len(copies[n])
              BY <3>1, <5>1
          <6> HIDE DEF copied
          <6>2. marked = copied
              BY <3>1, <5>1, <5>3, <6>1
          <6> QED
              BY <3>1, <5>1, <6>2
        <5> QED
            BY <5>2, <5>3
      <4> QED
          BY <4>1, <4>2
    <3> HIDE DEF marked, n
    <3> QED
        BY <1>0, <2>1, <2>2, <3>2 DEF LastCopyPassed
  <2>3. CASE n \notin Superseded \cup Legacy
    <3> HIDE DEF marked, n
    <3>1. UNCHANGED copies
        BY <1>0, <2>1, <2>3 DEF LastCopyPassed
    <3> QED
        BY <1>1, <3>1
  <2> QED
      BY <2>2, <2>3
<1> QED
    BY <1>2, <1>3, <1>4, <1>5, <1>6 DEF Experiment!Next

\* A bench has its keys from its begin to its end; those of one that dies remain, and it dies
\* of a fault.
LEMMA KeysStep ==
    ASSUME ExperimentInv, [Experiment!Next]_(Experiment!vars)
    PROVE  KeysCounted'
<1> USE DEF Experiment!files_vars, Experiment!run_vars, Experiment!invalidation_vars
<1>0. KeysCounted /\ TodoIsPlan
    BY DEF ExperimentInv
<1>1. ASSUME NEW profiles, NEW force, Experiment!launch(profiles, force)
      PROVE  KeysCounted'
    BY <1>0, <1>1 DEF Experiment!launch, KeysCounted, HasKeys
<1>2. ASSUME Experiment!reuse \/ Experiment!record \/ Experiment!complete
      PROVE  KeysCounted'
    BY <1>0, <1>2 DEF Experiment!reuse, Experiment!record, Experiment!Recorded, Experiment!complete, Experiment!Over,
        KeysCounted, HasKeys
<1>3. ASSUME Experiment!begin
      PROVE  KeysCounted'
    BY <1>0, <1>3 DEF Experiment!begin, KeysCounted, HasKeys, Experiment!Now
<1>4. ASSUME Experiment!unprovisioned
      PROVE  KeysCounted'
    BY <1>0, <1>4 DEF Experiment!unprovisioned, KeysCounted, HasKeys
<1>5. ASSUME Experiment!child_begins \/ Experiment!ensure_pair \/ Experiment!conclude
      PROVE  KeysCounted'
  <2>1. /\ Experiment!Now # "nosql" /\ Experiment!Now' = Experiment!Now /\ UNCHANGED <<secrets, faults>>
        /\ x_pc \in {"child", "pair"}
      BY <1>0, <1>5, NowIsOne DEF Experiment!child_begins, Experiment!ensure_pair, Experiment!conclude, Experiment!Now,
          TodoIsPlan
  <2> QED
      BY <1>0, <2>1 DEF KeysCounted, HasKeys
<1>6. ASSUME NEW file, Experiment!persist(file)
      PROVE  KeysCounted'
  <2>1. x_pc = "writing" /\ x_pc' = "pair" /\ UNCHANGED secrets /\ faults' \in {faults, faults + 1}
      BY <1>6 DEF Experiment!persist
  <2> QED
      BY <1>0, <2>1 DEF KeysCounted, HasKeys
<1>7. ASSUME Experiment!child_fails
      PROVE  KeysCounted'
  <2>1. /\ x_pc \in {"child", "pair", "writing"} /\ x_pc' = "exited" /\ UNCHANGED secrets /\ faults' = faults + 1
        /\ Experiment!Now' = Experiment!Now
      BY <1>7 DEF Experiment!child_fails, Experiment!Exits, Experiment!Now
  <2>2. x_pc # "child" => Experiment!Now # "nosql"
      BY <1>0, <2>1, NowIsOne DEF TodoIsPlan
  <2> QED
      BY <1>0, <2>1, <2>2 DEF KeysCounted, HasKeys
<1>8. ASSUME Experiment!bench_passes
      PROVE  KeysCounted'
    BY <1>0, <1>8 DEF Experiment!bench_passes, Experiment!Exits, KeysCounted, HasKeys, Experiment!Now
<1>9. ASSUME Experiment!finish
      PROVE  KeysCounted'
    BY <1>0, <1>9 DEF Experiment!finish, KeysCounted, HasKeys
<1>10. ASSUME Experiment!crash
       PROVE  KeysCounted'
  <2>1. x_pc' = "idle" /\ UNCHANGED secrets /\ faults' = faults + 1
      BY <1>10 DEF Experiment!crash, Experiment!Over
  <2> QED
      BY <1>0, <2>1 DEF KeysCounted, HasKeys
<1>11. ASSUME UNCHANGED <<x_pc, todo, secrets, faults>> PROVE KeysCounted'
    BY <1>0, <1>11 DEF KeysCounted, HasKeys, Experiment!Now
<1>12. ASSUME NEW script, Experiment!invalidate(script)
       PROVE  KeysCounted'
    BY <1>11, <1>12 DEF Experiment!invalidate
<1>13. ASSUME Experiment!mark \/ Experiment!read_top \/ Experiment!write_top \/ UNCHANGED Experiment!vars
       PROVE  KeysCounted'
    BY <1>11, <1>13 DEF Experiment!mark, Experiment!read_top, Experiment!write_top, Experiment!vars
<1> QED
    BY <1>1, <1>2, <1>3, <1>4, <1>5, <1>6, <1>7, <1>8, <1>9, <1>10, <1>12, <1>13 DEF Experiment!Next

-----------------------------------------------------------------------------
(* Together *)

\* Before the first launch nothing is there but, possibly, the publications of before.
LEMMA ExperimentInit == Experiment!Init => ExperimentInv
<1> SUFFICES ASSUME Experiment!Init PROVE ExperimentInv
    OBVIOUS
<1> USE OperationsConstants DEF Experiment!ExperimentConstants
<1>1. /\ manifest = [n \in Experiment!Constituents |-> "ABSENT"]
      /\ files = [n \in Experiment!Commerce |-> [p \in 1..Pairs |-> "absent"]] /\ described = {}
      /\ x_pc = "idle" /\ selected = {} /\ todo = <<>> /\ merged = <<>> /\ at = 1 /\ rc = 0 /\ exit = "none"
      /\ secrets = 0 /\ held = Experiment!Absent /\ faults = 0
    BY DEF Experiment!Init
<1>2. PICK before \in BOOLEAN :
        /\ top = IF before
                 THEN [status |-> "PASSED",
                       items |-> [n \in Superseded |-> [status |-> "PASSED", marked |-> FALSE]]]
                 ELSE Experiment!Absent
        /\ copies = [n \in Superseded \cup Legacy |->
                       IF before THEN <<[status |-> "PASSED", original |-> "none"]>> ELSE <<>>]
    BY DEF Experiment!Init
<1>3. Sound(top, WithEvidence)
  <2>1. CASE before
    <3> DEFINE items == [n \in Superseded |-> [status |-> "PASSED", marked |-> FALSE]]
    <3>1. top = [status |-> "PASSED", items |-> items]
        BY <1>2, <2>1
    <3>2. DOMAIN items = Superseded /\ \A n \in Superseded : items[n] = [status |-> "PASSED", marked |-> FALSE]
        OBVIOUS
    <3>3. items = [n \in DOMAIN items |-> [status |-> items[n].status, marked |-> items[n].marked]]
        OBVIOUS
    <3> HIDE DEF items
    <3>4. top.items = items /\ top = [status |-> top.status, items |-> top.items]
        BY <3>1
    <3>5. Superseded \cap Experiment!Commerce = {}
        BY DEF Experiment!Constituents
    <3> QED
        BY <3>2, <3>3, <3>4, <3>5 DEF Sound
  <2>2. CASE ~before
      BY <1>2, <2>2, AbsentIsSound
  <2> QED
      BY <2>1, <2>2
<1>4. Sound(held, WithEvidence)
    BY <1>1, AbsentIsSound
<1>5. LastCopyPassed
  <2>1. <<[status |-> "PASSED", original |-> "none"]>> \in Seq(CopyRecords) /\ <<>> \in Seq(CopyRecords)
      BY DEF CopyRecords
  <2>2. \A n \in Superseded \cup Legacy :
           copies[n] = (IF before THEN <<[status |-> "PASSED", original |-> "none"]>> ELSE <<>>)
      BY <1>2
  <2>3. copies \in [Superseded \cup Legacy -> Seq(CopyRecords)]
      BY <1>2, <2>1
  <2> QED
      BY <2>2, <2>3 DEF LastCopyPassed
<1>6. PassedHasEvidence
    BY <1>1, <1>3, <1>4 DEF PassedHasEvidence, Experiment!Constituents
<1>7. Experiment!TypeOK
  <2>1. DOMAIN top.items \subseteq Experiment!Constituents \cup Superseded
      BY <1>3 DEF Sound
  <2> QED
      BY <1>1, <2>1 DEF Experiment!TypeOK, Experiment!Files
<1>8. TodoIsPlan /\ ChildProgress /\ RecordedStands /\ KeysCounted
    BY <1>1 DEF TodoIsPlan, Distinct, ChildProgress, RecordedStands, KeysCounted, HasKeys
<1> QED
    BY <1>5, <1>6, <1>7, <1>8 DEF ExperimentInv

\* The invariant is inductive.
LEMMA ExperimentStep == ExperimentInv /\ [Experiment!Next]_(Experiment!vars) => ExperimentInv'
<1> SUFFICES ASSUME ExperimentInv, [Experiment!Next]_(Experiment!vars) PROVE ExperimentInv'
    OBVIOUS
<1>1. FilesTyped' /\ TodoIsPlan' /\ ChildProgress' /\ PassedHasEvidence' /\ RecordedStands' /\ LastCopyPassed' /\ KeysCounted'
    BY FilesTypedStep, TodoStep, ChildStep, PassedStep, RecordedStep, CopiesStep, KeysStep
<1>2. Experiment!TypeOK'
    BY <1>1 DEF FilesTyped, PassedHasEvidence, Sound, KeysCounted, Experiment!TypeOK
<1> QED
    BY <1>1, <1>2 DEF ExperimentInv

\* What the invariant says of the evidence, of the exit, of the export, of the copies and of the keys
LEMMA WholeByInvariant == ExperimentInv => Experiment!EvidenceIsWhole
<1> SUFFICES ASSUME ExperimentInv PROVE Experiment!EvidenceIsWhole
    OBVIOUS
<1>1. ASSUME NEW n \in Experiment!Commerce,
             manifest[n] = "PASSED" \/ (n \in DOMAIN top.items /\ top.items[n].status = "PASSED")
      PROVE  Experiment!Evidenced(n)
    BY <1>1 DEF ExperimentInv, PassedHasEvidence, Sound, WithEvidence
<1>2. exit = "ok" /\ x_pc = "idle" => \A n \in selected : manifest[n] = "PASSED"
    BY DEF ExperimentInv, RecordedStands
<1>3. ASSUME Experiment!Verified PROVE Experiment!Exported = Experiment!Commerce
  <2>1. /\ "safety" \in DOMAIN top.items /\ "safety" \notin Superseded
        /\ {"safety", "nosql"} \cap Experiment!Commerce = {}
      BY <1>3, OperationsConstants DEF Experiment!Verified, Experiment!Constituents, Experiment!ExperimentConstants
  <2>2. DOMAIN top.items = Experiment!Constituents
      BY <1>3, <2>1 DEF Experiment!Verified, ExperimentInv, PassedHasEvidence, Sound
  <2> QED
      BY <1>3, <2>1, <2>2 DEF Experiment!Verified, Experiment!Exported, Experiment!Constituents
<1>4. ASSUME NEW n \in DOMAIN copies, copies[n] # <<>>
      PROVE  \E i \in 1..Len(copies[n]) : "PASSED" \in {copies[n][i].status, copies[n][i].original}
  <2>1. copies[n] \in Seq(CopyRecords) /\ copies[n][Len(copies[n])].status = "PASSED"
      BY <1>4 DEF ExperimentInv, LastCopyPassed
  <2>2. Len(copies[n]) \in 1..Len(copies[n])
      BY <1>4, <2>1
  <2> QED
      BY <2>1, <2>2
<1>5. secrets <= faults + (IF x_pc # "idle" /\ todo # <<>> /\ Experiment!Now = "nosql" THEN 1 ELSE 0)
  <2>1. HasKeys => x_pc # "idle" /\ todo # <<>> /\ Experiment!Now = "nosql"
      BY DEF HasKeys, ExperimentInv, TodoIsPlan
  <2> QED
      BY <2>1 DEF ExperimentInv, KeysCounted
<1> QED
    BY <1>1, <1>2, <1>3, <1>4, <1>5 DEF Experiment!EvidenceIsWhole

\* Whatever else is operated, the experiments and the pairs take their own steps or none.
LEMMA ExperimentAlone == AllSpec => Experiment!Spec
<1>1. AllInit => Experiment!Init
    BY DEF AllInit
<1>2. [AllNext]_allvars => [Experiment!Next]_(Experiment!vars)
    BY DEF AllNext, allvars, x_vars, Experiment!vars, Experiment!files_vars, Experiment!run_vars,
        Experiment!invalidation_vars
<1> QED
    BY <1>1, <1>2, PTL DEF AllSpec, Experiment!Spec

\* The same of the pairs
LEMMA PairsAlone == AllSpec => Benchmark!Spec
<1>1. AllInit => Benchmark!Init
    BY DEF AllInit
<1>2. [AllNext]_allvars => [Benchmark!Next]_(Benchmark!vars)
    BY DEF AllNext, allvars, b_vars, Benchmark!vars, Benchmark!database, Benchmark!executor, Benchmark!bounds
<1> QED
    BY <1>1, <1>2, PTL DEF AllSpec, Benchmark!Spec

\* experiment_orchestrator.py, r28_runner.py, the two invalidations, the check and the export: for
\* every number of constituents and pairs, whatever is interrupted, repeated or invalidated, what
\* passed has its whole evidence, an orchestration that returns 0 has passed all it was told to
\* run, exactly what was verified is exported, and superseded results and keys are accounted for;
\* and reset.py: both arms of a pair that is persisted began from the dataset as generated.
THEOREM EvidenceStaysWhole == AllSpec => []EvidenceIsWhole
<1>1. Experiment!Spec => []ExperimentInv
    BY ExperimentInit, ExperimentStep, PTL DEF Experiment!Spec
<1>2. Benchmark!Spec => []PairInv
    BY PairInit, PairStep, PTL DEF Benchmark!Spec
<1>3. ExperimentInv /\ PairInv => EvidenceIsWhole
    BY WholeByInvariant DEF PairInv, EvidenceIsWhole
<1> QED
    BY <1>1, <1>2, <1>3, ExperimentAlone, PairsAlone, PTL

\* run_pair of r28_runner.py: no step of an orchestration, and none of its repetitions, changes a
\* file of trials that has both its arms.
THEOREM PairsAreMeasuredOnce == AllSpec => MeasuredOnce
<1> DEFINE Once == \A n \in Experiment!Commerce : \A p \in 1..Pairs :
                      files[n][p] \in {"whole", "void"} => files'[n][p] = files[n][p]
<1>1. Experiment!Spec => []ExperimentInv
    BY ExperimentInit, ExperimentStep, PTL DEF Experiment!Spec
<1>2. ExperimentInv /\ [Experiment!Next]_(Experiment!vars) => Once
    BY FilesFrozen
<1>3. Experiment!Spec => [][Once]_(Experiment!vars)
    BY <1>1, <1>2, PTL DEF Experiment!Spec
<1> QED
    BY <1>3, ExperimentAlone DEF MeasuredOnce, Experiment!MeasuredOnce

-----------------------------------------------------------------------------
(* Migrations: the revisions of the chain *)

\* What a revision makes or redefines
Touched(v) == v.make \cup v.ensure \cup v.put

\* The names 0004 changes, before and after it, and the column a downgrade of 0018 leaves
Old == DOMAIN rev_0004.rename
New == {rev_0004.rename[o] : o \in Old}
Residue == "approval_requests.optimization_run_id"

\* The indexes on the jobs of a run
Initial == "jobs(optimization_run_id): initial"
Continuation == "jobs(optimization_run_id): continuation"

\* alembic/versions: the revisions in the order of the chain
LEMMA RevisionAt ==
    /\ Revisions[1] = rev_0001
    /\ Revisions[2] = rev_0002
    /\ Revisions[3] = rev_0003
    /\ Revisions[4] = rev_0004
    /\ Revisions[5] = rev_0005
    /\ Revisions[6] = rev_0006
    /\ Revisions[7] = rev_0007
    /\ Revisions[8] = rev_0008
    /\ Revisions[9] = rev_0009
    /\ Revisions[10] = rev_0010
    /\ Revisions[11] = rev_0011
    /\ Revisions[12] = rev_0012
    /\ Revisions[13] = rev_0013
    /\ Revisions[14] = rev_0014
    /\ Revisions[15] = rev_0015
    /\ Revisions[16] = rev_0016
    /\ Revisions[17] = rev_0017
    /\ Revisions[18] = rev_0018
    /\ Revisions[19] = rev_0019
    /\ Revisions[20] = rev_0020
    /\ Revisions[21] = rev_0021
    /\ Revisions[22] = rev_0022
    /\ Revisions[23] = rev_0023
  BY DEF Revisions

\* 0004: the tables it renames
LEMMA RenamedNames ==
    /\ Old = {"encrypted_secrets", "target_evaluation_mappings", "target_capability_snapshots",
              "optimization_candidates", "evaluation_trial_pairs", "safety_check_results", "system_settings"}
    /\ New = {"target_credentials", "evaluation_mappings", "capability_snapshots",
              "candidates", "trial_pairs", "safety_results", "settings"}
  <1>1. Old = {"encrypted_secrets", "target_evaluation_mappings", "target_capability_snapshots",
              "optimization_candidates", "evaluation_trial_pairs", "safety_check_results", "system_settings"}
    BY DEF Old, rev_0004, Revision
  <1>2. /\ rev_0004.rename["encrypted_secrets"] = "target_credentials"
        /\ rev_0004.rename["target_evaluation_mappings"] = "evaluation_mappings"
        /\ rev_0004.rename["target_capability_snapshots"] = "capability_snapshots"
        /\ rev_0004.rename["optimization_candidates"] = "candidates"
        /\ rev_0004.rename["evaluation_trial_pairs"] = "trial_pairs"
        /\ rev_0004.rename["safety_check_results"] = "safety_results"
        /\ rev_0004.rename["system_settings"] = "settings"
    BY DEF rev_0004, Revision
  <1> QED BY <1>1, <1>2 DEF New

\* alembic/versions: which revisions rename, leave something behind, and go down again
LEMMA RevisionFields ==
    ASSUME NEW r \in 1..Newest
    PROVE  /\ Revisions[r].reversible <=> r <= 18
           /\ r # 18 => Revisions[r].leave = {}
           /\ r = 18 => Revisions[r].leave = {Residue}
           /\ r # 4 => DOMAIN Revisions[r].rename = {}
           /\ r = 4 => Revisions[r].rename = rev_0004.rename
           /\ r \in 19..22 => Revisions[r].make = {}
           /\ r = 23 => Revisions[r].make = {Continuation}
           /\ Makes[r] = Touched(Revisions[r])
  <1>1. /\ rev_0001.reversible = TRUE
        /\ rev_0002.reversible = TRUE
        /\ rev_0003.reversible = TRUE
        /\ rev_0004.reversible = TRUE
        /\ rev_0005.reversible = TRUE
        /\ rev_0006.reversible = TRUE
        /\ rev_0007.reversible = TRUE
        /\ rev_0008.reversible = TRUE
        /\ rev_0009.reversible = TRUE
        /\ rev_0010.reversible = TRUE
        /\ rev_0011.reversible = TRUE
        /\ rev_0012.reversible = TRUE
        /\ rev_0013.reversible = TRUE
        /\ rev_0014.reversible = TRUE
        /\ rev_0015.reversible = TRUE
        /\ rev_0016.reversible = TRUE
        /\ rev_0017.reversible = TRUE
        /\ rev_0018.reversible = TRUE
        /\ rev_0019.reversible = FALSE
        /\ rev_0020.reversible = FALSE
        /\ rev_0021.reversible = FALSE
        /\ rev_0022.reversible = FALSE
        /\ rev_0023.reversible = FALSE
    BY DEF rev_0001, rev_0002, rev_0003, rev_0004, rev_0005, rev_0006, rev_0007, rev_0008, rev_0009,
      rev_0010, rev_0011, rev_0012, rev_0013, rev_0014, rev_0015, rev_0016, rev_0017, rev_0018,
      rev_0019, rev_0020, rev_0021, rev_0022, rev_0023, Revision
  <1>2. /\ rev_0001.leave = {}
        /\ rev_0002.leave = {}
        /\ rev_0003.leave = {}
        /\ rev_0004.leave = {}
        /\ rev_0005.leave = {}
        /\ rev_0006.leave = {}
        /\ rev_0007.leave = {}
        /\ rev_0008.leave = {}
        /\ rev_0009.leave = {}
        /\ rev_0010.leave = {}
        /\ rev_0011.leave = {}
        /\ rev_0012.leave = {}
        /\ rev_0013.leave = {}
        /\ rev_0014.leave = {}
        /\ rev_0015.leave = {}
        /\ rev_0016.leave = {}
        /\ rev_0017.leave = {}
        /\ rev_0018.leave = {Residue}
        /\ rev_0019.leave = {}
        /\ rev_0020.leave = {}
        /\ rev_0021.leave = {}
        /\ rev_0022.leave = {}
        /\ rev_0023.leave = {}
    BY DEF rev_0001, rev_0002, rev_0003, rev_0004, rev_0005, rev_0006, rev_0007, rev_0008, rev_0009,
      rev_0010, rev_0011, rev_0012, rev_0013, rev_0014, rev_0015, rev_0016, rev_0017, rev_0018,
      rev_0019, rev_0020, rev_0021, rev_0022, rev_0023, Revision, Residue
  <1>3. /\ DOMAIN rev_0001.rename = {}
        /\ DOMAIN rev_0002.rename = {}
        /\ DOMAIN rev_0003.rename = {}
        /\ DOMAIN rev_0005.rename = {}
        /\ DOMAIN rev_0006.rename = {}
        /\ DOMAIN rev_0007.rename = {}
        /\ DOMAIN rev_0008.rename = {}
        /\ DOMAIN rev_0009.rename = {}
        /\ DOMAIN rev_0010.rename = {}
        /\ DOMAIN rev_0011.rename = {}
        /\ DOMAIN rev_0012.rename = {}
        /\ DOMAIN rev_0013.rename = {}
        /\ DOMAIN rev_0014.rename = {}
        /\ DOMAIN rev_0015.rename = {}
        /\ DOMAIN rev_0016.rename = {}
        /\ DOMAIN rev_0017.rename = {}
        /\ DOMAIN rev_0018.rename = {}
        /\ DOMAIN rev_0019.rename = {}
        /\ DOMAIN rev_0020.rename = {}
        /\ DOMAIN rev_0021.rename = {}
        /\ DOMAIN rev_0022.rename = {}
        /\ DOMAIN rev_0023.rename = {}
    BY DEF rev_0001, rev_0002, rev_0003, rev_0005, rev_0006, rev_0007, rev_0008, rev_0009, rev_0010,
      rev_0011, rev_0012, rev_0013, rev_0014, rev_0015, rev_0016, rev_0017, rev_0018, rev_0019,
      rev_0020, rev_0021, rev_0022, rev_0023, Revision
  <1>4. rev_0019.make = {} /\ rev_0020.make = {} /\ rev_0021.make = {} /\ rev_0022.make = {}
        /\ rev_0023.make = {Continuation}
    BY DEF rev_0019, rev_0020, rev_0021, rev_0022, rev_0023, Revision, Continuation
  <1>5. Makes[r] = Touched(Revisions[r])
    BY DEF Makes, Touched
  <1>6. r \in 1..23
    BY DEF Newest
  <1>7. Revisions[r].reversible <=> r <= 18
    BY <1>1, <1>6, RevisionAt
  <1>8. (r # 18 => Revisions[r].leave = {}) /\ (r = 18 => Revisions[r].leave = {Residue})
    BY <1>2, <1>6, RevisionAt
  <1>9. (r # 4 => DOMAIN Revisions[r].rename = {}) /\ (r = 4 => Revisions[r].rename = rev_0004.rename)
    BY <1>3, <1>6, RevisionAt
  <1> QED BY <1>4, <1>5, <1>6, <1>7, <1>8, <1>9, RevisionAt

\* What 0004 renames is touched by 0001 alone, and by no revision under its new name; the
\* column that stays is touched by 0018 alone.
LEMMA RenamedOnce ==
    ASSUME NEW r \in 1..Newest
    PROVE  /\ Makes[r] \cap New = {} /\ Residue \notin Old \cup New
           /\ r # 1 => Makes[r] \cap Old = {}
           /\ r # 18 => Residue \notin Makes[r]
           /\ r = 18 => Residue \in Revisions[r].ensure /\ Residue \notin Revisions[r].make \cup Revisions[r].put
           /\ r = 1 => Old \subseteq Revisions[r].make
  <1> DEFINE Clear(v) == Touched(v) \cap (Old \cup New \cup {Residue}) = {}
  <1>1. Clear(rev_0002)
    BY RenamedNames DEF rev_0002, Touched, Residue, Revision
  <1>2. Clear(rev_0003)
    BY RenamedNames DEF rev_0003, Touched, Residue, Revision
  <1>3. Clear(rev_0004)
    BY RenamedNames DEF rev_0004, Touched, Residue, Revision
  <1>4. Clear(rev_0005)
    BY RenamedNames DEF rev_0005, Touched, Residue, Revision
  <1>5. Clear(rev_0006)
    BY RenamedNames DEF rev_0006, Touched, Residue, Revision
  <1>6. Clear(rev_0007)
    BY RenamedNames DEF rev_0007, Touched, Residue, Revision
  <1>7. Clear(rev_0008)
    BY RenamedNames DEF rev_0008, Touched, Residue, Revision
  <1>8. Clear(rev_0009)
    BY RenamedNames DEF rev_0009, Touched, Residue, Revision
  <1>9. Clear(rev_0010)
    BY RenamedNames DEF rev_0010, Touched, Residue, Revision
  <1>10. Clear(rev_0011)
    BY RenamedNames DEF rev_0011, Touched, Residue, Revision
  <1>11. Clear(rev_0012)
    BY RenamedNames DEF rev_0012, Touched, Residue, Revision
  <1>12. Clear(rev_0013)
    BY RenamedNames DEF rev_0013, Touched, Residue, Revision
  <1>13. Clear(rev_0014)
    BY RenamedNames DEF rev_0014, Touched, Residue, Revision
  <1>14. Clear(rev_0015)
    BY RenamedNames DEF rev_0015, Touched, Residue, Revision, Predeployment, Predeployment_immutable
  <1>15. Clear(rev_0016)
    BY RenamedNames DEF rev_0016, Touched, Residue, Revision
  <1>16. Clear(rev_0017)
    BY RenamedNames DEF rev_0017, Touched, Residue, Revision
  <1>17. Clear(rev_0019)
    BY RenamedNames DEF rev_0019, Touched, Residue, Revision
  <1>18. Clear(rev_0020)
    BY RenamedNames DEF rev_0020, Touched, Residue, Revision
  <1>19. Clear(rev_0021)
    BY RenamedNames DEF rev_0021, Touched, Residue, Revision
  <1>20. Clear(rev_0022)
    BY RenamedNames DEF rev_0022, Touched, Residue, Revision
  <1>21. Clear(rev_0023)
    BY RenamedNames DEF rev_0023, Touched, Residue, Revision
  <1>22. Touched(rev_0001) \cap (New \cup {Residue}) = {}
    BY RenamedNames DEF rev_0001, Touched, Residue, Revision
  <1>23. Touched(rev_0018) \cap (Old \cup New) = {}
    BY RenamedNames DEF rev_0018, Touched, Revision
  <1>24. Residue \notin Old \cup New
    BY RenamedNames DEF Residue
  <1>25. Residue \in rev_0018.ensure /\ Residue \notin rev_0018.make \cup rev_0018.put
    BY DEF Residue, rev_0018, Revision
  <1>26. r \in 1..23
    BY DEF Newest
  <1>27. Old \subseteq rev_0001.make
    BY RenamedNames DEF rev_0001, Revision
  <1> HIDE DEF Clear
  <1>28. r \notin {1, 18} => Clear(Revisions[r])
    BY <1>1, <1>2, <1>3, <1>4, <1>5, <1>6, <1>7, <1>8, <1>9, <1>10, <1>11, <1>12, <1>13, <1>14,
      <1>15, <1>16, <1>17, <1>18, <1>19, <1>20, <1>21, <1>26, RevisionAt
  <1> QED BY <1>22, <1>23, <1>24, <1>25, <1>26, <1>27, <1>28, RevisionAt, RevisionFields DEF Clear

\* What the revisions up to v have made, under the names they gave
MadeBy(v) == UNION {Makes[q] : q \in 1..v}

\* alembic/versions: up to 0018, what a revision makes (also IF NOT EXISTS) no revision before
\* it had made; 0023 makes one index more, and the others after 0018 nothing that has to be new.
LEMMA MadeOnce ==
    ASSUME NEW r \in 1..Newest
    PROVE  /\ r <= 18 => (Revisions[r].make \cup Revisions[r].ensure) \cap MadeBy(r - 1) = {}
           /\ Revisions[r].make \cap MadeBy(r - 1) = {}
  <1> DEFINE Apart(v, q) == (v.make \cup v.ensure) \cap Touched(q) = {}
  <1> HIDE DEF Apart
  <1>1. \A q \in 1..1 : Apart(Revisions[2], Revisions[q])
    <2>1. Apart(rev_0002, rev_0001)
      BY DEF rev_0001, rev_0002, Apart, Touched, Revision
    <2> QED BY <2>1, RevisionAt
  <1>2. \A q \in 1..2 : Apart(Revisions[3], Revisions[q])
    <2>1. Apart(rev_0003, rev_0001) /\ Apart(rev_0003, rev_0002)
      BY DEF rev_0001, rev_0002, rev_0003, Apart, Touched, Revision
    <2> QED BY <2>1, RevisionAt
  <1>3. \A q \in 1..3 : Apart(Revisions[4], Revisions[q])
    <2>1. Apart(rev_0004, rev_0001) /\ Apart(rev_0004, rev_0002) /\ Apart(rev_0004, rev_0003)
      BY DEF rev_0001, rev_0002, rev_0003, rev_0004, Apart, Touched, Revision
    <2> QED BY <2>1, RevisionAt
  <1>4. \A q \in 1..4 : Apart(Revisions[5], Revisions[q])
    <2>1. Apart(rev_0005, rev_0001) /\ Apart(rev_0005, rev_0002) /\ Apart(rev_0005, rev_0003) /\
          Apart(rev_0005, rev_0004)
      BY DEF rev_0001, rev_0002, rev_0003, rev_0004, rev_0005, Apart, Touched, Revision
    <2> QED BY <2>1, RevisionAt
  <1>5. \A q \in 1..5 : Apart(Revisions[6], Revisions[q])
    <2>1. Apart(rev_0006, rev_0001) /\ Apart(rev_0006, rev_0002) /\ Apart(rev_0006, rev_0003) /\
          Apart(rev_0006, rev_0004) /\ Apart(rev_0006, rev_0005)
      BY DEF rev_0001, rev_0002, rev_0003, rev_0004, rev_0005, rev_0006, Apart, Touched, Revision
    <2> QED BY <2>1, RevisionAt
  <1>6. \A q \in 1..6 : Apart(Revisions[7], Revisions[q])
    <2>1. Apart(rev_0007, rev_0001) /\ Apart(rev_0007, rev_0002) /\ Apart(rev_0007, rev_0003) /\
          Apart(rev_0007, rev_0004) /\ Apart(rev_0007, rev_0005) /\ Apart(rev_0007, rev_0006)
      BY DEF rev_0001, rev_0002, rev_0003, rev_0004, rev_0005, rev_0006, rev_0007, Apart, Touched, Revision
    <2> QED BY <2>1, RevisionAt
  <1>7. \A q \in 1..7 : Apart(Revisions[8], Revisions[q])
    <2>1. Apart(rev_0008, rev_0001) /\ Apart(rev_0008, rev_0002) /\ Apart(rev_0008, rev_0003) /\
          Apart(rev_0008, rev_0004) /\ Apart(rev_0008, rev_0005) /\ Apart(rev_0008, rev_0006) /\
          Apart(rev_0008, rev_0007)
      BY DEF rev_0001, rev_0002, rev_0003, rev_0004, rev_0005, rev_0006, rev_0007, rev_0008, Apart, Touched,
        Revision
    <2> QED BY <2>1, RevisionAt
  <1>8. \A q \in 1..8 : Apart(Revisions[9], Revisions[q])
    <2>1. Apart(rev_0009, rev_0001) /\ Apart(rev_0009, rev_0002) /\ Apart(rev_0009, rev_0003) /\
          Apart(rev_0009, rev_0004) /\ Apart(rev_0009, rev_0005) /\ Apart(rev_0009, rev_0006) /\
          Apart(rev_0009, rev_0007) /\ Apart(rev_0009, rev_0008)
      BY DEF rev_0001, rev_0002, rev_0003, rev_0004, rev_0005, rev_0006, rev_0007, rev_0008, rev_0009, Apart,
        Touched, Revision
    <2> QED BY <2>1, RevisionAt
  <1>9. \A q \in 1..9 : Apart(Revisions[10], Revisions[q])
    <2>1. Apart(rev_0010, rev_0001) /\ Apart(rev_0010, rev_0002) /\ Apart(rev_0010, rev_0003) /\
          Apart(rev_0010, rev_0004) /\ Apart(rev_0010, rev_0005) /\ Apart(rev_0010, rev_0006) /\
          Apart(rev_0010, rev_0007) /\ Apart(rev_0010, rev_0008) /\ Apart(rev_0010, rev_0009)
      BY DEF rev_0001, rev_0002, rev_0003, rev_0004, rev_0005, rev_0006, rev_0007, rev_0008, rev_0009,
        rev_0010, Apart, Touched, Revision
    <2> QED BY <2>1, RevisionAt
  <1>10. \A q \in 1..10 : Apart(Revisions[11], Revisions[q])
    <2>1. Apart(rev_0011, rev_0001) /\ Apart(rev_0011, rev_0002) /\ Apart(rev_0011, rev_0003) /\
          Apart(rev_0011, rev_0004) /\ Apart(rev_0011, rev_0005) /\ Apart(rev_0011, rev_0006) /\
          Apart(rev_0011, rev_0007) /\ Apart(rev_0011, rev_0008) /\ Apart(rev_0011, rev_0009) /\
          Apart(rev_0011, rev_0010)
      BY DEF rev_0001, rev_0002, rev_0003, rev_0004, rev_0005, rev_0006, rev_0007, rev_0008, rev_0009,
        rev_0010, rev_0011, Apart, Touched, Revision
    <2> QED BY <2>1, RevisionAt
  <1>11. \A q \in 1..11 : Apart(Revisions[12], Revisions[q])
    <2>1. Apart(rev_0012, rev_0001) /\ Apart(rev_0012, rev_0002) /\ Apart(rev_0012, rev_0003) /\
          Apart(rev_0012, rev_0004) /\ Apart(rev_0012, rev_0005) /\ Apart(rev_0012, rev_0006) /\
          Apart(rev_0012, rev_0007) /\ Apart(rev_0012, rev_0008) /\ Apart(rev_0012, rev_0009) /\
          Apart(rev_0012, rev_0010) /\ Apart(rev_0012, rev_0011)
      BY DEF rev_0001, rev_0002, rev_0003, rev_0004, rev_0005, rev_0006, rev_0007, rev_0008, rev_0009,
        rev_0010, rev_0011, rev_0012, Apart, Touched, Revision
    <2> QED BY <2>1, RevisionAt
  <1>12. \A q \in 1..12 : Apart(Revisions[13], Revisions[q])
    <2>1. Apart(rev_0013, rev_0001) /\ Apart(rev_0013, rev_0002) /\ Apart(rev_0013, rev_0003) /\
          Apart(rev_0013, rev_0004) /\ Apart(rev_0013, rev_0005) /\ Apart(rev_0013, rev_0006) /\
          Apart(rev_0013, rev_0007) /\ Apart(rev_0013, rev_0008) /\ Apart(rev_0013, rev_0009) /\
          Apart(rev_0013, rev_0010) /\ Apart(rev_0013, rev_0011) /\ Apart(rev_0013, rev_0012)
      BY DEF rev_0001, rev_0002, rev_0003, rev_0004, rev_0005, rev_0006, rev_0007, rev_0008, rev_0009,
        rev_0010, rev_0011, rev_0012, rev_0013, Apart, Touched, Revision
    <2> QED BY <2>1, RevisionAt
  <1>13. \A q \in 1..13 : Apart(Revisions[14], Revisions[q])
    <2>1. Apart(rev_0014, rev_0001) /\ Apart(rev_0014, rev_0002) /\ Apart(rev_0014, rev_0003) /\
          Apart(rev_0014, rev_0004) /\ Apart(rev_0014, rev_0005) /\ Apart(rev_0014, rev_0006) /\
          Apart(rev_0014, rev_0007) /\ Apart(rev_0014, rev_0008) /\ Apart(rev_0014, rev_0009) /\
          Apart(rev_0014, rev_0010) /\ Apart(rev_0014, rev_0011) /\ Apart(rev_0014, rev_0012) /\
          Apart(rev_0014, rev_0013)
      BY DEF rev_0001, rev_0002, rev_0003, rev_0004, rev_0005, rev_0006, rev_0007, rev_0008, rev_0009,
        rev_0010, rev_0011, rev_0012, rev_0013, rev_0014, Apart, Touched, Revision
    <2> QED BY <2>1, RevisionAt
  <1>14. \A q \in 1..14 : Apart(Revisions[15], Revisions[q])
    <2>1. Apart(rev_0015, rev_0001) /\ Apart(rev_0015, rev_0002) /\ Apart(rev_0015, rev_0003) /\
          Apart(rev_0015, rev_0004) /\ Apart(rev_0015, rev_0005) /\ Apart(rev_0015, rev_0006) /\
          Apart(rev_0015, rev_0007) /\ Apart(rev_0015, rev_0008) /\ Apart(rev_0015, rev_0009) /\
          Apart(rev_0015, rev_0010) /\ Apart(rev_0015, rev_0011) /\ Apart(rev_0015, rev_0012) /\
          Apart(rev_0015, rev_0013) /\ Apart(rev_0015, rev_0014)
      BY DEF rev_0001, rev_0002, rev_0003, rev_0004, rev_0005, rev_0006, rev_0007, rev_0008, rev_0009,
        rev_0010, rev_0011, rev_0012, rev_0013, rev_0014, rev_0015, Apart, Touched, Revision,
        Predeployment, Predeployment_immutable
    <2> QED BY <2>1, RevisionAt
  <1>15. \A q \in 1..15 : Apart(Revisions[16], Revisions[q])
    <2>1. Apart(rev_0016, rev_0001) /\ Apart(rev_0016, rev_0002) /\ Apart(rev_0016, rev_0003) /\
          Apart(rev_0016, rev_0004) /\ Apart(rev_0016, rev_0005) /\ Apart(rev_0016, rev_0006) /\
          Apart(rev_0016, rev_0007) /\ Apart(rev_0016, rev_0008) /\ Apart(rev_0016, rev_0009) /\
          Apart(rev_0016, rev_0010) /\ Apart(rev_0016, rev_0011) /\ Apart(rev_0016, rev_0012) /\
          Apart(rev_0016, rev_0013) /\ Apart(rev_0016, rev_0014) /\ Apart(rev_0016, rev_0015)
      BY DEF rev_0001, rev_0002, rev_0003, rev_0004, rev_0005, rev_0006, rev_0007, rev_0008, rev_0009,
        rev_0010, rev_0011, rev_0012, rev_0013, rev_0014, rev_0015, rev_0016, Apart, Touched, Revision,
        Predeployment, Predeployment_immutable
    <2> QED BY <2>1, RevisionAt
  <1>16. \A q \in 1..16 : Apart(Revisions[17], Revisions[q])
    <2>1. Apart(rev_0017, rev_0001) /\ Apart(rev_0017, rev_0002) /\ Apart(rev_0017, rev_0003) /\
          Apart(rev_0017, rev_0004) /\ Apart(rev_0017, rev_0005) /\ Apart(rev_0017, rev_0006) /\
          Apart(rev_0017, rev_0007) /\ Apart(rev_0017, rev_0008) /\ Apart(rev_0017, rev_0009) /\
          Apart(rev_0017, rev_0010) /\ Apart(rev_0017, rev_0011) /\ Apart(rev_0017, rev_0012) /\
          Apart(rev_0017, rev_0013) /\ Apart(rev_0017, rev_0014) /\ Apart(rev_0017, rev_0015) /\
          Apart(rev_0017, rev_0016)
      BY DEF rev_0001, rev_0002, rev_0003, rev_0004, rev_0005, rev_0006, rev_0007, rev_0008, rev_0009,
        rev_0010, rev_0011, rev_0012, rev_0013, rev_0014, rev_0015, rev_0016, rev_0017, Apart, Touched,
        Revision, Predeployment, Predeployment_immutable
    <2> QED BY <2>1, RevisionAt
  <1>17. \A q \in 1..17 : Apart(Revisions[18], Revisions[q])
    <2>1. Apart(rev_0018, rev_0001) /\ Apart(rev_0018, rev_0002) /\ Apart(rev_0018, rev_0003) /\
          Apart(rev_0018, rev_0004) /\ Apart(rev_0018, rev_0005) /\ Apart(rev_0018, rev_0006) /\
          Apart(rev_0018, rev_0007) /\ Apart(rev_0018, rev_0008) /\ Apart(rev_0018, rev_0009) /\
          Apart(rev_0018, rev_0010) /\ Apart(rev_0018, rev_0011) /\ Apart(rev_0018, rev_0012) /\
          Apart(rev_0018, rev_0013) /\ Apart(rev_0018, rev_0014) /\ Apart(rev_0018, rev_0015) /\
          Apart(rev_0018, rev_0016) /\ Apart(rev_0018, rev_0017)
      BY DEF rev_0001, rev_0002, rev_0003, rev_0004, rev_0005, rev_0006, rev_0007, rev_0008, rev_0009,
        rev_0010, rev_0011, rev_0012, rev_0013, rev_0014, rev_0015, rev_0016, rev_0017, rev_0018, Apart,
        Touched, Revision, Predeployment, Predeployment_immutable
    <2> QED BY <2>1, RevisionAt
  <1>18. Continuation \notin Touched(rev_0001) /\ Continuation \notin Touched(rev_0002) /\
        Continuation \notin Touched(rev_0003) /\ Continuation \notin Touched(rev_0004) /\
        Continuation \notin Touched(rev_0005) /\ Continuation \notin Touched(rev_0006) /\
        Continuation \notin Touched(rev_0007) /\ Continuation \notin Touched(rev_0008) /\
        Continuation \notin Touched(rev_0009) /\ Continuation \notin Touched(rev_0010) /\
        Continuation \notin Touched(rev_0011) /\ Continuation \notin Touched(rev_0012) /\
        Continuation \notin Touched(rev_0013) /\ Continuation \notin Touched(rev_0014) /\
        Continuation \notin Touched(rev_0015) /\ Continuation \notin Touched(rev_0016) /\
        Continuation \notin Touched(rev_0017) /\ Continuation \notin Touched(rev_0018) /\
        Continuation \notin Touched(rev_0019) /\ Continuation \notin Touched(rev_0020) /\
        Continuation \notin Touched(rev_0021) /\ Continuation \notin Touched(rev_0022)
    BY DEF rev_0001, rev_0002, rev_0003, rev_0004, rev_0005, rev_0006, rev_0007, rev_0008, rev_0009,
      rev_0010, rev_0011, rev_0012, rev_0013, rev_0014, rev_0015, rev_0016, rev_0017, rev_0018,
      rev_0019, rev_0020, rev_0021, rev_0022, Touched, Revision, Continuation, Predeployment,
      Predeployment_immutable
  <1>19. r \in 1..23 /\ \A q \in 1..r - 1 : q \in 1..22 /\ q < r
    BY DEF Newest
  <1>20. ASSUME r <= 18, NEW q \in 1..r - 1 PROVE Apart(Revisions[r], Revisions[q])
    BY <1>20, <1>1, <1>2, <1>3, <1>4, <1>5, <1>6, <1>7, <1>8, <1>9, <1>10, <1>11, <1>12, <1>13, <1>14,
      <1>15, <1>16, <1>17, <1>19
  <1>21. \A q \in 1..22 : Continuation \notin Touched(Revisions[q])
    BY <1>18, RevisionAt
  <1>22. \A q \in 1..r - 1 : Makes[q] = Touched(Revisions[q])
    BY <1>19, RevisionFields DEF Newest
  <1>23. \A x \in MadeBy(r - 1) : \E q \in 1..r - 1 : x \in Touched(Revisions[q])
    BY <1>22 DEF MadeBy
  <1> QED BY <1>19, <1>20, <1>21, <1>23, RevisionFields DEF Apart

-----------------------------------------------------------------------------
(* The schema of a revision, without the chain *)

\* What a revision gives a definition to: an object it meets under IF NOT EXISTS keeps its own
Defines(q) == Revisions[q].make \cup Revisions[q].put \cup (Revisions[q].ensure \ MadeBy(q - 1))

\* The names of the objects of a revision, and the last revision that defined one of them
NamesAt(v) == IF v < 4 THEN MadeBy(v) ELSE (MadeBy(v) \ Old) \cup New
Last(n, v) == Max({0} \cup {q \in 1..v : n \in Defines(q)})
Standing(n, v) == IF n \in New THEN 1 ELSE Last(n, v)

\* A set of revisions has a newest one.
LEMMA NewestOf ==
    ASSUME NEW S \in SUBSET (0..Newest), S # {}
    PROVE  Max(S) \in S /\ \A y \in S : y <= Max(S)
  <1> DEFINE D == {Newest - x : x \in S}
  <1> USE DEF Newest
  <1>0. \A x \in S : x \in Int /\ 0 <= x /\ x <= Newest
    OBVIOUS
  <1>1. D \in SUBSET Nat /\ D # {}
    <2>1. \A x \in S : Newest - x \in Nat
      BY <1>0
    <2>2. PICK x : x \in S
      OBVIOUS
    <2> QED BY <2>1, <2>2
  <1>2. PICK d \in D : \A y \in D : <<y, d>> \notin OpToRel(<, Nat)
    <2> HIDE DEF D
    <2> QED BY <1>1, NatLessThanWellFounded, WFMin, Zenon
  <1>3. \A y \in D : ~(y < d)
    BY <1>1, <1>2, Zenon DEF OpToRel
  <1>4. PICK x \in S : d = Newest - x
    BY <1>2
  <1>5. ASSUME NEW y \in S PROVE x >= y
    <2>1. Newest - y \in D
      OBVIOUS
    <2>2. ~(Newest - y < Newest - x)
      BY <1>3, <1>4, <2>1
    <2> QED BY <1>0, <2>2
  <1>6. Max(S) \in S /\ \A y \in S : Max(S) >= y
    BY <1>5, Zenon DEF Max
  <1> QED BY <1>0, <1>6

\* The newest of some revisions is the one no other exceeds.
LEMMA NewestIs ==
    ASSUME NEW S \in SUBSET (0..Newest), NEW m \in S, \A y \in S : y <= m
    PROVE  Max(S) = m
  <1>1. Max(S) \in S /\ m <= Max(S) /\ Max(S) <= m
    BY NewestOf
  <1>2. \A x \in S : x \in Int
    BY DEF Newest
  <1>3. Max(S) \in Int /\ m \in Int
    BY <1>1, <1>2
  <1> QED BY <1>1, <1>3

\* The last definition of an object is the one of a revision that defines it, or the one before.
LEMMA LastStep ==
    ASSUME NEW v \in 1..Newest, NEW n
    PROVE  /\ n \in Defines(v) => Last(n, v) = v
           /\ n \notin Defines(v) => Last(n, v) = Last(n, v - 1)
           /\ Last(n, v) \in 0..v
  <1> DEFINE S(u) == {0} \cup {q \in 1..u : n \in Defines(q)}
  <1>1. S(v) \in SUBSET (0..Newest) /\ 0 \in S(v) /\ S(v) \subseteq 0..v
    BY DEF Newest
  <1>2. CASE n \in Defines(v)
    <2>1. v \in S(v) /\ \A y \in S(v) : y <= v
      BY <1>2 DEF Newest
    <2> HIDE DEF S
    <2>2. Max(S(v)) = v
      BY <1>1, <2>1, NewestIs
    <2> QED BY <1>2, <2>2 DEF S, Last, Newest
  <1>3. CASE n \notin Defines(v)
    <2>1. S(v) = S(v - 1)
      BY <1>3 DEF Newest
    <2>2. Max(S(v)) \in S(v)
      <3> HIDE DEF S
      <3> QED BY <1>1, NewestOf
    <2> QED BY <1>1, <1>3, <2>1, <2>2 DEF Last
  <1> QED BY <1>2, <1>3

\* An object nothing defines after the revision that did stands as that one made it.
LEMMA LastIs ==
    ASSUME NEW v \in 1..Newest, NEW m \in 1..v, NEW n, n \in Defines(m), \A q \in m + 1..v : n \notin Defines(q)
    PROVE  Last(n, v) = m
  <1> DEFINE S == {0} \cup {q \in 1..v : n \in Defines(q)}
  <1>1. S \in SUBSET (0..Newest) /\ m \in S /\ \A y \in S : y <= m
    BY DEF Newest
  <1> HIDE DEF S
  <1>2. Max(S) = m
    BY <1>1, NewestIs
  <1> QED BY <1>2 DEF S, Last

\* What the revisions have made by the next one.
LEMMA MadeStep ==
    ASSUME NEW v \in 1..Newest
    PROVE  MadeBy(v) = MadeBy(v - 1) \cup Makes[v] /\ MadeBy(0) = {}
  <1>1. 1..v = (1..v - 1) \cup {v}
    BY DEF Newest
  <1>2. MadeBy(0) = {}
    BY DEF MadeBy
  <1>3. \A x : x \in MadeBy(v) <=> x \in MadeBy(v - 1) \/ x \in Makes[v]
    BY <1>1, Zenon DEF MadeBy
  <1> QED BY <1>2, <1>3

\* 0018 and before: the definition a downgrade brings back is the last one before it, and there
\* is none exactly when no earlier revision had made the object.
LEMMA EarlierIsLast ==
    ASSUME NEW r \in 1..18, NEW n
    PROVE  Earlier(n, r) = Last(n, r - 1) /\ (Earlier(n, r) > 0 <=> n \in MadeBy(r - 1))
  <1> DEFINE S == {0} \cup {q \in 1..r - 1 : n \in Makes[q]}
  <1>1. ASSUME NEW q \in 1..r - 1 PROVE Defines(q) = Makes[q]
    <2>1. q \in 1..Newest /\ q <= 18
      BY DEF Newest
    <2> QED BY <2>1, MadeOnce DEF Defines, Makes
  <1>2. S = {0} \cup {q \in 1..r - 1 : n \in Defines(q)}
    BY <1>1
  <1>3. S \in SUBSET (0..Newest) /\ S # {} /\ S \subseteq 0..r
    BY DEF Newest
  <1>4. n \in MadeBy(r - 1) <=> \E q \in S : q > 0
    <2>1. n \in MadeBy(r - 1) <=> \E q \in 1..r - 1 : n \in Makes[q]
      BY Zenon DEF MadeBy
    <2>2. \A q \in 1..r - 1 : q > 0
      OBVIOUS
    <2> QED BY <2>1, <2>2
  <1>5. Max(S) \in S /\ \A y \in S : y <= Max(S)
    <2> HIDE DEF S
    <2> QED BY <1>3, NewestOf
  <1>6. Max(S) > 0 <=> \E q \in S : q > 0
    <2>1. \A q \in S : q \in Int
      BY <1>3
    <2> HIDE DEF S
    <2> QED BY <1>5, <2>1
  <1>7. Earlier(n, r) = Max(S)
    BY DEF Earlier
  <1> QED BY <1>2, <1>4, <1>6, <1>7 DEF Last

\* The columns 0004 and 0011 define
RunColumns == {"run_status", "optimization_runs.workload_snapshot_id"}

\* 0011 makes the index on the first jobs and 0023 makes it anew; 0004 and 0011 give the status
\* and the snapshot of a run their types; no other revision touches them.
LEMMA WatchedNames ==
    ASSUME NEW q \in 1..Newest
    PROVE  /\ Initial \in Makes[q] <=> q \in {11, 23}
           /\ q \in {11, 23} => Initial \in Revisions[q].make \cup Revisions[q].put
           /\ q = 11 => RunColumns \subseteq Revisions[q].put
           /\ q > 11 => Makes[q] \cap RunColumns = {}
           /\ q = 4 => "foreign_keys.0004" \in Makes[q]
           /\ Initial \notin Old \cup New /\ RunColumns \cap (Old \cup New) = {} /\ "foreign_keys.0004" \notin Old
  <1>1. Initial \notin Touched(rev_0001) /\ Initial \notin Touched(rev_0002) /\ Initial \notin
        Touched(rev_0003) /\ Initial \notin Touched(rev_0004) /\ Initial \notin Touched(rev_0005) /\
        Initial \notin Touched(rev_0006) /\ Initial \notin Touched(rev_0007) /\ Initial \notin
        Touched(rev_0008) /\ Initial \notin Touched(rev_0009) /\ Initial \notin Touched(rev_0010) /\
        Initial \notin Touched(rev_0012) /\ Initial \notin Touched(rev_0013) /\ Initial \notin
        Touched(rev_0014) /\ Initial \notin Touched(rev_0015) /\ Initial \notin Touched(rev_0016) /\
        Initial \notin Touched(rev_0017) /\ Initial \notin Touched(rev_0018) /\ Initial \notin
        Touched(rev_0019) /\ Initial \notin Touched(rev_0020) /\ Initial \notin Touched(rev_0021) /\
        Initial \notin Touched(rev_0022)
    BY DEF rev_0001, rev_0002, rev_0003, rev_0004, rev_0005, rev_0006, rev_0007, rev_0008, rev_0009,
      rev_0010, rev_0012, rev_0013, rev_0014, rev_0015, rev_0016, rev_0017, rev_0018, rev_0019,
      rev_0020, rev_0021, rev_0022, Touched, Revision, Initial, Predeployment, Predeployment_immutable
  <1>2. Initial \in rev_0011.make /\ Initial \in rev_0023.put
    BY DEF rev_0011, rev_0023, Revision, Initial
  <1>3. RunColumns \subseteq rev_0011.put /\ "foreign_keys.0004" \in rev_0004.make
    BY DEF rev_0011, rev_0004, Revision, RunColumns
  <1>4. Touched(rev_0012) \cap RunColumns = {} /\ Touched(rev_0013) \cap RunColumns = {} /\
        Touched(rev_0014) \cap RunColumns = {} /\ Touched(rev_0015) \cap RunColumns = {} /\
        Touched(rev_0016) \cap RunColumns = {} /\ Touched(rev_0017) \cap RunColumns = {} /\
        Touched(rev_0018) \cap RunColumns = {} /\ Touched(rev_0019) \cap RunColumns = {} /\
        Touched(rev_0020) \cap RunColumns = {} /\ Touched(rev_0021) \cap RunColumns = {} /\
        Touched(rev_0022) \cap RunColumns = {} /\ Touched(rev_0023) \cap RunColumns = {}
    BY DEF rev_0012, rev_0013, rev_0014, rev_0015, rev_0016, rev_0017, rev_0018, rev_0019, rev_0020,
      rev_0021, rev_0022, rev_0023, Touched, Revision, RunColumns, Predeployment,
      Predeployment_immutable
  <1>5. Initial \notin Old \cup New /\ RunColumns \cap (Old \cup New) = {} /\ "foreign_keys.0004" \notin Old
    BY RenamedNames DEF Initial, RunColumns
  <1>6. q \in 1..23
    BY DEF Newest
  <1>7. q \notin {11, 23} => Initial \notin Touched(Revisions[q])
    BY <1>1, <1>6, RevisionAt
  <1>8. q > 11 => Touched(Revisions[q]) \cap RunColumns = {}
    BY <1>4, <1>6, RevisionAt
  <1>9. Makes[q] = Touched(Revisions[q])
    BY RevisionFields
  <1>10. /\ q = 11 => Initial \in Revisions[q].make /\ RunColumns \subseteq Revisions[q].put
         /\ q = 23 => Initial \in Revisions[q].put
         /\ q = 4 => "foreign_keys.0004" \in Revisions[q].make
    BY <1>2, <1>3, RevisionAt
  <1> QED BY <1>5, <1>7, <1>8, <1>9, <1>10 DEF Touched

\* app/db/models.py: every table and unique key the models name, and all that the services rely
\* on, is there after 0023.
LEMMA NewestHasEverything == Models \cup Relied \subseteq NamesAt(Newest)
  <1>1. AccountModels \subseteq New \cup Touched(rev_0001) \cup Touched(rev_0004) \cup Touched(rev_0005) \cup Touched(rev_0006)
    BY RenamedNames DEF AccountModels, rev_0001, rev_0004, rev_0005, rev_0006, Touched, Revision
  <1>2. AccountModels \cap Old = {}
    BY RenamedNames DEF AccountModels
  <1>3. WorkloadModels \subseteq New \cup Touched(rev_0001) \cup Touched(rev_0004) \cup Touched(rev_0013) \cup Touched(rev_0014)
    BY RenamedNames DEF WorkloadModels, rev_0001, rev_0004, rev_0013, rev_0014, Touched, Revision
  <1>4. WorkloadModels \cap Old = {}
    BY RenamedNames DEF WorkloadModels
  <1>5. EvidenceModels \subseteq New \cup Touched(rev_0001) \cup Touched(rev_0004) \cup Touched(rev_0015) \cup Touched(rev_0017)
    BY RenamedNames DEF EvidenceModels, rev_0001, rev_0004, rev_0015, rev_0017, Touched, Revision, Predeployment,
      Predeployment_immutable
  <1>6. EvidenceModels \cap Old = {}
    BY RenamedNames DEF EvidenceModels, Predeployment
  <1>7. OutcomeModels \subseteq New \cup Touched(rev_0001) \cup Touched(rev_0004) \cup Touched(rev_0018) \cup Touched(rev_0021)
    BY RenamedNames DEF OutcomeModels, rev_0001, rev_0004, rev_0018, rev_0021, Touched, Revision
  <1>8. OutcomeModels \cap Old = {}
    BY RenamedNames DEF OutcomeModels
  <1>9. Relied \subseteq New \cup Touched(rev_0008) \cup Touched(rev_0009) \cup Touched(rev_0013) \cup Touched(rev_0014) \cup
        Touched(rev_0015) \cup Touched(rev_0016) \cup Touched(rev_0017) \cup Touched(rev_0023)
    BY RenamedNames DEF Relied, rev_0008, rev_0009, rev_0013, rev_0014, rev_0015, rev_0016, rev_0017, rev_0023, Touched,
      Revision, Predeployment, Predeployment_immutable
  <1>10. Relied \cap Old = {}
    BY RenamedNames DEF Relied
  <1>11. \A q \in 1..23 : Touched(Revisions[q]) \subseteq MadeBy(23)
    BY RevisionFields DEF MadeBy, Newest
  <1>12. Touched(rev_0001) \subseteq MadeBy(23) /\ Touched(rev_0002) \subseteq MadeBy(23) /\
        Touched(rev_0003) \subseteq MadeBy(23) /\ Touched(rev_0004) \subseteq MadeBy(23) /\
        Touched(rev_0005) \subseteq MadeBy(23) /\ Touched(rev_0006) \subseteq MadeBy(23) /\
        Touched(rev_0007) \subseteq MadeBy(23) /\ Touched(rev_0008) \subseteq MadeBy(23) /\
        Touched(rev_0009) \subseteq MadeBy(23) /\ Touched(rev_0010) \subseteq MadeBy(23) /\
        Touched(rev_0011) \subseteq MadeBy(23) /\ Touched(rev_0012) \subseteq MadeBy(23) /\
        Touched(rev_0013) \subseteq MadeBy(23) /\ Touched(rev_0014) \subseteq MadeBy(23) /\
        Touched(rev_0015) \subseteq MadeBy(23) /\ Touched(rev_0016) \subseteq MadeBy(23) /\
        Touched(rev_0017) \subseteq MadeBy(23) /\ Touched(rev_0018) \subseteq MadeBy(23) /\
        Touched(rev_0019) \subseteq MadeBy(23) /\ Touched(rev_0020) \subseteq MadeBy(23) /\
        Touched(rev_0021) \subseteq MadeBy(23) /\ Touched(rev_0022) \subseteq MadeBy(23) /\
        Touched(rev_0023) \subseteq MadeBy(23)
    BY <1>11, RevisionAt
  <1> QED BY <1>1, <1>2, <1>3, <1>4, <1>5, <1>6, <1>7, <1>8, <1>9, <1>10, <1>12 DEF Models, NamesAt, Newest

-----------------------------------------------------------------------------
(* One revision, up and down *)

Residual(v) == IF v < 18 THEN {Residue} ELSE {}

\* A schema with the objects and the definitions of a revision, but for the column 0018 leaves
Alike(s, v) ==
    /\ s = [n \in DOMAIN s |-> s[n]]
    /\ DOMAIN s \ Residual(v) = NamesAt(v)
    /\ \A n \in NamesAt(v) : s[n] = Standing(n, v)
    /\ Residue \in DOMAIN s => s[Residue] = 18

\* What is there after a revision: what was there before it and what it makes, renamed by 0004.
LEMMA NamesStep ==
    ASSUME NEW r \in 1..Newest
    PROVE  /\ r # 4 => NamesAt(r) = NamesAt(r - 1) \cup Makes[r]
           /\ r = 4 => NamesAt(r) = ((NamesAt(r - 1) \ Old) \cup New) \cup Makes[r]
           /\ r = 4 => Old \subseteq NamesAt(r - 1) /\ New \cap NamesAt(r - 1) = {}
           /\ NamesAt(r - 1) \cap Makes[r] \subseteq MadeBy(r - 1) /\ MadeBy(r - 1) \cap Makes[r] \subseteq NamesAt(r - 1)
           /\ NamesAt(0) = {}
  <1>1. MadeBy(r) = MadeBy(r - 1) \cup Makes[r] /\ MadeBy(0) = {}
    BY MadeStep
  <1>2. Makes[r] \cap New = {} /\ (r # 1 => Makes[r] \cap Old = {})
    BY RenamedOnce
  <1>3. r = 1 => MadeBy(r - 1) = {}
    BY <1>1
  <1>4. ASSUME r = 4 PROVE Old \subseteq MadeBy(r - 1) /\ New \cap MadeBy(r - 1) = {}
    <2>1. 1 \in 1..Newest /\ Old \subseteq Makes[1]
      <3>1. 1 \in 1..Newest
        BY DEF Newest
      <3> QED BY <3>1, RenamedOnce DEF Makes
    <2>2. \A q \in 1..r - 1 : q \in 1..Newest
      BY <1>4 DEF Newest
    <2>3. \A q \in 1..r - 1 : Makes[q] \cap New = {}
      BY <2>2, RenamedOnce
    <2>4. 1 \in 1..r - 1
      BY <1>4
    <2> QED BY <2>1, <2>3, <2>4 DEF MadeBy
  <1>5. CASE r < 4
    BY <1>1, <1>2, <1>3, <1>5 DEF NamesAt
  <1>6. CASE r = 4
    BY <1>1, <1>2, <1>4, <1>6 DEF NamesAt
  <1>7. CASE r > 4
    BY <1>1, <1>2, <1>7 DEF NamesAt
  <1> QED BY <1>5, <1>6, <1>7

\* upgrade() of a revision meets no object it would make, and makes of the schema of the
\* revision before the one that stands after it.
LEMMA UpgradeStands ==
    ASSUME NEW r \in 1..Newest, NEW s, Alike(s, r - 1)
    PROVE  /\ ~Collides(s, r) /\ Alike(Upgraded(s, r), r)
           /\ DOMAIN Upgraded(s, r) \subseteq DOMAIN s \cup NamesAt(r)
  <1> DEFINE rn == Revisions[r].rename
             old == DOMAIN rn
             kept == (DOMAIN s \ old) \cup {rn[o] : o \in old}
             up == Upgraded(s, r)
             value(n) == IF n \in Revisions[r].make \cup Revisions[r].put \/ n \notin kept THEN r
                         ELSE IF n \in DOMAIN s THEN s[n] ELSE s[CHOOSE o \in old : rn[o] = n]
  <1>1. up = [n \in kept \cup Makes[r] |-> value(n)]
    BY DEF Upgraded
  <1>2. /\ Makes[r] = Revisions[r].make \cup Revisions[r].ensure \cup Revisions[r].put
        /\ DOMAIN s \ Residual(r - 1) = NamesAt(r - 1)
    BY DEF Makes, Alike
  <1>3. Makes[r] \cap New = {} /\ (r # 1 => Makes[r] \cap Old = {}) /\ (r # 18 => Residue \notin Makes[r])
        /\ Residue \notin Old \cup New
        /\ (r = 18 => Residue \in Revisions[r].ensure /\ Residue \notin Revisions[r].make \cup Revisions[r].put)
    BY RenamedOnce
  <1>4. ~Collides(s, r)
    <2>1. Revisions[r].make \cap MadeBy(r - 1) = {}
      BY MadeOnce
    <2>2. Residue \notin Revisions[r].make
      BY <1>2, <1>3
    <2> QED BY <1>2, <2>1, <2>2, NamesStep DEF Collides, Residual
  <1>5. r # 4 => kept = DOMAIN s
    BY RevisionFields
  <1>6. r = 4 => kept = (DOMAIN s \ Old) \cup New
    BY RevisionFields DEF Old, New
  <1>7. DOMAIN up = kept \cup Makes[r] /\ up = [n \in DOMAIN up |-> up[n]] /\ \A n \in DOMAIN up : up[n] = value(n)
    <2> HIDE DEF value, kept, up
    <2> QED BY <1>1
  <1> HIDE DEF up
  <1>8. DOMAIN up \ Residual(r) = NamesAt(r) /\ DOMAIN up \subseteq DOMAIN s \cup NamesAt(r)
    <2> HIDE DEF kept
    <2>1. CASE r < 18
      BY <1>2, <1>3, <1>5, <1>6, <1>7, <2>1, NamesStep DEF Residual
    <2>2. CASE r = 18
      BY <1>2, <1>3, <1>5, <1>6, <1>7, <2>2, NamesStep DEF Residual
    <2>3. CASE r > 18
      BY <1>2, <1>3, <1>5, <1>6, <1>7, <2>3, NamesStep DEF Residual
    <2> QED BY <2>1, <2>2, <2>3 DEF Newest
  <1>9. ASSUME NEW n \in NamesAt(r), n \notin New PROVE up[n] = Last(n, r)
    <2>1. n \in DOMAIN up
      BY <1>8
    <2>2. CASE n \in Revisions[r].make \cup Revisions[r].put
      BY <1>7, <2>1, <2>2, LastStep DEF Defines
    <2>3. CASE n \notin Revisions[r].make \cup Revisions[r].put /\ n \in NamesAt(r - 1)
      <3>1. n \notin Defines(r)
        BY <1>2, <2>3, NamesStep DEF Defines
      <3>2. n \in DOMAIN s /\ s[n] = Last(n, r - 1)
        BY <1>2, <1>9, <2>3 DEF Alike, Standing
      <3>3. n \in kept
        <4> HIDE DEF kept
        <4>1. r = 4 => n \notin Old
          BY <1>9, <1>3 DEF NamesAt
        <4> QED BY <1>5, <1>6, <3>2, <4>1
      <3>4. value(n) = s[n]
        BY <2>3, <3>2, <3>3
      <3> QED BY <1>7, <2>1, <3>1, <3>2, <3>4, LastStep
    <2>4. CASE n \notin Revisions[r].make \cup Revisions[r].put /\ n \notin NamesAt(r - 1)
      <3>1. n \in Makes[r] /\ n \in Revisions[r].ensure
        BY <1>2, <1>9, <2>4, NamesStep
      <3>2. n \in Defines(r)
        BY <3>1, <2>4, NamesStep DEF Defines
      <3>3. CASE n # Residue \/ r # 18
        <4>1. n \notin DOMAIN s
          BY <1>2, <1>3, <2>4, <3>1, <3>3 DEF Residual
        <4>2. n \notin kept
          <5> HIDE DEF kept
          <5> QED BY <1>5, <1>6, <1>9, <4>1
        <4> QED BY <1>7, <2>1, <3>2, <4>2, LastStep
      <3>4. CASE n = Residue /\ r = 18
        <4>1. n \in DOMAIN s => s[n] = 18
          BY <3>4 DEF Alike
        <4>2. value(n) = 18
          BY <3>4, <4>1, <1>5
        <4> QED BY <1>7, <2>1, <3>2, <3>4, <4>2, LastStep
      <3> QED BY <3>3, <3>4
    <2> QED BY <2>2, <2>3, <2>4
  <1>10. ASSUME NEW n \in NamesAt(r), n \in New PROVE up[n] = 1
    <2>1. n \in DOMAIN up /\ n \notin Makes[r] /\ Revisions[r].make \cup Revisions[r].put \subseteq Makes[r]
      BY <1>2, <1>3, <1>8, <1>10
    <2>2. CASE r = 4
      <3>1. n \notin DOMAIN s /\ n \in kept
        <4> HIDE DEF kept
        <4> QED BY <1>2, <1>3, <1>6, <1>10, <2>2, NamesStep DEF Residual
      <3>2. PICK o \in old : o = (CHOOSE x \in old : rn[x] = n) /\ o \in Old
        BY <1>10, <2>2, RevisionFields DEF Old, New
      <3>3. o \in NamesAt(r - 1) /\ o \notin New
        BY <2>2, <3>2, NamesStep
      <3>4. s[o] = Last(o, 3)
        BY <2>2, <3>3 DEF Alike, Standing
      <3>5. Last(o, 3) = 1
        <4>1. 3 \in 1..Newest /\ 1 \in 1..3 /\ 1 \in 1..Newest
          BY DEF Newest
        <4>2. o \in Defines(1)
          BY <4>1, <3>2, RenamedOnce DEF Defines
        <4>3. \A q \in 2..3 : o \notin Defines(q)
          <5>1. \A q \in 2..3 : q \in 1..Newest /\ q # 1
            BY DEF Newest
          <5>2. \A q \in 2..3 : o \notin Makes[q]
            BY <5>1, <3>2, RenamedOnce
          <5> QED BY <5>1, <5>2 DEF Defines, Makes
        <4> QED BY <4>1, <4>2, <4>3, LastIs
      <3>6. value(n) = s[o]
        BY <2>1, <3>1, <3>2
      <3> QED BY <1>7, <2>1, <3>4, <3>5, <3>6
    <2>3. CASE r # 4
      <3>1. n \in NamesAt(r - 1)
        BY <2>1, <2>3, NamesStep
      <3>2. n \in DOMAIN s /\ s[n] = 1
        BY <1>2, <1>10, <3>1 DEF Alike, Standing
      <3>3. n \in kept
        BY <1>5, <2>3, <3>2
      <3>4. value(n) = s[n]
        BY <2>1, <3>2, <3>3
      <3> QED BY <1>7, <2>1, <3>2, <3>4
    <2> QED BY <2>2, <2>3
  <1>11. ASSUME Residue \in DOMAIN up PROVE up[Residue] = 18
    <2>1. CASE Residue \in NamesAt(r)
      <3>1. r >= 18
        <4>1. ASSUME r < 18 PROVE FALSE
          <5>1. \A q \in 1..r : q \in 1..Newest /\ q # 18
            BY <4>1 DEF Newest
          <5>2. \A q \in 1..r : Residue \notin Makes[q]
            BY <5>1, RenamedOnce
          <5>3. Residue \notin MadeBy(r)
            BY <5>2 DEF MadeBy
          <5> QED BY <1>3, <2>1, <5>3 DEF NamesAt
        <4> QED BY <4>1 DEF Newest
      <3>2. 18 \in 1..r /\ 18 \in 1..Newest
        BY <3>1 DEF Newest
      <3>3. Residue \in Defines(18)
        <4>1. \A q \in 1..18 - 1 : q \in 1..Newest /\ q # 18
          BY DEF Newest
        <4>2. \A q \in 1..18 - 1 : Residue \notin Makes[q]
          BY <4>1, RenamedOnce
        <4>3. Residue \notin MadeBy(18 - 1)
          BY <4>2 DEF MadeBy
        <4> QED BY <3>2, <4>3, RenamedOnce DEF Defines
      <3>4. \A q \in 18 + 1..r : Residue \notin Defines(q)
        <4>1. \A q \in 18 + 1..r : q \in 1..Newest /\ q # 18
          BY DEF Newest
        <4>2. \A q \in 18 + 1..r : Residue \notin Makes[q]
          BY <4>1, RenamedOnce
        <4> QED BY <4>1, <4>2 DEF Defines, Makes
      <3>5. Last(Residue, r) = 18
        BY <3>2, <3>3, <3>4, LastIs
      <3> QED BY <1>3, <1>9, <2>1, <3>5
    <2>2. CASE Residue \notin NamesAt(r)
      <3>1. r < 18 /\ Residue \notin Makes[r] /\ Residue \in kept
        <4> HIDE DEF kept
        <4> QED BY <1>3, <1>7, <1>8, <1>11, <2>2, <1>2 DEF Residual
      <3>2. Residue \in DOMAIN s /\ s[Residue] = 18
        <4>1. Residue \in DOMAIN s
          <5> HIDE DEF kept
          <5> QED BY <1>3, <1>5, <1>6, <3>1
        <4> QED BY <4>1 DEF Alike
      <3>3. value(Residue) = 18
        BY <1>2, <3>1, <3>2
      <3> QED BY <1>7, <1>11, <3>3
    <2> QED BY <2>1, <2>2
  <1>12. Alike(up, r)
    <2> HIDE DEF value, kept
    <2> QED BY <1>7, <1>8, <1>9, <1>10, <1>11 DEF Alike, Standing
  <1> QED BY <1>4, <1>8, <1>12 DEF up

\* downgrade() of a revision leaves the schema of the revision before it, but for one column.
LEMMA DowngradeStands ==
    ASSUME NEW r \in 1..18, NEW s, Alike(s, r)
    PROVE  Alike(Downgraded(s, r), r - 1)
  <1> DEFINE rn == Revisions[r].rename
             gone == Makes[r] \ Revisions[r].leave
             back == {m \in gone : Earlier(m, r) > 0}
             drop == {m \in gone : Earlier(m, r) = 0}
             kept == DOMAIN s \ (drop \cup {rn[o] : o \in DOMAIN rn})
             down == Downgraded(s, r)
             value(n) == IF n \in back THEN Earlier(n, r) ELSE IF n \in DOMAIN s THEN s[n] ELSE s[rn[n]]
  <1>0. r \in 1..Newest
    BY DEF Newest
  <1>1. Dropped[r] = drop /\ Restored[r] = [n \in back |-> Earlier(n, r)]
    BY <1>0 DEF Dropped, Restored
  <1>2. down = [n \in kept \cup DOMAIN rn |-> value(n)]
    <2>1. DOMAIN Restored[r] = back /\ \A n \in back : Restored[r][n] = Earlier(n, r)
      <3> HIDE DEF back
      <3> QED BY <1>1
    <2> DEFINE k == DOMAIN s \ (Dropped[r] \cup {rn[o] : o \in DOMAIN rn})
               w(n) == IF n \in DOMAIN Restored[r] THEN Restored[r][n] ELSE IF n \in DOMAIN s THEN s[n] ELSE s[rn[n]]
    <2>2. down = [n \in k \cup DOMAIN rn |-> w(n)]
      BY DEF Downgraded
    <2>3. k = kept
      BY <1>1
    <2>4. \A n : w(n) = value(n)
      <3> HIDE DEF back
      <3> QED BY <2>1
    <2> HIDE DEF k, w, kept, value, down, rn
    <2> QED BY <2>2, <2>3, <2>4
  <1>3. DOMAIN down = kept \cup DOMAIN rn /\ down = [n \in DOMAIN down |-> down[n]]
        /\ \A n \in DOMAIN down : down[n] = value(n)
    <2> HIDE DEF value, kept, down, rn
    <2> QED BY <1>2
  <1> HIDE DEF down
  <1>4. /\ Makes[r] \cap New = {} /\ (r # 1 => Makes[r] \cap Old = {}) /\ (r # 18 => Residue \notin Makes[r])
        /\ Residue \notin Old \cup New
        /\ DOMAIN s \ Residual(r) = NamesAt(r)
    BY <1>0, RenamedOnce DEF Alike
  <1>5. /\ r # 4 => DOMAIN rn = {} /\ {rn[o] : o \in DOMAIN rn} = {}
        /\ r = 4 => DOMAIN rn = Old /\ {rn[o] : o \in DOMAIN rn} = New
        /\ r # 18 => Revisions[r].leave = {} /\ (r = 18 => Revisions[r].leave = {Residue})
    <2>1. r # 4 => DOMAIN rn = {}
      BY <1>0, RevisionFields
    <2>2. r # 4 => {rn[o] : o \in DOMAIN rn} = {}
      BY <2>1
    <2>3. r = 4 => rn = rev_0004.rename
      BY <1>0, RevisionFields
    <2> QED BY <1>0, <2>1, <2>2, <2>3, RevisionFields DEF Old, New
  <1>6. r = 18 => Revisions[r].leave = {Residue}
    BY <1>0, RevisionFields
  <1>7. \A n \in Makes[r] : n \in MadeBy(r - 1) <=> Earlier(n, r) > 0
    BY EarlierIsLast
  <1>8. \A n : Earlier(n, r) = Last(n, r - 1) /\ Last(n, r - 1) \in Nat
    <2>1. r - 1 = 0 => \A n : Last(n, r - 1) = 0
      <3> SUFFICES ASSUME r - 1 = 0, NEW n PROVE Last(n, 0) = 0
        BY Zenon
      <3>1. {0} \cup {q \in 1..0 : n \in Defines(q)} = {0}
        OBVIOUS
      <3>2. Max({0}) = 0
        <4>1. {0} \in SUBSET (0..Newest) /\ \A y \in {0} : y <= 0
          BY DEF Newest
        <4> QED BY <4>1, NewestIs
      <3> QED BY <3>1, <3>2 DEF Last
    <2>2. r - 1 # 0 => r - 1 \in 1..Newest
      BY DEF Newest
    <2> QED BY <2>1, <2>2, LastStep, EarlierIsLast
  <1>9. drop = gone \ MadeBy(r - 1) /\ back = gone \cap MadeBy(r - 1)
    BY <1>7, <1>8
  <1>10. NamesAt(r - 1) \cap Makes[r] \subseteq MadeBy(r - 1) /\ MadeBy(r - 1) \cap Makes[r] \subseteq NamesAt(r - 1)
    BY <1>0, NamesStep
  <1>11. DOMAIN down \ Residual(r - 1) = NamesAt(r - 1)
    <2> HIDE DEF drop, rn, back
    <2>1. DOMAIN down = (DOMAIN s \ (drop \cup {rn[o] : o \in DOMAIN rn})) \cup DOMAIN rn
      BY <1>3
    <2>2. Residual(r - 1) = {Residue}
      BY DEF Residual
    <2>3. CASE r = 4
      <3>1. DOMAIN down = (DOMAIN s \ (drop \cup New)) \cup Old
        BY <1>5, <2>1, <2>3
      <3>2. NamesAt(r) = ((NamesAt(r - 1) \ Old) \cup New) \cup Makes[r] /\ Old \subseteq NamesAt(r - 1)
            /\ New \cap NamesAt(r - 1) = {}
        BY <1>0, <2>3, NamesStep
      <3>3. drop = Makes[r] \ MadeBy(r - 1) /\ Residue \notin Makes[r] /\ Makes[r] \cap Old = {} /\ Residual(r) = {Residue}
        BY <1>4, <1>5, <1>9, <2>3 DEF Residual
      <3>4. Residue \notin NamesAt(r)
        BY <1>4, <3>3
      <3> QED BY <1>4, <1>10, <2>2, <3>1, <3>2, <3>3, <3>4
    <2>4. CASE r # 4
      <3>1. DOMAIN down = DOMAIN s \ drop
        <4> HIDE DEF gone
        <4> QED BY <1>5, <2>1, <2>4
      <3>2. NamesAt(r) = NamesAt(r - 1) \cup Makes[r]
        BY <1>0, <2>4, NamesStep
      <3>3. Residue \notin NamesAt(r - 1)
        <4>1. r - 1 = 0 \/ r - 1 \in 1..Newest
          BY DEF Newest
        <4>2. \A q \in 1..r - 1 : q \in 1..Newest /\ q # 18
          BY DEF Newest
        <4>3. \A q \in 1..r - 1 : Residue \notin Makes[q]
          BY <4>2, RenamedOnce
        <4> QED BY <1>4, <4>3 DEF MadeBy, NamesAt
      <3>4. CASE r = 18
        BY <1>4, <1>6, <1>9, <1>10, <2>2, <3>1, <3>2, <3>3, <3>4 DEF Residual
      <3>5. CASE r # 18
        BY <1>4, <1>5, <1>9, <1>10, <2>2, <3>1, <3>2, <3>3, <3>5 DEF Residual
      <3> QED BY <3>4, <3>5
    <2> QED BY <2>3, <2>4
  <1>12. \A n \in NamesAt(r) : s[n] = Standing(n, r)
    BY DEF Alike
  <1>13. ASSUME NEW n \in NamesAt(r - 1), n \notin New PROVE down[n] = Last(n, r - 1)
    <2>1. n \in DOMAIN down
      BY <1>11
    <2>2. CASE n \in back
      BY <1>3, <1>8, <2>1, <2>2
    <2>3. CASE n \notin back /\ n \in NamesAt(r)
      <3>1. n \in DOMAIN s /\ s[n] = Last(n, r)
        BY <1>4, <1>12, <1>13, <2>3 DEF Standing
      <3>2. n \notin Makes[r]
        <4>1. n \in Makes[r] => n \in Revisions[r].leave
          BY <1>9, <1>10, <1>13, <2>3
        <4>2. Residue \notin NamesAt(r - 1)
          BY <1>11 DEF Residual
        <4> QED BY <1>5, <1>6, <1>13, <4>1, <4>2
      <3>3. n \notin Defines(r)
        BY <3>2 , <1>0 DEF Defines, Makes
      <3> QED BY <1>0, <1>3, <2>1, <2>3, <3>1, <3>3, LastStep
    <2>4. CASE n \notin back /\ n \notin NamesAt(r)
      <3>1. r = 4 /\ n \in Old
        BY <1>0, <1>13, <2>4, NamesStep
      <3>2. rn = rev_0004.rename /\ rn[n] \in New
        BY <1>0, <3>1, RevisionFields DEF Old, New
      <3>3. rn[n] \in NamesAt(r) /\ rn[n] \in DOMAIN s /\ s[rn[n]] = 1
        BY <1>4, <1>12, <3>1, <3>2 DEF NamesAt, Standing
      <3>4. n \notin DOMAIN s
        BY <1>4, <2>4, <3>1 DEF Residual
      <3>5. Last(n, r - 1) = 1
        <4>1. 3 \in 1..Newest /\ 1 \in 1..3 /\ 1 \in 1..Newest
          BY DEF Newest
        <4>2. n \in Defines(1)
          BY <4>1, <3>1, RenamedOnce DEF Defines
        <4>3. \A q \in 2..3 : n \notin Defines(q)
          <5>1. \A q \in 2..3 : q \in 1..Newest /\ q # 1
            BY DEF Newest
          <5>2. \A q \in 2..3 : n \notin Makes[q]
            BY <5>1, <3>1, RenamedOnce
          <5> QED BY <5>1, <5>2 DEF Defines, Makes
        <4> QED BY <4>1, <4>2, <4>3, <3>1, LastIs
      <3> QED BY <1>3, <2>1, <2>4, <3>3, <3>4, <3>5
    <2> QED BY <2>2, <2>3, <2>4
  <1>14. ASSUME NEW n \in NamesAt(r - 1), n \in New PROVE down[n] = 1
    <2>1. n \in DOMAIN down /\ n \notin Makes[r] /\ n \notin back
      BY <1>4, <1>11, <1>14
    <2>2. r # 4 /\ n \in NamesAt(r)
      BY <1>0, <1>14, NamesStep
    <2>3. n \in DOMAIN s /\ s[n] = 1
      BY <1>4, <1>12, <1>14, <2>2 DEF Standing
    <2> QED BY <1>3, <2>1, <2>3
  <1>15. ASSUME Residue \in DOMAIN down PROVE down[Residue] = 18
    <2>1. Residue \notin back
      BY <1>4, <1>6
    <2>2. Residue \in DOMAIN s
      <3>1. Residue \notin DOMAIN rn
        <4> HIDE DEF rn
        <4> QED BY <1>4, <1>5
      <3> QED BY <1>3, <1>15, <3>1
    <2>3. s[Residue] = 18
      BY <2>2 DEF Alike
    <2> QED BY <1>3, <1>15, <2>1, <2>2, <2>3
  <1>16. Alike(down, r - 1)
    <2> HIDE DEF value, kept
    <2> QED BY <1>3, <1>11, <1>13, <1>14, <1>15 DEF Alike, Standing
  <1> QED BY <1>16 DEF down

-----------------------------------------------------------------------------
(* The way up and the way down *)

\* A way up to a revision, and a way down to one, by revision
GoesUp(f, db, from, m) == f = [v \in 0..m |-> IF v <= from THEN db ELSE UpOne(f[v - 1], v)]
GoesDown(f, db, from, m) == f = [v \in m..Newest |-> IF v >= from THEN db ELSE DownOne(f[v + 1], v + 1)]

\* alembic: there is a database after each revision of the way up.
LEMMA WayUpExists ==
    ASSUME NEW db, NEW from \in 0..Newest, NEW m \in 0..Newest
    PROVE  \E f : GoesUp(f, db, from, m)
  <1> DEFINE S == {k \in Nat : k <= Newest /\ ~\E f : f = [v \in 0..k |-> IF v <= from THEN db ELSE UpOne(f[v - 1], v)]}
  <1>1. SUFFICES ASSUME S # {} PROVE FALSE
    <2>1. m \in Nat /\ m <= Newest
      BY DEF Newest
    <2> HIDE DEF Newest
    <2> QED BY <2>1, Zenon DEF GoesUp
  <1>2. PICK k \in S : \A y \in S : <<y, k>> \notin OpToRel(<, Nat)
    <2>1. S \in SUBSET Nat
      OBVIOUS
    <2> HIDE DEF S
    <2> QED BY <1>1, <2>1, NatLessThanWellFounded, WFMin, Zenon
  <1>3. \A y \in S : ~(y < k)
    BY <1>2, Zenon DEF OpToRel
  <1>4. k \in Nat /\ k <= Newest /\ ~\E f : f = [v \in 0..k |-> IF v <= from THEN db ELSE UpOne(f[v - 1], v)]
    BY <1>2
  <1>5. ASSUME k > 0 PROVE \E f : f = [v \in 0..k - 1 |-> IF v <= from THEN db ELSE UpOne(f[v - 1], v)]
    <2>1. k - 1 \in Nat /\ k - 1 <= Newest /\ k - 1 < k
      BY <1>4, <1>5 DEF Newest
    <2>2. k - 1 \notin S
      <3> HIDE DEF S
      <3> QED BY <1>3, <2>1
    <2> QED BY <2>1, <2>2, Zenon
  <1> HIDE DEF S
  <1>6. CASE k = 0
    <2> DEFINE g == [v \in 0..0 |-> db]
    <2>1. \A v \in 0..0 : v <= from
      BY DEF Newest
    <2>2. g = [v \in 0..0 |-> IF v <= from THEN db ELSE UpOne(g[v - 1], v)]
      BY <2>1
    <2> HIDE DEF g
    <2> QED BY <1>4, <1>6, <2>2
  <1>7. CASE k > 0
    <2>2. PICK g : g = [v \in 0..k - 1 |-> IF v <= from THEN db ELSE UpOne(g[v - 1], v)]
      BY <1>5, <1>7, Zenon
    <2> DEFINE h == [v \in 0..k |-> IF v = k THEN IF k <= from THEN db ELSE UpOne(g[k - 1], k) ELSE g[v]]
    <2>3. \A v \in 0..k - 1 : g[v] = IF v <= from THEN db ELSE UpOne(g[v - 1], v)
      <3> DEFINE rhs(v) == IF v <= from THEN db ELSE UpOne(g[v - 1], v)
      <3>1. g = [v \in 0..k - 1 |-> rhs(v)]
        BY <2>2, Zenon
      <3> HIDE DEF rhs
      <3>2. \A v \in 0..k - 1 : g[v] = rhs(v)
        BY <3>1
      <3> QED BY <3>2, Zenon DEF rhs
    <2>4. ASSUME NEW v \in 0..k PROVE h[v] = IF v <= from THEN db ELSE UpOne(h[v - 1], v)
      <3>1. CASE v = k
        <4>1. h[k - 1] = g[k - 1] /\ h[k] = IF k <= from THEN db ELSE UpOne(g[k - 1], k)
          BY <1>4, <1>7
        <4> HIDE DEF h
        <4> QED BY <3>1, <4>1
      <3>2. CASE v # k
        <4>1. v \in 0..k - 1 /\ h[v] = g[v]
          BY <1>4, <3>2
        <4>2. ~(v <= from) => h[v - 1] = g[v - 1]
          BY <1>4, <3>2 DEF Newest
        <4> HIDE DEF h
        <4> QED BY <2>3, <4>1, <4>2
      <3> QED BY <3>1, <3>2
    <2> HIDE DEF h
    <2>5. h = [v \in 0..k |-> IF v <= from THEN db ELSE UpOne(h[v - 1], v)]
      BY <2>4 DEF h
    <2> QED BY <1>4, <2>5
  <1> QED BY <1>4, <1>6, <1>7

\* Up is the database where it is read, and from there one upgrade() after the other.
LEMMA WayUp ==
    ASSUME NEW db, NEW from \in 0..Newest, NEW v \in 0..Newest
    PROVE  Up(db, from)[v] = IF v <= from THEN db ELSE UpOne(Up(db, from)[v - 1], v)
  <1> DEFINE rhs(f, w) == IF w <= from THEN db ELSE UpOne(f[w - 1], w)
  <1>1. \E f : f = [w \in 0..Newest |-> rhs(f, w)]
    <2>1. Newest \in 0..Newest
      BY DEF Newest
    <2>2. \E f : GoesUp(f, db, from, Newest)
      BY <2>1, WayUpExists, Zenon
    <2> QED BY <2>2, Zenon DEF GoesUp
  <1>2. Up(db, from) = CHOOSE f : f = [w \in 0..Newest |-> rhs(f, w)]
    BY Zenon DEF Up
  <1> HIDE DEF rhs
  <1>3. Up(db, from) = [w \in 0..Newest |-> rhs(Up(db, from), w)]
    BY <1>1, <1>2, Zenon
  <1>4. Up(db, from)[v] = rhs(Up(db, from), v)
    BY <1>3
  <1> QED BY <1>4, Zenon DEF rhs

\* alembic: there is a database after each revision of the way down.
LEMMA WayDownExists ==
    ASSUME NEW db, NEW from \in 0..Newest, NEW m \in 0..Newest
    PROVE  \E f : GoesDown(f, db, from, m)
  <1> DEFINE S == {k \in Nat : k <= Newest /\ ~\E f : f = [v \in Newest - k..Newest |->
                                  IF v >= from THEN db ELSE DownOne(f[v + 1], v + 1)]}
  <1>1. SUFFICES ASSUME S # {} PROVE FALSE
    <2>1. Newest - m \in Nat /\ Newest - m <= Newest /\ Newest - (Newest - m) = m
      BY DEF Newest
    <2>2. Newest - m \notin S
      OBVIOUS
    <2> HIDE DEF Newest
    <2>3. \E f : f = [v \in Newest - (Newest - m)..Newest |-> IF v >= from THEN db ELSE DownOne(f[v + 1], v + 1)]
      BY <2>1, <2>2, Zenon
    <2> QED BY <2>1, <2>3 DEF GoesDown
  <1>2. PICK k \in S : \A y \in S : <<y, k>> \notin OpToRel(<, Nat)
    <2>1. S \in SUBSET Nat
      OBVIOUS
    <2> HIDE DEF S
    <2> QED BY <1>1, <2>1, NatLessThanWellFounded, WFMin, Zenon
  <1>3. \A y \in S : ~(y < k)
    BY <1>2, Zenon DEF OpToRel
  <1>4. k \in Nat /\ k <= Newest /\ ~\E f : f = [v \in Newest - k..Newest |-> IF v >= from THEN db ELSE DownOne(f[v + 1], v + 1)]
    BY <1>2
  <1>5. ASSUME k > 0 PROVE \E f : f = [v \in Newest - (k - 1)..Newest |-> IF v >= from THEN db ELSE DownOne(f[v + 1], v + 1)]
    <2>1. k - 1 \in Nat /\ k - 1 <= Newest /\ k - 1 < k
      BY <1>4, <1>5 DEF Newest
    <2>2. k - 1 \notin S
      <3> HIDE DEF S
      <3> QED BY <1>3, <2>1
    <2> QED BY <2>1, <2>2, Zenon
  <1> HIDE DEF S
  <1>6. CASE k = 0
    <2> DEFINE g == [v \in Newest - 0..Newest |-> db]
    <2>1. \A v \in Newest - 0..Newest : v >= from
      BY DEF Newest
    <2>2. g = [v \in Newest - 0..Newest |-> IF v >= from THEN db ELSE DownOne(g[v + 1], v + 1)]
      BY <2>1
    <2> HIDE DEF g
    <2> QED BY <1>4, <1>6, <2>2
  <1>7. CASE k > 0
    <2>2. PICK g : g = [v \in Newest - (k - 1)..Newest |-> IF v >= from THEN db ELSE DownOne(g[v + 1], v + 1)]
      BY <1>5, <1>7, Zenon
    <2> DEFINE b == Newest - k
    <2>3. b \in 0..Newest - 1 /\ Newest - (k - 1) = b + 1
      BY <1>4, <1>7 DEF Newest
    <2> DEFINE h == [v \in b..Newest |-> IF v = b THEN IF b >= from THEN db ELSE DownOne(g[b + 1], b + 1) ELSE g[v]]
    <2> HIDE DEF b
    <2>4. \A v \in b + 1..Newest : g[v] = IF v >= from THEN db ELSE DownOne(g[v + 1], v + 1)
      <3> DEFINE rhs(v) == IF v >= from THEN db ELSE DownOne(g[v + 1], v + 1)
      <3>1. g = [v \in b + 1..Newest |-> rhs(v)]
        BY <2>2, <2>3, Zenon
      <3> HIDE DEF rhs
      <3>2. \A v \in b + 1..Newest : g[v] = rhs(v)
        BY <3>1
      <3> QED BY <3>2, Zenon DEF rhs
    <2>5. ASSUME NEW v \in b..Newest PROVE h[v] = IF v >= from THEN db ELSE DownOne(h[v + 1], v + 1)
      <3>1. CASE v = b
        <4>1. h[b + 1] = g[b + 1] /\ h[b] = IF b >= from THEN db ELSE DownOne(g[b + 1], b + 1)
          BY <2>3 DEF Newest
        <4> HIDE DEF h
        <4> QED BY <3>1, <4>1
      <3>2. CASE v # b
        <4>1. v \in b + 1..Newest /\ h[v] = g[v]
          BY <2>3, <3>2 DEF Newest
        <4>2. ~(v >= from) => h[v + 1] = g[v + 1]
          BY <2>3, <3>2 DEF Newest
        <4> HIDE DEF h
        <4> QED BY <2>4, <4>1, <4>2
      <3> QED BY <3>1, <3>2
    <2> HIDE DEF h
    <2>6. h = [v \in b..Newest |-> IF v >= from THEN db ELSE DownOne(h[v + 1], v + 1)]
      BY <2>5 DEF h
    <2> QED BY <1>4, <2>6 DEF b
  <1> QED BY <1>4, <1>6, <1>7

\* Down is the database where it is read, and from there one downgrade() after the other.
LEMMA WayDown ==
    ASSUME NEW db, NEW from \in 0..Newest, NEW v \in 0..Newest
    PROVE  Down(db, from)[v] = IF v >= from THEN db ELSE DownOne(Down(db, from)[v + 1], v + 1)
  <1> DEFINE rhs(f, w) == IF w >= from THEN db ELSE DownOne(f[w + 1], w + 1)
  <1>1. \E f : f = [w \in 0..Newest |-> rhs(f, w)]
    <2>1. 0 \in 0..Newest
      BY DEF Newest
    <2>2. \E f : GoesDown(f, db, from, 0)
      BY <2>1, WayDownExists, Zenon
    <2> QED BY <2>2, Zenon DEF GoesDown
  <1>2. Down(db, from) = CHOOSE f : f = [w \in 0..Newest |-> rhs(f, w)]
    BY Zenon DEF Down
  <1> HIDE DEF rhs
  <1>3. Down(db, from) = [w \in 0..Newest |-> rhs(Down(db, from), w)]
    BY <1>1, <1>2, Zenon
  <1>4. Down(db, from)[v] = rhs(Down(db, from), v)
    BY <1>3
  <1> QED BY <1>4, Zenon DEF rhs

-----------------------------------------------------------------------------
(* The rows *)

\* The checks of the schema change with 0001, 0004, 0011 and 0015.
LEMMA KindsOf ==
    ASSUME NEW v \in 0..Newest
    PROVE  /\ v = 0 => KindsAt(v) = {}
           /\ v \in 1..3 => KindsAt(v) = {Bare}
           /\ v \in 4..10 => KindsAt(v) = Kinds4
           /\ v \in 11..14 => KindsAt(v) = Kinds11
           /\ v >= 15 => KindsAt(v) = Kinds15
  BY DEF KindsAt, Newest

\* A status in the vocabulary of a revision tells what its other name told.
LEMMA SameStatus ==
    ASSUME NEW s, NEW t, NEW u, Renamed(s, t), Renamed(t, u)
    PROVE  Renamed(s, u) /\ Renamed(s, s)
  BY DEF Renamed

\* What is left of a run: its status under one of its names, its snapshot, and its reason
Kept(k, new) == Renamed(k.status, new.status) /\ k.snapshot = new.snapshot
KeptWhole(k, new) == Kept(k, new) /\ (k.reason # "none" => new.reason = k.reason)

\* 0011, upgrade(): a run that was not RUNNING has a state of the new vocabulary.
LEMMA NamedUp ==
    ASSUME NEW k \in Kinds4, k.status # "RUNNING"
    PROVE  lifecycle_named(k) \in Kinds11 /\ KeptWhole(k, lifecycle_named(k))
  <1>1. PICK s \in {"PENDING", "RUNNING", "COMPLETED", "FAILED"} : k = Run(s, TRUE, "none")
    BY DEF Kinds4
  <1>2. k = [status |-> s, snapshot |-> TRUE, reason |-> "none"] /\ s # "RUNNING"
    BY <1>1 DEF Run
  <1>3. PICK t : t = IF s = "PENDING" THEN "CREATED" ELSE s
    OBVIOUS
  <1>4. lifecycle_named(k) = Run(t, TRUE, "none")
    BY <1>2, <1>3 DEF lifecycle_named, Run
  <1>5. t \in {"CREATED", "ACTIVE", "COMPLETED", "FAILED"} /\ TRUE \in BOOLEAN /\ Renamed(s, t)
    BY <1>2, <1>3 DEF Renamed
  <1>6. lifecycle_named(k) \in Kinds11
    <2>1. \A u \in {"CREATED", "ACTIVE", "COMPLETED", "FAILED"}, b \in BOOLEAN : Run(u, b, "none") \in Kinds11
      BY DEF Kinds11
    <2> QED BY <1>4, <1>5, <2>1, Zenon
  <1>7. k.status = s /\ k.snapshot = TRUE /\ k.reason = "none" /\ Run(t, TRUE, "none").status = t
        /\ Run(t, TRUE, "none").snapshot = TRUE
    BY <1>2 DEF Run
  <1> QED BY <1>4, <1>5, <1>6, <1>7, Zenon DEF KeptWhole, Kept

\* 0011, downgrade(): a run it does not refuse has a state of the old vocabulary.
LEMMA UnnamedDown ==
    ASSUME NEW k \in Kinds11, k.status \in {"CREATED", "COMPLETED", "FAILED"}, k.snapshot
    PROVE  lifecycle_unnamed(k) \in Kinds4 /\ KeptWhole(k, lifecycle_unnamed(k))
  <1>1. PICK s \in {"CREATED", "ACTIVE", "COMPLETED", "FAILED"}, b \in BOOLEAN : k = Run(s, b, "none")
    BY DEF Kinds11
  <1>2. k = [status |-> s, snapshot |-> b, reason |-> "none"] /\ s # "ACTIVE" /\ b = TRUE
    BY <1>1 DEF Run
  <1>3. PICK t : t = IF s = "CREATED" THEN "PENDING" ELSE s
    OBVIOUS
  <1>4. lifecycle_unnamed(k) = Run(t, TRUE, "none")
    BY <1>2, <1>3 DEF lifecycle_unnamed, Run
  <1>5. t \in {"PENDING", "RUNNING", "COMPLETED", "FAILED"} /\ Renamed(s, t)
    BY <1>2, <1>3 DEF Renamed
  <1>6. lifecycle_unnamed(k) \in Kinds4
    BY <1>4, <1>5, Zenon DEF Kinds4
  <1>7. k.status = s /\ k.snapshot = TRUE /\ k.reason = "none" /\ Run(t, TRUE, "none").status = t
        /\ Run(t, TRUE, "none").snapshot = TRUE
    BY <1>2 DEF Run
  <1> QED BY <1>4, <1>5, <1>6, <1>7, Zenon DEF KeptWhole, Kept

\* 0015, upgrade(): every completed run has a reason.
LEMMA ReasonedUp ==
    ASSUME NEW k \in Kinds11
    PROVE  reasoned(k) \in Kinds15 /\ KeptWhole(k, reasoned(k))
  <1>1. PICK s \in {"CREATED", "ACTIVE", "COMPLETED", "FAILED"}, b \in BOOLEAN : k = Run(s, b, "none")
    BY DEF Kinds11
  <1>2. k = [status |-> s, snapshot |-> b, reason |-> "none"]
    BY <1>1 DEF Run
  <1>3. CASE s = "COMPLETED"
    <2>1. reasoned(k) = Run("COMPLETED", b, "LEGACY")
      BY <1>2, <1>3 DEF reasoned, Run
    <2> QED BY <1>2, <1>3, <2>1 DEF Kinds15, KeptWhole, Kept, Renamed, Run
  <1>4. CASE s # "COMPLETED"
    <2>1. reasoned(k) = k /\ s \in {"CREATED", "ACTIVE", "FAILED"}
      BY <1>2, <1>4 DEF reasoned
    <2> QED BY <1>1, <2>1 DEF Kinds15, KeptWhole, Kept, Renamed
  <1> QED BY <1>3, <1>4

\* 0015, downgrade(): the column of the reasons goes.
LEMMA ReasonDropped ==
    ASSUME NEW k \in Kinds15
    PROVE  [k EXCEPT !.reason = "none"] \in Kinds11 /\ Kept(k, [k EXCEPT !.reason = "none"])
  <1>1. PICK s \in {"CREATED", "ACTIVE", "COMPLETED", "FAILED"}, b \in BOOLEAN, w \in {"none", "LEGACY", "TOLD"} :
          k = Run(s, b, w)
    BY DEF Kinds15
  <1>2. [k EXCEPT !.reason = "none"] = Run(s, b, "none")
    BY <1>1 DEF Run
  <1> QED BY <1>1, <1>2 DEF Kinds11, Kept, Renamed, Run

\* upgrade() of a revision that does not refuse the rows leaves kinds its checks allow, and
\* something of every run, if the revision keeps any.
LEMMA RowsUpgraded ==
    ASSUME NEW r \in 1..Newest, NEW rows \in SUBSET KindsAt(r - 1), r = 4 => rows = {},
           r = 11 => \A k \in rows : k.status # "RUNNING"
    PROVE  /\ RowsUp(rows, r) \subseteq KindsAt(r) /\ (r \notin {11, 15} => RowsUp(rows, r) = rows)
           /\ \A k \in rows : \E new \in RowsUp(rows, r) : KeptWhole(k, new)
  <1>0. r \in 0..Newest /\ r - 1 \in 0..Newest
    BY DEF Newest
  <1>1. CASE r = 11
    <2>1. rows \subseteq Kinds4 /\ KindsAt(r) = Kinds11
      BY <1>0, <1>1, KindsOf
    <2>2. RowsUp(rows, r) = {lifecycle_named(k) : k \in rows}
      BY <1>1 DEF RowsUp
    <2> QED BY <1>1, <2>1, <2>2, NamedUp
  <1>2. CASE r = 15
    <2>1. rows \subseteq Kinds11 /\ KindsAt(r) = Kinds15
      BY <1>0, <1>2, KindsOf
    <2>2. RowsUp(rows, r) = {reasoned(k) : k \in rows}
      BY <1>2 DEF RowsUp
    <2> QED BY <1>2, <2>1, <2>2, ReasonedUp
  <1>3. CASE r \notin {11, 15}
    <2>1. RowsUp(rows, r) = rows
      BY <1>3 DEF RowsUp
    <2>2. rows \subseteq KindsAt(r)
      <3>1. r = 1 => rows = {}
        BY <1>0, KindsOf
      <3> QED BY <1>0, <1>3, <3>1, KindsOf DEF Newest
    <2>3. \A k \in rows : KeptWhole(k, k)
      BY DEF KeptWhole, Kept, Renamed
    <2> QED BY <1>3, <2>1, <2>2, <2>3
  <1> QED BY <1>1, <1>2, <1>3

\* downgrade() of a revision that does not refuse the rows leaves kinds the one before allows.
LEMMA RowsDowngraded ==
    ASSUME NEW r \in 1..18, NEW rows \in SUBSET KindsAt(r), r = 11 => lifecycle_removable(rows)
    PROVE  /\ RowsDown(rows, r) \subseteq KindsAt(r - 1)
           /\ r > 4 => \A k \in rows : \E new \in RowsDown(rows, r) : Kept(k, new)
           /\ r > 15 => RowsDown(rows, r) = rows
  <1>0. r \in 0..Newest /\ r - 1 \in 0..Newest
    BY DEF Newest
  <1>1. CASE r = 11
    <2>1. rows \subseteq Kinds11 /\ KindsAt(r - 1) = Kinds4
      BY <1>0, <1>1, KindsOf
    <2>2. RowsDown(rows, r) = {lifecycle_unnamed(k) : k \in rows}
      BY <1>1 DEF RowsDown
    <2>3. \A k \in rows : lifecycle_unnamed(k) \in Kinds4 /\ KeptWhole(k, lifecycle_unnamed(k))
      BY <1>1, <2>1, UnnamedDown DEF lifecycle_removable
    <2>4. \A k \in rows : Kept(k, lifecycle_unnamed(k))
      BY <2>3, Zenon DEF KeptWhole
    <2>5. RowsDown(rows, r) \subseteq KindsAt(r - 1)
      BY <2>1, <2>2, <2>3
    <2>6. \A k \in rows : \E new \in RowsDown(rows, r) : Kept(k, new)
      BY <2>2, <2>4
    <2> QED BY <1>1, <2>5, <2>6
  <1>2. CASE r = 15
    <2>1. rows \subseteq Kinds15 /\ KindsAt(r - 1) = Kinds11
      BY <1>0, <1>2, KindsOf
    <2>2. RowsDown(rows, r) = {[k EXCEPT !.reason = "none"] : k \in rows}
      BY <1>2 DEF RowsDown
    <2> DEFINE f(k) == [k EXCEPT !.reason = "none"]
    <2>3. \A k \in rows : f(k) \in Kinds11 /\ Kept(k, f(k))
      BY <2>1, ReasonDropped
    <2>4. RowsDown(rows, r) = {f(k) : k \in rows}
      BY <2>2
    <2> HIDE DEF f
    <2>5. RowsDown(rows, r) \subseteq KindsAt(r - 1) /\ \A k \in rows : \E new \in RowsDown(rows, r) : Kept(k, new)
      BY <2>1, <2>3, <2>4
    <2> QED BY <1>2, <2>5
  <1>3. CASE r = 4
    <2>1. RowsDown(rows, r) = {Bare : k \in rows} /\ KindsAt(r - 1) = {Bare}
      BY <1>0, <1>3, KindsOf DEF RowsDown
    <2> QED BY <1>3, <2>1
  <1>4. CASE r = 1
    BY <1>4 DEF RowsDown
  <1>5. CASE r \notin {1, 4, 11, 15}
    <2>1. RowsDown(rows, r) = rows
      BY <1>5 DEF RowsDown
    <2>2. rows \subseteq KindsAt(r - 1)
      BY <1>0, <1>5, KindsOf
    <2>3. \A k \in rows : Kept(k, k)
      BY DEF Kept, Renamed
    <2> QED BY <1>5, <2>1, <2>2, <2>3
  <1> QED BY <1>1, <1>2, <1>3, <1>4, <1>5

-----------------------------------------------------------------------------
(* A database on its way *)

IsDatabase(db) ==
    db = [version |-> db.version, schema |-> db.schema, rows |-> db.rows, twins |-> db.twins, ok |-> db.ok]

\* A database whose schema, rows and jobs are those of its revision
Fits(db) ==
    /\ IsDatabase(db) /\ db.ok = TRUE /\ db.version \in 0..Newest
    /\ Alike(db.schema, db.version)
    /\ db.rows \subseteq KindsAt(db.version)
    /\ db.twins \subseteq {"initial", "continuation"}
    /\ db.version \in 11..22 => db.twins = {}
    /\ db.version = Newest => "initial" \notin db.twins

\* What 0004 and 0011 refuse
Refusable(db) ==
    \/ db.version < 4 /\ db.rows # {}
    \/ db.version < 11 /\ (db.twins # {} \/ \E k \in db.rows : k.status = "RUNNING")

\* A revision either refuses the rows or the jobs it finds, or makes the database one of its own.
LEMMA UpOneFits ==
    ASSUME NEW r \in 1..Newest, NEW db, Fits(db), db.version = r - 1
    PROVE  LET new == UpOne(db, r)
           IN /\ RefusesUpgrade(db, r) => new.ok = FALSE /\ Refusable(db)
              /\ ~RefusesUpgrade(db, r) =>
                    /\ Fits(new) /\ new.version = r /\ new.twins = db.twins
                    /\ r \notin {11, 15} => new.rows = db.rows
                    /\ \A k \in db.rows : \E n \in new.rows : KeptWhole(k, n)
              /\ IsDatabase(new) /\ new.ok \in BOOLEAN
              /\ ~RefusesUpgrade(db, r) => new.schema = Upgraded(db.schema, r) /\ new.rows = RowsUp(db.rows, r)
  <1> DEFINE new == UpOne(db, r)
  <1>1. ~Collides(db.schema, r) /\ Alike(Upgraded(db.schema, r), r)
    BY UpgradeStands DEF Fits
  <1>2. CASE RefusesUpgrade(db, r)
    <2>1. new = [db EXCEPT !.ok = FALSE]
      BY <1>2 DEF UpOne
    <2>2. new.ok = FALSE /\ IsDatabase(new)
      <3>1. db = [version |-> db.version, schema |-> db.schema, rows |-> db.rows, twins |-> db.twins, ok |-> db.ok]
        BY DEF Fits, IsDatabase
      <3>2. new = [version |-> db.version, schema |-> db.schema, rows |-> db.rows, twins |-> db.twins, ok |-> FALSE]
        BY <2>1, <3>1
      <3> HIDE DEF new
      <3> QED BY <3>2 DEF IsDatabase
    <2>3. Refusable(db)
      BY <1>2 DEF RefusesUpgrade, Refusable, Fits, columns_addable, lifecycle_addable
    <2> QED BY <1>2, <2>2, <2>3
  <1>3. CASE ~RefusesUpgrade(db, r)
    <2>1. new = [db EXCEPT !.version = r, !.schema = Upgraded(db.schema, r), !.rows = RowsUp(db.rows, r)]
      BY <1>1, <1>3 DEF UpOne, Fits
    <2>2. new = [version |-> r, schema |-> Upgraded(db.schema, r), rows |-> RowsUp(db.rows, r),
                 twins |-> db.twins, ok |-> TRUE]
      <3>1. db = [version |-> db.version, schema |-> db.schema, rows |-> db.rows, twins |-> db.twins, ok |-> db.ok] /\ db.ok = TRUE
        BY DEF Fits, IsDatabase
      <3> QED BY <2>1, <3>1
    <2> HIDE DEF new
    <2>3. new.version = r /\ new.schema = Upgraded(db.schema, r) /\ new.rows = RowsUp(db.rows, r)
          /\ new.twins = db.twins /\ new.ok = TRUE /\ IsDatabase(new)
      BY <2>2 DEF IsDatabase
    <2>4. /\ RowsUp(db.rows, r) \subseteq KindsAt(r) /\ (r \notin {11, 15} => RowsUp(db.rows, r) = db.rows)
          /\ \A k \in db.rows : \E n \in RowsUp(db.rows, r) : KeptWhole(k, n)
      <3>1. db.rows \in SUBSET KindsAt(r - 1)
        BY DEF Fits
      <3>2. (r = 4 => db.rows = {}) /\ (r = 11 => \A k \in db.rows : k.status # "RUNNING")
        BY <1>3 DEF RefusesUpgrade, columns_addable, lifecycle_addable
      <3> QED BY <3>1, <3>2, RowsUpgraded
    <2>5. (r \in 11..22 => db.twins = {}) /\ (r = Newest => "initial" \notin db.twins)
      BY <1>3 DEF RefusesUpgrade, lifecycle_addable, Fits, Newest
    <2>6. Fits(new)
      <3>1. r \in 0..Newest /\ db.twins \subseteq {"initial", "continuation"}
        BY DEF Newest, Fits
      <3> QED BY <1>1, <2>3, <2>4, <2>5, <3>1 DEF Fits
    <2> QED BY <1>3, <2>3, <2>4, <2>6 DEF new
  <1> QED BY <1>2, <1>3

\* A downgrade of a revision raises, or makes the database one of the revision before.
LEMMA DownOneFits ==
    ASSUME NEW r \in 1..Newest, NEW db, Fits(db), db.version = r
    PROVE  LET new == DownOne(db, r)
           IN /\ RefusesDowngrade(db, r) => new.ok = FALSE
              /\ ~RefusesDowngrade(db, r) =>
                    /\ r <= 18 /\ Fits(new) /\ new.version = r - 1
                    /\ r > 4 => \A k \in db.rows : \E n \in new.rows : Kept(k, n)
                    /\ r > 15 => new.rows = db.rows
                    /\ new.rows = RowsDown(db.rows, r)
              /\ IsDatabase(new) /\ new.ok \in BOOLEAN
  <1> DEFINE new == DownOne(db, r)
  <1>1. CASE RefusesDowngrade(db, r)
    <2>1. new = [db EXCEPT !.ok = FALSE]
      BY <1>1 DEF DownOne
    <2>2. new.ok = FALSE /\ IsDatabase(new)
      <3>1. db = [version |-> db.version, schema |-> db.schema, rows |-> db.rows, twins |-> db.twins, ok |-> db.ok]
        BY DEF Fits, IsDatabase
      <3>2. new = [version |-> db.version, schema |-> db.schema, rows |-> db.rows, twins |-> db.twins, ok |-> FALSE]
        BY <2>1, <3>1
      <3> HIDE DEF new
      <3> QED BY <3>2 DEF IsDatabase
    <2> QED BY <1>1, <2>2
  <1>2. CASE ~RefusesDowngrade(db, r)
    <2>1. r \in 1..18
      BY <1>2, RevisionFields DEF RefusesDowngrade
    <2> DEFINE t == IF r = 4 THEN {} ELSE db.twins
    <2>2. new = [db EXCEPT !.version = r - 1, !.schema = Downgraded(db.schema, r), !.rows = RowsDown(db.rows, r),
                           !.twins = t]
      BY <1>2 DEF DownOne, Fits
    <2>3. t \subseteq db.twins
      OBVIOUS
    <2> HIDE DEF t
    <2>4. new = [version |-> r - 1, schema |-> Downgraded(db.schema, r), rows |-> RowsDown(db.rows, r),
                 twins |-> t, ok |-> TRUE]
      <3>1. db = [version |-> db.version, schema |-> db.schema, rows |-> db.rows, twins |-> db.twins, ok |-> db.ok] /\ db.ok = TRUE
        BY DEF Fits, IsDatabase
      <3> QED BY <2>2, <3>1
    <2> HIDE DEF new
    <2>5. new.version = r - 1 /\ new.schema = Downgraded(db.schema, r) /\ new.rows = RowsDown(db.rows, r)
          /\ new.twins = t /\ new.ok = TRUE /\ IsDatabase(new)
      BY <2>4 DEF IsDatabase
    <2>6. /\ RowsDown(db.rows, r) \subseteq KindsAt(r - 1)
          /\ r > 4 => \A k \in db.rows : \E n \in RowsDown(db.rows, r) : Kept(k, n)
          /\ r > 15 => RowsDown(db.rows, r) = db.rows
      <3>1. db.rows \in SUBSET KindsAt(r) /\ (r = 11 => lifecycle_removable(db.rows))
        BY <1>2 DEF Fits, RefusesDowngrade
      <3> QED BY <2>1, <3>1, RowsDowngraded
    <2>7. (r - 1 \in 11..22 => t = {}) /\ r - 1 # Newest
      <3>1. r - 1 \in 11..22 => r \in 11..22
        BY <2>1
      <3> QED BY <2>1, <2>3, <3>1 DEF Fits, Newest
    <2>8. Alike(Downgraded(db.schema, r), r - 1)
      BY <2>1, DowngradeStands DEF Fits
    <2>9. Fits(new)
      <3>1. r - 1 \in 0..Newest /\ t \subseteq {"initial", "continuation"}
        BY <2>3 DEF Newest, Fits
      <3> QED BY <2>5, <2>6, <2>7, <2>8, <3>1 DEF Fits
    <2>10. r > 4 => \A k \in db.rows : \E n \in new.rows : Kept(k, n)
      BY <2>5, <2>6
    <2>11. r <= 18 /\ (r > 15 => new.rows = db.rows)
      BY <2>1, <2>5, <2>6
    <2> QED BY <1>2, <2>5, <2>9, <2>10, <2>11, Zenon DEF new
  <1> QED BY <1>1, <1>2

\* KeptWhole and Kept are kept from one revision to the next.
LEMMA KeptOn ==
    ASSUME NEW k, NEW m, NEW n
    PROVE  /\ KeptWhole(k, k)
           /\ KeptWhole(k, m) /\ KeptWhole(m, n) => KeptWhole(k, n)
           /\ Kept(k, m) /\ Kept(m, n) => Kept(k, n)
  BY SameStatus DEF KeptWhole, Kept, Renamed

\* A way up that has not raised
StandsAfter(a, db, v) ==
    /\ Fits(a) /\ a.version = v /\ a.twins = db.twins
    /\ \A k \in db.rows : \E n \in a.rows : KeptWhole(k, n)
    /\ v < 11 => a.rows = db.rows
    /\ v >= 4 /\ db.version < 4 => db.rows = {}

\* What a way up has come to: a database of the revision, or a refusal of what it found
ComesTo(a, db, v) ==
    /\ IsDatabase(a) /\ a.ok \in BOOLEAN
    /\ a.ok => StandsAfter(a, db, v)
    /\ ~a.ok => Refusable(db)

\* env.py: an upgrade either reaches its revision with all it found, or raises over rows that
\* 0004 or 0011 refuse.
LEMMA UpFits ==
    ASSUME NEW db, Fits(db), NEW v \in db.version..Newest
    PROVE  ComesTo(Up(db, db.version)[v], db, v)
  <1> DEFINE from == db.version
             a(w) == Up(db, from)[w]
             S == {w \in Nat : w \in from..Newest /\ ~ComesTo(a(w), db, w)}
  <1>0. from \in 0..Newest /\ \A w \in from..Newest : w \in 0..Newest
    BY DEF Fits, Newest
  <1>1. SUFFICES ASSUME S # {} PROVE FALSE
    BY <1>0 DEF Newest
  <1>2. PICK w \in S : \A y \in S : <<y, w>> \notin OpToRel(<, Nat)
    <2>1. S \in SUBSET Nat
      OBVIOUS
    <2> HIDE DEF S
    <2> QED BY <1>1, <2>1, NatLessThanWellFounded, WFMin, Zenon
  <1>3. \A y \in S : ~(y < w)
    BY <1>2, Zenon DEF OpToRel
  <1>4. w \in Nat /\ w \in from..Newest /\ ~ComesTo(a(w), db, w)
    BY <1>2
  <1>5. CASE w = from
    <2>1. a(w) = db
      BY <1>0, <1>5, WayUp
    <2>2. \A k \in db.rows : KeptWhole(k, k)
      BY KeptOn
    <2>3. StandsAfter(db, db, from)
      BY <1>0, <2>2 DEF StandsAfter
    <2> HIDE DEF a
    <2> QED BY <1>4, <1>5, <2>1, <2>3 DEF ComesTo, Fits
  <1>6. CASE w # from
    <2>1. w - 1 \in from..Newest /\ w - 1 \in Nat /\ w - 1 < w /\ w \in 1..Newest /\ w \in 0..Newest
      BY <1>0, <1>4, <1>6 DEF Newest
    <2>2. ComesTo(a(w - 1), db, w - 1)
      <3>1. w - 1 \notin S
        <4> HIDE DEF S
        <4> QED BY <1>3, <2>1
      <3> QED BY <2>1, <3>1
    <2>3. a(w) = UpOne(a(w - 1), w)
      <3>1. ~(w <= from)
        BY <1>0, <2>1
      <3> QED BY <1>0, <2>1, <3>1, WayUp
    <2> DEFINE b == a(w - 1)
               c == a(w)
    <2> HIDE DEF a, S, b, c
    <2>4. ComesTo(b, db, w - 1) /\ c = UpOne(b, w) /\ ~ComesTo(c, db, w)
      BY <1>4, <2>2, <2>3 DEF b, c
    <2>5. CASE ~b.ok
      <3>1. c = [b EXCEPT !.ok = FALSE]
        BY <2>4, <2>5 DEF UpOne
      <3>2. Refusable(db) /\ b = [version |-> b.version, schema |-> b.schema, rows |-> b.rows, twins |-> b.twins, ok |-> b.ok]
        BY <2>4, <2>5 DEF ComesTo, IsDatabase
      <3>3. c = [version |-> b.version, schema |-> b.schema, rows |-> b.rows, twins |-> b.twins, ok |-> FALSE]
        BY <3>1, <3>2
      <3>4. IsDatabase(c) /\ c.ok = FALSE
        BY <3>3 DEF IsDatabase
      <3> QED BY <2>4, <3>2, <3>4 DEF ComesTo
    <2>6. CASE b.ok
      <3>1. StandsAfter(b, db, w - 1)
        BY <2>4, <2>6 DEF ComesTo
      <3>2. Fits(b) /\ b.version = w - 1
        BY <3>1 DEF StandsAfter
      <3>3. CASE RefusesUpgrade(b, w)
        <4>1. IsDatabase(c) /\ c.ok = FALSE /\ Refusable(b)
          BY <2>1, <2>4, <3>2, <3>3, UpOneFits
        <4>2. Refusable(db)
          BY <1>0, <2>1, <3>1, <3>2, <4>1 DEF Refusable, StandsAfter
        <4> QED BY <2>4, <4>1, <4>2 DEF ComesTo
      <3>4. CASE ~RefusesUpgrade(b, w)
        <4>1. /\ Fits(c) /\ c.version = w /\ c.twins = b.twins
              /\ w \notin {11, 15} => c.rows = b.rows
              /\ \A k \in b.rows : \E n \in c.rows : KeptWhole(k, n)
          BY <2>1, <2>4, <3>2, <3>4, UpOneFits
        <4>2. \A k \in db.rows : \E n \in c.rows : KeptWhole(k, n)
          <5> SUFFICES ASSUME NEW k \in db.rows PROVE \E n \in c.rows : KeptWhole(k, n)
            OBVIOUS
          <5>1. PICK m \in b.rows : KeptWhole(k, m)
            BY <3>1 DEF StandsAfter
          <5>2. PICK n \in c.rows : KeptWhole(m, n)
            BY <4>1
          <5> QED BY <5>1, <5>2, KeptOn
        <4>3. w < 11 => c.rows = db.rows
          BY <2>1, <3>1, <4>1 DEF StandsAfter
        <4>4. w >= 4 /\ db.version < 4 => db.rows = {}
          <5>1. w = 4 => b.rows = {}
            BY <2>4, <3>4 DEF RefusesUpgrade, columns_addable
          <5> QED BY <2>1, <3>1, <5>1 DEF StandsAfter
        <4>5. StandsAfter(c, db, w)
          BY <3>1, <4>1, <4>2, <4>3, <4>4 DEF StandsAfter
        <4> QED BY <2>4, <4>1, <4>5 DEF ComesTo, Fits
      <3> QED BY <3>3, <3>4
    <2> QED BY <2>5, <2>6
  <1> QED BY <1>5, <1>6

\* What a way down has come to: a database of the revision, or an error
ComesDownTo(a, db, v) ==
    /\ IsDatabase(a) /\ a.ok \in BOOLEAN
    /\ a.ok => /\ Fits(a) /\ a.version = v
               /\ v < db.version => db.version <= 18
               /\ v >= 4 => \A k \in db.rows : \E n \in a.rows : Kept(k, n)
               /\ v >= 15 => a.rows = db.rows

\* env.py: a downgrade that does not raise reaches its revision with all that revision can hold.
LEMMA DownFits ==
    ASSUME NEW db, Fits(db), NEW v \in 0..db.version
    PROVE  ComesDownTo(Down(db, db.version)[v], db, v)
  <1> DEFINE from == db.version
             a(w) == Down(db, from)[w]
             S == {d \in Nat : d \in 0..from /\ ~ComesDownTo(a(from - d), db, from - d)}
  <1>0. from \in 0..Newest /\ from \in Nat /\ \A w \in 0..from : w \in 0..Newest
    BY DEF Fits, Newest
  <1>1. SUFFICES ASSUME S # {} PROVE FALSE
    <2>1. from - v \in Nat /\ from - v \in 0..from /\ from - (from - v) = v
      BY <1>0
    <2>2. from - v \notin S
      OBVIOUS
    <2>3. ComesDownTo(a(from - (from - v)), db, from - (from - v))
      BY <2>1, <2>2
    <2> HIDE DEF a
    <2> QED BY <2>1, <2>3 DEF a
  <1>2. PICK d \in S : \A y \in S : <<y, d>> \notin OpToRel(<, Nat)
    <2>1. S \in SUBSET Nat
      OBVIOUS
    <2> HIDE DEF S
    <2> QED BY <1>1, <2>1, NatLessThanWellFounded, WFMin, Zenon
  <1>3. \A y \in S : ~(y < d)
    BY <1>2, Zenon DEF OpToRel
  <1>4. d \in Nat /\ d \in 0..from /\ ~ComesDownTo(a(from - d), db, from - d)
    BY <1>2
  <1>5. CASE d = 0
    <2>1. from - d = from
      BY <1>0, <1>5
    <2>2. a(from - d) = db
      BY <1>0, <2>1, WayDown
    <2>3. \A k \in db.rows : Kept(k, k)
      BY DEF Kept, Renamed
    <2>4. ~(from < from)
      BY <1>0
    <2> HIDE DEF a
    <2> QED BY <1>4, <2>1, <2>2, <2>3, <2>4 DEF ComesDownTo, Fits
  <1>6. CASE d # 0
    <2> DEFINE w == from - d
    <2>1. w \in 0..from /\ w + 1 \in 1..from /\ w + 1 \in 1..Newest /\ w \in 0..Newest /\ from - (d - 1) = w + 1
      BY <1>0, <1>4, <1>6
    <2>2. ComesDownTo(a(w + 1), db, w + 1)
      <3>1. d - 1 \in Nat /\ d - 1 \in 0..from /\ d - 1 < d
        BY <1>0, <1>4, <1>6
      <3>2. d - 1 \notin S
        <4> HIDE DEF S
        <4> QED BY <1>3, <3>1
      <3>3. ComesDownTo(a(from - (d - 1)), db, from - (d - 1))
        BY <3>1, <3>2
      <3> HIDE DEF a
      <3> QED BY <2>1, <3>3
    <2>3. a(w) = DownOne(a(w + 1), w + 1)
      <3>1. ~(w >= from)
        BY <1>0, <2>1
      <3> QED BY <1>0, <2>1, <3>1, WayDown
    <2> DEFINE b == a(w + 1)
               c == a(w)
    <2>4. ComesDownTo(b, db, w + 1) /\ c = DownOne(b, w + 1) /\ ~ComesDownTo(c, db, w)
      BY <1>4, <2>2, <2>3 DEF b, c
    <2> HIDE DEF a, S, b, c, w
    <2>5. CASE ~b.ok
      <3>1. c = [b EXCEPT !.ok = FALSE]
        BY <2>4, <2>5 DEF DownOne
      <3>2. b = [version |-> b.version, schema |-> b.schema, rows |-> b.rows, twins |-> b.twins, ok |-> b.ok]
        BY <2>4, <2>5 DEF ComesDownTo, IsDatabase
      <3>3. c = [version |-> b.version, schema |-> b.schema, rows |-> b.rows, twins |-> b.twins, ok |-> FALSE]
        BY <3>1, <3>2
      <3>4. IsDatabase(c) /\ c.ok = FALSE
        BY <3>3 DEF IsDatabase
      <3> QED BY <2>4, <3>4 DEF ComesDownTo
    <2>6. CASE b.ok
      <3>1. /\ Fits(b) /\ b.version = w + 1
            /\ w + 1 < db.version => db.version <= 18
            /\ w + 1 >= 4 => \A k \in db.rows : \E n \in b.rows : Kept(k, n)
            /\ w + 1 >= 15 => b.rows = db.rows
        BY <2>4, <2>6 DEF ComesDownTo
      <3>2. CASE RefusesDowngrade(b, w + 1)
        <4>1. c.ok = FALSE /\ IsDatabase(c)
          BY <2>1, <2>4, <3>1, <3>2, DownOneFits
        <4> QED BY <2>4, <4>1 DEF ComesDownTo
      <3>3. CASE ~RefusesDowngrade(b, w + 1)
        <4>1. /\ w + 1 <= 18 /\ Fits(c) /\ c.version = (w + 1) - 1 /\ IsDatabase(c) /\ c.ok \in BOOLEAN
              /\ w + 1 > 4 => \A k \in b.rows : \E n \in c.rows : Kept(k, n)
              /\ w + 1 > 15 => c.rows = b.rows
          BY <2>1, <2>4, <3>1, <3>3, DownOneFits
        <4>2. ASSUME w >= 4 PROVE \A k \in db.rows : \E n \in c.rows : Kept(k, n)
          <5> SUFFICES ASSUME NEW k \in db.rows PROVE \E n \in c.rows : Kept(k, n)
            OBVIOUS
          <5>0. w + 1 >= 4 /\ w + 1 > 4
            BY <2>1, <4>2
          <5>1. PICK m \in b.rows : Kept(k, m)
            BY <3>1, <5>0
          <5>2. PICK n \in c.rows : Kept(m, n)
            BY <4>1, <5>0
          <5> QED BY <5>1, <5>2, KeptOn
        <4>3. w >= 15 => c.rows = db.rows
          BY <2>1, <3>1, <4>1
        <4>4. c.version = w /\ (w < db.version => db.version <= 18)
          BY <1>0, <2>1, <3>1, <4>1
        <4> QED BY <2>4, <4>1, <4>2, <4>3, <4>4 DEF ComesDownTo
      <3> QED BY <3>2, <3>3
    <2> QED BY <2>5, <2>6
  <1> QED BY <1>5, <1>6

-----------------------------------------------------------------------------
(* The chain *)

\* A new database fits revision 0.
LEMMA EmptyFits == Fits(Empty) /\ Empty.version = 0 /\ Empty.rows = {} /\ Empty.twins = {}
  <1>1. /\ Empty.version = 0 /\ Empty.schema = <<>> /\ Empty.rows = {} /\ Empty.twins = {} /\ Empty.ok = TRUE
        /\ IsDatabase(Empty)
    BY DEF Empty, IsDatabase
  <1>2. DOMAIN <<>> = {} /\ <<>> = [n \in {} |-> <<>>[n]]
    OBVIOUS
  <1>3. NamesAt(0) = {}
    <2>1. 1 \in 1..Newest /\ 1 - 1 = 0
      BY DEF Newest
    <2> QED BY <2>1, NamesStep
  <1>4. Alike(<<>>, 0)
    BY <1>2, <1>3 DEF Alike
  <1> QED BY <1>1, <1>4 DEF Fits, Newest

\* The upgrades of a new database raise nowhere, and end at the newest revision.
LEMMA ChainFits ==
    ASSUME NEW v \in 0..Newest
    PROVE  LET a == Up(Empty, 0)[v]
           IN Fits(a) /\ a.version = v /\ a.twins = {} /\ (v < 11 => a.rows = {}) /\ Chain[v] = a.schema
  <1> DEFINE a == Up(Empty, 0)[v]
  <1>1. v \in Empty.version..Newest /\ Empty.version = 0
    BY EmptyFits
  <1>2. ComesTo(a, Empty, v)
    <2>1. ComesTo(Up(Empty, Empty.version)[v], Empty, v)
      BY <1>1, EmptyFits, UpFits
    <2> QED BY <1>1, <2>1
  <1>3. ~Refusable(Empty)
    BY EmptyFits DEF Refusable
  <1>4. Chain[v] = a.schema
    BY DEF Chain
  <1> HIDE DEF a
  <1>5. StandsAfter(a, Empty, v)
    BY <1>2, <1>3 DEF ComesTo
  <1>6. Fits(a) /\ a.version = v /\ a.twins = {} /\ (v < 11 => a.rows = {})
    BY <1>5, EmptyFits DEF StandsAfter
  <1> QED BY <1>4, <1>6, Zenon DEF a

\* Before 0018 a new database has no column that a downgrade of it could have left.
LEMMA ChainHasNoResidue ==
    ASSUME NEW v \in 0..Newest
    PROVE  DOMAIN Chain[v] = NamesAt(v)
  <1> DEFINE S == {w \in Nat : w \in 0..Newest /\ DOMAIN Chain[w] # NamesAt(w)}
  <1>1. SUFFICES ASSUME S # {} PROVE FALSE
    BY DEF Newest
  <1>2. PICK w \in S : \A y \in S : <<y, w>> \notin OpToRel(<, Nat)
    <2>1. S \in SUBSET Nat
      OBVIOUS
    <2> HIDE DEF S
    <2> QED BY <1>1, <2>1, NatLessThanWellFounded, WFMin, Zenon
  <1>3. \A y \in S : ~(y < w)
    BY <1>2, Zenon DEF OpToRel
  <1>4. w \in Nat /\ w \in 0..Newest /\ DOMAIN Chain[w] # NamesAt(w)
    BY <1>2
  <1>5. Alike(Chain[w], w)
    BY <1>4, ChainFits DEF Fits
  <1>6. CASE w = 0
    <2>1. Chain[0] = <<>>
      <3>1. Up(Empty, 0)[0] = Empty
        BY WayUp DEF Newest
      <3> QED BY <3>1 DEF Chain, Empty, Newest
    <2>2. NamesAt(0) = {} /\ DOMAIN <<>> = {}
      <3>1. 1 \in 1..Newest /\ 1 - 1 = 0
        BY DEF Newest
      <3> QED BY <3>1, NamesStep
    <2> QED BY <1>4, <1>6, <2>1, <2>2
  <1>7. CASE w # 0
    <2>1. w - 1 \in Nat /\ w - 1 \in 0..Newest /\ w - 1 < w /\ w \in 1..Newest
      BY <1>4, <1>7 DEF Newest
    <2>2. DOMAIN Chain[w - 1] = NamesAt(w - 1)
      <3>1. w - 1 \notin S
        <4> HIDE DEF S
        <4> QED BY <1>3, <2>1
      <3> QED BY <2>1, <3>1
    <2> DEFINE b == Up(Empty, 0)[w - 1]
               c == Up(Empty, 0)[w]
    <2>3. c = UpOne(b, w)
      <3>1. ~(w <= 0) /\ 0 \in 0..Newest
        BY <2>1 DEF Newest
      <3> QED BY <1>4, <3>1, WayUp
    <2>4. Fits(b) /\ b.version = w - 1 /\ Chain[w - 1] = b.schema
      BY <2>1, ChainFits
    <2>5. Fits(c) /\ Chain[w] = c.schema
      BY <1>4, ChainFits
    <2> HIDE DEF b, c
    <2>6. c.schema = Upgraded(b.schema, w)
      BY <2>1, <2>3, <2>4, <2>5, UpOneFits DEF Fits
    <2>7. Alike(b.schema, w - 1)
      BY <2>4 DEF Fits
    <2>8. DOMAIN c.schema \subseteq NamesAt(w - 1) \cup NamesAt(w)
      BY <2>1, <2>2, <2>4, <2>6, <2>7, UpgradeStands
    <2>9. w < 18 => Residue \notin NamesAt(w - 1)
      <3>1. Alike(b.schema, w - 1) /\ (w < 18 => Residual(w - 1) = {Residue})
        BY <2>1, <2>7 DEF Residual
      <3> QED BY <3>1 DEF Alike
    <2> QED BY <1>4, <1>5, <2>5, <2>8, <2>9 DEF Alike, Residual
  <1> QED BY <1>6, <1>7

\* Of two schemas of a revision, what is left without the column 0018 leaves is the same.
LEMMA AlikeIsChain ==
    ASSUME NEW v \in 0..Newest, NEW s, Alike(s, v)
    PROVE  [n \in DOMAIN s \ Residual(v) |-> s[n]] = Chain[v]
  <1>1. Alike(Chain[v], v) /\ DOMAIN Chain[v] = NamesAt(v)
    BY ChainFits, ChainHasNoResidue DEF Fits
  <1>2. DOMAIN s \ Residual(v) = NamesAt(v) /\ \A n \in NamesAt(v) : s[n] = Chain[v][n]
    BY <1>1 DEF Alike
  <1>3. Chain[v] = [n \in NamesAt(v) |-> Chain[v][n]]
    BY <1>1 DEF Alike
  <1> QED BY <1>2, <1>3

-----------------------------------------------------------------------------
(* The paths the acceptance script tries *)

\* A command of alembic on a database that fits its revision.
LEMMA CommandUp ==
    ASSUME NEW db, Fits(db), NEW to \in db.version + 1..Newest
    PROVE  /\ migrate_command(db, "upgrade", to) = Up(db, db.version)[to]
           /\ to = db.version + 1 => migrate_command(db, "upgrade", to) = UpOne(db, to)
  <1>1. [db EXCEPT !.ok = TRUE] = db
    <2>1. db = [version |-> db.version, schema |-> db.schema, rows |-> db.rows, twins |-> db.twins, ok |-> db.ok] /\ db.ok = TRUE
      BY DEF Fits, IsDatabase
    <2> QED BY <2>1
  <1>2. migrate_command(db, "upgrade", to) = Up(db, db.version)[to]
    BY <1>1 DEF migrate_command, Migrated
  <1>3. ASSUME to = db.version + 1 PROVE Up(db, db.version)[to] = UpOne(db, to)
    <2>1. db.version \in 0..Newest /\ to \in 0..Newest /\ ~(to <= db.version) /\ to - 1 = db.version
      BY <1>3 DEF Fits, Newest
    <2>2. Up(db, db.version)[db.version] = db
      BY <2>1, WayUp
    <2> QED BY <2>1, <2>2, WayUp
  <1> QED BY <1>2, <1>3

\* The same for one revision down.
LEMMA CommandDown ==
    ASSUME NEW db, Fits(db), db.version > 0
    PROVE  migrate_command(db, "downgrade", db.version - 1) = DownOne(db, db.version)
  <1>1. [db EXCEPT !.ok = TRUE] = db
    <2>1. db = [version |-> db.version, schema |-> db.schema, rows |-> db.rows, twins |-> db.twins, ok |-> db.ok] /\ db.ok = TRUE
      BY DEF Fits, IsDatabase
    <2> QED BY <2>1
  <1> DEFINE from == db.version
  <1>2. from \in 0..Newest /\ from - 1 \in 0..Newest /\ ~(from - 1 > from) /\ ~(from - 1 >= from) /\ (from - 1) + 1 = from
    BY DEF Fits, Newest
  <1>3. migrate_command(db, "downgrade", from - 1) = Down(db, from)[from - 1]
    BY <1>1, <1>2 DEF migrate_command, Migrated
  <1>4. Down(db, from)[from] = db
    BY <1>2, WayDown
  <1>5. Down(db, from)[from - 1] = DownOne(db, from)
    BY <1>2, <1>4, WayDown
  <1> QED BY <1>3, <1>5

\* Rows of the allowed kinds can be put into a database that has none of the second jobs.
LEMMA SeededFits ==
    ASSUME NEW db, Fits(db), NEW rows \in SUBSET KindsAt(db.version)
    PROVE  LET new == [db EXCEPT !.rows = rows]
           IN Fits(new) /\ new.version = db.version /\ new.rows = rows /\ new.twins = db.twins
  <1> DEFINE new == [db EXCEPT !.rows = rows]
  <1>1. db = [version |-> db.version, schema |-> db.schema, rows |-> db.rows, twins |-> db.twins, ok |-> db.ok] /\ db.ok = TRUE
    BY DEF Fits, IsDatabase
  <1>2. new = [version |-> db.version, schema |-> db.schema, rows |-> rows, twins |-> db.twins, ok |-> db.ok]
    <2>1. ASSUME NEW v, NEW s, NEW r, NEW t, NEW o, NEW d, d = [version |-> v, schema |-> s, rows |-> r, twins |-> t, ok |-> o]
          PROVE  [d EXCEPT !.rows = rows] = [version |-> v, schema |-> s, rows |-> rows, twins |-> t, ok |-> o]
      BY <2>1
    <2> QED BY <1>1, <2>1
  <1> HIDE DEF new
  <1>3. new.version = db.version /\ new.rows = rows /\ new.twins = db.twins /\ new.schema = db.schema /\ new.ok = TRUE
        /\ IsDatabase(new)
    BY <1>1, <1>2 DEF IsDatabase
  <1>4. Fits(new)
    BY <1>3 DEF Fits
  <1> QED BY <1>3, <1>4 DEF new

\* The definitions that stand of the index on the first jobs and of the columns of a run.
LEMMA WatchedStand ==
    ASSUME NEW v \in 11..Newest, NEW s, Alike(s, v)
    PROVE  /\ Initial \in DOMAIN s /\ s[Initial] = IF v = 23 THEN 23 ELSE 11
           /\ v = Newest => RunColumns \cup {"foreign_keys.0004"} \subseteq DOMAIN s /\ \A n \in RunColumns : s[n] = 11
  <1>1. v \in 1..Newest /\ 11 \in 1..v /\ 11 \in 1..Newest /\ 4 \in 1..v /\ 4 \in 1..Newest
        /\ \A q \in 11 + 1..v : q \in 1..Newest /\ q > 11
    BY DEF Newest
  <1>2. NamesAt(v) \subseteq DOMAIN s /\ \A n \in NamesAt(v) : s[n] = Standing(n, v)
    BY DEF Alike
  <1>3. \A q \in 1..v : Makes[q] \subseteq MadeBy(v)
    BY DEF MadeBy
  <1>4. Initial \in NamesAt(v) /\ RunColumns \subseteq NamesAt(v) /\ "foreign_keys.0004" \in NamesAt(v)
    <2>1. Initial \in Makes[11] /\ RunColumns \subseteq Makes[11] /\ "foreign_keys.0004" \in Makes[4]
      BY <1>1, WatchedNames DEF Makes
    <2>2. Initial \notin Old /\ RunColumns \cap Old = {} /\ "foreign_keys.0004" \notin Old
      BY <1>1, WatchedNames
    <2>3. Initial \in MadeBy(v) /\ RunColumns \subseteq MadeBy(v) /\ "foreign_keys.0004" \in MadeBy(v)
      BY <1>1, <1>3, <2>1
    <2> QED BY <1>1, <2>2, <2>3 DEF NamesAt
  <1>5. ASSUME NEW n \in RunColumns PROVE s[n] = 11
    <2>1. n \in Defines(11) /\ n \notin New
      BY <1>1, <1>5, WatchedNames DEF Defines
    <2>2. \A q \in 11 + 1..v : n \notin Defines(q)
      <3>1. \A q \in 11 + 1..v : n \notin Makes[q]
        BY <1>1, <1>5, WatchedNames
      <3> QED BY <1>1, <3>1 DEF Defines, Makes
    <2>3. Last(n, v) = 11
      BY <1>1, <2>1, <2>2, LastIs
    <2> QED BY <1>2, <1>4, <1>5, <2>1, <2>3 DEF Standing
  <1>6. s[Initial] = IF v = 23 THEN 23 ELSE 11
    <2>1. Initial \notin New
      BY <1>1, WatchedNames
    <2>2. CASE v = 23
      <3>1. Initial \in Defines(23)
        BY <1>1, <2>2, WatchedNames DEF Defines
      <3>2. Last(Initial, v) = v
        BY <1>1, <2>2, <3>1, LastStep
      <3> QED BY <1>2, <1>4, <2>1, <2>2, <3>2 DEF Standing
    <2>3. CASE v # 23
      <3>1. Initial \in Defines(11)
        BY <1>1, WatchedNames DEF Defines
      <3>2. \A q \in 11 + 1..v : q # 23
        BY <2>3 DEF Newest
      <3>3. \A q \in 11 + 1..v : Initial \notin Defines(q)
        <4>1. \A q \in 11 + 1..v : Initial \notin Makes[q]
          BY <1>1, <3>2, WatchedNames
        <4> QED BY <1>1, <4>1 DEF Defines, Makes
      <3>4. Last(Initial, v) = 11
        BY <1>1, <3>1, <3>3, LastIs
      <3> QED BY <1>2, <1>4, <2>1, <2>3, <3>4 DEF Standing
    <2> QED BY <2>2, <2>3
  <1> QED BY <1>2, <1>4, <1>5, <1>6

\* scripts/check_r19b_migrations.py: a new database, an older one up and down, and the refusals.
LEMMA PathsAreAccepted == migrations_accepted
  <1> DEFINE legacyRows == {Run(s, TRUE, "none") : s \in {"PENDING", "COMPLETED", "FAILED"}}
             stagedRows == {Run(s, TRUE, "none") : s \in {"CREATED", "COMPLETED", "FAILED"}}
             at10 == migrate_command(Empty, "upgrade", 10)
             seed(rows) == [at10 EXCEPT !.rows = rows]
             legacy == seed(legacyRows)
             upgraded == migrate_command(legacy, "upgrade", 11)
             pending == migrate_command(seed({Run(s, TRUE, "none") : s \in {"PENDING"}}), "upgrade", 11)
             active == [pending EXCEPT !.rows = {Run("ACTIVE", TRUE, "none")}]
  <1>1. Fits(at10) /\ at10.version = 10 /\ at10.twins = {}
    <2>1. 10 \in Empty.version + 1..Newest /\ 10 \in 0..Newest
      BY EmptyFits DEF Newest
    <2> QED BY <2>1, EmptyFits, CommandUp, ChainFits
  <1>2. fresh_schema(migrate_command(Empty, "upgrade", Newest))
    <2>1. Newest \in Empty.version + 1..Newest /\ Newest \in 0..Newest /\ Newest \in 11..Newest
      BY EmptyFits DEF Newest
    <2> DEFINE fresh == migrate_command(Empty, "upgrade", Newest)
    <2>2. Fits(fresh) /\ fresh.version = Newest
      BY <2>1, EmptyFits, CommandUp, ChainFits
    <2> HIDE DEF fresh
    <2>3. Alike(fresh.schema, Newest)
      BY <2>2 DEF Fits
    <2>4. Initial \in DOMAIN fresh.schema /\ RunColumns \cup {"foreign_keys.0004"} \subseteq DOMAIN fresh.schema
          /\ \A n \in RunColumns : fresh.schema[n] = 11
      BY <2>1, <2>3, WatchedStand
    <2>5. fresh_schema(fresh)
      BY <2>2, <2>4 DEF fresh_schema, RunColumns, Initial
    <2> QED BY <2>5 DEF fresh
  <1> HIDE DEF at10
  <1>0. 10 = 11 - 1 /\ 11 \in 1..Newest
    BY DEF Newest
  <1>3. KindsAt(10) = Kinds4 /\ KindsAt(11) = Kinds11 /\ 11 \in 1..Newest /\ 11 \in 11..Newest
    <2>1. 10 \in 0..Newest /\ 11 \in 0..Newest
      BY DEF Newest
    <2> QED BY <2>1, KindsOf DEF Newest
  <1>4. ASSUME NEW rows \in SUBSET Kinds4
        PROVE  /\ Fits(seed(rows)) /\ seed(rows).version = 10 /\ seed(rows).rows = rows /\ seed(rows).twins = {}
               /\ migrate_command(seed(rows), "upgrade", 11) = UpOne(seed(rows), 11)
    <2>1. Fits(seed(rows)) /\ seed(rows).version = 10 /\ seed(rows).rows = rows /\ seed(rows).twins = {}
      BY <1>1, <1>3, SeededFits
    <2> HIDE DEF seed
    <2> QED BY <1>3, <2>1, CommandUp
  <1> HIDE DEF seed
  <1>5. legacyRows \subseteq Kinds4 /\ {Run("RUNNING", TRUE, "none")} \subseteq Kinds4
        /\ {Run("PENDING", TRUE, "none")} \subseteq Kinds4 /\ {Run("ACTIVE", TRUE, "none")} \subseteq Kinds11
    <2>1. legacyRows \subseteq Kinds4
      BY DEF Kinds4
    <2>2. {Run("RUNNING", TRUE, "none")} \subseteq Kinds4
      BY DEF Kinds4
    <2>3. {Run("PENDING", TRUE, "none")} \subseteq Kinds4
      BY DEF Kinds4
    <2>4. {Run("ACTIVE", TRUE, "none")} \subseteq Kinds11
      <3>1. \A u \in {"CREATED", "ACTIVE", "COMPLETED", "FAILED"}, b \in BOOLEAN : Run(u, b, "none") \in Kinds11
        BY DEF Kinds11
      <3> QED BY <3>1, Zenon
    <2> QED BY <2>1, <2>2, <2>3, <2>4
  <1>6. {lifecycle_named(k) : k \in legacyRows} = stagedRows /\ {lifecycle_unnamed(k) : k \in stagedRows} = legacyRows
        /\ \A k \in legacyRows : k.status # "RUNNING"
    <2>1. /\ lifecycle_named(Run("PENDING", TRUE, "none")) = Run("CREATED", TRUE, "none")
          /\ lifecycle_named(Run("COMPLETED", TRUE, "none")) = Run("COMPLETED", TRUE, "none")
          /\ lifecycle_named(Run("FAILED", TRUE, "none")) = Run("FAILED", TRUE, "none")
      BY DEF lifecycle_named, Run
    <2>2. /\ lifecycle_unnamed(Run("CREATED", TRUE, "none")) = Run("PENDING", TRUE, "none")
          /\ lifecycle_unnamed(Run("COMPLETED", TRUE, "none")) = Run("COMPLETED", TRUE, "none")
          /\ lifecycle_unnamed(Run("FAILED", TRUE, "none")) = Run("FAILED", TRUE, "none")
      BY DEF lifecycle_unnamed, Run
    <2>3. \A k \in legacyRows : k.status # "RUNNING"
      BY DEF Run
    <2>4. legacyRows = {Run("PENDING", TRUE, "none"), Run("COMPLETED", TRUE, "none"), Run("FAILED", TRUE, "none")}
      OBVIOUS
    <2>5. stagedRows = {Run("CREATED", TRUE, "none"), Run("COMPLETED", TRUE, "none"), Run("FAILED", TRUE, "none")}
      OBVIOUS
    <2> HIDE DEF legacyRows, stagedRows
    <2>6. {lifecycle_named(k) : k \in legacyRows} = stagedRows
      BY <2>1, <2>4, <2>5
    <2>7. {lifecycle_unnamed(k) : k \in stagedRows} = legacyRows
      BY <2>2, <2>4, <2>5
    <2> QED BY <2>3, <2>6, <2>7
  <1>7. \A k \in stagedRows : k.status \in {"CREATED", "COMPLETED", "FAILED"} /\ k.snapshot
    BY DEF Run
  <1> HIDE DEF legacyRows, stagedRows
  <1>8. Fits(upgraded) /\ upgraded.version = 11 /\ upgraded.rows = stagedRows /\ upgraded.ok
    <2>1. ~RefusesUpgrade(legacy, 11)
      BY <1>4, <1>5, <1>6 DEF RefusesUpgrade, lifecycle_addable
    <2>2. RowsUp(legacyRows, 11) = stagedRows
      BY <1>6 DEF RowsUp
    <2>3. upgraded = UpOne(legacy, 11) /\ Fits(legacy) /\ legacy.version = 10 /\ legacy.rows = legacyRows
      BY <1>4, <1>5
    <2> HIDE DEF upgraded, legacy
    <2>4. Fits(upgraded) /\ upgraded.version = 11 /\ upgraded.rows = RowsUp(legacy.rows, 11)
      <3>1. legacy.version = 11 - 1
        BY <1>0, <2>3
      <3> QED BY <1>0, <2>1, <2>3, <3>1, UpOneFits, Zenon
    <2> QED BY <2>2, <2>3, <2>4 DEF Fits
  <1>9. LET down == migrate_command(upgraded, "downgrade", 10) IN down.ok /\ down.rows = legacy.rows
    <2>1. ~RefusesDowngrade(upgraded, 11)
      <3>1. Revisions[11].reversible
        BY <1>3, RevisionFields
      <3>2. lifecycle_removable(upgraded.rows)
        BY <1>7, <1>8 DEF lifecycle_removable
      <3> QED BY <3>1, <3>2 DEF RefusesDowngrade
    <2>2. RowsDown(stagedRows, 11) = legacyRows
      BY <1>6 DEF RowsDown
    <2>3. legacy.rows = legacyRows
      BY <1>4, <1>5
    <2> HIDE DEF upgraded, legacy
    <2>4. migrate_command(upgraded, "downgrade", 10) = DownOne(upgraded, 11)
      BY <1>8, CommandDown
    <2>5. DownOne(upgraded, 11).ok = TRUE /\ DownOne(upgraded, 11).rows = RowsDown(upgraded.rows, 11)
      BY <1>3, <1>8, <2>1, DownOneFits DEF Fits
    <2> QED BY <1>8, <2>2, <2>3, <2>4, <2>5
  <1>10. ~migrate_command(seed({Run(s, TRUE, "none") : s \in {"RUNNING"}}), "upgrade", 11).ok
    <2>1. {Run(s, TRUE, "none") : s \in {"RUNNING"}} = {Run("RUNNING", TRUE, "none")}
      OBVIOUS
    <2> DEFINE running == seed({Run("RUNNING", TRUE, "none")})
    <2>2. Fits(running) /\ running.version = 10 /\ running.rows = {Run("RUNNING", TRUE, "none")}
          /\ migrate_command(running, "upgrade", 11) = UpOne(running, 11)
      BY <1>4, <1>5
    <2> HIDE DEF running
    <2>3. Run("RUNNING", TRUE, "none").status = "RUNNING"
      BY DEF Run
    <2>4. RefusesUpgrade(running, 11)
      BY <2>2, <2>3 DEF RefusesUpgrade, lifecycle_addable
    <2>5. ~UpOne(running, 11).ok
      BY <1>0, <2>2, <2>4, UpOneFits
    <2> QED BY <2>1, <2>2, <2>5 DEF running
  <1>11. ~migrate_command(active, "downgrade", 10).ok
    <2>1. {Run(s, TRUE, "none") : s \in {"PENDING"}} = {Run("PENDING", TRUE, "none")}
      OBVIOUS
    <2> DEFINE p == seed({Run("PENDING", TRUE, "none")})
    <2>2. Fits(p) /\ p.version = 10 /\ p.rows = {Run("PENDING", TRUE, "none")} /\ p.twins = {} /\ pending = UpOne(p, 11)
      BY <1>4, <1>5, <2>1
    <2>3. ~RefusesUpgrade(p, 11)
      <3>1. Run("PENDING", TRUE, "none").status = "PENDING"
        BY DEF Run
      <3>2. p.rows = {Run("PENDING", TRUE, "none")} /\ p.twins = {}
        BY <2>2
      <3> HIDE DEF p
      <3>3. lifecycle_addable(p)
        BY <3>1, <3>2 DEF lifecycle_addable
      <3> QED BY <3>3 DEF RefusesUpgrade
    <2> HIDE DEF p, pending
    <2>4. Fits(pending) /\ pending.version = 11
      <3>1. p.version = 11 - 1
        BY <1>0, <2>2
      <3> QED BY <1>0, <2>2, <2>3, <3>1, UpOneFits, Zenon
    <2>5. Fits(active) /\ active.version = 11 /\ active.rows = {Run("ACTIVE", TRUE, "none")}
      <3>1. {Run("ACTIVE", TRUE, "none")} \in SUBSET KindsAt(pending.version)
        BY <1>3, <1>5, <2>4
      <3> QED BY <2>4, <3>1, SeededFits, Zenon
    <2> HIDE DEF active
    <2>6. migrate_command(active, "downgrade", 10) = DownOne(active, 11)
      BY <2>5, CommandDown
    <2>7. RefusesDowngrade(active, 11)
      <3>1. Run("ACTIVE", TRUE, "none").status = "ACTIVE"
        BY DEF Run
      <3> QED BY <2>5, <3>1 DEF RefusesDowngrade, lifecycle_removable
    <2>8. DownOne(active, 11).ok = FALSE
      BY <1>0, <2>5, <2>7, DownOneFits, Zenon
    <2> QED BY <2>6, <2>8
  <1> QED
    BY <1>2, <1>8, <1>9, <1>10, <1>11, Zenon DEF migrations_accepted, seed_legacy, seed, at10, legacyRows, stagedRows

-----------------------------------------------------------------------------
(* The runners *)

\* env.py: whoever is past the lock holds it, works from the revision in force, and has not
\* raised; and what is committed fits its revision.
MigrationInv ==
    /\ pc \in [Runners -> {"idle", "waiting", "locked", "migrating", "unlock"}]
    /\ seen \in [Runners -> 0..Newest] /\ raised \in [Runners -> BOOLEAN]
    /\ DOMAIN command = Runners
    /\ Fits(Database)
    /\ \A r \in Runners :
        /\ pc[r] \in {"locked", "migrating", "unlock"} => lock = r
        /\ pc[r] \in {"waiting", "locked", "migrating"} => command[r] \in Commands /\ ~raised[r]
        /\ pc[r] = "migrating" => seen[r] = version

\* What a database has to be to fit, part by part.
LEMMA DatabaseFits ==
    ASSUME NEW v, NEW s, NEW rows, NEW t
    PROVE  Fits([version |-> v, schema |-> s, rows |-> rows, twins |-> t, ok |-> TRUE]) <=>
              /\ v \in 0..Newest /\ Alike(s, v) /\ rows \subseteq KindsAt(v)
              /\ t \subseteq {"initial", "continuation"}
              /\ v \in 11..22 => t = {}
              /\ v = Newest => "initial" \notin t
  <1> DEFINE db == [version |-> v, schema |-> s, rows |-> rows, twins |-> t, ok |-> TRUE]
  <1>1. db.version = v /\ db.schema = s /\ db.rows = rows /\ db.twins = t /\ db.ok = TRUE
    OBVIOUS
  <1>2. IsDatabase(db)
    BY <1>1 DEF IsDatabase
  <1> HIDE DEF db
  <1>3. Fits(db) <=> /\ v \in 0..Newest /\ Alike(s, v) /\ rows \subseteq KindsAt(v)
                     /\ t \subseteq {"initial", "continuation"}
                     /\ v \in 11..22 => t = {}
                     /\ v = Newest => "initial" \notin t
    BY <1>1, <1>2 DEF Fits
  <1> QED BY <1>3 DEF db

\* What a migration that moves a database keeps of its runs
Carries(db, new) ==
    /\ db.version >= 19 => new.version > db.version
    /\ new.version >= 4 => \A k \in db.rows : \E n \in new.rows :
          /\ Kept(k, n) /\ (new.version >= 15 /\ k.reason # "none" => n.reason = k.reason)

\* context.run_migrations(): what it commits fits, and what raises on the way up was refusable.
LEMMA MigratedFits ==
    ASSUME NEW db, Fits(db), NEW way \in {"upgrade", "downgrade"}, NEW to \in 0..Newest
    PROVE  LET new == Migrated(db, db.version, way, to)
           IN /\ IsDatabase(new) /\ new.ok \in BOOLEAN
              /\ new.ok => Fits(new) /\ (new.version # db.version => Carries(db, new))
              /\ ~new.ok /\ way = "upgrade" => Refusable(db)
  <1> DEFINE from == db.version
             new == Migrated(db, from, way, to)
  <1>1. from \in 0..Newest /\ db.ok = TRUE /\ IsDatabase(db)
    BY DEF Fits
  <1>2. CASE way = "upgrade" /\ to <= from
    <2>1. new = db
      BY <1>1, <1>2, WayUp DEF Migrated
    <2> QED BY <1>1, <2>1
  <1>3. CASE way = "upgrade" /\ ~(to <= from)
    <2>1. to \in from..Newest /\ to > from
      BY <1>1, <1>3 DEF Newest
    <2>2. new = Up(db, from)[to]
      BY <1>3 DEF Migrated
    <2>3. ComesTo(new, db, to)
      BY <2>1, <2>2, UpFits
    <2> HIDE DEF new
    <2>4. ASSUME new.ok PROVE Fits(new) /\ Carries(db, new)
      <3>1. StandsAfter(new, db, to)
        BY <2>3, <2>4 DEF ComesTo
      <3>2. \A k \in db.rows : \E n \in new.rows : Kept(k, n) /\ (k.reason # "none" => n.reason = k.reason)
        BY <3>1, Zenon DEF StandsAfter, KeptWhole
      <3>3. Fits(new) /\ new.version = to
        BY <3>1 DEF StandsAfter
      <3> QED BY <2>1, <3>2, <3>3 DEF Carries
    <2> QED BY <1>3, <2>3, <2>4 DEF ComesTo, new
  <1>4. CASE way = "downgrade" /\ to > from
    <2>1. new = [db EXCEPT !.ok = FALSE]
      BY <1>4 DEF Migrated
    <2>2. db = [version |-> db.version, schema |-> db.schema, rows |-> db.rows, twins |-> db.twins, ok |-> db.ok]
      BY <1>1 DEF IsDatabase
    <2>3. new = [version |-> db.version, schema |-> db.schema, rows |-> db.rows, twins |-> db.twins, ok |-> FALSE]
      BY <2>1, <2>2
    <2> HIDE DEF new
    <2>4. IsDatabase(new) /\ new.ok = FALSE
      BY <2>3 DEF IsDatabase
    <2> QED BY <1>4, <2>4 DEF new
  <1>5. CASE way = "downgrade" /\ ~(to > from)
    <2>1. to \in 0..from
      BY <1>1, <1>5 DEF Newest
    <2>2. new = Down(db, from)[to]
      BY <1>5 DEF Migrated
    <2>3. ComesDownTo(new, db, to)
      BY <2>1, <2>2, DownFits
    <2> HIDE DEF new
    <2>4. ASSUME new.ok, new.version # from PROVE Carries(db, new)
      <3>1. /\ new.version = to /\ to < from /\ from <= 18
            /\ to >= 4 => \A k \in db.rows : \E n \in new.rows : Kept(k, n)
            /\ to >= 15 => new.rows = db.rows
        BY <1>1, <2>1, <2>3, <2>4 DEF ComesDownTo
      <3>2. ASSUME to >= 4, NEW k \in db.rows
            PROVE \E n \in new.rows : Kept(k, n) /\ (to >= 15 /\ k.reason # "none" => n.reason = k.reason)
        <4>1. CASE to >= 15
          BY <3>1, <4>1, KeptOn DEF KeptWhole
        <4>2. CASE ~(to >= 15)
          BY <3>1, <3>2, <4>2
        <4> QED BY <4>1, <4>2
      <3> QED BY <1>1, <3>1, <3>2 DEF Carries
    <2>5. IsDatabase(new) /\ new.ok \in BOOLEAN /\ (new.ok => Fits(new))
      BY <2>3 DEF ComesDownTo
    <2> QED BY <1>5, <2>4, <2>5 DEF new
  <1> QED BY <1>2, <1>3, <1>4, <1>5

\* An empty database with idle runners.
LEMMA MigrationInitially == Init => MigrationInv
  <1> SUFFICES ASSUME Init PROVE MigrationInv
    OBVIOUS
  <1>1. Database = Empty
    BY DEF Init, Database, Empty
  <1>2. Fits(Database)
    BY <1>1, EmptyFits
  <1> QED BY <1>2 DEF Init, MigrationInv, Newest

\* A step that commits nothing keeps what is committed.
LEMMA DatabaseStays ==
    ASSUME Fits(Database), UNCHANGED <<version, schema, runs, twins>>
    PROVE  Fits(Database')
  BY DEF Database

\* What migrate commits, or leaves.
LEMMA MigrateCommits ==
    ASSUME MigrationInv, NEW r \in Runners, migrate(r)
    PROVE  /\ Fits(Database') /\ (version' # version => Carries(Database, Database'))
           /\ raised'[r] /\ command[r][1] = "upgrade" => Refusable(Database)
           /\ raised' = [raised EXCEPT ![r] = raised'[r]] /\ raised'[r] \in BOOLEAN
  <1> DEFINE c == command[r]
             new == Migrated(Database, seen[r], c[1], c[2])
  <1>1. c \in Commands /\ seen[r] = version /\ Fits(Database)
    BY DEF migrate, MigrationInv
  <1>2. c[1] \in {"upgrade", "downgrade"} /\ c[2] \in 0..Newest
    BY <1>1, OperationsConstants DEF Commands, MigrationConstants
  <1>3. Database.version = version /\ Database.rows = runs
    BY DEF Database
  <1>4. /\ IsDatabase(new) /\ new.ok \in BOOLEAN
        /\ new.ok => Fits(new) /\ (new.version # version => Carries(Database, new))
        /\ ~new.ok /\ c[1] = "upgrade" => Refusable(Database)
    <2> HIDE DEF c
    <2> QED BY <1>1, <1>2, <1>3, MigratedFits
  <1>5. /\ IF new.ok THEN version' = new.version /\ schema' = new.schema /\ runs' = new.rows /\ twins' = new.twins
                     ELSE UNCHANGED <<version, schema, runs, twins>>
        /\ raised' = [raised EXCEPT ![r] = ~new.ok]
    BY DEF migrate
  <1> HIDE DEF new
  <1>6. CASE new.ok
    <2>1. new = [version |-> new.version, schema |-> new.schema, rows |-> new.rows, twins |-> new.twins, ok |-> TRUE]
      BY <1>4, <1>6 DEF IsDatabase, Fits
    <2>2. Database' = new
      BY <1>5, <1>6, <2>1, Zenon DEF Database
    <2>3. version' = new.version /\ raised'[r] = FALSE
      BY <1>5, <1>6 DEF MigrationInv
    <2> QED BY <1>4, <1>5, <1>6, <2>2, <2>3
  <1>7. CASE ~new.ok
    <2>1. Fits(Database') /\ version' = version
      BY <1>1, <1>5, <1>7, DatabaseStays
    <2>2. raised'[r] = TRUE
      BY <1>5, <1>7 DEF MigrationInv
    <2> QED BY <1>4, <1>5, <1>7, <2>1, <2>2
  <1> QED BY <1>6, <1>7

\* Every step of a runner or an application keeps MigrationInv.
LEMMA MigrationInductive == MigrationInv /\ [Next]_vars => MigrationInv'
  <1> SUFFICES ASSUME MigrationInv, [Next]_vars PROVE MigrationInv'
    OBVIOUS
  <1>0. NoRunner \notin Runners /\ Orphan \notin Runners
    BY OperationsConstants DEF MigrationConstants
  <1>1. ASSUME NEW r \in Runners, start(r) PROVE MigrationInv'
    <2>1. Fits(Database')
      BY <1>1, DatabaseStays DEF start, MigrationInv
    <2>2. PICK c \in Commands : command' = [command EXCEPT ![r] = c]
      BY <1>1 DEF start
    <2> QED BY <1>1, <2>1, <2>2 DEF start, MigrationInv
  <1>2. ASSUME NEW r \in Runners, acquire(r) PROVE MigrationInv'
    <2>1. Fits(Database')
      BY <1>2, DatabaseStays DEF acquire, MigrationInv
    <2> QED BY <1>0, <1>2, <2>1 DEF acquire, MigrationInv
  <1>3. ASSUME NEW r \in Runners, give_up(r) PROVE MigrationInv'
    <2>1. Fits(Database')
      BY <1>3, DatabaseStays DEF give_up, MigrationInv
    <2> QED BY <1>3, <2>1 DEF give_up, MigrationInv
  <1>4. ASSUME NEW r \in Runners, read_version(r) PROVE MigrationInv'
    <2>1. Fits(Database') /\ version \in 0..Newest
      <3>1. version \in 0..Newest
        BY DatabaseFits DEF MigrationInv, Database
      <3> QED BY <1>4, <3>1, DatabaseStays DEF read_version, MigrationInv
    <2> QED BY <1>4, <2>1 DEF read_version, MigrationInv
  <1>5. ASSUME NEW r \in Runners, migrate(r) PROVE MigrationInv'
    <2>1. Fits(Database') /\ raised' = [raised EXCEPT ![r] = raised'[r]] /\ raised'[r] \in BOOLEAN
      BY <1>5, MigrateCommits
    <2>2. pc[r] = "migrating" /\ pc' = [pc EXCEPT ![r] = "unlock"] /\ UNCHANGED <<lock, command, seen>>
      BY <1>5 DEF migrate
    <2>3. lock = r
      BY <2>2 DEF MigrationInv
    <2>4. \A o \in Runners : o # r => pc[o] \notin {"locked", "migrating", "unlock"}
      BY <2>3 DEF MigrationInv
    <2> DEFINE b == raised'[r]
    <2>5. raised' = [raised EXCEPT ![r] = b] /\ b \in BOOLEAN
      BY <2>1
    <2> HIDE DEF b
    <2> QED BY <2>1, <2>2, <2>3, <2>4, <2>5 DEF MigrationInv
  <1>6. ASSUME NEW r \in Runners, unlock(r) PROVE MigrationInv'
    <2>1. Fits(Database')
      BY <1>6, DatabaseStays DEF unlock, MigrationInv
    <2> QED BY <1>6, <2>1 DEF unlock, MigrationInv
  <1>7. ASSUME NEW r \in Runners, crash(r) PROVE MigrationInv'
    <2>1. Fits(Database')
      BY <1>7, DatabaseStays DEF crash, MigrationInv
    <2> QED BY <1>7, <2>1 DEF crash, MigrationInv
  <1>8. ASSUME reap PROVE MigrationInv'
    <2>1. Fits(Database')
      BY <1>8, DatabaseStays DEF reap, MigrationInv
    <2> QED BY <1>0, <1>8, <2>1 DEF reap, MigrationInv
  <1>9. ASSUME write_run PROVE MigrationInv'
    <2>1. Fits(Database')
      <3>1. PICK k \in KindsAt(version) : runs' = runs \cup {k}
        BY <1>9 DEF write_run
      <3> QED BY <1>9, <3>1, DatabaseFits DEF write_run, MigrationInv, Database
    <2> QED BY <1>9, <2>1 DEF write_run, MigrationInv
  <1>10. ASSUME NEW kind \in {"initial", "continuation"}, write_second_job(kind) PROVE MigrationInv'
    <2>1. Fits(Database')
      <3>1. /\ version \in 0..Newest /\ Alike(schema, version) /\ runs \subseteq KindsAt(version)
            /\ twins \subseteq {"initial", "continuation"} /\ (version = Newest => "initial" \notin twins)
        BY DatabaseFits DEF MigrationInv, Database
      <3>2. version \in 11..Newest =>
              Initial \in DOMAIN schema /\ schema[Initial] = IF version = 23 THEN 23 ELSE 11
        BY <3>1, WatchedStand
      <3>3. Initial \in DOMAIN schema => schema[Initial] = 23 /\ kind = "continuation"
        BY <1>10 DEF write_second_job, Initial
      <3>4. version \notin 11..22 /\ (version = Newest => kind = "continuation")
        BY <3>2, <3>3 DEF Newest
      <3>5. UNCHANGED <<version, schema, runs>> /\ twins' = twins \cup {kind}
        BY <1>10 DEF write_second_job
      <3>6. twins' \subseteq {"initial", "continuation"} /\ (version = Newest => "initial" \notin twins')
        BY <3>1, <3>4, <3>5
      <3>7. Fits([version |-> version, schema |-> schema, rows |-> runs, twins |-> twins', ok |-> TRUE])
        BY <3>1, <3>4, <3>6, DatabaseFits
      <3> QED BY <3>5, <3>7 DEF Database
    <2> QED BY <1>10, <2>1 DEF write_second_job, MigrationInv
  <1>11. ASSUME UNCHANGED vars PROVE MigrationInv'
    <2>1. Fits(Database')
      BY <1>11, DatabaseStays DEF vars, MigrationInv
    <2> QED BY <1>11, <2>1 DEF vars, MigrationInv
  <1> QED
    BY <1>1, <1>2, <1>3, <1>4, <1>5, <1>6, <1>7, <1>8, <1>9, <1>10, <1>11 DEF Next

\* What is committed fits its revision, so alembic_version tells the schema.
LEMMA SchemaIsVersionedOfInv == MigrationInv => SchemaIsVersioned
  <1> SUFFICES ASSUME MigrationInv PROVE SchemaIsVersioned
    OBVIOUS
  <1>1. /\ version \in 0..Newest /\ Alike(schema, version) /\ runs \subseteq KindsAt(version)
        /\ version \in 11..22 => twins = {}
        /\ version = Newest => "initial" \notin twins
    BY DatabaseFits DEF MigrationInv, Database
  <1>2. [n \in DOMAIN schema \ Residual(version) |-> schema[n]] = Chain[version]
    BY <1>1, AlikeIsChain
  <1>3. version = Newest => Models \cup Relied \subseteq DOMAIN schema
    BY <1>1, NewestHasEverything DEF Alike
  <1>4. Residual(version) = IF version < 18 THEN {"approval_requests.optimization_run_id"} ELSE {}
    BY DEF Residual, Residue
  <1> QED BY <1>1, <1>2, <1>3, <1>4, PathsAreAccepted, Zenon DEF SchemaIsVersioned

\* Only migrate changes the revision.
LEMMA OnlyMigrateMoves ==
    ASSUME [Next]_vars, version' # version
    PROVE  \E r \in Runners : migrate(r)
  BY DEF Next, vars, start, acquire, give_up, read_version, unlock, crash, reap, write_run, write_second_job

\* Only migrate raises.
LEMMA OnlyMigrateRaises ==
    ASSUME MigrationInv, [Next]_vars, NEW r \in Runners, pc[r] = "migrating", raised'[r]
    PROVE  migrate(r)
  <1>1. ~raised[r] /\ raised \in [Runners -> BOOLEAN]
    BY DEF MigrationInv
  <1>2. ASSUME NEW o \in Runners, migrate(o), o # r PROVE FALSE
    <2>1. pc[o] = "migrating"
      BY <1>2 DEF migrate
    <2> QED BY <1>2, <2>1 DEF MigrationInv
  <1>3. raised' # raised
    BY <1>1
  <1>4. ASSUME NEW o \in Runners, start(o) PROVE FALSE
    BY <1>1, <1>4 DEF start
  <1> QED BY <1>2, <1>3, <1>4 DEF Next, vars, acquire, give_up, read_version, unlock, crash, reap, write_run, write_second_job

\* The migrations of the store are all that changes its variables.
LEMMA MigrationStep == [AllNext]_allvars => [Next]_vars
  BY Zenon DEF AllNext, allvars

\* MigrationInv holds of every reachable state.
LEMMA MigrationInvariant == AllSpec => []MigrationInv
  <1>1. AllInit => MigrationInv
    BY MigrationInitially DEF AllInit
  <1>2. MigrationInv /\ [AllNext]_allvars => MigrationInv'
    BY MigrationInductive, MigrationStep
  <1> QED BY <1>1, <1>2, PTL DEF AllSpec

\* alembic/versions, app/db/models.py: whatever is upgraded, downgraded, refused or interrupted,
\* and whatever applications write in between, the schema is the one the chain of upgrades makes
\* of an empty database (but for the column 0018 leaves), the rows are of kinds it can hold, and
\* at the newest revision there is all that the models and the services rely on.
THEOREM SchemaStaysVersioned == AllSpec => []SchemaIsVersioned
  BY MigrationInvariant, SchemaIsVersionedOfInv, PTL

\* versions/0011, 0015 and 0019: a migration that commits leaves of every run one of the same
\* status and snapshot, with its reason where there is a column for it, and does not go back
\* from the operational indexes.
THEOREM MigrationsKeepRuns == AllSpec => MigrationKeepsRuns
  <1>1. MigrationInv /\ [AllNext]_allvars =>
          [version' # version =>
            /\ version >= 19 => version' > version
            /\ version' >= 4 => \A k \in runs : \E new \in runs' :
                  /\ Renamed(k.status, new.status) /\ k.snapshot = new.snapshot
                  /\ version' >= 15 /\ k.reason # "none" => new.reason = k.reason]_vars
    <2> SUFFICES ASSUME MigrationInv, [AllNext]_allvars, version' # version
                 PROVE  /\ version >= 19 => version' > version
                        /\ version' >= 4 => \A k \in runs : \E new \in runs' :
                              /\ Renamed(k.status, new.status) /\ k.snapshot = new.snapshot
                              /\ version' >= 15 /\ k.reason # "none" => new.reason = k.reason
      OBVIOUS
    <2>1. PICK r \in Runners : migrate(r)
      BY MigrationStep, OnlyMigrateMoves
    <2>2. Carries(Database, Database')
      BY <2>1, MigrateCommits
    <2>3. Database.version = version /\ Database.rows = runs /\ Database'.version = version' /\ Database'.rows = runs'
      BY DEF Database
    <2> QED BY <2>2, <2>3 DEF Carries, Kept
  <1> QED BY <1>1, MigrationInvariant, PTL DEF AllSpec, MigrationKeepsRuns

\* alembic/env.py: an upgrade raises over the rows and the jobs 0004 and 0011 refuse, never over
\* the schema it finds or over a runner beside it.
THEOREM UpgradesRaiseOverRowsOnly == AllSpec => UpgradeRaisesOverRowsOnly
  <1>1. MigrationInv /\ [AllNext]_allvars =>
          [\A r \in Runners : pc[r] = "migrating" /\ raised'[r] /\ command[r][1] = "upgrade" =>
              \/ version < 4 /\ runs # {}
              \/ version < 11 /\ (twins # {} \/ \E k \in runs : k.status = "RUNNING")]_vars
    <2> SUFFICES ASSUME MigrationInv, [AllNext]_allvars, NEW r \in Runners, pc[r] = "migrating", raised'[r],
                        command[r][1] = "upgrade"
                 PROVE  \/ version < 4 /\ runs # {}
                        \/ version < 11 /\ (twins # {} \/ \E k \in runs : k.status = "RUNNING")
      OBVIOUS
    <2>1. migrate(r)
      BY MigrationStep, OnlyMigrateRaises
    <2>2. Refusable(Database)
      BY <2>1, MigrateCommits
    <2> QED BY <2>2 DEF Refusable, Database
  <1> QED BY <1>1, MigrationInvariant, PTL DEF AllSpec, UpgradeRaisesOverRowsOnly
=============================================================================
