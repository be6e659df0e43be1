--------------------------- MODULE InProcessProofs ---------------------------
(***************************************************************************)
(* Proofs about the components that live in the memory of one process, for *)
(* every value of their constants: what is measured and what the model is  *)
(* asked (Measurement), the direct deployment (DirectDeployment), the       *)
(* detector of workload shifts (WorkloadShift) and the trials of a run's   *)
(* candidates (TrialEvidence).                                             *)
(***************************************************************************)
EXTENDS MCInProcess, FiniteSetTheorems, TLAPS

-----------------------------------------------------------------------------
(* Measurement *)

\* The tasks that have come for the lock and have not left it
Sharing(t) == measure_at[t] \in {"queue", "bench", "infer"}

\* isolation/lock.py: a task is in the line once, and while it is in it; only the head of
\* the line is past it.
Exclusion ==
    /\ \A i, j \in DOMAIN queue : queue[i] = queue[j] => i = j
    /\ \A i \in DOMAIN queue : Sharing(queue[i])
    /\ \A t \in Measure!Sharers : measure_at[t] \in {"bench", "infer"} => queue # <<>> /\ queue[1] = t

\* An evaluator never asks, a caller never measures
Roles ==
    /\ \A t \in Evaluators : measure_at[t] # "infer"
    /\ \A t \in Callers : measure_at[t] \in {"idle", "queue", "infer"}

\* _structured: a question is under way with no answer yet, or one of no use
OneMoreTry ==
    \A t \in Callers : measure_at[t] # "idle" =>
        /\ Len(replies[t]) \in 0..1
        /\ Len(replies[t]) = 1 => replies[t][1] \in Measure!Unusable

\* evaluate of the only evaluator: from the comparison to the benchmark the copy is what was
\* read, first without an index, then with the candidate's
CopyStands ==
    \A t \in Evaluators :
        /\ measure_at[t] \in {"reread", "create", "queue", "bench"} => copy = seen[t]
        /\ measure_at[t] \in {"reread", "create"} => built = {}
        /\ measure_at[t] \in {"queue", "bench"} => built = {measuring[t].candidate}

MeasureInv == Measure!TypeOK /\ Exclusion /\ Roles /\ OneMoreTry /\ Measure!AdviceIsTold
-----------------------------------------------------------------------------

\* Before anybody is called: no task is in the line, nothing was answered
LEMMA MeasureInitially == ASSUME Measure!Init PROVE MeasureInv
  <1> USE InProcessConstants DEF Measure!MeasurementConstants, Measure!Init
  <1>1. Measure!TypeOK
    BY DEF Measure!TypeOK, Measure!Sharers, Measure!Collections, Measure!EvaluationState, Measure!Points, Measure!Replies
  <1>2. Exclusion /\ Roles /\ OneMoreTry /\ Measure!AdviceIsTold
    BY DEF Exclusion, Sharing, Roles, OneMoreTry, Measure!AdviceIsTold, Measure!Sharers
  <1> QED BY <1>1, <1>2 DEF MeasureInv

\* What a task does that neither takes nor leaves a place in the line
LEMMA KeepsLine ==
    ASSUME MeasureInv, NEW t \in Measure!Sharers, NEW p \in Measure!Points,
           measure_at' = [measure_at EXCEPT ![t] = p], queue' = queue,
           \/ ~Sharing(t) /\ p \notin {"queue", "bench", "infer"}
           \/ measure_at[t] = "queue" /\ Measure!Holds(t) /\ p \in {"bench", "infer"}
    PROVE  Exclusion'
  BY DEF MeasureInv, Measure!TypeOK, Exclusion, Sharing, Measure!Holds

\* async with, on entry
LEMMA EntersLine ==
    ASSUME MeasureInv, NEW t \in Measure!Sharers, ~Sharing(t),
           measure_at' = [measure_at EXCEPT ![t] = "queue"], Measure!Enters(t)
    PROVE  Exclusion' /\ queue' \in Seq(Measure!Sharers)
  BY DEF MeasureInv, Measure!TypeOK, Exclusion, Sharing, Measure!Enters

\* and on exit
LEMMA LeavesLine ==
    ASSUME MeasureInv, NEW t \in Measure!Sharers, measure_at[t] \in {"bench", "infer"},
           NEW p \in Measure!Points \ {"queue", "bench", "infer"},
           measure_at' = [measure_at EXCEPT ![t] = p], queue' = Tail(queue)
    PROVE  Exclusion' /\ queue' \in Seq(Measure!Sharers)
  BY DEF MeasureInv, Measure!TypeOK, Exclusion, Sharing

\* What an evaluator does with its own database and its own place
LEMMA EvaluatorMoves ==
    ASSUME MeasureInv, NEW t \in Evaluators, NEW p \in Measure!Points \ {"infer"},
           measure_at' = [measure_at EXCEPT ![t] = p], UNCHANGED <<replies, told>>
    PROVE  Roles' /\ OneMoreTry' /\ Measure!AdviceIsTold'
  <1> USE InProcessConstants DEF Measure!MeasurementConstants, Measure!Sharers
  <1>1. \A u \in Callers : measure_at'[u] = measure_at[u]
    BY DEF MeasureInv, Measure!TypeOK
  <1>2. Roles'
    BY <1>1 DEF MeasureInv, Roles, Measure!TypeOK
  <1>3. OneMoreTry'
    BY <1>1 DEF MeasureInv, OneMoreTry
  <1>4. Measure!AdviceIsTold'
    BY <1>1 DEF MeasureInv, Measure!AdviceIsTold, Measure!Last
  <1> QED BY <1>2, <1>3, <1>4

\* An evaluator's step: the lock is taken and left as async with does, and no answer is touched
LEMMA EvaluatorStep ==
    ASSUME MeasureInv, NEW t \in Evaluators,
           \/ Measure!source_state(t) \/ Measure!replace_clears(t) \/ Measure!replace_fills(t)
           \/ Measure!evaluation_state(t) \/ Measure!source_after(t) \/ Measure!create_index(t)
           \/ Measure!benchmark_window(t) \/ Measure!benchmark(t) \/ Measure!drop_index(t)
    PROVE  MeasureInv'
  <1> USE InProcessConstants DEF Measure!MeasurementConstants, Measure!Sharers
  <1>a. t \in Measure!Sharers /\ t \notin Callers
    OBVIOUS
  <1>b. PICK p \in Measure!Points \ {"infer"} :
          /\ measure_at' = [measure_at EXCEPT ![t] = p]
          /\ \/ ~Sharing(t) /\ p \notin {"queue", "bench"} /\ queue' = queue
             \/ measure_at[t] = "queue" /\ Measure!Holds(t) /\ p = "bench" /\ queue' = queue
             \/ ~Sharing(t) /\ p = "queue" /\ Measure!Enters(t)
             \/ measure_at[t] = "bench" /\ p = "drop" /\ queue' = Tail(queue)
    <2>1. CASE Measure!source_state(t)
      BY <2>1 DEF Sharing, Measure!Points, Measure!Goes, Measure!source_state, Measure!Onward
    <2>2. CASE Measure!replace_clears(t)
      <3>1. "fill" \in Measure!Points \ {"infer"}
        BY DEF Measure!Points
      <3> QED BY <2>2, <3>1 DEF Sharing, Measure!Goes, Measure!replace_clears
    <2>3. CASE Measure!replace_fills(t)
      BY <2>3 DEF Sharing, Measure!Points, Measure!Goes, Measure!replace_fills, Measure!Onward
    <2>4. CASE Measure!evaluation_state(t)
      BY <2>4 DEF Sharing, Measure!Points, Measure!Goes, Measure!evaluation_state, Measure!Ends
    <2>5. CASE Measure!source_after(t)
      BY <2>5 DEF Sharing, Measure!Points, Measure!Goes, Measure!source_after, Measure!Onward, Measure!Ends
    <2>6. CASE Measure!create_index(t)
      BY <2>6 DEF Sharing, Measure!Points, Measure!Goes, Measure!create_index, Measure!Ends
    <2>7. CASE Measure!benchmark_window(t)
      BY <2>7 DEF Sharing, Measure!Points, Measure!Goes, Measure!benchmark_window
    <2>8. CASE Measure!benchmark(t)
      BY <2>8 DEF Sharing, Measure!Points, Measure!Goes, Measure!benchmark, Measure!Leaves
    <2>9. CASE Measure!drop_index(t)
      <3>1. "idle" \in Measure!Points \ {"infer"}
        BY DEF Measure!Points
      <3> QED BY <2>9, <3>1 DEF Sharing, Measure!Goes, Measure!drop_index, Measure!Ends
    <2> QED BY <2>1, <2>2, <2>3, <2>4, <2>5, <2>6, <2>7, <2>8, <2>9
  <1>c. UNCHANGED <<source, replies, told>>
    BY DEF Measure!source_state, Measure!replace_clears, Measure!replace_fills, Measure!evaluation_state,
           Measure!source_after, Measure!create_index, Measure!benchmark_window, Measure!benchmark, Measure!drop_index
  <1>1. Exclusion' /\ queue' \in Seq(Measure!Sharers)
    <2>1. CASE /\ queue' = queue
              /\ \/ ~Sharing(t) /\ p \notin {"queue", "bench"}
                 \/ measure_at[t] = "queue" /\ Measure!Holds(t) /\ p = "bench"
      BY <1>a, <1>b, <2>1, KeepsLine DEF MeasureInv, Measure!TypeOK
    <2>2. CASE ~Sharing(t) /\ p = "queue" /\ Measure!Enters(t)
      BY <1>a, <1>b, <2>2, EntersLine
    <2>3. CASE measure_at[t] = "bench" /\ p = "drop" /\ queue' = Tail(queue)
      BY <1>a, <1>b, <2>3, LeavesLine
    <2> QED BY <1>b, <2>1, <2>2, <2>3
  <1>2. Roles' /\ OneMoreTry' /\ Measure!AdviceIsTold'
    BY <1>b, <1>c, EvaluatorMoves
  <1>3. Measure!TypeOK'
    <2>1. copy' \in Measure!EvaluationState
      BY DEF MeasureInv, Measure!TypeOK, Measure!EvaluationState, Measure!Collections,
             Measure!source_state, Measure!replace_clears, Measure!replace_fills, Measure!evaluation_state,
             Measure!source_after, Measure!create_index, Measure!benchmark_window, Measure!benchmark, Measure!drop_index
    <2>2. built' \subseteq Candidates
      BY DEF MeasureInv, Measure!TypeOK,
             Measure!source_state, Measure!replace_clears, Measure!replace_fills, Measure!evaluation_state,
             Measure!source_after, Measure!create_index, Measure!benchmark_window, Measure!benchmark, Measure!drop_index
    <2>3. DOMAIN measuring' = Measure!Sharers /\ \A u \in Evaluators : measure_at'[u] # "idle" => measuring'[u].candidate \in Candidates
      BY <1>a DEF MeasureInv, Measure!TypeOK, Measure!Ends, Measure!Goes, Measure!Onward,
             Measure!source_state, Measure!replace_clears, Measure!replace_fills, Measure!evaluation_state,
             Measure!source_after, Measure!create_index, Measure!benchmark_window, Measure!benchmark, Measure!drop_index
    <2>4. seen' \in [Evaluators -> Measure!EvaluationState]
      <3>1. CASE Measure!source_state(t)
        <4>1. [seen[t] EXCEPT ![cursor[t]] = source[cursor[t]]] \in Measure!EvaluationState
          BY DEF MeasureInv, Measure!TypeOK, Measure!EvaluationState
        <4> QED BY <3>1, <4>1 DEF MeasureInv, Measure!TypeOK, Measure!source_state
      <3>2. CASE ~Measure!source_state(t)
        <4>1. [c \in Measure!Collections |-> Missing] \in Measure!EvaluationState
          BY DEF Measure!EvaluationState
        <4>2. seen' \in {seen, [seen EXCEPT ![t] = [c \in Measure!Collections |-> Missing]]}
          BY <3>2 DEF Measure!Ends, Measure!replace_clears, Measure!replace_fills, Measure!evaluation_state,
                 Measure!source_after, Measure!create_index, Measure!benchmark_window, Measure!benchmark, Measure!drop_index
        <4> QED BY <4>1, <4>2 DEF MeasureInv, Measure!TypeOK
      <3> QED BY <3>1, <3>2
    <2>5. cursor' \in [Evaluators -> Measure!Collections]
      BY DEF MeasureInv, Measure!TypeOK, Measure!Collections, Measure!Ends, Measure!Onward,
             Measure!source_state, Measure!replace_clears, Measure!replace_fills, Measure!evaluation_state,
             Measure!source_after, Measure!create_index, Measure!benchmark_window, Measure!benchmark, Measure!drop_index
    <2> QED
      BY <1>a, <1>b, <1>c, <1>1, <2>1, <2>2, <2>3, <2>4, <2>5 DEF MeasureInv, Measure!TypeOK
  <1> QED BY <1>1, <1>2, <1>3 DEF MeasureInv

\* _structured: how the verdict on an answer follows from the answer; "again" is said once
LEMMA Verdicts ==
    ASSUME NEW provider, NEW what, NEW reply \in Measure!Replies, NEW attempt \in 1..2
    PROVE  /\ Measure!Verdict(provider, what, reply, attempt) = "again" => attempt = 1 /\ reply \in Measure!Unusable
           /\ Measure!Verdict(provider, what, reply, attempt) = "result" <=> reply = "good"
           /\ Measure!Verdict(provider, what, reply, attempt) \in {"TIMEOUT", "UNAVAILABLE", "HTTP_ERROR, retryable"}
                => reply \in Measure!Broken
  <1> DEFINE verdict == Measure!Verdict(provider, what, reply, attempt)
  <1>1. CASE reply = "good"
    <2>1. verdict = "result"
      BY <1>1 DEF Measure!Verdict, Measure!Broken, Measure!Unusable
    <2> QED BY <1>1, <2>1
  <1>2. CASE reply \in Measure!Broken
    <2>1. verdict \in {"exception", "TIMEOUT", "UNAVAILABLE", "HTTP_ERROR, retryable", "HTTP_ERROR"}
      BY <1>2 DEF Measure!Verdict, Measure!Broken, Measure!Unusable, Measure!Failure
    <2>2. reply # "good"
      BY <1>2 DEF Measure!Broken
    <2> QED BY <1>2, <2>1, <2>2
  <1>3. CASE reply \in Measure!Unusable
    <2>1. \/ attempt = 1 /\ verdict = "again"
          \/ verdict \in {"ValueError", "RESPONSE_SCHEMA_INVALID", "STRUCTURED_OUTPUT_UNSUPPORTED"}
      BY <1>3 DEF Measure!Verdict, Measure!Unusable, Measure!Broken, Measure!Refusal
    <2>2. reply # "good"
      BY <1>3 DEF Measure!Unusable
    <2> QED BY <1>3, <2>1, <2>2
  <1> QED BY <1>1, <1>2, <1>3 DEF Measure!Replies

\* What a caller does with its own answers and its own place
LEMMA CallerMoves ==
    ASSUME MeasureInv, NEW t \in Callers, NEW p \in {"idle", "queue", "infer"},
           NEW answers \in Seq(Measure!Replies), NEW what,
           measure_at' = [measure_at EXCEPT ![t] = p], UNCHANGED <<source, copy, built, seen, cursor>>,
           replies' = [replies EXCEPT ![t] = answers],
           \/ told' = [told EXCEPT ![t] = what]
           \/ p # "idle" /\ told' = told,
           measuring' = measuring \/ \E d : measuring' = [measuring EXCEPT ![t] = d],
           p # "idle" => Len(answers) \in 0..1 /\ (Len(answers) = 1 => answers[1] \in Measure!Unusable),
           p = "idle" => /\ what = "result" <=> Last(answers) = "good"
                         /\ what \in {"TIMEOUT", "UNAVAILABLE", "HTTP_ERROR, retryable"} => Last(answers) \in Measure!Broken
                         /\ Len(answers) = 2 => answers[1] \in Measure!Unusable
                         /\ Len(answers) \in 1..2,
           Exclusion' /\ queue' \in Seq(Measure!Sharers)
    PROVE  MeasureInv'
  <1> USE InProcessConstants DEF Measure!MeasurementConstants, Measure!Sharers
  <1>1. \A u \in Evaluators : measure_at'[u] = measure_at[u] /\ measuring'[u] = measuring[u]
    BY DEF MeasureInv, Measure!TypeOK
  <1>2. \A u \in Callers : u # t => /\ measure_at'[u] = measure_at[u] /\ replies'[u] = replies[u]
                                    /\ told'[u] = told[u]
    BY DEF MeasureInv, Measure!TypeOK
  <1>3. measure_at'[t] = p /\ replies'[t] = answers /\ (p = "idle" => told'[t] = what)
    BY DEF MeasureInv, Measure!TypeOK
  <1>4. Measure!TypeOK'
    <2>1. measure_at' \in [Measure!Sharers -> Measure!Points]
      BY DEF MeasureInv, Measure!TypeOK, Measure!Points
    <2>2. DOMAIN measuring' = Measure!Sharers /\ DOMAIN told' = Callers /\ replies' \in [Callers -> Seq(Measure!Replies)]
      BY DEF MeasureInv, Measure!TypeOK
    <2> QED BY <1>1, <2>1, <2>2 DEF MeasureInv, Measure!TypeOK, Measure!EvaluationState, Measure!Collections
  <1>5. Roles'
    BY <1>1, <1>2, <1>3 DEF MeasureInv, Roles
  <1>6. OneMoreTry'
    BY <1>2, <1>3 DEF MeasureInv, OneMoreTry
  <1>7. Measure!AdviceIsTold'
    <2> SUFFICES ASSUME NEW u \in Callers, measure_at'[u] = "idle", replies'[u] # <<>>
                 PROVE  /\ told'[u] = "result" <=> Last(replies'[u]) = "good"
                        /\ told'[u] \in {"TIMEOUT", "UNAVAILABLE", "HTTP_ERROR, retryable"}
                             => Last(replies'[u]) \in Measure!Broken
                        /\ Len(replies'[u]) = 2 => replies'[u][1] \in Measure!Unusable
                        /\ Len(replies'[u]) \in 1..2
      BY DEF Measure!AdviceIsTold, Measure!Last, Last
    <2>1. CASE u = t
      <3>1. measure_at'[u] = p /\ p = "idle" /\ replies'[u] = answers /\ told'[u] = what
        BY <1>3, <2>1
      <3> QED BY <3>1, Zenon DEF Last
    <2>2. CASE u # t
      <3>1. measure_at[u] = "idle" /\ replies[u] # <<>> /\ replies'[u] = replies[u] /\ told'[u] = told[u]
        BY <1>2, <2>2
      <3>2. /\ told[u] = "result" <=> Last(replies[u]) = "good"
            /\ told[u] \in {"TIMEOUT", "UNAVAILABLE", "HTTP_ERROR, retryable"} => Last(replies[u]) \in Measure!Broken
            /\ Len(replies[u]) = 2 => replies[u][1] \in Measure!Unusable
            /\ Len(replies[u]) \in 1..2
        BY <3>1, Zenon DEF MeasureInv, Measure!AdviceIsTold, Measure!Last, Last
      <3> QED BY <3>1, <3>2, Zenon DEF Last
    <2> QED BY <2>1, <2>2
  <1> QED BY <1>4, <1>5, <1>6, <1>7 DEF MeasureInv

\* A task that leaves the head of the line and queues again: the others move up
LEMMA BackInLine ==
    ASSUME NEW S, NEW q \in Seq(S), q # <<>>, \A i, j \in DOMAIN q : q[i] = q[j] => i = j,
           NEW r, r = Append(Tail(q), q[1])
    PROVE  /\ r \in Seq(S) /\ \A i, j \in DOMAIN r : r[i] = r[j] => i = j
           /\ \A i \in DOMAIN r : \E j \in DOMAIN q : r[i] = q[j]
  <1>1. Len(q) \in Nat \ {0} /\ DOMAIN q = 1..Len(q) /\ q[1] \in S
    OBVIOUS
  <1>2. r \in Seq(S) /\ Len(r) = Len(q) /\ DOMAIN r = 1..Len(q) /\ r[Len(q)] = q[1]
    BY <1>1
  <1>3. \A i \in 1..(Len(q) - 1) : r[i] = q[i + 1] /\ i + 1 \in 1..Len(q) /\ i + 1 # 1
    BY <1>1
  <1>4. \A i \in DOMAIN r : i = Len(q) \/ i \in 1..(Len(q) - 1)
    BY <1>1, <1>2
  <1>5. ASSUME NEW i \in DOMAIN r, NEW j \in DOMAIN r, r[i] = r[j] PROVE i = j
    <2>1. CASE i = Len(q) /\ j # Len(q)
      <3>1. q[1] = q[j + 1]
        BY <1>2, <1>3, <1>4, <1>5, <2>1
      <3> QED BY <1>1, <1>3, <1>4, <2>1, <3>1
    <2>2. CASE j = Len(q) /\ i # Len(q)
      <3>1. q[1] = q[i + 1]
        BY <1>2, <1>3, <1>4, <1>5, <2>2
      <3> QED BY <1>1, <1>3, <1>4, <2>2, <3>1
    <2>3. CASE i # Len(q) /\ j # Len(q)
      <3>1. i \in 1..(Len(q) - 1) /\ j \in 1..(Len(q) - 1)
        BY <1>4, <2>3
      <3>2. q[i + 1] = q[j + 1]
        BY <1>3, <1>5, <3>1
      <3>3. i + 1 = j + 1
        BY <1>1, <1>3, <3>1, <3>2
      <3> QED BY <3>1, <3>3
    <2> QED BY <2>1, <2>2, <2>3
  <1>6. \A i \in DOMAIN r : \E j \in DOMAIN q : r[i] = q[j]
    BY <1>1, <1>2, <1>3, <1>4
  <1> QED BY <1>2, <1>5, <1>6

\* ask, ollama_request and answered: a caller comes, gets the lock, and is told or tries again
LEMMA CallerStep ==
    ASSUME MeasureInv, NEW t \in Callers,
           \/ \E what \in Measure!Questions : Measure!ask(t, what)
           \/ Measure!ollama_request(t)
           \/ \E reply \in Measure!Replies : Measure!answered(t, reply)
    PROVE  MeasureInv'
  <1> USE DEF Measure!Sharers
  <1>a. t \in Measure!Sharers /\ replies[t] \in Seq(Measure!Replies) /\ DOMAIN told = Callers
    BY DEF MeasureInv, Measure!TypeOK
  <1>1. ASSUME NEW what \in Measure!Questions, Measure!ask(t, what) PROVE MeasureInv'
    <2>1. ~Sharing(t) /\ Measure!Enters(t) /\ measure_at' = [measure_at EXCEPT ![t] = "queue"]
      BY <1>1 DEF Measure!ask, Measure!Goes, Sharing
    <2>2. Exclusion' /\ queue' \in Seq(Measure!Sharers)
      BY <1>a, <2>1, EntersLine
    <2>3. <<>> \in Seq(Measure!Replies) /\ Len(<<>>) = 0 /\ Len(<<>>) \in 0..1 /\ Len(<<>>) # 1
      OBVIOUS
    <2>4. /\ UNCHANGED <<source, copy, built, seen, cursor>> /\ replies' = [replies EXCEPT ![t] = <<>>]
          /\ told' = [told EXCEPT ![t] = "nothing"] /\ \E d : measuring' = [measuring EXCEPT ![t] = d]
      BY <1>1 DEF Measure!ask
    <2>5. "queue" \in {"idle", "queue", "infer"} /\ "queue" # "idle"
      OBVIOUS
    <2> QED BY <2>1, <2>2, <2>3, <2>4, <2>5, CallerMoves
  <1>2. CASE Measure!ollama_request(t)
    <2>1. measure_at[t] = "queue" /\ Measure!Holds(t) /\ measure_at' = [measure_at EXCEPT ![t] = "infer"]
      BY <1>2 DEF Measure!ollama_request, Measure!Goes
    <2>2. Exclusion' /\ queue' \in Seq(Measure!Sharers)
      BY <1>a, <1>2, <2>1, KeepsLine DEF Measure!ollama_request, Measure!Points, MeasureInv, Measure!TypeOK
    <2>3. replies' = [replies EXCEPT ![t] = replies[t]] /\ told' = told /\ measuring' = measuring
      BY <1>2 DEF Measure!ollama_request, MeasureInv, Measure!TypeOK
    <2>4. Len(replies[t]) \in 0..1 /\ (Len(replies[t]) = 1 => replies[t][1] \in Measure!Unusable)
      BY <2>1 DEF MeasureInv, OneMoreTry
    <2> QED BY <1>a, <1>2, <2>1, <2>2, <2>3, <2>4, CallerMoves DEF Measure!ollama_request
  <1>3. ASSUME NEW reply \in Measure!Replies, Measure!answered(t, reply) PROVE MeasureInv'
    <2> DEFINE answers == Append(replies[t], reply)
               verdict == Measure!Verdict(Provider[t], measuring[t].is, reply, Len(answers))
    <2>1. measure_at[t] = "infer" /\ Len(replies[t]) \in 0..1 /\ (Len(replies[t]) = 1 => replies[t][1] \in Measure!Unusable)
      BY <1>3 DEF MeasureInv, OneMoreTry, Measure!answered
    <2>2. /\ answers \in Seq(Measure!Replies) /\ Len(answers) \in 1..2 /\ Last(answers) = reply
          /\ Len(answers) = 1 => answers[1] = reply
          /\ Len(answers) = 2 => Len(replies[t]) = 1 /\ answers[1] = replies[t][1]
      <3>1. /\ answers \in Seq(Measure!Replies) /\ Len(answers) = Len(replies[t]) + 1 /\ answers[Len(answers)] = reply
            /\ \A i \in 1..Len(replies[t]) : answers[i] = replies[t][i]
        BY <1>a
      <3>2. Len(replies[t]) = 0 \/ Len(replies[t]) = 1
        BY <2>1
      <3> HIDE DEF answers
      <3> QED BY <3>1, <3>2 DEF Last
    <2>3. replies' = [replies EXCEPT ![t] = answers] /\ replies'[t] = answers
      BY <1>3 DEF Measure!answered, MeasureInv, Measure!TypeOK
    <2>4. UNCHANGED <<source, copy, built, seen, cursor, measuring>>
      BY <1>3 DEF Measure!answered
    <2>5. IF verdict = "again"
          THEN queue' = Append(Tail(queue), t) /\ measure_at' = [measure_at EXCEPT ![t] = "queue"] /\ told' = told
          ELSE /\ measure_at' = [measure_at EXCEPT ![t] = "idle"] /\ told' = [told EXCEPT ![t] = verdict]
               /\ queue' = Tail(queue)
      BY <1>3, <2>3 DEF Measure!answered, Measure!Tells, Measure!Goes, Measure!Leaves
    <2>6. /\ verdict = "again" => Len(answers) = 1 /\ reply \in Measure!Unusable
          /\ verdict = "result" <=> reply = "good"
          /\ verdict \in {"TIMEOUT", "UNAVAILABLE", "HTTP_ERROR, retryable"} => reply \in Measure!Broken
      BY <2>2, Verdicts
    <2> HIDE DEF answers, verdict
    <2>7. CASE verdict # "again"
      <3>1. Exclusion' /\ queue' \in Seq(Measure!Sharers)
        BY <1>a, <2>1, <2>5, <2>7, LeavesLine DEF Measure!Points
      <3>2. Len(answers) = 2 => answers[1] \in Measure!Unusable
        BY <2>1, <2>2
      <3> QED BY <2>2, <2>3, <2>4, <2>5, <2>6, <2>7, <3>1, <3>2, CallerMoves
    <2>8. CASE verdict = "again"
      <3>1. Exclusion' /\ queue' \in Seq(Measure!Sharers)
        <4>1. queue \in Seq(Measure!Sharers) /\ queue # <<>> /\ queue[1] = t /\ measure_at \in [Measure!Sharers -> Measure!Points]
          BY <2>1 DEF MeasureInv, Measure!TypeOK, Exclusion
        <4>2. queue' = Append(Tail(queue), queue[1]) /\ measure_at' = [measure_at EXCEPT ![t] = "queue"]
          BY <2>5, <2>8, <4>1
        <4> HIDE DEF Measure!Sharers
        <4>3. \A i, j \in DOMAIN queue : queue[i] = queue[j] => i = j
          BY DEF MeasureInv, Exclusion
        <4>4. /\ queue' \in Seq(Measure!Sharers) /\ \A i, j \in DOMAIN queue' : queue'[i] = queue'[j] => i = j
              /\ \A i \in DOMAIN queue' : \E j \in DOMAIN queue : queue'[i] = queue[j]
          BY <4>1, <4>2, <4>3, BackInLine
        <4>5. \A i \in DOMAIN queue' : measure_at'[queue'[i]] \in {"queue", "bench", "infer"}
          <5> SUFFICES ASSUME NEW i \in DOMAIN queue' PROVE measure_at'[queue'[i]] \in {"queue", "bench", "infer"}
            OBVIOUS
          <5>1. PICK j \in DOMAIN queue : queue'[i] = queue[j]
            BY <4>4
          <5>2. queue[j] \in Measure!Sharers /\ measure_at[queue[j]] \in {"queue", "bench", "infer"}
            BY <4>1 DEF MeasureInv, Exclusion, Sharing
          <5> QED BY <4>1, <4>2, <5>1, <5>2
        <4>6. \A u \in Measure!Sharers : measure_at'[u] \notin {"bench", "infer"}
          BY <4>1, <4>2 DEF MeasureInv, Exclusion
        <4> QED BY <4>4, <4>5, <4>6 DEF Exclusion, Sharing
      <3>2. answers[1] = reply
        BY <2>2, <2>6, <2>8
      <3>3. /\ measure_at' = [measure_at EXCEPT ![t] = "queue"] /\ told' = told
            /\ Len(answers) \in 0..1 /\ answers[1] \in Measure!Unusable
            /\ "queue" \in {"idle", "queue", "infer"} /\ "queue" # "idle"
        BY <2>5, <2>6, <2>8, <3>2
      <3> QED BY <2>2, <2>3, <2>4, <3>1, <3>3, CallerMoves
    <2> QED BY <2>7, <2>8
  <1> QED BY <1>1, <1>2, <1>3

\* evaluate is called, or the application writes: neither touches the line or an answer
LEMMA CalledOrWritten ==
    ASSUME MeasureInv,
           \/ \E t \in Evaluators, c \in Candidates : Measure!evaluate(t, c)
           \/ \E c \in Measure!Collections, x \in Contents : Measure!write(c, x)
    PROVE  MeasureInv'
  <1> USE InProcessConstants DEF Measure!MeasurementConstants, Measure!Sharers
  <1>1. ASSUME NEW t \in Evaluators, NEW c \in Candidates, Measure!evaluate(t, c) PROVE MeasureInv'
    <2>1. PICK p \in {"idle", "read"} : measure_at' = [measure_at EXCEPT ![t] = p] /\ measure_at[t] = "idle"
      BY <1>1 DEF Measure!evaluate, Measure!Goes, MeasureInv, Measure!TypeOK
    <2>2. p \in Measure!Points \ {"infer"} /\ t \in Measure!Sharers
      BY DEF Measure!Points
    <2>3. UNCHANGED <<source, copy, built, queue, seen, cursor, replies, told>>
      BY <1>1 DEF Measure!evaluate
    <2>4. Exclusion'
      BY <2>1, <2>2, <2>3, KeepsLine DEF Sharing
    <2>5. Roles' /\ OneMoreTry' /\ Measure!AdviceIsTold'
      BY <2>1, <2>2, <2>3, EvaluatorMoves
    <2>6. DOMAIN measuring' = Measure!Sharers /\ \A u \in Evaluators : measure_at'[u] # "idle" => measuring'[u].candidate \in Candidates
      <3>1. (measuring' = measuring /\ measure_at' = measure_at) \/ measuring' = [measuring EXCEPT ![t] = [is |-> "evaluation", candidate |-> c]]
        BY <1>1 DEF Measure!evaluate
      <3> QED BY <2>1, <2>2, <3>1 DEF MeasureInv, Measure!TypeOK
    <2>7. Measure!TypeOK'
      BY <2>1, <2>2, <2>3, <2>6 DEF MeasureInv, Measure!TypeOK, Measure!EvaluationState, Measure!Collections
    <2> QED BY <2>4, <2>5, <2>7 DEF MeasureInv
  <1>2. ASSUME NEW c \in Measure!Collections, NEW x \in Contents, Measure!write(c, x) PROVE MeasureInv'
    <2>1. source' \in Measure!EvaluationState
      BY <1>2 DEF Measure!write, MeasureInv, Measure!TypeOK, Measure!EvaluationState
    <2>2. UNCHANGED <<copy, built, queue, measure_at, measuring, seen, cursor, replies, told>>
      BY <1>2 DEF Measure!write
    <2> QED
      BY <2>1, <2>2 DEF MeasureInv, Measure!TypeOK, Measure!EvaluationState, Measure!Collections, Exclusion, Sharing,
                        Roles, OneMoreTry, Measure!AdviceIsTold
  <1> QED BY <1>1, <1>2

\* Every step of every task, and stuttering
LEMMA MeasureStep == ASSUME MeasureInv, [Measure!Next]_(Measure!vars) PROVE MeasureInv'
  <1>1. CASE UNCHANGED Measure!vars
    BY <1>1 DEF Measure!vars, MeasureInv, Measure!TypeOK, Measure!EvaluationState, Measure!Collections, Exclusion, Sharing,
                Roles, OneMoreTry, Measure!AdviceIsTold
  <1>2. CASE Measure!Next
    <2>1. ASSUME NEW t \in Measure!Sharers, Measure!Step(t) PROVE MeasureInv'
      <3>1. CASE /\ t \in Evaluators
                 /\ \/ Measure!source_state(t) \/ Measure!replace_clears(t) \/ Measure!replace_fills(t)
                    \/ Measure!evaluation_state(t) \/ Measure!source_after(t) \/ Measure!create_index(t)
                    \/ Measure!benchmark_window(t) \/ Measure!benchmark(t) \/ Measure!drop_index(t)
        BY <3>1, EvaluatorStep
      <3>2. CASE /\ t \in Callers
                 /\ Measure!ollama_request(t) \/ \E r \in Measure!Replies : Measure!answered(t, r)
        BY <3>2, CallerStep
      <3> QED BY <2>1, <3>1, <3>2 DEF Measure!Step
    <2>2. ASSUME NEW t \in Callers, NEW w \in Measure!Questions, Measure!ask(t, w) PROVE MeasureInv'
      BY <2>2, CallerStep
    <2> QED BY <1>2, <2>1, <2>2, CalledOrWritten DEF Measure!Next
  <1> QED BY <1>1, <1>2

\* Without another evaluation nothing comes between the comparison of the copy and the end
\* of the benchmark
LEMMA CopyStandsStep ==
    ASSUME MeasureInv, CopyStands, [Measure!Next]_(Measure!vars), \A s, t \in Evaluators : s = t
    PROVE  CopyStands'
  <1> USE InProcessConstants DEF Measure!MeasurementConstants, Measure!Sharers
  <1> SUFFICES ASSUME NEW t \in Evaluators
               PROVE  /\ measure_at'[t] \in {"reread", "create", "queue", "bench"} => copy' = seen'[t]
                      /\ measure_at'[t] \in {"reread", "create"} => built' = {}
                      /\ measure_at'[t] \in {"queue", "bench"} => built' = {measuring'[t].candidate}
    BY DEF CopyStands
  <1>a. /\ t \notin Callers /\ t \in Measure!Sharers /\ measure_at \in [Measure!Sharers -> Measure!Points]
        /\ DOMAIN measuring = Measure!Sharers
    BY DEF MeasureInv, Measure!TypeOK
  <1> DEFINE Stands == /\ measure_at'[t] \in {"reread", "create", "queue", "bench"} => copy' = seen'[t]
                       /\ measure_at'[t] \in {"reread", "create"} => built' = {}
                       /\ measure_at'[t] \in {"queue", "bench"} => built' = {measuring'[t].candidate}
  <1>1. CASE UNCHANGED <<copy, built, seen>> /\ measure_at'[t] = measure_at[t] /\ measuring'[t] = measuring[t]
    BY <1>1 DEF CopyStands
  <1>2. CASE UNCHANGED Measure!vars
    BY <1>1, <1>2 DEF Measure!vars
  <1>3. ASSUME NEW u \in Evaluators, NEW c \in Candidates, Measure!evaluate(u, c) PROVE Stands
    BY <1>1, <1>3, <1>a DEF Measure!evaluate, Measure!Goes
  <1>4. ASSUME NEW c \in Measure!Collections, NEW x \in Contents, Measure!write(c, x) PROVE Stands
    BY <1>1, <1>4 DEF Measure!write
  <1>5. ASSUME NEW u \in Callers,
               \/ \E w \in Measure!Questions : Measure!ask(u, w)
               \/ Measure!ollama_request(u)
               \/ \E r \in Measure!Replies : Measure!answered(u, r)
        PROVE  Stands
    <2>1. UNCHANGED <<copy, built, seen>>
      BY <1>5 DEF Measure!ask, Measure!ollama_request, Measure!answered
    <2>2. measure_at'[t] = measure_at[t] /\ measuring'[t] = measuring[t]
      BY <1>5, <1>a DEF Measure!ask, Measure!ollama_request, Measure!answered, Measure!Goes, Measure!Tells
    <2> QED BY <1>1, <2>1, <2>2
  <1>6. CASE Measure!source_state(t)
    BY <1>6, <1>a DEF Measure!source_state, Measure!Onward, Measure!Goes
  <1>7. CASE Measure!replace_clears(t)
    BY <1>7, <1>a DEF Measure!replace_clears, Measure!Goes
  <1>8. CASE Measure!replace_fills(t)
    BY <1>8, <1>a DEF Measure!replace_fills, Measure!Onward, Measure!Goes
  <1>9. CASE Measure!evaluation_state(t)
    BY <1>9, <1>a DEF Measure!evaluation_state, Measure!Equivalent, Measure!Ends, Measure!Goes
  <1>10. CASE Measure!source_after(t)
    <2>1. \/ measure_at'[t] = "idle"
          \/ measure_at'[t] \in {"reread", "create"} /\ UNCHANGED <<copy, built, seen>>
      BY <1>10, <1>a DEF Measure!source_after, Measure!Onward, Measure!Ends, Measure!Goes
    <2> QED BY <1>10, <2>1 DEF Measure!source_after, CopyStands
  <1>11. CASE Measure!create_index(t)
    <2>1. copy = seen[t] /\ built = {} /\ UNCHANGED copy
      BY <1>11 DEF Measure!create_index, CopyStands
    <2>2. \/ measure_at'[t] = "idle"
          \/ measure_at'[t] = "queue" /\ UNCHANGED <<measuring, seen>> /\ built' = built \cup {measuring[t].candidate}
      BY <1>11, <1>a DEF Measure!create_index, Measure!Goes, Measure!Ends
    <2> QED BY <2>1, <2>2
  <1>12. CASE Measure!benchmark_window(t)
    <2>1. measure_at[t] = "queue" /\ measure_at'[t] = "bench" /\ UNCHANGED <<copy, built, seen, measuring>>
      BY <1>12, <1>a DEF Measure!benchmark_window, Measure!Goes
    <2> QED BY <2>1 DEF CopyStands
  <1>13. CASE Measure!benchmark(t)
    BY <1>13, <1>a DEF Measure!benchmark, Measure!Goes
  <1>14. CASE Measure!drop_index(t)
    BY <1>14, <1>a DEF Measure!drop_index, Measure!Ends, Measure!Goes
  <1>15. ASSUME NEW u \in Measure!Sharers, Measure!Step(u) PROVE Stands
    <2>1. CASE u \in Callers
      BY <1>5, <1>15, <2>1 DEF Measure!Step
    <2>2. CASE u \in Evaluators
      BY <1>6, <1>7, <1>8, <1>9, <1>10, <1>11, <1>12, <1>13, <1>14, <1>15, <2>2 DEF Measure!Step
    <2> QED BY <2>1, <2>2
  <1> QED BY <1>2, <1>3, <1>4, <1>5, <1>15 DEF Measure!Next

\* Of the lock and of what a caller is told, for any number of evaluators and callers: nobody
\* is at the model or in a second benchmark while a benchmark runs, and advice is what was
\* received last, asked for at most twice.
Alone == \A t, u \in Measure!Sharers : measure_at[t] = "bench" /\ measure_at[u] \in {"bench", "infer"} => t = u

THEOREM BenchmarkIsIsolated == Measure!Spec => [](Measure!TypeOK /\ Alone /\ Measure!AdviceIsTold)
  <1>1. MeasureInv => Measure!TypeOK /\ Alone /\ Measure!AdviceIsTold
    BY DEF MeasureInv, Exclusion, Alone
  <1> QED BY <1>1, MeasureInitially, MeasureStep, PTL DEF Measure!Spec

\* evaluate, when one evaluation at a time is asked for, as the demonstration and the tests do: a
\* benchmark is alone, on the data that was read from the monitored database, with the
\* candidate's index and no other.
THEOREM MeasurementsAreSound ==
    ASSUME \A s, t \in Evaluators : s = t
    PROVE  Measure!Spec => []MeasurementIsSound
  <1>1. Measure!Init => CopyStands
    BY DEF Measure!Init, CopyStands, Measure!Sharers
  <1>2. MeasureInv /\ CopyStands => MeasurementIsSound
    BY DEF MeasureInv, Exclusion, CopyStands, MeasurementIsSound, Measure!MeasurementIsSound, Measure!MeasuredAlone, Measure!Sharers
  <1>3. MeasureInv /\ CopyStands /\ [Measure!Next]_(Measure!vars) => CopyStands'
    BY CopyStandsStep
  <1> QED BY <1>1, <1>2, <1>3, MeasureInitially, MeasureStep, PTL DEF Measure!Spec

-----------------------------------------------------------------------------
(* DirectDeployment *)

InDeploy == {"approval", "read", "create", "observe"}

\* What the fields of the two classes and the locals of their calls hold
DirectTypes ==
    /\ approvals \in Seq(Approvals) /\ ledger \in Seq(Entries) /\ indexes \in States
    /\ pc \in [Tasks -> Points] /\ DOMAIN request = Tasks
    /\ \A t \in Tasks : pc[t] # "idle" =>
          request[t].action \in Actions /\ request[t].evidence \in Evidence /\ request[t].mode \in Modes

\* deploy: from the lock to its end a deployment holds the lock
DeploysLocked == \A t \in Tasks : pc[t] \in InDeploy => holder = t

\* ApprovalFlow.approve is the only one that sets APPROVED
ApprovedStays == \A i \in DOMAIN approvals : approvals[i].status = "APPROVED" => approvals[i].approved

\* A deployment past require_current_approval had an approval of its evidence, if it needs one
Approved(a, e) == \E i \in DOMAIN approvals :
    approvals[i].action = a /\ approvals[i].evidence = e /\ approvals[i].approved
ReadsApproved == \A t \in Tasks : pc[t] = "read" /\ approval_required(request[t].mode) =>
    Approved(request[t].action, request[t].evidence)

\* One past its PREPARED entry has it at the end of the ledger, but for rollbacks
Prepared(a, e) == \E m \in DOMAIN ledger :
    /\ ledger[m].phase = "PREPARED" /\ ledger[m].action = a /\ ledger[m].evidence = e
    /\ \A k \in (m + 1)..Len(ledger) : ledger[k].phase = "ROLLED_BACK"
CreatesPrepared ==
    \A t \in Tasks : pc[t] \in {"create", "observe"} => Prepared(request[t].action, request[t].evidence)

DirectInv ==
    DirectTypes /\ DeploysLocked /\ ApprovedStays /\ ReadsApproved /\ CreatesPrepared /\ DeploymentsInOrder

\* Left alone, the target has an index that the ledger does not tell of only under a
\* deployment that is about to enter it, and the ledger one that the target does not
\* have only under such a rollback
Undisturbed ==
    \A a \in Actions :
        /\ indexes[a] \in {"absent", "own"} /\ LastOf(a) \in 0..Len(ledger)
        /\ indexes[a] = "own" /\ ~(LastOf(a) # 0 /\ ledger[LastOf(a)].phase = "APPLIED")
             => \E t \in Tasks : pc[t] = "observe" /\ request[t].action = a
        /\ indexes[a] # "own" /\ LastOf(a) # 0 /\ ledger[LastOf(a)].phase = "APPLIED"
             => \E t \in Tasks : pc[t] = "check" /\ request[t].action = a

LedgeredInv == DirectInv /\ (acting = "undisturbed" => Undisturbed)
-----------------------------------------------------------------------------

\* Before the first call nothing is entered and no index is there
LEMMA DirectInitially == ASSUME Init PROVE DirectInv
  <1> USE DEF Init
  <1>1. DirectTypes
    BY DEF DirectTypes, States, AllAbsent, Points
  <1>2. DeploysLocked /\ ApprovedStays /\ ReadsApproved /\ CreatesPrepared /\ DeploymentsInOrder
    BY DEF DeploysLocked, InDeploy, ApprovedStays, ReadsApproved, CreatesPrepared, DeploymentsInOrder,
           PreparedWasApproved, AppliedAnswersPrepared
  <1> QED BY <1>1, <1>2 DEF DirectInv

\* The steps of ApprovalFlow: a request keeps what it is about and, once approved, that it was
LEMMA ApprovalsGrow ==
    ASSUME DirectInv, approvals' \in Seq(Approvals), Len(approvals') >= Len(approvals),
           \A i \in DOMAIN approvals :
             /\ approvals'[i].action = approvals[i].action /\ approvals'[i].evidence = approvals[i].evidence
             /\ approvals[i].approved => approvals'[i].approved,
           UNCHANGED ledger
    PROVE  /\ \A a, e : Approved(a, e) => Approved(a, e)'
           /\ DeploymentsInOrder'
  <1>1. DOMAIN approvals \subseteq DOMAIN approvals'
    BY DEF DirectInv, DirectTypes
  <1>2. ASSUME NEW a, NEW e, Approved(a, e) PROVE Approved(a, e)'
    BY <1>1, <1>2, Zenon DEF Approved
  <1>3. PreparedWasApproved'
    <2> SUFFICES ASSUME NEW n \in DOMAIN ledger, ledger[n].phase = "PREPARED", approval_required(ledger[n].mode)
                 PROVE  Approved(ledger[n].action, ledger[n].evidence)'
      BY DEF PreparedWasApproved, Approved
    <2>1. Approved(ledger[n].action, ledger[n].evidence)
      BY DEF DirectInv, DeploymentsInOrder, PreparedWasApproved, Approved
    <2> QED BY <2>1, <1>2
  <1>4. AppliedAnswersPrepared'
    BY DEF DirectInv, DeploymentsInOrder, AppliedAnswersPrepared
  <1> QED BY <1>2, <1>3, <1>4 DEF DeploymentsInOrder

\* What a step of one task has to keep: its own place, the others' lock and their entry
LEMMA TaskMoves ==
    ASSUME DirectInv, NEW t \in Tasks, NEW p \in Points, NEW a \in Actions, NEW e \in Evidence, NEW m \in Modes,
           pc' = [pc EXCEPT ![t] = p], DOMAIN request' = Tasks,
           p # "idle" => request'[t].action = a /\ request'[t].evidence = e /\ request'[t].mode = m,
           \A u \in Tasks \ {t} : request'[u] = request[u] /\ (holder = u => holder' = u),
           p \in InDeploy => holder' = t,
           UNCHANGED approvals \/ (approvals' \in Seq(Approvals) /\ ApprovedStays' /\ \A x, y : Approved(x, y) => Approved(x, y)'),
           indexes' \in States, ledger' \in Seq(Entries), DeploymentsInOrder',
           \A u \in Tasks \ {t} : \A x, y : pc[u] \in {"create", "observe"} /\ Prepared(x, y) => Prepared(x, y)',
           p = "read" /\ approval_required(m) => Approved(a, e)',
           p \in {"create", "observe"} => Prepared(a, e)'
    PROVE  DirectInv'
  <1>1. /\ pc' \in [Tasks -> Points] /\ pc'[t] = p
        /\ \A u \in Tasks \ {t} : pc'[u] = pc[u]
    BY DEF DirectInv, DirectTypes
  <1>2. approvals' \in Seq(Approvals) /\ ApprovedStays' /\ \A x, y : Approved(x, y) => Approved(x, y)'
    BY DEF DirectInv, DirectTypes, ApprovedStays, Approved
  <1>3. DirectTypes'
    BY <1>1, <1>2 DEF DirectInv, DirectTypes
  <1>4. DeploysLocked'
    BY <1>1 DEF DirectInv, DeploysLocked
  <1>5. ReadsApproved'
    <2> SUFFICES ASSUME NEW u \in Tasks, pc'[u] = "read", approval_required(request'[u].mode)
                 PROVE  \E x, y : x = request'[u].action /\ y = request'[u].evidence /\ Approved(x, y)'
      BY DEF ReadsApproved, Approved
    <2>1. CASE u = t
      BY <1>1, <2>1
    <2>2. CASE u # t
      BY <1>1, <1>2, <2>2 DEF DirectInv, ReadsApproved
    <2> QED BY <2>1, <2>2
  <1>6. CreatesPrepared'
    <2> SUFFICES ASSUME NEW u \in Tasks, pc'[u] \in {"create", "observe"}
                 PROVE  \E x, y : x = request'[u].action /\ y = request'[u].evidence /\ Prepared(x, y)'
      BY DEF CreatesPrepared, Prepared
    <2>1. CASE u = t
      BY <1>1, <2>1
    <2>2. CASE u # t
      BY <1>1, <2>2 DEF DirectInv, CreatesPrepared
    <2> QED BY <2>1, <2>2
  <1> QED BY <1>2, <1>3, <1>4, <1>5, <1>6 DEF DirectInv

\* AppendOnlyLedger.append: what an entry of each phase means for the protocol
LEMMA Entered ==
    ASSUME DirectInv, NEW x \in Entries, ledger' = Append(ledger, x), UNCHANGED approvals,
           x.phase = "PREPARED" /\ approval_required(x.mode) => Approved(x.action, x.evidence),
           x.phase = "APPLIED" => Prepared(x.action, x.evidence)
    PROVE  /\ ledger' \in Seq(Entries) /\ DeploymentsInOrder'
           /\ x.phase = "PREPARED" => Prepared(x.action, x.evidence)'
           /\ x.phase = "ROLLED_BACK" => \A a, e : Prepared(a, e) => Prepared(a, e)'
  <1> DEFINE n == Len(ledger)
  <1>1. /\ n \in Nat /\ DOMAIN ledger = 1..n /\ ledger' \in Seq(Entries) /\ Len(ledger') = n + 1
        /\ DOMAIN ledger' = 1..(n + 1) /\ ledger'[n + 1] = x /\ \A k \in 1..n : ledger'[k] = ledger[k]
    BY DEF DirectInv, DirectTypes
  <1> HIDE DEF n
  <1>2. \A k \in 1..(n + 1) : k = n + 1 \/ k \in 1..n
    BY <1>1
  <1>3. PreparedWasApproved'
    <2> SUFFICES ASSUME NEW k \in 1..(n + 1), ledger'[k].phase = "PREPARED", approval_required(ledger'[k].mode)
                 PROVE  \E a, e : a = ledger'[k].action /\ e = ledger'[k].evidence /\ Approved(a, e)
      BY <1>1 DEF PreparedWasApproved, Approved
    <2>1. CASE k = n + 1
      BY <1>1, <2>1
    <2>2. CASE k \in 1..n
      BY <1>1, <2>2 DEF DirectInv, DeploymentsInOrder, PreparedWasApproved, Approved
    <2> QED BY <1>2, <2>1, <2>2
  <1>4. AppliedAnswersPrepared'
    <2> SUFFICES ASSUME NEW k \in 1..(n + 1), ledger'[k].phase = "APPLIED"
                 PROVE  \E m \in 1..(k - 1) :
                          /\ ledger'[m].phase = "PREPARED"
                          /\ ledger'[m].action = ledger'[k].action /\ ledger'[m].evidence = ledger'[k].evidence
                          /\ \A j \in (m + 1)..(k - 1) : ledger'[j].phase = "ROLLED_BACK"
      BY <1>1 DEF AppliedAnswersPrepared
    <2>1. CASE k = n + 1
      <3>1. PICK m \in 1..n : /\ ledger[m].phase = "PREPARED" /\ ledger[m].action = x.action /\ ledger[m].evidence = x.evidence
                              /\ \A j \in (m + 1)..n : ledger[j].phase = "ROLLED_BACK"
        BY <1>1, <2>1 DEF Prepared, n
      <3>2. m \in 1..(k - 1) /\ \A j \in (m + 1)..(k - 1) : j \in 1..n /\ j \in (m + 1)..n
        BY <1>1, <2>1
      <3> QED BY <1>1, <2>1, <3>1, <3>2
    <2>2. CASE k \in 1..n
      <3>1. PICK m \in 1..(k - 1) :
               /\ ledger[m].phase = "PREPARED" /\ ledger[m].action = ledger[k].action /\ ledger[m].evidence = ledger[k].evidence
               /\ \A j \in (m + 1)..(k - 1) : ledger[j].phase = "ROLLED_BACK"
        BY <1>1, <2>2 DEF DirectInv, DeploymentsInOrder, AppliedAnswersPrepared
      <3>2. m \in 1..n /\ \A j \in (m + 1)..(k - 1) : j \in 1..n
        BY <1>1, <2>2
      <3> QED BY <1>1, <2>2, <3>1, <3>2
    <2> QED BY <1>2, <2>1, <2>2
  <1>5. ASSUME x.phase = "PREPARED" PROVE Prepared(x.action, x.evidence)'
    <2>1. n + 1 \in 1..(n + 1) /\ (n + 2)..(n + 1) = {} /\ n + 1 + 1 = n + 2
      BY <1>1
    <2> QED BY <1>1, <1>5, <2>1 DEF Prepared
  <1>6. ASSUME x.phase = "ROLLED_BACK", NEW a, NEW e, Prepared(a, e) PROVE Prepared(a, e)'
    <2>1. PICK m \in 1..n : /\ ledger[m].phase = "PREPARED" /\ ledger[m].action = a /\ ledger[m].evidence = e
                            /\ \A j \in (m + 1)..n : ledger[j].phase = "ROLLED_BACK"
      BY <1>1, <1>6 DEF Prepared, n
    <2>2. m \in 1..(n + 1) /\ \A j \in (m + 1)..(n + 1) : j = n + 1 \/ (j \in 1..n /\ j \in (m + 1)..n)
      BY <1>1
    <2> QED BY <1>1, <1>6, <2>1, <2>2, SMTT(30) DEF Prepared
  <1> QED BY <1>1, <1>3, <1>4, <1>5, <1>6 DEF DeploymentsInOrder

\* ApprovalFlow: what it does to its requests
LEMMA ApprovalSteps ==
    ASSUME DirectInv,
           \/ \E a \in Actions, e \in Evidence : ask_approval(a, e)
           \/ \E i \in DOMAIN approvals : approve(i) \/ expire(i)
    PROVE  DirectInv'
  <1>1. UNCHANGED <<ledger, indexes, holder, pc, request>>
    BY DEF ask_approval, approve, expire
  <1> DEFINE Grown ==
         /\ approvals' \in Seq(Approvals) /\ Len(approvals') >= Len(approvals) /\ ApprovedStays'
         /\ \A i \in DOMAIN approvals :
              /\ approvals'[i].action = approvals[i].action /\ approvals'[i].evidence = approvals[i].evidence
              /\ approvals[i].approved => approvals'[i].approved
  <1>a. approvals \in Seq(Approvals)
    BY DEF DirectInv, DirectTypes
  <1>2. ASSUME NEW a \in Actions, NEW e \in Evidence, ask_approval(a, e) PROVE Grown
    <2> DEFINE new == [action |-> a, evidence |-> e, status |-> "PENDING", approved |-> FALSE, late |-> FALSE]
    <2>1. new \in Approvals /\ new.status # "APPROVED"
      BY DEF Approvals, Statuses
    <2>2. approvals' = Append(approvals, new)
      BY <1>2 DEF ask_approval
    <2> HIDE DEF new
    <2>3. /\ approvals' \in Seq(Approvals) /\ Len(approvals') >= Len(approvals)
          /\ \A i \in DOMAIN approvals : approvals'[i] = approvals[i]
          /\ \A i \in DOMAIN approvals' : i \in DOMAIN approvals \/ approvals'[i] = new
      BY <1>a, <2>1, <2>2
    <2> QED BY <2>1, <2>3 DEF DirectInv, ApprovedStays
  <1>3. ASSUME NEW i \in DOMAIN approvals, approve(i) \/ expire(i) PROVE Grown
    <2>0. approvals[i] \in Approvals
      BY <1>a
    <2>1. PICK new \in Approvals : /\ approvals' = [approvals EXCEPT ![i] = new]
                                   /\ new.action = approvals[i].action /\ new.evidence = approvals[i].evidence
                                   /\ approvals[i].approved => new.approved
                                   /\ new.status = "APPROVED" => new.approved
      <3>1. CASE approve(i)
        <4>1. approvals' = [approvals EXCEPT ![i] = Decided(approvals[i])]
          BY <3>1 DEF approve
        <4>2. /\ Decided(approvals[i]) \in Approvals
              /\ Decided(approvals[i]).action = approvals[i].action /\ Decided(approvals[i]).evidence = approvals[i].evidence
              /\ approvals[i].approved => Decided(approvals[i]).approved
              /\ Decided(approvals[i]).status = "APPROVED" => Decided(approvals[i]).approved
          BY <2>0 DEF Decided, Approvals, Statuses
        <4> QED BY <4>1, <4>2
      <3>2. CASE expire(i)
        <4>1. approvals' = [approvals EXCEPT ![i] = [@ EXCEPT !.late = TRUE]]
          BY <3>2 DEF expire
        <4>2. [approvals[i] EXCEPT !.late = TRUE] \in Approvals
          BY <2>0 DEF Approvals
        <4> QED BY <2>0, <4>1, <4>2 DEF Approvals, DirectInv, ApprovedStays
      <3> QED BY <1>3, <3>1, <3>2
    <2>2. /\ approvals' \in Seq(Approvals) /\ Len(approvals') = Len(approvals) /\ approvals'[i] = new
          /\ DOMAIN approvals' = DOMAIN approvals /\ \A j \in DOMAIN approvals : j # i => approvals'[j] = approvals[j]
          /\ Len(approvals) \in Nat
      BY <1>a, <2>1
    <2> QED BY <2>1, <2>2 DEF DirectInv, ApprovedStays
  <1>4. Grown
    BY <1>2, <1>3
  <1>5. /\ \A x, y : Approved(x, y) => Approved(x, y)'
        /\ DeploymentsInOrder'
    BY <1>1, <1>4, ApprovalsGrow
  <1>6. ReadsApproved'
    BY <1>1, <1>5 DEF DirectInv, ReadsApproved
  <1>7. CreatesPrepared'
    BY <1>1 DEF DirectInv, CreatesPrepared, Prepared
  <1> QED BY <1>1, <1>4, <1>5, <1>6, <1>7 DEF DirectInv, DirectTypes, DeploysLocked

\* deploy and rollback are called: the call is typed by what it was given or by the entry
LEMMA CallSteps ==
    ASSUME DirectInv, NEW t \in Tasks,
           \/ \E a \in Actions, e \in Evidence, mode \in Modes : deploy(t, a, e, mode)
           \/ \E n \in DOMAIN ledger : rollback(t, n)
    PROVE  DirectInv'
  <1> DEFINE Called(r, p) == Call(t, r, p) /\ r.action \in Actions /\ r.evidence \in Evidence /\ r.mode \in Modes
  <1>1. \E r : Called(r, "lock") \/ Called(r, "verify")
    <2>1. ASSUME NEW a \in Actions, NEW e \in Evidence, NEW m \in Modes, deploy(t, a, e, m) PROVE \E r : Called(r, "lock")
      <3>1. PICK s \in {AllAbsent, indexes} : Call(t, [action |-> a, evidence |-> e, mode |-> m, expected |-> s, entry |-> 0], "lock")
        BY <2>1 DEF deploy
      <3> DEFINE r == [action |-> a, evidence |-> e, mode |-> m, expected |-> s, entry |-> 0]
      <3>2. r.action = a /\ r.evidence = e /\ r.mode = m
        OBVIOUS
      <3> HIDE DEF r
      <3>3. Call(t, r, "lock")
        BY <3>1 DEF r
      <3> QED BY <3>2, <3>3
    <2>2. ASSUME NEW n \in DOMAIN ledger, rollback(t, n) PROVE \E r : Called(r, "verify")
      <3> DEFINE r == [action |-> ledger[n].action, evidence |-> ledger[n].evidence, mode |-> ledger[n].mode,
                    expected |-> AllAbsent, entry |-> n]
      <3>0. ledger[n] \in Entries
        BY DEF DirectInv, DirectTypes
      <3>1. r.action \in Actions /\ r.evidence \in Evidence /\ r.mode \in Modes
        BY <3>0 DEF Entries
      <3>2. Call(t, r, "verify")
        BY <2>2 DEF rollback
      <3> QED BY <3>1, <3>2
    <2> QED BY <2>1, <2>2
  <1> HIDE DEF Called
  <1>2. PICK r, p : Called(r, p) /\ p \in {"lock", "verify"}
    BY <1>1
  <1>3. /\ pc' = [pc EXCEPT ![t] = p] /\ p \in Points /\ p \notin InDeploy /\ p \notin {"read", "create", "observe"}
        /\ request' = [request EXCEPT ![t] = r] /\ r.action \in Actions /\ r.evidence \in Evidence /\ r.mode \in Modes
        /\ UNCHANGED <<approvals, ledger, indexes, holder>>
    BY <1>2 DEF Called, Call, Points, InDeploy
  <1>4. /\ DOMAIN request' = Tasks /\ request'[t] = r /\ \A u \in Tasks \ {t} : request'[u] = request[u]
        /\ indexes' \in States /\ ledger' \in Seq(Entries)
    BY <1>3 DEF DirectInv, DirectTypes
  <1>5. DeploymentsInOrder' /\ \A x, y : Prepared(x, y) => Prepared(x, y)'
    BY <1>3 DEF DirectInv, DeploymentsInOrder, PreparedWasApproved, AppliedAnswersPrepared, Prepared
  <1> QED BY <1>3, <1>4, <1>5, TaskMoves

\* A step that enters nothing in the ledger
LEMMA Unentered ==
    ASSUME DirectInv, UNCHANGED ledger,
           UNCHANGED approvals \/ \A x, y : Approved(x, y) => Approved(x, y)'
    PROVE  DeploymentsInOrder' /\ ledger' \in Seq(Entries) /\ \A x, y : Prepared(x, y) => Prepared(x, y)'
  <1>1. PreparedWasApproved'
    <2> SUFFICES ASSUME NEW n \in DOMAIN ledger, ledger[n].phase = "PREPARED", approval_required(ledger[n].mode)
                 PROVE  Approved(ledger[n].action, ledger[n].evidence)'
      BY DEF PreparedWasApproved, Approved
    <2>1. Approved(ledger[n].action, ledger[n].evidence)
      BY DEF DirectInv, DeploymentsInOrder, PreparedWasApproved, Approved
    <2> QED BY <2>1 DEF Approved
  <1>2. AppliedAnswersPrepared' /\ ledger' \in Seq(Entries) /\ \A x, y : Prepared(x, y) => Prepared(x, y)'
    BY DEF DirectInv, DirectTypes, DeploymentsInOrder, AppliedAnswersPrepared, Prepared
  <1> QED BY <1>1, <1>2 DEF DeploymentsInOrder

\* A call that goes on or returns without an entry or a review of the approvals
LEMMA GoesOn ==
    ASSUME DirectInv, NEW t \in Tasks, pc[t] # "idle", NEW p \in Points,
           \/ Goto(t, p) \/ (p = "idle" /\ Return(t)),
           UNCHANGED <<approvals, ledger>>, indexes' \in States,
           \A u \in Tasks \ {t} : holder = u => holder' = u,
           p \in InDeploy => holder' = t,
           p = "read" /\ approval_required(request[t].mode) => Approved(request[t].action, request[t].evidence),
           p \in {"create", "observe"} => Prepared(request[t].action, request[t].evidence)
    PROVE  DirectInv'
  <1>0. PICK a \in Actions, e \in Evidence, m \in Modes :
           a = request[t].action /\ e = request[t].evidence /\ m = request[t].mode
    BY DEF DirectInv, DirectTypes
  <1>1. /\ DOMAIN request' = Tasks /\ pc' = [pc EXCEPT ![t] = p]
        /\ \A u \in Tasks \ {t} : request'[u] = request[u]
        /\ p # "idle" => request'[t].action = a /\ request'[t].evidence = e /\ request'[t].mode = m
    BY <1>0 DEF DirectInv, DirectTypes, Goto, Return
  <1>2. p = "read" /\ approval_required(m) => Approved(a, e)'
    BY <1>0 DEF Approved
  <1>3. p \in {"create", "observe"} => Prepared(a, e)'
    BY <1>0 DEF Prepared
  <1> QED BY <1>1, <1>2, <1>3, Unentered, TaskMoves

\* A call that enters something in the ledger and goes on or returns
LEMMA GoesOnEntered ==
    ASSUME DirectInv, NEW t \in Tasks, pc[t] # "idle",
           NEW phase \in {"PREPARED", "APPLIED", "ROLLED_BACK"}, Record(t, phase, indexes), UNCHANGED <<approvals, indexes>>,
           \A u \in Tasks \ {t} : holder = u => holder' = u,
           \/ phase = "PREPARED" /\ pc[t] = "read" /\ Goto(t, "create") /\ UNCHANGED holder
           \/ phase = "APPLIED" /\ pc[t] = "observe" /\ Return(t)
           \/ phase = "ROLLED_BACK" /\ Return(t)
    PROVE  DirectInv'
  <1>0. PICK a \in Actions, e \in Evidence, m \in Modes :
           a = request[t].action /\ e = request[t].evidence /\ m = request[t].mode
    BY DEF DirectInv, DirectTypes
  <1>1. PICK x \in Entries : ledger' = Append(ledger, x) /\ x.phase = phase /\ x.action = a /\ x.evidence = e /\ x.mode = m
    <2> DEFINE x == [phase |-> phase, action |-> a, evidence |-> e, mode |-> m, after |-> indexes]
    <2>1. x \in Entries /\ x.phase = phase /\ x.action = a /\ x.evidence = e /\ x.mode = m
      BY DEF Entries, DirectInv, DirectTypes
    <2>2. ledger' = Append(ledger, x)
      BY <1>0 DEF Record
    <2> QED BY <2>1, <2>2
  <1>2. phase = "PREPARED" /\ approval_required(m) => Approved(a, e)
    BY <1>0 DEF DirectInv, ReadsApproved
  <1>3. phase = "APPLIED" => Prepared(a, e)
    BY <1>0 DEF DirectInv, CreatesPrepared
  <1>4. /\ ledger' \in Seq(Entries) /\ DeploymentsInOrder'
        /\ phase = "PREPARED" => Prepared(a, e)'
        /\ phase = "ROLLED_BACK" => \A y, z : Prepared(y, z) => Prepared(y, z)'
    BY <1>1, <1>2, <1>3, Entered
  <1>5. PICK p \in Points : /\ pc' = [pc EXCEPT ![t] = p] /\ DOMAIN request' = Tasks
                            /\ \A u \in Tasks \ {t} : request'[u] = request[u]
                            /\ p # "idle" => request'[t].action = a /\ request'[t].evidence = e /\ request'[t].mode = m
                            /\ p = "idle" \/ (p = "create" /\ phase = "PREPARED" /\ pc[t] = "read" /\ holder' = holder)
    BY <1>0 DEF DirectInv, DirectTypes, Goto, Return, Points
  <1>6. \A u \in Tasks \ {t} : phase # "ROLLED_BACK" => pc[u] \notin {"create", "observe"}
    BY DEF DirectInv, DeploysLocked, InDeploy
  <1>7. p \in InDeploy => holder' = t
    BY <1>5 DEF DirectInv, DeploysLocked, InDeploy
  <1>8. indexes' \in States
    BY DEF DirectInv, DirectTypes
  <1> QED BY <1>4, <1>5, <1>6, <1>7, <1>8, TaskMoves

\* require_current_approval: what it marks stays about the same thing, and stays approved
LEMMA ReviewKeeps ==
    ASSUME DirectInv, NEW a \in Actions, NEW e \in Evidence, approvals' = Reviewed(a, e)
    PROVE  /\ approvals' \in Seq(Approvals) /\ ApprovedStays'
           /\ \A x, y : Approved(x, y) => Approved(x, y)'
           /\ Current(a, e) => Approved(a, e)'
  <1>1. approvals \in Seq(Approvals) /\ DOMAIN approvals' = DOMAIN approvals
    BY DEF DirectInv, DirectTypes, Reviewed
  <1>2. \A i \in DOMAIN approvals :
           /\ approvals'[i] \in Approvals
           /\ approvals'[i].action = approvals[i].action /\ approvals'[i].evidence = approvals[i].evidence
           /\ approvals'[i].approved = approvals[i].approved
           /\ approvals'[i].status = "APPROVED" => approvals[i].status = "APPROVED"
    <2> SUFFICES ASSUME NEW i \in DOMAIN approvals
                 PROVE  /\ approvals'[i] \in Approvals
                        /\ approvals'[i].action = approvals[i].action /\ approvals'[i].evidence = approvals[i].evidence
                        /\ approvals'[i].approved = approvals[i].approved
                        /\ approvals'[i].status = "APPROVED" => approvals[i].status = "APPROVED"
      OBVIOUS
    <2>1. approvals[i] \in Approvals
      BY <1>1
    <2>2. approvals'[i] = approvals[i] \/ \E s \in {"EXPIRED", "STALE"} : approvals'[i] = [approvals[i] EXCEPT !.status = s]
      BY <2>1 DEF Reviewed, Approvals
    <2> QED BY <2>1, <2>2 DEF Approvals, Statuses
  <1>3. approvals' \in Seq(Approvals)
    BY <1>1, <1>2 DEF Reviewed
  <1>4. ApprovedStays' /\ \A x, y : Approved(x, y) => Approved(x, y)'
    BY <1>1, <1>2 DEF DirectInv, ApprovedStays, Approved
  <1>5. ASSUME Current(a, e) PROVE Approved(a, e)'
    <2>1. PICK i \in DOMAIN approvals : approvals'[i].action = a /\ approvals'[i].status = "APPROVED" /\ approvals[i].evidence = e
      BY <1>5 DEF Current
    <2> QED BY <1>1, <1>2, <2>1 DEF DirectInv, ApprovedStays, Approved
  <1> QED BY <1>3, <1>4, <1>5

\* The steps of one call, of either class
LEMMA TaskSteps ==
    ASSUME DirectInv, NEW t \in Tasks, Deploying(t) \/ RollingBack(t) \/ adapter_raises(t)
    PROVE  DirectInv'
  <1> USE DirectConstants
  <1>a. indexes \in States /\ DOMAIN request = Tasks
    BY DEF DirectInv, DirectTypes
  <1>b. pc[t] # "idle" => request[t].action \in Actions
    BY DEF DirectInv, DirectTypes
  <1>c. \A p \in InDeploy : p \in Points
    BY DEF InDeploy, Points
  <1>d. "idle" \in Points /\ "before" \in Points /\ "drop" \in Points /\ "check" \in Points
    BY DEF Points
  <1>e. ASSUME Exit(t) PROVE Return(t) /\ \A u \in Tasks \ {t} : holder = u => holder' = u
    BY <1>e DEF Exit
  <1>1. CASE acquire(t)
    <2>1. \A u \in Tasks : holder # u
      BY <1>1 DEF acquire
    <2> QED BY <1>1, <1>a, <1>c, <2>1, GoesOn DEF acquire, InDeploy
  <1>2. CASE require_current_approval(t)
    <2>0. PICK a \in Actions, e \in Evidence, m \in Modes :
           a = request[t].action /\ e = request[t].evidence /\ m = request[t].mode
      BY <1>2 DEF DirectInv, DirectTypes, require_current_approval
    <2>1. /\ pc[t] = "approval" /\ UNCHANGED <<ledger, indexes>>
          /\ IF approval_required(m)
             THEN /\ approvals' = Reviewed(a, e)
                  /\ IF Current(a, e) THEN Goto(t, "read") /\ UNCHANGED holder ELSE Exit(t)
             ELSE Goto(t, "read") /\ UNCHANGED <<approvals, holder>>
      BY <1>2, <2>0 DEF require_current_approval
    <2>n. CASE ~approval_required(m)
      BY <1>a, <1>c, <2>0, <2>1, <2>n, GoesOn DEF InDeploy, DirectInv, DeploysLocked
    <2> SUFFICES ASSUME approval_required(m) PROVE DirectInv'
      BY <2>n
    <2>2. /\ approvals' \in Seq(Approvals) /\ ApprovedStays'
          /\ \A x, y : Approved(x, y) => Approved(x, y)'
          /\ Current(a, e) => Approved(a, e)'
      BY <2>1, ReviewKeeps
    <2>3. DeploymentsInOrder' /\ ledger' \in Seq(Entries) /\ \A x, y : Prepared(x, y) => Prepared(x, y)'
      BY <2>1, <2>2, Unentered
    <2>4. PICK p \in {"read", "idle"} :
             /\ pc' = [pc EXCEPT ![t] = p] /\ DOMAIN request' = Tasks
             /\ p # "idle" => request'[t].action = a /\ request'[t].evidence = e /\ request'[t].mode = m
             /\ \A u \in Tasks \ {t} : request'[u] = request[u] /\ (holder = u => holder' = u)
             /\ p = "read" => Current(a, e) /\ holder' = holder
      <3>1. CASE Current(a, e)
        BY <2>0, <2>1, <1>a, <3>1 DEF Goto
      <3>2. CASE ~Current(a, e)
        BY <2>0, <2>1, <1>a, <1>e, <3>2 DEF Return
      <3> QED BY <3>1, <3>2
    <2>5. p \in Points /\ p \notin {"create", "observe"} /\ (p \in InDeploy => holder' = t)
      BY <2>1, <2>4 DEF DirectInv, DeploysLocked, InDeploy, Points
    <2> QED BY <1>a, <2>1, <2>2, <2>3, <2>4, <2>5, TaskMoves
  <1>3. CASE prepare(t)
    <2>1. CASE Record(t, "PREPARED", indexes) /\ Goto(t, "create") /\ UNCHANGED holder
      BY <1>3, <2>1, GoesOnEntered DEF prepare
    <2>2. CASE Exit(t) /\ UNCHANGED ledger
      BY <1>3, <1>a, <1>d, <1>e, <2>2, GoesOn DEF prepare, InDeploy
    <2> QED BY <1>3, <2>1, <2>2 DEF prepare
  <1>4. CASE create_index(t)
    <2>1. CASE Exit(t) /\ UNCHANGED indexes
      BY <1>4, <1>a, <1>d, <1>e, <2>1, GoesOn DEF create_index, InDeploy
    <2>2. CASE /\ indexes' = [indexes EXCEPT ![request[t].action] = "own"]
               /\ Goto(t, "observe") /\ UNCHANGED holder
      <3>1. indexes' \in States
        BY <1>a, <2>2 DEF States
      <3>2. pc[t] = "create" /\ holder = t /\ Prepared(request[t].action, request[t].evidence) /\ UNCHANGED <<approvals, ledger>>
        BY <1>4 DEF create_index, DirectInv, DeploysLocked, CreatesPrepared, InDeploy
      <3> QED BY <1>c, <2>2, <3>1, <3>2, GoesOn DEF InDeploy
    <2> QED BY <1>4, <2>1, <2>2 DEF create_index
  <1>5. CASE applied(t)
    <2>1. CASE Record(t, "APPLIED", indexes)
      BY <1>5, <1>e, <2>1, GoesOnEntered DEF applied
    <2>2. CASE UNCHANGED ledger
      BY <1>5, <1>a, <1>d, <1>e, <2>2, GoesOn DEF applied, InDeploy
    <2> QED BY <1>5, <2>1, <2>2 DEF applied
  <1>6. CASE verify_ownership(t)
    BY <1>6, <1>a, <1>d, GoesOn DEF verify_ownership, InDeploy
  <1>7. CASE before_state(t)
    BY <1>7, <1>a, <1>d, GoesOn DEF before_state, InDeploy
  <1>8. CASE drop_index(t)
    <2>1. indexes' \in States
      BY <1>8, <1>a DEF drop_index, States
    <2> QED BY <1>8, <1>d, <2>1, GoesOn DEF drop_index, InDeploy
  <1>9. CASE rolled_back(t)
    <2>1. CASE Record(t, "ROLLED_BACK", indexes)
      BY <1>9, <2>1, GoesOnEntered DEF rolled_back
    <2>2. CASE UNCHANGED ledger
      BY <1>9, <1>a, <1>d, <2>2, GoesOn DEF rolled_back, InDeploy
    <2> QED BY <1>9, <2>1, <2>2 DEF rolled_back
  <1>10. CASE adapter_raises(t)
    BY <1>10, <1>a, <1>d, <1>e, GoesOn DEF adapter_raises, InDeploy
  <1> QED BY <1>1, <1>2, <1>3, <1>4, <1>5, <1>6, <1>7, <1>8, <1>9, <1>10 DEF Deploying, RollingBack

\* The last entry of an action, after one more entry: that one, or the one it was
LEMMA LastEntered ==
    ASSUME ledger \in Seq(Entries), NEW x \in Entries, ledger' = Append(ledger, x), NEW a \in Actions,
           LastOf(a) \in 0..Len(ledger)
    PROVE  /\ LastOf(a)' \in 0..Len(ledger')
           /\ x.action = a => LastOf(a)' # 0 /\ ledger'[LastOf(a)'] = x
           /\ x.action # a => LastOf(a)' = LastOf(a) /\ (LastOf(a) # 0 => ledger'[LastOf(a)] = ledger[LastOf(a)])
  <1> DEFINE n == Len(ledger)
             I == {i \in 1..n : ledger[i].action = a}
             J == {i \in 1..Len(ledger') : ledger'[i].action = a}
  <1>1. /\ n \in Nat /\ Len(ledger') = n + 1 /\ ledger'[n + 1] = x /\ \A i \in 1..n : ledger'[i] = ledger[i]
    OBVIOUS
  <1>2. LastOf(a) = (IF I # {} THEN Max(I) ELSE 0) /\ LastOf(a)' = (IF J # {} THEN Max(J) ELSE 0)
    BY DEF LastOf, SelectLastInSeq
  <1>3. CASE x.action = a
    <2>1. n + 1 \in J /\ \A i \in J : i \in Int /\ i <= n + 1
      BY <1>1, <1>3
    <2> HIDE DEF J
    <2>2. Max(J) = n + 1
      BY <1>1, <2>1 DEF Max
    <2>3. LastOf(a)' = n + 1
      BY <1>2, <2>1, <2>2
    <2> QED BY <1>1, <1>3, <2>3
  <1>4. CASE x.action # a
    <2>1. J = I
      BY <1>1, <1>4
    <2>2. LastOf(a)' = LastOf(a)
      BY <1>2, <2>1
    <2> QED BY <1>1, <1>4, <2>2
  <1> QED BY <1>3, <1>4

\* Nobody else changes the target and no adapter raises: the two gaps between the target and
\* the ledger are where a call has acted and not yet entered it
LEMMA UndisturbedStep ==
    ASSUME DirectInv, Undisturbed, NEW t \in Tasks, Deploying(t) \/ RollingBack(t)
    PROVE  Undisturbed'
  <1>0. /\ pc[t] # "idle" /\ request[t].action \in Actions /\ request[t].evidence \in Evidence /\ request[t].mode \in Modes
        /\ indexes \in States /\ ledger \in Seq(Entries) /\ pc \in [Tasks -> Points] /\ DOMAIN request = Tasks
    BY DEF DirectInv, DirectTypes, Deploying, RollingBack, acquire, require_current_approval, prepare, create_index,
           applied, verify_ownership, before_state, drop_index, rolled_back
  <1>1. \A u \in Tasks \ {t} : pc'[u] = pc[u] /\ request'[u] = request[u]
    BY <1>0 DEF Deploying, RollingBack, acquire, require_current_approval, prepare, create_index,
           applied, verify_ownership, before_state, drop_index, rolled_back, Goto, Return, Exit
  <1> SUFFICES ASSUME NEW a \in Actions
               PROVE  /\ indexes'[a] \in {"absent", "own"} /\ LastOf(a)' \in 0..Len(ledger')
                      /\ indexes'[a] = "own" /\ ~(LastOf(a)' # 0 /\ ledger'[LastOf(a)'].phase = "APPLIED")
                           => \E u \in Tasks : pc'[u] = "observe" /\ request'[u].action = a
                      /\ indexes'[a] # "own" /\ LastOf(a)' # 0 /\ ledger'[LastOf(a)'].phase = "APPLIED"
                           => \E u \in Tasks : pc'[u] = "check" /\ request'[u].action = a
    BY DEF Undisturbed
  <1> DEFINE Told == LastOf(a) # 0 /\ ledger[LastOf(a)].phase = "APPLIED"
             Goal == /\ indexes'[a] \in {"absent", "own"} /\ LastOf(a)' \in 0..Len(ledger')
                     /\ indexes'[a] = "own" /\ ~(LastOf(a)' # 0 /\ ledger'[LastOf(a)'].phase = "APPLIED")
                          => \E u \in Tasks : pc'[u] = "observe" /\ request'[u].action = a
                     /\ indexes'[a] # "own" /\ LastOf(a)' # 0 /\ ledger'[LastOf(a)'].phase = "APPLIED"
                          => \E u \in Tasks : pc'[u] = "check" /\ request'[u].action = a
  <1>2. /\ indexes[a] \in {"absent", "own"} /\ LastOf(a) \in 0..Len(ledger)
        /\ indexes[a] = "own" /\ ~Told => \E u \in Tasks : pc[u] = "observe" /\ request[u].action = a
        /\ indexes[a] # "own" /\ Told => \E u \in Tasks : pc[u] = "check" /\ request[u].action = a
    BY DEF Undisturbed
  <1> DEFINE Others == \/ request[t].action # a
                       \/ pc[t] \notin {"observe", "check"}
                       \/ pc[t] = "observe" /\ indexes[a] # "own"
                       \/ pc[t] = "check" /\ indexes[a] = "own"
  \* nothing is entered, nothing changes about a, and t was not the one that a waits for
  <1>3. ASSUME UNCHANGED ledger, indexes'[a] = indexes[a], Others PROVE Goal
    <2>1. LastOf(a)' = LastOf(a) /\ ledger' = ledger
      BY <1>3 DEF LastOf, SelectLastInSeq
    <2>2. ASSUME NEW u \in Tasks, pc[u] = "observe" /\ request[u].action = a /\ indexes[a] = "own" PROVE pc'[u] = "observe" /\ request'[u].action = a
      BY <1>1, <1>3, <2>2
    <2>3. ASSUME NEW u \in Tasks, pc[u] = "check" /\ request[u].action = a /\ indexes[a] # "own" PROVE pc'[u] = "check" /\ request'[u].action = a
      BY <1>1, <1>3, <2>3
    <2> QED BY <1>2, <1>3, <2>1, <2>2, <2>3
  \* an entry about another action
  <1>4. ASSUME NEW phase \in {"PREPARED", "APPLIED", "ROLLED_BACK"}, Record(t, phase, indexes), UNCHANGED indexes
        PROVE  \E x \in Entries : ledger' = Append(ledger, x) /\ x.phase = phase /\ x.action = request[t].action
    <2> DEFINE x == [phase |-> phase, action |-> request[t].action, evidence |-> request[t].evidence,
                     mode |-> request[t].mode, after |-> indexes]
    <2>1. x \in Entries /\ x.phase = phase /\ x.action = request[t].action /\ ledger' = Append(ledger, x)
      BY <1>0, <1>4 DEF Record, Entries
    <2> QED BY <2>1
  <1>5. ASSUME NEW phase \in {"PREPARED", "APPLIED", "ROLLED_BACK"}, Record(t, phase, indexes), UNCHANGED indexes,
               phase = "APPLIED" => indexes[request[t].action] = "own",
               phase # "APPLIED" => indexes[request[t].action] # "own"
        PROVE  Goal
    <2>1. PICK x \in Entries : ledger' = Append(ledger, x) /\ x.phase = phase /\ x.action = request[t].action
      BY <1>4, <1>5
    <2>2. /\ LastOf(a)' \in 0..Len(ledger')
          /\ x.action = a => LastOf(a)' # 0 /\ ledger'[LastOf(a)'] = x
          /\ x.action # a => LastOf(a)' = LastOf(a) /\ (LastOf(a) # 0 => ledger'[LastOf(a)] = ledger[LastOf(a)])
      BY <1>0, <1>2, <2>1, LastEntered
    <2>3. CASE x.action = a
      BY <1>2, <1>5, <2>1, <2>2, <2>3
    <2>4. CASE x.action # a
      <3>1. \A u \in Tasks : request[u].action = a => pc'[u] = pc[u] /\ request'[u] = request[u]
        BY <1>1, <2>1, <2>4
      <3> QED BY <1>2, <1>5, <2>2, <2>4, <3>1
    <2> QED BY <2>3, <2>4
  <1> HIDE DEF Goal
  <1>6. ASSUME acquire(t) \/ require_current_approval(t) \/ verify_ownership(t) \/ before_state(t) PROVE Goal
    BY <1>3, <1>6 DEF acquire, require_current_approval, verify_ownership, before_state
  <1>7. ASSUME prepare(t) PROVE Goal
    <2>1. CASE Record(t, "PREPARED", indexes) /\ verify_preconditions(t)
      BY <1>5, <1>7, <2>1 DEF prepare, verify_preconditions
    <2>2. CASE UNCHANGED ledger
      BY <1>3, <1>7, <2>2 DEF prepare
    <2> QED BY <1>7, <2>1, <2>2 DEF prepare
  <1>8. ASSUME create_index(t) PROVE Goal
    <2>1. CASE request[t].action # a \/ UNCHANGED indexes
      BY <1>0, <1>3, <1>8, <2>1 DEF create_index, States
    <2>2. CASE request[t].action = a /\ ~UNCHANGED indexes
      <3>1. /\ indexes'[a] = "own" /\ pc'[t] = "observe" /\ request' = request /\ ledger' = ledger
        BY <1>0, <1>8, <2>2 DEF create_index, Goto, States
      <3>2. LastOf(a)' = LastOf(a)
        BY <3>1 DEF LastOf, SelectLastInSeq
      <3> QED BY <1>2, <2>2, <3>1, <3>2 DEF Goal
    <2> QED BY <2>1, <2>2
  <1>9. ASSUME applied(t) PROVE Goal
    <2>1. CASE verify_applied(t)
      BY <1>5, <1>9, <2>1 DEF applied, verify_applied
    <2>2. CASE ~verify_applied(t)
      BY <1>3, <1>9, <2>2 DEF applied, verify_applied
    <2> QED BY <2>1, <2>2
  <1>10. ASSUME drop_index(t) PROVE Goal
    <2>1. CASE request[t].action # a \/ UNCHANGED indexes
      BY <1>0, <1>3, <1>10, <2>1 DEF drop_index, States
    <2>2. CASE request[t].action = a /\ ~UNCHANGED indexes
      <3>1. /\ indexes'[a] = "absent" /\ pc'[t] = "check" /\ request' = request /\ ledger' = ledger
        BY <1>0, <1>10, <2>2 DEF drop_index, Goto, States
      <3>2. LastOf(a)' = LastOf(a)
        BY <3>1 DEF LastOf, SelectLastInSeq
      <3> QED BY <1>2, <2>2, <3>1, <3>2 DEF Goal
    <2> QED BY <2>1, <2>2
  <1>11. ASSUME rolled_back(t) PROVE Goal
    <2>1. CASE indexes[request[t].action] = "absent"
      BY <1>5, <1>11, <2>1 DEF rolled_back
    <2>2. CASE indexes[request[t].action] # "absent"
      <3>1. Others
        BY <1>2, <1>11, <2>2 DEF rolled_back
      <3> QED BY <1>3, <1>11, <2>2, <3>1 DEF rolled_back
    <2> QED BY <2>1, <2>2
  <1> QED BY <1>6, <1>7, <1>8, <1>9, <1>10, <1>11 DEF Deploying, RollingBack, Goal

\* A review, a request or the beginning of a call leaves both as they are
LEMMA UndisturbedBegins ==
    ASSUME DirectInv, Undisturbed, UNCHANGED <<ledger, indexes>>,
           \/ UNCHANGED <<pc, request>>
           \/ \E t \in Tasks : \E r, p : Call(t, r, p)
    PROVE  Undisturbed'
  <1>1. \A a : LastOf(a)' = LastOf(a)
    BY DEF LastOf, SelectLastInSeq
  <1>2. ASSUME NEW u \in Tasks, pc[u] # "idle" PROVE pc'[u] = pc[u] /\ request'[u] = request[u]
    BY <1>2 DEF DirectInv, DirectTypes, Call
  <1> QED BY <1>1, <1>2 DEF Undisturbed

\* Every step of the composition
LEMMA LedgeredStep == ASSUME LedgeredInv, [AllNext]_allvars PROVE LedgeredInv'
  <1>1. CASE UNCHANGED <<acting, vars>>
    <2>1. DirectInv'
      BY <1>1 DEF LedgeredInv, vars, DirectInv, DirectTypes, DeploysLocked, ApprovedStays, ReadsApproved, Approved, CreatesPrepared,
                  Prepared, DeploymentsInOrder, PreparedWasApproved, AppliedAnswersPrepared
    <2>2. Undisturbed => Undisturbed'
      BY <1>1, UndisturbedBegins DEF vars, LedgeredInv
    <2> QED BY <1>1, <2>1, <2>2 DEF LedgeredInv
  <1>2. CASE Next /\ UNCHANGED acting /\ (acting = "undisturbed" =>
                /\ ~\E a \in Actions : \E d \in {"absent", "human"} : human_edit(a, d)
                /\ ~\E t \in Tasks : adapter_raises(t))
    <2> USE DEF LedgeredInv
    <2>1. ASSUME NEW t \in Tasks, Deploying(t) \/ RollingBack(t) PROVE LedgeredInv'
      BY <1>2, <2>1, TaskSteps, UndisturbedStep
    <2>2. ASSUME NEW t \in Tasks, adapter_raises(t) PROVE LedgeredInv'
      BY <1>2, <2>2, TaskSteps
    <2>3. ASSUME NEW t \in Tasks,
                 \/ \E a \in Actions, e \in Evidence, mode \in Modes : deploy(t, a, e, mode)
                 \/ \E n \in DOMAIN ledger : rollback(t, n)
          PROVE LedgeredInv'
      <3>1. DirectInv'
        BY <2>3, CallSteps
      <3>2. \E r, p : Call(t, r, p)
        BY <2>3, Zenon DEF deploy, rollback
      <3>3. UNCHANGED <<ledger, indexes>>
        BY <3>2 DEF Call
      <3> QED BY <1>2, <3>1, <3>2, <3>3, UndisturbedBegins
    <2>4. ASSUME \/ \E a \in Actions, e \in Evidence : ask_approval(a, e)
                 \/ \E i \in DOMAIN approvals : approve(i) \/ expire(i)
          PROVE LedgeredInv'
      <3>1. DirectInv'
        BY <2>4, ApprovalSteps
      <3>2. UNCHANGED <<ledger, indexes, pc, request>>
        BY <2>4 DEF ask_approval, approve, expire
      <3> QED BY <1>2, <3>1, <3>2, UndisturbedBegins
    <2>5. ASSUME NEW a \in Actions, NEW d \in {"absent", "human"}, human_edit(a, d) PROVE LedgeredInv'
      <3>1. indexes' \in States /\ UNCHANGED <<approvals, ledger, holder, pc, request>>
        BY <2>5 DEF human_edit, DirectInv, DirectTypes, States
      <3>2. DirectInv'
        BY <3>1 DEF DirectInv, DirectTypes, DeploysLocked, ApprovedStays, ReadsApproved, Approved, CreatesPrepared,
                    Prepared, DeploymentsInOrder, PreparedWasApproved, AppliedAnswersPrepared
      <3> QED BY <1>2, <2>5, <3>2
    <2> QED BY <1>2, <2>1, <2>2, <2>3, <2>4, <2>5 DEF Next
  <1> QED BY <1>1, <1>2 DEF AllNext, allvars

\* deploy and rollback, with any number of tasks, calls, approvals that lapse and people at
\* the target: approved unless the mode of the call needs no approval, PREPARED, APPLIED, in
\* that order and under the lock; and when nobody
\* else changes the target and its adapter does not raise, the ledger tells at rest which
\* indexes are there.
THEOREM DeploymentsKeepTheLedger == AllSpec => []DeploymentsAreLedgered
  <1>1. AllInit => LedgeredInv
    <2> SUFFICES ASSUME AllInit PROVE LedgeredInv
      OBVIOUS
    <2>1. DirectInv
      BY DirectInitially DEF AllInit
    <2>2. Undisturbed
      <3>1. \A a \in Actions : LastOf(a) = 0
        BY DEF AllInit, Init, LastOf, SelectLastInSeq
      <3> QED BY <3>1 DEF AllInit, Init, AllAbsent, Undisturbed
    <2> QED BY <2>1, <2>2 DEF LedgeredInv
  <1>2. LedgeredInv => DeploymentsAreLedgered
    <2> SUFFICES ASSUME LedgeredInv, acting = "undisturbed" PROVE TargetIsAsLedgered
      BY DEF LedgeredInv, DirectInv, DeploymentsAreLedgered
    <2> QED BY DEF LedgeredInv, Undisturbed, TargetIsAsLedgered
  <1> QED BY <1>1, <1>2, LedgeredStep, PTL DEF AllSpec

-----------------------------------------------------------------------------
(* WorkloadShift *)

\* observe is called by one task at a time
ObservedInTurn == ~Overlap \/ \A s, t \in ShiftTasks : s = t

OneCall == \A s, t \in ShiftTasks : shift_pc[s] # "idle" /\ shift_pc[t] # "idle" => s = t

\* _consecutive_shift_windows: the breaches in a row, and no more of them
Counts ==
    /\ consecutive \in 0..Len(windows)
    /\ Shift!Sustained(Len(windows) - consecutive + 1, Len(windows))
    /\ consecutive < Len(windows) => ~windows[Len(windows) - consecutive]

\* _shift_episode_open: set once a request was accepted in the episode that still goes on,
\* but for a call that has not resumed
AcceptedHere == \E i \in Shift!Accepted : Shift!Sustained(i, Len(windows))
OpenIsAccepted == episode_open => AcceptedHere
AcceptedIsOpen == AcceptedHere => episode_open \/ \E t \in ShiftTasks : shift_pc[t] = "asked"

\* A call before and after its await is about the last window
Awaiting ==
    \A t \in ShiftTasks :
        /\ shift_pc[t] # "idle" => window[t] = Len(windows) /\ consecutive >= Required
        /\ shift_pc[t] = "asking" => ~episode_open
        /\ shift_pc[t] = "asked" => [at |-> window[t], accepted |-> TRUE] \in asked

ShiftInv ==
    Shift!TypeOK /\ OneCall /\ Counts /\ OpenIsAccepted /\ AcceptedIsOpen /\ Awaiting /\ Shift!EpisodesAskOnce
-----------------------------------------------------------------------------

\* Before the first window nothing is counted or asked
LEMMA ShiftInitially == ASSUME Shift!Init PROVE ShiftInv
  <1> USE InProcessConstants DEF Shift!ShiftConstants, Shift!Init
  <1>1. OneCall /\ Awaiting
    BY DEF OneCall, Awaiting
  <1>b. Shift!TypeOK
    <2>1. windows \in Seq(BOOLEAN) /\ Len(windows) = 0
      OBVIOUS
    <2>2. window \in [ShiftTasks -> 0..0] /\ asked \subseteq [at : 1..0, accepted : BOOLEAN]
      OBVIOUS
    <2> QED BY <2>1, <2>2 DEF Shift!TypeOK
  <1>a. Counts
    BY DEF Counts, Shift!Sustained
  <1>2. OpenIsAccepted /\ AcceptedIsOpen /\ Shift!EpisodesAskOnce
    BY DEF OpenIsAccepted, AcceptedIsOpen, AcceptedHere, Shift!EpisodesAskOnce, Shift!OncePerEpisode, Shift!Accepted
  <1> QED BY <1>1, <1>a, <1>b, <1>2 DEF ShiftInv

\* observe until it returns or asks: one more window is counted, and the episode goes on or ends
LEMMA ObserveStep ==
    ASSUME ShiftInv, ObservedInTurn, NEW t \in ShiftTasks, NEW o \in Observable, Shift!observe(t, o)
    PROVE  ShiftInv'
  <1> USE InProcessConstants DEF Shift!ShiftConstants
  <1>0. PICK b \in BOOLEAN : b = Shift!Breach(o)
    <2>1. Shift!Breach(o) \in BOOLEAN
      BY DEF Shift!Breach
    <2> QED BY <2>1, Zenon
  <1>1. PICK n \in Nat, count \in Nat, open \in BOOLEAN, p \in {"idle", "asking"} :
          /\ n = Len(windows) /\ consecutive' = count /\ episode_open' = open
          /\ count = (IF b THEN consecutive + 1 ELSE 0) /\ (open <=> episode_open /\ b)
          /\ p = (IF count >= Required /\ ~open THEN "asking" ELSE "idle")
          /\ windows' = Append(windows, b) /\ window' = [window EXCEPT ![t] = Len(windows')]
          /\ shift_pc' = [shift_pc EXCEPT ![t] = p] /\ asked' = asked
    <2>1. /\ Len(windows) \in Nat /\ consecutive \in Nat /\ episode_open \in BOOLEAN
      BY DEF ShiftInv, Shift!TypeOK
    <2>2. PICK open \in BOOLEAN : open = Shift!StaysOpen(o) /\ (open <=> episode_open /\ b)
      <3>1. Shift!StaysOpen(o) \in BOOLEAN /\ (Shift!StaysOpen(o) <=> episode_open /\ b)
        BY <1>0, <2>1 DEF Shift!StaysOpen
      <3> QED BY <3>1, Zenon
    <2>3. PICK count \in Nat : count = Shift!Counted(o) /\ count = (IF b THEN consecutive + 1 ELSE 0)
      BY <1>0, <2>1 DEF Shift!Counted
    <2>4. PICK p \in {"idle", "asking"} : p = (IF count >= Required /\ ~open THEN "asking" ELSE "idle")
      OBVIOUS
    <2>5. /\ consecutive' = count /\ episode_open' = open
          /\ windows' = Append(windows, b) /\ window' = [window EXCEPT ![t] = Len(windows')]
          /\ shift_pc' = [shift_pc EXCEPT ![t] = p] /\ asked' = asked
      BY <1>0, <2>2, <2>3, <2>4 DEF Shift!observe
    <2> QED BY <2>1, <2>2, <2>3, <2>4, <2>5
  <1>2. \A u \in ShiftTasks : shift_pc[u] = "idle"
    BY DEF ObservedInTurn, Shift!observe
  <1>3. /\ windows \in Seq(BOOLEAN) /\ windows' \in Seq(BOOLEAN) /\ Len(windows') = n + 1 /\ windows'[n + 1] = b
        /\ \A k \in 1..n : windows'[k] = windows[k]
    BY <1>1 DEF ShiftInv, Shift!TypeOK
  <1>4. /\ asked \subseteq [at : 1..n, accepted : BOOLEAN] /\ consecutive \in 0..n /\ Required \in Nat \ {0}
        /\ \A k \in (n - consecutive + 1)..n : windows[k]
        /\ consecutive < n => ~windows[n - consecutive]
    BY <1>1 DEF ShiftInv, Shift!TypeOK, Counts, Shift!Sustained
  <1>5. Shift!TypeOK'
    <2>1. window' \in [ShiftTasks -> 0..(n + 1)]
      BY <1>1, <1>3 DEF ShiftInv, Shift!TypeOK
    <2>2. asked' \subseteq [at : 1..(n + 1), accepted : BOOLEAN]
      BY <1>1, <1>4
    <2>3. shift_pc' \in [ShiftTasks -> {"idle", "asking", "asked"}]
      BY <1>1 DEF ShiftInv, Shift!TypeOK
    <2> QED BY <1>1, <1>3, <2>1, <2>2, <2>3 DEF Shift!TypeOK
  <1>6. OneCall'
    BY <1>1, <1>2 DEF OneCall, ShiftInv, Shift!TypeOK
  <1>7. Counts'
    <2>1. CASE b
      <3>1. count = consecutive + 1 /\ (n + 1) - count = n - consecutive /\ count \in 0..(n + 1)
        BY <1>1, <1>4, <2>1
      <3>2. \A k \in ((n + 1) - count + 1)..(n + 1) : windows'[k]
        <4>1. \A k \in ((n + 1) - count + 1)..(n + 1) : k = n + 1 \/ (k \in 1..n /\ k \in (n - consecutive + 1)..n)
          BY <1>4, <3>1
        <4> SUFFICES ASSUME NEW k \in ((n + 1) - count + 1)..(n + 1) PROVE windows'[k] = TRUE
          OBVIOUS
        <4>2. CASE k = n + 1
          BY <1>3, <2>1, <4>2
        <4>3. CASE k \in 1..n /\ k \in (n - consecutive + 1)..n
          <5>1. windows[k] = TRUE
            BY <1>3, <1>4, <4>3
          <5> QED BY <1>3, <4>3, <5>1
        <4> QED BY <4>1, <4>2, <4>3, Zenon
      <3>3. count < n + 1 => ~windows'[(n + 1) - count]
        BY <1>3, <1>4, <3>1, SMTT(30)
      <3> QED BY <1>1, <1>3, <3>1, <3>2, <3>3 DEF Counts, Shift!Sustained
    <2>2. CASE ~b
      <3>1. count = 0 /\ (n + 1) - count = n + 1 /\ (n + 2)..(n + 1) = {} /\ (n + 1) + 1 = n + 2 /\ count \in 0..(n + 1)
        BY <1>1, <2>2
      <3> QED BY <1>1, <1>3, <2>2, <3>1 DEF Counts, Shift!Sustained
    <2> QED BY <2>1, <2>2
  \* an episode is accepted after the window if it was before it, and the window continues it
  <1>8. AcceptedHere' <=> AcceptedHere /\ b
    <2>1. Shift!Accepted' = Shift!Accepted /\ Shift!Accepted \subseteq 1..n
      BY <1>1, <1>4 DEF Shift!Accepted
    <2>2. ASSUME NEW i \in 1..n PROVE Shift!Sustained(i, n + 1)' <=> Shift!Sustained(i, n) /\ b
      <3>1. n + 1 \in i..(n + 1) /\ \A k \in i..n : k \in 1..n /\ k \in i..(n + 1)
        BY <1>1
      <3>2. \A k \in i..(n + 1) : k = n + 1 \/ (k \in i..n /\ k \in 1..n)
        BY <1>1
      <3>3. ASSUME Shift!Sustained(i, n + 1)' PROVE Shift!Sustained(i, n) /\ b
        BY <1>3, <3>1, <3>3 DEF Shift!Sustained
      <3>4. ASSUME Shift!Sustained(i, n), b PROVE Shift!Sustained(i, n + 1)'
        BY <1>3, <3>2, <3>4 DEF Shift!Sustained
      <3> QED BY <3>3, <3>4
    <2> QED BY <1>1, <1>3, <2>1, <2>2 DEF AcceptedHere
  <1>9. AcceptedHere <=> episode_open
    BY <1>2 DEF ShiftInv, OpenIsAccepted, AcceptedIsOpen
  <1>10. OpenIsAccepted' /\ AcceptedIsOpen'
    BY <1>1, <1>8, <1>9 DEF OpenIsAccepted, AcceptedIsOpen
  <1>11. Awaiting'
    BY <1>1, <1>2, <1>3 DEF Awaiting, ShiftInv, Shift!TypeOK
  <1>12. Shift!EpisodesAskOnce'
    <2>1. \A i \in 1..n, j \in 1..n : Shift!Sustained(i, j)' <=> Shift!Sustained(i, j)
      BY <1>1, <1>3 DEF Shift!Sustained
    <2>2. ASSUME NEW q \in asked' PROVE q.at >= Required /\ Shift!Sustained(q.at - Required + 1, q.at)'
      <3>1. q \in asked /\ q.at \in 1..n /\ q.at >= Required /\ Shift!Sustained(q.at - Required + 1, q.at)
        BY <1>1, <1>4, <2>2 DEF ShiftInv, Shift!EpisodesAskOnce
      <3>2. q.at - Required + 1 \in 1..n
        BY <1>4, <3>1
      <3> QED BY <2>1, <3>1, <3>2
    <2>3. Shift!OncePerEpisode'
      <3>1. Shift!Accepted' = Shift!Accepted /\ Shift!Accepted \subseteq 1..n
        BY <1>1, <1>4 DEF Shift!Accepted
      <3> QED BY <2>1, <3>1 DEF ShiftInv, Shift!EpisodesAskOnce, Shift!OncePerEpisode
    <2>4. ASSUME \A u \in ShiftTasks : shift_pc'[u] = "idle", n + 1 >= Required, Shift!Sustained((n + 1) - Required + 1, n + 1)'
          PROVE  AcceptedHere'
      <3>1. p = "idle"
        BY <1>1, <2>4 DEF ShiftInv, Shift!TypeOK
      <3>2. b
        BY <1>3, <1>4, <2>4 DEF Shift!Sustained
      <3>3. CASE open
        BY <1>1, <1>8, <1>9, <3>2, <3>3
      <3>4. CASE ~open
        <4>1. count < Required /\ count = consecutive + 1
          BY <1>1, <1>4, <3>1, <3>2, <3>4
        <4>2. n - consecutive \in ((n + 1) - Required + 1)..(n + 1) /\ consecutive < n /\ n - consecutive \in 1..n
          BY <1>1, <1>4, <2>4, <4>1
        <4> QED BY <1>3, <1>4, <2>4, <4>2 DEF Shift!Sustained
      <3> QED BY <3>3, <3>4
    <2> QED BY <1>1, <1>3, <2>2, <2>3, <2>4 DEF Shift!EpisodesAskOnce, AcceptedHere
  <1> QED BY <1>5, <1>6, <1>7, <1>10, <1>11, <1>12 DEF ShiftInv

\* The scheduler answers the only call that awaits it: about the last window, of an episode
\* that no request was accepted of
LEMMA RequestStep ==
    ASSUME ShiftInv, NEW t \in ShiftTasks, NEW accepts \in BOOLEAN, Shift!request_reanalysis(t, accepts)
    PROVE  ShiftInv'
  <1> USE InProcessConstants DEF Shift!ShiftConstants
  <1>1. PICK n \in Nat : n = Len(windows)
    BY DEF ShiftInv, Shift!TypeOK
  <1> DEFINE q == [at |-> n, accepted |-> accepts]
             p == IF accepts THEN "asked" ELSE "idle"
  <1>2. /\ shift_pc[t] = "asking" /\ window[t] = n /\ consecutive >= Required /\ ~episode_open
        /\ asked' = asked \cup {q} /\ shift_pc' = [shift_pc EXCEPT ![t] = p]
        /\ UNCHANGED <<consecutive, episode_open, window, windows>>
    BY <1>1 DEF Shift!request_reanalysis, ShiftInv, Awaiting
  <1>3. /\ \A u \in ShiftTasks : u # t => shift_pc[u] = "idle" /\ shift_pc'[u] = "idle"
        /\ shift_pc'[t] = p /\ shift_pc' \in [ShiftTasks -> {"idle", "asking", "asked"}]
    BY <1>2 DEF ShiftInv, OneCall, Shift!TypeOK
  <1>4. ~AcceptedHere
    BY <1>2, <1>3 DEF ShiftInv, AcceptedIsOpen
  <1>5. /\ consecutive \in 0..n /\ Required \in Nat \ {0} /\ n \in 1..n /\ n - Required + 1 \in 1..n
        /\ asked \subseteq [at : 1..n, accepted : BOOLEAN]
        /\ \A k \in (n - consecutive + 1)..n : windows[k]
    BY <1>1, <1>2 DEF ShiftInv, Shift!TypeOK, Counts, Shift!Sustained
  <1>6. q \in [at : 1..n, accepted : BOOLEAN] /\ q.at = n /\ q.accepted = accepts
    BY <1>5
  <1>7. \A i, j : Shift!Sustained(i, j)' <=> Shift!Sustained(i, j)
    BY <1>2 DEF Shift!Sustained
  <1>8. Shift!Sustained(n, n) /\ Shift!Sustained(n - Required + 1, n)
    <2>1. \A k \in (n - Required + 1)..n : k \in (n - consecutive + 1)..n
      BY <1>2, <1>5
    <2>2. \A k \in n..n : k \in (n - consecutive + 1)..n
      BY <1>2, <1>5
    <2> QED BY <1>5, <2>1, <2>2 DEF Shift!Sustained
  <1>9. /\ accepts => Shift!Accepted' = Shift!Accepted \cup {n}
        /\ ~accepts => Shift!Accepted' = Shift!Accepted
    <2> HIDE DEF q
    <2>1. CASE accepts
      <3>1. ASSUME NEW x \in Shift!Accepted' PROVE x \in Shift!Accepted \cup {n}
        BY <1>2, <1>6 DEF Shift!Accepted
      <3>2. ASSUME NEW x \in Shift!Accepted \cup {n} PROVE x \in Shift!Accepted'
        <4>1. \E r \in asked' : r.accepted /\ x = r.at
          <5>1. CASE x = n
            BY <1>2, <1>6, <2>1, <5>1
          <5>2. CASE x \in Shift!Accepted
            BY <1>2, <5>2 DEF Shift!Accepted
          <5> QED BY <3>2, <5>1, <5>2
        <4> QED BY <4>1 DEF Shift!Accepted
      <3>3. Shift!Accepted' = Shift!Accepted \cup {n}
        BY <3>1, <3>2, Zenon
      <3> QED BY <2>1, <3>3
    <2>2. CASE ~accepts
      <3>1. ~q.accepted
        BY <1>6, <2>2
      <3>2. {a \in asked' : a.accepted} = {a \in asked : a.accepted}
        BY <1>2, <3>1
      <3>3. Shift!Accepted' = Shift!Accepted
        BY <3>2 DEF Shift!Accepted
      <3> QED BY <2>2, <3>3
    <2> QED BY <2>1, <2>2
  <1> HIDE DEF q
  <1>10. Shift!TypeOK'
    BY <1>1, <1>2, <1>3, <1>5, <1>6 DEF ShiftInv, Shift!TypeOK
  <1>11. OneCall' /\ Counts'
    BY <1>2, <1>3, <1>7 DEF ShiftInv, OneCall, Counts
  <1>12. OpenIsAccepted' /\ AcceptedIsOpen'
    <2>1. CASE accepts
      <3>1. shift_pc'[t] = "asked"
        BY <1>3, <2>1
      <3> QED BY <1>2, <3>1 DEF OpenIsAccepted, AcceptedIsOpen
    <2>2. CASE ~accepts
      BY <1>2, <1>4, <1>7, <1>9, <2>2 DEF OpenIsAccepted, AcceptedIsOpen, AcceptedHere
    <2> QED BY <2>1, <2>2
  <1>13. Awaiting'
    <2>1. accepts => [at |-> n, accepted |-> TRUE] \in asked'
      BY <1>2 DEF q
    <2> QED BY <1>1, <1>2, <1>3, <2>1 DEF Awaiting
  <1>14. Shift!EpisodesAskOnce'
    <2>1. ASSUME NEW r \in asked' PROVE r.at >= Required /\ Shift!Sustained(r.at - Required + 1, r.at)'
      <3>1. CASE r \in asked
        BY <1>7, <3>1 DEF ShiftInv, Shift!EpisodesAskOnce
      <3>2. CASE r = q
        BY <1>2, <1>5, <1>6, <1>7, <1>8, <3>2
      <3> QED BY <1>2, <2>1, <3>1, <3>2
    <2>2. Shift!OncePerEpisode'
      <3> SUFFICES ASSUME NEW i \in Shift!Accepted', NEW j \in Shift!Accepted', i < j, Shift!Sustained(i, j) PROVE FALSE
        BY <1>7 DEF Shift!OncePerEpisode
      <3>1. Shift!Accepted \subseteq 1..n
        BY <1>5 DEF Shift!Accepted
      <3>2. i \in Shift!Accepted /\ i < n
        BY <1>9, <3>1
      <3>3. j \in Shift!Accepted \/ j = n
        BY <1>9
      <3>4. CASE j \in Shift!Accepted
        BY <3>2, <3>4 DEF ShiftInv, Shift!EpisodesAskOnce, Shift!OncePerEpisode
      <3>5. CASE j = n
        BY <1>1, <1>4, <3>2, <3>5 DEF AcceptedHere
      <3> QED BY <3>3, <3>4, <3>5
    <2>3. CASE accepts
      <3>1. shift_pc'[t] # "idle"
        BY <1>3, <2>3
      <3> QED BY <2>1, <2>2, <3>1 DEF Shift!EpisodesAskOnce
    <2>4. CASE ~accepts
      <3>1. [at |-> n, accepted |-> FALSE] \in asked'
        BY <1>2, <2>4 DEF q
      <3> QED BY <1>1, <1>2, <2>1, <2>2, <3>1 DEF Shift!EpisodesAskOnce
    <2> QED BY <2>3, <2>4
  <1> QED BY <1>10, <1>11, <1>12, <1>13, <1>14 DEF ShiftInv

\* observe after its await: the episode is marked while it still goes on
LEMMA ResumeStep ==
    ASSUME ShiftInv, NEW t \in ShiftTasks, Shift!resume(t)
    PROVE  ShiftInv'
  <1> USE InProcessConstants DEF Shift!ShiftConstants
  <1>1. PICK n \in Nat : n = Len(windows)
    BY DEF ShiftInv, Shift!TypeOK
  <1>2. /\ shift_pc[t] = "asked" /\ window[t] = n /\ consecutive >= Required /\ [at |-> n, accepted |-> TRUE] \in asked
        /\ shift_pc' = [shift_pc EXCEPT ![t] = "idle"] /\ episode_open' = TRUE
        /\ UNCHANGED <<consecutive, window, windows, asked>>
    BY <1>1 DEF Shift!resume, ShiftInv, Awaiting
  <1>3. /\ \A u \in ShiftTasks : shift_pc'[u] = "idle"
        /\ shift_pc' \in [ShiftTasks -> {"idle", "asking", "asked"}]
    BY <1>2 DEF ShiftInv, OneCall, Shift!TypeOK
  <1>4. AcceptedHere
    <2>1. n \in Shift!Accepted
      BY <1>2 DEF Shift!Accepted
    <2>2. consecutive \in 0..n /\ Required \in Nat \ {0} /\ \A k \in (n - consecutive + 1)..n : windows[k]
      BY <1>1 DEF ShiftInv, Counts, Shift!Sustained
    <2>3. \A k \in n..n : k \in (n - consecutive + 1)..n
      BY <1>2, <2>2
    <2> QED BY <1>1, <2>1, <2>2, <2>3 DEF AcceptedHere, Shift!Sustained
  <1>5. AcceptedHere' /\ \A i, j : Shift!Sustained(i, j)' <=> Shift!Sustained(i, j)
    BY <1>2, <1>4 DEF AcceptedHere, Shift!Sustained, Shift!Accepted
  <1>6. Shift!TypeOK' /\ OneCall' /\ Counts' /\ OpenIsAccepted' /\ AcceptedIsOpen' /\ Awaiting'
    BY <1>2, <1>3, <1>5 DEF ShiftInv, Shift!TypeOK, OneCall, Counts, OpenIsAccepted, AcceptedIsOpen, Awaiting
  <1>7. Shift!EpisodesAskOnce'
    BY <1>2, <1>5 DEF ShiftInv, Shift!EpisodesAskOnce, Shift!OncePerEpisode, Shift!Accepted, AcceptedHere
  <1> QED BY <1>6, <1>7 DEF ShiftInv

\* observe, "request re-analysis once for a sustained shift episode": for every baseline,
\* threshold and number of windows required, when it is called by one task at a time, as a
\* loop that awaits each call does: not early, not twice, and not never, whichever requests raise.
THEOREM EpisodesAreAskedOnce ==
    ASSUME ObservedInTurn
    PROVE  Shift!Spec => []EpisodesAskOnce
  <1>1. ShiftInv /\ [Shift!Next]_(Shift!vars) => ShiftInv'
    <2> SUFFICES ASSUME ShiftInv, [Shift!Next]_(Shift!vars) PROVE ShiftInv'
      OBVIOUS
    <2>1. CASE UNCHANGED Shift!vars
      BY <2>1 DEF Shift!vars, ShiftInv, Shift!TypeOK, OneCall, Counts, OpenIsAccepted, AcceptedIsOpen, Awaiting, AcceptedHere,
                  Shift!Accepted, Shift!Sustained, Shift!EpisodesAskOnce, Shift!OncePerEpisode
    <2>2. CASE Shift!Next
      BY <2>2, ObserveStep, RequestStep, ResumeStep DEF Shift!Next
    <2> QED BY <2>1, <2>2
  <1>2. ShiftInv => EpisodesAskOnce
    BY DEF ShiftInv, EpisodesAskOnce
  <1> QED BY <1>1, <1>2, ShiftInitially, PTL DEF Shift!Spec

-----------------------------------------------------------------------------
(* TrialEvidence *)

\* The trials of a run are executed by one worker at a time
ExecutedInTurn == ~Overlap \/ \A v, w \in Executors : v = w

OneExecution == \A v, w \in Executors : trial_pc[v] # "idle" /\ trial_pc[w] # "idle" => v = w

\* The query of an execution lists every candidate once
ListsAll(o) ==
    /\ o \in Seq(TrialCandidates) /\ Len(o) \in Nat \ {0}
    /\ \A i, j \in 1..Len(o) : o[i] = o[j] => i = j
    /\ \A c \in TrialCandidates : \E i \in 1..Len(o) : o[i] = c
Listed(w) == trial_pc[w] # "idle" => ListsAll(order[w]) /\ at[w] \in 1..Len(order[w])

TrialTypes ==
    /\ run \in {"EVALUATING", "ADMISSION"}
    /\ evaluations \in Seq(Trial!Evaluation) /\ pairs \subseteq Trial!Pair /\ trial_indexes \subseteq TrialCandidates
    /\ trial_pc \in [Executors -> Trial!Points] /\ order \in [Executors -> Seq(TrialCandidates)]
    /\ at \in [Executors -> Nat \ {0}] /\ pair \in [Executors -> Trial!Numbers]
    /\ arms \in [Executors -> [baseline : Trial!Seen, candidate : Trial!Seen]]

\* A candidate has one evaluation, and one that is to be inserted has none
OneEvaluation ==
    /\ \A d, e \in DOMAIN evaluations : evaluations[d].candidate = evaluations[e].candidate => d = e
    /\ \A w \in Executors : trial_pc[w] = "insert" => Trial!Of(Trial!Candidate(w)) = {}

\* record_pair: an evaluation has one pair of a number
OnePair == \A p, q \in pairs : p.evaluation = q.evaluation /\ p.number = q.number => p = q

Measured(c) == Trial!Recorded(c) = Trial!Numbers

\* An execution has passed only what is recorded
PassedBy(w) ==
    trial_pc[w] # "idle" =>
        /\ \A i \in 1..(at[w] - 1) : Measured(order[w][i])
        /\ IF trial_pc[w] \in {"clean", "complete", "transition"} THEN Measured(Trial!Candidate(w))
           ELSE \A k \in 1..(pair[w] - 1) : k \in Trial!Recorded(Trial!Candidate(w))
        /\ trial_pc[w] = "transition" => at[w] = Len(order[w])

\* Behind an execution there is no index
Behind(w) ==
    trial_pc[w] # "idle" =>
        /\ \A j \in 1..(at[w] - 1) : order[w][j] \notin trial_indexes
        /\ trial_pc[w] \in {"complete", "transition"} => Trial!Candidate(w) \notin trial_indexes

\* Whatever others left on the collection, an execution adds and drops its own index alone
Armed(w) ==
    /\ trial_pc[w] = "baseline" /\ pair[w] \notin BA => Trial!Candidate(w) \notin trial_indexes
    /\ trial_pc[w] = "candidate" => Trial!Candidate(w) \in trial_indexes
    /\ trial_pc[w] \in {"create", "candidate"} /\ pair[w] \notin BA => arms[w].baseline = trial_indexes \ {Trial!Candidate(w)}
    /\ trial_pc[w] = "baseline" /\ pair[w] \in BA => arms[w].candidate = trial_indexes \cup {Trial!Candidate(w)}
    /\ trial_pc[w] \in {"record", "insert"} =>
          /\ Trial!Candidate(w) \notin arms[w].baseline
          /\ arms[w].candidate = arms[w].baseline \cup {Trial!Candidate(w)}

\* A run that went on is left by its execution
LeftAtAdmission == run = "ADMISSION" => trial_indexes = {} /\ \A w \in Executors : trial_pc[w] = "idle"

Executed == \A w \in Executors : Listed(w) /\ PassedBy(w) /\ Behind(w) /\ Armed(w)

TrialInv ==
    /\ TrialTypes /\ OneExecution /\ OneEvaluation /\ OnePair
    /\ Executed /\ LeftAtAdmission /\ Trial!CompleteEvidence /\ Trial!ArmsDifferInTheIndex
-----------------------------------------------------------------------------

\* What is recorded stays recorded while rows are only added and marked
LEMMA RecordedGrows ==
    ASSUME TrialTypes', \A e \in DOMAIN evaluations : e \in DOMAIN evaluations' /\ evaluations'[e].candidate = evaluations[e].candidate,
           pairs \subseteq pairs'
    PROVE  \A c : Trial!Recorded(c) \subseteq Trial!Recorded(c)' /\ (Measured(c) => Measured(c)')
  <1> SUFFICES ASSUME NEW c PROVE Trial!Recorded(c) \subseteq Trial!Recorded(c)' /\ (Measured(c) => Measured(c)')
    OBVIOUS
  <1>1. Trial!Of(c) \subseteq Trial!Of(c)'
    BY DEF Trial!Of
  <1>2. Trial!PairsOf(c) \subseteq Trial!PairsOf(c)'
    BY <1>1 DEF Trial!PairsOf
  <1>3. Trial!Recorded(c) \subseteq Trial!Recorded(c)'
    BY <1>2 DEF Trial!Recorded
  <1>4. Trial!Recorded(c)' \subseteq Trial!Numbers
    BY DEF Trial!Recorded, Trial!PairsOf, TrialTypes, Trial!Pair, Trial!Numbers
  <1> QED BY <1>3, <1>4 DEF Measured, Trial!Numbers

\* and stays as it is while none is added
LEMMA RecordedStays ==
    ASSUME UNCHANGED pairs, DOMAIN evaluations' = DOMAIN evaluations,
           \A e \in DOMAIN evaluations : evaluations'[e].candidate = evaluations[e].candidate
    PROVE  \A c : Trial!Of(c)' = Trial!Of(c) /\ Trial!Recorded(c)' = Trial!Recorded(c) /\ (Measured(c)' <=> Measured(c))
  BY DEF Measured, Trial!Recorded, Trial!PairsOf, Trial!Of, Trial!Numbers

\* The number of candidates in the query for them is the one the library's facts are about
LEMMA SameCardinality ==
    ASSUME NEW S
    PROVE  (Trial!IsFiniteSet(S) <=> IsFiniteSet(S)) /\ Trial!Cardinality(S) = Cardinality(S)
  <1>1. Trial!IsFiniteSet(S) <=> IsFiniteSet(S)
    BY DEF Trial!IsFiniteSet, IsFiniteSet
  <1>2. Trial!Cardinality(S) = Cardinality(S)
    BY DEF Trial!Cardinality, Cardinality
  <1> QED BY <1>1, <1>2

\* SetToSeqs: what the query may answer
LEMMA QueryListsAll == ASSUME NEW o \in Trial!SetToSeqs(TrialCandidates) PROVE ListsAll(o)
  <1> USE InProcessConstants DEF Trial!TrialConstants
  <1> DEFINE n == Cardinality(TrialCandidates)
  <1> HIDE DEF n
  <1>a. IsFiniteSet(TrialCandidates) /\ TrialCandidates # {}
    BY SameCardinality
  <1>1. n \in Nat \ {0}
    <2>1. n \in Nat
      BY <1>a, FS_CardinalityType DEF n
    <2>2. n # 0
      BY <1>a, FS_EmptySet DEF n
    <2> QED BY <2>1, <2>2
  <1>2. o \in [1..n -> TrialCandidates] /\ \A i, j \in 1..n : o[i] = o[j] => i = j
    <2>1. o \in {f \in [1..n -> TrialCandidates] : \A i, j \in 1..n : i # j => f[i] # f[j]}
      BY SameCardinality DEF Trial!SetToSeqs, n
    <2> QED BY <2>1
  <1>3. o \in Surjection(1..n, TrialCandidates)
    <2>1. o \in Injection(1..n, TrialCandidates)
      BY <1>2 DEF Injection, IsInjective
    <2>2. Cardinality(1..n) = n
      BY <1>1, FS_Interval
    <2>3. Cardinality(1..n) = Cardinality(TrialCandidates) <=> o \in Surjection(1..n, TrialCandidates)
      BY <1>a, <2>1, FS_Injection
    <2> QED BY <2>2, <2>3 DEF n
  <1>4. o \in Seq(TrialCandidates) /\ Len(o) = n
    BY <1>1, <1>2
  <1> QED BY <1>1, <1>2, <1>3, <1>4 DEF ListsAll, Surjection

\* Before the first execution
LEMMA TrialInitially == ASSUME Trial!Init PROVE TrialInv
  <1> USE InProcessConstants DEF Trial!TrialConstants, Trial!Init
  <1>1. TrialTypes
    BY DEF TrialTypes, Trial!Points, Trial!Numbers, Trial!Seen, Trial!Pair, Trial!Evaluation
  <1>2. OneExecution /\ OneEvaluation /\ OnePair /\ Executed /\ LeftAtAdmission
    BY DEF OneExecution, OneEvaluation, OnePair, Executed, Listed, PassedBy, Behind, Armed, LeftAtAdmission
  <1>3. Trial!CompleteEvidence /\ Trial!ArmsDifferInTheIndex
    BY DEF Trial!CompleteEvidence, Trial!ArmsDifferInTheIndex
  <1> QED BY <1>1, <1>2, <1>3 DEF TrialInv

\* The other workers do nothing while one executes, and only before the transition
LEMMA OthersIdle ==
    ASSUME TrialInv, NEW w \in Executors, trial_pc[w] # "idle"
    PROVE  run = "EVALUATING" /\ \A v \in Executors \ {w} : trial_pc[v] = "idle"
  BY DEF TrialInv, OneExecution, LeftAtAdmission, TrialTypes

\* An execution is at one of the candidates it lists
LEMMA ListedAt ==
    ASSUME TrialInv, NEW w \in Executors, trial_pc[w] # "idle"
    PROVE  /\ ListsAll(order[w]) /\ at[w] \in 1..Len(order[w]) /\ Len(order[w]) \in Nat \ {0}
           /\ Trial!Candidate(w) \in TrialCandidates
  <1>1. ListsAll(order[w]) /\ at[w] \in 1..Len(order[w])
    BY DEF TrialInv, Executed, Listed
  <1>2. order[w] \in Seq(TrialCandidates) /\ Len(order[w]) \in Nat \ {0}
    BY <1>1 DEF ListsAll
  <1> QED BY <1>1, <1>2 DEF Trial!Candidate

\* A step that adds neither an evaluation nor a pair
LEMMA NothingRecorded ==
    ASSUME TrialInv, NEW w \in Executors, \A v \in Executors \ {w} : trial_pc[v] = "idle" /\ trial_pc'[v] = "idle",
           UNCHANGED pairs, DOMAIN evaluations' = DOMAIN evaluations, evaluations' \in Seq(Trial!Evaluation),
           \A e \in DOMAIN evaluations : evaluations'[e].candidate = evaluations[e].candidate,
           run' \in {"EVALUATING", "ADMISSION"}, trial_indexes' \subseteq TrialCandidates,
           trial_pc' \in [Executors -> Trial!Points], order' \in [Executors -> Seq(TrialCandidates)], at' \in [Executors -> Nat \ {0}],
           pair' \in [Executors -> Trial!Numbers], arms' \in [Executors -> [baseline : Trial!Seen, candidate : Trial!Seen]],
           trial_pc'[w] = "insert" => Trial!Of(order'[w][at'[w]]) = {},
           Listed(w)', PassedBy(w)', Behind(w)', Armed(w)', LeftAtAdmission', Trial!CompleteEvidence'
    PROVE  TrialInv'
  <1>1. \A c : Trial!Of(c)' = Trial!Of(c)
    BY RecordedStays
  <1>2. TrialTypes'
    BY DEF TrialInv, TrialTypes, Trial!Pair, Trial!Evaluation, Trial!Seen
  <1>4. OneExecution'
    BY DEF OneExecution
  <1>5. OneEvaluation'
    <2>1. \A v \in Executors : trial_pc'[v] = "insert" => Trial!Of(Trial!Candidate(v))' = {}
      <3> SUFFICES ASSUME NEW v \in Executors, trial_pc'[v] = "insert" PROVE Trial!Of(Trial!Candidate(v))' = {}
        OBVIOUS
      <3>1. v = w
        OBVIOUS
      <3> QED BY <3>1 DEF Trial!Of, Trial!Candidate
    <2> QED BY <2>1 DEF TrialInv, OneEvaluation
  <1>6. OnePair'
    BY DEF TrialInv, OnePair
  <1>7. Executed'
    <2> SUFFICES ASSUME NEW v \in Executors PROVE Listed(v)' /\ PassedBy(v)' /\ Behind(v)' /\ Armed(v)'
      BY DEF Executed
    <2>1. CASE v = w
      BY <2>1
    <2>2. CASE v # w
      BY <2>2 DEF Listed, PassedBy, Behind, Armed
    <2> QED BY <2>1, <2>2
  <1>8. Trial!ArmsDifferInTheIndex'
    BY DEF TrialInv, TrialTypes, Trial!ArmsDifferInTheIndex, Trial!Pair
  <1> QED BY <1>2, <1>4, <1>5, <1>6, <1>7, <1>8 DEF TrialInv

\* A step that records the pair an execution works on, which was not recorded
LEMMA PairIsRecorded ==
    ASSUME TrialInv, NEW w \in Executors, trial_pc[w] \in {"record", "insert"},
           NEW e \in DOMAIN evaluations', evaluations' \in Seq(Trial!Evaluation),
           evaluations'[e].candidate = Trial!Candidate(w), evaluations'[e].status = "MEASURING" \/ e \in DOMAIN evaluations,
           DOMAIN evaluations \subseteq DOMAIN evaluations', DOMAIN evaluations' \subseteq DOMAIN evaluations \cup {e},
           \A d \in DOMAIN evaluations : evaluations'[d] = evaluations[d],
           \A d \in DOMAIN evaluations' : evaluations'[d].candidate = Trial!Candidate(w) => d = e,
           pair[w] \notin Trial!Recorded(Trial!Candidate(w)),
           \A p \in pairs : p.evaluation = e => p.number # pair[w],
           pairs' = pairs \cup {Trial!Measured(w, e)}, Trial!NextPair(w), UNCHANGED <<run, trial_indexes, arms>>
    PROVE  TrialInv'
  <1> DEFINE c == Trial!Candidate(w)
             p == Trial!Measured(w, e)
  <1>o. run = "EVALUATING" /\ \A v \in Executors \ {w} : trial_pc[v] = "idle"
    BY OthersIdle
  <1>0. /\ trial_pc \in [Executors -> Trial!Points] /\ Listed(w) /\ at[w] \in 1..Len(order[w]) /\ pair[w] \in Trial!Numbers /\ Pairs \in Nat \ {0}
        /\ Len(order[w]) \in Nat \ {0} /\ c \in TrialCandidates /\ Trial!Candidate(w)' = c
        /\ pair \in [Executors -> Trial!Numbers]
    <2>1. Listed(w)
      BY DEF TrialInv, Executed
    <2>2. UNCHANGED <<order, at>>
      BY DEF Trial!NextPair
    <2>3. Trial!Candidate(w)' = c
      BY <2>2 DEF Trial!Candidate
    <2> QED BY <2>1, <2>3, ListedAt, InProcessConstants DEF TrialInv, TrialTypes, Trial!TrialConstants
  <1>a. c \notin arms[w].baseline /\ arms[w].candidate = arms[w].baseline \cup {c}
    BY <1>0 DEF TrialInv, Executed, Armed
  <1>b. arms[w].baseline \in Trial!Seen /\ arms[w].candidate \in Trial!Seen
    BY DEF TrialInv, TrialTypes
  <1>p. /\ p.evaluation = e /\ p.number = pair[w] /\ p \in Trial!Pair'
        /\ c \notin p.baseline /\ p.candidate = p.baseline \cup {c}
    BY <1>a, <1>b, <1>0 DEF Trial!Measured, Trial!Pair, Trial!Seen
  <1>1. TrialTypes'
    <2>1. pairs' \subseteq Trial!Pair'
      BY <1>p DEF TrialInv, TrialTypes, Trial!Pair
    <2>2. trial_pc' \in [Executors -> Trial!Points] /\ pair' \in [Executors -> Trial!Numbers] /\ at' = at /\ order' = order
      BY <1>0 DEF Trial!NextPair, Trial!Points, Trial!Numbers
    <2> QED BY <2>1, <2>2 DEF TrialInv, TrialTypes, Trial!Seen, Trial!Evaluation
  <1>2. order' = order
    BY DEF Trial!NextPair
  <1>3. /\ \A v \in Executors \ {w} : trial_pc'[v] = "idle"
        /\ trial_pc'[w] = IF pair[w] < Pairs THEN "drop" ELSE "clean"
        /\ pair'[w] = IF pair[w] < Pairs THEN pair[w] + 1 ELSE pair[w]
        /\ at' = at
    BY <1>o, <1>0 DEF Trial!NextPair
  <1>4. OneExecution'
    BY <1>3 DEF OneExecution
  <1>5. OneEvaluation'
    BY <1>3, Zenon DEF TrialInv, OneEvaluation
  <1>6. OnePair'
    BY <1>p DEF TrialInv, OnePair
  <1>7. \A d : Trial!Recorded(d) \subseteq Trial!Recorded(d)' /\ (Measured(d) => Measured(d)')
    BY <1>1, RecordedGrows
  <1>8. pair[w] \in Trial!Recorded(c)'
    <2>1. e \in Trial!Of(c)'
      BY <1>0 DEF Trial!Of
    <2>2. p \in Trial!PairsOf(c)'
      BY <2>1, <1>p DEF Trial!PairsOf
    <2> QED BY <2>2, <1>p DEF Trial!Recorded
  <1>9. PassedBy(w)'
    <2>1. \A i \in 1..(at[w] - 1) : Measured(order[w][i])'
      BY <1>2, <1>7, <1>0 DEF TrialInv, Executed, PassedBy
    <2>2. \A k \in 1..pair[w] : k \in Trial!Recorded(c)'
      <3> SUFFICES ASSUME NEW k \in 1..pair[w] PROVE k \in Trial!Recorded(c)'
        OBVIOUS
      <3>1. CASE k = pair[w]
        BY <3>1, <1>8
      <3>2. CASE k # pair[w]
        <4>1. k \in 1..(pair[w] - 1)
          BY <3>2, <1>0 DEF Trial!Numbers
        <4>2. k \in Trial!Recorded(c)
          BY <4>1 DEF TrialInv, Executed, PassedBy
        <4> QED BY <4>2, <1>7, <1>0
      <3> QED BY <3>1, <3>2
    <2>3. ASSUME ~(pair[w] < Pairs) PROVE Measured(c)'
      <3>1. pair[w] = Pairs
        BY <2>3, <1>0 DEF Trial!Numbers
      <3>2. Trial!Numbers \subseteq Trial!Recorded(c)'
        BY <3>1, <2>2 DEF Trial!Numbers
      <3>3. Trial!Recorded(c)' \subseteq Trial!Numbers
        BY <1>1 DEF Trial!Recorded, Trial!PairsOf, TrialTypes, Trial!Pair, Trial!Numbers
      <3> QED BY <3>2, <3>3 DEF Measured, Trial!Numbers
    <2>4. CASE pair[w] < Pairs
      <3>1. /\ pair'[w] = pair[w] + 1 /\ trial_pc'[w] = "drop" /\ at'[w] = at[w] /\ Trial!Candidate(w)' = c
            /\ order'[w] = order[w]
        BY <2>4, <1>0, <1>2, <1>3
      <3>2. pair'[w] - 1 = pair[w]
        BY <3>1, <1>0 DEF Trial!Numbers
      <3>3. \A k \in 1..(pair'[w] - 1) : k \in Trial!Recorded(Trial!Candidate(w))'
        BY <2>2, <3>1, <3>2
      <3> QED BY <2>1, <3>1, <3>3 DEF PassedBy
    <2>5. CASE ~(pair[w] < Pairs)
      BY <2>5, <2>1, <2>3, <1>2, <1>3, <1>0 DEF PassedBy
    <2> QED BY <2>4, <2>5
  <1>10. Listed(w)' /\ Behind(w)' /\ Armed(w)'
    BY <1>2, <1>3, <1>0 DEF Listed, TrialInv, Executed, Behind, Armed, Trial!Candidate
  <1>11. Executed'
    <2> SUFFICES ASSUME NEW v \in Executors PROVE Listed(v)' /\ PassedBy(v)' /\ Behind(v)' /\ Armed(v)'
      BY DEF Executed
    <2>1. CASE v = w
      BY <2>1, <1>9, <1>10
    <2>2. CASE v # w
      BY <2>2, <1>3 DEF Listed, PassedBy, Behind, Armed
    <2> QED BY <2>1, <2>2
  <1>13. LeftAtAdmission'
    BY <1>o DEF LeftAtAdmission
  <1>14. Trial!CompleteEvidence'
    <2> SUFFICES ASSUME NEW d \in DOMAIN evaluations', evaluations'[d].status = "COMPLETED" PROVE Measured(evaluations[d].candidate)'
      BY <1>o DEF Trial!CompleteEvidence, Measured
    <2>1. d \in DOMAIN evaluations /\ evaluations'[d] = evaluations[d]
      OBVIOUS
    <2>2. Measured(evaluations[d].candidate)
      BY <2>1 DEF TrialInv, Trial!CompleteEvidence, Measured
    <2> QED BY <2>1, <2>2, <1>7
  <1>15. Trial!ArmsDifferInTheIndex'
    BY <1>p DEF TrialInv, TrialTypes, Trial!Pair, Trial!ArmsDifferInTheIndex
  <1> QED BY <1>1, <1>4, <1>5, <1>6, <1>11, <1>13, <1>14, <1>15 DEF TrialInv

\* What a step of an execution starts from
Executing(w) ==
    /\ run = "EVALUATING" /\ \A v \in Executors \ {w} : trial_pc[v] = "idle"
    /\ trial_pc \in [Executors -> Trial!Points] /\ order \in [Executors -> Seq(TrialCandidates)]
    /\ at \in [Executors -> Nat \ {0}] /\ Listed(w) /\ at[w] \in 1..Len(order[w]) /\ pair \in [Executors -> Trial!Numbers]
    /\ arms \in [Executors -> [baseline : Trial!Seen, candidate : Trial!Seen]]
    /\ Len(order[w]) \in Nat \ {0} /\ Trial!Candidate(w) \in TrialCandidates /\ trial_indexes \subseteq TrialCandidates
    /\ Pairs \in Nat \ {0} /\ evaluations \in Seq(Trial!Evaluation)

LEMMA ExecutingTypes ==
    ASSUME TrialInv, NEW w \in Executors, trial_pc[w] # "idle"
    PROVE  Executing(w)
  <1>1. Listed(w)
    BY DEF TrialInv, Executed
  <1> QED BY <1>1, OthersIdle, ListedAt, InProcessConstants DEF Executing, TrialInv, TrialTypes, Trial!TrialConstants

\* The steps around a measurement leave the rows alone, and of the indexes all but their own
Arming(w) ==
    /\ UNCHANGED <<run, evaluations, pairs, order, at, pair>>
    /\ trial_pc' \in [Executors -> Trial!Points] /\ \A v \in Executors \ {w} : trial_pc'[v] = "idle"
    /\ trial_indexes' \in {trial_indexes, trial_indexes \cup {Trial!Candidate(w)}, trial_indexes \ {Trial!Candidate(w)}}
    /\ arms' \in [Executors -> [baseline : Trial!Seen, candidate : Trial!Seen]]

\* and go through the points of a pair in the order of its arms.
LEMMA ArmingKeeps ==
    ASSUME TrialInv, NEW w \in Executors, trial_pc[w] # "idle", Arming(w),
           trial_pc'[w] \in {"idle", "drop", "baseline", "create", "candidate", "record", "insert", "complete"},
           trial_pc'[w] = "insert" => Trial!Of(Trial!Candidate(w)) = {},
           trial_pc'[w] = "complete" => trial_pc[w] = "clean" /\ Trial!Candidate(w) \notin trial_indexes',
           Armed(w)'
    PROVE  TrialInv'
  <1>0. Executing(w)
    BY ExecutingTypes
  <1> USE <1>0 DEF Executing, Arming
  <1>1. trial_indexes' \subseteq TrialCandidates /\ Trial!Candidate(w)' = Trial!Candidate(w)
    BY DEF Trial!Candidate
  <1>2. \A d : Trial!Recorded(d)' = Trial!Recorded(d) /\ (Measured(d)' <=> Measured(d))
    BY RecordedStays
  <1>3. PassedBy(w)'
    <2>1. PassedBy(w)
      BY DEF TrialInv, Executed
    <2>2. \A i \in 1..(at[w] - 1) : Measured(order[w][i])'
      BY <2>1, <1>2 DEF PassedBy
    <2>3. trial_pc'[w] = "complete" => Measured(Trial!Candidate(w))'
      BY <2>1, <1>1, <1>2 DEF PassedBy
    <2>4. trial_pc'[w] # "complete" => \A k \in 1..(pair[w] - 1) : k \in Trial!Recorded(Trial!Candidate(w))'
      <3>1. CASE trial_pc[w] \in {"clean", "complete", "transition"}
        BY <3>1, <2>1, <1>1, <1>2 DEF PassedBy, Measured, Trial!Numbers
      <3>2. CASE trial_pc[w] \notin {"clean", "complete", "transition"}
        BY <3>2, <2>1, <1>1, <1>2 DEF PassedBy
      <3> QED BY <3>1, <3>2
    <2> QED BY <2>2, <2>3, <2>4 DEF PassedBy
  <1>4. Behind(w)'
    <2>1. \A j \in 1..(at[w] - 1) : order[w][j] \notin trial_indexes /\ order[w][j] # Trial!Candidate(w)
      <3>1. Behind(w) /\ ListsAll(order[w])
        BY ListedAt DEF TrialInv, Executed
      <3>2. \A j \in 1..(at[w] - 1) : order[w][j] \notin trial_indexes
        BY <3>1 DEF Behind
      <3>3. \A j \in 1..(at[w] - 1) : j \in 1..Len(order[w]) /\ j # at[w]
        OBVIOUS
      <3> HIDE DEF Executing, Arming
      <3>4. \A j \in 1..(at[w] - 1) : order[w][j] # order[w][at[w]]
        BY <3>1, <3>3, ListedAt DEF ListsAll
      <3> QED BY <3>2, <3>4 DEF Trial!Candidate
    <2> QED BY <2>1, <1>1 DEF Behind
  <1>6. LeftAtAdmission' /\ Trial!CompleteEvidence'
    BY <1>2 DEF LeftAtAdmission, TrialInv, Trial!CompleteEvidence, Measured
  <1>7. Listed(w)'
    BY DEF Listed
  <1> QED BY <1>1, <1>3, <1>4, <1>6, <1>7, NothingRecorded DEF Trial!Candidate

\* _drop_owned_index_if_present: the index of the candidate is gone
LEMMA DropStep ==
    ASSUME TrialInv, NEW w \in Executors, Trial!drop(w)
    PROVE  TrialInv'
  <1> DEFINE c == Trial!Candidate(w)
  <1>0. Executing(w)
    BY ExecutingTypes DEF Trial!drop
  <1> USE <1>0 DEF Executing, Trial!drop, Trial!Goto
  <1>1. Arming(w)
    BY DEF Arming, Trial!Points, Trial!Seen
  <1>2. c' = c
    BY <1>1 DEF Arming, Trial!Candidate
  <1>3. Trial!Recorded(c)' = Trial!Recorded(c)
    BY <1>1, <1>2, RecordedStays DEF Arming
  <1>4. Armed(w)
    BY DEF TrialInv, Executed
  <1>5. Armed(w)'
    BY <1>1, <1>2, <1>3, <1>4 DEF Arming, Armed
  <1> QED BY <1>1, <1>5, ArmingKeeps

\* The candidate's index is created
LEMMA CreateStep ==
    ASSUME TrialInv, NEW w \in Executors, Trial!create(w)
    PROVE  TrialInv'
  <1> DEFINE c == Trial!Candidate(w)
  <1>0. Executing(w)
    BY ExecutingTypes DEF Trial!create
  <1> USE <1>0 DEF Executing, Trial!create, Trial!Goto
  <1>1. Arming(w)
    BY DEF Arming, Trial!Points, Trial!Seen
  <1>2. c' = c
    BY <1>1 DEF Arming, Trial!Candidate
  <1>3. Trial!Recorded(c)' = Trial!Recorded(c)
    BY <1>1, <1>2, RecordedStays DEF Arming
  <1>4. Armed(w)
    BY DEF TrialInv, Executed
  <1>5. Armed(w)'
    BY <1>1, <1>2, <1>3, <1>4 DEF Arming, Armed
  <1> QED BY <1>1, <1>5, ArmingKeeps

\* The index goes after the candidate's last pair
LEMMA CleanStep ==
    ASSUME TrialInv, NEW w \in Executors, Trial!clean(w)
    PROVE  TrialInv'
  <1> DEFINE c == Trial!Candidate(w)
  <1>0. Executing(w)
    BY ExecutingTypes DEF Trial!clean
  <1> USE <1>0 DEF Executing, Trial!clean, Trial!Goto
  <1>1. Arming(w)
    BY DEF Arming, Trial!Points, Trial!Seen
  <1>2. c' = c
    BY <1>1 DEF Arming, Trial!Candidate
  <1>3. Trial!Recorded(c)' = Trial!Recorded(c)
    BY <1>1, <1>2, RecordedStays DEF Arming
  <1>4. Armed(w)
    BY DEF TrialInv, Executed
  <1>5. Armed(w)'
    BY <1>1, <1>2, <1>3, <1>4 DEF Arming, Armed
  <1> QED BY <1>1, <1>5, ArmingKeeps

\* A failed execution leaves what it has done
LEMMA FailsStep ==
    ASSUME TrialInv, NEW w \in Executors, Trial!fails(w)
    PROVE  TrialInv'
  <1> DEFINE c == Trial!Candidate(w)
  <1>0. Executing(w)
    BY ExecutingTypes DEF Trial!fails
  <1> USE <1>0 DEF Executing, Trial!fails, Trial!Goto
  <1>1. Arming(w)
    BY DEF Arming, Trial!Points, Trial!Seen
  <1>2. c' = c
    BY <1>1 DEF Arming, Trial!Candidate
  <1>3. Trial!Recorded(c)' = Trial!Recorded(c)
    BY <1>1, <1>2, RecordedStays DEF Arming
  <1>4. Armed(w)
    BY DEF TrialInv, Executed
  <1>5. Armed(w)'
    BY <1>1, <1>2, <1>3, <1>4 DEF Arming, Armed
  <1> QED BY <1>1, <1>5, ArmingKeeps

\* The baseline arm sees the collection without the candidate's index
LEMMA BaselineStep ==
    ASSUME TrialInv, NEW w \in Executors, Trial!baseline(w)
    PROVE  TrialInv'
  <1> DEFINE c == Trial!Candidate(w)
  <1>0. Executing(w)
    BY ExecutingTypes DEF Trial!baseline
  <1> USE <1>0 DEF Executing, Trial!baseline, Trial!Goto
  <1>1. Arming(w)
    BY ZenonT(40) DEF Arming, Trial!Points, Trial!Seen
  <1>2. c' = c
    BY <1>1 DEF Arming, Trial!Candidate
  <1>3. Trial!Recorded(c)' = Trial!Recorded(c)
    BY <1>1, <1>2, RecordedStays DEF Arming
  <1>4. Armed(w)
    BY DEF TrialInv, Executed
  <1>b. arms'[w].baseline = trial_indexes \ {c} /\ trial_indexes' = trial_indexes \ {c}
    BY <1>4 DEF Armed
  <1>c. arms'[w].candidate = arms[w].candidate
    OBVIOUS
  <1>5. Armed(w)'
    BY <1>1, <1>2, <1>3, <1>4, <1>b, <1>c DEF Arming, Armed
  <1> QED BY <1>1, <1>5, ArmingKeeps

\* The candidate arm sees what the baseline arm sees, and the candidate's index
LEMMA CandidateStep ==
    ASSUME TrialInv, NEW w \in Executors, Trial!candidate(w)
    PROVE  TrialInv'
  <1> DEFINE c == Trial!Candidate(w)
  <1>0. Executing(w)
    BY ExecutingTypes DEF Trial!candidate
  <1> USE <1>0 DEF Executing, Trial!candidate, Trial!Goto
  <1>1. Arming(w)
    BY DEF Arming, Trial!Points, Trial!Seen
  <1>2. c' = c
    BY <1>1 DEF Arming, Trial!Candidate
  <1>3. Trial!Recorded(c)' = Trial!Recorded(c)
    BY <1>1, <1>2, RecordedStays DEF Arming
  <1>4. Armed(w)
    BY DEF TrialInv, Executed
  <1>b. arms'[w].candidate = trial_indexes /\ c \in trial_indexes /\ trial_indexes' = trial_indexes
    BY <1>4 DEF Armed
  <1>c. arms'[w].baseline = arms[w].baseline
    OBVIOUS
  <1>5. Armed(w)'
    BY <1>1, <1>2, <1>3, <1>4, <1>b, <1>c DEF Arming, Armed
  <1> QED BY <1>1, <1>5, ArmingKeeps

\* A worker that holds the run's job begins with the first pair of the first candidate
LEMMA ExecuteStep ==
    ASSUME ExecutedInTurn, TrialInv, NEW w \in Executors, Trial!execute(w)
    PROVE  TrialInv'
  <1> USE DEF Trial!execute
  <1>0. /\ \A v \in Executors \ {w} : trial_pc[v] = "idle"
        /\ 1 \in Trial!Numbers /\ order \in [Executors -> Seq(TrialCandidates)]
        /\ trial_pc \in [Executors -> Trial!Points] /\ at \in [Executors -> Nat \ {0}] /\ pair \in [Executors -> Trial!Numbers]
        /\ arms \in [Executors -> [baseline : Trial!Seen, candidate : Trial!Seen]] /\ evaluations \in Seq(Trial!Evaluation)
    BY InProcessConstants DEF ExecutedInTurn, TrialInv, TrialTypes, Trial!TrialConstants, Trial!Numbers
  <1>o. PICK o \in Trial!SetToSeqs(TrialCandidates) : order' = [order EXCEPT ![w] = o]
    OBVIOUS
  <1>l. ListsAll(o)
    BY QueryListsAll
  <1>1. /\ trial_pc' \in [Executors -> Trial!Points] /\ at' \in [Executors -> Nat \ {0}] /\ pair' \in [Executors -> Trial!Numbers]
        /\ arms' \in [Executors -> [baseline : Trial!Seen, candidate : Trial!Seen]]
        /\ order' \in [Executors -> Seq(TrialCandidates)] /\ order'[w] = o
        /\ trial_pc'[w] = "drop" /\ at'[w] = 1 /\ pair'[w] = 1 /\ \A v \in Executors \ {w} : trial_pc'[v] = "idle"
    BY <1>0, <1>o, <1>l DEF Trial!Points, Trial!Seen, ListsAll
  <1>2. \A d : Trial!Recorded(d)' = Trial!Recorded(d) /\ (Measured(d)' <=> Measured(d))
    BY RecordedStays
  <1>3. Listed(w)' /\ PassedBy(w)' /\ Behind(w)' /\ Armed(w)'
    BY <1>1, <1>l DEF Listed, ListsAll, PassedBy, Behind, Armed
  <1>4. LeftAtAdmission' /\ Trial!CompleteEvidence'
    BY <1>2 DEF LeftAtAdmission, TrialInv, Trial!CompleteEvidence, Measured
  <1>5. run \in {"EVALUATING", "ADMISSION"} /\ trial_indexes \subseteq TrialCandidates
    BY DEF TrialInv, TrialTypes
  <1> QED BY <1>0, <1>1, <1>3, <1>4, <1>5, NothingRecorded

\* record_pair for an evaluation that is there: the pair is added or was there
LEMMA RecordStep ==
    ASSUME TrialInv, NEW w \in Executors, Trial!record(w)
    PROVE  TrialInv'
  <1> DEFINE c == Trial!Candidate(w)
  <1>0. Executing(w)
    BY ExecutingTypes DEF Trial!record
  <1> USE <1>0 DEF Executing, Trial!record
  <1>1. CASE Trial!Of(c) = {}
    <2> USE <1>1 DEF Trial!Goto
    <2>1. Arming(w) /\ trial_pc[w] = "record" /\ trial_pc'[w] = "insert"
      BY DEF Arming, Trial!Points, Trial!Seen
    <2>2. c' = c
      BY DEF Trial!Candidate
    <2>3. Trial!Recorded(c)' = Trial!Recorded(c)
      BY <2>1, <2>2, RecordedStays DEF Arming
    <2>4. Armed(w)
      BY DEF TrialInv, Executed
    <2>5. Armed(w)'
      BY <2>1, <2>2, <2>3, <2>4 DEF Arming, Armed
    <2> QED BY <2>1, <2>5, ArmingKeeps
  <1>2. CASE Trial!Of(c) # {}
    <2>1. PICK e \in DOMAIN evaluations : evaluations[e].candidate = c
      BY <1>2 DEF Trial!Of
    <2>2. Trial!Of(c) = {e}
      BY <2>1 DEF TrialInv, OneEvaluation, Trial!Of
    <2>3. Trial!NextPair(w) /\ pairs' = pairs \cup {Trial!Measured(w, d) : d \in {d \in {e} : Trial!Unrecorded(w, d)}}
      BY <2>2
    <2>4. CASE Trial!Unrecorded(w, e)
      <3>1. pairs' = pairs \cup {Trial!Measured(w, e)}
        BY <2>3, <2>4
      <3>2. pair[w] \notin Trial!Recorded(c)
        BY <2>2, <2>4 DEF Trial!Recorded, Trial!PairsOf, Trial!Unrecorded
      <3>3. \A p \in pairs : p.evaluation = e => p.number # pair[w]
        BY <2>4 DEF Trial!Unrecorded
      <3>4. \A d \in DOMAIN evaluations' : evaluations'[d].candidate = c => d = e
        BY <2>1 DEF TrialInv, OneEvaluation
      <3> QED BY <2>1, <2>3, <3>1, <3>2, <3>3, <3>4, PairIsRecorded
    <2>5. CASE ~Trial!Unrecorded(w, e)
      <3>1. UNCHANGED <<run, evaluations, pairs, order, at, trial_indexes, arms>>
        BY <2>3, <2>5 DEF Trial!NextPair
      <3>2. pair[w] \in Trial!Recorded(c)
        BY <2>2, <2>5 DEF Trial!Recorded, Trial!PairsOf, Trial!Unrecorded
      <3>3. \A d : Trial!Recorded(d)' = Trial!Recorded(d) /\ (Measured(d)' <=> Measured(d))
        BY <3>1, RecordedStays
      <3>4. /\ trial_pc'[w] = IF pair[w] < Pairs THEN "drop" ELSE "clean"
            /\ pair'[w] = IF pair[w] < Pairs THEN pair[w] + 1 ELSE pair[w]
            /\ trial_pc' \in [Executors -> Trial!Points] /\ pair' \in [Executors -> Trial!Numbers]
            /\ \A v \in Executors \ {w} : trial_pc'[v] = "idle"
        BY <2>3 DEF Trial!NextPair, Trial!Points, Trial!Numbers
      <3>5. c' = c
        BY <3>1 DEF Trial!Candidate
      <3>6. PassedBy(w) /\ trial_pc[w] = "record"
        BY DEF TrialInv, Executed
      <3>7. \A k \in 1..pair[w] : k \in Trial!Recorded(c)
        BY <3>2, <3>6 DEF PassedBy, Trial!Numbers
      <3>8. PassedBy(w)'
        <4>1. \A i \in 1..(at[w] - 1) : Measured(order[w][i])'
          <5>1. \A i \in 1..(at[w] - 1) : Measured(order[w][i])
            BY <3>6 DEF PassedBy
          <5> QED BY <3>1, <3>3, <5>1
        <4>2. CASE pair[w] < Pairs
          BY <4>1, <4>2, <3>1, <3>3, <3>4, <3>5, <3>7 DEF PassedBy, Trial!Numbers
        <4>3. CASE ~(pair[w] < Pairs)
          <5>1. pair[w] = Pairs
            BY <4>3 DEF Trial!Numbers
          <5>2. Trial!Recorded(c) \subseteq Trial!Numbers
            BY DEF Trial!Recorded, Trial!PairsOf, TrialInv, TrialTypes, Trial!Pair, Trial!Numbers
          <5>3. Measured(c)
            BY <5>1, <5>2, <3>7 DEF Measured, Trial!Numbers
          <5> QED BY <4>1, <4>3, <5>3, <3>1, <3>3, <3>4, <3>5 DEF PassedBy
        <4> QED BY <4>2, <4>3
      <3>9. Listed(w)' /\ Behind(w)' /\ Armed(w)'
        BY <3>1, <3>4, <3>5 DEF TrialInv, Executed, Listed, Behind, Armed
      <3>10. LeftAtAdmission' /\ Trial!CompleteEvidence'
        BY <3>1, <3>3 DEF TrialInv, LeftAtAdmission, Trial!CompleteEvidence, Measured
      <3> QED BY <3>1, <3>4, <3>8, <3>9, <3>10, NothingRecorded
    <2> QED BY <2>4, <2>5
  <1> QED BY <1>1, <1>2

\* record_pair for a candidate without an evaluation: both rows are inserted
LEMMA InsertStep ==
    ASSUME TrialInv, NEW w \in Executors, Trial!insert(w)
    PROVE  TrialInv'
  <1> DEFINE c == Trial!Candidate(w)
             e == Len(evaluations) + 1
  <1>0. Executing(w)
    BY ExecutingTypes DEF Trial!insert
  <1> USE <1>0 DEF Executing, Trial!insert
  <1>1. Trial!Of(c) = {} /\ \A d \in DOMAIN evaluations : evaluations[d].candidate # c
    BY DEF TrialInv, OneEvaluation, Trial!Of
  <1>2. /\ evaluations' \in Seq(Trial!Evaluation) /\ Len(evaluations') = e
        /\ DOMAIN evaluations' = DOMAIN evaluations \cup {e} /\ e \notin DOMAIN evaluations
        /\ evaluations'[e] = [candidate |-> c, status |-> "MEASURING"]
        /\ \A d \in DOMAIN evaluations : evaluations'[d] = evaluations[d]
    BY DEF Trial!Evaluation
  <1>3. pairs' = pairs \cup {Trial!Measured(w, e)}
    BY <1>2
  <1>4. pair[w] \notin Trial!Recorded(c)
    BY <1>1 DEF Trial!Recorded, Trial!PairsOf
  <1>5. \A p \in pairs : p.evaluation # e
    BY <1>2 DEF TrialInv, TrialTypes, Trial!Pair
  <1>6. Trial!NextPair(w) /\ UNCHANGED <<run, trial_indexes, arms>> /\ trial_pc[w] \in {"record", "insert"}
    OBVIOUS
  <1> HIDE DEF e, Trial!insert
  <1>7. /\ e \in DOMAIN evaluations'
        /\ evaluations'[e].candidate = c /\ evaluations'[e].status = "MEASURING"
        /\ DOMAIN evaluations \subseteq DOMAIN evaluations' /\ DOMAIN evaluations' \subseteq DOMAIN evaluations \cup {e}
        /\ \A d \in DOMAIN evaluations' : evaluations'[d].candidate = c => d = e
    BY <1>1, <1>2
  <1>8. \A p \in pairs : p.evaluation = e => p.number # pair[w]
    BY <1>5
  <1> HIDE DEF Executing
  <1> QED BY <1>2, <1>3, <1>4, <1>6, <1>7, <1>8, PairIsRecorded

\* mark_complete marks evidence that is complete, and the next candidate's turn comes
LEMMA MarkCompleteStep ==
    ASSUME TrialInv, NEW w \in Executors, Trial!mark_complete(w)
    PROVE  TrialInv'
  <1> DEFINE c == Trial!Candidate(w)
  <1>0. Executing(w)
    BY ExecutingTypes DEF Trial!mark_complete
  <1> USE <1>0 DEF Executing, Trial!mark_complete
  <1>p. PassedBy(w) /\ Behind(w) /\ trial_pc[w] = "complete" /\ Measured(c)
    BY DEF TrialInv, Executed, PassedBy
  <1>1. /\ DOMAIN evaluations' = DOMAIN evaluations /\ evaluations' \in Seq(Trial!Evaluation)
        /\ \A e \in DOMAIN evaluations : evaluations'[e].candidate = evaluations[e].candidate
        /\ \A e \in DOMAIN evaluations : evaluations'[e].status = "COMPLETED" =>
               evaluations[e].status = "COMPLETED" \/ evaluations[e].candidate = c
    <2>1. \A e \in DOMAIN evaluations : evaluations[e] \in Trial!Evaluation
      OBVIOUS
    <2>2. \A e \in DOMAIN evaluations : evaluations'[e] \in Trial!Evaluation /\ evaluations'[e].candidate = evaluations[e].candidate
      BY <2>1 DEF Trial!Evaluation
    <2>3. DOMAIN evaluations' = 1..Len(evaluations) /\ Len(evaluations) \in Nat
      OBVIOUS
    <2>4. evaluations' \in Seq(Trial!Evaluation)
      BY <2>2, <2>3
    <2> QED BY <2>2, <2>3, <2>4 DEF Trial!Of
  <1>2. \A d : Trial!Recorded(d)' = Trial!Recorded(d) /\ (Measured(d)' <=> Measured(d))
    BY <1>1, RecordedStays
  <1>3. /\ trial_pc' \in [Executors -> Trial!Points] /\ order' = order /\ at' \in [Executors -> Nat \ {0}] /\ pair' \in [Executors -> Trial!Numbers]
        /\ \A v \in Executors \ {w} : trial_pc'[v] = "idle"
        /\ \/ at[w] < Len(order[w]) /\ trial_pc'[w] = "drop" /\ at'[w] = at[w] + 1 /\ pair'[w] = 1
           \/ at[w] = Len(order[w]) /\ trial_pc'[w] = "transition" /\ at'[w] = at[w] /\ pair'[w] = pair[w]
    <2>0. at[w] \in 1..Len(order[w]) /\ at \in [Executors -> Nat \ {0}] /\ trial_pc \in [Executors -> Trial!Points] /\ 1 \in Trial!Numbers
      BY DEF Trial!Numbers
    <2>o. order' = order
      OBVIOUS
    <2>1. CASE at[w] < Len(order[w])
      <3>1. /\ at' = [at EXCEPT ![w] = at[w] + 1] /\ pair' = [pair EXCEPT ![w] = 1]
            /\ trial_pc' = [trial_pc EXCEPT ![w] = "drop"] /\ at[w] + 1 \in 1..Len(order[w])
        BY <2>0, <2>1
      <3> HIDE DEF Trial!mark_complete
      <3> QED BY <2>0, <2>o, <2>1, <3>1 DEF Trial!Points
    <2>2. CASE ~(at[w] < Len(order[w]))
      <3>1. at' = at /\ pair' = pair /\ trial_pc' = [trial_pc EXCEPT ![w] = "transition"] /\ at[w] = Len(order[w])
        BY <2>0, <2>2
      <3> HIDE DEF Trial!mark_complete
      <3> QED BY <2>0, <2>o, <3>1 DEF Trial!Points
    <2> QED BY <2>1, <2>2
  <1>4. PassedBy(w)'
    <2>1. \A i \in 1..at[w] : Measured(order[w][i])'
      <3> SUFFICES ASSUME NEW i \in 1..at[w] PROVE Measured(order[w][i])
        BY <1>2
      <3>1. CASE i = at[w]
        BY <3>1, <1>p DEF Trial!Candidate
      <3>2. CASE i # at[w]
        <4>1. i \in 1..(at[w] - 1)
          BY <3>2
        <4> QED BY <4>1, <1>p DEF PassedBy
      <3> QED BY <3>1, <3>2
    <2>2. CASE trial_pc'[w] = "drop"
      BY <2>2, <2>1, <1>3 DEF PassedBy
    <2>3. CASE trial_pc'[w] = "transition"
      BY <2>3, <2>1, <1>3 DEF PassedBy, Trial!Candidate
    <2> QED BY <2>2, <2>3, <1>3
  <1>5. Behind(w)'
    <2>1. \A j \in 1..at[w] : order[w][j] \notin trial_indexes
      BY <1>p DEF Behind, Trial!Candidate
    <2> QED BY <2>1, <1>3 DEF Behind, Trial!Candidate
  <1>6. Armed(w)'
    BY <1>3 DEF Armed
  <1>7. LeftAtAdmission' /\ Listed(w)'
    BY <1>2, <1>3 DEF TrialInv, LeftAtAdmission, Listed
  <1>8. Trial!CompleteEvidence'
    <2> SUFFICES ASSUME NEW e \in DOMAIN evaluations, evaluations'[e].status = "COMPLETED" PROVE Measured(evaluations[e].candidate)
      BY <1>1, <1>2 DEF Trial!CompleteEvidence, Measured
    <2> QED BY <1>1, <1>p DEF TrialInv, Trial!CompleteEvidence, Measured
  <1>9. trial_indexes \subseteq TrialCandidates
    OBVIOUS
  <1> QED BY <1>1, <1>3, <1>4, <1>5, <1>6, <1>7, <1>8, <1>9, NothingRecorded

\* The run goes on when every candidate has been passed
LEMMA TransitionStep ==
    ASSUME TrialInv, NEW w \in Executors, Trial!transition(w)
    PROVE  TrialInv'
  <1>0. Executing(w)
    BY ExecutingTypes DEF Trial!transition
  <1> USE <1>0 DEF Executing, Trial!transition, Trial!Goto
  <1>1. PassedBy(w) /\ Behind(w) /\ at[w] = Len(order[w]) /\ Measured(order[w][at[w]]) /\ order[w][at[w]] \notin trial_indexes
    BY DEF TrialInv, Executed, PassedBy, Behind, Trial!Candidate
  <1>2. \A i \in 1..Len(order[w]) : Measured(order[w][i]) /\ order[w][i] \notin trial_indexes
    BY <1>1 DEF PassedBy, Behind
  <1>3. trial_indexes = {} /\ \A c \in TrialCandidates : Measured(c)
    <2>1. \A c \in TrialCandidates : \E i \in 1..Len(order[w]) : order[w][i] = c
      BY DEF Listed, ListsAll
    <2>2. \A c \in TrialCandidates : Measured(c) /\ c \notin trial_indexes
      <3> SUFFICES ASSUME NEW c \in TrialCandidates PROVE Measured(c) /\ c \notin trial_indexes
        OBVIOUS
      <3>1. PICK i \in 1..Len(order[w]) : order[w][i] = c
        BY <2>1
      <3>2. Measured(order[w][i]) /\ order[w][i] \notin trial_indexes
        BY <1>2
      <3> QED BY <3>1, <3>2
    <2> QED BY <2>2
  <1>4. \A d : Trial!Recorded(d)' = Trial!Recorded(d) /\ (Measured(d)' <=> Measured(d))
    BY RecordedStays
  <1>5. trial_pc' \in [Executors -> Trial!Points] /\ \A v \in Executors : trial_pc'[v] = "idle"
    BY DEF Trial!Points
  <1>6. Listed(w)' /\ PassedBy(w)' /\ Behind(w)' /\ Armed(w)'
    BY <1>5 DEF Listed, PassedBy, Behind, Armed
  <1>7. LeftAtAdmission' /\ Trial!CompleteEvidence'
    BY <1>3, <1>4, <1>5 DEF LeftAtAdmission, TrialInv, Trial!CompleteEvidence, Measured
  <1> QED BY <1>5, <1>6, <1>7, NothingRecorded
-----------------------------------------------------------------------------

\* Trials executed one at a time, whatever executions failed before and in whatever order each
\* lists the candidates: what goes to ADMISSION is complete, measured once, compares arms that
\* differ in the candidate's index alone, and has left no index behind.
THEOREM EvidenceIsSoundInTurn == ASSUME ExecutedInTurn PROVE Trial!Spec => []EvidenceIsSound
  <1>1. TrialInv /\ [Trial!Next]_(Trial!vars) => TrialInv'
    <2> SUFFICES ASSUME TrialInv, [Trial!Next]_(Trial!vars) PROVE TrialInv'
      OBVIOUS
    <2>1. CASE UNCHANGED Trial!vars
      BY <2>1, SMTT(30) DEF Trial!vars, TrialInv, TrialTypes, OneExecution, OneEvaluation, OnePair, Executed, Listed, ListsAll, PassedBy, Behind,
                  Armed, LeftAtAdmission, Measured, Trial!CompleteEvidence, Trial!ArmsDifferInTheIndex, Trial!Recorded,
                  Trial!PairsOf, Trial!Of, Trial!Candidate, Trial!Pair
    <2>2. CASE Trial!Next
      BY <2>2, ExecuteStep, DropStep, BaselineStep, CreateStep, CandidateStep, RecordStep, InsertStep, CleanStep,
         MarkCompleteStep, TransitionStep, FailsStep DEF Trial!Next, Trial!step
    <2> QED BY <2>1, <2>2
  <1>2. TrialInv => EvidenceIsSound
    <2> SUFFICES ASSUME TrialInv PROVE EvidenceIsSound
      OBVIOUS
    <2>1. Trial!PairRecordedOnce
      BY DEF TrialInv, OneEvaluation, OnePair, TrialTypes, Trial!PairRecordedOnce, Trial!PairsOf, Trial!Of, Trial!Pair
    <2>2. Trial!CollectionRestored
      BY DEF TrialInv, LeftAtAdmission, Trial!CollectionRestored
    <2> QED BY <2>1, <2>2 DEF TrialInv, EvidenceIsSound, Trial!EvidenceIsSound
  <1> QED BY <1>1, <1>2, TrialInitially, PTL DEF Trial!Spec
=============================================================================
