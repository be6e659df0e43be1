---------------------------- MODULE Measurement ----------------------------
(***************************************************************************)
(* What one process measures, and the model it asks meanwhile.             *)
(*                                                                         *)
(*   isolation/lock.py                one asyncio.Lock for both            *)
(*   evaluation/sandbox.py            SandboxIndexEvaluator.evaluate       *)
(*   evaluation/mongodb_copier.py     the copy it measures on              *)
(*   ai/provider.py                   _structured and embed_experience of  *)
(*                                    the two HTTP providers               *)
(*                                                                         *)
(* An asyncio.Lock serves its waiters in the order they came: queue is the *)
(* lock, its head the holder.  The monitored database is a value for each  *)
(* collection; the evaluation database has those, and an index for each    *)
(* candidate somebody built and did not drop.                              *)
(***************************************************************************)
EXTENDS Integers, Sequences, FiniteSets, SequencesExt

CONSTANTS
    Evaluators, Callers,   \* tasks that evaluate, tasks that ask the model
    Provider,              \* the provider each caller was given
    Candidates,
    CollectionCount,       \* how many collections the monitored database has
    Contents, Missing,     \* what a collection may hold, and that it is not there
    MaxCalls, MaxWrites

Sharers == Evaluators \cup Callers
Collections == 1..CollectionCount  \* in the order their names sort

\* What a caller may ask: a diagnosis, a ranking or an explanation, which are structured,
\* or the embedding of an experience
Questions == {"structured", "embedding"}

MeasurementConstants ==
    /\ Evaluators \cap Callers = {} /\ Missing \notin Contents /\ Contents # {}
    /\ CollectionCount \in Nat \ {0}
    /\ Provider \in [Callers -> {"ollama", "openai_compatible"}]
    /\ MaxCalls \in Nat /\ MaxWrites \in Nat

VARIABLES
    source, copy,  \* what each collection holds, monitored and evaluation
    built,         \* the candidates' indexes on the evaluation database
    queue,         \* the isolation lock
    at, doing,     \* where a task is, and what it was called with
    seen,          \* the monitored database as an evaluator read it
    cursor,        \* the collection it is at
    replies,       \* what a caller's requests were answered
    told,          \* what the last call of a caller returned or raised
    calls, writes

vars == <<source, copy, built, queue, at, doing, seen, cursor, replies, told, calls, writes>>

\* What a request may be answered: no answer in time, no connection, an HTTP error, another
\* exception of the client or a body that is not JSON; a message that is no text, or a text
\* that is not what the schema asks for; or that
Broken == {"timeout", "connect", "http_4xx", "http_5xx", "other"}
Unusable == {"no_text", "invalid"}
Replies == Broken \cup Unusable \cup {"good"}

None == [is |-> "none"]

\* What copy_and_verify knows of a database, fingerprinted: what each collection holds
EvaluationState == [Collections -> Contents \cup {Missing}]
Points == {"idle", "read", "clear", "fill", "compare", "reread", "create", "queue", "bench", "drop", "infer"}

TypeOK ==
    /\ source \in EvaluationState /\ copy \in EvaluationState /\ built \subseteq Candidates
    /\ queue \in Seq(Sharers) /\ at \in [Sharers -> Points]
    /\ DOMAIN doing = Sharers /\ DOMAIN told = Callers
    /\ \A t \in Evaluators : at[t] # "idle" => doing[t].candidate \in Candidates
    /\ seen \in [Evaluators -> EvaluationState] /\ cursor \in [Evaluators -> Collections]
    /\ replies \in [Callers -> Seq(Replies)]

Init ==
    /\ source = [c \in Collections |-> CHOOSE x \in Contents : TRUE]
    /\ copy = [c \in Collections |-> Missing]
    /\ built \in {{}, Candidates} /\ queue = <<>>
    /\ at = [t \in Sharers |-> "idle"] /\ doing = [t \in Sharers |-> None] /\ told = [t \in Callers |-> "nothing"]
    /\ seen = [t \in Evaluators |-> [c \in Collections |-> Missing]]
    /\ cursor = [t \in Evaluators |-> 1] /\ replies = [t \in Callers |-> <<>>]
    /\ calls = 0 /\ writes = 0

Goes(t, point) == at' = [at EXCEPT ![t] = point]
Tells(t, what) == Goes(t, "idle") /\ told' = [told EXCEPT ![t] = what]

\* An evaluation returns or raises; what it read is forgotten
Ends(t) ==
    /\ Goes(t, "idle") /\ doing' = [doing EXCEPT ![t] = None] /\ cursor' = [cursor EXCEPT ![t] = 1]
    /\ seen' = [seen EXCEPT ![t] = [c \in Collections |-> Missing]]

\* A mistake: an exception passes the release by
Leaves_OnReturn(t, how) == queue' = IF how = "raises" THEN queue ELSE Tail(queue)

\* async with: it goes to the end of the line, and leaves whether it returns or raises
Enters(t) == queue' = Append(queue, t)
Holds(t) == queue # <<>> /\ Head(queue) = t
Leaves(t, how) == queue' = Tail(queue)

-----------------------------------------------------------------------------
(* An evaluation *)

\* The monitored and the evaluation target must differ; else it is rejected at once
evaluate(t, c) ==
    /\ at[t] = "idle" /\ calls < MaxCalls /\ calls' = calls + 1
    /\ \/ Goes(t, "read") /\ doing' = [doing EXCEPT ![t] = [is |-> "evaluation", candidate |-> c]]
       \/ UNCHANGED <<at, doing>>
    /\ UNCHANGED <<source, copy, built, queue, seen, cursor, replies, told, writes>>

\* To the next collection, or after the last one to another point
Onward(t, same, next) ==
    IF cursor[t] + 1 \in Collections
    THEN cursor' = [cursor EXCEPT ![t] = @ + 1] /\ Goes(t, same)
    ELSE cursor' = [cursor EXCEPT ![t] = 1] /\ Goes(t, next)

source_state(t) ==
    /\ at[t] = "read" /\ seen' = [seen EXCEPT ![t][cursor[t]] = source[cursor[t]]]
    /\ Onward(t, "read", "clear")
    /\ UNCHANGED <<source, copy, built, queue, doing, replies, told, calls, writes>>

\* Every collection of the evaluation database is dropped, its indexes with it
replace_clears(t) ==
    /\ at[t] = "clear" /\ Goes(t, "fill")
    /\ copy' = [c \in Collections |-> Missing] /\ built' = {}
    /\ UNCHANGED <<source, queue, doing, seen, cursor, replies, told, calls, writes>>

replace_fills(t) ==
    /\ at[t] = "fill" /\ copy' = [copy EXCEPT ![cursor[t]] = source[cursor[t]]]
    /\ Onward(t, "fill", "compare")
    /\ UNCHANGED <<source, built, queue, doing, seen, replies, told, calls, writes>>

\* A mistake: only the indexes are compared
Equivalent_IndexesOnly(t) == built = {}

\* The evaluation database has the documents and the indexes that were read from the source
Equivalent(t) == copy = seen[t] /\ built = {}

evaluation_state(t) ==
    /\ at[t] = "compare"
    /\ IF Equivalent(t) THEN Goes(t, "reread") /\ UNCHANGED <<doing, seen, cursor>> ELSE Ends(t)
    /\ UNCHANGED <<source, copy, built, queue, replies, told, calls, writes>>

\* The source is read again: it has not changed
source_after(t) ==
    /\ at[t] = "reread"
    /\ IF source[cursor[t]] = seen[t][cursor[t]]
       THEN Onward(t, "reread", "create") /\ UNCHANGED <<doing, seen>>
       ELSE Ends(t)
    /\ UNCHANGED <<source, copy, built, queue, replies, told, calls, writes>>

\* The versions, the topology and the budget, each of which may refuse; then the index.
\* applied stays False when create_index raises, also if the server built it
create_index(t) ==
    /\ at[t] = "create"
    /\ \/ /\ built' = built \cup {doing[t].candidate} /\ Goes(t, "queue") /\ Enters(t)
          /\ UNCHANGED <<doing, seen, cursor>>
       \/ built' \in {built, built \cup {doing[t].candidate}} /\ Ends(t) /\ UNCHANGED queue
    /\ UNCHANGED <<source, copy, replies, told, calls, writes>>

benchmark_window(t) ==
    /\ at[t] = "queue" /\ t \in Evaluators /\ Holds(t) /\ Goes(t, "bench")
    /\ UNCHANGED <<source, copy, built, queue, doing, seen, cursor, replies, told, calls, writes>>

\* The benchmark returned and was admitted or not, or one of them raised
benchmark(t) ==
    /\ at[t] = "bench" /\ Goes(t, "drop")
    /\ \E how \in {"returns", "raises"} : Leaves(t, how)
    /\ UNCHANGED <<source, copy, built, doing, seen, cursor, replies, told, calls, writes>>

\* finally; when the drop raises, that is what the caller sees
drop_index(t) ==
    /\ at[t] = "drop"
    /\ built' \in {built, built \ {doing[t].candidate}} /\ Ends(t)
    /\ UNCHANGED <<source, copy, queue, replies, told, calls, writes>>

-----------------------------------------------------------------------------
(* A question to the model *)

ask(t, what) ==
    /\ at[t] = "idle" /\ calls < MaxCalls /\ calls' = calls + 1
    /\ doing' = [doing EXCEPT ![t] = [is |-> what]]
    /\ replies' = [replies EXCEPT ![t] = <<>>] /\ told' = [told EXCEPT ![t] = "nothing"] /\ Goes(t, "queue") /\ Enters(t)
    /\ UNCHANGED <<source, copy, built, seen, cursor, writes>>

ollama_request(t) ==
    /\ at[t] = "queue" /\ t \in Callers /\ Holds(t) /\ Goes(t, "infer")
    /\ UNCHANGED <<source, copy, built, queue, doing, seen, cursor, replies, told, calls, writes>>

\* Only _structured of the Ollama provider says which failure it was
Named(provider, what) == provider = "ollama" /\ what # "embedding"
Failure(reply) ==
    CASE reply = "timeout" -> "TIMEOUT"
      [] reply = "connect" -> "UNAVAILABLE"
      [] reply = "http_5xx" -> "HTTP_ERROR, retryable"
      [] reply = "http_4xx" -> "HTTP_ERROR"
      [] reply = "other" -> "exception"
Refusal(reply) == IF reply = "invalid" THEN "RESPONSE_SCHEMA_INVALID" ELSE "STRUCTURED_OUTPUT_UNSUPPORTED"

\* How a call ends for good; "again" when it does not
Verdict(provider, what, reply, attempt) ==
    CASE reply = "good" -> "result"
      [] reply \in Broken -> IF Named(provider, what) THEN Failure(reply) ELSE "exception"
      [] reply \in Unusable /\ what # "embedding" /\ attempt = 1 -> "again"
      [] OTHER -> IF Named(provider, what) THEN Refusal(reply) ELSE "ValueError"

\* The lock is held for one attempt; the second one queues again
answered(t, reply) ==
    /\ at[t] = "infer" /\ replies' = [replies EXCEPT ![t] = Append(@, reply)]
    /\ LET verdict == Verdict(Provider[t], doing[t].is, reply, Len(replies'[t]))
       IN IF verdict = "again"
          THEN queue' = Append(Tail(queue), t) /\ Goes(t, "queue") /\ UNCHANGED told
          ELSE Tells(t, verdict) /\ Leaves(t, IF reply \in Broken THEN "raises" ELSE "returns")
    /\ UNCHANGED <<source, copy, built, doing, seen, cursor, calls, writes>>

-----------------------------------------------------------------------------
\* The application writes to the monitored database
write(c, content) ==
    /\ writes < MaxWrites /\ writes' = writes + 1 /\ content # source[c]
    /\ source' = [source EXCEPT ![c] = content]
    /\ UNCHANGED <<copy, built, queue, at, doing, seen, cursor, replies, told, calls>>

\* What a task does once it was called
Step(t) ==
    \/ /\ t \in Evaluators
       /\ \/ source_state(t) \/ replace_clears(t) \/ replace_fills(t) \/ evaluation_state(t) \/ source_after(t)
          \/ create_index(t) \/ benchmark_window(t) \/ benchmark(t) \/ drop_index(t)
    \/ t \in Callers /\ (ollama_request(t) \/ \E r \in Replies : answered(t, r))

Next ==
    \/ \E t \in Sharers : Step(t)
    \/ \E t \in Evaluators, c \in Candidates : evaluate(t, c)
    \/ \E t \in Callers, w \in Questions : ask(t, w)
    \/ \E c \in Collections, x \in Contents : write(c, x)

\* Each await of a task returns or raises: the driver and the HTTP client have timeouts
Fairness == \A t \in Sharers : WF_vars(Step(t))

Spec == Init /\ [][Next]_vars /\ Fairness

-----------------------------------------------------------------------------
(* Properties *)

\* evaluate and the two ollama_request sites: while a benchmark runs, no model is asked and no
\* other benchmark runs; the evaluation database holds what was read from the monitored one
\* and the candidate's index, and none that an evaluation before it left behind.  Evaluations
\* that overlap do not have this: the lock is for the benchmark alone.
MeasuredAlone ==
    \A t \in Evaluators : at[t] = "bench" =>
        /\ \A u \in Sharers \ {t} : at[u] \notin {"bench", "infer"}
        /\ copy = seen[t] /\ built = {doing[t].candidate}

\* _structured: advice is the last thing that was received; what may be tried again is a
\* failure on the way, and a question is put a second time only after an answer of no use.
AdviceIsTold ==
    \A t \in Callers : at[t] = "idle" /\ replies[t] # <<>> =>
        /\ told[t] = "result" <=> Last(replies[t]) = "good"
        /\ told[t] \in {"TIMEOUT", "UNAVAILABLE", "HTTP_ERROR, retryable"} => Last(replies[t]) \in Broken
        /\ Len(replies[t]) = 2 => replies[t][1] \in Unusable
        /\ Len(replies[t]) \in 1..2

MeasurementIsSound == MeasuredAlone /\ AdviceIsTold

\* evaluate and _structured: who waits for the lock gets it, whatever the ones before raise,
\* and every call comes to an end.
EveryCallEnds == \A t \in Sharers : at[t] # "idle" ~> at[t] = "idle"
=============================================================================
