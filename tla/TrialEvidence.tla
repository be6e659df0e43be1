---------------------------- MODULE TrialEvidence ----------------------------
(***************************************************************************)
(* Paired trial evidence of one run in status EVALUATING.                  *)
(*                                                                         *)
(*   evaluation/durable.py            DurableEvaluationService             *)
(*   scripts/r24_system_acceptance.py _evaluate_real, the executor         *)
(*   runs/orchestrator.py             the EVALUATING stage                 *)
(*                                                                         *)
(* For every candidate of the run the executor measures pairs 1..Pairs:    *)
(* once without the candidate's index and once with it, in the order AB or *)
(* BA, and records each pair.  A failed execution is repeated from the     *)
(* start, and lists the candidates anew, in any order: the query for them  *)
(* has none.  A worker that has lost its lease goes on until the next      *)
(* check of it, which comes after the execution: with Overlap, two         *)
(* executions run on the one evaluation collection.                        *)
(* A measurement is reduced to the indexes that were there.                *)
(***************************************************************************)
EXTENDS Integers, Sequences, SequencesExt, FiniteSets

CONSTANTS
    Workers, Candidates,
    Pairs,            \* pairs per candidate
    BA,               \* the pair numbers whose arm order is BA
    Overlap,          \* may executions overlap?
    MaxExecutions     \* bound on the executions of the run

\* What the constants have to be; a run without candidates ends before
TrialConstants ==
    /\ IsFiniteSet(Candidates) /\ Candidates # {}
    /\ Pairs \in Nat \ {0} /\ BA \subseteq 1..Pairs
    /\ Overlap \in BOOLEAN /\ MaxExecutions \in Nat

VARIABLES
    run,          \* status of the run
    evaluations,  \* rows of evaluation_runs
    pairs,        \* rows of trial_pairs
    indexes,      \* candidates whose index is on the evaluation collection
    pc, order, at, pair, \* the executions: where, their list of candidates, at which, at which pair
    arms,         \* what their measurements of the pair saw
    executions

vars == <<run, evaluations, pairs, indexes, pc, order, at, pair, arms, executions>>

Numbers == 1..Pairs
Seen == SUBSET Candidates
Points == {"idle", "drop", "baseline", "create", "candidate", "record", "insert", "clean", "complete", "transition"}

Evaluation == [candidate : Candidates, status : {"MEASURING", "COMPLETED"}]
Pair == [evaluation : DOMAIN evaluations, number : Numbers, baseline : Seen, candidate : Seen]

TypeOK ==
    /\ run \in {"EVALUATING", "ADMISSION"}
    /\ evaluations \in Seq(Evaluation)
    /\ pairs \in SUBSET Pair
    /\ indexes \in Seen
    /\ pc \in [Workers -> Points]
    /\ order \in [Workers -> {<<>>} \cup SetToSeqs(Candidates)]
    /\ at \in [Workers -> 1..Cardinality(Candidates)]
    /\ pair \in [Workers -> Numbers]
    /\ arms \in [Workers -> [baseline : Seen, candidate : Seen]]
    /\ executions \in 0..MaxExecutions

Init ==
    /\ run = "EVALUATING"
    /\ evaluations = <<>> /\ pairs = {} /\ indexes = {}
    /\ pc = [w \in Workers |-> "idle"]
    /\ order = [w \in Workers |-> <<>>]
    /\ at = [w \in Workers |-> 1]
    /\ pair = [w \in Workers |-> 1]
    /\ arms = [w \in Workers |-> [baseline |-> {}, candidate |-> {}]]
    /\ executions = 0

Candidate(w) == order[w][at[w]]
Goto(w, point) == pc' = [pc EXCEPT ![w] = point] /\ UNCHANGED <<order, at, pair, executions>>
Of(c) == {e \in DOMAIN evaluations : evaluations[e].candidate = c}
PairsOf(c) == {p \in pairs : p.evaluation \in Of(c)}

-----------------------------------------------------------------------------
(* The executor *)

\* A worker that holds the run's job enters the stage and asks for the run's candidates.
execute(w) ==
    /\ run = "EVALUATING" /\ pc[w] = "idle" /\ executions < MaxExecutions
    /\ Overlap \/ \A v \in Workers : pc[v] = "idle"
    /\ executions' = executions + 1
    /\ pc' = [pc EXCEPT ![w] = "drop"]
    /\ \E candidates \in SetToSeqs(Candidates) : order' = [order EXCEPT ![w] = candidates]
    /\ at' = [at EXCEPT ![w] = 1]
    /\ pair' = [pair EXCEPT ![w] = 1]
    /\ arms' = [arms EXCEPT ![w] = [baseline |-> {}, candidate |-> {}]]
    /\ UNCHANGED <<run, evaluations, pairs, indexes>>

\* _drop_owned_index_if_present, before every pair
drop(w) ==
    /\ pc[w] = "drop"
    /\ indexes' = indexes \ {Candidate(w)}
    /\ Goto(w, IF pair[w] \in BA THEN "create" ELSE "baseline")
    /\ UNCHANGED <<run, evaluations, pairs, arms>>

\* The baseline arm; after the candidate arm its index is dropped first.
baseline(w) ==
    /\ pc[w] = "baseline"
    /\ indexes' = IF pair[w] \in BA THEN indexes \ {Candidate(w)} ELSE indexes
    /\ arms' = [arms EXCEPT ![w].baseline = indexes']
    /\ Goto(w, IF pair[w] \in BA THEN "record" ELSE "create")
    /\ UNCHANGED <<run, evaluations, pairs>>

create(w) ==
    /\ pc[w] = "create"
    /\ indexes' = indexes \cup {Candidate(w)}
    /\ Goto(w, "candidate")
    /\ UNCHANGED <<run, evaluations, pairs, arms>>

candidate(w) ==
    /\ pc[w] = "candidate"
    /\ arms' = [arms EXCEPT ![w].candidate = indexes]
    /\ Goto(w, IF pair[w] \in BA THEN "baseline" ELSE "record")
    /\ UNCHANGED <<run, evaluations, pairs, indexes>>

\* The next pair of the candidate, or its end
NextPair(w) ==
    /\ pc' = [pc EXCEPT ![w] = IF pair[w] < Pairs THEN "drop" ELSE "clean"]
    /\ pair' = [pair EXCEPT ![w] = IF pair[w] < Pairs THEN @ + 1 ELSE @]
    /\ UNCHANGED <<order, at, executions>>

Measured(w, e) == [evaluation |-> e, number |-> pair[w],
                   baseline |-> arms[w].baseline, candidate |-> arms[w].candidate]

Unrecorded(w, e) == \A p \in pairs : p.evaluation = e => p.number # pair[w]

\* record_pair that looks for an unfinished evaluation only
record_Unfinished(w) ==
    /\ pc[w] = "record"
    /\ LET open == {e \in Of(Candidate(w)) : evaluations[e].status = "MEASURING"}
       IN  IF open = {} THEN Goto(w, "insert") /\ UNCHANGED pairs
           ELSE /\ pairs' = pairs \cup {Measured(w, e) : e \in {e \in open : Unrecorded(w, e)}}
                /\ NextPair(w)
    /\ UNCHANGED <<run, evaluations, indexes, arms>>

\* record_pair: the candidate's evaluation, locked, takes the pair unless it has the
\* number already.  Two rows raise: one_or_none allows one.
record(w) ==
    /\ pc[w] = "record"
    /\ Cardinality(Of(Candidate(w))) < 2
    /\ IF Of(Candidate(w)) = {} THEN Goto(w, "insert") /\ UNCHANGED pairs
       ELSE /\ pairs' = pairs \cup {Measured(w, e) : e \in {e \in Of(Candidate(w)) : Unrecorded(w, e)}}
            /\ NextPair(w)
    /\ UNCHANGED <<run, evaluations, indexes, arms>>

\* There was no row to lock: evaluation and pair are inserted together, and nothing
\* in the schema refuses a second evaluation of the candidate.
insert(w) ==
    /\ pc[w] = "insert"
    /\ evaluations' = Append(evaluations, [candidate |-> Candidate(w), status |-> "MEASURING"])
    /\ pairs' = pairs \cup {Measured(w, Len(evaluations'))}
    /\ NextPair(w)
    /\ UNCHANGED <<run, indexes, arms>>

\* The candidate's last pair is recorded: its index goes.
clean(w) ==
    /\ pc[w] = "clean"
    /\ indexes' = indexes \ {Candidate(w)}
    /\ Goto(w, "complete")
    /\ UNCHANGED <<run, evaluations, pairs, arms>>

\* mark_complete, then the next candidate
mark_complete(w) ==
    /\ pc[w] = "complete"
    /\ evaluations' = [e \in DOMAIN evaluations |->
          IF e \in Of(Candidate(w)) THEN [evaluations[e] EXCEPT !.status = "COMPLETED"] ELSE evaluations[e]]
    /\ IF at[w] < Len(order[w])
       THEN /\ at' = [at EXCEPT ![w] = @ + 1] /\ pair' = [pair EXCEPT ![w] = 1]
            /\ pc' = [pc EXCEPT ![w] = "drop"]
       ELSE /\ pc' = [pc EXCEPT ![w] = "transition"] /\ UNCHANGED <<at, pair>>
    /\ UNCHANGED <<run, pairs, indexes, order, arms, executions>>

\* EVALUATING -> ADMISSION
transition(w) ==
    /\ pc[w] = "transition" /\ run = "EVALUATING"
    /\ run' = "ADMISSION"
    /\ Goto(w, "idle")
    /\ UNCHANGED <<evaluations, pairs, indexes, arms>>

\* Any step raises or the process dies; the job will be claimed again.
fails(w) ==
    /\ pc[w] # "idle"
    /\ Goto(w, "idle")
    /\ UNCHANGED <<run, evaluations, pairs, indexes, arms>>

step(w) ==
    \/ drop(w) \/ baseline(w) \/ create(w) \/ candidate(w) \/ record(w) \/ insert(w)
    \/ clean(w) \/ mark_complete(w) \/ transition(w)

Next == \E w \in Workers : execute(w) \/ step(w) \/ fails(w)

Spec == Init /\ [][Next]_vars

-----------------------------------------------------------------------------
(* Properties *)

\* Numbers recorded for a candidate
Recorded(c) == {p.number : p \in PairsOf(c)}

\* mark_complete and the transition: an evaluation is COMPLETED, and the run goes to
\* ADMISSION, only with every pair of the candidate, whoever recorded it.
CompleteEvidence ==
    /\ \A e \in DOMAIN evaluations : evaluations[e].status = "COMPLETED" => Recorded(evaluations[e].candidate) = Numbers
    /\ run = "ADMISSION" => \A c \in Candidates : Recorded(c) = Numbers

\* record_pair, "Persist one measured AB/BA pair; retries reuse the exact pair number":
\* a candidate has one pair of a number.
PairRecordedOnce ==
    \A c \in Candidates : \A p, q \in PairsOf(c) : p.number = q.number => p = q

\* baseline and candidate: what a pair compares differs in the candidate's index and in no
\* other, whatever an execution that failed has left behind and in whatever order the next
\* one lists the candidates.
ArmsDifferInTheIndex ==
    \A e \in DOMAIN evaluations : \A p \in pairs : p.evaluation = e =>
        /\ evaluations[e].candidate \notin p.baseline
        /\ p.candidate = p.baseline \cup {evaluations[e].candidate}

\* _evaluate_real: an arm is measured with its own index alone, or with none.  It is not,
\* next to an index that an overlapping execution has built or a failed one has left.
HonestPairs ==
    \A e \in DOMAIN evaluations : \A p \in pairs : p.evaluation = e =>
        p.baseline = {} /\ p.candidate = {evaluations[e].candidate}

\* After the last execution the evaluation collection is as it was.
CollectionRestored ==
    run = "ADMISSION" /\ (\A w \in Workers : pc[w] = "idle") => indexes = {}

\* The executor and record_pair together: what goes to ADMISSION is complete, measured
\* once, tells the candidate's index apart, and has left no index behind.
EvidenceIsSound == CompleteEvidence /\ PairRecordedOnce /\ ArmsDifferInTheIndex /\ CollectionRestored
=============================================================================
