--------------------------- MODULE DiagnosisAudit ---------------------------
(***************************************************************************)
(* The diagnosis of one run and the record of the AI calls made for it.    *)
(*                                                                         *)
(*   diagnosis/durable.py   DiagnosisService.create_for_run                *)
(*   runs/orchestrator.py   the DIAGNOSING stage                           *)
(*                                                                         *)
(* The AI is asked outside any transaction.  Its answer, or its failure,   *)
(* is recorded in a transaction of its own, and the artifact made from a   *)
(* recorded answer in a later one: a process may die between the two, and  *)
(* a worker that has lost its lease during the call goes on next to its    *)
(* successor until the check that precedes the transition.                 *)
(* A snapshot never changes, so neither does the hash of the input that    *)
(* an answer must have to be reused.                                       *)
(***************************************************************************)
EXTENDS Integers, Sequences, FiniteSets

CONSTANTS
    Workers,
    Answers,         \* what the AI may find: sets of grounded findings, abstracted
    NoArtifact,
    NoInvocation,
    MaxCalls         \* bound on the calls of create_for_run

\* What the constants have to be
DiagnosisConstants == MaxCalls \in Nat /\ NoArtifact \notin Nat

VARIABLES
    run,          \* status of the run
    invocations,  \* rows of ai_invocations with stage DIAGNOSIS, in the order of insertion
    artifact,     \* the row of diagnosis_artifacts
    pc,           \* where the calls are
    hand,         \* the recorded invocation and the answer a call goes on with
    attempt,      \* the number it has counted for the row it will insert
    calls

vars == <<run, invocations, artifact, pc, hand, attempt, calls>>

Points == {"idle", "load", "lookup", "ask", "count", "insert", "persist", "transition"}
\* The answer of a call that failed: provider error or output that fails validation
Failed == "failed"
Invocation == [attempt : 1..MaxCalls, answer : Answers \cup {Failed}]
Artifact == [invocation : DOMAIN invocations, findings : Answers]
Succeeded == {i \in DOMAIN invocations : invocations[i].answer # Failed}

TypeOK ==
    /\ run \in {"DIAGNOSING", "GENERATING_CANDIDATES"}
    /\ invocations \in Seq(Invocation)
    /\ artifact \in Artifact \cup {NoArtifact}
    /\ pc \in [Workers -> Points]
    /\ hand \in [Workers -> [invocation : DOMAIN invocations \cup {NoInvocation}, answer : Answers \cup {Failed}]]
    /\ attempt \in [Workers -> 0..MaxCalls]
    /\ calls \in 0..MaxCalls

\* _artifact_for_run: the run has its artifact, with its findings
Stored == artifact # NoArtifact

Empty == [invocation |-> NoInvocation, answer |-> Failed]

Init ==
    /\ run = "DIAGNOSING" /\ invocations = <<>> /\ artifact = NoArtifact
    /\ pc = [w \in Workers |-> "idle"]
    /\ hand = [w \in Workers |-> Empty]
    /\ attempt = [w \in Workers |-> 0]
    /\ calls = 0

Goto(w, point) == pc' = [pc EXCEPT ![w] = point]
Hold(w, i, answer) == hand' = [hand EXCEPT ![w] = [invocation |-> i, answer |-> answer]]
Min(S) == CHOOSE i \in S : \A j \in S : i <= j

\* A worker enters the stage; an artifact that is there is validated and returned.
enter(w) ==
    /\ run = "DIAGNOSING" /\ pc[w] = "idle" /\ calls < MaxCalls
    /\ calls' = calls + 1
    /\ Goto(w, IF Stored THEN "transition" ELSE "load")
    /\ hand' = [hand EXCEPT ![w] = Empty] /\ attempt' = [attempt EXCEPT ![w] = 0]
    /\ UNCHANGED <<run, invocations, artifact>>

\* _load_valid_run_snapshot with require_diagnosing
load(w) ==
    /\ pc[w] = "load" /\ run = "DIAGNOSING"
    /\ Goto(w, "lookup")
    /\ UNCHANGED <<run, invocations, artifact, hand, attempt, calls>>

\* _reusable_invocation: the earliest success for this input
lookup(w) ==
    /\ pc[w] = "lookup"
    /\ IF Succeeded # {} THEN Hold(w, Min(Succeeded), invocations[Min(Succeeded)].answer) /\ Goto(w, "persist")
       ELSE UNCHANGED hand /\ Goto(w, "ask")
    /\ UNCHANGED <<run, invocations, artifact, attempt, calls>>

\* diagnose_artifact and _validate_output: an answer or a failure
ask(w) ==
    /\ pc[w] = "ask"
    /\ \E answer \in Answers \cup {Failed} : Hold(w, NoInvocation, answer)
    /\ Goto(w, "count")
    /\ UNCHANGED <<run, invocations, artifact, attempt, calls>>

\* select count(*), the first statement of the recording transaction
count(w) ==
    /\ pc[w] = "count"
    /\ attempt' = [attempt EXCEPT ![w] = Len(invocations) + 1]
    /\ Goto(w, "insert")
    /\ UNCHANGED <<run, invocations, artifact, hand, calls>>

\* Its insert and commit.  After a failure create_for_run raises.
insert(w) ==
    /\ pc[w] = "insert"
    /\ invocations' = Append(invocations, [attempt |-> attempt[w], answer |-> hand[w].answer])
    /\ IF hand[w].answer = Failed THEN Goto(w, "idle") /\ UNCHANGED hand
       ELSE Goto(w, "persist") /\ Hold(w, Len(invocations'), hand[w].answer)
    /\ UNCHANGED <<run, artifact, attempt, calls>>

\* _persist_or_reuse that binds the artifact to the newest invocation
persist_Newest(w) ==
    /\ pc[w] = "persist"
    /\ Stored \/ run = "DIAGNOSING"
    /\ artifact' = IF Stored THEN artifact
                   ELSE [invocation |-> Len(invocations), findings |-> hand[w].answer]
    /\ Goto(w, "transition")
    /\ UNCHANGED <<run, invocations, hand, attempt, calls>>

\* _persist_or_reuse, under the lock of the run's row: the artifact that is there, or
\* one made from the answer in hand while the run is still DIAGNOSING
persist(w) ==
    /\ pc[w] = "persist"
    /\ Stored \/ run = "DIAGNOSING"
    /\ artifact' = IF Stored THEN artifact
                   ELSE [invocation |-> hand[w].invocation, findings |-> hand[w].answer]
    /\ Goto(w, "transition")
    /\ UNCHANGED <<run, invocations, hand, attempt, calls>>

\* DIAGNOSING -> GENERATING_CANDIDATES, which demands the artifact
transition(w) ==
    /\ pc[w] = "transition" /\ run = "DIAGNOSING" /\ Stored
    /\ run' = "GENERATING_CANDIDATES"
    /\ Goto(w, "idle")
    /\ UNCHANGED <<invocations, artifact, hand, attempt, calls>>

\* Any statement raises, the lease check fails or the process dies.
fails(w) ==
    /\ pc[w] # "idle"
    /\ Goto(w, "idle")
    /\ UNCHANGED <<run, invocations, artifact, hand, attempt, calls>>

step(w) ==
    \/ load(w) \/ lookup(w) \/ ask(w) \/ count(w) \/ insert(w) \/ persist(w) \/ transition(w)

Next == \E w \in Workers : enter(w) \/ step(w) \/ fails(w)

Spec == Init /\ [][Next]_vars

-----------------------------------------------------------------------------
(* Properties *)

\* persist: the artifact names a recorded, successful call and says what it answered,
\* whoever made the call and however many others answered meanwhile.
ArtifactIsAudited ==
    artifact # NoArtifact =>
        /\ artifact.invocation \in Succeeded
        /\ artifact.findings = invocations[artifact.invocation].answer

\* lookup: while calls do not overlap the AI answers once, whatever fails between
\* its answer and the artifact.
AnswerReused == Cardinality(Succeeded) <= 1

=============================================================================
