----------------------------- MODULE MCRecords -----------------------------
(***************************************************************************)
(* The records that several workers write to PostgreSQL, side by side: the *)
(* production ledger, the audited diagnosis of a run, the snapshots of a   *)
(* target's workload, and the sessions of a user.  They share no rows, so  *)
(* it is enough to explore one of them at a time: acting names the one     *)
(* whose steps are taken, the others stay as they began.                   *)
(***************************************************************************)
EXTENDS Ledger, Sequences, TLC

CONSTANTS
    Acting,      \* the components to explore
    Workers, Runs,
    \* constants of DiagnosisAudit, of WorkloadSnapshots, and of Sessions, whose clock is another
    Answers, NoArtifact, NoInvocation, MaxCalls,
    NoRun, NoSnapshot, Lookback, MaxAge, Delay, Length, MaxTime, MaxWindows,
    FAILED_LOGIN_LIMIT, LOCKOUT_DURATION, Lifetime, SessionTime, MaxTokens, MaxChecks

VARIABLES
    acting,
    diagnosed, invocations, artifact, diagnosis_pc, hand, attempt, calls,
    now, windows, target, snapshot, snapshot_pc, run, anchor, sources, read, before, refused,
    clock, user, tokens, held, session_pc, at, of, login_of, logins, checks

diagnosis_vars == <<diagnosed, invocations, artifact, diagnosis_pc, hand, attempt, calls>>
snapshot_vars ==
    <<now, windows, target, snapshot, snapshot_pc, run, anchor, sources, read, before, refused>>
session_vars == <<clock, user, tokens, held, session_pc, at, of, login_of, logins, checks>>
allvars == <<acting, vars, diagnosis_vars, snapshot_vars, session_vars>>

Diagnosis == INSTANCE DiagnosisAudit WITH
    run <- diagnosed, pc <- diagnosis_pc

Snapshots == INSTANCE WorkloadSnapshots WITH
    pc <- snapshot_pc

Users == INSTANCE Sessions WITH
    Requests <- Workers, MaxTime <- SessionTime, pc <- session_pc, chain <- login_of

ASSUME RecordsConstants == Diagnosis!DiagnosisConstants /\ Snapshots!SnapshotConstants /\ Users!SessionConstants

AllInit ==
    /\ acting \in Acting
    /\ Init /\ Diagnosis!Init /\ Snapshots!Init /\ Users!Init
    /\ \E t \in Targets :
        /\ acting = "ledger" \/ appending = [w \in Writers |-> t]
        /\ acting = "snapshots" \/ target = [r \in Runs |-> t]

\* Entry ids are interchangeable, so they are drawn in one order.  With "one diagnosis" a
\* call begins when no other is under way.  "passwords" has one refresh token at most, and
\* "tokens" two logins, with the right password.
AllNext ==
    \/ /\ acting = "ledger" /\ Next /\ drawn' = 1..Cardinality(drawn')
       /\ UNCHANGED <<acting, diagnosis_vars, snapshot_vars, session_vars>>
    \/ /\ acting \in {"diagnosis", "one diagnosis"}
       /\ Diagnosis!Next
       /\ acting = "one diagnosis" => \A v, w \in Workers : diagnosis_pc'[v] # "idle" /\ diagnosis_pc'[w] # "idle" => v = w
       /\ UNCHANGED <<acting, vars, snapshot_vars, session_vars>>
    \/ acting = "snapshots" /\ Snapshots!Next /\ UNCHANGED <<acting, vars, diagnosis_vars, session_vars>>
    \/ /\ acting \in {"passwords", "tokens"} /\ Users!Next
       /\ acting = "passwords" => Len(tokens') <= 1
       /\ acting = "tokens" => clock' <= 2 /\ \A i \in DOMAIN checks' : i <= 2 /\ checks'[i].good
       /\ UNCHANGED <<acting, vars, diagnosis_vars, snapshot_vars>>

AllSpec == AllInit /\ [][AllNext]_allvars

Symmetry == Permutations(Targets) \cup Permutations(Workers) \cup Permutations(Runs)

-----------------------------------------------------------------------------
(* The properties of the components, which say what they are about *)

\* lookup and persist: the artifact names a recorded, successful call and says what it
\* answered, whoever made the call and however many others answered meanwhile; and while
\* calls do not overlap the AI answers once, whatever fails before the artifact.
DiagnosisIsSound ==
    /\ Diagnosis!ArtifactIsAudited
    /\ acting = "one diagnosis" => Diagnosis!AnswerReused

\* What two statements of one transaction select among windows that are written meanwhile
\* is what the policy asks for, all of it, and evidence of no other run.
SnapshotIsSound == Snapshots!SnapshotIsSound

\* login, refresh and logout, overlapping: a refresh token is used once, a login has one
\* valid token, and a lockout holds for a request that read the clock before it.
SessionsAreSound == Users!SessionsAreSound

-----------------------------------------------------------------------------
(* What the documentation claims and the code does not keep *)

\* The R19E policy: a run for whose target fresh windows exist is not refused.
PolicySuffices == Snapshots!PolicySuffices
=============================================================================
