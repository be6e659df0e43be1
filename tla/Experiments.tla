---------------------------- MODULE Experiments ----------------------------
(***************************************************************************)
(* The experiments: what is measured, recorded as passed, invalidated,     *)
(* verified and exported.                                                  *)
(*                                                                         *)
(*   scripts/experiment_orchestrator.py   one constituent after the other  *)
(*   scripts/run_commercebench_profile.py the process that measures one    *)
(*   benchmarks/r28_runner.py             its pairs of trials              *)
(*   scripts/invalidate_r28a_publication.py, invalidate_r28_evidence.py    *)
(*   scripts/check_r28_authoritative_evidence.py, generate_exports.py      *)
(*                                                                         *)
(* All state is files.  write_json replaces a file at once; a file of      *)
(* trials is written in place, so that a process that dies leaves a part.  *)
(* Orchestrations do not overlap ("heavy experiments run sequentially");   *)
(* the other scripts run whenever somebody runs them.                      *)
(***************************************************************************)
EXTENDS Integers, Sequences, SequencesExt, FiniteSets

CONSTANTS
    Standard,      \* constituents of one pair of trials
    Publication,   \* constituents of a whole sampling protocol
    Superseded,    \* publications of the generation before
    Legacy,        \* those before the fix, which nobody counts
    Calibration,   \* the number of A/A pairs, after which the noise is known
    Pairs,         \* the number of all pairs of a publication
    Noisy,         \* the publications whose calibration exceeds the limit
    Selections,    \* what the options of main may ask for; supervisor.py asks for all
    MaxLaunches, MaxFaults, MaxInvalidations

Commerce == Standard \cup Publication
Constituents == Commerce \cup {"safety", "nosql"}

ExperimentConstants ==
    /\ Noisy \subseteq Publication /\ (Superseded \cup Legacy) \cap Constituents = {}
    /\ Superseded \cap Legacy = {} /\ IsFiniteSet(Standard) /\ IsFiniteSet(Publication)
    /\ Selections \subseteq SUBSET {"standard", "publication", "safety", "nosql"}
    /\ Standard \cap Publication = {} /\ {"safety", "nosql"} \cap Commerce = {}
    /\ Pairs \in Nat /\ Calibration \in 1..Pairs - 1
    /\ MaxLaunches \in Nat /\ MaxFaults \in Nat /\ MaxInvalidations \in Nat

\* A file of trials is absent, empty, torn or short of an arm, whole, or whole with an arm
\* of which no operation succeeded
Files == {"absent", "empty", "part", "whole", "void"}
Statuses == {"PENDING", "RUNNING", "PASSED", "FAILED", "INVALID"}
Absent == [status |-> "ABSENT", items |-> <<>>]

VARIABLES
    top,          \* R28_AUTHORITATIVE_MANIFEST.json: its status and its constituents
    manifest,     \* the manifest of each constituent, which is the evidence of the benches
    files,        \* the files of trials of each commercebench constituent, by pair
    described,    \* those with a dataset manifest
    copies,       \* of each one before: its manifest, the copy, the copy of the copy...
    pc, selected, todo, forced, merged,  \* the orchestration
    at, rc,       \* its child: the pair it is at, how it ended
    exit,         \* how the last orchestration ended
    secrets,      \* temporary directories with keys
    left, held,   \* the invalidation: what is left to do, what it read of top
    faulted,      \* did the child meet a fault of its own
    launches, faults, invalidations

files_vars == <<top, manifest, files, described, copies>>
run_vars == <<pc, selected, todo, forced, merged, at, rc, exit, secrets, faulted>>
invalidation_vars == <<left, held, invalidations>>
vars == <<files_vars, run_vars, invalidation_vars, launches, faults>>

TypeOK ==
    /\ manifest \in [Constituents -> Statuses \cup {"ABSENT"}]
    /\ files \in [Commerce -> [1..Pairs -> Files]] /\ described \subseteq Commerce
    /\ DOMAIN top.items \subseteq Constituents \cup Superseded
    /\ pc \in {"idle", "next", "child", "pair", "writing", "exited", "recording"}
    /\ rc \in {0, 1} /\ at \in 1..Pairs + 1 /\ secrets \in Nat

\* Nothing yet, or a finished publication of the generation before
Init ==
    /\ \E before \in BOOLEAN :
        /\ top = IF before
                 THEN [status |-> "PASSED",
                       items |-> [n \in Superseded |-> [status |-> "PASSED", marked |-> FALSE]]]
                 ELSE Absent
        /\ copies = [n \in Superseded \cup Legacy |-> IF before THEN <<[status |-> "PASSED", original |-> "none"]>> ELSE <<>>]
    /\ manifest = [n \in Constituents |-> "ABSENT"] /\ described = {}
    /\ files = [n \in Commerce |-> [p \in 1..Pairs |-> "absent"]]
    /\ pc = "idle" /\ selected = {} /\ todo = <<>> /\ forced = FALSE /\ merged = <<>>
    /\ at = 1 /\ rc = 0 /\ exit = "none" /\ secrets = 0 /\ faulted = FALSE
    /\ left = <<>> /\ held = Absent /\ invalidations = 0 /\ launches = 0 /\ faults = 0

-----------------------------------------------------------------------------
(* benchmarks/orchestration.py *)

overall_status(statuses) ==
    CASE statuses = {} -> "PENDING"
      [] "INVALID" \in statuses -> "FAILED"
      [] statuses = {"PASSED"} -> "PASSED"
      [] "FAILED" \in statuses -> "FAILED"
      [] OTHER -> "RUNNING"

\* A mistake: the process ended, whatever it returned
status_for_returncode_Present(code, present) == IF present THEN "PASSED" ELSE "FAILED"

status_for_returncode(code, present) == IF code = 0 /\ present THEN "PASSED" ELSE "FAILED"

\* _persist
Persisted(m) == [status |-> overall_status({m[n] : n \in DOMAIN m}),
                 items |-> [n \in DOMAIN m |-> [status |-> m[n], marked |-> FALSE]]]

-----------------------------------------------------------------------------
(* The orchestration *)

\* The order of orchestrate: standard, publication, the benches
Planned(profiles) ==
    (IF "standard" \in profiles THEN SetToSeq(Standard) ELSE <<>>)
    \o (IF "publication" \in profiles THEN SetToSeq(Publication) ELSE <<>>)
    \o (IF "safety" \in profiles THEN <<"safety">> ELSE <<>>)
    \o (IF "nosql" \in profiles THEN <<"nosql">> ELSE <<>>)

\* _load_existing does not expect a key that Constituent has not, and raises
Loadable == \A n \in DOMAIN top.items : ~top.items[n].marked

launch(profiles, force) ==
    /\ pc = "idle" /\ launches < MaxLaunches
    /\ launches' = launches + 1
    /\ IF Loadable
       THEN LET kept == DOMAIN top.items \ Superseded
                m == [n \in kept \cup ToSet(Planned(profiles)) |->
                        IF n \in kept THEN top.items[n].status ELSE "PENDING"]
            IN /\ merged' = m /\ top' = Persisted(m)
               /\ todo' = Planned(profiles) /\ selected' = ToSet(Planned(profiles))
               /\ forced' = force /\ pc' = "next" /\ exit' = "none"
       ELSE exit' = "raised" /\ UNCHANGED <<merged, top, todo, selected, forced, pc>>
    /\ UNCHANGED <<manifest, files, described, copies, at, rc, secrets, faulted, invalidation_vars, faults>>

Now == Head(todo)

\* A constituent is done with: into the merged ones, and the manifest of all is written
Recorded(status) ==
    /\ merged' = [merged EXCEPT ![Now] = status]
    /\ top' = Persisted(merged') /\ todo' = Tail(todo) /\ pc' = "next"

\* Its manifest says PASSED
reuse ==
    /\ pc = "next" /\ todo # <<>> /\ ~forced /\ manifest[Now] = "PASSED"
    /\ Recorded("PASSED")
    /\ UNCHANGED <<manifest, files, described, copies, selected, forced, at, rc, exit, secrets, faulted,
                   invalidation_vars, launches, faults>>

\* The command is started; for nosqlbench with keys of its own
begin ==
    /\ pc = "next" /\ todo # <<>> /\ (forced \/ manifest[Now] # "PASSED")
    /\ manifest' = IF Now \in Commerce THEN [manifest EXCEPT ![Now] = "RUNNING"] ELSE manifest
    /\ secrets' = IF Now = "nosql" THEN secrets + 1 ELSE secrets
    /\ pc' = "child" /\ at' = 1 /\ faulted' = FALSE
    /\ UNCHANGED <<top, files, described, copies, selected, todo, forced, merged, rc, exit,
                   invalidation_vars, launches, faults>>

\* provision_bench_environment raises: the bench has failed without a command
unprovisioned ==
    /\ pc = "child" /\ Now = "nosql" /\ faults < MaxFaults /\ faults' = faults + 1
    /\ manifest' = [manifest EXCEPT ![Now] = "FAILED"] /\ secrets' = secrets - 1
    /\ pc' = "recording" /\ faulted' = TRUE
    /\ UNCHANGED <<top, files, described, copies, selected, todo, forced, merged, at, rc, exit,
                   invalidation_vars, launches>>

Exits(code) == pc' = "exited" /\ rc' = code

-----------------------------------------------------------------------------
(* The child *)

\* run_single_pair refuses a file that is there; run_publication writes dataset.json first
child_begins ==
    /\ pc = "child" /\ Now \in Commerce
    /\ IF Now \in Standard
       THEN /\ IF files[Now][1] # "absent" THEN Exits(1) ELSE pc' = "pair" /\ rc' = rc
            /\ described' = described
       ELSE pc' = "pair" /\ rc' = rc /\ described' = described \cup {Now}
    /\ UNCHANGED <<top, manifest, files, copies, selected, todo, forced, merged, at, exit, secrets, faulted,
                   invalidation_vars, launches, faults>>

\* _pair_p99 of the pairs up to now
Readable == \A p \in 1..at - 1 : files[Now][p] = "whole"

\* After the A/A pairs of a publication its noise decides, and after the last pair the gate
Calibrated == Now \in Publication /\ at = Calibration + 1

\* A mistake: every pair is measured
Measured_Never(file) == FALSE

\* _ensure_pair
Measured(file) == file \notin {"absent", "empty"}

\* _ensure_pair keeps what is there; run_pair opens a file and writes both arms
ensure_pair ==
    /\ pc = "pair" /\ at <= (IF Now \in Standard THEN 1 ELSE Pairs)
    /\ Calibrated => Readable /\ Now \notin Noisy
    /\ IF Measured(files[Now][at])
       THEN at' = at + 1 /\ UNCHANGED <<files, pc>>
       ELSE files' = [files EXCEPT ![Now][at] = "empty"] /\ pc' = "writing" /\ at' = at
    /\ UNCHANGED <<top, manifest, described, copies, selected, todo, forced, merged, rc, exit, secrets,
                   faulted, invalidation_vars, launches, faults>>

persist(file) ==
    /\ pc = "writing" /\ file \in {"whole", "void"} /\ (file = "void" => faults < MaxFaults)
    /\ files' = [files EXCEPT ![Now][at] = file]
    /\ faulted' = (faulted \/ file = "void") /\ faults' = IF file = "void" THEN faults + 1 ELSE faults
    /\ at' = at + 1 /\ pc' = "pair"
    /\ UNCHANGED <<top, manifest, described, copies, selected, todo, forced, merged, rc, exit, secrets,
                   invalidation_vars, launches>>

\* The pairs are there: a standard one is described; a publication raises if one of its pairs
\* cannot be read, and ends with its calibration if that is too noisy
conclude ==
    /\ pc = "pair"
    /\ IF Now \in Standard
       THEN at = 2 /\ Exits(0) /\ described' = described \cup {Now}
       ELSE /\ \/ Calibrated /\ (~Readable \/ Now \in Noisy)
               \/ at = Pairs + 1
            /\ Exits(IF Readable THEN 0 ELSE 1) /\ described' = described
    /\ UNCHANGED <<top, manifest, files, copies, selected, todo, forced, merged, at, exit, secrets, faulted,
                   invalidation_vars, launches, faults>>

\* What it leaves of a file it was writing
Torn(n) == IF pc = "writing" THEN \E f \in {"empty", "part"} : files' = [files EXCEPT ![n][at] = f]
           ELSE UNCHANGED files

\* MongoDB, the model or the disk fail it
child_fails ==
    /\ pc \in {"child", "pair", "writing"} /\ faults < MaxFaults
    /\ faults' = faults + 1 /\ faulted' = TRUE
    /\ Torn(Now) /\ Exits(1)
    /\ UNCHANGED <<top, manifest, described, copies, selected, todo, forced, merged, at, exit, secrets,
                   invalidation_vars, launches>>

\* The suites of safetybench and nosqlbench
bench_passes ==
    /\ pc = "child" /\ Now \notin Commerce /\ Exits(0)
    /\ UNCHANGED <<files_vars, selected, todo, forced, merged, at, exit, secrets, faulted,
                   invalidation_vars, launches, faults>>

-----------------------------------------------------------------------------
(* Back in the orchestration *)

EvidencePresent(n) == n \in Standard => files[n][1] # "absent"

\* _finish, and the manifest of the constituent; then nosqlbench discards its keys
finish ==
    /\ pc = "exited"
    /\ manifest' = [manifest EXCEPT ![Now] = status_for_returncode(rc, EvidencePresent(Now))]
    /\ secrets' = IF Now = "nosql" THEN secrets - 1 ELSE secrets
    /\ pc' = "recording"
    /\ UNCHANGED <<top, files, described, copies, selected, todo, forced, merged, at, rc, exit, faulted,
                   invalidation_vars, launches, faults>>

record ==
    /\ pc = "recording" /\ Recorded(manifest[Now])
    /\ UNCHANGED <<manifest, files, described, copies, selected, forced, at, rc, exit, secrets, faulted,
                   invalidation_vars, launches, faults>>

\* What the process knew is gone
Over == /\ pc' = "idle" /\ todo' = <<>> /\ forced' = FALSE /\ merged' = <<>>
        /\ at' = 1 /\ rc' = 0 /\ faulted' = FALSE

\* The last write; the process returns 0 if and only if everything has passed
complete ==
    /\ pc = "next" /\ todo = <<>>
    /\ top' = Persisted(merged) /\ Over
    /\ exit' = IF Persisted(merged).status = "PASSED" THEN "ok" ELSE "failed"
    /\ UNCHANGED <<manifest, files, described, copies, selected, secrets, invalidation_vars, launches, faults>>

\* The machine goes down, or docker is not there, which raises what run_nosqlbench does not catch
crash ==
    /\ pc # "idle" /\ faults < MaxFaults /\ faults' = faults + 1
    /\ Over /\ exit' = "crashed" /\ selected' = {}
    /\ \/ left' = <<>> /\ held' = Absent
       \/ pc = "child" /\ Now = "nosql" /\ UNCHANGED <<left, held>>
    /\ IF pc = "writing" THEN Torn(Now) ELSE UNCHANGED files
    /\ UNCHANGED <<top, manifest, described, copies, secrets, invalidations, launches>>

-----------------------------------------------------------------------------
(* The other scripts *)

\* glob: the manifests in their order.  That of invalidate_r28a_publication finds the copies
\* of earlier invalidations as well, that of invalidate_r28_evidence does not.
invalidate(script) ==
    /\ left = <<>> /\ invalidations < MaxInvalidations
    /\ invalidations' = invalidations + 1
    /\ LET Found(n) == IF n \in Legacy THEN <<<<n, 1>>>> ELSE [i \in 1..Len(copies[n]) |-> <<n, i>>]
           All(names) == FlattenSeq([k \in 1..Cardinality(names) |-> Found(SetToSeq(names)[k])])
       IN left' = IF script = "r28" THEN All({n \in Legacy : copies[n] # <<>>})
                  ELSE All(Superseded) \o <<<<"read", 0>>, <<"write", 0>>>>
    /\ UNCHANGED <<files_vars, run_vars, held, launches, faults>>

\* shutil.copy2, unless there is a copy
Copied(c, i) == IF Len(c) = i THEN Append(c, c[i]) ELSE c

Marked(m) == [status |-> "INVALID", original |-> m.status]

\* One of them gets its copy and its new status
mark ==
    LET n == Head(left)[1]
        i == Head(left)[2]
        copied == Copied(copies[n], i)
    IN /\ left # <<>> /\ i > 0
       /\ copies' = [copies EXCEPT ![n] = [copied EXCEPT ![i] = Marked(@)]]
       /\ left' = Tail(left)
       /\ UNCHANGED <<top, manifest, files, described, run_vars, held, invalidations, launches, faults>>

\* _mark_top_manifest reads the manifest of all and writes it back
read_top ==
    /\ left # <<>> /\ Head(left)[1] = "read"
    /\ held' = [top EXCEPT !.items = [n \in DOMAIN top.items |-> [top.items[n] EXCEPT !.marked = @ \/ n \in Superseded]]]
    /\ left' = Tail(left)
    /\ UNCHANGED <<files_vars, run_vars, invalidations, launches, faults>>

write_top ==
    /\ left # <<>> /\ Head(left)[1] = "write"
    /\ top' = (IF held = Absent THEN top ELSE held)
    /\ held' = Absent /\ left' = Tail(left)
    /\ UNCHANGED <<manifest, files, described, copies, run_vars, invalidations, launches, faults>>

\* check_r28_authoritative_evidence.py returns 0
Verified ==
    /\ top.status = "PASSED" /\ Constituents \subseteq DOMAIN top.items
    /\ \A n \in Constituents : top.items[n].status = "PASSED"
    /\ \A n \in Commerce : n \in described /\ \E p \in 1..Pairs : files[n][p] # "absent"
    /\ \A n \in Commerce : \A p \in 1..Pairs : files[n][p] # "part"

\* authoritative_sources of generate_exports.py, which looks for the classification of the
\* pre-fix runs alone
Exported == {n \in DOMAIN top.items : top.items[n].status = "PASSED"} \ {"safety", "nosql"}

Next ==
    \/ \E profiles \in Selections, force \in BOOLEAN : launch(profiles, force)
    \/ reuse \/ begin \/ unprovisioned \/ child_begins \/ ensure_pair
    \/ \E file \in Files : persist(file)
    \/ conclude \/ child_fails \/ bench_passes \/ finish \/ record \/ complete \/ crash
    \/ \E script \in {"r28", "r28a"} : invalidate(script)
    \/ mark \/ read_top \/ write_top

Spec == Init /\ [][Next]_vars

-----------------------------------------------------------------------------
(* Properties *)

\* What stands behind a constituent that passed: its pairs, which nobody has torn
Evidenced(n) ==
    /\ n \in described
    /\ IF n \in Standard THEN files[n][1] \in {"whole", "void"}
       ELSE \A p \in 1..(IF n \in Noisy THEN Calibration ELSE Pairs) : files[n][p] = "whole"

\* "fail-closed": neither a crash between two writes, nor a repetition, nor an invalidation that
\* writes back what it read leaves a PASSED constituent without its whole evidence; an
\* orchestration that returns 0 has passed all it was told to run; what the check has verified
\* is what is exported, and nothing superseded with it; every superseded result can
\* still be read in one of its copies; and keys remain only of a bench that died.
EvidenceIsWhole ==
    /\ \A n \in Commerce :
          (manifest[n] = "PASSED" \/ (n \in DOMAIN top.items /\ top.items[n].status = "PASSED")) => Evidenced(n)
    /\ exit = "ok" /\ pc = "idle" => \A n \in selected : manifest[n] = "PASSED"
    /\ Verified => Exported = Commerce
    /\ \A n \in DOMAIN copies : copies[n] # <<>> =>
          \E i \in 1..Len(copies[n]) : "PASSED" \in {copies[n][i].status, copies[n][i].original}
    /\ secrets <= faults + (IF pc # "idle" /\ todo # <<>> /\ Now = "nosql" THEN 1 ELSE 0)

\* "existing pair evidence is never re-run or overwritten", and what was measured stays
MeasuredOnce ==
    [][\A n \in Commerce : \A p \in 1..Pairs :
          files[n][p] \in {"whole", "void"} => files'[n][p] = files[n][p]]_vars

\* "Resumable": a constituent that is run again and meets no fault passes
Resumable == [][pc = "exited" /\ pc' = "recording" /\ ~faulted => manifest'[Now] = "PASSED"]_vars

\* "so they can never be mixed with the r28b authoritative run"
SupersededStaysOut == \A n \in DOMAIN top.items : top.items[n].marked => n \notin Exported

\* "so re-invocations merge": also after an invalidation
LaunchReads == exit # "raised"
=============================================================================
