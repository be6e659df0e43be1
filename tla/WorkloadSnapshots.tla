------------------------- MODULE WorkloadSnapshots -------------------------
(***************************************************************************)
(* The snapshots of a run's workload (backend/app/workloads/durable.py)    *)
(* and the telemetry they are made of (telemetry/persistence.py).          *)
(*                                                                         *)
(* create_for_run is one READ COMMITTED transaction under the lock of the  *)
(* run's row: each statement sees what is committed when it starts, and    *)
(* windows may be committed between its statements.  persist_completed     *)
(* commits a window with its observations at once, some time after the     *)
(* window ended and not in the order of their ends.                        *)
(*                                                                         *)
(* A window stands for itself and its observations; its number is the      *)
(* order of its commit.                                                    *)
(***************************************************************************)
EXTENDS Integers, Sequences, FiniteSetsExt

CONSTANTS
    Workers, Runs, Targets,
    NoRun, NoSnapshot,
    Lookback,    \* LOOKBACK_SECONDS
    MaxAge,      \* MAX_SOURCE_AGE_SECONDS
    Delay,       \* how long after its end a window is committed, at most
    Length,      \* how long a window is, at most
    MaxTime, MaxWindows

SnapshotConstants ==
    /\ {Lookback, MaxAge, Delay, Length, MaxTime, MaxWindows} \subseteq Nat
    /\ NoRun \notin Runs

Window == [target : Targets, from : Int, until : Int]
Snapshot == [anchor : Int, sources : SUBSET Nat, read : Nat, before : Nat]
Points == {"idle", "begun", "anchored", "selected", "built", "inserted"}

VARIABLES
    now,
    windows,   \* telemetry_windows and their observations, in the order of their commits
    target,    \* of each run
    snapshot,  \* of each run: its snapshot with its source windows
    refused,   \* the runs whose snapshot met the evidence of another one
    pc, run, anchor, sources,  \* the transaction of each worker
    read,      \* when it looked for the newest window
    before     \* how many windows it could see then

transaction_vars == <<pc, run, anchor, sources, read, before>>
vars == <<now, windows, target, snapshot, refused, transaction_vars>>

TypeOK ==
    /\ now \in 0..MaxTime /\ windows \in Seq(Window) /\ target \in [Runs -> Targets]
    /\ snapshot \in [Runs -> Snapshot \cup {NoSnapshot}] /\ refused \subseteq Runs
    /\ pc \in [Workers -> Points] /\ run \in [Workers -> Runs \cup {NoRun}]
    /\ anchor \in [Workers -> Int] /\ sources \in [Workers -> SUBSET (1..Len(windows))]
    /\ read \in [Workers -> Nat] /\ before \in [Workers -> Nat]

Init ==
    /\ now = 0 /\ windows = <<>> /\ target \in [Runs -> Targets]
    /\ snapshot = [r \in Runs |-> NoSnapshot] /\ refused = {}
    /\ pc = [w \in Workers |-> "idle"] /\ run = [w \in Workers |-> NoRun]
    /\ anchor = [w \in Workers |-> 0] /\ sources = [w \in Workers |-> {}]
    /\ read = [w \in Workers |-> 0] /\ before = [w \in Workers |-> 0]

-----------------------------------------------------------------------------

tick ==
    /\ now < MaxTime /\ now' = now + 1
    /\ UNCHANGED <<windows, target, snapshot, refused, transaction_vars>>

persist_completed(t, from, until) ==
    /\ Len(windows) < MaxWindows
    /\ from \in until - Length..until /\ until \in now - Delay..now
    /\ windows' = Append(windows, [target |-> t, from |-> from, until |-> until])
    /\ UNCHANGED <<now, target, snapshot, refused, transaction_vars>>

\* The windows of a target
Of(t) == {i \in DOMAIN windows : windows[i].target = t}

\* The end of the transaction of w, and of its locks
End(w) ==
    /\ pc' = [pc EXCEPT ![w] = "idle"] /\ run' = [run EXCEPT ![w] = NoRun]
    /\ anchor' = [anchor EXCEPT ![w] = 0] /\ sources' = [sources EXCEPT ![w] = {}]
    /\ read' = [read EXCEPT ![w] = 0] /\ before' = [before EXCEPT ![w] = 0]

\* The run's row is locked.  A run with a snapshot keeps it.
begin(w, r) ==
    /\ pc[w] = "idle" /\ snapshot[r] = NoSnapshot
    /\ \A v \in Workers : run[v] # r
    /\ pc' = [pc EXCEPT ![w] = "begun"] /\ run' = [run EXCEPT ![w] = r]
    /\ UNCHANGED <<now, windows, target, snapshot, refused, anchor, sources, read, before>>

\* The first selection: the latest end, which must not be too old
newest(w) ==
    LET ends == {windows[i].until : i \in Of(target[run[w]])}
    IN /\ pc[w] = "begun"
       /\ IF ends = {} \/ now - Max(ends) > MaxAge THEN End(w)
          ELSE /\ anchor' = [anchor EXCEPT ![w] = Max(ends)]
               /\ read' = [read EXCEPT ![w] = now]
               /\ before' = [before EXCEPT ![w] = Len(windows)]
               /\ pc' = [pc EXCEPT ![w] = "anchored"]
               /\ UNCHANGED <<run, sources>>
       /\ UNCHANGED <<now, windows, target, snapshot, refused>>

\* A mistake: the window that begins with the lookback is not part of it
select_Strict(w) ==
    /\ pc[w] = "anchored"
    /\ sources' = [sources EXCEPT ![w] =
          {i \in Of(target[run[w]]) : windows[i].from > anchor[w] - Lookback /\ windows[i].until <= anchor[w]}]
    /\ pc' = [pc EXCEPT ![w] = "selected"]
    /\ UNCHANGED <<now, windows, target, snapshot, refused, run, anchor, read, before>>

\* The second selection: the windows in the lookback before that end
select(w) ==
    LET found == {i \in Of(target[run[w]]) :
                    windows[i].from >= anchor[w] - Lookback /\ windows[i].until <= anchor[w]}
    IN /\ pc[w] = "anchored"
       /\ IF found = {} THEN End(w)
          ELSE /\ sources' = [sources EXCEPT ![w] = found]
               /\ pc' = [pc EXCEPT ![w] = "selected"]
               /\ UNCHANGED <<run, anchor, read, before>>
       /\ UNCHANGED <<now, windows, target, snapshot, refused>>

\* _build_material reads the observations of the windows, which nothing changes; without
\* operations it raises
build(w) ==
    /\ pc[w] = "selected"
    /\ \/ pc' = [pc EXCEPT ![w] = "built"] /\ UNCHANGED <<run, anchor, sources, read, before>>
       \/ End(w)
    /\ UNCHANGED <<now, windows, target, snapshot, refused>>

\* The windows whose observations some snapshot has: source_metric_observation_id is unique
Frozen == UNION {snapshot[r].sources : r \in {r \in Runs : snapshot[r] # NoSnapshot}}

\* The rows of the snapshot are inserted, in the order of the observations, after those of
\* another transaction that has inserted one of them are decided
insert(w) ==
    /\ pc[w] = "built" /\ sources[w] \cap Frozen = {}
    /\ \A v \in Workers : pc[v] = "inserted" => sources[v] \cap sources[w] = {}
    /\ pc' = [pc EXCEPT ![w] = "inserted"]
    /\ UNCHANGED <<now, windows, target, snapshot, refused, run, anchor, sources, read, before>>

\* The unique index refuses an observation
refuse(w) ==
    /\ pc[w] = "built" /\ sources[w] \cap Frozen # {}
    /\ refused' = refused \cup {run[w]} /\ End(w)
    /\ UNCHANGED <<now, windows, target, snapshot>>

\* The run gets its snapshot, and the transaction is committed
commit(w) ==
    /\ pc[w] = "inserted"
    /\ snapshot' = [snapshot EXCEPT ![run[w]] =
          [anchor |-> anchor[w], sources |-> sources[w], read |-> read[w], before |-> before[w]]]
    /\ End(w) /\ UNCHANGED <<now, windows, target, refused>>

\* The worker dies or the database fails it
fails(w) == pc[w] # "idle" /\ End(w) /\ UNCHANGED <<now, windows, target, snapshot, refused>>

Next ==
    \/ tick
    \/ \E t \in Targets : \E until \in now - Delay..now : \E from \in until - Length..until :
          persist_completed(t, from, until)
    \/ \E w \in Workers :
        \/ \E r \in Runs : begin(w, r)
        \/ newest(w) \/ select(w) \/ build(w) \/ insert(w) \/ refuse(w) \/ commit(w) \/ fails(w)

Spec == Init /\ [][Next]_vars

-----------------------------------------------------------------------------
(* Properties *)

\* The snapshot of a run says what the policy asks for, although its two selections see
\* different windows: it ends with its newest window, which was fresh; it has every window of
\* its target in the lookback that was there when it looked for the newest, nothing later
\* than that window, nothing from outside the lookback or of another target, and no
\* evidence of another run.
SnapshotIsSound ==
    \A r \in Runs : snapshot[r] # NoSnapshot =>
        LET s == snapshot[r]
            seen == {i \in Of(target[r]) : i <= s.before}
            lookback == {i \in Of(target[r]) : windows[i].from >= s.anchor - Lookback /\ windows[i].until <= s.anchor}
        IN /\ s.read - s.anchor <= MaxAge
           /\ \E i \in s.sources : windows[i].until = s.anchor
           /\ seen \cap lookback \subseteq s.sources /\ s.sources \subseteq lookback
           /\ \A i \in seen : windows[i].until <= s.anchor
           /\ \A q \in Runs \ {r} : snapshot[q] # NoSnapshot => s.sources \cap snapshot[q].sources = {}

\* "completed windows ending at the most recent completed anchor" are all it takes: no run is
\* refused for anything but missing or stale telemetry.
PolicySuffices == refused = {}
=============================================================================
