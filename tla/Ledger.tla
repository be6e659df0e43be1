------------------------------- MODULE Ledger -------------------------------
(***************************************************************************)
(* The production ledger: one hash chain per target in PostgreSQL.         *)
(*                                                                         *)
(*   ledger/postgres.py   PostgresProductionLedger                         *)
(*   alembic 0008         UNIQUE(target_id, sequence), the append-only     *)
(*                        trigger                                          *)
(*                                                                         *)
(* append is one transaction under READ COMMITTED: it reads the chain's    *)
(* last row FOR UPDATE, inserts the successor and commits.  Its callers    *)
(* hold the target's advisory lock as a rule, but a lock dies with its     *)
(* connection, so the module lets any writers append at any time.          *)
(* An entry's hash stands for all it contains; as entry ids are unique and *)
(* rows never change, the id serves as the hash.                           *)
(***************************************************************************)
EXTENDS Integers, FiniteSets

CONSTANTS
    Writers, Targets,
    Entries,     \* entry ids (and so entry hashes)
    GENESIS_HASH

ASSUME LedgerConstants == GENESIS_HASH \notin Entries

VARIABLES
    rows,      \* production_ledger_entries, committed
    pc,        \* the writers' transactions
    appending, \* the target of each transaction
    prior,     \* the last row as the SELECT of each transaction found it
    pending,   \* the row each transaction has inserted and not committed
    drawn      \* entry ids given out by uuid4

vars == <<rows, pc, appending, prior, pending, drawn>>

None == [sequence |-> 0, entry |-> GENESIS_HASH]
Points == {"idle", "lock", "insert", "commit"}
Row == [target : Targets, sequence : Nat \ {0}, entry : Entries, previous_hash : Entries \cup {GENESIS_HASH}]
Prior == [sequence : Nat, entry : Entries \cup {GENESIS_HASH}]

TypeOK ==
    /\ rows \in SUBSET Row
    /\ pc \in [Writers -> Points]
    /\ appending \in [Writers -> Targets]
    /\ prior \in [Writers -> Prior]
    /\ pending \in [Writers -> SUBSET Row]
    /\ drawn \in SUBSET Entries

Init ==
    /\ rows = {}
    /\ pc = [w \in Writers |-> "idle"]
    /\ appending \in [Writers -> Targets]
    /\ prior = [w \in Writers |-> None]
    /\ pending = [w \in Writers |-> {}]
    /\ drawn = {}

Of(t) == {r \in rows : r.target = t}
Last(t) == {r \in Of(t) : \A q \in Of(t) : q.sequence <= r.sequence}

\* The row prior[w] is locked once w has passed its SELECT.
Locks(w) == pc[w] \in {"insert", "commit"} /\ prior[w] # None

\* The statement's snapshot: the last row committed now, if there is one.
select(w, t) ==
    /\ pc[w] = "idle"
    /\ appending' = [appending EXCEPT ![w] = t]
    /\ \/ Last(t) = {} /\ prior' = [prior EXCEPT ![w] = None]
       \/ \E r \in Last(t) : prior' = [prior EXCEPT ![w] = [sequence |-> r.sequence, entry |-> r.entry]]
    /\ pc' = [pc EXCEPT ![w] = "lock"]
    /\ UNCHANGED <<rows, pending, drawn>>

\* FOR UPDATE waits for the lock on that row; the row itself has not changed, so the
\* statement returns it, also when a successor has been committed meanwhile.
lock(w) ==
    /\ pc[w] = "lock"
    /\ prior[w] # None => \A v \in Writers : Locks(v) => prior[v] # prior[w]
    /\ pc' = [pc EXCEPT ![w] = "insert"]
    /\ UNCHANGED <<rows, appending, prior, pending, drawn>>

Successor(w, e) == [target |-> appending[w], sequence |-> prior[w].sequence + 1,
                    entry |-> e, previous_hash |-> prior[w].entry]

SameKey(r, q) == r.target = q.target /\ r.sequence = q.sequence

\* insert into a table without UNIQUE(target_id, sequence)
insert_NotUnique(w) ==
    /\ pc[w] = "insert"
    /\ \E e \in Entries \ drawn :
          /\ drawn' = drawn \cup {e}
          /\ pending' = [pending EXCEPT ![w] = {Successor(w, e)}]
    /\ pc' = [pc EXCEPT ![w] = "commit"]
    /\ UNCHANGED <<rows, appending, prior>>

\* UNIQUE(target_id, sequence): a committed row of the same key makes the statement
\* fail (see rollback), an uncommitted one makes it wait.
insert(w) ==
    /\ pc[w] = "insert"
    /\ \E e \in Entries \ drawn :
          /\ \A r \in rows : ~SameKey(r, Successor(w, e))
          /\ \A v \in Writers : \A r \in pending[v] : ~SameKey(r, Successor(w, e))
          /\ drawn' = drawn \cup {e}
          /\ pending' = [pending EXCEPT ![w] = {Successor(w, e)}]
    /\ pc' = [pc EXCEPT ![w] = "commit"]
    /\ UNCHANGED <<rows, appending, prior>>

\* commit that replaces the row of the key, an upsert
commit_Replaces(w) ==
    /\ pc[w] = "commit"
    /\ rows' = {r \in rows : r.sequence # prior[w].sequence} \cup pending[w]
    /\ pending' = [pending EXCEPT ![w] = {}]
    /\ pc' = [pc EXCEPT ![w] = "idle"]
    /\ UNCHANGED <<appending, prior, drawn>>

commit(w) ==
    /\ pc[w] = "commit"
    /\ rows' = rows \cup pending[w]
    /\ pending' = [pending EXCEPT ![w] = {}]
    /\ pc' = [pc EXCEPT ![w] = "idle"]
    /\ UNCHANGED <<appending, prior, drawn>>

\* The transaction fails, by the unique constraint or otherwise, or its process dies.
rollback(w) ==
    /\ pc[w] # "idle"
    /\ pending' = [pending EXCEPT ![w] = {}]
    /\ pc' = [pc EXCEPT ![w] = "idle"]
    /\ UNCHANGED <<rows, appending, prior, drawn>>

Next ==
    \E w \in Writers :
        \/ \E t \in Targets : select(w, t)
        \/ lock(w) \/ insert(w) \/ commit(w) \/ rollback(w)

Spec == Init /\ [][Next]_vars

-----------------------------------------------------------------------------
(* Properties *)

\* verify_target: in the order of their sequence the rows are numbered from one, and
\* each names the hash of the one before it.
verify_target(t) ==
    /\ \A r, q \in Of(t) : r.sequence = q.sequence => r = q
    /\ \A r \in Of(t) : \A n \in 1..r.sequence : \E q \in Of(t) : q.sequence = n
    /\ \A r \in Of(t) :
          \/ r.sequence = 1 /\ r.previous_hash = GENESIS_HASH
          \/ \E q \in Of(t) : q.sequence = r.sequence - 1 /\ q.entry = r.previous_hash

\* Whatever appends overlap, wait, fail and die, no chain has a fork or a gap: the
\* verification, which may run at any time, never reports an untampered chain.
ChainsVerify == \A t \in Targets : verify_target(t)

\* A row is neither changed nor removed, and a new one comes after all rows of its
\* target: the order of the commits is the order of the chain.
AppendedAtEnd ==
    [][/\ rows \subseteq rows'
       /\ \A r \in rows' \ rows : \A q \in Of(r.target) : q.sequence < r.sequence]_vars

=============================================================================
