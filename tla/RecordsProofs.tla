---------------------------- MODULE RecordsProofs ----------------------------
(***************************************************************************)
(* Proofs about the records that workers write next to each other, for     *)
(* every set of writers, workers, runs and targets, and for every value of *)
(* the limits: the production ledger (Ledger), the audited diagnosis of a  *)
(* run (DiagnosisAudit), the snapshots of a workload (WorkloadSnapshots)   *)
(* and the sessions of a user (Sessions).                                  *)
(***************************************************************************)
EXTENDS MCRecords, FiniteSetTheorems, SequenceTheorems, WellFoundedInduction, TLAPS

\* What a transaction read is the chain's start or a committed row of its target.
PriorCommitted ==
    \A w \in Writers : pc[w] # "idle" =>
        \/ prior[w] = None
        \/ \E r \in rows : /\ r.target = appending[w]
                          /\ r.sequence = prior[w].sequence /\ r.entry = prior[w].entry

\* What a transaction has inserted is one row, and succeeds what it read.
PendingSucceeds ==
    \A w \in Writers : \A r \in pending[w] :
        /\ pc[w] = "commit"
        /\ r = Successor(w, r.entry)
        /\ \A q \in pending[w] : q = r

\* UNIQUE(target_id, sequence) over committed and uncommitted rows
KeysUnique ==
    /\ \A r, q \in rows : SameKey(r, q) => r = q
    /\ \A w \in Writers : \A r \in pending[w] : \A q \in rows : ~SameKey(r, q)
    /\ \A v, w \in Writers : \A r \in pending[v] : \A q \in pending[w] :
          v # w => ~SameKey(r, q)

NoGaps == \A r \in rows : \A n \in 1..r.sequence : \E q \in Of(r.target) : q.sequence = n

Linked ==
    \A r \in rows :
        \/ r.sequence = 1 /\ r.previous_hash = GENESIS_HASH
        \/ \E q \in Of(r.target) : q.sequence = r.sequence - 1 /\ q.entry = r.previous_hash

\* The inductive invariant: a transaction that is about to insert knows a committed
\* row, and it may insert only a key that nobody else has.
IInv == TypeOK /\ PriorCommitted /\ PendingSucceeds /\ KeysUnique /\ NoGaps /\ Linked

-----------------------------------------------------------------------------

LEMMA NoneType == None \in Prior
    BY DEF None, Prior

LEMMA InitIInv == Init => IInv
  <1> SUFFICES ASSUME Init PROVE IInv
    OBVIOUS
  <1>1. TypeOK
    BY NoneType DEF Init, TypeOK, Points
  <1>2. PriorCommitted /\ PendingSucceeds /\ KeysUnique /\ NoGaps /\ Linked
    BY DEF Init, PriorCommitted, PendingSucceeds, KeysUnique, NoGaps, Linked
  <1> QED
    BY <1>1, <1>2 DEF IInv

\* The row a transaction may insert
LEMMA SuccessorType ==
    ASSUME TypeOK, NEW w \in Writers, NEW e \in Entries
    PROVE  /\ Successor(w, e) \in Row
           /\ Successor(w, e).sequence = prior[w].sequence + 1
           /\ Successor(w, e).target = appending[w]
           /\ Successor(w, e).entry = e
    BY DEF TypeOK, Successor, Row, Prior

\* Steps that change neither rows nor pending rows keep what is said about them.
LEMMA RowsUnchanged ==
    ASSUME IInv, UNCHANGED <<rows, pending>>
    PROVE  KeysUnique' /\ NoGaps' /\ Linked'
    BY DEF IInv, KeysUnique, NoGaps, Linked, Of, SameKey

LEMMA SelectIInv ==
    ASSUME IInv, NEW w \in Writers, NEW t \in Targets, select(w, t)
    PROVE  IInv'
  <1>1. pc[w] = "idle" /\ pending[w] = {}
    <2>1. \A r \in pending[w] : FALSE
      BY DEF IInv, PendingSucceeds, select
    <2> QED
      BY <2>1 DEF select
  <1>2. prior'[w] = None \/ \E r \in Of(t) : prior'[w] = [sequence |-> r.sequence, entry |-> r.entry]
    BY DEF select, Last, IInv, TypeOK
  <1>3. TypeOK'
    <2>1. prior'[w] \in Prior
      <3>1. CASE prior'[w] = None
        BY <3>1, NoneType
      <3>2. ASSUME NEW r \in Of(t), prior'[w] = [sequence |-> r.sequence, entry |-> r.entry]
            PROVE  prior'[w] \in Prior
        <4>1. r \in Row
          BY DEF IInv, TypeOK, Of
        <4>2. r.sequence \in Nat /\ r.entry \in Entries
          BY <4>1 DEF Row
        <4> QED
          BY <3>2, <4>2 DEF Prior
      <3> QED
        BY <1>2, <3>1, <3>2
    <2>2. prior' \in [Writers -> Prior]
      BY <2>1 DEF select, IInv, TypeOK
    <2> QED
      BY <2>2 DEF select, IInv, TypeOK, Points
  <1>4. PriorCommitted'
    <2> SUFFICES ASSUME NEW v \in Writers, pc'[v] # "idle", prior'[v] # None
                 PROVE  \E r \in rows' : /\ r.target = appending'[v]
                                          /\ r.sequence = prior'[v].sequence /\ r.entry = prior'[v].entry
      BY DEF PriorCommitted, None
    <2>1. CASE v = w
      <3>1. appending'[v] = t
        BY <2>1 DEF select, IInv, TypeOK
      <3>2. rows' = rows
        BY DEF select
      <3>3. \E r \in Of(t) : prior'[w] = [sequence |-> r.sequence, entry |-> r.entry]
        BY <1>2, <2>1 DEF None
      <3> QED
        BY <2>1, <3>1, <3>2, <3>3 DEF Of
    <2>2. CASE v # w
      <3>1. pc'[v] = pc[v] /\ prior'[v] = prior[v] /\ appending'[v] = appending[v] /\ rows' = rows
        BY <2>2 DEF select, IInv, TypeOK
      <3> QED
        BY <3>1 DEF IInv, PriorCommitted
    <2> QED
      BY <2>1, <2>2
  <1>5. PendingSucceeds'
    <2> SUFFICES ASSUME NEW v \in Writers, NEW r \in pending'[v]
                 PROVE  /\ pc'[v] = "commit" /\ r = Successor(v, r.entry)'
                        /\ \A q \in pending'[v] : q = r
      BY DEF PendingSucceeds
    <2>1. pending' = pending /\ v # w
      BY <1>1 DEF select
    <2>2. pc'[v] = pc[v] /\ prior'[v] = prior[v] /\ appending'[v] = appending[v]
      BY <2>1 DEF select, IInv, TypeOK
    <2> QED
      BY <2>1, <2>2 DEF IInv, PendingSucceeds, Successor
  <1>6. KeysUnique' /\ NoGaps' /\ Linked'
    BY RowsUnchanged DEF select
  <1> QED
    BY <1>3, <1>4, <1>5, <1>6 DEF IInv

LEMMA LockIInv ==
    ASSUME IInv, NEW w \in Writers, lock(w)
    PROVE  IInv'
  <1>1. TypeOK'
    BY DEF IInv, TypeOK, lock, Points
  <1>2. \A v \in Writers : (pc'[v] # "idle" <=> pc[v] # "idle") /\ (pc'[v] = "commit" <=> pc[v] = "commit")
    BY DEF IInv, TypeOK, lock
  <1>3. PriorCommitted'
    BY <1>2 DEF IInv, PriorCommitted, lock, Of
  <1>4. PendingSucceeds'
    BY <1>2 DEF IInv, PendingSucceeds, lock, Successor
  <1>5. KeysUnique' /\ NoGaps' /\ Linked'
    BY RowsUnchanged DEF lock
  <1> QED
    BY <1>1, <1>3, <1>4, <1>5 DEF IInv

LEMMA InsertIInv ==
    ASSUME IInv, NEW w \in Writers, insert(w)
    PROVE  IInv'
  <1>1. PICK e \in Entries \ drawn :
          /\ \A r \in rows : ~SameKey(r, Successor(w, e))
          /\ \A v \in Writers : \A r \in pending[v] : ~SameKey(r, Successor(w, e))
          /\ drawn' = drawn \cup {e}
          /\ pending' = [pending EXCEPT ![w] = {Successor(w, e)}]
    BY DEF insert
  <1> DEFINE s == Successor(w, e)
  <1>2. /\ s \in Row /\ s.entry = e
        /\ s.target = appending[w] /\ s.sequence = prior[w].sequence + 1
    BY SuccessorType DEF IInv
  <1>3. /\ pc' = [pc EXCEPT ![w] = "commit"] /\ pc[w] = "insert"
        /\ UNCHANGED <<rows, appending, prior>>
    BY DEF insert
  <1>4. pending'[w] = {s} /\ \A v \in Writers : v # w => pending'[v] = pending[v]
    BY <1>1 DEF IInv, TypeOK
  <1>5. \A v \in Writers : v # w => pc'[v] = pc[v]
    BY <1>3 DEF IInv, TypeOK
  <1>5a. pc'[w] = "commit"
    BY <1>3 DEF IInv, TypeOK
  <1> HIDE DEF s
  <1>6. TypeOK'
    <2>1. pending' \in [Writers -> SUBSET Row]
      BY <1>1, <1>2 DEF IInv, TypeOK, s
    <2> QED
      BY <1>1, <1>3, <2>1 DEF IInv, TypeOK, Points
  <1>7. PriorCommitted'
    BY <1>3, <1>5 DEF IInv, PriorCommitted, Of
  <1>8. PendingSucceeds'
    <2> SUFFICES ASSUME NEW v \in Writers, NEW r \in pending'[v]
                 PROVE  /\ pc'[v] = "commit" /\ r = Successor(v, r.entry)'
                        /\ \A q \in pending'[v] : q = r
      BY DEF PendingSucceeds
    <2>1. Successor(v, r.entry)' = Successor(v, r.entry)
      BY <1>3 DEF Successor
    <2>2. CASE v = w
      <3>1. r = s
        BY <1>4, <2>2
      <3>2. r = Successor(v, r.entry)
        BY <1>2, <2>2, <3>1 DEF s
      <3> QED
        BY <1>4, <1>5a, <2>1, <2>2, <3>1, <3>2
    <2>3. CASE v # w
      BY <1>4, <1>5, <2>1, <2>3 DEF IInv, PendingSucceeds
    <2> QED
      BY <2>2, <2>3
  <1>9. KeysUnique'
    <2>1. \A r \in rows : ~SameKey(r, s) /\ ~SameKey(s, r)
      BY <1>1 DEF SameKey, s
    <2>2. \A v \in Writers : \A r \in pending[v] : ~SameKey(r, s) /\ ~SameKey(s, r)
      BY <1>1 DEF SameKey, s
    <2>3. \A r, q \in rows' : SameKey(r, q) => r = q
      BY <1>3 DEF IInv, KeysUnique
    <2>4. \A v \in Writers : \A r \in pending'[v] : \A q \in rows' : ~SameKey(r, q)
      BY <1>3, <1>4, <2>1 DEF IInv, KeysUnique
    <2>5. \A v, u \in Writers : \A r \in pending'[v] : \A q \in pending'[u] : v # u => ~SameKey(r, q)
      BY <1>4, <2>2 DEF IInv, KeysUnique
    <2> QED
      BY <2>3, <2>4, <2>5 DEF KeysUnique, SameKey
  <1>10. NoGaps' /\ Linked'
    BY <1>3 DEF IInv, NoGaps, Linked, Of
  <1> QED
    BY <1>6, <1>7, <1>8, <1>9, <1>10 DEF IInv

\* The one step that adds rows: its row succeeds a committed one, or starts the chain.
LEMMA CommitRow ==
    ASSUME IInv, NEW w \in Writers, commit(w), NEW r \in rows', r \notin rows
    PROVE  /\ r \in pending[w] /\ r \in Row
           /\ r.target = appending[w] /\ r.sequence = prior[w].sequence + 1
           /\ r.previous_hash = prior[w].entry
           /\ \/ prior[w].sequence = 0 /\ prior[w].entry = GENESIS_HASH
              \/ \E q \in Of(r.target) : q.sequence = prior[w].sequence /\ q.entry = prior[w].entry
  <1>1. r \in pending[w] /\ r \in Row
    BY DEF commit, IInv, TypeOK
  <1>2. r = Successor(w, r.entry)
    BY <1>1 DEF IInv, PendingSucceeds
  <1>3. /\ r.target = appending[w] /\ r.sequence = prior[w].sequence + 1
        /\ r.previous_hash = prior[w].entry
    BY <1>2 DEF Successor
  <1>4. prior[w] = None \/ \E q \in Of(appending[w]) : q.sequence = prior[w].sequence /\ q.entry = prior[w].entry
    BY DEF commit, IInv, PriorCommitted, Of
  <1> QED
    BY <1>1, <1>3, <1>4 DEF None

LEMMA CommitIInv ==
    ASSUME IInv, NEW w \in Writers, commit(w)
    PROVE  IInv'
  <1>1. /\ rows' = rows \cup pending[w]
        /\ pending' = [pending EXCEPT ![w] = {}]
        /\ pc' = [pc EXCEPT ![w] = "idle"]
        /\ UNCHANGED <<appending, prior, drawn>>
    BY DEF commit
  <1>2. \A v \in Writers : v # w => pc'[v] = pc[v] /\ pending'[v] = pending[v]
    BY <1>1 DEF IInv, TypeOK
  <1>3. pc'[w] = "idle" /\ pending'[w] = {}
    BY <1>1 DEF IInv, TypeOK
  <1>4. TypeOK'
    BY <1>1 DEF IInv, TypeOK, Points
  <1>6. PriorCommitted'
    <2> SUFFICES ASSUME NEW v \in Writers, pc'[v] # "idle", prior'[v] # None
                 PROVE  \E r \in rows' : /\ r.target = appending'[v]
                                          /\ r.sequence = prior'[v].sequence /\ r.entry = prior'[v].entry
      BY DEF PriorCommitted, None
    <2>1. v # w /\ pc[v] # "idle" /\ prior[v] # None
      BY <1>1, <1>2, <1>3
    <2>2. \E r \in rows : /\ r.target = appending[v]
                         /\ r.sequence = prior[v].sequence /\ r.entry = prior[v].entry
      BY <2>1 DEF IInv, PriorCommitted
    <2> QED
      BY <1>1, <2>2
  <1>7. PendingSucceeds'
    BY <1>1, <1>2, <1>3 DEF IInv, PendingSucceeds, Successor
  <1>8. KeysUnique'
    <2>1. \A r, q \in pending[w] : SameKey(r, q) => r = q
      BY DEF IInv, PendingSucceeds
    <2>2. \A r, q \in rows' : SameKey(r, q) => r = q
      BY <1>1, <2>1 DEF IInv, KeysUnique, SameKey
    <2>3. \A v \in Writers : \A r \in pending'[v] : \A q \in rows' : ~SameKey(r, q)
      BY <1>1, <1>2, <1>3 DEF IInv, KeysUnique
    <2>4. \A v, u \in Writers : \A r \in pending'[v] : \A q \in pending'[u] : v # u => ~SameKey(r, q)
      BY <1>2, <1>3 DEF IInv, KeysUnique
    <2> QED
      BY <2>2, <2>3, <2>4 DEF KeysUnique, SameKey
  <1>9. NoGaps' /\ Linked'
    <2> SUFFICES ASSUME NEW r \in rows'
                 PROVE  /\ \A n \in 1..r.sequence : \E q \in Of(r.target)' : q.sequence = n
                        /\ \/ r.sequence = 1 /\ r.previous_hash = GENESIS_HASH
                           \/ \E q \in Of(r.target)' : q.sequence = r.sequence - 1 /\ q.entry = r.previous_hash
      BY DEF NoGaps, Linked, Of
    <2>1. Of(r.target) \subseteq Of(r.target)' /\ r \in Of(r.target)'
      BY <1>1 DEF Of
    <2>2. CASE r \in rows
      BY <2>1, <2>2 DEF IInv, NoGaps, Linked
    <2>3. CASE r \notin rows
      <3>1. /\ r \in Row /\ r.sequence = prior[w].sequence + 1 /\ r.previous_hash = prior[w].entry
            /\ \/ prior[w].sequence = 0 /\ prior[w].entry = GENESIS_HASH
               \/ \E q \in Of(r.target) : q.sequence = prior[w].sequence /\ q.entry = prior[w].entry
        BY <2>3, CommitRow
      <3>2. prior[w].sequence \in Nat
        BY DEF IInv, TypeOK, Prior
      <3>3. CASE prior[w].sequence = 0 /\ prior[w].entry = GENESIS_HASH
        BY <2>1, <3>1, <3>3
      <3>4. ASSUME NEW q \in Of(r.target), q.sequence = prior[w].sequence, q.entry = prior[w].entry
            PROVE  /\ \A n \in 1..r.sequence : \E p \in Of(r.target)' : p.sequence = n
                   /\ \E p \in Of(r.target)' : p.sequence = r.sequence - 1 /\ p.entry = r.previous_hash
        <4>1. \A n \in 1..q.sequence : \E p \in Of(q.target) : p.sequence = n
          BY DEF IInv, NoGaps, Of
        <4>2. q.target = r.target
          BY DEF Of
        <4>3. \A n \in 1..r.sequence : n \in 1..q.sequence \/ n = r.sequence
          BY <3>1, <3>2, <3>4
        <4>4. r.sequence - 1 = q.sequence
          BY <3>1, <3>2, <3>4
        <4>5. \A n \in 1..q.sequence : \E p \in Of(r.target)' : p.sequence = n
          BY <2>1, <4>1, <4>2
        <4> QED
          BY <2>1, <3>1, <3>4, <4>3, <4>4, <4>5
      <3> QED
        BY <3>1, <3>3, <3>4
    <2> QED
      BY <2>2, <2>3
  <1> QED
    BY <1>4, <1>6, <1>7, <1>8, <1>9 DEF IInv

LEMMA RollbackIInv ==
    ASSUME IInv, NEW w \in Writers, rollback(w)
    PROVE  IInv'
  <1>1. /\ pending' = [pending EXCEPT ![w] = {}] /\ pc' = [pc EXCEPT ![w] = "idle"]
        /\ UNCHANGED <<rows, appending, prior, drawn>>
    BY DEF rollback
  <1>2. \A v \in Writers : v # w => pc'[v] = pc[v] /\ pending'[v] = pending[v]
    BY <1>1 DEF IInv, TypeOK
  <1>3. pc'[w] = "idle" /\ pending'[w] = {}
    BY <1>1 DEF IInv, TypeOK
  <1>4. TypeOK'
    BY <1>1 DEF IInv, TypeOK, Points
  <1>5. PriorCommitted'
    BY <1>1, <1>2, <1>3 DEF IInv, PriorCommitted, Of
  <1>6. PendingSucceeds'
    BY <1>1, <1>2, <1>3 DEF IInv, PendingSucceeds, Successor
  <1>7. KeysUnique'
    BY <1>1, <1>2, <1>3 DEF IInv, KeysUnique
  <1>8. NoGaps' /\ Linked'
    BY <1>1 DEF IInv, NoGaps, Linked, Of
  <1> QED
    BY <1>4, <1>5, <1>6, <1>7, <1>8 DEF IInv

LEMMA NextIInv == IInv /\ [Next]_vars => IInv'
  <1> SUFFICES ASSUME IInv, [Next]_vars PROVE IInv'
    OBVIOUS
  <1>1. ASSUME NEW w \in Writers, NEW t \in Targets, select(w, t) PROVE IInv'
    BY <1>1, SelectIInv
  <1>2. ASSUME NEW w \in Writers, lock(w) PROVE IInv'
    BY <1>2, LockIInv
  <1>3. ASSUME NEW w \in Writers, insert(w) PROVE IInv'
    BY <1>3, InsertIInv
  <1>4. ASSUME NEW w \in Writers, commit(w) PROVE IInv'
    BY <1>4, CommitIInv
  <1>5. ASSUME NEW w \in Writers, rollback(w) PROVE IInv'
    BY <1>5, RollbackIInv
  <1>6. CASE UNCHANGED vars
    <2>1. TypeOK'
      BY <1>6 DEF vars, IInv, TypeOK
    <2>2. PriorCommitted' /\ PendingSucceeds'
      BY <1>6 DEF vars, IInv, PriorCommitted, PendingSucceeds, Successor, Of
    <2> QED
      BY <1>6, <2>1, <2>2, RowsUnchanged DEF vars, IInv
  <1> QED
    BY <1>1, <1>2, <1>3, <1>4, <1>5, <1>6 DEF Next

\* The invariant holds of every behaviour.
LEMMA Invariant == Spec => []IInv
  <1> QED
    BY InitIInv, NextIInv, PTL DEF Spec

\* Rows, transactions and their locals keep their types.
THEOREM TypeCorrect == Spec => []TypeOK
  <1>1. IInv => TypeOK
    BY DEF IInv
  <1> QED
    BY <1>1, Invariant, PTL

\* append and verify_target: no overlap, wait, failure or crash of appends makes the
\* verification of an untampered chain fail.
THEOREM ChainsAlwaysVerify == Spec => []ChainsVerify
  <1>1. IInv => ChainsVerify
    <2> SUFFICES ASSUME IInv, NEW t \in Targets PROVE verify_target(t)
      BY DEF ChainsVerify
    <2>1. \A r, q \in Of(t) : r.sequence = q.sequence => r = q
      BY DEF IInv, KeysUnique, SameKey, Of
    <2>2. \A r \in Of(t) : r \in rows /\ r.target = t
      BY DEF Of
    <2> QED
      BY <2>1, <2>2 DEF IInv, NoGaps, Linked, verify_target
  <1> QED
    BY <1>1, Invariant, PTL

\* A committed row has no sequence above a row that is committed after it.
LEMMA CommitAtEnd ==
    ASSUME IInv, [Next]_vars
    PROVE  /\ rows \subseteq rows'
           /\ \A r \in rows' \ rows : \A q \in Of(r.target) : q.sequence < r.sequence
  <1>1. CASE UNCHANGED rows
    BY <1>1
  <1>2. ASSUME NEW w \in Writers, commit(w)
        PROVE  /\ rows \subseteq rows'
               /\ \A r \in rows' \ rows : \A q \in Of(r.target) : q.sequence < r.sequence
    <2>1. rows \subseteq rows'
      BY <1>2 DEF commit
    <2>2. ASSUME NEW r \in rows' \ rows, NEW q \in Of(r.target), ~(q.sequence < r.sequence)
          PROVE  FALSE
      <3>1. r \in pending[w] /\ r \in Row
        BY <1>2, <2>2, CommitRow
      <3>2. q \in rows /\ q.target = r.target /\ q \in Row
        BY DEF Of, IInv, TypeOK
      <3>3. r.sequence \in 1..q.sequence
        BY <2>2, <3>1, <3>2 DEF Row
      <3>4. PICK p \in Of(q.target) : p.sequence = r.sequence
        BY <3>2, <3>3 DEF IInv, NoGaps
      <3>5. p \in rows /\ SameKey(r, p)
        BY <3>2, <3>4 DEF Of, SameKey
      <3> QED
        BY <3>1, <3>5 DEF IInv, KeysUnique
    <2> QED
      BY <2>1, <2>2
  <1> QED
    BY <1>1, <1>2 DEF Next, vars, select, lock, insert, rollback

\* append: rows stay, and the order of the commits is the order of the chain.
THEOREM AppendsComeLast == Spec => AppendedAtEnd
  <1>1. IInv /\ [Next]_vars =>
          [/\ rows \subseteq rows'
           /\ \A r \in rows' \ rows : \A q \in Of(r.target) : q.sequence < r.sequence]_vars
    BY CommitAtEnd
  <1> QED
    BY <1>1, Invariant, PTL DEF Spec, AppendedAtEnd

-----------------------------------------------------------------------------
(* Facts about numbers *)

\* A set of naturals has a least element, as Min assumes
LEMMA LeastExists ==
    ASSUME NEW S \in SUBSET Nat, S # {}
    PROVE  \E x \in S : \A y \in S : x <= y
  <1>1. PICK x \in S : \A y \in S : <<y, x>> \notin OpToRel(<, Nat)
    BY NatLessThanWellFounded, WFMin, Zenon
  <1>2. \A y \in S : ~(y < x)
    BY <1>1, Zenon DEF OpToRel
  <1> QED BY <1>2

\* and a set of integers with an upper bound a greatest one, as Max assumes.
LEMMA GreatestExists ==
    ASSUME NEW S \in SUBSET Int, S # {}, NEW b \in Int, \A x \in S : x <= b
    PROVE  \E x \in S : \A y \in S : y <= x
  <1> DEFINE T == {b - x : x \in S}
  <1>1. T \in SUBSET Nat /\ T # {}
    <2>1. \A x \in S : b - x \in Nat
      OBVIOUS
    <2>2. PICK x \in S : TRUE
      OBVIOUS
    <2> QED BY <2>1, <2>2
  <1>2. PICK d \in T : \A e \in T : d <= e
    BY <1>1, LeastExists
  <1>3. PICK x \in S : d = b - x
    OBVIOUS
  <1>4. ASSUME NEW y \in S PROVE y <= x
    <2>1. b - y \in T
      OBVIOUS
    <2>2. d <= b - y
      BY <1>2, <2>1
    <2> QED BY <1>3, <2>2
  <1> QED BY <1>4

-----------------------------------------------------------------------------
(* DiagnosisAudit *)

\* A row of ai_invocations
Call == [attempt : Nat, answer : Answers \cup {Diagnosis!Failed}]

DiagnosisTypes ==
    /\ invocations \in Seq(Call)
    /\ diagnosis_pc \in [Workers -> Diagnosis!Points]
    /\ DOMAIN hand = Workers /\ attempt \in [Workers -> Nat]
    /\ \A w \in Workers : hand[w] \in [invocation : Nat \cup {NoInvocation}, answer : Answers \cup {Diagnosis!Failed}]

\* A call goes on with what is recorded
InHand ==
    \A w \in Workers : diagnosis_pc[w] = "persist" =>
        /\ hand[w].invocation \in Diagnosis!Succeeded
        /\ hand[w].answer = invocations[hand[w].invocation].answer

\* One call at a time asks only if nothing has been answered
AskedInTurn ==
    /\ \A v, w \in Workers : diagnosis_pc[v] # "idle" /\ diagnosis_pc[w] # "idle" => v = w
    /\ \A i, j \in Diagnosis!Succeeded : i = j
    /\ (\E w \in Workers : diagnosis_pc[w] \in {"ask", "count", "insert"}) => Diagnosis!Succeeded = {}

DiagnosisInv ==
    /\ DiagnosisTypes /\ InHand /\ Diagnosis!ArtifactIsAudited
    /\ acting = "one diagnosis" => AskedInTurn

\* The number of successful calls is the one the library's facts are about
LEMMA SameNumber ==
    ASSUME NEW S
    PROVE  Diagnosis!Cardinality(S) = Cardinality(S)
  BY DEF Diagnosis!Cardinality, Cardinality

\* _reusable_invocation: the earliest success is a success
LEMMA EarliestIsThere ==
    ASSUME NEW S \in SUBSET Nat, S # {}
    PROVE  Diagnosis!Min(S) \in S
  <1>1. PICK x \in S : \A y \in S : x <= y
    BY LeastExists
  <1> QED BY <1>1 DEF Diagnosis!Min

\* A step of a call, of which the calls in hand and the artifact go on with recorded answers
LEMMA DiagnosisStep ==
    ASSUME DiagnosisTypes, InHand, Diagnosis!ArtifactIsAudited, [Diagnosis!Next]_(diagnosis_vars)
    PROVE  DiagnosisTypes' /\ InHand' /\ Diagnosis!ArtifactIsAudited'
  <1> DEFINE Goal == DiagnosisTypes' /\ InHand' /\ Diagnosis!ArtifactIsAudited'
  <1> HIDE DEF Goal
  <1> SUFFICES Goal
    BY DEF Goal
  <1> USE DEF DiagnosisTypes, Diagnosis!Points
  <1>0. Diagnosis!Succeeded \subseteq DOMAIN invocations /\ DOMAIN invocations = 1..Len(invocations) /\ Len(invocations) \in Nat
    BY DEF Diagnosis!Succeeded
  <1>a. \A i \in 1..Len(invocations) : invocations[i].answer \in Answers \cup {Diagnosis!Failed}
    <2>1. \A i \in 1..Len(invocations) : invocations[i] \in Call
      OBVIOUS
    <2> QED BY <2>1 DEF Call
  <1>1. ASSUME UNCHANGED <<invocations, artifact>>, UNCHANGED hand,
               DOMAIN attempt' = Workers, attempt' \in [Workers -> Nat], diagnosis_pc' \in [Workers -> Diagnosis!Points],
               \A w \in Workers : diagnosis_pc'[w] = "persist" => diagnosis_pc[w] = "persist"
        PROVE  Goal
    BY <1>1 DEF Goal, InHand, Diagnosis!ArtifactIsAudited, Diagnosis!Succeeded
  <1>2. ASSUME NEW w \in Workers, Diagnosis!enter(w) PROVE Goal
    <2>1. Diagnosis!Empty \in [invocation : Nat \cup {NoInvocation}, answer : Answers \cup {Diagnosis!Failed}]
      BY DEF Diagnosis!Empty
    <2>2. DiagnosisTypes'
      BY <1>2, <2>1 DEF Diagnosis!Stored, Diagnosis!enter, Diagnosis!Goto
    <2>3. InHand'
      BY <1>2 DEF Diagnosis!Stored, Diagnosis!enter, Diagnosis!Goto, InHand, Diagnosis!Succeeded
    <2>4. Diagnosis!ArtifactIsAudited'
      BY <1>2 DEF Diagnosis!Stored, Diagnosis!enter, Diagnosis!ArtifactIsAudited, Diagnosis!Succeeded
    <2> QED BY <2>2, <2>3, <2>4 DEF Goal
  <1>3. ASSUME NEW w \in Workers, Diagnosis!load(w) PROVE Goal
    BY <1>1, <1>3 DEF Diagnosis!load, Diagnosis!Goto
  <1>4. ASSUME NEW w \in Workers, Diagnosis!lookup(w) PROVE Goal
    <2>1. CASE Diagnosis!Succeeded = {}
      BY <1>1, <1>4, <2>1 DEF Diagnosis!lookup, Diagnosis!Goto
    <2>2. CASE Diagnosis!Succeeded # {}
      <3> DEFINE m == Diagnosis!Min(Diagnosis!Succeeded)
      <3>1. m \in Diagnosis!Succeeded
        BY <1>0, <2>2, EarliestIsThere
      <3>2. m \in DOMAIN invocations /\ m \in Nat /\ invocations[m].answer \in Answers \cup {Diagnosis!Failed}
        <4>1. m \in 1..Len(invocations)
          BY <3>1, <1>0
        <4> HIDE DEF m
        <4> QED BY <1>0, <1>a, <4>1
      <3> HIDE DEF m
      <3>3. /\ hand' = [hand EXCEPT ![w] = [invocation |-> m, answer |-> invocations[m].answer]]
            /\ diagnosis_pc' = [diagnosis_pc EXCEPT ![w] = "persist"] /\ UNCHANGED <<invocations, artifact, attempt>>
        BY <1>4, <2>2 DEF Diagnosis!lookup, Diagnosis!Goto, Diagnosis!Hold, m
      <3>4. DiagnosisTypes'
        BY <3>2, <3>3
      <3>5. InHand'
        BY <3>1, <3>3 DEF InHand, Diagnosis!Succeeded
      <3>6. Diagnosis!ArtifactIsAudited'
        BY <3>3 DEF Diagnosis!ArtifactIsAudited, Diagnosis!Succeeded
      <3> QED BY <3>4, <3>5, <3>6 DEF Goal
    <2> QED BY <2>1, <2>2
  <1>5. ASSUME NEW w \in Workers, Diagnosis!ask(w) PROVE Goal
    <2>1. DiagnosisTypes'
      BY <1>5 DEF Diagnosis!ask, Diagnosis!Goto, Diagnosis!Hold
    <2>2. InHand'
      BY <1>5 DEF Diagnosis!ask, Diagnosis!Goto, Diagnosis!Hold, InHand, Diagnosis!Succeeded
    <2>3. Diagnosis!ArtifactIsAudited'
      BY <1>5 DEF Diagnosis!ask, Diagnosis!ArtifactIsAudited, Diagnosis!Succeeded
    <2> QED BY <2>1, <2>2, <2>3 DEF Goal
  <1>6. ASSUME NEW w \in Workers, Diagnosis!count(w) PROVE Goal
    BY <1>0, <1>1, <1>6 DEF Diagnosis!count, Diagnosis!Goto
  <1>7. ASSUME NEW w \in Workers, Diagnosis!insert(w) PROVE Goal
    <2> DEFINE n == Len(invocations) + 1
    <2>0. [attempt |-> attempt[w], answer |-> hand[w].answer] \in Call
      BY DEF Call
    <2>1. /\ invocations' \in Seq(Call)
          /\ DOMAIN invocations' = DOMAIN invocations \cup {n} /\ n \in Nat /\ Len(invocations') = n
          /\ invocations'[n].answer = hand[w].answer /\ \A i \in DOMAIN invocations : invocations'[i] = invocations[i]
      BY <1>7, <2>0 DEF Diagnosis!insert
    <2>2. Diagnosis!Succeeded \subseteq Diagnosis!Succeeded'
      BY <2>1 DEF Diagnosis!Succeeded
    <2>3. Diagnosis!ArtifactIsAudited'
      BY <1>7, <1>0, <2>1, <2>2 DEF Diagnosis!insert, Diagnosis!ArtifactIsAudited
    <2>4. CASE hand[w].answer = Diagnosis!Failed
      <3>1. DiagnosisTypes' /\ \A v \in Workers : diagnosis_pc'[v] = "persist" => diagnosis_pc[v] = "persist" /\ hand'[v] = hand[v]
        BY <1>7, <2>1, <2>4 DEF Diagnosis!insert, Diagnosis!Goto
      <3>2. InHand'
        BY <1>0, <2>1, <2>2, <3>1 DEF InHand
      <3> QED BY <2>3, <3>1, <3>2 DEF Goal
    <2>5. CASE hand[w].answer # Diagnosis!Failed
      <3>1. /\ hand' = [hand EXCEPT ![w] = [invocation |-> n, answer |-> hand[w].answer]]
            /\ diagnosis_pc' = [diagnosis_pc EXCEPT ![w] = "persist"] /\ UNCHANGED attempt
        BY <1>7, <2>1, <2>5 DEF Diagnosis!insert, Diagnosis!Goto, Diagnosis!Hold
      <3>2. n \in Diagnosis!Succeeded'
        BY <2>1, <2>5 DEF Diagnosis!Succeeded
      <3> HIDE DEF n
      <3>3. DiagnosisTypes'
        BY <2>1, <3>1
      <3>4. InHand'
        BY <1>0, <2>1, <2>2, <3>1, <3>2 DEF InHand
      <3> QED BY <2>3, <3>3, <3>4 DEF Goal
    <2> QED BY <2>4, <2>5
  <1>8. ASSUME NEW w \in Workers, Diagnosis!persist(w) PROVE Goal
    <2>1. DiagnosisTypes'
      BY <1>8 DEF Diagnosis!Stored, Diagnosis!persist, Diagnosis!Goto
    <2>2. InHand'
      BY <1>8 DEF Diagnosis!Stored, Diagnosis!persist, Diagnosis!Goto, InHand, Diagnosis!Succeeded
    <2>3. Diagnosis!ArtifactIsAudited'
      BY <1>8 DEF Diagnosis!Stored, Diagnosis!persist, Diagnosis!ArtifactIsAudited, Diagnosis!Succeeded, InHand
    <2> QED BY <2>1, <2>2, <2>3 DEF Goal
  <1>9. ASSUME NEW w \in Workers, Diagnosis!transition(w) PROVE Goal
    BY <1>1, <1>9 DEF Diagnosis!Stored, Diagnosis!transition, Diagnosis!Goto
  <1>10. ASSUME NEW w \in Workers, Diagnosis!fails(w) PROVE Goal
    BY <1>1, <1>10 DEF Diagnosis!fails, Diagnosis!Goto
  <1>11. ASSUME UNCHANGED diagnosis_vars PROVE Goal
    BY <1>1, <1>11 DEF diagnosis_vars
  <1> QED BY <1>2, <1>3, <1>4, <1>5, <1>6, <1>7, <1>8, <1>9, <1>10, <1>11 DEF Diagnosis!Next, Diagnosis!step

\* Calls one at a time ask the AI only while nothing has been answered
LEMMA AskedInTurnStep ==
    ASSUME DiagnosisTypes, AskedInTurn, [Diagnosis!Next]_(diagnosis_vars),
           \A v, w \in Workers : diagnosis_pc'[v] # "idle" /\ diagnosis_pc'[w] # "idle" => v = w
    PROVE  AskedInTurn'
  <1> USE DEF DiagnosisTypes, Diagnosis!Points
  <1>1. CASE UNCHANGED invocations
    <2>1. Diagnosis!Succeeded' = Diagnosis!Succeeded
      BY <1>1 DEF Diagnosis!Succeeded
    <2>2. ASSUME NEW w \in Workers, diagnosis_pc'[w] \in {"ask", "count", "insert"} PROVE Diagnosis!Succeeded = {}
      <3>1. CASE diagnosis_pc[w] \in {"ask", "count", "insert"}
        BY <3>1 DEF AskedInTurn
      <3>2. CASE diagnosis_pc[w] \notin {"ask", "count", "insert"}
        <4>1. diagnosis_pc'[w] # diagnosis_pc[w]
          BY <2>2, <3>2
        <4>2. ASSUME NEW v \in Workers, Diagnosis!lookup(v) PROVE Diagnosis!Succeeded = {}
          BY <2>2, <4>1, <4>2 DEF Diagnosis!lookup, Diagnosis!Goto
        <4>3. ASSUME NEW v \in Workers, Diagnosis!enter(v) \/ Diagnosis!load(v) \/ Diagnosis!persist(v) \/ Diagnosis!transition(v)
                                        \/ Diagnosis!fails(v) PROVE FALSE
          BY <2>2, <4>1, <4>3 DEF Diagnosis!enter, Diagnosis!load, Diagnosis!persist, Diagnosis!Stored, Diagnosis!transition, Diagnosis!fails,
                                  Diagnosis!Goto
        <4>4. ASSUME NEW v \in Workers, Diagnosis!ask(v) \/ Diagnosis!count(v) \/ Diagnosis!insert(v) PROVE FALSE
          BY <2>2, <3>2, <4>1, <4>4 DEF Diagnosis!ask, Diagnosis!count, Diagnosis!insert, Diagnosis!Goto
        <4> QED BY <4>1, <4>2, <4>3, <4>4 DEF Diagnosis!Next, Diagnosis!step, diagnosis_vars
      <3> QED BY <3>1, <3>2
    <2> QED BY <2>1, <2>2 DEF AskedInTurn
  <1>2. ASSUME NEW w \in Workers, Diagnosis!insert(w) PROVE AskedInTurn'
    <2>1. Diagnosis!Succeeded = {}
      BY <1>2 DEF AskedInTurn, Diagnosis!insert
    <2>2. Diagnosis!Succeeded' \subseteq {Len(invocations) + 1}
      BY <1>2, <2>1 DEF Diagnosis!insert, Diagnosis!Succeeded
    <2>3. diagnosis_pc'[w] \in {"idle", "persist"} /\ \A v \in Workers \ {w} : diagnosis_pc'[v] = "idle"
      BY <1>2 DEF AskedInTurn, Diagnosis!insert, Diagnosis!Goto
    <2> QED BY <2>2, <2>3 DEF AskedInTurn
  <1> QED BY <1>1, <1>2 DEF Diagnosis!Next, Diagnosis!step, Diagnosis!Stored, Diagnosis!enter, Diagnosis!load, Diagnosis!lookup, Diagnosis!ask,
                  Diagnosis!count, Diagnosis!persist, Diagnosis!transition, Diagnosis!fails, diagnosis_vars

\* lookup and persist: the artifact names a recorded, successful call and says what it
\* answered, whoever made the call; and calls one at a time are answered once.
THEOREM DiagnosesAreAudited == AllSpec => []DiagnosisIsSound
  <1>1. AllInit => DiagnosisInv
    <2> SUFFICES ASSUME Diagnosis!Init PROVE DiagnosisInv
      BY DEF AllInit
    <2> USE DEF Diagnosis!Init
    <2>1. Diagnosis!Empty \in [invocation : Nat \cup {NoInvocation}, answer : Answers \cup {Diagnosis!Failed}]
      BY DEF Diagnosis!Empty
    <2>2. DiagnosisTypes
      BY <2>1 DEF DiagnosisTypes, Diagnosis!Points
    <2> QED BY <2>2 DEF DiagnosisInv, InHand, Diagnosis!ArtifactIsAudited, AskedInTurn, Diagnosis!Succeeded
  <1>2. DiagnosisInv /\ [AllNext]_allvars => DiagnosisInv'
    <2> SUFFICES ASSUME DiagnosisInv, [AllNext]_allvars PROVE DiagnosisInv'
      OBVIOUS
    <2>1. [Diagnosis!Next]_(diagnosis_vars) /\ acting' = acting
      BY DEF AllNext, allvars
    <2>2. DiagnosisTypes' /\ InHand' /\ Diagnosis!ArtifactIsAudited'
      BY <2>1, DiagnosisStep DEF DiagnosisInv
    <2>3. ASSUME acting = "one diagnosis" PROVE AskedInTurn'
      <3>1. \A v, w \in Workers : diagnosis_pc'[v] # "idle" /\ diagnosis_pc'[w] # "idle" => v = w
        BY <2>3 DEF AllNext, allvars, diagnosis_vars, DiagnosisInv, AskedInTurn
      <3> QED BY <2>1, <2>3, <3>1, AskedInTurnStep DEF DiagnosisInv
    <2> QED BY <2>1, <2>2, <2>3 DEF DiagnosisInv
  <1>3. DiagnosisInv => DiagnosisIsSound
    <2> SUFFICES ASSUME DiagnosisInv PROVE DiagnosisIsSound
      OBVIOUS
    <2> SUFFICES ASSUME AskedInTurn PROVE Diagnosis!AnswerReused
      BY DEF DiagnosisInv, DiagnosisIsSound
    <2>1. CASE Diagnosis!Succeeded = {}
      BY <2>1, FS_EmptySet, SameNumber DEF Diagnosis!AnswerReused
    <2>2. CASE Diagnosis!Succeeded # {}
      <3>1. PICK i : Diagnosis!Succeeded = {i}
        BY <2>2 DEF AskedInTurn
      <3> QED BY <3>1, FS_Singleton, SameNumber DEF Diagnosis!AnswerReused
    <2> QED BY <2>1, <2>2
  <1> QED BY <1>1, <1>2, <1>3, PTL DEF AllSpec

-----------------------------------------------------------------------------
(* WorkloadSnapshots *)

\* A window is not longer than the lookback that selects it
WindowsFit == Length <= Lookback

SnapshotTypes ==
    /\ now \in Nat /\ windows \in Seq(Snapshots!Window) /\ target \in [Runs -> Targets] /\ DOMAIN snapshot = Runs
    /\ snapshot_pc \in [Workers -> Snapshots!Points] /\ run \in [Workers -> Runs \cup {NoRun}]
    /\ anchor \in [Workers -> Int] /\ DOMAIN sources = Workers
    /\ read \in [Workers -> Nat] /\ before \in [Workers -> Nat]

\* persist_completed writes windows that have ended
WindowsEnded == \A i \in DOMAIN windows : windows[i].until <= now /\ windows[i].from >= windows[i].until - Length

\* A transaction works on a run whose row it has locked
RunLocked ==
    /\ \A w \in Workers : snapshot_pc[w] = "idle" <=> run[w] = NoRun
    /\ \A v, w \in Workers : run[v] = run[w] /\ run[v] # NoRun => v = w

InLookback(r, a) == {i \in Snapshots!Of(target[r]) : windows[i].from >= a - Lookback /\ windows[i].until <= a}

\* What the first selection finds is the newest of what there was
Newest(r, a, n) ==
    /\ n \in 0..Len(windows)
    /\ \E i \in Snapshots!Of(target[r]) : i <= n /\ windows[i].until = a
    /\ \A i \in Snapshots!Of(target[r]) : i <= n => windows[i].until <= a

\* What the second one selects has all of the lookback that there was
Selects(r, a, n, S) ==
    /\ S \subseteq InLookback(r, a) /\ \A i \in InLookback(r, a) : i <= n => i \in S
    /\ \E i \in S : windows[i].until = a

Anchored ==
    \A w \in Workers : snapshot_pc[w] \in {"anchored", "selected", "built", "inserted"} =>
        read[w] - anchor[w] <= MaxAge /\ Newest(run[w], anchor[w], before[w])

Selected ==
    \A w \in Workers : snapshot_pc[w] \in {"selected", "built", "inserted"} =>
        Selects(run[w], anchor[w], before[w], sources[w])

\* Evidence inserted belongs to no snapshot and to no other transaction
InsertedApart ==
    \A w \in Workers : snapshot_pc[w] = "inserted" =>
        /\ sources[w] \cap Snapshots!Frozen = {}
        /\ \A v \in Workers \ {w} : snapshot_pc[v] = "inserted" => sources[v] \cap sources[w] = {}

Attached(r) == snapshot[r] # NoSnapshot

SnapshotsHold ==
    \A r \in Runs : Attached(r) =>
        /\ snapshot[r].read - snapshot[r].anchor <= MaxAge
        /\ Newest(r, snapshot[r].anchor, snapshot[r].before)
        /\ Selects(r, snapshot[r].anchor, snapshot[r].before, snapshot[r].sources)
        /\ \A q \in Runs \ {r} : Attached(q) => snapshot[r].sources \cap snapshot[q].sources = {}

SnapshotInv ==
    /\ SnapshotTypes /\ WindowsEnded /\ RunLocked /\ Anchored /\ Selected /\ InsertedApart /\ SnapshotsHold

\* While windows are not written, what the selections find stays
LEMMA SelectionStays ==
    ASSUME UNCHANGED <<windows, target>>
    PROVE  /\ \A r, a, n : Newest(r, a, n)' <=> Newest(r, a, n)
           /\ \A r, a, n, S : Selects(r, a, n, S)' <=> Selects(r, a, n, S)
  BY DEF Newest, Selects, InLookback, Snapshots!Of

\* and a window that is written is none of those that could be seen before it.
LEMMA SelectionGrows ==
    ASSUME windows \in Seq(Snapshots!Window), windows' \in Seq(Snapshots!Window), Len(windows') = Len(windows) + 1, UNCHANGED target,
           \A i \in 1..Len(windows) : windows'[i] = windows[i]
    PROVE  /\ \A r, a, n : Newest(r, a, n) => Newest(r, a, n)'
           /\ \A r, a, n, S : Newest(r, a, n) /\ Selects(r, a, n, S) => Selects(r, a, n, S)'
  <1>1. /\ Len(windows) \in Nat /\ DOMAIN windows = 1..Len(windows) /\ DOMAIN windows' = 1..(Len(windows) + 1)
    OBVIOUS
  <1>2. \A r, n : n \in 0..Len(windows) => \A i : i \in Snapshots!Of(target[r])' /\ i <= n <=> i \in Snapshots!Of(target[r]) /\ i <= n
    BY <1>1 DEF Snapshots!Of
  <1>3. \A r, i : i \in Snapshots!Of(target[r]) => i \in Snapshots!Of(target[r])'
    BY <1>1 DEF Snapshots!Of
  <1>4. \A r, a, n : Newest(r, a, n) => Newest(r, a, n)'
    <2> SUFFICES ASSUME NEW r, NEW a, NEW n, Newest(r, a, n) PROVE Newest(r, a, n)'
      OBVIOUS
    <2>1. n \in 0..Len(windows)'
      BY <1>1 DEF Newest
    <2>2. \E i \in Snapshots!Of(target[r])' : i <= n /\ windows'[i].until = a
      <3>1. PICK i \in Snapshots!Of(target[r]) : i <= n /\ windows[i].until = a
        BY DEF Newest
      <3>2. windows'[i] = windows[i]
        BY <1>1 DEF Snapshots!Of
      <3> QED BY <3>1, <3>2, <1>3
    <2>3. \A i \in Snapshots!Of(target[r])' : i <= n => windows'[i].until <= a
      <3> SUFFICES ASSUME NEW i \in Snapshots!Of(target[r])', i <= n PROVE windows'[i].until <= a
        OBVIOUS
      <3>1. i \in Snapshots!Of(target[r])
        BY <1>2 DEF Newest
      <3>2. windows'[i] = windows[i]
        BY <3>1, <1>1 DEF Snapshots!Of
      <3> QED BY <3>1, <3>2 DEF Newest
    <2> QED BY <2>1, <2>2, <2>3 DEF Newest
  <1>5. \A r, a, n, S : Newest(r, a, n) /\ Selects(r, a, n, S) => Selects(r, a, n, S)'
    <2> SUFFICES ASSUME NEW r, NEW a, NEW n, NEW S, Newest(r, a, n), Selects(r, a, n, S) PROVE Selects(r, a, n, S)'
      OBVIOUS
    <2>1. \A i \in 1..Len(windows) : i \in InLookback(r, a)' <=> i \in InLookback(r, a)
      BY <1>1 DEF InLookback, Snapshots!Of
    <2>2. InLookback(r, a) \subseteq 1..Len(windows) /\ \A i \in InLookback(r, a)' : i \in Int /\ (i <= n => i \in 1..Len(windows))
      BY <1>1 DEF InLookback, Snapshots!Of, Newest
    <2>3. \E i \in S : windows'[i].until = a
      <3>1. PICK i \in S : windows[i].until = a
        BY DEF Selects
      <3>2. i \in 1..Len(windows)
        BY <2>2 DEF Selects
      <3> QED BY <3>1, <3>2
    <2> QED BY <2>1, <2>2, <2>3 DEF Selects
  <1> QED BY <1>4, <1>5

\* The transaction of a worker ends, and its locks
LEMMA EndStep ==
    ASSUME SnapshotInv, NEW w \in Workers, Snapshots!End(w), UNCHANGED <<now, windows, target, snapshot>>
    PROVE  SnapshotInv'
  <1> USE DEF SnapshotInv, SnapshotTypes, Snapshots!End
  <1>1. SnapshotTypes'
    BY DEF Snapshots!Points
  <1>2. WindowsEnded'
    BY DEF WindowsEnded
  <1>3. RunLocked'
    BY DEF RunLocked
  <1>4. /\ snapshot_pc'[w] = "idle"
        /\ \A v \in Workers \ {w} : /\ snapshot_pc'[v] = snapshot_pc[v] /\ run'[v] = run[v] /\ anchor'[v] = anchor[v]
                                    /\ sources'[v] = sources[v] /\ read'[v] = read[v] /\ before'[v] = before[v]
    OBVIOUS
  <1>5. Anchored' /\ Selected'
    BY <1>4, SelectionStays DEF Anchored, Selected
  <1>6. InsertedApart'
    BY <1>4 DEF InsertedApart, Snapshots!Frozen
  <1>7. SnapshotsHold'
    BY SelectionStays DEF SnapshotsHold, Attached
  <1> QED BY <1>1, <1>2, <1>3, <1>5, <1>6, <1>7

\* persist_completed: a window that has ended, which the transactions under way may see or not
LEMMA PersistStep ==
    ASSUME SnapshotInv, NEW t \in Targets, NEW until \in Int, NEW from \in Int, Snapshots!persist_completed(t, from, until)
    PROVE  SnapshotInv'
  <1> USE DEF Snapshots!persist_completed, Snapshots!transaction_vars
  <1> DEFINE new == [target |-> t, from |-> from, until |-> until]
  <1>0. now \in Nat /\ Delay \in Nat /\ Length \in Nat
    BY RecordsConstants DEF Snapshots!SnapshotConstants, SnapshotInv, SnapshotTypes
  <1>1. new \in Snapshots!Window /\ new.until <= now /\ new.from >= new.until - Length
    BY <1>0 DEF Snapshots!Window
  <1> HIDE DEF new
  <1>2. windows \in Seq(Snapshots!Window) /\ windows' = Append(windows, new)
    BY DEF SnapshotInv, SnapshotTypes, new
  <1>3. /\ windows' \in Seq(Snapshots!Window) /\ Len(windows') = Len(windows) + 1 /\ Len(windows) \in Nat
        /\ DOMAIN windows = 1..Len(windows) /\ DOMAIN windows' = 1..(Len(windows) + 1)
        /\ \A i \in 1..Len(windows) : windows'[i] = windows[i]
        /\ windows'[Len(windows) + 1] = new
    BY <1>1, <1>2
  <1>4. SnapshotTypes'
    BY <1>3 DEF SnapshotInv, SnapshotTypes
  <1>5. WindowsEnded'
    BY <1>1, <1>3 DEF SnapshotInv, WindowsEnded
  <1>6. /\ \A r, a, n : Newest(r, a, n) => Newest(r, a, n)'
        /\ \A r, a, n, S : Newest(r, a, n) /\ Selects(r, a, n, S) => Selects(r, a, n, S)'
    BY <1>2, <1>3, SelectionGrows
  <1>7. RunLocked'
    BY DEF SnapshotInv, RunLocked
  <1>8. Anchored' /\ Selected'
    BY <1>6 DEF SnapshotInv, Anchored, Selected
  <1>9. InsertedApart'
    BY DEF SnapshotInv, InsertedApart, Snapshots!Frozen
  <1>10. SnapshotsHold'
    BY <1>6 DEF SnapshotInv, SnapshotsHold, Attached
  <1> QED BY <1>4, <1>5, <1>7, <1>8, <1>9, <1>10 DEF SnapshotInv

\* begin, build and insert: the point of a transaction, and the run it locks, change
LEMMA BeginStep ==
    ASSUME SnapshotInv, NEW w \in Workers, NEW r \in Runs, Snapshots!begin(w, r)
    PROVE  SnapshotInv'
  <1> USE RecordsConstants DEF SnapshotInv, SnapshotTypes, Snapshots!begin, Snapshots!SnapshotConstants
  <1>1. SnapshotTypes'
    BY DEF Snapshots!Points
  <1>2. WindowsEnded'
    BY DEF WindowsEnded
  <1>3. RunLocked'
    BY DEF RunLocked
  <1>4. /\ snapshot_pc'[w] = "begun"
        /\ \A v \in Workers \ {w} : snapshot_pc'[v] = snapshot_pc[v] /\ run'[v] = run[v]
    OBVIOUS
  <1>5. Anchored' /\ Selected'
    BY <1>4, SelectionStays DEF Anchored, Selected
  <1>6. InsertedApart'
    BY <1>4 DEF InsertedApart, Snapshots!Frozen
  <1>7. SnapshotsHold'
    BY SelectionStays DEF SnapshotsHold, Attached
  <1> QED BY <1>1, <1>2, <1>3, <1>5, <1>6, <1>7

\* _select_source_windows, first statement: the newest window there is
LEMMA NewestStep ==
    ASSUME SnapshotInv, NEW w \in Workers, Snapshots!newest(w)
    PROVE  SnapshotInv'
  <1> DEFINE ends == {windows[i].until : i \in Snapshots!Of(target[run[w]])}
  <1>1. CASE ends = {} \/ now - Snapshots!Max(ends) > MaxAge
    BY <1>1, EndStep DEF Snapshots!newest
  <1>2. CASE ends # {} /\ ~(now - Snapshots!Max(ends) > MaxAge)
    <2> DEFINE m == Snapshots!Max(ends)
    <2>1. ends \in SUBSET Int /\ now \in Int /\ \A x \in ends : x <= now
      <3>1. \A i \in DOMAIN windows : windows[i] \in Snapshots!Window
        BY DEF SnapshotInv, SnapshotTypes
      <3> QED BY <3>1 DEF SnapshotInv, SnapshotTypes, WindowsEnded, Snapshots!Of, Snapshots!Window
    <2>2. m \in ends /\ \A x \in ends : x <= m
      <3>1. PICK x \in ends : \A y \in ends : y <= x
        BY <1>2, <2>1, GreatestExists
      <3> HIDE DEF ends
      <3>2. \A y \in ends : x >= y
        BY <3>1, <2>1
      <3> QED BY <3>2, <2>1 DEF Snapshots!Max
    <2>3. /\ anchor' = [anchor EXCEPT ![w] = m] /\ read' = [read EXCEPT ![w] = now]
          /\ before' = [before EXCEPT ![w] = Len(windows)] /\ snapshot_pc' = [snapshot_pc EXCEPT ![w] = "anchored"]
          /\ UNCHANGED <<run, sources, now, windows, target, snapshot>> /\ snapshot_pc[w] = "begun" /\ ~(now - m > MaxAge)
      BY <1>2 DEF Snapshots!newest
    <2>4. Newest(run[w], m, Len(windows))
      <3>1. \A i \in Snapshots!Of(target[run[w]]) : windows[i].until \in ends /\ i <= Len(windows)
        BY DEF Snapshots!Of, SnapshotInv, SnapshotTypes
      <3>2. PICK i \in Snapshots!Of(target[run[w]]) : windows[i].until = m
        BY <2>2
      <3>3. Len(windows) \in 0..Len(windows)
        BY DEF SnapshotInv, SnapshotTypes
      <3> HIDE DEF m, ends
      <3> QED BY <3>1, <3>2, <3>3, <2>2 DEF Newest
    <2>5. m \in Int /\ now - m <= MaxAge
      BY <2>1, <2>2, <2>3, RecordsConstants DEF Snapshots!SnapshotConstants
    <2> HIDE DEF m, ends
    <2> USE <2>3 DEF SnapshotInv, SnapshotTypes
    <2>6. SnapshotTypes'
      BY <2>5 DEF Snapshots!Points
    <2>7. WindowsEnded' /\ RunLocked'
      BY DEF WindowsEnded, RunLocked
    <2>8. /\ snapshot_pc'[w] = "anchored" /\ anchor'[w] = m /\ read'[w] = now /\ before'[w] = Len(windows)
          /\ \A v \in Workers \ {w} : /\ snapshot_pc'[v] = snapshot_pc[v] /\ anchor'[v] = anchor[v]
                                      /\ read'[v] = read[v] /\ before'[v] = before[v]
      OBVIOUS
    <2>9. Anchored'
      BY <2>4, <2>5, <2>8, SelectionStays DEF Anchored
    <2>10. Selected'
      BY <2>8, SelectionStays DEF Selected
    <2>11. InsertedApart'
      BY <2>8 DEF InsertedApart, Snapshots!Frozen
    <2>12. SnapshotsHold'
      BY SelectionStays DEF SnapshotsHold, Attached
    <2> QED BY <2>6, <2>7, <2>9, <2>10, <2>11, <2>12
  <1> QED BY <1>1, <1>2

\* Its second statement: all of the lookback, and in it the newest window
LEMMA SelectStep ==
    ASSUME WindowsFit, SnapshotInv, NEW w \in Workers, Snapshots!select(w)
    PROVE  SnapshotInv'
  <1> DEFINE found == InLookback(run[w], anchor[w])
  <1>1. CASE found = {}
    BY <1>1, EndStep DEF Snapshots!select, InLookback
  <1>2. CASE found # {}
    <2>1. /\ sources' = [sources EXCEPT ![w] = found] /\ snapshot_pc' = [snapshot_pc EXCEPT ![w] = "selected"]
          /\ UNCHANGED <<run, anchor, read, before, now, windows, target, snapshot>> /\ snapshot_pc[w] = "anchored"
      BY <1>2 DEF Snapshots!select, InLookback
    <2>2. Newest(run[w], anchor[w], before[w]) /\ anchor[w] \in Int
      BY <2>1 DEF SnapshotInv, SnapshotTypes, Anchored
    <2>3. Selects(run[w], anchor[w], before[w], found)
      <3>1. PICK i \in Snapshots!Of(target[run[w]]) : windows[i].until = anchor[w]
        BY <2>2 DEF Newest
      <3>2. windows[i] \in Snapshots!Window /\ windows[i].from >= windows[i].until - Length
        BY DEF SnapshotInv, SnapshotTypes, WindowsEnded, Snapshots!Of
      <3>3. windows[i].from >= anchor[w] - Lookback /\ windows[i].until <= anchor[w]
        BY <2>2, <3>1, <3>2, RecordsConstants DEF WindowsFit, Snapshots!SnapshotConstants, Snapshots!Window
      <3>4. i \in found
        BY <3>1, <3>3 DEF InLookback
      <3> HIDE DEF found
      <3> QED BY <3>1, <3>4 DEF Selects, found
    <2> HIDE DEF found
    <2> USE <2>1 DEF SnapshotInv, SnapshotTypes
    <2>4. SnapshotTypes'
      BY DEF Snapshots!Points
    <2>5. WindowsEnded' /\ RunLocked'
      BY DEF WindowsEnded, RunLocked
    <2>6. /\ snapshot_pc'[w] = "selected" /\ sources'[w] = found
          /\ \A v \in Workers \ {w} : snapshot_pc'[v] = snapshot_pc[v] /\ sources'[v] = sources[v]
      OBVIOUS
    <2>7. Anchored'
      BY <2>2, <2>6, SelectionStays DEF Anchored
    <2>8. Selected'
      BY <2>3, <2>6, SelectionStays DEF Selected
    <2>9. InsertedApart'
      BY <2>6 DEF InsertedApart, Snapshots!Frozen
    <2>10. SnapshotsHold'
      BY SelectionStays DEF SnapshotsHold, Attached
    <2> QED BY <2>4, <2>5, <2>7, <2>8, <2>9, <2>10
  <1> QED BY <1>1, <1>2

\* _build_material finds operations, and the evidence is inserted when no other snapshot has it
LEMMA BuildInsertStep ==
    ASSUME SnapshotInv, NEW w \in Workers, Snapshots!build(w) \/ Snapshots!insert(w)
    PROVE  SnapshotInv'
  <1>1. CASE Snapshots!End(w) /\ Snapshots!build(w)
    BY <1>1, EndStep DEF Snapshots!build
  <1>2. ASSUME \/ snapshot_pc[w] = "selected" /\ snapshot_pc' = [snapshot_pc EXCEPT ![w] = "built"]
               \/ Snapshots!insert(w),
               UNCHANGED <<now, windows, target, snapshot, run, anchor, sources, read, before>>
        PROVE  SnapshotInv'
    <2> USE <1>2 DEF SnapshotInv, SnapshotTypes, Snapshots!insert
    <2>1. SnapshotTypes'
      BY DEF Snapshots!Points
    <2>2. WindowsEnded' /\ RunLocked'
      BY DEF WindowsEnded, RunLocked
    <2>3. /\ snapshot_pc'[w] \in {"built", "inserted"} /\ snapshot_pc[w] \in {"selected", "built"}
          /\ \A v \in Workers \ {w} : snapshot_pc'[v] = snapshot_pc[v]
      OBVIOUS
    <2>4. Anchored'
      BY <2>3, SelectionStays DEF Anchored
    <2>5. Selected'
      BY <2>3, SelectionStays DEF Selected
    <2>6. InsertedApart'
      <3>1. Snapshots!Frozen' = Snapshots!Frozen
        BY DEF Snapshots!Frozen
      <3>2. snapshot_pc'[w] = "inserted" => /\ sources[w] \cap Snapshots!Frozen = {}
                                            /\ \A v \in Workers \ {w} : snapshot_pc[v] = "inserted" => sources[v] \cap sources[w] = {}
        BY <2>3
      <3> QED BY <2>3, <3>1, <3>2 DEF InsertedApart
    <2>7. SnapshotsHold'
      BY SelectionStays DEF SnapshotsHold, Attached
    <2> QED BY <2>1, <2>2, <2>4, <2>5, <2>6, <2>7
  <1> QED BY <1>1, <1>2 DEF Snapshots!build, Snapshots!insert

\* The run gets the snapshot that its transaction has selected
LEMMA CommitSnapshotStep ==
    ASSUME SnapshotInv, NEW w \in Workers, Snapshots!commit(w)
    PROVE  SnapshotInv'
  <1> USE DEF SnapshotInv, SnapshotTypes, Snapshots!End, Snapshots!commit
  <1> DEFINE r == run[w]
             s == [anchor |-> anchor[w], sources |-> sources[w], read |-> read[w], before |-> before[w]]
  <1>1. SnapshotTypes'
    BY DEF Snapshots!Points
  <1>2. WindowsEnded' /\ RunLocked'
    BY DEF WindowsEnded, RunLocked
  <1>3. /\ snapshot_pc'[w] = "idle"
        /\ \A v \in Workers \ {w} : /\ snapshot_pc'[v] = snapshot_pc[v] /\ run'[v] = run[v] /\ anchor'[v] = anchor[v]
                                    /\ sources'[v] = sources[v] /\ read'[v] = read[v] /\ before'[v] = before[v]
    OBVIOUS
  <1>4. Anchored' /\ Selected'
    BY <1>3, SelectionStays DEF Anchored, Selected
  <1>5. r \in Runs /\ snapshot'[r] = s /\ \A q \in Runs \ {r} : snapshot'[q] = snapshot[q]
    BY DEF RunLocked
  <1>6. s.anchor = anchor[w] /\ s.sources = sources[w] /\ s.read = read[w] /\ s.before = before[w]
    OBVIOUS
  <1>7. /\ read[w] - anchor[w] <= MaxAge /\ Newest(r, anchor[w], before[w]) /\ Selects(r, anchor[w], before[w], sources[w])
        /\ sources[w] \cap Snapshots!Frozen = {}
        /\ \A v \in Workers \ {w} : snapshot_pc[v] = "inserted" => sources[v] \cap sources[w] = {}
    BY DEF Anchored, Selected, InsertedApart
  <1> HIDE DEF s, Snapshots!commit, Snapshots!End
  <1>8. Snapshots!Frozen' \subseteq Snapshots!Frozen \cup sources[w]
    BY <1>5, <1>6 DEF Snapshots!Frozen
  <1>9. \A q \in Runs \ {r} : Attached(q) => snapshot[q].sources \subseteq Snapshots!Frozen
    BY DEF Attached, Snapshots!Frozen
  <1>10. InsertedApart'
    <2> SUFFICES ASSUME NEW v \in Workers, snapshot_pc'[v] = "inserted"
                 PROVE  /\ sources'[v] \cap Snapshots!Frozen' = {}
                        /\ \A u \in Workers \ {v} : snapshot_pc'[u] = "inserted" => sources'[u] \cap sources'[v] = {}
      BY Zenon DEF InsertedApart
    <2>1. v # w /\ snapshot_pc[v] = "inserted" /\ sources'[v] = sources[v]
      BY <1>3
    <2>2. sources[v] \cap Snapshots!Frozen = {} /\ sources[v] \cap sources[w] = {}
      BY <1>7, <2>1 DEF InsertedApart
    <2>3. sources'[v] \cap Snapshots!Frozen' = {}
      BY <1>8, <2>1, <2>2
    <2>4. ASSUME NEW u \in Workers \ {v}, snapshot_pc'[u] = "inserted" PROVE sources'[u] \cap sources'[v] = {}
      <3>1. u # w /\ snapshot_pc[u] = "inserted" /\ sources'[u] = sources[u]
        BY <1>3, <2>4
      <3> QED BY <2>1, <3>1 DEF InsertedApart
    <2> QED BY <2>3, <2>4
  <1>11. SnapshotsHold'
    <2> SUFFICES ASSUME NEW p \in Runs, Attached(p)'
                 PROVE  /\ snapshot'[p].read - snapshot'[p].anchor <= MaxAge
                        /\ Newest(p, snapshot'[p].anchor, snapshot'[p].before)
                        /\ Selects(p, snapshot'[p].anchor, snapshot'[p].before, snapshot'[p].sources)
                        /\ \A q \in Runs \ {p} : Attached(q)' => snapshot'[p].sources \cap snapshot'[q].sources = {}
      BY SelectionStays DEF SnapshotsHold, Snapshots!commit
    <2>1. CASE p = r
      <3>1. \A q \in Runs \ {p} : Attached(q)' => sources[w] \cap snapshot[q].sources = {}
        BY <2>1, <1>5, <1>7, <1>9 DEF Attached
      <3> QED BY <2>1, <3>1, <1>5, <1>6, <1>7
    <2>2. CASE p # r
      <3>1. snapshot'[p] = snapshot[p] /\ Attached(p)
        BY <2>2, <1>5 DEF Attached
      <3>2. ASSUME NEW q \in Runs \ {p}, Attached(q)' PROVE snapshot[p].sources \cap snapshot'[q].sources = {}
        <4>1. CASE q = r
          BY <4>1, <2>2, <3>1, <1>5, <1>6, <1>7, <1>9
        <4>2. CASE q # r
          BY <4>2, <3>1, <3>2, <1>5 DEF SnapshotsHold, Attached
        <4> QED BY <4>1, <4>2
      <3> QED BY <3>1, <3>2 DEF SnapshotsHold
    <2> QED BY <2>1, <2>2
  <1> QED BY <1>1, <1>2, <1>4, <1>10, <1>11

\* A snapshot is what the policy asks for, although its two selections see different windows
\* and others are taken meanwhile, if no window is longer than the lookback.
THEOREM SnapshotsFollowThePolicy == ASSUME WindowsFit PROVE Snapshots!Spec => []SnapshotIsSound
  <1>1. Snapshots!Init => SnapshotInv
    <2> SUFFICES ASSUME Snapshots!Init PROVE SnapshotInv
      OBVIOUS
    <2> USE RecordsConstants DEF Snapshots!Init, Snapshots!SnapshotConstants
    <2>1. SnapshotTypes
      BY DEF SnapshotTypes, Snapshots!Points
    <2> QED BY <2>1 DEF SnapshotInv, WindowsEnded, RunLocked, Anchored, Selected, InsertedApart, SnapshotsHold, Attached
  <1>2. SnapshotInv /\ [Snapshots!Next]_(Snapshots!vars) => SnapshotInv'
    <2> SUFFICES ASSUME SnapshotInv, [Snapshots!Next]_(Snapshots!vars) PROVE SnapshotInv'
      OBVIOUS
    <2>1. ASSUME UNCHANGED <<windows, target, snapshot, run, anchor, sources, read, before, snapshot_pc>>, now' \in Nat, now' >= now
          PROVE  SnapshotInv'
      <3>1. SnapshotTypes' /\ WindowsEnded' /\ RunLocked'
        <4>1. \A i \in DOMAIN windows : windows[i] \in Snapshots!Window
          BY DEF SnapshotInv, SnapshotTypes
        <4> QED BY <2>1, <4>1 DEF SnapshotInv, SnapshotTypes, WindowsEnded, RunLocked, Snapshots!Window
      <3>2. Anchored' /\ Selected' /\ SnapshotsHold'
        BY <2>1, SelectionStays DEF SnapshotInv, Anchored, Selected, SnapshotsHold, Attached
      <3>3. InsertedApart'
        BY <2>1 DEF SnapshotInv, InsertedApart, Snapshots!Frozen
      <3> QED BY <3>1, <3>2, <3>3 DEF SnapshotInv
    <2>2. CASE Snapshots!tick
      BY <2>1, <2>2 DEF Snapshots!tick, Snapshots!transaction_vars, SnapshotInv, SnapshotTypes
    <2>3. CASE UNCHANGED Snapshots!vars
      BY <2>1, <2>3 DEF Snapshots!vars, Snapshots!transaction_vars, SnapshotInv, SnapshotTypes
    <2>4. ASSUME NEW t \in Targets, NEW until \in now - Delay..now, NEW from \in until - Length..until,
                 Snapshots!persist_completed(t, from, until)
          PROVE  SnapshotInv'
      BY <2>4, PersistStep
    <2>5. ASSUME NEW w \in Workers, Snapshots!refuse(w) \/ Snapshots!fails(w) PROVE SnapshotInv'
      BY <2>5, EndStep DEF Snapshots!refuse, Snapshots!fails
    <2> QED BY <2>2, <2>3, <2>4, <2>5, BeginStep, NewestStep, SelectStep, BuildInsertStep, CommitSnapshotStep DEF Snapshots!Next
  <1>3. SnapshotInv => SnapshotIsSound
    <2> SUFFICES ASSUME SnapshotInv, NEW r \in Runs, snapshot[r] # NoSnapshot
                 PROVE  LET s == snapshot[r]
                            seen == {i \in Snapshots!Of(target[r]) : i <= s.before}
                            lookback == {i \in Snapshots!Of(target[r]) : windows[i].from >= s.anchor - Lookback /\ windows[i].until <= s.anchor}
                        IN /\ s.read - s.anchor <= MaxAge
                           /\ \E i \in s.sources : windows[i].until = s.anchor
                           /\ seen \cap lookback \subseteq s.sources /\ s.sources \subseteq lookback
                           /\ \A i \in seen : windows[i].until <= s.anchor
                           /\ \A q \in Runs \ {r} : snapshot[q] # NoSnapshot => s.sources \cap snapshot[q].sources = {}
      BY DEF SnapshotIsSound, Snapshots!SnapshotIsSound
    <2> QED BY DEF SnapshotInv, SnapshotsHold, Attached, Newest, Selects, InLookback
  <1> QED BY <1>1, <1>2, <1>3, PTL DEF Snapshots!Spec

-----------------------------------------------------------------------------
(* Sessions *)

\* A password that was checked
Check == [at : Nat, good : BOOLEAN]

SessionTypes ==
    /\ clock \in Nat
    /\ user \in [active : BOOLEAN, failed_login_count : Nat, locked_until : Nat]
    /\ tokens \in Seq(Users!Token) /\ held \subseteq DOMAIN tokens
    /\ session_pc \in [Workers -> {"idle", "login", "refresh", "issue"}]
    /\ at \in [Workers -> Nat] /\ of \in [Workers -> Nat]
    /\ login_of \in [Workers -> Nat] /\ logins \in Nat /\ checks \in Seq(Check)

\* What a request presents is a token of the login it carries
Presents(r) ==
    /\ session_pc[r] = "refresh" => of[r] # 0
    /\ session_pc[r] = "login" => of[r] = 0
    /\ of[r] # 0 => of[r] \in DOMAIN tokens /\ login_of[r] = tokens[of[r]].login
    /\ login_of[r] <= logins

\* A token comes from a login that succeeded, or after one that was used
Descends ==
    \A t \in DOMAIN tokens :
        /\ tokens[t].login <= logins
        /\ tokens[t].after # 0 => tokens[t].after \in DOMAIN tokens /\ tokens[tokens[t].after].revoked

\* The request that is to issue a token of a login is the only one, and the login has no valid token
MayIssue ==
    \A r \in Workers : session_pc[r] = "issue" =>
        /\ of[r] # 0 => tokens[of[r]].revoked
        /\ \A t \in DOMAIN tokens : tokens[t].login = login_of[r] => tokens[t].revoked
        /\ \A t \in DOMAIN tokens : tokens[t].after = of[r] => of[r] = 0
        /\ \A q \in Workers : session_pc[q] = "issue" /\ login_of[q] = login_of[r] => q = r

\* The user's row says how many wrong passwords there were in a row, and locks from the last
Counted ==
    LET n == user.failed_login_count
    IN  /\ n <= Len(checks)
        /\ \A i \in (Len(checks) - n + 1)..Len(checks) : ~checks[i].good
        /\ n < Len(checks) => checks[Len(checks) - n].good
        /\ n >= FAILED_LOGIN_LIMIT => user.locked_until = checks[Len(checks)].at + LOCKOUT_DURATION

SessionInv ==
    /\ SessionTypes /\ (\A r \in Workers : Presents(r)) /\ Descends /\ MayIssue /\ Counted /\ Users!SessionsAreSound

\* The types that the parts of the invariant are about
LEMMA SessionFacts ==
    ASSUME SessionInv
    PROVE  /\ Len(tokens) \in Nat /\ DOMAIN tokens = 1..Len(tokens) /\ \A t \in DOMAIN tokens : tokens[t] \in Users!Token
           /\ Len(checks) \in Nat /\ DOMAIN checks = 1..Len(checks)
           /\ \A i \in DOMAIN checks : checks[i].at \in Nat /\ checks[i].good \in BOOLEAN
           /\ \A r \in Workers : at[r] \in Nat /\ of[r] \in Nat /\ login_of[r] \in Nat
           /\ logins \in Nat /\ user.failed_login_count \in Nat /\ user.locked_until \in Nat
           /\ FAILED_LOGIN_LIMIT \in Nat \ {0} /\ LOCKOUT_DURATION \in Nat \ {0} /\ Lifetime \in Nat \ {0}
  <1> USE RecordsConstants DEF SessionInv, SessionTypes, Users!SessionConstants
  <1>1. \A t \in DOMAIN tokens : tokens[t] \in Users!Token
    OBVIOUS
  <1>2. \A i \in DOMAIN checks : checks[i] \in Check
    OBVIOUS
  <1> QED BY <1>1, <1>2 DEF Check

\* A step that writes no row, and after which a request is no further than it was
LEMMA NoRowStep ==
    ASSUME SessionInv, SessionTypes', UNCHANGED <<tokens, checks, logins>>,
           user'.failed_login_count = user.failed_login_count, user'.locked_until = user.locked_until,
           \A r \in Workers : Presents(r)',
           \A r \in Workers : session_pc'[r] = "issue" => session_pc[r] = "issue" /\ of'[r] = of[r] /\ login_of'[r] = login_of[r]
    PROVE  SessionInv'
  <1>1. Descends' /\ MayIssue'
    BY DEF SessionInv, Descends, MayIssue
  <1>2. Counted'
    BY DEF SessionInv, Counted
  <1>3. Users!SessionsAreSound'
    BY DEF SessionInv, Users!SessionsAreSound, Users!OneTime, Users!OneValid, Users!LockoutHolds, Users!Ids
  <1> QED BY <1>1, <1>2, <1>3 DEF SessionInv

\* A request begins with a token that its client holds, or without one
LEMMA RequestBegins ==
    ASSUME SessionInv, NEW r \in Workers, NEW op, NEW t, Users!begin(r, op, t),
           \/ op = "login" /\ t = 0
           \/ op = "refresh" /\ t \in held
    PROVE  SessionInv'
  <1> DEFINE login == IF t = 0 THEN 0 ELSE tokens[t].login
  <1>0. t \in Nat /\ (t # 0 => t \in DOMAIN tokens /\ tokens[t].login \in Nat /\ tokens[t].login <= logins) /\ (op = "refresh" => t # 0)
    <2>1. \A u \in held : u \in DOMAIN tokens /\ u \in Nat /\ u # 0
      BY SessionFacts DEF SessionInv, SessionTypes
    <2>2. \A u \in DOMAIN tokens : tokens[u].login \in Nat
      BY SessionFacts DEF Users!Token
    <2>3. \A u \in DOMAIN tokens : tokens[u].login <= logins
      BY DEF SessionInv, Descends
    <2> QED BY <2>1, <2>2, <2>3
  <1>1. login \in Nat /\ login <= logins /\ (t # 0 => login = tokens[t].login) /\ op \in {"login", "refresh"}
    BY <1>0, SessionFacts
  <1>2. session_pc' = [session_pc EXCEPT ![r] = op] /\ at' = [at EXCEPT ![r] = clock] /\ of' = [of EXCEPT ![r] = t]
        /\ login_of' = [login_of EXCEPT ![r] = login] /\ UNCHANGED <<clock, user, tokens, held, logins, checks>>
    BY DEF Users!begin
  <1> HIDE DEF login
  <1>3. SessionTypes
    BY DEF SessionInv
  <1>4. session_pc' \in [Workers -> {"idle", "login", "refresh", "issue"}] /\ at' \in [Workers -> Nat]
        /\ of' \in [Workers -> Nat] /\ login_of' \in [Workers -> Nat]
    BY <1>0, <1>1, <1>2, <1>3 DEF SessionTypes
  <1>5. SessionTypes'
    BY <1>2, <1>3, <1>4 DEF SessionTypes
  <1>6. ASSUME NEW q \in Workers, q # r
        PROVE  session_pc'[q] = session_pc[q] /\ of'[q] = of[q] /\ login_of'[q] = login_of[q]
    BY <1>2, <1>3, <1>6 DEF SessionTypes
  <1>7. session_pc'[r] = op /\ of'[r] = t /\ login_of'[r] = login
    BY <1>2, <1>3 DEF SessionTypes
  <1>8. ASSUME NEW q \in Workers PROVE Presents(q)'
    <2>1. CASE q = r
      BY <2>1, <1>0, <1>1, <1>2, <1>7 DEF Presents
    <2>2. CASE q # r
      BY <2>2, <1>2, <1>6 DEF SessionInv, Presents
    <2> QED BY <2>1, <2>2
  <1>9. \A q \in Workers : session_pc'[q] = "issue" => session_pc[q] = "issue" /\ of'[q] = of[q] /\ login_of'[q] = login_of[q]
    BY <1>1, <1>6, <1>7
  <1> QED BY <1>2, <1>5, <1>8, <1>9, NoRowStep

\* A request that ends carries nothing, and the others are as they were
LEMMA EndsIdle ==
    ASSUME SessionInv, NEW r \in Workers, Users!Done(r)
    PROVE  /\ session_pc' \in [Workers -> {"idle", "login", "refresh", "issue"}] /\ at' \in [Workers -> Nat]
           /\ of' \in [Workers -> Nat] /\ login_of' \in [Workers -> Nat]
           /\ session_pc'[r] = "idle" /\ of'[r] = 0 /\ login_of'[r] = 0
           /\ \A q \in Workers : q # r => session_pc'[q] = session_pc[q] /\ of'[q] = of[q] /\ login_of'[q] = login_of[q]
  BY DEF SessionInv, SessionTypes, Users!Done

\* A request ends, refused or dead
LEMMA RequestEnds ==
    ASSUME SessionInv, NEW r \in Workers, Users!refused(r) \/ Users!die(r)
    PROVE  SessionInv'
  <1>1. Users!Done(r) /\ UNCHANGED <<clock, user, tokens, held, logins, checks>>
    BY DEF Users!refused, Users!die
  <1>2. SessionTypes'
    <2>1. SessionTypes
      BY DEF SessionInv
    <2>2. /\ session_pc' \in [Workers -> {"idle", "login", "refresh", "issue"}] /\ at' \in [Workers -> Nat]
          /\ of' \in [Workers -> Nat] /\ login_of' \in [Workers -> Nat]
      BY <1>1, EndsIdle
    <2>3. UNCHANGED <<clock, user, tokens, held, logins, checks>>
      BY <1>1
    <2> QED BY <2>1, <2>2, <2>3 DEF SessionTypes
  <1>3. ASSUME NEW q \in Workers PROVE Presents(q)'
    <2>1. CASE q = r
      BY <2>1, <1>1, EndsIdle, SessionFacts DEF Presents
    <2>2. CASE q # r
      BY <2>2, <1>1, EndsIdle DEF SessionInv, Presents
    <2> QED BY <2>1, <2>2
  <1>4. \A q \in Workers : session_pc'[q] = "issue" => session_pc[q] = "issue" /\ of'[q] = of[q] /\ login_of'[q] = login_of[q]
    BY <1>1, EndsIdle
  <1> QED BY <1>1, <1>2, <1>3, <1>4, NoRowStep

\* The clock and the administrator
LEMMA AroundSessions ==
    ASSUME SessionInv, Users!Tick \/ Users!disable \/ UNCHANGED Users!vars
    PROVE  SessionInv'
  <1>1. UNCHANGED <<tokens, held, session_pc, at, of, login_of, logins, checks>>
    BY DEF Users!Tick, Users!disable, Users!vars
  <1>2. SessionTypes
    BY DEF SessionInv
  <1>3. clock' \in Nat /\ user' \in [active : BOOLEAN, failed_login_count : Nat, locked_until : Nat]
        /\ user'.failed_login_count = user.failed_login_count /\ user'.locked_until = user.locked_until
    <2> USE <1>2 DEF SessionTypes
    <2>1. CASE Users!Tick
      BY <2>1 DEF Users!Tick
    <2>2. CASE Users!disable
      BY <2>2 DEF Users!disable
    <2>3. CASE UNCHANGED Users!vars
      BY <2>3 DEF Users!vars
    <2> QED BY <2>1, <2>2, <2>3
  <1>4. SessionTypes'
    BY <1>1, <1>2, <1>3 DEF SessionTypes
  <1>5. \A q \in Workers : Presents(q)'
    BY <1>1 DEF SessionInv, Presents
  <1> QED BY <1>1, <1>3, <1>4, <1>5, NoRowStep

\* A password is checked only by a request that is not locked out, so after a lockout only
\* one that read the clock when it was over
LEMMA CheckStep ==
    ASSUME SessionInv, NEW c \in Check, user.locked_until <= c.at, checks' = Append(checks, c),
           c.good => user'.failed_login_count = 0,
           ~c.good => /\ user'.failed_login_count = user.failed_login_count + 1
                      /\ user'.failed_login_count >= FAILED_LOGIN_LIMIT => user'.locked_until = c.at + LOCKOUT_DURATION
    PROVE  Counted' /\ Users!LockoutHolds'
  <1> DEFINE n == user.failed_login_count
             L == Len(checks)
  <1>1. /\ L \in Nat /\ n \in Nat /\ DOMAIN checks = 1..L /\ checks \in Seq(Check)
        /\ FAILED_LOGIN_LIMIT \in Nat \ {0} /\ c.at \in Nat /\ LOCKOUT_DURATION \in Nat
    BY SessionFacts DEF SessionInv, SessionTypes, Check
  <1>2. Len(checks') = L + 1 /\ DOMAIN checks' = 1..(L + 1) /\ checks'[L + 1] = c /\ \A i \in 1..L : checks'[i] = checks[i]
    BY <1>1
  <1>3. /\ n <= L /\ \A i \in (L - n + 1)..L : ~checks[i].good
        /\ n < L => checks[L - n].good
        /\ n >= FAILED_LOGIN_LIMIT => user.locked_until = checks[L].at + LOCKOUT_DURATION
    BY DEF SessionInv, Counted
  <1> HIDE DEF n, L
  <1>4. Counted'
    <2>1. CASE c.good
      <3>1. user'.failed_login_count = 0
        BY <2>1
      <3> QED BY <1>1, <1>2, <2>1, <3>1 DEF Counted
    <2>2. CASE ~c.good
      <3>1. user'.failed_login_count = n + 1
        BY <2>2 DEF n
      <3>2. ASSUME NEW i \in (L - n + 1)..(L + 1) PROVE ~checks'[i].good
        <4>1. CASE i = L + 1
          BY <4>1, <1>2, <2>2
        <4>2. CASE i # L + 1
          BY <4>2, <1>1, <1>2, <1>3
        <4> QED BY <4>1, <4>2
      <3>3. n + 1 <= L + 1 /\ (n + 1 < L + 1 => checks'[L - n].good)
        BY <1>1, <1>2, <1>3
      <3>4. n + 1 >= FAILED_LOGIN_LIMIT => user'.locked_until = c.at + LOCKOUT_DURATION
        BY <2>2, <3>1
      <3>5. (L + 1) - (n + 1) + 1 = L - n + 1 /\ (L + 1) - (n + 1) = L - n
        BY <1>1
      <3> QED BY <1>2, <3>1, <3>2, <3>3, <3>4, <3>5 DEF Counted
    <2> QED BY <2>1, <2>2
  <1>5. Users!LockoutHolds'
    <2> SUFFICES ASSUME NEW i \in DOMAIN checks', i > FAILED_LOGIN_LIMIT,
                        \A j \in (i - FAILED_LOGIN_LIMIT)..(i - 1) : ~checks'[j].good
                 PROVE  checks'[i].at >= checks'[i - 1].at + LOCKOUT_DURATION
      BY DEF Users!LockoutHolds
    <2>1. CASE i <= L
      <3>1. i \in 1..L /\ i - 1 \in 1..L /\ \A j \in (i - FAILED_LOGIN_LIMIT)..(i - 1) : j \in 1..L
        BY <1>1, <1>2, <2>1
      <3>2. \A j \in (i - FAILED_LOGIN_LIMIT)..(i - 1) : ~checks[j].good
        BY <1>2, <3>1
      <3>3. checks[i].at >= checks[i - 1].at + LOCKOUT_DURATION
        BY <1>1, <3>1, <3>2 DEF SessionInv, Users!SessionsAreSound, Users!LockoutHolds
      <3> QED BY <1>2, <3>1, <3>3
    <2>2. CASE i = L + 1
      <3>1. \A j \in (L + 1 - FAILED_LOGIN_LIMIT)..L : j \in 1..L /\ ~checks[j].good
        BY <1>1, <1>2, <2>2
      <3>2. n >= FAILED_LOGIN_LIMIT
        <4> SUFFICES ASSUME n < FAILED_LOGIN_LIMIT PROVE FALSE
          BY <1>1
        <4>1. L - n \in (L + 1 - FAILED_LOGIN_LIMIT)..L /\ n < L
          BY <1>1, <2>2
        <4> QED BY <1>3, <3>1, <4>1
      <3>3. c.at >= checks[L].at + LOCKOUT_DURATION
        BY <1>3, <3>2
      <3>4. i - 1 = L /\ L \in 1..L
        BY <1>1, <2>2
      <3> QED BY <1>2, <2>2, <3>3, <3>4
    <2> QED BY <1>1, <1>2, <2>1, <2>2
  <1> QED BY <1>4, <1>5

\* The transaction of login, with the right password
LEMMA LoginStep ==
    ASSUME SessionInv, NEW r \in Workers, Users!login(r, TRUE)
    PROVE  SessionInv'
  <1>1. /\ session_pc[r] = "login" /\ user.locked_until <= at[r]
        /\ checks' = Append(checks, [at |-> at[r], good |-> TRUE])
        /\ user' = [user EXCEPT !.failed_login_count = 0, !.locked_until = 0]
        /\ logins' = logins + 1 /\ login_of' = [login_of EXCEPT ![r] = logins + 1]
        /\ session_pc' = [session_pc EXCEPT ![r] = "issue"] /\ UNCHANGED <<at, of, clock, tokens, held>>
    BY SessionFacts DEF Users!login, Users!Locked
  <1>2. SessionTypes
    BY DEF SessionInv
  <1>3. SessionTypes'
    <2>1. session_pc' \in [Workers -> {"idle", "login", "refresh", "issue"}] /\ login_of' \in [Workers -> Nat] /\ logins' \in Nat
      BY <1>1, <1>2 DEF SessionTypes
    <2>2. user' \in [active : BOOLEAN, failed_login_count : Nat, locked_until : Nat]
      BY <1>1, <1>2 DEF SessionTypes
    <2>3. [at |-> at[r], good |-> TRUE] \in Check
      BY SessionFacts DEF Check
    <2>4. checks' \in Seq(Check)
      BY <1>1, <1>2, <2>3 DEF SessionTypes
    <2> QED BY <1>1, <1>2, <2>1, <2>2, <2>4 DEF SessionTypes
  <1>4. of[r] = 0 /\ \A t \in DOMAIN tokens : tokens[t].login <= logins
    BY <1>1 DEF SessionInv, Presents, Descends
  <1>5. session_pc'[r] = "issue" /\ login_of'[r] = logins + 1
        /\ \A q \in Workers : q # r => session_pc'[q] = session_pc[q] /\ login_of'[q] = login_of[q]
    BY <1>1, <1>2 DEF SessionTypes
  <1>6. \A q \in Workers : Presents(q)'
    BY <1>1, <1>4, <1>5, SessionFacts DEF SessionInv, Presents
  <1>7. Descends'
    BY <1>1, SessionFacts DEF SessionInv, Descends, Users!Token
  <1>8. MayIssue'
    <2>1. \A q \in Workers : login_of[q] \in Nat /\ login_of[q] <= logins
      BY SessionFacts DEF SessionInv, Presents
    <2>2. \A t \in DOMAIN tokens : tokens[t].login # logins + 1
      BY <1>4, SessionFacts DEF Users!Token
    <2>3. tokens' = tokens /\ of' = of
      BY <1>1
    <2> SUFFICES ASSUME NEW q \in Workers, session_pc'[q] = "issue"
                 PROVE  /\ of[q] # 0 => tokens[of[q]].revoked
                        /\ \A t \in DOMAIN tokens : tokens[t].login = login_of'[q] => tokens[t].revoked
                        /\ \A t \in DOMAIN tokens : tokens[t].after = of[q] => of[q] = 0
                        /\ \A p \in Workers : session_pc'[p] = "issue" /\ login_of'[p] = login_of'[q] => p = q
      BY <2>3 DEF MayIssue
    <2>4. CASE q = r
      <3>1. \A p \in Workers : p # r => login_of'[p] # logins + 1
        BY <1>5, <2>1, SessionFacts
      <3> QED BY <1>4, <1>5, <2>2, <2>4, <3>1
    <2>5. CASE q # r
      <3>1. session_pc[q] = "issue" /\ login_of'[q] = login_of[q] /\ login_of[q] # logins + 1
        BY <1>5, <2>1, <2>5, SessionFacts
      <3>2. \A p \in Workers : p # r => session_pc'[p] = session_pc[p] /\ login_of'[p] = login_of[p]
        BY <1>5
      <3> QED BY <1>5, <3>1, <3>2 DEF SessionInv, MayIssue
    <2> QED BY <2>4, <2>5
  <1>9. Counted' /\ Users!LockoutHolds'
    <2>1. user'.failed_login_count = 0
      BY <1>1, <1>2 DEF SessionTypes
    <2>2. [at |-> at[r], good |-> TRUE] \in Check
      BY SessionFacts DEF Check
    <2> QED BY <1>1, <2>1, <2>2, CheckStep
  <1>10. Users!OneTime' /\ Users!OneValid'
    BY <1>1 DEF SessionInv, Users!SessionsAreSound, Users!OneTime, Users!OneValid, Users!Ids
  <1> QED BY <1>3, <1>6, <1>7, <1>8, <1>9, <1>10 DEF SessionInv, Users!SessionsAreSound

\* The transaction of login, with a wrong password
LEMMA WrongPasswordStep ==
    ASSUME SessionInv, NEW r \in Workers, Users!login(r, FALSE)
    PROVE  SessionInv'
  <1> DEFINE failures == user.failed_login_count + 1
             until == IF failures >= FAILED_LOGIN_LIMIT THEN at[r] + LOCKOUT_DURATION ELSE 0
  <1>1. /\ session_pc[r] = "login" /\ user.locked_until <= at[r]
        /\ checks' = Append(checks, [at |-> at[r], good |-> FALSE])
        /\ user' = [user EXCEPT !.failed_login_count = failures, !.locked_until = until]
    BY SessionFacts DEF Users!login, Users!Locked
  <1>2. Users!Done(r) /\ UNCHANGED <<clock, tokens, held, logins>>
    BY DEF Users!login
  <1>3. SessionTypes
    BY DEF SessionInv
  <1>4. failures \in Nat /\ until \in Nat
    BY SessionFacts
  <1>5. user' \in [active : BOOLEAN, failed_login_count : Nat, locked_until : Nat]
        /\ user'.failed_login_count = failures /\ user'.locked_until = until
    <2> HIDE DEF failures, until
    <2> QED BY <1>1, <1>3, <1>4 DEF SessionTypes
  <1>6. [at |-> at[r], good |-> FALSE] \in Check
    BY SessionFacts DEF Check
  <1>7. SessionTypes'
    <2>1. checks' \in Seq(Check)
      BY <1>1, <1>3, <1>6 DEF SessionTypes
    <2>2. /\ session_pc' \in [Workers -> {"idle", "login", "refresh", "issue"}] /\ at' \in [Workers -> Nat]
          /\ of' \in [Workers -> Nat] /\ login_of' \in [Workers -> Nat]
      BY <1>2, EndsIdle
    <2>3. UNCHANGED <<clock, tokens, held, logins>>
      BY <1>2
    <2> QED BY <1>3, <1>5, <2>1, <2>2, <2>3 DEF SessionTypes
  <1>8. ASSUME NEW q \in Workers PROVE Presents(q)'
    <2>1. CASE q = r
      BY <2>1, <1>2, EndsIdle, SessionFacts DEF Presents
    <2>2. CASE q # r
      BY <2>2, <1>2, EndsIdle DEF SessionInv, Presents
    <2> QED BY <2>1, <2>2
  <1>9. Descends' /\ MayIssue'
    BY <1>2, EndsIdle DEF SessionInv, Descends, MayIssue
  <1>10. Counted' /\ Users!LockoutHolds'
    BY <1>1, <1>5, <1>6, CheckStep
  <1>11. Users!OneTime' /\ Users!OneValid'
    BY <1>2 DEF SessionInv, Users!SessionsAreSound, Users!OneTime, Users!OneValid, Users!Ids
  <1> QED BY <1>7, <1>8, <1>9, <1>10, <1>11 DEF SessionInv, Users!SessionsAreSound

\* A token is used or revoked: what a request may do, it still may
LEMMA RevokeFrame ==
    ASSUME SessionInv, NEW t \in DOMAIN tokens, tokens' = [tokens EXCEPT ![t].revoked = TRUE]
    PROVE  /\ tokens' \in Seq(Users!Token) /\ DOMAIN tokens' = DOMAIN tokens /\ tokens'[t].revoked
           /\ \A s \in DOMAIN tokens : /\ tokens'[s].login = tokens[s].login /\ tokens'[s].after = tokens[s].after
                                       /\ tokens[s].revoked => tokens'[s].revoked
                                       /\ s # t => tokens'[s].revoked = tokens[s].revoked
  <1>1. tokens[t] \in Users!Token /\ tokens \in Seq(Users!Token)
    BY SessionFacts DEF SessionInv, SessionTypes
  <1>2. [tokens[t] EXCEPT !.revoked = TRUE] \in Users!Token
    BY <1>1 DEF Users!Token
  <1>3. tokens' = [tokens EXCEPT ![t] = [tokens[t] EXCEPT !.revoked = TRUE]]
    OBVIOUS
  <1> DEFINE row == [tokens[t] EXCEPT !.revoked = TRUE]
  <1>4. row.revoked /\ row.login = tokens[t].login /\ row.after = tokens[t].after
    BY <1>1 DEF Users!Token
  <1> HIDE DEF row
  <1>5. tokens' = [tokens EXCEPT ![t] = row] /\ row \in Users!Token
    BY <1>2, <1>3 DEF row
  <1>6. tokens' \in Seq(Users!Token) /\ DOMAIN tokens' = DOMAIN tokens /\ tokens'[t] = row
        /\ \A s \in DOMAIN tokens : s # t => tokens'[s] = tokens[s]
    <2>1. t \in 1..Len(tokens) /\ DOMAIN tokens = 1..Len(tokens)
      BY <1>1
    <2>2. [tokens EXCEPT ![t] = row] \in Seq(Users!Token)
      BY <1>1, <1>5, <2>1, ExceptSeq
    <2>3. [tokens EXCEPT ![t] = row][t] = row /\ \A s \in DOMAIN tokens : s # t => [tokens EXCEPT ![t] = row][s] = tokens[s]
      BY <2>1
    <2>4. DOMAIN [tokens EXCEPT ![t] = row] = DOMAIN tokens
      OBVIOUS
    <2> QED BY <1>5, <2>2, <2>3, <2>4
  <1> QED BY <1>4, <1>6

\* What was right of the tokens stays right when one is revoked
LEMMA RevokedSound ==
    ASSUME SessionInv, NEW t \in DOMAIN tokens, tokens' = [tokens EXCEPT ![t].revoked = TRUE], UNCHANGED <<checks, logins>>
    PROVE  Descends' /\ Users!OneTime' /\ Users!OneValid' /\ Users!LockoutHolds'
  <1>1. Descends'
    BY RevokeFrame DEF SessionInv, Descends
  <1>2. Users!OneTime'
    <2>1. \A s \in DOMAIN tokens : tokens[s].after # 0 => tokens[s].after \in DOMAIN tokens
      BY DEF SessionInv, Descends
    <2> QED BY <2>1, RevokeFrame DEF SessionInv, Users!SessionsAreSound, Users!OneTime, Users!Ids
  <1>3. Users!OneValid'
    BY RevokeFrame DEF SessionInv, Users!SessionsAreSound, Users!OneValid, Users!Ids
  <1>4. Users!LockoutHolds'
    BY DEF SessionInv, Users!SessionsAreSound, Users!LockoutHolds
  <1> QED BY <1>1, <1>2, <1>3, <1>4

\* logout
LEMMA LogoutStep ==
    ASSUME SessionInv, NEW t \in held, Users!logout(t)
    PROVE  SessionInv'
  <1>1. t \in DOMAIN tokens /\ tokens' = [tokens EXCEPT ![t].revoked = TRUE]
        /\ UNCHANGED <<clock, user, held, session_pc, at, of, login_of, logins, checks>>
    BY DEF Users!logout, SessionInv, SessionTypes
  <1>2. SessionTypes'
    BY <1>1, RevokeFrame DEF SessionInv, SessionTypes
  <1>3. \A q \in Workers : Presents(q)'
    BY <1>1, RevokeFrame DEF SessionInv, Presents
  <1>4. MayIssue'
    <2>1. \A q \in Workers : of[q] # 0 => of[q] \in DOMAIN tokens
      BY DEF SessionInv, Presents
    <2> QED BY <1>1, <2>1, RevokeFrame DEF SessionInv, MayIssue
  <1>5. Counted'
    BY <1>1 DEF SessionInv, Counted
  <1> QED BY <1>1, <1>2, <1>3, <1>4, <1>5, RevokedSound DEF SessionInv, Users!SessionsAreSound

\* The transaction of refresh: the token was valid, so its login has no other valid token,
\* nobody else is about to issue one, and no token has come from it
LEMMA RefreshStep ==
    ASSUME SessionInv, NEW r \in Workers, Users!refresh(r)
    PROVE  SessionInv'
  <1> DEFINE t == of[r]
  <1>1. /\ session_pc[r] = "refresh" /\ ~tokens[t].revoked /\ tokens' = [tokens EXCEPT ![t].revoked = TRUE]
        /\ session_pc' = [session_pc EXCEPT ![r] = "issue"]
        /\ UNCHANGED <<clock, user, held, at, of, login_of, logins, checks>>
    BY DEF Users!refresh
  <1>2. t # 0 /\ t \in DOMAIN tokens /\ login_of[r] = tokens[t].login
    BY <1>1 DEF SessionInv, Presents
  <1> HIDE DEF t
  <1>3. session_pc' \in [Workers -> {"idle", "login", "refresh", "issue"}] /\ session_pc'[r] = "issue"
        /\ \A q \in Workers : q # r => session_pc'[q] = session_pc[q]
    BY <1>1 DEF SessionInv, SessionTypes
  <1>4. SessionTypes'
    BY <1>1, <1>2, <1>3, RevokeFrame DEF SessionInv, SessionTypes
  <1>5. \A q \in Workers : Presents(q)'
    <2>1. DOMAIN tokens' = DOMAIN tokens /\ \A s \in DOMAIN tokens : tokens'[s].login = tokens[s].login
      BY <1>1, <1>2, RevokeFrame
    <2>2. of[r] # 0
      BY <1>2 DEF t
    <2> QED BY <1>1, <1>3, <2>1, <2>2 DEF SessionInv, Presents
  <1>6. MayIssue'
    <2> SUFFICES ASSUME NEW q \in Workers, session_pc'[q] = "issue"
                 PROVE  /\ of[q] # 0 => tokens'[of[q]].revoked
                        /\ \A s \in DOMAIN tokens : tokens'[s].login = login_of[q] => tokens'[s].revoked
                        /\ \A s \in DOMAIN tokens : tokens'[s].after = of[q] => of[q] = 0
                        /\ \A p \in Workers : session_pc'[p] = "issue" /\ login_of[p] = login_of[q] => p = q
      BY <1>1, <1>2, RevokeFrame DEF MayIssue
    <2>1. \A p \in Workers : p # r /\ session_pc'[p] = "issue" => login_of[p] # login_of[r]
      BY <1>2, <1>3, <1>1 DEF SessionInv, MayIssue
    <2>2. CASE q = r
      <3>1. of[q] = t
        BY <2>2 DEF t
      <3>2. \A s \in DOMAIN tokens : s # t /\ tokens[s].login = login_of[r] => tokens[s].revoked
        BY <1>1, <1>2 DEF SessionInv, Users!SessionsAreSound, Users!OneValid, Users!Ids
      <3>3. \A s \in DOMAIN tokens : tokens[s].after # t
        BY <1>1, <1>2 DEF SessionInv, Users!SessionsAreSound, Users!OneTime, Users!Ids
      <3>4. /\ tokens'[t].revoked
            /\ \A s \in DOMAIN tokens : /\ tokens'[s].login = tokens[s].login /\ tokens'[s].after = tokens[s].after
                                        /\ tokens[s].revoked => tokens'[s].revoked
        BY <1>1, <1>2, RevokeFrame
      <3>5. \A s \in DOMAIN tokens : tokens'[s].login = login_of[r] => tokens'[s].revoked
        BY <3>2, <3>4
      <3>6. \A p \in Workers : session_pc'[p] = "issue" /\ login_of[p] = login_of[q] => p = q
        BY <2>1, <2>2
      <3> QED BY <2>2, <3>1, <3>3, <3>4, <3>5, <3>6
    <2>3. CASE q # r
      <3>1. session_pc[q] = "issue"
        BY <1>3, <2>3
      <3>2. /\ of[q] # 0 => of[q] \in DOMAIN tokens /\ tokens[of[q]].revoked
            /\ \A s \in DOMAIN tokens : tokens[s].login = login_of[q] => tokens[s].revoked
            /\ \A s \in DOMAIN tokens : tokens[s].after = of[q] => of[q] = 0
            /\ \A p \in Workers : session_pc[p] = "issue" /\ login_of[p] = login_of[q] => p = q
        BY <3>1 DEF SessionInv, MayIssue, Presents
      <3>3. \A s \in DOMAIN tokens : /\ tokens'[s].login = tokens[s].login /\ tokens'[s].after = tokens[s].after
                                     /\ tokens[s].revoked => tokens'[s].revoked
        BY <1>1, <1>2, RevokeFrame
      <3>4. \A p \in Workers : session_pc'[p] = "issue" /\ login_of[p] = login_of[q] => p = q
        BY <1>3, <2>1, <2>3, <3>2, session_pc'[q] = "issue"
      <3> QED BY <3>2, <3>3, <3>4
    <2> QED BY <2>2, <2>3
  <1>7. Counted'
    BY <1>1 DEF SessionInv, Counted
  <1> QED BY <1>1, <1>2, <1>4, <1>5, <1>6, <1>7, RevokedSound DEF SessionInv, Users!SessionsAreSound

\* The insertion of the new token: its login has no valid token, and none has come from the
\* token it comes from
LEMMA IssueStep ==
    ASSUME SessionInv, NEW r \in Workers, Users!issue(r)
    PROVE  SessionInv'
  <1> DEFINE new == [login |-> login_of[r], after |-> of[r], revoked |-> FALSE, expires_at |-> at[r] + Lifetime]
             n == Len(tokens)
  <1>1. session_pc[r] = "issue" /\ tokens' = Append(tokens, new) /\ held' \in {held, held \cup {Len(tokens')}}
    BY DEF Users!issue
  <1>2. Users!Done(r) /\ UNCHANGED <<clock, user, logins, checks>>
    BY DEF Users!issue
  <1>3. new \in Users!Token /\ new.login = login_of[r] /\ new.after = of[r] /\ ~new.revoked
    BY SessionFacts DEF Users!Token
  <1> HIDE DEF new
  <1>4. tokens \in Seq(Users!Token) /\ n \in Nat /\ DOMAIN tokens = 1..n
    BY SessionFacts DEF SessionInv, SessionTypes
  <1>5. tokens' \in Seq(Users!Token) /\ DOMAIN tokens' = 1..(n + 1) /\ Len(tokens') = n + 1 /\ tokens'[n + 1] = new
        /\ \A s \in 1..n : tokens'[s] = tokens[s]
    BY <1>1, <1>3, <1>4
  <1> HIDE DEF n
  <1>6. n + 1 # 0 /\ n + 1 \notin 1..n /\ \A s \in 1..(n + 1) : s \in 1..n \/ s = n + 1
    BY <1>4
  <1>7. SessionTypes'
    <2>1. held' \subseteq DOMAIN tokens'
      <3>1. held \subseteq 1..n
        BY <1>4 DEF SessionInv, SessionTypes
      <3> QED BY <1>1, <1>4, <1>5, <3>1
    <2>2. SessionTypes
      BY DEF SessionInv
    <2>3. /\ session_pc' \in [Workers -> {"idle", "login", "refresh", "issue"}] /\ at' \in [Workers -> Nat]
          /\ of' \in [Workers -> Nat] /\ login_of' \in [Workers -> Nat]
      BY <1>2, EndsIdle
    <2>4. UNCHANGED <<clock, user, logins, checks>>
      BY <1>2
    <2> QED BY <1>5, <2>1, <2>2, <2>3, <2>4 DEF SessionTypes
  <1>8. ASSUME NEW q \in Workers PROVE Presents(q)'
    <2>1. CASE q = r
      BY <2>1, <1>2, EndsIdle, SessionFacts DEF Presents
    <2>2. CASE q # r
      <3>1. session_pc'[q] = session_pc[q] /\ of'[q] = of[q] /\ login_of'[q] = login_of[q] /\ logins' = logins
        BY <1>2, <2>2, EndsIdle
      <3>2. of[q] # 0 => of[q] \in 1..n /\ of[q] \in 1..(n + 1)
        BY <1>4 DEF SessionInv, Presents
      <3> QED BY <1>4, <1>5, <3>1, <3>2 DEF SessionInv, Presents
    <2> QED BY <2>1, <2>2
  <1>9. /\ of[r] # 0 => of[r] \in 1..n /\ tokens[of[r]].revoked
        /\ \A s \in 1..n : tokens[s].login = login_of[r] => tokens[s].revoked
        /\ \A s \in 1..n : tokens[s].after = of[r] => of[r] = 0
        /\ \A q \in Workers : session_pc[q] = "issue" /\ login_of[q] = login_of[r] => q = r
        /\ login_of[r] <= logins
    BY <1>1, <1>4 DEF SessionInv, MayIssue, Presents
  <1>10. \A s \in 1..n : tokens[s].login <= logins /\ (tokens[s].after # 0 => tokens[s].after \in 1..n /\ tokens[tokens[s].after].revoked)
    BY <1>4 DEF SessionInv, Descends
  <1>11. Descends'
    <2> SUFFICES ASSUME NEW s \in 1..(n + 1)
                 PROVE  /\ tokens'[s].login <= logins
                        /\ tokens'[s].after # 0 => tokens'[s].after \in 1..(n + 1) /\ tokens'[tokens'[s].after].revoked
      BY <1>2, <1>5 DEF Descends
    <2>1. CASE s \in 1..n
      <3>1. tokens'[s] = tokens[s] /\ (tokens[s].after # 0 => tokens[s].after \in 1..n /\ tokens'[tokens[s].after] = tokens[tokens[s].after])
        BY <1>5, <1>10, <2>1
      <3> QED BY <1>4, <1>10, <2>1, <3>1
    <2>2. CASE s = n + 1
      <3>1. tokens'[s] = new /\ (of[r] # 0 => tokens'[of[r]] = tokens[of[r]])
        BY <1>5, <1>9, <2>2
      <3> QED BY <1>3, <1>4, <1>9, <3>1
    <2> QED BY <1>6, <2>1, <2>2
  <1>12. MayIssue'
    <2> SUFFICES ASSUME NEW q \in Workers, session_pc'[q] = "issue"
                 PROVE  /\ of'[q] # 0 => tokens'[of'[q]].revoked
                        /\ \A s \in 1..(n + 1) : tokens'[s].login = login_of'[q] => tokens'[s].revoked
                        /\ \A s \in 1..(n + 1) : tokens'[s].after = of'[q] => of'[q] = 0
                        /\ \A p \in Workers : session_pc'[p] = "issue" /\ login_of'[p] = login_of'[q] => p = q
      BY <1>5 DEF MayIssue
    <2>1. q # r /\ session_pc[q] = "issue" /\ of'[q] = of[q] /\ login_of'[q] = login_of[q]
      BY <1>2, EndsIdle
    <2>2. /\ of[q] # 0 => of[q] \in 1..n /\ tokens[of[q]].revoked
          /\ \A s \in 1..n : tokens[s].login = login_of[q] => tokens[s].revoked
          /\ \A s \in 1..n : tokens[s].after = of[q] => of[q] = 0
          /\ \A p \in Workers : session_pc[p] = "issue" /\ login_of[p] = login_of[q] => p = q
      BY <1>4, <2>1 DEF SessionInv, MayIssue, Presents
    <2>3. login_of[q] # login_of[r]
      BY <1>9, <2>1
    <2>4. of[r] = of[q] => of[q] = 0
      <3> SUFFICES ASSUME of[r] = of[q], of[q] # 0 PROVE FALSE
        OBVIOUS
      <3>1. login_of[r] = tokens[of[r]].login /\ login_of[q] = tokens[of[q]].login
        BY DEF SessionInv, Presents
      <3> QED BY <2>3, <3>1
    <2>5. \A p \in Workers : session_pc'[p] = "issue" /\ login_of'[p] = login_of'[q] => p = q
      BY <1>2, <2>1, <2>2, EndsIdle
    <2>6. \A s \in 1..(n + 1) : tokens'[s].login = login_of'[q] => tokens'[s].revoked
      BY <1>3, <1>5, <1>6, <2>1, <2>2, <2>3
    <2>7. \A s \in 1..(n + 1) : tokens'[s].after = of'[q] => of'[q] = 0
      BY <1>3, <1>5, <1>6, <2>1, <2>2, <2>4
    <2> QED BY <1>5, <2>1, <2>2, <2>5, <2>6, <2>7
  <1>13. Users!OneTime'
    <2>1. ASSUME NEW s \in 1..(n + 1), NEW t \in 1..(n + 1), tokens'[s].after = tokens'[t].after, tokens'[s].after # 0
          PROVE  s = t
      <3>1. \A u, v \in 1..n : tokens[u].after = tokens[v].after /\ tokens[u].after # 0 => u = v
        BY <1>4 DEF SessionInv, Users!SessionsAreSound, Users!OneTime, Users!Ids
      <3>2. \A u \in 1..n : tokens[u].after = of[r] => of[r] = 0
        BY <1>9
      <3> QED BY <1>3, <1>5, <1>6, <2>1, <3>1, <3>2
    <2>2. \A t \in 1..(n + 1) : tokens'[t].after # 0 => tokens'[tokens'[t].after].revoked
      BY <1>5, <1>11 DEF Descends
    <2> QED BY <1>5, <2>1, <2>2 DEF Users!OneTime, Users!Ids
  <1>14. Users!OneValid'
    <2>1. \A u, v \in 1..n : tokens[u].login = tokens[v].login /\ ~tokens[u].revoked /\ ~tokens[v].revoked => u = v
      BY <1>4 DEF SessionInv, Users!SessionsAreSound, Users!OneValid, Users!Ids
    <2>2. ASSUME NEW s \in 1..(n + 1), NEW t \in 1..(n + 1), tokens'[s].login = tokens'[t].login,
                 ~tokens'[s].revoked, ~tokens'[t].revoked
          PROVE  s = t
      BY <1>3, <1>5, <1>6, <1>9, <2>1, <2>2
    <2> QED BY <1>5, <2>2 DEF Users!OneValid, Users!Ids
  <1>15. Counted' /\ Users!LockoutHolds'
    BY <1>2 DEF SessionInv, Counted, Users!SessionsAreSound, Users!LockoutHolds
  <1> QED BY <1>7, <1>8, <1>11, <1>12, <1>13, <1>14, <1>15 DEF SessionInv, Users!SessionsAreSound

\* Of requests that present one refresh token one gets a successor, a login has one valid
\* token at most, and a lockout holds, whatever overlaps, dies or is not answered.
THEOREM SessionsKeepTheirRules == Users!Spec => []SessionsAreSound
  <1>1. Users!Init => SessionInv
    <2> SUFFICES ASSUME Users!Init PROVE SessionInv
      OBVIOUS
    <2> USE RecordsConstants DEF Users!Init, Users!SessionConstants
    <2>1. SessionTypes
      BY DEF SessionTypes
    <2>2. DOMAIN tokens = {} /\ DOMAIN checks = {}
      OBVIOUS
    <2>3. (\A r \in Workers : Presents(r)) /\ Descends /\ MayIssue
      BY <2>2 DEF Presents, Descends, MayIssue
    <2>4. Counted
      BY DEF Counted
    <2>5. Users!SessionsAreSound
      BY <2>2 DEF Users!SessionsAreSound, Users!OneTime, Users!OneValid, Users!LockoutHolds, Users!Ids
    <2> QED BY <2>1, <2>3, <2>4, <2>5 DEF SessionInv
  <1>2. SessionInv /\ [Users!Next]_(Users!vars) => SessionInv'
    BY RequestBegins, LoginStep, WrongPasswordStep, RefreshStep, RequestEnds, IssueStep, LogoutStep, AroundSessions
       DEF Users!Next
  <1>3. SessionInv => SessionsAreSound
    BY DEF SessionInv, SessionsAreSound
  <1> QED BY <1>1, <1>2, <1>3, PTL DEF Users!Spec
=============================================================================
