-------------------------- MODULE CandidateDerivation --------------------------
(***************************************************************************)
(* From the queries of a workload to the index candidates of a run.        *)
(*                                                                         *)
(*   query_shapes/registry.py      canonicalize, register                  *)
(*   candidates/durable.py         CandidateGenerationService              *)
(*   candidates/index_generator.py DeterministicIndexGenerator             *)
(*                                                                         *)
(* A query is observed and persisted as a shape without literals.  A run   *)
(* reads the shapes of its snapshot and its diagnosis, then the indexes of *)
(* the target, and derives one index per shape.  Field names are numbers   *)
(* in their alphabetical order; the name of an index stands for its        *)
(* fingerprint.  How a derivation is persisted is RunLifecycle's.          *)
(***************************************************************************)
EXTENDS Integers, Sequences, FiniteSets

CONSTANTS
    Fields, Namespaces,
    Workloads,    \* the sets of queries a snapshot may hold
    Catalogs      \* the index keys a namespace may have

FilterClass == {"none", "equality", "range"}

\* A query with the row its snapshot keeps of it.  A sort is a document: fields with
\* their directions, in order.
Query == [id : Nat, namespace : Namespaces, find : BOOLEAN, protected : BOOLEAN,
          filter : [Fields -> FilterClass], sort : Seq(Fields \X {1, -1})]

FieldsOf(items) == {items[i][1] : i \in DOMAIN items}

\* query_shapes(namespace_id, shape_hash): the hash of a query has its operation, what it
\* filters by and which fields it sorts by.
SameShape(p, q) ==
    p.namespace = q.namespace /\ p.find = q.find /\ p.filter = q.filter /\ FieldsOf(p.sort) = FieldsOf(q.sort)

\* What the constants have to be
DerivationConstants ==
    /\ Fields \subseteq Nat /\ IsFiniteSet(Fields)
    /\ \A w \in Workloads :
        w \subseteq Query /\ \A p, q \in w : p.id = q.id \/ SameShape(p, q) => p = q

VARIABLES
    queries,      \* the queries observed, which the snapshot protects or not
    findings,     \* ids of the shapes that the diagnosis refers to
    allowlisted,  \* namespaces.allowlisted
    accessible,   \* the namespaces that the adapter lists
    catalog,      \* the keys of the target's indexes, by namespace
    pc,
    inputs,       \* the shapes that _load_inputs returned
    metadata,     \* the keys that _index_metadata returned, by namespace
    definitions   \* the candidates

vars == <<queries, findings, allowlisted, accessible, catalog, pc, inputs, metadata, definitions>>

Init ==
    /\ queries \in Workloads
    /\ findings \in SUBSET {q.id : q \in queries}
    /\ allowlisted \in SUBSET Namespaces /\ accessible \in SUBSET Namespaces
    /\ catalog \in [Namespaces -> Catalogs]
    /\ pc = "load"
    /\ inputs = {} /\ metadata = <<>> /\ definitions = {}

-----------------------------------------------------------------------------
(* What becomes of a query, and of a shape *)

\* What becomes of a literal, also of a direction: "<integer>"
Token == 0

\* canonicalize: documents come out with their keys sorted, and every other value as a
\* token of its type.  Of a filter's operators the keys stay, of a sort the fields: it is
\* left without an order of its own.
canonicalize(q) == [q EXCEPT !.sort = FieldsOf(q.sort) \X {Token}]

\* _find_fields: "direction in (-1, 1)"
find_fields(shape) ==
    [equality |-> {f \in Fields : shape.filter[f] = "equality"},
     sort |-> {item \in shape.sort : item[2] \in {-1, 1}},
     range |-> {f \in Fields : shape.filter[f] = "range"}]

\* sorted() of fields with their directions, each field once: the place of a field is the
\* number of fields up to it.
Sorted(items) ==
    [i \in 1..Cardinality(items) |->
        CHOOSE item \in items : Cardinality({other \in items : other[1] <= item[1]}) = i]

\* DeterministicIndexGenerator.generate: equality, sort, range, of one to five fields; a
\* field that was seen in one group is left out of the next.
generate(fields) ==
    LET sort == {item \in fields.sort : item[1] \notin fields.equality}
        range == fields.range \ (fields.equality \cup {item[1] : item \in sort})
        keys == Sorted(fields.equality \X {1}) \o Sorted(sort) \o Sorted(range \X {1})
    IN  IF Len(keys) \in 1..5 THEN {keys} ELSE {}

\* _fingerprint: the shape's hash, which is a hash of its canonical content, its namespace
\* and the keys
fingerprint(shape, keys) ==
    <<shape.namespace, shape.find, shape.filter, shape.sort, keys>>

-----------------------------------------------------------------------------
(* create_for_run *)

\* only the diagnosis decides
Referenced_Findings(q) == q.id \in findings

\* What _load_inputs takes: what the advisory findings name, and every find whose share of
\* the execution time is protected
Referenced(q) == q.id \in findings \/ (q.find /\ q.protected)

load_inputs ==
    /\ pc = "load"
    /\ inputs' = {canonicalize(q) : q \in {p \in queries : Referenced(p)}}
    /\ pc' = "metadata"
    /\ UNCHANGED <<queries, findings, allowlisted, accessible, catalog, metadata, definitions>>

\* _index_metadata: the namespaces that may be touched
index_metadata ==
    /\ pc = "metadata"
    /\ metadata' = [n \in {s.namespace : s \in inputs} \cap allowlisted \cap accessible |-> catalog[n]]
    /\ pc' = "define"
    /\ UNCHANGED <<queries, findings, allowlisted, accessible, catalog, inputs, definitions>>

Definition(shape, keys) ==
    [shape |-> shape.id, namespace |-> shape.namespace, keys |-> keys, fingerprint |-> fingerprint(shape, keys)]

\* What is derived from a shape that the target does not have
Lacking(shape) == {keys \in generate(find_fields(shape)) : keys \notin metadata[shape.namespace]}

\* _definitions: shape by shape in the order of their ids; what the target has and what
\* was derived before is skipped.
define ==
    /\ pc = "define"
    /\ LET shapes == {s \in inputs : s.namespace \in DOMAIN metadata}
           Seen(shape, keys) ==
               \E s \in shapes : /\ s.id < shape.id
                                 /\ \E k \in Lacking(s) : fingerprint(s, k) = fingerprint(shape, keys)
       IN  definitions' = UNION {{Definition(s, keys) : keys \in {k \in Lacking(s) : ~Seen(s, k)}} : s \in shapes}
    /\ pc' = "done"
    /\ UNCHANGED <<queries, findings, allowlisted, accessible, catalog, inputs, metadata>>

Next == load_inputs \/ index_metadata \/ define

Spec == Init /\ [][Next]_vars

-----------------------------------------------------------------------------
(* Properties *)

TypeOK ==
    /\ \A q \in queries : q \in Query
    /\ allowlisted \subseteq Namespaces /\ accessible \subseteq Namespaces
    /\ pc \in {"load", "metadata", "define", "done"}
    /\ \A d \in definitions : d.namespace \in Namespaces

Filtered(q, class) == {f \in Fields : q.filter[f] = class}
Named(q) == Fields \ Filtered(q, "none")
QueryOf(d) == CHOOSE q \in queries : q.id = d.shape

\* generate, "equality -> sort -> range": an index starts with the fields that its query
\* compares for equality and has all it filters by, each once, and none that it does not use.
FollowsQuery(d) ==
    LET q == QueryOf(d)
        n == Cardinality(Filtered(q, "equality"))
    IN  /\ Len(d.keys) <= 5 /\ Cardinality(FieldsOf(d.keys)) = Len(d.keys)
        /\ Named(q) \subseteq FieldsOf(d.keys) /\ FieldsOf(d.keys) \subseteq Named(q) \cup FieldsOf(q.sort)
        /\ FieldsOf(SubSeq(d.keys, 1, n)) = Filtered(q, "equality")

\* create_for_run: nothing is proposed for a namespace that may not be touched, nor what
\* the target had when it was read.
StaysInside(d) ==
    d.namespace \in allowlisted \cap accessible /\ d.keys \notin catalog[d.namespace]

\* _load_inputs: the advisory model "must not become a hidden veto over deterministic
\* candidate generation".  A protected find that filters gets an index unless there is one.
NoHiddenVeto ==
    pc = "done" =>
        \A q \in queries :
            /\ q.find /\ q.protected /\ q.namespace \in allowlisted \cap accessible
            /\ Named(q) # {} /\ Cardinality(Named(q) \cup FieldsOf(q.sort)) <= 5
            => \/ \E d \in definitions : d.shape = q.id
               \/ \E keys \in catalog[q.namespace] : Named(q) \subseteq FieldsOf(keys)

\* create_for_run as a whole: the candidates of a run are indexes for its queries, within
\* its bounds, and none is missing because a model did not think of it.
DerivationIsSound ==
    /\ \A d \in definitions : FollowsQuery(d) /\ StaysInside(d)
    /\ \A d, e \in definitions : d.fingerprint = e.fingerprint => d = e
    /\ NoHiddenVeto

-----------------------------------------------------------------------------
(* What the documentation claims and the code does not keep *)

\* README: "applying the classic Equality -> Sort -> Range pattern to a query shape's fields".
IndexHasSort == \A d \in definitions : FieldsOf(QueryOf(d).sort) \subseteq FieldsOf(d.keys)

\* docs/PHASE_STATUS.md: "Candidates are de-duplicated".
KeysDistinct == \A d, e \in definitions : d.namespace = e.namespace /\ d.keys = e.keys => d = e
=============================================================================
