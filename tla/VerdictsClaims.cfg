\* What documents, comments and tests claim and the code does not keep.  TLC stops at the
\* first violation: leave one property at a time to see each.
SPECIFICATION AllSpec
CONSTANTS
    Acting = {"monitoring", "derivation"}
    Workers = {"w1", "w2"}
    Candidates = {"c1", "c2"}
    Ranked <- MCRanked
    Requests <- AllRequests
    MaxCalls = 3
    Collections <- MCCollections
    FewCollections <- MCFewCollections
    BaselineRequired = 2
    MonitoringMaximum = 3
    Sustained = 2
    Fields <- MCFields
    Namespaces <- MCNamespaces
    Workloads <- MCWorkloads
    FewWorkloads <- MCFewWorkloads
    Catalogs <- MCCatalogs
CHECK_DEADLOCK FALSE
INVARIANTS OutcomeOnceAlways IndexHasSort KeysDistinct
