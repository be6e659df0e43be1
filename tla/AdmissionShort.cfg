SPECIFICATION AllSpec
CONSTANTS
    Acting = {"requests"}
    Workers = {"w1", "w2"}
    Candidates = {"c1", "c2"}
    Ranked <- MCRanked
    Requests <- AllRequests
    MaxCalls = 3
    Collections <- MCCollections
    FewCollections <- MCFewCollections
    BaselineRequired = 2
    MonitoringMaximum = 3
    Sustained = 2
    Fields <- MCFields
    Namespaces <- MCNamespaces
    Workloads <- MCWorkloads
    FewWorkloads <- MCFewWorkloads
    Catalogs <- MCCatalogs
INVARIANTS AdmittedHasRequiredPairs
CHECK_DEADLOCK FALSE
