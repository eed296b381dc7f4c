CONSTANTS
    Node = {n1, n2, n3}
    Value = {v1}
    None = None
    Workers = 2
    Timing = "calm"
    MaxTerm = 2
    MaxLog = 2
    MaxCalls = 1
    MaxOrphans = 1
    MaxFailures = 0
    MaxCrashes = 1
SPECIFICATION Spec
CONSTRAINTS
    FewCalls
    AfterCrash
    Timely
VIEW WithoutGrants
SYMMETRY Symmetry
CHECK_DEADLOCK FALSE
INVARIANTS
    TypeOK
    ElectionSafety
    LogMatching
    StateMachineSafety
    StoreIsAppliedPrefix
    AckedDurable
PROPERTIES
    ImplementsReplicatedLog
