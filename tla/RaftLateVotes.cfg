CONSTANTS
    Node = {n1, n2, n3}
    Value = {}
    None = None
    Workers = 2
    Timing = "rpc"
    MaxTerm = 2
    MaxLog = 0
    MaxCalls = 1
    MaxOrphans = 1
    MaxFailures = 0
    MaxCrashes = 0
SPECIFICATION Spec
VIEW WithoutLate
SYMMETRY Symmetry
CHECK_DEADLOCK FALSE
INVARIANT LeaderIsElected
