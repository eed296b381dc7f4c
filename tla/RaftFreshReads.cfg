CONSTANTS
    Node = {n1, n2, n3}
    Value = {v1}
    None = None
    Workers = 2
    Timing = "serial"
    MaxTerm = 2
    MaxLog = 2
    MaxCalls = 1
    MaxOrphans = 1
    MaxFailures = 0
    MaxCrashes = 0
SPECIFICATION Spec
VIEW WithoutLate
SYMMETRY Symmetry
CHECK_DEADLOCK FALSE
INVARIANT FreshReads
