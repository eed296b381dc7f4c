CONSTANTS
    Node = {n1, n2, n3}
    Value = {}
    None = None
    Workers = 2
    Timing = "any"
    MaxTerm = 1
    MaxLog = 1
    MaxCalls = 1
    MaxOrphans = 1
    MaxFailures = 1
    MaxCrashes = 1
SPECIFICATION Spec
VIEW WithoutLate
SYMMETRY Symmetry
CHECK_DEADLOCK FALSE
INVARIANTS
    OneVotePerTerm
    OneElectorate
    NeverStranded
PROPERTIES
    TermsNeverFall
