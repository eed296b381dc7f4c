CONSTANTS
    Node = {n1, n2, n3}
    None = None
    HEARTBEAT_INTERVAL = 1
    ELECTION_TIMEOUT_MIN = 2
    ELECTION_TIMEOUT_MAX = 4
    LEASE_DURATION = 4
    CALL_TIMEOUT = 0
    Partitions <- Isolations
    MaxTerm = 2
    MaxCuts = 1
SPECIFICATION Spec
SYMMETRY Symmetry
CHECK_DEADLOCK FALSE
INVARIANTS
    WaitsOutLongest
