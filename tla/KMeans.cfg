CONSTANTS
    NumPoints = 3
    NumMappers = 2
    NumReducers = 2
    NumCentroids = 2
    NumIterations = 2
    EmptyClusters = FALSE
    MaxFailures = 2
    MaxErrors = 1
SPECIFICATION Spec
INVARIANTS
    TypeOK
    NoTruncationRace
    EveryPointOnce
    CentroidsExact
    OutputComplete
    EveryPointSomewhere
PROPERTIES
    MapPhaseEnds
    Terminates
