CONSTANTS
    NumPoints = 2
    NumMappers = 2
    NumReducers = 2
    NumCentroids = 2
    NumIterations = 1
    EmptyClusters = TRUE
    MaxFailures = 0
    MaxErrors = 0
SPECIFICATION Spec
PROPERTY
    Terminates
