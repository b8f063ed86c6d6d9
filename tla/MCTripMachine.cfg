SPECIFICATION Spec
CONSTANTS
    Coordinates = {home, depot}
    POSITION_INTERVAL_SECONDS = 30
    STILL_THRESHOLD = 180
    MaxElapsed = 269
    ElapsedInputs <- MCElapsedInputs
SYMMETRY CoordinateSymmetry
INVARIANTS
    TypeOK
    LogicalTimes
    TimeAccounting
    PendingBelowThreshold
    TimesMatchReference
    ClosedTripIsComplete
PROPERTIES
    RejectedOrAppended
