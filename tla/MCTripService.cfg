SPECIFICATION FairSpec
CONSTANTS
    Users = {ada, bob}
    Coordinates = {home, depot}
    POSITION_INTERVAL_SECONDS = 30
    STILL_THRESHOLD = 30
    MaxElapsed = 59
    ElapsedInputs <- MCElapsedInputs
    MaxTrips = 2
    MaxRestarts = 1
INVARIANTS
    TypeOK
    TripEndsWithSession
    NeverReopened
    SavedTripsAreWhole
    SavedAsAccepted
    SavedOnce
    AnnouncedAsSaved
PROPERTIES
    ImplementsTripBook
    CompletionAnswered
