SPECIFICATION FairLockedSpec
CONSTANTS
    home = home
    depot = depot
    Users = {ada}
    Coordinates = {home, depot}
    POSITION_INTERVAL_SECONDS = 30
    STILL_THRESHOLD = 180
    MaxElapsed = 89
    ElapsedInputs <- MCElapsedInputs
    MaxTrips = 2
    MaxRestarts = 1
    RouteFiles <- MCTwoFiles
    NoFile = NoFile
    ChannelCap = 1
    Malformed = Malformed
    Nowhere = Nowhere
    MaxTexts = 1
PROPERTIES
    CompletionResolved
    Reconnects
