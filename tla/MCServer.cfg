SPECIFICATION FairServerSpec
CONSTANTS
    ada = ada
    first = first
    second = second
    NoUser = NoUser
    Users = {ada}
    Connections = {first, second}
    UserOf <- MCUserOf
    QueueCap = 1
    FeedCap = 1
    SocketCap = 1
    IncomingCap = 2
    MaxMessages = 1
    MaxFailures = 0
    MaxRestarts = 1
    Coordinates = {home}
    POSITION_INTERVAL_SECONDS = 30
    STILL_THRESHOLD = 180
    MaxElapsed = 29
    ElapsedInputs = {}
    MaxTrips = 1
INVARIANTS
    SessionsAgree
PROPERTIES
    DirectEventuallyRead
