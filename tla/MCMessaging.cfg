SPECIFICATION Spec
CONSTANTS
    ada = ada
    bob = bob
    first = first
    second = second
    other = other
    NoUser = NoUser
    Users = {ada}
    Connections = {first, second}
    UserOf <- MCUserOf
    QueueCap = 1
    FeedCap = 1
    SocketCap = 1
    IncomingCap = 1
    MaxMessages = 2
    MaxFailures = 1
    MaxRestarts = 1
INVARIANTS
    TypeOK
    RegistryMatchesSessions
    NoMissedDirect
PROPERTIES
    ImplementsMailbox
    ShownInOrder
