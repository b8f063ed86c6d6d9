SPECIFICATION Spec
CONSTANTS
    ada = ada
    bob = bob
    first = first
    second = second
    other = other
    NoUser = NoUser
    Users = {ada}
    Connections = {first}
    UserOf <- MCUserOf
    QueueCap = 1
    FeedCap = 2
    SocketCap = 1
    IncomingCap = 1
    MaxMessages = 2
    MaxFailures = 0
    MaxRestarts = 0
PROPERTIES
    BroadcastToConnected
