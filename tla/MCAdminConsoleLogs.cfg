SPECIFICATION Spec
CONSTANTS
    Usernames = {ada}
    NoName = NoName
    Days <- MCDays
    Monday <- MCMonday
    FirstOfMonth <- MCFirstOfMonth
    Distances = {0, 2}
    Seconds = {30}
    LogLimit = 1
    PanelLimit = 1
    MaxTrips = 2
    MaxMessages = 2
PROPERTIES
    LatestLogs
