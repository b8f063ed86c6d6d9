SPECIFICATION Spec
CONSTANTS
    Usernames = {ada, bob}
    NoName = NoName
    Days <- MCDays
    Monday <- MCMonday
    FirstOfMonth <- MCFirstOfMonth
    Distances = {2}
    Seconds = {30}
    LogLimit = 1
    PanelLimit = 1
    MaxTrips = 2
    MaxMessages = 1
SYMMETRY Symmetry
INVARIANTS
    TypeOK
    DialogueComplete
    
