SPECIFICATION Spec
CONSTANTS
    Clients = {one, two}
    Usernames = {ada, bob}
    Passwords = {secret, guess}
    None = None
    MaxTokens = 2
    MaxLate = 1
    MaxRestarts = 1
SYMMETRY Symmetry
INVARIANTS
    TypeOK
    AuthenticatedOwnsAccount
    SessionOfOwner
    RefusedIsTaken
