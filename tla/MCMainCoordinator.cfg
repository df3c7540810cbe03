SPECIFICATION Spec
CONSTANTS
    N = 2
    DownReplies <- MCDownReplies
    MaxVersion = 1
INVARIANTS
    TypeOK
    PollingAlive
PROPERTIES
    AllOrNothing
    AuthWins
    Converges
