SPECIFICATION SpecAll
CONSTANTS
    N = 1
    DownReplies <- MCDownReplies
    RouterNames <- MCRouterNames
    MaxVersion = 1
    Delays <- MCDelays
INVARIANTS
    ServiceTypeOK
    AtMostFiveAttempts
    GivesUpOnlyLate
    OverrunBounded
    ChangeIsReal
PROPERTY
    ServiceEnds
