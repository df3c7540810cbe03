SPECIFICATION SafeSpecAll
CONSTANTS
    N = 1
    DownReplies <- MCDownReplies
    RouterNames <- MCRouterNames
    MaxVersion = 1
    Delays <- MCNoDelay
PROPERTY
    RefreshedBeforeCheck
