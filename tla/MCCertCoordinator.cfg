SPECIFICATION Spec
CONSTANTS
    Names <- MCNames
    Hosts <- MCHosts
    Lower <- MCLower
    RouterConfigs <- MCConfigs
    Outcomes = {"info"}
    Limit = 2
    Workers = 2
    MaxCycles = 2
INVARIANTS
    TypeOK
    SlotsConserved
    NoLostWakeup
    AwaitedBounded
    NoAbandonedJob
    NoLateAnswer
PROPERTIES
    CycleEnds
    CacheSpec
