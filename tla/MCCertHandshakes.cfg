SPECIFICATION SafeSpec
CONSTANTS
    Names <- MCNames
    Hosts <- MCHosts
    Lower <- MCLower
    RouterConfigs <- MCSmallConfigs
    Outcomes = {"info"}
    Limit = 1
    Workers = 2
    MaxCycles = 2
INVARIANT
    HandshakesBounded
