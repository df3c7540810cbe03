SPECIFICATION Spec
CONSTANTS
    Hosts <- MCHosts
    Days <- MCDays
    Thresholds <- MCThresholds
    MaxCycles = 3
INVARIANTS
    TypeOK
    EntitiesMatchCache
    NoStaleAlarm
PROPERTIES
    RegistrySurvivesErrors
    ViewsCatchUp
