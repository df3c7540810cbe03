SPECIFICATION Spec
CONSTANTS
    PerDay = 8
    Interval = 2
    Threshold = 1
    Lifetime = 20
    MaxTime = 22
PROPERTY
    ExpiredSurfaces
