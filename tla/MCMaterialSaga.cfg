SPECIFICATION Spec
CONSTANTS
    MaxVersions = 2
    MaxAttempts = 2
    MaxFaults = 1
    DeleteOverlaps = FALSE
    SweepAttempts = 2
    MaxSweeps = 2
    SweepOverlaps = FALSE
INVARIANTS
    ServedIsSound
PROPERTIES
    
    KeepsServing
CHECK_DEADLOCK FALSE
