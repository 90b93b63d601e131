SPECIFICATION JobLiveSpec
CONSTANTS
    w1 = w1
    w2 = w2
    w3 = w3
    Null = Null
    Jobs = {j1}
    Workers = {w1, w2}
    Local = {w1}
    IdOf <- OwnIds
    MaxAttempts = 2
    MaxCrashes = 2
    MaxCancels = 1
INVARIANTS
    OutboxTellsTheTruth
PROPERTIES
    
    ImplementsJobLife
    
