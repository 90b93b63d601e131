SPECIFICATION LiveSpec
CONSTANTS
    ChangeSets = {c1}
    ApprovalIds = {a1}
    Digests = {d1}
    Users = {u1}
    Null = Null
    MaxTxns = 1
    Callers = {p1, p2}
    MaxAttempts = 2
    MaxCrashes = 1
    MaxVersion = 9
INVARIANTS
    ConsumedIffJob
    AtMostOnceAndApproved
    AttemptsWithinBudget
PROPERTIES
    ImplementsGovernedAction
    InterruptedSettles
