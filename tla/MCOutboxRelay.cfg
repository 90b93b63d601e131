SPECIFICATION RelayLiveSpec
CHECK_DEADLOCK FALSE
CONSTANTS
    Events = {e1, e2}
    Relays = {r1, r2}
    Null = Null
    BatchSize = 2
    MaxAttempts = 2
    MaxAborts = 1
INVARIANTS
    ClaimsAreExclusive
    DeliveryIsTrue
PROPERTY EventsSettle
