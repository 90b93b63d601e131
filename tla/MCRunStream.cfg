SPECIFICATION StreamSpec
CONSTANTS
    Tenant = "acme"
    Corpus <- MCCorpus
    MaxFound = 3
    Nobody = Nobody
    Durable = Durable
    Owners = {w1, w2}
    Local = {w1}
    MaxTries = 2
    MaxEvents = 2
    MaxConnects = 2
INVARIANTS NoSilentGap TerminalEventIsTrue SnapshotIsWhole
 
CHECK_DEADLOCK FALSE
