\* Three rows scanned two at a time, one tenant beside the legacy one, one
\* business code, any number of deaths of the backfill and one downgrade.
CONSTANTS
    RowIds = {1, 2, 3}
    Tenants = {t1}
    Codes = {k1}
    BatchSize = 2
    MaxDowngrades = 1
    Null = Null
SPECIFICATION MigrationLiveSpec
INVARIANTS  ServiceIsConfined
PROPERTY BackfillEnds
CHECK_DEADLOCK FALSE
