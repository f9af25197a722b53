SPECIFICATION FairSpec
CONSTANTS
    r1 = r1
    r2 = r2
    catan = catan
    i = i
    j = j
    None = None
    Requests = {r1, r2}
    Games = {catan}
    BggIds = {i, j}
    FirstId <- MCFirstId
    Editions = {i}
    MaxRetries = 1
    MaxRequests = 2
    MaxEdits = 1
CHECK_DEADLOCK FALSE
INVARIANTS
    TypeOK
    SlowAfterLimit
PROPERTIES
    SyncKeepsId
    NewCoverOfItem
    RequestsSettle
