SPECIFICATION FairSpec
CONSTANTS
    g = g
    h = h
    u = u
    i = i
    j = j
    k = k
    w1 = w1
    w2 = w2
    None = None
    Games = {g, h}
    BggIds = {i, j, k}
    FirstId <- MCFirstId
    YearPublished <- MCYearPublished
    Dumps <- MCDumps
    HandIds = {None}
    ByName <- MCByName
    EditionOf <- MCEditionOf
    Workers = {w1, w2}
    BatchSize = 2
    Faults = TRUE
    MaxRuns = 2
    MaxEdits = 1
PROPERTIES
    RunsEnd
