SPECIFICATION Spec
CONSTANTS
    g = g
    h = h
    u = u
    i = i
    j = j
    k = k
    w1 = w1
    w2 = w2
    None = None
    Games = {g, h}
    BggIds = {i, j, k}
    FirstId <- MCFirstId
    YearPublished <- MCYearPublished
    Dumps <- MCDumps
    HandIds = {None, k}
    ByName <- MCByName
    EditionOf <- MCEditionOf
    Workers = {w1, w2}
    BatchSize = 2
    Faults = FALSE
    MaxRuns = 1
    MaxEdits = 1
INVARIANTS
    ErrorsAreLogged
