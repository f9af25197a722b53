SPECIFICATION Spec
CONSTANTS
    r1 = r1
    r2 = r2
    l1 = l1
    l2 = l2
    BadLabel = BadLabel
    None = None
    Requests = {r1, r2}
    Orgs = {1, 2}
    Cons = {1, 2}
    Labels = {l1, l2}
    FirstOrgs <- MCFirstOrgs
    FirstCopies <- MCFirstCopies
    FirstJoins <- MCFirstJoins
    FirstArchived = {4}
    MaxRequests = 2
    MaxCols = 5
    MaxCopies = 3
SYMMETRY Symmetric
INVARIANTS
    TypeOK
    CopyInOneOrganization
    HistoryIsKept

    
