SPECIFICATION Spec
CONSTANTS
    r1 = r1
    r2 = r2
    a = a
    b = b
    x = x
    y = y
    ann = ann
    bob = bob
    cat = cat
    Blank = Blank
    NoOne = NoOne
    People = {ann, bob, cat}
    Badges = {a, b, x, y}
    FirstHolder <- MCFirstHolder
    Winners <- MCWinners
    Synced = {a, x}
    Requests = {r1, r2}
    MaxRequests = 3
    MaxRecords = 3
SYMMETRY SymmetricRequests
INVARIANTS
    TypeOK
    HeldOnce
    AccountOfHolder
PROPERTIES
    LostForGood
    ImplementsBook
