SPECIFICATION Spec
CONSTANTS
    r1 = r1
    r2 = r2
    c1 = c1
    c2 = c2
    a1 = a1
    a2 = a2
    PartyLimit <- MCPartyLimit
    Parties <- MCParties
    Dates <- MCDates
    Requests = {r1, r2}
    Copies = {c1, c2}
    Attendees = {a1, a2}
    MaxRequests = 4
SYMMETRY Symmetric
INVARIANTS
    TypeOK
    DoubleLoansOverlap
    LimitBreaksOverlap
    EntriesFollowReturn
PROPERTIES
    ImplementsLedger
    ReportsFollowTheDesk
