SPECIFICATION Spec
CONSTANTS
    r1 = r1
    r2 = r2
    ann = ann
    bob = bob
    cat = cat
    NoOne = NoOne
    People = {ann, bob, cat}
    Requests = {r1, r2}
    Routes <- MCRoutes
    Starts <- MCStarts
    Items <- MCItems
    Attachments <- MCAttachments
    MaxRequests = 2
    MaxRows = 6
CHECK_DEADLOCK FALSE
SYMMETRY Symmetric
INVARIANTS
    TypeOK
    ActsWithinRoles
    RefusedOnlyWithoutRole
    OnlyFounders
    BootstrapMissedOnlyByFailure
PROPERTIES
    SelfProtected
