SPECIFICATION FairSpec
CONSTANTS
    adult = adult
    patron = patron
    Numbers = {1, 2, 3}
    BadgeTypes = {adult, patron}
    FirstRoll <- MCFirstRoll
    FirstTypes = {adult}
    PageSize = 1
    MaxVersion = 2
    MaxChanges = 2
    MaxImports = 2
INVARIANTS
    TypeOK
    ImportsDoNotOverlap
    SyncIsComplete
PROPERTIES
    NeverOlder
    FlagClears
