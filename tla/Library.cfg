SPECIFICATION FairSpec

CONSTANTS
    Limit = 2
    MaxOffset = 5
    MaxLibrary = 7

INVARIANTS
    TypeOK
    OneOwn

PROPERTIES
    WalkEnds
