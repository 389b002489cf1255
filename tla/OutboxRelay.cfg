CONSTANTS
    Events = {1, 2, 3}
    Relays = {w1, w2}
    Limit = 2
    MaxFaults = 2
    MaxAge = 2
SPECIFICATION FairSpec
INVARIANTS
    TypeOK
    DuplicatesNeedFaults
    ClaimsAreExclusive
PROPERTIES
    ImplementsDelivery
    EventuallyPublished
