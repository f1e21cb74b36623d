SPECIFICATION CachedSpec
CONSTANTS
    Callers <- MCCallers
    GVKs <- MCGVKs
    Asks <- MCAsks
    MaxSize = 1
    TTL = 1
    MaxRevision <- MCMaxRevision
INVARIANTS
    TypeOK
    NoRedundantFetch
    NeverOlderThanStored
    FailsOnlyIfFetchFailed
PROPERTIES
    EveryCallReturns
    EventuallyCurrent
