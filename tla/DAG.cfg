SPECIFICATION Spec
CONSTANTS
    Ids <- MCIds
    OrderChoices <- MCOrders
    Requests <- MCRequests
INVARIANTS
    TypeOK
    StaysAcyclic
    RespectsDependencies
    SortsExactlyTheAcyclic
    ReturnsLeastOrder
CHECK_DEADLOCK FALSE
