SPECIFICATION Spec
CONSTANTS
    Nodes <- MCNodes
    Schema <- MCSchema
    Kind <- MCKind
    Deps <- MCDeps
    IncludeWhen <- MCIncludeWhen
    ReadyWhen <- MCReadyWhen
    Refs <- MCRefs
    Names <- MCNames
    NoName <- MCNoName
    Items <- MCItems
    ItemName <- MCItemName
    States <- MCStates
    Specs <- MCSpecs
    StatusVars <- MCStatusVars
    StatusDeps <- MCStatusDeps
    MaxCollectionSize <- MCMaxCollectionSize
    EvalBool <- MCEvalBool
    EvalTemplate <- MCEvalTemplate
    EvalIdentity <- MCEvalIdentity
    EvalForEach <- MCEvalForEach
    EvalStatus <- MCEvalStatus
    Order <- MCOrder
    SchemaReq = "schemas"
    Foreign <- MCForeign
    Prior <- MCPrior
    InitRequests <- MCInitRequests
INVARIANTS
    ReadyOnlyIfObserved
CHECK_DEADLOCK FALSE
