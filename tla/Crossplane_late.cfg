SPECIFICATION XSpec
CONSTANTS
    Nodes <- MCLateNodes
    Kind <- MCLateKind
    Deps <- MCLateDeps
    IncludeWhen <- MCLateIncludeWhen
    ReadyWhen <- MCLateReadyWhen
    Refs <- MCLateRefs
    Order <- MCLateOrder
    Schema <- MCSchema
    Names <- MCNames
    Items <- MCItems
    ItemName <- MCItemName
    States <- MCStates
    Specs <- MCSpecs
    Feasible <- MCSpecs
    StatusVars <- MCStatusVars
    StatusDeps <- MCStatusDeps
    EvalBool <- MCEvalBool
    EvalTemplate <- MCEvalTemplate
    EvalIdentity <- MCEvalIdentity
    EvalForEach <- MCEvalForEach
    EvalStatus <- MCEvalStatus
    ExternalPool <- MCExternalPool
    NoName = "none"
    MaxCollectionSize = 2
    SchemaReq = "schemas"
    Foreign = {}
    Prior = {}
    InitRequests = {}
    MaxRounds = 5
    MaxChanges = 0
    MaxFaults = 0
PROPERTIES
    EveryReferenceIsResolved
