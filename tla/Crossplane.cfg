SPECIFICATION XSpec
CONSTANTS
    Nodes <- MCNodes
    Kind <- MCKind
    Deps <- MCDeps
    IncludeWhen <- MCIncludeWhen
    ReadyWhen <- MCReadyWhen
    Refs <- MCRefs
    Order <- MCOrder
    Schema <- MCSchema
    Names <- MCNames
    Items <- MCItems
    ItemName <- MCItemName
    States <- MCStates
    Specs <- MCFaultySpecs
    Feasible <- MCSpecs
    StatusVars <- MCStatusVars
    StatusDeps <- MCStatusDeps
    EvalBool <- MCEvalBool
    EvalTemplate <- MCEvalTemplate
    EvalIdentity <- MCEvalIdentity
    EvalForEach <- MCEvalForEach
    EvalStatus <- MCEvalStatus
    ExternalPool <- MCExternalPool
    NoName = "none"
    MaxCollectionSize = 2
    SchemaReq = "schemas"
    Foreign = {}
    Prior = {}
    InitRequests = {}
    MaxRounds = 5
    MaxChanges = 1
    MaxFaults = 1
INVARIANTS
    XTypeOK
    NeverAbandoned
    WaitingIsNeverApplied
PROPERTIES
    CreatedInOrder
    CreatedOnReadySnapshot
    NothingIsDeleted
    RequirementsGrow
    Converges
