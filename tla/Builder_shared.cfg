SPECIFICATION Spec
CONSTANTS
    Definitions <- SharedConditions
    Schema = "schema"
    Each = "each"
    CRDKind = "CRD"
    CoreKinds = {"CRD", "Pod"}
    ReservedWords = {"schema", "each", "item"}
    LowerCamelCase = {"a", "b", "c", "i", "j", "k", "u", "x", "schema", "each", "item"}
    MaxCollectionDimensionSize = 2
    Plain = Plain
    NotStandalone = NotStandalone
    Inspect <- MCInspect
    Names <- MCNames
    Check <- MCCheck
    FieldType <- MCFieldType
    Fits <- MCFits
    Functions <- MCFunctions
    Internal <- MCInternal
INVARIANT
    IncludeWhenWaits
CHECK_DEADLOCK FALSE
