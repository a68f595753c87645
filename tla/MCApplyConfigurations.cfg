\* Three calls about two fields: make a map, hand the struct over, put more.
SPECIFICATION Spec
CONSTANTS
    Kinds     = {"DataSpec", "DataTypeSpec", "DataTypesSpec", "EventTypeSpec",
                 "ExternalDocumentation", "HeaderSpec", "JSON", "JSONSchemaProp",
                 "JSONSchemaProps", "Kamelet", "KameletCondition", "KameletProperty",
                 "KameletSpec", "KameletSpecBase", "KameletStatus", "SourceSpec",
                 "Template"}
    Keys      = {k1, k2}
    MaxCalls  = 3
    MaxFields = 2
INVARIANTS
    TypeOK
    SettersAccumulate
PROPERTIES
    SnapshotsStaySnapshots
CHECK_DEADLOCK FALSE
