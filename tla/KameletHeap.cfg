\* Every type with a DeepCopy is the root once: three cells below each other
\* reach past every DeepCopyInto into the one it calls; two versions and three
\* objects make aliases of every kind.
SPECIFICATION Spec
CONSTANTS
    Roots      = {"DataSpec", "DataTypeReference", "DataTypeSpec", "DataTypesSpec",
                  "EventTypeSpec", "ExternalDocumentation", "HeaderSpec", "JSON",
                  "JSONSchemaProp", "JSONSchemaProps", "Kamelet", "KameletCondition",
                  "KameletList", "KameletProperty", "KameletSpec", "KameletSpecBase",
                  "KameletStatus", "SourceSpec", "Template"}
    Keys       = {v1, v2}
    MaxCells   = 3
    MaxObjects = 3
INVARIANTS
    TypeOK
    AliasOnlyByVersion
PROPERTIES
    CopiesEqual
    CacheMostlyReadOnly
CHECK_DEADLOCK FALSE
