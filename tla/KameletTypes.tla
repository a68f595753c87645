----------------------------- MODULE KameletTypes -----------------------------
(* The struct types of the Kamelet API                                       *)
(* (crds/pkg/apis/camel/v1/{kamelet,jsonschema,common}_types.go) as tables   *)
(* of fields: for every field, how Go holds it and what type is behind it.   *)
(* Copies (KameletHeap) and builders (ApplyConfigurations) are judged        *)
(* against these declarations.                                               *)
EXTENDS TLC

\* f with what g adds to it (TLC's @@, written out for the provers).
f ++ g == [x \in DOMAIN f \cup DOMAIN g |-> IF x \in DOMAIN f THEN f[x] ELSE g[x]]

\* A field held by value, and one held through a pointer, a slice or a map.
Scalar     == [kind |-> "scalar", of |-> "none"]
Pointer(T) == [kind |-> "pointer", of |-> T]
Slice(T)   == [kind |-> "slice", of |-> T]
Map(T)     == [kind |-> "map", of |-> T]
Scalars(names) == [f \in names |-> Scalar]

\* Types without fields of their own.
Plain == {"string", "byte", "int64", "Number", "Time"}

-----------------------------------------------------------------------------
JSON == [RawMessage |-> Slice("byte")]
Template == [RawMessage |-> Slice("byte")]

JSONSchemaProp ==
    Scalars({"ID", "Deprecated", "Description", "Type", "Format", "Title",
             "ExclusiveMaximum", "ExclusiveMinimum", "Pattern", "UniqueItems",
             "Nullable"})
    ++ [f \in {"Maximum", "Minimum", "MultipleOf"} |-> Pointer("Number")]
    ++ [f \in {"MaxLength", "MinLength", "MaxItems", "MinItems",
               "MaxProperties", "MinProperties"} |-> Pointer("int64")]
    ++ [Default |-> Pointer("JSON"), Example |-> Pointer("JSON"),
        Enum |-> Slice("JSON"), XDescriptors |-> Slice("string")]

ExternalDocumentation == Scalars({"Description", "URL"})

JSONSchemaProps ==
    Scalars({"ID", "Description", "Title", "Schema", "Type"})
    ++ [Properties |-> Map("JSONSchemaProp"), Required |-> Slice("string"),
        Example |-> Pointer("JSON"),
        ExternalDocs |-> Pointer("ExternalDocumentation")]

DataSpec ==
    Scalars({"Name", "Path", "Content", "ContentRef", "ContentKey",
             "ContentType", "Compression"})
    ++ [RawContent |-> Slice("byte")]

\* An embedded struct lends its fields to the struct it is embedded in.
SourceSpec ==
    DataSpec ++ Scalars({"Language", "Loader", "Type", "FromKamelet"})
    ++ [Interceptors |-> Slice("string"), PropertyNames |-> Slice("string")]

HeaderSpec == Scalars({"Type", "Title", "Description", "Required", "Default"})

DataTypeReference == Scalars({"Scheme", "Format"})

DataTypeSpec ==
    Scalars({"Scheme", "Format", "Description", "MediaType"})
    ++ [Dependencies |-> Slice("string"), Headers |-> Map("HeaderSpec"),
        Schema |-> Pointer("JSONSchemaProps")]

DataTypesSpec ==
    Scalars({"Default"})
    ++ [Types |-> Map("DataTypeSpec"), Headers |-> Map("HeaderSpec")]

EventTypeSpec == Scalars({"MediaType"}) ++ [Schema |-> Pointer("JSONSchemaProps")]

KameletSpecBase ==
    [Definition |-> Pointer("JSONSchemaProps"), Sources |-> Slice("SourceSpec"),
     Template |-> Pointer("Template"), Types |-> Map("EventTypeSpec"),
     DataTypes |-> Map("DataTypesSpec"), Dependencies |-> Slice("string")]

KameletSpec == KameletSpecBase ++ [Versions |-> Map("KameletSpecBase")]

KameletCondition ==
    Scalars({"Type", "Status", "LastUpdateTime", "LastTransitionTime",
             "Reason", "Message"})

KameletProperty == Scalars({"Name", "Default"})

KameletStatus ==
    Scalars({"ObservedGeneration", "Phase"})
    ++ [Conditions |-> Slice("KameletCondition"),
        Properties |-> Slice("KameletProperty")]

\* k8s.io/apimachinery's TypeMeta, ListMeta and ObjectMeta.
TypeMeta   == Scalars({"Kind", "APIVersion"})
ListMeta   ==
    Scalars({"SelfLink", "ResourceVersion", "Continue"})
    ++ [RemainingItemCount |-> Pointer("int64")]
ObjectMeta ==
    Scalars({"Name", "GenerateName", "Namespace", "UID", "ResourceVersion",
             "Generation", "CreationTimestamp"})
    ++ [DeletionTimestamp |-> Pointer("Time"),
        DeletionGracePeriodSeconds |-> Pointer("int64"),
        Labels |-> Map("string"), Annotations |-> Map("string"),
        OwnerReferences |-> Slice("OwnerReference"), Finalizers |-> Slice("string")]
OwnerReference == Scalars({"Name", "UID"})

\* Spec and Status are held by value: their fields are the Kamelet's own.
Kamelet == TypeMeta ++ ObjectMeta ++ KameletSpec ++ KameletStatus

KameletList == TypeMeta ++ ListMeta ++ [Items |-> Slice("Kamelet")]

-----------------------------------------------------------------------------
\* All types the generated code handles.
FieldsOf ==
    [JSON |-> JSON, Template |-> Template, JSONSchemaProp |-> JSONSchemaProp,
     ExternalDocumentation |-> ExternalDocumentation,
     JSONSchemaProps |-> JSONSchemaProps, DataSpec |-> DataSpec,
     SourceSpec |-> SourceSpec, HeaderSpec |-> HeaderSpec,
     DataTypeReference |-> DataTypeReference, DataTypeSpec |-> DataTypeSpec,
     DataTypesSpec |-> DataTypesSpec, EventTypeSpec |-> EventTypeSpec,
     KameletSpecBase |-> KameletSpecBase, KameletSpec |-> KameletSpec,
     KameletCondition |-> KameletCondition, KameletProperty |-> KameletProperty,
     KameletStatus |-> KameletStatus, OwnerReference |-> OwnerReference,
     Kamelet |-> Kamelet, KameletList |-> KameletList]
    ++ [T \in Plain |-> <<>>]

TypeNames == DOMAIN FieldsOf \ Plain

\* The fields of T that lead out of the struct.
References(T) == {f \in DOMAIN FieldsOf[T] : FieldsOf[T][f].kind # "scalar"}
===========================================================================
