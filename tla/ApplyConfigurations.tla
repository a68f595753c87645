------------------------- MODULE ApplyConfigurations -------------------------
(* The builders of partial Kamelets for server-side apply                    *)
(* (crds/pkg/client/camel/applyconfiguration): a struct per API type whose   *)
(* fields are nil until a With function sets them. A field that takes        *)
(* another configuration keeps a pointer to it or a copy of its struct, and  *)
(* a copied struct keeps the maps of the one it was copied from.             *)
EXTENDS KameletTypes, Integers, Sequences
LOCAL INSTANCE FiniteSets

CONSTANTS
    Kinds,      \* kinds of the outer configuration
    Keys,       \* keys of maps
    MaxCalls,   \* bound: calls
    MaxFields   \* bound: different fields these calls are about

VARIABLES
    builders,   \* the configurations: type, fields, metadata allocated or not
    maps,       \* the maps made by the With functions
    log         \* the calls so far

vars == <<builders, maps, log>>

-----------------------------------------------------------------------------
(* The With functions of each type, by what they do to their field.          *)
Sets(fields) == [f \in fields |-> [by |-> "value", of |-> "string"]]   \* b.F = &value
Points(T)    == [by |-> "pointer", of |-> T]      \* b.F = value
Appends(T)   == [by |-> "list", of |-> T]         \* b.F = append(b.F, values[i])
Puts(T)      == [by |-> "entries", of |-> T]      \* b.F[k] = v
NoSetter     == [by |-> "none", of |-> "byte"]    \* embedded, written directly

DataSpecApplyConfiguration ==
    Sets({"Name", "Path", "Content", "ContentRef", "ContentKey", "ContentType",
          "Compression"})
    ++ [RawContent |-> Appends("byte")]

DataTypeSpecApplyConfiguration ==
    Sets({"Scheme", "Format", "Description", "MediaType"})
    ++ [Dependencies |-> Appends("string"), Headers |-> Puts("HeaderSpec"),
        Schema |-> Points("JSONSchemaProps")]

DataTypesSpecApplyConfiguration ==
    Sets({"Default"})
    ++ [Types |-> Puts("DataTypeSpec"), Headers |-> Puts("HeaderSpec")]

EventTypeSpecApplyConfiguration ==
    Sets({"MediaType"}) ++ [Schema |-> Points("JSONSchemaProps")]

ExternalDocumentationApplyConfiguration == Sets({"Description", "URL"})

\* Mutant: generated before Required became a field.
HeaderSpecOutdated == Sets({"Type", "Title", "Description", "Default"})
HeaderSpecApplyConfiguration ==
    Sets({"Type", "Title", "Description", "Required", "Default"})

JSONApplyConfiguration     == [RawMessage |-> NoSetter]
TemplateApplyConfiguration == [RawMessage |-> NoSetter]

JSONSchemaPropBounds ==
    Sets({"MaxLength", "MinLength", "Pattern", "MaxItems", "MinItems", "UniqueItems",
          "MaxProperties", "MinProperties", "MultipleOf", "Nullable"})
    ++ [Enum |-> Appends("JSON"), Example |-> Points("JSON"),
        XDescriptors |-> Appends("string")]
JSONSchemaPropApplyConfiguration ==
    Sets({"ID", "Deprecated", "Description", "Type", "Format", "Title", "Maximum",
          "ExclusiveMaximum", "Minimum", "ExclusiveMinimum"})
    ++ [Default |-> Points("JSON")] ++ JSONSchemaPropBounds

JSONSchemaPropsApplyConfiguration ==
    Sets({"ID", "Description", "Title", "Schema", "Type"})
    ++ [Properties |-> Puts("JSONSchemaProp"), Required |-> Appends("string"),
        Example |-> Points("JSON"), ExternalDocs |-> Points("ExternalDocumentation")]

KameletConditionApplyConfiguration ==
    Sets({"Type", "Status", "LastUpdateTime", "LastTransitionTime", "Reason",
          "Message"})

KameletPropertyApplyConfiguration == Sets({"Name", "Default"})

KameletSpecBaseApplyConfiguration ==
    [Definition |-> Points("JSONSchemaProps"), Sources |-> Appends("SourceSpec"),
     Template |-> Points("Template"), Types |-> Puts("EventTypeSpec"),
     DataTypes |-> Puts("DataTypesSpec"), Dependencies |-> Appends("string")]

\* The With functions write the fields of the embedded base, one by one.
KameletSpecApplyConfiguration ==
    [Definition |-> Points("JSONSchemaProps"), Sources |-> Appends("SourceSpec"),
     Template |-> Points("Template"), Types |-> Puts("EventTypeSpec"),
     DataTypes |-> Puts("DataTypesSpec"), Dependencies |-> Appends("string"),
     Versions |-> Puts("KameletSpecBase")]

KameletStatusApplyConfiguration ==
    Sets({"ObservedGeneration", "Phase"})
    ++ [Conditions |-> Appends("KameletCondition"),
        Properties |-> Appends("KameletProperty")]

SourceSpecApplyConfiguration ==
    Sets({"Name", "Path", "Content", "ContentRef", "ContentKey", "ContentType",
          "Compression", "Language", "Loader", "Type", "FromKamelet"})
    ++ [RawContent |-> Appends("byte"), Interceptors |-> Appends("string"),
        PropertyNames |-> Appends("string")]

\* These write through a pointer, which they make if need be.
KameletMetadata ==
    Sets({"Name", "GenerateName", "Namespace", "UID", "ResourceVersion",
          "Generation", "CreationTimestamp", "DeletionTimestamp",
          "DeletionGracePeriodSeconds"})
    ++ [Labels |-> Puts("string"), Annotations |-> Puts("string"),
        OwnerReferences |-> Appends("OwnerReference"), Finalizers |-> Appends("string")]
KameletParts == [Spec |-> Points("KameletSpec"), Status |-> Points("KameletStatus")]
KameletApplyConfiguration == Sets({"Kind", "APIVersion"}) ++ KameletMetadata ++ KameletParts

\* client-go's configuration of an owner.
OwnerReferenceApplyConfiguration == Sets({"Name", "UID"})

ForKind ==
    [DataSpec |-> DataSpecApplyConfiguration,
     DataTypeSpec |-> DataTypeSpecApplyConfiguration,
     DataTypesSpec |-> DataTypesSpecApplyConfiguration,
     EventTypeSpec |-> EventTypeSpecApplyConfiguration,
     ExternalDocumentation |-> ExternalDocumentationApplyConfiguration,
     HeaderSpec |-> HeaderSpecApplyConfiguration, JSON |-> JSONApplyConfiguration,
     JSONSchemaProp |-> JSONSchemaPropApplyConfiguration,
     JSONSchemaProps |-> JSONSchemaPropsApplyConfiguration,
     Kamelet |-> KameletApplyConfiguration,
     KameletCondition |-> KameletConditionApplyConfiguration,
     KameletProperty |-> KameletPropertyApplyConfiguration,
     KameletSpec |-> KameletSpecApplyConfiguration,
     KameletSpecBase |-> KameletSpecBaseApplyConfiguration,
     KameletStatus |-> KameletStatusApplyConfiguration,
     SourceSpec |-> SourceSpecApplyConfiguration,
     Template |-> TemplateApplyConfiguration]
Setters == ForKind ++ [OwnerReference |-> OwnerReferenceApplyConfiguration]

ASSUME BuildersAssumption ==
    Kinds \subseteq DOMAIN ForKind /\ MaxCalls \in Nat /\ MaxFields \in Nat

-----------------------------------------------------------------------------
\* What a field holds: nothing, a value n, a pointer to builder n, the map n, or
\* a list; elements of lists and maps are values or copied structs.
Unset     == <<"unset">>
Value(n)  == <<"value", n>>
Blank(T)  == [f \in DOMAIN Setters[T] |-> Unset]
Struct(b) == <<"struct", builders[b].fields>>

Of(T) == {b \in DOMAIN builders : builders[b].of = T}

\* What a caller may pass as an element: a value, *T(), or a copy of a builder.
Elements(T) ==
    IF T \in DOMAIN Setters
    THEN {<<"struct", Blank(T)>>} \cup {Struct(b) : b \in Of(T)}
    ELSE {Value(Len(log) + 1)}

\* The Kamelet constructor calls four setters; the others return an empty struct,
\* as ForKind does for all.
NewKamelet ==
    [of |-> "Kamelet", metadata |-> TRUE,
     fields |-> [f \in {"Name", "Namespace", "Kind", "APIVersion"} |-> Value(0)]
                ++ Blank("Kamelet")]
New(T) == [of |-> T, metadata |-> FALSE, fields |-> Blank(T)]

\* The types of the configurations that T's With functions take.
Inner(T) == {Setters[T][f].of : f \in DOMAIN Setters[T]} \cap DOMAIN Setters

Init ==
    /\ \E T \in Kinds :
        \E outer \in {New(T)} \cup (IF T = "Kamelet" THEN {NewKamelet} ELSE {}) :
            \/ Inner(T) = {} /\ builders = <<outer>>
            \/ \E U \in Inner(T) : builders = <<outer, New(U)>>
    /\ maps = <<>>
    /\ log = <<>>

\* A call is about field f of builder b.
Calls(b, f, by, arg) ==
    /\ Len(log) < MaxCalls
    /\ log' = Append(log, [on |-> b, field |-> f, by |-> by, arg |-> arg])
    /\ Cardinality({<<log'[i].on, log'[i].field>> : i \in DOMAIN log'}) <= MaxFields

ensureObjectMeta(b, f) ==
    \/ builders[b].metadata
    \/ builders[b].of = "Kamelet" /\ f \in DOMAIN KameletMetadata

Assign(b, f, v) ==
    builders' = [builders EXCEPT ![b].fields[f] = v, ![b].metadata = ensureObjectMeta(b, f)]

SetValue(b, f) ==
    LET n == Len(log) + 1 IN
    /\ Calls(b, f, "value", n)
    /\ Assign(b, f, Value(n))
    /\ UNCHANGED maps

\* nil, which leaves the field as if it had never been set, or a builder.
SetPointer(b, f) ==
    \E c \in {0} \cup Of(Setters[builders[b].of][f].of) :
        /\ Calls(b, f, "pointer", c)
        /\ Assign(b, f, IF c = 0 THEN Unset ELSE <<"pointer", c>>)
        /\ UNCHANGED maps

ListOf(v) == IF v = Unset THEN <<>> ELSE v[2]
AsList(s) == IF s = <<>> THEN Unset ELSE <<"list", s>>

\* The function panics at a nil pointer, when those before it are in the list.
Kept(values) ==
    [i \in {j \in DOMAIN values : \A k \in 1 .. j : values[k] # Unset} |-> values[i]]

\* Mutant: the builder is appended, not the struct it points to.
AppendPointers(b, f, values) ==
    LET Pointed(e) == IF \E c \in DOMAIN builders : e = Struct(c) /\ c # b
                      THEN <<"pointer", CHOOSE c \in DOMAIN builders : e = Struct(c) /\ c # b>>
                      ELSE e
    IN  AsList(ListOf(builders[b].fields[f]) \o [i \in DOMAIN values |-> Pointed(values[i])])
Appended(b, f, values) == AsList(ListOf(builders[b].fields[f]) \o values)

AppendValues(b, f) ==
    LET T == Setters[builders[b].of][f].of
        nil == IF T \in DOMAIN Setters THEN {Unset} ELSE {}
    IN  \E values \in {<<>>} \cup {<<e>> : e \in Elements(T) \cup nil}
                      \cup {<<e, d>> : e \in Elements(T), d \in nil} :
        /\ Calls(b, f, "list", values)
        /\ Assign(b, f, Appended(b, f, Kept(values)))
        /\ UNCHANGED maps

\* Mutant: a map for every call.
RemakeMap(b, f, entries) ==
    /\ Assign(b, f, IF DOMAIN entries = {} THEN builders[b].fields[f]
                    ELSE <<"map", Len(maps) + 1>>)
    /\ maps' = IF DOMAIN entries = {} THEN maps ELSE Append(maps, entries)
\* The map is made by the first call that has entries for it.
Put(b, f, entries) ==
    LET v == builders[b].fields[f] IN
    \/ /\ DOMAIN entries = {}
       /\ Assign(b, f, v) /\ UNCHANGED maps
    \/ /\ DOMAIN entries # {} /\ v = Unset
       /\ Assign(b, f, <<"map", Len(maps) + 1>>)
       /\ maps' = Append(maps, entries)
    \/ /\ DOMAIN entries # {} /\ v # Unset
       /\ Assign(b, f, v)
       /\ maps' = [maps EXCEPT ![v[2]] = entries ++ @]

PutEntries(b, f) ==
    \E K \in SUBSET Keys, e \in Elements(Setters[builders[b].of][f].of) :
        LET entries == [k \in K |-> e] IN
        /\ Calls(b, f, "entries", entries)
        /\ Put(b, f, entries)

\* A read that makes the metadata it reads.
GetName(b) ==
    /\ builders[b].of = "Kamelet"
    /\ Calls(b, "Name", "none", 0)
    /\ builders' = [builders EXCEPT ![b].metadata = TRUE]
    /\ UNCHANGED maps

With(b, f) ==
    LET by == Setters[builders[b].of][f].by IN
    \/ by = "value"   /\ SetValue(b, f)
    \/ by = "pointer" /\ SetPointer(b, f)
    \/ by = "list"    /\ AppendValues(b, f)
    \/ by = "entries" /\ PutEntries(b, f)

Next ==
    \E b \in DOMAIN builders :
        \/ GetName(b)
        \/ \E f \in DOMAIN builders[b].fields : With(b, f)

Spec == Init /\ [][Next]_vars

-----------------------------------------------------------------------------
\* The fields of the API type, as a partial object has them: a Kamelet's
\* configuration keeps Spec and Status apart.
Declared(T) ==
    IF T = "Kamelet"
    THEN TypeMeta ++ ObjectMeta
         ++ [Spec |-> Pointer("KameletSpec"), Status |-> Pointer("KameletStatus")]
    ELSE FieldsOf[T]

\* What the configuration of a field may hold, by what the type declares.
Fits(v, declared) ==
    \/ v = Unset
    \/ v[1] = "value" /\ declared.kind = "scalar"
    \/ v[1] = "value" /\ declared.kind = "pointer" /\ declared.of \in Plain
    \/ v[1] = "pointer" /\ declared = Pointer(builders[v[2]].of)
    \/ v[1] = "list" /\ declared.kind = "slice"
       /\ \A i \in DOMAIN v[2] : (v[2][i][1] = "value") <=> (declared.of \in Plain)
    \/ v[1] = "map" /\ declared.kind = "map"
       /\ \A k \in DOMAIN maps[v[2]] :
            (maps[v[2]][k][1] = "value") <=> (declared.of \in Plain)

\* Every field of the API type, and no other, has a place in its configuration,
\* and holds what the type declares (the builders are generated from *_types.go
\* and checked in); a field of the metadata has the metadata around it.
TypeOK ==
    \A b \in DOMAIN builders :
        LET T == builders[b].of
            fields == builders[b].fields
        IN  /\ DOMAIN fields = DOMAIN Declared(T)
            /\ \A f \in DOMAIN fields : Fits(fields[f], Declared(T)[f])
            /\ T = "Kamelet" /\ ~ builders[b].metadata =>
                   \A f \in DOMAIN KameletMetadata : fields[f] = Unset

\* The calls that set the field f of the builder b, and what those that append
\* to it have appended.
Said(b, f) == {i \in DOMAIN log : log[i].on = b /\ log[i].field = f /\ log[i].by # "none"}
Listed(b, f) ==
    LET UpTo[i \in 0 .. Len(log)] ==
            IF i = 0 THEN <<>>
            ELSE IF i \in Said(b, f) THEN UpTo[i - 1] \o Kept(log[i].arg)
            ELSE UpTo[i - 1]
    IN  UpTo[Len(log)]

\* The map m is what the calls of C have put, later ones over earlier ones.
PutBy(C, m) ==
    /\ DOMAIN m = UNION {DOMAIN log[i].arg : i \in C}
    /\ \A i \in C : \A k \in DOMAIN log[i].arg :
           m[k] = log[i].arg[k] \/ \E j \in C : i < j /\ k \in DOMAIN log[j].arg

\* A field holds what the calls about it alone say, whatever the calls about
\* other fields and builders: the last value or pointer given, all values
\* appended but those behind a nil, the entries put with later ones over earlier
\* ones ("If called multiple times, ...", on every With function).
SettersAccumulate ==
    \A b \in DOMAIN builders : \A f \in DOMAIN builders[b].fields :
        LET calls == Said(b, f)
            v == builders[b].fields[f]
        IN  \/ calls = {} /\ v \in {Unset, Value(0)}
            \/ \E i \in calls :
                /\ \A j \in calls : j <= i
                /\ LET last == log[i] IN
                   \/ last.by = "value"   /\ v = Value(last.arg)
                   \/ last.by = "pointer" /\ v = IF last.arg = 0 THEN Unset
                                                 ELSE <<"pointer", last.arg>>
                   \/ last.by = "list"    /\ v = AsList(Listed(b, f))
                   \/ last.by = "entries" /\
                        IF \A j \in calls : DOMAIN log[j].arg = {} THEN v = Unset
                        ELSE v[1] = "map" /\ PutBy(calls, maps[v[2]])
===========================================================================
