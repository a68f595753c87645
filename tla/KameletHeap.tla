----------------------------- MODULE KameletHeap -----------------------------
(* Who shares memory with whom: API objects as Go structs whose pointers,    *)
(* slices and maps lead to heap cells. An object that others hold (the       *)
(* informer's cache hands out its own) is copied with the DeepCopy of its    *)
(* type (zz_generated.deepcopy.go) and with CloneWithVersion                 *)
(* (kamelet_types_support.go:214-229); its consumers write through what they *)
(* copied, never through the object itself ("All objects returned here must  *)
(* be treated as read-only", listers/camel/v1/kamelet.go:30).                *)
EXTENDS KameletTypes, Integers, Sequences

CONSTANTS
    Roots,      \* types of the object that is shared
    Keys,       \* keys of maps, the version names among them
    MaxCells,   \* bound: cells of the shared object
    MaxObjects  \* bound: objects ever held

ASSUME HeapAssumption ==
    /\ Roots \subseteq TypeNames
    /\ MaxCells \in Nat \ {0} /\ MaxObjects \in Nat \ {0}
    /\ Keys \cap {0, 1, "", "all"} = {}

VARIABLES
    heap,       \* the cells, by address
    top,        \* addresses up to here are taken
    objects,    \* what is held: root cell, source object, version asked for ("all": none)
    phase,      \* "decoding" while the shared object is built, then "shared"
    writer      \* the object its holder wrote through, 0 before the write

vars == <<heap, top, objects, phase, writer>>

Nil == 0

\* The zero value of T, and the cell behind a pointer, a slice or a map.
Zero(T)       == [data |-> 0, refs |-> [f \in References(T) |-> Nil]]
NewCell(T, K) == [of |-> T, elems |-> [k \in K |-> Zero(T)]]

\* The elements a pointer, a slice or a map may hold.
Extents(kind) ==
    CASE kind = "pointer" -> {{1}}
      [] kind = "slice"   -> {{}, {1}}
      [] kind = "map"     -> SUBSET Keys

-----------------------------------------------------------------------------
(* What each DeepCopyInto does about the reference fields of its type: it    *)
(* allocates for both, then copies the elements one by one or lets their own *)
(* DeepCopyInto copy them. A field that is in neither is shared, by the      *)
(* "*out = *in" every one of them begins with.                               *)
Copied(elements, deep) ==
    [f \in elements |-> "elements"] ++ [f \in deep |-> "deep"]
Assigned == Copied({}, {})

CopyDataSpec              == Copied({"RawContent"}, {})
CopyDataTypeReference     == Assigned
CopyDataTypeSpec          == Copied({"Dependencies", "Headers"}, {"Schema"})
CopyDataTypesSpec         == Copied({"Headers"}, {"Types"})
CopyEventTypeSpec         == Copied({}, {"Schema"})
CopyExternalDocumentation == Assigned
CopyHeaderSpec            == Assigned
CopyJSON                  == Copied({"RawMessage"}, {})
CopyJSONSchemaProp ==
    Copied({"Maximum", "Minimum", "MaxLength", "MinLength", "MaxItems", "MinItems",
            "MaxProperties", "MinProperties", "MultipleOf", "XDescriptors"},
           {"Default", "Enum", "Example"})
CopyJSONSchemaProps ==
    Copied({"Required", "ExternalDocs"}, {"Properties", "Example"})
\* Mutant: a spec base whose copy forgets the Template pointer.
CopySharingTemplate ==
    Copied({"Dependencies"}, {"Definition", "Sources", "Types", "DataTypes"})
CopyKameletSpecBase ==
    Copied({"Dependencies"}, {"Definition", "Sources", "Template", "Types", "DataTypes"})
\* Mutant: the specs of the versions are copied element by element.
CopyVersionsByElement == CopyKameletSpecBase ++ Copied({"Versions"}, {})
CopyKameletSpec     == CopyKameletSpecBase ++ Copied({}, {"Versions"})
CopyKameletStatus   == Copied({"Properties"}, {"Conditions"})
CopyKameletCondition == Assigned
CopyKameletProperty == Assigned
CopySourceSpec      == CopyDataSpec ++ Copied({"Interceptors", "PropertyNames"}, {})
CopyTemplate        == Copied({"RawMessage"}, {})
\* k8s.io/apimachinery's own.
CopyListMeta        == Copied({"RemainingItemCount"}, {})
CopyObjectMeta ==
    Copied({"DeletionTimestamp", "DeletionGracePeriodSeconds", "Labels",
            "Annotations", "Finalizers"}, {"OwnerReferences"})
\* Mutant: "*out = *in" leaves the status' conditions to be shared.
CopyWithoutStatus   == CopyObjectMeta ++ CopyKameletSpec
CopyKamelet         == CopyObjectMeta ++ CopyKameletSpec ++ CopyKameletStatus
CopyKameletList     == CopyListMeta ++ Copied({}, {"Items"})

DeepCopyInto ==
    [DataSpec |-> CopyDataSpec, DataTypeReference |-> CopyDataTypeReference,
     DataTypeSpec |-> CopyDataTypeSpec, DataTypesSpec |-> CopyDataTypesSpec,
     EventTypeSpec |-> CopyEventTypeSpec, HeaderSpec |-> CopyHeaderSpec,
     ExternalDocumentation |-> CopyExternalDocumentation, JSON |-> CopyJSON,
     JSONSchemaProp |-> CopyJSONSchemaProp, JSONSchemaProps |-> CopyJSONSchemaProps,
     Kamelet |-> CopyKamelet, KameletCondition |-> CopyKameletCondition,
     KameletList |-> CopyKameletList, KameletProperty |-> CopyKameletProperty,
     KameletSpec |-> CopyKameletSpec, KameletSpecBase |-> CopyKameletSpecBase,
     KameletStatus |-> CopyKameletStatus, OwnerReference |-> Assigned,
     SourceSpec |-> CopySourceSpec, Template |-> CopyTemplate]

-----------------------------------------------------------------------------
\* The cells that the fields of the elements of the cell a lead to, and so for
\* every cell along the fields F(T) of its type.
Behind(a, fields) ==
    {heap[a].elems[k].refs[f] : k \in DOMAIN heap[a].elems, f \in fields} \ {Nil}
Along(F(_)) == [a \in DOMAIN heap |-> Behind(a, F(heap[a].of))]

\* The cells reached from the cells C, where next[a] are those a leads to.
Reach(C, next) ==
    LET below[a \in DOMAIN next] == {a} \cup UNION {below[b] : b \in next[a]}
    IN  UNION {below[a] : a \in C}

Reachable(C) == Reach(C, Along(References))
Holds(o)     == Reachable({objects[o].root})

\* The elements reached from the root through "deep" fields alone, those whose
\* DeepCopyInto is called, and what these copy element by element.
How(T, how) ==
    {f \in References(T) : f \in DOMAIN DeepCopyInto[T] /\ DeepCopyInto[T][f] = how}
Deep(T) == How(T, "deep")
Flat(T) == How(T, "elements")
DeepCells(root) == Reach({root}, Along(Deep))
FlatCells(root) == UNION {Along(Flat)[a] : a \in DeepCells(root)}

\* A struct after its DeepCopyInto: the cell at a is copied to top + a.
CopyStruct(T, s) ==
    [s EXCEPT !.refs = [f \in DOMAIN @ |->
        IF f \in DOMAIN DeepCopyInto[T] /\ @[f] # Nil THEN top + @[f] ELSE @[f]]]

\* Mutant: the elements are allocated and left at their zero value.
CopyNothing(a) == NewCell(heap[a].of, DOMAIN heap[a].elems)
CopyDeep(a) ==
    [heap[a] EXCEPT !.elems = [k \in DOMAIN @ |-> CopyStruct(heap[a].of, @[k])]]

\* The heap and the root of the copy after root.DeepCopy().
DeepCopy(root) ==
    LET deep == DeepCells(root)
        flat == FlatCells(root) \ deep
    IN  heap ++ [a \in {top + b : b \in deep} |-> CopyDeep(a - top)]
             ++ [a \in {top + b : b \in flat} |-> heap[a - top]]

\* The fields of the version v of objects[o], none when no version is asked for.
BaseOf(o, v) ==
    IF v = "" THEN <<>>
    ELSE heap[heap[objects[o].root].elems[1].refs["Versions"]].elems[v].refs

\* Mutant: the clone starts from *k and keeps the versions.
CloneShallowly(o, v) ==
    LET root == objects[o].root
    IN  heap ++ [a \in {top + root} |->
                    [heap[root] EXCEPT !.elems[1].refs = BaseOf(o, v) ++ @]]
\* The heap after objects[o].CloneWithVersion(v): the version's struct is
\* assigned as it is in the receiver, and its pointers with it.
CloneWithVersion(o, v) ==
    LET root == objects[o].root
    IN  [DeepCopy(root) EXCEPT
            ![top + root].elems[1].refs = [Versions |-> Nil] ++ BaseOf(o, v) ++ @]

-----------------------------------------------------------------------------
Init ==
    /\ \E T \in Roots : heap = <<NewCell(T, {1})>>
    /\ top = 1
    /\ objects = <<[root |-> 1, source |-> 0, version |-> "all"]>>
    /\ phase = "decoding"
    /\ writer = 0

\* Whether a field of the cell a leads to the cell b.
LeadsTo(a, b) == b \in Behind(a, References(heap[a].of))

\* The decoder fills in one more reference; it goes through the object in order.
Populate ==
    /\ phase = "decoding" /\ top < MaxCells
    /\ \E p \in DOMAIN heap :
        /\ \A q \in p + 1 .. top : ~ LeadsTo(q, top)
        /\ \E k \in DOMAIN heap[p].elems, f \in References(heap[p].of) :
            /\ heap[p].elems[k].refs[f] = Nil
            /\ LET field == FieldsOf[heap[p].of][f] IN
               \E K \in Extents(field.kind) :
                  heap' = [heap EXCEPT ![p].elems[k].refs[f] = top + 1]
                          ++ [a \in {top + 1} |-> NewCell(field.of, K)]
    /\ top' = top + 1
    /\ UNCHANGED <<objects, phase, writer>>

Publish ==
    /\ phase = "decoding"
    /\ phase' = "shared"
    /\ UNCHANGED <<heap, top, objects, writer>>

\* A holder takes the result of a copy of objects[o].
Take(o, v, after) ==
    /\ phase = "shared" /\ Len(objects) < MaxObjects
    /\ heap' = after
    /\ top' = 2 * top
    /\ objects' = Append(objects, [root |-> top + objects[o].root, source |-> o,
                                   version |-> v])
    /\ UNCHANGED <<phase, writer>>

DoDeepCopy == \E o \in DOMAIN objects : Take(o, "all", DeepCopy(objects[o].root))

\* The versions CloneWithVersion finds in objects[o]; for others it returns an error.
VersionsOf(o) ==
    LET versions == heap[objects[o].root].elems[1].refs["Versions"]
    IN  IF versions = Nil THEN {} ELSE DOMAIN heap[versions].elems

DoCloneWithVersion ==
    \E o \in DOMAIN objects :
        /\ heap[objects[o].root].of = "Kamelet"
        /\ \E v \in {""} \cup VersionsOf(o) : Take(o, v, CloneWithVersion(o, v))

\* A holder of a copy writes to a struct, an element or an entry it reaches.
Write ==
    /\ phase = "shared" /\ writer = 0
    /\ \E o \in DOMAIN objects \ {1} :
        /\ writer' = o
        /\ \E a \in Holds(o) : \E k \in DOMAIN heap[a].elems :
              heap' = [heap EXCEPT ![a].elems[k].data = 1 - @]
    /\ UNCHANGED <<top, objects, phase>>

\* RawMessage.UnmarshalJSON of a value inside a copy: the bytes are appended to
\* (*m)[0:0], that is written over the old ones when their array is long enough,
\* and into a new array when it is not.
UnmarshalJSON ==
    /\ phase = "shared" /\ writer = 0
    /\ \E o \in DOMAIN objects \ {1} :
        /\ writer' = o
        /\ \E a \in Holds(o) : \E k \in DOMAIN heap[a].elems :
            /\ "RawMessage" \in References(heap[a].of)
            /\ LET bytes == heap[a].elems[k].refs["RawMessage"]
                   decoded == [NewCell("byte", {1}) EXCEPT !.elems[1].data = 1]
               IN  \/ /\ bytes # Nil /\ DOMAIN heap[bytes].elems # {}
                      /\ heap' = [heap EXCEPT ![bytes] = decoded]
                      /\ top' = top
                   \/ /\ heap' = [heap EXCEPT ![a].elems[k].refs["RawMessage"] = top + 1]
                                ++ [b \in {top + 1} |-> decoded]
                      /\ top' = top + 1
    /\ UNCHANGED <<objects, phase>>

\* All copies taken, all written: nobody needs another.
Next ==
    \/ Populate \/ Publish
    \/ DoDeepCopy \/ DoCloneWithVersion
    \/ Write \/ UnmarshalJSON

Spec == Init /\ [][Next]_vars

-----------------------------------------------------------------------------
\* What is seen from the cells of the heap h: the structure below each, nil
\* apart from empty; and what the holder of objects[o] sees.
View(h) ==
    LET Value[a \in DOMAIN h \cup {Nil}] ==
            [nil |-> a = Nil,
             elems |-> IF a = Nil THEN <<>>
                       ELSE [k \in DOMAIN h[a].elems |->
                                [data |-> h[a].elems[k].data,
                                 refs |-> [f \in References(h[a].of) |->
                                              Value[h[a].elems[k].refs[f]]]]]]
    IN  Value
Shown(o) == View(heap)[objects[o].root].elems[1]

\* The cells of the version v of objects[o].
VersionCells(o, v) ==
    LET base == heap[heap[objects[o].root].elems[1].refs["Versions"]].elems[v].refs
    IN  Reachable({base[f] : f \in DOMAIN base} \ {Nil})

\* The references in the cells C (cell, element and field), where they go, and
\* what the type declares them to be.
Target(e) == heap[e[1]].elems[e[2]].refs[e[3]]
Edges(C) ==
    {e \in UNION {{<<a, k, f>> : k \in DOMAIN heap[a].elems, f \in References(heap[a].of)}
                      : a \in C} : Target(e) # Nil}
Declared(e) == FieldsOf[heap[e[1]].of][e[3]]

\* References go to a cell of the declared type, a pointer to one element, and
\* no two references inside an object meet (zz_generated.deepcopy.go copies
\* trees; a cell two fields share would come out as two).
TypeOK ==
    /\ DOMAIN heap \subseteq 1..top
    /\ \A o \in DOMAIN objects :
        /\ Holds(o) \subseteq DOMAIN heap
        /\ \A e \in Edges(Holds(o)) :
            /\ heap[Target(e)].of = Declared(e).of
            /\ DOMAIN heap[Target(e)].elems \in Extents(Declared(e).kind)
        /\ \A e, d \in Edges(Holds(o)) : Target(e) = Target(d) => e = d

\* Two objects share memory only where CloneWithVersion made one of them, or
\* both, from the same version of the same object, and then nothing but what
\* that version leads to; deep copies never spread the sharing
\* (kamelet_types_support.go:223, zz_generated.deepcopy.go:394-397).
AliasOnlyByVersion ==
    \A o, p \in DOMAIN objects :
        LET shared == Holds(o) \cap Holds(p)
            Clone(c) == objects[c].version \in Keys
        IN  o < p /\ shared # {} =>
               /\ Clone(p)
               /\ \/ objects[p].source = o
                  \/ Clone(o) /\ objects[o].source = objects[p].source
                     /\ objects[o].version = objects[p].version
               /\ shared \subseteq VersionCells(objects[p].source, objects[p].version)

\* A deep copy shows what its source shows, nil and empty told apart. A clone
\* shows the source, its name and other scalars included, but for the fields of
\* the version, which it has for its own, and for the versions, which it has
\* not (kamelet_types_support.go:216-229; the comment has it renamed, see
\* ClonesRenamed).
CopyShowsSource ==
    Len(objects') > Len(objects) =>
        LET made == objects'[Len(objects) + 1]
            source == Shown(made.source)
            v == made.version
            base == IF v = "" THEN <<>> ELSE source.refs["Versions"].elems[v].refs
        IN  Shown(Len(objects))' =
                IF v = "all" THEN source
                ELSE [source EXCEPT
                         !.refs = [Versions |-> [nil |-> TRUE, elems |-> <<>>]] ++ base ++ @]
CopiesEqual == [][CopyShowsSource]_vars

\* Whatever the holders of copies do to what they took, every other object
\* that is no clone of a version shows the same, but for the versions clones
\* were made from.
OthersShowTheSame ==
    phase = "shared" =>
        \A o \in DOMAIN objects :
            objects[o].version \notin Keys /\ writer' # o =>
                \/ Shown(o)' = Shown(o)
                \/ /\ objects[writer'].source = o
                   /\ LET v == objects[writer'].version IN
                      /\ v \in Keys
                      /\ Shown(o)' = [Shown(o) EXCEPT
                             !.refs["Versions"].elems[v] =
                                 (Shown(o)').refs["Versions"].elems[v]]
CacheMostlyReadOnly == [][OthersShowTheSame]_vars

\* The scalars of objects[o]'s own struct, its name among them.
OwnScalars(o) == heap[objects[o].root].elems[1].data

\* "It also changes the name adding a suffix with the version provided": the
\* clone of a version differs from what was cloned in its name, if in no other
\* scalar. Not so: CloneWithVersion assigns the version's struct, which has no
\* scalars, and nothing else.
NameGetsSuffix ==
    Len(objects') > Len(objects) =>
        LET made == objects'[Len(objects) + 1]
        IN  made.version \in Keys => OwnScalars(Len(objects))' # OwnScalars(made.source)
ClonesRenamed == [][NameGetsSuffix]_vars

\* The shared object changes through no copy of it ("All objects returned here
\* must be treated as read-only", which is what the copies are for).
CacheReadOnly == [][phase = "shared" => Shown(1)' = Shown(1)]_vars
===========================================================================
