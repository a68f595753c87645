-------------------------- MODULE KameletHeapProofs --------------------------
(* Proofs about KameletHeap: for any root types, keys, cells and objects,    *)
(* objects are trees of the declared types, and they share memory only where *)
(* CloneWithVersion made them share it.                                      *)
EXTENDS KameletHeap, WellFoundedInduction, TLAPS

-----------------------------------------------------------------------------
(* The tables of fields and copies.                                          *)

\* Types whose structs lead nowhere.
Leaves == Plain \cup {"HeaderSpec", "ExternalDocumentation", "KameletProperty",
                      "DataTypeReference", "KameletCondition", "OwnerReference"}

\* Every field of F that leads out of the struct is copied by C, and element
\* by element only where the elements lead nowhere.
CopiedWhole(F, C) ==
    \A f \in DOMAIN F : F[f].kind # "scalar" =>
        /\ F[f].kind \in {"pointer", "slice", "map"}
        /\ F[f].of \in TypeNames \cup Plain
        /\ f \in DOMAIN C
        /\ C[f] = "deep" \/ (C[f] = "elements" /\ F[f].of \in Leaves)

LEMMA Names ==
    TypeNames \cup Plain = Plain \cup
      {"JSON", "Template", "JSONSchemaProp", "ExternalDocumentation", "JSONSchemaProps",
       "DataSpec", "SourceSpec", "HeaderSpec", "DataTypeReference", "DataTypeSpec",
       "DataTypesSpec", "EventTypeSpec", "KameletSpecBase", "KameletSpec",
       "KameletCondition", "KameletProperty", "KameletStatus", "OwnerReference",
       "Kamelet", "KameletList"}
BY DEF TypeNames, FieldsOf, ++, Plain

LEMMA MergedWhole ==
    ASSUME NEW F, NEW G, NEW C, NEW D, CopiedWhole(F, C), CopiedWhole(G, D),
           \A f \in DOMAIN G : f \in DOMAIN C => f \in DOMAIN F
    PROVE  CopiedWhole(F ++ G, C ++ D)
BY DEF CopiedWhole, ++

LEMMA JoinedWhole ==
    ASSUME NEW F, NEW G, NEW C, CopiedWhole(F, C), CopiedWhole(G, C)
    PROVE  CopiedWhole(F ++ G, C)
BY DEF CopiedWhole, ++

LEMMA SmallCopies ==
    /\ CopiedWhole(JSON, CopyJSON)
    /\ CopiedWhole(Template, CopyTemplate)
    /\ CopiedWhole(ExternalDocumentation, CopyExternalDocumentation)
    /\ CopiedWhole(DataSpec, CopyDataSpec)
    /\ CopiedWhole(HeaderSpec, CopyHeaderSpec)
    /\ CopiedWhole(DataTypeReference, CopyDataTypeReference)
    /\ CopiedWhole(DataTypeSpec, CopyDataTypeSpec)
    /\ CopiedWhole(DataTypesSpec, CopyDataTypesSpec)
    /\ CopiedWhole(EventTypeSpec, CopyEventTypeSpec)
    /\ CopiedWhole(JSONSchemaProps, CopyJSONSchemaProps)
    /\ CopiedWhole(KameletCondition, CopyKameletCondition)
    /\ CopiedWhole(KameletProperty, CopyKameletProperty)
    /\ CopiedWhole(OwnerReference, Assigned)
    /\ CopiedWhole(KameletStatus, CopyKameletStatus)
    /\ CopiedWhole(KameletList, CopyKameletList)
    /\ CopiedWhole(ObjectMeta, CopyObjectMeta)
    /\ CopiedWhole(KameletSpecBase, CopyKameletSpecBase)
    /\ CopiedWhole(KameletSpec, CopyKameletSpec)
<1> USE Names DEF CopiedWhole, Copied, Scalars, Scalar, Pointer, Slice, Map, Leaves, Plain, ++
<1>1. CopiedWhole(JSON, CopyJSON)
  BY DEF JSON, CopyJSON
<1>2. CopiedWhole(Template, CopyTemplate)
  BY DEF Template, CopyTemplate
<1>3. CopiedWhole(ExternalDocumentation, CopyExternalDocumentation)
  BY DEF ExternalDocumentation
<1>4. CopiedWhole(DataSpec, CopyDataSpec)
  BY DEF DataSpec, CopyDataSpec
<1>5. CopiedWhole(HeaderSpec, CopyHeaderSpec)
  BY DEF HeaderSpec
<1>6. CopiedWhole(DataTypeReference, CopyDataTypeReference)
  BY DEF DataTypeReference
<1>7. CopiedWhole(DataTypeSpec, CopyDataTypeSpec)
  BY DEF DataTypeSpec, CopyDataTypeSpec
<1>8. CopiedWhole(DataTypesSpec, CopyDataTypesSpec)
  BY DEF DataTypesSpec, CopyDataTypesSpec
<1>9. CopiedWhole(EventTypeSpec, CopyEventTypeSpec)
  BY DEF EventTypeSpec, CopyEventTypeSpec
<1>10. CopiedWhole(JSONSchemaProps, CopyJSONSchemaProps)
  BY DEF JSONSchemaProps, CopyJSONSchemaProps
<1>11. CopiedWhole(KameletCondition, CopyKameletCondition)
  BY DEF KameletCondition
<1>12. CopiedWhole(KameletProperty, CopyKameletProperty)
  BY DEF KameletProperty
<1>13. CopiedWhole(OwnerReference, Assigned)
  BY DEF OwnerReference
<1>14. CopiedWhole(KameletStatus, CopyKameletStatus)
  BY DEF KameletStatus, CopyKameletStatus
<1>15. CopiedWhole(KameletList, CopyKameletList)
  BY DEF KameletList, CopyKameletList, TypeMeta, ListMeta, CopyListMeta
<1>16. CopiedWhole(ObjectMeta, CopyObjectMeta)
  BY DEF ObjectMeta, CopyObjectMeta
<1>17. CopiedWhole(KameletSpecBase, CopyKameletSpecBase)
  BY DEF KameletSpecBase, CopyKameletSpecBase
<1>18. CopiedWhole(KameletSpec, CopyKameletSpec)
  BY DEF KameletSpec, KameletSpecBase, CopyKameletSpec, CopyKameletSpecBase
<1> HIDE Names DEF CopiedWhole
<1>19. QED
  BY <1>1, <1>2, <1>3, <1>4, <1>5, <1>6, <1>7, <1>8, <1>9, <1>10, <1>11, <1>12, <1>13,
     <1>14, <1>15, <1>16, <1>17, <1>18

LEMMA MergedCopies ==
    /\ CopiedWhole(SourceSpec, CopySourceSpec)
    /\ CopiedWhole(JSONSchemaProp, CopyJSONSchemaProp)
    /\ CopiedWhole(Kamelet, CopyKamelet)
<1>1. CopiedWhole(SourceSpec, CopySourceSpec)
  <2> DEFINE Source == Scalars({"Language", "Loader", "Type", "FromKamelet"})
             Lists  == [Interceptors |-> Slice("string"), PropertyNames |-> Slice("string")]
             Copies == Copied({"Interceptors", "PropertyNames"}, {})
  <2>1. CopiedWhole(DataSpec ++ Source, CopyDataSpec)
    BY SmallCopies, Names DEF CopiedWhole, ++, Scalars, Scalar
  <2>2. CopiedWhole(Lists, Copies)
    BY Names DEF CopiedWhole, Copied, ++, Slice, Leaves, Plain
  <2>3. DOMAIN CopyDataSpec = {"RawContent"}
    BY DEF CopyDataSpec, Copied, ++
  <2>4. CopiedWhole((DataSpec ++ Source) ++ Lists, CopyDataSpec ++ Copies)
    BY <2>1, <2>2, <2>3, MergedWhole
  <2>5. QED
    BY <2>4 DEF SourceSpec, CopySourceSpec
<1>2. CopiedWhole(JSONSchemaProp, CopyJSONSchemaProp)
  <2> DEFINE Plainly == Scalars({"ID", "Deprecated", "Description", "Type", "Format", "Title",
                                 "ExclusiveMaximum", "ExclusiveMinimum", "Pattern",
                                 "UniqueItems", "Nullable"})
             Numbers == [f \in {"Maximum", "Minimum", "MultipleOf"} |-> Pointer("Number")]
             Bounds  == [f \in {"MaxLength", "MinLength", "MaxItems", "MinItems",
                                "MaxProperties", "MinProperties"} |-> Pointer("int64")]
             Values  == [Default |-> Pointer("JSON"), Example |-> Pointer("JSON"),
                         Enum |-> Slice("JSON"), XDescriptors |-> Slice("string")]
  <2>1. CopiedWhole(Plainly, CopyJSONSchemaProp)
    BY DEF CopiedWhole, Scalars, Scalar
  <2>2. CopiedWhole(Numbers, CopyJSONSchemaProp)
    BY Names DEF CopiedWhole, CopyJSONSchemaProp, Copied, ++, Pointer, Leaves, Plain
  <2>3. CopiedWhole(Bounds, CopyJSONSchemaProp)
    BY Names DEF CopiedWhole, CopyJSONSchemaProp, Copied, ++, Pointer, Leaves, Plain
  <2>4. CopiedWhole(Values, CopyJSONSchemaProp)
    BY Names DEF CopiedWhole, CopyJSONSchemaProp, Copied, ++, Pointer, Slice, Leaves, Plain
  <2>5. CopiedWhole(((Plainly ++ Numbers) ++ Bounds) ++ Values, CopyJSONSchemaProp)
    BY <2>1, <2>2, <2>3, <2>4, JoinedWhole
  <2>6. QED
    BY <2>5 DEF JSONSchemaProp
<1>3. CopiedWhole(Kamelet, CopyKamelet)
  <2>1. CopiedWhole(TypeMeta ++ ObjectMeta, CopyObjectMeta)
    BY SmallCopies DEF CopiedWhole, ++, Scalars, Scalar, TypeMeta
  <2>2. \A f \in DOMAIN KameletSpec : f \notin DOMAIN CopyObjectMeta
    BY DEF KameletSpec, KameletSpecBase, CopyObjectMeta, Copied, ++
  <2>3. CopiedWhole((TypeMeta ++ ObjectMeta) ++ KameletSpec, CopyObjectMeta ++ CopyKameletSpec)
    BY <2>1, <2>2, SmallCopies, MergedWhole
  <2>4. \A f \in DOMAIN KameletStatus : f \notin DOMAIN (CopyObjectMeta ++ CopyKameletSpec)
    BY DEF KameletStatus, CopyKameletSpec, CopyKameletSpecBase, CopyObjectMeta, Copied, ++, Scalars
  <2>5. CopiedWhole(((TypeMeta ++ ObjectMeta) ++ KameletSpec) ++ KameletStatus,
                    (CopyObjectMeta ++ CopyKameletSpec) ++ CopyKameletStatus)
    BY <2>3, <2>4, SmallCopies, MergedWhole
  <2>6. QED
    BY <2>5 DEF Kamelet, CopyKamelet
<1>4. QED
  BY <1>1, <1>2, <1>3

\* The struct of every type goes over whole: see CopiedWhole.
LEMMA Tables ==
    ASSUME NEW T \in DOMAIN FieldsOf, NEW f \in References(T)
    PROVE  /\ FieldsOf[T][f].of \in DOMAIN FieldsOf
           /\ FieldsOf[T][f].kind \in {"pointer", "slice", "map"}
           /\ f \in Deep(T) \/ (f \in Flat(T) /\ References(FieldsOf[T][f].of) = {})
<1>1. \A U \in Plain : U \in DOMAIN FieldsOf /\ References(U) = {}
  BY DEF FieldsOf, References, ++, Plain
<1>2. CASE T \in Plain
  BY <1>1, <1>2
<1>3. CASE T \notin Plain
  <2>1. T \in TypeNames
    BY <1>3 DEF TypeNames
  <2>2. CopiedWhole(FieldsOf[T], DeepCopyInto[T])
    BY <2>1, SmallCopies, MergedCopies, Names DEF FieldsOf, DeepCopyInto, ++, TypeNames, Plain
  <2>3. \A U \in Leaves : References(U) = {}
    <3> DEFINE Structs == {"HeaderSpec", "ExternalDocumentation", "KameletProperty",
                           "DataTypeReference", "KameletCondition", "OwnerReference"}
    <3>1. \A U \in Structs : \A g \in DOMAIN FieldsOf[U] : FieldsOf[U][g] = Scalar
      <4>1. /\ FieldsOf["HeaderSpec"] = HeaderSpec
            /\ FieldsOf["ExternalDocumentation"] = ExternalDocumentation
            /\ FieldsOf["KameletProperty"] = KameletProperty
            /\ FieldsOf["DataTypeReference"] = DataTypeReference
            /\ FieldsOf["KameletCondition"] = KameletCondition
            /\ FieldsOf["OwnerReference"] = OwnerReference
        BY DEF FieldsOf, ++
      <4>2. QED
        BY <4>1 DEF HeaderSpec, ExternalDocumentation, KameletProperty, DataTypeReference,
           KameletCondition, OwnerReference, Scalars
    <3>2. \A U \in Structs : References(U) = {}
      BY <3>1 DEF References, Scalar
    <3>3. QED
      BY <3>2, <1>1 DEF Leaves
  <2>4. QED
    BY <2>2, <2>3, <1>1 DEF CopiedWhole, References, Deep, Flat, How, TypeNames
<1>4. QED
  BY <1>2, <1>3

\* What a clone of a version takes from the version: the fields of the spec base,
\* which a Kamelet has too, without the versions.
LEMMA BaseTables ==
    /\ {"Kamelet", "KameletSpecBase", "byte"} \subseteq DOMAIN FieldsOf
    /\ References("KameletSpecBase") \subseteq References("Kamelet") \ {"Versions"}
    /\ \A f \in References("KameletSpecBase") :
           FieldsOf["KameletSpecBase"][f] = FieldsOf["Kamelet"][f]
    /\ "Versions" \in References("Kamelet")
    /\ FieldsOf["Kamelet"]["Versions"] = Map("KameletSpecBase")
<1>1. FieldsOf["Kamelet"] = Kamelet /\ FieldsOf["KameletSpecBase"] = KameletSpecBase
  BY DEF FieldsOf, ++
<1>2. {"Kamelet", "KameletSpecBase", "byte"} \subseteq DOMAIN FieldsOf
  BY DEF FieldsOf, ++, Plain
<1>3. \A f \in DOMAIN KameletSpec : f \notin DOMAIN (TypeMeta ++ ObjectMeta)
  BY DEF KameletSpec, KameletSpecBase, TypeMeta, ObjectMeta, Scalars, ++
<1>4. \A f \in DOMAIN KameletSpec : f \in DOMAIN Kamelet /\ Kamelet[f] = KameletSpec[f]
  BY <1>3 DEF Kamelet, ++
<1>5. /\ DOMAIN KameletSpecBase \subseteq DOMAIN KameletSpec \ {"Versions"}
      /\ \A f \in DOMAIN KameletSpecBase : KameletSpec[f] = KameletSpecBase[f]
      /\ "Versions" \in DOMAIN KameletSpec
      /\ KameletSpec["Versions"] = Map("KameletSpecBase")
  BY DEF KameletSpec, KameletSpecBase, ++
<1>6. Map("KameletSpecBase").kind # "scalar"
  BY DEF Map
<1>7. QED
  BY <1>1, <1>2, <1>4, <1>5, <1>6 DEF References

\* The bytes UnmarshalJSON writes.
LEMMA RawTables ==
    /\ References("byte") = {}
    /\ \A T \in DOMAIN FieldsOf :
           "RawMessage" \in References(T) => FieldsOf[T]["RawMessage"] = Slice("byte")
<1>1. References("byte") = {}
  BY DEF FieldsOf, References, ++, Plain
<1>2. ASSUME NEW T \in DOMAIN FieldsOf, "RawMessage" \in References(T)
      PROVE  FieldsOf[T]["RawMessage"] = Slice("byte")
  <2>1. CASE T \in {"JSON", "Template"}
    BY <2>1 DEF FieldsOf, JSON, Template, ++
  <2>2. CASE T \in Plain
    BY <1>2, <2>2 DEF FieldsOf, References, Plain, ++
  <2>3. CASE T \notin {"JSON", "Template"} \cup Plain
    <3>1. "RawMessage" \in DOMAIN FieldsOf[T]
      BY <1>2 DEF References
    <3>2. /\ "RawMessage" \notin DOMAIN JSONSchemaProp
          /\ "RawMessage" \notin DOMAIN ExternalDocumentation
          /\ "RawMessage" \notin DOMAIN JSONSchemaProps
          /\ "RawMessage" \notin DOMAIN DataSpec
          /\ "RawMessage" \notin DOMAIN SourceSpec
          /\ "RawMessage" \notin DOMAIN HeaderSpec
          /\ "RawMessage" \notin DOMAIN DataTypeReference
          /\ "RawMessage" \notin DOMAIN DataTypeSpec
          /\ "RawMessage" \notin DOMAIN DataTypesSpec
          /\ "RawMessage" \notin DOMAIN EventTypeSpec
          /\ "RawMessage" \notin DOMAIN KameletSpecBase
          /\ "RawMessage" \notin DOMAIN KameletSpec
          /\ "RawMessage" \notin DOMAIN KameletCondition
          /\ "RawMessage" \notin DOMAIN KameletProperty
          /\ "RawMessage" \notin DOMAIN KameletStatus
          /\ "RawMessage" \notin DOMAIN OwnerReference
          /\ "RawMessage" \notin DOMAIN Kamelet
          /\ "RawMessage" \notin DOMAIN KameletList
      BY DEF JSONSchemaProp, ExternalDocumentation, JSONSchemaProps, DataSpec, SourceSpec,
         HeaderSpec, DataTypeReference, DataTypeSpec, DataTypesSpec, EventTypeSpec,
         KameletSpecBase, KameletSpec, KameletCondition, KameletProperty, KameletStatus,
         OwnerReference, Kamelet, KameletList, TypeMeta, ListMeta, ObjectMeta,
         Scalars, ++
    <3>3. QED
      BY <3>1, <3>2, <2>3 DEF FieldsOf, Plain, ++
  <2>4. QED
    BY <2>1, <2>2, <2>3
<1>3. QED
  BY <1>1, <1>2

-----------------------------------------------------------------------------
(* What is reached: below[a] of Reach is a recursive function, and there is  *)
(* one, for the least sets closed under next are a solution of its equation. *)

Closed(S, next) == \A a \in S : next[a] \subseteq S
Least(C, next) ==
    {b \in DOMAIN next : \A S \in SUBSET DOMAIN next : C \subseteq S /\ Closed(S, next) => b \in S}

LEMMA LeastUnfolds ==
    ASSUME NEW next, \A a \in DOMAIN next : next[a] \subseteq DOMAIN next,
           NEW a \in DOMAIN next
    PROVE  Least({a}, next) = {a} \cup UNION {Least({b}, next) : b \in next[a]}
<1> DEFINE D == DOMAIN next
           Below == {a} \cup UNION {Least({b}, next) : b \in next[a]}
<1>1. \A b \in D : b \in Least({b}, next) /\ Least({b}, next) \subseteq D
  BY DEF Least
<1>2. \A b \in D : Closed(Least({b}, next), next)
  BY DEF Least, Closed
<1>3. Closed(Below, next)
  BY <1>1, <1>2 DEF Closed
<1>4. Below \subseteq D
  BY <1>1
<1>5. Least({a}, next) \subseteq Below
  BY <1>3, <1>4 DEF Least
<1>6. ASSUME NEW b \in next[a]
      PROVE  Least({b}, next) \subseteq Least({a}, next)
  BY DEF Least, Closed
<1>7. QED
  BY <1>1, <1>5, <1>6

\* A set of numbers has a least one.
LEMMA LeastNumber ==
    ASSUME NEW U \in SUBSET Nat, U # {}
    PROVE  \E m \in U : \A n \in U : m <= n
<1> DEFINE R == OpToRel(<, Nat)
<1>1. IsWellFoundedOn(R, Nat)
  BY NatLessThanWellFounded
<1> HIDE DEF R
<1>2. PICK m \in U : \A n \in U : ~ (<<n, m>> \in R)
  BY <1>1, WFMin
<1>3. \A n \in U : ~ (n < m)
  BY <1>2 DEF R, OpToRel
<1>4. QED
  BY <1>3

\* When every step leads to a higher rank, and ranks end, what Reach computes
\* is the least closed set around C.
LEMMA ReachIsLeast ==
    ASSUME NEW next, \A a \in DOMAIN next : next[a] \subseteq DOMAIN next,
           NEW m \in Nat, NEW rank \in [DOMAIN next -> 0..m],
           \A a \in DOMAIN next : \A b \in next[a] : rank[a] < rank[b],
           NEW C \in SUBSET DOMAIN next
    PROVE  /\ C \subseteq Reach(C, next) /\ Reach(C, next) \subseteq DOMAIN next
           /\ Closed(Reach(C, next), next)
           /\ \A S : C \subseteq S /\ Closed(S \cap DOMAIN next, next) => Reach(C, next) \subseteq S
<1> DEFINE D == DOMAIN next
           Solves(g) == g = [a \in D |-> {a} \cup UNION {g[b] : b \in next[a]}]
           below == CHOOSE g : Solves(g)
           least == [a \in D |-> Least({a}, next)]
<1>1. Reach(C, next) = UNION {below[a] : a \in C}
  BY DEF Reach
<1>2. Solves(least)
  <2>1. \A a \in D : least[a] = {a} \cup UNION {Least({b}, next) : b \in next[a]}
    BY LeastUnfolds
  <2>2. \A a \in D : \A b \in next[a] : least[b] = Least({b}, next)
    OBVIOUS
  <2>3. \A a \in D : {a} \cup UNION {Least({b}, next) : b \in next[a]}
                       = {a} \cup UNION {least[b] : b \in next[a]}
    BY <2>2
  <2> HIDE DEF least
  <2>4. least = [a \in D |-> least[a]]
    BY DEF least
  <2>5. QED
    BY <2>1, <2>3, <2>4
<1>3. Solves(below)
  BY <1>2
<1> HIDE DEF below
<1>4. ASSUME NEW a0 \in D, below[a0] # Least({a0}, next) PROVE FALSE
  <2> DEFINE Bad == {a \in D : below[a] # Least({a}, next)}
             U == {m - rank[a] : a \in Bad}
  <2>1. U \in SUBSET Nat /\ U # {}
    <3>1. \A a \in D : m - rank[a] \in Nat
      OBVIOUS
    <3>2. a0 \in Bad
      BY <1>4
    <3> HIDE DEF Bad
    <3>3. Bad \subseteq D
      BY DEF Bad
    <3>4. QED
      BY <3>1, <3>2, <3>3
  <2>2. PICK u \in U : \A n \in U : u <= n
    BY <2>1, LeastNumber
  <2>3. PICK a \in Bad : u = m - rank[a]
    BY <2>2
  <2>4. ASSUME NEW b \in next[a] PROVE below[b] = Least({b}, next)
    <3>1. b \in D /\ rank[a] < rank[b]
      OBVIOUS
    <3>2. CASE b \in Bad
      <4>1. m - rank[b] \in U
        BY <3>2
      <4>2. m - rank[a] <= m - rank[b]
        BY <4>1, <2>2, <2>3
      <4>3. rank[a] \in Int /\ rank[b] \in Int
        BY <3>1
      <4>4. QED
        BY <4>2, <4>3, <3>1
    <3>3. QED
      BY <3>1, <3>2
  <2>5. below[a] = {a} \cup UNION {below[b] : b \in next[a]}
    BY <1>3
  <2>6. below[a] = {a} \cup UNION {Least({b}, next) : b \in next[a]}
    BY <2>4, <2>5
  <2>7. QED
    BY <2>6, LeastUnfolds
<1>5. Reach(C, next) = UNION {Least({a}, next) : a \in C}
  BY <1>1, <1>4
<1>6. \A a \in D : a \in Least({a}, next) /\ Least({a}, next) \subseteq D
  BY DEF Least
<1>7. \A a \in D : Closed(Least({a}, next), next)
  BY DEF Least, Closed
<1>8. ASSUME NEW S, C \subseteq S, Closed(S \cap D, next)
      PROVE  Reach(C, next) \subseteq S
  <2>1. \A a \in C : Least({a}, next) \subseteq S \cap D
    BY <1>8 DEF Least
  <2>2. QED
    BY <2>1, <1>5
<1>9. Closed(Reach(C, next), next)
  BY <1>5, <1>7 DEF Closed
<1>10. QED
  BY <1>5, <1>6, <1>8, <1>9

-----------------------------------------------------------------------------
(* The inductive invariant, about a heap h, its top t and the objects objs.  *)
(* Every cell has an owner. A reference stays with its owner and leads to a  *)
(* higher address, or comes from a root; no other reference leads there. The *)
(* exceptions are the references the clone of a version has taken over: they *)
(* are those of the version.                                                 *)

Base == References("KameletSpecBase")

\* Names for what is read from h and objs, so that a proof may take them as they are.
Ref(h, a, k, f)  == h[a].elems[k].refs[f]
Of(h, a)         == h[a].of
Extent(h, a)     == DOMAIN h[a].elems
Data(h, a, k)    == h[a].elems[k].data
Root(objs, o)    == objs[o].root
Source(objs, o)  == objs[o].source
Version(objs, o) == objs[o].version

\* Whether h holds a reference in the field f of the element k of the cell a.
Leads(h, a, k, f) ==
    /\ a \in DOMAIN h /\ k \in Extent(h, a)
    /\ f \in References(Of(h, a)) /\ Ref(h, a, k, f) # Nil

RootCells(objs) == {Root(objs, o) : o \in DOMAIN objs}
Clone(objs, p)  == p \in DOMAIN objs /\ Version(objs, p) \in Keys
Borrowed(objs, a, f) == f \in Base /\ \E p \in DOMAIN objs : Clone(objs, p) /\ Root(objs, p) = a

\* The cell of the map of versions of the object that objs[p] was cloned from.
VersionsCell(h, objs, p) == Ref(h, Root(objs, Source(objs, p)), 1, "Versions")

StructShaped(T, s) == DOMAIN s = {"data", "refs"} /\ DOMAIN s.refs = References(T)
CellShaped(c) ==
    /\ DOMAIN c = {"of", "elems"} /\ c.of \in DOMAIN FieldsOf
    /\ \A k \in DOMAIN c.elems : StructShaped(c.of, c.elems[k])
Shaped(h, t) ==
    /\ t \in Nat /\ DOMAIN h \subseteq 1..t
    /\ \A a \in DOMAIN h : CellShaped(h[a])

Asked == Keys \cup {"", "all"}
Rooted(h, objs) ==
    /\ objs \in Seq([root : Nat, source : Nat, version : Asked])
    /\ \A o \in DOMAIN objs :
           Root(objs, o) \in DOMAIN h /\ Extent(h, Root(objs, o)) = {1}

RefsTyped(h, objs) ==
    \A a, k, f : Leads(h, a, k, f) =>
        LET b == Ref(h, a, k, f)
            field == FieldsOf[Of(h, a)][f]
        IN  /\ b \in DOMAIN h /\ b \notin RootCells(objs)
            /\ Of(h, b) = field.of /\ Extent(h, b) \in Extents(field.kind)

ClonesBorrow(h, objs) ==
    \A p : Clone(objs, p) =>
        LET root == Root(objs, p)
            s == Source(objs, p)
            vs == VersionsCell(h, objs, p)
            v == Version(objs, p)
        IN  /\ Of(h, root) = "Kamelet" /\ Ref(h, root, 1, "Versions") = Nil
            /\ s \in DOMAIN objs /\ s < p /\ ~ Clone(objs, s)
            /\ Of(h, Root(objs, s)) = "Kamelet" /\ vs # Nil /\ v \in Extent(h, vs)
            /\ \A f \in Base : Ref(h, root, 1, f) = Ref(h, vs, v, f)

Owned(h, objs, own) ==
    /\ own \in [DOMAIN h -> DOMAIN objs]
    /\ \A o \in DOMAIN objs : own[Root(objs, o)] = o
    /\ \A a, k, f : Leads(h, a, k, f) /\ ~ Borrowed(objs, a, f) =>
        LET b == Ref(h, a, k, f)
        IN  own[b] = own[a] /\ (a \in RootCells(objs) \/ a < b)

OneParent(h, objs) ==
    \A a, k, f, b, l, g :
        /\ Leads(h, a, k, f) /\ ~ Borrowed(objs, a, f)
        /\ Leads(h, b, l, g) /\ ~ Borrowed(objs, b, g)
        /\ Ref(h, a, k, f) = Ref(h, b, l, g)
        => a = b /\ k = l /\ f = g

Sound(h, t, objs, own) ==
    /\ Shaped(h, t) /\ Rooted(h, objs) /\ RefsTyped(h, objs)
    /\ ClonesBorrow(h, objs) /\ Owned(h, objs, own) /\ OneParent(h, objs)

FirstObject == [root |-> 1, source |-> 0, version |-> "all"]

IInv ==
    /\ \E own : Sound(heap, top, objects, own)
    /\ phase = "decoding" => objects = <<FirstObject>>

-----------------------------------------------------------------------------
(* What a sound heap is like.                                                *)

\* Where an object can lead: to cells of its own, and when it is a clone of a
\* version to cells of its source behind the map of the versions.
Region(h, objs, own, o) ==
    {a \in DOMAIN h : own[a] = o}
    \cup {a \in DOMAIN h : /\ Clone(objs, o) /\ a \notin RootCells(objs)
                           /\ own[a] = Source(objs, o) /\ VersionsCell(h, objs, o) < a}

LEMMA Indices ==
    ASSUME NEW h, NEW t, NEW objs, NEW own, Sound(h, t, objs, own)
    PROVE  DOMAIN h \subseteq 1..t /\ t \in Nat /\ DOMAIN objs = 1..Len(objs) /\ Len(objs) \in Nat
<1>1. PICK S : objs \in Seq(S)
  BY DEF Sound, Rooted
<1>2. DOMAIN objs = 1..Len(objs) /\ Len(objs) \in Nat
  BY <1>1
<1>3. QED
  BY <1>2 DEF Sound, Shaped

\* A clone of a version leads back to the map of the versions of its source.
LEMMA LenderCell ==
    ASSUME NEW h, NEW t, NEW objs, NEW own, Sound(h, t, objs, own),
           NEW p, Clone(objs, p)
    PROVE  LET s == Source(objs, p)
               vs == VersionsCell(h, objs, p)
           IN  /\ s \in DOMAIN objs /\ s < p /\ ~ Clone(objs, s)
               /\ vs \in DOMAIN h /\ vs \notin RootCells(objs) /\ own[vs] = s
               /\ Of(h, vs) = "KameletSpecBase" /\ Version(objs, p) \in Extent(h, vs)
<1>. PICK s, v, vs : s = Source(objs, p) /\ v = Version(objs, p) /\ vs = VersionsCell(h, objs, p)
  OBVIOUS
<1>1. /\ s \in DOMAIN objs /\ s < p /\ ~ Clone(objs, s)
      /\ Of(h, Root(objs, s)) = "Kamelet" /\ vs # Nil /\ v \in Extent(h, vs)
  BY DEF Sound, ClonesBorrow
<1>2. Leads(h, Root(objs, s), 1, "Versions") /\ vs = Ref(h, Root(objs, s), 1, "Versions")
  BY <1>1, BaseTables DEF Sound, Rooted, Leads, VersionsCell
<1>3. ~ Borrowed(objs, Root(objs, s), "Versions")
  BY BaseTables DEF Borrowed, Base
<1>4. RefsTyped(h, objs) /\ Owned(h, objs, own)
  BY DEF Sound
<1>5. /\ vs \in DOMAIN h /\ vs \notin RootCells(objs)
      /\ Of(h, vs) = FieldsOf[Of(h, Root(objs, s))]["Versions"].of
  BY <1>2, <1>4 DEF RefsTyped
<1>6. own[vs] = own[Root(objs, s)] /\ own[Root(objs, s)] = s
  BY <1>1, <1>2, <1>3, <1>4 DEF Owned
<1>7. QED
  BY <1>1, <1>5, <1>6, BaseTables DEF Map

\* The references a clone borrowed are those of an element of that map.
LEMMA Lender ==
    ASSUME NEW h, NEW t, NEW objs, NEW own, Sound(h, t, objs, own),
           NEW p, Clone(objs, p), NEW f \in Base, Ref(h, Root(objs, p), 1, f) # Nil
    PROVE  LET vs == VersionsCell(h, objs, p)
               v == Version(objs, p)
               b == Ref(h, Root(objs, p), 1, f)
           IN  /\ Leads(h, vs, v, f) /\ ~ Borrowed(objs, vs, f)
               /\ Ref(h, vs, v, f) = b
               /\ own[b] = Source(objs, p) /\ vs < b
<1>. PICK s, v, vs : s = Source(objs, p) /\ v = Version(objs, p) /\ vs = VersionsCell(h, objs, p)
  OBVIOUS
<1> DEFINE b == Ref(h, Root(objs, p), 1, f)
<1>1. /\ vs \in DOMAIN h /\ vs \notin RootCells(objs) /\ own[vs] = s
      /\ Of(h, vs) = "KameletSpecBase" /\ v \in Extent(h, vs)
  BY LenderCell
<1>2. Ref(h, vs, v, f) = b
  BY DEF Sound, ClonesBorrow
<1>3. Leads(h, vs, v, f)
  BY <1>1, <1>2 DEF Leads, Base
<1>4. ~ Borrowed(objs, vs, f)
  BY <1>1 DEF Borrowed, RootCells, Clone
<1>5. Owned(h, objs, own)
  BY DEF Sound
<1>6. own[b] = s /\ vs < b
  BY <1>1, <1>2, <1>3, <1>4, <1>5 DEF Owned
<1>7. QED
  BY <1>2, <1>3, <1>4, <1>6

\* A region is closed under the references, and holds no root but the object's own.
LEMMA RegionClosed ==
    ASSUME NEW h, NEW t, NEW objs, NEW own, Sound(h, t, objs, own), NEW o \in DOMAIN objs
    PROVE  /\ Root(objs, o) \in Region(h, objs, own, o)
           /\ \A a \in Region(h, objs, own, o) : a \in RootCells(objs) => a = Root(objs, o)
           /\ \A a \in Region(h, objs, own, o) : \A k, f : Leads(h, a, k, f) =>
                  Ref(h, a, k, f) \in Region(h, objs, own, o)
<1> DEFINE R == Region(h, objs, own, o)
<1>1. Root(objs, o) \in R
  BY DEF Sound, Rooted, Owned, Region
<1>2. ASSUME NEW a \in R, a \in RootCells(objs) PROVE a = Root(objs, o)
  BY <1>2 DEF Sound, Owned, Region, RootCells
<1>3. ASSUME NEW a \in R, NEW k, NEW f, Leads(h, a, k, f)
      PROVE  Ref(h, a, k, f) \in R
  <2> DEFINE b == Ref(h, a, k, f)
  <2>1. b \in DOMAIN h /\ b \notin RootCells(objs)
    BY <1>3 DEF Sound, RefsTyped
  <2>2. CASE Borrowed(objs, a, f)
    <3>1. f \in Base /\ a = Root(objs, o) /\ Clone(objs, o)
      BY <1>2, <2>2 DEF Borrowed, RootCells, Clone, Sound, Owned
    <3>2. k = 1
      <4>1. Extent(h, Root(objs, o)) = {1}
        BY DEF Sound, Rooted
      <4>2. k \in Extent(h, Root(objs, o))
        BY <1>3, <3>1 DEF Leads
      <4>3. QED
        BY <4>1, <4>2
    <3>3. own[b] = Source(objs, o) /\ VersionsCell(h, objs, o) < b
      <4>1. b # Nil /\ b = Ref(h, Root(objs, o), 1, f)
        BY <1>3, <3>1, <3>2 DEF Leads
      <4>2. QED
        BY <3>1, <4>1, Lender DEF Leads
    <3>4. QED
      BY <2>1, <3>1, <3>3 DEF Region
  <2>3. CASE ~ Borrowed(objs, a, f)
    <3>1. own[b] = own[a] /\ (a \in RootCells(objs) \/ a < b)
      BY <1>3, <2>3 DEF Sound, Owned
    <3>2. CASE own[a] = o
      BY <2>1, <3>1, <3>2 DEF Region
    <3>3. CASE own[a] # o
      <4>1. /\ Clone(objs, o) /\ a \notin RootCells(objs)
            /\ own[a] = Source(objs, o) /\ VersionsCell(h, objs, o) < a
        BY <3>3 DEF Region
      <4>2. VersionsCell(h, objs, o) \in Nat /\ a \in Nat /\ b \in Nat
        <5>1. VersionsCell(h, objs, o) \in DOMAIN h
          BY <4>1, LenderCell
        <5>2. QED
          BY <5>1, <2>1 DEF Sound, Shaped, Region
      <4>3. QED
        BY <2>1, <3>1, <4>1, <4>2 DEF Region
    <3>4. QED
      BY <3>2, <3>3
  <2>4. QED
    BY <2>2, <2>3
<1>4. QED
  BY <1>1, <1>2, <1>3

\* Inside a region no two references meet: only those of a clone and of its
\* version do, and the map of the versions is not in the region of the clone.
LEMMA RegionIsTree ==
    ASSUME NEW h, NEW t, NEW objs, NEW own, Sound(h, t, objs, own), NEW o \in DOMAIN objs,
           NEW a \in Region(h, objs, own, o), NEW k, NEW f, Leads(h, a, k, f),
           NEW b \in Region(h, objs, own, o), NEW l, NEW g, Leads(h, b, l, g),
           Ref(h, a, k, f) = Ref(h, b, l, g)
    PROVE  a = b /\ k = l /\ f = g
<1>1. ASSUME NEW c \in Region(h, objs, own, o), NEW m, NEW e,
             Leads(h, c, m, e), Borrowed(objs, c, e)
      PROVE  /\ c = Root(objs, o) /\ m = 1 /\ Clone(objs, o)
             /\ Leads(h, VersionsCell(h, objs, o), Version(objs, o), e)
             /\ ~ Borrowed(objs, VersionsCell(h, objs, o), e)
             /\ Ref(h, VersionsCell(h, objs, o), Version(objs, o), e) = Ref(h, c, m, e)
             /\ VersionsCell(h, objs, o) \notin Region(h, objs, own, o)
  <2>1. c = Root(objs, o) /\ Clone(objs, o) /\ e \in Base
    BY <1>1, RegionClosed DEF Borrowed, RootCells, Clone, Sound, Owned
  <2>2. m = 1
    <3>1. Extent(h, Root(objs, o)) = {1}
      BY DEF Sound, Rooted
    <3>2. QED
      BY <1>1, <2>1, <3>1 DEF Leads
  <2>3. Ref(h, Root(objs, o), 1, e) # Nil
    BY <1>1, <2>1, <2>2 DEF Leads
  <2>4. /\ Leads(h, VersionsCell(h, objs, o), Version(objs, o), e)
        /\ ~ Borrowed(objs, VersionsCell(h, objs, o), e)
        /\ Ref(h, VersionsCell(h, objs, o), Version(objs, o), e) = Ref(h, Root(objs, o), 1, e)
    BY <2>1, <2>3, Lender
  <2>5. /\ VersionsCell(h, objs, o) \in DOMAIN h
        /\ own[VersionsCell(h, objs, o)] = Source(objs, o) /\ Source(objs, o) < o
    BY <2>1, LenderCell
  <2>6. DOMAIN h \subseteq Nat
    BY DEF Sound, Shaped
  <2>7. VersionsCell(h, objs, o) \notin Region(h, objs, own, o)
    <3>1. Source(objs, o) # o
      <4>1. o \in Nat
        BY Indices
      <4>2. QED
        BY <2>5, <4>1
    <3>2. QED
      BY <2>5, <2>6, <3>1 DEF Region
  <2>8. QED
    BY <2>1, <2>2, <2>4, <2>7
<1>2. OneParent(h, objs)
  BY DEF Sound
<1>3. CASE Borrowed(objs, a, f) /\ Borrowed(objs, b, g)
  <2>1. f = g
    BY <1>1, <1>2, <1>3 DEF OneParent
  <2>2. QED
    BY <1>1, <1>3, <2>1
<1>4. CASE Borrowed(objs, a, f) /\ ~ Borrowed(objs, b, g)
  <2>1. b = VersionsCell(h, objs, o)
    BY <1>1, <1>2, <1>4 DEF OneParent
  <2>2. QED
    BY <1>1, <1>4, <2>1
<1>5. CASE ~ Borrowed(objs, a, f) /\ Borrowed(objs, b, g)
  <2>1. a = VersionsCell(h, objs, o)
    BY <1>1, <1>2, <1>5 DEF OneParent
  <2>2. QED
    BY <1>1, <1>5, <2>1
<1>6. CASE ~ Borrowed(objs, a, f) /\ ~ Borrowed(objs, b, g)
  BY <1>2, <1>6 DEF OneParent
<1>7. QED
  BY <1>3, <1>4, <1>5, <1>6

-----------------------------------------------------------------------------
(* What the objects of a sound heap reach.                                   *)

LEMMA BehindLeads ==
    ASSUME NEW a, NEW fields, NEW b
    PROVE  b \in Behind(a, fields)
             <=> \E k \in Extent(heap, a), f \in fields : b = Ref(heap, a, k, f) /\ b # Nil
BY DEF Behind, Extent, Ref

LEMMA AlongReferences ==
    /\ DOMAIN Along(References) = DOMAIN heap
    /\ \A a \in DOMAIN heap : Along(References)[a] = Behind(a, References(Of(heap, a)))
BY DEF Along, Of

LEMMA AlongDeep ==
    /\ DOMAIN Along(Deep) = DOMAIN heap
    /\ \A a \in DOMAIN heap : Along(Deep)[a] = Behind(a, Deep(Of(heap, a)))
    /\ \A a \in DOMAIN heap : Behind(a, Deep(Of(heap, a))) \subseteq Behind(a, References(Of(heap, a)))
<1>1. /\ DOMAIN Along(Deep) = DOMAIN heap
      /\ \A a \in DOMAIN heap : Along(Deep)[a] = Behind(a, Deep(Of(heap, a)))
  BY DEF Along, Of
<1>2. \A T : Deep(T) \subseteq References(T)
  BY DEF Deep, How
<1>3. \A a : Behind(a, Deep(Of(heap, a))) \subseteq Behind(a, References(Of(heap, a)))
  BY <1>2, BehindLeads
<1>4. QED
  BY <1>1, <1>3

\* Steps from a cell to another, along all references or fewer, end: they lead
\* to higher addresses, but for those from a root, where none leads.
LEMMA ReachInHeap ==
    ASSUME NEW own, Sound(heap, top, objects, own),
           NEW next, DOMAIN next = DOMAIN heap,
           \A a \in DOMAIN heap : next[a] \subseteq Behind(a, References(Of(heap, a))),
           NEW C \in SUBSET DOMAIN heap
    PROVE  /\ C \subseteq Reach(C, next) /\ Reach(C, next) \subseteq DOMAIN heap
           /\ Closed(Reach(C, next), next)
           /\ \A S : C \subseteq S /\ Closed(S \cap DOMAIN heap, next) => Reach(C, next) \subseteq S
<1> DEFINE rank == [a \in DOMAIN heap |-> IF a \in RootCells(objects) THEN 0 ELSE a]
<1>1. ASSUME NEW a \in DOMAIN heap, NEW b \in next[a]
      PROVE  b \in DOMAIN heap /\ rank[a] < rank[b]
  <2>1. PICK k, f : Leads(heap, a, k, f) /\ b = Ref(heap, a, k, f)
    BY BehindLeads DEF Leads
  <2>2. b \in DOMAIN heap /\ b \notin RootCells(objects) /\ a \in 1..top /\ b \in 1..top /\ top \in Nat
    BY <2>1, Indices DEF Sound, RefsTyped
  <2>3. a \in RootCells(objects) \/ a < b
    <3>1. CASE Borrowed(objects, a, f)
      BY <3>1 DEF Borrowed, RootCells, Clone
    <3>2. CASE ~ Borrowed(objects, a, f)
      BY <2>1, <3>2 DEF Sound, Owned
    <3>3. QED
      BY <3>1, <3>2
  <2>4. QED
    BY <2>2, <2>3
<1>2. rank \in [DOMAIN heap -> 0..top] /\ top \in Nat
  BY Indices
<1> HIDE DEF rank
<1>3. QED
  BY <1>1, <1>2, ReachIsLeast

\* An object reaches its region at most, and what it reaches it reaches whole.
LEMMA HoldsInRegion ==
    ASSUME NEW own, Sound(heap, top, objects, own), NEW o \in DOMAIN objects
    PROVE  /\ Root(objects, o) \in Holds(o)
           /\ Holds(o) \subseteq Region(heap, objects, own, o)
           /\ Holds(o) \subseteq DOMAIN heap
           /\ \A a \in Holds(o) : \A k, f : Leads(heap, a, k, f) => Ref(heap, a, k, f) \in Holds(o)
<1> DEFINE root == Root(objects, o)
           R == Region(heap, objects, own, o)
<1>1. root \in DOMAIN heap
  BY DEF Sound, Rooted
<1>2. Holds(o) = Reach({root}, Along(References))
  BY DEF Holds, Reachable, Root
<1>3. /\ root \in Holds(o) /\ Holds(o) \subseteq DOMAIN heap
      /\ Closed(Holds(o), Along(References))
      /\ root \in R /\ Closed(R \cap DOMAIN heap, Along(References)) => Holds(o) \subseteq R
  <2>1. PICK next : next = Along(References)
    OBVIOUS
  <2>2. /\ DOMAIN next = DOMAIN heap
        /\ \A a \in DOMAIN heap : next[a] \subseteq Behind(a, References(Of(heap, a)))
    BY <2>1, AlongReferences
  <2>3. {root} \in SUBSET DOMAIN heap
    BY <1>1
  <2> HIDE DEF root, R
  <2>4. /\ {root} \subseteq Reach({root}, next) /\ Reach({root}, next) \subseteq DOMAIN heap
        /\ Closed(Reach({root}, next), next)
        /\ {root} \subseteq R /\ Closed(R \cap DOMAIN heap, next) => Reach({root}, next) \subseteq R
    BY <2>2, <2>3, ReachInHeap
  <2>5. QED
    BY <1>2, <2>1, <2>4
<1>4. R \subseteq DOMAIN heap /\ R \cap DOMAIN heap = R
  BY DEF Region
<1>5. Closed(R, Along(References))
  <2>1. ASSUME NEW a \in R, NEW b \in Behind(a, References(Of(heap, a))) PROVE b \in R
    <3>1. PICK k, f : Leads(heap, a, k, f) /\ b = Ref(heap, a, k, f)
      BY <1>4, BehindLeads DEF Leads
    <3>2. QED
      BY <3>1, RegionClosed
  <2>2. QED
    BY <2>1, <1>4, AlongReferences DEF Closed
<1>6. root \in R
  BY RegionClosed
<1>7. ASSUME NEW a \in Holds(o), NEW k, NEW f, Leads(heap, a, k, f)
      PROVE  Ref(heap, a, k, f) \in Holds(o)
  <2>1. a \in DOMAIN heap
    BY <1>3
  <2>2. Ref(heap, a, k, f) \in Along(References)[a]
    <3>1. Ref(heap, a, k, f) \in Behind(a, References(Of(heap, a)))
      BY <1>7, BehindLeads DEF Leads
    <3>2. QED
      BY <2>1, <3>1, AlongReferences
  <2>3. QED
    BY <2>2, <1>3 DEF Closed
<1>8. QED
  BY <1>3, <1>4, <1>5, <1>6, <1>7

-----------------------------------------------------------------------------
(* The invariants the runs check, from a sound heap.                         *)

LEMMA SoundIsTyped ==
    ASSUME NEW own, Sound(heap, top, objects, own)
    PROVE  TypeOK
<1>1. DOMAIN heap \subseteq 1..top
  BY Indices
<1>2. ASSUME NEW o \in DOMAIN objects
      PROVE  /\ Holds(o) \subseteq DOMAIN heap
             /\ \A e \in Edges(Holds(o)) :
                 /\ heap[Target(e)].of = Declared(e).of
                 /\ DOMAIN heap[Target(e)].elems \in Extents(Declared(e).kind)
             /\ \A e, d \in Edges(Holds(o)) : Target(e) = Target(d) => e = d
  <2>1. Holds(o) \subseteq DOMAIN heap /\ Holds(o) \subseteq Region(heap, objects, own, o)
    BY HoldsInRegion
  <2>2. ASSUME NEW e \in Edges(Holds(o))
        PROVE  /\ e = <<e[1], e[2], e[3]>> /\ e[1] \in Holds(o) /\ Leads(heap, e[1], e[2], e[3])
               /\ Target(e) = Ref(heap, e[1], e[2], e[3])
               /\ Declared(e) = FieldsOf[Of(heap, e[1])][e[3]]
    <3>1. /\ Target(e) = Ref(heap, e[1], e[2], e[3])
          /\ Declared(e) = FieldsOf[Of(heap, e[1])][e[3]]
      BY DEF Target, Declared, Ref, Of
    <3>2. PICK a \in Holds(o) : \E k \in Extent(heap, a), f \in References(Of(heap, a)) :
              e = <<a, k, f>> /\ Target(e) # Nil
      BY DEF Edges, Extent, Of
    <3>3. QED
      BY <2>1, <3>1, <3>2 DEF Leads
  <2>3. ASSUME NEW e \in Edges(Holds(o))
        PROVE  /\ heap[Target(e)].of = Declared(e).of
               /\ DOMAIN heap[Target(e)].elems \in Extents(Declared(e).kind)
    <3>1. /\ Of(heap, Target(e)) = Declared(e).of
          /\ Extent(heap, Target(e)) \in Extents(Declared(e).kind)
      BY <2>2 DEF Sound, RefsTyped
    <3>2. QED
      BY <3>1 DEF Of, Extent
  <2>4. ASSUME NEW e \in Edges(Holds(o)), NEW d \in Edges(Holds(o)), Target(e) = Target(d)
        PROVE  e = d
    <3>1. e[1] = d[1] /\ e[2] = d[2] /\ e[3] = d[3]
      BY <2>1, <2>2, <2>4, RegionIsTree
    <3>2. QED
      BY <2>2, <3>1
  <2>5. QED
    BY <2>1, <2>3, <2>4
<1>3. QED
  BY <1>1, <1>2 DEF TypeOK

\* The cells of the version that a clone was made from: they belong to its
\* source, behind the map of the versions, and each has a parent among them or
\* in the version itself.
LEMMA VersionCellsAre ==
    ASSUME NEW own, Sound(heap, top, objects, own), NEW p, Clone(objects, p),
           NEW vs, vs = VersionsCell(heap, objects, p), NEW v, v = Version(objects, p),
           NEW cells, cells = VersionCells(Source(objects, p), v)
    PROVE  /\ \A b \in cells : /\ b \in DOMAIN heap /\ b \notin RootCells(objects)
                               /\ own[b] = Source(objects, p) /\ vs < b
           /\ \A a \in cells : \A k, f : Leads(heap, a, k, f) => Ref(heap, a, k, f) \in cells
           /\ \A f \in Base : Ref(heap, vs, v, f) # Nil => Ref(heap, vs, v, f) \in cells
           /\ \A b \in cells : \E a, k, f :
                  Leads(heap, a, k, f) /\ b = Ref(heap, a, k, f) /\ ((a = vs /\ k = v) \/ a \in cells)
<1> DEFINE C == {Ref(heap, vs, v, f) : f \in Base} \ {Nil}
           Upper == {b \in DOMAIN heap : /\ b \notin RootCells(objects)
                                         /\ own[b] = Source(objects, p) /\ vs < b}
<1>1. /\ vs \in DOMAIN heap /\ vs \notin RootCells(objects) /\ own[vs] = Source(objects, p)
      /\ Of(heap, vs) = "KameletSpecBase" /\ v \in Extent(heap, vs)
  BY LenderCell
<1>2. cells = Reachable(C)
  <2>1. PICK base : base = heap[vs].elems[v].refs
    OBVIOUS
  <2>2. DOMAIN base = Base
    <3>1. CellShaped(heap[vs])
      BY <1>1 DEF Sound, Shaped
    <3>2. QED
      BY <1>1, <2>1, <3>1 DEF CellShaped, StructShaped, Base, Of, Extent
  <2>3. \A f : base[f] = Ref(heap, vs, v, f)
    BY <2>1 DEF Ref
  <2>4. cells = Reachable({base[f] : f \in DOMAIN base} \ {Nil})
    BY <2>1 DEF VersionCells, VersionsCell, Ref, Root
  <2>5. {base[f] : f \in DOMAIN base} = {Ref(heap, vs, v, f) : f \in Base}
    BY <2>2, <2>3
  <2>6. QED
    BY <2>4, <2>5
<1>3. ASSUME NEW a \in DOMAIN heap, a \notin RootCells(objects), own[a] = Source(objects, p),
             vs < a \/ a = vs, NEW k, NEW f, Leads(heap, a, k, f)
      PROVE  Ref(heap, a, k, f) \in Upper
  <2>1. ~ Borrowed(objects, a, f)
    BY <1>3 DEF Borrowed, RootCells, Clone
  <2>2. own[Ref(heap, a, k, f)] = own[a] /\ a < Ref(heap, a, k, f)
    BY <1>3, <2>1 DEF Sound, Owned
  <2>3. Ref(heap, a, k, f) \in DOMAIN heap /\ Ref(heap, a, k, f) \notin RootCells(objects)
    BY <1>3 DEF Sound, RefsTyped
  <2>4. DOMAIN heap \subseteq Nat
    BY Indices
  <2>5. QED
    BY <1>1, <1>3, <2>2, <2>3, <2>4
<1>4. ASSUME NEW f \in Base, Ref(heap, vs, v, f) # Nil
      PROVE  Leads(heap, vs, v, f) /\ Ref(heap, vs, v, f) \in Upper
  <2>1. Leads(heap, vs, v, f)
    BY <1>1, <1>4 DEF Leads, Base
  <2>2. QED
    BY <1>1, <1>3, <2>1
<1>5. C \subseteq Upper
  BY <1>4
<1> HIDE DEF Upper
<1>6. Upper \subseteq DOMAIN heap /\ Upper \cap DOMAIN heap = Upper
  BY DEF Upper
<1>7. PICK next : next = Along(References)
  OBVIOUS
<1>8. /\ DOMAIN next = DOMAIN heap
      /\ \A a \in DOMAIN heap : next[a] = Behind(a, References(Of(heap, a)))
  BY <1>7, AlongReferences
<1>9. ASSUME NEW a \in DOMAIN heap, NEW b
      PROVE  b \in next[a] <=> \E k, f : Leads(heap, a, k, f) /\ b = Ref(heap, a, k, f)
  BY <1>8, BehindLeads DEF Leads
<1>10. C \in SUBSET DOMAIN heap
  BY <1>5, <1>6
<1>11. cells = Reach(C, next)
  BY <1>2, <1>7 DEF Reachable
<1>12. /\ C \subseteq cells /\ cells \subseteq DOMAIN heap /\ Closed(cells, next)
       /\ \A S : C \subseteq S /\ Closed(S \cap DOMAIN heap, next) => cells \subseteq S
  <2> HIDE DEF C
  <2>1. QED
    BY <1>8, <1>10, <1>11, ReachInHeap
<1>13. Closed(Upper, next)
  BY <1>3, <1>6, <1>9 DEF Closed, Upper
<1>14. cells \subseteq Upper
  BY <1>5, <1>6, <1>12, <1>13
<1>15. ASSUME NEW a \in cells, NEW k, NEW f, Leads(heap, a, k, f)
       PROVE  Ref(heap, a, k, f) \in cells
  BY <1>9, <1>12, <1>15 DEF Closed
<1>16. ASSUME NEW b \in cells,
              \A a, k, f : Leads(heap, a, k, f) /\ b = Ref(heap, a, k, f)
                             => ~ (a = vs /\ k = v) /\ a \notin cells
       PROVE  FALSE
  <2>1. C \subseteq cells \ {b}
    BY <1>4, <1>12, <1>16
  <2>2. Closed((cells \ {b}) \cap DOMAIN heap, next)
    BY <1>9, <1>12, <1>16 DEF Closed
  <2>3. QED
    BY <1>12, <2>1, <2>2
<1>17. QED
  BY <1>4, <1>12, <1>14, <1>15, <1>16 DEF Upper

\* Two versions of an object share nothing: of the cells below both, the one
\* with the lowest address would have one parent, and that below both.
LEMMA VersionsApart ==
    ASSUME NEW own, Sound(heap, top, objects, own),
           NEW o, Clone(objects, o), NEW p, Clone(objects, p),
           Source(objects, o) = Source(objects, p),
           NEW c \in VersionCells(Source(objects, o), Version(objects, o)),
           c \in VersionCells(Source(objects, p), Version(objects, p))
    PROVE  Version(objects, o) = Version(objects, p)
<1>1. PICK vs, v, w, V, W :
          /\ vs = VersionsCell(heap, objects, o) /\ vs = VersionsCell(heap, objects, p)
          /\ v = Version(objects, o) /\ w = Version(objects, p)
          /\ V = VersionCells(Source(objects, o), v) /\ W = VersionCells(Source(objects, p), w)
  BY DEF VersionsCell
<1>2. /\ \A b \in V : b \in DOMAIN heap /\ b \notin RootCells(objects) /\ vs < b
      /\ \A b \in V : \E a, k, f :
             Leads(heap, a, k, f) /\ b = Ref(heap, a, k, f) /\ ((a = vs /\ k = v) \/ a \in V)
  <2>1. /\ vs = VersionsCell(heap, objects, o) /\ v = Version(objects, o)
        /\ V = VersionCells(Source(objects, o), v)
    BY <1>1
  <2>2. \A b \in V : b \in DOMAIN heap /\ b \notin RootCells(objects) /\ vs < b
    BY <2>1, VersionCellsAre
  <2>3. \A b \in V : \E a, k, f :
            Leads(heap, a, k, f) /\ b = Ref(heap, a, k, f) /\ ((a = vs /\ k = v) \/ a \in V)
    BY <2>1, VersionCellsAre
  <2>4. QED
    BY <2>2, <2>3
<1>3. /\ \A b \in W : b \in DOMAIN heap /\ b \notin RootCells(objects) /\ vs < b
      /\ \A b \in W : \E a, k, f :
             Leads(heap, a, k, f) /\ b = Ref(heap, a, k, f) /\ ((a = vs /\ k = w) \/ a \in W)
  <2>1. /\ vs = VersionsCell(heap, objects, p) /\ w = Version(objects, p)
        /\ W = VersionCells(Source(objects, p), w)
    BY <1>1
  <2>2. \A b \in W : b \in DOMAIN heap /\ b \notin RootCells(objects) /\ vs < b
    BY <2>1, VersionCellsAre
  <2>3. \A b \in W : \E a, k, f :
            Leads(heap, a, k, f) /\ b = Ref(heap, a, k, f) /\ ((a = vs /\ k = w) \/ a \in W)
    BY <2>1, VersionCellsAre
  <2>4. QED
    BY <2>2, <2>3
<1>4. vs \in DOMAIN heap /\ vs \notin RootCells(objects)
  BY <1>1, LenderCell
<1>5. DOMAIN heap \subseteq Nat
  BY Indices
<1>6. V \cap W \in SUBSET Nat /\ V \cap W # {}
  BY <1>1, <1>2, <1>5
<1>7. PICK b \in V \cap W : \A d \in V \cap W : b <= d
  BY <1>6, LeastNumber
<1>8. PICK a, k, f : Leads(heap, a, k, f) /\ b = Ref(heap, a, k, f) /\ ((a = vs /\ k = v) \/ a \in V)
  BY <1>2, <1>7
<1>9. PICK d, l, g : Leads(heap, d, l, g) /\ b = Ref(heap, d, l, g) /\ ((d = vs /\ l = w) \/ d \in W)
  BY <1>3, <1>7
<1>10. ~ Borrowed(objects, a, f) /\ ~ Borrowed(objects, d, g)
  BY <1>2, <1>3, <1>4, <1>8, <1>9 DEF Borrowed, RootCells, Clone
<1>11. a = d /\ k = l
  BY <1>8, <1>9, <1>10 DEF Sound, OneParent
<1>12. a = vs
  <2>1. CASE a # vs
    <3>1. a \in V \cap W
      BY <1>8, <1>9, <1>11, <2>1
    <3>2. a < b
      <4>1. a \notin RootCells(objects)
        BY <1>2, <3>1
      <4>2. QED
        BY <1>8, <1>10, <4>1 DEF Sound, Owned
    <3>3. b <= a /\ a \in Nat /\ b \in Nat
      BY <1>6, <1>7, <3>1
    <3>4. QED
      BY <3>2, <3>3
  <2>2. QED
    BY <2>1
<1>13. vs \notin V /\ vs \notin W
  BY <1>2, <1>3, <1>4, <1>5
<1>14. QED
  BY <1>1, <1>8, <1>9, <1>11, <1>12, <1>13

\* What an object leads to is its own, or it is a clone of a version and this
\* belongs to the version.
LEMMA HoldsOwnOrVersion ==
    ASSUME NEW own, Sound(heap, top, objects, own), NEW p \in DOMAIN objects,
           NEW c \in Holds(p)
    PROVE  \/ own[c] = p
           \/ /\ Clone(objects, p) /\ own[c] = Source(objects, p)
              /\ c \in VersionCells(Source(objects, p), Version(objects, p))
<1>1. c \in Region(heap, objects, own, p)
  BY HoldsInRegion
<1>2. CASE ~ Clone(objects, p)
  BY <1>1, <1>2 DEF Region
<1>3. CASE Clone(objects, p)
  <2>1. PICK vs, v, V : /\ vs = VersionsCell(heap, objects, p) /\ v = Version(objects, p)
                        /\ V = VersionCells(Source(objects, p), v)
    OBVIOUS
  <2>2. /\ \A b \in V : own[b] = Source(objects, p) /\ b \notin RootCells(objects)
        /\ \A a \in V : \A k, f : Leads(heap, a, k, f) => Ref(heap, a, k, f) \in V
        /\ \A f \in Base : Ref(heap, vs, v, f) # Nil => Ref(heap, vs, v, f) \in V
    BY <1>3, <2>1, VersionCellsAre
  <2> DEFINE S == {a \in DOMAIN heap : own[a] = p} \cup V
  <2>3. ASSUME NEW a \in S, a \in DOMAIN heap, NEW k, NEW f, Leads(heap, a, k, f)
        PROVE  Ref(heap, a, k, f) \in S
    <3>1. CASE a \in V
      BY <2>2, <2>3, <3>1
    <3>2. CASE own[a] = p /\ Borrowed(objects, a, f)
      <4>1. a = Root(objects, p) /\ f \in Base
        BY <3>2 DEF Borrowed, Clone, Sound, Owned
      <4>2. k = 1
        <5>1. Extent(heap, Root(objects, p)) = {1}
          BY DEF Sound, Rooted
        <5>2. QED
          BY <2>3, <4>1, <5>1 DEF Leads
      <4>3. Ref(heap, Root(objects, p), 1, f) # Nil
        BY <2>3, <4>1, <4>2 DEF Leads
      <4>4. Ref(heap, vs, v, f) = Ref(heap, a, k, f)
        BY <1>3, <2>1, <4>1, <4>2, <4>3, Lender
      <4>5. QED
        BY <2>2, <4>1, <4>2, <4>3, <4>4
    <3>3. CASE own[a] = p /\ ~ Borrowed(objects, a, f)
      BY <2>3, <3>3 DEF Sound, Owned, RefsTyped
    <3>4. QED
      BY <2>3, <3>1, <3>2, <3>3
  <2> HIDE DEF S
  <2>4. PICK next : next = Along(References)
    OBVIOUS
  <2>5. /\ DOMAIN next = DOMAIN heap
        /\ \A a \in DOMAIN heap : next[a] = Behind(a, References(Of(heap, a)))
    BY <2>4, AlongReferences
  <2>6. Closed(S \cap DOMAIN heap, next)
    <3>1. ASSUME NEW a \in S \cap DOMAIN heap, NEW b \in next[a] PROVE b \in S \cap DOMAIN heap
      <4>1. PICK k, f : Leads(heap, a, k, f) /\ b = Ref(heap, a, k, f)
        BY <2>5, BehindLeads DEF Leads
      <4>2. QED
        BY <2>3, <4>1 DEF Sound, RefsTyped
    <3>2. QED
      BY <3>1 DEF Closed
  <2>7. Root(objects, p) \in S /\ Root(objects, p) \in DOMAIN heap
    BY DEF S, Sound, Rooted, Owned
  <2>8. Reach({Root(objects, p)}, next) \subseteq S
    <3>1. {Root(objects, p)} \in SUBSET DOMAIN heap
      BY <2>7
    <3>2. QED
      BY <2>5, <2>6, <2>7, <3>1, ReachInHeap
  <2>9. c \in S
    BY <2>4, <2>8 DEF Holds, Reachable, Root
  <2>10. QED
    BY <1>3, <2>1, <2>2, <2>9 DEF S
<1>4. QED
  BY <1>2, <1>3

LEMMA SoundAliases ==
    ASSUME NEW own, Sound(heap, top, objects, own)
    PROVE  AliasOnlyByVersion
<1> SUFFICES ASSUME NEW o \in DOMAIN objects, NEW p \in DOMAIN objects, o < p,
                    Holds(o) \cap Holds(p) # {}
             PROVE  /\ Clone(objects, p)
                    /\ \/ Source(objects, p) = o
                       \/ /\ Clone(objects, o) /\ Source(objects, o) = Source(objects, p)
                          /\ Version(objects, o) = Version(objects, p)
                    /\ Holds(o) \cap Holds(p) \subseteq
                           VersionCells(Source(objects, p), Version(objects, p))
  BY DEF AliasOnlyByVersion, Clone, Source, Version
<1>1. o \in Nat /\ p \in Nat
  BY Indices
<1>2. ASSUME NEW c \in Holds(o) \cap Holds(p)
      PROVE  /\ Clone(objects, p) /\ own[c] = Source(objects, p)
             /\ c \in VersionCells(Source(objects, p), Version(objects, p))
  <2>1. own[c] # p
    <3>1. CASE own[c] = o
      BY <1>1, <3>1
    <3>2. CASE own[c] # o
      <4>1. Clone(objects, o) /\ own[c] = Source(objects, o)
        BY <3>2, HoldsOwnOrVersion
      <4>2. Source(objects, o) \in Nat /\ Source(objects, o) < o
        BY <4>1, LenderCell, Indices
      <4>3. QED
        BY <1>1, <4>1, <4>2
    <3>3. QED
      BY <3>1, <3>2
  <2>2. QED
    BY <2>1, HoldsOwnOrVersion
<1>3. PICK c : c \in Holds(o) \cap Holds(p)
  OBVIOUS
<1>4. CASE own[c] = o
  BY <1>2, <1>3, <1>4
<1>5. CASE own[c] # o
  <2>1. /\ Clone(objects, o) /\ own[c] = Source(objects, o)
        /\ c \in VersionCells(Source(objects, o), Version(objects, o))
    BY <1>3, <1>5, HoldsOwnOrVersion
  <2>2. /\ Clone(objects, p) /\ own[c] = Source(objects, p)
        /\ c \in VersionCells(Source(objects, p), Version(objects, p))
    BY <1>2, <1>3
  <2>3. Source(objects, o) = Source(objects, p)
    BY <2>1, <2>2
  <2>4. Version(objects, o) = Version(objects, p)
    BY <2>1, <2>2, <2>3, VersionsApart
  <2>5. QED
    BY <1>2, <2>1, <2>2, <2>3, <2>4
<1>6. QED
  BY <1>4, <1>5

-----------------------------------------------------------------------------
(* The steps.                                                                *)

\* A new cell holds no reference.
LEMMA NewCellShaped ==
    ASSUME NEW T \in DOMAIN FieldsOf, NEW K
    PROVE  /\ CellShaped(NewCell(T, K)) /\ NewCell(T, K).of = T /\ DOMAIN NewCell(T, K).elems = K
           /\ \A k \in K : \A f \in References(T) : NewCell(T, K).elems[k].refs[f] = Nil
BY DEF NewCell, Zero, CellShaped, StructShaped

\* A heap that keeps its types, extents and references stays sound.
LEMMA RewriteStep ==
    ASSUME NEW h, NEW t, NEW objs, NEW own, Sound(h, t, objs, own),
           NEW g, Shaped(g, t), DOMAIN g = DOMAIN h,
           \A a \in DOMAIN h : Of(g, a) = Of(h, a) /\ Extent(g, a) = Extent(h, a),
           \A a \in DOMAIN h : \A k \in Extent(h, a) : \A f \in References(Of(h, a)) :
               Ref(g, a, k, f) = Ref(h, a, k, f)
    PROVE  Sound(g, t, objs, own)
<1>1. \A a, k, f : Leads(g, a, k, f) <=> Leads(h, a, k, f)
  BY DEF Leads
<1>2. \A a, k, f : Leads(h, a, k, f) => Ref(g, a, k, f) = Ref(h, a, k, f)
  BY DEF Leads
<1>3. Rooted(g, objs)
  BY DEF Sound, Rooted
<1>4. RefsTyped(g, objs)
  <2>1. RefsTyped(h, objs)
    BY DEF Sound
  <2>2. \A a, k, f : Leads(h, a, k, f) => a \in DOMAIN h
    BY DEF Leads
  <2>3. QED
    BY <1>1, <1>2, <2>1, <2>2 DEF RefsTyped
<1>5. ASSUME NEW p, Clone(objs, p)
      PROVE  /\ VersionsCell(g, objs, p) = VersionsCell(h, objs, p)
             /\ Of(g, Root(objs, p)) = Of(h, Root(objs, p))
             /\ Of(g, Root(objs, Source(objs, p))) = Of(h, Root(objs, Source(objs, p)))
             /\ Extent(g, VersionsCell(h, objs, p)) = Extent(h, VersionsCell(h, objs, p))
             /\ \A f \in Base \cup {"Versions"} :
                    Ref(g, Root(objs, p), 1, f) = Ref(h, Root(objs, p), 1, f)
             /\ \A f \in Base : Ref(g, VersionsCell(h, objs, p), Version(objs, p), f)
                                  = Ref(h, VersionsCell(h, objs, p), Version(objs, p), f)
  <2>1. \A o \in DOMAIN objs : Root(objs, o) \in DOMAIN h /\ 1 \in Extent(h, Root(objs, o))
    BY DEF Sound, Rooted
  <2>2. /\ p \in DOMAIN objs /\ Source(objs, p) \in DOMAIN objs
        /\ Of(h, Root(objs, p)) = "Kamelet" /\ Of(h, Root(objs, Source(objs, p))) = "Kamelet"
    BY <1>5 DEF Sound, ClonesBorrow, Clone
  <2>3. /\ VersionsCell(h, objs, p) \in DOMAIN h
        /\ Of(h, VersionsCell(h, objs, p)) = "KameletSpecBase"
        /\ Version(objs, p) \in Extent(h, VersionsCell(h, objs, p))
    BY <1>5, LenderCell
  <2>4. Base \cup {"Versions"} \subseteq References("Kamelet") /\ Base = References("KameletSpecBase")
    BY BaseTables DEF Base
  <2>5. VersionsCell(g, objs, p) = VersionsCell(h, objs, p)
    BY <2>1, <2>2, <2>4 DEF VersionsCell
  <2>6. QED
    BY <2>1, <2>2, <2>3, <2>4, <2>5
<1>6. ClonesBorrow(g, objs)
  BY <1>5 DEF Sound, ClonesBorrow
<1>7. Owned(g, objs, own)
  BY <1>1, <1>2 DEF Sound, Owned
<1>8. OneParent(g, objs)
  BY <1>1, <1>2 DEF Sound, OneParent
<1>9. QED
  BY <1>3, <1>4, <1>6, <1>7, <1>8 DEF Sound

\* So does one in which a reference is led to a new cell of its type, unless the
\* reference is one that a clone and its version share.
Grown(h, t, p, l, e, g) ==
    /\ Shaped(g, t + 1) /\ DOMAIN g = DOMAIN h \cup {t + 1}
    /\ \A a \in DOMAIN h : Of(g, a) = Of(h, a) /\ Extent(g, a) = Extent(h, a)
    /\ \A a \in DOMAIN h : \A k \in Extent(h, a) : \A f \in References(Of(h, a)) :
           Ref(g, a, k, f) = IF a = p /\ k = l /\ f = e THEN t + 1 ELSE Ref(h, a, k, f)
    /\ Of(g, t + 1) = FieldsOf[Of(h, p)][e].of
    /\ Extent(g, t + 1) \in Extents(FieldsOf[Of(h, p)][e].kind)
    /\ \A k, f : ~ Leads(g, t + 1, k, f)

LEMMA AddCellStep ==
    ASSUME NEW h, NEW t, NEW objs, NEW own, Sound(h, t, objs, own),
           NEW p \in DOMAIN h, NEW l \in Extent(h, p), NEW e \in References(Of(h, p)),
           (\A q : ~ Clone(objs, q)) \/ e \notin Base \cup {"Versions"},
           NEW g, Grown(h, t, p, l, e, g)
    PROVE  \E new : Sound(g, t + 1, objs, new)
<1> DEFINE new == [a \in DOMAIN g |-> IF a \in DOMAIN h THEN own[a] ELSE own[p]]
<1>0. /\ Shaped(g, t + 1) /\ DOMAIN g = DOMAIN h \cup {t + 1}
      /\ \A a \in DOMAIN h : Of(g, a) = Of(h, a) /\ Extent(g, a) = Extent(h, a)
      /\ \A a \in DOMAIN h : \A k \in Extent(h, a) : \A f \in References(Of(h, a)) :
             Ref(g, a, k, f) = IF a = p /\ k = l /\ f = e THEN t + 1 ELSE Ref(h, a, k, f)
      /\ Of(g, t + 1) = FieldsOf[Of(h, p)][e].of
      /\ Extent(g, t + 1) \in Extents(FieldsOf[Of(h, p)][e].kind)
      /\ \A k, f : ~ Leads(g, t + 1, k, f)
  BY DEF Grown
<1> USE <1>0
<1>1. /\ t \in Nat /\ t + 1 \notin DOMAIN h /\ DOMAIN h \subseteq Nat
      /\ \A a \in DOMAIN h : a < t + 1
  BY Indices
<1>2. \A o \in DOMAIN objs : Root(objs, o) \in DOMAIN h /\ 1 \in Extent(h, Root(objs, o))
  BY DEF Sound, Rooted
<1>3. t + 1 \notin RootCells(objs)
  BY <1>1, <1>2 DEF RootCells
<1>4. ~ Borrowed(objs, p, e)
  BY DEF Borrowed
<1>5. ASSUME NEW a, NEW k, NEW f, Leads(g, a, k, f)
      PROVE  \/ a = p /\ k = l /\ f = e /\ Ref(g, a, k, f) = t + 1
             \/ Leads(h, a, k, f) /\ Ref(g, a, k, f) = Ref(h, a, k, f)
  BY <1>5 DEF Leads
<1>6. \A a, k, f : Leads(h, a, k, f) => Ref(h, a, k, f) \in DOMAIN h /\ Ref(h, a, k, f) # t + 1 /\ a \in DOMAIN h
  BY <1>1 DEF Leads, Sound, RefsTyped
<1>7. Rooted(g, objs)
  BY DEF Sound, Rooted
<1>8. RefsTyped(g, objs)
  <2>1. ASSUME NEW a, NEW k, NEW f, Leads(g, a, k, f)
        PROVE  /\ Ref(g, a, k, f) \in DOMAIN g /\ Ref(g, a, k, f) \notin RootCells(objs)
               /\ Of(g, Ref(g, a, k, f)) = FieldsOf[Of(g, a)][f].of
               /\ Extent(g, Ref(g, a, k, f)) \in Extents(FieldsOf[Of(g, a)][f].kind)
    <3>1. CASE a = p /\ k = l /\ f = e /\ Ref(g, a, k, f) = t + 1
      BY <1>3, <3>1
    <3>2. CASE Leads(h, a, k, f) /\ Ref(g, a, k, f) = Ref(h, a, k, f)
      BY <1>6, <3>2 DEF Sound, RefsTyped
    <3>3. QED
      BY <1>5, <2>1, <3>1, <3>2
  <2>2. QED
    BY <2>1 DEF RefsTyped
<1>9. ClonesBorrow(g, objs)
  <2>1. CASE \A q : ~ Clone(objs, q)
    BY <2>1 DEF ClonesBorrow
  <2>2. CASE e \notin Base \cup {"Versions"}
    <3>1. ASSUME NEW q, Clone(objs, q)
          PROVE  /\ VersionsCell(g, objs, q) = VersionsCell(h, objs, q)
                 /\ Of(g, Root(objs, q)) = Of(h, Root(objs, q))
                 /\ Of(g, Root(objs, Source(objs, q))) = Of(h, Root(objs, Source(objs, q)))
                 /\ Extent(g, VersionsCell(h, objs, q)) = Extent(h, VersionsCell(h, objs, q))
                 /\ \A f \in Base \cup {"Versions"} :
                        Ref(g, Root(objs, q), 1, f) = Ref(h, Root(objs, q), 1, f)
                 /\ \A f \in Base : Ref(g, VersionsCell(h, objs, q), Version(objs, q), f)
                                      = Ref(h, VersionsCell(h, objs, q), Version(objs, q), f)
      <4>1. /\ q \in DOMAIN objs /\ Source(objs, q) \in DOMAIN objs
            /\ Of(h, Root(objs, q)) = "Kamelet" /\ Of(h, Root(objs, Source(objs, q))) = "Kamelet"
        BY <3>1 DEF Sound, ClonesBorrow, Clone
      <4>2. /\ VersionsCell(h, objs, q) \in DOMAIN h
            /\ Of(h, VersionsCell(h, objs, q)) = "KameletSpecBase"
            /\ Version(objs, q) \in Extent(h, VersionsCell(h, objs, q))
        BY <3>1, LenderCell
      <4>3. Base \cup {"Versions"} \subseteq References("Kamelet") /\ Base = References("KameletSpecBase")
        BY BaseTables DEF Base
      <4>4. VersionsCell(g, objs, q) = VersionsCell(h, objs, q)
        BY <1>2, <2>2, <4>1, <4>3 DEF VersionsCell
      <4>5. QED
        BY <1>2, <2>2, <4>1, <4>2, <4>3, <4>4
    <3>2. QED
      BY <3>1 DEF Sound, ClonesBorrow
  <2>3. QED
    BY <2>1, <2>2
<1>10. Owned(g, objs, new)
  <2>1. /\ own \in [DOMAIN h -> DOMAIN objs] /\ \A o \in DOMAIN objs : own[Root(objs, o)] = o
        /\ \A a, k, f : Leads(h, a, k, f) /\ ~ Borrowed(objs, a, f) =>
               /\ own[Ref(h, a, k, f)] = own[a]
               /\ a \in RootCells(objs) \/ a < Ref(h, a, k, f)
    BY DEF Sound, Owned
  <2>2. new \in [DOMAIN g -> DOMAIN objs] /\ \A o \in DOMAIN objs : new[Root(objs, o)] = o
    BY <1>2, <2>1
  <2>3. /\ \A a \in DOMAIN h : new[a] = own[a]
        /\ new[t + 1] = own[p]
    BY <1>1
  <2> HIDE DEF new
  <2>4. ASSUME NEW a, NEW k, NEW f, Leads(g, a, k, f), ~ Borrowed(objs, a, f)
        PROVE  new[Ref(g, a, k, f)] = new[a] /\ (a \in RootCells(objs) \/ a < Ref(g, a, k, f))
    <3>1. CASE a = p /\ k = l /\ f = e /\ Ref(g, a, k, f) = t + 1
      BY <1>1, <2>3, <3>1
    <3>2. CASE Leads(h, a, k, f) /\ Ref(g, a, k, f) = Ref(h, a, k, f)
      BY <1>6, <2>1, <2>3, <2>4, <3>2
    <3>3. QED
      BY <1>5, <2>4, <3>1, <3>2
  <2>5. QED
    BY <2>2, <2>4 DEF Owned
<1>11. OneParent(g, objs)
  <2>1. OneParent(h, objs)
    BY DEF Sound
  <2>2. QED
    BY <1>5, <1>6, <2>1 DEF OneParent
<1>12. QED
  BY <1>7, <1>8, <1>9, <1>10, <1>11 DEF Sound

\* What a copy of objs[o] adds to a heap. Its cells are those of the whole set N,
\* moved past the top t, and its references lead as they did, apart from those
\* in the fields that the clone of a version takes from the version.
Over(v) == IF v = "all" THEN {} ELSE IF v = "" THEN {"Versions"} ELSE Base \cup {"Versions"}
At(t, b) == t + b
Whole(h, objs, own, o, N) ==
    /\ N \subseteq Region(h, objs, own, o) /\ Root(objs, o) \in N
    /\ \A a \in N : \A k, f : Leads(h, a, k, f) => Ref(h, a, k, f) \in N
Copies(h, t, root, v, N, g) ==
    /\ DOMAIN g = DOMAIN h \cup {At(t, b) : b \in N}
    /\ \A a \in DOMAIN h : g[a] = h[a]
    /\ \A b \in N : /\ Of(g, At(t, b)) = Of(h, b) /\ Extent(g, At(t, b)) = Extent(h, b)
                    /\ \A k \in Extent(h, b) : Data(g, At(t, b), k) = Data(h, b, k)
                    /\ \A k \in Extent(h, b) : \A f \in References(Of(h, b)) :
                           b # root \/ f \notin Over(v) =>
                               Ref(g, At(t, b), k, f) = IF Ref(h, b, k, f) = Nil THEN Nil
                                                     ELSE At(t, Ref(h, b, k, f))
Overwrites(h, t, root, v, g) ==
    /\ v # "all" => Of(h, root) = "Kamelet" /\ Ref(g, At(t, root), 1, "Versions") = Nil
    /\ v \in Keys =>
           LET vs == Ref(h, root, 1, "Versions") IN
           /\ vs # Nil /\ v \in Extent(h, vs)
           /\ \A f \in Base : Ref(g, At(t, root), 1, f) = Ref(h, vs, v, f)

Longer(s, e, all, n) == all = Append(s, e) /\ n = Len(s) + 1

LEMMA Appended ==
    ASSUME NEW S, NEW s \in Seq(S), NEW e \in S, NEW all, NEW n, Longer(s, e, all, n)
    PROVE  /\ all \in Seq(S) /\ DOMAIN all = DOMAIN s \cup {n} /\ all[n] = e
           /\ n \notin DOMAIN s /\ n \in Nat
           /\ \A q \in DOMAIN s : all[q] = s[q] /\ q \in Nat /\ q < n
BY DEF Longer

LEMMA ObjectNumber ==
    ASSUME NEW h, NEW t, NEW objs, NEW own, Sound(h, t, objs, own), NEW o \in DOMAIN objs
    PROVE  o \in Nat
BY Indices

\* The objects when the copy is there.
Join(objs, r, o, v) == Append(objs, [root |-> r, source |-> o, version |-> v])

OneMore(objs, all, n, r, o, v) ==
    /\ all \in Seq([root : Nat, source : Nat, version : Asked])
    /\ DOMAIN all = DOMAIN objs \cup {n} /\ n \notin DOMAIN objs /\ n \in Nat /\ o < n
    /\ Root(all, n) = r /\ Source(all, n) = o /\ Version(all, n) = v
    /\ \A q \in DOMAIN objs : /\ Root(all, q) = Root(objs, q)
                              /\ Source(all, q) = Source(objs, q)
                              /\ Version(all, q) = Version(objs, q)
    /\ RootCells(all) = RootCells(objs) \cup {r}
    /\ \A q : Clone(all, q) <=> Clone(objs, q) \/ (q = n /\ v \in Keys)
    /\ \A a, f : Borrowed(all, a, f)
                   <=> Borrowed(objs, a, f) \/ (f \in Base /\ a = r /\ v \in Keys)

LEMMA Joined ==
    ASSUME NEW h, NEW t, NEW objs, NEW own, Sound(h, t, objs, own), NEW o \in DOMAIN objs,
           NEW v \in Asked, NEW r \in Nat
    PROVE  \E all, n : all = Join(objs, r, o, v) /\ OneMore(objs, all, n, r, o, v)
<1>1. PICK S, new : /\ S = [root : Nat, source : Nat, version : Asked]
                    /\ new = [root |-> r, source |-> o, version |-> v]
  OBVIOUS
<1>2. PICK all, n : all = Append(objs, new) /\ n = Len(objs) + 1
  OBVIOUS
<1>3. objs \in Seq(S) /\ o \in Nat
  <2>1. objs \in Seq(S)
    BY <1>1 DEF Sound, Rooted
  <2>2. QED
    BY <2>1, ObjectNumber
<1>4. new \in S
  BY <1>1, <1>3
<1>5. /\ all \in Seq(S) /\ DOMAIN all = DOMAIN objs \cup {n} /\ all[n] = new
      /\ n \notin DOMAIN objs /\ n \in Nat
      /\ \A q \in DOMAIN objs : all[q] = objs[q] /\ q \in Nat /\ q < n
  <2>1. objs \in Seq(S) /\ new \in S /\ Longer(objs, new, all, n)
    BY <1>2, <1>3, <1>4 DEF Longer
  <2> HIDE <1>2
  <2>2. QED
    BY <2>1, Appended
<1>6. n \notin DOMAIN objs /\ n \in Nat /\ o < n
  BY <1>5
<1>7. new.root = r /\ new.source = o /\ new.version = v
  BY <1>1
<1>8. Root(all, n) = r /\ Source(all, n) = o /\ Version(all, n) = v
  BY <1>5, <1>7 DEF Root, Source, Version
<1>9. \A q \in DOMAIN objs : /\ Root(all, q) = Root(objs, q)
                             /\ Source(all, q) = Source(objs, q)
                             /\ Version(all, q) = Version(objs, q)
  BY <1>5 DEF Root, Source, Version
<1>10. RootCells(all) = RootCells(objs) \cup {r}
  <2>1. DOMAIN all = DOMAIN objs \cup {n}
    BY <1>5
  <2>2. \A c : c \in RootCells(all) <=> c \in RootCells(objs) \cup {r}
    BY <1>8, <1>9, <2>1 DEF RootCells
  <2>3. QED
    BY <2>2
<1>11. \A q : Clone(all, q) <=> Clone(objs, q) \/ (q = n /\ v \in Keys)
  BY <1>5, <1>6, <1>8, <1>9 DEF Clone
<1>12. \A a, f : Borrowed(all, a, f)
                   <=> Borrowed(objs, a, f) \/ (f \in Base /\ a = r /\ v \in Keys)
  BY <1>5, <1>8, <1>9, <1>11 DEF Borrowed, Clone
<1>13. all = Join(objs, r, o, v)
  BY <1>1, <1>2 DEF Join
<1>14. QED
  BY <1>1, <1>2, <1>5, <1>6, <1>8, <1>9, <1>10, <1>11, <1>12, <1>13 DEF OneMore

LEMMA OverAre ==
    ASSUME NEW v \in Asked
    PROVE  /\ v \in Keys => v # "all" /\ Over(v) = Base \cup {"Versions"}
           /\ \A f \in Over(v) : v # "all" /\ (f = "Versions" \/ (f \in Base /\ v \in Keys))
<1>1. v \in Keys => v # "all" /\ v # ""
  BY HeapAssumption
<1>2. v \in Keys \/ v = "" \/ v = "all"
  BY DEF Asked
<1>3. CASE v \in Keys
  BY <1>1, <1>3 DEF Over
<1>4. CASE v = "" /\ v # "all"
  BY <1>1, <1>4 DEF Over
<1>5. CASE v = "all"
  BY <1>1, <1>5 DEF Over
<1>6. QED
  BY <1>2, <1>3, <1>4, <1>5

\* The references of the heap with the copy: those there were, those of the copy,
\* and those the clone of a version has from the version.
Old(h, g, a, k, f) == Leads(h, a, k, f) /\ Ref(g, a, k, f) = Ref(h, a, k, f)
New(h, t, N, g, a, b, k, f) ==
    /\ b \in N /\ a = At(t, b) /\ Leads(h, b, k, f)
    /\ Ref(g, a, k, f) = At(t, Ref(h, b, k, f)) /\ Ref(h, b, k, f) \in N
Lent(h, t, root, v, g, a, k, f) ==
    /\ a = At(t, root) /\ k = 1 /\ f \in Base /\ v \in Keys
    /\ Leads(h, Ref(h, root, 1, "Versions"), v, f)
    /\ Ref(g, a, k, f) = Ref(h, Ref(h, root, 1, "Versions"), v, f)

\* Where the cells of the copy are.
LEMMA Moved ==
    ASSUME NEW h, NEW t, NEW objs, NEW own, Sound(h, t, objs, own), NEW o \in DOMAIN objs,
           NEW N, Whole(h, objs, own, o, N)
    PROVE  /\ t \in Nat /\ N \subseteq DOMAIN h /\ Root(objs, o) \in N
           /\ Extent(h, Root(objs, o)) = {1}
           /\ \A a \in DOMAIN h : a \in Nat /\ a <= t
           /\ RootCells(objs) \subseteq DOMAIN h
           /\ \A b \in N : At(t, b) \notin DOMAIN h /\ At(t, b) # Nil
           /\ \A b, c \in N : /\ At(t, b) = At(t, c) => b = c
                              /\ b < c => At(t, b) < At(t, c)
           /\ \A b \in N : b \in RootCells(objs) => b = Root(objs, o)
<1>1. N \subseteq DOMAIN h /\ Root(objs, o) \in N
  BY DEF Whole, Region
<1>2. t \in Nat /\ \A a \in DOMAIN h : a \in Nat /\ 1 <= a /\ a <= t
  BY Indices
<1>3. \A b \in N : b \in Nat /\ 1 <= b
  BY <1>1, <1>2
<1>4. \A b \in N : At(t, b) \notin DOMAIN h /\ At(t, b) # Nil
  <2>1. \A b \in N : At(t, b) \in Nat /\ ~ (At(t, b) <= t) /\ At(t, b) # 0
    BY <1>2, <1>3 DEF At
  <2>2. QED
    BY <1>2, <2>1 DEF Nil
<1>5. \A b, c \in N : (At(t, b) = At(t, c) => b = c) /\ (b < c => At(t, b) < At(t, c))
  BY <1>2, <1>3 DEF At
<1>6. RootCells(objs) \subseteq DOMAIN h /\ Extent(h, Root(objs, o)) = {1}
  BY DEF Sound, Rooted, RootCells
<1>7. \A b \in N : b \in RootCells(objs) => b = Root(objs, o)
  BY RegionClosed DEF Whole
<1>8. QED
  BY <1>1, <1>2, <1>4, <1>5, <1>6, <1>7

LEMMA CopyLeads ==
    ASSUME NEW h, NEW t, NEW objs, NEW own, Sound(h, t, objs, own), NEW o \in DOMAIN objs,
           NEW v \in Asked, NEW N, Whole(h, objs, own, o, N),
           NEW g, Copies(h, t, Root(objs, o), v, N, g), Overwrites(h, t, Root(objs, o), v, g),
           NEW a, NEW k, NEW f, Leads(g, a, k, f)
    PROVE  \/ a \in DOMAIN h /\ Old(h, g, a, k, f)
           \/ \E b : New(h, t, N, g, a, b, k, f) /\ (b = Root(objs, o) => f \notin Over(v))
           \/ Lent(h, t, Root(objs, o), v, g, a, k, f)
<1>1. PICK root : root = Root(objs, o)
  OBVIOUS
<1>2. /\ DOMAIN g = DOMAIN h \cup {At(t, b) : b \in N}
      /\ \A c \in DOMAIN h : g[c] = h[c]
      /\ \A b \in N : /\ Of(g, At(t, b)) = Of(h, b) /\ Extent(g, At(t, b)) = Extent(h, b)
                      /\ \A l \in Extent(h, b) : \A e \in References(Of(h, b)) :
                             b # root \/ e \notin Over(v) =>
                                 Ref(g, At(t, b), l, e) = IF Ref(h, b, l, e) = Nil THEN Nil
                                                       ELSE At(t, Ref(h, b, l, e))
  BY <1>1 DEF Copies
<1>3. CASE a \in DOMAIN h
  <2>1. g[a] = h[a]
    BY <1>2, <1>3
  <2>2. QED
    BY <1>3, <2>1 DEF Leads, Ref, Extent, Of, Old
<1>4. ASSUME NEW b \in N, a = At(t, b), b # root \/ f \notin Over(v)
      PROVE  New(h, t, N, g, a, b, k, f)
  <2>1. k \in Extent(h, b) /\ f \in References(Of(h, b)) /\ Ref(g, a, k, f) # Nil
    BY <1>2, <1>4 DEF Leads
  <2>2. Ref(g, a, k, f) = IF Ref(h, b, k, f) = Nil THEN Nil ELSE At(t, Ref(h, b, k, f))
    BY <1>2, <1>4, <2>1
  <2>3. Ref(h, b, k, f) # Nil /\ Ref(g, a, k, f) = At(t, Ref(h, b, k, f))
    BY <2>1, <2>2
  <2>4. Leads(h, b, k, f)
    BY <2>1, <2>3, Moved DEF Leads
  <2>5. QED
    BY <1>4, <2>3, <2>4 DEF New, Whole
<1>5. ASSUME a = At(t, root), f \in Over(v)
      PROVE  Lent(h, t, root, v, g, a, k, f)
  <2>1. k = 1
    <3>1. root \in N /\ Extent(h, root) = {1}
      BY <1>1, Moved
    <3>2. k \in Extent(h, root)
      BY <1>2, <1>5, <3>1 DEF Leads
    <3>3. QED
      BY <3>1, <3>2
  <2>2. v # "all" /\ (f = "Versions" \/ (f \in Base /\ v \in Keys))
    BY <1>5, OverAre
  <2>3. Of(h, root) = "Kamelet" /\ Ref(g, At(t, root), 1, "Versions") = Nil
    BY <1>1, <2>2 DEF Overwrites
  <2>4. f # "Versions" /\ f \in Base /\ v \in Keys
    <3>1. Ref(g, At(t, root), 1, f) # Nil
      BY <1>5, <2>1 DEF Leads
    <3>2. f # "Versions"
      BY <2>3, <3>1
    <3>3. QED
      BY <2>2, <3>2
  <2>5. PICK vs : vs = Ref(h, root, 1, "Versions")
    OBVIOUS
  <2>6. vs # Nil /\ v \in Extent(h, vs) /\ Ref(g, At(t, root), 1, f) = Ref(h, vs, v, f)
    BY <1>1, <2>4, <2>5 DEF Overwrites
  <2>7. Leads(h, root, 1, "Versions")
    <3>1. root \in DOMAIN h /\ 1 \in Extent(h, root)
      <4>1. N \subseteq DOMAIN h /\ root \in N /\ Extent(h, root) = {1}
        BY <1>1, Moved
      <4>2. QED
        BY <4>1
    <3>2. "Versions" \in References(Of(h, root))
      BY <2>3, BaseTables
    <3>3. QED
      BY <2>5, <2>6, <3>1, <3>2 DEF Leads
  <2>8. vs \in DOMAIN h /\ Of(h, vs) = "KameletSpecBase"
    <3>1. vs \in DOMAIN h /\ Of(h, vs) = FieldsOf[Of(h, root)]["Versions"].of
      BY <2>5, <2>7 DEF Sound, RefsTyped
    <3>2. FieldsOf[Of(h, root)]["Versions"] = Map("KameletSpecBase")
      BY <2>3, BaseTables
    <3>3. Map("KameletSpecBase").of = "KameletSpecBase"
      BY DEF Map
    <3>4. QED
      BY <3>1, <3>2, <3>3
  <2>9. Ref(h, vs, v, f) # Nil
    BY <1>5, <2>1, <2>6 DEF Leads
  <2>10. Leads(h, vs, v, f)
    BY <2>4, <2>6, <2>8, <2>9 DEF Leads, Base
  <2>11. QED
    BY <1>5, <2>1, <2>4, <2>5, <2>6, <2>10 DEF Lent
<1>6. QED
  <2>1. a \in DOMAIN g
    BY DEF Leads
  <2>2. a \in DOMAIN h \/ \E b \in N : a = At(t, b)
    BY <1>2, <2>1
  <2>3. QED
    BY <1>1, <1>3, <1>4, <1>5, <2>2

LEMMA CopyStep ==
    ASSUME NEW h, NEW t, NEW objs, NEW own, Sound(h, t, objs, own), NEW o \in DOMAIN objs,
           NEW v \in Asked, NEW N, Whole(h, objs, own, o, N),
           NEW g, Copies(h, t, Root(objs, o), v, N, g), Overwrites(h, t, Root(objs, o), v, g),
           Shaped(g, 2 * t)
    PROVE  \E new : Sound(g, 2 * t, Join(objs, At(t, Root(objs, o)), o, v), new)
<1>1. PICK root : root = Root(objs, o)
  OBVIOUS
<1>2. /\ t \in Nat /\ N \subseteq DOMAIN h /\ root \in N /\ Extent(h, root) = {1}
      /\ \A a \in DOMAIN h : a \in Nat /\ a <= t
      /\ RootCells(objs) \subseteq DOMAIN h
      /\ \A b \in N : At(t, b) \notin DOMAIN h /\ At(t, b) # Nil
      /\ \A b, c \in N : (At(t, b) = At(t, c) => b = c) /\ (b < c => At(t, b) < At(t, c))
      /\ \A b \in N : b \in RootCells(objs) => b = root
  BY <1>1, Moved
<1>3. PICK all, n :
         /\ all = Join(objs, At(t, root), o, v)
         /\ all \in Seq([root : Nat, source : Nat, version : Asked])
         /\ DOMAIN all = DOMAIN objs \cup {n} /\ n \notin DOMAIN objs /\ n \in Nat /\ o < n
         /\ Root(all, n) = At(t, root) /\ Source(all, n) = o /\ Version(all, n) = v
         /\ \A q \in DOMAIN objs : /\ Root(all, q) = Root(objs, q)
                                   /\ Source(all, q) = Source(objs, q)
                                   /\ Version(all, q) = Version(objs, q)
         /\ RootCells(all) = RootCells(objs) \cup {At(t, root)}
         /\ \A q : Clone(all, q) <=> Clone(objs, q) \/ (q = n /\ v \in Keys)
         /\ \A a, f : Borrowed(all, a, f)
                        <=> Borrowed(objs, a, f) \/ (f \in Base /\ a = At(t, root) /\ v \in Keys)
  <2>1. At(t, root) \in Nat
    <3>1. t \in Nat /\ root \in Nat
      BY <1>2
    <3>2. QED
      BY <3>1 DEF At
  <2>2. PICK all, n :
            /\ all = Join(objs, At(t, root), o, v)
            /\ OneMore(objs, all, n, At(t, root), o, v)
    BY <2>1, Joined
  <2>3. QED
    BY <2>2 DEF OneMore
<1>4. /\ DOMAIN g = DOMAIN h \cup {At(t, b) : b \in N}
      /\ \A a \in DOMAIN h : Of(g, a) = Of(h, a) /\ Extent(g, a) = Extent(h, a)
      /\ \A a \in DOMAIN h : \A k, f : Ref(g, a, k, f) = Ref(h, a, k, f)
      /\ \A b \in N : Of(g, At(t, b)) = Of(h, b) /\ Extent(g, At(t, b)) = Extent(h, b)
  BY DEF Copies, Of, Extent, Ref
\* The three kinds of references, and which of them are the clone's.
<1>5. ASSUME NEW a, NEW k, NEW f, Leads(g, a, k, f)
      PROVE  \/ a \in DOMAIN h /\ Old(h, g, a, k, f) /\ (Borrowed(all, a, f) <=> Borrowed(objs, a, f))
             \/ \E b : New(h, t, N, g, a, b, k, f) /\ ~ Borrowed(all, a, f)
             \/ Lent(h, t, root, v, g, a, k, f) /\ Borrowed(all, a, f)
  <2>1. CASE a \in DOMAIN h /\ Old(h, g, a, k, f)
    BY <1>2, <1>3, <2>1
  <2>2. ASSUME NEW b, New(h, t, N, g, a, b, k, f), b = root => f \notin Over(v)
        PROVE  ~ Borrowed(all, a, f)
    <3>1. b \in N /\ a = At(t, b)
      BY <2>2 DEF New
    <3>2. ~ Borrowed(objs, a, f)
      BY <1>2, <3>1 DEF Borrowed, RootCells, Clone
    <3>3. ~ (f \in Base /\ a = At(t, root) /\ v \in Keys)
      BY <1>2, <2>2, <3>1, OverAre
    <3>4. QED
      BY <1>3, <3>2, <3>3
  <2>3. CASE Lent(h, t, root, v, g, a, k, f)
    BY <1>3, <2>3 DEF Lent
  <2>4. QED
    BY <1>1, <1>5, <2>1, <2>2, <2>3, CopyLeads
<1>6. Rooted(g, all)
  <2>1. ASSUME NEW q \in DOMAIN all
        PROVE  Root(all, q) \in DOMAIN g /\ Extent(g, Root(all, q)) = {1}
    <3>1. CASE q = n
      BY <1>2, <1>3, <1>4, <3>1
    <3>2. CASE q \in DOMAIN objs
      <4>1. Root(objs, q) \in DOMAIN h /\ Extent(h, Root(objs, q)) = {1}
        BY <3>2 DEF Sound, Rooted
      <4>2. QED
        BY <1>3, <1>4, <3>2, <4>1
    <3>3. QED
      BY <1>3, <3>1, <3>2
  <2>2. QED
    BY <1>3, <2>1 DEF Rooted
<1>7. RefsTyped(g, all)
  <2>1. \A a, k, f : Leads(h, a, k, f) =>
            /\ a \in DOMAIN h /\ Ref(h, a, k, f) \in DOMAIN h
            /\ Ref(h, a, k, f) \notin RootCells(objs)
            /\ Of(h, Ref(h, a, k, f)) = FieldsOf[Of(h, a)][f].of
            /\ Extent(h, Ref(h, a, k, f)) \in Extents(FieldsOf[Of(h, a)][f].kind)
    BY DEF Sound, RefsTyped, Leads
  <2>2. ASSUME NEW a, NEW k, NEW f, Leads(g, a, k, f)
        PROVE  /\ Ref(g, a, k, f) \in DOMAIN g /\ Ref(g, a, k, f) \notin RootCells(all)
               /\ Of(g, Ref(g, a, k, f)) = FieldsOf[Of(g, a)][f].of
               /\ Extent(g, Ref(g, a, k, f)) \in Extents(FieldsOf[Of(g, a)][f].kind)
    <3>1. CASE a \in DOMAIN h /\ Old(h, g, a, k, f)
      BY <1>2, <1>3, <1>4, <2>1, <3>1 DEF Old
    <3>2. ASSUME NEW b, New(h, t, N, g, a, b, k, f)
          PROVE  /\ Ref(g, a, k, f) \in DOMAIN g /\ Ref(g, a, k, f) \notin RootCells(all)
                 /\ Of(g, Ref(g, a, k, f)) = FieldsOf[Of(g, a)][f].of
                 /\ Extent(g, Ref(g, a, k, f)) \in Extents(FieldsOf[Of(g, a)][f].kind)
      <4>1. PICK c : c = Ref(h, b, k, f)
        OBVIOUS
      <4>2. /\ b \in N /\ c \in N /\ a = At(t, b) /\ Ref(g, a, k, f) = At(t, c)
            /\ c \notin RootCells(objs) /\ Of(h, c) = FieldsOf[Of(h, b)][f].of
            /\ Extent(h, c) \in Extents(FieldsOf[Of(h, b)][f].kind)
        BY <2>1, <3>2, <4>1 DEF New
      <4>3. At(t, c) \in DOMAIN g /\ At(t, c) \notin RootCells(objs)
        BY <1>2, <1>4, <4>2
      <4>4. c # root
        BY <1>1, <4>2 DEF RootCells
      <4>5. At(t, c) # At(t, root)
        BY <1>2, <4>2, <4>4
      <4>6. QED
        BY <1>3, <1>4, <4>2, <4>3, <4>5
    <3>3. CASE Lent(h, t, root, v, g, a, k, f)
      <4>1. PICK vs : vs = Ref(h, root, 1, "Versions")
        OBVIOUS
      <4>2. /\ a = At(t, root) /\ f \in Base /\ v \in Keys
            /\ Leads(h, vs, v, f) /\ Ref(g, a, k, f) = Ref(h, vs, v, f)
        BY <3>3, <4>1 DEF Lent
      <4>3. v # "all" /\ Of(h, root) = "Kamelet" /\ vs # Nil
        BY <1>1, <4>1, <4>2, OverAre DEF Overwrites
      <4>4. Leads(h, root, 1, "Versions")
        BY <1>2, <4>1, <4>3, BaseTables DEF Leads
      <4>5. Of(h, vs) = "KameletSpecBase"
        <5>1. Of(h, vs) = FieldsOf[Of(h, root)]["Versions"].of
          BY <2>1, <4>1, <4>4
        <5>2. FieldsOf[Of(h, root)]["Versions"] = Map("KameletSpecBase")
          BY <4>3, BaseTables
        <5>3. Map("KameletSpecBase").of = "KameletSpecBase"
          BY DEF Map
        <5>4. QED
          BY <5>1, <5>2, <5>3
      <4>6. Of(g, a) = "Kamelet"
        BY <1>2, <1>4, <4>2, <4>3
      <4>7. FieldsOf[Of(h, vs)][f] = FieldsOf[Of(g, a)][f]
        BY <4>2, <4>5, <4>6, BaseTables DEF Base
      <4>8. Ref(g, a, k, f) # At(t, root)
        BY <1>2, <2>1, <4>2
      <4>9. QED
        BY <1>3, <1>4, <2>1, <4>2, <4>7, <4>8
    <3>4. QED
      BY <1>5, <2>2, <3>1, <3>2, <3>3
  <2>3. QED
    BY <2>2 DEF RefsTyped
<1>8. ClonesBorrow(g, all)
  <2>1. ASSUME NEW p, Clone(objs, p)
        PROVE  /\ Root(all, p) = Root(objs, p) /\ Source(all, p) = Source(objs, p)
               /\ Version(all, p) = Version(objs, p)
               /\ Root(all, Source(objs, p)) = Root(objs, Source(objs, p))
               /\ Source(objs, p) \in DOMAIN all /\ ~ Clone(all, Source(objs, p))
               /\ VersionsCell(g, all, p) = VersionsCell(h, objs, p)
               /\ Root(objs, p) \in DOMAIN h /\ Root(objs, Source(objs, p)) \in DOMAIN h
               /\ VersionsCell(h, objs, p) \in DOMAIN h
    <3>1. /\ p \in DOMAIN objs /\ Source(objs, p) \in DOMAIN objs /\ ~ Clone(objs, Source(objs, p))
          /\ VersionsCell(h, objs, p) \in DOMAIN h
      BY <2>1, LenderCell DEF Clone
    <3>2. \A q \in DOMAIN objs : Root(objs, q) \in DOMAIN h
      BY DEF Sound, Rooted
    <3>3. Source(objs, p) # n
      BY <1>3, <3>1
    <3>4. VersionsCell(g, all, p) = VersionsCell(h, objs, p)
      BY <1>3, <1>4, <3>1, <3>2 DEF VersionsCell
    <3>5. QED
      BY <1>3, <3>1, <3>2, <3>3, <3>4
  <2>2. ASSUME NEW p, Clone(all, p)
        PROVE  /\ Of(g, Root(all, p)) = "Kamelet" /\ Ref(g, Root(all, p), 1, "Versions") = Nil
               /\ Source(all, p) \in DOMAIN all /\ Source(all, p) < p
               /\ ~ Clone(all, Source(all, p))
               /\ Of(g, Root(all, Source(all, p))) = "Kamelet" /\ VersionsCell(g, all, p) # Nil
               /\ Version(all, p) \in Extent(g, VersionsCell(g, all, p))
               /\ \A f \in Base : Ref(g, Root(all, p), 1, f)
                                    = Ref(g, VersionsCell(g, all, p), Version(all, p), f)
    <3>1. CASE Clone(objs, p)
      <4>1. /\ Of(h, Root(objs, p)) = "Kamelet" /\ Ref(h, Root(objs, p), 1, "Versions") = Nil
            /\ Source(objs, p) < p
            /\ Of(h, Root(objs, Source(objs, p))) = "Kamelet" /\ VersionsCell(h, objs, p) # Nil
            /\ Version(objs, p) \in Extent(h, VersionsCell(h, objs, p))
            /\ \A f \in Base : Ref(h, Root(objs, p), 1, f)
                                 = Ref(h, VersionsCell(h, objs, p), Version(objs, p), f)
        BY <3>1 DEF Sound, ClonesBorrow
      <4>2. QED
        BY <1>4, <2>1, <3>1, <4>1
    <3>2. CASE p = n /\ v \in Keys
      <4>1. PICK vs : vs = Ref(h, root, 1, "Versions")
        OBVIOUS
      <4>2. /\ Of(h, root) = "Kamelet" /\ Ref(g, At(t, root), 1, "Versions") = Nil
            /\ vs # Nil /\ v \in Extent(h, vs)
            /\ \A f \in Base : Ref(g, At(t, root), 1, f) = Ref(h, vs, v, f)
        BY <1>1, <3>2, <4>1, OverAre DEF Overwrites
      <4>3. vs \in DOMAIN h
        <5>1. Leads(h, root, 1, "Versions")
          BY <1>2, <4>1, <4>2, BaseTables DEF Leads
        <5>2. QED
          BY <4>1, <5>1 DEF Sound, RefsTyped
      <4>4. ~ Clone(all, o)
        <5>1. ~ Clone(objs, o)
          BY <1>1, <4>1, <4>2 DEF Sound, ClonesBorrow
        <5>2. QED
          BY <1>3, <5>1
      <4>5. VersionsCell(g, all, p) = vs
        BY <1>1, <1>2, <1>3, <1>4, <3>2, <4>1 DEF VersionsCell
      <4>6. /\ Root(all, p) = At(t, root) /\ Source(all, p) = o /\ Version(all, p) = v
            /\ Root(all, o) = root /\ o < p /\ o \in DOMAIN all
        BY <1>1, <1>3, <3>2
      <4>7. Of(g, At(t, root)) = "Kamelet" /\ Of(g, root) = "Kamelet"
        BY <1>2, <1>4, <4>2
      <4>8. v \in Extent(g, vs) /\ \A f \in Base : Ref(g, vs, v, f) = Ref(h, vs, v, f)
        BY <1>4, <4>2, <4>3
      <4>9. QED
        BY <4>2, <4>4, <4>5, <4>6, <4>7, <4>8
    <3>3. QED
      BY <1>3, <2>2, <3>1, <3>2
  <2>3. QED
    BY <2>2 DEF ClonesBorrow
<1>9. PICK new : new = [a \in DOMAIN g |-> IF a \in DOMAIN h THEN own[a] ELSE n]
  OBVIOUS
<1>10. Owned(g, all, new)
  <2>1. /\ own \in [DOMAIN h -> DOMAIN objs] /\ \A q \in DOMAIN objs : own[Root(objs, q)] = q
        /\ \A a, k, f : Leads(h, a, k, f) /\ ~ Borrowed(objs, a, f) =>
               /\ own[Ref(h, a, k, f)] = own[a]
               /\ a \in RootCells(objs) \/ a < Ref(h, a, k, f)
    BY DEF Sound, Owned
  <2>2. /\ \A a \in DOMAIN h : new[a] = own[a]
        /\ \A b \in N : new[At(t, b)] = n
        /\ new \in [DOMAIN g -> DOMAIN all]
    BY <1>2, <1>3, <1>4, <1>9, <2>1
  <2>3. ASSUME NEW q \in DOMAIN all PROVE new[Root(all, q)] = q
    <3>1. CASE q = n
      BY <1>2, <1>3, <2>2, <3>1
    <3>2. CASE q \in DOMAIN objs
      <4>1. Root(objs, q) \in DOMAIN h
        BY <3>2 DEF Sound, Rooted
      <4>2. QED
        BY <1>3, <2>1, <2>2, <3>2, <4>1
    <3>3. QED
      BY <1>3, <3>1, <3>2
  <2>4. ASSUME NEW a, NEW k, NEW f, Leads(g, a, k, f), ~ Borrowed(all, a, f)
        PROVE  new[Ref(g, a, k, f)] = new[a] /\ (a \in RootCells(all) \/ a < Ref(g, a, k, f))
    <3>1. CASE a \in DOMAIN h /\ Old(h, g, a, k, f) /\ (Borrowed(all, a, f) <=> Borrowed(objs, a, f))
      <4>1. Ref(h, a, k, f) \in DOMAIN h
        BY <3>1 DEF Old, Sound, RefsTyped
      <4>2. QED
        BY <1>3, <2>1, <2>2, <2>4, <3>1, <4>1 DEF Old
    <3>2. ASSUME NEW b, New(h, t, N, g, a, b, k, f)
          PROVE  new[Ref(g, a, k, f)] = new[a] /\ (a \in RootCells(all) \/ a < Ref(g, a, k, f))
      <4>1. PICK c : c = Ref(h, b, k, f)
        OBVIOUS
      <4>2. b \in N /\ c \in N /\ a = At(t, b) /\ Ref(g, a, k, f) = At(t, c) /\ Leads(h, b, k, f)
        BY <3>2, <4>1 DEF New
      <4>3. CASE b \in RootCells(objs)
        BY <1>2, <1>3, <2>2, <4>2, <4>3
      <4>4. CASE b \notin RootCells(objs)
        <5>1. ~ Borrowed(objs, b, f)
          BY <4>4 DEF Borrowed, RootCells, Clone
        <5>2. b < c
          BY <2>1, <4>1, <4>2, <4>4, <5>1
        <5>3. QED
          BY <1>2, <2>2, <4>2, <5>2
      <4>5. QED
        BY <4>3, <4>4
    <3>3. QED
      BY <1>5, <2>4, <3>1, <3>2
  <2>5. QED
    BY <2>2, <2>3, <2>4 DEF Owned
<1>11. OneParent(g, all)
  <2>1. ASSUME NEW a, NEW k, NEW f, NEW d, NEW l, NEW e,
               Leads(g, a, k, f), ~ Borrowed(all, a, f), Leads(g, d, l, e), ~ Borrowed(all, d, e),
               Ref(g, a, k, f) = Ref(g, d, l, e)
        PROVE  a = d /\ k = l /\ f = e
    <3>1. \/ a \in DOMAIN h /\ Old(h, g, a, k, f) /\ ~ Borrowed(objs, a, f)
          \/ \E b : New(h, t, N, g, a, b, k, f)
      BY <1>5, <2>1
    <3>2. \/ d \in DOMAIN h /\ Old(h, g, d, l, e) /\ ~ Borrowed(objs, d, e)
          \/ \E b : New(h, t, N, g, d, b, l, e)
      BY <1>5, <2>1
    <3>3. \A x, y, z : Old(h, g, x, y, z) => Ref(g, x, y, z) \in DOMAIN h
      BY DEF Old, Sound, RefsTyped
    <3>4. \A x, b, y, z : New(h, t, N, g, x, b, y, z) => Ref(g, x, y, z) \notin DOMAIN h
      BY <1>2 DEF New
    <3>5. CASE Old(h, g, a, k, f) /\ ~ Borrowed(objs, a, f) /\ Old(h, g, d, l, e) /\ ~ Borrowed(objs, d, e)
      BY <2>1, <3>5 DEF Old, Sound, OneParent
    <3>6. ASSUME NEW b, NEW c, New(h, t, N, g, a, b, k, f), New(h, t, N, g, d, c, l, e)
          PROVE  a = d /\ k = l /\ f = e
      <4>1. /\ b \in N /\ c \in N /\ a = At(t, b) /\ d = At(t, c)
            /\ Leads(h, b, k, f) /\ Leads(h, c, l, e)
        BY <3>6 DEF New
      <4>2. Ref(h, b, k, f) = Ref(h, c, l, e)
        <5>1. PICK x, y : x = Ref(h, b, k, f) /\ y = Ref(h, c, l, e)
          OBVIOUS
        <5>2. x \in N /\ y \in N /\ At(t, x) = At(t, y)
          BY <2>1, <3>6, <5>1 DEF New
        <5>3. QED
          BY <1>2, <5>1, <5>2
      <4>3. b \in Region(h, objs, own, o) /\ c \in Region(h, objs, own, o)
        BY <4>1 DEF Whole
      <4>4. b = c /\ k = l /\ f = e
        BY <4>1, <4>2, <4>3, RegionIsTree
      <4>5. QED
        BY <4>1, <4>4
    <3>7. QED
      BY <2>1, <3>1, <3>2, <3>3, <3>4, <3>5, <3>6
  <2>2. QED
    BY <2>1 DEF OneParent
<1>12. Sound(g, 2 * t, all, new)
  BY <1>6, <1>7, <1>8, <1>10, <1>11 DEF Sound
<1>13. QED
  BY <1>1, <1>3, <1>12

-----------------------------------------------------------------------------
(* What DeepCopy and CloneWithVersion make.                                  *)

\* The cells that DeepCopy visits: it visits all there are below the root, and
\* copies as they are only cells that lead nowhere.
LEMMA CopyCells ==
    ASSUME NEW own, Sound(heap, top, objects, own), NEW o \in DOMAIN objects,
           NEW root, root = Root(objects, o)
    PROVE  /\ Whole(heap, objects, own, o, DeepCells(root) \cup FlatCells(root))
           /\ \A b \in FlatCells(root) : References(Of(heap, b)) = {}
<1>1. PICK deep, flat, R : /\ deep = DeepCells(root) /\ flat = FlatCells(root)
                           /\ R = Region(heap, objects, own, o)
  OBVIOUS
<1>2. R \subseteq DOMAIN heap /\ root \in R
  BY <1>1, RegionClosed DEF Region
<1>3. ASSUME NEW a \in R, NEW k, NEW f, Leads(heap, a, k, f)
      PROVE  Ref(heap, a, k, f) \in R
  BY <1>1, <1>3, RegionClosed
<1>4. PICK next : next = Along(Deep)
  OBVIOUS
<1>5. /\ DOMAIN next = DOMAIN heap
      /\ \A a \in DOMAIN heap : next[a] = Behind(a, Deep(Of(heap, a)))
      /\ \A a \in DOMAIN heap : next[a] \subseteq Behind(a, References(Of(heap, a)))
  BY <1>4, AlongDeep
<1>6. /\ root \in deep /\ deep \subseteq DOMAIN heap /\ Closed(deep, next)
      /\ Closed(R, next) => deep \subseteq R
  <2>1. deep = Reach({root}, next)
    BY <1>1, <1>4 DEF DeepCells
  <2>2. {root} \in SUBSET DOMAIN heap
    BY <1>2
  <2>3. /\ {root} \subseteq deep /\ deep \subseteq DOMAIN heap /\ Closed(deep, next)
        /\ \A S : {root} \subseteq S /\ Closed(S \cap DOMAIN heap, next) => deep \subseteq S
    BY <1>5, <2>1, <2>2, ReachInHeap
  <2>4. R \cap DOMAIN heap = R /\ {root} \subseteq R
    BY <1>2
  <2>5. QED
    BY <2>3, <2>4
<1>7. deep \subseteq R
  <2>1. ASSUME NEW a \in R, NEW b \in next[a] PROVE b \in R
    <3>1. PICK k, f : Leads(heap, a, k, f) /\ b = Ref(heap, a, k, f)
      BY <1>2, <1>5, BehindLeads DEF Leads
    <3>2. QED
      BY <1>3, <3>1
  <2>2. QED
    BY <1>6, <2>1 DEF Closed
<1>8. ASSUME NEW b
      PROVE  b \in flat <=> \E a \in deep : \E k \in Extent(heap, a), f \in Flat(Of(heap, a)) :
                               b = Ref(heap, a, k, f) /\ b # Nil
  <2>1. \A a \in DOMAIN heap : Along(Flat)[a] = Behind(a, Flat(Of(heap, a)))
    BY DEF Along, Of
  <2>2. flat = UNION {Along(Flat)[a] : a \in deep}
    BY <1>1 DEF FlatCells
  <2>3. b \in flat <=> \E a \in deep : b \in Behind(a, Flat(Of(heap, a)))
    BY <1>6, <2>1, <2>2
  <2>4. QED
    BY <2>3, BehindLeads
<1>9. \A a \in DOMAIN heap : Of(heap, a) \in DOMAIN FieldsOf
  BY DEF Sound, Shaped, CellShaped, Of
<1>10. \A T : Flat(T) \subseteq References(T) /\ Flat(T) \cap Deep(T) = {}
  BY DEF Flat, Deep, How
<1>11. ASSUME NEW b \in flat
       PROVE  b \in R /\ References(Of(heap, b)) = {}
  <2>1. PICK a, k, f : /\ a \in deep /\ k \in Extent(heap, a) /\ f \in Flat(Of(heap, a))
                       /\ b = Ref(heap, a, k, f) /\ b # Nil
    BY <1>8
  <2>2. Leads(heap, a, k, f)
    BY <1>6, <1>10, <2>1 DEF Leads
  <2>3. References(FieldsOf[Of(heap, a)][f].of) = {}
    BY <1>6, <1>9, <1>10, <2>1, Tables
  <2>4. Of(heap, b) = FieldsOf[Of(heap, a)][f].of
    BY <2>1, <2>2 DEF Sound, RefsTyped
  <2>5. QED
    BY <1>3, <1>7, <2>1, <2>2, <2>3, <2>4
<1>12. ASSUME NEW a \in deep \cup flat, NEW k, NEW f, Leads(heap, a, k, f)
       PROVE  Ref(heap, a, k, f) \in deep \cup flat
  <2>1. a \in DOMAIN heap /\ k \in Extent(heap, a) /\ f \in References(Of(heap, a))
        /\ Ref(heap, a, k, f) # Nil
    BY <1>12 DEF Leads
  <2>2. a \in deep
    BY <1>11, <1>12, <2>1
  <2>3. f \in Deep(Of(heap, a)) \/ f \in Flat(Of(heap, a))
    BY <1>9, <2>1, Tables
  <2>4. CASE f \in Deep(Of(heap, a))
    <3>1. Ref(heap, a, k, f) \in next[a]
      BY <1>5, <2>1, <2>4, BehindLeads
    <3>2. QED
      BY <1>6, <2>2, <3>1 DEF Closed
  <2>5. CASE f \in Flat(Of(heap, a))
    BY <1>8, <2>1, <2>2, <2>5
  <2>6. QED
    BY <2>3, <2>4, <2>5
<1>13. QED
  BY <1>1, <1>6, <1>7, <1>11, <1>12 DEF Whole

\* The struct and the cell a DeepCopyInto makes.
LEMMA CopiedStruct ==
    ASSUME NEW T, NEW s, StructShaped(T, s)
    PROVE  /\ StructShaped(T, CopyStruct(T, s)) /\ CopyStruct(T, s).data = s.data
           /\ \A f \in References(T) :
                  CopyStruct(T, s).refs[f] =
                      IF f \in DOMAIN DeepCopyInto[T] /\ s.refs[f] # Nil
                      THEN At(top, s.refs[f]) ELSE s.refs[f]
BY DEF StructShaped, CopyStruct, At

LEMMA CopiedCell ==
    ASSUME NEW a, CellShaped(heap[a])
    PROVE  /\ CellShaped(CopyDeep(a)) /\ CopyDeep(a).of = Of(heap, a)
           /\ DOMAIN CopyDeep(a).elems = Extent(heap, a)
           /\ \A k \in Extent(heap, a) : CopyDeep(a).elems[k].data = Data(heap, a, k)
           /\ \A k \in Extent(heap, a) : \A f \in Deep(Of(heap, a)) \cup Flat(Of(heap, a)) :
                  CopyDeep(a).elems[k].refs[f] = IF Ref(heap, a, k, f) = Nil THEN Nil
                                                 ELSE At(top, Ref(heap, a, k, f))
<1>1. PICK T, E : T = Of(heap, a) /\ E = heap[a].elems
  OBVIOUS
<1>2. /\ CopyDeep(a).of = T /\ DOMAIN CopyDeep(a) = {"of", "elems"}
      /\ CopyDeep(a).elems = [k \in DOMAIN E |-> CopyStruct(T, E[k])]
  BY <1>1 DEF CopyDeep, CellShaped, Of
<1>3. T \in DOMAIN FieldsOf /\ \A k \in DOMAIN E : StructShaped(T, E[k])
  BY <1>1 DEF CellShaped, Of
<1>4. \A k \in DOMAIN E : CopyDeep(a).elems[k] = CopyStruct(T, E[k])
  BY <1>2
<1>5. \A k \in DOMAIN E : StructShaped(T, CopyStruct(T, E[k]))
  BY <1>3, CopiedStruct
<1>6. CellShaped(CopyDeep(a))
  BY <1>2, <1>3, <1>4, <1>5 DEF CellShaped
<1>7. ASSUME NEW k \in DOMAIN E, NEW f \in Deep(T) \cup Flat(T)
      PROVE  CopyDeep(a).elems[k].refs[f] = IF E[k].refs[f] = Nil THEN Nil
                                            ELSE At(top, E[k].refs[f])
  <2>1. f \in References(T) /\ f \in DOMAIN DeepCopyInto[T]
    BY DEF Deep, Flat, How
  <2>2. CopyStruct(T, E[k]).refs[f] = IF f \in DOMAIN DeepCopyInto[T] /\ E[k].refs[f] # Nil
                                      THEN At(top, E[k].refs[f]) ELSE E[k].refs[f]
    BY <1>3, <2>1, CopiedStruct
  <2>3. QED
    BY <1>4, <2>1, <2>2
<1>8. \A k \in DOMAIN E : CopyDeep(a).elems[k].data = E[k].data
  BY <1>3, <1>4, CopiedStruct
<1>9. QED
  BY <1>1, <1>2, <1>6, <1>7, <1>8 DEF Extent, Ref, Data

\* The heap after a DeepCopy.
LEMMA DeepCopyHeap ==
    ASSUME NEW own, Sound(heap, top, objects, own), NEW o \in DOMAIN objects,
           NEW root, root = Root(objects, o),
           NEW N, N = DeepCells(root) \cup FlatCells(root), NEW g, g = DeepCopy(root)
    PROVE  Whole(heap, objects, own, o, N) /\ Copies(heap, top, root, "all", N, g) /\ Shaped(g, 2 * top)
<1>1. PICK deep, flat : deep = DeepCells(root) /\ flat = FlatCells(root) \ deep
  OBVIOUS
<1>2. /\ Whole(heap, objects, own, o, N) /\ N = deep \cup flat /\ deep \cap flat = {}
      /\ \A b \in flat : References(Of(heap, b)) = {}
  BY <1>1, CopyCells
<1>3. /\ top \in Nat /\ N \subseteq DOMAIN heap /\ DOMAIN heap \subseteq 1..top
      /\ \A b \in N : At(top, b) \notin DOMAIN heap
      /\ \A b, c \in N : At(top, b) = At(top, c) => b = c
  BY <1>2, Moved, Indices
<1>4. PICK A : A = [a \in {top + b : b \in deep} |-> CopyDeep(a - top)]
  OBVIOUS
<1>5. PICK B : B = [a \in {top + b : b \in flat} |-> heap[a - top]]
  OBVIOUS
<1>6. g = (heap ++ A) ++ B
  BY <1>1, <1>4, <1>5 DEF DeepCopy
<1>7. \A b \in N : b \in Nat /\ (top + b) - top = b
  BY <1>3
<1>8. DOMAIN A = {At(top, b) : b \in deep} /\ \A b \in deep : A[At(top, b)] = CopyDeep(b)
  BY <1>2, <1>4, <1>7 DEF At
<1>9. DOMAIN B = {At(top, b) : b \in flat} /\ \A b \in flat : B[At(top, b)] = heap[b]
  BY <1>2, <1>5, <1>7 DEF At
<1>10. DOMAIN g = DOMAIN heap \cup {At(top, b) : b \in N} /\ \A a \in DOMAIN heap : g[a] = heap[a]
  BY <1>2, <1>6, <1>8, <1>9 DEF ++
<1>11. ASSUME NEW b \in deep PROVE g[At(top, b)] = CopyDeep(b)
  BY <1>2, <1>3, <1>6, <1>8 DEF ++
<1>12. ASSUME NEW b \in flat PROVE g[At(top, b)] = heap[b]
  <2>1. At(top, b) \notin DOMAIN A
    BY <1>2, <1>3, <1>8
  <2>2. QED
    BY <1>2, <1>3, <1>6, <1>9, <2>1 DEF ++
<1>13. \A a \in DOMAIN heap : CellShaped(heap[a]) /\ Of(heap, a) \in DOMAIN FieldsOf
  BY DEF Sound, Shaped, CellShaped, Of
<1>14. ASSUME NEW b \in N
       PROVE  /\ CellShaped(g[At(top, b)])
              /\ Of(g, At(top, b)) = Of(heap, b) /\ Extent(g, At(top, b)) = Extent(heap, b)
              /\ \A k \in Extent(heap, b) : Data(g, At(top, b), k) = Data(heap, b, k)
              /\ \A k \in Extent(heap, b) : \A f \in References(Of(heap, b)) :
                     Ref(g, At(top, b), k, f) = IF Ref(heap, b, k, f) = Nil THEN Nil
                                                ELSE At(top, Ref(heap, b, k, f))
  <2>1. b \in DOMAIN heap
    BY <1>3
  <2>2. CASE b \in deep
    <3>1. CellShaped(heap[b])
      BY <1>13, <2>1
    <3>2. \A f \in References(Of(heap, b)) : f \in Deep(Of(heap, b)) \cup Flat(Of(heap, b))
      BY <1>13, <2>1, Tables
    <3>3. /\ CellShaped(CopyDeep(b)) /\ CopyDeep(b).of = Of(heap, b)
          /\ DOMAIN CopyDeep(b).elems = Extent(heap, b)
          /\ \A k \in Extent(heap, b) : CopyDeep(b).elems[k].data = Data(heap, b, k)
          /\ \A k \in Extent(heap, b) : \A f \in Deep(Of(heap, b)) \cup Flat(Of(heap, b)) :
                 CopyDeep(b).elems[k].refs[f] = IF Ref(heap, b, k, f) = Nil THEN Nil
                                                ELSE At(top, Ref(heap, b, k, f))
      BY <3>1, CopiedCell
    <3>4. /\ Of(g, At(top, b)) = CopyDeep(b).of /\ Extent(g, At(top, b)) = DOMAIN CopyDeep(b).elems
          /\ \A k : Data(g, At(top, b), k) = CopyDeep(b).elems[k].data
          /\ \A k, f : Ref(g, At(top, b), k, f) = CopyDeep(b).elems[k].refs[f]
      BY <1>11, <2>2 DEF Of, Extent, Ref, Data
    <3>5. QED
      BY <1>11, <2>2, <3>2, <3>3, <3>4
  <2>3. CASE b \in flat
    BY <1>2, <1>12, <1>13, <2>1, <2>3 DEF Of, Extent, Data
  <2>4. QED
    BY <1>2, <2>2, <2>3
<1>15. Copies(heap, top, root, "all", N, g)
  BY <1>10, <1>14 DEF Copies
<1>16. Shaped(g, 2 * top)
  <2>1. \A a \in DOMAIN g : CellShaped(g[a])
    BY <1>10, <1>13, <1>14
  <2>2. \A b \in N : At(top, b) \in 1 .. 2 * top
    <3>1. \A b \in N : b \in 1..top
      BY <1>3
    <3>2. QED
      BY <1>3, <3>1 DEF At
  <2>3. DOMAIN heap \subseteq 1 .. 2 * top
    BY <1>3
  <2>4. 2 * top \in Nat
    BY <1>3
  <2>5. QED
    BY <1>10, <2>1, <2>2, <2>3, <2>4 DEF Shaped
<1>17. QED
  BY <1>2, <1>15, <1>16

Choices(o) == {""} \cup VersionsOf(o)

\* What a clone takes from the version.
LEMMA CloneBase ==
    ASSUME NEW own, Sound(heap, top, objects, own), NEW o \in DOMAIN objects,
           NEW root, root = Root(objects, o), Of(heap, root) = "Kamelet",
           NEW v \in Choices(o), NEW base, base = BaseOf(o, v),
           NEW vs, vs = Ref(heap, root, 1, "Versions")
    PROVE  /\ v \in Asked /\ v # "all"
           /\ Over(v) = {"Versions"} \cup DOMAIN base /\ DOMAIN base \subseteq Base
           /\ v \in Keys => /\ vs # Nil /\ v \in Extent(heap, vs) /\ DOMAIN base = Base
                            /\ \A f \in Base : base[f] = Ref(heap, vs, v, f)
<1>1. CASE v = ""
  <2>1. v \notin Keys /\ v # "all" /\ v \in Asked
    BY <1>1, HeapAssumption DEF Asked
  <2>2. base = <<>>
    BY <1>1 DEF BaseOf
  <2>3. Over(v) = {"Versions"}
    BY <1>1, <2>1 DEF Over
  <2>4. DOMAIN base = {}
    BY <2>2
  <2>5. QED
    BY <2>1, <2>3, <2>4
<1>2. CASE v \in VersionsOf(o)
  <2>1. vs # Nil /\ v \in Extent(heap, vs)
    BY <1>2 DEF VersionsOf, Ref, Root, Extent
  <2>2. Leads(heap, root, 1, "Versions")
    <3>1. root \in DOMAIN heap /\ 1 \in Extent(heap, root)
      BY DEF Sound, Rooted
    <3>2. QED
      BY <2>1, <3>1, BaseTables DEF Leads
  <2>3. /\ vs \in DOMAIN heap /\ Of(heap, vs) = "KameletSpecBase"
        /\ Extent(heap, vs) \in SUBSET Keys
    <3>1. /\ vs \in DOMAIN heap /\ Of(heap, vs) = FieldsOf[Of(heap, root)]["Versions"].of
          /\ Extent(heap, vs) \in Extents(FieldsOf[Of(heap, root)]["Versions"].kind)
      BY <2>2 DEF Sound, RefsTyped
    <3>2. FieldsOf[Of(heap, root)]["Versions"] = Map("KameletSpecBase")
      BY BaseTables
    <3>3. Map("KameletSpecBase").of = "KameletSpecBase" /\ Map("KameletSpecBase").kind = "map"
      BY DEF Map
    <3>4. Extents("map") = SUBSET Keys
      BY DEF Extents
    <3>5. QED
      BY <3>1, <3>2, <3>3, <3>4
  <2>4. v \in Keys
    BY <2>1, <2>3
  <2>5. v \in Asked /\ v # "all" /\ Over(v) = Base \cup {"Versions"}
    <3>1. v \in Asked
      BY <2>4 DEF Asked
    <3>2. QED
      BY <2>4, <3>1, OverAre
  <2>6. v # ""
    BY <2>4, HeapAssumption
  <2>7. base = heap[vs].elems[v].refs
    BY <2>6 DEF BaseOf, Ref, Root
  <2>8. DOMAIN base = Base
    <3>1. CellShaped(heap[vs])
      BY <2>3 DEF Sound, Shaped
    <3>2. QED
      BY <2>1, <2>3, <2>7, <3>1 DEF CellShaped, StructShaped, Base, Of, Extent
  <2>9. \A f : base[f] = Ref(heap, vs, v, f)
    BY <2>7 DEF Ref
  <2>10. QED
    BY <2>1, <2>4, <2>5, <2>8, <2>9
<1>3. QED
  BY <1>1, <1>2 DEF Choices

\* The fields of one struct written over those of another.
Rewritten(c, base, d) ==
    d = [c EXCEPT !.elems[1].refs = [Versions |-> Nil] ++ base ++ @]

LEMMA Overwritten ==
    ASSUME NEW c, CellShaped(c), c.of = "Kamelet", DOMAIN c.elems = {1},
           NEW base, DOMAIN base \subseteq Base,
           NEW d, Rewritten(c, base, d)
    PROVE  /\ CellShaped(d) /\ d.of = c.of /\ DOMAIN d.elems = DOMAIN c.elems
           /\ d.elems[1].refs["Versions"] = Nil /\ d.elems[1].data = c.elems[1].data
           /\ \A f \in DOMAIN base : d.elems[1].refs[f] = base[f]
           /\ \A f \in References("Kamelet") \ ({"Versions"} \cup DOMAIN base) :
                  d.elems[1].refs[f] = c.elems[1].refs[f]
<1>1. PICK s, refs : s = c.elems[1] /\ refs = [Versions |-> Nil] ++ base ++ s.refs
  OBVIOUS
<1>2. StructShaped("Kamelet", s)
  BY <1>1 DEF CellShaped
<1>3. /\ d.of = c.of /\ DOMAIN d = DOMAIN c /\ DOMAIN d.elems = DOMAIN c.elems
      /\ d.elems[1] = [s EXCEPT !.refs = refs]
  BY <1>1 DEF CellShaped, Rewritten
<1>4. d.elems[1].refs = refs /\ DOMAIN d.elems[1] = DOMAIN s /\ d.elems[1].data = s.data
  BY <1>2, <1>3 DEF StructShaped
<1>5. "Versions" \notin DOMAIN base /\ {"Versions"} \cup DOMAIN base \subseteq References("Kamelet")
  BY BaseTables DEF Base
<1>6. /\ DOMAIN refs = References("Kamelet") /\ refs["Versions"] = Nil
      /\ \A f \in DOMAIN base : refs[f] = base[f]
      /\ \A f \in References("Kamelet") \ ({"Versions"} \cup DOMAIN base) : refs[f] = s.refs[f]
  BY <1>1, <1>2, <1>5 DEF ++, StructShaped
<1>7. StructShaped("Kamelet", d.elems[1])
  BY <1>2, <1>4, <1>6 DEF StructShaped
<1>8. CellShaped(d)
  BY <1>3, <1>7 DEF CellShaped
<1>9. QED
  BY <1>1, <1>3, <1>4, <1>6, <1>8

\* The heap after a CloneWithVersion.
LEMMA CloneHeap ==
    ASSUME NEW own, Sound(heap, top, objects, own), NEW o \in DOMAIN objects,
           NEW root, root = Root(objects, o), Of(heap, root) = "Kamelet",
           NEW v \in Choices(o), NEW g, g = CloneWithVersion(o, v)
    PROVE  \E N : /\ v \in Asked /\ Whole(heap, objects, own, o, N)
                  /\ Copies(heap, top, root, v, N, g) /\ Overwrites(heap, top, root, v, g)
                  /\ Shaped(g, 2 * top)
<1>1. PICK N, d, base, vs, r :
          /\ N = DeepCells(root) \cup FlatCells(root) /\ d = DeepCopy(root)
          /\ base = BaseOf(o, v) /\ vs = Ref(heap, root, 1, "Versions") /\ r = At(top, root)
  OBVIOUS
<1>2. Whole(heap, objects, own, o, N) /\ Copies(heap, top, root, "all", N, d) /\ Shaped(d, 2 * top)
  BY <1>1, DeepCopyHeap
<1>3. /\ v \in Asked /\ v # "all"
      /\ Over(v) = {"Versions"} \cup DOMAIN base /\ DOMAIN base \subseteq Base
      /\ v \in Keys => /\ vs # Nil /\ v \in Extent(heap, vs) /\ DOMAIN base = Base
                       /\ \A f \in Base : base[f] = Ref(heap, vs, v, f)
  BY <1>1, CloneBase
<1>4. g = [d EXCEPT ![r].elems[1].refs = [Versions |-> Nil] ++ base ++ @]
  BY <1>1 DEF CloneWithVersion, Root, At
<1>5. /\ root \in N /\ N \subseteq DOMAIN heap /\ Extent(heap, root) = {1}
      /\ \A b \in N : At(top, b) \notin DOMAIN heap
      /\ \A b, c \in N : At(top, b) = At(top, c) => b = c
  BY <1>2, Moved
<1>6. Over("all") = {}
  BY DEF Over
<1>7. /\ DOMAIN d = DOMAIN heap \cup {At(top, b) : b \in N}
      /\ \A a \in DOMAIN heap : d[a] = heap[a]
      /\ \A b \in N : /\ Of(d, At(top, b)) = Of(heap, b)
                      /\ Extent(d, At(top, b)) = Extent(heap, b)
                      /\ \A k \in Extent(heap, b) : Data(d, At(top, b), k) = Data(heap, b, k)
                      /\ \A k \in Extent(heap, b) : \A f \in References(Of(heap, b)) :
                             Ref(d, At(top, b), k, f) = IF Ref(heap, b, k, f) = Nil THEN Nil
                                                        ELSE At(top, Ref(heap, b, k, f))
  BY <1>2, <1>6 DEF Copies
<1>8. r \in DOMAIN d /\ r \notin DOMAIN heap /\ Of(d, r) = "Kamelet" /\ Extent(d, r) = {1}
  BY <1>1, <1>5, <1>7
<1>9. \A a \in DOMAIN d : CellShaped(d[a])
  BY <1>2 DEF Shaped
<1>10. /\ DOMAIN g = DOMAIN d /\ \A a \in DOMAIN d : a # r => g[a] = d[a]
       /\ Rewritten(d[r], base, g[r])
  BY <1>4, <1>8 DEF Rewritten
<1>11. /\ CellShaped(g[r]) /\ Of(g, r) = Of(d, r) /\ Extent(g, r) = Extent(d, r)
       /\ Ref(g, r, 1, "Versions") = Nil /\ Data(g, r, 1) = Data(d, r, 1)
       /\ \A f \in DOMAIN base : Ref(g, r, 1, f) = base[f]
       /\ \A f \in References("Kamelet") \ ({"Versions"} \cup DOMAIN base) :
              Ref(g, r, 1, f) = Ref(d, r, 1, f)
  <2>1. PICK c, e : c = d[r] /\ e = g[r]
    OBVIOUS
  <2>2. CellShaped(c) /\ c.of = "Kamelet" /\ DOMAIN c.elems = {1}
    BY <1>8, <1>9, <2>1 DEF Of, Extent
  <2>3. Rewritten(c, base, e)
    BY <1>10, <2>1
  <2>4. /\ CellShaped(e) /\ e.of = c.of /\ DOMAIN e.elems = DOMAIN c.elems
        /\ e.elems[1].refs["Versions"] = Nil /\ e.elems[1].data = c.elems[1].data
        /\ \A f \in DOMAIN base : e.elems[1].refs[f] = base[f]
        /\ \A f \in References("Kamelet") \ ({"Versions"} \cup DOMAIN base) :
               e.elems[1].refs[f] = c.elems[1].refs[f]
    BY <1>3, <2>2, <2>3, Overwritten
  <2>5. QED
    BY <2>1, <2>4 DEF Of, Extent, Ref, Data
<1>12. Copies(heap, top, root, v, N, g)
  <2>1. DOMAIN g = DOMAIN heap \cup {At(top, b) : b \in N}
    BY <1>7, <1>10
  <2>2. \A a \in DOMAIN heap : g[a] = heap[a]
    BY <1>7, <1>8, <1>10
  <2>3. ASSUME NEW b \in N
        PROVE  /\ Of(g, At(top, b)) = Of(heap, b) /\ Extent(g, At(top, b)) = Extent(heap, b)
               /\ \A k \in Extent(heap, b) : Data(g, At(top, b), k) = Data(heap, b, k)
               /\ \A k \in Extent(heap, b) : \A f \in References(Of(heap, b)) :
                      b # root \/ f \notin Over(v) =>
                          Ref(g, At(top, b), k, f) = IF Ref(heap, b, k, f) = Nil THEN Nil
                                                     ELSE At(top, Ref(heap, b, k, f))
    <3>1. CASE b = root
      <4>1. Of(g, r) = Of(heap, b) /\ Extent(g, r) = Extent(heap, b)
        BY <1>1, <1>7, <1>11, <3>1
      <4>2. ASSUME NEW k \in Extent(heap, b), NEW f \in References(Of(heap, b)), f \notin Over(v)
            PROVE  Ref(g, r, k, f) = Ref(d, r, k, f)
        <5>1. k = 1 /\ f \in References("Kamelet") \ ({"Versions"} \cup DOMAIN base)
          BY <1>3, <1>5, <3>1, <4>2
        <5>2. QED
          BY <1>11, <5>1
      <4>3. \A k \in Extent(heap, b) : Data(g, r, k) = Data(heap, b, k)
        BY <1>1, <1>5, <1>7, <1>11, <3>1
      <4>4. QED
        BY <1>1, <1>7, <3>1, <4>1, <4>2, <4>3
    <3>2. CASE b # root
      <4>1. At(top, b) # r /\ At(top, b) \in DOMAIN d
        BY <1>1, <1>5, <1>7, <3>2
      <4>2. g[At(top, b)] = d[At(top, b)]
        BY <1>10, <4>1
      <4>3. /\ Of(g, At(top, b)) = Of(d, At(top, b)) /\ Extent(g, At(top, b)) = Extent(d, At(top, b))
            /\ \A k : Data(g, At(top, b), k) = Data(d, At(top, b), k)
            /\ \A k, f : Ref(g, At(top, b), k, f) = Ref(d, At(top, b), k, f)
        BY <4>2 DEF Of, Extent, Ref, Data
      <4>4. QED
        BY <1>7, <4>3
    <3>3. QED
      BY <3>1, <3>2
  <2>4. QED
    BY <2>1, <2>2, <2>3 DEF Copies
<1>13. Overwrites(heap, top, root, v, g)
  BY <1>1, <1>3, <1>11 DEF Overwrites
<1>14. Shaped(g, 2 * top)
  <2>1. \A a \in DOMAIN g : CellShaped(g[a])
    BY <1>9, <1>10, <1>11
  <2>2. QED
    BY <1>2, <1>10, <2>1 DEF Shaped
<1>15. QED
  BY <1>2, <1>3, <1>12, <1>13, <1>14

\* The heap after a reference is led to a new cell.
Linked(p, l, e, cell, g) ==
    g = [heap EXCEPT ![p].elems[l].refs[e] = top + 1] ++ [a \in {top + 1} |-> cell]

LEMMA LinkedStep ==
    ASSUME NEW own, Sound(heap, top, objects, own),
           NEW p \in DOMAIN heap, NEW l \in Extent(heap, p), NEW e \in References(Of(heap, p)),
           (\A q : ~ Clone(objects, q)) \/ e \notin Base \cup {"Versions"},
           NEW cell, CellShaped(cell),
           \A k \in DOMAIN cell.elems : \A f \in References(cell.of) : cell.elems[k].refs[f] = Nil,
           cell.of = FieldsOf[Of(heap, p)][e].of,
           DOMAIN cell.elems \in Extents(FieldsOf[Of(heap, p)][e].kind),
           NEW g, Linked(p, l, e, cell, g)
    PROVE  \E new : Sound(g, top + 1, objects, new)
<1>1. PICK c, s, n : c = heap[p] /\ s = c.elems[l] /\ n = top + 1
  OBVIOUS
<1>2. /\ top \in Nat /\ n \in Nat /\ DOMAIN heap \subseteq 1..top /\ n \notin DOMAIN heap
      /\ DOMAIN heap \cup {n} \subseteq 1..n
  <2>1. DOMAIN heap \subseteq 1..top /\ top \in Nat
    BY Indices
  <2>2. QED
    BY <1>1, <2>1
<1>3. \A a \in DOMAIN heap : CellShaped(heap[a])
  BY DEF Sound, Shaped
<1>4. /\ c.of = Of(heap, p) /\ l \in DOMAIN c.elems /\ StructShaped(c.of, s) /\ CellShaped(c)
  BY <1>1, <1>3 DEF CellShaped, Of, Extent
<1>5. PICK u : u = [heap EXCEPT ![p].elems[l].refs[e] = n]
  OBVIOUS
<1>6. PICK w : w = [s EXCEPT !.refs[e] = n]
  OBVIOUS
<1>7. /\ StructShaped(c.of, w) /\ w.refs[e] = n
      /\ \A f \in References(c.of) : f # e => w.refs[f] = s.refs[f]
  BY <1>4, <1>6 DEF StructShaped
<1>8. PICK d : d = [c EXCEPT !.elems[l] = w]
  OBVIOUS
<1>9. /\ d.of = c.of /\ DOMAIN d = DOMAIN c /\ DOMAIN d.elems = DOMAIN c.elems /\ d.elems[l] = w
      /\ \A k \in DOMAIN c.elems : k # l => d.elems[k] = c.elems[k]
  BY <1>4, <1>8 DEF CellShaped
<1>10. CellShaped(d)
  BY <1>4, <1>7, <1>9 DEF CellShaped
<1>11. DOMAIN u = DOMAIN heap /\ u[p] = d /\ \A a \in DOMAIN heap : a # p => u[a] = heap[a]
  BY <1>1, <1>5, <1>6, <1>8
<1>12. /\ DOMAIN g = DOMAIN heap \cup {n} /\ g[n] = cell
       /\ \A a \in DOMAIN heap : g[a] = u[a]
  BY <1>1, <1>2, <1>5, <1>11 DEF Linked, ++
<1>13. Shaped(g, n)
  BY <1>2, <1>3, <1>10, <1>11, <1>12 DEF Shaped
<1>14. ASSUME NEW a \in DOMAIN heap
       PROVE  /\ Of(g, a) = Of(heap, a) /\ Extent(g, a) = Extent(heap, a)
              /\ \A k \in Extent(heap, a) : \A f \in References(Of(heap, a)) :
                     Ref(g, a, k, f) = IF a = p /\ k = l /\ f = e THEN n ELSE Ref(heap, a, k, f)
  <2>1. CASE a = p
    <3>1. /\ Of(g, a) = d.of /\ Extent(g, a) = DOMAIN d.elems
          /\ Extent(heap, a) = DOMAIN c.elems /\ Of(heap, a) = c.of
          /\ \A k, f : Ref(g, a, k, f) = d.elems[k].refs[f]
          /\ \A k, f : Ref(heap, a, k, f) = c.elems[k].refs[f]
      BY <1>1, <1>11, <1>12, <2>1 DEF Of, Extent, Ref
    <3>2. ASSUME NEW k \in DOMAIN c.elems, NEW f \in References(c.of)
          PROVE  d.elems[k].refs[f] = IF k = l /\ f = e THEN n ELSE c.elems[k].refs[f]
      <4>1. CASE k = l
        BY <1>1, <1>7, <1>9, <4>1
      <4>2. CASE k # l
        BY <1>9, <4>2
      <4>3. QED
        BY <4>1, <4>2
    <3>3. QED
      BY <1>9, <2>1, <3>1, <3>2
  <2>2. CASE a # p
    <3>1. g[a] = heap[a]
      BY <1>11, <1>12, <2>2
    <3>2. QED
      BY <2>2, <3>1 DEF Of, Extent, Ref
  <2>3. QED
    BY <2>1, <2>2
<1>15. /\ Of(g, n) = cell.of /\ Extent(g, n) = DOMAIN cell.elems
       /\ \A k, f : ~ Leads(g, n, k, f)
  BY <1>12 DEF Of, Extent, Leads, Ref
<1>16. \E new : Sound(g, top + 1, objects, new)
  <2>1. Shaped(g, top + 1) /\ DOMAIN g = DOMAIN heap \cup {top + 1}
    BY <1>1, <1>12, <1>13
  <2>2. \A a \in DOMAIN heap : Of(g, a) = Of(heap, a) /\ Extent(g, a) = Extent(heap, a)
    BY <1>14
  <2>3. \A a \in DOMAIN heap : \A k \in Extent(heap, a) : \A f \in References(Of(heap, a)) :
            Ref(g, a, k, f) = IF a = p /\ k = l /\ f = e THEN top + 1 ELSE Ref(heap, a, k, f)
    BY <1>1, <1>14
  <2>4. /\ Of(g, top + 1) = FieldsOf[Of(heap, p)][e].of
        /\ Extent(g, top + 1) \in Extents(FieldsOf[Of(heap, p)][e].kind)
        /\ \A k, f : ~ Leads(g, top + 1, k, f)
    BY <1>1, <1>15
  <2>5. Grown(heap, top, p, l, e, g)
    BY <2>1, <2>2, <2>3, <2>4 DEF Grown
  <2>6. QED
    BY <2>5, AddCellStep
<1>17. QED
  BY <1>16

-----------------------------------------------------------------------------
(* The invariant, action by action.                                          *)

LEMMA InitSound ==
    ASSUME Init
    PROVE  IInv
<1>1. PICK T \in Roots : heap = <<NewCell(T, {1})>>
  BY DEF Init
<1>2. T \in DOMAIN FieldsOf
  BY HeapAssumption DEF TypeNames
<1>3. PICK c : c = NewCell(T, {1})
  OBVIOUS
<1>4. /\ CellShaped(c) /\ c.of = T /\ DOMAIN c.elems = {1}
      /\ \A k \in {1} : \A f \in References(T) : c.elems[k].refs[f] = Nil
  BY <1>2, <1>3, NewCellShaped
<1>5. DOMAIN heap = {1} /\ heap[1] = c /\ top = 1
  BY <1>1, <1>3 DEF Init
<1>6. objects = <<FirstObject>>
  BY DEF Init, FirstObject
<1>7. /\ objects \in Seq([root : Nat, source : Nat, version : Asked])
      /\ DOMAIN objects = {1} /\ objects[1] = FirstObject
  <2>1. FirstObject \in [root : Nat, source : Nat, version : Asked]
    <3>1. "all" \in Asked
      BY DEF Asked
    <3>2. QED
      BY <3>1 DEF FirstObject
  <2>2. QED
    BY <1>6, <2>1
<1>8. Root(objects, 1) = 1 /\ Version(objects, 1) = "all"
  BY <1>7 DEF Root, Version, FirstObject
<1>9. \A p : ~ Clone(objects, p)
  <2>1. "all" \notin Keys
    BY HeapAssumption
  <2>2. QED
    BY <1>7, <1>8, <2>1 DEF Clone
<1>10. \A a, k, f : ~ Leads(heap, a, k, f)
  BY <1>4, <1>5 DEF Leads, Extent, Of, Ref
<1>11. Shaped(heap, top)
  BY <1>4, <1>5 DEF Shaped
<1>12. Rooted(heap, objects)
  <2>1. Root(objects, 1) \in DOMAIN heap /\ Extent(heap, Root(objects, 1)) = {1}
    BY <1>4, <1>5, <1>8 DEF Extent
  <2>2. QED
    BY <1>7, <2>1 DEF Rooted
<1>13. PICK own : own = [a \in {1} |-> 1]
  OBVIOUS
<1>14. Owned(heap, objects, own)
  BY <1>5, <1>7, <1>8, <1>10, <1>13 DEF Owned
<1>15. Sound(heap, top, objects, own)
  BY <1>9, <1>10, <1>11, <1>12, <1>14 DEF Sound, RefsTyped, ClonesBorrow, OneParent
<1>16. QED
  BY <1>6, <1>15 DEF IInv

LEMMA PopulateSound ==
    ASSUME IInv, Populate
    PROVE  IInv'
<1>1. PICK own : Sound(heap, top, objects, own)
  BY DEF IInv
<1>2. /\ objects = <<FirstObject>> /\ top' = top + 1
      /\ objects' = objects /\ phase' = phase
  BY DEF IInv, Populate
<1>3. PICK p \in DOMAIN heap : \E k \in DOMAIN heap[p].elems, f \in References(heap[p].of) :
          LET field == FieldsOf[heap[p].of][f] IN
          \E K \in Extents(field.kind) :
              heap' = [heap EXCEPT ![p].elems[k].refs[f] = top + 1]
                      ++ [a \in {top + 1} |-> NewCell(field.of, K)]
  BY DEF Populate
<1>4. PICK k \in Extent(heap, p), f \in References(Of(heap, p)) :
          \E K \in Extents(FieldsOf[Of(heap, p)][f].kind) :
              Linked(p, k, f, NewCell(FieldsOf[Of(heap, p)][f].of, K), heap')
  BY <1>3 DEF Extent, Of, Linked
<1>5. PICK K \in Extents(FieldsOf[Of(heap, p)][f].kind) :
          Linked(p, k, f, NewCell(FieldsOf[Of(heap, p)][f].of, K), heap')
  BY <1>4
<1>6. PICK cell, U : U = FieldsOf[Of(heap, p)][f].of /\ cell = NewCell(U, K)
  OBVIOUS
<1>7. U \in DOMAIN FieldsOf
  <2>1. Of(heap, p) \in DOMAIN FieldsOf
    BY <1>1 DEF Sound, Shaped, CellShaped, Of
  <2>2. QED
    BY <1>6, <2>1, Tables
<1>8. /\ CellShaped(cell) /\ cell.of = U /\ DOMAIN cell.elems = K
      /\ \A j \in K : \A e \in References(U) : cell.elems[j].refs[e] = Nil
  BY <1>6, <1>7, NewCellShaped
<1>9. \A q : ~ Clone(objects, q)
  <2>1. "all" \notin Keys
    BY HeapAssumption
  <2>2. QED
    BY <1>2, <2>1 DEF Clone, Version, FirstObject
<1>10. \E new : Sound(heap', top + 1, objects, new)
  BY <1>1, <1>5, <1>6, <1>8, <1>9, LinkedStep
<1>11. QED
  BY <1>2, <1>10 DEF IInv

\* A copy as it is taken: of which object, which version, and what it adds.
Taken(own, o, v, N, g) ==
    /\ o \in DOMAIN objects /\ v \in Asked /\ Take(o, v, g)
    /\ Whole(heap, objects, own, o, N)
    /\ Copies(heap, top, Root(objects, o), v, N, g)
    /\ Overwrites(heap, top, Root(objects, o), v, g) /\ Shaped(g, 2 * top)

LEMMA CopyTaken ==
    ASSUME NEW own, Sound(heap, top, objects, own), DoDeepCopy \/ DoCloneWithVersion
    PROVE  \E o, v, N, g : Taken(own, o, v, N, g)
<1>1. CASE DoDeepCopy
  <2>1. PICK o \in DOMAIN objects : Take(o, "all", DeepCopy(Root(objects, o)))
    BY <1>1 DEF DoDeepCopy, Root
  <2>2. PICK root, N, g : /\ root = Root(objects, o) /\ g = DeepCopy(root)
                          /\ N = DeepCells(root) \cup FlatCells(root)
    OBVIOUS
  <2>3. Whole(heap, objects, own, o, N) /\ Copies(heap, top, root, "all", N, g) /\ Shaped(g, 2 * top)
    BY <2>2, DeepCopyHeap
  <2>4. "all" \in Asked /\ "all" \notin Keys
    BY HeapAssumption DEF Asked
  <2>5. Overwrites(heap, top, root, "all", g)
    BY <2>4 DEF Overwrites
  <2>6. Taken(own, o, "all", N, g)
    BY <2>1, <2>2, <2>3, <2>4, <2>5 DEF Taken
  <2>7. QED
    BY <2>6
<1>2. CASE DoCloneWithVersion
  <2>1. PICK o \in DOMAIN objects :
            /\ Of(heap, Root(objects, o)) = "Kamelet"
            /\ \E v \in Choices(o) : Take(o, v, CloneWithVersion(o, v))
    BY <1>2 DEF DoCloneWithVersion, Root, Of, Choices
  <2>2. PICK v \in Choices(o) : Take(o, v, CloneWithVersion(o, v))
    BY <2>1
  <2>3. PICK root, g : root = Root(objects, o) /\ g = CloneWithVersion(o, v)
    OBVIOUS
  <2>4. PICK N : /\ v \in Asked /\ Whole(heap, objects, own, o, N)
                 /\ Copies(heap, top, root, v, N, g) /\ Overwrites(heap, top, root, v, g)
                 /\ Shaped(g, 2 * top)
    BY <2>1, <2>3, CloneHeap
  <2>5. Taken(own, o, v, N, g)
    BY <2>1, <2>2, <2>3, <2>4 DEF Taken
  <2>6. QED
    BY <2>5
<1>3. QED
  BY <1>1, <1>2

LEMMA CopySound ==
    ASSUME IInv, DoDeepCopy \/ DoCloneWithVersion
    PROVE  IInv'
<1>1. PICK own : Sound(heap, top, objects, own)
  BY DEF IInv
<1>2. PICK o, v, N, g : Taken(own, o, v, N, g)
  BY <1>1, CopyTaken
<1>3. /\ heap' = g /\ top' = 2 * top /\ phase' # "decoding"
      /\ objects' = Join(objects, At(top, Root(objects, o)), o, v)
  BY <1>2 DEF Taken, Take, Join, At, Root
<1>4. \E new : Sound(g, 2 * top, Join(objects, At(top, Root(objects, o)), o, v), new)
  BY <1>1, <1>2, CopyStep DEF Taken
<1>5. QED
  BY <1>3, <1>4 DEF IInv

LEMMA WriteSound ==
    ASSUME IInv, Write
    PROVE  IInv'
<1>1. PICK own : Sound(heap, top, objects, own)
  BY DEF IInv
<1>2. PICK o \in DOMAIN objects : \E a \in Holds(o) : \E k \in DOMAIN heap[a].elems :
          heap' = [heap EXCEPT ![a].elems[k].data = 1 - @]
  BY DEF Write
<1>3a. PICK a \in Holds(o) : \E k \in DOMAIN heap[a].elems :
          heap' = [heap EXCEPT ![a].elems[k].data = 1 - @]
  BY <1>2
<1>3. PICK k \in DOMAIN heap[a].elems : heap' = [heap EXCEPT ![a].elems[k].data = 1 - @]
  BY <1>3a
<1>4. a \in DOMAIN heap
  BY <1>1, HoldsInRegion
<1>5. PICK g, c, s, w, d : /\ g = heap' /\ c = heap[a] /\ s = c.elems[k]
                           /\ w = [s EXCEPT !.data = 1 - @] /\ d = [c EXCEPT !.elems[k] = w]
  OBVIOUS
<1>6. \A b \in DOMAIN heap : CellShaped(heap[b])
  BY <1>1 DEF Sound, Shaped
<1>7. CellShaped(c) /\ k \in DOMAIN c.elems /\ StructShaped(c.of, s)
  BY <1>4, <1>5, <1>6 DEF CellShaped
<1>8. StructShaped(c.of, w) /\ w.refs = s.refs
  BY <1>5, <1>7 DEF StructShaped
<1>9. /\ d.of = c.of /\ DOMAIN d = DOMAIN c /\ DOMAIN d.elems = DOMAIN c.elems /\ d.elems[k] = w
      /\ \A j \in DOMAIN c.elems : j # k => d.elems[j] = c.elems[j]
  BY <1>5, <1>7 DEF CellShaped
<1>10. CellShaped(d) /\ \A j \in DOMAIN c.elems : d.elems[j].refs = c.elems[j].refs
  BY <1>5, <1>7, <1>8, <1>9 DEF CellShaped
<1>11. DOMAIN g = DOMAIN heap /\ g[a] = d /\ \A b \in DOMAIN heap : b # a => g[b] = heap[b]
  BY <1>3, <1>4, <1>5
<1>12. Shaped(g, top)
  BY <1>1, <1>6, <1>10, <1>11 DEF Sound, Shaped
<1>13. ASSUME NEW b \in DOMAIN heap
       PROVE  /\ Of(g, b) = Of(heap, b) /\ Extent(g, b) = Extent(heap, b)
              /\ \A j \in Extent(heap, b) : \A f : Ref(g, b, j, f) = Ref(heap, b, j, f)
  <2>1. CASE b = a
    <3>1. /\ Of(g, b) = d.of /\ Extent(g, b) = DOMAIN d.elems
          /\ Of(heap, b) = c.of /\ Extent(heap, b) = DOMAIN c.elems
          /\ \A j, f : Ref(g, b, j, f) = d.elems[j].refs[f]
          /\ \A j, f : Ref(heap, b, j, f) = c.elems[j].refs[f]
      BY <1>5, <1>11, <2>1 DEF Of, Extent, Ref
    <3>2. QED
      BY <1>9, <1>10, <3>1
  <2>2. CASE b # a
    BY <1>11, <2>2 DEF Of, Extent, Ref
  <2>3. QED
    BY <2>1, <2>2
<1>14. Sound(g, top, objects, own)
  BY <1>1, <1>11, <1>12, <1>13, RewriteStep
<1>15. /\ top' = top /\ objects' = objects /\ phase' = phase
  BY DEF Write
<1>16. QED
  BY <1>5, <1>14, <1>15 DEF IInv

\* The bytes that UnmarshalJSON writes.
LEMMA DecodedShaped ==
    ASSUME NEW c, c = [NewCell("byte", {1}) EXCEPT !.elems[1].data = 1]
    PROVE  CellShaped(c) /\ c.of = "byte" /\ DOMAIN c.elems = {1}
<1>1. PICK d, s, w : /\ d = NewCell("byte", {1}) /\ s = d.elems[1]
                     /\ w = [s EXCEPT !.data = 1]
  OBVIOUS
<1>2. CellShaped(d) /\ d.of = "byte" /\ DOMAIN d.elems = {1}
  BY <1>1, NewCellShaped, BaseTables
<1>3. c = [d EXCEPT !.elems[1] = w]
  BY <1>1
<1>4. StructShaped("byte", s)
  BY <1>1, <1>2 DEF CellShaped
<1>5. StructShaped("byte", w)
  BY <1>1, <1>4 DEF StructShaped
<1>6. /\ c.of = "byte" /\ DOMAIN c = DOMAIN d /\ DOMAIN c.elems = {1} /\ c.elems[1] = w
  BY <1>2, <1>3 DEF CellShaped
<1>7. QED
  BY <1>2, <1>5, <1>6 DEF CellShaped

LEMMA UnmarshalSound ==
    ASSUME IInv, UnmarshalJSON
    PROVE  IInv'
<1>1. PICK own : Sound(heap, top, objects, own)
  BY DEF IInv
<1>2. PICK decoded : decoded = [NewCell("byte", {1}) EXCEPT !.elems[1].data = 1]
  OBVIOUS
<1>3. PICK o \in DOMAIN objects : \E a \in Holds(o) : \E k \in Extent(heap, a) :
          /\ "RawMessage" \in References(Of(heap, a))
          /\ \/ /\ Ref(heap, a, k, "RawMessage") # Nil
                /\ Extent(heap, Ref(heap, a, k, "RawMessage")) # {}
                /\ heap' = [heap EXCEPT ![Ref(heap, a, k, "RawMessage")] = decoded]
                /\ top' = top
             \/ Linked(a, k, "RawMessage", decoded, heap') /\ top' = top + 1
  BY <1>2 DEF UnmarshalJSON, Ref, Of, Extent, Linked
<1>4a. PICK a \in Holds(o) : \E k \in Extent(heap, a) :
          /\ "RawMessage" \in References(Of(heap, a))
          /\ \/ /\ Ref(heap, a, k, "RawMessage") # Nil
                /\ Extent(heap, Ref(heap, a, k, "RawMessage")) # {}
                /\ heap' = [heap EXCEPT ![Ref(heap, a, k, "RawMessage")] = decoded]
                /\ top' = top
             \/ Linked(a, k, "RawMessage", decoded, heap') /\ top' = top + 1
  BY <1>3
<1>4. PICK k \in Extent(heap, a) :
          /\ "RawMessage" \in References(Of(heap, a))
          /\ \/ /\ Ref(heap, a, k, "RawMessage") # Nil
                /\ Extent(heap, Ref(heap, a, k, "RawMessage")) # {}
                /\ heap' = [heap EXCEPT ![Ref(heap, a, k, "RawMessage")] = decoded]
                /\ top' = top
             \/ Linked(a, k, "RawMessage", decoded, heap') /\ top' = top + 1
  BY <1>4a
<1>5. a \in DOMAIN heap
  BY <1>1, HoldsInRegion
<1>6. \A b \in DOMAIN heap : CellShaped(heap[b]) /\ Of(heap, b) \in DOMAIN FieldsOf
  BY <1>1 DEF Sound, Shaped, CellShaped, Of
<1>7. FieldsOf[Of(heap, a)]["RawMessage"] = Slice("byte")
  BY <1>4, <1>5, <1>6, RawTables
<1>8. Slice("byte").of = "byte" /\ Slice("byte").kind = "slice" /\ Extents("slice") = {{}, {1}}
  BY DEF Slice, Extents
<1>9. CellShaped(decoded) /\ decoded.of = "byte" /\ DOMAIN decoded.elems = {1}
  BY <1>2, DecodedShaped
<1>10. objects' = objects /\ phase' = phase
  BY DEF UnmarshalJSON
<1>11. ASSUME NEW bytes, bytes = Ref(heap, a, k, "RawMessage"), bytes # Nil,
              Extent(heap, bytes) # {}, heap' = [heap EXCEPT ![bytes] = decoded], top' = top
       PROVE  IInv'
  <2>1. PICK g : g = heap'
    OBVIOUS
  <2>2. Leads(heap, a, k, "RawMessage")
    BY <1>4, <1>5, <1>11 DEF Leads
  <2>3. bytes \in DOMAIN heap /\ Of(heap, bytes) = "byte" /\ Extent(heap, bytes) = {1}
    <3>1. /\ bytes \in DOMAIN heap /\ Of(heap, bytes) = FieldsOf[Of(heap, a)]["RawMessage"].of
          /\ Extent(heap, bytes) \in Extents(FieldsOf[Of(heap, a)]["RawMessage"].kind)
      BY <1>1, <1>11, <2>2 DEF Sound, RefsTyped
    <3>2. QED
      BY <1>7, <1>8, <1>11, <3>1
  <2>4. /\ DOMAIN g = DOMAIN heap /\ g[bytes] = decoded
        /\ \A b \in DOMAIN heap : b # bytes => g[b] = heap[b]
    BY <1>11, <2>1, <2>3
  <2>5. Shaped(g, top)
    BY <1>1, <1>6, <1>9, <2>4 DEF Sound, Shaped
  <2>6. ASSUME NEW b \in DOMAIN heap
        PROVE  /\ Of(g, b) = Of(heap, b) /\ Extent(g, b) = Extent(heap, b)
               /\ \A j \in Extent(heap, b) : \A f \in References(Of(heap, b)) :
                      Ref(g, b, j, f) = Ref(heap, b, j, f)
    <3>1. CASE b = bytes
      <4>1. Of(g, b) = decoded.of /\ Extent(g, b) = DOMAIN decoded.elems
        BY <2>4, <3>1 DEF Of, Extent
      <4>2. QED
        BY <1>9, <2>3, <3>1, <4>1, RawTables
    <3>2. CASE b # bytes
      BY <2>4, <3>2 DEF Of, Extent, Ref
    <3>3. QED
      BY <3>1, <3>2
  <2>7. Sound(g, top, objects, own)
    BY <1>1, <2>4, <2>5, <2>6, RewriteStep
  <2>8. QED
    BY <1>10, <1>11, <2>1, <2>7 DEF IInv
<1>12. ASSUME Linked(a, k, "RawMessage", decoded, heap'), top' = top + 1
       PROVE  IInv'
  <2>1. "RawMessage" \notin Base \cup {"Versions"}
    <3>1. "RawMessage" \notin References("KameletSpecBase")
      BY DEF References, FieldsOf, KameletSpecBase, ++
    <3>2. QED
      BY <3>1 DEF Base
  <2>2. PICK e : e = "RawMessage"
    OBVIOUS
  <2>3. /\ e \in References(Of(heap, a)) /\ e \notin Base \cup {"Versions"}
        /\ decoded.of = FieldsOf[Of(heap, a)][e].of
        /\ DOMAIN decoded.elems \in Extents(FieldsOf[Of(heap, a)][e].kind)
    BY <1>4, <1>7, <1>8, <1>9, <2>1, <2>2
  <2>4. \A j \in DOMAIN decoded.elems : \A f \in References(decoded.of) : decoded.elems[j].refs[f] = Nil
    BY <1>9, RawTables
  <2>5. \E new : Sound(heap', top + 1, objects, new)
    BY <1>1, <1>4, <1>5, <1>9, <1>12, <2>2, <2>3, <2>4, LinkedStep
  <2>6. QED
    BY <1>10, <1>12, <2>5 DEF IInv
<1>13. QED
  BY <1>4, <1>11, <1>12

\* Objects stay trees of the declared types whatever is decoded, copied, cloned
\* and written, and what clones share with their versions is all they share.
LEMMA NextSound ==
    ASSUME IInv, [Next]_vars
    PROVE  IInv'
<1>1. CASE Populate
  BY <1>1, PopulateSound
<1>2. CASE Publish
  BY <1>2 DEF Publish, IInv
<1>3. CASE DoDeepCopy \/ DoCloneWithVersion
  BY <1>3, CopySound
<1>4. CASE Write
  BY <1>4, WriteSound
<1>5. CASE UnmarshalJSON
  BY <1>5, UnmarshalSound
<1>6. CASE UNCHANGED vars
  BY <1>6 DEF vars, IInv
<1>7. QED
  BY <1>1, <1>2, <1>3, <1>4, <1>5, <1>6 DEF Next

\* Every cell has an owner, references stay with it, and no two lead to the same
\* cell, but for those that CloneWithVersion assigns from the version to the
\* clone (kamelet_types_support.go:223).
THEOREM Ownership == Spec => []IInv
<1>1. Init => IInv
  BY InitSound
<1>2. IInv /\ [Next]_vars => IInv'
  BY NextSound
<1>3. QED
  BY <1>1, <1>2, PTL DEF Spec

\* Every object is a tree of cells of the types the API declares: what the
\* generated copies (zz_generated.deepcopy.go) need to come out whole.
THEOREM TypeCorrectness == Spec => []TypeOK
<1>1. IInv => TypeOK
  BY SoundIsTyped DEF IInv
<1>2. QED
  BY <1>1, Ownership, PTL

\* Deep copies share nothing with what they were made from; CloneWithVersion
\* lends a clone the cells of one version, and no copy spreads them
\* (kamelet_types_support.go:214-229, zz_generated.deepcopy.go:394-397).
THEOREM AliasesOnlyByVersion == Spec => []AliasOnlyByVersion
<1>1. IInv => AliasOnlyByVersion
  BY SoundAliases DEF IInv
<1>2. QED
  BY <1>1, Ownership, PTL

-----------------------------------------------------------------------------
(* What an object shows: Value of View is a recursive function, and there  *)
(* is one, for the references of a sound heap lead to ever higher ranks.     *)

\* What is seen from the cell a, given what is seen from the cells it leads to.
Seen(h, V, a) ==
    [nil |-> a = Nil,
     elems |-> IF a = Nil THEN <<>>
               ELSE [k \in Extent(h, a) |->
                        [data |-> Data(h, a, k),
                         refs |-> [f \in References(Of(h, a)) |-> V[Ref(h, a, k, f)]]]]]

Ranks(h, rank, m) ==
    /\ m \in Nat /\ rank \in [DOMAIN h -> 0..m] /\ Nil \notin DOMAIN h
    /\ \A a, k, f : Leads(h, a, k, f) =>
           Ref(h, a, k, f) \in DOMAIN h /\ rank[a] < rank[Ref(h, a, k, f)]

LEMMA Ranked ==
    ASSUME NEW h, NEW t, NEW objs, NEW own, Sound(h, t, objs, own)
    PROVE  \E rank : Ranks(h, rank, t)
<1> DEFINE rank == [a \in DOMAIN h |-> IF a \in RootCells(objs) THEN 0 ELSE a]
<1>1. ASSUME NEW a, NEW k, NEW f, Leads(h, a, k, f)
      PROVE  Ref(h, a, k, f) \in DOMAIN h /\ rank[a] < rank[Ref(h, a, k, f)]
  <2>1. PICK b : b = Ref(h, a, k, f)
    OBVIOUS
  <2>2. /\ b \in DOMAIN h /\ b \notin RootCells(objs) /\ a \in DOMAIN h
        /\ a \in 1..t /\ b \in 1..t /\ t \in Nat
    BY <1>1, <2>1, Indices DEF Sound, RefsTyped, Leads
  <2>3. a \in RootCells(objs) \/ a < b
    <3>1. CASE Borrowed(objs, a, f)
      BY <3>1 DEF Borrowed, RootCells, Clone
    <3>2. CASE ~ Borrowed(objs, a, f)
      BY <1>1, <2>1, <3>2 DEF Sound, Owned
    <3>3. QED
      BY <3>1, <3>2
  <2>4. QED
    BY <2>1, <2>2, <2>3
<1>2. rank \in [DOMAIN h -> 0..t] /\ t \in Nat /\ Nil \notin DOMAIN h
  BY Indices DEF Nil
<1> HIDE DEF rank
<1>3. QED
  BY <1>1, <1>2 DEF Ranks

\* What is seen from a cell depends on what is seen from those it leads to.
LEMMA SeenBelow ==
    ASSUME NEW h, NEW V, NEW W, NEW a \in DOMAIN h \cup {Nil},
           \A k, f : Leads(h, a, k, f) => V[Ref(h, a, k, f)] = W[Ref(h, a, k, f)],
           V[Nil] = W[Nil]
    PROVE  Seen(h, V, a) = Seen(h, W, a)
<1>1. CASE a = Nil
  BY <1>1 DEF Seen
<1>2. CASE a # Nil
  <2>1. \A k \in Extent(h, a) : \A f \in References(Of(h, a)) :
            V[Ref(h, a, k, f)] = W[Ref(h, a, k, f)]
    BY <1>2 DEF Leads
  <2>2. \A k \in Extent(h, a) :
            [f \in References(Of(h, a)) |-> V[Ref(h, a, k, f)]]
              = [f \in References(Of(h, a)) |-> W[Ref(h, a, k, f)]]
    BY <2>1
  <2>3. QED
    BY <1>2, <2>2 DEF Seen
<1>3. QED
  BY <1>1, <1>2

\* What can be seen from the cells of a rank above m - n.
Above(h, rank, m, n) == {Nil} \cup {a \in DOMAIN h : m < rank[a] + n}
SeesAbove(h, rank, m, n) ==
    \E V : V = [a \in Above(h, rank, m, n) |-> Seen(h, V, a)]

LEMMA SeesOneBelow ==
    ASSUME NEW h, NEW m, NEW rank, Ranks(h, rank, m), NEW n \in Nat, SeesAbove(h, rank, m, n)
    PROVE  SeesAbove(h, rank, m, n + 1)
<1>1. PICK D, E : D = Above(h, rank, m, n) /\ E = Above(h, rank, m, n + 1)
  OBVIOUS
<1>2. PICK V : V = [a \in D |-> Seen(h, V, a)]
  BY <1>1 DEF SeesAbove
<1>3. \A a \in DOMAIN h : rank[a] \in Nat /\ m \in Nat
  BY DEF Ranks
<1>4. D \subseteq E /\ E \subseteq DOMAIN h \cup {Nil} /\ Nil \in D
  BY <1>1, <1>3 DEF Above
<1>5. ASSUME NEW a \in E, NEW k, NEW f, Leads(h, a, k, f)
      PROVE  Ref(h, a, k, f) \in D
  <2>1. PICK b : b = Ref(h, a, k, f)
    OBVIOUS
  <2>2. a \in DOMAIN h /\ b \in DOMAIN h /\ rank[a] < rank[b]
    BY <1>5, <2>1 DEF Ranks, Leads
  <2>3. a # Nil
    BY <2>2 DEF Ranks
  <2>4. m < rank[a] + (n + 1)
    BY <1>1, <2>3 DEF Above
  <2>5. m < rank[b] + n
    BY <1>3, <2>2, <2>4
  <2>6. QED
    BY <1>1, <2>1, <2>2, <2>5 DEF Above
<1>6. PICK W : W = [a \in E |-> IF a \in D THEN V[a] ELSE Seen(h, V, a)]
  OBVIOUS
<1>7. ASSUME NEW a \in E PROVE W[a] = Seen(h, W, a)
  <2>1. \A b \in D : W[b] = V[b]
    BY <1>4, <1>6
  <2>2. Seen(h, V, a) = Seen(h, W, a)
    <3>1. /\ \A k, f : Leads(h, a, k, f) => V[Ref(h, a, k, f)] = W[Ref(h, a, k, f)]
          /\ V[Nil] = W[Nil] /\ a \in DOMAIN h \cup {Nil}
      BY <1>4, <1>5, <2>1
    <3>2. QED
      BY <3>1, SeenBelow
  <2>3. W[a] = Seen(h, V, a)
    <3>1. \A b \in D : V[b] = Seen(h, V, b)
      BY <1>2
    <3>2. QED
      BY <1>6, <3>1
  <2>4. QED
    BY <2>2, <2>3
<1>8. W = [a \in E |-> Seen(h, W, a)]
  <2>1. W = [a \in E |-> W[a]]
    BY <1>6
  <2>2. QED
    BY <1>7, <2>1
<1>9. QED
  BY <1>1, <1>8 DEF SeesAbove

LEMMA SeesAll ==
    ASSUME NEW h, NEW m, NEW rank, Ranks(h, rank, m)
    PROVE  SeesAbove(h, rank, m, m + 1)
<1> SUFFICES ASSUME ~ SeesAbove(h, rank, m, m + 1) PROVE FALSE
  OBVIOUS
<1> DEFINE U == {n \in Nat : ~ SeesAbove(h, rank, m, n)}
<1>1. m + 1 \in U
  BY DEF Ranks
<1>2. PICK n \in U : \A i \in U : n <= i
  BY <1>1, LeastNumber
<1>3. SeesAbove(h, rank, m, 0)
  <2>1. Above(h, rank, m, 0) = {Nil}
    BY DEF Above, Ranks
  <2>2. PICK V : V = [a \in {Nil} |-> [nil |-> a = Nil, elems |-> <<>>]]
    OBVIOUS
  <2>3. Seen(h, V, Nil) = V[Nil]
    BY <2>2 DEF Seen
  <2>4. V = [a \in {Nil} |-> Seen(h, V, a)]
    BY <2>2, <2>3
  <2>5. QED
    BY <2>1, <2>4 DEF SeesAbove
<1>4. n # 0 /\ n - 1 \in Nat /\ (n - 1) + 1 = n /\ ~ (n <= n - 1)
  BY <1>2, <1>3
<1>5. SeesAbove(h, rank, m, n - 1)
  BY <1>2, <1>4
<1>6. SeesAbove(h, rank, m, n)
  BY <1>4, <1>5, SeesOneBelow
<1>7. QED
  BY <1>2, <1>6

\* View is what it is defined by.
LEMMA ViewIs ==
    ASSUME NEW h, NEW t, NEW objs, NEW own, Sound(h, t, objs, own), NEW V, V = View(h)
    PROVE  \A a \in DOMAIN h \cup {Nil} : V[a] = Seen(h, V, a)
<1>1. PICK rank : Ranks(h, rank, t)
  BY Ranked
<1>2. Above(h, rank, t, t + 1) = DOMAIN h \cup {Nil}
  BY <1>1 DEF Above, Ranks
<1> DEFINE Solves(g) == g = [a \in DOMAIN h \cup {Nil} |-> Seen(h, g, a)]
<1>3. \E g : Solves(g)
  BY <1>1, <1>2, SeesAll DEF SeesAbove
<1>4. V = CHOOSE g : Solves(g)
  BY DEF View, Seen, Extent, Of, Ref, Data
<1>5. Solves(V)
  BY <1>3, <1>4
<1>6. QED
  BY <1>5

\* The cells M of the heap h and where m takes them in the heap g: to cells of
\* the same type with the same elements, whose references go along.
Follows(h, a, g, b, M, m, k, f) ==
    IF Ref(h, a, k, f) = Nil THEN Ref(g, b, k, f) = Nil
    ELSE Ref(h, a, k, f) \in M /\ Ref(g, b, k, f) = m[Ref(h, a, k, f)]
Mirrors(h, M, m, g) ==
    /\ M \subseteq DOMAIN h /\ m \in [M -> DOMAIN g]
    /\ \A a \in M : /\ Of(g, m[a]) = Of(h, a) /\ Extent(g, m[a]) = Extent(h, a)
                    /\ \A k \in Extent(h, a) :
                           /\ Data(g, m[a], k) = Data(h, a, k)
                           /\ \A f \in References(Of(h, a)) : Follows(h, a, g, m[a], M, m, k, f)

\* Two cells with equal elements look the same when what they lead to does.
LEMMA SeenAlike ==
    ASSUME NEW h, NEW V, NEW a, NEW g, NEW W, NEW b, a # Nil, b # Nil,
           Of(g, b) = Of(h, a), Extent(g, b) = Extent(h, a),
           \A k \in Extent(h, a) :
               /\ Data(g, b, k) = Data(h, a, k)
               /\ \A f \in References(Of(h, a)) : W[Ref(g, b, k, f)] = V[Ref(h, a, k, f)]
    PROVE  Seen(g, W, b) = Seen(h, V, a)
<1>1. \A k \in Extent(h, a) :
          [f \in References(Of(g, b)) |-> W[Ref(g, b, k, f)]]
            = [f \in References(Of(h, a)) |-> V[Ref(h, a, k, f)]]
  OBVIOUS
<1>2. [k \in Extent(g, b) |-> [data |-> Data(g, b, k),
                               refs |-> [f \in References(Of(g, b)) |-> W[Ref(g, b, k, f)]]]]
        = [k \in Extent(h, a) |-> [data |-> Data(h, a, k),
                                   refs |-> [f \in References(Of(h, a)) |-> V[Ref(h, a, k, f)]]]]
  BY <1>1
<1>3. QED
  BY <1>2 DEF Seen

LEMMA MirrorsLook ==
    ASSUME NEW h, NEW rank, NEW t, Ranks(h, rank, t), NEW g, Nil \notin DOMAIN g,
           NEW V, \A a \in DOMAIN h \cup {Nil} : V[a] = Seen(h, V, a),
           NEW W, \A a \in DOMAIN g \cup {Nil} : W[a] = Seen(g, W, a),
           NEW M, NEW m, Mirrors(h, M, m, g)
    PROVE  \A a \in M : W[m[a]] = V[a]
<1> DEFINE Bad == {a \in M : W[m[a]] # V[a]}
           U == {t - rank[a] : a \in Bad}
<1>1. M \subseteq DOMAIN h /\ \A a \in M : m[a] \in DOMAIN g
  BY DEF Mirrors
<1>2. t \in Nat /\ \A a \in M : rank[a] \in 0..t
  BY <1>1 DEF Ranks
<1> SUFFICES ASSUME Bad # {} PROVE FALSE
  OBVIOUS
<1>3. U \in SUBSET Nat /\ U # {}
  BY <1>2
<1>4. PICK u \in U : \A n \in U : u <= n
  BY <1>3, LeastNumber
<1>5. PICK a \in Bad : u = t - rank[a]
  BY <1>4
<1>6. a \in M /\ W[m[a]] # V[a] /\ m[a] \in DOMAIN g /\ a # Nil /\ m[a] # Nil
  BY <1>1, <1>5 DEF Ranks
<1>7. W[Nil] = V[Nil]
  BY DEF Seen
<1>8. ASSUME NEW b \in M, rank[a] < rank[b] PROVE W[m[b]] = V[b]
  <2>1. CASE b \in Bad
    <3>1. t - rank[a] <= t - rank[b]
      BY <1>4, <1>5, <2>1
    <3>2. QED
      BY <1>2, <1>6, <1>8, <3>1
  <2>2. QED
    BY <2>1
<1>9. ASSUME NEW k \in Extent(h, a), NEW f \in References(Of(h, a))
      PROVE  W[Ref(g, m[a], k, f)] = V[Ref(h, a, k, f)]
  <2>1. Follows(h, a, g, m[a], M, m, k, f)
    BY <1>6 DEF Mirrors
  <2>2. CASE Ref(h, a, k, f) = Nil
    BY <1>7, <2>1, <2>2 DEF Follows
  <2>3. CASE Ref(h, a, k, f) # Nil
    <3>1. Leads(h, a, k, f)
      BY <1>1, <1>6, <2>3 DEF Leads
    <3>2. rank[a] < rank[Ref(h, a, k, f)]
      BY <3>1 DEF Ranks
    <3>3. QED
      BY <1>8, <2>1, <2>3, <3>2 DEF Follows
  <2>4. QED
    BY <2>2, <2>3
<1>10. Seen(g, W, m[a]) = Seen(h, V, a)
  <2>1. /\ Of(g, m[a]) = Of(h, a) /\ Extent(g, m[a]) = Extent(h, a)
        /\ \A k \in Extent(h, a) : Data(g, m[a], k) = Data(h, a, k)
    BY <1>6 DEF Mirrors
  <2>2. QED
    BY <1>6, <1>9, <2>1, SeenAlike
<1>11. QED
  BY <1>1, <1>6, <1>10

\* Cells of two heaps that have the same contents, with all they lead to, look the same.
LEMMA UnchangedLook ==
    ASSUME NEW h, NEW t, NEW objs, NEW own, Sound(h, t, objs, own),
           NEW g, NEW u, NEW all, NEW new, Sound(g, u, all, new),
           NEW M \in SUBSET DOMAIN h, M \subseteq DOMAIN g, \A a \in M : g[a] = h[a],
           \A a \in M : \A k, f : Leads(h, a, k, f) => Ref(h, a, k, f) \in M,
           NEW V, V = View(h), NEW W, W = View(g)
    PROVE  \A a \in M : W[a] = V[a]
<1>1. PICK m : m = [a \in M |-> a]
  OBVIOUS
<1>2. \A a \in M : m[a] = a
  BY <1>1
<1>3. ASSUME NEW a \in M
      PROVE  /\ Of(g, a) = Of(h, a) /\ Extent(g, a) = Extent(h, a)
             /\ \A k \in Extent(h, a) :
                    /\ Data(g, a, k) = Data(h, a, k)
                    /\ \A f \in References(Of(h, a)) : Follows(h, a, g, a, M, m, k, f)
  <2>1. /\ Of(g, a) = Of(h, a) /\ Extent(g, a) = Extent(h, a)
        /\ \A k : Data(g, a, k) = Data(h, a, k)
        /\ \A k, f : Ref(g, a, k, f) = Ref(h, a, k, f)
    BY DEF Of, Extent, Data, Ref
  <2>2. ASSUME NEW k \in Extent(h, a), NEW f \in References(Of(h, a))
        PROVE  Follows(h, a, g, a, M, m, k, f)
    <3>1. Ref(h, a, k, f) # Nil => Ref(h, a, k, f) \in M
      BY DEF Leads
    <3>2. QED
      BY <1>2, <2>1, <3>1 DEF Follows
  <2>3. QED
    BY <2>1, <2>2
<1>4. Mirrors(h, M, m, g)
  <2>1. m \in [M -> DOMAIN g]
    BY <1>1
  <2>2. QED
    BY <1>2, <1>3, <2>1 DEF Mirrors
<1>5. PICK rank : Ranks(h, rank, t)
  BY Ranked
<1>6. \A a \in DOMAIN h \cup {Nil} : V[a] = Seen(h, V, a)
  BY ViewIs
<1>7. \A a \in DOMAIN g \cup {Nil} : W[a] = Seen(g, W, a)
  BY ViewIs
<1>8. Nil \notin DOMAIN g
  BY Indices DEF Nil
<1>9. \A a \in M : W[m[a]] = V[a]
  BY <1>4, <1>5, <1>6, <1>7, <1>8, MirrorsLook
<1>10. QED
  BY <1>2, <1>9

-----------------------------------------------------------------------------
(* A copy shows what its source shows.                                       *)

StructSeen(h, V, a, k) ==
    [data |-> Data(h, a, k), refs |-> [f \in References(Of(h, a)) |-> V[Ref(h, a, k, f)]]]

\* What an element shows, from the value of its cell.
LEMMA ElementSeen ==
    ASSUME NEW h, NEW V, \A a \in DOMAIN h \cup {Nil} : V[a] = Seen(h, V, a), Nil \notin DOMAIN h
    PROVE  /\ V[Nil] = [nil |-> TRUE, elems |-> <<>>]
           /\ \A a \in DOMAIN h : DOMAIN V[a].elems = Extent(h, a)
           /\ \A a \in DOMAIN h : \A k \in Extent(h, a) : V[a].elems[k] = StructSeen(h, V, a, k)
           /\ \A a \in DOMAIN h : V[a] = [nil |-> FALSE, elems |-> V[a].elems]
<1>1. V[Nil] = [nil |-> TRUE, elems |-> <<>>]
  <2>1. V[Nil] = Seen(h, V, Nil)
    OBVIOUS
  <2>2. (Nil = Nil) = TRUE
    OBVIOUS
  <2>3. QED
    BY <2>1, <2>2 DEF Seen
<1>2. ASSUME NEW a \in DOMAIN h
      PROVE  /\ DOMAIN V[a].elems = Extent(h, a)
             /\ \A k \in Extent(h, a) : V[a].elems[k] = StructSeen(h, V, a, k)
             /\ V[a] = [nil |-> FALSE, elems |-> V[a].elems]
  <2>1. PICK E : E = [k \in Extent(h, a) |-> StructSeen(h, V, a, k)]
    OBVIOUS
  <2>2. (a = Nil) = FALSE
    OBVIOUS
  <2>3. V[a] = Seen(h, V, a)
    OBVIOUS
  <2>4. Seen(h, V, a) = [nil |-> FALSE, elems |-> E]
    BY <2>1, <2>2 DEF Seen, StructSeen
  <2>5. V[a].elems = E
    BY <2>3, <2>4
  <2>6. QED
    BY <2>1, <2>3, <2>4, <2>5
<1>3. QED
  BY <1>1, <1>2

\* The cells of a copy mirror those they were copied from, but for the root of a clone.
LEMMA CopyMirrors ==
    ASSUME NEW own, Sound(heap, top, objects, own), NEW o, NEW v, NEW N, NEW g,
           Taken(own, o, v, N, g), NEW root, root = Root(objects, o),
           NEW M, M = IF v = "all" THEN N ELSE N \ {root},
           NEW m, m = [b \in M |-> At(top, b)]
    PROVE  Mirrors(heap, M, m, g)
<1>1. /\ o \in DOMAIN objects /\ Whole(heap, objects, own, o, N)
      /\ Copies(heap, top, root, v, N, g) /\ v \in Asked
  BY DEF Taken
<1>2. M \subseteq N /\ N \subseteq DOMAIN heap
  BY <1>1, Moved
<1>3. m \in [M -> DOMAIN g]
  BY <1>1, <1>2 DEF Copies
<1>4. \A a, k, f : a \in M /\ Leads(heap, a, k, f) => Ref(heap, a, k, f) \in M
  <2>1. \A a, k, f : a \in M /\ Leads(heap, a, k, f) => Ref(heap, a, k, f) \in N
    BY <1>1, <1>2 DEF Whole
  <2>2. root \in RootCells(objects)
    BY <1>1 DEF RootCells
  <2>3. \A a, k, f : Leads(heap, a, k, f) => Ref(heap, a, k, f) # root
    BY <2>2 DEF Sound, RefsTyped
  <2>4. QED
    BY <2>1, <2>3
<1>5. ASSUME NEW a \in M
      PROVE  /\ Of(g, m[a]) = Of(heap, a) /\ Extent(g, m[a]) = Extent(heap, a)
             /\ \A k \in Extent(heap, a) :
                    /\ Data(g, m[a], k) = Data(heap, a, k)
                    /\ \A f \in References(Of(heap, a)) : Follows(heap, a, g, m[a], M, m, k, f)
  <2>1. m[a] = At(top, a) /\ a \in N /\ a \in DOMAIN heap
    BY <1>2
  <2>2. /\ Of(g, m[a]) = Of(heap, a) /\ Extent(g, m[a]) = Extent(heap, a)
        /\ \A k \in Extent(heap, a) : Data(g, m[a], k) = Data(heap, a, k)
    BY <1>1, <2>1 DEF Copies
  <2>3. a # root \/ Over(v) = {}
    BY DEF Over
  <2>4. ASSUME NEW k \in Extent(heap, a), NEW f \in References(Of(heap, a))
        PROVE  Follows(heap, a, g, m[a], M, m, k, f)
    <3>1. Ref(g, m[a], k, f) = IF Ref(heap, a, k, f) = Nil THEN Nil
                               ELSE At(top, Ref(heap, a, k, f))
      <4>1. a # root \/ f \notin Over(v)
        BY <2>3
      <4>2. QED
        BY <1>1, <2>1, <4>1 DEF Copies
    <3>2. CASE Ref(heap, a, k, f) = Nil
      BY <3>1, <3>2 DEF Follows
    <3>3. CASE Ref(heap, a, k, f) # Nil
      <4>1. Ref(heap, a, k, f) \in M
        BY <1>4, <2>1, <3>3 DEF Leads
      <4>2. QED
        BY <3>1, <3>3, <4>1 DEF Follows
    <3>4. QED
      BY <3>2, <3>3
  <2>5. QED
    BY <2>2, <2>4
<1>6. QED
  BY <1>2, <1>3, <1>5 DEF Mirrors

\* What is seen from the old cells and from those of the copy.
LEMMA CopyLooks ==
    ASSUME NEW own, Sound(heap, top, objects, own), NEW o, NEW v, NEW N, NEW g,
           Taken(own, o, v, N, g), NEW root, root = Root(objects, o),
           NEW V, V = View(heap), NEW W, W = View(g)
    PROVE  /\ \A a \in DOMAIN heap \cup {Nil} : V[a] = Seen(heap, V, a)
           /\ \A a \in DOMAIN g \cup {Nil} : W[a] = Seen(g, W, a)
           /\ Nil \notin DOMAIN heap /\ Nil \notin DOMAIN g
           /\ \A a \in DOMAIN heap : W[a] = V[a]
           /\ \A b \in N : b # root \/ v = "all" => W[At(top, b)] = V[b]
<1>1. /\ o \in DOMAIN objects /\ Whole(heap, objects, own, o, N)
      /\ Copies(heap, top, root, v, N, g) /\ v \in Asked
  BY DEF Taken
<1>2. PICK all, new : Sound(g, 2 * top, all, new)
  BY <1>1, CopyStep DEF Taken
<1>3. \A a \in DOMAIN heap \cup {Nil} : V[a] = Seen(heap, V, a)
  BY ViewIs
<1>4. \A a \in DOMAIN g \cup {Nil} : W[a] = Seen(g, W, a)
  BY <1>2, ViewIs
<1>5. Nil \notin DOMAIN heap /\ Nil \notin DOMAIN g
  BY <1>2, Indices DEF Nil
<1>6. \A a \in DOMAIN heap : W[a] = V[a]
  <2>1. DOMAIN heap \subseteq DOMAIN g /\ \A a \in DOMAIN heap : g[a] = heap[a]
    BY <1>1 DEF Copies
  <2>2. \A a \in DOMAIN heap : \A k, f : Leads(heap, a, k, f) => Ref(heap, a, k, f) \in DOMAIN heap
    BY DEF Sound, RefsTyped
  <2>3. PICK M : M = DOMAIN heap
    OBVIOUS
  <2>4. /\ M \in SUBSET DOMAIN heap /\ M \subseteq DOMAIN g /\ \A a \in M : g[a] = heap[a]
        /\ \A a \in M : \A k, f : Leads(heap, a, k, f) => Ref(heap, a, k, f) \in M
    BY <2>1, <2>2, <2>3
  <2>5. \A a \in M : W[a] = V[a]
    BY <1>2, <2>4, UnchangedLook
  <2>6. QED
    BY <2>3, <2>5
<1>7. PICK M, m : M = (IF v = "all" THEN N ELSE N \ {root}) /\ m = [b \in M |-> At(top, b)]
  OBVIOUS
<1>8. Mirrors(heap, M, m, g)
  BY <1>7, CopyMirrors
<1>9. PICK rank : Ranks(heap, rank, top)
  BY Ranked
<1>10. \A a \in M : W[m[a]] = V[a]
  BY <1>3, <1>4, <1>5, <1>8, <1>9, MirrorsLook
<1>11. ASSUME NEW b \in N, b # root \/ v = "all" PROVE W[At(top, b)] = V[b]
  BY <1>7, <1>10, <1>11
<1>12. QED
  BY <1>3, <1>4, <1>5, <1>6, <1>11

BaseSeen(v, s) == IF v = "" THEN <<>> ELSE s.refs["Versions"].elems[v].refs

\* What the holder of a clone has instead of what the source has.
LEMMA CloneLends ==
    ASSUME NEW own, Sound(heap, top, objects, own), NEW o, NEW v, NEW N, NEW g,
           Taken(own, o, v, N, g), v # "all", NEW root, root = Root(objects, o),
           NEW V, V = View(heap), NEW W, W = View(g), NEW s, s = V[root].elems[1],
           NEW base, base = BaseSeen(v, s)
    PROVE  /\ Over(v) = {"Versions"} \cup DOMAIN base /\ DOMAIN base \subseteq Base
           /\ \A f \in DOMAIN base : base[f] = W[Ref(g, At(top, root), 1, f)]
<1>1. /\ o \in DOMAIN objects /\ v \in Asked /\ Of(heap, root) = "Kamelet"
      /\ Copies(heap, top, root, v, N, g) /\ Overwrites(heap, top, root, v, g)
  BY DEF Taken, Overwrites
<1>2. CASE v \notin Keys
  <2>1. base = <<>>
    BY <1>1, <1>2 DEF Asked, BaseSeen
  <2>2. DOMAIN base = {}
    BY <2>1
  <2>3. Over(v) = {"Versions"}
    BY <1>1, <1>2 DEF Asked, Over
  <2>4. QED
    BY <2>2, <2>3
<1>3. CASE v \in Keys
  <2>1. v # ""
    BY <1>3, HeapAssumption
  <2>2. base = s.refs["Versions"].elems[v].refs
    BY <2>1 DEF BaseSeen
  <2>3. Over(v) = {"Versions"} \cup Base
    BY <1>1, <1>3, OverAre
  <2>4. PICK vs : vs = Ref(heap, root, 1, "Versions")
    OBVIOUS
  <2>5. /\ vs # Nil /\ v \in Extent(heap, vs)
        /\ \A f \in Base : Ref(g, At(top, root), 1, f) = Ref(heap, vs, v, f)
    BY <1>1, <1>3, <2>4 DEF Overwrites
  <2>6. root \in DOMAIN heap /\ 1 \in Extent(heap, root)
    BY <1>1 DEF Sound, Rooted
  <2>7. Leads(heap, root, 1, "Versions")
    BY <1>1, <2>4, <2>5, <2>6, BaseTables DEF Leads
  <2>8. vs \in DOMAIN heap /\ Of(heap, vs) = "KameletSpecBase"
    <3>1. vs \in DOMAIN heap /\ Of(heap, vs) = FieldsOf[Of(heap, root)]["Versions"].of
      BY <2>4, <2>7 DEF Sound, RefsTyped
    <3>2. QED
      BY <1>1, <3>1, BaseTables DEF Map
  <2>9. /\ \A a \in DOMAIN heap : \A k \in Extent(heap, a) :
               V[a].elems[k] = StructSeen(heap, V, a, k)
        /\ \A a \in DOMAIN heap : W[a] = V[a]
        /\ W[Nil] = V[Nil]
    <3>1. /\ \A a \in DOMAIN heap \cup {Nil} : V[a] = Seen(heap, V, a)
          /\ \A a \in DOMAIN g \cup {Nil} : W[a] = Seen(g, W, a)
          /\ Nil \notin DOMAIN heap /\ Nil \notin DOMAIN g
          /\ \A a \in DOMAIN heap : W[a] = V[a]
      BY CopyLooks
    <3>2. \A a \in DOMAIN heap : \A k \in Extent(heap, a) :
              V[a].elems[k] = StructSeen(heap, V, a, k)
      BY <3>1, ElementSeen
    <3>3. V[Nil] = [nil |-> TRUE, elems |-> <<>>]
      BY <3>1, ElementSeen
    <3>4. W[Nil] = [nil |-> TRUE, elems |-> <<>>]
      BY <3>1, ElementSeen
    <3>5. QED
      BY <3>1, <3>2, <3>3, <3>4
  <2>10. s.refs["Versions"] = V[vs]
    <3>1. s = StructSeen(heap, V, root, 1)
      BY <2>6, <2>9
    <3>2. "Versions" \in References(Of(heap, root))
      BY <2>7 DEF Leads
    <3>3. QED
      BY <2>4, <3>1, <3>2 DEF StructSeen
  <2>11. base = StructSeen(heap, V, vs, v).refs
    BY <2>2, <2>5, <2>8, <2>9, <2>10
  <2>12. DOMAIN base = Base /\ \A f \in Base : base[f] = V[Ref(heap, vs, v, f)]
    BY <2>8, <2>11 DEF StructSeen, Base
  <2>13. ASSUME NEW f \in Base PROVE W[Ref(heap, vs, v, f)] = V[Ref(heap, vs, v, f)]
    <3>1. CASE Ref(heap, vs, v, f) = Nil
      BY <2>9, <3>1
    <3>2. CASE Ref(heap, vs, v, f) # Nil
      <4>1. Leads(heap, vs, v, f)
        BY <2>5, <2>8, <3>2 DEF Leads, Base
      <4>2. Ref(heap, vs, v, f) \in DOMAIN heap
        BY <4>1 DEF Sound, RefsTyped
      <4>3. QED
        BY <2>9, <4>2
    <3>3. QED
      BY <3>1, <3>2
  <2>14. QED
    BY <2>3, <2>5, <2>12, <2>13
<1>4. QED
  BY <1>2, <1>3

CloneSeen(s, base) ==
    [s EXCEPT !.refs = [Versions |-> [nil |-> TRUE, elems |-> <<>>]] ++ base ++ @]

LEMMA CopyShows ==
    ASSUME NEW own, Sound(heap, top, objects, own), NEW o, NEW v, NEW N, NEW g,
           Taken(own, o, v, N, g), NEW root, root = Root(objects, o),
           NEW V, V = View(heap), NEW W, W = View(g), NEW s, s = V[root].elems[1],
           NEW base, base = BaseSeen(v, s)
    PROVE  W[At(top, root)].elems[1] =
               IF v = "all" THEN s ELSE CloneSeen(s, base)
<1>1. /\ o \in DOMAIN objects /\ v \in Asked /\ root \in N
      /\ Copies(heap, top, root, v, N, g) /\ Overwrites(heap, top, root, v, g)
  BY DEF Taken, Whole
<1>2. /\ \A a \in DOMAIN heap \cup {Nil} : V[a] = Seen(heap, V, a)
      /\ \A a \in DOMAIN g \cup {Nil} : W[a] = Seen(g, W, a)
      /\ Nil \notin DOMAIN heap /\ Nil \notin DOMAIN g
      /\ \A b \in N : b # root \/ v = "all" => W[At(top, b)] = V[b]
  BY CopyLooks
<1>3. CASE v = "all"
  BY <1>1, <1>2, <1>3
<1>4. CASE v # "all"
  <2>1. PICK r, e, n : /\ r = At(top, root) /\ e = W[r].elems[1]
                       /\ n = [nil |-> TRUE, elems |-> <<>>]
    OBVIOUS
  <2>2. root \in DOMAIN heap /\ Extent(heap, root) = {1} /\ Of(heap, root) = "Kamelet"
    BY <1>1, <1>4 DEF Sound, Rooted, Overwrites
  <2>3. /\ r \in DOMAIN g /\ Extent(g, r) = {1} /\ Of(g, r) = "Kamelet"
        /\ Data(g, r, 1) = Data(heap, root, 1)
    BY <1>1, <2>1, <2>2 DEF Copies
  <2>4. /\ V[Nil] = n /\ \A a \in DOMAIN heap : \A k \in Extent(heap, a) :
               V[a].elems[k] = StructSeen(heap, V, a, k)
    BY <1>2, <2>1, ElementSeen
  <2>5. /\ W[Nil] = n /\ \A a \in DOMAIN g : \A k \in Extent(g, a) :
               W[a].elems[k] = StructSeen(g, W, a, k)
    BY <1>2, <2>1, ElementSeen
  <2>6. PICK K : K = References("Kamelet")
    OBVIOUS
  <2>7. s = [data |-> Data(heap, root, 1), refs |-> [f \in K |-> V[Ref(heap, root, 1, f)]]]
    BY <2>2, <2>4, <2>6 DEF StructSeen
  <2>8. e = [data |-> Data(heap, root, 1), refs |-> [f \in K |-> W[Ref(g, r, 1, f)]]]
    BY <2>1, <2>3, <2>5, <2>6 DEF StructSeen
  <2>9. /\ Over(v) = {"Versions"} \cup DOMAIN base /\ DOMAIN base \subseteq Base
        /\ \A f \in DOMAIN base : base[f] = W[Ref(g, r, 1, f)]
    BY <1>4, <2>1, CloneLends
  <2>10. PICK over : over = [Versions |-> n] ++ base ++ s.refs
    OBVIOUS
  <2>11. /\ "Versions" \notin Base /\ {"Versions"} \cup Base \subseteq K
         /\ Ref(g, r, 1, "Versions") = Nil
    BY <1>1, <1>4, <2>1, <2>6, BaseTables DEF Base, Overwrites
  <2>12. /\ DOMAIN over = K /\ over["Versions"] = n
         /\ \A f \in DOMAIN base : over[f] = base[f]
         /\ \A f \in K \ Over(v) : over[f] = V[Ref(heap, root, 1, f)]
    <3>1. PICK first, second : first = [Versions |-> n] /\ second = first ++ base
      OBVIOUS
    <3>2. DOMAIN first = {"Versions"} /\ first["Versions"] = n
      BY <3>1
    <3>3. DOMAIN s.refs = K /\ \A f \in K : s.refs[f] = V[Ref(heap, root, 1, f)]
      BY <2>7
    <3>4. over = second ++ s.refs
      BY <2>10, <3>1
    <3>5. /\ DOMAIN second = {"Versions"} \cup DOMAIN base
          /\ second["Versions"] = n
          /\ \A f \in DOMAIN base : second[f] = base[f]
      BY <2>9, <2>11, <3>1, <3>2 DEF ++
    <3>6. DOMAIN second \subseteq K
      BY <2>9, <2>11, <3>5
    <3>7. DOMAIN over = K
      BY <3>3, <3>4, <3>6 DEF ++
    <3>8. /\ \A f \in DOMAIN second : over[f] = second[f]
          /\ \A f \in K \ DOMAIN second : over[f] = s.refs[f]
      BY <3>3, <3>4 DEF ++
    <3>9. QED
      BY <2>9, <3>3, <3>5, <3>7, <3>8
  <2>13. ASSUME NEW f \in K \ Over(v) PROVE V[Ref(heap, root, 1, f)] = W[Ref(g, r, 1, f)]
    <3>1. Ref(g, r, 1, f) = IF Ref(heap, root, 1, f) = Nil THEN Nil
                            ELSE At(top, Ref(heap, root, 1, f))
      BY <1>1, <2>1, <2>2, <2>6 DEF Copies
    <3>2. CASE Ref(heap, root, 1, f) = Nil
      BY <2>4, <2>5, <3>1, <3>2
    <3>3. CASE Ref(heap, root, 1, f) # Nil
      <4>1. Leads(heap, root, 1, f)
        BY <2>2, <2>6, <3>3 DEF Leads
      <4>2. Ref(heap, root, 1, f) \in N
        BY <1>1, <4>1 DEF Taken, Whole
      <4>3. Ref(heap, root, 1, f) # root
        <5>1. root \in RootCells(objects)
          BY <1>1 DEF RootCells
        <5>2. QED
          BY <4>1, <5>1 DEF Sound, RefsTyped
      <4>4. QED
        BY <1>2, <3>1, <3>3, <4>2, <4>3
    <3>4. QED
      BY <3>2, <3>3
  <2>14. \A f \in K : over[f] = W[Ref(g, r, 1, f)]
    <3>1. over["Versions"] = W[Ref(g, r, 1, "Versions")]
      BY <2>5, <2>11, <2>12
    <3>2. \A f \in DOMAIN base : over[f] = W[Ref(g, r, 1, f)]
      BY <2>9, <2>12
    <3>3. \A f \in K \ Over(v) : over[f] = W[Ref(g, r, 1, f)]
      BY <2>12, <2>13
    <3>4. QED
      BY <2>9, <3>1, <3>2, <3>3
  <2>15. over = [f \in K |-> W[Ref(g, r, 1, f)]]
    <3>1. over = [f \in K |-> over[f]]
      BY <2>10, <2>12 DEF ++
    <3>2. QED
      BY <2>14, <3>1
  <2>16. [s EXCEPT !.refs = over] = e
    BY <2>7, <2>8, <2>15
  <2>17. [s EXCEPT !.refs = [Versions |-> n] ++ base ++ @] = [s EXCEPT !.refs = over]
    BY <2>7, <2>10
  <2>18. QED
    BY <1>4, <2>1, <2>16, <2>17 DEF CloneSeen
<1>5. QED
  BY <1>3, <1>4

LEMMA CopyStepShows ==
    ASSUME IInv, DoDeepCopy \/ DoCloneWithVersion
    PROVE  CopyShowsSource
<1>1. PICK own : Sound(heap, top, objects, own)
  BY DEF IInv
<1>2. PICK o, v, N, g : Taken(own, o, v, N, g)
  BY <1>1, CopyTaken
<1>3. PICK root, V, W, s, base, n :
          /\ root = Root(objects, o) /\ V = View(heap) /\ W = View(g)
          /\ s = V[root].elems[1] /\ base = BaseSeen(v, s) /\ n = Len(objects) + 1
  OBVIOUS
<1>4. /\ o \in DOMAIN objects /\ v \in Asked /\ heap' = g
      /\ objects' = Append(objects, [root |-> At(top, root), source |-> o, version |-> v])
  BY <1>2, <1>3 DEF Taken, Take, Root, At
<1>5. /\ Len(objects') = n /\ objects'[n].root = At(top, root)
      /\ objects'[n].source = o /\ objects'[n].version = v
  <2>1. Len(objects) \in Nat
    BY <1>1, Indices
  <2>2. PICK S : objects \in Seq(S)
    BY <1>1 DEF Sound, Rooted
  <2>3. QED
    BY <1>3, <1>4, <2>1, <2>2
<1>6. W[At(top, root)].elems[1] =
          IF v = "all" THEN s ELSE CloneSeen(s, base)
  BY <1>1, <1>2, <1>3, CopyShows
<1>7. Shown(o) = s
  BY <1>3 DEF Shown, Root
<1>8. Shown(Len(objects))' = W[At(top, root)].elems[1]
  BY <1>3, <1>4, <1>5 DEF Shown
<1>9. Len(objects') > Len(objects) /\ n = Len(objects) + 1
  BY <1>1, <1>3, <1>5, Indices
<1>10. CopyShowsSource <=>
          Shown(Len(objects))' =
              IF v = "all" THEN Shown(o) ELSE CloneSeen(Shown(o), BaseSeen(v, Shown(o)))
  BY <1>5, <1>9 DEF CopyShowsSource, CloneSeen, BaseSeen
<1>11. QED
  BY <1>3, <1>6, <1>7, <1>8, <1>10

LEMMA CopiesShow ==
    ASSUME IInv, [Next]_vars
    PROVE  CopyShowsSource
<1>1. CASE DoDeepCopy \/ DoCloneWithVersion
  BY <1>1, CopyStepShows
<1>2. CASE objects' = objects
  <2>1. ~ (Len(objects') > Len(objects))
    <3>1. Len(objects) \in Nat
      BY Indices DEF IInv
    <3>2. QED
      BY <1>2, <3>1
  <2>2. QED
    BY <2>1 DEF CopyShowsSource
<1>3. QED
  BY <1>1, <1>2 DEF Next, Populate, Publish, Write, UnmarshalJSON, vars

\* DeepCopy hands out what its receiver holds, and CloneWithVersion the same with
\* the pointers, slices and maps of the version for those of its spec
\* (zz_generated.deepcopy.go, kamelet_types_support.go:214-229), whatever has been
\* written before. The name is among what the clone keeps, against its comment,
\* as ClonesRenamed of KameletHeap shows.
THEOREM CopiesShowTheirSource == Spec => CopiesEqual
<1>1. IInv /\ [Next]_vars => [CopyShowsSource]_vars
  BY CopiesShow
<1>2. QED
  BY <1>1, Ownership, PTL DEF Spec, CopiesEqual

-----------------------------------------------------------------------------
(* What is written through one object, the others do not see, but for the    *)
(* version that a clone was made from.                                       *)

VersionSeen(s, v, w) == [s EXCEPT !.refs["Versions"].elems[v] = w.refs["Versions"].elems[v]]

\* Values that differ in nothing but the element v of what the field e leads to.
DifferAt(s, w, z, d, K, F, G, X, A, B, e, v) ==
    /\ s = [data |-> d, refs |-> F] /\ w = [data |-> d, refs |-> G]
    /\ F = [f \in K |-> F[f]] /\ G = [f \in K |-> G[f]] /\ e \in K
    /\ \A f \in K : f # e => F[f] = G[f]
    /\ F[e] = [nil |-> z, elems |-> A] /\ G[e] = [nil |-> z, elems |-> B]
    /\ A = [k \in X |-> A[k]] /\ B = [k \in X |-> B[k]] /\ v \in X
    /\ \A k \in X : k # v => A[k] = B[k]

LEMMA OneElement ==
    ASSUME NEW s, NEW w, NEW z, NEW d, NEW K, NEW F, NEW G, NEW X, NEW A, NEW B, NEW v,
           DifferAt(s, w, z, d, K, F, G, X, A, B, "Versions", v)
    PROVE  w = VersionSeen(s, v, w)
<1>1. PICK e : e = "Versions"
  OBVIOUS
<1>2. /\ s = [data |-> d, refs |-> F] /\ w = [data |-> d, refs |-> G]
      /\ F = [f \in K |-> F[f]] /\ G = [f \in K |-> G[f]] /\ e \in K
      /\ \A f \in K : f # e => F[f] = G[f]
      /\ F[e] = [nil |-> z, elems |-> A] /\ G[e] = [nil |-> z, elems |-> B]
      /\ A = [k \in X |-> A[k]] /\ B = [k \in X |-> B[k]] /\ v \in X
      /\ \A k \in X : k # v => A[k] = B[k]
  BY <1>1 DEF DifferAt
<1>3. w.refs[e].elems[v] = B[v]
  BY <1>2
<1>4. [A EXCEPT ![v] = B[v]] = B
  BY <1>2
<1>5. [F[e] EXCEPT !.elems[v] = B[v]] = G[e]
  <2>1. PICK p : p = F[e]
    OBVIOUS
  <2>2. p = [nil |-> z, elems |-> A]
    BY <1>2, <2>1
  <2>3. [p.elems EXCEPT ![v] = B[v]] = B
    BY <1>4, <2>2
  <2>4. [p EXCEPT !.elems[v] = B[v]] = [p EXCEPT !.elems = B]
    BY <2>3
  <2>5. [p EXCEPT !.elems = B] = [nil |-> z, elems |-> B]
    BY <2>2
  <2>6. QED
    BY <1>2, <2>1, <2>4, <2>5
<1>6. [F EXCEPT ![e].elems[v] = B[v]] = G
  <2>1. [F EXCEPT ![e].elems[v] = B[v]] = [F EXCEPT ![e] = G[e]]
    BY <1>5
  <2>2. [F EXCEPT ![e] = G[e]] = G
    BY <1>2
  <2>3. QED
    BY <2>1, <2>2
<1>7. [s EXCEPT !.refs[e].elems[v] = B[v]] = w
  <2>1. s.refs = F
    BY <1>2
  <2>2. [s EXCEPT !.refs[e].elems[v] = B[v]] = [s EXCEPT !.refs = G]
    BY <1>6, <2>1
  <2>3. [s EXCEPT !.refs = G] = w
    BY <1>2
  <2>4. QED
    BY <2>2, <2>3
<1>8. QED
  BY <1>1, <1>3, <1>7 DEF VersionSeen

\* A cell of one object is changed, and what it leads to may grow: what another
\* object that is no clone shows then.
LEMMA OthersLook ==
    ASSUME NEW own, Sound(heap, top, objects, own),
           NEW g, NEW u, NEW all, NEW new, Sound(g, u, all, new),
           NEW w \in DOMAIN objects, NEW c \in Holds(w), DOMAIN heap \subseteq DOMAIN g,
           \A a \in DOMAIN heap : a # c => g[a] = heap[a],
           NEW o \in DOMAIN objects, o # w, ~ Clone(objects, o),
           NEW root, root = Root(objects, o), NEW v, v = Version(objects, w),
           NEW s, s = View(heap)[root].elems[1], NEW n, n = View(g)[root].elems[1]
    PROVE  n = s \/ (Source(objects, w) = o /\ v \in Keys /\ n = VersionSeen(s, v, n))
<1>1. PICK R, V, W : R = Region(heap, objects, own, o) /\ V = View(heap) /\ W = View(g)
  OBVIOUS
<1>2. /\ R \subseteq DOMAIN heap /\ root \in R
      /\ \A a \in R : \A k, f : Leads(heap, a, k, f) => Ref(heap, a, k, f) \in R
      /\ \A a \in R : own[a] = o
      /\ \A a \in R : a \in RootCells(objects) => a = root
  BY <1>1, RegionClosed DEF Region
<1>3. ASSUME NEW M \in SUBSET R, c \notin M,
             \A a \in M : \A k, f : Leads(heap, a, k, f) => Ref(heap, a, k, f) \in M
      PROVE  \A a \in M : W[a] = V[a]
  <2>1. /\ M \in SUBSET DOMAIN heap /\ M \subseteq DOMAIN g /\ \A a \in M : g[a] = heap[a]
    BY <1>2, <1>3
  <2>2. QED
    BY <1>1, <1>3, <2>1, UnchangedLook
<1>4. CASE c \notin R
  <2>1. \A a \in R : W[a] = V[a]
    BY <1>2, <1>3, <1>4
  <2>2. QED
    BY <1>1, <1>2, <2>1
<1>5. CASE c \in R
  <2>1. /\ Clone(objects, w) /\ Source(objects, w) = o
        /\ c \in VersionCells(o, v)
    BY <1>2, <1>5, HoldsOwnOrVersion
  <2>2. PICK vs, cells : vs = VersionsCell(heap, objects, w) /\ cells = VersionCells(o, v)
    OBVIOUS
  <2>3. /\ vs \in DOMAIN heap /\ vs \notin RootCells(objects) /\ own[vs] = o
        /\ v \in Extent(heap, vs) /\ Of(heap, root) = "Kamelet" /\ v \in Keys
        /\ vs = Ref(heap, root, 1, "Versions") /\ vs # Nil
    <3>1. /\ vs \in DOMAIN heap /\ vs \notin RootCells(objects) /\ own[vs] = o
          /\ v \in Extent(heap, vs)
      BY <2>1, <2>2, LenderCell
    <3>2. Of(heap, root) = "Kamelet" /\ vs # Nil
      BY <2>1, <2>2 DEF Sound, ClonesBorrow
    <3>3. QED
      BY <2>1, <2>2, <3>1, <3>2 DEF Clone, VersionsCell
  <2>4. /\ \A b \in cells : b \notin RootCells(objects) /\ vs < b
        /\ \A b \in cells : \E a, k, f :
               Leads(heap, a, k, f) /\ b = Ref(heap, a, k, f) /\ ((a = vs /\ k = v) \/ a \in cells)
    <3>1. \A b \in cells : b \notin RootCells(objects) /\ vs < b
      BY <2>1, <2>2, VersionCellsAre
    <3>2. \A b \in cells : \E a, k, f :
              Leads(heap, a, k, f) /\ b = Ref(heap, a, k, f) /\ ((a = vs /\ k = v) \/ a \in cells)
      BY <2>1, <2>2, VersionCellsAre
    <3>3. QED
      BY <3>1, <3>2
  <2>5. \A a \in R : \A f : ~ Borrowed(objects, a, f)
    BY <1>2 DEF Borrowed, RootCells, Clone, Sound, Owned
  <2>6. root \in RootCells(objects) /\ root \in DOMAIN heap /\ Extent(heap, root) = {1}
    BY DEF RootCells, Sound, Rooted
  <2>7. Leads(heap, root, 1, "Versions")
    BY <2>3, <2>6, BaseTables DEF Leads
  <2>8. \A b \in cells : b \in DOMAIN heap /\ own[b] = o
    BY <2>1, <2>2, VersionCellsAre
  \* Only the version leads to its cells, and only the root to the versions.
  <2>9. ASSUME NEW a \in R, NEW k, NEW f, Leads(heap, a, k, f)
        PROVE  /\ Ref(heap, a, k, f) \in cells => (a = vs /\ k = v) \/ a \in cells
               /\ Ref(heap, a, k, f) = vs => a = root /\ f = "Versions"
               /\ Ref(heap, a, k, f) # root /\ Ref(heap, a, k, f) \in R
    <3>1. PICK b : b = Ref(heap, a, k, f)
      OBVIOUS
    <3>2. ASSUME b \in cells PROVE (a = vs /\ k = v) \/ a \in cells
      <4>1. PICK d, l, e :
                Leads(heap, d, l, e) /\ b = Ref(heap, d, l, e) /\ ((d = vs /\ l = v) \/ d \in cells)
        BY <2>4, <3>2
      <4>2. ~ Borrowed(objects, d, e)
        BY <2>3, <2>4, <4>1 DEF Borrowed, RootCells, Clone
      <4>3. a = d /\ k = l
        BY <2>5, <2>9, <3>1, <4>1, <4>2 DEF Sound, OneParent
      <4>4. QED
        BY <4>1, <4>3
    <3>3. ASSUME b = vs PROVE a = root /\ f = "Versions"
      <4>1. PICK e : e = "Versions"
        OBVIOUS
      <4>2. /\ Leads(heap, root, 1, e) /\ vs = Ref(heap, root, 1, e)
            /\ ~ Borrowed(objects, root, e) /\ ~ Borrowed(objects, a, f)
        BY <1>2, <2>3, <2>5, <2>7, <4>1
      <4>3. a = root /\ f = e
        BY <2>9, <3>1, <3>3, <4>2 DEF Sound, OneParent
      <4>4. QED
        BY <4>1, <4>3
    <3>4. b # root
      BY <2>6, <2>9, <3>1 DEF Sound, RefsTyped
    <3>5. QED
      BY <1>2, <2>9, <3>1, <3>2, <3>3, <3>4
  <2>10. PICK M : M = R \ (cells \cup {vs, root})
    OBVIOUS
  <2>11. \A a \in M : W[a] = V[a]
    <3>1. \A a \in M : \A k, f : Leads(heap, a, k, f) => Ref(heap, a, k, f) \in M
      BY <2>9, <2>10
    <3>2. QED
      BY <1>3, <2>1, <2>2, <2>10, <3>1
  <2>12. g[root] = heap[root] /\ g[vs] = heap[vs] /\ vs # root /\ vs \in R
    <3>1. c # root /\ c # vs
      <4>1. \A b \in DOMAIN heap : b \in Nat
        BY Indices
      <4>2. QED
        BY <2>1, <2>2, <2>3, <2>4, <2>6, <4>1
    <3>2. vs \in R
      BY <1>1, <2>3 DEF Region
    <3>3. QED
      BY <2>3, <2>6, <3>1, <3>2
  <2>13. /\ \A a \in DOMAIN heap \cup {Nil} : V[a] = Seen(heap, V, a)
         /\ \A a \in DOMAIN g \cup {Nil} : W[a] = Seen(g, W, a)
         /\ Nil \notin DOMAIN heap /\ Nil \notin DOMAIN g
    <3>1. \A a \in DOMAIN heap \cup {Nil} : V[a] = Seen(heap, V, a)
      BY <1>1, ViewIs
    <3>2. \A a \in DOMAIN g \cup {Nil} : W[a] = Seen(g, W, a)
      BY <1>1, ViewIs
    <3>3. Nil \notin DOMAIN heap /\ Nil \notin DOMAIN g
      BY Indices DEF Nil
    <3>4. QED
      BY <3>1, <3>2, <3>3
  <2>14. PICK e, z, d, K, F, G, X, A, B :
             /\ e = "Versions" /\ z = FALSE /\ d = Data(heap, root, 1) /\ K = References(Of(heap, root))
             /\ F = [f \in K |-> V[Ref(heap, root, 1, f)]]
             /\ G = [f \in K |-> W[Ref(heap, root, 1, f)]]
             /\ X = Extent(heap, vs)
             /\ A = [k \in X |-> StructSeen(heap, V, vs, k)]
             /\ B = [k \in X |-> StructSeen(heap, W, vs, k)]
    OBVIOUS
  <2>15. /\ \A k : StructSeen(g, W, root, k) = StructSeen(heap, W, root, k)
         /\ \A k : StructSeen(g, W, vs, k) = StructSeen(heap, W, vs, k)
         /\ Extent(g, vs) = Extent(heap, vs) /\ Extent(g, root) = Extent(heap, root)
    BY <2>12 DEF StructSeen, Data, Of, Ref, Extent
  <2>16. /\ V[Nil] = [nil |-> TRUE, elems |-> <<>>]
         /\ \A a \in DOMAIN heap : \A k \in Extent(heap, a) :
                V[a].elems[k] = StructSeen(heap, V, a, k)
    BY <2>13, ElementSeen
  <2>17. /\ W[Nil] = [nil |-> TRUE, elems |-> <<>>]
         /\ \A a \in DOMAIN g : \A k \in Extent(g, a) :
                W[a].elems[k] = StructSeen(g, W, a, k)
    BY <2>13, ElementSeen
  <2>18. s = [data |-> d, refs |-> F]
    BY <1>1, <2>6, <2>14, <2>16 DEF StructSeen
  <2>19. n = [data |-> d, refs |-> G]
    <3>1. n = StructSeen(heap, W, root, 1)
      BY <1>1, <2>6, <2>15, <2>17
    <3>2. QED
      BY <2>14, <3>1 DEF StructSeen
  <2>20. F[e] = [nil |-> z, elems |-> A] /\ G[e] = [nil |-> z, elems |-> B] /\ e \in K
    <3>1. e \in K /\ F[e] = V[vs] /\ G[e] = W[vs]
      BY <2>3, <2>7, <2>14 DEF Leads
    <3>2. V[vs] = [nil |-> z, elems |-> A]
      <4>1. V[vs] = Seen(heap, V, vs)
        BY <2>3, <2>13
      <4>2. Seen(heap, V, vs) = [nil |-> FALSE, elems |-> A]
        BY <2>3, <2>14 DEF Seen, StructSeen
      <4>3. QED
        BY <2>14, <4>1, <4>2
    <3>3. W[vs] = [nil |-> z, elems |-> B]
      <4>1. W[vs] = Seen(g, W, vs)
        BY <2>3, <2>13
      <4>2. B = [k \in Extent(g, vs) |-> StructSeen(g, W, vs, k)]
        BY <2>14, <2>15
      <4>3. Seen(g, W, vs) = [nil |-> FALSE, elems |-> B]
        BY <2>3, <4>2 DEF Seen, StructSeen
      <4>4. QED
        BY <2>14, <4>1, <4>3
    <3>4. QED
      BY <3>1, <3>2, <3>3
  <2>21. ASSUME NEW a \in {root, vs}, NEW k \in Extent(heap, a), NEW f \in References(Of(heap, a)),
                a = root => f # e, a = vs => k # v
         PROVE  W[Ref(heap, a, k, f)] = V[Ref(heap, a, k, f)]
    <3>1. CASE Ref(heap, a, k, f) = Nil
      BY <2>16, <2>17, <3>1
    <3>2. CASE Ref(heap, a, k, f) # Nil
      <4>1. a \in R /\ Leads(heap, a, k, f)
        BY <1>2, <2>3, <2>6, <2>12, <2>21, <3>2 DEF Leads
      <4>2. a \notin cells
        <5>1. vs \in Nat
          BY <2>3, Indices
        <5>2. ~ (vs < vs)
          BY <5>1
        <5>3. QED
          BY <2>4, <2>6, <5>2
      <4>3. Ref(heap, a, k, f) \in M
        BY <2>9, <2>10, <2>12, <2>14, <2>21, <4>1, <4>2
      <4>4. QED
        BY <2>11, <4>3
    <3>3. QED
      BY <3>1, <3>2
  <2>22. \A f \in K : f # e => F[f] = G[f]
    <3>1. \A f \in K : f # e => W[Ref(heap, root, 1, f)] = V[Ref(heap, root, 1, f)]
      BY <2>6, <2>12, <2>14, <2>21
    <3>2. QED
      BY <2>14, <3>1
  <2>23. \A k \in X : k # v => A[k] = B[k]
    <3>1. ASSUME NEW k \in X, k # v PROVE StructSeen(heap, V, vs, k) = StructSeen(heap, W, vs, k)
      <4>1. \A f \in References(Of(heap, vs)) : W[Ref(heap, vs, k, f)] = V[Ref(heap, vs, k, f)]
        BY <2>12, <2>14, <2>21, <3>1
      <4>2. QED
        BY <4>1 DEF StructSeen
    <3>2. QED
      BY <2>14, <3>1
  <2>24. DifferAt(s, n, z, d, K, F, G, X, A, B, "Versions", v)
    <3>1. DifferAt(s, n, z, d, K, F, G, X, A, B, e, v)
      BY <2>3, <2>14, <2>18, <2>19, <2>20, <2>22, <2>23 DEF DifferAt
    <3>2. QED
      BY <2>14, <3>1
  <2>25. n = VersionSeen(s, v, n)
    BY <2>24, OneElement
  <2>26. QED
    BY <2>1, <2>3, <2>25
<1>6. QED
  BY <1>4, <1>5

LEMMA WriterStep ==
    ASSUME NEW own, Sound(heap, top, objects, own),
           NEW new, Sound(heap', top', objects', new), objects' = objects,
           NEW w \in DOMAIN objects, w = writer', NEW c \in Holds(w),
           DOMAIN heap \subseteq DOMAIN heap',
           \A a \in DOMAIN heap : a # c => heap'[a] = heap[a]
    PROVE  OthersShowTheSame
<1>1. ASSUME NEW o \in DOMAIN objects, ~ Clone(objects, o), o # w
      PROVE  \/ Shown(o)' = Shown(o)
             \/ /\ Source(objects, w) = o /\ Version(objects, w) \in Keys
                /\ Shown(o)' = VersionSeen(Shown(o), Version(objects, w), Shown(o)')
  <2>1. PICK g, u, root, v, s, n :
            /\ g = heap' /\ u = top' /\ root = Root(objects, o) /\ v = Version(objects, w)
            /\ s = View(heap)[root].elems[1] /\ n = View(g)[root].elems[1]
    OBVIOUS
  <2>2. s = Shown(o) /\ n = Shown(o)'
    BY <2>1 DEF Shown, Root
  <2>3. Sound(g, u, objects, new)
    BY <2>1
  <2>4. DOMAIN heap \subseteq DOMAIN g /\ \A a \in DOMAIN heap : a # c => g[a] = heap[a]
    BY <2>1
  <2>5. n = s \/ (Source(objects, w) = o /\ v \in Keys /\ n = VersionSeen(s, v, n))
    BY <1>1, <2>1, <2>3, <2>4, OthersLook
  <2>6. QED
    BY <2>1, <2>2, <2>5
<1>2. QED
  BY <1>1 DEF OthersShowTheSame, Clone, Source, Version, VersionSeen

LEMMA OthersShow ==
    ASSUME IInv, IInv', [Next]_vars
    PROVE  OthersShowTheSame
<1>1. PICK own : Sound(heap, top, objects, own)
  BY DEF IInv
<1>2. PICK new : Sound(heap', top', objects', new)
  BY DEF IInv
<1>3. CASE DoDeepCopy \/ DoCloneWithVersion
  <2>1. PICK o, v, N, g : Taken(own, o, v, N, g)
    BY <1>1, <1>3, CopyTaken
  <2>2. /\ heap' = g
        /\ objects' = Append(objects, [root |-> At(top, Root(objects, o)), source |-> o,
                                       version |-> v])
    BY <2>1 DEF Taken, Take, At, Root
  <2>3. PICK V, W : V = View(heap) /\ W = View(g)
    OBVIOUS
  <2>4. \A a \in DOMAIN heap : W[a] = V[a]
    BY <1>1, <2>1, <2>3, CopyLooks
  <2>5. ASSUME NEW q \in DOMAIN objects PROVE Shown(q)' = Shown(q)
    <3>1. PICK S : objects \in Seq(S)
      BY <1>1 DEF Sound, Rooted
    <3>2. objects'[q] = objects[q]
      BY <2>2, <3>1
    <3>3. Root(objects, q) \in DOMAIN heap
      BY <1>1 DEF Sound, Rooted
    <3>4. Shown(q) = V[Root(objects, q)].elems[1]
      BY <2>3 DEF Shown, Root
    <3>5. Shown(q)' = W[Root(objects, q)].elems[1]
      BY <2>2, <2>3, <3>2 DEF Shown, Root
    <3>6. QED
      BY <2>4, <3>3, <3>4, <3>5
  <2>6. QED
    BY <2>5 DEF OthersShowTheSame
<1>4. CASE Write
  <2>1. objects' = objects /\ top' = top
    BY <1>4 DEF Write
  <2>2. PICK w \in DOMAIN objects :
            /\ writer' = w
            /\ \E a \in Holds(w) : \E k \in DOMAIN heap[a].elems :
                   heap' = [heap EXCEPT ![a].elems[k].data = 1 - @]
    BY <1>4 DEF Write
  <2>3. PICK c \in Holds(w) : \E k \in DOMAIN heap[c].elems :
            heap' = [heap EXCEPT ![c].elems[k].data = 1 - @]
    BY <2>2
  <2>4. DOMAIN heap \subseteq DOMAIN heap' /\ \A a \in DOMAIN heap : a # c => heap'[a] = heap[a]
    BY <2>3
  <2>5. QED
    BY <1>1, <1>2, <2>1, <2>2, <2>4, WriterStep
<1>5. CASE UnmarshalJSON
  <2>1. objects' = objects
    BY <1>5 DEF UnmarshalJSON
  <2>2. PICK decoded : decoded = [NewCell("byte", {1}) EXCEPT !.elems[1].data = 1]
    OBVIOUS
  <2>3. PICK w \in DOMAIN objects :
            /\ writer' = w
            /\ \E a \in Holds(w) : \E k \in Extent(heap, a) :
                /\ "RawMessage" \in References(Of(heap, a))
                /\ \/ /\ Ref(heap, a, k, "RawMessage") # Nil
                      /\ heap' = [heap EXCEPT ![Ref(heap, a, k, "RawMessage")] = decoded]
                   \/ Linked(a, k, "RawMessage", decoded, heap')
    BY <1>5, <2>2 DEF UnmarshalJSON, Ref, Of, Extent, Linked
  <2>4. PICK a \in Holds(w) : \E k \in Extent(heap, a) :
            /\ "RawMessage" \in References(Of(heap, a))
            /\ \/ /\ Ref(heap, a, k, "RawMessage") # Nil
                  /\ heap' = [heap EXCEPT ![Ref(heap, a, k, "RawMessage")] = decoded]
               \/ Linked(a, k, "RawMessage", decoded, heap')
    BY <2>3
  <2>5. PICK k \in Extent(heap, a) :
            /\ "RawMessage" \in References(Of(heap, a))
            /\ \/ /\ Ref(heap, a, k, "RawMessage") # Nil
                  /\ heap' = [heap EXCEPT ![Ref(heap, a, k, "RawMessage")] = decoded]
               \/ Linked(a, k, "RawMessage", decoded, heap')
    BY <2>4
  <2>6. a \in DOMAIN heap
    BY <1>1, HoldsInRegion
  <2>7. PICK e, bytes : e = "RawMessage" /\ bytes = Ref(heap, a, k, e)
    OBVIOUS
  <2>8. CASE bytes # Nil /\ heap' = [heap EXCEPT ![bytes] = decoded]
    <3>1. Leads(heap, a, k, e)
      BY <2>5, <2>6, <2>7, <2>8 DEF Leads
    <3>2. bytes \in Holds(w)
      BY <1>1, <2>7, <3>1, HoldsInRegion
    <3>3. DOMAIN heap \subseteq DOMAIN heap' /\ \A b \in DOMAIN heap : b # bytes => heap'[b] = heap[b]
      BY <2>8
    <3>4. QED
      BY <1>1, <1>2, <2>1, <2>3, <3>2, <3>3, WriterStep
  <2>9. CASE Linked(a, k, e, decoded, heap')
    <3>1. DOMAIN heap \subseteq DOMAIN heap' /\ \A b \in DOMAIN heap : b # a => heap'[b] = heap[b]
      BY <2>9 DEF Linked, ++
    <3>2. QED
      BY <1>1, <1>2, <2>1, <2>3, <3>1, WriterStep
  <2>10. QED
    BY <2>5, <2>7, <2>8, <2>9
<1>6. CASE UNCHANGED vars
  <2>1. ASSUME NEW q PROVE Shown(q)' = Shown(q)
    BY <1>6 DEF vars, Shown
  <2>2. QED
    BY <2>1 DEF OthersShowTheSame
<1>7. QED
  BY <1>3, <1>4, <1>5, <1>6 DEF Next, Populate, Publish, OthersShowTheSame

\* A holder writes through its copy and nobody else sees it: not through a deep
\* copy at all, and through a clone only those who look at the version it was
\* made from ("All objects returned here must be treated as read-only",
\* listers/camel/v1/kamelet.go:30).
THEOREM WritesStayApart == Spec => CacheMostlyReadOnly
<1>1. IInv /\ IInv' /\ [Next]_vars => [OthersShowTheSame]_vars
  BY OthersShow
<1>2. QED
  BY <1>1, Ownership, PTL DEF Spec, CacheMostlyReadOnly

=============================================================================
