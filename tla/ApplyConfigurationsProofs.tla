---------------------- MODULE ApplyConfigurationsProofs ----------------------
(* Proofs about ApplyConfigurations: for any kinds, keys and calls, builders *)
(* have the fields of the API types and hold what their own calls say.       *)
EXTENDS ApplyConfigurations, SequenceTheorems, TLAPS

-----------------------------------------------------------------------------
(* The With functions against the declarations.                              *)

Structs == DOMAIN Setters

\* What the setter s does is what the declaration d of its field allows.
SetterFits(s, d) ==
    \/ s.by = "value"   /\ d.kind = "scalar"
    \/ s.by = "value"   /\ d.kind = "pointer" /\ d.of \in Plain
    \/ s.by = "pointer" /\ d = Pointer(s.of) /\ s.of \in Structs
    \/ s.by = "list"    /\ d = Slice(s.of) /\ s.of \in Structs \cup Plain
    \/ s.by = "entries" /\ d = Map(s.of) /\ s.of \in Structs \cup Plain
    \/ s.by = "none"

\* The setters S are those of a struct with the fields F.
SettersFit(S, F) ==
    /\ DOMAIN S = DOMAIN F
    /\ \A f \in DOMAIN S : SetterFits(S[f], F[f])

LEMMA StructNames ==
    Structs = {"DataSpec", "DataTypeSpec", "DataTypesSpec", "EventTypeSpec",
               "ExternalDocumentation", "HeaderSpec", "JSON", "JSONSchemaProp",
               "JSONSchemaProps", "Kamelet", "KameletCondition", "KameletProperty",
               "KameletSpec", "KameletSpecBase", "KameletStatus", "SourceSpec",
               "Template", "OwnerReference"}
BY DEF Structs, Setters, ForKind, ++

LEMMA MergedFit ==
    ASSUME NEW S, NEW F, NEW R, NEW G, SettersFit(S, F), SettersFit(R, G)
    PROVE  SettersFit(S ++ R, F ++ G)
BY DEF SettersFit, ++

LEMMA SmallFit ==
    /\ SettersFit(DataSpecApplyConfiguration, DataSpec)
    /\ SettersFit(DataTypeSpecApplyConfiguration, DataTypeSpec)
    /\ SettersFit(DataTypesSpecApplyConfiguration, DataTypesSpec)
    /\ SettersFit(EventTypeSpecApplyConfiguration, EventTypeSpec)
    /\ SettersFit(ExternalDocumentationApplyConfiguration, ExternalDocumentation)
    /\ SettersFit(HeaderSpecApplyConfiguration, HeaderSpec)
    /\ SettersFit(JSONApplyConfiguration, JSON)
    /\ SettersFit(TemplateApplyConfiguration, Template)
    /\ SettersFit(JSONSchemaPropsApplyConfiguration, JSONSchemaProps)
    /\ SettersFit(KameletConditionApplyConfiguration, KameletCondition)
    /\ SettersFit(KameletPropertyApplyConfiguration, KameletProperty)
    /\ SettersFit(KameletSpecBaseApplyConfiguration, KameletSpecBase)
    /\ SettersFit(KameletSpecApplyConfiguration, KameletSpec)
    /\ SettersFit(KameletStatusApplyConfiguration, KameletStatus)
    /\ SettersFit(SourceSpecApplyConfiguration, SourceSpec)
    /\ SettersFit(OwnerReferenceApplyConfiguration, OwnerReference)
<1> USE StructNames DEF SettersFit, SetterFits, Sets, Points, Appends, Puts, NoSetter,
        Scalars, Scalar, Pointer, Slice, Map, Plain, ++
<1>1. SettersFit(DataSpecApplyConfiguration, DataSpec)
  BY DEF DataSpecApplyConfiguration, DataSpec
<1>2. SettersFit(DataTypeSpecApplyConfiguration, DataTypeSpec)
  BY DEF DataTypeSpecApplyConfiguration, DataTypeSpec
<1>3. SettersFit(DataTypesSpecApplyConfiguration, DataTypesSpec)
  BY DEF DataTypesSpecApplyConfiguration, DataTypesSpec
<1>4. SettersFit(EventTypeSpecApplyConfiguration, EventTypeSpec)
  BY DEF EventTypeSpecApplyConfiguration, EventTypeSpec
<1>5. SettersFit(ExternalDocumentationApplyConfiguration, ExternalDocumentation)
  BY DEF ExternalDocumentationApplyConfiguration, ExternalDocumentation
<1>6. SettersFit(HeaderSpecApplyConfiguration, HeaderSpec)
  BY DEF HeaderSpecApplyConfiguration, HeaderSpec
<1>7. SettersFit(JSONApplyConfiguration, JSON)
  BY DEF JSONApplyConfiguration, JSON
<1>8. SettersFit(TemplateApplyConfiguration, Template)
  BY DEF TemplateApplyConfiguration, Template
<1>9. SettersFit(JSONSchemaPropsApplyConfiguration, JSONSchemaProps)
  BY DEF JSONSchemaPropsApplyConfiguration, JSONSchemaProps
<1>10. SettersFit(KameletConditionApplyConfiguration, KameletCondition)
  BY DEF KameletConditionApplyConfiguration, KameletCondition
<1>11. SettersFit(KameletPropertyApplyConfiguration, KameletProperty)
  BY DEF KameletPropertyApplyConfiguration, KameletProperty
<1>12. SettersFit(KameletSpecBaseApplyConfiguration, KameletSpecBase)
  BY DEF KameletSpecBaseApplyConfiguration, KameletSpecBase
<1>13. SettersFit(KameletSpecApplyConfiguration, KameletSpec)
  BY DEF KameletSpecApplyConfiguration, KameletSpec, KameletSpecBase
<1>14. SettersFit(KameletStatusApplyConfiguration, KameletStatus)
  BY DEF KameletStatusApplyConfiguration, KameletStatus
<1>15. SettersFit(SourceSpecApplyConfiguration, SourceSpec)
  <2> DEFINE names == {"Name", "Path", "Content", "ContentRef", "ContentKey", "ContentType",
                       "Compression", "Language", "Loader", "Type", "FromKamelet"}
  <2>1. /\ DOMAIN SourceSpec = names \cup {"RawContent", "Interceptors", "PropertyNames"}
        /\ \A f \in names : SourceSpec[f] = Scalar
        /\ SourceSpec["RawContent"] = Slice("byte")
        /\ SourceSpec["Interceptors"] = Slice("string")
        /\ SourceSpec["PropertyNames"] = Slice("string")
    BY DEF SourceSpec, DataSpec
  <2>2. /\ DOMAIN SourceSpecApplyConfiguration
            = names \cup {"RawContent", "Interceptors", "PropertyNames"}
        /\ \A f \in names : SourceSpecApplyConfiguration[f].by = "value"
        /\ SourceSpecApplyConfiguration["RawContent"] = Appends("byte")
        /\ SourceSpecApplyConfiguration["Interceptors"] = Appends("string")
        /\ SourceSpecApplyConfiguration["PropertyNames"] = Appends("string")
    BY DEF SourceSpecApplyConfiguration
  <2>3. QED
    BY <2>1, <2>2
<1>16. SettersFit(OwnerReferenceApplyConfiguration, OwnerReference)
  BY DEF OwnerReferenceApplyConfiguration, OwnerReference
<1> HIDE StructNames DEF SettersFit
<1>17. QED
  BY <1>1, <1>2, <1>3, <1>4, <1>5, <1>6, <1>7, <1>8, <1>9, <1>10, <1>11, <1>12, <1>13,
     <1>14, <1>15, <1>16

LEMMA LargeFit ==
    /\ SettersFit(JSONSchemaPropApplyConfiguration, JSONSchemaProp)
    /\ SettersFit(KameletApplyConfiguration, Declared("Kamelet"))
<1>1. SettersFit(JSONSchemaPropApplyConfiguration, JSONSchemaProp)
  <2> DEFINE names == {"ID", "Deprecated", "Description", "Type", "Format", "Title",
                       "ExclusiveMaximum", "ExclusiveMinimum", "Pattern", "UniqueItems",
                       "Nullable"}
             numbers == {"Maximum", "Minimum", "MultipleOf"}
             bounds == {"MaxLength", "MinLength", "MaxItems", "MinItems", "MaxProperties",
                        "MinProperties"}
             others == {"Default", "Example", "Enum", "XDescriptors"}
             S == JSONSchemaPropApplyConfiguration
  <2>1. /\ DOMAIN JSONSchemaProp = names \cup numbers \cup bounds \cup others
        /\ \A f \in names : JSONSchemaProp[f] = Scalar
        /\ \A f \in numbers : JSONSchemaProp[f] = Pointer("Number")
        /\ \A f \in bounds : JSONSchemaProp[f] = Pointer("int64")
        /\ JSONSchemaProp["Default"] = Pointer("JSON")
        /\ JSONSchemaProp["Example"] = Pointer("JSON")
        /\ JSONSchemaProp["Enum"] = Slice("JSON")
        /\ JSONSchemaProp["XDescriptors"] = Slice("string")
    BY DEF JSONSchemaProp, Scalars, ++
  <2>2. /\ DOMAIN S = names \cup numbers \cup bounds \cup others
        /\ \A f \in names \cup numbers \cup bounds : S[f].by = "value"
        /\ S["Default"] = Points("JSON") /\ S["Example"] = Points("JSON")
        /\ S["Enum"] = Appends("JSON") /\ S["XDescriptors"] = Appends("string")
    BY DEF JSONSchemaPropApplyConfiguration, JSONSchemaPropBounds, Sets, ++
  <2> HIDE DEF S
  <2>3. QED
    BY <2>1, <2>2, StructNames DEF SettersFit, SetterFits, Points, Appends, Scalar, Pointer,
       Slice, Plain, S
<1>2. SettersFit(KameletApplyConfiguration, Declared("Kamelet"))
  <2>1. SettersFit(Sets({"Kind", "APIVersion"}), TypeMeta)
    BY DEF SettersFit, SetterFits, Sets, TypeMeta, Scalars, Scalar
  <2>2. SettersFit(KameletMetadata, ObjectMeta)
    BY StructNames DEF SettersFit, SetterFits, Sets, Appends, Puts, Scalars, Scalar,
       Pointer, Slice, Map, Plain, ++, KameletMetadata, ObjectMeta
  <2> DEFINE Parts == [Spec |-> Pointer("KameletSpec"), Status |-> Pointer("KameletStatus")]
  <2>3. SettersFit(KameletParts, Parts)
    BY StructNames DEF SettersFit, SetterFits, Points, KameletParts, Pointer
  <2>4. SettersFit(Sets({"Kind", "APIVersion"}) ++ KameletMetadata ++ KameletParts,
                   TypeMeta ++ ObjectMeta ++ Parts)
    BY <2>1, <2>2, <2>3, MergedFit
  <2>5. QED
    BY <2>4 DEF KameletApplyConfiguration, Declared
<1>3. QED
  BY <1>1, <1>2

\* The builders are generated from the types: no field is missing, none is set in
\* a way its declaration does not allow.
LEMMA TablesFit ==
    ASSUME NEW T \in Structs
    PROVE  SettersFit(Setters[T], Declared(T))
<1>1. CASE T = "Kamelet"
  <2>1. Setters["Kamelet"] = KameletApplyConfiguration
    BY DEF Setters, ForKind, ++
  <2>2. QED
    BY <1>1, <2>1, LargeFit
<1>2. CASE T # "Kamelet"
  <2>1. SettersFit(Setters[T], FieldsOf[T])
    BY <1>2, SmallFit, LargeFit, StructNames DEF Setters, ForKind, FieldsOf, ++, Plain
  <2>2. QED
    BY <1>2, <2>1 DEF Declared
<1>3. QED
  BY <1>1, <1>2

-----------------------------------------------------------------------------
(* The inductive invariant.                                                  *)

Holds(b, f)  == builders[b].fields[f]
Setter(b, f) == Setters[builders[b].of][f]
Fields(b)    == DOMAIN Setters[builders[b].of]

\* Configurations, with the fields of their types.
Built ==
    \A b \in DOMAIN builders :
        /\ builders[b].of \in Structs
        /\ builders[b].metadata \in BOOLEAN
        /\ builders[b] = [of |-> builders[b].of, metadata |-> builders[b].metadata,
                          fields |-> builders[b].fields]
        /\ builders[b].fields = [f \in Fields(b) |-> Holds(b, f)]

IsSeq(s) == s \in Seq({s[i] : i \in DOMAIN s})
Sequences == IsSeq(maps) /\ IsSeq(log)

ElementFits(e, T) == (e[1] = "value") <=> (T \in Plain)

\* What a field may hold, by its setter.
Well(v, s) ==
    \/ v = Unset
    \/ s.by = "value"   /\ v = Value(v[2]) /\ v[2] \in Nat
    \/ s.by = "pointer" /\ \E c \in Of(s.of) : v = <<"pointer", c>>
    \/ s.by = "list"    /\ v = <<"list", v[2]>> /\ IsSeq(v[2])
                        /\ \A i \in DOMAIN v[2] : ElementFits(v[2][i], s.of)
    \/ s.by = "entries" /\ v = <<"map", v[2]>> /\ v[2] \in DOMAIN maps
                        /\ \A k \in DOMAIN maps[v[2]] : ElementFits(maps[v[2]][k], s.of)
AllWell == \A b \in DOMAIN builders : \A f \in Fields(b) : Well(Holds(b, f), Setter(b, f))

\* No two fields of builders hold the same map (their copies may).
MapsApart ==
    \A b, c \in DOMAIN builders : \A f \in Fields(b), g \in Fields(c) :
        Holds(b, f)[1] = "map" /\ Holds(b, f) = Holds(c, g) => b = c /\ f = g

MetadataMade ==
    \A b \in DOMAIN builders :
        builders[b].of = "Kamelet" /\ ~ builders[b].metadata =>
            \A f \in DOMAIN KameletMetadata : Holds(b, f) = Unset

\* Calls are about fields that have such a setter.
CallsFit ==
    \A i \in DOMAIN log : log[i].by # "none" =>
        /\ log[i].on \in DOMAIN builders
        /\ log[i].field \in Fields(log[i].on)
        /\ log[i].by = Setter(log[i].on, log[i].field).by

\* What the last call i about a field says it holds.
Given(v, by, i) ==
    /\ by = "value" => v = Value(log[i].arg)
    /\ by = "pointer" => v = IF log[i].arg = 0 THEN Unset ELSE <<"pointer", log[i].arg>>
Last(i, calls) == i \in calls /\ \A j \in calls : j <= i

\* A field follows from the calls about it, by its setter.
Follows(v, by, calls, listed) ==
    /\ calls = {} => v \in {Unset, Value(0)}
    /\ calls # {} => \E i \in calls : Last(i, calls) /\ Given(v, by, i)
    /\ by = "list" => v = AsList(listed)
    /\ by = "entries" => IF \A j \in calls : DOMAIN log[j].arg = {} THEN v = Unset
                         ELSE v[1] = "map" /\ PutBy(calls, maps[v[2]])
AllFollow ==
    \A b \in DOMAIN builders : \A f \in Fields(b) :
        Follows(Holds(b, f), Setter(b, f).by, Said(b, f), Listed(b, f))

IInv ==
    /\ Built
    /\ Sequences
    /\ AllWell
    /\ MapsApart
    /\ MetadataMade
    /\ CallsFit
    /\ AllFollow

-----------------------------------------------------------------------------
(* The list of a field is computed by recursion along the log. That there is *)
(* exactly one such function is an invariant as well: each call extends it.  *)

Lists(b, f, g) ==
    g = [i \in 0 .. Len(log) |->
            IF i = 0 THEN <<>>
            ELSE IF i \in Said(b, f) THEN g[i - 1] \o Kept(log[i].arg)
            ELSE g[i - 1]]
ListsDefined == \A b, f : \E g : Lists(b, f, g) /\ \A h : Lists(b, f, h) => h = g

LEMMA ListedIs ==
    ASSUME ListsDefined, NEW b, NEW f, NEW g, Lists(b, f, g)
    PROVE  Listed(b, f) = g[Len(log)]
<1>1. \A h : Lists(b, f, h) => h = g
  BY DEF ListsDefined
<1>2. Lists(b, f, CHOOSE h : Lists(b, f, h))
  OBVIOUS
<1>3. (CHOOSE h : Lists(b, f, h)) = g
  BY <1>1, <1>2
<1>4. Listed(b, f) = (CHOOSE h : Lists(b, f, h))[Len(log)]
  BY DEF Listed, Lists
<1>5. QED
  BY <1>3, <1>4

\* The log after a call.
Logged(b, f, by, arg) ==
    /\ Len(log) \in Nat /\ DOMAIN log = 1 .. Len(log)
    /\ Len(log') = Len(log) + 1 /\ DOMAIN log' = 1 .. (Len(log) + 1)
    /\ \A i \in DOMAIN log : log'[i] = log[i]
    /\ log'[Len(log) + 1].on = b /\ log'[Len(log) + 1].field = f
    /\ log'[Len(log) + 1].by = by /\ log'[Len(log) + 1].arg = arg

LEMMA Appending ==
    ASSUME NEW s, IsSeq(s), NEW e
    PROVE  /\ Len(s) \in Nat /\ DOMAIN s = 1 .. Len(s)
           /\ IsSeq(Append(s, e)) /\ Len(Append(s, e)) = Len(s) + 1
           /\ DOMAIN Append(s, e) = 1 .. (Len(s) + 1)
           /\ \A i \in DOMAIN s : Append(s, e)[i] = s[i]
           /\ Append(s, e)[Len(s) + 1] = e
<1> DEFINE R == {s[i] : i \in DOMAIN s} \cup {e}
           t == Append(s, e)
<1>1. s \in Seq(R) /\ e \in R
  BY DEF IsSeq
<1>2. /\ t \in Seq(R)
      /\ Len(s) \in Nat /\ DOMAIN s = 1 .. Len(s)
      /\ Len(t) = Len(s) + 1
      /\ DOMAIN t = 1 .. (Len(s) + 1)
      /\ \A i \in DOMAIN s : t[i] = s[i]
      /\ t[Len(s) + 1] = e
  BY <1>1
<1>3. R \subseteq {t[i] : i \in DOMAIN t}
  BY <1>2
<1>4. IsSeq(t)
  BY <1>2, <1>3 DEF IsSeq
<1>5. QED
  BY <1>2, <1>4

LEMMA CallLogged ==
    ASSUME Sequences, NEW b, NEW f, NEW by, NEW arg, Calls(b, f, by, arg)
    PROVE  Logged(b, f, by, arg) /\ IsSeq(log')
<1> DEFINE r == [on |-> b, field |-> f, by |-> by, arg |-> arg]
<1>1. log' = Append(log, r)
  BY DEF Calls
<1>2. /\ Len(log) \in Nat /\ DOMAIN log = 1 .. Len(log)
      /\ IsSeq(Append(log, r)) /\ Len(Append(log, r)) = Len(log) + 1
      /\ DOMAIN Append(log, r) = 1 .. (Len(log) + 1)
      /\ \A i \in DOMAIN log : Append(log, r)[i] = log[i]
      /\ Append(log, r)[Len(log) + 1] = r
  BY Appending DEF Sequences
<1>3. QED
  BY <1>1, <1>2 DEF Logged

LEMMA SaidAfter ==
    ASSUME NEW b, NEW f, NEW by, NEW arg, Logged(b, f, by, arg), NEW c, NEW g
    PROVE  /\ Said(c, g) \subseteq DOMAIN log
           /\ c = b /\ g = f /\ by # "none" => Said(c, g)' = Said(c, g) \cup {Len(log) + 1}
           /\ ~(c = b /\ g = f /\ by # "none") => Said(c, g)' = Said(c, g)
BY DEF Logged, Said

LEMMA ListsExtend ==
    ASSUME NEW b, NEW f, NEW by, NEW arg, Logged(b, f, by, arg), ListsDefined, NEW c, NEW g
    PROVE  /\ \E h : Lists(c, g, h)' /\ \A k : Lists(c, g, k)' => k = h
           /\ \A h : Lists(c, g, h)' =>
                 h[Len(log')] = IF c = b /\ g = f /\ by # "none" THEN Listed(c, g) \o Kept(arg)
                                ELSE Listed(c, g)
<1> DEFINE n == Len(log)
           mine == c = b /\ g = f /\ by # "none"
<1>1. PICK h : Lists(c, g, h) /\ \A k : Lists(c, g, k) => k = h
  BY DEF ListsDefined
<1>2. Listed(c, g) = h[n]
  BY <1>1, ListedIs
<1>3. /\ n \in Nat /\ DOMAIN log = 1 .. n /\ Len(log') = n + 1
      /\ \A i \in 1 .. n : (i \in Said(c, g)' <=> i \in Said(c, g)) /\ log'[i] = log[i]
      /\ (n + 1 \in Said(c, g)') <=> mine
      /\ log'[n + 1].arg = arg
  BY SaidAfter DEF Logged
<1> DEFINE last == IF mine THEN h[n] \o Kept(arg) ELSE h[n]
           next == [i \in 0 .. n + 1 |-> IF i <= n THEN h[i] ELSE last]
<1>4. Lists(c, g, next)'
  <2> DEFINE F == [i \in 0 .. n + 1 |->
                     IF i = 0 THEN <<>>
                     ELSE IF i \in Said(c, g)' THEN next[i - 1] \o Kept(log'[i].arg)
                     ELSE next[i - 1]]
  <2>1. h = [i \in 0 .. n |-> IF i = 0 THEN <<>>
                              ELSE IF i \in Said(c, g) THEN h[i - 1] \o Kept(log[i].arg)
                              ELSE h[i - 1]]
    BY <1>1 DEF Lists
  <2>2. ASSUME NEW i \in 0 .. n + 1 PROVE next[i] = F[i]
    <3>1. CASE i = 0
      BY <3>1, <1>3, <2>1
    <3>2. CASE i \in 1 .. n
      <4>1. next[i] = h[i] /\ next[i - 1] = h[i - 1] /\ i \in 0 .. n /\ i # 0
        BY <3>2, <1>3
      <4>2. (i \in Said(c, g)' <=> i \in Said(c, g)) /\ log'[i] = log[i]
        BY <3>2, <1>3
      <4>3. h[i] = IF i \in Said(c, g) THEN h[i - 1] \o Kept(log[i].arg) ELSE h[i - 1]
        BY <4>1, <2>1
      <4>4. QED
        BY <4>1, <4>2, <4>3
    <3>3. CASE i = n + 1
      <4>1. next[i] = last /\ next[i - 1] = h[n] /\ i # 0
        BY <3>3, <1>3
      <4>2. (i \in Said(c, g)' <=> mine) /\ log'[i].arg = arg
        BY <3>3, <1>3
      <4>3. QED
        BY <4>1, <4>2
    <3>4. QED
      BY <3>1, <3>2, <3>3, <1>3
  <2>3. next = F
    BY <2>2
  <2> HIDE DEF next
  <2>4. next = [i \in 0 .. Len(log') |->
                  IF i = 0 THEN <<>>
                  ELSE IF i \in Said(c, g)' THEN next[i - 1] \o Kept(log'[i].arg)
                  ELSE next[i - 1]]
    BY <2>3, <1>3
  <2>5. QED
    BY <2>4 DEF Lists
<1>5. ASSUME NEW k, Lists(c, g, k)'
      PROVE  k = next
  <2> DEFINE before == [i \in 0 .. n |-> k[i]]
  <2>1. k = [i \in 0 .. n + 1 |->
                     IF i = 0 THEN <<>>
                     ELSE IF i \in Said(c, g)' THEN k[i - 1] \o Kept(log'[i].arg)
                     ELSE k[i - 1]]
    BY <1>5, <1>3 DEF Lists
  <2> DEFINE F == [i \in 0 .. n |->
                     IF i = 0 THEN <<>>
                     ELSE IF i \in Said(c, g) THEN before[i - 1] \o Kept(log[i].arg)
                     ELSE before[i - 1]]
  <2>2. ASSUME NEW i \in 0 .. n PROVE before[i] = F[i]
    <3>1. CASE i = 0
      BY <3>1, <1>3, <2>1
    <3>2. CASE i \in 1 .. n
      <4>1. before[i] = k[i] /\ before[i - 1] = k[i - 1] /\ i \in 0 .. n + 1 /\ i # 0
        BY <3>2, <1>3
      <4>2. (i \in Said(c, g)' <=> i \in Said(c, g)) /\ log'[i] = log[i]
        BY <3>2, <1>3
      <4>3. k[i] = IF i \in Said(c, g)' THEN k[i - 1] \o Kept(log'[i].arg) ELSE k[i - 1]
        BY <4>1, <2>1
      <4>4. QED
        BY <4>1, <4>2, <4>3
    <3>3. QED
      BY <3>1, <3>2, <1>3
  <2>3. before = F
    BY <2>2
  <2>4. before = h
    BY <2>3, <1>1 DEF Lists
  <2>5. k[n + 1] = last
    <3>1. n + 1 \in 0 .. n + 1 /\ n + 1 # 0 /\ (n + 1) - 1 = n /\ n \in 0 .. n
      BY <1>3
    <3>2. k[n + 1] = IF n + 1 \in Said(c, g)' THEN k[n] \o Kept(log'[n + 1].arg) ELSE k[n]
      BY <3>1, <2>1
    <3>3. k[n] = h[n]
      BY <3>1, <2>4
    <3>4. QED
      BY <3>2, <3>3, <1>3
  <2>6. \A i \in 0 .. n : k[i] = h[i]
    BY <2>4
  <2>7. DOMAIN k = 0 .. n + 1 /\ k = [i \in 0 .. n + 1 |-> k[i]]
    BY <2>1
  <2>8. \A i \in 0 .. n + 1 : k[i] = next[i]
    BY <2>5, <2>6, <1>3
  <2>9. QED
    BY <2>7, <2>8
<1>6. next[n + 1] = last
  BY <1>3
<1>7. QED
  BY <1>2, <1>3, <1>4, <1>5, <1>6

LEMMA ListedAfter ==
    ASSUME NEW b, NEW f, NEW by, NEW arg, Logged(b, f, by, arg), ListsDefined
    PROVE  /\ ListsDefined'
           /\ \A c, g : Listed(c, g)' =
                 IF c = b /\ g = f /\ by # "none" THEN Listed(c, g) \o Kept(arg)
                 ELSE Listed(c, g)
<1>1. ListsDefined'
  BY ListsExtend DEF ListsDefined
<1>2. ASSUME NEW c, NEW g
      PROVE  Listed(c, g)' = IF c = b /\ g = f /\ by # "none" THEN Listed(c, g) \o Kept(arg)
                             ELSE Listed(c, g)
  <2>1. PICK h : Lists(c, g, h)'
    BY ListsExtend
  <2>2. \A k : Lists(c, g, k)' => k = h
    BY <1>1, <2>1 DEF ListsDefined
  <2>3. Lists(c, g, CHOOSE k : Lists(c, g, k))'
    BY <2>1
  <2>4. (CHOOSE k : Lists(c, g, k)') = h
    BY <2>2, <2>3
  <2>5. Listed(c, g)' = (CHOOSE k : Lists(c, g, k)')[Len(log')]
    BY DEF Listed, Lists
  <2>6. QED
    BY <2>1, <2>4, <2>5, ListsExtend
<1>3. QED
  BY <1>1, <1>2

-----------------------------------------------------------------------------
(* What a call changes, and what it leaves alone.                            *)

LEMMA SettersFitBuilders ==
    ASSUME Built, NEW b \in DOMAIN builders
    PROVE  /\ DOMAIN builders[b].fields = Fields(b)
           /\ DOMAIN Declared(builders[b].of) = Fields(b)
           /\ \A f \in Fields(b) : SetterFits(Setter(b, f), Declared(builders[b].of)[f])
BY TablesFit DEF Built, SettersFit, Fields, Setter

\* After an assignment: the field f of b holds v, and the metadata of b are made.
Assigned(b, f, v, made) ==
    /\ DOMAIN builders' = DOMAIN builders
    /\ \A c \in DOMAIN builders :
        /\ builders'[c].of = builders[c].of
        /\ builders'[c].metadata = IF c = b THEN made ELSE builders[c].metadata
        /\ \A g \in Fields(c) : builders'[c].fields[g] = IF c = b /\ g = f THEN v
                                                         ELSE builders[c].fields[g]

SameShape ==
    /\ Built' /\ DOMAIN builders' = DOMAIN builders
    /\ \A c \in DOMAIN builders : builders'[c].of = builders[c].of

LEMMA AssignStep ==
    ASSUME Built, NEW b \in DOMAIN builders, NEW f \in Fields(b), NEW v, Assign(b, f, v)
    PROVE  SameShape /\ Assigned(b, f, v, ensureObjectMeta(b, f))
<1>1. PICK made : made = ensureObjectMeta(b, f)
  OBVIOUS
<1>2. made \in BOOLEAN
  BY <1>1 DEF ensureObjectMeta, Built
<1>3. PICK step1 : step1 = [builders[b].fields EXCEPT ![f] = v]
  OBVIOUS
<1>4. builders' = [builders EXCEPT ![b] = [[builders[b] EXCEPT !.fields = step1]
                                                EXCEPT !.metadata = made]]
  BY <1>1, <1>3 DEF Assign
<1>5. /\ builders[b] = [of |-> builders[b].of, metadata |-> builders[b].metadata,
                        fields |-> builders[b].fields]
      /\ builders[b].fields = [g \in Fields(b) |-> Holds(b, g)]
  BY DEF Built
<1> DEFINE unmade == [builders[b] EXCEPT !.fields = step1]
<1>6. PICK before : before = builders[b].metadata
  OBVIOUS
<1>7. unmade = [of |-> builders[b].of, metadata |-> before, fields |-> step1]
  BY <1>5, <1>6
<1> HIDE DEF unmade
<1>8. [unmade EXCEPT !.metadata = made]
          = [of |-> builders[b].of, metadata |-> made, fields |-> step1]
  BY <1>7
<1>9. /\ DOMAIN builders' = DOMAIN builders
      /\ builders'[b] = [of |-> builders[b].of, metadata |-> made, fields |-> step1]
      /\ \A c \in DOMAIN builders : c # b => builders'[c] = builders[c]
  BY <1>4, <1>8 DEF unmade
<1>10. step1 = [g \in Fields(b) |-> IF g = f THEN v ELSE Holds(b, g)]
  BY <1>3, <1>5
<1>11. Assigned(b, f, v, made)
  BY <1>9, <1>10 DEF Assigned, Holds
<1>12. Built'
  <2> SUFFICES ASSUME NEW c \in DOMAIN builders
               PROVE  /\ builders'[c].of \in Structs
                      /\ builders'[c].metadata \in BOOLEAN
                      /\ builders'[c] = [of |-> builders'[c].of,
                                         metadata |-> builders'[c].metadata,
                                         fields |-> builders'[c].fields]
                      /\ builders'[c].fields
                            = [g \in DOMAIN Setters[builders'[c].of] |-> builders'[c].fields[g]]
    BY <1>9 DEF Built, Fields, Holds
  <2>1. CASE c = b
    <3>1. builders'[b].of = builders[b].of /\ builders'[b].metadata = made
          /\ builders'[b].fields = step1
      BY <1>9
    <3>2. builders[b].of \in Structs
      BY DEF Built
    <3>3. step1 = [g \in Fields(b) |-> step1[g]]
      BY <1>10
    <3>4. QED
      BY <2>1, <3>1, <3>2, <3>3, <1>2, <1>9 DEF Fields
  <2>2. CASE c # b
    BY <2>2, <1>9 DEF Built, Fields, Holds
  <2>3. QED
    BY <2>1, <2>2
<1>13. SameShape
  BY <1>9, <1>12 DEF SameShape
<1>14. QED
  BY <1>1, <1>11, <1>13

LEMMA ShapeStays ==
    ASSUME SameShape
    PROVE  /\ \A c \in DOMAIN builders :
                /\ Fields(c)' = Fields(c)
                /\ \A g : Setter(c, g)' = Setter(c, g)
           /\ \A T : Of(T)' = Of(T)
BY DEF SameShape, Fields, Setter, Of

MapStays(v) == v[1] = "map" => v[2] \in DOMAIN maps' /\ maps'[v[2]] = maps[v[2]]

LEMMA WellStays ==
    ASSUME SameShape, NEW v, NEW s, Well(v, s), MapStays(v)
    PROVE  Well(v, s)'
<1>1. CASE s.by = "entries" /\ v = <<"map", v[2]>> /\ v[2] \in DOMAIN maps
           /\ \A k \in DOMAIN maps[v[2]] : ElementFits(maps[v[2]][k], s.of)
  <2>1. v[1] = "map"
    BY <1>1
  <2>2. v[2] \in DOMAIN maps' /\ maps'[v[2]] = maps[v[2]]
    BY <2>1 DEF MapStays
  <2>3. QED
    BY <1>1, <2>2 DEF Well
<1>2. QED
  BY <1>1, ShapeStays DEF Well

LEMMA FollowsStays ==
    ASSUME NEW b, NEW f, NEW by, NEW arg, Logged(b, f, by, arg),
           NEW v, NEW kind, NEW calls, calls \subseteq DOMAIN log, NEW listed,
           Follows(v, kind, calls, listed), MapStays(v)
    PROVE  Follows(v, kind, calls, listed)'
<1>1. \A i \in calls : log'[i] = log[i]
  BY DEF Logged
<1>2. calls # {} => \E i \in calls : Last(i, calls) /\ Given(v, kind, i)'
  BY <1>1 DEF Follows, Given, Last
<1>3. kind = "entries" => IF \A j \in calls : DOMAIN log'[j].arg = {} THEN v = Unset
                          ELSE v[1] = "map" /\ PutBy(calls, maps[v[2]])'
  BY <1>1 DEF Follows, MapStays, PutBy
<1>4. QED
  BY <1>2, <1>3 DEF Follows, Last

LEMMA FieldStays ==
    ASSUME NEW b, NEW f, NEW by, NEW arg, Logged(b, f, by, arg), ListsDefined, SameShape,
           NEW c \in DOMAIN builders, NEW g \in Fields(c), ~(c = b /\ g = f /\ by # "none"),
           Well(Holds(c, g), Setter(c, g)),
           Follows(Holds(c, g), Setter(c, g).by, Said(c, g), Listed(c, g)),
           Holds(c, g)' = Holds(c, g), MapStays(Holds(c, g))
    PROVE  /\ Well(Holds(c, g), Setter(c, g))'
           /\ Follows(Holds(c, g), Setter(c, g).by, Said(c, g), Listed(c, g))'
<1>1. PICK v : v = Holds(c, g)
  OBVIOUS
<1>2. PICK s : s = Setter(c, g)
  OBVIOUS
<1>3. PICK calls : calls = Said(c, g)
  OBVIOUS
<1>4. PICK listed : listed = Listed(c, g)
  OBVIOUS
<1>5. v = Holds(c, g)' /\ s = Setter(c, g)' /\ calls = Said(c, g)' /\ listed = Listed(c, g)'
  BY <1>1, <1>2, <1>3, <1>4, ShapeStays, SaidAfter, ListedAfter
<1>6. Well(v, s)'
  BY <1>1, <1>2, WellStays
<1>7. Follows(v, s.by, calls, listed)'
  BY <1>1, <1>2, <1>3, <1>4, SaidAfter, FollowsStays
<1>8. QED
  BY <1>5, <1>6, <1>7

\* The maps change for the field f of b only.
MapsMove(b, f) ==
    /\ IsSeq(maps')
    /\ \A n \in DOMAIN maps :
        /\ n \in DOMAIN maps'
        /\ Holds(b, f) # <<"map", n>> => maps'[n] = maps[n]

LEMMA OthersStay ==
    ASSUME IInv, NEW b \in DOMAIN builders, NEW f \in Fields(b), MapsMove(b, f),
           NEW c \in DOMAIN builders, NEW g \in Fields(c), ~(c = b /\ g = f)
    PROVE  MapStays(Holds(c, g))
<1> DEFINE w == Holds(c, g)
<1>1. SUFFICES ASSUME w[1] = "map"
               PROVE  w[2] \in DOMAIN maps' /\ maps'[w[2]] = maps[w[2]]
  BY DEF MapStays
<1>2. Well(w, Setter(c, g))
  BY DEF IInv, AllWell
<1>3. w = <<"map", w[2]>> /\ w[2] \in DOMAIN maps
  BY <1>1, <1>2 DEF Well, Unset, Value
<1>4. Holds(b, f) # w
  BY <1>1 DEF IInv, MapsApart
<1>5. QED
  BY <1>3, <1>4 DEF MapsMove

\* A With function that does to its own field what it should preserves the invariant.
LEMMA FieldStep ==
    ASSUME IInv, ListsDefined, NEW b \in DOMAIN builders, NEW f \in Fields(b),
           NEW by, by = Setter(b, f).by, by # "none", NEW arg, Calls(b, f, by, arg),
           NEW v, Assign(b, f, v), MapsMove(b, f),
           v[1] = "map" => v = Holds(b, f) \/ v[2] \notin DOMAIN maps,
           NEW s, s = Setter(b, f), Well(v, s)',
           NEW calls, calls = Said(b, f)', NEW listed, listed = Listed(b, f)',
           Follows(v, by, calls, listed)'
    PROVE  IInv' /\ ListsDefined'
<1>1. Logged(b, f, by, arg) /\ IsSeq(log')
  BY CallLogged DEF IInv
<1>2. SameShape /\ Assigned(b, f, v, ensureObjectMeta(b, f))
  BY AssignStep DEF IInv
<1>3. /\ \A c \in DOMAIN builders : Fields(c)' = Fields(c) /\ \A g : Setter(c, g)' = Setter(c, g)
      /\ DOMAIN builders' = DOMAIN builders
      /\ \A c \in DOMAIN builders : builders'[c].of = builders[c].of
  BY <1>2, ShapeStays DEF SameShape
<1>4. ListsDefined'
  BY <1>1, ListedAfter
<1>5. \A c \in DOMAIN builders : \A g \in Fields(c) :
          Holds(c, g)' = IF c = b /\ g = f THEN v ELSE Holds(c, g)
  BY <1>2 DEF Assigned, Holds
<1>6. ASSUME NEW c \in DOMAIN builders, NEW g \in Fields(c)
      PROVE  /\ Well(Holds(c, g), Setter(c, g))'
             /\ Follows(Holds(c, g), Setter(c, g).by, Said(c, g), Listed(c, g))'
  <2>1. CASE c = b /\ g = f
    <3>1. v = Holds(c, g)' /\ s = Setter(c, g)'
      BY <2>1, <1>3, <1>5
    <3>2. by = s.by
      OBVIOUS
    <3>3. calls = Said(c, g)' /\ listed = Listed(c, g)'
      BY <2>1
    <3>4. QED
      BY <3>1, <3>2, <3>3
  <2>2. CASE ~(c = b /\ g = f)
    <3>1. Holds(c, g)' = Holds(c, g) /\ MapStays(Holds(c, g))
      BY <2>2, <1>5, OthersStay
    <3>2. /\ Well(Holds(c, g), Setter(c, g))
          /\ Follows(Holds(c, g), Setter(c, g).by, Said(c, g), Listed(c, g))
      BY DEF IInv, AllWell, AllFollow
    <3>3. QED
      BY <2>2, <3>1, <3>2, <1>1, <1>2, FieldStays
  <2>3. QED
    BY <2>1, <2>2
<1>7. AllWell' /\ AllFollow'
  BY <1>3, <1>6 DEF AllWell, AllFollow
<1>8. MapsApart'
  <2> SUFFICES ASSUME NEW c \in DOMAIN builders, NEW d \in DOMAIN builders,
                      NEW g \in Fields(c), NEW h \in Fields(d),
                      Holds(c, g)'[1] = "map", Holds(c, g)' = Holds(d, h)'
               PROVE  c = d /\ g = h
    BY <1>3 DEF MapsApart
  <2>1. ASSUME NEW e \in DOMAIN builders, NEW k \in Fields(e), ~(e = b /\ k = f),
               Holds(e, k) = v, v[1] = "map"
        PROVE  FALSE
    <3>1. Holds(e, k) # Holds(b, f)
      BY <2>1 DEF IInv, MapsApart
    <3>2. v[2] \notin DOMAIN maps
      BY <3>1, <2>1
    <3>3. Well(v, Setter(e, k))
      BY <2>1 DEF IInv, AllWell
    <3>4. QED
      BY <3>2, <3>3, <2>1 DEF Well, Unset, Value
  <2>2. CASE c = b /\ g = f
    BY <2>1, <2>2, <1>5
  <2>3. CASE d = b /\ h = f
    BY <2>1, <2>3, <1>5
  <2>4. CASE ~(c = b /\ g = f) /\ ~(d = b /\ h = f)
    BY <2>4, <1>5 DEF IInv, MapsApart
  <2>5. QED
    BY <2>2, <2>3, <2>4
<1>9. MetadataMade'
  <2> SUFFICES ASSUME NEW c \in DOMAIN builders, builders[c].of = "Kamelet",
                      ~ builders'[c].metadata, NEW g \in DOMAIN KameletMetadata
               PROVE  Holds(c, g)' = Unset
    BY <1>3 DEF MetadataMade
  <2>1. g \in DOMAIN KameletApplyConfiguration
    BY DEF KameletApplyConfiguration, ++
  <2>2. g \in Fields(c)
    BY <2>1 DEF Fields, Setters, ForKind, ++, KameletApplyConfiguration
  <2>3. CASE c = b
    <3>1. ~ ensureObjectMeta(b, f)
      BY <2>3, <1>2 DEF Assigned
    <3>2. ~ builders[b].metadata /\ g # f
      BY <3>1, <2>3 DEF ensureObjectMeta
    <3>3. QED
      BY <3>2, <2>2, <2>3, <1>5 DEF IInv, MetadataMade
  <2>4. CASE c # b
    BY <2>4, <2>2, <1>2, <1>5 DEF Assigned, IInv, MetadataMade
  <2>5. QED
    BY <2>3, <2>4
<1>10. CallsFit'
  <2> SUFFICES ASSUME NEW i \in 1 .. Len(log) + 1, log'[i].by # "none"
               PROVE  /\ log'[i].on \in DOMAIN builders
                      /\ log'[i].field \in Fields(log'[i].on)
                      /\ log'[i].by = Setter(log'[i].on, log'[i].field).by
    BY <1>1, <1>3 DEF CallsFit, Logged, Fields, Setter
  <2>1. CASE i \in DOMAIN log
    BY <2>1, <1>1 DEF IInv, CallsFit, Logged
  <2>2. CASE i = Len(log) + 1
    BY <2>2, <1>1 DEF Logged
  <2>3. QED
    BY <2>1, <2>2, <1>1 DEF Logged
<1>11. Sequences'
  BY <1>1 DEF Sequences, MapsMove
<1>12. QED
  BY <1>2, <1>4, <1>7, <1>8, <1>9, <1>10, <1>11 DEF IInv, SameShape

-----------------------------------------------------------------------------
(* What is given to a call.                                                  *)

LEMMA ElementsAre ==
    ASSUME NEW T \in Structs \cup Plain, NEW e \in Elements(T)
    PROVE  ElementFits(e, T) /\ e # Unset
<1>1. CASE T \in Structs
  <2>1. e[1] = "struct"
    BY <1>1 DEF Elements, Struct, Structs
  <2>2. T \notin Plain
    BY <1>1, StructNames DEF Plain
  <2>3. QED
    BY <2>1, <2>2 DEF ElementFits, Unset
<1>2. CASE T \in Plain /\ T \notin Structs
  BY <1>2 DEF Elements, Structs, Value, ElementFits, Unset
<1>3. QED
  BY <1>1, <1>2

LEMMA KeptSeq ==
    ASSUME NEW E, Unset \notin E, NEW values,
           \/ values = <<>>
           \/ \E e \in E \cup {Unset} : values = <<e>>
           \/ \E e \in E : values = <<e, Unset>>
    PROVE  Kept(values) \in Seq(E)
<1> DEFINE D == {j \in DOMAIN values : \A k \in 1 .. j : values[k] # Unset}
<1>1. Kept(values) = [i \in D |-> values[i]]
  BY DEF Kept
<1>2. ASSUME NEW n \in Nat, D = 1 .. n, \A i \in D : values[i] \in E
      PROVE  Kept(values) \in Seq(E)
  <2>1. Kept(values) \in [1 .. n -> E]
    BY <1>1, <1>2
  <2>2. QED
    BY <2>1, SeqDef
<1>3. CASE values = <<>>
  <2>1. D = 1 .. 0
    BY <1>3
  <2>2. QED
    BY <2>1, <1>2, <1>3
<1>4. ASSUME NEW e \in E, values = <<e>>
      PROVE  Kept(values) \in Seq(E)
  <2>1. D = 1 .. 1 /\ values[1] \in E
    BY <1>4
  <2>2. QED
    BY <2>1, <1>2
<1>5. CASE values = <<Unset>>
  <2>1. D = 1 .. 0
    BY <1>5
  <2>2. QED
    BY <2>1, <1>2
<1>6. ASSUME NEW e \in E, values = <<e, Unset>>
      PROVE  Kept(values) \in Seq(E)
  <2>1. DOMAIN values = {1, 2} /\ values[1] = e /\ values[2] = Unset
    BY <1>6
  <2>2. D = 1 .. 1 /\ values[1] \in E
    BY <2>1
  <2>3. QED
    BY <2>2, <1>2
<1>7. QED
  BY <1>3, <1>4, <1>5, <1>6

LEMMA Concatenated ==
    ASSUME NEW s, IsSeq(s), NEW E, NEW t \in Seq(E)
    PROVE  /\ IsSeq(s \o t)
           /\ \A i \in DOMAIN (s \o t) :
                 (\E j \in DOMAIN s : (s \o t)[i] = s[j]) \/ (s \o t)[i] \in E
<1> DEFINE R == {s[i] : i \in DOMAIN s} \cup E
           u == s \o t
<1>1. s \in Seq(R) /\ t \in Seq(R) /\ s \in Seq({s[i] : i \in DOMAIN s})
  BY DEF IsSeq
<1>2. /\ u \in Seq(R)
      /\ Len(s) \in Nat /\ DOMAIN s = 1 .. Len(s)
      /\ Len(t) \in Nat /\ DOMAIN t = 1 .. Len(t)
      /\ Len(u) = Len(s) + Len(t) /\ DOMAIN u = 1 .. (Len(s) + Len(t))
      /\ \A i \in DOMAIN u : u[i] = IF i <= Len(s) THEN s[i] ELSE t[i - Len(s)]
  BY <1>1
<1> HIDE DEF u, R
<1>3. IsSeq(u)
  <2>1. u \in UNION {[1 .. n -> R] : n \in Nat}
    BY <1>2, SeqDef
  <2>2. PICK n \in Nat : u \in [1 .. n -> R]
    BY <2>1
  <2> DEFINE V == {u[i] : i \in DOMAIN u}
  <2>3. u \in [1 .. n -> V]
    BY <2>2
  <2> HIDE DEF V
  <2>4. u \in UNION {[1 .. m -> V] : m \in Nat}
    BY <2>3
  <2>5. u \in Seq(V)
    BY <2>4, SeqDef
  <2>6. QED
    BY <2>5 DEF IsSeq, V
<1>4. ASSUME NEW i \in DOMAIN u
      PROVE  (\E j \in DOMAIN s : u[i] = s[j]) \/ u[i] \in E
  <2>1. CASE i <= Len(s)
    BY <2>1, <1>2
  <2>2. CASE ~(i <= Len(s))
    <3>1. i - Len(s) \in DOMAIN t /\ u[i] = t[i - Len(s)]
      BY <2>2, <1>2
    <3>2. QED
      BY <3>1
  <2>3. QED
    BY <2>1, <2>2
<1>5. QED
  BY <1>3, <1>4 DEF u

-----------------------------------------------------------------------------
(* The steps.                                                                *)

LEMMA InitSound ==
    ASSUME Init
    PROVE  IInv /\ ListsDefined
<1>1. PICK T \in Kinds :
        \E outer \in {New(T)} \cup (IF T = "Kamelet" THEN {NewKamelet} ELSE {}) :
            \/ Inner(T) = {} /\ builders = <<outer>>
            \/ \E U \in Inner(T) : builders = <<outer, New(U)>>
  BY DEF Init
<1>2. PICK outer \in {New(T)} \cup (IF T = "Kamelet" THEN {NewKamelet} ELSE {}) :
            \/ Inner(T) = {} /\ builders = <<outer>>
            \/ \E U \in Inner(T) : builders = <<outer, New(U)>>
  BY <1>1
<1>3. T \in Structs
  BY BuildersAssumption DEF Structs, Setters, ++
<1>4. maps = <<>> /\ log = <<>>
  BY DEF Init
<1> DEFINE Fresh(r) ==
        /\ r.of \in Structs
        /\ r.metadata \in BOOLEAN
        /\ r = [of |-> r.of, metadata |-> r.metadata, fields |-> r.fields]
        /\ r.fields = [f \in DOMAIN Setters[r.of] |-> r.fields[f]]
        /\ \A f \in DOMAIN Setters[r.of] :
              r.fields[f] = Unset \/ (r.fields[f] = Value(0) /\ Setters[r.of][f].by = "value")
        /\ r.metadata \/ \A f \in DOMAIN r.fields : r.fields[f] = Unset
<1>5. \A U \in Structs : Fresh(New(U))
  BY DEF New, Blank
<1>6. Fresh(NewKamelet)
  <2> DEFINE names == {"Name", "Namespace", "Kind", "APIVersion"}
             K == Setters["Kamelet"]
  <2>1. K = KameletApplyConfiguration /\ "Kamelet" \in Structs
    BY DEF Setters, ForKind, Structs, ++
  <2>2. \A f \in names : f \in DOMAIN K /\ K[f].by = "value"
    BY <2>1 DEF KameletApplyConfiguration, KameletMetadata, Sets, ++
  <2>3. NewKamelet.fields = [f \in DOMAIN K |-> IF f \in names THEN Value(0) ELSE Unset]
    BY <2>2 DEF NewKamelet, Blank, ++
  <2>4. NewKamelet.of = "Kamelet" /\ NewKamelet.metadata = TRUE
        /\ NewKamelet = [of |-> NewKamelet.of, metadata |-> NewKamelet.metadata,
                         fields |-> NewKamelet.fields]
    BY DEF NewKamelet
  <2>5. PICK r : r = NewKamelet
    OBVIOUS
  <2> HIDE DEF K
  <2>6. /\ r.fields = [f \in DOMAIN K |-> r.fields[f]]
        /\ \A f \in DOMAIN K : r.fields[f] = Unset \/ (r.fields[f] = Value(0) /\ K[f].by = "value")
    BY <2>2, <2>3, <2>5
  <2>7. Setters[r.of] = K
    BY <2>4, <2>5 DEF K
  <2>8. /\ r.of \in Structs /\ r.metadata = TRUE
        /\ r = [of |-> r.of, metadata |-> r.metadata, fields |-> r.fields]
    BY <2>1, <2>4, <2>5
  <2>9. Fresh(r)
    BY <2>6, <2>7, <2>8
  <2>10. QED
    BY <2>5, <2>9
<1> HIDE DEF Fresh
<1>7. Fresh(outer)
  BY <1>3, <1>5, <1>6
<1>8. \A b \in DOMAIN builders : Fresh(builders[b])
  <2>1. CASE builders = <<outer>>
    BY <2>1, <1>7
  <2>2. ASSUME NEW U \in Inner(T), builders = <<outer, New(U)>>
        PROVE  \A b \in DOMAIN builders : Fresh(builders[b])
    <3>1. Fresh(New(U))
      BY <1>5, <2>2 DEF Inner, Structs
    <3>2. DOMAIN builders = {1, 2} /\ builders[1] = outer /\ builders[2] = New(U)
      BY <2>2
    <3>3. QED
      BY <3>1, <3>2, <1>7
  <2>3. QED
    BY <1>2, <2>1, <2>2
<1>9. IsSeq(maps) /\ IsSeq(log)
  BY <1>4 DEF IsSeq
<1>10. \A b \in DOMAIN builders : \A f \in Fields(b) :
          \/ Holds(b, f) = Unset
          \/ Holds(b, f) = Value(0) /\ Setter(b, f).by = "value"
  BY <1>8 DEF Fields, Holds, Setter, Fresh
<1>11. \A b, f : Said(b, f) = {}
  BY <1>4 DEF Said
<1>12. ListsDefined /\ \A b, f : Listed(b, f) = <<>>
  <2> DEFINE none == [i \in 0 .. 0 |-> <<>>]
  <2>1. Len(log) = 0
    BY <1>4
  <2>2. ASSUME NEW b, NEW f
        PROVE  Lists(b, f, none) /\ \A h : Lists(b, f, h) => h = none
    <3>1. \A i \in 0 .. 0 : i = 0
      OBVIOUS
    <3>2. none = [i \in 0 .. 0 |-> IF i = 0 THEN <<>>
                                   ELSE IF i \in Said(b, f) THEN none[i - 1] \o Kept(log[i].arg)
                                   ELSE none[i - 1]]
      BY <3>1
    <3>3. ASSUME NEW h, Lists(b, f, h)
          PROVE  h = none
      <4>1. h = [i \in 0 .. 0 |-> IF i = 0 THEN <<>>
                                  ELSE IF i \in Said(b, f) THEN h[i - 1] \o Kept(log[i].arg)
                                  ELSE h[i - 1]]
        BY <3>3, <2>1 DEF Lists
      <4>2. QED
        BY <4>1, <3>1
    <3> HIDE DEF none
    <3>4. QED
      BY <3>2, <3>3, <2>1 DEF Lists
  <2>3. ListsDefined
    BY <2>2 DEF ListsDefined
  <2>4. \A b, f : Listed(b, f) = none[Len(log)]
    BY <2>2, <2>3, ListedIs
  <2>5. QED
    BY <2>1, <2>3, <2>4
<1>13. Built
  BY <1>8 DEF Built, Fields, Holds, Fresh
<1>14. AllWell
  BY <1>10 DEF AllWell, Well, Value
<1>15. MapsApart
  BY <1>10 DEF MapsApart, Unset, Value
<1>16. MetadataMade
  <2> SUFFICES ASSUME NEW b \in DOMAIN builders, builders[b].of = "Kamelet",
                      ~ builders[b].metadata, NEW f \in DOMAIN KameletMetadata
               PROVE  Holds(b, f) = Unset
    BY DEF MetadataMade
  <2>1. f \in DOMAIN KameletApplyConfiguration
    BY DEF KameletApplyConfiguration, ++
  <2>2. f \in DOMAIN Setters["Kamelet"]
    BY <2>1 DEF Setters, ForKind, ++
  <2>3. QED
    BY <2>2, <1>8 DEF Holds, Fresh
<1>17. CallsFit
  BY <1>4 DEF CallsFit
<1>18. AllFollow
  BY <1>10, <1>11, <1>12 DEF AllFollow, Follows, AsList
<1>19. QED
  BY <1>9, <1>12, <1>13, <1>14, <1>15, <1>16, <1>17, <1>18 DEF IInv, Sequences

LEMMA MapsStay ==
    ASSUME IInv, UNCHANGED maps, NEW b, NEW f
    PROVE  MapsMove(b, f)
BY DEF MapsMove, IInv, Sequences

\* The call is the last about its field.
LEMMA LastSaid ==
    ASSUME IInv, NEW b, NEW f, NEW by, by # "none", NEW arg, Calls(b, f, by, arg)
    PROVE  /\ Logged(b, f, by, arg)
           /\ Said(b, f)' = Said(b, f) \cup {Len(log) + 1}
           /\ Last(Len(log) + 1, Said(b, f)')
           /\ \A i \in Said(b, f) : i \in Nat /\ i < Len(log) + 1 /\ log'[i] = log[i]
           /\ log'[Len(log) + 1].arg = arg
<1>1. Logged(b, f, by, arg)
  BY CallLogged DEF IInv
<1>2. /\ Said(b, f) \subseteq DOMAIN log
      /\ Said(b, f)' = Said(b, f) \cup {Len(log) + 1}
  BY <1>1, SaidAfter
<1>3. QED
  BY <1>1, <1>2 DEF Logged, Last

LEMMA SetValueStep ==
    ASSUME IInv, ListsDefined, NEW b \in DOMAIN builders, NEW f \in Fields(b),
           Setter(b, f).by = "value", SetValue(b, f)
    PROVE  IInv' /\ ListsDefined'
<1>1. PICK n : n = Len(log) + 1
  OBVIOUS
<1>2. Calls(b, f, "value", n) /\ Assign(b, f, Value(n)) /\ UNCHANGED maps
  BY <1>1 DEF SetValue
<1>3. PICK s : s = Setter(b, f)
  OBVIOUS
<1>4. PICK calls : calls = Said(b, f)'
  OBVIOUS
<1>5. PICK listed : listed = Listed(b, f)'
  OBVIOUS
<1>6. n \in Nat
  BY <1>1, Appending DEF IInv, Sequences
<1>7. Well(Value(n), s)'
  BY <1>3, <1>6 DEF Well, Value
<1>8. Last(n, calls) /\ log'[n].arg = n
  BY <1>1, <1>2, <1>4, LastSaid
<1>9. Follows(Value(n), "value", calls, listed)'
  BY <1>8 DEF Follows, Given, Last
<1>10. MapsMove(b, f) /\ Value(n)[1] # "map"
  BY <1>2, MapsStay DEF Value
<1>11. QED
  BY <1>2, <1>3, <1>4, <1>5, <1>7, <1>9, <1>10, FieldStep

LEMMA SetPointerStep ==
    ASSUME IInv, ListsDefined, NEW b \in DOMAIN builders, NEW f \in Fields(b),
           Setter(b, f).by = "pointer", SetPointer(b, f)
    PROVE  IInv' /\ ListsDefined'
<1>1. PICK c \in {0} \cup Of(Setter(b, f).of) :
        /\ Calls(b, f, "pointer", c)
        /\ Assign(b, f, IF c = 0 THEN Unset ELSE <<"pointer", c>>)
        /\ UNCHANGED maps
  BY DEF SetPointer, Setter
<1>2. PICK v : v = IF c = 0 THEN Unset ELSE <<"pointer", c>>
  OBVIOUS
<1>3. PICK s : s = Setter(b, f)
  OBVIOUS
<1>4. PICK calls : calls = Said(b, f)'
  OBVIOUS
<1>5. PICK listed : listed = Listed(b, f)'
  OBVIOUS
<1>6. PICK n : n = Len(log) + 1
  OBVIOUS
<1>7. SameShape
  BY <1>1, AssignStep DEF IInv
<1>8. Well(v, s)'
  <2>1. c = 0 \/ c \in Of(s.of)'
    BY <1>1, <1>3, <1>7, ShapeStays
  <2>2. QED
    BY <2>1, <1>2, <1>3 DEF Well
<1>9. Last(n, calls) /\ log'[n].arg = c
  BY <1>1, <1>4, <1>6, LastSaid
<1>10. Follows(v, "pointer", calls, listed)'
  BY <1>2, <1>9 DEF Follows, Given, Last
<1>11. MapsMove(b, f) /\ v[1] # "map"
  BY <1>1, <1>2, MapsStay DEF Unset
<1>12. QED
  BY <1>1, <1>2, <1>3, <1>4, <1>5, <1>8, <1>10, <1>11, FieldStep

LEMMA ListedMore ==
    ASSUME IInv, ListsDefined, NEW b, NEW f, NEW values, Calls(b, f, "list", values)
    PROVE  /\ Listed(b, f)' = Listed(b, f) \o Kept(values)
           /\ Last(Len(log) + 1, Said(b, f)')
<1>1. PICK by : by = "list"
  OBVIOUS
<1>2. by # "none" /\ Calls(b, f, by, values)
  BY <1>1
<1>3. Logged(b, f, by, values) /\ Last(Len(log) + 1, Said(b, f)')
  BY <1>2, LastSaid
<1>4. Listed(b, f)' = Listed(b, f) \o Kept(values)
  BY <1>2, <1>3, ListedAfter
<1>5. QED
  BY <1>3, <1>4

LEMMA AppendValuesStep ==
    ASSUME IInv, ListsDefined, NEW b \in DOMAIN builders, NEW f \in Fields(b),
           Setter(b, f).by = "list", AppendValues(b, f)
    PROVE  IInv' /\ ListsDefined'
<1> DEFINE T == Setter(b, f).of
           nil == IF T \in DOMAIN Setters THEN {Unset} ELSE {}
<1>1. PICK values \in {<<>>} \cup {<<e>> : e \in Elements(T) \cup nil}
                      \cup {<<e, d>> : e \in Elements(T), d \in nil} :
        /\ Calls(b, f, "list", values)
        /\ Assign(b, f, Appended(b, f, Kept(values)))
        /\ UNCHANGED maps
  BY DEF AppendValues, Setter
<1>2. T \in Structs \cup Plain
  BY SettersFitBuilders DEF IInv, SetterFits
<1> HIDE DEF T
<1>3. \A e \in Elements(T) : ElementFits(e, T) /\ e # Unset
  BY <1>2, ElementsAre
<1>4. Kept(values) \in Seq(Elements(T))
  BY <1>1, <1>3, KeptSeq
<1>5. PICK v : v = Appended(b, f, Kept(values))
  OBVIOUS
<1>6. PICK s : s = Setter(b, f)
  OBVIOUS
<1>7. PICK calls : calls = Said(b, f)'
  OBVIOUS
<1>8. PICK listed : listed = Listed(b, f)'
  OBVIOUS
<1>9. PICK n : n = Len(log) + 1
  OBVIOUS
<1>10. Holds(b, f) = AsList(Listed(b, f))
  BY DEF IInv, AllFollow, Follows
<1>11. ListOf(Holds(b, f)) = Listed(b, f)
  BY <1>10 DEF ListOf, AsList, Unset
<1>12. listed = Listed(b, f) \o Kept(values) /\ Last(n, calls)
  BY <1>1, <1>7, <1>8, <1>9, ListedMore
<1>13. v = AsList(listed)
  BY <1>5, <1>11, <1>12 DEF Appended, Holds
<1>14. IsSeq(Listed(b, f)) /\ \A i \in DOMAIN Listed(b, f) : ElementFits(Listed(b, f)[i], T)
  <2>1. Well(Holds(b, f), Setter(b, f))
    BY DEF IInv, AllWell
  <2>2. CASE Listed(b, f) = <<>>
    BY <2>2 DEF IsSeq
  <2>3. CASE Listed(b, f) # <<>>
    <3>1. Holds(b, f) # Unset /\ Holds(b, f)[2] = Listed(b, f)
      BY <1>10, <2>3 DEF AsList, Unset
    <3>2. QED
      BY <2>1, <3>1 DEF Well, T
  <2>4. QED
    BY <2>2, <2>3
<1>15. IsSeq(listed) /\ \A i \in DOMAIN listed : ElementFits(listed[i], T)
  <2>1. PICK l : l = Listed(b, f)
    OBVIOUS
  <2>2. PICK k : k = Kept(values)
    OBVIOUS
  <2>3. /\ IsSeq(l \o k)
        /\ \A i \in DOMAIN (l \o k) :
              (\E j \in DOMAIN l : (l \o k)[i] = l[j]) \/ (l \o k)[i] \in Elements(T)
    BY <2>1, <2>2, <1>4, <1>14, Concatenated
  <2>4. \A j \in DOMAIN l : ElementFits(l[j], T)
    BY <2>1, <1>14
  <2>5. listed = l \o k
    BY <2>1, <2>2, <1>12
  <2>6. QED
    BY <2>3, <2>4, <2>5, <1>3
<1>16. Well(v, s)'
  BY <1>6, <1>13, <1>15 DEF Well, AsList, T
<1>17. Follows(v, "list", calls, listed)'
  BY <1>12, <1>13 DEF Follows, Given, Last
<1>18. MapsMove(b, f) /\ v[1] # "map"
  BY <1>1, <1>13, MapsStay DEF AsList, Unset
<1>19. QED
  BY <1>1, <1>5, <1>6, <1>7, <1>8, <1>16, <1>17, <1>18, FieldStep

\* What the calls before and one more have put.
LEMMA PutMore ==
    ASSUME NEW n \in Nat, NEW calls, \A i \in calls : i \in Nat /\ i < n /\ log'[i] = log[i],
           NEW m, PutBy(calls, m), NEW entries, log'[n].arg = entries
    PROVE  PutBy(calls \cup {n}, entries ++ m)'
<1>1. DOMAIN (entries ++ m) = UNION {DOMAIN log'[i].arg : i \in calls \cup {n}}
  BY DEF PutBy, ++
<1>2. ASSUME NEW i \in calls \cup {n}, NEW k \in DOMAIN log'[i].arg
      PROVE  \/ (entries ++ m)[k] = log'[i].arg[k]
             \/ \E j \in calls \cup {n} : i < j /\ k \in DOMAIN log'[j].arg
  <2>1. CASE k \in DOMAIN entries
    <3>1. CASE i = n
      BY <2>1, <3>1 DEF ++
    <3>2. CASE i # n
      BY <2>1, <3>2
    <3>3. QED
      BY <3>1, <3>2
  <2>2. CASE k \notin DOMAIN entries
    <3>1. i \in calls /\ k \in DOMAIN log[i].arg
      BY <2>2, <1>2
    <3>2. m[k] = log[i].arg[k] \/ \E j \in calls : i < j /\ k \in DOMAIN log[j].arg
      BY <3>1 DEF PutBy
    <3>3. k \in DOMAIN m
      BY <3>1 DEF PutBy
    <3>4. (entries ++ m)[k] = m[k]
      BY <2>2, <3>3 DEF ++
    <3>5. QED
      BY <3>1, <3>2, <3>4
  <2>3. QED
    BY <2>1, <2>2
<1>3. QED
  BY <1>1, <1>2 DEF PutBy

LEMMA PutEntriesStep ==
    ASSUME IInv, ListsDefined, NEW b \in DOMAIN builders, NEW f \in Fields(b),
           Setter(b, f).by = "entries", PutEntries(b, f)
    PROVE  IInv' /\ ListsDefined'
<1> DEFINE T == Setter(b, f).of
<1>1. PICK K \in SUBSET Keys, e \in Elements(T) :
        /\ Calls(b, f, "entries", [k \in K |-> e])
        /\ Put(b, f, [k \in K |-> e])
  BY DEF PutEntries, Setter
<1>2. PICK entries : entries = [k \in K |-> e]
  OBVIOUS
<1>3. Calls(b, f, "entries", entries) /\ Put(b, f, entries)
  BY <1>1, <1>2
<1>4. T \in Structs \cup Plain
  BY SettersFitBuilders DEF IInv, SetterFits
<1> HIDE DEF T
<1>5. \A k \in DOMAIN entries : ElementFits(entries[k], T)
  BY <1>1, <1>2, <1>4, ElementsAre
<1>6. PICK w : w = Holds(b, f)
  OBVIOUS
<1>7. PICK s : s = Setter(b, f)
  OBVIOUS
<1>8. PICK old : old = Said(b, f)
  OBVIOUS
<1>9. PICK listed : listed = Listed(b, f)'
  OBVIOUS
<1>10. PICK n : n = Len(log) + 1
  OBVIOUS
<1>11. /\ Logged(b, f, "entries", entries)
       /\ old \cup {n} = Said(b, f)'
       /\ Last(n, old \cup {n})
       /\ \A i \in old : i \in Nat /\ i < n /\ log'[i] = log[i]
       /\ log'[n].arg = entries
  BY <1>3, <1>8, <1>10, LastSaid
<1>12. n \in Nat
  BY <1>10, <1>11 DEF Logged
<1>13. IF \A j \in old : DOMAIN log[j].arg = {} THEN w = Unset
       ELSE w[1] = "map" /\ PutBy(old, maps[w[2]])
  BY <1>6, <1>8 DEF IInv, AllFollow, Follows
<1>14. Well(w, s)
  BY <1>6, <1>7 DEF IInv, AllWell
<1>15. /\ s.by = "entries" /\ s.of = T
  BY <1>7 DEF T
<1>16. ASSUME NEW v, Well(v, s)', MapsMove(b, f), Assign(b, f, v),
              v[1] = "map" => v = w \/ v[2] \notin DOMAIN maps,
              IF \A j \in old \cup {n} : DOMAIN log'[j].arg = {} THEN v = Unset
              ELSE v[1] = "map" /\ PutBy(old \cup {n}, maps[v[2]])'
       PROVE  IInv' /\ ListsDefined'
  <2>1. PICK calls : calls = old \cup {n}
    OBVIOUS
  <2>2. Follows(v, "entries", calls, listed)'
    BY <1>16, <1>11, <2>1 DEF Follows, Given, Last
  <2>3. calls = Said(b, f)'
    BY <1>11, <2>1
  <2>4. QED
    BY <1>16, <1>3, <1>6, <1>7, <1>9, <2>2, <2>3, FieldStep
<1>17. CASE DOMAIN entries = {}
  <2>1. Assign(b, f, w) /\ UNCHANGED maps
    BY <1>3, <1>6, <1>17 DEF Put, Holds
  <2>2. MapsMove(b, f)
    BY <2>1, MapsStay
  <2>3. SameShape
    BY <2>1, AssignStep DEF IInv
  <2>4. Well(w, s)'
    BY <2>1, <2>3, <1>14, WellStays DEF MapStays, Well, Unset
  <2>5. (\A j \in old \cup {n} : DOMAIN log'[j].arg = {})
            <=> (\A j \in old : DOMAIN log[j].arg = {})
    BY <1>11, <1>17
  <2>6. ASSUME NEW m, PutBy(old, m)
        PROVE  PutBy(old \cup {n}, m)'
    <3>1. UNION {DOMAIN log'[i].arg : i \in old \cup {n}} = UNION {DOMAIN log[i].arg : i \in old}
      BY <1>11, <1>17
    <3>2. QED
      BY <3>1, <2>6, <1>11, <1>17 DEF PutBy
  <2>7. (~ \A j \in old : DOMAIN log[j].arg = {}) => PutBy(old \cup {n}, maps[w[2]])'
    <3>1. PICK m : m = maps[w[2]]
      OBVIOUS
    <3>2. m = maps'[w[2]]
      BY <3>1, <2>1
    <3>3. PutBy(old, m) => PutBy(old \cup {n}, m)'
      BY <2>6
    <3>4. QED
      BY <1>13, <3>1, <3>2, <3>3 DEF PutBy
  <2>8. QED
    BY <2>1, <2>2, <2>4, <2>5, <2>7, <1>13, <1>16
<1>18. CASE DOMAIN entries # {} /\ w = Unset
  <2>1. PICK v : v = <<"map", Len(maps) + 1>>
    OBVIOUS
  <2>2. Assign(b, f, v) /\ maps' = Append(maps, entries)
    BY <1>3, <1>6, <1>18, <2>1 DEF Put, Holds
  <2>3. /\ Len(maps) \in Nat /\ DOMAIN maps = 1 .. Len(maps)
        /\ IsSeq(maps') /\ DOMAIN maps' = 1 .. (Len(maps) + 1)
        /\ \A i \in DOMAIN maps : maps'[i] = maps[i]
        /\ maps'[Len(maps) + 1] = entries
    BY <2>2, Appending DEF IInv, Sequences
  <2>4. MapsMove(b, f)
    BY <2>3 DEF MapsMove
  <2>5. Well(v, s)'
    BY <2>1, <2>3, <1>5, <1>15 DEF Well
  <2>6. \A j \in old : DOMAIN log'[j].arg = {}
    BY <1>11, <1>13, <1>18 DEF Unset
  <2>7. PutBy(old \cup {n}, entries)'
    <3>1. DOMAIN entries = UNION {DOMAIN log'[i].arg : i \in old \cup {n}}
      BY <1>11, <2>6
    <3>2. QED
      BY <3>1, <1>11, <2>6 DEF PutBy
  <2>8. v[1] = "map" /\ maps'[v[2]] = entries /\ v[2] \notin DOMAIN maps
    BY <2>1, <2>3
  <2>9. PutBy(old \cup {n}, maps[v[2]])'
    BY <2>7, <2>8 DEF PutBy
  <2>10. ~ \A j \in old \cup {n} : DOMAIN log'[j].arg = {}
    BY <1>11, <1>18
  <2>11. QED
    BY <2>2, <2>4, <2>5, <2>8, <2>9, <2>10, <1>16
<1>19. CASE DOMAIN entries # {} /\ w # Unset
  <2>1. PICK i : i = w[2]
    OBVIOUS
  <2>2. /\ w = <<"map", i>> /\ i \in DOMAIN maps
        /\ \A k \in DOMAIN maps[i] : ElementFits(maps[i][k], T)
    BY <1>14, <1>15, <1>19, <2>1 DEF Well
  <2>3. PICK m : m = maps[i]
    OBVIOUS
  <2>4. PICK more : more = entries ++ m
    OBVIOUS
  <2>5. Assign(b, f, w) /\ maps' = [maps EXCEPT ![i] = more]
    BY <1>3, <1>6, <1>19, <2>1, <2>3, <2>4 DEF Put, Holds
  <2>6. /\ DOMAIN maps' = DOMAIN maps /\ maps'[i] = more
        /\ \A j \in DOMAIN maps : j # i => maps'[j] = maps[j]
    BY <2>2, <2>5
  <2>7. IsSeq(maps')
    <3>1. Len(maps) \in Nat /\ DOMAIN maps = 1 .. Len(maps)
      BY Appending DEF IInv, Sequences
    <3>2. maps' = [j \in 1 .. Len(maps) |-> maps'[j]]
      BY <2>5, <3>1
    <3> DEFINE V == {maps'[j] : j \in DOMAIN maps'}
    <3>3. maps' \in [1 .. Len(maps) -> V]
      BY <3>1, <3>2, <2>6
    <3> HIDE DEF V
    <3>4. maps' \in UNION {[1 .. l -> V] : l \in Nat}
      BY <3>1, <3>3
    <3>5. maps' \in Seq(V)
      BY <3>4, SeqDef
    <3>6. QED
      BY <3>5 DEF IsSeq, V
  <2>8. MapsMove(b, f)
    BY <2>2, <2>6, <2>7, <1>6 DEF MapsMove
  <2>9. \A k \in DOMAIN more : ElementFits(more[k], T)
    BY <2>2, <2>3, <2>4, <1>5 DEF ++
  <2>10. Well(w, s)'
    BY <2>1, <2>2, <2>6, <2>9, <1>15 DEF Well
  <2>11. PutBy(old, m)
    BY <1>13, <1>19, <2>1, <2>3
  <2>12. PutBy(old \cup {n}, more)'
    <3>1. PutBy(old \cup {n}, entries ++ m)'
      BY <2>11, <1>11, <1>12, PutMore
    <3>2. QED
      BY <3>1, <2>4 DEF PutBy
  <2>13. PutBy(old \cup {n}, maps[w[2]])'
    BY <2>1, <2>6, <2>12 DEF PutBy
  <2>14. ~ \A j \in old \cup {n} : DOMAIN log'[j].arg = {}
    BY <1>11, <1>19
  <2>15. w[1] = "map"
    BY <2>2
  <2>16. QED
    BY <2>5, <2>8, <2>10, <2>13, <2>14, <2>15, <1>16
<1>20. QED
  BY <1>17, <1>18, <1>19

LEMMA GetNameStep ==
    ASSUME IInv, ListsDefined, NEW b \in DOMAIN builders, GetName(b)
    PROVE  IInv' /\ ListsDefined'
<1>1. /\ builders[b].of = "Kamelet" /\ Calls(b, "Name", "none", 0) /\ UNCHANGED maps
      /\ builders' = [builders EXCEPT ![b].metadata = TRUE]
  BY DEF GetName
<1>2. Logged(b, "Name", "none", 0) /\ IsSeq(log')
  BY <1>1, CallLogged DEF IInv
<1>3. PICK made : made = TRUE
  OBVIOUS
<1>4. PICK before : before = builders[b].metadata
  OBVIOUS
<1>5. builders' = [builders EXCEPT ![b].metadata = made]
  BY <1>1, <1>3
<1>6. builders[b] = [of |-> builders[b].of, metadata |-> before, fields |-> builders[b].fields]
  BY <1>4 DEF IInv, Built
<1>7. /\ DOMAIN builders' = DOMAIN builders
      /\ builders'[b] = [of |-> builders[b].of, metadata |-> made,
                         fields |-> builders[b].fields]
      /\ \A c \in DOMAIN builders : c # b => builders'[c] = builders[c]
  BY <1>5, <1>6
<1>8. /\ \A c \in DOMAIN builders :
            builders'[c].of = builders[c].of /\ builders'[c].fields = builders[c].fields
      /\ builders'[b].metadata = TRUE
  BY <1>3, <1>7
<1>9. Built'
  <2> SUFFICES ASSUME NEW c \in DOMAIN builders
               PROVE  /\ builders'[c].of \in Structs
                      /\ builders'[c].metadata \in BOOLEAN
                      /\ builders'[c] = [of |-> builders'[c].of,
                                         metadata |-> builders'[c].metadata,
                                         fields |-> builders'[c].fields]
                      /\ builders'[c].fields
                            = [g \in DOMAIN Setters[builders'[c].of] |-> builders'[c].fields[g]]
    BY <1>7 DEF Built, Fields, Holds
  <2>1. builders[c].of \in Structs
        /\ builders[c].fields = [g \in DOMAIN Setters[builders[c].of] |-> builders[c].fields[g]]
    BY DEF IInv, Built, Fields, Holds
  <2>2. CASE c = b
    <3>1. builders'[b].metadata = made /\ made \in BOOLEAN
      BY <1>3, <1>7
    <3>2. QED
      BY <2>1, <2>2, <3>1, <1>7, <1>8
  <2>3. CASE c # b
    BY <2>3, <1>7 DEF IInv, Built, Fields, Holds
  <2>4. QED
    BY <2>2, <2>3
<1>10. SameShape
  BY <1>7, <1>8, <1>9 DEF SameShape
<1>11. \A c \in DOMAIN builders : Fields(c)' = Fields(c) /\ \A g : Setter(c, g)' = Setter(c, g)
  BY <1>10, ShapeStays
<1>12. \A c \in DOMAIN builders : \A g \in Fields(c) : Holds(c, g)' = Holds(c, g)
  BY <1>8 DEF Holds
<1>13. ListsDefined'
  BY <1>2, ListedAfter
<1>14. ASSUME NEW c \in DOMAIN builders, NEW g \in Fields(c)
       PROVE  /\ Well(Holds(c, g), Setter(c, g))'
              /\ Follows(Holds(c, g), Setter(c, g).by, Said(c, g), Listed(c, g))'
  <2>1. MapStays(Holds(c, g))
    <3>1. Well(Holds(c, g), Setter(c, g))
      BY DEF IInv, AllWell
    <3>2. QED
      BY <3>1, <1>1 DEF MapStays, Well, Unset, Value
  <2>2. /\ Well(Holds(c, g), Setter(c, g))
        /\ Follows(Holds(c, g), Setter(c, g).by, Said(c, g), Listed(c, g))
    BY DEF IInv, AllWell, AllFollow
  <2>3. QED
    BY <2>1, <2>2, <1>2, <1>10, <1>12, FieldStays
<1>15. AllWell' /\ AllFollow'
  BY <1>7, <1>11, <1>14 DEF AllWell, AllFollow
<1>16. MapsApart'
  BY <1>7, <1>11, <1>12 DEF IInv, MapsApart
<1>17. MetadataMade'
  <2> SUFFICES ASSUME NEW c \in DOMAIN builders, builders[c].of = "Kamelet",
                      ~ builders'[c].metadata, NEW g \in DOMAIN KameletMetadata
               PROVE  builders'[c].fields[g] = Unset
    BY <1>7, <1>8 DEF MetadataMade, Holds
  <2>1. c # b
    BY <1>8
  <2>2. QED
    BY <2>1, <1>7 DEF IInv, MetadataMade, Holds
<1>18. CallsFit'
  <2> SUFFICES ASSUME NEW i \in 1 .. Len(log) + 1, log'[i].by # "none"
               PROVE  /\ log'[i].on \in DOMAIN builders
                      /\ log'[i].field \in Fields(log'[i].on)
                      /\ log'[i].by = Setter(log'[i].on, log'[i].field).by
    BY <1>2, <1>7, <1>11 DEF CallsFit, Logged
  <2>1. CASE i \in DOMAIN log
    BY <2>1, <1>2 DEF IInv, CallsFit, Logged
  <2>2. CASE i = Len(log) + 1
    BY <2>2, <1>2 DEF Logged
  <2>3. QED
    BY <2>1, <2>2, <1>2 DEF Logged
<1>19. Sequences'
  BY <1>1, <1>2 DEF IInv, Sequences
<1>20. QED
  BY <1>9, <1>13, <1>15, <1>16, <1>17, <1>18, <1>19 DEF IInv

LEMMA NextSound ==
    ASSUME IInv, ListsDefined, [Next]_vars
    PROVE  IInv' /\ ListsDefined'
<1>1. CASE Next
  <2>1. PICK b \in DOMAIN builders :
            GetName(b) \/ \E f \in DOMAIN builders[b].fields : With(b, f)
    BY <1>1 DEF Next
  <2>2. CASE GetName(b)
    BY <2>2, GetNameStep
  <2>3. ASSUME NEW f \in DOMAIN builders[b].fields, With(b, f)
        PROVE  IInv' /\ ListsDefined'
    <3>1. f \in Fields(b)
      BY SettersFitBuilders DEF IInv
    <3>2. CASE Setter(b, f).by = "value" /\ SetValue(b, f)
      BY <3>1, <3>2, SetValueStep
    <3>3. CASE Setter(b, f).by = "pointer" /\ SetPointer(b, f)
      BY <3>1, <3>3, SetPointerStep
    <3>4. CASE Setter(b, f).by = "list" /\ AppendValues(b, f)
      BY <3>1, <3>4, AppendValuesStep
    <3>5. CASE Setter(b, f).by = "entries" /\ PutEntries(b, f)
      BY <3>1, <3>5, PutEntriesStep
    <3>6. QED
      BY <2>3, <3>2, <3>3, <3>4, <3>5 DEF With, Setter
  <2>4. QED
    BY <2>1, <2>2, <2>3
<1>2. CASE UNCHANGED vars
  <2>1. builders' = builders /\ maps' = maps /\ log' = log
    BY <1>2 DEF vars
  <2>2. \A b, f : Said(b, f)' = Said(b, f)
    BY <2>1 DEF Said
  <2>3. ASSUME NEW b, NEW f, NEW g
        PROVE  Lists(b, f, g)' <=> Lists(b, f, g)
    BY <2>1, <2>2 DEF Lists
  <2>4. ListsDefined'
    BY <2>3 DEF ListsDefined
  <2>5. \A b, f : Listed(b, f)' = Listed(b, f)
    BY <2>1, <2>2 DEF Listed
  <2>6. Built' /\ Sequences' /\ AllWell'
    BY <2>1 DEF IInv, Built, Sequences, AllWell, Well, Fields, Setter, Holds, Of
  <2>7. MapsApart' /\ MetadataMade' /\ CallsFit'
    BY <2>1 DEF IInv, MapsApart, MetadataMade, CallsFit, Fields, Setter, Holds
  <2>8. AllFollow'
    BY <2>1, <2>2, <2>5 DEF IInv, AllFollow, Follows, Given, Fields, Setter, Holds, PutBy
  <2>9. QED
    BY <2>4, <2>6, <2>7, <2>8 DEF IInv
<1>3. QED
  BY <1>1, <1>2

LEMMA SoundIsTyped ==
    ASSUME IInv
    PROVE  TypeOK
<1> SUFFICES ASSUME NEW b \in DOMAIN builders
             PROVE  /\ DOMAIN builders[b].fields = DOMAIN Declared(builders[b].of)
                    /\ \A f \in DOMAIN builders[b].fields :
                          Fits(builders[b].fields[f], Declared(builders[b].of)[f])
                    /\ builders[b].of = "Kamelet" /\ ~ builders[b].metadata =>
                          \A f \in DOMAIN KameletMetadata : builders[b].fields[f] = Unset
  BY DEF TypeOK
<1>1. /\ DOMAIN builders[b].fields = Fields(b)
      /\ DOMAIN Declared(builders[b].of) = Fields(b)
      /\ \A f \in Fields(b) : SetterFits(Setter(b, f), Declared(builders[b].of)[f])
  BY SettersFitBuilders DEF IInv
<1>2. ASSUME NEW f \in Fields(b)
      PROVE  Fits(Holds(b, f), Declared(builders[b].of)[f])
  <2>1. PICK v : v = Holds(b, f)
    OBVIOUS
  <2>2. PICK s : s = Setter(b, f)
    OBVIOUS
  <2>3. PICK d : d = Declared(builders[b].of)[f]
    OBVIOUS
  <2>4. Well(v, s) /\ SetterFits(s, d)
    BY <1>1, <2>1, <2>2, <2>3 DEF IInv, AllWell
  <2>5. CASE v = Unset
    BY <2>5, <2>1, <2>3 DEF Fits
  <2>6. CASE s.by = "value" /\ v = Value(v[2])
    <3>1. v[1] = "value"
      BY <2>6 DEF Value
    <3>2. QED
      BY <2>1, <2>3, <2>4, <2>6, <3>1 DEF Fits, SetterFits
  <2>7. ASSUME s.by = "pointer", NEW c \in Of(s.of), v = <<"pointer", c>>
        PROVE  Fits(v, d)
    <3>1. d = Pointer(builders[v[2]].of) /\ v[1] = "pointer"
      BY <2>4, <2>7 DEF SetterFits, Of
    <3>2. QED
      BY <3>1 DEF Fits
  <2>8. CASE s.by = "list" /\ v = <<"list", v[2]>>
             /\ \A i \in DOMAIN v[2] : ElementFits(v[2][i], s.of)
    <3>1. d = Slice(s.of) /\ v[1] = "list"
      BY <2>4, <2>8 DEF SetterFits
    <3>2. d.kind = "slice" /\ d.of = s.of
      BY <3>1 DEF Slice
    <3>3. QED
      BY <2>1, <2>3, <2>8, <3>1, <3>2 DEF Fits, ElementFits
  <2>9. CASE s.by = "entries" /\ v = <<"map", v[2]>>
             /\ \A k \in DOMAIN maps[v[2]] : ElementFits(maps[v[2]][k], s.of)
    <3>1. d = Map(s.of) /\ v[1] = "map"
      BY <2>4, <2>9 DEF SetterFits
    <3>2. d.kind = "map" /\ d.of = s.of
      BY <3>1 DEF Map
    <3>3. QED
      BY <2>1, <2>3, <2>9, <3>1, <3>2 DEF Fits, ElementFits
  <2>10. QED
    BY <2>1, <2>3, <2>4, <2>5, <2>6, <2>7, <2>8, <2>9 DEF Well
<1>3. QED
  BY <1>1, <1>2 DEF Holds, IInv, MetadataMade

LEMMA SoundAccumulates ==
    ASSUME IInv
    PROVE  SettersAccumulate
<1> SUFFICES ASSUME NEW b \in DOMAIN builders, NEW f \in DOMAIN builders[b].fields
             PROVE  \/ Said(b, f) = {} /\ Holds(b, f) \in {Unset, Value(0)}
                    \/ \E i \in Said(b, f) :
                        /\ \A j \in Said(b, f) : j <= i
                        /\ \/ log[i].by = "value" /\ Holds(b, f) = Value(log[i].arg)
                           \/ log[i].by = "pointer"
                              /\ Holds(b, f) = IF log[i].arg = 0 THEN Unset
                                               ELSE <<"pointer", log[i].arg>>
                           \/ log[i].by = "list" /\ Holds(b, f) = AsList(Listed(b, f))
                           \/ log[i].by = "entries"
                              /\ IF \A j \in Said(b, f) : DOMAIN log[j].arg = {}
                                 THEN Holds(b, f) = Unset
                                 ELSE /\ Holds(b, f)[1] = "map"
                                      /\ PutBy(Said(b, f), maps[Holds(b, f)[2]])
  BY DEF SettersAccumulate, Holds
<1>1. f \in Fields(b) /\ SetterFits(Setter(b, f), Declared(builders[b].of)[f])
  BY SettersFitBuilders DEF IInv
<1>2. Follows(Holds(b, f), Setter(b, f).by, Said(b, f), Listed(b, f))
  BY <1>1 DEF IInv, AllFollow
<1>3. CASE Said(b, f) = {}
  BY <1>2, <1>3 DEF Follows
<1>4. CASE Said(b, f) # {}
  <2>1. PICK i \in Said(b, f) : Last(i, Said(b, f)) /\ Given(Holds(b, f), Setter(b, f).by, i)
    BY <1>2, <1>4 DEF Follows
  <2>2. log[i].by = Setter(b, f).by /\ log[i].by # "none"
    BY <2>1 DEF IInv, CallsFit, Said
  <2>3. Setter(b, f).by \in {"value", "pointer", "list", "entries"}
    BY <1>1, <2>2 DEF SetterFits
  <2>4. QED
    BY <1>2, <2>1, <2>2, <2>3 DEF Follows, Given, Last
<1>5. QED
  BY <1>3, <1>4

\* Every builder has the fields of its API type and holds in each what the type
\* declares; no two builders' fields hold one map, whatever was copied; and each
\* field follows from the calls about it (all With functions, GetName, the constructors).
THEOREM BuildersSound == Spec => [](IInv /\ ListsDefined)
<1>1. Init => IInv /\ ListsDefined
  BY InitSound
<1>2. IInv /\ ListsDefined /\ [Next]_vars => (IInv /\ ListsDefined)'
  BY NextSound
<1>3. QED
  BY <1>1, <1>2, PTL DEF Spec

\* No field of an API type is missing in its configuration, none holds what the
\* type does not allow, and metadata is there before it is written to (the
\* generated With functions of every type, against *_types.go).
THEOREM TypeCorrectness == Spec => []TypeOK
<1>1. IInv => TypeOK
  BY SoundIsTyped
<1>2. QED
  BY <1>1, BuildersSound, PTL

\* Fields hold what the calls about them say, whatever is called on the builders
\* they were given or copied from ("If called multiple times, ...").
THEOREM CallsAccumulate == Spec => []SettersAccumulate
<1>1. IInv => SettersAccumulate
  BY SoundAccumulates
<1>2. QED
  BY <1>1, BuildersSound, PTL
===========================================================================
