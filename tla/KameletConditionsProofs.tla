------------------------ MODULE KameletConditionsProofs ------------------------
(* The condition list for any types, reasons, clock and length of a call:    *)
(* one condition per type, transition times that follow the status, and what *)
(* a call that returns early has applied.                                    *)
EXTENDS KameletConditions, FiniteSetTheorems, FunctionTheorems,
        WellFoundedInduction, TLAPS

Unique(list) ==
    \A i, j \in DOMAIN list : list[i].type = list[j].type => i = j

-----------------------------------------------------------------------------
\* What RemoveCondition does to a list with one condition per type.

\* How many indices a list of length n has, all of them or without one.
LEMMA Indices ==
    ASSUME NEW n \in Nat
    PROVE  /\ Cardinality(1..n) = n
           /\ \A k \in 1..n : Cardinality((1..n) \ {k}) = n - 1
<1>1. IsFiniteSet(1..n)
  BY FS_Interval
<1>2. Cardinality(1..n) = n
  BY FS_Interval
<1>3. ASSUME NEW k \in 1..n PROVE Cardinality((1..n) \ {k}) = n - 1
  BY <1>1, <1>2, FS_RemoveElement
<1> QED  BY <1>2, <1>3

-----------------------------------------------------------------------------
\* What is left of a list in its order: the elements at a set of indices.

\* Induction, for a set of numbers: one that is missing would have a least one
\* missing, which is neither 0 nor the successor of one that is there.
LEMMA SetInduction ==
    ASSUME NEW T, 0 \in T, \A n \in Nat : n \in T => n + 1 \in T
    PROVE  Nat \subseteq T
<1> DEFINE R == OpToRel(<, Nat)
           U == Nat \ T
<1> SUFFICES ASSUME U # {} PROVE FALSE
  OBVIOUS
<1>1. IsWellFoundedOn(R, Nat)
  BY NatLessThanWellFounded
<1> HIDE DEF R
<1>2. PICK m \in U : \A n \in U : ~ (<<n, m>> \in R)
  BY <1>1, WFMin
<1>3. \A n \in U : ~ (n < m)
  BY <1>2 DEF R, OpToRel
<1>4. m # 0 /\ m - 1 \in Nat /\ m - 1 \notin U
  BY <1>3
<1> QED  BY <1>4

\* at lists the indices I in their order.
Enumerates(at, n, I) ==
    /\ at \in [1..n -> I]
    /\ \A i \in I : \E m \in 1..n : at[m] = i
    /\ \A l, m \in 1..n : l < m => at[l] < at[m]

\* Any indices of a list can be listed in their order.
LEMMA Enumerable ==
    ASSUME NEW n \in Nat, NEW I \in SUBSET (1..n)
    PROVE  \E c \in Nat : \E at \in [1..c -> I] : Enumerates(at, c, I)
<1> DEFINE Listable(k) == \A J \in SUBSET (1..k) :
                     \E c \in Nat : \E at \in [1..c -> J] : Enumerates(at, c, J)
           T == {k \in Nat : Listable(k)}
<1>1. Listable(0)
  <2> SUFFICES ASSUME NEW J \in SUBSET (1..0)
               PROVE  \E c \in Nat : \E at \in [1..c -> J] : Enumerates(at, c, J)
    OBVIOUS
  <2> DEFINE at == [m \in 1..0 |-> m]
  <2>1. J = {}
    OBVIOUS
  <2>2. at \in [1..0 -> J] /\ Enumerates(at, 0, J)
    BY <2>1 DEF Enumerates
  <2> QED  BY <2>2
<1>2. ASSUME NEW k \in Nat, Listable(k) PROVE Listable(k + 1)
  <2> SUFFICES ASSUME NEW J \in SUBSET (1..(k + 1))
               PROVE  \E c \in Nat : \E at \in [1..c -> J] : Enumerates(at, c, J)
    OBVIOUS
  <2>1. J \ {k + 1} \in SUBSET (1..k)
    OBVIOUS
  <2>2. PICK c \in Nat : \E at \in [1..c -> J \ {k + 1}] : Enumerates(at, c, J \ {k + 1})
    BY <1>2, <2>1
  <2>3. PICK at \in [1..c -> J \ {k + 1}] : Enumerates(at, c, J \ {k + 1})
    BY <2>2
  <2>4. CASE k + 1 \notin J
    <3>1. J \ {k + 1} = J
      BY <2>4
    <3> QED  BY <2>3, <3>1
  <2>5. CASE k + 1 \in J
    <3> DEFINE all == [m \in 1..(c + 1) |-> IF m = c + 1 THEN k + 1 ELSE at[m]]
    <3>1. /\ all \in [1..(c + 1) -> J] /\ all[c + 1] = k + 1
          /\ \A m \in 1..c : all[m] = at[m] /\ at[m] \in 1..k
      <4>1. \A m \in 1..c : at[m] \in J /\ at[m] \in 1..k
        BY <2>1
      <4>2. \A m \in 1..(c + 1) : m # c + 1 => m \in 1..c
        OBVIOUS
      <4>3. \A m \in 1..c : m \in 1..(c + 1) /\ m # c + 1
        OBVIOUS
      <4> QED  BY <2>5, <4>1, <4>2, <4>3
    <3> HIDE DEF all
    <3>2. ASSUME NEW i \in J PROVE \E m \in 1..(c + 1) : all[m] = i
      BY <2>3, <3>1 DEF Enumerates
    <3>3. ASSUME NEW l \in 1..(c + 1), NEW m \in 1..(c + 1), l < m
          PROVE  all[l] < all[m]
      <4>1. CASE m = c + 1
        BY <3>1, <3>3, <4>1
      <4>2. CASE m # c + 1
        <5>1. l \in 1..c /\ m \in 1..c
          BY <3>3, <4>2
        <5> QED  BY <2>3, <3>1, <3>3, <5>1 DEF Enumerates
      <4> QED  BY <4>1, <4>2
    <3>4. Enumerates(all, c + 1, J) /\ c + 1 \in Nat
      BY <3>1, <3>2, <3>3 DEF Enumerates
    <3> QED  BY <3>1, <3>4
  <2> QED  BY <2>4, <2>5
<1> HIDE DEF Listable
<1>3. n \in T
  <2>1. 0 \in T /\ \A k \in Nat : k \in T => k + 1 \in T
    BY <1>1, <1>2
  <2> HIDE DEF T
  <2> QED  BY <2>1, SetInduction
<1>4. Listable(n)
  BY <1>3
<1> QED  BY <1>4 DEF Listable

\* The elements kept are those at the listed indices, one after the other.
LEMMA KeptListed ==
    ASSUME NEW S, NEW list \in Seq(S), NEW I \in SUBSET (DOMAIN list),
           NEW n \in Nat, NEW at, Enumerates(at, n, I)
    PROVE  Kept(list, I) = [m \in 1..n |-> list[at[m]]]
<1> DEFINE place(i) == Cardinality({j \in I : j <= i})
<1>1. /\ at \in [1..n -> I] /\ I \subseteq Nat
      /\ \A l, m \in 1..n : l < m => at[l] < at[m]
      /\ \A i \in I : \E m \in 1..n : at[m] = i
  <2>1. DOMAIN list \subseteq Nat
    OBVIOUS
  <2> QED  BY <2>1 DEF Enumerates
<1>2. \A l, m \in 1..n : at[l] <= at[m] => l <= m
  BY <1>1
<1>3. \A l, m \in 1..n : l <= m => at[l] <= at[m]
  BY <1>1
<1>4. ASSUME NEW m \in 1..n PROVE place(at[m]) = m
  <2> DEFINE J == {j \in I : j <= at[m]}
             f == [l \in 1..m |-> at[l]]
  <2>1. f \in Bijection(1..m, J)
    <3>1. f \in [1..m -> J]
      <4>1. \A l \in 1..m : l \in 1..n /\ l <= m
        OBVIOUS
      <4>2. \A l \in 1..m : at[l] \in I /\ at[l] <= at[m]
        BY <1>1, <1>3, <4>1
      <4> QED  BY <4>2
    <3>2. \A k, l \in 1..m : f[k] = f[l] => k = l
      <4>1. \A k, l \in 1..n : at[k] = at[l] => k <= l /\ l <= k
        BY <1>1, <1>2
      <4> QED  BY <4>1
    <3>3. \A j \in J : \E l \in 1..m : f[l] = j
      BY <1>1, <1>2
    <3> HIDE DEF f, J
    <3> QED  BY <3>1, <3>2, <3>3, Fun_IsBij
  <2>2. IsFiniteSet(1..m) /\ Cardinality(1..m) = m
    BY FS_Interval, Indices
  <2>3. ExistsBijection(1..m, J)
    BY <2>1 DEF ExistsBijection
  <2> HIDE DEF J
  <2>4. Cardinality(J) = m
    BY <2>2, <2>3, FS_Bijection
  <2> QED  BY <2>4 DEF J
<1>5. Cardinality(I) = n
  <2>1. at \in Bijection(1..n, I)
    <3>1. \A k, l \in 1..n : at[k] = at[l] => k = l
      BY <1>1, <1>2
    <3> QED  BY <1>1, <3>1, Fun_IsBij
  <2>2. IsFiniteSet(1..n) /\ Cardinality(1..n) = n
    BY FS_Interval, Indices
  <2>3. ExistsBijection(1..n, I)
    BY <2>1 DEF ExistsBijection
  <2> QED  BY <2>2, <2>3, FS_Bijection
<1>6. ASSUME NEW m \in 1..n PROVE (CHOOSE i \in I : place(i) = m) = at[m]
  <2>1. at[m] \in I /\ place(at[m]) = m
    BY <1>1, <1>4
  <2> HIDE DEF place
  <2>2. ASSUME NEW i \in I, place(i) = m PROVE i = at[m]
    BY <1>1, <1>4, <2>2
  <2> QED  BY <2>1, <2>2
<1>7. Kept(list, I) = [m \in 1..n |-> list[CHOOSE i \in I : place(i) = m]]
  BY <1>5 DEF Kept
<1> HIDE DEF place
<1> QED  BY <1>6, <1>7

\* The elements kept of a list of which nothing is taken are the list.
LEMMA KeptAll ==
    ASSUME NEW S, NEW list \in Seq(S)
    PROVE  Kept(list, DOMAIN list) = list
<1> DEFINE n == Len(list)
           at == [m \in 1..n |-> m]
<1>1. n \in Nat /\ DOMAIN list = 1..n
  OBVIOUS
<1>2. Enumerates(at, n, DOMAIN list)
  BY <1>1 DEF Enumerates
<1>3. Kept(list, DOMAIN list) = [m \in 1..n |-> list[at[m]]]
  BY <1>1, <1>2, KeptListed
<1> QED  BY <1>1, <1>3

\* Without one of them the others move up.
LEMMA KeptOthers ==
    ASSUME NEW S, NEW list \in Seq(S), NEW k \in DOMAIN list
    PROVE  Kept(list, DOMAIN list \ {k}) =
               [m \in 1..(Len(list) - 1) |-> IF m < k THEN list[m] ELSE list[m + 1]]
<1> DEFINE n == Len(list) - 1
           I == DOMAIN list \ {k}
           at == [m \in 1..n |-> IF m < k THEN m ELSE m + 1]
<1>1. n \in Nat /\ DOMAIN list = 1..(n + 1) /\ k \in 1..(n + 1)
  OBVIOUS
<1>2. \A m \in 1..n : at[m] = IF m < k THEN m ELSE m + 1
  OBVIOUS
<1>3. at \in [1..n -> I] /\ \A l, m \in 1..n : l < m => at[l] < at[m]
  BY <1>1
<1>4. ASSUME NEW i \in I PROVE \E m \in 1..n : at[m] = i
  <2>1. CASE i < k
    <3>1. i \in 1..n /\ at[i] = i
      BY <1>1, <2>1
    <3> QED  BY <3>1
  <2>2. CASE ~(i < k)
    <3>1. i - 1 \in 1..n /\ at[i - 1] = i
      BY <1>1, <1>2, <2>2
    <3> QED  BY <3>1
  <2> QED  BY <2>1, <2>2
<1> HIDE DEF at
<1>5. Enumerates(at, n, I)
  BY <1>3, <1>4 DEF Enumerates
<1>6. Kept(list, I) = [m \in 1..n |-> list[at[m]]]
  BY <1>1, <1>5, KeptListed
<1> QED  BY <1>2, <1>6

-----------------------------------------------------------------------------
\* Of a list with one condition per type, RemoveCondition takes the one of the
\* type, and leaves the others as GetCondition sees them.
LEMMA Removed ==
    ASSUME NEW list \in Seq(Condition), Unique(list), NEW t
    PROVE  LET rest == RemoveCondition(list, t) IN
           /\ rest \in Seq(Condition) /\ Unique(rest)
           /\ \A i \in DOMAIN rest : rest[i].type # t
           /\ \A i \in DOMAIN rest : \E j \in DOMAIN list : rest[i] = list[j]
           /\ \A j \in DOMAIN list :
                  list[j].type # t => \E i \in DOMAIN rest : rest[i] = list[j]
<1> DEFINE rest == RemoveCondition(list, t)
           n == Len(list)
<1>1. n \in Nat /\ DOMAIN list = 1..n /\ \A i \in 1..n : list[i] \in Condition
  OBVIOUS
<1>2. CASE OfType(list, t) = {}
  <2>1. rest = list
    BY <1>2, KeptAll DEF RemoveCondition
  <2>2. \A i \in 1..n : list[i].type # t
    BY <1>1, <1>2 DEF OfType
  <2> QED  BY <1>1, <2>1, <2>2
<1>3. CASE OfType(list, t) # {}
  <2>1. PICK k \in 1..n : list[k].type = t
    BY <1>1, <1>3 DEF OfType
  <2>2. OfType(list, t) = {k}
    BY <1>1, <2>1 DEF OfType, Unique
  <2>3. rest = [m \in 1..(n - 1) |-> IF m < k THEN list[m] ELSE list[m + 1]]
    BY <1>1, <2>1, <2>2, KeptOthers DEF RemoveCondition
  <2> HIDE DEF rest
  <2> DEFINE at(m) == IF m < k THEN m ELSE m + 1
  <2>4. ASSUME NEW m \in 1..(n - 1)
        PROVE  rest[m] = list[at(m)] /\ at(m) \in 1..n /\ at(m) # k
    BY <1>1, <2>1, <2>3
  <2>5. ASSUME NEW l \in 1..(n - 1), NEW m \in 1..(n - 1), at(l) = at(m) PROVE l = m
    BY <1>1, <2>1, <2>5
  <2>6. ASSUME NEW j \in 1..n, j # k PROVE \E m \in 1..(n - 1) : at(m) = j
    <3>1. CASE j < k
      <4>1. j \in 1..(n - 1) /\ at(j) = j
        BY <1>1, <2>1, <3>1
      <4> QED  BY <4>1
    <3>2. CASE ~(j < k)
      <4>1. j - 1 \in 1..(n - 1) /\ at(j - 1) = j
        BY <1>1, <2>1, <2>6, <3>2
      <4> QED  BY <4>1
    <3> QED  BY <3>1, <3>2
  <2>7. DOMAIN rest = 1..(n - 1) /\ n - 1 \in Nat
    BY <1>1, <2>1, <2>3
  <2> HIDE DEF at
  <2>8. rest \in Seq(Condition)
    <3>1. \A m \in 1..(n - 1) : rest[m] \in Condition
      BY <1>1, <2>4
    <3>2. rest = [m \in 1..(n - 1) |-> rest[m]]
      BY <2>3
    <3> QED  BY <2>7, <3>1, <3>2
  <2>9. Unique(rest)
    BY <1>1, <2>4, <2>5, <2>7 DEF Unique
  <2>10. \A i \in DOMAIN rest : rest[i].type # t
    BY <1>1, <2>1, <2>4, <2>7 DEF Unique
  <2>11. \A i \in DOMAIN rest : \E j \in DOMAIN list : rest[i] = list[j]
    BY <1>1, <2>4, <2>7
  <2>12. ASSUME NEW j \in DOMAIN list, list[j].type # t
         PROVE  \E i \in DOMAIN rest : rest[i] = list[j]
    BY <1>1, <2>1, <2>4, <2>6, <2>7, <2>12
  <2> QED  BY <2>8, <2>9, <2>10, <2>11, <2>12 DEF rest
<1> QED  BY <1>2, <1>3

\* With a condition of the type put at its end it has one per type again, that
\* one of its type and the old ones of the others.
LEMMA Replaced ==
    ASSUME NEW list \in Seq(Condition), Unique(list), NEW d \in Condition
    PROVE  LET new == Append(RemoveCondition(list, d.type), d) IN
           /\ new \in Seq(Condition) /\ Unique(new)
           /\ \A i \in DOMAIN new :
                  \/ new[i] = d
                  \/ new[i].type # d.type /\ \E j \in DOMAIN list : new[i] = list[j]
           /\ \E i \in DOMAIN new : new[i] = d
           /\ \A j \in DOMAIN list :
                  list[j].type # d.type => \E i \in DOMAIN new : new[i] = list[j]
<1> DEFINE rest == RemoveCondition(list, d.type)
           new == Append(rest, d)
<1>1. /\ rest \in Seq(Condition) /\ Unique(rest)
      /\ \A i \in DOMAIN rest : rest[i].type # d.type
      /\ \A i \in DOMAIN rest : \E j \in DOMAIN list : rest[i] = list[j]
      /\ \A j \in DOMAIN list :
             list[j].type # d.type => \E i \in DOMAIN rest : rest[i] = list[j]
  BY Removed
<1> HIDE DEF rest
<1>2. /\ new \in Seq(Condition)
      /\ Len(rest) \in Nat /\ DOMAIN rest = 1..Len(rest)
      /\ DOMAIN new = 1..(Len(rest) + 1)
      /\ \A i \in DOMAIN rest : new[i] = rest[i]
      /\ new[Len(rest) + 1] = d
  BY <1>1
<1> HIDE DEF new
<1>3. \A i \in DOMAIN new : i \in DOMAIN rest \/ i = Len(rest) + 1
  BY <1>2
<1>4. Unique(new)
  BY <1>1, <1>2, <1>3 DEF Unique
<1>5. \A i \in DOMAIN new :
          \/ new[i] = d
          \/ new[i].type # d.type /\ \E j \in DOMAIN list : new[i] = list[j]
  BY <1>1, <1>2, <1>3
<1>6. \E i \in DOMAIN new : new[i] = d
  BY <1>2
<1>7. DOMAIN rest \subseteq DOMAIN new
  BY <1>2
<1>8. \A j \in DOMAIN list :
          list[j].type # d.type => \E i \in DOMAIN new : new[i] = list[j]
  BY <1>1, <1>2, <1>7
<1> QED  BY <1>2, <1>4, <1>5, <1>6, <1>8 DEF new, rest

\* The conditions of other types stay, in their order.
LEMMA OthersReplaced ==
    ASSUME NEW list \in Seq(Condition), Unique(list), NEW d \in Condition,
           d.type \in TypesOf(batch)
    PROVE  Others(Append(RemoveCondition(list, d.type), d)) = Others(list)
<1> DEFINE n == Len(list)
           T == TypesOf(batch)
           J == {i \in DOMAIN list : list[i].type \notin T}
           rest == RemoveCondition(list, d.type)
           new == Append(rest, d)
           K == {i \in DOMAIN new : new[i].type \notin T}
<1>1. n \in Nat /\ DOMAIN list = 1..n
  OBVIOUS
<1>2. PICK c \in Nat : \E at \in [1..c -> J] : Enumerates(at, c, J)
  BY <1>1, Enumerable
<1>3. PICK at \in [1..c -> J] : Enumerates(at, c, J)
  BY <1>2
<1>4. Others(list) = [m \in 1..c |-> list[at[m]]]
  BY <1>3, KeptListed DEF Others
<1>5. rest \in Seq(Condition) /\ new \in Seq(Condition) /\ Others(new) = Kept(new, K)
  BY Removed DEF Others
<1>8. K \in SUBSET (DOMAIN new)
  OBVIOUS
<1>6. CASE OfType(list, d.type) = {}
  <2>1. rest = list
    BY <1>6, KeptAll DEF RemoveCondition
  <2>2. /\ DOMAIN new = 1..(n + 1) /\ new[n + 1] = d
        /\ \A i \in 1..n : new[i] = list[i]
    BY <1>1, <2>1
  <2>3. K = J
    BY <1>1, <2>2
  <2> HIDE DEF new, K, J
  <2>4. Others(new) = [m \in 1..c |-> new[at[m]]]
    <3>1. J \in SUBSET (DOMAIN new) /\ Others(new) = Kept(new, J)
      BY <1>5, <1>8, <2>3
    <3>2. new \in Seq(Condition) /\ Enumerates(at, c, J)
      BY <1>3, <1>5
    <3> QED  BY <3>1, <3>2, KeptListed
  <2>5. \A m \in 1..c : at[m] \in 1..n
    BY <1>1 DEF J
  <2> QED  BY <1>4, <2>2, <2>4, <2>5 DEF new, rest
<1>7. CASE OfType(list, d.type) # {}
  <2>1. PICK k \in 1..n : list[k].type = d.type
    BY <1>1, <1>7 DEF OfType
  <2>2. OfType(list, d.type) = {k}
    BY <1>1, <2>1 DEF OfType, Unique
  <2>3. rest = [m \in 1..(n - 1) |-> IF m < k THEN list[m] ELSE list[m + 1]]
    <3> HIDE DEF new, J, K
    <3>1. rest = Kept(list, DOMAIN list \ {k})
      BY <2>2 DEF RemoveCondition
    <3> HIDE DEF rest
    <3> QED  BY <1>1, <2>1, <3>1, KeptOthers
  <2> HIDE DEF rest
  <2>4. /\ Len(rest) = n - 1 /\ DOMAIN rest = 1..(n - 1)
    BY <1>1, <1>5, <2>1, <2>3
  <2>5. /\ DOMAIN new = 1..n /\ new[n] = d
        /\ \A i \in 1..(n - 1) : new[i] = rest[i]
    <3>1. /\ DOMAIN new = 1..(Len(rest) + 1) /\ new[Len(rest) + 1] = d
          /\ \A i \in 1..Len(rest) : new[i] = rest[i]
      BY <1>5
    <3> HIDE DEF new
    <3> QED  BY <1>1, <2>4, <3>1
  <2>13. new = Append(RemoveCondition(list, d.type), d)
    BY DEF rest
  <2> HIDE DEF new
  <2> DEFINE down(i) == IF i < k THEN i ELSE i - 1
             to == [m \in 1..c |-> down(at[m])]
  <2>6. ASSUME NEW i \in J
        PROVE  /\ i \in 1..n /\ i # k /\ down(i) \in 1..(n - 1)
               /\ new[down(i)] = list[i] /\ down(i) \in K
    <3>1. i \in 1..n /\ i # k /\ list[i].type \notin T
      BY <1>1, <2>1
    <3>2. down(i) \in 1..(n - 1)
      BY <1>1, <2>1, <3>1
    <3>3. rest[down(i)] = list[i]
      BY <1>1, <2>1, <2>3, <3>1, <3>2
    <3> HIDE DEF down
    <3>4. new[down(i)] = list[i] /\ down(i) \in DOMAIN new
      <4>1. DOMAIN new = 1..n /\ \A j \in 1..(n - 1) : j \in 1..n /\ new[j] = rest[j]
        BY <1>1, <2>5
      <4> HIDE DEF new
      <4> QED  BY <3>2, <3>3, <4>1
    <3> QED  BY <3>1, <3>2, <3>4
  <2>7. ASSUME NEW j \in K PROVE \E i \in J : down(i) = j
    <3>1. j \in 1..(n - 1) /\ rest[j].type \notin T
      <4>1. j \in 1..n /\ j # n
        BY <2>5
      <4> QED  BY <1>1, <2>5, <4>1
    <3>2. CASE j < k
      <4>1. j \in J /\ down(j) = j
        BY <1>1, <2>3, <3>1, <3>2
      <4> QED  BY <4>1
    <3>3. CASE ~(j < k)
      <4>1. j + 1 \in J /\ down(j + 1) = j
        BY <1>1, <2>1, <2>3, <3>1, <3>3
      <4> QED  BY <4>1
    <3> QED  BY <3>2, <3>3
  <2>8. \A i, j \in J : i < j => down(i) < down(j)
    <3>1. \A i \in J : i \in 1..n /\ i # k
      BY <2>6
    <3> QED  BY <1>1, <2>1, <3>1
  <2> HIDE DEF down, J, K
  <2>9. /\ \A m \in 1..c : at[m] \in J
        /\ \A i \in J : \E m \in 1..c : at[m] = i
        /\ \A l, m \in 1..c : l < m => at[l] < at[m]
    BY <1>3 DEF Enumerates
  <2>10. Enumerates(to, c, K)
    <3>1. to \in [1..c -> K]
      BY <2>6, <2>9
    <3>2. \A j \in K : \E m \in 1..c : to[m] = j
      BY <2>7, <2>9
    <3>3. \A l, m \in 1..c : l < m => to[l] < to[m]
      BY <2>8, <2>9
    <3> QED  BY <3>1, <3>2, <3>3 DEF Enumerates
  <2>11. Others(new) = [m \in 1..c |-> new[to[m]]]
    BY <1>5, <1>8, <2>10, KeptListed
  <2>12. \A m \in 1..c : new[to[m]] = list[at[m]]
    BY <2>6, <2>9
  <2> HIDE DEF to
  <2>14. Others(new) = Others(list)
    BY <1>4, <2>11, <2>12
  <2> QED  BY <2>13, <2>14
<1> QED  BY <1>6, <1>7

\* What GetCondition finds in such a list.
LEMMA Found ==
    ASSUME NEW list \in Seq(Condition), Unique(list), NEW t
    PROVE  /\ \A i \in DOMAIN list : list[i].type = t => GetCondition(list, t) = {list[i]}
           /\ \A c \in GetCondition(list, t) : \E i \in DOMAIN list : list[i] = c /\ c.type = t
<1>1. ASSUME NEW i \in DOMAIN list, list[i].type = t
      PROVE  GetCondition(list, t) = {list[i]}
  <2>1. OfType(list, t) = {i}
    BY <1>1 DEF OfType, Unique
  <2>2. i <= i
    OBVIOUS
  <2> QED  BY <2>1, <2>2 DEF GetCondition
<1>2. \A c \in GetCondition(list, t) : \E i \in DOMAIN list : list[i] = c /\ c.type = t
  BY DEF GetCondition, OfType
<1> QED  BY <1>1, <1>2

-----------------------------------------------------------------------------
\* Where a call is: it has the condition it sets, and its first time is zero
\* until SetCondition has read the clock again.
Progress ==
    /\ Len(batch) <= MaxBatch
    /\ pc = "building" => next = 1 /\ Len(batch) = 1
    /\ pc \in {"setting", "returned"} => next <= Len(batch) + 1

\* Transition times the clock was read for are past. One that SetCondition
\* brings along is no older than any of them in the list, and the call has one
\* condition. Nothing is known of a time a caller gave.
TimesPast ==
    /\ \A i \in DOMAIN conditions :
           conditions[i].origin = "now" => conditions[i].lastTransitionTime <= clock
    /\ \A i \in DOMAIN batch : batch[i].origin = "now" =>
           /\ batch[i].lastTransitionTime <= clock
           /\ batch[i].lastTransitionTime # 0 => Len(batch) = 1
           /\ batch[i].lastTransitionTime # 0 /\ pc = "setting" /\ next <= i =>
                  \A j \in DOMAIN conditions :
                      conditions[j].origin = "now" =>
                          conditions[j].lastTransitionTime <= batch[i].lastTransitionTime

\* What the conditions the loop has passed have come to.
AppliedSoFar ==
    pc \in {"setting", "returned"} => \A n \in 1..(next - 1) : Applied(n)

\* A condition the loop has stopped at is in the list.
StoppedAt ==
    pc = "returned" /\ next <= Len(batch) =>
        \E d \in GetCondition(conditions, batch[next].type) :
            d.status = batch[next].status /\ d.reason = batch[next].reason

IInv ==
    /\ TypeOK /\ OneConditionPerType
    /\ Progress /\ TimesPast /\ AppliedSoFar /\ StoppedAt

\* A list of nothing, at time one.
LEMMA Initially == Init => IInv
BY BoundsAssumption
   DEF Init, IInv, TypeOK, OneConditionPerType, Progress, TimesPast, AppliedSoFar,
       StoppedAt

-----------------------------------------------------------------------------
\* Time goes on.
LEMMA TickStep == ASSUME IInv, Tick PROVE IInv'
<1>1. /\ clock' = clock + 1 /\ clock' \in 1..MaxTime
      /\ UNCHANGED <<conditions, pc, batch, next, before>>
  BY BoundsAssumption DEF Tick, IInv, TypeOK
<1>2. /\ \A i \in DOMAIN conditions : conditions[i].lastTransitionTime \in Nat
      /\ \A i \in DOMAIN batch : batch[i].lastTransitionTime \in Nat
      /\ clock \in Nat
  <2>1. \A c \in Condition : c.lastTransitionTime \in Nat
    BY DEF Condition, Times
  <2>2. conditions \in Seq(Condition) /\ batch \in Seq(Condition) /\ clock \in Nat
    BY DEF IInv, TypeOK
  <2> QED  BY <2>1, <2>2
<1>3. TypeOK'
  BY <1>1 DEF IInv, TypeOK
<1>4. TimesPast'
  BY <1>1, <1>2 DEF IInv, TimesPast
<1> QED
  BY <1>1, <1>3, <1>4
     DEF IInv, OneConditionPerType, Progress, AppliedSoFar, Applied, StoppedAt

\* A call brings conditions whose times are a caller's or zero.
LEMMA BeginStep ==
    ASSUME IInv, NEW list \in Seq(Condition), NEW at \in {"building", "setting"},
           Begin(list, at), Len(list) <= MaxBatch,
           at = "building" => Len(list) = 1,
           \A i \in DOMAIN list : list[i].origin = "now" => list[i].lastTransitionTime = 0
    PROVE  IInv'
<1>1. /\ pc' = at /\ batch' = list /\ next' = 1 /\ before' = conditions
      /\ UNCHANGED <<conditions, clock>>
  BY DEF Begin
<1>2. Len(list) \in Nat /\ clock \in 1..MaxTime /\ 1 \in 1..(MaxBatch + 1)
  BY BoundsAssumption DEF IInv, TypeOK
<1>3. TypeOK'
  BY <1>1, <1>2 DEF IInv, TypeOK
<1>4. Progress'
  BY <1>1, <1>2 DEF Progress
<1>5. TimesPast'
  BY <1>1, <1>2 DEF IInv, TimesPast
<1>6. AppliedSoFar' /\ StoppedAt'
  BY <1>1 DEF AppliedSoFar, StoppedAt
<1> QED  BY <1>1, <1>3, <1>4, <1>5, <1>6 DEF IInv, OneConditionPerType

\* The three calls.
LEMMA CallStep ==
    ASSUME IInv,
           \/ CallSetConditions
           \/ \E t \in Types, s \in Statuses, r \in Reasons : CallSetCondition(t, s, r)
           \/ \E t \in Types, r \in Reasons : CallSetErrorCondition(t, r)
    PROVE  IInv'
<1>1. MaxTime \in Nat \ {0} /\ MaxBatch \in Nat \ {0} /\ clock \in 1..MaxTime
  BY BoundsAssumption DEF IInv, TypeOK
<1>2. \A p \in Provided :
          p \in Condition /\ (p.origin = "now" => p.lastTransitionTime = 0)
  <2>1. GivenTimes \subseteq Times
    BY BoundsAssumption DEF Times
  <2>2. \A t \in Types, s \in Statuses, r \in Reasons, time \in GivenTimes :
            /\ Written(t, s, r, time) \in Condition
            /\ Written(t, s, r, time).origin = "now"
                  => Written(t, s, r, time).lastTransitionTime = 0
    BY <2>1 DEF Written, Condition
  <2> QED  BY <2>2 DEF Provided
<1>3. CASE CallSetConditions
  <2>1. PICK n \in 1..MaxBatch : \E list \in [1..n -> Provided] : Begin(list, "setting")
    BY <1>3 DEF CallSetConditions
  <2>2. PICK list \in [1..n -> Provided] : Begin(list, "setting")
    BY <2>1
  <2>3. n \in Nat /\ n <= MaxBatch
    BY <1>1
  <2>4. list \in Seq(Condition) /\ Len(list) = n /\ DOMAIN list = 1..n
    BY <1>2, <2>3
  <2>5. \A i \in DOMAIN list : list[i].origin = "now" => list[i].lastTransitionTime = 0
    BY <1>2, <2>4
  <2> QED  BY <2>2, <2>3, <2>4, <2>5, BeginStep
<1>4. ASSUME NEW t \in Types, NEW s \in Statuses, NEW r \in Reasons,
             CallSetCondition(t, s, r)
      PROVE  IInv'
  <2> DEFINE c == Written(t, s, r, 0)
  <2>1. c \in Condition /\ c.lastTransitionTime = 0
    BY <1>1 DEF Written, Condition, Times
  <2>2. Begin(<<c>>, "building")
    BY <1>4 DEF CallSetCondition
  <2> HIDE DEF c
  <2>3. <<c>> \in Seq(Condition) /\ Len(<<c>>) = 1 /\ DOMAIN <<c>> = {1} /\ <<c>>[1] = c
    BY <2>1
  <2>4. Len(<<c>>) <= MaxBatch
    BY <1>1, <2>3
  <2> QED  BY <2>1, <2>2, <2>3, <2>4, BeginStep
<1> QED  BY <1>3, <1>4 DEF CallSetErrorCondition, Statuses

\* The second read of the clock is no older than any transition.
LEMMA BuildStep == ASSUME IInv, BuildTransitionTime PROVE IInv'
<1>1. /\ pc = "building" /\ pc' = "setting" /\ next = 1 /\ Len(batch) = 1
      /\ batch' = [batch EXCEPT ![1].lastTransitionTime = clock]
      /\ UNCHANGED <<conditions, clock, next, before>>
  BY DEF BuildTransitionTime, IInv, Progress
<1>2. clock \in Times /\ clock \in Nat /\ batch \in Seq(Condition)
  BY BoundsAssumption DEF IInv, TypeOK, Times
<1>3. batch[1] \in Condition /\ DOMAIN batch = {1}
  BY <1>1, <1>2
<1> DEFINE c == [batch[1] EXCEPT !.lastTransitionTime = clock]
<1>4. c \in Condition /\ c.lastTransitionTime = clock
  BY <1>2, <1>3 DEF Condition
<1>5. batch' = [batch EXCEPT ![1] = c]
  BY <1>1
<1> HIDE DEF c
<1>6. batch' \in Seq(Condition) /\ Len(batch') = 1 /\ DOMAIN batch' = {1} /\ batch'[1] = c
  BY <1>1, <1>2, <1>3, <1>4, <1>5
<1>7. TypeOK'
  BY <1>1, <1>6 DEF IInv, TypeOK
<1>8. Progress'
  <2>1. 1 <= MaxBatch
    BY BoundsAssumption
  <2>2. pc' = "setting" /\ next' = 1 /\ Len(batch') = 1
    BY <1>1, <1>6
  <2>3. pc' # "building" /\ next' <= Len(batch') + 1
    BY <2>2
  <2> QED  BY <2>1, <2>2, <2>3 DEF Progress
<1>9. TimesPast'
  BY <1>1, <1>2, <1>4, <1>6 DEF IInv, TimesPast
<1>10. AppliedSoFar' /\ StoppedAt'
  BY <1>1 DEF AppliedSoFar, StoppedAt
<1> QED  BY <1>1, <1>7, <1>8, <1>9, <1>10 DEF IInv, OneConditionPerType

\* The ends of a call leave the list alone.
LEMMA EndStep == ASSUME IInv, SetUnchanged \/ SetCompletes \/ Return PROVE IInv'
<1>1. CASE SetUnchanged \/ SetCompletes
  <2>1. /\ pc = "setting" /\ pc' = "returned"
        /\ UNCHANGED <<conditions, clock, batch, next, before>>
    BY <1>1 DEF SetUnchanged, SetCompletes
  <2>2. StoppedAt'
    <3>1. CASE SetUnchanged
      BY <3>1 DEF SetUnchanged, StoppedAt
    <3>2. CASE SetCompletes
      <4>1. next > Len(batch) /\ next \in Nat /\ Len(batch) \in Nat
        BY <3>2, BoundsAssumption DEF SetCompletes, IInv, TypeOK
      <4> QED  BY <2>1, <4>1 DEF StoppedAt
    <3> QED  BY <1>1, <3>1, <3>2
  <2> QED
    BY <2>1, <2>2
       DEF IInv, TypeOK, OneConditionPerType, Progress, TimesPast, AppliedSoFar, Applied
<1>2. CASE Return
  <2>1. /\ pc' = "idle" /\ batch' = <<>> /\ next' = 1 /\ before' = <<>>
        /\ UNCHANGED <<conditions, clock>>
    BY <1>2 DEF Return
  <2> QED
    BY <2>1, BoundsAssumption
       DEF IInv, TypeOK, OneConditionPerType, Progress, TimesPast, AppliedSoFar, StoppedAt
<1> QED  BY <1>1, <1>2

-----------------------------------------------------------------------------
\* What SetChanged does: a condition of the provided type, status and reason
\* takes the place of the old one of its type, and has its transition time if it
\* has its status, and otherwise a later one or one that involves a caller's.
LEMMA Change ==
    ASSUME IInv, NEW now \in clock..MaxTime, SetChanged(now)
    PROVE  /\ pc = "setting" /\ next \in 1..Len(batch) /\ next' = next + 1
           /\ clock' = now /\ UNCHANGED <<pc, batch, before>>
           /\ \E d \in Condition :
                /\ d.type = batch[next].type
                /\ d.status = batch[next].status /\ d.reason = batch[next].reason
                /\ conditions' = Append(RemoveCondition(conditions, d.type), d)
                /\ d.origin = "now" => d.lastTransitionTime <= now
                /\ \A j \in DOMAIN conditions :
                     conditions[j].type = d.type =>
                        IF conditions[j].status = d.status
                        THEN d.lastTransitionTime = conditions[j].lastTransitionTime
                        ELSE \/ d.lastTransitionTime >= conditions[j].lastTransitionTime
                             \/ "caller" \in {conditions[j].origin, d.origin}
<1> DEFINE c == Stamped(batch[next], now)
           current == GetCondition(conditions, c.type)
           d == KeepTransition(c, current)
<1>1. /\ pc = "setting" /\ next <= Len(batch) /\ next' = next + 1
      /\ clock' = now /\ UNCHANGED <<pc, batch, before>>
      /\ conditions' = Append(RemoveCondition(conditions, c.type), d)
  BY DEF SetChanged
<1>2. /\ clock \in 1..MaxTime /\ now \in 1..MaxTime /\ clock <= now
      /\ conditions \in Seq(Condition) /\ batch \in Seq(Condition)
      /\ next \in Nat /\ next \in 1..Len(batch)
  BY <1>1, BoundsAssumption DEF IInv, TypeOK
<1>3. batch[next] \in Condition
  BY <1>2
<1>4. /\ c \in Condition
      /\ c.type = batch[next].type /\ c.status = batch[next].status
      /\ c.reason = batch[next].reason /\ c.origin = batch[next].origin
      /\ c.lastTransitionTime = IF batch[next].lastTransitionTime = 0 THEN now
                                ELSE batch[next].lastTransitionTime
  <2>1. clock \in Times /\ now \in Times
    BY <1>2 DEF Times
  <2>2. c = [batch[next] EXCEPT
                !.lastTransitionTime = IF batch[next].lastTransitionTime = 0 THEN now
                                       ELSE batch[next].lastTransitionTime]
    BY <1>3 DEF Stamped, Condition
  <2> HIDE DEF c
  <2> QED  BY <1>3, <2>1, <2>2 DEF Condition
<1>5. ASSUME c.origin = "now"
      PROVE  /\ c.lastTransitionTime <= now
             /\ \A j \in DOMAIN conditions :
                    conditions[j].origin = "now" =>
                        conditions[j].lastTransitionTime <= c.lastTransitionTime
  <2>1. /\ batch[next].lastTransitionTime <= clock
        /\ batch[next].lastTransitionTime \in Nat
        /\ batch[next].lastTransitionTime # 0 =>
               \A j \in DOMAIN conditions :
                   conditions[j].origin = "now" =>
                       conditions[j].lastTransitionTime <= batch[next].lastTransitionTime
    <3>1. batch[next].lastTransitionTime \in Nat
      BY <1>3 DEF Condition, Times
    <3>2. next \in DOMAIN batch /\ next <= next
      BY <1>2
    <3>3. batch[next].origin = "now"
      BY <1>4, <1>5
    <3> QED  BY <1>1, <3>1, <3>2, <3>3 DEF IInv, TimesPast
  <2>2. \A j \in DOMAIN conditions :
            /\ conditions[j].origin = "now" => conditions[j].lastTransitionTime <= clock
            /\ conditions[j].lastTransitionTime \in Nat
    <3>1. \A b \in Condition : b.lastTransitionTime \in Nat
      BY DEF Condition, Times
    <3> QED  BY <1>2, <3>1 DEF IInv, TimesPast
  <2> HIDE DEF c
  <2>3. CASE batch[next].lastTransitionTime = 0
    BY <1>2, <1>4, <2>2, <2>3
  <2>4. CASE batch[next].lastTransitionTime # 0
    BY <1>2, <1>4, <2>1, <2>4
  <2> QED  BY <2>3, <2>4
<1> HIDE DEF c
<1>6. Unique(conditions)
  BY DEF IInv, OneConditionPerType, Unique
<1>7. CASE \E b \in current : b.status = c.status
  <2>1. PICK i \in DOMAIN conditions :
           conditions[i].type = c.type /\ conditions[i].status = c.status
    BY <1>2, <1>6, <1>7, Found
  <2>2. current = {conditions[i]}
    BY <1>2, <1>6, <2>1, Found
  <2>3. conditions[i] \in Condition /\ conditions[i].lastTransitionTime \in Times
    <3>1. conditions[i] \in Condition
      BY <1>2, <2>1
    <3> QED  BY <3>1 DEF Condition
  <2>4. d = [c EXCEPT !.lastTransitionTime = conditions[i].lastTransitionTime,
                      !.origin = conditions[i].origin]
    BY <2>1, <2>2 DEF KeepTransition
  <2>5. /\ d \in Condition
        /\ d.type = c.type /\ d.status = c.status /\ d.reason = c.reason
        /\ d.lastTransitionTime = conditions[i].lastTransitionTime
        /\ d.origin = conditions[i].origin
    BY <1>4, <2>3, <2>4 DEF Condition
  <2> HIDE DEF d
  <2>6. \A j \in DOMAIN conditions : conditions[j].type = c.type => j = i
    BY <1>6, <2>1 DEF Unique
  <2>7. d.origin = "now" => d.lastTransitionTime <= now
    <3>1. conditions[i].origin = "now" => conditions[i].lastTransitionTime <= clock
      BY <2>1 DEF IInv, TimesPast
    <3>2. conditions[i].lastTransitionTime \in Nat /\ clock \in Nat /\ now \in Nat
      BY <1>2, <2>3 DEF Times
    <3> QED  BY <1>2, <2>5, <3>1, <3>2
  <2> QED  BY <1>1, <1>2, <1>4, <2>1, <2>5, <2>6, <2>7
<1>8. CASE ~\E b \in current : b.status = c.status
  <2>1. d = c
    BY <1>4, <1>8 DEF KeepTransition, Condition
  <2>2. \A j \in DOMAIN conditions :
            conditions[j].type = c.type => conditions[j].status # c.status
    BY <1>2, <1>6, <1>8, Found
  <2>3. /\ d \in Condition /\ d.type = c.type /\ d.status = c.status
        /\ d.reason = c.reason /\ d.lastTransitionTime = c.lastTransitionTime
        /\ d.origin = c.origin /\ c.origin \in {"now", "caller"}
    BY <1>4, <2>1 DEF Condition
  <2>4. \A j \in DOMAIN conditions :
            \/ d.lastTransitionTime >= conditions[j].lastTransitionTime
            \/ "caller" \in {conditions[j].origin, d.origin}
    <3>1. SUFFICES ASSUME NEW j \in DOMAIN conditions,
                          conditions[j].origin = "now", d.origin = "now"
                   PROVE  d.lastTransitionTime >= conditions[j].lastTransitionTime
      <4>1. \A j \in DOMAIN conditions : conditions[j] \in Condition
        BY <1>2
      <4>2. \A b \in Condition : b.origin = "now" \/ b.origin = "caller"
        BY DEF Condition
      <4> QED  BY <2>3, <4>1, <4>2
    <3> QED  BY <1>5, <2>3, <3>1
  <2>5. d.origin = "now" => d.lastTransitionTime <= now
    BY <1>5, <2>3
  <2> HIDE DEF d
  <2> QED  BY <1>1, <1>2, <1>4, <2>2, <2>3, <2>4, <2>5
<1> QED  BY <1>7, <1>8

\* The loop goes on with the condition set, which no later step of the call
\* undoes but one for the same type.
LEMMA ChangedStep ==
    ASSUME IInv, NEW now \in clock..MaxTime, SetChanged(now)
    PROVE  IInv'
<1>1. /\ pc = "setting" /\ next \in 1..Len(batch) /\ next' = next + 1
      /\ clock' = now /\ UNCHANGED <<pc, batch, before>>
  BY Change
<1>2. PICK d \in Condition :
         /\ d.type = batch[next].type
         /\ d.status = batch[next].status /\ d.reason = batch[next].reason
         /\ conditions' = Append(RemoveCondition(conditions, d.type), d)
         /\ d.origin = "now" => d.lastTransitionTime <= now
  BY Change
<1>3. /\ conditions \in Seq(Condition) /\ Unique(conditions)
      /\ batch \in Seq(Condition) /\ Len(batch) \in Nat /\ Len(batch) <= MaxBatch
      /\ clock \in 1..MaxTime /\ now \in 1..MaxTime /\ clock <= now
      /\ next \in Nat /\ MaxBatch \in Nat
  BY BoundsAssumption DEF IInv, TypeOK, OneConditionPerType, Unique, Progress
<1>4. /\ conditions' \in Seq(Condition) /\ Unique(conditions')
      /\ \A i \in DOMAIN conditions' :
             \/ conditions'[i] = d
             \/ conditions'[i].type # d.type
                /\ \E j \in DOMAIN conditions : conditions'[i] = conditions[j]
      /\ \E i \in DOMAIN conditions' : conditions'[i] = d
      /\ \A j \in DOMAIN conditions :
             conditions[j].type # d.type =>
                 \E i \in DOMAIN conditions' : conditions'[i] = conditions[j]
  <2> DEFINE new == Append(RemoveCondition(conditions, d.type), d)
  <2>1. /\ new \in Seq(Condition) /\ Unique(new)
        /\ \A i \in DOMAIN new :
               \/ new[i] = d
               \/ new[i].type # d.type
                  /\ \E j \in DOMAIN conditions : new[i] = conditions[j]
        /\ \E i \in DOMAIN new : new[i] = d
        /\ \A j \in DOMAIN conditions :
               conditions[j].type # d.type =>
                   \E i \in DOMAIN new : new[i] = conditions[j]
    BY ONLY <1>2, <1>3, Replaced
  <2>2. conditions' = new
    BY <1>2
  <2> HIDE DEF new
  <2> QED  BY <2>1, <2>2
<1>5. TypeOK'
  BY <1>1, <1>3, <1>4 DEF IInv, TypeOK
<1>6. OneConditionPerType'
  BY <1>4 DEF OneConditionPerType, Unique
<1>7. Progress'
  BY <1>1, <1>3 DEF Progress
<1>8. TimesPast'
  <2>1. \A b \in Condition : b.lastTransitionTime \in Nat
    BY DEF Condition, Times
  <2>2. \A i \in DOMAIN conditions' :
            conditions'[i].origin = "now" => conditions'[i].lastTransitionTime <= now
    <3>1. \A j \in DOMAIN conditions : conditions[j] \in Condition
      BY <1>3
    <3>2. \A j \in DOMAIN conditions :
              conditions[j].origin = "now" => conditions[j].lastTransitionTime <= clock
      BY DEF IInv, TimesPast
    <3>3. \A j \in DOMAIN conditions :
              conditions[j].origin = "now" => conditions[j].lastTransitionTime <= now
      BY <1>3, <2>1, <3>1, <3>2
    <3> QED  BY <1>2, <1>4, <3>3
  <2>3. ASSUME NEW i \in DOMAIN batch, batch[i].origin = "now"
        PROVE  /\ batch[i].lastTransitionTime <= now
               /\ batch[i].lastTransitionTime # 0 => Len(batch) = 1
               /\ ~(next + 1 <= i /\ Len(batch) = 1)
    <3>1. batch[i] \in Condition /\ i \in 1..Len(batch)
      BY <1>3
    <3>2. batch[i].lastTransitionTime \in Nat
      BY <2>1, <3>1
    <3> QED  BY <1>1, <1>3, <2>3, <3>1, <3>2 DEF IInv, TimesPast
  <2> QED  BY <1>1, <2>2, <2>3 DEF TimesPast
<1>9. AppliedSoFar'
  <2> SUFFICES ASSUME NEW n \in 1..next,
                      \A m \in (n + 1)..next : batch[m].type # batch[n].type
               PROVE  \E b \in GetCondition(conditions', batch[n].type) :
                          b.status = batch[n].status /\ b.reason = batch[n].reason
    BY <1>1, <1>3 DEF AppliedSoFar, Applied
  <2>1. CASE n = next
    <3>1. GetCondition(conditions', d.type) = {d}
      BY <1>4, Found
    <3> QED  BY <1>2, <2>1, <3>1
  <2>2. CASE n # next
    <3>1. n \in 1..(next - 1) /\ next \in (n + 1)..next
      BY <1>3, <2>2
    <3>2. batch[n].type # d.type
      BY <1>2, <3>1
    <3>3. Applied(n)
      BY <1>1, <3>1 DEF IInv, AppliedSoFar
    <3>4. \A m \in (n + 1)..(next - 1) : batch[m].type # batch[n].type
      BY <1>3
    <3>5. PICK b \in GetCondition(conditions, batch[n].type) :
             b.status = batch[n].status /\ b.reason = batch[n].reason
      BY <3>3, <3>4 DEF Applied
    <3>6. PICK j \in DOMAIN conditions : conditions[j] = b /\ b.type = batch[n].type
      BY <1>3, <3>5, Found
    <3>7. PICK i \in DOMAIN conditions' : conditions'[i] = b
      BY <1>4, <3>2, <3>6
    <3>8. GetCondition(conditions', batch[n].type) = {b}
      BY <1>4, <3>6, <3>7, Found
    <3> QED  BY <3>5, <3>8
  <2> QED  BY <2>1, <2>2
<1>10. StoppedAt'
  BY <1>1 DEF StoppedAt
<1> QED  BY <1>5, <1>6, <1>7, <1>8, <1>9, <1>10 DEF IInv

\* Removing a condition outside a call leaves one per type as well.
LEMMA RemoveStep ==
    ASSUME IInv, NEW t \in Types, CallRemoveCondition(t)
    PROVE  IInv'
<1>1. /\ pc = "idle" /\ conditions' = RemoveCondition(conditions, t)
      /\ UNCHANGED <<clock, pc, batch, next, before>>
  BY DEF CallRemoveCondition
<1>2. conditions \in Seq(Condition) /\ Unique(conditions)
  BY DEF IInv, TypeOK, OneConditionPerType, Unique
<1>3. /\ conditions' \in Seq(Condition) /\ Unique(conditions')
      /\ \A i \in DOMAIN conditions' :
             \E j \in DOMAIN conditions : conditions'[i] = conditions[j]
  BY <1>1, <1>2, Removed
<1>4. TypeOK'
  BY <1>1, <1>3 DEF IInv, TypeOK
<1>5. TimesPast'
  BY <1>1, <1>3 DEF IInv, TimesPast
<1> QED
  BY <1>1, <1>3, <1>4, <1>5
     DEF IInv, OneConditionPerType, Unique, Progress, AppliedSoFar, StoppedAt

\* Every step preserves the invariant.
LEMMA Inductive == IInv /\ [Next]_vars => IInv'
<1> SUFFICES ASSUME IInv, [Next]_vars PROVE IInv'
  OBVIOUS
<1>1. CASE Tick \/ BuildTransitionTime \/ SetUnchanged \/ SetCompletes \/ Return
  BY <1>1, TickStep, BuildStep, EndStep
<1>2. CASE \/ CallSetConditions
           \/ \E t \in Types, s \in Statuses, r \in Reasons : CallSetCondition(t, s, r)
           \/ \E t \in Types, r \in Reasons : CallSetErrorCondition(t, r)
  BY <1>2, CallStep
<1>3. CASE \E now \in clock..MaxTime : SetChanged(now)
  BY <1>3, ChangedStep
<1>4. CASE \E t \in Types : CallRemoveCondition(t)
  BY <1>4, RemoveStep
<1>5. CASE UNCHANGED vars
  BY <1>5 DEF vars, IInv, TypeOK, OneConditionPerType, Progress, TimesPast,
              AppliedSoFar, Applied, StoppedAt
<1> QED  BY <1>1, <1>2, <1>3, <1>4, <1>5 DEF Next

-----------------------------------------------------------------------------
\* The invariant holds in every state, for any sequence of calls.
THEOREM Invariance == Spec => []IInv
<1> QED  BY Initially, Inductive, PTL DEF Spec

\* The list holds conditions, with times the clock has had.
THEOREM TypeCorrectness == Spec => []TypeOK
<1>1. IInv => TypeOK
  BY DEF IInv
<1> QED  BY <1>1, Invariance, PTL

\* Whatever is set and removed, also twice within a call, there is one
\* condition per type (kamelet_types.go: listType=map, listMapKey=type).
THEOREM OnePerType == Spec => []OneConditionPerType
<1>1. IInv => OneConditionPerType
  BY DEF IInv
<1> QED  BY <1>1, Invariance, PTL

\* A call that returns has applied what was in front of the condition that
\* stopped it, and that one is in the list (kamelet_types_support.go:117-119).
THEOREM PrefixIsApplied == Spec => []PrefixApplied
<1>1. IInv => PrefixApplied
  BY DEF IInv, PrefixApplied, AppliedSoFar, StoppedAt
<1> QED  BY <1>1, Invariance, PTL

\* Since the call began nothing has happened to the conditions of other types.
OthersSoFar == pc # "idle" => Others(conditions) = Others(before)

LEMMA OthersStep == IInv /\ OthersSoFar /\ [Next]_vars => OthersSoFar'
<1> SUFFICES ASSUME IInv, OthersSoFar, [Next]_vars PROVE OthersSoFar'
  OBVIOUS
<1>1. CASE UNCHANGED <<conditions, batch, before>> /\ (pc = "idle" => pc' = "idle")
  <2>1. Others(conditions)' = Others(conditions) /\ Others(before)' = Others(before)
    BY <1>1 DEF Others, TypesOf
  <2> QED  BY <1>1, <2>1 DEF OthersSoFar
<1>2. CASE pc' = "idle"
  BY <1>2 DEF OthersSoFar
<1>3. ASSUME NEW list, NEW at, Begin(list, at)
      PROVE  OthersSoFar'
  BY <1>3 DEF Begin, OthersSoFar, Others
<1>4. CASE BuildTransitionTime
  <2>1. /\ pc = "building" /\ UNCHANGED <<conditions, before>>
        /\ batch' = [batch EXCEPT ![1].lastTransitionTime = clock]
        /\ batch \in Seq(Condition)
    BY <1>4 DEF BuildTransitionTime, IInv, TypeOK
  <2>2. DOMAIN batch' = DOMAIN batch /\ \A i \in DOMAIN batch : batch'[i].type = batch[i].type
    BY <2>1 DEF Condition
  <2>3. TypesOf(batch') = TypesOf(batch)
    BY <2>2 DEF TypesOf
  <2> QED  BY <2>1, <2>3 DEF OthersSoFar, Others
<1>5. ASSUME NEW now \in clock..MaxTime, SetChanged(now)
      PROVE  OthersSoFar'
  <2>1. pc = "setting" /\ next \in 1..Len(batch) /\ UNCHANGED <<batch, before>>
    BY <1>5, Change
  <2>2. PICK d \in Condition :
           /\ d.type = batch[next].type
           /\ conditions' = Append(RemoveCondition(conditions, d.type), d)
    BY <1>5, Change
  <2>3. conditions \in Seq(Condition) /\ Unique(conditions) /\ batch \in Seq(Condition)
    BY DEF IInv, TypeOK, OneConditionPerType, Unique
  <2>4. d.type \in TypesOf(batch)
    BY <2>1, <2>2, <2>3 DEF TypesOf
  <2>5. Others(Append(RemoveCondition(conditions, d.type), d)) = Others(conditions)
    BY <2>2, <2>3, <2>4, OthersReplaced
  <2>6. Others(conditions') = Others(conditions)
    BY <2>2, <2>5
  <2> QED  BY <2>1, <2>6 DEF OthersSoFar, Others
<1> QED
  BY <1>1, <1>2, <1>3, <1>4, <1>5
     DEF Next, vars, Tick, CallSetConditions, CallSetCondition, CallSetErrorCondition,
         SetUnchanged, SetCompletes, Return, CallRemoveCondition

\* A call leaves the conditions of all types it was not given alone, and in
\* their order, for lists and batches of any length
\* (kamelet_types_support.go:125-126 moves the one it sets to the end).
THEOREM OthersLeftAlone == Spec => []OthersUntouched
<1>1. Init => OthersSoFar
  BY DEF Init, OthersSoFar
<1>2. OthersSoFar => OthersUntouched
  BY DEF OthersSoFar, OthersUntouched
<1> QED  BY <1>1, <1>2, Invariance, OthersStep, PTL DEF Spec

\* While a type stays in the list its transition time moves only with its
\* status, and back only where the old or the new one is a time that a caller
\* of SetConditions gave (kamelet_types_support.go:108-123).
THEOREM TransitionTimes == Spec => TransitionTimeFollowsStatus
<1> DEFINE Follows ==
        \A i \in DOMAIN conditions, j \in DOMAIN conditions' :
            LET c == conditions[i]
                d == conditions'[j]
            IN  c.type = d.type =>
                  IF c.status = d.status
                  THEN d.lastTransitionTime = c.lastTransitionTime
                  ELSE \/ d.lastTransitionTime >= c.lastTransitionTime
                       \/ "caller" \in {c.origin, d.origin}
<1>1. IInv /\ [Next]_vars => [Follows]_conditions
  <2> SUFFICES ASSUME IInv, Next, conditions' # conditions PROVE Follows
    BY DEF vars
  <2>1. conditions \in Seq(Condition) /\ Unique(conditions)
    BY DEF IInv, TypeOK, OneConditionPerType, Unique
  <2>2. CASE \E now \in clock..MaxTime : SetChanged(now)
    <3>1. PICK now \in clock..MaxTime : SetChanged(now)
      BY <2>2
    <3>2. PICK d \in Condition :
             /\ conditions' = Append(RemoveCondition(conditions, d.type), d)
             /\ \A j \in DOMAIN conditions :
                  conditions[j].type = d.type =>
                     IF conditions[j].status = d.status
                     THEN d.lastTransitionTime = conditions[j].lastTransitionTime
                     ELSE \/ d.lastTransitionTime >= conditions[j].lastTransitionTime
                          \/ "caller" \in {conditions[j].origin, d.origin}
      BY <3>1, Change
    <3>3. \A i \in DOMAIN conditions' :
             \/ conditions'[i] = d
             \/ \E j \in DOMAIN conditions : conditions'[i] = conditions[j]
      <4> DEFINE new == Append(RemoveCondition(conditions, d.type), d)
      <4>1. \A i \in DOMAIN new :
               \/ new[i] = d
               \/ new[i].type # d.type /\ \E j \in DOMAIN conditions : new[i] = conditions[j]
        BY ONLY <2>1, <3>2, Replaced
      <4>2. conditions' = new
        BY <3>2
      <4> HIDE DEF new
      <4> QED  BY <4>1, <4>2
    <3> QED  BY <2>1, <3>2, <3>3 DEF Unique
  <2>3. CASE \E t \in Types : CallRemoveCondition(t)
    <3>1. \A i \in DOMAIN conditions' :
             \E j \in DOMAIN conditions : conditions'[i] = conditions[j]
      BY <2>1, <2>3, Removed DEF CallRemoveCondition
    <3> QED  BY <2>1, <3>1 DEF Unique
  <2>4. \/ \E now \in clock..MaxTime : SetChanged(now)
        \/ \E t \in Types : CallRemoveCondition(t)
    BY DEF Next, Tick, CallSetConditions, CallSetCondition, CallSetErrorCondition,
           Begin, BuildTransitionTime, SetUnchanged, SetCompletes, Return
  <2> QED  BY <2>2, <2>3, <2>4
<1> QED  BY <1>1, Invariance, PTL DEF Spec, TransitionTimeFollowsStatus
=============================================================================
