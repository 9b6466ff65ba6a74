------------------------ MODULE ObservationListProofs ------------------------
(***************************************************************************)
(* What the operations on the bounded list do, for every list and limit:   *)
(* sort_by permutes and orders, remove takes out one entry, a merge keeps  *)
(* the identity.                                                           *)
(***************************************************************************)
EXTENDS ObservationList, FiniteSetTheorems, FunctionTheorems, SequenceTheorems, TLAPS

Lists == Seq(CompatibilityObservation)

\* The entries that sort_by puts no later than entry i.
NotLater(list, i) ==
    {j \in DOMAIN list : \/ list[j].id < list[i].id
                         \/ list[j].id = list[i].id /\ j <= i}
-----------------------------------------------------------------------------
(* The list (UpdateState::record_compatibility_observation).               *)

\* An element of a list of observations is one, whose identity is a number.
LEMMA ListElement ==
    ASSUME NEW list \in Lists
    PROVE  /\ Len(list) \in Nat /\ DOMAIN list = 1 .. Len(list)
           /\ \A i \in DOMAIN list :
                list[i] \in CompatibilityObservation /\ list[i].id \in Nat
<1>1. Len(list) \in Nat /\ DOMAIN list = 1 .. Len(list)
  BY DEF Lists
<1>2. \A i \in DOMAIN list : list[i] \in CompatibilityObservation
  BY <1>1 DEF Lists
<1>3. \A o \in CompatibilityObservation : o.id \in Nat
  BY DEF CompatibilityObservation
<1> QED BY <1>1, <1>2, <1>3

\* The comparison of two entries, first by identity and then by place.
LEMMA Trichotomy ==
    ASSUME NEW a \in Nat, NEW b \in Nat, NEW i \in Nat, NEW j \in Nat, i # j
    PROVE  \/ a < b \/ (a = b /\ i < j)
           \/ b < a \/ (b = a /\ j < i)
OBVIOUS

LEMMA Interval ==
    ASSUME NEW n \in Nat
    PROVE  IsFiniteSet(1 .. n) /\ Cardinality(1 .. n) = n
<1>1. /\ IsFiniteSet(1 .. n)
      /\ Cardinality(1 .. n) = IF 1 > n THEN 0 ELSE n - 1 + 1
  BY FS_Interval
<1> QED BY <1>1

\* Ranks are places of the list, and the entry whose rank is smaller is the
\* one that is put first.
LEMMA RankType ==
    ASSUME NEW list \in Lists, NEW i \in DOMAIN list
    PROVE  /\ IsFiniteSet(NotLater(list, i)) /\ Rank(list, i) = Cardinality(NotLater(list, i))
           /\ Rank(list, i) \in 1 .. Len(list)
<1>1. Rank(list, i) = Cardinality(NotLater(list, i))
  BY DEF Rank, NotLater
<1>2. /\ IsFiniteSet(1 .. Len(list)) /\ Cardinality(1 .. Len(list)) = Len(list)
      /\ NotLater(list, i) \in SUBSET (1 .. Len(list))
  <2>1. Len(list) \in Nat /\ DOMAIN list = 1 .. Len(list)
    BY ListElement
  <2>2. NotLater(list, i) \in SUBSET (1 .. Len(list))
    BY <2>1 DEF NotLater
  <2> QED BY <2>1, <2>2, Interval
<1>3. IsFiniteSet(NotLater(list, i)) /\ Cardinality(NotLater(list, i)) <= Len(list)
  BY <1>2, FS_Subset
<1>4. Cardinality(NotLater(list, i)) \in Nat /\ i \in NotLater(list, i)
  <2>1. i \in Nat /\ list[i].id \in Nat
    BY ListElement
  <2> QED BY <1>3, <2>1, FS_CardinalityType DEF NotLater
<1>5. Cardinality(NotLater(list, i)) # 0
  BY <1>3, <1>4, FS_EmptySet
<1> QED BY <1>1, <1>3, <1>4, <1>5, ListElement

LEMMA RankOrders ==
    ASSUME NEW list \in Lists, NEW i \in DOMAIN list, NEW j \in DOMAIN list, i # j,
           \/ list[i].id < list[j].id
           \/ list[i].id = list[j].id /\ i < j
    PROVE  Rank(list, i) < Rank(list, j)
<1>1. i \in Nat /\ j \in Nat /\ \A k \in DOMAIN list : k \in Nat /\ list[k].id \in Nat
  BY ListElement
<1>2. NotLater(list, i) \in SUBSET NotLater(list, j)
  BY <1>1 DEF NotLater
<1>3. j \in NotLater(list, j) /\ j \notin NotLater(list, i)
  BY <1>1 DEF NotLater
<1>4. /\ Cardinality(NotLater(list, i)) <= Cardinality(NotLater(list, j))
      /\ Cardinality(NotLater(list, i)) # Cardinality(NotLater(list, j))
  <2>1. NotLater(list, i) # NotLater(list, j)
    BY <1>3
  <2> QED BY <1>2, <2>1, RankType, FS_Subset
<1> QED BY <1>4, RankType, ListElement

\* Every place is some entry's: sorting loses nothing and doubles nothing.
LEMMA RanksAreAll ==
    ASSUME NEW list \in Lists, NEW r \in DOMAIN list
    PROVE  \E i \in DOMAIN list : Rank(list, i) = r
<1> DEFINE D == DOMAIN list
           f == [i \in D |-> Rank(list, i)]
<1>1. Len(list) \in Nat /\ D = 1 .. Len(list)
  BY ListElement
<1>2. IsFiniteSet(D)
  BY <1>1, FS_Interval
<1>3. f \in [D -> D]
  BY <1>1, RankType
<1>4. \A i, j \in D : i # j => f[i] # f[j]
  <2> SUFFICES ASSUME NEW i \in D, NEW j \in D, i # j PROVE f[i] # f[j]
    OBVIOUS
  <2>1. i \in Nat /\ j \in Nat /\ list[i].id \in Nat /\ list[j].id \in Nat
    BY ListElement
  <2>2. \/ list[i].id < list[j].id \/ (list[i].id = list[j].id /\ i < j)
        \/ list[j].id < list[i].id \/ (list[j].id = list[i].id /\ j < i)
    BY <2>1, Trichotomy
  <2>3. Rank(list, i) < Rank(list, j) \/ Rank(list, j) < Rank(list, i)
    BY <2>2, RankOrders
  <2>4. Rank(list, i) \in Nat /\ Rank(list, j) \in Nat
    BY <1>1, RankType
  <2> QED BY <2>3, <2>4
<1>5. f \in Injection(D, D)
  BY <1>3, <1>4 DEF Injection, IsInjective
<1>6. f \in Surjection(D, D)
  <2> HIDE DEF D, f
  <2> QED BY <1>2, <1>5, FS_Injection
<1> QED BY <1>6 DEF Surjection

\* sort_by returns a list of the same length with the same entries.
LEMMA SortedPermutes ==
    ASSUME NEW list \in Lists
    PROVE  /\ Sorted(list) \in Lists /\ Len(Sorted(list)) = Len(list)
           /\ \A r \in DOMAIN Sorted(list) : \E i \in DOMAIN list : Sorted(list)[r] = list[i]
           /\ \A i \in DOMAIN list : \E r \in DOMAIN Sorted(list) : Sorted(list)[r] = list[i]
<1> DEFINE at(r) == CHOOSE i \in DOMAIN list : Rank(list, i) = r
<1>1. \A r \in DOMAIN list : at(r) \in DOMAIN list /\ Rank(list, at(r)) = r
  BY RanksAreAll
<1>2. Sorted(list) = [r \in DOMAIN list |-> list[at(r)]]
  BY DEF Sorted
<1> HIDE DEF at
<1>3. Len(list) \in Nat /\ DOMAIN list = 1 .. Len(list)
  BY ListElement
<1>4. Sorted(list) \in [1 .. Len(list) -> CompatibilityObservation]
  BY <1>1, <1>2, <1>3, ListElement
<1>5. Sorted(list) \in Lists /\ Len(Sorted(list)) = Len(list) /\ DOMAIN Sorted(list) = DOMAIN list
  BY <1>3, <1>4 DEF Lists
<1>6. \A i \in DOMAIN list : \E r \in DOMAIN list : Sorted(list)[r] = list[i]
  <2> SUFFICES ASSUME NEW i \in DOMAIN list
               PROVE  \E r \in DOMAIN list : Sorted(list)[r] = list[i]
    OBVIOUS
  <2>1. Rank(list, i) \in DOMAIN list
    BY RankType, ListElement
  <2>2. at(Rank(list, i)) = i
    <3>1. at(Rank(list, i)) \in DOMAIN list /\ Rank(list, at(Rank(list, i))) = Rank(list, i)
      BY <1>1, <2>1
    <3> DEFINE k == at(Rank(list, i))
    <3>2. i \in Nat /\ k \in Nat /\ list[i].id \in Nat /\ list[k].id \in Nat
      BY <3>1, ListElement
    <3>3. CASE k = i
      BY <3>3
    <3>4. CASE k # i
      <4> HIDE DEF k
      <4>1. \/ list[i].id < list[k].id \/ (list[i].id = list[k].id /\ i < k)
            \/ list[k].id < list[i].id \/ (list[k].id = list[i].id /\ k < i)
        BY <3>2, <3>4, Trichotomy
      <4>2. Rank(list, i) < Rank(list, k) \/ Rank(list, k) < Rank(list, i)
        BY <3>1, <3>4, <4>1, RankOrders DEF k
      <4>3. Rank(list, i) \in Nat /\ Rank(list, k) = Rank(list, i)
        BY <2>1, <3>1, ListElement DEF k
      <4> QED BY <4>2, <4>3
    <3> QED BY <3>3, <3>4
  <2> QED BY <1>2, <2>1, <2>2
<1> QED BY <1>1, <1>2, <1>5, <1>6

\* A list that is not empty has an entry no other comes before.
LEMMA OldestExists ==
    ASSUME NEW list \in Lists, Len(list) # 0
    PROVE  \E i \in DOMAIN list : \A j \in DOMAIN list : list[i].id <= list[j].id
<1>1. 1 \in DOMAIN list
  BY ListElement
<1>2. PICK i \in DOMAIN list : Rank(list, i) = 1
  BY <1>1, RanksAreAll
<1>3. ASSUME NEW j \in DOMAIN list PROVE list[i].id <= list[j].id
  <2>1. list[i].id \in Nat /\ list[j].id \in Nat
    BY ListElement
  <2>2. CASE list[j].id < list[i].id
    <3>1. Rank(list, j) < Rank(list, i)
      BY <2>1, <2>2, RankOrders
    <3>2. Rank(list, j) \in Nat /\ Rank(list, j) >= 1
      BY RankType, ListElement
    <3> QED BY <1>2, <3>1, <3>2
  <2> QED BY <2>1, <2>2
<1> QED BY <1>3

\* remove(index): the other entries stay.
LEMMA WithoutOne ==
    ASSUME NEW list \in Lists, NEW i \in DOMAIN list
    PROVE  /\ Without(list, i) \in Lists /\ Len(Without(list, i)) = Len(list) - 1
           /\ \A m \in DOMAIN Without(list, i) :
                \E k \in DOMAIN list \ {i} : Without(list, i)[m] = list[k]
           /\ \A k \in DOMAIN list \ {i} :
                \E m \in DOMAIN Without(list, i) : Without(list, i)[m] = list[k]
           /\ \A m \in DOMAIN Without(list, i) :
                Without(list, i)[m] = IF m < i THEN list[m] ELSE list[m + 1]
<1> DEFINE n == Len(list)
           a == SubSeq(list, 1, i - 1)
           b == SubSeq(list, i + 1, n)
           w == Without(list, i)
<1>1. n \in Nat /\ DOMAIN list = 1 .. n /\ i \in 1 .. n
  BY ListElement
<1>2. /\ a \in Lists /\ Len(a) = i - 1
      /\ \A m \in 1 .. (i - 1) : a[m] = list[m]
  BY <1>1 DEF Lists
<1>3. /\ b \in Lists /\ Len(b) = n - i
      /\ \A m \in 1 .. (n - i) : b[m] = list[i + m]
  BY <1>1 DEF Lists
<1>4. w = a \o b
  BY DEF Without
<1> HIDE DEF a, b, w
<1>5. /\ w \in Lists /\ Len(w) = n - 1
      /\ \A m \in 1 .. (n - 1) : w[m] = IF m <= i - 1 THEN a[m] ELSE b[m - (i - 1)]
  <2>1. /\ a \o b \in Lists /\ Len(a \o b) = Len(a) + Len(b)
        /\ \A m \in 1 .. (Len(a) + Len(b)) :
             (a \o b)[m] = IF m <= Len(a) THEN a[m] ELSE b[m - Len(a)]
    BY <1>2, <1>3, ConcatProperties DEF Lists
  <2>2. Len(a) + Len(b) = n - 1
    BY <1>1, <1>2, <1>3
  <2> QED BY <1>2, <1>4, <2>1, <2>2
<1>6. /\ DOMAIN w = 1 .. (n - 1)
      /\ \A m \in 1 .. (n - 1) : w[m] = IF m < i THEN list[m] ELSE list[m + 1]
  <2>1. DOMAIN w = 1 .. (n - 1)
    BY <1>5, ListElement
  <2>2. ASSUME NEW m \in 1 .. (n - 1), m < i PROVE w[m] = list[m]
    BY <1>1, <1>2, <1>5, <2>2
  <2>3. ASSUME NEW m \in 1 .. (n - 1), ~(m < i) PROVE w[m] = list[m + 1]
    <3>1. m - (i - 1) \in 1 .. (n - i) /\ i + (m - (i - 1)) = m + 1 /\ ~(m <= i - 1)
      BY <1>1, <2>3
    <3> QED BY <1>3, <1>5, <3>1
  <2> QED BY <2>1, <2>2, <2>3
<1>7. \A m \in DOMAIN w : \E k \in DOMAIN list \ {i} : w[m] = list[k]
  <2> SUFFICES ASSUME NEW m \in 1 .. (n - 1)
               PROVE  \E k \in (1 .. n) \ {i} : w[m] = list[k]
    BY <1>1, <1>6
  <2>1. CASE m < i
    BY <1>1, <1>6, <2>1
  <2>2. CASE ~(m < i)
    <3>1. m + 1 \in (1 .. n) \ {i}
      BY <1>1, <2>2
    <3> QED BY <1>6, <2>2, <3>1
  <2> QED BY <2>1, <2>2
<1>8. \A k \in DOMAIN list \ {i} : \E m \in DOMAIN w : w[m] = list[k]
  <2> SUFFICES ASSUME NEW k \in (1 .. n) \ {i}
               PROVE  \E m \in 1 .. (n - 1) : w[m] = list[k]
    BY <1>1, <1>6
  <2>1. CASE k < i
    BY <1>1, <1>6, <2>1
  <2>2. CASE ~(k < i)
    <3>1. k - 1 \in 1 .. (n - 1) /\ ~(k - 1 < i) /\ k - 1 + 1 = k
      BY <1>1, <2>2
    <3> QED BY <1>6, <3>1
  <2> QED BY <2>1, <2>2
<1> QED BY <1>5, <1>6, <1>7, <1>8 DEF w

\* push and sort_by: the entries are the old ones and the new one.
LEMMA PushSorted ==
    ASSUME NEW list \in Lists, NEW new \in CompatibilityObservation
    PROVE  LET s == Sorted(Append(list, new))
           IN  /\ s \in Lists /\ Len(s) = Len(list) + 1
               /\ \A r \in DOMAIN s : s[r] = new \/ \E i \in DOMAIN list : s[r] = list[i]
               /\ \E r \in DOMAIN s : s[r] = new
               /\ \A i \in DOMAIN list : \E r \in DOMAIN s : s[r] = list[i]
<1> DEFINE a == Append(list, new)
           s == Sorted(a)
<1>1. /\ Len(list) \in Nat /\ DOMAIN list = 1 .. Len(list)
      /\ a \in Lists /\ Len(a) = Len(list) + 1 /\ DOMAIN a = 1 .. (Len(list) + 1)
      /\ a[Len(list) + 1] = new /\ \A i \in 1 .. Len(list) : a[i] = list[i]
  BY DEF Lists
<1> HIDE DEF a
<1>2. /\ s \in Lists /\ Len(s) = Len(a)
      /\ \A r \in DOMAIN s : \E i \in DOMAIN a : s[r] = a[i]
      /\ \A i \in DOMAIN a : \E r \in DOMAIN s : s[r] = a[i]
  BY <1>1, SortedPermutes
<1> HIDE DEF s
<1>3. \A r \in DOMAIN s : s[r] = new \/ \E i \in DOMAIN list : s[r] = list[i]
  <2> SUFFICES ASSUME NEW r \in DOMAIN s
               PROVE  s[r] = new \/ \E i \in DOMAIN list : s[r] = list[i]
    OBVIOUS
  <2>1. PICK i \in DOMAIN a : s[r] = a[i]
    BY <1>2
  <2>2. i = Len(list) + 1 \/ i \in DOMAIN list
    BY <1>1
  <2> QED BY <1>1, <2>1, <2>2
<1>4. \E r \in DOMAIN s : s[r] = new
  <2>1. Len(list) + 1 \in DOMAIN a
    BY <1>1
  <2> QED BY <1>1, <1>2, <2>1
<1>5. \A i \in DOMAIN list : \E r \in DOMAIN s : s[r] = list[i]
  <2>1. \A i \in DOMAIN list : i \in DOMAIN a /\ a[i] = list[i]
    BY <1>1
  <2> QED BY <1>2, <2>1
<1> QED BY <1>1, <1>2, <1>3, <1>4, <1>5 DEF s, a

IdsOf(list) == {list[i].id : i \in DOMAIN list}
DistinctIds(list) == \A i, j \in DOMAIN list : i # j => list[i].id # list[j].id
Increasing(list) == \A i, j \in DOMAIN list : i < j => list[i].id < list[j].id

\* sort_by orders: entries with different identities come out increasing.
LEMMA SortedIncreases ==
    ASSUME NEW list \in Lists, DistinctIds(list)
    PROVE  Increasing(Sorted(list))
<1> DEFINE at(r) == CHOOSE i \in DOMAIN list : Rank(list, i) = r
<1>1. \A r \in DOMAIN list : at(r) \in DOMAIN list /\ Rank(list, at(r)) = r
  BY RanksAreAll
<1>2. Sorted(list) = [r \in DOMAIN list |-> list[at(r)]]
  BY DEF Sorted
<1> HIDE DEF at
<1> SUFFICES ASSUME NEW r \in DOMAIN list, NEW s \in DOMAIN list, r < s
             PROVE  list[at(r)].id < list[at(s)].id
  BY <1>2 DEF Increasing
<1> DEFINE i == at(r)
           j == at(s)
<1>3. /\ i \in DOMAIN list /\ j \in DOMAIN list /\ Rank(list, i) = r /\ Rank(list, j) = s
      /\ r \in Nat /\ s \in Nat /\ i # j
  <2>1. r \in Nat /\ s \in Nat
    BY ListElement
  <2> QED BY <1>1, <2>1
<1> HIDE DEF i, j
<1>4. list[i].id \in Nat /\ list[j].id \in Nat /\ list[i].id # list[j].id
  BY <1>3, ListElement DEF DistinctIds
<1>5. ~(list[j].id < list[i].id)
  <2> SUFFICES ASSUME list[j].id < list[i].id PROVE FALSE
    OBVIOUS
  <2>1. Rank(list, j) < Rank(list, i)
    BY <1>3, RankOrders
  <2> QED BY <1>3, <2>1
<1>6. list[i].id < list[j].id
  BY <1>4, <1>5
<1> QED BY <1>6 DEF i, j

\* An increasing list has as many identities as entries.
LEMMA IncreasingIds ==
    ASSUME NEW list \in Lists, Increasing(list)
    PROVE  /\ DistinctIds(list) /\ IsFiniteSet(IdsOf(list)) /\ Cardinality(IdsOf(list)) = Len(list)
           /\ IdsOf(list) \in SUBSET Nat
<1>1. Len(list) \in Nat /\ DOMAIN list = 1 .. Len(list) /\ \A i \in DOMAIN list : list[i].id \in Nat
  BY ListElement
<1>2. DistinctIds(list)
  <2> SUFFICES ASSUME NEW i \in DOMAIN list, NEW j \in DOMAIN list, i # j
               PROVE  list[i].id # list[j].id
    BY DEF DistinctIds
  <2>1. i < j \/ j < i
    BY <1>1
  <2>2. list[i].id < list[j].id \/ list[j].id < list[i].id
    BY <2>1 DEF Increasing
  <2>3. list[i].id \in Nat /\ list[j].id \in Nat
    BY <1>1
  <2> QED BY <2>2, <2>3
<1> DEFINE f == [i \in DOMAIN list |-> list[i].id]
<1>3. f \in Bijection(DOMAIN list, IdsOf(list))
  BY <1>2 DEF DistinctIds, IdsOf, Bijection, Injection, Surjection, IsInjective
<1>4. IsFiniteSet(DOMAIN list) /\ Cardinality(DOMAIN list) = Len(list)
  BY <1>1, Interval
<1>5. IsFiniteSet(IdsOf(list)) /\ Cardinality(IdsOf(list)) = Cardinality(DOMAIN list)
  <2> HIDE DEF f
  <2> QED BY <1>3, <1>4, FS_Bijection DEF ExistsBijection
<1> QED BY <1>1, <1>2, <1>4, <1>5 DEF IdsOf

\* push and sort_by of an identity that is not there.
LEMMA PushOrdered ==
    ASSUME NEW list \in Lists, DistinctIds(list), NEW new \in CompatibilityObservation,
           new.id \notin IdsOf(list), NEW s, s = Sorted(Append(list, new))
    PROVE  /\ s \in Lists /\ Len(s) = Len(list) + 1 /\ Increasing(s)
           /\ IdsOf(s) = IdsOf(list) \cup {new.id}
           /\ \A r \in DOMAIN s : s[r] = new \/ \E i \in DOMAIN list : s[r] = list[i]
<1>1. /\ s \in Lists /\ Len(s) = Len(list) + 1
      /\ \A r \in DOMAIN s : s[r] = new \/ \E i \in DOMAIN list : s[r] = list[i]
      /\ \E r \in DOMAIN s : s[r] = new
      /\ \A i \in DOMAIN list : \E r \in DOMAIN s : s[r] = list[i]
  BY PushSorted
<1> DEFINE a == Append(list, new)
<1>2. /\ Len(list) \in Nat /\ DOMAIN list = 1 .. Len(list)
      /\ a \in Lists /\ DOMAIN a = 1 .. (Len(list) + 1)
      /\ a[Len(list) + 1] = new /\ \A i \in 1 .. Len(list) : a[i] = list[i]
  BY DEF Lists
<1> HIDE DEF a
<1>3. DistinctIds(a)
  <2> SUFFICES ASSUME NEW i \in DOMAIN a, NEW j \in DOMAIN a, i # j
               PROVE  a[i].id # a[j].id
    BY DEF DistinctIds
  <2>1. \A k \in DOMAIN list : list[k].id # new.id
    BY DEF IdsOf
  <2>2. (i = Len(list) + 1 \/ i \in DOMAIN list) /\ (j = Len(list) + 1 \/ j \in DOMAIN list)
    BY <1>2
  <2> QED BY <1>2, <2>1, <2>2 DEF DistinctIds
<1>4. Increasing(s)
  BY <1>2, <1>3, SortedIncreases DEF a
<1>5. IdsOf(s) = IdsOf(list) \cup {new.id}
  BY <1>1 DEF IdsOf
<1> QED BY <1>1, <1>4, <1>5

\* At the limit: the smallest identity, and only that one, gives way to a
\* greater one.
LEMMA Inserted ==
    ASSUME NEW list \in Lists, Increasing(list), Len(list) <= MaxObservations,
           NEW new \in CompatibilityObservation, new.id \notin IdsOf(list),
           NEW s, s = Insert(list, new)
    PROVE  /\ s \in Lists /\ Increasing(s)
           /\ \/ /\ Len(list) < MaxObservations /\ Len(s) = Len(list) + 1
                 /\ IdsOf(s) = IdsOf(list) \cup {new.id}
                 /\ \A r \in DOMAIN s : s[r] = new \/ \E i \in DOMAIN list : s[r] = list[i]
              \/ /\ Len(list) = MaxObservations /\ s = list
                 /\ \A k \in IdsOf(list) : new.id < k
              \/ /\ Len(list) = MaxObservations /\ Len(s) = Len(list)
                 /\ \E old \in IdsOf(list) :
                      /\ old < new.id /\ \A k \in IdsOf(list) : old <= k
                      /\ IdsOf(s) = (IdsOf(list) \ {old}) \cup {new.id}
                 /\ \A r \in DOMAIN s : s[r] = new \/ \E i \in DOMAIN list : s[r] = list[i]
<1>1. /\ Len(list) \in Nat /\ DOMAIN list = 1 .. Len(list) /\ new.id \in Nat
      /\ \A i \in DOMAIN list : list[i].id \in Nat /\ list[i].id # new.id
  BY ListElement DEF CompatibilityObservation, IdsOf
<1>2. DistinctIds(list)
  BY IncreasingIds
<1>3. CASE Len(list) < MaxObservations
  <2>1. s = Sorted(Append(list, new))
    BY <1>3 DEF Insert
  <2> QED BY <1>2, <1>3, <2>1, PushOrdered
<1>4. CASE ~(Len(list) < MaxObservations)
  <2>1. Len(list) = MaxObservations /\ Len(list) # 0
    <3> DEFINE n == Len(list)
    <3>1. n \in Nat /\ n <= MaxObservations /\ ~(n < MaxObservations)
      BY <1>1, <1>4
    <3> HIDE DEF n
    <3>2. n = MaxObservations /\ n # 0
      BY <3>1, ListAssumption
    <3> QED BY <3>2 DEF n
  <2> DEFINE oldest == CHOOSE i \in DOMAIN list :
                         \A j \in DOMAIN list : list[i].id <= list[j].id
  <2>2. oldest \in DOMAIN list /\ \A j \in DOMAIN list : list[oldest].id <= list[j].id
    BY <2>1, OldestExists
  <2>3. s = IF new.id <= list[oldest].id THEN list
            ELSE Sorted(Append(Without(list, oldest), new))
    BY <1>4 DEF Insert
  <2> HIDE DEF oldest
  <2>4. CASE new.id <= list[oldest].id
    <3>1. ASSUME NEW i \in DOMAIN list PROVE new.id < list[i].id
      <4>1. list[oldest].id \in Nat /\ list[i].id \in Nat /\ list[i].id # new.id
        BY <1>1, <2>2
      <4> QED BY <1>1, <2>2, <2>4, <4>1
    <3>2. \A k \in IdsOf(list) : new.id < k
      BY <3>1 DEF IdsOf
    <3> QED BY <2>1, <2>3, <2>4, <3>2
  <2>5. CASE ~(new.id <= list[oldest].id)
    <3> DEFINE w == Without(list, oldest)
               old == list[oldest].id
    <3>1. /\ w \in Lists /\ Len(w) = Len(list) - 1
          /\ \A m \in DOMAIN w : \E k \in DOMAIN list \ {oldest} : w[m] = list[k]
          /\ \A k \in DOMAIN list \ {oldest} : \E m \in DOMAIN w : w[m] = list[k]
          /\ \A m \in DOMAIN w : w[m] = IF m < oldest THEN list[m] ELSE list[m + 1]
      BY <2>2, WithoutOne
    <3> HIDE DEF w
    <3>2. DOMAIN w = 1 .. (Len(list) - 1)
      BY <1>1, <3>1, ListElement
    <3>3. DistinctIds(w)
      <4> SUFFICES ASSUME NEW i \in DOMAIN w, NEW j \in DOMAIN w, i # j
                   PROVE  w[i].id # w[j].id
        BY DEF DistinctIds
      <4> DEFINE p == IF i < oldest THEN i ELSE i + 1
                 q == IF j < oldest THEN j ELSE j + 1
      <4>1. p \in DOMAIN list /\ q \in DOMAIN list /\ p # q
        BY <1>1, <2>2, <3>2
      <4>2. w[i] = list[p] /\ w[j] = list[q]
        BY <3>1
      <4> QED BY <1>2, <4>1, <4>2 DEF DistinctIds
    <3>4. IdsOf(w) = IdsOf(list) \ {old}
      <4>1. \A k \in DOMAIN list \ {oldest} : list[k].id # old
        BY <1>2, <2>2 DEF DistinctIds
      <4> QED BY <2>2, <3>1, <4>1 DEF IdsOf
    <3>5. new.id \notin IdsOf(w)
      BY <3>4
    <3>6. s = Sorted(Append(w, new))
      BY <2>3, <2>5 DEF w
    <3>7. /\ s \in Lists /\ Len(s) = Len(w) + 1 /\ Increasing(s)
          /\ IdsOf(s) = IdsOf(w) \cup {new.id}
          /\ \A r \in DOMAIN s : s[r] = new \/ \E i \in DOMAIN w : s[r] = w[i]
      BY <3>1, <3>3, <3>5, <3>6, PushOrdered
    <3>8. Len(s) = Len(list)
      BY <1>1, <3>1, <3>7
    <3>9. \A r \in DOMAIN s : s[r] = new \/ \E i \in DOMAIN list : s[r] = list[i]
      BY <3>1, <3>7
    <3>10. /\ old \in IdsOf(list) /\ old < new.id /\ \A k \in IdsOf(list) : old <= k
      <4>1. old \in Nat
        BY <1>1, <2>2
      <4>2. old < new.id
        BY <1>1, <2>5, <4>1
      <4> QED BY <2>2, <4>2 DEF IdsOf
    <3>11. IdsOf(s) = (IdsOf(list) \ {old}) \cup {new.id}
      BY <3>4, <3>7
    <3> HIDE DEF old
    <3> QED BY <2>1, <3>7, <3>8, <3>9, <3>10, <3>11
  <2> QED BY <2>4, <2>5
<1> QED BY <1>3, <1>4

\* The aggregate is one of the fixed categories.
LEMMA AggregateType ==
    ASSUME NEW counts \in [Fields -> Nat]
    PROVE  AggregateHookOutcome(counts) \in HookOutcomes
<1> DEFINE present == {i \in DOMAIN Alarms : counts[Alarms[i]] > 0}
           first == CHOOSE i \in present : \A j \in present : i <= j
<1>1. DOMAIN Alarms = 1 .. 5 /\ \A i \in 1 .. 5 : Alarms[i] \in HookOutcomes
  BY DEF Alarms, HookOutcomes
<1>2. CASE present # {}
  <2>1. \E i \in present : \A j \in present : i <= j
    <3>1. present \subseteq 1 .. 5
      BY <1>1
    <3> HIDE DEF present
    <3>2. CASE 1 \in present
      BY <3>1, <3>2
    <3>3. CASE 1 \notin present /\ 2 \in present
      BY <3>1, <3>3
    <3>4. CASE 1 \notin present /\ 2 \notin present /\ 3 \in present
      BY <3>1, <3>4
    <3>5. CASE 1 \notin present /\ 2 \notin present /\ 3 \notin present /\ 4 \in present
      BY <3>1, <3>5
    <3>6. CASE 1 \notin present /\ 2 \notin present /\ 3 \notin present /\ 4 \notin present
      <4>1. \A j \in present : j = 5
        BY <3>1, <3>6
      <4> QED BY <1>2, <4>1
    <3> QED BY <3>2, <3>3, <3>4, <3>5, <3>6
  <2>2. first \in 1 .. 5
    BY <1>1, <2>1
  <2>3. AggregateHookOutcome(counts) = Alarms[first]
    BY <1>2 DEF AggregateHookOutcome
  <2> HIDE DEF first
  <2> QED BY <1>1, <2>2, <2>3
<1>3. CASE present = {}
  BY <1>3 DEF AggregateHookOutcome, HookOutcomes
<1> QED BY <1>2, <1>3

\* A merged entry keeps its identity.
LEMMA MergedEntry ==
    ASSUME NEW old \in CompatibilityObservation, NEW new \in CompatibilityObservation,
           NEW now \in Nat
    PROVE  /\ MergeInto(old, new, now) \in CompatibilityObservation
           /\ MergeInto(old, new, now).id = old.id
           /\ MergeInto(old, new, now).counts = Combine(old.counts, new.counts)
           /\ MergeInto(old, new, now).hook
                = AggregateHookOutcome(Combine(old.counts, new.counts))
<1> DEFINE counts == Combine(old.counts, new.counts)
<1>1. old.counts \in [Fields -> Nat] /\ new.counts \in [Fields -> Nat]
  BY DEF CompatibilityObservation
<1>2. counts \in [Fields -> Nat]
  BY <1>1, OutcomeAssumption DEF Combine
<1>3. AggregateHookOutcome(counts) \in HookOutcomes
  BY <1>2, AggregateType
<1>4. MergeCommand(old.command, new.command) \in CommandOutcomes
  BY DEF MergeCommand, CommandOutcomes
<1>5. MergeInto(old, new, now) =
        [old EXCEPT !.counts = counts, !.hook = AggregateHookOutcome(counts),
                    !.command = MergeCommand(old.command, new.command), !.time = now]
  BY DEF MergeInto, CompatibilityObservation
<1> HIDE DEF counts
<1>6. /\ MergeInto(old, new, now) \in CompatibilityObservation
      /\ MergeInto(old, new, now).id = old.id
      /\ MergeInto(old, new, now).counts = counts
      /\ MergeInto(old, new, now).hook = AggregateHookOutcome(counts)
  BY <1>2, <1>3, <1>4, <1>5 DEF CompatibilityObservation
<1> QED BY <1>6 DEF counts

\* The same session, whenever it is dated.
SameSession(d, o) == d.id = o.id /\ d.counts = o.counts /\ d.hook = o.hook

\* record_compatibility_observation merges into the entry of the identity or
\* inserts one.
LEMMA RecordedCases ==
    ASSUME NEW list \in Lists, DistinctIds(list), NEW o \in CompatibilityObservation,
           NEW first \in Nat, NEW second \in Nat,
           NEW after \in Recorded(list, o, first, second)
    PROVE  \/ \E i \in DOMAIN list, d \in CompatibilityObservation :
                /\ SameSession(d, o) /\ list[i].id = o.id
                /\ after = [list EXCEPT ![i] = MergeInto(list[i], d, second)]
           \/ /\ o.id \notin IdsOf(list)
              /\ \E d \in CompatibilityObservation :
                    SameSession(d, o) /\ after = Insert(list, d)
<1> DEFINE dated == IF o.time = 0 THEN [o EXCEPT !.time = first] ELSE o
           same == IndicesOf(list, dated.id)
           i == CHOOSE i \in same : \A j \in same : i <= j
           new == [dated EXCEPT !.time = second]
<1>1. dated \in CompatibilityObservation /\ SameSession(dated, o)
  BY DEF CompatibilityObservation, SameSession
<1>2. new \in CompatibilityObservation /\ SameSession(new, o)
  BY <1>1 DEF CompatibilityObservation, SameSession
<1>3. after = IF same # {} THEN [list EXCEPT ![i] = MergeInto(@, dated, second)]
              ELSE Insert(list, new)
  BY DEF Recorded
<1> HIDE DEF dated, new
<1>4. CASE same # {}
  <2>1. same \in SUBSET Nat /\ \A j, k \in same : j = k
    BY ListElement DEF IndicesOf, DistinctIds
  <2>2. \E k \in same : \A j \in same : k <= j
    <3> HIDE DEF same
    <3>1. PICK k \in same : TRUE
      BY <1>4
    <3>2. \A j \in same : k <= j
      BY <2>1
    <3> QED BY <3>2
  <2>3. i \in same
    BY <2>2
  <2>4. i \in DOMAIN list /\ list[i].id = o.id
    BY <1>1, <2>3 DEF IndicesOf, SameSession
  <2> HIDE DEF i
  <2> QED BY <1>1, <1>3, <1>4, <2>4
<1>5. CASE same = {}
  BY <1>1, <1>2, <1>3, <1>5 DEF IndicesOf, IdsOf, SameSession
<1> QED BY <1>4, <1>5
=============================================================================
