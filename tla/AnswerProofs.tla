---------------------------- MODULE AnswerProofs ----------------------------
(***************************************************************************)
(* What a search returns, for tables, files and queries of any size.       *)
(***************************************************************************)
EXTENDS SearchProofs

-----------------------------------------------------------------------------
(***************************************************************************)
(* Sequences that have each element of a set once.                         *)
(***************************************************************************)
Once(s, S) == s \in Seq(S) /\ ToSet(s) = S /\ \A i, j \in 1..Len(s) : s[i] = s[j] => i = j

\* Their elements can be counted.
LEMMA OnceCounts ==
  ASSUME NEW s, NEW S, Once(s, S)
  PROVE  IsFiniteSet(S) /\ Len(s) \in Nat /\ Len(s) = Cardinality(S) /\ DOMAIN s = 1..Len(s)
  <1>1. PICK n \in Nat : n = Len(s) /\ DOMAIN s = 1..n /\ \A k \in 1..n : s[k] \in S
    BY LenProperties, ElementOfSeq DEF Once
  <1>2. S = {s[k] : k \in 1..n}
    BY <1>1 DEF Once, ToSet
  <1>3. PICK b : b = [k \in 1..n |-> s[k]]
    OBVIOUS
  <1>4. b \in Bijection(1..n, S)
    <2>1. b \in [1..n -> S]
      BY <1>1, <1>3
    <2>2. \A i, j \in 1..n : b[i] = b[j] => i = j
      BY <1>1, <1>3 DEF Once
    <2>3. \A x \in S : \E k \in 1..n : b[k] = x
      BY <1>2, <1>3
    <2> QED
      BY <2>1, <2>2, <2>3 DEF Bijection, Injection, Surjection, IsInjective
  <1>5. IsFiniteSet(1..n) /\ Cardinality(1..n) = n
    BY FS_Interval
  <1>6. IsFiniteSet(S) /\ Cardinality(S) = n
    BY <1>4, <1>5, FS_Bijection DEF ExistsBijection
  <1> QED
    BY <1>1, <1>6

\* Nothing, once.
LEMMA OnceNothing == Once(<<>>, {})
  BY EmptySeq, EmptyList DEF Once

\* before puts the elements of S one after another.
StrictOrder(S, before) ==
  /\ \A x \in S : <<x, x>> \notin before
  /\ \A x, y, z \in S : <<x, y>> \in before /\ <<y, z>> \in before => <<x, z>> \in before
  /\ \A x, y \in S : x # y => <<x, y>> \in before \/ <<y, x>> \in before

\* A finite set in such an order.
LEMMA InOrderIsExact ==
  ASSUME NEW S, IsFiniteSet(S), NEW before, StrictOrder(S, before)
  PROVE  /\ Once(InOrder(S, before), S) /\ Len(InOrder(S, before)) = Cardinality(S)
         /\ \A i, j \in 1..Cardinality(S) :
              i < j => <<InOrder(S, before)[i], InOrder(S, before)[j]>> \in before
  <1> DEFINE n == Cardinality(S)
             Below(x) == {y \in S : <<y, x>> \in before}
             Rank(x) == Cardinality(Below(x))
  <1>1. n \in Nat /\ \A x \in S : IsFiniteSet(Below(x)) /\ Rank(x) \in Nat
    <2>1. \A x \in S : Below(x) \in SUBSET S
      OBVIOUS
    <2>2. \A x \in S : IsFiniteSet(Below(x))
      BY <2>1, FS_Subset
    <2> HIDE DEF Below
    <2> QED
      BY <2>2, FS_CardinalityType
  <1>2. ASSUME NEW x \in S, NEW y \in S, <<x, y>> \in before PROVE Rank(x) < Rank(y)
    <2>1. Below(x) \in SUBSET Below(y) /\ x \in Below(y) /\ x \notin Below(x)
      BY <1>2 DEF StrictOrder
    <2>2. Below(x) # Below(y)
      BY <2>1
    <2> HIDE DEF Below
    <2>3. Cardinality(Below(x)) <= Cardinality(Below(y)) /\ Cardinality(Below(x)) # Cardinality(Below(y))
      BY <1>1, <2>1, <2>2, FS_Subset
    <2> QED
      BY <1>1, <2>3
  <1>3. ASSUME NEW x \in S PROVE Rank(x) < n
    <2>1. Below(x) \in SUBSET S /\ x \notin Below(x)
      BY DEF StrictOrder
    <2> HIDE DEF Below
    <2>2. Cardinality(Below(x)) <= n /\ Cardinality(Below(x)) # n
      BY <2>1, FS_Subset
    <2> QED
      BY <1>1, <2>2
  <1> HIDE DEF Rank
  <1>a. \A x \in S : Rank(x) \in Nat /\ Rank(x) < n
    BY <1>1, <1>3
  <1>4. PICK rank : rank = [x \in S |-> Rank(x) + 1]
    OBVIOUS
  <1>5. rank \in [S -> 1..n]
    BY <1>1, <1>a, <1>4
  <1>6. ASSUME NEW x \in S, NEW y \in S, Rank(x) = Rank(y) PROVE x = y
    <2>1. ~(Rank(x) < Rank(y)) /\ ~(Rank(y) < Rank(x))
      BY <1>a, <1>6
    <2> QED
      BY <1>2, <2>1 DEF StrictOrder
  <1>7. rank \in Surjection(S, 1..n)
    <2>1. \A x, y \in S : rank[x] = rank[y] => x = y
      <3> SUFFICES ASSUME NEW x \in S, NEW y \in S, Rank(x) + 1 = Rank(y) + 1 PROVE x = y
        BY <1>4
      <3>1. Rank(x) = Rank(y)
        BY <1>a
      <3> QED
        BY <1>6, <3>1
    <2>2. rank \in Injection(S, 1..n)
      BY <1>5, <2>1 DEF Injection, IsInjective
    <2>3. IsFiniteSet(1..n) /\ Cardinality(1..n) = n
      BY <1>1, FS_Interval
    <2> HIDE DEF n
    <2>4. Cardinality(S) = Cardinality(1..n)
      BY <2>3 DEF n
    <2> QED
      BY <2>2, <2>3, <2>4, FS_Injection
  <1>8. PICK s : s = InOrder(S, before) /\ s = [i \in 1..n |-> CHOOSE x \in S : Rank(x) = i - 1]
    BY DEF InOrder, Rank
  <1>9. ASSUME NEW i \in 1..n PROVE s[i] \in S /\ Rank(s[i]) = i - 1
    <2>1. PICK x \in S : rank[x] = i
      BY <1>7 DEF Surjection
    <2>2. Rank(x) = i - 1
      <3>1. Rank(x) \in Nat /\ rank[x] = Rank(x) + 1 /\ i \in Nat
        BY <1>a, <1>4
      <3> QED
        BY <2>1, <3>1
    <2> QED
      BY <1>8, <2>2
  <1>10. s \in Seq(S) /\ Len(s) = n
    <2>1. s \in [1..n -> S]
      BY <1>8, <1>9
    <2> QED
      BY <1>1, <2>1, FunctionIsSequence
  <1>11. ASSUME NEW i \in 1..n, NEW j \in 1..n PROVE /\ s[i] = s[j] => i = j
                                                     /\ i < j => <<s[i], s[j]>> \in before
    <2>1. /\ Rank(s[i]) = i - 1 /\ Rank(s[j]) = j - 1 /\ s[i] \in S /\ s[j] \in S
          /\ i \in Int /\ j \in Int
      BY <1>9
    <2>2. s[i] = s[j] => i = j
      BY <2>1
    <2>3. ASSUME i < j PROVE <<s[i], s[j]>> \in before
      <3>1. s[i] # s[j] /\ ~(Rank(s[j]) < Rank(s[i]))
        BY <2>1, <2>3
      <3> QED
        BY <1>2, <2>1, <3>1 DEF StrictOrder
    <2> QED
      BY <2>2, <2>3
  <1>12. ToSet(s) = S
    <2>1. DOMAIN s = 1..n
      BY <1>8
    <2>2. ASSUME NEW x \in S PROVE x \in ToSet(s)
      <3>1. PICK i \in 1..n : i = rank[x] /\ i - 1 = Rank(x)
        <4>1. rank[x] \in 1..n /\ rank[x] = Rank(x) + 1 /\ Rank(x) \in Nat
          BY <1>a, <1>4, <1>5
        <4> QED
          BY <4>1
      <3>2. s[i] = x
        BY <1>6, <1>9, <3>1
      <3> QED
        BY <2>1, <3>2 DEF ToSet
    <2> QED
      BY <1>9, <2>1, <2>2 DEF ToSet
  <1>13. \A i, j \in 1..n : (s[i] = s[j] => i = j) /\ (i < j => <<s[i], s[j]>> \in before)
    BY <1>11
  <1>14. Once(s, S)
    BY <1>10, <1>12, <1>13 DEF Once
  <1> QED
    BY <1>8, <1>10, <1>13, <1>14

\* A finite set of numbers in ascending order.
LEMMA AscendingOnce ==
  ASSUME NEW S \in SUBSET Nat, IsFiniteSet(S)
  PROVE  /\ Once(Ascending(S), S) /\ Len(Ascending(S)) = Cardinality(S)
         /\ \A i, j \in 1..Cardinality(S) : i < j => Ascending(S)[i] < Ascending(S)[j]
  <1>1. PICK s : s = Ascending(S) /\ SortedList(s) /\ ToSet(s) = S /\ Len(s) = Cardinality(S)
    BY AscendingIsExact
  <1>2. PICK n \in Nat : n = Len(s) /\ DOMAIN s = 1..n /\ \A k \in 1..n : s[k] \in Nat
    BY <1>1, LenProperties, ElementOfSeq DEF SortedList
  <1>3. \A i, j \in 1..n : i < j => s[i] < s[j]
    BY <1>1, <1>2 DEF SortedList, IsSortedSet
  <1>4. ASSUME NEW i \in 1..n, NEW j \in 1..n, s[i] = s[j] PROVE i = j
    <2>1. s[i] \in Nat /\ s[j] \in Nat
      BY <1>2
    <2>2. ~(s[i] < s[j]) /\ ~(s[j] < s[i])
      BY <1>4, <2>1
    <2>3. ~(i < j) /\ ~(j < i)
      BY <1>3, <2>2
    <2> QED
      BY <2>3
  <1>5. s \in Seq(S)
    <2>1. \A k \in 1..n : s[k] \in S
      BY <1>1, <1>2 DEF ToSet
    <2>2. s = [k \in 1..n |-> s[k]]
      BY <1>1, <1>2 DEF SortedList
    <2>3. s \in [1..n -> S]
      BY <2>1, <2>2
    <2> QED
      BY <2>3, FunctionIsSequence
  <1> QED
    BY <1>1, <1>2, <1>3, <1>4, <1>5 DEF Once

\* A finite set in any order.
LEMMA SetToSeqOnce ==
  ASSUME NEW S, IsFiniteSet(S)
  PROVE  Once(SetToSeq(S), S)
  <1>1. PICK n \in Nat : n = Cardinality(S)
    BY FS_CardinalityType
  <1>2. PICK b \in Bijection(1..n, S) : TRUE
    BY <1>1, FS_CardinalityType DEF ExistsBijection
  <1>3. b \in [1..n -> S] /\ \A i, j \in 1..n : b[i] = b[j] => i = j
    BY <1>2 DEF Bijection, Injection, IsInjective
  <1>4. DOMAIN b = 1..n
    BY <1>3
  <1>5. \E f \in [1..n -> S] : \A i, j \in DOMAIN f : f[i] = f[j] => i = j
    BY <1>3, <1>4
  <1>6. PICK s : s = SetToSeq(S)
    OBVIOUS
  <1>7. s \in [1..n -> S] /\ \A i, j \in DOMAIN s : s[i] = s[j] => i = j
    BY <1>1, <1>5, <1>6 DEF SetToSeq, IsInjective
  <1>8. s \in Seq(S) /\ Len(s) = n /\ DOMAIN s = 1..n
    BY <1>7, FunctionIsSequence
  <1>9. s \in Surjection(1..n, S)
    <2>1. s \in Injection(1..n, S)
      BY <1>7, <1>8 DEF Injection, IsInjective
    <2>2. IsFiniteSet(1..n) /\ Cardinality(1..n) = n
      BY FS_Interval
    <2> QED
      BY <1>1, <2>1, <2>2, FS_Injection
  <1>10. ToSet(s) = S
    BY <1>7, <1>8, <1>9 DEF ToSet, Surjection
  <1> QED
    BY <1>6, <1>7, <1>8, <1>10 DEF Once

\* places are those of at, in their order, and c has the elements of s there.
Picked(c, s, at, places) ==
  /\ Once(at, places) /\ (\A i, j \in 1..Len(at) : i < j => at[i] < at[j])
  /\ Len(c) = Len(at) /\ DOMAIN c = 1..Len(at) /\ \A n \in 1..Len(at) : c[n] = s[at[n]]

\* The elements of a sequence at some of its places.
LEMMA ChosenIsExact ==
  ASSUME NEW V, NEW s \in Seq(V), NEW places \in SUBSET DOMAIN s
  PROVE  /\ IsFiniteSet(places) /\ Cardinality(places) \in Nat
         /\ Chosen(s, places) \in Seq(V) /\ Len(Chosen(s, places)) = Cardinality(places)
         /\ ToSet(Chosen(s, places)) = {s[n] : n \in places}
         /\ \E at : Picked(Chosen(s, places), s, at, places)
  <1>1. PICK n \in Nat : n = Len(s) /\ DOMAIN s = 1..n /\ \A k \in 1..n : s[k] \in V
    BY LenProperties, ElementOfSeq
  <1>2. places \in SUBSET Nat /\ IsFiniteSet(places)
    <2>1. IsFiniteSet(1..n)
      BY FS_Interval
    <2> QED
      BY <1>1, <2>1, FS_Subset
  <1>3. PICK at : /\ at = Ascending(places) /\ Once(at, places) /\ Len(at) = Cardinality(places)
                  /\ \A i, j \in 1..Cardinality(places) : i < j => at[i] < at[j]
    BY <1>2, AscendingOnce
  <1>4. PICK m \in Nat : m = Cardinality(places) /\ m = Len(at) /\ DOMAIN at = 1..m
    BY <1>3, OnceCounts
  <1>5. PICK c : c = Chosen(s, places) /\ c = [k \in 1..m |-> s[at[k]]]
    BY <1>3, <1>4 DEF Chosen
  <1>6. \A k \in 1..m : at[k] \in places
    BY <1>3, <1>4 DEF Once, ToSet
  <1>7. c \in Seq(V) /\ Len(c) = m /\ DOMAIN c = 1..m
    <2>1. c \in [1..m -> V]
      BY <1>1, <1>5, <1>6
    <2> QED
      BY <2>1, FunctionIsSequence
  <1>8. ToSet(c) = {s[k] : k \in places}
    <2>1. places = {at[k] : k \in 1..m}
      BY <1>3, <1>4 DEF Once, ToSet
    <2>2. ToSet(c) = {s[at[k]] : k \in 1..m}
      BY <1>5, <1>7 DEF ToSet
    <2> QED
      BY <2>1, <2>2
  <1>9. Picked(c, s, at, places)
    BY <1>3, <1>4, <1>5, <1>7 DEF Picked
  <1> QED
    BY <1>2, <1>4, <1>5, <1>7, <1>8, <1>9

\* A sequence of elements of a set is one of elements of a larger set.
LEMMA LargerSeq ==
  ASSUME NEW A, NEW B, A \subseteq B, NEW s \in Seq(A) PROVE s \in Seq(B)
  <1>1. PICK n \in Nat : n = Len(s) /\ DOMAIN s = 1..n /\ \A k \in 1..n : s[k] \in A
    BY LenProperties, ElementOfSeq
  <1>2. s = [k \in 1..n |-> s[k]]
    BY <1>1
  <1>3. s \in [1..n -> B]
    BY <1>1, <1>2
  <1> QED
    BY <1>3, FunctionIsSequence

\* Sequences that have nothing in common, one after another.
LEMMA FlattenOnce ==
  ASSUME NEW n \in Nat, NEW ss, ss = [i \in 1..n |-> ss[i]], NEW parts,
         \A i \in 1..n : Once(ss[i], parts[i]),
         \A i, j \in 1..n : i # j => parts[i] \cap parts[j] = {}
  PROVE  Once(FlattenSeq(ss), UNION {parts[i] : i \in 1..n})
  <1>1. PICK V : V = UNION {parts[i] : i \in 1..n}
    OBVIOUS
  <1>2. ASSUME NEW i \in 1..n PROVE /\ ss[i] \in Seq(V) /\ Len(ss[i]) \in Nat /\ DOMAIN ss[i] = 1..Len(ss[i])
                                    /\ parts[i] = {ss[i][k] : k \in 1..Len(ss[i])}
    <2>1. PICK s : s = ss[i] /\ Once(s, parts[i])
      OBVIOUS
    <2>2. parts[i] \subseteq V
      BY <1>1
    <2>3. s \in Seq(V)
      BY <2>1, <2>2, LargerSeq DEF Once
    <2>4. Len(s) \in Nat /\ DOMAIN s = 1..Len(s)
      BY <2>1, OnceCounts
    <2>5. parts[i] = {s[k] : k \in 1..Len(s)}
      BY <2>1, <2>4 DEF Once, ToSet
    <2> QED
      BY <2>1, <2>3, <2>4, <2>5
  <1>3. ss \in Seq(Seq(V)) /\ Len(ss) = n
    <2>1. ss \in [1..n -> Seq(V)]
      BY <1>2
    <2> QED
      BY <2>1, FunctionIsSequence
  <1>4. PICK flat : flat = FlattenSeq(ss) /\ flat \in Seq(V)
    <2>1. PICK o : Layout(o, ss)
      BY <1>3, LayoutExists
    <2> QED
      BY <1>3, <2>1, FlattenLayout
  <1>5. PICK place : IsPlaced(flat, place, ss)
    BY <1>3, <1>4, FlattenedIsPlaced
  <1>6. PICK l \in Nat : l = Len(flat) /\ DOMAIN flat = 1..l
    BY <1>4, LenProperties
  <1>a. n = Len(ss) /\ l = Len(flat)
    BY <1>3, <1>6
  <1>b. ASSUME NEW j \in 1..l
        PROVE  /\ place[j][1] \in 1..n /\ place[j][2] \in 1..Len(ss[place[j][1]])
               /\ flat[j] = ss[place[j][1]][place[j][2]]
    BY <1>5, <1>a DEF IsPlaced
  <1>c. ASSUME NEW i \in 1..l, NEW j \in 1..l, place[i][1] = place[j][1], place[i][2] = place[j][2]
        PROVE  i = j
    BY <1>5, <1>a, <1>c DEF IsPlaced
  <1>d. ASSUME NEW f \in 1..n, NEW g \in 1..Len(ss[f])
        PROVE  \E j \in 1..l : place[j][1] = f /\ place[j][2] = g
    <2>1. f \in 1..Len(ss)
      BY <1>a
    <2>2. \E j \in 1..Len(flat) : place[j][1] = f /\ place[j][2] = g
      BY <1>5, <2>1 DEF IsPlaced
    <2> QED
      BY <1>a, <2>2
  <1>8. ASSUME NEW i \in 1..l, NEW j \in 1..l, flat[i] = flat[j] PROVE i = j
    <2>1. PICK f \in 1..n : f = place[i][1] /\ place[i][2] \in 1..Len(ss[f]) /\ flat[i] = ss[f][place[i][2]]
      BY <1>b
    <2>2. PICK g \in 1..n : g = place[j][1] /\ place[j][2] \in 1..Len(ss[g]) /\ flat[j] = ss[g][place[j][2]]
      BY <1>b
    <2>a. flat[i] \in parts[f]
      BY <1>2, <2>1
    <2>b. flat[j] \in parts[g]
      BY <1>2, <2>2
    <2>3. flat[i] \in parts[f] /\ flat[j] \in parts[g]
      BY <2>a, <2>b
    <2>4. f = g
      BY <1>8, <2>3
    <2>5. PICK s : s = ss[f] /\ Once(s, parts[f])
      OBVIOUS
    <2>6. PICK k \in 1..Len(s) : k = place[i][2] /\ s[k] = flat[i]
      BY <2>1, <2>5
    <2>7. PICK m \in 1..Len(s) : m = place[j][2] /\ s[m] = flat[j]
      BY <2>2, <2>4, <2>5
    <2>8. k = m
      BY <1>8, <2>5, <2>6, <2>7 DEF Once
    <2> QED
      BY <1>c, <2>1, <2>2, <2>4, <2>6, <2>7, <2>8
  <1>9. ASSUME NEW x \in V PROVE x \in ToSet(flat)
    <2>1. PICK f \in 1..n : x \in parts[f]
      BY <1>1
    <2>2. PICK g \in 1..Len(ss[f]) : x = ss[f][g]
      BY <1>2, <2>1
    <2>3. PICK j \in 1..l : place[j][1] = f /\ place[j][2] = g
      BY <1>d
    <2>4. flat[j] = x
      BY <1>b, <2>2, <2>3
    <2> QED
      BY <1>6, <2>4 DEF ToSet
  <1>10. ToSet(flat) = V
    <2>1. ToSet(flat) \subseteq V
      BY <1>4, ElementsAreFinite
    <2> QED
      BY <1>9, <2>1
  <1>11. Once(flat, V)
    BY <1>4, <1>6, <1>8, <1>10 DEF Once
  <1> QED
    BY <1>1, <1>4, <1>11

\* Two sequences that have nothing in common, one after the other.
LEMMA JoinOnce ==
  ASSUME NEW A, NEW B, A \cap B = {}, NEW a, Once(a, A), NEW b, Once(b, B)
  PROVE  Once(a \o b, A \cup B)
  <1>1. PICK V : V = A \cup B /\ a \in Seq(V) /\ b \in Seq(V)
    <2>1. A \subseteq A \cup B /\ B \subseteq A \cup B
      OBVIOUS
    <2> QED
      BY <2>1, LargerSeq DEF Once
  <1>2. PICK m \in Nat, n \in Nat : /\ m = Len(a) /\ DOMAIN a = 1..m /\ n = Len(b) /\ DOMAIN b = 1..n
    BY OnceCounts
  <1>3. /\ A = {a[k] : k \in 1..m} /\ B = {b[k] : k \in 1..n}
        /\ \A i, j \in 1..m : a[i] = a[j] => i = j
        /\ \A i, j \in 1..n : b[i] = b[j] => i = j
    BY <1>2 DEF Once, ToSet
  <1>4. PICK c : c = a \o b /\ c \in Seq(V) /\ Joined(c, a, b)
    BY <1>1, AfterEachOther
  <1>5. /\ Len(c) = m + n /\ DOMAIN c = 1..m + n
        /\ (\A k \in 1..m : c[k] = a[k]) /\ \A k \in 1..n : c[m + k] = b[k]
    BY <1>2, <1>4, LenProperties DEF Joined
  <1>6. ASSUME NEW k \in 1..m + n
        PROVE  \/ k \in 1..m
               \/ \E i \in 1..n : k = m + i
    <2>1. CASE k <= m
      BY <2>1
    <2>2. CASE ~(k <= m)
      <3>1. k - m \in 1..n /\ k = m + (k - m)
        BY <2>2
      <3> QED
        BY <3>1
    <2> QED
      BY <2>1, <2>2
  <1>7. ASSUME NEW i \in 1..m + n, NEW j \in 1..m + n, c[i] = c[j] PROVE i = j
    <2>1. CASE i \in 1..m /\ j \in 1..m
      BY <1>3, <1>5, <1>7, <2>1
    <2>2. CASE \E k, l \in 1..n : i = m + k /\ j = m + l
      BY <1>3, <1>5, <1>7, <2>2
    <2>a. (\A k \in 1..m : c[k] \in A) /\ \A k \in 1..n : c[m + k] \in B
      BY <1>3, <1>5
    <2>3. CASE i \in 1..m /\ \E l \in 1..n : j = m + l
      BY <1>7, <2>a, <2>3
    <2>4. CASE j \in 1..m /\ \E l \in 1..n : i = m + l
      BY <1>7, <2>a, <2>4
    <2> QED
      BY <1>6, <2>1, <2>2, <2>3, <2>4
  <1>8. ToSet(c) = V
    <2>1. ASSUME NEW x \in ToSet(c) PROVE x \in V
      BY <1>4, <1>5, ElementOfSeq DEF ToSet
    <2>2. ASSUME NEW x \in A PROVE x \in ToSet(c)
      <3>1. PICK k \in 1..m : x = a[k]
        BY <1>3
      <3>2. k \in 1..m + n
        OBVIOUS
      <3> QED
        BY <1>5, <3>1, <3>2 DEF ToSet
    <2>3. ASSUME NEW x \in B PROVE x \in ToSet(c)
      <3>1. PICK k \in 1..n : x = b[k]
        BY <1>3
      <3>2. m + k \in 1..m + n
        OBVIOUS
      <3> QED
        BY <1>5, <3>1, <3>2 DEF ToSet
    <2> QED
      BY <1>1, <2>1, <2>2, <2>3
  <1> QED
    BY <1>1, <1>4, <1>5, <1>7, <1>8 DEF Once

-----------------------------------------------------------------------------
(***************************************************************************)
(* build_row_selection: the selectors that skip and select, and the rows   *)
(* that a reader reads for them.                                           *)
(***************************************************************************)
SelectorType == [skip : BOOLEAN, n : Nat]
ReadState == [row : Nat, rows : SUBSET Nat]
Unread == [row |-> 0, rows |-> {}]
ReadStep(s) == [p \in ReadState \X (1..Len(s)) |-> ReadSelector(p[1], s[p[2]])]

\* A reader that reads a selector is at some row and has some rows.
LEMMA ReadSelectorType ==
  ASSUME NEW acc \in ReadState, NEW x \in SelectorType
  PROVE  ReadSelector(acc, x) \in ReadState
  <1>1. acc.row \in Nat /\ acc.rows \in SUBSET Nat /\ x.n \in Nat
    BY DEF ReadState, SelectorType
  <1>2. acc.row + x.n \in Nat /\ acc.row..acc.row + x.n - 1 \subseteq Nat
    BY <1>1
  <1>3. acc.rows \cup (IF x.skip THEN {} ELSE acc.row..acc.row + x.n - 1) \in SUBSET Nat
    BY <1>1, <1>2
  <1> QED
    BY <1>2, <1>3 DEF ReadSelector, ReadState

\* The fold over the selectors, unfolded.
LEMMA SelectorsRead ==
  ASSUME NEW s \in Seq(SelectorType)
  PROVE  \E acc : Accumulates(acc, ReadState, Unread, ReadStep(s), Len(s)) /\ SelectedRows(s) = acc[Len(s)].rows
  <1>1. PICK n \in Nat : n = Len(s) /\ DOMAIN s = 1..n /\ \A i \in 1..n : s[i] \in SelectorType
    BY LenProperties, ElementOfSeq
  <1>2. PICK base : base = Unread
    OBVIOUS
  <1> DEFINE Step(h, S) == IF S = {} THEN base ELSE ReadSelector(h[S \ {Max(S)}], s[Max(S)])
             c == CHOOSE h : h = [S \in SUBSET DOMAIN s |-> Step(h, S)]
  <1>a. PICK step : step = ReadStep(s) /\ step = [p \in ReadState \X (1..n) |-> ReadSelector(p[1], s[p[2]])]
    BY <1>1 DEF ReadStep
  <1>3. /\ step \in [ReadState \X (1..n) -> ReadState]
        /\ \A x \in ReadState, i \in 1..n : step[<<x, i>>] = ReadSelector(x, s[i])
    BY <1>1, <1>a, ReadSelectorType
  <1>4. SelectedRows(s) = c[1..n].rows
    BY <1>1, <1>2 DEF SelectedRows, FoldLeft, MapThenFoldSet, Unread
  <1>5. base \in ReadState
    BY <1>2 DEF Unread, ReadState
  <1>6. PICK g \in [SUBSET (1..n) -> ReadState] : IsFold(g, base, step, n)
    BY <1>3, <1>5, FoldExists
  <1>7. \A S \in SUBSET (1..n) : S # {} => Max(S) \in 1..n /\ S \ {Max(S)} \in SUBSET (1..n)
    BY MaxOfPlaces
  <1>8. \A S \in SUBSET (1..n) : S # {} => step[<<g[S \ {Max(S)}], Max(S)>>] = ReadSelector(g[S \ {Max(S)}], s[Max(S)])
    BY <1>3, <1>7
  <1>9. g = [S \in SUBSET DOMAIN s |-> Step(g, S)]
    BY <1>1, <1>6, <1>8 DEF IsFold
  <1>10. c = [S \in SUBSET DOMAIN s |-> Step(c, S)]
    BY <1>9
  <1> HIDE DEF c
  <1>11. c[{}] = base
    BY <1>10
  <1>12. FoldsIn(c, ReadState, base, step, n)
    <2>1. \A S \in SUBSET (1..n) :
            S # {} /\ c[S \ {Max(S)}] \in ReadState => c[S] = step[<<c[S \ {Max(S)}], Max(S)>>]
      BY <1>1, <1>3, <1>7, <1>10
    <2> QED
      BY <1>3, <1>5, <1>11, <2>1 DEF FoldsIn
  <1>13. PICK acc : Accumulates(acc, ReadState, base, step, n) /\ acc[n] = c[1..n]
    BY <1>12, FoldRuns
  <1> QED
    BY <1>1, <1>2, <1>a, <1>4, <1>13

\* Reading s ends at a row with some rows read.
Reads(s, state) ==
  /\ s \in Seq(SelectorType)
  /\ \E acc : Accumulates(acc, ReadState, Unread, ReadStep(s), Len(s)) /\ acc[Len(s)] = state

\* The rows that are read are those that SelectedRows says.
LEMMA ReadRows ==
  ASSUME NEW s, NEW state, Reads(s, state)
  PROVE  SelectedRows(s) = state.rows /\ state \in ReadState
  <1>1. PICK n \in Nat : n = Len(s)
    BY LenProperties DEF Reads
  <1>2. PICK a : Accumulates(a, ReadState, Unread, ReadStep(s), n) /\ a[n] = state
    BY <1>1 DEF Reads
  <1>3. PICK b : Accumulates(b, ReadState, Unread, ReadStep(s), n) /\ SelectedRows(s) = b[n].rows
    BY <1>1, SelectorsRead DEF Reads
  <1>4. a[n] = b[n]
    BY <1>2, <1>3, AccumulatesOnce
  <1>5. a[n] \in ReadState
    BY <1>2 DEF Accumulates
  <1> QED
    BY <1>2, <1>3, <1>4, <1>5

\* Before anything is read.
LEMMA ReadNothing == Reads(<<>>, Unread)
  <1>1. <<>> \in Seq(SelectorType) /\ Len(<<>>) = 0
    BY EmptySeq
  <1>2. PICK acc : acc = [k \in 0..0 |-> Unread]
    OBVIOUS
  <1>3. Unread \in ReadState
    BY DEF Unread, ReadState
  <1>4. acc \in [0..0 -> ReadState] /\ acc[0] = Unread /\ 1..0 = {}
    BY <1>2, <1>3
  <1>5. Accumulates(acc, ReadState, Unread, ReadStep(<<>>), 0)
    BY <1>4 DEF Accumulates
  <1> QED
    BY <1>1, <1>4, <1>5 DEF Reads

\* One selector more.
LEMMA ReadMore ==
  ASSUME NEW s, NEW state, Reads(s, state), NEW x \in SelectorType
  PROVE  Reads(Append(s, x), ReadSelector(state, x))
  <1>1. PICK n \in Nat : n = Len(s) /\ DOMAIN s = 1..n /\ \A k \in 1..n : s[k] \in SelectorType
    BY LenProperties, ElementOfSeq DEF Reads
  <1>2. PICK acc : Accumulates(acc, ReadState, Unread, ReadStep(s), n) /\ acc[n] = state
    BY <1>1 DEF Reads
  <1>3. PICK t : t = Append(s, x) /\ t \in Seq(SelectorType) /\ Len(t) = n + 1
                 /\ (\A k \in 1..n : t[k] = s[k]) /\ t[n + 1] = x
    <2>1. s \in Seq(SelectorType)
      BY DEF Reads
    <2>2. /\ Append(s, x) \in Seq(SelectorType) /\ Len(Append(s, x)) = n + 1
          /\ \A k \in 1..n : Append(s, x)[k] = s[k]
          /\ Append(s, x)[n + 1] = x
      BY <1>1, <2>1, AppendProperties
    <2> QED
      BY <2>2
  <1>4. PICK next : next = [k \in 0..n + 1 |-> IF k = n + 1 THEN ReadSelector(state, x) ELSE acc[k]]
    OBVIOUS
  <1>5. acc \in [0..n -> ReadState] /\ acc[0] = Unread /\ state \in ReadState
    BY <1>2 DEF Accumulates
  <1>6. next \in [0..n + 1 -> ReadState]
    <2>1. ReadSelector(state, x) \in ReadState
      BY <1>5, ReadSelectorType
    <2>2. ASSUME NEW k \in 0..n + 1, k # n + 1 PROVE acc[k] \in ReadState
      <3>1. k \in 0..n
        BY <2>2
      <3> QED
        BY <1>5, <3>1
    <2> QED
      BY <1>4, <2>1, <2>2
  <1>7. next[0] = Unread /\ next[n + 1] = ReadSelector(state, x) /\ next[n] = state
    BY <1>2, <1>4, <1>5
  <1>8. ASSUME NEW k \in 1..n + 1 PROVE next[k] = ReadStep(t)[<<next[k - 1], k>>]
    <2>1. k - 1 \in 0..n /\ k - 1 \in 0..n + 1 /\ k \in 0..n + 1
      OBVIOUS
    <2>2. next[k - 1] \in ReadState
      BY <1>6, <2>1
    <2>3. ReadStep(t)[<<next[k - 1], k>>] = ReadSelector(next[k - 1], t[k])
      <3>1. <<next[k - 1], k>> \in ReadState \X (1..Len(t))
        BY <1>3, <2>2
      <3> QED
        BY <3>1 DEF ReadStep
    <2>4. CASE k = n + 1
      <3>1. k - 1 = n
        BY <2>4
      <3> QED
        BY <1>3, <1>7, <2>3, <2>4, <3>1
    <2>5. CASE k # n + 1
      <3>1. k \in 1..n /\ k \in 0..n
        BY <2>5
      <3>2. next[k] = acc[k] /\ next[k - 1] = acc[k - 1]
        BY <1>4, <2>1, <2>5
      <3>3. acc[k] = ReadStep(s)[<<acc[k - 1], k>>]
        BY <1>2, <3>1 DEF Accumulates
      <3>4. <<acc[k - 1], k>> \in ReadState \X (1..Len(s))
        BY <1>1, <1>5, <2>1, <3>1
      <3>5. acc[k] = ReadSelector(acc[k - 1], s[k])
        BY <3>3, <3>4 DEF ReadStep
      <3> QED
        BY <1>3, <2>3, <3>1, <3>2, <3>5
    <2> QED
      BY <2>4, <2>5
  <1>9. Accumulates(next, ReadState, Unread, ReadStep(t), n + 1)
    BY <1>6, <1>7, <1>8 DEF Accumulates
  <1> QED
    BY <1>3, <1>7, <1>9 DEF Reads

\* The fold over the pages.
SelectState == [selectors : Seq(SelectorType), prev_end : Nat]
NothingSelected == [selectors |-> <<>>, prev_end |-> 0]
SelectStep(entries) == [p \in SelectState \X (1..Len(entries)) |-> SelectPage(p[1], entries[p[2]])]
PagesSelected(entries) == FoldLeft(SelectPage, NothingSelected, entries)

\* What a selector is.
LEMMA SelectorIs ==
  ASSUME NEW skip \in BOOLEAN, NEW n \in Nat
  PROVE  Selector(skip, n) \in SelectorType /\ Selector(skip, n).skip = skip /\ Selector(skip, n).n = n
BY DEF Selector, SelectorType

\* What a page adds: the gap before it is skipped, if there is one.
LEMMA SelectPageType ==
  ASSUME NEW acc \in SelectState, NEW entry \in PageEntry
  PROVE  /\ SelectPage(acc, entry) \in SelectState
         /\ SelectPage(acc, entry).prev_end = entry.first_row_index + entry.row_count
         /\ \E skipped \in Seq(SelectorType), page \in SelectorType :
              /\ page = Selector(FALSE, entry.row_count)
              /\ skipped = IF entry.first_row_index > acc.prev_end
                           THEN Append(acc.selectors, Selector(TRUE, entry.first_row_index - acc.prev_end))
                           ELSE acc.selectors
              /\ SelectPage(acc, entry).selectors = Append(skipped, page)
  <1>1. PICK first \in Nat, count \in Nat, last \in Nat :
          first = entry.first_row_index /\ count = entry.row_count /\ last = acc.prev_end
    BY DEF PageEntry, SelectState
  <1>2. PICK s \in Seq(SelectorType) : s = acc.selectors
    BY DEF SelectState
  <1>3. PICK page : page = Selector(FALSE, count) /\ page \in SelectorType
    BY SelectorIs
  <1>4. PICK skipped : /\ skipped = (IF first > last THEN Append(s, Selector(TRUE, first - last)) ELSE s)
                       /\ skipped \in Seq(SelectorType)
    <2>1. CASE first > last
      <3>0. first - last \in Nat
        BY <2>1
      <3>1. Selector(TRUE, first - last) \in SelectorType
        BY <3>0, SelectorIs
      <3>2. Append(s, Selector(TRUE, first - last)) \in Seq(SelectorType)
        BY <3>1, AppendProperties
      <3> QED
        BY <2>1, <3>2
    <2>2. CASE ~(first > last)
      BY <2>2
    <2> QED
      BY <2>1, <2>2
  <1>5. skipped \o <<page>> = Append(skipped, page) /\ Append(skipped, page) \in Seq(SelectorType)
    BY <1>3, <1>4, AppendIsConcat, AppendProperties
  <1>6. SelectPage(acc, entry) = [selectors |-> Append(skipped, page), prev_end |-> first + count]
    BY <1>1, <1>2, <1>3, <1>4, <1>5 DEF SelectPage
  <1>8. SelectPage(acc, entry) \in SelectState
    <2>1. first + count \in Nat
      OBVIOUS
    <2> QED
      BY <1>5, <1>6, <2>1 DEF SelectState
  <1>9. /\ SelectPage(acc, entry).prev_end = entry.first_row_index + entry.row_count
        /\ SelectPage(acc, entry).selectors = Append(skipped, page)
    BY <1>1, <1>6
  <1>10. /\ page = Selector(FALSE, entry.row_count)
         /\ skipped = IF entry.first_row_index > acc.prev_end
                      THEN Append(acc.selectors, Selector(TRUE, entry.first_row_index - acc.prev_end))
                      ELSE acc.selectors
    BY <1>1, <1>2, <1>3, <1>4
  <1> QED
    BY <1>3, <1>4, <1>8, <1>9, <1>10

\* The rows of a page are read after those of the pages before it.
LEMMA SelectPageReads ==
  ASSUME NEW acc \in SelectState, NEW entry \in PageEntry,
         NEW state, Reads(acc.selectors, state), state.row = acc.prev_end,
         acc.prev_end <= entry.first_row_index
  PROVE  Reads(SelectPage(acc, entry).selectors,
           [row |-> entry.first_row_index + entry.row_count,
            rows |-> state.rows \cup (entry.first_row_index..entry.first_row_index + entry.row_count - 1)])
  <1>1. PICK first \in Nat, count \in Nat, last \in Nat :
          first = entry.first_row_index /\ count = entry.row_count /\ last = acc.prev_end
    BY DEF PageEntry, SelectState
  <1>2. PICK s \in Seq(SelectorType) : s = acc.selectors
    BY DEF SelectState
  <1>3. PICK skipped \in Seq(SelectorType), page \in SelectorType :
          /\ page = Selector(FALSE, count)
          /\ skipped = IF first > last THEN Append(s, Selector(TRUE, first - last)) ELSE s
          /\ SelectPage(acc, entry).selectors = Append(skipped, page)
    BY <1>1, <1>2, SelectPageType
  <1>4. page.skip = FALSE /\ page.n = count
    BY <1>3 DEF Selector
  <1>5. Reads(s, state) /\ state.row = last /\ last <= first
    BY <1>1, <1>2
  <1>6. state \in ReadState
    BY <1>5, ReadRows
  <1>7. Reads(skipped, [row |-> first, rows |-> state.rows])
    <2>1. CASE first > last
      <3>1. PICK x : x = Selector(TRUE, first - last) /\ x \in SelectorType /\ x.skip = TRUE /\ x.n = first - last
        <4>1. first - last \in Nat
          BY <2>1
        <4> QED
          BY <4>1, SelectorIs
      <3>2. Reads(Append(s, x), ReadSelector(state, x))
        BY <1>5, <3>1, ReadMore
      <3>3. ReadSelector(state, x) = [row |-> state.row + (first - last), rows |-> state.rows]
        BY <3>1 DEF ReadSelector
      <3>4. state.row + (first - last) = first
        BY <1>5
      <3> QED
        BY <1>3, <2>1, <3>1, <3>2, <3>3, <3>4
    <2>2. CASE ~(first > last)
      <3>1. first = last /\ skipped = s
        BY <1>3, <1>5, <2>2
      <3>2. state = [row |-> first, rows |-> state.rows]
        BY <1>5, <1>6, <3>1 DEF ReadState
      <3> QED
        BY <1>5, <3>1, <3>2
    <2> QED
      BY <2>1, <2>2
  <1>8. Reads(Append(skipped, page), ReadSelector([row |-> first, rows |-> state.rows], page))
    BY <1>3, <1>7, ReadMore
  <1>9. ReadSelector([row |-> first, rows |-> state.rows], page)
          = [row |-> first + count, rows |-> state.rows \cup (first..first + count - 1)]
    BY <1>4 DEF ReadSelector
  <1> QED
    BY <1>1, <1>3, <1>8, <1>9

\* The rows of a page.
PageRows(entry) == entry.first_row_index..entry.first_row_index + entry.row_count - 1

\* Every page begins after the one before it has ended.
InTurn(entries) ==
  \A i, j \in DOMAIN entries :
    j = i + 1 => entries[i].first_row_index + entries[i].row_count <= entries[j].first_row_index

\* The fold over the pages, unfolded.
LEMMA PagesRun ==
  ASSUME NEW e \in Seq(PageEntry)
  PROVE  \E acc : Accumulates(acc, SelectState, NothingSelected, SelectStep(e), Len(e)) /\ PagesSelected(e) = acc[Len(e)]
  <1>1. PICK n \in Nat : n = Len(e) /\ DOMAIN e = 1..n /\ \A i \in 1..n : e[i] \in PageEntry
    BY LenProperties, ElementOfSeq
  <1>2. PICK base : base = NothingSelected
    OBVIOUS
  <1> DEFINE Step(h, S) == IF S = {} THEN base ELSE SelectPage(h[S \ {Max(S)}], e[Max(S)])
             c == CHOOSE h : h = [S \in SUBSET DOMAIN e |-> Step(h, S)]
  <1>a. PICK step : step = SelectStep(e) /\ step = [p \in SelectState \X (1..n) |-> SelectPage(p[1], e[p[2]])]
    BY <1>1 DEF SelectStep
  <1>3. /\ step \in [SelectState \X (1..n) -> SelectState]
        /\ \A x \in SelectState, i \in 1..n : step[<<x, i>>] = SelectPage(x, e[i])
    <2>1. \A x \in SelectState, i \in 1..n : SelectPage(x, e[i]) \in SelectState
      BY <1>1, SelectPageType
    <2> QED
      BY <1>a, <2>1
  <1>4. PagesSelected(e) = c[1..n]
    BY <1>1, <1>2 DEF PagesSelected, FoldLeft, MapThenFoldSet, NothingSelected
  <1>5. base \in SelectState
    BY <1>2, EmptySeq DEF NothingSelected, SelectState
  <1>6. PICK g \in [SUBSET (1..n) -> SelectState] : IsFold(g, base, step, n)
    BY <1>3, <1>5, FoldExists
  <1>7. \A S \in SUBSET (1..n) : S # {} => Max(S) \in 1..n /\ S \ {Max(S)} \in SUBSET (1..n)
    BY MaxOfPlaces
  <1>8. \A S \in SUBSET (1..n) : S # {} => step[<<g[S \ {Max(S)}], Max(S)>>] = SelectPage(g[S \ {Max(S)}], e[Max(S)])
    BY <1>3, <1>7
  <1>9. g = [S \in SUBSET DOMAIN e |-> Step(g, S)]
    BY <1>1, <1>6, <1>8 DEF IsFold
  <1>10. c = [S \in SUBSET DOMAIN e |-> Step(c, S)]
    BY <1>9
  <1> HIDE DEF c
  <1>11. c[{}] = base
    BY <1>10
  <1>12. FoldsIn(c, SelectState, base, step, n)
    <2>1. \A S \in SUBSET (1..n) :
            S # {} /\ c[S \ {Max(S)}] \in SelectState => c[S] = step[<<c[S \ {Max(S)}], Max(S)>>]
      BY <1>1, <1>3, <1>7, <1>10
    <2> QED
      BY <1>3, <1>5, <1>11, <2>1 DEF FoldsIn
  <1>13. PICK acc : Accumulates(acc, SelectState, base, step, n) /\ acc[n] = c[1..n]
    BY <1>12, FoldRuns
  <1> QED
    BY <1>1, <1>2, <1>a, <1>4, <1>13

\* The rows that are read are those of the pages, up to the end of the last one.
LEMMA PagesAreRead ==
  ASSUME NEW e \in Seq(PageEntry), InTurn(e)
  PROVE  \E state : /\ Reads(PagesSelected(e).selectors, state)
                    /\ state.row = PagesSelected(e).prev_end
                    /\ state.rows = UNION {PageRows(e[i]) : i \in 1..Len(e)}
                    /\ state.row = IF Len(e) = 0 THEN 0 ELSE e[Len(e)].first_row_index + e[Len(e)].row_count
  <1>1. PICK n \in Nat : n = Len(e) /\ DOMAIN e = 1..n /\ \A i \in 1..n : e[i] \in PageEntry
    BY LenProperties, ElementOfSeq
  <1>2. PICK acc : Accumulates(acc, SelectState, NothingSelected, SelectStep(e), n) /\ PagesSelected(e) = acc[n]
    BY <1>1, PagesRun
  <1>3. acc \in [0..n -> SelectState] /\ acc[0] = NothingSelected
    BY <1>2 DEF Accumulates
  <1>4. ASSUME NEW k \in 1..n PROVE acc[k - 1] \in SelectState /\ acc[k] = SelectPage(acc[k - 1], e[k])
    <2>1. k - 1 \in 0..n
      OBVIOUS
    <2>2. acc[k - 1] \in SelectState
      BY <1>3, <2>1
    <2>3. <<acc[k - 1], k>> \in SelectState \X (1..Len(e))
      BY <1>1, <2>2
    <2>4. acc[k] = SelectStep(e)[<<acc[k - 1], k>>]
      BY <1>2 DEF Accumulates
    <2> QED
      BY <2>2, <2>3, <2>4 DEF SelectStep
  <1> DEFINE Until(m) == IF m = 0 THEN 0 ELSE e[m].first_row_index + e[m].row_count
             P == {m \in Nat : m <= n =>
                     \E state : /\ Reads(acc[m].selectors, state)
                                /\ state.row = acc[m].prev_end
                                /\ state.rows = UNION {PageRows(e[i]) : i \in 1..m}
                                /\ state.row = Until(m)}
  <1>5. 0 \in P
    <2>1. acc[0].selectors = <<>> /\ acc[0].prev_end = 0
      BY <1>3 DEF NothingSelected
    <2>2. Unread.row = 0 /\ Unread.rows = {} /\ Until(0) = 0
      BY DEF Unread
    <2>3. UNION {PageRows(e[i]) : i \in 1..0} = {}
      OBVIOUS
    <2> QED
      BY <2>1, <2>2, <2>3, ReadNothing
  <1>6. ASSUME NEW m \in Nat, m \in P PROVE m + 1 \in P
    <2> SUFFICES ASSUME m + 1 <= n
                 PROVE  \E state : /\ Reads(acc[m + 1].selectors, state)
                                   /\ state.row = acc[m + 1].prev_end
                                   /\ state.rows = UNION {PageRows(e[i]) : i \in 1..m + 1}
                                   /\ state.row = Until(m + 1)
      OBVIOUS
    <2>1. PICK state : /\ Reads(acc[m].selectors, state)
                       /\ state.row = acc[m].prev_end
                       /\ state.rows = UNION {PageRows(e[i]) : i \in 1..m}
                       /\ state.row = Until(m)
      BY <1>6
    <2>2. m + 1 \in 1..n /\ (m + 1) - 1 = m
      OBVIOUS
    <2>3. acc[m] \in SelectState /\ acc[m + 1] = SelectPage(acc[m], e[m + 1])
      BY <1>4, <2>2
    <2>4. e[m + 1] \in PageEntry
      BY <1>1, <2>2
    <2>5. PICK first \in Nat, count \in Nat : first = e[m + 1].first_row_index /\ count = e[m + 1].row_count
      BY <2>4 DEF PageEntry
    <2>6. acc[m].prev_end <= first
      <3>1. CASE m = 0
        BY <2>1, <3>1
      <3>2. CASE m # 0
        <4>1. m \in DOMAIN e /\ m + 1 \in DOMAIN e
          BY <1>1, <3>2
        <4>2. e[m].first_row_index + e[m].row_count <= e[m + 1].first_row_index
          BY <4>1 DEF InTurn
        <4> QED
          BY <2>1, <2>5, <3>2, <4>2
      <3> QED
        BY <3>1, <3>2
    <2>7. Reads(acc[m + 1].selectors, [row |-> first + count, rows |-> state.rows \cup (first..first + count - 1)])
      BY <2>1, <2>3, <2>4, <2>5, <2>6, SelectPageReads
    <2>8. acc[m + 1].prev_end = first + count
      BY <2>3, <2>4, <2>5, SelectPageType
    <2>9. UNION {PageRows(e[i]) : i \in 1..m + 1} = state.rows \cup (first..first + count - 1)
      <3>1. 1..m + 1 = (1..m) \cup {m + 1}
        OBVIOUS
      <3>2. PageRows(e[m + 1]) = first..first + count - 1
        BY <2>5 DEF PageRows
      <3> QED
        BY <2>1, <3>1, <3>2
    <2>10. Until(m + 1) = first + count
      BY <2>5
    <2> QED
      BY <2>7, <2>8, <2>9, <2>10
  <1> HIDE DEF P
  <1>7. \A m \in Nat : m \in P
    BY <1>5, <1>6, Induction
  <1>8. n \in P
    BY <1>7
  <1> QED
    BY <1>1, <1>2, <1>8 DEF P

\* Pages that come in turn and fit in their row group are read, and nothing else.
LEMMA SelectionIsExact ==
  ASSUME NEW e \in Seq(PageEntry), NEW total \in Nat, InTurn(e),
         \A i \in DOMAIN e : e[i].first_row_index + e[i].row_count <= total
  PROVE  SelectedRows(build_row_selection(e, total)) = UNION {PageRows(e[i]) : i \in 1..Len(e)}
  <1>1. PICK n \in Nat : n = Len(e) /\ DOMAIN e = 1..n
    BY LenProperties
  <1>2. PICK state : /\ Reads(PagesSelected(e).selectors, state)
                     /\ state.row = PagesSelected(e).prev_end
                     /\ state.rows = UNION {PageRows(e[i]) : i \in 1..Len(e)}
    BY PagesAreRead
  <1>3. PICK pages : pages = PagesSelected(e)
    OBVIOUS
  <1>4. build_row_selection(e, total) = IF pages.prev_end < total
                                        THEN Append(pages.selectors, Selector(TRUE, total - pages.prev_end))
                                        ELSE pages.selectors
    BY <1>3 DEF build_row_selection, PagesSelected, NothingSelected
  <1>5. state \in ReadState
    BY <1>2, ReadRows
  <1>6. CASE pages.prev_end < total
    <2>1. state.row \in Nat
      BY <1>5 DEF ReadState
    <2>2. PICK k : k = total - pages.prev_end /\ k \in Nat
      BY <1>2, <1>3, <1>6, <2>1
    <2>3. PICK x : x = Selector(TRUE, k) /\ x \in SelectorType /\ x.skip = TRUE
      BY <2>2, SelectorIs
    <2>4. Reads(Append(pages.selectors, x), ReadSelector(state, x))
      BY <1>2, <1>3, <2>3, ReadMore
    <2>5. ReadSelector(state, x).rows = state.rows
      BY <2>3 DEF ReadSelector
    <2>6. build_row_selection(e, total) = Append(pages.selectors, x)
      BY <1>4, <1>6, <2>2, <2>3
    <2> QED
      BY <1>2, <2>4, <2>5, <2>6, ReadRows
  <1>7. CASE ~(pages.prev_end < total)
    BY <1>2, <1>3, <1>4, <1>7, ReadRows
  <1> QED
    BY <1>6, <1>7

-----------------------------------------------------------------------------
(***************************************************************************)
(* evaluate_segment: the pages of a segment that a query may find rows on. *)
(***************************************************************************)
QueryType == [column : Columns, terms : Seq(Terms), operator : {"and", "or"}]

HasLists(segment) ==
  /\ \A t \in DOMAIN segment.postings : SortedList(segment.postings[t])
  /\ segment.doc_frequency \in [DOMAIN segment.postings -> Nat]

\* Two lists, combined by the operator of the query.
Both(operator, A, B) == IF operator = "and" THEN A \cap B ELSE A \cup B

LEMMA CombineIsExact ==
  ASSUME NEW operator \in {"and", "or"}, NEW a, SortedList(a), NEW b, SortedList(b)
  PROVE  /\ SortedList(combine(operator, a, b))
         /\ ToSet(combine(operator, a, b)) = Both(operator, ToSet(a), ToSet(b))
  <1>1. ASSUME NEW pushed
        PROVE  /\ SortedList(Merge(a, b, pushed, "less" \in pushed, "greater" \in pushed))
               /\ ToSet(Merge(a, b, pushed, "less" \in pushed, "greater" \in pushed)) = Kept(ToSet(a), ToSet(b), pushed)
    BY MergeIsExact
  <1>2. CASE operator = "and"
    <2>1. ~("less" \in {"equal"}) /\ ~("greater" \in {"equal"}) /\ "equal" \in {"equal"}
      OBVIOUS
    <2>2. Kept(ToSet(a), ToSet(b), {"equal"}) = ToSet(a) \cap ToSet(b)
      BY <2>1 DEF Kept
    <2>3. intersect(a, b) = Merge(a, b, {"equal"}, "less" \in {"equal"}, "greater" \in {"equal"})
      <3>1. ("less" \in {"equal"}) = FALSE /\ ("greater" \in {"equal"}) = FALSE
        BY <2>1
      <3> QED
        BY <3>1, Zenon DEF intersect
    <2> QED
      BY <1>1, <1>2, <2>2, <2>3 DEF combine, Both
  <1>3. CASE operator = "or"
    <2> DEFINE all == {"less", "equal", "greater"}
    <2>1. "less" \in all /\ "greater" \in all /\ "equal" \in all
      OBVIOUS
    <2>2. union(a, b) = Merge(a, b, all, "less" \in all, "greater" \in all)
      BY <2>1 DEF union
    <2> HIDE DEF all
    <2>3. Kept(ToSet(a), ToSet(b), all) = ToSet(a) \cup ToSet(b)
      BY <2>1 DEF Kept
    <2>4. operator # "and"
      BY <1>3
    <2> QED
      BY <1>1, <2>2, <2>3, <2>4 DEF combine, Both
  <1> QED
    BY <1>2, <1>3

\* swap_remove(0): the others remain, in whichever order.
LEMMA SwapRemoves ==
  ASSUME NEW T, NEW e \in Seq(T), e # <<>>
  PROVE  /\ SwapRemoveFirst(e) \in Seq(T) /\ Head(e) = e[1] /\ e[1] \in T
         /\ ToSet(e) = {e[1]} \cup ToSet(SwapRemoveFirst(e))
  <1>1. PICK n \in Nat : n = Len(e) /\ n # 0 /\ DOMAIN e = 1..n /\ \A k \in 1..n : e[k] \in T
    BY LenProperties, ElementOfSeq, EmptySeq
  <1>2. ToSet(e) = {e[k] : k \in 1..n} /\ 1 \in 1..n /\ Head(e) = e[1]
    BY <1>1 DEF ToSet
  <1>3. CASE n = 1
    <2>1. SwapRemoveFirst(e) = <<>> /\ ToSet(<<>>) = {} /\ <<>> \in Seq(T)
      BY <1>1, <1>3, EmptySeq, EmptyList DEF SwapRemoveFirst
    <2>2. 1..n = {1}
      BY <1>3
    <2> QED
      BY <1>1, <1>2, <2>1, <2>2
  <1>4. CASE n # 1
    <2>1. PICK m \in Nat : m = n - 2
      BY <1>1, <1>4
    <2>2. PICK mid : mid = SubSeq(e, 2, n - 1) /\ mid \in Seq(T) /\ Len(mid) = m /\ \A k \in 1..m : mid[k] = e[k + 1]
      <3>1. 2 \in 1..n + 1 /\ n - 1 \in 1..n
        BY <1>1, <1>4
      <3>2. \A k \in 2..n - 1 : k \in 1..n
        OBVIOUS
      <3>3. SubSeq(e, 2, n - 1) \in Seq(T) /\ Len(SubSeq(e, 2, n - 1)) = IF 2 <= n - 1 THEN n - 1 - 2 + 1 ELSE 0
        BY <1>1, <3>1, <3>2, SubSeqProperties
      <3>4. \A k \in 1..n - 1 - 2 + 1 : SubSeq(e, 2, n - 1)[k] = e[2 + k - 1]
        BY <1>1, <3>1, <3>2, SubSeqProperties
      <3>5. (IF 2 <= n - 1 THEN n - 1 - 2 + 1 ELSE 0) = m /\ n - 1 - 2 + 1 = m
        BY <1>1, <1>4, <2>1
      <3>6. \A k \in 1..m : 2 + k - 1 = k + 1
        OBVIOUS
      <3> QED
        BY <3>3, <3>4, <3>5, <3>6
    <2>3. PICK s : /\ s = SwapRemoveFirst(e) /\ s = <<Last(e)>> \o mid /\ Last(e) = e[n]
      BY <1>1, <1>4, <2>2 DEF SwapRemoveFirst, Last
    <2>4. n \in 1..n /\ e[n] \in T
      BY <1>1
    <2>5. s \in Seq(T) /\ Len(s) = m + 1 /\ s[1] = e[n] /\ \A k \in 1..m : s[k + 1] = e[k + 1]
      BY <2>2, <2>3, <2>4
    <2>6. DOMAIN s = 1..m + 1
      BY <2>5, LenProperties
    <2>7. ToSet(s) = {s[k] : k \in 1..m + 1}
      BY <2>6 DEF ToSet
    <2>8. ASSUME NEW k \in 1..n, k # 1 PROVE e[k] \in ToSet(s)
      <3>1. CASE k = n
        <4>1. 1 \in 1..m + 1
          OBVIOUS
        <4> QED
          BY <2>5, <2>7, <3>1, <4>1
      <3>2. CASE k # n
        <4>1. k - 1 \in 1..m /\ k \in 1..m + 1 /\ k - 1 + 1 = k
          BY <2>1, <2>8, <3>2
        <4>2. s[k] = e[k]
          BY <2>5, <4>1
        <4> QED
          BY <2>7, <4>1, <4>2
      <3> QED
        BY <3>1, <3>2
    <2>9. ASSUME NEW k \in 1..m + 1 PROVE s[k] \in ToSet(e)
      <3>1. CASE k = 1
        BY <1>2, <2>4, <2>5, <3>1
      <3>2. CASE k # 1
        <4>1. k - 1 \in 1..m /\ k - 1 + 1 = k /\ k \in 1..n
          BY <2>1, <3>2
        <4> QED
          BY <1>2, <2>5, <4>1
      <3> QED
        BY <3>1, <3>2
    <2>10. ToSet(s) \subseteq ToSet(e) /\ ToSet(e) \subseteq {e[1]} \cup ToSet(s)
      BY <1>2, <2>7, <2>8, <2>9
    <2> QED
      BY <1>1, <1>2, <2>3, <2>5, <2>10
  <1> QED
    BY <1>3, <1>4

\* The posting lists of some terms, combined.
Lists(segment, query, entries) ==
  FoldLeft(LAMBDA docs, t : combine(query.operator, docs, segment.postings[t]),
           segment.postings[Head(entries)], SwapRemoveFirst(entries))

SortedLists == {docs \in Seq(Nat) : SortedList(docs)}
CombineStep(segment, query, s) ==
  [p \in SortedLists \X (1..Len(s)) |-> combine(query.operator, p[1], segment.postings[s[p[2]]])]

\* The fold over the posting lists, unfolded.
LEMMA ListsRun ==
  ASSUME NEW segment, HasLists(segment), NEW query \in QueryType,
         NEW e \in Seq(DOMAIN segment.postings), e # <<>>, NEW s, s = SwapRemoveFirst(e)
  PROVE  \E acc : /\ Accumulates(acc, SortedLists, segment.postings[e[1]], CombineStep(segment, query, s), Len(s))
                  /\ Lists(segment, query, e) = acc[Len(s)]
  <1>0. s \in Seq(DOMAIN segment.postings) /\ Head(e) = e[1] /\ e[1] \in DOMAIN segment.postings
    BY SwapRemoves
  <1>1. PICK n \in Nat : n = Len(s) /\ DOMAIN s = 1..n /\ \A i \in 1..n : s[i] \in DOMAIN segment.postings
    BY <1>0, LenProperties, ElementOfSeq
  <1>2. PICK base : base = segment.postings[Head(e)] /\ base = segment.postings[e[1]]
    BY <1>0
  <1>b. query.operator \in {"and", "or"}
    BY DEF QueryType
  <1>c. \A i \in 1..n : SortedList(segment.postings[s[i]])
    BY <1>1 DEF HasLists
  <1> DEFINE Op(docs, i) == combine(query.operator, docs, segment.postings[s[i]])
             Step(h, S) == IF S = {} THEN base ELSE Op(h[S \ {Max(S)}], Max(S))
             c == CHOOSE h : h = [S \in SUBSET DOMAIN s |-> Step(h, S)]
  <1>a. PICK step : step = CombineStep(segment, query, s) /\ step = [p \in SortedLists \X (1..n) |-> Op(p[1], p[2])]
    BY <1>1 DEF CombineStep
  <1>d. \A x \in SortedLists, i \in 1..n : Op(x, i) \in SortedLists
    <2>1. ASSUME NEW x \in SortedLists, NEW i \in 1..n PROVE SortedList(Op(x, i))
      BY <1>b, <1>c, CombineIsExact DEF SortedLists
    <2> HIDE DEF Op
    <2> QED
      BY <2>1 DEF SortedLists, SortedList
  <1>4. Lists(segment, query, e) = c[1..n]
    BY <1>1, <1>2 DEF Lists, FoldLeft, MapThenFoldSet
  <1> HIDE DEF Op
  <1>3. /\ step \in [SortedLists \X (1..n) -> SortedLists]
        /\ \A x \in SortedLists, i \in 1..n : step[<<x, i>>] = Op(x, i)
    BY <1>a, <1>d
  <1>5. base \in SortedLists
    BY <1>0, <1>2 DEF HasLists, SortedLists, SortedList
  <1>6. PICK g \in [SUBSET (1..n) -> SortedLists] : IsFold(g, base, step, n)
    BY <1>3, <1>5, FoldExists
  <1>7. \A S \in SUBSET (1..n) : S # {} => Max(S) \in 1..n /\ S \ {Max(S)} \in SUBSET (1..n)
    BY MaxOfPlaces
  <1>8. \A S \in SUBSET (1..n) : S # {} => step[<<g[S \ {Max(S)}], Max(S)>>] = Op(g[S \ {Max(S)}], Max(S))
    BY <1>3, <1>7
  <1>9. g = [S \in SUBSET DOMAIN s |-> Step(g, S)]
    BY <1>1, <1>6, <1>8 DEF IsFold
  <1>10. c = [S \in SUBSET DOMAIN s |-> Step(c, S)]
    BY <1>9
  <1> HIDE DEF c
  <1>11. c[{}] = base
    BY <1>10
  <1>12. FoldsIn(c, SortedLists, base, step, n)
    <2>1. \A S \in SUBSET (1..n) :
            S # {} /\ c[S \ {Max(S)}] \in SortedLists => c[S] = step[<<c[S \ {Max(S)}], Max(S)>>]
      BY <1>1, <1>3, <1>7, <1>10
    <2> QED
      BY <1>3, <1>5, <1>11, <2>1 DEF FoldsIn
  <1>13. PICK acc : Accumulates(acc, SortedLists, base, step, n) /\ acc[n] = c[1..n]
    BY <1>12, FoldRuns
  <1> QED
    BY <1>1, <1>2, <1>a, <1>4, <1>13

\* What the lists of some terms have in common, or what any of them has.
Matched(segment, query, T) ==
  {d \in UNION {ToSet(segment.postings[t]) : t \in T} :
     query.operator = "and" => \A t \in T : d \in ToSet(segment.postings[t])}

\* The lists of some terms, combined one after another.
LEMMA ListsCombine ==
  ASSUME NEW segment, HasLists(segment), NEW query \in QueryType,
         NEW e \in Seq(DOMAIN segment.postings), e # <<>>
  PROVE  /\ SortedList(Lists(segment, query, e))
         /\ ToSet(Lists(segment, query, e)) = Matched(segment, query, ToSet(e))
  <1>1. PICK s : s = SwapRemoveFirst(e)
    OBVIOUS
  <1>2. /\ s \in Seq(DOMAIN segment.postings) /\ e[1] \in DOMAIN segment.postings
        /\ ToSet(e) = {e[1]} \cup ToSet(s)
    BY <1>1, SwapRemoves
  <1>3. PICK n \in Nat : n = Len(s) /\ DOMAIN s = 1..n /\ \A i \in 1..n : s[i] \in DOMAIN segment.postings
    BY <1>2, LenProperties, ElementOfSeq
  <1>4. PICK acc : /\ Accumulates(acc, SortedLists, segment.postings[e[1]], CombineStep(segment, query, s), n)
                   /\ Lists(segment, query, e) = acc[n]
    BY <1>1, <1>3, ListsRun
  <1>5. acc \in [0..n -> SortedLists] /\ acc[0] = segment.postings[e[1]]
    BY <1>4 DEF Accumulates
  <1>6. ASSUME NEW k \in 1..n
        PROVE  /\ acc[k - 1] \in SortedLists
               /\ acc[k] = combine(query.operator, acc[k - 1], segment.postings[s[k]])
    <2>1. k - 1 \in 0..n
      OBVIOUS
    <2>2. acc[k - 1] \in SortedLists
      BY <1>5, <2>1
    <2>3. <<acc[k - 1], k>> \in SortedLists \X (1..Len(s))
      BY <1>3, <2>2
    <2>4. acc[k] = CombineStep(segment, query, s)[<<acc[k - 1], k>>]
      BY <1>4 DEF Accumulates
    <2> QED
      BY <2>2, <2>3, <2>4 DEF CombineStep
  <1> DEFINE Until(m) == {e[1]} \cup {s[i] : i \in 1..m}
             P == {m \in Nat : m <= n => ToSet(acc[m]) = Matched(segment, query, Until(m))}
  <1>7. 0 \in P
    <2>1. Until(0) = {e[1]}
      OBVIOUS
    <2>2. Matched(segment, query, {e[1]}) = ToSet(segment.postings[e[1]])
      BY DEF Matched
    <2> QED
      BY <1>5, <2>1, <2>2
  <1>8. ASSUME NEW m \in Nat, m \in P PROVE m + 1 \in P
    <2> SUFFICES ASSUME m + 1 <= n PROVE ToSet(acc[m + 1]) = Matched(segment, query, Until(m + 1))
      OBVIOUS
    <2>1. PICK k \in 1..n : k = m + 1 /\ k - 1 = m
      OBVIOUS
    <2>2. acc[m] \in SortedLists /\ acc[k] = combine(query.operator, acc[m], segment.postings[s[k]])
      BY <1>6, <2>1
    <2>3. SortedList(acc[m]) /\ SortedList(segment.postings[s[k]])
      BY <1>3, <2>2 DEF SortedLists, HasLists
    <2>4. query.operator \in {"and", "or"}
      BY DEF QueryType
    <2>5. ToSet(acc[k]) = Both(query.operator, ToSet(acc[m]), ToSet(segment.postings[s[k]]))
      BY <2>2, <2>3, <2>4, CombineIsExact
    <2>6. ToSet(acc[m]) = Matched(segment, query, Until(m))
      BY <1>8, <2>1
    <2>7. Until(m + 1) = Until(m) \cup {s[k]} /\ e[1] \in Until(m)
      BY <2>1
    <2> HIDE DEF Until
    <2>8. PICK T, t : T = Until(m) /\ t = s[k] /\ T # {} /\ Until(m + 1) = T \cup {t}
      BY <2>7
    <2>9. Matched(segment, query, T \cup {t})
            = Both(query.operator, Matched(segment, query, T), ToSet(segment.postings[t]))
      <3>1. CASE query.operator = "and"
        BY <2>8, <3>1 DEF Matched, Both
      <3>2. CASE query.operator # "and"
        BY <2>8, <3>2 DEF Matched, Both
      <3> QED
        BY <3>1, <3>2
    <2> QED
      BY <2>1, <2>5, <2>6, <2>8, <2>9
  <1> HIDE DEF P
  <1>9. \A m \in Nat : m \in P
    BY <1>7, <1>8, Induction
  <1>10. n \in P
    BY <1>9
  <1>11. Until(n) = ToSet(e)
    BY <1>2, <1>3 DEF ToSet
  <1>12. SortedList(acc[n])
    BY <1>5 DEF SortedLists
  <1>13. ToSet(acc[n]) = Matched(segment, query, Until(n))
    BY <1>10 DEF P
  <1>14. ToSet(acc[n]) = Matched(segment, query, ToSet(e))
    BY <1>11, <1>13
  <1> QED
    BY <1>4, <1>12, <1>14

\* The terms of a query that a segment knows.
LEMMA KnownTermsAre ==
  ASSUME NEW segment, HasLists(segment), NEW query \in QueryType
  PROVE  /\ KnownTerms(segment, query) \in Seq(DOMAIN segment.postings)
         /\ ToSet(KnownTerms(segment, query)) = QueryTerms(query) \cap DOMAIN segment.postings
         /\ Len(KnownTerms(segment, query)) < Len(query.terms) <=> ~(QueryTerms(query) \subseteq DOMAIN segment.postings)
  <1>a. PICK terms : terms = query.terms /\ terms \in Seq(Terms)
    BY DEF QueryType
  <1>1. PICK n \in Nat : terms = query.terms /\ terms \in Seq(Terms) /\ n = Len(terms) /\ DOMAIN terms = 1..n
    BY <1>a, LenProperties
  <1>2. PICK places : places = {k \in DOMAIN terms : terms[k] \in DOMAIN segment.postings}
    OBVIOUS
  <1>3. PICK known : known = KnownTerms(segment, query) /\ known = Chosen(terms, places)
    BY <1>1, <1>2 DEF KnownTerms
  <1>4. places \in SUBSET DOMAIN terms
    BY <1>2
  <1>5. /\ IsFiniteSet(places) /\ Cardinality(places) \in Nat /\ known \in Seq(Terms) /\ Len(known) = Cardinality(places)
        /\ ToSet(known) = {terms[k] : k \in places}
    BY <1>1, <1>3, <1>4, ChosenIsExact
  <1>6. ToSet(known) = QueryTerms(query) \cap DOMAIN segment.postings
    BY <1>1, <1>2, <1>5 DEF QueryTerms, ToSet
  <1>7. known \in Seq(DOMAIN segment.postings)
    <2>1. PICK m \in Nat : m = Len(known) /\ DOMAIN known = 1..m /\ known = [k \in 1..m |-> known[k]]
      BY <1>5, LenProperties
    <2>2. \A k \in 1..m : known[k] \in DOMAIN segment.postings
      BY <1>6, <2>1 DEF ToSet
    <2>3. known \in [1..m -> DOMAIN segment.postings]
      BY <2>1, <2>2
    <2> QED
      BY <2>3, FunctionIsSequence
  <1>8. IsFiniteSet(1..n) /\ Cardinality(1..n) = n
    BY FS_Interval
  <1>9. places = 1..n <=> QueryTerms(query) \subseteq DOMAIN segment.postings
    BY <1>1, <1>2 DEF QueryTerms, ToSet
  <1>10. Cardinality(places) <= n /\ (Cardinality(places) = n <=> places = 1..n)
    BY <1>1, <1>4, <1>8, FS_Subset
  <1> QED
    BY <1>1, <1>3, <1>5, <1>6, <1>7, <1>9, <1>10

\* The sort by frequency keeps the terms.
LEMMA ByFrequencyIsExact ==
  ASSUME NEW segment, HasLists(segment), NEW terms \in Seq(DOMAIN segment.postings)
  PROVE  /\ ByFrequency(segment, terms) \in Seq(DOMAIN segment.postings)
         /\ ToSet(ByFrequency(segment, terms)) = ToSet(terms)
  <1>1. PICK n \in Nat : n = Len(terms) /\ DOMAIN terms = 1..n /\ \A k \in 1..n : terms[k] \in DOMAIN segment.postings
    BY LenProperties, ElementOfSeq
  <1>2. PICK freq : freq = [i \in 1..n |-> segment.doc_frequency[terms[i]]]
    OBVIOUS
  <1>3. \A i \in 1..n : freq[i] \in Nat
    BY <1>1, <1>2 DEF HasLists
  <1>4. PICK before : before = {p \in (1..n) \X (1..n) : \/ freq[p[1]] < freq[p[2]]
                                                         \/ freq[p[1]] = freq[p[2]] /\ p[1] < p[2]}
    OBVIOUS
  <1>5. \A i, j \in 1..n : <<i, j>> \in before <=> \/ freq[i] < freq[j]
                                                   \/ freq[i] = freq[j] /\ i < j
    BY <1>4
  <1>6. StrictOrder(1..n, before)
    <2>1. \A i \in 1..n : <<i, i>> \notin before
      BY <1>3, <1>5
    <2>2. ASSUME NEW i \in 1..n, NEW j \in 1..n, NEW k \in 1..n, <<i, j>> \in before, <<j, k>> \in before
          PROVE  <<i, k>> \in before
      BY <1>3, <1>5, <2>2
    <2>3. ASSUME NEW i \in 1..n, NEW j \in 1..n, i # j
          PROVE  <<i, j>> \in before \/ <<j, i>> \in before
      BY <1>3, <1>5, <2>3
    <2> QED
      BY <2>1, <2>2, <2>3 DEF StrictOrder
  <1>7. IsFiniteSet(1..n)
    BY FS_Interval
  <1>8. PICK sorted : sorted = InOrder(1..n, before) /\ Once(sorted, 1..n)
    BY <1>6, <1>7, InOrderIsExact
  <1>9. PICK m \in Nat : m = Len(sorted) /\ DOMAIN sorted = 1..m
    BY <1>8, OnceCounts
  <1>10. ByFrequency(segment, terms) = [k \in 1..m |-> terms[sorted[k]]]
    <2>1. before = {p \in (1..n) \X (1..n) :
                      \/ segment.doc_frequency[terms[p[1]]] < segment.doc_frequency[terms[p[2]]]
                      \/ segment.doc_frequency[terms[p[1]]] = segment.doc_frequency[terms[p[2]]] /\ p[1] < p[2]}
      BY <1>2, <1>4
    <2> QED
      BY <1>1, <1>8, <1>9, <2>1 DEF ByFrequency
  <1>11. \A k \in 1..m : sorted[k] \in 1..n
    BY <1>8, <1>9, ElementOfSeq DEF Once
  <1>12. PICK s : s = ByFrequency(segment, terms) /\ s = [k \in 1..m |-> terms[sorted[k]]]
    BY <1>10
  <1>13. s \in [1..m -> DOMAIN segment.postings]
    BY <1>1, <1>11, <1>12
  <1>14. ToSet(s) = {terms[sorted[k]] : k \in 1..m}
    BY <1>12 DEF ToSet
  <1>15. {sorted[k] : k \in 1..m} = 1..n
    BY <1>8, <1>9 DEF Once, ToSet
  <1>16. ToSet(s) = ToSet(terms)
    <2>1. ToSet(terms) = {terms[i] : i \in 1..n}
      BY <1>1 DEF ToSet
    <2>2. \A k \in 1..m : terms[sorted[k]] \in ToSet(terms)
      BY <1>11, <2>1
    <2>3. \A i \in 1..n : \E k \in 1..m : sorted[k] = i
      BY <1>15
    <2>4. \A i \in 1..n : terms[i] \in ToSet(s)
      BY <1>14, <2>3
    <2> QED
      BY <1>14, <2>1, <2>2, <2>4
  <1> QED
    BY <1>12, <1>13, <1>16, FunctionIsSequence

\* The pages that may have rows for the query: an AND needs all of its terms.
Candidates(segment, query, d) ==
  /\ query.terms # <<>>
  /\ LET Posted(t) == t \in DOMAIN segment.postings /\ d \in ToSet(segment.postings[t])
     IN IF query.operator = "and" THEN \A t \in QueryTerms(query) : Posted(t)
                                  ELSE \E t \in QueryTerms(query) : Posted(t)

\* evaluate_segment, of any number of terms, repeated or not.
LEMMA EvaluateIsExact ==
  ASSUME NEW segment, HasLists(segment), NEW query \in QueryType
  PROVE  /\ SortedList(evaluate_segment(segment, query))
         /\ \A d : d \in ToSet(evaluate_segment(segment, query)) <=> Candidates(segment, query, d)
  <1>1. PICK known : known = KnownTerms(segment, query)
    OBVIOUS
  <1>2. /\ known \in Seq(DOMAIN segment.postings)
        /\ ToSet(known) = QueryTerms(query) \cap DOMAIN segment.postings
        /\ MissesTerm(segment, query) <=> query.operator = "and" /\ ~(QueryTerms(query) \subseteq DOMAIN segment.postings)
    BY <1>1, KnownTermsAre DEF MissesTerm
  <1>3. known = <<>> <=> ToSet(known) = {}
    <2>1. PICK n \in Nat : n = Len(known) /\ DOMAIN known = 1..n
      BY <1>2, LenProperties
    <2>2. ToSet(known) = {known[k] : k \in 1..n}
      BY <2>1 DEF ToSet
    <2>3. CASE n = 0
      BY <1>2, <2>1, <2>2, <2>3, EmptySeq
    <2>4. CASE n # 0
      <3>1. 1 \in 1..n /\ known # <<>>
        BY <2>1, <2>4, EmptySeq
      <3> QED
        BY <2>2, <3>1
    <2> QED
      BY <2>3, <2>4
  <1>4. PICK terms : terms = query.terms /\ terms \in Seq(Terms) /\ QueryTerms(query) = ToSet(terms)
    BY DEF QueryType, QueryTerms
  <1>5. terms = <<>> => QueryTerms(query) = {}
    BY <1>4, EmptyList
  <1>6. PICK e : e = IF query.operator = "and" THEN ByFrequency(segment, known) ELSE known
    OBVIOUS
  <1>7. e \in Seq(DOMAIN segment.postings) /\ ToSet(e) = ToSet(known)
    BY <1>2, <1>6, ByFrequencyIsExact
  <1>8. evaluate_segment(segment, query)
          = IF known = <<>> \/ MissesTerm(segment, query) THEN <<>> ELSE Lists(segment, query, e)
    BY <1>1, <1>6 DEF evaluate_segment, Lists
  <1>9. CASE known = <<>> \/ MissesTerm(segment, query)
    <2>1. evaluate_segment(segment, query) = <<>>
      BY <1>8, <1>9
    <2>2. ASSUME NEW d PROVE ~Candidates(segment, query, d)
      <3>1. CASE MissesTerm(segment, query)
        BY <1>2, <3>1 DEF Candidates
      <3>2. CASE known = <<>>
        <4>1. QueryTerms(query) \cap DOMAIN segment.postings = {}
          BY <1>2, <1>3, <3>2
        <4>2. terms # <<>> => \E t \in QueryTerms(query) : TRUE
          <5>1. PICK n \in Nat : n = Len(terms) /\ DOMAIN terms = 1..n
            BY <1>4, LenProperties
          <5>2. terms # <<>> => 1 \in 1..n
            BY <1>4, <5>1, EmptySeq
          <5> QED
            BY <1>4, <5>1, <5>2 DEF ToSet
        <4> QED
          BY <1>4, <4>1, <4>2 DEF Candidates
      <3> QED
        BY <1>9, <3>1, <3>2
    <2> QED
      BY <2>1, <2>2, EmptyList
  <1>10. CASE ~(known = <<>> \/ MissesTerm(segment, query))
    <2>1. e # <<>>
      BY <1>3, <1>7, <1>10, EmptyList
    <2>2. PICK docs : docs = evaluate_segment(segment, query) /\ docs = Lists(segment, query, e)
      BY <1>8, <1>10
    <2>3. SortedList(docs) /\ ToSet(docs) = Matched(segment, query, ToSet(e))
      BY <1>7, <2>1, <2>2, ListsCombine
    <2>4. PICK T : T = ToSet(e) /\ T = QueryTerms(query) \cap DOMAIN segment.postings /\ T # {}
      BY <1>2, <1>3, <1>7, <1>10
    <2>5. terms # <<>>
      BY <1>5, <2>4
    <2>6. ASSUME NEW d PROVE d \in Matched(segment, query, T) <=> Candidates(segment, query, d)
      <3>1. CASE query.operator = "and"
        <4>1. T = QueryTerms(query) /\ T \subseteq DOMAIN segment.postings
          BY <1>2, <1>10, <2>4, <3>1
        <4> QED
          BY <1>4, <2>4, <2>5, <3>1, <4>1 DEF Matched, Candidates
      <3>2. CASE query.operator # "and"
        BY <1>4, <2>4, <2>5, <3>2 DEF Matched, Candidates
      <3> QED
        BY <3>1, <3>2
    <2> QED
      BY <2>2, <2>3, <2>4, <2>6
  <1> QED
    BY <1>9, <1>10

-----------------------------------------------------------------------------
(***************************************************************************)
(* group_candidates: the pages of each row group, in the order of their    *)
(* rows.                                                                   *)
(***************************************************************************)
PagesOfKey(inventory, docs, key) ==
  {d \in docs : inventory[d].file_ordinal = key[1] /\ inventory[d].row_group = key[2]}
EntriesOf(inventory, pages) == {inventory[d] : d \in pages}

\* Pages with rows, none of which is on two pages.
Apart(inventory, docs) ==
  /\ \A d \in docs : inventory[d].row_count # 0
  /\ \A d, e \in docs :
       \/ d = e
       \/ inventory[d].first_row_index + inventory[d].row_count <= inventory[e].first_row_index
       \/ inventory[e].first_row_index + inventory[e].row_count <= inventory[d].first_row_index

\* The pages of one row group, in turn.
LEMMA EntriesAreExact ==
  ASSUME NEW segment, NEW inventory, inventory = segment.doc_table, inventory \in Seq(PageEntry),
         NEW candidates, SortedList(candidates), ToSet(candidates) \subseteq DOMAIN inventory,
         NEW key, Apart(inventory, PagesOfKey(inventory, ToSet(candidates), key))
  PROVE  /\ Entries(segment, candidates, key) \in Seq(PageEntry)
         /\ InTurn(Entries(segment, candidates, key))
         /\ ToSet(Entries(segment, candidates, key)) =
              EntriesOf(inventory, PagesOfKey(inventory, ToSet(candidates), key))
  <1>1. PICK n \in Nat : n = Len(candidates) /\ DOMAIN candidates = 1..n /\ \A k \in 1..n : candidates[k] \in Nat
    BY LenProperties, ElementOfSeq DEF SortedList
  <1>2. PICK D : D = PagesOfKey(inventory, ToSet(candidates), key) /\ Apart(inventory, D)
    OBVIOUS
  <1>3. PICK page : page = [k \in 1..n |-> inventory[candidates[k]]]
    OBVIOUS
  <1>4. \A k \in 1..n : candidates[k] \in DOMAIN inventory /\ page[k] = inventory[candidates[k]] /\ page[k] \in PageEntry
    BY <1>1, <1>3, ElementOfSeq, LenProperties DEF ToSet
  <1>5. PICK places : places = {k \in 1..n : page[k].file_ordinal = key[1] /\ page[k].row_group = key[2]}
    OBVIOUS
  <1>6. places \subseteq 1..n /\ D = {candidates[k] : k \in places}
    <2>1. ToSet(candidates) = {candidates[k] : k \in 1..n}
      BY <1>1 DEF ToSet
    <2>2. D = {d \in ToSet(candidates) : inventory[d].file_ordinal = key[1] /\ inventory[d].row_group = key[2]}
      BY <1>2 DEF PagesOfKey
    <2>3. \A k \in 1..n : page[k] = inventory[candidates[k]]
      BY <1>4
    <2>4. \A k \in 1..n : k \in places <=> candidates[k] \in D
      BY ONLY <1>5, <2>1, <2>2, <2>3
    <2>5. D \subseteq {candidates[k] : k \in 1..n}
      BY <2>1, <2>2
    <2>6. places \subseteq 1..n
      BY <1>5
    <2>7. D = {candidates[k] : k \in places}
      BY ONLY <2>4, <2>5, <2>6
    <2> QED
      BY <2>6, <2>7
  <1>7. \A i, j \in 1..n : i # j => candidates[i] # candidates[j]
    <2>1. \A i, j \in 1..n : i < j => candidates[i] < candidates[j]
      BY <1>1 DEF SortedList, IsSortedSet
    <2>2. ASSUME NEW i \in 1..n, NEW j \in 1..n, i # j PROVE candidates[i] # candidates[j]
      <3>1. i < j \/ j < i
        BY <2>2
      <3>2. candidates[i] \in Nat /\ candidates[j] \in Nat
        BY <1>1
      <3> QED
        BY <2>1, <3>1, <3>2
    <2> QED
      BY <2>2
  <1>8. \A k \in 1..n : page[k].first_row_index \in Nat /\ page[k].row_count \in Nat
    BY <1>4 DEF PageEntry
  <1>9. ASSUME NEW i \in places, NEW j \in places
        PROVE  /\ page[i].row_count # 0
               /\ \/ i = j
                  \/ page[i].first_row_index + page[i].row_count <= page[j].first_row_index
                  \/ page[j].first_row_index + page[j].row_count <= page[i].first_row_index
    <2>1. i \in 1..n /\ j \in 1..n /\ candidates[i] \in D /\ candidates[j] \in D
      BY <1>6
    <2>2. page[i] = inventory[candidates[i]] /\ page[j] = inventory[candidates[j]]
      BY <1>4, <2>1
    <2> QED
      BY <1>2, <1>7, <2>1, <2>2 DEF Apart
  <1>10. ASSUME NEW i \in places, NEW j \in places, page[i].first_row_index < page[j].first_row_index
         PROVE  page[i].first_row_index + page[i].row_count <= page[j].first_row_index
    <2>1. i \in 1..n /\ j \in 1..n
      BY <1>6
    <2>2. /\ page[i].first_row_index \in Nat /\ page[i].row_count \in Nat
          /\ page[j].first_row_index \in Nat /\ page[j].row_count \in Nat
      BY <1>8, <2>1
    <2>3. \/ page[i].first_row_index + page[i].row_count <= page[j].first_row_index
          \/ page[j].first_row_index + page[j].row_count <= page[i].first_row_index
      <3>1. i # j
        BY <1>10, <2>2
      <3> QED
        BY <1>9, <3>1
    <2> QED
      BY <1>10, <2>2, <2>3
  <1>11. ASSUME NEW i \in places, NEW j \in places, page[i].first_row_index = page[j].first_row_index
         PROVE  i = j
    BY <1>6, <1>8, <1>9, <1>11
  <1>12. PICK before : before = {p \in places \X places : page[p[1]].first_row_index < page[p[2]].first_row_index}
    OBVIOUS
  <1>13. StrictOrder(places, before)
    <2>1. \A i, j \in places : <<i, j>> \in before <=> page[i].first_row_index < page[j].first_row_index
      BY <1>12
    <2>2. \A i \in places : page[i].first_row_index \in Nat
      BY <1>6, <1>8
    <2>3. \A i \in places : <<i, i>> \notin before
      BY <2>1, <2>2
    <2>4. ASSUME NEW i \in places, NEW j \in places, NEW k \in places, <<i, j>> \in before, <<j, k>> \in before
          PROVE  <<i, k>> \in before
      BY <2>1, <2>2, <2>4
    <2>5. ASSUME NEW i \in places, NEW j \in places, i # j PROVE <<i, j>> \in before \/ <<j, i>> \in before
      BY <1>11, <2>1, <2>2, <2>5
    <2> QED
      BY <2>3, <2>4, <2>5 DEF StrictOrder
  <1>a. IsFiniteSet(1..n)
    BY FS_Interval
  <1>14. IsFiniteSet(places)
    BY <1>6, <1>a, FS_Subset
  <1>15. PICK sorted : /\ sorted = InOrder(places, before) /\ Once(sorted, places)
                       /\ \A i, j \in 1..Len(sorted) : i < j => <<sorted[i], sorted[j]>> \in before
    BY <1>13, <1>14, InOrderIsExact
  <1>16. PICK m \in Nat : m = Len(sorted) /\ DOMAIN sorted = 1..m /\ \A k \in 1..m : sorted[k] \in places
    BY <1>15, OnceCounts, ElementOfSeq DEF Once
  <1>17. PICK e : e = Entries(segment, candidates, key) /\ e = [k \in 1..m |-> page[sorted[k]]]
    <2> DEFINE at(k) == segment.doc_table[candidates[k]]
               all == {k \in DOMAIN candidates : at(k).file_ordinal = key[1] /\ at(k).row_group = key[2]}
               deduped == {k \in all : \A j \in all : at(j).first_row_index = at(k).first_row_index => k <= j}
               earlier == {p \in deduped \X deduped : at(p[1]).first_row_index < at(p[2]).first_row_index}
               ordered == InOrder(deduped, earlier)
    <2>1. Entries(segment, candidates, key) = [k \in DOMAIN ordered |-> at(ordered[k])]
      BY DEF Entries
    <2>2. \A k \in 1..n : at(k) = page[k]
      BY <1>4
    <2> HIDE DEF at
    <2>3. all = places
      BY <1>1, <1>5, <2>2
    <2> HIDE DEF all
    <2>4. \A k, j \in places : at(j).first_row_index = at(k).first_row_index => k <= j
      BY <1>6, <1>11, <2>2
    <2>5. deduped = places
      BY <2>3, <2>4
    <2> HIDE DEF deduped
    <2>6. earlier = before
      <3>1. \A p \in places \X places : at(p[1]) = page[p[1]] /\ at(p[2]) = page[p[2]]
        BY <1>6, <2>2
      <3> QED
        BY <1>12, <2>5, <3>1
    <2> HIDE DEF earlier
    <2>7. ordered = sorted
      BY <1>15, <2>5, <2>6
    <2> HIDE DEF ordered
    <2>8. \A k \in 1..m : at(sorted[k]) = page[sorted[k]]
      BY <1>6, <1>16, <2>2
    <2> QED
      BY <1>16, <2>1, <2>7, <2>8
  <1>18. e \in Seq(PageEntry) /\ Len(e) = m /\ DOMAIN e = 1..m
    <2>1. e \in [1..m -> PageEntry]
      BY <1>4, <1>6, <1>16, <1>17
    <2> QED
      BY <1>17, <2>1, FunctionIsSequence
  <1>19. InTurn(e)
    <2> SUFFICES ASSUME NEW i \in 1..m, NEW j \in 1..m, j = i + 1
                 PROVE  e[i].first_row_index + e[i].row_count <= e[j].first_row_index
      BY <1>18 DEF InTurn
    <2>1. <<sorted[i], sorted[j]>> \in before
      BY <1>15, <1>16
    <2>2. sorted[i] \in places /\ sorted[j] \in places /\ page[sorted[i]].first_row_index < page[sorted[j]].first_row_index
      BY <1>12, <1>16, <2>1
    <2>3. e[i] = page[sorted[i]] /\ e[j] = page[sorted[j]]
      BY <1>17
    <2> QED
      BY <1>10, <2>2, <2>3
  <1>20. ToSet(e) = {inventory[d] : d \in D}
    <2>1. ToSet(e) = {page[sorted[k]] : k \in 1..m}
      BY <1>17 DEF ToSet
    <2>2. \A i \in places : \E k \in 1..m : sorted[k] = i
      BY <1>15, <1>16 DEF Once, ToSet
    <2>3. ToSet(e) = {page[i] : i \in places}
      BY <1>16, <2>1, <2>2
    <2>4. \A i \in places : page[i] = inventory[candidates[i]]
      BY <1>4, <1>6
    <2> QED
      BY <1>6, <2>3, <2>4
  <1> QED
    BY <1>2, <1>17, <1>18, <1>19, <1>20 DEF EntriesOf

\* The row groups that the candidates are in.
KeysOf(inventory, docs) == {<<inventory[d].file_ordinal, inventory[d].row_group>> : d \in docs}

\* The pages of each row group, in the order of the files and row groups.
LEMMA GroupsAreExact ==
  ASSUME NEW segment, NEW inventory, inventory = segment.doc_table, inventory \in Seq(PageEntry),
         NEW candidates, SortedList(candidates), ToSet(candidates) \subseteq DOMAIN inventory
  PROVE  \E keys : /\ Once(keys, KeysOf(inventory, ToSet(candidates)))
                   /\ group_candidates(segment, candidates) =
                        [n \in 1..Len(keys) |->
                           [file_ordinal |-> keys[n][1], rg_idx |-> keys[n][2],
                            entries |-> Entries(segment, candidates, keys[n])]]
  <1>1. PICK D : D = ToSet(candidates) /\ IsFiniteSet(D)
    BY ElementsAreFinite DEF SortedList
  <1>2. PICK groups : groups = KeysOf(inventory, D)
    OBVIOUS
  <1>3. groups \subseteq Nat \X Nat
    <2>1. \A d \in D : inventory[d] \in PageEntry
      BY <1>1, ElementOfSeq, LenProperties
    <2>2. \A d \in D : inventory[d].file_ordinal \in Nat /\ inventory[d].row_group \in Nat
      BY <2>1 DEF PageEntry
    <2> QED
      BY <1>2, <2>2 DEF KeysOf
  <1>4. IsFiniteSet(groups)
    <2>1. PICK f : f = [d \in D |-> <<inventory[d].file_ordinal, inventory[d].row_group>>]
      OBVIOUS
    <2>2. f \in Surjection(D, groups)
      <3>1. f \in [D -> groups]
        BY <1>2, <2>1 DEF KeysOf
      <3>2. \A x \in groups : \E d \in D : f[d] = x
        BY <1>2, <2>1 DEF KeysOf
      <3> QED
        BY <3>1, <3>2 DEF Surjection
    <2> QED
      BY <1>1, <2>2, FS_Surjection
  <1>5. PICK before : before = {p \in groups \X groups : \/ p[1][1] < p[2][1]
                                                         \/ p[1][1] = p[2][1] /\ p[1][2] < p[2][2]}
    OBVIOUS
  <1>6. StrictOrder(groups, before)
    <2>1. \A x, y \in groups : <<x, y>> \in before <=> \/ x[1] < y[1]
                                                       \/ x[1] = y[1] /\ x[2] < y[2]
      BY <1>5
    <2>2. \A x \in groups : x[1] \in Nat /\ x[2] \in Nat
      BY <1>3
    <2>3. \A x \in groups : <<x, x>> \notin before
      BY <2>1, <2>2
    <2>4. ASSUME NEW x \in groups, NEW y \in groups, NEW z \in groups, <<x, y>> \in before, <<y, z>> \in before
          PROVE  <<x, z>> \in before
      BY <2>1, <2>2, <2>4
    <2>5. ASSUME NEW x \in groups, NEW y \in groups, x # y PROVE <<x, y>> \in before \/ <<y, x>> \in before
      <3>1. x[1] # y[1] \/ x[2] # y[2]
        BY <1>3, <2>5
      <3> QED
        BY <2>1, <2>2, <3>1
    <2> QED
      BY <2>3, <2>4, <2>5 DEF StrictOrder
  <1>7. PICK keys : keys = InOrder(groups, before) /\ Once(keys, groups)
    BY <1>4, <1>6, InOrderIsExact
  <1>8. DOMAIN keys = 1..Len(keys)
    BY <1>7, OnceCounts
  <1>9. group_candidates(segment, candidates) =
          [n \in DOMAIN keys |-> [file_ordinal |-> keys[n][1], rg_idx |-> keys[n][2],
                                  entries |-> Entries(segment, candidates, keys[n])]]
    <2> DEFINE all == {<<segment.doc_table[d].file_ordinal, segment.doc_table[d].row_group>> : d \in ToSet(candidates)}
               earlier == {p \in all \X all : \/ p[1][1] < p[2][1]
                                              \/ p[1][1] = p[2][1] /\ p[1][2] < p[2][2]}
               ordered == InOrder(all, earlier)
    <2>1. group_candidates(segment, candidates) =
            [n \in DOMAIN ordered |-> [file_ordinal |-> ordered[n][1], rg_idx |-> ordered[n][2],
                                       entries |-> Entries(segment, candidates, ordered[n])]]
      BY DEF group_candidates
    <2>2. all = groups
      BY <1>1, <1>2 DEF KeysOf
    <2> HIDE DEF all
    <2>3. earlier = before
      BY <1>5, <2>2
    <2> HIDE DEF earlier
    <2>4. ordered = keys
      BY <1>7, <2>2, <2>3
    <2> HIDE DEF ordered
    <2> QED
      BY <2>1, <2>4
  <1> QED
    BY <1>1, <1>2, <1>7, <1>8, <1>9

-----------------------------------------------------------------------------
(***************************************************************************)
(* verify_rows: what is read is broken into tokens and matched again.      *)
(***************************************************************************)
Satisfies(cell, query) == ~cell.null /\ matches_predicate(tokenize(cell), query)
CellOf(file, column, g, r) == data[file][column][g].cells[r + 1]
Verified(file, column, g, rows, query) ==
  {<<file, g, r>> : r \in {r \in rows : Satisfies(CellOf(file, column, g, r), query)}}

\* Of the rows that were read, those that satisfy the query, once each.
LEMMA VerifyOnce ==
  ASSUME NEW file, NEW column, NEW g, NEW rows \in SUBSET Nat, IsFiniteSet(rows), NEW query
  PROVE  Once(verify_rows(file, column, g, rows, query), Verified(file, column, g, rows, query))
  <1>1. PICK R : R = {r \in rows : Satisfies(CellOf(file, column, g, r), query)}
    OBVIOUS
  <1>2. R \in SUBSET Nat /\ IsFiniteSet(R)
    BY <1>1, FS_Subset
  <1>3. PICK s : s = Ascending(R) /\ Once(s, R)
    BY <1>2, AscendingOnce
  <1>4. PICK n \in Nat : n = Len(s) /\ DOMAIN s = 1..n /\ \A k \in 1..n : s[k] \in R
    BY <1>3, OnceCounts, ElementOfSeq DEF Once
  <1>5. PICK v : v = verify_rows(file, column, g, rows, query) /\ v = [k \in 1..n |-> <<file, g, s[k]>>]
    <2> DEFINE matching == {r \in rows : ~data[file][column][g].cells[r + 1].null
                                          /\ matches_predicate(tokenize(data[file][column][g].cells[r + 1]), query)}
               in_order == Ascending(matching)
    <2>1. verify_rows(file, column, g, rows, query) = [k \in DOMAIN in_order |-> <<file, g, in_order[k]>>]
      BY DEF verify_rows
    <2>2. matching = R
      BY <1>1 DEF Satisfies, CellOf
    <2> HIDE DEF matching
    <2>3. in_order = s
      BY <1>3, <2>2
    <2> HIDE DEF in_order
    <2> QED
      BY <1>4, <2>1, <2>3
  <1>6. PICK V : V = {<<file, g, r>> : r \in R}
    OBVIOUS
  <1>7. v \in Seq(V) /\ Len(v) = n /\ DOMAIN v = 1..n
    <2>1. v \in [1..n -> V]
      BY <1>4, <1>5, <1>6
    <2> QED
      BY <1>5, <2>1, FunctionIsSequence
  <1>8. ToSet(v) = V
    <2>1. ToSet(v) = {<<file, g, s[k]>> : k \in 1..n}
      BY <1>5 DEF ToSet
    <2>2. \A r \in R : \E k \in 1..n : s[k] = r
      BY <1>3, <1>4 DEF Once, ToSet
    <2> QED
      BY <1>4, <1>6, <2>1, <2>2
  <1>9. \A i, j \in 1..n : v[i] = v[j] => i = j
    <2>1. ASSUME NEW i \in 1..n, NEW j \in 1..n, v[i] = v[j] PROVE i = j
      <3>1. s[i] = s[j]
        BY <1>5, <2>1
      <3> QED
        BY <1>3, <1>4, <3>1 DEF Once
    <2> QED
      BY <2>1
  <1>10. V = Verified(file, column, g, rows, query)
    BY <1>1, <1>6 DEF Verified
  <1> QED
    BY <1>5, <1>7, <1>8, <1>9, <1>10 DEF Once

-----------------------------------------------------------------------------
(***************************************************************************)
(* A segment of a batch, searched.                                         *)
(***************************************************************************)
BatchFits(segment, contents) ==
  /\ IsContents(contents) /\ segment.doc_table \in Seq(PageEntry) /\ TableFits(segment.doc_table, contents)
  /\ HasLists(segment) /\ IsExact(segment, contents)

\* The reader of a segment that opens.
LEMMA ReaderFits ==
  ASSUME SearchInv, NEW m \in ToSet(table), ~m.damaged, NEW segment, segment \in m.reader
  PROVE  BatchFits(segment, ContentsOf(data, m)) /\ segment.files = m.files
  <1>1. PICK contents, built : contents = ContentsOf(data, m) /\ built = BuiltFrom(data, m)
    OBVIOUS
  <1>2. /\ IsContents(contents) /\ IsSegment(built) /\ IsExact(built, contents) /\ segment = ReaderOf(built, m.files)
    BY <1>1, ReaderOfManifest
  <1>3. /\ segment.files = m.files /\ segment.doc_table = built.doc_table /\ segment.postings = built.postings
        /\ segment.doc_frequency = built.doc_frequency /\ segment.total_rows = built.total_rows
    BY <1>2 DEF ReaderOf
  <1>4. built.doc_table = doc_table(contents)
    BY <1>1 DEF BuiltFrom, build_segment, SegmentOf, Segment
  <1>5. TableFits(segment.doc_table, contents)
    BY <1>2, <1>3, <1>4, TableIsPaged
  <1>6. segment.doc_table \in Seq(PageEntry) /\ HasLists(segment)
    BY <1>2, <1>3 DEF IsSegment, HasLists
  <1>7. IsExact(segment, contents)
    <2>1. IsExact(built, contents)
      BY <1>2
    <2> QED
      BY ONLY <1>3, <2>1 DEF IsExact
  <1> QED
    BY <1>1, <1>2, <1>3, <1>5, <1>6, <1>7 DEF BatchFits

\* The number of rows and the pages of a row group.
LEMMA GroupOf ==
  ASSUME NEW contents, IsContents(contents), NEW f \in 1..Len(contents), NEW g \in 1..Len(contents[f])
  PROVE  /\ contents[f][g] \in RowGroup /\ num_rows(contents[f][g]) \in Nat /\ f \in Nat /\ g \in Nat
         /\ contents[f][g].cells \in Seq(Cell)
  <1>1. contents[f] \in Seq(RowGroup) /\ f \in Nat
    BY ElementOfSeq, LenProperties DEF IsContents
  <1>2. contents[f][g] \in RowGroup /\ g \in Nat
    BY <1>1, ElementOfSeq, LenProperties
  <1>3. contents[f][g].cells \in Seq(Cell)
    BY <1>2 DEF RowGroup
  <1> QED
    BY <1>1, <1>2, <1>3, LenProperties DEF num_rows

\* The pages of a row group end within it and have no row in common.
LEMMA PagesApart ==
  ASSUME NEW inventory, NEW docs, NEW rows \in Nat, IsPaged(inventory, docs, rows)
  PROVE  /\ \A d \in ToSet(docs) : inventory[d].first_row_index + inventory[d].row_count <= rows
         /\ \A d, e \in ToSet(docs) :
              \/ d = e
              \/ inventory[d].first_row_index + inventory[d].row_count <= inventory[e].first_row_index
              \/ inventory[e].first_row_index + inventory[e].row_count <= inventory[d].first_row_index
  <1>1. PICK n \in Nat : n = Len(docs) /\ DOMAIN docs = 1..n
    BY LenProperties DEF IsPaged
  <1>2. PICK first, end : /\ first = [p \in 1..n |-> inventory[docs[p]].first_row_index]
                          /\ end = [p \in 1..n |-> inventory[docs[p]].first_row_index + inventory[docs[p]].row_count]
    OBVIOUS
  <1>3. \A p \in 1..n : /\ first[p] \in Nat /\ end[p] \in Nat
                        /\ p < n => end[p] = first[p + 1]
                        /\ p = n => end[p] = rows
    <2> SUFFICES ASSUME NEW p \in 1..n
                 PROVE  /\ first[p] \in Nat /\ end[p] \in Nat
                        /\ p < n => end[p] = first[p + 1]
                        /\ p = n => end[p] = rows
      OBVIOUS
    <2>1. inventory[docs[p]].first_row_index \in Nat /\ inventory[docs[p]].row_count \in Nat
      BY <1>1 DEF IsPaged
    <2>2. p < n => end[p] = first[p + 1]
      <3>1. p < n => p + 1 \in 1..n
        OBVIOUS
      <3> QED
        BY <1>1, <1>2, <3>1 DEF IsPaged
    <2>3. p = n => end[p] = rows
      BY <1>1, <1>2 DEF IsPaged
    <2>4. first[p] \in Nat /\ end[p] \in Nat
      BY <1>2, <2>1
    <2> QED
      BY <2>2, <2>3, <2>4
  <1>4. \A p, q \in 1..n : p <= q => first[p] <= first[q]
    BY <1>1, <1>2 DEF IsPaged
  <1>5. ASSUME NEW p \in 1..n, NEW q \in 1..n, p < q PROVE end[p] <= first[q]
    <2>1. p + 1 \in 1..n /\ p < n /\ p + 1 <= q
      BY <1>5
    <2> QED
      BY <1>3, <1>4, <2>1
  <1>6. ASSUME NEW p \in 1..n PROVE end[p] <= rows
    <2>1. CASE p = n
      BY <1>3, <2>1
    <2>2. CASE p # n
      <3>1. n \in 1..n /\ p < n
        BY <2>2
      <3>2. end[p] <= first[n]
        BY <1>5, <3>1
      <3>3. first[n] <= end[n] /\ end[n] = rows
        <4>1. inventory[docs[n]].first_row_index \in Nat /\ inventory[docs[n]].row_count \in Nat
          BY <1>1, <3>1 DEF IsPaged
        <4>2. first[n] <= end[n]
          BY <1>2, <3>1, <4>1
        <4> QED
          BY <1>3, <3>1, <4>2
      <3>4. end[p] \in Nat /\ first[n] \in Nat
        BY <1>3, <3>1
      <3> QED
        BY <3>2, <3>3, <3>4
    <2> QED
      BY <2>1, <2>2
  <1>7. \A d \in ToSet(docs) : \E p \in 1..n : d = docs[p]
    BY <1>1 DEF ToSet
  <1>8. ASSUME NEW d \in ToSet(docs) PROVE inventory[d].first_row_index + inventory[d].row_count <= rows
    BY <1>2, <1>6, <1>7
  <1>9. ASSUME NEW d \in ToSet(docs), NEW e \in ToSet(docs)
        PROVE  \/ d = e
               \/ inventory[d].first_row_index + inventory[d].row_count <= inventory[e].first_row_index
               \/ inventory[e].first_row_index + inventory[e].row_count <= inventory[d].first_row_index
    <2>1. PICK p \in 1..n, q \in 1..n : d = docs[p] /\ e = docs[q]
      BY <1>7
    <2>2. p = q \/ p < q \/ q < p
      OBVIOUS
    <2> QED
      BY <1>2, <1>5, <2>1, <2>2
  <1> QED
    BY <1>8, <1>9

\* The tokens of a row satisfy the query if it has the terms.
LEMMA RowSatisfies ==
  ASSUME NEW query \in QueryType, query.terms # <<>>,
         NEW group, group.cells \in Seq(Cell), NEW r \in 0..num_rows(group) - 1
  PROVE  Satisfies(group.cells[r + 1], query)
           <=> IF query.operator = "and" THEN \A t \in QueryTerms(query) : HasToken(group, r, t)
                                         ELSE \E t \in QueryTerms(query) : HasToken(group, r, t)
  <1>1. PICK cell, tokens : cell = group.cells[r + 1] /\ tokens = tokenize(cell)
    OBVIOUS
  <1>2. \A t : t \in ToSet(tokens) <=> HasToken(group, r, t)
    BY <1>1, TokensOfRow
  <1>3. cell.null => \A t : ~HasToken(group, r, t)
    <2>1. r + 1 \in 1..Len(group.cells)
      BY LenProperties DEF num_rows
    <2>2. cell \in Cell
      BY <1>1, <2>1, ElementOfSeq
    <2>3. cell.null => cell.words = <<>>
      <3>1. CASE cell = NullCell
        BY <3>1 DEF NullCell
      <3>2. CASE cell # NullCell
        <4>1. cell \in [null : {FALSE}, words : Seq(Words)]
          BY <2>2, <3>2 DEF Cell
        <4>2. cell.null = FALSE
          BY <4>1
        <4> QED
          BY <4>2
      <3> QED
        BY <3>1, <3>2
    <2> QED
      BY <1>1, <2>3, EmptyList DEF HasToken
  <1>4. \E t : t \in QueryTerms(query)
    <2>1. PICK terms : terms = query.terms /\ terms \in Seq(Terms) /\ QueryTerms(query) = ToSet(terms) /\ terms # <<>>
      BY DEF QueryType, QueryTerms
    <2>2. PICK n \in Nat : n = Len(terms) /\ DOMAIN terms = 1..n
      BY <2>1, LenProperties
    <2>3. 1 \in 1..n
      BY <2>1, <2>2, EmptySeq
    <2> QED
      BY <2>1, <2>2, <2>3 DEF ToSet
  <1>5. query.operator \in {"and", "or"}
    BY DEF QueryType
  <1>6. matches_predicate(tokens, query)
          <=> IF query.operator = "and" THEN \A t \in QueryTerms(query) : t \in ToSet(tokens)
                                        ELSE \E t \in QueryTerms(query) : t \in ToSet(tokens)
    <2>1. CASE query.operator = "and"
      BY <2>1 DEF matches_predicate
    <2>2. CASE query.operator = "or"
      BY <2>2 DEF matches_predicate
    <2> QED
      BY <1>5, <2>1, <2>2
  <1> QED
    BY <1>1, <1>2, <1>3, <1>4, <1>6 DEF Satisfies

\* A candidate is a page of a row group with a row on it, and ends with its
\* row group; the candidates of a row group are apart.
LEMMA CandidatesFit ==
  ASSUME NEW segment, NEW contents, BatchFits(segment, contents), NEW query \in QueryType,
         NEW docs, docs = ToSet(evaluate_segment(segment, query)),
         NEW inventory, inventory = segment.doc_table
  PROVE  /\ docs \subseteq DOMAIN inventory
         /\ \A d \in docs :
              \E f \in 1..Len(contents) : \E g \in 1..Len(contents[f]) :
                /\ inventory[d].file_ordinal = f /\ inventory[d].row_group = g
                /\ inventory[d].first_row_index + inventory[d].row_count <= num_rows(contents[f][g])
         /\ \A key : Apart(inventory, PagesOfKey(inventory, docs, key))
  <1>1. /\ inventory \in Seq(PageEntry) /\ TableFits(inventory, contents) /\ IsContents(contents)
        /\ HasLists(segment) /\ IsExact(segment, contents)
    BY DEF BatchFits
  <1>2. ASSUME NEW d \in docs
        PROVE  \E t \in DOMAIN segment.postings : d \in ToSet(segment.postings[t])
    <2>1. Candidates(segment, query, d)
      BY <1>1, EvaluateIsExact
    <2>2. \E t : t \in QueryTerms(query)
      <3>1. PICK terms : terms = query.terms /\ terms \in Seq(Terms) /\ QueryTerms(query) = ToSet(terms) /\ terms # <<>>
        BY <2>1 DEF QueryType, QueryTerms, Candidates
      <3>2. PICK n \in Nat : n = Len(terms) /\ DOMAIN terms = 1..n
        BY <3>1, LenProperties
      <3>3. 1 \in 1..n
        BY <3>1, <3>2, EmptySeq
      <3> QED
        BY <3>1, <3>2, <3>3 DEF ToSet
    <2> QED
      BY <2>1, <2>2 DEF Candidates
  <1>3. ASSUME NEW d \in docs
        PROVE  /\ d \in DOMAIN inventory /\ inventory[d] \in PageEntry /\ inventory[d].row_count # 0
               /\ \E f \in 1..Len(contents) : \E g \in 1..Len(contents[f]) :
                    inventory[d].file_ordinal = f /\ inventory[d].row_group = g
    <2>1. PICK t \in DOMAIN segment.postings : d \in ToSet(segment.postings[t])
      BY <1>2
    <2>2. PICK row \in RowsHaving(contents, t) : d \in DOMAIN inventory /\ Holds(inventory[d], row)
      BY <1>1, <2>1 DEF IsExact
    <2>3. PICK f \in 1..Len(contents) : \E g \in 1..Len(contents[f]) : row \in GroupRows(contents, f, g, t)
      BY <1>1, <2>2, RowsOfGroups
    <2>4. PICK g \in 1..Len(contents[f]) : row \in GroupRows(contents, f, g, t)
      BY <2>3
    <2>5. PICK r : r \in TokenRows(contents[f][g], t) /\ row = <<f, g, r>>
      BY <2>4 DEF GroupRows
    <2>6. r \in Int
      <3>1. num_rows(contents[f][g]) \in Nat
        BY <1>1, GroupOf
      <3> QED
        BY <2>5, <3>1 DEF TokenRows
    <2>7. inventory[d] \in PageEntry
      BY <1>1, <2>2, ElementOfSeq, LenProperties
    <2>8. /\ inventory[d].file_ordinal = f /\ inventory[d].row_group = g
          /\ inventory[d].first_row_index <= r /\ r < inventory[d].first_row_index + inventory[d].row_count
      BY <2>2, <2>5 DEF Holds
    <2>9. inventory[d].row_count # 0
      BY <2>6, <2>7, <2>8 DEF PageEntry
    <2> QED
      BY <2>2, <2>7, <2>8, <2>9
  <1>4. ASSUME NEW f \in 1..Len(contents), NEW g \in 1..Len(contents[f]),
               NEW d \in docs, inventory[d].file_ordinal = f, inventory[d].row_group = g
        PROVE  /\ d \in ToSet(PageDocs(inventory, f, g))
               /\ IsPaged(inventory, PageDocs(inventory, f, g), num_rows(contents[f][g]))
               /\ num_rows(contents[f][g]) \in Nat
    <2>1. d \in DOMAIN inventory
      BY <1>3
    <2> QED
      BY <1>1, <1>4, <2>1, GroupOf DEF TableFits
  <1>5. ASSUME NEW d \in docs
        PROVE  \E f \in 1..Len(contents) : \E g \in 1..Len(contents[f]) :
                 /\ inventory[d].file_ordinal = f /\ inventory[d].row_group = g
                 /\ inventory[d].first_row_index + inventory[d].row_count <= num_rows(contents[f][g])
    <2>1. PICK f \in 1..Len(contents) : \E g \in 1..Len(contents[f]) :
                 inventory[d].file_ordinal = f /\ inventory[d].row_group = g
      BY <1>3
    <2>2. PICK g \in 1..Len(contents[f]) : inventory[d].file_ordinal = f /\ inventory[d].row_group = g
      BY <2>1
    <2> QED
      BY <1>4, <2>2, PagesApart
  <1>6. ASSUME NEW key PROVE Apart(inventory, PagesOfKey(inventory, docs, key))
    <2>1. PICK D : D = PagesOfKey(inventory, docs, key)
      OBVIOUS
    <2>2. \A d \in D : d \in docs /\ inventory[d].file_ordinal = key[1] /\ inventory[d].row_group = key[2]
      BY <2>1 DEF PagesOfKey
    <2>3. \A d \in D : inventory[d].row_count # 0
      BY <1>3, <2>2
    <2>4. ASSUME NEW d \in D, NEW e \in D
          PROVE  \/ d = e
                 \/ inventory[d].first_row_index + inventory[d].row_count <= inventory[e].first_row_index
                 \/ inventory[e].first_row_index + inventory[e].row_count <= inventory[d].first_row_index
      <3>1. PICK f \in 1..Len(contents) : \E g \in 1..Len(contents[f]) :
                   inventory[d].file_ordinal = f /\ inventory[d].row_group = g
        BY <1>3, <2>2
      <3>2. PICK g \in 1..Len(contents[f]) : inventory[d].file_ordinal = f /\ inventory[d].row_group = g
        BY <3>1
      <3>3. inventory[e].file_ordinal = f /\ inventory[e].row_group = g /\ d \in docs /\ e \in docs
        BY <2>2, <3>2
      <3>4. PICK on, rows : on = PageDocs(inventory, f, g) /\ rows = num_rows(contents[f][g])
        OBVIOUS
      <3>5. d \in ToSet(on) /\ e \in ToSet(on) /\ IsPaged(inventory, on, rows) /\ rows \in Nat
        BY <1>4, <3>2, <3>3, <3>4
      <3> QED
        BY <3>5, PagesApart
    <2> QED
      BY <2>1, <2>3, <2>4 DEF Apart
  <1> QED
    BY <1>3, <1>5, <1>6

\* A row that satisfies the query is on a candidate page.
LEMMA RowIsOnCandidate ==
  ASSUME NEW segment, NEW contents, BatchFits(segment, contents), NEW query \in QueryType, query.terms # <<>>,
         NEW f \in 1..Len(contents), NEW g \in 1..Len(contents[f]), NEW r \in 0..num_rows(contents[f][g]) - 1,
         Satisfies(contents[f][g].cells[r + 1], query)
  PROVE  \E d \in ToSet(evaluate_segment(segment, query)) : Holds(segment.doc_table[d], <<f, g, r>>)
  <1>1. PICK inventory : inventory = segment.doc_table
    OBVIOUS
  <1>2. /\ TableFits(inventory, contents) /\ IsContents(contents)
        /\ HasLists(segment) /\ IsExact(segment, contents)
    BY <1>1 DEF BatchFits
  <1>3. PICK group : group = contents[f][g] /\ group.cells \in Seq(Cell)
    BY <1>2, GroupOf
  <1>4. IF query.operator = "and" THEN \A t \in QueryTerms(query) : HasToken(group, r, t)
                                  ELSE \E t \in QueryTerms(query) : HasToken(group, r, t)
    BY <1>3, RowSatisfies
  <1>5. ASSUME NEW t, HasToken(group, r, t) PROVE <<f, g, r>> \in RowsHaving(contents, t)
    <2>1. <<f, g, r>> \in GroupRows(contents, f, g, t)
      BY <1>3, <1>5 DEF GroupRows, TokenRows
    <2> QED
      BY <1>2, <2>1, RowsOfGroups
  <1>6. PICK u \in QueryTerms(query) : HasToken(group, r, u)
    <2>1. \E t : t \in QueryTerms(query)
      <3>1. PICK terms : terms = query.terms /\ terms \in Seq(Terms) /\ QueryTerms(query) = ToSet(terms) /\ terms # <<>>
        BY DEF QueryType, QueryTerms
      <3>2. PICK n \in Nat : n = Len(terms) /\ DOMAIN terms = 1..n
        BY <3>1, LenProperties
      <3>3. 1 \in 1..n
        BY <3>1, <3>2, EmptySeq
      <3> QED
        BY <3>1, <3>2, <3>3 DEF ToSet
    <2> QED
      BY <1>4, <2>1
  <1>7. PICK d \in DOMAIN inventory : Holds(inventory[d], <<f, g, r>>)
    BY <1>2, <1>5, <1>6, RowIsHeld
  <1>8. ASSUME NEW t \in QueryTerms(query), HasToken(group, r, t)
        PROVE  t \in DOMAIN segment.postings /\ d \in ToSet(segment.postings[t])
    <2>1. t \in Terms
      <3>1. query.terms \in Seq(Terms)
        BY DEF QueryType
      <3> QED
        BY <3>1, ElementsAreFinite DEF QueryTerms
    <2>2. <<f, g, r>> \in RowsHaving(contents, t)
      BY <1>5, <1>8
    <2>3. t \in DOMAIN segment.postings
      BY <1>2, <2>1, <2>2 DEF IsExact
    <2> QED
      BY <1>1, <1>2, <1>7, <2>2, <2>3 DEF IsExact
  <1>9. Candidates(segment, query, d)
    BY <1>4, <1>6, <1>8 DEF Candidates
  <1>10. d \in ToSet(evaluate_segment(segment, query))
    BY <1>2, <1>9, EvaluateIsExact
  <1> QED
    BY <1>1, <1>7, <1>10

\* The rows of some files that satisfy a query.
RowsFor(files, query) ==
  {row \in RowsOf(query.column, files) : Satisfies(CellOf(row[1], query.column, row[2], row[3]), query)}

\* Which these are.
LEMMA RowsForAre ==
  ASSUME NEW files, NEW query, NEW row
  PROVE  row \in RowsFor(files, query) <=>
           \E f \in files : \E g \in DOMAIN data[f][query.column] :
             \E r \in 0..num_rows(data[f][query.column][g]) - 1 :
               row = <<f, g, r>> /\ Satisfies(CellOf(f, query.column, g, r), query)
  <1>1. row \in RowsOf(query.column, files) <=>
           \E f \in files : \E g \in DOMAIN data[f][query.column] :
             \E r \in 0..num_rows(data[f][query.column][g]) - 1 : row = <<f, g, r>>
    BY DEF RowsOf, RowsIn
  <1> QED
    BY <1>1 DEF RowsFor

\* The rows on some pages.
RowsOn(inventory, pages) == UNION {PageRows(inventory[d]) : d \in pages}

\* The pages of a row group are read, and nothing else.
LEMMA GroupIsRead ==
  ASSUME NEW segment, NEW contents, BatchFits(segment, contents), NEW query \in QueryType,
         NEW candidates, candidates = evaluate_segment(segment, query),
         NEW f \in 1..Len(contents), NEW g \in 1..Len(contents[f]),
         NEW total \in Nat, total = num_rows(contents[f][g]),
         NEW pages, pages = PagesOfKey(segment.doc_table, ToSet(candidates), <<f, g>>)
  PROVE  /\ SelectedRows(build_row_selection(Entries(segment, candidates, <<f, g>>), total))
              = RowsOn(segment.doc_table, pages)
         /\ RowsOn(segment.doc_table, pages) \subseteq 0..total - 1
  <1>1. PICK inventory : inventory = segment.doc_table /\ inventory \in Seq(PageEntry) /\ HasLists(segment)
    BY DEF BatchFits
  <1>2. PICK docs : docs = ToSet(candidates) /\ SortedList(candidates)
    BY <1>1, EvaluateIsExact
  <1>3. /\ docs \subseteq DOMAIN inventory
        /\ \A d \in docs :
             \E h \in 1..Len(contents) : \E i \in 1..Len(contents[h]) :
               /\ inventory[d].file_ordinal = h /\ inventory[d].row_group = i
               /\ inventory[d].first_row_index + inventory[d].row_count <= num_rows(contents[h][i])
        /\ \A key : Apart(inventory, PagesOfKey(inventory, docs, key))
    <2>1. docs = ToSet(evaluate_segment(segment, query)) /\ inventory = segment.doc_table
      BY <1>1, <1>2
    <2>2. docs \subseteq DOMAIN inventory
      BY <2>1, CandidatesFit
    <2>3. \A d \in docs :
             \E h \in 1..Len(contents) : \E i \in 1..Len(contents[h]) :
               /\ inventory[d].file_ordinal = h /\ inventory[d].row_group = i
               /\ inventory[d].first_row_index + inventory[d].row_count <= num_rows(contents[h][i])
      BY <2>1, CandidatesFit
    <2>4. ASSUME NEW key PROVE Apart(inventory, PagesOfKey(inventory, docs, key))
      BY <2>1, CandidatesFit
    <2> QED
      BY <2>2, <2>3, <2>4
  <1>4. PICK key : key = <<f, g>> /\ key[1] = f /\ key[2] = g
    OBVIOUS
  <1>5. pages = PagesOfKey(inventory, docs, key) /\ Apart(inventory, pages)
    BY <1>1, <1>2, <1>3, <1>4
  <1>6. \A d \in pages : d \in docs /\ inventory[d].file_ordinal = f /\ inventory[d].row_group = g
    BY <1>4, <1>5 DEF PagesOfKey
  <1>7. ASSUME NEW d \in pages
        PROVE  /\ inventory[d] \in PageEntry
               /\ inventory[d].first_row_index + inventory[d].row_count <= total
    <2>1. d \in DOMAIN inventory
      BY <1>3, <1>6
    <2>2. inventory[d] \in PageEntry
      BY <1>1, <2>1, ElementOfSeq, LenProperties
    <2>3. inventory[d].first_row_index + inventory[d].row_count <= total
      BY <1>3, <1>6
    <2> QED
      BY <2>2, <2>3
  <1>8. PICK e : /\ e = Entries(segment, candidates, key) /\ e \in Seq(PageEntry) /\ InTurn(e)
                 /\ ToSet(e) = {inventory[d] : d \in pages}
    <2>1. /\ inventory = segment.doc_table /\ inventory \in Seq(PageEntry) /\ SortedList(candidates)
          /\ ToSet(candidates) \subseteq DOMAIN inventory
          /\ Apart(inventory, PagesOfKey(inventory, ToSet(candidates), key))
      BY <1>1, <1>2, <1>3
    <2>2. /\ Entries(segment, candidates, key) \in Seq(PageEntry) /\ InTurn(Entries(segment, candidates, key))
          /\ ToSet(Entries(segment, candidates, key)) =
               EntriesOf(inventory, PagesOfKey(inventory, ToSet(candidates), key))
      BY <2>1, EntriesAreExact
    <2> QED
      BY <1>2, <1>5, <2>2 DEF EntriesOf
  <1>9. PICK n \in Nat : n = Len(e) /\ DOMAIN e = 1..n
    BY <1>8, LenProperties
  <1>10. ToSet(e) = {e[i] : i \in 1..n}
    BY <1>9 DEF ToSet
  <1>11. \A i \in DOMAIN e : e[i].first_row_index + e[i].row_count <= total
    <2>1. ASSUME NEW i \in 1..n PROVE \E d \in pages : e[i] = inventory[d]
      BY <1>8, <1>10
    <2> QED
      BY <1>7, <1>9, <2>1
  <1>12. SelectedRows(build_row_selection(e, total)) = UNION {PageRows(e[i]) : i \in 1..n}
    BY <1>8, <1>9, <1>11, SelectionIsExact
  <1>13. UNION {PageRows(e[i]) : i \in 1..n} = RowsOn(inventory, pages)
    <2>1. {PageRows(e[i]) : i \in 1..n} = {PageRows(inventory[d]) : d \in pages}
      <3>1. \A i \in 1..n : \E d \in pages : e[i] = inventory[d]
        BY <1>8, <1>10
      <3>2. ASSUME NEW d \in pages PROVE \E i \in 1..n : e[i] = inventory[d]
        <4>1. inventory[d] \in ToSet(e)
          BY <1>8
        <4> QED
          BY <1>10, <4>1
      <3> QED
        BY <3>1, <3>2
    <2> QED
      BY <2>1 DEF RowsOn
  <1>14. ASSUME NEW d \in pages PROVE PageRows(inventory[d]) \subseteq 0..total - 1
    <2>1. PICK first \in Nat, count \in Nat : first = inventory[d].first_row_index /\ count = inventory[d].row_count
      BY <1>7 DEF PageEntry
    <2>2. first + count <= total
      BY <1>7, <2>1
    <2>3. first..first + count - 1 \subseteq 0..total - 1
      BY <2>2
    <2> QED
      BY <2>1, <2>3 DEF PageRows
  <1>15. RowsOn(inventory, pages) \subseteq 0..total - 1
    BY <1>14 DEF RowsOn
  <1> QED
    BY <1>1, <1>4, <1>8, <1>12, <1>13, <1>15

\* What files hold in the column of a query.
InColumn(files, query) == [n \in DOMAIN files |-> data[files[n]][query.column]]

\* The rows of a row group that are found.
FoundIn(segment, query, key) ==
  Verified(segment.files[key[1]], query.column, key[2],
           RowsOn(segment.doc_table,
                  PagesOfKey(segment.doc_table, ToSet(evaluate_segment(segment, query)), key)), query)

\* One row group, searched.
LEMMA ItemSearched ==
  ASSUME NEW segment, NEW query \in QueryType, NEW files, files = segment.files,
         NEW contents, contents = InColumn(files, query), BatchFits(segment, contents),
         NEW f \in 1..Len(contents), NEW g \in 1..Len(contents[f]), NEW item,
         item = [file_ordinal |-> f, rg_idx |-> g,
                 entries |-> Entries(segment, evaluate_segment(segment, query), <<f, g>>)]
  PROVE  Once(SearchItem(segment, item, query), FoundIn(segment, query, <<f, g>>))
  <1>1. IsContents(contents)
    BY DEF BatchFits
  <1>2. DOMAIN contents = 1..Len(contents) /\ DOMAIN contents = DOMAIN files
    BY <1>1, LenProperties DEF IsContents, InColumn
  <1>3. contents[f] = data[files[f]][query.column]
    BY <1>2 DEF InColumn
  <1>4. PICK total \in Nat : total = num_rows(contents[f][g])
    BY <1>1, GroupOf
  <1>5. PICK pages, rows : /\ pages = PagesOfKey(segment.doc_table, ToSet(evaluate_segment(segment, query)), <<f, g>>)
                           /\ rows = RowsOn(segment.doc_table, pages)
    OBVIOUS
  <1>6. /\ SelectedRows(build_row_selection(Entries(segment, evaluate_segment(segment, query), <<f, g>>), total)) = rows
        /\ rows \subseteq 0..total - 1
    <2>1. PICK candidates : candidates = evaluate_segment(segment, query)
      OBVIOUS
    <2>2. pages = PagesOfKey(segment.doc_table, ToSet(candidates), <<f, g>>)
      BY <1>5, <2>1
    <2>3. SelectedRows(build_row_selection(Entries(segment, candidates, <<f, g>>), total)) = RowsOn(segment.doc_table, pages)
      BY ONLY BatchFits(segment, contents), query \in QueryType, f \in 1..Len(contents), g \in 1..Len(contents[f]),
              <1>4, <2>1, <2>2, GroupIsRead
    <2>4. RowsOn(segment.doc_table, pages) \subseteq 0..total - 1
      BY ONLY BatchFits(segment, contents), query \in QueryType, f \in 1..Len(contents), g \in 1..Len(contents[f]),
              <1>4, <2>1, <2>2, GroupIsRead
    <2> QED
      BY <1>5, <2>1, <2>3, <2>4
  <1>7. rows \in SUBSET Nat /\ IsFiniteSet(rows)
    <2>1. IsFiniteSet(0..total - 1) /\ 0..total - 1 \subseteq Nat
      BY FS_Interval
    <2> QED
      BY <1>6, <2>1, FS_Subset
  <1>8. SearchItem(segment, item, query) = verify_rows(files[f], query.column, g, rows, query)
    <2>1. item.file_ordinal = f /\ item.rg_idx = g
          /\ item.entries = Entries(segment, evaluate_segment(segment, query), <<f, g>>)
      OBVIOUS
    <2>2. num_rows(data[segment.files[item.file_ordinal]][query.column][item.rg_idx]) = total
      BY <1>3, <1>4, <2>1
    <2> QED
      BY <1>6, <2>1, <2>2 DEF SearchItem
  <1>9. Once(verify_rows(files[f], query.column, g, rows, query), Verified(files[f], query.column, g, rows, query))
    BY <1>7, VerifyOnce
  <1>10. FoundIn(segment, query, <<f, g>>) = Verified(files[f], query.column, g, rows, query)
    BY <1>5 DEF FoundIn
  <1> QED
    BY <1>8, <1>9, <1>10

\* The row groups with candidates have all rows that are found.
LEMMA FoundTogether ==
  ASSUME NEW segment, NEW query \in QueryType, query.terms # <<>>, NEW files, files = segment.files,
         NEW contents, contents = InColumn(files, query), BatchFits(segment, contents),
         NEW docs, docs = ToSet(evaluate_segment(segment, query))
  PROVE  /\ UNION {FoundIn(segment, query, key) : key \in KeysOf(segment.doc_table, docs)} = RowsFor(ToSet(files), query)
         /\ \A key \in KeysOf(segment.doc_table, docs) :
              \E f \in 1..Len(contents) : \E g \in 1..Len(contents[f]) : key = <<f, g>>
  <1>1. IsContents(contents)
    BY DEF BatchFits
  <1>2. PICK n \in Nat : n = Len(contents) /\ DOMAIN contents = 1..n /\ DOMAIN files = 1..n
    BY <1>1, LenProperties DEF IsContents, InColumn
  <1>3. \A f \in 1..n : contents[f] = data[files[f]][query.column] /\ DOMAIN contents[f] = 1..Len(contents[f])
    <2>1. \A f \in 1..n : contents[f] \in Seq(RowGroup)
      BY <1>1, <1>2, ElementOfSeq DEF IsContents
    <2> QED
      BY <1>2, <2>1, LenProperties DEF InColumn
  <1>4. PICK inventory : inventory = segment.doc_table
    OBVIOUS
  <1>5. ASSUME NEW key \in KeysOf(inventory, docs)
        PROVE  \E f \in 1..n : \E g \in 1..Len(contents[f]) : key = <<f, g>>
    <2>1. PICK d \in docs : key = <<inventory[d].file_ordinal, inventory[d].row_group>>
      BY DEF KeysOf
    <2>2. \E f \in 1..n : \E g \in 1..Len(contents[f]) : inventory[d].file_ordinal = f /\ inventory[d].row_group = g
      BY <1>2, <1>4, CandidatesFit
    <2> QED
      BY <2>1, <2>2
  <1>6. ASSUME NEW key \in KeysOf(inventory, docs), NEW row \in FoundIn(segment, query, key)
        PROVE  row \in RowsFor(ToSet(files), query)
    <2>1. PICK f \in 1..n : \E g \in 1..Len(contents[f]) : key = <<f, g>>
      BY <1>5
    <2>2. PICK g \in 1..Len(contents[f]) : key = <<f, g>>
      BY <2>1
    <2>3. PICK total \in Nat : total = num_rows(contents[f][g])
      BY <1>1, <1>2, GroupOf
    <2>4. PICK pages : pages = PagesOfKey(inventory, docs, <<f, g>>)
      OBVIOUS
    <2>5. RowsOn(inventory, pages) \subseteq 0..total - 1
      <3>1. PICK candidates : candidates = evaluate_segment(segment, query) /\ docs = ToSet(candidates)
                              /\ inventory = segment.doc_table
        BY <1>2, <1>4
      <3>2. BatchFits(segment, contents) /\ f \in 1..Len(contents)
        BY <1>2
      <3>3. RowsOn(segment.doc_table, pages) \subseteq 0..total - 1
        BY ONLY <2>3, <2>4, <3>1, <3>2, query \in QueryType, g \in 1..Len(contents[f]), GroupIsRead
      <3> QED
        BY <3>1, <3>3
    <2>6. PICK r \in RowsOn(inventory, pages) :
            row = <<files[f], g, r>> /\ Satisfies(CellOf(files[f], query.column, g, r), query)
      BY <1>4, <2>2, <2>4 DEF FoundIn, Verified
    <2>7. files[f] \in ToSet(files) /\ g \in DOMAIN data[files[f]][query.column]
          /\ r \in 0..num_rows(data[files[f]][query.column][g]) - 1
      BY <1>2, <1>3, <2>3, <2>5 DEF ToSet
    <2> QED
      BY <2>6, <2>7, RowsForAre
  <1>7. ASSUME NEW row \in RowsFor(ToSet(files), query)
        PROVE  \E key \in KeysOf(inventory, docs) : row \in FoundIn(segment, query, key)
    <2>1. PICK file \in ToSet(files) : \E g \in DOMAIN data[file][query.column] :
             \E r \in 0..num_rows(data[file][query.column][g]) - 1 :
               row = <<file, g, r>> /\ Satisfies(CellOf(file, query.column, g, r), query)
      BY RowsForAre
    <2>2. PICK f \in 1..n : file = files[f]
      BY <1>2 DEF ToSet
    <2>3. PICK g \in DOMAIN data[file][query.column] :
             \E r \in 0..num_rows(data[file][query.column][g]) - 1 :
               row = <<file, g, r>> /\ Satisfies(CellOf(file, query.column, g, r), query)
      BY <2>1
    <2>4. PICK r \in 0..num_rows(data[file][query.column][g]) - 1 :
               row = <<file, g, r>> /\ Satisfies(CellOf(file, query.column, g, r), query)
      BY <2>3
    <2>5. g \in 1..Len(contents[f]) /\ r \in 0..num_rows(contents[f][g]) - 1
      BY <1>3, <2>2
    <2>6. Satisfies(contents[f][g].cells[r + 1], query)
      BY <1>3, <2>2, <2>4 DEF CellOf
    <2>7. PICK d \in docs : Holds(inventory[d], <<f, g, r>>)
      BY <1>2, <1>4, <2>5, <2>6, RowIsOnCandidate
    <2>8. /\ inventory[d].file_ordinal = f /\ inventory[d].row_group = g
          /\ inventory[d].first_row_index <= r /\ r < inventory[d].first_row_index + inventory[d].row_count
      BY <2>7 DEF Holds
    <2>9. PICK key : key = <<f, g>> /\ key \in KeysOf(inventory, docs) /\ key[1] = f /\ key[2] = g
      <3>1. <<f, g>> = <<inventory[d].file_ordinal, inventory[d].row_group>>
        BY <2>8
      <3>2. <<f, g>> \in KeysOf(inventory, docs)
        BY <3>1 DEF KeysOf
      <3> QED
        BY <3>2
    <2>10. d \in PagesOfKey(inventory, docs, key)
      BY <2>8, <2>9 DEF PagesOfKey
    <2>11. r \in PageRows(inventory[d])
      <3>1. inventory \in Seq(PageEntry) /\ d \in DOMAIN inventory
        BY <1>4, CandidatesFit DEF BatchFits
      <3>2. inventory[d] \in PageEntry
        BY <3>1, ElementOfSeq, LenProperties
      <3>3. PICK first \in Nat, count \in Nat : first = inventory[d].first_row_index /\ count = inventory[d].row_count
        BY <3>2 DEF PageEntry
      <3>4. num_rows(contents[f][g]) \in Nat
        BY <1>1, <1>2, <2>5, GroupOf
      <3>5. r \in Int
        BY <2>5, <3>4
      <3> QED
        BY <2>8, <3>3, <3>5 DEF PageRows
    <2>12. r \in RowsOn(inventory, PagesOfKey(inventory, docs, key))
      BY <2>10, <2>11 DEF RowsOn
    <2>13. row \in FoundIn(segment, query, key)
      BY <1>4, <2>2, <2>4, <2>9, <2>12 DEF FoundIn, Verified
    <2> QED
      BY <2>9, <2>13
  <1> QED
    BY <1>2, <1>4, <1>5, <1>6, <1>7

\* SearchSegment: the rows of the batch that satisfy the query, once each.
LEMMA SegmentSearched ==
  ASSUME NEW segment, NEW query \in QueryType, query.terms # <<>>,
         NEW files, files = segment.files, IsInjective(files),
         NEW contents, contents = InColumn(files, query), BatchFits(segment, contents)
  PROVE  Once(SearchSegment(segment, query), RowsFor(ToSet(files), query))
  <1>1. PICK inventory, candidates : inventory = segment.doc_table /\ candidates = evaluate_segment(segment, query)
    OBVIOUS
  <1>2. PICK docs : docs = ToSet(candidates)
    OBVIOUS
  <1>3. inventory \in Seq(PageEntry) /\ HasLists(segment) /\ IsContents(contents)
    BY <1>1 DEF BatchFits
  <1>4. SortedList(candidates)
    BY <1>1, <1>3, EvaluateIsExact
  <1>5. ToSet(candidates) \subseteq DOMAIN inventory
    BY <1>1, CandidatesFit
  <1>6. PICK keys : /\ Once(keys, KeysOf(inventory, docs))
                    /\ group_candidates(segment, candidates) =
                         [k \in 1..Len(keys) |->
                            [file_ordinal |-> keys[k][1], rg_idx |-> keys[k][2],
                             entries |-> Entries(segment, candidates, keys[k])]]
    BY <1>1, <1>2, <1>3, <1>4, <1>5, GroupsAreExact
  <1>7. PICK n \in Nat : n = Len(keys) /\ DOMAIN keys = 1..n /\ \A k \in 1..n : keys[k] \in KeysOf(inventory, docs)
    BY <1>6, OnceCounts, ElementOfSeq DEF Once
  <1>8. PICK items : items = group_candidates(segment, candidates) /\ DOMAIN items = 1..n
                     /\ \A k \in 1..n : items[k] = [file_ordinal |-> keys[k][1], rg_idx |-> keys[k][2],
                                                    entries |-> Entries(segment, candidates, keys[k])]
    BY <1>6, <1>7
  <1>9. PICK found, parts : /\ found = [k \in 1..n |-> SearchItem(segment, items[k], query)]
                            /\ parts = [k \in 1..n |-> FoundIn(segment, query, keys[k])]
    OBVIOUS
  <1>10. /\ UNION {FoundIn(segment, query, key) : key \in KeysOf(inventory, docs)} = RowsFor(ToSet(files), query)
         /\ \A key \in KeysOf(inventory, docs) :
              \E f \in 1..Len(contents) : \E g \in 1..Len(contents[f]) : key = <<f, g>>
    <2>1. docs = ToSet(evaluate_segment(segment, query))
      BY <1>1, <1>2
    <2>2. UNION {FoundIn(segment, query, key) : key \in KeysOf(segment.doc_table, docs)} = RowsFor(ToSet(files), query)
      BY <2>1, FoundTogether
    <2>3. \A key \in KeysOf(segment.doc_table, docs) :
              \E f \in 1..Len(contents) : \E g \in 1..Len(contents[f]) : key = <<f, g>>
      BY <2>1, FoundTogether
    <2> QED
      BY <1>1, <2>2, <2>3
  <1>a. \A k \in 1..n : \E f \in 1..Len(contents) : \E g \in 1..Len(contents[f]) : keys[k] = <<f, g>>
    BY <1>7, <1>10
  <1>11. ASSUME NEW k \in 1..n PROVE Once(found[k], parts[k])
    <2>1. PICK f \in 1..Len(contents) : \E g \in 1..Len(contents[f]) : keys[k] = <<f, g>>
      BY <1>a
    <2>2. PICK g \in 1..Len(contents[f]) : keys[k] = <<f, g>>
      BY <2>1
    <2>3. PICK item : item = items[k] /\ item = [file_ordinal |-> f, rg_idx |-> g,
                                                 entries |-> Entries(segment, evaluate_segment(segment, query), <<f, g>>)]
      BY <1>1, <1>8, <2>2
    <2>4. Once(SearchItem(segment, item, query), FoundIn(segment, query, <<f, g>>))
      BY <2>3, ItemSearched
    <2> QED
      BY <1>9, <2>2, <2>3, <2>4
  <1>12. ASSUME NEW j \in 1..n, NEW k \in 1..n, j # k PROVE parts[j] \cap parts[k] = {}
    <2>1. keys[j] # keys[k]
      BY <1>6, <1>7, <1>12 DEF Once
    <2>a. PICK f \in 1..Len(contents) : \E g \in 1..Len(contents[f]) : keys[j] = <<f, g>>
      BY <1>a
    <2>b. PICK h \in 1..Len(contents) : \E i \in 1..Len(contents[h]) : keys[k] = <<h, i>>
      BY <1>a
    <2>2. PICK g \in 1..Len(contents[f]) : keys[j] = <<f, g>>
      BY <2>a
    <2>3. PICK i \in 1..Len(contents[h]) : keys[j] = <<f, g>> /\ keys[k] = <<h, i>>
      BY <2>b, <2>2
    <2>4. f # h \/ g # i
      BY <2>1, <2>3
    <2>5. f # h => files[f] # files[h]
      <3>1. DOMAIN files = 1..Len(contents)
        BY <1>3, LenProperties DEF IsContents, InColumn
      <3> QED
        BY <3>1 DEF IsInjective
    <2>6. ASSUME NEW row \in parts[j], row \in parts[k] PROVE FALSE
      <3>1. row \in FoundIn(segment, query, <<f, g>>) /\ row \in FoundIn(segment, query, <<h, i>>)
        BY <1>9, <2>3, <2>6
      <3>2. row[1] = files[f] /\ row[2] = g
        BY <3>1 DEF FoundIn, Verified
      <3>3. row[1] = files[h] /\ row[2] = i
        BY <3>1 DEF FoundIn, Verified
      <3> QED
        BY <2>4, <2>5, <3>2, <3>3
    <2> QED
      BY <2>6
  <1>13. SearchSegment(segment, query) = FlattenSeq(found)
    BY <1>1, <1>8, <1>9 DEF SearchSegment
  <1>14. found = [k \in 1..n |-> found[k]]
    BY <1>9
  <1>15. Once(FlattenSeq(found), UNION {parts[k] : k \in 1..n})
    BY <1>11, <1>12, <1>14, FlattenOnce
  <1>16. UNION {parts[k] : k \in 1..n} = RowsFor(ToSet(files), query)
    <2>1. \A key \in KeysOf(inventory, docs) : \E k \in 1..n : keys[k] = key
      BY <1>6, <1>7 DEF Once, ToSet
    <2>2. {parts[k] : k \in 1..n} = {FoundIn(segment, query, key) : key \in KeysOf(inventory, docs)}
      BY <1>7, <1>9, <2>1
    <2> QED
      BY <1>10, <2>2
  <1> QED
    BY <1>13, <1>15, <1>16

-----------------------------------------------------------------------------
(***************************************************************************)
(* brute_force_verify_batch: a file that no segment of the column covers.  *)
(***************************************************************************)
\* The pre-filter keeps a row that satisfies the query, if LIKE finds a token
\* in the text it comes from and the column of the file is Utf8.
LEMMA PreFilterKeeps ==
  ASSUME \A w \in Words : TermOf[w] \in Like[w], NEW file, file \notin LargeFiles,
         NEW query \in QueryType, query.terms # <<>>,
         NEW group, group.cells \in Seq(Cell), NEW r \in 0..num_rows(group) - 1,
         Satisfies(group.cells[r + 1], query)
  PROVE  pre_filter(file, group.cells[r + 1], query)
  <1>1. IF query.operator = "and" THEN \A t \in QueryTerms(query) : HasToken(group, r, t)
                                  ELSE \E t \in QueryTerms(query) : HasToken(group, r, t)
    BY RowSatisfies
  <1>2. PICK cell : cell = group.cells[r + 1] /\ cell \in Cell
    <2>1. r + 1 \in 1..Len(group.cells)
      BY LenProperties DEF num_rows
    <2> QED
      BY <2>1, ElementOfSeq
  <1>3. cell.words \in Seq(Words)
    <2>1. NullCell.words \in Seq(Words)
      BY EmptySeq DEF NullCell
    <2>2. cell \in [null : {FALSE}, words : Seq(Words)] => cell.words \in Seq(Words)
      OBVIOUS
    <2> QED
      BY <1>2, <2>1, <2>2 DEF Cell
  <1>4. ASSUME NEW t, HasToken(group, r, t) PROVE Likes(cell, t)
    <2>1. PICK w \in ToSet(cell.words) : TermOf[w] = t
      BY <1>2, <1>4 DEF HasToken
    <2>2. w \in Words
      BY <1>3, ElementsAreFinite
    <2> QED
      BY <2>1, <2>2 DEF Likes
  <1>5. query.operator \in {"and", "or"}
    BY DEF QueryType
  <1>6. CASE query.operator = "and"
    BY <1>1, <1>2, <1>4, <1>6 DEF pre_filter
  <1>7. CASE query.operator = "or"
    <2>1. query.operator # "and"
      BY <1>7
    <2> QED
      BY <1>1, <1>2, <1>4, <1>7, <2>1 DEF pre_filter
  <1> QED
    BY <1>5, <1>6, <1>7

\* ScanFile: the rows of the file that satisfy the query, once each.
LEMMA FileScanned ==
  ASSUME \A w \in Words : TermOf[w] \in Like[w], NEW file, file \notin LargeFiles,
         NEW query \in QueryType, query.terms # <<>>, data[file][query.column] \in Seq(RowGroup)
  PROVE  Once(ScanFile(file, query), RowsFor({file}, query))
  <1>1. PICK groups : groups = data[file][query.column] /\ groups \in Seq(RowGroup)
    OBVIOUS
  <1>2. PICK n \in Nat : n = Len(groups) /\ DOMAIN groups = 1..n /\ \A g \in 1..n : groups[g] \in RowGroup
    BY <1>1, LenProperties, ElementOfSeq
  <1>3. \A g \in 1..n : groups[g].cells \in Seq(Cell) /\ num_rows(groups[g]) \in Nat
    BY <1>2, LenProperties DEF RowGroup, num_rows
  <1> DEFINE Rows(g) == {r \in 0..num_rows(groups[g]) - 1 : pre_filter(file, groups[g].cells[r + 1], query)}
             Part(g) == Verified(file, query.column, g, Rows(g), query)
  <1>4. PICK found, parts : /\ found = [g \in 1..n |-> verify_rows(file, query.column, g, Rows(g), query)]
                            /\ parts = [g \in 1..n |-> Part(g)]
    OBVIOUS
  <1>5. ASSUME NEW g \in 1..n PROVE Once(found[g], parts[g])
    <2>1. PICK total \in Nat : total = num_rows(groups[g])
      BY <1>3
    <2>2. IsFiniteSet(0..total - 1) /\ 0..total - 1 \subseteq Nat
      <3>1. 0 \in Int /\ total - 1 \in Int
        OBVIOUS
      <3>2. IsFiniteSet(0..total - 1)
        BY ONLY <3>1, FS_Interval
      <3> QED
        BY <3>2
    <2>3. Rows(g) \in SUBSET Nat /\ IsFiniteSet(Rows(g))
      BY <2>1, <2>2, FS_Subset
    <2>4. PICK rows : rows = Rows(g)
      OBVIOUS
    <2>5. Once(verify_rows(file, query.column, g, rows, query), Verified(file, query.column, g, rows, query))
      BY <2>3, <2>4, VerifyOnce
    <2> HIDE DEF Rows
    <2> QED
      BY <1>4, <2>4, <2>5
  <1>6. ASSUME NEW g \in 1..n, NEW h \in 1..n, g # h PROVE parts[g] \cap parts[h] = {}
    <2>1. \A row \in parts[g] : row[2] = g
      BY <1>4 DEF Verified
    <2>2. \A row \in parts[h] : row[2] = h
      BY <1>4 DEF Verified
    <2> QED
      BY <1>6, <2>1, <2>2
  <1>7. ScanFile(file, query) = FlattenSeq(found)
    BY <1>1, <1>2, <1>4 DEF ScanFile
  <1>8. found = [g \in 1..n |-> found[g]]
    BY <1>4
  <1>9. Once(FlattenSeq(found), UNION {parts[g] : g \in 1..n})
    BY ONLY n \in Nat, <1>5, <1>6, <1>8, FlattenOnce
  <1>10. ASSUME NEW row PROVE row \in UNION {parts[g] : g \in 1..n} <=> row \in RowsFor({file}, query)
    <2>1. row \in UNION {parts[g] : g \in 1..n} <=> \E g \in 1..n : row \in Part(g)
      BY <1>4
    <2>2. ASSUME NEW g \in 1..n
          PROVE  row \in Part(g) <=> \E r \in 0..num_rows(groups[g]) - 1 :
                                       row = <<file, g, r>> /\ Satisfies(CellOf(file, query.column, g, r), query)
      <3>1. ASSUME NEW r \in 0..num_rows(groups[g]) - 1, Satisfies(CellOf(file, query.column, g, r), query)
            PROVE  r \in Rows(g)
        <4>1. PICK group : group = groups[g] /\ group.cells \in Seq(Cell)
          BY <1>3
        <4>2. Satisfies(group.cells[r + 1], query) /\ r \in 0..num_rows(group) - 1
          BY <1>1, <3>1, <4>1 DEF CellOf
        <4>3. pre_filter(file, group.cells[r + 1], query)
          BY <4>1, <4>2, PreFilterKeeps
        <4> QED
          BY <4>1, <4>3
      <3> HIDE DEF Rows
      <3>2. row \in Part(g) <=> \E r \in Rows(g) : row = <<file, g, r>> /\ Satisfies(CellOf(file, query.column, g, r), query)
        BY DEF Verified
      <3>3. Rows(g) \subseteq 0..num_rows(groups[g]) - 1
        BY DEF Rows
      <3> QED
        BY <3>1, <3>2, <3>3
    <2>3. row \in RowsFor({file}, query) <=>
             \E g \in 1..n : \E r \in 0..num_rows(groups[g]) - 1 :
               row = <<file, g, r>> /\ Satisfies(CellOf(file, query.column, g, r), query)
      <3>1. row \in RowsFor({file}, query) <=>
              \E f \in {file} : \E g \in DOMAIN data[f][query.column] :
                \E r \in 0..num_rows(data[f][query.column][g]) - 1 :
                  row = <<f, g, r>> /\ Satisfies(CellOf(f, query.column, g, r), query)
        BY ONLY RowsForAre
      <3> QED
        BY ONLY <1>1, <1>2, <3>1
    <2> QED
      BY <2>1, <2>2, <2>3
  <1>11. UNION {parts[g] : g \in 1..n} = RowsFor({file}, query)
    BY <1>10
  <1> QED
    BY <1>7, <1>9, <1>11

-----------------------------------------------------------------------------
(***************************************************************************)
(* run_query: the segments that are not pruned, and the files that no      *)
(* segment of the column covers.                                           *)
(***************************************************************************)
\* The bounds of a finite set of numbers.
LEMMA BoundsOfSet ==
  ASSUME NEW S \in SUBSET Nat, IsFiniteSet(S), S # {}
  PROVE  /\ Min(S) \in S /\ Max(S) \in S
         /\ \A x \in S : Min(S) <= x /\ x <= Max(S)
  <1>1. PICK s : /\ s = Ascending(S) /\ Once(s, S)
                 /\ \A i, j \in 1..Len(s) : i < j => s[i] < s[j]
    BY AscendingOnce
  <1>2. PICK n \in Nat : n = Len(s) /\ DOMAIN s = 1..n /\ S = {s[k] : k \in 1..n}
    BY <1>1, OnceCounts DEF Once, ToSet
  <1>3. 1 \in 1..n /\ n \in 1..n
    BY <1>2
  <1>4. \A k \in 1..n : s[k] \in Nat
    BY <1>2
  <1>5. ASSUME NEW k \in 1..n PROVE s[1] <= s[k] /\ s[k] <= s[n]
    <2>1. 1 = k \/ 1 < k
      OBVIOUS
    <2>2. k = n \/ k < n
      OBVIOUS
    <2>3. s[1] \in Nat /\ s[k] \in Nat /\ s[n] \in Nat
      BY <1>3, <1>4
    <2>4. s[1] <= s[k]
      BY <1>1, <1>2, <1>3, <2>1, <2>3
    <2>5. s[k] <= s[n]
      BY <1>1, <1>2, <1>3, <2>2, <2>3
    <2> QED
      BY <2>4, <2>5
  <1>6. s[1] \in S /\ \A x \in S : s[1] <= x
    BY <1>2, <1>3, <1>5
  <1>7. s[n] \in S /\ \A x \in S : x <= s[n]
    BY <1>2, <1>3, <1>5
  <1>8. Min(S) \in S /\ \A x \in S : Min(S) <= x
    BY <1>6 DEF Min
  <1>9. Max(S) \in S /\ \A x \in S : x <= Max(S)
    BY <1>7 DEF Max
  <1> QED
    BY <1>8, <1>9

\* A row that satisfies the query has one of its terms, or all of them.
LEMMA SatisfyingTerms ==
  ASSUME NEW segment, NEW contents, BatchFits(segment, contents), NEW query \in QueryType, query.terms # <<>>,
         NEW f \in 1..Len(contents), NEW g \in 1..Len(contents[f]), NEW r \in 0..num_rows(contents[f][g]) - 1,
         Satisfies(contents[f][g].cells[r + 1], query)
  PROVE  IF query.operator = "and" THEN QueryTerms(query) \subseteq DOMAIN segment.postings
                                   ELSE QueryTerms(query) \cap DOMAIN segment.postings # {}
  <1>1. PICK d \in ToSet(evaluate_segment(segment, query)) : Holds(segment.doc_table[d], <<f, g, r>>)
    BY RowIsOnCandidate
  <1>2. Candidates(segment, query, d)
    BY <1>1, EvaluateIsExact DEF BatchFits
  <1> QED
    BY <1>2 DEF Candidates

\* should_prune_segment: a segment that is left out has no row of the answer.
LEMMA PrunedHasNone ==
  ASSUME SearchInv, NEW m \in ToSet(table), NEW query \in QueryType, query.terms # <<>>, query.column = m.column,
         should_prune_segment(m.term_stats, query)
  PROVE  RowsFor(ToSet(m.files), query) = {}
  <1>1. PICK contents, built : contents = ContentsOf(data, m) /\ built = BuiltFrom(data, m)
    OBVIOUS
  <1>2. IsContents(contents) /\ IsSegment(built) /\ IsExact(built, contents)
    BY <1>1, ReaderOfManifest
  <1>3. built.doc_table = doc_table(contents)
    BY <1>1 DEF BuiltFrom, build_segment, SegmentOf, Segment
  <1>4. BatchFits(built, contents)
    <2>1. TableFits(built.doc_table, contents)
      BY <1>2, <1>3, TableIsPaged
    <2>2. built.doc_table \in Seq(PageEntry) /\ HasLists(built)
      BY <1>2 DEF IsSegment, HasLists
    <2> QED
      BY <1>2, <2>1, <2>2 DEF BatchFits
  <1>5. ManifestFits(data, m)
    BY DEF SearchInv
  <1>6. m.term_stats = TermStats(built)
    BY <1>1, <1>5 DEF ManifestFits
  <1>7. m.term_stats.min_term = min_term(built) /\ m.term_stats.max_term = max_term(built)
    BY <1>6 DEF TermStats
  <1>8. PICK known : known = DOMAIN built.postings
    OBVIOUS
  <1>9. known \in SUBSET Nat /\ IsFiniteSet(known)
    <2>1. known \subseteq Terms
      BY <1>2, <1>8 DEF IsExact
    <2> QED
      BY <1>2, <1>8, <2>1, PageIndexAssumption DEF IsSegment
  <1>10. known # {} /\ m.term_stats.min_term = Min(known) /\ m.term_stats.max_term = Max(known)
    <2>1. m.term_stats.min_term # NoTerm
      BY DEF should_prune_segment
    <2> QED
      BY <1>7, <1>8, <2>1 DEF min_term, max_term
  <1>11. \A t \in known : m.term_stats.min_term <= t /\ t <= m.term_stats.max_term
    BY <1>9, <1>10, BoundsOfSet
  <1>12. \/ query.operator = "and" /\ ~(QueryTerms(query) \subseteq known)
         \/ query.operator = "or" /\ QueryTerms(query) \cap known = {}
    BY <1>11 DEF should_prune_segment
  <1>13. ASSUME NEW row \in RowsFor(ToSet(m.files), query) PROVE FALSE
    <2>1. PICK n \in Nat : n = Len(contents) /\ DOMAIN contents = 1..n /\ DOMAIN m.files = 1..n
      BY <1>1, <1>2, LenProperties DEF IsContents, ContentsOf
    <2>2. PICK file \in ToSet(m.files) : \E g \in DOMAIN data[file][query.column] :
             \E r \in 0..num_rows(data[file][query.column][g]) - 1 :
               row = <<file, g, r>> /\ Satisfies(CellOf(file, query.column, g, r), query)
      BY <1>13, RowsForAre
    <2>3. PICK f \in 1..n : file = m.files[f]
      BY <2>1 DEF ToSet
    <2>4. contents[f] = data[file][query.column] /\ contents[f] \in Seq(RowGroup)
      <3>1. contents[f] = data[file][query.column]
        BY <1>1, <2>1, <2>3 DEF ContentsOf
      <3>2. contents[f] \in Seq(RowGroup)
        BY <1>2, <2>1, ElementOfSeq DEF IsContents
      <3> QED
        BY <3>1, <3>2
    <2>5. DOMAIN contents[f] = 1..Len(contents[f])
      BY <2>4, LenProperties
    <2>6. PICK g \in 1..Len(contents[f]) : \E r \in 0..num_rows(contents[f][g]) - 1 :
               Satisfies(CellOf(file, query.column, g, r), query)
      BY <2>2, <2>4, <2>5
    <2>7. PICK r \in 0..num_rows(contents[f][g]) - 1 : Satisfies(CellOf(file, query.column, g, r), query)
      BY <2>6
    <2>8. Satisfies(contents[f][g].cells[r + 1], query)
      BY <2>4, <2>7 DEF CellOf
    <2>9. IF query.operator = "and" THEN QueryTerms(query) \subseteq known
                                    ELSE QueryTerms(query) \cap known # {}
      BY <1>4, <1>8, <2>1, <2>8, SatisfyingTerms
    <2> QED
      BY <1>12, <2>9
  <1> QED
    BY <1>13

\* What the theorem needs of the batches: a batch does not name a file twice, and
\* no file is in two batches of the same column.
BatchesAreApart ==
  \A J \in JobSets : \A j, k \in J :
    /\ IsInjective(j.files)
    /\ j # k /\ j.column = k.column => ToSet(j.files) \cap ToSet(k.files) = {}

\* Then no two manifests of a column have a file in common.
LEMMA ManifestsApart ==
  ASSUME SearchInv, BatchesAreApart, NEW i \in DOMAIN table
  PROVE  /\ table[i] \in ToSet(table) /\ ManifestFits(data, table[i]) /\ IsInjective(table[i].files)
         /\ \A k \in DOMAIN table : table[i].column = table[k].column /\ i # k
              => ToSet(table[i].files) \cap ToSet(table[k].files) = {}
  <1>1. \A k \in DOMAIN table : table[k] \in ToSet(table)
    BY DEF ToSet
  <1>2. jobs \in JobSets
    BY DEF SearchInv
  <1>3. PICK job \in jobs : IsOf(table[i], job)
    BY <1>1 DEF SearchInv
  <1>4. ASSUME NEW k \in DOMAIN table, table[i].column = table[k].column, i # k
        PROVE  ToSet(table[i].files) \cap ToSet(table[k].files) = {}
    <2>1. PICK other \in jobs : IsOf(table[k], other)
      BY <1>1 DEF SearchInv
    <2>2. ToSet(table[i].files) # ToSet(table[k].files)
      BY <1>4 DEF SearchInv
    <2>3. job # other
      BY <1>3, <2>1, <2>2 DEF IsOf
    <2> QED
      BY <1>2, <1>3, <1>4, <2>1, <2>3 DEF IsOf, BatchesAreApart
  <1>5. IsInjective(table[i].files)
    BY <1>2, <1>3 DEF IsOf, BatchesAreApart
  <1> QED
    BY <1>1, <1>4, <1>5 DEF SearchInv

\* A row of some files is of one of them.
LEMMA RowsForFile ==
  ASSUME NEW files, NEW query, NEW row \in RowsFor(files, query) PROVE row[1] \in files
  BY RowsForAre

\* A set, put together from parts.
MadeOf(F, part, I) == \A f : f \in F <=> \E i \in I : f \in part[i]

\* The rows of the files of several batches.
LEMMA RowsForAll ==
  ASSUME NEW I, NEW part, NEW F, MadeOf(F, part, I), NEW query
  PROVE  \A row : row \in RowsFor(F, query) <=> \E i \in I : row \in RowsFor(part[i], query)
  <1>1. ASSUME NEW row, row \in RowsFor(F, query)
        PROVE  \E i \in I : row \in RowsFor(part[i], query)
    <2>1. PICK f \in F : \E g \in DOMAIN data[f][query.column] :
             \E r \in 0..num_rows(data[f][query.column][g]) - 1 :
               row = <<f, g, r>> /\ Satisfies(CellOf(f, query.column, g, r), query)
      BY <1>1, RowsForAre
    <2>2. PICK i \in I : f \in part[i]
      BY DEF MadeOf
    <2> QED
      BY <2>1, <2>2, RowsForAre
  <1>2. ASSUME NEW row, NEW i \in I, row \in RowsFor(part[i], query)
        PROVE  row \in RowsFor(F, query)
    <2>1. PICK f \in part[i] : \E g \in DOMAIN data[f][query.column] :
             \E r \in 0..num_rows(data[f][query.column][g]) - 1 :
               row = <<f, g, r>> /\ Satisfies(CellOf(f, query.column, g, r), query)
      BY <1>2, RowsForAre
    <2>2. f \in F
      BY DEF MadeOf
    <2> QED
      BY <2>1, <2>2, RowsForAre
  <1> QED
    BY <1>1, <1>2

\* setup_query: the segments that open, of those that are not pruned.
Opened(query) == {n \in SegmentsToSearch(query) : ~table[n].damaged}

\* What they are read as.
LEMMA ReadersAre ==
  ASSUME FindsNarrowChanges, SearchInv, NEW query
  PROVE  \E opened : /\ Once(opened, Opened(query))
                     /\ DOMAIN Readers(query) = 1..Len(opened)
                     /\ Readers(query) = [k \in 1..Len(opened) |-> Readers(query)[k]]
                     /\ \A k \in 1..Len(opened) : Readers(query)[k] \in table[opened[k]].reader
  <1>1. PICK n \in Nat : n = Len(table) /\ DOMAIN table = 1..n
    BY LenProperties DEF SearchInv
  <1>2. SegmentsToSearch(query) \subseteq 1..n
    BY <1>1 DEF SegmentsToSearch, ColumnManifests
  <1>3. \A k \in 1..n : table[k].reader # {} <=> ~table[k].damaged
    <2>1. ASSUME NEW k \in 1..n PROVE table[k].reader # {} <=> ~table[k].damaged
      <3>1. PICK m : m = table[k] /\ m \in ToSet(table)
        BY <1>1 DEF ToSet
      <3>2. CASE m.damaged
        BY <3>1, <3>2, ReaderOfManifest
      <3>3. CASE ~m.damaged
        <4>1. m.reader = {ReaderOf(BuiltFrom(data, m), m.files)}
          BY <3>1, <3>3, ReaderOfManifest
        <4> QED
          BY <3>1, <3>3, <4>1
      <3> QED
        BY <3>2, <3>3
    <2> QED
      BY <2>1
  <1>4. PICK S : S = {k \in SegmentsToSearch(query) : table[k].reader # {}}
                 /\ S = {k \in SegmentsToSearch(query) : ~table[k].damaged} /\ S = Opened(query)
    BY <1>2, <1>3 DEF Opened
  <1>5. S \in SUBSET Nat /\ IsFiniteSet(S)
    <2>1. IsFiniteSet(1..n) /\ S \in SUBSET (1..n)
      BY <1>2, <1>4, FS_Interval
    <2>2. IsFiniteSet(S)
      BY <2>1, FS_Subset
    <2>3. S \in SUBSET Nat
      BY <2>1
    <2> QED
      BY <2>2, <2>3
  <1>6. PICK opened : opened = Ascending(S) /\ Once(opened, S)
    BY <1>5, AscendingOnce
  <1>7. DOMAIN opened = 1..Len(opened) /\ \A k \in 1..Len(opened) : opened[k] \in S
    BY <1>6, OnceCounts, ElementOfSeq DEF Once
  <1>8. Readers(query) = [k \in 1..Len(opened) |-> CHOOSE reader \in table[opened[k]].reader : TRUE]
    <2> DEFINE O == Ascending({k \in SegmentsToSearch(query) : table[k].reader # {}})
    <2>1. Readers(query) = [k \in DOMAIN O |-> CHOOSE reader \in table[O[k]].reader : TRUE]
      BY DEF Readers
    <2>2. O = opened
      BY <1>4, <1>6
    <2> HIDE DEF O
    <2> QED
      BY <1>7, <2>1, <2>2
  <1>9. \A k \in 1..Len(opened) : Readers(query)[k] \in table[opened[k]].reader
    <2>1. \A k \in 1..Len(opened) : table[opened[k]].reader # {}
      BY <1>4, <1>7
    <2> QED
      BY <1>8, <2>1
  <1>10. Once(opened, Opened(query))
    BY <1>4, <1>6
  <1>11. DOMAIN Readers(query) = 1..Len(opened) /\ Readers(query) = [k \in 1..Len(opened) |-> Readers(query)[k]]
    BY <1>8
  <1> QED
    BY ONLY <1>9, <1>10, <1>11

\* Whatever satisfies asked satisfies query.
Narrows(asked, query) ==
  asked.column = query.column /\ \A files : RowsFor(files, asked) \subseteq RowsFor(files, query)

\* A set, divided into n parts that have nothing in common.
Divided(S, parts, n) ==
  /\ \A row : row \in S <=> \E k \in 1..n : row \in parts[k]
  /\ \A j, k \in 1..n : j # k => parts[j] \cap parts[k] = {}

RowsOfEach(places, asked) == [k \in 1..Len(places) |-> RowsFor(ToSet(table[places[k]].files), asked)]

\* The segments that are searched cover what any of the readable segments has of
\* the answer, or of a part of it, and have nothing in common.
LEMMA SegmentsCover ==
  ASSUME SearchInv, BatchesAreApart, NEW query \in QueryType, query.terms # <<>>,
         NEW asked, Narrows(asked, query),
         NEW opened, Once(opened, Opened(query)),
         NEW parts, parts = RowsOfEach(opened, asked)
  PROVE  Divided(RowsFor(FilesCovered(query.column, FALSE), asked), parts, Len(opened))
  <1>1. PICK n \in Nat : n = Len(opened) /\ DOMAIN opened = 1..n
                         /\ \A k \in 1..n : opened[k] \in Opened(query)
    BY OnceCounts, ElementOfSeq DEF Once
  <1>2. PICK m : m = [k \in 1..n |-> table[opened[k]]]
    OBVIOUS
  <1>3. ASSUME NEW k \in 1..n
        PROVE  /\ opened[k] \in DOMAIN table /\ m[k] = table[opened[k]] /\ m[k] \in ToSet(table)
               /\ m[k].column = query.column /\ ~m[k].damaged
    BY <1>1, <1>2 DEF Opened, SegmentsToSearch, ColumnManifests, ToSet
  <1>4. \A k \in 1..n : parts[k] = RowsFor(ToSet(m[k].files), asked)
    BY <1>1, <1>2 DEF RowsOfEach
  <1>5. ASSUME NEW j \in 1..n, NEW k \in 1..n, j # k PROVE parts[j] \cap parts[k] = {}
    <2>1. opened[j] # opened[k]
      BY <1>1, <1>5 DEF Once
    <2>2. ToSet(m[j].files) \cap ToSet(m[k].files) = {}
      <3>1. /\ opened[j] \in DOMAIN table /\ opened[k] \in DOMAIN table
            /\ table[opened[j]].column = table[opened[k]].column
            /\ m[j] = table[opened[j]] /\ m[k] = table[opened[k]]
        BY <1>3
      <3> QED
        BY <2>1, <3>1, ManifestsApart
    <2>3. ASSUME NEW row \in parts[j], row \in parts[k] PROVE FALSE
      <3>1. row \in RowsFor(ToSet(m[j].files), asked) /\ row \in RowsFor(ToSet(m[k].files), asked)
        BY <1>4, <2>3
      <3>2. row[1] \in ToSet(m[j].files) /\ row[1] \in ToSet(m[k].files)
        BY <3>1, RowsForFile
      <3> QED
        BY <2>2, <3>2
    <2> QED
      BY <2>3
  <1>6. \A row : row \in RowsFor(FilesCovered(query.column, FALSE), asked) <=> \E k \in 1..n : row \in parts[k]
    <2>1. PICK M : M = {k \in ToSet(table) : k.column = query.column /\ k.damaged = FALSE}
      OBVIOUS
    <2>2. PICK F : F = FilesCovered(query.column, FALSE) /\ F = UNION {ToSet(k.files) : k \in M}
      BY <2>1 DEF FilesCovered
    <2>3. PICK of : of = [k \in M |-> ToSet(k.files)]
      OBVIOUS
    <2>4. \A f : f \in F <=> \E k \in M : f \in of[k]
      BY <2>2, <2>3
    <2>5. \A row : row \in RowsFor(F, asked) <=> \E k \in M : row \in RowsFor(of[k], asked)
      <3>1. PICK G, q : G = F /\ q = asked /\ MadeOf(G, of, M)
        BY <2>4 DEF MadeOf
      <3>2. \A row : row \in RowsFor(G, q) <=> \E k \in M : row \in RowsFor(of[k], q)
        BY ONLY <3>1, RowsForAll
      <3> QED
        BY <3>1, <3>2
    <2>6. ASSUME NEW k \in 1..n PROVE \E i \in M : parts[k] = RowsFor(of[i], asked)
      <3>1. m[k] \in M
        BY <1>3, <2>1
      <3> QED
        BY <1>4, <2>3, <3>1
    <2>7. ASSUME NEW i \in M, NEW row \in RowsFor(of[i], asked) PROVE \E k \in 1..n : row \in parts[k]
      <3>1. PICK p \in DOMAIN table : i = table[p]
        BY <2>1 DEF ToSet
      <3>2. i \in ToSet(table) /\ i.column = query.column /\ i.damaged = FALSE /\ of[i] = ToSet(i.files)
        BY <2>1, <2>3
      <3>3. ~should_prune_segment(i.term_stats, query)
        <4>1. CASE should_prune_segment(i.term_stats, query)
          <5>1. RowsFor(ToSet(i.files), query) = {}
            BY <3>2, <4>1, PrunedHasNone
          <5>2. RowsFor(ToSet(i.files), asked) = {}
            BY <5>1 DEF Narrows
          <5> QED
            BY <2>7, <3>2, <5>2
        <4> QED
          BY <4>1
      <3>4. p \in Opened(query)
        BY <3>1, <3>2, <3>3 DEF Opened, SegmentsToSearch, ColumnManifests
      <3>5. PICK k \in 1..n : opened[k] = p
        BY <1>1, <3>4 DEF Once, ToSet
      <3>6. m[k] = i
        BY <1>2, <3>1, <3>5
      <3>7. parts[k] = RowsFor(of[i], asked)
        BY <1>4, <3>2, <3>6
      <3> QED
        BY <2>7, <3>7
    <2>8. \A row : row \in RowsFor(F, asked) <=> \E k \in 1..n : row \in parts[k]
      BY <2>5, <2>6, <2>7
    <2> QED
      BY <2>2, <2>8
  <1> QED
    BY <1>1, <1>5, <1>6 DEF Divided

\* The segments of the column: the rows of all their files, once each.
LEMMA SegmentsSearched ==
  ASSUME FindsNarrowChanges, SearchInv, BatchesAreApart, NEW query \in QueryType, query.terms # <<>>
  PROVE  LET readers == Readers(query)
         IN Once(FlattenSeq([n \in DOMAIN readers |-> SearchSegment(readers[n], query)]),
                 RowsFor(FilesCovered(query.column, FALSE), query))
  <1>1. PICK opened : /\ Once(opened, Opened(query))
                      /\ DOMAIN Readers(query) = 1..Len(opened)
                      /\ \A k \in 1..Len(opened) : Readers(query)[k] \in table[opened[k]].reader
    BY ReadersAre
  <1>2. PICK n \in Nat : n = Len(opened) /\ DOMAIN opened = 1..n
                         /\ \A k \in 1..n : opened[k] \in Opened(query)
    BY <1>1, OnceCounts, ElementOfSeq DEF Once
  <1>3. PICK m : m = [k \in 1..n |-> table[opened[k]]]
    OBVIOUS
  <1>4. ASSUME NEW k \in 1..n
        PROVE  /\ opened[k] \in DOMAIN table /\ m[k] \in ToSet(table) /\ m[k].column = query.column /\ ~m[k].damaged
               /\ m[k] = table[opened[k]] /\ Readers(query)[k] \in m[k].reader
    BY <1>1, <1>2, <1>3 DEF Opened, SegmentsToSearch, ColumnManifests, ToSet
  <1>5. PICK found, parts : /\ found = [k \in 1..n |-> SearchSegment(Readers(query)[k], query)]
                            /\ parts = RowsOfEach(opened, query)
    OBVIOUS
  <1>6. ASSUME NEW k \in 1..n PROVE Once(found[k], parts[k])
    <2>1. PICK segment, manifest : segment = Readers(query)[k] /\ manifest = m[k]
      OBVIOUS
    <2>2. PICK files, contents : files = manifest.files /\ contents = InColumn(files, query)
      OBVIOUS
    <2>3. /\ manifest \in ToSet(table) /\ ~manifest.damaged /\ segment \in manifest.reader
          /\ manifest.column = query.column /\ opened[k] \in DOMAIN table /\ manifest = table[opened[k]]
      BY <1>4, <2>1
    <2>4. contents = ContentsOf(data, manifest)
      BY <2>2, <2>3 DEF ContentsOf, InColumn
    <2>5. BatchFits(segment, contents) /\ segment.files = files
      BY <2>2, <2>3, <2>4, ReaderFits
    <2>6. IsInjective(files)
      BY <2>2, <2>3, ManifestsApart
    <2>7. Once(SearchSegment(segment, query), RowsFor(ToSet(files), query))
      BY <2>2, <2>5, <2>6, SegmentSearched
    <2>8. parts[k] = RowsFor(ToSet(files), query)
      BY <1>2, <1>5, <2>2, <2>3 DEF RowsOfEach
    <2> QED
      BY <1>5, <2>1, <2>7, <2>8
  <1>7. /\ UNION {parts[k] : k \in 1..n} = RowsFor(FilesCovered(query.column, FALSE), query)
        /\ \A j, k \in 1..n : j # k => parts[j] \cap parts[k] = {}
    <2>1. Narrows(query, query)
      BY DEF Narrows
    <2>0. Divided(RowsFor(FilesCovered(query.column, FALSE), query), parts, Len(opened))
      BY <1>1, <1>5, <2>1, SegmentsCover
    <2>2. \A row : row \in RowsFor(FilesCovered(query.column, FALSE), query)
                      <=> \E k \in 1..Len(opened) : row \in parts[k]
      BY <2>0 DEF Divided
    <2>3. \A j, k \in 1..Len(opened) : j # k => parts[j] \cap parts[k] = {}
      BY <2>0 DEF Divided
    <2>4. \A row : row \in RowsFor(FilesCovered(query.column, FALSE), query) <=> \E k \in 1..n : row \in parts[k]
      BY <1>2, <2>2
    <2>5. UNION {parts[k] : k \in 1..n} = RowsFor(FilesCovered(query.column, FALSE), query)
      BY <2>4
    <2> QED
      BY <1>2, <2>3, <2>5
  <1>8. found = [k \in 1..n |-> found[k]]
    BY <1>5
  <1>9. Once(FlattenSeq(found), UNION {parts[k] : k \in 1..n})
    BY <1>6, <1>7, <1>8, FlattenOnce
  <1>10. PICK readers : readers = Readers(query)
    OBVIOUS
  <1>11. FlattenSeq([k \in DOMAIN readers |-> SearchSegment(readers[k], query)]) = FlattenSeq(found)
    BY <1>1, <1>2, <1>5, <1>10
  <1> QED
    BY <1>7, <1>9, <1>10, <1>11

\* The files of the table are finitely many, and each has its content.
LEMMA FilesAre ==
  ASSUME SearchInv
  PROVE  /\ IsFiniteSet(all_files)
         /\ \A f \in all_files, c \in Columns : data[f][c] \in Seq(RowGroup)
  <1>1. ASSUME NEW k \in ToSet(table) PROVE IsFiniteSet(ToSet(k.files)) /\ ToSet(k.files) \subseteq Files
    <2>1. k.files \in Seq(Files)
      BY DEF SearchInv, ManifestFits
    <2> QED
      BY <2>1, ElementsAreFinite
  <1>2. PICK n \in Nat : n = Len(table) /\ DOMAIN table = 1..n
    BY LenProperties DEF SearchInv
  <1>3. PICK parts : parts = {ToSet(k.files) : k \in ToSet(table)}
    OBVIOUS
  <1>4. IsFiniteSet(parts)
    <2>1. IsFiniteSet(ToSet(table))
      BY ElementsAreFinite DEF SearchInv
    <2>2. PICK s : s = [k \in ToSet(table) |-> ToSet(k.files)]
      OBVIOUS
    <2>3. s \in Surjection(ToSet(table), parts)
      <3>1. s \in [ToSet(table) -> parts]
        BY <1>3, <2>2
      <3>2. \A x \in parts : \E k \in ToSet(table) : s[k] = x
        BY <1>3, <2>2
      <3> QED
        BY <3>1, <3>2 DEF Surjection
    <2> QED
      BY <2>1, <2>3, FS_Surjection
  <1>5. IsFiniteSet(UNION parts)
    <2>1. \A x \in parts : IsFiniteSet(x)
      BY <1>1, <1>3
    <2> QED
      BY <1>4, <2>1, FS_UNION
  <1>6. all_files = UNION parts
    BY <1>3 DEF all_files
  <1>7. data \in [Files -> [Columns -> Seq(RowGroup)]]
    BY SearchAssumption DEF SearchInv
  <1>8. all_files \subseteq Files
    BY <1>1, <1>3, <1>6
  <1> QED
    BY <1>5, <1>6, <1>7, <1>8

\* The files that are scanned: their rows, once each.
LEMMA FilesScanned ==
  ASSUME SearchInv, \A w \in Words : TermOf[w] \in Like[w], LargeFiles = {},
         NEW query \in QueryType, query.terms # <<>>
  PROVE  LET scanned == SetToSeq(unindexed_files(query))
         IN Once(FlattenSeq([n \in DOMAIN scanned |-> ScanFile(scanned[n], query)]),
                 RowsFor(unindexed_files(query), query))
  <1>1. PICK F : F = unindexed_files(query) /\ F \subseteq all_files
    BY DEF unindexed_files
  <1>2. IsFiniteSet(F)
    BY <1>1, FilesAre, FS_Subset
  <1>3. PICK scanned : scanned = SetToSeq(F) /\ Once(scanned, F)
    BY <1>2, SetToSeqOnce
  <1>4. PICK n \in Nat : n = Len(scanned) /\ DOMAIN scanned = 1..n /\ \A k \in 1..n : scanned[k] \in F
    BY <1>3, OnceCounts, ElementOfSeq DEF Once
  <1>5. PICK found, parts : /\ found = [k \in 1..n |-> ScanFile(scanned[k], query)]
                            /\ parts = [k \in 1..n |-> RowsFor({scanned[k]}, query)]
    OBVIOUS
  <1>6. ASSUME NEW k \in 1..n PROVE Once(found[k], parts[k])
    <2>1. PICK file : file = scanned[k] /\ file \in all_files
      BY <1>1, <1>4
    <2>2. query.column \in Columns
      BY DEF QueryType
    <2>3. data[file][query.column] \in Seq(RowGroup) /\ file \notin LargeFiles
      BY <2>1, <2>2, FilesAre
    <2>4. Once(ScanFile(file, query), RowsFor({file}, query))
      BY <2>3, FileScanned
    <2> QED
      BY <1>5, <2>1, <2>4
  <1>7. ASSUME NEW j \in 1..n, NEW k \in 1..n, j # k PROVE parts[j] \cap parts[k] = {}
    <2>1. scanned[j] # scanned[k]
      BY <1>3, <1>4, <1>7 DEF Once
    <2>2. ASSUME NEW row \in parts[j], row \in parts[k] PROVE FALSE
      <3>1. row \in RowsFor({scanned[j]}, query) /\ row \in RowsFor({scanned[k]}, query)
        BY <1>5, <2>2
      <3>2. row[1] \in {scanned[j]} /\ row[1] \in {scanned[k]}
        BY <3>1, RowsForFile
      <3> QED
        BY <2>1, <3>2
    <2> QED
      BY <2>2
  <1>8. found = [k \in 1..n |-> found[k]]
    BY <1>5
  <1>9. Once(FlattenSeq(found), UNION {parts[k] : k \in 1..n})
    BY <1>6, <1>7, <1>8, FlattenOnce
  <1>10. UNION {parts[k] : k \in 1..n} = RowsFor(F, query)
    <2>1. PICK part : part = [k \in 1..n |-> {scanned[k]}]
      OBVIOUS
    <2>2. \A f : f \in F <=> \E k \in 1..n : f \in part[k]
      <3>1. \A f \in F : \E k \in 1..n : f = scanned[k]
        BY <1>3, <1>4 DEF Once, ToSet
      <3> QED
        BY <1>4, <2>1, <3>1
    <2>3. \A row : row \in RowsFor(F, query) <=> \E k \in 1..n : row \in RowsFor(part[k], query)
      <3>1. PICK I, G, q : I = 1..n /\ G = F /\ q = query /\ MadeOf(G, part, I)
        BY <2>2 DEF MadeOf
      <3>2. \A row : row \in RowsFor(G, q) <=> \E k \in I : row \in RowsFor(part[k], q)
        BY ONLY <3>1, RowsForAll
      <3> QED
        BY <3>1, <3>2
    <2>4. \A k \in 1..n : parts[k] = RowsFor(part[k], query)
      BY <1>5, <2>1
    <2> QED
      BY <2>3, <2>4
  <1>11. FlattenSeq([k \in DOMAIN scanned |-> ScanFile(scanned[k], query)]) = FlattenSeq(found)
    BY <1>4, <1>5
  <1> QED
    BY <1>1, <1>3, <1>9, <1>10, <1>11

\* A row of the table satisfies a query if it has its terms.
LEMMA RowHasTerms ==
  ASSUME SearchInv, NEW query \in QueryType, query.terms # <<>>,
         NEW files, files \subseteq all_files, NEW row \in RowsOf(query.column, files)
  PROVE  Satisfies(CellOf(row[1], query.column, row[2], row[3]), query)
           <=> IF query.operator = "and" THEN \A t \in QueryTerms(query) : HasTerm(row, query.column, t)
                                         ELSE \E t \in QueryTerms(query) : HasTerm(row, query.column, t)
  <1>1. PICK f \in files : \E g \in DOMAIN data[f][query.column] :
          \E r \in 0..num_rows(data[f][query.column][g]) - 1 : row = <<f, g, r>>
    BY DEF RowsOf, RowsIn
  <1>2. PICK g \in DOMAIN data[f][query.column] :
          \E r \in 0..num_rows(data[f][query.column][g]) - 1 : row = <<f, g, r>>
    BY <1>1
  <1>3. PICK group : group = data[f][query.column][g]
    OBVIOUS
  <1>4. PICK r \in 0..num_rows(group) - 1 : row = <<f, g, r>> /\ row[1] = f /\ row[2] = g /\ row[3] = r
    BY <1>2, <1>3
  <1>5. group.cells \in Seq(Cell)
    <2>1. query.column \in Columns
      BY DEF QueryType
    <2>2. data[f][query.column] \in Seq(RowGroup)
      BY <2>1, FilesAre
    <2>3. group \in RowGroup
      BY <1>2, <1>3, <2>2, ElementOfSeq, LenProperties
    <2> QED
      BY <2>3 DEF RowGroup
  <1>6. PICK cell : cell = group.cells[r + 1] /\ cell \in Cell
    <2>1. r + 1 \in 1..Len(group.cells)
      BY <1>5, LenProperties DEF num_rows
    <2> QED
      BY <1>5, <2>1, ElementOfSeq
  <1>7. cell.null \in BOOLEAN /\ (cell.null => ToSet(cell.words) = {})
    <2>1. CASE cell = NullCell
      BY <2>1, EmptyList DEF NullCell
    <2>2. CASE cell # NullCell
      <3>1. cell \in [null : {FALSE}, words : Seq(Words)]
        BY <1>6, <2>2 DEF Cell
      <3>2. cell.null = FALSE
        BY <3>1
      <3> QED
        BY <3>2
    <2> QED
      BY <2>1, <2>2
  <1>8. ASSUME NEW t PROVE HasTerm(row, query.column, t) <=> HasToken(group, r, t)
    <2>1. data[row[1]][query.column][row[2]].cells[row[3] + 1] = cell
      BY <1>3, <1>4, <1>6
    <2>2. HasTerm(row, query.column, t) <=> ~cell.null /\ \E w \in ToSet(cell.words) : TermOf[w] = t
      BY <2>1 DEF HasTerm
    <2>3. HasToken(group, r, t) <=> \E w \in ToSet(cell.words) : TermOf[w] = t
      BY <1>6 DEF HasToken
    <2> QED
      BY <1>7, <2>2, <2>3
  <1>9. Satisfies(group.cells[r + 1], query)
          <=> IF query.operator = "and" THEN \A t \in QueryTerms(query) : HasToken(group, r, t)
                                        ELSE \E t \in QueryTerms(query) : HasToken(group, r, t)
    BY <1>5, RowSatisfies
  <1>10. CellOf(row[1], query.column, row[2], row[3]) = group.cells[r + 1]
    BY <1>3, <1>4 DEF CellOf
  <1> QED
    BY <1>8, <1>9, <1>10

\* The reference: the rows of the files whose segment is not damaged.
LEMMA SatisfyingAre ==
  ASSUME SearchInv, NEW query \in QueryType
  PROVE  Satisfying(query) = IF query.terms = <<>> THEN {}
                             ELSE RowsFor(all_files \ FilesCovered(query.column, TRUE), query)
  <1>1. CASE query.terms = <<>>
    BY <1>1 DEF Satisfying
  <1>2. CASE query.terms # <<>>
    <2>1. PICK F : F = all_files \ FilesCovered(query.column, TRUE)
      OBVIOUS
    <2>2. PICK R : R = RowsOf(query.column, F)
      OBVIOUS
    <2>3. ASSUME NEW row \in R
          PROVE  Satisfies(CellOf(row[1], query.column, row[2], row[3]), query)
                   <=> IF query.operator = "and" THEN \A t \in QueryTerms(query) : HasTerm(row, query.column, t)
                                                 ELSE \E t \in QueryTerms(query) : HasTerm(row, query.column, t)
      BY <1>2, <2>1, <2>2, RowHasTerms
    <2>4. ASSUME NEW row PROVE row \in Satisfying(query) <=> row \in RowsFor(F, query)
      <3>1. row \in Satisfying(query) <=>
              /\ row \in R
              /\ IF query.operator = "and" THEN \A t \in QueryTerms(query) : HasTerm(row, query.column, t)
                                           ELSE \E t \in QueryTerms(query) : HasTerm(row, query.column, t)
        BY <1>2, <2>1, <2>2 DEF Satisfying
      <3>2. row \in RowsFor(F, query) <=>
              row \in R /\ Satisfies(CellOf(row[1], query.column, row[2], row[3]), query)
        BY <2>2 DEF RowsFor
      <3> QED
        BY <2>3, <3>1, <3>2
    <2> QED
      BY <1>2, <2>1, <2>4
  <1> QED
    BY <1>1, <1>2

\* The files of the table are in a segment of the column that can be read, in one
\* that cannot, or in none.
LEMMA FilesOfTable ==
  ASSUME SearchInv, BatchesAreApart, NEW query
  PROVE  LET readable == FilesCovered(query.column, FALSE)
         IN /\ all_files \ FilesCovered(query.column, TRUE) = readable \cup unindexed_files(query)
            /\ readable \cap unindexed_files(query) = {}
  <1>1. PICK readable, damaged : readable = FilesCovered(query.column, FALSE) /\ damaged = FilesCovered(query.column, TRUE)
    OBVIOUS
  <1>2. \A f : f \in readable <=> \E n \in DOMAIN table :
                 table[n].column = query.column /\ table[n].damaged = FALSE /\ f \in ToSet(table[n].files)
    BY <1>1 DEF FilesCovered, ToSet
  <1>3. \A f : f \in damaged <=> \E n \in DOMAIN table :
                 table[n].column = query.column /\ table[n].damaged = TRUE /\ f \in ToSet(table[n].files)
    BY <1>1 DEF FilesCovered, ToSet
  <1>4. \A f : f \in all_files <=> \E n \in DOMAIN table : f \in ToSet(table[n].files)
    BY DEF all_files, ToSet
  <1>5. \A n \in DOMAIN table : table[n].damaged \in BOOLEAN
    BY DEF SearchInv, ManifestFits, ToSet
  <1>6. \A f : f \in unindexed_files(query) <=>
                 f \in all_files /\ ~\E n \in DOMAIN table : table[n].column = query.column /\ f \in ToSet(table[n].files)
    BY DEF unindexed_files, ColumnManifests
  <1>7. readable \cap damaged = {}
    <2> SUFFICES ASSUME NEW f \in readable, f \in damaged PROVE FALSE
      OBVIOUS
    <2>1. PICK n \in DOMAIN table : table[n].column = query.column /\ table[n].damaged = FALSE /\ f \in ToSet(table[n].files)
      BY <1>2
    <2>2. PICK i \in DOMAIN table : table[i].column = query.column /\ table[i].damaged = TRUE /\ f \in ToSet(table[i].files)
      BY <1>3
    <2>3. n # i
      BY <2>1, <2>2
    <2>4. ToSet(table[n].files) \cap ToSet(table[i].files) = {}
      BY <2>1, <2>2, <2>3, ManifestsApart
    <2> QED
      BY <2>1, <2>2, <2>4
  <1>8. ASSUME NEW f PROVE f \in all_files \ damaged <=> f \in readable \cup unindexed_files(query)
    BY <1>2, <1>3, <1>4, <1>5, <1>6, <1>7
  <1>9. readable \cap unindexed_files(query) = {}
    BY <1>2, <1>6
  <1> QED
    BY <1>1, <1>8, <1>9

(***************************************************************************)
(* Whatever is indexed, in whichever batches and for whichever column, and *)
(* whether a segment is damaged: the answer to any query is exactly the    *)
(* rows that satisfy it, each once, except that the rows of the files of   *)
(* the damaged segment are missing from queries of its column.  That no    *)
(* file is in two batches of a column, that LIKE finds a token in the text *)
(* it comes from and that columns are Utf8 is assumed here; the runs       *)
(* SearchDecomposed and SearchLarge show what becomes of the answers       *)
(* without the last two.  The checksum finds changes within 32 bits.       *)
(***************************************************************************)
THEOREM EveryAnswerIsExact ==
  ASSUME BatchesAreApart, \A w \in Words : TermOf[w] \in Like[w], LargeFiles = {},
         FindsNarrowChanges
  PROVE  Spec => []AnswersAreExact
  <1>1. SearchInv => AnswersAreExact
    <2> SUFFICES ASSUME SearchInv, NEW query \in Queries
                 PROVE  /\ ToSet(run_query(query)) = Satisfying(query)
                        /\ Len(run_query(query)) = Cardinality(Satisfying(query))
      BY DEF AnswersAreExact
    <2>1. query \in QueryType
      BY SearchAssumption DEF QueryType
    <2>2. Once(run_query(query), Satisfying(query))
      <3>1. CASE query.terms = <<>>
        <4>1. run_query(query) = <<>> /\ Satisfying(query) = {}
          BY <2>1, <3>1, SatisfyingAre DEF run_query
        <4> QED
          BY <4>1, OnceNothing
      <3>2. CASE query.terms # <<>>
        <4> DEFINE readers == Readers(query)
                   scanned == SetToSeq(unindexed_files(query))
                   found == FlattenSeq([n \in DOMAIN readers |-> SearchSegment(readers[n], query)])
                   read == FlattenSeq([n \in DOMAIN scanned |-> ScanFile(scanned[n], query)])
                   readable == FilesCovered(query.column, FALSE)
                   others == unindexed_files(query)
        <4>1. run_query(query) = found \o read
          BY <3>2 DEF run_query
        <4>2. Once(found, RowsFor(readable, query))
          BY <2>1, <3>2, SegmentsSearched
        <4>3. Once(read, RowsFor(others, query))
          BY <2>1, <3>2, FilesScanned
        <4>4. /\ all_files \ FilesCovered(query.column, TRUE) = readable \cup others
              /\ readable \cap others = {}
          BY FilesOfTable
        <4>5. Satisfying(query) = RowsFor(readable \cup others, query)
          BY <2>1, <3>2, <4>4, SatisfyingAre
        <4> HIDE DEF found, read, readable, others
        <4>6. RowsFor(readable \cup others, query) = RowsFor(readable, query) \cup RowsFor(others, query)
          <5>1. \A row : row \in RowsFor(readable \cup others, query)
                           <=> row \in RowsFor(readable, query) \cup RowsFor(others, query)
            BY RowsForAre
          <5> QED
            BY <5>1
        <4>7. RowsFor(readable, query) \cap RowsFor(others, query) = {}
          BY <4>4, RowsForFile
        <4>8. PICK A, B : A = RowsFor(readable, query) /\ B = RowsFor(others, query)
          OBVIOUS
        <4>9. Once(found, A) /\ Once(read, B) /\ A \cap B = {}
          BY <4>2, <4>3, <4>7, <4>8
        <4>10. Once(found \o read, A \cup B)
          BY <4>9, JoinOnce
        <4> QED
          BY <4>1, <4>5, <4>6, <4>8, <4>10
      <3> QED
        BY <3>1, <3>2
    <2> QED
      BY <2>2, OnceCounts DEF Once
  <1> QED
    BY <1>1, SearchInvIsInvariant, PTL

-----------------------------------------------------------------------------
(***************************************************************************)
(* Sums over sequences of numbers.                                         *)
(***************************************************************************)
\* sum[k] is the sum of the first k.
SumsUp(sum, f, n) ==
  sum \in [0..n -> Nat] /\ sum[0] = 0 /\ \A k \in 1..n : sum[k] = sum[k - 1] + f[k]

\* SumFunction adds one number after another.
LEMMA SumOfNumbers ==
  ASSUME NEW n \in Nat, NEW f \in [1..n -> Nat]
  PROVE  \E sum : SumsUp(sum, f, n) /\ SumFunction(f) = sum[n]
  <1>1. IsFiniteSet(1..n) /\ DOMAIN f = 1..n
    BY FS_Interval
  <1>2. PICK g \in [SUBSET (1..n) -> Nat] : IsSum(g, f, 1..n)
    BY <1>1, SumExists
  <1>3. AddsUp(g, f, 1..n)
    BY <1>1, <1>2, SumAnyOrder
  <1>4. SumFunction(f) = g[1..n]
    <2> DEFINE Step(h, s) == IF s = {} THEN 0 ELSE f[Some(s)] + h[s \ {Some(s)}]
               c == CHOOSE h : h = [s \in SUBSET (1..n) |-> Step(h, s)]
    <2>1. SumFunction(f) = c[1..n]
      BY <1>1 DEF SumFunction, SumFunctionOnSet, FoldFunctionOnSet, MapThenFoldSet, Some
    <2>2. g = [s \in SUBSET (1..n) |-> Step(g, s)]
      BY <1>2 DEF IsSum
    <2>3. c = [s \in SUBSET (1..n) |-> Step(c, s)]
      BY <2>2
    <2> HIDE DEF c
    <2>4. IsSum(c, f, 1..n)
      BY <2>3 DEF IsSum
    <2>5. g[1..n] = c[1..n]
      BY <1>1, <1>2, <2>4, SumUnique
    <2> QED
      BY <2>1, <2>5
  <1>5. PICK sum : sum = [k \in 0..n |-> g[1..k]]
    OBVIOUS
  <1>6. \A k \in 0..n : 1..k \in SUBSET (1..n) /\ sum[k] = g[1..k]
    BY <1>5
  <1>7. sum \in [0..n -> Nat]
    BY <1>5, <1>6
  <1>8. sum[0] = 0
    <2>1. 1..0 = {} /\ 0 \in 0..n
      OBVIOUS
    <2> QED
      BY <1>2, <1>6, <2>1 DEF IsSum
  <1>9. ASSUME NEW k \in 1..n PROVE sum[k] = sum[k - 1] + f[k]
    <2>1. (1..k) \ {k} = 1..k - 1 /\ k \in 0..n /\ k - 1 \in 0..n /\ k \in 1..k
      OBVIOUS
    <2>2. g[1..k] = f[k] + g[1..k - 1]
      BY <1>3, <1>6, <2>1 DEF AddsUp
    <2>3. f[k] \in Nat /\ g[1..k - 1] \in Nat
      BY <1>6, <1>7, <2>1
    <2> QED
      BY <1>6, <2>1, <2>2, <2>3
  <1>10. sum[n] = g[1..n]
    BY <1>6
  <1> QED
    BY <1>4, <1>7, <1>8, <1>9, <1>10 DEF SumsUp

\* A sum of numbers that are not greater is not greater.
LEMMA SumsCompare ==
  ASSUME NEW n \in Nat, NEW f \in [1..n -> Nat], NEW g \in [1..n -> Nat], \A k \in 1..n : f[k] <= g[k]
  PROVE  SumFunction(f) <= SumFunction(g)
  <1>1. PICK a : SumsUp(a, f, n) /\ SumFunction(f) = a[n]
    BY SumOfNumbers
  <1>2. PICK b : SumsUp(b, g, n) /\ SumFunction(g) = b[n]
    BY SumOfNumbers
  <1> DEFINE P == {k \in Nat : k <= n => a[k] <= b[k]}
  <1>3. 0 \in P
    BY <1>1, <1>2 DEF SumsUp
  <1>4. ASSUME NEW k \in Nat, k \in P PROVE k + 1 \in P
    <2> SUFFICES ASSUME k + 1 <= n PROVE a[k + 1] <= b[k + 1]
      OBVIOUS
    <2>1. k + 1 \in 1..n /\ (k + 1) - 1 = k /\ k \in 0..n
      OBVIOUS
    <2>2. a[k + 1] = a[k] + f[k + 1] /\ b[k + 1] = b[k] + g[k + 1]
      BY <1>1, <1>2, <2>1 DEF SumsUp
    <2>3. a[k] \in Nat /\ b[k] \in Nat /\ f[k + 1] \in Nat /\ g[k + 1] \in Nat /\ f[k + 1] <= g[k + 1] /\ a[k] <= b[k]
      BY <1>1, <1>2, <1>4, <2>1 DEF SumsUp
    <2> QED
      BY <2>2, <2>3
  <1>5. Nat \subseteq P
    <2> HIDE DEF P
    <2> QED
      BY <1>3, <1>4, Induction
  <1>6. a[n] <= b[n]
    BY <1>5
  <1> QED
    BY <1>1, <1>2, <1>6

\* The sizes of sets that have nothing in common add up to that of their union.
LEMMA SumOfSizes ==
  ASSUME NEW n \in Nat, NEW parts, \A k \in 1..n : IsFiniteSet(parts[k]),
         \A j, k \in 1..n : j # k => parts[j] \cap parts[k] = {},
         NEW f, f = [k \in 1..n |-> Cardinality(parts[k])]
  PROVE  SumFunction(f) = Cardinality(UNION {parts[k] : k \in 1..n})
  <1>1. f \in [1..n -> Nat]
    BY FS_CardinalityType
  <1>2. PICK sum : SumsUp(sum, f, n) /\ SumFunction(f) = sum[n]
    BY <1>1, SumOfNumbers
  <1> DEFINE Until(i) == UNION {parts[k] : k \in 1..i}
             P == {i \in Nat : i <= n => IsFiniteSet(Until(i)) /\ sum[i] = Cardinality(Until(i))}
  <1>3. 0 \in P
    <2>1. 1..0 = {}
      OBVIOUS
    <2>2. Until(0) = {}
      BY <2>1
    <2> QED
      BY <1>2, <2>2, FS_EmptySet DEF SumsUp
  <1>4. ASSUME NEW i \in Nat, i \in P PROVE i + 1 \in P
    <2> SUFFICES ASSUME i + 1 <= n PROVE IsFiniteSet(Until(i + 1)) /\ sum[i + 1] = Cardinality(Until(i + 1))
      OBVIOUS
    <2>1. i + 1 \in 1..n /\ (i + 1) - 1 = i /\ 1..i + 1 = (1..i) \cup {i + 1} /\ i + 1 \notin 1..i
      OBVIOUS
    <2>2. PICK A, B : A = Until(i) /\ B = parts[i + 1]
      OBVIOUS
    <2>3. Until(i + 1) = A \cup B
      BY <2>1, <2>2
    <2>4. A \cap B = {}
      <3>1. \A k \in 1..i : k \in 1..n /\ k # i + 1
        BY <2>1
      <3> QED
        BY <2>1, <2>2, <3>1
    <2>5. IsFiniteSet(A) /\ sum[i] = Cardinality(A)
      BY <1>4, <2>2
    <2>6. IsFiniteSet(B) /\ f[i + 1] = Cardinality(B)
      BY <2>1, <2>2
    <2> HIDE DEF Until
    <2>7. IsFiniteSet(A \cup B) /\ Cardinality(A \cup B) = Cardinality(A) + Cardinality(B)
      <3>1. /\ IsFiniteSet(A \cup B)
            /\ Cardinality(A \cup B) = Cardinality(A) + Cardinality(B) - Cardinality(A \cap B)
        BY <2>5, <2>6, FS_Union
      <3>2. Cardinality(A \cap B) = 0 /\ Cardinality(A) \in Nat /\ Cardinality(B) \in Nat
        BY <2>4, <2>5, <2>6, FS_EmptySet, FS_CardinalityType
      <3> QED
        BY <3>1, <3>2
    <2>8. sum[i + 1] = sum[i] + f[i + 1]
      BY <1>2, <2>1 DEF SumsUp
    <2> QED
      BY <2>3, <2>5, <2>6, <2>7, <2>8
  <1>5. Nat \subseteq P
    <2> HIDE DEF P
    <2> QED
      BY <1>3, <1>4, Induction
  <1>6. sum[n] = Cardinality(Until(n))
    <2> HIDE DEF Until
    <2> QED
      BY <1>5
  <1> QED
    BY <1>2, <1>6

-----------------------------------------------------------------------------
(***************************************************************************)
(* The statistics of a query.                                              *)
(***************************************************************************)
\* The query for one term.
Asking(column, t) == [column |-> column, terms |-> <<t>>, operator |-> "or"]

\* Its terms.
LEMMA AskingIsQuery ==
  ASSUME NEW column \in Columns, NEW t \in Terms
  PROVE  /\ Asking(column, t) \in QueryType /\ Asking(column, t).terms # <<>>
         /\ Asking(column, t).column = column /\ Asking(column, t).operator = "or"
         /\ QueryTerms(Asking(column, t)) = {t}
  <1>1. PICK terms : terms = <<t>> /\ terms \in Seq(Terms) /\ terms # <<>> /\ DOMAIN terms = 1..1 /\ terms[1] = t
    <2>1. <<t>> \in Seq(Terms) /\ Len(<<t>>) = 1 /\ <<t>>[1] = t
      OBVIOUS
    <2>2. DOMAIN <<t>> = 1..1 /\ <<t>> # <<>>
      BY <2>1, LenProperties, EmptySeq
    <2> QED
      BY <2>1, <2>2
  <1>2. 1..1 = {1}
    OBVIOUS
  <1>3. ToSet(terms) = {t}
    BY <1>1, <1>2 DEF ToSet
  <1>4. Asking(column, t) = [column |-> column, terms |-> terms, operator |-> "or"]
    BY <1>1 DEF Asking
  <1> QED
    BY <1>1, <1>3, <1>4 DEF QueryType, QueryTerms

\* A row with one of the terms of an OR satisfies it.
LEMMA TermSatisfies ==
  ASSUME NEW query \in QueryType, query.operator = "or", NEW t \in QueryTerms(query), NEW files
  PROVE  RowsFor(files, Asking(query.column, t)) \subseteq RowsFor(files, query)
  <1>1. query.column \in Columns /\ t \in Terms
    <2>1. PICK terms : terms = query.terms /\ terms \in Seq(Terms) /\ QueryTerms(query) = ToSet(terms)
      BY DEF QueryType, QueryTerms
    <2>2. \A k \in DOMAIN terms : terms[k] \in Terms
      BY <2>1, ElementOfSeq, LenProperties
    <2> QED
      BY <2>1, <2>2 DEF QueryType, ToSet
  <1>2. PICK single : single = Asking(query.column, t)
    OBVIOUS
  <1>3. single.column = query.column /\ single.operator = "or" /\ QueryTerms(single) = {t}
    BY <1>1, <1>2, AskingIsQuery
  <1>4. \A cell : Satisfies(cell, single) => Satisfies(cell, query)
    BY <1>3 DEF Satisfies, matches_predicate
  <1> QED
    BY <1>2, <1>3, <1>4 DEF RowsFor

\* The rows of a batch with a term are finitely many.
LEMMA HavingIsFinite ==
  ASSUME NEW contents, IsContents(contents), NEW t \in Terms PROVE IsFiniteSet(RowsHaving(contents, t))
  <1>1. PICK inventory, merged : inventory = doc_table(contents) /\ merged = IndexFiles(inventory, contents)
    OBVIOUS
  <1>2. IsIndex(merged, inventory, contents)
    BY <1>1, FilesAreIndexed
  <1> QED
    BY <1>2 DEF IsIndex

\* What a segment reports for a term that the query names once.
LEMMA ReportedIs ==
  ASSUME NEW segment, NEW contents, BatchFits(segment, contents),
         NEW query \in QueryType, IsInjective(query.terms), NEW t \in Terms
  PROVE  Reported(segment, query, t)
           = IF t \in ToSet(term_infos(segment, query)) THEN segment.doc_frequency[t] ELSE 0
  <1>1. PICK infos : infos = term_infos(segment, query)
    OBVIOUS
  <1>2. /\ infos \in Seq(DOMAIN segment.postings)
        /\ \A i, j \in 1..Len(infos) : infos[i] = infos[j] => i = j
    <2>1. CASE infos = <<>>
      <3>1. 1..Len(infos) = {}
        BY <2>1, EmptySeq
      <3> QED
        BY <2>1, <3>1, EmptySeq
    <2>2. CASE infos # <<>>
      <3>1. infos = KnownTerms(segment, query)
        BY <1>1, <2>2 DEF term_infos
      <3>2. PICK terms : terms = query.terms /\ terms \in Seq(Terms)
        BY DEF QueryType
      <3>3. PICK places : places = {n \in DOMAIN terms : terms[n] \in DOMAIN segment.postings}
        OBVIOUS
      <3>4. infos = Chosen(terms, places) /\ places \in SUBSET DOMAIN terms
        BY <3>1, <3>2, <3>3 DEF KnownTerms
      <3>5. PICK at : Picked(infos, terms, at, places)
        BY <3>2, <3>4, ChosenIsExact
      <3>6. Len(infos) = Len(at) /\ Once(at, places) /\ \A n \in 1..Len(at) : infos[n] = terms[at[n]]
        BY <3>5 DEF Picked
      <3>7. \A n \in 1..Len(at) : at[n] \in DOMAIN terms
        BY <3>4, <3>6, OnceCounts DEF Once, ToSet
      <3>8. \A i, j \in 1..Len(at) : infos[i] = infos[j] => i = j
        BY <3>2, <3>6, <3>7 DEF Once, IsInjective
      <3>9. infos \in Seq(DOMAIN segment.postings)
        BY <3>1, KnownTermsAre DEF BatchFits
      <3> QED
        BY <3>6, <3>8, <3>9
    <2> QED
      BY <2>1, <2>2
  <1>3. PICK n \in Nat : n = Len(infos) /\ DOMAIN infos = 1..n
    BY <1>2, LenProperties
  <1>4. \A k \in 1..n : infos[k] \in DOMAIN segment.postings
    BY <1>2, <1>3, ElementOfSeq
  <1>5. \A u \in DOMAIN segment.postings : u \in Terms /\ segment.doc_frequency[u] = Cardinality(RowsHaving(contents, u))
    BY DEF BatchFits, IsExact
  <1>6. PICK parts : parts = [k \in 1..n |-> IF infos[k] = t THEN RowsHaving(contents, t) ELSE {}]
    OBVIOUS
  <1>7. PICK f : f = [k \in 1..n |-> Cardinality(parts[k])]
    OBVIOUS
  <1>8. f = [k \in DOMAIN infos |-> IF infos[k] = t THEN segment.doc_frequency[t] ELSE 0]
    <2>1. \A k \in 1..n : f[k] = IF infos[k] = t THEN segment.doc_frequency[t] ELSE 0
      BY <1>4, <1>5, <1>6, <1>7, FS_EmptySet
    <2> QED
      BY <1>3, <1>7, <2>1
  <1>9. Reported(segment, query, t) = SumFunction(f)
    BY <1>1, <1>8 DEF Reported
  <1>10. \A k \in 1..n : IsFiniteSet(parts[k])
    BY <1>6, HavingIsFinite, FS_EmptySet DEF BatchFits
  <1>11. \A j, k \in 1..n : j # k => parts[j] \cap parts[k] = {}
    BY <1>2, <1>3, <1>6
  <1>12. SumFunction(f) = Cardinality(UNION {parts[k] : k \in 1..n})
    BY <1>7, <1>10, <1>11, SumOfSizes
  <1>13. CASE t \in ToSet(infos)
    <2>1. PICK p \in 1..n : infos[p] = t
      BY <1>3, <1>13 DEF ToSet
    <2>2. UNION {parts[k] : k \in 1..n} = RowsHaving(contents, t)
      BY <1>6, <2>1
    <2>3. segment.doc_frequency[t] = Cardinality(RowsHaving(contents, t))
      BY <1>4, <1>5, <2>1
    <2> QED
      BY <1>1, <1>9, <1>12, <1>13, <2>2, <2>3
  <1>14. CASE t \notin ToSet(infos)
    <2>1. \A k \in 1..n : infos[k] # t
      BY <1>3, <1>14 DEF ToSet
    <2>2. UNION {parts[k] : k \in 1..n} = {}
      BY <1>6, <2>1
    <2> QED
      BY <1>1, <1>9, <1>12, <1>14, <2>2, FS_EmptySet
  <1> QED
    BY <1>13, <1>14

\* The rows of a batch with a term, by their places in it or by their files.
LEMMA RowsAreCounted ==
  ASSUME SearchInv, NEW m \in ToSet(table), IsInjective(m.files), NEW t \in Terms
  PROVE  /\ IsFiniteSet(RowsFor(ToSet(m.files), Asking(m.column, t)))
         /\ Cardinality(RowsHaving(ContentsOf(data, m), t)) = Cardinality(RowsFor(ToSet(m.files), Asking(m.column, t)))
  <1>1. PICK files, contents, column : files = m.files /\ contents = ContentsOf(data, m) /\ column = m.column
    OBVIOUS
  <1>2. IsContents(contents) /\ files \in Seq(Files) /\ column \in Columns
    BY <1>1, ReaderOfManifest DEF SearchInv, ManifestFits
  <1>3. PICK n \in Nat : n = Len(contents) /\ DOMAIN contents = 1..n /\ DOMAIN files = 1..n
    BY <1>1, <1>2, LenProperties DEF IsContents, ContentsOf
  <1>4. \A f \in 1..n : contents[f] = data[files[f]][column] /\ DOMAIN contents[f] = 1..Len(contents[f])
    <2>1. \A f \in 1..n : contents[f] \in Seq(RowGroup)
      BY <1>2, <1>3, ElementOfSeq DEF IsContents
    <2> QED
      BY <1>1, <1>3, <2>1, LenProperties DEF ContentsOf
  <1>5. PICK single : /\ single = Asking(column, t) /\ single \in QueryType /\ single.terms # <<>>
                      /\ single.column = column /\ single.operator = "or" /\ QueryTerms(single) = {t}
    BY <1>2, AskingIsQuery
  <1>6. ASSUME NEW f \in 1..n, NEW g \in 1..Len(contents[f]), NEW r \in 0..num_rows(contents[f][g]) - 1
        PROVE  Satisfies(CellOf(files[f], column, g, r), single) <=> HasToken(contents[f][g], r, t)
    <2>1. PICK group : group = contents[f][g] /\ group.cells \in Seq(Cell)
      BY <1>2, <1>3, GroupOf
    <2>2. Satisfies(group.cells[r + 1], single) <=> HasToken(group, r, t)
      BY <1>5, <2>1, RowSatisfies
    <2> QED
      BY <1>4, <2>1, <2>2 DEF CellOf
  <1>7. PICK A, B : A = RowsHaving(contents, t) /\ B = RowsFor(ToSet(files), single)
    OBVIOUS
  <1>8. ASSUME NEW row
        PROVE  row \in A <=> \E f \in 1..n : \E g \in 1..Len(contents[f]) :
                               \E r \in 0..num_rows(contents[f][g]) - 1 :
                                 row = <<f, g, r>> /\ HasToken(contents[f][g], r, t)
    <2>1. row \in A <=> \E f \in 1..n : \E g \in 1..Len(contents[f]) : row \in GroupRows(contents, f, g, t)
      BY <1>2, <1>3, <1>7, RowsOfGroups
    <2> QED
      BY <2>1 DEF GroupRows, TokenRows
  <1>9. ASSUME NEW row
        PROVE  row \in B <=> \E f \in 1..n : \E g \in 1..Len(contents[f]) :
                               \E r \in 0..num_rows(contents[f][g]) - 1 :
                                 row = <<files[f], g, r>> /\ HasToken(contents[f][g], r, t)
    <2>1. row \in B <=>
            \E file \in ToSet(files) : \E g \in DOMAIN data[file][column] :
              \E r \in 0..num_rows(data[file][column][g]) - 1 :
                row = <<file, g, r>> /\ Satisfies(CellOf(file, column, g, r), single)
      BY <1>5, <1>7, RowsForAre
    <2>2. ToSet(files) = {files[f] : f \in 1..n}
      BY <1>3 DEF ToSet
    <2>3. row \in B <=>
            \E f \in 1..n : \E g \in DOMAIN data[files[f]][column] :
              \E r \in 0..num_rows(data[files[f]][column][g]) - 1 :
                row = <<files[f], g, r>> /\ Satisfies(CellOf(files[f], column, g, r), single)
      BY <2>1, <2>2
    <2>4. row \in B <=>
            \E f \in 1..n : \E g \in 1..Len(contents[f]) :
              \E r \in 0..num_rows(contents[f][g]) - 1 :
                row = <<files[f], g, r>> /\ Satisfies(CellOf(files[f], column, g, r), single)
      BY <1>4, <2>3
    <2> QED
      BY <1>6, <2>4
  <1>10. PICK b : b = [row \in A |-> <<files[row[1]], row[2], row[3]>>]
    OBVIOUS
  <1>11. ASSUME NEW row \in A
         PROVE  \E f \in 1..n : \E g, r : row = <<f, g, r>> /\ b[row] = <<files[f], g, r>> /\ b[row] \in B
    <2>1. PICK f \in 1..n : \E g \in 1..Len(contents[f]) : \E r \in 0..num_rows(contents[f][g]) - 1 :
                                 row = <<f, g, r>> /\ HasToken(contents[f][g], r, t)
      BY <1>8
    <2>2. PICK g \in 1..Len(contents[f]) : \E r \in 0..num_rows(contents[f][g]) - 1 :
                                 row = <<f, g, r>> /\ HasToken(contents[f][g], r, t)
      BY <2>1
    <2>3. PICK r \in 0..num_rows(contents[f][g]) - 1 : row = <<f, g, r>> /\ HasToken(contents[f][g], r, t)
      BY <2>2
    <2>4. row[1] = f /\ row[2] = g /\ row[3] = r
      BY <2>3
    <2>5. b[row] = <<files[f], g, r>>
      BY <1>10, <2>4
    <2>6. b[row] \in B
      BY <1>9, <2>3, <2>5
    <2> QED
      BY <2>3, <2>5, <2>6
  <1>12. b \in Bijection(A, B)
    <2>1. b \in [A -> B]
      BY <1>10, <1>11
    <2>2. ASSUME NEW x \in A, NEW y \in A, b[x] = b[y] PROVE x = y
      <3>1. PICK f, g, r : f \in 1..n /\ x = <<f, g, r>> /\ b[x] = <<files[f], g, r>>
        BY <1>11
      <3>2. PICK h, i, q : h \in 1..n /\ y = <<h, i, q>> /\ b[y] = <<files[h], i, q>>
        BY <1>11
      <3>3. files[f] = files[h] /\ g = i /\ r = q
        BY <2>2, <3>1, <3>2
      <3>4. f = h
        <4>1. f \in DOMAIN files /\ h \in DOMAIN files
          BY <1>3, <3>1, <3>2
        <4>2. IsInjective(files)
          BY <1>1
        <4> QED
          BY <3>3, <4>1, <4>2 DEF IsInjective
      <3> QED
        BY <3>1, <3>2, <3>3, <3>4
    <2>3. ASSUME NEW y \in B PROVE \E x \in A : b[x] = y
      <3>1. PICK f \in 1..n : \E g \in 1..Len(contents[f]) : \E r \in 0..num_rows(contents[f][g]) - 1 :
                                 y = <<files[f], g, r>> /\ HasToken(contents[f][g], r, t)
        BY <1>9
      <3>2. PICK g \in 1..Len(contents[f]) : \E r \in 0..num_rows(contents[f][g]) - 1 :
                                 y = <<files[f], g, r>> /\ HasToken(contents[f][g], r, t)
        BY <3>1
      <3>3. PICK r \in 0..num_rows(contents[f][g]) - 1 : y = <<files[f], g, r>> /\ HasToken(contents[f][g], r, t)
        BY <3>2
      <3>4. PICK x : x = <<f, g, r>> /\ x[1] = f /\ x[2] = g /\ x[3] = r
        <4>1. <<f, g, r>>[1] = f /\ <<f, g, r>>[2] = g /\ <<f, g, r>>[3] = r
          OBVIOUS
        <4> QED
          BY <4>1
      <3>5. x \in A
        BY <1>8, <3>3, <3>4
      <3> QED
        BY <1>10, <3>3, <3>4, <3>5
    <2> QED
      BY <2>1, <2>2, <2>3 DEF Bijection, Injection, Surjection, IsInjective
  <1>13. IsFiniteSet(A)
    BY <1>2, <1>7, HavingIsFinite
  <1>14. IsFiniteSet(B) /\ Cardinality(B) = Cardinality(A)
    BY <1>12, <1>13, FS_Bijection DEF ExistsBijection
  <1> QED
    BY <1>1, <1>5, <1>7, <1>14

\* What one segment adds to the statistics.
LEMMA SegmentReports ==
  ASSUME SearchInv, NEW m \in ToSet(table), ~m.damaged, IsInjective(m.files), NEW segment, segment \in m.reader,
         NEW query \in QueryType, query.column = m.column, IsInjective(query.terms), NEW t \in QueryTerms(query)
  PROVE  LET rows == RowsFor(ToSet(m.files), Asking(query.column, t))
         IN /\ segment.total_rows \in Nat /\ Reported(segment, query, t) \in Nat
            /\ Reported(segment, query, t) <= segment.total_rows /\ IsFiniteSet(rows)
            /\ query.operator = "or" => Reported(segment, query, t) = Cardinality(rows)
  <1>1. PICK contents, rows : contents = ContentsOf(data, m) /\ rows = RowsFor(ToSet(m.files), Asking(query.column, t))
    OBVIOUS
  <1>2. t \in Terms
    <2>1. PICK terms : terms = query.terms /\ terms \in Seq(Terms) /\ QueryTerms(query) = ToSet(terms)
      BY DEF QueryType, QueryTerms
    <2>2. \A k \in DOMAIN terms : terms[k] \in Terms
      BY <2>1, ElementOfSeq, LenProperties
    <2> QED
      BY <2>1, <2>2 DEF ToSet
  <1>3. BatchFits(segment, contents)
    BY <1>1, ReaderFits
  <1>4. segment.total_rows \in Nat /\ segment.doc_frequency \in [DOMAIN segment.postings -> Nat]
    <2>1. PICK built : built = BuiltFrom(data, m)
      OBVIOUS
    <2>2. IsSegment(built) /\ segment = ReaderOf(built, m.files)
      BY <2>1, ReaderOfManifest
    <2> QED
      BY <2>2 DEF IsSegment, ReaderOf
  <1>5. IsFiniteSet(rows) /\ Cardinality(RowsHaving(contents, t)) = Cardinality(rows)
    BY <1>1, <1>2, RowsAreCounted
  <1>6. PICK infos : infos = term_infos(segment, query)
    OBVIOUS
  <1>7. Reported(segment, query, t) = IF t \in ToSet(infos) THEN segment.doc_frequency[t] ELSE 0
    BY <1>2, <1>3, <1>6, ReportedIs
  <1>8. PICK known : known = KnownTerms(segment, query) /\ ToSet(known) = QueryTerms(query) \cap DOMAIN segment.postings
    BY <1>3, KnownTermsAre DEF BatchFits
  <1>9. ToSet(infos) \subseteq DOMAIN segment.postings
    BY <1>6, <1>8, EmptyList DEF term_infos
  <1>10. \A u \in DOMAIN segment.postings :
           segment.doc_frequency[u] \in Nat /\ segment.doc_frequency[u] <= segment.total_rows
    BY <1>3, <1>4 DEF BatchFits, IsExact, NoneExceeds
  <1>11. Reported(segment, query, t) \in Nat /\ Reported(segment, query, t) <= segment.total_rows
    BY <1>4, <1>7, <1>9, <1>10
  <1>12. ASSUME query.operator = "or" PROVE Reported(segment, query, t) = Cardinality(rows)
    <2>1. infos = known
      BY <1>6, <1>8, <1>12 DEF term_infos, MissesTerm
    <2>2. t \in ToSet(infos) <=> t \in DOMAIN segment.postings
      BY <1>8, <2>1
    <2>3. DOMAIN segment.postings = {u \in Terms : RowsHaving(contents, u) # {}}
      BY <1>3 DEF BatchFits, IsExact
    <2>4. CASE t \in DOMAIN segment.postings
      <3>1. segment.doc_frequency[t] = Cardinality(RowsHaving(contents, t))
        BY <1>3, <2>4 DEF BatchFits, IsExact
      <3> QED
        BY <1>5, <1>7, <2>2, <2>4, <3>1
    <2>5. CASE t \notin DOMAIN segment.postings
      <3>1. RowsHaving(contents, t) = {}
        BY <1>2, <2>3, <2>5
      <3>2. Cardinality(rows) = 0
        BY <1>5, <3>1, FS_EmptySet
      <3> QED
        BY <1>7, <2>2, <2>5, <3>2
    <2> QED
      BY <2>4, <2>5
  <1> QED
    BY <1>1, <1>4, <1>5, <1>11, <1>12

\* collect_aggregate_stats: the sums over the segments of a query.
LEMMA StatisticsAre ==
  ASSUME FindsNarrowChanges, SearchInv, BatchesAreApart, NEW query \in QueryType, IsInjective(query.terms), NEW t \in QueryTerms(query)
  PROVE  /\ term_df(query, t) <= total_rows(query)
         /\ query.operator = "or" =>
              term_df(query, t) = Cardinality(RowsFor(FilesCovered(query.column, FALSE), Asking(query.column, t)))
  <1>1. PICK opened : /\ Once(opened, Opened(query))
                      /\ DOMAIN Readers(query) = 1..Len(opened)
                      /\ \A k \in 1..Len(opened) : Readers(query)[k] \in table[opened[k]].reader
    BY ReadersAre
  <1>2. PICK n \in Nat : n = Len(opened) /\ DOMAIN opened = 1..n
                         /\ \A k \in 1..n : opened[k] \in Opened(query)
    BY <1>1, OnceCounts, ElementOfSeq DEF Once
  <1>3. PICK single, parts : /\ single = Asking(query.column, t) /\ single.column = query.column
                             /\ parts = RowsOfEach(opened, single)
    <2>1. PICK single : single = Asking(query.column, t) /\ single.column = query.column
      <3>1. Asking(query.column, t).column = query.column
        BY DEF Asking
      <3> QED
        BY <3>1
    <2> QED
      BY <2>1
  <1>4. PICK readers : readers = Readers(query) /\ DOMAIN readers = 1..n
    BY <1>1, <1>2
  <1>5. ASSUME NEW k \in 1..n
        PROVE  /\ readers[k].total_rows \in Nat /\ Reported(readers[k], query, t) \in Nat
               /\ Reported(readers[k], query, t) <= readers[k].total_rows /\ IsFiniteSet(parts[k])
               /\ query.operator = "or" => Reported(readers[k], query, t) = Cardinality(parts[k])
    <2>1. PICK m, segment : m = table[opened[k]] /\ segment = readers[k]
      OBVIOUS
    <2>2. opened[k] \in DOMAIN table /\ m.column = query.column /\ ~m.damaged /\ segment \in m.reader
      BY <1>1, <1>2, <1>4, <2>1 DEF Opened, SegmentsToSearch, ColumnManifests
    <2>3. m \in ToSet(table) /\ IsInjective(m.files)
      BY <2>1, <2>2, ManifestsApart
    <2>4. parts[k] = RowsFor(ToSet(m.files), Asking(query.column, t))
      BY <1>2, <1>3, <2>1 DEF RowsOfEach
    <2> QED
      BY <2>1, <2>2, <2>3, <2>4, SegmentReports
  <1>6. PICK f, g : f = [k \in 1..n |-> Reported(readers[k], query, t)] /\ g = [k \in 1..n |-> readers[k].total_rows]
    OBVIOUS
  <1>7. term_df(query, t) = SumFunction(f) /\ total_rows(query) = SumFunction(g)
    BY <1>4, <1>6 DEF term_df, total_rows
  <1>8. SumFunction(f) <= SumFunction(g)
    <2>1. f \in [1..n -> Nat] /\ g \in [1..n -> Nat] /\ \A k \in 1..n : f[k] <= g[k]
      BY <1>5, <1>6
    <2> QED
      BY <2>1, SumsCompare
  <1>9. ASSUME query.operator = "or"
        PROVE  SumFunction(f) = Cardinality(RowsFor(FilesCovered(query.column, FALSE), single))
    <2>1. query.terms # <<>>
      BY EmptyList DEF QueryTerms
    <2>2. Narrows(single, query)
      BY <1>3, <1>9, TermSatisfies DEF Narrows
    <2>3. /\ UNION {parts[k] : k \in 1..n} = RowsFor(FilesCovered(query.column, FALSE), single)
          /\ \A j, k \in 1..n : j # k => parts[j] \cap parts[k] = {}
      <3>1. PICK part : part = single /\ Narrows(part, query) /\ parts = RowsOfEach(opened, part)
        BY <1>3, <2>2
      <3>2. query.terms # <<>> /\ Once(opened, Opened(query))
        BY <1>1, <2>1
      <3>0. Divided(RowsFor(FilesCovered(query.column, FALSE), part), parts, Len(opened))
        BY ONLY SearchInv, BatchesAreApart, query \in QueryType, <3>1, <3>2, SegmentsCover
      <3>3. \A row : row \in RowsFor(FilesCovered(query.column, FALSE), part)
                        <=> \E k \in 1..Len(opened) : row \in parts[k]
        BY <3>0 DEF Divided
      <3>4. \A j, k \in 1..Len(opened) : j # k => parts[j] \cap parts[k] = {}
        BY <3>0 DEF Divided
      <3>5. \A row : row \in RowsFor(FilesCovered(query.column, FALSE), single) <=> \E k \in 1..n : row \in parts[k]
        BY <1>2, <3>1, <3>3
      <3>6. UNION {parts[k] : k \in 1..n} = RowsFor(FilesCovered(query.column, FALSE), single)
        BY <3>5
      <3> QED
        BY <1>2, <3>4, <3>6
    <2>4. f = [k \in 1..n |-> Cardinality(parts[k])]
      BY <1>5, <1>6, <1>9
    <2>5. SumFunction(f) = Cardinality(UNION {parts[k] : k \in 1..n})
      <3>1. \A k \in 1..n : IsFiniteSet(parts[k])
        BY <1>5
      <3> QED
        BY <2>3, <2>4, <3>1, SumOfSizes
    <2> QED
      BY <2>3, <2>5
  <1> QED
    BY <1>3, <1>7, <1>8, <1>9

\* The rows with a term, as the query for it finds them.
LEMMA TermRowsAre ==
  ASSUME SearchInv, NEW column \in Columns, NEW t \in Terms, NEW files, files \subseteq all_files
  PROVE  {row \in RowsOf(column, files) : HasTerm(row, column, t)} = RowsFor(files, Asking(column, t))
  <1>1. PICK single : /\ single = Asking(column, t) /\ single \in QueryType /\ single.terms # <<>>
                      /\ single.column = column /\ single.operator = "or" /\ QueryTerms(single) = {t}
    BY AskingIsQuery
  <1>2. ASSUME NEW row \in RowsOf(column, files)
        PROVE  HasTerm(row, column, t) <=> Satisfies(CellOf(row[1], column, row[2], row[3]), single)
    <2>1. Satisfies(CellOf(row[1], column, row[2], row[3]), single)
            <=> IF single.operator = "and" THEN \A u \in QueryTerms(single) : HasTerm(row, column, u)
                                           ELSE \E u \in QueryTerms(single) : HasTerm(row, column, u)
      BY <1>1, RowHasTerms
    <2> QED
      BY <1>1, <2>1
  <1> QED
    BY <1>1, <1>2 DEF RowsFor

(***************************************************************************)
(* Whatever is indexed and damaged: the statistics of a query that names   *)
(* no term twice count no more rows with a term than rows, and those of an *)
(* OR count exactly the rows with it in the segments that are not damaged. *)
(* The checksum finds changes within 32 bits.                              *)
(***************************************************************************)
THEOREM EveryAggregateIsExact ==
  ASSUME BatchesAreApart, FindsNarrowChanges PROVE Spec => []AggregatesAreExact
  <1>1. SearchInv => AggregatesAreExact
    <2> SUFFICES ASSUME SearchInv, NEW query \in Queries, IsInjective(query.terms), NEW t \in QueryTerms(query)
                 PROVE  LET indexed == RowsOf(query.column, FilesCovered(query.column, FALSE))
                        IN /\ term_df(query, t) <= total_rows(query)
                           /\ query.operator = "or" =>
                                term_df(query, t) = Cardinality({row \in indexed : HasTerm(row, query.column, t)})
      BY DEF AggregatesAreExact
    <2>1. query \in QueryType
      BY SearchAssumption DEF QueryType
    <2>2. t \in Terms /\ query.column \in Columns
      <3>1. PICK terms : terms = query.terms /\ terms \in Seq(Terms) /\ QueryTerms(query) = ToSet(terms)
        BY <2>1 DEF QueryType, QueryTerms
      <3>2. \A k \in DOMAIN terms : terms[k] \in Terms
        BY <3>1, ElementOfSeq, LenProperties
      <3> QED
        BY <2>1, <3>1, <3>2 DEF QueryType, ToSet
    <2>3. PICK files : files = FilesCovered(query.column, FALSE) /\ files \subseteq all_files
      <3>1. FilesCovered(query.column, FALSE) \subseteq all_files
        BY DEF FilesCovered, all_files
      <3> QED
        BY <3>1
    <2>4. term_df(query, t) <= total_rows(query)
      BY <2>1, StatisticsAre
    <2>5. ASSUME query.operator = "or"
          PROVE  term_df(query, t) = Cardinality({row \in RowsOf(query.column, files) : HasTerm(row, query.column, t)})
      <3>1. term_df(query, t) = Cardinality(RowsFor(files, Asking(query.column, t)))
        BY <2>1, <2>3, <2>5, StatisticsAre
      <3>2. {row \in RowsOf(query.column, files) : HasTerm(row, query.column, t)} = RowsFor(files, Asking(query.column, t))
        BY <2>2, <2>3, TermRowsAre
      <3> QED
        BY <3>1, <3>2
    <2> QED
      BY <2>3, <2>4, <2>5
  <1> QED
    BY <1>1, SearchInvIsInvariant, PTL

-----------------------------------------------------------------------------
(***************************************************************************)
(* The dictionaries of a segment: by any beginning or end of a term.       *)
(***************************************************************************)

\* A part of a sequence.
LEMMA PartOf ==
  ASSUME NEW V, NEW s \in Seq(V), NEW m \in Nat, NEW n \in m..Len(s)
  PROVE  /\ SubSeq(s, m + 1, n) \in Seq(V) /\ Len(SubSeq(s, m + 1, n)) = n - m
         /\ \A i \in 1..n - m : SubSeq(s, m + 1, n)[i] = s[m + i]
  <1>1. Len(s) \in Nat /\ n \in Nat /\ m + 1 \in Int /\ n \in Int
    BY LenProperties
  <1>2. \A i \in m + 1..n : s[i] \in V
    BY <1>1, ElementOfSeq
  <1>3. /\ SubSeq(s, m + 1, n) \in Seq(V)
        /\ Len(SubSeq(s, m + 1, n)) = IF m + 1 <= n THEN n - (m + 1) + 1 ELSE 0
        /\ \A i \in 1..n - (m + 1) + 1 : SubSeq(s, m + 1, n)[i] = s[m + 1 + i - 1]
    BY <1>1, <1>2, SubSeqProperties
  <1>4. n - (m + 1) + 1 = n - m /\ (~(m + 1 <= n) => n - m = 0)
    BY <1>1
  <1>5. Len(SubSeq(s, m + 1, n)) = n - m
    BY <1>3, <1>4
  <1>6. \A i \in 1..n - m : m + 1 + i - 1 = m + i
    OBVIOUS
  <1>7. \A i \in 1..n - m : SubSeq(s, m + 1, n)[i] = s[m + i]
    BY <1>3, <1>4, <1>6
  <1> QED
    BY <1>3, <1>5, <1>7

\* The beginning of a sequence.
LEMMA BeginningOf ==
  ASSUME NEW V, NEW s \in Seq(V), NEW n \in 0..Len(s)
  PROVE  /\ SubSeq(s, 1, n) \in Seq(V) /\ Len(SubSeq(s, 1, n)) = n
         /\ \A i \in 1..n : SubSeq(s, 1, n)[i] = s[i]
  <1>1. PICK m \in Nat : m = 0 /\ n \in m..Len(s) /\ m + 1 = 1 /\ n - m = n
    OBVIOUS
  <1>2. \A i \in 1..n : m + i = i
    BY <1>1
  <1> QED
    BY <1>1, <1>2, PartOf

\* At their n-th place, a comes to its end or has a smaller element than b.
DiffersAt(a, b, n) ==
  /\ n - 1 <= Len(a) /\ n <= Len(b) /\ \A k \in 1..n - 1 : a[k] = b[k]
  /\ n > Len(a) \/ a[n] < b[n]

\* What is before what.
LEMMA BeforeIs ==
  ASSUME NEW a \in Seq(Nat), NEW b \in Seq(Nat)
  PROVE  Before(a, b) <=> \E n \in Nat \ {0} : DiffersAt(a, b, n)
  <1>1. Len(a) \in Nat /\ Len(b) \in Nat /\ DOMAIN b = 1..Len(b)
    BY LenProperties
  <1>2. ASSUME NEW n \in 1..Len(b), n - 1 <= Len(a)
        PROVE  SubSeq(a, 1, n - 1) = SubSeq(b, 1, n - 1) <=> \A k \in 1..n - 1 : a[k] = b[k]
    <2>1. PICK m \in Nat : m = n - 1 /\ m \in 0..Len(a) /\ m \in 0..Len(b)
      BY <1>1, <1>2
    <2>2. PICK x \in Seq(Nat) : x = SubSeq(a, 1, m) /\ Len(x) = m /\ \A i \in 1..m : x[i] = a[i]
      <3>1. PICK x : x = SubSeq(a, 1, m)
        OBVIOUS
      <3>2. x \in Seq(Nat)
        BY <2>1, <3>1, BeginningOf
      <3>3. Len(x) = m
        BY <2>1, <3>1, BeginningOf
      <3>4. \A i \in 1..m : x[i] = a[i]
        BY <2>1, <3>1, BeginningOf
      <3> QED
        BY <3>1, <3>2, <3>3, <3>4
    <2>3. PICK y \in Seq(Nat) : y = SubSeq(b, 1, m) /\ Len(y) = m /\ \A i \in 1..m : y[i] = b[i]
      <3>1. PICK y : y = SubSeq(b, 1, m)
        OBVIOUS
      <3>2. y \in Seq(Nat)
        BY <2>1, <3>1, BeginningOf
      <3>3. Len(y) = m
        BY <2>1, <3>1, BeginningOf
      <3>4. \A i \in 1..m : y[i] = b[i]
        BY <2>1, <3>1, BeginningOf
      <3> QED
        BY <3>1, <3>2, <3>3, <3>4
    <2>4. (\A k \in 1..m : x[k] = y[k]) => x = y
      BY <2>2, <2>3, SeqEqual
    <2> QED
      BY <2>1, <2>2, <2>3, <2>4
  <1>3. ASSUME Before(a, b) PROVE \E n \in Nat \ {0} : DiffersAt(a, b, n)
    <2>1. PICK n \in 1..Len(b) : /\ n - 1 <= Len(a) /\ SubSeq(a, 1, n - 1) = SubSeq(b, 1, n - 1)
                                 /\ n > Len(a) \/ a[n] < b[n]
      BY <1>1, <1>3 DEF Before
    <2>2. \A k \in 1..n - 1 : a[k] = b[k]
      BY <1>2, <2>1
    <2> QED
      BY <1>1, <2>1, <2>2 DEF DiffersAt
  <1>4. ASSUME NEW n \in Nat \ {0}, DiffersAt(a, b, n) PROVE Before(a, b)
    <2>1. n \in 1..Len(b)
      BY <1>1, <1>4 DEF DiffersAt
    <2>2. SubSeq(a, 1, n - 1) = SubSeq(b, 1, n - 1)
      BY <1>2, <1>4, <2>1 DEF DiffersAt
    <2> QED
      BY <1>1, <1>4, <2>1, <2>2 DEF Before, DiffersAt
  <1> QED
    BY <1>3, <1>4

\* Different spellings are one before the other.
LEMMA BeforeIsTotal ==
  ASSUME NEW a \in Seq(Nat), NEW b \in Seq(Nat), a # b
  PROVE  Before(a, b) \/ Before(b, a)
  <1>1. PICK la \in Nat, lb \in Nat : la = Len(a) /\ lb = Len(b)
    BY LenProperties
  <1>2. PICK D : D = {n \in Nat \ {0} : n > la \/ n > lb \/ a[n] # b[n]}
    OBVIOUS
  <1>3. PICK n \in D : \A m \in D : n <= m
    <2>1. la + 1 \in D
      BY <1>2
    <2>2. D \subseteq Nat /\ D # {}
      BY <1>2, <2>1
    <2> QED
      BY <2>2, LeastNatural
  <1>4. n \in Nat \ {0} /\ \A k \in 1..n - 1 : a[k] = b[k] /\ k <= la /\ k <= lb
    <2>1. n \in Nat \ {0}
      BY <1>2, <1>3
    <2>2. ASSUME NEW k \in 1..n - 1 PROVE a[k] = b[k] /\ k <= la /\ k <= lb
      <3>1. k \in Nat \ {0} /\ ~(n <= k)
        BY <2>1
      <3>2. k \notin D
        BY <1>3, <3>1
      <3>3. ~(k > la) /\ ~(k > lb) /\ a[k] = b[k]
        BY <1>2, <3>1, <3>2
      <3> QED
        BY <3>1, <3>3
    <2> QED
      BY <2>1, <2>2
  <1>5. n - 1 <= la /\ n - 1 <= lb
    <2>1. PICK m \in Nat : m = n - 1 /\ (m = 0 \/ m \in 1..n - 1)
      BY <1>4
    <2>2. m \in 1..n - 1 => m <= la /\ m <= lb
      BY <1>4
    <2> QED
      BY <2>1, <2>2
  <1>6. ~(n > la /\ n > lb)
    <2> SUFFICES ASSUME n > la, n > lb PROVE FALSE
      OBVIOUS
    <2>1. la = n - 1 /\ lb = n - 1
      BY <1>4, <1>5
    <2>2. a = b
      BY <1>1, <1>4, <2>1, SeqEqual
    <2> QED
      BY <2>2
  <1>7. CASE n > la
    <2>1. DiffersAt(a, b, n)
      BY <1>1, <1>4, <1>5, <1>6, <1>7 DEF DiffersAt
    <2> QED
      BY <1>4, <2>1, BeforeIs
  <1>8. CASE n > lb
    <2>1. DiffersAt(b, a, n)
      BY <1>1, <1>4, <1>5, <1>6, <1>8 DEF DiffersAt
    <2> QED
      BY <1>4, <2>1, BeforeIs
  <1>9. CASE n <= la /\ n <= lb
    <2>1. a[n] \in Nat /\ b[n] \in Nat /\ a[n] # b[n]
      BY <1>1, <1>2, <1>3, <1>4, <1>9, ElementOfSeq
    <2>2. DiffersAt(a, b, n) \/ DiffersAt(b, a, n)
      BY <1>1, <1>4, <1>5, <1>9, <2>1 DEF DiffersAt
    <2> QED
      BY <1>4, <2>2, BeforeIs
  <1> QED
    BY <1>4, <1>7, <1>8, <1>9

\* Nothing is before itself, and what is before something before c is before c.
LEMMA BeforeIsStrict ==
  ASSUME NEW a \in Seq(Nat), NEW b \in Seq(Nat), NEW c \in Seq(Nat)
  PROVE  ~Before(a, a) /\ (Before(a, b) /\ Before(b, c) => Before(a, c))
  <1>1. PICK la \in Nat, lb \in Nat, lc \in Nat : la = Len(a) /\ lb = Len(b) /\ lc = Len(c)
    BY LenProperties
  <1>2. /\ \A i \in 1..la : a[i] \in Nat
        /\ \A i \in 1..lb : b[i] \in Nat
        /\ \A i \in 1..lc : c[i] \in Nat
    BY <1>1, ElementOfSeq
  <1>3. ~Before(a, a)
    <2> SUFFICES ASSUME NEW n \in Nat \ {0}, DiffersAt(a, a, n) PROVE FALSE
      BY BeforeIs
    <2> QED
      BY <1>1, <1>2 DEF DiffersAt
  <1>4. ASSUME NEW n \in Nat \ {0}, NEW m \in Nat \ {0}, DiffersAt(a, b, n), DiffersAt(b, c, m)
        PROVE  Before(a, c)
    <2>1. /\ n - 1 <= la /\ n <= lb /\ (\A k \in 1..n - 1 : a[k] = b[k]) /\ (n > la \/ a[n] < b[n])
          /\ m - 1 <= lb /\ m <= lc /\ (\A k \in 1..m - 1 : b[k] = c[k]) /\ (m > lb \/ b[m] < c[m])
      BY <1>1, <1>4 DEF DiffersAt
    <2>2. CASE n < m
      <3>1. b[n] = c[n] /\ n <= lc /\ \A k \in 1..n - 1 : b[k] = c[k]
        BY <2>1, <2>2
      <3> QED
        <4>1. \A k \in 1..n - 1 : a[k] = c[k]
          BY <2>1, <3>1
        <4>2. DiffersAt(a, c, n)
          BY <1>1, <2>1, <3>1, <4>1 DEF DiffersAt
        <4> QED
          BY <4>2, BeforeIs
    <2>3. CASE n = m
      <3>1. n > la \/ a[n] < c[n]
        <4> SUFFICES ASSUME n <= la PROVE a[n] < c[n]
          OBVIOUS
        <4>1. a[n] \in Nat /\ b[n] \in Nat /\ c[n] \in Nat /\ a[n] < b[n] /\ b[n] < c[n]
          BY <1>2, <2>1, <2>3
        <4> QED
          BY <4>1
      <3>2. \A k \in 1..n - 1 : a[k] = c[k]
        BY <2>1, <2>3
      <3> QED
        BY <1>1, <2>1, <2>3, <3>1, <3>2, BeforeIs DEF DiffersAt
    <2>4. CASE n > m
      <3>1. a[m] = b[m] /\ m <= la /\ m <= lb /\ \A k \in 1..m - 1 : a[k] = b[k]
        BY <2>1, <2>4
      <3>2. a[m] < c[m] /\ \A k \in 1..m - 1 : a[k] = c[k]
        BY <2>1, <3>1
      <3>3. DiffersAt(a, c, m)
        BY <1>1, <2>1, <3>1, <3>2 DEF DiffersAt
      <3> QED
        BY <3>3, BeforeIs
    <2> QED
      BY <2>2, <2>3, <2>4
  <1>5. Before(a, b) /\ Before(b, c) => Before(a, c)
    BY <1>4, BeforeIs
  <1> QED
    BY <1>3, <1>5

\* A sequence from its end.
LEMMA ReverseOf ==
  ASSUME NEW V, NEW s \in Seq(V)
  PROVE  /\ Reverse(s) \in Seq(V) /\ Len(Reverse(s)) = Len(s)
         /\ \A i \in 1..Len(s) : Reverse(s)[i] = s[Len(s) - i + 1]
         /\ Reverse(Reverse(s)) = s
  <1>1. PICK n \in Nat : n = Len(s) /\ DOMAIN s = 1..n /\ \A k \in 1..n : s[k] \in V
    BY LenProperties, ElementOfSeq
  <1>2. PICK r : r = Reverse(s) /\ r = [i \in 1..n |-> s[n - i + 1]]
    BY <1>1 DEF Reverse
  <1>3. \A i \in 1..n : n - i + 1 \in 1..n /\ n - (n - i + 1) + 1 = i
    BY <1>1
  <1>4. r \in Seq(V) /\ Len(r) = n /\ \A i \in 1..n : r[i] = s[n - i + 1]
    <2>1. r \in [1..n -> V]
      BY <1>1, <1>2, <1>3
    <2>2. r \in Seq(V) /\ Len(r) = n
      BY <2>1, FunctionIsSequence
    <2> QED
      BY <1>2, <2>2
  <1>5. PICK t : t = Reverse(r) /\ t = [i \in 1..n |-> r[n - i + 1]]
    BY <1>4 DEF Reverse
  <1>6. \A i \in 1..n : t[i] = s[i]
    BY <1>3, <1>4, <1>5
  <1>7. t \in Seq(V) /\ Len(t) = n
    <2>1. \A i \in 1..n : t[i] \in V
      BY <1>1, <1>6
    <2>2. t \in [1..n -> V]
      BY <1>5, <2>1
    <2> QED
      BY <2>2, FunctionIsSequence
  <1>8. t = s
    BY <1>1, <1>6, <1>7, SeqEqual
  <1> QED
    BY <1>1, <1>2, <1>4, <1>5, <1>8

SameUpto(n, p, s) == \A i \in 1..n : p[i] = s[i]

\* What it is to be a prefix.
LEMMA PrefixIs ==
  ASSUME NEW V, NEW p \in Seq(V), NEW s \in Seq(V)
  PROVE  IsPrefix(p, s) <=> Len(p) <= Len(s) /\ SameUpto(Len(p), p, s)
  <1>1. PICK m \in Nat, n \in Nat : m = Len(p) /\ n = Len(s)
    BY LenProperties
  <1>2. SUFFICES ASSUME m <= n
                 PROVE  SubSeq(p, 1, m) = SubSeq(s, 1, m) <=> SameUpto(m, p, s)
    BY <1>1 DEF IsPrefix
  <1>3. m \in 0..Len(p) /\ m \in 0..Len(s)
    BY <1>1, <1>2
  <1>4. PICK x, y : x = SubSeq(p, 1, m) /\ y = SubSeq(s, 1, m)
    OBVIOUS
  <1>5. x \in Seq(V) /\ Len(x) = m
    BY <1>3, <1>4, BeginningOf
  <1>6. \A i \in 1..m : x[i] = p[i]
    BY <1>3, <1>4, BeginningOf
  <1>7. y \in Seq(V) /\ Len(y) = m
    BY <1>3, <1>4, BeginningOf
  <1>8. \A i \in 1..m : y[i] = s[i]
    BY <1>3, <1>4, BeginningOf
  <1>9. (\A i \in 1..m : x[i] = y[i]) => x = y
    BY <1>5, <1>7, SeqEqual
  <1> QED
    BY <1>4, <1>6, <1>8, <1>9 DEF SameUpto

\* A sequence begins with its prefixes.
LEMMA BeginsIs ==
  ASSUME NEW V, NEW p \in Seq(V), NEW s \in Seq(V)
  PROVE  Begins(s, p) <=> IsPrefix(p, s)
  <1>1. PICK m \in Nat, n \in Nat : m = Len(p) /\ n = Len(s)
    BY LenProperties
  <1>2. ASSUME Begins(s, p) PROVE IsPrefix(p, s)
    <2>1. PICK k \in 0..n : SubSeq(s, 1, k) = p
      BY <1>1, <1>2 DEF Begins
    <2>2. m = k
      BY <1>1, <2>1, BeginningOf
    <2>3. \A i \in 1..k : p[i] = s[i]
      BY <1>1, <2>1, BeginningOf
    <2> QED
      BY <1>1, <2>1, <2>2, <2>3, PrefixIs DEF SameUpto
  <1>3. ASSUME IsPrefix(p, s) PROVE Begins(s, p)
    <2>1. m <= n /\ \A i \in 1..m : p[i] = s[i]
      BY <1>1, <1>3, PrefixIs DEF SameUpto
    <2>2. m \in 0..Len(s)
      BY <1>1, <2>1
    <2>3. PICK x : x = SubSeq(s, 1, m)
      OBVIOUS
    <2>4. x \in Seq(V) /\ Len(x) = m
      BY <2>2, <2>3, BeginningOf
    <2>5. \A i \in 1..m : x[i] = s[i]
      BY <2>2, <2>3, BeginningOf
    <2>6. x = p
      BY <1>1, <2>1, <2>4, <2>5, SeqEqual
    <2> QED
      BY <2>2, <2>3, <2>6 DEF Begins
  <1> QED
    BY <1>2, <1>3

\* A sequence ends with what its reverse begins with, reversed.
LEMMA EndsIs ==
  ASSUME NEW V, NEW e \in Seq(V), NEW s \in Seq(V)
  PROVE  Ends(s, e) <=> IsPrefix(Reverse(e), Reverse(s))
  <1>1. PICK l \in Nat, n \in Nat : l = Len(e) /\ n = Len(s)
    BY LenProperties
  <1>2. PICK p : /\ p = Reverse(e) /\ p \in Seq(V) /\ Len(p) = l
                 /\ \A i \in 1..l : p[i] = e[l - i + 1]
    BY <1>1, ReverseOf
  <1>3. PICK r : /\ r = Reverse(s) /\ r \in Seq(V) /\ Len(r) = n
                 /\ \A i \in 1..n : r[i] = s[n - i + 1]
    BY <1>1, ReverseOf
  <1>4. IsPrefix(p, r) <=> l <= n /\ \A i \in 1..l : p[i] = r[i]
    <2>1. p \in Seq(V) /\ r \in Seq(V)
      BY <1>2, <1>3
    <2>2. IsPrefix(p, r) <=> Len(p) <= Len(r) /\ SameUpto(Len(p), p, r)
      BY <2>1, PrefixIs
    <2> QED
      BY <1>2, <1>3, <2>2 DEF SameUpto
  <1>5. ASSUME Ends(s, e) PROVE l <= n /\ \A i \in 1..l : p[i] = r[i]
    <2>1. PICK k \in 0..n : SubSeq(s, k + 1, n) = e
      BY <1>1, <1>5 DEF Ends
    <2>2. k \in Nat /\ n \in k..Len(s)
      BY <1>1
    <2>3. l = n - k
      BY <1>1, <2>1, <2>2, PartOf
    <2>4. \A i \in 1..l : e[i] = s[k + i]
      BY <2>1, <2>2, <2>3, PartOf
    <2>5. ASSUME NEW i \in 1..l PROVE p[i] = r[i]
      <3>1. PICK j \in 1..l : j = l - i + 1 /\ i \in 1..n /\ k + j = n - i + 1
        BY <2>2, <2>3
      <3>2. p[i] = e[j] /\ r[i] = s[n - i + 1]
        BY <1>2, <1>3, <3>1
      <3> QED
        BY <2>4, <3>1, <3>2
    <2> QED
      BY <2>2, <2>3, <2>5
  <1>6. ASSUME l <= n, \A i \in 1..l : p[i] = r[i] PROVE Ends(s, e)
    <2>0. PICK k \in Nat : k = n - l /\ k <= n
      BY <1>6
    <2>1. k \in Nat /\ n \in k..Len(s) /\ k \in 0..n /\ n - k = l
      BY <1>1, <2>0
    <2>2. PICK x : x = SubSeq(s, k + 1, n)
      OBVIOUS
    <2>3. x \in Seq(V) /\ Len(x) = l
      BY <2>1, <2>2, PartOf
    <2>4. \A i \in 1..l : x[i] = s[k + i]
      BY <2>1, <2>2, PartOf
    <2>5. ASSUME NEW i \in 1..l PROVE x[i] = e[i]
      <3>1. PICK j : j = l - i + 1
        OBVIOUS
      <3>1a. j \in 1..l /\ j \in 1..n /\ l - j + 1 = i /\ n - j + 1 = k + i
        BY <1>6, <2>0, <3>1
      <3>2. p[j] = e[i] /\ r[j] = s[k + i] /\ p[j] = r[j]
        BY <1>2, <1>3, <1>6, <3>1a
      <3> QED
        BY <2>4, <3>2
    <2>6. x = e
      BY <1>1, <2>3, <2>5, SeqEqual
    <2> QED
      BY <1>1, <2>1, <2>2, <2>6 DEF Ends
  <1> QED
    BY <1>2, <1>3, <1>4, <1>5, <1>6

\* The entry of the i-th key.
Named(spell, i) == [key |-> spell[i], ordinal |-> i - 1]
NamedAt(spell, places) == {Named(spell, i) : i \in places}

\* Keys are all different.
LEMMA NamedOnce ==
  ASSUME NEW spell, NEW i \in Nat, NEW j \in Nat, Named(spell, i) = Named(spell, j)
  PROVE  i = j
  <1>1. Named(spell, i).ordinal = i - 1 /\ Named(spell, j).ordinal = j - 1
    BY DEF Named
  <1>2. i - 1 = j - 1
    BY <1>1
  <1> QED
    BY <1>2

\* Elements of a sequence that has each once.
LEMMA OnceChosen ==
  ASSUME NEW s, NEW S, Once(s, S), NEW places \in SUBSET DOMAIN s,
         NEW T, T = {s[i] : i \in places}
  PROVE  Once(Chosen(s, places), T)
  <1>1. PICK n \in Nat : n = Len(s) /\ DOMAIN s = 1..n /\ s \in Seq(S) /\ \A k \in 1..n : s[k] \in S
    BY LenProperties, ElementOfSeq DEF Once
  <1>2. PICK c, at : /\ c = Chosen(s, places) /\ c \in Seq(S) /\ Picked(c, s, at, places)
                     /\ ToSet(c) = {s[k] : k \in places}
    BY <1>1, ChosenIsExact
  <1>3. PICK m \in Nat : m = Len(at) /\ DOMAIN at = 1..m /\ Len(c) = m /\ DOMAIN c = 1..m
    BY <1>2, OnceCounts DEF Picked
  <1>4. \A k \in 1..m : at[k] \in 1..n /\ c[k] = s[at[k]] /\ at[k] \in places
    BY <1>1, <1>2, <1>3, ElementOfSeq DEF Picked, Once
  <1>5. ASSUME NEW i \in 1..m, NEW j \in 1..m, c[i] = c[j] PROVE i = j
    <2>1. at[i] = at[j]
      BY <1>1, <1>4, <1>5 DEF Once
    <2> QED
      BY <1>2, <1>3, <2>1 DEF Picked, Once
  <1>6. ToSet(c) = T
    BY <1>2
  <1>7. c \in Seq(T)
    <2>1. \A k \in 1..m : c[k] \in T
      BY <1>4
    <2>2. c = [k \in 1..m |-> c[k]]
      <3>1. c \in [1..Len(c) -> S]
        BY <1>2, LenProperties
      <3> QED
        BY <1>3, <3>1
    <2>3. c \in [1..m -> T]
      BY <2>1, <2>2
    <2> QED
      BY <2>3, FunctionIsSequence
  <1> QED
    BY <1>2, <1>3, <1>5, <1>6, <1>7 DEF Once

\* Different keys, sorted by their spelling.
LEMMA OrderedIsExact ==
  ASSUME NEW n \in Nat, NEW spell \in [1..n -> Seq(Nat)],
         \A i, j \in 1..n : spell[i] = spell[j] => i = j,
         NEW keys, keys = [i \in 1..n |-> FstKey(spell[i], i - 1)]
  PROVE  Once(Ordered(keys), ToSet(keys)) /\ Len(Ordered(keys)) = n
  <1>1. PICK K : K = ToSet(keys) /\ K = {keys[i] : i \in 1..n}
    BY DEF ToSet
  <1>2. \A i \in 1..n : keys[i][2].key = spell[i] /\ keys[i] \in K
    BY <1>1 DEF FstKey
  <1>3. keys \in Seq(K) /\ Len(keys) = n /\ DOMAIN keys = 1..n
    <2>1. keys \in [1..n -> K]
      BY <1>2
    <2> QED
      BY <2>1, FunctionIsSequence
  <1>4. Once(keys, K)
    <2>1. ASSUME NEW i \in 1..n, NEW j \in 1..n, keys[i] = keys[j] PROVE i = j
      <3>1. spell[i] = spell[j]
        BY <1>2, <2>1
      <3> QED
        BY <3>1
    <2> QED
      BY <1>1, <1>3, <2>1 DEF Once
  <1>5. IsFiniteSet(K) /\ Cardinality(K) = n
    BY <1>3, <1>4, OnceCounts
  <1>6. PICK before : before = {p \in K \X K : Before(p[1][2].key, p[2][2].key)}
    OBVIOUS
  <1>7. \A x, y \in K : <<x, y>> \in before <=> Before(x[2].key, y[2].key)
    BY <1>6
  <1>8. ASSUME NEW x \in K PROVE x[2].key \in Seq(Nat)
    <2>1. PICK i \in 1..n : x = keys[i]
      BY <1>1
    <2> QED
      BY <1>2, <2>1
  <1>9. ASSUME NEW x \in K, NEW y \in K, x # y PROVE x[2].key # y[2].key
    <2>1. PICK i \in 1..n, j \in 1..n : x = keys[i] /\ y = keys[j]
      BY <1>1
    <2>2. i # j
      BY <1>9, <2>1
    <2> QED
      BY <1>2, <2>1, <2>2
  <1>10. StrictOrder(K, before)
    <2>1. \A x \in K : <<x, x>> \notin before
      BY <1>7, <1>8, BeforeIsStrict
    <2>2. ASSUME NEW x \in K, NEW y \in K, NEW z \in K, <<x, y>> \in before, <<y, z>> \in before
          PROVE  <<x, z>> \in before
      BY <1>7, <1>8, <2>2, BeforeIsStrict
    <2>3. ASSUME NEW x \in K, NEW y \in K, x # y PROVE <<x, y>> \in before \/ <<y, x>> \in before
      BY <1>7, <1>8, <1>9, <2>3, BeforeIsTotal
    <2> QED
      BY <2>1, <2>2, <2>3 DEF StrictOrder
  <1>11. Once(InOrder(K, before), K) /\ Len(InOrder(K, before)) = n
    BY <1>5, <1>10, InOrderIsExact
  <1>12. Ordered(keys) = InOrder(K, before)
    <2>1. \A x \in K : {l \in K : Before(l[2].key, x[2].key)} = {y \in K : <<y, x>> \in before}
      BY <1>7
    <2>2. Ordered(keys) = [i \in 1..n |-> CHOOSE x \in K :
                             Cardinality({l \in K : Before(l[2].key, x[2].key)}) = i - 1]
      BY <1>1, <1>3 DEF Ordered
    <2>3. InOrder(K, before) = [i \in 1..n |-> CHOOSE x \in K :
                                  Cardinality({y \in K : <<y, x>> \in before}) = i - 1]
      BY <1>5 DEF InOrder
    <2>4. \A i \in 1..n :
            (CHOOSE x \in K : Cardinality({l \in K : Before(l[2].key, x[2].key)}) = i - 1)
              = (CHOOSE x \in K : Cardinality({y \in K : <<y, x>> \in before}) = i - 1)
      BY <2>1
    <2> QED
      BY ONLY <2>2, <2>3, <2>4
  <1> QED
    BY <1>1, <1>11, <1>12

\* parse_fst undoes the writing of a dictionary.
LEMMA DictionaryIsRead ==
  ASSUME NEW V, NEW keys \in Seq(V), NEW part, IsCounted(part, Len(keys), keys),
         NEW file, NEW offset \in Nat, InPlace(file, offset, part)
  PROVE  parse_fst(file, offset) = [i \in 1..Len(keys) |-> keys[i][2]]
  <1>1. PICK n \in Nat : n = Len(keys)
    BY LenProperties
  <1>2. Len(part) = 1 + n /\ part[1] = U(n) /\ \A k \in 1..n : part[1 + k] = keys[k]
    BY <1>1 DEF IsCounted
  <1>3. \A k \in 1..1 + n : file[offset + k] = part[k]
    BY <1>2 DEF InPlace
  <1>4. At(file, offset) = n
    <2>1. 1 \in 1..1 + n
      OBVIOUS
    <2>2. file[offset + 1] = U(n)
      BY <1>2, <1>3, <2>1
    <2> QED
      BY <2>2 DEF At, U
  <1>5. ASSUME NEW i \in 1..n PROVE At(file, offset + i) = keys[i][2]
    <2>1. PICK k \in 1..1 + n : k = 1 + i /\ offset + k = offset + i + 1
      OBVIOUS
    <2>2. file[offset + i + 1] = keys[i]
      BY <1>2, <1>3, <2>1
    <2> QED
      BY <2>2 DEF At
  <1>6. parse_fst(file, offset) = [i \in 1..n |-> At(file, offset + i)]
    BY <1>4 DEF parse_fst
  <1> QED
    BY <1>1, <1>5, <1>6

\* The terms of both dictionaries of a file: a term's place is that in terms.
Dictionaries(file, T, terms) ==
  /\ terms \in Seq(DOMAIN Chars) /\ (\A i, j \in 1..Len(terms) : terms[i] = terms[j] => i = j)
  /\ (\A i \in 1..Len(terms) : terms[i] \in T) /\ (\A t \in T : \E i \in 1..Len(terms) : terms[i] = t)
  /\ parse_fst(file, forward_fst_offset(file)) = Fst(terms)
  /\ parse_fst(file, reverse_fst_offset(file)) = [i \in 1..Len(terms) |-> ReverseFst(terms)[i][2]]

\* Both are found in a file that was built.
LEMMA DictionariesAreFound ==
  ASSUME NEW F, NEW files \in Seq(F), NEW segment, IsSegment(segment),
         NEW file, file = build(segment, files)
  PROVE  \E terms : Dictionaries(file, DOMAIN segment.postings, terms)
  <1>1. PICK terms, encoded, sections, o :
          /\ LaidOut(F, segment, files, terms, encoded, sections, o, file)
          /\ SectionsFound(file, sections, o)
    BY FileIsLaidOut
  <1>2. TermsFit(segment, terms, encoded) /\ SectionsFit(F, segment, files, terms, encoded, sections)
    BY <1>1 DEF LaidOut
  <1>3. /\ terms \in Seq(DOMAIN Chars)
        /\ \A i, j \in 1..Len(terms) : terms[i] = terms[j] => i = j
        /\ \A i \in 1..Len(terms) : terms[i] \in DOMAIN segment.postings
        /\ \A t \in DOMAIN segment.postings : \E i \in 1..Len(terms) : terms[i] = t
    BY <1>2 DEF TermsFit
  <1>4. PICK n \in Nat : n = Len(terms)
    BY <1>3, LenProperties
  <1>5. PICK a \in Nat, b \in Nat :
          /\ a = o[3] /\ b = o[4]
          /\ forward_fst_offset(file) = a /\ reverse_fst_offset(file) = b
          /\ InPlace(file, a, sections[4]) /\ InPlace(file, b, sections[5])
    BY <1>1 DEF SectionsFound
  <1>6. /\ sections[4] = Counted(Len(terms), ForwardFst(terms))
        /\ sections[5] = Counted(Len(terms), ReverseFst(terms))
    BY <1>2 DEF SectionsFit
  <1>7. parse_fst(file, a) = Fst(terms)
    <2>1. PICK part : part = Counted(Len(terms), ForwardFst(terms)) /\ InPlace(file, a, part)
      BY <1>5, <1>6
    <2>2. \A g : \A offset \in Nat : InPlace(g, offset, part) => parse_fst(g, offset) = Fst(terms)
      BY <1>3, <2>1, FstIsFound
    <2> QED
      BY <2>1, <2>2
  <1>8. PICK reversed : reversed = ReverseFst(terms) /\ reversed = [i \in 1..n |-> reversed[i]]
    BY <1>3, <1>4, ReverseFstLength
  <1>9. PICK W : W = {reversed[i] : i \in 1..n} \cup {U(n)}
    OBVIOUS
  <1>10. reversed \in Seq(W) /\ Len(reversed) = n /\ U(n) \in W
    <2>1. \A i \in 1..n : reversed[i] \in W
      BY <1>9
    <2>2. reversed \in [1..n -> W]
      BY <1>8, <2>1
    <2> QED
      BY <1>9, <2>2, FunctionIsSequence
  <1>11. parse_fst(file, b) = [i \in 1..n |-> reversed[i][2]]
    <2>1. PICK part : part = Counted(n, reversed) /\ InPlace(file, b, part)
      BY <1>4, <1>5, <1>6, <1>8
    <2>2. IsCounted(part, Len(reversed), reversed)
      BY <1>10, <2>1, CountedPart
    <2>3. parse_fst(file, b) = [i \in 1..Len(reversed) |-> reversed[i][2]]
      BY <1>10, <2>1, <2>2, DictionaryIsRead
    <2> QED
      BY <1>10, <2>3
  <1>12. Dictionaries(file, DOMAIN segment.postings, terms)
    BY <1>3, <1>4, <1>5, <1>7, <1>8, <1>11 DEF Dictionaries
  <1> QED
    BY <1>12

\* The keys of a dictionary that start with a prefix.
LEMMA KeysFromAre ==
  ASSUME NEW n \in Nat, NEW spell, NEW fst, Once(fst, NamedAt(spell, 1..n)), NEW prefix,
         NEW places, places = {i \in 1..n : IsPrefix(prefix, spell[i])}
  PROVE  Once(KeysFrom(fst, prefix), NamedAt(spell, places))
  <1>1. PICK at : at = {k \in DOMAIN fst : IsPrefix(prefix, fst[k].key)}
    OBVIOUS
  <1>2. \A k \in DOMAIN fst : \E i \in 1..n : fst[k] = Named(spell, i)
    <2>1. \A k \in DOMAIN fst : fst[k] \in NamedAt(spell, 1..n)
      BY OnceCounts, ElementOfSeq DEF Once
    <2> QED
      BY <2>1 DEF NamedAt
  <1>3. \A i \in 1..n : \E k \in DOMAIN fst : fst[k] = Named(spell, i)
    <2>1. \A i \in 1..n : Named(spell, i) \in ToSet(fst)
      BY DEF Once, NamedAt
    <2> QED
      BY <2>1 DEF ToSet
  <1>4. \A i : Named(spell, i).key = spell[i]
    BY DEF Named
  <1>5. NamedAt(spell, places) = {fst[k] : k \in at}
    <2>1. ASSUME NEW i \in places PROVE \E k \in at : fst[k] = Named(spell, i)
      <3>1. i \in 1..n /\ IsPrefix(prefix, spell[i])
        OBVIOUS
      <3>2. PICK k \in DOMAIN fst : fst[k] = Named(spell, i)
        BY <1>3, <3>1
      <3>3. k \in at
        BY <1>1, <1>4, <3>1, <3>2
      <3> QED
        BY <3>2, <3>3
    <2>2. ASSUME NEW k \in at PROVE \E i \in places : fst[k] = Named(spell, i)
      <3>1. k \in DOMAIN fst /\ IsPrefix(prefix, fst[k].key)
        BY <1>1
      <3>2. PICK i \in 1..n : fst[k] = Named(spell, i)
        BY <1>2, <3>1
      <3>3. i \in places
        BY <1>4, <3>1, <3>2
      <3> QED
        BY <3>2, <3>3
    <2> QED
      BY <2>1, <2>2 DEF NamedAt
  <1>6. Once(Chosen(fst, at), NamedAt(spell, places))
    BY <1>1, <1>5, OnceChosen
  <1> QED
    BY <1>1, <1>6 DEF KeysFrom

\* The spellings of terms, and the reverses of them.
Spelled(terms) == [i \in 1..Len(terms) |-> Chars[terms[i]]]
SpelledBack(terms) == [i \in 1..Len(terms) |-> Reverse(Chars[terms[i]])]

\* Terms in the dictionaries.
LEMMA TermKeysAre ==
  ASSUME NEW file, NEW T, NEW terms, Dictionaries(file, T, terms), NEW S \in SUBSET T,
         NEW places, places = {i \in 1..Len(terms) : terms[i] \in S}
  PROVE  TermKeys(file, S) = NamedAt(Spelled(terms), places)
  <1>1. PICK n \in Nat : n = Len(terms)
    BY LenProperties DEF Dictionaries
  <1>2. \A i \in 1..n : term_ordinal(file, terms[i]) = {i - 1}
    BY <1>1, OrdinalIsFound DEF Dictionaries
  <1> DEFINE Key(t) == [key |-> Chars[t], ordinal |-> CHOOSE o \in term_ordinal(file, t) : TRUE]
  <1>3. ASSUME NEW i \in 1..n PROVE Key(terms[i]) = Named(Spelled(terms), i)
    <2>1. (CHOOSE o \in term_ordinal(file, terms[i]) : TRUE) = i - 1
      <3>1. term_ordinal(file, terms[i]) = {i - 1}
        BY <1>2
      <3>2. \A y : (CHOOSE o \in {y} : TRUE) = y
        OBVIOUS
      <3> QED
        BY ONLY <3>1, <3>2
    <2>2. Spelled(terms)[i] = Chars[terms[i]]
      BY <1>1 DEF Spelled
    <2> QED
      BY <2>1, <2>2 DEF Named
  <1>4. TermKeys(file, S) = {Key(t) : t \in S}
    BY DEF TermKeys
  <1> HIDE DEF Key
  <1>5. \A t \in S : \E i \in places : terms[i] = t
    BY <1>1 DEF Dictionaries
  <1>6. \A i \in places : terms[i] \in S /\ i \in 1..n
    BY <1>1
  <1> QED
    BY <1>3, <1>4, <1>5, <1>6 DEF NamedAt

\* prefix_terms: the terms that begin with the prefix, each once.
LEMMA PrefixesAreFound ==
  ASSUME NEW file, NEW T, NEW terms, Dictionaries(file, T, terms), NEW beginning \in Seq(Nat),
         NEW S, S = {t \in T : Begins(Chars[t], beginning)}
  PROVE  Once(prefix_terms(file, beginning), TermKeys(file, S))
  <1>1. PICK n \in Nat : n = Len(terms) /\ \A i \in 1..n : terms[i] \in DOMAIN Chars /\ terms[i] \in T
    BY LenProperties, ElementOfSeq DEF Dictionaries
  <1>2. PICK spell : spell = Spelled(terms)
    OBVIOUS
  <1>3. \A i \in 1..n : spell[i] = Chars[terms[i]] /\ spell[i] \in Seq(Nat)
    BY <1>1, <1>2, SegmentFileAssumption DEF Spelled
  <1>4. PICK fst : fst = Fst(terms) /\ fst = parse_fst(file, forward_fst_offset(file))
    BY DEF Dictionaries
  <1>5. Once(fst, NamedAt(spell, 1..n))
    <2>1. fst = [i \in 1..n |-> Named(spell, i)]
      BY <1>1, <1>3, <1>4 DEF Fst, Named
    <2>2. \A i \in 1..n : fst[i] \in NamedAt(spell, 1..n)
      BY <2>1 DEF NamedAt
    <2>3. fst \in Seq(NamedAt(spell, 1..n)) /\ Len(fst) = n
      <3>1. fst \in [1..n -> NamedAt(spell, 1..n)]
        BY <2>1, <2>2
      <3> QED
        BY <3>1, FunctionIsSequence
    <2>4. ToSet(fst) = NamedAt(spell, 1..n)
      BY <2>1 DEF ToSet, NamedAt
    <2>5. \A i, j \in 1..n : fst[i] = fst[j] => i = j
      BY <2>1, NamedOnce
    <2> QED
      BY <2>3, <2>4, <2>5 DEF Once
  <1>6. PICK places : places = {i \in 1..n : IsPrefix(beginning, spell[i])}
    OBVIOUS
  <1>7. Once(KeysFrom(fst, beginning), NamedAt(spell, places))
    BY <1>5, <1>6, KeysFromAre
  <1>8. places = {i \in 1..Len(terms) : terms[i] \in S}
    <2>1. \A i \in 1..n : IsPrefix(beginning, spell[i]) <=> terms[i] \in S
      BY <1>1, <1>3, BeginsIs
    <2> QED
      BY <1>1, <1>6, <2>1
  <1>9. S \in SUBSET T
    OBVIOUS
  <1>10. TermKeys(file, S) = NamedAt(spell, places)
    BY <1>2, <1>8, <1>9, TermKeysAre
  <1> QED
    BY <1>4, <1>7, <1>10 DEF prefix_terms

\* The dictionary of the reversed terms has each of them with its ordinal.
LEMMA ReversedOnce ==
  ASSUME NEW file, NEW T, NEW terms, Dictionaries(file, T, terms),
         NEW n, n = Len(terms)
  PROVE  Once(parse_fst(file, reverse_fst_offset(file)), NamedAt(SpelledBack(terms), 1..n))
  <1>1. n \in Nat /\ DOMAIN terms = 1..n /\ \A i \in 1..n : terms[i] \in DOMAIN Chars
    BY LenProperties, ElementOfSeq DEF Dictionaries
  <1>2. PICK spell : spell = SpelledBack(terms) /\ spell = [i \in 1..n |-> Reverse(Chars[terms[i]])]
    BY DEF SpelledBack
  <1>3. \A i \in 1..n : Chars[terms[i]] \in Seq(Nat)
    BY <1>1, SegmentFileAssumption
  <1>4. spell \in [1..n -> Seq(Nat)]
    <2>1. \A i \in 1..n : Reverse(Chars[terms[i]]) \in Seq(Nat)
      BY <1>3, ReverseOf
    <2> QED
      BY <1>2, <2>1
  <1>5. ASSUME NEW i \in 1..n, NEW j \in 1..n, spell[i] = spell[j] PROVE i = j
    <2>1. Reverse(Chars[terms[i]]) = Reverse(Chars[terms[j]])
      BY <1>2, <1>5
    <2>2. /\ Reverse(Reverse(Chars[terms[i]])) = Chars[terms[i]]
          /\ Reverse(Reverse(Chars[terms[j]])) = Chars[terms[j]]
      BY <1>3, ReverseOf
    <2>3. Chars[terms[i]] = Chars[terms[j]]
      BY <2>1, <2>2
    <2>4. terms[i] = terms[j]
      BY <1>1, <2>3, SpellingsDiffer
    <2> QED
      BY <2>4 DEF Dictionaries
  <1>6. PICK keys : keys = [i \in 1..n |-> FstKey(spell[i], i - 1)]
    OBVIOUS
  <1>7. PICK reversed : reversed = Ordered(keys) /\ Once(reversed, ToSet(keys)) /\ Len(reversed) = n
    <2>1. \A i, j \in 1..n : spell[i] = spell[j] => i = j
      BY <1>5
    <2>2. n \in Nat
      BY <1>1
    <2>3. Once(Ordered(keys), ToSet(keys)) /\ Len(Ordered(keys)) = n
      BY ONLY <1>4, <1>6, <2>1, <2>2, OrderedIsExact
    <2> QED
      BY <2>3
  <1>8. ReverseFst(terms) = reversed
    <2>1. \A i \in 1..n : FstKey(Reverse(Chars[terms[i]]), i - 1) = keys[i]
      BY <1>2, <1>6
    <2>2. [i \in DOMAIN terms |-> FstKey(Reverse(Chars[terms[i]]), i - 1)] = keys
      BY <1>1, <1>6, <2>1
    <2> QED
      BY <1>7, <2>2 DEF ReverseFst
  <1>9. PICK fst : /\ fst = parse_fst(file, reverse_fst_offset(file))
                   /\ fst = [i \in 1..n |-> reversed[i][2]]
    BY <1>8 DEF Dictionaries
  <1>10. \A x \in ToSet(keys) : \E i \in 1..n : x = keys[i]
    BY <1>6 DEF ToSet
  <1>11. \A i \in 1..n : keys[i] \in ToSet(keys) /\ keys[i][2] = Named(spell, i) /\ keys[i][1] = "key"
    BY <1>6 DEF ToSet, FstKey, Named
  <1>12. ASSUME NEW k \in 1..n PROVE \E i \in 1..n : reversed[k] = keys[i] /\ fst[k] = Named(spell, i)
    <2>1. reversed[k] \in ToSet(keys)
      BY <1>7, ElementOfSeq DEF Once
    <2> QED
      BY <1>9, <1>10, <1>11, <2>1
  <1>13. ASSUME NEW i \in 1..n PROVE \E k \in 1..n : fst[k] = Named(spell, i)
    <2>1. keys[i] \in ToSet(reversed) /\ DOMAIN reversed = 1..n
      BY <1>7, <1>11, OnceCounts DEF Once
    <2>2. PICK k \in 1..n : reversed[k] = keys[i]
      BY <2>1 DEF ToSet
    <2> QED
      BY <1>9, <1>11, <2>2
  <1>14. ASSUME NEW k \in 1..n, NEW l \in 1..n, fst[k] = fst[l] PROVE k = l
    <2>1. PICK i \in 1..n : reversed[k] = keys[i] /\ fst[k] = Named(spell, i)
      BY <1>12
    <2>2. PICK j \in 1..n : reversed[l] = keys[j] /\ fst[l] = Named(spell, j)
      BY <1>12
    <2>3. i = j
      <3>1. i \in Nat /\ j \in Nat
        BY <1>1
      <3>2. Named(spell, i) = Named(spell, j)
        BY <1>14, <2>1, <2>2
      <3> QED
        BY <3>1, <3>2, NamedOnce
    <2>4. reversed[k] = reversed[l]
      BY <2>1, <2>2, <2>3
    <2> QED
      BY <1>7, <2>4 DEF Once
  <1>15. fst \in Seq(NamedAt(spell, 1..n)) /\ Len(fst) = n
    <2>1. \A k \in 1..n : fst[k] \in NamedAt(spell, 1..n)
      BY <1>12 DEF NamedAt
    <2>2. fst \in [1..n -> NamedAt(spell, 1..n)]
      BY <1>9, <2>1
    <2> QED
      BY <1>1, <2>2, FunctionIsSequence
  <1>16. ToSet(fst) = NamedAt(spell, 1..n)
    <2>1. DOMAIN fst = 1..n
      BY <1>9
    <2>2. \A k \in 1..n : fst[k] \in NamedAt(spell, 1..n)
      BY <1>12 DEF NamedAt
    <2>3. \A x \in NamedAt(spell, 1..n) : \E k \in 1..n : fst[k] = x
      BY <1>13 DEF NamedAt
    <2> QED
      BY <2>1, <2>2, <2>3 DEF ToSet
  <1> QED
    BY <1>2, <1>9, <1>14, <1>15, <1>16 DEF Once

\* suffix_terms: the terms that end with the suffix, each once.
LEMMA SuffixesAreFound ==
  ASSUME NEW file, NEW T, NEW terms, Dictionaries(file, T, terms), NEW ending \in Seq(Nat),
         NEW S, S = {t \in T : Ends(Chars[t], ending)}
  PROVE  Once(suffix_terms(file, ending), TermKeys(file, S))
  <1>1. PICK n \in Nat : n = Len(terms) /\ \A i \in 1..n : terms[i] \in DOMAIN Chars /\ terms[i] \in T
    BY LenProperties, ElementOfSeq DEF Dictionaries
  <1>2. PICK spell, back : spell = Spelled(terms) /\ back = SpelledBack(terms)
    OBVIOUS
  <1>3. \A i \in 1..n : Chars[terms[i]] \in Seq(Nat)
    BY <1>1, SegmentFileAssumption
  <1>4. \A i \in 1..n : spell[i] = Chars[terms[i]] /\ back[i] = Reverse(Chars[terms[i]])
    BY <1>1, <1>2 DEF Spelled, SpelledBack
  <1>5. \A i \in 1..n : Reverse(back[i]) = spell[i]
    BY <1>3, <1>4, ReverseOf
  <1>6. PICK fst : fst = parse_fst(file, reverse_fst_offset(file)) /\ Once(fst, NamedAt(back, 1..n))
    BY <1>1, <1>2, ReversedOnce
  <1>7. PICK places : places = {i \in 1..n : IsPrefix(Reverse(ending), back[i])}
    OBVIOUS
  <1>8. PICK found : found = KeysFrom(fst, Reverse(ending)) /\ Once(found, NamedAt(back, places))
    BY <1>6, <1>7, KeysFromAre
  <1>9. PICK m \in Nat : m = Len(found) /\ DOMAIN found = 1..m
    BY <1>8, OnceCounts
  <1>10. PICK listed : /\ listed = suffix_terms(file, ending)
                       /\ listed = [k \in 1..m |-> [found[k] EXCEPT !.key = Reverse(@)]]
    BY <1>6, <1>8, <1>9 DEF suffix_terms
  <1>11. ASSUME NEW k \in 1..m, NEW i \in 1..n, found[k] = Named(back, i)
         PROVE  listed[k] = Named(spell, i)
    <2>1. Named(back, i) = [key |-> back[i], ordinal |-> i - 1]
      BY DEF Named
    <2>2. listed[k] = [key |-> Reverse(back[i]), ordinal |-> i - 1]
      BY <1>10, <1>11, <2>1
    <2> QED
      BY <1>5, <2>2 DEF Named
  <1>12. ASSUME NEW k \in 1..m
         PROVE  \E i \in places : found[k] = Named(back, i) /\ listed[k] = Named(spell, i)
    <2>1. found[k] \in NamedAt(back, places)
      BY <1>8, <1>9, ElementOfSeq DEF Once
    <2>2. PICK i \in places : found[k] = Named(back, i)
      BY <2>1 DEF NamedAt
    <2>3. i \in 1..n
      BY <1>7
    <2> QED
      BY <1>11, <2>2, <2>3
  <1>13. ASSUME NEW i \in places PROVE \E k \in 1..m : listed[k] = Named(spell, i)
    <2>1. Named(back, i) \in ToSet(found) /\ i \in 1..n
      BY <1>7, <1>8 DEF Once, NamedAt
    <2>2. PICK k \in 1..m : found[k] = Named(back, i)
      BY <1>9, <2>1 DEF ToSet
    <2> QED
      BY <1>11, <2>1, <2>2
  <1>14. ASSUME NEW k \in 1..m, NEW l \in 1..m, listed[k] = listed[l] PROVE k = l
    <2>1. PICK i \in places : found[k] = Named(back, i) /\ listed[k] = Named(spell, i)
      BY <1>12
    <2>2. PICK j \in places : found[l] = Named(back, j) /\ listed[l] = Named(spell, j)
      BY <1>12
    <2>3. i \in Nat /\ j \in Nat
      BY <1>7
    <2>4. i = j
      BY <1>14, <2>1, <2>2, <2>3, NamedOnce
    <2>5. found[k] = found[l]
      BY <2>1, <2>2, <2>4
    <2> QED
      BY <1>8, <1>9, <2>5 DEF Once
  <1>15. Once(listed, NamedAt(spell, places))
    <2>1. \A k \in 1..m : listed[k] \in NamedAt(spell, places)
      BY <1>12 DEF NamedAt
    <2>2. listed \in Seq(NamedAt(spell, places)) /\ Len(listed) = m
      <3>1. listed \in [1..m -> NamedAt(spell, places)]
        BY <1>10, <2>1
      <3> QED
        BY <3>1, FunctionIsSequence
    <2>3. DOMAIN listed = 1..m
      BY <1>10
    <2>4. ToSet(listed) = NamedAt(spell, places)
      BY <1>12, <1>13, <2>3 DEF ToSet, NamedAt
    <2> QED
      BY <1>14, <2>2, <2>4 DEF Once
  <1>16. places = {i \in 1..Len(terms) : terms[i] \in S}
    <2>1. \A i \in 1..n : IsPrefix(Reverse(ending), back[i]) <=> terms[i] \in S
      BY <1>1, <1>3, <1>4, EndsIs
    <2> QED
      BY <1>1, <1>7, <2>1
  <1>17. S \in SUBSET T
    OBVIOUS
  <1>18. TermKeys(file, S) = NamedAt(spell, places)
    BY <1>2, <1>16, <1>17, TermKeysAre
  <1> QED
    BY <1>10, <1>15, <1>18

(***************************************************************************)
(* By any beginning or end of any term, both dictionaries of any segment   *)
(* that is not damaged find exactly the terms of the segment spelled so,   *)
(* each once and with the ordinal of its posting list.                     *)
(***************************************************************************)
THEOREM EveryLookupIsExact == Spec => []LookupsAreExact
  <1>1. SearchInv => LookupsAreExact
    <2> SUFFICES ASSUME SearchInv, NEW m \in ToSet(table), ~m.damaged
                 PROVE  \E segment \in m.reader : \A s \in Terms : \A k \in 0..Len(Chars[s]) :
                          /\ ListsOnce(prefix_terms(m.bytes, SubSeq(Chars[s], 1, k)),
                                TermKeys(m.bytes, {t \in DOMAIN segment.postings :
                                  Begins(Chars[t], SubSeq(Chars[s], 1, k))}))
                          /\ ListsOnce(suffix_terms(m.bytes, SubSeq(Chars[s], k + 1, Len(Chars[s]))),
                                TermKeys(m.bytes, {t \in DOMAIN segment.postings :
                                  Ends(Chars[t], SubSeq(Chars[s], k + 1, Len(Chars[s])))}))
      BY DEF LookupsAreExact
    <2>1. PICK built : built = BuiltFrom(data, m) /\ IsSegment(built)
      BY ReaderOfManifest
    <2>2. PICK segment : segment \in m.reader /\ segment.postings = built.postings
      <3>1. m.reader = {ReaderOf(built, m.files)}
        BY <2>1, ReaderOfManifest
      <3>2. ReaderOf(built, m.files).postings = built.postings
        BY DEF ReaderOf
      <3> QED
        BY <3>1, <3>2
    <2>3. PICK files, file : /\ files \in Seq(Files) /\ files = m.files
                           /\ file = m.bytes /\ file = build(built, files)
      <3>1. ManifestFits(data, m)
        BY DEF SearchInv
      <3>2. m.files \in Seq(Files) /\ m.bytes = FileOf(data, m)
        BY <3>1 DEF ManifestFits
      <3> QED
        BY <2>1, <3>2 DEF FileOf
    <2>4. PICK T, terms : T = DOMAIN segment.postings /\ Dictionaries(file, T, terms)
      BY <2>1, <2>2, <2>3, DictionariesAreFound
    <2>5. ASSUME NEW s \in Terms, NEW k \in 0..Len(Chars[s]), NEW beginning, NEW ending,
                 beginning = SubSeq(Chars[s], 1, k), ending = SubSeq(Chars[s], k + 1, Len(Chars[s])),
                 NEW B, B = {t \in T : Begins(Chars[t], beginning)},
                 NEW E, E = {t \in T : Ends(Chars[t], ending)}
          PROVE  /\ ListsOnce(prefix_terms(file, beginning), TermKeys(file, B))
                 /\ ListsOnce(suffix_terms(file, ending), TermKeys(file, E))
      <3>1. Chars[s] \in Seq(Nat)
        BY SearchAssumption, SegmentFileAssumption
      <3>2. beginning \in Seq(Nat)
        BY <2>5, <3>1, BeginningOf
      <3>3. ending \in Seq(Nat)
        <4>1. k \in Nat /\ Len(Chars[s]) \in k..Len(Chars[s])
          BY <3>1, LenProperties
        <4> QED
          BY <2>5, <3>1, <4>1, PartOf
      <3>4. Once(prefix_terms(file, beginning), TermKeys(file, B))
        BY <2>4, <2>5, <3>2, PrefixesAreFound
      <3>5. Once(suffix_terms(file, ending), TermKeys(file, E))
        BY <2>4, <2>5, <3>3, SuffixesAreFound
      <3>6. \A found, S : Once(found, S) => ListsOnce(found, S)
        BY OnceCounts DEF Once, ListsOnce
      <3> QED
        BY <3>4, <3>5, <3>6
    <2> QED
      BY <2>2, <2>3, <2>4, <2>5
  <1> QED
    BY <1>1, SearchInvIsInvariant, PTL
=============================================================================
