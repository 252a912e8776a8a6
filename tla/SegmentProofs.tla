--------------------------- MODULE SegmentProofs ---------------------------
(***************************************************************************)
(* What a segment rests on, for lists, pages and rows of any number.       *)
(***************************************************************************)
EXTENDS PageIndex, SegmentFile, Recursion, SequenceTheorems

(***************************************************************************)
(* The merges of boolean.rs, of any two sorted lists.  A merge is named by *)
(* the outcomes it pushes and the tails it appends; the three of the code  *)
(* append the tail of a list when they push the head that is only in it.   *)
(***************************************************************************)
MergeStep(a, b, pushed, p, push) ==
  IF p[1] > Len(a) \/ p[2] > Len(b) THEN Rest("less" \in pushed, a, p[1]) \o Rest("greater" \in pushed, b, p[2])
  ELSE IF a[p[1]] < b[p[2]] THEN Head1(pushed, "less", a[p[1]]) \o push[<<p[1] + 1, p[2]>>]
  ELSE IF a[p[1]] > b[p[2]] THEN Head1(pushed, "greater", b[p[2]]) \o push[<<p[1], p[2] + 1>>]
  ELSE Head1(pushed, "equal", a[p[1]]) \o push[<<p[1] + 1, p[2] + 1>>]

IsMerge(push, a, b, pushed) ==
  push = [p \in Pointers(a, b) |-> MergeStep(a, b, pushed, p, push)]

\* What the merge makes of what is left of the lists.
Left(s, i) == {s[k] : k \in i..Len(s)}
Kept(A, B, pushed) ==
  (IF "equal" \in pushed THEN A \cap B ELSE {})
    \cup (IF "less" \in pushed THEN A \ B ELSE {})
    \cup (IF "greater" \in pushed THEN B \ A ELSE {})

OneIf(pushed, outcome, doc) == IF outcome \in pushed THEN {doc} ELSE {}

SortedList(s) == s \in Seq(Nat) /\ IsSortedSet(s)

\* A field that a file has in its slot is what a reader finds there.
LEMMA AtNumber ==
  ASSUME NEW file, NEW offset, NEW slot, slot = offset + 1, NEW v, file[slot] = U(v)
  PROVE  At(file, offset) = v
  BY DEF At, U

\* IsSortedSet of a sequence, by its length.
LEMMA Sorted ==
  ASSUME NEW s \in Seq(Nat)
  PROVE  IsSortedSet(s) <=> \A i, j \in 1..Len(s) : i < j => s[i] < s[j]
  <1>1. PICK D : D = 1..Len(s) /\ DOMAIN s = D
    OBVIOUS
  <1>2. IsSortedSet(s) <=> \A i, j \in D : i < j => s[i] < s[j]
    BY <1>1 DEF IsSortedSet
  <1> QED
    BY <1>1, <1>2

\* The elements of a list, by its length.
LEMMA SetOfList ==
  ASSUME NEW s \in Seq(Nat) PROVE ToSet(s) = {s[i] : i \in 1..Len(s)} /\ ToSet(s) \subseteq Nat
  BY DEF ToSet

\* The empty list.
LEMMA EmptyList == SortedList(<<>>) /\ ToSet(<<>>) = {}
  BY DEF SortedList, IsSortedSet, ToSet

\* A number below all of a list goes in front of it.
LEMMA PushFront ==
  ASSUME NEW h \in Nat, NEW s, SortedList(s), \A x \in ToSet(s) : h < x
  PROVE  SortedList(<<h>> \o s) /\ ToSet(<<h>> \o s) = {h} \cup ToSet(s)
  <1> DEFINE t == <<h>> \o s
  <1>1. /\ s \in Seq(Nat) /\ t \in Seq(Nat) /\ Len(s) \in Nat /\ Len(t) = Len(s) + 1
        /\ t[1] = h /\ \A i \in 1..Len(s) : t[i + 1] = s[i]
    BY DEF SortedList
  <1> HIDE DEF t
  <1>2. \A i \in 1..Len(t) : i = 1 \/ (i - 1 \in 1..Len(s) /\ t[i] = s[i - 1])
    <2> SUFFICES ASSUME NEW i \in 1..Len(t), i # 1 PROVE i - 1 \in 1..Len(s) /\ t[i] = s[i - 1]
      OBVIOUS
    <2>1. i - 1 \in 1..Len(s) /\ (i - 1) + 1 = i
      BY <1>1
    <2> QED
      BY <1>1, <2>1
  <1>3. ToSet(s) = {s[i] : i \in 1..Len(s)} /\ ToSet(t) = {t[i] : i \in 1..Len(t)}
    BY <1>1, SetOfList
  <1>4. ToSet(t) = {h} \cup ToSet(s)
    <2>1. ASSUME NEW x \in ToSet(t) PROVE x \in {h} \cup ToSet(s)
      <3>1. PICK i \in 1..Len(t) : x = t[i]
        BY <1>3
      <3> QED
        BY <1>1, <1>2, <1>3, <3>1
    <2>2. ASSUME NEW i \in 1..Len(s) PROVE s[i] \in ToSet(t)
      <3>1. i + 1 \in 1..Len(t) /\ t[i + 1] = s[i]
        BY <1>1
      <3> QED
        BY <1>3, <3>1
    <2>3. h \in ToSet(t)
      <3>1. 1 \in 1..Len(t)
        BY <1>1
      <3> QED
        BY <1>1, <1>3, <3>1
    <2> QED
      BY <1>3, <2>1, <2>2, <2>3
  <1>5. \A i, j \in 1..Len(s) : i < j => s[i] < s[j]
    BY <1>1, Sorted DEF SortedList
  <1>6. ASSUME NEW i \in 1..Len(t), NEW j \in 1..Len(t), i < j PROVE t[i] < t[j]
    <2>1. j - 1 \in 1..Len(s) /\ t[j] = s[j - 1] /\ t[j] \in ToSet(s)
      BY <1>1, <1>2, <1>3, <1>6
    <2>2. CASE i = 1
      BY <1>1, <2>1, <2>2
    <2>3. CASE i # 1
      BY <1>2, <1>5, <1>6, <2>1, <2>3
    <2> QED
      BY <2>2, <2>3
  <1>7. SortedList(t)
    BY <1>1, <1>6, Sorted DEF SortedList
  <1> QED
    BY <1>4, <1>7 DEF t

\* The tail that a merge appends, or leaves out.
LEMMA RestOfList ==
  ASSUME NEW s, SortedList(s), NEW i \in 1..Len(s) + 1, NEW keep
  PROVE  /\ SortedList(Rest(keep, s, i))
         /\ ToSet(Rest(keep, s, i)) = IF keep THEN Left(s, i) ELSE {}
  <1>1. CASE ~keep
    BY <1>1, EmptyList DEF Rest
  <1>2. CASE keep
    <2> DEFINE t == SubSeq(s, i, Len(s))
    <2>1. /\ s \in Seq(Nat) /\ Len(s) \in Nat /\ t \in Seq(Nat) /\ Len(t) = Len(s) - i + 1
          /\ \A k \in 1..Len(t) : t[k] = s[i + k - 1] /\ i + k - 1 \in i..Len(s)
      BY DEF SortedList
    <2> HIDE DEF t
    <2>2. \A k \in i..Len(s) : k - i + 1 \in 1..Len(t) /\ t[k - i + 1] = s[k]
      <3> SUFFICES ASSUME NEW k \in i..Len(s)
                   PROVE  k - i + 1 \in 1..Len(t) /\ t[k - i + 1] = s[k]
        OBVIOUS
      <3>1. k - i + 1 \in 1..Len(t) /\ i + (k - i + 1) - 1 = k
        BY <2>1
      <3> QED
        BY <2>1, <3>1
    <2>3. ToSet(t) = Left(s, i)
      <3>1. ToSet(t) = {t[k] : k \in 1..Len(t)}
        BY <2>1, SetOfList
      <3>2. \A x \in ToSet(t) : x \in Left(s, i)
        BY <2>1, <3>1 DEF Left
      <3>3. \A x \in Left(s, i) : x \in ToSet(t)
        BY <2>2, <3>1 DEF Left
      <3> QED
        BY <3>2, <3>3
    <2>4. \A k, l \in 1..Len(s) : k < l => s[k] < s[l]
      BY <2>1, Sorted DEF SortedList
    <2>5. ASSUME NEW k \in 1..Len(t), NEW l \in 1..Len(t), k < l PROVE t[k] < t[l]
      <3>1. /\ i + k - 1 \in 1..Len(s) /\ i + l - 1 \in 1..Len(s) /\ i + k - 1 < i + l - 1
            /\ t[k] = s[i + k - 1] /\ t[l] = s[i + l - 1]
        BY <2>1, <2>5
      <3> QED
        BY <2>4, <3>1
    <2>6. SortedList(t)
      BY <2>1, <2>5, Sorted DEF SortedList
    <2> QED
      BY <1>2, <2>3, <2>6 DEF t, Rest
  <1> QED
    BY <1>1, <1>2

\* The head of what is left is the least of it.
LEMMA HeadIsLeast ==
  ASSUME NEW s, SortedList(s), NEW i \in 1..Len(s)
  PROVE  /\ s[i] \in Nat /\ Left(s, i) = {s[i]} \cup Left(s, i + 1)
         /\ \A x \in Left(s, i + 1) : x \in Nat /\ s[i] < x
  <1>1. s \in Seq(Nat) /\ Len(s) \in Nat /\ \A k, l \in 1..Len(s) : k < l => s[k] < s[l]
    BY Sorted DEF SortedList
  <1>2. i..Len(s) = {i} \cup (i + 1..Len(s))
    BY <1>1
  <1>3. \A k \in i + 1..Len(s) : k \in 1..Len(s) /\ i < k
    BY <1>1
  <1> QED
    BY <1>1, <1>2, <1>3 DEF Left

\* What a merge pushes for one comparison.
LEMMA HeadOrNothing ==
  ASSUME NEW doc \in Nat, NEW pushed, NEW o PROVE Head1(pushed, o, doc) \in Seq(Nat)
  <1>1. <<doc>> \in Seq(Nat) /\ <<>> \in Seq(Nat)
    OBVIOUS
  <1> QED
    BY <1>1 DEF Head1

\* The function of two pointers that a merge is defined by: each step moves one
\* of them on.
LEMMA MergeExists ==
  ASSUME NEW a, SortedList(a), NEW b, SortedList(b), NEW pushed
  PROVE  \E push \in [Pointers(a, b) -> Seq(Nat)] : IsMerge(push, a, b, pushed)
  <1> DEFINE D == Pointers(a, b)
             size == [p \in D |-> (Len(a) + 1 - p[1]) + (Len(b) + 1 - p[2])]
             Step(p, push) == MergeStep(a, b, pushed, p, push)
             step == [q \in D \X [D -> Seq(Nat)] |-> Step(q[1], q[2])]
  <1>1. a \in Seq(Nat) /\ b \in Seq(Nat) /\ Len(a) \in Nat /\ Len(b) \in Nat
    BY DEF SortedList
  <1>2. \A p \in D : p[1] \in 1..Len(a) + 1 /\ p[2] \in 1..Len(b) + 1 /\ p = <<p[1], p[2]>>
    BY DEF Pointers
  <1>3. /\ size \in [D -> Nat] /\ \A p \in D : size[p] <= Len(a) + Len(b)
    <2>1. ASSUME NEW p \in D
          PROVE  /\ (Len(a) + 1 - p[1]) + (Len(b) + 1 - p[2]) \in Nat
                 /\ (Len(a) + 1 - p[1]) + (Len(b) + 1 - p[2]) <= Len(a) + Len(b)
      <3>1. PICK i \in 1..Len(a) + 1, j \in 1..Len(b) + 1 : i = p[1] /\ j = p[2]
        BY <1>2
      <3>2. /\ (Len(a) + 1 - i) + (Len(b) + 1 - j) \in Nat
            /\ (Len(a) + 1 - i) + (Len(b) + 1 - j) <= Len(a) + Len(b)
        <4>1. PICK m \in Nat, n \in Nat : m = Len(a) /\ n = Len(b)
          BY <1>1
        <4>2. i \in 1..m + 1 /\ j \in 1..n + 1
          BY <4>1
        <4>3. m + 1 - i \in 0..m /\ n + 1 - j \in 0..n
          BY <4>2
        <4> QED
          BY <4>1, <4>3
      <3> QED
        BY <3>1, <3>2
    <2> HIDE DEF D
    <2> QED
      BY <2>1
  <1>4. ASSUME NEW p \in D, ~(p[1] > Len(a) \/ p[2] > Len(b))
        PROVE  /\ <<p[1] + 1, p[2]>> \in D /\ size[<<p[1] + 1, p[2]>>] < size[p]
               /\ <<p[1], p[2] + 1>> \in D /\ size[<<p[1], p[2] + 1>>] < size[p]
               /\ <<p[1] + 1, p[2] + 1>> \in D /\ size[<<p[1] + 1, p[2] + 1>>] < size[p]
               /\ a[p[1]] \in Nat /\ b[p[2]] \in Nat
    <2>1. p[1] \in 1..Len(a) /\ p[2] \in 1..Len(b)
      BY <1>1, <1>2, <1>4
    <2>2. /\ <<p[1] + 1, p[2]>> \in D /\ <<p[1], p[2] + 1>> \in D
          /\ <<p[1] + 1, p[2] + 1>> \in D
      BY <1>1, <2>1 DEF Pointers
    <2>3. /\ size[p] = (Len(a) + 1 - p[1]) + (Len(b) + 1 - p[2])
          /\ size[<<p[1] + 1, p[2]>>] = (Len(a) + 1 - (p[1] + 1)) + (Len(b) + 1 - p[2])
          /\ size[<<p[1], p[2] + 1>>] = (Len(a) + 1 - p[1]) + (Len(b) + 1 - (p[2] + 1))
          /\ size[<<p[1] + 1, p[2] + 1>>] = (Len(a) + 1 - (p[1] + 1)) + (Len(b) + 1 - (p[2] + 1))
      BY <2>2
    <2> HIDE DEF size
    <2>4. a[p[1]] \in Nat /\ b[p[2]] \in Nat
      <3>1. \A k \in 1..Len(a) : a[k] \in Nat
        BY <1>1
      <3>2. \A k \in 1..Len(b) : b[k] \in Nat
        BY <1>1
      <3> QED
        BY <2>1, <3>1, <3>2
    <2>5. /\ size[<<p[1] + 1, p[2]>>] < size[p] /\ size[<<p[1], p[2] + 1>>] < size[p]
          /\ size[<<p[1] + 1, p[2] + 1>>] < size[p]
      <3>1. PICK i \in Nat, j \in Nat : i = p[1] /\ j = p[2] /\ i <= Len(a) /\ j <= Len(b)
        BY <1>1, <2>1
      <3>2. /\ size[p] = (Len(a) + 1 - i) + (Len(b) + 1 - j)
            /\ size[<<p[1] + 1, p[2]>>] = (Len(a) + 1 - (i + 1)) + (Len(b) + 1 - j)
            /\ size[<<p[1], p[2] + 1>>] = (Len(a) + 1 - i) + (Len(b) + 1 - (j + 1))
            /\ size[<<p[1] + 1, p[2] + 1>>] = (Len(a) + 1 - (i + 1)) + (Len(b) + 1 - (j + 1))
        BY <2>3, <3>1
      <3>3. \A m, n \in Nat : /\ (m + 1 - (i + 1)) + (n + 1 - j) < (m + 1 - i) + (n + 1 - j)
                              /\ (m + 1 - i) + (n + 1 - (j + 1)) < (m + 1 - i) + (n + 1 - j)
                              /\ (m + 1 - (i + 1)) + (n + 1 - (j + 1)) < (m + 1 - i) + (n + 1 - j)
        OBVIOUS
      <3> QED
        BY <1>1, <3>2, <3>3
    <2> QED
      BY <2>2, <2>4, <2>5
  <1>5. ASSUME NEW p \in D, NEW push \in [D -> Seq(Nat)] PROVE Step(p, push) \in Seq(Nat)
    <2>1. CASE p[1] > Len(a) \/ p[2] > Len(b)
      <3>1. Rest("less" \in pushed, a, p[1]) \in Seq(Nat) /\ Rest("greater" \in pushed, b, p[2]) \in Seq(Nat)
        BY <1>2, RestOfList DEF SortedList
      <3> QED
        BY <2>1, <3>1 DEF MergeStep
    <2>2. CASE ~(p[1] > Len(a) \/ p[2] > Len(b))
      <3>1. \A o : Head1(pushed, o, a[p[1]]) \in Seq(Nat) /\ Head1(pushed, o, b[p[2]]) \in Seq(Nat)
        BY <1>4, <2>2, HeadOrNothing
      <3>2. /\ push[<<p[1] + 1, p[2]>>] \in Seq(Nat) /\ push[<<p[1], p[2] + 1>>] \in Seq(Nat)
            /\ push[<<p[1] + 1, p[2] + 1>>] \in Seq(Nat)
        BY <1>4, <2>2
      <3>3. \A s, t \in Seq(Nat) : s \o t \in Seq(Nat)
        OBVIOUS
      <3> HIDE DEF D
      <3> QED
        BY <2>2, <3>1, <3>2, <3>3 DEF MergeStep
    <2> QED
      BY <2>1, <2>2
  <1>6. step \in [D \X [D -> Seq(Nat)] -> Seq(Nat)]
    BY <1>5
  <1>7. \A p \in D, push \in [D -> Seq(Nat)] : step[<<p, push>>] = Step(p, push)
    OBVIOUS
  <1> HIDE DEF size, step
  <1>8. ASSUME NEW p \in D, NEW g \in [D -> Seq(Nat)], NEW h \in [D -> Seq(Nat)],
               \A q \in D : size[q] < size[p] => g[q] = h[q]
        PROVE  Step(p, g) = Step(p, h)
    BY <1>4, <1>8 DEF MergeStep
  <1>9. Descends(step, size, D, Seq(Nat))
    <2> SUFFICES ASSUME NEW p \in D, NEW g \in [D -> Seq(Nat)], NEW h \in [D -> Seq(Nat)],
                        \A q \in D : size[q] < size[p] => g[q] = h[q]
                 PROVE  step[<<p, g>>] = step[<<p, h>>]
      BY DEF Descends
    <2> HIDE DEF Step, D
    <2>1. Step(p, g) = Step(p, h)
      BY <1>8
    <2> QED
      BY <1>7, <2>1
  <1>10. \E g \in [D -> Seq(Nat)] : Solves(g, step, D)
    <2> HIDE DEF D
    <2>1. Seq(Nat) # {} /\ Len(a) + Len(b) \in Nat
      BY <1>1, EmptyList DEF SortedList
    <2> QED
      BY <1>3, <1>6, <1>9, <2>1, RecursiveFunction
  <1>11. PICK g \in [D -> Seq(Nat)] : g = [p \in D |-> step[<<p, g>>]]
    BY <1>10 DEF Solves
  <1>12. g = [p \in D |-> Step(p, g)]
    <2> HIDE DEF D, Step
    <2> QED
      BY <1>7, <1>11
  <1> QED
    BY <1>12 DEF IsMerge

\* Adds(C, h, A): C is A with h, which is not in it.
Adds(C, h, A) == C = {h} \cup A /\ h \notin A

\* What the merge makes of the least document, in one list or in both.
LEMMA KeptOfOne ==
  ASSUME NEW A, NEW B, NEW C, NEW h, Adds(C, h, A), h \notin B, NEW pushed
  PROVE  /\ Kept(C, B, pushed) = OneIf(pushed, "less", h) \cup Kept(A, B, pushed)
         /\ Kept(B, C, pushed) = OneIf(pushed, "greater", h) \cup Kept(B, A, pushed)
  BY DEF Kept, OneIf, Adds

\* A head that both lists have.
LEMMA KeptOfBoth ==
  ASSUME NEW A, NEW B, NEW C, NEW D, NEW h, Adds(C, h, A), Adds(D, h, B), NEW pushed
  PROVE  Kept(C, D, pushed) = OneIf(pushed, "equal", h) \cup Kept(A, B, pushed)
  BY DEF Kept, OneIf, Adds

\* Pushing the head of a list, or not, before the rest of the merge.
LEMMA PushHead ==
  ASSUME NEW h \in Nat, NEW s, SortedList(s), \A x \in ToSet(s) : h < x, NEW pushed, NEW o
  PROVE  /\ SortedList(Head1(pushed, o, h) \o s)
         /\ ToSet(Head1(pushed, o, h) \o s) = OneIf(pushed, o, h) \cup ToSet(s)
  <1>1. CASE o \in pushed
    BY <1>1, PushFront DEF Head1, OneIf
  <1>2. CASE o \notin pushed
    <2>1. <<>> \o s = s
      BY DEF SortedList
    <2> QED
      BY <1>2, <2>1 DEF Head1, OneIf
  <1> QED
    BY <1>1, <1>2

\* From any two pointers on, a merge returns what it should keep of the rests.
LEMMA MergeKeeps ==
  ASSUME NEW a, SortedList(a), NEW b, SortedList(b), NEW pushed,
         NEW push, IsMerge(push, a, b, pushed)
  PROVE  \A p \in Pointers(a, b) :
           /\ SortedList(push[p])
           /\ ToSet(push[p]) = Kept(Left(a, p[1]), Left(b, p[2]), pushed)
  <1> DEFINE Good(i, j) ==
               /\ SortedList(push[<<i, j>>])
               /\ ToSet(push[<<i, j>>]) = Kept(Left(a, i), Left(b, j), pushed)
             P == {n \in Nat : \A i \in 1..Len(a) + 1, j \in 1..Len(b) + 1 :
                                 (Len(a) + 1 - i) + (Len(b) + 1 - j) <= n => Good(i, j)}
  <1>1. a \in Seq(Nat) /\ b \in Seq(Nat) /\ Len(a) \in Nat /\ Len(b) \in Nat
    BY DEF SortedList
  <1>2. \A i \in 1..Len(a) + 1, j \in 1..Len(b) + 1 :
          <<i, j>> \in Pointers(a, b)
            /\ push[<<i, j>>] = MergeStep(a, b, pushed, <<i, j>>, push)
    BY DEF IsMerge, Pointers
  <1> HIDE DEF Good
  <1>3. ASSUME NEW i \in 1..Len(a) + 1, NEW j \in 1..Len(b) + 1, i > Len(a) \/ j > Len(b)
        PROVE  Good(i, j)
    <2> DEFINE ra == Rest("less" \in pushed, a, i)
               rb == Rest("greater" \in pushed, b, j)
    <2>1. push[<<i, j>>] = ra \o rb
      BY <1>2, <1>3 DEF MergeStep
    <2>2. /\ SortedList(ra) /\ ToSet(ra) = IF "less" \in pushed THEN Left(a, i) ELSE {}
          /\ SortedList(rb) /\ ToSet(rb) = IF "greater" \in pushed THEN Left(b, j) ELSE {}
      BY RestOfList
    <2>3. ra \in Seq(Nat) /\ rb \in Seq(Nat)
      BY <2>2 DEF SortedList
    <2>4. CASE i > Len(a)
      <3>1. Left(a, i) = {}
        BY <1>1, <2>4 DEF Left
      <3>2. ra = <<>>
        BY <1>1, <2>4 DEF Rest
      <3> HIDE DEF ra, rb
      <3>3. push[<<i, j>>] = rb
        BY <2>1, <2>3, <3>2
      <3> QED
        BY <2>2, <3>1, <3>3 DEF Good, Kept
    <2>5. CASE j > Len(b)
      <3>1. Left(b, j) = {}
        BY <1>1, <2>5 DEF Left
      <3>2. rb = <<>>
        BY <1>1, <2>5 DEF Rest
      <3> HIDE DEF ra, rb
      <3>3. push[<<i, j>>] = ra
        BY <2>1, <2>3, <3>2
      <3> QED
        BY <2>2, <3>1, <3>3 DEF Good, Kept
    <2> QED
      BY <1>3, <2>4, <2>5
  <1>4. ASSUME NEW i \in 1..Len(a), NEW j \in 1..Len(b),
               Good(i + 1, j), Good(i, j + 1), Good(i + 1, j + 1)
        PROVE  Good(i, j)
    <2>1. /\ a[i] \in Nat /\ Left(a, i) = {a[i]} \cup Left(a, i + 1)
          /\ \A x \in Left(a, i + 1) : x \in Nat /\ a[i] < x
          /\ b[j] \in Nat /\ Left(b, j) = {b[j]} \cup Left(b, j + 1)
          /\ \A x \in Left(b, j + 1) : x \in Nat /\ b[j] < x
      BY HeadIsLeast
    <2>2. ~(i > Len(a) \/ j > Len(b)) /\ i \in 1..Len(a) + 1 /\ j \in 1..Len(b) + 1
      BY <1>1
    <2>3. CASE a[i] < b[j]
      <3>1. push[<<i, j>>] = Head1(pushed, "less", a[i]) \o push[<<i + 1, j>>]
        BY <1>2, <2>2, <2>3 DEF MergeStep
      <3>2. a[i] \notin Left(a, i + 1) /\ a[i] \notin Left(b, j)
            /\ \A x \in Left(a, i + 1) \cup Left(b, j) : a[i] < x
        BY <2>1, <2>3
      <3>3. \A x \in ToSet(push[<<i + 1, j>>]) : a[i] < x
        BY <1>4, <3>2 DEF Good, Kept
      <3>4. Kept(Left(a, i), Left(b, j), pushed)
              = OneIf(pushed, "less", a[i]) \cup Kept(Left(a, i + 1), Left(b, j), pushed)
        <4>1. Adds(Left(a, i), a[i], Left(a, i + 1))
          BY <2>1, <3>2 DEF Adds
        <4> QED
          BY <3>2, <4>1, KeptOfOne
      <3>5. SortedList(push[<<i + 1, j>>])
        BY <1>4 DEF Good
      <3>6. /\ SortedList(Head1(pushed, "less", a[i]) \o push[<<i + 1, j>>])
            /\ ToSet(Head1(pushed, "less", a[i]) \o push[<<i + 1, j>>])
                 = OneIf(pushed, "less", a[i]) \cup ToSet(push[<<i + 1, j>>])
        BY <2>1, <3>3, <3>5, PushHead
      <3> QED
        BY <1>4, <3>1, <3>4, <3>6 DEF Good
    <2>4. CASE a[i] > b[j]
      <3>1. push[<<i, j>>] = Head1(pushed, "greater", b[j]) \o push[<<i, j + 1>>]
        <4>1. ~(a[i] < b[j])
          BY <2>1, <2>4
        <4> QED
          BY <1>2, <2>2, <2>4, <4>1 DEF MergeStep
      <3>2. b[j] \notin Left(b, j + 1) /\ b[j] \notin Left(a, i)
            /\ \A x \in Left(a, i) \cup Left(b, j + 1) : b[j] < x
        BY <2>1, <2>4
      <3>3. \A x \in ToSet(push[<<i, j + 1>>]) : b[j] < x
        BY <1>4, <3>2 DEF Good, Kept
      <3>4. Kept(Left(a, i), Left(b, j), pushed)
              = OneIf(pushed, "greater", b[j]) \cup Kept(Left(a, i), Left(b, j + 1), pushed)
        <4>1. Adds(Left(b, j), b[j], Left(b, j + 1))
          BY <2>1, <3>2 DEF Adds
        <4> QED
          BY <3>2, <4>1, KeptOfOne
      <3>5. SortedList(push[<<i, j + 1>>])
        BY <1>4 DEF Good
      <3>6. /\ SortedList(Head1(pushed, "greater", b[j]) \o push[<<i, j + 1>>])
            /\ ToSet(Head1(pushed, "greater", b[j]) \o push[<<i, j + 1>>])
                 = OneIf(pushed, "greater", b[j]) \cup ToSet(push[<<i, j + 1>>])
        BY <2>1, <3>3, <3>5, PushHead
      <3> QED
        BY <1>4, <3>1, <3>4, <3>6 DEF Good
    <2>5. CASE a[i] = b[j]
      <3>1. push[<<i, j>>] = Head1(pushed, "equal", a[i]) \o push[<<i + 1, j + 1>>]
        <4>1. ~(a[i] < b[j]) /\ ~(a[i] > b[j])
          BY <2>1, <2>5
        <4> QED
          BY <1>2, <2>2, <4>1 DEF MergeStep
      <3>2. a[i] \notin Left(a, i + 1) /\ a[i] \notin Left(b, j + 1)
            /\ \A x \in Left(a, i + 1) \cup Left(b, j + 1) : a[i] < x
        BY <2>1, <2>5
      <3>3. \A x \in ToSet(push[<<i + 1, j + 1>>]) : a[i] < x
        BY <1>4, <3>2 DEF Good, Kept
      <3>4. Kept(Left(a, i), Left(b, j), pushed)
              = OneIf(pushed, "equal", a[i]) \cup Kept(Left(a, i + 1), Left(b, j + 1), pushed)
        <4>1. Adds(Left(a, i), a[i], Left(a, i + 1)) /\ Adds(Left(b, j), a[i], Left(b, j + 1))
          BY <2>1, <2>5, <3>2 DEF Adds
        <4> QED
          BY <4>1, KeptOfBoth
      <3>5. SortedList(push[<<i + 1, j + 1>>])
        BY <1>4 DEF Good
      <3>6. /\ SortedList(Head1(pushed, "equal", a[i]) \o push[<<i + 1, j + 1>>])
            /\ ToSet(Head1(pushed, "equal", a[i]) \o push[<<i + 1, j + 1>>])
                 = OneIf(pushed, "equal", a[i]) \cup ToSet(push[<<i + 1, j + 1>>])
        BY <2>1, <3>3, <3>5, PushHead
      <3> QED
        BY <1>4, <3>1, <3>4, <3>6 DEF Good
    <2> QED
      BY <2>1, <2>3, <2>4, <2>5
  <1>5. 0 \in P
    <2> SUFFICES ASSUME NEW i \in 1..Len(a) + 1, NEW j \in 1..Len(b) + 1,
                        (Len(a) + 1 - i) + (Len(b) + 1 - j) <= 0
                 PROVE  Good(i, j)
      OBVIOUS
    <2>1. i > Len(a)
      BY <1>1
    <2> QED
      BY <1>3, <2>1
  <1>6. ASSUME NEW n \in Nat, n \in P PROVE n + 1 \in P
    <2> SUFFICES ASSUME NEW i \in 1..Len(a) + 1, NEW j \in 1..Len(b) + 1,
                        (Len(a) + 1 - i) + (Len(b) + 1 - j) <= n + 1
                 PROVE  Good(i, j)
      OBVIOUS
    <2>1. CASE i > Len(a) \/ j > Len(b)
      BY <1>3, <2>1
    <2>2. CASE ~(i > Len(a) \/ j > Len(b))
      <3>1. i \in 1..Len(a) /\ j \in 1..Len(b)
        BY <1>1, <2>2
      <3>2. /\ i + 1 \in 1..Len(a) + 1 /\ j + 1 \in 1..Len(b) + 1
            /\ (Len(a) + 1 - (i + 1)) + (Len(b) + 1 - j) <= n
            /\ (Len(a) + 1 - i) + (Len(b) + 1 - (j + 1)) <= n
            /\ (Len(a) + 1 - (i + 1)) + (Len(b) + 1 - (j + 1)) <= n
        BY <1>1, <3>1
      <3>3. Good(i + 1, j) /\ Good(i, j + 1) /\ Good(i + 1, j + 1)
        BY <1>6, <3>2
      <3> QED
        BY <1>4, <3>1, <3>3
    <2> QED
      BY <2>1, <2>2
  <1>7. Nat \subseteq P
    <2> HIDE DEF P
    <2> QED
      BY <1>5, <1>6, Induction
  <1>8. \A i \in 1..Len(a) + 1, j \in 1..Len(b) + 1 : Good(i, j)
    <2> SUFFICES ASSUME NEW i \in 1..Len(a) + 1, NEW j \in 1..Len(b) + 1 PROVE Good(i, j)
      OBVIOUS
    <2> DEFINE n == (Len(a) + 1 - i) + (Len(b) + 1 - j)
    <2>1. n \in Nat
      BY <1>1
    <2>2. n \in P
      BY <1>7, <2>1
    <2> QED
      BY <2>2
  <1>9. \A p \in Pointers(a, b) : p[1] \in 1..Len(a) + 1 /\ p[2] \in 1..Len(b) + 1 /\ p = <<p[1], p[2]>>
    BY DEF Pointers
  <1> QED
    BY <1>8, <1>9 DEF Good

\* A merge of two sorted lists is the sorted list of what it should keep.
LEMMA MergeIsExact ==
  ASSUME NEW a, SortedList(a), NEW b, SortedList(b), NEW pushed
  PROVE  /\ SortedList(Merge(a, b, pushed, "less" \in pushed, "greater" \in pushed))
         /\ ToSet(Merge(a, b, pushed, "less" \in pushed, "greater" \in pushed)) = Kept(ToSet(a), ToSet(b), pushed)
  <1> DEFINE push == CHOOSE f : IsMerge(f, a, b, pushed)
  <1>1. Merge(a, b, pushed, "less" \in pushed, "greater" \in pushed) = push[<<1, 1>>]
    BY DEF Merge, IsMerge, MergeStep
  <1>2. IsMerge(push, a, b, pushed)
    <2>1. \E f : IsMerge(f, a, b, pushed)
      BY MergeExists
    <2> QED
      BY <2>1
  <1> HIDE DEF push
  <1>3. a \in Seq(Nat) /\ b \in Seq(Nat) /\ Len(a) \in Nat /\ Len(b) \in Nat
    BY DEF SortedList
  <1>4. <<1, 1>> \in Pointers(a, b) /\ Left(a, 1) = ToSet(a) /\ Left(b, 1) = ToSet(b)
    BY <1>3, SetOfList DEF Pointers, Left
  <1>5. /\ SortedList(push[<<1, 1>>])
        /\ ToSet(push[<<1, 1>>]) = Kept(Left(a, 1), Left(b, 1), pushed)
    BY <1>2, <1>4, MergeKeeps
  <1> QED
    BY <1>1, <1>4, <1>5
-----------------------------------------------------------------------------
(***************************************************************************)
(* A finite set of numbers as a list.                                      *)
(***************************************************************************)
LEMMA AscendingIsExact ==
  ASSUME NEW S \in SUBSET Nat, IsFiniteSet(S)
  PROVE  /\ SortedList(Ascending(S)) /\ ToSet(Ascending(S)) = S
         /\ Len(Ascending(S)) = Cardinality(S)
  <1> DEFINE n == Cardinality(S)
             Below(x) == {y \in S : y < x}
             Rank(x) == Cardinality(Below(x))
  <1>1. n \in Nat /\ \A x \in S : IsFiniteSet(Below(x)) /\ Rank(x) \in Nat
    <2>1. \A x \in S : Below(x) \in SUBSET S
      OBVIOUS
    <2>2. \A x \in S : IsFiniteSet(Below(x))
      BY <2>1, FS_Subset
    <2> HIDE DEF Below
    <2> QED
      BY <2>2, FS_CardinalityType
  <1>2. ASSUME NEW x \in S, NEW y \in S, x < y PROVE Rank(x) < Rank(y)
    <2>0. x \in Nat /\ y \in Nat /\ \A z \in S : z \in Nat
      OBVIOUS
    <2>1. Below(x) \in SUBSET Below(y) /\ x \in Below(y) /\ x \notin Below(x)
      <3>1. \A z \in S : z < x => z < y
        BY <1>2, <2>0
      <3>2. ~(x < x)
        BY <2>0
      <3> QED
        BY <1>2, <3>1, <3>2
    <2>2. Below(x) # Below(y)
      BY <2>1
    <2> HIDE DEF Below
    <2>3. Cardinality(Below(x)) <= Cardinality(Below(y)) /\ Cardinality(Below(x)) # Cardinality(Below(y))
      BY <1>1, <2>1, <2>2, FS_Subset
    <2> QED
      BY <1>1, <2>3
  <1>3. ASSUME NEW x \in S PROVE Rank(x) < n
    <2>1. Below(x) \in SUBSET S /\ Below(x) # S
      OBVIOUS
    <2> HIDE DEF Below
    <2>2. Cardinality(Below(x)) <= n /\ Cardinality(Below(x)) # n
      BY <2>1, FS_Subset
    <2> QED
      BY <1>1, <2>2
  <1> HIDE DEF Rank
  <1>a. \A x \in S : Rank(x) \in Nat /\ Rank(x) < n /\ x \in Nat
    BY <1>1, <1>3
  <1>4. PICK rank : rank = [x \in S |-> Rank(x) + 1]
    OBVIOUS
  <1>5. rank \in [S -> 1..n]
    BY <1>1, <1>a, <1>4
  <1>6. \A x, y \in S : rank[x] = rank[y] => x = y
    <2> SUFFICES ASSUME NEW x \in S, NEW y \in S, Rank(x) + 1 = Rank(y) + 1 PROVE x = y
      BY <1>4
    <2>1. ~(x < y) /\ ~(y < x)
      <3>1. Rank(x) \in Nat /\ Rank(y) \in Nat
        BY <1>a
      <3>2. ~(Rank(x) < Rank(y)) /\ ~(Rank(y) < Rank(x))
        BY <3>1
      <3> QED
        BY <1>2, <3>2
    <2> QED
      BY <1>a, <2>1
  <1>7. rank \in Surjection(S, 1..n)
    <2>1. rank \in Injection(S, 1..n)
      BY <1>5, <1>6 DEF Injection, IsInjective
    <2>2. IsFiniteSet(1..n) /\ Cardinality(1..n) = n
      BY <1>1, FS_Interval
    <2> HIDE DEF n
    <2>3. Cardinality(S) = Cardinality(1..n)
      BY <2>2 DEF n
    <2> QED
      BY <2>1, <2>2, <2>3, FS_Injection
  <1>8. PICK s : s = Ascending(S)
    OBVIOUS
  <1>9. s = [i \in 1..n |-> CHOOSE x \in S : Rank(x) = i - 1]
    BY <1>8 DEF Ascending, Rank
  <1>10. ASSUME NEW i \in 1..n PROVE s[i] \in S /\ Rank(s[i]) = i - 1
    <2>1. PICK x \in S : rank[x] = i
      BY <1>7 DEF Surjection
    <2>2. Rank(x) = i - 1
      <3>1. Rank(x) \in Nat /\ rank[x] = Rank(x) + 1 /\ i \in Nat
        BY <1>a, <1>4
      <3> QED
        BY <2>1, <3>1
    <2> QED
      BY <1>9, <2>2
  <1>11. s \in Seq(Nat) /\ Len(s) = n
    <2>1. s \in [1..n -> Nat]
      BY <1>9, <1>10
    <2> QED
      BY <1>1, <2>1, IsASeq
  <1>12. ASSUME NEW i \in 1..n, NEW j \in 1..n, i < j PROVE s[i] < s[j]
    <2>1. s[i] # s[j] /\ ~(s[j] < s[i])
      <3>1. Rank(s[i]) = i - 1 /\ Rank(s[j]) = j - 1 /\ i - 1 < j - 1 /\ ~(j - 1 < i - 1)
        BY <1>10, <1>12
      <3>2. s[i] \in S /\ s[j] \in S
        BY <1>10
      <3> QED
        BY <1>2, <3>1, <3>2
    <2>2. s[i] \in Nat /\ s[j] \in Nat
      BY <1>10
    <2> QED
      BY <2>1, <2>2
  <1>13. ToSet(s) = S
    <2>1. ToSet(s) = {s[i] : i \in 1..n}
      BY <1>11, SetOfList
    <2>2. ASSUME NEW x \in S PROVE x \in ToSet(s)
      <3>1. rank[x] \in 1..n /\ rank[x] = Rank(x) + 1
        BY <1>4, <1>5
      <3>2. Rank(s[rank[x]]) = Rank(x) /\ s[rank[x]] \in S
        <4>1. Rank(x) \in Nat /\ (Rank(x) + 1) - 1 = Rank(x)
          BY <1>a
        <4> QED
          BY <1>10, <3>1, <4>1
      <3>3. rank[s[rank[x]]] = rank[x]
        BY <1>4, <3>2
      <3>4. s[rank[x]] = x
        BY <1>6, <3>2, <3>3
      <3> QED
        BY <2>1, <3>1, <3>4
    <2> QED
      BY <1>10, <2>1, <2>2
  <1>14. SortedList(s)
    BY <1>11, <1>12, Sorted DEF SortedList
  <1> QED
    BY <1>8, <1>11, <1>13, <1>14
-----------------------------------------------------------------------------
(***************************************************************************)
(* The bits of numbers (bitpack and bitunpack of posting.rs).              *)
(***************************************************************************)

\* A multiple of d is at least d below the next.
LEMMA TimesLess == ASSUME NEW p \in Nat, NEW q \in Nat, NEW d \in Nat, p < q PROVE p * d + d <= q * d
  <1>2. PICK c \in Nat : q = p + 1 + c
    <2>1. q = p + 1 + (q - p - 1) /\ q - p - 1 \in Nat
      OBVIOUS
    <2> QED
      BY <2>1
  <1>3. (p + 1 + c) * d = p * d + d + c * d /\ c * d \in Nat /\ p * d \in Nat
    OBVIOUS
  <1> QED BY <1>2, <1>3
\* Quotient and remainder.
LEMMA DivMod ==
  ASSUME NEW n \in Nat, NEW d \in Nat \ {0}
  PROVE  n \div d \in Nat /\ n % d \in 0..d - 1 /\ n = (n \div d) * d + (n % d)
  OBVIOUS
\* No other quotient and remainder.
LEMMA DivUnique ==
  ASSUME NEW q \in Nat, NEW r \in Nat, NEW d \in Nat \ {0}, r < d
  PROVE  (q * d + r) \div d = q /\ (q * d + r) % d = r
  <1>1. PICK n \in Nat : n = q * d + r
    OBVIOUS
  <1>2. PICK p \in Nat, s \in Nat : p = n \div d /\ s = n % d /\ s < d /\ n = p * d + s
    BY DivMod
  <1>3. ~(p < q)
    BY <1>1, <1>2, TimesLess
  <1>4. ~(q < p)
    BY <1>1, <1>2, TimesLess
  <1> QED
    BY <1>1, <1>2, <1>3, <1>4

\* The recursive function Pow2, unfolded.
LEMMA Powers ==
  /\ Pow2 \in [Nat -> Nat \ {0}]
  /\ Pow2[0] = 1 /\ \A k \in Nat : Pow2[k + 1] = 2 * Pow2[k]
  <1> DEFINE V == Nat \ {0}
             size == [k \in Nat |-> k]
             Step(k, g) == IF k = 0 THEN 1 ELSE 2 * g[k - 1]
             step == [p \in Nat \X [Nat -> V] |-> Step(p[1], p[2])]
  <1>1. ASSUME NEW k \in Nat, NEW g \in [Nat -> V] PROVE Step(k, g) \in V
    <2>1. CASE k # 0
      <3>1. k - 1 \in Nat /\ g[k - 1] \in V
        BY <2>1
      <3> QED
        BY <2>1, <3>1
    <2> QED
      BY <2>1
  <1>2. step \in [Nat \X [Nat -> V] -> V]
    BY <1>1
  <1>3. \A k \in Nat, g \in [Nat -> V] : step[<<k, g>>] = Step(k, g)
    OBVIOUS
  <1>4. Descends(step, size, Nat, V)
    <2> SUFFICES ASSUME NEW k \in Nat, NEW g \in [Nat -> V], NEW h \in [Nat -> V],
                        \A j \in Nat : size[j] < size[k] => g[j] = h[j]
                 PROVE  step[<<k, g>>] = step[<<k, h>>]
      BY DEF Descends
    <2>1. k # 0 => k - 1 \in Nat /\ k - 1 < k
      OBVIOUS
    <2>2. Step(k, g) = Step(k, h)
      BY <2>1
    <2> HIDE DEF step, Step
    <2> QED
      BY <1>3, <2>2
  <1>5. \E g \in [Nat -> V] : Solves(g, step, Nat)
    <2>1. size \in [Nat -> Nat] /\ V # {}
      OBVIOUS
    <2> HIDE DEF step, Step, size, V
    <2> QED
      BY <1>2, <1>4, <2>1, RecursiveFunction
  <1>6. PICK f \in [Nat -> V] : f = [k \in Nat |-> Step(k, f)]
    <2>1. PICK f \in [Nat -> V] : f = [k \in Nat |-> step[<<k, f>>]]
      BY <1>5 DEF Solves
    <2>2. f = [k \in Nat |-> Step(k, f)]
      <3> HIDE DEF step, Step, V
      <3> QED
        BY <1>3, <2>1
    <2> QED
      BY <2>2
  <1>7. Pow2 = [k \in Nat |-> IF k = 0 THEN 1 ELSE 2 * Pow2[k - 1]]
    BY <1>6 DEF Pow2
  <1>8. Pow2 \in [Nat -> V]
    <2> DEFINE P == {k \in Nat : Pow2[k] \in V}
    <2>1. 0 \in P
      BY <1>7
    <2>2. ASSUME NEW k \in Nat, k \in P PROVE k + 1 \in P
      <3>1. k + 1 # 0 /\ (k + 1) - 1 = k
        OBVIOUS
      <3>2. Pow2[k + 1] = 2 * Pow2[k]
        BY <1>7, <3>1
      <3> QED
        BY <2>2, <3>2
    <2>3. Nat \subseteq P
      <3> HIDE DEF P
      <3> QED
        BY <2>1, <2>2, Induction
    <2> QED
      BY <1>7, <2>3
  <1>9. ASSUME NEW k \in Nat PROVE Pow2[k + 1] = 2 * Pow2[k]
    <2>1. k + 1 # 0 /\ (k + 1) - 1 = k /\ k + 1 \in Nat
      OBVIOUS
    <2> QED
      BY <1>7, <2>1
  <1> QED
    BY <1>7, <1>8, <1>9

\* The recursive function BitWidth, unfolded.
LEMMA BitWidths ==
  /\ BitWidth \in [Nat -> Nat] /\ BitWidth[0] = 0
  /\ \A n \in Nat : n # 0 => BitWidth[n] = 1 + BitWidth[n \div 2]
  <1> DEFINE size == [n \in Nat |-> n]
             Step(n, g) == IF n = 0 THEN 0 ELSE 1 + g[n \div 2]
             step == [p \in Nat \X [Nat -> Nat] |-> Step(p[1], p[2])]
  <1>1. \A n \in Nat : n # 0 => n \div 2 \in Nat /\ n \div 2 < n
    OBVIOUS
  <1>2. ASSUME NEW n \in Nat, NEW g \in [Nat -> Nat] PROVE Step(n, g) \in Nat
    BY <1>1
  <1>3. step \in [Nat \X [Nat -> Nat] -> Nat]
    BY <1>2
  <1>4. \A n \in Nat, g \in [Nat -> Nat] : step[<<n, g>>] = Step(n, g)
    OBVIOUS
  <1>5. Descends(step, size, Nat, Nat)
    <2> SUFFICES ASSUME NEW n \in Nat, NEW g \in [Nat -> Nat], NEW h \in [Nat -> Nat],
                        \A m \in Nat : size[m] < size[n] => g[m] = h[m]
                 PROVE  step[<<n, g>>] = step[<<n, h>>]
      BY DEF Descends
    <2>1. \A m \in Nat : m < n => g[m] = h[m]
      OBVIOUS
    <2>2. Step(n, g) = Step(n, h)
      BY <1>1, <2>1
    <2> HIDE DEF step, Step
    <2> QED
      BY <1>4, <2>2
  <1>6. \E g \in [Nat -> Nat] : Solves(g, step, Nat)
    <2>1. size \in [Nat -> Nat] /\ Nat # {}
      OBVIOUS
    <2> HIDE DEF step, Step, size
    <2> QED
      BY <1>3, <1>5, <2>1, RecursiveFunction
  <1>7. PICK f \in [Nat -> Nat] : f = [n \in Nat |-> Step(n, f)]
    <2>1. PICK f \in [Nat -> Nat] : f = [n \in Nat |-> step[<<n, f>>]]
      BY <1>6 DEF Solves
    <2>2. f = [n \in Nat |-> Step(n, f)]
      <3> HIDE DEF step, Step
      <3> QED
        BY <1>4, <2>1
    <2> QED
      BY <2>2
  <1>8. BitWidth = [n \in Nat |-> IF n = 0 THEN 0 ELSE 1 + BitWidth[n \div 2]]
    BY <1>7 DEF BitWidth
  <1>9. \A n \in Nat : BitWidth[n] \in Nat
    <2> DEFINE P == {n \in Nat : \A m \in 0..n : BitWidth[m] \in Nat}
    <2>1. 0 \in P
      BY <1>8
    <2>2. ASSUME NEW n \in Nat, n \in P PROVE n + 1 \in P
      <3>1. (n + 1) \div 2 \in 0..n
        OBVIOUS
      <3>2. BitWidth[n + 1] = 1 + BitWidth[(n + 1) \div 2]
        BY <1>8
      <3>3. BitWidth[n + 1] \in Nat
        BY <2>2, <3>1, <3>2
      <3> QED
        BY <2>2, <3>3
    <2>3. Nat \subseteq P
      <3> HIDE DEF P
      <3> QED
        BY <2>1, <2>2, Induction
    <2> QED
      BY <2>3
  <1>10. BitWidth \in [Nat -> Nat]
    BY <1>8, <1>9
  <1> QED
    BY <1>8, <1>10

\* A number fits into its bit width, as does every smaller one.
LEMMA FitsWidth ==
  ASSUME NEW n \in Nat PROVE n < Pow2[BitWidth[n]]
  <1> DEFINE P == {k \in Nat : \A m \in 0..k : m < Pow2[BitWidth[m]]}
  <1>1. 0 \in P
    BY Powers, BitWidths
  <1>2. ASSUME NEW k \in Nat, k \in P PROVE k + 1 \in P
    <2>1. (k + 1) \div 2 \in 0..k /\ k + 1 < 2 * ((k + 1) \div 2) + 2
      OBVIOUS
    <2>2. PICK h \in Nat : h = (k + 1) \div 2 /\ h \in 0..k /\ k + 1 < 2 * h + 2
      BY <2>1
    <2>3. BitWidth[k + 1] = 1 + BitWidth[h] /\ BitWidth[h] \in Nat
      BY <2>2, BitWidths
    <2>4. Pow2[BitWidth[k + 1]] = 2 * Pow2[BitWidth[h]] /\ Pow2[BitWidth[h]] \in Nat
      BY <2>3, Powers
    <2>5. h < Pow2[BitWidth[h]]
      BY <1>2, <2>2
    <2>6. k + 1 < Pow2[BitWidth[k + 1]]
      BY <2>2, <2>4, <2>5
    <2> QED
      BY <1>2, <2>6
  <1>3. Nat \subseteq P
    <2> HIDE DEF P
    <2> QED
      BY <1>1, <1>2, Induction
  <1> QED
    BY <1>3

\* Bits k and below of v are bit k and those below it.
LEMMA LowBits ==
  ASSUME NEW v \in Nat, NEW k \in Nat
  PROVE  /\ Bit(v, k) \in {0, 1}
         /\ v % Pow2[k + 1] = (v % Pow2[k]) + Bit(v, k) * Pow2[k]
  <1>1. PICK d \in Nat \ {0} : d = Pow2[k] /\ Pow2[k + 1] = 2 * d
    BY Powers
  <1>2. PICK q \in Nat, r \in Nat : q = v \div d /\ r = v % d /\ r < d /\ v = q * d + r
    BY DivMod
  <1>3. PICK h \in Nat, b \in {0, 1} : h = q \div 2 /\ b = q % 2 /\ q = 2 * h + b
    OBVIOUS
  <1>4. Bit(v, k) = b
    BY <1>1, <1>2, <1>3 DEF Bit
  <1>5. PICK s \in Nat : s = b * d + r /\ s < 2 * d
    BY <1>2
  <1>6. v = h * (2 * d) + s
    <2>1. (2 * h + b) * d = h * (2 * d) + b * d
      OBVIOUS
    <2>2. PICK x \in Nat, y \in Nat : x = h * (2 * d) /\ y = b * d
      OBVIOUS
    <2>3. v = x + y + r /\ s = y + r
      BY <1>2, <1>3, <1>5, <2>1, <2>2
    <2>4. v = x + s
      BY <2>3
    <2> QED
      BY <2>2, <2>4
  <1>7. v % (2 * d) = s
    <2>1. PICK e \in Nat \ {0} : e = 2 * d
      OBVIOUS
    <2>2. s < e /\ v = h * e + s
      BY <1>5, <1>6, <2>1
    <2> QED
      BY <2>1, <2>2, DivUnique
  <1>8. v % Pow2[k + 1] = r + b * d
    BY <1>1, <1>5, <1>7
  <1>9. v % Pow2[k] = r /\ Bit(v, k) * Pow2[k] = b * d
    BY <1>1, <1>2, <1>4
  <1> QED
    BY <1>4, <1>8, <1>9

\* g[k] is the number of the first k bits.
PartialSums(g, bits, n) ==
  /\ g \in [0..n -> Nat] /\ g[0] = 0
  /\ \A k \in 0..n - 1 : g[k + 1] = g[k] + bits[k] * Pow2[k]

\* The sum of FromBits, bit after bit.
LEMMA FromBitsSums ==
  ASSUME NEW n \in Nat, NEW bits \in [0..n - 1 -> {0, 1}]
  PROVE  \E g : PartialSums(g, bits, n) /\ FromBits(bits) = g[n]
  <1> DEFINE D == 0..n - 1
  <1>1. PICK f : f = [k \in D |-> bits[k] * Pow2[k]]
    OBVIOUS
  <1>2. f \in [D -> Nat] /\ IsFiniteSet(D) /\ \A k \in D : f[k] = bits[k] * Pow2[k]
    <2>0. \A k \in D : k \in Nat
      OBVIOUS
    <2>1. \A k \in D : k \in Nat /\ Pow2[k] \in Nat /\ bits[k] \in {0, 1}
      BY <2>0, Powers
    <2>2. \A k \in D : bits[k] * Pow2[k] \in Nat
      BY <2>1
    <2> QED
      BY <1>1, <2>2, FS_Interval
  <1> DEFINE Step(h, s) == IF s = {} THEN 0 ELSE bits[Some(s)] * Pow2[Some(s)] + h[s \ {Some(s)}]
             c == CHOOSE h : h = [s \in SUBSET D |-> Step(h, s)]
  <1>3. FromBits(bits) = c[D]
    BY DEF FromBits, MapThenSumSet, MapThenFoldSet, Some
  <1>4. \A s \in SUBSET D : s # {} => Some(s) \in s /\ Some(s) \in D
    BY DEF Some
  <1>5. PICK h \in [SUBSET D -> Nat] : IsSum(h, f, D)
    BY <1>2, SumExists
  <1>6. h = [s \in SUBSET D |-> Step(h, s)]
    BY <1>2, <1>4, <1>5 DEF IsSum
  <1>7. c = [s \in SUBSET D |-> Step(c, s)]
    BY <1>6
  <1> HIDE DEF c
  <1>8. IsSum(c, f, D)
    BY <1>2, <1>4, <1>7 DEF IsSum
  <1>9. c[D] = h[D]
    BY <1>2, <1>5, <1>8, SumUnique
  <1>10. AddsUp(h, f, D)
    BY <1>2, <1>5, SumAnyOrder
  <1>11. PICK g : g = [k \in 0..n |-> h[0..k - 1]]
    OBVIOUS
  <1>12. \A k \in 0..n : 0..k - 1 \in SUBSET D
    OBVIOUS
  <1>13. g \in [0..n -> Nat]
    BY <1>11, <1>12
  <1>14. g[0] = 0 /\ g[n] = h[D]
    <2>1. 0..0 - 1 = {} /\ 0 \in 0..n /\ n \in 0..n
      OBVIOUS
    <2> QED
      BY <1>5, <1>11, <2>1 DEF IsSum
  <1>15. ASSUME NEW k \in D PROVE g[k + 1] = g[k] + bits[k] * Pow2[k]
    <2>1. /\ k + 1 \in 0..n /\ k \in 0..n /\ (k + 1) - 1 = k
          /\ 0..k \in SUBSET D /\ k \in 0..k /\ (0..k) \ {k} = 0..k - 1
      OBVIOUS
    <2>2. h[0..k] = f[k] + h[(0..k) \ {k}]
      BY <1>10, <2>1 DEF AddsUp
    <2>3. g[k + 1] = f[k] + g[k]
      BY <1>11, <2>1, <2>2
    <2>4. f[k] \in Nat /\ g[k] \in Nat
      BY <1>2, <1>13, <2>1
    <2> QED
      BY <1>2, <2>3, <2>4
  <1>16. PartialSums(g, bits, n)
    BY <1>13, <1>14, <1>15 DEF PartialSums
  <1> QED
    BY <1>3, <1>9, <1>14, <1>16

\* The bits of a number make the number.
LEMMA FromItsBits ==
  ASSUME NEW w \in Nat, NEW v \in Nat, v < Pow2[w]
  PROVE  FromBits([k \in 0..w - 1 |-> Bit(v, k)]) = v
  <1>1. PICK bits : bits = [k \in 0..w - 1 |-> Bit(v, k)]
    OBVIOUS
  <1>2. \A k \in 0..w - 1 : k \in Nat /\ bits[k] = Bit(v, k) /\ Bit(v, k) \in {0, 1}
    BY <1>1, LowBits
  <1>3. bits \in [0..w - 1 -> {0, 1}]
    BY <1>1, <1>2
  <1>4. PICK g : PartialSums(g, bits, w) /\ FromBits(bits) = g[w]
    BY <1>3, FromBitsSums
  <1> DEFINE P == {k \in Nat : k <= w => g[k] = v % Pow2[k]}
  <1>5. 0 \in P
    BY <1>4, Powers DEF PartialSums
  <1>6. ASSUME NEW k \in Nat, k \in P PROVE k + 1 \in P
    <2> SUFFICES ASSUME k + 1 <= w PROVE g[k + 1] = v % Pow2[k + 1]
      OBVIOUS
    <2>1. k \in 0..w - 1 /\ k <= w
      OBVIOUS
    <2>2. g[k + 1] = g[k] + bits[k] * Pow2[k]
      BY <1>4, <2>1 DEF PartialSums
    <2>3. bits[k] = Bit(v, k) /\ g[k] = v % Pow2[k]
      BY <1>2, <1>6, <2>1
    <2>4. v % Pow2[k + 1] = (v % Pow2[k]) + Bit(v, k) * Pow2[k]
      BY LowBits
    <2> QED
      BY <2>2, <2>3, <2>4
  <1>7. Nat \subseteq P
    <2> HIDE DEF P
    <2> QED
      BY <1>5, <1>6, Induction
  <1>8. g[w] = v % Pow2[w]
    BY <1>7
  <1>9. v % Pow2[w] = v
    <2>1. PICK d \in Nat \ {0} : d = Pow2[w]
      BY Powers
    <2>2. 0 * d + v = v
      OBVIOUS
    <2>3. (0 * d + v) % d = v
      BY <2>1, DivUnique
    <2> QED
      BY <2>1, <2>2, <2>3
  <1> QED
    BY <1>1, <1>4, <1>8, <1>9

\* A power of two is a multiple of the smaller ones.
LEMMA PowersDivide ==
  ASSUME NEW j \in Nat
  PROVE  \A m \in Nat : \E c \in Nat : Pow2[j + m] = c * Pow2[j]
  <1> DEFINE P == {m \in Nat : \E c \in Nat : Pow2[j + m] = c * Pow2[j]}
  <1>1. 0 \in P
    <2>1. Pow2[j + 0] = 1 * Pow2[j]
      BY Powers
    <2> QED
      BY <2>1
  <1>2. ASSUME NEW m \in Nat, m \in P PROVE m + 1 \in P
    <2>1. PICK c \in Nat : Pow2[j + m] = c * Pow2[j]
      BY <1>2
    <2>2. PICK d \in Nat : d = Pow2[j]
      BY Powers
    <2>3. Pow2[j + (m + 1)] = 2 * Pow2[j + m]
      <3>1. j + (m + 1) = (j + m) + 1 /\ j + m \in Nat
        OBVIOUS
      <3> QED
        BY <3>1, Powers
    <2>4. 2 * (c * d) = (2 * c) * d /\ 2 * c \in Nat
      OBVIOUS
    <2> QED
      BY <2>1, <2>2, <2>3, <2>4
  <1>3. Nat \subseteq P
    <2> HIDE DEF P
    <2> QED
      BY <1>1, <1>2, Induction
  <1> QED
    BY <1>3

\* A number made of bits has them.
LEMMA BitsOfIt ==
  ASSUME NEW n \in Nat, NEW bits \in [0..n - 1 -> {0, 1}], NEW j \in 0..n - 1
  PROVE  Bit(FromBits(bits), j) = bits[j]
  <1>1. PICK g : PartialSums(g, bits, n) /\ FromBits(bits) = g[n]
    BY FromBitsSums
  <1>2. \A k \in 0..n : g[k] \in Nat
    BY <1>1 DEF PartialSums
  <1>3. \A k \in 0..n - 1 : k \in Nat /\ bits[k] \in {0, 1} /\ Pow2[k] \in Nat \ {0}
                             /\ g[k + 1] = g[k] + bits[k] * Pow2[k] /\ Pow2[k + 1] = 2 * Pow2[k]
    <2>1. \A k \in 0..n - 1 : k \in Nat
      OBVIOUS
    <2>2. \A k \in 0..n - 1 : g[k + 1] = g[k] + bits[k] * Pow2[k]
      BY <1>1 DEF PartialSums
    <2> QED
      BY <2>1, <2>2, Powers
  \* What the bits below make is less than the next power.
  <1>4. \A k \in 0..n : g[k] < Pow2[k]
    <2> DEFINE P == {k \in Nat : k <= n => g[k] < Pow2[k]}
    <2>1. 0 \in P
      BY <1>1, Powers DEF PartialSums
    <2>2. ASSUME NEW k \in Nat, k \in P PROVE k + 1 \in P
      <3> SUFFICES ASSUME k + 1 <= n PROVE g[k + 1] < Pow2[k + 1]
        OBVIOUS
      <3>1. k \in 0..n - 1 /\ k \in 0..n /\ k <= n
        OBVIOUS
      <3>2. PICK x \in Nat, d \in Nat, b \in {0, 1} :
              x = g[k] /\ d = Pow2[k] /\ b = bits[k] /\ x < d
        BY <1>2, <1>3, <2>2, <3>1
      <3>3. g[k + 1] = x + b * d /\ Pow2[k + 1] = 2 * d
        BY <1>3, <3>1, <3>2
      <3>4. x + b * d < 2 * d
        BY <3>2
      <3> QED
        BY <3>3, <3>4
    <2>3. Nat \subseteq P
      <3> HIDE DEF P
      <3> QED
        BY <2>1, <2>2, Induction
    <2> QED
      BY <2>3
  <1>5. PICK d \in Nat \ {0}, b \in {0, 1}, r \in Nat :
          d = Pow2[j] /\ b = bits[j] /\ r = g[j] /\ r < d
    <2>1. j \in 0..n /\ g[j] \in Nat /\ g[j] < Pow2[j]
      BY <1>2, <1>4
    <2> QED
      BY <1>3, <2>1
  \* Above bit j, the number is q * 2 ^ (j + 1) and what the bits up to j make.
  <1> DEFINE Q == {m \in Nat : (j + 1) + m <= n
                                 => \E q \in Nat : g[(j + 1) + m] = q * (2 * d) + (b * d + r)}
  <1>6. 0 \in Q
    <2>1. g[j + 1] = r + b * d
      BY <1>3, <1>5
    <2>2. 0 * (2 * d) + (b * d + r) = r + b * d /\ (j + 1) + 0 = j + 1
      OBVIOUS
    <2> QED
      BY <2>1, <2>2
  <1>7. ASSUME NEW m \in Nat, m \in Q PROVE m + 1 \in Q
    <2> SUFFICES ASSUME (j + 1) + (m + 1) <= n
                 PROVE  \E q \in Nat : g[(j + 1) + (m + 1)] = q * (2 * d) + (b * d + r)
      OBVIOUS
    <2>1. PICK k \in 0..n - 1 : k = (j + 1) + m /\ (j + 1) + (m + 1) = k + 1
      <3>1. (j + 1) + m \in 0..n - 1 /\ (j + 1) + (m + 1) = ((j + 1) + m) + 1
        OBVIOUS
      <3> QED
        BY <3>1
    <2>2. PICK q \in Nat : g[k] = q * (2 * d) + (b * d + r)
      BY <1>7, <2>1
    <2>3. PICK e \in {0, 1} : e = bits[k] /\ g[k + 1] = g[k] + e * Pow2[k]
      BY <1>3
    <2>4. PICK c \in Nat : Pow2[k] = c * (2 * d)
      <3>1. Pow2[j + 1] = 2 * d
        BY <1>3, <1>5
      <3>2. j + 1 \in Nat
        OBVIOUS
      <3>3. \E c \in Nat : Pow2[(j + 1) + m] = c * Pow2[j + 1]
        BY <3>2, PowersDivide
      <3> QED
        BY <2>1, <3>1, <3>3
    <2>5. PICK x \in Nat, y \in Nat : x = 2 * d /\ y = b * d + r
      OBVIOUS
    <2>6. g[k + 1] = (q * x + y) + e * (c * x)
      BY <2>2, <2>3, <2>4, <2>5
    <2>7. (q * x + y) + e * (c * x) = (q + e * c) * x + y /\ q + e * c \in Nat
      <3>1. CASE e = 0
        BY <3>1
      <3>2. CASE e = 1
        BY <3>2
      <3> QED
        BY <3>1, <3>2
    <2> QED
      BY <2>1, <2>5, <2>6, <2>7
  <1>8. Nat \subseteq Q
    <2> HIDE DEF Q
    <2> QED
      BY <1>6, <1>7, Induction
  <1>9. PICK q \in Nat : g[n] = q * (2 * d) + (b * d + r)
    <2>1. PICK m \in Nat : m = n - (j + 1) /\ (j + 1) + m = n
      OBVIOUS
    <2>2. \E q \in Nat : g[(j + 1) + m] = q * (2 * d) + (b * d + r)
      <3>1. m \in Q
        BY <1>8
      <3>2. (j + 1) + m <= n
        BY <2>1
      <3> QED
        BY <3>1, <3>2
    <2> QED
      BY <2>1, <2>2
  <1>10. g[n] = (2 * q + b) * d + r
    <2>1. (2 * q + b) * d = q * (2 * d) + b * d
      OBVIOUS
    <2>2. PICK x \in Nat, y \in Nat : x = q * (2 * d) /\ y = b * d
      OBVIOUS
    <2> QED
      BY <1>9, <2>1, <2>2
  <1>11. g[n] \div d = 2 * q + b
    <2>1. PICK x \in Nat : x = 2 * q + b
      OBVIOUS
    <2>2. (x * d + r) \div d = x
      BY <1>5, DivUnique
    <2> QED
      BY <1>10, <2>1, <2>2
  <1>12. (2 * q + b) % 2 = b
    OBVIOUS
  <1> QED
    BY <1>1, <1>5, <1>11, <1>12 DEF Bit

\* The rounded up quotient is the number of parts of size d that n is cut into.
LEMMA CeilDivIsExact ==
  ASSUME NEW n \in Nat, NEW d \in Nat \ {0}
  PROVE  /\ CeilDiv(n, d) \in Nat /\ n <= CeilDiv(n, d) * d
         /\ \A k \in 1..CeilDiv(n, d) : (k - 1) * d < n
         /\ \A m \in 0..n - 1 : m \div d + 1 \in 1..CeilDiv(n, d)
  <1>1. PICK t \in Nat : t = n + d - 1
    OBVIOUS
  <1>2. PICK c \in Nat, r \in Nat : c = t \div d /\ r < d /\ t = c * d + r
    BY DivMod
  <1>3. CeilDiv(n, d) = c
    BY <1>1, <1>2 DEF CeilDiv
  <1>4. n <= c * d
    BY <1>1, <1>2
  <1>5. ASSUME NEW k \in 1..c PROVE (k - 1) * d < n
    <2>1. PICK j \in Nat : j = k - 1 /\ j < c
      OBVIOUS
    <2>2. j * d + d <= c * d
      BY <2>1, TimesLess
    <2>3. PICK x \in Nat, y \in Nat : x = j * d /\ y = c * d
      OBVIOUS
    <2> QED
      BY <1>1, <1>2, <2>1, <2>2, <2>3
  <1>6. ASSUME NEW m \in 0..n - 1 PROVE m \div d + 1 \in 1..c
    <2>1. m \in Nat /\ m < n
      OBVIOUS
    <2>2. PICK q \in Nat, s \in Nat : q = m \div d /\ m = q * d + s
      BY <2>1, DivMod
    <2>3. q < c
      <3> SUFFICES ASSUME c <= q PROVE FALSE
        OBVIOUS
      <3>1. c * d <= q * d
        <4>1. CASE c = q
          BY <4>1
        <4>2. CASE c < q
          <5>1. c * d + d <= q * d
            BY <4>2, TimesLess
          <5> QED
            BY <5>1
        <4> QED
          BY <4>1, <4>2
      <3>2. PICK x \in Nat, y \in Nat : x = q * d /\ y = c * d
        OBVIOUS
      <3> QED
        BY <1>4, <2>1, <2>2, <3>1, <3>2
    <2> QED
      BY <2>2, <2>3
  <1> QED
    BY <1>3, <1>4, <1>5, <1>6

\* The type of FromBits.
LEMMA FromBitsIsNatural ==
  ASSUME NEW n \in Nat, NEW bits \in [0..n - 1 -> {0, 1}]
  PROVE  FromBits(bits) \in Nat
  <1>1. PICK g : PartialSums(g, bits, n) /\ FromBits(bits) = g[n]
    BY FromBitsSums
  <1> QED
    BY <1>1 DEF PartialSums

\* bitpack: the bits of the bytes are those of the values, one value after the other.
LEMMA PackedBits ==
  ASSUME NEW values \in Seq(Nat), NEW w \in Nat \ {0}
  PROVE  /\ bitpack(values, w) \in Seq(Nat)
         /\ \A n \in 0..Len(values) * w - 1 :
              Bit(bitpack(values, w)[n \div 8 + 1], n % 8) = Bit(values[n \div w + 1], n % w)
  <1>1. PICK total \in Nat : total = Len(values) * w
    BY LenProperties
  <1>2. PICK count \in Nat : count = CeilDiv(total, 8)
    BY CeilDivIsExact
  <1> DEFINE bit(n) == IF n < total THEN Bit(values[n \div w + 1], n % w) ELSE 0
             byte(j) == [k \in 0..7 |-> bit(8 * (j - 1) + k)]
  <1>3. bitpack(values, w) = [j \in 1..count |-> FromBits(byte(j))]
    BY <1>1, <1>2 DEF bitpack
  <1>4. ASSUME NEW n \in Nat PROVE bit(n) \in {0, 1}
    <2>1. CASE n < total
      <3>1. PICK q \in Nat, r \in Nat : q = n \div w /\ r = n % w /\ r < w /\ n = q * w + r
        <4>1. n \div w \in Nat /\ n % w \in 0..w - 1 /\ n = (n \div w) * w + (n % w)
          BY DivMod
        <4> QED
          BY <4>1
      <3>2. q < Len(values)
        <4> SUFFICES ASSUME Len(values) <= q PROVE FALSE
          BY LenProperties
        <4>1. PICK l \in Nat : l = Len(values)
          BY LenProperties
        <4>2. l * w <= q * w
          <5>1. CASE l = q
            BY <5>1
          <5>2. CASE l < q
            <6>1. l * w + w <= q * w
              BY <5>2, TimesLess
            <6> QED
              BY <6>1
          <5> QED
            BY <4>1, <5>1, <5>2
        <4>3. PICK x \in Nat, y \in Nat : x = q * w /\ y = l * w
          OBVIOUS
        <4> QED
          BY <1>1, <2>1, <3>1, <4>1, <4>2, <4>3
      <3>3. q + 1 \in 1..Len(values)
        BY <3>2, LenProperties
      <3>4. values[q + 1] \in Nat
        BY <3>3, ElementOfSeq
      <3> QED
        BY <2>1, <3>1, <3>4, LowBits
    <2> QED
      BY <2>1
  <1>5. ASSUME NEW j \in 1..count PROVE byte(j) \in [0..8 - 1 -> {0, 1}]
    <2>1. \A k \in 0..7 : 8 * (j - 1) + k \in Nat
      OBVIOUS
    <2>2. \A k \in 0..7 : bit(8 * (j - 1) + k) \in {0, 1}
      BY <1>4, <2>1
    <2>3. 8 - 1 = 7
      OBVIOUS
    <2> HIDE DEF bit
    <2> QED
      BY <2>2, <2>3
  <1>6. bitpack(values, w) \in Seq(Nat)
    <2>1. \A j \in 1..count : FromBits(byte(j)) \in Nat
      BY <1>5, FromBitsIsNatural
    <2> HIDE DEF byte
    <2> QED
      BY <1>3, <2>1
  <1>7. ASSUME NEW n \in 0..total - 1
        PROVE  Bit(bitpack(values, w)[n \div 8 + 1], n % 8) = Bit(values[n \div w + 1], n % w)
    <2>1. n \in Nat /\ n < total
      OBVIOUS
    <2>2. PICK j \in 1..count, k \in 0..7 :
            j = n \div 8 + 1 /\ k = n % 8 /\ n = 8 * (j - 1) + k
      <3>1. n \div 8 + 1 \in 1..count
        <4>1. \A m \in 0..total - 1 : m \div 8 + 1 \in 1..CeilDiv(total, 8)
          <5>1. 8 \in Nat \ {0}
            OBVIOUS
          <5> QED
            BY <5>1, CeilDivIsExact
        <4> QED
          BY <1>2, <4>1
      <3>2. n % 8 \in 0..7 /\ n = 8 * ((n \div 8 + 1) - 1) + (n % 8)
        BY <2>1
      <3> QED
        BY <3>1, <3>2
    <2>3. Bit(FromBits(byte(j)), k) = byte(j)[k]
      <3>1. byte(j) \in [0..8 - 1 -> {0, 1}] /\ k \in 0..8 - 1
        BY <1>5
      <3> HIDE DEF byte
      <3> QED
        BY <3>1, BitsOfIt
    <2>4. byte(j)[k] = bit(n)
      BY <2>2
    <2> QED
      BY <1>3, <2>1, <2>2, <2>3, <2>4
  <1> QED
    BY <1>1, <1>6, <1>7

\* bitpack of a width of zero writes no byte.
LEMMA EmptyPack ==
  ASSUME NEW values \in Seq(Nat) PROVE bitpack(values, 0) = <<>>
  <1>1. Len(values) * 0 = 0 /\ CeilDiv(0, 8) = 0
    BY LenProperties DEF CeilDiv
  <1> QED
    BY <1>1 DEF bitpack

\* bitunpack restores what bitpack packed.
LEMMA Unpacked ==
  ASSUME NEW values \in Seq(Nat), NEW w \in Nat, \A i \in 1..Len(values) : values[i] < Pow2[w]
  PROVE  bitunpack(bitpack(values, w), Len(values), w) = values
  <1>1. PICK bytes : bytes = bitpack(values, w)
    OBVIOUS
  <1>2. PICK l \in Nat : l = Len(values)
    BY LenProperties
  <1> DEFINE bit(n) == Bit(bytes[n \div 8 + 1], n % 8)
             bits(i) == [k \in 0..w - 1 |-> bit((i - 1) * w + k)]
  <1>3. ASSUME NEW i \in 1..l PROVE FromBits(bits(i)) = values[i]
    <2>1. values[i] \in Nat /\ values[i] < Pow2[w]
      BY <1>2, ElementOfSeq
    <2>2. ASSUME NEW k \in 0..w - 1 PROVE bit((i - 1) * w + k) = Bit(values[i], k)
      <3>1. PICK h \in Nat : h = i - 1 /\ h < l /\ i = h + 1
        OBVIOUS
      <3>2. k \in Nat /\ k < w /\ w \in Nat \ {0}
        OBVIOUS
      <3>3. h * w + w <= l * w
        BY <3>1, TimesLess
      <3>4. PICK x \in Nat, y \in Nat : x = h * w /\ y = l * w
        OBVIOUS
      <3>5. x + k \in 0..y - 1
        BY <3>2, <3>3, <3>4
      <3>6. (x + k) \div w = h /\ (x + k) % w = k
        BY <3>2, <3>4, DivUnique
      <3>7. Bit(bytes[(x + k) \div 8 + 1], (x + k) % 8) = Bit(values[(x + k) \div w + 1], (x + k) % w)
        BY <1>1, <1>2, <3>2, <3>4, <3>5, PackedBits
      <3> QED
        BY <3>1, <3>4, <3>6, <3>7
    <2>3. bits(i) = [k \in 0..w - 1 |-> Bit(values[i], k)]
      <3> HIDE DEF bit
      <3> QED
        BY <2>2
    <2> QED
      BY <2>1, <2>3, FromItsBits
  <1>4. bitunpack(bytes, l, w) = [i \in 1..l |-> FromBits(bits(i))]
    BY DEF bitunpack
  <1>5. bitunpack(bytes, l, w) = [i \in 1..l |-> values[i]]
    <2> HIDE DEF bits
    <2> QED
      BY <1>3, <1>4
  <1>6. values = [i \in 1..l |-> values[i]]
    BY <1>2
  <1> QED
    BY <1>1, <1>2, <1>5, <1>6

\* The slots of an encoded posting list.
Slots == ({"number", "byte"} \X Nat) \cup ({"lz4"} \X Seq(Nat))

\* A part of a file, from offset on.
InPlace(file, offset, part) ==
  /\ offset + Len(part) <= Len(file)
  /\ \A k \in 1..Len(part) : file[offset + k] = part[k]

\* A slice where a part lies is that part.
LEMMA SliceInPlace ==
  ASSUME NEW V, NEW part \in Seq(V), NEW file, NEW offset \in Nat, InPlace(file, offset, part)
  PROVE  Slice(file, offset, Len(part)) = part
  <1>1. PICK n \in Nat : n = Len(part)
    BY LenProperties
  <1>2. \A i \in offset + 1..offset + n : file[i] \in V
    <2> SUFFICES ASSUME NEW i \in offset + 1..offset + n PROVE file[i] \in V
      OBVIOUS
    <2>1. PICK k \in 1..n : k = i - offset /\ i = offset + k
      <3>1. i - offset \in 1..n /\ i = offset + (i - offset)
        OBVIOUS
      <3> QED
        BY <3>1
    <2>2. file[offset + k] = part[k] /\ part[k] \in V
      BY <1>1, ElementOfSeq DEF InPlace
    <2> QED
      BY <2>1, <2>2
  <1>3. PICK s : s = SubSeq(file, offset + 1, offset + n)
    OBVIOUS
  <1>4. /\ s \in Seq(V) /\ Len(s) = n
        /\ \A k \in 1..n : s[k] = file[offset + k]
    <2>1. offset + 1 \in Int /\ offset + n \in Int
      OBVIOUS
    <2>2. /\ s \in Seq(V)
          /\ Len(s) = IF offset + 1 <= offset + n THEN offset + n - (offset + 1) + 1 ELSE 0
          /\ \A i \in 1..offset + n - (offset + 1) + 1 : s[i] = file[offset + 1 + i - 1]
      BY <1>2, <1>3, <2>1, SubSeqProperties
    <2>3. offset + n - (offset + 1) + 1 = n /\ (offset + 1 <= offset + n <=> n # 0)
      OBVIOUS
    <2>4. \A k \in 1..n : offset + 1 + k - 1 = offset + k
      OBVIOUS
    <2> QED
      BY <2>2, <2>3, <2>4
  <1>5. \A k \in 1..n : s[k] = part[k]
    BY <1>1, <1>4 DEF InPlace
  <1>6. s = part
    BY <1>1, <1>4, <1>5, SeqEqual
  <1> QED
    BY <1>1, <1>3, <1>6 DEF Slice

\* The differences of the doc ids fit into the bit width of the largest.
LEMMA DeltasFit ==
  ASSUME NEW ids, SortedList(ids), Len(ids) # 0
  PROVE  /\ Deltas(ids) \in Seq(Nat) /\ Len(Deltas(ids)) = Len(ids)
         /\ BitWidth[Max(ToSet(Deltas(ids)))] \in Nat
         /\ \A i \in 1..Len(ids) : Deltas(ids)[i] < Pow2[BitWidth[Max(ToSet(Deltas(ids)))]]
         /\ \A i \in 1..Len(ids) : i # 1 => ids[i] = ids[i - 1] + Deltas(ids)[i]
  <1>1. PICK n \in Nat \ {0} : n = Len(ids) /\ ids \in Seq(Nat) /\ DOMAIN ids = 1..n
    BY LenProperties DEF SortedList
  <1>2. \A i \in 1..n : ids[i] \in Nat
    BY <1>1, ElementOfSeq
  <1>3. \A i, j \in 1..n : i < j => ids[i] < ids[j]
    BY <1>1, Sorted DEF SortedList
  <1>4. PICK d : d = Deltas(ids)
    OBVIOUS
  <1>5. d = [i \in 1..n |-> IF i = 1 THEN 0 ELSE ids[i] - ids[i - 1]]
    BY <1>1, <1>4 DEF Deltas
  <1>6. PICK top \in Nat : top = ids[n] /\ \A i \in 1..n : ids[i] <= top
    <2>1. n \in 1..n
      OBVIOUS
    <2>2. \A i \in 1..n : i = n \/ i < n
      OBVIOUS
    <2>3. \A i \in 1..n : ids[i] <= ids[n]
      BY <1>2, <1>3, <2>1, <2>2
    <2> QED
      BY <1>2, <2>1, <2>3
  <1>7. ASSUME NEW i \in 1..n
        PROVE  d[i] \in 0..top /\ (i # 1 => ids[i] = ids[i - 1] + d[i])
    <2>1. CASE i = 1
      BY <1>5, <2>1
    <2>2. CASE i # 1
      <3>1. i - 1 \in 1..n /\ i - 1 < i
        BY <2>2
      <3>2. ids[i - 1] \in Nat /\ ids[i] \in Nat /\ ids[i - 1] < ids[i] /\ ids[i] <= top
        BY <1>2, <1>3, <1>6, <3>1
      <3>3. d[i] = ids[i] - ids[i - 1]
        BY <1>5, <2>2
      <3> QED
        BY <3>2, <3>3
    <2> QED
      BY <2>1, <2>2
  <1>8. d \in Seq(Nat) /\ Len(d) = n
    <2>1. \A i \in 1..n : d[i] \in Nat
      BY <1>7
    <2>2. d \in [1..n -> Nat]
      BY <1>5, <2>1
    <2> QED
      BY <2>2
  <1>9. ToSet(d) = {d[i] : i \in 1..n}
    BY <1>8, SetOfList
  <1>10. PICK S : S = ToSet(d)
    OBVIOUS
  <1>11. S \in SUBSET (0..top) /\ S # {} /\ \A i \in 1..n : d[i] \in S
    <2>1. 1 \in 1..n
      OBVIOUS
    <2> QED
      BY <1>7, <1>9, <1>10, <2>1
  <1>12. PICK m \in 0..top : m = Max(S) /\ \A x \in S : x <= m
    BY <1>11, MaxOfNumbers
  <1>13. m \in Nat /\ BitWidth[m] \in Nat /\ m < Pow2[BitWidth[m]]
    <2>1. m \in Nat
      OBVIOUS
    <2> QED
      BY <2>1, BitWidths, FitsWidth
  <1>14. \A i \in 1..n : d[i] < Pow2[BitWidth[m]]
    <2>1. PICK p \in Nat : p = Pow2[BitWidth[m]]
      BY <1>13, Powers
    <2>2. \A i \in 1..n : d[i] \in Nat /\ d[i] <= m
      BY <1>7, <1>11, <1>12
    <2> QED
      BY <1>13, <2>1, <2>2
  <1> QED
    BY <1>1, <1>4, <1>7, <1>8, <1>10, <1>12, <1>13, <1>14

\* The header and the data of a block.
LEMMA HeaderAndData ==
  ASSUME NEW V, NEW a \in V, NEW b \in V, NEW c \in V, NEW d \in V, NEW e \in V, NEW f \in V,
         NEW data \in Seq(V), NEW block, block = <<a, b, c, d, e, f>> \o data
  PROVE  /\ block \in Seq(V) /\ Len(block) = 6 + Len(data)
         /\ block[1] = a /\ block[2] = b /\ block[3] = c
         /\ block[4] = d /\ block[5] = e /\ block[6] = f
         /\ \A k \in 1..Len(data) : block[6 + k] = data[k]
  <1>1. PICK header : header = <<a, b, c, d, e, f>>
    OBVIOUS
  <1>2. header \in Seq(V) /\ Len(header) = 6
    BY <1>1
  <1>3. PICK n \in Nat : n = Len(data)
    BY LenProperties
  <1>4. /\ block \in Seq(V) /\ Len(block) = 6 + n
        /\ \A i \in 1..6 + n : block[i] = IF i <= 6 THEN header[i] ELSE data[i - 6]
    BY <1>1, <1>2, <1>3, ConcatProperties
  <1>5. \A i \in 1..6 : i \in 1..6 + n /\ i <= 6
    OBVIOUS
  <1>6. \A i \in 1..6 : block[i] = header[i]
    BY <1>4, <1>5
  <1>7. \A k \in 1..n : 6 + k \in 1..6 + n /\ ~(6 + k <= 6) /\ (6 + k) - 6 = k
    OBVIOUS
  <1>8. \A k \in 1..n : block[6 + k] = data[k]
    BY <1>4, <1>7
  <1> QED
    BY <1>1, <1>3, <1>4, <1>6, <1>8

\* encode_block and decode_block of one block, wherever it is in a file.
LEMMA BlockIsExact ==
  ASSUME NEW ids, SortedList(ids), Len(ids) # 0
  PROVE  /\ encode_block(ids) \in Seq(Slots) /\ Len(encode_block(ids)) \in Nat \ {0}
         /\ \A file : \A offset \in Nat : InPlace(file, offset, encode_block(ids)) =>
              /\ BlockDocs(file, offset) = {ids}
              /\ offset + BLOCK_HEADER_SIZE + At(file, offset + 4) = offset + Len(encode_block(ids))
              /\ BLOCK_HEADER_SIZE <= Len(encode_block(ids))
  <1>1. PICK n \in Nat \ {0} : n = Len(ids) /\ ids \in Seq(Nat) /\ DOMAIN ids = 1..n
    BY LenProperties DEF SortedList
  <1>2. PICK deltas \in Seq(Nat), w \in Nat :
          /\ deltas = Deltas(ids) /\ w = BitWidth[Max(ToSet(deltas))] /\ Len(deltas) = n
          /\ \A i \in 1..n : deltas[i] < Pow2[w]
          /\ \A i \in 1..n : i # 1 => ids[i] = ids[i - 1] + deltas[i]
    BY <1>1, DeltasFit
  <1>3. PICK packed \in Seq(Nat) : packed = bitpack(deltas, w)
    <2>1. CASE w = 0
      BY <2>1, EmptyPack, EmptySeq
    <2>2. CASE w # 0
      BY <2>2, PackedBits
    <2> QED
      BY <2>1, <2>2
  <1>4. bitunpack(packed, n, w) = deltas
    BY <1>2, <1>3, Unpacked
  <1> DEFINE small == Len(packed) >= Lz4MinBytes /\ Len(Lz4(packed)) < Len(packed)
  <1>5. PICK data \in Seq(Slots), flag \in {0, 1}, raw \in Nat :
          /\ data = IF small THEN Lz4(packed) ELSE Raw(packed)
          /\ flag = IF small THEN 1 ELSE 0
          /\ raw = IF small THEN Len(packed) ELSE 0
          /\ IF flag = 1 THEN Len(data) = 1 /\ data[1][2] = packed /\ raw = Len(packed)
                         ELSE Len(data) = Len(packed) /\ \A j \in 1..Len(packed) : data[j][2] = packed[j]
    <2>1. Len(packed) \in Nat /\ DOMAIN packed = 1..Len(packed)
      BY LenProperties
    <2>2. Lz4(packed) \in Seq(Slots) /\ Len(Lz4(packed)) = 1 /\ Lz4(packed)[1][2] = packed
      <3>1. <<"lz4", packed>> \in Slots
        BY DEF Slots
      <3> QED
        BY <3>1 DEF Lz4
    <2>3. /\ Raw(packed) \in Seq(Slots) /\ Len(Raw(packed)) = Len(packed)
          /\ \A j \in 1..Len(packed) : Raw(packed)[j][2] = packed[j]
      <3>1. \A j \in 1..Len(packed) : packed[j] \in Nat
        BY ElementOfSeq
      <3>2. \A j \in 1..Len(packed) : <<"byte", packed[j]>> \in Slots
        BY <3>1 DEF Slots
      <3> QED
        BY <2>1, <3>2 DEF Raw
    <2>4. CASE small
      BY <2>1, <2>2, <2>4
    <2>5. CASE ~small
      BY <2>3, <2>5
    <2> QED
      BY <2>4, <2>5
  <1>6. PICK block : block = encode_block(ids)
    OBVIOUS
  <1>7. block = <<U(n), U(ids[1]), U(w), U(flag), U(Len(data)), U(raw)>> \o data
    <2>1. block = Block(ids, w, packed)
      BY <1>2, <1>3, <1>6 DEF encode_block, BlockOf
    <2> QED
      BY <1>1, <1>5, <2>1 DEF Block
  <1>8. ids[1] \in Nat /\ Len(data) \in Nat
    <2>1. 1 \in 1..n
      OBVIOUS
    <2> QED
      BY <1>1, <2>1, ElementOfSeq, LenProperties
  <1>9. PICK m \in Nat, min \in Nat : m = Len(data) /\ min = ids[1]
    BY <1>8
  <1>10. /\ block \in Seq(Slots) /\ Len(block) = 6 + m
         /\ block[1] = U(n) /\ block[2] = U(min) /\ block[3] = U(w)
         /\ block[4] = U(flag) /\ block[5] = U(m) /\ block[6] = U(raw)
         /\ \A k \in 1..m : block[6 + k] = data[k]
    <2>1. \A k \in Nat : U(k) \in Slots
      BY DEF U, Slots
    <2>2. flag \in Nat
      OBVIOUS
    <2>3. block = <<U(n), U(min), U(w), U(flag), U(m), U(raw)>> \o data
      BY <1>7, <1>9
    <2>4. /\ U(n) \in Slots /\ U(min) \in Slots /\ U(w) \in Slots
          /\ U(flag) \in Slots /\ U(m) \in Slots /\ U(raw) \in Slots
      BY <2>1, <2>2
    <2> HIDE DEF small
    <2> QED
      BY <1>9, <2>3, <2>4, HeaderAndData
  <1> HIDE DEF small
  <1>11. ASSUME NEW file, NEW offset \in Nat, InPlace(file, offset, block)
         PROVE  /\ BlockDocs(file, offset) = {ids}
                /\ offset + BLOCK_HEADER_SIZE + At(file, offset + 4) = offset + Len(block)
    <2>1. /\ At(file, offset) = n /\ At(file, offset + 1) = min /\ At(file, offset + 2) = w
          /\ At(file, offset + 3) = flag /\ At(file, offset + 4) = m /\ At(file, offset + 5) = raw
      <3>1. \A k \in 1..6 : k \in 1..6 + m
        OBVIOUS
      <3>2. \A k \in 1..6 : file[offset + k] = block[k]
        BY <1>10, <1>11, <3>1 DEF InPlace
      <3>3. /\ file[offset + 1] = U(n) /\ file[offset + 2] = U(min) /\ file[offset + 3] = U(w)
            /\ file[offset + 4] = U(flag) /\ file[offset + 5] = U(m) /\ file[offset + 6] = U(raw)
        <4>1. 1 \in 1..6 /\ 2 \in 1..6 /\ 3 \in 1..6 /\ 4 \in 1..6 /\ 5 \in 1..6 /\ 6 \in 1..6
          OBVIOUS
        <4>2. /\ file[offset + 1] = block[1] /\ file[offset + 2] = block[2] /\ file[offset + 3] = block[3]
              /\ file[offset + 4] = block[4] /\ file[offset + 5] = block[5] /\ file[offset + 6] = block[6]
          BY <3>2, <4>1
        <4> QED
          BY <1>10, <4>2
      <3>4. /\ (offset + 1) + 1 = offset + 2 /\ (offset + 2) + 1 = offset + 3
            /\ (offset + 3) + 1 = offset + 4 /\ (offset + 4) + 1 = offset + 5
            /\ (offset + 5) + 1 = offset + 6
        OBVIOUS
      <3>5. At(file, offset) = n
        BY <3>3, AtNumber
      <3>6. At(file, offset + 1) = min
        BY <3>3, <3>4, AtNumber
      <3>7. At(file, offset + 2) = w
        BY <3>3, <3>4, AtNumber
      <3>8. At(file, offset + 3) = flag
        BY <3>3, <3>4, AtNumber
      <3>9. At(file, offset + 4) = m
        BY <3>3, <3>4, AtNumber
      <3>10. At(file, offset + 5) = raw
        BY <3>3, <3>4, AtNumber
      <3> QED
        BY <3>5, <3>6, <3>7, <3>8, <3>9, <3>10
    <2>2. PICK slots : slots = Slice(file, offset + 6, m)
      OBVIOUS
    <2>3. slots = data
      <3>1. offset + 6 \in Nat /\ \A k \in 1..m : offset + (6 + k) = (offset + 6) + k /\ 6 + k \in 1..6 + m
        OBVIOUS
      <3>2. InPlace(file, offset + 6, data)
        <4>1. (offset + 6) + m <= Len(file)
          <5>1. offset + (6 + m) = (offset + 6) + m
            OBVIOUS
          <5> QED
            BY <1>10, <1>11, <5>1 DEF InPlace
        <4>2. \A k \in 1..m : file[(offset + 6) + k] = data[k]
          BY <1>10, <1>11, <3>1 DEF InPlace
        <4> QED
          BY <1>9, <4>1, <4>2 DEF InPlace
      <3> QED
        BY <1>9, <2>2, <3>1, <3>2, SliceInPlace
    <2> DEFINE slice == Slice(file, offset + BLOCK_HEADER_SIZE, At(file, offset + 4))
               bytes == IF At(file, offset + 3) = 1 THEN slice[1][2] ELSE [j \in DOMAIN slice |-> slice[j][2]]
               unpacked == bitunpack(bytes, At(file, offset), At(file, offset + 2))
               Docs(doc) == doc = [i \in 1..Len(unpacked) |->
                                     IF i = 1 THEN At(file, offset + 1) ELSE doc[i - 1] + unpacked[i]]
               chosen == CHOOSE doc : Docs(doc)
    <2>4. BlockDocs(file, offset) =
            IF At(file, offset + 3) = 1 /\ Len(bytes) # At(file, offset + 5)
            THEN {} ELSE {[i \in 1..Len(unpacked) |-> chosen[i]]}
      BY DEF BlockDocs
    <2>same. slice = slots
      BY <2>1, <2>2 DEF BLOCK_HEADER_SIZE
    <2>5. bytes = packed /\ (flag = 1 => Len(bytes) = raw)
      <3>1. CASE flag = 1
        BY <1>5, <2>1, <2>3, <2>same, <3>1
      <3>2. CASE flag # 1
        <4>1. DOMAIN slots = 1..Len(packed) /\ \A j \in 1..Len(packed) : slots[j][2] = packed[j]
          BY <1>5, <2>3, <3>2, LenProperties
        <4>2. packed = [j \in 1..Len(packed) |-> packed[j]]
          BY LenProperties
        <4> QED
          BY <2>1, <2>same, <3>2, <4>1, <4>2
      <3> QED
        BY <3>1, <3>2
    <2> HIDE DEF bytes, slice
    <2>deltas. unpacked = deltas
      BY <1>4, <2>1, <2>5
    <2>6. BlockDocs(file, offset) = {[i \in 1..n |-> chosen[i]]}
      <3> HIDE DEF chosen, unpacked
      <3> QED
        BY <1>2, <2>1, <2>4, <2>5, <2>deltas
    <2> HIDE DEF unpacked
    <2>7. Docs(chosen)
      <3>1. ids = [i \in 1..n |-> ids[i]]
        BY <1>1
      <3>2. \A i \in 1..n : ids[i] = IF i = 1 THEN min ELSE ids[i - 1] + deltas[i]
        BY <1>2, <1>9
      <3>3. [i \in 1..n |-> ids[i]] = [i \in 1..n |-> IF i = 1 THEN min ELSE ids[i - 1] + deltas[i]]
        BY <3>2
      <3>4. Docs(ids)
        BY <1>2, <2>1, <2>deltas, <3>1, <3>3
      <3> HIDE DEF Docs
      <3> QED
        BY <3>4
    <2>8. \A i \in 1..n : chosen[i] = IF i = 1 THEN min ELSE chosen[i - 1] + deltas[i]
      <3> HIDE DEF chosen
      <3> QED
        BY <1>2, <2>1, <2>7, <2>deltas
    <2> HIDE DEF chosen, Docs
    <2> DEFINE P == {i \in Nat : i + 1 \in 1..n => chosen[i + 1] = ids[i + 1]}
    <2>9. 0 \in P
      <3>1. 0 + 1 = 1 /\ 1 \in 1..n
        OBVIOUS
      <3> QED
        BY <1>9, <2>8, <3>1
    <2>10. ASSUME NEW i \in Nat, i \in P PROVE i + 1 \in P
      <3> SUFFICES ASSUME (i + 1) + 1 \in 1..n PROVE chosen[(i + 1) + 1] = ids[(i + 1) + 1]
        OBVIOUS
      <3>1. PICK k \in 1..n : k = (i + 1) + 1
        OBVIOUS
      <3>2. k # 1 /\ k - 1 = i + 1 /\ i + 1 \in 1..n
        BY <3>1
      <3>3. chosen[k] = chosen[k - 1] + deltas[k]
        BY <2>8, <3>2
      <3>4. ids[k] = ids[k - 1] + deltas[k]
        BY <1>2, <3>2
      <3>5. chosen[k - 1] = ids[k - 1]
        BY <2>10, <3>2
      <3> QED
        BY <3>1, <3>3, <3>4, <3>5
    <2>11. Nat \subseteq P
      <3> HIDE DEF P
      <3> QED
        BY <2>9, <2>10, Induction
    <2>12. \A i \in 1..n : chosen[i] = ids[i]
      <3> SUFFICES ASSUME NEW i \in 1..n PROVE chosen[i] = ids[i]
        OBVIOUS
      <3>1. i - 1 \in Nat /\ (i - 1) + 1 = i
        OBVIOUS
      <3>2. i - 1 \in P
        BY <2>11, <3>1
      <3>3. (i - 1) + 1 \in 1..n => chosen[(i - 1) + 1] = ids[(i - 1) + 1]
        BY <3>2
      <3> QED
        BY <3>1, <3>3
    <2>13. [i \in 1..n |-> chosen[i]] = ids
      <3>1. ids = [i \in 1..n |-> ids[i]]
        BY <1>1
      <3> HIDE DEF P
      <3> QED
        BY <2>12, <3>1
    <2> QED
      <3>1. BlockDocs(file, offset) = {ids}
        BY <2>6, <2>13
      <3>2. (offset + 6) + m = offset + (6 + m)
        OBVIOUS
      <3>3. offset + BLOCK_HEADER_SIZE + At(file, offset + 4) = offset + Len(block)
        BY <1>10, <2>1, <3>2 DEF BLOCK_HEADER_SIZE
      <3> QED
        BY <3>1, <3>3
  <1> QED
    BY <1>6, <1>10, <1>11 DEF BLOCK_HEADER_SIZE

\* The smaller of two numbers.
LEMMA MinimumOfTwo ==
  ASSUME NEW x \in Nat, NEW y \in Nat
  PROVE  Min({x, y}) = IF x <= y THEN x ELSE y
  <1>1. \E z \in {x, y} : \A v \in {x, y} : z <= v
    OBVIOUS
  <1>2. Min({x, y}) \in {x, y} /\ \A v \in {x, y} : Min({x, y}) <= v
    BY <1>1 DEF Min
  <1> QED
    BY <1>2

\* Part of a sorted list is one.
LEMMA SortedPart ==
  ASSUME NEW s, SortedList(s), NEW i \in 1..Len(s) + 1, NEW j \in i - 1..Len(s)
  PROVE  SortedList(SubSeq(s, i, j)) /\ Len(SubSeq(s, i, j)) = j - i + 1
  <1>1. PICK n \in Nat : n = Len(s) /\ s \in Seq(Nat)
    BY LenProperties DEF SortedList
  <1>2. \A k, l \in 1..n : k < l => s[k] < s[l]
    BY <1>1, Sorted DEF SortedList
  <1>3. PICK t : t = SubSeq(s, i, j)
    OBVIOUS
  <1>4. PICK m \in Nat : m = j - i + 1
    BY <1>1
  <1>5. \A k \in 1..m : i + k - 1 \in 1..n /\ i + k - 1 \in i..j
    BY <1>1, <1>4
  <1>6. t \in Seq(Nat) /\ Len(t) = m /\ \A k \in 1..m : t[k] = s[i + k - 1]
    <2>1. i \in Int /\ j \in Int
      BY <1>1
    <2>2. \A k \in i..j : k \in 1..n
      BY <1>1
    <2>3. \A k \in i..j : s[k] \in Nat
      BY <1>1, <2>2, ElementOfSeq
    <2>4. /\ t \in Seq(Nat) /\ Len(t) = IF i <= j THEN j - i + 1 ELSE 0
          /\ \A k \in 1..j - i + 1 : t[k] = s[i + k - 1]
      BY <1>3, <2>1, <2>3, SubSeqProperties
    <2>5. m = IF i <= j THEN j - i + 1 ELSE 0
      BY <1>1, <1>4
    <2> QED
      BY <1>4, <2>4, <2>5
  <1>7. ASSUME NEW k \in 1..m, NEW l \in 1..m, k < l PROVE t[k] < t[l]
    <2>1. i + k - 1 < i + l - 1
      BY <1>1, <1>7
    <2> QED
      BY <1>2, <1>5, <1>6, <2>1
  <1>8. SortedList(t)
    BY <1>6, <1>7, Sorted DEF SortedList
  <1> QED
    BY <1>3, <1>4, <1>6, <1>8

\* cut[k] is the number of ids in the first k chunks, and each chunk is not empty.
Cut(s, size) == [k \in 0..CeilDiv(Len(s), size) |-> IF k * size <= Len(s) THEN k * size ELSE Len(s)]

ChunksFit(s, chunks, count, cut) ==
  /\ count \in Nat /\ cut[0] = 0 /\ cut[count] = Len(s) /\ DOMAIN chunks = 1..count
  /\ \A k \in 0..count : cut[k] \in 0..Len(s)
  /\ \A k \in 1..count :
       /\ chunks[k] = SubSeq(s, cut[k - 1] + 1, cut[k]) /\ cut[k - 1] < cut[k]
       /\ SortedList(chunks[k]) /\ Len(chunks[k]) # 0
       /\ SubSeq(s, 1, cut[k - 1]) \o chunks[k] = SubSeq(s, 1, cut[k])

\* encode: the chunks of a list follow each other and cover it.
LEMMA ChunksAreExact ==
  ASSUME NEW s, SortedList(s), NEW size \in Nat \ {0}
  PROVE  ChunksFit(s, Chunks(s, size), CeilDiv(Len(s), size), Cut(s, size))
  <1>0. PICK count, cut : count = CeilDiv(Len(s), size) /\ cut = Cut(s, size)
    OBVIOUS
  <1>1. PICK n \in Nat : n = Len(s) /\ s \in Seq(Nat)
    BY LenProperties DEF SortedList
  <1>2. count \in Nat /\ n <= count * size /\ \A k \in 1..count : (k - 1) * size < n
    BY <1>0, <1>1, CeilDivIsExact
  <1>3. cut = [k \in 0..count |-> IF k * size <= n THEN k * size ELSE n]
    BY <1>0, <1>1 DEF Cut
  <1>4. cut[0] = 0 /\ cut[count] = n
    <2>1. 0 \in 0..count /\ count \in 0..count /\ 0 * size = 0
      BY <1>2
    <2>2. PICK x \in Nat : x = count * size
      BY <1>2
    <2> QED
      BY <1>2, <1>3, <2>1, <2>2
  <1>5. ASSUME NEW k \in 0..count PROVE cut[k] \in 0..n
    <2>1. PICK x \in Nat : x = k * size
      BY <1>2
    <2> QED
      BY <1>3, <2>1
  <1>6. ASSUME NEW k \in 1..count
        PROVE  /\ Chunks(s, size)[k] = SubSeq(s, cut[k - 1] + 1, cut[k]) /\ cut[k - 1] < cut[k]
               /\ SortedList(Chunks(s, size)[k]) /\ Len(Chunks(s, size)[k]) # 0
               /\ SubSeq(s, 1, cut[k - 1]) \o Chunks(s, size)[k] = SubSeq(s, 1, cut[k])
    <2>1. PICK j \in Nat : j = k - 1 /\ k = j + 1 /\ j \in 0..count /\ k \in 0..count
      <3>1. k - 1 \in Nat /\ k = (k - 1) + 1 /\ k - 1 \in 0..count /\ k \in 0..count
        BY <1>2
      <3> QED
        BY <3>1
    <2>2. PICK x \in Nat, y \in Nat : x = j * size /\ y = k * size /\ y = x + size
      <3>1. (j + 1) * size = j * size + size
        OBVIOUS
      <3> QED
        BY <2>1, <3>1
    <2>3. x < n
      BY <1>2, <2>1, <2>2
    <2>4. cut[j] = x /\ cut[k] = IF y <= n THEN y ELSE n
      BY <1>3, <2>1, <2>2, <2>3
    <2>5. cut[j] < cut[k] /\ cut[j] \in Nat /\ cut[k] \in Nat /\ cut[k] <= n
      BY <2>2, <2>3, <2>4
    <2>6. PICK c : c = SubSeq(s, cut[j] + 1, cut[k])
      OBVIOUS
    <2>7. Chunks(s, size)[k] = c
      <3>1. Chunks(s, size)[k] = SubSeq(s, (k - 1) * size + 1, Min({k * size, n}))
        BY <1>0, <1>1 DEF Chunks
      <3>2. Min({y, n}) = cut[k]
        BY <2>4, MinimumOfTwo
      <3> QED
        BY <2>1, <2>2, <2>4, <2>6, <3>1, <3>2
    <2>8. SortedList(c) /\ Len(c) = cut[k] - (cut[j] + 1) + 1
      <3>1. cut[j] + 1 \in 1..n + 1 /\ cut[k] \in (cut[j] + 1) - 1..n
        BY <2>5
      <3> QED
        BY <1>1, <2>6, <3>1, SortedPart
    <2>9. SubSeq(s, 1, cut[j]) \o c = SubSeq(s, 1, cut[k])
      <3>1. 1 \in 1..n + 1 /\ cut[j] \in 1 - 1..n /\ cut[k] \in cut[j]..n
        BY <2>5
      <3> QED
        BY <1>1, <2>6, <3>1, ConcatAdjacentSubSeq
    <2>10. Len(c) # 0
      BY <2>5, <2>8
    <2> QED
      BY <2>1, <2>5, <2>6, <2>7, <2>8, <2>9, <2>10
  <1>7. DOMAIN Chunks(s, size) = 1..count
    BY <1>0, <1>1 DEF Chunks
  <1> QED
    BY <1>0, <1>1, <1>2, <1>4, <1>5, <1>6, <1>7 DEF ChunksFit

\* What encode is made of: the blocks of the chunks, one after the other.
LEMMA EncodedBlocks ==
  ASSUME NEW ids, SortedList(ids), NEW count, count = CeilDiv(Len(ids), POSTING_BLOCK_SIZE)
  PROVE  \E blocks \in Seq(Seq(Slots)) :
           /\ Len(blocks) = count /\ encode(ids) = FlattenSeq(blocks)
           /\ \A k \in 1..count : blocks[k] = encode_block(Chunks(ids, POSTING_BLOCK_SIZE)[k])
  <1>1. POSTING_BLOCK_SIZE \in Nat \ {0}
    BY SegmentFileAssumption
  <1>2. PICK chunks : chunks = Chunks(ids, POSTING_BLOCK_SIZE)
    OBVIOUS
  <1>3. /\ count \in Nat /\ DOMAIN chunks = 1..count
        /\ \A k \in 1..count : SortedList(chunks[k]) /\ Len(chunks[k]) # 0
    <2>1. PICK size, c, t :
            /\ size \in Nat \ {0} /\ size = POSTING_BLOCK_SIZE
            /\ c = CeilDiv(Len(ids), size) /\ t = Cut(ids, size)
      BY <1>1
    <2>2. ChunksFit(ids, Chunks(ids, size), c, t)
      BY <2>1, ChunksAreExact
    <2> QED
      BY <1>2, <2>1, <2>2 DEF ChunksFit
  <1>4. PICK blocks : blocks = [k \in 1..count |-> encode_block(chunks[k])]
    OBVIOUS
  <1>5. \A k \in 1..count : encode_block(chunks[k]) \in Seq(Slots)
    BY <1>3, BlockIsExact
  <1>6. blocks \in Seq(Seq(Slots)) /\ Len(blocks) = count
    BY <1>3, <1>4, <1>5
  <1>7. encode(ids) = FlattenSeq(blocks)
    BY <1>2, <1>3, <1>4 DEF encode
  <1> QED
    BY <1>2, <1>4, <1>6, <1>7

\* The state of decode's loop after n blocks, and then no more.
After(data, f) ==
  f = [n \in 0..Len(data) |->
         IF n = 0 THEN [offset |-> 0, docs |-> {<<>>}] ELSE decode_block(data, f[n - 1])]

\* The recursive function of decode, unfolded.
LEMMA DecodeRuns ==
  ASSUME NEW data, Len(data) \in Nat, NEW f, After(data, f)
  PROVE  decode(data) = f[Len(data)].docs
  <1>1. decode(data) = (CHOOSE g : After(data, g))[Len(data)].docs
    BY DEF decode, After
  <1>2. PICK g : After(data, g) /\ decode(data) = g[Len(data)].docs
    BY <1>1
  <1> DEFINE P == {n \in Nat : n <= Len(data) => g[n] = f[n]}
  <1>3. 0 \in P
    BY <1>2 DEF After
  <1>4. ASSUME NEW n \in Nat, n \in P PROVE n + 1 \in P
    <2> SUFFICES ASSUME n + 1 <= Len(data) PROVE g[n + 1] = f[n + 1]
      OBVIOUS
    <2>1. n + 1 \in 0..Len(data) /\ n + 1 # 0 /\ (n + 1) - 1 = n /\ n <= Len(data)
      OBVIOUS
    <2>2. g[n + 1] = decode_block(data, g[n]) /\ f[n + 1] = decode_block(data, f[n])
      BY <1>2, <2>1 DEF After
    <2> QED
      BY <1>4, <2>1, <2>2
  <1>5. Nat \subseteq P
    <2> HIDE DEF P
    <2> QED
      BY <1>3, <1>4, Induction
  <1> QED
    BY <1>2, <1>5

\* decode_block at the start of a block that is whole.
BlockAt(data, offset, next, docs) ==
  /\ offset + BLOCK_HEADER_SIZE + At(data, offset + 4) = next
  /\ offset + BLOCK_HEADER_SIZE <= next /\ next <= Len(data)
  /\ BlockDocs(data, offset) = {docs}

Decodes(data, offset, next, docs) ==
  \A before : decode_block(data, [offset |-> offset, docs |-> {before}])
                = [offset |-> next, docs |-> {before \o docs}]

\* decode: one step over a block.
LEMMA DecodeBlock ==
  ASSUME NEW data, Len(data) \in Nat, NEW offset \in Nat, NEW next \in Nat, NEW docs,
         BlockAt(data, offset, next, docs)
  PROVE  Decodes(data, offset, next, docs)
  <1> SUFFICES ASSUME NEW before
               PROVE  decode_block(data, [offset |-> offset, docs |-> {before}])
                        = [offset |-> next, docs |-> {before \o docs}]
    BY DEF Decodes
  <1>1. PICK s : s = [offset |-> offset, docs |-> {before}]
    OBVIOUS
  <1>2. s.offset = offset /\ s.docs = {before} /\ s.docs # {}
    BY <1>1
  <1>3. s.offset < Len(data) /\ ~(s.offset + BLOCK_HEADER_SIZE > Len(data)) /\ ~(next > Len(data))
    BY <1>2 DEF BLOCK_HEADER_SIZE, BlockAt
  <1>4. PICK D : D = {p[1] \o p[2] : p \in s.docs \X BlockDocs(data, s.offset)}
    OBVIOUS
  <1>5. D = {before \o docs}
    <2>1. s.docs \X BlockDocs(data, s.offset) = {<<before, docs>>}
      BY <1>2 DEF BlockAt
    <2>2. \A x : x \in D <=> \E p \in {<<before, docs>>} : x = p[1] \o p[2]
      BY <1>4, <2>1
    <2>3. <<before, docs>>[1] = before /\ <<before, docs>>[2] = docs
      OBVIOUS
    <2> QED
      BY <2>2, <2>3
  <1>6. ~(s.docs = {} \/ s.offset >= Len(data))
    BY <1>2, <1>3
  <1>7. s.offset + BLOCK_HEADER_SIZE + At(data, s.offset + 4) = next
    BY <1>2 DEF BlockAt
  <1>8. decode_block(data, s) = [offset |-> next, docs |-> {p[1] \o p[2] : p \in s.docs \X BlockDocs(data, s.offset)}]
    <2>1. decode_block(data, s) =
            IF s.docs = {} \/ s.offset >= Len(data) THEN s
            ELSE IF s.offset + BLOCK_HEADER_SIZE > Len(data)
                      \/ s.offset + BLOCK_HEADER_SIZE + At(data, s.offset + 4) > Len(data)
            THEN [s EXCEPT !.docs = {}]
            ELSE [offset |-> s.offset + BLOCK_HEADER_SIZE + At(data, s.offset + 4),
                  docs |-> {p[1] \o p[2] : p \in s.docs \X BlockDocs(data, s.offset)}]
      BY DEF decode_block
    <2>2. ~(s.offset + BLOCK_HEADER_SIZE > Len(data)
              \/ s.offset + BLOCK_HEADER_SIZE + At(data, s.offset + 4) > Len(data))
      BY <1>3, <1>7
    <2> QED
      BY <1>6, <1>7, <2>1, <2>2, Zenon
  <1> QED
    BY <1>1, <1>4, <1>5, <1>8, Zenon

\* The posting list codec: what decode makes of an encoded list is the list, for
\* every sorted list of doc ids, every block size and every threshold of LZ4.
THEOREM DecodeUndoesEncode ==
  ASSUME NEW ids, SortedList(ids)
  PROVE  encode(ids) \in Seq(Slots) /\ decode(encode(ids)) = {ids}
  <1>1. POSTING_BLOCK_SIZE \in Nat \ {0}
    BY SegmentFileAssumption
  <1>2. PICK count, cut, chunks :
          /\ count = CeilDiv(Len(ids), POSTING_BLOCK_SIZE)
          /\ cut = Cut(ids, POSTING_BLOCK_SIZE) /\ chunks = Chunks(ids, POSTING_BLOCK_SIZE)
    OBVIOUS
  <1>3. /\ count \in Nat /\ cut[0] = 0 /\ cut[count] = Len(ids)
        /\ \A k \in 1..count :
             /\ SortedList(chunks[k]) /\ Len(chunks[k]) # 0
             /\ SubSeq(ids, 1, cut[k - 1]) \o chunks[k] = SubSeq(ids, 1, cut[k])
    <2>1. PICK size, c, t :
            /\ size \in Nat \ {0} /\ size = POSTING_BLOCK_SIZE
            /\ c = CeilDiv(Len(ids), size) /\ t = Cut(ids, size)
      BY <1>1
    <2>2. ChunksFit(ids, Chunks(ids, size), c, t)
      BY <2>1, ChunksAreExact
    <2> QED
      BY <1>2, <2>1, <2>2 DEF ChunksFit
  <1>4. PICK blocks \in Seq(Seq(Slots)) :
          /\ Len(blocks) = count /\ encode(ids) = FlattenSeq(blocks)
          /\ \A k \in 1..count : blocks[k] = encode_block(chunks[k])
    BY <1>2, EncodedBlocks
  <1>5. PICK o : Layout(o, blocks)
    BY LayoutExists
  <1>6. PICK data : data = encode(ids)
    OBVIOUS
  <1>7. /\ data \in Seq(Slots) /\ Len(data) = o[count]
        /\ \A k \in 1..count : \A i \in 1..Len(blocks[k]) : data[o[k - 1] + i] = blocks[k][i]
    BY <1>4, <1>5, <1>6, FlattenLayout DEF Flattened
  <1>8. /\ \A k \in 0..count : o[k] \in Nat /\ o[k] <= Len(data)
        /\ o[0] = 0 /\ Len(data) \in Nat
    <2>1. \A k \in 0..count : o[k] \in Nat
      BY <1>4, <1>5 DEF Layout
    <2>2. \A k \in 0..count : k <= count /\ count \in 0..count
      BY <1>3
    <2>3. \A k \in 0..count : o[k] <= o[count]
      BY <1>4, <1>5, <2>2, LayoutGrows
    <2> QED
      BY <1>5, <1>7, <2>1, <2>2, <2>3 DEF Layout
  <1>9. ASSUME NEW k \in 1..count
        PROVE  /\ BlockDocs(data, o[k - 1]) = {chunks[k]}
               /\ o[k - 1] + BLOCK_HEADER_SIZE + At(data, o[k - 1] + 4) = o[k]
               /\ o[k - 1] + BLOCK_HEADER_SIZE <= o[k]
    <2>1. k - 1 \in 0..count /\ k \in 0..count
      BY <1>3
    <2>2. PICK b : b = blocks[k] /\ b = encode_block(chunks[k])
      BY <1>4
    <2>3. PICK p \in Nat, q \in Nat : p = o[k - 1] /\ q = o[k] /\ q = p + Len(b) /\ q <= Len(data)
      BY <1>4, <1>5, <1>8, <2>1, <2>2 DEF Layout
    <2>4. \A i \in 1..Len(b) : data[p + i] = b[i]
      BY <1>7, <2>2, <2>3
    <2>5. InPlace(data, p, b)
      BY <2>3, <2>4 DEF InPlace
    <2>6. /\ BlockDocs(data, p) = {chunks[k]} /\ Len(b) \in Nat
          /\ p + BLOCK_HEADER_SIZE + At(data, p + 4) = p + Len(b) /\ BLOCK_HEADER_SIZE <= Len(b)
      <3>1. PICK c : c = chunks[k] /\ SortedList(c) /\ Len(c) # 0 /\ b = encode_block(c)
        BY <1>3, <2>2
      <3>2. InPlace(data, p, encode_block(c))
        BY <2>5, <3>1
      <3> QED
        BY <3>1, <3>2, BlockIsExact
    <2>7. p + BLOCK_HEADER_SIZE <= p + Len(b)
      BY <2>6 DEF BLOCK_HEADER_SIZE
    <2> QED
      BY <2>3, <2>6, <2>7
  <1>10. count <= Len(data)
    <2> DEFINE P == {k \in Nat : k <= count => k <= o[k]}
    <2>1. 0 \in P
      BY <1>8
    <2>2. ASSUME NEW k \in Nat, k \in P PROVE k + 1 \in P
      <3> SUFFICES ASSUME k + 1 <= count PROVE k + 1 <= o[k + 1]
        OBVIOUS
      <3>1. k + 1 \in 1..count /\ (k + 1) - 1 = k /\ k \in 0..count /\ k + 1 \in 0..count
        BY <1>3
      <3>2. o[k] + 6 <= o[k + 1]
        BY <1>9, <3>1 DEF BLOCK_HEADER_SIZE
      <3>3. k <= o[k] /\ o[k] \in Nat /\ o[k + 1] \in Nat
        BY <1>3, <1>8, <2>2, <3>1
      <3> QED
        BY <3>2, <3>3
    <2>3. Nat \subseteq P
      <3> HIDE DEF P
      <3> QED
        BY <2>1, <2>2, Induction
    <2> QED
      BY <1>3, <1>7, <2>3
  <1> DEFINE state(k) == [offset |-> o[k], docs |-> {SubSeq(ids, 1, cut[k])}]
  <1>11. PICK f : f = [n \in 0..Len(data) |-> IF n <= count THEN state(n) ELSE state(count)]
    OBVIOUS
  <1>12. ASSUME NEW k \in 1..count PROVE decode_block(data, state(k - 1)) = state(k)
    <2>1. k - 1 \in 0..count /\ k \in 0..count
      BY <1>3
    <2>2. /\ o[k - 1] \in Nat /\ o[k] \in Nat /\ o[k] <= Len(data)
          /\ SubSeq(ids, 1, cut[k - 1]) \o chunks[k] = SubSeq(ids, 1, cut[k])
      BY <1>3, <1>8, <2>1
    <2>3. PICK p \in Nat, q \in Nat : p = o[k - 1] /\ q = o[k] /\ q <= Len(data)
      BY <2>2
    <2>3a. PICK before, all :
            /\ before = SubSeq(ids, 1, cut[k - 1]) /\ all = SubSeq(ids, 1, cut[k])
            /\ before \o chunks[k] = all
      BY <2>2
    <2>4. /\ BlockDocs(data, p) = {chunks[k]} /\ p + BLOCK_HEADER_SIZE + At(data, p + 4) = q
          /\ p + BLOCK_HEADER_SIZE <= q
      BY <1>9, <2>3, <2>3a
    <2>5. PICK docs : docs = chunks[k] /\ BlockAt(data, p, q, docs) /\ before \o docs = all
      BY <2>3, <2>3a, <2>4 DEF BlockAt
    <2>6. decode_block(data, [offset |-> p, docs |-> {before}]) = [offset |-> q, docs |-> {before \o docs}]
      <3>1. Decodes(data, p, q, docs)
        BY <1>8, <2>5, DecodeBlock
      <3> QED
        BY <3>1 DEF Decodes
    <2> QED
      BY <2>3, <2>3a, <2>5, <2>6
  <1>13. decode_block(data, state(count)) = state(count)
    <2>1. state(count).offset >= Len(data)
      BY <1>7, <1>8
    <2> HIDE DEF state
    <2> QED
      BY <2>1 DEF decode_block
  <1>14. After(data, f)
    <2>1. state(0) = [offset |-> 0, docs |-> {<<>>}]
      <3>1. SubSeq(ids, 1, 0) = <<>>
        BY SubSeqEmpty
      <3> QED
        BY <1>3, <1>8, <3>1
    <2> HIDE DEF state
    <2>2. 0 \in 0..Len(data) /\ f[0] = state(0)
      BY <1>3, <1>8, <1>11
    <2>3. ASSUME NEW n \in 0..Len(data), n # 0 PROVE f[n] = decode_block(data, f[n - 1])
      <3>1. n - 1 \in 0..Len(data)
        BY <1>8, <2>3
      <3>2. CASE n <= count
        <4>1. n \in 1..count /\ n - 1 <= count
          BY <1>3, <1>8, <2>3, <3>2
        <4>2. f[n] = state(n) /\ f[n - 1] = state(n - 1)
          BY <1>11, <3>1, <3>2, <4>1
        <4> QED
          BY <1>12, <4>1, <4>2
      <3>3. CASE ~(n <= count)
        <4>1. f[n] = state(count)
          BY <1>11, <3>3
        <4>2. f[n - 1] = state(count)
          <5>1. CASE n - 1 <= count
            <6>1. n - 1 = count
              BY <1>3, <1>8, <3>3, <5>1
            <6> QED
              BY <1>11, <3>1, <5>1, <6>1
          <5>2. CASE ~(n - 1 <= count)
            BY <1>11, <3>1, <5>2
          <5> QED
            BY <5>1, <5>2
        <4> QED
          BY <1>13, <4>1, <4>2
      <3> QED
        BY <3>2, <3>3
    <2>4. DOMAIN f = 0..Len(data)
      BY <1>11
    <2>5. f = [n \in 0..Len(data) |-> f[n]]
      BY <1>11
    <2>6. \A n \in 0..Len(data) : f[n] = IF n = 0 THEN [offset |-> 0, docs |-> {<<>>}]
                                         ELSE decode_block(data, f[n - 1])
      BY <2>1, <2>2, <2>3
    <2> QED
      BY <2>5, <2>6 DEF After
  <1>15. f[Len(data)] = state(count)
    <2>1. Len(data) \in 0..Len(data) /\ (Len(data) <= count => Len(data) = count)
      BY <1>3, <1>8, <1>10
    <2> HIDE DEF state
    <2> QED
      BY <1>11, <2>1
  <1>16. state(count).docs = {ids}
    <2>1. SubSeq(ids, 1, Len(ids)) = ids
      BY SubSeqFull DEF SortedList
    <2> QED
      BY <1>3, <2>1
  <1> QED
    BY <1>6, <1>7, <1>8, <1>14, <1>15, <1>16, DecodeRuns
-----------------------------------------------------------------------------
(***************************************************************************)
(* The segment file: where its sections are, and what a reader finds.      *)
(***************************************************************************)

\* Where sequences of the same length are in their concatenation.
LEMMA UniformLayout ==
  ASSUME NEW V, NEW ss \in Seq(Seq(V)), NEW w \in Nat, \A i \in 1..Len(ss) : Len(ss[i]) = w
  PROVE  Layout([i \in 0..Len(ss) |-> w * i], ss)
  <1>1. PICK n \in Nat : n = Len(ss)
    BY LenProperties
  <1>2. PICK o : o = [i \in 0..n |-> w * i]
    OBVIOUS
  <1>3. \A i \in 0..n : w * i \in Nat
    OBVIOUS
  <1>4. o \in [0..n -> Nat]
    BY <1>2, <1>3
  <1>5. o[0] = 0
    <2>1. 0 \in 0..n /\ w * 0 = 0
      OBVIOUS
    <2> QED
      BY <1>2, <2>1
  <1>6. ASSUME NEW i \in 1..n PROVE o[i] = o[i - 1] + Len(ss[i])
    <2>1. PICK j \in Nat : j = i - 1 /\ i = j + 1 /\ i \in 0..n /\ j \in 0..n
      <3>1. i - 1 \in Nat /\ i = (i - 1) + 1 /\ i \in 0..n /\ i - 1 \in 0..n
        OBVIOUS
      <3> QED
        BY <3>1
    <2>2. w * (j + 1) = w * j + w
      OBVIOUS
    <2>3. o[i] = w * (j + 1) /\ o[i - 1] = w * j
      BY <1>2, <2>1
    <2>4. Len(ss[i]) = w
      BY <1>1
    <2> QED
      BY <2>2, <2>3, <2>4
  <1> QED
    BY <1>1, <1>2, <1>4, <1>5, <1>6 DEF Layout

\* Two sequences, one after the other.
Joined(c, a, b) ==
  /\ Len(c) = Len(a) + Len(b)
  /\ \A k \in 1..Len(a) : c[k] = a[k]
  /\ \A k \in 1..Len(b) : c[Len(a) + k] = b[k]

\* Where the elements of two sequences are in their concatenation.
LEMMA AfterEachOther ==
  ASSUME NEW V, NEW a \in Seq(V), NEW b \in Seq(V)
  PROVE  a \o b \in Seq(V) /\ Joined(a \o b, a, b)
  <1>0. PICK c : c = a \o b
    OBVIOUS
  <1>1. PICK m \in Nat, n \in Nat : m = Len(a) /\ n = Len(b)
    BY LenProperties
  <1>2. /\ c \in Seq(V) /\ Len(c) = m + n
        /\ \A i \in 1..m + n : c[i] = IF i <= m THEN a[i] ELSE b[i - m]
    BY <1>0, <1>1, ConcatProperties
  <1>3. \A k \in 1..m : k \in 1..m + n /\ k <= m
    OBVIOUS
  <1>4. \A k \in 1..n : m + k \in 1..m + n /\ ~(m + k <= m) /\ (m + k) - m = k
    OBVIOUS
  <1>5. \A k \in 1..m : c[k] = a[k]
    BY <1>2, <1>3
  <1>6. \A k \in 1..n : c[m + k] = b[k]
    BY <1>2, <1>4
  <1> QED
    BY <1>0, <1>1, <1>2, <1>5, <1>6 DEF Joined

IsCounted(part, n, slots) ==
  /\ Len(part) = 1 + Len(slots) /\ part[1] = U(n)
  /\ \A k \in 1..Len(slots) : part[1 + k] = slots[k]

\* Where the slots of a section are that begins with their number.
LEMMA CountedPart ==
  ASSUME NEW V, NEW n, U(n) \in V, NEW slots \in Seq(V)
  PROVE  Counted(n, slots) \in Seq(V) /\ IsCounted(Counted(n, slots), n, slots)
  <1>1. PICK head : head = <<U(n)>>
    OBVIOUS
  <1>2. head \in Seq(V) /\ Len(head) = 1 /\ head[1] = U(n)
    BY <1>1
  <1>3. Counted(n, slots) \in Seq(V) /\ Joined(Counted(n, slots), head, slots)
    <2>1. Counted(n, slots) = head \o slots
      BY <1>1 DEF Counted
    <2>2. head \o slots \in Seq(V) /\ Joined(head \o slots, head, slots)
      BY <1>2, AfterEachOther
    <2> QED
      BY <2>1, <2>2
  <1>4. 1 \in 1..1
    OBVIOUS
  <1> QED
    BY <1>2, <1>3, <1>4 DEF Joined, IsCounted

\* The sections of a file, and the offsets, the checksum and the magic after them.
Footed(file, sections, o) ==
  /\ Len(file) = o[8] + 8
  /\ \A i \in 1..8 : InPlace(file, o[i - 1], sections[i])
  /\ \A n \in 1..6 : file[o[8] + n] = U(o[<<2, 7, 4, 5, 3, 8>>[n] - 1])
  /\ file[o[8] + 7] = Crc(SubSeq(file, 1, o[8] + 6)) /\ file[o[8] + 8] = Magic

\* build: the sections lie one after another and the footer has their offsets,
\* the checksum of all before it, and the magic number.
LEMMA FileIsFooted ==
  ASSUME NEW V, NEW sections \in Seq(Seq(V)), Len(sections) = 8, NEW o, Layout(o, sections)
  PROVE  /\ Footed(Checked(WithOffsets(sections)), sections, o)
         /\ \E W : Checked(WithOffsets(sections)) \in Seq(W)
  <1>1. PICK body : body = FlattenSeq(sections)
    OBVIOUS
  <1>2. /\ body \in Seq(V) /\ Len(body) = o[8]
        /\ \A i \in 1..8 : \A k \in 1..Len(sections[i]) : body[o[i - 1] + k] = sections[i][k]
    <2>1. FlattenSeq(sections) \in Seq(V) /\ Flattened(FlattenSeq(sections), o, sections)
      BY FlattenLayout
    <2> QED
      BY <1>1, <2>1 DEF Flattened
  <1>3. PICK offsets : offsets = [n \in 1..6 |-> U(o[<<2, 7, 4, 5, 3, 8>>[n] - 1])]
    OBVIOUS
  <1>4. PICK slots : slots = WithOffsets(sections)
    OBVIOUS
  <1>5. slots = body \o offsets
    <2> DEFINE section(n) == <<2, 7, 4, 5, 3, 8>>[n]
    <2>1. ASSUME NEW n \in 1..6
          PROVE  Len(FlattenSeq(SubSeq(sections, 1, section(n) - 1))) = o[section(n) - 1]
      <3>1. section(n) \in 1..8 /\ section(n) - 1 \in 0..8
        OBVIOUS
      <3>2. PICK m : m = section(n) - 1 /\ m \in 0..Len(sections)
        BY <3>1
      <3>3. Len(FlattenSeq(SubSeq(sections, 1, m))) = o[m]
        <4>1. PrefixLengths(o, sections)
          BY PrefixLength
        <4> QED
          BY <3>2, <4>1 DEF PrefixLengths
      <3> HIDE DEF section
      <3> QED
        BY <3>2, <3>3
    <2>2. WithOffsets(sections)
            = body \o [n \in 1..6 |-> U(Len(FlattenSeq(SubSeq(sections, 1, section(n) - 1))))]
      BY <1>1 DEF WithOffsets
    <2>3. offsets = [n \in 1..6 |-> U(o[section(n) - 1])]
      BY <1>3
    <2> HIDE DEF section
    <2> QED
      BY <1>4, <2>1, <2>2, <2>3
  <1>6. PICK W : W = V \cup {offsets[n] : n \in 1..6} \cup {Crc(slots), Magic}
    OBVIOUS
  <1>7. body \in Seq(W) /\ offsets \in Seq(W) /\ Len(offsets) = 6
    <2>1. V \subseteq W /\ \A n \in 1..6 : offsets[n] \in W
      BY <1>6
    <2>2. body \in Seq(W)
      BY <1>2, <2>1, SeqMonotonic
    <2>3. offsets \in [1..6 -> W]
      BY <1>3, <2>1
    <2>4. offsets \in Seq(W) /\ Len(offsets) = 6
      <3>1. PICK n \in Nat : n = 6
        OBVIOUS
      <3>2. offsets \in [1..n -> W]
        BY <2>3, <3>1
      <3>3. offsets \in Seq(W) /\ Len(offsets) = n
        BY <3>2
      <3> QED
        BY <3>1, <3>3
    <2> QED
      BY <2>2, <2>4
  <1>8. PICK l \in Nat : l = o[8] /\ l = Len(body)
    BY <1>2, LenProperties
  <1>9. /\ slots \in Seq(W) /\ Len(slots) = l + 6
        /\ \A k \in 1..l : slots[k] = body[k]
        /\ \A k \in 1..6 : slots[l + k] = offsets[k]
    <2>1. body \o offsets \in Seq(W) /\ Joined(body \o offsets, body, offsets)
      BY <1>7, AfterEachOther
    <2> QED
      BY <1>5, <1>7, <1>8, <2>1 DEF Joined
  <1>10. PICK file, end : file = Checked(slots) /\ end = <<Crc(slots), Magic>>
    OBVIOUS
  <1>11. end \in Seq(W) /\ Len(end) = 2 /\ end[1] = Crc(slots) /\ end[2] = Magic
    BY <1>6, <1>10
  <1>12. /\ file \in Seq(W) /\ Len(file) = (l + 6) + 2
         /\ \A k \in 1..l + 6 : file[k] = slots[k]
         /\ \A k \in 1..2 : file[(l + 6) + k] = end[k]
    <2>1. file = slots \o end
      BY <1>10 DEF Checked
    <2> QED
      <3>1. slots \o end \in Seq(W) /\ Joined(slots \o end, slots, end)
        BY <1>9, <1>11, AfterEachOther
      <3> QED
        BY <1>9, <1>11, <2>1, <3>1 DEF Joined
  <1>13. Len(file) = o[8] + 8
    BY <1>8, <1>12
  <1>14. ASSUME NEW i \in 1..8 PROVE InPlace(file, o[i - 1], sections[i])
    <2>1. i - 1 \in 0..8 /\ i \in 0..8 /\ 8 \in 0..8 /\ i <= 8
      OBVIOUS
    <2>2. o[i - 1] \in Nat /\ o[i] = o[i - 1] + Len(sections[i]) /\ o[i] \in Nat /\ o[i] <= o[8]
      BY <2>1, LayoutGrows DEF Layout
    <2>3. PICK p \in Nat : p = o[i - 1]
      BY <2>2
    <2>4. PICK m \in Nat : m = Len(sections[i]) /\ p + m <= l
      BY <1>8, <2>2, <2>3, LenProperties, ElementOfSeq
    <2>5. p + m <= Len(file)
      BY <1>12, <2>4
    <2>6. \A k \in 1..m : p + k \in 1..l /\ p + k \in 1..l + 6
      BY <2>4
    <2>7. \A k \in 1..m : body[p + k] = sections[i][k]
      BY <1>2, <2>3, <2>4
    <2>8. \A k \in 1..m : file[p + k] = sections[i][k]
      BY <1>9, <1>12, <2>6, <2>7
    <2> QED
      BY <2>3, <2>4, <2>5, <2>8 DEF InPlace
  <1>15. \A n \in 1..6 : file[o[8] + n] = U(o[<<2, 7, 4, 5, 3, 8>>[n] - 1])
    <2>1. \A n \in 1..6 : l + n \in 1..l + 6
      OBVIOUS
    <2>2. \A n \in 1..6 : file[l + n] = offsets[n]
      BY <1>9, <1>12, <2>1
    <2> QED
      BY <1>3, <1>8, <2>2
  <1>16. file[o[8] + 7] = Crc(SubSeq(file, 1, o[8] + 6)) /\ file[o[8] + 8] = Magic
    <2>1. 1 \in 1..2 /\ 2 \in 1..2 /\ (l + 6) + 1 = l + 7 /\ (l + 6) + 2 = l + 8
      OBVIOUS
    <2>2. file[l + 7] = Crc(slots) /\ file[l + 8] = Magic
      BY <1>11, <1>12, <2>1
    <2>3. SubSeq(file, 1, l + 6) = slots
      <3>1. 0 + (l + 6) <= Len(file) /\ \A k \in 1..l + 6 : 0 + k = k
        BY <1>12
      <3>2. InPlace(file, 0, slots)
        BY <1>9, <1>12, <3>1 DEF InPlace
      <3>3. Slice(file, 0, l + 6) = slots
        BY <1>9, <3>2, SliceInPlace
      <3> QED
        BY <3>3 DEF Slice
    <2> QED
      BY <1>8, <2>2, <2>3
  <1>17. Footed(file, sections, o)
    BY <1>13, <1>14, <1>15, <1>16 DEF Footed
  <1> QED
    BY <1>4, <1>10, <1>12, <1>17

FileSlots(F) ==
  Slots \cup ({"path"} \X F) \cup ({"key"} \X [key : Seq(Nat), ordinal : Nat]) \cup {Magic}

\* The type of a number in a file.
LEMMA NumbersAreSlots ==
  ASSUME NEW F PROVE \A n \in Nat : U(n) \in FileSlots(F)
  BY DEF U, Slots, FileSlots

\* write_file_table and parse_file_table.
LEMMA FileTableIsFound ==
  ASSUME NEW F, NEW files \in Seq(F)
  PROVE  /\ write_file_table(files) \in Seq(FileSlots(F))
         /\ Len(write_file_table(files)) = 1 + 2 * Len(files)
         /\ \A file : \A offset \in Nat :
              InPlace(file, offset, write_file_table(files)) /\ file_table_offset(file) = offset
                => parse_file_table(file) = files
  <1>1. PICK n \in Nat : n = Len(files) /\ DOMAIN files = 1..n /\ files \in [1..n -> F]
    BY LenProperties
  <1>2. PICK V : V = FileSlots(F) /\ \A i \in Nat : U(i) \in V
    BY NumbersAreSlots
  <1>3. PICK numbers, paths :
          /\ numbers = [i \in 1..n |-> U(i - 1)] /\ paths = [i \in 1..n |-> <<"path", files[i]>>]
    OBVIOUS
  <1>4. numbers \in Seq(V) /\ Len(numbers) = n /\ \A i \in 1..n : numbers[i] = U(i - 1)
    <2>1. \A i \in 1..n : i - 1 \in Nat
      OBVIOUS
    <2>2. numbers \in [1..n -> V]
      BY <1>2, <1>3, <2>1
    <2> QED
      BY <1>3, <2>2
  <1>5. paths \in Seq(V) /\ Len(paths) = n /\ \A i \in 1..n : paths[i] = <<"path", files[i]>>
    <2>1. \A i \in 1..n : <<"path", files[i]>> \in V
      BY <1>1, <1>2 DEF FileSlots
    <2>2. paths \in [1..n -> V]
      BY <1>3, <2>1
    <2> QED
      BY <1>3, <2>2
  <1>6. PICK slots : slots = numbers \o paths
    OBVIOUS
  <1>7. /\ slots \in Seq(V) /\ Len(slots) = n + n
        /\ \A i \in 1..n : slots[i] = U(i - 1) /\ slots[n + i] = <<"path", files[i]>>
    <2>1. numbers \o paths \in Seq(V) /\ Joined(numbers \o paths, numbers, paths)
      BY <1>4, <1>5, AfterEachOther
    <2> QED
      BY <1>4, <1>5, <1>6, <2>1 DEF Joined
  <1>8. PICK part : part = write_file_table(files)
    OBVIOUS
  <1>9. /\ part \in Seq(V) /\ Len(part) = 1 + (n + n) /\ part[1] = U(n)
        /\ \A k \in 1..n + n : part[1 + k] = slots[k]
    <2>1. part = Counted(n, slots)
      BY <1>1, <1>3, <1>6, <1>8 DEF write_file_table
    <2>2. U(n) \in V
      BY <1>2
    <2>3. Counted(n, slots) \in Seq(V) /\ IsCounted(Counted(n, slots), n, slots)
      BY <1>7, <2>2, CountedPart
    <2> QED
      BY <1>7, <2>1, <2>3 DEF IsCounted
  <1>10. ASSUME NEW file, NEW offset \in Nat, InPlace(file, offset, part), file_table_offset(file) = offset
         PROVE  parse_file_table(file) = files
    <2>1. \A k \in 1..1 + (n + n) : file[offset + k] = part[k]
      BY <1>9, <1>10 DEF InPlace
    <2>2. At(file, offset) = n
      <3>1. 1 \in 1..1 + (n + n)
        OBVIOUS
      <3> QED
        BY <1>9, <2>1, <3>1 DEF At, U
    <2>3. ASSUME NEW i \in 1..n
          PROVE  At(file, offset + 1 + n + At(file, offset + i)) = files[i]
      <3>1. /\ 1 + i \in 1..1 + (n + n) /\ 1 + (n + i) \in 1..1 + (n + n)
            /\ i \in 1..n + n /\ n + i \in 1..n + n
        OBVIOUS
      <3>2. file[offset + (1 + i)] = U(i - 1) /\ file[offset + (1 + (n + i))] = <<"path", files[i]>>
        BY <1>7, <1>9, <2>1, <3>1
      <3>3. offset + (1 + i) = (offset + i) + 1
        OBVIOUS
      <3>4. At(file, offset + i) = i - 1
        BY <3>2, <3>3, AtNumber
      <3>5. offset + 1 + n + (i - 1) + 1 = offset + (1 + (n + i))
        OBVIOUS
      <3> QED
        BY <3>2, <3>4, <3>5 DEF At
    <2>4. parse_file_table(file) = [i \in 1..n |-> At(file, offset + 1 + n + At(file, offset + i))]
      BY <1>10, <2>2 DEF parse_file_table
    <2>5. parse_file_table(file) = [i \in 1..n |-> files[i]]
      BY <2>3, <2>4
    <2> QED
      BY <1>1, <2>5
  <1> QED
    BY <1>1, <1>2, <1>8, <1>9, <1>10

PageEntry == [file_ordinal : Nat, row_group : Nat, first_row_index : Nat, row_count : Nat]

\* Records of a fixed width after a number: field k of record i.
FieldsAt(file, offset, rows, width) ==
  /\ At(file, offset) = Len(rows)
  /\ \A i \in 1..Len(rows) : \A k \in 1..width :
       file[offset + 1 + width * (i - 1) + k] = rows[i][k]

\* A table of rows of one width: field k of row i is at offset + 1 + width * i + k.
LEMMA RowsAreFound ==
  ASSUME NEW V, NEW rows \in Seq(Seq(V)), NEW width \in Nat, U(Len(rows)) \in V,
         \A i \in 1..Len(rows) : Len(rows[i]) = width,
         NEW part, part = Counted(Len(rows), FlattenSeq(rows))
  PROVE  /\ part \in Seq(V) /\ Len(part) = 1 + width * Len(rows)
         /\ \A file : \A offset \in Nat :
              InPlace(file, offset, part) => FieldsAt(file, offset, rows, width)
  <1>1. PICK n \in Nat : n = Len(rows)
    BY LenProperties
  <1>2. PICK o : o = [i \in 0..n |-> width * i] /\ Layout(o, rows)
    BY <1>1, UniformLayout
  <1>3. PICK flat : flat = FlattenSeq(rows) /\ flat \in Seq(V) /\ Flattened(flat, o, rows)
    BY <1>2, FlattenLayout
  <1>4. Len(flat) = width * n
    <2>1. n \in 0..n
      OBVIOUS
    <2> QED
      BY <1>1, <1>2, <1>3, <2>1 DEF Flattened
  <1>5. PICK m \in Nat : m = width * n
    OBVIOUS
  <1>6. /\ part \in Seq(V) /\ Len(part) = 1 + m /\ part[1] = U(n)
        /\ \A k \in 1..m : part[1 + k] = flat[k]
    <2>1. part = Counted(n, flat) /\ U(n) \in V /\ flat \in Seq(V)
      BY <1>1, <1>3
    <2>2. Counted(n, flat) \in Seq(V) /\ IsCounted(Counted(n, flat), n, flat)
      BY <2>1, CountedPart
    <2> QED
      BY <1>4, <1>5, <2>1, <2>2 DEF IsCounted
  <1>7. ASSUME NEW file, NEW offset \in Nat, InPlace(file, offset, part)
        PROVE  FieldsAt(file, offset, rows, width)
    <2>1. \A k \in 1..1 + m : file[offset + k] = part[k]
      BY <1>6, <1>7 DEF InPlace
    <2>2. At(file, offset) = n
      <3>1. 1 \in 1..1 + m
        OBVIOUS
      <3> QED
        BY <1>6, <2>1, <3>1 DEF At, U
    <2>3. ASSUME NEW i \in 1..n, NEW k \in 1..width
          PROVE  file[offset + 1 + width * (i - 1) + k] = rows[i][k]
      <3>1. PICK j \in Nat : j = i - 1 /\ j \in 0..n /\ j < n
        <4>1. i - 1 \in Nat /\ i - 1 \in 0..n /\ i - 1 < n
          OBVIOUS
        <4> QED
          BY <4>1
      <3>2. PICK x \in Nat : x = width * j
        OBVIOUS
      <3>3. x + width <= m
        <4>1. j * width + width <= n * width
          BY <3>1, TimesLess
        <4>2. j * width = width * j /\ n * width = width * n
          OBVIOUS
        <4> QED
          BY <1>5, <3>2, <4>1, <4>2
      <3>4. x + k \in 1..m /\ 1 + (x + k) \in 1..1 + m
        BY <3>3
      <3>5. o[i - 1] = x /\ Len(rows[i]) = width
        BY <1>1, <1>2, <3>1, <3>2
      <3>6. flat[x + k] = rows[i][k]
        BY <1>1, <1>3, <3>5 DEF Flattened
      <3>7. file[offset + (1 + (x + k))] = rows[i][k]
        BY <1>6, <2>1, <3>4, <3>6
      <3>8. offset + (1 + (x + k)) = offset + 1 + x + k
        OBVIOUS
      <3> QED
        BY <3>1, <3>2, <3>7, <3>8
    <2> QED
      BY <1>1, <2>2, <2>3 DEF FieldsAt
  <1> QED
    BY <1>1, <1>5, <1>6, <1>7

\* parse_doc_table undoes the writing of the doc table.
LEMMA DocTableIsFound ==
  ASSUME NEW F, NEW table \in Seq(PageEntry),
         NEW part, part = Counted(Len(table), FlattenSeq(DocTable(table)))
  PROVE  /\ part \in Seq(FileSlots(F)) /\ Len(part) \in Nat
         /\ \A file : \A offset \in Nat :
              InPlace(file, offset, part) /\ doc_table_offset(file) = offset
                => parse_doc_table(file) = table
  <1>1. PICK n \in Nat : n = Len(table) /\ DOMAIN table = 1..n /\ table \in [1..n -> PageEntry]
    BY LenProperties
  <1>2. PICK V : V = FileSlots(F) /\ \A i \in Nat : U(i) \in V
    BY NumbersAreSlots
  <1>3. PICK rows : rows = DocTable(table)
    OBVIOUS
  <1>4. ASSUME NEW d \in 1..n
        PROVE  /\ table[d] \in PageEntry
               /\ table[d].file_ordinal \in Nat /\ table[d].row_group \in Nat
               /\ table[d].first_row_index \in Nat /\ table[d].row_count \in Nat
    <2>1. table[d] \in PageEntry
      BY <1>1
    <2> QED
      BY <2>1 DEF PageEntry
  <1>5. rows = [d \in 1..n |->
                  <<U(table[d].file_ordinal), U(table[d].row_group),
                    U(table[d].first_row_index), U(table[d].row_count)>>]
    BY <1>1, <1>3 DEF DocTable
  <1>6. ASSUME NEW d \in 1..n
        PROVE  /\ rows[d] \in Seq(V) /\ Len(rows[d]) = 4
               /\ rows[d][1] = U(table[d].file_ordinal) /\ rows[d][2] = U(table[d].row_group)
               /\ rows[d][3] = U(table[d].first_row_index) /\ rows[d][4] = U(table[d].row_count)
    <2>1. PICK a \in V, b \in V, c \in V, e \in V :
            /\ a = U(table[d].file_ordinal) /\ b = U(table[d].row_group)
            /\ c = U(table[d].first_row_index) /\ e = U(table[d].row_count)
      BY <1>2, <1>4
    <2>2. rows[d] = <<a, b, c, e>>
      BY <1>5, <2>1
    <2>3. <<a, b, c, e>> \in Seq(V) /\ Len(<<a, b, c, e>>) = 4
      OBVIOUS
    <2> QED
      BY <2>1, <2>2, <2>3
  <1>7. rows \in Seq(Seq(V)) /\ Len(rows) = n
    <2>1. rows \in [1..n -> Seq(V)]
      BY <1>5, <1>6
    <2> QED
      BY <2>1
  <1>8. /\ part \in Seq(V) /\ Len(part) = 1 + 4 * n
        /\ \A file : \A offset \in Nat : InPlace(file, offset, part) => FieldsAt(file, offset, rows, 4)
    <2>1. part = Counted(Len(rows), FlattenSeq(rows)) /\ U(Len(rows)) \in V
      BY <1>1, <1>2, <1>3, <1>7
    <2>2. PICK w \in Nat : w = 4
      OBVIOUS
    <2>3. \A d \in 1..Len(rows) : Len(rows[d]) = w
      BY <1>6, <1>7, <2>2
    <2>4. /\ part \in Seq(V) /\ Len(part) = 1 + w * Len(rows)
          /\ \A file : \A offset \in Nat : InPlace(file, offset, part) => FieldsAt(file, offset, rows, w)
      BY <1>7, <2>1, <2>3, RowsAreFound
    <2> QED
      BY <1>7, <2>2, <2>4
  <1>9. ASSUME NEW file, NEW offset \in Nat, InPlace(file, offset, part), doc_table_offset(file) = offset
        PROVE  parse_doc_table(file) = table
    <2>1. FieldsAt(file, offset, rows, 4)
      BY <1>8, <1>9
    <2>2. At(file, offset) = n
      BY <1>7, <2>1 DEF FieldsAt
    <2> DEFINE field(d, k) == At(file, offset + 1 + 4 * (d - 1) + k)
    <2>3. ASSUME NEW d \in 1..n
          PROVE  [file_ordinal |-> field(d, 0), row_group |-> field(d, 1),
                  first_row_index |-> field(d, 2), row_count |-> field(d, 3)] = table[d]
      <3>1. PICK x \in Nat : x = offset + 1 + 4 * (d - 1)
        OBVIOUS
      <3>2. \A k \in 1..4 : file[x + k] = rows[d][k]
        BY <1>7, <2>1, <3>1 DEF FieldsAt
      <3>3. /\ file[x + 1] = U(table[d].file_ordinal) /\ file[x + 2] = U(table[d].row_group)
            /\ file[x + 3] = U(table[d].first_row_index) /\ file[x + 4] = U(table[d].row_count)
        <4>1. 1 \in 1..4 /\ 2 \in 1..4 /\ 3 \in 1..4 /\ 4 \in 1..4
          OBVIOUS
        <4>2. file[x + 1] = rows[d][1] /\ file[x + 2] = rows[d][2]
                /\ file[x + 3] = rows[d][3] /\ file[x + 4] = rows[d][4]
          BY <3>2, <4>1
        <4> QED
          BY <1>6, <4>2
      <3>4. (x + 0) + 1 = x + 1 /\ (x + 1) + 1 = x + 2 /\ (x + 2) + 1 = x + 3 /\ (x + 3) + 1 = x + 4
        OBVIOUS
      <3>5. /\ field(d, 0) = table[d].file_ordinal /\ field(d, 1) = table[d].row_group
            /\ field(d, 2) = table[d].first_row_index /\ field(d, 3) = table[d].row_count
        BY <3>1, <3>3, <3>4 DEF At, U
      <3>6. table[d] = [file_ordinal |-> table[d].file_ordinal, row_group |-> table[d].row_group,
                        first_row_index |-> table[d].first_row_index, row_count |-> table[d].row_count]
        BY <1>4 DEF PageEntry
      <3> HIDE DEF field
      <3> QED
        BY <3>5, <3>6
    <2>4. parse_doc_table(file) =
            [d \in 1..n |-> [file_ordinal |-> field(d, 0), row_group |-> field(d, 1),
                             first_row_index |-> field(d, 2), row_count |-> field(d, 3)]]
      BY <1>9, <2>2 DEF parse_doc_table
    <2> HIDE DEF field
    <2>5. parse_doc_table(file) = [d \in 1..n |-> table[d]]
      BY <2>3, <2>4
    <2> QED
      BY <1>1, <2>5
  <1> QED
    BY <1>2, <1>8, <1>9

\* The terms of a dictionary, in their order.
Fst(terms) == [n \in 1..Len(terms) |-> [key |-> Chars[terms[n]], ordinal |-> n - 1]]

\* parse_fst undoes the writing of the forward dictionary.
LEMMA FstIsFound ==
  ASSUME NEW F, NEW terms \in Seq(DOMAIN Chars),
         NEW part, part = Counted(Len(terms), ForwardFst(terms))
  PROVE  /\ part \in Seq(FileSlots(F)) /\ Len(part) \in Nat
         /\ \A file : \A offset \in Nat :
              InPlace(file, offset, part) => parse_fst(file, offset) = Fst(terms)
  <1>1. PICK n \in Nat : n = Len(terms) /\ DOMAIN terms = 1..n /\ terms \in [1..n -> DOMAIN Chars]
    BY LenProperties
  <1>2. PICK V : V = FileSlots(F) /\ \A i \in Nat : U(i) \in V
    BY NumbersAreSlots
  <1>3. PICK keys : keys = ForwardFst(terms)
    OBVIOUS
  <1>4. keys = [i \in 1..n |-> <<"key", [key |-> Chars[terms[i]], ordinal |-> i - 1]>>]
    BY <1>1, <1>3 DEF ForwardFst, FstKey
  <1>5. \A i \in 1..n : <<"key", [key |-> Chars[terms[i]], ordinal |-> i - 1]>> \in V
    <2>1. \A i \in 1..n : Chars[terms[i]] \in Seq(Nat) /\ i - 1 \in Nat
      BY <1>1, SegmentFileAssumption
    <2> QED
      BY <1>2, <2>1 DEF FileSlots
  <1>6. keys \in Seq(V) /\ Len(keys) = n
    <2>1. keys \in [1..n -> V]
      BY <1>4, <1>5
    <2> QED
      BY <2>1
  <1>7. part \in Seq(V) /\ IsCounted(part, n, keys)
    <2>1. U(n) \in V
      BY <1>2
    <2>2. Counted(n, keys) \in Seq(V) /\ IsCounted(Counted(n, keys), n, keys)
      BY <1>6, <2>1, CountedPart
    <2> QED
      BY <1>1, <1>3, <2>2
  <1>8. ASSUME NEW file, NEW offset \in Nat, InPlace(file, offset, part)
        PROVE  parse_fst(file, offset) = Fst(terms)
    <2>1. \A k \in 1..1 + n : file[offset + k] = part[k]
      BY <1>6, <1>7, <1>8 DEF InPlace, IsCounted
    <2>2. At(file, offset) = n
      <3>1. 1 \in 1..1 + n
        OBVIOUS
      <3> QED
        BY <1>7, <2>1, <3>1 DEF At, U, IsCounted
    <2>3. ASSUME NEW i \in 1..n PROVE At(file, offset + i) = Fst(terms)[i]
      <3>1. 1 + i \in 1..1 + n /\ offset + (1 + i) = offset + i + 1
        OBVIOUS
      <3>2. file[offset + i + 1] = keys[i]
        BY <1>6, <1>7, <2>1, <3>1 DEF IsCounted
      <3> QED
        BY <1>1, <1>4, <3>2 DEF At, Fst
    <2>4. parse_fst(file, offset) = [i \in 1..n |-> At(file, offset + i)]
      BY <2>2 DEF parse_fst
    <2>5. parse_fst(file, offset) = [i \in 1..n |-> Fst(terms)[i]]
      BY <2>3, <2>4
    <2>6. Fst(terms) = [i \in 1..n |-> Fst(terms)[i]]
      BY <1>1 DEF Fst
    <2> QED
      BY <2>5, <2>6
  <1> QED
    BY <1>2, <1>6, <1>7, <1>8 DEF IsCounted

\* A segment that can be written: what SegmentBuilder is given.
IsSegment(segment) ==
  /\ DOMAIN segment.postings \in SUBSET DOMAIN Chars /\ IsFiniteSet(DOMAIN segment.postings)
  /\ segment.postings = [t \in DOMAIN segment.postings |-> segment.postings[t]]
  /\ \A t \in DOMAIN segment.postings : SortedList(segment.postings[t])
  /\ segment.doc_frequency \in [DOMAIN segment.postings -> Nat]
  /\ segment.doc_table \in Seq(PageEntry)
  /\ segment.total_rows \in Nat /\ segment.total_tokens \in Nat

EncodedLists(segment, terms) == [n \in DOMAIN terms |-> encode(segment.postings[terms[n]])]

\* The terms of a segment and their encoded posting lists.
TermsFit(segment, terms, encoded) ==
  /\ terms \in Seq(DOMAIN Chars) /\ Len(terms) \in Nat /\ DOMAIN terms = 1..Len(terms)
  /\ \A i \in 1..Len(terms) : terms[i] \in DOMAIN segment.postings
  /\ \A t \in DOMAIN segment.postings : \E i \in 1..Len(terms) : terms[i] = t
  /\ \A i, j \in 1..Len(terms) : terms[i] = terms[j] => i = j
  /\ encoded \in Seq(Seq(Slots)) /\ Len(encoded) = Len(terms)
  /\ \A i \in 1..Len(terms) : /\ encoded[i] \in Seq(Slots) /\ Len(encoded[i]) \in Nat
                              /\ decode(encoded[i]) = {segment.postings[terms[i]]}

\* build: the terms in their order, each once, with their encoded posting lists.
LEMMA TermsOfSegment ==
  ASSUME NEW segment, IsSegment(segment), NEW terms, terms = Ascending(DOMAIN segment.postings),
         NEW encoded, encoded = EncodedLists(segment, terms)
  PROVE  TermsFit(segment, terms, encoded)
  <1>1. PICK T : T = DOMAIN segment.postings
    OBVIOUS
  <1>2. T \in SUBSET Nat /\ IsFiniteSet(T) /\ T \subseteq DOMAIN Chars
    <2>1. DOMAIN Chars \subseteq Nat
      BY SegmentFileAssumption
    <2>2. T \subseteq DOMAIN Chars /\ IsFiniteSet(T)
      BY <1>1 DEF IsSegment
    <2> QED
      BY <2>1, <2>2
  <1>3. SortedList(terms) /\ ToSet(terms) = T
    BY <1>1, <1>2, AscendingIsExact
  <1>4. PICK n \in Nat : n = Len(terms) /\ DOMAIN terms = 1..n /\ terms \in Seq(Nat)
    BY <1>3, LenProperties DEF SortedList
  <1>5. T = {terms[i] : i \in 1..n}
    BY <1>3, <1>4, SetOfList
  <1>6. \A i, j \in 1..n : i < j => terms[i] < terms[j]
    BY <1>3, <1>4, Sorted DEF SortedList
  <1>7. \A i \in 1..n : terms[i] \in Nat /\ terms[i] \in T
    BY <1>2, <1>5
  <1>8. \A i, j \in 1..n : terms[i] = terms[j] => i = j
    <2> SUFFICES ASSUME NEW i \in 1..n, NEW j \in 1..n, terms[i] = terms[j] PROVE i = j
      OBVIOUS
    <2>1. terms[i] \in Nat
      BY <1>7
    <2>2. ~(i < j) /\ ~(j < i)
      BY <1>6, <2>1
    <2> QED
      BY <2>2
  <1>9. terms \in Seq(DOMAIN Chars)
    <2>1. terms = [i \in 1..n |-> terms[i]]
      BY <1>4
    <2>2. \A i \in 1..n : terms[i] \in DOMAIN Chars
      BY <1>2, <1>7
    <2>3. [i \in 1..n |-> terms[i]] \in Seq(DOMAIN Chars)
      BY <2>2
    <2> QED
      BY <2>1, <2>3
  <1>10. encoded = [i \in 1..n |-> encode(segment.postings[terms[i]])]
    BY <1>4 DEF EncodedLists
  <1>11. ASSUME NEW i \in 1..n
         PROVE  encoded[i] \in Seq(Slots) /\ decode(encoded[i]) = {segment.postings[terms[i]]}
    <2>1. PICK ids : ids = segment.postings[terms[i]] /\ SortedList(ids)
      BY <1>1, <1>7 DEF IsSegment
    <2>2. encode(ids) \in Seq(Slots) /\ decode(encode(ids)) = {ids}
      BY <2>1, DecodeUndoesEncode
    <2> QED
      BY <1>10, <2>1, <2>2
  <1>12. encoded \in Seq(Seq(Slots)) /\ Len(encoded) = n
    <2>1. encoded \in [1..n -> Seq(Slots)]
      BY <1>10, <1>11
    <2> QED
      BY <2>1
  <1>13. \A i \in 1..n : Len(encoded[i]) \in Nat
    BY <1>11, LenProperties
  <1>14. \A t \in T : \E i \in 1..n : terms[i] = t
    BY <1>5
  <1>15. /\ \A i \in 1..n : terms[i] \in DOMAIN segment.postings
         /\ \A t \in DOMAIN segment.postings : \E i \in 1..n : terms[i] = t
    BY <1>1, <1>7, <1>14
  <1>16. \A i \in 1..n : /\ encoded[i] \in Seq(Slots) /\ Len(encoded[i]) \in Nat
                          /\ decode(encoded[i]) = {segment.postings[terms[i]]}
    BY <1>11, <1>13
  <1> QED
    BY <1>4, <1>8, <1>9, <1>12, <1>15, <1>16 DEF TermsFit

\* Where the posting lists are, and the numbers of the rows.
InfosFit(infos, segment, terms, encoded, p) ==
  /\ Len(infos) = Len(terms)
  /\ \A i \in 1..Len(terms) :
       /\ Len(infos[i]) = 3
       /\ infos[i][1] = U(p[i - 1]) /\ infos[i][2] = U(Len(encoded[i]))
       /\ infos[i][3] = U(segment.doc_frequency[terms[i]])

\* build: the term infos are rows of three numbers.
LEMMA TermInfosAreTyped ==
  ASSUME NEW F, NEW segment, IsSegment(segment), NEW terms, terms = Ascending(DOMAIN segment.postings),
         NEW encoded, encoded = EncodedLists(segment, terms), NEW p, Layout(p, encoded)
  PROVE  /\ TermInfos(segment, terms, encoded) \in Seq(Seq(FileSlots(F)))
         /\ InfosFit(TermInfos(segment, terms, encoded), segment, terms, encoded, p)
  <1>0. PICK infos : infos = TermInfos(segment, terms, encoded)
    OBVIOUS
  <1>1. PICK n \in Nat : n = Len(terms) /\ DOMAIN terms = 1..n
    BY TermsOfSegment DEF TermsFit
  <1>2. /\ encoded \in Seq(Seq(Slots)) /\ Len(encoded) = n
        /\ \A i \in 1..n : Len(encoded[i]) \in Nat
        /\ \A i \in 1..n : segment.doc_frequency[terms[i]] \in Nat
    <2>1. \A i \in 1..n : terms[i] \in DOMAIN segment.postings
      BY <1>1, TermsOfSegment DEF TermsFit
    <2>2. \A i \in 1..n : segment.doc_frequency[terms[i]] \in Nat
      BY <2>1 DEF IsSegment
    <2> QED
      BY <1>1, <2>2, TermsOfSegment DEF TermsFit
  <1>3. PICK V : V = FileSlots(F) /\ \A i \in Nat : U(i) \in V
    BY NumbersAreSlots
  <1>4. ASSUME NEW i \in 1..n
        PROVE  /\ p[i - 1] \in Nat
               /\ Len(FlattenSeq(SubSeq(encoded, 1, i - 1))) = p[i - 1]
    <2>1. PICK j : j = i - 1 /\ j \in 0..Len(encoded)
      BY <1>2
    <2>2. PrefixLengths(p, encoded)
      BY <1>2, PrefixLength
    <2>3. p[j] \in Nat
      BY <2>1 DEF Layout
    <2> QED
      BY <2>1, <2>2, <2>3 DEF PrefixLengths
  <1>5. infos = [i \in 1..n |-> <<U(Len(FlattenSeq(SubSeq(encoded, 1, i - 1)))), U(Len(encoded[i])),
                                  U(segment.doc_frequency[terms[i]])>>]
    BY <1>0, <1>1 DEF TermInfos
  <1>6. ASSUME NEW i \in 1..n
        PROVE  /\ infos[i] \in Seq(V) /\ Len(infos[i]) = 3
               /\ infos[i][1] = U(p[i - 1]) /\ infos[i][2] = U(Len(encoded[i]))
               /\ infos[i][3] = U(segment.doc_frequency[terms[i]])
    <2>1. PICK a \in V, b \in V, c \in V :
            /\ a = U(p[i - 1]) /\ b = U(Len(encoded[i])) /\ c = U(segment.doc_frequency[terms[i]])
      BY <1>2, <1>3, <1>4
    <2>2. infos[i] = <<a, b, c>>
      BY <1>4, <1>5, <2>1
    <2>3. <<a, b, c>> \in Seq(V) /\ Len(<<a, b, c>>) = 3
      OBVIOUS
    <2>4. infos[i][1] = a /\ infos[i][2] = b /\ infos[i][3] = c
      BY <2>2
    <2>5. infos[i] \in Seq(V) /\ Len(infos[i]) = 3
      BY <2>2, <2>3, Zenon
    <2> QED
      BY <2>1, <2>4, <2>5
  <1>7. infos \in Seq(Seq(V)) /\ Len(infos) = n
    <2>1. infos \in [1..n -> Seq(V)]
      BY <1>5, <1>6
    <2> QED
      BY <2>1
  <1> QED
    BY <1>0, <1>1, <1>3, <1>6, <1>7 DEF InfosFit

\* The first and the last section, and the dictionary of the reversed terms,
\* of which a reader of the other sections needs the length.
LEMMA ReverseFstLength ==
  ASSUME NEW terms \in Seq(DOMAIN Chars)
  PROVE  /\ DOMAIN ReverseFst(terms) = 1..Len(terms)
         /\ ReverseFst(terms) = [n \in 1..Len(terms) |-> ReverseFst(terms)[n]]
  <1>1. PICK n \in Nat : n = Len(terms) /\ DOMAIN terms = 1..n
    BY LenProperties
  <1>2. PICK keys : keys = [i \in DOMAIN terms |-> FstKey(Reverse(Chars[terms[i]]), i - 1)]
    OBVIOUS
  <1>3. DOMAIN keys = 1..n /\ ReverseFst(terms) = Ordered(keys)
    BY <1>1, <1>2 DEF ReverseFst
  <1> QED
    BY <1>1, <1>3 DEF Ordered

\* The segment as a reader finds it.
ReaderOf(segment, files) ==
  [files |-> files, doc_table |-> segment.doc_table, postings |-> segment.postings,
   doc_frequency |-> segment.doc_frequency, total_rows |-> segment.total_rows,
   total_tokens |-> segment.total_tokens]

\* The sections of a file.
SectionsFit(F, segment, files, terms, encoded, sections) ==
  /\ build(segment, files) = Checked(WithOffsets(sections))
  /\ \E V : sections \in Seq(Seq(V)) /\ FileSlots(F) \subseteq V
  /\ Len(sections) = 8
  /\ sections[1] = <<Magic, Version>> /\ sections[2] = write_file_table(files)
  /\ sections[3] = FlattenSeq(encoded)
  /\ sections[4] = Counted(Len(terms), ForwardFst(terms))
  /\ sections[5] = Counted(Len(terms), ReverseFst(terms))
  /\ sections[6] = Counted(Len(terms), FlattenSeq(TermInfos(segment, terms, encoded)))
  /\ sections[7] = Counted(Len(segment.doc_table), FlattenSeq(DocTable(segment.doc_table)))
  /\ sections[8] = <<U(segment.total_rows), U(segment.total_tokens)>>

\* build writes eight sections.
LEMMA SectionsAreLaidOut ==
  ASSUME NEW F, NEW files \in Seq(F), NEW segment, IsSegment(segment),
         NEW terms, terms = Ascending(DOMAIN segment.postings),
         NEW encoded, encoded = EncodedLists(segment, terms),
         NEW sections, sections = Sections(segment, files, terms, encoded)
  PROVE  SectionsFit(F, segment, files, terms, encoded, sections)
  <1>1. PICK n \in Nat :
          /\ n = Len(terms) /\ terms \in Seq(DOMAIN Chars)
          /\ encoded \in Seq(Seq(Slots)) /\ Len(encoded) = n
    BY TermsOfSegment DEF TermsFit
  <1>2. PICK p : Layout(p, encoded)
    BY <1>1, LayoutExists
  <1>3. PICK reversed : reversed = ReverseFst(terms) /\ reversed = [i \in 1..n |-> reversed[i]]
    BY <1>1, ReverseFstLength
  <1>4. PICK V : V = FileSlots(F) \cup {reversed[i] : i \in 1..n}
    OBVIOUS
  <1>5. FileSlots(F) \subseteq V /\ Slots \subseteq V /\ \A i \in Nat : U(i) \in V
    <2>1. FileSlots(F) \subseteq V
      BY <1>4
    <2>2. Slots \subseteq FileSlots(F)
      BY DEF FileSlots
    <2> QED
      BY <2>1, <2>2, NumbersAreSlots
  <1>6. \A s \in Seq(FileSlots(F)) : s \in Seq(V)
    BY <1>5, SeqMonotonic
  <1>7. PICK s1 \in Seq(V) : s1 = <<Magic, Version>>
    <2>1. PICK a \in V, b \in V : a = Magic /\ b = Version
      BY <1>5 DEF FileSlots, Version
    <2>2. <<a, b>> \in Seq(V)
      OBVIOUS
    <2> QED
      BY <2>1, <2>2
  <1>8. PICK s2 \in Seq(V) : s2 = write_file_table(files)
    BY <1>6, FileTableIsFound
  <1>9. PICK s3 \in Seq(V) : s3 = FlattenSeq(encoded)
    <2>1. FlattenSeq(encoded) \in Seq(Slots)
      BY <1>1, <1>2, FlattenLayout
    <2> QED
      BY <1>5, <2>1, SeqMonotonic
  <1>10. PICK s4 \in Seq(V) : s4 = Counted(Len(terms), ForwardFst(terms))
    <2>1. Counted(Len(terms), ForwardFst(terms)) \in Seq(FileSlots(F))
      BY <1>1, FstIsFound
    <2> QED
      BY <1>6, <2>1
  <1>11. PICK s5 \in Seq(V) : s5 = Counted(Len(terms), ReverseFst(terms))
    <2>1. \A i \in 1..n : reversed[i] \in V
      BY <1>4
    <2>2. [i \in 1..n |-> reversed[i]] \in Seq(V)
      BY <2>1
    <2>3. reversed \in Seq(V)
      BY <1>3, <2>2
    <2>4. U(n) \in V
      BY <1>5
    <2>5. Counted(n, reversed) \in Seq(V)
      BY <2>3, <2>4, CountedPart
    <2> QED
      BY <1>1, <1>3, <2>5
  <1>12. PICK s6 \in Seq(V) : s6 = Counted(Len(terms), FlattenSeq(TermInfos(segment, terms, encoded)))
    <2>1. PICK infos : infos = TermInfos(segment, terms, encoded)
      OBVIOUS
    <2>2. infos \in Seq(Seq(FileSlots(F))) /\ Len(infos) = n
      <3>1. infos \in Seq(Seq(FileSlots(F))) /\ InfosFit(infos, segment, terms, encoded, p)
        BY <1>2, <2>1, TermInfosAreTyped
      <3> QED
        BY <1>1, <3>1 DEF InfosFit
    <2>3. PICK q : Layout(q, infos)
      BY <2>2, LayoutExists
    <2>4. FlattenSeq(infos) \in Seq(V)
      BY <1>6, <2>2, <2>3, FlattenLayout
    <2>5. U(n) \in V
      BY <1>5
    <2>6. Counted(n, FlattenSeq(infos)) \in Seq(V)
      BY <2>4, <2>5, CountedPart
    <2> QED
      BY <1>1, <2>1, <2>6
  <1>13. PICK s7 \in Seq(V) : s7 = Counted(Len(segment.doc_table), FlattenSeq(DocTable(segment.doc_table)))
    <2>1. PICK table : table = segment.doc_table /\ table \in Seq(PageEntry)
      BY DEF IsSegment
    <2>2. Counted(Len(table), FlattenSeq(DocTable(table))) \in Seq(FileSlots(F))
      BY <2>1, DocTableIsFound
    <2> QED
      BY <1>6, <2>1, <2>2
  <1>14. PICK s8 \in Seq(V) : s8 = <<U(segment.total_rows), U(segment.total_tokens)>>
    <2>1. PICK a \in V, b \in V : a = U(segment.total_rows) /\ b = U(segment.total_tokens)
      BY <1>5 DEF IsSegment
    <2>2. <<a, b>> \in Seq(V)
      OBVIOUS
    <2> QED
      BY <2>1, <2>2
  <1>15. sections = <<s1, s2, s3, s4, s5, s6, s7, s8>>
    BY <1>7, <1>8, <1>9, <1>10, <1>11, <1>12, <1>13, <1>14 DEF Sections
  <1>16. sections \in Seq(Seq(V)) /\ Len(sections) = 8
    <2>1. PICK S : S = Seq(V) /\ s1 \in S /\ s2 \in S /\ s3 \in S /\ s4 \in S
                    /\ s5 \in S /\ s6 \in S /\ s7 \in S /\ s8 \in S
      OBVIOUS
    <2>2. <<s1, s2, s3, s4, s5, s6, s7, s8>> \in Seq(S)
      BY <2>1
    <2>3. Len(<<s1, s2, s3, s4, s5, s6, s7, s8>>) = 8
      OBVIOUS
    <2> QED
      BY <1>15, <2>1, <2>2, <2>3
  <1>17. /\ sections[1] = s1 /\ sections[2] = s2 /\ sections[3] = s3 /\ sections[4] = s4
         /\ sections[5] = s5 /\ sections[6] = s6 /\ sections[7] = s7 /\ sections[8] = s8
    BY <1>15
  <1>18. build(segment, files) = Checked(WithOffsets(sections))
    BY DEF build, BuildWith, EncodedLists
  <1> QED
    BY <1>5, <1>7, <1>8, <1>9, <1>10, <1>11, <1>12, <1>13, <1>14, <1>16, <1>17, <1>18 DEF SectionsFit


\* The footer names the offsets of six sections.
LEMMA FooterIsFound ==
  ASSUME NEW file, NEW sections, NEW o, Len(sections) = 8, Layout(o, sections),
         Footed(file, sections, o)
  PROVE  /\ file_table_offset(file) = o[1] /\ doc_table_offset(file) = o[6]
         /\ forward_fst_offset(file) = o[3] /\ reverse_fst_offset(file) = o[4]
         /\ posting_offset(file) = o[2] /\ corpus_stats_offset(file) = o[7]
  <1>1. PICK l \in Nat : l = o[8] /\ Len(file) = l + 8
    <2>1. o \in [0..8 -> Nat] /\ 8 \in 0..8
      BY DEF Layout
    <2>2. o[8] \in Nat
      BY <2>1
    <2> QED
      BY <2>2 DEF Footed
  <1>2. ASSUME NEW n \in 1..6 PROVE FooterField(file, n) = o[<<2, 7, 4, 5, 3, 8>>[n] - 1]
    <2>1. Len(file) - FOOTER_SIZE + n - 1 + 1 = l + n
      <3>1. Len(file) = l + 8 /\ FOOTER_SIZE = 8 /\ l \in Nat /\ n \in Nat
        BY <1>1 DEF FOOTER_SIZE
      <3> QED
        BY ONLY <3>1
    <2>2. file[l + n] = U(o[<<2, 7, 4, 5, 3, 8>>[n] - 1])
      BY <1>1 DEF Footed
    <2> QED
      BY <2>1, <2>2 DEF FooterField, At, U
  <1>3. 1 \in 1..6 /\ 2 \in 1..6 /\ 3 \in 1..6 /\ 4 \in 1..6 /\ 5 \in 1..6 /\ 6 \in 1..6
    OBVIOUS
  <1>4. /\ FooterField(file, 1) = o[2 - 1] /\ FooterField(file, 2) = o[7 - 1]
        /\ FooterField(file, 3) = o[4 - 1] /\ FooterField(file, 4) = o[5 - 1]
        /\ FooterField(file, 5) = o[3 - 1] /\ FooterField(file, 6) = o[8 - 1]
    BY <1>2, <1>3
  <1>5. 2 - 1 = 1 /\ 7 - 1 = 6 /\ 4 - 1 = 3 /\ 5 - 1 = 4 /\ 3 - 1 = 2 /\ 8 - 1 = 7
    OBVIOUS
  <1> QED
    BY <1>4, <1>5 DEF file_table_offset, doc_table_offset, forward_fst_offset,
                      reverse_fst_offset, posting_offset, corpus_stats_offset

\* No string is before itself, so terms that are spelled alike are the same.
LEMMA SpellingsDiffer ==
  ASSUME NEW s \in DOMAIN Chars, NEW t \in DOMAIN Chars, Chars[s] = Chars[t]
  PROVE  s = t
  <1>1. s \in Nat /\ t \in Nat /\ Chars[s] \in Seq(Nat)
    BY SegmentFileAssumption
  <1>2. PICK a \in Seq(Nat) : a = Chars[s]
    BY <1>1
  <1>3. ~Before(a, a)
    <2> SUFFICES ASSUME NEW n \in DOMAIN a, n > Len(a) \/ a[n] < a[n] PROVE FALSE
      BY DEF Before
    <2>1. n \in 1..Len(a) /\ Len(a) \in Nat
      BY LenProperties
    <2>2. a[n] \in Nat
      BY <2>1, ElementOfSeq
    <2> QED
      BY <2>1, <2>2
  <1>4. ~(s < t) /\ ~(t < s)
    BY <1>2, <1>3, SegmentFileAssumption
  <1> QED
    BY <1>1, <1>4

\* term_ordinal in the dictionary of a segment.
LEMMA OrdinalIsFound ==
  ASSUME NEW terms \in Seq(DOMAIN Chars),
         \A i, j \in 1..Len(terms) : terms[i] = terms[j] => i = j,
         NEW file, parse_fst(file, forward_fst_offset(file)) = Fst(terms)
  PROVE  /\ \A i \in 1..Len(terms) : term_ordinal(file, terms[i]) = {i - 1}
         /\ \A t \in DOMAIN Chars :
              term_ordinal(file, t) # {} => \E i \in 1..Len(terms) : terms[i] = t
  <1>1. PICK n \in Nat : n = Len(terms)
    BY LenProperties
  <1>2. \A i \in 1..n : terms[i] \in DOMAIN Chars
    BY <1>1, ElementOfSeq
  <1>3. PICK fst : fst = Fst(terms) /\ DOMAIN fst = 1..n
    BY <1>1 DEF Fst
  <1>4. \A i \in 1..n : fst[i].key = Chars[terms[i]] /\ fst[i].ordinal = i - 1
    BY <1>1, <1>3 DEF Fst
  <1>5. \A t : term_ordinal(file, t) = {k.ordinal : k \in {l \in ToSet(fst) : l.key = Chars[t]}}
    BY <1>3 DEF term_ordinal
  <1>6. ToSet(fst) = {fst[i] : i \in 1..n}
    BY <1>3 DEF ToSet
  <1>7. \A t, x : x \in term_ordinal(file, t)
                    <=> \E i \in 1..n : fst[i].key = Chars[t] /\ x = fst[i].ordinal
    BY <1>5, <1>6
  <1>8. ASSUME NEW i \in 1..n PROVE term_ordinal(file, terms[i]) = {i - 1}
    <2>1. i - 1 \in term_ordinal(file, terms[i])
      BY <1>4, <1>7
    <2>2. ASSUME NEW x \in term_ordinal(file, terms[i]) PROVE x = i - 1
      <3>1. PICK j \in 1..n : Chars[terms[j]] = Chars[terms[i]] /\ x = j - 1
        BY <1>4, <1>7
      <3>2. terms[j] = terms[i]
        BY <1>2, <3>1, SpellingsDiffer
      <3>3. j = i
        BY <1>1, <3>2
      <3> QED
        BY <3>1, <3>3
    <2> QED
      BY <2>1, <2>2
  <1>9. ASSUME NEW t \in DOMAIN Chars, term_ordinal(file, t) # {}
        PROVE  \E i \in 1..n : terms[i] = t
    <2>1. PICK i \in 1..n : Chars[terms[i]] = Chars[t]
      BY <1>4, <1>7, <1>9
    <2>2. terms[i] = t
      BY <1>2, <2>1, SpellingsDiffer
    <2> QED
      BY <2>2
  <1> QED
    BY <1>1, <1>8, <1>9


\* A file as it was built, with its sections and where they end.
LaidOut(F, segment, files, terms, encoded, sections, o, file) ==
  /\ terms = Ascending(DOMAIN segment.postings) /\ encoded = EncodedLists(segment, terms)
  /\ TermsFit(segment, terms, encoded)
  /\ SectionsFit(F, segment, files, terms, encoded, sections)
  /\ Layout(o, sections) /\ Footed(file, sections, o)

\* Where the sections of a file are, and that the footer says so.
SectionsFound(file, sections, o) ==
  /\ o[0] = 0 /\ \A i \in 0..8 : o[i] \in Nat
  /\ o[1] \in Nat /\ o[2] \in Nat /\ o[3] \in Nat /\ o[4] \in Nat
  /\ o[5] \in Nat /\ o[6] \in Nat /\ o[7] \in Nat /\ o[8] \in Nat
  /\ InPlace(file, 0, sections[1]) /\ InPlace(file, o[1], sections[2])
  /\ InPlace(file, o[2], sections[3]) /\ InPlace(file, o[3], sections[4])
  /\ InPlace(file, o[4], sections[5]) /\ InPlace(file, o[5], sections[6])
  /\ InPlace(file, o[6], sections[7]) /\ InPlace(file, o[7], sections[8])
  /\ file_table_offset(file) = o[1] /\ doc_table_offset(file) = o[6]
  /\ forward_fst_offset(file) = o[3] /\ reverse_fst_offset(file) = o[4]
  /\ posting_offset(file) = o[2] /\ corpus_stats_offset(file) = o[7]

\* build: a file has its sections one after another, and a footer that finds them.
LEMMA FileIsLaidOut ==
  ASSUME NEW F, NEW files \in Seq(F), NEW segment, IsSegment(segment),
         NEW file, file = build(segment, files)
  PROVE  \E terms, encoded, sections, o :
           /\ LaidOut(F, segment, files, terms, encoded, sections, o, file)
           /\ SectionsFound(file, sections, o)
  <1>1. PICK terms, encoded, sections :
          /\ terms = Ascending(DOMAIN segment.postings) /\ encoded = EncodedLists(segment, terms)
          /\ sections = Sections(segment, files, terms, encoded)
    OBVIOUS
  <1>2. TermsFit(segment, terms, encoded)
    BY <1>1, TermsOfSegment
  <1>3. SectionsFit(F, segment, files, terms, encoded, sections)
    BY <1>1, SectionsAreLaidOut
  <1>4. PICK V : sections \in Seq(Seq(V)) /\ FileSlots(F) \subseteq V /\ Len(sections) = 8
    BY <1>3 DEF SectionsFit
  <1>5. PICK o : Layout(o, sections)
    BY <1>4, LayoutExists
  <1>6. Footed(file, sections, o)
    <2>1. file = Checked(WithOffsets(sections))
      BY <1>3 DEF SectionsFit
    <2> QED
      BY <1>4, <1>5, <2>1, FileIsFooted
  <1>7. /\ o[0] = 0 /\ \A i \in 0..8 : o[i] \in Nat
        /\ o[1] \in Nat /\ o[2] \in Nat /\ o[3] \in Nat /\ o[4] \in Nat
        /\ o[5] \in Nat /\ o[6] \in Nat /\ o[7] \in Nat /\ o[8] \in Nat
    <2>1. o \in [0..8 -> Nat] /\ o[0] = 0
      BY <1>4, <1>5 DEF Layout
    <2>2. 1 \in 0..8 /\ 2 \in 0..8 /\ 3 \in 0..8 /\ 4 \in 0..8 /\ 5 \in 0..8 /\ 6 \in 0..8
            /\ 7 \in 0..8 /\ 8 \in 0..8
      OBVIOUS
    <2> QED
      BY <2>1, <2>2
  <1>8. /\ InPlace(file, 0, sections[1]) /\ InPlace(file, o[1], sections[2])
        /\ InPlace(file, o[2], sections[3]) /\ InPlace(file, o[3], sections[4])
        /\ InPlace(file, o[4], sections[5]) /\ InPlace(file, o[5], sections[6])
        /\ InPlace(file, o[6], sections[7]) /\ InPlace(file, o[7], sections[8])
    <2>1. \A i \in 1..8 : InPlace(file, o[i - 1], sections[i])
      BY <1>6 DEF Footed
    <2>2. 1 \in 1..8 /\ 2 \in 1..8 /\ 3 \in 1..8 /\ 4 \in 1..8 /\ 5 \in 1..8 /\ 6 \in 1..8
            /\ 7 \in 1..8 /\ 8 \in 1..8
      OBVIOUS
    <2>3. 1 - 1 = 0 /\ 2 - 1 = 1 /\ 3 - 1 = 2 /\ 4 - 1 = 3 /\ 5 - 1 = 4 /\ 6 - 1 = 5
            /\ 7 - 1 = 6 /\ 8 - 1 = 7
      OBVIOUS
    <2> QED
      BY <1>7, <2>1, <2>2, <2>3
  <1>9. /\ file_table_offset(file) = o[1] /\ doc_table_offset(file) = o[6]
        /\ forward_fst_offset(file) = o[3] /\ reverse_fst_offset(file) = o[4]
        /\ posting_offset(file) = o[2] /\ corpus_stats_offset(file) = o[7]
    BY <1>4, <1>5, <1>6, FooterIsFound
  <1>10. LaidOut(F, segment, files, terms, encoded, sections, o, file)
    BY <1>1, <1>2, <1>3, <1>5, <1>6 DEF LaidOut
  <1>11. SectionsFound(file, sections, o)
    BY <1>7, <1>8, <1>9 DEF SectionsFound
  <1> QED
    BY <1>10, <1>11

\* SegmentBuilder::build and SegmentReader: what a reader finds in a file that
\* was built is the segment, for every segment, block size and LZ4 threshold.
THEOREM OpenUndoesBuild ==
  ASSUME NEW F, NEW files \in Seq(F), NEW segment, IsSegment(segment)
  PROVE  open(build(segment, files)) = {ReaderOf(segment, files)}
  <1>0. PICK file : file = build(segment, files)
    OBVIOUS
  <1>a. PICK terms, encoded, sections, o :
          /\ LaidOut(F, segment, files, terms, encoded, sections, o, file)
          /\ SectionsFound(file, sections, o)
    BY <1>0, FileIsLaidOut
  <1>1. PICK T :
          /\ T = DOMAIN segment.postings /\ terms = Ascending(T)
          /\ encoded = EncodedLists(segment, terms)
          /\ TermsFit(segment, terms, encoded)
          /\ SectionsFit(F, segment, files, terms, encoded, sections)
    BY <1>a DEF LaidOut
  <1>2. PICK n \in Nat :
          /\ n = Len(terms) /\ terms \in Seq(DOMAIN Chars) /\ DOMAIN terms = 1..n
          /\ \A i \in 1..n : terms[i] \in T
          /\ \A t \in T : \E i \in 1..n : terms[i] = t
          /\ \A i, j \in 1..n : terms[i] = terms[j] => i = j
          /\ encoded \in Seq(Seq(Slots)) /\ Len(encoded) = n
          /\ \A i \in 1..n : /\ encoded[i] \in Seq(Slots) /\ Len(encoded[i]) \in Nat
                             /\ decode(encoded[i]) = {segment.postings[terms[i]]}
    BY <1>1 DEF TermsFit
  <1>3. /\ build(segment, files) = Checked(WithOffsets(sections))
        /\ \E V : sections \in Seq(Seq(V)) /\ FileSlots(F) \subseteq V
        /\ Len(sections) = 8
        /\ sections[1] = <<Magic, Version>> /\ sections[2] = write_file_table(files)
        /\ sections[3] = FlattenSeq(encoded)
        /\ sections[4] = Counted(n, ForwardFst(terms))
        /\ sections[5] = Counted(n, ReverseFst(terms))
        /\ sections[6] = Counted(n, FlattenSeq(TermInfos(segment, terms, encoded)))
        /\ sections[7] = Counted(Len(segment.doc_table), FlattenSeq(DocTable(segment.doc_table)))
        /\ sections[8] = <<U(segment.total_rows), U(segment.total_tokens)>>
    BY <1>1, <1>2 DEF SectionsFit
  <1>4. Layout(o, sections) /\ Footed(file, sections, o)
    BY <1>a DEF LaidOut
  <1>7. /\ o[0] = 0 /\ \A i \in 0..8 : o[i] \in Nat
        /\ o[1] \in Nat /\ o[2] \in Nat /\ o[3] \in Nat /\ o[4] \in Nat
        /\ o[5] \in Nat /\ o[6] \in Nat /\ o[7] \in Nat /\ o[8] \in Nat
    BY <1>a DEF SectionsFound
  <1>8. /\ InPlace(file, 0, sections[1]) /\ InPlace(file, o[1], sections[2])
        /\ InPlace(file, o[2], sections[3]) /\ InPlace(file, o[3], sections[4])
        /\ InPlace(file, o[4], sections[5]) /\ InPlace(file, o[5], sections[6])
        /\ InPlace(file, o[6], sections[7]) /\ InPlace(file, o[7], sections[8])
    BY <1>a DEF SectionsFound
  <1>9. /\ file_table_offset(file) = o[1] /\ doc_table_offset(file) = o[6]
        /\ forward_fst_offset(file) = o[3] /\ reverse_fst_offset(file) = o[4]
        /\ posting_offset(file) = o[2] /\ corpus_stats_offset(file) = o[7]
    BY <1>a DEF SectionsFound
  <1>10. opens(file)
    <2>1. file[0 + 1] = Magic /\ file[0 + 2] = Version
      <3>1. Len(sections[1]) = 2 /\ sections[1][1] = Magic /\ sections[1][2] = Version
        BY <1>3
      <3>2. 1 \in 1..2 /\ 2 \in 1..2
        OBVIOUS
      <3>3. \A k \in 1..2 : file[0 + k] = sections[1][k]
        BY <1>8, <3>1 DEF InPlace
      <3> QED
        BY <3>1, <3>2, <3>3
    <2>2. PICK l \in Nat :
            /\ l = o[8] /\ Len(file) = l + 8 /\ file[l + 8] = Magic
            /\ file[l + 7] = Crc(SubSeq(file, 1, l + 6))
      BY <1>4, <1>7 DEF Footed
    <2>3. Len(file) - 1 = l + 7 /\ Len(file) - 2 = l + 6 /\ Len(file) >= FOOTER_SIZE
      BY <2>2 DEF FOOTER_SIZE
    <2> QED
      BY <2>1, <2>2, <2>3 DEF opens, Last
  <1>11. parse_file_table(file) = files
    BY <1>3, <1>7, <1>8, <1>9, FileTableIsFound
  <1>12. parse_doc_table(file) = segment.doc_table
    <2>1. PICK table : table = segment.doc_table /\ table \in Seq(PageEntry)
      BY DEF IsSegment
    <2> QED
      BY <1>3, <1>7, <1>8, <1>9, <2>1, DocTableIsFound
  <1>13. parse_fst(file, forward_fst_offset(file)) = Fst(terms)
    <2>1. PICK part : part = Counted(Len(terms), ForwardFst(terms)) /\ part = sections[4]
      BY <1>2, <1>3
    <2>2. \A g : \A offset \in Nat : InPlace(g, offset, part) => parse_fst(g, offset) = Fst(terms)
      BY <1>2, <2>1, FstIsFound
    <2> QED
      BY <1>7, <1>8, <1>9, <2>1, <2>2
  <1>14. /\ \A i \in 1..n : term_ordinal(file, terms[i]) = {i - 1}
         /\ \A t \in DOMAIN Chars : term_ordinal(file, t) # {} => t \in T
    <2>1. /\ \A i \in 1..Len(terms) : term_ordinal(file, terms[i]) = {i - 1}
          /\ \A t \in DOMAIN Chars :
               term_ordinal(file, t) # {} => \E i \in 1..Len(terms) : terms[i] = t
      BY <1>2, <1>13, OrdinalIsFound
    <2>2. \A i \in 1..n : term_ordinal(file, terms[i]) = {i - 1}
      BY <1>2, <2>1
    <2>3. ASSUME NEW t \in DOMAIN Chars, term_ordinal(file, t) # {} PROVE t \in T
      <3>1. \E i \in 1..Len(terms) : terms[i] = t
        BY <2>1, <2>3
      <3>2. PICK i \in 1..n : terms[i] = t
        BY <1>2, <3>1
      <3>3. terms[i] \in T
        BY <1>2
      <3> QED
        BY <3>2, <3>3
    <2> QED
      BY <2>2, <2>3
  <1>15. term_info_start(file) = o[5]
    <2>1. PICK m : m = Len(sections[5]) /\ sections[5][1] = U(n) /\ m = 1 + n
      <3>1. PICK reversed : reversed = ReverseFst(terms) /\ reversed = [i \in 1..n |-> reversed[i]]
        BY <1>2, ReverseFstLength
      <3>2. Len(reversed) = n
        BY <3>1
      <3>3. reversed \in Seq({reversed[i] : i \in 1..n} \cup {U(n)})
        <4>1. \A i \in 1..n : reversed[i] \in {reversed[j] : j \in 1..n} \cup {U(n)}
          OBVIOUS
        <4>2. [i \in 1..n |-> reversed[i]] \in Seq({reversed[j] : j \in 1..n} \cup {U(n)})
          BY <4>1
        <4> QED
          BY <3>1, <4>2
      <3>4. IsCounted(Counted(n, reversed), n, reversed)
        <4>1. PICK W : W = {reversed[i] : i \in 1..n} \cup {U(n)}
          OBVIOUS
        <4>2. U(n) \in W /\ reversed \in Seq(W)
          BY <3>3, <4>1
        <4> QED
          BY <4>2, CountedPart
      <3> QED
        BY <1>3, <3>1, <3>2, <3>4 DEF IsCounted
    <2>2. At(file, o[4]) = n
      <3>1. 1 \in 1..1 + n
        OBVIOUS
      <3>2. file[o[4] + 1] = sections[5][1]
        BY <1>8, <2>1, <3>1 DEF InPlace
      <3> QED
        BY <2>1, <3>2 DEF At, U
    <2>3. o[5] = o[4] + Len(sections[5])
      <3>1. 5 \in 1..8 /\ 5 - 1 = 4
        OBVIOUS
      <3>2. o[5] = o[5 - 1] + Len(sections[5])
        BY <1>3, <1>4, <3>1 DEF Layout
      <3> QED
        BY <3>1, <3>2
    <2>4. o[4] + 1 + n = o[4] + (1 + n)
      <3>1. PICK x \in Nat : x = o[4]
        BY <1>7
      <3>2. x + 1 + n = x + (1 + n)
        OBVIOUS
      <3> QED
        BY <3>1, <3>2
    <2> QED
      BY <1>9, <2>1, <2>2, <2>3, <2>4 DEF term_info_start
  <1>16. PICK p : Layout(p, encoded)
    BY <1>2, LayoutExists
  <1>17. PICK infos :
           /\ infos = TermInfos(segment, terms, encoded) /\ infos \in Seq(Seq(FileSlots(F)))
           /\ InfosFit(infos, segment, terms, encoded, p) /\ Len(infos) = n
    <2>1. /\ TermInfos(segment, terms, encoded) \in Seq(Seq(FileSlots(F)))
          /\ InfosFit(TermInfos(segment, terms, encoded), segment, terms, encoded, p)
      BY <1>1, <1>16, TermInfosAreTyped
    <2> QED
      BY <1>2, <2>1 DEF InfosFit
  <1>18. ASSUME NEW i \in 1..n
         PROVE  term_info(file, i - 1) =
                  [posting_offset |-> p[i - 1], posting_length |-> Len(encoded[i]),
                   doc_frequency |-> segment.doc_frequency[terms[i]]]
    <2>1. FieldsAt(file, o[5], infos, 3)
      <3>1. PICK w \in Nat : w = 3
        OBVIOUS
      <3>2. \A j \in 1..Len(infos) : Len(infos[j]) = w
        BY <1>2, <1>17, <3>1 DEF InfosFit
      <3>3. U(Len(infos)) \in FileSlots(F)
        BY <1>17, NumbersAreSlots
      <3>4. PICK part : part = Counted(Len(infos), FlattenSeq(infos)) /\ part = sections[6]
        BY <1>3, <1>17
      <3>5. \A g : \A offset \in Nat : InPlace(g, offset, part) => FieldsAt(g, offset, infos, w)
        BY <1>17, <3>2, <3>3, <3>4, RowsAreFound
      <3> QED
        BY <1>7, <1>8, <3>1, <3>4, <3>5
    <2>2. PICK x \in Nat : x = o[5] + 1 + 3 * (i - 1)
      BY <1>7
    <2>3. \A k \in 1..3 : file[x + k] = infos[i][k]
      BY <1>17, <2>1, <2>2 DEF FieldsAt
    <2>4. /\ file[x + 1] = U(p[i - 1]) /\ file[x + 2] = U(Len(encoded[i]))
          /\ file[x + 3] = U(segment.doc_frequency[terms[i]])
      <3>1. 1 \in 1..3 /\ 2 \in 1..3 /\ 3 \in 1..3
        OBVIOUS
      <3>2. file[x + 1] = infos[i][1] /\ file[x + 2] = infos[i][2] /\ file[x + 3] = infos[i][3]
        BY <2>3, <3>1
      <3> QED
        BY <1>2, <1>17, <3>2 DEF InfosFit
    <2>5. (x + 1) + 1 = x + 2 /\ (x + 2) + 1 = x + 3
      OBVIOUS
    <2>6. /\ At(file, x) = p[i - 1] /\ At(file, x + 1) = Len(encoded[i])
          /\ At(file, x + 2) = segment.doc_frequency[terms[i]]
      BY <2>4, <2>5 DEF At, U
    <2> QED
      BY <1>15, <2>2, <2>6 DEF term_info
  <1>19. ASSUME NEW i \in 1..n
         PROVE  posting_list(file, i - 1) = {segment.postings[terms[i]]}
    <2>1. PICK lists : lists = FlattenSeq(encoded) /\ lists = sections[3] /\ Flattened(lists, p, encoded)
      BY <1>2, <1>3, <1>16, FlattenLayout
    <2>2. PICK a \in Nat : a = o[2]
      BY <1>7
    <2>3. PICK j \in 0..n : j = i - 1 /\ j + 1 = i /\ i \in 0..n /\ i <= n /\ n \in 0..n
      OBVIOUS
    <2>4. PICK q \in Nat, m \in Nat : q = p[j] /\ q = p[i - 1] /\ m = Len(encoded[i]) /\ p[i] = q + m
      <3>1. PICK m \in Nat : m = Len(encoded[i])
        BY <1>2
      <3>2. p \in [0..n -> Nat] /\ p[i] = p[i - 1] + Len(encoded[i])
        BY <1>2, <1>16 DEF Layout
      <3>3. PICK q \in Nat : q = p[j]
        BY <2>3, <3>2
      <3> QED
        BY <2>3, <3>1, <3>2, <3>3
    <2>5. PICK l \in Nat : l = Len(lists) /\ q + m <= l
      <3>1. p[i] <= p[n]
        BY <1>2, <1>16, <2>3, LayoutGrows
      <3>2. Len(lists) = p[n] /\ p[n] \in Nat
        BY <1>2, <1>16, <2>1, <2>3 DEF Flattened, Layout
      <3> QED
        BY <2>4, <3>1, <3>2
    <2>6. InPlace(file, a + q, encoded[i])
      <3>1. a + l <= Len(file) /\ \A k \in 1..l : file[a + k] = lists[k]
        BY <1>8, <2>1, <2>2, <2>5 DEF InPlace
      <3>2. PICK size \in Nat : size = Len(file)
        <4>1. PICK z \in Nat : z = o[8] /\ Len(file) = z + 8
          BY <1>4, <1>7 DEF Footed
        <4> QED
          BY <4>1
      <3>3. (a + q) + m <= size
        BY <2>5, <3>1, <3>2
      <3>4. ASSUME NEW k \in 1..m PROVE file[(a + q) + k] = encoded[i][k]
        <4>1. k \in Nat /\ q + k \in 1..l /\ a + (q + k) = (a + q) + k
          BY <2>5
        <4>2. lists[q + k] = encoded[i][k]
          BY <1>2, <2>1, <2>4 DEF Flattened
        <4> QED
          BY <3>1, <4>1, <4>2
      <3> QED
        BY <2>4, <3>2, <3>3, <3>4 DEF InPlace
    <2>7. Slice(file, a + q, m) = encoded[i]
      <3>1. a + q \in Nat /\ encoded[i] \in Seq(Slots)
        BY <1>2
      <3> QED
        BY <2>4, <2>6, <3>1, SliceInPlace
    <2>8. posting_list(file, i - 1) = decode(Slice(file, a + q, m))
      <3>1. PICK info : info = term_info(file, i - 1) /\ info.posting_offset = q /\ info.posting_length = m
        <4>1. PICK f : f = segment.doc_frequency[terms[i]]
          OBVIOUS
        <4>2. term_info(file, i - 1) = [posting_offset |-> q, posting_length |-> m, doc_frequency |-> f]
          BY <1>18, <2>4, <4>1
        <4> QED
          BY <4>2
      <3> QED
        BY <1>9, <2>2, <3>1 DEF posting_list
    <2> QED
      BY <1>2, <2>7, <2>8
  <1>20. At(file, o[7]) = segment.total_rows /\ At(file, o[7] + 1) = segment.total_tokens
    <2>1. /\ Len(sections[8]) = 2 /\ sections[8][1] = U(segment.total_rows)
          /\ sections[8][2] = U(segment.total_tokens)
      BY <1>3
    <2>2. 1 \in 1..2 /\ 2 \in 1..2 /\ (o[7] + 1) + 1 = o[7] + 2
      BY <1>7
    <2>3. \A k \in 1..2 : file[o[7] + k] = sections[8][k]
      BY <1>8, <2>1 DEF InPlace
    <2>4. file[o[7] + 1] = sections[8][1] /\ file[o[7] + 2] = sections[8][2]
      BY <2>2, <2>3
    <2> QED
      BY <2>1, <2>2, <2>4 DEF At, U
  <1> DEFINE known == {t \in DOMAIN Chars : term_ordinal(file, t) # {}}
             ordinal(t) == CHOOSE x \in term_ordinal(file, t) : TRUE
  <1>21. known = T
    <2>1. T \subseteq DOMAIN Chars
      BY <1>1 DEF IsSegment
    <2>2. ASSUME NEW t \in T PROVE term_ordinal(file, t) # {}
      <3>1. PICK i \in 1..n : terms[i] = t
        BY <1>2
      <3>2. term_ordinal(file, t) = {i - 1}
        BY <1>14, <3>1
      <3> QED
        BY <3>2
    <2> QED
      BY <1>14, <2>1, <2>2
  <1>22. ASSUME NEW t \in T
         PROVE  /\ (CHOOSE docs \in posting_list(file, ordinal(t)) : TRUE) = segment.postings[t]
                /\ term_info(file, ordinal(t)).doc_frequency = segment.doc_frequency[t]
    <2>1. PICK i \in 1..n : terms[i] = t
      BY <1>2
    <2>2. ordinal(t) = i - 1
      BY <1>14, <2>1
    <2> HIDE DEF ordinal
    <2>3. posting_list(file, ordinal(t)) = {segment.postings[t]}
      BY <1>19, <2>1, <2>2
    <2>4. (CHOOSE docs \in posting_list(file, ordinal(t)) : TRUE) = segment.postings[t]
      BY <2>3
    <2>5. PICK info : info = term_info(file, ordinal(t)) /\ info.doc_frequency = segment.doc_frequency[t]
      <3>1. PICK q, m, f : q = p[i - 1] /\ m = Len(encoded[i]) /\ f = segment.doc_frequency[terms[i]]
        OBVIOUS
      <3>2. term_info(file, i - 1) = [posting_offset |-> q, posting_length |-> m, doc_frequency |-> f]
        BY <1>18, <3>1
      <3> QED
        BY <2>1, <2>2, <3>1, <3>2
    <2> QED
      BY <2>4, <2>5
  <1>23. /\ segment.postings = [t \in T |-> segment.postings[t]]
         /\ segment.doc_frequency = [t \in T |-> segment.doc_frequency[t]]
    BY <1>1 DEF IsSegment
  <1>24. open(file) =
           {[files |-> parse_file_table(file), doc_table |-> parse_doc_table(file),
             postings |-> [t \in known |-> CHOOSE docs \in posting_list(file, ordinal(t)) : TRUE],
             doc_frequency |-> [t \in known |-> term_info(file, ordinal(t)).doc_frequency],
             total_rows |-> At(file, corpus_stats_offset(file)),
             total_tokens |-> At(file, corpus_stats_offset(file) + 1)]}
    BY <1>10 DEF open
  <1> HIDE DEF known, ordinal
  <1>25. /\ [t \in known |-> CHOOSE docs \in posting_list(file, ordinal(t)) : TRUE] = segment.postings
         /\ [t \in known |-> term_info(file, ordinal(t)).doc_frequency] = segment.doc_frequency
    BY <1>21, <1>22, <1>23
  <1> QED
    BY <1>0, <1>9, <1>11, <1>12, <1>20, <1>24, <1>25 DEF ReaderOf
=============================================================================
