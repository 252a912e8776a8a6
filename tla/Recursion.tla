----------------------------- MODULE Recursion ------------------------------
(***************************************************************************)
(* Induction over data, from the fact that the numbers are well founded:   *)
(* recursive functions, sums, folds and flattened sequences have the       *)
(* values that their definitions say.  A property is a set of numbers and  *)
(* a step of a recursion a function, since the provers do not instantiate  *)
(* an operator.                                                            *)
(***************************************************************************)
EXTENDS Naturals, FiniteSets, Sequences, SequencesExt, FiniteSetsExt,
        FiniteSetTheorems, SequenceTheorems, WellFoundedInduction, TLAPS

\* A set of numbers that is not empty has a least one.
LEMMA LeastNatural ==
  ASSUME NEW T, T \subseteq Nat, T # {}
  PROVE  \E n \in T : \A m \in T : n <= m
  <1> DEFINE R == {p \in Nat \X Nat : p[1] < p[2]}
  <1>1. R = OpToRel(<, Nat)
    BY DEF OpToRel
  <1>2. IsWellFoundedOn(R, Nat)
    BY <1>1, NatLessThanWellFounded
  <1>3. \E n \in T : \A m \in T : ~(<<m, n>> \in R)
    <2> HIDE DEF R
    <2> QED
      BY <1>2, WFMin
  <1>4. \A n \in T, m \in T : ~(<<m, n>> \in R) => n <= m
    OBVIOUS
  <1> QED
    BY <1>3, <1>4

\* Induction, over a set instead of an operator: a number that is not in T would
\* be preceded by the least one that is not.
LEMMA Induction ==
  ASSUME NEW T, 0 \in T, \A n \in Nat : n \in T => n + 1 \in T
  PROVE  Nat \subseteq T
  <1> SUFFICES ASSUME Nat \ T # {} PROVE FALSE
    OBVIOUS
  <1>1. PICK n \in Nat \ T : \A m \in Nat \ T : n <= m
    BY LeastNatural
  <1>2. n - 1 \in Nat /\ n - 1 \in T
    BY <1>1
  <1> QED
    BY <1>1, <1>2

\* What step makes of x depends on g at smaller arguments only.
Descends(step, size, D, V) ==
  \A x \in D : \A g, h \in [D -> V] :
    (\A y \in D : size[y] < size[x] => g[y] = h[y]) => step[<<x, g>>] = step[<<x, h>>]

Solves(g, step, D) == g = [x \in D |-> step[<<x, g>>]]

\* A definition f[x] = step[x, f] is met by a function when step only looks at
\* arguments that are smaller than x.
LEMMA RecursiveFunction ==
  ASSUME NEW D, NEW V, V # {}, NEW size \in [D -> Nat],
         NEW step \in [D \X [D -> V] -> V],
         Descends(step, size, D, V)
  PROVE  \E g \in [D -> V] : Solves(g, step, D)
  <1> DEFINE Good(n, g) == \A x \in D : size[x] < n => g[x] = step[<<x, g>>]
             T == {n \in Nat : \E g \in [D -> V] : Good(n, g)}
  <1>1. 0 \in T
    <2>1. PICK v \in V : TRUE
      OBVIOUS
    <2>2. [x \in D |-> v] \in [D -> V]
      OBVIOUS
    <2>3. Good(0, [x \in D |-> v])
      OBVIOUS
    <2> QED
      BY <2>2, <2>3
  <1>2. ASSUME NEW n \in Nat, n \in T PROVE n + 1 \in T
    <2>1. PICK g \in [D -> V] : Good(n, g)
      BY <1>2
    <2> DEFINE h == [x \in D |-> step[<<x, g>>]]
    <2>2. h \in [D -> V]
      OBVIOUS
    <2>3. ASSUME NEW x \in D, size[x] < n + 1 PROVE h[x] = step[<<x, h>>]
      <3>1. \A y \in D : size[y] < size[x] => g[y] = h[y]
        BY <2>1, <2>3
      <3>2. step[<<x, g>>] = step[<<x, h>>]
        BY <2>2, <3>1 DEF Descends
      <3> QED
        BY <3>2
    <2>4. Good(n + 1, h)
      BY <2>3
    <2> HIDE DEF h
    <2> QED
      BY <2>2, <2>4
  <1>3. Nat \subseteq T
    <2> HIDE DEF T
    <2> QED
      BY <1>1, <1>2, Induction
  \* Two functions that are good up to n agree up to n.
  <1> DEFINE Agree(n) == \A g, h \in [D -> V] : Good(n, g) /\ Good(n, h)
                           => \A x \in D : size[x] < n => g[x] = h[x]
             U == {n \in Nat : Agree(n)}
  <1>4. 0 \in U
    OBVIOUS
  <1>5. ASSUME NEW n \in Nat, n \in U PROVE n + 1 \in U
    <2>1. ASSUME NEW g \in [D -> V], NEW h \in [D -> V], Good(n + 1, g), Good(n + 1, h),
                 NEW x \in D, size[x] < n + 1
          PROVE  g[x] = h[x]
      <3>1. Good(n, g) /\ Good(n, h)
        BY <2>1
      <3>2. \A y \in D : size[y] < size[x] => g[y] = h[y]
        BY <1>5, <2>1, <3>1
      <3>3. step[<<x, g>>] = step[<<x, h>>]
        BY <3>2 DEF Descends
      <3> QED
        BY <2>1, <3>3
    <2>2. Agree(n + 1)
      BY <2>1
    <2> HIDE DEF Agree
    <2> QED
      BY <2>2
  <1>6. Nat \subseteq U
    <2> HIDE DEF U
    <2> QED
      BY <1>4, <1>5, Induction
  <1>7. PICK G : G = [n \in Nat |-> CHOOSE g \in [D -> V] : Good(n, g)]
    OBVIOUS
  <1>8. \A n \in Nat : G[n] \in [D -> V] /\ Good(n, G[n])
    BY <1>3, <1>7
  <1>9. PICK f : f = [x \in D |-> G[size[x] + 1][x]]
    OBVIOUS
  <1>10. f \in [D -> V]
    BY <1>8, <1>9
  <1>11. ASSUME NEW x \in D PROVE f[x] = step[<<x, f>>]
    <2>1. size[x] + 1 \in Nat /\ size[x] < size[x] + 1
      OBVIOUS
    <2>2. PICK g \in [D -> V] : g = G[size[x] + 1] /\ Good(size[x] + 1, g)
      BY <1>8, <2>1
    <2>3. f[x] = step[<<x, g>>]
      BY <1>9, <2>1, <2>2
    <2>4. ASSUME NEW y \in D, size[y] < size[x] PROVE f[y] = g[y]
      <3>1. size[y] + 1 \in Nat /\ size[y] < size[y] + 1
        OBVIOUS
      <3>2. PICK h \in [D -> V] : h = G[size[y] + 1] /\ Good(size[y] + 1, h)
        BY <1>8, <3>1
      <3>3. Good(size[y] + 1, g)
        <4>1. \A z \in D : size[z] < size[y] + 1 => size[z] < size[x] + 1
          BY <2>4
        <4> QED
          BY <2>2, <4>1
      <3>4. Agree(size[y] + 1)
        BY <1>6, <3>1
      <3> QED
        BY <1>9, <3>1, <3>2, <3>3, <3>4
    <2>5. step[<<x, f>>] = step[<<x, g>>]
      BY <1>10, <2>4 DEF Descends
    <2> QED
      BY <2>3, <2>5
  <1>12. f = [x \in D |-> step[<<x, f>>]]
    BY <1>9, <1>11
  <1> QED
    BY <1>10, <1>12 DEF Solves
-----------------------------------------------------------------------------
Some(s) == CHOOSE x \in s : TRUE

\* g is the sum of f over the subsets of S, as MapThenSumSet computes it.
IsSum(g, f, S) ==
  g = [s \in SUBSET S |-> IF s = {} THEN 0 ELSE f[Some(s)] + g[s \ {Some(s)}]]

\* The sizes of the subsets of a finite set.
LEMMA SubsetSizes ==
  ASSUME NEW S, IsFiniteSet(S)
  PROVE  /\ [s \in SUBSET S |-> Cardinality(s)] \in [SUBSET S -> Nat]
         /\ \A s \in SUBSET S : IsFiniteSet(s) /\ Cardinality(s) <= Cardinality(S)
         /\ \A s \in SUBSET S : \A x \in s : Cardinality(s \ {x}) = Cardinality(s) - 1
         /\ \A s \in SUBSET S : Cardinality(s) = 0 <=> s = {}
  <1>1. \A s \in SUBSET S : IsFiniteSet(s) /\ Cardinality(s) \in Nat /\ Cardinality(s) <= Cardinality(S)
    BY FS_Subset, FS_CardinalityType
  <1>2. \A s \in SUBSET S : \A x \in s : Cardinality(s \ {x}) = Cardinality(s) - 1
    BY <1>1, FS_RemoveElement
  <1>3. \A s \in SUBSET S : Cardinality(s) = 0 <=> s = {}
    BY <1>1, FS_EmptySet
  <1> QED
    BY <1>1, <1>2, <1>3

\* The sum that MapThenSumSet takes, element after element in the order of CHOOSE,
\* is a function of the subsets.
LEMMA SumExists ==
  ASSUME NEW S, IsFiniteSet(S), NEW f \in [S -> Nat]
  PROVE  \E g \in [SUBSET S -> Nat] : IsSum(g, f, S)
  <1> DEFINE D == SUBSET S
             size == [s \in D |-> Cardinality(s)]
             Step(s, g) == IF s = {} THEN 0 ELSE f[Some(s)] + g[s \ {Some(s)}]
             step == [p \in D \X [D -> Nat] |-> Step(p[1], p[2])]
  <1>1. \A s \in D : s # {} => Some(s) \in s
    BY DEF Some
  <1>2. size \in [D -> Nat] /\ Cardinality(S) \in Nat /\ \A s \in D : size[s] <= Cardinality(S)
    BY SubsetSizes, FS_CardinalityType
  <1>3. ASSUME NEW s \in D, NEW g \in [D -> Nat] PROVE Step(s, g) \in Nat
    BY <1>1
  <1>4. step \in [D \X [D -> Nat] -> Nat]
    BY <1>3
  <1>5. \A s \in D, g \in [D -> Nat] : step[<<s, g>>] = Step(s, g)
    OBVIOUS
  <1>a. \A s \in D : size[s] = Cardinality(s)
    OBVIOUS
  <1> HIDE DEF size
  <1>6. ASSUME NEW s \in D, NEW g \in [D -> Nat], NEW h \in [D -> Nat],
               \A t \in D : size[t] < size[s] => g[t] = h[t]
        PROVE  Step(s, g) = Step(s, h)
    <2>1. CASE s # {}
      <3>1. Some(s) \in s /\ s \ {Some(s)} \in D
        BY <1>1, <2>1
      <3>2. size[s \ {Some(s)}] = size[s] - 1 /\ size[s] \in Nat
        BY <1>2, <1>a, <3>1, SubsetSizes
      <3>3. g[s \ {Some(s)}] = h[s \ {Some(s)}]
        BY <1>6, <3>1, <3>2
      <3> QED
        BY <3>3
    <2> QED
      BY <2>1
  <1>7. Descends(step, size, D, Nat)
    <2> SUFFICES ASSUME NEW s \in D, NEW g \in [D -> Nat], NEW h \in [D -> Nat],
                        \A t \in D : size[t] < size[s] => g[t] = h[t]
                 PROVE  step[<<s, g>>] = step[<<s, h>>]
      BY DEF Descends
    <2> HIDE DEF step, Step
    <2>1. Step(s, g) = Step(s, h)
      BY <1>6
    <2> QED
      BY <1>5, <2>1
  <1>8. \E g \in [D -> Nat] : Solves(g, step, D)
    <2> HIDE DEF D, step, Step
    <2>1. Nat # {}
      OBVIOUS
    <2> QED
      BY <1>2, <1>4, <1>7, <2>1, RecursiveFunction
  <1>9. PICK g \in [D -> Nat] : g = [s \in D |-> step[<<s, g>>]]
    BY <1>8 DEF Solves
  <1>10. g = [s \in D |-> Step(s, g)]
    BY <1>5, <1>9
  <1> QED
    BY <1>10 DEF IsSum

\* A sum does not depend on the set it is computed for, nor on the order.
LEMMA SumUnique ==
  ASSUME NEW S, IsFiniteSet(S), NEW f, NEW T \in SUBSET S,
         NEW g, IsSum(g, f, S), NEW h, IsSum(h, f, T)
  PROVE  \A s \in SUBSET T : g[s] = h[s]
  <1> DEFINE P == {n \in Nat : \A s \in SUBSET T : Cardinality(s) = n => g[s] = h[s]}
  <1>1. 0 \in P
    BY SubsetSizes DEF IsSum
  <1>2. ASSUME NEW n \in Nat, n \in P PROVE n + 1 \in P
    <2> SUFFICES ASSUME NEW s \in SUBSET T, Cardinality(s) = n + 1 PROVE g[s] = h[s]
      OBVIOUS
    <2>1. s # {} /\ Some(s) \in s
      BY SubsetSizes DEF Some
    <2>2. Cardinality(s \ {Some(s)}) = n
      BY <2>1, SubsetSizes
    <2>3. g[s \ {Some(s)}] = h[s \ {Some(s)}]
      BY <1>2, <2>2
    <2> QED
      BY <2>1, <2>3 DEF IsSum
  <1>3. Nat \subseteq P
    <2> HIDE DEF P
    <2> QED
      BY <1>1, <1>2, Induction
  <1> QED
    BY <1>3, SubsetSizes

AddsUp(g, f, S) == \A s \in SUBSET S : \A x \in s : g[s] = f[x] + g[s \ {x}]

\* A sum does not depend on the order: any element can be taken out of it.
LEMMA SumAnyOrder ==
  ASSUME NEW S, IsFiniteSet(S), NEW f \in [S -> Nat], NEW g \in [SUBSET S -> Nat], IsSum(g, f, S)
  PROVE  AddsUp(g, f, S)
  <1> DEFINE P == {n \in Nat : \A s \in SUBSET S : Cardinality(s) = n
                                  => \A x \in s : g[s] = f[x] + g[s \ {x}]}
  <1>1. 0 \in P
    BY SubsetSizes
  <1>2. ASSUME NEW n \in Nat, n \in P PROVE n + 1 \in P
    <2> SUFFICES ASSUME NEW s \in SUBSET S, Cardinality(s) = n + 1, NEW x \in s
                 PROVE  g[s] = f[x] + g[s \ {x}]
      OBVIOUS
    <2> DEFINE y == Some(s)
    <2>1. y \in s /\ g[s] = f[y] + g[s \ {y}]
      BY DEF IsSum, Some
    <2> HIDE DEF y
    <2>2. CASE x # y
      <3>1. Cardinality(s \ {y}) = n /\ Cardinality(s \ {x}) = n
        BY <2>1, SubsetSizes
      <3>2. g[s \ {y}] = f[x] + g[(s \ {y}) \ {x}]
        BY <1>2, <2>1, <2>2, <3>1
      <3>3. g[s \ {x}] = f[y] + g[(s \ {x}) \ {y}]
        BY <1>2, <2>1, <2>2, <3>1
      <3> DEFINE rest == g[(s \ {y}) \ {x}]
      <3>4. g[(s \ {x}) \ {y}] = rest
        <4>1. (s \ {x}) \ {y} = (s \ {y}) \ {x}
          OBVIOUS
        <4> QED
          BY <4>1
      <3>5. f[x] \in Nat /\ f[y] \in Nat /\ rest \in Nat
        BY <2>1
      <3>6. g[s] = f[y] + (f[x] + rest) /\ g[s \ {x}] = f[y] + rest
        BY <2>1, <3>2, <3>3, <3>4
      <3> HIDE DEF rest
      <3> QED
        BY <3>5, <3>6
    <2> QED
      BY <2>1, <2>2
  <1>3. Nat \subseteq P
    <2> HIDE DEF P
    <2> QED
      BY <1>1, <1>2, Induction
  <1> QED
    BY <1>3, SubsetSizes DEF AddsUp
-----------------------------------------------------------------------------
\* g is a fold over the numbers from 1 to n, from the left, as FoldLeft does it.
IsFold(g, base, step, n) ==
  g = [S \in SUBSET (1..n) |-> IF S = {} THEN base ELSE step[<<g[S \ {Max(S)}], Max(S)>>]]

\* The greatest of some numbers up to n.
LEMMA MaxOfNumbers ==
  ASSUME NEW n \in Nat, NEW S \in SUBSET (0..n), S # {}
  PROVE  Max(S) \in S /\ \A m \in S : m <= Max(S)
  <1> DEFINE T == {n - m : m \in S}
  <1>1. T \subseteq Nat /\ T # {}
    <2>1. \A m \in S : m \in Nat /\ m <= n /\ n - m \in Nat
      OBVIOUS
    <2>2. PICK m \in S : TRUE
      OBVIOUS
    <2>3. n - m \in T
      BY <2>2
    <2> QED
      BY <2>1, <2>3
  <1>2. PICK k \in T : \A l \in T : k <= l
    BY <1>1, LeastNatural
  <1>3. PICK m \in S : k = n - m
    BY <1>2
  <1>4. ASSUME NEW l \in S PROVE m >= l
    <2>1. n - m <= n - l
      BY <1>2, <1>3
    <2> QED
      BY <2>1
  <1>5. \E x \in S : \A y \in S : x >= y
    BY <1>4
  <1>6. Max(S) \in S /\ \A y \in S : Max(S) >= y
    BY <1>5 DEF Max
  <1> QED
    BY <1>6

\* The greatest of the first k numbers, and those before it.
LEMMA MaxOfInterval ==
  ASSUME NEW k \in Nat \ {0}
  PROVE  Max(1..k) = k /\ (1..k) \ {k} = 1..k - 1
  <1>1. k \in Nat /\ k \in 1..k /\ 1..k \in SUBSET (0..k) /\ 1..k # {}
    OBVIOUS
  <1>2. Max(1..k) \in 1..k /\ k <= Max(1..k)
    BY <1>1, MaxOfNumbers
  <1> QED
    BY <1>2

\* The greatest of some places.
LEMMA MaxOfPlaces ==
  ASSUME NEW n \in Nat
  PROVE  \A S \in SUBSET (1..n) : S # {} => Max(S) \in 1..n /\ S \ {Max(S)} \in SUBSET (1..n)
  <1> SUFFICES ASSUME NEW S \in SUBSET (1..n), S # {}
               PROVE  Max(S) \in 1..n /\ S \ {Max(S)} \in SUBSET (1..n)
    OBVIOUS
  <1>1. S \in SUBSET (0..n)
    OBVIOUS
  <1>2. Max(S) \in S
    BY <1>1, MaxOfNumbers
  <1> QED
    BY <1>2

\* The accumulator of FoldLeft is a function of the sets of indices it has gone
\* through.
LEMMA FoldExists ==
  ASSUME NEW n \in Nat, NEW V, NEW base \in V, NEW step \in [V \X (1..n) -> V]
  PROVE  \E g \in [SUBSET (1..n) -> V] : IsFold(g, base, step, n)
  <1> DEFINE D == SUBSET (1..n)
             size == [S \in D |-> Cardinality(S)]
             Step(S, g) == IF S = {} THEN base ELSE step[<<g[S \ {Max(S)}], Max(S)>>]
             rec == [p \in D \X [D -> V] |-> Step(p[1], p[2])]
  <1>1. IsFiniteSet(1..n)
    BY FS_Interval
  <1>2. /\ size \in [D -> Nat] /\ Cardinality(1..n) \in Nat
        /\ \A S \in D : size[S] <= Cardinality(1..n)
    BY <1>1, SubsetSizes, FS_CardinalityType
  <1>3. \A S \in D : S # {} => Max(S) \in S /\ Max(S) \in 1..n /\ S \ {Max(S)} \in D
    <2>1. \A S \in D : S \in SUBSET (0..n)
      BY SMT
    <2>2. \A S \in D : S # {} => Max(S) \in S
      BY <2>1, MaxOfNumbers
    <2> QED
      BY <2>2
  <1>4. ASSUME NEW S \in D, NEW g \in [D -> V] PROVE Step(S, g) \in V
    BY <1>3
  <1>5. rec \in [D \X [D -> V] -> V]
    BY <1>4
  <1>6. \A S \in D, g \in [D -> V] : rec[<<S, g>>] = Step(S, g)
    OBVIOUS
  <1>7. \A S \in D : size[S] = Cardinality(S)
    OBVIOUS
  <1> HIDE DEF size
  <1>8. ASSUME NEW S \in D, NEW g \in [D -> V], NEW h \in [D -> V],
               \A T \in D : size[T] < size[S] => g[T] = h[T]
        PROVE  Step(S, g) = Step(S, h)
    <2>1. CASE S # {}
      <3>1. Max(S) \in S /\ S \ {Max(S)} \in D
        BY <1>3, <2>1
      <3>2. size[S \ {Max(S)}] = size[S] - 1 /\ size[S] \in Nat
        <4>1. Cardinality(S \ {Max(S)}) = Cardinality(S) - 1
          BY <1>1, <3>1, SubsetSizes
        <4> QED
          BY <1>2, <1>7, <3>1, <4>1
      <3>3. g[S \ {Max(S)}] = h[S \ {Max(S)}]
        BY <1>8, <3>1, <3>2
      <3> QED
        BY <3>3
    <2> QED
      BY <2>1
  <1>9. Descends(rec, size, D, V)
    <2> SUFFICES ASSUME NEW S \in D, NEW g \in [D -> V], NEW h \in [D -> V],
                        \A T \in D : size[T] < size[S] => g[T] = h[T]
                 PROVE  rec[<<S, g>>] = rec[<<S, h>>]
      BY DEF Descends
    <2> HIDE DEF rec, Step
    <2>1. Step(S, g) = Step(S, h)
      BY <1>8
    <2> QED
      BY <1>6, <2>1
  <1>10. \E g \in [D -> V] : Solves(g, rec, D)
    <2> HIDE DEF D, rec, Step
    <2>1. V # {}
      OBVIOUS
    <2> QED
      BY <1>2, <1>5, <1>9, <2>1, RecursiveFunction
  <1>11. PICK g \in [D -> V] : g = [S \in D |-> rec[<<S, g>>]]
    BY <1>10 DEF Solves
  <1>12. g = [S \in D |-> Step(S, g)]
    BY <1>6, <1>11
  <1> QED
    BY <1>12 DEF IsFold

\* c is a fold in V, as far as it is in V.
FoldsIn(c, V, base, step, n) ==
  /\ base \in V /\ \A v \in V, k \in 1..n : step[<<v, k>>] \in V
  /\ c[{}] = base
  /\ \A S \in SUBSET (1..n) :
       S # {} /\ c[S \ {Max(S)}] \in V => c[S] = step[<<c[S \ {Max(S)}], Max(S)>>]

\* What has been accumulated after each element.
Accumulates(acc, V, base, step, n) ==
  /\ acc \in [0..n -> V] /\ acc[0] = base
  /\ \A k \in 1..n : acc[k] = step[<<acc[k - 1], k>>]

\* The sets of indices that FoldLeft goes through are 1..0, 1..1, ..., 1..n.
LEMMA FoldRuns ==
  ASSUME NEW n \in Nat, NEW V, NEW base, NEW step, NEW c, FoldsIn(c, V, base, step, n)
  PROVE  \E acc : Accumulates(acc, V, base, step, n) /\ acc[n] = c[1..n]
  <1>1. c[1..0] = base
    <2>1. 1..0 = {}
      OBVIOUS
    <2> QED
      BY <2>1 DEF FoldsIn
  <1>2. ASSUME NEW k \in 1..n, c[1..k - 1] \in V PROVE c[1..k] = step[<<c[1..k - 1], k>>]
    <2>1. Max(1..k) = k /\ (1..k) \ {k} = 1..k - 1
      BY MaxOfInterval
    <2>2. 1..k \in SUBSET (1..n) /\ 1..k # {}
      <3>1. k \in 1..k
        OBVIOUS
      <3>2. ASSUME NEW i \in 1..k PROVE i \in 1..n
        OBVIOUS
      <3> QED
        BY <3>1, <3>2
    <2> QED
      BY <1>2, <2>1, <2>2 DEF FoldsIn
  <1> DEFINE P == {k \in Nat : k <= n => c[1..k] \in V}
  <1>3. Nat \subseteq P
    <2>1. 0 \in P
      BY <1>1 DEF FoldsIn
    <2>2. ASSUME NEW k \in Nat, k \in P PROVE k + 1 \in P
      <3> SUFFICES ASSUME k + 1 <= n PROVE c[1..k + 1] \in V
        OBVIOUS
      <3>1. PICK j \in 1..n : j = k + 1 /\ j - 1 = k
        OBVIOUS
      <3>2. c[1..k] \in V
        BY <2>2
      <3>3. c[1..j] = step[<<c[1..k], j>>]
        BY <1>2, <3>1, <3>2
      <3> QED
        BY <3>1, <3>2, <3>3 DEF FoldsIn
    <2> HIDE DEF P
    <2> QED
      BY <2>1, <2>2, Induction
  <1>4. PICK acc : acc = [k \in 0..n |-> c[1..k]]
    OBVIOUS
  <1>5. acc \in [0..n -> V]
    BY <1>3, <1>4
  <1>6. acc[0] = base /\ acc[n] = c[1..n]
    BY <1>1, <1>4
  <1>7. ASSUME NEW k \in 1..n PROVE acc[k] = step[<<acc[k - 1], k>>]
    <2>1. k \in 0..n /\ k - 1 \in 0..n
      OBVIOUS
    <2>2. acc[k] = c[1..k] /\ acc[k - 1] = c[1..k - 1] /\ acc[k - 1] \in V
      BY <1>4, <1>5, <2>1
    <2> QED
      BY <1>2, <2>2
  <1> QED
    BY <1>5, <1>6, <1>7 DEF Accumulates

\* What a fold accumulates is determined.
LEMMA AccumulatesOnce ==
  ASSUME NEW n \in Nat, NEW V, NEW base, NEW step, NEW W,
         NEW a, Accumulates(a, V, base, step, n), NEW b, Accumulates(b, W, base, step, n)
  PROVE  a[n] = b[n]
  <1> DEFINE P == {k \in Nat : k <= n => a[k] = b[k]}
  <1>1. 0 \in P
    BY DEF Accumulates
  <1>2. ASSUME NEW k \in Nat, k \in P PROVE k + 1 \in P
    <2> SUFFICES ASSUME k + 1 <= n PROVE a[k + 1] = b[k + 1]
      OBVIOUS
    <2>1. PICK j \in 1..n : j = k + 1 /\ j - 1 = k
      OBVIOUS
    <2>2. a[k] = b[k]
      BY <1>2
    <2>3. a[j] = step[<<a[j - 1], j>>] /\ b[j] = step[<<b[j - 1], j>>]
      BY DEF Accumulates
    <2> QED
      BY ONLY <2>1, <2>2, <2>3
  <1>3. Nat \subseteq P
    <2> HIDE DEF P
    <2> QED
      BY <1>1, <1>2, Induction
  <1> QED
    BY <1>3
-----------------------------------------------------------------------------
(***************************************************************************)
(* Concatenations.  Layout(o, ss): the i-th of the sequences ss begins     *)
(* after o[i - 1] elements.                                                *)
(***************************************************************************)
Layout(o, ss) ==
  /\ o \in [0..Len(ss) -> Nat]
  /\ o[0] = 0
  /\ \A i \in 1..Len(ss) : o[i] = o[i - 1] + Len(ss[i])

\* Every sequence of sequences has a layout.
LEMMA LayoutExists ==
  ASSUME NEW V, NEW ss \in Seq(Seq(V))
  PROVE  \E o : Layout(o, ss)
  <1> DEFINE D == 0..Len(ss)
             size == [i \in D |-> i]
             Step(i, g) == IF i = 0 THEN 0 ELSE g[i - 1] + Len(ss[i])
             step == [p \in D \X [D -> Nat] |-> Step(p[1], p[2])]
  <1>1. Len(ss) \in Nat /\ \A i \in 1..Len(ss) : ss[i] \in Seq(V) /\ Len(ss[i]) \in Nat
    BY LenProperties, ElementOfSeq
  <1>2. \A i \in D : i # 0 => i \in 1..Len(ss) /\ i - 1 \in D /\ i - 1 < i
    BY <1>1
  <1>3. ASSUME NEW i \in D, NEW g \in [D -> Nat] PROVE Step(i, g) \in Nat
    <2>1. CASE i # 0
      <3>1. g[i - 1] \in Nat /\ Len(ss[i]) \in Nat
        BY <1>1, <1>2, <2>1
      <3> QED
        BY <2>1, <3>1
    <2> QED
      BY <2>1
  <1>4. step \in [D \X [D -> Nat] -> Nat]
    BY <1>3
  <1>5. \A i \in D, g \in [D -> Nat] : step[<<i, g>>] = Step(i, g)
    OBVIOUS
  <1>6. ASSUME NEW i \in D, NEW g \in [D -> Nat], NEW h \in [D -> Nat],
               \A j \in D : j < i => g[j] = h[j]
        PROVE  Step(i, g) = Step(i, h)
    BY <1>2, <1>6
  <1>7. Descends(step, size, D, Nat)
    <2> SUFFICES ASSUME NEW i \in D, NEW g \in [D -> Nat], NEW h \in [D -> Nat],
                        \A j \in D : size[j] < size[i] => g[j] = h[j]
                 PROVE  step[<<i, g>>] = step[<<i, h>>]
      BY DEF Descends
    <2>1. \A j \in D : j < i => g[j] = h[j]
      OBVIOUS
    <2> HIDE DEF step, Step, D
    <2>2. Step(i, g) = Step(i, h)
      BY <1>6, <2>1
    <2> QED
      BY <1>5, <2>2
  <1>8. \E g \in [D -> Nat] : Solves(g, step, D)
    <2>1. size \in [D -> Nat] /\ Nat # {}
      BY <1>1
    <2> HIDE DEF D, step, Step, size
    <2> QED
      BY <1>4, <1>7, <2>1, RecursiveFunction
  <1>9. PICK o \in [D -> Nat] : o = [i \in D |-> step[<<i, o>>]]
    BY <1>8 DEF Solves
  <1>10. \A i \in D : o[i] = Step(i, o)
    <2> HIDE DEF D, step, Step
    <2> QED
      BY <1>5, <1>9
  <1>11. Layout(o, ss)
    <2>1. o[0] = 0
      <3>1. 0 \in D
        BY <1>1
      <3> QED
        BY <1>10, <3>1
    <2>2. ASSUME NEW i \in 1..Len(ss) PROVE o[i] = o[i - 1] + Len(ss[i])
      <3>1. i \in D /\ i # 0
        BY <1>1
      <3> QED
        BY <1>10, <3>1
    <2> QED
      BY <2>1, <2>2 DEF Layout
  <1> QED
    BY <1>11

\* A sequence begins where those before it have ended.
LEMMA LayoutGrows ==
  ASSUME NEW V, NEW ss \in Seq(Seq(V)), NEW o, Layout(o, ss)
  PROVE  \A i, j \in 0..Len(ss) : i <= j => o[i] <= o[j]
  <1> DEFINE P == {j \in Nat : j <= Len(ss) => \A i \in 0..Len(ss) : i <= j => o[i] <= o[j]}
  <1>1. Len(ss) \in Nat /\ \A i \in 1..Len(ss) : Len(ss[i]) \in Nat
    BY LenProperties, ElementOfSeq
  <1>2. \A i \in 0..Len(ss) : o[i] \in Nat
    BY DEF Layout
  <1>3. 0 \in P
    BY <1>1, <1>2
  <1>4. ASSUME NEW j \in Nat, j \in P PROVE j + 1 \in P
    <2> SUFFICES ASSUME j + 1 <= Len(ss), NEW i \in 0..Len(ss), i <= j + 1 PROVE o[i] <= o[j + 1]
      OBVIOUS
    <2>1. j + 1 \in 1..Len(ss) /\ j \in 0..Len(ss) /\ (j + 1) - 1 = j /\ j <= Len(ss)
      BY <1>1
    <2>2. o[j + 1] = o[j] + Len(ss[j + 1]) /\ Len(ss[j + 1]) \in Nat /\ o[j] \in Nat /\ o[i] \in Nat
      BY <1>1, <1>2, <2>1 DEF Layout
    <2>3. CASE i <= j
      <3>1. o[i] <= o[j]
        BY <1>4, <2>1, <2>3
      <3> QED
        BY <2>2, <3>1
    <2>4. CASE i = j + 1
      BY <2>2, <2>4
    <2> QED
      BY <2>3, <2>4
  <1>5. Nat \subseteq P
    <2> HIDE DEF P
    <2> QED
      BY <1>3, <1>4, Induction
  <1> QED
    BY <1>1, <1>5

\* g[i] is the concatenation of the first i sequences, as FlattenSeq computes it.
Flattens(g, ss) ==
  g = [i \in 1..Len(ss) |-> IF i = 1 THEN ss[i] ELSE g[i - 1] \o ss[i]]

\* What FlattenSeq has put together after each sequence.
LEMMA FlattenExists ==
  ASSUME NEW V, NEW ss \in Seq(Seq(V)), Len(ss) # 0
  PROVE  \E g \in [1..Len(ss) -> Seq(V)] : Flattens(g, ss)
  <1> DEFINE D == 1..Len(ss)
             size == [i \in D |-> i]
             Step(i, g) == IF i = 1 THEN ss[i] ELSE g[i - 1] \o ss[i]
             step == [p \in D \X [D -> Seq(V)] |-> Step(p[1], p[2])]
  <1>1. Len(ss) \in Nat /\ \A i \in D : ss[i] \in Seq(V)
    BY LenProperties, ElementOfSeq
  <1>2. \A i \in D : i # 1 => i - 1 \in D /\ i - 1 < i
    BY <1>1
  <1>3. ASSUME NEW i \in D, NEW g \in [D -> Seq(V)] PROVE Step(i, g) \in Seq(V)
    <2>1. CASE i # 1
      <3>1. g[i - 1] \in Seq(V) /\ ss[i] \in Seq(V)
        BY <1>1, <1>2, <2>1
      <3> QED
        BY <2>1, <3>1
    <2> QED
      BY <1>1, <2>1
  <1>4. step \in [D \X [D -> Seq(V)] -> Seq(V)]
    BY <1>3
  <1>5. \A i \in D, g \in [D -> Seq(V)] : step[<<i, g>>] = Step(i, g)
    OBVIOUS
  <1>6. ASSUME NEW i \in D, NEW g \in [D -> Seq(V)], NEW h \in [D -> Seq(V)],
               \A j \in D : j < i => g[j] = h[j]
        PROVE  Step(i, g) = Step(i, h)
    BY <1>2, <1>6
  <1>7. Descends(step, size, D, Seq(V))
    <2> SUFFICES ASSUME NEW i \in D, NEW g \in [D -> Seq(V)], NEW h \in [D -> Seq(V)],
                        \A j \in D : size[j] < size[i] => g[j] = h[j]
                 PROVE  step[<<i, g>>] = step[<<i, h>>]
      BY DEF Descends
    <2>1. \A j \in D : j < i => g[j] = h[j]
      OBVIOUS
    <2> HIDE DEF step, Step, D
    <2>2. Step(i, g) = Step(i, h)
      BY <1>6, <2>1
    <2> QED
      BY <1>5, <2>2
  <1>8. \E g \in [D -> Seq(V)] : Solves(g, step, D)
    <2>1. size \in [D -> Nat]
      BY <1>1
    <2>2. Seq(V) # {}
      BY EmptySeq
    <2> HIDE DEF D, step, Step, size
    <2> QED
      BY <1>4, <1>7, <2>1, <2>2, RecursiveFunction
  <1>9. PICK g \in [D -> Seq(V)] : g = [i \in D |-> step[<<i, g>>]]
    BY <1>8 DEF Solves
  <1>10. g = [i \in D |-> Step(i, g)]
    <2> HIDE DEF D, step, Step
    <2> QED
      BY <1>5, <1>9
  <1> QED
    BY <1>10 DEF Flattens

\* Where the elements of the sequences are in their concatenation.
Flattened(s, o, ss) ==
  /\ Len(s) = o[Len(ss)]
  /\ \A i \in 1..Len(ss) : \A k \in 1..Len(ss[i]) : s[o[i - 1] + k] = ss[i][k]

\* FlattenSeq puts the sequences where the layout says.
LEMMA FlattenLayout ==
  ASSUME NEW V, NEW ss \in Seq(Seq(V)), NEW o, Layout(o, ss)
  PROVE  FlattenSeq(ss) \in Seq(V) /\ Flattened(FlattenSeq(ss), o, ss)
  <1>1. Len(ss) \in Nat /\ \A i \in 1..Len(ss) : ss[i] \in Seq(V) /\ Len(ss[i]) \in Nat
    BY LenProperties, ElementOfSeq
  <1>2. CASE Len(ss) = 0
    <2>1. FlattenSeq(ss) = <<>> /\ ss = <<>>
      BY <1>2, EmptySeq DEF FlattenSeq
    <2> QED
      BY <1>2, <2>1, EmptySeq DEF Layout, Flattened
  <1>3. CASE Len(ss) # 0
    <2>1. FlattenSeq(ss) = (CHOOSE g : Flattens(g, ss))[Len(ss)]
      BY <1>3 DEF FlattenSeq, Flattens
    <2>2. PICK g : Flattens(g, ss) /\ FlattenSeq(ss) = g[Len(ss)]
      <3>1. \E g : Flattens(g, ss)
        BY <1>3, FlattenExists
      <3> QED
        BY <2>1, <3>1
    <2> DEFINE Good(n) == /\ g[n] \in Seq(V) /\ Len(g[n]) = o[n]
                          /\ \A i \in 1..n : \A k \in 1..Len(ss[i]) : g[n][o[i - 1] + k] = ss[i][k]
               P == {n \in Nat : n + 1 <= Len(ss) => Good(n + 1)}
    <2>3. o[0] = 0 /\ \A i \in 0..Len(ss) : o[i] \in Nat
      BY DEF Layout
    <2>4. 0 \in P
      <3>1. 1 \in 1..Len(ss) /\ g[1] = ss[1] /\ 1 - 1 = 0
        BY <1>1, <1>3, <2>2 DEF Flattens
      <3>2. o[1] = Len(ss[1])
        <4>1. o[1] = o[0] + Len(ss[1])
          BY <3>1 DEF Layout
        <4> QED
          BY <1>1, <2>3, <3>1, <4>1
      <3>3. \A k \in 1..Len(ss[1]) : g[1][o[0] + k] = ss[1][k]
        BY <1>1, <2>3, <3>1
      <3>4. Good(1)
        BY <1>1, <3>1, <3>2, <3>3
      <3> QED
        BY <3>4
    <2> HIDE DEF Good
    <2>5. ASSUME NEW n \in Nat, n \in P PROVE n + 1 \in P
      <3> SUFFICES ASSUME (n + 1) + 1 <= Len(ss) PROVE Good((n + 1) + 1)
        OBVIOUS
      <3>1. PICK m \in Nat : m = n + 1 /\ m + 1 <= Len(ss)
        OBVIOUS
      <3>2. m + 1 \in 1..Len(ss) /\ m + 1 # 1 /\ (m + 1) - 1 = m /\ m \in 1..Len(ss)
        BY <1>1, <3>1
      <3>3. Good(m)
        BY <1>1, <2>5, <3>1
      <3>4. PICK a \in Seq(V), b \in Seq(V) :
               a = g[m] /\ b = ss[m + 1] /\ g[m + 1] = a \o b
        BY <1>1, <2>2, <3>2, <3>3 DEF Good, Flattens
      <3>4a. PICK c : c = g[m + 1] /\ c = a \o b
        BY <3>4
      <3>5. o[m + 1] = o[m] + Len(b) /\ o[m] \in Nat /\ o[m] = Len(a) /\ Len(b) \in Nat
        <4>1. o[m] \in Nat /\ o[m] = Len(a)
          BY <1>1, <3>2, <3>3, <3>4 DEF Layout, Good
        <4>2. Len(b) \in Nat
          OBVIOUS
        <4>3. o[m + 1] = o[m] + Len(b)
          BY <3>2, <3>4 DEF Layout
        <4> QED
          BY <4>1, <4>2, <4>3
      <3>6. /\ c \in Seq(V) /\ Len(c) = o[m + 1]
            /\ \A k \in 1..Len(a) : c[k] = a[k]
            /\ \A k \in 1..Len(b) : c[o[m] + k] = b[k]
        <4>1. /\ a \o b \in Seq(V) /\ Len(a \o b) = Len(a) + Len(b)
              /\ \A k \in 1..Len(a) + Len(b) :
                   (a \o b)[k] = IF k <= Len(a) THEN a[k] ELSE b[k - Len(a)]
          BY ConcatProperties
        <4>2. \A k \in 1..Len(a) : k \in 1..Len(a) + Len(b) /\ k <= Len(a)
          BY <3>5
        <4>3. \A k \in 1..Len(b) : /\ Len(a) + k \in 1..Len(a) + Len(b)
                                   /\ ~(Len(a) + k <= Len(a)) /\ (Len(a) + k) - Len(a) = k
          BY <3>5
        <4>4. c \in Seq(V) /\ Len(c) = o[m + 1]
          BY <3>4, <3>4a, <3>5, <4>1
        <4>5. \A k \in 1..Len(a) : c[k] = a[k]
          BY <3>4, <3>4a, <4>1, <4>2
        <4>6. \A k \in 1..Len(b) : c[Len(a) + k] = b[k]
          BY <3>4, <3>4a, <4>1, <4>3
        <4> QED
          BY <3>5, <4>4, <4>5, <4>6
      <3>7. ASSUME NEW i \in 1..m, NEW k \in 1..Len(ss[i])
            PROVE  c[o[i - 1] + k] = ss[i][k]
        <4>1. i \in 1..Len(ss) /\ i - 1 \in 0..Len(ss) /\ m \in 0..Len(ss) /\ i \in 0..Len(ss) /\ i <= m
          BY <1>1, <3>2
        <4>2. o[i] = o[i - 1] + Len(ss[i]) /\ o[i] <= o[m] /\ o[i - 1] \in Nat /\ Len(ss[i]) \in Nat
          BY <1>1, <2>3, <4>1, LayoutGrows DEF Layout
        <4>3. o[i - 1] + k \in 1..Len(a)
          <5>1. PICK x \in Nat, y \in Nat, z \in Nat : x = o[i - 1] /\ y = Len(ss[i]) /\ z = Len(a)
            BY <3>5, <4>2
          <5>2. k \in 1..y /\ x + y <= z
            BY <3>5, <4>2, <5>1
          <5>3. k \in Nat /\ 1 <= k /\ k <= y
            BY <5>2
          <5>4. x + k \in 1..z
            BY <5>2, <5>3
          <5> QED
            BY <5>1, <5>4
        <4>4. c[o[i - 1] + k] = a[o[i - 1] + k]
          BY <3>6, <4>3
        <4>5. a[o[i - 1] + k] = ss[i][k]
          BY <3>3, <3>4, <3>4a DEF Good
        <4> QED
          BY <4>4, <4>5
      <3>8. ASSUME NEW i \in 1..m + 1, NEW k \in 1..Len(ss[i])
            PROVE  c[o[i - 1] + k] = ss[i][k]
        <4>1. CASE i \in 1..m
          BY <3>7, <4>1
        <4>2. CASE i = m + 1
          BY <3>2, <3>4, <3>4a, <3>6, <4>2
        <4> QED
          BY <4>1, <4>2
      <3>9. Good(m + 1)
        BY <3>4, <3>4a, <3>6, <3>8 DEF Good
      <3> QED
        BY <3>1, <3>9
    <2>6. Nat \subseteq P
      <3> HIDE DEF P
      <3> QED
        BY <2>4, <2>5, Induction
    <2>7. Good(Len(ss))
      <3>1. Len(ss) - 1 \in Nat /\ (Len(ss) - 1) + 1 = Len(ss)
        BY <1>1, <1>3
      <3>2. Len(ss) - 1 \in P
        BY <2>6, <3>1
      <3>3. (Len(ss) - 1) + 1 <= Len(ss) => Good((Len(ss) - 1) + 1)
        BY <3>2
      <3> QED
        BY <1>1, <3>1, <3>3
    <2> QED
      BY <2>2, <2>7 DEF Good, Flattened
  <1> QED
    BY <1>2, <1>3

\* Each element of a concatenation is an element of one of the sequences.
Covers(o, ss) ==
  \A d \in 1..o[Len(ss)] : \E i \in 1..Len(ss) : \E k \in 1..Len(ss[i]) : d = o[i - 1] + k

\* Each place of the flat sequence is in one of the sequences.
LEMMA FlattenPlaces ==
  ASSUME NEW V, NEW ss \in Seq(Seq(V)), NEW o, Layout(o, ss)
  PROVE  Covers(o, ss)
  <1> SUFFICES ASSUME NEW d \in 1..o[Len(ss)]
               PROVE  \E i \in 1..Len(ss) : \E k \in 1..Len(ss[i]) : d = o[i - 1] + k
    BY DEF Covers
  <1> DEFINE T == {i \in 0..Len(ss) : d <= o[i]}
  <1>1. Len(ss) \in Nat /\ \A i \in 1..Len(ss) : Len(ss[i]) \in Nat
    BY LenProperties, ElementOfSeq
  <1>2. o[0] = 0 /\ \A i \in 0..Len(ss) : o[i] \in Nat
    BY DEF Layout
  <1>3. T \subseteq Nat /\ T # {}
    <2>1. Len(ss) \in T
      BY <1>1, <1>2
    <2> QED
      BY <2>1
  <1>4. PICK i \in T : \A j \in T : i <= j
    BY <1>3, LeastNatural
  <1>5. i # 0
    BY <1>2
  <1>6. i \in 1..Len(ss) /\ i - 1 \in 0..Len(ss) /\ i - 1 < i /\ d <= o[i]
    BY <1>1, <1>5
  <1>7. o[i - 1] < d
    <2>1. i - 1 \notin T
      BY <1>4, <1>6
    <2>2. ~(d <= o[i - 1]) /\ o[i - 1] \in Nat
      BY <1>2, <1>6, <2>1
    <2> QED
      BY <1>1, <1>2, <2>2
  <1>8. PICK x \in Nat, y \in Nat : x = o[i - 1] /\ y = Len(ss[i]) /\ o[i] = x + y
    BY <1>1, <1>2, <1>6 DEF Layout
  <1>9. d - x \in 1..y /\ d = x + (d - x)
    <2>1. x < d /\ d <= x + y
      BY <1>6, <1>7, <1>8
    <2>2. d \in Nat
      BY <1>2
    <2> QED
      BY <2>1, <2>2
  <1> QED
    BY <1>6, <1>8, <1>9

\* The length of what is made of the first n sequences.
PrefixLengths(o, ss) ==
  \A n \in 0..Len(ss) : Len(FlattenSeq(SubSeq(ss, 1, n))) = o[n]

\* The first n sequences, flattened, are as long as the layout says.
LEMMA PrefixLength ==
  ASSUME NEW V, NEW ss \in Seq(Seq(V)), NEW o, Layout(o, ss)
  PROVE  PrefixLengths(o, ss)
  <1> SUFFICES ASSUME NEW n \in 0..Len(ss)
               PROVE  Len(FlattenSeq(SubSeq(ss, 1, n))) = o[n]
    BY DEF PrefixLengths
  <1>1. PICK t : t = SubSeq(ss, 1, n)
    OBVIOUS
  <1>2. Len(ss) \in Nat /\ n \in Nat /\ n <= Len(ss)
    BY LenProperties
  <1>3. t \in Seq(Seq(V)) /\ Len(t) = n /\ \A i \in 1..n : t[i] = ss[i]
    <2>1. \A i \in 1..n : i \in 1..Len(ss)
      BY <1>2
    <2>2. \A i \in 1..n : ss[i] \in Seq(V)
      BY <2>1, ElementOfSeq
    <2> QED
      BY <1>1, <1>2, <2>2, SubSeqProperties
  <1>4. PICK p : p = [i \in 0..n |-> o[i]]
    OBVIOUS
  <1>5. Layout(p, t)
    <2>1. \A i \in 0..n : i \in 0..Len(ss) /\ o[i] \in Nat
      <3>1. \A i \in 0..n : i \in 0..Len(ss)
        BY <1>2
      <3>2. \A i \in 0..Len(ss) : o[i] \in Nat
        BY DEF Layout
      <3> QED
        BY <3>1, <3>2
    <2>2. p \in [0..n -> Nat] /\ p[0] = 0
      <3>1. 0 \in 0..n
        BY <1>2
      <3> QED
        BY <1>4, <2>1, <3>1 DEF Layout
    <2>3. ASSUME NEW i \in 1..n PROVE p[i] = p[i - 1] + Len(t[i])
      <3>1. i \in 0..n /\ i - 1 \in 0..n /\ i \in 1..Len(ss)
        BY <1>2
      <3> QED
        BY <1>3, <1>4, <3>1 DEF Layout
    <2> QED
      BY <1>3, <2>2, <2>3 DEF Layout
  <1>6. Len(FlattenSeq(t)) = p[n] /\ p[n] = o[n]
    BY <1>2, <1>3, <1>4, <1>5, FlattenLayout DEF Flattened
  <1> QED
    BY <1>1, <1>3, <1>6
=============================================================================
