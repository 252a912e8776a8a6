------------------------------ MODULE DocSets -------------------------------
(***************************************************************************)
(* The merges of sorted posting lists (lakesearch-core/src/boolean.rs),    *)
(* and how sets are put in order.  All three merges walk two pointers over *)
(* the lists; they differ in which heads they push and which tails they    *)
(* append.                                                                 *)
(***************************************************************************)
EXTENDS Naturals, Sequences, SequencesExt

IsSortedSet(s) == \A i, j \in DOMAIN s : i < j => s[i] < s[j]

\* A set of numbers in ascending order: the n-th has n - 1 before it.
Ascending(S) ==
  [n \in 1..Cardinality(S) |-> CHOOSE x \in S : Cardinality({y \in S : y < x}) = n - 1]

\* A set in another order, given as the pairs of which the first comes first.
InOrder(S, before) ==
  [n \in 1..Cardinality(S) |->
     CHOOSE x \in S : Cardinality({y \in S : <<y, x>> \in before}) = n - 1]

\* The elements of a sequence at some of its places.
Chosen(s, places) == LET at == Ascending(places) IN [n \in DOMAIN at |-> s[at[n]]]

(***************************************************************************)
(* push[p] is what the loop still pushes from the pointers p[1] into a and *)
(* p[2] into b on: pushed names the outcomes of a[i].cmp(&b[j]) whose head *)
(* is pushed, and tailA, tailB say whether the rest of a list is appended  *)
(* at the end.                                                             *)
(***************************************************************************)
Pointers(a, b) == (1..Len(a) + 1) \X (1..Len(b) + 1)
Head1(pushed, outcome, doc) == IF outcome \in pushed THEN <<doc>> ELSE <<>>
Rest(keep, s, i) == IF keep THEN SubSeq(s, i, Len(s)) ELSE <<>>

Merge(a, b, pushed, tailA, tailB) ==
  LET push[p \in Pointers(a, b)] ==
        LET i == p[1]
            j == p[2]
        IN IF i > Len(a) \/ j > Len(b) THEN Rest(tailA, a, i) \o Rest(tailB, b, j)
           ELSE IF a[i] < b[j] THEN Head1(pushed, "less", a[i]) \o push[<<i + 1, j>>]
           ELSE IF a[i] > b[j] THEN Head1(pushed, "greater", b[j]) \o push[<<i, j + 1>>]
           ELSE Head1(pushed, "equal", a[i]) \o push[<<i + 1, j + 1>>]
  IN push[<<1, 1>>]

\* Mutant of union: a forgotten tail.
union_without_tail(a, b) == Merge(a, b, {"less", "equal", "greater"}, TRUE, FALSE)

intersect(a, b) == Merge(a, b, {"equal"}, FALSE, FALSE)
union(a, b) == Merge(a, b, {"less", "equal", "greater"}, TRUE, TRUE)
difference(a, b) == Merge(a, b, {"less"}, TRUE, FALSE)
=============================================================================
