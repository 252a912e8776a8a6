---------------------------- MODULE SearchProofs ----------------------------
(***************************************************************************)
(* What a search relies on, for tables of any size.                        *)
(***************************************************************************)
EXTENDS Search, SegmentProofs

(***************************************************************************)
(* Of any two sorted lists, the merges return the intersection, the union  *)
(* and the difference, sorted and without duplicates.                      *)
(***************************************************************************)
THEOREM MergesAreSetOperations ==
  ASSUME NEW a, SortedList(a), NEW b, SortedList(b)
  PROVE  /\ Is(intersect(a, b), ToSet(a) \cap ToSet(b))
         /\ Is(union(a, b), ToSet(a) \cup ToSet(b))
         /\ Is(difference(a, b), ToSet(a) \ ToSet(b))
  <1>1. ASSUME NEW pushed
        PROVE  Is(Merge(a, b, pushed, "less" \in pushed, "greater" \in pushed),
                  Kept(ToSet(a), ToSet(b), pushed))
    BY MergeIsExact DEF Is, SortedList
  <1>2. Is(intersect(a, b), ToSet(a) \cap ToSet(b))
    <2>1. ~("less" \in {"equal"}) /\ ~("greater" \in {"equal"}) /\ "equal" \in {"equal"}
      OBVIOUS
    <2>2. Kept(ToSet(a), ToSet(b), {"equal"}) = ToSet(a) \cap ToSet(b)
      BY <2>1 DEF Kept
    <2>3. intersect(a, b) = Merge(a, b, {"equal"}, "less" \in {"equal"}, "greater" \in {"equal"})
      <3>1. ("less" \in {"equal"}) = FALSE /\ ("greater" \in {"equal"}) = FALSE
        BY <2>1
      <3> QED
        BY <3>1, Zenon DEF intersect
    <2> QED
      BY <1>1, <2>2, <2>3
  <1>3. Is(union(a, b), ToSet(a) \cup ToSet(b))
    <2> DEFINE all == {"less", "equal", "greater"}
    <2>1. "less" \in all /\ "greater" \in all /\ "equal" \in all
      OBVIOUS
    <2>2. union(a, b) = Merge(a, b, all, "less" \in all, "greater" \in all)
      BY <2>1 DEF union
    <2> HIDE DEF all
    <2>3. Kept(ToSet(a), ToSet(b), all) = ToSet(a) \cup ToSet(b)
      BY <2>1 DEF Kept
    <2> QED
      BY <1>1, <2>2, <2>3
  <1>4. Is(difference(a, b), ToSet(a) \ ToSet(b))
    <2>1. "less" \in {"less"} /\ ~("greater" \in {"less"}) /\ ~("equal" \in {"less"})
      OBVIOUS
    <2>2. Kept(ToSet(a), ToSet(b), {"less"}) = ToSet(a) \ ToSet(b)
      BY <2>1 DEF Kept
    <2>3. difference(a, b) = Merge(a, b, {"less"}, "less" \in {"less"}, "greater" \in {"less"})
      <3>1. ("less" \in {"less"}) = TRUE /\ ("greater" \in {"less"}) = FALSE
        BY <2>1
      <3> QED
        BY <3>1, Zenon DEF difference
    <2> QED
      BY <1>1, <2>2, <2>3
  <1> QED
    BY <1>2, <1>3, <1>4

-----------------------------------------------------------------------------
(***************************************************************************)
(* index_batches: one pass over the rows of a row group, page after page.  *)
(***************************************************************************)
\* A row has a term, and a page holds a row.
HasToken(group, row, t) == \E w \in ToSet(group.cells[row + 1].words) : TermOf[w] = t
InPage(entry, row) ==
  entry.first_row_index <= row /\ row < entry.first_row_index + entry.row_count

\* docs are the pages of a row group: each begins where the one before it ends,
\* and the last ends with the row group.
IsPaged(inventory, docs, rows) ==
  /\ docs \in Seq(Nat)
  /\ rows # 0 => Len(docs) # 0 /\ inventory[docs[1]].first_row_index = 0
  /\ \A p \in 1..Len(docs) :
       /\ inventory[docs[p]].first_row_index \in Nat /\ inventory[docs[p]].row_count \in Nat
       /\ p < Len(docs) => inventory[docs[p]].first_row_index + inventory[docs[p]].row_count
                             = inventory[docs[p + 1]].first_row_index
       /\ p = Len(docs) => inventory[docs[p]].first_row_index + inventory[docs[p]].row_count = rows
  /\ \A p, q \in 1..Len(docs) :
       p <= q => inventory[docs[p]].first_row_index <= inventory[docs[q]].first_row_index

\* The page that the pointer moves to is the one that holds the row.
LEMMA NextPageHoldsRow ==
  ASSUME NEW inventory, NEW docs, NEW rows \in Nat, IsPaged(inventory, docs, rows),
         NEW page \in 1..Len(docs), NEW row \in 0..rows - 1,
         inventory[docs[page]].first_row_index <= row
  PROVE  /\ NextPage(inventory, docs, page, row) \in 1..Len(docs)
         /\ inventory[docs[NextPage(inventory, docs, page, row)]].first_row_index <= row
         /\ \A d \in ToSet(docs) :
              InPage(inventory[d], row) <=> d = docs[NextPage(inventory, docs, page, row)]
  <1>1. PICK l \in Nat : l = Len(docs) /\ DOMAIN docs = 1..l
    BY LenProperties DEF IsPaged
  <1>2. PICK first, count :
          /\ first = [p \in 1..l |-> inventory[docs[p]].first_row_index]
          /\ count = [p \in 1..l |-> inventory[docs[p]].row_count]
    OBVIOUS
  <1>3. first \in [1..l -> Nat] /\ count \in [1..l -> Nat]
    BY <1>1, <1>2 DEF IsPaged
  <1>4. /\ \A p, q \in 1..l : p <= q => first[p] <= first[q]
        /\ \A p \in 1..l : p < l => first[p] + count[p] = first[p + 1]
        /\ \A p \in 1..l : p = l => first[p] + count[p] = rows
    <2>1. \A p \in 1..l : p < l => p + 1 \in 1..l
      OBVIOUS
    <2> QED
      BY <1>1, <1>2, <2>1 DEF IsPaged
  <1>5. PICK S : S = {page} \cup {p \in page..l : \A q \in page + 1..p : first[q] <= row}
    OBVIOUS
  <1>6. page \in 1..l /\ first[page] <= row
    BY <1>1, <1>2
  <1>7. NextPage(inventory, docs, page, row) = Max(S)
    <2>1. \A p \in page..l : \A q \in page + 1..p : q \in 1..l
      BY <1>6
    <2>2. \A p \in page..l : (\A q \in page + 1..p : inventory[docs[q]].first_row_index <= row)
                               <=> (\A q \in page + 1..p : first[q] <= row)
      BY <1>2, <2>1
    <2>3. {p \in page..l : \A q \in page + 1..p : first[q] <= row}
            = {p \in page..l : \A q \in page + 1..p : inventory[docs[q]].first_row_index <= row}
      BY <2>2
    <2> QED
      BY <1>1, <1>5, <2>3 DEF NextPage
  <1>8. PICK m : m = Max(S) /\ m \in S /\ \A s \in S : s <= m
    <2>1. S \in SUBSET (0..l) /\ S # {}
      BY <1>5, <1>6
    <2> QED
      BY <2>1, MaxOfNumbers
  <1>9. m \in 1..l /\ page <= m /\ first[m] <= row
    <2>1. CASE m = page
      BY <1>6, <2>1
    <2>2. CASE m # page
      <3>1. m \in page..l /\ \A q \in page + 1..m : first[q] <= row
        BY <1>5, <1>8, <2>2
      <3>2. m \in page + 1..m
        BY <1>6, <2>2, <3>1
      <3> QED
        BY <1>6, <3>1, <3>2
    <2> QED
      BY <2>1, <2>2
  <1>10. ASSUME m < l PROVE row < first[m + 1]
    <2> SUFFICES ASSUME first[m + 1] <= row PROVE FALSE
      <3>1. first[m + 1] \in Nat
        BY <1>3, <1>9, <1>10
      <3> QED
        BY <3>1
    <2>1. m + 1 \in page..l
      BY <1>6, <1>9, <1>10
    <2>2. ASSUME NEW q \in page + 1..m + 1 PROVE first[q] <= row
      <3>1. q \in 1..l /\ m + 1 \in 1..l /\ q <= m + 1
        BY <1>6, <1>9, <1>10
      <3>2. first[q] <= first[m + 1] /\ first[q] \in Nat /\ first[m + 1] \in Nat
        BY <1>3, <1>4, <3>1
      <3> QED
        BY <3>2
    <2>3. m + 1 \in S
      BY <1>5, <2>1, <2>2
    <2> QED
      BY <1>8, <1>9, <2>3
  <1>11. ASSUME NEW p \in 1..l
         PROVE  (first[p] <= row /\ row < first[p] + count[p]) <=> p = m
    <2>0. first[p] \in Nat /\ count[p] \in Nat /\ first[m] \in Nat /\ count[m] \in Nat
      BY <1>3, <1>9
    <2>1. CASE p < m
      <3>1. p + 1 \in 1..l /\ p < l /\ p + 1 <= m
        BY <1>9, <2>1
      <3>2. first[p] + count[p] = first[p + 1] /\ first[p + 1] <= first[m] /\ first[p + 1] \in Nat
        BY <1>3, <1>4, <1>9, <3>1
      <3>3. first[p] + count[p] <= first[m]
        BY <2>0, <3>2
      <3>4. first[m] <= row /\ row \in Nat
        BY <1>9
      <3>5. ~(row < first[p] + count[p]) /\ p # m
        BY <2>0, <2>1, <3>3, <3>4
      <3> QED
        BY <3>5
    <2>2. CASE p > m
      <3>1. m < l /\ m + 1 \in 1..l /\ m + 1 <= p
        BY <1>9, <2>2
      <3>2. first[m + 1] <= first[p] /\ first[m + 1] \in Nat /\ row < first[m + 1]
        BY <1>3, <1>4, <1>10, <3>1
      <3> QED
        BY <1>9, <2>0, <2>2, <3>2
    <2>3. CASE p = m
      <3>1. CASE m < l
        <4>1. first[m] + count[m] = first[m + 1]
          BY <1>4, <1>9, <3>1
        <4> QED
          BY <1>9, <1>10, <2>3, <3>1, <4>1
      <3>2. CASE m = l
        <4>1. first[m] + count[m] = rows
          BY <1>4, <1>9, <3>2
        <4> QED
          BY <1>9, <2>3, <4>1
      <3> QED
        BY <1>9, <3>1, <3>2
    <2> QED
      BY <1>9, <2>1, <2>2, <2>3
  <1>12. ASSUME NEW d \in ToSet(docs) PROVE InPage(inventory[d], row) <=> d = docs[m]
    <2>1. PICK p \in 1..l : d = docs[p]
      BY <1>1 DEF ToSet
    <2>2. InPage(inventory[d], row) <=> p = m
      BY <1>2, <1>11, <2>1 DEF InPage
    <2>3. InPage(inventory[docs[m]], row)
      BY <1>2, <1>9, <1>11 DEF InPage
    <2> QED
      BY <2>1, <2>2, <2>3
  <1> QED
    BY <1>1, <1>2, <1>7, <1>8, <1>9, <1>12


\* What index_batches accumulates, and that it stands for the first k rows.
Indexed(l) ==
  [page : 1..l, doc_ids : [Terms -> Seq(Nat)], doc_freq : [Terms -> Nat],
   total_rows : Nat, total_tokens : Nat]

\* No term is counted in more rows than there are.
NoneExceeds(frequency, found, rows) == \A t \in found : frequency[t] <= rows

RowsIndexed(inventory, docs, group, acc, k) ==
  /\ \A t \in Terms :
       /\ \A d : d \in ToSet(acc.doc_ids[t])
                   <=> /\ d \in ToSet(docs)
                       /\ \E row \in 0..k - 1 : HasToken(group, row, t) /\ InPage(inventory[d], row)
       /\ acc.doc_freq[t] = Cardinality({row \in 0..k - 1 : HasToken(group, row, t)})
  /\ IsFiniteSet({t \in Terms : acc.doc_ids[t] # <<>>})
  /\ NoneExceeds(acc.doc_freq, Terms, acc.total_rows)

\* The tokens of a row.
LEMMA TokensOfRow ==
  ASSUME NEW group, group.cells \in Seq(Cell), NEW row \in 0..num_rows(group) - 1,
         NEW tokens, tokens = tokenize(group.cells[row + 1])
  PROVE  /\ Len(tokens) \in Nat /\ IsFiniteSet(ToSet(tokens)) /\ ToSet(tokens) \subseteq Terms
         /\ \A t : t \in ToSet(tokens) <=> HasToken(group, row, t)
  <1>1. PICK words \in Seq(Words) : words = group.cells[row + 1].words
    <2>1. row + 1 \in 1..Len(group.cells)
      BY LenProperties DEF num_rows
    <2>2. group.cells[row + 1] \in Cell
      BY <2>1, ElementOfSeq
    <2>3. NullCell.words \in Seq(Words)
      BY EmptySeq DEF NullCell
    <2> QED
      BY <2>2, <2>3 DEF Cell
  <1>2. PICK n \in Nat : n = Len(words) /\ DOMAIN words = 1..n
    BY LenProperties
  <1>3. tokens = [k \in 1..n |-> TermOf[words[k]]]
    BY <1>1, <1>2 DEF tokenize
  <1>4. DOMAIN tokens = 1..n /\ Len(tokens) = n /\ \A k \in 1..n : tokens[k] = TermOf[words[k]]
    BY <1>3
  <1>5. \A k \in 1..n : words[k] \in Words /\ tokens[k] \in Terms
    BY <1>2, <1>4, ElementOfSeq, PageIndexAssumption
  <1>6. ToSet(tokens) = {tokens[k] : k \in 1..n}
    BY <1>4 DEF ToSet
  <1>7. IsFiniteSet(ToSet(tokens))
    <2>1. IsFiniteSet(1..n)
      BY FS_Interval
    <2>2. tokens \in Surjection(1..n, ToSet(tokens))
      <3>1. tokens \in [1..n -> ToSet(tokens)]
        <4>1. tokens = [k \in 1..n |-> tokens[k]]
          BY <1>3
        <4>2. \A k \in 1..n : tokens[k] \in ToSet(tokens)
          BY <1>6
        <4> QED
          BY <4>1, <4>2
      <3>2. \A x \in ToSet(tokens) : \E k \in 1..n : tokens[k] = x
        BY <1>6
      <3> QED
        BY <3>1, <3>2 DEF Surjection
    <2> QED
      BY <2>1, <2>2, FS_Surjection
  <1>8. ASSUME NEW t PROVE t \in ToSet(tokens) <=> HasToken(group, row, t)
    <2>1. ToSet(words) = {words[k] : k \in 1..n}
      BY <1>2 DEF ToSet
    <2>2. t \in ToSet(tokens) <=> \E k \in 1..n : TermOf[words[k]] = t
      BY <1>4, <1>6
    <2>3. HasToken(group, row, t) <=> \E k \in 1..n : TermOf[words[k]] = t
      BY <1>1, <2>1 DEF HasToken
    <2> QED
      BY <2>2, <2>3
  <1> QED
    BY <1>2, <1>4, <1>5, <1>6, <1>7, <1>8

\* The pointer stays within the pages, and the accumulated index typed.
LEMMA IndexRowType ==
  ASSUME NEW inventory, NEW group, group.cells \in Seq(Cell), NEW docs \in Seq(Nat),
         NEW row \in 0..num_rows(group) - 1, NEW acc \in Indexed(Len(docs))
  PROVE  IndexRow(inventory, docs, group, acc, row) \in Indexed(Len(docs))
  <1>1. PICK l \in Nat : l = Len(docs) /\ DOMAIN docs = 1..l
    BY LenProperties
  <1>2. PICK page : page = NextPage(inventory, docs, acc.page, row)
    OBVIOUS
  <1>3. page \in 1..l
    <2>1. PICK S : S = {acc.page} \cup {p \in acc.page..Len(docs) :
                     \A q \in acc.page + 1..p : inventory[docs[q]].first_row_index <= row}
      OBVIOUS
    <2>2. acc.page \in 1..l
      BY <1>1 DEF Indexed
    <2>3. S \in SUBSET (0..l) /\ S \subseteq 1..l /\ S # {}
      BY <1>1, <2>1, <2>2
    <2>4. Max(S) \in S
      BY <2>3, MaxOfNumbers
    <2>5. page = Max(S)
      BY <1>2, <2>1 DEF NextPage
    <2> QED
      BY <2>3, <2>4, <2>5
  <1>4. PICK doc \in Nat : doc = docs[page]
    BY <1>1, <1>3, ElementOfSeq
  <1>5. PICK tokens : tokens = tokenize(group.cells[row + 1]) /\ Len(tokens) \in Nat
    BY TokensOfRow
  <1> DEFINE New(t) == t \in ToSet(tokens) /\ doc \notin ToSet(acc.doc_ids[t])
  <1>6. IndexRow(inventory, docs, group, acc, row)
          = [page |-> page,
             doc_ids |-> [t \in Terms |-> IF New(t) THEN Append(acc.doc_ids[t], doc) ELSE acc.doc_ids[t]],
             doc_freq |-> [t \in Terms |-> acc.doc_freq[t] + IF t \in ToSet(tokens) THEN 1 ELSE 0],
             total_rows |-> acc.total_rows + 1,
             total_tokens |-> acc.total_tokens + Len(tokens)]
    BY <1>2, <1>4, <1>5 DEF IndexRow
  <1>7. /\ acc.doc_ids \in [Terms -> Seq(Nat)] /\ acc.doc_freq \in [Terms -> Nat]
        /\ acc.total_rows \in Nat /\ acc.total_tokens \in Nat
    BY DEF Indexed
  <1>8. [t \in Terms |-> IF New(t) THEN Append(acc.doc_ids[t], doc) ELSE acc.doc_ids[t]] \in [Terms -> Seq(Nat)]
    <2>1. \A t \in Terms : Append(acc.doc_ids[t], doc) \in Seq(Nat) /\ acc.doc_ids[t] \in Seq(Nat)
      BY <1>7
    <2> QED
      BY <2>1
  <1>9. [t \in Terms |-> acc.doc_freq[t] + IF t \in ToSet(tokens) THEN 1 ELSE 0] \in [Terms -> Nat]
    <2>1. \A t \in Terms : acc.doc_freq[t] \in Nat
      BY <1>7
    <2> QED
      BY <2>1
  <1>10. acc.total_rows + 1 \in Nat /\ acc.total_tokens + Len(tokens) \in Nat
    BY <1>5, <1>7
  <1> QED
    BY <1>1, <1>3, <1>6, <1>8, <1>9, <1>10 DEF Indexed

\* One row more.
LEMMA RowIsIndexed ==
  ASSUME NEW inventory, NEW group, group.cells \in Seq(Cell),
         NEW docs, IsPaged(inventory, docs, num_rows(group)),
         NEW row \in 0..num_rows(group) - 1, NEW acc \in Indexed(Len(docs)),
         inventory[docs[acc.page]].first_row_index <= row,
         RowsIndexed(inventory, docs, group, acc, row),
         NEW next, next = IndexRow(inventory, docs, group, acc, row)
  PROVE  /\ next \in Indexed(Len(docs)) /\ inventory[docs[next.page]].first_row_index <= row + 1
         /\ RowsIndexed(inventory, docs, group, next, row + 1)
  <1>1. PICK l \in Nat : l = Len(docs) /\ DOMAIN docs = 1..l
    BY LenProperties DEF IsPaged
  <1>2. num_rows(group) \in Nat /\ row \in Nat
    BY LenProperties DEF num_rows
  <1>3. PICK page : page = NextPage(inventory, docs, acc.page, row)
    OBVIOUS
  <1>4. /\ page \in 1..l /\ inventory[docs[page]].first_row_index <= row
        /\ \A d \in ToSet(docs) : InPage(inventory[d], row) <=> d = docs[page]
    <2>1. acc.page \in 1..l
      BY <1>1 DEF Indexed
    <2> QED
      BY <1>1, <1>2, <1>3, <2>1, NextPageHoldsRow
  <1>5. PICK doc \in Nat : doc = docs[page] /\ doc \in ToSet(docs)
    <2>1. docs[page] \in ToSet(docs)
      BY <1>1, <1>4 DEF ToSet
    <2>2. docs[page] \in Nat
      BY <1>1, <1>4, ElementOfSeq DEF IsPaged
    <2> QED
      BY <2>1, <2>2
  <1>6. PICK tokens : tokens = tokenize(group.cells[row + 1])
    OBVIOUS
  <1>7. /\ Len(tokens) \in Nat /\ IsFiniteSet(ToSet(tokens)) /\ ToSet(tokens) \subseteq Terms
        /\ \A t : t \in ToSet(tokens) <=> HasToken(group, row, t)
    BY <1>6, TokensOfRow
  <1> DEFINE New(t) == t \in ToSet(tokens) /\ doc \notin ToSet(acc.doc_ids[t])
  <1>8. next = [page |-> page,
                doc_ids |-> [t \in Terms |-> IF New(t) THEN Append(acc.doc_ids[t], doc) ELSE acc.doc_ids[t]],
                doc_freq |-> [t \in Terms |-> acc.doc_freq[t] + IF t \in ToSet(tokens) THEN 1 ELSE 0],
                total_rows |-> acc.total_rows + 1,
                total_tokens |-> acc.total_tokens + Len(tokens)]
    BY <1>3, <1>5, <1>6 DEF IndexRow
  <1>9. /\ acc.doc_ids \in [Terms -> Seq(Nat)] /\ acc.doc_freq \in [Terms -> Nat]
        /\ acc.total_rows \in Nat /\ acc.total_tokens \in Nat
    BY DEF Indexed
  <1>10. next \in Indexed(l)
    BY <1>1, IndexRowType DEF IsPaged
  <1>11. /\ next.page = page
         /\ \A t \in Terms : next.doc_ids[t] = IF New(t) THEN Append(acc.doc_ids[t], doc) ELSE acc.doc_ids[t]
         /\ \A t \in Terms : next.doc_freq[t] = acc.doc_freq[t] + IF t \in ToSet(tokens) THEN 1 ELSE 0
    BY <1>8
  <1>12. inventory[docs[next.page]].first_row_index <= row + 1
    <2>1. PICK first \in Nat : first = inventory[docs[page]].first_row_index
      BY <1>1, <1>4 DEF IsPaged
    <2>2. first <= row
      BY <1>4, <2>1
    <2>3. first <= row + 1
      BY <1>2, <2>2
    <2> QED
      BY <1>11, <2>1, <2>3
  <1>13. 0..(row + 1) - 1 = (0..row - 1) \cup {row} /\ row \notin 0..row - 1
    BY <1>2
  <1>14. ASSUME NEW t \in Terms, NEW d
         PROVE  d \in ToSet(next.doc_ids[t])
                  <=> /\ d \in ToSet(docs)
                      /\ \E r \in 0..(row + 1) - 1 : HasToken(group, r, t) /\ InPage(inventory[d], r)
    <2>1. d \in ToSet(acc.doc_ids[t])
            <=> /\ d \in ToSet(docs)
                /\ \E r \in 0..row - 1 : HasToken(group, r, t) /\ InPage(inventory[d], r)
      BY DEF RowsIndexed
    <2>2. ToSet(next.doc_ids[t]) = ToSet(acc.doc_ids[t]) \cup (IF t \in ToSet(tokens) THEN {doc} ELSE {})
      <3>1. CASE New(t)
        <4>1. PICK ids \in Seq(Nat) : ids = acc.doc_ids[t]
          BY <1>9
        <4>2. ToSet(Append(ids, doc)) = ToSet(ids) \cup {doc}
          <5>1. PICK n \in Nat : n = Len(ids) /\ DOMAIN ids = 1..n
            BY LenProperties
          <5>2. PICK more : more = Append(ids, doc) /\ DOMAIN more = 1..n + 1
            <6>1. PICK more \in Seq(Nat) : more = Append(ids, doc) /\ Len(more) = n + 1
              BY <5>1, AppendProperties
            <6>2. DOMAIN more = 1..Len(more)
              BY LenProperties
            <6> QED
              BY <6>1, <6>2
          <5>3. (\A k \in 1..n : more[k] = ids[k]) /\ more[n + 1] = doc
            BY <5>1, <5>2
          <5>4. 1..n + 1 = (1..n) \cup {n + 1}
            BY <5>1
          <5>5. {more[k] : k \in 1..n + 1} = {ids[k] : k \in 1..n} \cup {doc}
            BY <5>3, <5>4
          <5> QED
            BY <5>1, <5>2, <5>5 DEF ToSet
        <4> QED
          BY <1>11, <3>1, <4>1, <4>2
      <3>2. CASE ~New(t)
        BY <1>11, <3>2
      <3> QED
        BY <3>1, <3>2
    <2>3. t \in ToSet(tokens) <=> HasToken(group, row, t)
      BY <1>7
    <2>4. d = doc <=> d \in ToSet(docs) /\ InPage(inventory[d], row)
      BY <1>4, <1>5
    <2>5. (\E r \in 0..(row + 1) - 1 : HasToken(group, r, t) /\ InPage(inventory[d], r))
            <=> \/ \E r \in 0..row - 1 : HasToken(group, r, t) /\ InPage(inventory[d], r)
                \/ HasToken(group, row, t) /\ InPage(inventory[d], row)
      BY <1>13
    <2> QED
      BY <2>1, <2>2, <2>3, <2>4, <2>5
  <1>15. ASSUME NEW t \in Terms
         PROVE  next.doc_freq[t] = Cardinality({r \in 0..(row + 1) - 1 : HasToken(group, r, t)})
    <2>1. PICK R : R = {r \in 0..row - 1 : HasToken(group, r, t)}
      OBVIOUS
    <2>2. IsFiniteSet(R) /\ Cardinality(R) \in Nat /\ row \notin R
      <3>1. IsFiniteSet(0..row - 1) /\ R \subseteq 0..row - 1
        <4>1. 0 \in Int /\ row - 1 \in Int
          BY <1>2
        <4> QED
          BY <2>1, <4>1, FS_Interval
      <3>2. IsFiniteSet(R)
        BY <3>1, FS_Subset
      <3> QED
        BY <1>13, <3>1, <3>2, FS_CardinalityType
    <2>3. acc.doc_freq[t] = Cardinality(R)
      BY <2>1 DEF RowsIndexed
    <2>4. t \in ToSet(tokens) <=> HasToken(group, row, t)
      BY <1>7
    <2>5. CASE HasToken(group, row, t)
      <3>1. {r \in 0..(row + 1) - 1 : HasToken(group, r, t)} = R \cup {row}
        BY <1>13, <2>1, <2>5
      <3>2. Cardinality(R \cup {row}) = Cardinality(R) + 1
        BY <2>2, FS_AddElement
      <3> QED
        BY <1>11, <2>3, <2>4, <2>5, <3>1, <3>2
    <2>6. CASE ~HasToken(group, row, t)
      <3>1. {r \in 0..(row + 1) - 1 : HasToken(group, r, t)} = R
        BY <1>13, <2>1, <2>6
      <3>2. next.doc_freq[t] = acc.doc_freq[t] + 0
        BY <1>11, <2>4, <2>6
      <3> QED
        <4>1. PICK c \in Nat : c = Cardinality(R)
          BY <2>2
        <4>2. next.doc_freq[t] = c
          BY <2>3, <3>2, <4>1
        <4> QED
          BY <3>1, <4>1, <4>2, Zenon
    <2> QED
      BY <2>5, <2>6
  <1>16. IsFiniteSet({t \in Terms : next.doc_ids[t] # <<>>})
    <2>1. IsFiniteSet({t \in Terms : acc.doc_ids[t] # <<>>} \cup ToSet(tokens))
      BY <1>7, FS_Union DEF RowsIndexed
    <2>2. {t \in Terms : next.doc_ids[t] # <<>>}
            \subseteq {t \in Terms : acc.doc_ids[t] # <<>>} \cup ToSet(tokens)
      BY <1>11
    <2> QED
      BY <2>1, <2>2, FS_Subset
  <1>17. NoneExceeds(next.doc_freq, Terms, next.total_rows)
    <2> SUFFICES ASSUME NEW t \in Terms PROVE next.doc_freq[t] <= next.total_rows
      BY DEF NoneExceeds
    <2>1. PICK n \in Nat, m \in Nat : n = acc.doc_freq[t] /\ m = acc.total_rows
      BY <1>9
    <2>2. n <= m
      BY <2>1 DEF RowsIndexed, NoneExceeds
    <2>3. next.doc_freq[t] = n + (IF t \in ToSet(tokens) THEN 1 ELSE 0) /\ next.total_rows = m + 1
      BY <1>8, <1>11, <2>1
    <2> QED
      BY <2>2, <2>3
  <1> QED
    BY <1>1, <1>10, <1>12, <1>14, <1>15, <1>16, <1>17 DEF RowsIndexed


\* What index_batches returns for a row group.
Result ==
  [page : Nat, doc_ids : [Terms -> Seq(Nat)], doc_freq : [Terms -> Nat],
   total_rows : Nat, total_tokens : Nat]

\* index_batches: the index of a row group.
LEMMA RowGroupIsIndexed ==
  ASSUME NEW inventory, NEW group, group.cells \in Seq(Cell),
         NEW docs, IsPaged(inventory, docs, num_rows(group)),
         NEW result, result = index_batches(inventory, docs, group)
  PROVE  result \in Result /\ RowsIndexed(inventory, docs, group, result, num_rows(group))
  <1>1. PICK rows \in Nat : rows = num_rows(group)
    BY LenProperties DEF num_rows
  <1>2. PICK l \in Nat : l = Len(docs)
    BY LenProperties DEF IsPaged
  <1>3. PICK base : base = NothingIndexed(1)
    OBVIOUS
  <1> DEFINE Step(h, S) == IF S = {} THEN base
                           ELSE IndexRow(inventory, docs, group, h[S \ {Max(S)}], [i \in 1..rows |-> i][Max(S)] - 1)
             c == CHOOSE h : h = [S \in SUBSET DOMAIN [i \in 1..rows |-> i] |-> Step(h, S)]
  <1>4. result = c[1..rows]
    BY <1>1, <1>3 DEF index_batches, FoldLeft, MapThenFoldSet
  <1>5. base \in Result /\ RowsIndexed(inventory, docs, group, base, 0) /\ base.page = 1
    <2>1. base = [page |-> 1, doc_ids |-> [t \in Terms |-> <<>>], doc_freq |-> [t \in Terms |-> 0],
                  total_rows |-> 0, total_tokens |-> 0]
      BY <1>3 DEF NothingIndexed
    <2>2. base \in Result
      BY <2>1 DEF Result
    <2>3. \A t \in Terms : base.doc_ids[t] = <<>> /\ base.doc_freq[t] = 0
      BY <2>1
    <2>4. 0..0 - 1 = {}
      OBVIOUS
    <2>5. ToSet(<<>>) = {}
      BY EmptyList
    <2>6. ASSUME NEW t \in Terms
          PROVE  base.doc_freq[t] = Cardinality({row \in 0..0 - 1 : HasToken(group, row, t)})
      <3>1. {row \in 0..0 - 1 : HasToken(group, row, t)} = {}
        BY <2>4
      <3> QED
        BY <2>3, <3>1, FS_EmptySet
    <2>7. {t \in Terms : base.doc_ids[t] # <<>>} = {}
      BY <2>3
    <2>8. IsFiniteSet({t \in Terms : base.doc_ids[t] # <<>>})
      BY <2>7, FS_EmptySet
    <2>9. NoneExceeds(base.doc_freq, Terms, base.total_rows)
      BY <2>1, <2>3 DEF NoneExceeds
    <2> QED
      BY <2>1, <2>2, <2>3, <2>4, <2>5, <2>6, <2>8, <2>9 DEF RowsIndexed
  <1>6. CASE rows = 0
    <2>1. 1..rows = {} /\ {} \in SUBSET (1..rows)
      BY <1>6
    <2>2. c = [S \in SUBSET DOMAIN [i \in 1..rows |-> i] |-> Step(c, S)]
      <3>1. DOMAIN [i \in 1..rows |-> i] = {} /\ SUBSET {} = {{}}
        BY <2>1
      <3>2. PICK h : h = [S \in {{}} |-> base]
        OBVIOUS
      <3>3. h = [S \in SUBSET DOMAIN [i \in 1..rows |-> i] |-> Step(h, S)]
        BY <3>1, <3>2
      <3> QED
        BY <3>3
    <2> HIDE DEF c
    <2>3. c[1..rows] = base
      BY <2>1, <2>2
    <2> QED
      BY <1>1, <1>4, <1>5, <1>6, <2>3
  <1>7. CASE rows # 0
    <2> DEFINE step == [p \in Indexed(l) \X (1..rows) |-> IndexRow(inventory, docs, group, p[1], p[2] - 1)]
    <2>1. base \in Indexed(l) /\ 1 \in 1..l
      <3>1. 1 \in 1..l
        BY <1>1, <1>2, <1>7 DEF IsPaged
      <3> QED
        BY <1>3, <3>1 DEF NothingIndexed, Indexed
    <2>2. \A acc \in Indexed(l), i \in 1..rows : IndexRow(inventory, docs, group, acc, i - 1) \in Indexed(l)
      <3> SUFFICES ASSUME NEW acc \in Indexed(l), NEW i \in 1..rows
                   PROVE  IndexRow(inventory, docs, group, acc, i - 1) \in Indexed(l)
        OBVIOUS
      <3>1. PICK row \in 0..rows - 1 : row = i - 1
        OBVIOUS
      <3>2. IndexRow(inventory, docs, group, acc, row) \in Indexed(l)
        BY <1>1, <1>2, <3>1, IndexRowType DEF IsPaged
      <3> QED
        BY <3>1, <3>2
    <2>3. PICK g \in [SUBSET (1..rows) -> Indexed(l)] : IsFold(g, base, step, rows)
      <3>1. step \in [Indexed(l) \X (1..rows) -> Indexed(l)]
        BY <2>2
      <3> HIDE DEF step
      <3> QED
        BY <2>1, <3>1, FoldExists
    <2>4. \A S \in SUBSET (1..rows) : S # {} => Max(S) \in 1..rows /\ S \ {Max(S)} \in SUBSET (1..rows)
      <3> SUFFICES ASSUME NEW S \in SUBSET (1..rows), S # {}
                   PROVE  Max(S) \in 1..rows /\ S \ {Max(S)} \in SUBSET (1..rows)
        OBVIOUS
      <3>1. S \in SUBSET (0..rows)
        OBVIOUS
      <3>2. Max(S) \in S
        BY <1>1, <3>1, MaxOfNumbers
      <3> QED
        BY <3>2
    <2>5. ASSUME NEW S \in SUBSET (1..rows), S # {}
          PROVE  step[<<g[S \ {Max(S)}], Max(S)>>]
                   = IndexRow(inventory, docs, group, g[S \ {Max(S)}], [i \in 1..rows |-> i][Max(S)] - 1)
      BY <2>4, <2>5
    <2>6. g = [S \in SUBSET DOMAIN [i \in 1..rows |-> i] |-> Step(g, S)]
      BY <2>3, <2>5 DEF IsFold
    <2>7. c = [S \in SUBSET DOMAIN [i \in 1..rows |-> i] |-> Step(c, S)]
      BY <2>6
    <2> HIDE DEF c
    <2>8. c[{}] = base
      BY <2>7
    <2>9. ASSUME NEW k \in Nat, k + 1 <= rows
          PROVE  c[1..k + 1] = IndexRow(inventory, docs, group, c[1..k], k)
      <3>1. Max(1..k + 1) = k + 1 /\ (1..k + 1) \ {k + 1} = 1..k
        <4>1. k + 1 \in Nat \ {0} /\ (k + 1) - 1 = k
          OBVIOUS
        <4> QED
          BY <4>1, MaxOfInterval
      <3>2. k + 1 \in 1..rows /\ 1..k + 1 \subseteq 1..rows /\ 1..k + 1 # {} /\ (k + 1) - 1 = k
        <4>1. k + 1 \in 1..rows /\ k + 1 \in 1..k + 1 /\ (k + 1) - 1 = k
          BY <1>1, <2>9
        <4>2. \A i \in 1..k + 1 : i \in 1..rows
          BY <1>1, <2>9
        <4> QED
          BY <4>1, <4>2
      <3>3. c[1..k + 1] = IndexRow(inventory, docs, group, c[1..k], (k + 1) - 1)
        BY <2>7, <3>1, <3>2
      <3> QED
        BY <3>2, <3>3
    <2> DEFINE Good(k) == /\ c[1..k] \in Indexed(l)
                          /\ inventory[docs[c[1..k].page]].first_row_index <= k
                          /\ RowsIndexed(inventory, docs, group, c[1..k], k)
               P == {k \in Nat : k <= rows => Good(k)}
    <2>10. 0 \in P
      <3>1. 1..0 = {} /\ c[1..0] = base
        BY <2>8
      <3>2. inventory[docs[base.page]].first_row_index <= 0
        <4>1. inventory[docs[1]].first_row_index = 0
          BY <1>1, <1>7 DEF IsPaged
        <4> QED
          BY <1>5, <4>1
      <3> QED
        BY <1>5, <2>1, <3>1, <3>2
    <2>11. ASSUME NEW k \in Nat, k \in P PROVE k + 1 \in P
      <3> SUFFICES ASSUME k + 1 <= rows PROVE Good(k + 1)
        OBVIOUS
      <3>1. Good(k)
        BY <1>1, <2>11
      <3>2. k \in 0..rows - 1
        BY <1>1
      <3>3. PICK acc, next :
              acc \in Indexed(l) /\ acc = c[1..k] /\ next = c[1..k + 1] /\ next = IndexRow(inventory, docs, group, acc, k)
        BY <2>9, <3>1
      <3>4. inventory[docs[acc.page]].first_row_index <= k /\ RowsIndexed(inventory, docs, group, acc, k)
        BY <3>1, <3>3
      <3>5. /\ next \in Indexed(l) /\ inventory[docs[next.page]].first_row_index <= k + 1
            /\ RowsIndexed(inventory, docs, group, next, k + 1)
        BY <1>1, <1>2, <3>2, <3>3, <3>4, RowIsIndexed
      <3> QED
        BY <3>3, <3>5
    <2>12. Nat \subseteq P
      <3> HIDE DEF P
      <3> QED
        BY <2>10, <2>11, Induction
    <2>13. Good(rows)
      BY <2>12
    <2>14. Indexed(l) \subseteq Result
      BY DEF Indexed, Result
    <2> QED
      BY <1>1, <1>4, <2>13, <2>14
  <1> QED
    BY <1>6, <1>7

-----------------------------------------------------------------------------
(***************************************************************************)
(* build_page_inventory: the pages of all row groups of all files.         *)
(***************************************************************************)
\* The numbers of an interval in ascending order.
LEMMA AscendingInterval ==
  ASSUME NEW a \in Nat, NEW n \in Nat
  PROVE  Ascending(a + 1..a + n) = [p \in 1..n |-> a + p]
  <1>1. \A q \in 0..n : Cardinality(a + 1..a + q) = q
    <2> SUFFICES ASSUME NEW q \in 0..n PROVE Cardinality(a + 1..a + q) = q
      OBVIOUS
    <2>1. PICK x \in Int, y \in Int : x = a + 1 /\ y = a + q
      OBVIOUS
    <2>2. Cardinality(x..y) = IF x > y THEN 0 ELSE y - x + 1
      BY FS_Interval
    <2> QED
      BY <2>1, <2>2
  <1>2. PICK S : S = a + 1..a + n
    OBVIOUS
  <1>3. Cardinality(S) = n
    BY <1>1, <1>2
  <1>4. ASSUME NEW q \in 1..n PROVE a + q \in S /\ Cardinality({y \in S : y < a + q}) = q - 1
    <2>1. PICK m \in 0..n : m = q - 1
      OBVIOUS
    <2>2. {y \in S : y < a + q} = a + 1..a + m
      BY <1>2, <2>1
    <2>3. Cardinality(a + 1..a + m) = m
      BY <1>1
    <2>4. a + q \in S
      BY <1>2
    <2> QED
      BY <2>1, <2>2, <2>3, <2>4
  <1>5. ASSUME NEW p \in 1..n
        PROVE  (CHOOSE x \in S : Cardinality({y \in S : y < x}) = p - 1) = a + p
    <2>1. PICK x : x = CHOOSE z \in S : Cardinality({y \in S : y < z}) = p - 1
      OBVIOUS
    <2>2. x \in S /\ Cardinality({y \in S : y < x}) = p - 1
      BY <1>4, <2>1
    <2>3. PICK q \in 1..n : x = a + q
      <3>1. x - a \in 1..n /\ x = a + (x - a)
        BY <1>2, <2>2
      <3> QED
        BY <3>1
    <2>4. q - 1 = p - 1
      BY <1>4, <2>2, <2>3
    <2>5. q = p
      BY <2>4
    <2> QED
      BY <2>1, <2>3, <2>5
  <1>6. Ascending(S) = [p \in 1..n |-> CHOOSE x \in S : Cardinality({y \in S : y < x}) = p - 1]
    BY <1>3 DEF Ascending
  <1>7. [p \in 1..n |-> CHOOSE x \in S : Cardinality({y \in S : y < x}) = p - 1] = [p \in 1..n |-> a + p]
    BY <1>5
  <1> QED
    BY <1>2, <1>6, <1>7

\* A part of a part is a part.
LEMMA PartOfPart ==
  ASSUME NEW a \in Nat, NEW b \in Nat, NEW m \in Nat, NEW l \in Nat, NEW size \in Nat,
         a + l <= size, b + m <= l
  PROVE  /\ (a + b) + m <= size /\ a + b \in Nat
         /\ \A k \in 1..m : k \in Nat /\ b + k \in 1..l /\ a + (b + k) = (a + b) + k
  OBVIOUS

\* A sequence of sequences of sequences, flattened twice: the k-th element of the
\* j-th sequence of the i-th is at at[<<i, j>>] + k.
IsNested(flat, at, sss) ==
  /\ \A i \in 1..Len(sss) : \A j \in 1..Len(sss[i]) :
       /\ at[<<i, j>>] \in Nat /\ at[<<i, j>>] + Len(sss[i][j]) <= Len(flat)
       /\ \A k \in 1..Len(sss[i][j]) : flat[at[<<i, j>>] + k] = sss[i][j][k]
  /\ \A d \in 1..Len(flat) : \E i \in 1..Len(sss) : \E j \in 1..Len(sss[i]) :
       \E k \in 1..Len(sss[i][j]) : d = at[<<i, j>>] + k

Flattest(sss) == FlattenSeq([i \in DOMAIN sss |-> FlattenSeq(sss[i])])

\* Both levels of build_page_inventory at once.
LEMMA FlattenNested ==
  ASSUME NEW V, NEW sss \in Seq(Seq(Seq(V)))
  PROVE  Flattest(sss) \in Seq(V) /\ \E at : IsNested(Flattest(sss), at, sss)
  <1>1. PICK n \in Nat : n = Len(sss) /\ DOMAIN sss = 1..n
    BY LenProperties
  <1>2. \A i \in 1..n : sss[i] \in Seq(Seq(V)) /\ Len(sss[i]) \in Nat
    BY <1>1, ElementOfSeq, LenProperties
  <1>3. PICK q : q = [i \in 1..n |-> CHOOSE o : Layout(o, sss[i])]
    OBVIOUS
  <1>4. \A i \in 1..n : Layout(q[i], sss[i])
    BY <1>2, <1>3, LayoutExists
  <1>5. PICK ss : ss = [i \in 1..n |-> FlattenSeq(sss[i])]
    OBVIOUS
  <1>6. ASSUME NEW i \in 1..n PROVE ss[i] \in Seq(V) /\ Flattened(ss[i], q[i], sss[i])
    BY <1>2, <1>4, <1>5, FlattenLayout
  <1>7. ss \in Seq(Seq(V)) /\ Len(ss) = n
    <2>1. ss \in [1..n -> Seq(V)]
      BY <1>5, <1>6
    <2> QED
      BY <2>1
  <1>8. PICK p : Layout(p, ss)
    BY <1>7, LayoutExists
  <1>9. PICK flat : flat = Flattest(sss) /\ flat \in Seq(V) /\ Flattened(flat, p, ss)
    <2>1. Flattest(sss) = FlattenSeq(ss)
      BY <1>1, <1>5 DEF Flattest
    <2> QED
      BY <1>7, <1>8, <2>1, FlattenLayout
  <1>10. PICK at : at = [x \in Nat \X Nat |-> p[x[1] - 1] + q[x[1]][x[2] - 1]]
    OBVIOUS
  <1>11. \A i \in 1..n : \A j \in 1..Len(sss[i]) : at[<<i, j>>] = p[i - 1] + q[i][j - 1]
    <2> SUFFICES ASSUME NEW i \in 1..n, NEW j \in 1..Len(sss[i])
                 PROVE  at[<<i, j>>] = p[i - 1] + q[i][j - 1]
      OBVIOUS
    <2>1. i \in Nat /\ j \in Nat
      BY <1>2
    <2> QED
      BY <1>10, <2>1
  <1>12. ASSUME NEW i \in 1..n
         PROVE  p[i - 1] \in Nat /\ p[i - 1] + Len(ss[i]) <= Len(flat) /\ Len(flat) \in Nat
                  /\ Len(ss[i]) \in Nat
    <2>1. PICK l \in Nat : l = Len(ss[i])
      BY <1>6, LenProperties
    <2>2. PICK h \in 0..n : h = i - 1 /\ i \in 0..n /\ n \in 0..n /\ i <= n
      OBVIOUS
    <2>3. p[h] \in Nat /\ p[i] \in Nat /\ p[n] \in Nat /\ p[i] = p[i - 1] + Len(ss[i])
      BY <1>7, <1>8, <2>2 DEF Layout
    <2>4. p[i] <= p[n]
      BY <1>7, <1>8, <2>2, LayoutGrows
    <2>5. Len(flat) = p[n]
      BY <1>7, <1>9 DEF Flattened
    <2> QED
      BY <2>1, <2>2, <2>3, <2>4, <2>5
  <1>13. ASSUME NEW i \in 1..n, NEW j \in 1..Len(sss[i])
         PROVE  /\ q[i][j - 1] \in Nat /\ Len(sss[i][j]) \in Nat
                /\ q[i][j - 1] + Len(sss[i][j]) <= Len(ss[i])
    <2>1. PICK m \in Nat : m = Len(sss[i])
      BY <1>2
    <2>2. PICK h \in 0..m : h = j - 1 /\ j \in 0..m /\ m \in 0..m /\ j <= m
      BY <2>1
    <2>3. Len(sss[i][j]) \in Nat
      BY <1>2, ElementOfSeq, LenProperties
    <2>4. q[i][h] \in Nat /\ q[i][j] \in Nat /\ q[i][m] \in Nat
            /\ q[i][j] = q[i][j - 1] + Len(sss[i][j])
      BY <1>4, <2>1, <2>2 DEF Layout
    <2>5. q[i][j] <= q[i][m]
      BY <1>2, <1>4, <2>1, <2>2, LayoutGrows
    <2>6. Len(ss[i]) = q[i][m]
      BY <1>6, <2>1 DEF Flattened
    <2> QED
      BY <2>2, <2>3, <2>4, <2>5, <2>6
  <1>14. ASSUME NEW i \in 1..n, NEW j \in 1..Len(sss[i])
         PROVE  /\ at[<<i, j>>] \in Nat /\ at[<<i, j>>] + Len(sss[i][j]) <= Len(flat)
                /\ \A k \in 1..Len(sss[i][j]) : flat[at[<<i, j>>] + k] = sss[i][j][k]
    <2>1. PICK a \in Nat, b \in Nat, m \in Nat, l \in Nat, size \in Nat :
            /\ a = p[i - 1] /\ b = q[i][j - 1] /\ m = Len(sss[i][j]) /\ l = Len(ss[i])
            /\ size = Len(flat) /\ a + l <= size /\ b + m <= l
      BY <1>12, <1>13
    <2>2. at[<<i, j>>] = a + b
      BY <1>11, <2>1
    <2>3. /\ (a + b) + m <= size /\ a + b \in Nat
          /\ \A k \in 1..m : k \in Nat /\ b + k \in 1..l /\ a + (b + k) = (a + b) + k
      <3>1. /\ a \in Nat /\ b \in Nat /\ m \in Nat /\ l \in Nat /\ size \in Nat
            /\ a + l <= size /\ b + m <= l
        BY <2>1
      <3> QED
        BY <3>1, PartOfPart
    <2>4. ASSUME NEW k \in 1..m PROVE flat[at[<<i, j>>] + k] = sss[i][j][k]
      <3>1. b + k \in 1..l /\ a + (b + k) = (a + b) + k
        BY <2>3
      <3>2. flat[a + (b + k)] = ss[i][b + k]
        BY <1>7, <1>9, <2>1, <3>1 DEF Flattened
      <3>3. ss[i][b + k] = sss[i][j][k]
        BY <1>6, <2>1 DEF Flattened
      <3> QED
        BY <2>2, <3>1, <3>2, <3>3
    <2>5. at[<<i, j>>] \in Nat /\ at[<<i, j>>] + Len(sss[i][j]) <= Len(flat)
      BY <2>1, <2>2, <2>3
    <2> QED
      BY <2>1, <2>4, <2>5
  <1>15. ASSUME NEW d \in 1..Len(flat)
         PROVE  \E i \in 1..n : \E j \in 1..Len(sss[i]) : \E k \in 1..Len(sss[i][j]) :
                  d = at[<<i, j>>] + k
    <2>1. d \in 1..p[Len(ss)]
      BY <1>9 DEF Flattened
    <2>2. PICK i \in 1..n : \E k \in 1..Len(ss[i]) : d = p[i - 1] + k
      <3>1. \E i \in 1..Len(ss) : \E k \in 1..Len(ss[i]) : d = p[i - 1] + k
        <4>1. Covers(p, ss)
          BY <1>7, <1>8, FlattenPlaces
        <4> QED
          BY <2>1, <4>1 DEF Covers
      <3> QED
        BY <1>7, <3>1
    <2>3. PICK e \in 1..Len(ss[i]) : d = p[i - 1] + e
      BY <2>2
    <2>4. e \in 1..q[i][Len(sss[i])]
      BY <1>6 DEF Flattened
    <2>5. PICK j \in 1..Len(sss[i]) : \E k \in 1..Len(sss[i][j]) : e = q[i][j - 1] + k
      <3>1. PICK s, o : s = sss[i] /\ o = q[i] /\ s \in Seq(Seq(V)) /\ Layout(o, s)
        BY <1>2, <1>4
      <3>2. e \in 1..o[Len(s)]
        BY <2>4, <3>1
      <3>3. \E j \in 1..Len(s) : \E k \in 1..Len(s[j]) : e = o[j - 1] + k
        <4>1. Covers(o, s)
          BY <3>1, FlattenPlaces
        <4> QED
          BY <3>2, <4>1 DEF Covers
      <3> QED
        BY <3>1, <3>3
    <2>6. PICK k \in 1..Len(sss[i][j]) : e = q[i][j - 1] + k
      BY <2>5
    <2>7. PICK a \in Nat, b \in Nat, m \in Nat : a = p[i - 1] /\ b = q[i][j - 1] /\ m = Len(sss[i][j])
      BY <1>12, <1>13
    <2>8. k \in Nat /\ a + (b + k) = (a + b) + k
      <3>1. k \in 1..m
        BY <2>7
      <3>2. PICK l \in Nat : l = k
        BY <2>7, <3>1
      <3>3. a + (b + l) = (a + b) + l
        OBVIOUS
      <3> QED
        BY <3>2, <3>3
    <2>9. d = at[<<i, j>>] + k
      BY <1>11, <2>3, <2>6, <2>7, <2>8
    <2> QED
      BY <2>9
  <1> QED
    <2>1. IsNested(flat, at, sss)
      BY <1>1, <1>14, <1>15 DEF IsNested
    <2> QED
      BY <1>9, <2>1


\* The content of a batch of files in a column.
IsContents(contents) ==
  /\ contents \in Seq(Seq(RowGroup))
  /\ \A f \in 1..Len(contents) : \A g \in 1..Len(contents[f]) : WellPaged(contents[f][g])

\* The pages of one row group.
PagesFit(pages, f, g, group) ==
  /\ pages \in Seq(PageEntry) /\ Len(pages) = Len(group.first_rows)
  /\ \A p \in 1..Len(pages) :
       /\ pages[p].file_ordinal = f /\ pages[p].row_group = g
       /\ pages[p].first_row_index = group.first_rows[p]
       /\ p < Len(pages) => group.first_rows[p] + pages[p].row_count = group.first_rows[p + 1]
       /\ p = Len(pages) => group.first_rows[p] + pages[p].row_count = num_rows(group)

\* row_count is never negative, and the pages of a row group cover it.
LEMMA PagesOfGroup ==
  ASSUME NEW f \in Nat, NEW g \in Nat, NEW group \in RowGroup, WellPaged(group)
  PROVE  PagesFit(PagesOf(f, g, group), f, g, group)
  <1>1. PICK first \in Seq(Nat) : first = group.first_rows
    BY DEF RowGroup
  <1>2. PICK n \in Nat : n = Len(first) /\ DOMAIN first = 1..n
    BY LenProperties
  <1>3. PICK rows \in Nat : rows = num_rows(group)
    BY LenProperties DEF RowGroup, num_rows
  <1>4. /\ \A p, q \in 1..n : p <= q => first[p] <= first[q]
        /\ \A p \in 1..n : first[p] \in Nat /\ first[p] <= rows
    BY <1>1, <1>2, <1>3, ElementOfSeq DEF WellPaged, num_rows
  <1>5. ASSUME NEW p \in 1..n
        PROVE  /\ row_count(group, p) \in Nat
               /\ p < n => first[p] + row_count(group, p) = first[p + 1]
               /\ p = n => first[p] + row_count(group, p) = rows
    <2>1. CASE p < n
      <3>1. PICK q \in 1..n : q = p + 1 /\ p <= q
        BY <2>1
      <3>2. PICK x \in Nat, y \in Nat : x = first[p] /\ y = first[q] /\ x <= y
        BY <1>4, <3>1
      <3>3. row_count(group, p) = y - x
        BY <1>1, <1>2, <2>1, <3>1, <3>2 DEF row_count
      <3>4. y - x \in Nat /\ x + (y - x) = y
        BY <3>2
      <3> QED
        BY <2>1, <3>1, <3>2, <3>3, <3>4
    <2>2. CASE ~(p < n)
      <3>1. PICK x \in Nat : x = first[p] /\ x <= rows
        BY <1>4
      <3>2. row_count(group, p) = rows - x
        BY <1>1, <1>2, <1>3, <2>2, <3>1 DEF row_count
      <3>3. rows - x \in Nat /\ x + (rows - x) = rows
        BY <3>1
      <3> QED
        BY <2>2, <3>1, <3>2, <3>3
    <2> QED
      BY <2>1, <2>2
  <1>6. PICK pages : pages = PagesOf(f, g, group)
    OBVIOUS
  <1>7. pages = [p \in 1..n |-> [file_ordinal |-> f, row_group |-> g,
                                 first_row_index |-> first[p], row_count |-> row_count(group, p)]]
    BY <1>1, <1>2, <1>6 DEF PagesOf
  <1>8. pages \in Seq(PageEntry) /\ Len(pages) = n
    <2>1. \A p \in 1..n : [file_ordinal |-> f, row_group |-> g,
                           first_row_index |-> first[p], row_count |-> row_count(group, p)] \in PageEntry
      BY <1>4, <1>5 DEF PageEntry
    <2>2. pages \in [1..n -> PageEntry]
      BY <1>7, <2>1
    <2> QED
      BY <2>2
  <1>9. ASSUME NEW p \in 1..n
        PROVE  /\ pages[p].file_ordinal = f /\ pages[p].row_group = g
               /\ pages[p].first_row_index = first[p] /\ pages[p].row_count = row_count(group, p)
    BY <1>7
  <1>10. ASSUME NEW p \in 1..n
         PROVE  /\ p < n => first[p] + pages[p].row_count = first[p + 1]
                /\ p = n => first[p] + pages[p].row_count = rows
    BY <1>5, <1>9
  <1> QED
    BY <1>1, <1>2, <1>3, <1>6, <1>8, <1>9, <1>10 DEF PagesFit

\* build_page_inventory: the pages of each row group are next to each other in
\* the inventory, in the order of their rows.
TableFits(inventory, contents) ==
  /\ inventory \in Seq(PageEntry)
  /\ \A f \in 1..Len(contents) : \A g \in 1..Len(contents[f]) :
       /\ IsPaged(inventory, PageDocs(inventory, f, g), num_rows(contents[f][g]))
       /\ \A d : d \in ToSet(PageDocs(inventory, f, g))
                   <=> d \in DOMAIN inventory /\ inventory[d].file_ordinal = f /\ inventory[d].row_group = g

\* build_page_inventory, of the row groups of all files.
LEMMA TableIsPaged ==
  ASSUME NEW contents, IsContents(contents)
  PROVE  TableFits(doc_table(contents), contents)
  <1>1. PICK n \in Nat : n = Len(contents) /\ DOMAIN contents = 1..n
    BY LenProperties DEF IsContents
  <1>2. \A f \in 1..n : /\ contents[f] \in Seq(RowGroup) /\ Len(contents[f]) \in Nat
                         /\ DOMAIN contents[f] = 1..Len(contents[f])
    BY <1>1, ElementOfSeq, LenProperties DEF IsContents
  <1>3. ASSUME NEW f \in 1..n, NEW g \in 1..Len(contents[f])
        PROVE  /\ contents[f][g] \in RowGroup /\ WellPaged(contents[f][g])
               /\ PagesFit(PagesOf(f, g, contents[f][g]), f, g, contents[f][g])
    <2>1. contents[f][g] \in RowGroup /\ WellPaged(contents[f][g]) /\ f \in Nat /\ g \in Nat
      BY <1>1, <1>2, ElementOfSeq DEF IsContents
    <2> QED
      BY <2>1, PagesOfGroup
  <1>4. PICK sss : sss = [f \in 1..n |-> [g \in 1..Len(contents[f]) |-> PagesOf(f, g, contents[f][g])]]
    OBVIOUS
  <1>5. ASSUME NEW f \in 1..n
        PROVE  /\ sss[f] \in Seq(Seq(PageEntry)) /\ Len(sss[f]) = Len(contents[f])
               /\ \A g \in 1..Len(contents[f]) : PagesFit(sss[f][g], f, g, contents[f][g])
    <2>1. PICK m \in Nat : m = Len(contents[f])
      BY <1>2
    <2>2. sss[f] = [g \in 1..m |-> PagesOf(f, g, contents[f][g])]
      BY <1>4, <2>1
    <2>3. \A g \in 1..m : PagesOf(f, g, contents[f][g]) \in Seq(PageEntry)
      BY <1>3, <2>1 DEF PagesFit
    <2>4. sss[f] \in [1..m -> Seq(PageEntry)]
      BY <2>2, <2>3
    <2>5. sss[f] \in Seq(Seq(PageEntry)) /\ Len(sss[f]) = m
      BY <2>4
    <2> QED
      BY <1>3, <2>1, <2>2, <2>5
  <1>6. sss \in Seq(Seq(Seq(PageEntry))) /\ Len(sss) = n
    <2>1. sss \in [1..n -> Seq(Seq(PageEntry))]
      BY <1>4, <1>5
    <2> QED
      BY <2>1
  <1>7. PICK inventory : inventory = doc_table(contents)
    OBVIOUS
  <1>8. inventory = Flattest(sss)
    <2>1. \A f \in 1..n : FlattenSeq(sss[f])
                            = FlattenSeq([g \in DOMAIN contents[f] |-> PagesOf(f, g, contents[f][g])])
      BY <1>2, <1>4
    <2>2. DOMAIN sss = 1..n
      BY <1>4
    <2>3. [f \in 1..n |-> FlattenSeq(sss[f])]
            = [f \in 1..n |-> FlattenSeq([g \in DOMAIN contents[f] |-> PagesOf(f, g, contents[f][g])])]
      BY <2>1
    <2> QED
      BY <1>1, <1>7, <2>2, <2>3 DEF doc_table, Flattest
  <1>9. PICK at : IsNested(inventory, at, sss) /\ inventory \in Seq(PageEntry)
    BY <1>6, <1>8, FlattenNested
  <1>10. PICK size \in Nat : size = Len(inventory) /\ DOMAIN inventory = 1..size
    BY <1>9, LenProperties
  <1>11. ASSUME NEW f \in 1..n, NEW g \in 1..Len(contents[f])
         PROVE  /\ IsPaged(inventory, PageDocs(inventory, f, g), num_rows(contents[f][g]))
                /\ \A d : d \in ToSet(PageDocs(inventory, f, g))
                            <=> d \in DOMAIN inventory /\ inventory[d].file_ordinal = f /\ inventory[d].row_group = g
    <2>1. PICK pages, group :
            /\ pages = sss[f][g] /\ group = contents[f][g] /\ PagesFit(pages, f, g, group)
            /\ group \in RowGroup /\ WellPaged(group)
      BY <1>3, <1>5
    <2>2. PICK l \in Nat : l = Len(pages) /\ l = Len(group.first_rows)
      BY <2>1, LenProperties DEF PagesFit
    <2>3. PICK a \in Nat : a = at[<<f, g>>] /\ a + l <= size /\ \A k \in 1..l : inventory[a + k] = pages[k]
      <3>1. g \in 1..Len(sss[f]) /\ f \in 1..Len(sss)
        BY <1>5, <1>6
      <3> QED
        <4>1. /\ at[<<f, g>>] \in Nat /\ at[<<f, g>>] + Len(sss[f][g]) <= Len(inventory)
              /\ \A k \in 1..Len(sss[f][g]) : inventory[at[<<f, g>>] + k] = sss[f][g][k]
          BY <1>9, <3>1 DEF IsNested
        <4> QED
          BY <1>10, <2>1, <2>2, <4>1
    <2>4. PICK D : D = {d \in DOMAIN inventory : inventory[d].file_ordinal = f /\ inventory[d].row_group = g}
      OBVIOUS
    <2>5. ASSUME NEW d \in D PROVE d \in a + 1..a + l
      <3>1. PICK i \in 1..n : \E j \in 1..Len(sss[i]) : \E k \in 1..Len(sss[i][j]) : d = at[<<i, j>>] + k
        <4>1. \A e \in 1..Len(inventory) : \E i \in 1..Len(sss) : \E j \in 1..Len(sss[i]) :
                \E k \in 1..Len(sss[i][j]) : e = at[<<i, j>>] + k
          BY <1>9 DEF IsNested
        <4>2. d \in 1..Len(inventory)
          BY <1>10, <2>4
        <4>3. \E i \in 1..Len(sss) : \E j \in 1..Len(sss[i]) : \E k \in 1..Len(sss[i][j]) :
                d = at[<<i, j>>] + k
          BY <4>1, <4>2
        <4> QED
          BY <1>6, <4>3
      <3>2. PICK j \in 1..Len(contents[i]) : \E k \in 1..Len(sss[i][j]) : d = at[<<i, j>>] + k
        BY <1>5, <3>1
      <3>3. PICK k \in 1..Len(sss[i][j]) : d = at[<<i, j>>] + k
        BY <3>2
      <3>4. inventory[d] = sss[i][j][k]
        <4>1. j \in 1..Len(sss[i]) /\ i \in 1..Len(sss)
          BY <1>5, <1>6
        <4> QED
          BY <1>9, <3>3, <4>1 DEF IsNested
      <3>5. inventory[d].file_ordinal = i /\ inventory[d].row_group = j
        <4>1. PagesFit(sss[i][j], i, j, contents[i][j])
          BY <1>5
        <4> QED
          BY <3>3, <3>4, <4>1 DEF PagesFit
      <3>6. i = f /\ j = g
        BY <2>4, <3>5
      <3> QED
        <4>1. k \in 1..l /\ d = a + k
          BY <2>1, <2>2, <2>3, <3>3, <3>6
        <4> QED
          BY <4>1
    <2>6. ASSUME NEW k \in 1..l PROVE a + k \in D
      <3>1. a + k \in 1..size
        BY <2>3
      <3>2. inventory[a + k].file_ordinal = f /\ inventory[a + k].row_group = g
        <4>1. pages[k].file_ordinal = f /\ pages[k].row_group = g
          BY <2>1, <2>2 DEF PagesFit
        <4> QED
          BY <2>3, <4>1
      <3> QED
        BY <1>10, <2>4, <3>1, <3>2
    <2>7. D = a + 1..a + l
      <3>1. ASSUME NEW d \in a + 1..a + l PROVE d \in D
        <4>1. d - a \in 1..l /\ a + (d - a) = d
          OBVIOUS
        <4> QED
          BY <2>6, <4>1
      <3> QED
        BY <2>5, <3>1
    <2>8. PICK docs : docs = PageDocs(inventory, f, g) /\ docs = [p \in 1..l |-> a + p]
      BY <2>4, <2>7, AscendingInterval DEF PageDocs
    <2>9. docs \in Seq(Nat) /\ Len(docs) = l /\ DOMAIN docs = 1..l
      BY <2>8
    <2>10. \A p \in 1..l : docs[p] = a + p /\ inventory[docs[p]] = pages[p]
      BY <2>3, <2>8
    <2>11. ToSet(docs) = D
      <3>1. ToSet(docs) = {a + p : p \in 1..l}
        BY <2>8, <2>9 DEF ToSet
      <3>2. ASSUME NEW d \in D PROVE d \in {a + p : p \in 1..l}
        <4>1. d - a \in 1..l /\ a + (d - a) = d
          BY <2>5
        <4> QED
          BY <4>1
      <3> QED
        BY <2>6, <3>1, <3>2
    <2>12. PICK first : /\ first = group.first_rows /\ first \in Seq(Nat) /\ DOMAIN first = 1..l
                        /\ Len(first) = l
      BY <2>1, <2>2, LenProperties DEF RowGroup
    <2>13. \A p \in 1..l : /\ inventory[docs[p]].first_row_index = first[p] /\ first[p] \in Nat
                            /\ inventory[docs[p]].row_count = pages[p].row_count /\ pages[p].row_count \in Nat
      <3>1. \A p \in 1..l : pages[p].first_row_index = first[p]
        BY <2>1, <2>2, <2>12 DEF PagesFit
      <3>2. \A p \in 1..l : pages[p] \in PageEntry
        BY <2>1, <2>2, ElementOfSeq DEF PagesFit
      <3>3. \A p \in 1..l : pages[p].row_count \in Nat /\ first[p] \in Nat
        BY <2>12, <3>2, ElementOfSeq DEF PageEntry
      <3> QED
        BY <2>10, <3>1, <3>3
    <2>14. \A p \in 1..l :
             /\ p < l => first[p] + pages[p].row_count = first[p + 1]
             /\ p = l => first[p] + pages[p].row_count = num_rows(group)
      BY <2>1, <2>2, <2>12 DEF PagesFit
    <2>15. ASSUME NEW p \in 1..l, p < l PROVE inventory[docs[p + 1]].first_row_index = first[p + 1]
      <3>1. p + 1 \in 1..l
        BY <2>15
      <3> QED
        BY <2>13, <3>1
    <2>16. num_rows(group) # 0 => l # 0 /\ inventory[docs[1]].first_row_index = 0
      <3>1. num_rows(group) # 0 => l # 0 /\ first[1] = 0
        BY <2>1, <2>2, <2>12 DEF WellPaged, num_rows
      <3>2. l # 0 => 1 \in 1..l
        OBVIOUS
      <3> QED
        BY <2>13, <3>1, <3>2
    <2>17. \A p, q \in 1..l : p <= q => first[p] <= first[q]
      BY <2>1, <2>12 DEF WellPaged
    <2>18. IsPaged(inventory, docs, num_rows(group))
      <3>1. ASSUME NEW p \in 1..l
            PROVE  /\ inventory[docs[p]].first_row_index \in Nat /\ inventory[docs[p]].row_count \in Nat
                   /\ p < l => inventory[docs[p]].first_row_index + inventory[docs[p]].row_count
                                 = inventory[docs[p + 1]].first_row_index
                   /\ p = l => inventory[docs[p]].first_row_index + inventory[docs[p]].row_count
                                 = num_rows(group)
        BY <2>13, <2>14, <2>15
      <3>2. ASSUME NEW p \in 1..l, NEW q \in 1..l, p <= q
            PROVE  inventory[docs[p]].first_row_index <= inventory[docs[q]].first_row_index
        BY <2>13, <2>17, <3>2
      <3> QED
        BY <2>9, <2>16, <3>1, <3>2 DEF IsPaged
    <2> QED
      BY <2>1, <2>4, <2>8, <2>11, <2>18
  <1> QED
    BY <1>1, <1>7, <1>9, <1>11 DEF TableFits

-----------------------------------------------------------------------------
(***************************************************************************)
(* run_index: the indexes of the row groups, merged, and the segment that  *)
(* is built from them, written and read back.                              *)
(***************************************************************************)
\* Where the j-th of all elements comes from.
IsPlaced(flat, place, ss) ==
  /\ \A j \in 1..Len(flat) :
       /\ place[j][1] \in 1..Len(ss) /\ place[j][2] \in 1..Len(ss[place[j][1]])
       /\ flat[j] = ss[place[j][1]][place[j][2]]
  /\ \A i, j \in 1..Len(flat) : place[i][1] = place[j][1] /\ place[i][2] = place[j][2] => i = j
  /\ \A f \in 1..Len(ss) : \A g \in 1..Len(ss[f]) :
       \E j \in 1..Len(flat) : place[j][1] = f /\ place[j][2] = g

\* Each element of a flattened sequence comes from one place.
LEMMA FlattenedIsPlaced ==
  ASSUME NEW V, NEW ss \in Seq(Seq(V))
  PROVE  \E place : IsPlaced(FlattenSeq(ss), place, ss)
  <1>1. PICK n \in Nat : n = Len(ss)
    BY LenProperties
  <1>2. \A f \in 1..n : Len(ss[f]) \in Nat
    BY <1>1, ElementOfSeq, LenProperties
  <1>3. PICK p : Layout(p, ss)
    BY LayoutExists
  <1>4. PICK flat : flat = FlattenSeq(ss) /\ Flattened(flat, p, ss)
    BY <1>3, FlattenLayout
  <1>5. p \in [0..n -> Nat] /\ Len(flat) = p[n] /\ \A f \in 1..n : p[f] = p[f - 1] + Len(ss[f])
    BY <1>1, <1>3, <1>4 DEF Layout, Flattened
  <1>6. \A i, j \in 0..n : i <= j => p[i] <= p[j]
    BY <1>1, <1>3, LayoutGrows
  <1>7. ASSUME NEW f \in 1..n, NEW g \in 1..Len(ss[f]), NEW e \in 1..n, NEW h \in 1..Len(ss[e]),
               p[f - 1] + g = p[e - 1] + h
        PROVE  ~(f < e)
    <2> SUFFICES ASSUME f < e PROVE FALSE
      OBVIOUS
    <2>1. f \in 0..n /\ f - 1 \in 0..n /\ e - 1 \in 0..n /\ f <= e - 1
      OBVIOUS
    <2>2. PICK a \in Nat, b \in Nat, c \in Nat, l \in Nat :
            /\ a = p[f - 1] /\ b = p[f] /\ c = p[e - 1] /\ l = Len(ss[f]) /\ b = a + l
      <3>1. p[f - 1] \in Nat /\ p[f] \in Nat /\ p[e - 1] \in Nat
        BY <1>5, <2>1
      <3>2. Len(ss[f]) \in Nat /\ p[f] = p[f - 1] + Len(ss[f])
        BY <1>2, <1>5
      <3> QED
        BY <3>1, <3>2
    <2>3. b <= c
      <3>1. p[f] <= p[e - 1]
        BY <1>6, <2>1
      <3> QED
        BY <2>2, <3>1
    <2>4. g \in Nat /\ h \in Nat /\ g <= l /\ h >= 1 /\ a + g = c + h
      BY <1>2, <1>7, <2>2
    <2>5. a \in Nat /\ c \in Nat /\ l \in Nat /\ a + l <= c
      BY <2>2, <2>3
    <2>6. PICK x \in Nat, y \in Nat : x = g /\ y = h /\ x <= l /\ y >= 1 /\ a + x = c + y
      BY <2>4
    <2> QED
      BY <2>5, <2>6
  <1>8. ASSUME NEW f \in 1..n, NEW g \in 1..Len(ss[f]), NEW e \in 1..n, NEW h \in 1..Len(ss[e]),
               p[f - 1] + g = p[e - 1] + h
        PROVE  f = e /\ g = h
    <2>1. ~(f < e) /\ ~(e < f)
      BY <1>7, <1>8
    <2>2. f = e
      BY <2>1
    <2>3. PICK a \in Nat : a = p[f - 1]
      <3>1. f - 1 \in 0..n
        OBVIOUS
      <3> QED
        BY <1>5, <3>1
    <2>4. g \in Nat /\ h \in Nat /\ a + g = a + h
      BY <1>2, <1>8, <2>2, <2>3
    <2> QED
      BY <2>2, <2>3, <2>4
  <1> DEFINE Place(j, q) == q[1] \in 1..n /\ q[2] \in 1..Len(ss[q[1]]) /\ j = p[q[1] - 1] + q[2]
  <1>9. PICK place : place = [j \in 1..Len(flat) |-> CHOOSE q : Place(j, q)]
    OBVIOUS
  <1>10. ASSUME NEW j \in 1..Len(flat) PROVE Place(j, place[j])
    <2>1. Covers(p, ss)
      BY <1>3, FlattenPlaces
    <2>2. PICK f \in 1..n : \E g \in 1..Len(ss[f]) : j = p[f - 1] + g
      BY <1>1, <1>5, <2>1 DEF Covers
    <2>3. PICK g \in 1..Len(ss[f]) : j = p[f - 1] + g
      BY <2>2
    <2>4. PICK q : q = <<f, g>> /\ q[1] = f /\ q[2] = g
      <3>1. <<f, g>>[1] = f /\ <<f, g>>[2] = g
        OBVIOUS
      <3> QED
        BY <3>1
    <2>5. Place(j, q)
      BY <2>3, <2>4
    <2>6. place[j] = CHOOSE x : Place(j, x)
      BY <1>9
    <2> HIDE DEF Place
    <2> QED
      BY <2>5, <2>6
  <1>11. ASSUME NEW j \in 1..Len(flat)
         PROVE  /\ place[j][1] \in 1..n /\ place[j][2] \in 1..Len(ss[place[j][1]])
                /\ flat[j] = ss[place[j][1]][place[j][2]] /\ j = p[place[j][1] - 1] + place[j][2]
    BY <1>1, <1>4, <1>10 DEF Flattened
  <1>12. ASSUME NEW i \in 1..Len(flat), NEW j \in 1..Len(flat),
                place[i][1] = place[j][1], place[i][2] = place[j][2]
         PROVE  i = j
    BY <1>11, <1>12
  <1>13. ASSUME NEW f \in 1..n, NEW g \in 1..Len(ss[f])
         PROVE  \E j \in 1..Len(flat) : place[j][1] = f /\ place[j][2] = g
    <2>1. f \in 0..n /\ f - 1 \in 0..n /\ n \in 0..n /\ f <= n
      OBVIOUS
    <2>2. PICK a \in Nat, b \in Nat, l \in Nat, size \in Nat :
            /\ a = p[f - 1] /\ b = p[f] /\ l = Len(ss[f]) /\ b = a + l /\ size = Len(flat) /\ b <= size
      BY <1>2, <1>5, <1>6, <2>1
    <2>3. PICK j \in 1..Len(flat) : j = p[f - 1] + g
      <3>1. PICK x \in Nat : x = g /\ 1 <= x /\ x <= l
        BY <2>2
      <3>2. a + x \in 1..size
        <4>1. 1 <= a + x /\ a + x <= a + l
          BY <3>1
        <4>2. a + l <= size
          BY <2>2
        <4> QED
          BY <4>1, <4>2
      <3>3. a + x = p[f - 1] + g
        BY <2>2, <3>1
      <3> QED
        BY <2>2, <3>2, <3>3
    <2>4. place[j][1] = f /\ place[j][2] = g
      <3>0. PICK e \in 1..n : e = place[j][1]
        BY <1>11
      <3>1. PICK h \in 1..Len(ss[e]) : e = place[j][1] /\ h = place[j][2] /\ j = p[e - 1] + h
        BY <1>11, <3>0
      <3>2. p[f - 1] + g = p[e - 1] + h
        BY <2>3, <3>1
      <3>3. f = e /\ g = h
        BY <1>8, <3>2
      <3> QED
        BY <3>1, <3>3
    <2> QED
      BY <2>4
  <1>14. IsPlaced(flat, place, ss)
    BY <1>1, <1>11, <1>12, <1>13 DEF IsPlaced
  <1> QED
    BY <1>4, <1>14

\* run_index merges the results in order.
MergeAll(s) == FoldLeft(MergeResults, NothingIndexed(1), s)

Merges(acc, s) ==
  /\ acc \in [0..Len(s) -> Result]
  /\ acc[0] = NothingIndexed(1) /\ MergeAll(s) = acc[Len(s)]
  /\ \A k \in 1..Len(s) : acc[k] = MergeResults(acc[k - 1], s[k])

\* The type of a merge.
LEMMA MergeResultsType ==
  ASSUME NEW x \in Result, NEW y \in Result PROVE MergeResults(x, y) \in Result
  <1>1. \A t \in Terms : /\ x.doc_ids[t] \o y.doc_ids[t] \in Seq(Nat)
                          /\ x.doc_freq[t] + y.doc_freq[t] \in Nat
    BY DEF Result
  <1>2. /\ [t \in Terms |-> x.doc_ids[t] \o y.doc_ids[t]] \in [Terms -> Seq(Nat)]
        /\ [t \in Terms |-> x.doc_freq[t] + y.doc_freq[t]] \in [Terms -> Nat]
    BY <1>1
  <1>3. /\ x.page \in Nat /\ x.total_rows + y.total_rows \in Nat
        /\ x.total_tokens + y.total_tokens \in Nat
    BY DEF Result
  <1> QED
    BY <1>2, <1>3 DEF MergeResults, Result

\* The fold over the row groups, unfolded.
LEMMA MergeAllRuns ==
  ASSUME NEW s \in Seq(Result)
  PROVE  \E acc : Merges(acc, s)
  <1>1. PICK n \in Nat : n = Len(s) /\ DOMAIN s = 1..n /\ \A i \in 1..n : s[i] \in Result
    BY LenProperties, ElementOfSeq
  <1>2. PICK base : base = NothingIndexed(1)
    OBVIOUS
  <1> DEFINE Step(h, S) == IF S = {} THEN base ELSE MergeResults(h[S \ {Max(S)}], s[Max(S)])
             c == CHOOSE h : h = [S \in SUBSET DOMAIN s |-> Step(h, S)]
             step == [q \in Result \X (1..n) |-> MergeResults(q[1], s[q[2]])]
  <1>3. MergeAll(s) = c[1..n]
    BY <1>1, <1>2 DEF MergeAll, FoldLeft, MapThenFoldSet
  <1>4. base \in Result
    BY <1>2 DEF NothingIndexed, Result
  <1>5. PICK g \in [SUBSET (1..n) -> Result] : IsFold(g, base, step, n)
    <2>1. step \in [Result \X (1..n) -> Result]
      BY <1>1, MergeResultsType
    <2> HIDE DEF step
    <2> QED
      BY <1>4, <2>1, FoldExists
  <1>6. \A S \in SUBSET (1..n) : S # {} => Max(S) \in 1..n /\ S \ {Max(S)} \in SUBSET (1..n)
    <2> SUFFICES ASSUME NEW S \in SUBSET (1..n), S # {}
                 PROVE  Max(S) \in 1..n /\ S \ {Max(S)} \in SUBSET (1..n)
      OBVIOUS
    <2>1. S \in SUBSET (0..n)
      OBVIOUS
    <2>2. Max(S) \in S
      BY <2>1, MaxOfNumbers
    <2> QED
      BY <2>2
  <1>7. ASSUME NEW S \in SUBSET (1..n), S # {}
        PROVE  step[<<g[S \ {Max(S)}], Max(S)>>] = MergeResults(g[S \ {Max(S)}], s[Max(S)])
    BY <1>6, <1>7
  <1>8. g = [S \in SUBSET DOMAIN s |-> Step(g, S)]
    BY <1>1, <1>5, <1>7 DEF IsFold
  <1>9. c = [S \in SUBSET DOMAIN s |-> Step(c, S)]
    BY <1>8
  <1> HIDE DEF c
  <1>10. c[1..0] = base
    <2>1. 1..0 = {}
      OBVIOUS
    <2> QED
      BY <1>9, <2>1
  <1>11. ASSUME NEW k \in 1..n PROVE c[1..k] = MergeResults(c[1..k - 1], s[k])
    <2>1. Max(1..k) = k /\ (1..k) \ {k} = 1..k - 1
      BY MaxOfInterval
    <2>2. 1..k \in SUBSET (1..n) /\ 1..k # {}
      <3>1. k \in 1..k
        OBVIOUS
      <3>2. ASSUME NEW i \in 1..k PROVE i \in 1..n
        OBVIOUS
      <3> QED
        BY <3>1, <3>2
    <2> QED
      BY <1>1, <1>9, <2>1, <2>2
  <1> DEFINE P == {k \in Nat : k <= n => c[1..k] \in Result}
  <1>12. Nat \subseteq P
    <2>1. 0 \in P
      BY <1>4, <1>10
    <2>2. ASSUME NEW k \in Nat, k \in P PROVE k + 1 \in P
      <3> SUFFICES ASSUME k + 1 <= n PROVE c[1..k + 1] \in Result
        OBVIOUS
      <3>1. PICK j \in 1..n : j = k + 1 /\ j - 1 = k
        OBVIOUS
      <3>2. c[1..j] = MergeResults(c[1..k], s[j])
        BY <1>11, <3>1
      <3>3. c[1..k] \in Result
        BY <1>1, <2>2
      <3> QED
        BY <1>1, <3>1, <3>2, <3>3, MergeResultsType
    <2> HIDE DEF P
    <2> QED
      BY <2>1, <2>2, Induction
  <1>13. PICK acc : acc = [k \in 0..n |-> c[1..k]]
    OBVIOUS
  <1>14. acc \in [0..n -> Result]
    BY <1>12, <1>13
  <1>15. acc[0] = base /\ acc[n] = c[1..n]
    BY <1>10, <1>13
  <1>16. ASSUME NEW k \in 1..n PROVE acc[k] = MergeResults(acc[k - 1], s[k])
    <2>1. k \in 0..n /\ k - 1 \in 0..n
      OBVIOUS
    <2> QED
      BY <1>11, <1>13, <2>1
  <1> QED
    BY <1>1, <1>2, <1>3, <1>14, <1>15, <1>16 DEF Merges


\* The rows of a batch, or of one row group, that have a term.
RowsHaving(contents, t) ==
  {row \in UNION {RowsIn(f, contents[f]) : f \in DOMAIN contents} :
     HasToken(contents[row[1]][row[2]], row[3], t)}

TokenRows(group, t) == {r \in 0..num_rows(group) - 1 : HasToken(group, r, t)}
GroupRows(contents, f, g, t) == {<<f, g, r>> : r \in TokenRows(contents[f][g], t)}

\* A row group has as many rows with a term as the batch has there.
LEMMA GroupRowsCount ==
  ASSUME NEW contents, NEW f, NEW g, NEW t, contents[f][g].cells \in Seq(Cell)
  PROVE  /\ IsFiniteSet(TokenRows(contents[f][g], t)) /\ IsFiniteSet(GroupRows(contents, f, g, t))
         /\ Cardinality(GroupRows(contents, f, g, t)) = Cardinality(TokenRows(contents[f][g], t))
  <1>1. PICK R : R = TokenRows(contents[f][g], t)
    OBVIOUS
  <1>2. PICK S : S = GroupRows(contents, f, g, t) /\ S = {<<f, g, r>> : r \in R}
    BY <1>1 DEF GroupRows
  <1>3. IsFiniteSet(R)
    <2>1. PICK rows \in Nat : rows = num_rows(contents[f][g])
      BY LenProperties DEF num_rows
    <2>2. R \subseteq 0..rows - 1
      BY <1>1, <2>1 DEF TokenRows
    <2>3. 0 \in Int /\ rows - 1 \in Int
      BY <2>1
    <2>4. IsFiniteSet(0..rows - 1)
      BY <2>3, FS_Interval
    <2> QED
      BY <2>2, <2>4, FS_Subset
  <1>4. PICK b : b = [r \in R |-> <<f, g, r>>]
    OBVIOUS
  <1>5. b \in Bijection(R, S)
    <2>1. b \in [R -> S]
      BY <1>2, <1>4
    <2>2. \A r, q \in R : b[r] = b[q] => r = q
      <3> SUFFICES ASSUME NEW r \in R, NEW q \in R, b[r] = b[q] PROVE r = q
        OBVIOUS
      <3>1. <<f, g, r>> = <<f, g, q>>
        BY <1>4
      <3> QED
        BY <3>1
    <2>3. \A x \in S : \E r \in R : b[r] = x
      BY <1>2, <1>4
    <2> QED
      BY <2>1, <2>2, <2>3 DEF Bijection, Injection, Surjection, IsInjective
  <1>6. IsFiniteSet(S) /\ Cardinality(S) = Cardinality(R)
    BY <1>3, <1>5, FS_Bijection DEF ExistsBijection
  <1> QED
    BY <1>1, <1>2, <1>3, <1>6

\* The elements of a concatenation.
LEMMA ElementsOfBoth ==
  ASSUME NEW a \in Seq(Nat), NEW b \in Seq(Nat)
  PROVE  ToSet(a \o b) = ToSet(a) \cup ToSet(b)
  <1>1. PICK m \in Nat, n \in Nat : m = Len(a) /\ DOMAIN a = 1..m /\ n = Len(b) /\ DOMAIN b = 1..n
    BY LenProperties
  <1>2. PICK c : c = a \o b /\ c \in Seq(Nat) /\ Joined(c, a, b)
    BY AfterEachOther
  <1>3. Len(c) = m + n /\ DOMAIN c = 1..m + n
    BY <1>1, <1>2, LenProperties DEF Joined
  <1>4. (\A k \in 1..m : c[k] = a[k]) /\ \A k \in 1..n : c[m + k] = b[k]
    BY <1>1, <1>2 DEF Joined
  <1>5. ASSUME NEW k \in 1..m + n PROVE c[k] \in ToSet(a) \cup ToSet(b)
    <2>1. CASE k <= m
      <3>1. k \in 1..m
        BY <1>1, <2>1
      <3> QED
        BY <1>1, <1>4, <3>1 DEF ToSet
    <2>2. CASE ~(k <= m)
      <3>1. k - m \in 1..n /\ m + (k - m) = k
        BY <1>1, <2>2
      <3>2. c[k] = b[k - m]
        BY <1>4, <3>1
      <3> QED
        BY <1>1, <3>1, <3>2 DEF ToSet
    <2> QED
      BY <2>1, <2>2
  <1>6. ASSUME NEW x \in ToSet(a) PROVE x \in ToSet(c)
    <2>1. PICK k \in 1..m : x = a[k]
      BY <1>1 DEF ToSet
    <2>2. k \in 1..m + n
      BY <1>1
    <2> QED
      BY <1>3, <1>4, <2>1, <2>2 DEF ToSet
  <1>7. ASSUME NEW x \in ToSet(b) PROVE x \in ToSet(c)
    <2>1. PICK k \in 1..n : x = b[k]
      BY <1>1 DEF ToSet
    <2>2. m + k \in 1..m + n
      BY <1>1
    <2> QED
      BY <1>3, <1>4, <2>1, <2>2 DEF ToSet
  <1>8. ToSet(c) = {c[k] : k \in 1..m + n}
    BY <1>3 DEF ToSet
  <1> QED
    BY <1>2, <1>5, <1>6, <1>7, <1>8

\* What a merge of two results has.
Added(x, y, z) ==
  /\ \A t \in Terms : /\ ToSet(z.doc_ids[t]) = ToSet(x.doc_ids[t]) \cup ToSet(y.doc_ids[t])
                       /\ z.doc_freq[t] = x.doc_freq[t] + y.doc_freq[t]
  /\ z.total_rows = x.total_rows + y.total_rows
  /\ {t \in Terms : z.doc_ids[t] # <<>>}
       \subseteq {t \in Terms : x.doc_ids[t] # <<>>} \cup {t \in Terms : y.doc_ids[t] # <<>>}

\* A merge of two results.
LEMMA MergeAdds ==
  ASSUME NEW x \in Result, NEW y \in Result, NEW z, z = MergeResults(x, y)
  PROVE  Added(x, y, z)
  <1>1. /\ \A t \in Terms : z.doc_ids[t] = x.doc_ids[t] \o y.doc_ids[t]
        /\ \A t \in Terms : z.doc_freq[t] = x.doc_freq[t] + y.doc_freq[t]
        /\ z.total_rows = x.total_rows + y.total_rows
    BY DEF MergeResults
  <1>2. \A t \in Terms : x.doc_ids[t] \in Seq(Nat) /\ y.doc_ids[t] \in Seq(Nat)
    BY DEF Result
  <1>3. \A t \in Terms : ToSet(z.doc_ids[t]) = ToSet(x.doc_ids[t]) \cup ToSet(y.doc_ids[t])
    BY <1>1, <1>2, ElementsOfBoth
  <1>4. ASSUME NEW t \in Terms, z.doc_ids[t] # <<>> PROVE x.doc_ids[t] # <<>> \/ y.doc_ids[t] # <<>>
    <2>1. <<>> \o <<>> = <<>>
      OBVIOUS
    <2> QED
      BY <1>1, <1>4, <2>1
  <1> QED
    BY <1>1, <1>3, <1>4 DEF Added


\* The merged results are an index of a batch: the pages with each term, and the
\* number of rows with it.
IsIndex(merged, inventory, contents) ==
  /\ merged \in Result /\ IsFiniteSet({t \in Terms : merged.doc_ids[t] # <<>>})
  /\ \A t \in Terms :
       /\ \A d : d \in ToSet(merged.doc_ids[t])
                   <=> d \in DOMAIN inventory /\ \E row \in RowsHaving(contents, t) : Holds(inventory[d], row)
       /\ merged.doc_freq[t] = Cardinality(RowsHaving(contents, t))
       /\ IsFiniteSet(RowsHaving(contents, t))
  /\ NoneExceeds(merged.doc_freq, Terms, merged.total_rows)

\* The results of the row groups, one after another.
GroupIndexed(contents, inventory, f, g, result) ==
  /\ f \in 1..Len(contents) /\ g \in 1..Len(contents[f]) /\ contents[f][g].cells \in Seq(Cell)
  /\ result \in Result
  /\ RowsIndexed(inventory, PageDocs(inventory, f, g), contents[f][g], result, num_rows(contents[f][g]))

GroupsIndexed(contents, inventory, s, place) ==
  /\ s \in Seq(Result)
  /\ \A j \in 1..Len(s) : GroupIndexed(contents, inventory, place[j][1], place[j][2], s[j])
  /\ \A i, j \in 1..Len(s) : place[i][1] = place[j][1] /\ place[i][2] = place[j][2] => i = j
  /\ \A f \in 1..Len(contents) : \A g \in 1..Len(contents[f]) :
       \E j \in 1..Len(s) : place[j][1] = f /\ place[j][2] = g

\* run_index: each row group of each file is indexed once, and the results are
\* merged in turn.
LEMMA AllGroupsIndexed ==
  ASSUME NEW contents, IsContents(contents), NEW inventory, inventory = doc_table(contents)
  PROVE  \E s, place : /\ IndexFiles(inventory, contents) = MergeAll(s)
                       /\ GroupsIndexed(contents, inventory, s, place)
  <1>1. PICK n \in Nat : n = Len(contents) /\ DOMAIN contents = 1..n
    BY LenProperties DEF IsContents
  <1>2. \A f \in 1..n : /\ contents[f] \in Seq(RowGroup) /\ Len(contents[f]) \in Nat
                         /\ DOMAIN contents[f] = 1..Len(contents[f])
    BY <1>1, ElementOfSeq, LenProperties DEF IsContents
  <1> DEFINE One(f, g) == index_batches(inventory, PageDocs(inventory, f, g), contents[f][g])
  <1>3. ASSUME NEW f \in 1..n, NEW g \in 1..Len(contents[f])
        PROVE  GroupIndexed(contents, inventory, f, g, One(f, g))
    <2>1. contents[f][g].cells \in Seq(Cell)
      <3>1. contents[f][g] \in RowGroup
        BY <1>2, ElementOfSeq
      <3> QED
        BY <3>1 DEF RowGroup
    <2>2. IsPaged(inventory, PageDocs(inventory, f, g), num_rows(contents[f][g]))
      BY <1>1, TableIsPaged DEF TableFits
    <2>3. PICK group, docs, result :
            group = contents[f][g] /\ docs = PageDocs(inventory, f, g) /\ result = One(f, g)
      OBVIOUS
    <2>4. result \in Result /\ RowsIndexed(inventory, docs, group, result, num_rows(group))
      BY <2>1, <2>2, <2>3, RowGroupIsIndexed
    <2> HIDE DEF One
    <2> QED
      BY <1>1, <2>1, <2>3, <2>4 DEF GroupIndexed
  <1>4. PICK rr : rr = [f \in 1..n |-> [g \in 1..Len(contents[f]) |-> One(f, g)]]
    OBVIOUS
  <1>5. IndexFiles(inventory, contents) = MergeAll(FlattenSeq(rr))
    <2>1. rr = [f \in DOMAIN contents |-> [g \in DOMAIN contents[f] |-> One(f, g)]]
      <3> HIDE DEF One
      <3>1. \A f \in 1..n : [g \in 1..Len(contents[f]) |-> One(f, g)]
                              = [g \in DOMAIN contents[f] |-> One(f, g)]
        BY <1>2
      <3> QED
        BY <1>1, <1>4, <3>1
    <2> QED
      BY <2>1 DEF IndexFiles, MergeAll
  <1> HIDE DEF One
  <1>6. ASSUME NEW f \in 1..n
        PROVE  /\ rr[f] \in Seq(Result) /\ Len(rr[f]) = Len(contents[f])
               /\ \A g \in 1..Len(contents[f]) : GroupIndexed(contents, inventory, f, g, rr[f][g])
    <2>1. PICK m \in Nat : m = Len(contents[f])
      BY <1>2
    <2>2. rr[f] = [g \in 1..m |-> One(f, g)]
      BY <1>4, <2>1
    <2>3. \A g \in 1..m : One(f, g) \in Result
      BY <1>3, <2>1 DEF GroupIndexed
    <2>4. rr[f] \in [1..m -> Result]
      BY <2>2, <2>3
    <2>5. rr[f] \in Seq(Result) /\ Len(rr[f]) = m
      BY <2>4
    <2> QED
      BY <1>3, <2>1, <2>2, <2>5
  <1>7. rr \in Seq(Seq(Result)) /\ Len(rr) = n
    <2>1. rr \in [1..n -> Seq(Result)]
      BY <1>4, <1>6
    <2> QED
      BY <2>1
  <1>8. PICK s : s = FlattenSeq(rr) /\ s \in Seq(Result)
    <2>1. PICK p : Layout(p, rr)
      BY <1>7, LayoutExists
    <2> QED
      BY <1>7, <2>1, FlattenLayout
  <1>9. PICK place : IsPlaced(s, place, rr)
    BY <1>7, <1>8, FlattenedIsPlaced
  <1>10. ASSUME NEW j \in 1..Len(s)
         PROVE  GroupIndexed(contents, inventory, place[j][1], place[j][2], s[j])
    <2>1. PICK f \in 1..n : f = place[j][1]
      BY <1>7, <1>9 DEF IsPlaced
    <2>2. PICK g \in 1..Len(contents[f]) : g = place[j][2]
      BY <1>6, <1>9, <2>1 DEF IsPlaced
    <2>3. s[j] = rr[f][g]
      BY <1>9, <2>1, <2>2 DEF IsPlaced
    <2> QED
      BY <1>6, <2>1, <2>2, <2>3
  <1>11. \A i, j \in 1..Len(s) : place[i][1] = place[j][1] /\ place[i][2] = place[j][2] => i = j
    BY <1>9 DEF IsPlaced
  <1>12. ASSUME NEW f \in 1..n, NEW g \in 1..Len(contents[f])
         PROVE  \E j \in 1..Len(s) : place[j][1] = f /\ place[j][2] = g
    <2>1. f \in 1..Len(rr) /\ g \in 1..Len(rr[f])
      BY <1>6, <1>7
    <2> QED
      BY <1>9, <2>1 DEF IsPlaced
  <1>13. GroupsIndexed(contents, inventory, s, place)
    BY <1>1, <1>8, <1>10, <1>11, <1>12 DEF GroupsIndexed
  <1> QED
    BY <1>5, <1>8, <1>13

\* The rows of the first k row groups that have a term.
Upto(contents, place, k, t) ==
  UNION {GroupRows(contents, place[j][1], place[j][2], t) : j \in 1..k}

\* What is accumulated after k row groups.
MergedUpto(contents, s, place, acc, k) ==
  /\ IsFiniteSet({t \in Terms : acc[k].doc_ids[t] # <<>>})
  /\ \A t \in Terms :
       /\ \A d : d \in ToSet(acc[k].doc_ids[t]) <=> \E j \in 1..k : d \in ToSet(s[j].doc_ids[t])
       /\ IsFiniteSet(Upto(contents, place, k, t))
       /\ acc[k].doc_freq[t] = Cardinality(Upto(contents, place, k, t))
  /\ NoneExceeds(acc[k].doc_freq, Terms, acc[k].total_rows)

\* run_index: merging the next row group adds its pages and its rows, none of
\* which was there before.
LEMMA MergeOneGroup ==
  ASSUME NEW contents, NEW inventory, NEW s, NEW place,
         GroupsIndexed(contents, inventory, s, place),
         NEW acc, Merges(acc, s), NEW k \in Nat, k + 1 \in 1..Len(s),
         MergedUpto(contents, s, place, acc, k)
  PROVE  MergedUpto(contents, s, place, acc, k + 1)
  <1>1. PICK n \in Nat : n = Len(s) /\ k + 1 \in 1..n /\ k \in 0..n /\ k + 1 \in 0..n
    BY LenProperties DEF GroupsIndexed
  <1>2. PICK x \in Result, y \in Result, z \in Result :
          /\ x = acc[k] /\ y = s[k + 1] /\ z = acc[k + 1] /\ z = MergeResults(x, y)
    <2>1. acc[k] \in Result /\ acc[k + 1] \in Result /\ s[k + 1] \in Result
      BY <1>1, ElementOfSeq DEF Merges, GroupsIndexed
    <2>2. (k + 1) - 1 = k
      OBVIOUS
    <2>3. acc[k + 1] = MergeResults(acc[k], s[k + 1])
      BY <1>1, <2>2 DEF Merges
    <2> QED
      BY <2>1, <2>3
  <1>3. /\ \A t \in Terms : /\ ToSet(z.doc_ids[t]) = ToSet(x.doc_ids[t]) \cup ToSet(y.doc_ids[t])
                             /\ z.doc_freq[t] = x.doc_freq[t] + y.doc_freq[t]
        /\ z.total_rows = x.total_rows + y.total_rows
        /\ {t \in Terms : z.doc_ids[t] # <<>>}
             \subseteq {t \in Terms : x.doc_ids[t] # <<>>} \cup {t \in Terms : y.doc_ids[t] # <<>>}
    <2>1. Added(x, y, z)
      BY <1>2, MergeAdds
    <2> QED
      BY <2>1 DEF Added
  <1>4. 1..k + 1 = (1..k) \cup {k + 1} /\ k + 1 \notin 1..k
    OBVIOUS
  <1>5. PICK f, g : f = place[k + 1][1] /\ g = place[k + 1][2] /\ GroupIndexed(contents, inventory, f, g, y)
    BY <1>1, <1>2 DEF GroupsIndexed
  <1>6. IsFiniteSet({t \in Terms : z.doc_ids[t] # <<>>})
    <2>1. IsFiniteSet({t \in Terms : x.doc_ids[t] # <<>>})
      BY <1>2 DEF MergedUpto
    <2>2. IsFiniteSet({t \in Terms : y.doc_ids[t] # <<>>})
      BY <1>5 DEF GroupIndexed, RowsIndexed
    <2>3. IsFiniteSet({t \in Terms : x.doc_ids[t] # <<>>} \cup {t \in Terms : y.doc_ids[t] # <<>>})
      BY <2>1, <2>2, FS_Union
    <2> QED
      BY <1>3, <2>3, FS_Subset
  <1>7. ASSUME NEW t \in Terms
        PROVE  \A d : d \in ToSet(z.doc_ids[t]) <=> \E j \in 1..k + 1 : d \in ToSet(s[j].doc_ids[t])
    <2>1. \A d : d \in ToSet(x.doc_ids[t]) <=> \E j \in 1..k : d \in ToSet(s[j].doc_ids[t])
      BY <1>2 DEF MergedUpto
    <2> QED
      BY <1>2, <1>3, <1>4, <2>1
  <1>8. ASSUME NEW t \in Terms
        PROVE  /\ IsFiniteSet(Upto(contents, place, k + 1, t))
               /\ z.doc_freq[t] = Cardinality(Upto(contents, place, k + 1, t))
    <2>1. PICK A, B : A = Upto(contents, place, k, t) /\ B = GroupRows(contents, f, g, t)
      OBVIOUS
    <2>2. Upto(contents, place, k + 1, t) = A \cup B
      BY <1>4, <1>5, <2>1 DEF Upto
    <2>3. IsFiniteSet(A) /\ x.doc_freq[t] = Cardinality(A)
      BY <1>2, <2>1 DEF MergedUpto
    <2>4. IsFiniteSet(B) /\ y.doc_freq[t] = Cardinality(B)
      <3>1. y.doc_freq[t] = Cardinality(TokenRows(contents[f][g], t))
        BY <1>5 DEF GroupIndexed, RowsIndexed, TokenRows
      <3>2. contents[f][g].cells \in Seq(Cell)
        BY <1>5 DEF GroupIndexed
      <3> QED
        BY <2>1, <3>1, <3>2, GroupRowsCount
    <2>5. A \cap B = {}
      <3> SUFFICES ASSUME NEW row \in A, row \in B PROVE FALSE
        OBVIOUS
      <3>1. PICK j \in 1..k : row \in GroupRows(contents, place[j][1], place[j][2], t)
        BY <2>1 DEF Upto
      <3>2. PICK r : row = <<place[j][1], place[j][2], r>>
        BY <3>1 DEF GroupRows
      <3>3. PICK q : row = <<f, g, q>>
        BY <2>1 DEF GroupRows
      <3>4. place[j][1] = f /\ place[j][2] = g
        BY <3>2, <3>3
      <3>5. j \in 1..n /\ j # k + 1
        BY <1>1
      <3> QED
        BY <1>1, <1>5, <3>4, <3>5 DEF GroupsIndexed
    <2>6. /\ IsFiniteSet(A \cup B)
          /\ Cardinality(A \cup B) = Cardinality(A) + Cardinality(B) - Cardinality(A \cap B)
      BY <2>3, <2>4, FS_Union
    <2>7. Cardinality(A \cap B) = 0 /\ Cardinality(A) \in Nat /\ Cardinality(B) \in Nat
      BY <2>3, <2>4, <2>5, FS_EmptySet, FS_CardinalityType
    <2>8. Cardinality(A \cup B) = Cardinality(A) + Cardinality(B)
      BY <2>6, <2>7
    <2> QED
      BY <1>3, <2>2, <2>3, <2>4, <2>6, <2>8
  <1>9. NoneExceeds(z.doc_freq, Terms, z.total_rows)
    <2> SUFFICES ASSUME NEW t \in Terms PROVE z.doc_freq[t] <= z.total_rows
      BY DEF NoneExceeds
    <2>1. PICK a \in Nat, b \in Nat, m \in Nat, p \in Nat :
            a = x.doc_freq[t] /\ b = y.doc_freq[t] /\ m = x.total_rows /\ p = y.total_rows
      BY <1>2 DEF Result
    <2>2. a <= m
      BY <1>2, <2>1 DEF MergedUpto, NoneExceeds
    <2>3. b <= p
      BY <1>5, <2>1 DEF GroupIndexed, RowsIndexed, NoneExceeds
    <2>4. z.doc_freq[t] = a + b /\ z.total_rows = m + p
      BY <1>3, <2>1
    <2> QED
      BY <2>2, <2>3, <2>4
  <1> QED
    BY <1>2, <1>6, <1>7, <1>8, <1>9 DEF MergedUpto

\* The pages that the index of a row group has for a term.
LEMMA GroupHolds ==
  ASSUME NEW contents, NEW inventory, TableFits(inventory, contents), NEW f, NEW g, NEW result,
         GroupIndexed(contents, inventory, f, g, result), NEW t \in Terms, NEW d
  PROVE  d \in ToSet(result.doc_ids[t])
           <=> d \in DOMAIN inventory /\ \E row \in GroupRows(contents, f, g, t) : Holds(inventory[d], row)
  <1>1. f \in 1..Len(contents) /\ g \in 1..Len(contents[f])
    BY DEF GroupIndexed
  <1>2. PICK group : group = contents[f][g]
    OBVIOUS
  <1>3. d \in ToSet(PageDocs(inventory, f, g))
          <=> d \in DOMAIN inventory /\ inventory[d].file_ordinal = f /\ inventory[d].row_group = g
    BY <1>1 DEF TableFits
  <1>4. d \in ToSet(result.doc_ids[t])
          <=> /\ d \in ToSet(PageDocs(inventory, f, g))
              /\ \E r \in 0..num_rows(group) - 1 : HasToken(group, r, t) /\ InPage(inventory[d], r)
    BY <1>2 DEF GroupIndexed, RowsIndexed
  <1>5. \A r : Holds(inventory[d], <<f, g, r>>)
                 <=> inventory[d].file_ordinal = f /\ inventory[d].row_group = g /\ InPage(inventory[d], r)
    BY DEF Holds, InPage
  <1>6. GroupRows(contents, f, g, t)
          = {<<f, g, r>> : r \in {r \in 0..num_rows(group) - 1 : HasToken(group, r, t)}}
    BY <1>2 DEF GroupRows, TokenRows
  <1>7. (\E row \in GroupRows(contents, f, g, t) : Holds(inventory[d], row))
          <=> \E r \in 0..num_rows(group) - 1 : HasToken(group, r, t) /\ Holds(inventory[d], <<f, g, r>>)
    BY <1>6
  <1> QED
    BY <1>3, <1>4, <1>5, <1>7

\* The rows of a row group are rows of the batch, and there are no others.
LEMMA RowsOfGroups ==
  ASSUME NEW contents, IsContents(contents), NEW t, NEW row
  PROVE  row \in RowsHaving(contents, t)
           <=> \E f \in 1..Len(contents) : \E g \in 1..Len(contents[f]) : row \in GroupRows(contents, f, g, t)
  <1>1. DOMAIN contents = 1..Len(contents)
    BY LenProperties DEF IsContents
  <1>2. \A f \in 1..Len(contents) : DOMAIN contents[f] = 1..Len(contents[f])
    BY <1>1, ElementOfSeq, LenProperties DEF IsContents
  <1>3. row \in RowsHaving(contents, t)
          <=> /\ \E f \in 1..Len(contents) : \E g \in 1..Len(contents[f]) :
                   row \in {<<f, g, r>> : r \in 0..num_rows(contents[f][g]) - 1}
              /\ HasToken(contents[row[1]][row[2]], row[3], t)
    <2> DEFINE Cells(f, g) == {<<f, g, r>> : r \in 0..num_rows(contents[f][g]) - 1}
    <2>1. ASSUME NEW f \in 1..Len(contents)
          PROVE  row \in RowsIn(f, contents[f]) <=> \E g \in 1..Len(contents[f]) : row \in Cells(f, g)
      BY <1>2 DEF RowsIn
    <2> HIDE DEF Cells
    <2>2. row \in UNION {RowsIn(f, contents[f]) : f \in DOMAIN contents}
            <=> \E f \in 1..Len(contents) : \E g \in 1..Len(contents[f]) : row \in Cells(f, g)
      BY <1>1, <2>1
    <2> QED
      BY <2>2 DEF RowsHaving, Cells
  <1>4. ASSUME NEW f, NEW g
        PROVE  row \in GroupRows(contents, f, g, t)
                 <=> /\ row \in {<<f, g, r>> : r \in 0..num_rows(contents[f][g]) - 1}
                     /\ HasToken(contents[row[1]][row[2]], row[3], t)
    <2>1. \A r : <<f, g, r>>[1] = f /\ <<f, g, r>>[2] = g /\ <<f, g, r>>[3] = r
      OBVIOUS
    <2> QED
      BY <2>1 DEF GroupRows, TokenRows
  <1> QED
    BY <1>3, <1>4

\* run_index: the merged index of a batch.
LEMMA FilesAreIndexed ==
  ASSUME NEW contents, IsContents(contents), NEW inventory, inventory = doc_table(contents),
         NEW merged, merged = IndexFiles(inventory, contents)
  PROVE  IsIndex(merged, inventory, contents)
  <1>1. PICK s, place : merged = MergeAll(s) /\ GroupsIndexed(contents, inventory, s, place)
    BY AllGroupsIndexed
  <1>2. s \in Seq(Result)
    BY <1>1 DEF GroupsIndexed
  <1>3. PICK n \in Nat : n = Len(s)
    BY <1>2, LenProperties
  <1>4. PICK acc : Merges(acc, s)
    BY <1>2, MergeAllRuns
  <1>5. merged = acc[n] /\ merged \in Result
    BY <1>1, <1>3, <1>4 DEF Merges
  <1> DEFINE P == {k \in Nat : k <= n => MergedUpto(contents, s, place, acc, k)}
  <1>6. Nat \subseteq P
    <2>1. 0 \in P
      <3>1. acc[0] = NothingIndexed(1)
        BY <1>4 DEF Merges
      <3>2. \A t \in Terms : acc[0].doc_ids[t] = <<>> /\ acc[0].doc_freq[t] = 0
        BY <3>1 DEF NothingIndexed
      <3>3. {t \in Terms : acc[0].doc_ids[t] # <<>>} = {} /\ ToSet(<<>>) = {}
        BY <3>2, EmptyList
      <3>4. 1..0 = {}
        OBVIOUS
      <3>5. \A t \in Terms : Upto(contents, place, 0, t) = {}
        BY <3>4 DEF Upto
      <3> QED
        <4>1. NoneExceeds(acc[0].doc_freq, Terms, acc[0].total_rows)
          BY <3>1, <3>2 DEF NothingIndexed, NoneExceeds
        <4> QED
          BY <3>2, <3>3, <3>4, <3>5, <4>1, FS_EmptySet DEF MergedUpto
    <2>2. ASSUME NEW k \in Nat, k \in P PROVE k + 1 \in P
      <3> SUFFICES ASSUME k + 1 <= n PROVE MergedUpto(contents, s, place, acc, k + 1)
        OBVIOUS
      <3>1. k <= n /\ k + 1 \in 1..n
        OBVIOUS
      <3>2. MergedUpto(contents, s, place, acc, k)
        BY <2>2, <3>1
      <3> QED
        BY <1>1, <1>3, <1>4, <3>1, <3>2, MergeOneGroup
    <2> HIDE DEF P
    <2> QED
      BY <2>1, <2>2, Induction
  <1>7. MergedUpto(contents, s, place, acc, n)
    BY <1>6
  <1> HIDE DEF P
  <1>8. ASSUME NEW j \in 1..n
        PROVE  GroupIndexed(contents, inventory, place[j][1], place[j][2], s[j])
    BY <1>1, <1>3 DEF GroupsIndexed
  <1>9. \A f \in 1..Len(contents) : \A g \in 1..Len(contents[f]) :
          \E j \in 1..n : place[j][1] = f /\ place[j][2] = g
    BY <1>1, <1>3 DEF GroupsIndexed
  <1>10. ASSUME NEW t \in Terms PROVE Upto(contents, place, n, t) = RowsHaving(contents, t)
    <2>1. ASSUME NEW row \in Upto(contents, place, n, t) PROVE row \in RowsHaving(contents, t)
      <3>1. PICK j \in 1..n : row \in GroupRows(contents, place[j][1], place[j][2], t)
        BY DEF Upto
      <3>2. place[j][1] \in 1..Len(contents) /\ place[j][2] \in 1..Len(contents[place[j][1]])
        BY <1>8 DEF GroupIndexed
      <3> QED
        BY <3>1, <3>2, RowsOfGroups
    <2>2. ASSUME NEW row \in RowsHaving(contents, t) PROVE row \in Upto(contents, place, n, t)
      <3>1. PICK f \in 1..Len(contents) : \E g \in 1..Len(contents[f]) : row \in GroupRows(contents, f, g, t)
        BY RowsOfGroups
      <3>2. PICK g \in 1..Len(contents[f]) : row \in GroupRows(contents, f, g, t)
        BY <3>1
      <3>3. PICK j \in 1..n : place[j][1] = f /\ place[j][2] = g
        BY <1>9
      <3> QED
        BY <3>2, <3>3 DEF Upto
    <2> QED
      BY <2>1, <2>2
  <1>11. ASSUME NEW t \in Terms, NEW d
         PROVE  d \in ToSet(merged.doc_ids[t])
                  <=> d \in DOMAIN inventory /\ \E row \in RowsHaving(contents, t) : Holds(inventory[d], row)
    <2>1. d \in ToSet(merged.doc_ids[t]) <=> \E j \in 1..n : d \in ToSet(s[j].doc_ids[t])
      BY <1>5, <1>7 DEF MergedUpto
    <2>2. TableFits(inventory, contents)
      BY TableIsPaged
    <2>3. \A j \in 1..n : d \in ToSet(s[j].doc_ids[t])
            <=> /\ d \in DOMAIN inventory
                /\ \E row \in GroupRows(contents, place[j][1], place[j][2], t) : Holds(inventory[d], row)
      BY <1>8, <2>2, GroupHolds
    <2>4. \A row : row \in RowsHaving(contents, t)
                     <=> \E j \in 1..n : row \in GroupRows(contents, place[j][1], place[j][2], t)
      BY <1>10 DEF Upto
    <2> QED
      BY <2>1, <2>3, <2>4
  <1>12. ASSUME NEW t \in Terms
         PROVE  /\ merged.doc_freq[t] = Cardinality(RowsHaving(contents, t))
                /\ IsFiniteSet(RowsHaving(contents, t))
    BY <1>5, <1>7, <1>10 DEF MergedUpto
  <1>13. IsFiniteSet({t \in Terms : merged.doc_ids[t] # <<>>})
    BY <1>5, <1>7 DEF MergedUpto
  <1>14. NoneExceeds(merged.doc_freq, Terms, merged.total_rows)
    BY <1>5, <1>7 DEF MergedUpto
  <1> QED
    BY <1>5, <1>11, <1>12, <1>13, <1>14 DEF IsIndex

\* A sequence has finitely many elements.
LEMMA ElementsAreFinite ==
  ASSUME NEW V, NEW s \in Seq(V) PROVE IsFiniteSet(ToSet(s)) /\ ToSet(s) \subseteq V
  <1>1. PICK n \in Nat : n = Len(s) /\ DOMAIN s = 1..n /\ \A k \in 1..n : s[k] \in V
    BY LenProperties, ElementOfSeq
  <1>2. ToSet(s) = {s[k] : k \in 1..n}
    BY <1>1 DEF ToSet
  <1>3. IsFiniteSet(1..n)
    BY FS_Interval
  <1>4. PICK g : g = [k \in 1..n |-> s[k]]
    OBVIOUS
  <1>5. g \in Surjection(1..n, ToSet(s))
    <2>1. g \in [1..n -> ToSet(s)]
      BY <1>2, <1>4
    <2>2. \A x \in ToSet(s) : \E k \in 1..n : g[k] = x
      BY <1>2, <1>4
    <2> QED
      BY <2>1, <2>2 DEF Surjection
  <1> QED
    BY <1>1, <1>2, <1>3, <1>5, FS_Surjection

\* Each row is on some page.
LEMMA RowIsHeld ==
  ASSUME NEW contents, IsContents(contents), NEW inventory, TableFits(inventory, contents),
         NEW t, NEW row \in RowsHaving(contents, t)
  PROVE  \E d \in DOMAIN inventory : Holds(inventory[d], row)
  <1>1. PICK f \in 1..Len(contents) : \E g \in 1..Len(contents[f]) : row \in GroupRows(contents, f, g, t)
    BY RowsOfGroups
  <1>2. PICK g \in 1..Len(contents[f]) : row \in GroupRows(contents, f, g, t)
    BY <1>1
  <1>3. PICK group : group = contents[f][g]
    OBVIOUS
  <1>4. PICK r \in 0..num_rows(group) - 1 : row = <<f, g, r>>
    BY <1>2, <1>3 DEF GroupRows, TokenRows
  <1>5. PICK docs : docs = PageDocs(inventory, f, g)
    OBVIOUS
  <1>6. PICK rows \in Nat : rows = num_rows(group)
    <2>1. contents[f] \in Seq(RowGroup)
      BY ElementOfSeq, LenProperties DEF IsContents
    <2>2. group \in RowGroup
      BY <1>3, <2>1, ElementOfSeq, LenProperties
    <2>3. group.cells \in Seq(Cell)
      BY <2>2 DEF RowGroup
    <2> QED
      BY <2>3, LenProperties DEF num_rows
  <1>7. IsPaged(inventory, docs, rows)
    BY <1>3, <1>5, <1>6 DEF TableFits
  <1>8. r \in 0..rows - 1 /\ rows # 0
    BY <1>4, <1>6
  <1>9. 1 \in 1..Len(docs) /\ inventory[docs[1]].first_row_index <= r
    <2>1. Len(docs) \in Nat
      BY <1>7, LenProperties DEF IsPaged
    <2>2. Len(docs) # 0 /\ inventory[docs[1]].first_row_index = 0
      BY <1>7, <1>8 DEF IsPaged
    <2> QED
      BY <1>8, <2>1, <2>2
  <1>10. PICK p : p = NextPage(inventory, docs, 1, r) /\ p \in 1..Len(docs)
                    /\ \A d \in ToSet(docs) : InPage(inventory[d], r) <=> d = docs[p]
    BY <1>7, <1>8, <1>9, NextPageHoldsRow
  <1>11. docs[p] \in ToSet(docs)
    <2>1. DOMAIN docs = 1..Len(docs)
      BY <1>7, LenProperties DEF IsPaged
    <2> QED
      BY <1>10, <2>1 DEF ToSet
  <1>12. PICK d : d = docs[p] /\ InPage(inventory[d], r) /\ d \in DOMAIN inventory
                    /\ inventory[d].file_ordinal = f /\ inventory[d].row_group = g
    BY <1>5, <1>10, <1>11 DEF TableFits
  <1> QED
    BY <1>4, <1>12 DEF Holds, InPage

\* A segment has what the rows of a batch have.
IsExact(segment, contents) ==
  /\ DOMAIN segment.postings = {t \in Terms : RowsHaving(contents, t) # {}}
  /\ \A t \in DOMAIN segment.postings :
       /\ IsSortedSet(segment.postings[t])
       /\ ToSet(segment.postings[t]) =
            {d \in DOMAIN segment.doc_table :
               \E row \in RowsHaving(contents, t) : Holds(segment.doc_table[d], row)}
       /\ segment.doc_frequency[t] = Cardinality(RowsHaving(contents, t))
  /\ NoneExceeds(segment.doc_frequency, DOMAIN segment.postings, segment.total_rows)

\* build_segment: for any files, of any number of row groups, pages and rows.
THEOREM SegmentIsBuilt ==
  ASSUME NEW contents, IsContents(contents), NEW segment, segment = build_segment(contents)
  PROVE  IsSegment(segment) /\ IsExact(segment, contents)
  <1>1. PICK inventory, merged : inventory = doc_table(contents) /\ merged = IndexFiles(inventory, contents)
    OBVIOUS
  <1>2. IsIndex(merged, inventory, contents) /\ TableFits(inventory, contents)
    BY <1>1, FilesAreIndexed, TableIsPaged
  <1>3. PICK found : found = {t \in Terms : merged.doc_ids[t] # <<>>}
    OBVIOUS
  <1>4. segment = Segment(inventory, merged, found)
    BY <1>1, <1>3 DEF build_segment, SegmentOf
  <1>5. /\ segment.doc_table = inventory
        /\ segment.postings = [t \in found |-> Ascending(ToSet(merged.doc_ids[t]))]
        /\ segment.doc_frequency = [t \in found |-> merged.doc_freq[t]]
        /\ segment.total_rows = merged.total_rows /\ segment.total_tokens = merged.total_tokens
    BY <1>4 DEF Segment
  <1>6. /\ merged \in Result /\ IsFiniteSet(found)
        /\ \A t \in Terms : /\ merged.doc_ids[t] \in Seq(Nat) /\ merged.doc_freq[t] \in Nat
                             /\ merged.doc_freq[t] = Cardinality(RowsHaving(contents, t))
    BY <1>2, <1>3 DEF IsIndex, Result
  <1>7. ASSUME NEW t \in Terms
        PROVE  ToSet(merged.doc_ids[t])
                 = {d \in DOMAIN inventory : \E row \in RowsHaving(contents, t) : Holds(inventory[d], row)}
    BY <1>2 DEF IsIndex
  <1>8. ASSUME NEW t \in Terms
        PROVE  /\ SortedList(Ascending(ToSet(merged.doc_ids[t])))
               /\ ToSet(Ascending(ToSet(merged.doc_ids[t]))) = ToSet(merged.doc_ids[t])
    BY <1>6, ElementsAreFinite, AscendingIsExact
  <1>9. ASSUME NEW t \in Terms PROVE merged.doc_ids[t] # <<>> <=> RowsHaving(contents, t) # {}
    <2>1. merged.doc_ids[t] # <<>> <=> ToSet(merged.doc_ids[t]) # {}
      <3>1. PICK s \in Seq(Nat) : s = merged.doc_ids[t]
        BY <1>6
      <3>2. s # <<>> => 1 \in DOMAIN s
        BY EmptySeq, LenProperties
      <3>3. s = <<>> => ToSet(s) = {}
        BY EmptyList
      <3>4. s # <<>> => s[1] \in ToSet(s)
        BY <3>2 DEF ToSet
      <3> QED
        BY <3>1, <3>3, <3>4
    <2>2. ASSUME RowsHaving(contents, t) # {} PROVE ToSet(merged.doc_ids[t]) # {}
      BY <1>2, <1>7, <2>2, RowIsHeld
    <2> QED
      BY <1>7, <2>1, <2>2
  <1>10. found = {t \in Terms : RowsHaving(contents, t) # {}}
    BY <1>3, <1>9
  <1>11. DOMAIN segment.postings = found /\ DOMAIN Chars = Terms /\ found \in SUBSET Terms
    BY <1>3, <1>5, SearchAssumption
  <1>12. \A t \in found : segment.postings[t] = Ascending(ToSet(merged.doc_ids[t]))
    BY <1>5
  <1>13. IsSegment(segment)
    <2>1. segment.doc_frequency \in [found -> Nat]
      BY <1>5, <1>6, <1>11
    <2>2. segment.postings = [t \in found |-> segment.postings[t]]
      BY <1>5
    <2>3. \A t \in found : SortedList(segment.postings[t])
      BY <1>8, <1>11, <1>12
    <2>4. segment.doc_table \in Seq(PageEntry)
      BY <1>2, <1>5 DEF TableFits
    <2>5. segment.total_rows \in Nat /\ segment.total_tokens \in Nat
      BY <1>5, <1>6 DEF Result
    <2> QED
      BY <1>6, <1>11, <2>1, <2>2, <2>3, <2>4, <2>5 DEF IsSegment
  <1>14. IsExact(segment, contents)
    <2>1. ASSUME NEW t \in found
          PROVE  /\ IsSortedSet(segment.postings[t])
                 /\ ToSet(segment.postings[t]) =
                      {d \in DOMAIN segment.doc_table :
                         \E row \in RowsHaving(contents, t) : Holds(segment.doc_table[d], row)}
                 /\ segment.doc_frequency[t] = Cardinality(RowsHaving(contents, t))
      <3>1. IsSortedSet(segment.postings[t])
        BY <1>8, <1>11, <1>12 DEF SortedList
      <3>2. ToSet(segment.postings[t]) = ToSet(merged.doc_ids[t])
        BY <1>8, <1>11, <1>12
      <3>3. segment.doc_frequency[t] = Cardinality(RowsHaving(contents, t))
        BY <1>5, <1>6, <1>11
      <3> QED
        BY <1>5, <1>7, <1>11, <3>1, <3>2, <3>3
    <2>2. NoneExceeds(segment.doc_frequency, found, segment.total_rows)
      BY <1>2, <1>3, <1>5 DEF IsIndex, NoneExceeds
    <2> QED
      BY <1>10, <1>11, <2>1, <2>2 DEF IsExact
  <1> QED
    BY <1>13, <1>14

\* A function of 1..n is a sequence.
LEMMA FunctionIsSequence ==
  ASSUME NEW V, NEW n \in Nat, NEW s \in [1..n -> V] PROVE s \in Seq(V) /\ Len(s) = n
  OBVIOUS

\* The first n elements of a sequence.
LEMMA StartOf ==
  ASSUME NEW V, NEW s \in Seq(V), NEW n \in Nat, n <= Len(s)
  PROVE  SubSeq(s, 1, n) = [k \in 1..n |-> s[k]]
  <1>1. \A k \in 1..n : s[k] \in V
    BY ElementOfSeq, LenProperties
  <1>2. PICK part : part = SubSeq(s, 1, n)
    OBVIOUS
  <1>3. part \in Seq(V) /\ Len(part) = n /\ \A k \in 1..n : part[k] = s[k]
    <2>1. /\ part \in Seq(V) /\ Len(part) = IF 1 <= n THEN n - 1 + 1 ELSE 0
          /\ \A k \in 1..n - 1 + 1 : part[k] = s[1 + k - 1]
      BY <1>1, <1>2, SubSeqProperties
    <2>2. n - 1 + 1 = n /\ (IF 1 <= n THEN n - 1 + 1 ELSE 0) = n /\ \A k \in 1..n : 1 + k - 1 = k
      OBVIOUS
    <2> QED
      BY <2>1, <2>2
  <1>4. part = [k \in 1..n |-> part[k]]
    BY <1>3, LenProperties
  <1> QED
    BY <1>2, <1>3, <1>4

\* A file with another slot in the place of one of its own does not open.
LEMMA OverwrittenFile ==
  ASSUME FindsNarrowChanges, NEW V, NEW file \in Seq(V), NEW n \in Nat, Len(file) = n + 2,
         file[n + 1] = Crc(SubSeq(file, 1, n)), file[n + 2] = Magic,
         NEW k \in DOMAIN file, NEW slot, Narrow(file[k], slot), slot # file[k],
         NEW bytes, bytes = [file EXCEPT ![k] = slot]
  PROVE  ~opens(bytes)
  <1> SUFFICES ASSUME opens(bytes) PROVE FALSE
    OBVIOUS
  <1>1. DOMAIN file = 1..n + 2 /\ \A i \in 1..n + 2 : file[i] \in V
    BY LenProperties, ElementOfSeq
  <1>2. bytes = [i \in 1..n + 2 |-> IF i = k THEN slot ELSE file[i]]
    BY <1>1
  <1>3. PICK W : W = V \cup {slot}
    OBVIOUS
  <1>4. bytes \in Seq(W) /\ Len(bytes) = n + 2
    <2>1. bytes \in [1..n + 2 -> W]
      BY <1>1, <1>2, <1>3
    <2>2. PICK l \in Nat : l = n + 2
      OBVIOUS
    <2>3. bytes \in [1..l -> W]
      BY <2>1, <2>2
    <2>4. bytes \in Seq(W) /\ Len(bytes) = l
      BY <2>3, FunctionIsSequence
    <2> QED
      BY <2>2, <2>4
  <1>5. n + 2 \in 1..n + 2 /\ n + 1 \in 1..n + 2 /\ n + 2 # n + 1 /\ (n + 2) - 1 = n + 1 /\ (n + 2) - 2 = n
    OBVIOUS
  <1>6. bytes[n + 2] = Magic /\ bytes[n + 1] = Crc(SubSeq(bytes, 1, n))
    BY <1>4, <1>5 DEF opens, Last
  <1>7. k # n + 2
    BY <1>2, <1>5, <1>6
  <1>8. PICK before, after : before = SubSeq(file, 1, n) /\ after = SubSeq(bytes, 1, n)
    OBVIOUS
  <1>9. /\ before = [i \in 1..n |-> file[i]]
        /\ after = [i \in 1..n |-> IF i = k THEN slot ELSE file[i]]
    <2>1. n <= n + 2 /\ \A i \in 1..n : i \in 1..n + 2
      OBVIOUS
    <2>2. before = [i \in 1..n |-> file[i]]
      BY <1>8, <2>1, StartOf
    <2>3. after = [i \in 1..n |-> bytes[i]]
      BY <1>4, <1>8, <2>1, StartOf
    <2> QED
      BY <1>2, <2>1, <2>2, <2>3
  <1>10. CASE k = n + 1
    <2>1. after = before
      BY <1>9, <1>10
    <2>2. Crc(after) = file[k] /\ Crc(after) = slot
      BY <1>2, <1>5, <1>6, <1>8, <1>10, <2>1
    <2> QED
      BY <2>2
  <1>11. CASE k # n + 1
    <2>1. k \in 1..n
      BY <1>1, <1>7, <1>11
    <2>2. k \in DOMAIN before /\ before[k] = file[k] /\ after = [before EXCEPT ![k] = slot]
      BY <1>9, <2>1
    <2>3. Crc(after) # Crc(before)
      BY <2>2 DEF FindsNarrowChanges
    <2>4. bytes[n + 1] = file[n + 1]
      BY <1>2, <1>5, <1>11
    <2>5. Crc(after) = Crc(before)
      BY <1>6, <1>8, <2>4
    <2> QED
      BY <2>3, <2>5
  <1> QED
    BY <1>10, <1>11

(***************************************************************************)
(* SegmentReader::open, of the file of any segment in which any number of  *)
(* 32 bits, byte of packed bits, magic or the checksum itself has any      *)
(* other value: it is an error.  The checksum is one that finds changes    *)
(* within 32 bits, as a CRC32 does, and two files may share it.            *)
(***************************************************************************)
THEOREM DamageIsDetected ==
  ASSUME FindsNarrowChanges,
         NEW F, NEW files \in Seq(F), NEW segment, IsSegment(segment),
         NEW file, file = build(segment, files),
         NEW k \in DOMAIN file, NEW slot, Narrow(file[k], slot), slot # file[k]
  PROVE  open([file EXCEPT ![k] = slot]) = {}
  <1>1. PICK bytes : bytes = [file EXCEPT ![k] = slot]
    OBVIOUS
  <1>2. ~opens(bytes)
    <2>1. PICK terms, encoded, sections :
            /\ terms = Ascending(DOMAIN segment.postings)
            /\ encoded = EncodedLists(segment, terms)
            /\ sections = Sections(segment, files, terms, encoded)
      OBVIOUS
    <2>2. SectionsFit(F, segment, files, terms, encoded, sections)
      BY <2>1, SectionsAreLaidOut
    <2>3. PICK V : sections \in Seq(Seq(V))
      BY <2>2 DEF SectionsFit
    <2>4. Len(sections) = 8 /\ file = Checked(WithOffsets(sections))
      BY <2>2 DEF SectionsFit
    <2>5. PICK o : Layout(o, sections)
      BY <2>3, LayoutExists
    <2>6. Footed(file, sections, o) /\ \E W : file \in Seq(W)
      BY <2>3, <2>4, <2>5, FileIsFooted
    <2>7. PICK size \in Nat : size = o[8]
      <3>1. o \in [0..8 -> Nat]
        BY <2>4, <2>5 DEF Layout
      <3> QED
        BY <3>1
    <2>8. PICK n \in Nat : n = size + 6 /\ n + 1 = size + 7 /\ n + 2 = size + 8
      OBVIOUS
    <2>9. Len(file) = n + 2 /\ file[n + 1] = Crc(SubSeq(file, 1, n)) /\ file[n + 2] = Magic
      BY <2>6, <2>7, <2>8 DEF Footed
    <2>10. PICK W : file \in Seq(W)
      BY <2>6
    <2> QED
      BY <1>1, <2>9, <2>10, OverwrittenFile
  <1> QED
    BY <1>1, <1>2 DEF open

-----------------------------------------------------------------------------
\* What a batch holds in its column, and the file of its segment.
ContentsOf(content, m) == [n \in DOMAIN m.files |-> content[m.files[n]][m.column]]
BuiltFrom(content, m) == build_segment(ContentsOf(content, m))
FileOf(content, m) == build(BuiltFrom(content, m), m.files)
TermStats(segment) == [min_term |-> min_term(segment), max_term |-> max_term(segment)]

\* A file with another slot of the same size in one place.
IsOverwritten(file, bytes) ==
  \E k \in DOMAIN file : \E slot :
    Narrow(file[k], slot) /\ slot # file[k] /\ bytes = [file EXCEPT ![k] = slot]

(***************************************************************************)
(* The inductive invariant: each manifest is of files and a column, and    *)
(* its reader comes from its bytes, which are those that the files build   *)
(* or, in a damaged segment, those with another slot in one place.  Each   *)
(* manifest is of one of the batches, and no two are of the same files.    *)
(***************************************************************************)
ManifestFits(content, m) ==
  /\ m \in [files : Seq(Files), column : Columns, term_stats : {TermStats(BuiltFrom(content, m))},
            bytes : {m.bytes}, reader : {open(m.bytes)}, damaged : BOOLEAN]
  /\ ~m.damaged => m.bytes = FileOf(content, m)
  /\ m.damaged => IsOverwritten(FileOf(content, m), m.bytes)

IsOf(m, job) == m.files = job.files /\ m.column = job.column

SearchInv ==
  /\ jobs \in JobSets /\ data \in Contents
  /\ table \in Seq(ToSet(table))
  /\ \A m \in ToSet(table) : ManifestFits(data, m) /\ \E job \in jobs : IsOf(m, job)
  /\ \A i, j \in DOMAIN table : ToSet(table[i].files) = ToSet(table[j].files) => i = j

\* What the files of a batch hold is laid out as the assumption on Contents says.
LEMMA ContentsAreRead ==
  ASSUME NEW content \in Contents, NEW m, m.files \in Seq(Files), m.column \in Columns
  PROVE  IsContents(ContentsOf(content, m))
  <1>1. PICK n \in Nat : n = Len(m.files) /\ DOMAIN m.files = 1..n /\ \A k \in 1..n : m.files[k] \in Files
    BY LenProperties, ElementOfSeq
  <1>2. content \in [Files -> [Columns -> Seq(RowGroup)]]
    BY SearchAssumption
  <1>3. PICK cs : cs = ContentsOf(content, m) /\ cs = [k \in 1..n |-> content[m.files[k]][m.column]]
    BY <1>1 DEF ContentsOf
  <1>4. \A k \in 1..n : cs[k] = content[m.files[k]][m.column] /\ cs[k] \in Seq(RowGroup)
    BY <1>1, <1>2, <1>3
  <1>5. cs \in Seq(Seq(RowGroup)) /\ Len(cs) = n
    <2>1. cs \in [1..n -> Seq(RowGroup)]
      BY <1>3, <1>4
    <2> QED
      BY <2>1, FunctionIsSequence
  <1>6. ASSUME NEW f \in 1..n, NEW g \in 1..Len(cs[f]) PROVE WellPaged(cs[f][g])
    <2>1. m.files[f] \in Files
      BY <1>1
    <2>2. DOMAIN cs[f] = 1..Len(cs[f])
      BY <1>4, LenProperties
    <2> QED
      BY <1>4, <1>6, <2>1, <2>2, SearchAssumption
  <1> QED
    BY <1>3, <1>5, <1>6 DEF IsContents

\* The reader of any manifest: the segment of its files, or, if the checksum
\* finds what was damaged, nothing.
LEMMA ReaderOfManifest ==
  ASSUME SearchInv, NEW m \in ToSet(table)
  PROVE  /\ IsContents(ContentsOf(data, m))
         /\ IsSegment(BuiltFrom(data, m)) /\ IsExact(BuiltFrom(data, m), ContentsOf(data, m))
         /\ ~m.damaged => m.reader = {ReaderOf(BuiltFrom(data, m), m.files)}
         /\ FindsNarrowChanges /\ m.damaged => m.reader = {}
  <1>1. ManifestFits(data, m) /\ data \in Contents
    BY DEF SearchInv
  <1>2. m.files \in Seq(Files) /\ m.column \in Columns
    BY <1>1 DEF ManifestFits
  <1>3. IsContents(ContentsOf(data, m))
    BY <1>1, <1>2, ContentsAreRead
  <1>4. PICK segment : segment = BuiltFrom(data, m)
    OBVIOUS
  <1>5. IsSegment(segment) /\ IsExact(segment, ContentsOf(data, m))
    BY <1>3, <1>4, SegmentIsBuilt DEF BuiltFrom
  <1>6. PICK file : file = build(segment, m.files) /\ file = FileOf(data, m)
    BY <1>4 DEF FileOf
  <1>7. open(file) = {ReaderOf(segment, m.files)}
    BY <1>2, <1>5, <1>6, OpenUndoesBuild
  <1>8. ~m.damaged => m.reader = {ReaderOf(segment, m.files)}
    BY <1>1, <1>6, <1>7 DEF ManifestFits
  <1>9. ASSUME FindsNarrowChanges, m.damaged PROVE m.reader = {}
    <2>0. IsOverwritten(file, m.bytes)
      BY <1>1, <1>6, <1>9 DEF ManifestFits
    <2>1. PICK k \in DOMAIN file : \E slot : Narrow(file[k], slot) /\ slot # file[k] /\ m.bytes = [file EXCEPT ![k] = slot]
      BY <2>0 DEF IsOverwritten
    <2>2. open(m.bytes) = {}
      BY <1>2, <1>5, <1>6, <1>9, <2>1, DamageIsDetected
    <2> QED
      BY <1>1, <2>2 DEF ManifestFits
  <1> QED
    BY <1>3, <1>4, <1>5, <1>8, <1>9

\* The invariant holds when a batch is indexed and when a segment is damaged.
LEMMA SearchInvIsInvariant == Spec => []SearchInv
  <1>1. Init => SearchInv
    <2> SUFFICES ASSUME Init PROVE SearchInv
      OBVIOUS
    <2>1. table = <<>> /\ ToSet(table) = {}
      BY EmptyList DEF Init
    <2>2. table \in Seq(ToSet(table))
      BY <2>1
    <2> QED
      BY <2>1, <2>2 DEF Init, SearchInv
  <1>2. SearchInv /\ [Next]_vars => SearchInv'
    <2> SUFFICES ASSUME SearchInv, [Next]_vars PROVE SearchInv'
      OBVIOUS
    <2>a. /\ table \in Seq(ToSet(table))
          /\ \A m \in ToSet(table) : ManifestFits(data, m) /\ \E job \in jobs : IsOf(m, job)
      BY DEF SearchInv
    <2>b. PICK n \in Nat : n = Len(table) /\ DOMAIN table = 1..n
      BY <2>a, LenProperties
    <2>0. PICK T : /\ T = ToSet(table) /\ table \in Seq(T) /\ n = Len(table)
                   /\ DOMAIN table = 1..n /\ \A k \in 1..n : table[k] \in T
                   /\ \A m \in T : ManifestFits(data, m) /\ \E job \in jobs : IsOf(m, job)
      BY <2>a, <2>b, ElementOfSeq
    <2>c. \A i, j \in 1..n : ToSet(table[i].files) = ToSet(table[j].files) => i = j
      BY <2>0 DEF SearchInv
    <2>1. ASSUME NEW job \in jobs, run_index(job) PROVE SearchInv'
      <3>1. job.files \in Seq(Files) /\ job.column \in Columns
        BY SearchAssumption DEF SearchInv
      <3>2. PICK m : /\ m = Manifest(job, build_segment([k \in DOMAIN job.files |-> data[job.files[k]][job.column]]))
                     /\ table' = Append(table, m) /\ jobs' = jobs /\ data' = data
        BY <2>1 DEF run_index
      <3>3. /\ m = [files |-> m.files, column |-> m.column, term_stats |-> m.term_stats,
                     bytes |-> m.bytes, reader |-> open(m.bytes), damaged |-> FALSE]
            /\ m.files = job.files /\ m.column = job.column /\ m.damaged = FALSE
            /\ m.bytes = build(build_segment([k \in DOMAIN job.files |-> data[job.files[k]][job.column]]), job.files)
            /\ m.term_stats = TermStats(build_segment([k \in DOMAIN job.files |-> data[job.files[k]][job.column]]))
        BY <3>2 DEF Manifest, ManifestOf, TermStats
      <3>4. ManifestFits(data, m)
        <4>1. FileOf(data, m) = m.bytes /\ TermStats(BuiltFrom(data, m)) = m.term_stats
          BY <3>3 DEF FileOf, BuiltFrom, ContentsOf
        <4>2. PICK fs \in Seq(Files), c \in Columns : fs = m.files /\ c = m.column
          BY <3>1, <3>3
        <4>2a. PICK stats, bytes, reader :
                /\ stats = m.term_stats /\ bytes = m.bytes
                /\ reader = open(m.bytes)
                /\ m = [files |-> fs, column |-> c, term_stats |-> stats,
                        bytes |-> bytes, reader |-> reader, damaged |-> FALSE]
          BY <3>1, <3>3, <4>2
        <4>3. [files |-> fs, column |-> c, term_stats |-> stats, bytes |-> bytes, reader |-> reader,
               damaged |-> FALSE]
                \in [files : Seq(Files), column : Columns, term_stats : {stats}, bytes : {bytes},
                     reader : {reader}, damaged : BOOLEAN]
          OBVIOUS
        <4> QED
          BY <3>3, <4>1, <4>2, <4>2a, <4>3 DEF ManifestFits
      <3>5. PICK W : W = T \cup {m}
        OBVIOUS
      <3>6. /\ table' \in Seq(W) /\ Len(table') = n + 1
            /\ \A k \in 1..n : table'[k] = table[k]
            /\ table'[n + 1] = m
        <4>1. table \in Seq(W) /\ m \in W
          <5>1. T \subseteq W /\ m \in W
            BY <3>5
          <5>2. table \in [1..n -> W]
            <6>1. table = [k \in 1..n |-> table[k]]
              BY <2>0
            <6> QED
              BY <2>0, <5>1, <6>1
          <5> QED
            BY <5>1, <5>2, FunctionIsSequence
        <4> QED
          BY <2>0, <3>2, <4>1, AppendProperties
      <3>7. DOMAIN table' = 1..n + 1
        BY <3>6, LenProperties
      <3>8. ToSet(table') = W
        <4>1. ASSUME NEW x \in ToSet(table') PROVE x \in W
          BY <3>6, <3>7, <4>1, ElementOfSeq DEF ToSet
        <4>2. ASSUME NEW x \in W PROVE x \in ToSet(table')
          <5>1. CASE x = m
            <6>1. n + 1 \in 1..n + 1
              OBVIOUS
            <6> QED
              BY <3>6, <3>7, <5>1, <6>1 DEF ToSet
          <5>2. CASE x \in T
            <6>1. PICK k \in 1..n : x = table[k]
              BY <2>0, <5>2 DEF ToSet
            <6>2. k \in 1..n + 1
              OBVIOUS
            <6> QED
              BY <3>6, <3>7, <6>1, <6>2 DEF ToSet
          <5> QED
            BY <3>5, <5>1, <5>2
        <4> QED
          BY <4>1, <4>2
      <3>9. \A x \in W : ManifestFits(data, x) /\ \E j \in jobs : IsOf(x, j)
        BY <2>0, <3>3, <3>4, <3>5 DEF IsOf
      <3>10. ASSUME NEW i \in 1..n + 1, NEW j \in 1..n + 1,
                    ToSet(table'[i].files) = ToSet(table'[j].files)
             PROVE  i = j
        <4>1. ASSUME NEW k \in 1..n PROVE ToSet(table'[k].files) # ToSet(table'[n + 1].files)
          <5>1. table[k] \in T
            BY <2>0
          <5> QED
            BY <2>0, <2>1, <3>3, <3>6, <5>1 DEF run_index
        <4>2. (i \in 1..n \/ i = n + 1) /\ (j \in 1..n \/ j = n + 1)
          OBVIOUS
        <4> QED
          BY <2>c, <3>6, <3>10, <4>1, <4>2
      <3>11. table' \in Seq(ToSet(table')) /\ \A x \in ToSet(table') : ManifestFits(data', x) /\ \E j \in jobs' : IsOf(x, j)
        BY <3>2, <3>6, <3>8, <3>9
      <3>12. \A i, j \in DOMAIN table' : ToSet(table'[i].files) = ToSet(table'[j].files) => i = j
        BY <3>7, <3>10
      <3>13. jobs' \in JobSets /\ data' \in Contents
        BY <3>2 DEF SearchInv
      <3> QED
        BY <3>11, <3>12, <3>13 DEF SearchInv
    <2>2. ASSUME NEW i \in DOMAIN table, NEW damage \in Damages, Damage(i, damage) PROVE SearchInv'
      <3>1. PICK m : m = table[i] /\ m \in T /\ ~m.damaged /\ ManifestFits(data, m)
        BY <2>0, <2>2 DEF Damage
      <3>2. PICK bytes : bytes = [m.bytes EXCEPT ![Len(m.bytes) - damage.slot] = damage.value]
        OBVIOUS
      <3>3. PICK d : d = [m EXCEPT !.bytes = bytes, !.reader = open(bytes), !.damaged = TRUE]
        OBVIOUS
      <3>4. table' = [table EXCEPT ![i] = d] /\ jobs' = jobs /\ data' = data
        BY <2>2, <3>1, <3>2, <3>3 DEF Damage
      <3>5. /\ d = [files |-> m.files, column |-> m.column, term_stats |-> m.term_stats,
                     bytes |-> bytes, reader |-> open(bytes), damaged |-> TRUE]
            /\ m.files \in Seq(Files) /\ m.column \in Columns
        BY <3>1, <3>3 DEF ManifestFits
      <3>6. /\ FileOf(data, d) = FileOf(data, m) /\ m.bytes = FileOf(data, m)
            /\ m.term_stats = TermStats(BuiltFrom(data, d)) /\ IsOverwritten(m.bytes, bytes)
        <4>1. d.files = m.files /\ d.column = m.column
          BY <3>5
        <4>2. ContentsOf(data, d) = ContentsOf(data, m)
          BY <4>1 DEF ContentsOf
        <4>3. BuiltFrom(data, d) = BuiltFrom(data, m) /\ FileOf(data, d) = FileOf(data, m)
          BY <4>1, <4>2 DEF BuiltFrom, FileOf
        <4>4. m.bytes = FileOf(data, m) /\ m.term_stats = TermStats(BuiltFrom(data, m))
          BY <3>1 DEF ManifestFits
        <4>5. PICK k : k = Len(m.bytes) - damage.slot
          OBVIOUS
        <4>6. /\ k \in DOMAIN m.bytes /\ Narrow(m.bytes[k], damage.value) /\ damage.value # m.bytes[k]
              /\ bytes = [m.bytes EXCEPT ![k] = damage.value]
          BY <2>2, <3>1, <3>2, <4>5 DEF Damage
        <4>7. IsOverwritten(m.bytes, bytes)
          BY <4>6 DEF IsOverwritten
        <4> QED
          BY <4>3, <4>4, <4>7
      <3>7. ManifestFits(data, d) /\ \E job \in jobs : IsOf(d, job)
        <4>1. d.damaged = TRUE /\ d.bytes = bytes
          BY <3>5
        <4>2. ManifestFits(data, d)
          BY <3>2, <3>5, <3>6, <4>1 DEF ManifestFits
        <4> QED
          BY <2>0, <3>1, <3>5, <4>2 DEF IsOf
      <3>8. table' = [k \in 1..n |-> IF k = i THEN d ELSE table[k]]
        <4>1. table = [k \in 1..n |-> table[k]]
          BY <2>0
        <4> QED
          BY <2>0, <3>4, <4>1
      <3>9. PICK W : W = ToSet(table') /\ W = {table'[k] : k \in 1..n}
        BY <3>8 DEF ToSet
      <3>10. table' \in Seq(W)
        <4>1. table' \in [1..n -> W]
          BY <3>8, <3>9
        <4> QED
          BY <4>1, FunctionIsSequence
      <3>11. \A x \in W : ManifestFits(data, x) /\ \E job \in jobs : IsOf(x, job)
        BY <2>0, <3>7, <3>8, <3>9
      <3>12. \A k \in 1..n : table'[k].files = table[k].files
        BY <3>1, <3>5, <3>8
      <3>13. DOMAIN table' = 1..n
        BY <3>8
      <3>14. \A k, j \in DOMAIN table' : ToSet(table'[k].files) = ToSet(table'[j].files) => k = j
        BY <2>c, <3>12, <3>13
      <3>15. jobs' \in JobSets /\ data' \in Contents
        BY <3>4 DEF SearchInv
      <3> QED
        BY <3>4, <3>9, <3>10, <3>11, <3>14, <3>15 DEF SearchInv
    <2>3. CASE UNCHANGED vars
      BY <2>3 DEF vars, SearchInv
    <2> QED
      BY <2>1, <2>2, <2>3 DEF Next
  <1> QED
    BY <1>1, <1>2, PTL DEF Spec

(***************************************************************************)
(* Whatever is indexed, in whichever batches and for whichever column, and *)
(* however the files are laid out in row groups and pages: a segment that  *)
(* is written and read back has for each term exactly the pages with a row *)
(* that has it, in order, and the number of those rows.                    *)
(***************************************************************************)
THEOREM EverySegmentIsExact == Spec => []SegmentsAreExact
  <1>1. SearchInv => SegmentsAreExact
    <2> SUFFICES ASSUME SearchInv, NEW m \in ToSet(table), ~m.damaged
                 PROVE  \E segment \in m.reader :
                          /\ segment.files = m.files
                          /\ DOMAIN segment.postings = {t \in Terms : RowsWith(m, t) # {}}
                          /\ \A t \in DOMAIN segment.postings :
                               /\ IsSortedSet(segment.postings[t])
                               /\ ToSet(segment.postings[t]) =
                                    {d \in DOMAIN segment.doc_table :
                                       \E row \in RowsWith(m, t) : Holds(segment.doc_table[d], row)}
                               /\ segment.doc_frequency[t] = Cardinality(RowsWith(m, t))
      BY DEF SegmentsAreExact
    <2>1. PICK contents, segment : contents = ContentsOf(data, m) /\ segment = BuiltFrom(data, m)
      OBVIOUS
    <2>2. IsExact(segment, contents) /\ m.reader = {ReaderOf(segment, m.files)}
      BY <2>1, ReaderOfManifest
    <2>3. PICK reader : reader = ReaderOf(segment, m.files) /\ reader \in m.reader
      BY <2>2
    <2>4. /\ reader.files = m.files /\ reader.doc_table = segment.doc_table
          /\ reader.postings = segment.postings /\ reader.doc_frequency = segment.doc_frequency
      BY <2>3 DEF ReaderOf
    <2>5. ASSUME NEW t PROVE RowsWith(m, t) = RowsHaving(contents, t)
      <3>1. DOMAIN contents = DOMAIN m.files /\ \A n \in DOMAIN m.files : contents[n] = Content(m, n)
        BY <2>1 DEF ContentsOf, Content
      <3>2. PICK R : /\ R = UNION {RowsIn(n, Content(m, n)) : n \in DOMAIN m.files}
                     /\ R = UNION {RowsIn(n, contents[n]) : n \in DOMAIN contents}
        BY <3>1
      <3>3. \A row \in R : contents[row[1]] = Content(m, row[1])
        BY <3>1, <3>2 DEF RowsIn
      <3> QED
        BY <3>2, <3>3 DEF RowsWith, RowsHaving, HasToken
    <2> QED
      BY <2>2, <2>3, <2>4, <2>5 DEF IsExact
  <1> QED
    BY <1>1, SearchInvIsInvariant, PTL

(***************************************************************************)
(* Of any two posting lists of any segment that opens, the merges return   *)
(* the intersection, the union and the difference.                         *)
(***************************************************************************)
THEOREM EveryMergeIsExact ==
  ASSUME FindsNarrowChanges PROVE Spec => []MergesAreExact
  <1>1. SearchInv => MergesAreExact
    <2> SUFFICES ASSUME SearchInv, NEW m \in ToSet(table), NEW segment \in m.reader,
                        NEW t \in DOMAIN segment.postings, NEW u \in DOMAIN segment.postings,
                        NEW a, a = segment.postings[t], NEW b, b = segment.postings[u]
                 PROVE  /\ Is(intersect(a, b), ToSet(a) \cap ToSet(b))
                        /\ Is(union(a, b), ToSet(a) \cup ToSet(b))
                        /\ Is(difference(a, b), ToSet(a) \ ToSet(b))
      BY DEF MergesAreExact
    <2>1. PICK built : built = BuiltFrom(data, m)
      OBVIOUS
    <2>2. IsSegment(built) /\ segment = ReaderOf(built, m.files)
      BY <2>1, ReaderOfManifest
    <2>3. segment.postings = built.postings
      BY <2>2 DEF ReaderOf
    <2>4. SortedList(a) /\ SortedList(b)
      BY <2>2, <2>3 DEF IsSegment
    <2> QED
      BY <2>4, MergesAreSetOperations
  <1> QED
    BY <1>1, SearchInvIsInvariant, PTL
=============================================================================
