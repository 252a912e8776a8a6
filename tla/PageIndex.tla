----------------------------- MODULE PageIndex ------------------------------
(***************************************************************************)
(* From Parquet files to a segment: the page inventory                     *)
(* (lakesearch-core/src/parquet_util.rs), the indexing of the rows and the *)
(* building of the segment (lakesearch-indexer/src/lib.rs).                *)
(*                                                                         *)
(* The content of a file in one column is a sequence of row groups; a row  *)
(* group has its cells, which are null or a sequence of words, and the     *)
(* first_row_index of each of its pages.  A word stands for what a piece   *)
(* of text looks like, a term for the token it becomes.  Doc ids, file     *)
(* ordinals and row groups count from 1, rows from 0 as in the code.       *)
(***************************************************************************)
EXTENDS DocSets

CONSTANTS
  Words,    \* pieces of text
  Terms,    \* tokens, which are numbers so that they are ordered
  TermOf    \* TermOf[w]: the token of w, lower case and NFC

ASSUME PageIndexAssumption == Terms \subseteq Nat \ {0} /\ TermOf \in [Words -> Terms]

NullCell == [null |-> TRUE, words |-> <<>>]
Cell == {NullCell} \cup [null : {FALSE}, words : Seq(Words)]
RowGroup == [cells : Seq(Cell), first_rows : Seq(Nat)]

\* The offset index of a row group: its pages in their order, from its first row on.
WellPaged(group) ==
  LET first == group.first_rows
      rows == Len(group.cells)
  IN /\ rows # 0 => Len(first) # 0 /\ first[1] = 0
     /\ \A p, q \in DOMAIN first : p <= q => first[p] <= first[q]
     /\ \A p \in DOMAIN first : first[p] <= rows

tokenize(cell) == [k \in DOMAIN cell.words |-> TermOf[cell.words[k]]]
num_rows(group) == Len(group.cells)

(***************************************************************************)
(* build_page_inventory: one entry per page, in the order of the files,    *)
(* row groups and pages; the last page of a row group ends with it.        *)
(***************************************************************************)

row_count(group, p) ==
  (IF p < Len(group.first_rows) THEN group.first_rows[p + 1] ELSE num_rows(group))
    - group.first_rows[p]

PagesOf(file, g, group) ==
  [p \in DOMAIN group.first_rows |->
     [file_ordinal |-> file, row_group |-> g,
      first_row_index |-> group.first_rows[p], row_count |-> row_count(group, p)]]

doc_table(contents) ==
  FlattenSeq([file \in DOMAIN contents |->
    FlattenSeq([g \in DOMAIN contents[file] |->
      PagesOf(file, g, contents[file][g])])])

\* The doc ids of a row group, in the order of its pages.
PageDocs(table, file, g) ==
  Ascending({d \in DOMAIN table : table[d].file_ordinal = file /\ table[d].row_group = g})

(***************************************************************************)
(* index_batches: one pass over the rows of a row group with a pointer to  *)
(* the current page.  A term is recorded once per page and counted once    *)
(* per row.                                                                *)
(***************************************************************************)

\* Mutant of NextPage: the pointer moves on at the row after the boundary.
NextPageLate(table, docs, page, row) ==
  Max({page} \cup {p \in page..Len(docs) :
                     \A q \in page + 1..p : table[docs[q]].first_row_index < row})

NextPage(table, docs, page, row) ==
  Max({page} \cup {p \in page..Len(docs) :
                     \A q \in page + 1..p : table[docs[q]].first_row_index <= row})

NothingIndexed(page) ==
  [page |-> page, doc_ids |-> [t \in Terms |-> <<>>], doc_freq |-> [t \in Terms |-> 0],
   total_rows |-> 0, total_tokens |-> 0]

IndexRow(table, docs, group, acc, row) ==
  LET page == NextPage(table, docs, acc.page, row)
      tokens == tokenize(group.cells[row + 1])
      doc == docs[page]
      New(t) == t \in ToSet(tokens) /\ doc \notin ToSet(acc.doc_ids[t])
  IN [page |-> page,
      doc_ids |-> [t \in Terms |-> IF New(t) THEN Append(acc.doc_ids[t], doc) ELSE acc.doc_ids[t]],
      doc_freq |-> [t \in Terms |-> acc.doc_freq[t] + IF t \in ToSet(tokens) THEN 1 ELSE 0],
      total_rows |-> acc.total_rows + 1,
      total_tokens |-> acc.total_tokens + Len(tokens)]

index_batches(table, docs, group) ==
  FoldLeft(LAMBDA acc, n : IndexRow(table, docs, group, acc, n - 1),
           NothingIndexed(1), [n \in 1..num_rows(group) |-> n])

(***************************************************************************)
(* run_index: index every row group of every file, merge the results, sort *)
(* and deduplicate the doc ids of each term, build the segment.            *)
(***************************************************************************)
MergeResults(x, y) ==
  [page |-> x.page,
   doc_ids |-> [t \in Terms |-> x.doc_ids[t] \o y.doc_ids[t]],
   doc_freq |-> [t \in Terms |-> x.doc_freq[t] + y.doc_freq[t]],
   total_rows |-> x.total_rows + y.total_rows,
   total_tokens |-> x.total_tokens + y.total_tokens]

Segment(table, merged, found) ==
  [doc_table |-> table,
   postings |-> [t \in found |-> Ascending(ToSet(merged.doc_ids[t]))],
   doc_frequency |-> [t \in found |-> merged.doc_freq[t]],
   total_rows |-> merged.total_rows,
   total_tokens |-> merged.total_tokens]

SegmentOf(table, merged) ==
  Segment(table, merged, {t \in Terms : merged.doc_ids[t] # <<>>})

IndexFiles(table, contents) ==
  FoldLeft(MergeResults, NothingIndexed(1),
    FlattenSeq([file \in DOMAIN contents |->
      [g \in DOMAIN contents[file] |->
         index_batches(table, PageDocs(table, file, g), contents[file][g])]]))

build_segment(contents) ==
  LET table == doc_table(contents)
  IN SegmentOf(table, IndexFiles(table, contents))

\* The bounds a manifest names: empty strings for a segment without terms.
NoTerm == 0
min_term(segment) ==
  IF DOMAIN segment.postings = {} THEN NoTerm ELSE Min(DOMAIN segment.postings)
max_term(segment) ==
  IF DOMAIN segment.postings = {} THEN NoTerm ELSE Max(DOMAIN segment.postings)
-----------------------------------------------------------------------------
(***************************************************************************)
(* build_row_selection, and what a reader makes of the selectors.          *)
(***************************************************************************)
Selector(skip, n) == [skip |-> skip, n |-> n]

\* Mutant of SelectPage: the gap before a page is not skipped.
SelectPageUnskipped(acc, entry) ==
  [selectors |-> Append(acc.selectors, Selector(FALSE, entry.row_count)),
   prev_end |-> entry.first_row_index + entry.row_count]

SelectPage(acc, entry) ==
  [selectors |->
     (IF entry.first_row_index > acc.prev_end
      THEN Append(acc.selectors, Selector(TRUE, entry.first_row_index - acc.prev_end))
      ELSE acc.selectors) \o <<Selector(FALSE, entry.row_count)>>,
   prev_end |-> entry.first_row_index + entry.row_count]

build_row_selection(entries, total_rg_rows) ==
  LET pages == FoldLeft(SelectPage, [selectors |-> <<>>, prev_end |-> 0], entries)
  IN IF pages.prev_end < total_rg_rows
     THEN Append(pages.selectors, Selector(TRUE, total_rg_rows - pages.prev_end))
     ELSE pages.selectors

ReadSelector(acc, s) ==
  [row |-> acc.row + s.n,
   rows |-> acc.rows \cup (IF s.skip THEN {} ELSE acc.row..acc.row + s.n - 1)]

SelectedRows(selectors) == FoldLeft(ReadSelector, [row |-> 0, rows |-> {}], selectors).rows
=============================================================================
