------------------------------- MODULE Search -------------------------------
(***************************************************************************)
(* What a query returns: planning (lakesearch-query/src/query/plan.rs),    *)
(* evaluation of the segments (evaluate.rs), the statistics for the scores *)
(* (mod.rs) and verification of the rows (verify.rs), over a table that    *)
(* batches of files are indexed into, for one column or another, and whose *)
(* segments may be damaged in the store.  Commit models how a batch gets   *)
(* into a table; here it is one step.                                      *)
(***************************************************************************)
EXTENDS PageIndex, DocSets, SegmentFile

CONSTANTS
  Files,
  Columns,
  JobSets,   \* what may be indexed: sets of [files : sequence of files, column]
  Contents,  \* what the files may hold: [Files -> [Columns -> Seq(RowGroup)]]
  Like,      \* Like[w]: the terms t with w ILIKE '%t%'
  LargeFiles,\* files whose columns are LargeUtf8
  Queries,   \* what is asked: [column, terms : sequence of terms, operator]
  Damages    \* which slots of a segment may be damaged, counted from its
             \* end, and what then is in their place: [slot, value]

ASSUME SearchAssumption ==
  /\ \A job \in UNION JobSets : job.files \in Seq(Files) /\ job.column \in Columns
  /\ Contents \subseteq [Files -> [Columns -> Seq(RowGroup)]]
  /\ \A content \in Contents, f \in Files, c \in Columns :
       \A g \in DOMAIN content[f][c] : WellPaged(content[f][c][g])
  /\ Like \in [Words -> SUBSET Terms]
  /\ LargeFiles \subseteq Files
  /\ DOMAIN Chars = Terms
  /\ Queries \subseteq [column : Columns, terms : Seq(Terms), operator : {"and", "or"}]
  /\ \A damage \in Damages : damage.slot \in Nat

VARIABLES
  jobs,      \* the batches of this table
  data,      \* data[f][c]: the content of file f in column c
  table      \* the manifests of the snapshot, each with the bytes of its segment
             \* and what a reader makes of them

vars == <<jobs, data, table>>

\* A manifest has the bounds of the terms; its segment is opened by each query.
ManifestOf(job, term_stats, bytes) ==
  [files |-> job.files, column |-> job.column, term_stats |-> term_stats,
   bytes |-> bytes, reader |-> open(bytes), damaged |-> FALSE]

Manifest(job, segment) ==
  ManifestOf(job, [min_term |-> min_term(segment), max_term |-> max_term(segment)],
             build(segment, job.files))

Init ==
  /\ jobs \in JobSets
  /\ data \in Contents
  /\ table = <<>>

\* run_index: the batch_id of a manifest list does not name the column.
run_index(job) ==
  /\ \A m \in ToSet(table) : ToSet(m.files) # ToSet(job.files)
  /\ table' = Append(table, Manifest(job,
                build_segment([n \in DOMAIN job.files |-> data[job.files[n]][job.column]])))
  /\ UNCHANGED <<jobs, data>>

\* A slot of one segment is overwritten in the store, with another value of
\* its kind and size.  Bound: of one segment, of at most 32 bits.
Damage(n, damage) ==
  LET stored == table[n].bytes
      k == Len(stored) - damage.slot
      bytes == [stored EXCEPT ![k] = damage.value]
  IN /\ \A m \in ToSet(table) : ~m.damaged
     /\ k \in DOMAIN stored
     /\ Narrow(stored[k], damage.value) /\ damage.value # stored[k]
     /\ table' = [table EXCEPT ![n].bytes = bytes, ![n].reader = open(bytes),
                               ![n].damaged = TRUE]
     /\ UNCHANGED <<jobs, data>>

Next ==
  \/ \E job \in jobs : run_index(job)
  \/ \E n \in DOMAIN table, damage \in Damages : Damage(n, damage)

Spec == Init /\ [][Next]_vars
-----------------------------------------------------------------------------
(***************************************************************************)
(* A query names a column, the tokens of its text and "and" or "or".       *)
(***************************************************************************)
QueryTerms(query) == ToSet(query.terms)

should_prune_segment(term_stats, query) ==
  LET in_range(t) == term_stats.min_term <= t /\ t <= term_stats.max_term
  IN /\ term_stats.min_term # NoTerm
     /\ \/ query.operator = "and" /\ \E t \in QueryTerms(query) : ~in_range(t)
        \/ query.operator = "or" /\ \A t \in QueryTerms(query) : ~in_range(t)

\* plan_query: the places of the manifests to search, and the files to scan.
ColumnManifests(query) == {n \in DOMAIN table : table[n].column = query.column}
SegmentsToSearch(query) ==
  {n \in ColumnManifests(query) : ~should_prune_segment(table[n].term_stats, query)}

all_files == UNION {ToSet(m.files) : m \in ToSet(table)}

unindexed_files(query) ==
  all_files \ UNION {ToSet(table[n].files) : n \in ColumnManifests(query)}

\* setup_query: a segment that does not open is left out, without an error.
Readers(query) ==
  LET opened == Ascending({n \in SegmentsToSearch(query) : table[n].reader # {}})
  IN [k \in DOMAIN opened |-> CHOOSE reader \in table[opened[k]].reader : TRUE]

(***************************************************************************)
(* evaluate_segment: the posting lists of the terms that occur, merged; an *)
(* AND starts with the rarest term and needs all of them.                  *)
(***************************************************************************)
SwapRemoveFirst(s) ==
  IF Len(s) = 1 THEN <<>> ELSE <<Last(s)>> \o SubSeq(s, 2, Len(s) - 1)

KnownTerms(segment, query) ==
  Chosen(query.terms, {n \in DOMAIN query.terms : query.terms[n] \in DOMAIN segment.postings})

MissesTerm(segment, query) ==
  query.operator = "and" /\ Len(KnownTerms(segment, query)) < Len(query.terms)

\* A stable sort by doc frequency.
ByFrequency(segment, terms) ==
  LET places == DOMAIN terms
      frequency(i) == segment.doc_frequency[terms[i]]
      before == {p \in places \X places :
                   \/ frequency(p[1]) < frequency(p[2])
                   \/ frequency(p[1]) = frequency(p[2]) /\ p[1] < p[2]}
      sorted == InOrder(places, before)
  IN [n \in DOMAIN sorted |-> terms[sorted[n]]]

combine(operator, docs, postings) ==
  IF operator = "and" THEN intersect(docs, postings) ELSE union(docs, postings)

evaluate_segment(segment, query) ==
  LET known == KnownTerms(segment, query)
      entries == IF query.operator = "and" THEN ByFrequency(segment, known) ELSE known
  IN IF known = <<>> \/ MissesTerm(segment, query)
     THEN <<>>
     ELSE FoldLeft(LAMBDA docs, t : combine(query.operator, docs, segment.postings[t]),
                   segment.postings[Head(entries)], SwapRemoveFirst(entries))

(***************************************************************************)
(* The statistics the rows of scanned files are scored with: the terms and *)
(* frequencies that evaluate_segment found, summed by                      *)
(* collect_aggregate_stats.  A segment that misses a term of an AND        *)
(* reports none of them, but counts with its rows.                         *)
(***************************************************************************)
term_infos(segment, query) ==
  IF MissesTerm(segment, query) THEN <<>> ELSE KnownTerms(segment, query)

total_rows(query) ==
  LET readers == Readers(query)
  IN SumFunction([n \in DOMAIN readers |-> readers[n].total_rows])

\* What a segment reports for a term, once for each time the query has it.
Reported(reader, query, t) ==
  LET infos == term_infos(reader, query)
  IN SumFunction([k \in DOMAIN infos |-> IF infos[k] = t THEN reader.doc_frequency[t] ELSE 0])

\* Mutant of term_df: the rows of a term are those of the last segment.
term_df_of_last(query, t) ==
  LET readers == Readers(query)
  IN IF readers = <<>> THEN 0 ELSE Reported(Last(readers), query, t)

term_df(query, t) ==
  LET readers == Readers(query)
  IN SumFunction([n \in DOMAIN readers |-> Reported(readers[n], query, t)])

(***************************************************************************)
(* group_candidates: the pages of each row group that has any, in the      *)
(* order of their rows, one for each first row.                            *)
(***************************************************************************)
Entries(segment, candidates, key) ==
  LET page(k) == segment.doc_table[candidates[k]]
      places == {k \in DOMAIN candidates :
                   page(k).file_ordinal = key[1] /\ page(k).row_group = key[2]}
      deduped == {k \in places : \A j \in places :
                    page(j).first_row_index = page(k).first_row_index => k <= j}
      before == {p \in deduped \X deduped : page(p[1]).first_row_index < page(p[2]).first_row_index}
      sorted == InOrder(deduped, before)
  IN [n \in DOMAIN sorted |-> page(sorted[n])]

group_candidates(segment, candidates) ==
  LET groups == {<<segment.doc_table[d].file_ordinal, segment.doc_table[d].row_group>> :
                   d \in ToSet(candidates)}
      before == {p \in groups \X groups :
                   \/ p[1][1] < p[2][1]
                   \/ p[1][1] = p[2][1] /\ p[1][2] < p[2][2]}
      keys == InOrder(groups, before)
  IN [n \in DOMAIN keys |->
        [file_ordinal |-> keys[n][1], rg_idx |-> keys[n][2],
         entries |-> Entries(segment, candidates, keys[n])]]

\* matches_predicate
matches_predicate(tokens, query) ==
  \/ query.operator = "and" /\ QueryTerms(query) \subseteq ToSet(tokens)
  \/ query.operator = "or" /\ QueryTerms(query) \cap ToSet(tokens) # {}

\* verify_rows, of the rows that were read and passed the pre-filter.
verify_rows(file, column, g, rows, query) ==
  LET cells == data[file][column][g].cells
      matching == {r \in rows : ~cells[r + 1].null
                                /\ matches_predicate(tokenize(cells[r + 1]), query)}
      in_order == Ascending(matching)
  IN [n \in DOMAIN in_order |-> <<file, g, in_order[n]>>]

SearchItem(segment, item, query) ==
  LET file == segment.files[item.file_ordinal]
      group == data[file][query.column][item.rg_idx]
      selection == build_row_selection(item.entries, num_rows(group))
  IN verify_rows(file, query.column, item.rg_idx, SelectedRows(selection), query)

SearchSegment(segment, query) ==
  LET items == group_candidates(segment, evaluate_segment(segment, query))
  IN FlattenSeq([n \in DOMAIN items |-> SearchItem(segment, items[n], query)])

(***************************************************************************)
(* brute_force_verify_batch: an ILIKE per term over the raw text, before   *)
(* the rows are tokenized.  A LargeUtf8 array cannot be compared with the  *)
(* Utf8 pattern, and without a mask no row is looked at.                   *)
(***************************************************************************)
Likes(cell, t) == \E w \in ToSet(cell.words) : t \in Like[w]

pre_filter(file, cell, query) ==
  /\ file \notin LargeFiles
  /\ \/ query.operator = "and" /\ \A t \in QueryTerms(query) : Likes(cell, t)
     \/ query.operator = "or" /\ \E t \in QueryTerms(query) : Likes(cell, t)

ScanFile(file, query) ==
  LET groups == data[file][query.column]
      candidates(g) == {r \in 0..num_rows(groups[g]) - 1 :
                          pre_filter(file, groups[g].cells[r + 1], query)}
  IN FlattenSeq([g \in DOMAIN groups |-> verify_rows(file, query.column, g, candidates(g), query)])

\* The rows of the answer, before they are ranked and cut.
run_query(query) ==
  LET segments == Readers(query)
      scanned == SetToSeq(unindexed_files(query))
  IN IF query.terms = <<>>
     THEN <<>>
     ELSE FlattenSeq([n \in DOMAIN segments |-> SearchSegment(segments[n], query)])
            \o FlattenSeq([n \in DOMAIN scanned |-> ScanFile(scanned[n], query)])
-----------------------------------------------------------------------------
(***************************************************************************)
(* The reference: the rows of the files of the table whose text, broken    *)
(* into tokens, satisfies the query; a query without tokens finds nothing. *)
(***************************************************************************)
RowsIn(name, groups) ==
  UNION {{<<name, g, r>> : r \in 0..num_rows(groups[g]) - 1} : g \in DOMAIN groups}

RowsOf(column, files) == UNION {RowsIn(f, data[f][column]) : f \in files}

\* The files that a segment of the column covers, if it can be read or if not.
FilesCovered(column, damaged) ==
  UNION {ToSet(m.files) : m \in {m \in ToSet(table) : m.column = column /\ m.damaged = damaged}}

HasTerm(row, column, t) ==
  LET cell == data[row[1]][column][row[2]].cells[row[3] + 1]
  IN ~cell.null /\ \E w \in ToSet(cell.words) : TermOf[w] = t

Satisfying(query) ==
  {row \in RowsOf(query.column, all_files \ FilesCovered(query.column, TRUE)) :
     /\ query.terms # <<>>
     /\ IF query.operator = "and"
        THEN \A t \in QueryTerms(query) : HasTerm(row, query.column, t)
        ELSE \E t \in QueryTerms(query) : HasTerm(row, query.column, t)}

(***************************************************************************)
(* The answer to any query is exactly the rows that satisfy it, each once, *)
(* whatever has been indexed in whichever batches and for whichever        *)
(* column: pruning, page-level candidates, row selection and the pre-      *)
(* filter of the scan lose nothing and add nothing (tests/integration.rs,  *)
(* brute_force_matches_indexed_results).  What the code gives up, and the  *)
(* reference too: the rows of the files of a damaged segment are missing,  *)
(* without an error, from queries of its column.                           *)
(***************************************************************************)
AnswersAreExact ==
  \A query \in Queries :
    LET rows == run_query(query)
    IN /\ ToSet(rows) = Satisfying(query)
       /\ Len(rows) = Cardinality(Satisfying(query))

Content(m, n) == data[m.files[n]][m.column]

RowsWith(m, t) ==
  {row \in UNION {RowsIn(n, Content(m, n)) : n \in DOMAIN m.files} :
     \E w \in ToSet(Content(m, row[1])[row[2]].cells[row[3] + 1].words) : TermOf[w] = t}

Holds(entry, row) ==
  /\ entry.file_ordinal = row[1] /\ entry.row_group = row[2]
  /\ entry.first_row_index <= row[3]
  /\ row[3] < entry.first_row_index + entry.row_count

(***************************************************************************)
(* A segment, written to its file and read back, has for each term exactly *)
(* the pages with a row that has it, in order, and counts those rows       *)
(* (types.rs, TermInfo: "Number of rows (not pages) containing this        *)
(* term"): neither the page pointer of the indexer nor the blocks, deltas  *)
(* and offsets of the file shift anything.                                 *)
(***************************************************************************)
SegmentsAreExact ==
  \A m \in ToSet(table) : ~m.damaged =>
    \E segment \in m.reader :
      /\ segment.files = m.files
      /\ DOMAIN segment.postings = {t \in Terms : RowsWith(m, t) # {}}
      /\ \A t \in DOMAIN segment.postings :
           /\ IsSortedSet(segment.postings[t])
           /\ ToSet(segment.postings[t]) =
                {d \in DOMAIN segment.doc_table :
                   \E row \in RowsWith(m, t) : Holds(segment.doc_table[d], row)}
           /\ segment.doc_frequency[t] = Cardinality(RowsWith(m, t))

Is(docs, S) == IsSortedSet(docs) /\ ToSet(docs) = S

(***************************************************************************)
(* Of any two posting lists of a segment, the merges of boolean.rs return  *)
(* the intersection, the union and the difference, sorted and without      *)
(* duplicates, so that each result can be merged again.                    *)
(***************************************************************************)
MergesAreExact ==
  \A segment \in UNION {m.reader : m \in ToSet(table)} :
    \A t, u \in DOMAIN segment.postings :
      LET a == segment.postings[t]
          b == segment.postings[u]
      IN /\ Is(intersect(a, b), ToSet(a) \cap ToSet(b))
         /\ Is(union(a, b), ToSet(a) \cup ToSet(b))
         /\ Is(difference(a, b), ToSet(a) \ ToSet(b))

Begins(s, part) == \E k \in 0..Len(s) : SubSeq(s, 1, k) = part
Ends(s, part) == \E k \in 0..Len(s) : SubSeq(s, k + 1, Len(s)) = part

\* Terms as they are in the dictionary of a file.
TermKeys(file, terms) ==
  {[key |-> Chars[t], ordinal |-> CHOOSE o \in term_ordinal(file, t) : TRUE] : t \in terms}

ListsOnce(found, S) == ToSet(found) = S /\ Len(found) = Cardinality(S)

(***************************************************************************)
(* Both dictionaries of a segment agree: by any beginning or end, they     *)
(* find the terms spelled so, each once, with the ordinal of its posting   *)
(* list, although the second is sorted by the reversed terms.              *)
(***************************************************************************)
LookupsAreExact ==
  \A m \in ToSet(table) : ~m.damaged =>
    \E segment \in m.reader : \A s \in Terms : \A k \in 0..Len(Chars[s]) :
      LET terms == DOMAIN segment.postings
          beginning == SubSeq(Chars[s], 1, k)
          ending == SubSeq(Chars[s], k + 1, Len(Chars[s]))
      IN /\ ListsOnce(prefix_terms(m.bytes, beginning),
                      TermKeys(m.bytes, {t \in terms : Begins(Chars[t], beginning)}))
         /\ ListsOnce(suffix_terms(m.bytes, ending),
                      TermKeys(m.bytes, {t \in terms : Ends(Chars[t], ending)}))

(***************************************************************************)
(* The statistics of a query without repeated terms: they never count more *)
(* rows with a term than rows, and for an OR they count exactly the        *)
(* indexed rows with the term, since a pruned segment has none of them.    *)
(* total_rows is no more than a bound for them: it leaves out the rows of  *)
(* pruned segments and of files that are not indexed, and an AND leaves    *)
(* out the rows with a term in segments that miss another.                 *)
(***************************************************************************)
AggregatesAreExact ==
  \A query \in Queries : IsInjective(query.terms) =>
    LET indexed == RowsOf(query.column, FilesCovered(query.column, FALSE))
    IN \A t \in QueryTerms(query) :
         /\ term_df(query, t) <= total_rows(query)
         /\ query.operator = "or" =>
              term_df(query, t) = Cardinality({row \in indexed : HasTerm(row, query.column, t)})
=============================================================================
