# LakeSearch in TLA+

LakeSearch is a full-text index over Parquet files in object storage. An
*indexer* reads a batch of files, builds an inverted index over their pages (a
segment), uploads it and commits it to a table; a *query server* plans a query
against the table's current snapshot, reads the candidate pages of indexed
files, scans the others, and streams the rows that match. There is no database
behind it: the only thing two processes share is the object store, and the only
object that is ever overwritten is `metadata/current.json`.

This directory holds TLA+ modules translated from the Rust source under `src/`,
TLC configurations that check them on small instances, and proofs for TLAPS.
`PROJECT.json` lists every run, the lines each definition stands for, the
findings and the hazards with the properties that cover them.

## 1. The system

Paths are relative to `src/`; `core`, `indexer`, `query` and `cli` stand for the
four crates `lakesearch-core/src` and so on.

| Component | State | Operations | What makes it correct | Module |
|---|---|---|---|---|
| Object store under a table (`core/storage.rs`, `core/metadata.rs`) | `current.json` with its ETag; metadata files, manifest lists, manifests, segments, none ever rewritten | conditional and plain PUT, GET | only `current.json` moves | `TableStore` |
| Commit protocol (`core/cas.rs`, `indexer/lib.rs`) | per run: ETag and metadata it read, attempt; in the store: the snapshot | read, dedup check, three uploads, write metadata, PUT, rebase, give up | no commit lost or doubled, no dangling reference, truthful answers, every run ends | `Commit`, refining `TableLog` |
| Table creation (`cli/main.rs`) | none but the store | check, write metadata, overwrite `current.json` | a table is never replaced, segments are for its columns (neither holds); what is replaced stays gone | `TableLifecycle` |
| Index build (`indexer/lib.rs`, `core/parquet_util.rs`) | page pointer, posting and frequency maps | page inventory, `index_batches`, merge, `build_segment` | a posting list is exactly the pages with the term | `PageIndex` |
| Posting codec, segment file (`core/posting.rs`, `core/segment/`) | the bytes | encode, build; open, decode, look up by term, prefix, suffix | what is read is what was written, or nothing is | `SegmentFile` |
| Boolean merges (`core/boolean.rs`) | two pointers | `intersect`, `union`, `difference` | they are the set operations | `DocSets` |
| Planning, evaluation, verification (`query/query/{mod,plan,evaluate,verify}.rs`) | none but the table | prune, open, evaluate, aggregate, group, select rows, verify; scan with a pre-filter | the answer is exactly the matching rows, less those of files whose segment does not open | `Search` |
| Query pipeline (`query/query/{mod,pipeline}.rs`) | three bounded channels, a semaphore, jobs in flight, pending batches | I/O tasks, dispatcher, coalescer, reader | no deadlock, nothing lost or doubled, no read error swallowed, cancellation | `Pipeline` |
| Metadata cache (`query/server/cache.rs`) | path and parsed metadata per table | register, poll, refresh, look up | it catches up, and no answer depends on its age | `Server` |
| Object cache (`query/object_cache.rs`) | bytes by path, loads in progress | get, load, evict | a shared load has a driver, its error does not outlive it | `Server` |
| HTTP and Flight servers (`query/server/`) | per request: its query, its deadline | search, list tables; `get_flight_info`, `do_get` | each request is answered, in time, from a snapshot no older than itself | `Server` |
| Ranking, BM25 (`query/query/rank.rs`, `core/bm25.rs`) | none | score, sort, cut | order of the scores | the cut in `Pipeline`, the inputs of the score in `Search` |
| Runtime (`core/runtime.rs`) | tokio and rayon pools | `cpu` | a job's result reaches its caller | in `Pipeline` |
| Tokenizer (`core/tokenizer.rs`) | none | split, fold, normalise | index and query tokenize alike | abstracted in `PageIndex` |
| Configuration, start-up, tests, demo | | | | not modelled |

They interact in four ways. Indexers, `create-table` and queries meet in
the store: a query reads `current.json` once and afterwards only objects that
never change, so it sees one snapshot, and all coordination is the ETag of
`current.json`. Inside a query, tasks meet in three bounded channels, which also
carry the end of the work (all senders dropped) and its cancellation (the
receiver dropped). An index build and a query meet in the segment: doc ids name
pages, and the row ranges that the reader selects come from the inventory the
indexer wrote. Inside the server, requests meet in the two caches: the polled
metadata, which only validates them, and the loads of segments they share.

What is hard about it: indexers that race, are killed between two uploads or
lose the answer of a PUT; stores without conditional PUTs; channels that are
full at the wrong moment; stages that stop early or one after another; a client
that leaves while the pipeline is full or while nothing is found; a load that
several queries wait for and whose owner times out; a refresh that fails half
way; a store that never answers; a file format whose offsets follow from each
other; page boundaries; and two ways to find a row (index and scan) that must
agree. `hazards` in `PROJECT.json` lists each with its line.

## 2. Plan

The order is that of damage: what loses committed data first, what returns a
wrong answer next, then what hangs.

1. `TableStore`, `Commit`, `TableLog`, `TableLifecycle`, with proofs for any
   number of workers, retries and restarts. *Done.*
2. `Pipeline`: one query's tasks and channels, safety and liveness, with proofs
   that it loses nothing and hides no read error. *Done.*
3. `DocSets`, `PageIndex`, `SegmentFile`, `Search`: from Parquet pages through
   the bytes of a segment to the rows of an answer, against a reference
   definition. *Done.*
4. `Server`: requests between the caches, a store that fails or does not answer,
   and the commits of others, with proofs of its safety. It takes the table for
   the log that `CommitImplementsLog` shows it to be. *Done.*
5. Proofs about data: what the merges, the codec, the file and the index build
   compute for inputs of any size (`Recursion`, `SegmentProofs`,
   `SearchProofs`), and what a query makes of them (`AnswerProofs`): answers,
   statistics, dictionaries. *Done.*
6. Left: the cache of Parquet footers and the resolution of schemas, which need
   files of different schemas.

## 3. The modules

### TableStore, Commit, TableLog, TableLifecycle

`TableStore` is the store as the code uses it. Objects other than `current.json`
have a UUID in their name and are written once, so `metas` is simply the
sequence of metadata files and `objects` the set of (kind, run) pairs. Versions
of `current.json` count up and stand for ETags. `StoreKind` says what a
conditional PUT does: `"conditional"` compares (in-memory, GCS, Azure),
`"unconditional"` answers `NotImplemented` and gets the fallback of
`cas.rs:75-82` (local files, and S3 as `parse_location` opens it), `"no_etag"`
gives no ETag to compare. With `Remote`, a request whose answer was lost, or
that the client library sent again, stays in `inflight` and reaches the store at
any later time.

`Commit` is `run_index` with the loop of `commit_metadata`. `pc[w]` is the place
of worker `w`; the actions are its steps between two writes to the store:

| Action | Code |
|---|---|
| `Begin` | reads `current.json` and its metadata, checks the column, returns early for a known batch (`lib.rs:58-86`) |
| `Upload` | segment, manifest, manifest list (`lib.rs:230-296`) |
| `WriteMetadata` | head of the loop: the closure on `latest`, written under a new name (`cas.rs:43-54`) |
| `PutApplied`, `PutRefused`, `PutUnanswered` | the PUT, its answer, or neither (`cas.rs:56-90, 115`) |
| `Rebase` | after a conflict: re-read, look for the batch, next attempt or bail out (`cas.rs:91-119`) |
| `Abort` | any `?` on the way, or the end of the process |
| `StoreDelivers` | a late request arrives |

Reading `current.json` and the immutable metadata it names is one step, because
what the second read returns is fixed by the first. The backoff is only time.
`TableLog` is what the protocol promises: a log of batches that grows at its
end, each at most once, and an `ok` that is only said of a batch in the log;
`ImplementsLog` maps the live manifest lists to it. `TableLifecycle` adds
`create-table`, any number of them: the check and the PUT of `current.json` are
separate steps, and a command may be killed between them and run again
(`AbortCreate`). The PUT has no condition. Like an indexer's it may be answered
(`WriteFirstPointer`), or be late or sent again (`FirstPointerUnanswered`: the
request stays in `inflight`, with no ETag to compare, and create-table fails or
goes on waiting), and then it replaces whatever table is there.

### Pipeline

One query from its files to its client. `task[f]` is the I/O task of file `f`
(both producers of `pipeline.rs`, told apart by `IndexedFiles` and
`UnindexedFiles`), `dispatcher` the select loop, `in_flight` the jobs on the
rayon pool, `coalescer` its loop, `reader` whatever receives from the last
channel: the loop of `run_query_collected`, the ranking task of a top-K
`run_query`, or the client. Channels are the sequences `input`, `output`,
`final`, of `Capacity` slots. A channel is closed when its senders are done and
a send fails when its receiver is done, exactly as the `Sender` and `Receiver`
values are owned and dropped in `run_pipeline`; I/O tasks own a sender of
`final` too (`error_tx`). A batch is named by its file and its place there and
carries the number of rows that match.

Two steps are merged: a job is taken to finish when the dispatcher collects it,
since nothing else observes it; and the drain loop after the select loop
(`pipeline.rs:384-392`) is left out, because the select loop only ends when
nothing is in flight. A panic of a job aborts the process, because the rayon
pool is built without a panic handler.

### DocSets, PageIndex, SegmentFile, Search

`DocSets` has the three merges as one recursive function over two pointers, with
which heads are pushed and which tails appended as parameters. `PageIndex` has
the page inventory, the pass over a row group that moves a page pointer with the
rows, the merging of row groups into a segment, and `build_row_selection`.

`SegmentFile` is the file in between. A file is a sequence of slots, each with
the kind of its field, so that offsets and lengths count slots: one for a number
of any width, one for each byte of packed bits, one for a path, one for a key of
an FST with its ordinal. What matters of the format is kept: the delta coding,
the bit width of a block, the packing across byte boundaries and back, the
blocks, when LZ4 is tried and when kept, the order of the sections, the offset
of each posting list, the offsets in the footer, the offset of the term infos
that the footer does not have, the two dictionaries and the checksum. A slot of
LZ4 and an FST stand for the external libraries. The checksum is a constant,
`Crc`: of a CRC32 nothing is used but that it finds every change within 32 bits
(`FindsNarrowChanges`), and files that differ in more may have the same.

`Search` puts a query on top: pruning by the bounds of a segment, the segments
that open, the files that need a scan, the merge of posting lists (with the
`swap_remove` that changes their order), the document frequencies for the
scores, grouping by row group, verification, and the scan with its ILIKE
pre-filter. Files are indexed in any order by `run_index`, a segment may be
damaged in the store (`Damage`: one number, byte, magic or the checksum gets
another value of its size), and every state is asked every query of
`Queries`. Words and tokens are separate sets: `TermOf` is the tokenizer and
`Like` what ILIKE sees in the raw text. Doc ids count from 1 instead of 0; rows
count from 0 as in the code.

### Server

The requests of the query server, each at a place `pc[r]`:

| Action | Code |
|---|---|
| `Arrive` | the table and the column are looked up in the cached metadata (`handlers.rs:84-98`, `validate_request`) |
| `Plan` | `plan_query` reads `current.json`: the snapshot of this query (`plan.rs:36-37`) |
| `Get`, `LoadDone`, `LoadFails`, `Evict` | `get_bytes` through moka's `try_get_with`: hit, shared load, its outcome (`object_cache.rs:67-78`) |
| `Launch`, `Complete`, `RequestFails` | the query runs and ends; what it does meanwhile is `Pipeline`'s |
| `TimePasses`, `Timeout`, `Leave` | `tokio::time::timeout` around the query (HTTP) or its setup (Flight), and a client that disconnects: the future is dropped, with its loads |
| `PollStream` | the stream of `do_get`: the deadline is compared when there is an item (`flight.rs:211-219`) |
| `Tick`, `ReadPointer`, `ReadMetadata`, `RefreshFails` | the polling task: `refresh_all` waits for every table; each reads the pointer, compares paths, reads the metadata, stores both (`cache.rs:103-155`) |
| `CommitBatch` | an indexer commits, which `Commit` describes |

A snapshot is the number of batches in it, which is sound because a table is an
append-only log (`CommitImplementsLog`). Each batch stands for the objects a
query fetches for it. `began`, `overdue` and `hit` are history: what was
committed when a request arrived, which streams were polled past their deadline,
which requests saw the store fail.

## 4. The runs

`pass` runs finish without an error. A `violation` run states what a document,
a comment or a test says of the program, and TLC shows how the code departs from
it; `findings` in `PROJECT.json` quotes the line.

| Run | Question | Instance |
|---|---|---|
| `commit_race` | Two invocations for one batch, racing or one after the other was killed, and one for another batch; lost answers and late requests: is anything lost, doubled, dangling, or a false success? Is the table the log of `TableLog`? Does a worker bail out only when overtaken, and does every run end? | 3 workers, 2 attempts, 1 run each |
| `lifecycle` | Two create-tables for other columns that both look before either writes, killed, rerun, late or sent again, over an indexer that is killed and rerun with late PUTs of its own: does only create-table replace a table, does what is replaced stay gone, is no batch doubled, is an indexer that bails out overtaken? | 2 creators, 1 indexer, 2 runs, 2 attempts |
| `lifecycle_replaced` | violation: the PUT of one create-table, sent twice, empties a table that an indexer filled | 1 creator, 2 indexers |
| `commit_two_columns` | violation: the second column of the same files is reported indexed and is not | 2 workers |
| `pipeline` | Read errors, bad footers, failing concats and a client that leaves: every match once unless a concat failed, no read error hidden, enough rows and true statistics after an early limit, the client answered, every task ended? | 3 files, 4 kinds of query, 2 permits, 2 threads, channels of 1 |
| `pipeline_stream_limit` | violation: a streamed unscored limit is exceeded | limit 2 |
| `pipeline_unscored_tail` | violation: a match in an unindexed file aborts the process | scores for indexed results only |
| `search_answers` | Is every answer exactly the matching rows, at every stage of indexing, and with a damaged segment all but those of its files? Is a segment read back exactly the pages of its terms, found by any beginning or end? Are merges and document frequencies what they should be? | 2 files, 1 to 8 pages, 4 kinds of cell, 28 queries, blocks of 3 ids |
| `search_decomposed` | violation: text that is not NFC is found in indexed files only | 1 word per file |
| `search_large_utf8` | violation: LargeUtf8 text is found in indexed files only | 1 word per file |
| `server` | Does a query see what was committed before it arrived, does no error outlive its request, is a shared load always driven, is HTTP always answered, does the cached metadata catch up? | 2 HTTP requests, 1 Flight request, 1 table, 2 commits |
| `flight_deadline` | violation: a stream is polled after its deadline and does not end | the same |

### Bounds

- Commit: two attempts instead of five, since what matters is an attempt that is
  refused, one after it, and running out of them. Three workers give a race of
  two with a third overtaking, and a worker that is killed and another with the
  same batch are what an invocation and its rerun are. `MaxRuns` bounds the
  invocations of one worker. The proofs below need none of these bounds.
- Table creation: a create-table looks only while there are fewer than
  `MaxCreates` metadata files, which is 1 in `lifecycle`: both creators look
  before either writes, or one is killed before it writes and runs again.
  `MaxVersions` bounds until when a PUT of create-table is left under way: with 1
  it leaves before there is a table, and it may arrive, with its answered copy or
  without, before or after any commit. The columns differ, so that a replaced
  table is one with other columns.
- Pipeline: channels of one slot instead of 16 make every send block as early as
  possible; with three files, two permits and up to two batches each, every
  channel fills and a task waits for a permit. `TargetBatchSize` is 2 rows, so
  that the coalescer flushes in the middle as well as at the end. `Queries` names
  the kinds of query: a ranked limit, a stream without limit, an early limit,
  scores for indexed results only.
- Search: three rows in one, two or three pages and a second file of two row
  groups cover a boundary inside, at the start and at the end of a row group, a
  skipped page, an empty list and repeated terms. The file of eight pages gives
  posting lists of three blocks, the last one shorter, and one whose deltas take
  two bytes, so that it is compressed (`Lz4MinBytes` is 2 instead of 32). One
  segment is damaged, in the magic at its end, its checksum or the middle of its
  body. `MCCrc` is a sum, which many files share. Queries have up to three
  terms; the code treats more than four with a hash set instead of a loop.
- Server: two requests of one table share loads, and the third, of a table that
  is not registered, is refused; the second commit adds the column that one of
  them names, so that it may come too early for the cache. `MaxCommits` is 2: a
  commit before and one after each read. The proofs need no bound.

### Fairness

`Commit` is weakly fair per running worker: tokio polls a task whose request was
answered or whose backoff elapsed. Nobody has to start the indexer, fail, or
deliver a late request. `Pipeline` is weakly fair per I/O task and for the
dispatcher, the coalescer and the reader: tokio runs what can run, storage
answers in the end, rayon finishes its jobs. The semaphore and the channels of
tokio are fair queues; weak fairness asks for less. Nothing has to fail, and
nothing obliges the client to stay or to leave.

`Server` is weakly fair for the polling task, the passing of time and a timer
that went off; nothing says that the store answers, so `HttpAnswered` holds
against one that hangs. `CacheCatchesUp` has the answers of the stores (strongly
fair `ReadPointer` and `ReadMetadata`) as its premise, and they may fail in
between. All tables are refreshed together, so the premise is about every store.

Deadlock checking is off where an indexer, a query and a table that nobody
writes to any more do stop; the server never does, and there it is on.
`EveryRunEnds`, `ClientIsAnswered` and `EveryTaskEnds` are what rules out the
stops that would be errors.

## 5. What is proved

For every value of the constants that satisfies their assumptions, with lost
answers, late requests, faults and clients that leave:

| Theorem | Module | Says | Assumes |
|---|---|---|---|
| `TypeCorrect` | `CommitProofs` | `Spec => []TypeOK` | |
| `NothingDangles` | `CommitProofs` | `Spec => []NoDanglingReference` | |
| `NoDuplicates` | `CommitProofs` | `Spec => []NoDuplicateBatch` | `StoreKind = "conditional"` |
| `OkIsTrue` | `CommitProofs` | `Spec => []OkMeansCommitted` | the same |
| `CommitsStay` | `CommitProofs` | `Spec => AppendOnly` | the same |
| `BailOutsAreContention` | `CommitProofs` | `Spec => []BailOnlyUnderContention` | the same |
| `CommitImplementsLog` | `CommitProofs` | `Spec => ImplementsLog` | the same |
| `LifecycleTypeCorrect` | `LifecycleProofs` | `LifecycleSpec => []LifecycleTypeOK` | |
| `NoDuplicatesAfterCreation` | `LifecycleProofs` | `LifecycleSpec => []NoDuplicateBatch` | conditional store |
| `ReplacedTablesStayReplaced` | `LifecycleProofs` | `LifecycleSpec => OnlyCreationReplaces` | the same |
| `BailOutsAfterCreation` | `LifecycleProofs` | `LifecycleSpec => []BailOnlyUnderContention` | the same |
| `PipelineTypeCorrect` | `PipelineProofs` | `Spec => []PipelineTypeOK` | |
| `NoErrorIsSwallowed` | `PipelineProofs` | `Spec => []NoErrorSwallowed` | |
| `EveryMatchIsReceivedOnce` | `PipelineProofs` | `Spec => []EveryMatchOnce` | |
| `LimitIsFilled` | `PipelineProofs` | `Spec => []LimitFilled` | |
| `StatsCountRows` | `PipelineProofs` | `Spec => []StatsMatchRows` | |
| `ServerTypeCorrect` | `ServerProofs` | `Spec => []ServerTypeOK` | |
| `QueriesReadCommitted` | `ServerProofs` | `Spec => []ReadsCommitted` | |
| `ErrorsAreOwn` | `ServerProofs` | `Spec => []ErrorsAreFresh` | |
| `LoadsAreDriven` | `ServerProofs` | `Spec => []NobodyIsStranded` | |
| `DecodeUndoesEncode` | `SegmentProofs` | `decode(encode(docs)) = {docs}` | `docs` sorted |
| `OpenUndoesBuild` | `SegmentProofs` | `open(build(segment, files)) = {ReaderOf(segment, files)}` | the types of a segment, its lists sorted |
| `MergesAreSetOperations` | `SearchProofs` | `intersect`, `union` and `difference` are those of sets | both lists sorted |
| `SegmentIsBuilt` | `SearchProofs` | `build_segment` has the pages and counts of the rows it was given | row groups are well paged |
| `DamageIsDetected` | `SearchProofs` | a file with any other value in one slot of at most 32 bits does not open | as `OpenUndoesBuild`, `FindsNarrowChanges` |
| `EverySegmentIsExact` | `SearchProofs` | `Spec => []SegmentsAreExact` | |
| `EveryMergeIsExact` | `SearchProofs` | `Spec => []MergesAreExact` | `FindsNarrowChanges` |
| `EveryAnswerIsExact` | `AnswerProofs` | `Spec => []AnswersAreExact` | batches of a column share no file, ILIKE finds a token in its text, Utf8 columns, `FindsNarrowChanges` |
| `EveryAggregateIsExact` | `AnswerProofs` | `Spec => []AggregatesAreExact` | batches of a column share no file, `FindsNarrowChanges` |
| `EveryLookupIsExact` | `AnswerProofs` | `Spec => []LookupsAreExact` | |

The assumption on the store is the code's own: on a store that answers
`NotImplemented` to a conditional PUT, `cas.rs:75-82` warns and overwrites, so
that of two indexers the later PUT drops the earlier commit; the comment there
allows it for a single writer. Nothing is assumed of the creators. That a table
is never replaced is not a theorem, because it does not hold
(`lifecycle_replaced`). Then an indexer may also commit segments for a column
that the new table does not have: the column is looked up once
(`lib.rs:69-75`), and the rebase looks for the batch only.

The assumptions on answers are needed too. The code compares whole batches
(`cas.rs:130`), so a file that two batches of one column name, or that a batch
names twice, is indexed twice and its rows are found twice (`BatchesAreApart`;
it is a hazard). The runs `search_decomposed` and `search_large_utf8` violate
`AnswersAreExact` in an instance that only lacks the second or the third. The
instance of `search_answers` satisfies all of them.

`FindsNarrowChanges` quantifies over all sequences of slots, so it is a
hypothesis of the theorems that need it and not an assumption that TLC could
evaluate. It holds for a CRC32: a field of at most 32 bits, however long the
file, is a burst that its polynomial always finds. `MCCrc` has the property for
the damages of the run.

*Types and references.* `TypeInv` adds to `TypeOK` that a running worker holds a
metadata file that exists, and in `put` a new one. `UploadInv` says which of its
three objects a run has written at each `pc`, and that every run named by a
metadata file has written all three; a metadata file is only written after the
third upload.

*No commit lost or doubled.* None of the properties is inductive: a step of one
worker is safe because of what another one read long before. `CASInv` ties every
pending PUT to what it was computed from: while the ETag a worker holds is the
current one, the metadata it extends is the current one and its batch is not in
it; a request under way is the same promise without a worker; and no metadata
file, live or not, has a batch twice. A PUT that is accepted has the current
ETag, so it extends the live snapshot by one new batch (`AppendOnly`,
`NoDuplicateBatch`), and every other pending PUT now holds an old ETag.
`OkMeansCommitted` follows because snapshots only grow. `Overtaken` counts the
attempts of a run against the versions of `current.json` since its start, which
gives the bail-out theorem.

*Refinement.* The mapping turns the live manifest lists into a sequence of
batches. With `CASInv`, every step of `Commit` either appends one batch that was
not there, or changes one worker's answer, or neither.

*Creation.* A PUT of create-table moves `current.json` to a version that no
indexer has read, and to a metadata file without batches. So it overtakes every
pending PUT of an indexer, like a commit does, and `PendingInv`, which is
`CASInv` without what it says of answers and with requests that have no ETag and
name an empty file, survives it (`OvertakenNext`). `CreationInv` adds that the
metadata file of a creator that is about to PUT is empty. What `CASInv` says of
answers does not survive: a run whose batch was committed to the old table has
told the truth at the time.

*Pipeline.* `TypeInv` bounds channels, permits and jobs; the permits need that
the tasks that hold one are a finite set of which one more starts only below the
bound. `ErrorInv` follows an error on its way: a task that failed is about to
send it, or it is in the last channel, or the client has it, or nobody reads any
more; and the client completes a query only after all stages. `FlowInv` is the
conservation of batches: while somebody reads and no limit or failing concat
cuts the query short, each matching batch is in exactly one of eight places
(unsent, the input channel, the jobs, the dispatcher's hand, the output channel,
the coalescer, the last channel, the client), each step moves batches from one
place to the next (lemma `Moved`), and when a stage ends all places before it are
empty (`Orderly`). At the end only the client is left.

For an unscored limit the dispatcher may stop early and drop its channel and
what is on the pool. `Cut` says that it has, and until then every matching batch
is in one of the eight places. `Located` also says that `rows_matched` is the
`Total` of the rows of the batches from the dispatcher's hand to the client
(`Found`), which it has counted and which are all that a query that ends well
receives: that is `StatsCountRows`. A cut happens only when that sum has reached
the limit, and without one the client has everything: that is `LimitIsFilled`.
A sum of natural numbers does not depend on its order (`SumAnyOrder`).

*Server.* `SafetyInv`: a request that has not read the pointer began with a
snapshot that is still a prefix of the committed one; who waits for an object
needs it and is loading; a load belongs to one who waits for it, and nothing that
is in the cache is being loaded. `Stopping` says once what dropping a set of
futures does.

*Data.* The installed provers cannot instantiate an induction theorem of the
library, whose property is an operator, but a set of numbers they can:
`Recursion` proves from the well-foundedness of the numbers that every set has a
least number, hence `Induction` over sets, hence that a recursive definition
whose arguments get smaller is met by a function (`RecursiveFunction`). With it
the recursive functions of the model, the sums and folds of the community
modules and `FlattenSeq` have the values their definitions say, for any length.

- *Merges.* `Merge` keeps, from any two pointers on, a set that only depends on
  what is left of the two lists (`MergeKeeps`, by induction on how much is left);
  that it is sorted needs that a head is below all that follows in either list.
- *Codec.* `BitsOfIt` and `FromItsBits` say that the bits of a number below
  `2^w` are those of its place value, so that packing across byte boundaries and
  back is the identity (`PackedBits`, `Unpacked`); `FitsWidth` that the width of
  the largest delta is enough for each; deltas add up to the ids; `decode`
  goes from block to block until the slice is used up, with LZ4 or without.
- *File.* `Layout` is where each section begins. `FileIsFooted` says that the
  footer has these offsets; then each table is found where it was written. A term
  is found in the dictionary once (`SpellingsDiffer`, by the order of strings),
  and its ordinal leads to its term info and posting list.
- *Index build.* `NextPageHoldsRow`: the page pointer of `index_batches` is
  always at the page that holds the row, given that the pages of a row group
  begin at row 0 and do not run backwards (`WellPaged`). `RowIsIndexed` is the
  invariant of its loop: after k rows, each term has the pages of the first k
  rows that have it. `TableIsPaged` shows that the inventory numbers the pages
  so, over the nested loops of files, row groups and pages; `MergeOneGroup` that
  each row group adds rows that were not counted before.
- *Table.* `SearchInv` says that each manifest is of one of the batches, no two
  of a column being of the same files; that its bytes are those that its files
  build, or those with another slot of the same size in one place; and that its
  reader is what `open` makes of them. With `SegmentIsBuilt`, `OpenUndoesBuild`
  and `DamageIsDetected` this is `EverySegmentIsExact` and `EveryMergeIsExact`.
  A damaged slot in the body changes what the checksum is of, by a change that
  it finds; one in the checksum differs from that of the body; and one in the
  magic number at the end is seen before.
- *Answers.* The answer is put together from disjoint parts, each of which has
  its rows once (`Once`). Of a segment, the candidates are the pages that may
  satisfy the query: the fold over posting lists is an intersection or a union
  whatever order the frequencies and `swap_remove` give them. Grouping and
  sorting keep each page of a row group once, in the order of its first row, and
  the ranges of `build_row_selection` cover the rows of those pages and no
  others, so that verification keeps the rows that satisfy the query. A segment
  that is pruned has no such row, by the order of its first and last term. The
  files are covered once: by a segment that opens, or by the scan, and not by
  both, which is where the batches have to be apart; a damaged segment takes its
  files with it, out of the answer and out of the reference. The scan loses
  nothing because a row that has a token has a text in which ILIKE finds it.
- *Statistics.* `term_df` and `total_rows` are sums over segments; the segments
  are of disjoint files, so a sum of their numbers of rows is the number of rows
  of their union. For an OR `term_df` is exactly the rows with the term in the
  segments that are not damaged. An AND, and `total_rows` always, are only
  bounded: a segment that misses a term of an AND reports none of its
  frequencies, and neither pruned segments nor files without an index count
  towards `total_rows`, although `DESIGN.md:767-783` has N and df of the full
  corpus. A term named twice adds its frequency twice (`query/mod.rs:120-122`),
  which may be more than `total_rows`, so the property excludes it.
- *Dictionaries.* The order of strings is strict and total (`BeforeIsStrict`,
  `BeforeIsTotal`), so sorting the reversed terms keeps each once, with the
  ordinal it had. An ending of a term is a beginning of the reversed term.

`PageIndexAssumption`, `SegmentFileAssumption` and `SearchAssumption` are what
these proofs need of the inputs: terms are numbered in the order of their
spellings, which are different; files hold row groups whose offset index is well
paged, as Parquet requires.

Only model-checked: liveness (`EveryRunEnds`, `ClientIsAnswered`,
`EveryTaskEnds`, `HttpAnswered`, `CacheCatchesUp`), which is out of TLAPS' reach.
Every invariant and every other action property that a passing run checks is
stated by a theorem above.

## 6. What is left out

- Bytes below the slots of `SegmentFile`: the width of its fields, the flags of
  the header, `page_index` and `row_group_count`, which no reader uses, the
  bounds checks of the parsers, which come after the checksum; JSON and Parquet
  decoding.
- Scores and their order (floating-point arithmetic), select columns, the
  resolution of the output schema and with it `get_flight_info`.
- Unicode: a word is one token. What tells index and scan apart (normal form,
  array type) is kept.
- The cache of Parquet footers, which works like the cache of bytes; files are
  not written again in the model. The listing of tables, which changes nothing.
- What a query does in the server while it runs: there it only ends, fails or
  takes its time; `Pipeline` says how.
- Several tables in the run of the server: they share nothing but the polling
  task, whose waiting for each other is the premise of `CacheCatchesUp`.
- Stores without conditional PUTs: every run and most proofs assume a
  conditional one. The proofs of `NothingDangles`, `TypeCorrect` and
  `LifecycleTypeCorrect` are of any kind of store.
- Errors that the code turns into warnings: a query with an unreadable footer
  (`pipeline.rs:258-264`) or a failed concat (`pipeline.rs:448-457`) ends well
  without those rows, as does one with a segment that does not open
  (`query/mod.rs`). The model does the same, and the properties leave them out.
- Damage of more than one field of a segment, or of a path, a key or LZ4 data:
  no checksum of 32 bits finds all of that.
- Zero for `max_io_tasks` or `io_concurrency`, which blocks every query; the
  models assume positive numbers.
- Two batches that share a file. The code has no protection (`hazards` says what
  happens); the models have disjoint batches.
- u16 counts of row groups and pages, which the code truncates silently.
- Configuration and start-up, which run once and in order.
