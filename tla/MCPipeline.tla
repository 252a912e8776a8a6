----------------------------- MODULE MCPipeline -----------------------------
(***************************************************************************)
(* Small instances of Pipeline: what the files hold and what is asked.     *)
(***************************************************************************)
EXTENDS Pipeline

CONSTANTS a, b, c

\* Batches without a match, with one row and with a full coalesced batch.
Mixed == [f \in Files |-> CASE f = a -> <<1, 0>> [] f = b -> <<2>> [] f = c -> <<1>>]

TopKQuery == [score_mode |-> "all", limited |-> TRUE, limit |-> 2, collected |-> FALSE]
IndexedScores == [score_mode |-> "indexed", limited |-> FALSE, limit |-> 0, collected |-> TRUE]
Streamed == [score_mode |-> "none", limited |-> FALSE, limit |-> 0, collected |-> FALSE]
FirstRows == [score_mode |-> "none", limited |-> TRUE, limit |-> 2, collected |-> TRUE]
FirstRowsStreamed == [FirstRows EXCEPT !.collected = FALSE]

PassQueries == {TopKQuery, IndexedScores, Streamed, FirstRows}
JustStreamedLimit == {FirstRowsStreamed}
JustIndexedScores == {IndexedScores}
=============================================================================
