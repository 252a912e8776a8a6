------------------------------ MODULE Pipeline ------------------------------
(***************************************************************************)
(* One query's way from the files to the client: run_pipeline              *)
(* (lakesearch-query/src/query/pipeline.rs) and the readers of its output  *)
(* in query/mod.rs.  One I/O task per file sends decoded batches through a *)
(* bounded channel to the CPU dispatcher, which verifies them on the rayon *)
(* pool and sends what matched through a second one to the coalescer,      *)
(* which sends larger batches, and the I/O tasks their errors, through a   *)
(* third one to the reader.  A channel closes when every sender is gone,   *)
(* and a send fails when the receiver is gone: this is how the pipeline    *)
(* ends and how it is cancelled.                                           *)
(*                                                                         *)
(* A batch is named by its file and its place in the file; of its rows     *)
(* only the number that match the query counts.                            *)
(***************************************************************************)
EXTENDS Naturals, Sequences, FiniteSets, SequencesExt, FiniteSetsExt

CONSTANTS
  IndexedFiles,      \* files that candidate pages are read from
  UnindexedFiles,    \* files that are scanned
  Work,              \* Work[f]: the matching rows of each batch read from f
  Capacity,          \* of each of the three channels (16 in the code)
  MaxIoTasks,        \* permits of the semaphore
  MaxCpu,            \* threads of the rayon pool
  TargetBatchSize,   \* rows the coalescer gathers (8192 in the code)
  Queries,           \* what may be asked for
  Faults             \* what may go wrong: some of "read", "footer", "concat"

Files == IndexedFiles \cup UnindexedFiles

\* The arguments that matter; collected says run_query_collected, not run_query.
Query == [score_mode : {"none", "indexed", "all"}, limited : BOOLEAN, limit : Nat,
          collected : BOOLEAN]

ASSUME PipelineAssumption ==
  /\ IndexedFiles \cap UnindexedFiles = {}
  /\ IsFiniteSet(Files)
  /\ Work \in [Files -> Seq(Nat)]
  /\ Capacity \in Nat \ {0}
  /\ MaxIoTasks \in Nat \ {0}
  /\ MaxCpu \in Nat \ {0}
  /\ TargetBatchSize \in Nat \ {0}
  /\ Queries \subseteq Query
  /\ Faults \subseteq {"read", "footer", "concat"}

VARIABLES
  query,         \* the query that is run
  task,          \* the I/O task of each file
  sent,          \* how many batches of the file it sent
  input,         \* channel from the I/O tasks to the dispatcher
  dispatcher,    \* the dispatcher's place in its select loop
  in_flight,     \* batches on the rayon pool
  sending,       \* the verified batch the dispatcher is sending
  rows_matched,  \* the dispatcher's total_stats
  output,        \* channel from the dispatcher to the coalescer
  coalescer,     \* the coalescer's place in its loop
  pending,       \* batches it holds
  pending_rows,  \* its count of their rows
  final,         \* channel from the coalescer and the I/O tasks to the reader
  reader,        \* the task that receives from final
  got,           \* the batches it received
  client,        \* what became of the query
  failed,        \* history: files whose task met an error
  skipped,       \* history: files left out because of their footer
  unjoined       \* history: a concat failed

ioVars == <<task, sent, failed, skipped>>
cpuVars == <<dispatcher, in_flight, sending, rows_matched>>
coalesceVars == <<coalescer, pending, pending_rows, unjoined>>
readVars == <<reader, got, client>>
vars == <<ioVars, input, cpuVars, output, coalesceVars, final, readVars, query>>

Batch == UNION {{<<f, i>> : i \in DOMAIN Work[f]} : f \in Files}
Matches(batch) == Work[batch[1]][batch[2]]
Rows(batches) == FoldLeft(LAMBDA n, b : n + Matches(b), 0, batches)
Answer(batches) == [kind |-> "rows", batches |-> batches]
Error == [kind |-> "error", batches |-> <<>>]

WithScore == query.score_mode # "none"

\* run_query ranks in a task of its own, between the pipeline and the client.
TopK == ~query.collected /\ WithScore /\ query.limited

\* The limit stops the dispatcher only when nothing has to be ranked.
EarlyLimitReached(rows) == query.limited /\ ~WithScore /\ rows >= query.limit

\* Mutant of InputClosed: run_pipeline keeps its own sender.
InputHeldOpen == FALSE

\* A file's task owns a sender of input and one of final until it ends.
InputClosed == \A f \in Files : task[f] = "done"
OutputClosed == dispatcher = "done"
FinalClosed == coalescer = "done" /\ InputClosed

HasRoom(channel) == Len(channel) < Capacity

Init ==
  /\ query \in Queries
  /\ task = [f \in Files |-> "waiting"]
  /\ sent = [f \in Files |-> 0]
  /\ input = <<>> /\ output = <<>> /\ final = <<>>
  /\ dispatcher = "select" /\ in_flight = {} /\ sending = <<>>
  /\ rows_matched = 0
  /\ coalescer = "receive" /\ pending = <<>> /\ pending_rows = 0
  /\ reader = "reading" /\ got = <<>> /\ client = "waiting"
  /\ failed = {} /\ skipped = {} /\ unjoined = FALSE

(***************************************************************************)
(* Stage 1.  A task takes a permit and keeps it as long as it lives, also  *)
(* while it waits for room for a batch or for its error.                   *)
(***************************************************************************)
PermitHolders == {f \in Files : task[f] \in {"running", "failing"}}

\* Mutant of StartTask: the permit is not waited for.
StartWithoutPermit(f) ==
  /\ task[f] = "waiting"
  /\ task' = [task EXCEPT ![f] = "running"]
  /\ UNCHANGED <<sent, failed, skipped, input, cpuVars, output, coalesceVars>>
  /\ UNCHANGED <<final, readVars, query>>

StartTask(f) ==
  /\ task[f] = "waiting"
  /\ Cardinality(PermitHolders) < MaxIoTasks
  /\ task' = [task EXCEPT ![f] = "running"]
  /\ UNCHANGED <<sent, failed, skipped, input, cpuVars, output, coalesceVars>>
  /\ UNCHANGED <<final, readVars, query>>

\* An unreadable footer, or one without the column, fails an indexed file;
\* a file that is scanned is left out, with a warning.
SkipFile(f) ==
  /\ "footer" \in Faults
  /\ f \in UnindexedFiles
  /\ task[f] = "running" /\ sent[f] = 0
  /\ task' = [task EXCEPT ![f] = "done"]
  /\ skipped' = skipped \cup {f}
  /\ UNCHANGED <<sent, failed, input, cpuVars, output, coalesceVars>>
  /\ UNCHANGED <<final, readVars, query>>

FailTask(f) ==
  /\ "read" \in Faults
  /\ task[f] = "running"
  /\ task' = [task EXCEPT ![f] = "failing"]
  /\ failed' = failed \cup {f}
  /\ UNCHANGED <<sent, skipped, input, cpuVars, output, coalesceVars>>
  /\ UNCHANGED <<final, readVars, query>>

\* Mutant of SendBatch: it waits for room in a channel without a receiver.
SendBatchWaits(f) ==
  /\ task[f] = "running"
  /\ sent[f] < Len(Work[f])
  /\ dispatcher # "done"
  /\ HasRoom(input)
  /\ input' = Append(input, <<f, sent[f] + 1>>)
  /\ sent' = [sent EXCEPT ![f] = @ + 1]
  /\ UNCHANGED <<task, failed, skipped, cpuVars, output, coalesceVars>>
  /\ UNCHANGED <<final, readVars, query>>

SendBatch(f) ==
  /\ task[f] = "running"
  /\ sent[f] < Len(Work[f])
  /\ \/ /\ dispatcher # "done"
        /\ HasRoom(input)
        /\ input' = Append(input, <<f, sent[f] + 1>>)
        /\ sent' = [sent EXCEPT ![f] = @ + 1]
        /\ UNCHANGED task
     \/ /\ dispatcher = "done"
        /\ task' = [task EXCEPT ![f] = "done"]
        /\ UNCHANGED <<sent, input>>
  /\ UNCHANGED <<failed, skipped, cpuVars, output, coalesceVars, final, readVars, query>>

EndTask(f) ==
  /\ task[f] = "running"
  /\ sent[f] = Len(Work[f])
  /\ task' = [task EXCEPT ![f] = "done"]
  /\ UNCHANGED <<sent, failed, skipped, input, cpuVars, output, coalesceVars>>
  /\ UNCHANGED <<final, readVars, query>>

\* Mutant of SendError: the error is dropped when the channel is full.
TrySendError(f) ==
  /\ task[f] = "failing"
  /\ task' = [task EXCEPT ![f] = "done"]
  /\ final' = IF reader = "reading" /\ HasRoom(final)
                THEN Append(final, Error) ELSE final
  /\ UNCHANGED <<sent, failed, skipped, input, cpuVars, output, coalesceVars>>
  /\ UNCHANGED <<readVars, query>>

SendError(f) ==
  /\ task[f] = "failing"
  /\ \/ /\ reader = "reading"
        /\ HasRoom(final)
        /\ final' = Append(final, Error)
     \/ /\ reader # "reading"
        /\ UNCHANGED final
  /\ task' = [task EXCEPT ![f] = "done"]
  /\ UNCHANGED <<sent, failed, skipped, input, cpuVars, output, coalesceVars>>
  /\ UNCHANGED <<readVars, query>>

(***************************************************************************)
(* Stage 2.  The select loop collects finished jobs before it receives     *)
(* more work.  A job is taken to finish at the step that collects it, so   *)
(* the preference leaves no trace.  The loop ends when nothing is in       *)
(* flight and the input is done, so that the drain after it finds nothing. *)
(***************************************************************************)

\* What the dispatcher drops when it returns: receiver, jobs, sender.
Return ==
  /\ dispatcher' = "done"
  /\ input' = <<>>
  /\ in_flight' = {}

Receive ==
  /\ dispatcher = "select"
  /\ input # <<>>
  /\ Cardinality(in_flight) < MaxCpu
  /\ in_flight' = in_flight \cup {Head(input)}
  /\ input' = Tail(input)
  /\ UNCHANGED <<ioVars, dispatcher, sending, rows_matched, output>>
  /\ UNCHANGED <<coalesceVars, final, readVars, query>>

\* The output schema has a score, the scan of an unindexed file none.
Panics(batch) ==
  /\ query.score_mode = "indexed"
  /\ batch[1] \in UnindexedFiles
  /\ Matches(batch) > 0

\* Mutant of Collect: the limit is checked before the batch is sent.
CollectChecksFirst(batch) ==
  /\ dispatcher = "select"
  /\ batch \in in_flight
  /\ ~Panics(batch)
  /\ rows_matched' = rows_matched + Matches(batch)
  /\ \/ /\ EarlyLimitReached(rows_matched')
        /\ Return
        /\ UNCHANGED sending
     \/ /\ ~EarlyLimitReached(rows_matched')
        /\ in_flight' = in_flight \ {batch}
        /\ dispatcher' = IF Matches(batch) > 0 THEN "send" ELSE "select"
        /\ sending' = IF Matches(batch) > 0 THEN batch ELSE sending
        /\ UNCHANGED input
  /\ UNCHANGED <<ioVars, output, coalesceVars, final, readVars, query>>

Collect(batch) ==
  /\ dispatcher = "select"
  /\ batch \in in_flight
  /\ ~Panics(batch)
  /\ rows_matched' = rows_matched + Matches(batch)
  /\ \/ /\ Matches(batch) > 0
        /\ dispatcher' = "send"
        /\ sending' = batch
        /\ in_flight' = in_flight \ {batch}
        /\ UNCHANGED input
     \/ /\ Matches(batch) = 0
        /\ UNCHANGED sending
        /\ \/ /\ EarlyLimitReached(rows_matched')
              /\ Return
           \/ /\ ~EarlyLimitReached(rows_matched')
              /\ in_flight' = in_flight \ {batch}
              /\ UNCHANGED <<dispatcher, input>>
  /\ UNCHANGED <<ioVars, output, coalesceVars, final, readVars, query>>

\* A panic on the rayon pool, which has no panic handler, aborts the process.
Panic(batch) ==
  /\ dispatcher = "select"
  /\ batch \in in_flight
  /\ Panics(batch)
  /\ task' = [f \in Files |-> "done"]
  /\ dispatcher' = "done" /\ coalescer' = "done" /\ reader' = "done"
  /\ client' = "aborted"
  /\ UNCHANGED <<sent, failed, skipped, input, in_flight, sending>>
  /\ UNCHANGED <<rows_matched, output, pending, pending_rows, unjoined>>
  /\ UNCHANGED <<final, got, query>>

SendOutput ==
  /\ dispatcher = "send"
  /\ \/ /\ coalescer = "done"
        /\ Return
        /\ UNCHANGED output
     \/ /\ coalescer # "done"
        /\ HasRoom(output)
        /\ output' = Append(output, sending)
        /\ \/ /\ EarlyLimitReached(rows_matched)
              /\ Return
           \/ /\ ~EarlyLimitReached(rows_matched)
              /\ dispatcher' = "select"
              /\ UNCHANGED <<input, in_flight>>
  /\ UNCHANGED <<ioVars, sending, rows_matched, coalesceVars, final>>
  /\ UNCHANGED <<readVars, query>>

Drained ==
  /\ dispatcher = "select"
  /\ in_flight = {}
  /\ input = <<>>
  /\ InputClosed
  /\ dispatcher' = "done"
  /\ UNCHANGED <<ioVars, input, in_flight, sending, rows_matched, output>>
  /\ UNCHANGED <<coalesceVars, final, readVars, query>>

(***************************************************************************)
(* Stage 3.  A concat that fails leaves the batches pending and restarts   *)
(* the count; at the end of the input it loses them.                       *)
(***************************************************************************)
Gather ==
  /\ coalescer = "receive"
  /\ output # <<>>
  /\ pending' = Append(pending, Head(output))
  /\ pending_rows' = pending_rows + Matches(Head(output))
  /\ output' = Tail(output)
  /\ coalescer' = IF pending_rows' >= TargetBatchSize THEN "flush" ELSE "receive"
  /\ UNCHANGED <<ioVars, input, cpuVars, unjoined, final, readVars, query>>

\* Mutant of OutputEnds: nothing is flushed at the end.
OutputEndsUnflushed ==
  /\ coalescer = "receive"
  /\ output = <<>>
  /\ OutputClosed
  /\ coalescer' = "done"
  /\ UNCHANGED <<ioVars, input, cpuVars, output, pending, pending_rows>>
  /\ UNCHANGED <<unjoined, final, readVars, query>>

OutputEnds ==
  /\ coalescer = "receive"
  /\ output = <<>>
  /\ OutputClosed
  /\ coalescer' = "last"
  /\ UNCHANGED <<ioVars, input, cpuVars, output, pending, pending_rows>>
  /\ UNCHANGED <<unjoined, final, readVars, query>>

ConcatFails ==
  /\ "concat" \in Faults
  /\ coalescer \in {"flush", "last"}
  /\ unjoined' = TRUE
  /\ pending_rows' = IF coalescer = "flush" THEN 0 ELSE pending_rows
  /\ coalescer' = IF coalescer = "flush" THEN "receive" ELSE "done"
  /\ UNCHANGED <<ioVars, input, cpuVars, output, pending, final, readVars, query>>

Flush ==
  /\ coalescer \in {"flush", "last"}
  /\ pending' = <<>>
  /\ \/ /\ reader = "reading"
        /\ HasRoom(final)
        /\ final' = Append(final, Answer(pending))
        /\ pending_rows' = 0
        /\ coalescer' = IF coalescer = "flush" THEN "receive" ELSE "done"
     \/ /\ reader # "reading"
        /\ coalescer' = "done"
        /\ UNCHANGED <<pending_rows, final>>
  /\ UNCHANGED <<ioVars, input, cpuVars, output, unjoined, readVars, query>>

(***************************************************************************)
(* The reader: the collecting loop of run_query_collected, the ranking     *)
(* task of run_query, or the client itself.  It stops at the first error.  *)
(***************************************************************************)
ClientHears(what) == client' = IF client = "waiting" THEN what ELSE client

Read ==
  /\ reader = "reading"
  /\ final # <<>>
  /\ \/ /\ Head(final).kind = "rows"
        /\ got' = got \o Head(final).batches
        /\ final' = Tail(final)
        /\ UNCHANGED <<reader, client>>
     \/ /\ Head(final).kind = "error"
        /\ reader' = "done"
        /\ ClientHears("error")
        /\ final' = <<>>
        /\ UNCHANGED got
  /\ UNCHANGED <<ioVars, input, cpuVars, output, coalesceVars, query>>

ReadToEnd ==
  /\ reader = "reading"
  /\ final = <<>>
  /\ FinalClosed
  /\ reader' = "done"
  /\ ClientHears("complete")
  /\ UNCHANGED <<ioVars, input, cpuVars, output, coalesceVars, final, got, query>>

\* The client disconnects or its time is up.  The ranking task of a top-K
\* query holds final and only learns of it when it sends its result.
Leave ==
  /\ client = "waiting"
  /\ client' = "gone"
  /\ \/ /\ TopK
        /\ UNCHANGED <<reader, final>>
     \/ /\ ~TopK
        /\ reader' = "done"
        /\ final' = <<>>
  /\ UNCHANGED <<ioVars, input, cpuVars, output, coalesceVars, got, query>>

IoStep(f) == StartTask(f) \/ SendBatch(f) \/ EndTask(f) \/ SendError(f)
CpuStep ==
  \/ Receive
  \/ \E batch \in in_flight : Collect(batch) \/ Panic(batch)
  \/ SendOutput
  \/ Drained
CoalesceStep == Gather \/ OutputEnds \/ Flush
ReadStep == Read \/ ReadToEnd

Next ==
  \/ \E f \in Files : IoStep(f) \/ SkipFile(f) \/ FailTask(f)
  \/ CpuStep
  \/ CoalesceStep
  \/ ConcatFails
  \/ ReadStep
  \/ Leave

(***************************************************************************)
(* tokio runs every task that can go on, storage answers, rayon finishes   *)
(* its jobs, and a reader that is still there goes on receiving.  Nothing  *)
(* has to fail and nobody has to leave.                                    *)
(***************************************************************************)
Fairness ==
  /\ \A f \in Files : WF_vars(IoStep(f))
  /\ WF_vars(CpuStep)
  /\ WF_vars(CoalesceStep)
  /\ WF_vars(ReadStep)

Spec == Init /\ [][Next]_vars /\ Fairness
-----------------------------------------------------------------------------
Message == [kind : {"rows", "error"}, batches : Seq(Batch)]

PipelineTypeOK ==
  /\ query \in Queries
  /\ task \in [Files -> {"waiting", "running", "failing", "done"}]
  /\ sent \in [Files -> Nat]
  /\ \A f \in Files : sent[f] <= Len(Work[f])
  /\ input \in Seq(Batch) /\ Len(input) <= Capacity
  /\ dispatcher \in {"select", "send", "done"}
  /\ in_flight \subseteq Batch /\ Cardinality(in_flight) <= MaxCpu
  /\ sending \in Batch \cup {<<>>}
  /\ rows_matched \in Nat
  /\ output \in Seq(Batch) /\ Len(output) <= Capacity
  /\ coalescer \in {"receive", "flush", "last", "done"}
  /\ pending \in Seq(Batch) /\ pending_rows \in Nat
  /\ final \in Seq(Message) /\ Len(final) <= Capacity
  /\ reader \in {"reading", "done"} /\ got \in Seq(Batch)
  /\ client \in {"waiting", "complete", "error", "gone", "aborted"}
  /\ failed \subseteq Files /\ skipped \subseteq UnindexedFiles
  /\ unjoined \in BOOLEAN
  /\ Cardinality(PermitHolders) <= MaxIoTasks

Matching == {batch \in Batch : batch[1] \notin skipped /\ Matches(batch) > 0}

\* The rows of the query's answer; run_query streams them all.
RowsAnswered ==
  IF query.limited /\ (query.collected \/ WithScore)
  THEN Min({query.limit, Rows(got)}) ELSE Rows(got)

(***************************************************************************)
(* A query without an early limit that ends well has received each batch   *)
(* with a match exactly once, from every file that was not left out with a *)
(* warning, unless a concat failed: nothing is stranded in a channel, on   *)
(* the rayon pool or in the coalescer when the stages shut down.           *)
(***************************************************************************)
EveryMatchOnce ==
  client = "complete" /\ ~unjoined /\ (query.limited => WithScore)
    => /\ ToSet(got) = Matching
       /\ Len(got) = Cardinality(Matching)

(***************************************************************************)
(* A query that ends well hides no read error: the error of a file reaches *)
(* the client even when the channel was full when it arose.  An unreadable *)
(* footer and a failed concat are warnings in the code, and not counted.   *)
(***************************************************************************)
NoErrorSwallowed == client = "complete" => failed = {}

(***************************************************************************)
(* A query with an unscored limit that ends well has as many rows as the   *)
(* limit allows and the table has: stopping early drops jobs in flight and *)
(* batches in the channels, but only after enough rows were sent on.       *)
(***************************************************************************)
TotalMatches ==
  MapThenSumSet(Matches, Matching)

LimitFilled ==
  client = "complete" /\ ~unjoined /\ query.limited /\ ~WithScore
    => Min({query.limit, Rows(got)}) = Min({query.limit, TotalMatches})

(***************************************************************************)
(* The statistics returned with the rows count the rows that were found:   *)
(* rows_matched of the dispatcher is what the reader received, unless a    *)
(* concat failed.                                                          *)
(***************************************************************************)
StatsMatchRows ==
  client = "complete" /\ ~unjoined => rows_matched = Rows(got)

(***************************************************************************)
(* Every query comes to an end for its client: the stages cannot wait for  *)
(* each other for ever, at any capacity of the channels.                   *)
(***************************************************************************)
ClientIsAnswered == client = "waiting" ~> client # "waiting"

(***************************************************************************)
(* Every task ends, also when the client left in the middle: none keeps a  *)
(* permit or a sender of a channel nobody reads.                           *)
(***************************************************************************)
AllTasksDone ==
  /\ \A f \in Files : task[f] = "done"
  /\ dispatcher = "done" /\ coalescer = "done" /\ reader = "done"

EveryTaskEnds == <>AllTasksDone

(***************************************************************************)
(* A query without scores stops after its limit (DESIGN.md, "stop after N  *)
(* verified rows").                                                        *)
(***************************************************************************)
LimitIsMaximum == query.limited => RowsAnswered <= query.limit

(***************************************************************************)
(* Matches in files without an index are returned unscored when only       *)
(* indexed results are scored (lib.rs, ScoreMode::Indexed).                *)
(***************************************************************************)
UnindexedMatchesUnscored == client # "aborted"
=============================================================================
