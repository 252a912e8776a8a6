------------------------------- MODULE Commit -------------------------------
(***************************************************************************)
(* Index processes that append batches to one table: run_index             *)
(* (lakesearch-indexer/src/lib.rs) with the compare-and-swap loop of       *)
(* commit_metadata (lakesearch-core/src/cas.rs).  Processes interleave at  *)
(* every write to the store; each may be killed, or may fail on an I/O     *)
(* error, between any two of them, and be invoked again.  Reads of         *)
(* immutable objects are not separate steps: what they return does not     *)
(* depend on when they happen.                                             *)
(***************************************************************************)
EXTENDS TableStore

CONSTANTS
  MAX_RETRIES,     \* attempts of the compare-and-swap loop (5 in the code)
  MaxRuns,         \* bound: invocations of each worker
  InitialColumns   \* the columns of a table that exists from the start

ASSUME CommitAssumption ==
  /\ MAX_RETRIES \in Nat \ {0}
  /\ MaxRuns \in Nat
  /\ InitialColumns \in SUBSET Columns

VARIABLES
  pc,         \* where each worker is in run_index
  run,        \* how often it was invoked: names the objects it writes
  etag,       \* commit_metadata's etag
  latest,     \* commit_metadata's latest: the metadata file it was read from
  new,        \* the metadata file of this attempt
  attempt,    \* commit_metadata's loop counter
  start       \* history: the version of current.json when the run began

workerVars == <<pc, run, etag, latest, new, attempt, start>>
vars == <<storeVars, workerVars>>

Stopped == {"idle", "ok", "failed", "bailed"}
Uploading == {"segment", "manifest", "manifest_list"}
Committing == {"metadata", "put", "conflict"}

ThisRun(w) == [worker |-> w, n |-> run[w]]
Goto(w, where) == pc' = [pc EXCEPT ![w] = where]

Init ==
  /\ objects = {}
  /\ inflight = {}
  /\ \/ /\ current = NoTable
        /\ metas = <<>>
     \/ /\ current = [metadata_path |-> 1, e_tag |-> 1]
        /\ metas = <<[indexed_columns |-> InitialColumns,
                      manifest_lists |-> <<>>]>>
  /\ pc = [w \in Workers |-> "idle"]
  /\ run = [w \in Workers |-> 0]
  /\ etag = [w \in Workers |-> NoTag]
  /\ latest = [w \in Workers |-> 0]
  /\ new = [w \in Workers |-> 0]
  /\ attempt = [w \in Workers |-> 0]
  /\ start = [w \in Workers |-> 0]

(***************************************************************************)
(* run_index, steps 1 and 2: read current.json and its metadata, check     *)
(* that the table has the column, skip a batch that is already there.      *)
(***************************************************************************)

CanIndex(w) ==
  /\ CurrentExists
  /\ Job[w].column \in metas[current.metadata_path].indexed_columns

AlreadyIndexed(w) == is_batch_duplicate(current.metadata_path, BatchId(w))

\* Mutant of Begin: no dedup check before the work (lib.rs, step 2).
BeginWithoutDedup(w) ==
  /\ pc[w] \in Stopped
  /\ run[w] < MaxRuns
  /\ CanIndex(w)
  /\ run' = [run EXCEPT ![w] = @ + 1]
  /\ start' = [start EXCEPT ![w] = current.e_tag]
  /\ Goto(w, "segment")
  /\ etag' = [etag EXCEPT ![w] = ReadTag]
  /\ latest' = [latest EXCEPT ![w] = current.metadata_path]
  /\ attempt' = [attempt EXCEPT ![w] = 0]
  /\ UNCHANGED <<storeVars, new>>

Begin(w) ==
  /\ pc[w] \in Stopped
  /\ run[w] < MaxRuns
  /\ run' = [run EXCEPT ![w] = @ + 1]
  /\ \/ /\ ~CanIndex(w)
        /\ Goto(w, "failed")
        /\ UNCHANGED <<etag, latest, attempt, start>>
     \/ /\ CanIndex(w)
        /\ AlreadyIndexed(w)
        /\ Goto(w, "ok")
        /\ UNCHANGED <<etag, latest, attempt, start>>
     \/ /\ CanIndex(w)
        /\ ~AlreadyIndexed(w)
        /\ Goto(w, "segment")
        /\ etag' = [etag EXCEPT ![w] = ReadTag]
        /\ latest' = [latest EXCEPT ![w] = current.metadata_path]
        /\ attempt' = [attempt EXCEPT ![w] = 0]
        /\ start' = [start EXCEPT ![w] = current.e_tag]
  /\ UNCHANGED <<storeVars, new>>

(***************************************************************************)
(* Steps 3 to 7: build the segment, then upload it, the manifest that      *)
(* names it and the manifest list that names the manifest, in that order.  *)
(***************************************************************************)

\* Mutant of NextUpload: metadata is committed before the manifest list.
NextUploadForgetful(kind) ==
  IF kind = "segment" THEN "manifest" ELSE "metadata"

NextUpload(kind) ==
  CASE kind = "segment" -> "manifest"
    [] kind = "manifest" -> "manifest_list"
    [] kind = "manifest_list" -> "metadata"

Upload(w) ==
  /\ pc[w] \in Uploading
  /\ PutObject(pc[w], ThisRun(w))
  /\ Goto(w, NextUpload(pc[w]))
  /\ UNCHANGED <<current, metas, inflight>>
  /\ UNCHANGED <<run, etag, latest, new, attempt, start>>

(***************************************************************************)
(* commit_metadata, the head of the loop: apply the closure to the latest  *)
(* metadata and write the result under a fresh name.                       *)
(***************************************************************************)

\* Mutant of build_new_metadata: the new snapshot replaces the old one.
build_only_own(w) ==
  [metas[latest[w]] EXCEPT !.manifest_lists = <<ThisRun(w)>>]

build_new_metadata(w) ==
  [metas[latest[w]] EXCEPT !.manifest_lists = Append(@, ThisRun(w))]

WriteMetadata(w) ==
  /\ pc[w] = "metadata"
  /\ write_metadata(build_new_metadata(w))
  /\ new' = [new EXCEPT ![w] = Len(metas) + 1]
  /\ Goto(w, "put")
  /\ UNCHANGED <<current, objects, inflight>>
  /\ UNCHANGED <<run, etag, latest, attempt, start>>

(***************************************************************************)
(* The PUT of current.json, answered at once: applied (though the process  *)
(* may be gone before it can say so), or refused with Precondition.        *)
(***************************************************************************)

PutApplied(w) ==
  /\ pc[w] = "put"
  /\ PutAccepted(etag[w])
  /\ PutCurrent(new[w])
  /\ \/ Goto(w, "ok")
     \/ Goto(w, "failed")
  /\ UNCHANGED <<metas, objects, inflight>>
  /\ UNCHANGED <<run, etag, latest, new, attempt, start>>

\* Mutant of PutRefused: any lost race counts as somebody's success.
PutRefusedIsOk(w) ==
  /\ pc[w] = "put"
  /\ ~PutAccepted(etag[w])
  /\ Goto(w, "ok")
  /\ UNCHANGED <<storeVars, run, etag, latest, new, attempt, start>>

PutRefused(w) ==
  /\ pc[w] = "put"
  /\ ~PutAccepted(etag[w])
  /\ Goto(w, "conflict")
  /\ UNCHANGED <<storeVars, run, etag, latest, new, attempt, start>>

(***************************************************************************)
(* The PUT with no answer: either the run ends with another error than     *)
(* Precondition, or the store client sends the request again and the       *)
(* worker goes on waiting.                                                 *)
(***************************************************************************)
PutUnanswered(w) ==
  /\ pc[w] = "put"
  /\ LeaveInFlight(etag[w], new[w])
  /\ \/ Goto(w, "failed")
     \/ UNCHANGED pc
  /\ UNCHANGED <<current, metas, objects>>
  /\ UNCHANGED <<run, etag, latest, new, attempt, start>>

(***************************************************************************)
(* After the backoff: re-read the latest state, leave if a concurrent      *)
(* worker (or this worker's own, unacknowledged PUT) committed the batch,  *)
(* else go round the loop, or bail out when the attempts are used up.      *)
(***************************************************************************)

\* Mutant of Rebase: no dedup check after re-reading.
RebaseWithoutDedup(w) ==
  /\ pc[w] = "conflict"
  /\ etag' = [etag EXCEPT ![w] = ReadTag]
  /\ latest' = [latest EXCEPT ![w] = current.metadata_path]
  /\ attempt' = [attempt EXCEPT ![w] = @ + 1]
  /\ Goto(w, IF attempt[w] + 1 < MAX_RETRIES THEN "metadata" ELSE "bailed")
  /\ UNCHANGED <<storeVars, run, new, start>>

\* Mutant of Rebase: a new ETag with the old snapshot.
RebaseKeepsLatest(w) ==
  /\ pc[w] = "conflict"
  /\ ~AlreadyIndexed(w)
  /\ etag' = [etag EXCEPT ![w] = ReadTag]
  /\ attempt' = [attempt EXCEPT ![w] = @ + 1]
  /\ Goto(w, IF attempt[w] + 1 < MAX_RETRIES THEN "metadata" ELSE "bailed")
  /\ UNCHANGED <<storeVars, run, latest, new, start>>

\* Mutant of Rebase: a new snapshot with the old ETag.
RebaseKeepsTag(w) ==
  /\ pc[w] = "conflict"
  /\ ~AlreadyIndexed(w)
  /\ latest' = [latest EXCEPT ![w] = current.metadata_path]
  /\ attempt' = [attempt EXCEPT ![w] = @ + 1]
  /\ Goto(w, IF attempt[w] + 1 < MAX_RETRIES THEN "metadata" ELSE "bailed")
  /\ UNCHANGED <<storeVars, run, etag, new, start>>

\* Mutant of Rebase: the same request again, for ever.
RebaseForever(w) ==
  /\ pc[w] = "conflict"
  /\ Goto(w, "put")
  /\ UNCHANGED <<storeVars, run, etag, latest, new, attempt, start>>

Rebase(w) ==
  /\ pc[w] = "conflict"
  /\ etag' = [etag EXCEPT ![w] = ReadTag]
  /\ latest' = [latest EXCEPT ![w] = current.metadata_path]
  /\ \/ /\ AlreadyIndexed(w)
        /\ Goto(w, "ok")
        /\ UNCHANGED attempt
     \/ /\ ~AlreadyIndexed(w)
        /\ attempt' = [attempt EXCEPT ![w] = @ + 1]
        /\ \/ /\ attempt[w] + 1 < MAX_RETRIES
              /\ Goto(w, "metadata")
           \/ /\ attempt[w] + 1 = MAX_RETRIES
              /\ Goto(w, "bailed")
  /\ UNCHANGED <<storeVars, run, new, start>>

(***************************************************************************)
(* An I/O error that run_index returns, or the end of the process: nothing *)
(* of the run survives but what it wrote to the store.                     *)
(***************************************************************************)
Abort(w) ==
  /\ pc[w] \notin Stopped
  /\ Goto(w, "failed")
  /\ UNCHANGED <<storeVars, run, etag, latest, new, attempt, start>>

\* What a running worker does next, if the environment lets it.
Advance(w) ==
  \/ Upload(w)
  \/ WriteMetadata(w)
  \/ PutApplied(w)
  \/ PutRefused(w)
  \/ Rebase(w)

StoreDelivers ==
  /\ \E request \in inflight : Deliver(request)
  /\ UNCHANGED workerVars

Next ==
  \/ \E w \in Workers : Begin(w) \/ Advance(w) \/ PutUnanswered(w) \/ Abort(w)
  \/ StoreDelivers

(***************************************************************************)
(* Weak fairness of each running process: tokio polls a task whose I/O     *)
(* completed or whose backoff elapsed.  Nothing obliges anybody to invoke  *)
(* the indexer (again), or a run to fail.                                  *)
(***************************************************************************)
Fairness == \A w \in Workers : WF_vars(Advance(w))
Spec == Init /\ [][Next]_vars /\ Fairness
-----------------------------------------------------------------------------
States == Stopped \cup Uploading \cup Committing

TypeOK ==
  /\ StoreTypeOK
  /\ pc \in [Workers -> States]
  /\ run \in [Workers -> 0..MaxRuns]
  /\ etag \in [Workers -> Nat]
  /\ latest \in [Workers -> 0..Len(metas)]
  /\ new \in [Workers -> 0..Len(metas)]
  /\ attempt \in [Workers -> 0..MAX_RETRIES]
  /\ \A w \in Workers : pc[w] \in Committing => attempt[w] < MAX_RETRIES
  /\ start \in [Workers -> Nat]

(***************************************************************************)
(* No batch is twice in a snapshot, whoever indexed it concurrently, after *)
(* whichever restart, lost answer or late PUT: cas.rs checks the batch_id  *)
(* before the first attempt and after every rebase, and the ETag ties the  *)
(* check to the PUT.                                                       *)
(***************************************************************************)
NoDuplicateBatch ==
  \A i, j \in DOMAIN LiveManifestLists :
    BatchId(LiveManifestLists[i].worker) = BatchId(LiveManifestLists[j].worker)
      => i = j

(***************************************************************************)
(* No commit is ever lost or reordered: current.json only ever moves to a  *)
(* snapshot that extends the one it named.                                 *)
(***************************************************************************)
AppendOnly == [][IsPrefix(LiveManifestLists, LiveManifestLists')]_vars

(***************************************************************************)
(* A metadata file never names an object that is not in the store yet, so  *)
(* neither a query nor a dedup check that follows any current.json of any  *)
(* time meets a missing object (lib.rs uploads the segment before its      *)
(* manifest, the manifest before its manifest list, all before metadata).  *)
(***************************************************************************)
NoDanglingReference ==
  \A m \in DOMAIN metas : \A ml \in ManifestListsIn(m) : \A k \in Kinds :
    [kind |-> k, run |-> ml] \in objects

(***************************************************************************)
(* An indexer that reported success has its batch in the table, also when  *)
(* it only found out that somebody else committed it.                      *)
(***************************************************************************)
OkMeansCommitted ==
  \A w \in Workers : pc[w] = "ok" =>
    CurrentExists /\ is_batch_duplicate(current.metadata_path, BatchId(w))

(***************************************************************************)
(* A worker bails out ("CAS commit failed after 5 retries") only after at  *)
(* least MAX_RETRIES commits of others during its run.  As no batch is     *)
(* committed twice, a table with at most MAX_RETRIES batches never sees    *)
(* the error.                                                              *)
(***************************************************************************)
BailOnlyUnderContention ==
  \A w \in Workers :
    pc[w] = "bailed" => current.e_tag >= start[w] + MAX_RETRIES

(***************************************************************************)
(* Every invocation ends, with success, an error or a bail-out, however    *)
(* the others interfere.                                                   *)
(***************************************************************************)
EveryRunEnds ==
  \A w \in Workers : (pc[w] \notin Stopped) ~> (pc[w] \in Stopped)

(***************************************************************************)
(* An indexer that reported success has indexed its files for the column   *)
(* it was asked to index (main.rs, "Column to index").  A batch_id does    *)
(* not name the column, so a second column is taken for a duplicate.       *)
(***************************************************************************)
ColumnsIndexed ==
  \A w \in Workers : pc[w] = "ok" =>
    \E ml \in ToSet(LiveManifestLists) : Job[ml.worker] = Job[w]

(***************************************************************************)
(* The table as TableLog sees it: the batches of the snapshot in order,    *)
(* and what each worker last said.                                         *)
(***************************************************************************)
AnswerOf(w) ==
  CASE pc[w] = "ok" -> "ok"
    [] pc[w] \in {"failed", "bailed"} -> "error"
    [] OTHER -> "none"

Log == INSTANCE TableLog WITH
  Batch <- [w \in Workers |-> BatchId(w)],
  log <- [i \in DOMAIN LiveManifestLists |->
            BatchId(LiveManifestLists[i].worker)],
  answer <- [w \in Workers |-> AnswerOf(w)]

\* The protocol implements the append-only log, each batch at most once.
ImplementsLog == Log!LogSpec
=============================================================================
