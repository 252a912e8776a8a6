----------------------------- MODULE TableStore -----------------------------
(***************************************************************************)
(* The object store under one table location, as lakesearch-core uses it   *)
(* (storage.rs, cas.rs).  Every object but metadata/current.json carries a *)
(* fresh UUID in its name and is written once, so the immutable objects    *)
(* are modelled by the order they appear in:                               *)
(*   - metas[i] is the i-th metadata-<uuid>.json ever written;             *)
(*   - objects is the set of segments, manifests and manifest lists, each  *)
(*     named by the kind of object and the run of the indexer that wrote   *)
(*     it (a run writes exactly one of each);                              *)
(*   - current is metadata/current.json, the only object that is           *)
(*     overwritten: the metadata file it names and the version (ETag) the  *)
(*     store gives that content.                                           *)
(***************************************************************************)
EXTENDS Naturals, Sequences, SequencesExt

CONSTANTS
  Workers,    \* index processes; each is an invocation line that may be rerun
  Files,      \* Parquet files
  Columns,    \* column names
  Job,        \* Job[w]: the files and the column worker w is asked to index
  StoreKind,  \* how the store treats a conditional PUT of current.json
  Remote      \* whether a PUT may be delayed or resent on its way

(***************************************************************************)
(* "conditional": PutMode::Update compares the ETag (in-memory, GCS,       *)
(* Azure).  "unconditional": PutMode::Update answers NotImplemented (the   *)
(* local file system, and S3 as parse_url builds it).  "no_etag": the GET  *)
(* of current.json carries no ETag to match against.                       *)
(***************************************************************************)
StoreKinds == {"conditional", "unconditional", "no_etag"}

ASSUME StoreAssumption ==
  /\ Job \in [Workers -> [files : SUBSET Files, column : Columns]]
  /\ StoreKind \in StoreKinds
  /\ Remote \in BOOLEAN

VARIABLES
  current,    \* metadata/current.json
  metas,      \* the metadata files, in the order they were written
  objects,    \* segments, manifests and manifest lists in the store
  inflight    \* copies of PUTs of current.json that nobody waits for

storeVars == <<current, metas, objects, inflight>>

Kinds == {"segment", "manifest", "manifest_list"}
Run == [worker : Workers, n : Nat]
Object == [kind : Kinds, run : Run]
Metadata == [indexed_columns : SUBSET Columns, manifest_lists : Seq(Run)]

(***************************************************************************)
(* Before create-table there is no current.json; versions start at 1, and  *)
(* 0 also stands for an ETag that is None.                                 *)
(***************************************************************************)
NoTable == [metadata_path |-> 0, e_tag |-> 0]
NoTag == 0
CurrentExists == current.metadata_path # 0

\* The manifest lists of the snapshot that current.json names.
LiveManifestLists ==
  IF CurrentExists THEN metas[current.metadata_path].manifest_lists ELSE <<>>

ManifestListsIn(m) == ToSet(metas[m].manifest_lists)

\* compute_batch_id hashes the sorted file paths, and nothing else.
BatchId(w) == Job[w].files

\* A manifest list stores the batch_id and the column of its run's job.
is_batch_duplicate(m, batch) ==
  \E ml \in ManifestListsIn(m) : BatchId(ml.worker) = batch

\* The ETag a GET of current.json returns.
ReadTag == IF StoreKind = "no_etag" THEN NoTag ELSE current.e_tag

(***************************************************************************)
(* PUT of current.json with the ETag the writer read: without an ETag the  *)
(* PUT overwrites, and a store that has no conditional PUT answers         *)
(* NotImplemented, which the code answers with an unconditional PUT.       *)
(***************************************************************************)
PutAccepted(tag) ==
  \/ tag = NoTag
  \/ StoreKind = "unconditional"
  \/ tag = current.e_tag

PutCurrent(m) ==
  current' = [metadata_path |-> m, e_tag |-> current.e_tag + 1]

(***************************************************************************)
(* A request whose sender gave up on it, or sent it again, may still reach *)
(* the store, at any later time, and is then treated like any other.       *)
(***************************************************************************)
LeaveInFlight(tag, m) ==
  /\ Remote
  /\ inflight' = inflight \cup {[tag |-> tag, metadata_path |-> m]}

Deliver(request) ==
  /\ inflight' = inflight \ {request}
  /\ \/ /\ PutAccepted(request.tag)
        /\ PutCurrent(request.metadata_path)
     \/ /\ ~PutAccepted(request.tag)
        /\ UNCHANGED current
  /\ UNCHANGED <<metas, objects>>

write_metadata(m) == metas' = Append(metas, m)
PutObject(kind, run) == objects' = objects \cup {[kind |-> kind, run |-> run]}

StoreTypeOK ==
  /\ metas \in Seq(Metadata)
  /\ objects \in SUBSET Object
  /\ current \in [metadata_path : 0..Len(metas), e_tag : Nat]
  /\ CurrentExists <=> current.e_tag # NoTag
  /\ inflight \in SUBSET [tag : Nat, metadata_path : 1..Len(metas)]
=============================================================================
