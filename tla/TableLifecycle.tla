--------------------------- MODULE TableLifecycle ---------------------------
(***************************************************************************)
(* create-table (lakesearch-cli/src/main.rs) together with the indexers of *)
(* Commit, from an empty location on.  create-table looks whether          *)
(* current.json exists, writes a metadata file and then PUTs current.json  *)
(* without any condition: the check and the PUT are separate steps, and    *)
(* the PUT may arrive late or more than once, like those of the indexers.  *)
(***************************************************************************)
EXTENDS Commit

CONSTANTS
  Creators,        \* create-table invocations; each may be rerun
  ColumnsOf,       \* ColumnsOf[c]: its --column arguments
  MaxCreates,      \* bound: metadata files written before there is a table
  MaxVersions      \* bound: versions until which create-table's PUT is resent

ASSUME LifecycleAssumption ==
  /\ ColumnsOf \in [Creators -> SUBSET Columns]
  /\ MaxCreates \in Nat
  /\ MaxVersions \in Nat

VARIABLES
  cpc,    \* where each create-table is
  cmeta   \* the metadata file it wrote

creatorVars == <<cpc, cmeta>>
lifecycleVars == <<vars, creatorVars>>

CreatorStopped == {"idle", "created", "refused", "failed"}

LifecycleInit ==
  /\ Init
  /\ current = NoTable
  /\ cpc = [c \in Creators |-> "idle"]
  /\ cmeta = [c \in Creators |-> 0]

\* current_exists, and the bail-out "table already exists".
CheckExists(c) ==
  /\ cpc[c] \in {"idle", "failed"}
  /\ \/ /\ CurrentExists
        /\ cpc' = [cpc EXCEPT ![c] = "refused"]
     \/ /\ ~CurrentExists
        /\ Len(metas) < MaxCreates
        /\ cpc' = [cpc EXCEPT ![c] = "write"]
  /\ UNCHANGED <<vars, cmeta>>

\* Mutant of WriteFirstMetadata: the metadata file is not written.
WriteNoMetadata(c) ==
  /\ cpc[c] = "write"
  /\ cmeta' = [cmeta EXCEPT ![c] = Len(metas) + 1]
  /\ cpc' = [cpc EXCEPT ![c] = "point"]
  /\ UNCHANGED vars

\* A table with no manifest lists, under a fresh metadata name.
WriteFirstMetadata(c) ==
  /\ cpc[c] = "write"
  /\ write_metadata([indexed_columns |-> ColumnsOf[c], manifest_lists |-> <<>>])
  /\ cmeta' = [cmeta EXCEPT ![c] = Len(metas) + 1]
  /\ cpc' = [cpc EXCEPT ![c] = "point"]
  /\ UNCHANGED <<current, objects, inflight, workerVars>>

\* write_json of current.json: an overwrite, whatever is there by now.
WriteFirstPointer(c) ==
  /\ cpc[c] = "point"
  /\ PutCurrent(cmeta[c])
  /\ \/ cpc' = [cpc EXCEPT ![c] = "created"]
     \/ cpc' = [cpc EXCEPT ![c] = "failed"]
  /\ UNCHANGED <<metas, objects, inflight, workerVars, cmeta>>

(***************************************************************************)
(* The same PUT with no answer: create-table ends with an error or is      *)
(* killed, or the store client sends the request again and it goes on      *)
(* waiting.  The request that is left asks for no ETag.                    *)
(***************************************************************************)
FirstPointerUnanswered(c) ==
  /\ cpc[c] = "point"
  /\ current.e_tag < MaxVersions
  /\ LeaveInFlight(NoTag, cmeta[c])
  /\ \/ cpc' = [cpc EXCEPT ![c] = "failed"]
     \/ UNCHANGED cpc
  /\ UNCHANGED <<current, metas, objects, workerVars, cmeta>>

\* An I/O error, or the end of the process; it may be rerun.
AbortCreate(c) ==
  /\ cpc[c] \in {"write", "point"}
  /\ cpc' = [cpc EXCEPT ![c] = "failed"]
  /\ UNCHANGED <<vars, cmeta>>

LifecycleNext ==
  \/ Next /\ UNCHANGED creatorVars
  \/ \E c \in Creators :
       \/ CheckExists(c)
       \/ WriteFirstMetadata(c)
       \/ WriteFirstPointer(c)
       \/ FirstPointerUnanswered(c)
       \/ AbortCreate(c)

\* Nothing obliges anybody to create the table.
LifecycleSpec == LifecycleInit /\ [][LifecycleNext]_lifecycleVars /\ Fairness
-----------------------------------------------------------------------------
LifecycleTypeOK ==
  /\ TypeOK
  /\ cpc \in [Creators -> CreatorStopped \cup {"write", "point"}]
  /\ cmeta \in [Creators -> 0..Len(metas)]

\* The columns of the table, as current.json leads to them.
LiveColumns ==
  IF CurrentExists THEN metas[current.metadata_path].indexed_columns ELSE {}

(***************************************************************************)
(* create-table may replace a table that exists: current_exists is looked  *)
(* at before, and its PUT has no condition.  But nobody else does, and     *)
(* what was replaced stays gone: a commit that was computed from the old   *)
(* table, by a run that is still going on or by a request that is still    *)
(* under way, never brings it back and never mixes the two.  It is refused *)
(* and rebased on the new table, whose snapshot it extends.                *)
(***************************************************************************)
OnlyCreationReplaces ==
  [][CurrentExists =>
       \/ LiveManifestLists' = <<>>
       \/ /\ IsPrefix(LiveManifestLists, LiveManifestLists')
          /\ LiveColumns' = LiveColumns]_lifecycleVars

(***************************************************************************)
(* A table that exists is never replaced: what was committed stays, and    *)
(* the columns stay those of its creation (main.rs, "table already         *)
(* exists").                                                               *)
(***************************************************************************)
TableNeverReplaced ==
  [][CurrentExists =>
       /\ IsPrefix(LiveManifestLists, LiveManifestLists')
       /\ LiveColumns' = LiveColumns]_lifecycleVars
=============================================================================
