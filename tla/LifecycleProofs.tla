--------------------------- MODULE LifecycleProofs ---------------------------
(***************************************************************************)
(* Proofs about TableLifecycle: any number of create-table commands, for   *)
(* whichever columns, and the indexers together.  The PUT of create-table  *)
(* may replace a table at any time; what is proved here is that it does    *)
(* not disturb the commits otherwise.                                      *)
(***************************************************************************)
EXTENDS TableLifecycle, CommitProofs

CreatorTypes ==
  /\ cpc \in [Creators -> CreatorStopped \cup {"write", "point"}]
  /\ cmeta \in [Creators -> 0..Len(metas)]
  /\ \A c \in Creators : cpc[c] = "point" => cmeta[c] # 0

CreatorStep(c) ==
  \/ CheckExists(c)
  \/ WriteFirstMetadata(c)
  \/ WriteFirstPointer(c)
  \/ FirstPointerUnanswered(c)
  \/ AbortCreate(c)

\* A creator's first metadata file is well formed, and every column list is a set.
LEMMA FirstMetadata ==
  ASSUME NEW c \in Creators
  PROVE  [indexed_columns |-> ColumnsOf[c], manifest_lists |-> <<>>] \in Metadata
  BY LifecycleAssumption DEF Metadata
-----------------------------------------------------------------------------
(***************************************************************************)
(* Type correctness, on any store and with any number of creators.         *)
(***************************************************************************)
LEMMA CreatorTypesGrow ==
  ASSUME TypeInv, CreatorTypes, UNCHANGED creatorVars, Len(metas') \in Nat,
         Len(metas') >= Len(metas)
  PROVE  CreatorTypes'
  <1>1. 0..Len(metas) \subseteq 0..Len(metas')
    BY StoreTypes
  <1> QED
    BY <1>1 DEF CreatorTypes, creatorVars

LEMMA MetasGrow ==
  ASSUME TypeInv, [Next]_vars
  PROVE  /\ Len(metas') \in Nat /\ Len(metas') >= Len(metas)
         /\ \A m \in 1..Len(metas) : metas'[m] = metas[m]
         /\ metas' = metas \/ \E w \in Workers : WriteMetadata(w)
  <1>0. metas \in Seq(Metadata)
    BY DEF TypeInv, TypeOK, StoreTypeOK
  <1>1. metas' = metas \/ \E w \in Workers : WriteMetadata(w)
    BY DEF Next, Advance, Begin, Upload, PutApplied, PutRefused, PutUnanswered, Rebase,
       Abort, StoreDelivers, Deliver, vars, storeVars
  <1>2. ASSUME NEW w \in Workers, WriteMetadata(w)
        PROVE  /\ Len(metas') \in Nat /\ Len(metas') >= Len(metas)
               /\ \A m \in 1..Len(metas) : metas'[m] = metas[m]
    BY <1>0, <1>2 DEF WriteMetadata, write_metadata
  <1> QED
    BY <1>0, <1>1, <1>2

LEMMA CreatorTypeStep ==
  ASSUME TypeInv, CreatorTypes, NEW c \in Creators, CreatorStep(c)
  PROVE  TypeInv' /\ CreatorTypes'
  <1>0. /\ metas \in Seq(Metadata) /\ Len(metas) \in Nat /\ current.e_tag \in Nat
        /\ cpc[c] \in CreatorStopped \cup {"write", "point"}
        /\ cmeta[c] \in 0..Len(metas)
    BY StoreTypes DEF TypeInv, TypeOK, StoreTypeOK, CreatorTypes
  <1>1. CASE CheckExists(c) \/ AbortCreate(c)
    <2>1. UNCHANGED vars /\ UNCHANGED cmeta
      BY <1>1 DEF CheckExists, AbortCreate
    <2>2. TypeInv'
      BY <2>1 DEF vars, storeVars, workerVars, TypeInv, TypeOK, StoreTypeOK, HoldsOK,
         CurrentExists
    <2>3. cpc' \in [Creators -> CreatorStopped \cup {"write", "point"}]
          /\ \A d \in Creators : cpc'[d] = "point" => cpc[d] = "point"
      BY <1>1 DEF CheckExists, AbortCreate, CreatorTypes, CreatorStopped
    <2> QED
      BY <2>1, <2>2, <2>3 DEF CreatorTypes, vars, storeVars
  <1>2. CASE WriteFirstMetadata(c)
    <2> DEFINE m == [indexed_columns |-> ColumnsOf[c], manifest_lists |-> <<>>]
    <2>1. /\ metas' = Append(metas, m) /\ UNCHANGED <<current, objects, inflight, workerVars>>
          /\ cmeta' = [cmeta EXCEPT ![c] = Len(metas) + 1]
          /\ cpc' = [cpc EXCEPT ![c] = "point"]
      BY <1>2 DEF WriteFirstMetadata, write_metadata
    <2>2. m \in Metadata
      BY FirstMetadata
    <2> HIDE DEF m
    <2>3. metas' \in Seq(Metadata) /\ Len(metas') = Len(metas) + 1
      BY <1>0, <2>1, <2>2
    <2>4. 0..Len(metas) \subseteq 0..Len(metas') /\ 1..Len(metas) \subseteq 1..Len(metas')
          /\ Len(metas) + 1 \in 0..Len(metas')
      BY <1>0, <2>3
    <2>5. StoreTypeOK'
      <3>1. inflight \in SUBSET [tag : Nat, metadata_path : 1..Len(metas')]
        BY <2>4 DEF TypeInv, TypeOK, StoreTypeOK
      <3>2. current \in [metadata_path : 0..Len(metas'), e_tag : Nat]
        BY <2>4 DEF TypeInv, TypeOK, StoreTypeOK
      <3> QED
        BY <2>1, <2>3, <3>1, <3>2 DEF TypeInv, TypeOK, StoreTypeOK, CurrentExists
    <2>6. TypeOK'
      <3>1. latest \in [Workers -> 0..Len(metas')] /\ new \in [Workers -> 0..Len(metas')]
        BY <2>4 DEF TypeInv, TypeOK
      <3> QED
        BY <2>1, <2>5, <3>1 DEF TypeInv, TypeOK, workerVars
    <2>7. \A w \in Workers : HoldsOK(w)'
      BY <2>1 DEF TypeInv, HoldsOK, workerVars, CurrentExists
    <2>8. CreatorTypes'
      BY <1>0, <2>1, <2>4 DEF CreatorTypes
    <2> QED
      BY <2>6, <2>7, <2>8 DEF TypeInv
  <1>3. CASE WriteFirstPointer(c)
    <2>1. /\ current' = [metadata_path |-> cmeta[c], e_tag |-> current.e_tag + 1]
          /\ UNCHANGED <<metas, objects, inflight, workerVars, cmeta>>
          /\ cpc[c] = "point"
          /\ cpc' = [cpc EXCEPT ![c] = "created"] \/ cpc' = [cpc EXCEPT ![c] = "failed"]
      BY <1>3 DEF WriteFirstPointer, PutCurrent
    <2>2. cmeta[c] # 0
      BY <2>1 DEF CreatorTypes
    <2>3. StoreTypeOK' /\ CurrentExists'
      BY <1>0, <2>1, <2>2 DEF TypeInv, TypeOK, StoreTypeOK, CurrentExists, NoTag
    <2>4. TypeOK'
      BY <2>1, <2>3 DEF TypeInv, TypeOK, workerVars
    <2>5. \A w \in Workers : HoldsOK(w)'
      BY <2>1, <2>3 DEF TypeInv, HoldsOK, workerVars
    <2>6. CreatorTypes'
      BY <2>1 DEF CreatorTypes, CreatorStopped
    <2> QED
      BY <2>4, <2>5, <2>6 DEF TypeInv
  <1>4. CASE FirstPointerUnanswered(c)
    <2>1. /\ cpc[c] = "point"
          /\ inflight' = inflight \cup {[tag |-> NoTag, metadata_path |-> cmeta[c]]}
          /\ UNCHANGED <<current, metas, objects, workerVars, cmeta>>
          /\ cpc' = [cpc EXCEPT ![c] = "failed"] \/ UNCHANGED cpc
      BY <1>4 DEF FirstPointerUnanswered, LeaveInFlight
    <2>2. cmeta[c] \in 1..Len(metas)
      BY <1>0, <2>1 DEF CreatorTypes
    <2>3. StoreTypeOK'
      BY <2>1, <2>2 DEF TypeInv, TypeOK, StoreTypeOK, CurrentExists, NoTag
    <2>4. TypeOK'
      BY <2>1, <2>3 DEF TypeInv, TypeOK, workerVars
    <2>5. \A w \in Workers : HoldsOK(w)'
      BY <2>1 DEF TypeInv, HoldsOK, workerVars, CurrentExists
    <2>6. CreatorTypes'
      BY <2>1 DEF CreatorTypes, CreatorStopped
    <2> QED
      BY <2>4, <2>5, <2>6 DEF TypeInv
  <1> QED
    BY <1>1, <1>2, <1>3, <1>4 DEF CreatorStep

LEMMA LifecycleTypeInit == LifecycleInit => TypeInv /\ CreatorTypes
  <1> SUFFICES ASSUME LifecycleInit PROVE TypeInv /\ CreatorTypes
    OBVIOUS
  <1>1. TypeInv
    BY TypeInit DEF LifecycleInit
  <1>2. 0 \in 0..Len(metas)
    BY <1>1, StoreTypes
  <1> QED
    BY <1>1, <1>2 DEF LifecycleInit, CreatorTypes, CreatorStopped

LEMMA LifecycleTypeNext ==
  ASSUME TypeInv, CreatorTypes, [LifecycleNext]_lifecycleVars
  PROVE  TypeInv' /\ CreatorTypes'
  <1>1. CASE [Next]_vars /\ UNCHANGED creatorVars
    BY <1>1, TypeNext, MetasGrow, CreatorTypesGrow
  <1>2. CASE \E c \in Creators : CreatorStep(c)
    BY <1>2, CreatorTypeStep
  <1> QED
    BY <1>1, <1>2 DEF LifecycleNext, CreatorStep, lifecycleVars

(***************************************************************************)
(* Types of create-table and the indexers: a creator that points           *)
(* current.json at a metadata file has written one before (main.rs).       *)
(***************************************************************************)
THEOREM LifecycleTypeCorrect == LifecycleSpec => []LifecycleTypeOK
  <1>1. TypeInv /\ CreatorTypes => LifecycleTypeOK
    BY DEF TypeInv, CreatorTypes, LifecycleTypeOK
  <1>2. TypeInv /\ CreatorTypes /\ [LifecycleNext]_lifecycleVars => (TypeInv /\ CreatorTypes)'
    BY LifecycleTypeNext
  <1> QED
    BY <1>1, <1>2, LifecycleTypeInit, PTL DEF LifecycleSpec
-----------------------------------------------------------------------------
(***************************************************************************)
(* Nothing that is pending goes wrong when create-table overwrites a table *)
(* (CommitProofs!Overwritten): the version of current.json goes up, so     *)
(* that whatever was computed from the old table is refused.  What a       *)
(* create-table points current.json at is an empty table.                  *)
(***************************************************************************)
CreationInv ==
  /\ PendingInv
  /\ \A c \in Creators : cpc[c] = "point" => IsEmpty(cmeta[c])

\* A metadata file that is not there yet, of an empty table, disturbs nobody.
LEMMA PendingFile ==
  ASSUME TypeInv, PendingInv, NEW first \in Metadata, first.manifest_lists = <<>>,
         metas' = Append(metas, first), UNCHANGED <<current, inflight, workerVars>>
  PROVE  PendingInv'
  <1>0. metas \in Seq(Metadata)
    BY DEF TypeInv, TypeOK, StoreTypeOK
  <1>1. /\ \A m \in 1..Len(metas) : metas'[m] = metas[m]
        /\ \A m \in 1..Len(metas') : m \in 1..Len(metas) \/ metas'[m] = first
    BY <1>0
  <1>2. ASSUME NEW m \in 1..Len(metas') PROVE NoDuplicateIn(m)'
    <2>1. CASE metas'[m] = first
      BY <2>1 DEF NoDuplicateIn
    <2>2. CASE m \in 1..Len(metas)
      BY <1>1, <2>2, FileStable DEF PendingInv
    <2> QED
      BY <1>1, <2>1, <2>2
  <1>3. ASSUME NEW w \in Workers PROVE WorkerSound(w)'
    <2>1. WorkerSound(w) /\ UNCHANGED <<pc, etag, latest, new, run>>
      BY DEF PendingInv, workerVars
    <2> SUFFICES ASSUME pc[w] \notin Stopped PROVE WorkerSound(w)'
      BY <2>1 DEF WorkerSound
    <2>2. /\ metas'[latest[w]] = metas[latest[w]]
          /\ pc[w] = "put" => metas'[new[w]] = metas[new[w]]
      BY <1>1, RunningTypes
    <2> QED
      BY <2>1, <2>2, FileStable DEF WorkerSound, ThisRun
  <1>4. ASSUME NEW r \in inflight PROVE RequestSound(r)'
    <2>1. RequestSound(r) /\ metas'[r.metadata_path] = metas[r.metadata_path]
      BY <1>1, StoreTypes DEF PendingInv
    <2>2. CASE r.tag = current.e_tag /\ r.tag # NoTag
      <3>1. metas'[current.metadata_path] = metas[current.metadata_path]
        BY <1>1, <2>2, StoreTypes DEF NoTag
      <3> QED
        BY <2>1, <2>2, <3>1, FollowsStable DEF RequestSound
    <2>3. CASE r.tag = NoTag
      BY <2>1, <2>3 DEF RequestSound, IsEmpty, NoTag
    <2>4. CASE r.tag # current.e_tag /\ r.tag # NoTag
      BY <2>1, <2>4 DEF RequestSound
    <2> QED
      BY <2>2, <2>3, <2>4
  <1> QED
    BY <1>2, <1>3, <1>4 DEF PendingInv

LEMMA CreatorPending ==
  ASSUME TypeInv, CreatorTypes, CreationInv, NEW c \in Creators, CreatorStep(c)
  PROVE  CreationInv'
  <1>1. CASE CheckExists(c) \/ AbortCreate(c)
    <2>1. UNCHANGED <<vars, cmeta>>
      BY <1>1 DEF CheckExists, AbortCreate
    <2>2. \A d \in Creators : cpc'[d] = "point" => cpc[d] = "point"
      BY <1>1 DEF CheckExists, AbortCreate, CreatorTypes
    <2>3. PendingInv'
      BY <2>1, IdleStep DEF vars, storeVars, CreationInv
    <2> QED
      BY <2>1, <2>2, <2>3 DEF CreationInv, IsEmpty, vars, storeVars
  <1>2. CASE WriteFirstMetadata(c)
    <2> DEFINE first == [indexed_columns |-> ColumnsOf[c], manifest_lists |-> <<>>]
    <2>1. /\ metas' = Append(metas, first) /\ UNCHANGED <<current, inflight, workerVars>>
          /\ cmeta' = [cmeta EXCEPT ![c] = Len(metas) + 1]
          /\ cpc' = [cpc EXCEPT ![c] = "point"]
          /\ metas \in Seq(Metadata) /\ first \in Metadata
      BY <1>2, FirstMetadata DEF WriteFirstMetadata, write_metadata, TypeInv, TypeOK,
         StoreTypeOK
    <2>2. first.manifest_lists = <<>>
      OBVIOUS
    <2> HIDE DEF first
    <2>3. PendingInv'
      BY <2>1, <2>2, PendingFile DEF CreationInv
    <2>4. ASSUME NEW d \in Creators, cpc'[d] = "point" PROVE IsEmpty(cmeta[d])'
      <3>1. CASE d = c
        <4>1. cmeta'[d] = Len(metas) + 1 /\ metas'[Len(metas) + 1] = first
          BY <2>1, <3>1 DEF CreatorTypes
        <4> QED
          BY <2>2, <4>1 DEF IsEmpty
      <3>2. CASE d # c
        <4>1. cmeta'[d] = cmeta[d] /\ cpc[d] = "point"
          BY <2>1, <2>4, <3>2 DEF CreatorTypes
        <4>2. cmeta[d] \in 1..Len(metas)
          BY <4>1, StoreTypes DEF CreatorTypes
        <4>3. metas'[cmeta[d]] = metas[cmeta[d]]
          BY <2>1, <4>2
        <4> QED
          BY <4>1, <4>3 DEF CreationInv, IsEmpty
      <3> QED
        BY <3>1, <3>2
    <2> QED
      BY <2>3, <2>4 DEF CreationInv
  <1>3. CASE WriteFirstPointer(c)
    <2>1. /\ UNCHANGED <<metas, inflight, workerVars, cmeta>>
          /\ PutCurrent(cmeta[c]) /\ cpc[c] = "point"
          /\ \A d \in Creators : cpc'[d] = "point" => cpc[d] = "point"
      BY <1>3 DEF WriteFirstPointer, CreatorTypes
    <2>2. PICK n \in 1..Len(metas) : n = cmeta[c]
      BY <2>1, StoreTypes DEF CreatorTypes
    <2>3. PendingInv'
      <3>1. /\ \A v \in Workers : WorkerSound(v)'
            /\ \A r \in inflight : RequestSound(r)'
            /\ \A m \in 1..Len(metas') : NoDuplicateIn(m)'
        BY <2>1, <2>2, Overwritten DEF CreationInv, workerVars
      <3> QED
        BY <2>1, <3>1 DEF PendingInv
    <2> QED
      BY <2>1, <2>3 DEF CreationInv, IsEmpty
  <1>4. CASE FirstPointerUnanswered(c)
    <2>1. /\ UNCHANGED <<current, metas, workerVars, cmeta>> /\ cpc[c] = "point"
          /\ inflight' = inflight \cup {[tag |-> NoTag, metadata_path |-> cmeta[c]]}
          /\ \A d \in Creators : cpc'[d] = "point" => cpc[d] = "point"
      BY <1>4 DEF FirstPointerUnanswered, LeaveInFlight, CreatorTypes
    <2>2. ASSUME NEW r \in inflight' PROVE RequestSound(r)'
      <3>1. CASE r \in inflight
        <4>1. RequestSound(r)
          BY <3>1 DEF CreationInv, PendingInv
        <4> QED
          BY <2>1, <4>1 DEF RequestSound, IsEmpty, Follows, is_batch_duplicate,
             ManifestListsIn
      <3>2. CASE r = [tag |-> NoTag, metadata_path |-> cmeta[c]]
        <4>1. r.tag = NoTag /\ r.metadata_path = cmeta[c] /\ IsEmpty(cmeta[c])
          BY <2>1, <3>2 DEF CreationInv
        <4>2. metas'[r.metadata_path].manifest_lists = <<>>
          BY <2>1, <4>1 DEF IsEmpty
        <4> QED
          BY <4>1, <4>2 DEF RequestSound, IsEmpty, NoTag
      <3> QED
        BY <2>1, <3>1, <3>2
    <2>3. ASSUME NEW w \in Workers PROVE WorkerSound(w)'
      <3>1. WorkerSound(w)
        BY DEF CreationInv, PendingInv
      <3> QED
        BY <2>1, <3>1 DEF workerVars, WorkerSound, is_batch_duplicate, ManifestListsIn,
           ThisRun
    <2>4. \A m \in 1..Len(metas') : NoDuplicateIn(m)'
      BY <2>1 DEF CreationInv, PendingInv, NoDuplicateIn
    <2> QED
      BY <2>1, <2>2, <2>3, <2>4 DEF CreationInv, PendingInv, IsEmpty
  <1> QED
    BY <1>1, <1>2, <1>3, <1>4 DEF CreatorStep

LEMMA CreationNext ==
  ASSUME StoreKind = "conditional", TypeInv, CreatorTypes, CreationInv,
         [LifecycleNext]_lifecycleVars
  PROVE  CreationInv'
  <1>1. CASE [Next]_vars /\ UNCHANGED creatorVars
    <2>1. PendingInv'
      BY <1>1, PendingNext DEF CreationInv
    <2>2. ASSUME NEW c \in Creators, cpc[c] = "point" PROVE IsEmpty(cmeta[c])'
      <3>1. cmeta[c] \in 1..Len(metas) /\ IsEmpty(cmeta[c]) /\ cmeta'[c] = cmeta[c]
        BY <1>1, <2>2, StoreTypes DEF CreatorTypes, CreationInv, creatorVars
      <3>2. metas'[cmeta[c]] = metas[cmeta[c]]
        BY <1>1, <3>1, MetasGrow
      <3> QED
        BY <3>1, <3>2 DEF IsEmpty
    <2> QED
      BY <1>1, <2>1, <2>2 DEF CreationInv, creatorVars
  <1>2. CASE \E c \in Creators : CreatorStep(c)
    BY <1>2, CreatorPending
  <1> QED
    BY <1>1, <1>2 DEF LifecycleNext, CreatorStep, lifecycleVars

LEMMA CreationInvariant ==
  ASSUME StoreKind = "conditional"
  PROVE  LifecycleSpec => [](TypeInv /\ CreatorTypes /\ CreationInv)
  <1>1. LifecycleInit => CreationInv
    BY CASInit DEF LifecycleInit, CASInv, CreationInv
  <1>2. TypeInv /\ CreatorTypes /\ CreationInv /\ [LifecycleNext]_lifecycleVars
          => (TypeInv /\ CreatorTypes /\ CreationInv)'
    BY LifecycleTypeNext, CreationNext
  <1> QED
    BY <1>1, <1>2, LifecycleTypeInit, PTL DEF LifecycleSpec
-----------------------------------------------------------------------------
(***************************************************************************)
(* No batch is twice in a snapshot, also when the table is replaced by     *)
(* create-table commands, once or several times, while it is indexed.      *)
(***************************************************************************)
THEOREM NoDuplicatesAfterCreation ==
  ASSUME StoreKind = "conditional" PROVE LifecycleSpec => []NoDuplicateBatch
  <1>1. TypeInv /\ CreationInv => NoDuplicateBatch
    BY StoreTypes DEF CreationInv, PendingInv, NoDuplicateIn, NoDuplicateBatch,
       LiveManifestLists, CurrentExists
  <1> QED
    BY <1>1, CreationInvariant, PTL

\* A step of create-table, as those see it who follow current.json.
LEMMA CreatorReplaces ==
  ASSUME TypeInv, CreatorTypes, CreationInv, NEW c \in Creators, CreatorStep(c),
         CurrentExists
  PROVE  \/ LiveManifestLists' = <<>>
         \/ LiveManifestLists' = LiveManifestLists /\ LiveColumns' = LiveColumns
  <1>0. current.metadata_path \in 1..Len(metas) /\ metas \in Seq(Metadata)
    BY StoreTypes DEF CurrentExists, TypeInv, TypeOK, StoreTypeOK
  <1>1. CASE WriteFirstPointer(c)
    <2>1. /\ current'.metadata_path = cmeta[c] /\ metas' = metas
          /\ IsEmpty(cmeta[c])
      BY <1>1 DEF WriteFirstPointer, PutCurrent, CreationInv
    <2> QED
      BY <2>1 DEF LiveManifestLists, IsEmpty
  <1>2. CASE ~WriteFirstPointer(c)
    <2>1. current' = current
      BY <1>2 DEF CreatorStep, CheckExists, WriteFirstMetadata, FirstPointerUnanswered,
         AbortCreate, vars, storeVars
    <2>2. metas' = metas \/ metas' = Append(metas, [indexed_columns |-> ColumnsOf[c],
                                                   manifest_lists |-> <<>>])
      BY <1>2 DEF CreatorStep, CheckExists, WriteFirstMetadata, write_metadata,
         FirstPointerUnanswered, AbortCreate, vars, storeVars
    <2>3. metas'[current.metadata_path] = metas[current.metadata_path]
      BY <1>0, <2>2
    <2> QED
      BY <2>1, <2>3 DEF LiveManifestLists, LiveColumns, CurrentExists
  <1> QED
    BY <1>1, <1>2

(***************************************************************************)
(* Whoever creates the table again, late or at the same time, and for      *)
(* whichever columns: a table is only ever replaced by an empty one of     *)
(* create-table, and no commit that was computed from a replaced table     *)
(* comes through (cas.rs, the ETag of the snapshot that was read).         *)
(***************************************************************************)
THEOREM ReplacedTablesStayReplaced ==
  ASSUME StoreKind = "conditional" PROVE LifecycleSpec => OnlyCreationReplaces
  <1> DEFINE Inv == TypeInv /\ CreatorTypes /\ CreationInv
             Kept == CurrentExists =>
                       \/ LiveManifestLists' = <<>>
                       \/ /\ IsPrefix(LiveManifestLists, LiveManifestLists')
                          /\ LiveColumns' = LiveColumns
  <1>1. Inv /\ [LifecycleNext]_lifecycleVars => [Kept]_lifecycleVars
    <2> SUFFICES ASSUME Inv, [LifecycleNext]_lifecycleVars, CurrentExists,
                        LiveManifestLists' # <<>>
                 PROVE  /\ IsPrefix(LiveManifestLists, LiveManifestLists')
                        /\ LiveColumns' = LiveColumns
      OBVIOUS
    <2>0. current.metadata_path \in 1..Len(metas) /\ LiveManifestLists \in Seq(Run)
      BY StoreTypes, LiveTypes DEF CurrentExists
    <2>1. CASE current' = current /\ \A m \in 1..Len(metas) : metas'[m] = metas[m]
      <3>1. LiveManifestLists' = LiveManifestLists /\ LiveColumns' = LiveColumns
        BY <2>0, <2>1 DEF LiveManifestLists, LiveColumns, CurrentExists
      <3> QED
        BY <2>0, <3>1, PrefixOfAppend
    <2>2. ASSUME metas' = metas, NEW n \in 1..Len(metas), PutCurrent(n),
                 Follows(n, current.metadata_path)
          PROVE  /\ IsPrefix(LiveManifestLists, LiveManifestLists')
                 /\ LiveColumns' = LiveColumns
      <3>1. PICK ml \in Run : LiveManifestLists' = Append(LiveManifestLists, ml)
        BY <2>2, CommitPoint
      <3>2. metas'[n].indexed_columns = metas[current.metadata_path].indexed_columns
        BY <2>2, CommitPoint
      <3>3. current'.metadata_path = n /\ n # 0
        BY <2>2, StoreTypes DEF PutCurrent
      <3> QED
        BY <2>0, <3>1, <3>2, <3>3, PrefixOfAppend DEF LiveColumns, CurrentExists
    <2>3. ASSUME metas' = metas, NEW r \in inflight, IsEmpty(r.metadata_path),
                 PutCurrent(r.metadata_path)
          PROVE  FALSE
      <3>1. current'.metadata_path = r.metadata_path
        BY <2>3 DEF PutCurrent
      <3> QED
        BY <2>3, <3>1 DEF IsEmpty, LiveManifestLists
    <2>4. CASE [Next]_vars
      <3>1. Moved
        BY <2>4, Moves DEF CreationInv
      <3> QED
        BY <2>1, <2>2, <2>3, <3>1 DEF Moved
    <2>5. CASE \E c \in Creators : CreatorStep(c)
      <3>1. LiveManifestLists' = LiveManifestLists /\ LiveColumns' = LiveColumns
        BY <2>5, CreatorReplaces
      <3> QED
        BY <2>0, <3>1, PrefixOfAppend
    <2> QED
      BY <2>4, <2>5 DEF LifecycleNext, CreatorStep, lifecycleVars
  <1> HIDE DEF Inv, Kept
  <1>2. LifecycleSpec => []Inv
    BY CreationInvariant DEF Inv
  <1>3. [][Kept]_lifecycleVars <=> OnlyCreationReplaces
    BY DEF Kept, OnlyCreationReplaces
  <1> QED
    BY <1>1, <1>2, <1>3, PTL DEF LifecycleSpec

(***************************************************************************)
(* A worker gives up only when at least MAX_RETRIES versions of            *)
(* current.json were written during its run, by commits or by              *)
(* create-table.                                                           *)
(***************************************************************************)
THEOREM BailOutsAfterCreation ==
  ASSUME StoreKind = "conditional" PROVE LifecycleSpec => []BailOnlyUnderContention
  <1> DEFINE Inv == \A w \in Workers : Overtaken(w)
  <1>1. LifecycleInit => Inv
    BY DEF LifecycleInit, Init, Overtaken, Uploading
  <1>2. TypeInv /\ CreationInv /\ Inv /\ [LifecycleNext]_lifecycleVars => Inv'
    <2> SUFFICES ASSUME TypeInv, CreationInv, Inv, [LifecycleNext]_lifecycleVars
                 PROVE  Inv'
      OBVIOUS
    <2>1. CASE [Next]_vars
      BY <2>1, OvertakenNext DEF CreationInv
    <2>2. ASSUME NEW c \in Creators, CreatorStep(c) PROVE Inv'
      <3>1. /\ UNCHANGED workerVars
            /\ current' = current \/ current'.e_tag = current.e_tag + 1
        BY <2>2 DEF CreatorStep, CheckExists, WriteFirstMetadata, WriteFirstPointer,
           FirstPointerUnanswered, AbortCreate, PutCurrent, vars, storeVars
      <3>2. /\ current.e_tag \in Nat /\ current'.e_tag \in Nat
            /\ current'.e_tag >= current.e_tag
        BY <3>1, StoreTypes
      <3>3. ASSUME NEW w \in Workers PROVE Overtaken(w)'
        <4>1. attempt[w] \in Nat /\ start[w] \in Nat /\ MAX_RETRIES \in Nat
          BY CommitAssumption DEF TypeInv, TypeOK
        <4> QED
          BY <3>1, <3>2, <4>1 DEF Overtaken, workerVars
      <3> QED
        BY <3>3
    <2> QED
      BY <2>1, <2>2 DEF LifecycleNext, CreatorStep, lifecycleVars
  <1>3. Inv => BailOnlyUnderContention
    BY DEF Overtaken, BailOnlyUnderContention
  <1> HIDE DEF Inv
  <1> QED
    BY <1>1, <1>2, <1>3, CreationInvariant, PTL DEF LifecycleSpec
=============================================================================
