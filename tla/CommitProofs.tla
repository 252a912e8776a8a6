---------------------------- MODULE CommitProofs ----------------------------
(***************************************************************************)
(* Proofs about Commit, for any number of workers, any jobs, any number of *)
(* attempts and invocations.                                               *)
(***************************************************************************)
EXTENDS Commit, SequenceTheorems, TLAPS

(***************************************************************************)
(* What a running worker holds: it found a table, it has the name of the   *)
(* metadata it last read, an attempt left, and, at the PUT, a new metadata *)
(* file.                                                                   *)
(***************************************************************************)
HoldsOK(w) ==
  pc[w] \notin Stopped =>
    /\ CurrentExists
    /\ latest[w] # 0
    /\ attempt[w] < MAX_RETRIES
    /\ pc[w] = "put" => new[w] # 0

TypeInv == TypeOK /\ \A w \in Workers : HoldsOK(w)

LEMMA ExtendedMetadata ==
  ASSUME NEW m \in Metadata, NEW ml \in Run
  PROVE  LET n == [m EXCEPT !.manifest_lists = Append(@, ml)]
         IN  /\ n \in Metadata
             /\ n.indexed_columns = m.indexed_columns
             /\ n.manifest_lists = Append(m.manifest_lists, ml)
  BY DEF Metadata

(***************************************************************************)
(* Type correctness of the protocol, on every kind of store.               *)
(***************************************************************************)
LEMMA TypeInit == Init => TypeInv
  <1> SUFFICES ASSUME Init PROVE TypeInv
    OBVIOUS
  <1> USE CommitAssumption
  <1>1. StoreTypeOK
    <2>1. CASE current = NoTable /\ metas = <<>>
      BY <2>1 DEF Init, StoreTypeOK, NoTable, NoTag, CurrentExists
    <2>2. CASE /\ current = [metadata_path |-> 1, e_tag |-> 1]
               /\ metas = <<[indexed_columns |-> InitialColumns,
                             manifest_lists |-> <<>>]>>
      <3>1. metas \in Seq(Metadata) /\ Len(metas) = 1
        BY <2>2 DEF Metadata
      <3> QED
        BY <2>2, <3>1 DEF Init, StoreTypeOK, NoTag, CurrentExists
    <2> QED
      BY <2>1, <2>2 DEF Init
  <1> QED
    BY <1>1 DEF Init, TypeInv, TypeOK, HoldsOK, StoreTypeOK, States, Stopped,
                Committing, NoTag

(***************************************************************************)
(* A step of worker w keeps TypeInv if it keeps the store's types and what *)
(* it leaves in w's own variables is right.                                *)
(***************************************************************************)
OwnStep(w) ==
  /\ pc' = [pc EXCEPT ![w] = pc'[w]]
  /\ run' = [run EXCEPT ![w] = run'[w]]
  /\ etag' = [etag EXCEPT ![w] = etag'[w]]
  /\ latest' = [latest EXCEPT ![w] = latest'[w]]
  /\ new' = [new EXCEPT ![w] = new'[w]]
  /\ attempt' = [attempt EXCEPT ![w] = attempt'[w]]
  /\ start' = [start EXCEPT ![w] = start'[w]]

OwnTypes(w) ==
  /\ pc[w] \in States
  /\ run[w] \in 0..MaxRuns
  /\ etag[w] \in Nat
  /\ latest[w] \in 0..Len(metas)
  /\ new[w] \in 0..Len(metas)
  /\ attempt[w] \in 0..MAX_RETRIES
  /\ start[w] \in Nat

LEMMA WorkerStep ==
  ASSUME TypeInv, StoreTypeOK', Len(metas') >= Len(metas),
         CurrentExists => CurrentExists',
         NEW w \in Workers, OwnStep(w), OwnTypes(w)', HoldsOK(w)'
  PROVE  TypeInv'
  <1> USE DEF OwnStep, OwnTypes
  <1>1. 0..Len(metas) \subseteq 0..Len(metas')
    BY DEF TypeInv, TypeOK, StoreTypeOK
  <1>2. pc' \in [Workers -> States] /\ run' \in [Workers -> 0..MaxRuns]
    BY DEF TypeInv, TypeOK
  <1>3. etag' \in [Workers -> Nat] /\ start' \in [Workers -> Nat]
    BY DEF TypeInv, TypeOK
  <1>4. /\ latest' \in [Workers -> 0..Len(metas')]
        /\ new' \in [Workers -> 0..Len(metas')]
    <2>1. /\ latest \in [Workers -> 0..Len(metas')]
          /\ new \in [Workers -> 0..Len(metas')]
      BY <1>1 DEF TypeInv, TypeOK
    <2> QED
      BY <2>1
  <1>5. attempt' \in [Workers -> 0..MAX_RETRIES]
    BY DEF TypeInv, TypeOK
  <1>6. ASSUME NEW v \in Workers PROVE HoldsOK(v)'
    <2>1. CASE v # w
      <3>1. /\ pc'[v] = pc[v]
            /\ latest'[v] = latest[v]
            /\ new'[v] = new[v]
            /\ attempt'[v] = attempt[v]
        BY <2>1 DEF TypeInv, TypeOK
      <3> QED
        BY <3>1 DEF HoldsOK, TypeInv, CurrentExists
    <2> QED
      BY <2>1
  <1>7. ASSUME NEW v \in Workers, (pc[v] \in Committing)'
        PROVE  (attempt[v] < MAX_RETRIES)'
    BY <1>6, <1>7 DEF HoldsOK, Committing, Stopped
  <1> QED
    BY <1>2, <1>3, <1>4, <1>5, <1>6, <1>7 DEF TypeInv, TypeOK

LEMMA TypeNext == TypeInv /\ [Next]_vars => TypeInv'
  <1> SUFFICES ASSUME TypeInv, [Next]_vars PROVE TypeInv'
    OBVIOUS
  <1> USE CommitAssumption DEF Goto
  <1>0. /\ current.e_tag \in Nat
        /\ current.metadata_path \in 0..Len(metas)
        /\ Len(metas) \in Nat
        /\ ReadTag \in Nat
    BY DEF TypeInv, TypeOK, StoreTypeOK, ReadTag, NoTag
  <1>1. ASSUME NEW w \in Workers
        PROVE  OwnTypes(w) /\ HoldsOK(w) /\ ThisRun(w) \in Run
    BY DEF TypeInv, TypeOK, OwnTypes, ThisRun, Run
  <1>2. ASSUME NEW w \in Workers, Begin(w) PROVE TypeInv'
    <2>1. /\ StoreTypeOK'
          /\ metas' = metas
          /\ CurrentExists' = CurrentExists
      BY <1>2 DEF Begin, storeVars, TypeInv, TypeOK, StoreTypeOK, CurrentExists
    <2>2. OwnStep(w)
      BY <1>2 DEF Begin, OwnStep, TypeInv, TypeOK
    <2>3. OwnTypes(w)'
      <3>1. /\ run'[w] \in 0..MaxRuns /\ new'[w] = new[w]
            /\ (attempt'[w] = attempt[w] \/ attempt'[w] = 0)
        BY <1>1, <1>2 DEF Begin, OwnTypes, TypeInv, TypeOK
      <3>2. pc'[w] \in {"failed", "ok", "segment"}
        BY <1>2 DEF Begin, TypeInv, TypeOK
      <3>3. /\ etag'[w] \in {etag[w], ReadTag} /\ latest'[w] \in {latest[w], current.metadata_path}
            /\ start'[w] \in {start[w], current.e_tag}
        BY <1>2 DEF Begin, TypeInv, TypeOK
      <3> QED
        <4>1. pc'[w] \in States
          BY <3>2 DEF States, Stopped, Uploading
        <4>2. etag'[w] \in Nat /\ start'[w] \in Nat
          BY <1>0, <1>1, <3>3 DEF OwnTypes
        <4>3. latest'[w] \in 0..Len(metas') /\ new'[w] \in 0..Len(metas')
          BY <1>0, <1>1, <2>1, <3>1, <3>3 DEF OwnTypes
        <4>4. attempt'[w] \in 0..MAX_RETRIES
          <5>1. 0 \in 0..MAX_RETRIES
            OBVIOUS
          <5> QED
            BY <1>1, <3>1, <5>1 DEF OwnTypes
        <4> QED
          BY <3>1, <4>1, <4>2, <4>3, <4>4 DEF OwnTypes
    <2>4. HoldsOK(w)'
      BY <1>0, <1>2, <2>1 DEF Begin, HoldsOK, CanIndex, CurrentExists, Stopped,
         TypeInv, TypeOK
    <2> QED
      BY <1>0, <2>1, <2>2, <2>3, <2>4, WorkerStep
  <1>3. ASSUME NEW w \in Workers, Upload(w) PROVE TypeInv'
    <2>1. /\ StoreTypeOK'
          /\ metas' = metas
          /\ CurrentExists' = CurrentExists
      BY <1>1, <1>3 DEF Upload, PutObject, TypeInv, TypeOK, StoreTypeOK,
                        CurrentExists, Object, Kinds, Uploading
    <2>2. OwnStep(w)
      BY <1>3 DEF Upload, OwnStep, TypeInv, TypeOK
    <2>3. /\ pc'[w] \in {"manifest", "manifest_list", "metadata"}
          /\ pc[w] \notin Stopped
      BY <1>3 DEF Upload, NextUpload, Uploading, Stopped, TypeInv, TypeOK
    <2>4. OwnTypes(w)' /\ HoldsOK(w)'
      BY <1>1, <1>3, <2>1, <2>3 DEF Upload, OwnTypes, HoldsOK, States,
         Uploading, Committing
    <2> QED
      BY <1>0, <2>1, <2>2, <2>4, WorkerStep
  <1>4. ASSUME NEW w \in Workers, WriteMetadata(w) PROVE TypeInv'
    <2>1. /\ latest[w] \in 1..Len(metas)
          /\ CurrentExists
          /\ attempt[w] < MAX_RETRIES
      BY <1>0, <1>1, <1>4 DEF WriteMetadata, HoldsOK, OwnTypes, Stopped
    <2>2. build_new_metadata(w) \in Metadata
      <3>1. metas[latest[w]] \in Metadata
        BY <2>1 DEF TypeInv, TypeOK, StoreTypeOK
      <3> QED
        BY <1>1, <3>1, ExtendedMetadata DEF build_new_metadata
    <2>3. metas' \in Seq(Metadata) /\ Len(metas') = Len(metas) + 1
      BY <1>4, <2>2 DEF WriteMetadata, write_metadata, TypeInv, TypeOK, StoreTypeOK
    <2>4. StoreTypeOK' /\ CurrentExists' = CurrentExists
      BY <1>0, <1>4, <2>3 DEF WriteMetadata, TypeInv, TypeOK, StoreTypeOK,
                              CurrentExists
    <2>5. OwnStep(w)
      BY <1>4 DEF WriteMetadata, OwnStep, TypeInv, TypeOK
    <2>6. pc'[w] = "put" /\ new'[w] = Len(metas) + 1
      BY <1>4 DEF WriteMetadata, TypeInv, TypeOK
    <2>7. OwnTypes(w)' /\ HoldsOK(w)'
      BY <1>0, <1>1, <1>4, <2>1, <2>3, <2>4, <2>6
         DEF WriteMetadata, OwnTypes, HoldsOK, States, Committing
    <2> QED
      BY <1>0, <2>3, <2>4, <2>5, <2>7, WorkerStep
  <1>5. ASSUME NEW w \in Workers, PutApplied(w) PROVE TypeInv'
    <2>1. new[w] \in 1..Len(metas) /\ CurrentExists
      BY <1>0, <1>1, <1>5 DEF PutApplied, HoldsOK, OwnTypes, Stopped
    <2>2. /\ StoreTypeOK'
          /\ metas' = metas
          /\ CurrentExists'
      BY <1>0, <1>5, <2>1 DEF PutApplied, PutCurrent, TypeInv, TypeOK,
                              StoreTypeOK, CurrentExists, NoTag
    <2>3. OwnStep(w)
      BY <1>5 DEF PutApplied, OwnStep, TypeInv, TypeOK
    <2>4. pc'[w] \in {"ok", "failed"}
      BY <1>5 DEF PutApplied, TypeInv, TypeOK
    <2>5. OwnTypes(w)' /\ HoldsOK(w)'
      BY <1>1, <1>5, <2>2, <2>4 DEF PutApplied, OwnTypes, HoldsOK, States, Stopped
    <2> QED
      BY <1>0, <2>2, <2>3, <2>5, WorkerStep
  <1>6. ASSUME NEW w \in Workers, PutRefused(w) \/ Abort(w) PROVE TypeInv'
    <2>1. /\ StoreTypeOK'
          /\ metas' = metas
          /\ CurrentExists' = CurrentExists
      BY <1>6 DEF PutRefused, Abort, storeVars, TypeInv, TypeOK, StoreTypeOK,
                  CurrentExists
    <2>2. OwnStep(w)
      BY <1>6 DEF PutRefused, Abort, OwnStep, TypeInv, TypeOK
    <2>3. pc'[w] \in {"conflict", "failed"} /\ pc[w] \notin Stopped
      BY <1>6 DEF PutRefused, Abort, Stopped, TypeInv, TypeOK
    <2>4. OwnTypes(w)' /\ HoldsOK(w)'
      BY <1>1, <1>6, <2>1, <2>3 DEF PutRefused, Abort, OwnTypes, HoldsOK, States,
         Stopped, Committing
    <2> QED
      BY <1>0, <2>1, <2>2, <2>4, WorkerStep
  <1>7. ASSUME NEW w \in Workers, PutUnanswered(w) PROVE TypeInv'
    <2>1. new[w] \in 1..Len(metas) /\ CurrentExists
      BY <1>0, <1>1, <1>7 DEF PutUnanswered, HoldsOK, OwnTypes, Stopped
    <2>2. [tag |-> etag[w], metadata_path |-> new[w]]
            \in [tag : Nat, metadata_path : 1..Len(metas)]
      BY <1>1, <2>1 DEF OwnTypes
    <2>3. /\ StoreTypeOK'
          /\ metas' = metas
          /\ CurrentExists' = CurrentExists
      BY <1>7, <2>2 DEF PutUnanswered, LeaveInFlight, TypeInv, TypeOK,
                        StoreTypeOK, CurrentExists
    <2>4. OwnStep(w)
      BY <1>7 DEF PutUnanswered, OwnStep, TypeInv, TypeOK
    <2>5. pc'[w] \in {"put", "failed"} /\ pc[w] = "put"
      BY <1>7 DEF PutUnanswered, TypeInv, TypeOK
    <2>6. OwnTypes(w)' /\ HoldsOK(w)'
      BY <1>1, <1>7, <2>3, <2>5 DEF PutUnanswered, OwnTypes, HoldsOK, States,
         Stopped, Committing
    <2> QED
      BY <1>0, <2>3, <2>4, <2>6, WorkerStep
  <1>8. ASSUME NEW w \in Workers, Rebase(w) PROVE TypeInv'
    <2>1. /\ StoreTypeOK'
          /\ metas' = metas
          /\ CurrentExists' = CurrentExists
      BY <1>8 DEF Rebase, storeVars, TypeInv, TypeOK, StoreTypeOK, CurrentExists
    <2>2. /\ CurrentExists /\ current.metadata_path # 0
          /\ attempt[w] < MAX_RETRIES
      BY <1>1, <1>8 DEF Rebase, HoldsOK, CurrentExists, Stopped
    <2>3. OwnStep(w)
      BY <1>8 DEF Rebase, OwnStep, TypeInv, TypeOK
    <2>4. /\ etag'[w] = ReadTag
          /\ latest'[w] = current.metadata_path
          /\ UNCHANGED <<run, new, start>>
      BY <1>8 DEF Rebase, TypeInv, TypeOK
    <2>5. \/ pc'[w] = "ok" /\ attempt'[w] = attempt[w]
          \/ /\ pc'[w] = "metadata"
             /\ attempt'[w] = attempt[w] + 1 /\ attempt[w] + 1 < MAX_RETRIES
          \/ /\ pc'[w] = "bailed"
             /\ attempt'[w] = attempt[w] + 1 /\ attempt[w] + 1 = MAX_RETRIES
      BY <1>8 DEF Rebase, TypeInv, TypeOK
    <2>6. OwnTypes(w)'
      BY <1>0, <1>1, <2>1, <2>4, <2>5 DEF OwnTypes, States, Stopped, Committing
    <2>7. HoldsOK(w)'
      BY <2>1, <2>2, <2>4, <2>5 DEF HoldsOK, Stopped
    <2> QED
      BY <1>0, <2>1, <2>3, <2>6, <2>7, WorkerStep
  <1>9. ASSUME StoreDelivers PROVE TypeInv'
    <2>1. PICK request \in inflight : Deliver(request)
      BY <1>9 DEF StoreDelivers
    <2>2. request.metadata_path \in 1..Len(metas) /\ request.tag \in Nat
      BY DEF TypeInv, TypeOK, StoreTypeOK
    <2>3. StoreTypeOK' /\ metas' = metas /\ (CurrentExists => CurrentExists')
      BY <1>0, <2>1, <2>2 DEF Deliver, PutCurrent, TypeInv, TypeOK, StoreTypeOK,
                              CurrentExists, NoTag
    <2>4. UNCHANGED workerVars
      BY <1>9 DEF StoreDelivers
    <2> QED
      BY <2>3, <2>4 DEF workerVars, TypeInv, TypeOK, HoldsOK
  <1>10. CASE UNCHANGED vars
    BY <1>10 DEF vars, workerVars, storeVars, TypeInv, TypeOK, HoldsOK,
                 StoreTypeOK, CurrentExists
  <1> QED
    BY <1>2, <1>3, <1>4, <1>5, <1>6, <1>7, <1>8, <1>9, <1>10
       DEF Next, Advance

\* The variables of the protocol keep their types, on every kind of store.
THEOREM TypeCorrect == Spec => []TypeOK
  <1>1. TypeInv => TypeOK
    BY DEF TypeInv
  <1> QED
    BY <1>1, TypeInit, TypeNext, PTL DEF Spec
-----------------------------------------------------------------------------
(***************************************************************************)
(* Nothing in the store refers to an object that is not there: a run has   *)
(* uploaded all its objects before it writes metadata that names it.       *)
(***************************************************************************)
UploadedBefore(state) ==
  CASE state = "manifest" -> {"segment"}
    [] state = "manifest_list" -> {"segment", "manifest"}
    [] state \in Committing -> Kinds
    [] OTHER -> {}

UploadInv ==
  /\ NoDanglingReference
  /\ \A w \in Workers : \A k \in UploadedBefore(pc[w]) :
       [kind |-> k, run |-> ThisRun(w)] \in objects

LEMMA UploadNext == TypeInv /\ UploadInv /\ [Next]_vars => UploadInv'
  <1> SUFFICES ASSUME TypeInv, UploadInv, [Next]_vars PROVE UploadInv'
    OBVIOUS
  <1> USE DEF Goto
  <1>1. ASSUME metas' = metas, objects \subseteq objects' PROVE NoDanglingReference'
    BY <1>1 DEF UploadInv, NoDanglingReference, ManifestListsIn
  <1>2. ASSUME NEW w \in Workers, objects \subseteq objects',
               \A v \in Workers : v # w => pc'[v] = pc[v] /\ run'[v] = run[v],
               \A k \in UploadedBefore(pc'[w]) :
                 [kind |-> k, run |-> ThisRun(w)'] \in objects'
        PROVE  \A v \in Workers : \A k \in UploadedBefore(pc'[v]) :
                 [kind |-> k, run |-> ThisRun(v)'] \in objects'
    <2> SUFFICES ASSUME NEW v \in Workers, v # w
                 PROVE  \A k \in UploadedBefore(pc'[v]) :
                          [kind |-> k, run |-> ThisRun(v)'] \in objects'
      BY <1>2
    <2>1. pc'[v] = pc[v] /\ ThisRun(v)' = ThisRun(v)
      BY <1>2 DEF ThisRun
    <2> QED
      BY <1>2, <2>1 DEF UploadInv
  <1>3. ASSUME NEW w \in Workers, Begin(w) PROVE UploadInv'
    <2>1. /\ UNCHANGED <<metas, objects>>
          /\ \A v \in Workers : v # w => pc'[v] = pc[v] /\ run'[v] = run[v]
          /\ pc'[w] \in {"failed", "ok", "segment"}
      BY <1>3 DEF Begin, storeVars, TypeInv, TypeOK
    <2>2. UploadedBefore(pc'[w]) = {}
      BY <2>1 DEF UploadedBefore, Committing
    <2> QED
      BY <1>1, <1>2, <2>1, <2>2 DEF UploadInv
  <1>4. ASSUME NEW w \in Workers, Upload(w) PROVE UploadInv'
    <2>1. /\ UNCHANGED <<metas, run>> /\ ThisRun(w)' = ThisRun(w)
          /\ objects' = objects \cup {[kind |-> pc[w], run |-> ThisRun(w)]}
          /\ pc[w] \in Uploading /\ pc'[w] = NextUpload(pc[w])
          /\ \A v \in Workers : v # w => pc'[v] = pc[v]
      BY <1>4 DEF Upload, PutObject, TypeInv, TypeOK, ThisRun
    <2>2. \A k \in UploadedBefore(pc'[w]) : k \in UploadedBefore(pc[w]) \/ k = pc[w]
      BY <2>1 DEF Uploading, NextUpload, UploadedBefore, Committing, Kinds
    <2>3. \A k \in UploadedBefore(pc'[w]) :
            [kind |-> k, run |-> ThisRun(w)'] \in objects'
      BY <2>1, <2>2 DEF UploadInv
    <2> QED
      BY <1>1, <1>2, <2>1, <2>3 DEF UploadInv
  <1>5. ASSUME NEW w \in Workers, WriteMetadata(w) PROVE UploadInv'
    <2>1. /\ UNCHANGED <<objects, run>> /\ ThisRun(w)' = ThisRun(w)
          /\ metas' = Append(metas, build_new_metadata(w))
          /\ pc[w] = "metadata" /\ pc'[w] = "put"
          /\ \A v \in Workers : v # w => pc'[v] = pc[v]
      BY <1>5 DEF WriteMetadata, write_metadata, TypeInv, TypeOK, ThisRun
    <2>2. \A k \in Kinds : [kind |-> k, run |-> ThisRun(w)] \in objects
      BY <2>1 DEF UploadInv, UploadedBefore, Committing
    <2>3. /\ metas \in Seq(Metadata)
          /\ latest[w] \in 1..Len(metas)
          /\ ThisRun(w) \in Run
      <3>1. HoldsOK(w)
        BY DEF TypeInv
      <3> QED
        BY <2>1, <3>1 DEF TypeInv, TypeOK, StoreTypeOK, HoldsOK, ThisRun, Run, Stopped
    <2>4. metas[latest[w]] \in Metadata
      BY <2>3
    <2>5. build_new_metadata(w).manifest_lists
            = Append(metas[latest[w]].manifest_lists, ThisRun(w))
      BY <2>3, <2>4, ExtendedMetadata DEF build_new_metadata
    <2>6. ToSet(build_new_metadata(w).manifest_lists)
            \subseteq ManifestListsIn(latest[w]) \cup {ThisRun(w)}
      <3>1. metas[latest[w]].manifest_lists \in Seq(Run)
        BY <2>4 DEF Metadata
      <3> QED
        BY <2>3, <2>5, <3>1 DEF ToSet, ManifestListsIn
    <2>7. ASSUME NEW m \in DOMAIN metas', NEW ml \in ManifestListsIn(m)', NEW k \in Kinds
          PROVE  [kind |-> k, run |-> ml] \in objects'
      <3>1. CASE m \in DOMAIN metas
        <4>1. metas'[m] = metas[m]
          BY <2>1, <2>3, <3>1
        <4> QED
          BY <2>1, <2>7, <3>1, <4>1 DEF UploadInv, NoDanglingReference, ManifestListsIn
      <3>2. CASE m \notin DOMAIN metas
        <4>1. metas'[m] = build_new_metadata(w)
          BY <2>1, <2>3, <3>2
        <4>2. ml \in ManifestListsIn(latest[w]) \cup {ThisRun(w)}
          BY <2>6, <2>7, <4>1 DEF ManifestListsIn
        <4>3. latest[w] \in DOMAIN metas
          BY <2>3
        <4> QED
          BY <2>1, <2>2, <4>2, <4>3 DEF UploadInv, NoDanglingReference
      <3> QED
        BY <3>1, <3>2
    <2>8. NoDanglingReference'
      BY <2>7 DEF NoDanglingReference
    <2>9. \A k \in UploadedBefore(pc'[w]) :
            [kind |-> k, run |-> ThisRun(w)'] \in objects'
      BY <2>1, <2>2 DEF UploadedBefore, Committing
    <2> QED
      BY <1>2, <2>1, <2>8, <2>9 DEF UploadInv
  <1>6. ASSUME NEW w \in Workers, \/ PutApplied(w) \/ PutRefused(w)
                                  \/ PutUnanswered(w) \/ Rebase(w) \/ Abort(w)
        PROVE  UploadInv'
    <2>1. /\ UNCHANGED <<metas, objects, run>> /\ ThisRun(w)' = ThisRun(w)
          /\ \A v \in Workers : v # w => pc'[v] = pc[v]
          /\ \/ pc'[w] \in Stopped
             \/ pc'[w] \in Committing /\ pc[w] \in Committing
      BY <1>6 DEF PutApplied, PutRefused, PutUnanswered, Rebase, Abort, storeVars,
                  Stopped, Committing, TypeInv, TypeOK, ThisRun
    <2>2. \A k \in UploadedBefore(pc'[w]) : k \in UploadedBefore(pc[w])
      BY <2>1 DEF UploadedBefore, Stopped, Committing
    <2>3. \A k \in UploadedBefore(pc'[w]) :
            [kind |-> k, run |-> ThisRun(w)'] \in objects'
      BY <2>1, <2>2 DEF UploadInv
    <2> QED
      BY <1>1, <1>2, <2>1, <2>3 DEF UploadInv
  <1>7. CASE StoreDelivers \/ UNCHANGED vars
    <2>1. UNCHANGED <<metas, objects, pc, run>>
      BY <1>7 DEF StoreDelivers, Deliver, vars, storeVars, workerVars
    <2> QED
      BY <1>1, <2>1 DEF UploadInv, ThisRun
  <1> QED
    BY <1>3, <1>4, <1>5, <1>6, <1>7 DEF Next, Advance

(***************************************************************************)
(* Whoever follows a current.json of any time finds every segment,         *)
(* manifest and manifest list it leads to, on every kind of store.         *)
(***************************************************************************)
THEOREM NothingDangles == Spec => []NoDanglingReference
  <1>1. Init => UploadInv
    <2> SUFFICES ASSUME Init PROVE UploadInv
      OBVIOUS
    <2>1. NoDanglingReference
      BY DEF Init, NoDanglingReference, ManifestListsIn, ToSet
    <2>2. \A w \in Workers : UploadedBefore(pc[w]) = {}
      BY DEF Init, UploadedBefore, Committing
    <2> QED
      BY <2>1, <2>2 DEF UploadInv
  <1>2. UploadInv => NoDanglingReference
    BY DEF UploadInv
  <1> QED
    BY <1>1, <1>2, TypeInit, TypeNext, UploadNext, PTL DEF Spec
-----------------------------------------------------------------------------
(***************************************************************************)
(* Why no commit is lost and no batch is committed twice, on a store whose *)
(* conditional PUT compares ETags.                                         *)
(*                                                                         *)
(* The inductive invariant ties every pending PUT to the snapshot it was   *)
(* computed from: as long as the ETag a worker (or a request under way)    *)
(* holds is still the current one, so is the metadata the worker extends,  *)
(* and its batch is not in there.  A request without an ETag is one of     *)
(* create-table (TableLifecycle) and names an empty table; Commit alone    *)
(* has none.                                                               *)
(***************************************************************************)

\* Metadata file n is file m with one more manifest list, of a new batch.
Follows(n, m) ==
  \E ml \in Run :
    /\ metas[n] = [metas[m] EXCEPT !.manifest_lists = Append(@, ml)]
    /\ ~is_batch_duplicate(m, BatchId(ml.worker))

NoDuplicateIn(m) ==
  \A i, j \in DOMAIN metas[m].manifest_lists :
    BatchId(metas[m].manifest_lists[i].worker)
      = BatchId(metas[m].manifest_lists[j].worker) => i = j

WorkerSound(w) ==
  pc[w] \notin Stopped =>
    /\ etag[w] \in 1..current.e_tag
    /\ etag[w] = current.e_tag => latest[w] = current.metadata_path
    /\ ~is_batch_duplicate(latest[w], BatchId(w))
    /\ pc[w] = "put" =>
         metas[new[w]] =
           [metas[latest[w]] EXCEPT !.manifest_lists = Append(@, ThisRun(w))]

IsEmpty(m) == metas[m].manifest_lists = <<>>

RequestSound(r) ==
  \/ r.tag = NoTag /\ IsEmpty(r.metadata_path)
  \/ /\ r.tag \in 1..current.e_tag
     /\ r.tag = current.e_tag => Follows(r.metadata_path, current.metadata_path)

OkSound(w) ==
  pc[w] = "ok" =>
    CurrentExists /\ is_batch_duplicate(current.metadata_path, BatchId(w))

PendingInv ==
  /\ \A m \in 1..Len(metas) : NoDuplicateIn(m)
  /\ \A w \in Workers : WorkerSound(w)
  /\ \A r \in inflight : RequestSound(r)

CASInv ==
  /\ PendingInv
  /\ \A r \in inflight : r.tag # NoTag
  /\ \A w \in Workers : OkSound(w)
-----------------------------------------------------------------------------
LEMMA StoreTypes ==
  ASSUME TypeInv
  PROVE  /\ Len(metas) \in Nat
         /\ current.e_tag \in Nat
         /\ current.metadata_path \in 0..Len(metas)
         /\ current.metadata_path # 0 <=> current.e_tag # 0
         /\ \A m \in 1..Len(metas) : /\ metas[m] \in Metadata
                                     /\ metas[m].manifest_lists \in Seq(Run)
         /\ \A r \in inflight : r.metadata_path \in 1..Len(metas)
  <1>1. metas \in Seq(Metadata)
    BY DEF TypeInv, TypeOK, StoreTypeOK
  <1>2. \A m \in 1..Len(metas) : metas[m] \in Metadata
    BY <1>1
  <1> QED
    BY <1>1, <1>2 DEF TypeInv, TypeOK, StoreTypeOK, CurrentExists, NoTag, Metadata

\* What is said of a metadata file stays true while the file stays the same.
LEMMA FileStable ==
  ASSUME NEW m, metas'[m] = metas[m]
  PROVE  /\ NoDuplicateIn(m) => NoDuplicateIn(m)'
         /\ \A b : is_batch_duplicate(m, b)' <=> is_batch_duplicate(m, b)
  BY DEF NoDuplicateIn, is_batch_duplicate, ManifestListsIn

LEMMA FollowsStable ==
  ASSUME NEW m, NEW n, metas'[m] = metas[m], metas'[n] = metas[n]
  PROVE  Follows(n, m) => Follows(n, m)'
  BY FileStable DEF Follows

\* A running worker's snapshot is a file of the store, and so is its new one.
LEMMA RunningTypes ==
  ASSUME TypeInv, NEW w \in Workers, pc[w] \notin Stopped
  PROVE  /\ latest[w] \in 1..Len(metas)
         /\ pc[w] = "put" => new[w] \in 1..Len(metas)
         /\ CurrentExists
  BY StoreTypes DEF TypeInv, TypeOK, HoldsOK

(***************************************************************************)
(* A step of worker w that does not move current.json.                     *)
(***************************************************************************)
LEMMA FrameStep ==
  ASSUME TypeInv, PendingInv, TypeInv',
         current' = current,
         Len(metas') >= Len(metas),
         \A m \in 1..Len(metas) : metas'[m] = metas[m],
         \A m \in 1..Len(metas') : m > Len(metas) => NoDuplicateIn(m)',
         \A r \in inflight' : r \notin inflight => RequestSound(r)',
         NEW w \in Workers, OwnStep(w), WorkerSound(w)'
  PROVE  PendingInv'
  <1>0. Len(metas) \in Nat /\ Len(metas') \in Nat
    BY DEF TypeInv, TypeOK, StoreTypeOK
  <1>1. ASSUME NEW m \in 1..Len(metas') PROVE NoDuplicateIn(m)'
    BY <1>0, FileStable DEF PendingInv
  <1>2. ASSUME NEW v \in Workers, v # w PROVE WorkerSound(v)'
    <2>1. /\ pc'[v] = pc[v] /\ etag'[v] = etag[v] /\ latest'[v] = latest[v]
          /\ new'[v] = new[v] /\ run'[v] = run[v]
      BY <1>2 DEF OwnStep, TypeInv, TypeOK
    <2> SUFFICES ASSUME pc[v] \notin Stopped PROVE WorkerSound(v)'
      BY <2>1 DEF WorkerSound
    <2>2. /\ metas'[latest[v]] = metas[latest[v]]
          /\ pc[v] = "put" => metas'[new[v]] = metas[new[v]]
      BY RunningTypes
    <2>3. WorkerSound(v)
      BY DEF PendingInv
    <2> QED
      BY <2>1, <2>2, <2>3, FileStable DEF WorkerSound, ThisRun
  <1>3. ASSUME NEW r \in inflight, r \in inflight' PROVE RequestSound(r)'
    <2>1. RequestSound(r) /\ metas'[r.metadata_path] = metas[r.metadata_path]
      BY StoreTypes DEF PendingInv
    <2>2. CASE r.tag = NoTag
      BY <2>1, <2>2 DEF RequestSound, NoTag, IsEmpty
    <2>3. CASE r.tag = current.e_tag /\ r.tag # NoTag
      <3>1. metas'[current.metadata_path] = metas[current.metadata_path]
        BY <2>3, StoreTypes DEF NoTag
      <3> QED
        BY <2>1, <2>3, <3>1, FollowsStable DEF RequestSound
    <2> QED
      BY <2>1, <2>2, <2>3 DEF RequestSound
  <1> QED
    BY <1>1, <1>2, <1>3 DEF PendingInv
(***************************************************************************)
(* The moment current.json is written, by whomever: every ETag held so far *)
(* is out of date, and nothing that is pending can go wrong any more.      *)
(***************************************************************************)
LEMMA Overwritten ==
  ASSUME TypeInv, PendingInv, metas' = metas, NEW n \in 1..Len(metas), PutCurrent(n)
  PROVE  /\ CurrentExists'
         /\ \A v \in Workers :
              pc'[v] = pc[v] /\ etag'[v] = etag[v] /\ latest'[v] = latest[v]
                /\ new'[v] = new[v] /\ run'[v] = run[v]
              => WorkerSound(v)'
         /\ \A r \in inflight : RequestSound(r)'
         /\ \A m \in 1..Len(metas') : NoDuplicateIn(m)'
  <1>1. /\ current'.metadata_path = n
        /\ current'.e_tag = current.e_tag + 1
        /\ n # 0
    BY StoreTypes DEF PutCurrent
  <1>2. ASSUME NEW v \in Workers,
               pc'[v] = pc[v], etag'[v] = etag[v], latest'[v] = latest[v],
               new'[v] = new[v], run'[v] = run[v]
        PROVE  WorkerSound(v)'
    <2>1. WorkerSound(v)
      BY DEF PendingInv
    <2>2. \A b : is_batch_duplicate(latest[v], b)' <=> is_batch_duplicate(latest[v], b)
      BY <1>2 DEF is_batch_duplicate, ManifestListsIn
    <2> QED
      BY <1>1, <1>2, <2>1, <2>2, StoreTypes DEF WorkerSound, ThisRun
  <1>3. ASSUME NEW r \in inflight PROVE RequestSound(r)'
    <2>1. RequestSound(r)
      BY DEF PendingInv
    <2> QED
      BY <1>1, <2>1, StoreTypes DEF RequestSound, IsEmpty
  <1>4. ASSUME NEW k \in 1..Len(metas') PROVE NoDuplicateIn(k)'
    BY FileStable DEF PendingInv
  <1> QED
    BY <1>1, <1>2, <1>3, <1>4 DEF CurrentExists

(***************************************************************************)
(* A commit: the snapshot has one more manifest list and keeps the rest.   *)
(***************************************************************************)
LEMMA CommitPoint ==
  ASSUME TypeInv, CurrentExists, metas' = metas,
         NEW n \in 1..Len(metas), PutCurrent(n),
         Follows(n, current.metadata_path)
  PROVE  /\ \E ml \in Run : LiveManifestLists' = Append(LiveManifestLists, ml)
         /\ metas'[n].indexed_columns = metas[current.metadata_path].indexed_columns
         /\ \A b : is_batch_duplicate(current.metadata_path, b)
                     => is_batch_duplicate(n, b)'
  <1> DEFINE m == current.metadata_path
  <1>1. /\ current'.metadata_path = n
        /\ n # 0 /\ m \in 1..Len(metas)
    BY StoreTypes DEF PutCurrent, CurrentExists
  <1>2. CurrentExists'
    BY <1>1 DEF CurrentExists
  <1>3. PICK ml \in Run :
          /\ metas[n] = [metas[m] EXCEPT !.manifest_lists = Append(@, ml)]
          /\ ~is_batch_duplicate(m, BatchId(ml.worker))
    BY DEF Follows
  <1>4. /\ metas[m].manifest_lists \in Seq(Run)
        /\ metas[n].manifest_lists = Append(metas[m].manifest_lists, ml)
        /\ metas[n].indexed_columns = metas[m].indexed_columns
    BY <1>1, <1>3, StoreTypes, ExtendedMetadata
  <1>5. LiveManifestLists' = Append(LiveManifestLists, ml)
    BY <1>1, <1>2, <1>4 DEF LiveManifestLists
  <1>6. ASSUME NEW b, is_batch_duplicate(m, b) PROVE is_batch_duplicate(n, b)'
    <2>1. PICK i \in DOMAIN metas[m].manifest_lists :
            BatchId(metas[m].manifest_lists[i].worker) = b
      BY <1>6 DEF is_batch_duplicate, ManifestListsIn, ToSet
    <2>2. /\ i \in DOMAIN metas[n].manifest_lists
          /\ metas[n].manifest_lists[i] = metas[m].manifest_lists[i]
      BY <1>4
    <2> QED
      BY <2>1, <2>2 DEF is_batch_duplicate, ManifestListsIn, ToSet
  <1> HIDE DEF m
  <1> QED
    BY <1>4, <1>5, <1>6 DEF m

\* A new file that extends a sound one by a batch it does not have is sound.
LEMMA ExtensionSound ==
  ASSUME TypeInv, NEW m \in 1..Len(metas), NoDuplicateIn(m), NEW ml \in Run,
         ~is_batch_duplicate(m, BatchId(ml.worker)),
         NEW k, metas'[k] = [metas[m] EXCEPT !.manifest_lists = Append(@, ml)]
  PROVE  NoDuplicateIn(k)'
  <1>1. /\ metas[m].manifest_lists \in Seq(Run)
        /\ metas'[k].manifest_lists = Append(metas[m].manifest_lists, ml)
    BY StoreTypes, ExtendedMetadata
  <1>2. \A i \in DOMAIN metas[m].manifest_lists :
          BatchId(metas[m].manifest_lists[i].worker) # BatchId(ml.worker)
    BY DEF is_batch_duplicate, ManifestListsIn, ToSet
  <1> DEFINE old == metas[m].manifest_lists
             longer == metas'[k].manifest_lists
  <1>3. /\ DOMAIN longer = 1..Len(old) + 1
        /\ DOMAIN old = 1..Len(old)
        /\ Len(old) \in Nat
        /\ \A i \in 1..Len(old) : longer[i] = old[i]
        /\ longer[Len(old) + 1] = ml
    BY <1>1
  <1>4. ASSUME NEW i \in DOMAIN longer, NEW j \in DOMAIN longer,
               BatchId(longer[i].worker) = BatchId(longer[j].worker)
        PROVE  i = j
    <2>1. CASE i = Len(old) + 1 /\ j # Len(old) + 1
      <3>1. j \in 1..Len(old)
        BY <1>3, <2>1
      <3> QED
        BY <1>2, <1>3, <1>4, <2>1, <3>1
    <2>2. CASE i # Len(old) + 1 /\ j = Len(old) + 1
      <3>1. i \in 1..Len(old)
        BY <1>3, <2>2
      <3> QED
        BY <1>2, <1>3, <1>4, <2>2, <3>1
    <2>3. CASE i # Len(old) + 1 /\ j # Len(old) + 1
      <3>1. i \in 1..Len(old) /\ j \in 1..Len(old)
        BY <1>3, <2>3
      <3> QED
        BY <1>3, <1>4, <3>1 DEF NoDuplicateIn
    <2> QED
      BY <2>1, <2>2, <2>3
  <1> QED
    BY <1>4 DEF NoDuplicateIn
\* A step that moves neither a worker nor current.json.
LEMMA IdleStep ==
  ASSUME PendingInv, UNCHANGED workerVars, metas' = metas, current' = current,
         inflight' \subseteq inflight
  PROVE  PendingInv'
  <1>1. \A m \in 1..Len(metas') : NoDuplicateIn(m)'
    BY DEF PendingInv, NoDuplicateIn
  <1>2. ASSUME NEW w \in Workers PROVE WorkerSound(w)'
    <2>1. WorkerSound(w)
      BY DEF PendingInv
    <2> QED
      BY <2>1 DEF workerVars, WorkerSound, is_batch_duplicate, ManifestListsIn, ThisRun
  <1>3. ASSUME NEW r \in inflight' PROVE RequestSound(r)'
    <2>1. RequestSound(r)
      BY DEF PendingInv
    <2> QED
      BY <2>1 DEF RequestSound, IsEmpty, Follows, is_batch_duplicate, ManifestListsIn
  <1> QED
    BY <1>1, <1>2, <1>3 DEF PendingInv
-----------------------------------------------------------------------------
LEMMA CASInit == Init => CASInv
  <1> SUFFICES ASSUME Init PROVE CASInv
    OBVIOUS
  <1>1. \A m \in 1..Len(metas) : NoDuplicateIn(m)
    <2>1. CASE metas = <<>>
      BY <2>1
    <2>2. CASE metas = <<[indexed_columns |-> InitialColumns,
                          manifest_lists |-> <<>>]>>
      BY <2>2 DEF NoDuplicateIn
    <2> QED
      BY <2>1, <2>2 DEF Init
  <1>2. ASSUME NEW w \in Workers PROVE WorkerSound(w) /\ OkSound(w)
    BY DEF Init, WorkerSound, OkSound, Stopped
  <1> QED
    BY <1>1, <1>2 DEF Init, CASInv, PendingInv

LEMMA PendingNext ==
  ASSUME StoreKind = "conditional", TypeInv, PendingInv, [Next]_vars
  PROVE  PendingInv'
  <1>0. TypeInv'
    BY TypeNext
  <1>1. Len(metas) \in Nat /\ Len(metas) >= Len(metas)
    BY StoreTypes
  <1>2. ASSUME NEW w \in Workers, Begin(w) PROVE PendingInv'
    <2>1. OwnStep(w) /\ UNCHANGED storeVars
      BY <1>2 DEF Begin, OwnStep, Goto, TypeInv, TypeOK
    <2>2. /\ pc'[w] \in {"failed", "ok", "segment"}
          /\ pc'[w] # "failed" => CanIndex(w)
          /\ pc'[w] = "ok" => AlreadyIndexed(w)
          /\ pc'[w] = "segment" =>
               /\ ~AlreadyIndexed(w)
               /\ etag'[w] = ReadTag
               /\ latest'[w] = current.metadata_path
      BY <1>2 DEF Begin, Goto, TypeInv, TypeOK
    <2>4. WorkerSound(w)'
      <3> SUFFICES ASSUME pc'[w] = "segment" PROVE WorkerSound(w)'
        BY <2>2 DEF WorkerSound, Stopped
      <3>1. etag'[w] = current.e_tag /\ current.e_tag \in 1..current.e_tag
        BY <2>2, StoreTypes DEF ReadTag, CanIndex, CurrentExists
      <3>2. ~is_batch_duplicate(latest[w], BatchId(w))'
        BY <2>1, <2>2 DEF AlreadyIndexed, is_batch_duplicate, ManifestListsIn, storeVars
      <3> QED
        BY <2>1, <2>2, <3>1, <3>2 DEF WorkerSound, storeVars
    <2> QED
      BY <1>0, <1>1, <2>1, <2>4, FrameStep DEF storeVars
  <1>3. ASSUME NEW w \in Workers, \/ Upload(w)
                                  \/ PutRefused(w)
                                  \/ Abort(w)
        PROVE  PendingInv'
    <2>1. /\ OwnStep(w) /\ UNCHANGED <<current, metas, inflight>>
          /\ UNCHANGED <<etag, latest, new, run>>
          /\ pc[w] \notin Stopped
          /\ pc'[w] \notin {"put", "ok"}
      BY <1>3 DEF Upload, PutRefused, Abort, OwnStep, Goto, NextUpload, Uploading,
                  Stopped, TypeInv, TypeOK, storeVars
    <2>2. WorkerSound(w)
      BY DEF PendingInv
    <2>3. WorkerSound(w)'
      BY <2>1, <2>2 DEF WorkerSound, is_batch_duplicate, ManifestListsIn
    <2> QED
      BY <1>0, <1>1, <2>1, <2>3, FrameStep
  <1>4. ASSUME NEW w \in Workers, WriteMetadata(w) PROVE PendingInv'
    <2>1. /\ OwnStep(w) /\ UNCHANGED <<current, inflight>>
          /\ UNCHANGED <<etag, latest, run>>
          /\ pc[w] \notin Stopped /\ pc'[w] = "put"
          /\ new'[w] = Len(metas) + 1
          /\ metas' = Append(metas, build_new_metadata(w))
      BY <1>4 DEF WriteMetadata, write_metadata, OwnStep, Goto, Stopped, TypeInv, TypeOK
    <2>2. /\ Len(metas') = Len(metas) + 1
          /\ \A m \in 1..Len(metas) : metas'[m] = metas[m]
          /\ metas'[Len(metas) + 1] = build_new_metadata(w)
      BY <2>1 DEF TypeInv, TypeOK, StoreTypeOK
    <2>3. latest[w] \in 1..Len(metas)
      BY <2>1, RunningTypes
    <2>4. WorkerSound(w) /\ NoDuplicateIn(latest[w])
      BY <2>3 DEF PendingInv
    <2>5. ThisRun(w) \in Run /\ ThisRun(w).worker = w
      BY DEF ThisRun, Run, TypeInv, TypeOK
    <2>6. ASSUME NEW k \in 1..Len(metas'), k > Len(metas)
          PROVE  NoDuplicateIn(k)'
      <3>1. PICK m \in 1..Len(metas) : m = latest[w]
        BY <2>3
      <3>2. k = Len(metas) + 1
        BY <1>1, <2>2, <2>6
      <3> QED
        BY <2>1, <2>2, <2>4, <2>5, <3>1, <3>2, ExtensionSound
           DEF build_new_metadata, WorkerSound
    <2>9. WorkerSound(w)'
      <3>1. metas'[latest[w]] = metas[latest[w]]
        BY <2>2, <2>3
      <3> QED
        BY <2>1, <2>2, <2>4, <3>1 DEF WorkerSound, is_batch_duplicate,
           ManifestListsIn, build_new_metadata, ThisRun
    <2> QED
      BY <1>0, <1>1, <2>1, <2>2, <2>6, <2>9, FrameStep
  <1>5. ASSUME NEW w \in Workers, PutUnanswered(w) PROVE PendingInv'
    <2>1. /\ OwnStep(w) /\ UNCHANGED <<current, metas>>
          /\ UNCHANGED <<etag, latest, new, run>>
          /\ pc[w] = "put" /\ pc'[w] \in {"put", "failed"}
          /\ inflight' =
               inflight \cup {[tag |-> etag[w], metadata_path |-> new[w]]}
      BY <1>5 DEF PutUnanswered, LeaveInFlight, OwnStep, Goto, TypeInv, TypeOK
    <2>2. WorkerSound(w)
      BY DEF PendingInv
    <2>3. WorkerSound(w)'
      BY <2>1, <2>2 DEF WorkerSound, is_batch_duplicate, ManifestListsIn,
         ThisRun, Stopped
    <2>4. ASSUME NEW r \in inflight', r \notin inflight PROVE RequestSound(r)'
      <3>1. r.tag = etag[w] /\ r.metadata_path = new[w]
        BY <2>1, <2>4
      <3>2. ThisRun(w) \in Run /\ ThisRun(w).worker = w
        BY DEF ThisRun, Run, TypeInv, TypeOK
      <3>3. Follows(new[w], latest[w])
        BY <2>1, <2>2, <3>2 DEF WorkerSound, Follows, Stopped
      <3>4. Follows(r.metadata_path, latest[w])'
        BY <2>1, <3>1, <3>3 DEF Follows, is_batch_duplicate, ManifestListsIn
      <3> QED
        BY <2>1, <2>2, <3>1, <3>4 DEF RequestSound, WorkerSound, Stopped, Follows,
           is_batch_duplicate, ManifestListsIn
    <2> QED
      BY <1>0, <1>1, <2>1, <2>3, <2>4, FrameStep
  <1>6. ASSUME NEW w \in Workers, Rebase(w) PROVE PendingInv'
    <2>1. /\ OwnStep(w) /\ UNCHANGED storeVars
          /\ etag'[w] = ReadTag /\ latest'[w] = current.metadata_path
          /\ pc'[w] \in {"ok", "metadata", "bailed"}
          /\ pc'[w] = "ok" => AlreadyIndexed(w)
          /\ pc'[w] = "metadata" => ~AlreadyIndexed(w)
          /\ pc[w] \notin Stopped
      BY <1>6 DEF Rebase, OwnStep, Goto, Stopped, TypeInv, TypeOK
    <2>2. CurrentExists
      BY <2>1, RunningTypes
    <2>4. WorkerSound(w)'
      <3>1. etag'[w] = current.e_tag /\ current.e_tag \in 1..current.e_tag
        BY <2>1, <2>2, StoreTypes DEF ReadTag, CurrentExists
      <3>2. pc'[w] = "metadata" => ~is_batch_duplicate(latest[w], BatchId(w))'
        BY <2>1 DEF AlreadyIndexed, is_batch_duplicate, ManifestListsIn, storeVars
      <3> QED
        BY <2>1, <3>1, <3>2 DEF WorkerSound, storeVars, Stopped
    <2> QED
      BY <1>0, <1>1, <2>1, <2>4, FrameStep DEF storeVars
  <1>7. ASSUME NEW w \in Workers, PutApplied(w) PROVE PendingInv'
    <2>1. /\ OwnStep(w) /\ UNCHANGED <<metas, inflight>> /\ PutCurrent(new[w])
          /\ pc[w] = "put" /\ pc'[w] \in {"ok", "failed"}
      BY <1>7 DEF PutApplied, OwnStep, Goto, TypeInv, TypeOK
    <2>2. PICK n \in 1..Len(metas) : n = new[w]
      BY <2>1, RunningTypes DEF Stopped
    <2>3. /\ \A v \in Workers :
               pc'[v] = pc[v] /\ etag'[v] = etag[v] /\ latest'[v] = latest[v]
                 /\ new'[v] = new[v] /\ run'[v] = run[v]
               => WorkerSound(v)'
          /\ \A r \in inflight : RequestSound(r)'
          /\ \A m \in 1..Len(metas') : NoDuplicateIn(m)'
      BY <2>1, <2>2, Overwritten
    <2>4. ASSUME NEW v \in Workers, v # w PROVE WorkerSound(v)'
      <3>1. /\ pc'[v] = pc[v] /\ etag'[v] = etag[v] /\ latest'[v] = latest[v]
            /\ new'[v] = new[v] /\ run'[v] = run[v]
        BY <2>1, <2>4 DEF OwnStep, TypeInv, TypeOK
      <3> QED
        BY <2>3, <3>1
    <2>5. WorkerSound(w)'
      BY <2>1 DEF WorkerSound, Stopped
    <2> QED
      BY <2>1, <2>3, <2>4, <2>5 DEF PendingInv
  <1>8. ASSUME StoreDelivers PROVE PendingInv'
    <2>1. PICK r \in inflight : Deliver(r)
      BY <1>8 DEF StoreDelivers
    <2>2. UNCHANGED workerVars /\ metas' = metas /\ inflight' \subseteq inflight
      BY <1>8, <2>1 DEF StoreDelivers, Deliver
    <2>3. CASE PutCurrent(r.metadata_path)
      <3>1. PICK n \in 1..Len(metas) : n = r.metadata_path
        BY StoreTypes
      <3>2. /\ \A v \in Workers :
                 pc'[v] = pc[v] /\ etag'[v] = etag[v] /\ latest'[v] = latest[v]
                   /\ new'[v] = new[v] /\ run'[v] = run[v]
                 => WorkerSound(v)'
            /\ \A q \in inflight : RequestSound(q)'
            /\ \A m \in 1..Len(metas') : NoDuplicateIn(m)'
        BY <2>2, <2>3, <3>1, Overwritten
      <3> QED
        BY <2>2, <3>2 DEF PendingInv, workerVars
    <2>4. CASE UNCHANGED current
      BY <2>2, <2>4, IdleStep
    <2> QED
      BY <2>1, <2>3, <2>4 DEF Deliver
  <1>9. CASE UNCHANGED vars
    BY <1>9, IdleStep DEF vars, storeVars
  <1> QED
    BY <1>2, <1>3, <1>4, <1>5, <1>6, <1>7, <1>8, <1>9 DEF Next, Advance

(***************************************************************************)
(* How current.json can move: not at all, to a snapshot with one more      *)
(* batch, or, if a create-table is about, to an empty table.               *)
(***************************************************************************)
Moved ==
  \/ current' = current /\ \A m \in 1..Len(metas) : metas'[m] = metas[m]
  \/ /\ CurrentExists /\ metas' = metas
     /\ \E n \in 1..Len(metas) : PutCurrent(n) /\ Follows(n, current.metadata_path)
  \/ /\ metas' = metas
     /\ \E r \in inflight : /\ r.tag = NoTag /\ IsEmpty(r.metadata_path)
                            /\ PutCurrent(r.metadata_path)

LEMMA Moves ==
  ASSUME StoreKind = "conditional", TypeInv, PendingInv, [Next]_vars
  PROVE  Moved
  <1>1. ASSUME NEW w \in Workers, \/ Begin(w) \/ Upload(w) \/ PutRefused(w)
                                  \/ PutUnanswered(w) \/ Rebase(w) \/ Abort(w)
        PROVE  current' = current /\ metas' = metas
    BY <1>1 DEF Begin, Upload, PutRefused, PutUnanswered, Rebase, Abort, storeVars
  <1>2. ASSUME NEW w \in Workers, WriteMetadata(w)
        PROVE  current' = current /\ \A m \in 1..Len(metas) : metas'[m] = metas[m]
    BY <1>2 DEF WriteMetadata, write_metadata, TypeInv, TypeOK, StoreTypeOK
  <1>3. ASSUME NEW w \in Workers, PutApplied(w) PROVE Moved
    <2>1. /\ metas' = metas /\ PutCurrent(new[w]) /\ PutAccepted(etag[w])
          /\ pc[w] = "put" /\ pc[w] \notin Stopped
      BY <1>3 DEF PutApplied, Stopped
    <2>2. WorkerSound(w)
      BY DEF PendingInv
    <2>3. ThisRun(w) \in Run /\ ThisRun(w).worker = w
      BY DEF ThisRun, Run, TypeInv, TypeOK
    <2>4. Follows(new[w], current.metadata_path)
      <3>1. etag[w] = current.e_tag /\ latest[w] = current.metadata_path
        BY <2>1, <2>2 DEF PutAccepted, WorkerSound, NoTag
      <3> QED
        BY <2>1, <2>2, <2>3, <3>1 DEF WorkerSound, Follows
    <2>5. CurrentExists /\ new[w] \in 1..Len(metas)
      BY <2>1, RunningTypes
    <2> QED
      BY <2>1, <2>4, <2>5 DEF Moved
  <1>4. ASSUME StoreDelivers PROVE Moved
    <2>1. PICK r \in inflight : Deliver(r)
      BY <1>4 DEF StoreDelivers
    <2>2. RequestSound(r) /\ metas' = metas /\ r.metadata_path \in 1..Len(metas)
      BY <2>1, StoreTypes DEF PendingInv, Deliver
    <2>3. CASE PutAccepted(r.tag) /\ PutCurrent(r.metadata_path) /\ r.tag # NoTag
      <3>1. r.tag = current.e_tag /\ CurrentExists
        BY <2>2, <2>3, StoreTypes DEF RequestSound, PutAccepted, NoTag, CurrentExists
      <3>2. Follows(r.metadata_path, current.metadata_path)
        BY <2>2, <2>3, <3>1 DEF RequestSound
      <3> QED
        BY <2>2, <2>3, <3>1, <3>2 DEF Moved
    <2>4. CASE PutCurrent(r.metadata_path) /\ r.tag = NoTag
      <3>1. IsEmpty(r.metadata_path)
        BY <2>2, <2>4 DEF RequestSound, NoTag
      <3> QED
        BY <2>2, <2>4, <3>1 DEF Moved
    <2>5. CASE UNCHANGED current
      BY <2>2, <2>5 DEF Moved
    <2> QED
      BY <2>1, <2>3, <2>4, <2>5 DEF Deliver
  <1>5. CASE UNCHANGED vars
    BY <1>5 DEF vars, storeVars, Moved
  <1> QED
    BY <1>1, <1>2, <1>3, <1>4, <1>5 DEF Next, Advance, Moved

\* Without requests of create-table, a batch that is in the table stays there.
LEMMA BatchesStay ==
  ASSUME TypeInv, Moved, \A r \in inflight : r.tag # NoTag, CurrentExists,
         NEW b, is_batch_duplicate(current.metadata_path, b)
  PROVE  CurrentExists' /\ is_batch_duplicate(current.metadata_path, b)'
  <1>1. current.metadata_path \in 1..Len(metas)
    BY StoreTypes DEF CurrentExists
  <1>2. CASE current' = current /\ \A m \in 1..Len(metas) : metas'[m] = metas[m]
    BY <1>1, <1>2, FileStable DEF CurrentExists, is_batch_duplicate, ManifestListsIn
  <1>3. ASSUME metas' = metas, NEW n \in 1..Len(metas), PutCurrent(n),
               Follows(n, current.metadata_path)
        PROVE  CurrentExists' /\ is_batch_duplicate(current.metadata_path, b)'
    <2>1. is_batch_duplicate(n, b)'
      BY <1>3, CommitPoint
    <2>2. current'.metadata_path = n /\ n # 0
      BY <1>3, StoreTypes DEF PutCurrent
    <2> QED
      BY <2>1, <2>2 DEF CurrentExists, is_batch_duplicate, ManifestListsIn
  <1> QED
    BY <1>2, <1>3 DEF Moved

LEMMA CASNext ==
  ASSUME StoreKind = "conditional", TypeInv, CASInv, [Next]_vars
  PROVE  CASInv'
  <1>0. TypeInv' /\ PendingInv /\ PendingInv' /\ Moved
    BY TypeNext, PendingNext, Moves DEF CASInv
  <1>1. ASSUME NEW r \in inflight' PROVE r.tag # NoTag
    <2>1. CASE r \in inflight
      BY <2>1 DEF CASInv
    <2>2. CASE r \notin inflight
      <3>1. PICK w \in Workers : PutUnanswered(w)
        BY <1>1, <2>2 DEF Next, Advance, Begin, Upload, WriteMetadata, PutApplied,
           PutRefused, Rebase, Abort, StoreDelivers, Deliver, vars, storeVars
      <3>2. pc[w] \notin Stopped /\ r.tag = etag[w]
        BY <1>1, <2>2, <3>1 DEF PutUnanswered, LeaveInFlight, Stopped
      <3>3. etag[w] \in 1..current.e_tag
        BY <1>0, <3>2 DEF PendingInv, WorkerSound
      <3> QED
        BY <3>2, <3>3, StoreTypes DEF NoTag
    <2> QED
      BY <2>1, <2>2
  <1>2. ASSUME NEW w \in Workers, pc'[w] = "ok", pc[w] = "ok" PROVE OkSound(w)'
    <2>1. CurrentExists /\ is_batch_duplicate(current.metadata_path, BatchId(w))
      BY <1>2 DEF CASInv, OkSound
    <2> QED
      BY <1>0, <2>1, BatchesStay DEF CASInv, OkSound
  <1>3. ASSUME NEW w \in Workers, pc'[w] = "ok", pc[w] # "ok" PROVE OkSound(w)'
    <2>1. Begin(w) \/ Rebase(w) \/ PutApplied(w)
      <3>1. ASSUME NEW v \in Workers, Begin(v) \/ Advance(v) \/ PutUnanswered(v) \/ Abort(v)
            PROVE  v = w
        <4>1. pc' = [pc EXCEPT ![v] = pc'[v]] \/ pc' = pc
          BY <3>1 DEF Advance, Begin, Upload, WriteMetadata, PutApplied, PutRefused,
             PutUnanswered, Rebase, Abort, Goto, TypeInv, TypeOK
        <4> QED
          BY <1>3, <4>1 DEF TypeInv, TypeOK
      <3>2. ~(Upload(w) \/ WriteMetadata(w) \/ PutRefused(w) \/ PutUnanswered(w) \/ Abort(w))
        BY <1>3 DEF Upload, WriteMetadata, PutRefused, PutUnanswered, Abort, Goto,
           NextUpload, Uploading, TypeInv, TypeOK
      <3> QED
        BY <1>3, <3>1, <3>2 DEF Next, Advance, StoreDelivers, vars, workerVars
    <2>2. CASE Begin(w) \/ Rebase(w)
      <3>1. UNCHANGED storeVars /\ AlreadyIndexed(w)
        BY <1>3, <2>2 DEF Begin, Rebase, Goto, TypeInv, TypeOK
      <3>2. CurrentExists
        BY <3>1, <2>2, RunningTypes, <1>3 DEF Begin, Rebase, CanIndex, Goto, Stopped, TypeInv, TypeOK
      <3> QED
        BY <3>1, <3>2 DEF OkSound, AlreadyIndexed, storeVars, CurrentExists,
           is_batch_duplicate, ManifestListsIn
    <2>3. CASE PutApplied(w)
      <3>1. /\ pc[w] = "put" /\ pc[w] \notin Stopped /\ PutCurrent(new[w]) /\ metas' = metas
        BY <2>3 DEF PutApplied, Stopped
      <3>2. WorkerSound(w) /\ latest[w] \in 1..Len(metas) /\ new[w] \in 1..Len(metas)
        BY <1>0, <3>1, RunningTypes DEF PendingInv
      <3>3. ThisRun(w) \in Run /\ ThisRun(w).worker = w
        BY DEF ThisRun, Run, TypeInv, TypeOK
      <3>4. /\ metas[latest[w]] \in Metadata
            /\ metas[latest[w]].manifest_lists \in Seq(Run)
        BY <3>2, StoreTypes
      <3>5. metas[new[w]].manifest_lists
              = Append(metas[latest[w]].manifest_lists, ThisRun(w))
        BY <3>1, <3>2, <3>3, <3>4, ExtendedMetadata DEF WorkerSound
      <3>6. ThisRun(w) \in ManifestListsIn(new[w])
        <4> DEFINE s == metas[new[w]].manifest_lists
        <4>1. Len(s) \in DOMAIN s /\ s[Len(s)] = ThisRun(w)
          BY <3>3, <3>4, <3>5
        <4> QED
          BY <4>1 DEF ManifestListsIn, ToSet
      <3>7. current'.metadata_path = new[w] /\ current'.metadata_path # 0
        BY <3>1, <3>2, StoreTypes DEF PutCurrent
      <3> QED
        BY <3>1, <3>3, <3>6, <3>7 DEF OkSound, CurrentExists, is_batch_duplicate,
           ManifestListsIn
    <2> QED
      BY <2>1, <2>2, <2>3
  <1> QED
    BY <1>0, <1>1, <1>2, <1>3 DEF CASInv, OkSound

LEMMA CASInvariant == ASSUME StoreKind = "conditional" PROVE Spec => [](TypeInv /\ CASInv)
  <1>1. Init => TypeInv /\ CASInv
    BY TypeInit, CASInit
  <1>2. (TypeInv /\ CASInv) /\ [Next]_vars => (TypeInv /\ CASInv)'
    BY TypeNext, CASNext
  <1> QED
    BY <1>1, <1>2, PTL DEF Spec

(***************************************************************************)
(* No snapshot has a batch twice, whatever interleaving, kill, lost answer *)
(* or late PUT led to it (cas.rs, the check after a rebase).               *)
(***************************************************************************)
THEOREM NoDuplicates ==
  ASSUME StoreKind = "conditional" PROVE Spec => []NoDuplicateBatch
  <1>1. TypeInv /\ CASInv => NoDuplicateBatch
    BY StoreTypes DEF CASInv, PendingInv, NoDuplicateIn, NoDuplicateBatch,
       LiveManifestLists, CurrentExists
  <1> QED
    BY <1>1, CASInvariant, PTL

\* Success is reported only of a batch that is in the table, and stays so.
THEOREM OkIsTrue ==
  ASSUME StoreKind = "conditional" PROVE Spec => []OkMeansCommitted
  <1>1. CASInv => OkMeansCommitted
    BY DEF CASInv, OkSound, OkMeansCommitted
  <1> QED
    BY <1>1, CASInvariant, PTL

LEMMA LiveTypes == TypeInv => LiveManifestLists \in Seq(Run)
  <1>1. <<>> \in Seq(Run)
    OBVIOUS
  <1> QED
    BY <1>1, StoreTypes DEF LiveManifestLists, CurrentExists

LEMMA PrefixOfAppend ==
  ASSUME NEW S, NEW s \in Seq(S), NEW x \in S
  PROVE  IsPrefix(s, s) /\ IsPrefix(s, Append(s, x))
  <1>1. Append(s, x) \in Seq(S) /\ Len(Append(s, x)) = Len(s) + 1 /\ Len(s) \in Nat
    OBVIOUS
  <1>2. SubSeq(s, 1, Len(s)) = s
    BY SubSeqFull
  <1>3. SubSeq(Append(s, x), 1, Len(s)) = s
    <2>1. SubSeq(Append(s, x), 1, Len(s)) \in Seq(S)
      OBVIOUS
    <2>2. /\ Len(SubSeq(Append(s, x), 1, Len(s))) = Len(s)
          /\ \A i \in 1..Len(s) : SubSeq(Append(s, x), 1, Len(s))[i] = s[i]
      BY <1>1
    <2> QED
      BY <2>1, <2>2, SeqEqual
  <1> QED
    BY <1>1, <1>2, <1>3 DEF IsPrefix

LEMMA MoveExtends ==
  ASSUME StoreKind = "conditional", TypeInv, CASInv, [Next]_vars
  PROVE  IsPrefix(LiveManifestLists, LiveManifestLists')
  <1>1. LiveManifestLists \in Seq(Run)
    BY LiveTypes
  <1>2. CASE current' = current /\ \A m \in 1..Len(metas) : metas'[m] = metas[m]
    <2>1. LiveManifestLists' = LiveManifestLists
      BY <1>2, StoreTypes DEF LiveManifestLists, CurrentExists
    <2> QED
      BY <1>1, <2>1, PrefixOfAppend
  <1>3. ASSUME NEW n \in 1..Len(metas), metas' = metas, CurrentExists,
               PutCurrent(n), Follows(n, current.metadata_path)
        PROVE  IsPrefix(LiveManifestLists, LiveManifestLists')
    <2>1. PICK ml \in Run : LiveManifestLists' = Append(LiveManifestLists, ml)
      BY <1>3, CommitPoint
    <2> QED
      BY <1>1, <2>1, PrefixOfAppend
  <1>4. Moved
    BY Moves DEF CASInv
  <1> QED
    BY <1>2, <1>3, <1>4 DEF Moved, CASInv

(***************************************************************************)
(* current.json only moves to a snapshot that extends the one it named: no *)
(* commit is lost or reordered (metadata.rs, "Updated atomically").        *)
(***************************************************************************)
THEOREM CommitsStay ==
  ASSUME StoreKind = "conditional" PROVE Spec => AppendOnly
  <1>1. TypeInv /\ CASInv /\ [Next]_vars => [IsPrefix(LiveManifestLists, LiveManifestLists')]_vars
    BY MoveExtends
  <1> QED
    BY <1>1, CASInvariant, PTL DEF Spec, AppendOnly
-----------------------------------------------------------------------------
(***************************************************************************)
(* Every attempt that failed was overtaken by one more version.            *)
(***************************************************************************)
Overtaken(w) ==
  /\ pc[w] \in Uploading \cup {"metadata", "put"} =>
       etag[w] >= start[w] + attempt[w]
  /\ pc[w] = "conflict" => current.e_tag >= start[w] + attempt[w] + 1
  /\ pc[w] = "bailed" => current.e_tag >= start[w] + MAX_RETRIES

LEMMA OvertakenNext ==
  ASSUME StoreKind = "conditional", TypeInv, PendingInv, [Next]_vars,
         \A w \in Workers : Overtaken(w)
  PROVE  \A w \in Workers : Overtaken(w)'
  <1> USE CommitAssumption DEF Goto, Overtaken, Uploading
  <1>0. current.e_tag \in Nat /\ current'.e_tag \in Nat /\ current'.e_tag >= current.e_tag
    <2>1. CASE current' = current
      BY <2>1, StoreTypes
    <2>2. CASE \E n : PutCurrent(n)
      BY <2>2, StoreTypes DEF PutCurrent
    <2>3. current' = current \/ \E n : PutCurrent(n)
      BY DEF Next, Advance, Begin, Upload, WriteMetadata, PutApplied, PutRefused,
             PutUnanswered, Rebase, Abort, StoreDelivers, Deliver, vars, storeVars
    <2> QED
      BY <2>1, <2>2, <2>3
  <1>1. ASSUME NEW v \in Workers
        PROVE  attempt[v] \in Nat /\ start[v] \in Nat /\ etag[v] \in Nat
    BY DEF TypeInv, TypeOK
  <1>2. ASSUME NEW v \in Workers, pc'[v] = pc[v], etag'[v] = etag[v],
               attempt'[v] = attempt[v], start'[v] = start[v]
        PROVE  Overtaken(v)'
    BY <1>0, <1>1, <1>2
  <1>3. ASSUME NEW w \in Workers, NEW v \in Workers, v # w,
               Begin(w) \/ Advance(w) \/ PutUnanswered(w) \/ Abort(w)
        PROVE  Overtaken(v)'
    <2>1. /\ pc'[v] = pc[v] /\ etag'[v] = etag[v]
          /\ attempt'[v] = attempt[v] /\ start'[v] = start[v]
      BY <1>3 DEF Advance, Begin, Upload, WriteMetadata, PutApplied, PutRefused,
         PutUnanswered, Rebase, Abort, TypeInv, TypeOK
    <2> QED
      BY <1>2, <2>1
  <1>4. ASSUME NEW w \in Workers, Begin(w) PROVE Overtaken(w)'
    <2>1. \/ pc'[w] \in {"failed", "ok"}
          \/ /\ pc'[w] = "segment" /\ etag'[w] = current.e_tag
             /\ start'[w] = current.e_tag /\ attempt'[w] = 0
      BY <1>4 DEF Begin, ReadTag, TypeInv, TypeOK
    <2> QED
      BY <1>0, <2>1
  <1>5. ASSUME NEW w \in Workers, Upload(w) \/ WriteMetadata(w) PROVE Overtaken(w)'
    <2>1. /\ pc[w] \in Uploading \cup {"metadata"}
          /\ pc'[w] \in Uploading \cup {"metadata", "put"}
          /\ UNCHANGED <<etag, attempt, start>>
      BY <1>5 DEF Upload, WriteMetadata, NextUpload, TypeInv, TypeOK
    <2> QED
      BY <1>1, <2>1
  <1>6. ASSUME NEW w \in Workers, \/ PutApplied(w) \/ Abort(w) \/ PutUnanswered(w)
        PROVE  Overtaken(w)'
    <2>1. \/ pc'[w] \in {"ok", "failed"}
          \/ /\ pc'[w] = pc[w]
             /\ UNCHANGED <<etag, attempt, start>>
      BY <1>6 DEF PutApplied, Abort, PutUnanswered, TypeInv, TypeOK
    <2> QED
      BY <1>2, <2>1
  <1>7. ASSUME NEW w \in Workers, PutRefused(w) PROVE Overtaken(w)'
    <2>1. /\ pc[w] = "put" /\ pc'[w] = "conflict" /\ current' = current
          /\ etag[w] # current.e_tag
          /\ UNCHANGED <<etag, attempt, start>>
      BY <1>7 DEF PutRefused, PutAccepted, storeVars, TypeInv, TypeOK
    <2>2. etag[w] \in 1..current.e_tag
      BY <2>1 DEF PendingInv, WorkerSound, Stopped
    <2> QED
      BY <1>0, <1>1, <2>1, <2>2
  <1>8. ASSUME NEW w \in Workers, Rebase(w) PROVE Overtaken(w)'
    <2>1. /\ pc[w] = "conflict" /\ current' = current
          /\ etag'[w] = current.e_tag
          /\ UNCHANGED start
          /\ \/ pc'[w] = "ok"
             \/ pc'[w] = "metadata" /\ attempt'[w] = attempt[w] + 1
             \/ pc'[w] = "bailed" /\ attempt[w] + 1 = MAX_RETRIES
      BY <1>8 DEF Rebase, ReadTag, storeVars, TypeInv, TypeOK
    <2> QED
      BY <1>0, <1>1, <2>1
  <1>9. ASSUME UNCHANGED workerVars, NEW v \in Workers PROVE Overtaken(v)'
    BY <1>2, <1>9 DEF workerVars
  <1> QED
    BY <1>3, <1>4, <1>5, <1>6, <1>7, <1>8, <1>9
       DEF Next, Advance, StoreDelivers, vars

(***************************************************************************)
(* A worker gives up only when at least MAX_RETRIES versions of            *)
(* current.json were written during its run.                               *)
(***************************************************************************)
THEOREM BailOutsAreContention ==
  ASSUME StoreKind = "conditional" PROVE Spec => []BailOnlyUnderContention
  <1> DEFINE Inv == \A w \in Workers : Overtaken(w)
  <1>1. Init => Inv
    BY DEF Init, Overtaken, Uploading
  <1>2. TypeInv /\ CASInv /\ Inv /\ [Next]_vars => Inv'
    BY OvertakenNext DEF CASInv
  <1>3. Inv => BailOnlyUnderContention
    BY DEF Overtaken, BailOnlyUnderContention
  <1> HIDE DEF Inv
  <1> QED
    BY <1>1, <1>2, <1>3, CASInvariant, PTL DEF Spec
-----------------------------------------------------------------------------
(***************************************************************************)
(* On a store with conditional PUTs, the commit protocol implements        *)
(* TableLog: every step appends one new batch at the end of the log, or    *)
(* changes what one worker said, or neither.                               *)
(***************************************************************************)

\* The refinement mapping, by name (Log in Commit instantiates with these).
MappedLog ==
  [i \in DOMAIN LiveManifestLists |-> BatchId(LiveManifestLists[i].worker)]
MappedAnswer == [w \in Workers |-> AnswerOf(w)]
MappedBatch == [w \in Workers |-> BatchId(w)]

LEMMA MappedAppend ==
  ASSUME TypeInv, NEW ml \in Run,
         LiveManifestLists' = Append(LiveManifestLists, ml)
  PROVE  MappedLog' = Append(MappedLog, BatchId(ml.worker))
  <1>1. LiveManifestLists \in Seq(Run)
    BY LiveTypes
  <1> DEFINE l == LiveManifestLists
             n == Len(l)
  <1>2. n \in Nat /\ DOMAIN l = 1..n
    BY <1>1
  <1>3. MappedLog \in Seq({BatchId(w) : w \in Workers}) /\ Len(MappedLog) = n
    <2>1. MappedLog \in [1..n -> {BatchId(w) : w \in Workers}]
      <3>1. \A i \in 1..n : l[i] \in Run /\ l[i].worker \in Workers
        <4>1. \A i \in 1..n : l[i] \in Run
          BY <1>1, <1>2
        <4> QED
          BY <4>1 DEF Run
      <3> QED
        BY <1>2, <3>1 DEF MappedLog
    <2>2. MappedLog \in Seq({BatchId(w) : w \in Workers})
      BY <1>2, <2>1, SeqDef
    <2> QED
      BY <1>2, <2>1, <2>2
  <1>4. /\ DOMAIN MappedLog' = 1..(n + 1)
        /\ \A i \in 1..n : MappedLog'[i] = MappedLog[i]
        /\ MappedLog'[n + 1] = BatchId(ml.worker)
    BY <1>1 DEF MappedLog
  <1>5. /\ DOMAIN Append(MappedLog, BatchId(ml.worker)) = 1..(n + 1)
        /\ \A i \in 1..n : Append(MappedLog, BatchId(ml.worker))[i] = MappedLog[i]
        /\ Append(MappedLog, BatchId(ml.worker))[n + 1] = BatchId(ml.worker)
    BY <1>2, <1>3
  <1>6. MappedLog' = [i \in 1..(n + 1) |-> MappedLog'[i]]
    BY <1>1 DEF MappedLog
  <1>7. Append(MappedLog, BatchId(ml.worker))
          = [i \in 1..(n + 1) |-> Append(MappedLog, BatchId(ml.worker))[i]]
    BY <1>2, <1>3
  <1> QED
    BY <1>2, <1>4, <1>5, <1>6, <1>7

\* A batch is in the mapped log iff the dedup check of the code finds it.
LEMMA MappedMember ==
  ASSUME CurrentExists, NEW b
  PROVE  b \in Log!ToSet(MappedLog)
           <=> is_batch_duplicate(current.metadata_path, b)
  BY DEF Log!ToSet, MappedLog, is_batch_duplicate, ManifestListsIn, ToSet,
         LiveManifestLists

LEMMA RefineInit == Init => Log!LogInit
  <1> SUFFICES ASSUME Init PROVE Log!LogInit
    OBVIOUS
  <1>1. LiveManifestLists = <<>>
    <2>1. CASE current = NoTable
      BY <2>1 DEF LiveManifestLists, CurrentExists, NoTable
    <2>2. CASE /\ current = [metadata_path |-> 1, e_tag |-> 1]
               /\ metas = <<[indexed_columns |-> InitialColumns,
                             manifest_lists |-> <<>>]>>
      BY <2>2 DEF LiveManifestLists, CurrentExists
    <2> QED
      BY <2>1, <2>2 DEF Init
  <1>2. MappedLog = <<>>
    BY <1>1 DEF MappedLog
  <1>3. MappedAnswer = [w \in Workers |-> "none"]
    BY DEF Init, MappedAnswer, AnswerOf
  <1> QED
    BY <1>2, <1>3 DEF Log!LogInit, MappedLog, MappedAnswer

(***************************************************************************)
(* A step of worker w, as TableLog sees it: w says something, and a batch  *)
(* is appended or not.                                                     *)
(***************************************************************************)
LEMMA RefineStep ==
  ASSUME TypeInv, TypeInv', CASInv',
         NEW w \in Workers, \A v \in Workers : v # w => pc'[v] = pc[v],
         \/ MappedLog' = MappedLog
         \/ /\ BatchId(w) \notin Log!ToSet(MappedLog)
            /\ MappedLog' = Append(MappedLog, BatchId(w))
  PROVE  Log!LogNext
  <1>1. AnswerOf(w)' \in Log!Answers
    BY DEF AnswerOf, Log!Answers
  <1>2. MappedAnswer' = [MappedAnswer EXCEPT ![w] = AnswerOf(w)']
    BY DEF MappedAnswer, AnswerOf
  <1>3. AnswerOf(w)' = "ok" => BatchId(w) \in Log!ToSet(MappedLog')
    <2> SUFFICES ASSUME AnswerOf(w)' = "ok" PROVE BatchId(w) \in Log!ToSet(MappedLog')
      OBVIOUS
    <2>1. pc'[w] = "ok"
      BY DEF AnswerOf
    <2>2. CurrentExists' /\ is_batch_duplicate(current.metadata_path, BatchId(w))'
      BY <2>1 DEF CASInv, OkSound
    <2> QED
      BY <2>2 DEF Log!ToSet, MappedLog, is_batch_duplicate, ManifestListsIn, ToSet,
         LiveManifestLists
  <1>4. MappedBatch[w] = BatchId(w)
    BY DEF MappedBatch
  <1>5. Log!Answer(w)
    BY <1>1, <1>2, <1>3, <1>4 DEF Log!Answer, MappedLog, MappedAnswer, MappedBatch
  <1> QED
    BY <1>4, <1>5 DEF Log!LogNext, Log!AppendBatch, MappedLog, MappedAnswer, MappedBatch

LEMMA RefineNext ==
  ASSUME StoreKind = "conditional", TypeInv, CASInv, [Next]_vars
  PROVE  [Log!LogNext]_<<MappedLog, MappedAnswer>>
  <1>0. TypeInv' /\ CASInv'
    BY TypeNext, CASNext
  <1>1. CASE current' = current /\ \A m \in 1..Len(metas) : metas'[m] = metas[m]
    <2>1. MappedLog' = MappedLog
      BY <1>1, StoreTypes DEF MappedLog, LiveManifestLists, CurrentExists
    <2>2. CASE \E w \in Workers : \A v \in Workers : v # w => pc'[v] = pc[v]
      BY <1>0, <2>1, <2>2, RefineStep
    <2>3. CASE UNCHANGED pc
      BY <2>1, <2>3 DEF MappedAnswer, AnswerOf
    <2>4. \/ \E w \in Workers : \A v \in Workers : v # w => pc'[v] = pc[v]
          \/ UNCHANGED pc
      BY DEF Next, Advance, Begin, Upload, WriteMetadata, PutApplied, PutRefused,
             PutUnanswered, Rebase, Abort, StoreDelivers, Goto, vars, workerVars,
             TypeInv, TypeOK
    <2> QED
      BY <2>2, <2>3, <2>4
  <1>2. ASSUME NEW ml \in Run, CurrentExists,
               LiveManifestLists' = Append(LiveManifestLists, ml),
               ~is_batch_duplicate(current.metadata_path, BatchId(ml.worker)),
               \A v \in Workers : v # ml.worker => pc'[v] = pc[v]
        PROVE  Log!LogNext
    <2>1. ml.worker \in Workers
      BY DEF Run
    <2>2. /\ BatchId(ml.worker) \notin Log!ToSet(MappedLog)
          /\ MappedLog' = Append(MappedLog, BatchId(ml.worker))
      BY <1>2, MappedMember, MappedAppend
    <2> QED
      BY <1>0, <1>2, <2>1, <2>2, RefineStep
  <1>3. ASSUME NEW w \in Workers, \/ Begin(w) \/ Upload(w) \/ PutRefused(w)
                                  \/ PutUnanswered(w) \/ Rebase(w) \/ Abort(w)
        PROVE  current' = current /\ metas' = metas
    BY <1>3 DEF Begin, Upload, PutRefused, PutUnanswered, Rebase, Abort, storeVars
  <1>4. ASSUME NEW w \in Workers, WriteMetadata(w)
        PROVE  current' = current /\ \A m \in 1..Len(metas) : metas'[m] = metas[m]
    BY <1>4 DEF WriteMetadata, write_metadata, TypeInv, TypeOK, StoreTypeOK
  <1>5. ASSUME NEW w \in Workers, PutApplied(w) PROVE Log!LogNext
    <2>1. /\ metas' = metas /\ PutCurrent(new[w]) /\ PutAccepted(etag[w])
          /\ pc[w] = "put" /\ pc[w] \notin Stopped
          /\ \A v \in Workers : v # w => pc'[v] = pc[v]
      BY <1>5 DEF PutApplied, Stopped, Goto, TypeInv, TypeOK
    <2>2. WorkerSound(w)
      BY DEF CASInv, PendingInv
    <2>3. ThisRun(w) \in Run /\ ThisRun(w).worker = w
      BY DEF ThisRun, Run, TypeInv, TypeOK
    <2>4. etag[w] = current.e_tag /\ latest[w] = current.metadata_path
      BY <2>1, <2>2 DEF PutAccepted, WorkerSound, NoTag
    <2>5. /\ latest[w] \in 1..Len(metas)
          /\ new[w] \in 1..Len(metas)
          /\ CurrentExists
      BY <2>1, RunningTypes
    <2>6. metas[new[w]].manifest_lists
            = Append(metas[current.metadata_path].manifest_lists, ThisRun(w))
      <3>1. metas[latest[w]] \in Metadata
        BY <2>5, StoreTypes
      <3> QED
        BY <2>1, <2>2, <2>3, <2>4, <3>1, ExtendedMetadata DEF WorkerSound
    <2>7. LiveManifestLists' = Append(LiveManifestLists, ThisRun(w))
      <3>1. current'.metadata_path = new[w] /\ current'.metadata_path # 0
        BY <2>1, <2>5, StoreTypes DEF PutCurrent
      <3> QED
        BY <2>1, <2>5, <2>6, <3>1 DEF LiveManifestLists, CurrentExists
    <2> QED
      BY <1>2, <2>1, <2>2, <2>3, <2>4, <2>5, <2>7 DEF WorkerSound
  <1>6. ASSUME StoreDelivers
        PROVE  [Log!LogNext]_<<MappedLog, MappedAnswer>>
    <2>1. PICK r \in inflight : Deliver(r)
      BY <1>6 DEF StoreDelivers
    <2>2. RequestSound(r) /\ r.tag # NoTag /\ metas' = metas /\ pc' = pc
      BY <1>6, <2>1 DEF CASInv, PendingInv, Deliver, StoreDelivers, workerVars
    <2>3. CASE PutAccepted(r.tag) /\ PutCurrent(r.metadata_path)
      <3>1. r.tag = current.e_tag /\ CurrentExists
        BY <2>2, <2>3, StoreTypes DEF RequestSound, PutAccepted, NoTag, CurrentExists
      <3>2. PICK ml \in Run :
              /\ metas[r.metadata_path] =
                   [metas[current.metadata_path] EXCEPT
                      !.manifest_lists = Append(@, ml)]
              /\ ~is_batch_duplicate(current.metadata_path, BatchId(ml.worker))
        BY <2>2, <3>1 DEF RequestSound, Follows
      <3>3. metas[current.metadata_path] \in Metadata
        BY <3>1, StoreTypes DEF CurrentExists
      <3>4. metas[r.metadata_path].manifest_lists
              = Append(metas[current.metadata_path].manifest_lists, ml)
        BY <3>2, <3>3, ExtendedMetadata
      <3>5. LiveManifestLists' = Append(LiveManifestLists, ml)
        <4>1. current'.metadata_path = r.metadata_path /\ current'.metadata_path # 0
          BY <2>3, StoreTypes DEF PutCurrent
        <4> QED
          BY <2>2, <3>1, <3>4, <4>1 DEF LiveManifestLists, CurrentExists
      <3> QED
        BY <1>2, <2>2, <3>1, <3>2, <3>5
    <2>4. CASE UNCHANGED current
      BY <1>1, <2>2, <2>4
    <2> QED
      BY <2>1, <2>3, <2>4 DEF Deliver
  <1>7. CASE UNCHANGED vars
    BY <1>1, <1>7 DEF vars, storeVars
  <1> QED
    BY <1>1, <1>3, <1>4, <1>5, <1>6, <1>7 DEF Next, Advance

(***************************************************************************)
(* The commit protocol implements the log that TableLog specifies: all     *)
(* that cas.rs promises, in one formula.                                   *)
(***************************************************************************)
THEOREM CommitImplementsLog ==
  ASSUME StoreKind = "conditional" PROVE Spec => ImplementsLog
  <1>1. TypeInv /\ CASInv /\ [Next]_vars => [Log!LogNext]_<<MappedLog, MappedAnswer>>
    BY RefineNext
  <1> QED
    BY <1>1, RefineInit, CASInvariant, PTL
       DEF Spec, ImplementsLog, Log!LogSpec, MappedLog, MappedAnswer
=============================================================================
