--------------------------- MODULE PipelineProofs ---------------------------
(***************************************************************************)
(* The pipeline of a query for any files, channels, permits and threads:   *)
(* its variables keep their types, which bounds the channels, the permits  *)
(* and the jobs on the rayon pool, a query that ends well hides no read    *)
(* error, and it loses no match.                                           *)
(***************************************************************************)
EXTENDS Pipeline, Recursion

\* PipelineTypeOK by stages, and what it takes to be inductive.
IoTypes ==
  /\ task \in [Files -> {"waiting", "running", "failing", "done"}]
  /\ sent \in [Files -> Nat]
  /\ \A f \in Files : sent[f] <= Len(Work[f])
  /\ failed \subseteq Files
  /\ skipped \subseteq UnindexedFiles
PermitsBounded == Cardinality(PermitHolders) <= MaxIoTasks
InputTypes == input \in Seq(Batch) /\ Len(input) <= Capacity
CpuTypes ==
  /\ dispatcher \in {"select", "send", "done"}
  /\ sending \in Batch \cup {<<>>}
  /\ dispatcher = "send" => sending \in Batch
  /\ rows_matched \in Nat
JobsBounded ==
  /\ in_flight \subseteq Batch
  /\ IsFiniteSet(in_flight)
  /\ Cardinality(in_flight) <= MaxCpu
OutputTypes == output \in Seq(Batch) /\ Len(output) <= Capacity
CoalesceTypes ==
  /\ coalescer \in {"receive", "flush", "last", "done"}
  /\ pending \in Seq(Batch)
  /\ pending_rows \in Nat
  /\ unjoined \in BOOLEAN
FinalTypes == final \in Seq(Message) /\ Len(final) <= Capacity
ReadTypes ==
  /\ reader \in {"reading", "done"}
  /\ got \in Seq(Batch)
  /\ client \in {"waiting", "complete", "error", "gone", "aborted"}

TypeInv ==
  /\ query \in Queries
  /\ IoTypes
  /\ PermitsBounded
  /\ InputTypes
  /\ CpuTypes
  /\ JobsBounded
  /\ OutputTypes
  /\ CoalesceTypes
  /\ FinalTypes
  /\ ReadTypes
-----------------------------------------------------------------------------
LEMMA TypeInvImpliesTypeOK == TypeInv => PipelineTypeOK
  BY DEF TypeInv, PipelineTypeOK, IoTypes, PermitsBounded, InputTypes, CpuTypes,
     JobsBounded, OutputTypes, CoalesceTypes, FinalTypes, ReadTypes

\* A batch is one of its file's.
LEMMA BatchFacts ==
  /\ \A f \in Files : \A i \in 1..Len(Work[f]) : <<f, i>> \in Batch
  /\ \A b \in Batch : b[1] \in Files /\ b[2] \in 1..Len(Work[b[1]]) /\ Matches(b) \in Nat
  <1>1. \A f \in Files : Work[f] \in Seq(Nat)
    BY PipelineAssumption
  <1>2. ASSUME NEW f \in Files, NEW i \in 1..Len(Work[f]) PROVE <<f, i>> \in Batch
    BY <1>1, <1>2 DEF Batch
  <1>3. ASSUME NEW b \in Batch
        PROVE  b[1] \in Files /\ b[2] \in 1..Len(Work[b[1]]) /\ Matches(b) \in Nat
    <2>1. PICK f \in Files : \E i \in DOMAIN Work[f] : b = <<f, i>>
      BY DEF Batch
    <2>2. PICK i \in DOMAIN Work[f] : b = <<f, i>>
      BY <2>1
    <2>3. i \in 1..Len(Work[f]) /\ Work[f][i] \in Nat
      BY <1>1, <2>2
    <2> QED
      BY <2>2, <2>3 DEF Matches
  <1> QED
    BY <1>2, <1>3

\* What the sends and receives do to a bounded channel.
LEMMA Appended ==
  ASSUME NEW S, NEW channel \in Seq(S), Len(channel) < Capacity, NEW x \in S
  PROVE  Append(channel, x) \in Seq(S) /\ Len(Append(channel, x)) <= Capacity
  BY PipelineAssumption

LEMMA Received ==
  ASSUME NEW S, NEW channel \in Seq(S), Len(channel) <= Capacity, channel # <<>>
  PROVE  /\ Head(channel) \in S
         /\ Tail(channel) \in Seq(S)
         /\ Len(Tail(channel)) <= Capacity
  BY PipelineAssumption

LEMMA EmptyChannel == ASSUME NEW S PROVE <<>> \in Seq(S) /\ Len(<<>>) <= Capacity
  BY PipelineAssumption

LEMMA PermitsFinite ==
  IsFiniteSet(PermitHolders) /\ Cardinality(PermitHolders) \in Nat
  BY PipelineAssumption, FS_Subset, FS_CardinalityType DEF PermitHolders

\* A task that ends or stays leaves no more holders of permits.
LEMMA PermitsKept ==
  ASSUME TypeInv, \A f \in Files : task'[f] \in {"running", "failing"}
                                     => task[f] \in {"running", "failing"}
  PROVE  PermitsBounded'
  <1>1. PermitHolders' \subseteq PermitHolders
    BY DEF PermitHolders
  <1>2. Cardinality(PermitHolders') <= Cardinality(PermitHolders)
    BY <1>1, PermitsFinite, FS_Subset
  <1>3. IsFiniteSet(PermitHolders') /\ Cardinality(PermitHolders') \in Nat
    BY <1>1, PermitsFinite, FS_Subset, FS_CardinalityType
  <1> QED
    BY <1>2, <1>3, PermitsFinite, PipelineAssumption DEF TypeInv, PermitsBounded

LEMMA JobsDropped ==
  ASSUME JobsBounded, in_flight' \subseteq in_flight
  PROVE  JobsBounded'
  BY FS_Subset, FS_CardinalityType, PipelineAssumption DEF JobsBounded

LEMMA TypeInit == Init => TypeInv
  <1> SUFFICES ASSUME Init PROVE TypeInv
    OBVIOUS
  <1>1. PermitHolders = {}
    BY DEF Init, PermitHolders
  <1>2. PermitsBounded
    BY <1>1, FS_EmptySet, PipelineAssumption DEF PermitsBounded
  <1>3. JobsBounded
    BY FS_EmptySet, PipelineAssumption DEF Init, JobsBounded
  <1>4. \A f \in Files : Len(Work[f]) \in Nat
    BY PipelineAssumption
  <1>5. InputTypes /\ OutputTypes /\ FinalTypes
    BY EmptyChannel DEF Init, InputTypes, OutputTypes, FinalTypes
  <1>6. IoTypes
    BY <1>4 DEF Init, IoTypes
  <1>7. CpuTypes
    BY DEF Init, CpuTypes
  <1>8. CoalesceTypes /\ ReadTypes
    BY EmptyChannel DEF Init, CoalesceTypes, ReadTypes
  <1> QED
    BY <1>2, <1>3, <1>5, <1>6, <1>7, <1>8 DEF Init, TypeInv
-----------------------------------------------------------------------------
(***************************************************************************)
(* The steps of the I/O tasks.                                             *)
(***************************************************************************)
LEMMA TypeIo ==
  ASSUME TypeInv, NEW f \in Files, IoStep(f) \/ SkipFile(f) \/ FailTask(f)
  PROVE  TypeInv'
  <1> USE DEF TypeInv
  <1>1. /\ UNCHANGED <<query, cpuVars, output, coalesceVars, readVars>>
    BY DEF IoStep, StartTask, SendBatch, EndTask, SendError, SkipFile, FailTask,
       cpuVars, coalesceVars, readVars
  <1>2. query' \in Queries /\ CpuTypes' /\ JobsBounded' /\ OutputTypes' /\ CoalesceTypes' /\ ReadTypes'
    BY <1>1 DEF cpuVars, coalesceVars, readVars, CpuTypes, JobsBounded, OutputTypes,
       CoalesceTypes, ReadTypes
  <1>3. CASE StartTask(f)
    <2>1. PermitHolders' = PermitHolders \cup {f}
      BY <1>3 DEF StartTask, PermitHolders, IoTypes
    <2>2. Cardinality(PermitHolders') <= Cardinality(PermitHolders) + 1
      <3>1. Cardinality(PermitHolders \cup {f})
              = IF f \in PermitHolders THEN Cardinality(PermitHolders)
                                       ELSE Cardinality(PermitHolders) + 1
        BY PermitsFinite, FS_AddElement
      <3> QED
        BY <2>1, <3>1, PermitsFinite
    <2>3. Cardinality(PermitHolders) < MaxIoTasks
      BY <1>3 DEF StartTask
    <2>4. Cardinality(PermitHolders') \in Nat
      BY <2>1, PermitsFinite, FS_AddElement, FS_CardinalityType
    <2>5. PermitsBounded'
      BY <2>2, <2>3, <2>4, PermitsFinite, PipelineAssumption DEF PermitsBounded
    <2>6. IoTypes' /\ InputTypes' /\ FinalTypes'
      BY <1>3 DEF StartTask, IoTypes, InputTypes, FinalTypes
    <2> QED
      BY <1>2, <2>5, <2>6
  <1>4. CASE SendBatch(f) \/ EndTask(f) \/ SendError(f) \/ SkipFile(f) \/ FailTask(f)
    <2>1. PermitsBounded'
      BY <1>4, PermitsKept DEF SendBatch, EndTask, SendError, SkipFile, FailTask, IoTypes
    <2>2. Len(Work[f]) \in Nat
      BY PipelineAssumption
    <2>3. IoTypes'
      BY <1>4, <2>2 DEF SendBatch, EndTask, SendError, SkipFile, FailTask, IoTypes
    <2>4. InputTypes'
      <3>1. CASE input' = input
        BY <3>1 DEF InputTypes
      <3>2. CASE /\ sent[f] < Len(Work[f]) /\ HasRoom(input)
                 /\ input' = Append(input, <<f, sent[f] + 1>>)
        <4>1. sent[f] + 1 \in 1..Len(Work[f])
          BY <2>2, <3>2 DEF IoTypes
        <4>2. <<f, sent[f] + 1>> \in Batch
          BY <4>1, BatchFacts
        <4> QED
          BY <3>2, <4>2, Appended DEF InputTypes, HasRoom
      <3> QED
        BY <1>4, <3>1, <3>2 DEF SendBatch, EndTask, SendError, SkipFile, FailTask
    <2>5. FinalTypes'
      <3>1. CASE final' = final
        BY <3>1 DEF FinalTypes
      <3>2. CASE HasRoom(final) /\ final' = Append(final, Error)
        <4>1. Error \in Message
          BY EmptyChannel DEF Error, Message
        <4> QED
          BY <3>2, <4>1, Appended DEF FinalTypes, HasRoom
      <3> QED
        BY <1>4, <3>1, <3>2 DEF SendBatch, EndTask, SendError, SkipFile, FailTask
    <2> QED
      BY <1>2, <2>1, <2>3, <2>4, <2>5
  <1> QED
    BY <1>3, <1>4 DEF IoStep

(***************************************************************************)
(* The steps of the CPU dispatcher.                                        *)
(***************************************************************************)
LEMMA TypeCpu ==
  ASSUME TypeInv, CpuStep
  PROVE  TypeInv'
  <1> USE DEF TypeInv
  <1>1. CASE Receive
    <2>1. Head(input) \in Batch /\ InputTypes'
      BY <1>1, Received DEF Receive, InputTypes
    <2>2. JobsBounded'
      <3>1. in_flight' = in_flight \cup {Head(input)} /\ Cardinality(in_flight) < MaxCpu
        BY <1>1 DEF Receive
      <3>2. /\ IsFiniteSet(in_flight')
            /\ Cardinality(in_flight') = IF Head(input) \in in_flight
                                           THEN Cardinality(in_flight)
                                           ELSE Cardinality(in_flight) + 1
        BY <3>1, FS_AddElement DEF JobsBounded
      <3>3. Cardinality(in_flight) \in Nat /\ Cardinality(in_flight') \in Nat
        BY <3>2, FS_CardinalityType DEF JobsBounded
      <3> QED
        BY <2>1, <3>1, <3>2, <3>3, PipelineAssumption DEF JobsBounded
    <2>3. PermitsBounded'
      BY <1>1, PermitsKept DEF Receive, ioVars
    <2> QED
      BY <1>1, <2>1, <2>2, <2>3 DEF Receive, ioVars, coalesceVars, readVars,
         IoTypes, CpuTypes, OutputTypes, CoalesceTypes, FinalTypes, ReadTypes
  <1>2. ASSUME NEW batch \in in_flight, Collect(batch) PROVE TypeInv'
    <2>1. batch \in Batch /\ Matches(batch) \in Nat
      BY BatchFacts DEF JobsBounded
    <2>2. InputTypes'
      BY <1>2, EmptyChannel DEF Collect, Return, InputTypes
    <2>3. JobsBounded'
      BY <1>2, JobsDropped DEF Collect, Return
    <2>4. CpuTypes'
      BY <1>2, <2>1 DEF Collect, Return, CpuTypes
    <2>5. PermitsBounded'
      BY <1>2, PermitsKept DEF Collect, ioVars
    <2> QED
      BY <1>2, <2>2, <2>3, <2>4, <2>5 DEF Collect, ioVars, coalesceVars, readVars,
         IoTypes, OutputTypes, CoalesceTypes, FinalTypes, ReadTypes
  <1>3. ASSUME NEW batch \in in_flight, Panic(batch) PROVE TypeInv'
    <2>1. PermitsBounded'
      BY <1>3, PermitsKept DEF Panic
    <2>2. JobsBounded'
      BY <1>3 DEF Panic, JobsBounded
    <2> QED
      BY <1>3, <2>1, <2>2 DEF Panic, IoTypes, InputTypes, CpuTypes, OutputTypes,
         CoalesceTypes, FinalTypes, ReadTypes
  <1>4. CASE SendOutput
    <2>1. OutputTypes'
      BY <1>4, Appended DEF SendOutput, OutputTypes, CpuTypes, HasRoom
    <2>2. InputTypes'
      BY <1>4, EmptyChannel DEF SendOutput, Return, InputTypes
    <2>3. JobsBounded'
      BY <1>4, JobsDropped DEF SendOutput, Return
    <2>4. PermitsBounded'
      BY <1>4, PermitsKept DEF SendOutput, ioVars
    <2>5. CpuTypes'
      BY <1>4 DEF SendOutput, Return, CpuTypes
    <2> QED
      BY <1>4, <2>1, <2>2, <2>3, <2>4, <2>5 DEF SendOutput, ioVars, coalesceVars,
         readVars, IoTypes, CoalesceTypes, FinalTypes, ReadTypes
  <1>5. CASE Drained
    <2>1. PermitsBounded' /\ JobsBounded'
      BY <1>5, PermitsKept, JobsDropped DEF Drained, ioVars
    <2> QED
      BY <1>5, <2>1 DEF Drained, ioVars, coalesceVars, readVars, IoTypes, InputTypes,
         CpuTypes, OutputTypes, CoalesceTypes, FinalTypes, ReadTypes
  <1> QED
    BY <1>1, <1>2, <1>3, <1>4, <1>5 DEF CpuStep

(***************************************************************************)
(* The steps of the coalescer.                                             *)
(***************************************************************************)
LEMMA TypeCoalesce ==
  ASSUME TypeInv, CoalesceStep \/ ConcatFails
  PROVE  TypeInv'
  <1> USE DEF TypeInv
  <1>1. UNCHANGED <<query, ioVars, input, cpuVars, readVars>>
    BY DEF CoalesceStep, Gather, OutputEnds, Flush, ConcatFails
  <1>2. /\ query' \in Queries /\ IoTypes' /\ PermitsBounded' /\ InputTypes'
        /\ CpuTypes' /\ JobsBounded' /\ ReadTypes'
    BY <1>1, PermitsKept DEF ioVars, cpuVars, readVars, IoTypes, InputTypes,
       CpuTypes, JobsBounded, ReadTypes
  <1>3. CASE Gather
    <2>1. Head(output) \in Batch /\ OutputTypes'
      BY <1>3, Received DEF Gather, OutputTypes
    <2>2. Matches(Head(output)) \in Nat
      BY <2>1, BatchFacts
    <2>3. CoalesceTypes'
      BY <1>3, <2>1, <2>2 DEF Gather, CoalesceTypes
    <2> QED
      BY <1>2, <1>3, <2>1, <2>3 DEF Gather, FinalTypes
  <1>4. CASE OutputEnds \/ ConcatFails
    <2>1. OutputTypes' /\ FinalTypes'
      BY <1>4 DEF OutputEnds, ConcatFails, OutputTypes, FinalTypes
    <2>2. /\ pending' = pending
          /\ pending_rows' \in {0, pending_rows}
          /\ coalescer' \in {"receive", "last", "done"}
      BY <1>4 DEF OutputEnds, ConcatFails
    <2>3. unjoined' \in BOOLEAN
      BY <1>4 DEF OutputEnds, ConcatFails, CoalesceTypes
    <2>4. CoalesceTypes'
      BY <2>2, <2>3 DEF CoalesceTypes
    <2> QED
      BY <1>2, <2>1, <2>4
  <1>5. CASE Flush
    <2>1. Answer(pending) \in Message
      BY DEF Answer, Message, CoalesceTypes
    <2>2. FinalTypes'
      BY <1>5, <2>1, Appended DEF Flush, FinalTypes, HasRoom
    <2>3. CoalesceTypes'
      BY <1>5, EmptyChannel DEF Flush, CoalesceTypes
    <2>4. OutputTypes'
      BY <1>5 DEF Flush, OutputTypes
    <2> QED
      BY <1>2, <2>2, <2>3, <2>4
  <1> QED
    BY <1>3, <1>4, <1>5 DEF CoalesceStep

(***************************************************************************)
(* The steps of the reader and of the client.                              *)
(***************************************************************************)
LEMMA TypeRead ==
  ASSUME TypeInv, ReadStep \/ Leave
  PROVE  TypeInv'
  <1> USE DEF TypeInv
  <1>1. UNCHANGED <<query, ioVars, input, cpuVars, output, coalesceVars>>
    BY DEF ReadStep, Read, ReadToEnd, Leave
  <1>2. /\ query' \in Queries /\ IoTypes' /\ PermitsBounded' /\ InputTypes'
        /\ CpuTypes' /\ JobsBounded' /\ OutputTypes' /\ CoalesceTypes'
    BY <1>1, PermitsKept DEF ioVars, cpuVars, coalesceVars, IoTypes, InputTypes,
       CpuTypes, JobsBounded, OutputTypes, CoalesceTypes
  <1>3. CASE Read
    <2>1. Head(final) \in Message /\ FinalTypes'
      BY <1>3, Received, EmptyChannel DEF Read, FinalTypes
    <2>2. Head(final).batches \in Seq(Batch)
      BY <2>1 DEF Message
    <2>3. got' \in Seq(Batch)
      <3>1. got \o Head(final).batches \in Seq(Batch)
        BY <2>2 DEF ReadTypes
      <3> QED
        BY <1>3, <3>1 DEF Read, ReadTypes
    <2>4. ReadTypes'
      BY <1>3, <2>3 DEF Read, ClientHears, ReadTypes
    <2> QED
      BY <1>2, <2>1, <2>4
  <1>4. CASE ReadToEnd \/ Leave
    BY <1>2, <1>4, EmptyChannel DEF ReadToEnd, Leave, ClientHears, FinalTypes, ReadTypes
  <1> QED
    BY <1>3, <1>4 DEF ReadStep

LEMMA TypeStep == TypeInv /\ [Next]_vars => TypeInv'
  <1> SUFFICES ASSUME TypeInv, [Next]_vars PROVE TypeInv'
    OBVIOUS
  <1>1. CASE UNCHANGED vars
    BY <1>1, PermitsKept DEF vars, ioVars, cpuVars, coalesceVars, readVars, TypeInv,
       IoTypes, InputTypes, CpuTypes, JobsBounded, OutputTypes, CoalesceTypes,
       FinalTypes, ReadTypes
  <1>2. CASE Next
    BY <1>2, TypeIo, TypeCpu, TypeCoalesce, TypeRead DEF Next
  <1> QED
    BY <1>1, <1>2

(***************************************************************************)
(* Types, channels within their capacity, no more permits and jobs than    *)
(* there are.                                                              *)
(***************************************************************************)
THEOREM PipelineTypeCorrect == Spec => []PipelineTypeOK
  <1>1. Spec => []TypeInv
    BY TypeInit, TypeStep, PTL DEF Spec
  <1> QED
    BY <1>1, TypeInvImpliesTypeOK, PTL
-----------------------------------------------------------------------------
HasError(channel) == \E i \in 1..Len(channel) : channel[i].kind = "error"

\* As long as somebody reads, the error of each file that failed is on its way.
ErrorsOnTheirWay ==
  reader = "reading" => \A f \in failed : task[f] = "failing" \/ HasError(final)

\* The coalescer outlives the dispatcher, unless nobody reads.
StagesInOrder ==
  coalescer = "last" \/ (coalescer = "done" /\ reader = "reading") => dispatcher = "done"

\* A query is complete only when every stage has ended.
CompleteIsLast == client = "complete" => AllTasksDone

ErrorInv ==
  TypeInv /\ StagesInOrder /\ ErrorsOnTheirWay /\ CompleteIsLast /\ NoErrorSwallowed

LEMMA ErrorAppended ==
  ASSUME NEW channel \in Seq(Message), NEW m \in Message
  PROVE  /\ HasError(channel) => HasError(Append(channel, m))
         /\ m.kind = "error" => HasError(Append(channel, m))
  <1> DEFINE longer == Append(channel, m)
  <1>1. /\ Len(longer) = Len(channel) + 1
        /\ Len(channel) \in Nat
        /\ \A i \in 1..Len(channel) : longer[i] = channel[i]
        /\ longer[Len(channel) + 1] = m
    OBVIOUS
  <1> HIDE DEF longer
  <1>2. HasError(channel) => HasError(longer)
    BY <1>1 DEF HasError
  <1>3. m.kind = "error" => HasError(longer)
    BY <1>1 DEF HasError
  <1> QED
    BY <1>2, <1>3 DEF longer

LEMMA ErrorNotRead ==
  ASSUME NEW channel \in Seq(Message), channel # <<>>, Head(channel).kind # "error",
         HasError(channel)
  PROVE  HasError(Tail(channel))
  <1>1. PICK i \in 1..Len(channel) : channel[i].kind = "error"
    BY DEF HasError
  <1>2. i # 1
    BY <1>1
  <1>3. /\ Len(channel) \in Nat
        /\ i - 1 \in 1..Len(Tail(channel))
        /\ Tail(channel)[i - 1] = channel[i]
    BY <1>2
  <1> QED
    BY <1>1, <1>3 DEF HasError

LEMMA ErrorInit == Init => ErrorInv
  <1> SUFFICES ASSUME Init PROVE ErrorInv
    OBVIOUS
  <1> QED
    BY TypeInit DEF Init, ErrorInv, StagesInOrder, ErrorsOnTheirWay, CompleteIsLast, NoErrorSwallowed

LEMMA ErrorStep == ErrorInv /\ [Next]_vars => ErrorInv'
  <1> SUFFICES ASSUME ErrorInv, [Next]_vars PROVE ErrorInv'
    OBVIOUS
  <1>0. TypeInv /\ TypeInv'
    BY TypeStep DEF ErrorInv
  <1>a. final \in Seq(Message) /\ task \in [Files -> {"waiting", "running", "failing", "done"}]
        /\ failed \subseteq Files /\ failed' \subseteq Files
    BY <1>0 DEF TypeInv, FinalTypes, IoTypes
  <1> USE DEF ErrorInv, StagesInOrder, ErrorsOnTheirWay, CompleteIsLast, NoErrorSwallowed
  <1>1. ASSUME NEW f \in Files, IoStep(f) \/ SkipFile(f) \/ FailTask(f) PROVE ErrorInv'
    <2>1. /\ client # "complete" /\ client' = client /\ reader' = reader
          /\ dispatcher' = dispatcher /\ coalescer' = coalescer
      BY <1>1 DEF IoStep, StartTask, SendBatch, EndTask, SendError, SkipFile, FailTask,
         readVars, cpuVars, coalesceVars, AllTasksDone
    <2>2. CASE SendError(f)
      <3>1. Error \in Message /\ Error.kind = "error"
        BY EmptyChannel DEF Error, Message
      <3>2. reader = "reading" => HasError(final')
        BY <1>a, <2>2, <3>1, ErrorAppended DEF SendError
      <3> QED
        BY <1>0, <2>1, <3>2
    <2>3. CASE (IoStep(f) /\ ~SendError(f)) \/ SkipFile(f) \/ FailTask(f)
      <3>1. final' = final /\ failed' \in {failed, failed \cup {f}}
        BY <2>3 DEF IoStep, StartTask, SendBatch, EndTask, SkipFile, FailTask
      <3>2. \A g \in failed' : g \in failed /\ task[g] = "failing" => task'[g] = "failing"
        BY <1>a, <2>3 DEF IoStep, StartTask, SendBatch, EndTask, SkipFile, FailTask
      <3>3. f \in failed' \ failed => task'[f] = "failing"
        BY <1>a, <2>3 DEF IoStep, StartTask, SendBatch, EndTask, SkipFile, FailTask
      <3> QED
        BY <1>0, <2>1, <3>1, <3>2, <3>3
    <2> QED
      BY <1>1, <2>2, <2>3
  <1>2. CASE CpuStep
    <2>1. ASSUME NEW batch \in in_flight, Panic(batch) PROVE ErrorInv'
      BY <1>0, <2>1 DEF Panic
    <2>2. CASE Receive \/ SendOutput \/ Drained \/ \E batch \in in_flight : Collect(batch)
      <3>1. UNCHANGED <<ioVars, final, readVars, coalescer>> /\ dispatcher # "done"
        BY <2>2 DEF Receive, SendOutput, Drained, Collect, coalesceVars
      <3>2. client # "complete"
        BY <3>1 DEF AllTasksDone
      <3> QED
        BY <1>0, <3>1, <3>2 DEF ioVars, readVars
    <2> QED
      BY <1>2, <2>1, <2>2 DEF CpuStep
  <1>3. CASE CoalesceStep \/ ConcatFails
    <2>1. UNCHANGED <<ioVars, readVars>> /\ coalescer # "done"
      BY <1>3 DEF CoalesceStep, Gather, OutputEnds, Flush, ConcatFails
    <2>2. client # "complete"
      BY <2>1 DEF AllTasksDone
    <2>3. HasError(final) => HasError(final')
      <3>1. CASE final' = final
        BY <3>1
      <3>2. CASE Flush /\ final' = Append(final, Answer(pending))
        <4>1. Answer(pending) \in Message
          BY <1>0 DEF TypeInv, CoalesceTypes, Answer, Message
        <4> QED
          BY <1>a, <3>2, <4>1, ErrorAppended
      <3> QED
        BY <1>3, <3>1, <3>2 DEF CoalesceStep, Gather, OutputEnds, Flush, ConcatFails
    <2>4. StagesInOrder'
      BY <1>3, <2>1 DEF CoalesceStep, Gather, OutputEnds, Flush, ConcatFails, OutputClosed,
         cpuVars, readVars
    <2> QED
      BY <1>0, <2>1, <2>2, <2>3, <2>4 DEF ioVars, readVars
  <1>4. CASE Read
    <2>1. /\ UNCHANGED <<ioVars, dispatcher, coalescer>>
          /\ reader = "reading" /\ client # "complete"
      BY <1>4 DEF Read, AllTasksDone, cpuVars, coalesceVars
    <2>2. client' # "complete"
      BY <1>4, <2>1 DEF Read, ClientHears
    <2>3. reader' = "reading" => Head(final).kind # "error" /\ final' = Tail(final) /\ final # <<>>
      BY <1>4, <1>a DEF Read
    <2>4. reader' = "reading" /\ HasError(final) => HasError(final')
      BY <1>a, <2>3, ErrorNotRead
    <2> QED
      BY <1>0, <2>1, <2>2, <2>4 DEF ioVars
  <1>5. CASE ReadToEnd
    <2>1. /\ UNCHANGED <<ioVars, dispatcher, coalescer>> /\ reader' = "done"
          /\ dispatcher = "done" /\ coalescer = "done" /\ final = <<>>
          /\ reader = "reading" /\ \A f \in Files : task[f] = "done"
      BY <1>5 DEF ReadToEnd, FinalClosed, InputClosed, cpuVars, coalesceVars
    <2>2. AllTasksDone'
      BY <2>1 DEF AllTasksDone, ioVars
    <2>3. failed' = {}
      BY <1>a, <2>1 DEF HasError, ioVars
    <2> QED
      BY <1>0, <2>1, <2>2, <2>3
  <1>6. CASE Leave
    BY <1>0, <1>6 DEF Leave, ioVars, cpuVars, coalesceVars
  <1>7. CASE UNCHANGED vars
    BY <1>0, <1>7 DEF vars, ioVars, cpuVars, coalesceVars, readVars, AllTasksDone
  <1> QED
    BY <1>1, <1>2, <1>3, <1>4, <1>5, <1>6, <1>7 DEF Next, ReadStep

(***************************************************************************)
(* A query that ends well met no read error.                               *)
(***************************************************************************)
THEOREM NoErrorIsSwallowed == Spec => []NoErrorSwallowed
  <1>1. Spec => []ErrorInv
    BY ErrorInit, ErrorStep, PTL DEF Spec
  <1>2. ErrorInv => NoErrorSwallowed
    BY DEF ErrorInv
  <1> QED
    BY <1>1, <1>2, PTL

-----------------------------------------------------------------------------
(***************************************************************************)
(* What a query that ends well has received, for any files, channels,      *)
(* permits and threads.  While somebody reads and no concat fails, each    *)
(* matching batch is in exactly one place of the pipeline, until a limit   *)
(* cuts the query short; each step moves batches from one place to the     *)
(* next, and the dispatcher has counted the rows of those that passed it.  *)
(* When the stages end, one after the other, all places but the last are   *)
(* empty.                                                                  *)
(***************************************************************************)

\* While this holds, the pipeline loses nothing that it has counted.
Flowing == reader = "reading" /\ ~unjoined

\* The dispatcher ended with enough rows for the limit, and dropped the rest.
Cut == dispatcher = "done" /\ EarlyLimitReached(rows_matched)

Unsent == {b \in Batch : b[2] > sent[b[1]]}
InSending == IF dispatcher = "send" THEN {sending} ELSE {}
In(messages) == UNION {ToSet(messages[k].batches) : k \in 1..Len(messages)}

Places == {"unsent", "input", "jobs", "sending", "output", "pending", "final", "got"}
Where ==
  [unsent |-> Unsent, input |-> ToSet(input), jobs |-> in_flight, sending |-> InSending,
   output |-> ToSet(output), pending |-> ToSet(pending), final |-> In(final),
   got |-> ToSet(got)]

\* The batches whose rows the dispatcher has counted, and the sum of their rows.
Counting == {"sending", "output", "pending", "final", "got"}
Found(P) == UNION {P[p] : p \in Counting}
Total(S) == MapThenSumSet(Matches, S)

Apart(P) == \A p, q \in Places : p # q => P[p] \cap P[q] = {}
Somewhere(P, b) == \E p \in Places : b \in P[p]

OnceEach(s) == \A i, j \in 1..Len(s) : s[i] = s[j] => i = j
OnceIn(messages) ==
  /\ \A k \in 1..Len(messages) : OnceEach(messages[k].batches)
  /\ \A k, l \in 1..Len(messages) :
       k # l => ToSet(messages[k].batches) \cap ToSet(messages[l].batches) = {}

Matched == {b \in Batch : Matches(b) > 0}

Located ==
  /\ Apart(Where)
  /\ ~Cut => \A b \in Matched : Somewhere(Where, b)
  /\ rows_matched = Total(Found(Where))

Conserved ==
  /\ Located
  /\ OnceEach(input) /\ OnceEach(output) /\ OnceEach(pending) /\ OnceEach(got)
  /\ OnceIn(final)
  /\ InSending \subseteq Matched /\ ToSet(output) \subseteq Matched
  /\ ToSet(pending) \subseteq Matched
  /\ In(final) \subseteq Matched /\ ToSet(got) \subseteq Matched

Orderly ==
  /\ dispatcher = "done" => input = <<>> /\ in_flight = {} /\ (Cut \/ InputClosed)
  /\ coalescer \in {"last", "done"} => dispatcher = "done" /\ output = <<>>
  /\ coalescer = "done" => pending = <<>>
  /\ \A f \in Files : task[f] = "done" =>
       sent[f] = Len(Work[f]) \/ f \in skipped \/ f \in failed \/ Cut

\* What the history says of a task.
TaskInv ==
  /\ \A f \in skipped : sent[f] = 0 /\ task[f] = "done"
  /\ \A f \in Files : task[f] = "failing" => f \in failed

FlowInv ==
  /\ ErrorInv
  /\ TaskInv
  /\ Flowing => Conserved /\ Orderly
  /\ EveryMatchOnce
  /\ LimitFilled
  /\ StatsMatchRows
-----------------------------------------------------------------------------
(***************************************************************************)
(* Places: what moves from one to another is still in one place only.      *)
(***************************************************************************)
LEMMA Moved ==
  ASSUME NEW P, NEW Q, NEW p \in Places, NEW q \in Places, p # q,
         NEW M, M \subseteq P[p], Q[p] = P[p] \ M, Q[q] = P[q] \cup M,
         \A r \in Places \ {p, q} : Q[r] = P[r],
         Apart(P)
  PROVE  /\ Apart(Q)
         /\ \A b : Somewhere(P, b) => Somewhere(Q, b)
         /\ (p \in Counting <=> q \in Counting) => Found(Q) = Found(P)
         /\ p \notin Counting /\ q \in Counting => Found(Q) = Found(P) \cup M
  <1>1. ASSUME NEW r \in Places, NEW s \in Places, r # s PROVE Q[r] \cap Q[s] = {}
    <2>1. P[p] \cap P[q] = {} /\ P[r] \cap P[s] = {} /\ (P[p] \cap P[s] = {} \/ s = p)
      BY <1>1 DEF Apart
    <2>2. P[p] \cap P[r] = {} \/ r = p
      BY <1>1 DEF Apart
    <2>3. r \in {p, q} \/ Q[r] = P[r]
      OBVIOUS
    <2>4. s \in {p, q} \/ Q[s] = P[s]
      OBVIOUS
    <2> QED
      BY <1>1, <2>1, <2>2, <2>3, <2>4 DEF Apart
  <1>2. ASSUME NEW b, NEW r \in Places, b \in P[r] PROVE Somewhere(Q, b)
    <2>1. CASE b \in M
      BY <2>1 DEF Somewhere
    <2>2. CASE b \notin M
      <3>1. b \in Q[r]
        BY <1>2, <2>2
      <3> QED
        BY <3>1 DEF Somewhere
    <2> QED
      BY <2>1, <2>2
  <1>3. Counting \subseteq Places
    BY DEF Counting, Places
  <1>4. ASSUME p \in Counting <=> q \in Counting PROVE Found(Q) = Found(P)
    <2>1. \A r \in Counting : Q[r] \subseteq Found(P)
      BY <1>3, <1>4 DEF Found
    <2>2. ASSUME NEW r \in Counting, NEW b \in P[r] PROVE b \in Found(Q)
      <3>1. CASE r = p /\ b \in M
        BY <1>4, <3>1 DEF Found
      <3>2. CASE r # p \/ b \notin M
        <4>1. b \in Q[r]
          BY <1>3, <2>2, <3>2
        <4> QED
          BY <2>2, <4>1 DEF Found
      <3> QED
        BY <3>1, <3>2
    <2> QED
      BY <2>1, <2>2 DEF Found
  <1>5. ASSUME p \notin Counting, q \in Counting PROVE Found(Q) = Found(P) \cup M
    <2>1. \A r \in Counting : r # q => Q[r] = P[r]
      BY <1>3, <1>5
    <2> QED
      BY <1>5, <2>1 DEF Found
  <1> QED
    BY <1>1, <1>2, <1>4, <1>5 DEF Apart, Somewhere

(***************************************************************************)
(* Channels: what a send, a receive and a concatenation do to them.        *)
(***************************************************************************)
LEMMA Elements ==
  ASSUME NEW S, NEW s \in Seq(S)
  PROVE  ToSet(s) = {s[i] : i \in 1..Len(s)} /\ ToSet(s) \subseteq S
  BY DEF ToSet

LEMMA SentOnce ==
  ASSUME NEW S, NEW s \in Seq(S), NEW x \in S
  PROVE  /\ ToSet(Append(s, x)) = ToSet(s) \cup {x}
         /\ OnceEach(s) /\ x \notin ToSet(s) => OnceEach(Append(s, x))
  <1> DEFINE longer == Append(s, x)
  <1>1. /\ Len(longer) = Len(s) + 1 /\ Len(s) \in Nat
        /\ \A i \in 1..Len(s) : longer[i] = s[i]
        /\ longer[Len(s) + 1] = x
        /\ longer \in Seq(S)
    OBVIOUS
  <1> HIDE DEF longer
  <1>2. ToSet(longer) = ToSet(s) \cup {x}
    BY <1>1, Elements
  <1>3. OnceEach(s) /\ x \notin ToSet(s) => OnceEach(longer)
    BY <1>1, Elements DEF OnceEach
  <1> QED
    BY <1>2, <1>3 DEF longer

LEMMA ReceivedOnce ==
  ASSUME NEW S, NEW s \in Seq(S), s # <<>>, OnceEach(s)
  PROVE  /\ Head(s) \in ToSet(s)
         /\ ToSet(Tail(s)) = ToSet(s) \ {Head(s)}
         /\ OnceEach(Tail(s))
  <1> DEFINE rest == Tail(s)
  <1>1. /\ rest \in Seq(S) /\ Len(s) \in Nat \ {0} /\ Len(rest) = Len(s) - 1
        /\ Head(s) = s[1]
        /\ \A i \in 1..Len(rest) : rest[i] = s[i + 1]
    OBVIOUS
  <1> HIDE DEF rest
  <1>2. Head(s) \in ToSet(s)
    BY <1>1, Elements
  <1>3. ToSet(rest) = {rest[i] : i \in 1..Len(rest)} /\ ToSet(s) = {s[i] : i \in 1..Len(s)}
    BY <1>1, Elements
  <1>4. ASSUME NEW b \in ToSet(s) \ {Head(s)} PROVE b \in ToSet(rest)
    <2>1. PICK i \in 1..Len(s) : b = s[i]
      BY <1>3
    <2>2. i # 1
      BY <1>1, <1>4, <2>1
    <2>3. i - 1 \in 1..Len(rest) /\ rest[i - 1] = s[i]
      BY <1>1, <2>2
    <2> QED
      BY <1>3, <2>1, <2>3
  <1>5. ASSUME NEW b \in ToSet(rest) PROVE b \in ToSet(s) \ {Head(s)}
    <2>1. PICK i \in 1..Len(rest) : b = rest[i]
      BY <1>3
    <2>2. i + 1 \in 1..Len(s) /\ b = s[i + 1] /\ 1 \in 1..Len(s) /\ i + 1 # 1
      BY <1>1, <2>1
    <2>3. s[i + 1] # s[1]
      BY <2>2 DEF OnceEach
    <2> QED
      BY <1>1, <1>3, <2>2, <2>3
  <1>6. OnceEach(rest)
    <2> SUFFICES ASSUME NEW i \in 1..Len(rest), NEW j \in 1..Len(rest), rest[i] = rest[j]
                 PROVE  i = j
      BY DEF OnceEach
    <2>1. i + 1 \in 1..Len(s) /\ j + 1 \in 1..Len(s) /\ s[i + 1] = s[j + 1]
      BY <1>1
    <2>2. i + 1 = j + 1
      BY <2>1 DEF OnceEach
    <2> QED
      BY <2>2
  <1> QED
    BY <1>2, <1>4, <1>5, <1>6 DEF rest

LEMMA JoinedOnce ==
  ASSUME NEW S, NEW s \in Seq(S), NEW t \in Seq(S)
  PROVE  /\ ToSet(s \o t) = ToSet(s) \cup ToSet(t)
         /\ OnceEach(s) /\ OnceEach(t) /\ ToSet(s) \cap ToSet(t) = {} => OnceEach(s \o t)
  <1> DEFINE both == s \o t
  <1>1. /\ both \in Seq(S) /\ Len(s) \in Nat /\ Len(t) \in Nat
        /\ Len(both) = Len(s) + Len(t)
        /\ \A i \in 1..Len(s) : both[i] = s[i]
        /\ \A i \in 1..Len(t) : both[Len(s) + i] = t[i]
    OBVIOUS
  <1> HIDE DEF both
  <1>2. /\ ToSet(both) = {both[i] : i \in 1..Len(both)}
        /\ ToSet(s) = {s[i] : i \in 1..Len(s)}
        /\ ToSet(t) = {t[i] : i \in 1..Len(t)}
    BY <1>1, Elements
  <1>3. ASSUME NEW i \in 1..Len(both)
        PROVE  \/ i \in 1..Len(s) /\ both[i] = s[i]
               \/ i - Len(s) \in 1..Len(t) /\ both[i] = t[i - Len(s)]
    <2>1. CASE i <= Len(s)
      BY <1>1, <2>1
    <2>2. CASE i > Len(s)
      <3>1. i - Len(s) \in 1..Len(t) /\ Len(s) + (i - Len(s)) = i
        BY <1>1, <2>2
      <3> QED
        BY <1>1, <3>1
    <2> QED
      BY <1>1, <2>1, <2>2
  <1>4. \A i \in 1..Len(t) : Len(s) + i \in 1..Len(both)
    BY <1>1
  <1>5. 1..Len(s) \subseteq 1..Len(both)
    BY <1>1
  <1>6. ToSet(both) = ToSet(s) \cup ToSet(t)
    BY <1>1, <1>2, <1>3, <1>4, <1>5
  <1>7. ASSUME OnceEach(s), OnceEach(t), ToSet(s) \cap ToSet(t) = {} PROVE OnceEach(both)
    <2> SUFFICES ASSUME NEW i \in 1..Len(both), NEW j \in 1..Len(both), both[i] = both[j]
                 PROVE  i = j
      BY DEF OnceEach
    <2>1. CASE i \in 1..Len(s) /\ j \in 1..Len(s)
      BY <1>1, <1>7, <2>1 DEF OnceEach
    <2>2. CASE i \notin 1..Len(s) /\ j \notin 1..Len(s)
      <3>1. i - Len(s) = j - Len(s)
        BY <1>3, <1>7, <2>2 DEF OnceEach
      <3> QED
        BY <1>1, <3>1
    <2>3. CASE i \in 1..Len(s) /\ j \notin 1..Len(s)
      BY <1>1, <1>2, <1>3, <1>7, <2>3
    <2>4. CASE i \notin 1..Len(s) /\ j \in 1..Len(s)
      BY <1>1, <1>2, <1>3, <1>7, <2>4
    <2> QED
      BY <2>1, <2>2, <2>3, <2>4
  <1> QED
    BY <1>6, <1>7 DEF both

LEMMA EmptyOnce == ToSet(<<>>) = {} /\ OnceEach(<<>>) /\ In(<<>>) = {} /\ OnceIn(<<>>)
  BY DEF ToSet, OnceEach, In, OnceIn

(***************************************************************************)
(* The same for a channel of messages.                                     *)
(***************************************************************************)
LEMMA MessageSent ==
  ASSUME NEW s \in Seq(Message), NEW m \in Message
  PROVE  /\ In(Append(s, m)) = In(s) \cup ToSet(m.batches)
         /\ OnceIn(s) /\ OnceEach(m.batches) /\ In(s) \cap ToSet(m.batches) = {}
              => OnceIn(Append(s, m))
  <1> DEFINE longer == Append(s, m)
  <1>1. /\ Len(longer) = Len(s) + 1 /\ Len(s) \in Nat
        /\ \A i \in 1..Len(s) : longer[i] = s[i]
        /\ longer[Len(s) + 1] = m
    OBVIOUS
  <1> HIDE DEF longer
  <1>2. \A k \in 1..Len(longer) : k \in 1..Len(s) \/ k = Len(s) + 1
    BY <1>1
  <1>3. 1..Len(s) \subseteq 1..Len(longer) /\ Len(s) + 1 \in 1..Len(longer)
    BY <1>1
  <1>4. In(longer) = In(s) \cup ToSet(m.batches)
    BY <1>1, <1>2, <1>3 DEF In
  <1>5. ASSUME OnceIn(s), OnceEach(m.batches), In(s) \cap ToSet(m.batches) = {}
        PROVE  OnceIn(longer)
    <2>1. \A k \in 1..Len(longer) : OnceEach(longer[k].batches)
      BY <1>1, <1>2, <1>5 DEF OnceIn
    <2>2. \A k \in 1..Len(s) : ToSet(s[k].batches) \subseteq In(s)
      BY DEF In
    <2>3. ASSUME NEW k \in 1..Len(longer), NEW l \in 1..Len(longer), k # l
          PROVE  ToSet(longer[k].batches) \cap ToSet(longer[l].batches) = {}
      <3>1. CASE k \in 1..Len(s) /\ l \in 1..Len(s)
        BY <1>1, <1>5, <2>3, <3>1 DEF OnceIn
      <3>2. CASE k \in 1..Len(s) /\ l = Len(s) + 1
        BY <1>1, <1>5, <2>2, <3>2
      <3>3. CASE k = Len(s) + 1 /\ l \in 1..Len(s)
        BY <1>1, <1>5, <2>2, <3>3
      <3> QED
        BY <1>2, <2>3, <3>1, <3>2, <3>3
    <2> QED
      BY <2>1, <2>3 DEF OnceIn
  <1> QED
    BY <1>4, <1>5 DEF longer

LEMMA MessageReceived ==
  ASSUME NEW s \in Seq(Message), s # <<>>, OnceIn(s)
  PROVE  /\ ToSet(Head(s).batches) \subseteq In(s)
         /\ In(Tail(s)) = In(s) \ ToSet(Head(s).batches)
         /\ OnceEach(Head(s).batches)
         /\ OnceIn(Tail(s))
  <1> DEFINE rest == Tail(s)
  <1>1. /\ Len(s) \in Nat \ {0} /\ Len(rest) = Len(s) - 1
        /\ Head(s) = s[1] /\ 1 \in 1..Len(s)
        /\ \A i \in 1..Len(rest) : rest[i] = s[i + 1] /\ i + 1 \in 1..Len(s) /\ i + 1 # 1
    OBVIOUS
  <1>2. \A i \in 1..Len(s) : i # 1 => i - 1 \in 1..Len(rest) /\ rest[i - 1] = s[i]
    OBVIOUS
  <1> HIDE DEF rest
  <1>3. ToSet(Head(s).batches) \subseteq In(s) /\ OnceEach(Head(s).batches)
    BY <1>1 DEF In, OnceIn
  <1>4. ASSUME NEW b \in In(s) \ ToSet(Head(s).batches) PROVE b \in In(rest)
    <2>1. PICK i \in 1..Len(s) : b \in ToSet(s[i].batches)
      BY DEF In
    <2>2. i # 1
      BY <1>1, <1>4, <2>1
    <2> QED
      BY <1>2, <2>1, <2>2 DEF In
  <1>5. ASSUME NEW b \in In(rest) PROVE b \in In(s) \ ToSet(Head(s).batches)
    <2>1. PICK i \in 1..Len(rest) : b \in ToSet(rest[i].batches)
      BY DEF In
    <2>2. b \in ToSet(s[i + 1].batches) /\ i + 1 \in 1..Len(s) /\ i + 1 # 1
      BY <1>1, <2>1
    <2>3. ToSet(s[i + 1].batches) \cap ToSet(s[1].batches) = {}
      BY <1>1, <2>2 DEF OnceIn
    <2> QED
      BY <1>1, <2>2, <2>3 DEF In
  <1>6. OnceIn(rest)
    <2>1. \A k \in 1..Len(rest) : OnceEach(rest[k].batches)
      BY <1>1 DEF OnceIn
    <2>2. ASSUME NEW k \in 1..Len(rest), NEW l \in 1..Len(rest), k # l
          PROVE  ToSet(rest[k].batches) \cap ToSet(rest[l].batches) = {}
      <3>1. k + 1 \in 1..Len(s) /\ l + 1 \in 1..Len(s) /\ k + 1 # l + 1
        BY <1>1, <2>2
      <3> QED
        BY <1>1, <3>1 DEF OnceIn
    <2> QED
      BY <2>1, <2>2 DEF OnceIn
  <1> QED
    BY <1>3, <1>4, <1>5, <1>6 DEF rest
(***************************************************************************)
(* Rows: the sum over a set of batches, and over a sequence of them.       *)
(***************************************************************************)
LEMMA BatchFinite == IsFiniteSet(Batch)
  <1> DEFINE Of(f) == {<<f, i>> : i \in 1..Len(Work[f])}
             All == {Of(f) : f \in Files}
  <1>1. \A f \in Files : DOMAIN Work[f] = 1..Len(Work[f]) /\ Len(Work[f]) \in Nat
    BY PipelineAssumption
  <1>2. ASSUME NEW f \in Files PROVE IsFiniteSet(Of(f))
    <2>1. IsFiniteSet(1..Len(Work[f]))
      BY <1>1, FS_Interval
    <2>2. [i \in 1..Len(Work[f]) |-> <<f, i>>] \in Surjection(1..Len(Work[f]), Of(f))
      BY DEF Surjection
    <2> QED
      BY <2>1, <2>2, FS_Surjection
  <1>3. IsFiniteSet(All)
    <2>1. [f \in Files |-> Of(f)] \in Surjection(Files, All)
      BY DEF Surjection
    <2> QED
      BY <2>1, PipelineAssumption, FS_Surjection
  <1>4. \A S \in All : IsFiniteSet(S)
    BY <1>2
  <1>5. Batch = UNION All
    BY <1>1 DEF Batch
  <1> HIDE DEF All
  <1> QED
    BY <1>3, <1>4, <1>5, FS_UNION

\* The sum as a function that takes any of the batches first.
LEMMA TotalIsSum ==
  \E g \in [SUBSET Batch -> Nat] :
    /\ g[{}] = 0
    /\ \A S \in SUBSET Batch : Total(S) = g[S] /\ \A b \in S : g[S] = Matches(b) + g[S \ {b}]
  <1>1. PICK f \in [Batch -> Nat] : \A b \in Batch : f[b] = Matches(b)
    <2>1. [b \in Batch |-> Matches(b)] \in [Batch -> Nat]
      BY BatchFacts
    <2> QED
      BY <2>1
  <1>2. f \in [Batch -> Nat] /\ IsFiniteSet(Batch)
    BY BatchFinite
  <1>3. PICK g \in [SUBSET Batch -> Nat] : IsSum(g, f, Batch)
    BY <1>2, SumExists
  <1>4. g[{}] = 0
    BY <1>3 DEF IsSum
  <1>5. \A S \in SUBSET Batch : \A b \in S : g[S] = Matches(b) + g[S \ {b}]
    <2>1. AddsUp(g, f, Batch)
      BY <1>2, <1>3, SumAnyOrder
    <2> QED
      BY <1>1, <2>1 DEF AddsUp
  <1>6. ASSUME NEW S \in SUBSET Batch PROVE Total(S) = g[S]
    <2> DEFINE Step(h, s) == IF s = {} THEN 0 ELSE Matches(Some(s)) + h[s \ {Some(s)}]
               c == CHOOSE h : h = [s \in SUBSET S |-> Step(h, s)]
    <2>1. Total(S) = c[S]
      BY DEF Total, MapThenSumSet, MapThenFoldSet, Some
    <2>2. \A s \in SUBSET S : s # {} => Some(s) \in Batch
      BY DEF Some
    <2>3. IsFiniteSet(S) /\ [b \in S |-> f[b]] \in [S -> Nat]
      BY <1>1, BatchFinite, FS_Subset
    <2>4. \E h : h = [s \in SUBSET S |-> Step(h, s)]
      <3>1. PICK h : IsSum(h, [b \in S |-> f[b]], S)
        BY <2>3, SumExists
      <3>2. ASSUME NEW s \in SUBSET S, s # {}
            PROVE  [b \in S |-> f[b]][Some(s)] = Matches(Some(s))
        BY <1>1, <2>2, <3>2 DEF Some
      <3>3. h = [s \in SUBSET S |-> Step(h, s)]
        BY <3>1, <3>2 DEF IsSum
      <3> QED
        BY <3>3
    <2>5. c = [s \in SUBSET S |-> Step(c, s)]
      BY <2>4
    <2> HIDE DEF c
    <2>6. IsSum(c, f, S)
      BY <1>1, <2>2, <2>5 DEF IsSum
    <2> QED
      BY <1>3, <2>1, <2>6, BatchFinite, SumUnique
  <1> QED
    BY <1>4, <1>5, <1>6

LEMMA TotalFacts ==
  /\ Total({}) = 0
  /\ \A S \in SUBSET Batch : Total(S) \in Nat
  /\ \A S \in SUBSET Batch : \A b \in S : Total(S) = Matches(b) + Total(S \ {b})
  BY TotalIsSum

LEMMA TotalGrows ==
  ASSUME NEW S \in SUBSET Batch, NEW T \in SUBSET S
  PROVE  Total(T) <= Total(S)
  <1> DEFINE P == {n \in Nat : \A X \in SUBSET S : Cardinality(X) = n /\ T \subseteq X
                                  => Total(T) <= Total(X)}
  <1>0. IsFiniteSet(S)
    BY BatchFinite, FS_Subset
  <1>1. 0 \in P
    <2> SUFFICES ASSUME NEW X \in SUBSET S, Cardinality(X) = 0, T \subseteq X
                 PROVE  Total(T) <= Total(X)
      OBVIOUS
    <2>1. X = T
      BY <1>0, SubsetSizes
    <2> QED
      BY <2>1, TotalFacts
  <1>2. ASSUME NEW n \in Nat, n \in P PROVE n + 1 \in P
    <2> SUFFICES ASSUME NEW X \in SUBSET S, Cardinality(X) = n + 1, T \subseteq X
                 PROVE  Total(T) <= Total(X)
      OBVIOUS
    <2>1. CASE X = T
      BY <2>1, TotalFacts
    <2>2. CASE X # T
      <3>1. PICK b \in X : b \notin T
        BY <2>2
      <3>2. Cardinality(X \ {b}) = n
        BY <1>0, SubsetSizes
      <3>3. Total(T) <= Total(X \ {b})
        BY <1>2, <3>1, <3>2
      <3>4. Total(X) = Matches(b) + Total(X \ {b}) /\ Matches(b) \in Nat
        BY TotalFacts, BatchFacts
      <3>5. Total(T) \in Nat /\ Total(X \ {b}) \in Nat
        BY TotalFacts
      <3> QED
        BY <3>3, <3>4, <3>5
    <2> QED
      BY <2>1, <2>2
  <1>3. Nat \subseteq P
    <2> HIDE DEF P
    <2> QED
      BY <1>1, <1>2, Induction
  <1> QED
    BY <1>0, <1>3, SubsetSizes

\* Batches received once each: what the reader adds up is the sum over their set.
LEMMA RowsOfDistinct ==
  ASSUME NEW s \in Seq(Batch), OnceEach(s)
  PROVE  Rows(s) = Total(ToSet(s))
  <1> DEFINE n == Len(s)
             Step(h, S) == IF S = {} THEN 0 ELSE h[S \ {Max(S)}] + Matches(s[Max(S)])
             c == CHOOSE h : h = [S \in SUBSET DOMAIN s |-> Step(h, S)]
             step == [p \in Nat \X (1..n) |-> p[1] + Matches(s[p[2]])]
  <1>0. n \in Nat /\ DOMAIN s = 1..n /\ \A i \in 1..n : s[i] \in Batch /\ Matches(s[i]) \in Nat
    BY BatchFacts
  <1>1. Rows(s) = c[1..n]
    BY <1>0 DEF Rows, FoldLeft, MapThenFoldSet
  <1>2. PICK g \in [SUBSET (1..n) -> Nat] : IsFold(g, 0, step, n)
    <2>1. step \in [Nat \X (1..n) -> Nat]
      BY <1>0
    <2> HIDE DEF step, n
    <2> QED
      BY <1>0, <2>1, FoldExists
  <1>3. \A S \in SUBSET (1..n) : S # {} => Max(S) \in 1..n /\ S \ {Max(S)} \in SUBSET (1..n)
    <2> HIDE DEF n
    <2> SUFFICES ASSUME NEW S \in SUBSET (1..n), S # {}
                 PROVE  Max(S) \in 1..n /\ S \ {Max(S)} \in SUBSET (1..n)
      OBVIOUS
    <2>1. S \in SUBSET (0..n)
      <3>1. 1..n \subseteq 0..n
        BY <1>0
      <3> QED
        BY <3>1
    <2>2. Max(S) \in S
      BY <1>0, <2>1, MaxOfNumbers
    <2> QED
      BY <2>2
  <1>4. g = [S \in SUBSET DOMAIN s |-> Step(g, S)]
    BY <1>0, <1>2, <1>3 DEF IsFold
  <1>5. c = [S \in SUBSET DOMAIN s |-> Step(c, S)]
    BY <1>4
  <1> HIDE DEF c
  <1> DEFINE Of(k) == {s[i] : i \in 1..k}
             P == {k \in Nat : k <= n => c[1..k] = Total(Of(k))}
  <1>6. 0 \in P
    <2>1. 1..0 = {} /\ Of(0) = {}
      OBVIOUS
    <2> QED
      BY <1>0, <1>5, <2>1, TotalFacts
  <1>7. ASSUME NEW k \in Nat, k \in P PROVE k + 1 \in P
    <2> SUFFICES ASSUME k + 1 <= n PROVE c[1..k + 1] = Total(Of(k + 1))
      OBVIOUS
    <2>1. Max(1..k + 1) = k + 1 /\ (1..k + 1) \ {k + 1} = 1..k
      <3>1. k + 1 \in Nat \ {0} /\ (k + 1) - 1 = k
        OBVIOUS
      <3> QED
        BY <3>1, MaxOfInterval
    <2>2. k + 1 \in 1..n /\ 1..k + 1 \subseteq 1..n /\ 1..k \subseteq 1..n /\ 1..k + 1 # {}
      <3> HIDE DEF n
      <3>1. k + 1 \in 1..n /\ k + 1 \in 1..k + 1
        BY <1>0
      <3>2. 1..k + 1 \subseteq 1..n
        BY <1>0
      <3>3. 1..k \subseteq 1..n
        BY <1>0
      <3> QED
        BY <3>1, <3>2, <3>3
    <2>3. c[1..k + 1] = c[1..k] + Matches(s[k + 1])
      BY <1>0, <1>5, <2>1, <2>2
    <2>4. c[1..k] = Total(Of(k))
      BY <1>0, <1>7
    <2>5. s[k + 1] \notin Of(k)
      BY <1>0, <2>2 DEF OnceEach
    <2>6. Of(k + 1) = Of(k) \cup {s[k + 1]}
      BY <2>1
    <2>7. Of(k + 1) \subseteq Batch /\ s[k + 1] \in Of(k + 1) /\ Of(k + 1) \ {s[k + 1]} = Of(k)
      BY <1>0, <2>2, <2>5, <2>6
    <2> HIDE DEF Of
    <2>8. Total(Of(k + 1)) = Matches(s[k + 1]) + Total(Of(k)) /\ Total(Of(k)) \in Nat
      BY <2>7, TotalFacts
    <2> QED
      BY <1>0, <2>2, <2>3, <2>4, <2>8
  <1>8. Nat \subseteq P
    <2> HIDE DEF P
    <2> QED
      BY <1>6, <1>7, Induction
  <1>9. Of(n) = ToSet(s)
    BY <1>0, Elements
  <1> QED
    BY <1>0, <1>1, <1>8, <1>9
-----------------------------------------------------------------------------
LEMMA FlowInit == Init => FlowInv
  <1> SUFFICES ASSUME Init PROVE FlowInv
    OBVIOUS
  <1>1. \A b \in Batch : b \in Unsent
    BY BatchFacts DEF Init, Unsent
  <1>2. /\ InSending = {} /\ ToSet(input) = {} /\ ToSet(output) = {} /\ ToSet(pending) = {}
        /\ In(final) = {} /\ ToSet(got) = {} /\ in_flight = {}
    BY EmptyOnce DEF Init, InSending
  <1>3. \A p \in Places : p # "unsent" => Where[p] = {}
    BY <1>2 DEF Places, Where
  <1>4. Apart(Where)
    BY <1>3 DEF Apart
  <1>5. \A b \in Batch : Somewhere(Where, b)
    BY <1>1 DEF Somewhere, Places, Where
  <1>6. rows_matched = Total(Found(Where))
    <2>1. Counting \subseteq Places \ {"unsent"}
      BY DEF Counting, Places
    <2>2. Found(Where) = {}
      BY <1>3, <2>1 DEF Found
    <2> QED
      BY <2>2, TotalFacts DEF Init
  <1>7. Located
    BY <1>4, <1>5, <1>6 DEF Located, Matched
  <1>8. Conserved
    BY <1>2, <1>7, EmptyOnce DEF Conserved, Init
  <1>9. Orderly
    BY DEF Init, Orderly
  <1> QED
    BY <1>8, <1>9, ErrorInit DEF Init, FlowInv, TaskInv, EveryMatchOnce, LimitFilled, StatsMatchRows

\* Nothing comes back: who reads now has read before, and no concat had failed.
LEMMA StillFlowing == [Next]_vars /\ Flowing' => Flowing /\ query' = query
  <1> SUFFICES ASSUME [Next]_vars, Flowing' PROVE Flowing /\ query' = query
    OBVIOUS
  <1> USE DEF Flowing, WithScore
  <1>1. ASSUME NEW f \in Files, IoStep(f) \/ SkipFile(f) \/ FailTask(f)
        PROVE  Flowing /\ query' = query
    BY <1>1 DEF IoStep, StartTask, SendBatch, EndTask, SendError, SkipFile, FailTask,
       readVars, coalesceVars
  <1>2. CASE CpuStep
    BY <1>2 DEF CpuStep, Receive, Collect, Panic, SendOutput, Drained, readVars, coalesceVars
  <1>3. CASE CoalesceStep \/ ConcatFails
    BY <1>3 DEF CoalesceStep, Gather, OutputEnds, Flush, ConcatFails, readVars
  <1>4. CASE ReadStep \/ Leave
    BY <1>4 DEF ReadStep, Read, ReadToEnd, Leave, coalesceVars
  <1>5. CASE UNCHANGED vars
    BY <1>5 DEF vars, readVars, coalesceVars
  <1> QED
    BY <1>1, <1>2, <1>3, <1>4, <1>5 DEF Next

\* A task skips its file before it sends, and ends.
LEMMA TaskStep == FlowInv /\ [Next]_vars => TaskInv'
  <1> SUFFICES ASSUME FlowInv, [Next]_vars PROVE TaskInv'
    OBVIOUS
  <1>0. IoTypes /\ UnindexedFiles \subseteq Files
    BY DEF FlowInv, ErrorInv, TypeInv, Files
  <1> USE <1>0 DEF FlowInv, TaskInv, IoTypes
  <1>1. ASSUME NEW f \in Files, IoStep(f) \/ SkipFile(f) \/ FailTask(f)
        PROVE  TaskInv'
    BY <1>1 DEF IoStep, StartTask, SendBatch, EndTask, SendError, SkipFile, FailTask
  <1>2. ASSUME NEW batch \in in_flight, Panic(batch) PROVE TaskInv'
    BY <1>2 DEF Panic
  <1>3. CASE UNCHANGED ioVars
    BY <1>3 DEF ioVars
  <1>4. CASE CpuStep /\ ~\E batch \in in_flight : Panic(batch)
    BY <1>3, <1>4 DEF CpuStep, Receive, Collect, SendOutput, Drained
  <1>5. CASE CoalesceStep \/ ConcatFails \/ ReadStep \/ Leave \/ UNCHANGED vars
    BY <1>3, <1>5 DEF CoalesceStep, Gather, OutputEnds, Flush, ConcatFails, ReadStep, Read,
       ReadToEnd, Leave, vars
  <1> QED
    BY <1>1, <1>2, <1>4, <1>5 DEF Next

LEMMA Pairs == \A b \in Batch : b = <<b[1], b[2]>>
  BY DEF Batch
-----------------------------------------------------------------------------
\* What is in each place, before and after a step.
LEMMA Stations ==
  /\ Where["unsent"] = Unsent /\ Where["input"] = ToSet(input)
  /\ Where["jobs"] = in_flight /\ Where["sending"] = InSending
  /\ Where["output"] = ToSet(output) /\ Where["pending"] = ToSet(pending)
  /\ Where["final"] = In(final) /\ Where["got"] = ToSet(got)
  BY DEF Where

LEMMA StationsAfter ==
  /\ Where'["unsent"] = Unsent' /\ Where'["input"] = ToSet(input')
  /\ Where'["jobs"] = in_flight' /\ Where'["sending"] = InSending'
  /\ Where'["output"] = ToSet(output') /\ Where'["pending"] = ToSet(pending')
  /\ Where'["final"] = In(final') /\ Where'["got"] = ToSet(got')
  BY DEF Where

LEMMA CutKept ==
  ASSUME UNCHANGED <<dispatcher, rows_matched, query>> PROVE Cut' <=> Cut
  BY DEF Cut, EarlyLimitReached, WithScore

\* A step that moves nothing.
LEMMA ConservedKept ==
  ASSUME Conserved, UNCHANGED <<sent, input, in_flight, output, pending, got, rows_matched>>,
         Cut => Cut', InSending' = InSending, In(final') = In(final), OnceIn(final')
  PROVE  Conserved'
  <1>1. Where' = Where
    BY DEF Where, Unsent
  <1> QED
    BY <1>1 DEF Conserved, Located

\* A step that moves batches nearer to the reader, but not past the count.
LEMMA Passed ==
  ASSUME Located, NEW p \in Places, NEW q \in Places, p # q,
         p \in Counting <=> q \in Counting,
         NEW M, M \subseteq Where[p], Where'[p] = Where[p] \ M, Where'[q] = Where[q] \cup M,
         \A r \in Places \ {p, q} : Where'[r] = Where[r],
         Cut => Cut', rows_matched' = rows_matched
  PROVE  Located'
  <1>1. Apart(Where)
    BY DEF Located
  <1>2. /\ Apart(Where') /\ \A b : Somewhere(Where, b) => Somewhere(Where', b)
        /\ Found(Where') = Found(Where)
    BY <1>1, Moved
  <1> QED
    BY <1>2 DEF Located

LEMMA FoundInBatch == ASSUME TypeInv, Conserved PROVE Found(Where) \in SUBSET Batch
  <1>1. ToSet(got) \subseteq Batch /\ ToSet(output) \subseteq Batch /\ ToSet(pending) \subseteq Batch
    BY Elements DEF TypeInv, OutputTypes, CoalesceTypes, ReadTypes
  <1>2. In(final) \subseteq Batch /\ InSending \subseteq Batch
    BY DEF Conserved, Matched
  <1>3. \A r \in Counting : Where[r] \subseteq Batch
    BY <1>1, <1>2, Stations DEF Counting
  <1> QED
    BY <1>3 DEF Found

\* The step that counts a batch.
LEMMA Counted ==
  ASSUME Located, NEW p \in Places, NEW q \in Places, p # q,
         p \notin Counting, q \in Counting, Found(Where) \in SUBSET Batch,
         NEW b \in Batch, b \in Where[p],
         Where'[p] = Where[p] \ {b}, Where'[q] = Where[q] \cup {b},
         \A r \in Places \ {p, q} : Where'[r] = Where[r],
         Cut => Cut', rows_matched' = rows_matched + Matches(b)
  PROVE  Located'
  <1>0. PICK M : M = {b}
    OBVIOUS
  <1>1. /\ Apart(Where) /\ M \subseteq Where[p]
        /\ Where'[p] = Where[p] \ M /\ Where'[q] = Where[q] \cup M
    BY <1>0 DEF Located
  <1>2. /\ Apart(Where') /\ \A c : Somewhere(Where, c) => Somewhere(Where', c)
        /\ Found(Where') = Found(Where) \cup M
    BY <1>1, Moved
  <1>3. b \notin Found(Where)
    BY <1>1 DEF Apart, Found, Counting, Places
  <1>4. Found(Where') \in SUBSET Batch /\ b \in Found(Where') /\ Found(Where') \ {b} = Found(Where)
    BY <1>0, <1>2, <1>3
  <1>5. Total(Found(Where')) = Matches(b) + Total(Found(Where))
    BY <1>4, TotalFacts
  <1>6. Matches(b) \in Nat /\ Total(Found(Where)) \in Nat
    BY BatchFacts, TotalFacts
  <1> QED
    BY <1>2, <1>5, <1>6 DEF Located

(***************************************************************************)
(* The steps of the I/O tasks: a batch goes from unsent to input.          *)
(***************************************************************************)

LEMMA FlowIo ==
  ASSUME FlowInv, Flowing, NEW f \in Files, IoStep(f) \/ SkipFile(f) \/ FailTask(f)
  PROVE  Conserved' /\ Orderly'
  <1>0. TypeInv /\ Conserved /\ Orderly /\ TaskInv /\ IoTypes
    BY DEF FlowInv, ErrorInv, TypeInv
  <1>1. task[f] # "done"
    BY DEF IoStep, StartTask, SendBatch, EndTask, SendError, SkipFile, FailTask
  <1>2. dispatcher = "done" => Cut
    BY <1>0, <1>1 DEF Orderly, InputClosed
  <1>3. UNCHANGED <<cpuVars, output, coalesceVars, readVars, query>>
    BY DEF IoStep, StartTask, SendBatch, EndTask, SendError, SkipFile, FailTask
  <1>4. InSending' = InSending /\ (Cut' <=> Cut)
    BY <1>3, CutKept DEF InSending, cpuVars
  <1>5. Orderly'
    <2>1. \A g \in Files : task'[g] = "done" =>
            sent'[g] = Len(Work[g]) \/ g \in skipped' \/ g \in failed' \/ Cut
      BY <1>0, <1>2 DEF IoStep, StartTask, SendBatch, EndTask, SendError, SkipFile,
         FailTask, Orderly, TaskInv, IoTypes
    <2>2. dispatcher = "done" => input' = input
      BY DEF IoStep, StartTask, SendBatch, EndTask, SendError, SkipFile, FailTask
    <2> QED
      BY <1>0, <1>2, <1>3, <1>4, <2>1, <2>2 DEF Orderly, cpuVars, coalesceVars
  <1>6. CASE SendBatch(f) /\ dispatcher # "done"
    <2> DEFINE b == <<f, sent[f] + 1>>
    <2>1. /\ sent[f] < Len(Work[f]) /\ input' = Append(input, b) /\ final' = final
          /\ sent' = [sent EXCEPT ![f] = @ + 1]
      BY <1>6 DEF SendBatch
    <2>2. b \in Batch /\ b \in Unsent
      <3>1. Len(Work[f]) \in Nat /\ sent[f] \in Nat
        BY <1>0, PipelineAssumption DEF IoTypes
      <3>2. b \in Batch
        BY <2>1, <3>1, BatchFacts
      <3> QED
        BY <3>1, <3>2 DEF Unsent
    <2>3. Unsent' = Unsent \ {b}
      <3>1. ASSUME NEW c \in Batch PROVE c[2] > sent'[c[1]] <=> c[2] > sent[c[1]] /\ c # b
        <4>1. c[1] \in Files /\ c[2] \in Nat /\ c = <<c[1], c[2]>> /\ sent[c[1]] \in Nat
          BY <1>0, BatchFacts, Pairs, PipelineAssumption DEF IoTypes
        <4>2. CASE c[1] = f
          BY <1>0, <2>1, <4>1, <4>2 DEF IoTypes
        <4>3. CASE c[1] # f
          BY <1>0, <2>1, <4>1, <4>3 DEF IoTypes
        <4> QED
          BY <4>2, <4>3
      <3> QED
        BY <3>1 DEF Unsent
    <2> HIDE DEF b
    <2>4. Unsent \cap ToSet(input) = {}
      BY <1>0 DEF Conserved, Located, Apart, Places, Where
    <2>5. input \in Seq(Batch)
      BY <1>0 DEF TypeInv, InputTypes
    <2>6. ToSet(input') = ToSet(input) \cup {b} /\ OnceEach(input')
      BY <1>0, <2>1, <2>2, <2>4, <2>5, SentOnce DEF Conserved
    <2>7. /\ Where'["unsent"] = Where["unsent"] \ {b}
          /\ Where'["input"] = Where["input"] \cup {b}
          /\ \A r \in Places \ {"unsent", "input"} : Where'[r] = Where[r]
          /\ {b} \subseteq Where["unsent"]
      BY <1>3, <1>4, <2>1, <2>2, <2>3, <2>6 DEF Where, Places, cpuVars, coalesceVars, readVars
    <2>8. Located'
      <3>1. /\ Located /\ "unsent" \in Places /\ "input" \in Places
            /\ "unsent" \notin Counting /\ "input" \notin Counting
            /\ rows_matched' = rows_matched
        BY <1>0, <1>3 DEF Conserved, Places, Counting, cpuVars
      <3> QED
        BY <1>4, <2>7, <3>1, Passed
    <2>9. Conserved'
      BY <1>0, <1>3, <1>4, <2>1, <2>6, <2>8 DEF Conserved, coalesceVars, readVars
    <2> QED
      BY <1>5, <2>9
  <1>7. CASE SendError(f)
    <2>1. /\ final' = Append(final, Error) /\ input' = input /\ sent' = sent
          /\ final \in Seq(Message)
      BY <1>0, <1>7 DEF SendError, Flowing, TypeInv, FinalTypes
    <2>2. Error \in Message /\ ToSet(Error.batches) = {} /\ OnceEach(Error.batches)
      BY EmptyOnce, EmptyChannel DEF Error, Message
    <2>3. In(final') = In(final) /\ OnceIn(final')
      BY <1>0, <2>1, <2>2, MessageSent DEF Conserved
    <2> QED
      BY <1>0, <1>3, <1>4, <1>5, <2>1, <2>3, ConservedKept DEF cpuVars, coalesceVars, readVars
  <1>8. CASE \/ StartTask(f) \/ EndTask(f) \/ SkipFile(f) \/ FailTask(f)
             \/ SendBatch(f) /\ dispatcher = "done"
    <2>1. UNCHANGED <<sent, input, final>>
      BY <1>8 DEF StartTask, EndTask, SkipFile, FailTask, SendBatch
    <2> QED
      BY <1>0, <1>3, <1>4, <1>5, <2>1, ConservedKept
         DEF Conserved, cpuVars, coalesceVars, readVars
  <1> QED
    BY <1>6, <1>7, <1>8 DEF IoStep

(***************************************************************************)
(* The steps of the dispatcher: a batch goes from input to the rayon pool, *)
(* from there to sending, if it matches, and to output.                    *)
(***************************************************************************)
LEMMA FlowCpu ==
  ASSUME FlowInv, Flowing, Flowing', CpuStep
  PROVE  Conserved' /\ Orderly'
  <1>0. TypeInv /\ Conserved /\ Orderly
    BY DEF FlowInv, ErrorInv
  <1>a. \A b \in in_flight : ~Panic(b)
    BY DEF Panic, Flowing
  <1>b. Located /\ Apart(Where) /\ ~Cut /\ dispatcher # "done"
    BY <1>0, <1>a DEF Conserved, Located, Cut, CpuStep, Receive, Collect, SendOutput, Drained
  <1>1. CASE Receive
    <2> DEFINE b == Head(input)
    <2>1. /\ input # <<>> /\ input' = Tail(input) /\ in_flight' = in_flight \cup {b}
          /\ UNCHANGED <<ioVars, dispatcher, sending, output, coalesceVars, final, readVars>>
      BY <1>1 DEF Receive
    <2>2. input \in Seq(Batch)
      BY <1>0 DEF TypeInv, InputTypes
    <2>3. b \in ToSet(input) /\ ToSet(input') = ToSet(input) \ {b} /\ OnceEach(input')
      BY <1>0, <2>1, <2>2, ReceivedOnce DEF Conserved
    <2> HIDE DEF b
    <2>4. /\ Where'["input"] = Where["input"] \ {b}
          /\ Where'["jobs"] = Where["jobs"] \cup {b}
          /\ \A r \in Places \ {"input", "jobs"} : Where'[r] = Where[r]
          /\ {b} \subseteq Where["input"] /\ "input" \in Places /\ "jobs" \in Places
          /\ "input" \notin Counting /\ "jobs" \notin Counting
      <3>1. Unsent' = Unsent /\ InSending' = InSending /\ UNCHANGED <<output, pending, final, got>>
        BY <2>1 DEF Unsent, InSending, ioVars, coalesceVars, readVars
      <3> QED
        BY <2>1, <2>3, <3>1, Stations, StationsAfter DEF Places, Counting
    <2>5. Located'
      BY <1>1, <1>b, <2>4, Passed DEF Receive
    <2>6. Conserved'
      BY <1>0, <2>1, <2>3, <2>5 DEF Conserved, InSending, coalesceVars, readVars
    <2>7. Orderly'
      BY <1>0, <1>1, <1>b, <2>1 DEF Receive, Orderly, ioVars, coalesceVars
    <2> QED
      BY <2>6, <2>7
  <1>2. ASSUME NEW b \in in_flight, Collect(b), Matches(b) > 0 PROVE Conserved' /\ Orderly'
    <2>1. /\ dispatcher = "select" /\ dispatcher' = "send" /\ sending' = b
          /\ in_flight' = in_flight \ {b} /\ rows_matched' = rows_matched + Matches(b)
          /\ UNCHANGED <<ioVars, input, output, coalesceVars, final, readVars>>
      BY <1>2 DEF Collect
    <2>2. InSending = {} /\ InSending' = {b}
      BY <2>1 DEF InSending
    <2>3. b \in Matched /\ b \in Batch
      BY <1>0, <1>2 DEF TypeInv, JobsBounded, Matched
    <2>4. /\ Where'["jobs"] = Where["jobs"] \ {b}
          /\ Where'["sending"] = Where["sending"] \cup {b}
          /\ \A r \in Places \ {"jobs", "sending"} : Where'[r] = Where[r]
          /\ {b} \subseteq Where["jobs"] /\ "jobs" \in Places /\ "sending" \in Places
          /\ "jobs" \notin Counting /\ "sending" \in Counting
      <3>1. Unsent' = Unsent /\ UNCHANGED <<input, output, pending, final, got>>
        BY <2>1 DEF Unsent, ioVars, coalesceVars, readVars
      <3> QED
        BY <1>2, <2>1, <2>2, <3>1, Stations, StationsAfter DEF Places, Counting
    <2>5. Cut => Cut'
      BY <1>b
    <2>6. b \in Where["jobs"] /\ "jobs" # "sending" /\ Found(Where) \in SUBSET Batch
      BY <1>0, <2>4, FoundInBatch
    <2>7. Located'
      BY <1>b, <2>1, <2>3, <2>4, <2>5, <2>6, Counted
    <2>8. Conserved'
      BY <1>0, <2>1, <2>2, <2>3, <2>7 DEF Conserved, coalesceVars, readVars
    <2>9. Orderly'
      BY <1>0, <1>b, <2>1 DEF Orderly, ioVars, coalesceVars
    <2> QED
      BY <2>8, <2>9
  <1>3. ASSUME NEW b \in in_flight, Collect(b), ~(Matches(b) > 0)
        PROVE  Conserved' /\ Orderly'
    <2>1. /\ dispatcher = "select" /\ sending' = sending /\ rows_matched' = rows_matched
          /\ UNCHANGED <<ioVars, output, coalesceVars, final, readVars, query>>
      <3>1. Matches(b) = 0 /\ rows_matched \in Nat
        BY <1>0, <1>3, BatchFacts DEF TypeInv, JobsBounded, CpuTypes
      <3> QED
        BY <1>3, <3>1 DEF Collect
    <2>2. \/ dispatcher' = dispatcher /\ input' = input /\ in_flight' = in_flight \ {b}
          \/ /\ dispatcher' = "done" /\ input' = <<>> /\ in_flight' = {}
             /\ EarlyLimitReached(rows_matched')
      BY <1>3 DEF Collect, Return
    <2>3. dispatcher' = "done" => Cut'
      BY <1>b, <2>1, <2>2 DEF Cut, EarlyLimitReached, WithScore
    <2>4. InSending' = InSending /\ OnceEach(input')
      BY <1>0, <2>1, <2>2, EmptyOnce DEF InSending, Conserved
    <2>5. /\ \A r \in Places : Where'[r] \subseteq Where[r]
          /\ \A r \in Counting : Where'[r] = Where[r]
          /\ dispatcher' # "done" => \A r \in Places \ {"jobs"} : Where'[r] = Where[r]
          /\ dispatcher' # "done" => Where'["jobs"] = Where["jobs"] \ {b}
      <3>1. Unsent' = Unsent /\ UNCHANGED <<output, pending, final, got>>
        BY <2>1 DEF Unsent, ioVars, coalesceVars, readVars
      <3> QED
        BY <1>b, <2>2, <2>4, <3>1, EmptyOnce, Stations, StationsAfter DEF Places, Counting
    <2>6. Located'
      <3>1. Apart(Where')
        BY <1>b, <2>5 DEF Apart
      <3>2. ASSUME ~Cut', NEW c \in Matched PROVE Somewhere(Where', c)
        <4>1. PICK r \in Places : c \in Where[r]
          BY <1>b DEF Located, Somewhere
        <4>2. c # b
          BY <1>3 DEF Matched
        <4>3. c \in Where'[r]
          BY <2>3, <2>5, <3>2, <4>1, <4>2
        <4> QED
          BY <4>3 DEF Somewhere
      <3>3. Found(Where') = Found(Where)
        BY <2>5 DEF Found
      <3> QED
        BY <1>b, <2>1, <3>1, <3>2, <3>3 DEF Located, Matched
    <2>7. Conserved'
      BY <1>0, <2>1, <2>4, <2>6 DEF Conserved, Matched, coalesceVars, readVars
    <2>8. Orderly'
      BY <1>0, <1>b, <2>1, <2>2, <2>3 DEF Orderly, ioVars, coalesceVars
    <2> QED
      BY <2>7, <2>8
  <1>4. CASE SendOutput
    <2>1. coalescer # "done"
      BY <1>0, <1>b DEF Orderly
    <2>2. /\ dispatcher = "send" /\ output' = Append(output, sending)
          /\ UNCHANGED <<ioVars, sending, rows_matched, coalesceVars, final, readVars, query>>
          /\ \/ dispatcher' = "select" /\ input' = input /\ in_flight' = in_flight
             \/ /\ dispatcher' = "done" /\ input' = <<>> /\ in_flight' = {}
                /\ EarlyLimitReached(rows_matched)
      BY <1>4, <2>1 DEF SendOutput, Return
    <2>3. InSending = {sending} /\ InSending' = {} /\ sending \in Batch /\ sending \in Matched
      BY <1>0, <2>2 DEF InSending, TypeInv, CpuTypes, Conserved
    <2>4. sending \notin ToSet(output)
      BY <1>b, <2>3 DEF Apart, Places, Where
    <2>5. output \in Seq(Batch)
      BY <1>0 DEF TypeInv, OutputTypes
    <2>6. ToSet(output') = ToSet(output) \cup {sending} /\ OnceEach(output')
      BY <1>0, <2>2, <2>3, <2>4, <2>5, SentOnce DEF Conserved
    <2>7. dispatcher' = "done" => Cut'
      BY <2>2 DEF Cut, EarlyLimitReached, WithScore
    \* The move, and then the channel and the jobs that Return drops.
    <2> DEFINE Q == [p \in Places |-> CASE p = "sending" -> {}
                                        [] p = "output" -> Where["output"] \cup {sending}
                                        [] OTHER -> Where[p]]
    <2>8. /\ Q["sending"] = Where["sending"] \ {sending}
          /\ Q["output"] = Where["output"] \cup {sending}
          /\ \A r \in Places \ {"sending", "output"} : Q[r] = Where[r]
          /\ {sending} \subseteq Where["sending"] /\ "sending" \in Places /\ "output" \in Places
          /\ "sending" \in Counting /\ "output" \in Counting
      BY <2>3, Stations DEF Places, Counting
    <2>9. /\ \A r \in Places : Where'[r] \subseteq Q[r]
          /\ \A r \in Counting : Where'[r] = Q[r]
          /\ dispatcher' # "done" => \A r \in Places : Where'[r] = Q[r]
      <3>1. Unsent' = Unsent /\ UNCHANGED <<pending, final, got>>
        BY <2>2 DEF Unsent, ioVars, coalesceVars, readVars
      <3> QED
        BY <2>2, <2>3, <2>6, <3>1, EmptyOnce, Stations, StationsAfter DEF Places, Counting
    <2> HIDE DEF Q
    <2>10. /\ Apart(Q) /\ \A c : Somewhere(Where, c) => Somewhere(Q, c)
           /\ Found(Q) = Found(Where)
      BY <1>b, <2>8, Moved
    <2>11. Located'
      <3>1. Apart(Where')
        BY <2>9, <2>10 DEF Apart
      <3>2. Found(Where') = Found(Where)
        BY <2>9, <2>10 DEF Found
      <3>3. ~Cut' => \A c \in Matched : Somewhere(Where', c)
        BY <1>b, <2>7, <2>9, <2>10 DEF Located, Somewhere
      <3> QED
        BY <1>b, <2>2, <3>1, <3>2, <3>3 DEF Located, Matched
    <2>12. Conserved'
      <3>1. OnceEach(input')
        BY <1>0, <2>2, EmptyOnce DEF Conserved
      <3> QED
        BY <1>0, <2>2, <2>3, <2>6, <2>11, <3>1 DEF Conserved, coalesceVars, readVars
    <2>13. Orderly'
      BY <1>0, <1>b, <2>1, <2>2, <2>7 DEF Orderly, ioVars, coalesceVars
    <2> QED
      BY <2>12, <2>13
  <1>5. CASE Drained
    <2>1. InSending' = InSending
      BY <1>5 DEF Drained, InSending
    <2>2. Conserved'
      BY <1>0, <1>5, <1>b, <2>1, ConservedKept
         DEF Drained, Conserved, ioVars, coalesceVars, readVars
    <2>3. Orderly'
      BY <1>0, <1>5, <1>b DEF Drained, Orderly, InputClosed, ioVars, coalesceVars
    <2> QED
      BY <2>2, <2>3
  <1> QED
    BY <1>1, <1>2, <1>3, <1>4, <1>5, <1>a DEF CpuStep

(***************************************************************************)
(* The steps of the coalescer: from output to pending, and from there, all *)
(* at once, to final.                                                      *)
(***************************************************************************)
LEMMA FlowCoalesce ==
  ASSUME FlowInv, Flowing, Flowing', CoalesceStep \/ ConcatFails
  PROVE  Conserved' /\ Orderly'
  <1>0. TypeInv /\ Conserved /\ Orderly
    BY DEF FlowInv, ErrorInv
  <1>b. Located /\ Apart(Where)
    BY <1>0 DEF Conserved, Located
  <1>a. (Cut' <=> Cut) /\ rows_matched' = rows_matched
    BY CutKept DEF CoalesceStep, Gather, OutputEnds, Flush, ConcatFails, cpuVars
  <1>1. CASE Gather
    <2> DEFINE b == Head(output)
    <2>1. /\ output # <<>> /\ output' = Tail(output) /\ pending' = Append(pending, b)
          /\ UNCHANGED <<ioVars, input, cpuVars, final, readVars>>
          /\ coalescer' \in {"flush", "receive"}
      BY <1>1 DEF Gather
    <2>2. output \in Seq(Batch) /\ pending \in Seq(Batch)
      BY <1>0 DEF TypeInv, OutputTypes, CoalesceTypes
    <2>3. /\ b \in ToSet(output) /\ ToSet(output') = ToSet(output) \ {b} /\ OnceEach(output')
          /\ b \in Batch
      BY <1>0, <2>1, <2>2, ReceivedOnce, Elements DEF Conserved
    <2> HIDE DEF b
    <2>4. b \notin ToSet(pending)
      BY <1>b, <2>3 DEF Apart, Places, Where
    <2>5. ToSet(pending') = ToSet(pending) \cup {b} /\ OnceEach(pending')
      BY <1>0, <2>1, <2>2, <2>3, <2>4, SentOnce DEF Conserved
    <2>6. /\ Where'["output"] = Where["output"] \ {b}
          /\ Where'["pending"] = Where["pending"] \cup {b}
          /\ \A r \in Places \ {"output", "pending"} : Where'[r] = Where[r]
          /\ {b} \subseteq Where["output"] /\ "output" \in Places /\ "pending" \in Places
      <3>1. Unsent' = Unsent /\ InSending' = InSending /\ UNCHANGED <<input, in_flight, final, got>>
        BY <2>1 DEF Unsent, InSending, ioVars, cpuVars, readVars
      <3> QED
        BY <2>3, <2>5, <3>1, Stations, StationsAfter DEF Places
    <2>7. Located'
      BY <1>a, <1>b, <2>6, Passed DEF Counting
    <2>8. Conserved'
      BY <1>0, <2>1, <2>3, <2>5, <2>7 DEF Conserved, InSending, cpuVars, readVars
    <2>9. Orderly'
      BY <1>0, <1>a, <2>1 DEF Orderly, InputClosed, ioVars, cpuVars
    <2> QED
      BY <2>8, <2>9
  <1>2. CASE OutputEnds
    <2>1. Conserved'
      BY <1>0, <1>2, <1>a, ConservedKept DEF OutputEnds, Conserved, InSending, ioVars, cpuVars, readVars
    <2>2. Orderly'
      BY <1>0, <1>a, <1>2 DEF OutputEnds, OutputClosed, Orderly, InputClosed, ioVars, cpuVars
    <2> QED
      BY <2>1, <2>2
  <1>3. CASE Flush
    <2>1. /\ pending' = <<>> /\ final' = Append(final, Answer(pending))
          /\ UNCHANGED <<ioVars, input, cpuVars, output, readVars>>
          /\ coalescer' = "done" => coalescer = "last"
          /\ coalescer' \in {"receive", "done"}
      BY <1>3 DEF Flush, Flowing
    <2>2. pending \in Seq(Batch) /\ final \in Seq(Message)
      BY <1>0 DEF TypeInv, CoalesceTypes, FinalTypes
    <2>3. Answer(pending) \in Message /\ Answer(pending).batches = pending
      BY <2>2 DEF Answer, Message
    <2>4. In(final) \cap ToSet(pending) = {}
      BY <1>b DEF Apart, Places, Where
    <2>5. In(final') = In(final) \cup ToSet(pending) /\ OnceIn(final')
      BY <1>0, <2>1, <2>2, <2>3, <2>4, MessageSent DEF Conserved
    <2>6. ToSet(pending') = {} /\ OnceEach(pending')
      BY <2>1, EmptyOnce
    <2>7. /\ Where'["pending"] = Where["pending"] \ ToSet(pending)
          /\ Where'["final"] = Where["final"] \cup ToSet(pending)
          /\ \A r \in Places \ {"pending", "final"} : Where'[r] = Where[r]
          /\ ToSet(pending) \subseteq Where["pending"]
          /\ "pending" \in Places /\ "final" \in Places
      <3>1. Unsent' = Unsent /\ InSending' = InSending /\ UNCHANGED <<input, in_flight, output, got>>
        BY <2>1 DEF Unsent, InSending, ioVars, cpuVars, readVars
      <3> QED
        BY <2>5, <2>6, <3>1, Stations, StationsAfter DEF Places
    <2>8. Located'
      BY <1>a, <1>b, <2>7, Passed DEF Counting
    <2>9. Conserved'
      BY <1>0, <2>1, <2>5, <2>6, <2>8 DEF Conserved, InSending, cpuVars, readVars
    <2>10. Orderly'
      BY <1>0, <1>a, <2>1 DEF Orderly, InputClosed, ioVars, cpuVars
    <2> QED
      BY <2>9, <2>10
  <1>4. CASE ConcatFails
    BY <1>4 DEF ConcatFails, Flowing
  <1> QED
    BY <1>1, <1>2, <1>3, <1>4 DEF CoalesceStep

(***************************************************************************)
(* The steps of the reader: the batches of a message go from final to got. *)
(***************************************************************************)
LEMMA FlowRead ==
  ASSUME FlowInv, Flowing, Flowing', ReadStep \/ Leave
  PROVE  Conserved' /\ Orderly'
  <1>0. TypeInv /\ Conserved /\ Orderly
    BY DEF FlowInv, ErrorInv
  <1>b. Located /\ Apart(Where)
    BY <1>0 DEF Conserved, Located
  <1>a. (Cut' <=> Cut) /\ rows_matched' = rows_matched
    BY CutKept DEF ReadStep, Read, ReadToEnd, Leave, cpuVars
  <1>c. UNCHANGED <<ioVars, input, cpuVars, output, coalesceVars>>
    BY DEF ReadStep, Read, ReadToEnd, Leave
  <1>d. Orderly'
    BY <1>0, <1>a, <1>c DEF Orderly, InputClosed, ioVars, cpuVars, coalesceVars
  <1>1. CASE Read
    <2> DEFINE M == ToSet(Head(final).batches)
    <2>1. /\ final # <<>> /\ final' = Tail(final) /\ got' = got \o Head(final).batches
      BY <1>1 DEF Read, Flowing
    <2>2. final \in Seq(Message) /\ got \in Seq(Batch)
      BY <1>0 DEF TypeInv, FinalTypes, ReadTypes
    <2>3. Head(final) \in Message /\ Head(final).batches \in Seq(Batch)
      <3>1. Head(final) \in Message
        BY <2>1, <2>2
      <3> QED
        BY <3>1 DEF Message
    <2>4. /\ M \subseteq In(final) /\ In(final') = In(final) \ M
          /\ OnceEach(Head(final).batches) /\ OnceIn(final')
      BY <1>0, <2>1, <2>2, MessageReceived DEF Conserved
    <2>5. ToSet(got) \cap M = {}
      BY <1>b, <2>4 DEF Apart, Places, Where
    <2>6. ToSet(got') = ToSet(got) \cup M /\ OnceEach(got')
      BY <1>0, <2>1, <2>2, <2>3, <2>4, <2>5, JoinedOnce DEF Conserved
    <2> HIDE DEF M
    <2>7. /\ Where'["final"] = Where["final"] \ M
          /\ Where'["got"] = Where["got"] \cup M
          /\ \A r \in Places \ {"final", "got"} : Where'[r] = Where[r]
          /\ M \subseteq Where["final"] /\ "final" \in Places /\ "got" \in Places
      <3>1. /\ Unsent' = Unsent /\ InSending' = InSending
            /\ UNCHANGED <<input, in_flight, output, pending>>
        BY <1>c DEF Unsent, InSending, ioVars, cpuVars, coalesceVars
      <3> QED
        BY <2>4, <2>6, <3>1, Stations, StationsAfter DEF Places
    <2>8. Located'
      BY <1>a, <1>b, <2>7, Passed DEF Counting
    <2>9. Conserved'
      BY <1>0, <1>c, <2>4, <2>6, <2>8 DEF Conserved, InSending, cpuVars, coalesceVars
    <2> QED
      BY <1>d, <2>9
  <1>2. CASE ReadToEnd
    BY <1>2 DEF ReadToEnd, Flowing
  <1>3. CASE Leave
    <2>1. final' = final /\ got' = got
      BY <1>3 DEF Leave, Flowing
    <2> QED
      BY <1>0, <1>a, <1>c, <1>d, <2>1, ConservedKept
         DEF Conserved, InSending, ioVars, cpuVars, coalesceVars
  <1> QED
    BY <1>1, <1>2, <1>3 DEF ReadStep
-----------------------------------------------------------------------------
(***************************************************************************)
(* The end: all tasks are done, and all places but got are empty.          *)
(***************************************************************************)
LEMMA AtTheEnd ==
  ASSUME FlowInv, Flowing, ReadToEnd
  PROVE  /\ ToSet(got) \subseteq Matching
         /\ rows_matched = Rows(got) /\ Rows(got) = Total(ToSet(got))
         /\ ~Cut => ToSet(got) = Matching /\ Len(got) = Cardinality(Matching)
  <1>0. TypeInv /\ Conserved /\ Located /\ Orderly /\ TaskInv /\ ErrorsOnTheirWay
    BY DEF FlowInv, ErrorInv, Conserved
  <1>1. final = <<>> /\ coalescer = "done" /\ \A f \in Files : task[f] = "done"
    BY DEF ReadToEnd, FinalClosed, InputClosed
  <1>2. failed = {}
    BY <1>0, <1>1 DEF ErrorsOnTheirWay, Flowing, HasError, TypeInv, IoTypes
  <1>3. /\ ToSet(input) = {} /\ in_flight = {} /\ InSending = {} /\ ToSet(output) = {}
        /\ ToSet(pending) = {} /\ In(final) = {}
    BY <1>0, <1>1, EmptyOnce DEF Orderly, InSending
  <1>4. ~Cut => \A f \in Files : sent[f] = Len(Work[f]) \/ f \in skipped
    BY <1>0, <1>1, <1>2 DEF Orderly
  <1>5. ASSUME ~Cut, NEW b \in Matching PROVE b \in ToSet(got)
    <2>1. b \in Matched /\ b[1] \notin skipped /\ b[1] \in Files /\ b[2] \in 1..Len(Work[b[1]])
      BY BatchFacts DEF Matching, Matched
    <2>2. b \notin Unsent
      <3>1. Len(Work[b[1]]) \in Nat /\ sent[b[1]] = Len(Work[b[1]])
        BY <1>4, <1>5, <2>1, PipelineAssumption
      <3> QED
        BY <2>1, <3>1 DEF Unsent
    <2>3. Somewhere(Where, b)
      BY <1>0, <1>5, <2>1 DEF Located
    <2> QED
      BY <1>3, <2>2, <2>3 DEF Somewhere, Where, Places
  <1>6. ASSUME NEW b \in ToSet(got) PROVE b \in Matching
    <2>1. b \in Batch /\ Matches(b) > 0
      BY <1>0 DEF Conserved, Matched
    <2>2. b \notin Unsent
      BY <1>0 DEF Located, Apart, Places, Where
    <2>3. b[1] \notin skipped
      <3>1. b[2] > 0 /\ b[1] \in Files
        BY <2>1, BatchFacts, PipelineAssumption
      <3> QED
        BY <1>0, <2>1, <2>2, <3>1 DEF TaskInv, Unsent
    <2> QED
      BY <2>1, <2>3 DEF Matching
  <1>7. ~Cut => ToSet(got) = Matching
    BY <1>5, <1>6
  <1>8. got \in Seq(Batch) /\ OnceEach(got) /\ Len(got) \in Nat
    BY <1>0 DEF TypeInv, ReadTypes, Conserved
  <1>9. ASSUME ToSet(got) = Matching PROVE Len(got) = Cardinality(Matching)
    <2>1. Matching = {got[i] : i \in 1..Len(got)}
      BY <1>8, <1>9, Elements
    <2>2. got \in [1..Len(got) -> Matching]
      BY <1>8, <2>1
    <2>3. got \in Injection(1..Len(got), Matching)
      BY <1>8, <2>2 DEF Injection, IsInjective, OnceEach
    <2>4. got \in Surjection(1..Len(got), Matching)
      BY <2>1, <2>2 DEF Surjection
    <2>5. ExistsBijection(1..Len(got), Matching)
      BY <2>3, <2>4 DEF Bijection, ExistsBijection
    <2>6. IsFiniteSet(1..Len(got)) /\ Cardinality(1..Len(got)) = Len(got)
      BY <1>8, FS_Interval
    <2> QED
      BY <2>5, <2>6, FS_Bijection
  <1>10. rows_matched = Rows(got) /\ Rows(got) = Total(ToSet(got))
    <2>1. Found(Where) = ToSet(got)
      BY <1>3, Stations DEF Found, Counting
    <2> QED
      BY <1>0, <1>8, <2>1, RowsOfDistinct DEF Located
  <1> QED
    BY <1>6, <1>7, <1>9, <1>10

LEMMA MinOfTwo == ASSUME NEW x \in Nat, NEW y \in Nat, x <= y PROVE Min({x, y}) = x
  <1>1. \E z \in {x, y} : \A w \in {x, y} : z <= w
    OBVIOUS
  <1>2. Min({x, y}) \in {x, y} /\ \A w \in {x, y} : Min({x, y}) <= w
    BY <1>1 DEF Min
  <1> QED
    BY <1>2

\* What the reader has when it ends is what the properties promise.
LEMMA EndIsRight ==
  ASSUME FlowInv, reader = "reading", ReadToEnd
  PROVE  EveryMatchOnce' /\ LimitFilled' /\ StatsMatchRows'
  <1>0. UNCHANGED <<unjoined, query, got, skipped, rows_matched>>
    BY DEF ReadToEnd, ioVars, coalesceVars, cpuVars
  <1>1. Matching' = Matching /\ TotalMatches' = TotalMatches /\ (WithScore' <=> WithScore)
    BY <1>0 DEF Matching, TotalMatches, WithScore
  <1>2. CASE unjoined
    BY <1>0, <1>2 DEF EveryMatchOnce, LimitFilled, StatsMatchRows
  <1>3. CASE ~unjoined
    <2>1. Flowing
      BY <1>3 DEF Flowing
    <2>2. StatsMatchRows'
      BY <1>0, <2>1, AtTheEnd DEF StatsMatchRows
    <2>3. EveryMatchOnce'
      <3>1. (query.limited => WithScore) => ~Cut
        BY DEF Cut, EarlyLimitReached
      <3> QED
        BY <1>0, <1>1, <2>1, <3>1, AtTheEnd DEF EveryMatchOnce
    <2>4. ASSUME query.limited, ~WithScore
          PROVE  Min({query.limit, Rows(got)}) = Min({query.limit, TotalMatches})
      <3>1. Matching \in SUBSET Batch /\ TotalMatches = Total(Matching)
        BY DEF Matching, TotalMatches, Total
      <3>2. CASE ~Cut
        BY <2>1, <3>1, <3>2, AtTheEnd
      <3>3. CASE Cut
        <4>1. ToSet(got) \in SUBSET Matching /\ rows_matched = Rows(got) /\ Rows(got) = Total(ToSet(got))
          BY <2>1, AtTheEnd
        <4>2. Rows(got) <= TotalMatches
          BY <3>1, <4>1, TotalGrows
        <4>3. query.limit <= Rows(got)
          BY <3>3, <4>1 DEF Cut, EarlyLimitReached
        <4>4. query.limit \in Nat /\ Rows(got) \in Nat /\ TotalMatches \in Nat
          BY <3>1, <4>1, TotalFacts, PipelineAssumption DEF FlowInv, ErrorInv, TypeInv, Query
        <4>5. query.limit <= TotalMatches
          BY <4>2, <4>3, <4>4
        <4> QED
          BY <4>3, <4>4, <4>5, MinOfTwo
      <3> QED
        BY <3>2, <3>3
    <2>5. LimitFilled'
      BY <1>0, <1>1, <2>4 DEF LimitFilled
    <2> QED
      BY <2>2, <2>3, <2>5
  <1> QED
    BY <1>2, <1>3

\* When a query is complete nothing moves any more.
LEMMA CompleteStays ==
  ASSUME client = "complete", AllTasksDone, [Next]_vars PROVE UNCHANGED vars
  <1> USE DEF AllTasksDone
  <1>1. ASSUME NEW f \in Files, IoStep(f) \/ SkipFile(f) \/ FailTask(f) PROVE FALSE
    BY <1>1 DEF IoStep, StartTask, SendBatch, EndTask, SendError, SkipFile, FailTask
  <1>2. CASE CpuStep
    BY <1>2 DEF CpuStep, Receive, Collect, Panic, SendOutput, Drained
  <1>3. CASE CoalesceStep \/ ConcatFails
    BY <1>3 DEF CoalesceStep, Gather, OutputEnds, Flush, ConcatFails
  <1>4. CASE ReadStep \/ Leave
    BY <1>4 DEF ReadStep, Read, ReadToEnd, Leave
  <1> QED
    BY <1>1, <1>2, <1>3, <1>4 DEF Next

LEMMA FlowStep == FlowInv /\ [Next]_vars => FlowInv'
  <1> SUFFICES ASSUME FlowInv, [Next]_vars PROVE FlowInv'
    OBVIOUS
  <1>1. ErrorInv' /\ TaskInv'
    BY ErrorStep, TaskStep DEF FlowInv
  <1>2. Flowing' => Conserved' /\ Orderly'
    <2> SUFFICES ASSUME Flowing' PROVE Conserved' /\ Orderly'
      OBVIOUS
    <2>1. Flowing /\ Conserved /\ Orderly
      BY StillFlowing DEF FlowInv
    <2>2. CASE UNCHANGED vars
      <3>1. Cut' <=> Cut
        BY <2>2, CutKept DEF vars, cpuVars
      <3> QED
        BY <2>1, <2>2, <3>1, ConservedKept DEF vars, ioVars, cpuVars, coalesceVars, readVars,
           Conserved, Orderly, InputClosed, InSending
    <2>3. CASE Next
      BY <2>1, <2>3, FlowIo, FlowCpu, FlowCoalesce, FlowRead DEF Next
    <2> QED
      BY <2>2, <2>3
  <1>3. EveryMatchOnce' /\ LimitFilled' /\ StatsMatchRows'
    <2>1. CASE client = "complete"
      <3>1. UNCHANGED vars
        BY <2>1, CompleteStays DEF FlowInv, ErrorInv, CompleteIsLast
      <3> QED
        BY <3>1 DEF vars, ioVars, cpuVars, coalesceVars, readVars, FlowInv, EveryMatchOnce,
           LimitFilled, StatsMatchRows, TotalMatches, Matching, WithScore
    <2>2. CASE client # "complete" /\ client' = "complete"
      <3>1. ReadToEnd
        <4>1. ASSUME NEW f \in Files, IoStep(f) \/ SkipFile(f) \/ FailTask(f)
              PROVE  client' = client
          BY <4>1 DEF IoStep, StartTask, SendBatch, EndTask, SendError, SkipFile, FailTask,
             readVars
        <4>2. CASE CpuStep
          BY <2>2, <4>2 DEF CpuStep, Receive, Collect, Panic, SendOutput, Drained, readVars
        <4>3. CASE CoalesceStep \/ ConcatFails
          BY <2>2, <4>3 DEF CoalesceStep, Gather, OutputEnds, Flush, ConcatFails, readVars
        <4>4. CASE Read \/ Leave
          BY <2>2, <4>4 DEF Read, Leave, ClientHears
        <4>5. CASE UNCHANGED vars
          BY <2>2, <4>5 DEF vars, readVars
        <4> QED
          BY <2>2, <4>1, <4>2, <4>3, <4>4, <4>5 DEF Next, ReadStep
      <3> QED
        BY <3>1, EndIsRight DEF ReadToEnd
    <2> QED
      BY <2>1, <2>2 DEF EveryMatchOnce, LimitFilled, StatsMatchRows
  <1> QED
    BY <1>1, <1>2, <1>3 DEF FlowInv

LEMMA FlowHolds == Spec => []FlowInv
  BY FlowInit, FlowStep, PTL DEF Spec

(***************************************************************************)
(* A query without an early limit that ends well has received every        *)
(* matching batch exactly once.                                            *)
(***************************************************************************)
THEOREM EveryMatchIsReceivedOnce == Spec => []EveryMatchOnce
  <1>1. FlowInv => EveryMatchOnce
    BY DEF FlowInv
  <1> QED
    BY <1>1, FlowHolds, PTL

(***************************************************************************)
(* A query with an unscored limit that ends well has as many rows as the   *)
(* limit allows and the files hold, although the dispatcher drops what is  *)
(* in its channel and on the pool as soon as it has sent enough.           *)
(***************************************************************************)
THEOREM LimitIsFilled == Spec => []LimitFilled
  <1>1. FlowInv => LimitFilled
    BY DEF FlowInv
  <1> QED
    BY <1>1, FlowHolds, PTL

(***************************************************************************)
(* The rows the dispatcher counts for the statistics of a query are the    *)
(* rows the reader has received when the query ends well.                  *)
(***************************************************************************)
THEOREM StatsCountRows == Spec => []StatsMatchRows
  <1>1. FlowInv => StatsMatchRows
    BY DEF FlowInv
  <1> QED
    BY <1>1, FlowHolds, PTL
=============================================================================
