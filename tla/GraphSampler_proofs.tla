------------------------ MODULE GraphSampler_proofs ------------------------
(***************************************************************************)
(* Machine-checked proofs about GraphSampler, for every set of graph       *)
(* types, number of points and number of selections.                       *)
(*                                                                         *)
(* The argument: a worker past its first step has cleared what another     *)
(* selection left, and a sample on its way that is not of the graph's type *)
(* finds the data empty.                                                   *)
(***************************************************************************)
EXTENDS GraphSampler, SequenceTheorems, TLAPS

(* Points are of the selection the worker has adopted. *)
PointsAreOfLast ==
  last # 0 /\ pc \in {"select", "type", "sample"} => \A i \in DOMAIN data : data[i].by = last

(* A sample of an earlier type comes first. *)
OddSampleComesFirst ==
  (ui # "clear" /\ pc = "sample" /\ wtype # graphType) => data = <<>>

(* The worker samples a motor and a type. *)
Sampling ==
  /\ pc \in {"type", "sample"} => last # 0
  /\ pc = "sample" => wtype # None

IInv ==
  /\ TypeOK
  /\ GraphIsOfOneMotor
  /\ OddPointIsOldest
  /\ PointsAreOfLast
  /\ OddSampleComesFirst
  /\ Sampling

-----------------------------------------------------------------------------
(* A graph without points. *)
LEMMA NoPoints == <<>> \in Seq(Sample) /\ Len(<<>>) = 0 /\ DOMAIN <<>> = {}
<1>1. <<>> \in Seq(Sample)
  BY EmptySeq
<1>2. Len(<<>>) = 0
  OBVIOUS
<1>3. DOMAIN <<>> = {}
  OBVIOUS
<1> QED
  BY <1>1, <1>2, <1>3

(* Appending a point keeps the bound, and the points are those there were, *)
(* in their order, and the new one.                                        *)
LEMMA AppendedPoint ==
  ASSUME NEW sample \in Sample, data \in Seq(Sample), Len(data) <= MaxDataPoints
  PROVE  /\ AppendPoint(sample) \in Seq(Sample)
         /\ Len(AppendPoint(sample)) <= MaxDataPoints
         /\ \A i \in DOMAIN AppendPoint(sample) :
              \/ AppendPoint(sample)[i] = sample
              \/ \E j \in DOMAIN data : j >= i /\ AppendPoint(sample)[i] = data[j]
<1> USE ConstantsAssumption
<1>1. CASE Len(data) < MaxDataPoints
  BY <1>1 DEF AppendPoint
<1>2. CASE ~(Len(data) < MaxDataPoints)
  <2>1. Len(data) = MaxDataPoints /\ data # <<>>
    BY <1>2
  <2>2. /\ Tail(data) \in Seq(Sample)
        /\ Len(Tail(data)) = Len(data) - 1
        /\ \A i \in 1..(Len(data) - 1) : Tail(data)[i] = data[i + 1]
    BY <2>1
  <2>3. /\ AppendPoint(sample) = Append(Tail(data), sample)
        /\ Len(AppendPoint(sample)) = MaxDataPoints
        /\ AppendPoint(sample) \in Seq(Sample)
    BY <1>2, <2>1, <2>2 DEF AppendPoint
  <2>4. ASSUME NEW i \in DOMAIN AppendPoint(sample)
        PROVE  \/ AppendPoint(sample)[i] = sample
               \/ \E j \in DOMAIN data : j >= i /\ AppendPoint(sample)[i] = data[j]
    <3>1. i \in 1..MaxDataPoints
      BY <2>3, <2>4
    <3>2. CASE i = MaxDataPoints
      BY <2>1, <2>2, <2>3, <3>2
    <3>3. CASE i # MaxDataPoints
      <4>1. i + 1 \in DOMAIN data
        BY <2>1, <3>1, <3>3
      <4>2. AppendPoint(sample)[i] = data[i + 1]
        BY <2>1, <2>2, <2>3, <3>1, <3>3
      <4> QED
        BY <3>1, <4>1, <4>2
    <3> QED
      BY <3>2, <3>3
  <2> QED
    BY <2>3, <2>4
<1> QED
  BY <1>1, <1>2

(* When the first point is appended it stands alone. *)
LEMMA FirstPoint ==
  ASSUME NEW sample \in Sample, data = <<>>
  PROVE  AppendPoint(sample) = <<sample>>
BY ConstantsAssumption DEF AppendPoint

-----------------------------------------------------------------------------
(* The initial state satisfies the invariant. *)
LEMMA Initially == Init => IInv
<1> SUFFICES ASSUME Init PROVE IInv
  OBVIOUS
<1>1. data \in Seq(Sample) /\ Len(data) = 0 /\ DOMAIN data = {}
  BY NoPoints DEF Init
<1>2. TypeOK
  <2>1. Len(data) <= MaxDataPoints /\ 0 \in Ids
    BY <1>1, ConstantsAssumption DEF Ids
  <2> QED
    BY <1>1, <2>1 DEF Init, TypeOK, Tab, GraphType
<1> QED
  BY <1>1, <1>2
    DEF Init, IInv, GraphIsOfOneMotor, OddPointIsOldest, PointsAreOfLast, OddSampleComesFirst, Sampling

(* Every event leaves the data and the worker alone. *)
LEMMA EventKeeps == IInv /\ Event => IInv'
<1> SUFFICES ASSUME IInv, Event PROVE IInv'
  OBVIOUS
<1>1. UNCHANGED <<ui, running, graphType, data, pc, last, wtype, shownTab>>
  BY DEF Event, SelectMotor, ClearSelectedMotor, ChooseTab, ChooseType, workerVars
<1>2. /\ selected' \in Ids
      /\ made' \in Ids
      /\ tab' \in Tab
      /\ chosen' \in GraphType
  BY ConstantsAssumption
    DEF IInv, TypeOK, Event, SelectMotor, ClearSelectedMotor, ChooseTab, ChooseType, Ids
<1> QED
  BY <1>1, <1>2
    DEF IInv, TypeOK, GraphIsOfOneMotor, OddPointIsOldest, PointsAreOfLast,
        OddSampleComesFirst, Sampling

(* A frame empties the data whenever it changes the type. *)
LEMMA FrameKeeps == IInv /\ Frame => IInv'
<1> SUFFICES ASSUME IInv, Frame PROVE IInv'
  OBVIOUS
<1> USE DEF IInv, choiceVars, workerVars
<1>1. CASE DrawTab
  <2>1. ui' \in {"draw", "join"} /\ running' \in BOOLEAN /\ ui = "events" /\ UNCHANGED <<choiceVars, graphType, data>>
    BY <1>1 DEF DrawTab, Start, Stop, TypeOK
  <2>2. UNCHANGED workerVars \/ (pc' = "select" /\ last' = 0 /\ wtype' = None)
    BY <1>1 DEF DrawTab, Start, Stop
  <2>3. TypeOK'
    <3>1. shownTab' \in Tab \cup {"none"}
      BY <1>1 DEF DrawTab, TypeOK
    <3>2. last' \in Ids /\ wtype' \in GraphType /\ pc' \in {"off", "select", "clear", "type", "sample", "done"}
      BY <2>2, ConstantsAssumption DEF TypeOK, Ids, GraphType
    <3> QED
      BY <2>1, <3>1, <3>2 DEF TypeOK
  <2>4. GraphIsOfOneMotor' /\ OddPointIsOldest'
    BY <2>1 DEF GraphIsOfOneMotor, OddPointIsOldest
  <2>5. PointsAreOfLast' /\ OddSampleComesFirst' /\ Sampling'
    BY <2>1, <2>2 DEF PointsAreOfLast, OddSampleComesFirst, Sampling
  <2> QED
    BY <2>3, <2>4, <2>5
<1>2. CASE Joined
  BY <1>2 DEF Joined, TypeOK, GraphIsOfOneMotor, OddPointIsOldest,
              PointsAreOfLast, OddSampleComesFirst, Sampling
<1>3. CASE DrawGraph
  <2>1. TypeOK'
    <3>1. data' = data \/ data' = <<>>
      BY <1>3 DEF DrawGraph, SetThenClear
    <3>2. data' \in Seq(Sample) /\ Len(data') <= MaxDataPoints
      <4>1. CASE data' = data
        BY <4>1 DEF TypeOK
      <4>2. CASE data' = <<>>
        <5>1. data' \in Seq(Sample) /\ Len(data') = 0
          BY <4>2, NoPoints
        <5> QED
          BY <5>1, ConstantsAssumption
      <4> QED
        BY <3>1, <4>1, <4>2
    <3>3. UNCHANGED <<choiceVars, shownTab, running, workerVars>>
      BY <1>3 DEF DrawGraph
    <3>4. ui' \in {"events", "clear"} /\ graphType' \in {graphType, chosen}
      BY <1>3 DEF DrawGraph, SetThenClear
    <3> QED
      BY <3>2, <3>3, <3>4 DEF TypeOK
  <2>2. data' = data \/ data' = <<>>
    BY <1>3 DEF DrawGraph, SetThenClear
  <2>3. GraphIsOfOneMotor' /\ PointsAreOfLast' /\ Sampling'
    BY <1>3, <2>2 DEF DrawGraph, GraphIsOfOneMotor, PointsAreOfLast, Sampling
  <2>4. OddPointIsOldest' /\ OddSampleComesFirst'
    BY <1>3 DEF DrawGraph, SetThenClear, OddPointIsOldest, OddSampleComesFirst
  <2> QED
    BY <2>1, <2>3, <2>4
<1> QED
  BY <1>1, <1>2, <1>3 DEF Frame

(* The sample of the worker goes behind points of its own motor, and       *)
(* behind none when it is not of the graph's type.                         *)
LEMMA SampleKeeps == IInv /\ WorkerSample => IInv'
<1> SUFFICES ASSUME IInv, WorkerSample PROVE IInv'
  OBVIOUS
<1> USE DEF IInv, choiceVars
<1> DEFINE sample == [by |-> last, type |-> wtype]
<1>1. sample \in Sample
  BY DEF WorkerSample, Sampling, TypeOK, Sample, GraphType
<1>2. CASE data' = data
  BY <1>2 DEF WorkerSample, TypeOK, GraphIsOfOneMotor, OddPointIsOldest,
              PointsAreOfLast, OddSampleComesFirst, Sampling
<1>3. CASE data' = AppendPoint(sample)
  <2>1. /\ data' \in Seq(Sample)
        /\ Len(data') <= MaxDataPoints
        /\ \A i \in DOMAIN data' :
             data'[i] = sample \/ \E j \in DOMAIN data : j >= i /\ data'[i] = data[j]
    BY <1>1, <1>3, AppendedPoint DEF TypeOK
  <2>2. \A i \in DOMAIN data' : data'[i].by = last
    BY <2>1 DEF WorkerSample, PointsAreOfLast, Sampling
  <2>3. TypeOK'
    BY <2>1 DEF WorkerSample, TypeOK
  <2>4. OddPointIsOldest'
    <3>1. CASE wtype = graphType
      <4>1. SUFFICES ASSUME ui # "clear", NEW i \in DOMAIN data', i > 1
                     PROVE  data'[i].type = graphType
        BY DEF WorkerSample, OddPointIsOldest
      <4>2. CASE data'[i] = sample
        BY <3>1, <4>2
      <4>3. CASE \E j \in DOMAIN data : j >= i /\ data'[i] = data[j]
        <5>1. PICK j \in DOMAIN data : j >= i /\ data'[i] = data[j]
          BY <4>3
        <5>2. i \in Nat /\ j \in Nat
          BY <2>1, <5>1 DEF TypeOK
        <5> QED
          BY <4>1, <5>1, <5>2 DEF OddPointIsOldest
      <4> QED
        BY <2>1, <4>2, <4>3
    <3>2. CASE wtype # graphType /\ ui # "clear"
      <4>1. data' = <<sample>>
        BY <1>1, <1>3, <3>2, FirstPoint DEF WorkerSample, OddSampleComesFirst
      <4> QED
        BY <4>1 DEF OddPointIsOldest
    <3>3. CASE ui = "clear"
      BY <3>3 DEF WorkerSample, OddPointIsOldest
    <3> QED
      BY <3>1, <3>2, <3>3
  <2>5. GraphIsOfOneMotor' /\ PointsAreOfLast' /\ OddSampleComesFirst' /\ Sampling'
    BY <2>2 DEF WorkerSample, GraphIsOfOneMotor, PointsAreOfLast, OddSampleComesFirst, Sampling
  <2> QED
    BY <2>3, <2>4, <2>5
<1> QED
  BY <1>2, <1>3 DEF WorkerSample

(* So does every step of the worker. *)
LEMMA WorkerKeeps == IInv /\ Worker => IInv'
<1> SUFFICES ASSUME IInv, Worker PROVE IInv'
  OBVIOUS
<1> USE DEF IInv, choiceVars
<1>1. CASE WorkerReadSelection
  BY <1>1 DEF WorkerReadSelection, Adopted, TypeOK, GraphIsOfOneMotor, OddPointIsOldest,
              PointsAreOfLast, OddSampleComesFirst, Sampling
<1>2. CASE WorkerClear
  BY <1>2, NoPoints, ConstantsAssumption DEF WorkerClear, ClearData, Adopted, TypeOK, GraphIsOfOneMotor, OddPointIsOldest,
              PointsAreOfLast, OddSampleComesFirst, Sampling
<1>3. CASE WorkerReadType
  BY <1>3 DEF WorkerReadType, TypeOK, GraphIsOfOneMotor, OddPointIsOldest,
              PointsAreOfLast, OddSampleComesFirst, Sampling
<1>4. CASE WorkerSample
  BY <1>4, SampleKeeps
<1>5. CASE WorkerExit
  BY <1>5 DEF WorkerExit, TypeOK, GraphIsOfOneMotor, OddPointIsOldest,
              PointsAreOfLast, OddSampleComesFirst, Sampling
<1> QED
  BY <1>1, <1>2, <1>3, <1>4, <1>5 DEF Worker

-----------------------------------------------------------------------------
(* The invariant holds in every state of the graph. *)
THEOREM Invariance == Spec => []IInv
<1>1. IInv /\ UNCHANGED vars => IInv'
  BY DEF vars, choiceVars, workerVars, IInv, TypeOK, GraphIsOfOneMotor, OddPointIsOldest,
         PointsAreOfLast, OddSampleComesFirst, Sampling
<1>2. IInv /\ [Next]_vars => IInv'
  BY <1>1, EventKeeps, FrameKeeps, WorkerKeeps DEF Next
<1> QED
  BY Initially, <1>2, PTL DEF Spec

(* Every variable of the graph keeps its type, and the data its bound. *)
THEOREM TypeCorrect == Spec => []TypeOK
<1>1. IInv => TypeOK
  BY DEF IInv
<1> QED
  BY <1>1, Invariance, PTL

(* All points of a graph are of one motor, whatever is selected between    *)
(* the steps of the worker and however often it is started again.          *)
THEOREM OneMotor == Spec => []GraphIsOfOneMotor
<1>1. IInv => GraphIsOfOneMotor
  BY DEF IInv
<1> QED
  BY <1>1, Invariance, PTL

(* Only the oldest point of a graph can be of an earlier type. *)
THEOREM OddPoint == Spec => []OddPointIsOldest
<1>1. IInv => OddPointIsOldest
  BY DEF IInv
<1> QED
  BY <1>1, Invariance, PTL

=============================================================================
