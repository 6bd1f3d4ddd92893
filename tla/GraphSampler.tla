---------------------------- MODULE GraphSampler ----------------------------
(***************************************************************************)
(* The graph of the terminal interface (components/graph_panel.cc): the    *)
(* worker of GraphRuntime, which every 50 ms appends a sample of the       *)
(* selected motor, against the UI thread, which changes the selection and  *)
(* the graph type and starts and stops the worker with the tab             *)
(* (components/middle_panel.cc).                                           *)
(*                                                                         *)
(* The UI thread handles any number of events and then draws. A sample is  *)
(* known by the selection and the graph type it was read for. The range of *)
(* the axis is left out: it is refreshed as in ControlRuntime.             *)
(***************************************************************************)
EXTENDS Naturals, Sequences

CONSTANTS
  Types,          \* the graph types besides None
  None,           \* GraphType::None
  MaxDataPoints,  \* kMaxDataPoints
  MaxSelections   \* bound: SelectedMotor objects made in a behaviour

ASSUME ConstantsAssumption ==
  /\ None \notin Types
  /\ MaxDataPoints \in Nat \ {0}
  /\ MaxSelections \in Nat

VARIABLES
  selected,   \* AppState::selected_motor_, by the order of its making; 0 is null
  made,       \* history: SelectedMotor objects made so far
  tab,        \* selected_tab
  shownTab,   \* previous_tab
  chosen,     \* selected_graph_type
  ui,         \* where the UI thread is
  running,    \* GraphRuntime::running_
  graphType,  \* GraphRuntime::graph_type_
  data,       \* GraphRuntime::graph_data_
  pc,         \* where the worker is; off: no thread, or joined
  last,       \* RunLoop's last_selected_motor, and so its selected_motor
  wtype       \* RunLoop's graph_type

choiceVars == <<selected, made, tab, chosen>>
workerVars == <<pc, last, wtype>>
vars == <<choiceVars, shownTab, ui, running, graphType, data, workerVars>>

-----------------------------------------------------------------------------
GraphType == Types \cup {None}
Tab       == {"control", "settings", "graph"}
Ids       == 0..MaxSelections
Sample    == [by : Ids, type : Types]

Init ==
  /\ selected = 0
  /\ made = 0
  /\ tab = "control"
  /\ shownTab = "none"
  /\ chosen = None
  /\ ui = "events"
  /\ running = FALSE
  /\ graphType = None
  /\ data = <<>>
  /\ pc = "off"
  /\ last = 0
  /\ wtype = None

-----------------------------------------------------------------------------
(* Events. *)

SelectMotor ==
  /\ ui = "events"
  /\ made < MaxSelections
  /\ made' = made + 1
  /\ selected' = made + 1
  /\ UNCHANGED <<tab, chosen, shownTab, ui, running, graphType, data, workerVars>>

ClearSelectedMotor ==
  /\ ui = "events"
  /\ selected' = 0
  /\ UNCHANGED <<made, tab, chosen, shownTab, ui, running, graphType, data, workerVars>>

ChooseTab(t) ==
  /\ ui = "events"
  /\ tab' = t
  /\ UNCHANGED <<selected, made, chosen, shownTab, ui, running, graphType, data, workerVars>>

\* The toggle of the graph panel, which takes events in its tab only.
ChooseType(type) ==
  /\ ui = "events"
  /\ tab = "graph"
  /\ chosen' = type
  /\ UNCHANGED <<selected, made, tab, shownTab, ui, running, graphType, data, workerVars>>

-----------------------------------------------------------------------------
(* Drawing the middle panel. *)

\* A thread that begins with no last_selected_motor; what was sampled before stays.
Start ==
  /\ running' = TRUE
  /\ pc' = "select"
  /\ last' = 0
  /\ wtype' = None

\* Lower the flag, then join; RunTui ends in the same way.
Stop ==
  /\ running' = FALSE
  /\ ui' = "join"
  /\ UNCHANGED workerVars

DrawTab ==
  /\ ui = "events"
  /\ shownTab' = tab
  /\ \/ tab = shownTab /\ ui' = "draw" /\ UNCHANGED <<running, workerVars>>
     \/ tab # shownTab /\ tab = "graph" /\ Start /\ ui' = "draw"
     \/ tab # shownTab /\ shownTab = "graph" /\ Stop
     \/ tab # shownTab /\ "graph" \notin {tab, shownTab} /\ ui' = "draw" /\ UNCHANGED <<running, workerVars>>
  /\ UNCHANGED <<choiceVars, graphType, data>>

Joined ==
  /\ ui = "join"
  /\ pc = "done"
  /\ pc' = "off"
  /\ ui' = "draw"
  /\ UNCHANGED <<choiceVars, shownTab, running, graphType, data, last, wtype>>

\* Mutation: the data is cleared before the type is set.
ClearThenSet ==
  \/ ui = "draw" /\ chosen # graphType /\ data' = <<>> /\ ui' = "clear" /\ UNCHANGED graphType
  \/ ui = "clear" /\ graphType' = chosen /\ ui' = "events" /\ UNCHANGED data

\* SetGraphType, then ClearData.
SetThenClear ==
  \/ ui = "draw" /\ chosen # graphType /\ graphType' = chosen /\ ui' = "clear" /\ UNCHANGED data
  \/ ui = "clear" /\ data' = <<>> /\ ui' = "events" /\ UNCHANGED graphType

\* The graph is drawn in its tab and for a selected motor only.
DrawsGraph == tab = "graph" /\ selected # 0

DrawGraph ==
  /\ \/ DrawsGraph /\ SetThenClear
     \/ ui = "draw" /\ (DrawsGraph => chosen = graphType) /\ ui' = "events" /\ UNCHANGED <<graphType, data>>
  /\ UNCHANGED <<choiceVars, shownTab, running, workerVars>>

-----------------------------------------------------------------------------
(* The worker. *)

Adopted(id) == IF id # 0 THEN "type" ELSE "select"

WorkerReadSelection ==
  /\ pc = "select"
  /\ running
  /\ last' = selected
  /\ pc' = IF selected # last THEN "clear" ELSE Adopted(selected)
  /\ UNCHANGED <<choiceVars, shownTab, ui, running, graphType, data, wtype>>

\* Mutation: a new motor's samples follow the old one's.
KeepData == data

ClearData == <<>>

\* Another selection than in the iteration before.
WorkerClear ==
  /\ pc = "clear"
  /\ data' = ClearData
  /\ pc' = Adopted(last)
  /\ UNCHANGED <<choiceVars, shownTab, ui, running, graphType, last, wtype>>

WorkerReadType ==
  /\ pc = "type"
  /\ wtype' = graphType
  /\ pc' = IF graphType = None THEN "select" ELSE "sample"
  /\ UNCHANGED <<choiceVars, shownTab, ui, running, graphType, data, last>>

\* The oldest point makes room.
AppendPoint(sample) ==
  IF Len(data) < MaxDataPoints THEN Append(data, sample) ELSE Append(Tail(data), sample)

\* A parameter that cannot be read leaves no point.
WorkerSample ==
  /\ pc = "sample"
  /\ \/ data' = AppendPoint([by |-> last, type |-> wtype])
     \/ UNCHANGED data
  /\ pc' = "select"
  /\ UNCHANGED <<choiceVars, shownTab, ui, running, graphType, last, wtype>>

WorkerExit ==
  /\ pc = "select"
  /\ ~running
  /\ pc' = "done"
  /\ UNCHANGED <<choiceVars, shownTab, ui, running, graphType, data, last, wtype>>

-----------------------------------------------------------------------------
Worker == WorkerReadSelection \/ WorkerClear \/ WorkerReadType \/ WorkerSample \/ WorkerExit

Event ==
  \/ SelectMotor
  \/ ClearSelectedMotor
  \/ \E t \in Tab : ChooseTab(t)
  \/ \E type \in GraphType : ChooseType(type)

Frame == DrawTab \/ Joined \/ DrawGraph

Next == Worker \/ Event \/ Frame

Spec == Init /\ [][Next]_vars

-----------------------------------------------------------------------------
(* Every variable holds a value of its type, and no more points are kept   *)
(* than the graph has room for.                                            *)
TypeOK ==
  /\ selected \in Ids
  /\ made \in Ids
  /\ tab \in Tab
  /\ shownTab \in Tab \cup {"none"}
  /\ chosen \in GraphType
  /\ graphType \in GraphType
  /\ wtype \in GraphType
  /\ ui \in {"events", "join", "draw", "clear"}
  /\ running \in BOOLEAN
  /\ data \in Seq(Sample)
  /\ Len(data) <= MaxDataPoints
  /\ pc \in {"off", "select", "clear", "type", "sample", "done"}
  /\ last \in Ids

(* All points of a graph are of one motor, also while the selection        *)
(* changes under the worker and when the worker is started again.          *)
GraphIsOfOneMotor ==
  \A i, j \in DOMAIN data : data[i].by = data[j].by

(* Between frames every point but the oldest is of the graph's type: a     *)
(* sample on its way while the type changes makes one odd point at most.   *)
OddPointIsOldest ==
  ui # "clear" => \A i \in DOMAIN data : i > 1 => data[i].type = graphType

=============================================================================
