-------------------------- MODULE MotorScan_proofs --------------------------
(***************************************************************************)
(* Machine-checked proofs about the motor scan of the terminal interface,  *)
(* for any adapters and buses and any number of scans: threads do not meet *)
(* on a bus, the flag of a global scan matches its threads, buttons point  *)
(* to motors that exist, and a global scan has the program to itself.      *)
(*                                                                         *)
(* What carries the proof is that the UI thread starts a scan only after   *)
(* it has joined every thread, and that each scan of a bus takes a new     *)
(* revision, so that no list counts as drawn from a result it is not from. *)
(***************************************************************************)
EXTENDS MotorScan, FiniteSetTheorems, TLAPS

One(p) == IF p THEN 1 ELSE 0

(* Where the UI thread is. *)
JobInv ==
  /\ ui \notin {"wait", "launch"} => job = NoJob
  /\ ui \notin {"events", "teardown", "returned"} => page = 0
  /\ ui = "returned" => workers = {}

(* A revision for each scan asked for and served. *)
Budget ==
  \A b \in Buses :
    result[b].rev + One(todo.initial) + One(todo.adapter # NoAdapter) + One(todo.bus # NoBus)
      + One(b \in job.buses) <= scans

(* The threads and the buses they work on. *)
WorkInv ==
  /\ OneScanPerBus
  /\ \A w \in workers :
       /\ w.at = "scan" => result[w.bus].status = "Scanning"
       /\ w.at # "scan" => w.global
       /\ ui = "launch" => w.bus \notin job.buses

(* The threads and their count. *)
FlagInv ==
  /\ IsFiniteSet(workers)
  /\ ScanFlagMatchesThreads
  /\ \A w \in workers : w.at = "lower" => tasks = 0
  /\ \A v, w \in workers : v.at = "lower" /\ w.at = "lower" => v = w

Cleared(b) == ui = "launch" /\ b \in job.buses

(* The lists and the results they were drawn from. *)
ListInv ==
  \A b \in Buses :
    /\ \A m \in result[b].motors \cup buttons[b] : m.bus = b
    /\ renderedRev[b] <= result[b].rev \/ renderedRev[b] = Never
    /\ result[b].status = "Scanning" => renderedRev[b] # result[b].rev
    /\ result[b].status = "Complete" /\ ~Cleared(b) =>
         /\ result[b].motors \subseteq live
         /\ renderedRev[b] = result[b].rev => buttons[b] \subseteq live

(* The dialog of a global scan. *)
ModalInv ==
  /\ scanActive => dialogVisible /\ selected = NoMotor
  /\ page = 1 => ~dialogVisible

IInv == TypeOK /\ JobInv /\ Budget /\ WorkInv /\ FlagInv /\ ListInv /\ ModalInv

-----------------------------------------------------------------------------
(* The initial state satisfies the invariant. *)
LEMMA InitIInv == Init => IInv
<1> SUFFICES ASSUME Init
             PROVE  IInv
  OBVIOUS
<1> USE ConstantsAssumption DEF Init
<1>1. TypeOK
  <2>1. result \in [Buses -> Result] /\ renderedRev \in [Buses -> 0..Never]
    BY DEF Result, Never
  <2>2. /\ todo \in [rebuild : BOOLEAN, initial : BOOLEAN,
                     adapter : Adapters \cup {NoAdapter}, bus : Buses \cup {NoBus}]
        /\ job \in Job
    BY DEF NoJob, Job
  <2>3. scans \in 1..MaxScans
    OBVIOUS
  <2> QED
    BY <2>1, <2>2, <2>3 DEF TypeOK
<1>2. JobInv /\ Budget /\ WorkInv
  BY DEF JobInv, Budget, One, NoJob, WorkInv, OneScanPerBus
<1>3. FlagInv
  <2>1. Unlaunched = {} /\ Counting = {}
    BY DEF Unlaunched, Counting
  <2>2. IsFiniteSet({}) /\ Cardinality({}) = 0
    BY FS_EmptySet
  <2> QED
    BY <2>1, <2>2 DEF FlagInv, ScanFlagMatchesThreads
<1>4. ListInv /\ ModalInv
  BY DEF ListInv, ModalInv
<1> QED
  BY <1>1, <1>2, <1>3, <1>4 DEF IInv

-----------------------------------------------------------------------------
(* What the scan of a thread changes: the result of its bus, under the     *)
(* same revision, and the motors of the driver, of which none goes.        *)
LEMMA ScanFacts ==
  ASSUME IInv, NEW w \in workers, WorkerScan(w)
  PROVE  /\ w.at = "scan" /\ w.bus \in Buses
         /\ \A b \in Buses : result'[b].rev = result[b].rev
         /\ \A b \in Buses : b # w.bus => result'[b] = result[b]
         /\ result' \in [Buses -> Result]
         /\ result'[w.bus].status \in {"Complete", "Failed"}
         /\ result'[w.bus].motors \subseteq live'
         /\ \A m \in result'[w.bus].motors : m.bus = w.bus
         /\ live \subseteq live' /\ live' \subseteq Motor
<1>1. /\ w.bus \in Buses /\ w.rev \in 1..MaxScans
      /\ result \in [Buses -> Result] /\ live \subseteq Motor
      /\ result[w.bus].rev = w.rev
  BY DEF IInv, TypeOK, Worker, WorkInv, OneScanPerBus
<1>2. PICK status \in {"Complete", "Failed"}, motors \in {{}, {[bus |-> w.bus, rev |-> w.rev]}} :
        /\ live' = live \cup motors
        /\ result' = [result EXCEPT ![w.bus] = [status |-> status, motors |-> motors, rev |-> @.rev]]
  BY <1>1 DEF WorkerScan, Report
<1>3. motors \subseteq Motor /\ \A m \in motors : m.bus = w.bus
  BY <1>1 DEF Motor
<1>4. [status |-> status, motors |-> motors, rev |-> result[w.bus].rev] \in Result
  BY <1>1, <1>3 DEF Result
<1> QED
  BY <1>1, <1>2, <1>3, <1>4 DEF WorkerScan

(* What the start of the scan of a bus changes. *)
LEMMA LaunchFacts ==
  ASSUME IInv, NEW b \in Buses, Launch(b)
  PROVE  /\ ui = "launch" /\ b \in job.buses /\ job \in Job
         /\ result' \in [Buses -> Result]
         /\ \A c \in Buses : c # b => result'[c] = result[c]
         /\ result'[b].status = "Scanning" /\ result'[b].motors = {}
         /\ result'[b].rev = result[b].rev + 1 /\ result[b].rev + 1 <= scans
         /\ \E w \in Worker :
              /\ workers' = workers \cup {w}
              /\ w.bus = b /\ w.rev = result'[b].rev /\ w.global = job.global /\ w.at = "scan"
         /\ IF job.buses = {b}
              THEN job' = NoJob /\ ui' = job.back
              ELSE job' = [job EXCEPT !.buses = @ \ {b}] /\ UNCHANGED ui
<1>1. result \in [Buses -> Result] /\ job \in Job /\ b \in job.buses /\ ui = "launch"
  BY DEF IInv, TypeOK, Launch
<1>2. result[b].rev \in Nat /\ scans \in 1..MaxScans
  BY <1>1 DEF Result, IInv, TypeOK
<1>3. result[b].rev + 1 <= scans
  <2>1. result[b].rev + One(todo.initial) + One(todo.adapter # NoAdapter) + One(todo.bus # NoBus)
          + One(b \in job.buses) <= scans
    BY DEF IInv, Budget
  <2> QED
    BY <1>1, <1>2, <2>1 DEF One
<1>4. result[b].rev + 1 \in 1..MaxScans
  BY <1>2, <1>3, ConstantsAssumption
<1>5. result' = [result EXCEPT ![b] = [status |-> "Scanning", motors |-> {}, rev |-> result[b].rev + 1]]
  BY <1>1 DEF Launch, Begin
<1>6. [status |-> "Scanning", motors |-> {}, rev |-> result[b].rev + 1] \in Result
  BY <1>4 DEF Result
<1>7. /\ result' \in [Buses -> Result]
      /\ \A c \in Buses : c # b => result'[c] = result[c]
      /\ result'[b].status = "Scanning" /\ result'[b].motors = {}
      /\ result'[b].rev = result[b].rev + 1
  BY <1>1, <1>5, <1>6
<1>8. [bus |-> b, rev |-> result'[b].rev, global |-> job.global, at |-> "scan"] \in Worker
  BY <1>1, <1>4, <1>7 DEF Worker, Job
<1> QED
  BY <1>1, <1>3, <1>7, <1>8 DEF Launch

(* The steps that touch no result, no thread and no count. *)
QuietStep ==
  \/ CustomEvent \/ CtrlC \/ (\E b \in Buses : ToggleHeader(b) \/ PressMotor(b))
  \/ PressRescan \/ PressSetId \/ PressAddAdapter \/ (\E a \in Adapters : DialogOk(a))
  \/ DialogClose \/ Quit \/ BeginFrame \/ RebuildLists \/ RenderLists \/ Overlay \/ Teardown
  \/ ServeInitialScan \/ ServeNewAdapter \/ ServeRescan \/ UNCHANGED vars

(* A step is a quiet one, or one of a scan thread, or begins or launches a scan. *)
LEMMA Steps ==
  ASSUME [Next]_vars
  PROVE  \/ QuietStep
         \/ \E w \in workers : WorkerScan(w) \/ WorkerCount(w) \/ WorkerLower(w)
         \/ StartScan
         \/ \E b \in Buses : Launch(b)
BY DEF Next, ScanThread, Event, Frame, Returned, QuietStep

(* Quiet steps leave results, threads and counts alone. *)
LEMMA Quiet ==
  ASSUME QuietStep
  PROVE  UNCHANGED <<result, live, workers, tasks, scanActive>>
BY DEF QuietStep, CustomEvent, CtrlC, ToggleHeader, PressMotor, PressRescan, PressSetId, PressAddAdapter,
       DialogOk, DialogClose, Quit, BeginFrame, RebuildLists, RenderLists, Overlay, Teardown,
       ServeInitialScan, ServeNewAdapter, ServeRescan, vars, scanVars

(* A thread that counts itself out is counted. *)
LEMMA CountsItself ==
  ASSUME IInv, NEW w \in workers, WorkerCount(w)
  PROVE  /\ w \in Counting /\ tasks \in Nat \ {0} /\ tasks' = tasks - 1 /\ tasks' \in Nat
         /\ IsFiniteSet(Counting) /\ Cardinality(Counting) \in Nat
         /\ IsFiniteSet(Unlaunched) /\ Cardinality(Unlaunched) \in Nat
         /\ tasks = Cardinality(Unlaunched) + Cardinality(Counting)
<1>1. w \in Counting
  BY DEF IInv, WorkInv, Counting, WorkerCount
<1>2. IsFiniteSet(Counting) /\ Cardinality(Counting) \in Nat
  BY FS_Subset, FS_CardinalityType DEF IInv, FlagInv, Counting
<1>3. IsFiniteSet(Unlaunched) /\ Cardinality(Unlaunched) \in Nat
  <2>1. Unlaunched \subseteq Buses
    BY DEF IInv, TypeOK, Job, Unlaunched
  <2> QED
    BY <2>1, ConstantsAssumption, FS_Subset, FS_CardinalityType
<1>4. Cardinality(Counting) # 0
  BY <1>1, <1>2, FS_EmptySet
<1>5. tasks = Cardinality(Unlaunched) + Cardinality(Counting)
  BY DEF IInv, FlagInv, ScanFlagMatchesThreads
<1> QED
  BY <1>1, <1>2, <1>3, <1>4, <1>5 DEF WorkerCount

-----------------------------------------------------------------------------
(* Every step keeps the types. *)
LEMMA TypeStep == IInv /\ [Next]_vars => TypeOK'
<1> SUFFICES ASSUME IInv, [Next]_vars
             PROVE  TypeOK'
  OBVIOUS
<1> DEFINE Todo == [rebuild : BOOLEAN, initial : BOOLEAN,
                    adapter : Adapters \cup {NoAdapter}, bus : Buses \cup {NoBus}]
<1>1. /\ adapters \subseteq Adapters
      /\ result \in [Buses -> Result]
      /\ live \subseteq Motor
      /\ workers \subseteq Worker
      /\ tasks \in Nat
      /\ scanActive \in BOOLEAN /\ dialogVisible \in BOOLEAN /\ hasRendered \in BOOLEAN
      /\ selected \in Motor \cup {NoMotor}
      /\ buttons \in [Buses -> SUBSET Motor]
      /\ renderedRev \in [Buses -> 0..Never]
      /\ expanded \in [Buses -> BOOLEAN]
      /\ page \in {0, 1}
      /\ todo \in Todo
      /\ ui \in {"events", "panel", "wait", "launch", "overlay", "teardown", "returned"}
      /\ job \in Job
      /\ scans \in 1..MaxScans
  BY DEF IInv, TypeOK
<1> HIDE DEF Todo
<1> USE DEF vars, scanVars, modalVars, listVars
<1>2. CASE CustomEvent \/ CtrlC \/ Overlay
  BY <1>1, <1>2 DEF CustomEvent, CtrlC, Overlay, TypeOK, ShouldShowMotorScanDialog, Todo
<1>3. ASSUME NEW b \in Buses, ToggleHeader(b) \/ PressMotor(b)
      PROVE  TypeOK'
  BY <1>1, <1>3 DEF ToggleHeader, PressMotor, Admitted, TypeOK, Todo
<1>4. CASE PressRescan \/ PressSetId
  <2>1. scans' \in 1..MaxScans
    BY <1>1, <1>4, ConstantsAssumption DEF PressRescan, PressSetId
  <2>2. CASE PressRescan
    <3>1. job' \in Job
      BY <2>2 DEF PressRescan, Ask, Job, BusesOf
    <3> QED
      BY <1>1, <2>1, <2>2, <3>1 DEF PressRescan, Ask, Admitted, TypeOK, Todo
  <2>3. CASE PressSetId
    <3>1. selected \in Motor /\ selected.bus \in Buses
      BY <1>1, <2>3 DEF PressSetId, Motor
    <3>2. todo' \in Todo
      BY <1>1, <2>3, <3>1 DEF PressSetId, Todo
    <3> QED
      BY <1>1, <2>1, <2>3, <3>2 DEF PressSetId, Admitted, TypeOK, Todo
  <2> QED
    BY <1>4, <2>2, <2>3
<1>5. CASE PressAddAdapter \/ DialogClose \/ Quit \/ BeginFrame \/ Teardown
  BY <1>1, <1>5 DEF PressAddAdapter, DialogClose, Quit, BeginFrame, Teardown, Admitted, TypeOK, Todo
<1>6. ASSUME NEW a \in Adapters, DialogOk(a)
      PROVE  TypeOK'
  <2>1. scans' \in 1..MaxScans
    BY <1>1, <1>6, ConstantsAssumption DEF DialogOk
  <2>2. todo' \in Todo
    BY <1>1, <1>6 DEF DialogOk, Todo
  <2> QED
    BY <1>1, <1>6, <2>1, <2>2 DEF DialogOk, Admitted, TypeOK, Todo
<1>7. CASE RebuildLists \/ RenderLists
  <2>1. buttons' \in [Buses -> SUBSET Motor]
    BY <1>1, <1>7 DEF RebuildLists, RenderLists, Result
  <2>2. renderedRev' \in [Buses -> 0..Never]
    BY <1>1, <1>7, ConstantsAssumption DEF RebuildLists, RenderLists, Result, Never
  <2>3. expanded' \in [Buses -> BOOLEAN] /\ todo' \in Todo
    BY <1>1, <1>7 DEF RebuildLists, RenderLists, Todo
  <2> QED
    BY <1>1, <1>7, <2>1, <2>2, <2>3 DEF RebuildLists, RenderLists, TypeOK, Todo
<1>8. CASE ServeInitialScan \/ ServeNewAdapter \/ ServeRescan
  <2>1. todo' \in Todo
    BY <1>1, <1>8 DEF ServeInitialScan, ServeNewAdapter, ServeRescan, Todo
  <2>3. PICK global \in BOOLEAN, buses \in SUBSET Buses :
          job' = [global |-> global, buses |-> buses, back |-> "panel"]
    <3>1. CASE ServeInitialScan \/ ServeNewAdapter
      BY <3>1 DEF ServeInitialScan, ServeNewAdapter, Ask, BusesOf
    <3>2. CASE ServeRescan
      <4>1. todo.bus \in Buses
        BY <1>1, <3>2 DEF ServeRescan, Todo
      <4> QED
        BY <3>2, <4>1 DEF ServeRescan, Ask
    <3> QED
      BY <1>8, <3>1, <3>2
  <2>2. job' \in Job
    BY <2>3 DEF Job
  <2> QED
    BY <1>1, <1>8, <2>1, <2>2 DEF ServeInitialScan, ServeNewAdapter, ServeRescan, Ask, TypeOK, Todo
<1>9. ASSUME NEW w \in workers, WorkerScan(w)
      PROVE  TypeOK'
  <2>1. result' \in [Buses -> Result] /\ live' \subseteq Motor
    BY <1>9, ScanFacts
  <2>2. workers' \subseteq Worker
    BY <1>1, <1>9 DEF WorkerScan, Advance, Worker
  <2> QED
    BY <1>1, <1>9, <2>1, <2>2 DEF WorkerScan, TypeOK, Todo
<1>10. ASSUME NEW w \in workers, WorkerCount(w) \/ WorkerLower(w)
       PROVE  TypeOK'
  <2>1. workers' \subseteq Worker
    BY <1>1, <1>10 DEF WorkerCount, WorkerLower, Worker
  <2>2. tasks' \in Nat
    BY <1>1, <1>10, CountsItself DEF WorkerLower
  <2> QED
    BY <1>1, <1>10, <2>1, <2>2 DEF WorkerCount, WorkerLower, TypeOK, Todo
<1>11. CASE StartScan
  <2>1. tasks' \in Nat
    <3>1. job.buses \subseteq Buses /\ IsFiniteSet(job.buses)
      BY <1>1, ConstantsAssumption, FS_Subset DEF Job
    <3> QED
      BY <1>1, <1>11, <3>1, FS_CardinalityType DEF StartScan
  <2>2. job' \in Job /\ ui' \in {"launch", "events", "panel"}
    <3>1. NoJob \in Job /\ job.back \in {"events", "panel"}
      BY <1>1 DEF NoJob, Job
    <3> QED
      BY <1>1, <1>11, <3>1 DEF StartScan
  <2> QED
    BY <1>1, <1>11, <2>1, <2>2 DEF StartScan, Deselect, TypeOK, Todo
<1>12. ASSUME NEW b \in Buses, Launch(b)
       PROVE  TypeOK'
  <2>1. result' \in [Buses -> Result] /\ workers' \subseteq Worker
    BY <1>1, <1>12, LaunchFacts
  <2>2. job' \in Job /\ ui' \in {"launch", "events", "panel"}
    <3>1. NoJob \in Job /\ job.back \in {"events", "panel"}
      BY <1>1 DEF NoJob, Job
    <3>2. [job EXCEPT !.buses = @ \ {b}] \in Job
      BY <1>1 DEF Job
    <3> QED
      BY <1>1, <1>12, <3>1, <3>2 DEF Launch
  <2> QED
    BY <1>1, <1>12, <2>1, <2>2 DEF Launch, TypeOK, Todo
<1>13. CASE UNCHANGED vars
  BY <1>1, <1>13 DEF TypeOK, Todo
<1> QED
  BY <1>2, <1>3, <1>4, <1>5, <1>6, <1>7, <1>8, <1>9, <1>10, <1>11, <1>12, <1>13, Steps DEF QuietStep

(* Every step keeps track of where the UI thread is. *)
LEMMA JobStep == IInv /\ [Next]_vars => JobInv'
<1> SUFFICES ASSUME IInv, [Next]_vars
             PROVE  JobInv'
  OBVIOUS
<1>1. JobInv /\ job.back \in {"events", "panel"}
  BY DEF IInv, TypeOK, Job
<1> USE DEF vars, scanVars
<1>2. CASE QuietStep
  BY <1>1, <1>2 DEF JobInv, QuietStep, CustomEvent, CtrlC, ToggleHeader, PressMotor, PressRescan, PressSetId,
     PressAddAdapter, DialogOk, DialogClose, Quit, BeginFrame, RebuildLists, RenderLists, Overlay,
     Teardown, ServeInitialScan, ServeNewAdapter, ServeRescan, Admitted, Ask, WorkersJoined
<1>3. ASSUME NEW w \in workers, WorkerScan(w) \/ WorkerCount(w) \/ WorkerLower(w)
      PROVE  JobInv'
  BY <1>1, <1>3 DEF JobInv, WorkerScan, WorkerCount, WorkerLower
<1>4. CASE StartScan
  BY <1>1, <1>4 DEF JobInv, StartScan
<1>5. ASSUME NEW b \in Buses, Launch(b)
      PROVE  JobInv'
  BY <1>1, <1>5 DEF JobInv, Launch
<1> QED
  BY <1>2, <1>3, <1>4, <1>5, Steps

(* Every step keeps a revision for each scan asked for. *)
LEMMA BudgetStep == IInv /\ [Next]_vars => Budget'
<1> SUFFICES ASSUME IInv, [Next]_vars, NEW c \in Buses
             PROVE  (result[c].rev + One(todo.initial) + One(todo.adapter # NoAdapter)
                       + One(todo.bus # NoBus) + One(c \in job.buses) <= scans)'
  BY DEF Budget
<1>1. /\ result[c].rev + One(todo.initial) + One(todo.adapter # NoAdapter)
            + One(todo.bus # NoBus) + One(c \in job.buses) <= scans
      /\ result[c].rev \in Nat /\ scans \in Nat
      /\ todo \in [rebuild : BOOLEAN, initial : BOOLEAN,
                   adapter : Adapters \cup {NoAdapter}, bus : Buses \cup {NoBus}]
      /\ ui \notin {"wait", "launch"} => job.buses = {}
  BY DEF IInv, Budget, TypeOK, Result, JobInv, NoJob
<1> USE DEF vars, scanVars
<1>2. CASE UNCHANGED <<todo, job, scans>> /\ UNCHANGED result
  BY <1>1, <1>2
<1>3. CASE QuietStep /\ ~(UNCHANGED <<todo, job, scans>>)
  <2>1. UNCHANGED result
    BY <1>3, Quiet
  <2>2. \/ PressRescan \/ PressSetId \/ (\E a \in Adapters : DialogOk(a)) \/ RebuildLists
        \/ ServeInitialScan \/ ServeNewAdapter \/ ServeRescan
    BY <1>3 DEF QuietStep, CustomEvent, CtrlC, ToggleHeader, PressMotor, PressAddAdapter, DialogClose,
       Quit, BeginFrame, RenderLists, Overlay, Teardown
  <2>3. CASE PressRescan
    <3>1. job.buses = {} /\ scans' = scans + 1 /\ UNCHANGED todo
      BY <1>1, <2>3 DEF PressRescan, Admitted
    <3> QED
      BY <1>1, <2>1, <3>1 DEF One
  <2>4. CASE PressSetId
    <3>1. scans' = scans + 1 /\ UNCHANGED job /\ todo' = [todo EXCEPT !.bus = selected.bus]
      BY <2>4 DEF PressSetId
    <3>2. todo'.initial = todo.initial /\ todo'.adapter = todo.adapter
      BY <1>1, <3>1
    <3> QED
      BY <1>1, <2>1, <3>1, <3>2 DEF One
  <2>5. ASSUME NEW a \in Adapters, DialogOk(a)
        PROVE  (result[c].rev + One(todo.initial) + One(todo.adapter # NoAdapter)
                  + One(todo.bus # NoBus) + One(c \in job.buses) <= scans)'
    <3>1. /\ scans' = scans + 1 /\ UNCHANGED job
          /\ todo' = [todo EXCEPT !.adapter = a, !.rebuild = TRUE]
      BY <2>5 DEF DialogOk
    <3>2. todo'.initial = todo.initial /\ todo'.bus = todo.bus
      BY <1>1, <3>1
    <3> QED
      BY <1>1, <2>1, <3>1, <3>2 DEF One
  <2>6. CASE RebuildLists
    <3>1. UNCHANGED <<scans, job>> /\ todo' = [todo EXCEPT !.rebuild = FALSE]
      BY <2>6 DEF RebuildLists
    <3>2. todo'.initial = todo.initial /\ todo'.bus = todo.bus /\ todo'.adapter = todo.adapter
      BY <1>1, <3>1
    <3> QED
      BY <1>1, <2>1, <3>1, <3>2
  <2>7. CASE ServeInitialScan
    <3>1. /\ UNCHANGED scans /\ job.buses = {} /\ todo.initial
          /\ todo' = [todo EXCEPT !.initial = FALSE]
      BY <1>1, <2>7 DEF ServeInitialScan
    <3>2. ~todo'.initial /\ todo'.bus = todo.bus /\ todo'.adapter = todo.adapter
      BY <1>1, <3>1
    <3> QED
      BY <1>1, <2>1, <3>1, <3>2 DEF One
  <2>8. CASE ServeNewAdapter
    <3>1. /\ UNCHANGED scans /\ job.buses = {} /\ todo.adapter # NoAdapter
          /\ todo' = [todo EXCEPT !.adapter = NoAdapter]
      BY <1>1, <2>8 DEF ServeNewAdapter
    <3>2. todo'.initial = todo.initial /\ todo'.bus = todo.bus /\ todo'.adapter = NoAdapter
      BY <1>1, <3>1
    <3> QED
      BY <1>1, <2>1, <3>1, <3>2 DEF One
  <2>9. CASE ServeRescan
    <3>1. /\ UNCHANGED scans /\ job.buses = {} /\ todo.bus # NoBus
          /\ todo' = [todo EXCEPT !.bus = NoBus]
      BY <1>1, <2>9 DEF ServeRescan
    <3>2. todo'.initial = todo.initial /\ todo'.bus = NoBus /\ todo'.adapter = todo.adapter
      BY <1>1, <3>1
    <3> QED
      BY <1>1, <2>1, <3>1, <3>2 DEF One
  <2> QED
    BY <2>2, <2>3, <2>4, <2>5, <2>6, <2>7, <2>8, <2>9
<1>4. ASSUME NEW w \in workers, WorkerScan(w) \/ WorkerCount(w) \/ WorkerLower(w)
      PROVE  result'[c].rev = result[c].rev /\ UNCHANGED <<todo, job, scans>>
  BY <1>4, ScanFacts DEF WorkerScan, WorkerCount, WorkerLower
<1>5. CASE StartScan
  <2>1. UNCHANGED <<result, todo, scans>> /\ (job' = job \/ job' = NoJob)
    BY <1>5 DEF StartScan
  <2> QED
    BY <1>1, <2>1 DEF One, NoJob
<1>6. ASSUME NEW b \in Buses, Launch(b)
      PROVE  (result[c].rev + One(todo.initial) + One(todo.adapter # NoAdapter)
                + One(todo.bus # NoBus) + One(c \in job.buses) <= scans)'
  <2>1. UNCHANGED <<todo, scans>> /\ b \in job.buses /\ job \in Job
    BY <1>6, LaunchFacts DEF Launch
  <2>2. job'.buses = job.buses \ {b}
    BY <1>6, <2>1, LaunchFacts DEF Job, NoJob
  <2>3. CASE c = b
    BY <1>1, <1>6, <2>1, <2>2, <2>3, LaunchFacts DEF One
  <2>4. CASE c # b
    BY <1>1, <1>6, <2>1, <2>2, <2>4, LaunchFacts DEF One
  <2> QED
    BY <2>3, <2>4
<1> QED
  BY <1>1, <1>2, <1>3, <1>4, <1>5, <1>6, Steps, Quiet

(* Every step keeps one thread to a bus. *)
LEMMA WorkStep == IInv /\ [Next]_vars => WorkInv'
<1> SUFFICES ASSUME IInv, [Next]_vars
             PROVE  WorkInv'
  OBVIOUS
<1>1. WorkInv /\ OneScanPerBus /\ workers \subseteq Worker /\ result \in [Buses -> Result]
  BY DEF IInv, WorkInv, TypeOK
<1>2. CASE QuietStep
  <2>1. ui' = "launch" => ui = "launch" /\ UNCHANGED job
    BY <1>2 DEF QuietStep, CustomEvent, CtrlC, ToggleHeader, PressMotor, PressRescan, PressSetId,
       PressAddAdapter, DialogOk, DialogClose, Quit, BeginFrame, RebuildLists, RenderLists, Overlay,
       Teardown, ServeInitialScan, ServeNewAdapter, ServeRescan, Admitted, Ask, vars
  <2> QED
    BY <1>1, <1>2, <2>1, Quiet DEF WorkInv, OneScanPerBus
<1>3. ASSUME NEW w \in workers, WorkerScan(w)
      PROVE  WorkInv'
  <2>1. \A v \in workers' : \/ v \in workers /\ v # w
                            \/ v.bus = w.bus /\ v.rev = w.rev /\ v.at = "count" /\ v.global /\ w.global
    BY <1>1, <1>3 DEF WorkerScan, Advance, Worker
  <2>2. workers' \subseteq (workers \ {w}) \cup {[w EXCEPT !.at = "count"]}
    BY <1>3 DEF WorkerScan, Advance
  <2>3. \A v \in workers : v # w => v.bus # w.bus
    BY <1>1 DEF OneScanPerBus
  <2>4. [w EXCEPT !.at = "count"].bus = w.bus
    BY <1>1 DEF Worker
  <2>5. \A b \in Buses : result'[b].rev = result[b].rev /\ (b # w.bus => result'[b] = result[b])
    BY <1>3, ScanFacts
  <2>6. UNCHANGED <<ui, job>>
    BY <1>3 DEF WorkerScan
  <2>7. \A v \in workers : v.bus \in Buses
    BY <1>1 DEF Worker
  <2>8. OneScanPerBus'
    <3>1. \A v \in workers' : result'[v.bus].rev = v.rev
      BY <1>1, <2>1, <2>5, <2>7 DEF OneScanPerBus
    <3>2. \A v, u \in workers' : v.bus = u.bus => v = u
      BY <1>1, <2>2, <2>3, <2>4 DEF OneScanPerBus
    <3> QED
      BY <3>1, <3>2 DEF OneScanPerBus
  <2> QED
    BY <1>1, <2>1, <2>3, <2>5, <2>6, <2>7, <2>8 DEF WorkInv
<1>4. ASSUME NEW w \in workers, WorkerCount(w)
      PROVE  WorkInv'
  <2>1. workers' \subseteq (workers \ {w}) \cup {[w EXCEPT !.at = "lower"]}
    BY <1>4 DEF WorkerCount
  <2>2. LET u == [w EXCEPT !.at = "lower"] IN
        u.bus = w.bus /\ u.rev = w.rev /\ u.at = "lower" /\ u.global = w.global
    BY <1>1 DEF Worker
  <2>3. \A v \in workers : v # w => v.bus # w.bus
    BY <1>1 DEF OneScanPerBus
  <2>4. UNCHANGED <<result, ui, job>> /\ w.global
    BY <1>1, <1>4 DEF WorkerCount, WorkInv
  <2>5. OneScanPerBus'
    BY <1>1, <2>1, <2>2, <2>3, <2>4 DEF OneScanPerBus
  <2> QED
    BY <1>1, <2>1, <2>2, <2>4, <2>5 DEF WorkInv
<1>5. ASSUME NEW w \in workers, WorkerLower(w)
      PROVE  WorkInv'
  BY <1>1, <1>5 DEF WorkerLower, WorkInv, OneScanPerBus
<1>6. CASE StartScan
  BY <1>6 DEF StartScan, WorkersJoined, WorkInv, OneScanPerBus
<1>7. ASSUME NEW b \in Buses, Launch(b)
      PROVE  WorkInv'
  <2>1. PICK w \in Worker : /\ workers' = workers \cup {w}
                            /\ w.bus = b /\ w.rev = result'[b].rev /\ w.at = "scan"
    BY <1>7, LaunchFacts
  <2>2. \A v \in workers : v.bus \in Buses /\ v.bus # b
    BY <1>1, <1>7, LaunchFacts DEF WorkInv, Worker
  <2>3. /\ result'[b].status = "Scanning"
        /\ \A c \in Buses : c # b => result'[c] = result[c]
    BY <1>7, LaunchFacts
  <2>4. OneScanPerBus'
    BY <1>1, <2>1, <2>2, <2>3 DEF OneScanPerBus
  <2>5. ui' = "launch" => ui = "launch" /\ job'.buses = job.buses \ {b}
    <3>1. job.back # "launch" /\ job \in Job
      BY DEF IInv, TypeOK, Job
    <3> QED
      BY <1>7, <3>1, LaunchFacts DEF Job
  <2> QED
    BY <1>1, <2>1, <2>2, <2>3, <2>4, <2>5 DEF WorkInv
<1> QED
  BY <1>2, <1>3, <1>4, <1>5, <1>6, <1>7, Steps

(* Every step keeps the count of the threads of a global scan. *)
LEMMA FlagStep == IInv /\ [Next]_vars => FlagInv'
<1> SUFFICES ASSUME IInv, [Next]_vars
             PROVE  FlagInv'
  OBVIOUS
<1>1. /\ FlagInv /\ IsFiniteSet(workers)
      /\ tasks = Cardinality(Unlaunched) + Cardinality(Counting)
      /\ scanActive <=> (tasks # 0 \/ \E w \in workers : w.at = "lower")
      /\ workers \subseteq Worker /\ job \in Job /\ tasks \in Nat /\ scanActive \in BOOLEAN
      /\ WorkInv /\ OneScanPerBus
  BY DEF IInv, FlagInv, ScanFlagMatchesThreads, TypeOK, WorkInv
<1>2. /\ IsFiniteSet(Counting) /\ Cardinality(Counting) \in Nat
      /\ IsFiniteSet(Unlaunched) /\ Cardinality(Unlaunched) \in Nat
      /\ IsFiniteSet(job.buses) /\ Cardinality(job.buses) \in Nat
  <2>1. Counting \subseteq workers /\ Unlaunched \subseteq Buses /\ job.buses \subseteq Buses
    BY <1>1 DEF Counting, Unlaunched, Job
  <2> QED
    BY <1>1, <2>1, ConstantsAssumption, FS_Subset, FS_CardinalityType
<1>3. CASE QuietStep
  <2>1. (ui = "launch" <=> ui' = "launch") /\ (ui = "launch" => UNCHANGED job)
    <3>1. ui = "launch" => UNCHANGED vars
      BY <1>3 DEF QuietStep, CustomEvent, CtrlC, ToggleHeader, PressMotor, PressRescan, PressSetId,
         PressAddAdapter, DialogOk, DialogClose, Quit, BeginFrame, RebuildLists, RenderLists,
         Overlay, Teardown, ServeInitialScan, ServeNewAdapter, ServeRescan, Admitted
    <3>2. ui # "launch" => ui' # "launch" \/ UNCHANGED vars
      BY <1>3 DEF QuietStep, CustomEvent, CtrlC, ToggleHeader, PressMotor, PressRescan, PressSetId,
         PressAddAdapter, DialogOk, DialogClose, Quit, BeginFrame, RebuildLists, RenderLists,
         Overlay, Teardown, ServeInitialScan, ServeNewAdapter, ServeRescan, Admitted, Ask
    <3> QED
      BY <3>1, <3>2 DEF vars
  <2>2. Unlaunched' = Unlaunched /\ Counting' = Counting
    BY <1>3, <2>1, Quiet DEF Unlaunched, Counting
  <2> QED
    BY <1>1, <1>3, <2>2, Quiet DEF FlagInv, ScanFlagMatchesThreads
<1>4. ASSUME NEW w \in workers, WorkerScan(w)
      PROVE  FlagInv'
  <2>1. UNCHANGED <<tasks, scanActive, ui, job>> /\ w.at = "scan" /\ Unlaunched' = Unlaunched
    BY <1>4 DEF WorkerScan, Unlaunched
  <2>2. CASE ~w.global
    <3>1. workers' = workers \ {w} /\ IsFiniteSet(workers')
      BY <1>1, <1>4, <2>2, FS_RemoveElement DEF WorkerScan, Advance
    <3>2. Counting' = Counting
      BY <2>2, <3>1 DEF Counting
    <3>3. (\E v \in workers' : v.at = "lower") <=> (\E v \in workers : v.at = "lower")
      BY <2>1, <3>1
    <3> QED
      BY <1>1, <2>1, <3>1, <3>2, <3>3 DEF FlagInv, ScanFlagMatchesThreads
  <2>3. CASE w.global
    <3> DEFINE u == [w EXCEPT !.at = "count"]
    <3>1. u.bus = w.bus /\ u.at = "count" /\ u.global /\ u # w
      BY <1>1, <2>1, <2>3 DEF Worker
    <3>2. workers' = (workers \ {w}) \cup {u}
      BY <1>4, <2>3 DEF WorkerScan, Advance
    <3> HIDE DEF u
    <3>3. IsFiniteSet(workers')
      BY <1>1, <3>2, FS_RemoveElement, FS_AddElement
    <3>4. w \in Counting /\ u \notin Counting
      BY <1>1, <2>1, <2>3, <3>1 DEF Counting, OneScanPerBus
    <3>5. Counting' = (Counting \ {w}) \cup {u}
      BY <3>1, <3>2 DEF Counting
    <3>6. Cardinality(Counting') = Cardinality(Counting)
      <4>1. IsFiniteSet(Counting \ {w}) /\ Cardinality(Counting \ {w}) = Cardinality(Counting) - 1
        BY <1>2, <3>4, FS_RemoveElement
      <4>2. Cardinality((Counting \ {w}) \cup {u}) = Cardinality(Counting \ {w}) + 1
        BY <3>4, <4>1, FS_AddElement
      <4> QED
        BY <1>2, <3>5, <4>1, <4>2
    <3>7. \A v : v \in workers' /\ v.at = "lower" <=> v \in workers /\ v.at = "lower"
      BY <2>1, <3>1, <3>2
    <3> QED
      BY <1>1, <2>1, <3>3, <3>6, <3>7 DEF FlagInv, ScanFlagMatchesThreads
  <2> QED
    BY <2>2, <2>3
<1>5. ASSUME NEW w \in workers, WorkerCount(w)
      PROVE  FlagInv'
  <2> DEFINE u == [w EXCEPT !.at = "lower"]
  <2>1. /\ UNCHANGED <<scanActive, ui, job>> /\ tasks' = tasks - 1 /\ Unlaunched' = Unlaunched
        /\ workers' = (workers \ {w}) \cup (IF tasks = 1 THEN {u} ELSE {})
        /\ w.at = "count"
    BY <1>5 DEF WorkerCount, Unlaunched
  <2>2. u.at = "lower"
    BY <1>1 DEF Worker
  <2> HIDE DEF u
  <2>3. w \in Counting /\ tasks \in Nat \ {0}
    BY <1>5, CountsItself
  <2>4. IsFiniteSet(workers')
    <3>1. IsFiniteSet(workers \ {w})
      BY <1>1, FS_RemoveElement
    <3>2. IsFiniteSet((workers \ {w}) \cup {u})
      BY <3>1, FS_AddElement
    <3>3. (workers \ {w}) \cup {} = workers \ {w}
      OBVIOUS
    <3> QED
      BY <2>1, <3>1, <3>2, <3>3
  <2>5. Counting' = Counting \ {w}
    BY <2>1, <2>2 DEF Counting
  <2>6. Cardinality(Counting') = Cardinality(Counting) - 1
    BY <1>2, <2>3, <2>5, FS_RemoveElement
  <2>7. tasks' = Cardinality(Unlaunched') + Cardinality(Counting')
    BY <1>1, <1>2, <2>1, <2>6
  <2>8. \A v \in workers : v.at # "lower"
    BY <1>1, <2>3 DEF FlagInv
  <2>9. scanActive
    BY <1>1, <2>3
  <2>10. CASE tasks = 1
    BY <2>1, <2>2, <2>4, <2>7, <2>8, <2>9, <2>10 DEF FlagInv, ScanFlagMatchesThreads
  <2>11. CASE tasks # 1
    <3>1. tasks' # 0
      BY <2>1, <2>3, <2>11
    <3> QED
      BY <2>1, <2>4, <2>7, <2>8, <2>9, <2>11, <3>1 DEF FlagInv, ScanFlagMatchesThreads
  <2> QED
    BY <2>10, <2>11
<1>6. ASSUME NEW w \in workers, WorkerLower(w)
      PROVE  FlagInv'
  <2>1. /\ UNCHANGED <<tasks, ui, job>> /\ scanActive' = FALSE /\ Unlaunched' = Unlaunched
        /\ workers' = workers \ {w} /\ w.at = "lower"
    BY <1>6 DEF WorkerLower, Unlaunched
  <2>2. tasks = 0 /\ \A v \in workers' : v.at # "lower"
    BY <1>1, <2>1 DEF FlagInv
  <2>3. Counting' = Counting /\ IsFiniteSet(workers')
    BY <1>1, <2>1, FS_RemoveElement DEF Counting
  <2> QED
    BY <1>1, <2>1, <2>2, <2>3 DEF FlagInv, ScanFlagMatchesThreads
<1>7. CASE StartScan
  <2>1. workers = {} /\ workers' = {} /\ Counting = {} /\ Counting' = {} /\ Unlaunched = {}
    BY <1>7 DEF StartScan, WorkersJoined, Counting, Unlaunched
  <2>2. IsFiniteSet({}) /\ Cardinality({}) = 0
    BY FS_EmptySet
  <2>3. tasks = 0 /\ ~scanActive
    BY <1>1, <2>1, <2>2
  <2>4. CASE ~job.global
    <3>1. UNCHANGED <<tasks, scanActive>> /\ Unlaunched' = {}
      BY <1>7, <2>4 DEF StartScan, Unlaunched, NoJob
    <3> QED
      BY <2>1, <2>2, <2>3, <3>1 DEF FlagInv, ScanFlagMatchesThreads
  <2>5. CASE job.global
    <3>1. tasks' = Cardinality(job.buses) /\ scanActive' = (job.buses # {})
      BY <1>7, <2>5 DEF StartScan
    <3>2. Unlaunched' = job.buses
      <4>1. CASE job.buses = {}
        BY <1>7, <4>1 DEF StartScan, Unlaunched, NoJob
      <4>2. CASE job.buses # {}
        BY <1>7, <2>5, <4>2 DEF StartScan, Unlaunched
      <4> QED
        BY <4>1, <4>2
    <3>3. Cardinality(job.buses) = 0 <=> job.buses = {}
      BY <1>2, FS_EmptySet
    <3>4. tasks' = Cardinality(Unlaunched') + Cardinality(Counting')
      BY <1>2, <2>1, <2>2, <3>1, <3>2
    <3>5. scanActive' <=> tasks' # 0
      BY <3>1, <3>3
    <3> QED
      BY <2>1, <2>2, <3>4, <3>5 DEF FlagInv, ScanFlagMatchesThreads
  <2> QED
    BY <2>4, <2>5
<1>8. ASSUME NEW b \in Buses, Launch(b)
      PROVE  FlagInv'
  <2>1. PICK w \in Worker : /\ workers' = workers \cup {w}
                            /\ w.bus = b /\ w.global = job.global /\ w.at = "scan"
    BY <1>8, LaunchFacts
  <2>2. UNCHANGED <<tasks, scanActive>> /\ ui = "launch" /\ b \in job.buses
    BY <1>8 DEF Launch
  <2>3. w \notin workers
    BY <1>1, <2>1, <2>2 DEF WorkInv
  <2>4. IsFiniteSet(workers')
    BY <1>1, <2>1, FS_AddElement
  <2>5. \A v : v \in workers' /\ v.at = "lower" <=> v \in workers /\ v.at = "lower"
    BY <2>1
  <2>6. job.back # "launch"
    BY <1>1 DEF Job
  <2>7. CASE ~job.global
    <3>1. Counting' = Counting
      BY <2>1, <2>7 DEF Counting
    <3>2. Unlaunched = {} /\ Unlaunched' = {}
      BY <1>1, <1>8, <2>2, <2>7, LaunchFacts DEF Unlaunched, NoJob, Job
    <3> QED
      BY <1>1, <2>2, <2>4, <2>5, <3>1, <3>2 DEF FlagInv, ScanFlagMatchesThreads
  <2>8. CASE job.global
    <3>1. Counting' = Counting \cup {w} /\ w \notin Counting
      BY <2>1, <2>3, <2>8 DEF Counting
    <3>2. Unlaunched = job.buses
      BY <2>2, <2>8 DEF Unlaunched
    <3>3. Unlaunched' = job.buses \ {b}
      <4>1. CASE job.buses = {b}
        BY <1>8, <2>6, <4>1, LaunchFacts DEF Unlaunched, NoJob
      <4>2. CASE job.buses # {b}
        <5>1. job' = [job EXCEPT !.buses = @ \ {b}] /\ ui' = "launch"
          BY <1>8, <2>2, <4>2 DEF Launch
        <5>2. job'.global = job.global /\ job'.buses = job.buses \ {b}
          BY <1>1, <5>1 DEF Job
        <5> QED
          BY <2>8, <5>1, <5>2 DEF Unlaunched
      <4> QED
        BY <4>1, <4>2
    <3>4. Cardinality(Counting') = Cardinality(Counting) + 1
      BY <1>2, <3>1, FS_AddElement
    <3>5. Cardinality(Unlaunched') = Cardinality(Unlaunched) - 1
      BY <1>2, <2>2, <3>2, <3>3, FS_RemoveElement
    <3>6. tasks' = Cardinality(Unlaunched') + Cardinality(Counting')
      BY <1>1, <1>2, <2>2, <3>4, <3>5
    <3> QED
      BY <1>1, <2>2, <2>4, <2>5, <3>6 DEF FlagInv, ScanFlagMatchesThreads
  <2> QED
    BY <1>1, <2>7, <2>8 DEF Job
<1> QED
  BY <1>3, <1>4, <1>5, <1>6, <1>7, <1>8, Steps

(* Every step keeps the lists to motors that exist. *)
LEMMA ListStep == IInv /\ [Next]_vars => ListInv'
<1> SUFFICES ASSUME IInv, [Next]_vars
             PROVE  ListInv'
  OBVIOUS
<1>1. /\ ListInv /\ result \in [Buses -> Result] /\ live \subseteq Motor
      /\ buttons \in [Buses -> SUBSET Motor] /\ renderedRev \in [Buses -> 0..Never]
      /\ job \in Job /\ MaxScans \in Nat
      /\ \A b \in Buses : result[b].rev \in 0..MaxScans
  BY ConstantsAssumption DEF IInv, TypeOK, Result
<1> USE DEF vars, scanVars, listVars
<1>2. CASE QuietStep
  <2>1. UNCHANGED <<result, live>>
    BY <1>2, Quiet
  <2>2. \A b \in Buses : Cleared(b)' <=> Cleared(b)
    <3>1. ui = "launch" => UNCHANGED <<ui, job>>
      BY <1>2 DEF QuietStep, CustomEvent, CtrlC, ToggleHeader, PressMotor, PressRescan, PressSetId,
         PressAddAdapter, DialogOk, DialogClose, Quit, BeginFrame, RebuildLists, RenderLists,
         Overlay, Teardown, ServeInitialScan, ServeNewAdapter, ServeRescan, Admitted
    <3>2. ui # "launch" => ui' # "launch"
      BY <1>2 DEF QuietStep, CustomEvent, CtrlC, ToggleHeader, PressMotor, PressRescan, PressSetId,
         PressAddAdapter, DialogOk, DialogClose, Quit, BeginFrame, RebuildLists, RenderLists,
         Overlay, Teardown, ServeInitialScan, ServeNewAdapter, ServeRescan, Admitted, Ask
    <3> QED
      BY <3>1, <3>2 DEF Cleared
  <2>3. CASE RebuildLists
    <3>1. \A b \in Buses : buttons'[b] = {} /\ renderedRev'[b] = Never
      BY <2>3 DEF RebuildLists
    <3>2. \A b \in Buses : Never # result[b].rev
      BY <1>1 DEF Never
    <3> QED
      BY <1>1, <2>1, <2>2, <3>1, <3>2 DEF ListInv
  <2>4. CASE RenderLists
    <3>1. ASSUME NEW b \in Buses
          PROVE  \/ /\ result[b].status = "Complete"
                    /\ buttons'[b] = result[b].motors /\ renderedRev'[b] = result[b].rev
                 \/ buttons'[b] = buttons[b] /\ renderedRev'[b] = renderedRev[b]
      BY <2>4 DEF RenderLists, Outdated
    <3> QED
      BY <1>1, <2>1, <2>2, <3>1 DEF ListInv
  <2>5. CASE ~RebuildLists /\ ~RenderLists
    <3>1. UNCHANGED <<buttons, renderedRev>>
      BY <1>2, <2>5 DEF QuietStep, CustomEvent, CtrlC, ToggleHeader, PressMotor, PressRescan, PressSetId,
         PressAddAdapter, DialogOk, DialogClose, Quit, BeginFrame, Overlay, Teardown,
         ServeInitialScan, ServeNewAdapter, ServeRescan
    <3> QED
      BY <1>1, <2>1, <2>2, <3>1 DEF ListInv
  <2> QED
    BY <2>3, <2>4, <2>5
<1>3. ASSUME NEW w \in workers, WorkerScan(w)
      PROVE  ListInv'
  <2>1. UNCHANGED <<buttons, renderedRev>> /\ \A b \in Buses : Cleared(b)' <=> Cleared(b)
    BY <1>3 DEF WorkerScan, Cleared
  <2>2. w.bus \in Buses /\ renderedRev[w.bus] # result[w.bus].rev
    BY <1>1, <1>3, ScanFacts DEF IInv, WorkInv, ListInv
  <2>3. ASSUME NEW b \in Buses, b # w.bus
        PROVE  result'[b] = result[b] /\ live \subseteq live'
    BY <1>3, <2>3, ScanFacts
  <2>4. /\ result'[w.bus].rev = result[w.bus].rev
        /\ result'[w.bus].motors \subseteq live'
        /\ \A m \in result'[w.bus].motors : m.bus = w.bus
    BY <1>3, <2>2, ScanFacts
  <2>5. ASSUME NEW b \in Buses
        PROVE  /\ \A m \in result'[b].motors \cup buttons'[b] : m.bus = b
               /\ renderedRev'[b] <= result'[b].rev \/ renderedRev'[b] = Never
               /\ result'[b].status = "Scanning" => renderedRev'[b] # result'[b].rev
               /\ result'[b].status = "Complete" /\ ~Cleared(b)' =>
                    /\ result'[b].motors \subseteq live'
                    /\ renderedRev'[b] = result'[b].rev => buttons'[b] \subseteq live'
    <3>1. CASE b = w.bus
      BY <1>1, <2>1, <2>2, <2>4, <3>1 DEF ListInv
    <3>2. CASE b # w.bus
      BY <1>1, <2>1, <2>3, <3>2 DEF ListInv
    <3> QED
      BY <3>1, <3>2
  <2> QED
    BY <2>5 DEF ListInv
<1>4. ASSUME NEW w \in workers, WorkerCount(w) \/ WorkerLower(w)
      PROVE  ListInv'
  BY <1>1, <1>4 DEF WorkerCount, WorkerLower, ListInv, Cleared
<1>5. CASE StartScan
  <2>1. /\ UNCHANGED <<result, buttons, renderedRev>>
        /\ live' = {m \in live : m.bus \notin job.buses}
        /\ ui = "wait"
    BY <1>5 DEF StartScan
  <2>2. \A b \in Buses : ~Cleared(b) /\ (Cleared(b)' <=> b \in job.buses)
    <3>1. job.buses = {} => ui' # "launch"
      BY <1>1, <1>5 DEF StartScan, Job
    <3>2. job.buses # {} => ui' = "launch" /\ UNCHANGED job
      BY <1>5 DEF StartScan
    <3> QED
      BY <2>1, <3>1, <3>2 DEF Cleared
  <2> QED
    BY <1>1, <2>1, <2>2 DEF ListInv
<1>6. ASSUME NEW b \in Buses, Launch(b)
      PROVE  ListInv'
  <2>1. UNCHANGED <<live, buttons, renderedRev>>
    BY <1>6 DEF Launch
  <2>2. /\ ui = "launch" /\ b \in job.buses
        /\ \A c \in Buses : c # b => result'[c] = result[c]
        /\ result'[b].status = "Scanning" /\ result'[b].motors = {}
        /\ result'[b].rev = result[b].rev + 1
        /\ result' \in [Buses -> Result]
    BY <1>6, LaunchFacts
  <2>3. \A c \in Buses : c # b => (Cleared(c)' <=> Cleared(c))
    <3>1. CASE job.buses = {b}
      BY <1>1, <1>6, <2>2, <3>1, LaunchFacts DEF Cleared, NoJob
    <3>2. CASE job.buses # {b}
      <4>1. job' = [job EXCEPT !.buses = @ \ {b}] /\ UNCHANGED ui
        BY <1>6, <3>2 DEF Launch
      <4>2. job'.buses = job.buses \ {b}
        BY <1>1, <4>1 DEF Job
      <4> QED
        BY <4>1, <4>2 DEF Cleared
    <3> QED
      BY <3>1, <3>2
  <2>4. renderedRev[b] # result'[b].rev /\ (renderedRev[b] <= result'[b].rev \/ renderedRev[b] = Never)
    <3>1. result'[b].rev \in 0..MaxScans
      BY <2>2 DEF Result
    <3> QED
      BY <1>1, <2>2, <3>1 DEF ListInv, Never
  <2> QED
    BY <1>1, <2>1, <2>2, <2>3, <2>4 DEF ListInv
<1> QED
  BY <1>2, <1>3, <1>4, <1>5, <1>6, Steps

(* Every step keeps a global scan to itself. *)
LEMMA ModalStep == IInv /\ [Next]_vars => ModalInv'
<1> SUFFICES ASSUME IInv, [Next]_vars
             PROVE  ModalInv'
  OBVIOUS
<1>1. /\ ModalInv /\ (ui \notin {"events", "teardown", "returned"} => page = 0) /\ page \in {0, 1}
      /\ scanActive \in BOOLEAN /\ dialogVisible \in BOOLEAN /\ hasRendered \in BOOLEAN
  BY DEF IInv, JobInv, TypeOK
<1> USE DEF vars, scanVars, modalVars
<1>2. CASE QuietStep
  <2>1. UNCHANGED scanActive
    BY <1>2, Quiet
  <2>2. CASE CustomEvent \/ CtrlC \/ Overlay
    <3>1. /\ dialogVisible' = ShouldShowMotorScanDialog
          /\ UNCHANGED <<selected, page>>
      BY <2>2 DEF CustomEvent, CtrlC, Overlay
    <3> QED
      BY <1>1, <2>1, <3>1 DEF ModalInv, ShouldShowMotorScanDialog
  <2>3. CASE Admitted
    <3>1. ~scanActive /\ ~dialogVisible'
      BY <1>1, <2>3 DEF ModalInv, Admitted, ShouldShowMotorScanDialog
    <3> QED
      BY <2>1, <3>1 DEF ModalInv
  <2>4. CASE ~Admitted /\ ~CustomEvent /\ ~CtrlC /\ ~Overlay
    <3>1. UNCHANGED <<dialogVisible, selected, page>>
      BY <1>2, <2>4 DEF QuietStep, ToggleHeader, PressMotor, PressRescan, PressSetId,
         PressAddAdapter, DialogOk, DialogClose, Quit, BeginFrame, RebuildLists, RenderLists,
         Teardown, ServeInitialScan, ServeNewAdapter, ServeRescan
    <3> QED
      BY <1>1, <2>1, <3>1 DEF ModalInv
  <2> QED
    BY <2>2, <2>3, <2>4
<1>3. ASSUME NEW w \in workers, WorkerScan(w) \/ WorkerCount(w) \/ WorkerLower(w)
      PROVE  ModalInv'
  BY <1>1, <1>3 DEF ModalInv, WorkerScan, WorkerCount, WorkerLower
<1>4. CASE StartScan
  BY <1>1, <1>4 DEF ModalInv, StartScan, Deselect
<1>5. ASSUME NEW b \in Buses, Launch(b)
      PROVE  ModalInv'
  BY <1>1, <1>5 DEF ModalInv, Launch
<1> QED
  BY <1>2, <1>3, <1>4, <1>5, Steps

-----------------------------------------------------------------------------
(* The inductive invariant holds in every state. *)
THEOREM Invariance == Safety => []IInv
<1>1. IInv /\ [Next]_vars => IInv'
  BY TypeStep, JobStep, BudgetStep, WorkStep, FlagStep, ListStep, ModalStep DEF IInv
<1> QED
  BY <1>1, InitIInv, PTL DEF Safety

(* Every variable keeps its type; no revision ever exceeds the scans asked *)
(* for.                                                                    *)
THEOREM TypeCorrect == Spec => []TypeOK
<1>1. IInv => TypeOK
  BY DEF IInv
<1> QED
  BY <1>1, Invariance, PTL DEF Spec

(* A global scan is active exactly while one of its threads has yet to be  *)
(* started, to scan or to count itself out.                                *)
THEOREM FlagIsRight == Spec => []ScanFlagMatchesThreads
<1>1. IInv => ScanFlagMatchesThreads
  BY DEF IInv, FlagInv
<1> QED
  BY <1>1, Invariance, PTL DEF Spec

(* Threads never meet on a bus, no finished scan is dropped as outdated,   *)
(* and none is left when RunTui has returned.                              *)
THEOREM ThreadsAreOwned == Spec => []ScanThreadsAreOwned
<1>1. IInv => ScanThreadsAreOwned
  BY DEF IInv, WorkInv, JobInv, ScanThreadsAreOwned, NoThreadAfterReturn
<1> QED
  BY <1>1, Invariance, PTL DEF Spec

(* The buttons of a list that is up to date point to motors the driver     *)
(* still has.                                                              *)
THEOREM ButtonsAreLive == Spec => []FreshButtonsAreLive
<1>1. IInv => FreshButtonsAreLive
  BY DEF IInv, ListInv, Cleared, FreshButtonsAreLive
<1> QED
  BY <1>1, Invariance, PTL DEF Spec

(* While a global scan deletes and finds motors none is selected, and the  *)
(* scan dialog never hides under the Add Adapter dialog.                   *)
THEOREM ScanIsModal == Spec => []GlobalScanIsModal
<1>1. IInv => GlobalScanIsModal
  BY DEF IInv, ModalInv, TypeOK, GlobalScanIsModal, NothingSelectedInGlobalScan, ScanDialogOverPanels,
         ShouldShowMotorScanDialog
<1> QED
  BY <1>1, Invariance, PTL DEF Spec
=============================================================================
