----------------------------- MODULE MotorScan -----------------------------
(***************************************************************************)
(* The left panel of the terminal interface: MotorScanManager, which scans *)
(* every bus of the adapters on a thread of its own, the motor buttons     *)
(* built from the results, the "Scanning motors..." dialog that gates the  *)
(* events (components/left_panel.cc, RunTui in main.cc), and the two       *)
(* dialogs that ask for a scan: Add Adapter and the CAN ID setting         *)
(* (components/settings_panel.cc).                                         *)
(*                                                                         *)
(* The UI thread handles any number of events and then draws one frame;    *)
(* drawing the panel is what serves the requests. The driver's Bus is      *)
(* external: ScanMotors finds a motor, finds none or throws, and a Motor   *)
(* is known by the scan that made it.                                      *)
(***************************************************************************)
EXTENDS Naturals, FiniteSets

CONSTANTS
  Adapters,    \* adapters that can be opened
  Buses,       \* their buses
  AdapterOf,   \* the adapter of each bus
  Preloaded,   \* the adapters named on the command line
  NoAdapter,   \* no pending_adapter_scan_index
  NoBus,       \* no rescan_request
  MaxScans     \* bound: scans asked for in a behaviour, the initial one included

ASSUME ConstantsAssumption ==
  /\ IsFiniteSet(Buses)
  /\ AdapterOf \in [Buses -> Adapters]
  /\ Preloaded \subseteq Adapters
  /\ NoAdapter \notin Adapters
  /\ NoBus \notin Buses
  /\ MaxScans \in Nat \ {0}

VARIABLES
  adapters,       \* adapter_state.adapters
  result,         \* MotorScanResult of each bus
  live,           \* the motors in the driver's caches
  workers,        \* the scan threads that have not returned
  tasks,          \* active_global_tasks_
  scanActive,     \* global_scan_active
  dialogVisible,  \* global_scan_dialog_visible
  hasRendered,    \* global_scan_dialog_has_rendered
  selected,       \* AppState::selected_motor_
  buttons,        \* the motors captured by the buttons of each bus's list
  renderedRev,    \* rendered_revision of each list
  expanded,       \* the headers above the list are open
  page,           \* dialog_state.current_page: 0 the panels, 1 the Add Adapter dialog
  todo,           \* the requests the next frame of the panel serves
  ui,             \* where the UI thread is
  job,            \* the scan being started: ScanAll or ScanBus
  scans           \* scans asked for so far

scanVars  == <<result, live, workers, tasks, scanActive>>
modalVars == <<dialogVisible, hasRendered>>
listVars  == <<buttons, renderedRev, expanded>>
vars == <<adapters, scanVars, modalVars, selected, listVars, page, todo, ui, job, scans>>

-----------------------------------------------------------------------------
Never   == MaxScans + 1   \* rendered_revision of a list not yet rendered
Motor   == [bus : Buses, rev : 1..MaxScans]
NoMotor == [bus |-> NoBus, rev |-> 0]
Result  == [status : {"Idle", "Scanning", "Complete", "Failed"}, motors : SUBSET Motor,
            rev : 0..MaxScans]
Worker  == [bus : Buses, rev : 1..MaxScans, global : BOOLEAN, at : {"scan", "count", "lower"}]
Job     == [global : BOOLEAN, buses : SUBSET Buses, back : {"events", "panel"}]
NoJob   == [global |-> FALSE, buses |-> {}, back |-> "events"]

BusesOf(as) == {b \in Buses : AdapterOf[b] \in as}

Init ==
  /\ adapters = Preloaded
  /\ result = [b \in Buses |-> [status |-> "Idle", motors |-> {}, rev |-> 0]]
  /\ live = {}
  /\ workers = {}
  /\ tasks = 0
  /\ scanActive = FALSE
  /\ dialogVisible = FALSE
  /\ hasRendered = FALSE
  /\ selected = NoMotor
  /\ buttons = [b \in Buses |-> {}]
  /\ renderedRev = [b \in Buses |-> Never]
  /\ expanded = [b \in Buses |-> FALSE]
  /\ page = 0
  /\ todo = [rebuild |-> FALSE, initial |-> TRUE, adapter |-> NoAdapter, bus |-> NoBus]
  /\ ui = "events"
  /\ job = NoJob
  /\ scans = 1

-----------------------------------------------------------------------------
(* The scan threads. The lock of the bus is held from the scan to the end. *)

LockedOut(w) == \E v \in workers : v.bus = w.bus /\ v.at # "scan"

\* MotorScanResult::Complete and Fail: an outdated revision is dropped.
Report(w, status, motors) ==
  result' = IF result[w.bus].rev = w.rev
              THEN [result EXCEPT ![w.bus] = [status |-> status, motors |-> motors, rev |-> @.rev]]
              ELSE result

\* Only a thread of ScanAll goes on to count itself out.
Advance(w, next) ==
  workers' = (workers \ {w}) \cup (IF w.global THEN {[w EXCEPT !.at = next]} ELSE {})

WorkerScan(w) ==
  /\ w.at = "scan"
  /\ ~LockedOut(w)
  /\ \/ \E motors \in {{}, {[bus |-> w.bus, rev |-> w.rev]}} :
          live' = live \cup motors /\ Report(w, "Complete", motors)
     \/ live' = live /\ Report(w, "Failed", {})
  /\ Advance(w, "count")
  /\ UNCHANGED <<adapters, tasks, scanActive, modalVars, selected, listVars, page, todo, ui, job, scans>>

\* Mutation: whichever thread finishes lowers the flag.
WorkerCountFirst(w) ==
  /\ w.at = "count"
  /\ tasks' = tasks - 1
  /\ workers' = (workers \ {w}) \cup {[w EXCEPT !.at = "lower"]}
  /\ UNCHANGED <<adapters, result, live, scanActive, modalVars, selected, listVars, page, todo, ui, job, scans>>

\* fetch_sub(1) == 1: the last thread goes on to lower the flag.
WorkerCount(w) ==
  /\ w.at = "count"
  /\ tasks' = tasks - 1
  /\ workers' = (workers \ {w}) \cup (IF tasks = 1 THEN {[w EXCEPT !.at = "lower"]} ELSE {})
  /\ UNCHANGED <<adapters, result, live, scanActive, modalVars, selected, listVars, page, todo, ui, job, scans>>

WorkerLower(w) ==
  /\ w.at = "lower"
  /\ scanActive' = FALSE
  /\ workers' = workers \ {w}
  /\ UNCHANGED <<adapters, result, live, tasks, modalVars, selected, listVars, page, todo, ui, job, scans>>

-----------------------------------------------------------------------------
(* ScanAll and ScanBus, on the UI thread.                                  *)

Ask(j) == ui' = "wait" /\ job' = j

\* Mutation: the threads of a global scan are not joined.
LocalJoined == \A w \in workers : w.global

\* WaitForWorkers on both lists blocks the UI thread.
WorkersJoined == workers = {}

\* Mutation: the selection is cleared by ScanBus only.
DeselectForLocal(j) == selected' = IF j.global THEN selected ELSE NoMotor

Deselect(j) == selected' = NoMotor

\* ClearMotorsForRescan, then the counters and flags of a global scan.
StartScan ==
  /\ ui = "wait"
  /\ WorkersJoined
  /\ Deselect(job)
  /\ live' = {m \in live : m.bus \notin job.buses}
  /\ IF job.global
       THEN /\ tasks' = Cardinality(job.buses)
            /\ scanActive' = (job.buses # {})
            /\ hasRendered' = FALSE
            /\ dialogVisible' = TRUE
       ELSE UNCHANGED <<tasks, scanActive, modalVars>>
  /\ IF job.buses = {}
       THEN job' = NoJob /\ ui' = job.back
       ELSE ui' = "launch" /\ UNCHANGED job
  /\ UNCHANGED <<adapters, result, workers, listVars, page, todo, scans>>

\* Mutation: a rescan keeps the revision of the result.
BeginSameRevision(b) ==
  result' = [result EXCEPT ![b] =
    [status |-> "Scanning", motors |-> {}, rev |-> IF @.rev = 0 THEN 1 ELSE @.rev]]

\* MotorScanResult::Begin
Begin(b) ==
  result' = [result EXCEPT ![b] = [status |-> "Scanning", motors |-> {}, rev |-> @.rev + 1]]

\* StartJob, one bus after the other in the order of the driver's map.
Launch(b) ==
  /\ ui = "launch"
  /\ b \in job.buses
  /\ Begin(b)
  /\ workers' = workers \cup {[bus |-> b, rev |-> result'[b].rev, global |-> job.global, at |-> "scan"]}
  /\ IF job.buses = {b}
       THEN job' = NoJob /\ ui' = job.back
       ELSE job' = [job EXCEPT !.buses = @ \ {b}] /\ UNCHANGED ui
  /\ UNCHANGED <<adapters, live, tasks, scanActive, modalVars, selected, listVars, page, todo, scans>>

-----------------------------------------------------------------------------
(* The events. CatchEvent swallows all but Custom while the scan dialog is *)
(* up; asking whether it is hides a dialog that has been drawn.            *)

ShouldShowMotorScanDialog == dialogVisible /\ (scanActive \/ ~hasRendered)

Admitted ==
  /\ ui = "events"
  /\ ~ShouldShowMotorScanDialog
  /\ dialogVisible' = FALSE
  /\ UNCHANGED hasRendered

\* The refresh thread posts Custom every 50 ms.
CustomEvent ==
  /\ ui = "events"
  /\ dialogVisible' = ShouldShowMotorScanDialog
  /\ UNCHANGED <<adapters, scanVars, hasRendered, selected, listVars, page, todo, ui, job, scans>>

\* A list takes events when its headers are open, drawn or not. On an adapter
\* with several buses the entry of a bus without motors disappears.
Reachable(b) ==
  /\ AdapterOf[b] \in adapters
  /\ \/ BusesOf({AdapterOf[b]}) = {b}
     \/ result[b].status \in {"Idle", "Scanning"}
     \/ result[b].motors # {}

ToggleHeader(b) ==
  /\ Admitted
  /\ page = 0
  /\ Reachable(b)
  /\ expanded' = [expanded EXCEPT ![b] = ~@]
  /\ UNCHANGED <<adapters, scanVars, selected, buttons, renderedRev, page, todo, ui, job, scans>>

PressMotor(b) ==
  /\ Admitted
  /\ page = 0
  /\ Reachable(b)
  /\ expanded[b]
  /\ \E m \in buttons[b] : selected' = m
  /\ UNCHANGED <<adapters, scanVars, listVars, page, todo, ui, job, scans>>

PressRescan ==
  /\ Admitted
  /\ page = 0
  /\ scans < MaxScans
  /\ scans' = scans + 1
  /\ Ask([global |-> TRUE, buses |-> BusesOf(adapters), back |-> "events"])
  /\ UNCHANGED <<adapters, scanVars, selected, listVars, page, todo>>

\* The CAN ID setting, when the motor accepted its new ID.
PressSetId ==
  /\ Admitted
  /\ page = 0
  /\ selected # NoMotor
  /\ scans < MaxScans
  /\ scans' = scans + 1
  /\ todo' = [todo EXCEPT !.bus = selected.bus]
  /\ UNCHANGED <<adapters, scanVars, selected, listVars, page, ui, job>>

PressAddAdapter ==
  /\ Admitted
  /\ page = 0
  /\ page' = 1
  /\ UNCHANGED <<adapters, scanVars, selected, listVars, todo, ui, job, scans>>

DialogOk(a) ==
  /\ Admitted
  /\ page = 1
  /\ a \notin adapters
  /\ scans < MaxScans
  /\ scans' = scans + 1
  /\ adapters' = adapters \cup {a}
  /\ todo' = [todo EXCEPT !.adapter = a, !.rebuild = TRUE]
  /\ page' = 0
  /\ UNCHANGED <<scanVars, selected, listVars, ui, job>>

\* Cancel, or OK with nothing to open.
DialogClose ==
  /\ Admitted
  /\ page = 1
  /\ page' = 0
  /\ UNCHANGED <<adapters, scanVars, selected, listVars, todo, ui, job, scans>>

Quit ==
  /\ Admitted
  /\ page = 0
  /\ ui' = "teardown"
  /\ UNCHANGED <<adapters, scanVars, selected, listVars, page, todo, job, scans>>

\* FTXUI offers Ctrl-C to the filter like any event and leaves its loop
\* whoever swallows it: under either dialog too.
CtrlC ==
  /\ ui = "events"
  /\ dialogVisible' = ShouldShowMotorScanDialog
  /\ ui' = "teardown"
  /\ UNCHANGED <<adapters, scanVars, hasRendered, selected, listVars, page, todo, job, scans>>

-----------------------------------------------------------------------------
(* One frame. The Add Adapter dialog hides the panel: nothing is served.   *)

BeginFrame ==
  /\ ui = "events"
  /\ page = 0
  /\ ui' = "panel"
  /\ UNCHANGED <<adapters, scanVars, modalVars, selected, listVars, page, todo, job, scans>>

\* New components for every adapter: the old buttons are gone.
RebuildLists ==
  /\ ui = "panel"
  /\ todo.rebuild
  /\ buttons' = [b \in Buses |-> {}]
  /\ renderedRev' = [b \in Buses |-> Never]
  /\ expanded' = [b \in Buses |-> FALSE]
  /\ todo' = [todo EXCEPT !.rebuild = FALSE]
  /\ UNCHANGED <<adapters, scanVars, modalVars, selected, page, ui, job, scans>>

ServeInitialScan ==
  /\ ui = "panel"
  /\ ~todo.rebuild
  /\ todo.initial
  /\ todo' = [todo EXCEPT !.initial = FALSE]
  /\ Ask([global |-> TRUE, buses |-> BusesOf(adapters), back |-> "panel"])
  /\ UNCHANGED <<adapters, scanVars, modalVars, selected, listVars, page, scans>>

\* Mutation: every request is reset, not only the one served.
ServeNewAdapterAndForget ==
  /\ ui = "panel"
  /\ ~todo.rebuild /\ ~todo.initial
  /\ todo.adapter # NoAdapter
  /\ todo' = [todo EXCEPT !.adapter = NoAdapter, !.bus = NoBus]
  /\ Ask([global |-> TRUE, buses |-> BusesOf({todo.adapter}), back |-> "panel"])
  /\ UNCHANGED <<adapters, scanVars, modalVars, selected, listVars, page, scans>>

ServeNewAdapter ==
  /\ ui = "panel"
  /\ ~todo.rebuild /\ ~todo.initial
  /\ todo.adapter # NoAdapter
  /\ todo' = [todo EXCEPT !.adapter = NoAdapter]
  /\ Ask([global |-> TRUE, buses |-> BusesOf({todo.adapter}), back |-> "panel"])
  /\ UNCHANGED <<adapters, scanVars, modalVars, selected, listVars, page, scans>>

ServeRescan ==
  /\ ui = "panel"
  /\ ~todo.rebuild /\ ~todo.initial /\ todo.adapter = NoAdapter
  /\ todo.bus # NoBus
  /\ todo' = [todo EXCEPT !.bus = NoBus]
  /\ Ask([global |-> FALSE, buses |-> {todo.bus}, back |-> "panel"])
  /\ UNCHANGED <<adapters, scanVars, modalVars, selected, listVars, page, scans>>

Outdated(b) ==
  /\ Reachable(b)
  /\ expanded[b]
  /\ result[b].status = "Complete"
  /\ renderedRev[b] # result[b].rev

\* The lists whose headers are open are drawn.
RenderLists ==
  /\ ui = "panel"
  /\ ~todo.rebuild /\ ~todo.initial /\ todo.adapter = NoAdapter /\ todo.bus = NoBus
  /\ buttons' = [b \in Buses |-> IF Outdated(b) THEN result[b].motors ELSE buttons[b]]
  /\ renderedRev' = [b \in Buses |-> IF Outdated(b) THEN result[b].rev ELSE renderedRev[b]]
  /\ ui' = "overlay"
  /\ UNCHANGED <<adapters, scanVars, modalVars, selected, expanded, page, todo, job, scans>>

\* CreateMotorScanDialog over the panels.
Overlay ==
  /\ ui = "overlay"
  /\ dialogVisible' = ShouldShowMotorScanDialog
  /\ hasRendered' = (hasRendered \/ ShouldShowMotorScanDialog)
  /\ ui' = "events"
  /\ UNCHANGED <<adapters, scanVars, selected, listVars, page, todo, job, scans>>

\* ~MotorScanManager joins both lists of threads.
Teardown ==
  /\ ui = "teardown"
  /\ WorkersJoined
  /\ ui' = "returned"
  /\ UNCHANGED <<adapters, scanVars, modalVars, selected, listVars, page, todo, job, scans>>

-----------------------------------------------------------------------------
ScanThread == \E w \in workers : WorkerScan(w) \/ WorkerCount(w) \/ WorkerLower(w)

Event ==
  \/ CustomEvent
  \/ \E b \in Buses : ToggleHeader(b) \/ PressMotor(b)
  \/ PressRescan
  \/ PressSetId
  \/ PressAddAdapter
  \/ \E a \in Adapters : DialogOk(a)
  \/ DialogClose
  \/ Quit
  \/ CtrlC

Frame ==
  \/ BeginFrame
  \/ RebuildLists
  \/ ServeInitialScan
  \/ ServeNewAdapter
  \/ ServeRescan
  \/ StartScan
  \/ \E b \in Buses : Launch(b)
  \/ RenderLists
  \/ Overlay
  \/ Teardown

Returned == ui = "returned" /\ UNCHANGED vars

Next == ScanThread \/ Event \/ Frame \/ Returned

Safety == Init /\ [][Next]_vars

\* ScanMotors returns, so every scan thread ends; RunOnce draws a frame after
\* each batch of events, so no sequence of events puts the frames off.
Spec == Safety /\ WF_vars(ScanThread) /\ WF_vars(Frame)

-----------------------------------------------------------------------------
(* Every variable holds a value of its C++ type. *)
TypeOK ==
  /\ adapters \subseteq Adapters
  /\ result \in [Buses -> Result]
  /\ live \subseteq Motor
  /\ workers \subseteq Worker
  /\ tasks \in Nat
  /\ {scanActive, dialogVisible, hasRendered} \subseteq BOOLEAN
  /\ selected \in Motor \cup {NoMotor}
  /\ buttons \in [Buses -> SUBSET Motor]
  /\ renderedRev \in [Buses -> 0..Never]
  /\ expanded \in [Buses -> BOOLEAN]
  /\ page \in {0, 1}
  /\ todo \in [rebuild : BOOLEAN, initial : BOOLEAN,
               adapter : Adapters \cup {NoAdapter}, bus : Buses \cup {NoBus}]
  /\ ui \in {"events", "panel", "wait", "launch", "overlay", "teardown", "returned"}
  /\ job \in Job
  /\ scans \in 1..MaxScans

Unlaunched == IF ui = "launch" /\ job.global THEN job.buses ELSE {}
Counting   == {w \in workers : w.global /\ w.at # "lower"}

(* The global scan is active exactly while one of its threads has yet to   *)
(* be started, to scan or to count itself out, although the threads start  *)
(* while others already finish.                                            *)
ScanFlagMatchesThreads ==
  /\ tasks = Cardinality(Unlaunched) + Cardinality(Counting)
  /\ scanActive <=> (tasks # 0 \/ \E w \in workers : w.at = "lower")

(* A bus is never scanned by two threads, and the thread's revision is the *)
(* current one: no finished scan is dropped as outdated.                   *)
OneScanPerBus ==
  \A w \in workers :
    /\ result[w.bus].rev = w.rev
    /\ \A v \in workers : v.bus = w.bus => v = w

(* No scan thread is left once RunTui has returned: they use the manager   *)
(* and AppState, which are gone by then.                                   *)
NoThreadAfterReturn == ui = "returned" => workers = {}

(* Threads neither meet on a bus nor outlive what they use. *)
ScanThreadsAreOwned == OneScanPerBus /\ NoThreadAfterReturn

(* A list drawn since its bus was scanned offers motors the driver still   *)
(* has: the raw pointers its buttons captured are valid when pressed.      *)
FreshButtonsAreLive ==
  \A b \in Buses :
    (ui = "events" /\ result[b].status = "Complete" /\ renderedRev[b] = result[b].rev) => buttons[b] \subseteq live

(* No motor is selected while a global scan deletes and finds motors.      *)
NothingSelectedInGlobalScan == scanActive => selected = NoMotor

(* The scan dialog is drawn over the panels only: were it to come up under *)
(* the Add Adapter dialog, it would swallow every event and never be drawn.*)
ScanDialogOverPanels == ShouldShowMotorScanDialog => page = 0

(* A global scan has the program to itself. *)
GlobalScanIsModal == NothingSelectedInGlobalScan /\ ScanDialogOverPanels

(* The scan dialog goes away and the events reach the panels again, unless *)
(* the user leaves.                                                        *)
ScanDialogCloses == dialogVisible ~> ~dialogVisible \/ ui \in {"teardown", "returned"}

(* A bus whose motor took a new CAN ID is scanned again, unless another    *)
(* request replaces this one, the Add Adapter dialog opens or the user     *)
(* quits.                                                                  *)
RescanIsServed ==
  \A b \in Buses :
    (todo.bus = b) ~> \/ result[b].status = "Scanning"
                      \/ todo.bus \notin {b, NoBus}
                      \/ page = 1
                      \/ ui \in {"teardown", "returned"}

(* Scans and the requests for them come to an end. *)
ScansAreServed == ScanDialogCloses /\ RescanIsServed

(* While a bus is being scanned again, none of its earlier motors is       *)
(* selected: ClearMotorsForRescan has deleted them.                        *)
NoOldMotorSelectedInRescan ==
  \A b \in Buses : result[b].status = "Scanning" => selected.bus # b

=============================================================================
