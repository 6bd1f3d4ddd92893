--------------------------- MODULE ControlRuntime ---------------------------
(***************************************************************************)
(* The control half of the terminal interface: the selection and the       *)
(* control command shared through AppState (components/app_state.h), the   *)
(* handlers the UI thread runs on them, and the worker thread of           *)
(* ControlRuntime, which every 100 ms reads both and drives the selected   *)
(* motor (components/control_panel.cc).                                    *)
(*                                                                         *)
(* The selection and the command sit behind two different mutexes, so the  *)
(* worker's two reads are two steps, and every UI handler may run between  *)
(* any two steps of the worker.                                            *)
(***************************************************************************)
EXTENDS Naturals

CONSTANTS
  Motors,         \* the motors whose buttons the left panel shows
  NoMotor,        \* the null motor pointer
  Modes,          \* the control modes an Apply button can request
  None,           \* ControlMode::None, what the Disable button applies
  MaxSelections   \* bound: SelectedMotor objects made in a behaviour

ASSUME ConstantsAssumption ==
  /\ NoMotor \notin Motors
  /\ None \notin Modes
  /\ MaxSelections \in Nat

VARIABLES
  selected,      \* AppState::selected_motor_
  made,          \* history: SelectedMotor objects made so far
  command,       \* AppState::control_command_, and the selection it was applied under
  needsRefresh,  \* ControlPanelState::needs_range_refresh
  ranges,        \* the motor whose ranges the sliders are scaled by
  running,       \* ControlRuntime::running_
  ui,            \* where the UI thread is: in its loop, joining the worker, returned
  pc,            \* where the worker is in RunLoop
  wsel,          \* RunLoop's selected_motor
  wcmd,          \* RunLoop's command
  last,          \* RunLoop's last_selected_motor
  fresh,         \* history: this iteration adopted a new selection
  sent,          \* history: the last control frame sent
  lateId         \* history: the last selection driven after it was deselected

appVars    == <<selected, made, command, needsRefresh, ranges>>
workerVars == <<pc, wsel, wcmd, last, fresh, sent, lateId>>
vars       == <<appVars, running, ui, workerVars>>

-----------------------------------------------------------------------------
(* A SelectedMotor object is compared by address and kept alive by the     *)
(* shared pointers to it, so each click makes an object with a new id.     *)

NoSelection == [id |-> 0, motor |-> NoMotor]
Selection   == [id : Nat, motor : Motors \cup {NoMotor}]
Mode        == Modes \cup {None}
Command     == [mode : Mode, by : Nat]
Frame       == [to : Selection, mode : Mode, by : Nat]

Idle == [mode |-> None, by |-> 0]

Init ==
  /\ selected = NoSelection
  /\ made = 0
  /\ command = Idle
  /\ needsRefresh = TRUE
  /\ ranges = NoMotor
  /\ running = TRUE
  /\ ui = "loop"
  /\ pc = "select"
  /\ wsel = NoSelection
  /\ wcmd = Idle
  /\ last = NoSelection
  /\ fresh = FALSE
  /\ sent = [to |-> NoSelection, mode |-> None, by |-> 0]
  /\ lateId = 0

-----------------------------------------------------------------------------
(* The UI thread.                                                          *)

\* Mutation: the range refresh is not asked for.
SetSelectedMotorQuietly(s) ==
  /\ selected' = s
  /\ UNCHANGED needsRefresh

SetSelectedMotor(s) ==
  /\ selected' = s
  /\ needsRefresh' = TRUE

\* A click on a motor's button. The pointer is the one the button captured.
SelectMotor(m) ==
  /\ ui = "loop"
  /\ made < MaxSelections
  /\ made' = made + 1
  /\ SetSelectedMotor([id |-> made + 1, motor |-> m])
  /\ UNCHANGED <<command, ranges, running, ui, workerVars>>

\* Every rescan starts by clearing the selection; the command keeps its mode.
ClearSelectedMotor ==
  /\ ui = "loop"
  /\ SetSelectedMotor(NoSelection)
  /\ UNCHANGED <<made, command, ranges, running, ui, workerVars>>

\* An Apply button: mode and parameters are written under one lock. The
\* buttons take events whether or not a motor is selected.
Apply(mode) ==
  /\ ui = "loop"
  /\ command' = [mode |-> mode, by |-> selected.id]
  /\ UNCHANGED <<selected, made, needsRefresh, ranges, running, ui, workerVars>>

\* Rendering the control panel reads the selected motor's ranges; a failed
\* read leaves the flag up and changes nothing.
RefreshRangesIfNeeded ==
  /\ ui = "loop"
  /\ needsRefresh
  /\ selected # NoSelection
  /\ ranges' = selected.motor
  /\ needsRefresh' = FALSE
  /\ UNCHANGED <<selected, made, command, running, ui, workerVars>>

\* Coming back to the Control tab asks for the ranges again.
EnterControlTab ==
  /\ ui = "loop"
  /\ needsRefresh' = TRUE
  /\ UNCHANGED <<selected, made, command, ranges, running, ui, workerVars>>

\* Mutation: the flag is lowered and the worker left behind.
StopWithoutJoin ==
  /\ ui = "loop"
  /\ running' = FALSE
  /\ ui' = "returned"
  /\ UNCHANGED <<appVars, workerVars>>

\* ControlRuntime::Stop after the screen loop ends: lower the flag, then join.
Stop ==
  /\ ui = "loop"
  /\ running' = FALSE
  /\ ui' = "join"
  /\ UNCHANGED <<appVars, workerVars>>

Joined ==
  /\ ui = "join"
  /\ pc = "done"
  /\ ui' = "returned"
  /\ UNCHANGED <<appVars, running, workerVars>>

-----------------------------------------------------------------------------
(* The worker: one iteration of RunLoop.                                   *)

\* Mutation: the selection is not read again while a mode is active.
WorkerReadSelectionOnce ==
  /\ pc = "select"
  /\ running
  /\ wsel' = IF wsel = NoSelection \/ command.mode = None THEN selected ELSE wsel
  /\ fresh' = FALSE
  /\ pc' = "command"
  /\ UNCHANGED <<appVars, running, ui, wcmd, last, sent, lateId>>

WorkerReadSelection ==
  /\ pc = "select"
  /\ running
  /\ wsel' = selected
  /\ fresh' = FALSE
  /\ pc' = "command"
  /\ UNCHANGED <<appVars, running, ui, wcmd, last, sent, lateId>>

\* Mutation: only a new selection is driven.
SendOnlyOnChange == IF wsel # NoSelection /\ wsel # last THEN "send" ELSE "select"

\* Where an iteration goes once the selection is settled.
AfterAdoption == IF wsel # NoSelection THEN "send" ELSE "select"

\* Mutation: the comparison with last_selected_motor is dropped.
WorkerReadCommandAndReset ==
  /\ pc = "command"
  /\ wcmd' = command
  /\ pc' = "adopt"
  /\ UNCHANGED <<appVars, running, ui, wsel, last, fresh, sent, lateId>>

WorkerReadCommand ==
  /\ pc = "command"
  /\ wcmd' = command
  /\ pc' = IF wsel # last THEN "adopt" ELSE AfterAdoption
  /\ UNCHANGED <<appVars, running, ui, wsel, last, fresh, sent, lateId>>

\* Mutation: the mode is not reset.
WorkerAdoptWithoutReset ==
  /\ pc = "adopt"
  /\ last' = wsel
  /\ fresh' = TRUE
  /\ pc' = AfterAdoption
  /\ UNCHANGED <<appVars, running, ui, wsel, wcmd, sent, lateId>>

\* A changed selection: reset the shared mode unless the selection was cleared.
WorkerAdopt ==
  /\ pc = "adopt"
  /\ command' = IF wsel # NoSelection THEN [command EXCEPT !.mode = None] ELSE command
  /\ last' = wsel
  /\ fresh' = TRUE
  /\ pc' = AfterAdoption
  /\ UNCHANGED <<selected, made, needsRefresh, ranges, running, ui, wsel, wcmd, sent, lateId>>

\* The switch on the mode of the command read before the reset.
WorkerSend ==
  /\ pc = "send"
  /\ IF wcmd.mode = None
       THEN UNCHANGED <<sent, lateId>>
       ELSE /\ sent' = [to |-> wsel, mode |-> wcmd.mode, by |-> wcmd.by]
            /\ lateId' = IF selected # wsel THEN wsel.id ELSE lateId
  /\ pc' = "select"
  /\ UNCHANGED <<appVars, running, ui, wsel, wcmd, last, fresh>>

WorkerExit ==
  /\ pc = "select"
  /\ ~running
  /\ pc' = "done"
  /\ UNCHANGED <<appVars, running, ui, wsel, wcmd, last, fresh, sent, lateId>>

-----------------------------------------------------------------------------
Worker ==
  \/ WorkerReadSelection
  \/ WorkerReadCommand
  \/ WorkerAdopt
  \/ WorkerSend
  \/ WorkerExit

UserInterface ==
  \/ \E m \in Motors : SelectMotor(m)
  \/ ClearSelectedMotor
  \/ \E mode \in Mode : Apply(mode)
  \/ RefreshRangesIfNeeded
  \/ EnterControlTab
  \/ Stop
  \/ Joined

\* Both threads have returned.
Finished ==
  /\ ui = "returned"
  /\ pc = "done"
  /\ UNCHANGED vars

Next == Worker \/ UserInterface \/ Finished

Safety == Init /\ [][Next]_vars

\* The worker is a running thread, and join returns once it has ended.
Spec == Safety /\ WF_vars(Worker) /\ WF_vars(Joined)

-----------------------------------------------------------------------------
(* Every variable holds a value of its C++ type. *)
TypeOK ==
  /\ selected \in Selection
  /\ made \in 0..MaxSelections
  /\ command \in Command
  /\ needsRefresh \in BOOLEAN
  /\ ranges \in Motors \cup {NoMotor}
  /\ running \in BOOLEAN
  /\ ui \in {"loop", "join", "returned"}
  /\ pc \in {"select", "command", "adopt", "send", "done"}
  /\ wsel \in Selection
  /\ wcmd \in Command
  /\ last \in Selection
  /\ fresh \in BOOLEAN
  /\ sent \in Frame
  /\ lateId \in Nat

(* A frame may carry a command applied under another selection only in the *)
(* first iteration for its motor, or when the selection has already moved  *)
(* on. In every settled iteration the worker sends what was applied for    *)
(* the motor it drives, although it reads selection and command apart.     *)
SettledFramesAreOwn ==
  (pc = "send" /\ ~fresh /\ selected = wsel /\ wcmd.mode # None) => wcmd.by = wsel.id

(* With the refresh flag down, the sliders are scaled by the ranges of the *)
(* selected motor and not by those of an earlier one.                      *)
RangesAreOfSelected ==
  (~needsRefresh /\ selected # NoSelection) => ranges = selected.motor

(* The worker's reset never wipes a command applied after it had adopted   *)
(* the motor that is selected: only an Apply pressed before that is lost.  *)
AdoptedCommandIsKept ==
  [][(pc' # pc /\ last = selected /\ selected # NoSelection) => UNCHANGED command]_vars

\* The step in which a control frame leaves, equal to the frame before it or not.
FrameLeaves == pc = "send" /\ pc' # pc /\ wcmd.mode # None

(* A motor that is no longer selected gets at most one more frame, from    *)
(* the iteration in flight: this bounds the use of a SelectedMotor (and of *)
(* the raw motor pointer in it) after a rescan cleared the selection.      *)
LateFrameAtMostOnce ==
  [][FrameLeaves /\ selected # wsel => lateId < wsel.id]_vars

(* ControlRuntime::Stop joins: after it returned no frame leaves the CLI.  *)
QuietAfterStop ==
  [][ui = "returned" => ~FrameLeaves]_vars

(* A command applied for the adopted motor is sent to it, unless the user  *)
(* changes command or selection or leaves first.                           *)
Pending(s, mode) ==
  /\ running
  /\ selected = s
  /\ last = s
  /\ command = [mode |-> mode, by |-> s.id]

AppliedCommandIsSent ==
  \A s \in [id : 1..MaxSelections, motor : Motors], mode \in Modes :
    Pending(s, mode) ~> (sent = [to |-> s, mode |-> mode, by |-> s.id] \/ ~Pending(s, mode))

=============================================================================
