------------------------ MODULE ControlRuntime_proofs ------------------------
(***************************************************************************)
(* Machine-checked proofs about ControlRuntime, for every set of motors    *)
(* and modes and every number of selections.                               *)
(*                                                                         *)
(* The argument rests on the order in which SelectedMotor objects are      *)
(* made: what the worker holds (wsel, last) is never newer than what is    *)
(* selected, so an object that stopped being selected never comes back.    *)
(***************************************************************************)
EXTENDS ControlRuntime, TLAPS

(* An object with a smaller id is older; equal ids are the same object. *)
NotNewer(s, t) == s.id <= t.id /\ (s.id = t.id => s = t)

(* Ids are handed out in order, and what the worker holds is not newer     *)
(* than the selection.                                                     *)
InOrder ==
  /\ selected.id <= made
  /\ wsel.id <= made
  /\ last.id <= made
  /\ lateId <= made
  /\ (selected # NoSelection /\ wsel # NoSelection) => NotNewer(wsel, selected)
  /\ (selected # NoSelection /\ last # NoSelection) => NotNewer(last, selected)
  /\ (wsel # NoSelection /\ last # NoSelection) => NotNewer(last, wsel) \/ pc \in {"select", "done"}
  /\ \A s \in {selected, wsel, last} : s.id = 0 => s = NoSelection

(* A late frame went to an object older than the selection, and older than *)
(* the one the iteration in flight is for.                                 *)
LateIsOld ==
  /\ selected # NoSelection => lateId < selected.id
  /\ (pc \in {"command", "adopt", "send"} /\ wsel # NoSelection) => lateId < wsel.id

(* The control state of the worker and of the joining UI thread. *)
Control ==
  /\ pc = "adopt" => wsel # last
  /\ pc = "send" => wsel # NoSelection
  /\ pc = "command" => ~fresh
  /\ ui = "returned" => pc = "done"
  /\ ui # "loop" <=> ~running

(* Once the worker has adopted the selection, the command is one applied   *)
(* for it.                                                                 *)
AdoptedCommandIsOwn ==
  (last = selected /\ selected # NoSelection /\ command.mode # None)
    => command.by = selected.id

IInv ==
  /\ TypeOK
  /\ InOrder
  /\ LateIsOld
  /\ Control
  /\ AdoptedCommandIsOwn
  /\ SettledFramesAreOwn
  /\ RangesAreOfSelected

-----------------------------------------------------------------------------
(* What an action leaves alone keeps the parts of the invariant that speak *)
(* of nothing else, so each part is a lemma over the actions.              *)

(* The initial state satisfies the invariant. *)
LEMMA InitIInv == Init => IInv
<1> SUFFICES ASSUME Init
             PROVE  IInv
  OBVIOUS
<1> USE ConstantsAssumption DEF Init, NoSelection, Idle
<1>1. TypeOK
  <2>1. needsRefresh \in BOOLEAN /\ running \in BOOLEAN /\ fresh \in BOOLEAN
    OBVIOUS
  <2>2. selected \in Selection /\ wsel \in Selection /\ last \in Selection
    BY DEF Selection
  <2>3. command \in Command /\ wcmd \in Command
    BY DEF Command, Mode
  <2>4. sent \in Frame
    BY DEF Frame, Mode, Selection
  <2>5. made \in 0..MaxSelections /\ lateId \in Nat
    OBVIOUS
  <2>6. /\ ui \in {"loop", "join", "returned"}
        /\ pc \in {"select", "command", "adopt", "send", "done"}
        /\ ranges \in Motors \cup {NoMotor}
    OBVIOUS
  <2> QED
    BY <2>1, <2>2, <2>3, <2>4, <2>5, <2>6 DEF TypeOK
<1>2. InOrder /\ LateIsOld
  BY DEF InOrder, LateIsOld, NotNewer
<1>3. Control /\ AdoptedCommandIsOwn /\ SettledFramesAreOwn /\ RangesAreOfSelected
  BY DEF Control, AdoptedCommandIsOwn, SettledFramesAreOwn, RangesAreOfSelected
<1> QED
  BY <1>1, <1>2, <1>3 DEF IInv

(* Every step keeps the types. *)
LEMMA TypeStep == TypeOK /\ [Next]_vars => TypeOK'
<1> SUFFICES ASSUME TypeOK, [Next]_vars
             PROVE  TypeOK'
  OBVIOUS
<1> USE ConstantsAssumption
    DEF TypeOK, NoSelection, Selection, Command, Mode, Frame, vars, appVars, workerVars
<1>1. ASSUME NEW m \in Motors, SelectMotor(m)
      PROVE  TypeOK'
  <2> USE <1>1 DEF SelectMotor, SetSelectedMotor
  <2>1. made' \in 0..MaxSelections
    OBVIOUS
  <2>2. selected' \in Selection
    OBVIOUS
  <2> QED
    BY <2>1, <2>2
<1>2. CASE ClearSelectedMotor
  BY <1>2 DEF ClearSelectedMotor, SetSelectedMotor
<1>3. ASSUME NEW mode \in Mode, Apply(mode)
      PROVE  TypeOK'
  BY <1>3 DEF Apply
<1>4. CASE RefreshRangesIfNeeded
  BY <1>4 DEF RefreshRangesIfNeeded
<1>5. CASE EnterControlTab
  BY <1>5 DEF EnterControlTab
<1>6. CASE Stop
  <2>1. running' \in BOOLEAN /\ ui' \in {"loop", "join", "returned"}
    BY <1>6 DEF Stop
  <2> QED
    BY <1>6, <2>1 DEF Stop
<1>7. CASE Joined
  BY <1>7 DEF Joined
<1>8. CASE WorkerReadSelection
  BY <1>8 DEF WorkerReadSelection
<1>9. CASE WorkerReadCommand
  BY <1>9 DEF WorkerReadCommand, AfterAdoption
<1>10. CASE WorkerAdopt
  BY <1>10 DEF WorkerAdopt, AfterAdoption
<1>11. CASE WorkerSend
  BY <1>11 DEF WorkerSend
<1>12. CASE WorkerExit
  BY <1>12 DEF WorkerExit
<1>13. CASE UNCHANGED vars
  BY <1>13
<1> QED
  BY <1>1, <1>2, <1>3, <1>4, <1>5, <1>6, <1>7, <1>8, <1>9, <1>10, <1>11, <1>12, <1>13
  DEF Next, Worker, UserInterface, Finished

(* Every step keeps the rest of the invariant. *)
LEMMA InvStep == IInv /\ [Next]_vars => IInv'
<1> SUFFICES ASSUME IInv, [Next]_vars
             PROVE  IInv'
  OBVIOUS
<1>0. TypeOK /\ TypeOK'
  BY TypeStep DEF IInv
<1> USE ConstantsAssumption, <1>0
    DEF IInv, TypeOK, InOrder, LateIsOld, Control, AdoptedCommandIsOwn,
        SettledFramesAreOwn, RangesAreOfSelected, NotNewer, NoSelection,
        Selection, Command, Mode, vars, appVars, workerVars
<1>1. ASSUME NEW m \in Motors, SelectMotor(m)
      PROVE  IInv'
  <2> USE <1>1 DEF SelectMotor, SetSelectedMotor
  <2>1. /\ selected'.id > made
        /\ selected'.id = made'
        /\ selected'.id > wsel.id
        /\ selected'.id > last.id
        /\ selected'.id > lateId
    OBVIOUS
  <2>2. InOrder'
    BY <2>1
  <2>3. LateIsOld' /\ Control' /\ SettledFramesAreOwn' /\ RangesAreOfSelected'
    BY <2>1
  <2>4. AdoptedCommandIsOwn'
    BY <2>1
  <2> QED
    BY <2>2, <2>3, <2>4
<1>2. CASE ClearSelectedMotor
  BY <1>2 DEF ClearSelectedMotor, SetSelectedMotor
<1>3. ASSUME NEW mode \in Mode, Apply(mode)
      PROVE  IInv'
  BY <1>3 DEF Apply
<1>4. CASE RefreshRangesIfNeeded
  BY <1>4 DEF RefreshRangesIfNeeded
<1>5. CASE EnterControlTab
  BY <1>5 DEF EnterControlTab
<1>6. CASE Stop
  BY <1>6 DEF Stop
<1>7. CASE Joined
  BY <1>7 DEF Joined
<1>8. CASE WorkerReadSelection
  BY <1>8 DEF WorkerReadSelection
<1>9. CASE WorkerReadCommand
  BY <1>9 DEF WorkerReadCommand, AfterAdoption
<1>10. CASE WorkerAdopt
  BY <1>10 DEF WorkerAdopt, AfterAdoption
<1>11. CASE WorkerSend
  BY <1>11 DEF WorkerSend
<1>12. CASE WorkerExit
  BY <1>12 DEF WorkerExit
<1>13. CASE UNCHANGED vars
  BY <1>13
<1> QED
  BY <1>1, <1>2, <1>3, <1>4, <1>5, <1>6, <1>7, <1>8, <1>9, <1>10, <1>11, <1>12, <1>13
  DEF Next, Worker, UserInterface, Finished

(* The inductive invariant holds in every reachable state. *)
THEOREM Invariance == Spec => []IInv
BY InitIInv, InvStep, PTL DEF Spec, Safety

(* Every variable keeps the type of the C++ object it stands for. *)
THEOREM TypeCorrect == Spec => []TypeOK
<1>1. IInv => TypeOK
  BY DEF IInv
<1> QED
  BY <1>1, Invariance, PTL

(* In a settled iteration the worker sends only commands applied for the   *)
(* motor it drives, whatever the UI thread does between its two reads.     *)
THEOREM SettledFrames == Spec => []SettledFramesAreOwn
<1>1. IInv => SettledFramesAreOwn
  BY DEF IInv
<1> QED
  BY <1>1, Invariance, PTL

(* With the refresh flag down the sliders use the selected motor's ranges. *)
THEOREM RangesFollowSelection == Spec => []RangesAreOfSelected
<1>1. IInv => RangesAreOfSelected
  BY DEF IInv
<1> QED
  BY <1>1, Invariance, PTL

(* The worker never wipes a command applied after it adopted the motor.    *)
THEOREM ResetSparesAdopted == Spec => AdoptedCommandIsKept
<1>1. IInv /\ [Next]_vars
        => [(pc' # pc /\ last = selected /\ selected # NoSelection) => UNCHANGED command]_vars
  <2> SUFFICES ASSUME IInv, Next, pc' # pc, last = selected, selected # NoSelection
               PROVE  UNCHANGED command
    BY DEF vars
  <2>1. CASE WorkerAdopt
    <3>1. wsel # last /\ pc = "adopt"
      BY <2>1 DEF WorkerAdopt, IInv, Control
    <3>2. CASE wsel = NoSelection
      BY <2>1, <3>2 DEF WorkerAdopt
    <3>3. CASE wsel # NoSelection
      <4>1. NotNewer(wsel, selected) /\ NotNewer(selected, wsel)
        BY <3>1, <3>3 DEF IInv, InOrder
      <4> QED
        BY <4>1, <3>1 DEF NotNewer, IInv, TypeOK, Selection
    <3> QED
      BY <3>2, <3>3
  <2>2. CASE WorkerReadSelection \/ WorkerReadCommand \/ WorkerSend \/ WorkerExit
    BY <2>2 DEF WorkerReadSelection, WorkerReadCommand, WorkerSend, WorkerExit, appVars
  <2>3. CASE UserInterface
    BY <2>3 DEF UserInterface, SelectMotor, ClearSelectedMotor, Apply, RefreshRangesIfNeeded,
                EnterControlTab, Stop, Joined, appVars, workerVars
  <2>4. CASE Finished
    BY <2>4 DEF Finished, vars, appVars
  <2> QED
    BY <2>1, <2>2, <2>3, <2>4 DEF Next, Worker
<1> QED
  BY <1>1, Invariance, PTL DEF Spec, Safety, AdoptedCommandIsKept

(* A SelectedMotor that was deselected is driven at most once more, and    *)
(* then never again: the frame in flight is the first one that was late.   *)
THEOREM LateFrameOnce == Spec => LateFrameAtMostOnce
<1>1. IInv /\ [Next]_vars => [FrameLeaves /\ selected # wsel => lateId < wsel.id]_vars
  <2> SUFFICES ASSUME IInv, pc = "send"
               PROVE  lateId < wsel.id
    BY DEF FrameLeaves
  <2>1. wsel # NoSelection
    BY DEF IInv, Control
  <2> QED
    BY <2>1 DEF IInv, LateIsOld
<1> QED
  BY <1>1, Invariance, PTL DEF Spec, Safety, LateFrameAtMostOnce

(* After Stop returned the worker has ended and no frame leaves.           *)
THEOREM StopIsQuiet == Spec => QuietAfterStop
<1>1. IInv /\ [Next]_vars => [ui = "returned" => ~FrameLeaves]_vars
  BY DEF IInv, Control, FrameLeaves
<1> QED
  BY <1>1, Invariance, PTL DEF Spec, Safety, QuietAfterStop

=============================================================================
