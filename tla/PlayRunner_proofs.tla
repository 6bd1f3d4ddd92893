-------------------------- MODULE PlayRunner_proofs --------------------------
(***************************************************************************)
(* Machine-checked proofs about PlayRunner, for every set of motors, every *)
(* length of the phases, every overrun and every number of inputs.         *)
(*                                                                         *)
(* The argument has two independent parts. The logs are changed only by    *)
(* DisableLogs and EnableLogs, and by Run only after the status thread has *)
(* ended. The stop counter is loaded three times in an iteration, and each *)
(* load leaves a fact behind that no other thread can take back before the *)
(* frame: `late` is only ever set by the loop itself.                      *)
(***************************************************************************)
EXTENDS PlayRunner, TLAPS

(* The counter grows by at most one for each input and is set to 1 or 2.   *)
StopIsBounded == stop <= inputs + 2

(* The status thread exists only between Start and Join. *)
ScreenInv ==
  /\ pc \in {"arm", "start"} => screen = "none"
  /\ pc \in {"report", "logs", "destroy", "done"} => screen \in {"none", "ended"}

(* After the logs were closed, exit code 0 means that the list is empty. *)
LogInv ==
  /\ OpenLogsAreListed
  /\ (pc \in {"destroy", "done"} /\ exit = 0) => logs.listed = {}

(* What the loads of the counter in this iteration have established. *)
LoopInv ==
  /\ late => stop >= 2
  /\ pc = "send" => ~late
  /\ pc \in {"read", "recheck"} => phase # "Returning"

IInv ==
  /\ TypeOK
  /\ StopIsBounded
  /\ ScreenInv
  /\ LogInv
  /\ LoopInv

-----------------------------------------------------------------------------
(* The operators. *)

(* Closing the logs keeps the list right, whichever of them fail. *)
LEMMA DisableLogsRight ==
  ASSUME logs \in [enabled : BOOLEAN, listed : SUBSET Motors, open : SUBSET Motors],
         OpenLogsAreListed, DisableLogs
  PROVE  /\ logs' \in [enabled : BOOLEAN, listed : SUBSET Motors, open : SUBSET Motors]
         /\ OpenLogsAreListed'
         /\ logs.listed = {} => logs'.listed = {}
<1>1. PICK stuck \in SUBSET logs.listed :
        logs' = [enabled |-> stuck # {}, listed |-> stuck, open |-> logs.open \cap stuck]
  BY DEF DisableLogs
<1>2. stuck \subseteq Motors
  BY <1>1
<1> QED
  BY <1>1, <1>2 DEF OpenLogsAreListed

(* So does opening them, also when one in the middle fails. *)
LEMMA EnableLogsRight ==
  ASSUME logs \in [enabled : BOOLEAN, listed : SUBSET Motors, open : SUBSET Motors],
         OpenLogsAreListed, EnableLogs
  PROVE  /\ logs' \in [enabled : BOOLEAN, listed : SUBSET Motors, open : SUBSET Motors]
         /\ OpenLogsAreListed'
<1>1. CASE logs.listed # {} /\ logs' = [logs EXCEPT !.enabled = TRUE]
  BY <1>1 DEF OpenLogsAreListed
<1>2. CASE logs.listed = {} /\ logs' \in {logs, AllLogs}
  <2>1. CASE logs' = logs
    BY <2>1 DEF OpenLogsAreListed
  <2>2. CASE logs' = AllLogs
    BY <2>2, ConstantsAssumption DEF OpenLogsAreListed, AllLogs
  <2> QED
    BY <1>2, <2>1, <2>2
<1>3. CASE /\ logs.listed = {}
           /\ \E opened \in SUBSET Motors : \E failed \in Motors \ opened :
                \E stuck \in SUBSET (opened \cup {failed}) :
                  logs' = [enabled |-> stuck # {}, listed |-> stuck, open |-> opened \cap stuck]
  <2>1. PICK opened \in SUBSET Motors, failed \in Motors, stuck \in SUBSET Motors :
          logs' = [enabled |-> stuck # {}, listed |-> stuck, open |-> opened \cap stuck]
    BY <1>3
  <2> QED
    BY <2>1 DEF OpenLogsAreListed
<1> QED
  BY <1>1, <1>2, <1>3 DEF EnableLogs
-----------------------------------------------------------------------------
(* Every step keeps the types and the bound of the counter. *)
LEMMA TypeStep ==
  TypeOK /\ StopIsBounded /\ OpenLogsAreListed /\ [Next]_vars => TypeOK' /\ StopIsBounded'
<1> SUFFICES ASSUME TypeOK, StopIsBounded, OpenLogsAreListed, [Next]_vars
             PROVE  TypeOK' /\ StopIsBounded'
  OBVIOUS
<1> USE ConstantsAssumption DEF TypeOK, StopIsBounded, MaxStop, vars, loopVars
<1>1. CASE Arm
  BY <1>1 DEF Arm, SetStop
<1>2. CASE Start
  BY <1>2 DEF Start
<1>3. CASE LoopTest
  BY <1>3 DEF LoopTest
<1>4. CASE LoopUnpause
  BY <1>4 DEF LoopUnpause
<1>5. CASE LoopClock
  BY <1>5 DEF LoopClock, MinOf, MaxPhase
<1>6. CASE LoopCheck
  BY <1>6 DEF LoopCheck, Continue
<1>7. CASE LoopRead
  BY <1>7 DEF LoopRead, SetStop
<1>8. CASE LoopRecheck
  BY <1>8 DEF LoopRecheck, MaxPhase
<1>9. CASE LoopGate
  BY <1>9 DEF LoopGate, Continue
<1>10. CASE LoopSend
  BY <1>10 DEF LoopSend, NextPhase, MaxPhase
<1>31. CASE SendThrows
  BY <1>31 DEF SendThrows, Continue
<1>11. CASE Leave
  BY <1>11 DEF Leave, SetStop
<1>12. CASE Join
  BY <1>12 DEF Join, Continue
<1>13. CASE Report
  BY <1>13 DEF Report
<1>14. CASE CloseLogs
  BY <1>14, DisableLogsRight DEF CloseLogs
<1>15. CASE Destroy
  BY <1>15, DisableLogsRight DEF Destroy
<1>16. CASE ScreenOpens
  BY <1>16 DEF ScreenOpens
<1>17. CASE StorePaused
  BY <1>17 DEF StorePaused
<1>18. CASE ToggleLogs
  BY <1>18, DisableLogsRight, EnableLogsRight DEF ToggleLogs
<1>19. CASE RequestStop
  BY <1>19 DEF RequestStop, SetStop
<1>20. CASE ScreenSeesStop
  BY <1>20 DEF ScreenSeesStop
<1>21. CASE ScreenCloses
  BY <1>21 DEF ScreenCloses, SetStop
<1>22. CASE StoreStop
  BY <1>22 DEF StoreStop, SetStop
<1>23. CASE StatusLoopEnds
  BY <1>23 DEF StatusLoopEnds
<1>24. CASE PressSpace
  BY <1>24 DEF PressSpace, Input
<1>25. CASE PressL
  BY <1>25 DEF PressL, Input
<1>26. CASE SignalScreen
  BY <1>26 DEF SignalScreen, Input
<1>27. CASE Signal
  <2>1. stop' \in 0..MaxStop /\ inputs' \in 0..MaxInputs /\ stop' <= inputs' + 2
    BY <1>27 DEF Signal, SetStop, Input
  <2>2. {endless, tui, paused, clockPaused, tuiFailed, late}' \subseteq BOOLEAN
    <3>1. late' \in BOOLEAN
      BY <1>27 DEF Signal, SetStop
    <3> QED
      BY <1>27, <3>1 DEF Signal
  <2> QED
    BY <1>27, <2>1, <2>2 DEF Signal
<1>28. CASE ScreenFails
  BY <1>28 DEF ScreenFails
<1>29. ASSUME NEW key \in {"q", "ctrl-c"}, PressQuit(key)
      PROVE  TypeOK' /\ StopIsBounded'
  <2>1. key = "q" \/ key = "ctrl-c"
    BY <1>29
  <2>2. screen' \in {"q", "ctrl-c"}
    BY <1>29, <2>1 DEF PressQuit
  <2>3. {endless, tui, paused, clockPaused, tuiFailed, late}' \subseteq BOOLEAN
    BY <1>29 DEF PressQuit
  <2>4. inputs' \in 0..MaxInputs /\ stop' <= inputs' + 2
    BY <1>29 DEF PressQuit, Input
  <2>5. UNCHANGED <<stop, phase, elapsed, pc, logs, exit>>
    BY <1>29 DEF PressQuit
  <2> QED
    BY <2>2, <2>3, <2>4, <2>5
<1>30. CASE UNCHANGED vars
  <2>1. {endless, tui, paused, clockPaused, tuiFailed, late}' = {endless, tui, paused, clockPaused, tuiFailed, late}
    BY <1>30
  <2>2. UNCHANGED <<stop, phase, elapsed, pc, screen, logs, exit, inputs>>
    BY <1>30
  <2> QED
    BY <2>1, <2>2, Zenon
<1> QED
  BY <1>1, <1>2, <1>3, <1>4, <1>5, <1>6, <1>7, <1>8, <1>9, <1>10, <1>11, <1>12, <1>13, <1>14, <1>15, <1>16, <1>17, <1>18, <1>19, <1>20, <1>21, <1>22, <1>23, <1>24, <1>25, <1>26, <1>27, <1>28, <1>29, <1>30, <1>31
  DEF Next, Run, StatusThread, User, Done

(* Every step keeps the part of the invariant about the status thread. *)
LEMMA ScreenStep == TypeOK /\ ScreenInv /\ [Next]_vars => ScreenInv'
<1> SUFFICES ASSUME TypeOK, ScreenInv, [Next]_vars
             PROVE  ScreenInv'
  OBVIOUS
<1> USE DEF TypeOK, ScreenInv, vars, loopVars
<1>1. CASE Arm
  BY <1>1 DEF Arm, SetStop
<1>2. CASE Start
  BY <1>2 DEF Start
<1>3. CASE LoopTest
  BY <1>3 DEF LoopTest
<1>4. CASE LoopUnpause
  BY <1>4 DEF LoopUnpause
<1>5. CASE LoopClock
  BY <1>5 DEF LoopClock, MinOf, MaxPhase
<1>6. CASE LoopCheck
  BY <1>6 DEF LoopCheck, Continue
<1>7. CASE LoopRead
  BY <1>7 DEF LoopRead, SetStop
<1>8. CASE LoopRecheck
  BY <1>8 DEF LoopRecheck, MaxPhase
<1>9. CASE LoopGate
  BY <1>9 DEF LoopGate, Continue
<1>10. CASE LoopSend
  BY <1>10 DEF LoopSend, NextPhase, MaxPhase
<1>31. CASE SendThrows
  BY <1>31 DEF SendThrows, Continue
<1>11. CASE Leave
  BY <1>11 DEF Leave, SetStop
<1>12. CASE Join
  BY <1>12 DEF Join, Continue
<1>13. CASE Report
  BY <1>13 DEF Report
<1>14. CASE CloseLogs
  BY <1>14 DEF CloseLogs
<1>15. CASE Destroy
  BY <1>15 DEF Destroy
<1>16. CASE ScreenOpens
  BY <1>16 DEF ScreenOpens
<1>17. CASE StorePaused
  BY <1>17 DEF StorePaused
<1>18. CASE ToggleLogs
  BY <1>18 DEF ToggleLogs
<1>19. CASE RequestStop
  BY <1>19 DEF RequestStop, SetStop
<1>20. CASE ScreenSeesStop
  BY <1>20 DEF ScreenSeesStop
<1>21. CASE ScreenCloses
  BY <1>21 DEF ScreenCloses, SetStop
<1>22. CASE StoreStop
  BY <1>22 DEF StoreStop, SetStop
<1>23. CASE StatusLoopEnds
  BY <1>23 DEF StatusLoopEnds
<1>24. CASE PressSpace
  BY <1>24 DEF PressSpace, Input
<1>25. CASE PressL
  BY <1>25 DEF PressL, Input
<1>26. CASE SignalScreen
  BY <1>26 DEF SignalScreen, Input
<1>27. CASE Signal
  BY <1>27 DEF Signal, SetStop, Input
<1>28. CASE ScreenFails
  BY <1>28 DEF ScreenFails
<1>29. ASSUME NEW key \in {"q", "ctrl-c"}, PressQuit(key)
      PROVE  ScreenInv'
  BY <1>29 DEF PressQuit, Input
<1>30. CASE UNCHANGED vars
  BY <1>30
<1> QED
  BY <1>1, <1>2, <1>3, <1>4, <1>5, <1>6, <1>7, <1>8, <1>9, <1>10, <1>11, <1>12, <1>13, <1>14, <1>15, <1>16, <1>17, <1>18, <1>19, <1>20, <1>21, <1>22, <1>23, <1>24, <1>25, <1>26, <1>27, <1>28, <1>29, <1>30, <1>31
  DEF Next, Run, StatusThread, User, Done

(* Every step keeps the part of the invariant about the logs. *)
LEMMA LogStep == TypeOK /\ ScreenInv /\ LogInv /\ [Next]_vars => LogInv'
<1> SUFFICES ASSUME TypeOK, ScreenInv, LogInv, [Next]_vars
             PROVE  LogInv'
  OBVIOUS
<1> USE DEF TypeOK, ScreenInv, LogInv, OpenLogsAreListed, vars, loopVars
<1>1. CASE Arm
  BY <1>1 DEF Arm, SetStop
<1>2. CASE Start
  BY <1>2 DEF Start
<1>3. CASE LoopTest
  BY <1>3 DEF LoopTest
<1>4. CASE LoopUnpause
  BY <1>4 DEF LoopUnpause
<1>5. CASE LoopClock
  BY <1>5 DEF LoopClock, MinOf, MaxPhase
<1>6. CASE LoopCheck
  BY <1>6 DEF LoopCheck, Continue
<1>7. CASE LoopRead
  BY <1>7 DEF LoopRead, SetStop
<1>8. CASE LoopRecheck
  BY <1>8 DEF LoopRecheck, MaxPhase
<1>9. CASE LoopGate
  BY <1>9 DEF LoopGate, Continue
<1>10. CASE LoopSend
  BY <1>10 DEF LoopSend, NextPhase, MaxPhase
<1>31. CASE SendThrows
  BY <1>31 DEF SendThrows, Continue
<1>11. CASE Leave
  BY <1>11 DEF Leave, SetStop
<1>12. CASE Join
  BY <1>12 DEF Join, Continue
<1>13. CASE Report
  BY <1>13 DEF Report
<1>14. CASE CloseLogs
  BY <1>14, DisableLogsRight DEF CloseLogs
<1>15. CASE Destroy
  BY <1>15, DisableLogsRight DEF Destroy
<1>16. CASE ScreenOpens
  BY <1>16 DEF ScreenOpens
<1>17. CASE StorePaused
  BY <1>17 DEF StorePaused
<1>18. CASE ToggleLogs
  BY <1>18, DisableLogsRight, EnableLogsRight DEF ToggleLogs
<1>19. CASE RequestStop
  BY <1>19 DEF RequestStop, SetStop
<1>20. CASE ScreenSeesStop
  BY <1>20 DEF ScreenSeesStop
<1>21. CASE ScreenCloses
  BY <1>21 DEF ScreenCloses, SetStop
<1>22. CASE StoreStop
  BY <1>22 DEF StoreStop, SetStop
<1>23. CASE StatusLoopEnds
  BY <1>23 DEF StatusLoopEnds
<1>24. CASE PressSpace
  BY <1>24 DEF PressSpace, Input
<1>25. CASE PressL
  BY <1>25 DEF PressL, Input
<1>26. CASE SignalScreen
  BY <1>26 DEF SignalScreen, Input
<1>27. CASE Signal
  BY <1>27 DEF Signal, SetStop, Input
<1>28. CASE ScreenFails
  BY <1>28 DEF ScreenFails
<1>29. ASSUME NEW key \in {"q", "ctrl-c"}, PressQuit(key)
      PROVE  LogInv'
  BY <1>29 DEF PressQuit, Input
<1>30. CASE UNCHANGED vars
  BY <1>30
<1> QED
  BY <1>1, <1>2, <1>3, <1>4, <1>5, <1>6, <1>7, <1>8, <1>9, <1>10, <1>11, <1>12, <1>13, <1>14, <1>15, <1>16, <1>17, <1>18, <1>19, <1>20, <1>21, <1>22, <1>23, <1>24, <1>25, <1>26, <1>27, <1>28, <1>29, <1>30, <1>31
  DEF Next, Run, StatusThread, User, Done

(* Every step keeps the part of the invariant about the loop. *)
LEMMA LoopStep == TypeOK /\ ScreenInv /\ LoopInv /\ [Next]_vars => LoopInv'
<1> SUFFICES ASSUME TypeOK, ScreenInv, LoopInv, [Next]_vars
             PROVE  LoopInv'
  OBVIOUS
<1> USE DEF TypeOK, ScreenInv, LoopInv, vars, loopVars
<1>1. CASE Arm
  BY <1>1 DEF Arm, SetStop
<1>2. CASE Start
  BY <1>2 DEF Start
<1>3. CASE LoopTest
  BY <1>3 DEF LoopTest
<1>4. CASE LoopUnpause
  BY <1>4 DEF LoopUnpause
<1>5. CASE LoopClock
  BY <1>5 DEF LoopClock, MinOf, MaxPhase
<1>6. CASE LoopCheck
  BY <1>6 DEF LoopCheck, Continue
<1>7. CASE LoopRead
  BY <1>7 DEF LoopRead, SetStop
<1>8. CASE LoopRecheck
  BY <1>8 DEF LoopRecheck, MaxPhase
<1>9. CASE LoopGate
  BY <1>9 DEF LoopGate, Continue
<1>10. CASE LoopSend
  BY <1>10 DEF LoopSend, NextPhase, MaxPhase
<1>31. CASE SendThrows
  BY <1>31 DEF SendThrows, Continue
<1>11. CASE Leave
  BY <1>11 DEF Leave, SetStop
<1>12. CASE Join
  BY <1>12 DEF Join, Continue
<1>13. CASE Report
  BY <1>13 DEF Report
<1>14. CASE CloseLogs
  BY <1>14 DEF CloseLogs
<1>15. CASE Destroy
  BY <1>15 DEF Destroy
<1>16. CASE ScreenOpens
  BY <1>16 DEF ScreenOpens
<1>17. CASE StorePaused
  BY <1>17 DEF StorePaused
<1>18. CASE ToggleLogs
  BY <1>18 DEF ToggleLogs
<1>19. CASE RequestStop
  BY <1>19 DEF RequestStop, SetStop
<1>20. CASE ScreenSeesStop
  BY <1>20 DEF ScreenSeesStop
<1>21. CASE ScreenCloses
  BY <1>21 DEF ScreenCloses, SetStop
<1>22. CASE StoreStop
  BY <1>22 DEF StoreStop, SetStop
<1>23. CASE StatusLoopEnds
  BY <1>23 DEF StatusLoopEnds
<1>24. CASE PressSpace
  BY <1>24 DEF PressSpace, Input
<1>25. CASE PressL
  BY <1>25 DEF PressL, Input
<1>26. CASE SignalScreen
  BY <1>26 DEF SignalScreen, Input
<1>27. CASE Signal
  BY <1>27 DEF Signal, SetStop, Input
<1>28. CASE ScreenFails
  BY <1>28 DEF ScreenFails
<1>29. ASSUME NEW key \in {"q", "ctrl-c"}, PressQuit(key)
      PROVE  LoopInv'
  BY <1>29 DEF PressQuit, Input
<1>30. CASE UNCHANGED vars
  BY <1>30
<1> QED
  BY <1>1, <1>2, <1>3, <1>4, <1>5, <1>6, <1>7, <1>8, <1>9, <1>10, <1>11, <1>12, <1>13, <1>14, <1>15, <1>16, <1>17, <1>18, <1>19, <1>20, <1>21, <1>22, <1>23, <1>24, <1>25, <1>26, <1>27, <1>28, <1>29, <1>30, <1>31
  DEF Next, Run, StatusThread, User, Done

-----------------------------------------------------------------------------
(* The initial state satisfies the invariant. *)
LEMMA InitIInv == Init => IInv
<1> SUFFICES ASSUME Init
             PROVE  IInv
  OBVIOUS
<1> USE ConstantsAssumption DEF Init
<1>1. logs \in [enabled : BOOLEAN, listed : SUBSET Motors, open : SUBSET Motors]
      /\ OpenLogsAreListed
  <2>1. CASE logs = NoLogs
    BY <2>1 DEF NoLogs, OpenLogsAreListed
  <2>2. CASE logs = AllLogs
    BY <2>2 DEF AllLogs, OpenLogsAreListed
  <2> QED
    BY <2>1, <2>2
<1>2. MaxPhase \in Nat /\ MaxStop \in Nat
  BY DEF MaxPhase, MaxStop
<1>3. TypeOK
  <2>1. {endless, tui, paused, clockPaused, tuiFailed, late} \subseteq BOOLEAN
    OBVIOUS
  <2>2. stop \in 0..MaxStop /\ elapsed \in 0..MaxPhase /\ inputs \in 0..MaxInputs /\ exit \in {0, 1}
    BY <1>2
  <2> QED
    BY <1>1, <2>1, <2>2 DEF TypeOK
<1>4. StopIsBounded /\ ScreenInv /\ LogInv /\ LoopInv
  BY <1>1 DEF StopIsBounded, ScreenInv, LogInv, LoopInv
<1> QED
  BY <1>3, <1>4 DEF IInv

(* Every step keeps the invariant. *)
LEMMA InvStep == IInv /\ [Next]_vars => IInv'
BY TypeStep, ScreenStep, LogStep, LoopStep DEF IInv, LogInv

(* The inductive invariant holds in every state. *)
THEOREM Invariance == Spec => []IInv
<1>1. Init => IInv
  BY InitIInv
<1>2. IInv /\ [Next]_vars => IInv'
  BY InvStep
<1> QED
  BY <1>1, <1>2, PTL DEF Spec, Safety

(* Every variable of the run keeps its type, the counter of stop requests  *)
(* its bound.                                                              *)
THEOREM TypeCorrect == Spec => []TypeOK
<1>1. IInv => TypeOK
  BY DEF IInv
<1> QED
  BY <1>1, Invariance, PTL

(* No log is lost between the key that toggles the logs, any failure to    *)
(* open or to close one, and the end of Run, for any set of motors.        *)
THEOREM NoLogIsLost == Spec => []LogsAreAccounted
<1>1. IInv => LogsAreAccounted
  BY DEF IInv, TypeOK, LogInv, ScreenInv, LogsAreAccounted, OpenLogsAreListed, CleanExitClosesLogs,
         LogsHaveOneOwner
<1> QED
  BY <1>1, Invariance, PTL

(* A step of the loop, of the screen thread or of a signal handler neither *)
(* starts the return again nor lets a frame out after an immediate stop.   *)
LEMMA ReturnStep == IInv /\ [Next]_vars => ReturnGoesOn
<1> SUFFICES ASSUME IInv, [Next]_vars, phase = "Returning", pc' # "leave"
             PROVE  phase' = "Returning" /\ elapsed' >= elapsed
  BY DEF ReturnGoesOn
<1>1. elapsed \in 0..MaxPhase /\ MaxPhase \in Nat
  BY ConstantsAssumption DEF IInv, TypeOK, MaxPhase
<1> USE <1>1 DEF vars, loopVars
<1>2. CASE LoopClock
  BY <1>2, ConstantsAssumption DEF LoopClock, MinOf
<1>3. CASE LoopRecheck
  BY <1>3 DEF LoopRecheck, IInv, LoopInv
<1>4. CASE LoopSend
  BY <1>4 DEF LoopSend
<1>5. CASE Arm \/ Start \/ LoopTest \/ LoopUnpause \/ LoopCheck \/ LoopRead \/ LoopGate \/ SendThrows
  BY <1>5 DEF Arm, Start, LoopTest, LoopUnpause, LoopCheck, LoopRead, LoopGate, SendThrows, Continue
<1>6. CASE Leave \/ Join \/ Report \/ CloseLogs \/ Destroy
  BY <1>6 DEF Leave, Join, Report, CloseLogs, Destroy, Continue
<1>7. CASE StatusThread \/ User \/ ScreenFails
  BY <1>7 DEF StatusThread, User, ScreenFails, ScreenOpens, StorePaused, ToggleLogs, RequestStop,
              ScreenSeesStop, ScreenCloses, StoreStop, StatusLoopEnds, PressSpace, PressL,
              SignalScreen, Signal, PressQuit
<1>8. CASE UNCHANGED vars
  BY <1>8
<1> QED
  BY <1>2, <1>3, <1>4, <1>5, <1>6, <1>7, <1>8 DEF Next, Run, Done

(* A first stop returns to the start once, a second one is immediate,      *)
(* whichever thread asks and whenever.                                     *)
THEOREM ObeysStops == Spec => StopsAreObeyed
<1>1. IInv' => ImmediateStop'
  BY DEF IInv, LoopInv, ImmediateStop
<1>2. IInv /\ IInv' /\ [Next]_vars => [ImmediateStop' /\ ReturnGoesOn]_vars
  BY <1>1, ReturnStep
<1> QED
  BY <1>2, Invariance, PTL DEF Spec, Safety, StopsAreObeyed
=============================================================================
