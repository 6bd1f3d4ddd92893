----------------------------- MODULE PlayRunner -----------------------------
(***************************************************************************)
(* `emcli play` (src/cli/play.cc): the control loop of TrajectoryRunner    *)
(* with its phases, the stop counter that the signal handlers, the screen  *)
(* thread and the loop itself all write, the pause flag, and the motor     *)
(* logs that the screen thread toggles and the end of Run closes.          *)
(*                                                                         *)
(* Time is counted in ticks of at least one control period: every          *)
(* iteration of the loop takes from 1 to MaxOverrun ticks. A loop          *)
(* iteration is split at each load of the stop counter.                    *)
(***************************************************************************)
EXTENDS Naturals

CONSTANTS
  Motors,         \* monitored_motors_
  StartupTicks,   \* kStartupTransitionDuration
  TrajectoryTicks,\* the length of the trajectory
  ReturnTicks,    \* kReturnTransitionDuration
  MaxOverrun,     \* bound: ticks one iteration takes
  MaxInputs       \* bound: keys and signals in a behaviour

\* A trajectory names at least one motor.
ASSUME ConstantsAssumption ==
  /\ Motors # {}
  /\ {StartupTicks, TrajectoryTicks, ReturnTicks, MaxOverrun} \subseteq Nat \ {0}
  /\ MaxInputs \in Nat

VARIABLES
  endless, tui,   \* the --endless option, and whether the screen is used
  stop,           \* g_play_stop_requests
  paused,         \* playback_paused_
  clockPaused,    \* PlayPauseClock::paused
  phase,          \* PlaybackPhase
  elapsed,        \* ticks of playing time since the phase began
  pc,             \* where Run is
  screen,         \* where the status thread is
  tuiFailed,      \* tui_failed_
  logs,           \* logs_enabled_, logging_motors_ and the logs the driver has open
  exit,           \* the exit code of Run
  inputs,         \* keys and signals so far
  late            \* history: the counter was 2 when this iteration took the time, and still is

loopVars == <<clockPaused, phase, elapsed>>
vars == <<endless, tui, stop, paused, loopVars, pc, screen, tuiFailed, logs, exit, inputs, late>>

-----------------------------------------------------------------------------
MinOf(a, b) == IF a < b THEN a ELSE b
MaxStop   == MaxInputs + 2
MaxPhase  == StartupTicks + TrajectoryTicks + ReturnTicks
Duration(p) ==
  CASE p = "Startup" -> StartupTicks
    [] p = "Playback" -> TrajectoryTicks
    [] p = "Returning" -> ReturnTicks

NoLogs  == [enabled |-> FALSE, listed |-> {}, open |-> {}]
AllLogs == [enabled |-> TRUE, listed |-> Motors, open |-> Motors]

\* Run is called once Initialize has set up motors and callbacks; with --log
\* it has opened every log.
Init ==
  /\ endless \in BOOLEAN
  /\ tui \in BOOLEAN
  /\ stop = 0
  /\ paused = FALSE
  /\ clockPaused = FALSE
  /\ phase = "Startup"
  /\ elapsed = 0
  /\ pc = "arm"
  /\ screen = "none"
  /\ tuiFailed = FALSE
  /\ logs \in {NoLogs, AllLogs}
  /\ exit = 0
  /\ inputs = 0
  /\ late = FALSE

Input == inputs < MaxInputs /\ inputs' = inputs + 1

\* The counter is written: once it is below 2 the stop is no longer immediate.
SetStop(n) ==
  /\ stop' = n
  /\ late' = (late /\ n >= 2)

-----------------------------------------------------------------------------
(* The motor logs.                                                         *)

\* Mutation: a log that cannot be closed is dropped from the list.
DisableLogsForgetting ==
  \E stuck \in SUBSET logs.listed :
    logs' = [enabled |-> FALSE, listed |-> {}, open |-> logs.open \cap stuck]

\* DisableLog may fail for any of the motors; those stay on the list.
DisableLogs ==
  \E stuck \in SUBSET logs.listed :
    logs' = [enabled |-> stuck # {}, listed |-> stuck, open |-> logs.open \cap stuck]

\* A motor is listed before its log is opened. The first failure closes what
\* is listed again; without the directory nothing happens.
EnableLogs ==
  \/ logs.listed # {} /\ logs' = [logs EXCEPT !.enabled = TRUE]
  \/ logs.listed = {} /\ logs' \in {logs, AllLogs}
  \/ /\ logs.listed = {}
     /\ \E opened \in SUBSET Motors : \E failed \in Motors \ opened :
          \E stuck \in SUBSET (opened \cup {failed}) :
            logs' = [enabled |-> stuck # {}, listed |-> stuck, open |-> opened \cap stuck]

-----------------------------------------------------------------------------
(* Run.                                                                    *)

\* The handlers are in place before the counter is cleared.
Arm ==
  /\ pc = "arm"
  /\ SetStop(0)
  /\ pc' = "start"
  /\ UNCHANGED <<endless, tui, paused, loopVars, screen, tuiFailed, logs, exit, inputs>>

\* ReadCurrentPositions, then the status thread starts.
Start ==
  /\ pc = "start"
  /\ \/ pc' = "test" /\ screen' = (IF tui THEN "opening" ELSE "text") /\ exit' = exit
     \/ pc' = "destroy" /\ exit' = 1 /\ screen' = screen
  /\ UNCHANGED <<endless, tui, stop, paused, loopVars, tuiFailed, logs, inputs, late>>

LoopTest ==
  /\ pc = "test"
  /\ pc' = IF stop < 2 THEN "unpause" ELSE "leave"
  /\ UNCHANGED <<endless, tui, stop, paused, loopVars, screen, tuiFailed, logs, exit, inputs, late>>

\* Mutation: a stop request leaves the pause alone.
LoopKeepPause ==
  /\ pc = "unpause"
  /\ pc' = "clock"
  /\ UNCHANGED <<endless, tui, stop, paused, loopVars, screen, tuiFailed, logs, exit, inputs, late>>

LoopUnpause ==
  /\ pc = "unpause"
  /\ paused' = (paused /\ stop = 0)
  /\ pc' = "clock"
  /\ UNCHANGED <<endless, tui, stop, loopVars, screen, tuiFailed, logs, exit, inputs, late>>

\* UpdatePlayPauseClock: playing time stands still from one iteration that
\* saw the pause to the next.
LoopClock ==
  /\ pc = "clock"
  /\ \E ticks \in 1..MaxOverrun :
       elapsed' = IF clockPaused THEN elapsed ELSE MinOf(elapsed + ticks, MaxPhase)
  /\ clockPaused' = paused
  /\ late' = (stop >= 2)
  /\ pc' = "check"
  /\ UNCHANGED <<endless, tui, stop, paused, phase, screen, tuiFailed, logs, exit, inputs>>

Continue(next) ==
  /\ pc' = next
  /\ UNCHANGED <<endless, tui, stop, paused, loopVars, screen, tuiFailed, logs, exit, inputs, late>>

\* Mutation: the test of the phase is dropped.
LoopCheckAnyPhase == pc = "check" /\ Continue(IF stop >= 1 THEN "read" ELSE "gate")

\* A stop request starts the return, unless it is under way.
LoopCheck == pc = "check" /\ Continue(IF stop >= 1 /\ phase # "Returning" THEN "read" ELSE "gate")

\* Where the motors are is where the return starts; failing to read it stops
\* at once.
LoopRead ==
  /\ pc = "read"
  /\ \/ pc' = "recheck" /\ UNCHANGED <<stop, late>>
     \/ pc' = "leave" /\ SetStop(2)
  /\ UNCHANGED <<endless, tui, paused, loopVars, screen, tuiFailed, logs, exit, inputs>>

LoopRecheck ==
  /\ pc = "recheck"
  /\ IF stop >= 2
       THEN pc' = "leave" /\ UNCHANGED <<phase, elapsed>>
       ELSE pc' = "gate" /\ phase' = "Returning" /\ elapsed' = 0
  /\ UNCHANGED <<endless, tui, stop, paused, clockPaused, screen, tuiFailed, logs, exit, inputs, late>>

LoopGate == pc = "gate" /\ Continue(IF stop >= 2 THEN "leave" ELSE "send")

\* One frame to every motor, then the phase may end.
Finished == elapsed >= Duration(phase) /\ (phase = "Playback" => ~endless)

NextPhase(p) == IF p = "Startup" THEN "Playback" ELSE "Returning"

LoopSend ==
  /\ pc = "send"
  /\ IF Finished
       THEN /\ elapsed' = 0
            /\ phase' = NextPhase(phase)
            /\ pc' = IF phase = "Returning" THEN "leave" ELSE "test"
       ELSE pc' = "test" /\ UNCHANGED <<elapsed, phase>>
  /\ UNCHANGED <<endless, tui, stop, paused, clockPaused, screen, tuiFailed, logs, exit, inputs, late>>

\* A send may throw. Nothing in Run catches it and the status thread is still
\* joinable: std::terminate, and every thread of the process is gone.
SendThrows == pc = "send" /\ Continue("terminated")

\* The end of the loop raises the counter for the status thread, then joins it.
Leave ==
  /\ pc = "leave"
  /\ SetStop(2)
  /\ pc' = "join"
  /\ UNCHANGED <<endless, tui, paused, loopVars, screen, tuiFailed, logs, exit, inputs>>

Join == pc = "join" /\ screen = "ended" /\ Continue("report")

\* The drain, then the final table or report; the table may fail to print.
Report ==
  /\ pc = "report"
  /\ \/ exit' = 0 /\ ~tuiFailed
     \/ exit' = 1 /\ tui
  /\ pc' = "logs"
  /\ UNCHANGED <<endless, tui, stop, paused, loopVars, screen, tuiFailed, logs, inputs, late>>

CloseLogs ==
  /\ pc = "logs"
  /\ DisableLogs
  /\ exit' = IF logs'.listed = {} THEN exit ELSE 1
  /\ pc' = "destroy"
  /\ UNCHANGED <<endless, tui, stop, paused, loopVars, screen, tuiFailed, inputs, late>>

\* ~TrajectoryRunner tries the logs again; the exit code is settled.
Destroy ==
  /\ pc = "destroy"
  /\ DisableLogs
  /\ pc' = "done"
  /\ UNCHANGED <<endless, tui, stop, paused, loopVars, screen, tuiFailed, exit, inputs, late>>

-----------------------------------------------------------------------------
(* The status thread: StatusLoop, or RunTuiLoop and the keys pressed on    *)
(* the screen. The screen installs signal handlers of its own and puts the *)
(* ones of play back when it closes.                                       *)

ScreenOpens ==
  /\ screen = "opening"
  /\ screen' = "up"
  /\ UNCHANGED <<endless, tui, stop, paused, loopVars, pc, tuiFailed, logs, exit, inputs, late>>

\* The space bar loads the flag and stores its negation.
PressSpace ==
  /\ screen = "up"
  /\ Input
  /\ screen' = IF paused THEN "unpausing" ELSE "pausing"
  /\ UNCHANGED <<endless, tui, stop, paused, loopVars, pc, tuiFailed, logs, exit, late>>

StorePaused ==
  /\ screen \in {"pausing", "unpausing"}
  /\ paused' = (screen = "pausing")
  /\ screen' = "up"
  /\ UNCHANGED <<endless, tui, stop, loopVars, pc, tuiFailed, logs, exit, inputs, late>>

PressL ==
  /\ screen = "up"
  /\ Input
  /\ screen' = "toggling"
  /\ UNCHANGED <<endless, tui, stop, paused, loopVars, pc, tuiFailed, logs, exit, late>>

ToggleLogs ==
  /\ screen = "toggling"
  /\ IF logs.enabled THEN DisableLogs ELSE EnableLogs
  /\ screen' = "up"
  /\ UNCHANGED <<endless, tui, stop, paused, loopVars, pc, tuiFailed, exit, inputs, late>>

\* q and Ctrl-C; the latter also closes the screen.
PressQuit(key) ==
  /\ screen = "up"
  /\ Input
  /\ paused' = FALSE
  /\ screen' = key
  /\ UNCHANGED <<endless, tui, stop, loopVars, pc, tuiFailed, logs, exit, late>>

\* The compare-and-exchange counts up to 2.
RequestStop ==
  /\ screen \in {"q", "ctrl-c"}
  /\ SetStop(IF stop < 2 THEN stop + 1 ELSE stop)
  /\ screen' = IF screen = "q" THEN "up" ELSE "closing"
  /\ UNCHANGED <<endless, tui, paused, loopVars, pc, tuiFailed, logs, exit, inputs>>

\* A signal while the screen is up closes it, whichever signal it is.
SignalScreen ==
  /\ screen = "up"
  /\ Input
  /\ screen' = "closing"
  /\ UNCHANGED <<endless, tui, stop, paused, loopVars, pc, tuiFailed, logs, exit, late>>

\* The refresh event, every 50 ms.
ScreenSeesStop ==
  /\ screen = "up"
  /\ stop >= 2
  /\ screen' = "closing"
  /\ UNCHANGED <<endless, tui, stop, paused, loopVars, pc, tuiFailed, logs, exit, inputs, late>>

ScreenFails ==
  /\ screen \in {"opening", "up"}
  /\ screen' = "closing"
  /\ tuiFailed' = TRUE
  /\ UNCHANGED <<endless, tui, stop, paused, loopVars, pc, logs, exit, inputs, late>>

\* After the screen: a failure stops at once, a screen closed by a signal
\* asks for the return. The test and the store are two steps.
ScreenCloses ==
  /\ screen = "closing"
  /\ IF tuiFailed
       THEN SetStop(2) /\ screen' = "ended"
       ELSE /\ screen' = IF stop = 0 THEN "storing" ELSE "ended"
            /\ UNCHANGED <<stop, late>>
  /\ UNCHANGED <<endless, tui, paused, loopVars, pc, tuiFailed, logs, exit, inputs>>

StoreStop ==
  /\ screen = "storing"
  /\ SetStop(1)
  /\ screen' = "ended"
  /\ UNCHANGED <<endless, tui, paused, loopVars, pc, tuiFailed, logs, exit, inputs>>

StatusLoopEnds ==
  /\ screen = "text"
  /\ stop >= 2
  /\ screen' = "ended"
  /\ UNCHANGED <<endless, tui, stop, paused, loopVars, pc, tuiFailed, logs, exit, inputs, late>>

\* HandlePlayInterrupt and HandlePlayTerminate.
Signal ==
  /\ pc \notin {"destroy", "done"}
  /\ screen \in {"none", "opening", "closing", "storing", "ended", "text"}
  /\ Input
  /\ \/ SetStop(stop + 1)
     \/ SetStop(2)
  /\ UNCHANGED <<endless, tui, paused, loopVars, pc, screen, tuiFailed, logs, exit>>

-----------------------------------------------------------------------------
Run ==
  \/ Arm \/ Start
  \/ LoopTest \/ LoopUnpause \/ LoopClock \/ LoopCheck \/ LoopRead \/ LoopRecheck
  \/ LoopGate \/ LoopSend \/ SendThrows
  \/ Leave \/ Join \/ Report \/ CloseLogs \/ Destroy

Alive == pc # "terminated"

StatusThread ==
  /\ Alive
  /\ \/ ScreenOpens \/ StorePaused \/ ToggleLogs \/ RequestStop
     \/ ScreenSeesStop \/ ScreenCloses \/ StoreStop \/ StatusLoopEnds

User ==
  /\ Alive
  /\ \/ PressSpace \/ PressL \/ SignalScreen \/ Signal
     \/ \E key \in {"q", "ctrl-c"} : PressQuit(key)

Ended == pc \in {"done", "terminated"}

Done == Ended /\ UNCHANGED vars

Next == Run \/ StatusThread \/ User \/ (Alive /\ ScreenFails) \/ Done

Safety == Init /\ [][Next]_vars

\* Two running threads: the loop and the status thread.
Spec == Safety /\ WF_vars(Run) /\ WF_vars(StatusThread)

-----------------------------------------------------------------------------
(* Every variable holds a value of its C++ type. *)
TypeOK ==
  /\ {endless, tui, paused, clockPaused, tuiFailed, late} \subseteq BOOLEAN
  /\ stop \in 0..MaxStop
  /\ phase \in {"Startup", "Playback", "Returning"}
  /\ elapsed \in 0..MaxPhase
  /\ pc \in {"arm", "start", "test", "unpause", "clock", "check", "read", "recheck",
             "gate", "send", "leave", "join", "report", "logs", "destroy", "done",
             "terminated"}
  /\ screen \in {"none", "opening", "up", "pausing", "unpausing", "toggling", "q", "ctrl-c",
                 "closing", "storing", "text", "ended"}
  /\ logs \in [enabled : BOOLEAN, listed : SUBSET Motors, open : SUBSET Motors]
  /\ exit \in {0, 1}
  /\ inputs \in 0..MaxInputs

(* Every log the driver has open is on the list that DisableLogs closes,   *)
(* and logging is shown as on while the list holds a motor, whatever       *)
(* opening and closing failed before.                                      *)
OpenLogsAreListed ==
  /\ logs.open \subseteq logs.listed
  /\ logs.enabled <=> logs.listed # {}

(* An exit code of 0 after playing means that no motor is left logging. *)
CleanExitClosesLogs == (pc = "done" /\ exit = 0) => logs.open = {}

(* Run closes the logs once no key can toggle them: logging_motors_ has no *)
(* lock.                                                                   *)
LogsHaveOneOwner == pc \in {"logs", "destroy"} => screen \in {"none", "ended"}

(* No log is lost between the key that toggles the logs, the failures to   *)
(* open or close one, and the end of Run.                                  *)
LogsAreAccounted == OpenLogsAreListed /\ CleanExitClosesLogs /\ LogsHaveOneOwner

(* An immediate stop asked before an iteration takes the time is obeyed    *)
(* before its frame, however long reading the positions takes, unless the  *)
(* screen thread lowers the counter again.                                 *)
ImmediateStop == pc = "send" => ~late

(* A stop request during the return does not start the return again. *)
ReturnGoesOn ==
  (phase = "Returning" /\ pc' # "leave") => (phase' = "Returning" /\ elapsed' >= elapsed)

(* A first stop returns once, a second one is immediate. *)
StopsAreObeyed == [][ImmediateStop' /\ ReturnGoesOn]_vars

(* Asking for a stop ends the run, from whichever thread, phase or pause   *)
(* it is asked.                                                            *)
StopEnds == (stop >= 1 /\ pc # "arm") ~> Ended

(* Without --endless the run ends by itself, unless it is left paused. *)
FiniteRunEnds == (~endless) => (<>Ended \/ <>[]paused)

(* Every run ends, by itself or when it is asked to. *)
RunEnds == StopEnds /\ FiniteRunEnds

=============================================================================
