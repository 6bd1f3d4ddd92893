--------------------------------- MODULE Cli ---------------------------------
(***************************************************************************)
(* main.cc: Run checks the driver and hands the process to one subcommand; *)
(* main turns an exception into exit code 1. The variables of the          *)
(* subcommands that do not run keep their initial values.                  *)
(***************************************************************************)
EXTENDS SensorCommands, MotorCommands, BenchRun, StressRun

VARIABLE command

vars == <<processVars, command, sensorVars, motorVars, benchVars, stressVars>>

OnlyProcess == UNCHANGED <<sensorVars, motorVars, benchVars, stressVars>>

Init ==
  /\ ProcessInit
  /\ command = "none"
  /\ SensorInit /\ MotorInit /\ BenchInit /\ StressInit

\* The version of the driver is checked before anything else; help, the
\* version and what argparse refuses end here too.
NoCommand ==
  /\ command = "none"
  /\ \E code \in {0, 1} : Return("parse", code)
  /\ OnlyProcess /\ UNCHANGED command

Dispatch ==
  /\ command = "none"
  /\ Goto("parse", "parse")
  /\ command' \in {"sensor", "motor", "bench", "stress"}
  /\ OnlyProcess

OfSensor == command = "sensor" /\ UNCHANGED <<command, motorVars, benchVars, stressVars>>
OfMotor  == command = "motor"  /\ UNCHANGED <<command, sensorVars, benchVars, stressVars>>
OfBench  == command = "bench"  /\ UNCHANGED <<command, sensorVars, motorVars, stressVars>>
OfStress == command = "stress" /\ UNCHANGED <<command, sensorVars, motorVars, benchVars>>

\* A step of the main thread.
Main ==
  \/ NoCommand \/ Dispatch
  \/ OfSensor /\ SensorMain
  \/ OfMotor /\ MotorMain
  \/ OfBench /\ BenchMain
  \/ OfStress /\ StressMain

ScanThread(b)  == OfMotor /\ ScanTask(b)
BenchThread    == OfBench /\ CongestionThread
SenderThread(a) == OfStress /\ Sender(a)
DriverThread(m) == OfStress /\ Callback(m)

CtrlC == Interrupt /\ OnlyProcess /\ UNCHANGED command

\* The process has ended; TLC would take the rest for a deadlock.
Finished == Ended /\ UNCHANGED vars

Next ==
  \/ Main
  \/ \E b \in Buses : ScanThread(b)
  \/ BenchThread
  \/ \E a \in Adapters : SenderThread(a)
  \/ \E m \in Motors : DriverThread(m)
  \/ CtrlC
  \/ Finished

\* Threads run, and calls of the driver return.
Fairness ==
  /\ WF_vars(Main)
  /\ \A b \in Buses : WF_vars(ScanThread(b))
  /\ WF_vars(BenchThread)
  /\ \A a \in Adapters : WF_vars(SenderThread(a))

Spec == Init /\ [][Next]_vars /\ Fairness

-----------------------------------------------------------------------------
\* Where the main thread of each command can be while it runs.
Places ==
  [none   |-> {"parse"},
   sensor |-> {"parse", "open", "device", "send", "calibrate",
               "clear", "guard", "raw", "loop", "cook", "unguard"},
   motor  |-> {"parse", "resolve", "each", "prepare", "clear", "guard", "raw", "loop", "send",
               "print", "cook", "unguard", "launch", "collect", "unwind", "close"},
   bench  |-> {"parse", "case", "delay", "settle", "sample", "stop", "join"},
   stress |-> {"parse", "register", "reset", "signal", "rearm", "start", "live", "liveRead", "join",
               "beforeRead", "drained", "unregister", "report", "afterRead", "finalRead"}]

TypeOK ==
  /\ ProcessTypeOK
  /\ ~Ended => pc \in Places[command]
  /\ command \in {"none", "sensor", "motor", "bench", "stress"}
  /\ SensorTypeOK /\ MotorTypeOK /\ BenchTypeOK /\ StressTypeOK

\* A command that returns, with or without an exception, and a Ctrl-C at
\* whatever point leave the terminal as it was found: raw mode and the
\* alternate screen are entered only while a handler keeps SIGINT from
\* killing the process. A thread that throws ends the process where it
\* stands: that leaves raw mode nowhere, and the alternate screen only with
\* stress. (SignalGuard, TerminalRawMode, AlternateScreenGuard, SenderLoop)
TerminalIsRestored ==
  /\ pc \in {"done", "killed"} => terminal = "cooked"
  /\ pc = "terminated" => terminal = "cooked" \/ (command = "stress" /\ terminal = "alternate")

\* Ctrl-C ends every loop, and a command that does not loop ends by itself.
\* stress alone loses a Ctrl-C that comes before it clears its flag.
CommandsEnd ==
  ( \/ stopFlag /\ pc # "rearm"
    \/ job \in {"read", "write", "brake", "scan"}
    \/ device # "none" /\ action # "show"
    \/ command = "bench" ) ~> Ended
=============================================================================
