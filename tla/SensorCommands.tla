---------------------------- MODULE SensorCommands ----------------------------
(***************************************************************************)
(* emcli imu, battery, pms and glove: a command is sent once, or the       *)
(* status is shown until Ctrl-C or q.                                      *)
(***************************************************************************)
EXTENDS Process

CONSTANT ReadyPolls  \* kReadyTimeout in polls of RunGloveCalibrate

ASSUME SensorAssumption == ReadyPolls \in Nat

Devices == {"imu", "battery", "pms", "glove"}
Actions == [imu |-> {"show", "start", "stop"}, battery |-> {"show", "clear"},
            pms |-> {"show", "enable", "disable"}, glove |-> {"show", "calibrate"}]

VARIABLES
  device, action,  \* the parsed command
  polls            \* polls for the glove's first data

sensorVars == <<device, action, polls>>

SensorTypeOK ==
  /\ device \in Devices \cup {"none"}
  /\ action \in {"none"} \cup UNION {Actions[d] : d \in Devices}
  /\ polls \in 0..ReadyPolls

SensorInit ==
  /\ device = "none"
  /\ action = "none"
  /\ polls = 0

-----------------------------------------------------------------------------
\* --help returns 0 at once; anything the parser refuses, 1.
SensorParseFails ==
  /\ \E code \in {0, 1} : Return("parse", code)
  /\ UNCHANGED sensorVars

\* The channels of pms are the driver's business.
ParseSensor ==
  /\ Goto("parse", "open")
  /\ device' \in Devices
  /\ action' \in Actions[device']
  /\ UNCHANGED polls

\* OpenBus or OpenGlove, and for all but imu the device itself.
OpenDeviceFails ==
  /\ Return("open", 1)
  /\ UNCHANGED sensorVars

OpenDevice ==
  /\ Goto("open", IF action # "show" THEN "send" ELSE IF device = "imu" THEN "device" ELSE "clear")
  /\ UNCHANGED sensorVars

\* StartImu and StopImu come before GetImu, which only show needs.
GetImu ==
  /\ \/ Goto("device", "clear")
     \/ Return("device", 1)
  /\ UNCHANGED sensorVars

\* A command the driver refuses or throws on ends with 1.
SendOnce ==
  /\ device # "glove"
  /\ \E code \in {0, 1} : Return("send", code)
  /\ UNCHANGED sensorVars

\* Mutation: no deadline.
AwaitGloveForever ==
  /\ device = "glove"
  /\ \/ polls' = polls + 1 /\ Goto("send", "send")
     \/ polls' = polls /\ Goto("send", "calibrate")
  /\ UNCHANGED <<device, action>>

\* RunGloveCalibrate waits for the first data, at most until the deadline,
\* and calibrates in any case. Reading the status may throw.
AwaitGlove ==
  /\ device = "glove"
  /\ \/ polls < ReadyPolls /\ polls' = polls + 1 /\ Goto("send", "send")
     \/ polls' = polls /\ Goto("send", "calibrate")
     \/ polls' = polls /\ Return("send", 1)
  /\ UNCHANGED <<device, action>>

Calibrate ==
  /\ \E code \in {0, 1} : Return("calibrate", code)
  /\ UNCHANGED sensorVars

\* One turn of the loop: the flag, the q key, a report of 20 ms.
Show ==
  /\ \/ stopFlag /\ LeaveLoop("loop", 0)
     \/ ~stopFlag /\ LeaveLoop("loop", 0)
     \/ ~stopFlag /\ LeaveLoop("loop", 1)
     \/ ~stopFlag /\ Goto("loop", "loop")
  /\ UNCHANGED sensorVars

SensorMain ==
  \/ SensorParseFails \/ ParseSensor \/ OpenDeviceFails \/ OpenDevice \/ GetImu
  \/ SendOnce \/ AwaitGlove \/ Calibrate \/ Show
  \/ Bracket /\ UNCHANGED sensorVars
=============================================================================
