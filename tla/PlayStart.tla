------------------------------- MODULE PlayStart -------------------------------
(***************************************************************************)
(* emcli play before the first frame: the options and the file, the        *)
(* adapters and buses, the scan, one context for each column of the file,  *)
(* and one for every other motor found, which is held where it is          *)
(* (RunPlayCommand, TrajectoryRunner::Initialize).                         *)
(***************************************************************************)
EXTENDS Trajectory, FiniteSets, SequencesExt

CONSTANTS
  Motors,     \* ids of motors that may be on the bus
  Width,      \* ids are kept modulo Width (uint16_t)
  Files,      \* the trajectory files: records [columns, samples]
  Readings    \* positions a motor may report

ASSUME StartAssumption ==
  /\ Width \in Nat \ {0}
  /\ Motors \subseteq 0..Width - 1
  /\ Readings \subseteq Int
  /\ \A f \in Files : f.columns \in Seq(Nat) /\ IsTrajectory(f.samples, Len(f.columns))

VARIABLES
  pc,        \* "parse", "open", "scan", "bind", "hold", "logs", "read", "loop", "drain", "done"
  exit,      \* the exit code once pc = "done"
  file,      \* the trajectory
  endless, dryRun,  \* options
  found,     \* discovered_motors
  driven,    \* motors_: the motor of each column, in order
  held,      \* holding_motors_: the position of each motor that is held
  monitored, \* monitored_motors_
  callback,  \* per motor: whose counter its status callback counts; 0 for none
  initial    \* initial_positions_rad_, per column

startVars == <<pc, exit, file, endless, dryRun, found, driven, held, monitored, callback, initial>>

Holder == -1   \* the callback counts for a motor that is held

StartTypeOK ==
  /\ pc \in {"parse", "open", "scan", "bind", "hold", "logs", "read", "loop", "drain", "done"}
  /\ exit \in {0, 1}
  /\ file \in Files
  /\ {endless, dryRun} \subseteq BOOLEAN
  /\ found \subseteq Motors
  /\ driven \in Seq(Motors) /\ Len(driven) <= Len(file.columns)
  /\ DOMAIN held \subseteq Motors /\ \A m \in DOMAIN held : held[m] \in Readings
  /\ monitored \subseteq Motors
  /\ callback \in [Motors -> {Holder, 0} \cup DOMAIN file.columns]
  /\ initial \in Seq(Readings)

StartInit ==
  /\ pc = "parse" /\ exit = 0
  /\ file \in Files
  /\ endless \in BOOLEAN /\ dryRun \in BOOLEAN
  /\ found = {} /\ driven = <<>> /\ held = <<>> /\ monitored = {}
  /\ callback = [m \in Motors |-> 0]
  /\ initial = <<>>

-----------------------------------------------------------------------------
\* ParseMotorConnection keeps the low bits of the id.
Connection(column) == file.columns[column] % Width

Enter(to) == pc' = to /\ UNCHANGED <<exit, file, endless, dryRun>>

\* Every return and exception runs the destructor, which takes the callback
\* from the motors in monitored_motors_.
DisableStressCallbacks ==
  callback' = [m \in Motors |-> IF m \in monitored THEN 0 ELSE callback[m]]

Fail(from) ==
  /\ pc = from
  /\ pc' = "done" /\ exit' = 1
  /\ DisableStressCallbacks
  /\ UNCHANGED <<file, endless, dryRun, found, driven, held, monitored, initial>>

\* The PVT options go together, the frequency has limits, the log directory
\* is not empty and the file can be parsed; else Fail("parse").
ParsePlay ==
  /\ pc = "parse"
  /\ Enter("open")
  /\ UNCHANGED <<found, driven, held, monitored, callback, initial>>

\* The adapter and the bus of every column.
OpenAdapters ==
  /\ pc = "open"
  /\ Enter("scan")
  /\ UNCHANGED <<found, driven, held, monitored, callback, initial>>

\* All buses in parallel. A dry run makes the motors of the columns.
ScanMotors ==
  /\ pc = "scan"
  /\ Enter("bind")
  /\ IF dryRun THEN found' = Motors \cap {Connection(c) : c \in DOMAIN file.columns}
               ELSE found' \in SUBSET Motors
  /\ UNCHANGED <<driven, held, monitored, callback, initial>>

\* Mutation: a column whose motor is missing is passed over.
BindFoundColumns ==
  LET c == Len(driven) + 1 IN
  /\ pc = "bind"
  /\ IF c > Len(file.columns)
     THEN Enter("hold") /\ UNCHANGED <<driven, monitored, callback>>
     ELSE IF Connection(c) \notin found
     THEN Enter("hold") /\ UNCHANGED <<driven, monitored, callback>>
     ELSE /\ Enter("bind")
          /\ driven' = Append(driven, Connection(c))
          /\ monitored' = monitored \cup {Connection(c)}
          /\ callback' = [callback EXCEPT ![Connection(c)] = c]
  /\ UNCHANGED <<found, held, initial>>

\* The columns in order. A motor that was not found is an exception.
BindColumn ==
  LET c == Len(driven) + 1 IN
  /\ c <= Len(file.columns)
  /\ IF Connection(c) \notin found THEN Fail("bind")
     ELSE /\ pc = "bind"
          /\ Enter("bind")
          /\ driven' = Append(driven, Connection(c))
          /\ monitored' = monitored \cup {Connection(c)}
          /\ callback' = [callback EXCEPT ![Connection(c)] = c]
          /\ UNCHANGED <<found, held, initial>>

ColumnsBound ==
  /\ pc = "bind"
  /\ Len(driven) = Len(file.columns)
  /\ Enter("hold")
  /\ UNCHANGED <<found, driven, held, monitored, callback, initial>>

ToHold == found \ (ToSet(driven) \cup DOMAIN held)

\* The other motors, in the order of a hash table: the callback, the
\* position, and only then monitored_motors_.
HoldMotor ==
  /\ pc = "hold"
  /\ \E m \in ToHold :
       \/ /\ \E p \in Readings : held' = [x \in DOMAIN held \cup {m} |-> IF x = m THEN p ELSE held[x]]
          /\ monitored' = monitored \cup {m}
          /\ callback' = [callback EXCEPT ![m] = Holder]
          /\ Enter("hold")
       \/ /\ UNCHANGED <<held, monitored, file, endless, dryRun>>
          /\ callback' = [x \in Motors |-> IF x = m THEN Holder
                                           ELSE IF x \in monitored THEN 0 ELSE callback[x]]
          /\ pc' = "done" /\ exit' = 1
  /\ UNCHANGED <<found, driven, initial>>

MotorsHeld ==
  /\ pc = "hold" /\ ToHold = {}
  /\ Enter("logs")
  /\ UNCHANGED <<found, driven, held, monitored, callback, initial>>

\* EnableLogs, else Fail("logs").
StartLogs ==
  /\ pc = "logs"
  /\ Enter("read")
  /\ UNCHANGED <<found, driven, held, monitored, callback, initial>>

StartNext ==
  \/ ParsePlay \/ OpenAdapters \/ ScanMotors \/ BindColumn \/ ColumnsBound \/ HoldMotor
  \/ MotorsHeld \/ StartLogs
  \/ \E from \in {"parse", "open", "scan", "logs"} : Fail(from)

-----------------------------------------------------------------------------
\* Once play sends frames, every motor that was found gets one in each round
\* and no motor gets two kinds: a motor with a column is driven, as the
\* column says, any other is held where it was. Every end takes the status
\* callbacks away; only the callback of a motor that is being added when its
\* position cannot be read stays. (Initialize, DisableStressCallbacks)
MotorsAreAccounted ==
  /\ pc \in {"read", "loop", "drain"} =>
       /\ driven = [c \in DOMAIN file.columns |-> Connection(c)]
       /\ found = ToSet(driven) \cup DOMAIN held
       /\ ToSet(driven) \cap DOMAIN held = {}
       /\ \A m \in Motors : callback[m] # 0 <=> m \in found
  /\ pc = "done" => /\ \A m \in monitored : callback[m] = 0
                    /\ Cardinality({m \in Motors : callback[m] # 0}) <= 1
=============================================================================
