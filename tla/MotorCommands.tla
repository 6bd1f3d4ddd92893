---------------------------- MODULE MotorCommands ----------------------------
(***************************************************************************)
(* emcli config, control and scan (main.cc: RunCli, RunControl, RunScan):  *)
(* one command on one motor or on all motors of a bus or an adapter.       *)
(***************************************************************************)
EXTENDS Process, Sequences, SequencesExt

CONSTANT Buses

VARIABLES
  job,      \* "read", "write", "brake", "drive" or "scan"; "none" before parsing
  single,   \* the target is one motor (or the scan is of one bus)
  readback, \* IsConfigReadbackItem
  targets,  \* what ResolveMotorTargets found, in order
  at,       \* the target being served
  step,     \* where the body of the loop over the targets is
  written,  \* motors that acknowledged the setting
  answered, \* motors that were read (back)
  failure,  \* had_failure
  kts,      \* the motors whose Kt was read, in order
  feedbacks,\* the motors that answered in this iteration, in order
  driven,   \* history: motors that were sent a control frame
  broken,   \* history: a control frame failed
  tasks,    \* the scan of each bus
  rows,     \* the buses whose rows were collected
  adapter   \* the adapter of RunScan

commandVars == <<job, single, readback, targets>>
configVars == <<at, step, written, answered, failure>>
controlVars == <<kts, feedbacks, driven, broken>>
scanVars == <<tasks, rows, adapter>>
motorVars == <<commandVars, configVars, controlVars, scanVars>>

MotorTypeOK ==
  /\ job \in {"none", "read", "write", "brake", "drive", "scan"}
  /\ {single, readback, failure, broken} \subseteq BOOLEAN
  /\ \A s \in {targets, kts, feedbacks} : s \in Seq(Motors) /\ IsInjective(s)
  /\ at \in 1..Len(targets) + 1
  /\ step \in {"init", "set", "get"}
  /\ {written, answered, driven} \subseteq SUBSET Motors
  /\ tasks \in [Buses -> {"none", "running", "found", "failed"}]
  /\ rows \subseteq Buses
  /\ adapter \in {"open", "closed"}

MotorInit ==
  /\ job = "none" /\ single = FALSE /\ readback = FALSE /\ targets = <<>>
  /\ at = 1 /\ step = "init" /\ written = {} /\ answered = {} /\ failure = FALSE
  /\ kts = <<>> /\ feedbacks = <<>> /\ driven = {} /\ broken = FALSE
  /\ tasks = [b \in Buses |-> "none"] /\ rows = {} /\ adapter = "closed"

-----------------------------------------------------------------------------
(* Parsing and resolving.                                                  *)

\* --help, a list of interfaces and a scan for slaves return 0, anything
\* that cannot be parsed 1.
MotorParseFails ==
  /\ \E code \in {0, 1} : Return("parse", code)
  /\ UNCHANGED motorVars

ParseMotor ==
  /\ job' \in {"read", "write", "brake", "drive"}
  /\ single' \in BOOLEAN
  /\ readback' \in (IF job' = "write" THEN BOOLEAN ELSE {FALSE})
  /\ Goto("parse", "resolve")
  /\ UNCHANGED <<targets, configVars, controlVars, scanVars>>

\* The adapter or a bus fails, or no motor matches.
ResolveFails ==
  /\ Return("resolve", 1)
  /\ UNCHANGED motorVars

\* The motors the scan of the buses found, sorted.
Resolve ==
  /\ \E found \in SUBSET Motors \ {{}} :
       /\ single => \E m \in Motors : found = {m}
       /\ targets' = SetToSeq(found)
  /\ Goto("resolve", IF job = "drive" THEN "prepare" ELSE "each")
  /\ UNCHANGED <<job, single, readback, configVars, controlVars, scanVars>>

-----------------------------------------------------------------------------
(* RunCli, and the brake of RunControl: every target by itself.            *)

Motor == targets[at]
More == at <= Len(targets)

NextTarget == at' = at + 1 /\ step' = "init"

\* EnsureMotorInitialized and EnableCanFd.
InitTarget ==
  /\ More /\ step = "init"
  /\ Goto("each", "each")
  /\ step' = IF job = "read" THEN "get" ELSE "set"
  /\ UNCHANGED <<commandVars, at, written, answered, failure, controlVars, scanVars>>

\* SetConfigValue, or Brake: acknowledged. Without a read-back it is a success.
SetTarget ==
  /\ More /\ step = "set"
  /\ Goto("each", "each")
  /\ written' = written \cup {Motor}
  /\ IF readback THEN step' = "get" /\ at' = at ELSE NextTarget
  /\ UNCHANGED <<commandVars, answered, failure, controlVars, scanVars>>

GetTarget ==
  /\ More /\ step = "get"
  /\ Goto("each", "each")
  /\ answered' = answered \cup {Motor}
  /\ NextTarget
  /\ UNCHANGED <<commandVars, written, failure, controlVars, scanVars>>

\* Mutation: the catch reports the error and forgets it.
TargetFailsQuietly ==
  /\ More
  /\ IF single /\ job # "brake" THEN Return("each", 1) /\ UNCHANGED <<at, step>>
                                ELSE Goto("each", "each") /\ NextTarget
  /\ UNCHANGED <<commandVars, written, answered, failure, controlVars, scanVars>>

\* Any of the three calls throws or is not acknowledged. config rethrows
\* for a single motor; otherwise the error is reported and the next target
\* has its turn.
TargetFails ==
  /\ More
  /\ failure' = TRUE
  /\ IF single /\ job # "brake" THEN Return("each", 1) /\ UNCHANGED <<at, step>>
                                ELSE Goto("each", "each") /\ NextTarget
  /\ UNCHANGED <<commandVars, written, answered, controlVars, scanVars>>

AllServed ==
  /\ ~More
  /\ Return("each", IF failure THEN 1 ELSE 0)
  /\ UNCHANGED motorVars

-----------------------------------------------------------------------------
(* RunControl: all targets are made ready, then driven together.           *)

\* Mutation: a motor that cannot be made ready is skipped.
PrepareLeniently ==
  /\ More
  /\ NextTarget
  /\ Goto("prepare", "prepare")
  /\ kts' \in {kts, Append(kts, Motor)}
  /\ UNCHANGED <<commandVars, written, answered, failure, feedbacks, driven, broken, scanVars>>

\* EnsureMotorInitialized, EnableCanFd and the Kt of one motor.
Prepare ==
  /\ More
  /\ \/ /\ Goto("prepare", "prepare")
        /\ NextTarget
        /\ kts' = Append(kts, Motor)
     \/ /\ Return("prepare", 1)
        /\ UNCHANGED <<at, step, kts>>
  /\ UNCHANGED <<commandVars, written, answered, failure, feedbacks, driven, broken, scanVars>>

Prepared ==
  /\ ~More
  /\ Goto("prepare", "clear")
  /\ UNCHANGED motorVars

\* The head of the loop: Ctrl-C, the q key, or an iteration.
DriveLoop ==
  /\ job = "drive"
  /\ \/ LeaveLoop("loop", 0) /\ UNCHANGED motorVars
     \/ /\ ~stopFlag
        /\ Goto("loop", "send")
        /\ at' = 1
        /\ feedbacks' = <<>>
        /\ UNCHANGED <<commandVars, step, written, answered, failure, kts, driven, broken, scanVars>>

\* SendControlCommand to one target, answered or not. A failure ends the
\* command: the targets behind it get no frame.
SendControlCommand ==
  /\ More
  /\ driven' = driven \cup {Motor}
  /\ \/ /\ Goto("send", "send")
        /\ NextTarget
        /\ feedbacks' = Append(feedbacks, Motor)
        /\ UNCHANGED broken
     \/ /\ LeaveLoop("send", 1)
        /\ broken' = TRUE
        /\ UNCHANGED <<at, step, feedbacks>>
  /\ UNCHANGED <<commandVars, written, answered, failure, kts, scanVars>>

\* The rows combine targets, feedbacks and kts by their index.
PrintFeedback ==
  /\ ~More
  /\ Goto("send", "print")
  /\ UNCHANGED motorVars

SleepControl ==
  /\ Goto("print", "loop")
  /\ UNCHANGED motorVars

-----------------------------------------------------------------------------
(* RunScan: one bus in the main thread, or one task per bus.               *)

Bus(S) == CHOOSE b \in S : TRUE
Wanted == IF single THEN {Bus(Buses)} ELSE Buses

ParseScan ==
  /\ job' = "scan"
  /\ single' \in BOOLEAN
  /\ \/ Goto("parse", "launch") /\ adapter' = "open"
     \/ Return("parse", 1) /\ adapter' = adapter
  /\ UNCHANGED <<readback, targets, configVars, controlVars, tasks, rows>>

\* std::async, one bus after the other; ScanBusAndFormatRows of the one bus.
LaunchScan ==
  LET waiting == {b \in Buses : tasks[b] = "none"} IN
  /\ waiting # {}
  /\ IF single
     THEN \/ rows' = Wanted /\ tasks' = tasks /\ Goto("launch", "close")
          \/ rows' = rows /\ tasks' = tasks /\ Goto("launch", "unwind")
     ELSE /\ tasks' = [tasks EXCEPT ![Bus(waiting)] = "running"]
          /\ rows' = rows
          /\ Goto("launch", IF waiting = {Bus(waiting)} THEN "collect" ELSE "launch")
  /\ UNCHANGED <<commandVars, configVars, controlVars, adapter>>

ScanTask(b) ==
  /\ ~Ended
  /\ tasks[b] = "running"
  /\ \E outcome \in {"found", "failed"} : tasks' = [tasks EXCEPT ![b] = outcome]
  /\ UNCHANGED <<processVars, commandVars, configVars, controlVars, rows, adapter>>

\* get() of the futures in the order of their launch; the first that throws
\* ends the command.
CollectScan ==
  LET left == Buses \ rows IN
  /\ IF left = {} THEN Goto("collect", "close") /\ rows' = rows
     ELSE \/ tasks[Bus(left)] = "found" /\ Goto("collect", "collect") /\ rows' = rows \cup {Bus(left)}
          \/ tasks[Bus(left)] = "failed" /\ Goto("collect", "unwind") /\ rows' = rows
  /\ UNCHANGED <<commandVars, configVars, controlVars, tasks, adapter>>

\* Mutation: the tasks are left to themselves.
UnwindScanAtOnce ==
  /\ Goto("unwind", "close")
  /\ UNCHANGED motorVars

\* The destructor of every future of std::async waits for its task.
UnwindScan ==
  /\ \A b \in Buses : tasks[b] # "running"
  /\ Goto("unwind", "close")
  /\ UNCHANGED motorVars

\* The adapter, declared before the tasks, goes last.
CloseScan ==
  /\ Return("close", IF rows = Wanted THEN 0 ELSE 1)
  /\ adapter' = "closed"
  /\ UNCHANGED <<commandVars, configVars, controlVars, tasks, rows>>

MotorMain ==
  \/ MotorParseFails \/ ParseMotor \/ ResolveFails \/ Resolve
  \/ InitTarget \/ SetTarget \/ GetTarget \/ TargetFails \/ AllServed
  \/ Prepare \/ Prepared \/ DriveLoop \/ SendControlCommand \/ PrintFeedback \/ SleepControl
  \/ ParseScan \/ LaunchScan \/ CollectScan \/ UnwindScan \/ CloseScan
  \/ Bracket /\ UNCHANGED motorVars

-----------------------------------------------------------------------------
(* Properties.                                                             *)

\* Whoever calls config, or control for a brake, from a script learns from
\* exit code 0 that every motor of the target acknowledged the setting and
\* was read back where it can be, and from 1 that some motor did not; with
\* several motors none is passed over because of another. (RunCli, RunControl)
ExitTellsOutcome ==
  (pc = "done" /\ job \in {"read", "write", "brake"} /\ targets # <<>>) =>
    LET done == (IF job = "read" THEN Motors ELSE written) \cap
                (IF job = "read" \/ readback THEN answered ELSE Motors)
    IN  /\ exit = 0 <=> ToSet(targets) \subseteq done
        /\ ~single => at > Len(targets)

\* control drives all motors of its target or none: no frame is sent before
\* every motor is ready, none after one has failed, and a printed row has
\* the feedback and the Kt of its own motor. (RunControl)
DriveIsAllOrNothing ==
  /\ driven # {} => kts = targets
  /\ broken => pc \in {"cook", "unguard", "done"}
  /\ pc = "print" => feedbacks = targets

\* The tasks of a scan use the adapter: it is closed only when none runs,
\* also when one of them has thrown; and exit code 0 means that every bus is
\* in the table. (RunScan)
ScanIsJoined ==
  /\ pc = "done" => \A b \in Buses : tasks[b] # "running"
  /\ (pc = "done" /\ job = "scan" /\ exit = 0) => rows = Wanted
=============================================================================
