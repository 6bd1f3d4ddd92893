# Verification of emcli

`emcli` is the command line and terminal interface for Encos motors. This directory holds TLA+
modules translated from its C++ sources, the TLC configurations that check them on small
instances, and TLAPS proofs for every value of the constants. `PROJECT.json` is the index: the
components, the runs, the source lines of every definition, the hazards and the theorems.

To check a run: `tlc -workers 2 -config MCPlayRunner.cfg MCPlayRunner`. To check the proofs:
`tlapm MotorScan_proofs.tla`. Paths below are relative to the root of the repository.

## 1. Inventory

| Component | State | Operations | Hard behaviour |
|---|---|---|---|
| Control runtime, control panel (`components/control_panel.cc`, `app_state.h`, `middle_panel.cc`) | `selected_motor_` and `control_command_`, one mutex each; refresh flag; `running_` | select, clear, Apply, refresh of the ranges, Start, Stop, the 100 ms worker | two reads under two locks; a command of one motor for another; late frames after a deselection; join |
| Left panel (`components/left_panel.cc`) | result and revision per bus, scan threads, count of global tasks, three atomic dialog flags, buttons with captured `Motor*` | ScanAll, ScanBus, Complete, Fail, press, expand, Add Adapter, Quit | threads against events and frames; deleted motors; a modal dialog that must close |
| Main loop (`main.cc`, RunTui) | screen, refresh thread | filter of events, frame, custom event, teardown | order of teardown; exceptions from handlers |
| Settings panel (`components/settings_panel.cc`) | text of the editors, `rescan_request` | read and write of one motor parameter each, CAN ID | one request slot; `uint16_t` conversions |
| Graph runtime (`components/graph_panel.cc`) | type, 600 samples, `running_` | Start, Stop, ClearData, the 50 ms worker | a sample of the old type after the clear; folding of the position |
| Play runner (`src/cli/play.cc`) | stop counter, pause flag and clock, phase, logs | Run, signals, keys, log toggle, status thread | four writers of one counter; pause against stop; partial failure of logs |
| Play helpers (`src/cli/play.cc`) | loss window, scroll, order of the table | ticks, loss window, sorting, menu | overruns; counter resets |
| Trajectory player and CSV (`src/trajectory_player.cc`, `src/*csv*.cc`) | none | evaluation forward, backward, endless; parsing | turning points and the wrap; ids that are cut to 16 bits |
| Stress (`src/cli/stress.cc`) | sent and received per motor, two flags | senders, callbacks, report, drain | counters read one by one; replies after the end; a Ctrl-C before the flag is cleared; an exception in a sender |
| Bench (`src/cli/bench.cc`) | congestion thread, its delay, drop counters | cases, limits on drops | limits that change at a threshold; exceptions in, and past, a joinable thread |
| Config, control, scan (`main.cc`, `cli_command.cc`) | the motors of the target, in order | read, write with read-back, brake, drive, scan | several motors of which some fail; tasks that use a closed adapter |
| Sensors (`src/cli/imu.cc`, `battery.cc`, `pms.cc`, `glove.cc`) | stop flag, SIGINT handler, raw mode | single commands, display loop, calibration | Ctrl-C at any instruction; the terminal must be put back |
| Slave configuration (`src/cli/slave_config.cc`) | request id, UUID, socket or port | discovery, exchange, SET, CONFIG SAVE, REBOOT | loss, repetition and late answers; retransmission of commands that are carried out each time |
| Firmware download (`src/cli/firmware_download*.cc`) | status read first, path of the volume, deadlines | status, enter, find volume, write, confirm | rollback, power cuts, unanswered commands, another volume under the path, ports that cannot be told apart |
| Adapter options, parsing, help, platform, scripts | none | sequential | option inheritance |

How they interact. The terminal interface is one UI thread (events and frames), two workers
(control, graph), the refresh thread and one thread per bus being scanned. They share `AppState`:
the left panel writes the selection, both workers read it, the settings panel asks the left panel
for a rescan through `rescan_request`, and a rescan deletes motors whose pointers the selection
and the buttons hold. `play` is a control loop, a screen thread and signal handlers sharing one
counter. Every other command is one process with a main thread, a SIGINT handler that sets a flag
or kills, and the threads it starts itself: a task per bus (`scan`), a sender per adapter and the
driver's callbacks (`stress`), the congestion thread (`bench`). The slave configuration and the
firmware download are sequential programs against boards that act by themselves.

What makes each part correct:

- control: no motor is driven by a command meant for another; nothing is driven after Stop;
- left panel: buttons offer motors that exist; one scan per bus; the dialog opens and closes;
- play: a stop ends the run, an immediate stop is immediate, logs are closed; every motor found is
  driven or held; no jump in what is sent; a run ends where it began;
- commands: the terminal is put back, the exit code tells the outcome for every motor, control
  drives all or none, a report shows no loss that did not happen, every command ends;
- slave configuration: one board, the commands in order, success means saved and a restart accepted;
- firmware download: success means the new firmware runs confirmed, on the right gateway.

## 2. Modules

### ControlRuntime (control panel and worker)

`selected` is `AppState::selected_motor_`. A `SelectedMotor` is a shared object compared by
address, so every click makes one with a new `id`. `command` is `control_command_` with the
selection it was applied under (`by`, a history). The four points of `ControlRuntime::RunLoop`
are the worker's `pc`: read the selection, read the command, adopt a new selection (which resets
the command to None), send. Every UI handler may run between any two of them. `Stop` and `Joined`
are the two halves of `ControlRuntime::Stop`, called when the interface closes. `lateId`, `fresh`
and `sent` are histories for the properties. The values of the sliders and the Brake buttons are
left out.

### GraphSampler (graph panel and worker)

`GraphRuntime::RunLoop` is split into reading the selection, clearing the data of another one,
reading the type, and appending the point (or none, when the parameter cannot be read); between
these the UI thread selects, changes tab or type, and draws. Drawing starts and stops the worker
when the tab changed (`DrawTab`, `Joined`) and sets the type and clears the data in two steps
(`SetThenClear`). A point carries the selection and the type it was read for. The range of the
axis is refreshed as in ControlRuntime and left out; RunTui ends with the same Stop.

### MotorScan (left panel, dialogs, main loop)

One thread per bus and scan (`workers`): `ScanMotors` under the lock of the bus, then for a global
scan `fetch_sub`, then for the last one the flag. The UI thread is in its events, at the start of
a frame, waiting for workers, launching them one by one, or drawing the overlay; `StartScan` is
ScanAll and ScanBus from the wait on, and `job` says which. A motor is known by its bus and the
revision of the scan that found it, so `live` (the motors the driver has) and `buttons` (the
pointers captured) can be compared. External: `ScanMotors` finds a motor, finds none, or throws;
and FTXUI's own Ctrl-C (`CtrlC`), which leaves the loop whether or not the dialog filters events.

### PlayRunner (play)

Run is split at each load of `g_play_stop_requests`; the status thread is the screen
(`RunTuiLoop`) or the text (`StatusLoop`). Time is counted in control ticks, and an iteration
takes 1 to `MaxOverrun` of them. Keys, the pause's load and store, SIGINT (plus one), SIGTERM
(two), a failing screen and failing opens and closes of logs are all interleaved. A frame that
throws leaves Run past the joinable status thread: `SendThrows` is the `std::terminate`, after which
nothing runs. The handlers the FTXUI loop installs for itself are external. A trajectory names at
least one motor (`trajectory_csv_parser.cc:72`), hence `Motors # {}`.

### Trajectory, PlayStart, PlayMotion and PlayTable (play)

`Trajectory` is `EvaluateTrajectory`: forward, backward and repeated, with integer times and
positions, and quotients rounded down. `IsTrajectory` is what the parser lets through. Beside it
stand `Folded` and `IsOnPolyline`, the reference it is checked against: time folded back and forth
on the polyline of the samples. `PlayStart` is `TrajectoryRunner::Initialize`: a context for each
column of the file (ids cut to `uint16_t`), a held motor for any other that was found, callbacks
that count for one or the other, and a failure of each step. The columns of a file are taken to
name different motors. `PlayMotion` extends it with `Run` as seen from the motors: one step is one
iteration, and `clock`, `tick` and `phaseStart` are the times the loop keeps. `played` and `frame`
are histories. What signals and keys do inside an iteration is in PlayRunner; here they come
between two. `PlayTable` is what the screen computes of the motors: `samples` is `samples_` of
`PlayLossWindow`, and `Before` is the comparison `SortPlayMotorSnapshots` gives to `std::sort`.
The loss counters are captured at times of their own; answers are stamped with the last capture,
which is as exact as the window is.

### Process, SensorCommands, MotorCommands, BenchRun, StressRun and Cli (commands)

`Process` is what the commands share: `pc` of the main thread, exit code, what SIGINT does
(`handler`), `g_stop_requested` (`stopFlag`) and the terminal. The modules of the commands extend
it with the state of one command each, and `Cli` is `Run` of `main.cc`, which hands the process to
one of them. `SensorCommands` has the commands sent once, the display loop and the wait of the
glove's calibration. `MotorCommands` has the loops over the motors of a target, with a failure of
every call, and the tasks of `scan`. `StressRun` splits the sender, the callback and
`AggregateAll` at every counter. A callback is entered, loads `measurement_active` and counts in
three steps, and may still do so when the command has returned; it then loads a local that is gone,
and may see anything. `BenchRun` splits the cases at every sample, and the congestion thread at its
sleep. `pc = "terminated"` is `std::terminate`: of an exception past the joinable congestion thread,
in that thread (`CongestThrows`), or in a sender of stress (`SenderThrows`), which leaves the
alternate screen on. In stress the counters are relaxed atomics; they are loaded in the order of the
program.

### OtaDownload and OtaPromise (firmware download)

`Download` is `DownloadFirmware` step by step; `StatusOf`, `OtaConfirmed` and `CheckOtaResult` are
its checks. Each gateway is external: it leaves the application, installs a complete package in the
other slot, starts it on trial, confirms or rolls back, and may lose its power at any step. What the
command finds is a path (`found`), a mount point or drive letter. `mount` says which gateway's volume
was last mounted there, and `Remount`, the automounter or the user, may change it at any step, also
between the second look (`RecheckVolume`) and the opening of the file (`WritePackage`), which writes
to whatever is there; `remounted` is the history of that. A mount of a volume that is gone is in the
model too, since the write that follows may fail or go to a plain directory. `ports` is what
`FindPort` meets: one port, several, or an error of the directory; the last two leave the wait,
which only protects the command. `OtaPromise` is what the command promises: it succeeds only if the
new firmware runs confirmed.

### SlaveUdp, SlaveCdc and SlaveWorkflow (slave configuration)

`SlaveWorkflow` is the abstract promise: SET, CONFIG SAVE, REBOOT are carried out in this order,
none before the one in front of it, and success means all of them. `SlaveUdp` implements it over a
network that keeps every datagram ever sent and delivers any of them at any time, any number of
times; `SlaveCdc` over a serial line on which only the order of the answers says what they answer.
A board may refuse any command (`README.md:404`). What it does at once on REBOOT is to answer and to
make a restart `due`; the restart itself (`Reboot`) comes when it comes, since OK REBOOT says only
that the board has accepted it (`README.md:405-406`).

### MC modules and proofs

`MC<Module>` names the model values and functions of the instance, nothing else.
`MCPlayMotion` puts PlayMotion and the two halves of PlayTable beside each other (`scenario`): they
share no state, and a product would only multiply them. `<Module>_proofs` extends its module and
TLAPS; `SlaveConfig_proofs` is about SlaveUdp and SlaveCdc, `PlayMotion_proofs` about PlayTable
too, and `Cli_proofs` about the modules of the commands that Cli extends. Definitions whose comment
begins with "Mutation" are plausible errors of the code; each property has one that breaks it
(`mutants` in PROJECT.json).

## 3. Runs

| Run | Question | Properties | Bounds |
|---|---|---|---|
| control | Is a motor driven only by commands meant for it? | 2 invariants, 3 action and 1 liveness property | 2 motors, one mode besides None, 3 selections |
| motor_scan | Do threads, flag, buttons and dialog agree? | 4 invariants | 2 adapters, 3 buses, 3 scans asked for |
| motor_scan_liveness | Does the dialog close, and is every request served? | 1 liveness property | 2 buses, 4 scans |
| motor_scan_rescan | A documented promise that fails | 1 invariant | 2 buses, 3 scans |
| graph | Is the graph of one motor and of one type? | 2 invariants | 2 graph types, 3 points, 3 selections |
| play | Are stops obeyed and logs closed? | 1 invariant, 1 action and 1 liveness property | 2 motors, phases of 1 and 2 ticks, overrun 2, 3 inputs |
| play_motion | Is what play sends and shows right? | 4 invariants, 2 action properties | 2 motors, files of 3 and 1 samples, time 10, busy and late by 1, 2 keys; 3 rows, 4 captures, window 3 |
| ota_download | Is the new firmware on the right gateway, and in use? | 2 invariants, 1 action, 1 liveness property, OtaPromise | 2 gateways, 2 paths, 2 polls, 2 power cuts, version limit 2 |
| slave_udp | Is one board configured, in order, whatever the network does? | 2 invariants, 1 liveness property, SlaveWorkflow | 2 boards, 2 sends, 1 restart |
| slave_cdc | Is the workflow kept when nothing is owed? | SlaveWorkflow | 5 invocations, each after the board has answered |
| slave_cdc_late | A documented promise that fails | 1 invariant | 2 invocations, late answers |
| cli_commands | Do the commands end, report truly and leave the terminal as it was? | 7 invariants (one of types), 1 liveness property | 2 motors on 2 buses and 2 adapters, 2 polls, 2 delays, 4 samples, threshold 3 with 2 drops below and a third above, 2 rounds |

Why the bounds are enough. `control`: the worker holds at most two selections (`wsel`, `last`)
besides the current one, so three tell apart "older", "held" and "current"; two of them may be of
one motor. `motor_scan`: two buses of one adapter and one of another make a global scan of
several threads, a scan of one bus and an added adapter meet; the third scan meets threads and
lists left by two earlier ones. The liveness run trades a bus for a scan, so that the adapter
added and the bus rescanned in one frame are followed by another. `graph`: three
selections as for `control`; three points are an oldest, a middle and a newest, and a fourth one
makes room. `play`: three inputs are a stop,
a second stop and one key between them; with an overrun of 2 a phase of 1 tick is overshot and a
phase of 2 met exactly. `ota_download`: two power cuts hit an installation and the trial after it;
two paths make two mounts of one volume, and an exchange of the volumes of both gateways; version
limit 2 leaves versions below, at and one under the limit. `slave_udp`: two sends make one
retransmission, and every copy stays in the network, so more sends add no new datagram: requests
of one exchange are equal. `slave_cdc`: with the port flushed and nothing owed each run starts as
the first does. `play_motion`: the first file has both directions of both motors and segments of
different length, so that a turn, a wrap and a phase that ends inside an iteration all happen
before time 10; the second has one sample and a column whose id is cut (9 is motor 1), and leaves
the other motor to be held. `cli_commands`: two motors are one that fails and one that must not be
passed over; 4 samples with a threshold of 3 are on both sides of it, and two drops, allowed below
it, are above the rate of one in three when the third packet is a good one: the limits of bench
need not fit each other; in 2 rounds a sender is stopped in and between rounds; two delays tell the
first from a later congestion case.

The two violations are findings about the code:

- **motor_scan_rescan**: a rescan of one bus (after a new CAN ID) clears the selection and deletes
  the motors, but the buttons made earlier stay in the list while the bus is Scanning and still
  take events; a press selects a deleted motor again (`components/left_panel.cc:211`, 238-248),
  against `tests/left_panel_test.cc:59`.
- **slave_cdc_late**: answers over CDC carry no id and the port is flushed only when opened, so an
  answer later than 3 s from an earlier invocation shifts all answers by one, and REBOOT is
  written before the refusal of CONFIG SAVE is read, against `README.md:405` and
  `tests/slave_cdc_integration.py:30`.

### Fairness

- `ControlRuntime`: weak fairness of the worker (a running thread) and of the return of join.
- `MotorScan`: weak fairness of the scan threads (`ScanMotors` returns) and of the frame: FTXUI's
  RunOnce handles the events at hand and then draws, so events do not put frames off for ever. No
  fairness of any event of the user.
- `PlayRunner`: weak fairness of the control loop and of the status thread, two running threads.
  None of keys or signals.
- `OtaDownload`, `SlaveUdp`: weak fairness of the command alone. Nothing is assumed of boards or
  network, so the deadlines must end the waits.
- `Cli`: weak fairness of the main thread, the tasks of a scan, the congestion thread and each
  sender: threads run, and the calls of the driver return. None of Ctrl-C, keys, answers or
  callbacks. `CommandsEnd` therefore asks of a displaying or driving command only that it ends
  after Ctrl-C. stress clears its flag after it has installed its handler (`stress.cc:625`, 631)
  and loses a Ctrl-C in between; the property excepts exactly that place.
- `GraphSampler`, `SlaveCdc`, `PlayMotion`: none; they check safety only.

## 4. Proofs

Assumed are only the ASSUMEs of the modules (a null motor is no motor, the motors and the rows are
finitely many, bounds are natural numbers, the target is one of the boards, a file is what the
parser lets through), which TLC evaluates in the runs.

**ControlRuntime_proofs**: type correctness, `SettledFramesAreOwn`, `RangesAreOfSelected`,
`AdoptedCommandIsKept`, `LateFrameAtMostOnce` and `QuietAfterStop`, for any motors, modes and
number of selections. The two about late frames look at the step that sends (`FrameLeaves`), so that
a frame equal to the one before counts. `SettledFramesAreOwn` is not inductive: that the command is of the adopted
motor depends on no older selection coming back. `IInv` therefore adds `InOrder` (ids are handed
out in order and what the worker holds is not newer than what is selected), `LateIsOld`,
`Control`, and `AdoptedCommandIsOwn`: once the worker has adopted the selection, a command that is
not None was applied under it, because adopting reset the older one.

**GraphSampler_proofs**: type correctness with the bound of the data, `GraphIsOfOneMotor` and
`OddPointIsOldest`, for any types, bound and number of selections. The strengthening says that a
worker past its first step has only points of the selection it adopted (`PointsAreOfLast`) and
that a sample on its way that is not of the graph's type finds the data empty
(`OddSampleComesFirst`), because the type is set before the data is cleared.

**OtaDownload_proofs**: type correctness, `OnlyTargetIsWritten`, `RebootsOnlyIfInstallable`,
`NoEarlyGiveUp` and the refinement `KeepsPromise`, for any gateways, paths, deadlines, version limit
and power cuts. `OnlyTargetIsWritten` is what the second look gives and no more: another gateway gets
the package only if what is mounted at the path changed after it; until it is written, the volume
there is the target's (`PathIsChecked`). The refinement needs that a confirmed firmware in the other slot with the expected
version is the new one; it follows the confirmed firmware of the target. Before the flush no new
image exists (`NothingWrittenYet`); a confirmed firmware that is not new stays in the slot that was
read (`OldIsWhereItWas`); what is on trial during the update is the new image (`TrialIsNew`).

**MotorScan_proofs**: type correctness, `ScanFlagMatchesThreads`, `ScanThreadsAreOwned`,
`FreshButtonsAreLive` and `GlobalScanIsModal`, for any adapters, finite set of buses and number of
scans. Two facts carry it. A scan starts only after all threads were joined, so `workers` is empty
when the first of the new ones is launched, and each bus of the job is launched once (`WorkInv`,
`FlagInv`: one thread at most is about to lower the flag, and then the count is 0). And every scan
of a bus takes a new revision, so a list drawn earlier cannot pass for one of the new result
(`ListInv`). That revisions never pass the bound of the model needs `Budget`: a revision is left
for each scan that was asked for and not begun. Sums over sets of threads are reduced to
FiniteSetTheorems on adding and removing one element.

**PlayRunner_proofs**: type correctness, `LogsAreAccounted` and `StopsAreObeyed`, for any motors,
phases, overrun and inputs. The logs change only in `DisableLogs` and `EnableLogs`, and in Run only
once the status thread has ended (`ScreenInv`). Each of the three loads of the stop counter leaves a
fact that no other thread can take back before the frame (`LoopInv`), since `late` is set by the
loop alone.

**PlayMotion_proofs** (PlayStart, Trajectory, PlayMotion): `MotorsAreAccounted`,
`PauseStopsTheClock`, `ReturnsHome`, `TracksTrajectory` and `MotionIsSmooth`, for any files, motors,
periods, delays and readings. `StartInv` says how far Initialize has come; the callbacks that count
are those of the monitored motors (`CallbackInv`); the way back starts and ends at readings of all
columns (`WayInv`), and at its end a quotient of equal numbers leaves nothing to round (`WayEnds`).
That the last frame of a playback is the last sample is `EndsAtLast`.

- *On the trajectory.* The code looks for a segment from the front on the way there and from the
  back on the way back. Of the segments that have not ended there is a first one (`Least`), and it
  has begun; so either walk stops on a segment that contains the folded time, reckoned from one of
  its ends (`Reaches`), and a quotient that is rounded down is within one of the line through both
  (`OnWay`).
- *Smooth.* `WithinSpeed` asks for one segment whose speed explains a change. Suppose none does and
  the change is of C + 1. Then every segment goes at most C in the time between the frames (`Slow`).
  Between two samples no more is possible, else there would be a first sample reached too fast
  (`BetweenSamples`); a point inside a segment adds less than one for its rounding, which both ends
  of the interval share (`TwoPoints`); and folding the time takes nothing faster through it, over
  any number of turns (`FoldedIsSlow`). So the change is below C + 1 (`EvaluatesSmoothly`). The
  startup and the way back are one segment each (`WayIsSmooth`). That frames of different phases
  follow each other needs a second invariant over `IInv`, `FollowInv`: the last frame is where the
  clock had the motors on the way they are on, and each way begins where the last one ended.

**PlayMotion_proofs** (PlayTable): `ScreenIsRight`, for any finite set of rows, any values and any
length of the window. The comparison given to `std::sort` is a strict total order: each column
compares one number or one fraction of a row, missing values go last, ties go by the id
(`BeforeIsOrder`). So each row has its own number of rows before it, and the rows can be placed by
it (`SortedIs`). For the window, what a sample holds was counted before it was taken, and what was
counted later is not older than it (`SamplesAreTrue`); the list that is kept begins with a sample
inside the window, so the difference shown counts nothing older (`DifferenceIsRecent`).

**Cli_proofs**: all the invariants of `cli_commands` - the types, `TerminalIsRestored`,
`ExitTellsOutcome`, `DriveIsAllOrNothing`, `ScanIsJoined`, `BenchVerdict` and `ReportsAreTrue` -
for any finite set of motors, any buses and adapters, any limits of bench and bounds of
stress. A process runs one command, so `IInv` is the invariant of the command that runs and the
initial state of the variables of the others (`Places` of Cli says which points of the main thread
belong to which command).

- *config and control.* Motors are served in the order of the target; a failure names a motor that
  was passed and stays unserved (`ServedInv`). What is ready and what has answered are prefixes of
  the targets (`DriveInv`).
- *terminal.* Every end but one has put it back. The exception is stated in `TerminalIsRestored`: a
  sender of stress that throws ends the process with the alternate screen on.
- *bench.* The limits are looked at only when a packet is dropped. A good packet may reach the
  threshold, where the limit by count gives way to the rate, and nothing compares the two: with
  `--max-drop-count-before-threshold 6` and the other defaults, 6 drops of 49 packets and a good one
  stand at 12 %, above the 10 % allowed of a long case, and the case goes on. So `BenchVerdict` says
  of a case that was not given up that it has no more drops than a short case may have, or stands
  within the rate of a long one, and that is proved with no assumption that the options fit.
- *stress.* Of one motor every frame is counted, answered or open at every step of every thread
  (`FrameInv`). A report adds up counters one at a time while callbacks still count, so `ReadInv`
  bounds what has been read plus what the remaining counters say now: once the senders have ended,
  a reading can only lag behind the answers. `Total` is the number of the frames counted of some
  motors, a cardinality, reduced to adding and taking away one motor.

**SlaveConfig_proofs**, SlaveUdp: type correctness, `OneBoardIsConfigured`, `SuccessIsSaved` and the
refinement `KeepsOrder` of SlaveWorkflow, for any boards, sends and restarts. The request id tells
which command a datagram stands for, however late it comes, and the UUID which board (`NetInv`);
the command in front of the present one has been carried out, because its id was answered
(`OrderInv`); so a late copy repeats what is done (`BoardInv`), and a step of the board is the next
command of the workflow or a stutter.

**SlaveConfig_proofs**, SlaveCdc: the same refinement over CDC, for any number of runs, under the
hypothesis that the board has answered all that one run asked before the next one begins
(`AnswersLate = FALSE`). Then at most one command is without its answer, and it is the present one
(`CdcInv`), so an answer that carries no id still answers the right command. From it follows that
only late answers break the promise that `slave_cdc_late` shows broken (`OnlyLateAnswersReboot`).

The inductive invariants were checked with TLC before they were proved.

Only model-checked: the liveness properties `AppliedCommandIsSent`, `ScansAreServed`, `RunEnds`,
`DownloadEnds`, `ConfigEnds` and `CommandsEnd`, since fairness and ENABLED are beyond the proof
system here. Every other property of a passing run is also a theorem. Induction over data and
RECURSIVE operators are beyond the proof system too: no module uses the latter, and where an
argument goes along a trajectory or a list it is put as one about a least counterexample. The two
violations are TLC's.

## 5. Not modelled

- ControlRuntime, GraphSampler and MotorScan are separate: what a worker does with a motor that a
  rescan deletes under it is up to the driver, whose object the pointer is to. Listed as a hazard.
- Exceptions of the driver that leave a handler of the terminal interface: they end the process
  (`std::terminate`), a hazard that no property covers yet. Those in play, bench and stress are
  modelled. SIGTERM outside play ends the process at once, as by default.
- The port that `FindPort` returns (`firmware_download_platform.cc:339`) and the port of the command
  line are taken to be still the gateway's when `Command` opens them; only the path of the volume may
  change hands. The bits that enable and disable PMS channels are the driver's.
- A motor that control has already driven is not stopped when another one fails: the code does not
  stop it, and `DriveIsAllOrNothing` is about frames only.
- The read-only monitor and the calibration of play, the scroll and the menu of its table;
  degrees and radians.
- The list of interfaces in the Add Adapter dialog; the editors of the settings panel other than
  the CAN ID; the Brake buttons and the sliders; the axes and the drawing of the graph: each reads
  and writes one value on the UI thread.
- The broadcast scan for slaves and `list`: abstracted to their exit codes.
- ELF and package formats, SHA-256, USB device lookup: abstracted to accept or refuse.
- Adapter and timing options, parsers, help, reports, platform queries, scripts: text or I/O
  without state of their own. What they refuse are the parse failures of Cli.

## 6. Plan

Done: the core of the terminal interface (ControlRuntime, GraphSampler, MotorScan), play
(PlayRunner, then PlayStart, Trajectory, PlayMotion, PlayTable), the updates of boards
(OtaDownload, SlaveUdp, SlaveCdc), the commands (Process, SensorCommands, MotorCommands, BenchRun,
StressRun, Cli), and a theorem for every property of these runs but liveness.

Left, in this order:

1. Tui: ControlRuntime, GraphSampler and MotorScan composed over one `AppState`, with exceptions
   that leave a handler; the proofs of its parts carry over as lemmas.
2. SlaveDiscovery (several answers, conflicts) and the `uint16_t` editors of the settings panel.
3. Proofs: that the parts of Tui implement ControlRuntime, GraphSampler and MotorScan.
