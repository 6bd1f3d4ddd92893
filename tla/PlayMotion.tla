------------------------------- MODULE PlayMotion -------------------------------
(***************************************************************************)
(* The positions emcli play sends (TrajectoryRunner::Run): from where the  *)
(* motors are to the first sample, along the trajectory, and back to where *)
(* they were when the trajectory has ended or a signal asks for it; with a *)
(* pause that stops the clock of all of this.                              *)
(*                                                                         *)
(* One step is one iteration of the control loop, at the time now.         *)
(* PlayRunner has what signals and keys do inside an iteration.            *)
(***************************************************************************)
EXTENDS PlayStart

CONSTANTS
  Period,       \* control_period_
  StartTicks,   \* kStartupTransitionDuration
  ReturnTicks,  \* kReturnTransitionDuration
  MaxBusy,      \* bound: what an iteration takes
  MaxLate,      \* bound: how late a sleep ends
  MaxTime,      \* bound: the time iterations begin at
  MaxKeys       \* bound: presses of the pause key

ASSUME MotionAssumption ==
  /\ {Period, StartTicks, ReturnTicks} \subseteq Nat \ {0}
  /\ {MaxBusy, MaxLate, MaxTime, MaxKeys} \subseteq Nat

VARIABLES
  stops,       \* g_play_stop_requests
  pauseKey,    \* playback_paused_
  clock,       \* PlayPauseClock: [paused, since, total]
  tick,        \* next_tick
  now,         \* when the iteration begins
  phase,       \* "startup", "playback", "returning"
  phaseStart, trajStart,  \* phase_start_time, trajectory_start_time
  returnFrom,  \* return_start_positions_rad
  frame,       \* the last frame: [phase, played, pos]
  played,      \* history: the time that was not paused
  keys         \* how often the pause key was pressed

timeVars == <<clock, tick, now, played>>
motionVars == <<stops, pauseKey, timeVars, phase, phaseStart, trajStart, returnFrom, frame, keys>>

MotionInit ==
  /\ stops = 0 /\ pauseKey = FALSE
  /\ clock = [paused |-> FALSE, since |-> 0, total |-> 0]
  /\ tick = 0 /\ now = 0 /\ played = 0
  /\ phase = "startup" /\ phaseStart = 0 /\ trajStart = 0
  /\ returnFrom = <<>>
  /\ frame = [phase |-> "startup", played |-> 0, pos |-> <<>>]
  /\ keys = 0

MotionTypeOK ==
  /\ stops \in 0..2 /\ pauseKey \in BOOLEAN
  /\ clock \in [paused : BOOLEAN, since : Nat, total : Nat]
  /\ {tick, now, played, phaseStart, trajStart} \subseteq Nat
  /\ phase \in {"startup", "playback", "returning"}
  /\ keys \in 0..MaxKeys

-----------------------------------------------------------------------------
\* The time the clock of the playback shows at t.
PlayNow(c, t) == (IF c.paused THEN c.since ELSE t) - c.total

\* Mutation: a pause that ends is not subtracted.
ForgetPause(c, requested, t) ==
  IF requested /\ ~c.paused THEN [c EXCEPT !.paused = TRUE, !.since = t]
  ELSE [c EXCEPT !.paused = requested]

UpdatePlayPauseClock(c, requested, t) ==
  IF requested /\ ~c.paused THEN [c EXCEPT !.paused = TRUE, !.since = t]
  ELSE IF ~requested /\ c.paused
  THEN [c EXCEPT !.paused = FALSE, !.total = c.total + (t - c.since)]
  ELSE c

\* A deadline that has passed is not made up for.
NextPlayControlTick(previous, t) == IF previous + Period > t THEN previous + Period ELSE t

\* Mutation: a late frame is sent past the end of the way.
Extrapolate(from, to, elapsed, duration) == Between(from, to, elapsed, duration)

\* The part of the way that has passed, at most all of it.
InterpolatePositions(from, to, elapsed, duration) ==
  Between(from, to, IF elapsed > duration THEN duration ELSE elapsed, duration)

-----------------------------------------------------------------------------
\* ReadCurrentPositions of the motors of the columns.
PositionsRead == [DOMAIN driven -> Readings]

ReadInitialPositions ==
  /\ pc = "read"
  /\ \E p \in PositionsRead : initial' = p /\ frame' = [frame EXCEPT !.pos = p]
  /\ Enter("loop")
  /\ UNCHANGED <<found, driven, held, monitored, callback>>
  /\ UNCHANGED <<stops, pauseKey, timeVars, phase, phaseStart, trajStart, returnFrom, keys>>

\* An iteration begins: a stop ends the pause, and the key may be pressed
\* once more before the clock looks at it.
Look ==
  /\ pc = "loop" /\ stops < 2 /\ now < MaxTime
  /\ IF stops = 0 THEN UNCHANGED <<pauseKey, keys>>
     ELSE \/ pauseKey' = FALSE /\ UNCHANGED keys
          \/ keys < MaxKeys /\ pauseKey' = TRUE /\ keys' = keys + 1
  /\ clock' = UpdatePlayPauseClock(clock, pauseKey', now)
  /\ UNCHANGED <<file, endless, dryRun, exit, found, driven, held, monitored, callback, initial>>

\* An iteration ends and the next one begins.
Sleep ==
  /\ pc' = pc
  /\ \E end \in now..now + MaxBusy : tick' = NextPlayControlTick(tick, end)
  /\ \E late \in 0..MaxLate : now' = tick' + late
  /\ played' = played + (IF clock'.paused THEN 0 ELSE now' - now)

\* SendPositions and SendInterpolatedPositions; every held motor gets its
\* position with each of them.
Send(kind, pos) == frame' = [phase |-> kind, played |-> played, pos |-> pos]

Startup ==
  /\ phase = "startup" /\ stops = 0
  /\ Look
  /\ LET t == PlayNow(clock', now)
         arrived == t - phaseStart >= StartTicks
     IN  /\ Send("startup", InterpolatePositions(initial, FirstSample(file.samples).pos,
                                                 t - phaseStart, StartTicks))
         /\ phase' = IF arrived THEN "playback" ELSE phase
         /\ trajStart' = IF arrived THEN t ELSE trajStart
  /\ Sleep
  /\ UNCHANGED <<stops, phaseStart, returnFrom>>

\* Mutation: a run without --endless returns before the trajectory has ended.
ShouldReturnEarly(state, forEver) == ~forEver

ShouldReturnToInitialPosition(state, forEver) == state.finished /\ ~forEver

Playback ==
  /\ phase = "playback" /\ stops = 0
  /\ Look
  /\ LET t == PlayNow(clock', now)
         state == EvaluateTrajectory(file.samples, t - trajStart, endless)
         over == ShouldReturnToInitialPosition(state, endless)
     IN  /\ Send("playback", state.pos)
         /\ returnFrom' = IF over THEN state.pos ELSE returnFrom
         /\ phase' = IF over THEN "returning" ELSE phase
         /\ phaseStart' = IF over THEN t ELSE phaseStart
  /\ Sleep
  /\ UNCHANGED <<stops, trajStart>>

\* A signal: back from where the motors are. If that cannot be read, the run
\* breaks off.
StopPlayback ==
  /\ phase # "returning" /\ stops = 1
  /\ Look
  /\ \/ /\ returnFrom' \in PositionsRead
        /\ phase' = "returning"
        /\ phaseStart' = PlayNow(clock', now)
        /\ Send("returning", returnFrom')
        /\ Sleep
        /\ UNCHANGED <<stops, trajStart>>
     \/ /\ stops' = 2
        /\ pc' = "drain"
        /\ UNCHANGED <<tick, now, played, phase, phaseStart, trajStart, returnFrom, frame>>

Return ==
  /\ phase = "returning" /\ UNCHANGED phase
  /\ Look
  /\ LET t == PlayNow(clock', now) IN
       /\ Send("returning", InterpolatePositions(returnFrom, initial, t - phaseStart, ReturnTicks))
       /\ IF t - phaseStart >= ReturnTicks
          THEN pc' = "drain" /\ stops' = 2 /\ UNCHANGED <<tick, now, played>>
          ELSE Sleep /\ UNCHANGED stops
  /\ UNCHANGED <<phaseStart, trajStart, returnFrom>>

LeaveLoop ==
  /\ pc = "loop" /\ stops = 2
  /\ Enter("drain")
  /\ UNCHANGED <<found, driven, held, monitored, callback, initial, motionVars>>

\* The report, then the callbacks and the logs.
Finish ==
  /\ pc = "drain"
  /\ pc' = "done" /\ exit' \in {0, 1}
  /\ DisableStressCallbacks
  /\ UNCHANGED <<file, endless, dryRun, found, driven, held, monitored, initial, motionVars>>

TogglePause ==
  /\ pc = "loop" /\ stops = 0 /\ keys < MaxKeys
  /\ pauseKey' = ~pauseKey /\ keys' = keys + 1
  /\ UNCHANGED <<startVars, stops, timeVars, phase, phaseStart, trajStart, returnFrom, frame>>

\* SIGINT and the q key add a request, SIGTERM makes it two.
Interrupt ==
  /\ pc = "loop" /\ stops < 2
  /\ stops' \in {stops + 1, 2}
  /\ UNCHANGED <<startVars, pauseKey, timeVars, phase, phaseStart, trajStart, returnFrom, frame, keys>>

Done == pc = "done" /\ UNCHANGED <<startVars, motionVars>>

PlayInit == StartInit /\ MotionInit

PlayNext ==
  \/ StartNext /\ UNCHANGED motionVars
  \/ Fail("read") /\ UNCHANGED motionVars
  \/ ReadInitialPositions
  \/ Startup \/ Playback \/ StopPlayback \/ Return
  \/ TogglePause \/ Interrupt
  \/ LeaveLoop \/ Finish \/ Done

PlaySpec == PlayInit /\ [][PlayNext]_<<startVars, motionVars>>

-----------------------------------------------------------------------------
(* Properties.                                                             *)

\* However often play is paused and goes on, the clock that all positions
\* are computed from shows exactly the time that was not paused, so that the
\* playback goes on where it stopped. (UpdatePlayPauseClock)
PauseStopsTheClock == PlayNow(clock, now) = played

\* Of a column: what a change of the position takes at the speed of a way of
\* length dist in the given ticks, with one for the rounding.
WithinSpeed(change, dist, ticks, dt) == Abs(change) * ticks < Abs(dist) * dt + ticks

\* A frame continues the one before it: over a change of phase, an
\* iteration that took long and any number of pauses, no motor is sent
\* further than it moves in the time between on the way it is on. A stop
\* begins where the motor was just read. (Run, EvaluateTrajectory)
Continues(before, after) ==
  LET dt == after.played - before.played
      from == IF after.phase = "returning" /\ before.phase # "returning" /\ stops = 1
              THEN returnFrom' ELSE before.pos
  IN  \A c \in DOMAIN after.pos :
        LET change == after.pos[c] - from[c] IN
        CASE after.phase = "startup" ->
               WithinSpeed(change, FirstSample(file.samples).pos[c] - initial[c], StartTicks, dt)
          [] after.phase = "returning" ->
               WithinSpeed(change, initial[c] - returnFrom'[c], ReturnTicks, dt)
          [] after.phase = "playback" ->
               \E i \in 1..Len(file.samples) :
                 IF i = Len(file.samples) THEN change = 0
                 ELSE WithinSpeed(change, file.samples[i + 1].pos[c] - file.samples[i].pos[c],
                                  file.samples[i + 1].time - file.samples[i].time, dt)

MotionIsSmooth == [][frame' # frame /\ pc = "loop" => Continues(frame, frame')]_frame

\* A frame of the playback is where the file has the motors at that time,
\* counted from the first frame of the playback without the pauses, once or
\* forwards and backwards without end. (EvaluateTrajectory)
TracksTrajectory ==
  frame.phase = "playback" =>
    IsOnPolyline(file.samples, Folded(file.samples, frame.played - trajStart, endless), frame.pos)

\* Nothing but a signal or the end of the file ends a playback, and the last
\* sample has then been sent; --endless has no end. A run that has begun to
\* return and gets no second request ends with the motors sent to where they
\* were when it began. (Run)
ReturnsHome ==
  [][/\ phase # "returning" /\ phase' = "returning" /\ stops = 0 =>
          /\ ~endless
          /\ frame'.phase = "playback" /\ frame'.pos = LastSample(file.samples).pos
     /\ phase = "returning" /\ pc = "loop" /\ pc' = "drain" /\ stops < 2 =>
          frame'.pos = initial]_<<phase, pc, stops, frame>>
=============================================================================
