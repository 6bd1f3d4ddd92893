------------------------------ MODULE Trajectory ------------------------------
(***************************************************************************)
(* trajectory_player.cc: where the motors of a trajectory are at a time    *)
(* after its start, once, or for ever forwards and backwards.              *)
(*                                                                         *)
(* A trajectory is a sequence of samples [time, pos] as the CSV parser     *)
(* accepts it: not empty, times strictly increasing, one position for each *)
(* column. Times and positions are integers and a quotient is rounded      *)
(* down, where the code uses floating point.                               *)
(***************************************************************************)
EXTENDS Integers, Sequences

\* ParseTrajectoryCsv and ValidateTrajectory.
IsTrajectory(samples, width) ==
  /\ samples \in Seq([time : Int, pos : Seq(Int)]) /\ samples # <<>>
  /\ \A i \in DOMAIN samples : Len(samples[i].pos) = width
  /\ \A i, j \in DOMAIN samples : i < j => samples[i].time < samples[j].time

FirstSample(samples) == samples[1]
LastSample(samples) == samples[Len(samples)]

\* Offset of sample i from the first one.
At(samples, i) == samples[i].time - samples[1].time
TotalDuration(samples) == At(samples, Len(samples))

\* The positions num / den of the way from one to another, 0 <= num <= den.
Between(from, to, num, den) ==
  [c \in DOMAIN from |-> from[c] + (((to[c] - from[c]) * num) \div den)]

TerminalState(sample, finished) == [pos |-> sample.pos, finished |-> finished]

InterpolateSegment(start, end, elapsed, duration) ==
  [pos |-> IF duration <= 0 THEN start.pos ELSE Between(start.pos, end.pos, elapsed, duration),
   finished |-> FALSE]

\* The first segment that has not ended.
EvaluateForward(samples, elapsed, finishedAtEnd) ==
  IF elapsed >= TotalDuration(samples) THEN TerminalState(LastSample(samples), finishedAtEnd)
  ELSE LET i == CHOOSE i \in 1..Len(samples) - 1 :
                  /\ elapsed <= At(samples, i + 1)
                  /\ \A j \in 1..i - 1 : elapsed > At(samples, j + 1)
       IN  InterpolateSegment(samples[i], samples[i + 1], elapsed - At(samples, i),
                              At(samples, i + 1) - At(samples, i))

\* Mutation: the walk back ignores the samples between.
BackwardFromStart(samples, elapsed) ==
  InterpolateSegment(LastSample(samples), FirstSample(samples), elapsed, TotalDuration(samples))

\* The same from the back, where the time since the turn is given; the
\* segments behind have been subtracted from it.
EvaluateBackward(samples, elapsed) ==
  LET n == Len(samples)
      Since(r) == At(samples, n) - At(samples, r)  \* from the turn to sample r
      r == CHOOSE r \in 2..n : /\ elapsed <= Since(r - 1)
                               /\ \A s \in r + 1..n : elapsed > Since(s - 1)
  IN  IF elapsed > Since(1) THEN TerminalState(FirstSample(samples), FALSE)
      ELSE InterpolateSegment(samples[r], samples[r - 1], elapsed - Since(r),
                              Since(r - 1) - Since(r))

EvaluateTrajectory(samples, elapsed, endless) ==
  LET total == TotalDuration(samples)
      e == IF elapsed < 0 THEN 0 ELSE elapsed
      cycle == e % (2 * total)
  IN  IF total <= 0 THEN TerminalState(FirstSample(samples), ~endless)
      ELSE IF ~endless THEN EvaluateForward(samples, e, TRUE)
      ELSE IF cycle <= total THEN EvaluateForward(samples, cycle, FALSE)
      ELSE EvaluateBackward(samples, cycle - total)

-----------------------------------------------------------------------------
(* What is meant: a polyline over time, folded back at both ends.          *)

Abs(x) == IF x < 0 THEN -x ELSE x

Folded(samples, elapsed, endless) ==
  LET total == TotalDuration(samples)
      cycle == elapsed % (2 * total)
  IN  IF total = 0 THEN 0
      ELSE IF ~endless THEN (IF elapsed < total THEN elapsed ELSE total)
      ELSE IF cycle <= total THEN cycle ELSE 2 * total - cycle

\* pos lies on the polyline at time tau, up to the rounding of a quotient.
IsOnPolyline(samples, tau, pos) ==
  \/ \E i \in DOMAIN samples : At(samples, i) = tau /\ samples[i].pos = pos
  \/ \E i \in 1..Len(samples) - 1 :
       LET span == At(samples, i + 1) - At(samples, i) IN
       /\ At(samples, i) < tau /\ tau < At(samples, i + 1)
       /\ \A c \in DOMAIN pos :
            Abs((pos[c] - samples[i].pos[c]) * span
                - (samples[i + 1].pos[c] - samples[i].pos[c]) * (tau - At(samples, i))) < span

=============================================================================
