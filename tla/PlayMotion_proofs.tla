-------------------------- MODULE PlayMotion_proofs --------------------------
(***************************************************************************)
(* Machine-checked proofs about emcli play, for all trajectories, motors,  *)
(* periods and delays: every motor that was found is accounted for, the    *)
(* clock of the playback shows the time that was not paused, every frame   *)
(* of a playback is on the trajectory, no motor is sent further than it    *)
(* moves in the time, and the motors are sent back to where they were.     *)
(* Beside them the screen thread: what it shows of the losses is recent,   *)
(* and its rows are in order.                                              *)
(***************************************************************************)
EXTENDS PlayMotion, PlayTable, FiniteSetTheorems, WellFoundedInduction, TLAPS

Driven == {driven[c] : c \in 1..Len(driven)}
Width0 == Len(file.columns)

(* What Initialize has set up so far. *)
StartInv ==
  /\ file \in Files /\ endless \in BOOLEAN /\ found \subseteq Motors
  /\ driven \in Seq(Motors) /\ Len(driven) <= Width0
  /\ \A c \in 1..Len(driven) : driven[c] = Connection(c) /\ driven[c] \in found
  /\ pc \in {"hold", "logs", "read", "loop", "drain"} => Len(driven) = Width0
  /\ pc \in {"parse", "open", "scan"} => Len(driven) = 0
  /\ pc \in {"parse", "open", "scan", "bind"} => DOMAIN held = {}
  /\ DOMAIN held \subseteq found /\ Driven \cap DOMAIN held = {}
  /\ pc \in {"logs", "read", "loop", "drain"} => found \subseteq Driven \cup DOMAIN held

(* The callbacks are those of the monitored motors. *)
CallbackInv ==
  /\ callback \in [Motors -> Int]
  /\ monitored = Driven \cup DOMAIN held
  /\ pc # "done" => \A m \in Motors : callback[m] # 0 <=> m \in monitored
  /\ pc = "done" => /\ \A m \in monitored : callback[m] = 0
                    /\ \E x : \A m \in Motors : callback[m] # 0 => m = x

(* The clock. *)
ClockInv ==
  /\ clock \in [paused : BOOLEAN, since : Int, total : Int]
  /\ now \in Int /\ tick \in Int /\ played \in Int /\ pauseKey \in BOOLEAN
  /\ PauseStopsTheClock

(* The way back. *)
WayInv ==
  /\ phase \in {"startup", "playback", "returning"}
  /\ phaseStart \in Int /\ trajStart \in Int
  /\ pc \notin {"loop", "drain", "done"} => phase = "startup"
  /\ pc = "loop" => initial \in [1..Width0 -> Int]
  /\ pc = "loop" /\ phase = "returning" => returnFrom \in [1..Width0 -> Int]

(* The frame of a playback; its time starts with it.                       *)
TrackInv ==
  /\ trajStart <= played
  /\ DOMAIN frame = {"phase", "played", "pos"}
  /\ frame.phase = "playback" => phase # "startup" /\ TracksTrajectory

IInv == StartInv /\ CallbackInv /\ ClockInv /\ WayInv /\ TrackInv

allVars == <<startVars, motionVars>>

-----------------------------------------------------------------------------
(* Trajectories: quotients, the polyline and its evaluation.               *)

(* A quotient rounds down. *)
LEMMA Remainder ==
  ASSUME NEW x \in Int, NEW d \in Nat \ {0}
  PROVE  /\ x \div d \in Int
         /\ (x \div d) * d <= x /\ x < (x \div d) * d + d
OBVIOUS

(* A multiple divided by its factor. *)
LEMMA Quotient ==
  ASSUME NEW x \in Int, NEW d \in Nat \ {0}
  PROVE  (x * d) \div d = x
OBVIOUS

(* Of some numbers one is the least. *)
LEMMA Least ==
  ASSUME NEW T \in SUBSET Nat, T # {}
  PROVE  \E x \in T : \A y \in T : x <= y
<1>1. PICK x \in T : \A y \in T : ~(<<y, x>> \in OpToRel(<, Nat))
  BY NatLessThanWellFounded, WFMin, Zenon
<1>2. \A y \in T : ~(y < x)
  BY <1>1, Zenon DEF OpToRel
<1> QED
  BY <1>2

(* What IsTrajectory says of offsets and positions. *)
LEMMA Offsets ==
  ASSUME NEW s, NEW w \in Nat, IsTrajectory(s, w)
  PROVE  /\ Len(s) \in Nat \ {0} /\ DOMAIN s = 1..Len(s)
         /\ \A i \in 1..Len(s) : s[i].pos \in [1..w -> Int] /\ s[i].time \in Int /\ At(s, i) \in Int
         /\ \A i, j \in 1..Len(s) : i < j => At(s, i) < At(s, j)
         /\ At(s, 1) = 0
         /\ TotalDuration(s) = At(s, Len(s))
<1> DEFINE Sample == [time : Int, pos : Seq(Int)]
<1>1. /\ s \in Seq(Sample) /\ s # <<>>
      /\ \A i \in DOMAIN s : Len(s[i].pos) = w
      /\ \A i, j \in DOMAIN s : i < j => s[i].time < s[j].time
  BY DEF IsTrajectory
<1>2. Len(s) \in Nat \ {0} /\ DOMAIN s = 1..Len(s) /\ \A i \in 1..Len(s) : s[i] \in Sample
  <2> HIDE DEF Sample
  <2> QED
    BY <1>1
<1>3. \A i \in 1..Len(s) : s[i].time \in Int /\ s[i].pos \in Seq(Int)
  BY <1>2
<1>4. \A i \in 1..Len(s) : s[i].pos \in [1..w -> Int]
  <2> TAKE i \in 1..Len(s)
  <2>1. s[i].pos \in Seq(Int) /\ Len(s[i].pos) = w
    BY <1>1, <1>2, <1>3
  <2> QED
    BY <2>1
<1>5. 1 \in 1..Len(s)
  BY <1>2
<1>6. /\ \A i \in 1..Len(s) : At(s, i) \in Int
      /\ \A i, j \in 1..Len(s) : i < j => At(s, i) < At(s, j)
      /\ At(s, 1) = 0
  <2> DEFINE t(i) == s[i].time
  <2>1. /\ \A i \in 1..Len(s) : t(i) \in Int /\ At(s, i) = t(i) - t(1)
        /\ \A i, j \in 1..Len(s) : i < j => t(i) < t(j)
        /\ t(1) \in Int
    BY <1>1, <1>2, <1>3, <1>5 DEF At
  <2> HIDE DEF t
  <2> QED
    BY <1>5, <2>1
<1> QED
  BY <1>2, <1>3, <1>4, <1>6 DEF TotalDuration

(* A way begins and ends at its ends. *)
LEMMA Ends ==
  ASSUME NEW S, NEW from \in [S -> Int], NEW to \in [S -> Int], NEW d \in Nat \ {0}
  PROVE  Between(from, to, 0, d) = from /\ Between(from, to, d, d) = to
<1>1. ASSUME NEW c \in S
      PROVE  /\ from[c] + (((to[c] - from[c]) * 0) \div d) = from[c]
             /\ from[c] + (((to[c] - from[c]) * d) \div d) = to[c]
  <2>1. to[c] - from[c] \in Int /\ from[c] \in Int /\ to[c] \in Int
    OBVIOUS
  <2>2. ((to[c] - from[c]) * d) \div d = to[c] - from[c]
    BY <2>1, Quotient
  <2>3. (0 * d) \div d = 0 /\ 0 * d = 0 /\ (to[c] - from[c]) * 0 = 0
    BY <2>1, Quotient
  <2> QED
    BY <2>1, <2>2, <2>3
<1> QED
  BY <1>1 DEF Between

(* Of positions per column: a way reckoned from either end is at its begin. *)
LEMMA EndsOf ==
  ASSUME NEW w \in Nat, NEW from \in [1..w -> Int], NEW to \in [1..w -> Int], NEW d \in Nat \ {0}
  PROVE  Between(from, to, 0, d) = from /\ Between(to, from, d, d) = from
BY Ends

(* A number between two is on the line through them, up to the rounding,   *)
(* reckoned from either end.                                               *)
LEMMA OnLine ==
  ASSUME NEW a \in Int, NEW b \in Int, NEW u \in Int, NEW d \in Nat \ {0}, NEW p,
         p = a + (((b - a) * u) \div d) \/ p = b + (((a - b) * (d - u)) \div d)
  PROVE  Abs((p - a) * d - (b - a) * u) < d
<1>1. (b - a) * u \in Int /\ (a - b) * (d - u) \in Int
  OBVIOUS
<1>2. CASE p = a + (((b - a) * u) \div d)
  <2>1. PICK x \in Int : x = (b - a) * u
    BY <1>1
  <2>2. PICK q \in Int : q = x \div d /\ q * d <= x /\ x < q * d + d
    BY Remainder
  <2>3. (p - a) * d - (b - a) * u = q * d - x
    BY <1>2, <2>1, <2>2
  <2>4. Abs(q * d - x) < d
    BY <2>2 DEF Abs
  <2> QED
    BY <2>3, <2>4
<1>3. CASE p = b + (((a - b) * (d - u)) \div d)
  <2>1. PICK x \in Int : x = (a - b) * (d - u)
    BY <1>1
  <2>2. PICK q \in Int : q = x \div d /\ q * d <= x /\ x < q * d + d
    BY Remainder
  <2>3. (p - a) * d - (b - a) * u = q * d - x
    BY <1>3, <2>1, <2>2
  <2>4. Abs(q * d - x) < d
    BY <2>2 DEF Abs
  <2> QED
    BY <2>3, <2>4
<1> QED
  BY <1>2, <1>3

(* A position on the way between two, reckoned from either of them.        *)
LEMMA OnWay ==
  ASSUME NEW w \in Nat, NEW from \in [1..w -> Int], NEW to \in [1..w -> Int],
         NEW d \in Nat \ {0}, NEW u \in Int, NEW pos,
         pos = Between(from, to, u, d) \/ pos = Between(to, from, d - u, d)
  PROVE  /\ u = 0 => pos = from
         /\ u = d => pos = to
         /\ DOMAIN pos = 1..w
         /\ \A c \in 1..w : Abs((pos[c] - from[c]) * d - (to[c] - from[c]) * u) < d
<1>1. /\ Between(from, to, 0, d) = from /\ Between(to, from, d, d) = from
      /\ Between(to, from, 0, d) = to /\ Between(from, to, d, d) = to
  BY Ends
<1>2. u = 0 => d - u = d
  OBVIOUS
<1>3. u = d => d - u = 0
  OBVIOUS
<1>4. DOMAIN pos = 1..w
  BY DEF Between
<1>5. ASSUME NEW c \in 1..w
      PROVE  Abs((pos[c] - from[c]) * d - (to[c] - from[c]) * u) < d
  <2>1. from[c] \in Int /\ to[c] \in Int
    OBVIOUS
  <2>2. \/ pos[c] = from[c] + (((to[c] - from[c]) * u) \div d)
        \/ pos[c] = to[c] + (((from[c] - to[c]) * (d - u)) \div d)
    BY DEF Between
  <2> QED
    BY <2>1, <2>2, OnLine, Zenon
<1> QED
  BY <1>1, <1>2, <1>3, <1>4, <1>5

(* A position is reckoned from one end of segment i to the other, at the   *)
(* time tau.                                                               *)
Passes(s, i, tau, pos) ==
  LET span == At(s, i + 1) - At(s, i)
  IN  /\ At(s, i) <= tau /\ tau <= At(s, i + 1)
      /\ \/ pos = Between(s[i].pos, s[i + 1].pos, tau - At(s, i), span)
         \/ pos = Between(s[i + 1].pos, s[i].pos, At(s, i + 1) - tau, span)

(* Of some segment, if there is one. *)
Reached(s, tau, pos) ==
  \/ Len(s) = 1 /\ tau = 0 /\ pos = s[1].pos
  \/ \E i \in 1..Len(s) - 1 : Passes(s, i, tau, pos)

(* Such a position is on the polyline.                                     *)
LEMMA OnSegment ==
  ASSUME NEW s, NEW w \in Nat, IsTrajectory(s, w),
         NEW i \in 1..Len(s) - 1, NEW tau \in Int, NEW pos, Passes(s, i, tau, pos)
  PROVE  IsOnPolyline(s, tau, pos)
<1>1. /\ i \in 1..Len(s) /\ i + 1 \in 1..Len(s) /\ i \in DOMAIN s /\ i + 1 \in DOMAIN s
      /\ s[i].pos \in [1..w -> Int] /\ s[i + 1].pos \in [1..w -> Int]
  BY Offsets
<1>2. PICK a \in Int : a = At(s, i)
  BY <1>1, Offsets
<1>3. PICK b \in Int : b = At(s, i + 1)
  BY <1>1, Offsets
<1>4. a < b /\ a <= tau /\ tau <= b
  BY <1>1, <1>2, <1>3, Offsets DEF Passes
<1>5. PICK d \in Nat \ {0} : d = b - a
  BY <1>4
<1>6. PICK u \in Int : u = tau - a /\ b - tau = d - u
  BY <1>5
<1>7. /\ u = 0 => pos = s[i].pos
      /\ u = d => pos = s[i + 1].pos
      /\ DOMAIN pos = 1..w
      /\ \A c \in 1..w : Abs((pos[c] - s[i].pos[c]) * d - (s[i + 1].pos[c] - s[i].pos[c]) * u) < d
  <2>1. pos = Between(s[i].pos, s[i + 1].pos, u, d) \/ pos = Between(s[i + 1].pos, s[i].pos, d - u, d)
    BY <1>2, <1>3, <1>5, <1>6 DEF Passes
  <2>2. ASSUME NEW from \in [1..w -> Int], NEW to \in [1..w -> Int],
               pos = Between(from, to, u, d) \/ pos = Between(to, from, d - u, d)
        PROVE  /\ u = 0 => pos = from
               /\ u = d => pos = to
               /\ DOMAIN pos = 1..w
               /\ \A c \in 1..w : Abs((pos[c] - from[c]) * d - (to[c] - from[c]) * u) < d
    BY ONLY <2>2, w \in Nat, u \in Int, d \in Nat \ {0}, OnWay, Zenon
  <2> QED
    BY ONLY <1>1, <2>1, <2>2, Zenon
<1>8. CASE tau = a
  <2>1. pos = s[i].pos
    BY <1>6, <1>7, <1>8
  <2> QED
    BY <1>1, <1>2, <1>8, <2>1 DEF IsOnPolyline
<1>9. CASE tau = b
  <2>1. pos = s[i + 1].pos
    BY <1>5, <1>6, <1>7, <1>9
  <2> QED
    BY <1>1, <1>3, <1>9, <2>1 DEF IsOnPolyline
<1>10. CASE a < tau /\ tau < b
  <2>1. \A c \in DOMAIN pos :
          Abs((pos[c] - s[i].pos[c]) * (At(s, i + 1) - At(s, i))
              - (s[i + 1].pos[c] - s[i].pos[c]) * (tau - At(s, i))) < At(s, i + 1) - At(s, i)
    BY ONLY <1>2, <1>3, <1>5, <1>6, <1>7, Zenon
  <2> QED
    BY <1>2, <1>3, <1>10, <2>1 DEF IsOnPolyline
<1> QED
  BY <1>4, <1>8, <1>9, <1>10

(* So is one that is reached. *)
LEMMA ReachedIsOn ==
  ASSUME NEW s, NEW w \in Nat, IsTrajectory(s, w), NEW tau \in Int, NEW pos, Reached(s, tau, pos)
  PROVE  IsOnPolyline(s, tau, pos)
<1>1. CASE Len(s) = 1 /\ tau = 0 /\ pos = s[1].pos
  <2>1. 1 \in DOMAIN s /\ At(s, 1) = 0
    BY Offsets
  <2> QED
    BY <1>1, <2>1 DEF IsOnPolyline
<1>2. CASE \E i \in 1..Len(s) - 1 : Passes(s, i, tau, pos)
  BY <1>2, OnSegment
<1> QED
  BY <1>1, <1>2 DEF Reached

(* The last sample is the end of the last segment. *)
LEMMA LastReached ==
  ASSUME NEW s, NEW w \in Nat, IsTrajectory(s, w)
  PROVE  Reached(s, TotalDuration(s), s[Len(s)].pos)
<1>1. /\ Len(s) \in Nat \ {0} /\ At(s, 1) = 0 /\ TotalDuration(s) = At(s, Len(s))
      /\ \A i \in 1..Len(s) : s[i].pos \in [1..w -> Int] /\ At(s, i) \in Int
  BY Offsets
<1>2. CASE Len(s) = 1
  BY <1>1, <1>2 DEF Reached
<1>3. CASE Len(s) # 1
  <2>1. PICK i \in 1..Len(s) - 1 : i + 1 = Len(s)
    <3>1. PICK n \in Nat \ {0} : n = Len(s)
      BY <1>1
    <3>2. n - 1 \in 1..n - 1 /\ (n - 1) + 1 = n
      BY <1>3, <3>1
    <3> QED
      BY <3>1, <3>2
  <2>2. i \in 1..Len(s) /\ i + 1 \in 1..Len(s) /\ i < i + 1
    BY <1>1
  <2>3. PICK a \in Int : a = At(s, i)
    BY <1>1, <2>2
  <2>4. PICK b \in Int : b = At(s, i + 1)
    BY <1>1, <2>2
  <2>5. a < b
    BY <2>2, <2>3, <2>4, Offsets
  <2>6. PICK d \in Nat \ {0} : d = b - a
    BY <2>5
  <2>7. s[i + 1].pos = Between(s[i].pos, s[i + 1].pos, d, d)
    <3>1. s[i].pos \in [1..w -> Int] /\ s[i + 1].pos \in [1..w -> Int]
      BY <1>1, <2>2
    <3> QED
      BY ONLY <3>1, EndsOf, w \in Nat, d \in Nat \ {0}, Zenon
  <2>8. Passes(s, i, b, s[i + 1].pos)
    BY <2>3, <2>4, <2>5, <2>6, <2>7 DEF Passes
  <2> QED
    BY <1>1, <2>1, <2>4, <2>8 DEF Reached
<1> QED
  BY <1>2, <1>3

(* Forward: the first segment that has not ended. *)
LEMMA ForwardReaches ==
  ASSUME NEW s, NEW w \in Nat, IsTrajectory(s, w), NEW e \in Nat, NEW last \in BOOLEAN
  PROVE  Reached(s, IF e < TotalDuration(s) THEN e ELSE TotalDuration(s),
                 EvaluateForward(s, e, last).pos)
<1> DEFINE n == Len(s)
           Ended(i) == e <= At(s, i + 1)
           P(i) == /\ e <= At(s, i + 1)
                   /\ \A j \in 1..i - 1 : e > At(s, j + 1)
<1>1. /\ n \in Nat \ {0} /\ DOMAIN s = 1..n /\ At(s, 1) = 0 /\ TotalDuration(s) = At(s, n)
      /\ \A i \in 1..n : At(s, i) \in Int
  BY Offsets
<1>2. CASE ~(e < TotalDuration(s))
  <2>1. e >= TotalDuration(s)
    BY <1>1, <1>2
  <2>2. EvaluateForward(s, e, last).pos = s[n].pos
    BY <2>1 DEF EvaluateForward, TerminalState, LastSample
  <2> QED
    BY <1>2, <2>2, LastReached
<1>3. CASE e < TotalDuration(s)
  <2> DEFINE T == {i \in 1..n - 1 : e <= At(s, i + 1)}
             i == CHOOSE i \in 1..n - 1 : P(i)
  <2>1. T \in SUBSET Nat /\ n - 1 \in T
    BY <1>1, <1>3
  <2>2. \E x \in 1..n - 1 : P(x)
    <3>1. PICK x \in T : \A y \in T : x <= y
      BY <2>1, Least
    <3>2. \A j \in 1..x - 1 : e > At(s, j + 1)
      <4> TAKE j \in 1..x - 1
      <4>1. j \in 1..n - 1 /\ j \notin T /\ j + 1 \in 1..n
        BY <1>1, <3>1
      <4> QED
        BY <1>1, <4>1
    <3> QED
      BY <3>1, <3>2
  <2>3. i \in 1..n - 1 /\ P(i)
    <3> HIDE DEF P
    <3> QED
      BY <2>2
  <2>4. EvaluateForward(s, e, last) =
          InterpolateSegment(s[i], s[i + 1], e - At(s, i), At(s, i + 1) - At(s, i))
    <3>1. ~(e >= TotalDuration(s))
      BY <1>1, <1>3
    <3> QED
      BY <3>1 DEF EvaluateForward
  <2> HIDE DEF i
  <2>5. At(s, i) <= e /\ e <= At(s, i + 1)
    <3>1. CASE i = 1
      BY <1>1, <2>3, <3>1
    <3>2. CASE i # 1
      <4>1. i - 1 \in 1..i - 1 /\ (i - 1) + 1 = i /\ i \in 1..n
        BY <1>1, <2>3, <3>2
      <4>2. e > At(s, (i - 1) + 1)
        BY <2>3, <4>1
      <4> QED
        BY <1>1, <2>3, <4>1, <4>2
    <3> QED
      BY <3>1, <3>2
  <2>6. ~(At(s, i + 1) - At(s, i) <= 0)
    <3>1. i \in 1..n /\ i + 1 \in 1..n /\ i < i + 1
      BY <1>1, <2>3
    <3>2. At(s, i) < At(s, i + 1) /\ At(s, i) \in Int /\ At(s, i + 1) \in Int
      BY <3>1, Offsets
    <3> QED
      BY <3>2
  <2>7. EvaluateForward(s, e, last).pos =
          Between(s[i].pos, s[i + 1].pos, e - At(s, i), At(s, i + 1) - At(s, i))
    BY <2>4, <2>6 DEF InterpolateSegment
  <2>8. Passes(s, i, e, EvaluateForward(s, e, last).pos)
    BY <2>5, <2>7 DEF Passes
  <2> QED
    BY <1>3, <2>3, <2>8 DEF Reached
<1> QED
  BY <1>2, <1>3

(* Backward, with the time since the turn: the first segment from the back *)
(* that has not ended.                                                     *)
LEMMA BackwardReaches ==
  ASSUME NEW s, NEW w \in Nat, IsTrajectory(s, w), NEW e \in Nat \ {0}, e <= TotalDuration(s)
  PROVE  Reached(s, TotalDuration(s) - e, EvaluateBackward(s, e).pos)
<1> DEFINE n == Len(s)
           Back(r) == At(s, n) - At(s, r)
           P(r) == /\ e <= Back(r - 1)
                   /\ \A t \in r + 1..n : e > Back(t - 1)
           r == CHOOSE r \in 2..n : P(r)
<1>1. /\ n \in Nat \ {0} /\ At(s, 1) = 0 /\ TotalDuration(s) = At(s, n)
      /\ \A i \in 1..n : At(s, i) \in Int
      /\ \A i, j \in 1..n : i < j => At(s, i) < At(s, j)
  BY Offsets
<1>2. /\ \A i \in 1..n : Back(i) \in Int
      /\ 1 \in 1..n /\ n \in 1..n /\ e <= Back(1) /\ Back(n) = 0
      /\ \A i, j \in 1..n : i < j => At(s, j) - At(s, i) = Back(i) - Back(j)
  BY <1>1
<1>3. n # 1
  <2>1. n = 1 => TotalDuration(s) = 0
    BY <1>1
  <2> QED
    BY <2>1
<1>4. \E x \in 2..n : P(x)
  <2> DEFINE T == {k \in 0..n - 2 : e <= Back(n - k - 1)}
  <2>1. T \in SUBSET Nat /\ n - 2 \in T
    <3>1. n - 2 \in 0..n - 2 /\ n - (n - 2) - 1 = 1
      BY <1>1, <1>3
    <3> QED
      BY <1>2, <3>1
  <2>2. PICK k \in T : \A y \in T : k <= y
    BY <2>1, Least
  <2> DEFINE x == n - k
  <2>3. x \in 2..n /\ x - 1 = n - k - 1
    BY <1>1, <1>3, <2>2
  <2>4. e <= Back(x - 1)
    BY <2>2
  <2>5. \A t \in x + 1..n : e > Back(t - 1)
    <3> TAKE t \in x + 1..n
    <3>1. /\ n - t \in 0..n - 2 /\ n - t < k /\ n - (n - t) - 1 = t - 1
          /\ t - 1 \in 1..n
      BY <1>1, <2>2, <2>3
    <3>2. n - t \notin T
      BY <2>2, <3>1
    <3>3. ~(e <= Back(t - 1))
      BY <3>1, <3>2
    <3> HIDE DEF Back
    <3> QED
      BY <1>2, <3>1, <3>3
  <2> QED
    BY <2>3, <2>4, <2>5
<1>5. r \in 2..n /\ P(r)
  <2> HIDE DEF P
  <2> QED
    BY <1>4
<1>6. EvaluateBackward(s, e) =
        InterpolateSegment(s[r], s[r - 1], e - Back(r), Back(r - 1) - Back(r))
  <2>1. ~(e > Back(1))
    BY <1>1, <1>2
  <2> QED
    BY <2>1 DEF EvaluateBackward
<1> HIDE DEF r
<1>7. PICK i \in 1..n - 1 : r = i + 1
  BY <1>1, <1>5
<1>8. i \in 1..n /\ i + 1 \in 1..n /\ (i + 1) - 1 = i /\ i < i + 1
  BY <1>1, <1>7
<1>9. Back(i + 1) < e
  <2>1. CASE i + 1 = n
    BY <1>1, <2>1
  <2>2. CASE i + 1 # n
    <3>1. i + 2 \in r + 1..n /\ (i + 2) - 1 = i + 1
      BY <1>1, <1>7, <2>2
    <3>2. e > Back((i + 2) - 1)
      BY <1>5, <3>1
    <3> QED
      BY <3>1, <3>2
  <2> QED
    BY <2>1, <2>2
<1>10. e <= Back(i)
  BY <1>5, <1>7, <1>8
<1>11. PICK a \in Int : a = At(s, i)
  BY <1>1, <1>8
<1>12. PICK b \in Int : b = At(s, i + 1)
  BY <1>1, <1>8
<1>13. PICK total \in Int : total = At(s, n)
  BY <1>1
<1>14. /\ a < b /\ total - b < e /\ e <= total - a
  BY <1>1, <1>8, <1>9, <1>10, <1>11, <1>12, <1>13
<1>15. /\ total - e \in Int /\ a <= total - e /\ total - e <= b
       /\ e - (total - b) = b - (total - e)
       /\ (total - a) - (total - b) = b - a /\ ~(b - a <= 0)
  BY <1>14
<1>16. EvaluateBackward(s, e).pos = Between(s[i + 1].pos, s[i].pos, b - (total - e), b - a)
  <2>1. EvaluateBackward(s, e) = InterpolateSegment(s[i + 1], s[i], b - (total - e), b - a)
    BY <1>6, <1>7, <1>8, <1>11, <1>12, <1>13, <1>15
  <2> QED
    BY <1>15, <2>1 DEF InterpolateSegment
<1>17. Passes(s, i, total - e, EvaluateBackward(s, e).pos)
  BY <1>11, <1>12, <1>15, <1>16 DEF Passes
<1> QED
  BY <1>1, <1>13, <1>17 DEF Reached

(* At every time the evaluation is on a segment, at the time folded back   *)
(* at both ends.                                                           *)
LEMMA Reaches ==
  ASSUME NEW s, NEW w \in Nat, IsTrajectory(s, w), NEW e \in Nat, NEW forEver \in BOOLEAN
  PROVE  /\ Folded(s, e, forEver) \in Int
         /\ Reached(s, Folded(s, e, forEver), EvaluateTrajectory(s, e, forEver).pos)
<1>1. /\ Len(s) \in Nat \ {0} /\ DOMAIN s = 1..Len(s) /\ At(s, 1) = 0
      /\ TotalDuration(s) = At(s, Len(s)) /\ TotalDuration(s) \in Nat
  <2>1. Len(s) \in Nat \ {0} /\ 1 \in 1..Len(s) /\ Len(s) \in 1..Len(s)
    BY Offsets
  <2> QED
    BY <2>1, Offsets
<1>2. PICK total \in Nat : total = TotalDuration(s)
  BY <1>1
<1>3. /\ (IF e < 0 THEN 0 ELSE e) = e
      /\ total # 0 => ~(TotalDuration(s) <= 0)
  BY <1>2
<1>4. CASE total = 0
  <2>1. Folded(s, e, forEver) = 0
    BY <1>2, <1>4 DEF Folded
  <2>2. EvaluateTrajectory(s, e, forEver).pos = s[1].pos
    BY <1>2, <1>4 DEF EvaluateTrajectory, TerminalState, FirstSample
  <2>3. Len(s) = 1
    <3>1. 1 < Len(s) => At(s, 1) < At(s, Len(s))
      BY <1>1, Offsets
    <3> QED
      BY <1>1, <1>2, <1>4, <3>1
  <2> QED
    BY <2>1, <2>2, <2>3 DEF Reached
<1>5. CASE total # 0 /\ ~forEver
  <2>1. Folded(s, e, forEver) = IF e < TotalDuration(s) THEN e ELSE TotalDuration(s)
    BY <1>2, <1>5 DEF Folded
  <2>2. EvaluateTrajectory(s, e, forEver) = EvaluateForward(s, e, TRUE)
    BY <1>3, <1>5 DEF EvaluateTrajectory
  <2>3. Folded(s, e, forEver) \in Int
    BY <1>1, <2>1
  <2> QED
    BY <2>1, <2>2, <2>3, ForwardReaches
<1>6. CASE total # 0 /\ forEver
  <2>1. PICK cycle \in Nat : cycle = e % (2 * total) /\ cycle < 2 * total
    BY <1>6
  <2>2. CASE cycle <= total
    <3>1. Folded(s, e, forEver) = IF cycle < TotalDuration(s) THEN cycle ELSE TotalDuration(s)
      BY <1>2, <1>6, <2>1, <2>2 DEF Folded
    <3>2. EvaluateTrajectory(s, e, forEver) = EvaluateForward(s, cycle, FALSE)
      <4>1. EvaluateTrajectory(s, e, forEver) =
              IF cycle <= total THEN EvaluateForward(s, cycle, FALSE)
              ELSE EvaluateBackward(s, cycle - total)
        BY <1>2, <1>3, <1>6, <2>1, Zenon DEF EvaluateTrajectory
      <4> QED
        BY <4>1, <2>2
    <3>3. Folded(s, e, forEver) \in Int
      BY <1>1, <3>1
    <3> QED
      BY <3>1, <3>2, <3>3, ForwardReaches
  <2>3. CASE ~(cycle <= total)
    <3>1. PICK back \in Nat \ {0} : back = cycle - total /\ back <= total /\ total - back = 2 * total - cycle
      BY <2>1, <2>3
    <3>2. Folded(s, e, forEver) = TotalDuration(s) - back
      BY <1>2, <1>6, <2>1, <2>3, <3>1 DEF Folded
    <3>3. EvaluateTrajectory(s, e, forEver) = EvaluateBackward(s, back)
      <4>1. EvaluateTrajectory(s, e, forEver) =
              IF cycle <= total THEN EvaluateForward(s, cycle, FALSE)
              ELSE EvaluateBackward(s, cycle - total)
        BY <1>2, <1>3, <1>6, <2>1, Zenon DEF EvaluateTrajectory
      <4> QED
        BY <4>1, <2>3, <3>1
    <3> QED
      BY <1>2, <3>1, <3>2, <3>3, BackwardReaches
  <2> QED
    BY <2>2, <2>3
<1> QED
  BY <1>4, <1>5, <1>6

(* So it is on the polyline. *)
LEMMA EvaluatesOn ==
  ASSUME NEW s, NEW w \in Nat, IsTrajectory(s, w), NEW e \in Nat, NEW forEver \in BOOLEAN
  PROVE  IsOnPolyline(s, Folded(s, e, forEver), EvaluateTrajectory(s, e, forEver).pos)
BY Reaches, ReachedIsOn

(* The way is over at its end. *)
LEMMA WayEnds ==
  ASSUME NEW S, NEW from \in [S -> Int], NEW to \in [S -> Int],
         NEW d \in Nat \ {0}, NEW t \in Int, t >= d
  PROVE  InterpolatePositions(from, to, t, d) = to
<1>1. InterpolatePositions(from, to, t, d) = Between(from, to, d, d)
  BY DEF InterpolatePositions
<1> QED
  BY <1>1, Ends

-----------------------------------------------------------------------------
(* How fast the evaluation is.                                             *)

(* A number between two, reckoned from either of them, is rounded down.    *)
LEMMA RoundedDown ==
  ASSUME NEW a \in Int, NEW b \in Int, NEW u \in Int, NEW d \in Nat \ {0}, NEW p,
         p = a + (((b - a) * u) \div d) \/ p = b + (((a - b) * (d - u)) \div d)
  PROVE  /\ p \in Int
         /\ (p - a) * d <= (b - a) * u
         /\ (b - a) * u < (p - a) * d + d
<1>1. (b - a) * u \in Int /\ (a - b) * (d - u) \in Int
  OBVIOUS
<1>2. CASE p = a + (((b - a) * u) \div d)
  <2>1. PICK x \in Int : x = (b - a) * u
    BY <1>1
  <2>2. PICK q \in Int : q = x \div d /\ q * d <= x /\ x < q * d + d
    BY Remainder
  <2>3. p = a + q /\ (p - a) * d = q * d
    BY <1>2, <2>1, <2>2
  <2> QED
    BY <2>1, <2>2, <2>3
<1>3. CASE p = b + (((a - b) * (d - u)) \div d)
  <2>1. PICK x \in Int : x = (a - b) * (d - u)
    BY <1>1
  <2>2. PICK q \in Int : q = x \div d /\ q * d <= x /\ x < q * d + d
    BY Remainder
  <2>3. p = b + q /\ (p - a) * d - (b - a) * u = q * d - x
    BY <1>3, <2>1, <2>2
  <2>4. (p - a) * d \in Int /\ p \in Int
    BY <2>3
  <2> QED
    BY <1>1, <2>1, <2>2, <2>3, <2>4
<1> QED
  BY <1>2, <1>3

-----------------------------------------------------------------------------
(* Speed: by how much a position may have risen, or fallen, in a time, at  *)
(* C in every dt.                                                          *)
Within(change, C, dt, t) == change * dt <= C * t
Less(change, C, dt, t)   == change * dt < C * t

(* What is within the speed in two times is in both together. *)
LEMMA SumWithin ==
  ASSUME NEW x \in Int, NEW y \in Int, NEW C \in Nat, NEW dt \in Nat, NEW t \in Int, NEW u \in Int
  PROVE  /\ Within(x, C, dt, t) /\ Within(y, C, dt, u) => Within(x + y, C, dt, t + u)
         /\ Within(x, C, dt, t) /\ Less(y, C, dt, u) => Less(x + y, C, dt, t + u)
<1>1. (x + y) * dt = x * dt + y * dt /\ C * (t + u) = C * t + C * u
  OBVIOUS
<1>2. x * dt \in Int /\ y * dt \in Int /\ C * t \in Int /\ C * u \in Int
  OBVIOUS
<1> QED
  BY <1>1, <1>2 DEF Within, Less

(* A rounded position on a way that is not too fast, against the begin of  *)
(* the way.                                                                *)
LEMMA FromBegin ==
  ASSUME NEW x \in Int, NEW dist \in Int, NEW u \in Nat, NEW d \in Nat \ {0},
         NEW C \in Nat, NEW dt \in Nat \ {0},
         Within(dist, C, dt, d), Within(-dist, C, dt, d),
         x * d <= dist * u, dist * u < x * d + d
  PROVE  Within(x, C, dt, u) /\ Less(-x - 1, C, dt, u)
<1>1. dist * dt <= C * d /\ (-dist) * dt <= C * d
  BY DEF Within
<1>2. (dist * dt) * u <= (C * d) * u /\ ((-dist) * dt) * u <= (C * d) * u
  BY <1>1
<1>3. (x * d) * dt <= (dist * u) * dt
  OBVIOUS
<1>4. (dist * u) * dt < (x * d + d) * dt
  OBVIOUS
<1>5. (x * dt) * d <= (C * u) * d
  BY <1>2, <1>3
<1>6. x * dt <= C * u
  BY <1>5
<1>7. ((-x - 1) * dt) * d < (C * u) * d
  BY <1>2, <1>4
<1>8. (-x - 1) * dt < C * u
  BY <1>7
<1> QED
  BY <1>6, <1>8 DEF Within, Less

(* Two rounded positions on the same way. *)
LEMMA OnOneWay ==
  ASSUME NEW x \in Int, NEW y \in Int, NEW dist \in Int, NEW u \in Nat, NEW v \in Nat, u <= v,
         NEW d \in Nat \ {0},
         NEW C \in Nat, NEW dt \in Nat \ {0},
         Within(dist, C, dt, d), Within(-dist, C, dt, d),
         x * d <= dist * u, dist * u < x * d + d,
         y * d <= dist * v, dist * v < y * d + d
  PROVE  Less(y - x - 1, C, dt, v - u) /\ Less(x - y - 1, C, dt, v - u)
<1>1. dist * dt <= C * d /\ (-dist) * dt <= C * d
  BY DEF Within
<1>2. PICK e \in Nat : e = v - u
  OBVIOUS
<1>3. (dist * dt) * e <= (C * d) * e /\ ((-dist) * dt) * e <= (C * d) * e
  BY <1>1
<1>4. dist * e = dist * v - dist * u
  BY <1>2
<1>5. (y - x - 1) * d < dist * e /\ (x - y - 1) * d < (-dist) * e
  BY <1>4
<1>6. ((y - x - 1) * d) * dt < (dist * e) * dt /\ ((x - y - 1) * d) * dt < ((-dist) * e) * dt
  BY <1>5
<1>7. ((y - x - 1) * dt) * d < (C * e) * d /\ ((x - y - 1) * dt) * d < (C * e) * d
  BY <1>3, <1>6
<1>8. (y - x - 1) * dt < C * e /\ (x - y - 1) * dt < C * e
  BY <1>7
<1> QED
  BY <1>2, <1>8 DEF Less

(* No segment of a column is faster than C in every dt. *)
Slow(s, c, C, dt) ==
  \A i \in 1..Len(s) - 1 :
    /\ Within(s[i + 1].pos[c] - s[i].pos[c], C, dt, At(s, i + 1) - At(s, i))
    /\ Within(s[i].pos[c] - s[i + 1].pos[c], C, dt, At(s, i + 1) - At(s, i))

(* Then it is no faster between any two samples: else there would be a     *)
(* first one that is reached too fast.                                     *)
LEMMA BetweenSamples ==
  ASSUME NEW s, NEW w \in Nat, IsTrajectory(s, w), NEW c \in 1..w,
         NEW C \in Nat, NEW dt \in Nat \ {0}, Slow(s, c, C, dt),
         NEW i \in 1..Len(s), NEW j \in 1..Len(s), i <= j
  PROVE  /\ Within(s[j].pos[c] - s[i].pos[c], C, dt, At(s, j) - At(s, i))
         /\ Within(s[i].pos[c] - s[j].pos[c], C, dt, At(s, j) - At(s, i))
<1> DEFINE P(k) == s[k].pos[c]
           A(k) == At(s, k)
           Fine(k) == Within(P(k) - P(i), C, dt, A(k) - A(i)) /\ Within(P(i) - P(k), C, dt, A(k) - A(i))
           T == {k \in i..Len(s) : ~Fine(k)}
<1>1. Len(s) \in Nat /\ \A k \in 1..Len(s) : P(k) \in Int /\ A(k) \in Int
  <2>1. Len(s) \in Nat /\ \A k \in 1..Len(s) : s[k].pos \in [1..w -> Int] /\ At(s, k) \in Int
    BY Offsets
  <2> QED
    BY <2>1
<1>2. \A k \in 1..Len(s) - 1 : /\ Within(P(k + 1) - P(k), C, dt, A(k + 1) - A(k))
                               /\ Within(P(k) - P(k + 1), C, dt, A(k + 1) - A(k))
  BY DEF Slow
<1> HIDE DEF P, A
<1>3. Fine(i)
  <2>1. P(i) - P(i) = 0 /\ A(i) - A(i) = 0
    BY <1>1
  <2> QED
    BY <2>1 DEF Within
<1>4. ASSUME NEW k \in i..Len(s) - 1, Fine(k)
      PROVE  Fine(k + 1)
  <2>1. k \in 1..Len(s) - 1 /\ k \in 1..Len(s) /\ k + 1 \in 1..Len(s)
    BY <1>1
  <2>2. P(i) \in Int /\ P(k) \in Int /\ P(k + 1) \in Int /\ A(i) \in Int /\ A(k) \in Int /\ A(k + 1) \in Int
    BY <1>1, <2>1
  <2>3. PICK x \in Int : x = P(k) - P(i)
    BY <2>2
  <2>4. PICK y \in Int : y = P(k + 1) - P(k)
    BY <2>2
  <2>5. PICK xx \in Int : xx = P(i) - P(k)
    BY <2>2
  <2>6. PICK yy \in Int : yy = P(k) - P(k + 1)
    BY <2>2
  <2>7. PICK t \in Int : t = A(k) - A(i)
    BY <2>2
  <2>8. PICK u \in Int : u = A(k + 1) - A(k)
    BY <2>2
  <2>9. P(k + 1) - P(i) = x + y /\ P(i) - P(k + 1) = xx + yy /\ A(k + 1) - A(i) = t + u
    <3>1. P(k + 1) - P(i) = x + y
      BY <2>2, <2>3, <2>4
    <3>2. P(i) - P(k + 1) = xx + yy
      BY <2>2, <2>5, <2>6
    <3>3. A(k + 1) - A(i) = t + u
      BY <2>2, <2>7, <2>8
    <3> QED
      BY <3>1, <3>2, <3>3
  <2>10. Within(x, C, dt, t) /\ Within(xx, C, dt, t)
    BY <1>4, <2>3, <2>5, <2>7
  <2>11. Within(y, C, dt, u) /\ Within(yy, C, dt, u)
    BY <1>2, <2>1, <2>4, <2>6, <2>8
  <2>12. Within(x + y, C, dt, t + u) /\ Within(xx + yy, C, dt, t + u)
    <3>1. C \in Nat /\ dt \in Nat
      OBVIOUS
    <3> QED
      BY ONLY <3>1, <2>10, <2>11, SumWithin, x \in Int, y \in Int, xx \in Int, yy \in Int, t \in Int, u \in Int, Zenon
  <2> QED
    BY <2>9, <2>12
<1>5. T = {}
  <2> SUFFICES ASSUME T # {}
               PROVE  FALSE
    OBVIOUS
  <2>1. T \in SUBSET Nat
    BY <1>1
  <2> HIDE DEF Fine
  <2>2. PICK k \in T : \A y \in T : k <= y
    <3> HIDE DEF T
    <3> QED
      BY <2>1, Least
  <2>3. k \in i..Len(s) /\ ~Fine(k) /\ k # i
    BY <1>3, <2>2
  <2>4. k - 1 \in i..Len(s) - 1 /\ k - 1 \in i..Len(s) /\ (k - 1) + 1 = k /\ k - 1 < k
    BY <1>1, <2>3
  <2>5. k - 1 \notin T
    BY <2>2, <2>4
  <2>6. Fine(k - 1)
    BY <2>4, <2>5
  <2>7. Fine((k - 1) + 1)
    BY <1>4, <2>4, <2>6
  <2> QED
    BY <2>3, <2>4, <2>7
<1>6. j \in i..Len(s)
  BY <1>1
<1> HIDE DEF Fine
<1>7. Fine(j)
  BY <1>5, <1>6
<1> QED
  BY <1>7 DEF Fine, P, A

(* What a point of the evaluation is, of a column: a segment and how far   *)
(* it has been passed.                                                     *)
LEMMA PassesIs ==
  ASSUME NEW s, NEW w \in Nat, IsTrajectory(s, w), NEW c \in 1..w, NEW tau \in Int, NEW pos,
         NEW i \in 1..Len(s) - 1, Passes(s, i, tau, pos)
  PROVE  /\ i \in 1..Len(s) /\ i + 1 \in 1..Len(s)
         /\ pos[c] \in Int /\ s[i].pos[c] \in Int /\ s[i + 1].pos[c] \in Int
         /\ At(s, i) \in Int /\ At(s, i + 1) \in Int /\ At(s, i + 1) - At(s, i) \in Nat \ {0}
         /\ At(s, i) <= tau /\ tau <= At(s, i + 1)
         /\ (pos[c] - s[i].pos[c]) * (At(s, i + 1) - At(s, i))
              <= (s[i + 1].pos[c] - s[i].pos[c]) * (tau - At(s, i))
         /\ (s[i + 1].pos[c] - s[i].pos[c]) * (tau - At(s, i))
              < (pos[c] - s[i].pos[c]) * (At(s, i + 1) - At(s, i)) + (At(s, i + 1) - At(s, i))
<1>1. Len(s) \in Nat /\ i \in 1..Len(s) /\ i + 1 \in 1..Len(s) /\ i < i + 1
  BY Offsets
<1>2. s[i].pos \in [1..w -> Int] /\ s[i + 1].pos \in [1..w -> Int]
  BY <1>1, Offsets
<1>3. PICK x \in Int : x = s[i].pos[c]
  BY <1>2
<1>4. PICK y \in Int : y = s[i + 1].pos[c]
  BY <1>2
<1>5. PICK a \in Int : a = At(s, i)
  BY <1>1, Offsets
<1>6. PICK b \in Int : b = At(s, i + 1)
  BY <1>1, Offsets
<1>7. a < b
  BY <1>1, <1>5, <1>6, Offsets
<1>8. PICK d \in Nat \ {0} : d = b - a
  BY <1>7
<1>9. PICK u \in Int : u = tau - a /\ b - tau = d - u
  BY <1>8
<1>10. \/ pos = Between(s[i].pos, s[i + 1].pos, u, d)
       \/ pos = Between(s[i + 1].pos, s[i].pos, d - u, d)
  BY <1>5, <1>6, <1>8, <1>9 DEF Passes
<1>11. DOMAIN s[i].pos = 1..w /\ DOMAIN s[i + 1].pos = 1..w
  BY <1>2
<1>12. \/ pos[c] = x + (((y - x) * u) \div d)
       \/ pos[c] = y + (((x - y) * (d - u)) \div d)
  BY <1>3, <1>4, <1>10, <1>11 DEF Between
<1>13. /\ pos[c] \in Int
       /\ (pos[c] - x) * d <= (y - x) * u
       /\ (y - x) * u < (pos[c] - x) * d + d
  BY <1>12, RoundedDown, Zenon
<1>14. At(s, i) <= tau /\ tau <= At(s, i + 1)
  BY DEF Passes
<1> QED
  BY ONLY <1>1, <1>3, <1>4, <1>5, <1>6, <1>8, <1>9, <1>13, <1>14, Zenon

(* A point of a segment is no further from its ends than a motor that is   *)
(* no faster goes in the time.                                             *)
LEMMA NearEnds ==
  ASSUME NEW s, NEW w \in Nat, IsTrajectory(s, w), NEW c \in 1..w,
         NEW C \in Nat, NEW dt \in Nat \ {0}, Slow(s, c, C, dt),
         NEW tau \in Int, NEW pos, NEW i \in 1..Len(s) - 1, Passes(s, i, tau, pos)
  PROVE  /\ Within(pos[c] - s[i].pos[c], C, dt, tau - At(s, i))
         /\ Less(s[i].pos[c] - pos[c] - 1, C, dt, tau - At(s, i))
         /\ Within(pos[c] - s[i + 1].pos[c], C, dt, At(s, i + 1) - tau)
         /\ Less(s[i + 1].pos[c] - pos[c] - 1, C, dt, At(s, i + 1) - tau)
<1>1. PICK p \in Int : p = pos[c]
  BY PassesIs
<1>2. PICK x \in Int : x = s[i].pos[c]
  BY PassesIs
<1>3. PICK y \in Int : y = s[i + 1].pos[c]
  BY PassesIs
<1>4. PICK a \in Int : a = At(s, i)
  BY PassesIs
<1>5. PICK b \in Int : b = At(s, i + 1)
  BY PassesIs
<1>6. PICK d \in Nat \ {0} : d = b - a
  BY <1>4, <1>5, PassesIs
<1>7. a <= tau /\ tau <= b
  BY <1>4, <1>5, PassesIs
<1>8. PICK u \in Nat : u = tau - a
  BY <1>7
<1>9. PICK v \in Nat : v = b - tau
  BY <1>7
<1>10. PICK dist \in Int : dist = y - x
  OBVIOUS
<1>11. PICK back \in Int : back = x - y
  OBVIOUS
<1>12. (p - x) * d <= dist * u /\ dist * u < (p - x) * d + d
  BY <1>1, <1>2, <1>3, <1>4, <1>5, <1>6, <1>8, <1>10, PassesIs
<1>13. Within(dist, C, dt, d) /\ Within(back, C, dt, d)
  BY <1>2, <1>3, <1>4, <1>5, <1>6, <1>10, <1>11 DEF Slow
<1>14. back = -dist /\ dist = -back
  BY <1>10, <1>11
<1>15. Within(p - x, C, dt, u) /\ Less(-(p - x) - 1, C, dt, u)
  <2>1. p - x \in Int /\ Within(-dist, C, dt, d)
    BY <1>13, <1>14
  <2> QED
    BY ONLY <1>12, <1>13, <2>1, FromBegin, dist \in Int, u \in Nat, d \in Nat \ {0}, C \in Nat,
            dt \in Nat \ {0}, Zenon
<1>16. Within(p - y, C, dt, v) /\ Less(-(p - y) - 1, C, dt, v)
  <2>1. p - y \in Int /\ Within(-back, C, dt, d)
    BY <1>13, <1>14
  <2>2. u = d - v /\ p - y = p - x - dist
    BY <1>6, <1>8, <1>9, <1>10
  <2>3. (p - y) * d = (p - x) * d - dist * d /\ back * v = dist * u - dist * d
    BY <1>14, <2>2
  <2>4. (p - y) * d <= back * v /\ back * v < (p - y) * d + d
    BY <1>12, <2>3
  <2> QED
    BY ONLY <1>13, <2>1, <2>4, FromBegin, back \in Int, v \in Nat, d \in Nat \ {0}, C \in Nat,
            dt \in Nat \ {0}, Zenon
<1>17. -(p - x) - 1 = x - p - 1 /\ -(p - y) - 1 = y - p - 1
  OBVIOUS
<1> QED
  BY <1>1, <1>2, <1>3, <1>4, <1>5, <1>8, <1>9, <1>15, <1>16, <1>17

(* The way to a point by another one,                                      *)
LEMMA Via ==
  ASSUME NEW p \in Int, NEW x \in Int, NEW y \in Int, NEW C \in Nat, NEW dt \in Nat,
         NEW t \in Int, NEW u \in Int, NEW v \in Int, v = t + u,
         Within(y - x, C, dt, t), Within(x - y, C, dt, t),
         Within(p - y, C, dt, u), Less(y - p - 1, C, dt, u)
  PROVE  Within(p - x, C, dt, v) /\ Less(x - p - 1, C, dt, v)
<1>1. Within((y - x) + (p - y), C, dt, t + u) /\ Less((x - y) + (y - p - 1), C, dt, t + u)
  <2>1. y - x \in Int /\ x - y \in Int /\ p - y \in Int /\ y - p - 1 \in Int
    OBVIOUS
  <2> QED
    BY <2>1, SumWithin, Zenon
<1>2. (y - x) + (p - y) = p - x /\ (x - y) + (y - p - 1) = x - p - 1
  OBVIOUS
<1> QED
  BY <1>1, <1>2

(* and from one point to the other by a third.                             *)
LEMMA Across ==
  ASSUME NEW p \in Int, NEW q \in Int, NEW x \in Int, NEW C \in Nat, NEW dt \in Nat,
         NEW t \in Int, NEW u \in Int, NEW v \in Int, v = t + u,
         Within(p - x, C, dt, t), Less(x - p - 1, C, dt, t),
         Within(q - x, C, dt, u), Less(x - q - 1, C, dt, u)
  PROVE  Less(q - p - 1, C, dt, v) /\ Less(p - q - 1, C, dt, v)
<1>1. Less((q - x) + (x - p - 1), C, dt, u + t) /\ Less((p - x) + (x - q - 1), C, dt, t + u)
  <2>1. q - x \in Int /\ x - p - 1 \in Int /\ p - x \in Int /\ x - q - 1 \in Int
    OBVIOUS
  <2> QED
    BY <2>1, SumWithin, Zenon
<1>2. (q - x) + (x - p - 1) = q - p - 1 /\ (p - x) + (x - q - 1) = p - q - 1 /\ u + t = t + u
  OBVIOUS
<1> QED
  BY <1>1, <1>2

(* So is it from any sample before, *)
LEMMA FromSample ==
  ASSUME NEW s, NEW w \in Nat, IsTrajectory(s, w), NEW c \in 1..w,
         NEW C \in Nat, NEW dt \in Nat \ {0}, Slow(s, c, C, dt),
         NEW tau \in Int, NEW pos, NEW a \in 1..Len(s) - 1, Passes(s, a, tau, pos),
         NEW i \in 1..Len(s), At(s, i) <= tau
  PROVE  /\ Within(pos[c] - s[i].pos[c], C, dt, tau - At(s, i))
         /\ Less(s[i].pos[c] - pos[c] - 1, C, dt, tau - At(s, i))
<1>1. /\ Len(s) \in Nat /\ a \in 1..Len(s) /\ a + 1 \in 1..Len(s)
      /\ pos[c] \in Int /\ At(s, a) \in Int /\ At(s, a + 1) \in Int /\ At(s, i) \in Int
      /\ s[a].pos[c] \in Int /\ tau <= At(s, a + 1)
  BY PassesIs, Offsets
<1>2. s[i].pos[c] \in Int
  <2>1. s[i].pos \in [1..w -> Int]
    BY Offsets
  <2> QED
    BY <2>1
<1>3. CASE i <= a
  <2>1. PICK t \in Int : t = At(s, a) - At(s, i)
    BY <1>1
  <2>2. PICK u \in Int : u = tau - At(s, a)
    BY <1>1
  <2>3. PICK v \in Int : v = tau - At(s, i)
    BY <1>1
  <2>4. v = t + u /\ dt \in Nat
    <3>1. v = t + u
      BY <1>1, <2>1, <2>2, <2>3
    <3> QED
      BY <3>1
  <2>5. /\ Within(s[a].pos[c] - s[i].pos[c], C, dt, t)
        /\ Within(s[i].pos[c] - s[a].pos[c], C, dt, t)
    BY <1>1, <1>3, <2>1, BetweenSamples
  <2>6. Within(pos[c] - s[a].pos[c], C, dt, u) /\ Less(s[a].pos[c] - pos[c] - 1, C, dt, u)
    BY <2>2, NearEnds
  <2>7. Within(pos[c] - s[i].pos[c], C, dt, v) /\ Less(s[i].pos[c] - pos[c] - 1, C, dt, v)
    BY ONLY <1>1, <1>2, <2>4, <2>5, <2>6, Via, C \in Nat, t \in Int, u \in Int, v \in Int, Zenon
  <2> QED
    BY <2>3, <2>7
<1>4. CASE ~(i <= a)
  <2>1. i = a + 1 /\ tau = At(s, i)
    <3>1. a + 1 < i => At(s, a + 1) < At(s, i)
      BY <1>1, Offsets
    <3> QED
      BY <1>1, <1>4, <3>1
  <2>2. At(s, a + 1) - tau = tau - At(s, i)
    BY <1>1, <2>1
  <2> QED
    BY <2>1, <2>2, NearEnds
<1> QED
  BY <1>3, <1>4

(* and to any sample after. *)
LEMMA ToSample ==
  ASSUME NEW s, NEW w \in Nat, IsTrajectory(s, w), NEW c \in 1..w,
         NEW C \in Nat, NEW dt \in Nat \ {0}, Slow(s, c, C, dt),
         NEW tau \in Int, NEW pos, NEW a \in 1..Len(s) - 1, Passes(s, a, tau, pos),
         NEW i \in 1..Len(s), tau <= At(s, i)
  PROVE  /\ Within(pos[c] - s[i].pos[c], C, dt, At(s, i) - tau)
         /\ Less(s[i].pos[c] - pos[c] - 1, C, dt, At(s, i) - tau)
<1>1. /\ Len(s) \in Nat /\ a \in 1..Len(s) /\ a + 1 \in 1..Len(s)
      /\ pos[c] \in Int /\ At(s, a) \in Int /\ At(s, a + 1) \in Int /\ At(s, i) \in Int
      /\ s[a + 1].pos[c] \in Int /\ At(s, a) <= tau
  BY PassesIs, Offsets
<1>2. s[i].pos[c] \in Int
  <2>1. s[i].pos \in [1..w -> Int]
    BY Offsets
  <2> QED
    BY <2>1
<1>3. CASE a + 1 <= i
  <2>1. PICK t \in Int : t = At(s, i) - At(s, a + 1)
    BY <1>1
  <2>2. PICK u \in Int : u = At(s, a + 1) - tau
    BY <1>1
  <2>3. PICK v \in Int : v = At(s, i) - tau
    BY <1>1
  <2>4. v = t + u /\ dt \in Nat
    <3>1. v = t + u
      BY <1>1, <2>1, <2>2, <2>3
    <3> QED
      BY <3>1
  <2>5. /\ Within(s[a + 1].pos[c] - s[i].pos[c], C, dt, t)
        /\ Within(s[i].pos[c] - s[a + 1].pos[c], C, dt, t)
    BY <1>1, <1>3, <2>1, BetweenSamples
  <2>6. Within(pos[c] - s[a + 1].pos[c], C, dt, u) /\ Less(s[a + 1].pos[c] - pos[c] - 1, C, dt, u)
    BY <2>2, NearEnds
  <2>7. Within(pos[c] - s[i].pos[c], C, dt, v) /\ Less(s[i].pos[c] - pos[c] - 1, C, dt, v)
    BY ONLY <1>1, <1>2, <2>4, <2>5, <2>6, Via, C \in Nat, t \in Int, u \in Int, v \in Int, Zenon
  <2> QED
    BY <2>3, <2>7
<1>4. CASE ~(a + 1 <= i)
  <2>1. i = a /\ tau = At(s, i)
    <3>1. i < a => At(s, i) < At(s, a)
      BY <1>1, Offsets
    <3> QED
      BY <1>1, <1>4, <3>1
  <2>2. tau - At(s, a) = At(s, i) - tau
    BY <1>1, <2>1
  <2> QED
    BY <2>1, <2>2, NearEnds
<1> QED
  BY <1>3, <1>4

(* There is a number for each column. *)
LEMMA ReachedIsNumber ==
  ASSUME NEW s, NEW w \in Nat, IsTrajectory(s, w), NEW tau \in Int, NEW pos, Reached(s, tau, pos)
  PROVE  DOMAIN pos = 1..w /\ \A c \in 1..w : pos[c] \in Int
<1>1. CASE Len(s) = 1 /\ pos = s[1].pos
  <2>1. s[1].pos \in [1..w -> Int]
    BY <1>1, Offsets
  <2> QED
    BY <1>1, <2>1
<1>2. ASSUME NEW i \in 1..Len(s) - 1, Passes(s, i, tau, pos)
      PROVE  DOMAIN pos = 1..w /\ \A c \in 1..w : pos[c] \in Int
  <2>1. \A c \in 1..w : pos[c] \in Int
    BY <1>2, PassesIs
  <2>2. i \in 1..Len(s) /\ i + 1 \in 1..Len(s)
    BY Offsets
  <2>3. DOMAIN s[i].pos = 1..w /\ DOMAIN s[i + 1].pos = 1..w
    BY <2>2, Offsets
  <2>4. DOMAIN pos = 1..w
    BY <1>2, <2>3 DEF Passes, Between
  <2> QED
    BY <2>1, <2>4
<1> QED
  BY <1>1, <1>2 DEF Reached

(* And so is it from one point to another. *)
LEMMA TwoPoints ==
  ASSUME NEW s, NEW w \in Nat, IsTrajectory(s, w), NEW c \in 1..w,
         NEW C \in Nat, NEW dt \in Nat \ {0}, Slow(s, c, C, dt),
         NEW t \in Int, NEW p, Reached(s, t, p),
         NEW u \in Int, NEW q, Reached(s, u, q), t <= u
  PROVE  /\ p[c] \in Int /\ q[c] \in Int
         /\ Less(q[c] - p[c] - 1, C, dt, u - t)
         /\ Less(p[c] - q[c] - 1, C, dt, u - t)
<1>1. /\ Len(s) \in Nat \ {0}
      /\ \A i \in 1..Len(s) : At(s, i) \in Int /\ s[i].pos \in [1..w -> Int]
  BY Offsets
<1>2. \A i \in 1..Len(s) : s[i].pos[c] \in Int
  BY <1>1
<1>3. PICK v \in Int : v = u - t
  OBVIOUS
<1>4. CASE Len(s) = 1
  <2>1. t = 0 /\ u = 0 /\ p = s[1].pos /\ q = s[1].pos
    BY <1>4 DEF Reached
  <2>2. PICK x \in Int : x = s[1].pos[c]
    BY <1>1, <1>2
  <2>3. Less(x - x - 1, C, dt, 0)
    BY DEF Less
  <2> QED
    BY <2>1, <2>2, <2>3
<1>5. CASE Len(s) # 1
  <2>1. PICK a \in 1..Len(s) - 1 : Passes(s, a, t, p)
    BY <1>5 DEF Reached
  <2>2. PICK b \in 1..Len(s) - 1 : Passes(s, b, u, q)
    BY <1>5 DEF Reached
  <2>3. p[c] \in Int /\ q[c] \in Int
    BY <2>1, <2>2, PassesIs
  <2>4. ASSUME NEW i \in 1..Len(s), t <= At(s, i), At(s, i) <= u
        PROVE  /\ Less(q[c] - p[c] - 1, C, dt, v)
               /\ Less(p[c] - q[c] - 1, C, dt, v)
    <3>1. PICK k \in Int : k = At(s, i) - t
      BY <1>1
    <3>2. PICK l \in Int : l = u - At(s, i)
      BY <1>1
    <3>3. v = k + l /\ s[i].pos[c] \in Int /\ dt \in Nat
      BY <1>1, <1>2, <1>3, <3>1, <3>2
    <3>4. Within(p[c] - s[i].pos[c], C, dt, k) /\ Less(s[i].pos[c] - p[c] - 1, C, dt, k)
      BY <2>1, <2>4, <3>1, ToSample
    <3>5. Within(q[c] - s[i].pos[c], C, dt, l) /\ Less(s[i].pos[c] - q[c] - 1, C, dt, l)
      BY <2>2, <2>4, <3>2, FromSample
    <3> QED
      BY ONLY <2>3, <3>3, <3>4, <3>5, Across, C \in Nat, k \in Int, l \in Int, v \in Int, Zenon
  <2>5. CASE a = b
    <3>1. PICK pp \in Int : pp = p[c]
      BY <2>3
    <3>2. PICK qq \in Int : qq = q[c]
      BY <2>3
    <3>3. PICK x \in Int : x = s[a].pos[c]
      BY <2>1, PassesIs
    <3>4. PICK y \in Int : y = s[a + 1].pos[c]
      BY <2>1, PassesIs
    <3>5. PICK d \in Nat \ {0} : d = At(s, a + 1) - At(s, a)
      BY <2>1, PassesIs
    <3>6. At(s, a) \in Int /\ At(s, a) <= t
      BY <2>1, PassesIs
    <3>7. PICK k \in Nat : k = t - At(s, a)
      BY <3>6
    <3>8. PICK l \in Nat : l = u - At(s, a) /\ k <= l /\ l - k = v
      <4>1. PICK o \in Int : o = At(s, a) /\ o <= t
        BY <3>6
      <4>2. u - o \in Nat /\ k <= u - o /\ (u - o) - k = v
        BY <1>3, <3>7, <4>1
      <4> QED
        BY <4>1, <4>2
    <3>9. (pp - x) * d <= (y - x) * k /\ (y - x) * k < (pp - x) * d + d
      BY <2>1, <3>1, <3>3, <3>4, <3>5, <3>7, PassesIs
    <3>10. (qq - x) * d <= (y - x) * l /\ (y - x) * l < (qq - x) * d + d
      BY <2>2, <2>5, <3>2, <3>3, <3>4, <3>5, <3>8, PassesIs
    <3>11. Within(y - x, C, dt, d) /\ Within(x - y, C, dt, d) /\ x - y = -(y - x)
      <4>1. x - y = -(y - x)
        OBVIOUS
      <4> QED
        BY <3>3, <3>4, <3>5, <4>1 DEF Slow
    <3>12. pp - x \in Int /\ qq - x \in Int /\ y - x \in Int /\ Within(-(y - x), C, dt, d)
      BY <3>11
    <3>13. Less((qq - x) - (pp - x) - 1, C, dt, l - k) /\ Less((pp - x) - (qq - x) - 1, C, dt, l - k)
      BY ONLY <3>8, <3>9, <3>10, <3>11, <3>12, OnOneWay, k \in Nat, l \in Nat, d \in Nat \ {0},
              C \in Nat, dt \in Nat \ {0}, Zenon
    <3>14. (qq - x) - (pp - x) - 1 = qq - pp - 1 /\ (pp - x) - (qq - x) - 1 = pp - qq - 1
      OBVIOUS
    <3> QED
      BY <1>3, <3>1, <3>2, <3>8, <3>13, <3>14
  <2>6. CASE a # b
    <3>1. /\ a \in 1..Len(s) /\ a + 1 \in 1..Len(s) /\ b \in 1..Len(s) /\ b + 1 \in 1..Len(s)
          /\ At(s, a) <= t /\ t <= At(s, a + 1) /\ At(s, b) <= u /\ u <= At(s, b + 1)
      BY <2>1, <2>2, PassesIs
    <3>2. \A i, j \in 1..Len(s) : i <= j => At(s, i) <= At(s, j)
      <4> TAKE i, j \in 1..Len(s)
      <4>1. i < j => At(s, i) < At(s, j)
        BY Offsets
      <4> QED
        BY <1>1, <4>1
    <3>3. CASE a < b
      <4>1. At(s, a + 1) <= At(s, b)
        BY <1>1, <3>1, <3>2, <3>3
      <4>2. t <= At(s, b)
        BY <1>1, <3>1, <4>1
      <4> QED
        BY <1>3, <2>3, <2>4, <3>1, <4>2
    <3>4. CASE b < a
      <4>1. At(s, b + 1) <= At(s, a)
        BY <1>1, <3>1, <3>2, <3>4
      <4>2. t <= At(s, a) /\ At(s, a) <= u
        BY <1>1, <3>1, <4>1
      <4> QED
        BY <1>3, <2>3, <2>4, <3>1, <4>2
    <3> QED
      BY <1>1, <2>6, <3>3, <3>4
  <2> QED
    BY <1>3, <2>3, <2>5, <2>6
<1> QED
  BY <1>4, <1>5

(* Folding the time back takes nothing faster through it. *)
LEMMA FoldedIsSlow ==
  ASSUME NEW s, NEW w \in Nat, IsTrajectory(s, w), NEW forEver \in BOOLEAN,
         NEW e \in Nat, NEW f \in Nat, e <= f
  PROVE  /\ Folded(s, e, forEver) \in Int /\ Folded(s, f, forEver) \in Int
         /\ Folded(s, f, forEver) - Folded(s, e, forEver) <= f - e
         /\ Folded(s, e, forEver) - Folded(s, f, forEver) <= f - e
<1>1. TotalDuration(s) \in Nat
  <2>1. Len(s) \in Nat \ {0} /\ 1 \in 1..Len(s) /\ Len(s) \in 1..Len(s)
    BY Offsets
  <2> QED
    BY <2>1, Offsets
<1>2. PICK total \in Nat : total = TotalDuration(s)
  BY <1>1
<1>3. CASE total = 0
  <2>1. Folded(s, e, forEver) = 0 /\ Folded(s, f, forEver) = 0
    BY <1>2, <1>3 DEF Folded
  <2> QED
    BY <2>1
<1>4. CASE total # 0 /\ ~forEver
  <2>1. /\ Folded(s, e, forEver) = IF e < total THEN e ELSE total
        /\ Folded(s, f, forEver) = IF f < total THEN f ELSE total
    BY <1>2, <1>4 DEF Folded
  <2> QED
    BY <2>1
<1>5. CASE total # 0 /\ forEver
  <2> DEFINE Back(x) == IF x <= total THEN x ELSE 2 * total - x
  <2>1. PICK d \in Nat \ {0} : d = 2 * total
    BY <1>5
  <2>2. ASSUME NEW x \in Nat
        PROVE  \E k \in Nat, r \in 0..d - 1 : x = k * d + r /\ r = x % d
    <3>1. x \div d \in Nat /\ x % d \in 0..d - 1 /\ x = ((x \div d) * d) + (x % d)
      OBVIOUS
    <3> QED
      BY <3>1, Zenon
  <2>3. PICK k \in Nat, r \in 0..d - 1 : e = k * d + r /\ r = e % d
    BY <2>2
  <2>4. PICK l \in Nat, q \in 0..d - 1 : f = l * d + q /\ q = f % d
    BY <2>2
  <2>5. Folded(s, e, forEver) = Back(r) /\ Folded(s, f, forEver) = Back(q)
    BY <1>2, <1>5, <2>1, <2>3, <2>4 DEF Folded
  <2>6. Back(r) \in 0..total /\ Back(r) <= d - r /\ Back(q) \in 0..total /\ Back(q) <= q
    BY <2>1, <2>3, <2>4
  <2>7. CASE k = l
    <3>1. f - e = q - r
      BY <2>3, <2>4, <2>7
    <3> QED
      BY <2>1, <2>5, <3>1
  <2>8. CASE k # l
    <3>1. k < l
      <4> SUFFICES ASSUME l < k
                   PROVE  FALSE
        BY <2>8
      <4>1. PICK n \in Nat \ {0} : k = l + n
        OBVIOUS
      <4>2. n * d >= d
        OBVIOUS
      <4>3. k * d = l * d + n * d
        BY <4>1
      <4> QED
        BY <2>3, <2>4, <4>2, <4>3
    <3>2. PICK n \in Nat \ {0} : l = k + n
      BY <3>1
    <3>3. n * d >= d
      OBVIOUS
    <3>4. l * d = k * d + n * d
      BY <3>2
    <3>5. f - e >= (d - r) + q
      BY <2>3, <2>4, <3>3, <3>4
    <3> HIDE DEF Back
    <3> QED
      BY <2>5, <2>6, <3>5
  <2> QED
    BY <2>7, <2>8
<1> QED
  BY <1>3, <1>4, <1>5

(* A number and its distance from zero. *)
LEMMA AbsIs ==
  ASSUME NEW x \in Int
  PROVE  /\ Abs(x) \in Nat /\ x <= Abs(x) /\ -x <= Abs(x)
         /\ Abs(x) = x \/ Abs(x) = -x
BY DEF Abs

(* What is no further than something within the speed. *)
LEMMA SpeedWithin ==
  ASSUME NEW x \in Int, NEW v \in Nat, x <= v, NEW C \in Nat, NEW dt \in Nat, NEW d \in Int,
         ~((C + 1) * d < v * dt + d)
  PROVE  Within(x, C, dt, d)
<1>1. (C + 1) * d = C * d + d
  OBVIOUS
<1>2. v * dt \in Int /\ C * d \in Int
  OBVIOUS
<1>3. v * dt <= C * d
  BY <1>1, <1>2
<1>4. x * dt <= v * dt
  OBVIOUS
<1>5. x * dt \in Int
  OBVIOUS
<1> QED
  BY <1>2, <1>3, <1>4, <1>5 DEF Within

(* Less than C is what takes no more than dt. *)
LEMMA LessIs ==
  ASSUME NEW x \in Int, NEW C \in Nat, NEW dt \in Nat, NEW v \in Nat, v <= dt, Less(x, C, dt, v)
  PROVE  x < C
<1> SUFFICES ASSUME C <= x
             PROVE  FALSE
  OBVIOUS
<1>1. C * dt <= x * dt /\ C * v <= C * dt
  OBVIOUS
<1>2. C * dt \in Int /\ x * dt \in Int /\ C * v \in Int
  OBVIOUS
<1> QED
  BY <1>1, <1>2 DEF Less

(* From one evaluation to a later one no motor goes further than it does   *)
(* on some segment in the time.                                            *)
LEMMA EvaluatesSmoothly ==
  ASSUME NEW s, NEW w \in Nat, IsTrajectory(s, w), NEW forEver \in BOOLEAN,
         NEW e \in Nat, NEW f \in Nat, e <= f, NEW c \in 1..w,
         NEW p, p = EvaluateTrajectory(s, e, forEver).pos,
         NEW q, q = EvaluateTrajectory(s, f, forEver).pos
  PROVE  \E i \in 1..Len(s) :
           IF i = Len(s) THEN q[c] - p[c] = 0
           ELSE WithinSpeed(q[c] - p[c], s[i + 1].pos[c] - s[i].pos[c],
                            s[i + 1].time - s[i].time, f - e)
<1>1. /\ Len(s) \in Nat \ {0} /\ DOMAIN s = 1..Len(s)
      /\ \A i \in 1..Len(s) : At(s, i) \in Int /\ s[i].pos \in [1..w -> Int]
  BY Offsets
<1>2. 1 \in 1..Len(s) /\ Len(s) \in 1..Len(s)
  BY <1>1
<1>3. PICK t \in Int : t = Folded(s, e, forEver)
  BY Reaches
<1>4. PICK u \in Int : u = Folded(s, f, forEver)
  BY Reaches
<1>5. Reached(s, t, p) /\ Reached(s, u, q)
  BY <1>3, <1>4, Reaches
<1>6. u - t <= f - e /\ t - u <= f - e
  BY <1>3, <1>4, FoldedIsSlow
<1> SUFFICES ASSUME \A i \in 1..Len(s) :
                      ~(IF i = Len(s) THEN q[c] - p[c] = 0
                        ELSE WithinSpeed(q[c] - p[c], s[i + 1].pos[c] - s[i].pos[c],
                                         s[i + 1].time - s[i].time, f - e))
             PROVE  FALSE
  OBVIOUS
<1>7. q[c] - p[c] # 0
  BY <1>2
<1>8. ASSUME e = f
      PROVE  FALSE
  <2>1. p = q
    BY <1>8
  <2>2. p[c] \in Int
    BY <1>5, ReachedIsNumber
  <2> QED
    BY <1>7, <2>1, <2>2
<1>9. PICK dt \in Nat \ {0} : dt = f - e
  BY <1>8
<1>10. PICK x \in Int : x = p[c]
  BY <1>5, ReachedIsNumber
<1>11. PICK y \in Int : y = q[c]
  BY <1>5, ReachedIsNumber
<1>12. PICK far \in Nat \ {0} : far = Abs(y - x) /\ (far = y - x \/ far = x - y)
  <2>1. PICK z \in Int : z = y - x /\ z # 0 /\ -z = x - y
    BY <1>7, <1>10, <1>11
  <2>2. /\ Abs(z) \in Nat /\ z <= Abs(z) /\ -z <= Abs(z)
        /\ Abs(z) = z \/ Abs(z) = -z
    BY AbsIs
  <2>3. Abs(z) \in Nat \ {0} /\ Abs(y - x) = Abs(z)
    BY <2>1, <2>2
  <2> QED
    BY <2>1, <2>2, <2>3
<1>13. PICK C \in Nat : far = C + 1
  <2>1. far - 1 \in Nat /\ far = (far - 1) + 1
    OBVIOUS
  <2> QED
    BY <2>1, Zenon
<1>14. Slow(s, c, C, dt)
  <2> SUFFICES ASSUME NEW i \in 1..Len(s) - 1
               PROVE  /\ Within(s[i + 1].pos[c] - s[i].pos[c], C, dt, At(s, i + 1) - At(s, i))
                      /\ Within(s[i].pos[c] - s[i + 1].pos[c], C, dt, At(s, i + 1) - At(s, i))
    BY DEF Slow
  <2>1. i \in 1..Len(s) /\ i + 1 \in 1..Len(s) /\ i # Len(s)
    <3>1. PICK n \in Nat : n = Len(s)
      BY <1>1
    <3> QED
      BY <3>1
  <2>2. PICK a \in Int : a = s[i].pos[c]
    BY <1>1, <2>1
  <2>3. PICK b \in Int : b = s[i + 1].pos[c]
    BY <1>1, <2>1
  <2>4. PICK d \in Int : d = s[i + 1].time - s[i].time /\ d = At(s, i + 1) - At(s, i)
    <3>1. PICK k \in Int : k = s[i].time
      BY <2>1, Offsets
    <3>2. PICK l \in Int : l = s[i + 1].time
      BY <2>1, Offsets
    <3>3. PICK o \in Int : o = s[1].time
      BY <1>2, Offsets
    <3>4. l - k \in Int /\ l - k = (l - o) - (k - o)
      OBVIOUS
    <3>5. At(s, i) = k - o /\ At(s, i + 1) = l - o
      BY <3>1, <3>2, <3>3 DEF At
    <3> QED
      BY <3>1, <3>2, <3>4, <3>5
  <2>5. ~WithinSpeed(y - x, b - a, d, dt)
    BY <1>9, <1>10, <1>11, <2>1, <2>2, <2>3, <2>4
  <2>6. PICK v \in Nat : v = Abs(b - a) /\ b - a <= v /\ a - b <= v
    <3>1. PICK z \in Int : z = b - a /\ -z = a - b
      OBVIOUS
    <3> QED
      BY <3>1, AbsIs
  <2>7. ~((C + 1) * d < v * dt + d)
    BY <1>12, <1>13, <2>5, <2>6, Zenon DEF WithinSpeed
  <2>8. Within(b - a, C, dt, d) /\ Within(a - b, C, dt, d)
    <3>1. b - a \in Int /\ a - b \in Int /\ dt \in Nat
      OBVIOUS
    <3> QED
      BY ONLY <2>6, <2>7, <3>1, SpeedWithin, v \in Nat, C \in Nat, d \in Int, Zenon
  <2> QED
    BY <2>2, <2>3, <2>4, <2>8
<1>15. ASSUME NEW v \in Nat, v <= dt, Less(y - x - 1, C, dt, v), Less(x - y - 1, C, dt, v)
       PROVE  FALSE
  <2>1. y - x - 1 \in Int /\ x - y - 1 \in Int /\ dt \in Nat
    OBVIOUS
  <2>2. y - x - 1 < C /\ x - y - 1 < C
    BY ONLY <1>15, <2>1, LessIs, v \in Nat, C \in Nat, Zenon
  <2> QED
    BY <1>12, <1>13, <2>2
<1>16. CASE t <= u
  <2>1. Less(y - x - 1, C, dt, u - t) /\ Less(x - y - 1, C, dt, u - t)
    BY <1>5, <1>10, <1>11, <1>14, <1>16, TwoPoints
  <2>2. u - t \in Nat /\ u - t <= dt
    BY <1>6, <1>9, <1>16
  <2> QED
    BY <1>15, <2>1, <2>2
<1>17. CASE ~(t <= u)
  <2>1. u <= t
    BY <1>17
  <2>2. Less(x - y - 1, C, dt, t - u) /\ Less(y - x - 1, C, dt, t - u)
    BY <1>5, <1>10, <1>11, <1>14, <2>1, TwoPoints
  <2>3. t - u \in Nat /\ t - u <= dt
    BY <1>6, <1>9, <2>1
  <2> QED
    BY <1>15, <2>2, <2>3
<1> QED
  BY <1>16, <1>17

(* The evaluation begins at the first sample. *)
LEMMA BeginsAtFirst ==
  ASSUME NEW s, NEW w \in Nat, IsTrajectory(s, w), NEW forEver \in BOOLEAN
  PROVE  EvaluateTrajectory(s, 0, forEver).pos = s[1].pos
<1> DEFINE pos == EvaluateTrajectory(s, 0, forEver).pos
<1>1. Reached(s, 0, pos)
  <2>1. Len(s) \in Nat \ {0} /\ 1 \in 1..Len(s) /\ Len(s) \in 1..Len(s)
    BY Offsets
  <2>2. PICK total \in Nat : total = TotalDuration(s)
    BY <2>1, Offsets
  <2>3. total # 0 => 0 % (2 * total) = 0
    OBVIOUS
  <2>4. Folded(s, 0, forEver) = 0
    BY <2>2, <2>3 DEF Folded
  <2> QED
    BY <2>4, Reaches
<1> HIDE DEF pos
<1>2. CASE Len(s) = 1
  BY <1>1, <1>2 DEF Reached, pos
<1>3. ASSUME NEW i \in 1..Len(s) - 1, Passes(s, i, 0, pos)
      PROVE  pos = s[1].pos
  <2>1. Len(s) \in Nat /\ i \in 1..Len(s) /\ i + 1 \in 1..Len(s) /\ i < i + 1 /\ 1 \in 1..Len(s)
    BY Offsets
  <2>2. i = 1
    <3>1. 1 < i => At(s, 1) < At(s, i)
      BY <2>1, Offsets
    <3>2. At(s, i) <= 0 /\ At(s, 1) = 0 /\ At(s, i) \in Int
      BY <1>3, <2>1, Offsets DEF Passes
    <3> QED
      BY <3>1, <3>2
  <2>3. PICK d \in Nat \ {0} : d = At(s, i + 1)
    <3>1. At(s, 1) < At(s, i + 1) /\ At(s, 1) = 0 /\ At(s, i + 1) \in Int
      BY <2>1, <2>2, Offsets
    <3> QED
      BY <3>1
  <2>4. At(s, i) = 0 /\ d - 0 = d
    BY <2>2, Offsets
  <2>5. s[i].pos \in [1..w -> Int] /\ s[i + 1].pos \in [1..w -> Int]
    BY <2>1, Offsets
  <2>6. pos = Between(s[i].pos, s[i + 1].pos, 0, d) \/ pos = Between(s[i + 1].pos, s[i].pos, d, d)
    BY <1>3, <2>3, <2>4 DEF Passes
  <2>7. /\ Between(s[i].pos, s[i + 1].pos, 0, d) = s[i].pos
        /\ Between(s[i + 1].pos, s[i].pos, d, d) = s[i].pos
    BY ONLY <2>5, EndsOf, w \in Nat, d \in Nat \ {0}, Zenon
  <2> QED
    BY <2>2, <2>6, <2>7
<1> QED
  BY <1>1, <1>2, <1>3 DEF Reached, pos

(* Two rounded positions on a way: how far the second is from the first.   *)
LEMMA FarOnWay ==
  ASSUME NEW x \in Int, NEW y \in Int, NEW D \in Int, NEW u \in Int, NEW v \in Int,
         NEW d \in Nat \ {0}, NEW k \in Nat, v = u + k, NEW g \in Nat, k <= g,
         NEW far \in Nat, D <= far, -D <= far,
         x * d <= D * u, D * u < x * d + d, y * d <= D * v, D * v < y * d + d
  PROVE  (y - x) * d < far * g + d /\ (x - y) * d < far * g + d
<1>1. D * v = D * u + D * k
  OBVIOUS
<1>2. (y - x) * d = y * d - x * d /\ (x - y) * d = x * d - y * d
  OBVIOUS
<1>3. x * d \in Int /\ y * d \in Int /\ D * u \in Int /\ D * v \in Int /\ D * k \in Int
  OBVIOUS
<1>4. (y - x) * d < D * k + d /\ (x - y) * d < d - D * k
  BY <1>1, <1>2, <1>3
<1>5. D * k <= far * k
  OBVIOUS
<1>6. (-D) * k <= far * k
  OBVIOUS
<1>7. (-D) * k = -(D * k)
  OBVIOUS
<1>8. far * k <= far * g /\ far * k \in Int /\ far * g \in Int
  OBVIOUS
<1> QED
  BY <1>2, <1>3, <1>4, <1>5, <1>6, <1>7, <1>8

(* On the way to the first sample, or back, no motor goes further than the *)
(* time takes it.                                                          *)
LEMMA WayIsSmooth ==
  ASSUME NEW w \in Nat, NEW from \in [1..w -> Int], NEW to \in [1..w -> Int], NEW d \in Nat \ {0},
         NEW e \in Nat, NEW f \in Nat, e <= f, NEW c \in 1..w
  PROVE  WithinSpeed(InterpolatePositions(from, to, f, d)[c] - InterpolatePositions(from, to, e, d)[c],
                     to[c] - from[c], d, f - e)
<1> DEFINE Part(x) == IF x > d THEN d ELSE x
<1>1. PICK x \in Int : x = from[c]
  OBVIOUS
<1>2. PICK y \in Int : y = to[c]
  OBVIOUS
<1>3. \A h \in Nat : InterpolatePositions(from, to, h, d)[c] = x + (((y - x) * Part(h)) \div d)
  BY <1>1, <1>2 DEF InterpolatePositions, Between
<1>4. PICK u \in Int : u = Part(e)
  OBVIOUS
<1>5. PICK v \in Int : v = Part(f)
  OBVIOUS
<1>6. v - u \in Nat /\ v - u <= f - e
  BY <1>4, <1>5
<1> HIDE DEF Part
<1>7. PICK p \in Int : /\ p = InterpolatePositions(from, to, e, d)[c]
                       /\ (p - x) * d <= (y - x) * u /\ (y - x) * u < (p - x) * d + d
  <2>1. InterpolatePositions(from, to, e, d)[c] = x + (((y - x) * u) \div d)
    BY <1>3, <1>4
  <2> QED
    BY ONLY <2>1, RoundedDown, x \in Int, y \in Int, u \in Int, d \in Nat \ {0}, Zenon
<1>8. PICK q \in Int : /\ q = InterpolatePositions(from, to, f, d)[c]
                       /\ (q - x) * d <= (y - x) * v /\ (y - x) * v < (q - x) * d + d
  <2>1. InterpolatePositions(from, to, f, d)[c] = x + (((y - x) * v) \div d)
    BY <1>3, <1>5
  <2> QED
    BY ONLY <2>1, RoundedDown, x \in Int, y \in Int, v \in Int, d \in Nat \ {0}, Zenon
<1>9. PICK g \in Nat : g = f - e
  OBVIOUS
<1>10. PICK k \in Nat : v = u + k /\ k <= g
  <2>1. v - u \in Nat /\ v = u + (v - u) /\ v - u <= g
    BY <1>6, <1>9
  <2> QED
    BY <2>1, Zenon
<1>11. PICK D \in Int : D = y - x
  OBVIOUS
<1>12. PICK far \in Nat : far = Abs(D) /\ D <= far /\ -D <= far
  BY AbsIs
<1>13. ((q - x) - (p - x)) * d < far * g + d /\ ((p - x) - (q - x)) * d < far * g + d
  <2>1. p - x \in Int /\ q - x \in Int
    OBVIOUS
  <2> QED
    BY ONLY <1>7, <1>8, <1>10, <1>11, <1>12, <2>1, FarOnWay, D \in Int, u \in Int, v \in Int,
            d \in Nat \ {0}, k \in Nat, g \in Nat, far \in Nat, Zenon
<1>14. (q - x) - (p - x) = q - p /\ (p - x) - (q - x) = -(q - p) /\ q - p \in Int
  OBVIOUS
<1>15. Abs(q - p) * d < far * g + d
  <2>1. Abs(q - p) = q - p \/ Abs(q - p) = -(q - p)
    BY <1>14 DEF Abs
  <2> QED
    BY <1>13, <1>14, <2>1
<1> QED
  BY <1>1, <1>2, <1>7, <1>8, <1>9, <1>11, <1>12, <1>15, Zenon DEF WithinSpeed

-----------------------------------------------------------------------------
(* The elements of a sequence. *)
LEMMA Elements ==
  ASSUME NEW S, NEW q \in Seq(S)
  PROVE  /\ Len(q) \in Nat /\ DOMAIN q = 1..Len(q) /\ q \in [1..Len(q) -> S]
         /\ q # <<>> => Len(q) # 0
OBVIOUS

(* Of a trajectory: it has a last sample, and when there is more than one  *)
(* it takes time.                                                          *)
LEMMA Samples ==
  ASSUME IInv
  PROVE  /\ Width0 \in Nat
         /\ LastSample(file.samples).pos \in [1..Width0 -> Int]
         /\ TotalDuration(file.samples) <= 0 =>
              FirstSample(file.samples) = LastSample(file.samples)
         /\ TotalDuration(file.samples) \in Int
<1> DEFINE s == file.samples
<1>1. /\ file.columns \in Seq(Nat)
      /\ s \in Seq([time : Int, pos : Seq(Int)]) /\ s # <<>>
      /\ \A i \in DOMAIN s : Len(s[i].pos) = Width0
      /\ \A i, j \in DOMAIN s : i < j => s[i].time < s[j].time
  BY StartAssumption DEF IInv, StartInv, IsTrajectory, Width0
<1> DEFINE n == Len(s)
<1> HIDE DEF s
<1>2. n \in Nat \ {0} /\ DOMAIN s = 1..n /\ s \in [1..n -> [time : Int, pos : Seq(Int)]]
  BY <1>1, Elements
<1> HIDE DEF n
<1>3. n \in DOMAIN s /\ 1 \in DOMAIN s
  BY <1>2
<1>4. s[n] \in [time : Int, pos : Seq(Int)] /\ s[1] \in [time : Int, pos : Seq(Int)]
  BY <1>2, <1>3
<1>5. s[n].pos \in Seq(Int) /\ s[n].time \in Int /\ s[1].time \in Int
  BY <1>4
<1>6. s[n].pos \in [1..Width0 -> Int]
  BY <1>1, <1>3, <1>5, Elements
<1>7. n # 1 => s[1].time < s[n].time
  BY <1>1, <1>2, <1>3
<1>8. TotalDuration(s) = s[n].time - s[1].time
  BY DEF TotalDuration, At, n
<1>9. Width0 \in Nat
  BY <1>1, Elements DEF Width0
<1>10. TotalDuration(s) <= 0 => n = 1
  BY <1>2, <1>5, <1>7, <1>8
<1> QED
  BY <1>5, <1>6, <1>8, <1>9, <1>10 DEF LastSample, FirstSample, s, n

(* A playback that has ended is at the last sample. *)
LEMMA EndsAtLast ==
  ASSUME IInv, NEW e \in Int,
         ShouldReturnToInitialPosition(EvaluateTrajectory(file.samples, e, endless), endless)
  PROVE  /\ ~endless
         /\ EvaluateTrajectory(file.samples, e, endless).pos = LastSample(file.samples).pos
<1> DEFINE s == file.samples
<1>1. ~endless /\ EvaluateTrajectory(s, e, endless).finished
  BY DEF ShouldReturnToInitialPosition
<1>2. CASE TotalDuration(s) <= 0
  <2>1. EvaluateTrajectory(s, e, endless) = TerminalState(FirstSample(s), ~endless)
    BY <1>2 DEF EvaluateTrajectory
  <2> QED
    BY <1>1, <1>2, <2>1, Samples DEF TerminalState
<1>3. CASE ~(TotalDuration(s) <= 0)
  <2>1. PICK f \in Int : EvaluateTrajectory(s, e, endless) = EvaluateForward(s, f, TRUE)
    <3>1. CASE e < 0
      <4>1. EvaluateTrajectory(s, e, endless) = EvaluateForward(s, 0, TRUE)
        BY <1>1, <1>3, <3>1 DEF EvaluateTrajectory
      <4>2. 0 \in Int
        OBVIOUS
      <4> QED
        BY <4>1, <4>2, Zenon
    <3>2. CASE ~(e < 0)
      <4>1. EvaluateTrajectory(s, e, endless) = EvaluateForward(s, e, TRUE)
        BY <1>1, <1>3, <3>2 DEF EvaluateTrajectory
      <4> QED
        BY <4>1
    <3> QED
      BY <3>1, <3>2
  <2>2. CASE f >= TotalDuration(s)
    <3>1. EvaluateForward(s, f, TRUE) = TerminalState(LastSample(s), TRUE)
      BY <2>2 DEF EvaluateForward
    <3>2. EvaluateTrajectory(s, e, endless) = TerminalState(LastSample(s), TRUE)
      BY <2>1, <3>1
    <3>3. TerminalState(LastSample(s), TRUE).pos = LastSample(s).pos
      BY DEF TerminalState
    <3> QED
      BY <1>1, <3>2, <3>3
  <2>3. CASE ~(f >= TotalDuration(s))
    <3>1. EvaluateForward(s, f, TRUE).finished = FALSE
      BY <2>3 DEF EvaluateForward, InterpolateSegment
    <3> QED
      BY <1>1, <2>1, <3>1
  <2> QED
    BY <2>2, <2>3
<1> QED
  BY <1>2, <1>3

-----------------------------------------------------------------------------
(* The initial state satisfies the invariant. *)
LEMMA InitIInv == PlayInit => IInv
<1> SUFFICES ASSUME PlayInit
             PROVE  IInv
  OBVIOUS
<1> USE DEF PlayInit, StartInit, MotionInit
<1>1. driven \in Seq(Motors) /\ Len(driven) = 0 /\ DOMAIN held = {} /\ Driven = {}
  <2>1. driven = <<>> /\ held = <<>>
    OBVIOUS
  <2> HIDE DEF PlayInit, StartInit, MotionInit
  <2> QED
    BY <2>1 DEF Driven
<1>2. Width0 \in Nat
  BY StartAssumption, Elements DEF Width0
<1>3. StartInv
  BY <1>1, <1>2 DEF StartInv
<1>4. CallbackInv
  BY <1>1 DEF CallbackInv
<1>5. ClockInv
  <2>1. clock \in [paused : BOOLEAN, since : Int, total : Int]
    OBVIOUS
  <2>2. PlayNow(clock, now) = played
    BY DEF PlayNow
  <2>3. now = 0 /\ tick = 0 /\ played = 0 /\ pauseKey = FALSE
    OBVIOUS
  <2> QED
    BY <2>1, <2>2, <2>3 DEF ClockInv, PauseStopsTheClock
<1>6. WayInv
  BY DEF WayInv
<1>7. TrackInv
  BY DEF TrackInv
<1> QED
  BY <1>3, <1>4, <1>5, <1>6, <1>7 DEF IInv

(* The steps of the loop and after it; none of them touches the motors,    *)
(* and only Finish the callbacks.                                          *)
LoopStep ==
  \/ ReadInitialPositions \/ Startup \/ Playback \/ StopPlayback \/ Return
  \/ TogglePause \/ Interrupt \/ LeaveLoop

(* A step is one of Initialize, of the loop, or the end of the run. *)
LEMMA Steps ==
  ASSUME [PlayNext]_allVars
  PROVE  \/ (StartNext \/ Fail("read")) /\ UNCHANGED motionVars
         \/ LoopStep
         \/ Finish
         \/ UNCHANGED allVars
BY DEF PlayNext, LoopStep, Done, allVars

(* The loop leaves alone what Initialize set up. *)
LEMMA LoopFrame ==
  ASSUME LoopStep
  PROVE  /\ UNCHANGED <<file, endless, found, driven, held, monitored, callback>>
         /\ \/ pc = "read" /\ pc' = "loop"
            \/ pc = "loop" /\ pc' \in {"loop", "drain"}
BY DEF LoopStep, ReadInitialPositions, Startup, Playback, StopPlayback, Return, TogglePause,
       Interrupt, LeaveLoop, Look, Sleep, Enter, startVars, motionVars

(* A column is bound to its motor. *)
LEMMA BindStep ==
  ASSUME IInv, BindColumn, Connection(Len(driven) + 1) \in found
  PROVE  StartInv' /\ CallbackInv'
<1> DEFINE n == Len(driven)
           m == Connection(n + 1)
<1>1. /\ pc = "bind" /\ pc' = "bind" /\ n + 1 <= Width0
      /\ driven' = Append(driven, m) /\ monitored' = monitored \cup {m}
      /\ callback' = [callback EXCEPT ![m] = n + 1]
      /\ UNCHANGED <<file, endless, found, held>>
  BY DEF BindColumn, Enter, Fail, Width0
<1>2. /\ driven \in Seq(Motors) /\ n \in Nat /\ m \in Motors /\ m \in found
      /\ DOMAIN held = {}
      /\ \A c \in 1..n : driven[c] = Connection(c) /\ driven[c] \in found
  BY <1>1, Elements DEF IInv, StartInv
<1>3. \A c : Connection(c)' = Connection(c)
  BY <1>1 DEF Connection
<1> HIDE DEF m
<1>4. /\ driven' \in Seq(Motors) /\ Len(driven') = n + 1
      /\ \A c \in 1..n : driven'[c] = driven[c]
      /\ driven'[n + 1] = m
  BY <1>1, <1>2
<1> HIDE DEF n
<1>5. \A c \in 1..(n + 1) : c \in 1..n \/ c = n + 1
  BY <1>2
<1>6. Driven' = Driven \cup {m}
  BY <1>2, <1>4, <1>5 DEF Driven, n
<1>7. StartInv'
  <2>1. \A c \in 1..Len(driven') : driven'[c] = Connection(c)' /\ driven'[c] \in found'
    BY <1>1, <1>2, <1>3, <1>4, <1>5 DEF m
  <2>2. Width0' = Width0 /\ Len(driven') <= Width0'
    BY <1>1, <1>4 DEF Width0
  <2> QED
    BY <1>1, <1>2, <1>4, <2>1, <2>2 DEF IInv, StartInv
<1>8. CallbackInv'
  <2>1. callback \in [Motors -> Int] /\ monitored = Driven \cup DOMAIN held
    BY DEF IInv, CallbackInv
  <2>2. \A x \in Motors : callback[x] # 0 <=> x \in monitored
    BY <1>1 DEF IInv, CallbackInv
  <2>3. callback' \in [Motors -> Int]
    BY <1>1, <1>2, <2>1
  <2>4. \A x \in Motors : callback'[x] # 0 <=> x \in monitored'
    BY <1>1, <1>2, <2>1, <2>2
  <2>5. monitored' = Driven' \cup DOMAIN held'
    BY <1>1, <1>6, <2>1
  <2> QED
    BY <1>1, <2>3, <2>4, <2>5 DEF CallbackInv
<1> QED
  BY <1>7, <1>8

(* A motor without a column is held, or its position cannot be read. *)
LEMMA HoldStep ==
  ASSUME IInv, HoldMotor
  PROVE  StartInv' /\ CallbackInv'
<1>1. /\ pc = "hold" /\ UNCHANGED <<file, endless, found, driven>>
      /\ StartInv /\ CallbackInv /\ callback \in [Motors -> Int] /\ found \subseteq Motors
      /\ monitored = Driven \cup DOMAIN held
      /\ \A x \in Motors : callback[x] # 0 <=> x \in monitored
  BY DEF IInv, StartInv, CallbackInv, HoldMotor, Enter
<1>2. PICK m \in ToHold :
       \/ /\ \E p \in Readings : held' = [x \in DOMAIN held \cup {m} |-> IF x = m THEN p ELSE held[x]]
          /\ monitored' = monitored \cup {m}
          /\ callback' = [callback EXCEPT ![m] = Holder]
          /\ pc' = "hold"
       \/ /\ UNCHANGED <<held, monitored>>
          /\ callback' = [x \in Motors |-> IF x = m THEN Holder
                                           ELSE IF x \in monitored THEN 0 ELSE callback[x]]
          /\ pc' = "done"
  BY DEF HoldMotor, Enter
<1>3. m \in found /\ m \notin Driven /\ m \notin DOMAIN held /\ m \in Motors
  <2>1. DOMAIN driven = 1..Len(driven)
    BY <1>1, Elements DEF StartInv
  <2> QED
    BY <1>1, <1>2, <2>1 DEF ToHold, ToSet, Driven
<1>4. Driven' = Driven /\ Width0' = Width0 /\ \A c : Connection(c)' = Connection(c)
  BY <1>1 DEF Driven, Width0, Connection
<1>5. Holder \in Int /\ Holder # 0
  BY DEF Holder
<1>6. CASE pc' = "hold"
  <2>1. /\ DOMAIN held' = DOMAIN held \cup {m} /\ monitored' = monitored \cup {m}
        /\ callback' = [callback EXCEPT ![m] = Holder]
    BY <1>2, <1>6
  <2>2. StartInv'
    BY <1>1, <1>3, <1>4, <1>6, <2>1 DEF StartInv
  <2>3. \A x \in Motors : callback'[x] # 0 <=> x \in monitored'
    BY <1>1, <1>3, <1>5, <2>1
  <2>4. callback' \in [Motors -> Int]
    BY <1>1, <1>5, <2>1
  <2> QED
    BY <1>1, <1>4, <1>6, <2>1, <2>2, <2>3, <2>4 DEF CallbackInv
<1>7. CASE pc' = "done"
  <2>1. /\ UNCHANGED <<held, monitored>>
        /\ callback' = [x \in Motors |-> IF x = m THEN Holder
                                         ELSE IF x \in monitored THEN 0 ELSE callback[x]]
    BY <1>2, <1>7
  <2>2. StartInv'
    BY <1>1, <1>4, <1>7, <2>1 DEF StartInv
  <2>3. callback' \in [Motors -> Int]
    BY <1>1, <1>5, <2>1
  <2>4. \A x \in Motors : callback'[x] # 0 => x = m
    BY <1>1, <2>1
  <2>5. monitored \subseteq Motors /\ \A x \in monitored : callback'[x] = 0
    BY <1>1, <1>3, <2>1 DEF StartInv, Driven
  <2> QED
    BY <1>1, <1>4, <1>7, <2>1, <2>2, <2>3, <2>4, <2>5 DEF CallbackInv
<1> QED
  BY <1>2, <1>6, <1>7

(* Every step of the start keeps what is set up and the callbacks. *)
LEMMA StartStep ==
  ASSUME IInv, StartNext \/ Fail("read")
  PROVE  StartInv' /\ CallbackInv'
<1>1. /\ StartInv /\ CallbackInv /\ callback \in [Motors -> Int] /\ found \subseteq Motors
      /\ monitored = Driven \cup DOMAIN held
      /\ DOMAIN driven = 1..Len(driven)
  BY Elements DEF IInv, StartInv, CallbackInv
<1>2. ASSUME NEW from \in {"parse", "open", "scan", "bind", "logs", "read"}, Fail(from)
      PROVE  StartInv' /\ CallbackInv'
  <2>1. /\ pc = from /\ pc' = "done"
        /\ callback' = [m \in Motors |-> IF m \in monitored THEN 0 ELSE callback[m]]
        /\ UNCHANGED <<file, endless, found, driven, held, monitored>>
    BY <1>2 DEF Fail, DisableStressCallbacks
  <2>2. Driven' = Driven /\ Width0' = Width0 /\ \A c : Connection(c)' = Connection(c)
    BY <2>1 DEF Driven, Width0, Connection
  <2>3. StartInv'
    BY <1>1, <2>1, <2>2 DEF StartInv
  <2>4. \A m \in Motors : callback[m] # 0 <=> m \in monitored
    BY <1>1, <2>1 DEF CallbackInv
  <2>5. callback' \in [Motors -> Int] /\ \A m \in Motors : callback'[m] = 0
    BY <1>1, <2>1, <2>4
  <2>6. monitored \subseteq Motors
    BY <1>1 DEF StartInv, Driven
  <2> QED
    BY <1>1, <2>1, <2>2, <2>3, <2>5, <2>6 DEF CallbackInv
<1>3. CASE ParsePlay \/ OpenAdapters \/ StartLogs
  <2>1. /\ UNCHANGED <<file, endless, found, driven, held, monitored, callback>>
        /\ \/ pc = "parse" /\ pc' = "open"
           \/ pc = "open" /\ pc' = "scan"
           \/ pc = "logs" /\ pc' = "read"
    BY <1>3 DEF ParsePlay, OpenAdapters, StartLogs, Enter
  <2>2. Driven' = Driven /\ Width0' = Width0 /\ \A c : Connection(c)' = Connection(c)
    BY <2>1 DEF Driven, Width0, Connection
  <2> QED
    BY <1>1, <2>1, <2>2 DEF StartInv, CallbackInv
<1>4. CASE ScanMotors
  <2>1. /\ UNCHANGED <<file, endless, driven, held, monitored, callback>>
        /\ pc = "scan" /\ pc' = "bind" /\ found' \subseteq Motors
    BY <1>4 DEF ScanMotors, Enter
  <2>2. Driven' = Driven /\ Width0' = Width0
    BY <2>1 DEF Driven, Width0
  <2>3. Len(driven) = 0 /\ DOMAIN held = {} /\ \A c \in 1..Len(driven') : FALSE
    BY <1>1, <2>1 DEF StartInv
  <2> QED
    BY <1>1, <2>1, <2>2, <2>3 DEF StartInv, CallbackInv
<1>5. CASE BindColumn
  <2>1. CASE Connection(Len(driven) + 1) \in found
    BY <1>5, <2>1, BindStep
  <2>2. CASE Connection(Len(driven) + 1) \notin found
    BY <1>2, <1>5, <2>2 DEF BindColumn
  <2> QED
    BY <2>1, <2>2
<1>6. CASE ColumnsBound
  <2>1. /\ UNCHANGED <<file, endless, found, driven, held, monitored, callback>>
        /\ pc = "bind" /\ pc' = "hold" /\ Len(driven) = Width0
    BY <1>6 DEF ColumnsBound, Enter, Width0
  <2>2. Driven' = Driven /\ Width0' = Width0 /\ \A c : Connection(c)' = Connection(c)
    BY <2>1 DEF Driven, Width0, Connection
  <2> QED
    BY <1>1, <2>1, <2>2 DEF StartInv, CallbackInv
<1>7. CASE MotorsHeld
  <2>1. /\ UNCHANGED <<file, endless, found, driven, held, monitored, callback>>
        /\ pc = "hold" /\ pc' = "logs"
        /\ found \ (ToSet(driven) \cup DOMAIN held) = {}
    BY <1>7 DEF MotorsHeld, ToHold, Enter
  <2>2. Driven' = Driven /\ Width0' = Width0 /\ \A c : Connection(c)' = Connection(c)
    BY <2>1 DEF Driven, Width0, Connection
  <2>3. found \subseteq Driven \cup DOMAIN held
    BY <1>1, <2>1 DEF ToSet, Driven
  <2> QED
    BY <1>1, <2>1, <2>2, <2>3 DEF StartInv, CallbackInv
<1> QED
  BY <1>2, <1>3, <1>4, <1>5, <1>6, <1>7, HoldStep DEF StartNext

(* The loop keeps them too, and the end takes the callbacks away. *)
LEMMA LaterStep ==
  ASSUME IInv, LoopStep \/ Finish
  PROVE  StartInv' /\ CallbackInv'
<1>1. UNCHANGED <<file, endless, found, driven, held, monitored>>
  BY LoopFrame DEF Finish
<1>2. Driven' = Driven /\ Width0' = Width0 /\ \A c : Connection(c)' = Connection(c)
  BY <1>1 DEF Driven, Width0, Connection
<1>3. CASE LoopStep
  BY <1>1, <1>2, <1>3, LoopFrame DEF IInv, StartInv, CallbackInv
<1>4. CASE Finish
  <2>1. /\ pc = "drain" /\ pc' = "done"
        /\ callback' = [m \in Motors |-> IF m \in monitored THEN 0 ELSE callback[m]]
    BY <1>4 DEF Finish, DisableStressCallbacks
  <2>2. StartInv'
    BY <1>1, <1>2, <2>1 DEF IInv, StartInv
  <2>3. /\ callback \in [Motors -> Int] /\ monitored = Driven \cup DOMAIN held
        /\ \A m \in Motors : callback[m] # 0 <=> m \in monitored
    BY <2>1 DEF IInv, CallbackInv
  <2>4. callback' \in [Motors -> Int] /\ \A m \in Motors : callback'[m] = 0
    BY <2>1, <2>3
  <2>5. monitored \subseteq Motors
    BY <2>3 DEF IInv, StartInv, Driven
  <2> QED
    BY <1>1, <1>2, <2>1, <2>2, <2>3, <2>4, <2>5 DEF CallbackInv
<1> QED
  BY <1>3, <1>4

-----------------------------------------------------------------------------
(* A request or its end leaves the time that was played as it is. *)
LEMMA ClockUpdate ==
  ASSUME ClockInv, NEW key \in BOOLEAN
  PROVE  /\ UpdatePlayPauseClock(clock, key, now) \in [paused : BOOLEAN, since : Int, total : Int]
         /\ PlayNow(UpdatePlayPauseClock(clock, key, now), now) = played
<1>1. /\ clock \in [paused : BOOLEAN, since : Int, total : Int] /\ now \in Int /\ played \in Int
      /\ (IF clock.paused THEN clock.since ELSE now) - clock.total = played
  BY DEF ClockInv, PauseStopsTheClock, PlayNow
<1>2. /\ clock.paused \in BOOLEAN /\ clock.since \in Int /\ clock.total \in Int
  BY <1>1
<1> DEFINE c == UpdatePlayPauseClock(clock, key, now)
<1>3. CASE key /\ ~clock.paused
  <2>1. c = [clock EXCEPT !.paused = TRUE, !.since = now]
    BY <1>3 DEF UpdatePlayPauseClock
  <2>2. /\ c \in [paused : BOOLEAN, since : Int, total : Int]
        /\ c.paused = TRUE /\ c.since = now /\ c.total = clock.total
    BY <1>1, <2>1
  <2> HIDE DEF c
  <2>3. PlayNow(c, now) = played
    BY <1>1, <1>2, <1>3, <2>2 DEF PlayNow
  <2> QED
    BY <2>2, <2>3 DEF c
<1>4. CASE ~key /\ clock.paused
  <2> DEFINE d == clock.total + (now - clock.since)
  <2>1. c = [clock EXCEPT !.paused = FALSE, !.total = d]
    BY <1>4 DEF UpdatePlayPauseClock
  <2>4. d \in Int
    BY <1>1, <1>2
  <2> HIDE DEF d
  <2>2. /\ c \in [paused : BOOLEAN, since : Int, total : Int]
        /\ c.paused = FALSE /\ c.since = clock.since /\ c.total = d
    BY <1>1, <2>1, <2>4
  <2> HIDE DEF c
  <2>3. PlayNow(c, now) = played
    BY <1>1, <1>2, <1>4, <2>2 DEF PlayNow, d
  <2> QED
    BY <2>2, <2>3 DEF c
<1>5. CASE (key <=> clock.paused)
  <2>1. c = clock
    BY <1>2, <1>5 DEF UpdatePlayPauseClock
  <2> QED
    BY <1>1, <2>1 DEF PlayNow
<1> QED
  BY <1>2, <1>3, <1>4, <1>5

(* An iteration looks at the clock, and its sleep goes by the clock. *)
LEMMA LookFacts ==
  ASSUME IInv, Look
  PROVE  /\ pauseKey' \in BOOLEAN
         /\ clock' \in [paused : BOOLEAN, since : Int, total : Int]
         /\ PlayNow(clock', now) = played /\ played \in Int
         /\ pc = "loop" /\ UNCHANGED <<file, endless, driven, initial>>
<1>1. pauseKey' \in BOOLEAN /\ clock' = UpdatePlayPauseClock(clock, pauseKey', now)
  BY DEF Look, IInv, ClockInv
<1> QED
  BY <1>1, ClockUpdate DEF Look, IInv, ClockInv

(* Looking at the clock and sleeping keep the times of the loop consistent. *)
LEMMA SleepStep ==
  ASSUME IInv, Look, Sleep
  PROVE  ClockInv'
<1>1. /\ clock' \in [paused : BOOLEAN, since : Int, total : Int]
      /\ PlayNow(clock', now) = played /\ played \in Int /\ now \in Int /\ tick \in Int
      /\ pauseKey' \in BOOLEAN
  BY LookFacts DEF IInv, ClockInv
<1>2. tick' \in Int /\ now' \in Int
  <2>1. PICK end \in now..now + MaxBusy : tick' = NextPlayControlTick(tick, end)
    BY DEF Sleep
  <2>2. end \in Int /\ Period \in Int
    BY <1>1, <2>1, MotionAssumption
  <2>3. tick' \in Int
    BY <1>1, <2>1, <2>2 DEF NextPlayControlTick
  <2> QED
    BY <2>3, MotionAssumption DEF Sleep
<1>3. played' = played + (IF clock'.paused THEN 0 ELSE now' - now)
  BY DEF Sleep
<1>4. clock'.paused \in BOOLEAN /\ clock'.since \in Int /\ clock'.total \in Int
  BY <1>1
<1>5. PlayNow(clock', now') = played'
  BY <1>1, <1>2, <1>3, <1>4 DEF PlayNow
<1>6. played' \in Int
  BY <1>1, <1>2, <1>3, <1>4
<1> QED
  BY <1>1, <1>2, <1>5, <1>6 DEF ClockInv, PauseStopsTheClock

(* Every step keeps the clock. *)
LEMMA ClockStep == IInv /\ [PlayNext]_allVars => ClockInv'
<1> SUFFICES ASSUME IInv, [PlayNext]_allVars
             PROVE  ClockInv'
  OBVIOUS
<1>1. CASE Look /\ Sleep
  BY <1>1, SleepStep
<1>2. CASE Look /\ UNCHANGED <<tick, now, played>>
  BY <1>2, LookFacts DEF IInv, ClockInv, PauseStopsTheClock
<1>3. CASE UNCHANGED timeVars /\ pauseKey' \in {pauseKey, ~pauseKey}
  BY <1>3 DEF IInv, ClockInv, PauseStopsTheClock, timeVars
<1>4. CASE Startup \/ Playback \/ StopPlayback \/ Return
  BY <1>1, <1>2, <1>4 DEF Startup, Playback, StopPlayback, Return
<1>5. CASE UNCHANGED motionVars \/ ReadInitialPositions \/ TogglePause \/ Interrupt \/ LeaveLoop \/ Finish
  BY <1>3, <1>5 DEF motionVars, ReadInitialPositions, TogglePause, Interrupt, LeaveLoop, Finish
<1> QED
  BY <1>4, <1>5, Steps DEF LoopStep, allVars

(* The way back begins and ends with one position for each column. *)
LEMMA WayStep == IInv /\ [PlayNext]_allVars => WayInv'
<1> SUFFICES ASSUME IInv, [PlayNext]_allVars
             PROVE  WayInv'
  OBVIOUS
<1> DEFINE Ways == [1..Width0 -> Int]
<1>1. WayInv /\ StartInv /\ Width0' \in {Width0, Len(file'.columns)}
  BY DEF IInv, Width0
<1>2. \A p \in PositionsRead : Len(driven) = Width0 => p \in Ways
  <2>1. DOMAIN driven = 1..Len(driven)
    BY <1>1, Elements DEF StartInv
  <2> QED
    BY <2>1, StartAssumption DEF PositionsRead
<1> HIDE DEF Ways
<1>3. CASE UNCHANGED motionVars /\ (StartNext \/ Fail("read") \/ UNCHANGED allVars)
  <2>1. UNCHANGED <<phase, phaseStart, trajStart, returnFrom>>
    BY <1>3 DEF motionVars
  <2>2. pc' = "loop" => UNCHANGED <<pc, file, initial>>
    BY <1>3 DEF StartNext, Fail, ParsePlay, OpenAdapters, ScanMotors, BindColumn, ColumnsBound,
       HoldMotor, MotorsHeld, StartLogs, Enter, allVars, startVars
  <2>3. pc' = "loop" => Width0' = Width0
    BY <2>2 DEF Width0
  <2>4. pc' \in {"loop", "drain", "done"} \/ pc \notin {"loop", "drain", "done"}
    BY <1>3 DEF StartNext, Fail, ParsePlay, OpenAdapters, ScanMotors, BindColumn, ColumnsBound,
       HoldMotor, MotorsHeld, StartLogs, Enter, allVars, startVars
  <2> QED
    BY <1>1, <2>1, <2>2, <2>3, <2>4 DEF WayInv
<1>4. CASE LoopStep
  <2>1. UNCHANGED <<file, driven>> /\ Width0' = Width0
    BY <1>4, LoopFrame DEF Width0
  <2>2. CASE ReadInitialPositions
    <3>1. /\ pc = "read" /\ Len(driven) = Width0 /\ initial' \in PositionsRead
          /\ UNCHANGED <<phase, phaseStart, trajStart, returnFrom>>
      BY <1>1, <2>2 DEF ReadInitialPositions, StartInv
    <3>2. phase' = "startup" /\ initial' \in Ways
      BY <1>1, <1>2, <3>1 DEF WayInv
    <3>3. pc' = "loop"
      BY <2>2 DEF ReadInitialPositions, Enter
    <3> QED
      BY <1>1, <2>1, <3>1, <3>2, <3>3 DEF WayInv, Ways
  <2>3. CASE Startup \/ Playback \/ StopPlayback \/ Return
    <3>1. /\ pc = "loop" /\ pc' \in {"loop", "drain"} /\ UNCHANGED initial
          /\ Len(driven) = Width0 /\ PlayNow(clock', now) \in Int /\ initial \in Ways
      <4>1. Look
        BY <2>3 DEF Startup, Playback, StopPlayback, Return
      <4>2. pc = "loop" /\ UNCHANGED initial /\ PlayNow(clock', now) \in Int
        BY <4>1, LookFacts
      <4>3. pc' \in {"loop", "drain"}
        BY <1>4, <4>2, LoopFrame
      <4> QED
        BY <1>1, <4>2, <4>3 DEF WayInv, StartInv, Ways
    <3>2. CASE Startup
      <4>1. /\ phase' \in {"startup", "playback"} /\ trajStart' \in Int
            /\ UNCHANGED phaseStart
        BY <1>1, <3>1, <3>2 DEF Startup, WayInv
      <4> QED
        BY <1>1, <2>1, <3>1, <4>1 DEF WayInv, Ways
    <3>3. CASE Playback
      <4> DEFINE state == EvaluateTrajectory(file.samples, PlayNow(clock', now) - trajStart, endless)
      <4>1. /\ phase = "playback" /\ phase' \in {"playback", "returning"}
            /\ phaseStart' \in {phaseStart, PlayNow(clock', now)} /\ UNCHANGED trajStart
            /\ phase' = "returning" => /\ ShouldReturnToInitialPosition(state, endless)
                                       /\ returnFrom' = state.pos
        <5>1. endless' = endless
          BY <3>3 DEF Playback, Look
        <5> HIDE DEF state
        <5> QED
          BY <3>3, <5>1 DEF Playback, state
      <4>2. phase' = "returning" => returnFrom' \in Ways
        <5> HAVE phase' = "returning"
        <5>1. PlayNow(clock', now) - trajStart \in Int
          BY <1>1, <3>1 DEF WayInv
        <5>2. state.pos = LastSample(file.samples).pos
          BY <4>1, <5>1, EndsAtLast
        <5> QED
          BY <4>1, <5>2, Samples DEF Ways
      <4>3. phaseStart' \in Int
        BY <1>1, <3>1, <4>1 DEF WayInv
      <4> QED
        BY <1>1, <2>1, <3>1, <4>1, <4>2, <4>3 DEF WayInv, Ways
    <3>4. CASE StopPlayback
      <4>1. \/ /\ returnFrom' \in PositionsRead /\ phase' = "returning"
               /\ phaseStart' = PlayNow(clock', now) /\ UNCHANGED trajStart
            \/ pc' = "drain" /\ UNCHANGED <<phase, phaseStart, trajStart>>
        BY <3>4 DEF StopPlayback
      <4>2. returnFrom' \in PositionsRead => returnFrom' \in Ways
        BY <1>2, <3>1
      <4> QED
        BY <1>1, <2>1, <3>1, <4>1, <4>2 DEF WayInv, Ways
    <3>5. CASE Return
      BY <1>1, <2>1, <3>1, <3>5 DEF Return, WayInv, Ways
    <3> QED
      BY <2>3, <3>2, <3>3, <3>4, <3>5
  <2>4. CASE TogglePause \/ Interrupt \/ LeaveLoop
    BY <1>1, <2>1, <2>4 DEF WayInv, TogglePause, Interrupt, LeaveLoop, startVars, motionVars, Enter
  <2> QED
    BY <1>4, <2>2, <2>3, <2>4 DEF LoopStep
<1>5. CASE Finish
  BY <1>1, <1>5 DEF WayInv, Finish, motionVars
<1> QED
  BY <1>3, <1>4, <1>5, Steps DEF allVars

(* What is not taken away from does not decrease. *)
LEMMA Later ==
  ASSUME NEW n \in Int, NEW m \in Int, n <= m
  PROVE  /\ \A late \in Nat : m + late \in Int /\ n <= m + late
         /\ \A p \in Int : p <= p + (m - n)
OBVIOUS

(* The time that was played never goes back. *)
LEMMA PlayedGrows ==
  ASSUME IInv, Look, Sleep
  PROVE  played <= played'
<1>1. now \in Int /\ tick \in Int /\ played \in Int
  BY DEF IInv, ClockInv
<1>2. tick' \in Int /\ now <= tick'
  <2>1. PICK end \in now..now + MaxBusy : tick' = NextPlayControlTick(tick, end)
    BY DEF Sleep
  <2> QED
    BY <1>1, <2>1, MotionAssumption DEF NextPlayControlTick
<1>3. now' \in Int /\ now <= now'
  <2>1. PICK late \in Nat : now' = tick' + late
    BY MotionAssumption DEF Sleep
  <2>2. tick' + late \in Int /\ now <= tick' + late
    BY <1>1, <1>2, Later, Zenon
  <2> QED
    BY <2>1, <2>2, Zenon
<1>4. played <= played + (now' - now)
  BY <1>1, <1>3, Later, Zenon
<1>5. \/ played' = played + 0
      \/ played' = played + (now' - now)
  BY DEF Sleep
<1> QED
  BY <1>1, <1>4, <1>5

(* A step that plays no frame, nor changes the phase, keeps what was sent. *)
LEMMA TrackFrame ==
  ASSUME IInv, UNCHANGED <<frame, phase, trajStart, played>>,
         frame.phase = "playback" => UNCHANGED <<file, endless>>
  PROVE  TrackInv'
BY DEF IInv, TrackInv, TracksTrajectory

(* A frame of the playback is on the trajectory. *)
LEMMA PlaybackTracks ==
  ASSUME IInv, Playback
  PROVE  TrackInv'
<1>1. Look /\ Sleep
  BY DEF Playback
<1>2. /\ PlayNow(clock', now) = played /\ played \in Int /\ played <= played'
      /\ UNCHANGED <<file, endless, trajStart>>
  BY <1>1, LookFacts, PlayedGrows DEF Playback
<1>3. PICK e \in Nat : e = played - trajStart
  BY <1>2 DEF IInv, TrackInv, WayInv
<1>4. /\ frame' = [phase |-> "playback", played |-> played,
                   pos |-> EvaluateTrajectory(file.samples, e, endless').pos]
      /\ phase' # "startup"
  BY <1>2, <1>3 DEF Playback, Send
<1>5. frame'.played - trajStart' = e /\ frame'.pos = EvaluateTrajectory(file.samples, e, endless).pos
  BY <1>2, <1>3, <1>4
<1>6. IsOnPolyline(file.samples, Folded(file.samples, e, endless),
                   EvaluateTrajectory(file.samples, e, endless).pos)
  <2>1. file \in Files /\ endless \in BOOLEAN
    BY DEF IInv, StartInv
  <2>2. IsTrajectory(file.samples, Len(file.columns)) /\ Len(file.columns) \in Nat
    BY <2>1, StartAssumption, Elements
  <2> QED
    BY <2>1, <2>2, EvaluatesOn
<1>7. TracksTrajectory'
  BY <1>2, <1>5, <1>6 DEF TracksTrajectory
<1>8. trajStart' <= played'
  <2>1. trajStart \in Int /\ trajStart <= played /\ played' \in Int
    BY <1>1, SleepStep DEF IInv, TrackInv, WayInv, ClockInv
  <2> QED
    BY <1>2, <2>1
<1>9. DOMAIN frame' = {"phase", "played", "pos"}
  BY <1>4
<1> QED
  BY <1>4, <1>7, <1>8, <1>9 DEF TrackInv

(* Every step keeps what TrackInv says of the frame. *)
LEMMA TrackStep == IInv /\ [PlayNext]_allVars => TrackInv'
<1> SUFFICES ASSUME IInv, [PlayNext]_allVars
             PROVE  TrackInv'
  OBVIOUS
<1>1. CASE UNCHANGED motionVars /\ (StartNext \/ Fail("read"))
  <2>1. pc \notin {"loop", "drain", "done"}
    BY <1>1 DEF StartNext, Fail, ParsePlay, OpenAdapters, ScanMotors, BindColumn, ColumnsBound,
       HoldMotor, MotorsHeld, StartLogs, Enter
  <2>2. frame.phase # "playback"
    BY <2>1 DEF IInv, WayInv, TrackInv
  <2> QED
    BY <1>1, <2>2, TrackFrame DEF motionVars, timeVars
<1>2. CASE UNCHANGED allVars \/ TogglePause \/ Interrupt \/ LeaveLoop \/ Finish
  BY <1>2, TrackFrame DEF allVars, TogglePause, Interrupt, LeaveLoop, Finish, Enter, startVars,
     motionVars, timeVars
<1>3. CASE ReadInitialPositions
  <2>1. /\ UNCHANGED <<phase, trajStart, timeVars>> /\ pc = "read"
        /\ \E p \in PositionsRead : frame' = [frame EXCEPT !.pos = p]
    BY <1>3 DEF ReadInitialPositions
  <2>2. frame.phase # "playback" /\ DOMAIN frame = {"phase", "played", "pos"}
    BY <2>1 DEF IInv, WayInv, TrackInv
  <2>3. frame'.phase # "playback" /\ DOMAIN frame' = {"phase", "played", "pos"}
    BY <2>1, <2>2
  <2> QED
    BY <2>1, <2>3 DEF IInv, TrackInv, timeVars
<1>4. CASE Playback
  BY <1>4, PlaybackTracks
<1>5. ASSUME Look, NEW kind \in {"startup", "returning"}, NEW pos,
             frame' = [phase |-> kind, played |-> played, pos |-> pos],
             trajStart' <= played'
      PROVE  TrackInv'
  BY <1>5 DEF TrackInv
<1>6. CASE Startup
  <2>1. Look /\ Sleep
    BY <1>6 DEF Startup
  <2>2. played \in Int /\ PlayNow(clock', now) = played /\ played <= played'
    BY <2>1, LookFacts, PlayedGrows
  <2>3. trajStart' \in {trajStart, played} /\ trajStart <= played /\ trajStart \in Int /\ played' \in Int
    BY <1>6, <2>1, <2>2, SleepStep DEF Startup, IInv, TrackInv, WayInv, ClockInv
  <2>4. trajStart' <= played'
    BY <2>2, <2>3
  <2> QED
    BY <1>5, <1>6, <2>1, <2>4 DEF Startup, Send
<1>7. CASE StopPlayback \/ Return
  <2>1. Look /\ UNCHANGED trajStart /\ trajStart <= played /\ trajStart \in Int /\ played \in Int
    BY <1>7 DEF StopPlayback, Return, IInv, TrackInv, WayInv, ClockInv
  <2>2. Sleep \/ UNCHANGED played
    BY <1>7 DEF StopPlayback, Return
  <2>3. trajStart' <= played'
    BY <2>1, <2>2, PlayedGrows, SleepStep DEF ClockInv
  <2>4. CASE UNCHANGED <<frame, phase>> /\ UNCHANGED played
    BY <2>1, <2>4, TrackFrame, LookFacts
  <2>5. CASE \E pos : frame' = [phase |-> "returning", played |-> played, pos |-> pos]
    BY <1>5, <2>1, <2>3, <2>5
  <2> QED
    BY <1>7, <2>4, <2>5 DEF StopPlayback, Return, Send
<1> QED
  BY <1>1, <1>2, <1>3, <1>4, <1>6, <1>7, Steps DEF LoopStep

(* Every step keeps the invariant. *)
LEMMA InvStep == IInv /\ [PlayNext]_allVars => IInv'
<1> SUFFICES ASSUME IInv, [PlayNext]_allVars
             PROVE  IInv'
  OBVIOUS
<1>1. ClockInv' /\ WayInv' /\ TrackInv'
  BY ClockStep, WayStep, TrackStep
<1>2. StartInv' /\ CallbackInv'
  <2>1. CASE UNCHANGED allVars
    BY <2>1 DEF IInv, StartInv, CallbackInv, Driven, Width0, Connection, allVars, startVars
  <2> QED
    BY <2>1, Steps, StartStep, LaterStep
<1> QED
  BY <1>1, <1>2 DEF IInv

-----------------------------------------------------------------------------
(* The inductive invariant holds in every state. *)
THEOREM Invariance == PlaySpec => []IInv
<1>1. PlayInit => IInv
  BY InitIInv
<1>2. IInv /\ [PlayNext]_<<startVars, motionVars>> => IInv'
  BY InvStep DEF allVars
<1> QED
  BY <1>1, <1>2, PTL DEF PlaySpec

(* However often play is paused and goes on, its clock shows exactly the   *)
(* time that was not paused.                                               *)
THEOREM ClockIsRight == PlaySpec => []PauseStopsTheClock
<1>1. IInv => PauseStopsTheClock
  BY DEF IInv, ClockInv
<1> QED
  BY <1>1, Invariance, PTL

(* Every frame of a playback is where the file has the motors at the time  *)
(* that was played, however often it was paused, once or forwards and      *)
(* backwards without end, up to the rounding of one quotient.              *)
THEOREM Tracks == PlaySpec => []TracksTrajectory
<1>1. IInv => TracksTrajectory
  BY DEF IInv, TrackInv, TracksTrajectory
<1> QED
  BY <1>1, Invariance, PTL

(* Once frames are sent every motor found is driven as its column says or  *)
(* held, never both, and no callback outlives the run but the one of a     *)
(* motor whose position could not be read.                                 *)
THEOREM AccountsForMotors == PlaySpec => []MotorsAreAccounted
<1>1. ASSUME IInv
      PROVE  MotorsAreAccounted
  <2>1. DOMAIN driven = 1..Len(driven) /\ DOMAIN file.columns = 1..Width0
    BY <1>1, Elements, StartAssumption DEF IInv, StartInv, Width0
  <2>2. ToSet(driven) = Driven
    BY <2>1 DEF ToSet, Driven
  <2>3. CASE pc \in {"read", "loop", "drain"}
    <3>1. Len(driven) = Width0 /\ found = Driven \cup DOMAIN held
      BY <1>1, <2>3 DEF IInv, StartInv, Driven
    <3>2. driven \in [1..Width0 -> Motors]
      BY <1>1, <3>1, Elements DEF IInv, StartInv
    <3>3. driven = [c \in DOMAIN file.columns |-> Connection(c)]
      BY <1>1, <2>1, <3>1, <3>2 DEF IInv, StartInv
    <3>4. \A m \in Motors : callback[m] # 0 <=> m \in found
      BY <1>1, <2>3, <3>1 DEF IInv, CallbackInv
    <3> QED
      BY <1>1, <2>2, <2>3, <3>1, <3>3, <3>4 DEF IInv, StartInv, MotorsAreAccounted
  <2>4. CASE pc = "done"
    <3>1. PICK x : \A m \in Motors : callback[m] # 0 => m = x
      BY <1>1, <2>4 DEF IInv, CallbackInv
    <3>2. {m \in Motors : callback[m] # 0} \in SUBSET {x}
      BY <3>1
    <3>3. IsFiniteSet({x}) /\ Cardinality({x}) = 1
      BY FS_Singleton
    <3>4. /\ Cardinality({m \in Motors : callback[m] # 0}) <= Cardinality({x})
      BY <3>2, <3>3, FS_Subset
    <3> QED
      BY <1>1, <2>4, <3>3, <3>4 DEF IInv, CallbackInv, MotorsAreAccounted
  <2> QED
    BY <2>3, <2>4 DEF MotorsAreAccounted
<1> QED
  BY <1>1, Invariance, PTL

(* Nothing but a signal or the end of the file ends a playback, then at    *)
(* its last sample, and a return that is not cut off ends where the motors *)
(* were when play began.                                                   *)
THEOREM SendsHome == PlaySpec => ReturnsHome
<1> DEFINE Home == /\ phase # "returning" /\ phase' = "returning" /\ stops = 0 =>
                        /\ ~endless
                        /\ frame'.phase = "playback" /\ frame'.pos = LastSample(file.samples).pos
                   /\ phase = "returning" /\ pc = "loop" /\ pc' = "drain" /\ stops < 2 =>
                        frame'.pos = initial
<1>1. IInv /\ [PlayNext]_allVars => [Home]_<<phase, pc, stops, frame>>
  <2> SUFFICES ASSUME IInv, [PlayNext]_allVars
               PROVE  Home \/ UNCHANGED <<phase, pc, stops, frame>>
    OBVIOUS
  <2>1. CASE Playback
    <3> DEFINE state == EvaluateTrajectory(file.samples, PlayNow(clock', now) - trajStart, endless)
    <3>1. /\ phase = "playback" /\ endless' = endless
          /\ phase' = "returning" => ShouldReturnToInitialPosition(state, endless)
          /\ frame' = [phase |-> "playback", played |-> played, pos |-> state.pos]
      BY <2>1 DEF Playback, Look, Send
    <3>2. PlayNow(clock', now) - trajStart \in Int
      BY <2>1, LookFacts DEF Playback, IInv, WayInv
    <3>3. phase' = "returning" => ~endless /\ state.pos = LastSample(file.samples).pos
      BY <3>1, <3>2, EndsAtLast
    <3> HIDE DEF state
    <3> QED
      BY <3>1, <3>3
  <2>2. CASE Return
    <3> DEFINE t == PlayNow(clock', now) - phaseStart
    <3>1. /\ pc = "loop" /\ phase = "returning"
          /\ frame'.pos = InterpolatePositions(returnFrom, initial, t, ReturnTicks)
          /\ t >= ReturnTicks \/ pc' = pc
      BY <2>2 DEF Return, Look, Send, Sleep
    <3>2. t \in Int
      BY <2>2, LookFacts DEF Return, IInv, WayInv
    <3>3. returnFrom \in [1..Width0 -> Int] /\ initial \in [1..Width0 -> Int]
      BY <3>1 DEF IInv, WayInv
    <3> HIDE DEF t
    <3>4. t >= ReturnTicks => frame'.pos = initial
      BY <3>1, <3>2, <3>3, WayEnds, MotionAssumption
    <3> QED
      BY <3>1, <3>4
  <2>3. CASE Startup \/ StopPlayback
    <3>1. \/ phase = "startup" /\ phase' \in {"startup", "playback"}
          \/ phase # "returning" /\ stops = 1
      BY <2>3 DEF Startup, StopPlayback
    <3> QED
      BY <3>1
  <2>4. CASE LeaveLoop
    BY <2>4 DEF LeaveLoop, motionVars
  <2>5. CASE ReadInitialPositions \/ TogglePause \/ Interrupt \/ Finish
    <3>1. UNCHANGED phase /\ (pc' = "drain" => pc # "loop")
      BY <2>5 DEF ReadInitialPositions, TogglePause, Interrupt, Finish, Enter, motionVars, startVars
    <3> QED
      BY <3>1
  <2>6. CASE UNCHANGED motionVars /\ (StartNext \/ Fail("read") \/ UNCHANGED allVars)
    <3>1. UNCHANGED phase /\ (pc' = "drain" => pc = "drain")
      BY <2>6 DEF StartNext, Fail, ParsePlay, OpenAdapters, ScanMotors, BindColumn, ColumnsBound,
         HoldMotor, MotorsHeld, StartLogs, Enter, allVars, startVars, motionVars
    <3> QED
      BY <3>1
  <2> QED
    BY <2>1, <2>2, <2>3, <2>4, <2>5, <2>6, Steps DEF LoopStep, allVars
<1> QED
  BY <1>1, Invariance, PTL DEF PlaySpec, ReturnsHome, allVars

-----------------------------------------------------------------------------
(* How frames follow each other. The last frame is where the clock had the *)
(* motors on the way they are on, and each way begins where the last one   *)
(* ended.                                                                  *)
OnTheWay ==
  /\ phaseStart <= frame.played
  /\ phase = "startup" =>
       frame.pos = InterpolatePositions(initial, FirstSample(file.samples).pos, frame.played, StartTicks)
  /\ phase = "playback" =>
       /\ trajStart <= frame.played
       /\ frame.pos = EvaluateTrajectory(file.samples, frame.played - trajStart, endless).pos
  /\ phase = "returning" =>
       /\ frame.pos = InterpolatePositions(returnFrom, initial, frame.played - phaseStart, ReturnTicks)
       /\ frame.phase # "returning" => frame.pos = returnFrom

FollowInv ==
  /\ frame.played \in Int /\ frame.played <= played
  /\ phase = "startup" => frame.phase = "startup" /\ phaseStart = 0
  /\ phase = "playback" => frame.phase \in {"startup", "playback"}
  /\ pc \notin {"loop", "drain", "done"} => frame.played = 0
  /\ pc = "loop" => OnTheWay

(* What the loop computes with. *)
LEMMA LoopFacts ==
  ASSUME IInv, pc = "loop"
  PROVE  /\ Width0 \in Nat /\ IsTrajectory(file.samples, Width0) /\ endless \in BOOLEAN
         /\ initial \in [1..Width0 -> Int] /\ FirstSample(file.samples).pos \in [1..Width0 -> Int]
         /\ phase = "returning" => returnFrom \in [1..Width0 -> Int]
         /\ played \in Int /\ phaseStart \in Int /\ trajStart \in Int /\ trajStart <= played
<1>1. Width0 \in Nat /\ IsTrajectory(file.samples, Width0)
  BY StartAssumption, Elements DEF IInv, StartInv, Width0
<1>2. FirstSample(file.samples).pos \in [1..Width0 -> Int]
  <2>1. 1 \in 1..Len(file.samples)
    BY <1>1, Offsets
  <2> QED
    BY <1>1, <2>1, Offsets DEF FirstSample
<1> QED
  BY <1>1, <1>2 DEF IInv, StartInv, WayInv, ClockInv, TrackInv

(* A way begins at its begin, and is over at its end. *)
LEMMA WayBegins ==
  ASSUME NEW w \in Nat, NEW from \in [1..w -> Int], NEW to \in [1..w -> Int], NEW d \in Nat \ {0}
  PROVE  /\ InterpolatePositions(from, to, 0, d) = from
         /\ \A t \in Int : t >= d => InterpolatePositions(from, to, t, d) = to
<1>1. InterpolatePositions(from, to, 0, d) = Between(from, to, 0, d)
  BY DEF InterpolatePositions
<1> QED
  BY <1>1, EndsOf, WayEnds

(* Initially no frame has been sent. *)
LEMMA FollowInitially == PlayInit => FollowInv
BY DEF PlayInit, StartInit, MotionInit, FollowInv

(* A step of the start sends none. *)
LEMMA FollowStart ==
  ASSUME FollowInv, UNCHANGED motionVars, StartNext \/ Fail("read")
  PROVE  FollowInv'
<1>1. pc \notin {"loop", "drain", "done"} /\ pc' # "loop"
  BY DEF StartNext, Fail, ParsePlay, OpenAdapters, ScanMotors, BindColumn, ColumnsBound,
     HoldMotor, MotorsHeld, StartLogs, Enter
<1> QED
  BY <1>1 DEF FollowInv, motionVars, timeVars

(* The first way begins where the motors are. *)
LEMMA FollowRead ==
  ASSUME IInv, IInv', FollowInv, ReadInitialPositions
  PROVE  FollowInv'
<1>1. PICK p : initial' = p /\ frame' = [frame EXCEPT !.pos = p]
  BY DEF ReadInitialPositions
<1>2. /\ pc = "read" /\ pc' = "loop" /\ UNCHANGED <<file, endless, phase, phaseStart, trajStart, played>>
      /\ DOMAIN frame = {"phase", "played", "pos"} /\ phase = "startup"
  BY DEF ReadInitialPositions, Enter, timeVars, IInv, TrackInv, WayInv
<1>3. frame'.pos = initial' /\ frame'.phase = frame.phase /\ frame'.played = frame.played
  BY <1>1, <1>2
<1>4. frame.played = 0 /\ phaseStart = 0
  BY <1>2 DEF FollowInv
<1>5. InterpolatePositions(initial', FirstSample(file'.samples).pos, 0, StartTicks) = initial'
  <2>1. /\ Width0' \in Nat /\ initial' \in [1..Width0' -> Int]
        /\ FirstSample(file'.samples).pos \in [1..Width0' -> Int]
    <3>1. Width0 \in Nat /\ IsTrajectory(file.samples, Width0)
      BY StartAssumption, Elements DEF IInv, StartInv, Width0
    <3>2. FirstSample(file.samples).pos \in [1..Width0 -> Int]
      <4>1. 1 \in 1..Len(file.samples)
        BY <3>1, Offsets
      <4> QED
        BY <3>1, <4>1, Offsets DEF FirstSample
    <3>3. Width0' = Width0 /\ initial' \in [1..Width0' -> Int]
      BY <1>2 DEF Width0, IInv, WayInv
    <3> QED
      BY <1>2, <3>1, <3>2, <3>3
  <2> QED
    BY <2>1, WayBegins, MotionAssumption
<1>6. OnTheWay'
  BY <1>2, <1>3, <1>4, <1>5 DEF OnTheWay
<1> QED
  BY <1>2, <1>3, <1>4, <1>6 DEF FollowInv

(* A frame of the startup; the last one is at the first sample. *)
LEMMA FollowStartup ==
  ASSUME IInv, FollowInv, Startup
  PROVE  FollowInv'
<1> DEFINE first == FirstSample(file.samples).pos
<1>1. Look /\ Sleep /\ phase = "startup"
  BY DEF Startup
<1>2. /\ PlayNow(clock', now) = played /\ pc = "loop" /\ pc' = "loop"
      /\ UNCHANGED <<file, endless, initial, phaseStart>>
      /\ played <= played' /\ phaseStart = 0 /\ phaseStart <= played
  <2>1. phaseStart <= frame.played /\ frame.played <= played /\ phaseStart = 0 /\ frame.played \in Int
    BY <1>1, LookFacts DEF FollowInv, OnTheWay
  <2> QED
    BY <1>1, <2>1, LookFacts, PlayedGrows, LoopFacts DEF Startup, Sleep
<1>3. /\ Width0 \in Nat /\ IsTrajectory(file.samples, Width0) /\ endless \in BOOLEAN
      /\ initial \in [1..Width0 -> Int] /\ first \in [1..Width0 -> Int] /\ played \in Int
  BY <1>2, LoopFacts
<1>4. played - phaseStart = played /\ played - played = 0
  BY <1>2, <1>3
<1>5. /\ frame' = [phase |-> "startup", played |-> played,
                   pos |-> InterpolatePositions(initial, first, played, StartTicks)]
      /\ phase' = IF played >= StartTicks THEN "playback" ELSE "startup"
      /\ trajStart' = IF played >= StartTicks THEN played ELSE trajStart
  <2>1. /\ Send("startup", InterpolatePositions(initial', FirstSample(file'.samples).pos,
                                                 PlayNow(clock', now) - phaseStart, StartTicks))
        /\ phase' = IF PlayNow(clock', now) - phaseStart >= StartTicks THEN "playback" ELSE phase
        /\ trajStart' = IF PlayNow(clock', now) - phaseStart >= StartTicks
                        THEN PlayNow(clock', now) ELSE trajStart
    BY <1>2 DEF Startup
  <2> QED
    BY <1>1, <1>2, <1>4, <2>1 DEF Send
<1>6. played >= StartTicks =>
        /\ InterpolatePositions(initial, first, played, StartTicks) = first
        /\ EvaluateTrajectory(file.samples, 0, endless).pos = first
  <2>1. EvaluateTrajectory(file.samples, 0, endless).pos = first
    BY <1>3, BeginsAtFirst DEF FirstSample
  <2>2. played >= StartTicks => InterpolatePositions(initial, first, played, StartTicks) = first
    <3>1. StartTicks \in Nat \ {0}
      BY MotionAssumption
    <3> HIDE DEF first
    <3> QED
      BY <1>3, <3>1, WayBegins
  <2> QED
    BY <2>1, <2>2
<1>7. OnTheWay'
  <2>1. CASE played >= StartTicks
    <3>1. /\ phase' = "playback" /\ trajStart' = played /\ frame'.played = played
          /\ frame'.pos = InterpolatePositions(initial, first, played, StartTicks)
      BY <1>5, <2>1
    <3>2. frame'.played - trajStart' = 0 /\ trajStart' <= frame'.played
      BY <1>3, <3>1
    <3>3. frame'.pos = EvaluateTrajectory(file'.samples, frame'.played - trajStart', endless').pos
      BY <1>2, <1>6, <2>1, <3>1, <3>2
    <3> QED
      BY <1>2, <3>1, <3>2, <3>3 DEF OnTheWay
  <2>2. CASE ~(played >= StartTicks)
    <3>1. /\ phase' = "startup" /\ frame'.played = played
          /\ frame'.pos = InterpolatePositions(initial, first, played, StartTicks)
      BY <1>5, <2>2
    <3> QED
      BY <1>2, <3>1 DEF OnTheWay
  <2> QED
    BY <2>1, <2>2
<1>8. frame'.phase = "startup" /\ frame'.played = played /\ phase' \in {"startup", "playback"}
  BY <1>5
<1> QED
  BY <1>2, <1>3, <1>7, <1>8 DEF FollowInv

(* A frame of the playback; the way back begins at the last one. *)
LEMMA FollowPlayback ==
  ASSUME IInv, IInv', FollowInv, Playback
  PROVE  FollowInv'
<1>1. Look /\ Sleep /\ phase = "playback"
  BY DEF Playback
<1>2. /\ PlayNow(clock', now) = played /\ pc = "loop" /\ pc' = "loop"
      /\ UNCHANGED <<file, endless, initial, trajStart>> /\ played <= played' /\ played \in Int
  BY <1>1, LookFacts, PlayedGrows DEF Playback, Sleep
<1>3. /\ phaseStart <= played /\ trajStart <= played
  <2>1. phaseStart <= frame.played /\ frame.played <= played /\ frame.played \in Int
    BY <1>2 DEF FollowInv, OnTheWay
  <2> QED
    BY <1>2, <2>1, LoopFacts
<1> DEFINE state == EvaluateTrajectory(file.samples, played - trajStart, endless)
<1>4. /\ frame' = [phase |-> "playback", played |-> played, pos |-> state.pos]
      /\ \/ phase' = "playback" /\ UNCHANGED phaseStart
         \/ phase' = "returning" /\ phaseStart' = played /\ returnFrom' = state.pos
  <2>1. \E over \in BOOLEAN :
          /\ Send("playback", state.pos)
          /\ returnFrom' = IF over THEN state.pos ELSE returnFrom
          /\ phase' = IF over THEN "returning" ELSE phase
          /\ phaseStart' = IF over THEN PlayNow(clock', now) ELSE phaseStart
    <3>1. ShouldReturnToInitialPosition(state, endless) \in BOOLEAN
      BY DEF ShouldReturnToInitialPosition
    <3> WITNESS ShouldReturnToInitialPosition(state, endless) \in BOOLEAN
    <3> QED
      BY <1>2 DEF Playback
  <2> HIDE DEF state
  <2> QED
    BY <1>1, <1>2, <2>1 DEF Send
<1> HIDE DEF state
<1>5. frame'.phase = "playback" /\ frame'.played = played /\ frame'.pos = state.pos
  BY <1>4
<1>6. CASE phase' = "playback" /\ UNCHANGED phaseStart
  <2>1. frame'.pos = EvaluateTrajectory(file'.samples, frame'.played - trajStart', endless').pos
    BY <1>2, <1>5 DEF state
  <2> QED
    BY <1>2, <1>3, <1>5, <1>6, <2>1 DEF FollowInv, OnTheWay
<1>7. CASE phase' = "returning" /\ phaseStart' = played /\ returnFrom' = state.pos
  <2>1. frame'.played - phaseStart' = 0 /\ phaseStart' <= frame'.played
    BY <1>2, <1>5, <1>7
  <2>2. InterpolatePositions(returnFrom', initial', 0, ReturnTicks) = returnFrom'
    <3>1. Width0' \in Nat /\ returnFrom' \in [1..Width0' -> Int] /\ initial' \in [1..Width0' -> Int]
      <4>1. Width0' = Width0 /\ Width0 \in Nat
        BY <1>2, LoopFacts DEF Width0
      <4> QED
        BY <1>2, <1>7, <4>1 DEF IInv, WayInv
    <3> QED
      BY <3>1, WayBegins, MotionAssumption
  <2> QED
    BY <1>2, <1>5, <1>7, <2>1, <2>2 DEF FollowInv, OnTheWay
<1> QED
  BY <1>4, <1>6, <1>7

(* A signal: the way back begins where the motors were read, or the run    *)
(* breaks off.                                                             *)
LEMMA FollowStop ==
  ASSUME IInv, IInv', FollowInv, StopPlayback
  PROVE  FollowInv'
<1>1. /\ Look /\ PlayNow(clock', now) = played /\ pc = "loop" /\ played \in Int
      /\ UNCHANGED <<file, endless, initial>>
  BY LookFacts DEF StopPlayback
<1>2. CASE /\ phase' = "returning" /\ phaseStart' = played
           /\ Send("returning", returnFrom') /\ Sleep
  <2>1. frame'.phase = "returning" /\ frame'.played = played /\ frame'.pos = returnFrom' /\ pc' = "loop"
    BY <1>1, <1>2 DEF Send, Sleep
  <2>2. frame'.played - phaseStart' = 0 /\ phaseStart' <= frame'.played /\ played <= played'
    BY <1>1, <1>2, <2>1, PlayedGrows
  <2>3. InterpolatePositions(returnFrom', initial', 0, ReturnTicks) = returnFrom'
    <3>1. Width0' \in Nat /\ returnFrom' \in [1..Width0' -> Int] /\ initial' \in [1..Width0' -> Int]
      <4>1. Width0' = Width0 /\ Width0 \in Nat
        BY <1>1, LoopFacts DEF Width0
      <4> QED
        BY <1>2, <2>1, <4>1 DEF IInv, WayInv
    <3> QED
      BY <3>1, WayBegins, MotionAssumption
  <2> QED
    BY <1>1, <1>2, <2>1, <2>2, <2>3 DEF FollowInv, OnTheWay
<1>3. CASE pc' = "drain" /\ UNCHANGED <<played, phase, phaseStart, frame>>
  BY <1>3 DEF FollowInv
<1> QED
  BY <1>1, <1>2, <1>3 DEF StopPlayback

(* A frame of the way back. *)
LEMMA FollowReturn ==
  ASSUME IInv, IInv', FollowInv, Return
  PROVE  FollowInv'
<1>1. /\ Look /\ PlayNow(clock', now) = played /\ pc = "loop" /\ played \in Int
      /\ UNCHANGED <<file, endless, initial, phase, phaseStart, returnFrom>> /\ phase = "returning"
  BY LookFacts DEF Return
<1>2. /\ frame' = [phase |-> "returning", played |-> played,
                   pos |-> InterpolatePositions(returnFrom, initial, played - phaseStart, ReturnTicks)]
      /\ (pc' = "drain" /\ UNCHANGED played) \/ Sleep
  BY <1>1 DEF Return, Send
<1>3. /\ frame'.phase = "returning" /\ frame'.played = played
      /\ frame'.pos = InterpolatePositions(returnFrom, initial, played - phaseStart, ReturnTicks)
  BY <1>2
<1>4. phaseStart <= played /\ played <= played' /\ pc' \in {"loop", "drain"}
  <2>1. phaseStart <= frame.played /\ frame.played <= played /\ frame.played \in Int
    BY <1>1 DEF FollowInv, OnTheWay
  <2>2. phaseStart <= played
    BY <1>1, <2>1, LoopFacts
  <2>3. CASE pc' = "drain" /\ UNCHANGED played
    BY <1>1, <2>2, <2>3
  <2>4. CASE Sleep
    BY <1>1, <2>2, <2>4, PlayedGrows DEF Sleep
  <2> QED
    BY <1>2, <2>3, <2>4
<1> QED
  BY <1>1, <1>3, <1>4 DEF FollowInv, OnTheWay

(* Every step keeps it. *)
LEMMA FollowStep ==
  ASSUME IInv, IInv', FollowInv, [PlayNext]_allVars
  PROVE  FollowInv'
<1>1. CASE (StartNext \/ Fail("read")) /\ UNCHANGED motionVars
  BY <1>1, FollowStart
<1>2. CASE Startup \/ Playback \/ StopPlayback \/ Return \/ ReadInitialPositions
  BY <1>2, FollowStartup, FollowPlayback, FollowStop, FollowReturn, FollowRead
<1>3. CASE TogglePause \/ Interrupt
  BY <1>3 DEF TogglePause, Interrupt, FollowInv, OnTheWay, startVars, timeVars
<1>4. CASE LeaveLoop \/ Finish
  BY <1>4 DEF LeaveLoop, Finish, Enter, FollowInv, motionVars, timeVars
<1>5. CASE UNCHANGED allVars
  BY <1>5 DEF allVars, FollowInv, OnTheWay, startVars, motionVars, timeVars
<1> QED
  BY <1>1, <1>2, <1>3, <1>4, <1>5, Steps DEF LoopStep

(* The last frame is on the way in every state. *)
LEMMA Following == PlaySpec => []FollowInv
<1>1. PlayInit => FollowInv
  BY FollowInitially
<1>2. IInv /\ IInv' /\ FollowInv /\ [PlayNext]_<<startVars, motionVars>> => FollowInv'
  BY FollowStep DEF allVars
<1> QED
  BY <1>1, <1>2, Invariance, PTL DEF PlaySpec

(* A frame of the startup continues the one before it, *)
LEMMA StartupContinues ==
  ASSUME IInv, FollowInv, Startup
  PROVE  Continues(frame, frame')
<1> DEFINE first == FirstSample(file.samples).pos
<1>1. /\ Look /\ PlayNow(clock', now) = played /\ pc = "loop" /\ phase = "startup"
      /\ UNCHANGED <<file, initial>>
  BY LookFacts DEF Startup
<1>2. /\ Width0 \in Nat /\ initial \in [1..Width0 -> Int] /\ first \in [1..Width0 -> Int]
      /\ played \in Int /\ StartTicks \in Nat \ {0}
  BY <1>1, LoopFacts, MotionAssumption
<1>3. /\ phaseStart = 0 /\ frame.played \in Nat /\ played \in Nat /\ frame.played <= played
      /\ frame.pos = InterpolatePositions(initial, first, frame.played, StartTicks)
  BY <1>1, <1>2 DEF FollowInv, OnTheWay
<1>4. /\ frame'.phase = "startup" /\ frame'.played = played
      /\ frame'.pos = InterpolatePositions(initial, first, played, StartTicks)
  <2>1. Send("startup", InterpolatePositions(initial', FirstSample(file'.samples).pos,
                                             PlayNow(clock', now) - phaseStart, StartTicks))
    BY <1>1 DEF Startup
  <2>2. played - phaseStart = played
    BY <1>3
  <2> QED
    BY <1>1, <2>1, <2>2 DEF Send
<1> HIDE DEF first
<1>5. DOMAIN frame'.pos = 1..Width0
  BY <1>2, <1>4 DEF InterpolatePositions, Between
<1>6. ASSUME NEW c \in 1..Width0
      PROVE  WithinSpeed(frame'.pos[c] - frame.pos[c], first[c] - initial[c], StartTicks,
                         played - frame.played)
  BY <1>2, <1>3, <1>4, WayIsSmooth
<1> QED
  BY <1>4, <1>5, <1>6 DEF Continues, first

(* and so does one of the playback, *)
LEMMA PlaybackContinues ==
  ASSUME IInv, FollowInv, Playback
  PROVE  Continues(frame, frame')
<1> DEFINE s == file.samples
<1>1. /\ Look /\ PlayNow(clock', now) = played /\ pc = "loop" /\ phase = "playback"
      /\ UNCHANGED <<file, endless>>
  BY LookFacts DEF Playback
<1>2. /\ Width0 \in Nat /\ IsTrajectory(s, Width0) /\ endless \in BOOLEAN
      /\ played \in Int /\ trajStart \in Int
  BY <1>1, LoopFacts
<1>3. /\ frame.played \in Int /\ frame.played <= played /\ trajStart <= frame.played
      /\ frame.pos = EvaluateTrajectory(s, frame.played - trajStart, endless).pos
  BY <1>1 DEF FollowInv, OnTheWay
<1>4. /\ frame'.phase = "playback" /\ frame'.played = played
      /\ frame'.pos = EvaluateTrajectory(s, played - trajStart, endless).pos
  BY <1>1 DEF Playback, Send
<1> HIDE DEF s
<1>5. PICK e \in Nat : e = frame.played - trajStart
  BY <1>2, <1>3
<1>6. PICK f \in Nat : f = played - trajStart /\ e <= f /\ f - e = played - frame.played
  BY <1>2, <1>3, <1>5
<1>7. DOMAIN frame'.pos = 1..Width0
  BY <1>2, <1>4, <1>6, Reaches, ReachedIsNumber
<1>8. ASSUME NEW c \in 1..Width0
      PROVE  \E i \in 1..Len(s) :
               IF i = Len(s) THEN frame'.pos[c] - frame.pos[c] = 0
               ELSE WithinSpeed(frame'.pos[c] - frame.pos[c], s[i + 1].pos[c] - s[i].pos[c],
                                s[i + 1].time - s[i].time, f - e)
  <2>1. /\ frame.pos = EvaluateTrajectory(s, e, endless).pos
        /\ frame'.pos = EvaluateTrajectory(s, f, endless).pos /\ e <= f
    BY <1>3, <1>4, <1>5, <1>6
  <2> QED
    BY ONLY <1>2, <2>1, EvaluatesSmoothly, e \in Nat, f \in Nat, c \in 1..Width0, Zenon
<1> QED
  BY <1>4, <1>6, <1>7, <1>8 DEF Continues, s

(* the first one of the way back, which is where the motors were read,     *)
LEMMA StopContinues ==
  ASSUME IInv, IInv', FollowInv, StopPlayback
  PROVE  Continues(frame, frame') \/ UNCHANGED frame
<1>1. /\ Look /\ PlayNow(clock', now) = played /\ pc = "loop" /\ phase \in {"startup", "playback"}
      /\ UNCHANGED <<file, initial>> /\ played \in Int
  BY LookFacts DEF StopPlayback, IInv, WayInv
<1> SUFFICES ASSUME phase' = "returning", Send("returning", returnFrom'), Sleep
             PROVE  Continues(frame, frame')
  BY DEF StopPlayback
<1>2. frame'.phase = "returning" /\ frame'.played = played /\ frame'.pos = returnFrom'
  BY DEF Send
<1>3. frame.phase # "returning" /\ stops = 1
  BY <1>1 DEF FollowInv, StopPlayback
<1>4. Width0 \in Nat /\ returnFrom' \in [1..Width0 -> Int] /\ initial \in [1..Width0 -> Int]
  <2>1. Width0' = Width0 /\ Width0 \in Nat /\ initial \in [1..Width0 -> Int] /\ pc' = "loop"
    BY <1>1, LoopFacts DEF Width0, Sleep
  <2> QED
    BY <2>1 DEF IInv, WayInv
<1>5. PICK dt \in Nat : dt = played - frame.played
  BY <1>1 DEF FollowInv
<1>6. ASSUME NEW c \in 1..Width0
      PROVE  WithinSpeed(returnFrom'[c] - returnFrom'[c], initial[c] - returnFrom'[c], ReturnTicks, dt)
  <2>1. PICK x \in Int : x = returnFrom'[c]
    BY <1>4
  <2>2. PICK y \in Int : y = initial[c]
    BY <1>4
  <2>3. PICK far \in Nat : far = Abs(y - x)
    BY AbsIs
  <2>4. x - x = 0 /\ Abs(0) = 0
    BY DEF Abs
  <2>5. 0 * ReturnTicks < far * dt + ReturnTicks
    <3>1. far * dt \in Nat /\ ReturnTicks \in Nat \ {0} /\ 0 * ReturnTicks = 0
      BY MotionAssumption
    <3> QED
      BY <3>1
  <2> QED
    BY <2>1, <2>2, <2>3, <2>4, <2>5 DEF WithinSpeed
<1> QED
  BY <1>2, <1>3, <1>4, <1>5, <1>6 DEF Continues

(* and every later one. *)
LEMMA ReturnContinues ==
  ASSUME IInv, FollowInv, Return
  PROVE  Continues(frame, frame')
<1>1. /\ Look /\ PlayNow(clock', now) = played /\ pc = "loop" /\ phase = "returning"
      /\ UNCHANGED <<file, initial, returnFrom>>
  BY LookFacts DEF Return
<1>2. /\ Width0 \in Nat /\ initial \in [1..Width0 -> Int] /\ returnFrom \in [1..Width0 -> Int]
      /\ played \in Int /\ phaseStart \in Int /\ ReturnTicks \in Nat \ {0}
  BY <1>1, LoopFacts, MotionAssumption
<1>3. /\ frame.played \in Int /\ frame.played <= played /\ phaseStart <= frame.played
      /\ frame.pos = InterpolatePositions(returnFrom, initial, frame.played - phaseStart, ReturnTicks)
      /\ frame.phase # "returning" => frame.pos = returnFrom
  BY <1>1 DEF FollowInv, OnTheWay
<1>4. /\ frame'.phase = "returning" /\ frame'.played = played
      /\ frame'.pos = InterpolatePositions(returnFrom, initial, played - phaseStart, ReturnTicks)
  BY <1>1 DEF Return, Send
<1>5. PICK e \in Nat : e = frame.played - phaseStart
  BY <1>2, <1>3
<1>6. PICK f \in Nat : f = played - phaseStart /\ e <= f /\ f - e = played - frame.played
  BY <1>2, <1>3, <1>5
<1>7. DOMAIN frame'.pos = 1..Width0
  BY <1>2, <1>4 DEF InterpolatePositions, Between
<1>8. ASSUME NEW c \in 1..Width0
      PROVE  WithinSpeed(frame'.pos[c] - frame.pos[c], initial[c] - returnFrom[c], ReturnTicks, f - e)
  BY <1>2, <1>3, <1>4, <1>5, <1>6, WayIsSmooth
<1> QED
  BY <1>1, <1>3, <1>4, <1>6, <1>7, <1>8 DEF Continues

(* Over a change of phase, an iteration that took long and any number of   *)
(* pauses no motor is sent further than it moves in the time between on    *)
(* the way it is on.                                                       *)
THEOREM Smooth == PlaySpec => MotionIsSmooth
<1>1. ASSUME IInv, IInv', FollowInv, [PlayNext]_allVars
      PROVE  [frame' # frame /\ pc = "loop" => Continues(frame, frame')]_frame
  <2>1. CASE Startup \/ Playback \/ StopPlayback \/ Return
    BY <1>1, <2>1, StartupContinues, PlaybackContinues, StopContinues, ReturnContinues
  <2>2. CASE UNCHANGED motionVars \/ TogglePause \/ Interrupt \/ LeaveLoop \/ Finish
    BY <2>2 DEF motionVars, TogglePause, Interrupt, LeaveLoop, Finish
  <2>3. CASE ReadInitialPositions
    BY <2>3 DEF ReadInitialPositions
  <2> QED
    BY <1>1, <2>1, <2>2, <2>3, Steps DEF LoopStep, allVars
<1> QED
  BY <1>1, Invariance, Following, PTL DEF PlaySpec, MotionIsSmooth, allVars

-----------------------------------------------------------------------------
(* The rows of the table.                                                  *)

TableType == [position : [Rows -> Values], lost : [Rows -> [sent : Nat, received : Nat]],
              column : {"Id", "Position", "Loss"}, ascending : BOOLEAN]

(* A comparison of numbers. *)
LEMMA CmpFacts ==
  ASSUME NEW a \in Int, NEW b \in Int
  PROVE  /\ Cmp(a, b) \in {-1, 0, 1}
         /\ Cmp(a, b) <= 0 <=> a <= b
         /\ Cmp(a, b) >= 0 <=> a >= b
         /\ Cmp(a, b) = 0 <=> a = b
BY DEF Cmp

(* The share that was lost is a proper fraction. *)
LEMMA RatioFacts ==
  ASSUME NEW l \in [sent : Nat, received : Nat]
  PROVE  LossRatio(l).num \in Nat /\ LossRatio(l).den \in Nat \ {0}
<1>1. l.sent \in Nat /\ l.received \in Nat
  OBVIOUS
<1>2. CASE l.sent = 0
  BY <1>2 DEF LossRatio
<1>3. CASE l.sent # 0
  <2>1. /\ LossRatio(l).num = l.sent - (IF l.received < l.sent THEN l.received ELSE l.sent)
        /\ LossRatio(l).den = l.sent
    BY <1>3 DEF LossRatio
  <2> QED
    BY <1>1, <1>3, <2>1
<1> QED
  BY <1>2, <1>3

(* The order of fractions a / b and c / d. *)
AtMost(a, b, c, d) == a * d <= c * b
Same(a, b, c, d)   == a * d = c * b

(* It goes through, since one divides by something. *)
LEMMA Fractions ==
  ASSUME NEW a \in Nat, NEW b \in Nat \ {0}, NEW c \in Nat, NEW d \in Nat \ {0},
         NEW e \in Nat, NEW f \in Nat \ {0},
         AtMost(a, b, c, d), AtMost(c, d, e, f)
  PROVE  /\ AtMost(a, b, e, f)
         /\ Same(a, b, e, f) => Same(a, b, c, d) /\ Same(c, d, e, f)
<1>1. a * d <= c * b /\ c * f <= e * d
  BY DEF AtMost
<1>2. (a * d) * f <= (c * b) * f
  BY <1>1
<1>3. (c * f) * b <= (e * d) * b
  BY <1>1
<1>4. (c * b) * f = (c * f) * b
  OBVIOUS
<1>5. (a * d) * f <= (e * d) * b
  BY <1>2, <1>3, <1>4
<1>6. (a * f) * d <= (e * b) * d
  BY <1>5
<1>7. a * f <= e * b
  BY <1>6
<1>8. ASSUME a * f = e * b
      PROVE  a * d = c * b /\ c * f = e * d
  <2>1. (a * d) * f = (e * d) * b
    BY <1>8
  <2>2. (a * d) * f = (c * b) * f /\ (c * f) * b = (e * d) * b
    BY <1>2, <1>3, <1>4, <2>1
  <2> QED
    BY <2>2
<1> QED
  BY <1>7, <1>8 DEF AtMost, Same

(* The comparison by a column is one of a value of each row: numbers, or   *)
(* fractions.                                                              *)
Compares(t, l, r) ==
  /\ ComparePrimary(t, l, r) \in {-1, 0, 1}
  /\ ComparePrimary(t, l, r) <= 0 <=> ComparePrimary(t, r, l) >= 0
  /\ ComparePrimary(t, l, r) >= 0 <=> ComparePrimary(t, r, l) <= 0

(* It relates any two rows, and goes through. *)
LEMMA Primary ==
  ASSUME NEW t \in TableType, NEW l \in Rows, NEW m \in Rows, NEW r \in Rows
  PROVE  /\ Compares(t, l, m)
         /\ ComparePrimary(t, l, m) <= 0 /\ ComparePrimary(t, m, r) <= 0 =>
              /\ ComparePrimary(t, l, r) <= 0
              /\ ComparePrimary(t, l, r) = 0 =>
                   ComparePrimary(t, l, m) = 0 /\ ComparePrimary(t, m, r) = 0
         /\ ComparePrimary(t, l, m) = 0 => (Missing(t, l) <=> Missing(t, m))
<1>1. l \in Int /\ m \in Int /\ r \in Int
  BY TableAssumption
<1>2. CASE t.column = "Id"
  <2>1. \A x, y \in Rows : ComparePrimary(t, x, y) = Cmp(x, y)
    BY <1>2 DEF ComparePrimary
  <2>2. ~Missing(t, l) /\ ~Missing(t, m)
    BY <1>2 DEF Missing
  <2> QED
    BY <1>1, <2>1, <2>2, CmpFacts DEF Compares
<1>3. CASE t.column = "Position"
  <2> DEFINE p == t.position
  <2>1. p \in [Rows -> Values]
    BY DEF TableType
  <2>2. \A x, y \in Rows : ComparePrimary(t, x, y) = Cmp(p[x], p[y])
    BY <1>3 DEF ComparePrimary
  <2>3. p[l] \in Int /\ p[m] \in Int /\ p[r] \in Int
    BY <2>1 DEF Values, NaN
  <2>4. \A x \in Rows : Missing(t, x) <=> p[x] = NaN
    BY <1>3 DEF Missing
  <2> HIDE DEF p
  <2> QED
    BY <2>2, <2>3, <2>4, CmpFacts DEF Compares
<1>4. CASE t.column = "Loss"
  <2> DEFINE num(x) == LossRatio(t.lost[x]).num
             den(x) == LossRatio(t.lost[x]).den
  <2>1. \A x \in Rows : num(x) \in Nat /\ den(x) \in Nat \ {0}
    <3>1. \A x \in Rows : t.lost[x] \in [sent : Nat, received : Nat]
      BY DEF TableType
    <3> QED
      BY <3>1, RatioFacts
  <2>2. \A x, y \in Rows : ComparePrimary(t, x, y) = Cmp(num(x) * den(y), num(y) * den(x))
    BY <1>4 DEF ComparePrimary
  <2>3. ~Missing(t, l) /\ ~Missing(t, m)
    BY <1>4 DEF Missing
  <2> HIDE DEF num, den
  <2>4. \A x, y \in Rows : /\ ComparePrimary(t, x, y) \in {-1, 0, 1}
                           /\ ComparePrimary(t, x, y) <= 0 <=> AtMost(num(x), den(x), num(y), den(y))
                           /\ ComparePrimary(t, x, y) >= 0 <=> AtMost(num(y), den(y), num(x), den(x))
                           /\ ComparePrimary(t, x, y) = 0 <=> Same(num(x), den(x), num(y), den(y))
    <3> TAKE x, y \in Rows
    <3>1. PICK p \in Int : p = num(x) * den(y)
      BY <2>1
    <3>2. PICK q \in Int : q = num(y) * den(x)
      BY <2>1
    <3>3. ComparePrimary(t, x, y) = Cmp(p, q)
      BY <2>2, <3>1, <3>2
    <3> QED
      BY <3>1, <3>2, <3>3, CmpFacts DEF AtMost, Same
  <2>5. Compares(t, l, m)
    BY <2>4 DEF Compares
  <2>6. ASSUME ComparePrimary(t, l, m) <= 0, ComparePrimary(t, m, r) <= 0
        PROVE  /\ ComparePrimary(t, l, r) <= 0
               /\ ComparePrimary(t, l, r) = 0 =>
                    ComparePrimary(t, l, m) = 0 /\ ComparePrimary(t, m, r) = 0
    <3>1. /\ AtMost(num(l), den(l), num(m), den(m))
          /\ AtMost(num(m), den(m), num(r), den(r))
      BY <2>4, <2>6
    <3>2. /\ AtMost(num(l), den(l), num(r), den(r))
          /\ Same(num(l), den(l), num(r), den(r)) =>
               /\ Same(num(l), den(l), num(m), den(m))
               /\ Same(num(m), den(m), num(r), den(r))
      BY <2>1, <3>1, Fractions
    <3> QED
      BY <2>4, <3>2
  <2> QED
    BY <2>3, <2>5, <2>6
<1> QED
  BY <1>2, <1>3, <1>4 DEF TableType

(* The order of the rows is a strict total order. *)
LEMMA BeforeIsOrder ==
  ASSUME NEW t \in TableType, NEW l \in Rows, NEW m \in Rows, NEW r \in Rows
  PROVE  /\ ~Before(t, l, l)
         /\ l # m => Before(t, l, m) \/ Before(t, m, l)
         /\ Before(t, l, m) /\ Before(t, m, r) => Before(t, l, r)
<1> DEFINE c(x, y) == ComparePrimary(t, x, y)
           gone(x) == Missing(t, x)
           up == t.ascending
<1>1. l \in Int /\ m \in Int /\ r \in Int /\ up \in BOOLEAN
  BY TableAssumption DEF TableType
<1>2. \A x, y \in Rows : Before(t, x, y) <=>
        IF gone(x) # gone(y) THEN gone(y)
        ELSE IF c(x, y) # 0 THEN (IF up THEN c(x, y) < 0 ELSE c(x, y) > 0) ELSE x < y
  BY Zenon DEF Before
<1>3. \A x, y \in Rows : /\ c(x, y) \in {-1, 0, 1}
                         /\ c(x, y) <= 0 <=> c(y, x) >= 0
                         /\ c(x, y) >= 0 <=> c(y, x) <= 0
                         /\ c(x, y) = 0 => (gone(x) <=> gone(y))
  BY Primary DEF Compares
<1>4. \A x, y, z \in Rows : c(x, y) <= 0 /\ c(y, z) <= 0 =>
        /\ c(x, z) <= 0
        /\ c(x, z) = 0 => c(x, y) = 0 /\ c(y, z) = 0
  BY Primary
<1>5. \A x \in Rows : gone(x) \in BOOLEAN
  BY DEF Missing
<1> HIDE DEF c, gone, up
<1>6. ~Before(t, l, l)
  BY <1>1, <1>2, <1>3
<1>7. l # m => Before(t, l, m) \/ Before(t, m, l)
  BY <1>1, <1>2, <1>3, <1>5
<1>8. Before(t, l, m) /\ Before(t, m, r) => Before(t, l, r)
  BY <1>1, <1>2, <1>3, <1>4, <1>5
<1> QED
  BY <1>6, <1>7, <1>8

(* As many rows go before a row as its place says, so each place has one   *)
(* row: the rows can be sorted.                                            *)
LEMMA SortedIs ==
  ASSUME NEW t \in TableType
  PROVE  /\ Cardinality(Rows) \in Nat
         /\ Sorted(t) \in [1..Cardinality(Rows) -> Rows]
         /\ \A i, j \in 1..Cardinality(Rows) : i < j => Before(t, Sorted(t)[i], Sorted(t)[j])
<1> DEFINE n == Cardinality(Rows)
           Ahead(m) == {l \in Rows : Before(t, l, m)}
           rank == [m \in Rows |-> Cardinality(Ahead(m)) + 1]
<1>1. IsFiniteSet(Rows) /\ n \in Nat
  BY TableAssumption, FS_CardinalityType
<1>2. ASSUME NEW m \in Rows
      PROVE  IsFiniteSet(Ahead(m)) /\ Cardinality(Ahead(m)) \in Nat /\ Cardinality(Ahead(m)) < n
  <2>1. Ahead(m) \in SUBSET Rows /\ m \notin Ahead(m)
    BY BeforeIsOrder
  <2> HIDE DEF Ahead
  <2>2. IsFiniteSet(Ahead(m)) /\ Cardinality(Ahead(m)) <= n /\ (n = Cardinality(Ahead(m)) => Rows = Ahead(m))
    BY <1>1, <2>1, FS_Subset
  <2>3. Cardinality(Ahead(m)) \in Nat
    BY <2>2, FS_CardinalityType
  <2> QED
    BY <1>1, <2>1, <2>2, <2>3
<1>3. ASSUME NEW l \in Rows, NEW m \in Rows, Before(t, l, m)
      PROVE  rank[l] < rank[m]
  <2>1. Ahead(l) \in SUBSET Ahead(m) /\ l \in Ahead(m) /\ l \notin Ahead(l)
    BY <1>3, BeforeIsOrder
  <2> HIDE DEF Ahead
  <2>2. /\ Cardinality(Ahead(l)) <= Cardinality(Ahead(m))
        /\ Cardinality(Ahead(m)) = Cardinality(Ahead(l)) => Ahead(m) = Ahead(l)
    BY <1>2, <2>1, FS_Subset
  <2>3. Cardinality(Ahead(l)) < Cardinality(Ahead(m))
    BY <1>2, <2>1, <2>2
  <2> QED
    BY <1>2, <2>3
<1>4. rank \in [Rows -> 1..n]
  <2> HIDE DEF Ahead, n
  <2> QED
    BY <1>1, <1>2
<1> HIDE DEF rank, Ahead
<1>5. rank \in Surjection(Rows, 1..n)
  <2>1. \A l, m \in Rows : rank[l] = rank[m] => l = m
    <3> TAKE l, m \in Rows
    <3>1. rank[l] \in 1..n /\ rank[m] \in 1..n
      BY <1>4
    <3> QED
      BY <1>1, <1>3, <3>1, BeforeIsOrder
  <2>2. rank \in Injection(Rows, 1..n)
    BY <1>4, <2>1 DEF Injection, IsInjective
  <2>3. IsFiniteSet(1..n) /\ Cardinality(1..n) = n
    BY <1>1, FS_Interval
  <2> QED
    BY <1>1, <2>2, <2>3, FS_Injection
<1> DEFINE q == [i \in 1..n |-> CHOOSE m \in Rows : rank[m] = i]
<1>6. \A i \in 1..n : q[i] \in Rows /\ rank[q[i]] = i
  <2>1. \A i \in 1..n : \E m \in Rows : rank[m] = i
    BY <1>5 DEF Surjection
  <2> QED
    BY <2>1
<1>7. q \in [1..n -> Rows]
  BY <1>6
<1>8. \A i, j \in 1..n : i < j => Before(t, q[i], q[j])
  <2> TAKE i, j \in 1..n
  <2> HAVE i < j
  <2> HIDE DEF q
  <2>1. q[i] \in Rows /\ q[j] \in Rows /\ rank[q[i]] = i /\ rank[q[j]] = j
    BY <1>6
  <2>2. q[i] # q[j]
    BY <2>1
  <2>3. ~Before(t, q[j], q[i])
    BY <1>1, <1>3, <2>1
  <2> QED
    BY <2>1, <2>2, <2>3, BeforeIsOrder
<1> DEFINE Good(rows) == \A i, j \in DOMAIN rows : i < j => Before(t, rows[i], rows[j])
<1>9. Good(q)
  BY <1>7, <1>8
<1>10. Sorted(t) = CHOOSE rows \in [1..n -> Rows] : Good(rows)
  BY DEF Sorted
<1> HIDE DEF q, Good, n
<1>11. Sorted(t) \in [1..n -> Rows] /\ Good(Sorted(t))
  BY <1>7, <1>9, <1>10
<1> QED
  BY <1>1, <1>11 DEF Good, n

(* Sorted rows are ordered as they should be. *)
LEMMA SortedIsOrdered ==
  ASSUME table \in TableType, order = Sorted(table)
  PROVE  TableIsOrdered
<1> DEFINE n == Cardinality(Rows)
<1>1. /\ n \in Nat /\ order \in [1..n -> Rows]
      /\ \A i, j \in 1..n : i < j => Before(table, order[i], order[j])
  BY SortedIs
<1> HIDE DEF n
<1>2. DOMAIN order = 1..n /\ Len(order) = n
  BY <1>1
<1>3. \A i, j \in 1..n : order[i] = order[j] => i = j
  BY <1>1, BeforeIsOrder
<1>4. ToSet(order) = Rows
  <2>1. order \in Injection(1..n, Rows)
    BY <1>1, <1>3 DEF Injection, IsInjective
  <2>2. IsFiniteSet(1..n) /\ Cardinality(1..n) = Cardinality(Rows)
    BY <1>1, FS_Interval DEF n
  <2>3. order \in Surjection(1..n, Rows)
    BY <2>1, <2>2, TableAssumption, FS_Injection
  <2> QED
    BY <1>1, <1>2, <2>3 DEF ToSet, Surjection
<1>5. ASSUME NEW i \in 1..n, NEW j \in 1..n, i < j
      PROVE  LET l == order[i]
                 r == order[j]
                 c == ComparePrimary(table, l, r)
             IN  /\ Missing(table, l) => Missing(table, r)
                 /\ ~Missing(table, r) => (IF table.ascending THEN c <= 0 ELSE c >= 0)
                 /\ c = 0 => l < r
  <2>1. order[i] \in Rows /\ order[j] \in Rows /\ Before(table, order[i], order[j])
    BY <1>1, <1>5
  <2>2. PICK l \in Rows : l = order[i]
    BY <2>1
  <2>3. PICK r \in Rows : r = order[j]
    BY <2>1
  <2>4. /\ ComparePrimary(table, l, r) \in {-1, 0, 1}
        /\ ComparePrimary(table, l, r) = 0 => (Missing(table, l) <=> Missing(table, r))
        /\ Missing(table, l) \in BOOLEAN /\ Missing(table, r) \in BOOLEAN
    BY Primary DEF Compares, Missing
  <2>5. Before(table, l, r)
    BY <2>1, <2>2, <2>3
  <2>6. /\ Missing(table, l) => Missing(table, r)
        /\ ~Missing(table, r) => (IF table.ascending THEN ComparePrimary(table, l, r) <= 0
                                  ELSE ComparePrimary(table, l, r) >= 0)
        /\ ComparePrimary(table, l, r) = 0 => l < r
    BY <2>4, <2>5 DEF Before
  <2> QED
    BY <2>2, <2>3, <2>6
<1>6. \A l, m, r \in Rows :
        Before(table, l, m) /\ Before(table, m, r) => Before(table, l, r)
  BY BeforeIsOrder
<1> QED
  BY <1>2, <1>4, <1>5, <1>6 DEF TableIsOrdered, n

-----------------------------------------------------------------------------
(* The window of the losses.                                               *)

Capture == [time : Nat, sent : Nat, received : Nat]

(* The window keeps the end of the list, from a sample that is recent.     *)
LEMMA RecentIs ==
  ASSUME NEW t \in Nat, NEW list \in Seq(Capture), list # <<>>, list[Len(list)].time = t
  PROVE  /\ Recent(list, t) \in Seq(Capture)
         /\ Recent(list, t) # <<>>
         /\ Recent(list, t)[1].time >= t - Window
         /\ \A k \in DOMAIN Recent(list, t) : \E j \in DOMAIN list : Recent(list, t)[k] = list[j]
<1> DEFINE Kept(i) == i = Len(list) \/ list[i].time >= t - Window
           First(i) == Kept(i) /\ \A j \in 1..i - 1 : list[j].time < t - Window
           T == {i \in DOMAIN list : Kept(i)}
           i == CHOOSE i \in DOMAIN list : First(i)
<1>1. /\ Len(list) \in Nat \ {0} /\ DOMAIN list = 1..Len(list) /\ Window \in Nat
      /\ \A j \in DOMAIN list : list[j].time \in Nat
  <2>1. Window \in Nat
    BY TableAssumption
  <2>2. Len(list) \in Nat \ {0} /\ DOMAIN list = 1..Len(list) /\ \A j \in DOMAIN list : list[j] \in Capture
    OBVIOUS
  <2> QED
    BY <2>1, <2>2 DEF Capture
<1>2. \E j \in DOMAIN list : First(j)
  <2>1. T \in SUBSET Nat /\ T # {}
    BY <1>1
  <2>2. PICK x \in T : \A y \in T : x <= y
    <3> HIDE DEF T
    <3> QED
      BY <2>1, Least
  <2>3. ASSUME NEW j \in 1..x - 1
        PROVE  list[j].time < t - Window
    <3>1. j \in DOMAIN list /\ j < x
      BY <1>1, <2>2, <2>3
    <3>2. j \notin T
      BY <1>1, <2>2, <3>1
    <3>3. list[j].time \in Nat /\ ~(list[j].time >= t - Window)
      BY <1>1, <3>1, <3>2
    <3> QED
      BY <1>1, <3>3
  <2> QED
    BY <2>2, <2>3
<1>3. i \in DOMAIN list /\ First(i)
  <2> HIDE DEF First
  <2> QED
    BY <1>2
<1>4. Recent(list, t) = SubSeq(list, i, Len(list))
  BY Zenon DEF Recent
<1>5. list[i].time >= t - Window
  BY <1>1, <1>3
<1> HIDE DEF i, First, Kept, T
<1>6. PICK a \in DOMAIN list : a = i
  BY <1>3
<1>7. /\ SubSeq(list, a, Len(list)) \in Seq(Capture)
      /\ Len(SubSeq(list, a, Len(list))) = Len(list) - a + 1
      /\ \A k \in 1..Len(list) - a + 1 : SubSeq(list, a, Len(list))[k] = list[a + k - 1]
  BY <1>1
<1>8. \A k \in 1..Len(list) - a + 1 : a + k - 1 \in DOMAIN list
  BY <1>1
<1>9. Len(list) - a + 1 \in Nat \ {0}
  BY <1>1
<1>10. SubSeq(list, a, Len(list))[1] = list[a]
  <2>1. SubSeq(list, a, Len(list))[1] = list[a + 1 - 1]
    BY <1>7, <1>9
  <2> QED
    BY <1>1, <2>1
<1>11. DOMAIN SubSeq(list, a, Len(list)) = 1..Len(list) - a + 1
  BY <1>7
<1> QED
  BY <1>4, <1>5, <1>6, <1>7, <1>8, <1>9, <1>10, <1>11

(* The counter that a sample holds: what was counted later is not older    *)
(* than the sample.                                                        *)
Counted(times, count, t) ==
  /\ count <= Len(times)
  /\ \A i \in DOMAIN times : i > count => times[i] >= t

(* So the difference since then is among what was counted since a time     *)
(* before it.                                                              *)
LEMMA DifferenceIsRecent ==
  ASSUME NEW times \in Seq(Nat), NEW count \in Nat, NEW t \in Nat, NEW since \in Int,
         Counted(times, count, t), t >= since
  PROVE  Len(times) - count \in 0..Since(times, since)
<1> DEFINE S == {i \in DOMAIN times : times[i] >= since}
           n == Len(times)
<1>1. n \in Nat /\ DOMAIN times = 1..n /\ count <= n /\ \A i \in DOMAIN times : times[i] \in Nat
  BY DEF Counted
<1>2. count + 1..n \subseteq S
  BY <1>1 DEF Counted
<1>3. IsFiniteSet(S)
  <2>1. IsFiniteSet(1..n) /\ S \in SUBSET (1..n)
    BY <1>1, FS_Interval
  <2> HIDE DEF S, n
  <2> QED
    BY <2>1, FS_Subset
<1>4. Cardinality(count + 1..n) = n - count
  <2> HIDE DEF n
  <2>1. Cardinality(count + 1..n) = IF count + 1 > n THEN 0 ELSE n - (count + 1) + 1
    BY <1>1, FS_Interval
  <2> QED
    BY <1>1, <2>1
<1> HIDE DEF S, n
<1>5. Cardinality(count + 1..n) <= Cardinality(S) /\ Cardinality(S) \in Nat
  BY <1>2, <1>3, FS_Subset, FS_CardinalityType
<1>6. Since(times, since) = Cardinality(S)
  BY DEF Since, S
<1> QED
  BY <1>1, <1>4, <1>5, <1>6 DEF n

(* What was counted since a time only grows. *)
LEMMA SinceGrows ==
  ASSUME NEW times \in Seq(Nat), NEW t \in Nat, NEW since \in Int
  PROVE  /\ Since(times, since) \in Nat
         /\ Since(times, since) <= Since(Append(times, t), since)
<1> DEFINE S(s) == {i \in DOMAIN s : s[i] >= since}
<1>1. \A s \in Seq(Nat) : IsFiniteSet(S(s)) /\ Cardinality(S(s)) \in Nat
  <2> TAKE s \in Seq(Nat)
  <2>1. IsFiniteSet(1..Len(s)) /\ S(s) \in SUBSET (1..Len(s))
    BY FS_Interval
  <2> HIDE DEF S
  <2> QED
    BY <2>1, FS_Subset, FS_CardinalityType
<1>2. Append(times, t) \in Seq(Nat) /\ S(times) \in SUBSET S(Append(times, t))
  BY DEF S
<1>3. \A s : Since(s, since) = Cardinality(S(s))
  BY DEF Since
<1> HIDE DEF S
<1>4. Cardinality(S(times)) <= Cardinality(S(Append(times, t)))
  BY <1>1, <1>2, FS_Subset
<1> QED
  BY <1>1, <1>3, <1>4

-----------------------------------------------------------------------------
(* The invariant.                                                          *)

RowsInv ==
  /\ table \in TableType
  /\ order = Sorted(table)

WindowType ==
  /\ time \in Nat
  /\ sent \in Seq(Nat) /\ received \in Seq(Nat)
  /\ samples \in Seq(Capture) /\ samples # <<>>

SamplesAreTrue ==
  \A k \in DOMAIN samples :
    /\ samples[k].time <= time
    /\ Counted(sent, samples[k].sent, samples[k].time)
    /\ Counted(received, samples[k].received, samples[k].time)

WindowInv ==
  /\ WindowType
  /\ SamplesAreTrue
  /\ LossWindowIsRecent

TableInv == RowsInv /\ WindowInv

(* A list of counts that grows keeps what the samples tell. *)
LEMMA CountedGrows ==
  ASSUME NEW times \in Seq(Nat), NEW count \in Nat, NEW t \in Nat, NEW u \in Nat,
         t <= u, Counted(times, count, t)
  PROVE  Counted(Append(times, u), count, t)
BY DEF Counted

(* What was counted up to a sample is nothing later. *)
LEMMA CountedNow ==
  ASSUME NEW times \in Seq(Nat), NEW t \in Nat
  PROVE  Counted(times, Len(times), t)
BY DEF Counted

(* Initially the screen shows no losses and the rows are sorted. *)
LEMMA TableInitially == TableInit => TableInv
<1> SUFFICES ASSUME TableInit PROVE TableInv
  OBVIOUS
<1>1. RowsInv
  BY DEF TableInit, RowsInv, TableType, Values, NaN
<1>2. WindowType
  <2>1. [time |-> 0, sent |-> 0, received |-> 0] \in Capture
    BY DEF Capture
  <2> QED
    BY <2>1 DEF TableInit, WindowType
<1>3. SamplesAreTrue
  BY DEF TableInit, SamplesAreTrue, Counted
<1>4. LossWindowIsRecent
  <2>1. Window \in Nat
    BY TableAssumption
  <2>2. 0 - Window \in Int /\ <<>> \in Seq(Nat)
    BY <2>1
  <2>3. Since(<<>>, 0 - Window) \in Nat
    BY <2>2, SinceGrows
  <2> QED
    BY <2>3 DEF TableInit, LossWindowIsRecent
<1> QED
  BY <1>1, <1>2, <1>3, <1>4 DEF TableInv, WindowInv

(* A frame or an answer that is counted. *)
LEMMA CountStep ==
  ASSUME WindowInv, CountSent \/ CountReceived
  PROVE  WindowInv'
<1>1. /\ time' = time /\ samples' = samples /\ shown' = shown
      /\ sent' \in {sent, Append(sent, time)} /\ received' \in {received, Append(received, time)}
  BY DEF CountSent, CountReceived
<1>2. WindowType'
  <2>1. Append(sent, time) \in Seq(Nat) /\ Append(received, time) \in Seq(Nat)
    BY DEF WindowInv, WindowType
  <2>2. sent' \in Seq(Nat) /\ received' \in Seq(Nat)
    BY <1>1, <2>1 DEF WindowInv, WindowType
  <2> QED
    BY <1>1, <2>2 DEF WindowInv, WindowType
<1>3. SamplesAreTrue'
  <2> SUFFICES ASSUME NEW k \in DOMAIN samples
               PROVE  /\ samples[k].time <= time
                      /\ Counted(sent', samples[k].sent, samples[k].time)
                      /\ Counted(received', samples[k].received, samples[k].time)
    BY <1>1 DEF SamplesAreTrue
  <2>1. samples[k] \in Capture
    BY DEF WindowInv, WindowType
  <2>2. samples[k].time \in Nat /\ samples[k].sent \in Nat /\ samples[k].received \in Nat /\ time \in Nat
    BY <2>1 DEF WindowInv, WindowType, Capture
  <2>3. /\ samples[k].time <= time
        /\ Counted(sent, samples[k].sent, samples[k].time)
        /\ Counted(received, samples[k].received, samples[k].time)
    BY DEF WindowInv, SamplesAreTrue
  <2>4. /\ Counted(Append(sent, time), samples[k].sent, samples[k].time)
        /\ Counted(Append(received, time), samples[k].received, samples[k].time)
    BY <2>2, <2>3, CountedGrows DEF WindowInv, WindowType
  <2> QED
    BY <1>1, <2>3, <2>4
<1>4. LossWindowIsRecent'
  <2>1. PICK w \in Int : w = time - Window
    BY TableAssumption DEF WindowInv, WindowType
  <2>2. \A times \in {sent, received} :
          \A longer \in {times, Append(times, time)} :
            /\ Since(times, w) \in Nat /\ Since(longer, w) \in Nat
            /\ Since(times, w) <= Since(longer, w)
    <3> TAKE times \in {sent, received}
    <3>1. times \in Seq(Nat) /\ time \in Nat /\ Append(times, time) \in Seq(Nat)
      BY DEF WindowInv, WindowType
    <3>2. /\ Since(times, w) \in Nat /\ Since(Append(times, time), w) \in Nat
          /\ Since(times, w) <= Since(Append(times, time), w)
      BY ONLY <3>1, SinceGrows, w \in Int, Zenon
    <3>3. Since(times, w) <= Since(times, w)
      BY <3>2
    <3> QED
      BY ONLY <3>2, <3>3, Zenon
  <2>3. shown.sent \in 0..Since(sent, w) /\ shown.received \in 0..Since(received, w)
    BY <2>1 DEF WindowInv, LossWindowIsRecent
  <2>4. /\ Since(sent', w) \in Nat /\ Since(received', w) \in Nat
        /\ Since(sent, w) <= Since(sent', w) /\ Since(received, w) <= Since(received', w)
    BY <1>1, <2>2
  <2>5. shown.sent \in 0..Since(sent', w) /\ shown.received \in 0..Since(received', w)
    BY <2>2, <2>3, <2>4
  <2> QED
    BY <1>1, <2>1, <2>5 DEF LossWindowIsRecent
<1> QED
  BY <1>2, <1>3, <1>4 DEF WindowInv

(* A capture of the window. *)
LEMMA CaptureStep ==
  ASSUME WindowInv, CaptureWindow
  PROVE  WindowInv'
<1>1. PICK d \in 1..MaxPause :
        LET list == Update(samples, time + d, Len(sent), Len(received)) IN
        /\ time' = time + d
        /\ samples' = list
        /\ shown' = [sent |-> Len(sent) - list[1].sent, received |-> Len(received) - list[1].received]
  BY DEF CaptureWindow
<1>2. sent' = sent /\ received' = received
  BY DEF CaptureWindow
<1>3. /\ time \in Nat /\ d \in Nat /\ time' \in Nat /\ time' >= time /\ Window \in Nat
      /\ sent \in Seq(Nat) /\ received \in Seq(Nat)
      /\ Len(sent) \in Nat /\ Len(received) \in Nat
  BY <1>1, TableAssumption DEF WindowInv, WindowType
<1> DEFINE new  == [time |-> time', sent |-> Len(sent), received |-> Len(received)]
           Holds(s) == /\ s \in Capture /\ s.time <= time'
                      /\ Counted(sent, s.sent, s.time)
                      /\ Counted(received, s.received, s.time)
<1>4. Holds(new)
  BY <1>3, CountedNow DEF Capture
<1>5. PICK kept \in {<<>>, samples} : samples' = Recent(Append(kept, new), time')
  BY <1>1 DEF Update
<1>6. kept \in Seq(Capture) /\ \A k \in DOMAIN kept : Holds(kept[k])
  <2>1. samples \in Seq(Capture)
    BY DEF WindowInv, WindowType
  <2>2. ASSUME NEW k \in DOMAIN samples
        PROVE  Holds(samples[k])
    <3>1. samples[k] \in Capture
      BY <2>1
    <3>2. samples[k].time \in Nat
      BY <3>1 DEF Capture
    <3>3. /\ samples[k].time <= time
          /\ Counted(sent, samples[k].sent, samples[k].time)
          /\ Counted(received, samples[k].received, samples[k].time)
      BY DEF WindowInv, SamplesAreTrue
    <3>4. samples[k].time <= time'
      BY <1>3, <3>2, <3>3
    <3> QED
      BY <3>1, <3>3, <3>4
  <2>3. CASE kept = samples
    <3> HIDE DEF Holds
    <3> QED
      BY <2>1, <2>2, <2>3
  <2>4. CASE kept = <<>>
    <3>1. kept \in Seq(Capture) /\ DOMAIN kept = {}
      BY <2>4
    <3> HIDE DEF Holds
    <3> QED
      BY <3>1
  <2> QED
    BY <1>5, <2>3, <2>4
<1> DEFINE list == Append(kept, new)
<1>7. new \in Capture /\ new.time = time'
  BY <1>4
<1>8. /\ list \in Seq(Capture) /\ list # <<>> /\ list[Len(list)] = new
      /\ \A k \in DOMAIN list : Holds(list[k])
  <2> HIDE DEF Holds, new
  <2>1. /\ list \in Seq(Capture) /\ Len(list) = Len(kept) + 1 /\ list[Len(list)] = new
        /\ \A k \in 1..Len(kept) : list[k] = kept[k]
        /\ Len(kept) \in Nat /\ DOMAIN kept = 1..Len(kept)
    BY <1>6, <1>7
  <2> HIDE DEF list
  <2>2. list # <<>> /\ DOMAIN list = 1..Len(kept) + 1
    BY <2>1
  <2>3. \A k \in DOMAIN list : Holds(list[k])
    <3> TAKE k \in DOMAIN list
    <3>1. CASE k = Len(list)
      BY <1>4, <2>1, <3>1
    <3>2. CASE k # Len(list)
      <4>1. k \in 1..Len(kept)
        BY <2>1, <2>2, <3>2
      <4> QED
        BY <1>6, <2>1, <4>1
    <3> QED
      BY <3>1, <3>2
  <2> QED
    BY <2>1, <2>2, <2>3
<1> HIDE DEF Holds, new, list
<1>9. /\ samples' \in Seq(Capture) /\ samples' # <<>>
      /\ samples'[1].time >= time' - Window
      /\ \A k \in DOMAIN samples' : \E j \in DOMAIN list : samples'[k] = list[j]
  <2>1. list[Len(list)].time = time' /\ samples' = Recent(list, time')
    BY <1>5, <1>7, <1>8 DEF list
  <2> QED
    BY <1>3, <1>8, <2>1, RecentIs
<1>10. \A k \in DOMAIN samples' : Holds(samples'[k])
  BY <1>8, <1>9
<1>11. WindowType'
  BY <1>2, <1>3, <1>9 DEF WindowType
<1>12. SamplesAreTrue'
  BY <1>2, <1>10 DEF SamplesAreTrue, Holds
<1>13. LossWindowIsRecent'
  <2>1. PICK s \in Capture : s = samples'[1]
    BY <1>9
  <2>2. 1 \in DOMAIN samples'
    BY <1>9
  <2>3. Holds(s)
    BY <1>10, <2>1, <2>2
  <2>4. s.time \in Nat /\ s.sent \in Nat /\ s.received \in Nat
    BY <2>1 DEF Capture
  <2>5. PICK w \in Int : w = time' - Window
    <3>1. time' - Window \in Int
      BY <1>3
    <3> QED
      BY ONLY <3>1, Zenon
  <2>6. s.time >= w
    BY <1>9, <2>1, <2>5
  <2>7. /\ Len(sent) - s.sent \in 0..Since(sent, w)
        /\ Len(received) - s.received \in 0..Since(received, w)
    <3>1. Counted(sent, s.sent, s.time) /\ Counted(received, s.received, s.time)
      BY <2>3 DEF Holds
    <3> QED
      BY <1>3, <2>4, <2>6, <3>1, DifferenceIsRecent
  <2>8. shown' = [sent |-> Len(sent) - s.sent, received |-> Len(received) - s.received]
    BY <1>1, <2>1
  <2> QED
    BY <1>2, <2>5, <2>7, <2>8 DEF LossWindowIsRecent
<1> QED
  BY <1>11, <1>12, <1>13 DEF WindowInv

(* The rows are captured, or sorted in another way. *)
LEMMA RowsStep ==
  ASSUME RowsInv, RowsNext
  PROVE  RowsInv'
<1>1. order' = Sorted(table')
  BY DEF RowsNext, CaptureRows, SortByKey
<1>2. CASE CaptureRows
  <2>1. Losses \subseteq [sent : Nat, received : Nat]
    BY DEF Losses
  <2>2. ASSUME NEW p \in [Rows -> Values], table' = [table EXCEPT !.position = p]
        PROVE  table' \in TableType
    BY <2>2 DEF RowsInv, TableType
  <2>3. ASSUME NEW l \in [Rows -> Losses], table' = [table EXCEPT !.lost = l]
        PROVE  table' \in TableType
    BY <2>1, <2>3 DEF RowsInv, TableType
  <2>4. table' \in TableType
    BY <1>2, <2>2, <2>3 DEF CaptureRows
  <2> QED
    BY <1>1, <2>4 DEF RowsInv, TableType
<1>3. CASE SortByKey
  <2>1. \A n \in Nat : Columns[1 + (n % Len(Columns))] \in {"Id", "Position", "Loss"}
    <3>1. Len(Columns) = 3 /\ Columns[1] = "Id" /\ Columns[2] = "Position" /\ Columns[3] = "Loss"
      BY DEF Columns
    <3>2. \A n \in Nat : n % 3 \in 0..2
      OBVIOUS
    <3>3. \A n \in 0..2 : Columns[1 + n] \in {"Id", "Position", "Loss"}
      BY <3>1
    <3> QED
      BY <3>1, <3>2, <3>3
  <2>2. ASSUME table' = [table EXCEPT !.ascending = ~@]
        PROVE  table' \in TableType
    BY <2>2 DEF RowsInv, TableType
  <2>3. ASSUME NEW step \in {1, Len(Columns) - 1}, NEW i \in DOMAIN Columns,
               table' = [table EXCEPT !.column = Columns[1 + ((i - 1 + step) % Len(Columns))]]
        PROVE  table' \in TableType
    <3>1. i - 1 + step \in Nat
      BY DEF Columns
    <3>2. Columns[1 + ((i - 1 + step) % Len(Columns))] \in {"Id", "Position", "Loss"}
      BY <2>1, <3>1
    <3> QED
      BY <2>3, <3>2 DEF RowsInv, TableType
  <2>4. table' \in TableType
    BY <1>3, <2>2, <2>3 DEF SortByKey
  <2> QED
    BY <1>1, <2>4 DEF RowsInv, TableType
<1> QED
  BY <1>2, <1>3 DEF RowsNext

(* Every step keeps the invariant. *)
LEMMA TableStep ==
  ASSUME TableInv, [WindowNext \/ RowsNext]_tableVars
  PROVE  TableInv'
<1>1. CASE WindowNext
  <2>1. WindowInv'
    BY <1>1, CountStep, CaptureStep DEF TableInv, WindowNext
  <2>2. UNCHANGED <<table, order>>
    BY <1>1 DEF WindowNext, CountSent, CountReceived, CaptureWindow
  <2>3. RowsInv'
    BY <2>2 DEF TableInv, RowsInv, TableType
  <2> QED
    BY <2>1, <2>3 DEF TableInv
<1>2. CASE RowsNext
  <2>1. UNCHANGED <<time, sent, received, samples, shown>>
    BY <1>2 DEF RowsNext, CaptureRows, SortByKey
  <2>2. WindowInv'
    BY <2>1 DEF TableInv, WindowInv, WindowType, SamplesAreTrue, LossWindowIsRecent
  <2>3. RowsInv'
    BY <1>2, RowsStep DEF TableInv
  <2> QED
    BY <2>2, <2>3 DEF TableInv
<1>3. CASE UNCHANGED tableVars
  <2>1. UNCHANGED <<time, sent, received, samples, shown, table, order>>
    BY <1>3 DEF tableVars
  <2> QED
    BY <2>1 DEF TableInv, RowsInv, WindowInv, WindowType, SamplesAreTrue, LossWindowIsRecent
<1> QED
  BY <1>1, <1>2, <1>3

(* The invariant holds. *)
LEMMA TableInvariance == TableSpec => []TableInv
<1>1. TableInit => TableInv
  BY TableInitially
<1>2. TableInv /\ [WindowNext \/ RowsNext]_tableVars => TableInv'
  BY TableStep
<1> QED
  BY <1>1, <1>2, PTL DEF TableSpec

(* ScreenIsRight *)
THEOREM Screen == TableSpec => []ScreenIsRight
<1>1. TableInv => ScreenIsRight
  BY SortedIsOrdered DEF TableInv, RowsInv, WindowInv, ScreenIsRight
<1> QED
  BY <1>1, TableInvariance, PTL

=============================================================================
