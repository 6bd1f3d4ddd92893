------------------------------- MODULE PlayTable -------------------------------
(***************************************************************************)
(* What the screen of emcli play shows about the motors: the losses of the *)
(* last seconds (PlayLossWindow), and the rows in the order of a column    *)
(* the user chooses (SortPlayMotorSnapshots).                              *)
(*                                                                         *)
(* The control loop and the receiving thread of the driver count frames    *)
(* and answers while the screen thread captures the counters.              *)
(***************************************************************************)
EXTENDS Integers, Sequences, FiniteSets, SequencesExt

CONSTANTS
  Window,       \* the three seconds of PlayLossWindow
  Rows,         \* motors, numbered in the order of their identity
  MaxFrames, MaxCaptures, MaxPause  \* bounds: frames, captures, time between captures

ASSUME TableAssumption ==
  /\ {Window, MaxFrames, MaxCaptures, MaxPause} \subseteq Nat
  /\ Rows \subseteq Nat /\ IsFiniteSet(Rows)

VARIABLES
  time,          \* of the last capture
  sent, received,  \* history: when each frame and each answer was counted
  samples,       \* samples_: [time, sent, received]
  shown,         \* what Update returned
  captures,      \* how many
  table,         \* [position: per motor, or NaN without a status, lost: per motor as
                 \*  [sent, received], column: sort_column, ascending: sort_ascending]
  order          \* the rows as they are shown

tableVars == <<time, sent, received, samples, shown, captures, table, order>>

NaN == 99  \* no status
Values == {0, 1, NaN}
Losses == {[sent |-> 0, received |-> 1], [sent |-> 1, received |-> 0], [sent |-> 2, received |-> 1]}
Columns == <<"Id", "Position", "Loss">>

-----------------------------------------------------------------------------
(* PlayLossWindow.                                                         *)

\* The first sample that is not older than the window; the last is always kept.
Recent(list, t) ==
  LET i == CHOOSE i \in DOMAIN list : /\ i = Len(list) \/ list[i].time >= t - Window
                                      /\ \A j \in 1..i - 1 : list[j].time < t - Window
  IN  SubSeq(list, i, Len(list))

\* Counters that went back start a new window.
Update(list, t, s, r) ==
  LET restarted == list # <<>> /\ (s < Last(list).sent \/ r < Last(list).received)
  IN  Recent(Append(IF restarted THEN <<>> ELSE list, [time |-> t, sent |-> s, received |-> r]), t)

-----------------------------------------------------------------------------
(* SortPlayMotorSnapshots.                                                 *)

Cmp(a, b) == IF a < b THEN -1 ELSE IF b < a THEN 1 ELSE 0

\* The share that was lost: nothing when nothing was sent.
LossRatio(l) == IF l.sent = 0 THEN [num |-> 0, den |-> 1]
                ELSE [num |-> l.sent - (IF l.received < l.sent THEN l.received ELSE l.sent),
                      den |-> l.sent]

ComparePrimary(t, l, r) ==
  CASE t.column = "Id" -> Cmp(l, r)
    [] t.column = "Position" -> Cmp(t.position[l], t.position[r])
    [] t.column = "Loss" -> Cmp(LossRatio(t.lost[l]).num * LossRatio(t.lost[r]).den,
                                LossRatio(t.lost[r]).num * LossRatio(t.lost[l]).den)

Missing(t, m) == t.column = "Position" /\ t.position[m] = NaN

\* Mutation: the direction turns the missing values around as well.
BeforeByValue(t, l, r) ==
  LET c == ComparePrimary(t, l, r)
  IN  IF c # 0 THEN (IF t.ascending THEN c < 0 ELSE c > 0) ELSE l < r

\* Missing values are last in both directions, equal rows in the order of
\* their identity.
Before(t, l, r) ==
  LET c == ComparePrimary(t, l, r)
  IN  IF Missing(t, l) # Missing(t, r) THEN Missing(t, r)
      ELSE IF c # 0 THEN (IF t.ascending THEN c < 0 ELSE c > 0) ELSE l < r

\* std::sort with this order.
Sorted(t) == CHOOSE rows \in [1..Cardinality(Rows) -> Rows] :
               \A i, j \in DOMAIN rows : i < j => Before(t, rows[i], rows[j])

-----------------------------------------------------------------------------
TableInit ==
  /\ time = 0 /\ sent = <<>> /\ received = <<>> /\ captures = 0
  /\ samples = <<[time |-> 0, sent |-> 0, received |-> 0]>>  \* ResetStressCounters
  /\ shown = [sent |-> 0, received |-> 0]
  /\ table = [position |-> [m \in Rows |-> NaN],
              lost |-> [m \in Rows |-> [sent |-> 0, received |-> 0]],
              column |-> "Id", ascending |-> TRUE]
  /\ order = Sorted(table)

\* The control loop counts a frame before the status thread's next look, the
\* driver any status the motor sends.
CountSent ==
  /\ Len(sent) < MaxFrames
  /\ sent' = Append(sent, time)
  /\ UNCHANGED <<time, received, samples, shown, captures, table, order>>

CountReceived ==
  /\ Len(received) < MaxFrames
  /\ received' = Append(received, time)
  /\ UNCHANGED <<time, sent, samples, shown, captures, table, order>>

\* CaptureSnapshots for the window of one motor.
CaptureWindow ==
  /\ captures < MaxCaptures /\ captures' = captures + 1
  /\ \E d \in 1..MaxPause :
       LET list == Update(samples, time + d, Len(sent), Len(received)) IN
       /\ time' = time + d
       /\ samples' = list
       /\ shown' = [sent |-> Len(sent) - list[1].sent, received |-> Len(received) - list[1].received]
  /\ UNCHANGED <<sent, received, table, order>>

\* RenderTuiReport captures every motor and sorts the rows; the status of a
\* motor may be missing.
CaptureRows ==
  /\ \/ \E p \in [Rows -> Values] : table' = [table EXCEPT !.position = p]
     \/ \E l \in [Rows -> Losses] : table' = [table EXCEPT !.lost = l]
  /\ order' = Sorted(table')
  /\ UNCHANGED <<time, sent, received, samples, shown, captures>>

\* ApplyPlayTuiAction: the column to the right or to the left, around at the
\* end, or the other direction.
SortByKey ==
  /\ \/ \E step \in {1, Len(Columns) - 1}, i \in DOMAIN Columns :
          /\ Columns[i] = table.column
          /\ table' = [table EXCEPT !.column = Columns[1 + ((i - 1 + step) % Len(Columns))]]
     \/ table' = [table EXCEPT !.ascending = ~@]
  /\ order' = Sorted(table')
  /\ UNCHANGED <<time, sent, received, samples, shown, captures>>

WindowNext == CountSent \/ CountReceived \/ CaptureWindow
RowsNext   == CaptureRows \/ SortByKey

TableSpec == TableInit /\ [][WindowNext \/ RowsNext]_tableVars

-----------------------------------------------------------------------------
(* Properties.                                                             *)

Since(times, t) == Cardinality({i \in DOMAIN times : times[i] >= t})

\* The losses of the last seconds count nothing that is older, however
\* irregular the captures are, and the unsigned differences do not wrap.
\* (PlayLossWindow::Update)
LossWindowIsRecent ==
  /\ shown.sent \in 0..Since(sent, time - Window)
  /\ shown.received \in 0..Since(received, time - Window)

\* Every motor has one row. Motors without a status come last in either
\* direction, the others are in the order of the column, and rows that do not
\* differ keep the order of their identity, so that no row jumps while the
\* table is refreshed; the order has no cycle, which std::sort relies on.
\* (SortPlayMotorSnapshots)
TableIsOrdered ==
  /\ ToSet(order) = Rows /\ Len(order) = Cardinality(Rows)
  /\ \A i, j \in DOMAIN order : i < j =>
       LET l == order[i]
           r == order[j]
           c == ComparePrimary(table, l, r)
       IN  /\ Missing(table, l) => Missing(table, r)
           /\ ~Missing(table, r) => (IF table.ascending THEN c <= 0 ELSE c >= 0)
           /\ c = 0 => l < r
  /\ \A l, m, r \in Rows :
       Before(table, l, m) /\ Before(table, m, r) => Before(table, l, r)

\* What the screen shows.
ScreenIsRight == LossWindowIsRecent /\ TableIsOrdered
=============================================================================
