------------------------------- MODULE StressRun -------------------------------
(***************************************************************************)
(* emcli stress: one thread per adapter sends to its motors in turn and    *)
(* counts what it sent; callbacks of the driver count the answers; the     *)
(* main thread reads the counters one by one, for the live report, before  *)
(* and after the drain and for the result.                                 *)
(*                                                                         *)
(* Every counter is loaded by itself, in the order of the program. Frames  *)
(* and answers may be lost. A motor answers a frame at most once.          *)
(***************************************************************************)
EXTENDS Process

CONSTANTS
  Adapters,
  AdapterOf,     \* the adapter of each motor
  MaxRounds      \* bound: rounds of a sender

ASSUME StressAssumption ==
  /\ AdapterOf \in [Motors -> Adapters]
  /\ MaxRounds \in Nat

VARIABLES
  found,       \* the motors in contexts
  counting,    \* measurement_active
  listening,   \* the callbacks are registered
  stopSenders, \* stop_requested
  sender,      \* per adapter: "none", "test", "send", "count", "commit" or "done"
  todo,        \* per adapter: the motors left in this round
  sent, received,  \* the counters of MotorContext
  open,        \* per motor: frames that were sent and whose answer, if it came,
               \* was not taken for counting
  entered,     \* motors in whose callback the driver is, before the load
  callback,    \* motors whose callback has seen counting = TRUE
  reading,     \* what the main thread sums up, and from which motors still
  before, after,   \* before_drain, after_drain
  owed         \* history: open and callbacks of each motor when sent was loaded

counters == <<sent, received, open, entered, callback>>
senderVars == <<stopSenders, sender, todo>>
reportVars == <<reading, before, after, owed>>
stressVars == <<found, counting, listening, senderVars, counters, reportVars>>

NoTotals == [sent |-> 0, received |-> 0]
Idle == [sent |-> 0, received |-> 0, left |-> {}, half |-> FALSE]

\* What f counts for the motors of S: one pair for each frame.
Frames(f, S) == UNION {{m} \X (1..f[m]) : m \in S}
Total(f, S) == Cardinality(Frames(f, S))

StressTypeOK ==
  /\ found \subseteq Motors
  /\ {counting, listening, stopSenders} \subseteq BOOLEAN
  /\ sender \in [Adapters -> {"none", "test", "send", "count", "commit", "done"}]
  /\ todo \in [Adapters -> SUBSET Motors]
  /\ {sent, received, open} \subseteq [Motors -> 0..MaxRounds]
  /\ entered \subseteq Motors /\ callback \subseteq Motors
  /\ reading \in [sent : Nat, received : Nat, left : SUBSET Motors, half : BOOLEAN]
  /\ {before, after} \subseteq [sent : Nat, received : Nat]
  /\ owed \in Nat

StressInit ==
  /\ found = {} /\ counting = FALSE /\ listening = FALSE /\ stopSenders = FALSE
  /\ sender = [a \in Adapters |-> "none"]
  /\ todo = [a \in Adapters |-> {}]
  /\ sent = [m \in Motors |-> 0] /\ received = [m \in Motors |-> 0]
  /\ open = [m \in Motors |-> 0] /\ entered = {} /\ callback = {}
  /\ reading = Idle /\ before = NoTotals /\ after = NoTotals /\ owed = 0

-----------------------------------------------------------------------------
(* Before the measurement.                                                 *)

\* Options, adapters and scan: any of them fails, or no motor is found.
StressFails ==
  /\ Return("parse", 1)
  /\ UNCHANGED stressVars

\* BuildContexts: the buses are scanned by futures, all awaited.
Discover ==
  /\ Goto("parse", "register")
  /\ found' \in SUBSET Motors \ {{}}
  /\ UNCHANGED <<counting, listening, senderVars, counters, reportVars>>

RegisterCallbacks ==
  /\ Goto("register", "reset")
  /\ listening' = TRUE
  /\ UNCHANGED <<found, counting, senderVars, counters, reportVars>>

\* After the warmup.
ResetCounters ==
  /\ Goto("reset", "signal")
  /\ sent' = [m \in Motors |-> 0]
  /\ received' = [m \in Motors |-> 0]
  /\ UNCHANGED <<found, counting, listening, senderVars, open, entered, callback, reportVars>>

InstallHandler ==
  /\ pc = "signal"
  /\ \/ /\ handler' = "flag" /\ pc' = "rearm"
        /\ UNCHANGED <<exit, stopFlag, terminal, listening>>
     \/ /\ Return("signal", 1)
        /\ listening' = FALSE
  /\ UNCHANGED <<found, counting, senderVars, counters, reportVars>>

\* g_stop_requested = 0 comes after the handler: a SIGINT in between is lost.
Rearm ==
  /\ pc = "rearm"
  /\ stopFlag' = FALSE
  /\ terminal' \in {"cooked", "alternate"}
  /\ pc' = "start"
  /\ UNCHANGED <<exit, handler, stressVars>>

\* measurement_active, then one thread per adapter.
StartSenders ==
  /\ Goto("start", "live")
  /\ counting' = TRUE
  /\ sender' = [a \in Adapters |-> "test"]
  /\ UNCHANGED <<found, listening, stopSenders, todo, counters, reportVars>>

-----------------------------------------------------------------------------
(* The senders and the driver's callbacks.                                 *)

\* A thread tests the flag before every round; one without motors only
\* commits. (Bound: MaxRounds.)
TestStop(a) ==
  /\ sender[a] = "test"
  /\ \/ /\ stopSenders
        /\ sender' = [sender EXCEPT ![a] = "done"]
        /\ UNCHANGED todo
     \/ /\ ~stopSenders
        /\ todo' = [todo EXCEPT ![a] = {m \in found : AdapterOf[m] = a}]
        /\ \A m \in todo'[a] : sent[m] < MaxRounds
        /\ sender' = [sender EXCEPT ![a] = IF todo'[a] = {} THEN "commit" ELSE "send"]
  /\ UNCHANGED <<processVars, found, counting, listening, stopSenders, counters, reportVars>>

First(S) == CHOOSE m \in S : TRUE

\* PVTControl: the frame may be answered before it is counted.
SendFrame(a) ==
  /\ sender[a] = "send"
  /\ open' = [open EXCEPT ![First(todo[a])] = @ + 1]
  /\ sender' = [sender EXCEPT ![a] = "count"]
  /\ UNCHANGED <<processVars, found, counting, listening, stopSenders, todo, sent, received,
                 entered, callback, reportVars>>

\* After the last motor of the adapter comes Commit.
CountSent(a) ==
  /\ sender[a] = "count"
  /\ sent' = [sent EXCEPT ![First(todo[a])] = @ + 1]
  /\ todo' = [todo EXCEPT ![a] = @ \ {First(@)}]
  /\ sender' = [sender EXCEPT ![a] = IF todo'[a] = {} THEN "commit" ELSE "send"]
  /\ UNCHANGED <<processVars, found, counting, listening, stopSenders, received, open, entered,
                 callback, reportVars>>

\* Commit, and the sleep to the next tick.
CommitFrames(a) ==
  /\ sender[a] = "commit"
  /\ sender' = [sender EXCEPT ![a] = "test"]
  /\ UNCHANGED <<processVars, found, counting, listening, stopSenders, todo, counters, reportVars>>

\* PVTControl or Commit throws: nothing catches it in the thread, and
\* std::terminate leaves the screen as it is.
SenderThrows(a) ==
  /\ sender[a] \in {"send", "commit"}
  /\ pc' = "terminated"
  /\ UNCHANGED <<exit, handler, stopFlag, terminal, stressVars>>

\* The driver calls the callback with the answer to a frame.
Answer(m) ==
  /\ listening
  /\ open[m] > 0 /\ m \notin entered \cup callback
  /\ entered' = entered \cup {m}
  /\ UNCHANGED <<processVars, found, counting, listening, senderVars, sent, received, open,
                 callback, reportVars>>

\* The callback loads measurement_active. Taking it from the motor does not
\* wait for it: it may load the local of a command that has returned, and
\* may then see anything.
LoadActive(m) ==
  /\ m \in entered
  /\ entered' = entered \ {m}
  /\ \/ /\ counting \/ pc = "done"
        /\ open' = [open EXCEPT ![m] = @ - 1]
        /\ callback' = callback \cup {m}
     \/ /\ ~counting
        /\ UNCHANGED <<open, callback>>
  /\ UNCHANGED <<processVars, found, counting, listening, senderVars, sent, received, reportVars>>

\* The counter itself lives as long as the callback.
CountAnswer(m) ==
  /\ m \in callback
  /\ received' = [received EXCEPT ![m] = @ + 1]
  /\ callback' = callback \ {m}
  /\ UNCHANGED <<processVars, found, counting, listening, senderVars, sent, open, entered, reportVars>>

-----------------------------------------------------------------------------
(* The main thread reads the counters.                                     *)

BeginReading(from, to) ==
  /\ Goto(from, to)
  /\ reading' = [Idle EXCEPT !.left = found]
  /\ owed' = 0

\* AggregateAll: sent, then received, of one motor after the other.
LoadCounter ==
  /\ pc \in {"liveRead", "beforeRead", "afterRead", "finalRead"}
  /\ reading.left # {}
  /\ LET m == First(reading.left) IN
     IF ~reading.half
     THEN /\ reading' = [reading EXCEPT !.sent = @ + sent[m], !.half = TRUE]
          /\ owed' = owed + open[m] + Cardinality(callback \cap {m})
     ELSE /\ reading' = [reading EXCEPT !.received = @ + received[m], !.half = FALSE, !.left = @ \ {m}]
          /\ UNCHANGED owed
  /\ UNCHANGED <<processVars, found, counting, listening, senderVars, counters, before, after>>

ReadDone == reading.left = {} /\ ~reading.half
ReadTotals == [sent |-> reading.sent, received |-> reading.received]

\* The loop of the main thread: the flag, then a report when one is due.
LiveReport ==
  /\ ~stopFlag
  /\ BeginReading("live", "liveRead")
  /\ UNCHANGED <<found, counting, listening, senderVars, counters, before, after>>

LiveShown ==
  /\ ReadDone
  /\ Goto("liveRead", "live")
  /\ reading' = Idle
  /\ owed' = 0
  /\ UNCHANGED <<found, counting, listening, senderVars, counters, before, after>>

-----------------------------------------------------------------------------
(* After Ctrl-C.                                                           *)

\* Mutation: the senders are joined without being told.
StopSilently ==
  /\ stopFlag
  /\ Goto("live", "join")
  /\ UNCHANGED <<found, counting, listening, senderVars, counters, reportVars>>

StopSenders ==
  /\ stopFlag
  /\ Goto("live", "join")
  /\ stopSenders' = TRUE
  /\ UNCHANGED <<found, counting, listening, sender, todo, counters, reportVars>>

\* Mutation: the senders are not joined.
LeaveSenders ==
  /\ BeginReading("join", "beforeRead")
  /\ UNCHANGED <<found, counting, listening, senderVars, counters, before, after>>

JoinSenders ==
  /\ \A a \in Adapters : sender[a] = "done"
  /\ BeginReading("join", "beforeRead")
  /\ UNCHANGED <<found, counting, listening, senderVars, counters, before, after>>

\* before_drain is read, then the drain delay passes.
Drain ==
  /\ ReadDone
  /\ Goto("beforeRead", "drained")
  /\ before' = ReadTotals
  /\ UNCHANGED <<found, counting, listening, senderVars, counters, reading, after, owed>>

StopCounting ==
  /\ Goto("drained", "unregister")
  /\ counting' = FALSE
  /\ UNCHANGED <<found, listening, senderVars, counters, reportVars>>

UnregisterCallbacks ==
  /\ pc = "unregister"
  /\ listening' = FALSE
  /\ terminal' = "cooked"
  /\ pc' = "report"
  /\ UNCHANGED <<exit, handler, stopFlag, found, counting, senderVars, counters, reportVars>>

ReadAfter ==
  /\ BeginReading("report", "afterRead")
  /\ UNCHANGED <<found, counting, listening, senderVars, counters, before, after>>

\* The difference of the two received counts is unsigned.
ReportDrain ==
  /\ ReadDone
  /\ BeginReading("afterRead", "finalRead")
  /\ after' = ReadTotals
  /\ UNCHANGED <<found, counting, listening, senderVars, counters, before>>

FinalReport ==
  /\ ReadDone
  /\ Return("finalRead", 0)
  /\ UNCHANGED stressVars

StressMain ==
  \/ StressFails \/ Discover \/ RegisterCallbacks \/ ResetCounters \/ InstallHandler \/ Rearm
  \/ StartSenders \/ LoadCounter \/ LiveReport \/ LiveShown
  \/ StopSenders \/ JoinSenders \/ Drain \/ StopCounting \/ UnregisterCallbacks \/ ReadAfter
  \/ ReportDrain \/ FinalReport

Sender(a) ==
  ~Ended /\ (TestStop(a) \/ SendFrame(a) \/ CountSent(a) \/ CommitFrames(a) \/ SenderThrows(a))

\* The callbacks go on while a command that has returned waits for the exit.
Callback(m) ==
  (~Ended \/ pc = "done") /\ (Answer(m) \/ LoadActive(m) \/ CountAnswer(m))

StressNext ==
  \/ StressMain
  \/ \E a \in Adapters : Sender(a)
  \/ \E m \in Motors : Callback(m)

-----------------------------------------------------------------------------
DropCount(t) == IF t.sent > t.received THEN t.sent - t.received ELSE 0

\* The result is exact for what was sent: nothing is sent between the two
\* readings, the unsigned "additional replies" does not wrap, the result
\* has no more answers than frames, and no motor keeps a callback that
\* refers to the locals of the command. (RunStressCommand)
StressAccounts ==
  pc = "done" =>
    /\ ~listening
    /\ (exit = 0 /\ found # {}) =>
         /\ {before.sent, after.sent, reading.sent} = {Total(sent, found)}
         /\ before.received <= after.received
         /\ after.received <= reading.received
         /\ reading.received <= reading.sent
         /\ DropCount(after) <= DropCount(before)

\* A report read while the threads run never shows more drops than there
\* were frames without a counted answer when sent was loaded: received is
\* loaded later. (AggregateMotors, DropCount)
LiveDropIsOwed == ReadDone => DropCount(ReadTotals) <= owed

\* No report tells of a loss that did not happen.
ReportsAreTrue == StressAccounts /\ LiveDropIsOwed
=============================================================================
