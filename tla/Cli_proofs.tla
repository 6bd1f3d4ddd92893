------------------------------ MODULE Cli_proofs ------------------------------
(***************************************************************************)
(* Machine-checked proofs about the subcommands of emcli, for every finite *)
(* set of motors, every set of buses and adapters, every limit of bench    *)
(* and every bound on the rounds of stress.                                *)
(*                                                                         *)
(* One process runs one subcommand, so the inductive invariant is indexed  *)
(* by it: the invariant of the subcommand that runs, and the initial state *)
(* of the variables of the others. Each subcommand has a section: its      *)
(* invariant, and the proof that it is established and kept. The last      *)
(* section puts them together for Spec.                                    *)
(***************************************************************************)
EXTENDS Cli, FiniteSetTheorems, TLAPS

(***************************************************************************)
(* bench. RunBenchmark looks at its limits only when a packet is dropped.  *)
(* Good packets in between change the total and, at the threshold, the     *)
(* limit itself; a case may then stand above the rate with the drops it    *)
(* was allowed before. The argument is that no good packet leads out of    *)
(* the two limits taken together.                                          *)
(***************************************************************************)
BenchStep == BenchMain \/ CongestionThread \/ (Interrupt /\ UNCHANGED benchVars)

InLimits(n, d) ==
  d <= MaxDrops \/ (n >= MinPackets /\ d * RateDen <= RateNum * n)

Stat == [total : 0..MaxSamples, drops : 0..MaxSamples, delay : Nat]

BenchTypes ==
  /\ ProcessTypeOK
  /\ ~Ended => pc \in Places.bench
  /\ terminal = "cooked"
  /\ stats \in Seq(Stat)
  /\ total \in 0..MaxSamples
  /\ drops \in 0..total
  /\ busy \in {"none", "sending", "asleep", "done"}
  /\ running \in BOOLEAN
  /\ wait \in {LongDelay} \cup {Delays[i] : i \in DOMAIN Delays}

(* The case that runs is within its limits: what fails to be is not        *)
(* recorded.                                                               *)
CaseInv ==
  /\ ~Ended => InLimits(total, drops)
  /\ \A i \in DOMAIN stats : InLimits(stats[i].total, stats[i].drops)

(* Where the cases are, and under which delay. *)
OrderInv ==
  /\ Len(stats) <= Cases
  /\ pc \in {"parse", "case", "delay", "settle", "sample"} => Case <= Cases
  /\ (~Ended /\ Case <= 3) => wait = Delays[1]
  /\ pc = "delay" => Case > 3
  /\ (pc \in {"settle", "sample"} /\ Case > 3) => wait = Delays[Case - 2]
  /\ pc \in {"stop", "join"} => Len(stats) = Cases
  /\ (pc = "done" /\ exit = 0) => Len(stats) = Cases
  /\ \A i \in 3..Len(stats) : stats[i].delay = Delays[i - 2]

BenchInv == BenchTypes /\ CaseInv /\ OrderInv

(***************************************************************************)
(* The sensor commands.                                                    *)
(***************************************************************************)
SensorStep == SensorMain \/ (Interrupt /\ UNCHANGED sensorVars)

SensorInv ==
  /\ ProcessTypeOK /\ SensorTypeOK
  /\ ~Ended => pc \in Places.sensor
  /\ pc \in {"raw", "loop", "cook", "unguard"} => handler = "flag"
  /\ terminal # "cooked" => pc \in {"loop", "cook"}

(***************************************************************************)
(* config, control and scan.                                               *)
(***************************************************************************)
MotorStep ==
  \/ MotorMain
  \/ \E b \in Buses : ScanTask(b)
  \/ Interrupt /\ UNCHANGED motorVars

InLoop == {"raw", "loop", "send", "print", "cook", "unguard"}

(* Where the main thread can be, by the job. *)
PlaceInv ==
  /\ job = "none" => pc \in {"parse", "done", "killed"}
  /\ job \in {"read", "write", "brake"} => pc \in {"resolve", "each", "done", "killed"}
  /\ job = "drive" => pc \in InLoop \cup {"resolve", "prepare", "clear", "guard", "done", "killed"}
  /\ job = "scan" => pc \in {"launch", "collect", "unwind", "close", "done", "killed"}
  /\ pc \in {"parse", "resolve"} => targets = <<>> /\ kts = <<>> /\ feedbacks = <<>>
  /\ pc \in InLoop => handler = "flag"
  /\ terminal # "cooked" => pc \in {"loop", "send", "print", "cook"}

(* The motors for which everything the job asks for was done. *)
Served ==
  (IF job = "read" THEN Motors ELSE written) \cap
  (IF job = "read" \/ readback THEN answered ELSE Motors)

(* Motors are served in order, each at its turn only; a failure names a    *)
(* motor that is passed and stays unserved.                                *)
Untouched ==
  at = 1 /\ step = "init" /\ written = {} /\ answered = {} /\ failure = FALSE

ServedInv ==
  /\ step = "get" => job = "read" \/ readback
  /\ step = "set" => job # "read"
  /\ \A i \in DOMAIN targets :
       /\ i >= at => targets[i] \notin answered
       /\ i > at \/ (i = at /\ step # "get") => targets[i] \notin written
       /\ i = at /\ step = "get" /\ job # "read" => targets[i] \in written
       /\ i < at /\ ~failure => targets[i] \in Served
  /\ failure => \E i \in DOMAIN targets : (i < at \/ Ended) /\ targets[i] \notin Served
  /\ pc = "done" /\ targets # <<>> =>
       /\ exit = (IF failure THEN 1 ELSE 0)
       /\ ~single \/ ~failure => at > Len(targets)

ConfigInv ==
  /\ pc \in {"parse", "resolve"} => Untouched
  /\ job \in {"read", "write", "brake"} => ServedInv

Prefix(s, t) == Len(s) <= Len(t) /\ \A i \in DOMAIN s : s[i] = t[i]

DriveInv ==
  /\ Prefix(kts, targets) /\ Prefix(feedbacks, targets)
  /\ pc = "prepare" => Len(kts) = at - 1
  /\ pc \in InLoop \cup {"clear", "guard"} => kts = targets
  /\ pc = "send" => Len(feedbacks) = at - 1
  /\ pc = "print" => feedbacks = targets
  /\ pc \in {"parse", "resolve", "prepare"} => driven = {}
  /\ driven # {} => kts = targets
  /\ broken => pc \in {"cook", "unguard", "done"}

ScanInv ==
  /\ single \/ job # "scan" => \A b \in Buses : tasks[b] = "none"
  /\ pc \in {"parse", "resolve", "launch"} => rows = {}
  /\ pc = "collect" => ~single /\ \A b \in Buses : tasks[b] # "none"
  /\ ~single => \A b \in rows : tasks[b] = "found"
  /\ pc \in {"close", "done"} => \A b \in Buses : tasks[b] # "running"
  /\ (pc = "done" /\ job = "scan" /\ exit = 0) => rows = Wanted

MotorInv == ProcessTypeOK /\ MotorTypeOK /\ PlaceInv /\ ConfigInv /\ DriveInv /\ ScanInv

(***************************************************************************)
(* stress. What is true of one motor at every step of every thread (its    *)
(* frames are counted, answered or open) is carried over to the totals the *)
(* main thread sums up one counter at a time: the part that is read, and   *)
(* what the counters that are still to be read say now.                    *)
(***************************************************************************)
StressStep == StressNext \/ (Interrupt /\ UNCHANGED stressVars)

Quiet    == {"parse", "register", "reset", "signal", "rearm", "start"}
Live     == {"live", "liveRead", "join"}
Drained  == {"unregister", "report", "afterRead", "finalRead"}
Joined   == {"beforeRead", "drained"} \cup Drained
Screen   == {"start", "live", "liveRead", "join", "beforeRead", "drained", "unregister"}
Succeeded == pc = "done" /\ exit = 0 /\ found # {}

StressPlace ==
  /\ pc \in Quiet \cup Live \cup Joined \cup {"done", "killed", "terminated"}
  /\ terminal # "raw"
  /\ pc \in Screen \cup {"rearm"} => handler = "flag"
  /\ terminal # "cooked" => pc \in Screen \cup {"terminated"}
  /\ pc = "parse" => found = {} /\ ~listening
  /\ pc \in {"report", "afterRead", "finalRead", "done"} => ~listening
  /\ pc \in Drained \/ Succeeded => ~counting
  /\ pc \in Quiet =>
       /\ ~counting
       /\ entered = {} /\ callback = {}
       /\ \A a \in Adapters : sender[a] = "none"
       /\ \A m \in Motors : open[m] = 0 /\ sent[m] = 0 /\ received[m] = 0
  /\ pc \in Joined \/ Succeeded => \A a \in Adapters : sender[a] = "done"

(* The motor that a sender has sent a frame and not counted it yet. *)
Pending(m) ==
  IF sender[AdapterOf[m]] = "count" /\ m = First(todo[AdapterOf[m]]) THEN 1 ELSE 0

Called(m) == Cardinality(callback \cap {m})

(* Every frame is counted, answered or open, and a callback belongs to an  *)
(* open frame until it counts.                                             *)
FrameInv ==
  /\ \A a \in Adapters :
       /\ sender[a] \in {"send", "count"} => todo[a] # {}
       /\ \A m \in todo[a] : AdapterOf[m] = a /\ sent[m] < MaxRounds
  /\ \A m \in Motors : sent[m] + Pending(m) = received[m] + open[m] + Called(m)
  /\ \A m \in entered : open[m] > 0 /\ m \notin callback

(* What has been read of the counters, against what they say now. *)
Half(f) == IF reading.half THEN f[First(reading.left)] ELSE 0

ReadInv ==
  /\ reading.left \subseteq found
  /\ reading.half => reading.left # {}
  /\ pc \in Quiet \cup {"live", "join"} => reading = Idle
  /\ pc \in {"drained", "unregister", "report"} => ReadDone
  /\ reading.sent <= reading.received + owed + Half(received)
  /\ pc \in {"beforeRead", "afterRead", "finalRead"} =>
       /\ reading.sent + Total(sent, reading.left) = Total(sent, found) + Half(sent)
       /\ reading.received + Total(received, reading.left) <= Total(received, found)
  /\ pc = "afterRead" => before.received <= reading.received + Total(received, reading.left)
  /\ pc = "finalRead" => after.received <= reading.received + Total(received, reading.left)

ReportInv ==
  /\ pc \in Drained \cup {"drained"} =>
       before.sent = Total(sent, found) /\ before.received <= Total(received, found)
  /\ pc = "finalRead" =>
       /\ after.sent = Total(sent, found)
       /\ before.received <= after.received /\ after.received <= Total(received, found)
  /\ Succeeded =>
       /\ before.sent = Total(sent, found)
       /\ after.sent = Total(sent, found)
       /\ reading.sent = Total(sent, found)
       /\ before.received <= after.received
       /\ after.received <= reading.received
       /\ reading.received <= Total(sent, found)

StressInv ==
  ProcessTypeOK /\ StressTypeOK /\ StressPlace /\ FrameInv /\ ReadInv /\ ReportInv

(***************************************************************************)
(* The process.                                                            *)
(***************************************************************************)
NoneInv ==
  /\ ProcessTypeOK
  /\ terminal = "cooked"
  /\ pc \in {"parse", "done", "killed"}
  /\ pc = "parse" => ProcessInit

IInv ==
  /\ command \in {"none", "sensor", "motor", "bench", "stress"}
  /\ command = "none" => NoneInv
  /\ IF command = "sensor" THEN SensorInv ELSE SensorInit
  /\ IF command = "motor" THEN MotorInv ELSE MotorInit
  /\ IF command = "bench" THEN BenchInv ELSE BenchInit
  /\ IF command = "stress" THEN StressInv ELSE StressInit

-----------------------------------------------------------------------------
(* The sensor commands.                                                    *)

(* The variables of the sensor commands start in their types. *)
LEMMA SensorTypes == SensorInit => SensorTypeOK
<1>1. 0 \in 0..ReadyPolls
  BY SensorAssumption
<1> QED
  BY <1>1 DEF SensorInit, SensorTypeOK

(* A sensor command starts in its invariant. *)
LEMMA SensorStarts == ProcessInit /\ SensorInit => SensorInv
BY SensorTypes DEF ProcessInit, ProcessTypeOK, SensorInv, Places

(* Every step of a sensor command keeps its invariant. *)
LEMMA SensorKeeps == SensorInv /\ SensorStep => SensorInv'
<1> SUFFICES ASSUME SensorInv, SensorStep
             PROVE  SensorInv'
  OBVIOUS
<1> USE DEF SensorInv, ProcessTypeOK, Ended, Places
<1>1. CASE \/ SensorParseFails \/ OpenDeviceFails \/ OpenDevice \/ GetImu \/ SendOnce \/ Calibrate
           \/ Show
           \/ Bracket /\ UNCHANGED sensorVars
           \/ Interrupt /\ UNCHANGED sensorVars
  <2>1. UNCHANGED sensorVars
    BY <1>1 DEF SensorParseFails, OpenDeviceFails, OpenDevice, GetImu, SendOnce, Calibrate, Show
  <2>2. SensorTypeOK'
    BY <2>1 DEF SensorTypeOK, sensorVars
  <2>3. CASE SensorParseFails \/ OpenDeviceFails \/ OpenDevice \/ GetImu \/ SendOnce \/ Calibrate \/ Show
    BY <2>2, <2>3 DEF SensorParseFails, OpenDeviceFails, OpenDevice, GetImu, SendOnce, Calibrate, Show,
                      Goto, Return, LeaveLoop
  <2>4. CASE Bracket
    BY <2>2, <2>4 DEF Bracket, ClearFlag, InstallGuard, EnterRaw, Cook, RemoveGuard
  <2>5. CASE Interrupt
    BY <2>2, <2>5 DEF Interrupt
  <2> QED
    BY <1>1, <2>3, <2>4, <2>5
<1>2. CASE ParseSensor
  <2>1. SensorTypeOK'
    BY <1>2 DEF ParseSensor, SensorTypeOK
  <2> QED
    BY <1>2, <2>1 DEF ParseSensor, Goto
<1>3. CASE AwaitGlove
  <2>1. polls' \in 0..ReadyPolls
    BY <1>3, SensorAssumption DEF AwaitGlove, SensorTypeOK
  <2>2. SensorTypeOK'
    BY <1>3, <2>1 DEF AwaitGlove, SensorTypeOK
  <2> QED
    BY <1>3, <2>2 DEF AwaitGlove, Goto, Return
<1> QED
  BY <1>1, <1>2, <1>3 DEF SensorStep, SensorMain

-----------------------------------------------------------------------------
(* bench.                                                                  *)

(* A packet that arrives never leads out of the limits. *)
LEMMA GoodPacket ==
  ASSUME NEW n \in Nat, NEW d \in Nat, InLimits(n, d)
  PROVE  InLimits(n + 1, d)
<1> USE BenchAssumption
<1>1. CASE d <= MaxDrops
  BY <1>1 DEF InLimits
<1>2. CASE d > MaxDrops
  <2>1. n >= MinPackets /\ d * RateDen <= RateNum * n
    BY <1>2 DEF InLimits
  <2>2. RateNum * (n + 1) = RateNum * n + RateNum
    OBVIOUS
  <2>3. d * RateDen \in Nat /\ RateNum * n \in Nat
    OBVIOUS
  <2>4. d * RateDen <= RateNum * (n + 1) /\ n + 1 >= MinPackets
    BY <2>1, <2>2, <2>3
  <2> QED
    BY <2>4 DEF InLimits
<1> QED
  BY <1>1, <1>2

(* A dropped packet that is let pass is within the limits. *)
LEMMA DroppedPacket ==
  ASSUME NEW n \in Nat, NEW d \in Nat, ~TooManyDrops(n, d)
  PROVE  InLimits(n, d)
<1>1. d * RateDen \in Nat /\ RateNum * n \in Nat
  BY BenchAssumption
<1> QED
  BY <1>1, BenchAssumption DEF InLimits, TooManyDrops

-----------------------------------------------------------------------------
(* What Append adds and what it leaves. *)
LEMMA Appended ==
  ASSUME NEW S, NEW q \in Seq(S), NEW e \in S
  PROVE  /\ Len(Append(q, e)) = Len(q) + 1
         /\ DOMAIN Append(q, e) = DOMAIN q \cup {Len(q) + 1}
         /\ DOMAIN q = 1..Len(q)
         /\ \A i \in 1..Len(q) : Append(q, e)[i] = q[i]
         /\ Append(q, e)[Len(q) + 1] = e
OBVIOUS

(* The cases, their counts and delays are natural numbers. *)
LEMMA Numbers ==
  ASSUME BenchTypes
  PROVE  /\ Len(stats) \in Nat /\ Case \in Nat
         /\ Len(Delays) \in Nat /\ Cases \in Nat
         /\ total \in Nat /\ drops \in Nat /\ wait \in Nat
<1>1. Len(stats) \in Nat
  BY DEF BenchTypes
<1>2. Len(Delays) \in Nat /\ \A i \in DOMAIN Delays : Delays[i] \in Nat
  BY BenchAssumption
<1>3. total \in Nat /\ drops \in Nat /\ wait \in Nat
  BY <1>2, BenchAssumption DEF BenchTypes
<1> QED
  BY <1>1, <1>2, <1>3 DEF Case, Cases

(* The variables of bench start in their types, and bench in its           *)
(* invariant.                                                              *)
LEMMA BenchStarts ==
  /\ BenchInit => BenchTypeOK
  /\ ProcessInit /\ BenchInit => BenchInv
<1> SUFFICES ASSUME BenchInit
             PROVE  BenchTypeOK /\ (ProcessInit => BenchInv)
  OBVIOUS
<1> USE BenchAssumption DEF BenchInit
<1>1. /\ Len(Delays) \in Nat
      /\ 0 \in 0..MaxSamples /\ 0 \in 0..0
      /\ wait \in {LongDelay} \cup {Delays[i] : i \in DOMAIN Delays}
  OBVIOUS
<1>2. BenchTypeOK
  BY <1>1 DEF BenchTypeOK, Cases
<1>3. ProcessInit => BenchTypes
  <2>1. stats \in Seq(Stat)
    OBVIOUS
  <2>2. ProcessInit => ProcessTypeOK /\ terminal = "cooked" /\ (~Ended => pc \in Places.bench)
    BY DEF ProcessInit, ProcessTypeOK, Places
  <2> QED
    BY <1>1, <2>1, <2>2 DEF BenchTypes
<1>4. ProcessInit => CaseInv
  <2>1. InLimits(0, 0)
    BY DEF InLimits
  <2> QED
    BY <2>1 DEF CaseInv
<1>5. ProcessInit => OrderInv
  BY <1>1 DEF OrderInv, Case, Cases, ProcessInit
<1> QED
  BY <1>2, <1>3, <1>4, <1>5 DEF BenchInv

(* Every step keeps the types. *)
LEMMA BenchTypesKept == BenchInv /\ BenchStep => BenchTypes'
<1> SUFFICES ASSUME BenchInv, BenchStep
             PROVE  BenchTypes'
  OBVIOUS
<1> DEFINE Waits == {LongDelay} \cup {Delays[i] : i \in DOMAIN Delays}
<1>0. BenchTypes /\ OrderInv
  BY DEF BenchInv
<1>1. CASE \/ PrepareBench \/ StartCongestion \/ BeginCase \/ LongWait \/ SetDelay \/ Settle
           \/ Sample \/ EndCase \/ StopCongestion \/ JoinCongestion
  <2>1. /\ ProcessTypeOK'
        /\ terminal' = "cooked"
        /\ (~Ended => pc \in Places.bench)'
    BY <1>0, <1>1 DEF BenchTypes, ProcessTypeOK, Places, Ended, PrepareBench, StartCongestion,
          BeginCase, LongWait, SetDelay, Settle, Sample, EndCase, StopCongestion,
          JoinCongestion, Goto, Throw, Return
  <2>2. /\ busy' \in {"none", "sending", "asleep", "done"}
        /\ running' \in BOOLEAN
    BY <1>0, <1>1 DEF BenchTypes, PrepareBench, StartCongestion, BeginCase, LongWait, SetDelay,
          Settle, Sample, EndCase, StopCongestion, JoinCongestion, benchVars
  <2>3. wait' \in Waits
    <3>1. CASE SetDelay
      <4>1. pc = "delay" /\ Case \in Nat /\ Cases \in Nat /\ Len(Delays) \in Nat
        BY <3>1, <1>0, Numbers DEF SetDelay, Goto
      <4>2. Case > 3 /\ Case <= Cases
        BY <4>1, <1>0 DEF OrderInv
      <4>3. Case - 2 \in DOMAIN Delays
        BY <4>1, <4>2, BenchAssumption DEF Cases
      <4> QED
        BY <3>1, <4>3 DEF SetDelay
    <3>2. CASE ~SetDelay
      BY <1>0, <1>1, <3>2 DEF BenchTypes, PrepareBench, StartCongestion, BeginCase, LongWait,
            Settle, Sample, EndCase, StopCongestion, JoinCongestion, benchVars
    <3> QED
      BY <3>1, <3>2
  <2>4. stats' \in Seq(Stat) /\ total' \in 0..MaxSamples /\ drops' \in 0..total'
    <3>1. CASE Sample
      BY <3>1, <1>0, BenchAssumption DEF Sample, BenchTypes
    <3>2. CASE EndCase
      <4>1. [total |-> total, drops |-> drops, delay |-> wait] \in Stat
        BY <1>0, Numbers, BenchAssumption DEF Stat, BenchTypes
      <4> QED
        BY <3>2, <4>1, <1>0, BenchAssumption DEF EndCase, BenchTypes
    <3>3. CASE ~Sample /\ ~EndCase
      BY <1>0, <1>1, <3>3 DEF BenchTypes, PrepareBench, StartCongestion, BeginCase, LongWait,
            SetDelay, Settle, StopCongestion, JoinCongestion, benchVars
    <3> QED
      BY <3>1, <3>2, <3>3
  <2> QED
    BY <2>1, <2>2, <2>3, <2>4 DEF BenchTypes
<1>2. CASE Congest \/ CongestThrows \/ Wake \/ (Interrupt /\ UNCHANGED benchVars)
  BY <1>0, <1>2 DEF Congest, CongestThrows, Wake, Interrupt, BenchTypes, ProcessTypeOK, Ended, processVars, benchVars
<1> QED
  BY <1>1, <1>2 DEF BenchStep, BenchMain, CongestionThread

(* Every step keeps the recorded cases and the one that runs within their  *)
(* limits.                                                                 *)
LEMMA CasesKept == BenchInv /\ BenchStep => CaseInv'
<1> SUFFICES ASSUME BenchInv, BenchStep
             PROVE  CaseInv'
  OBVIOUS
<1> USE BenchAssumption DEF BenchInv, CaseInv, Ended, InLimits, processVars, benchVars
<1>1. CASE \/ PrepareBench \/ StartCongestion \/ BeginCase \/ LongWait \/ SetDelay \/ Settle
           \/ StopCongestion \/ JoinCongestion
  BY <1>1 DEF PrepareBench, StartCongestion, BeginCase, LongWait, SetDelay, Settle,
              StopCongestion, JoinCongestion, Goto, Throw, Return
<1>2. CASE Sample
  <2>1. UNCHANGED stats /\ total' = total + 1 /\ pc = "sample"
    BY <1>2 DEF Sample, Goto, Throw
  <2>2. CASE drops' = drops
    BY <2>1, <2>2, GoodPacket, Numbers
  <2>3. CASE drops' = drops + 1 /\ ~TooManyDrops(total', drops')
    <3>1. total' \in Nat /\ drops' \in Nat
      BY <2>1, <2>3, Numbers
    <3> QED
      BY <2>1, <2>3, <3>1, DroppedPacket
  <2>4. CASE TooManyDrops(total', drops') /\ Throw("sample")
    BY <2>1, <2>4 DEF Throw
  <2> QED
    BY <1>2, <2>2, <2>3, <2>4 DEF Sample
<1>3. CASE EndCase
  <2> DEFINE s == [total |-> total, drops |-> drops, delay |-> wait]
  <2>1. pc = "sample" /\ stats' = Append(stats, s) /\ total' = 0 /\ drops' = 0
    BY <1>3 DEF EndCase, Goto
  <2>2. InLimits(total, drops)
    BY <2>1
  <2>3. InLimits(total', drops')
    BY <2>1
  <2> HIDE DEF s, InLimits
  <2>5. s \in Stat /\ s.total = total /\ s.drops = drops
    BY Numbers, BenchAssumption DEF s, BenchTypes, Stat
  <2>6. /\ DOMAIN stats' = DOMAIN stats \cup {Len(stats) + 1}
        /\ DOMAIN stats = 1..Len(stats)
        /\ \A i \in 1..Len(stats) : stats'[i] = stats[i]
        /\ stats'[Len(stats) + 1] = s
    <3>1. stats \in Seq(Stat)
      BY DEF BenchTypes
    <3> QED
      BY ONLY <2>1, <2>5, <3>1, Appended
  <2>4. ASSUME NEW i \in DOMAIN stats'
        PROVE  InLimits(stats'[i].total, stats'[i].drops)
    BY <2>2, <2>5, <2>6
  <2> QED
    BY <2>3, <2>4
<1>4. CASE Congest \/ CongestThrows \/ Wake \/ (Interrupt /\ UNCHANGED benchVars)
  BY <1>4 DEF Congest, CongestThrows, Wake, Interrupt
<1> QED
  BY <1>1, <1>2, <1>3, <1>4 DEF BenchStep, BenchMain, CongestionThread

(* Every step keeps the order of the cases and their delays. *)
LEMMA OrderKept == BenchInv /\ BenchStep => OrderInv'
<1> SUFFICES ASSUME BenchInv, BenchStep
             PROVE  OrderInv'
  OBVIOUS
<1>1. /\ Len(stats) \in Nat /\ Case = Len(stats) + 1
      /\ Len(Delays) \in Nat /\ Cases = 2 + Len(Delays)
  BY Numbers DEF BenchInv, Case, Cases
<1> USE <1>1, BenchAssumption DEF BenchInv, OrderInv, Ended, processVars, benchVars
<1>2. CASE PrepareBench \/ StartCongestion \/ BeginCase \/ LongWait \/ Settle
  <2>1. UNCHANGED stats /\ Case' = Case
    BY <1>2 DEF PrepareBench, StartCongestion, BeginCase, LongWait, Settle, Case
  <2>2. CASE PrepareBench
    <3>1. pc = "parse" /\ UNCHANGED wait
      BY <2>2 DEF PrepareBench, Goto, Throw
    <3>2. pc' = "case" \/ (pc' = "done" /\ exit' = 1) \/ pc' = "terminated"
      BY <2>2 DEF PrepareBench, Goto, Throw
    <3> QED
      BY <2>1, <3>1, <3>2
  <2>3. CASE StartCongestion \/ BeginCase \/ Settle
    <3>1. UNCHANGED wait /\ pc \in {"case", "settle"} /\ pc' \in {"settle", "sample"}
      BY <2>3 DEF StartCongestion, BeginCase, Settle, Goto
    <3>2. pc = "case" => Case <= 3
      BY <2>3 DEF StartCongestion, BeginCase, Settle, Goto
    <3> QED
      BY <2>1, <3>1, <3>2
  <2>4. CASE LongWait
    BY <2>1, <2>4 DEF LongWait, Goto
  <2> QED
    BY <1>2, <2>2, <2>3, <2>4
<1>3. CASE SetDelay
  BY <1>3 DEF SetDelay, Goto, Case
<1>4. CASE Sample
  BY <1>4 DEF Sample, Goto, Throw, Case
<1>5. CASE EndCase
  <2> DEFINE s == [total |-> total, drops |-> drops, delay |-> wait]
  <2>1. /\ pc = "sample" /\ stats' = Append(stats, s) /\ UNCHANGED <<wait, exit>>
        /\ pc' = IF Case = Cases THEN "stop" ELSE "case"
    BY <1>5 DEF EndCase, Goto
  <2>7. s \in Stat /\ s.delay = wait
    BY Numbers, BenchAssumption DEF BenchTypes, Stat
  <2> HIDE DEF s
  <2>8. /\ Len(stats') = Len(stats) + 1
        /\ \A i \in 1..Len(stats) : stats'[i] = stats[i]
        /\ stats'[Len(stats) + 1] = s
    <3>1. stats \in Seq(Stat)
      BY DEF BenchTypes
    <3> QED
      BY ONLY <2>1, <2>7, <3>1, Appended
  <2>2. Len(stats') = Len(stats) + 1 /\ Case' = Case + 1
    BY <2>8, Numbers DEF Case
  <2>9. Case >= 3 => wait = Delays[Case - 2]
    BY <2>1
  <2>10. \A k \in 3..Len(stats) : stats[k].delay = Delays[k - 2]
    OBVIOUS
  <2>3. ASSUME NEW i \in 3..Len(stats')
        PROVE  stats'[i].delay = Delays[i - 2]
    <3>1. CASE i = Len(stats) + 1
      <4>1. i = Case /\ Case >= 3
        BY <3>1
      <4> QED
        BY <4>1, <3>1, <2>7, <2>8, <2>9
    <3>2. CASE i # Len(stats) + 1
      <4>1. i \in 3..Len(stats)
        BY <2>2, <3>2
      <4>2. stats'[i] = stats[i]
        BY <4>1, <2>8
      <4> HIDE DEF BenchInv, OrderInv
      <4> QED
        BY <4>1, <4>2, <2>10
    <3> QED
      BY <3>1, <3>2
  <2>4. Len(stats') <= Cases /\ (pc' = "case" => Case' <= Cases)
    BY <2>1, <2>2
  <2>5. pc' = "stop" => Len(stats') = Cases
    BY <2>1, <2>2
  <2>6. Case' <= 3 => wait' = Delays[1]
    BY <2>1, <2>2
  <2> QED
    BY <2>1, <2>3, <2>4, <2>5, <2>6
<1>6. CASE StopCongestion \/ JoinCongestion
  BY <1>6 DEF StopCongestion, JoinCongestion, Goto, Return, Case
<1>7. CASE Congest \/ CongestThrows \/ Wake \/ (Interrupt /\ UNCHANGED benchVars)
  BY <1>7 DEF Congest, CongestThrows, Wake, Interrupt, Case
<1> QED
  BY <1>2, <1>3, <1>4, <1>5, <1>6, <1>7 DEF BenchStep, BenchMain, CongestionThread

(* Every step of bench keeps its invariant. *)
LEMMA BenchKeeps == BenchInv /\ BenchStep => BenchInv'
BY BenchTypesKept, CasesKept, OrderKept DEF BenchInv

-----------------------------------------------------------------------------
(* config, control and scan.                                               *)

StartActions == MotorParseFails \/ ParseMotor \/ ResolveFails \/ Resolve
ConfigActions == InitTarget \/ SetTarget \/ GetTarget \/ TargetFails \/ AllServed
DriveActions ==
  \/ Prepare \/ Prepared \/ DriveLoop \/ SendControlCommand \/ PrintFeedback \/ SleepControl
  \/ Bracket /\ UNCHANGED motorVars
ScanActions ==
  ParseScan \/ LaunchScan \/ CollectScan \/ UnwindScan \/ CloseScan \/ \E b \in Buses : ScanTask(b)

(* What the motors of the target are listed as: a sequence without         *)
(* repetitions.                                                            *)
LEMMA Listed ==
  ASSUME NEW S \in SUBSET Motors
  PROVE  SetToSeq(S) \in Seq(Motors) /\ IsInjective(SetToSeq(S))
<1>1. IsFiniteSet(S)
  BY MotorsAssumption, FS_Subset
<1>2. Cardinality(S) \in Nat /\ ExistsBijection(1..Cardinality(S), S)
  BY <1>1, FS_CardinalityType
<1>3. \E f \in [1..Cardinality(S) -> S] : IsInjective(f)
  BY <1>2 DEF ExistsBijection, Bijection, Injection
<1>4. SetToSeq(S) \in [1..Cardinality(S) -> S] /\ IsInjective(SetToSeq(S))
  BY <1>3 DEF SetToSeq
<1>5. SetToSeq(S) \in Seq(S)
  BY <1>2, <1>4
<1> QED
  BY <1>4, <1>5

(* A prefix has no repetitions either, and grows by the next element.      *)
LEMMA PrefixFacts ==
  ASSUME NEW t \in Seq(Motors), IsInjective(t), NEW s \in Seq(Motors), Prefix(s, t)
  PROVE  /\ IsInjective(s)
         /\ Len(s) < Len(t) =>
              /\ Append(s, t[Len(s) + 1]) \in Seq(Motors)
              /\ Prefix(Append(s, t[Len(s) + 1]), t)
              /\ Len(Append(s, t[Len(s) + 1])) = Len(s) + 1
         /\ Len(s) = Len(t) => s = t
<1>1. DOMAIN s = 1..Len(s) /\ DOMAIN t = 1..Len(t) /\ Len(s) \in Nat /\ Len(t) \in Nat
  OBVIOUS
<1>2. IsInjective(s)
  BY <1>1 DEF IsInjective, Prefix
<1>3. ASSUME Len(s) < Len(t)
      PROVE  LET u == Append(s, t[Len(s) + 1])
             IN  u \in Seq(Motors) /\ Prefix(u, t) /\ Len(u) = Len(s) + 1
  <2>1. t[Len(s) + 1] \in Motors
    BY <1>1, <1>3
  <2> QED
    BY <1>1, <1>3, <2>1, Appended DEF Prefix
<1>4. Len(s) = Len(t) => s = t
  BY <1>1 DEF Prefix
<1> QED
  BY <1>2, <1>3, <1>4

(* The variables of the commands on motors start in their types, and the   *)
(* commands in their invariant.                                            *)
LEMMA MotorStarts ==
  /\ MotorInit => MotorTypeOK
  /\ ProcessInit /\ MotorInit => MotorInv
<1> SUFFICES ASSUME MotorInit
             PROVE  MotorTypeOK /\ (ProcessInit => MotorInv)
  OBVIOUS
<1> USE DEF MotorInit
<1>1. <<>> \in Seq(Motors) /\ Len(<<>>) = 0 /\ DOMAIN <<>> = {}
  OBVIOUS
<1>2. IsInjective(<<>>)
  BY <1>1 DEF IsInjective
<1>3. MotorTypeOK
  <2>1. \A s \in {targets, kts, feedbacks} : s \in Seq(Motors) /\ IsInjective(s)
    BY <1>1, <1>2
  <2>2. at \in 1..Len(targets) + 1
    BY <1>1
  <2> QED
    BY <2>1, <2>2 DEF MotorTypeOK
<1>4. ProcessInit => ProcessTypeOK /\ PlaceInv
  BY DEF ProcessInit, ProcessTypeOK, PlaceInv, InLoop
<1>5. ProcessInit => ConfigInv /\ DriveInv /\ ScanInv
  BY <1>1 DEF ProcessInit, ConfigInv, Untouched, DriveInv, ScanInv, Prefix, InLoop
<1> QED
  BY <1>3, <1>4, <1>5 DEF MotorInv

(* What each group of actions leaves as it is. *)
LEMMA MotorGroups ==
  ASSUME MotorTypeOK, PlaceInv, MotorStep
  PROVE  \/ StartActions /\ pc \in {"parse", "resolve"} /\ UNCHANGED <<configVars, controlVars, scanVars>>
         \/ /\ ConfigActions /\ pc = "each" /\ job \in {"read", "write", "brake"}
            /\ UNCHANGED <<commandVars, controlVars, scanVars>>
         \/ /\ DriveActions /\ job = "drive"
            /\ pc \in InLoop \cup {"prepare", "clear", "guard"}
            /\ UNCHANGED <<commandVars, scanVars, written, answered, failure>>
         \/ ScanActions /\ UNCHANGED <<readback, targets, configVars, controlVars>>
         \/ Interrupt /\ UNCHANGED motorVars
<1>0. job \in {"none", "read", "write", "brake", "drive", "scan"}
  BY DEF MotorTypeOK
<1>1. CASE StartActions
  BY <1>1 DEF StartActions, MotorParseFails, ParseMotor, ResolveFails, Resolve, Return, Goto,
              motorVars, commandVars
<1>2. CASE ConfigActions
  BY <1>0, <1>2 DEF PlaceInv, ConfigActions, InitTarget, SetTarget, GetTarget, TargetFails, AllServed,
              Return, Goto, motorVars, InLoop
<1>3. CASE DriveActions
  BY <1>0, <1>3 DEF PlaceInv, DriveActions, Prepare, Prepared, DriveLoop, SendControlCommand,
              PrintFeedback, SleepControl, Bracket, ClearFlag, InstallGuard, EnterRaw, Cook,
              RemoveGuard, NextTarget, Return, Goto, LeaveLoop, InLoop, motorVars, configVars
<1>4. CASE ScanActions
  BY <1>4 DEF ScanActions, ParseScan, LaunchScan, CollectScan, UnwindScan, CloseScan, ScanTask,
              motorVars, commandVars
<1>5. CASE Interrupt /\ UNCHANGED motorVars
  BY <1>5
<1> QED
  BY <1>1, <1>2, <1>3, <1>4, <1>5
     DEF MotorStep, MotorMain, StartActions, ConfigActions, DriveActions, ScanActions

(* The target that has its turn. *)
LEMMA Turn ==
  ASSUME MotorTypeOK
  PROVE  /\ targets \in Seq(Motors) /\ DOMAIN targets = 1..Len(targets)
         /\ at \in Nat /\ at >= 1 /\ at <= Len(targets) + 1 /\ Len(targets) \in Nat
         /\ More => Motor \in Motors /\ at \in DOMAIN targets /\ at + 1 \in 1..Len(targets) + 1
         /\ ~More => at = Len(targets) + 1
<1>1. targets \in Seq(Motors) /\ at \in 1..Len(targets) + 1
  BY DEF MotorTypeOK
<1> QED
  BY <1>1 DEF More, Motor

(* Every step keeps the types. *)
LEMMA MotorTypesKept == MotorInv /\ MotorStep => ProcessTypeOK' /\ MotorTypeOK'
<1> SUFFICES ASSUME MotorInv, MotorStep
             PROVE  ProcessTypeOK' /\ MotorTypeOK'
  OBVIOUS
<1>0. ProcessTypeOK /\ MotorTypeOK /\ PlaceInv /\ DriveInv
  BY DEF MotorInv
<1>1. CASE StartActions /\ pc \in {"parse", "resolve"} /\ UNCHANGED <<configVars, controlVars, scanVars>>
  <2>1. ProcessTypeOK'
    BY <1>0, <1>1 DEF ProcessTypeOK, StartActions, MotorParseFails, ParseMotor, ResolveFails, Resolve,
                      Return, Goto
  <2>2. /\ job' \in {"none", "read", "write", "brake", "drive", "scan"}
        /\ {single', readback'} \subseteq BOOLEAN
        /\ targets' \in Seq(Motors) /\ IsInjective(targets')
    <3>1. CASE Resolve
      <4>1. PICK found_ \in SUBSET Motors : targets' = SetToSeq(found_)
        BY <3>1 DEF Resolve
      <4> QED
        BY <1>0, <3>1, <4>1, Listed DEF MotorTypeOK, Resolve
    <3>2. CASE MotorParseFails \/ ParseMotor \/ ResolveFails
      BY <1>0, <3>2 DEF MotorTypeOK, MotorParseFails, ParseMotor, ResolveFails, motorVars, commandVars
    <3> QED
      BY <1>1, <3>1, <3>2 DEF StartActions
  <2>3. at' \in 1..Len(targets') + 1
    <3>1. targets = <<>> /\ Len(targets) = 0
      BY <1>0, <1>1 DEF PlaceInv
    <3>2. at' = 1 /\ Len(targets') \in Nat
      BY <1>0, <1>1, <2>2, <3>1 DEF MotorTypeOK, configVars
    <3> QED
      BY <3>2
  <2> QED
    BY <1>0, <1>1, <2>1, <2>2, <2>3 DEF MotorTypeOK, configVars, controlVars, scanVars
<1>2. CASE ConfigActions /\ UNCHANGED <<commandVars, controlVars, scanVars>>
  <2>1. ProcessTypeOK'
    BY <1>0, <1>2 DEF ProcessTypeOK, ConfigActions, InitTarget, SetTarget, GetTarget, TargetFails, AllServed,
                      Return, Goto
  <2>2. /\ at' \in 1..Len(targets) + 1
        /\ step' \in {"init", "set", "get"}
        /\ {written', answered'} \subseteq SUBSET Motors
        /\ failure' \in BOOLEAN
    BY <1>0, <1>2, Turn DEF MotorTypeOK, ConfigActions, InitTarget, SetTarget, GetTarget, TargetFails,
                     AllServed, NextTarget, motorVars, configVars
  <2> QED
    BY <1>0, <1>2, <2>1, <2>2 DEF MotorTypeOK, commandVars, controlVars, scanVars
<1>3. CASE /\ DriveActions /\ job = "drive"
           /\ UNCHANGED <<commandVars, scanVars, written, answered, failure>>
  <2>1. ProcessTypeOK'
    BY <1>0, <1>3 DEF ProcessTypeOK, DriveActions, Prepare, Prepared, DriveLoop, SendControlCommand,
              PrintFeedback, SleepControl, Bracket, ClearFlag, InstallGuard, EnterRaw, Cook,
              RemoveGuard, Return, Goto, LeaveLoop
  <2>2. /\ at' \in 1..Len(targets) + 1
        /\ step' \in {"init", "set", "get"}
        /\ driven' \subseteq Motors
        /\ broken' \in BOOLEAN
    <3>1. 1 \in 1..Len(targets) + 1
      BY <1>0, Turn
    <3> QED
      BY <1>0, <1>3, <3>1, Turn
         DEF MotorTypeOK, DriveActions, Prepare, Prepared, DriveLoop, SendControlCommand,
              PrintFeedback, SleepControl, NextTarget, motorVars, configVars, controlVars
  <2>3. kts' \in Seq(Motors) /\ IsInjective(kts')
    <3>1. CASE Prepare /\ kts' # kts
      <4>1. kts' = Append(kts, Motor) /\ Len(kts) = at - 1 /\ More
        BY <1>0, <3>1 DEF Prepare, DriveInv, Goto
      <4>2. Motor = targets[Len(kts) + 1] /\ Len(kts) < Len(targets)
        BY <4>1, <1>0, Turn DEF Motor, More
      <4>3. kts' \in Seq(Motors) /\ Prefix(kts', targets)
        BY <4>1, <4>2, <1>0, PrefixFacts DEF MotorTypeOK, DriveInv
      <4> QED
        BY <4>3, <1>0, PrefixFacts DEF MotorTypeOK
    <3>2. CASE UNCHANGED kts
      BY <1>0, <3>2 DEF MotorTypeOK
    <3> QED
      BY <1>3, <3>1, <3>2 DEF DriveActions, Prepare, Prepared, DriveLoop, SendControlCommand,
         PrintFeedback, SleepControl, motorVars, controlVars
  <2>4. feedbacks' \in Seq(Motors) /\ IsInjective(feedbacks')
    <3>1. CASE SendControlCommand /\ feedbacks' # feedbacks
      <4>1. feedbacks' = Append(feedbacks, Motor) /\ Len(feedbacks) = at - 1 /\ More
        BY <1>0, <3>1 DEF SendControlCommand, DriveInv, Goto
      <4>2. Motor = targets[Len(feedbacks) + 1] /\ Len(feedbacks) < Len(targets)
        BY <4>1, <1>0, Turn DEF Motor, More
      <4>3. feedbacks' \in Seq(Motors) /\ Prefix(feedbacks', targets)
        BY <4>1, <4>2, <1>0, PrefixFacts DEF MotorTypeOK, DriveInv
      <4> QED
        BY <4>3, <1>0, PrefixFacts DEF MotorTypeOK
    <3>2. CASE UNCHANGED feedbacks
      BY <1>0, <3>2 DEF MotorTypeOK
    <3>3. CASE feedbacks' = <<>>
      BY <3>3 DEF IsInjective
    <3> QED
      BY <1>3, <3>1, <3>2, <3>3 DEF DriveActions, Prepare, Prepared, DriveLoop, SendControlCommand,
         PrintFeedback, SleepControl, motorVars, controlVars
  <2> QED
    BY <1>0, <1>3, <2>1, <2>2, <2>3, <2>4 DEF MotorTypeOK, commandVars, scanVars
<1>4. CASE ScanActions /\ UNCHANGED <<readback, targets, configVars, controlVars>>
  <2>1. ProcessTypeOK'
    BY <1>0, <1>4 DEF ProcessTypeOK, ScanActions, ParseScan, LaunchScan, CollectScan, UnwindScan,
                      CloseScan, ScanTask, processVars, Return, Goto
  <2>2. \A S \in SUBSET Buses : S # {} => Bus(S) \in S
    BY DEF Bus
  <2>3. /\ job' \in {"none", "read", "write", "brake", "drive", "scan"}
        /\ single' \in BOOLEAN
        /\ tasks' \in [Buses -> {"none", "running", "found", "failed"}]
        /\ adapter' \in {"open", "closed"}
    BY <1>0, <1>4 DEF MotorTypeOK, ScanActions, ParseScan, LaunchScan, CollectScan, UnwindScan,
                      CloseScan, ScanTask, motorVars, commandVars, scanVars
  <2>4. rows' \subseteq Buses
    <3>1. CASE LaunchScan
      <4>1. Wanted \subseteq Buses
        BY <3>1, <2>2 DEF LaunchScan, Wanted
      <4>2. rows' = Wanted \/ rows' = rows
        BY <3>1 DEF LaunchScan
      <4> QED
        BY <4>1, <4>2, <1>0 DEF MotorTypeOK
    <3>2. CASE CollectScan
      <4> DEFINE left == Buses \ rows
      <4>1. \/ rows' = rows
            \/ left # {} /\ rows' = rows \cup {Bus(left)}
        BY <3>2 DEF CollectScan
      <4>2. left # {} => Bus(left) \in Buses
        BY <2>2
      <4> QED
        BY <4>1, <4>2, <1>0 DEF MotorTypeOK
    <3>3. CASE UNCHANGED rows
      BY <3>3, <1>0 DEF MotorTypeOK
    <3> QED
      BY <1>4, <3>1, <3>2, <3>3 DEF ScanActions, ParseScan, UnwindScan, CloseScan, ScanTask,
         motorVars, scanVars
  <2> QED
    BY <1>0, <1>4, <2>1, <2>3, <2>4 DEF MotorTypeOK, configVars, controlVars
<1>5. CASE Interrupt /\ UNCHANGED motorVars
  BY <1>0, <1>5 DEF Interrupt, ProcessTypeOK, MotorTypeOK, motorVars, commandVars, configVars,
                    controlVars, scanVars
<1> QED
  BY <1>0, <1>1, <1>2, <1>3, <1>4, <1>5, MotorGroups

(* Every step keeps the main thread where its job has it. *)
LEMMA PlaceKept == MotorInv /\ MotorStep => PlaceInv'
<1> SUFFICES ASSUME MotorInv, MotorStep
             PROVE  PlaceInv'
  OBVIOUS
<1>0. ProcessTypeOK /\ MotorTypeOK /\ PlaceInv
  BY DEF MotorInv
<1>1. CASE StartActions /\ UNCHANGED <<configVars, controlVars, scanVars>>
  BY <1>0, <1>1 DEF PlaceInv, MotorTypeOK, StartActions, MotorParseFails, ParseMotor, ResolveFails,
     Resolve, Return, Goto, InLoop, controlVars, motorVars, commandVars
<1>2. CASE ConfigActions /\ job \in {"read", "write", "brake"} /\ UNCHANGED <<commandVars, controlVars, scanVars>>
  BY <1>0, <1>2 DEF PlaceInv, ConfigActions, InitTarget, SetTarget, GetTarget, TargetFails, AllServed,
     Return, Goto, InLoop, commandVars
<1>3. CASE DriveActions /\ job = "drive" /\ UNCHANGED commandVars
  BY <1>0, <1>3 DEF PlaceInv, DriveActions, Prepare, Prepared, DriveLoop, SendControlCommand,
              PrintFeedback, SleepControl, Bracket, ClearFlag, InstallGuard, EnterRaw, Cook,
              RemoveGuard, Return, Goto, LeaveLoop, InLoop, commandVars
<1>4. CASE ScanActions /\ UNCHANGED <<readback, targets, configVars, controlVars>>
  BY <1>0, <1>4 DEF PlaceInv, MotorTypeOK, ScanActions, ParseScan, LaunchScan, CollectScan, UnwindScan,
     CloseScan, ScanTask, processVars, Return, Goto, InLoop, motorVars, commandVars, controlVars
<1>5. CASE Interrupt /\ UNCHANGED motorVars
  BY <1>0, <1>5 DEF PlaceInv, Interrupt, ProcessTypeOK, InLoop, motorVars, commandVars, controlVars
<1> QED
  BY <1>0, <1>1, <1>2, <1>3, <1>4, <1>5, MotorGroups

(* Every step keeps the motors served in order and every failure on        *)
(* record.                                                                 *)
LEMMA ConfigKept == MotorInv /\ MotorStep => ConfigInv'
<1> SUFFICES ASSUME MotorInv, MotorStep
             PROVE  ConfigInv'
  OBVIOUS
<1>0. MotorTypeOK /\ PlaceInv /\ ConfigInv
  BY DEF MotorInv
<1> USE DEF ConfigInv
<1>1. CASE StartActions /\ pc \in {"parse", "resolve"} /\ UNCHANGED <<configVars, controlVars, scanVars>>
  <2>1. Untouched' /\ targets = <<>>
    BY <1>0, <1>1 DEF Untouched, configVars, PlaceInv
  <2>2. CASE targets' = <<>> /\ (pc' = "done" => exit' \in {0, 1})
    BY <2>1, <2>2 DEF Untouched, ServedInv
  <2>3. CASE Resolve
    <3>1. pc' # "done"
      BY <2>3 DEF Resolve, Goto
    <3>2. DOMAIN targets' \subseteq Nat \ {0}
      <4>1. MotorTypeOK'
        BY MotorTypesKept
      <4> QED
        BY <4>1 DEF MotorTypeOK
    <3> QED
      BY <2>1, <3>1, <3>2 DEF Untouched, ServedInv
  <2> QED
    BY <1>1, <2>1, <2>2, <2>3 DEF StartActions, MotorParseFails, ParseMotor, ResolveFails, Return, Goto,
       motorVars, commandVars
<1>2. CASE ConfigActions /\ pc = "each" /\ job \in {"read", "write", "brake"}
           /\ UNCHANGED <<commandVars, controlVars, scanVars>>
  <2>1. /\ ServedInv /\ ~Ended /\ job \in {"read", "write", "brake"}
        /\ UNCHANGED <<job, single, readback, targets>>
        /\ pc' \notin {"parse", "resolve"}
    BY <1>0, <1>2 DEF Ended, commandVars, ConfigActions, InitTarget, SetTarget, GetTarget, TargetFails,
       AllServed, Goto, Return
  <2>2. \A i, j \in DOMAIN targets : targets[i] = targets[j] => i = j
    BY <1>0 DEF MotorTypeOK, IsInjective
  <2>3. /\ DOMAIN targets \subseteq Nat /\ \A i \in DOMAIN targets : targets[i] \in Motors
        /\ at \in Nat /\ Len(targets) \in Nat /\ failure \in BOOLEAN
        /\ DOMAIN targets = 1..Len(targets)
    BY <1>0, Turn DEF MotorTypeOK
  <2>4. More => Motor = targets[at] /\ at \in DOMAIN targets
    BY <1>0, Turn DEF Motor
  <2> USE <2>1, <2>2, <2>3, <2>4
  <2>5. CASE InitTarget
    <3>1. /\ step = "init" /\ UNCHANGED <<at, written, answered, failure>> /\ pc' = "each"
          /\ step' = IF job = "read" THEN "get" ELSE "set"
      BY <2>5 DEF InitTarget, Goto
    <3>2. Served' = Served /\ ~Ended'
      BY <3>1 DEF Served, Ended
    <3> QED
      BY <3>1, <3>2 DEF ServedInv
  <2>6. CASE SetTarget
    <3>1. /\ step = "set" /\ More /\ UNCHANGED <<answered, failure>> /\ pc' = "each"
          /\ written' = written \cup {Motor}
          /\ IF readback THEN step' = "get" /\ at' = at ELSE step' = "init" /\ at' = at + 1
      BY <2>6 DEF SetTarget, Goto, NextTarget
    <3>2. ~Ended'
      BY <3>1 DEF Ended
    <3>3. \A i \in DOMAIN targets : i # at => (targets[i] \in Served' <=> targets[i] \in Served)
      BY <3>1 DEF Served
    <3>4. ~readback => targets[at] \in Served'
      BY <3>1 DEF Served, ServedInv
    <3> QED
      BY <3>1, <3>2, <3>3, <3>4 DEF ServedInv
  <2>7. CASE GetTarget
    <3>1. /\ step = "get" /\ More /\ UNCHANGED <<written, failure>> /\ pc' = "each"
          /\ answered' = answered \cup {Motor} /\ step' = "init" /\ at' = at + 1
      BY <2>7 DEF GetTarget, Goto, NextTarget
    <3>2. ~Ended'
      BY <3>1 DEF Ended
    <3>3. \A i \in DOMAIN targets : i # at => (targets[i] \in Served' <=> targets[i] \in Served)
      BY <3>1 DEF Served
    <3>4. targets[at] \in Served'
      BY <3>1 DEF Served, ServedInv
    <3> QED
      BY <3>1, <3>2, <3>3, <3>4 DEF ServedInv
  <2>8. CASE TargetFails
    <3>1. /\ More /\ failure' = TRUE /\ UNCHANGED <<written, answered>>
          /\ \/ pc' = "done" /\ exit' = 1 /\ single /\ UNCHANGED <<at, step>>
             \/ pc' = "each" /\ at' = at + 1 /\ step' = "init"
      BY <2>8 DEF TargetFails, Goto, Return, NextTarget
    <3>2. Served' = Served
      BY <3>1 DEF Served
    <3>3. targets[at] \notin Served
      BY <3>1 DEF Served, ServedInv
    <3>4. \E i \in DOMAIN targets : (i < at' \/ Ended') /\ targets[i] \notin Served'
      BY <3>1, <3>2, <3>3 DEF Ended
    <3> QED
      BY <3>1, <3>2, <3>4 DEF ServedInv
  <2>9. CASE AllServed
    <3>1. /\ ~More /\ pc' = "done" /\ exit' = (IF failure THEN 1 ELSE 0)
          /\ UNCHANGED <<at, step, written, answered, failure>>
      BY <2>9 DEF AllServed, Return, motorVars, configVars
    <3>2. Served' = Served /\ at > Len(targets) /\ Ended'
      BY <3>1 DEF Served, More, Ended
    <3> QED
      BY <3>1, <3>2 DEF ServedInv
  <2> QED
    BY <1>2, <2>5, <2>6, <2>7, <2>8, <2>9 DEF ConfigActions
<1>3. CASE DriveActions /\ job = "drive" /\ UNCHANGED commandVars
           /\ pc \in InLoop \cup {"prepare", "clear", "guard"}
  <2>1. pc' \notin {"parse", "resolve"}
    BY <1>3 DEF DriveActions, Prepare, Prepared, DriveLoop, SendControlCommand,
              PrintFeedback, SleepControl, Bracket, ClearFlag, InstallGuard, EnterRaw, Cook,
              RemoveGuard, Return, Goto, LeaveLoop
  <2> QED
    BY <1>3, <2>1 DEF commandVars
<1>4. CASE ScanActions /\ UNCHANGED <<readback, targets, configVars, controlVars>>
  <2>1. CASE \E b \in Buses : ScanTask(b)
    BY <1>0, <2>1 DEF ScanTask, processVars, commandVars, configVars, Untouched, ServedInv, Served, Ended
  <2>2. CASE ~\E b \in Buses : ScanTask(b)
    <3>1. job' = "scan" /\ pc' \notin {"parse", "resolve"}
      BY <1>0, <1>4, <2>2 DEF MotorTypeOK, PlaceInv, InLoop, ScanActions, ParseScan, LaunchScan, CollectScan,
         UnwindScan, CloseScan, Return, Goto, motorVars, commandVars
    <3> QED
      BY <3>1
  <2> QED
    BY <2>1, <2>2
<1>5. CASE Interrupt /\ UNCHANGED motorVars
  <2>1. (pc' = pc \/ pc' = "killed") /\ exit' = exit /\ ~Ended
    BY <1>5 DEF Interrupt
  <2> QED
    BY <1>0, <1>5, <2>1 DEF motorVars, commandVars, configVars, Untouched, ServedInv, Served, Ended
<1> QED
  BY <1>0, <1>1, <1>2, <1>3, <1>4, <1>5, MotorGroups

(* Every step keeps the motors prepared and driven together. *)
LEMMA DriveKept == MotorInv /\ MotorStep => DriveInv'
<1> SUFFICES ASSUME MotorInv, MotorStep
             PROVE  DriveInv'
  OBVIOUS
<1>0. ProcessTypeOK /\ MotorTypeOK /\ PlaceInv /\ ConfigInv /\ DriveInv
  BY DEF MotorInv
<1>00. /\ targets \in Seq(Motors) /\ IsInjective(targets)
       /\ kts \in Seq(Motors) /\ feedbacks \in Seq(Motors)
  BY <1>0 DEF MotorTypeOK
<1>01. \A s \in Seq(Motors) : Prefix(<<>>, s)
  BY DEF Prefix
<1>1. CASE StartActions /\ pc \in {"parse", "resolve"} /\ UNCHANGED <<configVars, controlVars, scanVars>>
  <2>0. at = 1 /\ kts = <<>> /\ feedbacks = <<>> /\ driven = {} /\ ~broken
    BY <1>0, <1>1 DEF PlaceInv, DriveInv, MotorInv, ConfigInv, Untouched
  <2>1. /\ kts' = <<>> /\ feedbacks' = <<>> /\ driven' = {} /\ ~broken'
        /\ pc' \notin InLoop \cup {"clear", "guard"} /\ (pc' = "prepare" => at' = 1)
    BY <1>1, <2>0 DEF StartActions, MotorParseFails, ParseMotor,
       ResolveFails, Resolve, Return, Goto, InLoop, controlVars, configVars
  <2>2. targets' \in Seq(Motors)
    BY MotorTypesKept DEF MotorTypeOK
  <2> QED
    BY <2>1, <2>2, <1>01 DEF DriveInv, InLoop
<1>2. CASE ConfigActions /\ job \in {"read", "write", "brake"} /\ pc = "each"
           /\ UNCHANGED <<commandVars, controlVars, scanVars>>
  <2>1. pc' \in {"each", "done"}
    BY <1>2 DEF ConfigActions, InitTarget, SetTarget, GetTarget, TargetFails, AllServed, Return, Goto
  <2> QED
    BY <1>0, <1>2, <2>1 DEF DriveInv, InLoop, commandVars, controlVars, Prefix
<1>3. CASE /\ DriveActions /\ job = "drive" /\ pc \in InLoop \cup {"prepare", "clear", "guard"}
           /\ UNCHANGED <<commandVars, scanVars, written, answered, failure>>
  <2>0. UNCHANGED <<job, targets>> /\ at \in Nat /\ Len(targets) \in Nat /\ at <= Len(targets) + 1
        /\ Len(kts) \in Nat /\ Len(feedbacks) \in Nat /\ ~(broken /\ pc \notin {"cook", "unguard"})
    BY <1>0, <1>00, <1>3, Turn DEF commandVars, DriveInv, InLoop
  <2>1. CASE Prepare
    <3>1. /\ pc = "prepare" /\ More /\ UNCHANGED <<feedbacks, driven, broken>>
          /\ \/ pc' = "prepare" /\ at' = at + 1 /\ kts' = Append(kts, Motor)
             \/ pc' = "done" /\ UNCHANGED <<at, kts>>
      BY <2>1 DEF Prepare, Goto, Return, NextTarget
    <3>2. Len(kts) = at - 1 /\ driven = {} /\ ~broken
      BY <1>0, <3>1 DEF DriveInv
    <3>3. Motor = targets[Len(kts) + 1] /\ Len(kts) < Len(targets)
      BY <2>0, <3>1, <3>2 DEF Motor, More
    <3>4. Prefix(Append(kts, Motor), targets) /\ Len(Append(kts, Motor)) = Len(kts) + 1
      BY <3>3, <1>0, <1>00, PrefixFacts DEF DriveInv
    <3>5. CASE pc' = "prepare" /\ at' = at + 1 /\ kts' = Append(kts, Motor)
      BY <1>0, <2>0, <3>1, <3>2, <3>4, <3>5 DEF DriveInv, InLoop
    <3>6. CASE pc' = "done" /\ UNCHANGED <<at, kts>>
      BY <1>0, <2>0, <3>1, <3>2, <3>6 DEF DriveInv, InLoop, Prefix
    <3> QED
      BY <3>1, <3>5, <3>6
  <2>2. CASE SendControlCommand
    <3>1. /\ pc = "send" /\ More /\ UNCHANGED kts
          /\ \/ pc' = "send" /\ at' = at + 1 /\ feedbacks' = Append(feedbacks, Motor) /\ UNCHANGED broken
             \/ pc' = "cook" /\ UNCHANGED feedbacks
      BY <2>2 DEF SendControlCommand, Goto, LeaveLoop, NextTarget
    <3>2. Len(feedbacks) = at - 1 /\ kts = targets
      BY <1>0, <3>1 DEF DriveInv, InLoop
    <3>3. Motor = targets[Len(feedbacks) + 1] /\ Len(feedbacks) < Len(targets)
      BY <2>0, <3>1, <3>2 DEF Motor, More
    <3>4. Prefix(Append(feedbacks, Motor), targets) /\ Len(Append(feedbacks, Motor)) = Len(feedbacks) + 1
      BY <3>3, <1>0, <1>00, PrefixFacts DEF DriveInv
    <3>5. CASE pc' = "send" /\ at' = at + 1 /\ feedbacks' = Append(feedbacks, Motor) /\ UNCHANGED broken
      BY <1>0, <2>0, <3>1, <3>2, <3>4, <3>5 DEF DriveInv, InLoop
    <3>6. CASE pc' = "cook" /\ UNCHANGED feedbacks
      BY <1>0, <2>0, <3>1, <3>2, <3>6 DEF DriveInv, InLoop, Prefix
    <3> QED
      BY <3>1, <3>5, <3>6
  <2>3. CASE Prepared
    <3>1. pc = "prepare" /\ ~More /\ pc' = "clear" /\ UNCHANGED <<kts, feedbacks, driven, broken>>
      BY <2>3 DEF Prepared, Goto, motorVars, controlVars
    <3>2. Len(kts) = Len(targets)
      BY <1>0, <2>0, <3>1 DEF DriveInv, More
    <3>3. kts = targets
      BY <3>2, <1>0, <1>00, PrefixFacts DEF DriveInv
    <3> QED
      BY <1>0, <2>0, <3>1, <3>3 DEF DriveInv, InLoop
  <2>4. CASE DriveLoop
    <3>1. /\ pc = "loop" /\ UNCHANGED <<kts, driven, broken>>
          /\ \/ pc' = "cook" /\ UNCHANGED feedbacks
             \/ pc' = "send" /\ at' = 1 /\ feedbacks' = <<>>
      BY <2>4 DEF DriveLoop, Goto, LeaveLoop, motorVars, controlVars
    <3> QED
      BY <1>0, <1>00, <1>01, <2>0, <3>1 DEF DriveInv, InLoop
  <2>5. CASE PrintFeedback
    <3>1. pc = "send" /\ ~More /\ pc' = "print" /\ UNCHANGED <<kts, feedbacks, driven, broken>>
      BY <2>5 DEF PrintFeedback, Goto, motorVars, controlVars
    <3>2. Len(feedbacks) = Len(targets)
      BY <1>0, <2>0, <3>1 DEF DriveInv, More
    <3>3. feedbacks = targets
      BY <3>2, <1>0, <1>00, PrefixFacts DEF DriveInv
    <3> QED
      BY <1>0, <2>0, <3>1, <3>3 DEF DriveInv, InLoop
  <2>6. CASE SleepControl \/ (Bracket /\ UNCHANGED motorVars)
    <3>1. /\ UNCHANGED <<kts, feedbacks, driven, broken>>
          /\ pc \in InLoop \cup {"clear", "guard"}
          /\ pc' \in {"loop", "guard", "raw", "unguard", "done"}
          /\ pc \in {"cook", "unguard"} => pc' \in {"unguard", "done"}
      BY <2>6 DEF SleepControl, Bracket, ClearFlag, InstallGuard, EnterRaw, Cook, RemoveGuard, Goto,
         InLoop, motorVars, controlVars
    <3> QED
      BY <1>0, <2>0, <3>1 DEF DriveInv, InLoop
  <2> QED
    BY <1>3, <2>1, <2>2, <2>3, <2>4, <2>5, <2>6 DEF DriveActions
<1>4. CASE ScanActions /\ UNCHANGED <<readback, targets, configVars, controlVars>>
  <2>1. CASE \E b \in Buses : ScanTask(b)
    BY <1>0, <1>4, <2>1 DEF ScanTask, processVars, configVars, controlVars, DriveInv
  <2>2. CASE ~\E b \in Buses : ScanTask(b)
    <3>1. /\ pc' \in {"launch", "collect", "unwind", "close", "done"}
          /\ pc \in {"parse", "launch", "collect", "unwind", "close"}
      BY <1>4, <2>2 DEF ScanActions, ParseScan, LaunchScan, CollectScan, UnwindScan, CloseScan, Return, Goto
    <3> QED
      BY <1>0, <1>4, <3>1 DEF configVars, controlVars, DriveInv, InLoop
  <2> QED
    BY <2>1, <2>2
<1>5. CASE Interrupt /\ UNCHANGED motorVars
  <2>1. (pc' = pc \/ pc' = "killed") /\ (pc \in InLoop => pc' = pc)
    BY <1>0, <1>5 DEF Interrupt, PlaceInv
  <2> QED
    BY <1>0, <1>5, <2>1 DEF motorVars, commandVars, configVars, controlVars, DriveInv, InLoop, Prefix, Interrupt, Ended
<1> QED
  BY <1>0, <1>1, <1>2, <1>3, <1>4, <1>5, MotorGroups

(* Every step keeps the scan with its tasks. *)
LEMMA ScanKept == MotorInv /\ MotorStep => ScanInv'
<1> SUFFICES ASSUME MotorInv, MotorStep
             PROVE  ScanInv'
  OBVIOUS
<1>0. ProcessTypeOK /\ MotorTypeOK /\ PlaceInv /\ ScanInv
  BY DEF MotorInv
<1>1. CASE StartActions /\ pc \in {"parse", "resolve"} /\ UNCHANGED <<configVars, controlVars, scanVars>>
  <2>1. /\ pc' \in {"resolve", "prepare", "each", "done"} /\ job' # "scan" /\ UNCHANGED <<tasks, rows>>
        /\ rows = {} /\ \A b \in Buses : tasks[b] = "none"
    BY <1>0, <1>1 DEF ScanInv, PlaceInv, StartActions, MotorParseFails, ParseMotor, ResolveFails, Resolve,
       Return, Goto, scanVars, motorVars, commandVars
  <2> QED
    BY <2>1 DEF ScanInv
<1>2. CASE ConfigActions /\ pc = "each" /\ job \in {"read", "write", "brake"}
           /\ UNCHANGED <<commandVars, controlVars, scanVars>>
  <2>1. pc' \in {"each", "done"} /\ UNCHANGED <<job, single, tasks, rows>>
    BY <1>2 DEF ConfigActions, InitTarget, SetTarget, GetTarget, TargetFails, AllServed, Return, Goto,
       commandVars, scanVars
  <2> QED
    BY <1>0, <1>2, <2>1 DEF ScanInv
<1>3. CASE DriveActions /\ job = "drive" /\ UNCHANGED <<commandVars, scanVars>>
  <2>1. pc' \in InLoop \cup {"prepare", "clear", "guard", "done"} /\ UNCHANGED <<job, single, tasks, rows>>
    BY <1>3 DEF DriveActions, Prepare, Prepared, DriveLoop, SendControlCommand,
       PrintFeedback, SleepControl, Bracket, ClearFlag, InstallGuard, EnterRaw, Cook,
       RemoveGuard, Return, Goto, LeaveLoop, InLoop, commandVars, scanVars
  <2> QED
    BY <1>0, <1>3, <2>1 DEF ScanInv, InLoop
<1>4. CASE ScanActions
  <2>0. /\ \A S \in SUBSET Buses : S # {} => Bus(S) \in S
        /\ tasks \in [Buses -> {"none", "running", "found", "failed"}] /\ rows \subseteq Buses
    BY <1>0 DEF Bus, MotorTypeOK
  <2>1. ASSUME NEW b \in Buses, ScanTask(b)
        PROVE  ScanInv'
    <3>1. /\ UNCHANGED <<pc, exit, job, single, rows>> /\ ~Ended /\ tasks[b] = "running"
          /\ tasks' \in {[tasks EXCEPT ![b] = "found"], [tasks EXCEPT ![b] = "failed"]}
      BY <2>1 DEF ScanTask, processVars, commandVars
    <3>2. /\ \A c \in Buses : c # b => tasks'[c] = tasks[c]
          /\ tasks'[b] \in {"found", "failed"}
      BY <2>0, <3>1
    <3> QED
      BY <1>0, <2>0, <3>1, <3>2 DEF ScanInv, Wanted, Ended
  <2>2. CASE ParseScan
    BY <1>0, <2>2 DEF ParseScan, PlaceInv, ScanInv, Goto, Return
  <2>3. CASE LaunchScan
    <3>1. pc = "launch" /\ rows = {} /\ UNCHANGED <<job, single>> /\ job = "scan"
      BY <1>0, <2>3 DEF LaunchScan, Goto, ScanInv, PlaceInv, MotorTypeOK, commandVars, InLoop
    <3>2. CASE single
      <4>1. /\ UNCHANGED tasks /\ \A b \in Buses : tasks[b] = "none"
            /\ pc' = "close" \/ pc' = "unwind"
        BY <1>0, <2>3, <3>2 DEF LaunchScan, Goto, ScanInv
      <4> QED
        BY <3>1, <3>2, <4>1 DEF ScanInv
    <3>3. CASE ~single
      <4> DEFINE waiting == {b \in Buses : tasks[b] = "none"}
      <4>1. /\ waiting # {} /\ tasks' = [tasks EXCEPT ![Bus(waiting)] = "running"]
            /\ UNCHANGED rows
            /\ pc' = IF waiting = {Bus(waiting)} THEN "collect" ELSE "launch"
        BY <2>3, <3>3 DEF LaunchScan, Goto
      <4>2. Bus(waiting) \in Buses /\ Bus(waiting) \in waiting
        BY <2>0, <4>1
      <4>3. pc' = "collect" => \A b \in Buses : tasks'[b] # "none"
        BY <2>0, <4>1, <4>2
      <4> QED
        BY <3>1, <3>3, <4>1, <4>3 DEF ScanInv
    <3> QED
      BY <3>2, <3>3, <1>0 DEF MotorTypeOK
  <2>4. CASE CollectScan
    <3> DEFINE left == Buses \ rows
    <3>1. /\ pc = "collect" /\ UNCHANGED <<tasks, job, single, exit>>
          /\ \/ left = {} /\ pc' = "close" /\ UNCHANGED rows
             \/ left # {} /\ tasks[Bus(left)] = "found" /\ pc' = "collect" /\ rows' = rows \cup {Bus(left)}
             \/ pc' = "unwind" /\ UNCHANGED rows
      BY <2>4 DEF CollectScan, Goto, commandVars
    <3>2. left = {} => \A b \in Buses : b \in rows
      OBVIOUS
    <3> QED
      BY <1>0, <2>0, <3>1, <3>2 DEF ScanInv
  <2>5. CASE UnwindScan
    BY <1>0, <2>5 DEF ScanInv, UnwindScan, Goto, motorVars, commandVars, scanVars
  <2>6. CASE CloseScan
    <3>1. /\ pc = "close" /\ pc' = "done" /\ UNCHANGED <<tasks, job, single, rows>>
          /\ exit' = IF rows = Wanted THEN 0 ELSE 1
      BY <2>6 DEF CloseScan, Return, commandVars
    <3>2. Wanted' = Wanted
      BY <3>1 DEF Wanted
    <3> QED
      BY <1>0, <3>1, <3>2 DEF ScanInv
  <2> QED
    BY <1>4, <2>1, <2>2, <2>3, <2>4, <2>5, <2>6 DEF ScanActions
<1>5. CASE Interrupt /\ UNCHANGED motorVars
  BY <1>0, <1>5 DEF ScanInv, Interrupt, Ended, Wanted, motorVars, commandVars, scanVars
<1> QED
  BY <1>0, <1>1, <1>2, <1>3, <1>4, <1>5, MotorGroups

(* Every step of a command on motors keeps its invariant. *)
LEMMA MotorKeeps == MotorInv /\ MotorStep => MotorInv'
BY MotorTypesKept, PlaceKept, ConfigKept, DriveKept, ScanKept DEF MotorInv

-----------------------------------------------------------------------------
(* stress: totals of counters.                                             *)

Counts == [Motors -> 0..MaxRounds]

(* What counters count is finite, and nothing for no motors. *)
LEMMA TotalType ==
  ASSUME NEW f \in Counts, NEW S \in SUBSET Motors
  PROVE  IsFiniteSet(Frames(f, S)) /\ Total(f, S) \in Nat
<1>1. IsFiniteSet(S)
  BY MotorsAssumption, FS_Subset
<1>2. IsFiniteSet(1..MaxRounds)
  BY FS_Interval, StressAssumption
<1>3. IsFiniteSet(S \X (1..MaxRounds))
  BY <1>1, <1>2, FS_Product
<1>4. Frames(f, S) \subseteq S \X (1..MaxRounds)
  BY StressAssumption DEF Frames, Counts
<1>5. IsFiniteSet(Frames(f, S))
  BY <1>3, <1>4, FS_Subset
<1> QED
  BY <1>5, FS_CardinalityType DEF Total

(* No motors count nothing. *)
LEMMA TotalEmpty ==
  ASSUME NEW f
  PROVE  Total(f, {}) = 0
<1>1. Frames(f, {}) = {}
  BY DEF Frames
<1> QED
  BY <1>1, FS_EmptySet DEF Total

(* A total is what one motor counts and the total of the others. *)
LEMMA TotalRemove ==
  ASSUME NEW f \in Counts, NEW S \in SUBSET Motors, NEW m \in S
  PROVE  Total(f, S) = Total(f, S \ {m}) + f[m]
<1> DEFINE T == S \ {m}
           own == {m} \X (1..f[m])
<1>1. f[m] \in Nat /\ f[m] \in 0..MaxRounds
  BY StressAssumption DEF Counts
<1>2. IsFiniteSet(Frames(f, T)) /\ Total(f, T) \in Nat
  BY TotalType
<1>3. IsFiniteSet(own) /\ Cardinality(own) = f[m]
  <2>1. IsFiniteSet(1..f[m]) /\ Cardinality(1..f[m]) = f[m]
    BY <1>1, FS_Interval
  <2>2. IsFiniteSet({m}) /\ Cardinality({m}) = 1
    BY FS_Singleton
  <2>3. IsFiniteSet(own) /\ Cardinality(own) = Cardinality({m}) * Cardinality(1..f[m])
    BY <2>1, <2>2, FS_Product
  <2> QED
    BY <1>1, <2>1, <2>2, <2>3
<1>4. Frames(f, S) = Frames(f, T) \cup own
  <2>1. \A X : (\E l \in S : X = {l} \X (1..f[l])) <=> (X = own \/ \E l \in T : X = {l} \X (1..f[l]))
    OBVIOUS
  <2> QED
    BY <2>1 DEF Frames
<1>5. Frames(f, T) \cap own = {}
  BY DEF Frames
<1>6. Cardinality(Frames(f, T) \cup own) = Cardinality(Frames(f, T)) + Cardinality(own) - Cardinality({})
  <2> DEFINE others == Frames(f, T)
  <2>1. IsFiniteSet(others) /\ IsFiniteSet(own) /\ others \cap own = {}
    BY <1>2, <1>3, <1>5
  <2> HIDE DEF own, others
  <2>2. Cardinality(others \cup own) = Cardinality(others) + Cardinality(own) - Cardinality(others \cap own)
    BY ONLY <2>1, FS_Union
  <2>3. Cardinality(others \cup own) = Cardinality(others) + Cardinality(own) - Cardinality({})
    BY ONLY <2>1, <2>2
  <2> QED
    BY <2>3 DEF others
<1> QED
  BY <1>1, <1>2, <1>3, <1>4, <1>6, FS_EmptySet DEF Total

(* Totals grow with the counters. *)
LEMMA TotalGrows ==
  ASSUME NEW f \in Counts, NEW g \in Counts, NEW S \in SUBSET Motors,
         \A m \in S : f[m] <= g[m]
  PROVE  Total(f, S) <= Total(g, S)
<1>1. \A m \in S : f[m] \in Nat /\ g[m] \in Nat
  BY StressAssumption DEF Counts
<1>2. \A m \in S : 1..f[m] \subseteq 1..g[m]
  BY <1>1
<1>3. Frames(f, S) \subseteq Frames(g, S)
  BY <1>2 DEF Frames
<1>4. IsFiniteSet(Frames(g, S))
  BY TotalType
<1> QED
  BY <1>3, <1>4, FS_Subset DEF Total

(* One more frame of one motor is one more in every total it is part of. *)
LEMMA TotalUp ==
  ASSUME NEW f \in Counts, NEW g \in Counts, NEW S \in SUBSET Motors, NEW m \in Motors,
         g[m] = f[m] + 1, \A l \in Motors \ {m} : g[l] = f[l]
  PROVE  Total(g, S) = Total(f, S) + (IF m \in S THEN 1 ELSE 0)
<1>0. Total(f, S) \in Nat /\ Total(g, S) \in Nat
  BY TotalType
<1>1. CASE m \notin S
  <2>1. \A l \in S : f[l] <= g[l] /\ g[l] <= f[l]
    BY <1>1, StressAssumption DEF Counts
  <2>2. Total(f, S) <= Total(g, S) /\ Total(g, S) <= Total(f, S)
    BY <2>1, TotalGrows
  <2> QED
    BY <1>0, <1>1, <2>2
<1>2. CASE m \in S
  <2> DEFINE T == S \ {m}
  <2>0. Total(f, T) \in Nat /\ Total(g, T) \in Nat /\ f[m] \in Nat
    BY TotalType, StressAssumption DEF Counts
  <2>1. \A l \in T : f[l] <= g[l] /\ g[l] <= f[l]
    BY StressAssumption DEF Counts
  <2>2. Total(f, T) <= Total(g, T) /\ Total(g, T) <= Total(f, T)
    BY <2>1, TotalGrows
  <2>3. Total(f, S) = Total(f, T) + f[m] /\ Total(g, S) = Total(g, T) + g[m]
    BY <1>2, TotalRemove
  <2> QED
    BY <1>0, <1>2, <2>0, <2>2, <2>3
<1> QED
  BY <1>1, <1>2

(* A callback is 1 for its motor. *)
LEMMA CalledIs ==
  ASSUME NEW m, NEW S
  PROVE  Cardinality(S \cap {m}) = IF m \in S THEN 1 ELSE 0
<1>1. m \in S => S \cap {m} = {m}
  OBVIOUS
<1>2. m \notin S => S \cap {m} = {}
  OBVIOUS
<1> QED
  BY <1>1, <1>2, FS_Singleton, FS_EmptySet

-----------------------------------------------------------------------------
(* stress: the steps.                                                      *)

ReadingType == [sent : Nat, received : Nat, left : SUBSET Motors, half : BOOLEAN]
TotalsType == [sent : Nat, received : Nat]

(* The variables of stress start in their types, and stress in its         *)
(* invariant.                                                              *)
LEMMA StressStarts ==
  /\ StressInit => StressTypeOK
  /\ ProcessInit /\ StressInit => StressInv
<1> SUFFICES ASSUME StressInit
             PROVE  StressTypeOK /\ (ProcessInit => StressInv)
  OBVIOUS
<1> USE DEF StressInit
<1>1. 0 \in 0..MaxRounds
  BY StressAssumption
<1>2. reading = Idle /\ Idle \in ReadingType /\ NoTotals \in TotalsType
  BY DEF Idle, NoTotals, ReadingType, TotalsType
<1>3. StressTypeOK
  BY <1>1, <1>2 DEF StressTypeOK, ReadingType, TotalsType
<1>4. ProcessInit => ProcessTypeOK /\ StressPlace
  BY DEF ProcessInit, ProcessTypeOK, StressPlace, Quiet, Live, Joined, Drained, Screen, Succeeded
<1>5. FrameInv
  <2>1. \A m \in Motors : Pending(m) = 0
    BY StressAssumption DEF Pending
  <2>2. \A m \in Motors : Called(m) = 0
    BY CalledIs DEF Called
  <2> QED
    BY <2>1, <2>2 DEF FrameInv
<1>6. ProcessInit => ReadInv /\ ReportInv
  BY <1>2 DEF ProcessInit, ReadInv, ReportInv, Half, Idle, Quiet, Drained, Succeeded
<1> QED
  BY <1>3, <1>4, <1>5, <1>6 DEF StressInv

(* The types, in the form the steps use them. *)
LEMMA StressFacts ==
  ASSUME StressTypeOK
  PROVE  /\ sent \in Counts /\ received \in Counts /\ open \in Counts
         /\ \A m \in Motors : sent[m] \in Nat /\ received[m] \in Nat /\ open[m] \in Nat
         /\ \A m \in Motors : AdapterOf[m] \in Adapters
         /\ \A m \in Motors : Called(m) = (IF m \in callback THEN 1 ELSE 0)
         /\ reading \in ReadingType /\ before \in TotalsType /\ after \in TotalsType
         /\ owed \in Nat /\ found \in SUBSET Motors
BY StressAssumption, CalledIs DEF StressTypeOK, Counts, Called, ReadingType, TotalsType

(* What the step of a sender is, and that the motor it is about is one of  *)
(* its own.                                                                *)
LEMMA SenderFacts ==
  ASSUME StressTypeOK, FrameInv, NEW a \in Adapters, sender[a] \in {"send", "count"}
  PROVE  LET m == First(todo[a])
         IN  m \in todo[a] /\ m \in Motors /\ AdapterOf[m] = a /\ sent[m] < MaxRounds
<1>1. todo[a] # {} /\ todo[a] \subseteq Motors
  BY DEF FrameInv, StressTypeOK
<1>2. First(todo[a]) \in todo[a]
  BY <1>1 DEF First
<1> QED
  BY <1>1, <1>2 DEF FrameInv

(* No motor has more frames than a sender may send. *)
LEMMA FrameBound ==
  ASSUME StressTypeOK, FrameInv, NEW m \in Motors
  PROVE  /\ Pending(m) \in {0, 1}
         /\ sent[m] + Pending(m) <= MaxRounds
         /\ received[m] <= sent[m] + Pending(m)
         /\ received[m] + open[m] + Called(m) = sent[m] + Pending(m)
<1>1. Pending(m) = 1 => sent[m] < MaxRounds
  BY SenderFacts, StressFacts DEF Pending
<1>2. Pending(m) \in {0, 1}
  BY DEF Pending
<1>3. sent[m] \in Nat /\ received[m] \in Nat /\ open[m] \in Nat /\ Called(m) \in Nat /\ sent[m] <= MaxRounds
  BY StressFacts, StressAssumption DEF Counts
<1>4. sent[m] + Pending(m) = received[m] + open[m] + Called(m)
  BY DEF FrameInv
<1> QED
  BY <1>1, <1>2, <1>3, <1>4, StressAssumption

(* What half a reading of a motor makes of what was read. *)
LEMMA FramesRead ==
  ASSUME NEW r \in ReadingType, NEW x \in Nat, NEW q
  PROVE  /\ q = [r EXCEPT !.sent = @ + x, !.half = TRUE] =>
               q = [sent |-> r.sent + x, received |-> r.received, left |-> r.left, half |-> TRUE]
         /\ q = [sent |-> r.sent + x, received |-> r.received, left |-> r.left, half |-> TRUE] =>
               q \in ReadingType
<1>1. q = [r EXCEPT !.sent = @ + x, !.half = TRUE] =>
        q = [sent |-> r.sent + x, received |-> r.received, left |-> r.left, half |-> TRUE]
  BY DEF ReadingType
<1>2. q = [sent |-> r.sent + x, received |-> r.received, left |-> r.left, half |-> TRUE] =>
        q \in ReadingType
  BY DEF ReadingType
<1> QED
  BY <1>1, <1>2

(* What the other half of a reading of a motor makes of what was read. *)
LEMMA AnswersRead ==
  ASSUME NEW r \in ReadingType, NEW x \in Nat, NEW m, NEW q
  PROVE  /\ q = [r EXCEPT !.received = @ + x, !.half = FALSE, !.left = @ \ {m}] =>
               q = [sent |-> r.sent, received |-> r.received + x, left |-> r.left \ {m}, half |-> FALSE]
         /\ q = [sent |-> r.sent, received |-> r.received + x, left |-> r.left \ {m}, half |-> FALSE] =>
               q \in ReadingType
<1>1. q = [r EXCEPT !.received = @ + x, !.half = FALSE, !.left = @ \ {m}] =>
        q = [sent |-> r.sent, received |-> r.received + x, left |-> r.left \ {m}, half |-> FALSE]
  BY DEF ReadingType
<1>2. q = [sent |-> r.sent, received |-> r.received + x, left |-> r.left \ {m}, half |-> FALSE] =>
        q \in ReadingType
  BY DEF ReadingType
<1> QED
  BY <1>1, <1>2

(* Half a motor is read: its frames, or its answers. *)
LEMMA Loaded ==
  ASSUME StressTypeOK, LoadCounter
  PROVE  LET m == First(reading.left)
         IN  /\ m \in reading.left /\ m \in Motors
             /\ \/ /\ ~reading.half
                   /\ reading' = [sent |-> reading.sent + sent[m], received |-> reading.received,
                                  left |-> reading.left, half |-> TRUE]
                   /\ owed' = owed + open[m] + Called(m)
                \/ /\ reading.half
                   /\ reading' = [sent |-> reading.sent, received |-> reading.received + received[m],
                                  left |-> reading.left \ {m}, half |-> FALSE]
                   /\ owed' = owed
<1> DEFINE m == First(reading.left)
<1>1. reading \in ReadingType
  BY StressFacts
<1>2. m \in reading.left /\ m \in Motors
  BY <1>1 DEF LoadCounter, First, ReadingType
<1>3. \/ /\ ~reading.half
         /\ reading' = [reading EXCEPT !.sent = @ + sent[m], !.half = TRUE]
         /\ owed' = owed + open[m] + Called(m)
      \/ /\ reading.half
         /\ reading' = [reading EXCEPT !.received = @ + received[m], !.half = FALSE, !.left = @ \ {m}]
         /\ owed' = owed
  BY <1>1 DEF LoadCounter, Called
<1>4. sent[m] \in Nat /\ received[m] \in Nat
  BY <1>2, StressFacts
<1> HIDE DEF m
<1>6. m \in reading.left /\ m \in Motors /\
      \/ /\ ~reading.half
         /\ reading' = [sent |-> reading.sent + sent[m], received |-> reading.received,
                        left |-> reading.left, half |-> TRUE]
         /\ owed' = owed + open[m] + Called(m)
      \/ /\ reading.half
         /\ reading' = [sent |-> reading.sent, received |-> reading.received + received[m],
                        left |-> reading.left \ {m}, half |-> FALSE]
         /\ owed' = owed
  BY <1>1, <1>2, <1>3, <1>4, FramesRead, AnswersRead
<1> QED
  BY <1>6 DEF m

(* Every step keeps the types. *)
LEMMA StressTypesKept == StressInv /\ StressStep => ProcessTypeOK' /\ StressTypeOK'
<1> SUFFICES ASSUME StressInv, StressStep
             PROVE  ProcessTypeOK' /\ StressTypeOK'
  OBVIOUS
<1>0. ProcessTypeOK /\ StressTypeOK /\ FrameInv
  BY DEF StressInv
<1>1. CASE \/ StressFails \/ Discover \/ RegisterCallbacks \/ ResetCounters \/ InstallHandler \/ Rearm
           \/ StartSenders \/ StopSenders \/ StopCounting \/ UnregisterCallbacks \/ FinalReport
  <2>1. ProcessTypeOK'
    BY <1>0, <1>1 DEF ProcessTypeOK, StressFails, Discover, RegisterCallbacks, ResetCounters,
       InstallHandler, Rearm, StartSenders, StopSenders, StopCounting, UnregisterCallbacks,
       FinalReport, Goto, Return
  <2>2. 0 \in 0..MaxRounds
    BY StressAssumption
  <2>3. CASE \/ StressFails \/ RegisterCallbacks \/ InstallHandler \/ Rearm \/ StopSenders
             \/ StopCounting \/ UnregisterCallbacks \/ FinalReport
    <3>1. /\ UNCHANGED <<found, sender, todo, counters, reportVars>>
          /\ {counting', listening', stopSenders'} \subseteq BOOLEAN
      BY <1>0, <2>3 DEF StressTypeOK, StressFails, RegisterCallbacks,
         InstallHandler, Rearm, StopSenders, StopCounting, UnregisterCallbacks,
         FinalReport, stressVars, senderVars
    <3> QED
      BY <1>0, <2>1, <3>1 DEF StressTypeOK, counters, reportVars
  <2>4. CASE Discover
    BY <1>0, <2>1, <2>4 DEF StressTypeOK, Discover, counters, senderVars, reportVars
  <2>5. CASE ResetCounters
    BY <1>0, <2>1, <2>2, <2>5 DEF StressTypeOK, ResetCounters, senderVars, reportVars
  <2>6. CASE StartSenders
    BY <1>0, <2>1, <2>6 DEF StressTypeOK, StartSenders, counters, reportVars
  <2> QED
    BY <1>1, <2>3, <2>4, <2>5, <2>6
<1>2. CASE \/ LoadCounter \/ LiveReport \/ LiveShown \/ JoinSenders \/ Drain \/ ReadAfter \/ ReportDrain
  <2>1. ProcessTypeOK'
    BY <1>0, <1>2 DEF ProcessTypeOK, LoadCounter, LiveReport, LiveShown, JoinSenders, Drain, ReadAfter,
       ReportDrain, BeginReading, processVars, Goto
  <2>2. Idle \in ReadingType /\ [Idle EXCEPT !.left = found] \in ReadingType
        /\ reading \in ReadingType /\ ReadTotals \in TotalsType
    BY <1>0, StressFacts DEF Idle, ReadingType, TotalsType, ReadTotals
  <2>3. reading' \in ReadingType /\ owed' \in Nat
    <3>1. CASE LoadCounter
      <4> DEFINE m == First(reading.left)
      <4>1. m \in Motors /\ reading \in ReadingType /\ owed \in Nat
        BY <1>0, <3>1, Loaded, StressFacts
      <4>2. sent[m] \in Nat /\ received[m] \in Nat /\ open[m] \in Nat /\ Called(m) \in Nat
        BY <1>0, <4>1, StressFacts
      <4>3. \/ /\ reading' = [sent |-> reading.sent + sent[m], received |-> reading.received,
                              left |-> reading.left, half |-> TRUE]
               /\ owed' = owed + open[m] + Called(m)
            \/ /\ reading' = [sent |-> reading.sent, received |-> reading.received + received[m],
                              left |-> reading.left \ {m}, half |-> FALSE]
               /\ owed' = owed
        BY <1>0, <3>1, Loaded
      <4> HIDE DEF m
      <4>4. reading' \in ReadingType
        BY <4>1, <4>2, <4>3, FramesRead, AnswersRead
      <4>5. owed' \in Nat
        BY <4>1, <4>2, <4>3
      <4> QED
        BY <4>4, <4>5
    <3>2. CASE LiveReport \/ LiveShown \/ JoinSenders \/ ReadAfter \/ ReportDrain
      BY <3>2, <2>2 DEF LiveReport, LiveShown, JoinSenders, ReadAfter, ReportDrain, BeginReading
    <3>3. CASE Drain
      BY <1>0, <3>3, <2>2, StressFacts DEF Drain
    <3> QED
      BY <1>2, <3>1, <3>2, <3>3
  <2>4. before' \in TotalsType /\ after' \in TotalsType
    BY <1>0, <1>2, <2>2, StressFacts DEF LoadCounter, LiveReport, LiveShown, JoinSenders, Drain, ReadAfter,
       ReportDrain
  <2>5. UNCHANGED <<found, counting, listening, senderVars, counters>>
    BY <1>2 DEF LoadCounter, LiveReport, LiveShown, JoinSenders, Drain, ReadAfter, ReportDrain
  <2> QED
    BY <1>0, <2>1, <2>3, <2>4, <2>5 DEF StressTypeOK, ReadingType, TotalsType, senderVars, counters
<1>3. ASSUME NEW a \in Adapters, Sender(a)
      PROVE  ProcessTypeOK' /\ StressTypeOK'
  <2> DEFINE m == First(todo[a])
  <2>1. ProcessTypeOK'
    BY <1>0, <1>3 DEF Sender, TestStop, SendFrame, CountSent, CommitFrames, SenderThrows, processVars, ProcessTypeOK
  <2>2. CASE TestStop(a) \/ CommitFrames(a) \/ SenderThrows(a)
    <3>1. /\ UNCHANGED <<found, counting, listening, stopSenders, counters, reportVars>>
          /\ sender' \in [Adapters -> {"none", "test", "send", "count", "commit", "done"}]
          /\ todo' \in [Adapters -> SUBSET Motors]
      BY <1>0, <2>2 DEF TestStop, CommitFrames, SenderThrows, StressTypeOK, stressVars, senderVars
    <3> QED
      BY <1>0, <2>1, <3>1 DEF StressTypeOK, counters, reportVars
  <2>3. CASE SendFrame(a)
    <3>1. sender[a] = "send" /\ open' = [open EXCEPT ![m] = @ + 1]
      BY <2>3 DEF SendFrame
    <3>2. m \in Motors /\ AdapterOf[m] = a /\ sent[m] < MaxRounds
      BY <1>0, <3>1, SenderFacts
    <3>3. Pending(m) = 0
      BY <3>1, <3>2 DEF Pending
    <3> HIDE DEF m
    <3>4. sent[m] \in Nat /\ received[m] \in Nat /\ open[m] \in Nat /\ Called(m) \in Nat
      BY <1>0, <3>2, StressFacts
    <3>5. open[m] + 1 \in 0..MaxRounds
      BY <1>0, <3>2, <3>3, <3>4, FrameBound, StressAssumption
    <3>6. open' \in [Motors -> 0..MaxRounds]
      BY <1>0, <3>1, <3>5 DEF StressTypeOK
    <3> QED
      BY <1>0, <2>1, <2>3, <3>6 DEF SendFrame, StressTypeOK, reportVars
  <2>4. CASE CountSent(a)
    <3>1. sender[a] = "count" /\ sent' = [sent EXCEPT ![m] = @ + 1]
          /\ todo' = [todo EXCEPT ![a] = @ \ {First(@)}]
          /\ sender' = [sender EXCEPT ![a] = IF todo'[a] = {} THEN "commit" ELSE "send"]
      BY <2>4 DEF CountSent
    <3>2. m \in Motors /\ AdapterOf[m] = a /\ sent[m] < MaxRounds
      BY <1>0, <3>1, SenderFacts
    <3>3. sent[m] + 1 \in 0..MaxRounds
      BY <1>0, <3>2, StressFacts, StressAssumption
    <3>4. sent' \in [Motors -> 0..MaxRounds]
      BY <1>0, <3>1, <3>3 DEF StressTypeOK
    <3>5. todo' \in [Adapters -> SUBSET Motors]
          /\ sender' \in [Adapters -> {"none", "test", "send", "count", "commit", "done"}]
      BY <1>0, <3>1 DEF StressTypeOK
    <3> QED
      BY <1>0, <2>1, <2>4, <3>4, <3>5 DEF CountSent, StressTypeOK, reportVars
  <2> QED
    BY <1>3, <2>2, <2>3, <2>4 DEF Sender
<1>4. ASSUME NEW m \in Motors, Callback(m)
      PROVE  ProcessTypeOK' /\ StressTypeOK'
  <2>1. ProcessTypeOK'
    BY <1>0, <1>4 DEF Callback, Answer, LoadActive, CountAnswer, processVars, ProcessTypeOK
  <2>2. CASE Answer(m)
    BY <1>0, <2>1, <2>2 DEF Answer, StressTypeOK, senderVars, reportVars
  <2>4. CASE LoadActive(m)
    <3>1. open[m] > 0
      BY <1>0, <2>4 DEF LoadActive, FrameInv
    <3>2. open[m] - 1 \in 0..MaxRounds
      BY <1>0, <3>1, StressAssumption DEF StressTypeOK
    <3>3. open' \in [Motors -> 0..MaxRounds]
      BY <1>0, <2>4, <3>2 DEF LoadActive, StressTypeOK
    <3> QED
      BY <1>0, <2>1, <2>4, <3>3 DEF LoadActive, StressTypeOK, senderVars, reportVars
  <2>3. CASE CountAnswer(m)
    <3>1. Called(m) = 1
      BY <1>0, <2>3, StressFacts DEF CountAnswer
    <3>2. sent[m] \in Nat /\ received[m] \in Nat /\ open[m] \in Nat
      BY <1>0, StressFacts
    <3>3. received[m] + 1 \in 0..MaxRounds
      BY <1>0, <3>1, <3>2, FrameBound, StressAssumption
    <3>4. received' \in [Motors -> 0..MaxRounds]
      BY <1>0, <2>3, <3>3 DEF CountAnswer, StressTypeOK
    <3> QED
      BY <1>0, <2>1, <2>3, <3>4 DEF CountAnswer, StressTypeOK, senderVars, reportVars
  <2> QED
    BY <1>4, <2>2, <2>3, <2>4 DEF Callback
<1>5. CASE Interrupt /\ UNCHANGED stressVars
  BY <1>0, <1>5 DEF Interrupt, ProcessTypeOK, StressTypeOK, stressVars, counters, senderVars, reportVars
<1> QED
  BY <1>1, <1>2, <1>3, <1>4, <1>5 DEF StressStep, StressNext, StressMain

(* The main thread alone moves; the senders only run while it does, the    *)
(* callbacks until the process exits.                                      *)
LEMMA ThreadFacts ==
  ASSUME StressStep
  PROVE  \/ StressMain
         \/ \E a \in Adapters :
              (TestStop(a) \/ SendFrame(a) \/ CountSent(a) \/ CommitFrames(a) \/ SenderThrows(a)) /\ ~Ended
         \/ \E m \in Motors :
              (Answer(m) \/ LoadActive(m) \/ CountAnswer(m)) /\ (~Ended \/ pc = "done")
         \/ Interrupt /\ UNCHANGED stressVars
BY DEF StressStep, StressNext, Sender, Callback

(* Every step keeps the threads, the callbacks and the terminal with the   *)
(* phase of the main thread.                                               *)
LEMMA StressPlaceKept == StressInv /\ StressStep => StressPlace'
<1> SUFFICES ASSUME StressInv, StressStep
             PROVE  StressPlace'
  OBVIOUS
<1>0. ProcessTypeOK /\ StressTypeOK /\ StressPlace /\ ReadInv
  BY DEF StressInv
<1> USE DEF Quiet, Live, Joined, Drained, Screen, Succeeded
<1>1. CASE \/ StressFails \/ Discover \/ RegisterCallbacks \/ InstallHandler \/ Rearm
           \/ StopSenders \/ JoinSenders \/ StopCounting \/ UnregisterCallbacks
  BY <1>0, <1>1 DEF StressPlace, StressTypeOK, StressFails, Discover, RegisterCallbacks,
     InstallHandler, Rearm, StopSenders, JoinSenders, StopCounting, UnregisterCallbacks,
     BeginReading, Goto, Return, stressVars, senderVars, counters
<1>2. CASE StartSenders
  BY <1>0, <1>2 DEF StressPlace, StartSenders, Goto, counters
<1>3. CASE ResetCounters
  BY <1>0, <1>3 DEF StressPlace, ResetCounters, Goto, senderVars
<1>4. CASE LoadCounter
  BY <1>0, <1>4 DEF StressPlace, LoadCounter, processVars, senderVars, counters
<1>5. CASE LiveReport \/ LiveShown \/ Drain \/ ReadAfter \/ ReportDrain \/ FinalReport
  BY <1>0, <1>5 DEF StressPlace, LiveReport, LiveShown, Drain, ReadAfter, ReportDrain, FinalReport,
     BeginReading, Goto, Return, stressVars, senderVars, counters
<1>6. ASSUME NEW a \in Adapters, ~Ended,
             TestStop(a) \/ SendFrame(a) \/ CountSent(a) \/ CommitFrames(a) \/ SenderThrows(a)
      PROVE  StressPlace'
  <2>1. /\ sender[a] \in {"test", "send", "count", "commit"}
        /\ UNCHANGED <<exit, handler, terminal, found, counting, listening, entered, callback>>
        /\ pc' \in {pc, "terminated"}
    BY <1>6 DEF TestStop, SendFrame, CountSent, CommitFrames, SenderThrows, stressVars, counters, processVars
  <2>2. pc \notin Quiet \cup Joined
    BY <1>0, <2>1 DEF StressPlace
  <2>3. pc \in {"live", "liveRead", "join"}
    BY <1>0, <1>6, <2>2 DEF StressPlace, Ended
  <2> QED
    BY <1>0, <2>1, <2>3 DEF StressPlace
<1>7. ASSUME NEW m \in Motors, Answer(m) \/ LoadActive(m) \/ CountAnswer(m)
      PROVE  StressPlace'
  <2>1. /\ UNCHANGED <<processVars, found, counting, listening, sender>>
        /\ m \in entered \/ m \in callback \/ open[m] > 0
    BY <1>7 DEF Answer, LoadActive, CountAnswer, senderVars
  <2>2. pc \notin Quiet
    BY <1>0, <2>1 DEF StressPlace
  <2> QED
    BY <1>0, <2>1, <2>2 DEF StressPlace, processVars
<1>8. CASE Interrupt /\ UNCHANGED stressVars
  BY <1>0, <1>8 DEF StressPlace, Interrupt, ProcessTypeOK, Ended, stressVars, senderVars, counters
<1> QED
  BY <1>1, <1>2, <1>3, <1>4, <1>5, <1>6, <1>7, <1>8, ThreadFacts DEF StressMain

(* Every step keeps the account of every motor. *)
LEMMA FrameKept == StressInv /\ StressStep => FrameInv'
<1> SUFFICES ASSUME StressInv, StressStep
             PROVE  FrameInv'
  OBVIOUS
<1>0. StressTypeOK /\ StressPlace /\ FrameInv
  BY DEF StressInv
<1>00. /\ sender \in [Adapters -> {"none", "test", "send", "count", "commit", "done"}]
       /\ todo \in [Adapters -> SUBSET Motors]
       /\ sent \in [Motors -> 0..MaxRounds]
       /\ open \in [Motors -> 0..MaxRounds]
       /\ received \in [Motors -> 0..MaxRounds]
       /\ MaxRounds \in Nat
       /\ AdapterOf \in [Motors -> Adapters]
  BY <1>0, StressAssumption DEF StressTypeOK
<1>1. CASE (StressMain /\ ~ResetCounters /\ ~StartSenders) \/ (Interrupt /\ UNCHANGED stressVars)
  <2>1. UNCHANGED <<sender, todo, sent, received, open, entered, callback>>
    BY <1>1 DEF StressMain, StressFails, Discover, RegisterCallbacks, InstallHandler, Rearm, LoadCounter,
       LiveReport, LiveShown, StopSenders, JoinSenders, Drain, StopCounting, UnregisterCallbacks,
       ReadAfter, ReportDrain, FinalReport, stressVars, senderVars, counters
  <2> QED
    BY <1>0, <2>1 DEF FrameInv, Pending, Called
<1>2. CASE ResetCounters
  <2>1. /\ UNCHANGED <<sender, todo, open, entered, callback>>
        /\ \A m \in Motors : /\ sent'[m] = 0 /\ received'[m] = 0
                             /\ sent[m] = 0 /\ received[m] = 0
    BY <1>0, <1>2 DEF ResetCounters, Goto, senderVars, StressPlace, Quiet
  <2>2. \A m \in Motors : Pending(m)' = Pending(m) /\ Called(m)' = Called(m)
    BY <2>1 DEF Pending, Called
  <2>3. \A a \in Adapters : todo[a] \subseteq Motors
    BY <1>00
  <2> QED
    BY <1>0, <2>1, <2>2, <2>3 DEF FrameInv
<1>3. CASE StartSenders
  <2>1. /\ UNCHANGED <<todo, sent, received, open, entered, callback>>
        /\ \A a \in Adapters : sender[a] = "none" /\ sender'[a] = "test"
    BY <1>0, <1>3 DEF StartSenders, Goto, counters, StressPlace, Quiet
  <2>2. \A m \in Motors : Pending(m)' = Pending(m) /\ Called(m)' = Called(m)
    BY <1>00, <2>1 DEF Pending, Called
  <2> QED
    BY <1>0, <2>1, <2>2 DEF FrameInv
<1>4. ASSUME NEW a \in Adapters, TestStop(a)
      PROVE  FrameInv'
  <2>1. /\ sender[a] = "test" /\ UNCHANGED <<sent, received, open, entered, callback>>
        /\ \A c \in Adapters : c # a => sender'[c] = sender[c] /\ todo'[c] = todo[c]
        /\ \/ sender'[a] = "done" /\ todo' = todo
           \/ /\ sender'[a] = IF todo'[a] = {} THEN "commit" ELSE "send"
              /\ \A m \in todo'[a] : AdapterOf[m] = a /\ sent[m] < MaxRounds
    BY <1>00, <1>4 DEF TestStop, counters
  <2>2. \A m \in Motors : Pending(m)' = Pending(m) /\ Called(m)' = Called(m)
    BY <1>00, <2>1 DEF Pending, Called
  <2> QED
    BY <1>0, <2>1, <2>2 DEF FrameInv
<1>5. ASSUME NEW a \in Adapters, SendFrame(a)
      PROVE  FrameInv'
  <2>0. PICK m \in Motors : m = First(todo[a]) /\ AdapterOf[m] = a
    <3>1. sender[a] = "send"
      BY <1>5 DEF SendFrame
    <3> QED
      BY <1>0, <3>1, SenderFacts
  <2>1. /\ sender[a] = "send" /\ UNCHANGED <<todo, sent, received, entered, callback>>
        /\ open' = [open EXCEPT ![m] = @ + 1]
        /\ sender' = [sender EXCEPT ![a] = "count"]
    BY <1>5, <2>0 DEF SendFrame
  <2>2. m \in Motors /\ AdapterOf[m] = a /\ m = First(todo[a])
    BY <2>0
  <2>3. Pending(m) = 0 /\ Pending(m)' = 1
    BY <1>00, <2>1, <2>2 DEF Pending
  <2>4. \A l \in Motors : l # m => Pending(l)' = Pending(l)
    BY <1>00, <2>1, <2>2 DEF Pending
  <2>5. \A l \in Motors : Called(l)' = Called(l)
    BY <2>1 DEF Called
  <2>6. open'[m] = open[m] + 1 /\ \A l \in Motors : l # m => open'[l] = open[l]
    BY <1>00, <2>1, <2>2
  <2>7. \A l \in Motors : sent'[l] + Pending(l)' = received'[l] + open'[l] + Called(l)'
    <3> TAKE l \in Motors
    <3>1. sent[l] + Pending(l) = received[l] + open[l] + Called(l)
      BY <1>0 DEF FrameInv
    <3>2. sent[l] \in Nat /\ received[l] \in Nat /\ open[l] \in Nat /\ Called(l) \in Nat
      BY <1>0, StressFacts
    <3>3. Called(l)' = Called(l) /\ Pending(l) \in {0, 1}
      BY <2>5 DEF Pending
    <3>4. CASE l = m
      <4>1. /\ Pending(l) = 0 /\ Pending(l)' = 1 /\ open'[l] = open[l] + 1
            /\ sent'[l] = sent[l] /\ received'[l] = received[l]
        BY <2>1, <2>3, <2>6, <3>4
      <4> QED
        BY <3>1, <3>2, <3>3, <4>1
    <3>5. CASE l # m
      <4>1. Pending(l)' = Pending(l) /\ sent'[l] = sent[l] /\ open'[l] = open[l] /\ received'[l] = received[l]
        BY <2>1, <2>4, <2>6, <3>5
      <4> QED
        BY <3>1, <3>2, <3>3, <4>1
    <3> QED
      BY <3>4, <3>5
  <2>8. \A c \in Adapters : sender'[c] \in {"send", "count"} => sender[c] \in {"send", "count"}
    BY <1>00, <2>1
  <2>10. \A l \in entered : l \in Motors /\ open'[l] > 0
    <3>1. \A l \in entered : l \in Motors /\ open[l] > 0
      BY <1>0 DEF FrameInv, StressTypeOK
    <3> QED
      BY <1>00, <2>2, <2>6, <3>1
  <2> QED
    BY <1>0, <1>00, <2>1, <2>2, <2>6, <2>7, <2>8, <2>10 DEF FrameInv
<1>6. ASSUME NEW a \in Adapters, CountSent(a)
      PROVE  FrameInv'
  <2>0. PICK m \in Motors : m = First(todo[a]) /\ AdapterOf[m] = a
    <3>1. sender[a] = "count"
      BY <1>6 DEF CountSent
    <3> QED
      BY <1>0, <3>1, SenderFacts
  <2>1. /\ sender[a] = "count" /\ UNCHANGED <<open, received, entered, callback>>
        /\ sent' = [sent EXCEPT ![m] = @ + 1]
        /\ todo' = [todo EXCEPT ![a] = @ \ {m}]
        /\ sender' = [sender EXCEPT ![a] = IF todo'[a] = {} THEN "commit" ELSE "send"]
    BY <1>6, <2>0 DEF CountSent
  <2>2. m \in Motors /\ AdapterOf[m] = a /\ m = First(todo[a])
    BY <2>0
  <2>3. Pending(m) = 1 /\ Pending(m)' = 0
    <3>1. sender'[a] # "count"
      BY <1>00, <2>1
    <3> QED
      BY <2>1, <2>2, <3>1 DEF Pending
  <2>4. \A l \in Motors : l # m => Pending(l)' = Pending(l)
    BY <1>00, <2>1, <2>2 DEF Pending
  <2>5. \A l \in Motors : Called(l)' = Called(l)
    BY <2>1 DEF Called
  <2>6. sent'[m] = sent[m] + 1 /\ \A l \in Motors : l # m => sent'[l] = sent[l]
    BY <1>00, <2>1, <2>2
  <2>7. \A l \in Motors : sent'[l] + Pending(l)' = received'[l] + open'[l] + Called(l)'
    <3> TAKE l \in Motors
    <3>1. sent[l] + Pending(l) = received[l] + open[l] + Called(l)
      BY <1>0 DEF FrameInv
    <3>2. sent[l] \in Nat /\ received[l] \in Nat /\ open[l] \in Nat /\ Called(l) \in Nat
      BY <1>0, StressFacts
    <3>3. Called(l)' = Called(l) /\ Pending(l) \in {0, 1}
      BY <2>5 DEF Pending
    <3>4. CASE l = m
      <4>1. /\ Pending(l) = 1 /\ Pending(l)' = 0 /\ sent'[l] = sent[l] + 1
            /\ open'[l] = open[l] /\ received'[l] = received[l]
        BY <2>1, <2>3, <2>6, <3>4
      <4> QED
        BY <3>1, <3>2, <3>3, <4>1
    <3>5. CASE l # m
      <4>1. Pending(l)' = Pending(l) /\ sent'[l] = sent[l] /\ open'[l] = open[l] /\ received'[l] = received[l]
        BY <2>1, <2>4, <2>6, <3>5
      <4> QED
        BY <3>1, <3>2, <3>3, <4>1
    <3> QED
      BY <3>4, <3>5
  <2>8. /\ todo'[a] = todo[a] \ {m} /\ \A c \in Adapters : c # a => todo'[c] = todo[c]
        /\ sender'[a] = (IF todo'[a] = {} THEN "commit" ELSE "send")
        /\ \A c \in Adapters : c # a => sender'[c] = sender[c]
    BY <1>00, <2>1
  <2>9. ASSUME NEW c \in Adapters, NEW l \in todo'[c]
        PROVE  AdapterOf[l] = c /\ sent'[l] < MaxRounds
    <3>1. l \in todo[c] /\ l \in Motors
      BY <1>00, <2>8
    <3>2. AdapterOf[l] = c /\ sent[l] < MaxRounds
      BY <1>0, <3>1 DEF FrameInv
    <3>3. l # m
      BY <2>2, <2>8, <3>2
    <3> QED
      BY <2>6, <3>1, <3>2, <3>3
  <2> QED
    BY <1>0, <2>1, <2>7, <2>8, <2>9 DEF FrameInv
<1>7. ASSUME NEW m \in Motors, Answer(m) \/ LoadActive(m) \/ CountAnswer(m)
      PROVE  FrameInv'
  <2>1. UNCHANGED <<sender, todo, sent>>
    BY <1>7 DEF Answer, LoadActive, CountAnswer, senderVars
  <2>2. \A l \in Motors : Pending(l)' = Pending(l)
    BY <2>1 DEF Pending
  <2>3. \A l \in Motors : Called(l)' = (IF l \in callback' THEN 1 ELSE 0)
    BY CalledIs DEF Called
  <2>4. ASSUME NEW l \in Motors
        PROVE  sent'[l] + Pending(l)' = received'[l] + open'[l] + Called(l)'
    <3>1. sent[l] + Pending(l) = received[l] + open[l] + Called(l)
      BY <1>0 DEF FrameInv
    <3>2. sent[l] \in Nat /\ received[l] \in Nat /\ open[l] \in Nat
          /\ Called(l) = (IF l \in callback THEN 1 ELSE 0)
      BY <1>0, StressFacts
    <3>3. CASE UNCHANGED <<open, callback, received>>
      BY <2>1, <2>2, <2>3, <3>1, <3>2, <3>3
    <3>5. CASE LoadActive(m) /\ callback' = callback \cup {m} /\ open' = [open EXCEPT ![m] = @ - 1]
      <4>1. /\ open'[l] = IF l = m THEN open[l] - 1 ELSE open[l]
            /\ m \notin callback /\ received' = received
        BY <1>0, <1>00, <3>5 DEF LoadActive, FrameInv
      <4> QED
        BY <2>1, <2>2, <2>3, <3>1, <3>2, <3>5, <4>1
    <3>4. CASE CountAnswer(m)
      <4>1. /\ received'[l] = IF l = m THEN received[l] + 1 ELSE received[l]
            /\ callback' = callback \ {m} /\ m \in callback /\ open' = open
        BY <1>00, <3>4 DEF CountAnswer
      <4> QED
        BY <2>1, <2>2, <2>3, <3>1, <3>2, <4>1
    <3> QED
      BY <1>7, <3>3, <3>4, <3>5 DEF Answer, LoadActive
  <2>5. \A l \in entered' : open'[l] > 0 /\ l \notin callback'
    <3>1. \A l \in entered : l \in Motors /\ open[l] > 0 /\ l \notin callback
      BY <1>0 DEF FrameInv, StressTypeOK
    <3>2. CASE Answer(m)
      BY <3>1, <3>2 DEF Answer
    <3>3. CASE LoadActive(m)
      BY <1>00, <3>1, <3>3 DEF LoadActive
    <3>4. CASE CountAnswer(m)
      BY <3>1, <3>4 DEF CountAnswer
    <3> QED
      BY <1>7, <3>2, <3>3, <3>4
  <2> QED
    BY <1>0, <2>1, <2>4, <2>5 DEF FrameInv
<1>8. ASSUME NEW a \in Adapters, CommitFrames(a) \/ SenderThrows(a)
      PROVE  FrameInv'
  <2>1. /\ UNCHANGED <<todo, sent, received, open, entered, callback>>
        /\ \A c \in Adapters : sender'[c] = sender[c] \/ (sender[c] = "commit" /\ sender'[c] = "test")
    BY <1>00, <1>8 DEF CommitFrames, SenderThrows, stressVars, senderVars, counters
  <2>2. \A m \in Motors : Pending(m)' = Pending(m) /\ Called(m)' = Called(m)
    BY <1>00, <2>1 DEF Pending, Called
  <2> QED
    BY <1>0, <2>1, <2>2 DEF FrameInv
<1> QED
  BY <1>1, <1>2, <1>3, <1>4, <1>5, <1>6, <1>7, <1>8, ThreadFacts

(* What is known of the totals wherever they are read. *)
LEMMA ReadFacts ==
  ASSUME StressTypeOK, ReadInv
  PROVE  /\ reading.sent \in Nat /\ reading.received \in Nat /\ reading.half \in BOOLEAN
         /\ reading.left \in SUBSET Motors /\ found \in SUBSET Motors /\ owed \in Nat
         /\ before.sent \in Nat /\ before.received \in Nat
         /\ after.sent \in Nat /\ after.received \in Nat
         /\ Total(sent, found) \in Nat /\ Total(received, found) \in Nat
         /\ Total(sent, reading.left) \in Nat /\ Total(received, reading.left) \in Nat
         /\ Half(sent) \in Nat /\ Half(received) \in Nat
         /\ ReadDone =>
              /\ Total(sent, reading.left) = 0 /\ Total(received, reading.left) = 0
              /\ Half(sent) = 0 /\ Half(received) = 0
<1>1. /\ reading \in ReadingType /\ before \in TotalsType /\ after \in TotalsType
      /\ sent \in Counts /\ received \in Counts
      /\ found \in SUBSET Motors /\ owed \in Nat
  BY StressFacts
<1>2. /\ reading.sent \in Nat /\ reading.received \in Nat /\ reading.half \in BOOLEAN
      /\ reading.left \in SUBSET Motors
      /\ before.sent \in Nat /\ before.received \in Nat
      /\ after.sent \in Nat /\ after.received \in Nat
  BY <1>1 DEF ReadingType, TotalsType
<1>3. /\ Total(sent, found) \in Nat /\ Total(received, found) \in Nat
      /\ Total(sent, reading.left) \in Nat /\ Total(received, reading.left) \in Nat
  BY <1>1, <1>2, TotalType
<1>4. reading.half => First(reading.left) \in Motors
  BY <1>2 DEF ReadInv, First
<1>5. Half(sent) \in Nat /\ Half(received) \in Nat
  BY <1>4, StressFacts DEF Half
<1>6. ReadDone => /\ Total(sent, reading.left) = 0 /\ Total(received, reading.left) = 0
                  /\ Half(sent) = 0 /\ Half(received) = 0
  BY TotalEmpty DEF ReadDone, Half
<1> QED
  BY <1>1, <1>2, <1>3, <1>5, <1>6

(* A reading begins with everything left to read. *)
LEMMA Begun ==
  ASSUME StressTypeOK, NEW from, NEW to, BeginReading(from, to)
  PROVE  /\ pc = from /\ pc' = to /\ exit' = exit /\ owed' = 0
         /\ reading' = [sent |-> 0, received |-> 0, left |-> found, half |-> FALSE]
BY DEF BeginReading, Goto, Idle

(* When all senders are done, no motor has more answers than frames. *)
LEMMA AnswersAreOwed ==
  ASSUME StressTypeOK, FrameInv, \A a \in Adapters : sender[a] = "done"
  PROVE  Total(received, found) <= Total(sent, found)
<1>1. \A m \in Motors : Pending(m) = 0
  BY StressFacts DEF Pending
<1>2. \A m \in Motors : received[m] <= sent[m]
  BY <1>1, FrameBound, StressFacts
<1> QED
  BY <1>2, TotalGrows, StressFacts

(* Every step keeps what was read in step with the counters. *)
LEMMA ReadKept == StressInv /\ StressStep => ReadInv' /\ ReportInv'
<1> SUFFICES ASSUME StressInv, StressStep
             PROVE  ReadInv' /\ ReportInv'
  OBVIOUS
<1>0. ProcessTypeOK /\ StressTypeOK /\ StressPlace /\ FrameInv /\ ReadInv /\ ReportInv
  BY DEF StressInv
<1>00. /\ reading.sent \in Nat /\ reading.received \in Nat /\ reading.half \in BOOLEAN
       /\ reading.left \in SUBSET Motors /\ found \in SUBSET Motors /\ owed \in Nat
       /\ Total(sent, found) \in Nat /\ Total(received, found) \in Nat
       /\ Total(sent, reading.left) \in Nat /\ Total(received, reading.left) \in Nat
       /\ before.received \in Nat /\ after.received \in Nat
  BY <1>0, ReadFacts
<1> USE DEF Quiet, Live, Drained
<1>1. CASE \/ StressFails \/ RegisterCallbacks \/ InstallHandler \/ Rearm \/ StartSenders
           \/ StopSenders \/ StopCounting \/ UnregisterCallbacks
  <2>1. /\ UNCHANGED <<found, sent, received, reading, before, after, owed>>
        /\ pc \in {"parse", "register", "signal", "rearm", "start", "live", "drained", "unregister"}
        /\ pc = "parse" => pc' = "done" /\ exit' = 1
        /\ pc = "register" => pc' = "reset"
        /\ pc = "signal" => pc' = "rearm" \/ (pc' = "done" /\ exit' = 1)
        /\ pc = "rearm" => pc' = "start"
        /\ pc = "start" => pc' = "live"
        /\ pc = "live" => pc' = "join"
        /\ pc = "drained" => pc' = "unregister"
        /\ pc = "unregister" => pc' = "report"
    BY <1>1 DEF StressFails, RegisterCallbacks, InstallHandler, Rearm, StartSenders, StopSenders,
       StopCounting, UnregisterCallbacks, Goto, Return, stressVars, senderVars, counters, reportVars
  <2>2. ReadInv'
    <3>1. /\ pc' \in Quiet \cup {"live", "join"} => pc \in Quiet \cup {"live", "join"}
          /\ pc' \in {"drained", "unregister", "report"} => pc \in {"drained", "unregister", "report"}
          /\ pc' \notin {"beforeRead", "afterRead", "finalRead"}
      BY <2>1
    <3>2. Half(received)' = Half(received) /\ ReadDone' = ReadDone
      BY <2>1 DEF Half, ReadDone
    <3>3. /\ (reading.left \subseteq found)' /\ (reading.half => reading.left # {})'
          /\ (reading.sent <= reading.received + owed + Half(received))'
      BY <1>0, <2>1, <3>2 DEF ReadInv
    <3>4. pc' \in Quiet \cup {"live", "join"} => reading' = Idle
      BY <1>0, <2>1, <3>1 DEF ReadInv
    <3>5. pc' \in {"drained", "unregister", "report"} => ReadDone'
      BY <1>0, <2>1, <3>1, <3>2 DEF ReadInv
    <3> HIDE DEF Quiet, Live, Drained
    <3> QED
      BY <3>1, <3>3, <3>4, <3>5 DEF ReadInv
  <2>3. ReportInv'
    BY <1>0, <2>1 DEF ReportInv, Succeeded
  <2> QED
    BY <2>2, <2>3
<1>2. CASE Discover \/ ResetCounters
  <2>1. pc \in Quiet /\ pc' \in Quiet /\ UNCHANGED <<reading, owed>> /\ reading = Idle
    BY <1>0, <1>2 DEF Discover, ResetCounters, Goto, reportVars, ReadInv
  <2>2. ReadInv'
    BY <1>00, <2>1 DEF ReadInv, Half, Idle
  <2>3. ReportInv'
    BY <2>1 DEF ReportInv, Succeeded
  <2> QED
    BY <2>2, <2>3
<1>3. CASE LoadCounter
  <2>0. UNCHANGED <<pc, exit, found, sent, received, before, after>>
        /\ pc \in {"liveRead", "beforeRead", "afterRead", "finalRead"}
    BY <1>3 DEF LoadCounter, processVars, counters
  <2>1. ReportInv'
    BY <1>0, <2>0 DEF ReportInv, Succeeded
  <2>2. PICK m \in Motors : m = First(reading.left) /\ m \in reading.left
    BY <1>0, <1>3, Loaded
  <2>3. sent[m] \in Nat /\ received[m] \in Nat /\ open[m] \in Nat /\ Called(m) \in Nat
        /\ sent \in Counts /\ received \in Counts
    BY <1>0, StressFacts
  <2>4. CASE ~reading.half
    <3>1. /\ reading' = [sent |-> reading.sent + sent[m], received |-> reading.received,
                         left |-> reading.left, half |-> TRUE]
          /\ owed' = owed + open[m] + Called(m)
      BY <1>0, <1>3, <2>2, <2>4, Loaded
    <3>2. /\ reading'.sent = reading.sent + sent[m] /\ reading'.received = reading.received
          /\ reading'.left = reading.left /\ reading'.half = TRUE
      BY <3>1
    <3>3. Half(sent) = 0 /\ Half(received) = 0 /\ Half(sent)' = sent[m] /\ Half(received)' = received[m]
      BY <2>0, <2>2, <2>4, <3>2 DEF Half
    <3>4. sent[m] <= received[m] + open[m] + Called(m)
      BY <1>0, <2>3, FrameBound
    <3>5. reading'.sent <= reading'.received + owed' + Half(received)'
      BY <1>0, <1>00, <2>3, <3>1, <3>2, <3>3, <3>4 DEF ReadInv
    <3>6. Total(sent, reading.left)' = Total(sent, reading.left)
          /\ Total(received, reading.left)' = Total(received, reading.left)
          /\ Total(sent, found)' = Total(sent, found)
          /\ Total(received, found)' = Total(received, found)
      BY <2>0, <3>2
    <3>7. pc \in {"beforeRead", "afterRead", "finalRead"} =>
            (reading.sent + Total(sent, reading.left) = Total(sent, found) + Half(sent))'
      BY <1>0, <1>00, <2>3, <3>2, <3>3, <3>6 DEF ReadInv
    <3> QED
      BY <1>0, <2>0, <2>1, <2>2, <3>2, <3>5, <3>6, <3>7 DEF ReadInv
  <2>5. CASE reading.half
    <3>1. /\ reading' = [sent |-> reading.sent, received |-> reading.received + received[m],
                         left |-> reading.left \ {m}, half |-> FALSE]
          /\ owed' = owed
      BY <1>0, <1>3, <2>2, <2>5, Loaded
    <3>2. /\ reading'.sent = reading.sent /\ reading'.received = reading.received + received[m]
          /\ reading'.left = reading.left \ {m} /\ reading'.half = FALSE
      BY <3>1
    <3>3. Half(sent) = sent[m] /\ Half(received) = received[m] /\ Half(sent)' = 0 /\ Half(received)' = 0
      BY <2>2, <2>5, <3>2 DEF Half
    <3>4. /\ Total(sent, reading.left) = Total(sent, reading.left \ {m}) + sent[m]
          /\ Total(received, reading.left) = Total(received, reading.left \ {m}) + received[m]
      BY <1>00, <2>2, <2>3, TotalRemove
    <3>5. Total(sent, reading.left \ {m}) \in Nat /\ Total(received, reading.left \ {m}) \in Nat
      BY <1>00, <2>3, TotalType
    <3>6. /\ Total(sent, reading.left)' = Total(sent, reading.left \ {m})
          /\ Total(received, reading.left)' = Total(received, reading.left \ {m})
          /\ Total(sent, found)' = Total(sent, found)
          /\ Total(received, found)' = Total(received, found)
      BY <2>0, <3>2
    <3>7. reading'.sent <= reading'.received + owed' + Half(received)'
      BY <1>0, <1>00, <2>3, <3>1, <3>2, <3>3 DEF ReadInv
    <3>8. pc \in {"beforeRead", "afterRead", "finalRead"} =>
            (reading.sent + Total(sent, reading.left) = Total(sent, found) + Half(sent))'
      <4> SUFFICES ASSUME pc \in {"beforeRead", "afterRead", "finalRead"}
                   PROVE  (reading.sent + Total(sent, reading.left) = Total(sent, found) + Half(sent))'
        OBVIOUS
      <4>1. reading.sent + (Total(sent, reading.left \ {m}) + sent[m]) = Total(sent, found) + sent[m]
        BY <1>0, <3>3, <3>4 DEF ReadInv
      <4>2. reading.sent + Total(sent, reading.left \ {m}) = Total(sent, found)
        BY <1>00, <2>3, <3>5, <4>1
      <4> QED
        BY <1>00, <3>2, <3>3, <3>6, <4>2
    <3>10. pc \in {"beforeRead", "afterRead", "finalRead"} =>
             (reading.received + Total(received, reading.left) <= Total(received, found))'
      BY <1>0, <1>00, <2>3, <3>2, <3>4, <3>5, <3>6 DEF ReadInv
    <3>9. (reading.received + Total(received, reading.left))' = reading.received + Total(received, reading.left)
      BY <1>00, <2>3, <3>2, <3>4, <3>5, <3>6
    <3> QED
      BY <1>0, <2>0, <2>1, <2>2, <3>2, <3>7, <3>8, <3>9, <3>10 DEF ReadInv
  <2> QED
    BY <1>00, <2>4, <2>5
<1>4. CASE LiveReport \/ JoinSenders \/ ReadAfter \/ ReportDrain
  <2>1. /\ UNCHANGED <<found, sent, received, before>>
        /\ owed' = 0 /\ exit' = exit
        /\ reading' = [sent |-> 0, received |-> 0, left |-> found, half |-> FALSE]
        /\ \/ pc = "live" /\ pc' = "liveRead" /\ after' = after
           \/ pc = "join" /\ pc' = "beforeRead" /\ after' = after
           \/ pc = "report" /\ pc' = "afterRead" /\ after' = after
           \/ pc = "afterRead" /\ pc' = "finalRead" /\ ReadDone /\ after' = ReadTotals
    BY <1>0, <1>4, Begun DEF LiveReport, JoinSenders, ReadAfter, ReportDrain, counters
  <2>2. reading'.sent = 0 /\ reading'.received = 0 /\ reading'.left = found /\ reading'.half = FALSE
    BY <2>1
  <2>3. /\ Half(sent)' = 0 /\ Half(received)' = 0
        /\ Total(sent, reading.left)' = Total(sent, found)
        /\ Total(received, reading.left)' = Total(received, found)
        /\ Total(sent, found)' = Total(sent, found)
        /\ Total(received, found)' = Total(received, found)
    BY <2>1, <2>2 DEF Half
  <2>4. CASE pc' # "finalRead"
    <3>1. pc = "report" => before.received <= Total(received, found)
      BY <1>0 DEF ReportInv
    <3>2. ReadInv'
      BY <1>00, <2>1, <2>2, <2>3, <2>4, <3>1 DEF ReadInv
    <3>3. ReportInv'
      BY <1>0, <2>1, <2>3, <2>4 DEF ReportInv, Succeeded
    <3> QED
      BY <3>2, <3>3
  <2>5. CASE pc' = "finalRead"
    <3>1. pc = "afterRead" /\ ReadDone /\ after'.sent = reading.sent /\ after'.received = reading.received
      BY <2>1, <2>5 DEF ReadTotals
    <3>2. Total(sent, reading.left) = 0 /\ Total(received, reading.left) = 0 /\ Half(sent) = 0
      BY <1>0, <3>1, ReadFacts
    <3>3. /\ reading.sent = Total(sent, found) /\ reading.received <= Total(received, found)
          /\ before.received <= reading.received
      BY <1>0, <1>00, <3>1, <3>2 DEF ReadInv
    <3>4. ReadInv'
      BY <1>00, <2>1, <2>2, <2>3, <2>5, <3>1, <3>3 DEF ReadInv
    <3>5. ReportInv'
      BY <1>0, <2>1, <2>3, <2>5, <3>1, <3>3 DEF ReportInv, Succeeded
    <3> QED
      BY <3>4, <3>5
  <2> QED
    BY <2>4, <2>5
<1>5. CASE LiveShown
  <2>1. pc' = "live" /\ reading' = Idle /\ owed' = 0
    BY <1>5 DEF LiveShown, Goto
  <2> QED
    BY <2>1 DEF ReadInv, ReportInv, Half, Idle, Succeeded
<1>6. CASE Drain
  <2>1. /\ UNCHANGED <<found, sent, received, reading, owed>> /\ ReadDone
        /\ pc = "beforeRead" /\ pc' = "drained"
        /\ before'.sent = reading.sent /\ before'.received = reading.received
    BY <1>6 DEF Drain, Goto, counters, ReadTotals
  <2>2. Total(sent, reading.left) = 0 /\ Total(received, reading.left) = 0 /\ Half(sent) = 0
    BY <1>0, <2>1, ReadFacts
  <2>3. reading.sent = Total(sent, found) /\ reading.received <= Total(received, found)
    BY <1>0, <1>00, <2>1, <2>2 DEF ReadInv
  <2>4. ReadInv'
    BY <1>0, <2>1 DEF ReadInv, Half, ReadDone
  <2>5. ReportInv'
    BY <2>1, <2>3 DEF ReportInv, Succeeded
  <2> QED
    BY <2>4, <2>5
<1>7. CASE FinalReport
  <2>1. /\ UNCHANGED <<found, sent, received, reading, before, after, owed>> /\ ReadDone
        /\ pc = "finalRead" /\ pc' = "done"
    BY <1>7 DEF FinalReport, Return, stressVars, counters, reportVars
  <2>2. Total(sent, reading.left) = 0 /\ Total(received, reading.left) = 0 /\ Half(sent) = 0
    BY <1>0, <2>1, ReadFacts
  <2>3. /\ reading.sent = Total(sent, found) /\ reading.received <= Total(received, found)
        /\ after.received <= reading.received
    BY <1>0, <1>00, <2>1, <2>2 DEF ReadInv
  <2>4. Total(received, found) <= Total(sent, found)
    BY <1>0, <2>1, AnswersAreOwed DEF StressPlace, Joined
  <2>5. ReadInv'
    BY <1>0, <2>1 DEF ReadInv, Half, ReadDone
  <2>6. ReportInv'
    BY <1>0, <1>00, <2>1, <2>3, <2>4 DEF ReportInv
  <2> QED
    BY <2>5, <2>6
<1>8. ASSUME NEW a \in Adapters, TestStop(a) \/ SendFrame(a) \/ CommitFrames(a) \/ SenderThrows(a)
      PROVE  ReadInv' /\ ReportInv'
  <2>1. /\ UNCHANGED <<exit, found, sent, received, reading, before, after, owed>>
        /\ pc' \in {pc, "terminated"}
    BY <1>8 DEF TestStop, SendFrame, CommitFrames, SenderThrows, processVars, stressVars, counters, reportVars
  <2> QED
    BY <1>0, <2>1 DEF ReadInv, ReportInv, Half, ReadDone, Succeeded
<1>9. ASSUME NEW a \in Adapters, CountSent(a), ~Ended
      PROVE  ReadInv' /\ ReportInv'
  <2>1. UNCHANGED <<pc, exit, found, received, reading, before, after, owed>> /\ sender[a] = "count"
    BY <1>9 DEF CountSent, processVars, reportVars
  <2>2. pc \in Live
    BY <1>0, <1>9, <2>1 DEF StressPlace, Ended, Joined
  <2> QED
    BY <1>0, <2>1, <2>2 DEF ReadInv, ReportInv, Half, ReadDone, Succeeded
<1>10. ASSUME NEW m \in Motors, Answer(m) \/ LoadActive(m)
       PROVE  ReadInv' /\ ReportInv'
  <2>1. UNCHANGED <<pc, exit, found, sent, received, reading, before, after, owed>>
    BY <1>10 DEF Answer, LoadActive, processVars, reportVars
  <2> QED
    BY <1>0, <2>1 DEF ReadInv, ReportInv, Half, ReadDone, Succeeded
<1>11. ASSUME NEW m \in Motors, CountAnswer(m)
       PROVE  ReadInv' /\ ReportInv'
  <2>1. /\ UNCHANGED <<pc, exit, found, sent, reading, before, after, owed>>
        /\ received' = [received EXCEPT ![m] = @ + 1]
    BY <1>11 DEF CountAnswer, processVars, reportVars
  <2>2. received \in Counts /\ received' \in Counts
    <3>1. StressTypeOK'
      BY StressTypesKept
    <3> QED
      BY <1>0, <3>1 DEF StressTypeOK, Counts
  <2>3. received'[m] = received[m] + 1 /\ \A l \in Motors \ {m} : received'[l] = received[l]
    BY <2>1, <2>2 DEF Counts
  <2>4. \A S \in SUBSET Motors : Total(received', S) = Total(received, S) + (IF m \in S THEN 1 ELSE 0)
    BY <2>2, <2>3, TotalUp
  <2>5. /\ Total(received', found) = Total(received, found) + (IF m \in found THEN 1 ELSE 0)
        /\ Total(received', reading.left) = Total(received, reading.left) + (IF m \in reading.left THEN 1 ELSE 0)
        /\ reading.left \subseteq found
    BY <1>0, <1>00, <2>4 DEF ReadInv
  <2>6. /\ Total(received, found)' = Total(received', found)
        /\ Total(received, reading.left)' = Total(received', reading.left)
        /\ Total(sent, found)' = Total(sent, found)
        /\ Total(sent, reading.left)' = Total(sent, reading.left)
        /\ Half(sent)' = Half(sent)
    BY <2>1 DEF Half
  <2>7. Half(received) \in Nat /\ Half(received)' \in Nat /\ Half(received)' >= Half(received)
    <3>1. reading.half => First(reading.left) \in Motors
      BY <1>0, <1>00 DEF ReadInv, First
    <3>2. \A l \in Motors : received[l] \in Nat /\ received'[l] \in Nat /\ received'[l] >= received[l]
      BY <2>2, <2>3, StressAssumption DEF Counts
    <3> QED
      BY <2>1, <3>1, <3>2 DEF Half
  <2>8. ReadInv'
    <3>1. reading'.sent <= reading'.received + owed' + Half(received)'
      BY <1>0, <1>00, <2>1, <2>7 DEF ReadInv
    <3>2. pc \in {"beforeRead", "afterRead", "finalRead"} =>
            (reading.received + Total(received, reading.left) <= Total(received, found))'
      BY <1>0, <1>00, <2>1, <2>5, <2>6 DEF ReadInv
    <3>3. (reading.received + Total(received, reading.left))' >= reading.received + Total(received, reading.left)
          /\ (reading.received + Total(received, reading.left))' \in Nat
      BY <1>00, <2>1, <2>5, <2>6
    <3> HIDE DEF Total
    <3> QED
      BY <1>0, <1>00, <2>1, <2>6, <3>1, <3>2, <3>3 DEF ReadInv, ReadDone
  <2>9. ReportInv'
    BY <1>0, <1>00, <2>1, <2>5, <2>6 DEF ReportInv, Succeeded
  <2> QED
    BY <2>8, <2>9
<1>12. CASE Interrupt /\ UNCHANGED stressVars
  <2>1. /\ UNCHANGED <<exit, found, sent, received, reading, before, after, owed>>
        /\ pc' = pc \/ pc' = "killed"
    BY <1>12 DEF Interrupt, stressVars, counters, reportVars
  <2> QED
    BY <1>0, <2>1 DEF ReadInv, ReportInv, Half, ReadDone, Succeeded
<1> QED
  BY <1>1, <1>2, <1>3, <1>4, <1>5, <1>6, <1>7, <1>8, <1>9, <1>10, <1>11, <1>12, ThreadFacts DEF StressMain

(* Every step of stress keeps its invariant. *)
LEMMA StressKeeps == StressInv /\ StressStep => StressInv'
BY StressTypesKept, StressPlaceKept, FrameKept, ReadKept DEF StressInv

-----------------------------------------------------------------------------
(* The process.                                                            *)

(* The commands start in their invariants in the next state as well.       *)
LEMMA NextStarts ==
  /\ (ProcessInit /\ SensorInit => SensorInv)'
  /\ (ProcessInit /\ MotorInit => MotorInv)'
  /\ (ProcessInit /\ BenchInit => BenchInv)'
  /\ (ProcessInit /\ StressInit => StressInv)'
BY SensorStarts, MotorStarts, BenchStarts, StressStarts, PTL

(* A command of which nothing changes keeps its invariant. *)
LEMMA Stutters ==
  ASSUME UNCHANGED processVars
  PROVE  /\ SensorInv /\ UNCHANGED sensorVars => SensorInv'
         /\ MotorInv /\ UNCHANGED motorVars => MotorInv'
         /\ BenchInv /\ UNCHANGED benchVars => BenchInv'
         /\ StressInv /\ UNCHANGED stressVars => StressInv'
<1> USE DEF processVars, ProcessTypeOK, Ended
<1>1. SensorInv /\ UNCHANGED sensorVars => SensorInv'
  BY DEF sensorVars, SensorInv, SensorTypeOK
<1>2. ASSUME MotorInv, UNCHANGED motorVars
      PROVE  MotorInv'
  <2> USE <1>2 DEF motorVars, commandVars, configVars, controlVars, scanVars
  <2>1. MotorTypeOK' /\ PlaceInv' /\ ProcessTypeOK'
    BY DEF MotorInv, MotorTypeOK, PlaceInv
  <2>2. ConfigInv'
    BY DEF MotorInv, ConfigInv, Untouched, ServedInv, Served
  <2>3. DriveInv' /\ ScanInv'
    BY DEF MotorInv, DriveInv, ScanInv, Wanted
  <2> QED
    BY <2>1, <2>2, <2>3 DEF MotorInv
<1>3. BenchInv /\ UNCHANGED benchVars => BenchInv'
  BY DEF benchVars, BenchInv, BenchTypes, CaseInv, OrderInv, Case
<1>4. ASSUME StressInv, UNCHANGED stressVars
      PROVE  StressInv'
  <2> USE <1>4 DEF stressVars, counters, senderVars, reportVars
  <2>1. StressTypeOK' /\ StressPlace' /\ ProcessTypeOK'
    BY DEF StressInv, StressTypeOK, StressPlace, Succeeded
  <2>2. FrameInv'
    BY DEF StressInv, FrameInv, Pending, Called
  <2>3. ReadInv' /\ ReportInv'
    BY DEF StressInv, ReadInv, ReportInv, Half, ReadDone, Succeeded
  <2> QED
    BY <2>1, <2>2, <2>3 DEF StressInv
<1> QED
  BY <1>1, <1>2, <1>3, <1>4

(* A command that does not run keeps its initial state. *)
LEMMA Idles ==
  /\ SensorInit /\ UNCHANGED sensorVars => SensorInit'
  /\ MotorInit /\ UNCHANGED motorVars => MotorInit'
  /\ BenchInit /\ UNCHANGED benchVars => BenchInit'
  /\ StressInit /\ UNCHANGED stressVars => StressInit'
BY DEF SensorInit, sensorVars, MotorInit, motorVars, commandVars, configVars, controlVars, scanVars,
       BenchInit, benchVars, StressInit, stressVars, counters, senderVars, reportVars

(* The initial state satisfies the invariant. *)
LEMMA InitIInv == Init => IInv
BY DEF Init, IInv, NoneInv, ProcessInit, ProcessTypeOK

(* What a step is, by the command that runs. *)
LEMMA Steps ==
  ASSUME IInv, Next
  PROVE  \/ command = "none" /\ NoCommand
         \/ command = "none" /\ Dispatch
         \/ command = "none" /\ Interrupt /\ OnlyProcess /\ UNCHANGED command
         \/ OfSensor /\ SensorStep
         \/ OfMotor /\ MotorStep
         \/ OfBench /\ BenchStep
         \/ OfStress /\ StressStep
         \/ UNCHANGED vars
<1>1. CASE Main
  BY <1>1 DEF Main, NoCommand, Dispatch, SensorStep, MotorStep, BenchStep, StressStep, StressNext
<1>2. CASE (\E b \in Buses : ScanThread(b)) \/ BenchThread
  BY <1>2 DEF ScanThread, BenchThread, MotorStep, BenchStep
<1>3. CASE (\E a \in Adapters : SenderThread(a)) \/ (\E m \in Motors : DriverThread(m))
  BY <1>3 DEF SenderThread, DriverThread, StressStep, StressNext
<1>4. CASE CtrlC
  BY <1>4 DEF IInv, CtrlC, OnlyProcess, OfSensor, OfMotor, OfBench, OfStress, SensorStep, MotorStep,
     BenchStep, StressStep
<1>5. CASE Finished
  BY <1>5 DEF Finished
<1> QED
  BY <1>1, <1>2, <1>3, <1>4, <1>5 DEF Next

(* Every step keeps the invariant. *)
LEMMA NextIInv == IInv /\ [Next]_vars => IInv'
<1> SUFFICES ASSUME IInv, [Next]_vars
             PROVE  IInv'
  OBVIOUS
<1>1. CASE command = "none" /\ NoCommand
  <2>1. NoneInv'
    BY <1>1 DEF IInv, NoneInv, NoCommand, Return, ProcessTypeOK
  <2> QED
    BY <1>1, <2>1, Idles DEF IInv, NoCommand, OnlyProcess
<1>2. CASE command = "none" /\ Dispatch
  <2>1. ProcessInit' /\ command' \in {"sensor", "motor", "bench", "stress"}
    BY <1>2 DEF IInv, NoneInv, Dispatch, Goto, ProcessInit
  <2>2. SensorInit' /\ MotorInit' /\ BenchInit' /\ StressInit'
    BY <1>2, Idles DEF IInv, Dispatch, OnlyProcess
  <2> QED
    BY <2>1, <2>2, NextStarts DEF IInv
<1>3. CASE command = "none" /\ Interrupt /\ OnlyProcess /\ UNCHANGED command
  <2>1. NoneInv'
    BY <1>3 DEF IInv, NoneInv, Interrupt, ProcessTypeOK, ProcessInit, Ended
  <2> QED
    BY <1>3, <2>1, Idles DEF IInv, OnlyProcess
<1>4. CASE OfSensor /\ SensorStep
  BY <1>4, SensorKeeps, Idles DEF IInv, OfSensor
<1>5. CASE OfMotor /\ MotorStep
  BY <1>5, MotorKeeps, Idles DEF IInv, OfMotor
<1>6. CASE OfBench /\ BenchStep
  BY <1>6, BenchKeeps, Idles DEF IInv, OfBench
<1>7. CASE OfStress /\ StressStep
  BY <1>7, StressKeeps, Idles DEF IInv, OfStress
<1>8. CASE UNCHANGED vars
  <2>1. UNCHANGED <<processVars, command, sensorVars, motorVars, benchVars, stressVars>>
    BY <1>8 DEF vars
  <2>2. NoneInv => NoneInv'
    BY <2>1 DEF NoneInv, ProcessTypeOK, ProcessInit, processVars
  <2> QED
    BY <2>1, <2>2, Stutters, Idles DEF IInv
<1> QED
  BY <1>1, <1>2, <1>3, <1>4, <1>5, <1>6, <1>7, <1>8, Steps

(* The inductive invariant holds in every state of every command. *)
THEOREM Invariance == Spec => []IInv
BY InitIInv, NextIInv, PTL DEF Spec

(* Every variable keeps its type, and the main thread is at a point of its *)
(* command.                                                                *)
THEOREM TypeCorrect == Spec => []TypeOK
<1>1. IInv => TypeOK
  <2> SUFFICES ASSUME IInv
               PROVE  TypeOK
    OBVIOUS
  <2>1. SensorTypeOK
    BY SensorTypes DEF IInv, SensorInv
  <2>2. MotorTypeOK
    BY MotorStarts DEF IInv, MotorInv
  <2>3. BenchTypeOK
    <3>1. CASE command = "bench"
      BY <3>1 DEF IInv, BenchInv, BenchTypes, OrderInv, BenchTypeOK, Stat
    <3>2. CASE command # "bench"
      BY <3>2, BenchStarts DEF IInv
    <3> QED
      BY <3>1, <3>2
  <2>4. StressTypeOK
    BY StressStarts DEF IInv, StressInv
  <2>5. ProcessTypeOK
    BY DEF IInv, NoneInv, SensorInv, MotorInv, BenchInv, BenchTypes, StressInv
  <2>6. ~Ended => pc \in Places[command]
    <3>1. command = "none" /\ ~Ended => pc \in Places.none
      BY DEF IInv, NoneInv, Ended, Places
    <3>2. command = "motor" /\ ~Ended => pc \in Places.motor
      BY DEF IInv, MotorInv, MotorTypeOK, PlaceInv, InLoop, Ended, Places
    <3>3. command = "stress" /\ ~Ended => pc \in Places.stress
      BY DEF IInv, StressInv, StressPlace, Quiet, Live, Joined, Drained, Ended, Places
    <3>4. command = "sensor" /\ ~Ended => pc \in Places.sensor
      BY DEF IInv, SensorInv
    <3>5. command = "bench" /\ ~Ended => pc \in Places.bench
      BY DEF IInv, BenchInv, BenchTypes
    <3>6. command \in {"none", "sensor", "motor", "bench", "stress"}
      BY DEF IInv
    <3> QED
      BY <3>1, <3>2, <3>3, <3>4, <3>5, <3>6
  <2> QED
    BY <2>1, <2>2, <2>3, <2>4, <2>5, <2>6 DEF TypeOK, IInv
<1> QED
  BY <1>1, Invariance, PTL

(* A command that returns or is killed by Ctrl-C at any point leaves the   *)
(* terminal as it was found; a thread that throws leaves raw mode nowhere, *)
(* and the alternate screen only with stress.                              *)
THEOREM TerminalRestored == Spec => []TerminalIsRestored
<1>1. IInv => TerminalIsRestored
  <2> SUFFICES ASSUME IInv, Ended
               PROVE  \/ terminal = "cooked"
                      \/ pc = "terminated" /\ command = "stress" /\ terminal = "alternate"
    BY DEF TerminalIsRestored, Ended
  <2>1. command = "none" => terminal = "cooked"
    BY DEF IInv, NoneInv
  <2>2. command = "sensor" => terminal = "cooked"
    BY DEF IInv, SensorInv, Ended
  <2>3. command = "motor" => terminal = "cooked"
    BY DEF IInv, MotorInv, PlaceInv, Ended
  <2>4. command = "bench" => terminal = "cooked"
    BY DEF IInv, BenchInv, BenchTypes
  <2>5. command = "stress" => terminal = "cooked" \/ (pc = "terminated" /\ terminal = "alternate")
    BY DEF IInv, StressInv, StressPlace, Screen, Ended, ProcessTypeOK
  <2> QED
    BY <2>1, <2>2, <2>3, <2>4, <2>5 DEF IInv
<1> QED
  BY <1>1, Invariance, PTL

(* The exit code of config, and of control for a brake, tells whether      *)
(* every motor was served, for any number of motors in any order of        *)
(* failures.                                                               *)
THEOREM ExitIsRight == Spec => []ExitTellsOutcome
<1>1. IInv => ExitTellsOutcome
  <2> SUFFICES ASSUME IInv, pc = "done", job \in {"read", "write", "brake"}, targets # <<>>
               PROVE  (exit = 0 <=> ToSet(targets) \subseteq Served) /\ (~single => at > Len(targets))
    BY DEF ExitTellsOutcome, Served
  <2>1. command = "motor"
    BY DEF IInv, MotorInit
  <2>2. MotorTypeOK /\ ServedInv
    BY <2>1 DEF IInv, MotorInv, ConfigInv
  <2>3. exit = (IF failure THEN 1 ELSE 0) /\ (~single \/ ~failure => at > Len(targets))
    BY <2>2 DEF ServedInv
  <2>4. DOMAIN targets = 1..Len(targets) /\ at \in Nat /\ Len(targets) \in Nat /\ failure \in BOOLEAN
    BY <2>2, Turn DEF MotorTypeOK
  <2>5. CASE failure
    <3>1. PICK i \in DOMAIN targets : targets[i] \notin Served
      BY <2>2, <2>5 DEF ServedInv
    <3> QED
      BY <2>3, <2>5, <3>1 DEF ToSet
  <2>6. CASE ~failure
    <3>1. at > Len(targets)
      BY <2>3, <2>6
    <3>2. \A i \in DOMAIN targets : targets[i] \in Served
      BY <2>2, <2>4, <2>6, <3>1 DEF ServedInv
    <3> QED
      BY <2>3, <2>6, <3>2 DEF ToSet
  <2> QED
    BY <2>3, <2>5, <2>6
<1> QED
  BY <1>1, Invariance, PTL

(* No motor is driven before all are ready or after one has failed, and a  *)
(* printed row belongs to one motor.                                       *)
THEOREM DriveIsTogether == Spec => []DriveIsAllOrNothing
<1>1. IInv => DriveIsAllOrNothing
  <2> SUFFICES ASSUME IInv
               PROVE  DriveIsAllOrNothing
    OBVIOUS
  <2>1. CASE command = "motor"
    BY <2>1 DEF IInv, MotorInv, DriveInv, DriveIsAllOrNothing
  <2>2. CASE command # "motor"
    <3>1. driven = {} /\ broken = FALSE /\ feedbacks = targets
      BY <2>2 DEF IInv, MotorInit
    <3> QED
      BY <3>1 DEF DriveIsAllOrNothing
  <2> QED
    BY <2>1, <2>2
<1> QED
  BY <1>1, Invariance, PTL

(* No task of a scan outlives the adapter it uses, and success means every *)
(* bus.                                                                    *)
THEOREM ScanJoined == Spec => []ScanIsJoined
<1>1. IInv => ScanIsJoined
  BY DEF IInv, MotorInit, MotorInv, ScanInv, ScanIsJoined
<1> QED
  BY <1>1, Invariance, PTL

(* A case that is in the result is within one of its two limits, although  *)
(* they are checked on drops only, each congestion case was measured under *)
(* its own delay, and success means that every case is in the result: for  *)
(* all thresholds, limits, rates and delays the command accepts.           *)
THEOREM VerdictIsRight == Spec => []BenchVerdict
<1>1. IInv => BenchVerdict
  <2>1. BenchInv => BenchVerdict
    BY Numbers DEF BenchInv, CaseInv, OrderInv, InLimits, BenchVerdict
  <2>2. BenchInit => BenchVerdict
    BY DEF BenchInit, BenchVerdict
  <2> QED
    BY <2>1, <2>2 DEF IInv
<1> QED
  BY <1>1, Invariance, PTL

(* The reports of stress are right for any number of motors, adapters and  *)
(* rounds, although every counter is read by itself while the callbacks    *)
(* still count.                                                            *)
THEOREM ReportsAreRight == Spec => []ReportsAreTrue
<1>1. IInv => ReportsAreTrue
  <2> SUFFICES ASSUME IInv
               PROVE  ReportsAreTrue
    OBVIOUS
  <2>1. CASE command = "stress"
    <3>1. StressTypeOK /\ StressPlace /\ ReadInv /\ ReportInv
      BY <2>1 DEF IInv, StressInv
    <3>2. /\ reading.sent \in Nat /\ reading.received \in Nat /\ owed \in Nat
          /\ before.sent \in Nat /\ before.received \in Nat
          /\ after.sent \in Nat /\ after.received \in Nat
          /\ Total(sent, found) \in Nat
          /\ ReadDone => Half(received) = 0
      BY <3>1, ReadFacts
    <3>3. LiveDropIsOwed
      <4>1. ReadDone => reading.sent <= reading.received + owed
        BY <3>1, <3>2 DEF ReadInv
      <4> QED
        BY <3>2, <4>1 DEF LiveDropIsOwed, DropCount, ReadTotals
    <3>4. StressAccounts
      <4>1. pc = "done" => ~listening
        BY <3>1 DEF StressPlace
      <4>2. ASSUME Succeeded
            PROVE  /\ {before.sent, after.sent, reading.sent} = {Total(sent, found)}
                   /\ before.received <= after.received
                   /\ after.received <= reading.received
                   /\ reading.received <= reading.sent
                   /\ DropCount(after) <= DropCount(before)
        <5>1. /\ before.sent = Total(sent, found) /\ after.sent = Total(sent, found)
              /\ reading.sent = Total(sent, found)
              /\ before.received <= after.received /\ after.received <= reading.received
              /\ reading.received <= Total(sent, found)
          BY <3>1, <4>2 DEF ReportInv
        <5>2. DropCount(after) <= DropCount(before)
          BY <3>2, <5>1 DEF DropCount
        <5> QED
          BY <5>1, <5>2
      <4> QED
        BY <4>1, <4>2 DEF StressAccounts, Succeeded
    <3> QED
      BY <3>3, <3>4 DEF ReportsAreTrue
  <2>2. CASE command # "stress"
    <3>1. found = {} /\ listening = FALSE /\ owed = 0 /\ reading.sent = 0 /\ reading.received = 0
      BY <2>2 DEF IInv, StressInit, Idle
    <3> QED
      BY <3>1 DEF ReportsAreTrue, StressAccounts, LiveDropIsOwed, DropCount, ReadTotals
  <2> QED
    BY <2>1, <2>2
<1> QED
  BY <1>1, Invariance, PTL

=============================================================================
