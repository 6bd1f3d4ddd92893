------------------------------- MODULE BenchRun -------------------------------
(***************************************************************************)
(* emcli bench: two cases on an idle bus, then, with a thread that keeps   *)
(* the bus busy, one case for each delay of that thread. A case counts its *)
(* samples and its drops and gives up on too many drops.                   *)
(***************************************************************************)
EXTENDS Process, Sequences

CONSTANTS
  Delays,        \* {10, 5, 3, 2, 1}, in this order
  LongDelay,     \* the 100 ms stored before a change
  MinPackets,    \* --min-packet-threshold
  MaxDrops,      \* --max-drop-count-before-threshold
  RateNum, RateDen,  \* --max-drop-rate-after-threshold
  MaxSamples     \* bound: samples of a case

\* ParseBenchOptions.
ASSUME BenchAssumption ==
  /\ {LongDelay, MinPackets, MaxDrops, MaxSamples, RateNum} \subseteq Nat
  /\ RateDen \in Nat \ {0}
  /\ RateNum <= RateDen
  /\ Delays \in Seq(Nat) /\ Delays # <<>>

VARIABLES
  stats,     \* DropStats of the finished cases
  total, drops, \* of the case that runs
  busy,      \* congestion_thread: "none", "sending", "asleep" or "done"
  running,   \* tells the thread to go on
  wait       \* its delay

benchVars == <<stats, total, drops, busy, running, wait>>

Cases == 2 + Len(Delays)
Case == Len(stats) + 1

BenchTypeOK ==
  /\ stats \in Seq([total : 0..MaxSamples, drops : 0..MaxSamples, delay : Nat])
  /\ Len(stats) <= Cases
  /\ total \in 0..MaxSamples /\ drops \in 0..total
  /\ busy \in {"none", "sending", "asleep", "done"}
  /\ running \in BOOLEAN
  /\ wait \in {LongDelay} \cup {Delays[i] : i \in DOMAIN Delays}

BenchInit ==
  /\ stats = <<>> /\ total = 0 /\ drops = 0
  /\ busy = "none" /\ running = TRUE /\ wait = Delays[1]

-----------------------------------------------------------------------------
\* A throw of Run ends in the handler of main; one that unwinds past the
\* joinable std::thread calls std::terminate.
Throw(from) ==
  /\ pc = from
  /\ IF busy = "none" THEN pc' = "done" /\ exit' = 1
                      ELSE pc' = "terminated" /\ exit' = exit
  /\ UNCHANGED <<handler, stopFlag, terminal>>

\* Options, the link, the adapter, the bus, the motor or the scan.
PrepareBench ==
  /\ \/ Goto("parse", "case")
     \/ Throw("parse")
  /\ UNCHANGED benchVars

\* The third case waits for the congestion thread, if there is anything to
\* send to; PrepareCongestionDelay: the first delay is there already.
StartCongestion ==
  /\ Case = 3 /\ busy = "none"
  /\ Goto("case", "settle")
  /\ busy' \in {"none", "sending"}
  /\ UNCHANGED <<stats, total, drops, running, wait>>

BeginCase ==
  /\ Case <= 2
  /\ Goto("case", "sample")
  /\ UNCHANGED benchVars

LongWait ==
  /\ Case > 3 /\ Case <= Cases
  /\ Goto("case", "delay")
  /\ wait' = LongDelay
  /\ UNCHANGED <<stats, total, drops, busy, running>>

SetDelay ==
  /\ Goto("delay", "settle")
  /\ wait' = Delays[Case - 2]
  /\ UNCHANGED <<stats, total, drops, busy, running>>

Settle ==
  /\ Goto("settle", "sample")
  /\ UNCHANGED benchVars

\* Mutation: the rate is checked only once the threshold is passed.
TooManyDropsLate(n, d) ==
  \/ n < MinPackets /\ d > MaxDrops
  \/ n > MinPackets /\ d * RateDen > RateNum * n

TooManyDrops(n, d) ==
  \/ n < MinPackets /\ d > MaxDrops
  \/ n >= MinPackets /\ d * RateDen > RateNum * n

\* The body of bench.run: counted first, and checked only on a drop.
Sample ==
  /\ total < MaxSamples
  /\ total' = total + 1
  /\ \/ drops' = drops /\ Goto("sample", "sample")
     \/ /\ drops' = drops + 1
        /\ IF TooManyDrops(total', drops') THEN Throw("sample") ELSE Goto("sample", "sample")
  /\ UNCHANGED <<stats, busy, running, wait>>

\* nanobench has enough samples (at least one).
EndCase ==
  /\ total > 0
  /\ Goto("sample", IF Case = Cases THEN "stop" ELSE "case")
  /\ stats' = Append(stats, [total |-> total, drops |-> drops, delay |-> wait])
  /\ total' = 0 /\ drops' = 0
  /\ UNCHANGED <<busy, running, wait>>

StopCongestion ==
  /\ Goto("stop", "join")
  /\ running' = FALSE
  /\ UNCHANGED <<stats, total, drops, busy, wait>>

JoinCongestion ==
  /\ busy \in {"none", "done"}
  /\ Return("join", 0)
  /\ UNCHANGED benchVars

\* Every motor is sent a frame, then the thread sleeps.
Congest ==
  /\ ~Ended
  /\ busy = "sending"
  /\ busy' = IF running THEN "asleep" ELSE "done"
  /\ UNCHANGED <<processVars, stats, total, drops, running, wait>>

\* PVTControl throws: nothing catches it in the thread.
CongestThrows ==
  /\ busy = "sending"
  /\ ~Ended
  /\ pc' = "terminated"
  /\ UNCHANGED <<exit, handler, stopFlag, terminal, benchVars>>

Wake ==
  /\ ~Ended
  /\ busy = "asleep"
  /\ busy' = "sending"
  /\ UNCHANGED <<processVars, stats, total, drops, running, wait>>

BenchMain ==
  \/ PrepareBench \/ StartCongestion \/ BeginCase \/ LongWait \/ SetDelay \/ Settle
  \/ Sample \/ EndCase \/ StopCongestion \/ JoinCongestion

CongestionThread == Congest \/ CongestThrows \/ Wake

-----------------------------------------------------------------------------
\* A case that was not given up has no more drops than its options allow
\* before the threshold, or stands within their rate: the rate is not looked
\* at again by the good packets after the last drop, so that a long case may
\* be above it with the drops of a short one. The command succeeds only with
\* the result of every case, each congestion case measured under its own
\* delay. (RunBenchmark, RunBenchCommand)
BenchVerdict ==
  /\ \A i \in DOMAIN stats :
       LET s == stats[i] IN
       \/ s.drops <= MaxDrops
       \/ s.total >= MinPackets /\ s.drops * RateDen <= RateNum * s.total
  /\ \A i \in 3..Len(stats) : stats[i].delay = Delays[i - 2]
  /\ (pc = "done" /\ exit = 0 /\ stats # <<>>) => Len(stats) = Cases
=============================================================================
