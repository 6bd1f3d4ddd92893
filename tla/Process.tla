------------------------------- MODULE Process -------------------------------
(***************************************************************************)
(* What the subcommands of emcli share: one main thread with its exit      *)
(* code, SIGINT and its handler, and the terminal. main.cc, imu.cc,        *)
(* battery.cc, pms.cc and glove.cc each have the same flag, handler and    *)
(* SignalGuard; stress.cc has a flag and installs its handler for good.    *)
(***************************************************************************)
EXTENDS Naturals, FiniteSets

CONSTANT Motors  \* the motors on the buses

\* A bus has finitely many ids.
ASSUME MotorsAssumption == IsFiniteSet(Motors)

VARIABLES
  pc,        \* where the main thread is
  exit,      \* the exit code once pc = "done"
  handler,   \* what SIGINT does: "default" kills, "flag" runs the handler
  stopFlag,  \* g_stop_requested
  terminal   \* "cooked", "raw", or the "alternate" screen

processVars == <<pc, exit, handler, stopFlag, terminal>>

ProcessTypeOK ==
  /\ exit \in {0, 1}
  /\ handler \in {"default", "flag"}
  /\ stopFlag \in BOOLEAN
  /\ terminal \in {"cooked", "raw", "alternate"}

ProcessInit ==
  /\ pc = "parse"
  /\ exit = 0
  /\ handler = "default"
  /\ stopFlag = FALSE
  /\ terminal = "cooked"

\* The process is gone: by return, by SIGINT, or by std::terminate.
Ended == pc \in {"done", "killed", "terminated"}

Goto(from, to) ==
  /\ pc = from
  /\ pc' = to
  /\ UNCHANGED <<exit, handler, stopFlag, terminal>>

\* return code;
Return(from, code) ==
  /\ pc = from
  /\ pc' = "done"
  /\ exit' = code
  /\ UNCHANGED <<handler, stopFlag, terminal>>

\* Ctrl-C. The terminal stays as it was when the default action kills.
Interrupt ==
  /\ ~Ended
  /\ IF handler = "flag" THEN stopFlag' = TRUE /\ pc' = pc
                         ELSE stopFlag' = stopFlag /\ pc' = "killed"
  /\ UNCHANGED <<exit, handler, terminal>>

-----------------------------------------------------------------------------
(* The loops that show or drive until Ctrl-C or q (control, imu, battery,  *)
(* pms and glove). The locals are made in the order flag, guard, raw mode  *)
(* and destroyed in the reverse order, by return and by exception alike.   *)

ClearFlag ==
  /\ pc = "clear"
  /\ stopFlag' = FALSE
  /\ pc' = "guard"
  /\ UNCHANGED <<exit, handler, terminal>>

\* Mutation: the loop runs without the guard.
SkipGuard ==
  /\ pc = "guard"
  /\ pc' = "raw"
  /\ UNCHANGED <<exit, handler, stopFlag, terminal>>

InstallGuard ==
  /\ pc = "guard"
  /\ handler' = "flag"
  /\ pc' = "raw"
  /\ UNCHANGED <<exit, stopFlag, terminal>>

\* Without an interactive stdin, or when tcsetattr fails, nothing changes.
EnterRaw ==
  /\ pc = "raw"
  /\ terminal' \in {"raw", terminal}
  /\ pc' = "loop"
  /\ UNCHANGED <<exit, handler, stopFlag>>

\* Leaves the loop from pc = from with the exit code decided.
LeaveLoop(from, code) ==
  /\ pc = from
  /\ pc' = "cook"
  /\ exit' = code
  /\ UNCHANGED <<handler, stopFlag, terminal>>

Cook ==
  /\ pc = "cook"
  /\ terminal' = "cooked"
  /\ pc' = "unguard"
  /\ UNCHANGED <<exit, handler, stopFlag>>

\* The previous handler comes back.
RemoveGuard ==
  /\ pc = "unguard"
  /\ handler' = "default"
  /\ pc' = "done"
  /\ UNCHANGED <<exit, stopFlag, terminal>>

Bracket == ClearFlag \/ InstallGuard \/ EnterRaw \/ Cook \/ RemoveGuard
=============================================================================
