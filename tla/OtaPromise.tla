----------------------------- MODULE OtaPromise -----------------------------
(***************************************************************************)
(* What `emcli config <cdc port> download` promises (README, one-click     *)
(* firmware download): it succeeds only if the new firmware runs confirmed *)
(* in the other slot. A failure says nothing: the board may still install  *)
(* the image after the command gave up.                                    *)
(***************************************************************************)
VARIABLES
  running,  \* the firmware the gateway runs confirmed: "before" or "new"
  outcome   \* of the command: "none" yet, "ok" (exit code 0) or "error"

vars == <<running, outcome>>

Init == running = "before" /\ outcome = "none"

\* The board confirms the new firmware, in its own time.
Confirm ==
  /\ running = "before"
  /\ running' = "new"
  /\ UNCHANGED outcome

Succeed ==
  /\ outcome = "none"
  /\ running = "new"
  /\ outcome' = "ok"
  /\ UNCHANGED running

Fail ==
  /\ outcome = "none"
  /\ outcome' = "error"
  /\ UNCHANGED running

Next == Confirm \/ Succeed \/ Fail

Spec == Init /\ [][Next]_vars

=============================================================================
