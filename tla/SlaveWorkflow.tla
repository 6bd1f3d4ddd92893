--------------------------- MODULE SlaveWorkflow ---------------------------
(***************************************************************************)
(* What `emcli config <slave> <item> set <value>` promises of its three    *)
(* commands, whatever the transport (README, slave configuration): the     *)
(* board carries out SET, CONFIG SAVE and REBOOT in this order, none       *)
(* before the one in front of it succeeded, and the exit code is 0 only    *)
(* when all of them did. A failure says nothing of the command last sent:  *)
(* it may have been carried out, or be carried out later. REBOOT counts as *)
(* carried out when the board has accepted it: nobody waits for the board  *)
(* to come back. Then the user may run emcli again.                        *)
(***************************************************************************)
EXTENDS Naturals

CONSTANT Length   \* the number of commands

VARIABLES
  executed,  \* the commands of this emcli the board carried out, by their place
  outcome    \* of emcli: "none" yet, "ok" (exit code 0) or "error"

vars == <<executed, outcome>>

Init == executed = {} /\ outcome = "none"

Execute ==
  /\ \E c \in 1..Length : executed = 1..(c - 1) /\ executed' = 1..c
  /\ UNCHANGED outcome

Succeed ==
  /\ outcome = "none"
  /\ executed = 1..Length
  /\ outcome' = "ok"
  /\ UNCHANGED executed

Fail ==
  /\ outcome = "none"
  /\ outcome' = "error"
  /\ UNCHANGED executed

Again ==
  /\ outcome # "none"
  /\ executed' = {}
  /\ outcome' = "none"

Next == Execute \/ Succeed \/ Fail \/ Again

Spec == Init /\ [][Next]_vars

=============================================================================
