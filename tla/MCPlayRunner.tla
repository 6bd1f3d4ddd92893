---------------------------- MODULE MCPlayRunner ----------------------------
(***************************************************************************)
(* PlayRunner with two motors and phases of one and two ticks.             *)
(***************************************************************************)
EXTENDS PlayRunner

CONSTANTS m1, m2

=============================================================================
