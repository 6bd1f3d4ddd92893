---------------------------- MODULE MCMotorScan ----------------------------
(***************************************************************************)
(* MotorScan on two adapters: a1 with one bus, named on the command line,  *)
(* and a2 with two buses (one in the smaller instances), added through the *)
(* dialog.                                                                 *)
(***************************************************************************)
EXTENDS MotorScan

CONSTANTS a1, a2, b1, b2, b3

MCAdapterOf == [b \in Buses |-> IF b = b1 THEN a1 ELSE a2]

=============================================================================
