------------------------- MODULE MCControlRuntime -------------------------
(* ControlRuntime with two motors, two modes and three selections: enough  *)
(* for a selection, a switch and a switch back to the first motor.         *)
EXTENDS ControlRuntime
=============================================================================
