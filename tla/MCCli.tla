-------------------------------- MODULE MCCli --------------------------------
(***************************************************************************)
(* Cli with two motors, on two buses for config, control and scan and on   *)
(* two adapters for stress; two delays stand for the five of bench.        *)
(***************************************************************************)
EXTENDS Cli, TLC

CONSTANTS m1, m2, a1, a2

MCAdapterOf == (m1 :> a1) @@ (m2 :> a2)
MCDelays == <<10, 5>>
=============================================================================
