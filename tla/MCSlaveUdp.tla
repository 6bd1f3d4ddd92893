----------------------------- MODULE MCSlaveUdp -----------------------------
(***************************************************************************)
(* SlaveUdp with the board to configure and one more on the network.       *)
(***************************************************************************)
EXTENDS SlaveUdp

CONSTANTS b1, b2

=============================================================================
