----------------------------- MODULE MCSlaveCdc -----------------------------
(***************************************************************************)
(* SlaveCdc with emcli run a few times in a row on one port.               *)
(***************************************************************************)
EXTENDS SlaveCdc

=============================================================================
