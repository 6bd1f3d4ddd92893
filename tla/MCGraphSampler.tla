--------------------------- MODULE MCGraphSampler ---------------------------
(***************************************************************************)
(* GraphSampler with two graph types.                                      *)
(***************************************************************************)
EXTENDS GraphSampler

=============================================================================
