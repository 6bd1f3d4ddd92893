--------------------------- MODULE MCOtaDownload ---------------------------
(***************************************************************************)
(* OtaDownload with the gateway to update and one more on the computer,    *)
(* and two places where a volume may be mounted.                           *)
(***************************************************************************)
EXTENDS OtaDownload

CONSTANTS g1, g2, p1, p2

=============================================================================
