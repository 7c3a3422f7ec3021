----------------------------- MODULE MCDownload -----------------------------
(* The instances of Download that TLC checks.                               *)
EXTENDS Download

CONSTANTS c1, c2

=============================================================================
