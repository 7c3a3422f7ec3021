-------------------------- MODULE MCAudioOverview --------------------------
(* The instances of AudioOverview that TLC checks; the cfg files give the   *)
(* constants their values.                                                  *)
EXTENDS AudioOverview

CONSTANTS r1, r2

=============================================================================
