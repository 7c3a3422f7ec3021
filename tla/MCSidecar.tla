------------------------------ MODULE MCSidecar ------------------------------
(* The instances of Sidecar that TLC checks.                                *)
EXTENDS Sidecar

CONSTANTS t1, t2, t3, p1, p2

=============================================================================
