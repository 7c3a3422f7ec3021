------------------------------- MODULE MCChat -------------------------------
(* The chat for TLC. *)
EXTENDS Chat

CONSTANTS c1, c2

=============================================================================
