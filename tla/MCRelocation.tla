---------------------------- MODULE MCRelocation ----------------------------
(* The instances of Relocation that TLC checks.                             *)
EXTENDS Relocation

CONSTANTS a, b, c, talk, doc, voice

=============================================================================
