-------------------------- MODULE MCIndexLifecycle --------------------------
(* The instances of IndexLifecycle that TLC checks; the cfg files give the  *)
(* constants their values.                                                  *)
EXTENDS IndexLifecycle, TLC

\* Coordinates and switch commands are interchangeable: no definition names one.
Symmetry == Permutations(Coords) \cup Permutations(Switchers)

=============================================================================
