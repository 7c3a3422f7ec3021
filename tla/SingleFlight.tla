---------------------------- MODULE SingleFlight ----------------------------
(***************************************************************************)
(* One key of a single-flight cancellation registry of LensEngine (lib.rs: *)
(* ask_cancel_tokens, dialogue_cancel_tokens, tts_cancel_tokens).  The     *)
(* three have the same code; entries of different notebooks share nothing  *)
(* but the mutex, which every operation holds from its first line to its   *)
(* last.  A run is a command call; its token is an Arc of its own, so a    *)
(* run and its token are the same thing here.                              *)
(***************************************************************************)
CONSTANTS
    Runs,     \* command calls on this notebook
    NoRun     \* "no entry"

ASSUME RunAssumption == NoRun \notin Runs

VARIABLES
    slot,        \* the run whose token the map holds
    cancelled    \* the runs whose token is flipped

flightVars == <<slot, cancelled>>

FlightTypeOK == slot \in Runs \cup {NoRun} /\ cancelled \subseteq Runs
FlightInit == slot = NoRun /\ cancelled = {}

\* map.insert, then prev.cancel().
Register(r) ==
    /\ slot' = r
    /\ cancelled' = cancelled \cup ({slot} \ {NoRun})

\* The stop button: the token stays in the map.
CancelSlot ==
    /\ slot # NoRun
    /\ cancelled' = cancelled \cup {slot}
    /\ slot' = slot

\* Mutant: the guard removes whatever the map holds.
Release_Any(r) == slot' = NoRun /\ cancelled' = cancelled

\* Drop of the guard: only the run's own token is removed (Arc::ptr_eq).
Release(r) ==
    /\ slot' = IF slot = r THEN NoRun ELSE slot
    /\ cancelled' = cancelled

\* is_overview_generating: a flipped token counts as not generating.
Generating == slot # NoRun /\ slot \notin cancelled

=============================================================================
