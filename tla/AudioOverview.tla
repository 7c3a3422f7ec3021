--------------------------- MODULE AudioOverview ---------------------------
(***************************************************************************)
(* The audio overview of a notebook: overlapping synthesize_overview       *)
(* commands (commands/notebooks.rs), each a dialogue, a synthesis, an      *)
(* atomic replacement of overview.wav and an upsert of the terminal        *)
(* audio_overviews row (lib.rs, audio_overview.rs), while the user stops   *)
(* runs, changes sources, and the process may die.                         *)
(*                                                                         *)
(* A script is identified by the run that made it, the set of selected,    *)
(* live sources it was made for, and the text it was grounded in.  Sets    *)
(* are numbered in the order they come up; without Reselect a set that the *)
(* user leaves is not come back to (a source added or purged), with it a   *)
(* selection may be undone.  The text is what ingest has made of the set:  *)
(* it moves on whenever an ingest of one of its sources ends.  The stored  *)
(* hash is over the ids and the raw_content_hash of the set; the latter is *)
(* fixed when a source is added (for a URL it is the locator's), so the    *)
(* hash identifies the set and says nothing of the text.                   *)
(***************************************************************************)
EXTENDS SingleFlight, Naturals

CONSTANTS
    MaxSets,      \* bound: source sets after the first
    MaxTexts,     \* bound: ingests that end
    MaxCrashes,   \* bound: process deaths
    Reselect,     \* whether an earlier source set may come back
    Failing       \* steps that may fail for a reason other than a cancel

ASSUME OverviewAssumption ==
    /\ MaxSets \in Nat /\ MaxTexts \in Nat /\ MaxCrashes \in Nat
    /\ Reselect \in BOOLEAN

VARIABLES
    pc,        \* where each command call is
    hash,      \* source_set_hash taken at the start of the call
    script,    \* the set and the text the call's script is grounded in
    chosen,    \* the selected, live sources: a set's number
    texts,     \* what ingest has made of them: the number of ingests that ended
    file,      \* overview.wav: the script it speaks, or NoFile
    row,       \* the audio_overviews row, or NoRow
    crashes

callVars == <<pc, hash, script>>
diskVars == <<file, row>>
sourceVars == <<chosen, texts>>
vars == <<flightVars, callVars, diskVars, sourceVars, crashes>>

Sets == 0 .. MaxSets
Texts == 0 .. MaxTexts
Grounding == [on : Sets, text : Texts]
Script == [by : Runs, on : Sets, text : Texts]
NoFile == [by |-> NoRun, on |-> 0, text |-> 0]
Row == [status : {"ready", "failed"}, hash : Sets, script : Script \cup {NoFile}]
NoRow == [status |-> "none", hash |-> 0, script |-> NoFile]

\* The steps between the registration of a run and the drop of its guard.
Registered == {"enter", "dialogue", "synth", "check", "rename", "ready_row",
               "failed_row", "ended"}
Working == {r \in Runs : pc[r] \in Registered}
MyScript(r) == [by |-> r, on |-> script[r].on, text |-> script[r].text]

TypeOK ==
    /\ FlightTypeOK
    /\ pc \in [Runs -> Registered \cup {"idle", "over"}]
    /\ hash \in [Runs -> Sets] /\ script \in [Runs -> Grounding]
    /\ chosen \in Sets /\ texts \in Texts
    /\ file \in Script \cup {NoFile} /\ row \in Row \cup {NoRow}
    /\ crashes \in 0 .. MaxCrashes

Init ==
    /\ FlightInit
    /\ pc = [r \in Runs |-> "idle"]
    /\ hash = [r \in Runs |-> 0]
    /\ script = [r \in Runs |-> [on |-> 0, text |-> 0]]
    /\ chosen = 0 /\ texts = 0 /\ file = NoFile /\ row = NoRow
    /\ crashes = 0

-----------------------------------------------------------------------------
(* The command *)

Goto(r, step) == pc' = [pc EXCEPT ![r] = step]
CallOnly == UNCHANGED <<flightVars, sourceVars, crashes>>

\* No TTS backend: Failed before anything is registered.
NoBackend(r) ==
    /\ pc[r] = "idle" /\ "backend" \in Failing
    /\ Goto(r, "over")
    /\ CallOnly /\ UNCHANGED <<hash, script, diskVars>>

\* register_tts, and the guard.
Start(r) ==
    /\ pc[r] = "idle"
    /\ Register(r)
    /\ Goto(r, "enter")
    /\ UNCHANGED <<hash, script, diskVars, sourceVars, crashes>>

\* The check on entry and the Cancelled arms after dialogue and synthesis.
Cancelled(r) ==
    /\ pc[r] \in {"enter", "dialogue", "synth", "check"} /\ r \in cancelled
    /\ Goto(r, "ended")
    /\ CallOnly /\ UNCHANGED <<hash, script, diskVars>>

\* Of ids and raw_content_hash: the set, not its text.
HashSources(r) ==
    /\ pc[r] = "enter"
    /\ hash' = [hash EXCEPT ![r] = chosen]
    /\ Goto(r, "dialogue")
    /\ CallOnly /\ UNCHANGED <<script, diskVars>>

\* Both providers poll the token and race it with the call (tokio::select!),
\* so a flipped token does not exclude their success.
Dialogue(r) ==
    /\ pc[r] = "dialogue"
    /\ script' = [script EXCEPT ![r] = [on |-> chosen, text |-> texts]]
    /\ Goto(r, "synth")
    /\ CallOnly /\ UNCHANGED <<hash, diskVars>>

Synthesize(r) ==
    /\ pc[r] = "synth"
    /\ Goto(r, "check")
    /\ CallOnly /\ UNCHANGED <<hash, script, diskVars>>

\* Mutant: the row is written before the file is in place.
CheckCancel_RowFirst(r) ==
    /\ pc[r] = "check" /\ r \notin cancelled
    /\ Goto(r, "ready_row")
    /\ CallOnly /\ UNCHANGED <<hash, script, diskVars>>

\* "A late cancel must not leave a Ready overview".
CheckCancel(r) ==
    /\ pc[r] = "check" /\ r \notin cancelled
    /\ Goto(r, "rename")
    /\ CallOnly /\ UNCHANGED <<hash, script, diskVars>>

Rename(r) ==
    /\ pc[r] = "rename"
    /\ file' = MyScript(r)
    /\ Goto(r, "ready_row")
    /\ CallOnly /\ UNCHANGED <<hash, script, row>>

\* Mutant: the hash is taken when the row is written.
UpsertReady_LateHash(r) ==
    /\ pc[r] = "ready_row"
    /\ row' = [status |-> "ready", hash |-> chosen, script |-> MyScript(r)]
    /\ Goto(r, "ended")
    /\ CallOnly /\ UNCHANGED <<hash, script, file>>

UpsertReady(r) ==
    /\ pc[r] = "ready_row"
    /\ row' = [status |-> "ready", hash |-> hash[r], script |-> MyScript(r)]
    /\ Goto(r, "ended")
    /\ CallOnly /\ UNCHANGED <<hash, script, file>>

\* An error that is not Cancelled, from dialogue or synthesis (which includes
\* the write and the rename): a failed row is to be persisted.
Fail(r) ==
    /\ pc[r] \in {"dialogue", "synth", "rename"} \cap Failing
    /\ Goto(r, "failed_row")
    /\ CallOnly /\ UNCHANGED <<hash, script, diskVars>>

\* Mutant: a derived status reaches the table.
UpsertFailed_Stale(r) ==
    /\ pc[r] = "failed_row"
    /\ row' = [status |-> "stale", hash |-> hash[r], script |-> NoFile]
    /\ Goto(r, "ended")
    /\ CallOnly /\ UNCHANGED <<hash, script, file>>

UpsertFailed(r) ==
    /\ pc[r] = "failed_row"
    /\ row' = [status |-> "failed", hash |-> hash[r], script |-> NoFile]
    /\ Goto(r, "ended")
    /\ CallOnly /\ UNCHANGED <<hash, script, file>>

\* A database error on the hash or on an upsert leaves with `?`.
DatabaseError(r) ==
    /\ pc[r] \in {"enter", "ready_row", "failed_row"} \cap Failing
    /\ Goto(r, "ended")
    /\ CallOnly /\ UNCHANGED <<hash, script, diskVars>>

\* Mutant: a path that forgets the guard.
DropGuard_Keeps(r) ==
    /\ pc[r] = "ended"
    /\ Goto(r, "over")
    /\ CallOnly /\ UNCHANGED <<hash, script, diskVars>>

DropGuard(r) ==
    /\ pc[r] = "ended"
    /\ Release(r)
    /\ Goto(r, "over")
    /\ UNCHANGED <<hash, script, diskVars, sourceVars, crashes>>

-----------------------------------------------------------------------------
(* The user and the environment *)

CancelSynthesis ==
    /\ CancelSlot
    /\ UNCHANGED <<callVars, diskVars, sourceVars, crashes>>

ChangeSources ==
    /\ \E n \in Sets \ {chosen} : (n > chosen \/ Reselect) /\ chosen' = n
    /\ UNCHANGED <<flightVars, callVars, diskVars, texts, crashes>>

\* A queued source of the set becomes indexed, or one is ingested again (a page
\* fetched anew, a parser's second try): the chunks that ground a script change,
\* raw_content_hash does not.
IngestEnds ==
    /\ texts < MaxTexts /\ texts' = texts + 1
    /\ UNCHANGED <<flightVars, callVars, diskVars, chosen, crashes>>

Crash ==
    /\ crashes < MaxCrashes
    /\ crashes' = crashes + 1
    /\ slot' = NoRun
    /\ pc' = [r \in Runs |-> IF pc[r] \in Registered THEN "over" ELSE pc[r]]
    /\ UNCHANGED <<cancelled, hash, script, diskVars, sourceVars>>

Step(r) ==
    \/ Cancelled(r) \/ HashSources(r) \/ Dialogue(r) \/ Synthesize(r) \/ CheckCancel(r)
    \/ Rename(r) \/ UpsertReady(r) \/ Fail(r) \/ UpsertFailed(r) \/ DatabaseError(r)
    \/ DropGuard(r)

Next ==
    \/ \E r \in Runs : NoBackend(r) \/ Start(r) \/ Step(r)
    \/ CancelSynthesis \/ ChangeSources \/ IngestEnds \/ Crash

Spec == Init /\ [][Next]_vars

\* Every provider call ends: each task that can go on does.
FairSpec == Spec /\ \A r \in Runs : WF_vars(Step(r))

\* get_audio_overview_status
Reported ==
    IF row.status # "ready" THEN row.status
    ELSE IF file = NoFile THEN "missing"
    ELSE IF row.hash # chosen THEN "stale" ELSE "ready"

-----------------------------------------------------------------------------
(* Properties *)

\* lib.rs, ask_cancel_tokens: "a superseded old ask's guard never evicts the
\* new ask's token (ABA-safe)".  The run that still works has its token in the
\* map, so the stop button reaches it and a reopened notebook shows it; and no
\* two runs work side by side uncancelled.
LiveIsRegistered ==
    /\ \A r \in Working \ cancelled : slot = r
    /\ Generating => slot \in Working

\* synthesize_overview: "a crash mid-write never leaves a torn overview.wav that
\* a ready row would point at".
ReadyHasFile == row.status = "ready" => file # NoFile

\* get_audio_overview_status: the hash stored by a run was read before the run's
\* dialogue, so a change of the set at any moment of the run, or after it, shows:
\* an overview reported as ready was made for the set the notebook has now.
ReadyIsChosen == Reported = "ready" => row.script.on = chosen

\* source_set_hash: "Order-independent hash over the selected + live source set
\* (the exact grounding set the dialogue is built from) [...] stored so a later
\* source change surfaces as a `Stale` overview": what is reported as ready
\* speaks about the text the sources have now.
ReadyIsCurrent == Reported = "ready" => row.script.text = texts

\* A run's token leaves the map: no run blocks is_overview_generating for ever.
SlotFreed == \A r \in Runs : slot = r ~> slot # r

\* AudioOverviewRecord: "The dialogue script the audio was synthesized from":
\* outside the window of a run that has replaced the file and not yet the row,
\* the transcript of a ready row is that of the audio.
TranscriptMatches ==
    row.status = "ready" /\ (\A r \in Runs : pc[r] # "ready_row") => row.script = file

=============================================================================
