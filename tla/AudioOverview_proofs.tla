------------------------ MODULE AudioOverview_proofs ------------------------
(***************************************************************************)
(* For any number of runs, source changes and process deaths, with every   *)
(* step allowed to fail: the registry of the audio overview always holds   *)
(* the token of the run that works, a ready row has its file, and, if no   *)
(* selection is undone, what is shown as ready was made for the present    *)
(* set of sources.                                                         *)
(***************************************************************************)
EXTENDS AudioOverview, TLAPS

\* A run that is about to write its ready row has put its file in place.
FileInPlace == (row.status = "ready" \/ \E r \in Runs : pc[r] = "ready_row")
                 => file # NoFile

\* The hash is older than the script's set, and that older than the present one.
Scripted == {"synth", "check", "rename", "ready_row"}
AgeInv ==
    /\ \A r \in Runs : pc[r] = "dialogue" => hash[r] <= chosen
    /\ \A r \in Runs : pc[r] \in Scripted => hash[r] <= script[r].on /\ script[r].on <= chosen
    /\ row.status = "ready" => row.hash <= row.script.on /\ row.script.on <= chosen

Inv == TypeOK /\ LiveIsRegistered /\ FileInPlace /\ (~Reselect => AgeInv)

\* No script of a run is the absent file.
LEMMA ScriptIsFile == \A r \in Runs : MyScript(r) # NoFile
BY RunAssumption DEF MyScript, NoFile

\* Every action of the command, the user and the environment keeps the types.
LEMMA TypeStep == TypeOK /\ [Next]_vars => TypeOK'
<1> SUFFICES ASSUME TypeOK, [Next]_vars PROVE TypeOK'
  OBVIOUS
<1> USE OverviewAssumption, RunAssumption
    DEF TypeOK, FlightTypeOK, Goto, CallOnly, flightVars, callVars, diskVars, sourceVars,
        Sets, Texts, Grounding, Registered
<1>1. ASSUME NEW r \in Runs, NoBackend(r) \/ Start(r) PROVE TypeOK'
  <2>1. CASE NoBackend(r)
    BY <2>1 DEF NoBackend
  <2>2. CASE Start(r)
    BY <2>2 DEF Start, Register
  <2> QED BY <1>1, <2>1, <2>2
<1>2. ASSUME NEW r \in Runs, Step(r) PROVE TypeOK'
  <2> DEFINE Rows == Row \cup {NoRow}
             Files == Script \cup {NoFile}
  <2>0. ASSUME NEW rw, rw = [status |-> "ready", hash |-> hash[r], script |-> MyScript(r)]
               \/ rw = [status |-> "failed", hash |-> hash[r], script |-> NoFile]
        PROVE rw \in Row
    BY <2>0 DEF Row, Script, MyScript
  <2>1. CASE Cancelled(r) \/ HashSources(r) \/ Dialogue(r)
    BY <2>1 DEF Cancelled, HashSources, Dialogue
  <2>2. CASE Synthesize(r) \/ CheckCancel(r) \/ Fail(r) \/ DatabaseError(r)
    BY <2>2 DEF Synthesize, CheckCancel, Fail, DatabaseError
  <2>3. CASE Rename(r)
    <3>1. file' \in Script
      BY <2>3 DEF Rename, Script, MyScript
    <3> QED BY <2>3, <3>1 DEF Rename
  <2>4. CASE UpsertReady(r) \/ UpsertFailed(r)
    <3>1. row' \in Row
      BY <2>0, <2>4 DEF UpsertReady, UpsertFailed
    <3> QED BY <2>4, <3>1 DEF UpsertReady, UpsertFailed
  <2>5. CASE DropGuard(r)
    BY <2>5 DEF DropGuard, Release
  <2> QED BY <1>2, <2>1, <2>2, <2>3, <2>4, <2>5 DEF Step
<1>3. CASE CancelSynthesis
  BY <1>3 DEF CancelSynthesis, CancelSlot
<1>4. CASE ChangeSources \/ IngestEnds
  BY <1>4 DEF ChangeSources, IngestEnds
<1>5. CASE Crash
  BY <1>5 DEF Crash
<1>6. CASE UNCHANGED vars
  BY <1>6 DEF vars
<1> QED BY <1>1, <1>2, <1>3, <1>4, <1>5, <1>6 DEF Next

\* The map changes hands only at a registration, and is emptied only by the
\* guard of the run it names or with the process.
LEMMA FlightStep == TypeOK /\ LiveIsRegistered /\ [Next]_vars => LiveIsRegistered'
<1> SUFFICES ASSUME TypeOK, LiveIsRegistered, [Next]_vars PROVE LiveIsRegistered'
  OBVIOUS
<1> USE RunAssumption
    DEF TypeOK, FlightTypeOK, Goto, CallOnly, flightVars, callVars, diskVars, sourceVars,
        LiveIsRegistered, Working, Registered, Generating
<1>1. ASSUME NEW r \in Runs, NoBackend(r) PROVE LiveIsRegistered'
  BY <1>1 DEF NoBackend
<1>2. ASSUME NEW r \in Runs, Start(r) PROVE LiveIsRegistered'
  BY <1>2 DEF Start, Register
<1>3. ASSUME NEW r \in Runs, Step(r) PROVE LiveIsRegistered'
  <2>1. CASE DropGuard(r)
    BY <2>1 DEF DropGuard, Release
  <2>2. CASE ~DropGuard(r)
    <3>1. /\ UNCHANGED flightVars
          /\ \E s \in Registered : pc' = [pc EXCEPT ![r] = s]
          /\ pc[r] \in Registered
      BY <1>3, <2>2 DEF Step, Cancelled, HashSources, Dialogue, Synthesize, CheckCancel,
         Rename, UpsertReady, Fail, UpsertFailed, DatabaseError
    <3> QED BY <3>1
  <2> QED BY <2>1, <2>2
<1>4. CASE CancelSynthesis
  BY <1>4 DEF CancelSynthesis, CancelSlot
<1>5. CASE ChangeSources \/ IngestEnds
  BY <1>5 DEF ChangeSources, IngestEnds
<1>6. CASE Crash
  BY <1>6 DEF Crash
<1>7. CASE UNCHANGED vars
  BY <1>7 DEF vars
<1> QED BY <1>1, <1>2, <1>3, <1>4, <1>5, <1>6, <1>7 DEF Next

\* overview.wav is replaced, never removed, and each ready row comes after it.
LEMMA FileStep == TypeOK /\ FileInPlace /\ [Next]_vars => FileInPlace'
<1> SUFFICES ASSUME TypeOK, FileInPlace, [Next]_vars PROVE FileInPlace'
  OBVIOUS
<1> USE DEF TypeOK, Goto, CallOnly, flightVars, callVars, diskVars, sourceVars, FileInPlace,
            Registered
<1>1. ASSUME NEW r \in Runs, NoBackend(r) \/ Start(r) PROVE FileInPlace'
  BY <1>1 DEF NoBackend, Start
<1>2. ASSUME NEW r \in Runs, Step(r) PROVE FileInPlace'
  <2>1. CASE Rename(r)
    BY <2>1, ScriptIsFile DEF Rename
  <2>2. CASE UpsertReady(r)
    BY <2>2 DEF UpsertReady
  <2>3. CASE UpsertFailed(r)
    BY <2>3 DEF UpsertFailed
  <2>4. CASE ~(Rename(r) \/ UpsertReady(r) \/ UpsertFailed(r))
    <3>1. /\ UNCHANGED diskVars
          /\ \E s \in (Registered \cup {"over"}) \ {"ready_row"} : pc' = [pc EXCEPT ![r] = s]
      BY <1>2, <2>4 DEF Step, Cancelled, HashSources, Dialogue, Synthesize, CheckCancel,
         Fail, DatabaseError, DropGuard
    <3> QED BY <3>1
  <2> QED BY <2>1, <2>2, <2>3, <2>4
<1>3. CASE CancelSynthesis \/ ChangeSources \/ IngestEnds
  BY <1>3 DEF CancelSynthesis, ChangeSources, IngestEnds
<1>4. CASE Crash
  BY <1>4 DEF Crash
<1>5. CASE UNCHANGED vars
  BY <1>5 DEF vars
<1> QED BY <1>1, <1>2, <1>3, <1>4, <1>5 DEF Next

\* The hash is taken before the script, and sets only grow in number.
LEMMA AgeStep == ~Reselect /\ TypeOK /\ AgeInv /\ [Next]_vars => AgeInv'
<1> SUFFICES ASSUME ~Reselect, TypeOK, AgeInv, [Next]_vars PROVE AgeInv'
  OBVIOUS
<1> USE OverviewAssumption
    DEF TypeOK, Goto, CallOnly, flightVars, callVars, diskVars, sourceVars, AgeInv, Scripted,
        Registered, Sets, Texts, Grounding
<1>0. row.status = "ready" => row.hash \in Nat /\ row.script.on \in Nat
  BY DEF Row, NoRow, Script, NoFile
<1>1. ASSUME NEW r \in Runs, NoBackend(r) \/ Start(r) PROVE AgeInv'
  BY <1>1 DEF NoBackend, Start
<1>2. ASSUME NEW r \in Runs, Step(r) PROVE AgeInv'
  <2>1. CASE HashSources(r)
    BY <2>1 DEF HashSources
  <2>2. CASE Dialogue(r)
    BY <2>2 DEF Dialogue
  <2>3. CASE UpsertReady(r)
    BY <2>3 DEF UpsertReady, MyScript
  <2>4. CASE UpsertFailed(r)
    BY <2>4 DEF UpsertFailed
  <2>5. CASE Synthesize(r) \/ CheckCancel(r)
    BY <2>5 DEF Synthesize, CheckCancel
  <2>6. CASE Rename(r)
    BY <2>6 DEF Rename
  <2>7. CASE Cancelled(r) \/ Fail(r) \/ DatabaseError(r)
    BY <2>7 DEF Cancelled, Fail, DatabaseError
  <2>8. CASE DropGuard(r)
    BY <2>8 DEF DropGuard
  <2> QED BY <1>2, <2>1, <2>2, <2>3, <2>4, <2>5, <2>6, <2>7, <2>8 DEF Step
<1>3. CASE CancelSynthesis \/ IngestEnds
  BY <1>3 DEF CancelSynthesis, IngestEnds
<1>4. CASE ChangeSources
  BY <1>0, <1>4 DEF ChangeSources
<1>5. CASE Crash
  BY <1>5 DEF Crash
<1>6. CASE UNCHANGED vars
  BY <1>6 DEF vars
<1> QED BY <1>1, <1>2, <1>3, <1>4, <1>5, <1>6 DEF Next

\* The conjunction is inductive.
LEMMA Inductive == Spec => []Inv
<1>1. Init => Inv
  BY OverviewAssumption, RunAssumption
  DEF Init, Inv, TypeOK, FlightTypeOK, FlightInit, Sets, Texts, Grounding, Registered, LiveIsRegistered,
      Working, Generating, FileInPlace, AgeInv, Scripted, NoRow
<1>2. Inv /\ [Next]_vars => Inv'
  BY TypeStep, FlightStep, FileStep, AgeStep DEF Inv
<1> QED BY <1>1, <1>2, PTL DEF Spec

\* Registry, files, row and history keep their types in every run of the
\* command.
THEOREM OverviewTyped == Spec => []TypeOK
<1>1. Inv => TypeOK
  BY DEF Inv
<1> QED BY Inductive, <1>1, PTL

\* register_tts, cancel_synthesis and the ptr_eq guard, however the runs of a
\* notebook overlap, fail and are stopped: the map holds the token of the one
\* run that works uncancelled.
THEOREM SingleFlightSafe == Spec => []LiveIsRegistered
<1>1. Inv => LiveIsRegistered
  BY DEF Inv
<1> QED BY Inductive, <1>1, PTL

\* generate_and_persist_overview: no order of overlapping runs, failures and
\* process deaths leaves a ready row without its file.
THEOREM ReadyFileExists == Spec => []ReadyHasFile
<1>1. Inv => ReadyHasFile
  BY DEF Inv, FileInPlace, ReadyHasFile
<1> QED BY Inductive, <1>1, PTL

\* get_audio_overview_status: the stored hash was read before the dialogue, so
\* what it calls ready was made for the present set of sources, unless a
\* selection is undone (Reselect).  It says nothing of the text: ingests of the
\* sources may end between any two steps, and the hash does not move.
THEOREM ReadyChosenAlways ==
    ASSUME ~Reselect
    PROVE  Spec => []ReadyIsChosen
<1>1. Inv => ReadyIsChosen
  <2> SUFFICES ASSUME Inv, Reported = "ready" PROVE row.script.on = chosen
    BY DEF ReadyIsChosen
  <2>1. row.status = "ready" /\ row.hash = chosen
    BY DEF Reported
  <2>2. row.script.on \in Nat /\ chosen \in Nat
    BY <2>1, OverviewAssumption DEF Inv, TypeOK, Row, NoRow, Script, NoFile, Sets
  <2> QED BY <2>1, <2>2 DEF Inv, AgeInv
<1> QED BY Inductive, <1>1, PTL

=============================================================================
