------------------------------- MODULE Sidecar -------------------------------
(***************************************************************************)
(* The Qwen TTS sidecar: the warm child that all overviews share           *)
(* (qwen/mod.rs, under synthesize_and_stitch), its one-shot download and   *)
(* the coordinator of that (qwen/prepare.rs, qwen/coordinator.rs), and the *)
(* signal handler of main.rs on a thread of its own.  The Python process   *)
(* is external and is modelled from what the host sends and reads.         *)
(*                                                                         *)
(* A turn is one call of synthesize_turn, and stands for its request id    *)
(* too: next_id only ever grows.  Its future may be dropped at any await   *)
(* (synthesize_and_stitch selects on the cancel token).                    *)
(***************************************************************************)
EXTENDS ProcessGroups, Naturals, Sequences, FiniteSets

CONSTANTS
    Turns, Prepares, \* calls of synthesize_turn and of prepare_qwen_model
    NoCall, NoGroup

ASSUME SidecarAssumption ==
    /\ Turns \cap Prepares = {} /\ NoCall \notin Turns \cup Prepares
    /\ IsFiniteSet(Turns) /\ IsFiniteSet(Prepares)
    /\ Cardinality(Groups) \in Nat /\ Groups = 1 .. Cardinality(Groups) /\ NoGroup = 0

VARIABLES
    turn, prepare,   \* the calls
    lock, cell,      \* the child Mutex: its holder, the group of the child in it
    pipe,            \* each group's stdin and stdout
    wavs,            \* temporary files, named after the turn
    lostWavs,        \* history: files whose reply was torn or went with its child
    gate, slot,      \* QwenPrepareCoordinator
    flipped,         \* prepares whose token has been cancelled
    snapshot,        \* qwen_snapshot_present
    spawns,          \* groups launched
    app              \* "up", or "swept" or "gone" once a signal came

callVars == <<turn, prepare>>
hostVars == <<lock, cell, pipe, wavs, lostWavs>>
prepareVars == <<gate, slot, flipped, snapshot>>
vars == <<groupVars, callVars, hostVars, prepareVars, spawns, app>>

TurnStages == {"idle", "lock", "resolve", "spawned", "handshake", "write", "read", "kill", "over"}
PrepareStages == {"idle", "gate", "resolve", "spawned", "read", "kill", "reap", "over"}
\* An error and a cancelled call end alike.
Results == {"none", "ok", "failed"}
\* A line on a child's stdout: ready, a reply (ok or not) to a turn, the tail of
\* a reply whose beginning a dropped read has consumed, progress and done.
Lines == [kind : {"ready", "wav", "refused", "tail", "done", "failed"}, of : Turns \cup {NoCall}]
Line(kind, t) == [kind |-> kind, of |-> t]
NoPipe == [in |-> <<>>, torn |-> FALSE, out |-> <<>>]

TypeOK ==
    /\ GroupsTypeOK
    /\ turn \in [Turns -> [at : TurnStages, group : Groups \cup {NoGroup}, result : Results,
                           heard : Turns \cup {NoCall}]]
    /\ prepare \in [Prepares -> [at : PrepareStages, group : Groups \cup {NoGroup}]]
    /\ lock \in Turns \cup {NoCall} /\ cell \in Groups \cup {NoGroup}
    /\ \A t \in Turns :
          (turn[t].group # NoGroup)
              <=> turn[t].at \in {"spawned", "handshake", "write", "read", "kill"}
    /\ \A g \in Groups : /\ pipe[g].in \in Seq(Turns \cup {NoCall}) /\ pipe[g].torn \in BOOLEAN
                         /\ pipe[g].out \in Seq(Lines)
    /\ wavs \subseteq Turns /\ lostWavs \subseteq Turns
    /\ gate \in Prepares \cup {NoCall} /\ slot \in Prepares \cup {NoCall}
    /\ flipped \subseteq Prepares /\ snapshot \in BOOLEAN
    /\ spawns \in 0 .. Cardinality(Groups) /\ app \in {"up", "swept", "gone"}

Init ==
    /\ GroupsInit
    /\ turn = [t \in Turns |-> [at |-> "idle", group |-> NoGroup, result |-> "none",
                                heard |-> NoCall]]
    /\ prepare = [p \in Prepares |-> [at |-> "idle", group |-> NoGroup]]
    /\ lock = NoCall /\ cell = NoGroup /\ pipe = [g \in Groups |-> NoPipe]
    /\ wavs = {} /\ lostWavs = {}
    /\ gate = NoCall /\ slot = NoCall /\ flipped = {} /\ snapshot = FALSE
    /\ spawns = 0 /\ app = "up"

Running == app # "gone"
TurnAt(t, stage) == Running /\ turn[t].at = stage
PrepareAt(p, stage) == Running /\ prepare[p].at = stage
TurnGoes(t, stage) == turn' = [turn EXCEPT ![t].at = stage]
PrepareGoes(p, stage) == prepare' = [prepare EXCEPT ![p].at = stage]

\* Bound: a call begins only while every call under way can still spawn.
SpawnsLeft ==
    spawns + Cardinality({t \in Turns : turn[t].at \in {"lock", "resolve", "write", "read"}})
           + Cardinality({p \in Prepares : prepare[p].at \in {"gate", "resolve"}})
        < Cardinality(Groups)

-----------------------------------------------------------------------------
(* QwenSidecar::synthesize_turn *)

PrepareSide == UNCHANGED <<prepare, prepareVars, app>>

\* A cancelled token or a voice that does not resolve ends the call here.
BeginTurn(t) ==
    /\ TurnAt(t, "idle") /\ SpawnsLeft
    /\ TurnGoes(t, "lock")
    /\ PrepareSide /\ UNCHANGED <<groupVars, hostVars, spawns>>

\* spawn_locked, or the warm child.  (ready is TRUE exactly when the cell is
\* full, so the check after spawn_locked never respawns.)
LockChild(t) ==
    /\ TurnAt(t, "lock") /\ lock = NoCall
    /\ lock' = t
    /\ turn' = [turn EXCEPT ![t].at = IF cell = NoGroup THEN "resolve" ELSE "write",
                            ![t].group = cell]
    /\ PrepareSide /\ UNCHANGED <<groupVars, cell, pipe, wavs, lostWavs, spawns>>

\* The end of a call with nothing to kill: the guard is dropped.
Ends(t, result) ==
    /\ turn' = [turn EXCEPT ![t].at = "over", ![t].group = NoGroup, ![t].result = result]
    /\ lock' = NoCall

ResolveFails(t) ==
    /\ TurnAt(t, "resolve")
    /\ Ends(t, "failed")
    /\ PrepareSide /\ UNCHANGED <<groupVars, cell, pipe, wavs, lostWavs, spawns>>

SpawnChild(t) ==
    LET g == spawns + 1
    IN  /\ TurnAt(t, "resolve")
        /\ Launch(g) /\ spawns' = g
        /\ turn' = [turn EXCEPT ![t].at = "spawned", ![t].group = g]
        /\ PrepareSide /\ UNCHANGED <<hostVars>>

ArmChild(t) ==
    /\ TurnAt(t, "spawned")
    /\ Arm(turn[t].group)
    /\ TurnGoes(t, "handshake")
    /\ PrepareSide /\ UNCHANGED <<hostVars, spawns>>

\* The first ready line; anything else on stdout is ignored.
Ready(t) ==
    LET g == turn[t].group
    IN  /\ TurnAt(t, "handshake") /\ pipe[g].out # <<>>
        /\ pipe' = [pipe EXCEPT ![g].out = Tail(@)]
        /\ cell' = g
        /\ TurnGoes(t, "write")
        /\ PrepareSide /\ UNCHANGED <<groupVars, lock, wavs, lostWavs, spawns>>

\* kill_locked and the drop of a GroupChild: the group leaves the list and is
\* then killed, the guard still held.
Abandon(t, result) ==
    /\ Disarm(turn[t].group)
    /\ turn' = [turn EXCEPT ![t].at = "kill", ![t].result = result]
    /\ cell' = IF cell = turn[t].group THEN NoGroup ELSE cell

\* EOF, a line over the cap, READY_TIMEOUT: the local child is dropped.
HandshakeFails(t) ==
    /\ TurnAt(t, "handshake")
    /\ Abandon(t, "failed")
    /\ PrepareSide /\ UNCHANGED <<lock, pipe, wavs, lostWavs, spawns>>

\* The rest of a torn request and this one are one line to the child.
Write(t) ==
    LET g == turn[t].group
    IN  /\ TurnAt(t, "write") /\ alive[g] # {}
        /\ pipe' = [pipe EXCEPT ![g].in = Append(@, IF pipe[g].torn THEN NoCall ELSE t),
                                ![g].torn = FALSE]
        /\ TurnGoes(t, "read")
        /\ PrepareSide /\ UNCHANGED <<groupVars, lock, cell, wavs, lostWavs, spawns>>

\* Mutant: the first reply is taken for this turn's.
Drain_AnyId(t) ==
    LET g == turn[t].group
        line == Head(pipe[g].out)
    IN  /\ TurnAt(t, "read") /\ pipe[g].out # <<>>
        /\ pipe' = [pipe EXCEPT ![g].out = Tail(@)]
        /\ CASE line.kind = "wav" ->
                  /\ turn' = [turn EXCEPT ![t].at = "over", ![t].group = NoGroup,
                                          ![t].result = "ok", ![t].heard = line.of]
                  /\ lock' = NoCall /\ wavs' = wavs \ {line.of}
             [] OTHER -> UNCHANGED <<turn, lock, wavs>>
        /\ PrepareSide /\ UNCHANGED <<groupVars, cell, lostWavs, spawns>>

\* Mutant: the file of a stale reply is left.
Drain_KeepsStale(t) ==
    LET g == turn[t].group
        line == Head(pipe[g].out)
    IN  /\ TurnAt(t, "read") /\ pipe[g].out # <<>>
        /\ pipe' = [pipe EXCEPT ![g].out = Tail(@)]
        /\ CASE line = Line("wav", t) ->
                  /\ turn' = [turn EXCEPT ![t].at = "over", ![t].group = NoGroup,
                                          ![t].result = "ok", ![t].heard = line.of]
                  /\ lock' = NoCall /\ wavs' = wavs \ {line.of}
             [] OTHER -> UNCHANGED <<turn, lock, wavs>>
        /\ PrepareSide /\ UNCHANGED <<groupVars, cell, lostWavs, spawns>>

\* drain_until: the reply to this turn, or another line, which is skipped and
\* whose file, if it names one, is deleted.
Drain(t) ==
    LET g == turn[t].group
        line == Head(pipe[g].out)
    IN  /\ TurnAt(t, "read") /\ pipe[g].out # <<>>
        /\ pipe' = [pipe EXCEPT ![g].out = Tail(@)]
        /\ wavs' = IF line.kind = "wav" THEN wavs \ {line.of} ELSE wavs
        /\ IF line.of # t THEN UNCHANGED <<turn, lock>>
           ELSE /\ turn' = [turn EXCEPT ![t].at = "over", ![t].group = NoGroup,
                                        ![t].result = IF line.kind = "wav" THEN "ok" ELSE "failed",
                                        ![t].heard = line.of]
                /\ lock' = NoCall
        /\ PrepareSide /\ UNCHANGED <<groupVars, cell, lostWavs, spawns>>

\* Mutant: a reply is waited for without SYNTH_TIMEOUT.
ChildIsDead_NoTimeout(t) ==
    LET g == turn[t].group
    IN  /\ TurnAt(t, "read") \/ TurnAt(t, "write")
        /\ alive[g] = {}
        /\ Abandon(t, "failed")
        /\ PrepareSide /\ UNCHANGED <<lock, pipe, wavs, lostWavs, spawns>>

\* A broken pipe, EOF, a line over the cap, SYNTH_TIMEOUT: TurnError::Dead.
ChildIsDead(t) ==
    LET g == turn[t].group
    IN  /\ TurnAt(t, "read") \/ (TurnAt(t, "write") /\ alive[g] = {})
        /\ Abandon(t, "failed")
        /\ PrepareSide /\ UNCHANGED <<lock, pipe, wavs, lostWavs, spawns>>

\* Mutant: a cancelled handshake leaves the child.
CancelTurn_Leaves(t) ==
    /\ TurnAt(t, "handshake")
    /\ Ends(t, "failed")
    /\ PrepareSide /\ UNCHANGED <<groupVars, cell, pipe, wavs, lostWavs, spawns>>

\* The future is dropped: while it waits for the lock or the resolver, in the
\* handshake (the child goes with it), in a write (none, a part or all of the
\* request is in the pipe) or in a read (a part of the line may be consumed).
CancelTurn(t) ==
    LET g == turn[t].group
        request == IF pipe[g].torn THEN NoCall ELSE t
    IN  \/ /\ TurnAt(t, "lock")
           /\ turn' = [turn EXCEPT ![t].at = "over", ![t].result = "failed"]
           /\ PrepareSide /\ UNCHANGED <<groupVars, hostVars, spawns>>
        \/ /\ TurnAt(t, "resolve") /\ Ends(t, "failed")
           /\ PrepareSide /\ UNCHANGED <<groupVars, cell, pipe, wavs, lostWavs, spawns>>
        \/ /\ TurnAt(t, "handshake") /\ Abandon(t, "failed")
           /\ PrepareSide /\ UNCHANGED <<lock, pipe, wavs, lostWavs, spawns>>
        \/ /\ TurnAt(t, "write") /\ Ends(t, "failed")
           /\ pipe' \in {pipe, [pipe EXCEPT ![g].torn = TRUE],
                         [pipe EXCEPT ![g].in = Append(@, request), ![g].torn = FALSE]}
           /\ PrepareSide /\ UNCHANGED <<groupVars, cell, wavs, lostWavs, spawns>>
        \/ /\ TurnAt(t, "read") /\ Ends(t, "failed")
           /\ \/ UNCHANGED <<pipe, lostWavs>>
              \/ /\ pipe[g].out # <<>>
                 /\ pipe' = [pipe EXCEPT ![g].out = <<Line("tail", NoCall)>> \o Tail(@)]
                 /\ lostWavs' = lostWavs \cup ({Head(pipe[g].out).of} \ {NoCall})
           /\ PrepareSide /\ UNCHANGED <<groupVars, cell, wavs, spawns>>

\* What the child has written and nobody has read is lost with it.
KillChild(t) ==
    LET g == turn[t].group
    IN  /\ TurnAt(t, "kill")
        /\ KillPgid(g)
        /\ lostWavs' = lostWavs \cup
                         {u \in Turns : \E i \in DOMAIN pipe[g].out : pipe[g].out[i] = Line("wav", u)}
        /\ pipe' = [pipe EXCEPT ![g] = NoPipe]
        /\ turn' = [turn EXCEPT ![t].at = "over", ![t].group = NoGroup]
        /\ lock' = NoCall
        /\ PrepareSide /\ UNCHANGED <<cell, wavs, spawns>>

-----------------------------------------------------------------------------
(* The Python process: serve() and run_prepare().  What outlives the app is not
   followed. *)

Outside == Running /\ UNCHANGED <<callVars, lock, cell, prepareVars, spawns, app>>

IsPrepare(g) == \E p \in Prepares : prepare[p].group = g

\* A model that loads announces itself once.
ServeReady(g) ==
    /\ "worker" \in alive[g] /\ pipe[g] = NoPipe
    /\ \E t \in Turns : turn[t].group = g /\ turn[t].at = "handshake"
    /\ pipe' = [pipe EXCEPT ![g].out = <<Line("ready", NoCall)>>]
    /\ Outside /\ UNCHANGED <<groupVars, wavs, lostWavs>>

\* A request: a file and its reply, or a refusal; a line that does not parse has
\* no id to answer.
ServeRequest(g) ==
    LET t == Head(pipe[g].in)
    IN  /\ "worker" \in alive[g] /\ pipe[g].in # <<>>
        /\ \/ /\ t = NoCall
              /\ pipe' = [pipe EXCEPT ![g].in = Tail(@)] /\ UNCHANGED wavs
           \/ /\ t # NoCall /\ wavs' = wavs \cup {t}
              /\ pipe' = [pipe EXCEPT ![g].in = Tail(@), ![g].out = Append(@, Line("wav", t))]
           \/ /\ t # NoCall /\ UNCHANGED wavs
              /\ pipe' = [pipe EXCEPT ![g].in = Tail(@), ![g].out = Append(@, Line("refused", t))]
        /\ Outside /\ UNCHANGED <<groupVars, lostWavs>>

\* The download ends: the snapshot is whole, done is printed and the worker
\* exits; or an error is printed.
PrepareProcess(g) ==
    /\ Running /\ "worker" \in alive[g] /\ IsPrepare(g) /\ pipe[g] = NoPipe
    /\ \/ /\ snapshot' = TRUE
          /\ pipe' = [pipe EXCEPT ![g].out = <<Line("done", NoCall)>>]
       \/ /\ UNCHANGED snapshot
          /\ pipe' = [pipe EXCEPT ![g].out = <<Line("failed", NoCall)>>]
    /\ alive' = [alive EXCEPT ![g] = @ \ {"worker"}]
    /\ UNCHANGED <<armed, callVars, lock, cell, wavs, lostWavs, gate, slot, flipped, spawns, app>>

\* Any process may die; uv ends when the worker has.
ProcessDies(g) ==
    /\ \E p \in Processes : Dies(g, p)
    /\ Outside /\ UNCHANGED <<pipe, wavs, lostWavs>>

-----------------------------------------------------------------------------
(* QwenPrepareCoordinator and run_prepare *)

TurnSide == UNCHANGED <<turn, hostVars, app>>

BeginPrepare(p) ==
    /\ PrepareAt(p, "idle") /\ SpawnsLeft
    /\ PrepareGoes(p, "gate")
    /\ TurnSide /\ UNCHANGED <<groupVars, prepareVars, spawns>>

\* Its token goes with the call, which ends well or not.
PrepareEnds(p) ==
    /\ prepare' = [prepare EXCEPT ![p].at = "over", ![p].group = NoGroup]
    /\ slot' = IF slot = p THEN NoCall ELSE slot
    /\ flipped' = flipped \ {p}
    /\ gate' = NoCall

\* The gate, the snapshot again (a predecessor may have finished), the space
\* check, the token in the slot.
PassGate(p) ==
    /\ PrepareAt(p, "gate") /\ gate = NoCall
    /\ \/ PrepareEnds(p)
       \/ /\ ~snapshot
          /\ gate' = p /\ slot' = p
          /\ PrepareGoes(p, "resolve")
          /\ UNCHANGED flipped
    /\ TurnSide /\ UNCHANGED <<groupVars, snapshot, spawns>>

CancelPrepare ==
    /\ Running /\ slot # NoCall
    /\ flipped' = flipped \cup {slot}
    /\ TurnSide /\ UNCHANGED <<groupVars, prepare, gate, slot, snapshot, spawns>>

\* No uv, or no process: an error, even for a cancelled call.
PrepareResolveFails(p) ==
    /\ PrepareAt(p, "resolve")
    /\ PrepareEnds(p)
    /\ TurnSide /\ UNCHANGED <<groupVars, snapshot, spawns>>

SpawnPrepare(p) ==
    LET g == spawns + 1
    IN  /\ PrepareAt(p, "resolve")
        /\ Launch(g) /\ spawns' = g
        /\ prepare' = [prepare EXCEPT ![p].at = "spawned", ![p].group = g]
        /\ TurnSide /\ UNCHANGED prepareVars

ArmPrepare(p) ==
    /\ PrepareAt(p, "spawned")
    /\ Arm(prepare[p].group)
    /\ PrepareGoes(p, "read")
    /\ TurnSide /\ UNCHANGED <<prepareVars, spawns>>

\* The biased arm: done counts even under a cancel that came with it.
ReadDone(p) ==
    LET g == prepare[p].group
    IN  /\ PrepareAt(p, "read")
        /\ pipe[g].out # <<>> /\ Head(pipe[g].out).kind = "done"
        /\ PrepareGoes(p, "reap")
        /\ TurnSide /\ UNCHANGED <<groupVars, prepareVars, spawns>>

\* An error line, EOF, PREPARE_TIMEOUT.
ReadFails(p) ==
    /\ PrepareAt(p, "read")
    /\ Disarm(prepare[p].group)
    /\ PrepareGoes(p, "kill")
    /\ TurnSide /\ UNCHANGED <<prepareVars, spawns>>

\* The other arm, when no line is there to be read.
ReadCancelled(p) ==
    /\ PrepareAt(p, "read") /\ p \in flipped /\ pipe[prepare[p].group].out = <<>>
    /\ Disarm(prepare[p].group)
    /\ PrepareGoes(p, "kill")
    /\ TurnSide /\ UNCHANGED <<prepareVars, spawns>>

KillPrepare(p) ==
    /\ PrepareAt(p, "kill")
    /\ KillPgid(prepare[p].group)
    /\ PrepareEnds(p)
    /\ TurnSide /\ UNCHANGED <<snapshot, spawns>>

\* wait_clean: the leader has exited, well or not.
Reap(p) ==
    /\ PrepareAt(p, "reap") /\ "leader" \notin alive[prepare[p].group]
    /\ Disarm(prepare[p].group)
    /\ PrepareEnds(p)
    /\ TurnSide /\ UNCHANGED <<snapshot, spawns>>

-----------------------------------------------------------------------------
(* SIGINT and SIGTERM: kill_all_sidecar_groups, then exit(130). *)

SignalSweep ==
    /\ app = "up"
    /\ KillAllGroups
    /\ app' = "swept"
    /\ UNCHANGED <<callVars, hostVars, prepareVars, spawns>>

Exit ==
    /\ app = "swept"
    /\ app' = "gone"
    /\ UNCHANGED <<groupVars, callVars, hostVars, prepareVars, spawns>>

-----------------------------------------------------------------------------
TurnStep(t) ==
    \/ LockChild(t) \/ ResolveFails(t) \/ SpawnChild(t) \/ ArmChild(t) \/ Ready(t)
    \/ HandshakeFails(t) \/ Write(t) \/ Drain(t) \/ ChildIsDead(t) \/ KillChild(t)

PrepareStep(p) ==
    \/ PassGate(p) \/ PrepareResolveFails(p) \/ SpawnPrepare(p) \/ ArmPrepare(p)
    \/ ReadDone(p) \/ ReadFails(p) \/ ReadCancelled(p) \/ KillPrepare(p) \/ Reap(p)

Next ==
    \/ \E t \in Turns : BeginTurn(t) \/ TurnStep(t) \/ CancelTurn(t)
    \/ \E p \in Prepares : BeginPrepare(p) \/ PrepareStep(p)
    \/ \E g \in Groups : ServeReady(g) \/ ServeRequest(g) \/ PrepareProcess(g) \/ ProcessDies(g)
    \/ CancelPrepare \/ SignalSweep \/ Exit

Spec == Init /\ [][Next]_vars

\* READY_TIMEOUT, SYNTH_TIMEOUT and PREPARE_TIMEOUT bound every read; uv ends
\* when its child has.
FairSpec ==
    /\ Spec
    /\ \A t \in Turns : WF_vars(TurnStep(t))
    /\ \A p \in Prepares : WF_vars(PrepareStep(p))
    /\ \A g \in Groups : WF_vars(alive[g] = {"leader"} /\ ProcessDies(g))

-----------------------------------------------------------------------------
(* Properties *)

\* run_turn_locked, drain_until: "stale replies (a mismatched id) are skipped".
\* A turn gets the audio of its own request, whatever a cancelled turn has left
\* in the pipes of the warm child: a whole request, a torn one, replies nobody
\* read, the tail of one.
OwnAudio == \A t \in Turns : turn[t].result = "ok" => turn[t].heard = t

\* drain_until: "their temp WAV best-effort deleted so a cancelled turn's file
\* does not leak": a file's reply is still to be read, unless a read was dropped
\* in the middle of it or its child was killed before.
WavsAccounted ==
    \A u \in wavs : \/ u \in lostWavs
                    \/ \E g \in Groups : \E i \in DOMAIN pipe[g].out : pipe[g].out[i] = Line("wav", u)

\* GroupChild: "teardown reaches the huggingface_hub grandchild, not just uv".
\* While the application runs, every process of a group has an owner that will
\* kill it: the cell or a call under way; there is one serve child and one
\* download at most.
Owner(g) ==
    \/ cell = g
    \/ \E t \in Turns : turn[t].group = g
    \/ \E p \in Prepares : prepare[p].group = g
NoStray ==
    /\ \A g \in Groups : alive[g] # {} => Owner(g)
    /\ \A p, q \in Prepares : prepare[p].group # NoGroup /\ prepare[q].group # NoGroup => p = q
    /\ \A t \in Turns : turn[t].group # NoGroup => lock = t

\* kill_all_sidecar_groups: "a signal exit never unwinds, so no Drop runs".  When
\* the signal handler has swept, the only processes left are those of a call
\* between two statements: launched and not yet listed, or off the list and about
\* to be killed.
MidStep(g) ==
    \/ \E t \in Turns : turn[t].group = g /\ turn[t].at \in {"spawned", "kill"}
    \/ \E p \in Prepares : prepare[p].group = g /\ prepare[p].at \in {"spawned", "kill"}
SignalKillsAll ==
    [][app # app' /\ app' = "swept" => \A g \in Groups : alive'[g] # {} => MidStep(g)]_vars

\* Every turn and every download ends, behind one another on the child's lock and
\* the gate: "without a bound the read (and the whole overview) would hang forever".
EveryCallEnds ==
    /\ \A t \in Turns : turn[t].at = "lock" ~> turn[t].at = "over" \/ app = "gone"
    /\ \A p \in Prepares : prepare[p].at = "gate" ~> prepare[p].at = "over" \/ app = "gone"

=============================================================================
