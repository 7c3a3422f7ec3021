--------------------------- MODULE Sidecar_proofs ---------------------------
(***************************************************************************)
(* For any number of turns, downloads and process groups: the sidecar      *)
(* model keeps its types, no process of a group is without an owner, a     *)
(* signal leaves only what is between two statements, and every file is    *)
(* accounted for.                                                          *)
(***************************************************************************)
EXTENDS Sidecar, FiniteSetTheorems, SequenceTheorems, TLAPS

TurnCall == [at : TurnStages, group : Groups \cup {NoGroup}, result : Results,
             heard : Turns \cup {NoCall}]
PrepareCall == [at : PrepareStages, group : Groups \cup {NoGroup}]
Pipe == [in : Seq(Turns \cup {NoCall}), torn : BOOLEAN, out : Seq(Lines)]

\* The names, without the sets they are listed in.
LEMMA NamesTyped ==
    /\ "idle" \in TurnStages /\ "lock" \in TurnStages /\ "resolve" \in TurnStages
    /\ "spawned" \in TurnStages /\ "handshake" \in TurnStages /\ "write" \in TurnStages
    /\ "read" \in TurnStages /\ "kill" \in TurnStages /\ "over" \in TurnStages
    /\ "idle" \in PrepareStages /\ "gate" \in PrepareStages /\ "resolve" \in PrepareStages
    /\ "spawned" \in PrepareStages /\ "read" \in PrepareStages /\ "kill" \in PrepareStages
    /\ "reap" \in PrepareStages /\ "over" \in PrepareStages
    /\ "none" \in Results /\ "ok" \in Results /\ "failed" \in Results
BY DEF TurnStages, PrepareStages, Results

\* The types of the calls and of the host, but for the budget of groups.
Typed ==
    /\ alive \in [Groups -> SUBSET Processes] /\ armed \subseteq Groups
    /\ turn \in [Turns -> TurnCall] /\ prepare \in [Prepares -> PrepareCall]
    /\ lock \in Turns \cup {NoCall} /\ cell \in Groups \cup {NoGroup}
    /\ pipe \in [Groups -> Pipe]
    /\ wavs \subseteq Turns /\ lostWavs \subseteq Turns
    /\ gate \in Prepares \cup {NoCall} /\ slot \in Prepares \cup {NoCall}
    /\ flipped \subseteq Prepares /\ snapshot \in BOOLEAN
    /\ spawns \in 0 .. Cardinality(Groups) /\ app \in {"up", "swept", "gone"}

-----------------------------------------------------------------------------
(* The calls that hold the child and the gate.                              *)

\* A call has a group between the launch and its end, and the lock or the gate
\* from the moment it passed; a turn that writes or reads uses the warm child,
\* and while a turn is at anything else the cell is empty.
Held ==
    /\ \A t \in Turns :
        /\ turn[t].group # NoGroup <=> turn[t].at \in {"spawned", "handshake", "write", "read", "kill"}
        /\ turn[t].at \notin {"idle", "lock", "over"} => lock = t
        /\ turn[t].at \in {"write", "read"} => turn[t].group = cell
        /\ turn[t].at \in {"resolve", "spawned", "handshake", "kill"} => cell = NoGroup
    /\ \A p \in Prepares :
        /\ prepare[p].group # NoGroup <=> prepare[p].at \in {"spawned", "read", "kill", "reap"}
        /\ prepare[p].at \notin {"idle", "gate", "over"} => gate = p

\* The calls that may still launch a group have room for one each.
WantTurn == {t \in Turns : turn[t].at \in {"lock", "resolve"}}
WantPrepare == {p \in Prepares : prepare[p].at \in {"gate", "resolve"}}
Budget == spawns + Cardinality(WantTurn) + Cardinality(WantPrepare) <= Cardinality(Groups)

\* The calls that may still launch a group are finitely many.
LEMMA WantFinite ==
    /\ IsFiniteSet(WantTurn) /\ Cardinality(WantTurn) \in Nat
    /\ IsFiniteSet(WantPrepare) /\ Cardinality(WantPrepare) \in Nat
BY SidecarAssumption, FS_Subset, FS_CardinalityType DEF WantTurn, WantPrepare

\* What the processes print are lines, and a new pipe is a pipe.
LEMMA LinesTyped ==
    /\ \A k \in {"ready", "wav", "refused", "tail", "done", "failed"}, t \in Turns \cup {NoCall} :
          Line(k, t) \in Lines
    /\ NoPipe \in Pipe
BY DEF Line, Lines, NoPipe, Pipe

-----------------------------------------------------------------------------
(* Who owns a group.                                                        *)

\* A group that has not been launched is untouched; every owner's has been.
Fresh ==
    /\ \A g \in Groups : g > spawns => alive[g] = {} /\ pipe[g] = NoPipe /\ g \notin armed
    /\ cell <= spawns
    /\ \A t \in Turns : turn[t].group <= spawns
    /\ \A p \in Prepares : prepare[p].group <= spawns

\* A turn and a download never have the same group.
Apart ==
    \A p \in Prepares : prepare[p].group # NoGroup =>
        cell # prepare[p].group /\ \A t \in Turns : turn[t].group # prepare[p].group

\* A process has an owner; the worker of a download is gone once done is out.
Owned ==
    /\ \A g \in Groups : alive[g] # {} => Owner(g)
    /\ \A g \in Groups : \A i \in DOMAIN pipe[g].out :
          pipe[g].out[i].kind = "done" => "worker" \notin alive[g]
    /\ \A p \in Prepares : prepare[p].at = "reap" => "worker" \notin alive[prepare[p].group]

\* A group in use is on the list of the signal handler.
Listed ==
    /\ cell # NoGroup => cell \in armed
    /\ \A t \in Turns : turn[t].at \in {"handshake", "write", "read"} => turn[t].group \in armed
    /\ \A p \in Prepares : prepare[p].at \in {"read", "reap"} => prepare[p].group \in armed

\* A child that loads has been asked nothing and has answered nothing.
Silent ==
    \A t \in Turns : turn[t].at \in {"spawned", "handshake"} =>
        /\ pipe[turn[t].group].in = <<>>
        /\ \A i \in DOMAIN pipe[turn[t].group].out : pipe[turn[t].group].out[i].kind = "ready"

IInv == Typed /\ Held /\ Budget /\ Fresh /\ Apart /\ Owned /\ Listed /\ Silent /\ WavsAccounted

-----------------------------------------------------------------------------
(* What each step makes of its call.                                        *)

TurnNow(t, stage, g) ==
    /\ turn' \in [Turns -> TurnCall] /\ \A u \in Turns \ {t} : turn'[u] = turn[u]
    /\ turn'[t].at = stage /\ turn'[t].group = g

PrepareNow(p, stage, g) ==
    /\ prepare' \in [Prepares -> PrepareCall] /\ \A q \in Prepares \ {p} : prepare'[q] = prepare[q]
    /\ prepare'[p].at = stage /\ prepare'[p].group = g

\* What a turn is after it moves, ends or gives up.
LEMMA TurnMoves ==
    ASSUME Typed, NEW t \in Turns
    PROVE  /\ \A s \in TurnStages : TurnGoes(t, s) => TurnNow(t, s, turn[t].group)
           /\ \A r \in Results : Ends(t, r) => TurnNow(t, "over", NoGroup)
           /\ \A r \in Results : Abandon(t, r) => TurnNow(t, "kill", turn[t].group)
<1>1. turn \in [Turns -> TurnCall] /\ turn[t] \in TurnCall
  BY DEF Typed
<1>2. ASSUME NEW s \in TurnStages, TurnGoes(t, s) PROVE TurnNow(t, s, turn[t].group)
  <2>1. turn' = [turn EXCEPT ![t] = [turn[t] EXCEPT !.at = s]]
    BY <1>1, <1>2 DEF TurnGoes
  <2>2. [turn[t] EXCEPT !.at = s] \in TurnCall
    BY <1>1 DEF TurnCall
  <2> QED BY <1>1, <2>1, <2>2 DEF TurnNow, TurnCall
<1>3. ASSUME NEW r \in Results, Ends(t, r) PROVE TurnNow(t, "over", NoGroup)
  <2> DEFINE n == [turn[t] EXCEPT !.at = "over", !.group = NoGroup, !.result = r]
  <2>1. turn' = [turn EXCEPT ![t] = n]
    BY <1>1, <1>3 DEF Ends
  <2>2. n \in TurnCall
    BY <1>1, NamesTyped DEF TurnCall
  <2>3. n.at = "over" /\ n.group = NoGroup
    BY <1>1 DEF TurnCall
  <2> HIDE DEF n
  <2> QED BY <1>1, <2>1, <2>2, <2>3 DEF TurnNow
<1>4. ASSUME NEW r \in Results, Abandon(t, r) PROVE TurnNow(t, "kill", turn[t].group)
  <2> DEFINE n == [turn[t] EXCEPT !.at = "kill", !.result = r]
  <2>1. turn' = [turn EXCEPT ![t] = n]
    BY <1>1, <1>4 DEF Abandon
  <2>2. n \in TurnCall
    BY <1>1, NamesTyped DEF TurnCall
  <2>3. n.at = "kill" /\ n.group = turn[t].group
    BY <1>1 DEF TurnCall
  <2> HIDE DEF n
  <2> QED BY <1>1, <2>1, <2>2, <2>3 DEF TurnNow
<1> QED BY <1>2, <1>3, <1>4

\* What a download is after it moves or ends.
LEMMA PrepareMoves ==
    ASSUME Typed, NEW p \in Prepares
    PROVE  /\ \A s \in PrepareStages : PrepareGoes(p, s) => PrepareNow(p, s, prepare[p].group)
           /\ PrepareEnds(p) => PrepareNow(p, "over", NoGroup)
<1>1. prepare \in [Prepares -> PrepareCall] /\ prepare[p] \in PrepareCall
  BY DEF Typed
<1>2. ASSUME NEW s \in PrepareStages, PrepareGoes(p, s) PROVE PrepareNow(p, s, prepare[p].group)
  <2>1. prepare' = [prepare EXCEPT ![p] = [prepare[p] EXCEPT !.at = s]]
    BY <1>1, <1>2 DEF PrepareGoes
  <2>2. [prepare[p] EXCEPT !.at = s] \in PrepareCall
    BY <1>1 DEF PrepareCall
  <2> QED BY <1>1, <2>1, <2>2 DEF PrepareNow, PrepareCall
<1>3. ASSUME PrepareEnds(p) PROVE PrepareNow(p, "over", NoGroup)
  <2> DEFINE n == [prepare[p] EXCEPT !.at = "over", !.group = NoGroup]
  <2>1. prepare' = [prepare EXCEPT ![p] = n]
    BY <1>1, <1>3 DEF PrepareEnds
  <2>2. n \in PrepareCall
    BY <1>1, NamesTyped DEF PrepareCall
  <2>3. n.at = "over" /\ n.group = NoGroup
    BY <1>1 DEF PrepareCall
  <2> HIDE DEF n
  <2> QED BY <1>1, <2>1, <2>2, <2>3 DEF PrepareNow
<1> QED BY <1>2, <1>3

\* A call that may launch a group finds one that has not been launched.
LEMMA RoomForOne ==
    ASSUME Typed, Budget
    PROVE  WantTurn # {} \/ WantPrepare # {} => spawns + 1 \in Groups
<1>1. WantTurn # {} => Cardinality(WantTurn) >= 1
  BY WantFinite, FS_EmptySet
<1>2. WantPrepare # {} => Cardinality(WantPrepare) >= 1
  BY WantFinite, FS_EmptySet
<1> QED BY <1>1, <1>2, WantFinite, SidecarAssumption DEF Budget, Typed

\* What the steps of synthesize_turn make of their turn.
LEMMA TurnShapes ==
    ASSUME Typed, Budget, NEW t \in Turns
    PROVE  /\ BeginTurn(t) => TurnNow(t, "lock", turn[t].group)
           /\ LockChild(t) => TurnNow(t, IF cell = NoGroup THEN "resolve" ELSE "write", cell)
           /\ ResolveFails(t) => TurnNow(t, "over", NoGroup)
           /\ SpawnChild(t) => TurnNow(t, "spawned", spawns + 1) /\ spawns + 1 \in Groups
           /\ ArmChild(t) => TurnNow(t, "handshake", turn[t].group)
           /\ Ready(t) => TurnNow(t, "write", turn[t].group)
           /\ HandshakeFails(t) => TurnNow(t, "kill", turn[t].group)
           /\ Write(t) => TurnNow(t, "read", turn[t].group)
           /\ Drain(t) => (turn' = turn /\ lock' = lock)
                          \/ (TurnNow(t, "over", NoGroup) /\ lock' = NoCall)
           /\ ChildIsDead(t) => TurnNow(t, "kill", turn[t].group)
           /\ KillChild(t) => TurnNow(t, "over", NoGroup)
<1>1. turn \in [Turns -> TurnCall] /\ turn[t] \in TurnCall
  BY DEF Typed
<1>2. BeginTurn(t) => TurnNow(t, "lock", turn[t].group)
  BY TurnMoves, NamesTyped DEF BeginTurn
<1>3. ResolveFails(t) => TurnNow(t, "over", NoGroup)
  BY TurnMoves, NamesTyped DEF ResolveFails
<1>4. /\ ArmChild(t) => TurnNow(t, "handshake", turn[t].group)
      /\ Ready(t) => TurnNow(t, "write", turn[t].group)
      /\ Write(t) => TurnNow(t, "read", turn[t].group)
  BY TurnMoves, NamesTyped DEF ArmChild, Ready, Write
<1>5. /\ HandshakeFails(t) => TurnNow(t, "kill", turn[t].group)
      /\ ChildIsDead(t) => TurnNow(t, "kill", turn[t].group)
  BY TurnMoves, NamesTyped DEF HandshakeFails, ChildIsDead
<1>6. ASSUME LockChild(t)
      PROVE  TurnNow(t, IF cell = NoGroup THEN "resolve" ELSE "write", cell)
  <2> DEFINE stage == IF cell = NoGroup THEN "resolve" ELSE "write"
             n == [turn[t] EXCEPT !.at = stage, !.group = cell]
  <2>1. turn' = [turn EXCEPT ![t] = n]
    BY <1>1, <1>6 DEF LockChild
  <2>2. stage \in TurnStages /\ cell \in Groups \cup {NoGroup}
    BY NamesTyped DEF Typed
  <2> HIDE DEF stage
  <2>3. n \in TurnCall /\ n.at = stage /\ n.group = cell
    BY <1>1, <2>2 DEF TurnCall
  <2> HIDE DEF n
  <2>4. TurnNow(t, stage, cell)
    BY <1>1, <2>1, <2>3 DEF TurnNow
  <2> QED BY <2>4 DEF stage
<1>7. ASSUME SpawnChild(t)
      PROVE  TurnNow(t, "spawned", spawns + 1) /\ spawns + 1 \in Groups
  <2> DEFINE n == [turn[t] EXCEPT !.at = "spawned", !.group = spawns + 1]
  <2>1. t \in WantTurn
    BY <1>7 DEF SpawnChild, TurnAt, WantTurn
  <2>2. spawns + 1 \in Groups
    BY <2>1, RoomForOne
  <2>3. turn' = [turn EXCEPT ![t] = n]
    BY <1>1, <1>7 DEF SpawnChild
  <2>4. n \in TurnCall /\ n.at = "spawned" /\ n.group = spawns + 1
    BY <1>1, <2>2, NamesTyped DEF TurnCall
  <2> HIDE DEF n
  <2> QED BY <1>1, <2>2, <2>3, <2>4 DEF TurnNow
<1>8. ASSUME Drain(t), ~(turn' = turn /\ lock' = lock)
      PROVE  TurnNow(t, "over", NoGroup) /\ lock' = NoCall
  <2> DEFINE line == Head(pipe[turn[t].group].out)
             r == IF line.kind = "wav" THEN "ok" ELSE "failed"
             n == [turn[t] EXCEPT !.at = "over", !.group = NoGroup, !.result = r, !.heard = t]
  <2>1. turn' = [turn EXCEPT ![t] = n] /\ lock' = NoCall
    BY <1>1, <1>8 DEF Drain
  <2>2. r \in Results
    BY NamesTyped
  <2> HIDE DEF r
  <2>3. n \in TurnCall /\ n.at = "over" /\ n.group = NoGroup
    BY <1>1, <2>2, NamesTyped DEF TurnCall
  <2> HIDE DEF n
  <2> QED BY <1>1, <2>1, <2>3 DEF TurnNow
<1>9. ASSUME KillChild(t) PROVE TurnNow(t, "over", NoGroup)
  <2> DEFINE n == [turn[t] EXCEPT !.at = "over", !.group = NoGroup]
  <2>1. turn' = [turn EXCEPT ![t] = n]
    BY <1>1, <1>9 DEF KillChild
  <2>2. n \in TurnCall /\ n.at = "over" /\ n.group = NoGroup
    BY <1>1, NamesTyped DEF TurnCall
  <2> HIDE DEF n
  <2> QED BY <1>1, <2>1, <2>2 DEF TurnNow
<1> QED BY <1>2, <1>3, <1>4, <1>5, <1>6, <1>7, <1>8, <1>9

\* What a dropped future leaves: a child being loaded is killed, a warm one stays.
LEMMA CancelShape ==
    ASSUME Typed, NEW t \in Turns, CancelTurn(t)
    PROVE  \/ TurnNow(t, "over", turn[t].group) /\ turn[t].at = "lock" /\ UNCHANGED hostVars
           \/ TurnNow(t, "over", NoGroup) /\ lock' = NoCall /\ cell' = cell
              /\ turn[t].at \in {"resolve", "write", "read"}
           \/ TurnNow(t, "kill", turn[t].group) /\ turn[t].at = "handshake" /\ lock' = lock
              /\ cell' = IF cell = turn[t].group THEN NoGroup ELSE cell
<1>1. turn \in [Turns -> TurnCall] /\ turn[t] \in TurnCall
  BY DEF Typed
<1>2. ASSUME turn' = [turn EXCEPT ![t].at = "over", ![t].result = "failed"]
      PROVE  TurnNow(t, "over", turn[t].group)
  <2> DEFINE n == [turn[t] EXCEPT !.at = "over", !.result = "failed"]
  <2>1. turn' = [turn EXCEPT ![t] = n]
    BY <1>1, <1>2
  <2>2. n \in TurnCall /\ n.at = "over" /\ n.group = turn[t].group
    BY <1>1, NamesTyped DEF TurnCall
  <2> HIDE DEF n
  <2> QED BY <1>1, <2>1, <2>2 DEF TurnNow
<1>3. Ends(t, "failed") => TurnNow(t, "over", NoGroup) /\ lock' = NoCall
  BY TurnMoves, NamesTyped DEF Ends
<1>4. Abandon(t, "failed") => TurnNow(t, "kill", turn[t].group)
                              /\ cell' = IF cell = turn[t].group THEN NoGroup ELSE cell
  BY TurnMoves, NamesTyped DEF Abandon
<1> QED BY <1>2, <1>3, <1>4 DEF CancelTurn, TurnAt

\* What the steps of run_prepare make of their download.
LEMMA PrepareShapes ==
    ASSUME Typed, Budget, NEW p \in Prepares
    PROVE  /\ BeginPrepare(p) => PrepareNow(p, "gate", prepare[p].group)
           /\ PassGate(p) => \/ PrepareNow(p, "over", NoGroup) /\ PrepareEnds(p)
                             \/ PrepareNow(p, "resolve", prepare[p].group) /\ gate' = p
           /\ PrepareResolveFails(p) => PrepareNow(p, "over", NoGroup)
           /\ SpawnPrepare(p) => PrepareNow(p, "spawned", spawns + 1) /\ spawns + 1 \in Groups
           /\ ArmPrepare(p) => PrepareNow(p, "read", prepare[p].group)
           /\ ReadDone(p) => PrepareNow(p, "reap", prepare[p].group)
           /\ ReadFails(p) => PrepareNow(p, "kill", prepare[p].group)
           /\ ReadCancelled(p) => PrepareNow(p, "kill", prepare[p].group)
           /\ KillPrepare(p) => PrepareNow(p, "over", NoGroup)
           /\ Reap(p) => PrepareNow(p, "over", NoGroup)
<1>1. prepare \in [Prepares -> PrepareCall] /\ prepare[p] \in PrepareCall
  BY DEF Typed
<1>2. /\ BeginPrepare(p) => PrepareNow(p, "gate", prepare[p].group)
      /\ ArmPrepare(p) => PrepareNow(p, "read", prepare[p].group)
      /\ ReadDone(p) => PrepareNow(p, "reap", prepare[p].group)
      /\ ReadFails(p) => PrepareNow(p, "kill", prepare[p].group)
      /\ ReadCancelled(p) => PrepareNow(p, "kill", prepare[p].group)
  BY PrepareMoves, NamesTyped DEF BeginPrepare, ArmPrepare, ReadDone, ReadFails, ReadCancelled
<1>3. /\ PrepareResolveFails(p) => PrepareNow(p, "over", NoGroup)
      /\ KillPrepare(p) => PrepareNow(p, "over", NoGroup)
      /\ Reap(p) => PrepareNow(p, "over", NoGroup)
  BY PrepareMoves DEF PrepareResolveFails, KillPrepare, Reap
<1>4. PassGate(p) => \/ PrepareNow(p, "over", NoGroup) /\ PrepareEnds(p)
                     \/ PrepareNow(p, "resolve", prepare[p].group) /\ gate' = p
  BY PrepareMoves, NamesTyped DEF PassGate
<1>5. ASSUME SpawnPrepare(p)
      PROVE  PrepareNow(p, "spawned", spawns + 1) /\ spawns + 1 \in Groups
  <2> DEFINE n == [prepare[p] EXCEPT !.at = "spawned", !.group = spawns + 1]
  <2>1. p \in WantPrepare
    BY <1>5 DEF SpawnPrepare, PrepareAt, WantPrepare
  <2>2. spawns + 1 \in Groups
    BY <2>1, RoomForOne
  <2>3. prepare' = [prepare EXCEPT ![p] = n]
    BY <1>1, <1>5 DEF SpawnPrepare
  <2>4. n \in PrepareCall /\ n.at = "spawned" /\ n.group = spawns + 1
    BY <1>1, <2>2, NamesTyped DEF PrepareCall
  <2> HIDE DEF n
  <2> QED BY <1>1, <2>2, <2>3, <2>4 DEF PrepareNow
<1> QED BY <1>2, <1>3, <1>4, <1>5

-----------------------------------------------------------------------------
(* Types.                                                                   *)

\* The fields of a pipe and their types.
LEMMA PipesTyped ==
    ASSUME Typed, NEW g \in Groups
    PROVE  /\ pipe[g].in \in Seq(Turns \cup {NoCall}) /\ pipe[g].out \in Seq(Lines)
           /\ pipe[g].torn \in BOOLEAN
           /\ \A x \in Seq(Lines) : [pipe EXCEPT ![g].out = x] \in [Groups -> Pipe]
           /\ \A x \in Seq(Turns \cup {NoCall}), b \in BOOLEAN :
                 [pipe EXCEPT ![g].in = x, ![g].torn = b] \in [Groups -> Pipe]
           /\ \A b \in BOOLEAN : [pipe EXCEPT ![g].torn = b] \in [Groups -> Pipe]
           /\ \A x \in Seq(Turns \cup {NoCall}) : [pipe EXCEPT ![g].in = x] \in [Groups -> Pipe]
           /\ \A x \in Seq(Turns \cup {NoCall}), y \in Seq(Lines) :
                 [pipe EXCEPT ![g].in = x, ![g].out = y] \in [Groups -> Pipe]
BY DEF Typed, Pipe

\* The first element and the rest of a sequence.
LEMMA HeadTyped ==
    ASSUME NEW S, NEW s \in Seq(S), s # <<>>
    PROVE  Head(s) \in S /\ Tail(s) \in Seq(S)
OBVIOUS

\* The steps of a turn keep the types.
LEMMA TurnTypes ==
    ASSUME Typed, Held, Budget, NEW t \in Turns, BeginTurn(t) \/ TurnStep(t) \/ CancelTurn(t)
    PROVE  Typed'
<1> DEFINE g == turn[t].group
           Rest == /\ gate' = gate /\ slot' = slot /\ flipped' = flipped
                   /\ snapshot' = snapshot /\ app' = app /\ prepare' = prepare
<1>1. turn[t].at \in {"spawned", "handshake", "write", "read", "kill"} => g \in Groups
  BY DEF Typed, Held, TurnCall
<1>2. g \in Groups => pipe[g].out \in Seq(Lines) /\ pipe[g].in \in Seq(Turns \cup {NoCall})
  BY PipesTyped
<1>3. Rest
  BY DEF BeginTurn, TurnStep, CancelTurn, LockChild, ResolveFails, SpawnChild, ArmChild, Ready,
         HandshakeFails, Write, Drain, ChildIsDead, KillChild, PrepareSide, prepareVars
<1> HIDE DEF Rest
<1>4. CASE BeginTurn(t) \/ LockChild(t) \/ ResolveFails(t)
  <2>1. turn' \in [Turns -> TurnCall]
    BY <1>4, TurnShapes DEF TurnNow
  <2> QED BY <1>3, <1>4, <2>1 DEF Rest, BeginTurn, LockChild, ResolveFails, Ends, Typed, groupVars,
             hostVars
<1>5. CASE SpawnChild(t) \/ ArmChild(t)
  <2>1. turn' \in [Turns -> TurnCall] /\ (SpawnChild(t) => spawns + 1 \in Groups)
    BY <1>5, TurnShapes DEF TurnNow
  <2>2. alive' \in [Groups -> SUBSET Processes] /\ armed' \subseteq Groups
    BY <1>1, <1>5 DEF SpawnChild, ArmChild, TurnAt, Launch, Arm, Typed
  <2>3. spawns' \in 0 .. Cardinality(Groups)
    BY <1>5, <2>1, SidecarAssumption DEF SpawnChild, ArmChild, Typed
  <2> QED BY <1>3, <1>5, <2>1, <2>2, <2>3 DEF Rest, SpawnChild, ArmChild, Typed, hostVars
<1>6. CASE Ready(t) \/ Write(t)
  <2>1. turn' \in [Turns -> TurnCall]
    BY <1>6, TurnShapes DEF TurnNow
  <2>2. g \in Groups
    BY <1>1, <1>6 DEF Ready, Write, TurnAt
  <2>3. pipe' \in [Groups -> Pipe]
    <3>1. CASE Ready(t)
      <4>1. Tail(pipe[g].out) \in Seq(Lines)
        BY <1>2, <2>2, <3>1 DEF Ready
      <4> QED BY <2>2, <3>1, <4>1, PipesTyped DEF Ready
    <3>2. CASE Write(t)
      <4>1. Append(pipe[g].in, IF pipe[g].torn THEN NoCall ELSE t) \in Seq(Turns \cup {NoCall})
        BY <1>2, <2>2
      <4> QED BY <2>2, <3>2, <4>1, PipesTyped, ZenonT(40) DEF Write
    <3> QED BY <1>6, <3>1, <3>2
  <2> QED BY <1>3, <1>6, <2>1, <2>2, <2>3 DEF Rest, Ready, Write, Typed, groupVars
<1>7. CASE HandshakeFails(t) \/ ChildIsDead(t)
  <2>1. turn' \in [Turns -> TurnCall]
    BY <1>7, TurnShapes DEF TurnNow
  <2> QED BY <1>3, <1>7, <2>1 DEF Rest, HandshakeFails, ChildIsDead, Abandon, Disarm, Typed
<1>8. CASE Drain(t)
  <2>1. turn' \in [Turns -> TurnCall] /\ lock' \in Turns \cup {NoCall}
    BY <1>8, TurnShapes DEF TurnNow, Typed
  <2>2. g \in Groups
    BY <1>1, <1>8 DEF Drain, TurnAt
  <2>3. Tail(pipe[g].out) \in Seq(Lines)
    <3>1. pipe[g].out # <<>> /\ pipe[g].out \in Seq(Lines)
      BY <1>2, <1>8, <2>2 DEF Drain
    <3> QED BY <3>1, HeadTyped
  <2>4. pipe' \in [Groups -> Pipe]
    BY <1>8, <2>2, <2>3, PipesTyped DEF Drain
  <2> QED BY <1>3, <1>8, <2>1, <2>4 DEF Rest, Drain, Typed, groupVars
<1>9. CASE CancelTurn(t)
  <2>1. turn' \in [Turns -> TurnCall]
    BY <1>9, CancelShape DEF TurnNow
  <2>2. pipe' \in [Groups -> Pipe] /\ lostWavs' \subseteq Turns
    <3>1. CASE turn[t].at \in {"lock", "resolve", "handshake"}
      BY <1>9, <3>1 DEF CancelTurn, TurnAt, Typed, hostVars
    <3>2. CASE turn[t].at = "write"
      <4> DEFINE request == IF pipe[g].torn THEN NoCall ELSE t
      <4>1. g \in Groups /\ lostWavs' = lostWavs
            /\ pipe' \in {pipe, [pipe EXCEPT ![g].torn = TRUE],
                          [pipe EXCEPT ![g].in = Append(@, request), ![g].torn = FALSE]}
        BY <1>1, <1>9, <3>2 DEF CancelTurn, TurnAt
      <4>2. Append(pipe[g].in, request) \in Seq(Turns \cup {NoCall})
        BY <1>2, <4>1
      <4>3. [pipe EXCEPT ![g].torn = TRUE] \in [Groups -> Pipe]
        BY <4>1, PipesTyped
      <4>4. [pipe EXCEPT ![g].in = Append(pipe[g].in, request), ![g].torn = FALSE]
              \in [Groups -> Pipe]
        BY <4>1, <4>2, PipesTyped
      <4> HIDE DEF request
      <4>5. pipe \in [Groups -> Pipe] /\ lostWavs \subseteq Turns
        BY DEF Typed
      <4> QED BY <4>1, <4>3, <4>4, <4>5
    <3>3. CASE turn[t].at = "read"
      <4>1. /\ g \in Groups
            /\ \/ UNCHANGED <<pipe, lostWavs>>
               \/ /\ pipe[g].out # <<>>
                  /\ pipe' = [pipe EXCEPT ![g].out = <<Line("tail", NoCall)>> \o Tail(@)]
                  /\ lostWavs' = lostWavs \cup ({Head(pipe[g].out).of} \ {NoCall})
        BY <1>1, <1>9, <3>3 DEF CancelTurn, TurnAt
      <4>2. CASE UNCHANGED <<pipe, lostWavs>>
        BY <4>2 DEF Typed
      <4>3. CASE pipe[g].out # <<>> /\ pipe' # pipe
        <5>1. Head(pipe[g].out) \in Lines /\ Tail(pipe[g].out) \in Seq(Lines)
          <6>1. pipe[g].out \in Seq(Lines) /\ pipe[g].out # <<>>
            BY <1>2, <4>1, <4>3
          <6> HIDE DEF g
          <6> QED BY <6>1, HeadTyped
        <5>2. <<Line("tail", NoCall)>> \o Tail(pipe[g].out) \in Seq(Lines)
          BY <5>1, LinesTyped
        <5>3. Head(pipe[g].out).of \in Turns \cup {NoCall}
          BY <5>1 DEF Lines
        <5>4. pipe' \in [Groups -> Pipe]
          <6>1. pipe' = [pipe EXCEPT ![g].out = <<Line("tail", NoCall)>> \o Tail(pipe[g].out)]
            BY <4>1, <4>3
          <6>2. g \in Groups
            BY <4>1
          <6> HIDE DEF g
          <6> QED BY <5>2, <6>1, <6>2, PipesTyped
        <5>5. lostWavs' \subseteq Turns
          BY <4>1, <4>3, <5>3 DEF Typed
        <5> QED BY <5>4, <5>5
      <4>4. CASE pipe[g].out # <<>> /\ pipe' = pipe /\ lostWavs' # lostWavs
        <5>1. Head(pipe[g].out) \in Lines
          <6>1. pipe[g].out \in Seq(Lines) /\ pipe[g].out # <<>>
            BY <1>2, <4>1, <4>4
          <6> HIDE DEF g
          <6> QED BY <6>1, HeadTyped
        <5>2. Head(pipe[g].out).of \in Turns \cup {NoCall}
          BY <5>1 DEF Lines
        <5> QED BY <4>1, <4>4, <5>2 DEF Typed
      <4> QED BY <4>1, <4>2, <4>3, <4>4
    <3> QED BY <1>9, <3>1, <3>2, <3>3 DEF CancelTurn, TurnAt
  <2>3. lock' \in Turns \cup {NoCall} /\ cell' \in Groups \cup {NoGroup}
    BY <1>9, CancelShape DEF Typed, hostVars
  <2>4. alive' = alive /\ armed' \subseteq armed /\ wavs' = wavs /\ spawns' = spawns
    BY <1>9 DEF CancelTurn, Abandon, Disarm, groupVars, hostVars
  <2> QED BY <1>3, <2>1, <2>2, <2>3, <2>4 DEF Rest, Typed
<1>10. CASE KillChild(t)
  <2>1. turn' \in [Turns -> TurnCall]
    BY <1>10, TurnShapes DEF TurnNow
  <2>2. alive' \in [Groups -> SUBSET Processes] /\ armed' = armed
    BY <1>10 DEF KillChild, KillPgid, Typed
  <2>3. pipe' \in [Groups -> Pipe]
    BY <1>10, LinesTyped DEF KillChild, Typed
  <2>4. lostWavs' \subseteq Turns
    BY <1>10 DEF KillChild, Typed
  <2> QED BY <1>3, <1>10, <2>1, <2>2, <2>3, <2>4 DEF Rest, KillChild, Typed
<1> QED BY <1>4, <1>5, <1>6, <1>7, <1>8, <1>9, <1>10 DEF TurnStep

\* The steps of a download keep the types.
LEMMA PrepareTypes ==
    ASSUME Typed, Held, Budget, NEW p \in Prepares, BeginPrepare(p) \/ PrepareStep(p)
    PROVE  Typed'
<1> DEFINE Rest == turn' = turn /\ UNCHANGED hostVars /\ app' = app
<1>1. prepare[p].at \in {"spawned", "read", "kill", "reap"} => prepare[p].group \in Groups
  BY DEF Typed, Held, PrepareCall
<1>2. Rest
  BY DEF BeginPrepare, PrepareStep, PassGate, PrepareResolveFails, SpawnPrepare, ArmPrepare,
         ReadDone, ReadFails, ReadCancelled, KillPrepare, Reap, TurnSide
<1> HIDE DEF Rest
<1>3. prepare' \in [Prepares -> PrepareCall]
  BY PrepareShapes DEF PrepareNow, PrepareStep
<1>4. gate' \in Prepares \cup {NoCall} /\ slot' \in Prepares \cup {NoCall} /\ flipped' \subseteq Prepares
  BY DEF BeginPrepare, PrepareStep, PassGate, PrepareResolveFails, SpawnPrepare, ArmPrepare,
         ReadDone, ReadFails, ReadCancelled, KillPrepare, Reap, PrepareEnds, prepareVars, Typed
<1>5. CASE BeginPrepare(p) \/ PassGate(p) \/ PrepareResolveFails(p) \/ ReadDone(p)
  BY <1>2, <1>3, <1>4, <1>5
     DEF Rest, BeginPrepare, PassGate, PrepareResolveFails, ReadDone, groupVars, hostVars,
         prepareVars, Typed
<1>6. CASE SpawnPrepare(p)
  <2>1. spawns + 1 \in Groups
    BY <1>6, PrepareShapes
  <2>2. alive' \in [Groups -> SUBSET Processes] /\ armed' = armed
    BY <1>6 DEF SpawnPrepare, Launch, Typed
  <2>3. spawns' \in 0 .. Cardinality(Groups)
    BY <1>6, <2>1, SidecarAssumption DEF SpawnPrepare, Typed
  <2> QED BY <1>2, <1>3, <1>4, <1>6, <2>2, <2>3 DEF Rest, SpawnPrepare, hostVars, prepareVars, Typed
<1>7. CASE ArmPrepare(p) \/ ReadFails(p) \/ ReadCancelled(p) \/ KillPrepare(p) \/ Reap(p)
  <2>1. alive' \in [Groups -> SUBSET Processes] /\ armed' \subseteq Groups
    BY <1>1, <1>7 DEF ArmPrepare, ReadFails, ReadCancelled, KillPrepare, Reap, PrepareAt, Arm,
         Disarm, KillPgid, Typed
  <2> QED BY <1>2, <1>3, <1>4, <1>7, <2>1
        DEF Rest, ArmPrepare, ReadFails, ReadCancelled, KillPrepare, Reap, hostVars, prepareVars, Typed
<1> QED BY <1>5, <1>6, <1>7 DEF PrepareStep

\* The steps of the processes keep the types.
LEMMA ProcessTypes ==
    ASSUME Typed, NEW g \in Groups,
           ServeReady(g) \/ ServeRequest(g) \/ PrepareProcess(g) \/ ProcessDies(g)
    PROVE  Typed'
<1>1. pipe[g].out \in Seq(Lines) /\ pipe[g].in \in Seq(Turns \cup {NoCall})
  BY PipesTyped
<1>2. CASE ServeReady(g)
  <2>1. <<Line("ready", NoCall)>> \in Seq(Lines)
    BY LinesTyped
  <2>2. pipe' \in [Groups -> Pipe]
    BY <1>2, <2>1, PipesTyped DEF ServeReady
  <2> QED BY <1>2, <2>2 DEF ServeReady, Outside, groupVars, callVars, prepareVars, Typed
<1>3. CASE ServeRequest(g)
  <2> DEFINE t == Head(pipe[g].in)
  <2>1. t \in Turns \cup {NoCall} /\ Tail(pipe[g].in) \in Seq(Turns \cup {NoCall})
    BY <1>1, <1>3, HeadTyped DEF ServeRequest
  <2>2. Append(pipe[g].out, Line("wav", t)) \in Seq(Lines)
        /\ Append(pipe[g].out, Line("refused", t)) \in Seq(Lines)
    BY <1>1, <2>1, LinesTyped
  <2>3. pipe' \in [Groups -> Pipe]
    <3>1. \/ pipe' = [pipe EXCEPT ![g].in = Tail(pipe[g].in)]
          \/ pipe' = [pipe EXCEPT ![g].in = Tail(pipe[g].in),
                                  ![g].out = Append(pipe[g].out, Line("wav", t))]
          \/ pipe' = [pipe EXCEPT ![g].in = Tail(pipe[g].in),
                                  ![g].out = Append(pipe[g].out, Line("refused", t))]
      BY <1>3 DEF ServeRequest, Typed, Pipe
    <3> HIDE DEF t
    <3>2. /\ [pipe EXCEPT ![g].in = Tail(pipe[g].in)] \in [Groups -> Pipe]
          /\ \A y \in Seq(Lines) :
               [pipe EXCEPT ![g].in = Tail(pipe[g].in), ![g].out = y] \in [Groups -> Pipe]
      BY <2>1, PipesTyped
    <3> QED BY <2>2, <3>1, <3>2
  <2>4. wavs' \subseteq Turns
    BY <1>3, <2>1 DEF ServeRequest, Typed
  <2> QED BY <1>3, <2>3, <2>4 DEF ServeRequest, Outside, groupVars, callVars, prepareVars, Typed
<1>4. CASE PrepareProcess(g)
  <2>1. <<Line("done", NoCall)>> \in Seq(Lines) /\ <<Line("failed", NoCall)>> \in Seq(Lines)
    BY LinesTyped
  <2>2. snapshot' \in BOOLEAN
    BY <1>4 DEF PrepareProcess, Typed
  <2>4. PICK y \in {<<Line("done", NoCall)>>, <<Line("failed", NoCall)>>} :
           pipe' = [pipe EXCEPT ![g].out = y]
    BY <1>4 DEF PrepareProcess
  <2>5. pipe' \in [Groups -> Pipe]
    BY <2>1, <2>4, PipesTyped
  <2>3. alive' \in [Groups -> SUBSET Processes]
    BY <1>4 DEF PrepareProcess, Typed
  <2> QED BY <1>4, <2>2, <2>3, <2>5 DEF PrepareProcess, callVars, Typed
<1>5. CASE ProcessDies(g)
  <2>1. alive' \in [Groups -> SUBSET Processes] /\ armed' = armed
    BY <1>5 DEF ProcessDies, Dies, Typed
  <2> QED BY <1>5, <2>1 DEF ProcessDies, Outside, callVars, prepareVars, Typed
<1> QED BY <1>2, <1>3, <1>4, <1>5

\* Every step keeps the types.
LEMMA TypeStep == Typed /\ Held /\ Budget /\ [Next]_vars => Typed'
<1> SUFFICES ASSUME Typed, Held, Budget, [Next]_vars PROVE Typed'
  OBVIOUS
<1>1. CASE CancelPrepare
  BY <1>1 DEF CancelPrepare, TurnSide, groupVars, hostVars, Typed
<1>2. CASE SignalSweep
  BY <1>2 DEF SignalSweep, KillAllGroups, callVars, hostVars, prepareVars, Typed
<1>3. CASE Exit
  BY <1>3 DEF Exit, groupVars, callVars, hostVars, prepareVars, Typed
<1>4. CASE UNCHANGED vars
  BY <1>4 DEF vars, groupVars, callVars, hostVars, prepareVars, Typed
<1> QED BY <1>1, <1>2, <1>3, <1>4, TurnTypes, PrepareTypes, ProcessTypes DEF Next

-----------------------------------------------------------------------------
(* The lock, the gate and the budget.                                       *)

\* A turn that moves while no other turn holds the lock, or without touching the
\* lock and the cell.
LEMMA HeldTurn ==
    ASSUME Held, NEW t \in Turns, NEW s, NEW g, TurnNow(t, s, g), UNCHANGED <<prepare, gate>>,
           g # NoGroup <=> s \in {"spawned", "handshake", "write", "read", "kill"},
           s \notin {"idle", "lock", "over"} => lock' = t,
           s \in {"write", "read"} => g = cell',
           s \in {"resolve", "spawned", "handshake", "kill"} => cell' = NoGroup,
           (lock' = lock /\ cell' = cell) \/ lock \in {t, NoCall}
    PROVE  Held'
<1>1. NoCall \notin Turns
  BY SidecarAssumption
<1>2. ASSUME NEW u \in Turns \ {t}, turn[u].at \notin {"idle", "lock", "over"}
      PROVE  lock' = lock /\ cell' = cell
  BY <1>1, <1>2 DEF Held
<1>3. ASSUME NEW u \in Turns
      PROVE  /\ turn'[u].group # NoGroup
                <=> turn'[u].at \in {"spawned", "handshake", "write", "read", "kill"}
             /\ turn'[u].at \notin {"idle", "lock", "over"} => lock' = u
             /\ turn'[u].at \in {"write", "read"} => turn'[u].group = cell'
             /\ turn'[u].at \in {"resolve", "spawned", "handshake", "kill"} => cell' = NoGroup
  <2>1. CASE u = t
    BY <2>1 DEF TurnNow
  <2>2. CASE u # t
    <3>1. turn'[u] = turn[u]
      BY <2>2 DEF TurnNow
    <3>2. CASE turn[u].at \in {"idle", "lock", "over"}
      BY <3>1, <3>2 DEF Held
    <3>3. CASE turn[u].at \notin {"idle", "lock", "over"}
      BY <1>2, <2>2, <3>1, <3>3 DEF Held
    <3> QED BY <3>2, <3>3
  <2> QED BY <2>1, <2>2
<1> QED BY <1>3 DEF Held

\* Every step keeps the lock and the gate with the calls that passed them.
LEMMA HeldStep == Typed /\ Held /\ Budget /\ [Next]_vars => Held'
<1> SUFFICES ASSUME Typed, Held, Budget, [Next]_vars PROVE Held'
  OBVIOUS
<1>0. NoGroup \notin Groups /\ NoCall \notin Turns /\ NoCall \notin Prepares
  BY SidecarAssumption
<1>1. ASSUME NEW t \in Turns, BeginTurn(t) \/ TurnStep(t) \/ CancelTurn(t) PROVE Held'
  <2>1. prepare' = prepare /\ gate' = gate
    BY <1>1 DEF BeginTurn, TurnStep, CancelTurn, LockChild, ResolveFails, SpawnChild, ArmChild,
           Ready, HandshakeFails, Write, Drain, ChildIsDead, KillChild, PrepareSide, prepareVars
  <2>2. CASE BeginTurn(t)
    <3>1. TurnNow(t, "lock", turn[t].group) /\ turn[t].at = "idle" /\ lock' = lock /\ cell' = cell
      BY <2>2, TurnShapes DEF BeginTurn, TurnAt, hostVars
    <3>2. turn[t].group = NoGroup
      BY <3>1 DEF Held
    <3> QED BY <2>1, <3>1, <3>2, HeldTurn
  <2>3. CASE LockChild(t)
    <3>1. lock = NoCall /\ lock' = t /\ cell' = cell
      BY <2>3 DEF LockChild
    <3>2. TurnNow(t, IF cell = NoGroup THEN "resolve" ELSE "write", cell)
      BY <2>3, TurnShapes
    <3>3. CASE cell = NoGroup
      BY <2>1, <3>1, <3>2, <3>3, HeldTurn
    <3>4. CASE cell # NoGroup
      BY <2>1, <3>1, <3>2, <3>4, HeldTurn
    <3> QED BY <3>3, <3>4
  <2>4. CASE ResolveFails(t) \/ KillChild(t)
    <3>1. TurnNow(t, "over", NoGroup) /\ lock = t
      BY <2>4, TurnShapes DEF ResolveFails, KillChild, TurnAt, Held
    <3> QED BY <2>1, <3>1, HeldTurn
  <2>5. CASE SpawnChild(t)
    <3>1. TurnNow(t, "spawned", spawns + 1) /\ spawns + 1 # NoGroup
      BY <1>0, <2>5, TurnShapes
    <3>2. lock = t /\ lock' = lock /\ cell = NoGroup /\ cell' = cell
      BY <2>5 DEF SpawnChild, TurnAt, hostVars, Held
    <3> QED BY <2>1, <3>1, <3>2, HeldTurn
  <2>6. CASE ArmChild(t)
    <3>1. TurnNow(t, "handshake", turn[t].group) /\ turn[t].group # NoGroup
      BY <2>6, TurnShapes DEF ArmChild, TurnAt, Held
    <3>2. lock = t /\ lock' = lock /\ cell = NoGroup /\ cell' = cell
      BY <2>6 DEF ArmChild, TurnAt, hostVars, Held
    <3> QED BY <2>1, <3>1, <3>2, HeldTurn
  <2>7. CASE Ready(t) \/ Write(t)
    <3>1. lock = t /\ lock' = lock /\ cell' = turn[t].group /\ turn[t].group # NoGroup
      BY <2>7 DEF Ready, Write, TurnAt, Held
    <3>2. TurnNow(t, "write", turn[t].group) \/ TurnNow(t, "read", turn[t].group)
      BY <2>7, TurnShapes
    <3> QED BY <2>1, <3>1, <3>2, HeldTurn
  <2>8. CASE HandshakeFails(t) \/ ChildIsDead(t)
    <3>1. lock = t /\ lock' = lock /\ cell' = NoGroup /\ turn[t].group # NoGroup
      BY <2>8 DEF HandshakeFails, ChildIsDead, Abandon, TurnAt, Held
    <3>2. TurnNow(t, "kill", turn[t].group)
      BY <2>8, TurnShapes
    <3> QED BY <2>1, <3>1, <3>2, HeldTurn
  <2>10. CASE Drain(t)
    <3>1. lock = t /\ cell' = cell /\ ((turn' = turn /\ lock' = lock) \/ TurnNow(t, "over", NoGroup))
      BY <2>10, TurnShapes DEF Drain, TurnAt, Held
    <3>2. CASE turn' = turn /\ lock' = lock
      BY <2>1, <3>1, <3>2 DEF Held
    <3>3. CASE TurnNow(t, "over", NoGroup)
      BY <2>1, <3>1, <3>3, HeldTurn
    <3> QED BY <3>1, <3>2, <3>3
  <2>9. CASE CancelTurn(t)
    <3>1. CASE TurnNow(t, "over", turn[t].group) /\ turn[t].at = "lock" /\ UNCHANGED hostVars
      <4>1. turn[t].group = NoGroup /\ lock' = lock /\ cell' = cell
        BY <3>1 DEF Held, hostVars
      <4> QED BY <2>1, <3>1, <4>1, HeldTurn
    <3>2. CASE /\ TurnNow(t, "over", NoGroup) /\ lock' = NoCall /\ cell' = cell
               /\ turn[t].at \in {"resolve", "write", "read"}
      <4>1. lock = t
        BY <3>2 DEF Held
      <4> QED BY <2>1, <3>2, <4>1, HeldTurn
    <3>3. CASE /\ TurnNow(t, "kill", turn[t].group) /\ turn[t].at = "handshake" /\ lock' = lock
               /\ cell' = IF cell = turn[t].group THEN NoGroup ELSE cell
      <4>1. lock = t /\ turn[t].group # NoGroup /\ cell' = NoGroup
        BY <3>3 DEF Held
      <4> QED BY <2>1, <3>3, <4>1, HeldTurn
    <3> QED BY <2>9, <3>1, <3>2, <3>3, CancelShape
  <2> QED BY <1>1, <2>2, <2>3, <2>4, <2>5, <2>6, <2>7, <2>8, <2>9, <2>10 DEF TurnStep
<1>2. ASSUME NEW p \in Prepares, BeginPrepare(p) \/ PrepareStep(p) PROVE Held'
  <2>1. turn' = turn /\ lock' = lock /\ cell' = cell
    BY <1>2 DEF BeginPrepare, PrepareStep, PassGate, PrepareResolveFails, SpawnPrepare, ArmPrepare,
         ReadDone, ReadFails, ReadCancelled, KillPrepare, Reap, TurnSide, hostVars
  <2>2. CASE BeginPrepare(p) \/ PassGate(p)
    BY <1>0, <2>1, <2>2, PrepareShapes
       DEF BeginPrepare, PassGate, PrepareAt, PrepareEnds, PrepareNow, prepareVars, Held
  <2>3. CASE PrepareResolveFails(p) \/ KillPrepare(p) \/ Reap(p)
    BY <1>0, <2>1, <2>3, PrepareShapes
       DEF PrepareResolveFails, KillPrepare, Reap, PrepareAt, PrepareEnds, PrepareNow, Held
  <2>4. CASE SpawnPrepare(p) \/ ArmPrepare(p) \/ ReadDone(p) \/ ReadFails(p) \/ ReadCancelled(p)
    <3>1. prepare[p].at \in {"resolve", "spawned", "read"} /\ gate' = gate
      BY <2>4 DEF SpawnPrepare, ArmPrepare, ReadDone, ReadFails, ReadCancelled, PrepareAt, prepareVars
    <3>2. gate = p
      BY <1>0, <3>1 DEF Held
    <3>3. ASSUME NEW stage \in {"spawned", "read", "kill", "reap"}, NEW g, g # NoGroup,
                 PrepareNow(p, stage, g)
          PROVE  Held'
      BY <1>0, <2>1, <3>1, <3>2, <3>3 DEF PrepareNow, Held
    <3>4. CASE SpawnPrepare(p)
      <4>1. spawns + 1 # NoGroup /\ PrepareNow(p, "spawned", spawns + 1)
        BY <1>0, <3>4, PrepareShapes, SidecarAssumption
      <4> QED BY <3>3, <4>1
    <3>5. CASE ArmPrepare(p) \/ ReadDone(p) \/ ReadFails(p) \/ ReadCancelled(p)
      <4>1. prepare[p].at \in {"spawned", "read"}
        BY <3>5 DEF ArmPrepare, ReadDone, ReadFails, ReadCancelled, PrepareAt
      <4>2. prepare[p].group # NoGroup
        BY <1>0, <4>1 DEF Held
      <4>3. \E stage \in {"spawned", "read", "kill", "reap"} : PrepareNow(p, stage, prepare[p].group)
        BY <1>0, <3>5, PrepareShapes
      <4> QED BY <3>3, <4>2, <4>3
    <3> QED BY <2>4, <3>4, <3>5
  <2> QED BY <1>2, <2>2, <2>3, <2>4 DEF PrepareStep
<1>3. ASSUME NEW g \in Groups,
             ServeReady(g) \/ ServeRequest(g) \/ PrepareProcess(g) \/ ProcessDies(g)
      PROVE  Held'
  BY <1>3 DEF ServeReady, ServeRequest, PrepareProcess, ProcessDies, Outside, callVars, prepareVars,
              Held
<1>4. CASE CancelPrepare \/ SignalSweep \/ Exit \/ UNCHANGED vars
  BY <1>4 DEF CancelPrepare, SignalSweep, Exit, TurnSide, vars, callVars, hostVars, prepareVars, Held
<1> QED BY <1>1, <1>2, <1>3, <1>4 DEF Next

\* A step that launches nothing keeps the budget of groups.
LEMMA BudgetKept ==
    ASSUME Budget, spawns' = spawns, WantTurn' \subseteq WantTurn, WantPrepare' \subseteq WantPrepare,
           Typed
    PROVE  Budget'
<1>1. Cardinality(WantTurn') <= Cardinality(WantTurn) /\ Cardinality(WantTurn') \in Nat
  BY WantFinite, FS_Subset, FS_CardinalityType
<1>2. Cardinality(WantPrepare') <= Cardinality(WantPrepare) /\ Cardinality(WantPrepare') \in Nat
  BY WantFinite, FS_Subset, FS_CardinalityType
<1> QED BY <1>1, <1>2, WantFinite, SidecarAssumption DEF Budget, Typed

\* Every step keeps the budget of groups.
LEMMA BudgetStep == Typed /\ Budget /\ [Next]_vars => Budget'
<1> SUFFICES ASSUME Typed, Budget, [Next]_vars PROVE Budget'
  OBVIOUS
<1>0. spawns \in Nat /\ Cardinality(Groups) \in Nat
  BY SidecarAssumption DEF Typed
<1>1. ASSUME NEW t \in Turns, BeginTurn(t) \/ TurnStep(t) \/ CancelTurn(t) PROVE Budget'
  <2>1. WantPrepare' = WantPrepare
    BY <1>1 DEF BeginTurn, TurnStep, CancelTurn, LockChild, ResolveFails, SpawnChild, ArmChild,
           Ready, HandshakeFails, Write, Drain, ChildIsDead, KillChild, PrepareSide, WantPrepare
  <2>2. CASE BeginTurn(t)
    <3> DEFINE Busy == {u \in Turns : turn[u].at \in {"lock", "resolve", "write", "read"}}
    <3>1. WantTurn' = WantTurn \cup {t}
      BY <2>2, TurnShapes DEF BeginTurn, TurnNow, TurnAt, WantTurn
    <3>2. Cardinality(WantTurn') <= Cardinality(WantTurn) + 1 /\ Cardinality(WantTurn') \in Nat
      <4>1. Cardinality(WantTurn \cup {t}) \in {Cardinality(WantTurn), Cardinality(WantTurn) + 1}
        BY WantFinite, FS_AddElement
      <4> QED BY <3>1, <4>1, WantFinite
    <3>3. Cardinality(WantTurn) <= Cardinality(Busy) /\ Cardinality(Busy) \in Nat
      BY SidecarAssumption, FS_Subset, FS_CardinalityType DEF WantTurn
    <3>4. spawns' = spawns /\ spawns + Cardinality(Busy) + Cardinality(WantPrepare) < Cardinality(Groups)
      BY <2>2 DEF BeginTurn, SpawnsLeft, WantPrepare
    <3> HIDE DEF Busy
    <3> QED BY <1>0, <2>1, <3>2, <3>3, <3>4, WantFinite DEF Budget
  <2>3. CASE SpawnChild(t)
    <3>1. WantTurn' = WantTurn \ {t} /\ t \in WantTurn
      BY <2>3, TurnShapes DEF SpawnChild, TurnNow, TurnAt, WantTurn
    <3>2. Cardinality(WantTurn') = Cardinality(WantTurn) - 1
      BY <3>1, WantFinite, FS_RemoveElement
    <3>3. spawns' = spawns + 1
      BY <2>3 DEF SpawnChild
    <3> QED BY <1>0, <2>1, <3>2, <3>3, WantFinite DEF Budget
  <2>4. CASE ~BeginTurn(t) /\ ~SpawnChild(t)
    <3>1. spawns' = spawns
      BY <1>1, <2>4 DEF TurnStep, CancelTurn, LockChild, ResolveFails, ArmChild,
           Ready, HandshakeFails, Write, Drain, ChildIsDead, KillChild
    <3>2. WantTurn' \subseteq WantTurn
      <4>1. CASE CancelTurn(t)
        BY <4>1, CancelShape DEF TurnNow, WantTurn
      <4>2. CASE LockChild(t)
        BY <4>2, TurnShapes DEF LockChild, TurnAt, TurnNow, WantTurn
      <4>3. CASE TurnStep(t) /\ ~LockChild(t)
        BY <2>4, <4>3, TurnShapes DEF TurnStep, TurnNow, WantTurn
      <4> QED BY <1>1, <2>4, <4>1, <4>2, <4>3
    <3> QED BY <2>1, <3>1, <3>2, BudgetKept
  <2> QED BY <2>2, <2>3, <2>4
<1>2. ASSUME NEW p \in Prepares, BeginPrepare(p) \/ PrepareStep(p) PROVE Budget'
  <2>1. WantTurn' = WantTurn
    BY <1>2 DEF BeginPrepare, PrepareStep, PassGate, PrepareResolveFails, SpawnPrepare, ArmPrepare,
         ReadDone, ReadFails, ReadCancelled, KillPrepare, Reap, TurnSide, WantTurn
  <2>2. CASE BeginPrepare(p)
    <3> DEFINE Busy == {u \in Turns : turn[u].at \in {"lock", "resolve", "write", "read"}}
    <3>1. WantPrepare' = WantPrepare \cup {p}
      BY <2>2, PrepareShapes DEF BeginPrepare, PrepareNow, PrepareAt, WantPrepare
    <3>2. Cardinality(WantPrepare') <= Cardinality(WantPrepare) + 1
          /\ Cardinality(WantPrepare') \in Nat
      <4>1. Cardinality(WantPrepare \cup {p}) \in {Cardinality(WantPrepare), Cardinality(WantPrepare) + 1}
        BY WantFinite, FS_AddElement
      <4> QED BY <3>1, <4>1, WantFinite
    <3>3. Cardinality(WantTurn) <= Cardinality(Busy) /\ Cardinality(Busy) \in Nat
      BY SidecarAssumption, FS_Subset, FS_CardinalityType DEF WantTurn
    <3>4. spawns' = spawns /\ spawns + Cardinality(Busy) + Cardinality(WantPrepare) < Cardinality(Groups)
      BY <2>2 DEF BeginPrepare, SpawnsLeft, WantPrepare
    <3> HIDE DEF Busy
    <3> QED BY <1>0, <2>1, <3>2, <3>3, <3>4, WantFinite DEF Budget
  <2>3. CASE SpawnPrepare(p)
    <3>1. WantPrepare' = WantPrepare \ {p} /\ p \in WantPrepare
      BY <2>3, PrepareShapes DEF SpawnPrepare, PrepareNow, PrepareAt, WantPrepare
    <3>2. Cardinality(WantPrepare') = Cardinality(WantPrepare) - 1
      BY <3>1, WantFinite, FS_RemoveElement
    <3>3. spawns' = spawns + 1
      BY <2>3 DEF SpawnPrepare
    <3> QED BY <1>0, <2>1, <3>2, <3>3, WantFinite DEF Budget
  <2>4. CASE ~BeginPrepare(p) /\ ~SpawnPrepare(p)
    <3>1. spawns' = spawns
      BY <1>2, <2>4 DEF PrepareStep, PassGate, PrepareResolveFails, ArmPrepare,
         ReadDone, ReadFails, ReadCancelled, KillPrepare, Reap
    <3>2. WantPrepare' \subseteq WantPrepare
      <4>1. CASE PassGate(p)
        BY <4>1, PrepareShapes DEF PassGate, PrepareAt, PrepareNow, WantPrepare
      <4>2. CASE ~PassGate(p)
        BY <1>2, <2>4, <4>2, PrepareShapes DEF PrepareStep, PrepareNow, WantPrepare
      <4> QED BY <4>1, <4>2
    <3> QED BY <2>1, <3>1, <3>2, BudgetKept
  <2> QED BY <2>2, <2>3, <2>4
<1>3. CASE ~(\E t \in Turns : BeginTurn(t) \/ TurnStep(t) \/ CancelTurn(t))
           /\ ~(\E p \in Prepares : BeginPrepare(p) \/ PrepareStep(p))
  <2>1. spawns' = spawns /\ turn' = turn /\ prepare' = prepare
    BY <1>3 DEF Next, ServeReady, ServeRequest, PrepareProcess, ProcessDies, Outside, callVars,
           CancelPrepare, SignalSweep, Exit, TurnSide, vars
  <2> QED BY <2>1, BudgetKept DEF WantTurn, WantPrepare
<1> QED BY <1>1, <1>2, <1>3

-----------------------------------------------------------------------------
(* What a step may touch.                                                   *)

Touches(h) ==
    \A g \in Groups \ {h} : /\ alive'[g] = alive[g] /\ pipe'[g] = pipe[g]
                            /\ g \in armed' <=> g \in armed

\* A turn launches a group or touches its own; the cell is emptied of its own
\* group or given it; what it lets go of is warm or dead.
LEMMA TurnTouches ==
    ASSUME Typed, Held, Budget, NEW t \in Turns, BeginTurn(t) \/ TurnStep(t) \/ CancelTurn(t)
    PROVE  /\ UNCHANGED <<prepare, gate>> /\ \A u \in Turns \ {t} : turn'[u] = turn[u]
           /\ \/ /\ SpawnChild(t) /\ Touches(spawns + 1) /\ spawns' = spawns + 1
                 /\ turn'[t].group = spawns + 1 /\ cell' = cell /\ spawns + 1 \in Groups
              \/ /\ Touches(turn[t].group) /\ spawns' = spawns
                 /\ \A g \in Groups : alive'[g] \subseteq alive[g]
                 /\ turn'[t].group \in {turn[t].group, NoGroup, cell}
                 /\ cell' = cell \/ (cell' = turn[t].group /\ cell = NoGroup)
                    \/ (cell = turn[t].group /\ cell' = NoGroup)
                 /\ turn[t].group # NoGroup =>
                       \/ turn'[t].group = turn[t].group
                       \/ cell' = turn[t].group
                       \/ alive'[turn[t].group] = {}
<1> DEFINE g == turn[t].group
           Own == /\ Touches(g) /\ spawns' = spawns
                  /\ \A h \in Groups : alive'[h] \subseteq alive[h]
                  /\ turn'[t].group \in {g, NoGroup, cell}
                  /\ cell' = cell \/ (cell' = g /\ cell = NoGroup) \/ (cell = g /\ cell' = NoGroup)
                  /\ g # NoGroup => turn'[t].group = g \/ cell' = g \/ alive'[g] = {}
<1>0. NoGroup \notin Groups /\ NoCall \notin Turns /\ NoCall \notin Prepares
  BY SidecarAssumption
<1>g. turn[t].at \in {"spawned", "handshake", "write", "read", "kill"} => g \in Groups
  BY DEF Held, Typed, TurnCall
<1>1. prepare' = prepare /\ gate' = gate
  BY DEF BeginTurn, TurnStep, CancelTurn, LockChild, ResolveFails, SpawnChild, ArmChild,
         Ready, HandshakeFails, Write, Drain, ChildIsDead, KillChild, PrepareSide, prepareVars
<1>2. \A u \in Turns \ {t} : turn'[u] = turn[u]
  BY TurnShapes, CancelShape DEF TurnNow, TurnStep
<1>3. CASE SpawnChild(t)
  <2>1. turn'[t].group = spawns + 1 /\ spawns + 1 \in Groups
    BY <1>3, TurnShapes DEF TurnNow
  <2>2. Touches(spawns + 1)
    BY <1>3 DEF SpawnChild, Launch, hostVars, Touches, Typed
  <2> QED BY <1>1, <1>2, <1>3, <2>1, <2>2 DEF SpawnChild, hostVars
<1>4. CASE BeginTurn(t) \/ LockChild(t) \/ ResolveFails(t)
  <2>1. turn'[t].group \in {g, NoGroup, cell} /\ (turn'[t].group = g \/ g = NoGroup)
    BY <1>4, TurnShapes DEF TurnNow, BeginTurn, LockChild, ResolveFails, TurnAt, Held
  <2>2. Touches(g) /\ spawns' = spawns /\ alive' = alive /\ cell' = cell
    BY <1>4 DEF BeginTurn, LockChild, ResolveFails, groupVars, hostVars, Touches
  <2>3. Own
    BY <2>1, <2>2
  <2> QED BY <1>1, <1>2, <2>3
<1>5. CASE ArmChild(t) \/ Ready(t) \/ Write(t)
  <2>1. turn'[t].group = g /\ g \in Groups
    BY <1>5, <1>g, TurnShapes DEF TurnNow, ArmChild, Ready, Write, TurnAt
  <2>2. spawns' = spawns /\ alive' = alive
    BY <1>5 DEF ArmChild, Arm, Ready, Write, groupVars
  <2>3. cell' = cell \/ (cell' = g /\ cell = NoGroup)
    BY <1>5 DEF ArmChild, Ready, Write, TurnAt, hostVars, Held
  <2>4. Touches(g)
    BY <1>5 DEF ArmChild, Arm, Ready, Write, groupVars, hostVars, Touches, Typed
  <2>5. Own
    BY <2>1, <2>2, <2>3, <2>4
  <2> QED BY <1>1, <1>2, <2>5
<1>6. CASE HandshakeFails(t) \/ ChildIsDead(t)
  <2>1. turn'[t].group = g
    BY <1>6, TurnShapes DEF TurnNow
  <2>2. spawns' = spawns /\ alive' = alive /\ (cell' = cell \/ (cell = g /\ cell' = NoGroup))
    BY <1>6 DEF HandshakeFails, ChildIsDead, Abandon, Disarm
  <2>3. Touches(g)
    BY <1>6 DEF HandshakeFails, ChildIsDead, Abandon, Disarm, Touches
  <2>4. Own
    BY <2>1, <2>2, <2>3
  <2> QED BY <1>1, <1>2, <2>4
<1>7. CASE Drain(t)
  <2>1. turn'[t].group \in {g, NoGroup} /\ g = cell
    BY <1>7, TurnShapes DEF TurnNow, Drain, TurnAt, Held
  <2>2. spawns' = spawns /\ alive' = alive /\ cell' = cell
    BY <1>7 DEF Drain, groupVars
  <2>3. Touches(g)
    BY <1>7 DEF Drain, groupVars, Touches, Typed
  <2>4. Own
    BY <2>1, <2>2, <2>3
  <2> QED BY <1>1, <1>2, <2>4
<1>8. CASE KillChild(t)
  <2>1. turn'[t].group = NoGroup /\ g \in Groups
    BY <1>8, <1>g, TurnShapes DEF TurnNow, KillChild, TurnAt
  <2>2. spawns' = spawns /\ cell' = cell
    BY <1>8 DEF KillChild
  <2>3. Touches(g)
    BY <1>8 DEF KillChild, KillPgid, Touches, Typed
  <2>4. alive'[g] = {} /\ \A h \in Groups : alive'[h] \subseteq alive[h]
    BY <1>8, <2>1 DEF KillChild, KillPgid, Typed
  <2>5. Own
    BY <2>1, <2>2, <2>3, <2>4
  <2> QED BY <1>1, <1>2, <2>5
<1>9. CASE CancelTurn(t)
  <2>1. spawns' = spawns /\ alive' = alive
    BY <1>9 DEF CancelTurn, Abandon, Disarm, groupVars
  <2>2. Touches(g)
    BY <1>9 DEF CancelTurn, Abandon, Disarm, groupVars, hostVars, Touches, Typed
  <2>3. CASE TurnNow(t, "over", turn[t].group) /\ turn[t].at = "lock" /\ UNCHANGED hostVars
    <3>1. Own
      BY <2>1, <2>2, <2>3 DEF TurnNow, hostVars
    <3> QED BY <1>1, <1>2, <3>1
  <2>4. CASE /\ TurnNow(t, "over", NoGroup) /\ lock' = NoCall /\ cell' = cell
             /\ turn[t].at \in {"resolve", "write", "read"}
    <3>1. g = NoGroup \/ g = cell
      BY <2>4 DEF Held
    <3>2. Own
      BY <2>1, <2>2, <2>4, <3>1 DEF TurnNow
    <3> QED BY <1>1, <1>2, <3>2
  <2>5. CASE /\ TurnNow(t, "kill", turn[t].group) /\ turn[t].at = "handshake" /\ lock' = lock
             /\ cell' = IF cell = turn[t].group THEN NoGroup ELSE cell
    <3>1. Own
      BY <2>1, <2>2, <2>5 DEF TurnNow
    <3> QED BY <1>1, <1>2, <3>1
  <2> QED BY <1>9, <2>3, <2>4, <2>5, CancelShape
<1> QED BY <1>3, <1>4, <1>5, <1>6, <1>7, <1>8, <1>9 DEF TurnStep

\* A download launches a group or touches its own, which it lets go of when it is
\* dead or when its leader has been waited for.
LEMMA PrepareTouches ==
    ASSUME Typed, Held, Budget, NEW p \in Prepares, BeginPrepare(p) \/ PrepareStep(p)
    PROVE  /\ UNCHANGED <<turn, hostVars>> /\ \A q \in Prepares \ {p} : prepare'[q] = prepare[q]
           /\ \/ /\ SpawnPrepare(p) /\ Touches(spawns + 1) /\ spawns' = spawns + 1
                 /\ prepare'[p].group = spawns + 1 /\ spawns + 1 \in Groups
              \/ /\ Touches(prepare[p].group) /\ spawns' = spawns
                 /\ \A g \in Groups : alive'[g] \subseteq alive[g]
                 /\ prepare'[p].group \in {prepare[p].group, NoGroup}
                 /\ prepare[p].group # NoGroup =>
                       \/ prepare'[p].group = prepare[p].group
                       \/ alive'[prepare[p].group] = {}
                       \/ Reap(p)
<1> DEFINE g == prepare[p].group
           Own == /\ Touches(g) /\ spawns' = spawns
                  /\ \A h \in Groups : alive'[h] \subseteq alive[h]
                  /\ prepare'[p].group \in {g, NoGroup}
                  /\ g # NoGroup => prepare'[p].group = g \/ alive'[g] = {} \/ Reap(p)
<1>0. NoGroup \notin Groups
  BY SidecarAssumption
<1>1. UNCHANGED <<turn, hostVars>>
  BY DEF BeginPrepare, PrepareStep, PassGate, PrepareResolveFails, SpawnPrepare, ArmPrepare,
         ReadDone, ReadFails, ReadCancelled, KillPrepare, Reap, TurnSide
<1>2. \A q \in Prepares \ {p} : prepare'[q] = prepare[q]
  BY PrepareShapes DEF PrepareNow, PrepareStep
<1>3. CASE SpawnPrepare(p)
  <2>1. prepare'[p].group = spawns + 1 /\ spawns + 1 \in Groups
    BY <1>3, PrepareShapes DEF PrepareNow
  <2>2. Touches(spawns + 1)
    BY <1>1, <1>3 DEF SpawnPrepare, Launch, hostVars, Touches, Typed
  <2> QED BY <1>1, <1>2, <1>3, <2>1, <2>2 DEF SpawnPrepare
<1>4. CASE BeginPrepare(p) \/ PassGate(p) \/ PrepareResolveFails(p)
  <2>1. prepare'[p].group \in {g, NoGroup} /\ g = NoGroup
    BY <1>4, PrepareShapes DEF PrepareNow, BeginPrepare, PassGate, PrepareResolveFails, PrepareAt, Held
  <2>2. Touches(g) /\ spawns' = spawns /\ alive' = alive
    BY <1>1, <1>4 DEF BeginPrepare, PassGate, PrepareResolveFails, groupVars, hostVars, Touches
  <2>3. Own
    BY <2>1, <2>2
  <2> QED BY <1>1, <1>2, <2>3
<1>5. CASE ArmPrepare(p) \/ ReadDone(p) \/ ReadFails(p) \/ ReadCancelled(p)
  <2>1. prepare'[p].group = g
    BY <1>5, PrepareShapes DEF PrepareNow
  <2>2. Touches(g) /\ spawns' = spawns /\ alive' = alive
    BY <1>1, <1>5
       DEF ArmPrepare, Arm, ReadDone, ReadFails, ReadCancelled, Disarm, groupVars, hostVars, Touches
  <2>3. Own
    BY <2>1, <2>2
  <2> QED BY <1>1, <1>2, <2>3
<1>6. CASE KillPrepare(p)
  <2>1. prepare'[p].group = NoGroup /\ g \in Groups
    BY <1>6, PrepareShapes DEF PrepareNow, KillPrepare, PrepareAt, Held, Typed, PrepareCall
  <2>2. Touches(g) /\ spawns' = spawns
    BY <1>1, <1>6 DEF KillPrepare, KillPgid, hostVars, Touches, Typed
  <2>3. alive'[g] = {} /\ \A h \in Groups : alive'[h] \subseteq alive[h]
    BY <1>6, <2>1 DEF KillPrepare, KillPgid, Typed
  <2>4. Own
    BY <2>1, <2>2, <2>3
  <2> QED BY <1>1, <1>2, <2>4
<1>7. CASE Reap(p)
  <2>1. prepare'[p].group = NoGroup
    BY <1>7, PrepareShapes DEF PrepareNow
  <2>2. Touches(g) /\ spawns' = spawns /\ alive' = alive
    BY <1>1, <1>7 DEF Reap, Disarm, hostVars, Touches
  <2>3. Own
    BY <1>7, <2>1, <2>2
  <2> QED BY <1>1, <1>2, <2>3
<1> QED BY <1>3, <1>4, <1>5, <1>6, <1>7 DEF PrepareStep

\* The processes and the environment change no call's group and launch nothing.
LEMMA OthersTouch ==
    ASSUME Typed, [Next]_vars,
           ~(\E t \in Turns : BeginTurn(t) \/ TurnStep(t) \/ CancelTurn(t)),
           ~(\E p \in Prepares : BeginPrepare(p) \/ PrepareStep(p))
    PROVE  /\ UNCHANGED <<callVars, lock, cell, spawns, armed>>
           /\ \A g \in Groups : alive'[g] \subseteq alive[g]
           /\ \/ UNCHANGED pipe
              \/ \E g \in Groups : (ServeReady(g) \/ ServeRequest(g) \/ PrepareProcess(g))
                                   /\ alive[g] # {}
                                   /\ \A h \in Groups \ {g} : pipe'[h] = pipe[h]
<1>1. CASE \E g \in Groups : ServeReady(g) \/ ServeRequest(g) \/ PrepareProcess(g)
  BY <1>1, ZenonT(40) DEF ServeReady, ServeRequest, PrepareProcess, Outside, groupVars, callVars, Typed
<1>2. CASE \E g \in Groups : ProcessDies(g)
  BY <1>2 DEF ProcessDies, Dies, Outside, callVars, Typed
<1>3. CASE CancelPrepare \/ SignalSweep \/ Exit \/ UNCHANGED vars
  BY <1>3 DEF CancelPrepare, SignalSweep, Exit, KillAllGroups, TurnSide, vars, groupVars, callVars,
              hostVars, prepareVars, Typed
<1> QED BY <1>1, <1>2, <1>3 DEF Next

\* No process is added to a group that has been launched.
LEMMA OnlyFewer ==
    ASSUME Typed, Held, Budget, [Next]_vars, NEW g \in Groups, g <= spawns
    PROVE  alive'[g] \subseteq alive[g]
<1>1. g # spawns + 1
  BY SidecarAssumption DEF Typed
<1>2. CASE \E t \in Turns : BeginTurn(t) \/ TurnStep(t) \/ CancelTurn(t)
  <2>1. Touches(spawns + 1) \/ \A h \in Groups : alive'[h] \subseteq alive[h]
    BY <1>2, TurnTouches
  <2> QED BY <1>1, <2>1 DEF Touches
<1>3. CASE \E p \in Prepares : BeginPrepare(p) \/ PrepareStep(p)
  <2>1. Touches(spawns + 1) \/ \A h \in Groups : alive'[h] \subseteq alive[h]
    BY <1>3, PrepareTouches
  <2> QED BY <1>1, <2>1 DEF Touches
<1>4. CASE ~(\E t \in Turns : BeginTurn(t) \/ TurnStep(t) \/ CancelTurn(t))
           /\ ~(\E p \in Prepares : BeginPrepare(p) \/ PrepareStep(p))
  BY <1>4, OthersTouch
<1> QED BY <1>2, <1>3, <1>4

\* A group that is launched is new, and nobody else's.
LEMMA FreshStep == Typed /\ Held /\ Budget /\ Fresh /\ Apart /\ Owned /\ [Next]_vars => Fresh' /\ Apart'
<1> SUFFICES ASSUME Typed, Held, Budget, Fresh, Apart, Owned, [Next]_vars PROVE Fresh' /\ Apart'
  OBVIOUS
<1>0. /\ NoGroup \notin Groups /\ NoGroup = 0 /\ Groups \subseteq Nat /\ spawns \in Nat
      /\ cell \in Nat /\ \A t \in Turns : turn[t].group \in Nat
      /\ \A p \in Prepares : prepare[p].group \in Nat
  BY SidecarAssumption DEF Typed, TurnCall, PrepareCall
<1>1. ASSUME NEW t \in Turns, BeginTurn(t) \/ TurnStep(t) \/ CancelTurn(t) PROVE Fresh' /\ Apart'
  <2>1. CASE /\ SpawnChild(t) /\ Touches(spawns + 1) /\ spawns' = spawns + 1
             /\ turn'[t].group = spawns + 1 /\ cell' = cell /\ spawns + 1 \in Groups
    <3>1. Fresh'
      BY <1>0, <1>1, <2>1, TurnTouches DEF Fresh, Touches
    <3>2. Apart'
      BY <1>0, <1>1, <2>1, TurnTouches DEF Fresh, Apart
    <3> QED BY <3>1, <3>2
  <2>2. CASE /\ Touches(turn[t].group) /\ spawns' = spawns
             /\ turn'[t].group \in {turn[t].group, NoGroup, cell}
             /\ cell' \in {cell, turn[t].group, NoGroup}
    <3>1. Fresh'
      BY <1>0, <1>1, <2>2, TurnTouches DEF Fresh, Touches
    <3>2. Apart'
      BY <1>0, <1>1, <2>2, TurnTouches DEF Apart
    <3> QED BY <3>1, <3>2
  <2> QED BY <1>1, <2>1, <2>2, TurnTouches
<1>2. ASSUME NEW p \in Prepares, BeginPrepare(p) \/ PrepareStep(p) PROVE Fresh' /\ Apart'
  <2>1. CASE /\ SpawnPrepare(p) /\ Touches(spawns + 1) /\ spawns' = spawns + 1
             /\ prepare'[p].group = spawns + 1 /\ spawns + 1 \in Groups
    <3>1. Fresh'
      BY <1>0, <1>2, <2>1, PrepareTouches DEF Fresh, Touches, hostVars
    <3>2. Apart'
      BY <1>0, <1>2, <2>1, PrepareTouches DEF Fresh, Apart, hostVars
    <3> QED BY <3>1, <3>2
  <2>2. CASE /\ Touches(prepare[p].group) /\ spawns' = spawns
             /\ prepare'[p].group \in {prepare[p].group, NoGroup}
    <3>1. Fresh'
      BY <1>0, <1>2, <2>2, PrepareTouches DEF Fresh, Touches, hostVars
    <3>2. Apart'
      BY <1>0, <1>2, <2>2, PrepareTouches DEF Apart, hostVars
    <3> QED BY <3>1, <3>2
  <2> QED BY <1>2, <2>1, <2>2, PrepareTouches
<1>3. CASE /\ ~(\E t \in Turns : BeginTurn(t) \/ TurnStep(t) \/ CancelTurn(t))
           /\ ~(\E p \in Prepares : BeginPrepare(p) \/ PrepareStep(p))
  <2>1. Apart'
    BY <1>3, OthersTouch DEF Apart, callVars
  <2>2. Fresh'
    <3>1. ASSUME NEW g \in Groups, g > spawns PROVE pipe'[g] = NoPipe
      BY <1>3, <3>1, OthersTouch DEF Fresh
    <3>2. ASSUME NEW g \in Groups, g > spawns PROVE alive'[g] = {} /\ g \notin armed'
      BY <1>3, <3>2, OthersTouch DEF Fresh
    <3> QED BY <1>3, <3>1, <3>2, OthersTouch DEF Fresh, callVars
  <2> QED BY <2>1, <2>2
<1> QED BY <1>1, <1>2, <1>3

-----------------------------------------------------------------------------
(* Owners.                                                                  *)

\* A turn adds no line to a stdout but the rest of a torn one.
LEMMA TurnLines ==
    ASSUME Typed, Held, Budget, NEW t \in Turns, BeginTurn(t) \/ TurnStep(t) \/ CancelTurn(t),
           NEW g \in Groups, NEW i \in DOMAIN pipe'[g].out
    PROVE  \/ pipe'[g].out[i].kind = "tail"
           \/ \E j \in DOMAIN pipe[g].out : pipe'[g].out[i] = pipe[g].out[j]
<1> DEFINE h == turn[t].group
<1>1. turn[t].at \in {"handshake", "write", "read", "kill"} => h \in Groups
  BY DEF Held, Typed, TurnCall
<1>2. pipe[g].out \in Seq(Lines) /\ pipe \in [Groups -> Pipe] /\ pipe[g] \in Pipe
  BY PipesTyped DEF Typed
<1>3. CASE pipe'[g].out = pipe[g].out
  BY <1>3
<1>4. CASE pipe[g].out # <<>> /\ pipe'[g].out = Tail(pipe[g].out)
  BY <1>2, <1>4
<1>5. CASE pipe[g].out # <<>> /\ pipe'[g].out = <<Line("tail", NoCall)>> \o Tail(pipe[g].out)
  <2>1. Tail(pipe[g].out) \in Seq(Lines)
    BY <1>2, <1>5, HeadTyped
  <2>2. CASE i = 1
    BY <1>5, <2>1, <2>2 DEF Line
  <2>3. CASE i # 1
    BY <1>2, <1>5, <2>1, <2>3, SMTT(30)
  <2> QED BY <2>2, <2>3
<1>6. CASE pipe'[g].out = <<>>
  BY <1>6
<1> QED
  <2>1. CASE BeginTurn(t) \/ LockChild(t) \/ ResolveFails(t) \/ SpawnChild(t) \/ ArmChild(t)
             \/ HandshakeFails(t) \/ ChildIsDead(t)
    BY <1>3, <2>1 DEF BeginTurn, LockChild, ResolveFails, SpawnChild, ArmChild, HandshakeFails,
                      ChildIsDead, hostVars
  <2>2. CASE Ready(t) \/ Drain(t)
    <3>1. pipe[h].out # <<>> /\ pipe' = [pipe EXCEPT ![h].out = Tail(@)]
      BY <2>2 DEF Ready, Drain
    <3>2. CASE g = h
      <4>1. pipe'[g].out = Tail(pipe[g].out)
        BY <1>2, <3>1, <3>2 DEF Pipe
      <4> QED BY <1>4, <3>1, <3>2, <4>1
    <3>3. CASE g # h
      BY <1>2, <1>3, <3>1, <3>3
    <3> QED BY <3>2, <3>3
  <2>3. CASE Write(t)
    BY <1>2, <1>3, <2>3 DEF Write, Pipe
  <2>4. CASE KillChild(t)
    BY <1>2, <1>3, <1>6, <2>4 DEF KillChild, NoPipe
  <2>5. CASE CancelTurn(t)
    <3>1. \/ pipe' = pipe
          \/ pipe' = [pipe EXCEPT ![h].torn = TRUE]
          \/ \E x : pipe' = [pipe EXCEPT ![h].in = x, ![h].torn = FALSE]
          \/ /\ pipe[h].out # <<>>
             /\ pipe' = [pipe EXCEPT ![h].out = <<Line("tail", NoCall)>> \o Tail(@)]
      BY <2>5 DEF CancelTurn, hostVars
    <3>2. CASE pipe' = pipe \/ pipe' = [pipe EXCEPT ![h].torn = TRUE]
      <4>1. CASE pipe' = [pipe EXCEPT ![h].torn = TRUE]
        <5>1. pipe'[g].out = pipe[g].out
          BY <1>2, <4>1 DEF Pipe
        <5> QED BY <1>3, <5>1
      <4> QED BY <1>3, <3>2, <4>1
    <3>3. CASE \E x : pipe' = [pipe EXCEPT ![h].in = x, ![h].torn = FALSE]
      <4>1. PICK x : pipe' = [pipe EXCEPT ![h].in = x, ![h].torn = FALSE]
        BY <3>3
      <4>2. pipe'[g].out = pipe[g].out
        BY <1>2, <4>1 DEF Pipe
      <4> QED BY <1>3, <4>2
    <3>4. CASE /\ pipe[h].out # <<>>
               /\ pipe' = [pipe EXCEPT ![h].out = <<Line("tail", NoCall)>> \o Tail(@)]
      BY <1>2, <1>3, <1>5, <3>4 DEF Pipe
    <3> QED BY <3>1, <3>2, <3>3, <3>4
  <2> QED BY <2>1, <2>2, <2>3, <2>4, <2>5 DEF TurnStep

\* GroupChild: every step keeps each process with an owner.
LEMMA OwnedStep == Typed /\ Held /\ Budget /\ Fresh /\ Apart /\ Owned /\ [Next]_vars => Owned'
<1> SUFFICES ASSUME Typed, Held, Budget, Fresh, Apart, Owned, [Next]_vars PROVE Owned'
  OBVIOUS
<1>0. /\ NoGroup \notin Groups /\ Groups \subseteq Nat /\ spawns \in Nat
      /\ \A p \in Prepares : prepare[p].group \in Groups \cup {NoGroup}
      /\ \A p \in Prepares : prepare[p].at = "reap" => prepare[p].group \in Groups
  BY SidecarAssumption DEF Typed, PrepareCall, Held
<1>1. ASSUME NEW t \in Turns, BeginTurn(t) \/ TurnStep(t) \/ CancelTurn(t) PROVE Owned'
  <2>1. ASSUME NEW g \in Groups, alive'[g] # {} PROVE Owner(g)'
    <3>1. CASE turn'[t].group = g \/ cell' = g
      BY <3>1 DEF Owner
    <3>2. CASE turn'[t].group # g /\ cell' # g
      <4>1. alive[g] # {} /\ turn[t].group # g /\ cell # g
        <5>1. CASE SpawnChild(t) /\ Touches(spawns + 1) /\ turn'[t].group = spawns + 1 /\ cell' = cell
          <6>1. alive'[g] = alive[g] /\ alive[g] # {}
            BY <2>1, <3>2, <5>1 DEF Touches
          <6>2. turn[t].group # g
            BY <1>0, <5>1 DEF SpawnChild, TurnAt, Held
          <6> QED BY <3>2, <5>1, <6>1, <6>2
        <5>2. CASE /\ \A h \in Groups : alive'[h] \subseteq alive[h]
                   /\ cell' = cell \/ (cell' = turn[t].group /\ cell = NoGroup)
                      \/ (cell = turn[t].group /\ cell' = NoGroup)
                   /\ turn[t].group # NoGroup =>
                         \/ turn'[t].group = turn[t].group
                         \/ cell' = turn[t].group
                         \/ alive'[turn[t].group] = {}
          BY <1>0, <2>1, <3>2, <5>2
        <5> QED BY <1>1, <5>1, <5>2, TurnTouches
      <4>2. Owner(g)
        BY <4>1 DEF Owned
      <4> QED BY <1>1, <4>1, <4>2, TurnTouches DEF Owner
    <3> QED BY <3>1, <3>2
  <2>2. ASSUME NEW g \in Groups, NEW i \in DOMAIN pipe'[g].out, pipe'[g].out[i].kind = "done"
        PROVE  "worker" \notin alive'[g]
    <3>1. PICK j \in DOMAIN pipe[g].out : pipe'[g].out[i] = pipe[g].out[j]
      BY <1>1, <2>2, TurnLines
    <3>2. "worker" \notin alive[g] /\ pipe[g] # NoPipe
      BY <2>2, <3>1 DEF Owned, NoPipe
    <3>3. g <= spawns
      BY <1>0, <3>2 DEF Fresh
    <3> QED BY <3>2, <3>3, OnlyFewer
  <2>3. ASSUME NEW p \in Prepares, prepare'[p].at = "reap"
        PROVE  "worker" \notin alive'[prepare'[p].group]
    <3>1. prepare'[p] = prepare[p] /\ prepare[p].group \in Groups /\ prepare[p].group <= spawns
      BY <1>0, <1>1, <2>3, TurnTouches DEF Fresh
    <3>2. "worker" \notin alive[prepare[p].group]
      BY <2>3, <3>1 DEF Owned
    <3> QED BY <3>1, <3>2, OnlyFewer
  <2> QED BY <2>1, <2>2, <2>3 DEF Owned
<1>2. ASSUME NEW p \in Prepares, BeginPrepare(p) \/ PrepareStep(p) PROVE Owned'
  <2>0. pipe' = pipe
    BY <1>2, PrepareTouches DEF hostVars
  <2>1. ASSUME NEW g \in Groups, alive'[g] # {} PROVE Owner(g)'
    <3>1. CASE prepare'[p].group = g \/ cell' = g
      BY <3>1 DEF Owner
    <3>2. CASE Reap(p) /\ prepare[p].group = g
      BY <1>0, <2>1, <3>2 DEF Reap, Disarm, PrepareAt, Owned, Typed, Processes
    <3>3. CASE prepare'[p].group # g /\ cell' # g /\ ~(Reap(p) /\ prepare[p].group = g)
      <4>1. alive[g] # {} /\ prepare[p].group # g /\ cell # g
        <5>1. CASE SpawnPrepare(p) /\ Touches(spawns + 1) /\ prepare'[p].group = spawns + 1
          <6>1. alive'[g] = alive[g] /\ alive[g] # {}
            BY <2>1, <3>3, <5>1 DEF Touches
          <6>2. prepare[p].group # g
            BY <1>0, <5>1 DEF SpawnPrepare, PrepareAt, Held
          <6> QED BY <1>2, <3>3, <6>1, <6>2, PrepareTouches DEF hostVars
        <5>2. CASE /\ \A h \in Groups : alive'[h] \subseteq alive[h]
                   /\ prepare[p].group # NoGroup =>
                         \/ prepare'[p].group = prepare[p].group
                         \/ alive'[prepare[p].group] = {}
                         \/ Reap(p)
          BY <1>0, <1>2, <2>1, <3>3, <5>2, PrepareTouches DEF hostVars
        <5> QED BY <1>2, <5>1, <5>2, PrepareTouches
      <4>2. Owner(g)
        BY <4>1 DEF Owned
      <4> QED BY <1>2, <4>1, <4>2, PrepareTouches DEF Owner, hostVars
    <3> QED BY <3>1, <3>2, <3>3
  <2>2. ASSUME NEW g \in Groups, NEW i \in DOMAIN pipe'[g].out, pipe'[g].out[i].kind = "done"
        PROVE  "worker" \notin alive'[g]
    <3>1. "worker" \notin alive[g] /\ pipe[g] # NoPipe
      BY <2>0, <2>2 DEF Owned, NoPipe
    <3>2. g <= spawns
      BY <1>0, <3>1 DEF Fresh
    <3> QED BY <3>1, <3>2, OnlyFewer
  <2>3. ASSUME NEW q \in Prepares, prepare'[q].at = "reap"
        PROVE  "worker" \notin alive'[prepare'[q].group]
    <3>1. CASE ReadDone(p) /\ q = p
      <4>1. prepare'[p].group = prepare[p].group /\ prepare[p].group \in Groups
            /\ alive' = alive /\ pipe[prepare[p].group].out # <<>>
            /\ Head(pipe[prepare[p].group].out).kind = "done"
        BY <1>0, <3>1, PrepareShapes DEF ReadDone, PrepareNow, PrepareAt, Held, groupVars
      <4>2. pipe[prepare[p].group].out \in Seq(Lines)
        BY <4>1, PipesTyped
      <4>3. 1 \in DOMAIN pipe[prepare[p].group].out
            /\ pipe[prepare[p].group].out[1].kind = "done"
        BY <4>1, <4>2
      <4> QED BY <3>1, <4>1, <4>3 DEF Owned
    <3>2. CASE ~(ReadDone(p) /\ q = p)
      <4>1. prepare'[q] = prepare[q]
        <5>1. CASE q = p
          BY <1>2, <2>3, <3>2, <5>1, PrepareShapes DEF PrepareStep, PrepareNow
        <5>2. CASE q # p
          BY <1>2, <5>2, PrepareTouches
        <5> QED BY <5>1, <5>2
      <4>2. prepare[q].group \in Groups /\ prepare[q].group <= spawns
            /\ "worker" \notin alive[prepare[q].group]
        BY <1>0, <2>3, <4>1 DEF Fresh, Owned
      <4> QED BY <4>1, <4>2, OnlyFewer
    <3> QED BY <3>1, <3>2
  <2> QED BY <2>1, <2>2, <2>3 DEF Owned
<1>3. CASE /\ ~(\E t \in Turns : BeginTurn(t) \/ TurnStep(t) \/ CancelTurn(t))
           /\ ~(\E p \in Prepares : BeginPrepare(p) \/ PrepareStep(p))
  <2>1. ASSUME NEW g \in Groups, alive'[g] # {} PROVE Owner(g)'
    <3>1. Owner(g)
      BY <1>3, <2>1, OthersTouch DEF Owned
    <3> QED BY <1>3, <3>1, OthersTouch DEF Owner, callVars
  <2>2. ASSUME NEW p \in Prepares, prepare'[p].at = "reap"
        PROVE  "worker" \notin alive'[prepare'[p].group]
    BY <1>0, <1>3, <2>2, OthersTouch DEF callVars, Owned
  <2>3. ASSUME NEW g \in Groups, NEW i \in DOMAIN pipe'[g].out, pipe'[g].out[i].kind = "done"
        PROVE  "worker" \notin alive'[g]
    <3>0. pipe[g] \in Pipe /\ pipe \in [Groups -> Pipe] /\ pipe[g].out \in Seq(Lines)
          /\ alive'[g] \subseteq alive[g]
      BY <1>3, PipesTyped, OthersTouch DEF Typed
    <3>1. CASE pipe'[g] = pipe[g]
      BY <2>3, <3>0, <3>1 DEF Owned
    <3>2. CASE ServeReady(g)
      <4>1. pipe'[g].out = <<Line("ready", NoCall)>>
        BY <3>0, <3>2 DEF ServeReady, Pipe
      <4> QED BY <2>3, <4>1 DEF Line
    <3>3. CASE ServeRequest(g)
      <4>1. \/ pipe'[g].out = pipe[g].out
            \/ pipe'[g].out = Append(pipe[g].out, Line("wav", Head(pipe[g].in)))
            \/ pipe'[g].out = Append(pipe[g].out, Line("refused", Head(pipe[g].in)))
        BY <3>0, <3>3 DEF ServeRequest, Pipe
      <4>3. Line("wav", Head(pipe[g].in)).kind # "done" /\ Line("refused", Head(pipe[g].in)).kind # "done"
        BY DEF Line
      <4>2. PICK j \in DOMAIN pipe[g].out : pipe[g].out[j].kind = "done"
        <5>1. ASSUME NEW x, x.kind # "done", pipe'[g].out = Append(pipe[g].out, x)
              PROVE  \E j \in DOMAIN pipe[g].out : pipe[g].out[j].kind = "done"
          <6>1. i # Len(pipe[g].out) + 1
            BY <2>3, <3>0, <5>1
          <6> QED BY <2>3, <3>0, <5>1, <6>1
        <5>2. CASE pipe'[g].out = pipe[g].out
          BY <2>3, <5>2
        <5> QED BY <4>1, <4>3, <5>1, <5>2
      <4> QED BY <3>0, <4>2 DEF Owned
    <3>4. CASE PrepareProcess(g)
      BY <3>4 DEF PrepareProcess, Typed
    <3> QED BY <1>3, <3>1, <3>2, <3>3, <3>4, OthersTouch
  <2> QED BY <2>1, <2>2, <2>3 DEF Owned
<1> QED BY <1>1, <1>2, <1>3

-----------------------------------------------------------------------------
(* The list of the signal handler.                                          *)

\* SIDECAR_GROUPS: every step keeps the groups in use on the list.
LEMMA ListedStep == Typed /\ Held /\ Budget /\ Apart /\ Listed /\ [Next]_vars => Listed'
<1> SUFFICES ASSUME Typed, Held, Budget, Apart, Listed, [Next]_vars PROVE Listed'
  OBVIOUS
<1>0. /\ NoGroup \notin Groups /\ NoCall \notin Turns /\ NoCall \notin Prepares
      /\ cell \in Groups \cup {NoGroup}
      /\ \A t \in Turns : turn[t].group \in Groups \cup {NoGroup}
      /\ \A p \in Prepares : prepare[p].group \in Groups \cup {NoGroup}
  BY SidecarAssumption DEF Typed, TurnCall, PrepareCall
<1>1. ASSUME NEW t \in Turns, BeginTurn(t) \/ TurnStep(t) \/ CancelTurn(t) PROVE Listed'
  <2>0. prepare' = prepare /\ \A u \in Turns \ {t} : turn'[u] = turn[u]
    BY <1>1, TurnTouches
  <2>1. ASSUME armed \subseteq armed', cell' = cell,
               turn'[t].at \in {"handshake", "write", "read"} => turn'[t].group \in armed'
        PROVE  Listed'
    BY <2>0, <2>1 DEF Listed
  <2>2. CASE BeginTurn(t) \/ ResolveFails(t) \/ SpawnChild(t) \/ KillChild(t)
    <3>1. armed' = armed /\ cell' = cell
      BY <2>2 DEF BeginTurn, ResolveFails, SpawnChild, Launch, KillChild, KillPgid, groupVars, hostVars
    <3>2. turn'[t].at \in {"lock", "over", "spawned"}
      BY <2>2, TurnShapes DEF TurnNow
    <3> QED BY <2>1, <3>1, <3>2
  <2>3. CASE LockChild(t)
    <3>1. TurnNow(t, IF cell = NoGroup THEN "resolve" ELSE "write", cell)
      BY <2>3, TurnShapes
    <3>2. armed' = armed /\ cell' = cell
      BY <2>3 DEF LockChild, groupVars
    <3>3. turn'[t].at \in {"handshake", "write", "read"} => turn'[t].group \in armed
      BY <3>1 DEF TurnNow, Listed
    <3> QED BY <2>1, <3>2, <3>3
  <2>4. CASE ArmChild(t) \/ Write(t)
    <3>1. turn'[t].group = turn[t].group
      BY <2>4, TurnShapes DEF TurnNow
    <3>2. armed \subseteq armed' /\ cell' = cell /\ turn[t].group \in armed'
      BY <2>4 DEF ArmChild, Arm, Write, TurnAt, groupVars, hostVars, Listed
    <3> QED BY <2>1, <3>1, <3>2
  <2>5. CASE Ready(t)
    <3>1. turn'[t].group = turn[t].group /\ armed' = armed /\ cell' = turn[t].group
          /\ turn[t].group \in armed
      BY <2>5, TurnShapes DEF TurnNow, Ready, TurnAt, groupVars, Listed
    <3> QED BY <2>0, <3>1 DEF Listed
  <2>6. CASE Drain(t)
    <3>1. armed' = armed /\ cell' = cell /\ (turn' = turn \/ turn'[t].at = "over")
      BY <2>6, TurnShapes DEF TurnNow, Drain, groupVars
    <3> QED BY <2>1, <3>1 DEF Listed
  <2>7. ASSUME turn[t].at \in {"handshake", "write", "read"}, armed' = armed \ {turn[t].group},
               TurnNow(t, "kill", turn[t].group),
               cell' = IF cell = turn[t].group THEN NoGroup ELSE cell
        PROVE  Listed'
    <3>1. lock = t /\ turn[t].group # NoGroup /\ cell' = NoGroup
      BY <2>7 DEF Held
    <3>2. ASSUME NEW u \in Turns PROVE turn'[u].at \notin {"handshake", "write", "read"}
      BY <2>0, <2>7, <3>1 DEF TurnNow, Held
    <3>3. ASSUME NEW p \in Prepares, prepare[p].at \in {"read", "reap"}
          PROVE  prepare[p].group \in armed'
      <4>1. prepare[p].group # NoGroup /\ prepare[p].group \in armed
        BY <3>3 DEF Held, Listed
      <4> QED BY <2>7, <4>1 DEF Apart
    <3> QED BY <2>0, <3>1, <3>2, <3>3 DEF Listed
  <2>8. CASE HandshakeFails(t) \/ ChildIsDead(t)
    <3>1. TurnNow(t, "kill", turn[t].group)
      BY <2>8, TurnShapes
    <3> QED BY <2>7, <2>8, <3>1 DEF HandshakeFails, ChildIsDead, TurnAt, Abandon, Disarm
  <2>9. CASE CancelTurn(t)
    <3>1. CASE turn[t].at = "handshake"
      <4>1. TurnNow(t, "kill", turn[t].group)
        BY <2>9, <3>1, CancelShape
      <4> QED BY <2>7, <2>9, <3>1, <4>1 DEF CancelTurn, TurnAt, Abandon, Disarm
    <3>2. CASE turn[t].at # "handshake"
      <4>1. turn'[t].at = "over" /\ cell' = cell
        BY <2>9, <3>2, CancelShape DEF TurnNow, hostVars
      <4>2. armed' = armed
        BY <2>9, <3>2 DEF CancelTurn, TurnAt, groupVars
      <4> QED BY <2>1, <4>1, <4>2
    <3> QED BY <3>1, <3>2
  <2> QED BY <1>1, <2>2, <2>3, <2>4, <2>5, <2>6, <2>8, <2>9 DEF TurnStep
<1>2. ASSUME NEW p \in Prepares, BeginPrepare(p) \/ PrepareStep(p) PROVE Listed'
  <2>0. turn' = turn /\ cell' = cell /\ \A q \in Prepares \ {p} : prepare'[q] = prepare[q]
    BY <1>2, PrepareTouches DEF hostVars
  <2>1. ASSUME armed \subseteq armed',
               prepare'[p].at \in {"read", "reap"} => prepare'[p].group \in armed'
        PROVE  Listed'
    BY <2>0, <2>1 DEF Listed
  <2>2. CASE BeginPrepare(p) \/ PassGate(p) \/ PrepareResolveFails(p) \/ SpawnPrepare(p)
             \/ KillPrepare(p)
    <3>1. armed' = armed
      BY <2>2 DEF BeginPrepare, PassGate, PrepareResolveFails, SpawnPrepare, Launch, KillPrepare,
             KillPgid, groupVars
    <3>2. prepare'[p].at \in {"gate", "over", "resolve", "spawned"}
      BY <2>2, PrepareShapes DEF PrepareNow
    <3> QED BY <2>1, <3>1, <3>2
  <2>3. CASE ArmPrepare(p) \/ ReadDone(p)
    <3>1. prepare'[p].group = prepare[p].group
      BY <2>3, PrepareShapes DEF PrepareNow
    <3>2. armed \subseteq armed' /\ prepare[p].group \in armed'
      BY <2>3 DEF ArmPrepare, Arm, ReadDone, PrepareAt, groupVars, Listed
    <3> QED BY <2>1, <3>1, <3>2
  <2>4. CASE ReadFails(p) \/ ReadCancelled(p) \/ Reap(p)
    <3>1. prepare[p].at \in {"read", "reap"} /\ armed' = armed \ {prepare[p].group}
      BY <2>4 DEF ReadFails, ReadCancelled, Reap, PrepareAt, Disarm
    <3>2. prepare'[p].at \in {"kill", "over"}
      BY <2>4, PrepareShapes DEF PrepareNow
    <3>3. gate = p /\ prepare[p].group # NoGroup
      BY <3>1 DEF Held
    <3>4. ASSUME NEW q \in Prepares PROVE prepare'[q].at \notin {"read", "reap"}
      BY <2>0, <3>2, <3>3 DEF Held
    <3>5. cell # NoGroup => cell \in armed'
      BY <3>1, <3>3 DEF Apart, Listed
    <3>6. ASSUME NEW t \in Turns, turn[t].at \in {"handshake", "write", "read"}
          PROVE  turn[t].group \in armed'
      BY <3>1, <3>3, <3>6 DEF Apart, Listed
    <3> QED BY <2>0, <3>4, <3>5, <3>6 DEF Listed
  <2> QED BY <1>2, <2>2, <2>3, <2>4 DEF PrepareStep
<1>3. CASE /\ ~(\E t \in Turns : BeginTurn(t) \/ TurnStep(t) \/ CancelTurn(t))
           /\ ~(\E p \in Prepares : BeginPrepare(p) \/ PrepareStep(p))
  BY <1>3, OthersTouch DEF Listed, callVars
<1> QED BY <1>1, <1>2, <1>3

-----------------------------------------------------------------------------
(* The pipes.                                                               *)

\* Only the turn that holds the lock changes a pipe.
LEMMA QuietPipes ==
    ASSUME Typed, Held, Budget, NEW t \in Turns, BeginTurn(t) \/ TurnStep(t) \/ CancelTurn(t)
    PROVE  pipe' = pipe \/ (lock = t /\ turn[t].at \in {"handshake", "write", "read", "kill"})
BY DEF BeginTurn, TurnStep, CancelTurn, LockChild, ResolveFails, SpawnChild, ArmChild,
       Ready, HandshakeFails, Write, Drain, ChildIsDead, KillChild, TurnAt, Held, hostVars

\* Every step keeps the pipes of a loading child free of requests and replies.
LEMMA SilentStep == Typed /\ Held /\ Budget /\ Fresh /\ Apart /\ Silent /\ [Next]_vars => Silent'
<1> SUFFICES ASSUME Typed, Held, Budget, Fresh, Apart, Silent, [Next]_vars,
                    NEW u \in Turns, turn'[u].at \in {"spawned", "handshake"}
             PROVE  /\ pipe'[turn'[u].group].in = <<>>
                    /\ \A i \in DOMAIN pipe'[turn'[u].group].out :
                          pipe'[turn'[u].group].out[i].kind = "ready"
  BY DEF Silent
<1> DEFINE Goal == /\ pipe'[turn'[u].group].in = <<>>
                   /\ \A i \in DOMAIN pipe'[turn'[u].group].out :
                         pipe'[turn'[u].group].out[i].kind = "ready"
<1>0. /\ NoGroup \notin Groups /\ Groups \subseteq Nat /\ spawns \in Nat
      /\ pipe \in [Groups -> Pipe]
  BY SidecarAssumption DEF Typed
<1>1. ASSUME turn'[u] = turn[u], pipe'[turn[u].group] = pipe[turn[u].group] PROVE Goal
  BY <1>1 DEF Silent
<1>h. turn[u].at \in {"spawned", "handshake"} => turn[u].group \in Groups /\ lock = u
  BY DEF Held, Typed, TurnCall
<1>2. ASSUME NEW t \in Turns, BeginTurn(t) \/ TurnStep(t) \/ CancelTurn(t) PROVE Goal
  <2>1. CASE u # t
    <3>1. turn'[u] = turn[u]
      BY <1>2, <2>1, TurnTouches
    <3>2. pipe' = pipe
      BY <1>2, <1>h, <2>1, <3>1, QuietPipes
    <3> QED BY <1>1, <3>1, <3>2
  <2>2. CASE u = t /\ SpawnChild(t)
    <3>1. turn'[u].group = spawns + 1 /\ spawns + 1 \in Groups
      BY <2>2, TurnShapes DEF TurnNow
    <3>2. pipe'[spawns + 1] = NoPipe
      BY <1>0, <2>2, <3>1 DEF SpawnChild, hostVars, Fresh
    <3> QED BY <3>1, <3>2 DEF NoPipe
  <2>3. CASE u = t /\ ArmChild(t)
    <3>1. turn'[u].group = turn[u].group /\ turn[u].at = "spawned" /\ pipe' = pipe
      BY <2>3, TurnShapes DEF TurnNow, ArmChild, TurnAt, hostVars
    <3> QED BY <3>1 DEF Silent
  <2>4. CASE u = t /\ ~SpawnChild(t) /\ ~ArmChild(t)
    <3>1. CASE Drain(t)
      BY <2>4, <3>1, TurnShapes DEF TurnNow, Drain, TurnAt
    <3>2. CASE CancelTurn(t)
      BY <2>4, <3>2, CancelShape DEF TurnNow
    <3>3. CASE ~Drain(t) /\ ~CancelTurn(t)
      BY <1>2, <2>4, <3>3, TurnShapes DEF TurnNow, TurnStep
    <3> QED BY <3>1, <3>2, <3>3
  <2> QED BY <2>1, <2>2, <2>3, <2>4
<1>3. ASSUME NEW p \in Prepares, BeginPrepare(p) \/ PrepareStep(p) PROVE Goal
  BY <1>1, <1>3, PrepareTouches DEF hostVars
<1>4. CASE /\ ~(\E t \in Turns : BeginTurn(t) \/ TurnStep(t) \/ CancelTurn(t))
           /\ ~(\E p \in Prepares : BeginPrepare(p) \/ PrepareStep(p))
  <2> DEFINE g == turn[u].group
  <2>1. turn' = turn /\ prepare' = prepare
    BY <1>4, OthersTouch DEF callVars
  <2>2. g \in Groups /\ pipe[g].in = <<>>
    BY <1>h, <2>1 DEF Silent
  <2>3. CASE pipe'[g] = pipe[g]
    BY <1>1, <2>1, <2>3
  <2>4. CASE ServeReady(g)
    <3>1. pipe'[g].in = <<>> /\ pipe'[g].out = <<Line("ready", NoCall)>>
      BY <1>0, <2>2, <2>4 DEF ServeReady, Pipe
    <3> QED BY <2>1, <3>1 DEF Line
  <2>5. ~ServeRequest(g)
    BY <2>2 DEF ServeRequest
  <2>6. ~PrepareProcess(g)
    BY <1>0, <2>2 DEF PrepareProcess, IsPrepare, Apart
  <2>7. pipe'[g] = pipe[g] \/ ServeReady(g) \/ ServeRequest(g) \/ PrepareProcess(g)
    BY <1>4, <2>2, OthersTouch
  <2> QED BY <2>3, <2>4, <2>5, <2>6, <2>7
<1> QED BY <1>2, <1>3, <1>4

-----------------------------------------------------------------------------
(* The temporary files.                                                     *)

\* What is left of a pipe when its first line is read.
LEMMA TailKeeps ==
    ASSUME NEW S, NEW s \in Seq(S), s # <<>>, NEW x, NEW i \in DOMAIN s, i # 1
    PROVE  /\ i - 1 \in DOMAIN Tail(s) /\ Tail(s)[i - 1] = s[i]
           /\ i \in DOMAIN (<<x>> \o Tail(s)) /\ (<<x>> \o Tail(s))[i] = s[i]
<1>1. i - 1 \in DOMAIN Tail(s) /\ Tail(s)[i - 1] = s[i] /\ Tail(s) \in Seq(S)
  BY HeadTyped
<1>2. i \in DOMAIN (<<x>> \o Tail(s)) /\ (<<x>> \o Tail(s))[i] = s[i]
  <2> DEFINE r == Tail(s)
  <2>1. r \in Seq(S) /\ i - 1 \in DOMAIN r /\ i \in Nat
    BY <1>1
  <2> HIDE DEF r
  <2>2. i \in DOMAIN (<<x>> \o r) /\ (<<x>> \o r)[i] = r[i - 1]
    BY <2>1
  <2> QED BY <1>1, <2>2 DEF r
<1> QED BY <1>1, <1>2

\* What a line that is printed adds to a pipe.
LEMMA AppendKeeps ==
    ASSUME NEW S, NEW s \in Seq(S), NEW x
    PROVE  /\ \A i \in DOMAIN s : i \in DOMAIN Append(s, x) /\ Append(s, x)[i] = s[i]
           /\ Len(s) + 1 \in DOMAIN Append(s, x) /\ Append(s, x)[Len(s) + 1] = x
OBVIOUS

\* A reply that names the turn's file is still to be read.
Waits(g, u) == \E i \in DOMAIN pipe[g].out : pipe[g].out[i] = Line("wav", u)

\* A turn deletes a file, or loses it, with the line that names it.
LEMMA WavsTurn ==
    ASSUME Typed, Held, Budget, Silent, NEW t \in Turns,
           BeginTurn(t) \/ TurnStep(t) \/ CancelTurn(t),
           NEW g \in Groups, NEW u \in wavs', Waits(g, u)
    PROVE  u \in lostWavs' \/ Waits(g, u)'
<1> DEFINE h == turn[t].group
<1>1. PICK i \in DOMAIN pipe[g].out : pipe[g].out[i] = Line("wav", u)
  BY DEF Waits
<1>2. pipe[g].out \in Seq(Lines) /\ pipe[g].out # <<>> /\ pipe \in [Groups -> Pipe]
      /\ pipe[g] \in Pipe /\ (i = 1 => Head(pipe[g].out) = Line("wav", u))
  <2>1. pipe[g].out \in Seq(Lines) /\ pipe \in [Groups -> Pipe] /\ pipe[g] \in Pipe
    BY PipesTyped DEF Typed
  <2> DEFINE s == pipe[g].out
  <2>2. s \in Seq(Lines) /\ i \in DOMAIN s /\ s[i] = Line("wav", u)
    BY <1>1, <2>1
  <2> HIDE DEF s
  <2>3. s # <<>> /\ (i = 1 => Head(s) = Line("wav", u))
    BY <2>2
  <2> QED BY <2>1, <2>3 DEF s
<1>t. ASSUME i # 1
      PROVE  \E j \in DOMAIN Tail(pipe[g].out) : Tail(pipe[g].out)[j] = Line("wav", u)
  BY <1>1, <1>2, <1>t, TailKeeps
<1>c. ASSUME i # 1, NEW x
      PROVE  \E j \in DOMAIN (<<x>> \o Tail(pipe[g].out)) :
                (<<x>> \o Tail(pipe[g].out))[j] = Line("wav", u)
  BY <1>1, <1>2, <1>c, TailKeeps
<1>3. ASSUME pipe'[g].out = pipe[g].out PROVE Waits(g, u)'
  BY <1>1, <1>3 DEF Waits
<1>4. ASSUME i # 1, pipe'[g].out = Tail(pipe[g].out) PROVE Waits(g, u)'
  BY <1>t, <1>4 DEF Waits
<1>5. u \in Turns /\ u # NoCall
  <2>1. Line("wav", u) \in Lines
    BY <1>1, <1>2
  <2>2. u \in wavs
    BY DEF BeginTurn, TurnStep, CancelTurn, LockChild, ResolveFails, SpawnChild, ArmChild,
           Ready, HandshakeFails, Write, Drain, ChildIsDead, KillChild, hostVars
  <2> QED BY <2>2, SidecarAssumption DEF Typed
<1>6. CASE BeginTurn(t) \/ LockChild(t) \/ ResolveFails(t) \/ SpawnChild(t) \/ ArmChild(t)
           \/ HandshakeFails(t) \/ ChildIsDead(t)
  BY <1>3, <1>6 DEF BeginTurn, LockChild, ResolveFails, SpawnChild, ArmChild, HandshakeFails,
                    ChildIsDead, hostVars
<1>7. CASE Ready(t)
  <2>1. pipe' = [pipe EXCEPT ![h].out = Tail(@)] /\ turn[t].at = "handshake"
    BY <1>7 DEF Ready, TurnAt
  <2>2. CASE g = h
    <3>1. pipe[g].out[i].kind = "ready"
      BY <2>1, <2>2 DEF Silent
    <3> QED BY <1>1, <3>1 DEF Line
  <2>3. CASE g # h
    BY <1>2, <1>3, <2>1, <2>3
  <2> QED BY <2>2, <2>3
<1>8. CASE Drain(t)
  <2>1. pipe' = [pipe EXCEPT ![h].out = Tail(@)]
        /\ (Head(pipe[h].out).kind = "wav" => wavs' = wavs \ {Head(pipe[h].out).of})
    BY <1>8 DEF Drain
  <2>2. CASE g = h
    <3>1. i # 1
      BY <1>2, <2>1, <2>2 DEF Line
    <3>2. pipe'[g].out = Tail(pipe[g].out)
      BY <1>2, <2>1, <2>2 DEF Pipe
    <3> QED BY <1>4, <3>1, <3>2
  <2>3. CASE g # h
    BY <1>2, <1>3, <2>1, <2>3
  <2> QED BY <2>2, <2>3
<1>9. CASE Write(t)
  BY <1>2, <1>3, <1>9 DEF Write, Pipe
<1>10. CASE KillChild(t)
  <2>1. CASE g = h
    BY <1>1, <1>5, <1>10, <2>1 DEF KillChild
  <2>2. CASE g # h
    BY <1>2, <1>3, <1>10, <2>2 DEF KillChild
  <2> QED BY <2>1, <2>2
<1>11. CASE CancelTurn(t)
  <2>1. \/ pipe' = pipe
        \/ pipe' = [pipe EXCEPT ![h].torn = TRUE]
        \/ \E x : pipe' = [pipe EXCEPT ![h].in = x, ![h].torn = FALSE]
        \/ /\ pipe' = [pipe EXCEPT ![h].out = <<Line("tail", NoCall)>> \o Tail(@)]
           /\ lostWavs' = lostWavs \cup ({Head(pipe[h].out).of} \ {NoCall})
    BY <1>11 DEF CancelTurn, hostVars
  <2>2. CASE pipe' = pipe
    BY <1>3, <2>2
  <2>3. CASE pipe' = [pipe EXCEPT ![h].torn = TRUE]
    <3>1. pipe'[g].out = pipe[g].out
      BY <1>2, <2>3 DEF Pipe
    <3> QED BY <1>3, <3>1
  <2>4. CASE \E x : pipe' = [pipe EXCEPT ![h].in = x, ![h].torn = FALSE]
    BY <1>2, <1>3, <2>4 DEF Pipe
  <2>5. CASE /\ pipe' = [pipe EXCEPT ![h].out = <<Line("tail", NoCall)>> \o Tail(@)]
             /\ lostWavs' = lostWavs \cup ({Head(pipe[h].out).of} \ {NoCall})
    <3>1. CASE g # h
      BY <1>2, <1>3, <2>5, <3>1
    <3>2. CASE g = h /\ i = 1
      BY <1>2, <1>5, <2>5, <3>2, SMTT(30) DEF Line
    <3>3. CASE g = h /\ i # 1
      <4>1. pipe'[g].out = <<Line("tail", NoCall)>> \o Tail(pipe[g].out)
        BY <1>2, <2>5, <3>3 DEF Pipe
      <4> HIDE DEF h
      <4> QED BY <1>c, <3>3, <4>1 DEF Waits
    <3> QED BY <3>1, <3>2, <3>3
  <2> QED BY <2>1, <2>2, <2>3, <2>4, <2>5
<1> QED BY <1>6, <1>7, <1>8, <1>9, <1>10, <1>11 DEF TurnStep

\* drain_until: every step keeps the temporary files accounted for.
LEMMA WavsStep == Typed /\ Held /\ Budget /\ Silent /\ WavsAccounted /\ [Next]_vars => WavsAccounted'
<1> SUFFICES ASSUME Typed, Held, Budget, Silent, WavsAccounted, [Next]_vars, NEW u \in wavs'
             PROVE  u \in lostWavs' \/ \E g \in Groups : Waits(g, u)'
  BY DEF WavsAccounted, Waits
<1>1. u \in wavs => u \in lostWavs \/ \E g \in Groups : Waits(g, u)
  BY DEF WavsAccounted, Waits
<1>2. ASSUME NEW t \in Turns, BeginTurn(t) \/ TurnStep(t) \/ CancelTurn(t)
      PROVE  u \in lostWavs' \/ \E g \in Groups : Waits(g, u)'
  <2>1. wavs' \subseteq wavs /\ lostWavs \subseteq lostWavs'
    BY <1>2 DEF BeginTurn, TurnStep, CancelTurn, LockChild, ResolveFails, SpawnChild, ArmChild,
           Ready, HandshakeFails, Write, Drain, ChildIsDead, KillChild, hostVars
  <2> QED BY <1>1, <1>2, <2>1, WavsTurn
<1>3. ASSUME NEW p \in Prepares, BeginPrepare(p) \/ PrepareStep(p)
      PROVE  u \in lostWavs' \/ \E g \in Groups : Waits(g, u)'
  BY <1>1, <1>3, PrepareTouches DEF hostVars, Waits
<1>4. ASSUME NEW h \in Groups,
             ServeReady(h) \/ ServeRequest(h) \/ PrepareProcess(h) \/ ProcessDies(h)
      PROVE  u \in lostWavs' \/ \E g \in Groups : Waits(g, u)'
  <2>1. lostWavs' = lostWavs /\ pipe \in [Groups -> Pipe] /\ pipe[h] \in Pipe
        /\ pipe[h].out \in Seq(Lines)
    BY <1>4, PipesTyped DEF ServeReady, ServeRequest, PrepareProcess, ProcessDies, Typed
  <2>2. ASSUME pipe[h] = NoPipe, wavs' = wavs, \A g \in Groups \ {h} : pipe'[g] = pipe[g]
        PROVE  u \in lostWavs' \/ \E g \in Groups : Waits(g, u)'
    <3>1. ~Waits(h, u)
      BY <2>2 DEF Waits, NoPipe
    <3> QED BY <1>1, <2>1, <2>2, <3>1 DEF Waits
  <2>3. CASE ServeReady(h) \/ PrepareProcess(h)
    BY <2>1, <2>2, <2>3 DEF ServeReady, PrepareProcess
  <2>4. CASE ProcessDies(h)
    BY <1>1, <2>1, <2>4 DEF ProcessDies, Waits
  <2>5. CASE ServeRequest(h)
    <3> DEFINE t == Head(pipe[h].in)
    <3>1. \A g \in Groups \ {h} : pipe'[g] = pipe[g]
      BY <2>1, <2>5 DEF ServeRequest
    <3>2. \/ pipe'[h].out = pipe[h].out /\ wavs' = wavs
          \/ pipe'[h].out = Append(pipe[h].out, Line("wav", t)) /\ wavs' = wavs \cup {t}
          \/ pipe'[h].out = Append(pipe[h].out, Line("refused", t)) /\ wavs' = wavs
      BY <2>1, <2>5 DEF ServeRequest, Pipe
    <3> HIDE DEF t
    <3>3. Waits(h, u) => Waits(h, u)'
      BY <2>1, <3>2, AppendKeeps DEF Waits
    <3>4. u \notin wavs => Waits(h, u)'
      BY <2>1, <3>2, AppendKeeps DEF Waits
    <3>5. \A g \in Groups \ {h} : Waits(g, u) => Waits(g, u)'
      BY <3>1 DEF Waits
    <3> QED BY <1>1, <2>1, <3>3, <3>4, <3>5
  <2> QED BY <1>4, <2>3, <2>4, <2>5
<1>5. CASE CancelPrepare \/ SignalSweep \/ Exit \/ UNCHANGED vars
  BY <1>1, <1>5 DEF CancelPrepare, SignalSweep, Exit, TurnSide, vars, hostVars, Waits
<1> QED BY <1>2, <1>3, <1>4, <1>5 DEF Next

-----------------------------------------------------------------------------
(* The replies.                                                             *)

\* run_turn_locked: every step keeps a turn that ended well on its own reply.
LEMMA OwnAudioStep == Typed /\ OwnAudio /\ [Next]_vars => OwnAudio'
<1> SUFFICES ASSUME Typed, OwnAudio, [Next]_vars, NEW u \in Turns, turn'[u].result = "ok"
             PROVE  turn'[u].heard = u
  BY DEF OwnAudio
<1>0. turn \in [Turns -> TurnCall] /\ (turn[u].result = "ok" => turn[u].heard = u)
  BY DEF Typed, OwnAudio
<1>1. ASSUME NEW t \in Turns, BeginTurn(t) \/ TurnStep(t) \/ CancelTurn(t)
      PROVE  turn'[u].heard = u
  <2>1. CASE BeginTurn(t) \/ LockChild(t) \/ SpawnChild(t) \/ ArmChild(t) \/ Ready(t) \/ Write(t)
             \/ KillChild(t)
    <3>1. turn'[u].result = turn[u].result /\ turn'[u].heard = turn[u].heard
      BY <1>0, <2>1 DEF BeginTurn, LockChild, SpawnChild, ArmChild, Ready, Write, KillChild,
                        TurnGoes, TurnCall
    <3> QED BY <1>0, <3>1
  <2>2. CASE ResolveFails(t) \/ HandshakeFails(t) \/ ChildIsDead(t) \/ CancelTurn(t)
    <3>1. u = t => turn'[u].result = "failed"
      BY <1>0, <2>2, ZenonT(40) DEF ResolveFails, HandshakeFails, ChildIsDead, CancelTurn, Ends, Abandon, TurnCall
    <3>2. u # t => turn'[u] = turn[u]
      BY <1>0, <2>2 DEF ResolveFails, HandshakeFails, ChildIsDead, CancelTurn, Ends, Abandon
    <3> QED BY <1>0, <3>1, <3>2
  <2>3. CASE Drain(t)
    <3>1. turn' = turn \/ (u # t /\ turn'[u] = turn[u]) \/ (u = t /\ turn'[u].heard = t)
      BY <1>0, <2>3 DEF Drain, TurnCall
    <3> QED BY <1>0, <3>1
  <2> QED BY <1>1, <2>1, <2>2, <2>3 DEF TurnStep
<1>2. CASE turn' = turn
  BY <1>0, <1>2
<1>3. ASSUME ~(\E t \in Turns : BeginTurn(t) \/ TurnStep(t) \/ CancelTurn(t)) PROVE turn' = turn
  BY <1>3 DEF Next, BeginPrepare, PrepareStep, PassGate, PrepareResolveFails, SpawnPrepare,
       ArmPrepare, ReadDone, ReadFails, ReadCancelled, KillPrepare, Reap, TurnSide, ServeReady,
       ServeRequest, PrepareProcess, ProcessDies, Outside, callVars, CancelPrepare, SignalSweep,
       Exit, vars
<1> QED BY <1>1, <1>2, <1>3

-----------------------------------------------------------------------------
(* The theorems.                                                            *)

\* The idle sidecar satisfies the invariant.
LEMMA InitIInv == Init => IInv
<1> SUFFICES ASSUME Init PROVE IInv
  OBVIOUS
<1>0. NoGroup \notin Groups /\ NoGroup = 0 /\ Groups \subseteq Nat /\ Cardinality(Groups) \in Nat
  BY SidecarAssumption
<1>1. /\ turn \in [Turns -> TurnCall] /\ prepare \in [Prepares -> PrepareCall]
      /\ \A t \in Turns : turn[t].at = "idle" /\ turn[t].group = NoGroup
      /\ \A p \in Prepares : prepare[p].at = "idle" /\ prepare[p].group = NoGroup
  BY NamesTyped DEF Init, TurnCall, PrepareCall
<1>2. Typed
  <2>1. alive \in [Groups -> SUBSET Processes] /\ pipe \in [Groups -> Pipe]
    BY LinesTyped DEF Init, GroupsInit
  <2>2. spawns \in 0 .. Cardinality(Groups)
    BY <1>0 DEF Init
  <2>3. armed = {} /\ wavs = {} /\ lostWavs = {} /\ flipped = {}
    BY DEF Init, GroupsInit
  <2> QED BY <1>1, <2>1, <2>2, <2>3 DEF Init, Typed
<1>3. Held
  BY <1>1 DEF Held
<1>4. Budget
  <2>1. WantTurn = {} /\ WantPrepare = {}
    BY <1>1 DEF WantTurn, WantPrepare
  <2> QED BY <1>0, <2>1, FS_EmptySet DEF Init, Budget
<1>5. Fresh /\ Apart
  BY <1>0, <1>1 DEF Init, GroupsInit, Fresh, Apart
<1>6. Owned /\ Listed /\ Silent
  BY <1>1 DEF Init, GroupsInit, NoPipe, Owned, Listed, Silent
<1>7. WavsAccounted
  BY DEF Init, WavsAccounted
<1> QED BY <1>2, <1>3, <1>4, <1>5, <1>6, <1>7 DEF IInv

\* IInv is inductive: the invariant that the theorems below are drawn from.
THEOREM Inductive == Spec => []IInv
<1>1. IInv /\ [Next]_vars => IInv'
  BY TypeStep, HeldStep, BudgetStep, FreshStep, OwnedStep, ListedStep, SilentStep, WavsStep DEF IInv
<1> QED BY InitIInv, <1>1, PTL DEF Spec

\* The state keeps its types, and a turn has a group exactly between the spawn of
\* its child and its end (the fields of QwenSidecar and of the call's stack).
THEOREM TypeCorrect == Spec => []TypeOK
<1>1. IInv => TypeOK
  <2> SUFFICES ASSUME IInv PROVE TypeOK
    OBVIOUS
  <2>1. Typed /\ Held
    BY DEF IInv
  <2>2. \A g \in Groups : /\ pipe[g].in \in Seq(Turns \cup {NoCall}) /\ pipe[g].torn \in BOOLEAN
                          /\ pipe[g].out \in Seq(Lines)
    BY <2>1, PipesTyped
  <2>3. \A t \in Turns : (turn[t].group # NoGroup)
              <=> turn[t].at \in {"spawned", "handshake", "write", "read", "kill"}
    BY <2>1 DEF Held
  <2> QED BY <2>1, <2>2, <2>3 DEF Typed, TypeOK, GroupsTypeOK, TurnCall, PrepareCall
<1> QED BY <1>1, Inductive, PTL

\* GroupChild: every process that runs belongs to a group that the cell or one
\* call will kill, and never two calls hold a group of one kind.
THEOREM Owners == Spec => []NoStray
<1>1. IInv => NoStray
  BY DEF IInv, Owned, Held, NoStray
<1> QED BY <1>1, Inductive, PTL

\* drain_until: a temporary file is still named by a line to be read, or was lost
\* with the line that names it.
THEOREM Files == Spec => []WavsAccounted
<1>1. IInv => WavsAccounted
  BY DEF IInv
<1> QED BY <1>1, Inductive, PTL

\* run_turn_locked: no turn returns the audio of another's request.
THEOREM Audio == Spec => []OwnAudio
<1>1. Init => OwnAudio
  BY DEF Init, OwnAudio
<1>2. IInv => Typed
  BY DEF IInv
<1> QED BY <1>1, <1>2, OwnAudioStep, Inductive, PTL DEF Spec

\* kill_all_sidecar_groups: the sweep of the signal handler leaves no process but
\* those of a call between the launch and the list, or the list and the kill.
THEOREM Sweep == Spec => SignalKillsAll
<1> DEFINE Swept == app # app' /\ app' = "swept" => \A g \in Groups : alive'[g] # {} => MidStep(g)
<1>1. IInv /\ [Next]_vars => Swept
  <2> SUFFICES ASSUME IInv, [Next]_vars, app # app', app' = "swept", NEW g \in Groups, alive'[g] # {}
               PROVE  MidStep(g)
    OBVIOUS
  <2>0. NoGroup \notin Groups
    BY SidecarAssumption
  <2>1. SignalSweep
    <3>1. ASSUME NEW t \in Turns, BeginTurn(t) \/ TurnStep(t) \/ CancelTurn(t) PROVE app' = app
      BY <3>1 DEF BeginTurn, TurnStep, CancelTurn, LockChild, ResolveFails, SpawnChild, ArmChild,
             Ready, HandshakeFails, Write, Drain, ChildIsDead, KillChild, PrepareSide
    <3>2. ASSUME NEW p \in Prepares, BeginPrepare(p) \/ PrepareStep(p) PROVE app' = app
      BY <3>2 DEF BeginPrepare, PrepareStep, PassGate, PrepareResolveFails, SpawnPrepare, ArmPrepare,
             ReadDone, ReadFails, ReadCancelled, KillPrepare, Reap, TurnSide
    <3> QED BY <3>1, <3>2 DEF Next, ServeReady, ServeRequest, PrepareProcess, ProcessDies, Outside,
              CancelPrepare, TurnSide, Exit, vars
  <2>2. g \notin armed /\ alive[g] # {}
    BY <2>1 DEF SignalSweep, KillAllGroups
  <2>3. Owner(g)
    BY <2>2 DEF IInv, Owned
  <2>4. cell # g
    BY <2>0, <2>2 DEF IInv, Listed
  <2>5. ASSUME NEW t \in Turns, turn[t].group = g PROVE turn[t].at \in {"spawned", "kill"}
    BY <2>0, <2>2, <2>5 DEF IInv, Held, Listed
  <2>6. ASSUME NEW p \in Prepares, prepare[p].group = g PROVE prepare[p].at \in {"spawned", "kill"}
    BY <2>0, <2>2, <2>6 DEF IInv, Held, Listed
  <2> QED BY <2>3, <2>4, <2>5, <2>6 DEF Owner, MidStep
<1> QED BY <1>1, Inductive, PTL DEF Spec, SignalKillsAll
=============================================================================
