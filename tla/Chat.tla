-------------------------------- MODULE Chat --------------------------------
(***************************************************************************)
(* The chat of one notebook: the webview's store (chat-state.svelte.ts),   *)
(* the ask_notebook command with its registry (commands/notebooks.rs,      *)
(* lib.rs), the answer stream (answer.rs) and the chat_messages table      *)
(* (chat.rs).  The webview runs one callback at a time; its calls, the     *)
(* saves it sends and the events of its streams are all in flight at once. *)
(*                                                                         *)
(* A run is one call of runStream and the command it invokes; its number   *)
(* is the stream generation.  A text is the run that produced it and how   *)
(* many of its deltas it has.                                              *)
(***************************************************************************)
EXTENDS SingleFlight, Naturals, Sequences, FiniteSets

CONSTANTS
    Turns, NoTurn,   \* turn_ids, in the order they are minted
    Calls, NoCall,   \* send and regenerate calls of the store that overlap
    MaxDeltas,       \* bound: text deltas of a run
    Failing,         \* what may fail: "ctx", "stage", "answer", "marker", "user"
    Outcomes         \* what a search may find: "units", "none", "gap"

ASSUME ChatAssumption ==
    /\ IsFiniteSet(Runs) /\ Runs = 1 .. Cardinality(Runs) /\ NoRun = 0
    /\ IsFiniteSet(Turns) /\ Turns = 1 .. Cardinality(Turns) /\ NoTurn = 0
    /\ NoCall \notin Calls
    /\ MaxDeltas \in Nat

VARIABLES
    rows,      \* chat_messages in the order they were created
    store,     \* NotebookChatState
    settled,   \* terminalSettled
    call,      \* the store calls
    run,       \* the streams, both ends
    saves,     \* save_chat_assistant and save_chat_marker calls in flight
    excused    \* history: turns that may stay bare

vars == <<flightVars, rows, store, settled, call, run, saves, excused>>

-----------------------------------------------------------------------------
(* State *)

Text == [run : Runs \cup {NoRun}, n : 0 .. MaxDeltas]
NoText == [run |-> NoRun, n |-> 0]
RowKinds == {"user", "answer", "cancelled", "errored"}
Row == [kind : RowKinds, turn : Turns, text : Text, cites : Runs \cup {NoRun}]
\* The stretches of answer_stream between two checks of the token: the query is
\* condensed and embedded; the search; the titles, the prompt and the model's
\* stream (the check before the prompt and the first one at an item are one).
Stages == <<"query", "search", "relay">>
Events == {"delta", "cites", "done", "closed", "cancelled", "failed", "gap"}
Backend == {Stages[i] : i \in 1 .. Len(Stages)}
               \cup {"none", "invoked", "ctx", "cite", "ended", "over"}
NoCallRecord == [at |-> "idle", turn |-> NoTurn, new |-> FALSE]
NoRunRecord == [turn |-> NoTurn, at |-> "none", sent |-> 0, queue |-> <<>>,
                pending |-> 0, persisted |-> FALSE]
Save == [kind : RowKinds \ {"user"}, turn : Turns, run : Runs \cup {NoRun}, text : Text,
         cites : Runs \cup {NoRun}, call : Calls \cup {NoCall}, landed : BOOLEAN]

TypeOK ==
    /\ FlightTypeOK
    /\ rows \in Seq(Row)
    /\ store \in [streaming : BOOLEAN, turn : Turns \cup {NoTurn}, text : Text,
                  cites : Runs \cup {NoRun}, gen : Runs \cup {NoRun}]
    /\ settled \subseteq Turns /\ excused \subseteq Turns
    /\ call \in [Calls -> [at : {"idle", "marking", "cancel", "user", "start"},
                           turn : Turns \cup {NoTurn}, new : BOOLEAN]]
    /\ \A r \in Runs : /\ run[r].turn \in Turns \cup {NoTurn} /\ run[r].at \in Backend
                       /\ run[r].sent \in 0 .. MaxDeltas /\ run[r].queue \in Seq(Events)
                       /\ run[r].pending \in 0 .. MaxDeltas /\ run[r].persisted \in BOOLEAN
    /\ saves \subseteq Save

Init ==
    /\ FlightInit
    /\ rows = <<>> /\ settled = {} /\ saves = {} /\ excused = {}
    /\ store = [streaming |-> FALSE, turn |-> NoTurn, text |-> NoText,
                cites |-> NoRun, gen |-> NoRun]
    /\ call = [c \in Calls |-> NoCallRecord]
    /\ run = [r \in Runs |-> NoRunRecord]

Saved(t) == \E i \in 1 .. Len(rows) : rows[i].turn = t
InCall(t) == \E c \in Calls : call[c].turn = t

-----------------------------------------------------------------------------
(* The table *)

NewRow(kind, t, text, cites) == [kind |-> kind, turn |-> t, text |-> text, cites |-> cites]

-----------------------------------------------------------------------------
(* The store: send, regenerate, stop *)

Marker(kind, t, text, c) ==
    [kind |-> kind, turn |-> t, run |-> NoRun, text |-> text, cites |-> NoRun,
     call |-> c, landed |-> FALSE]

\* Bound: every call can still start a run.
RunsLeft == store.gen + Cardinality({c \in Calls : call[c].at # "idle"}) < Cardinality(Runs)

\* Mutant: the current turn is not marked before it is superseded.
Begin_Unmarked(c, t, new) ==
    /\ call[c].at = "idle" /\ RunsLeft
    /\ call' = [call EXCEPT ![c] = [at |-> IF store.streaming THEN "cancel"
                                           ELSE IF new THEN "user" ELSE "start",
                                    turn |-> t, new |-> new]]
    /\ UNCHANGED <<flightVars, rows, store, settled, run, saves, excused>>

\* The part of send and regenerate before their first await: a stream in
\* progress is marked cancelled (markSuperseded) unless its turn is settled.
Begin(c, t, new) ==
    LET mark == store.streaming /\ store.turn # NoTurn /\ store.turn \notin settled
    IN  /\ call[c].at = "idle" /\ RunsLeft
        /\ call' = [call EXCEPT ![c] = [at |-> CASE mark -> "marking"
                                                 [] store.streaming /\ ~mark -> "cancel"
                                                 [] ~store.streaming /\ new -> "user"
                                                 [] OTHER -> "start",
                                        turn |-> t, new |-> new]]
        /\ IF mark
           THEN /\ settled' = settled \cup {store.turn}
                /\ saves' = saves \cup {Marker("cancelled", store.turn, store.text, c)}
           ELSE UNCHANGED <<settled, saves>>
        /\ UNCHANGED <<flightVars, rows, store, run, excused>>

Send(c, t) ==
    /\ \A u \in Turns : Saved(u) \/ InCall(u) <=> u < t
    /\ Begin(c, t, TRUE)

Regenerate(c, t) == Saved(t) /\ Begin(c, t, FALSE)

\* cancel_ask, awaited before the new question.
CancelAsk(c) ==
    /\ call[c].at = "cancel"
    /\ IF slot = NoRun THEN UNCHANGED flightVars ELSE CancelSlot
    /\ call' = [call EXCEPT ![c].at = IF call[c].new THEN "user" ELSE "start"]
    /\ UNCHANGED <<rows, store, settled, run, saves, excused>>

\* save_chat_user; a failure rejects send before anything is shown.
SaveUser(c) ==
    /\ call[c].at = "user"
    /\ \/ /\ rows' = Append(rows, NewRow("user", call[c].turn, NoText, NoRun))
          /\ call' = [call EXCEPT ![c].at = "start"]
       \/ /\ "user" \in Failing
          /\ call' = [call EXCEPT ![c] = NoCallRecord] /\ UNCHANGED rows
    /\ UNCHANGED <<flightVars, store, settled, run, saves, excused>>

\* runStream up to the invocation.
RunStream(c) ==
    LET r == store.gen + 1
        t == call[c].turn
    IN  /\ call[c].at = "start" /\ r \in Runs
        /\ settled' = settled \ {t}
        /\ store' = [streaming |-> TRUE, turn |-> t, text |-> NoText, cites |-> NoRun,
                     gen |-> r]
        /\ run' = [run EXCEPT ![r] = [NoRunRecord EXCEPT !.turn = t, !.at = "invoked"]]
        /\ call' = [call EXCEPT ![c] = NoCallRecord]
        /\ UNCHANGED <<flightVars, rows, saves, excused>>

\* The stop button.  A stop that comes before the command has registered its
\* token finds nothing.
Stop ==
    /\ store.streaming /\ CancelSlot
    /\ UNCHANGED <<rows, store, settled, call, run, saves, excused>>

-----------------------------------------------------------------------------
(* ask_notebook and answer_stream *)

RunOnly == UNCHANGED <<rows, store, settled, call, saves, excused>>
Goto(r, stage) == run' = [run EXCEPT ![r].at = stage]
Emit(r, stage, events) ==
    run' = [run EXCEPT ![r].at = stage, ![r].queue = @ \o events]

\* Commands of two invocations may start in either order.
Ask(r) ==
    /\ run[r].at = "invoked"
    /\ Register(r) /\ Goto(r, "ctx")
    /\ RunOnly

\* answer_notebook: the provider, the history, the embedder, the graph.
Gather(r) ==
    /\ run[r].at = "ctx"
    /\ Goto(r, Stages[1])
    /\ RunOnly /\ UNCHANGED flightVars

\* An error of the context or of a stage: Failed, and the guard is dropped.
\* Condensing falls back to the raw question instead.
StageFails(r) ==
    /\ \/ run[r].at = "ctx" /\ "ctx" \in Failing
       \/ /\ run[r].at \in {"query", "search", "relay", "cite"}
          /\ "stage" \in Failing
    /\ run[r].at = "relay" /\ run[r].sent > 0 => r \notin cancelled
    /\ Emit(r, "over", <<"failed">>) /\ Release(r)
    /\ RunOnly

\* The checks of the token between the stages and at every item of the model's
\* stream: the answer stream ends with no further event.
CheckCancel(r) ==
    /\ run[r].at \in Backend \ {"none", "invoked", "ctx", "ended", "over"}
    /\ r \in cancelled
    /\ Goto(r, "ended")
    /\ RunOnly /\ UNCHANGED flightVars

\* A stage that ends well; the search has found something.
Advance(r) ==
    \E i \in 1 .. Len(Stages) - 1 :
        /\ run[r].at = Stages[i] /\ r \notin cancelled
        /\ Stages[i] = "search" => "units" \in Outcomes
        /\ Goto(r, Stages[i + 1])
        /\ RunOnly /\ UNCHANGED flightVars

\* Nothing found: the index is being rebuilt, or the fixed refusal.
EmptySearch(r) ==
    /\ run[r].at = "search" /\ r \notin cancelled
    /\ \/ /\ "gap" \in Outcomes
          /\ Emit(r, "over", <<"gap">>) /\ Release(r)
       \/ /\ "none" \in Outcomes /\ MaxDeltas > 0
          /\ run' = [run EXCEPT ![r].at = "ended", ![r].sent = 1,
                                ![r].queue = @ \o <<"delta", "cites", "done">>]
          /\ UNCHANGED flightVars
    /\ RunOnly

Delta(r) ==
    /\ run[r].at = "relay" /\ r \notin cancelled /\ run[r].sent < MaxDeltas
    /\ run' = [run EXCEPT ![r].sent = @ + 1, ![r].queue = Append(@, "delta")]
    /\ RunOnly /\ UNCHANGED flightVars

\* The model's stream is over.
StreamEnds(r) ==
    /\ run[r].at = "relay" /\ r \notin cancelled
    /\ Goto(r, "cite")
    /\ RunOnly /\ UNCHANGED flightVars

\* The citations are hydrated, the token checked once more; no check separates
\* Citations from Done.
Finish(r) ==
    /\ run[r].at = "cite" /\ r \notin cancelled
    /\ Emit(r, "ended", <<"cites", "done">>)
    /\ RunOnly /\ UNCHANGED flightVars

\* The end of the command: a flipped token means Failed(Cancelled), even when
\* the answer was complete.
Close(r) ==
    /\ run[r].at = "ended"
    /\ Emit(r, "over", <<IF r \in cancelled THEN "cancelled" ELSE "closed">>) /\ Release(r)
    /\ RunOnly

-----------------------------------------------------------------------------
(* The store: the callbacks of a stream *)

Current(r) == store.gen = r
Pop(r) == [run EXCEPT ![r].queue = Tail(@)]
Head1(r, e) == run[r].queue # <<>> /\ Head(run[r].queue) = e
\* The text of the store and the run's deltas since the last frame.
Flushed(r) == [run |-> r, n |-> (IF store.text.run = r THEN store.text.n ELSE 0)
                                    + run[r].pending]

\* persistTerminalMarker, with the events' flushed text.
Mark(kind, t, text) ==
    IF t \in settled THEN UNCHANGED <<settled, saves>>
    ELSE /\ settled' = settled \cup {t}
         /\ saves' = saves \cup {Marker(kind, t, text, NoCall)}

\* The events of a superseded stream do nothing.
Ignore(r) ==
    /\ run[r].queue # <<>> /\ ~Current(r)
    /\ run' = [run EXCEPT ![r].queue = <<>>]
    /\ UNCHANGED <<flightVars, rows, store, settled, call, saves, excused>>

OnDelta(r) ==
    /\ Current(r) /\ Head1(r, "delta")
    /\ run' = [run EXCEPT ![r].queue = Tail(@), ![r].pending = @ + 1]
    /\ UNCHANGED <<flightVars, rows, store, settled, call, saves, excused>>

\* Mutant: the frame of a superseded stream still writes.
Frame_Late(r) ==
    /\ run[r].pending > 0
    /\ run' = [run EXCEPT ![r].pending = 0]
    /\ store' = [store EXCEPT !.text = Flushed(r)]
    /\ UNCHANGED <<flightVars, rows, settled, call, saves, excused>>

\* requestAnimationFrame: the deltas since the last frame.
Frame(r) ==
    /\ run[r].pending > 0
    /\ run' = [run EXCEPT ![r].pending = 0]
    /\ store' = IF Current(r) THEN [store EXCEPT !.text = Flushed(r)] ELSE store
    /\ UNCHANGED <<flightVars, rows, settled, call, saves, excused>>

OnCitations(r) ==
    /\ Current(r) /\ Head1(r, "cites")
    /\ run' = Pop(r)
    /\ store' = [store EXCEPT !.cites = r]
    /\ UNCHANGED <<flightVars, rows, settled, call, saves, excused>>

\* The inner Done: the turn is claimed, the answer sent to be saved.
OnDone(r) ==
    /\ Current(r) /\ Head1(r, "done")
    /\ store' = [store EXCEPT !.text = Flushed(r)]
    /\ settled' = settled \cup {run[r].turn}
    /\ run' = [run EXCEPT ![r].queue = Tail(@), ![r].pending = 0, ![r].persisted = TRUE]
    /\ saves' = saves \cup {[kind |-> "answer", turn |-> run[r].turn, run |-> r,
                             text |-> Flushed(r), cites |-> store.cites, call |-> NoCall,
                             landed |-> FALSE]}
    /\ UNCHANGED <<flightVars, rows, call, excused>>

\* The outer terminator: a reset if no inner Done came.
OnStreamDone(r) ==
    /\ Current(r) /\ Head1(r, "closed")
    /\ run' = Pop(r)
    /\ store' = IF run[r].persisted THEN store
                ELSE [store EXCEPT !.streaming = FALSE, !.turn = NoTurn, !.text = NoText,
                                   !.cites = NoRun]
    /\ UNCHANGED <<flightVars, rows, settled, call, saves, excused>>

\* A gap of the index is transient: nothing is persisted.
OnFailed(r) ==
    /\ Current(r)
    /\ \/ Head1(r, "cancelled") /\ Mark("cancelled", run[r].turn, Flushed(r)) /\ UNCHANGED excused
       \/ Head1(r, "failed") /\ Mark("errored", run[r].turn, Flushed(r)) /\ UNCHANGED excused
       \/ /\ Head1(r, "gap") /\ excused' = excused \cup {run[r].turn}
          /\ UNCHANGED <<settled, saves>>
    /\ run' = [run EXCEPT ![r].queue = Tail(@), ![r].pending = 0]
    /\ store' = [store EXCEPT !.text = Flushed(r), !.streaming = FALSE]
    /\ UNCHANGED <<flightVars, rows, call>>

-----------------------------------------------------------------------------
(* Saves *)

\* insert_assistant, insert_terminal_marker: the user row is there.
Land(s) ==
    /\ s \in saves /\ ~s.landed
    /\ rows' = Append(rows, NewRow(s.kind, s.turn, s.text, s.cites))
    /\ saves' = (saves \ {s}) \cup {[s EXCEPT !.landed = TRUE]}
    /\ UNCHANGED <<flightVars, store, settled, call, run, excused>>

Continue(s) == IF s.call = NoCall THEN call ELSE [call EXCEPT ![s.call].at = "cancel"]

\* Mutant: an answer that is saved leaves the stop button.
Respond_Streaming(s) ==
    /\ s \in saves /\ s.landed
    /\ saves' = saves \ {s}
    /\ call' = Continue(s)
    /\ UNCHANGED <<flightVars, rows, store, settled, run, excused>>

Respond(s) ==
    /\ s \in saves /\ s.landed
    /\ saves' = saves \ {s}
    /\ store' = IF s.kind = "answer" /\ Current(s.run)
                THEN [store EXCEPT !.streaming = FALSE] ELSE store
    /\ call' = Continue(s)
    /\ UNCHANGED <<flightVars, rows, settled, run, excused>>

\* The claim is released and an errored marker sent, with whatever text the
\* buffer has by then.
AnswerFails(s) ==
    /\ s \in saves /\ ~s.landed /\ s.kind = "answer" /\ "answer" \in Failing
    /\ settled' = settled \cup {s.turn}
    /\ saves' = (saves \ {s}) \cup {Marker("errored", s.turn, store.text, NoCall)}
    /\ store' = IF Current(s.run) THEN [store EXCEPT !.streaming = FALSE] ELSE store
    /\ UNCHANGED <<flightVars, rows, call, run, excused>>

MarkerFails(s) ==
    /\ s \in saves /\ ~s.landed /\ s.kind # "answer" /\ "marker" \in Failing
    /\ saves' = saves \ {s}
    /\ settled' = settled \ {s.turn}
    /\ excused' = excused \cup {s.turn}
    /\ call' = Continue(s)
    /\ UNCHANGED <<flightVars, rows, store, run>>

-----------------------------------------------------------------------------

Store(c) == CancelAsk(c) \/ SaveUser(c) \/ RunStream(c)

Command(r) ==
    \/ Ask(r) \/ Gather(r) \/ StageFails(r) \/ CheckCancel(r) \/ Advance(r)
    \/ EmptySearch(r) \/ Delta(r) \/ StreamEnds(r) \/ Finish(r) \/ Close(r)

Callbacks(r) ==
    \/ Ignore(r) \/ OnDelta(r) \/ Frame(r) \/ OnCitations(r) \/ OnDone(r)
    \/ OnStreamDone(r) \/ OnFailed(r)

Saving(x) ==
    \E s \in saves : /\ x \in {s.run, s.call}
                     /\ Land(s) \/ Respond(s) \/ AnswerFails(s) \/ MarkerFails(s)

Next ==
    \/ \E c \in Calls, t \in Turns : Send(c, t) \/ Regenerate(c, t)
    \/ (\E c \in Calls : Store(c)) \/ Stop
    \/ (\E r \in Runs : Command(r) \/ Callbacks(r))
    \/ (\E x \in Runs \cup Calls \cup {NoCall} : Saving(x))

Spec == Init /\ [][Next]_vars

\* The event loop, the channels and the commands run; the user need not act.  A run
\* has finitely many steps, so one condition serves them all.  The model's stream
\* ends: its HTTP client has an idle timeout.
FairSpec ==
    /\ Spec
    /\ WF_vars(\E r \in Runs : Command(r) \/ Callbacks(r) \/ Saving(r))
    /\ WF_vars(\E c \in Calls : Store(c) \/ Saving(c))

-----------------------------------------------------------------------------
(* Properties *)

Own(x, t) == x.run = NoRun \/ run[x.run].turn = t

\* runStream: "Bump so late callbacks from a superseded/cancelled stream no-op".
\* A saved answer is the whole text of one run of its own turn, with the
\* citations of the same run, whatever streams overlapped it.
AnswerIsWhole ==
    \A i \in 1 .. Len(rows) :
        rows[i].kind = "answer" =>
            LET x == rows[i].text
            IN  /\ x.run # NoRun /\ Own(x, rows[i].turn)
                /\ x.n = run[x.run].sent /\ rows[i].cites = x.run

\* persistTerminalMarker: a cancelled or failed turn is never left "a bare,
\* dangling question" once nothing is in flight: it has an answer or a marker.
\* send: "the superseded turn is never left a bare question (FE-2)".  Excepted are
\* a transient gap of the index and a marker that could not be saved.  It takes that
\* the store's calls come one after the other: two of them that begin while nothing
\* streams start a stream each, and the second displaces the first unmarked.
Quiet ==
    /\ saves = {} /\ ~store.streaming /\ \A c \in Calls : call[c].at = "idle"
    /\ \A r \in Runs : run[r].at \in {"none", "over"} /\ run[r].queue = <<>>
Answered(t) == \E i \in 1 .. Len(rows) : rows[i].turn = t /\ rows[i].kind # "user"
NeverBare == Quiet => \A t \in Turns \ excused : Saved(t) => Answered(t)

\* The store comes back from every stream: the stop button gives way to the
\* send button.
StreamingEnds == store.streaming ~> ~store.streaming

=============================================================================
