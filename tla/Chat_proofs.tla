----------------------------- MODULE Chat_proofs -----------------------------
(***************************************************************************)
(* For any number of turns, runs, overlapping calls, deltas and failures:  *)
(* the chat keeps its types and a saved answer is the whole stream that it *)
(* answers.  With one call of the store at a time, no question stays bare. *)
(***************************************************************************)
EXTENDS Chat, FiniteSetTheorems, TLAPS

Store0 == [streaming : BOOLEAN, turn : Turns \cup {NoTurn}, text : Text,
           cites : Runs \cup {NoRun}, gen : Runs \cup {NoRun}]
CallRecord == [at : {"idle", "marking", "cancel", "user", "start"},
               turn : Turns \cup {NoTurn}, new : BOOLEAN]
RunRecord == [turn : Turns \cup {NoTurn}, at : Backend, sent : 0 .. MaxDeltas,
              queue : Seq(Events), pending : 0 .. MaxDeltas, persisted : BOOLEAN]

Typed ==
    /\ slot \in Runs \cup {NoRun} /\ cancelled \subseteq Runs
    /\ rows \in Seq(Row) /\ store \in Store0
    /\ settled \subseteq Turns /\ excused \subseteq Turns
    /\ call \in [Calls -> CallRecord] /\ run \in [Runs -> RunRecord]
    /\ saves \subseteq Save

\* A call under way and a run that has begun have a turn; runs begin in order.
Begun ==
    /\ \A c \in Calls : call[c].at # "idle" => call[c].turn \in Turns
    /\ \A r \in Runs : run[r].at # "none" => run[r].turn \in Turns /\ r <= store.gen
    /\ \A r \in Runs : run[r].at = "none" => run[r] = NoRunRecord
    /\ \A r \in Runs : run[r].at \in {"invoked", "ctx", "query", "search"} => run[r].sent = 0
    /\ store.text.run \in {NoRun, store.gen} /\ (store.text.run = NoRun => store.text.n = 0)

\* The events that a run sends last.
Last == {"closed", "cancelled", "failed", "gap"}

\* A run that may still send a done, or has one to be read.
Owing(r) == \/ run[r].at \notin {"ended", "over"}
            \/ \E i \in 1 .. Len(run[r].queue) : run[r].queue[i] = "done"
Shown(r) == IF store.text.run = r THEN store.text.n ELSE 0

\* The deltas come first; those in the queue, those since the last frame and those
\* in the store are all that were sent until a done has been read.  The citations
\* come before the done, and what ends the stream is last.
Queued(r, d) ==
    LET q == run[r].queue
    IN  /\ \A i \in 1 .. Len(q) : q[i] = "delta" <=> i <= d
        /\ d + run[r].pending <= run[r].sent
        /\ store.gen = r => d + run[r].pending + Shown(r) <= run[r].sent
        /\ store.gen = r /\ Owing(r) => d + run[r].pending + Shown(r) = run[r].sent
        /\ \A i \in 1 .. Len(q) : q[i] = "done" =>
             /\ run[r].at \in {"ended", "over"}
             /\ \/ i = d + 1 /\ (store.gen = r => store.cites = r)
                \/ i = d + 2 /\ q[d + 1] = "cites"
        /\ \A i \in 1 .. Len(q) : q[i] \in Last => i = Len(q) /\ run[r].at = "over"
        /\ d # Len(q) => run[r].at \in {"ended", "over"}
Ordered == \A r \in Runs : \E d \in 0 .. Len(run[r].queue) : Queued(r, d)

\* An answer is what its run has sent, and the run sends no more.
IsWhole(t, x, c) ==
    /\ x.run \in Runs /\ c = x.run /\ run[x.run].at \in {"ended", "over"}
    /\ x.n = run[x.run].sent /\ run[x.run].turn = t
Whole ==
    /\ \A s \in saves : s.kind = "answer" => s.run = s.text.run /\ IsWhole(s.turn, s.text, s.cites)
    /\ \A i \in 1 .. Len(rows) : rows[i].kind = "answer" => IsWhole(rows[i].turn, rows[i].text, rows[i].cites)

\* A call awaits the one marker that it sent.
Waiting ==
    \A s \in saves : s.call \in Calls =>
        /\ call[s.call].at = "marking" /\ s.kind # "answer"
        /\ \A z \in saves : z.call = s.call => z = s

IInv == Typed /\ Begun /\ Ordered /\ Whole /\ Waiting

-----------------------------------------------------------------------------
(* Numbers, sequences, records.                                             *)

\* Runs and turns are numbers; the values for none of them are 0.
LEMMA Numbers ==
    /\ Runs \subseteq Nat /\ 0 \notin Runs /\ NoRun = 0 /\ NoRun \notin Runs
    /\ Turns \subseteq Nat /\ NoTurn = 0 /\ NoTurn \notin Turns
BY FS_CardinalityType, ChatAssumption

\* What a concatenation has where.
LEMMA Appended ==
    ASSUME NEW S, NEW s \in Seq(S), NEW t \in Seq(S)
    PROVE  /\ s \o t \in Seq(S) /\ Len(s \o t) = Len(s) + Len(t)
           /\ \A i \in 1 .. Len(s) : (s \o t)[i] = s[i]
           /\ \A i \in 1 .. Len(t) : (s \o t)[Len(s) + i] = t[i]
OBVIOUS

\* What the first frame taken off a channel leaves.
LEMMA Popped ==
    ASSUME NEW S, NEW s \in Seq(S), s # <<>>
    PROVE  /\ Tail(s) \in Seq(S) /\ Len(Tail(s)) = Len(s) - 1 /\ Len(s) \in Nat /\ Len(s) > 0
           /\ Head(s) = s[1]
           /\ \A i \in 1 .. Len(s) - 1 : Tail(s)[i] = s[i + 1]
OBVIOUS

\* The stages of a command, in one set.
LEMMA Backends == Backend = {"query", "search", "relay", "none", "invoked", "ctx", "cite",
                             "ended", "over"}
<1>1. {Stages[i] : i \in 1 .. Len(Stages)} = {"query", "search", "relay"}
  BY DEF Stages
<1> QED BY <1>1 DEF Backend

\* A step of one run.
Becomes(r, turn, at, sent, queue, pending, persisted) ==
    /\ run' \in [Runs -> RunRecord] /\ \A q \in Runs \ {r} : run'[q] = run[q]
    /\ run'[r].turn = turn /\ run'[r].at = at /\ run'[r].sent = sent
    /\ run'[r].queue = queue /\ run'[r].pending = pending
    /\ run'[r].persisted = persisted

\* The fields of a run and their types.
LEMMA RunFields ==
    ASSUME Typed, NEW r \in Runs
    PROVE  /\ run[r] \in RunRecord /\ run[r].turn \in Turns \cup {NoTurn}
           /\ run[r].at \in Backend /\ run[r].sent \in 0 .. MaxDeltas /\ run[r].sent \in Nat
           /\ run[r].queue \in Seq(Events) /\ run[r].pending \in Nat
           /\ run[r].persisted \in BOOLEAN /\ Len(run[r].queue) \in Nat
BY ChatAssumption DEF Typed, RunRecord

-----------------------------------------------------------------------------
(* What a step of one run leaves of the others.                             *)

\* A run that a step leaves alone keeps its order, unless the store turns to it.
LEMMA OthersQueued ==
    ASSUME NEW r \in Runs, NEW q \in Runs, q # r, run'[q] = run[q],
           store'.gen = q => /\ store.gen = q /\ Shown(q)' = Shown(q)
                             /\ (store.cites = q => store'.cites = q),
           NEW d, Queued(q, d)
    PROVE  Queued(q, d)'
<1>1. Owing(q)' = Owing(q)
  BY DEF Owing
<1> QED BY <1>1 DEF Queued

\* A step of one run keeps the order of all if it keeps that run's.
LEMMA OrderedBy ==
    ASSUME Ordered, NEW r \in Runs, \A q \in Runs \ {r} : run'[q] = run[q],
           \A q \in Runs \ {r} :
               store'.gen = q => /\ store.gen = q /\ Shown(q)' = Shown(q)
                                 /\ (store.cites = q => store'.cites = q),
           NEW d, d \in 0 .. Len(run'[r].queue), Queued(r, d)'
    PROVE  Ordered'
<1> SUFFICES ASSUME NEW q \in Runs PROVE \E e \in 0 .. Len(run'[q].queue) : Queued(q, e)'
  BY DEF Ordered
<1>1. CASE q = r
  BY <1>1
<1>2. CASE q # r
  <2>1. PICK e \in 0 .. Len(run[q].queue) : Queued(q, e)
    BY DEF Ordered
  <2>2. Queued(q, e)'
    BY <1>2, <2>1, OthersQueued
  <2>3. run'[q] = run[q]
    BY <1>2
  <2> QED BY <2>1, <2>2, <2>3
<1> QED BY <1>1, <1>2

\* What has been saved or sent to be saved stays whole: a run that has ended sends
\* no more and keeps its turn.
LEMMA StillWhole ==
    ASSUME \A r \in Runs : run[r].at \in {"ended", "over"} =>
               /\ run'[r].at \in {"ended", "over"} /\ run'[r].sent = run[r].sent
               /\ run'[r].turn = run[r].turn,
           NEW t, NEW x, NEW c, IsWhole(t, x, c)
    PROVE  IsWhole(t, x, c)'
BY DEF IsWhole

-----------------------------------------------------------------------------
(* The steps of a command.                                                  *)

\* A step that leaves the store alone turns it to no other run.
LEMMA Elsewhere ==
    ASSUME UNCHANGED store, NEW r \in Runs, NEW q \in Runs \ {r}
    PROVE  store'.gen = q => /\ store.gen = q /\ Shown(q)' = Shown(q)
                             /\ (store.cites = q => store'.cites = q)
BY DEF Shown

\* A step of a run that has begun leaves it and the others begun.
LEMMA BegunRun ==
    ASSUME Typed, Begun, UNCHANGED <<store, call>>, NEW r \in Runs, run[r].at # "none",
           NEW at \in Backend \ {"none"}, NEW sent, NEW queue, NEW pending, NEW persisted,
           Becomes(r, run[r].turn, at, sent, queue, pending, persisted),
           at \in {"invoked", "ctx", "query", "search"} => sent = 0
    PROVE  Begun'
BY DEF Begun, Becomes

\* A stage is entered or left.
LEMMA Moves ==
    ASSUME Typed, Begun, Ordered, UNCHANGED <<store, call>>, NEW r \in Runs,
           run[r].at \notin {"none", "ended", "over"},
           NEW at \in Backend \ {"none", "over"}, Goto(r, at),
           at \in {"invoked", "ctx", "query", "search"} =>
               run[r].at \in {"invoked", "ctx", "query", "search"}
    PROVE  /\ run' \in [Runs -> RunRecord] /\ Begun' /\ Ordered'
           /\ run'[r].turn = run[r].turn
<1>1. Becomes(r, run[r].turn, at, run[r].sent, run[r].queue, run[r].pending, run[r].persisted)
  <2> DEFINE n == [run[r] EXCEPT !.at = at]
  <2>1. n \in RunRecord /\ n.turn = run[r].turn /\ n.at = at /\ n.sent = run[r].sent
        /\ n.queue = run[r].queue /\ n.pending = run[r].pending /\ n.persisted = run[r].persisted
    BY RunFields DEF RunRecord
  <2>2. run' = [run EXCEPT ![r] = n]
    BY DEF Goto
  <2> HIDE DEF n
  <2> QED BY <2>1, <2>2 DEF Becomes, Typed
<1>2. Begun'
  BY <1>1, BegunRun DEF Begun
<1>3. PICK d \in 0 .. Len(run[r].queue) : Queued(r, d)
  BY DEF Ordered
<1>4. run'[r].queue = run[r].queue /\ run'[r].pending = run[r].pending
      /\ run'[r].sent = run[r].sent /\ run'[r].at = at /\ Shown(r)' = Shown(r)
  BY <1>1 DEF Becomes, Shown
<1>5. Queued(r, d)'
  BY <1>3, <1>4 DEF Queued, Owing
<1>6. Ordered'
  BY <1>1, <1>3, <1>4, <1>5, OrderedBy, Elsewhere DEF Becomes
<1> QED BY <1>1, <1>2, <1>6 DEF Becomes

\* The stream or the command ends with its last event.
LEMMA Terminates ==
    ASSUME Typed, Begun, Ordered, UNCHANGED <<store, call>>, NEW r \in Runs,
           run[r].at \notin {"none", "over"}, NEW e \in Last, Emit(r, "over", <<e>>)
    PROVE  /\ run' \in [Runs -> RunRecord] /\ Begun' /\ Ordered'
           /\ run'[r].turn = run[r].turn /\ run'[r].sent = run[r].sent
           /\ run'[r].at = "over"
<1> DEFINE queue == run[r].queue \o <<e>>
<1>0. e \in Events /\ e # "delta" /\ e # "done" /\ e # "cites" /\ Len(<<e>>) = 1 /\ <<e>>[1] = e
  BY DEF Last, Events
<1>1. queue \in Seq(Events) /\ Len(queue) = Len(run[r].queue) + 1 /\ "over" \in Backend
      /\ (\A i \in 1 .. Len(run[r].queue) : queue[i] = run[r].queue[i])
      /\ queue[Len(run[r].queue) + 1] = e
  <2>1. run[r].queue \in Seq(Events) /\ <<e>> \in Seq(Events)
    BY <1>0, RunFields
  <2> QED BY <1>0, <2>1, Appended, Backends
<1> HIDE DEF queue
<1>2. Becomes(r, run[r].turn, "over", run[r].sent, queue, run[r].pending, run[r].persisted)
  <2> DEFINE n == [run[r] EXCEPT !.at = "over", !.queue = queue]
  <2>1. n \in RunRecord /\ n.turn = run[r].turn /\ n.at = "over" /\ n.sent = run[r].sent
        /\ n.queue = queue /\ n.pending = run[r].pending /\ n.persisted = run[r].persisted
    BY <1>1, RunFields DEF RunRecord
  <2>2. run' = [run EXCEPT ![r] = n]
    BY DEF Emit, queue, Typed
  <2> HIDE DEF n
  <2> QED BY <2>1, <2>2 DEF Becomes, Typed
<1>3. Begun'
  <2>1. "over" \in Backend \ {"none"} /\ "over" \notin {"invoked", "ctx", "query", "search"}
    BY <1>1
  <2> QED BY <1>2, <2>1, BegunRun
<1>4. PICK d \in 0 .. Len(run[r].queue) : Queued(r, d)
  BY DEF Ordered
<1>5. run'[r].queue = queue /\ run'[r].pending = run[r].pending
      /\ run'[r].sent = run[r].sent /\ run'[r].at = "over" /\ Shown(r)' = Shown(r)
  BY <1>2 DEF Becomes, Shown
<1>6. Queued(r, d)'
  <2> DEFINE q == run[r].queue
  <2>0. q \in Seq(Events) /\ Len(q) \in Nat /\ d \in Nat /\ d <= Len(q)
        /\ d + run[r].pending <= run[r].sent
        /\ (\A i \in 1 .. Len(q) : q[i] = "delta" <=> i <= d)
        /\ (\A i \in 1 .. Len(q) : q[i] = "done" =>
               \/ i = d + 1 /\ (store.gen = r => store.cites = r)
               \/ i = d + 2 /\ q[d + 1] = "cites")
        /\ (\A i \in 1 .. Len(q) : q[i] \in Last => run[r].at = "over")
    BY <1>4, RunFields DEF Queued
  <2>1. \A i \in 1 .. Len(queue) : /\ i \in Nat
                                     /\ \/ i \in 1 .. Len(q) /\ queue[i] = q[i]
                                        \/ i = Len(q) + 1 /\ queue[i] = e /\ i > d
    <3> SUFFICES ASSUME NEW i \in 1 .. Len(queue)
                 PROVE  /\ i \in Nat
                        /\ \/ i \in 1 .. Len(q) /\ queue[i] = q[i]
                           \/ i = Len(q) + 1 /\ queue[i] = e /\ i > d
      OBVIOUS
    <3>1. Len(queue) = Len(q) + 1 /\ (\A j \in 1 .. Len(q) : queue[j] = q[j])
          /\ queue[Len(q) + 1] = e
      BY <1>1
    <3> HIDE DEF q
    <3>2. i \in Nat /\ (i \in 1 .. Len(q) \/ i = Len(q) + 1)
      BY <2>0, <3>1
    <3> QED BY <2>0, <3>1, <3>2
  <2> HIDE DEF q
  <2>2. \A i \in 1 .. Len(queue) : queue[i] = "delta" <=> i <= d
    BY <1>0, <2>0, <2>1
  <2>3. Owing(r)' => Owing(r)
    BY <1>0, <1>5, <2>1 DEF Owing, q
  <2>4. \A i \in 1 .. Len(queue) : queue[i] = "done" =>
             \/ i = d + 1 /\ (store.gen = r => store.cites = r)
             \/ i = d + 2 /\ queue[d + 1] = "cites"
    <3> SUFFICES ASSUME NEW i \in 1 .. Len(queue), queue[i] = "done"
                 PROVE  \/ i = d + 1 /\ (store.gen = r => store.cites = r)
                        \/ i = d + 2 /\ queue[d + 1] = "cites"
      OBVIOUS
    <3>1. i \in 1 .. Len(q) /\ q[i] = "done"
      BY <1>0, <2>1
    <3>2. i = d + 2 => queue[d + 1] = q[d + 1]
      BY <1>1, <2>0, <3>1 DEF q
    <3> QED BY <2>0, <3>1, <3>2
  <2>5. \A i \in 1 .. Len(queue) : queue[i] \in Last => i = Len(queue)
    BY <1>1, <2>0, <2>1 DEF q
  <2> QED BY <1>4, <1>5, <2>2, <2>3, <2>4, <2>5 DEF Queued
<1>7. Ordered'
  <2>1. d \in 0 .. Len(run'[r].queue)
    BY <1>1, <1>4, <1>5, RunFields
  <2> QED BY <1>2, <1>6, <2>1, OrderedBy, Elsewhere DEF Becomes
<1> QED BY <1>2, <1>3, <1>7 DEF Becomes

\* Until a run has ended, all that it has sent are deltas.
LEMMA Relaying ==
    ASSUME Typed, Ordered, NEW r \in Runs, run[r].at \notin {"ended", "over"}
    PROVE  /\ \A i \in 1 .. Len(run[r].queue) : run[r].queue[i] = "delta"
           /\ Len(run[r].queue) + run[r].pending <= run[r].sent
           /\ store.gen = r => Len(run[r].queue) + run[r].pending + Shown(r) = run[r].sent
<1>1. PICK d \in 0 .. Len(run[r].queue) : Queued(r, d)
  BY DEF Ordered
<1>2. d = Len(run[r].queue) /\ Owing(r)
  BY <1>1 DEF Queued, Owing
<1> QED BY <1>1, <1>2, RunFields DEF Queued

\* A run sends deltas, or the end of the answer.
LEMMA Put ==
    ASSUME Typed, NEW r \in Runs, NEW n \in RunRecord, run' = [run EXCEPT ![r] = n]
    PROVE  /\ run' \in [Runs -> RunRecord] /\ run'[r] = n
           /\ \A q \in Runs \ {r} : run'[q] = run[q]
BY DEF Typed

\* A step of ask_notebook that only sends: deltas first, the citations and the done
\* last.
LEMMA Sends ==
    ASSUME Typed, Begun, Ordered, UNCHANGED <<store, call>>, NEW r \in Runs,
           run[r].at \notin {"none", "ended", "over"},
           NEW at \in Backend \ {"none", "invoked", "ctx", "query", "search"},
           NEW sent \in 0 .. MaxDeltas, NEW queue \in Seq(Events),
           run' = [run EXCEPT ![r].at = at, ![r].sent = sent, ![r].queue = queue],
           NEW d, d \in 0 .. Len(queue), d = Len(run[r].queue) + (sent - run[r].sent),
           sent >= run[r].sent,
           \A i \in 1 .. d : queue[i] = "delta",
           \/ d = Len(queue)
           \/ /\ at = "ended" /\ Len(queue) = d + 2
              /\ queue[d + 1] = "cites" /\ queue[d + 2] = "done"
    PROVE  /\ run' \in [Runs -> RunRecord] /\ Begun' /\ Ordered'
           /\ run'[r].turn = run[r].turn
<1>0. run[r].pending \in 0 .. MaxDeltas /\ run[r].persisted \in BOOLEAN /\ at \in Backend
      /\ sent \in Nat /\ d \in Nat /\ Len(queue) \in Nat
      /\ (Len(queue) = d \/ Len(queue) = d + 2)
  BY ChatAssumption, RunFields DEF Typed, RunRecord
<1>1. Becomes(r, run[r].turn, at, sent, queue, run[r].pending, run[r].persisted)
  <2> DEFINE n == [run[r] EXCEPT !.at = at, !.sent = sent, !.queue = queue]
  <2>1. n \in RunRecord /\ n.turn = run[r].turn /\ n.at = at /\ n.sent = sent
        /\ n.queue = queue /\ n.pending = run[r].pending /\ n.persisted = run[r].persisted
    BY <1>0, RunFields DEF RunRecord
  <2>2. run' = [run EXCEPT ![r] = n]
    BY DEF Typed
  <2> HIDE DEF n
  <2>3. run' \in [Runs -> RunRecord] /\ run'[r] = n /\ \A q \in Runs \ {r} : run'[q] = run[q]
    BY <2>1, <2>2, Put, ZenonT(40)
  <2> QED BY <2>1, <2>3 DEF Becomes
<1>2. Begun'
  BY <1>1, BegunRun
<1>3. run'[r].queue = queue /\ run'[r].pending = run[r].pending
      /\ run'[r].sent = sent /\ run'[r].at = at /\ Shown(r)' = Shown(r)
  BY <1>1 DEF Becomes, Shown
<1>4. /\ d + run[r].pending <= sent
      /\ store.gen = r => d + run[r].pending + Shown(r) = sent
  <2>1. Shown(r) \in Nat
    BY ChatAssumption DEF Shown, Typed, Store0, Text
  <2>2. /\ Len(run[r].queue) + run[r].pending <= run[r].sent
        /\ store.gen = r => Len(run[r].queue) + run[r].pending + Shown(r) = run[r].sent
    BY Relaying
  <2> DEFINE l == Len(run[r].queue)
             k == run[r].sent
             w == run[r].pending
             x == Shown(r)
  <2>3. l \in Nat /\ k \in Nat /\ w \in Nat /\ x \in Nat /\ d = l + (sent - k) /\ l + w <= k
        /\ (store.gen = r => l + w + x = k)
    BY <2>1, <2>2, RunFields
  <2> HIDE DEF l, k, w, x
  <2>4. d + w <= sent /\ (store.gen = r => d + w + x = sent)
    BY <1>0, <2>3
  <2> QED BY <2>4 DEF w, x
<1>5. Queued(r, d)'
  <2>1. \A i \in 1 .. Len(queue) :
            /\ (queue[i] = "delta" <=> i <= d)
            /\ (queue[i] = "done" => at = "ended" /\ i = d + 2 /\ queue[d + 1] = "cites")
            /\ queue[i] \notin Last
    <3> TAKE i \in 1 .. Len(queue)
    <3>1. i \in Nat /\ (i \in 1 .. d \/ i > d)
      BY <1>0
    <3>2. CASE i \in 1 .. d
      <4>1. queue[i] = "delta" /\ i <= d
        BY <3>2
      <4> QED BY <4>1 DEF Last
    <3>3. CASE i > d
      <4>1. Len(queue) = d + 2 /\ (i = d + 1 \/ i = d + 2) /\ ~(i <= d)
        BY <1>0, <3>1, <3>3
      <4>2. at = "ended" /\ queue[d + 1] = "cites" /\ queue[d + 2] = "done"
        BY <1>0, <4>1
      <4>3. CASE i = d + 1
        BY <1>0, <4>1, <4>2, <4>3 DEF Last
      <4>4. CASE i = d + 2
        BY <4>1, <4>2, <4>4 DEF Last
      <4> QED BY <4>1, <4>3, <4>4
    <3> QED BY <3>1, <3>2, <3>3
  <2>2. d # Len(queue) => at \in {"ended", "over"}
    OBVIOUS
  <2>3. store' = store
    OBVIOUS
  <2>4. /\ \A i \in 1 .. Len(queue) : queue[i] = "done" =>
              /\ at \in {"ended", "over"}
              /\ \/ i = d + 1 /\ (store'.gen = r => store'.cites = r)
                 \/ i = d + 2 /\ queue[d + 1] = "cites"
        /\ \A i \in 1 .. Len(queue) : queue[i] = "delta" <=> i <= d
        /\ \A i \in 1 .. Len(queue) : queue[i] \in Last => i = Len(queue) /\ at = "over"
    <3>1. \A i \in 1 .. Len(queue) : queue[i] = "done" =>
              at = "ended" /\ i = d + 2 /\ queue[d + 1] = "cites"
      BY <2>1
    <3>2. \A i \in 1 .. Len(queue) : queue[i] = "delta" <=> i <= d
      BY <2>1
    <3>3. \A i \in 1 .. Len(queue) : queue[i] \notin Last
      BY <2>1
    <3> QED BY <3>1, <3>2, <3>3
  <2>5. /\ store'.gen = r => d + run[r].pending + Shown(r)' <= sent
        /\ store'.gen = r /\ Owing(r)' => d + run[r].pending + Shown(r)' = sent
        /\ d + run[r].pending <= sent
    <3>1. store.gen = r => d + run[r].pending + Shown(r) <= sent
      BY <1>4, RunFields
    <3> QED BY <1>3, <1>4, <3>1
  <2> QED BY <1>3, <2>2, <2>4, <2>5 DEF Queued
<1>6. Ordered'
  BY <1>1, <1>3, <1>5, OrderedBy, Elsewhere DEF Becomes
<1> QED BY <1>1, <1>2, <1>6 DEF Becomes

\* answer_stream's deltas and its end keep the order.
LEMMA DeltaSends ==
    ASSUME Typed, Begun, Ordered, NEW r \in Runs, Delta(r) \/ Finish(r) \/ EmptySearch(r)
    PROVE  /\ run' \in [Runs -> RunRecord] /\ Begun' /\ Ordered'
           /\ run'[r].turn = run[r].turn
<1> DEFINE q == run[r].queue
<1>0. UNCHANGED <<store, call>> /\ run[r].at \notin {"none", "ended", "over"}
  BY DEF Delta, Finish, EmptySearch, RunOnly
<1>1. q \in Seq(Events) /\ Len(q) \in Nat /\ (\A i \in 1 .. Len(q) : q[i] = "delta")
      /\ run[r].sent \in 0 .. MaxDeltas /\ run[r].sent \in Nat /\ run[r].pending \in Nat
      /\ run[r].queue = q
  BY <1>0, RunFields, Relaying
<1>2. {"relay", "ended"} \subseteq Backend \ {"none", "invoked", "ctx", "query", "search"}
      /\ {"delta", "cites", "done"} \subseteq Events
  BY Backends DEF Events
<1> HIDE DEF q
<1>3. CASE Delta(r)
  <2> DEFINE queue == Append(q, "delta")
  <2>1. queue \in Seq(Events) /\ Len(queue) = Len(q) + 1
        /\ (\A i \in 1 .. Len(q) + 1 : queue[i] = "delta")
    BY <1>1, <1>2
  <2>2. run[r].sent + 1 \in 0 .. MaxDeltas
    BY <1>1, <1>3, ChatAssumption DEF Delta
  <2>3. run' = [run EXCEPT ![r].at = "relay", ![r].sent = run[r].sent + 1, ![r].queue = queue]
    <3>1. run[r] = [run[r] EXCEPT !.at = "relay"]
      BY <1>3, RunFields DEF Delta, RunRecord
    <3>2. run' = [run EXCEPT ![r] = [run[r] EXCEPT !.sent = run[r].sent + 1, !.queue = queue]]
      BY <1>1, <1>3 DEF Delta
    <3> QED BY <3>1, <3>2 DEF Typed
  <2> HIDE DEF queue
  <2>4. "relay" \in Backend \ {"none", "invoked", "ctx", "query", "search"}
        /\ Len(q) + 1 = Len(run[r].queue) + ((run[r].sent + 1) - run[r].sent)
        /\ Len(q) + 1 \in 0 .. Len(queue) /\ run[r].sent + 1 >= run[r].sent
    BY <1>1, <1>2, <2>1
  <2> QED BY <1>0, <2>1, <2>2, <2>3, <2>4, Sends
<1>4. CASE Finish(r)
  <2> DEFINE queue == q \o <<"cites", "done">>
  <2>1. queue \in Seq(Events) /\ Len(queue) = Len(q) + 2
        /\ (\A i \in 1 .. Len(q) : queue[i] = "delta")
        /\ queue[Len(q) + 1] = "cites" /\ queue[Len(q) + 2] = "done"
    <3> DEFINE t == <<"cites", "done">>
    <3>1. t \in Seq(Events) /\ Len(t) = 2 /\ t[1] = "cites" /\ t[2] = "done"
      BY <1>2
    <3> HIDE DEF t
    <3>2. q \o t \in Seq(Events) /\ Len(q \o t) = Len(q) + 2
          /\ (\A i \in 1 .. Len(q) : (q \o t)[i] = q[i])
          /\ (q \o t)[Len(q) + 1] = t[1] /\ (q \o t)[Len(q) + 2] = t[2]
      <4>1. q \in Seq(Events)
        BY <1>1
      <4>2. /\ q \o t \in Seq(Events) /\ Len(q \o t) = Len(q) + Len(t) /\ Len(q) \in Nat
            /\ \A i \in 1 .. Len(q) : (q \o t)[i] = q[i]
            /\ \A i \in 1 .. Len(t) : (q \o t)[Len(q) + i] = t[i]
        BY <3>1, <4>1, Appended
      <4>3. 1 \in 1 .. Len(t) /\ 2 \in 1 .. Len(t)
        BY <3>1
      <4> QED BY <3>1, <4>2, <4>3
    <3> QED BY <1>1, <3>1, <3>2 DEF t
  <2>2. run' = [run EXCEPT ![r].at = "ended", ![r].sent = run[r].sent, ![r].queue = queue]
    <3>1. run[r] = [run[r] EXCEPT !.sent = run[r].sent]
      BY RunFields DEF RunRecord
    <3>2. run' = [run EXCEPT ![r] = [run[r] EXCEPT !.at = "ended", !.queue = queue]]
      BY <1>1, <1>4 DEF Finish, Emit
    <3> QED BY <3>1, <3>2 DEF Typed
  <2> HIDE DEF queue
  <2>3. "ended" \in Backend \ {"none", "invoked", "ctx", "query", "search"}
        /\ Len(q) = Len(run[r].queue) + (run[r].sent - run[r].sent)
        /\ Len(q) \in 0 .. Len(queue) /\ run[r].sent >= run[r].sent
    BY <1>1, <1>2, <2>1
  <2> QED BY <1>0, <1>1, <2>1, <2>2, <2>3, Sends
<1>5. CASE EmptySearch(r) /\ run' = [run EXCEPT ![r].at = "ended", ![r].sent = 1,
                                ![r].queue = @ \o <<"delta", "cites", "done">>]
                         /\ MaxDeltas > 0
  <2> DEFINE queue == <<"delta", "cites", "done">>
  <2>1. run[r].sent = 0
    BY <1>5 DEF EmptySearch, Begun
  <2>2. q = <<>>
    <3>1. Len(q) + run[r].pending <= run[r].sent
      BY <1>0, <1>1, Relaying
    <3> QED BY <1>1, <2>1, <3>1
  <2>3. queue \in Seq(Events) /\ Len(queue) = 3 /\ queue[1] = "delta" /\ queue[2] = "cites"
        /\ queue[3] = "done" /\ q \o queue = queue
    BY <1>2, <2>2
  <2>4. run' = [run EXCEPT ![r].at = "ended", ![r].sent = 1, ![r].queue = queue]
    BY <1>1, <1>5, <2>3
  <2> HIDE DEF queue
  <2>5. "ended" \in Backend \ {"none", "invoked", "ctx", "query", "search"}
        /\ 1 = Len(run[r].queue) + (1 - run[r].sent) /\ 1 \in 0 .. MaxDeltas
        /\ 1 \in 0 .. Len(queue) /\ 1 >= run[r].sent
        /\ (\A i \in 1 .. 1 : queue[i] = "delta") /\ Len(queue) = 1 + 2
        /\ queue[1 + 1] = "cites" /\ queue[1 + 2] = "done"
    BY <1>1, <1>2, <1>5, <2>1, <2>2, <2>3, ChatAssumption
  <2> QED BY <1>0, <2>3, <2>4, <2>5, Sends
<1>6. CASE EmptySearch(r) /\ Emit(r, "over", <<"gap">>)
  BY <1>0, <1>6, Terminates DEF Last
<1> QED BY <1>3, <1>4, <1>5, <1>6 DEF EmptySearch

\* A step that leaves the table, the saves, the store and the calls.
LEMMA RunOnlyKeeps ==
    ASSUME IInv, RunOnly, NEW r \in Runs, run[r].at # "over",
           slot' \in Runs \cup {NoRun}, cancelled' \subseteq Runs,
           run' \in [Runs -> RunRecord], \A q \in Runs \ {r} : run'[q] = run[q],
           run'[r].turn = run[r].turn,
           run[r].at = "ended" => run'[r].at = "over" /\ run'[r].sent = run[r].sent,
           Begun', Ordered'
    PROVE  IInv'
<1>1. Typed'
  BY DEF IInv, Typed, RunOnly
<1>2. \A q \in Runs : run[q].at \in {"ended", "over"} =>
               /\ run'[q].at \in {"ended", "over"} /\ run'[q].sent = run[q].sent
               /\ run'[q].turn = run[q].turn
  OBVIOUS
<1>3. Whole'
  BY <1>2, StillWhole DEF IInv, Whole, RunOnly
<1>4. Waiting'
  BY DEF IInv, Waiting, RunOnly
<1> QED BY <1>1, <1>3, <1>4 DEF IInv

\* ask_notebook: a command of the backend keeps the invariant.
LEMMA CommandKeeps ==
    ASSUME IInv, NEW r \in Runs, Command(r)
    PROVE  IInv'
<1>1. Typed /\ Begun /\ Ordered
  BY DEF IInv
<1>0. Advance(r) => \/ Goto(r, "search") /\ run[r].at = "query"
                    \/ Goto(r, "relay") /\ run[r].at = "search"
  <2>1. Stages[1] = "query" /\ Stages[2] = "search" /\ Stages[3] = "relay" /\ Len(Stages) = 3
    BY DEF Stages
  <2> SUFFICES ASSUME NEW i \in 1 .. 2, run[r].at = Stages[i], Goto(r, Stages[i + 1])
               PROVE  \/ Goto(r, "search") /\ run[r].at = "query"
                      \/ Goto(r, "relay") /\ run[r].at = "search"
    BY <2>1 DEF Advance
  <2> QED BY <2>1
<1>2. RunOnly /\ UNCHANGED <<store, call>> /\ run[r].at \notin {"none", "over"}
  <2>1. RunOnly
    BY DEF Command, Ask, Gather, StageFails, CheckCancel, Advance, EmptySearch, Delta, StreamEnds,
           Finish, Close
  <2>2. run[r].at \notin {"none", "over"}
    BY <1>0 DEF Command, Ask, Gather, StageFails, CheckCancel, EmptySearch, Delta, StreamEnds,
           Finish, Close
  <2> QED BY <2>1, <2>2 DEF RunOnly
<1>3. slot' \in Runs \cup {NoRun} /\ cancelled' \subseteq Runs
  BY DEF Command, Ask, Gather, StageFails, CheckCancel, Advance, EmptySearch, Delta, StreamEnds,
         Finish, Close, Register, Release, flightVars, IInv, Typed
<1>4. \A q \in Runs \ {r} : run'[q] = run[q]
  BY DEF Command, Ask, Gather, StageFails, CheckCancel, Advance, EmptySearch, Delta, StreamEnds,
         Finish, Close, Goto, Emit, IInv, Typed
<1>5. CASE Ask(r) \/ Gather(r) \/ CheckCancel(r) \/ Advance(r) \/ StreamEnds(r)
  <2>1. PICK at \in Backend \ {"none", "over"} :
            /\ Goto(r, at)
            /\ at \in {"invoked", "ctx", "query", "search"} =>
                   run[r].at \in {"invoked", "ctx", "query", "search"}
            /\ run[r].at \notin {"none", "ended", "over"}
    <3>1. Stages[1] = "query"
      BY DEF Stages
    <3>2. CASE Advance(r)
      BY <1>0, <3>2, Backends
    <3>3. CASE Ask(r) \/ Gather(r) \/ CheckCancel(r) \/ StreamEnds(r)
      BY <3>1, <3>3, Backends DEF Ask, Gather, CheckCancel, StreamEnds
    <3> QED BY <1>5, <3>2, <3>3
  <2>2. /\ run' \in [Runs -> RunRecord] /\ Begun' /\ Ordered'
        /\ run'[r].turn = run[r].turn
    BY <1>1, <1>2, <2>1, Moves
  <2> QED BY <1>2, <1>3, <1>4, <2>1, <2>2, RunOnlyKeeps
<1>6. CASE StageFails(r) \/ Close(r)
  <2>1. PICK e \in Last : Emit(r, "over", <<e>>)
    BY <1>6 DEF StageFails, Close, Last
  <2>2. /\ run' \in [Runs -> RunRecord] /\ Begun' /\ Ordered'
        /\ run'[r].turn = run[r].turn /\ run'[r].sent = run[r].sent /\ run'[r].at = "over"
    BY <1>1, <1>2, <2>1, Terminates
  <2> QED BY <1>2, <1>3, <1>4, <2>2, RunOnlyKeeps
<1>7. CASE Delta(r) \/ Finish(r) \/ EmptySearch(r)
  <2>1. /\ run' \in [Runs -> RunRecord] /\ Begun' /\ Ordered'
        /\ run'[r].turn = run[r].turn
    BY <1>1, <1>7, DeltaSends
  <2>2. run[r].at # "ended"
    BY <1>7 DEF Delta, Finish, EmptySearch
  <2> QED BY <1>2, <1>3, <1>4, <2>1, <2>2, RunOnlyKeeps
<1> QED BY <1>5, <1>6, <1>7 DEF Command

-----------------------------------------------------------------------------
(* The callbacks of a stream.                                               *)

\* A callback leaves what the run has sent; a save that it sends is whole.
LEMMA CallbackKeeps ==
    ASSUME IInv, NEW r \in Runs, run[r].at # "none", UNCHANGED <<flightVars, rows, call>>,
           NEW n \in RunRecord, run' = [run EXCEPT ![r] = n],
           n.turn = run[r].turn, n.at = run[r].at, n.sent = run[r].sent,
           store' \in Store0, store'.gen = store.gen,
           store'.text.run \in {NoRun, store.gen},
           store'.text.run = NoRun => store'.text.n = 0,
           settled' \subseteq Turns, excused' \subseteq Turns, saves' \subseteq Save,
           saves \subseteq saves', \A s \in saves' \ saves :
               /\ s.call = NoCall
               /\ s.kind = "answer" => s.run = s.text.run /\ IsWhole(s.turn, s.text, s.cites),
           Ordered'
    PROVE  IInv'
<1>1. run' \in [Runs -> RunRecord] /\ run'[r] = n /\ \A q \in Runs \ {r} : run'[q] = run[q]
  BY Put DEF IInv
<1>2. Typed'
  BY <1>1 DEF IInv, Typed, flightVars
<1>3. \A q \in Runs : /\ run'[q].at = run[q].at /\ run'[q].sent = run[q].sent
                       /\ run'[q].turn = run[q].turn
  BY <1>1
<1>4. Begun'
  <2>1. \A q \in Runs : run'[q].at = "none" => run'[q] = NoRunRecord
    BY <1>1, <1>3 DEF IInv, Begun
  <2> QED BY <1>3, <2>1 DEF IInv, Begun
<1>5. Whole'
  <2>1. \A t, x, c : IsWhole(t, x, c) => IsWhole(t, x, c)'
    BY <1>3 DEF IsWhole
  <2> QED BY <2>1 DEF IInv, Whole
<1>6. Waiting'
  BY ChatAssumption DEF IInv, Waiting
<1> QED BY <1>2, <1>4, <1>5, <1>6 DEF IInv

\* A callback that only reads.
LEMMA ReadOnlyKeeps ==
    ASSUME IInv, NEW r \in Runs, run[r].at # "none",
           UNCHANGED <<flightVars, rows, store, settled, call, saves, excused>>,
           NEW n \in RunRecord, run' = [run EXCEPT ![r] = n],
           n.turn = run[r].turn, n.at = run[r].at, n.sent = run[r].sent, Ordered'
    PROVE  IInv'
<1>1. /\ store' \in Store0 /\ store'.gen = store.gen /\ store'.text.run \in {NoRun, store.gen}
      /\ (store'.text.run = NoRun => store'.text.n = 0)
      /\ settled' \subseteq Turns /\ excused' \subseteq Turns /\ saves' \subseteq Save
      /\ saves' \ saves = {} /\ saves \subseteq saves' /\ UNCHANGED <<flightVars, rows, call>>
  BY DEF IInv, Typed, Begun
<1>2. \A s \in saves' \ saves :
          /\ s.call = NoCall
          /\ s.kind = "answer" => s.run = s.text.run /\ IsWhole(s.turn, s.text, s.cites)
  BY <1>1
<1> QED BY <1>1, <1>2, CallbackKeeps

\* The head of a queue is read.
LEMMA TailQueued ==
    ASSUME Typed, NEW r \in Runs, NEW q, q = run[r].queue, q # <<>>,
           NEW d \in 0 .. Len(q), Queued(r, d),
           run'[r].queue = Tail(q), run'[r].at = run[r].at, run'[r].sent = run[r].sent,
           store'.gen = store.gen,
           store.gen = r /\ q[1] = "cites" => store'.cites = r,
           q[1] = "delta" => store'.cites = store.cites,
           NEW n, n = (IF q[1] = "delta" THEN d - 1 ELSE 0),
           n + run'[r].pending <= run[r].sent,
           store.gen = r => n + run'[r].pending + Shown(r)' <= run[r].sent,
           store.gen = r /\ Owing(r)' => n + run'[r].pending + Shown(r)' = run[r].sent
    PROVE  n \in 0 .. Len(run'[r].queue) /\ Queued(r, n)'
<1>1. q \in Seq(Events) /\ Len(q) \in Nat /\ Len(q) > 0 /\ d \in Nat /\ d <= Len(q)
      /\ Tail(q) \in Seq(Events) /\ Len(Tail(q)) = Len(q) - 1
      /\ (\A i \in 1 .. Len(q) - 1 : Tail(q)[i] = q[i + 1])
  BY RunFields, Popped
<1>2. /\ (\A i \in 1 .. Len(q) : q[i] = "delta" <=> i <= d)
      /\ (\A i \in 1 .. Len(q) : q[i] = "done" =>
              /\ run[r].at \in {"ended", "over"}
              /\ \/ i = d + 1 /\ (store.gen = r => store.cites = r)
                 \/ i = d + 2 /\ q[d + 1] = "cites")
      /\ (\A i \in 1 .. Len(q) : q[i] \in Last => i = Len(q) /\ run[r].at = "over")
      /\ (d # Len(q) => run[r].at \in {"ended", "over"})
  BY DEF Queued
<1>3. /\ q[1] = "delta" => d >= 1 /\ n = d - 1
      /\ q[1] # "delta" => d = 0 /\ n = 0
  <2>1. 1 \in 1 .. Len(q)
    BY <1>1
  <2>2. q[1] = "delta" <=> 1 <= d
    BY <1>2, <2>1
  <2> QED BY <1>1, <2>2
<1>4. n \in Nat /\ n <= Len(q) - 1
  BY <1>1, <1>3
<1> DEFINE w == Tail(q)
<1>5. Len(w) = Len(q) - 1 /\ \A i \in 1 .. Len(w) :
          i \in Nat /\ i + 1 \in 1 .. Len(q) /\ w[i] = q[i + 1]
  BY <1>1
<1> HIDE DEF w
<1>6. \A i \in 1 .. Len(w) : w[i] = "delta" <=> i <= n
  <2> TAKE i \in 1 .. Len(w)
  <2>1. w[i] = "delta" <=> i + 1 <= d
    BY <1>2, <1>5
  <2> QED BY <1>1, <1>3, <1>5, <2>1
<1>7. \A i \in 1 .. Len(w) : w[i] \in Last => i = Len(w) /\ run[r].at = "over"
  <2> TAKE i \in 1 .. Len(w)
  <2>1. w[i] \in Last => i + 1 = Len(q) /\ run[r].at = "over"
    BY <1>2, <1>5
  <2> QED BY <1>1, <1>5, <2>1
<1>8. \A i \in 1 .. Len(w) : w[i] = "done" =>
              /\ run[r].at \in {"ended", "over"}
              /\ \/ i = n + 1 /\ (store'.gen = r => store'.cites = r)
                 \/ i = n + 2 /\ w[n + 1] = "cites"
  <2> SUFFICES ASSUME NEW i \in 1 .. Len(w), w[i] = "done"
               PROVE  /\ run[r].at \in {"ended", "over"}
                      /\ \/ i = n + 1 /\ (store'.gen = r => store'.cites = r)
                         \/ i = n + 2 /\ w[n + 1] = "cites"
    OBVIOUS
  <2>1. i \in Nat /\ i >= 1 /\ i + 1 \in 1 .. Len(q) /\ q[i + 1] = "done"
    BY <1>5
  <2>2. /\ run[r].at \in {"ended", "over"}
        /\ \/ i + 1 = d + 1 /\ (store.gen = r => store.cites = r)
           \/ i + 1 = d + 2 /\ q[d + 1] = "cites"
    BY <1>2, <2>1
  <2>3. CASE q[1] = "delta"
    <3>1. i = n + 2 => n + 1 \in 1 .. Len(w) /\ n + 1 + 1 = d + 1
      BY <1>1, <1>3, <2>1, <2>3, <1>5
    <3>2. i = n + 2 => w[n + 1] = q[d + 1]
      BY <1>5, <3>1
    <3> QED BY <1>1, <1>3, <2>1, <2>2, <2>3, <3>2
  <2>4. CASE q[1] # "delta"
    <3>1. d = 0 /\ n = 0 /\ i = 1 /\ q[1] = "cites"
      BY <1>1, <1>3, <2>1, <2>2, <2>4
    <3> QED BY <2>2, <3>1
  <2> QED BY <2>3, <2>4
<1>9. n # Len(w) => run[r].at \in {"ended", "over"}
  <2>1. n # Len(w) => d # Len(q)
    BY <1>1, <1>3, <1>5
  <2> QED BY <1>2, <2>1
<1>10. n \in 0 .. Len(w)
  BY <1>1, <1>4, <1>5
<1>11. run'[r].queue = w
  BY DEF w
<1> QED BY <1>6, <1>7, <1>8, <1>9, <1>10, <1>11 DEF Queued

\* A frame that is read while the done is still due is neither the done nor a last
\* one.
LEMMA TailOwes ==
    ASSUME Typed, NEW r \in Runs, run[r].queue # <<>>, NEW d \in 0 .. Len(run[r].queue),
           Queued(r, d), run'[r].queue = Tail(run[r].queue), run'[r].at = run[r].at, Owing(r)'
    PROVE  Owing(r) /\ Head(run[r].queue) # "done" /\ Head(run[r].queue) \notin Last
<1> DEFINE q == run[r].queue
<1>1. q \in Seq(Events) /\ Len(q) \in Nat /\ Len(q) > 0 /\ Len(Tail(q)) = Len(q) - 1
      /\ (\A i \in 1 .. Len(q) - 1 : Tail(q)[i] = q[i + 1]) /\ Head(q) = q[1]
  BY RunFields, Popped
<1>2. d \in Nat
      /\ (\A i \in 1 .. Len(q) : q[i] = "delta" <=> i <= d)
      /\ (\A i \in 1 .. Len(q) : q[i] = "done" =>
              /\ run[r].at \in {"ended", "over"}
              /\ (i = d + 1 \/ (i = d + 2 /\ q[d + 1] = "cites")))
      /\ (\A i \in 1 .. Len(q) : q[i] \in Last => i = Len(q) /\ run[r].at = "over")
  BY DEF Queued
<1>3. \/ run[r].at \notin {"ended", "over"}
      \/ \E i \in 1 .. Len(q) - 1 : q[i + 1] = "done"
  BY <1>1 DEF Owing
<1> HIDE DEF q
<1>4. 1 \in 1 .. Len(q)
  BY <1>1
<1>5. CASE run[r].at \notin {"ended", "over"}
  BY <1>1, <1>2, <1>4, <1>5 DEF Owing, q
<1>6. CASE \E i \in 1 .. Len(q) - 1 : q[i + 1] = "done"
  <2>1. PICK i \in 1 .. Len(q) - 1 : q[i + 1] = "done"
    BY <1>6
  <2>2. i + 1 \in 1 .. Len(q) /\ i >= 1 /\ i \in Nat
    BY <1>1, <2>1
  <2>3. Owing(r)
    BY <2>1, <2>2 DEF Owing, q
  <2>4. q[1] # "done"
    <3> SUFFICES ASSUME q[1] = "done" PROVE FALSE
      OBVIOUS
    <3>1. d = 0
      BY <1>1, <1>2, <1>4
    <3>2. i + 1 = d + 2 /\ q[d + 1] = "cites"
      BY <1>2, <2>1, <2>2, <3>1
    <3> QED BY <3>1, <3>2
  <2>5. q[1] \notin Last
    BY <1>1, <1>2, <1>4, <2>2
  <2> QED BY <1>1, <2>3, <2>4, <2>5 DEF q
<1> QED BY <1>3, <1>5, <1>6

\* isCurrent: a frame of a superseded stream changes nothing that the invariant
\* speaks of.
LEMMA Superseded ==
    ASSUME IInv, NEW r \in Runs, Ignore(r)
    PROVE  IInv'
<1> DEFINE n == [run[r] EXCEPT !.queue = <<>>]
<1>1. n \in RunRecord /\ n.turn = run[r].turn /\ n.at = run[r].at /\ n.sent = run[r].sent
      /\ n.queue = <<>> /\ n.pending = run[r].pending
  <2>1. <<>> \in Seq(Events)
    OBVIOUS
  <2> QED BY <2>1, RunFields DEF RunRecord, IInv
<1>2. run' = [run EXCEPT ![r] = n]
  BY DEF Ignore
<1> HIDE DEF n
<1>3. run' \in [Runs -> RunRecord] /\ run'[r] = n /\ \A q \in Runs \ {r} : run'[q] = run[q]
  BY <1>1, <1>2, Put DEF IInv
<1>4. store' = store /\ store.gen # r /\ run[r].at # "none"
  BY DEF Ignore, Current, IInv, Begun, NoRunRecord
<1>5. PICK d \in 0 .. Len(run[r].queue) : Queued(r, d)
  BY DEF IInv, Ordered
<1>6. 0 \in 0 .. Len(run'[r].queue) /\ Queued(r, 0)'
  <2>1. run[r].pending \in Nat /\ run[r].sent \in Nat /\ d \in Nat
        /\ d + run[r].pending <= run[r].sent
    BY <1>5, RunFields DEF Queued, IInv
  <2>2. 0 + run[r].pending <= run[r].sent
    BY <2>1
  <2> QED BY <1>1, <1>3, <1>4, <2>2 DEF Queued
<1>7. Ordered'
  BY <1>3, <1>4, <1>6, OrderedBy, Elsewhere DEF IInv
<1> QED BY <1>1, <1>2, <1>4, <1>7, ReadOnlyKeeps DEF Ignore

\* onDelta: the text in the store is what was sent of it so far.
LEMMA Deltas ==
    ASSUME IInv, NEW r \in Runs, OnDelta(r)
    PROVE  IInv'
<1> DEFINE q == run[r].queue
<1>0. Typed /\ store' = store /\ store.gen = r /\ q # <<>> /\ q[1] = "delta"
      /\ run[r].at # "none" /\ q \in Seq(Events) /\ Len(q) \in Nat
  BY RunFields, Popped DEF OnDelta, Head1, Current, IInv, Begun, NoRunRecord
<1>1. PICK d \in 0 .. Len(q) : Queued(r, d)
  BY DEF IInv, Ordered
<1>2. /\ run[r].pending \in Nat /\ run[r].sent \in 0 .. MaxDeltas /\ MaxDeltas \in Nat
      /\ d \in Nat /\ d >= 1 /\ d + run[r].pending <= run[r].sent /\ Shown(r) \in Nat
      /\ d + run[r].pending + Shown(r) <= run[r].sent
      /\ Owing(r) => d + run[r].pending + Shown(r) = run[r].sent
  <2>1. Shown(r) \in Nat
    BY ChatAssumption DEF Shown, IInv, Typed, Store0, Text
  <2>2. d \in Nat /\ d >= 1
    <3>1. 1 \in 1 .. Len(q)
      <4>1. Len(q) > 0
        BY <1>0, RunFields, Popped
      <4> QED BY <1>0, <4>1
    <3>2. q[1] = "delta" <=> 1 <= d
      BY <1>1, <3>1 DEF Queued
    <3> QED BY <1>0, <3>2
  <2> QED BY <1>0, <1>1, <2>1, <2>2, RunFields, ChatAssumption DEF Queued
<1> DEFINE n == [run[r] EXCEPT !.queue = Tail(q), !.pending = run[r].pending + 1]
<1>3. n \in RunRecord /\ n.turn = run[r].turn /\ n.at = run[r].at /\ n.sent = run[r].sent
      /\ n.queue = Tail(q) /\ n.pending = run[r].pending + 1
  <2>1. Tail(q) \in Seq(Events)
    BY <1>0, Popped
  <2>2. run[r].pending + 1 \in 0 .. MaxDeltas
    <3> DEFINE l == run[r].pending
               m == run[r].sent
    <3>1. l \in Nat /\ m \in 0 .. MaxDeltas /\ MaxDeltas \in Nat /\ d \in Nat /\ d >= 1 /\ d + l <= m
      BY <1>2
    <3> HIDE DEF l, m
    <3>2. l + 1 \in 0 .. MaxDeltas
      BY <3>1
    <3> QED BY <3>2 DEF l
  <2> QED BY <1>0, <2>1, <2>2, RunFields DEF RunRecord
<1>4. run' = [run EXCEPT ![r] = n]
  BY DEF OnDelta
<1> HIDE DEF n
<1>5. run' \in [Runs -> RunRecord] /\ run'[r] = n /\ \A p \in Runs \ {r} : run'[p] = run[p]
  BY <1>0, <1>3, <1>4, Put
<1>6. Shown(r)' = Shown(r) /\ (Owing(r)' => Owing(r))
  BY <1>0, <1>1, <1>3, <1>5, TailOwes DEF Shown
<1>7. d - 1 \in 0 .. Len(run'[r].queue) /\ Queued(r, d - 1)'
  <2>1. /\ (d - 1) + run'[r].pending <= run[r].sent
        /\ (d - 1) + run'[r].pending + Shown(r)' <= run[r].sent
        /\ Owing(r)' => (d - 1) + run'[r].pending + Shown(r)' = run[r].sent
    <3> DEFINE l == run[r].pending
               m == run[r].sent
               z == Shown(r)
    <3>1. /\ d \in Nat /\ l \in Nat /\ m \in 0 .. MaxDeltas /\ MaxDeltas \in Nat /\ z \in Nat
          /\ d >= 1 /\ d + l <= m /\ d + l + z <= m /\ (Owing(r) => d + l + z = m)
      BY <1>2
    <3>2. \E y, w : y = l + 1 /\ w = z /\ run'[r].pending = y /\ Shown(r)' = w
      BY <1>3, <1>5, <1>6
    <3>3. PICK y, w : y = l + 1 /\ w = z /\ run'[r].pending = y /\ Shown(r)' = w
      BY <3>2
    <3> HIDE DEF l, m, z
    <3>4. (d - 1) + y <= m /\ (d - 1) + y + w <= m /\ (Owing(r)' => (d - 1) + y + w = m)
      BY <1>6, <3>1, <3>3
    <3> QED BY <3>3, <3>4 DEF m
  <2> QED BY <1>0, <1>1, <1>3, <1>5, <2>1, TailQueued
<1>8. Ordered'
  BY <1>0, <1>5, <1>7, OrderedBy, Elsewhere DEF IInv
<1> QED BY <1>0, <1>3, <1>4, <1>8, ReadOnlyKeeps DEF OnDelta

\* What the store shows after a frame.
LEMMA FlushedText ==
    ASSUME IInv, NEW r \in Runs, Current(r)
    PROVE  /\ Flushed(r) \in Text /\ Flushed(r).run = r /\ r # NoRun
           /\ Flushed(r).n = Shown(r) + run[r].pending
           /\ Shown(r) \in Nat /\ run[r].pending \in Nat
           /\ Shown(r) + run[r].pending <= run[r].sent
<1>1. PICK d \in 0 .. Len(run[r].queue) : Queued(r, d)
  BY DEF IInv, Ordered
<1>2. Shown(r) \in Nat
  BY ChatAssumption DEF Shown, IInv, Typed, Store0, Text
<1>3. /\ d \in Nat /\ run[r].pending \in Nat /\ run[r].sent \in 0 .. MaxDeltas
      /\ run[r].sent \in Nat
  BY RunFields DEF IInv
<1>4. d + run[r].pending + Shown(r) <= run[r].sent
  BY <1>1 DEF Current, Queued
<1>5. Shown(r) + run[r].pending <= run[r].sent
      /\ Shown(r) + run[r].pending \in 0 .. MaxDeltas
  <2> DEFINE l == run[r].pending
             m == run[r].sent
             z == Shown(r)
  <2>1. d \in Nat /\ l \in Nat /\ m \in 0 .. MaxDeltas /\ m \in Nat /\ z \in Nat /\ d + l + z <= m
    BY <1>2, <1>3, <1>4
  <2>2. MaxDeltas \in Nat
    BY ChatAssumption
  <2> HIDE DEF l, m, z
  <2>3. z + l <= m /\ z + l \in 0 .. MaxDeltas
    BY <2>1, <2>2
  <2> QED BY <2>3 DEF l, m, z
<1>6. Flushed(r) = [run |-> r, n |-> Shown(r) + run[r].pending]
  BY DEF Flushed, Shown
<1> QED BY <1>2, <1>3, <1>5, <1>6, Numbers DEF Text

\* The frames other than deltas keep the invariant.
LEMMA Frames ==
    ASSUME IInv, NEW r \in Runs, Frame(r)
    PROVE  IInv'
<1> DEFINE n == [run[r] EXCEPT !.pending = 0]
<1>1. n \in RunRecord /\ n.turn = run[r].turn /\ n.at = run[r].at /\ n.sent = run[r].sent
      /\ n.queue = run[r].queue /\ n.pending = 0
  BY RunFields, ChatAssumption DEF RunRecord, IInv
<1>2. run' = [run EXCEPT ![r] = n]
  BY DEF Frame
<1> HIDE DEF n
<1>3. run' \in [Runs -> RunRecord] /\ run'[r] = n /\ \A q \in Runs \ {r} : run'[q] = run[q]
  BY <1>1, <1>2, Put DEF IInv
<1>4. run[r].at # "none"
  BY DEF Frame, IInv, Begun, NoRunRecord
<1>5. PICK d \in 0 .. Len(run[r].queue) : Queued(r, d)
  BY DEF IInv, Ordered
<1>6. /\ d \in Nat /\ run[r].pending \in Nat /\ run[r].sent \in Nat
      /\ d + run[r].pending <= run[r].sent /\ Owing(r)' = Owing(r)
  BY <1>1, <1>3, <1>5, RunFields DEF Queued, IInv, Owing
<1>7. CASE Current(r)
  <2>1. store' = [store EXCEPT !.text = Flushed(r)] /\ store \in Store0
    BY <1>7 DEF Frame, IInv, Typed
  <2>2. store' \in Store0 /\ store'.gen = store.gen /\ store'.text = Flushed(r)
        /\ store'.cites = store.cites /\ store'.text.run = r /\ store.gen = r
    BY <1>7, <2>1, FlushedText DEF Store0, Current
  <2>3. Shown(r)' = Shown(r) + run[r].pending /\ Shown(r) \in Nat
    BY <1>7, <2>2, FlushedText DEF Shown
  <2>4. Queued(r, d)'
    <3>1. /\ d + 0 <= run[r].sent
          /\ store.gen = r => d + run[r].pending + Shown(r) <= run[r].sent
          /\ store.gen = r /\ Owing(r) => d + run[r].pending + Shown(r) = run[r].sent
      BY <1>5, <1>6 DEF Queued
    <3>2. /\ store.gen = r => d + 0 + Shown(r)' <= run[r].sent
          /\ store.gen = r /\ Owing(r)' => d + 0 + Shown(r)' = run[r].sent
      BY <1>6, <2>3, <3>1
    <3> QED BY <1>1, <1>3, <1>5, <2>2, <3>1, <3>2 DEF Queued
  <2>5. Ordered'
    BY <1>1, <1>3, <1>5, <2>2, <2>4, OrderedBy DEF IInv
  <2>6. r # NoRun /\ UNCHANGED <<flightVars, rows, settled, call, saves, excused>>
    BY Numbers DEF Frame
  <2>7. saves' \ saves = {} /\ saves \subseteq saves' /\ settled' \subseteq Turns /\ excused' \subseteq Turns /\ saves' \subseteq Save
    BY <2>6 DEF IInv, Typed
  <2> QED BY <1>1, <1>2, <1>4, <2>2, <2>5, <2>6, <2>7, CallbackKeeps
<1>8. CASE ~Current(r)
  <2>1. store' = store /\ store.gen # r
    BY <1>8 DEF Frame, Current
  <2>2. Queued(r, d)'
    <3>1. d + 0 <= run[r].sent
      BY <1>6
    <3> QED BY <1>1, <1>3, <1>5, <1>6, <2>1, <3>1 DEF Queued
  <2>3. Ordered'
    BY <1>1, <1>3, <1>5, <2>1, <2>2, OrderedBy, Elsewhere DEF IInv
  <2> QED BY <1>1, <1>2, <1>4, <2>1, <2>3, ReadOnlyKeeps DEF Frame
<1> QED BY <1>7, <1>8

\* The head that is read is not a delta.
LEMMA EventRead ==
    ASSUME IInv, NEW r \in Runs, Current(r), NEW e, e # "delta", Head1(r, e),
           run'[r].queue = Tail(run[r].queue), run'[r].at = run[r].at,
           run'[r].sent = run[r].sent, \A p \in Runs \ {r} : run'[p] = run[p],
           store'.gen = store.gen, e = "cites" => store'.cites = r,
           NEW w, w = run'[r].pending, w \in Nat, NEW x, x = Shown(r)', x \in Nat,
           w + x <= run[r].pending + Shown(r),
           e \notin {"done"} \cup Last => w + x = run[r].pending + Shown(r)
    PROVE  Ordered'
<1> DEFINE q == run[r].queue
<1>0. Typed /\ store.gen = r /\ q # <<>> /\ q[1] = e /\ Head(q) = e
      /\ q \in Seq(Events) /\ Len(q) \in Nat /\ Len(q) > 0
  BY RunFields, Popped DEF Head1, Current, IInv
<1>1. PICK d \in 0 .. Len(q) : Queued(r, d)
  BY DEF IInv, Ordered
<1>2. d = 0
  <2>1. 1 \in 1 .. Len(q)
    BY <1>0
  <2>2. q[1] = "delta" <=> 1 <= d
    BY <1>1, <2>1 DEF Queued
  <2> QED BY <1>0, <2>2
<1>3. /\ run[r].pending \in Nat /\ run[r].sent \in Nat /\ Shown(r) \in Nat
      /\ run[r].pending + Shown(r) <= run[r].sent
      /\ Owing(r) => run[r].pending + Shown(r) = run[r].sent
  <2>1. run[r].pending \in Nat /\ run[r].sent \in Nat /\ Shown(r) \in Nat
    BY FlushedText, RunFields DEF IInv
  <2>2. /\ 0 + run[r].pending + Shown(r) <= run[r].sent
        /\ Owing(r) => 0 + run[r].pending + Shown(r) = run[r].sent
    BY <1>0, <1>1, <1>2 DEF Queued
  <2> QED BY <2>1, <2>2
<1>4. Owing(r)' => Owing(r) /\ e # "done" /\ e \notin Last
  BY <1>0, <1>1, TailOwes
<1>5. /\ 0 + w <= run[r].sent /\ 0 + w + x <= run[r].sent
      /\ Owing(r)' => 0 + w + x = run[r].sent
  <2>1. w \in Nat /\ x \in Nat /\ w + x <= run[r].pending + Shown(r)
        /\ (Owing(r)' => w + x = run[r].pending + Shown(r))
    BY <1>4
  <2> DEFINE l == run[r].pending
             m == run[r].sent
             z == Shown(r)
  <2>2. /\ l \in Nat /\ m \in Nat /\ z \in Nat /\ l + z <= m /\ w + x <= l + z
        /\ (Owing(r)' => l + z = m /\ w + x = l + z)
    BY <1>3, <1>4, <2>1
  <2> HIDE DEF l, m, z
  <2>3. 0 + w <= m /\ 0 + w + x <= m /\ (Owing(r)' => 0 + w + x = m)
    BY <2>1, <2>2, SMTT(30)
  <2> QED BY <2>3 DEF m
<1>6. 0 \in 0 .. Len(run'[r].queue) /\ Queued(r, 0)'
  BY <1>0, <1>1, <1>5, TailQueued
<1> QED BY <1>0, <1>6, OrderedBy DEF IInv

\* persistTerminalMarker sends a well-formed save.
LEMMA MarkerSave ==
    ASSUME Typed, NEW kind \in RowKinds \ {"user"}, NEW t \in Turns, NEW x \in Text,
           NEW c \in Calls \cup {NoCall}
    PROVE  /\ Marker(kind, t, x, c) \in Save /\ Marker(kind, t, x, c).kind = kind
           /\ Marker(kind, t, x, c).call = c
BY DEF Marker, Save

\* An event but a delta is read.
LEMMA Events1 ==
    ASSUME IInv, NEW r \in Runs, OnCitations(r) \/ OnDone(r) \/ OnStreamDone(r) \/ OnFailed(r)
    PROVE  IInv'
<1> DEFINE q == run[r].queue
           f == Flushed(r)
<1>0. Typed /\ Current(r) /\ store.gen = r /\ q # <<>> /\ q \in Seq(Events) /\ Tail(q) \in Seq(Events)
      /\ run[r].at # "none" /\ run[r].turn \in Turns /\ store \in Store0
      /\ UNCHANGED <<flightVars, rows, call>> /\ r # NoRun /\ NoRun \in Runs \cup {NoRun}
      /\ saves \subseteq Save /\ settled \subseteq Turns /\ excused \subseteq Turns
  <2>1. Current(r) /\ q # <<>> /\ UNCHANGED <<flightVars, rows, call>>
    BY DEF OnCitations, OnDone, OnStreamDone, OnFailed, Head1
  <2>2. q \in Seq(Events) /\ Tail(q) \in Seq(Events)
    BY <2>1, RunFields, Popped DEF IInv
  <2>3. run[r].at # "none" /\ run[r].turn \in Turns
    BY <2>1 DEF IInv, Begun, NoRunRecord
  <2> QED BY <2>1, <2>2, <2>3, Numbers DEF IInv, Typed, Current
<1>1. /\ f \in Text /\ f.run = r /\ f.n = Shown(r) + run[r].pending
      /\ Shown(r) \in Nat /\ run[r].pending \in Nat /\ f.n \in Nat
      /\ run[r].pending \in 0 .. MaxDeltas /\ 0 \in 0 .. MaxDeltas
  BY <1>0, FlushedText, ChatAssumption DEF Typed, RunRecord
<1> HIDE DEF f
<1>2. CASE OnCitations(r)
  <2> DEFINE n == [run[r] EXCEPT !.queue = Tail(q)]
  <2>1. n \in RunRecord /\ n.turn = run[r].turn /\ n.at = run[r].at /\ n.sent = run[r].sent
        /\ n.queue = Tail(q) /\ n.pending = run[r].pending
    BY <1>0, RunFields DEF RunRecord
  <2>2. run' = [run EXCEPT ![r] = n]
    BY <1>2 DEF OnCitations, Pop
  <2> HIDE DEF n
  <2>3. run'[r] = n /\ \A p \in Runs \ {r} : run'[p] = run[p]
    BY <1>0, <2>1, <2>2, Put
  <2>4. store' \in Store0 /\ store'.gen = store.gen /\ store'.text = store.text /\ store'.cites = r
        /\ Shown(r)' = Shown(r)
    BY <1>0, <1>2 DEF OnCitations, Store0, Shown
  <2>5. Ordered'
    <3>1. "cites" # "delta" /\ Head1(r, "cites")
          /\ run[r].pending + Shown(r) <= run[r].pending + Shown(r)
      BY <1>1, <1>2 DEF OnCitations
    <3> QED BY <1>0, <1>1, <2>1, <2>3, <2>4, <3>1, EventRead
  <2>6. saves' \ saves = {} /\ saves \subseteq saves' /\ settled' \subseteq Turns /\ excused' \subseteq Turns /\ saves' \subseteq Save
    BY <1>0, <1>2 DEF OnCitations
  <2>7. store'.text.run \in {NoRun, store.gen} /\ (store'.text.run = NoRun => store'.text.n = 0)
    BY <2>4 DEF IInv, Begun
  <2> QED BY <1>0, <2>1, <2>2, <2>4, <2>5, <2>6, <2>7, CallbackKeeps
<1>3. CASE OnDone(r)
  <2> DEFINE n == [run[r] EXCEPT !.queue = Tail(q), !.pending = 0, !.persisted = TRUE]
             s == [kind |-> "answer", turn |-> run[r].turn, run |-> r, text |-> f,
                   cites |-> store.cites, call |-> NoCall, landed |-> FALSE]
  <2>1. n \in RunRecord /\ n.turn = run[r].turn /\ n.at = run[r].at /\ n.sent = run[r].sent
        /\ n.queue = Tail(q) /\ n.pending = 0
    BY <1>0, <1>1, RunFields DEF RunRecord
  <2>2. run' = [run EXCEPT ![r] = n]
    BY <1>3 DEF OnDone
  <2> HIDE DEF n
  <2>3. run'[r] = n /\ \A p \in Runs \ {r} : run'[p] = run[p]
    BY <1>0, <2>1, <2>2, Put
  <2>4. store' \in Store0 /\ store'.gen = store.gen /\ store'.text = f /\ store'.cites = store.cites
        /\ Shown(r)' = f.n
    BY <1>0, <1>1, <1>3 DEF OnDone, Store0, Shown, f
  <2>5. Ordered'
    <3>1. "done" # "delta" /\ Head1(r, "done") /\ "done" # "cites"
          /\ 0 + f.n <= run[r].pending + Shown(r) /\ 0 \in Nat
      BY <1>1, <1>3 DEF OnDone
    <3> QED BY <1>0, <1>1, <2>1, <2>3, <2>4, <3>1, EventRead
  <2>6. saves' = saves \cup {s} /\ settled' \subseteq Turns /\ excused' \subseteq Turns
    BY <1>0, <1>3 DEF OnDone, f
  <2>7. s \in Save
    BY <1>0, <1>1 DEF Save, Store0, RowKinds
  <2>8. IsWhole(run[r].turn, f, store.cites)
    <3>1. PICK d \in 0 .. Len(q) : Queued(r, d)
      BY DEF IInv, Ordered
    <3>2. 1 \in 1 .. Len(q) /\ q[1] = "done" /\ Owing(r)
      BY <1>0, <1>3, Popped DEF OnDone, Head1, Owing
    <3>3. d = 0 /\ run[r].at \in {"ended", "over"} /\ store.cites = r
          /\ 0 + run[r].pending + Shown(r) = run[r].sent
      <4>1. d = 0
        <5>1. q[1] = "delta" <=> 1 <= d
          BY <3>1, <3>2 DEF Queued
        <5> QED BY <3>2, <5>1
      <4>2. /\ run[r].at \in {"ended", "over"}
            /\ \/ 1 = 0 + 1 /\ (store.gen = r => store.cites = r)
               \/ 1 = 0 + 2 /\ q[0 + 1] = "cites"
        BY <3>1, <3>2, <4>1 DEF Queued
      <4>3. store.gen = r /\ Owing(r) => 0 + run[r].pending + Shown(r) = run[r].sent
        BY <3>1, <4>1 DEF Queued
      <4> QED BY <1>0, <3>2, <4>1, <4>2, <4>3
    <3>4. f.n = run[r].sent
      BY <1>1, <3>3
    <3> QED BY <1>1, <3>3, <3>4 DEF IsWhole
  <2>9. s.run = s.text.run /\ IsWhole(s.turn, s.text, s.cites) /\ s.call = NoCall
    BY <1>1, <2>8
  <2> HIDE DEF s
  <2>10. saves' \subseteq Save /\ saves \subseteq saves' /\ \A z \in saves' \ saves :
              /\ z.call = NoCall
              /\ z.kind = "answer" => z.run = z.text.run /\ IsWhole(z.turn, z.text, z.cites)
    BY <1>0, <2>6, <2>7, <2>9
  <2>11. store'.text.run \in {NoRun, store.gen} /\ (store'.text.run = NoRun => store'.text.n = 0)
    BY <1>0, <1>1, <2>4
  <2> QED BY <1>0, <2>1, <2>2, <2>4, <2>5, <2>6, <2>10, <2>11, CallbackKeeps
<1>4. CASE OnStreamDone(r)
  <2> DEFINE n == [run[r] EXCEPT !.queue = Tail(q)]
  <2>1. n \in RunRecord /\ n.turn = run[r].turn /\ n.at = run[r].at /\ n.sent = run[r].sent
        /\ n.queue = Tail(q) /\ n.pending = run[r].pending
    BY <1>0, RunFields DEF RunRecord
  <2>2. run' = [run EXCEPT ![r] = n]
    BY <1>4 DEF OnStreamDone, Pop
  <2> HIDE DEF n
  <2>3. run'[r] = n /\ \A p \in Runs \ {r} : run'[p] = run[p]
    BY <1>0, <2>1, <2>2, Put
  <2>4. NoText \in Text /\ NoText.run = NoRun /\ NoText.n = 0 /\ NoTurn \in Turns \cup {NoTurn}
    BY <1>1 DEF NoText, Text
  <2>5. store' \in Store0 /\ store'.gen = store.gen /\ store'.text \in {store.text, NoText}
    BY <1>0, <1>4, <2>4 DEF OnStreamDone, Store0
  <2>6. Shown(r)' \in Nat /\ Shown(r)' <= Shown(r)
    <3>1. CASE store'.text = store.text
      BY <1>1, <3>1 DEF Shown
    <3>2. CASE store'.text = NoText
      <4>1. Shown(r)' = 0
        BY <1>0, <2>4, <3>2 DEF Shown
      <4> QED BY <1>1, <4>1
    <3> QED BY <2>5, <3>1, <3>2
  <2>7. Ordered'
    <3> DEFINE x == Shown(r)'
    <3>1. "closed" # "delta" /\ Head1(r, "closed") /\ "closed" # "cites" /\ "closed" \in Last
      BY <1>4 DEF OnStreamDone, Last
    <3>2. x \in Nat /\ run[r].pending + x <= run[r].pending + Shown(r)
      BY <1>1, <2>6
    <3> HIDE DEF x
    <3>3. x = Shown(r)'
      BY DEF x
    <3> QED BY <1>0, <1>1, <2>1, <2>3, <2>5, <3>1, <3>2, <3>3, EventRead
  <2>8. saves' \ saves = {} /\ saves \subseteq saves' /\ settled' \subseteq Turns /\ excused' \subseteq Turns /\ saves' \subseteq Save
    BY <1>0, <1>4 DEF OnStreamDone
  <2>9. store'.text.run \in {NoRun, store.gen} /\ (store'.text.run = NoRun => store'.text.n = 0)
    BY <2>4, <2>5 DEF IInv, Begun
  <2> QED BY <1>0, <2>1, <2>2, <2>5, <2>7, <2>8, <2>9, CallbackKeeps
<1>5. CASE OnFailed(r)
  <2> DEFINE n == [run[r] EXCEPT !.queue = Tail(q), !.pending = 0]
  <2>1. n \in RunRecord /\ n.turn = run[r].turn /\ n.at = run[r].at /\ n.sent = run[r].sent
        /\ n.queue = Tail(q) /\ n.pending = 0
    BY <1>0, <1>1, RunFields DEF RunRecord
  <2>2. run' = [run EXCEPT ![r] = n]
    BY <1>5 DEF OnFailed
  <2> HIDE DEF n
  <2>3. run'[r] = n /\ \A p \in Runs \ {r} : run'[p] = run[p]
    BY <1>0, <2>1, <2>2, Put
  <2>4. store' \in Store0 /\ store'.gen = store.gen /\ store'.text = f /\ store'.cites = store.cites
        /\ Shown(r)' = f.n
    BY <1>0, <1>1, <1>5 DEF OnFailed, Store0, Shown, f
  <2>5. PICK e \in {"cancelled", "failed", "gap"} : Head1(r, e)
    BY <1>5 DEF OnFailed
  <2>6. Ordered'
    <3>1. e # "delta" /\ e # "cites" /\ e \in Last
          /\ 0 + f.n <= run[r].pending + Shown(r) /\ 0 \in Nat
      BY <1>1, <2>5 DEF Last
    <3> QED BY <1>0, <1>1, <2>1, <2>3, <2>4, <2>5, <3>1, EventRead
  <2>7. /\ settled' \subseteq settled \cup {run[r].turn} /\ excused' \subseteq excused \cup {run[r].turn}
        /\ saves \subseteq saves'
        /\ saves' \subseteq saves \cup {Marker("cancelled", run[r].turn, f, NoCall),
                                      Marker("errored", run[r].turn, f, NoCall)}
    BY <1>5 DEF OnFailed, Mark, f
  <2>8. \A kind \in {"cancelled", "errored"} :
            /\ Marker(kind, run[r].turn, f, NoCall) \in Save
            /\ Marker(kind, run[r].turn, f, NoCall).kind # "answer"
            /\ Marker(kind, run[r].turn, f, NoCall).call = NoCall
    BY <1>0, <1>1, MarkerSave DEF RowKinds
  <2>9. /\ settled' \subseteq Turns /\ excused' \subseteq Turns /\ saves' \subseteq Save
        /\ saves \subseteq saves' /\ \A z \in saves' \ saves : z.kind # "answer" /\ z.call = NoCall
    BY <1>0, <2>7, <2>8
  <2>10. store'.text.run \in {NoRun, store.gen} /\ (store'.text.run = NoRun => store'.text.n = 0)
    BY <1>0, <1>1, <2>4
  <2> QED BY <1>0, <2>1, <2>2, <2>4, <2>6, <2>9, <2>10, CallbackKeeps
<1> QED BY <1>2, <1>3, <1>4, <1>5

-----------------------------------------------------------------------------
(* The calls of the store and the saves.                                    *)

\* A step that leaves the streams: the rows and the saves that it adds are whole.
LEMMA StreamsKeep ==
    ASSUME IInv, UNCHANGED run, slot' \in Runs \cup {NoRun}, cancelled' \subseteq Runs,
           store' \in Store0, store' = [store EXCEPT !.streaming = store'.streaming],
           settled' \subseteq Turns, excused' \subseteq Turns,
           call' \in [Calls -> CallRecord],
           \A c \in Calls : call'[c].at # "idle" => call'[c].turn \in Turns,
           saves' \subseteq Save,
           \A s \in saves' \ saves :
               s.kind = "answer" => s.run = s.text.run /\ IsWhole(s.turn, s.text, s.cites),
           NEW z \in Row, z.kind = "answer" => IsWhole(z.turn, z.text, z.cites),
           rows' = rows \/ rows' = Append(rows, z), Waiting'
    PROVE  IInv'
<1>1. rows \in Seq(Row) /\ rows' \in Seq(Row)
      /\ \A i \in 1 .. Len(rows') : rows'[i] = z \/ (i \in 1 .. Len(rows) /\ rows'[i] = rows[i])
  <2>1. rows \in Seq(Row)
    BY DEF IInv, Typed
  <2>2. CASE rows' = rows
    BY <2>1, <2>2
  <2>3. CASE rows' = Append(rows, z)
    BY <2>1, <2>3
  <2> QED BY <2>2, <2>3
<1>2. Typed'
  BY <1>1 DEF IInv, Typed
<1>3. store'.gen = store.gen /\ store'.text = store.text /\ store'.cites = store.cites
  BY DEF IInv, Typed, Store0
<1>4. Begun'
  BY <1>3 DEF IInv, Begun
<1>5. Ordered'
  <2> SUFFICES ASSUME NEW r \in Runs PROVE \E d \in 0 .. Len(run'[r].queue) : Queued(r, d)'
    BY DEF Ordered
  <2>1. PICK d \in 0 .. Len(run[r].queue) : Queued(r, d)
    BY DEF IInv, Ordered
  <2>2. Owing(r)' = Owing(r) /\ Shown(r)' = Shown(r)
    BY <1>3 DEF Owing, Shown
  <2>3. Queued(r, d)'
    BY <1>3, <2>1, <2>2 DEF Queued
  <2> QED BY <2>1, <2>3
<1>6. Whole'
  <2>1. \A t, x, c : IsWhole(t, x, c) => IsWhole(t, x, c)'
    BY DEF IsWhole
  <2>2. \A s \in saves' : s.kind = "answer" => s.run = s.text.run /\ IsWhole(s.turn, s.text, s.cites)
    BY DEF IInv, Whole
  <2>3. \A i \in 1 .. Len(rows') : rows'[i].kind = "answer" =>
            IsWhole(rows'[i].turn, rows'[i].text, rows'[i].cites)
    BY <1>1 DEF IInv, Whole
  <2> QED BY <2>1, <2>2, <2>3 DEF Whole
<1> QED BY <1>2, <1>4, <1>5, <1>6 DEF IInv

\* What the steps of the store take for granted.
LEMMA Plain ==
    ASSUME IInv
    PROVE  /\ Typed /\ slot \in Runs \cup {NoRun} /\ cancelled \subseteq Runs /\ store \in Store0
           /\ store.text \in Text /\ settled \subseteq Turns /\ excused \subseteq Turns
           /\ call \in [Calls -> CallRecord] /\ saves \subseteq Save
           /\ (\A c \in Calls : call[c].at # "idle" => call[c].turn \in Turns)
           /\ store = [store EXCEPT !.streaming = store.streaming]
           /\ NoText \in Text /\ NoRun \in Runs \cup {NoRun} /\ NoCallRecord \in CallRecord
<1>1. NoText \in Text
  BY ChatAssumption DEF NoText, Text
<1>2. NoCallRecord \in CallRecord
  BY DEF NoCallRecord, CallRecord
<1>3. Typed
  BY DEF IInv
<1>4. store = [store EXCEPT !.streaming = store.streaming]
  BY <1>3 DEF Typed, Store0
<1>5. store.text \in Text
  BY <1>3 DEF Typed, Store0
<1>6. \A c \in Calls : call[c].at # "idle" => call[c].turn \in Turns
  BY DEF IInv, Begun
<1> QED BY <1>1, <1>2, <1>3, <1>4, <1>5, <1>6 DEF Typed

\* send, regenerate, stop: the steps of a call up to the stream keep the invariant.
LEMMA CallsKeep ==
    ASSUME IInv, NEW c \in Calls, NEW t \in Turns, NEW new \in BOOLEAN,
           Begin(c, t, new) \/ CancelAsk(c) \/ SaveUser(c) \/ Stop
    PROVE  IInv'
<1> DEFINE u == NewRow("user", t, NoText, NoRun)
<1>1. u \in Row /\ u.kind # "answer"
  BY Plain DEF NewRow, Row, RowKinds
<1> HIDE DEF u
<1>2. UNCHANGED <<run, store>>
  BY DEF Begin, CancelAsk, SaveUser, Stop
<1>3. slot' \in Runs \cup {NoRun} /\ cancelled' \subseteq Runs
  BY Plain DEF Begin, CancelAsk, SaveUser, Stop, CancelSlot, flightVars
<1>4. CASE Begin(c, t, new)
  <2> DEFINE mark == store.streaming /\ store.turn # NoTurn /\ store.turn \notin settled
             n == [at |-> CASE mark -> "marking"
                           [] store.streaming /\ ~mark -> "cancel"
                           [] ~store.streaming /\ new -> "user"
                           [] OTHER -> "start",
                   turn |-> t, new |-> new]
             s == Marker("cancelled", store.turn, store.text, c)
  <2>1. n \in CallRecord /\ n.turn = t /\ call' = [call EXCEPT ![c] = n]
    <3>1. n.at \in {"marking", "cancel", "user", "start"}
      OBVIOUS
    <3> QED BY <1>4, <3>1 DEF Begin, CallRecord
  <2>2. mark => s \in Save /\ s.kind # "answer" /\ store.turn \in Turns
    <3>1. store.turn \in Turns \cup {NoTurn}
      BY Plain DEF Store0
    <3>2. "cancelled" \in RowKinds \ {"user"} /\ "cancelled" # "answer" /\ c \in Calls \cup {NoCall}
      BY DEF RowKinds
    <3> QED BY <3>1, <3>2, Plain, MarkerSave
  <2>3. /\ saves' = saves \/ (mark /\ saves' = saves \cup {s})
        /\ settled' = settled \/ (mark /\ settled' = settled \cup {store.turn})
        /\ rows' = rows /\ excused' = excused
    BY <1>4 DEF Begin
  <2> HIDE DEF n, s, mark
  <2>4. /\ call' \in [Calls -> CallRecord]
        /\ \A d \in Calls : call'[d].at # "idle" => call'[d].turn \in Turns
    BY <2>1, Plain
  <2>5. /\ saves' \subseteq Save /\ settled' \subseteq Turns /\ excused' \subseteq Turns
        /\ \A z \in saves' \ saves : z.kind # "answer"
    BY <2>2, <2>3, Plain
  <2>6. Waiting'
    <3>1. \A z \in saves : z.call # c
      BY <1>4 DEF Begin, IInv, Waiting
    <3>2. CASE saves' = saves
      BY <2>1, <3>1, <3>2, Plain DEF IInv, Waiting
    <3>3. CASE mark /\ saves' = saves \cup {s}
      <4>1. call'[c].at = "marking"
        BY <2>1, <3>3, Plain DEF n, mark
      <4>2. s.call = c /\ s.kind # "answer"
        BY <2>2, <3>3 DEF s, Marker
      <4>3. \A d \in Calls : d # c => call'[d] = call[d]
        BY <2>1, Plain
      <4> QED BY <3>1, <3>3, <4>1, <4>2, <4>3 DEF IInv, Waiting
    <3> QED BY <2>3, <3>2, <3>3
  <2> QED BY <1>1, <1>2, <1>3, <2>3, <2>4, <2>5, <2>6, Plain, StreamsKeep
<1>5. CASE CancelAsk(c) \/ Stop
  <2>1. /\ call' \in [Calls -> CallRecord]
        /\ \A d \in Calls : call'[d].at # "idle" => call'[d].turn \in Turns
    <3>1. CASE Stop
      BY <3>1, Plain DEF Stop
    <3>2. CASE CancelAsk(c)
      <4> DEFINE n == [call[c] EXCEPT !.at = IF call[c].new THEN "user" ELSE "start"]
      <4>1. n \in CallRecord /\ n.turn \in Turns /\ call' = [call EXCEPT ![c] = n]
        BY <3>2, Plain DEF CancelAsk, CallRecord
      <4> HIDE DEF n
      <4> QED BY <4>1, Plain
    <3> QED BY <1>5, <3>1, <3>2
  <2>2. UNCHANGED <<rows, settled, saves, excused>>
    BY <1>5 DEF CancelAsk, Stop
  <2>3. saves' \ saves = {} /\ saves' \subseteq Save /\ settled' \subseteq Turns /\ excused' \subseteq Turns
    BY <2>2, Plain
  <2>4. Waiting'
    BY <1>5, <2>2, Plain DEF CancelAsk, Stop, IInv, Waiting
  <2> QED BY <1>1, <1>2, <1>3, <2>1, <2>2, <2>3, <2>4, Plain, StreamsKeep
<1>6. CASE SaveUser(c)
  <2> DEFINE z == NewRow("user", call[c].turn, NoText, NoRun)
             n == [call[c] EXCEPT !.at = "start"]
  <2>0. call[c].turn \in Turns
    BY <1>6, Plain DEF SaveUser
  <2>1. z \in Row /\ z.kind # "answer"
    BY <2>0, Plain DEF NewRow, Row, RowKinds
  <2>2. n \in CallRecord /\ n.turn \in Turns
    BY <2>0, Plain DEF CallRecord
  <2>3. /\ rows' = rows \/ rows' = Append(rows, z)
        /\ call' = [call EXCEPT ![c] = n] \/ call' = [call EXCEPT ![c] = NoCallRecord]
        /\ UNCHANGED <<settled, saves, excused>>
    BY <1>6 DEF SaveUser
  <2> HIDE DEF n, z
  <2>4. /\ call' \in [Calls -> CallRecord]
        /\ \A d \in Calls : call'[d].at # "idle" => call'[d].turn \in Turns
    <3>1. NoCallRecord.at = "idle"
      BY DEF NoCallRecord
    <3> QED BY <2>2, <2>3, <3>1, Plain
  <2>5. saves' \ saves = {} /\ saves' \subseteq Save /\ settled' \subseteq Turns /\ excused' \subseteq Turns
    BY <2>3, Plain
  <2>6. Waiting'
    BY <1>6, <2>3, Plain DEF SaveUser, IInv, Waiting
  <2> QED BY <1>2, <1>3, <2>1, <2>3, <2>4, <2>5, <2>6, Plain, StreamsKeep
<1> QED BY <1>4, <1>5, <1>6

\* A save that lands, fails or is answered keeps the invariant.
LEMMA SavingKeeps ==
    ASSUME IInv, NEW s \in saves, Land(s) \/ Respond(s) \/ AnswerFails(s) \/ MarkerFails(s)
    PROVE  IInv'
<1>0. s \in Save /\ s.turn \in Turns /\ s.call \in Calls \cup {NoCall} /\ s.kind \in RowKinds
      /\ s.text \in Text /\ s.cites \in Runs \cup {NoRun}
      /\ (s.kind = "answer" => s.run = s.text.run /\ IsWhole(s.turn, s.text, s.cites))
  BY Plain DEF Save, IInv, Whole
<1> DEFINE z == NewRow(s.kind, s.turn, s.text, s.cites)
           l == [s EXCEPT !.landed = TRUE]
           e == Marker("errored", s.turn, store.text, NoCall)
<1>1. z \in Row /\ (z.kind = "answer" => IsWhole(z.turn, z.text, z.cites))
  BY <1>0 DEF NewRow, Row
<1>2. l \in Save /\ l.kind = s.kind /\ l.run = s.run /\ l.text = s.text /\ l.turn = s.turn
      /\ l.cites = s.cites
  BY <1>0 DEF Save
<1>3. e \in Save /\ e.kind # "answer"
  <2>1. "errored" \in RowKinds \ {"user"} /\ "errored" # "answer" /\ NoCall \in Calls \cup {NoCall}
    BY DEF RowKinds
  <2> QED BY <1>0, <2>1, Plain, MarkerSave
<1>4. /\ rows' = rows \/ rows' = Append(rows, z)
      /\ saves' \subseteq saves \cup {l, e} /\ settled' \subseteq settled \cup {s.turn}
      /\ excused' \subseteq excused \cup {s.turn} /\ call' \in {call, Continue(s)}
      /\ UNCHANGED <<flightVars, run>>
  BY DEF Land, Respond, AnswerFails, MarkerFails
<1> HIDE DEF z, l, e
<1>5. store' \in {store, [store EXCEPT !.streaming = FALSE]}
  BY DEF Land, Respond, AnswerFails, MarkerFails
<1>6. store' \in Store0 /\ store' = [store EXCEPT !.streaming = store'.streaming]
  BY <1>5, Plain DEF Store0
<1>7. /\ call' \in [Calls -> CallRecord]
      /\ \A d \in Calls : call'[d].at # "idle" => call'[d].turn \in Turns
  <2>1. CASE call' = call
    BY <2>1, Plain
  <2>2. CASE s.call \in Calls /\ call' = [call EXCEPT ![s.call].at = "cancel"]
    <3> DEFINE n == [call[s.call] EXCEPT !.at = "cancel"]
    <3>1. n \in CallRecord /\ n.turn = call[s.call].turn /\ call' = [call EXCEPT ![s.call] = n]
      BY <2>2, Plain DEF CallRecord
    <3>2. n.turn \in Turns
      <4>1. call[s.call].at = "marking"
        BY <2>2 DEF IInv, Waiting
      <4> QED BY <2>2, <3>1, <4>1, Plain
    <3> HIDE DEF n
    <3> QED BY <2>2, <3>1, <3>2, Plain
  <2> QED BY <1>0, <1>4, <2>1, <2>2 DEF Continue
<1>8. /\ saves' \subseteq Save /\ settled' \subseteq Turns /\ excused' \subseteq Turns
      /\ slot' \in Runs \cup {NoRun} /\ cancelled' \subseteq Runs
      /\ \A y \in saves' \ saves :
              y.kind = "answer" => y.run = y.text.run /\ IsWhole(y.turn, y.text, y.cites)
  BY <1>0, <1>2, <1>3, <1>4, Plain DEF flightVars
<1>9. Waiting'
  <2>1. CASE Land(s)
    <3>1. l.call = s.call
      BY <1>0 DEF l, Save
    <3>2. saves' = (saves \ {s}) \cup {l} /\ call' = call
      BY <2>1 DEF Land, l
    <3> QED BY <1>2, <3>1, <3>2 DEF IInv, Waiting
  <2>2. CASE AnswerFails(s)
    <3>1. e.call = NoCall
      BY DEF e, Marker
    <3>2. saves' = (saves \ {s}) \cup {e} /\ call' = call
      BY <2>2 DEF AnswerFails, e
    <3> QED BY <3>1, <3>2, ChatAssumption DEF IInv, Waiting
  <2>3. CASE Respond(s) \/ MarkerFails(s)
    <3>1. saves' = saves \ {s} /\ call' = Continue(s)
      BY <2>3 DEF Respond, MarkerFails
    <3>2. \A y \in saves' : y.call \in Calls => y.call # s.call
      BY <3>1 DEF IInv, Waiting
    <3>3. \A y \in saves' : y.call \in Calls => call'[y.call] = call[y.call]
      BY <1>0, <3>1, <3>2, Plain DEF Continue
    <3> QED BY <3>1, <3>3 DEF IInv, Waiting
  <2> QED BY <2>1, <2>2, <2>3
<1> QED BY <1>1, <1>4, <1>6, <1>7, <1>8, <1>9, StreamsKeep

\* runStream: a run begins with an empty buffer, after all others.
LEMMA RunStreamKeeps ==
    ASSUME IInv, NEW c \in Calls, RunStream(c)
    PROVE  IInv'
<1>a. PICK r \in Runs : r = store.gen + 1
  BY DEF RunStream
<1>b. PICK t \in Turns : t = call[c].turn
  BY Plain DEF RunStream
<1> DEFINE n == [NoRunRecord EXCEPT !.turn = t, !.at = "invoked"]
<1>0. /\ r \in Runs /\ t \in Turns /\ call[c].at = "start" /\ r \in Nat /\ store.gen \in Nat
      /\ NoRun \in Runs \cup {NoRun} /\ r # NoRun /\ r >= store.gen
  <2>1. store.gen \in Runs \cup {NoRun}
    BY Plain DEF Store0
  <2> QED BY <1>a, <1>b, <2>1, Plain, Numbers DEF RunStream
<1>1. run[r] = NoRunRecord /\ run[r].at = "none"
  <2>1. ~(r <= store.gen)
    BY <1>0, <1>a
  <2> QED BY <1>0, <2>1 DEF IInv, Begun
<1>2. /\ n \in RunRecord /\ n.turn = t /\ n.at = "invoked" /\ n.sent = 0 /\ n.queue = <<>>
      /\ n.pending = 0
  <2>1. <<>> \in Seq(Events) /\ 0 \in 0 .. MaxDeltas /\ "invoked" \in Backend
    BY ChatAssumption, Backends
  <2> QED BY <1>0, <2>1 DEF NoRunRecord, RunRecord
<1>3. /\ run' = [run EXCEPT ![r] = n]
      /\ store' = [streaming |-> TRUE, turn |-> t, text |-> NoText, cites |-> NoRun, gen |-> r]
      /\ call' = [call EXCEPT ![c] = NoCallRecord] /\ settled' = settled \ {t}
      /\ UNCHANGED <<flightVars, rows, saves, excused>>
  BY <1>a, <1>b DEF RunStream
<1> HIDE DEF n
<1>4. run' \in [Runs -> RunRecord] /\ run'[r] = n /\ \A q \in Runs \ {r} : run'[q] = run[q]
  BY <1>0, <1>2, <1>3, Put, Plain
<1>5. store' \in Store0 /\ store'.gen = r /\ store'.text = NoText
  BY <1>0, <1>3, Plain DEF Store0
<1>6. Typed'
  BY <1>3, <1>4, <1>5, Plain DEF Typed, flightVars
<1>7. NoText.run = NoRun /\ NoText.n = 0 /\ NoCallRecord.at = "idle"
  BY DEF NoText, NoCallRecord
<1>8. Begun'
  <2>1. \A d \in Calls : call'[d].at # "idle" => call'[d].turn \in Turns
    BY <1>3, <1>7, Plain
  <2>2. \A q \in Runs : run'[q].at # "none" => run'[q].turn \in Turns /\ q <= store'.gen
    <3> TAKE q \in Runs
    <3>1. CASE q = r
      BY <1>0, <1>2, <1>4, <1>5, <3>1
    <3>2. CASE q # r
      <4>1. q \in Nat /\ (run[q].at # "none" => run[q].turn \in Turns /\ q <= store.gen)
        BY Numbers DEF IInv, Begun
      <4> QED BY <1>0, <1>4, <1>5, <3>2, <4>1
    <3> QED BY <3>1, <3>2
  <2>3. \A q \in Runs : run'[q].at = "none" => run'[q] = NoRunRecord
    BY <1>2, <1>4 DEF IInv, Begun
  <2>4. \A q \in Runs : run'[q].at \in {"invoked", "ctx", "query", "search"} => run'[q].sent = 0
    BY <1>2, <1>4 DEF IInv, Begun
  <2>5. store'.text.run \in {NoRun, store'.gen} /\ (store'.text.run = NoRun => store'.text.n = 0)
    BY <1>5, <1>7
  <2> QED BY <2>1, <2>2, <2>3, <2>4, <2>5 DEF Begun
<1>9. Ordered'
  <2>1. 0 \in 0 .. Len(run'[r].queue) /\ Queued(r, 0)'
    <3>1. Shown(r)' = 0
      BY <1>0, <1>5, <1>7 DEF Shown
    <3>2. run'[r].queue = <<>> /\ run'[r].pending = 0 /\ run'[r].sent = 0 /\ run'[r].at = "invoked"
      BY <1>2, <1>4
    <3>3. Len(run'[r].queue) = 0 /\ 0 \in 0 .. 0 /\ (\A i \in 1 .. 0 : FALSE)
          /\ 0 + 0 <= 0 /\ 0 + 0 + 0 = 0 /\ 0 + 0 + 0 <= 0
      BY <3>2
    <3>4. /\ \A i \in 1 .. Len(run'[r].queue) : FALSE
          /\ 0 + run'[r].pending <= run'[r].sent
          /\ 0 + run'[r].pending + Shown(r)' <= run'[r].sent
          /\ 0 + run'[r].pending + Shown(r)' = run'[r].sent
          /\ 0 = Len(run'[r].queue)
      BY <3>1, <3>2, <3>3
    <3>5. 0 \in 0 .. Len(run'[r].queue)
      BY <3>3
    <3> QED BY <3>4, <3>5 DEF Queued
  <2>2. \A q \in Runs \ {r} :
               store'.gen = q => /\ store.gen = q /\ Shown(q)' = Shown(q)
                                 /\ (store.cites = q => store'.cites = q)
    BY <1>5
  <2>3. \A q \in Runs \ {r} : run'[q] = run[q]
    BY <1>4
  <2> QED BY <2>1, <2>2, <2>3, OrderedBy DEF IInv
<1>10. Whole'
  <2>1. \A q \in Runs : run[q].at \in {"ended", "over"} =>
               /\ run'[q].at \in {"ended", "over"} /\ run'[q].sent = run[q].sent
               /\ run'[q].turn = run[q].turn
    BY <1>1, <1>4
  <2> QED BY <1>3, <2>1, StillWhole DEF IInv, Whole
<1>11. Waiting'
  BY <1>0, <1>3, Plain DEF IInv, Waiting
<1> QED BY <1>6, <1>8, <1>9, <1>10, <1>11 DEF IInv

\* The empty chat satisfies the invariant.
LEMMA InitIInv == Init => IInv
<1> SUFFICES ASSUME Init PROVE IInv
  OBVIOUS
<1>1. Typed
  <2>1. NoRunRecord \in RunRecord
    <3>1. <<>> \in Seq(Events) /\ 0 \in 0 .. MaxDeltas /\ "none" \in Backend
      BY ChatAssumption, Backends
    <3> QED BY <3>1 DEF NoRunRecord, RunRecord
  <2>2. NoCallRecord \in CallRecord /\ NoText \in Text
    BY ChatAssumption DEF NoCallRecord, CallRecord, NoText, Text
  <2> QED BY <2>1, <2>2 DEF Init, FlightInit, Typed, Store0
<1>2. Begun
  BY DEF Init, Begun, NoCallRecord, NoRunRecord, NoText
<1>3. Ordered
  <2> SUFFICES ASSUME NEW r \in Runs PROVE 0 \in 0 .. Len(run[r].queue) /\ Queued(r, 0)
    BY DEF Ordered
  <2>1. run[r].queue = <<>> /\ run[r].pending = 0 /\ run[r].sent = 0 /\ store.gen # r
    BY Numbers DEF Init, NoRunRecord
  <2> QED BY <2>1 DEF Queued
<1>4. Whole /\ Waiting
  BY DEF Init, Whole, Waiting
<1> QED BY <1>1, <1>2, <1>3, <1>4 DEF IInv

\* Every step keeps the invariant.
LEMMA StepIInv == IInv /\ [Next]_vars => IInv'
<1> SUFFICES ASSUME IInv, [Next]_vars PROVE IInv'
  OBVIOUS
<1>1. CASE UNCHANGED vars
  <2>1. UNCHANGED <<slot, cancelled, rows, store, settled, call, run, saves, excused>>
    BY <1>1 DEF vars, flightVars
  <2>2. Typed' /\ Begun'
    BY <2>1 DEF IInv, Typed, Begun
  <2>3. Whole' /\ Waiting'
    BY <2>1 DEF IInv, Whole, IsWhole, Waiting
  <2>4. Ordered'
    BY <2>1 DEF IInv, Ordered, Queued, Owing, Shown
  <2> QED BY <2>2, <2>3, <2>4 DEF IInv
<1>2. ASSUME NEW c \in Calls, NEW t \in Turns, Send(c, t) \/ Regenerate(c, t)
      PROVE  IInv'
  BY <1>2, CallsKeep DEF Send, Regenerate
<1>3. ASSUME NEW c \in Calls, Store(c) PROVE IInv'
  <2>1. CASE RunStream(c)
    BY <2>1, RunStreamKeeps
  <2>2. CASE CancelAsk(c)
    <3>1. call[c].turn \in Turns
      BY <2>2, Plain DEF CancelAsk
    <3> QED BY <2>2, <3>1, CallsKeep
  <2>3. CASE SaveUser(c)
    <3>1. call[c].turn \in Turns
      BY <2>3, Plain DEF SaveUser
    <3> QED BY <2>3, <3>1, CallsKeep
  <2> QED BY <1>3, <2>1, <2>2, <2>3 DEF Store
<1>4. CASE Stop
  <2>1. UNCHANGED <<rows, store, settled, call, run, saves, excused>>
        /\ slot' = slot /\ cancelled' \subseteq cancelled \cup {slot} /\ slot # NoRun
    BY <1>4 DEF Stop, CancelSlot
  <2>2. Typed'
    BY <2>1, Plain DEF Typed
  <2> QED BY <2>1, <2>2 DEF IInv, Begun, Ordered, Queued, Owing, Shown, Whole, IsWhole, Waiting
<1>5. ASSUME NEW r \in Runs, Command(r) \/ Callbacks(r) PROVE IInv'
  BY <1>5, CommandKeeps, Superseded, Deltas, Frames, Events1 DEF Callbacks
<1>6. ASSUME NEW x, Saving(x) PROVE IInv'
  BY <1>6, SavingKeeps DEF Saving
<1> QED BY <1>1, <1>2, <1>3, <1>4, <1>5, <1>6 DEF Next

\* The invariant that the theorems below are drawn from holds for ever.
THEOREM Inductive == Spec => []IInv
BY InitIInv, StepIInv, PTL DEF Spec

\* The store, the commands, the table and the saves keep their types.
THEOREM TypeCorrect == Spec => []TypeOK
<1>1. IInv => TypeOK
  <2> SUFFICES ASSUME IInv PROVE TypeOK
    OBVIOUS
  <2>1. Typed
    BY DEF IInv
  <2>2. \A r \in Runs : /\ run[r].turn \in Turns \cup {NoTurn} /\ run[r].at \in Backend
                         /\ run[r].sent \in 0 .. MaxDeltas /\ run[r].queue \in Seq(Events)
                         /\ run[r].pending \in 0 .. MaxDeltas /\ run[r].persisted \in BOOLEAN
    BY <2>1 DEF Typed, RunRecord
  <2> QED BY <2>1, <2>2 DEF Typed, TypeOK, FlightTypeOK, Store0, CallRecord
<1> QED BY <1>1, Inductive, PTL

\* "Bump so late callbacks from a superseded/cancelled stream no-op": for any number
\* of streams that overlap, an answer that is saved is all that one run of its turn
\* has sent, with that run's citations.
THEOREM Answers == Spec => []AnswerIsWhole
<1>1. IInv => AnswerIsWhole
  BY Numbers DEF IInv, Whole, IsWhole, AnswerIsWhole, Own
<1> QED BY <1>1, Inductive, PTL

-----------------------------------------------------------------------------
(* With one call of the store at a time.                                    *)

OneCall == \A c, d \in Calls : c = d

\* A turn that has its outcome, or whose outcome is being saved.
Outcome(t) == t \in excused \/ Answered(t) \/ \E s \in saves : s.turn = t

\* The turn of the stream that the store shows.
Shows(t) == store.gen \in Runs /\ run[store.gen].turn = t

\* A settled turn has its outcome.  A save is of a turn that was asked, and one
\* that has been answered has left its row.
Claimed ==
    /\ \A t \in settled : Outcome(t)
    /\ \A s \in saves : Saved(s.turn) /\ (s.landed => Answered(s.turn))

\* What the calls and the streams work on was asked, but for the turn of a new call
\* before its question is saved.
Asked ==
    /\ \A r \in Runs : run[r].at # "none" => Saved(run[r].turn)
    /\ store.streaming => store.turn \in Turns /\ Shows(store.turn)
    /\ \A c \in Calls : call[c].at # "idle" =>
         /\ call[c].at = "start" \/ ~call[c].new => Saved(call[c].turn)
         /\ call[c].at \in {"marking", "cancel"} /\ call[c].new => ~Saved(call[c].turn)
         /\ call[c].at = "user" => call[c].new /\ ~Saved(call[c].turn)

\* A stream that is closed has had its done.
HasDone(r) == run[r].persisted \/ \E i \in 1 .. Len(run[r].queue) : run[r].queue[i] = "done"
Closed ==
    store.gen \in Runs =>
        /\ run[store.gen].at = "ended" /\ store.gen \notin cancelled => HasDone(store.gen)
        /\ \A i \in 1 .. Len(run[store.gen].queue) :
               run[store.gen].queue[i] = "closed" => HasDone(store.gen)

\* The turn that is shown has its outcome once the stream is over, or a call is
\* about to displace it; every other turn has it, or is a call's.
Answering ==
    /\ ~store.streaming \/ (\E c \in Calls : call[c].at # "idle") =>
           \A t \in Turns : Shows(t) => Outcome(t)
    /\ \A t \in Turns : Saved(t) =>
           Outcome(t) \/ Shows(t) \/ \E c \in Calls : call[c].at # "idle" /\ call[c].turn = t

BareInv == Claimed /\ Asked /\ Closed /\ Answering

-----------------------------------------------------------------------------
(* Rows and outcomes stay.                                                  *)

\* A row that is added saves or answers its own turn and no other.
LEMMA RowAdded ==
    ASSUME Typed, NEW z \in Row, rows' = Append(rows, z), NEW t
    PROVE  /\ Saved(t)' <=> Saved(t) \/ z.turn = t
           /\ Answered(t)' <=> Answered(t) \/ (z.turn = t /\ z.kind # "user")
<1>1. rows \in Seq(Row) /\ Len(rows) \in Nat /\ Len(rows') = Len(rows) + 1
      /\ (\A i \in 1 .. Len(rows) : rows'[i] = rows[i]) /\ rows'[Len(rows) + 1] = z
  BY DEF Typed
<1>2. \A i : i \in 1 .. Len(rows') <=> i \in 1 .. Len(rows) \/ i = Len(rows) + 1
  BY <1>1
<1> QED BY <1>1, <1>2 DEF Saved, Answered

\* While the table is left alone, what is saved and answered stays.
LEMMA RowsSame ==
    ASSUME UNCHANGED rows, NEW t
    PROVE  Saved(t)' = Saved(t) /\ Answered(t)' = Answered(t)
BY DEF Saved, Answered

\* An outcome stays: a save in flight becomes a row or an excuse.
LEMMA OutcomeGrows ==
    ASSUME \A t : Answered(t) => Answered(t)', excused \subseteq excused',
           \A s \in saves : \/ \E z \in saves' : z.turn = s.turn
                            \/ s.turn \in excused' \/ Answered(s.turn)',
           NEW t, Outcome(t)
    PROVE  Outcome(t)'
BY DEF Outcome

\* The stream that the store shows has begun.
LEMMA ShownTurn ==
    ASSUME IInv, NEW t \in Turns, Shows(t)
    PROVE  store.gen \in Runs /\ run[store.gen].at # "none"
<1>1. store.gen \in Runs /\ run[store.gen].turn \in Turns
  BY DEF Shows
<1>2. run[store.gen] # NoRunRecord
  BY <1>1, Numbers DEF NoRunRecord
<1> QED BY <1>1, <1>2 DEF IInv, Begun

\* A step that asks nothing.
LEMMA BareKeeps ==
    ASSUME BareInv, store'.gen = store.gen,
           \A t : Outcome(t) => Outcome(t)', \A t : Saved(t)' <=> Saved(t),
           store'.streaming => store.streaming /\ store'.turn = store.turn,
           \A r \in Runs : /\ run'[r].turn = run[r].turn
                           /\ run'[r].at # "none" => run[r].at # "none",
           \A c \in Calls : \/ call'[c] = call[c]
                            \/ /\ call[c].at = "marking" /\ call'[c].at = "cancel"
                               /\ call'[c].turn = call[c].turn /\ call'[c].new = call[c].new,
           \A t \in settled' : t \in settled \/ Outcome(t)',
           \A s \in saves' : Saved(s.turn) /\ (s.landed => Answered(s.turn)'),
           store.streaming /\ ~store'.streaming => \A t \in Turns : Shows(t) => Outcome(t)',
           Closed'
    PROVE  BareInv'
<1>1. Claimed'
  BY DEF BareInv, Claimed
<1>2. \A t : Shows(t)' <=> Shows(t)
  BY DEF Shows
<1>3. Asked'
  <2>1. (\A r \in Runs : run[r].at # "none" => Saved(run[r].turn))'
    <3> SUFFICES ASSUME NEW r \in Runs, run'[r].at # "none", NEW u, u = run'[r].turn
                 PROVE  Saved(u)'
      BY DEF Saved
    <3> QED BY DEF BareInv, Asked
  <2>2. (store.streaming => store.turn \in Turns /\ Shows(store.turn))'
    <3> SUFFICES ASSUME store'.streaming PROVE store'.turn \in Turns /\ Shows(store.turn)'
      OBVIOUS
    <3>1. store.turn \in Turns /\ Shows(store.turn) /\ store'.turn = store.turn
      BY DEF BareInv, Asked
    <3> QED BY <3>1 DEF Shows
  <2>3. (\A c \in Calls : call[c].at # "idle" =>
           /\ call[c].at = "start" \/ ~call[c].new => Saved(call[c].turn)
           /\ call[c].at \in {"marking", "cancel"} /\ call[c].new => ~Saved(call[c].turn)
           /\ call[c].at = "user" => call[c].new /\ ~Saved(call[c].turn))'
    <3> SUFFICES ASSUME NEW c \in Calls, call'[c].at # "idle", NEW u, u = call'[c].turn
                 PROVE  /\ call'[c].at = "start" \/ ~call'[c].new => Saved(u)'
                        /\ call'[c].at \in {"marking", "cancel"} /\ call'[c].new => ~Saved(u)'
                        /\ call'[c].at = "user" => call'[c].new /\ ~Saved(u)'
      BY DEF Saved
    <3>1. /\ call[c].at # "idle" /\ call[c].turn = u /\ call'[c].new = call[c].new
          /\ \/ call'[c].at = call[c].at
             \/ (call[c].at = "marking" /\ call'[c].at = "cancel")
      OBVIOUS
    <3>2. /\ call[c].at = "start" \/ ~call[c].new => Saved(u)
          /\ call[c].at \in {"marking", "cancel"} /\ call[c].new => ~Saved(u)
          /\ call[c].at = "user" => call[c].new /\ ~Saved(u)
      BY <3>1 DEF BareInv, Asked
    <3>3. Saved(u)' <=> Saved(u)
      OBVIOUS
    <3> HIDE DEF Saved
    <3> QED BY <3>1, <3>2, <3>3
  <2> QED BY <2>1, <2>2, <2>3 DEF Asked
<1>4. \A c \in Calls : (call'[c].at # "idle" <=> call[c].at # "idle") /\ call'[c].turn = call[c].turn
  OBVIOUS
<1>5. Answering'
  BY <1>2, <1>4 DEF BareInv, Answering
<1> QED BY <1>1, <1>3, <1>5 DEF BareInv

-----------------------------------------------------------------------------
(* A stream is closed after its done.                                       *)

\* A step beside the shown stream, which cancels no fewer, leaves it as closed as
\* it was.
LEMMA ClosedElsewhere ==
    ASSUME Closed, store'.gen = store.gen, cancelled \subseteq cancelled',
           store.gen \in Runs => run'[store.gen] = run[store.gen]
    PROVE  Closed'
BY DEF Closed, HasDone

\* The stream that is shown gets new events.
LEMMA ClosedSends ==
    ASSUME Typed, Closed, NEW r \in Runs, store.gen = r, store'.gen = r,
           cancelled \subseteq cancelled', NEW w \in Seq(Events),
           run'[r].queue = run[r].queue \o w, run'[r].persisted = run[r].persisted,
           run'[r].at = "ended" => r \in cancelled' \/ (\E j \in 1 .. Len(w) : w[j] = "done"),
           \A j \in 1 .. Len(w) : w[j] = "closed" => HasDone(r)
    PROVE  Closed'
<1> DEFINE q == run[r].queue
           v == q \o w
<1>1. /\ q \in Seq(Events) /\ Len(q) \in Nat /\ Len(w) \in Nat /\ Len(v) = Len(q) + Len(w)
      /\ (\A i \in 1 .. Len(q) : v[i] = q[i])
      /\ (\A i \in 1 .. Len(w) : v[Len(q) + i] = w[i])
  BY RunFields, Appended
<1>2. run'[r].queue = v /\ run[r].queue = q
  OBVIOUS
<1> HIDE DEF q, v
<1>3. \A i \in 1 .. Len(q) : i \in 1 .. Len(v)
  BY <1>1
<1>4. \A j \in 1 .. Len(w) : Len(q) + j \in 1 .. Len(v)
  BY <1>1
<1>5. \A i \in 1 .. Len(v) : i \in 1 .. Len(q) \/ \E j \in 1 .. Len(w) : i = Len(q) + j
  <2> TAKE i \in 1 .. Len(v)
  <2>1. i \in Nat /\ (i <= Len(q) \/ i > Len(q))
    BY <1>1
  <2>2. CASE i > Len(q)
    <3>1. i - Len(q) \in 1 .. Len(w) /\ i = Len(q) + (i - Len(q))
      BY <1>1, <2>1, <2>2
    <3> QED BY <3>1
  <2> QED BY <1>1, <2>1, <2>2
<1>6. HasDone(r) => HasDone(r)'
  BY <1>1, <1>2, <1>3 DEF HasDone
<1>7. (\E j \in 1 .. Len(w) : w[j] = "done") => HasDone(r)'
  <2> SUFFICES ASSUME NEW j \in 1 .. Len(w), w[j] = "done" PROVE HasDone(r)'
    OBVIOUS
  <2>1. Len(q) + j \in 1 .. Len(v) /\ v[Len(q) + j] = "done"
    BY <1>1, <1>4
  <2> QED BY <1>2, <2>1 DEF HasDone
<1>8. \A i \in 1 .. Len(v) : v[i] = "closed" => HasDone(r)'
  <2> SUFFICES ASSUME NEW i \in 1 .. Len(v), v[i] = "closed" PROVE HasDone(r)
    BY <1>6
  <2>1. CASE i \in 1 .. Len(q)
    BY <1>1, <1>2, <2>1 DEF Closed
  <2>2. CASE \E j \in 1 .. Len(w) : i = Len(q) + j
    BY <1>1, <2>2
  <2> QED BY <1>5, <2>1, <2>2
<1>9. run'[r].at = "ended" /\ r \notin cancelled' => HasDone(r)'
  BY <1>7
<1> QED BY <1>2, <1>8, <1>9 DEF Closed, HasDone

\* ask_notebook: a command ends its stream in a frame that closes the turn.
LEMMA ClosedCommand ==
    ASSUME IInv, Closed, NEW r \in Runs, Command(r)
    PROVE  Closed'
<1>0. Typed /\ store' = store /\ cancelled \subseteq cancelled'
      /\ \A q \in Runs \ {r} : run'[q] = run[q]
  BY DEF IInv, Typed, Command, Ask, Gather, StageFails, CheckCancel, Advance, EmptySearch, Delta,
         StreamEnds, Finish, Close, RunOnly, Goto, Emit, Register, Release, flightVars
<1>1. CASE store.gen # r
  BY <1>0, <1>1, ClosedElsewhere
<1>2. CASE store.gen = r
  <2> DEFINE q == run[r].queue
  <2>0. q \in Seq(Events) /\ run[r] \in RunRecord
    BY <1>0, RunFields
  <2>1. CASE Ask(r) \/ Gather(r) \/ CheckCancel(r) \/ Advance(r) \/ StreamEnds(r)
    <3>1. \E at : Goto(r, at) /\ (at = "ended" => r \in cancelled')
      <4>1. CASE Advance(r)
        <5>1. \A i \in 1 .. Len(Stages) : Stages[i] # "ended"
          BY DEF Stages
        <5>2. Len(Stages) = 3
          BY DEF Stages
        <5> QED BY <4>1, <5>1, <5>2 DEF Advance
      <4>2. CASE Gather(r)
        <5>1. Stages[1] # "ended"
          BY DEF Stages
        <5> QED BY <4>2, <5>1 DEF Gather
      <4>3. CASE Ask(r) \/ CheckCancel(r) \/ StreamEnds(r)
        BY <4>3, <1>0 DEF Ask, CheckCancel, StreamEnds
      <4> QED BY <2>1, <4>1, <4>2, <4>3
    <3>2. PICK at : Goto(r, at) /\ (at = "ended" => r \in cancelled')
      BY <3>1
    <3>3. run'[r].queue = q /\ run'[r].persisted = run[r].persisted /\ run'[r].at = at
      BY <1>0, <2>0, <3>2 DEF Goto, Typed, RunRecord
    <3> QED BY <1>0, <1>2, <3>2, <3>3 DEF Closed, HasDone
  <2>2. CASE \E e \in {"failed", "gap", "cancelled", "closed"} :
                 Emit(r, "over", <<e>>) /\ (e = "closed" => run[r].at = "ended" /\ r \notin cancelled)
    <3>1. PICK e \in {"failed", "gap", "cancelled", "closed"} :
                 Emit(r, "over", <<e>>) /\ (e = "closed" => run[r].at = "ended" /\ r \notin cancelled)
      BY <2>2
    <3> DEFINE w == <<e>>
    <3>2. w \in Seq(Events) /\ Len(w) = 1 /\ w[1] = e
      <4>1. e \in Events
        BY DEF Events
      <4> QED BY <4>1
    <3>3. run'[r].queue = q \o w /\ run'[r].persisted = run[r].persisted /\ run'[r].at = "over"
      BY <1>0, <2>0, <3>1 DEF Emit, Typed, RunRecord
    <3>4. \A j \in 1 .. Len(w) : w[j] = "closed" => HasDone(r)
      BY <1>2, <3>1, <3>2 DEF Closed
    <3> HIDE DEF w
    <3> QED BY <1>0, <1>2, <3>2, <3>3, <3>4, ClosedSends
  <2>3. CASE Delta(r)
    <3>1. /\ run'[r].queue = Append(q, "delta") /\ run'[r].persisted = run[r].persisted
          /\ run'[r].at = "relay"
      BY <1>0, <2>0, <2>3 DEF Delta, Typed, RunRecord
    <3> DEFINE w == <<"delta">>
    <3>2. w \in Seq(Events) /\ Len(w) = 1 /\ w[1] = "delta" /\ Append(q, "delta") = q \o w
      <4>1. "delta" \in Events
        BY DEF Events
      <4> QED BY <2>0, <4>1
    <3>3. \A j \in 1 .. Len(w) : w[j] = "closed" => HasDone(r)
      BY <3>2
    <3> HIDE DEF w
    <3> QED BY <1>0, <1>2, <3>1, <3>2, <3>3, ClosedSends
  <2>4. CASE \E w \in {<<"cites", "done">>, <<"delta", "cites", "done">>} :
                 /\ run'[r].queue = q \o w /\ run'[r].persisted = run[r].persisted
    <3>1. PICK w \in {<<"cites", "done">>, <<"delta", "cites", "done">>} :
                 /\ run'[r].queue = q \o w /\ run'[r].persisted = run[r].persisted
      BY <2>4
    <3>2. /\ w \in Seq(Events) /\ Len(w) \in 1 .. Len(w) /\ w[Len(w)] = "done"
          /\ \A j \in 1 .. Len(w) : w[j] # "closed"
      <4>1. {"delta", "cites", "done"} \subseteq Events
        BY DEF Events
      <4>2. CASE w = <<"cites", "done">>
        BY <4>1, <4>2
      <4>3. CASE w = <<"delta", "cites", "done">>
        BY <4>1, <4>3
      <4> QED BY <4>2, <4>3
    <3> QED BY <1>0, <1>2, <3>1, <3>2, ClosedSends
  <2>5. Finish(r) => \E w \in {<<"cites", "done">>, <<"delta", "cites", "done">>} :
                 /\ run'[r].queue = q \o w /\ run'[r].persisted = run[r].persisted
    <3> DEFINE sent == run' = [run EXCEPT ![r].at = "ended", ![r].queue = @ \o <<"cites", "done">>]
    <3>1. sent => run'[r].queue = q \o <<"cites", "done">> /\ run'[r].persisted = run[r].persisted
      BY <1>0, <2>0 DEF Typed, RunRecord
    <3>2. Finish(r) => sent
      BY DEF Finish, Emit
    <3> HIDE DEF sent
    <3> QED BY <3>1, <3>2
  <2>6. EmptySearch(r) =>
             \/ \E w \in {<<"cites", "done">>, <<"delta", "cites", "done">>} :
                 /\ run'[r].queue = q \o w /\ run'[r].persisted = run[r].persisted
             \/ Emit(r, "over", <<"gap">>)
    <3> DEFINE found == run' = [run EXCEPT ![r].at = "ended", ![r].sent = 1,
                                          ![r].queue = @ \o <<"delta", "cites", "done">>]
    <3>1. found => run'[r].queue = q \o <<"delta", "cites", "done">>
                   /\ run'[r].persisted = run[r].persisted
      BY <1>0, <2>0 DEF Typed, RunRecord
    <3>2. EmptySearch(r) => found \/ Emit(r, "over", <<"gap">>)
      BY DEF EmptySearch
    <3> HIDE DEF found
    <3> QED BY <3>1, <3>2
  <2>7. Close(r) \/ StageFails(r) =>
            \E e \in {"failed", "gap", "cancelled", "closed"} :
                 Emit(r, "over", <<e>>) /\ (e = "closed" => run[r].at = "ended" /\ r \notin cancelled)
    BY DEF Close, StageFails
  <2> QED BY <2>1, <2>2, <2>3, <2>4, <2>5, <2>6, <2>7 DEF Command
<1> QED BY <1>1, <1>2

-----------------------------------------------------------------------------
(* The outcome of every turn, step by step.                                 *)

\* A command of the backend keeps the invariant of the bare questions.
LEMMA BareCommand ==
    ASSUME IInv, BareInv, NEW r \in Runs, Command(r)
    PROVE  BareInv'
<1>1. UNCHANGED <<rows, store, call, settled, saves, excused>> /\ Closed /\ Claimed
  BY DEF BareInv, Command, Ask, Gather, StageFails, CheckCancel, Advance, EmptySearch, Delta,
         StreamEnds, Finish, Close, RunOnly
<1>2. \A q \in Runs : run'[q].turn = run[q].turn /\ (q # r => run'[q] = run[q])
  <2>1. run[r] \in RunRecord /\ run \in [Runs -> RunRecord]
    BY RunFields DEF IInv, Typed
  <2>2. CASE Ask(r) \/ Gather(r) \/ CheckCancel(r) \/ Advance(r) \/ StreamEnds(r)
    <3>1. \E stage : run' = [run EXCEPT ![r].at = stage]
      BY <2>2 DEF Ask, Gather, CheckCancel, Advance, StreamEnds, Goto
    <3> QED BY <2>1, <3>1 DEF RunRecord
  <2>3. CASE \E stage, events : Emit(r, stage, events)
    BY <2>1, <2>3 DEF Emit, RunRecord
  <2>4. CASE Delta(r)
    BY <2>1, <2>4 DEF Delta, RunRecord
  <2>5. CASE EmptySearch(r) /\ ~\E stage, events : Emit(r, stage, events)
    <3>1. run' = [run EXCEPT ![r].at = "ended", ![r].sent = 1,
                             ![r].queue = @ \o <<"delta", "cites", "done">>]
      BY <2>5 DEF EmptySearch
    <3> QED BY <2>1, <3>1 DEF RunRecord
  <2>6. StageFails(r) \/ Finish(r) \/ Close(r) => \E stage, events : Emit(r, stage, events)
    BY DEF StageFails, Finish, Close
  <2> QED BY <2>2, <2>3, <2>4, <2>5, <2>6 DEF Command
<1>3. run[r].at # "none"
  <2>1. \A i \in 1 .. Len(Stages) : Stages[i] # "none"
    BY DEF Stages
  <2>2. Len(Stages) = 3
    BY DEF Stages
  <2> QED BY <2>1, <2>2 DEF Command, Ask, Gather, StageFails, CheckCancel, Advance, EmptySearch,
             Delta, StreamEnds, Finish, Close
<1>4. \A t : (Outcome(t) => Outcome(t)') /\ (Saved(t)' <=> Saved(t)) /\ (Answered(t)' <=> Answered(t))
  BY <1>1, RowsSame DEF Outcome
<1>5. \A s \in saves' : Saved(s.turn) /\ (s.landed => Answered(s.turn)')
  BY <1>1, <1>4 DEF Claimed
<1>6. Closed'
  BY <1>1, ClosedCommand
<1> QED BY <1>1, <1>2, <1>3, <1>4, <1>5, <1>6, BareKeeps

\* persistTerminalMarker settles its turn or finds it settled.
LEMMA Marked ==
    ASSUME NEW kind, NEW t, NEW x, Mark(kind, t, x)
    PROVE  /\ t \in settled \/ \E s \in saves' : s.turn = t
           /\ \A y \in settled' : y \in settled \/ \E s \in saves' : s.turn = y
<1>1. CASE t \in settled
  BY <1>1 DEF Mark
<1>2. CASE t \notin settled
  <2>1. settled' = settled \cup {t} /\ saves' = saves \cup {Marker(kind, t, x, NoCall)}
    BY <1>2 DEF Mark
  <2>2. Marker(kind, t, x, NoCall).turn = t
    BY DEF Marker
  <2> QED BY <2>1, <2>2
<1> QED BY <1>1, <1>2

\* The callbacks of a stream keep the invariant of the bare questions.
LEMMA BareCallback ==
    ASSUME IInv, BareInv, NEW r \in Runs, Callbacks(r)
    PROVE  BareInv'
<1> DEFINE q == run[r].queue
<1>0. Typed /\ Closed /\ Claimed /\ UNCHANGED <<flightVars, rows, call>> /\ store'.gen = store.gen
      /\ cancelled' = cancelled /\ store \in Store0
  BY Plain DEF BareInv, Callbacks, Ignore, OnDelta, Frame, OnCitations, OnDone, OnStreamDone, OnFailed,
           flightVars, Store0
<1>a. run[r].at # "none" /\ run[r].turn \in Turns /\ Saved(run[r].turn)
  <2>1. run[r] # NoRunRecord
    BY DEF Callbacks, Ignore, OnDelta, Frame, OnCitations, OnDone, OnStreamDone, OnFailed,
           Head1, NoRunRecord
  <2> QED BY <2>1 DEF IInv, Begun, BareInv, Asked
<1>1. PICK u \in Turns : u = run[r].turn /\ Saved(u) /\ run[r].at # "none"
  BY <1>a
<1>2. \A p \in Runs : run'[p].turn = run[p].turn /\ (p # r => run'[p] = run[p])
      /\ run'[p].at = run[p].at
  <2>1. run[r] \in RunRecord /\ run \in [Runs -> RunRecord]
    BY RunFields DEF IInv, Typed
  <2> QED BY <2>1 DEF Callbacks, Ignore, OnDelta, Frame, OnCitations, OnDone, OnStreamDone, OnFailed,
           Pop, RunRecord
<1>3. \A t : (Saved(t)' <=> Saved(t)) /\ (Answered(t)' <=> Answered(t))
  BY <1>0, RowsSame
<1>4. saves \subseteq saves' /\ excused \subseteq excused'
  BY DEF Callbacks, Ignore, OnDelta, Frame, OnCitations, OnDone, OnStreamDone, OnFailed, Mark
<1>5. \A t : Outcome(t) => Outcome(t)'
  BY <1>3, <1>4 DEF Outcome
<1>6. \A s \in saves' \ saves : s.turn = u /\ ~s.landed
  BY <1>1 DEF Callbacks, Ignore, OnDelta, Frame, OnCitations, OnDone, OnStreamDone, OnFailed, Mark, Marker
<1>7. \A s \in saves' : Saved(s.turn) /\ (s.landed => Answered(s.turn)')
  BY <1>0, <1>1, <1>3, <1>6 DEF Claimed
<1>8. \A t \in settled' : t \in settled \/ Outcome(t)'
  <2> SUFFICES ASSUME NEW t \in settled', t \notin settled PROVE \E s \in saves' : s.turn = t
    BY DEF Outcome
  <2>1. CASE OnDone(r)
    <3>1. t = u
      BY <1>1, <2>1 DEF OnDone
    <3> DEFINE s == [kind |-> "answer", turn |-> run[r].turn, run |-> r, text |-> Flushed(r),
                     cites |-> store.cites, call |-> NoCall, landed |-> FALSE]
    <3>2. s \in saves' /\ s.turn = u
      BY <1>1, <2>1 DEF OnDone
    <3> QED BY <3>1, <3>2
  <2>2. CASE OnFailed(r)
    BY <2>2, Marked DEF OnFailed
  <2> QED BY <2>1, <2>2 DEF Callbacks, Ignore, OnDelta, Frame, OnCitations, OnStreamDone
<1>9. Closed'
  <2>1. CASE store.gen # r
    BY <1>0, <1>2, <2>1, ClosedElsewhere
  <2>2. CASE store.gen = r
    <3>1. CASE Frame(r)
      <4>1. run'[r].queue = q /\ run'[r].persisted = run[r].persisted
        BY <3>1, RunFields, <1>0 DEF Frame, Typed, RunRecord
      <4> QED BY <1>0, <1>2, <2>2, <4>1 DEF Closed, HasDone
    <3>2. CASE ~Frame(r)
      <4>1. /\ q # <<>> /\ run'[r].queue = Tail(q) /\ (run[r].persisted => run'[r].persisted)
            /\ (Head(q) = "done" => run'[r].persisted)
        <5>1. run[r] \in RunRecord
          BY <1>0, RunFields
        <5>2. CASE OnDelta(r) \/ OnCitations(r) \/ OnStreamDone(r)
          BY <1>0, <5>1, <5>2 DEF OnDelta, OnCitations, OnStreamDone, Head1, Pop, Typed, RunRecord
        <5>3. CASE OnDone(r)
          BY <1>0, <5>1, <5>3 DEF OnDone, Head1, Typed, RunRecord
        <5>4. CASE OnFailed(r)
          <6>1. q # <<>> /\ Head(q) # "done"
            BY <5>4 DEF OnFailed, Head1
          <6> QED BY <1>0, <5>1, <5>4, <6>1 DEF OnFailed, Typed, RunRecord
        <5> QED BY <2>2, <3>2, <5>2, <5>3, <5>4 DEF Callbacks, Ignore, Current
      <4>2. /\ q \in Seq(Events) /\ Len(q) \in Nat /\ Len(q) > 0 /\ Len(Tail(q)) = Len(q) - 1
            /\ Head(q) = q[1] /\ \A i \in 1 .. Len(q) - 1 : Tail(q)[i] = q[i + 1]
        BY <1>0, <4>1, RunFields, Popped
      <4>3. HasDone(r) => HasDone(r)'
        <5> SUFFICES ASSUME ~run[r].persisted, NEW i \in 1 .. Len(q), q[i] = "done"
                     PROVE  HasDone(r)'
          BY <4>1 DEF HasDone
        <5>1. CASE i = 1
          BY <4>1, <4>2, <5>1 DEF HasDone
        <5>2. CASE i # 1
          <6>1. i - 1 \in 1 .. Len(Tail(q)) /\ Tail(q)[i - 1] = "done"
            BY <4>2, <5>2
          <6> QED BY <4>1, <6>1 DEF HasDone
        <5> QED BY <5>1, <5>2
      <4>4. \A i \in 1 .. Len(run'[r].queue) : run'[r].queue[i] = "closed" => HasDone(r)
        <5> TAKE i \in 1 .. Len(run'[r].queue)
        <5>1. i + 1 \in 1 .. Len(q) /\ run'[r].queue[i] = q[i + 1]
          BY <4>1, <4>2
        <5> QED BY <2>2, <5>1, <1>0 DEF Closed
      <4>5. run[r].at = "ended" /\ r \notin cancelled => HasDone(r)
        BY <1>0, <2>2 DEF Closed
      <4> QED BY <1>0, <1>2, <2>2, <4>3, <4>4, <4>5 DEF Closed
    <3> QED BY <3>1, <3>2
  <2> QED BY <2>1, <2>2
<1>10. store'.streaming => store.streaming /\ store'.turn = store.turn
  BY <1>0 DEF Callbacks, Ignore, OnDelta, Frame, OnCitations, OnDone, OnStreamDone, OnFailed, Store0
<1>11. store.streaming /\ ~store'.streaming => \A t \in Turns : Shows(t) => Outcome(t)'
  <2> SUFFICES ASSUME store.streaming, ~store'.streaming PROVE \A t \in Turns : Shows(t) => Outcome(t)'
    OBVIOUS
  <2>1. OnFailed(r) \/ (OnStreamDone(r) /\ ~run[r].persisted)
    BY <1>0 DEF Callbacks, Ignore, OnDelta, Frame, OnCitations, OnDone, OnStreamDone, OnFailed, Store0
  <2>2. store.gen = r
    BY <2>1 DEF OnFailed, OnStreamDone, Current
  <2>3. CASE OnFailed(r)
    <3>1. u \in excused' \/ u \in settled \/ \E s \in saves' : s.turn = u
      BY <1>1, <2>3, Marked DEF OnFailed
    <3>2. Outcome(u)'
      BY <1>0, <1>5, <3>1 DEF Outcome, Claimed
    <3> QED BY <1>1, <2>2, <3>2 DEF Shows
  <2>4. CASE OnStreamDone(r) /\ ~run[r].persisted
    <3>1. q \in Seq(Events) /\ q # <<>> /\ q[1] = "closed" /\ 1 \in 1 .. Len(q) /\ Len(q) \in Nat
      <4>1. q \in Seq(Events) /\ q # <<>> /\ Head(q) = "closed"
        BY <1>0, <2>4, RunFields DEF OnStreamDone, Head1
      <4> QED BY <4>1, Popped
    <3>2. PICK d \in 0 .. Len(q) : Queued(r, d)
      BY DEF IInv, Ordered
    <3>3. Len(q) = 1
      BY <3>1, <3>2 DEF Queued, Last
    <3>4. HasDone(r)
      BY <1>0, <2>2, <3>1 DEF Closed
    <3>5. \E i \in 1 .. 1 : q[i] = "done"
      BY <2>4, <3>3, <3>4 DEF HasDone
    <3> QED BY <3>1, <3>5
  <2> QED BY <2>1, <2>3, <2>4
<1>12. \A c \in Calls : call'[c] = call[c]
  BY <1>0
<1> QED BY <1>0, <1>1, <1>2, <1>3, <1>5, <1>7, <1>8, <1>9, <1>10, <1>11, <1>12, BareKeeps

\* Saves keep the invariant of the bare questions.
LEMMA BareSaving ==
    ASSUME IInv, BareInv, NEW s \in saves, Land(s) \/ Respond(s) \/ AnswerFails(s) \/ MarkerFails(s)
    PROVE  BareInv'
<1>0. /\ s \in Save /\ s.turn \in Turns /\ s.call \in Calls \cup {NoCall} /\ s.kind \in RowKinds \ {"user"}
      /\ s.landed \in BOOLEAN /\ s.text \in Text /\ s.cites \in Runs \cup {NoRun}
      /\ Typed /\ Closed /\ Claimed /\ Saved(s.turn) /\ (s.landed => Answered(s.turn))
  BY Plain DEF Save, BareInv, Claimed
<1> DEFINE z == NewRow(s.kind, s.turn, s.text, s.cites)
           l == [s EXCEPT !.landed = TRUE]
           e == Marker("errored", s.turn, store.text, NoCall)
<1>1. /\ z \in Row /\ z.turn = s.turn /\ z.kind # "user" /\ l.turn = s.turn
      /\ e.turn = s.turn /\ ~e.landed
  BY <1>0 DEF NewRow, Row, RowKinds, Marker, Save
<1>2. /\ Land(s) => rows' = Append(rows, z) /\ saves' = (saves \ {s}) \cup {l}
      /\ Respond(s) => saves' = saves \ {s} /\ s.landed
      /\ AnswerFails(s) => saves' = (saves \ {s}) \cup {e}
      /\ MarkerFails(s) => saves' = saves \ {s} /\ excused' = excused \cup {s.turn}
      /\ ~Land(s) => rows' = rows
      /\ ~MarkerFails(s) => excused' = excused
      /\ UNCHANGED <<flightVars, run>>
      /\ settled' \subseteq settled \cup {s.turn}
      /\ call' = call \/ call' = Continue(s)
  BY DEF Land, Respond, AnswerFails, MarkerFails
<1> HIDE DEF z, l, e
<1>3. \A t : (Saved(t)' <=> Saved(t)) /\ (Answered(t) => Answered(t)')
  BY <1>0, <1>1, <1>2, RowAdded, RowsSame
<1>4. Land(s) => Answered(s.turn)'
  BY <1>0, <1>1, <1>2, RowAdded
<1>5. Outcome(s.turn)'
  BY <1>0, <1>1, <1>2, <1>3, <1>4 DEF Outcome
<1>6. \A t : Outcome(t) => Outcome(t)'
  <2> SUFFICES ASSUME NEW t, Outcome(t), t # s.turn PROVE Outcome(t)'
    BY <1>5
  <2>1. \A y \in saves : y.turn = t => y \in saves'
    BY <1>2
  <2> QED BY <1>2, <1>3, <2>1 DEF Outcome
<1>7. \A y \in saves' : Saved(y.turn) /\ (y.landed => Answered(y.turn)')
  <2> SUFFICES ASSUME NEW y \in saves' PROVE Saved(y.turn) /\ (y.landed => Answered(y.turn)')
    OBVIOUS
  <2>1. y \in saves \/ (y = l /\ Land(s)) \/ y = e
    BY <1>2
  <2> QED BY <1>0, <1>1, <1>3, <1>4, <2>1 DEF Claimed
<1>8. \A c \in Calls : \/ call'[c] = call[c]
                       \/ /\ call[c].at = "marking" /\ call'[c].at = "cancel"
                          /\ call'[c].turn = call[c].turn /\ call'[c].new = call[c].new
  <2>1. CASE s.call \in Calls
    <3>1. call[s.call].at = "marking" /\ call[s.call] \in CallRecord /\ call \in [Calls -> CallRecord]
      BY <2>1, Plain DEF IInv, Waiting
    <3>2. call' = call \/ call' = [call EXCEPT ![s.call].at = "cancel"]
      BY <1>2, <2>1, ChatAssumption DEF Continue
    <3> QED BY <3>1, <3>2 DEF CallRecord
  <2>2. CASE s.call = NoCall
    BY <1>2, <2>2 DEF Continue
  <2> QED BY <1>0, <2>1, <2>2
<1>9. /\ store'.gen = store.gen /\ (store'.streaming => store.streaming /\ store'.turn = store.turn)
      /\ store.streaming /\ ~store'.streaming => s.kind = "answer" /\ Current(s.run)
  BY Plain DEF Land, Respond, AnswerFails, MarkerFails, Store0
<1>10. s.kind = "answer" /\ Current(s.run) => \A t \in Turns : Shows(t) => Outcome(t)'
  <2> SUFFICES ASSUME s.kind = "answer", Current(s.run), NEW t \in Turns, Shows(t)
               PROVE  Outcome(t)'
    OBVIOUS
  <2>1. run[s.run].turn = s.turn
    BY DEF IInv, Whole, IsWhole
  <2>2. t = s.turn
    BY <2>1 DEF Current, Shows
  <2> QED BY <1>5, <2>2
<1>11. Closed'
  BY <1>0, <1>2, <1>9, ClosedElsewhere DEF flightVars
<1>12. \A t \in settled' : t \in settled \/ Outcome(t)'
  BY <1>2, <1>5
<1>13. \A r \in Runs : /\ run'[r].turn = run[r].turn
                       /\ run'[r].at # "none" => run[r].at # "none"
  BY <1>2
<1>14. store.streaming /\ ~store'.streaming => \A t \in Turns : Shows(t) => Outcome(t)'
  BY <1>9, <1>10
<1> QED BY <1>3, <1>6, <1>7, <1>8, <1>9, <1>11, <1>12, <1>13, <1>14, BareKeeps

\* stop: the cancelled turn gets its marker.
LEMMA BareStop ==
    ASSUME IInv, BareInv, Stop
    PROVE  BareInv'
<1>1. UNCHANGED <<rows, store, settled, call, run, saves, excused>> /\ cancelled \subseteq cancelled'
  BY DEF Stop, CancelSlot
<1>2. \A t : (Outcome(t) => Outcome(t)') /\ (Saved(t)' <=> Saved(t)) /\ (Answered(t)' <=> Answered(t))
  BY <1>1, RowsSame DEF Outcome
<1>3. Closed'
  BY <1>1, ClosedElsewhere DEF BareInv
<1>4. \A s \in saves' : Saved(s.turn) /\ (s.landed => Answered(s.turn)')
  BY <1>1, <1>2 DEF BareInv, Claimed
<1> QED BY <1>1, <1>2, <1>3, <1>4, BareKeeps

\* What the call c works on, when no other call is under way.
Works(c) ==
    /\ call[c].at = "start" \/ ~call[c].new => Saved(call[c].turn)
    /\ call[c].at \in {"marking", "cancel"} /\ call[c].new => ~Saved(call[c].turn)
    /\ call[c].at = "user" => call[c].new /\ ~Saved(call[c].turn)

\* A step of the one call that is under way before or after it, and that leaves the
\* stream that is shown.
LEMMA BareCall ==
    ASSUME OneCall, BareInv, NEW c \in Calls, UNCHANGED <<store, run, excused>>,
           \A t : Outcome(t) => Outcome(t)', \A t : Saved(t) => Saved(t)', Claimed', Closed',
           \A t \in Turns : Shows(t) => Outcome(t)',
           call'[c].at # "idle" => Works(c)',
           \A t \in Turns : Saved(t)' => Saved(t) \/ (call'[c].at # "idle" /\ call'[c].turn = t),
           call[c].at # "idle" =>
               \/ call'[c].at # "idle" /\ call'[c].turn = call[c].turn
               \/ ~Saved(call[c].turn)
    PROVE  BareInv'
<1>1. \A d \in Calls : d = c
  BY DEF OneCall
<1>2. \A t : Shows(t)' <=> Shows(t)
  BY DEF Shows
<1>3. Asked'
  <2>1. (\A r \in Runs : run[r].at # "none" => Saved(run[r].turn))'
    <3> SUFFICES ASSUME NEW r \in Runs, run'[r].at # "none", NEW u, u = run'[r].turn
                 PROVE  Saved(u)'
      BY DEF Saved
    <3> QED BY DEF BareInv, Asked
  <2>2. (store.streaming => store.turn \in Turns /\ Shows(store.turn))'
    BY DEF BareInv, Asked, Shows
  <2>3. (\A d \in Calls : call[d].at # "idle" => Works(d))'
    BY <1>1
  <2> QED BY <2>1, <2>2, <2>3 DEF Asked, Works
<1>4. Answering'
  <2>1. \A t \in Turns : Shows(t)' => Outcome(t)'
    BY <1>2
  <2>2. \A t \in Turns : Saved(t)' =>
            Outcome(t)' \/ Shows(t)' \/ \E d \in Calls : call'[d].at # "idle" /\ call'[d].turn = t
    <3> SUFFICES ASSUME NEW t \in Turns, Saved(t)
                 PROVE  Outcome(t)' \/ Shows(t)' \/ \E d \in Calls : call'[d].at # "idle" /\ call'[d].turn = t
      OBVIOUS
    <3>1. Outcome(t) \/ Shows(t) \/ \E d \in Calls : call[d].at # "idle" /\ call[d].turn = t
      BY DEF BareInv, Answering
    <3>2. CASE \E d \in Calls : call[d].at # "idle" /\ call[d].turn = t
      BY <1>1, <3>2
    <3> QED BY <1>2, <3>1, <3>2
  <2> QED BY <2>1, <2>2 DEF Answering
<1> QED BY <1>3, <1>4 DEF BareInv

\* markSuperseded: the turn that is displaced gets its marker.
LEMMA BareBegin ==
    ASSUME OneCall, IInv, BareInv, NEW c \in Calls, NEW t \in Turns, Send(c, t) \/ Regenerate(c, t)
    PROVE  BareInv'
<1>1. PICK new \in BOOLEAN : Begin(c, t, new) /\ (new <=> ~Saved(t))
  <2>1. CASE Send(c, t)
    <3>1. ~(t < t)
      BY Numbers
    <3>2. ~Saved(t) /\ Begin(c, t, TRUE)
      BY <2>1, <3>1 DEF Send
    <3> QED BY <3>2
  <2>2. CASE Regenerate(c, t)
    BY <2>2 DEF Regenerate
  <2> QED BY <2>1, <2>2
<1> DEFINE mark == store.streaming /\ store.turn # NoTurn /\ store.turn \notin settled
           n == [at |-> CASE mark -> "marking"
                         [] store.streaming /\ ~mark -> "cancel"
                         [] ~store.streaming /\ new -> "user"
                         [] OTHER -> "start",
                 turn |-> t, new |-> new]
           s == Marker("cancelled", store.turn, store.text, c)
<1>2. /\ call'[c] = n /\ call[c].at = "idle"
      /\ n.at \in {"marking", "cancel", "user", "start"} /\ n.turn = t /\ n.new = new
      /\ (n.at = "user" => new) /\ (n.at = "start" => ~new)
      /\ UNCHANGED <<flightVars, rows, store, run, excused>>
  <2>1. call' = [call EXCEPT ![c] = n] /\ call[c].at = "idle"
        /\ UNCHANGED <<flightVars, rows, store, run, excused>>
    BY <1>1 DEF Begin
  <2>2. call'[c] = n
    BY <2>1, Plain
  <2> QED BY <2>1, <2>2
<1>3. /\ \/ saves' = saves /\ settled' = settled /\ ~mark
         \/ mark /\ saves' = saves \cup {s} /\ settled' = settled \cup {store.turn}
      /\ s.turn = store.turn /\ ~s.landed
  BY <1>1 DEF Begin, Marker
<1> HIDE DEF n, s
<1>4. \A u : (Saved(u)' <=> Saved(u)) /\ (Answered(u)' <=> Answered(u))
  BY <1>2, RowsSame
<1>5. \A u : Outcome(u) => Outcome(u)'
  BY <1>2, <1>3, <1>4 DEF Outcome
<1>6. store.streaming => store.turn \in Turns /\ Shows(store.turn) /\ store.turn # NoTurn
                         /\ Saved(store.turn)
  <2>1. store.streaming => store.turn \in Turns /\ Shows(store.turn)
    BY DEF BareInv, Asked
  <2>2. store.streaming => run[store.gen].at # "none" /\ store.gen \in Runs
    BY <2>1, ShownTurn
  <2> QED BY <2>1, <2>2, Numbers DEF BareInv, Asked, Shows
<1>7. \A u : mark /\ u = store.turn => Outcome(u)'
  BY <1>3 DEF Outcome
<1>8. Claimed'
  <2>1. \A u \in settled' : Outcome(u)'
    BY <1>3, <1>5, <1>7 DEF BareInv, Claimed
  <2>2. \A z \in saves' : Saved(z.turn)' /\ (z.landed => Answered(z.turn)')
    BY <1>3, <1>4, <1>6 DEF BareInv, Claimed
  <2> QED BY <2>1, <2>2 DEF Claimed
<1>9. Closed'
  BY <1>2, ClosedElsewhere DEF flightVars, BareInv
<1>10. \A u \in Turns : Shows(u) => Outcome(u)'
  <2> SUFFICES ASSUME NEW u \in Turns, Shows(u) PROVE Outcome(u)'
    OBVIOUS
  <2>1. CASE ~store.streaming
    BY <1>5, <2>1 DEF BareInv, Answering
  <2>2. CASE store.streaming
    <3>1. u = store.turn
      BY <1>6, <2>2 DEF Shows
    <3>2. mark \/ u \in settled
      BY <1>6, <2>2, <3>1
    <3> QED BY <1>5, <1>7, <3>1, <3>2 DEF BareInv, Claimed
  <2> QED BY <2>1, <2>2
<1>11. Works(c)'
  <2>1. call'[c].at = n.at /\ call'[c].turn = t /\ call'[c].new = new
    BY <1>2
  <2>2. /\ n.at = "start" \/ ~new => Saved(t)'
        /\ n.at \in {"marking", "cancel"} /\ new => ~Saved(t)'
        /\ n.at = "user" => new /\ ~Saved(t)'
    BY <1>1, <1>2, <1>4
  <2> QED BY <2>1, <2>2 DEF Works, Saved
<1>12. /\ UNCHANGED <<store, run, excused>>
       /\ \A u : Saved(u) => Saved(u)'
       /\ \A u \in Turns : Saved(u)' => Saved(u) \/ (call'[c].at # "idle" /\ call'[c].turn = u)
       /\ call[c].at # "idle" => \/ call'[c].at # "idle" /\ call'[c].turn = call[c].turn
                                 \/ ~Saved(call[c].turn)
  BY <1>2, <1>4
<1> QED BY <1>5, <1>8, <1>9, <1>10, <1>11, <1>12, BareCall

\* cancelAsk, the second step of a call, keeps the invariant of the bare questions.
LEMMA BareCancel ==
    ASSUME OneCall, IInv, BareInv, NEW c \in Calls, CancelAsk(c)
    PROVE  BareInv'
<1>1. /\ call[c].at = "cancel" /\ call'[c].turn = call[c].turn /\ call'[c].new = call[c].new
      /\ call'[c].at = (IF call[c].new THEN "user" ELSE "start")
      /\ UNCHANGED <<rows, store, settled, run, saves, excused>> /\ cancelled \subseteq cancelled'
  <2>1. call[c] \in CallRecord /\ call \in [Calls -> CallRecord]
    BY Plain
  <2> QED BY <2>1 DEF CancelAsk, CancelSlot, flightVars, CallRecord
<1>2. \A u : (Saved(u)' <=> Saved(u)) /\ (Answered(u)' <=> Answered(u))
  BY <1>1, RowsSame
<1>3. \A u : Outcome(u) => Outcome(u)'
  BY <1>1, <1>2 DEF Outcome
<1>4. Claimed'
  BY <1>1, <1>2, <1>3 DEF BareInv, Claimed
<1>5. Closed'
  BY <1>1, ClosedElsewhere DEF BareInv
<1>6. \A u \in Turns : Shows(u) => Outcome(u)'
  BY <1>1, <1>3 DEF BareInv, Answering
<1>7. Works(c)'
  <2>1. Works(c) /\ Saved(call[c].turn)' = Saved(call[c].turn)
    BY <1>1 DEF BareInv, Asked, Works, Saved
  <2> QED BY <1>1, <2>1 DEF Works, Saved
<1>8. /\ UNCHANGED <<store, run, excused>>
      /\ \A u : Saved(u) => Saved(u)'
      /\ \A u \in Turns : Saved(u)' => Saved(u) \/ (call'[c].at # "idle" /\ call'[c].turn = u)
      /\ call[c].at # "idle" => \/ call'[c].at # "idle" /\ call'[c].turn = call[c].turn
                                \/ ~Saved(call[c].turn)
  BY <1>1, <1>2
<1> QED BY <1>3, <1>4, <1>5, <1>6, <1>7, <1>8, BareCall

\* The save of the question keeps the invariant of the bare questions.
LEMMA BareUser ==
    ASSUME OneCall, IInv, BareInv, NEW c \in Calls, SaveUser(c)
    PROVE  BareInv'
<1>1. PICK t \in Turns : t = call[c].turn /\ call[c].at = "user" /\ call[c].new /\ ~Saved(t)
  <2>1. call[c].turn \in Turns /\ call[c].at = "user"
    BY Plain DEF SaveUser
  <2> QED BY <2>1 DEF BareInv, Asked
<1> DEFINE z == NewRow("user", t, NoText, NoRun)
<1>2. z \in Row /\ z.turn = t /\ z.kind = "user" /\ Typed
  BY Plain DEF NewRow, Row, RowKinds
<1>3. /\ UNCHANGED <<flightVars, store, settled, run, saves, excused>>
      /\ \/ rows' = Append(rows, z) /\ call'[c].at = "start" /\ call'[c].turn = t
         \/ UNCHANGED rows /\ call'[c].at = "idle"
  <2>1. call[c] \in CallRecord /\ call \in [Calls -> CallRecord] /\ NoCallRecord.at = "idle"
    BY Plain DEF NoCallRecord
  <2> QED BY <1>1, <2>1 DEF SaveUser, CallRecord
<1> HIDE DEF z
<1>4. \A u : /\ Saved(u) => Saved(u)'
             /\ Saved(u)' => Saved(u) \/ (rows' = Append(rows, z) /\ u = t)
             /\ Answered(u)' <=> Answered(u)
             /\ rows' = Append(rows, z) => Saved(t)'
  BY <1>2, <1>3, RowAdded, RowsSame
<1>5. \A u : Outcome(u) => Outcome(u)'
  BY <1>3, <1>4 DEF Outcome
<1>6. Claimed'
  BY <1>3, <1>4, <1>5 DEF BareInv, Claimed
<1>7. Closed'
  BY <1>3, ClosedElsewhere DEF BareInv, flightVars
<1>8. \A u \in Turns : Shows(u) => Outcome(u)'
  BY <1>1, <1>5 DEF BareInv, Answering
<1>9. call'[c].at # "idle" => Works(c)'
  BY <1>3, <1>4 DEF Works, Saved
<1>10. \A u \in Turns : Saved(u)' => Saved(u) \/ (call'[c].at # "idle" /\ call'[c].turn = u)
  <2>1. rows' = Append(rows, z) /\ UNCHANGED rows => FALSE
    <3>1. rows \in Seq(Row)
      BY <1>2 DEF Typed
    <3>2. Len(Append(rows, z)) = Len(rows) + 1 /\ Len(rows) \in Nat
      BY <3>1
    <3> QED BY <3>2
  <2> QED BY <1>3, <1>4, <2>1
<1>11. ~Saved(call[c].turn)
  BY <1>1
<1>12. /\ UNCHANGED <<store, run, excused>>
       /\ \A u : Saved(u) => Saved(u)'
       /\ \A u \in Turns : Saved(u)' => Saved(u) \/ (call'[c].at # "idle" /\ call'[c].turn = u)
       /\ call[c].at # "idle" => \/ call'[c].at # "idle" /\ call'[c].turn = call[c].turn
                                 \/ ~Saved(call[c].turn)
  BY <1>3, <1>4, <1>10, <1>11
<1> QED BY <1>5, <1>6, <1>7, <1>8, <1>9, <1>12, BareCall

\* The stream that a call displaces has its outcome.
LEMMA BareStream ==
    ASSUME OneCall, IInv, BareInv, NEW c \in Calls, RunStream(c)
    PROVE  BareInv'
<1>1. PICK r \in Runs : r = store.gen + 1
  BY DEF RunStream
<1>2. PICK t \in Turns : t = call[c].turn /\ call[c].at = "start" /\ Saved(t)
  <2>1. call[c].turn \in Turns /\ call[c].at = "start"
    BY Plain DEF RunStream
  <2> QED BY <2>1 DEF BareInv, Asked
<1>3. /\ run'[r].turn = t /\ run'[r].queue = <<>> /\ run'[r].at = "invoked"
      /\ \A q \in Runs : q # r => run'[q] = run[q]
      /\ store'.gen = r /\ store'.turn = t /\ store'.streaming
      /\ call'[c].at = "idle" /\ settled' \subseteq settled
      /\ UNCHANGED <<flightVars, rows, saves, excused>>
  <2>1. run \in [Runs -> RunRecord] /\ call \in [Calls -> CallRecord]
    BY Plain DEF Typed
  <2> QED BY <1>1, <1>2, <2>1 DEF RunStream, NoRunRecord, NoCallRecord
<1>4. \A u : (Saved(u)' <=> Saved(u)) /\ (Answered(u)' <=> Answered(u))
  BY <1>3, RowsSame
<1>5. \A u : Outcome(u) => Outcome(u)'
  BY <1>3, <1>4 DEF Outcome
<1>6. Claimed'
  BY <1>3, <1>4, <1>5 DEF BareInv, Claimed
<1>7. Closed'
  BY <1>3 DEF Closed
<1>8. \A d \in Calls : call'[d].at = "idle"
  BY <1>3 DEF OneCall
<1>9. \A u : Shows(u)' <=> u = t
  BY <1>3 DEF Shows
<1>10. Asked'
  <2>1. (\A q \in Runs : run[q].at # "none" => Saved(run[q].turn))'
    <3> SUFFICES ASSUME NEW q \in Runs, run'[q].at # "none", NEW u, u = run'[q].turn
                 PROVE  Saved(u)'
      BY DEF Saved
    <3>1. CASE q = r
      BY <1>2, <1>3, <1>4, <3>1
    <3>2. CASE q # r
      BY <1>3, <1>4, <3>2 DEF BareInv, Asked
    <3> QED BY <3>1, <3>2
  <2>2. (store.streaming => store.turn \in Turns /\ Shows(store.turn))'
    BY <1>3 DEF Shows
  <2> QED BY <1>8, <2>1, <2>2 DEF Asked
<1>11. Answering'
  <2>1. \A u \in Turns : Saved(u)' => Outcome(u)' \/ Shows(u)'
    <3> SUFFICES ASSUME NEW u \in Turns, Saved(u), u # t PROVE Outcome(u)
      BY <1>4, <1>5, <1>9
    <3>1. \A d \in Calls : call[d].turn # u
      BY <1>2 DEF OneCall
    <3>2. Shows(u) => Outcome(u)
      BY <1>2 DEF BareInv, Answering
    <3> QED BY <3>1, <3>2 DEF BareInv, Answering
  <2> QED BY <1>3, <1>8, <2>1 DEF Answering
<1> QED BY <1>6, <1>7, <1>10, <1>11 DEF BareInv

\* The empty chat has no bare question.
LEMMA InitBare == Init => BareInv
<1> SUFFICES ASSUME Init PROVE BareInv
  OBVIOUS
<1>1. /\ rows = <<>> /\ settled = {} /\ saves = {} /\ ~store.streaming /\ store.gen \notin Runs
      /\ (\A c \in Calls : call[c].at = "idle") /\ (\A r \in Runs : run[r].at = "none")
  BY Numbers DEF Init, NoCallRecord, NoRunRecord
<1>2. \A t : ~Saved(t) /\ ~Shows(t)
  BY <1>1 DEF Saved, Shows
<1> QED BY <1>1, <1>2 DEF BareInv, Claimed, Asked, Closed, Answering

\* With one call at a time, every step keeps the invariant of the bare questions.
LEMMA StepBare == OneCall /\ IInv /\ BareInv /\ [Next]_vars => BareInv'
<1> SUFFICES ASSUME OneCall, IInv, BareInv, [Next]_vars PROVE BareInv'
  OBVIOUS
<1>1. CASE UNCHANGED vars
  <2>1. UNCHANGED <<slot, cancelled, rows, store, settled, call, run, saves, excused>>
    BY <1>1 DEF vars, flightVars
  <2> QED BY <2>1 DEF BareInv, Claimed, Asked, Closed, Answering, Outcome, Answered, Saved, Shows,
                      HasDone
<1>2. ASSUME NEW c \in Calls, NEW t \in Turns, Send(c, t) \/ Regenerate(c, t)
      PROVE  BareInv'
  BY <1>2, BareBegin
<1>3. ASSUME NEW c \in Calls, Store(c) PROVE BareInv'
  BY <1>3, BareCancel, BareUser, BareStream DEF Store
<1>4. CASE Stop
  BY <1>4, BareStop
<1>5. ASSUME NEW r \in Runs, Command(r) \/ Callbacks(r) PROVE BareInv'
  BY <1>5, BareCommand, BareCallback
<1>6. ASSUME NEW x, Saving(x) PROVE BareInv'
  BY <1>6, BareSaving DEF Saving
<1> QED BY <1>1, <1>2, <1>3, <1>4, <1>5, <1>6 DEF Next

\* persistTerminalMarker, markSuperseded: with the calls of the store one after the
\* other, whatever is stopped, displaced, refused or fails, a question that was saved
\* is answered or marked once nothing is in flight; excepted are a gap of the index
\* and a marker whose save failed.
THEOREM Bare == OneCall /\ Spec => []NeverBare
<1>1. IInv /\ BareInv => NeverBare
  <2> SUFFICES ASSUME BareInv, Quiet, NEW t \in Turns \ excused, Saved(t) PROVE Answered(t)
    BY DEF NeverBare
  <2>1. saves = {} /\ ~store.streaming /\ \A c \in Calls : call[c].at = "idle"
    BY DEF Quiet
  <2>2. Outcome(t)
    BY <2>1 DEF BareInv, Answering
  <2> QED BY <2>1, <2>2 DEF Outcome
<1>2. Spec => []IInv
  BY Inductive
<1>3. OneCall => (IInv /\ BareInv /\ [Next]_vars => BareInv')
  BY StepBare
<1>4. Init => BareInv
  BY InitBare
<1>5. SUFFICES ASSUME OneCall PROVE Spec => []NeverBare
  OBVIOUS
<1>6. IInv /\ BareInv /\ [Next]_vars => BareInv'
  BY <1>3, <1>5
<1> QED BY <1>1, <1>2, <1>4, <1>6, PTL DEF Spec
=============================================================================
