-------------------------- MODULE Download_proofs --------------------------
(***************************************************************************)
(* For any number of calls, blocks, attempts, removals and process deaths: *)
(* what is in place is the pinned artifact, blame is deserved, a stop      *)
(* reaches every call in flight, and the downloader implements ModelFile.  *)
(***************************************************************************)
EXTENDS Download, Integers, FiniteSetTheorems, TLAPS

\* The stages in which a call holds the part_write_lock.
Held == {"attempt", "rehash", "request", "stream", "verify", "publish", "backoff"}

-----------------------------------------------------------------------------
(* Types.                                                                   *)

\* The types, but for the entry and the flipped tokens, whose ranges are the
\* registry's own matter.
Typed ==
    /\ entry \in [tok : Calls \cup {NoCall}, holders : Int]
    /\ cancelled \subseteq Calls \cup {NoCall}
    /\ call \in [Calls -> Call]
    /\ writer \in Calls \cup {NoCall}
    /\ part \in File /\ dest \in File /\ dir \in BOOLEAN
    /\ tainted \in BOOLEAN /\ removals \in 0 .. MaxRemovals /\ crashes \in 0 .. MaxCrashes

\* The pinned artifact and no file at all are files, and different ones.
LEMMA PinnedTyped == Pinned \in File /\ NoFile \in File /\ Pinned # NoFile
BY DownloadAssumption DEF Pinned, NoFile, File

\* The names, without the sets they are listed in.
LEMMA NamesTyped ==
    /\ "idle" \in Stages /\ "head" \in Stages /\ "queue" \in Stages /\ "attempt" \in Stages
    /\ "rehash" \in Stages /\ "request" \in Stages /\ "stream" \in Stages
    /\ "verify" \in Stages /\ "publish" \in Stages /\ "backoff" \in Stages
    /\ "drop" \in Stages /\ "over" \in Stages
    /\ "none" \in Results /\ "ok" \in Results /\ "error" \in Results
    /\ "integrity" \in Results /\ "cancelled" \in Results
    /\ 0 \in 0 .. MaxLen
BY DownloadAssumption DEF Stages, Results

\* A call that moves on keeps its type if what it changes has one.
LEMMA MovedTyped ==
    ASSUME Typed, NEW c \in Calls
    PROVE  /\ \A s \in Stages : [call[c] EXCEPT !.at = s] \in Call
           /\ \A s \in Stages, n \in 0 .. MaxLen : [call[c] EXCEPT !.at = s, !.off = n] \in Call
           /\ \A s \in Stages : [call[c] EXCEPT !.at = s, !.linked = TRUE] \in Call
           /\ \A s \in Stages, n \in 0 .. MaxLen :
                [call[c] EXCEPT !.at = s, !.linked = TRUE, !.off = n] \in Call
           /\ \A s \in Stages, t \in Calls \cup {NoCall} :
                [call[c] EXCEPT !.at = s, !.tok = t] \in Call
           /\ \A n \in 0 .. MaxLen : [call[c] EXCEPT !.off = n] \in Call
           /\ [call[c] EXCEPT !.linked = FALSE] \in Call
<1>1. call[c] \in Call
  BY DEF Typed
<1> QED BY <1>1 DEF Call

\* Replacing the record of one call by a call keeps the table's type.
LEMMA TableTyped ==
    ASSUME Typed, NEW c \in Calls, NEW r \in Call, call' = [call EXCEPT ![c] = r]
    PROVE  call' \in [Calls -> Call]
BY DEF Typed

\* How an exit and a failed attempt leave the call and the lock.
LEMMA EndTyped ==
    ASSUME Typed, NEW c \in Calls, NEW result \in Results, End(c, result)
    PROVE  call' \in [Calls -> Call] /\ writer' \in Calls \cup {NoCall}
<1>1. call[c].tok \in Calls \cup {NoCall}
  BY DEF Typed, Call
<1>2. Bare("drop", call[c].tok, result) \in Call
  BY <1>1, DownloadAssumption, NamesTyped DEF Bare, Call
<1> QED BY <1>2 DEF Typed, End

\* A retry leaves a call in its type.
LEMMA RetryTyped ==
    ASSUME Typed, NEW c \in Calls, Retry(c)
    PROVE  call' \in [Calls -> Call] /\ writer' \in Calls \cup {NoCall}
<1>1. CASE call[c].attempt >= MaxAttempts
  BY <1>1, EndTyped, NamesTyped DEF Retry
<1>2. CASE ~(call[c].attempt >= MaxAttempts)
  BY <1>2, DownloadAssumption, NamesTyped DEF Typed, Retry, Call
<1> QED BY <1>1, <1>2

\* Every step of the command, the transfer and the environment keeps the types.
LEMMA TypeStep == Typed /\ [Next]_vars => Typed'
<1> SUFFICES ASSUME Typed, [Next]_vars PROVE Typed'
  OBVIOUS
<1> USE DownloadAssumption, NamesTyped
<1>1. ASSUME NEW c \in Calls, Begin(c) \/ LockPart(c) PROVE Typed'
  <2>1. CASE Begin(c)
    <3> DEFINE joined == IF entry = NoEntry THEN [tok |-> c, holders |-> 0] ELSE entry
    <3>1. joined.tok \in Calls \cup {NoCall} /\ joined.holders \in Int
      BY DEF Typed
    <3>2. [joined EXCEPT !.holders = @ + 1] \in [tok : Calls \cup {NoCall}, holders : Int]
      BY <3>1 DEF Typed
    <3>3. [call[c] EXCEPT !.at = "head", !.tok = joined.tok] \in Call
      BY <3>1, MovedTyped DEF Typed
    <3>4. call' = [call EXCEPT ![c] = [@ EXCEPT !.at = "head", !.tok = joined.tok]]
      BY <2>1 DEF Begin, Register, Typed
    <3> HIDE DEF joined
    <3> QED BY <2>1, <3>2, <3>3, <3>4 DEF Typed, Begin, Register, fileVars, joined
  <2>2. CASE LockPart(c)
    <3>1. CASE Completed(call[c].expected)
      BY <2>2, <3>1, EndTyped DEF Typed, LockPart, Outside, fileVars, registryVars
    <3>2. CASE ~Completed(call[c].expected)
      BY <2>2, <3>2 DEF Typed, LockPart, Outside, fileVars, registryVars, Call
    <3> QED BY <3>1, <3>2
  <2> QED BY <1>1, <2>1, <2>2
<1>2. ASSUME NEW c \in Calls, Step(c) PROVE Typed'
  <2> USE DEF Outside, registryVars, fileVars
  <2>1. CASE Cancelled(c) \/ HeadFails(c) \/ FatalAnswer(c)
    BY <2>1, EndTyped DEF Typed, Cancelled, HeadFails, FatalAnswer
  <2>2. CASE DropGuard(c)
    <3>1. entry' \in [tok : Calls \cup {NoCall}, holders : Int]
      BY <2>2 DEF Typed, DropGuard, NoEntry
    <3>2. call' \in [Calls -> Call]
      <4>1. [call[c] EXCEPT !.at = "over", !.tok = NoCall] \in Call
        BY MovedTyped DEF Typed
      <4>2. call' = [call EXCEPT ![c] = [call[c] EXCEPT !.at = "over", !.tok = NoCall]]
        BY <2>2 DEF Typed, DropGuard
      <4> QED BY <4>1, <4>2, TableTyped
    <3> QED BY <2>2, <3>1, <3>2 DEF Typed, DropGuard
  <2>3. CASE HeadProbe(c)
    <3>1. PICK n \in HeadLens \cup {0} :
             IF Completed(n) THEN End(c, "ok") /\ UNCHANGED dir
             ELSE /\ call' = [call EXCEPT ![c].at = "queue", ![c].expected = n]
                  /\ dir' = TRUE /\ UNCHANGED writer
      BY <2>3 DEF HeadProbe
    <3>2. CASE Completed(n)
      BY <2>3, <3>1, <3>2, EndTyped DEF Typed, HeadProbe
    <3>3. CASE ~Completed(n)
      BY <2>3, <3>1, <3>3 DEF Typed, HeadProbe, Call
    <3> QED BY <3>2, <3>3
  <2>4. CASE Backoff(c) \/ PartialContent(c) \/ WholeBody(c) \/ StreamEnds(c)
    <3>1. CASE Backoff(c)
      BY <2>4, <3>1 DEF Typed, Backoff, Call
    <3>2. CASE PartialContent(c)
      <4>1. [call[c] EXCEPT !.at = "stream", !.linked = TRUE] \in Call
        BY MovedTyped DEF Typed
      <4>2. call' = [call EXCEPT ![c] = [call[c] EXCEPT !.at = "stream", !.linked = TRUE]]
        BY <3>2 DEF Typed, PartialContent
      <4>3. call' \in [Calls -> Call]
        BY <4>1, <4>2, TableTyped
      <4> QED BY <3>2, <4>3 DEF Typed, PartialContent
    <3>3. CASE WholeBody(c)
      <4> DEFINE r == [call[c] EXCEPT !.at = "stream", !.linked = TRUE, !.off = 0]
      <4>1. r \in Call
        BY MovedTyped DEF Typed
      <4>2. call' = [call EXCEPT ![c] = r]
        BY <3>3 DEF Typed, WholeBody
      <4> HIDE DEF r
      <4>3. call' \in [Calls -> Call]
        BY <4>1, <4>2, TableTyped
      <4> QED BY <3>3, <4>3, PinnedTyped DEF Typed, WholeBody, RemovePart
    <3>4. CASE StreamEnds(c)
      <4>1. [call[c] EXCEPT !.at = "verify"] \in Call
        BY MovedTyped DEF Typed
      <4>2. call' \in [Calls -> Call]
        BY <3>4, <4>1, TableTyped DEF StreamEnds, Goto
      <4> QED BY <3>4, <4>2 DEF Typed, StreamEnds
    <3> QED BY <2>4, <3>1, <3>2, <3>3, <3>4
  <2>5. CASE Attempt(c)
    <3> DEFINE n == part.len
               e == call[c].expected
               oversized == e > 0 /\ n > e
               stage == IF e > 0 /\ n = e THEN "rehash" ELSE "request"
               offset == IF oversized THEN 0 ELSE n
    <3>1. stage \in Stages /\ offset \in 0 .. MaxLen
      BY DEF Typed, File
    <3>2. call' = [call EXCEPT ![c] = [@ EXCEPT !.at = stage, !.off = offset]]
      BY <2>5 DEF Attempt, Typed
    <3> HIDE DEF stage, offset
    <3>3. call' \in [Calls -> Call]
      BY <3>1, <3>2, MovedTyped DEF Typed
    <3> QED BY <2>5, <3>3, PinnedTyped DEF Typed, Attempt, RemovePart
  <2>6. CASE RetryableAnswer(c) \/ WrongOffset(c)
    BY <2>6, PinnedTyped, RetryTyped DEF Typed, RetryableAnswer, WrongOffset, RemovePart
  <2>7. CASE Rehash(c) \/ RangeNotSatisfiable(c) \/ Verify(c)
    <3>1. [call[c] EXCEPT !.at = "publish"] \in Call
      BY MovedTyped DEF Typed
    <3>2. [call[c] EXCEPT !.at = "request", !.off = 0] \in Call
      BY MovedTyped DEF Typed
    <3>3. call' = [call EXCEPT ![c].at = "request", ![c].off = 0]
             => call' = [call EXCEPT ![c] = [call[c] EXCEPT !.at = "request", !.off = 0]]
      BY DEF Typed
    <3>4. Goto(c, "publish") => call' \in [Calls -> Call]
      BY <3>1, TableTyped DEF Goto
    <3>5. call' = [call EXCEPT ![c].at = "request", ![c].off = 0] => call' \in [Calls -> Call]
      BY <3>2, <3>3, TableTyped
    <3>6. call' \in [Calls -> Call] /\ writer' \in Calls \cup {NoCall}
      BY <2>7, <3>4, <3>5, RetryTyped, EndTyped DEF Typed, Rehash, RangeNotSatisfiable, Verify
    <3>7. part' \in File
      BY <2>7, PinnedTyped DEF Typed, Rehash, RangeNotSatisfiable, Verify, RemovePart
    <3> QED BY <2>7, <3>6, <3>7 DEF Typed, Rehash, RangeNotSatisfiable, Verify
  <2>8. CASE Chunk(c)
    <3>1. call' \in [Calls -> Call]
      <4>1. call[c].off + 1 \in 0 .. MaxLen
        BY <2>8 DEF Typed, Chunk, Call
      <4>2. [call[c] EXCEPT !.off = call[c].off + 1] \in Call
        BY <4>1, MovedTyped DEF Typed
      <4>3. call' = [call EXCEPT ![c] = [call[c] EXCEPT !.off = call[c].off + 1]]
        BY <2>8 DEF Typed, Chunk
      <4> QED BY <4>2, <4>3, TableTyped
    <3>2. part' \in File
      <4>1. part.len < MaxLen => part.len + 1 \in 0 .. MaxLen
        BY DEF Typed, File
      <4>2. PICK right \in BOOLEAN :
               \/ part' = part
               \/ /\ part.len < MaxLen
                  /\ part' = [len |-> part.len + 1,
                              good |-> part.good /\ right /\ call[c].off = part.len]
        BY <2>8 DEF Chunk
      <4> DEFINE good == part.good /\ right /\ call[c].off = part.len
      <4>3. good \in BOOLEAN
        OBVIOUS
      <4> HIDE DEF good
      <4>4. part.len < MaxLen => [len |-> part.len + 1, good |-> good] \in File
        BY <4>1, <4>3 DEF File
      <4> QED BY <4>2, <4>4 DEF Typed, good
    <3>3. tainted' \in BOOLEAN
      BY <2>8 DEF Typed, Chunk
    <3> QED BY <2>8, <3>1, <3>2, <3>3 DEF Typed, Chunk
  <2>9. CASE StreamFails(c)
    BY <2>9, RetryTyped, EndTyped DEF Typed, StreamFails
  <2>10. CASE Publish(c)
    BY <2>10, PinnedTyped, RetryTyped, EndTyped DEF Typed, Publish, RemovePart
  <2> QED BY <1>2, <2>1, <2>2, <2>3, <2>4, <2>5, <2>6, <2>7, <2>8, <2>9, <2>10 DEF Step
<1>3. CASE CancelDownload
  BY <1>3 DEF Typed, CancelDownload, NoEntry, fileVars
<1>4. CASE RemoveCache
  <2>1. \A c \in Calls : [call[c] EXCEPT !.linked = FALSE] \in Call
    BY MovedTyped DEF Typed
  <2>2. call' \in [Calls -> Call]
    BY <1>4, <2>1 DEF Typed, RemoveCache
  <2>3. removals' \in 0 .. MaxRemovals
    BY <1>4 DEF Typed, RemoveCache
  <2> QED BY <1>4, <2>2, <2>3, PinnedTyped DEF Typed, RemoveCache, registryVars
<1>5. CASE Crash
  BY <1>5 DEF Typed, Crash, NoEntry, fileVars, Bare, Call
<1>6. CASE UNCHANGED vars
  BY <1>6 DEF Typed, vars, registryVars, fileVars
<1> QED BY <1>1, <1>2, <1>3, <1>4, <1>5, <1>6 DEF Next

-----------------------------------------------------------------------------
(* What every step of a call in flight leaves alone.                        *)

\* How the call and the lock look after an exit.
LEMMA EndShape ==
    ASSUME Typed, NEW c \in Calls, NEW result, End(c, result)
    PROVE  /\ \A d \in Calls \ {c} : call'[d] = call[d]
           /\ call'[c].at = "drop" /\ call'[c].tok = call[c].tok
           /\ call'[c].result = result /\ call'[c].linked = TRUE /\ call'[c].off = 0
           /\ writer = c => writer' = NoCall
           /\ writer # c => writer' = writer
BY DEF Typed, End, Bare

\* ... and after a failed attempt, which is retried or the last one.
LEMMA RetryShape ==
    ASSUME Typed, NEW c \in Calls, Retry(c)
    PROVE  \/ End(c, "error")
           \/ /\ \A d \in Calls \ {c} : call'[d] = call[d]
              /\ call'[c].at = "backoff" /\ call'[c].tok = call[c].tok
              /\ call'[c].result = call[c].result
              /\ call'[c].linked = TRUE /\ call'[c].off = 0
              /\ writer' = writer
BY DEF Typed, Retry, Call

\* A call in flight changes itself only, keeps its token, has a result only when
\* it ends, and holds the lock from LockPart to its end.
InFlight(c) ==
    /\ \A d \in Calls \ {c} : call'[d] = call[d]
    /\ call[c].at \notin {"idle", "drop", "over"} /\ call'[c].at \notin {"idle", "over"}
    /\ call'[c].tok = call[c].tok
    /\ call'[c].at = "drop" \/ call'[c].result = call[c].result
    /\ \/ writer' = writer /\ (call[c].at \in Held <=> call'[c].at \in Held)
       \/ writer = NoCall /\ writer' = c /\ call[c].at \notin Held
       \/ call'[c].at = "drop" /\ writer # c /\ writer' = writer
       \/ call'[c].at = "drop" /\ writer = c /\ writer' = NoCall
    /\ entry' = entry /\ cancelled' = cancelled
    /\ removals' = removals /\ crashes' = crashes

\* A call that ends or was told to had not ended before.
LEMMA EndInFlight ==
    ASSUME Typed, NEW c \in Calls, NEW result, End(c, result), Outside,
           call[c].at \notin {"idle", "drop", "over"}
    PROVE  InFlight(c)
BY EndShape DEF InFlight, Outside, registryVars

\* A call that retries is in flight.
LEMMA RetryInFlight ==
    ASSUME Typed, NEW c \in Calls, Retry(c), Outside, call[c].at \in Held
    PROVE  InFlight(c)
<1>1. CASE End(c, "error")
  BY <1>1, EndInFlight DEF Held
<1>2. CASE ~End(c, "error")
  BY <1>2, RetryShape DEF InFlight, Outside, registryVars, Held
<1> QED BY <1>1, <1>2

\* The calls' steps but the guard's are of this shape.
LEMMA StepInFlight ==
    ASSUME Typed, NEW c \in Calls, Step(c) \/ LockPart(c), ~DropGuard(c)
    PROVE  InFlight(c)
<1>1. CASE LockPart(c)
  <2>1. CASE Completed(call[c].expected)
    BY <1>1, <2>1, EndInFlight DEF LockPart, At
  <2>2. CASE ~Completed(call[c].expected)
    BY <1>1, <2>2 DEF LockPart, At, InFlight, Outside, registryVars, Held, Typed, Call
  <2> QED BY <2>1, <2>2
<1>2. CASE Cancelled(c) \/ HeadFails(c) \/ FatalAnswer(c)
  BY <1>2, EndInFlight DEF Cancelled, HeadFails, FatalAnswer, At
<1>3. CASE HeadProbe(c)
  <2>1. CASE End(c, "ok")
    BY <1>3, <2>1, EndInFlight DEF HeadProbe, At
  <2>2. PICK n \in HeadLens \cup {0} :
           End(c, "ok") \/ (/\ call' = [call EXCEPT ![c].at = "queue", ![c].expected = n]
                            /\ UNCHANGED writer)
    BY <1>3 DEF HeadProbe
  <2>3. CASE ~End(c, "ok")
    BY <1>3, <2>2, <2>3 DEF HeadProbe, At, InFlight, Outside, registryVars, Held, Typed, Call
  <2> QED BY <2>1, <2>3
<1>4. CASE Backoff(c) \/ PartialContent(c) \/ WholeBody(c) \/ StreamEnds(c)
  BY <1>4 DEF Backoff, PartialContent, WholeBody, StreamEnds, Goto, At, InFlight, Outside,
              registryVars, Held, Typed, Call
<1>5. CASE Attempt(c) \/ Chunk(c)
  BY <1>5 DEF Attempt, Chunk, At, InFlight, Outside, registryVars, Held, Typed, Call
<1>6. CASE RetryableAnswer(c) \/ WrongOffset(c)
  BY <1>6, RetryInFlight DEF RetryableAnswer, WrongOffset, At, Held
<1>7. CASE Rehash(c) \/ RangeNotSatisfiable(c) \/ Verify(c)
  <2>1. call[c].at \in Held /\ Outside
    BY <1>7 DEF Rehash, RangeNotSatisfiable, Verify, At, Held
  <2>2. CASE Retry(c)
    BY <2>1, <2>2, RetryInFlight
  <2>3. CASE End(c, "integrity")
    BY <2>1, <2>3, EndInFlight DEF Held
  <2>4. CASE ~Retry(c) /\ ~End(c, "integrity")
    BY <1>7, <2>1, <2>4 DEF Rehash, RangeNotSatisfiable, Verify, Goto, InFlight, Outside,
                            registryVars, Held, Typed, Call
  <2> QED BY <2>2, <2>3, <2>4
<1>8. CASE StreamFails(c)
  BY <1>8, EndInFlight, RetryInFlight DEF StreamFails, At, Held
<1>9. CASE Publish(c)
  BY <1>9, EndInFlight, RetryInFlight DEF Publish, At, Held
<1> QED BY <1>1, <1>2, <1>3, <1>4, <1>5, <1>6, <1>7, <1>8, <1>9 DEF Step

-----------------------------------------------------------------------------
(* What is in place.                                                        *)

\* The lock's holder is the only call that touches the .part; between the hash
\* and the rename the .part is the artifact or has been cleared.
Guarded ==
    /\ \A c \in Calls : call[c].at \in Held => writer = c
    /\ \A c \in Calls : call[c].at = "publish" => part \in {Pinned, NoFile}
    /\ dest \in {Pinned, NoFile}

\* The steps of a call but for its files: two calls never hold the lock.
LEMMA LockStep ==
    ASSUME Typed, Guarded, NEW c \in Calls, InFlight(c)
    PROVE  \A d \in Calls : call'[d].at \in Held => writer' = d
<1> SUFFICES ASSUME NEW d \in Calls, call'[d].at \in Held PROVE writer' = d
  OBVIOUS
<1>1. "drop" \notin Held /\ NoCall \notin Calls
  BY DownloadAssumption DEF Held
<1>2. CASE d = c
  BY <1>1, <1>2 DEF InFlight, Guarded
<1>3. CASE d # c
  BY <1>1, <1>3 DEF InFlight, Guarded
<1> QED BY <1>2, <1>3

\* Only the holder writes, and it leaves the stage before the rename only with
\* the artifact in the .part.
LEMMA FileStep ==
    ASSUME Typed, Guarded, NEW c \in Calls, Step(c) \/ LockPart(c), ~DropGuard(c)
    PROVE  /\ part' # part => call[c].at \in Held
           /\ call'[c].at = "publish" => part' = Pinned
           /\ dest' \in {Pinned, NoFile}
           /\ dest' # dest => dest' = Pinned /\ End(c, "ok")
<1>1. CASE LockPart(c) \/ HeadProbe(c) \/ Cancelled(c) \/ HeadFails(c) \/ FatalAnswer(c)
  <2>1. call'[c].at # "publish"
    <3>1. CASE Cancelled(c) \/ HeadFails(c) \/ FatalAnswer(c)
      BY <3>1, EndShape DEF Cancelled, HeadFails, FatalAnswer
    <3>2. CASE LockPart(c)
      <4>1. CASE End(c, "ok")
        BY <4>1, EndShape
      <4>2. CASE ~End(c, "ok")
        BY <3>2, <4>2 DEF LockPart, Typed, Call
      <4> QED BY <4>1, <4>2
    <3>3. CASE HeadProbe(c)
      <4>1. CASE End(c, "ok")
        BY <4>1, EndShape
      <4>2. CASE ~End(c, "ok")
        BY <3>3, <4>2 DEF HeadProbe, Typed, Call
      <4> QED BY <4>1, <4>2
    <3> QED BY <1>1, <3>1, <3>2, <3>3
  <2> QED BY <1>1, <2>1
        DEF LockPart, HeadProbe, Cancelled, HeadFails, FatalAnswer, fileVars, Guarded
<1>2. CASE Backoff(c) \/ PartialContent(c) \/ WholeBody(c) \/ StreamEnds(c)
  BY <1>2 DEF Backoff, PartialContent, WholeBody, StreamEnds, Goto, At, fileVars, Guarded, Held,
              Typed, Call
<1>3. CASE Attempt(c) \/ Chunk(c)
  BY <1>3 DEF Attempt, Chunk, At, Guarded, Held, Typed, Call
<1>4. CASE RetryableAnswer(c) \/ WrongOffset(c) \/ StreamFails(c)
  BY <1>4, RetryShape, EndShape
    DEF RetryableAnswer, WrongOffset, StreamFails, At, fileVars, Guarded, Held
<1>5. CASE Rehash(c) \/ RangeNotSatisfiable(c) \/ Verify(c)
  <2>1. call[c].at \in Held /\ dest' = dest
    BY <1>5 DEF Rehash, RangeNotSatisfiable, Verify, At, Held
  <2>2. CASE Retry(c) \/ End(c, "integrity")
    BY <2>1, <2>2, RetryShape, EndShape DEF Guarded
  <2>3. CASE ~(Retry(c) \/ End(c, "integrity"))
    BY <1>5, <2>1, <2>3 DEF Rehash, RangeNotSatisfiable, Verify, Goto, Guarded, Typed, Call
  <2> QED BY <2>2, <2>3
<1>6. CASE Publish(c)
  BY <1>6, RetryShape, EndShape, PinnedTyped DEF Publish, At, Guarded, Held
<1> QED BY <1>1, <1>2, <1>3, <1>4, <1>5, <1>6 DEF Step

\* Every step keeps what the stages of a call guarantee.
LEMMA GuardedStep == Typed /\ Guarded /\ [Next]_vars => Guarded'
<1> SUFFICES ASSUME Typed, Guarded, [Next]_vars PROVE Guarded'
  OBVIOUS
<1>1. ASSUME NEW c \in Calls, Begin(c) PROVE Guarded'
  BY <1>1 DEF Begin, Register, Guarded, Typed, Call, fileVars, Held
<1>2. ASSUME NEW c \in Calls, Step(c) \/ LockPart(c) PROVE Guarded'
  <2>1. CASE DropGuard(c)
    BY <2>1 DEF DropGuard, Guarded, Typed, Call, fileVars, Held
  <2>2. CASE ~DropGuard(c)
    <3>1. InFlight(c)
      BY <1>2, <2>2, StepInFlight
    <3>2. ASSUME NEW d \in Calls, call'[d].at = "publish" PROVE part' \in {Pinned, NoFile}
      <4>1. CASE d = c
        BY <1>2, <2>2, <3>2, <4>1, FileStep
      <4>2. CASE d # c
        BY <1>2, <2>2, <3>1, <3>2, <4>2, FileStep DEF InFlight, Guarded, Held
      <4> QED BY <4>1, <4>2
    <3> QED BY <1>2, <2>2, <3>1, <3>2, LockStep, FileStep DEF Guarded
  <2> QED BY <2>1, <2>2
<1>3. CASE CancelDownload
  BY <1>3 DEF CancelDownload, Guarded, fileVars
<1>4. CASE RemoveCache
  BY <1>4 DEF RemoveCache, Guarded, Typed, Call
<1>5. CASE Crash
  BY <1>5 DEF Crash, Live, Bare, Guarded, Typed, Call, fileVars, Held
<1>6. CASE UNCHANGED vars
  BY <1>6 DEF vars, registryVars, fileVars, Guarded
<1> QED BY <1>1, <1>2, <1>3, <1>4, <1>5, <1>6 DEF Next

-----------------------------------------------------------------------------
(* Who is to blame.                                                         *)

\* While every server has sent the artifact and nobody has cleared the cache,
\* the .part is a prefix of the artifact, a request asks for what is missing, a
\* body lands where it belongs, and no digest mismatches.
Honest ==
    /\ part.good
    /\ \A c \in Calls :
        /\ call[c].linked /\ call[c].result # "integrity"
        /\ call[c].at \in {"request", "stream", "verify"} => call[c].off = part.len
        /\ call[c].at = "verify" => part.len = Len
Clean == ~tainted /\ removals = 0 => Honest

\* A prefix of the artifact that is as long as it is the artifact.
LEMMA WholeIsPinned ==
    ASSUME part \in File, part.good, part.len = Len
    PROVE  part = Pinned
BY DEF File, Pinned

\* What the acting call finds and leaves.
LEMMA HonestOwn ==
    ASSUME Typed, Guarded, Honest, NEW c \in Calls, Step(c) \/ LockPart(c), ~DropGuard(c), ~tainted'
    PROVE  /\ part'.good
           /\ call'[c].linked /\ call'[c].result # "integrity"
           /\ call'[c].at \in {"request", "stream", "verify"} => call'[c].off = part'.len
           /\ call'[c].at = "verify" => part'.len = Len
<1> USE DEF Honest
<1> DEFINE Left == /\ call'[c].linked /\ call'[c].result # "integrity"
                   /\ call'[c].at \notin {"request", "stream", "verify"}
<1>a. ASSUME NEW result, result # "integrity", End(c, result) PROVE Left
  BY <1>a, EndShape
<1>b. Retry(c) => Left
  BY <1>a, RetryShape
<1>c. RemovePart => part'.good /\ part'.len = 0
  BY DEF RemovePart, NoFile
<1>d. ASSUME Left, part'.good
      PROVE  /\ part'.good
             /\ call'[c].linked /\ call'[c].result # "integrity"
             /\ call'[c].at \in {"request", "stream", "verify"} => call'[c].off = part'.len
             /\ call'[c].at = "verify" => part'.len = Len
  BY <1>d
<1> HIDE DEF Left
<1>1. CASE Cancelled(c) \/ HeadFails(c) \/ FatalAnswer(c)
  <2>1. Left
    BY <1>1, <1>a DEF Cancelled, HeadFails, FatalAnswer
  <2> QED BY <1>1, <2>1, <1>d DEF Cancelled, HeadFails, FatalAnswer, fileVars
<1>2. CASE LockPart(c)
  <2>1. CASE End(c, "ok")
    BY <1>2, <2>1, <1>a, <1>d DEF LockPart, fileVars
  <2>2. CASE ~End(c, "ok")
    BY <1>2, <2>2 DEF LockPart, fileVars, Typed, Call
  <2> QED BY <2>1, <2>2
<1>3. CASE HeadProbe(c)
  <2>1. CASE End(c, "ok")
    BY <1>3, <2>1, <1>a, <1>d DEF HeadProbe
  <2>2. CASE ~End(c, "ok")
    BY <1>3, <2>2 DEF HeadProbe, Typed, Call
  <2> QED BY <2>1, <2>2
<1>4. CASE Backoff(c) \/ PartialContent(c) \/ WholeBody(c)
  BY <1>4 DEF Backoff, PartialContent, WholeBody, RemovePart, NoFile, At, fileVars, Typed, Call
<1>5. CASE Attempt(c)
  BY <1>5 DEF Attempt, RemovePart, NoFile, Typed, Call
<1>6. CASE RetryableAnswer(c) \/ WrongOffset(c)
  BY <1>6, <1>b, <1>c, <1>d DEF RetryableAnswer, WrongOffset, fileVars
<1>7. CASE Rehash(c) \/ RangeNotSatisfiable(c)
  <2>1. CASE Retry(c)
    BY <1>7, <2>1, <1>b, <1>c, <1>d DEF Rehash, RangeNotSatisfiable, Goto
  <2>2. CASE ~Retry(c)
    BY <1>7, <2>2 DEF Rehash, RangeNotSatisfiable, RemovePart, NoFile, Goto, Typed, Call
  <2> QED BY <2>1, <2>2
<1>8. CASE Chunk(c)
  <2>1. PICK right \in BOOLEAN :
           /\ tainted' = (tainted \/ ~right)
           /\ \/ ~call[c].linked /\ part' = part
              \/ part' = [len |-> part.len + 1,
                          good |-> part.good /\ right /\ call[c].off = part.len]
    BY <1>8 DEF Chunk
  <2>2. right /\ call[c].off = part.len
    BY <1>8, <2>1 DEF Chunk, At
  <2>3. part'.good /\ part'.len = call[c].off + 1
    <3>1. (part.good /\ right /\ call[c].off = part.len) = TRUE
      BY <2>2
    <3>2. part' = [len |-> part.len + 1, good |-> TRUE]
      BY <2>1, <3>1
    <3> QED BY <2>2, <3>2
  <2>4. call'[c].linked = call[c].linked /\ call'[c].result = call[c].result
        /\ call'[c].off = call[c].off + 1 /\ call'[c].at = "stream"
    BY <1>8 DEF Chunk, At, Typed, Call
  <2> QED BY <2>3, <2>4
<1>9. CASE StreamEnds(c)
  BY <1>9 DEF StreamEnds, At, Goto, fileVars, Typed, Call
<1>10. CASE StreamFails(c)
  BY <1>10, <1>a, <1>b, <1>d DEF StreamFails, fileVars
<1>11. CASE Verify(c)
  <2>1. part = Pinned
    BY <1>11, WholeIsPinned DEF Verify, At, Typed
  <2> QED BY <1>11, <2>1 DEF Verify, Goto, Typed, Call
<1>12. CASE Publish(c)
  BY <1>12, <1>a, <1>b, <1>c, <1>d DEF Publish
<1> QED BY <1>1, <1>2, <1>3, <1>4, <1>5, <1>6, <1>7, <1>8, <1>9, <1>10, <1>11, <1>12 DEF Step

\* Every step keeps the .part file a prefix while nothing else was sent.
LEMMA CleanStep == Typed /\ Guarded /\ Clean /\ [Next]_vars => Clean'
<1> SUFFICES ASSUME Typed, Guarded, Clean, [Next]_vars, ~tainted', removals' = 0
             PROVE  Honest'
  BY DEF Clean
<1>1. ASSUME NEW c \in Calls, Begin(c) PROVE Honest'
  BY <1>1 DEF Begin, Register, Clean, Honest, Typed, Call, fileVars
<1>2. ASSUME NEW c \in Calls, Step(c) \/ LockPart(c) PROVE Honest'
  <2>1. CASE DropGuard(c)
    BY <2>1 DEF DropGuard, Clean, Honest, Typed, Call, fileVars
  <2>2. CASE ~DropGuard(c)
    <3>1. InFlight(c)
      BY <1>2, <2>2, StepInFlight
    <3>2. Honest
      <4>1. ~tainted
        BY <1>2, <2>2 DEF Step, LockPart, Cancelled, HeadProbe, HeadFails, Backoff, Attempt,
             Rehash, FatalAnswer, RetryableAnswer, PartialContent, WrongOffset,
             RangeNotSatisfiable, WholeBody, Chunk, StreamFails, StreamEnds, Verify, Publish
      <4> QED BY <3>1, <4>1 DEF InFlight, Clean
    <3>3. ASSUME NEW d \in Calls \ {c}
          PROVE  /\ call'[d].linked /\ call'[d].result # "integrity"
                 /\ call'[d].at \in {"request", "stream", "verify"} => call'[d].off = part'.len
                 /\ call'[d].at = "verify" => part'.len = Len
      <4>1. call'[d] = call[d]
        BY <3>1 DEF InFlight
      <4>2. CASE call[d].at \in Held
        <5>1. call[c].at \notin Held
          BY <4>2 DEF Guarded
        <5> QED BY <1>2, <2>2, <3>2, <4>1, <5>1, FileStep DEF Honest
      <4>3. CASE call[d].at \notin Held
        BY <3>2, <4>1, <4>3 DEF Honest, Held
      <4> QED BY <4>2, <4>3
    <3> QED BY <1>2, <2>2, <3>2, <3>3, HonestOwn DEF Honest
  <2> QED BY <2>1, <2>2
<1>3. CASE CancelDownload
  BY <1>3 DEF CancelDownload, Clean, Honest, fileVars
<1>4. CASE RemoveCache
  BY <1>4 DEF RemoveCache, Typed
<1>5. CASE Crash
  BY <1>5 DEF Crash, Live, Bare, Clean, Honest, Typed, Call, fileVars
<1>6. CASE UNCHANGED vars
  BY <1>6 DEF vars, registryVars, fileVars, Clean, Honest
<1> QED BY <1>1, <1>2, <1>3, <1>4, <1>5, <1>6 DEF Next

-----------------------------------------------------------------------------
(* The registry.                                                            *)

\* The entry counts the calls in flight, has their token, and goes with the last.
Registry ==
    /\ \A c \in Live : call[c].tok = entry.tok
    /\ entry.holders = Cardinality(Live)
    /\ Live = {} => entry = NoEntry
    /\ Live # {} => entry.tok \in Calls
    /\ cancelled \subseteq Calls

\* The calls in flight are finitely many.
LEMMA LiveFinite == IsFiniteSet(Live) /\ Cardinality(Live) \in Nat
BY DownloadAssumption, FS_Subset, FS_CardinalityType DEF Live

\* register_download, release_download: every step keeps the count of the holders.
LEMMA RegistryStep == Typed /\ Registry /\ [Next]_vars => Registry'
<1> SUFFICES ASSUME Typed, Registry, [Next]_vars PROVE Registry'
  OBVIOUS
<1> USE DownloadAssumption
<1>1. ASSUME NEW c \in Calls, Begin(c) PROVE Registry'
  <2> DEFINE joined == IF entry = NoEntry THEN [tok |-> c, holders |-> 0] ELSE entry
  <2>1. Live' = Live \cup {c} /\ c \notin Live
    BY <1>1 DEF Begin, Register, Live, Typed, Call
  <2>2. Cardinality(Live') = Cardinality(Live) + 1
    BY <2>1, LiveFinite, FS_AddElement
  <2>3. joined.holders = Cardinality(Live) /\ joined.tok \in Calls
    <3>1. CASE entry = NoEntry
      BY <3>1 DEF Registry, NoEntry
    <3>2. CASE entry # NoEntry
      BY <3>2 DEF Registry
    <3> QED BY <3>1, <3>2
  <2>4. \A d \in Live : call[d].tok = joined.tok
    <3>1. CASE entry = NoEntry
      BY <3>1 DEF Registry, NoEntry
    <3>2. CASE entry # NoEntry
      BY <3>2 DEF Registry
    <3> QED BY <3>1, <3>2
  <2>5. entry'.tok = joined.tok /\ entry'.holders = joined.holders + 1
    <3>1. CASE entry = NoEntry
      BY <1>1, <3>1 DEF Begin, Register
    <3>2. CASE entry # NoEntry
      BY <1>1, <3>2 DEF Begin, Register, Typed
    <3> QED BY <3>1, <3>2
  <2>6. call'[c].tok = joined.tok /\ \A d \in Calls \ {c} : call'[d] = call[d]
    BY <1>1 DEF Begin, Register, Typed, Call
  <2>7. cancelled' = cancelled
    BY <1>1 DEF Begin
  <2> HIDE DEF joined
  <2>8. \A d \in Live' : call'[d].tok = entry'.tok
    BY <2>1, <2>4, <2>5, <2>6 DEF Live
  <2> QED BY <2>1, <2>2, <2>3, <2>5, <2>7, <2>8 DEF Registry
<1>2. ASSUME NEW c \in Calls, Step(c) \/ LockPart(c) PROVE Registry'
  <2>1. CASE DropGuard(c)
    <3>1. Live' = Live \ {c} /\ c \in Live
      BY <2>1 DEF DropGuard, Live, Typed, Call
    <3>2. Cardinality(Live') = Cardinality(Live) - 1
      BY <3>1, LiveFinite, FS_RemoveElement
    <3>3. entry.tok = call[c].tok /\ entry.holders = Cardinality(Live) /\ entry.tok \in Calls
      BY <3>1 DEF Registry
    <3>4. \A d \in Calls \ {c} : call'[d] = call[d]
      BY <2>1 DEF DropGuard, Typed, Call
    <3>5. CASE entry.holders = 1
      <4>1. Live' = {}
        BY <3>2, <3>3, <3>5, LiveFinite, FS_Subset, FS_EmptySet, <3>1
      <4>2. entry' = NoEntry /\ cancelled' = {}
        BY <2>1, <3>3, <3>5 DEF DropGuard
      <4> QED BY <4>1, <4>2, FS_EmptySet DEF Registry, NoEntry
    <3>6. CASE entry.holders # 1
      <4>1. Live' # {}
        <5>1. Cardinality(Live') # 0
          BY <3>2, <3>3, <3>6, LiveFinite
        <5>2. Live' = {} => Cardinality(Live') = 0
          BY FS_EmptySet
        <5> QED BY <5>1, <5>2
      <4>2. entry' = [entry EXCEPT !.holders = @ - 1]
        BY <2>1, <3>3, <3>6 DEF DropGuard
      <4>3. entry'.tok = entry.tok /\ entry'.holders = entry.holders - 1
        BY <4>2 DEF Typed
      <4>4. cancelled' \subseteq Calls
        BY <2>1 DEF DropGuard, Registry
      <4>5. \A d \in Live' : call'[d].tok = entry'.tok
        BY <3>1, <3>4, <4>3 DEF Registry, Live
      <4> QED BY <3>2, <3>3, <4>1, <4>3, <4>4, <4>5 DEF Registry
    <3> QED BY <3>5, <3>6
  <2>2. CASE ~DropGuard(c)
    <3>1. InFlight(c)
      BY <1>2, <2>2, StepInFlight
    <3>2. Live' = Live
      BY <3>1 DEF InFlight, Live
    <3>3. \A d \in Live : call'[d].tok = call[d].tok
      BY <3>1 DEF InFlight, Live
    <3> QED BY <3>1, <3>2, <3>3 DEF InFlight, Registry
  <2> QED BY <2>1, <2>2
<1>3. CASE CancelDownload
  BY <1>3 DEF CancelDownload, Registry, Live
<1>4. CASE RemoveCache
  <2>1. Live' = Live /\ \A d \in Live : call'[d].tok = call[d].tok
    BY <1>4 DEF RemoveCache, Live, Typed, Call
  <2> QED BY <1>4, <2>1 DEF RemoveCache, registryVars, Registry
<1>5. CASE Crash
  <2>1. Live' = {}
    BY <1>5 DEF Crash, Live, Bare, Typed, Call
  <2> QED BY <1>5, <2>1, FS_EmptySet DEF Crash, Registry, NoEntry
<1>6. CASE UNCHANGED vars
  BY <1>6 DEF vars, registryVars, Registry, Live
<1> QED BY <1>1, <1>2, <1>3, <1>4, <1>5, <1>6 DEF Next

-----------------------------------------------------------------------------
(* The theorems.                                                            *)

\* A call has a result only when it is about to leave or has left.
Told == \A c \in Calls : call[c].at \notin {"drop", "over"} => call[c].result = "none"

\* Every step keeps what the calls were told.
LEMMA ToldStep == Typed /\ Told /\ [Next]_vars => Told'
<1> SUFFICES ASSUME Typed, Told, [Next]_vars PROVE Told'
  OBVIOUS
<1>1. ASSUME NEW c \in Calls, Begin(c) PROVE Told'
  BY <1>1 DEF Begin, Register, Told, Typed, Call
<1>2. ASSUME NEW c \in Calls, Step(c) \/ LockPart(c) PROVE Told'
  <2>1. CASE DropGuard(c)
    BY <2>1 DEF DropGuard, Told, Typed, Call
  <2>2. CASE ~DropGuard(c)
    BY <1>2, <2>2, StepInFlight DEF InFlight, Told
  <2> QED BY <2>1, <2>2
<1>3. CASE CancelDownload
  BY <1>3 DEF CancelDownload, Told
<1>4. CASE RemoveCache
  BY <1>4 DEF RemoveCache, Told, Typed, Call
<1>5. CASE Crash
  BY <1>5 DEF Crash, Live, Bare, Told, Typed, Call
<1>6. CASE UNCHANGED vars
  BY <1>6 DEF vars, Told
<1> QED BY <1>1, <1>2, <1>3, <1>4, <1>5, <1>6 DEF Next

IInv == Typed /\ Guarded /\ Clean /\ Registry /\ Told

\* The idle downloader satisfies the invariant.
LEMMA InitIInv == Init => IInv
<1> SUFFICES ASSUME Init PROVE IInv
  OBVIOUS
<1> USE DownloadAssumption DEF Init
<1>1. NewCall \in Call
  BY NamesTyped DEF NewCall, Bare, Call
<1>2. call \in [Calls -> Call]
  BY <1>1
<1>3. Typed
  <2>1. entry \in [tok : Calls \cup {NoCall}, holders : Int]
    BY DEF NoEntry
  <2>2. removals \in 0 .. MaxRemovals /\ crashes \in 0 .. MaxCrashes
    OBVIOUS
  <2> QED BY <1>2, <2>1, <2>2, PinnedTyped DEF Typed
<1>4. \A c \in Calls : call[c].at = "idle" /\ call[c].linked /\ call[c].result = "none"
  BY DEF NewCall, Bare
<1>5. Guarded /\ Told
  BY <1>4 DEF Guarded, Told, Held
<1>6. Clean
  BY <1>4 DEF Clean, Honest, NoFile
<1>7. Live = {}
  BY <1>4 DEF Live
<1>8. Registry
  BY <1>7, FS_EmptySet DEF Registry, NoEntry
<1> QED BY <1>3, <1>5, <1>6, <1>8 DEF IInv

\* The invariant that the theorems below are drawn from holds for ever.
THEOREM Inductive == Spec => []IInv
<1>1. IInv /\ [Next]_vars => IInv'
  BY TypeStep, GuardedStep, CleanStep, RegistryStep, ToldStep DEF IInv
<1> QED BY InitIInv, <1>1, PTL DEF Spec

\* The types, with no more holders than calls and a token only of a call.
THEOREM TypeCorrect == Spec => []TypeOK
<1>1. IInv => TypeOK
  <2> SUFFICES ASSUME IInv PROVE TypeOK
    OBVIOUS
  <2>1. Cardinality(Live) \in 0 .. Cardinality(Calls)
    <3>1. Live \in SUBSET Calls
      BY DEF Live
    <3>2. Cardinality(Live) <= Cardinality(Calls) /\ Cardinality(Calls) \in Nat
      BY <3>1, DownloadAssumption, FS_Subset, FS_CardinalityType
    <3> QED BY <3>2, LiveFinite
  <2>2. entry \in [tok : Calls \cup {NoCall}, holders : 0 .. Cardinality(Calls)]
    BY <2>1 DEF IInv, Registry, Typed
  <2> QED BY <2>2 DEF IInv, Registry, Typed, TypeOK
<1> QED BY Inductive, <1>1, PTL

\* Whatever a server sends and however calls, stops, removals of the cache and
\* process deaths interleave, a file in place is the pinned artifact, and the
\* status commands, which look at its size, are right about it.
THEOREM Installed == Spec => []InstalledVerified
<1>1. IInv => InstalledVerified
  BY DownloadAssumption DEF IInv, Guarded, InstalledVerified, ModelStatus, Pinned
<1> QED BY Inductive, <1>1, PTL

\* No resume, retry or concurrent call makes the code blame the artifact.
THEOREM Blame == Spec => []BlameIsDeserved
<1>1. IInv => BlameIsDeserved
  BY DEF IInv, Clean, Honest, BlameIsDeserved, Typed
<1> QED BY Inductive, <1>1, PTL

\* One press of the stop button flips the token of every call in flight.
THEOREM Stop == Spec => []StopReachesAll
<1>1. IInv => StopReachesAll
  BY DEF IInv, Registry, StopReachesAll
<1> QED BY Inductive, <1>1, PTL

-----------------------------------------------------------------------------
(* The refinement of ModelFile.                                             *)

Tell(result) == IF result \in {"none", "ok"} THEN result ELSE "error"
told == [c \in Calls |-> Tell(call[c].result)]

\* A call is told "ok" only while the artifact is in place.
LEMMA OkIsInstalled ==
    ASSUME Typed, Guarded, Told, NEW c \in Calls, Step(c) \/ LockPart(c), ~DropGuard(c),
           call'[c].result = "ok"
    PROVE  dest' = Pinned
<1>1. InFlight(c)
  BY StepInFlight
<1>2. call[c].result = "none"
  BY <1>1 DEF InFlight, Told
<1>3. \A n : Completed(n) => dest = Pinned
  BY DEF Completed, Guarded, NoFile
<1>4. ASSUME NEW result, result # "ok" PROVE ~End(c, result)
  BY <1>4, EndShape
<1>5. ~Retry(c)
  BY <1>2, <1>4, RetryShape
<1>6. CASE HeadProbe(c)
  <2>1. PICK n \in HeadLens \cup {0} :
           Completed(n) \/ call' = [call EXCEPT ![c].at = "queue", ![c].expected = n]
    BY <1>6 DEF HeadProbe
  <2>2. CASE Completed(n)
    BY <1>3, <1>6, <2>2 DEF HeadProbe
  <2>3. CASE call' = [call EXCEPT ![c].at = "queue", ![c].expected = n]
    BY <1>2, <2>3 DEF Typed, Call
  <2> QED BY <2>1, <2>2, <2>3
<1>7. CASE LockPart(c)
  <2>1. CASE Completed(call[c].expected)
    BY <1>3, <1>7, <2>1 DEF LockPart, fileVars
  <2>2. CASE ~Completed(call[c].expected)
    BY <1>2, <1>7, <2>2 DEF LockPart, Typed, Call
  <2> QED BY <2>1, <2>2
<1>8. CASE Publish(c)
  BY <1>4, <1>5, <1>8 DEF Publish, At, Guarded
<1>9. CASE Cancelled(c) \/ HeadFails(c) \/ FatalAnswer(c)
  BY <1>4, <1>9 DEF Cancelled, HeadFails, FatalAnswer
<1>10. CASE RetryableAnswer(c) \/ WrongOffset(c) \/ StreamFails(c)
  BY <1>4, <1>5, <1>10 DEF RetryableAnswer, WrongOffset, StreamFails
<1>11. CASE Backoff(c) \/ PartialContent(c) \/ WholeBody(c) \/ StreamEnds(c)
  BY <1>2, <1>11 DEF Backoff, PartialContent, WholeBody, StreamEnds, Goto, Typed, Call
<1>12. CASE Attempt(c) \/ Chunk(c)
  BY <1>2, <1>12 DEF Attempt, Chunk, Typed, Call
<1>13. CASE Rehash(c) \/ RangeNotSatisfiable(c) \/ Verify(c)
  <2>1. ~End(c, "integrity")
    BY <1>4
  <2> QED BY <1>2, <1>5, <1>13, <2>1 DEF Rehash, RangeNotSatisfiable, Verify, Goto, Typed, Call
<1> QED BY <1>6, <1>7, <1>8, <1>9, <1>10, <1>11, <1>12, <1>13 DEF Step

\* A step of a call in flight is a stutter, a success or a failure of that call.
LEMMA StepPromised ==
    ASSUME IInv, IInv', NEW c \in Calls, Step(c) \/ LockPart(c), ~DropGuard(c)
    PROVE  Promise!Next \/ UNCHANGED Promise!vars
<1>1. InFlight(c)
  BY StepInFlight DEF IInv
<1>2. call[c].result = "none" /\ \A d \in Calls \ {c} : told'[d] = told[d]
  BY <1>1 DEF InFlight, IInv, Told, told
<1>3. told[c] = "none" /\ told'[c] = Tell(call'[c].result)
  BY <1>2 DEF told, Tell
<1>4. call'[c].result # "ok" => dest' = dest
  BY FileStep, EndShape DEF IInv
<1>5. CASE call'[c].result = "none"
  <2>1. told' = told
    BY <1>2, <1>5 DEF told
  <2> QED BY <1>4, <1>5, <2>1 DEF Promise!vars, told, Tell
<1>6. CASE call'[c].result = "ok"
  <2>1. dest' = Pinned
    BY <1>6, OkIsInstalled DEF IInv
  <2>2. told' = [told EXCEPT ![c] = "ok"]
    BY <1>2, <1>3, <1>6 DEF told, Tell
  <2>3. Promise!Succeed(c)
    BY <1>3, <2>1, <2>2 DEF Promise!Succeed, told, Tell
  <2> QED BY <2>3 DEF Promise!Next
<1>7. CASE call'[c].result \notin {"none", "ok"}
  <2>1. told' = [d \in Calls |-> IF d \in {c} THEN "error" ELSE told[d]]
    BY <1>2, <1>3, <1>7 DEF told, Tell
  <2>2. Promise!Fail({c})
    BY <1>3, <1>4, <1>7, <2>1 DEF Promise!Fail, told, Tell
  <2> QED BY <2>2 DEF Promise!Next
<1> QED BY <1>5, <1>6, <1>7

\* The other steps: the cache is cleared, the process dies, or nobody is told.
LEMMA NextPromised ==
    IInv /\ IInv' /\ [Next]_vars => [Promise!Next]_(Promise!vars)
<1> SUFFICES ASSUME IInv, IInv', [Next]_vars PROVE Promise!Next \/ UNCHANGED Promise!vars
  OBVIOUS
<1>1. ASSUME told' = told, dest' = dest PROVE UNCHANGED Promise!vars
  BY <1>1 DEF Promise!vars, told, Tell
<1>2. ASSUME NEW c \in Calls, Begin(c) \/ DropGuard(c) PROVE UNCHANGED Promise!vars
  <2>1. \A d \in Calls : call'[d].result = call[d].result
    BY <1>2 DEF Begin, Register, DropGuard, IInv, Typed, Call
  <2> QED BY <1>1, <1>2, <2>1 DEF told, Begin, DropGuard, fileVars
<1>3. CASE RemoveCache
  <2>1. \A d \in Calls : call'[d].result = call[d].result
    BY <1>3 DEF RemoveCache, IInv, Typed, Call
  <2>2. told' = told /\ dest' # Pinned
    BY <1>3, <2>1, PinnedTyped DEF told, RemoveCache
  <2>3. Promise!Remove
    BY <2>2 DEF Promise!Remove, told, Tell
  <2> QED BY <2>3 DEF Promise!Next
<1>4. CASE Crash
  <2> DEFINE S == {c \in Live : call[c].result = "none"}
  <2>1. told' = [c \in Calls |-> IF c \in S THEN "error" ELSE told[c]]
    BY <1>4 DEF Crash, Bare, told, Tell, Live
  <2>2. dest' = dest
    BY <1>4 DEF Crash, fileVars
  <2>3. S \in SUBSET Calls /\ \A c \in S : told[c] = "none"
    BY DEF Live, told, Tell
  <2> HIDE DEF S
  <2>4. PICK T \in SUBSET Calls :
           told' = [c \in Calls |-> IF c \in T THEN "error" ELSE told[c]] /\ \A c \in T : told[c] = "none"
    BY <2>1, <2>3
  <2>5. Promise!Fail(T)
    BY <2>2, <2>4 DEF Promise!Fail, told, Tell
  <2> QED BY <2>5 DEF Promise!Next
<1>5. CASE CancelDownload \/ UNCHANGED vars
  BY <1>1, <1>5 DEF CancelDownload, vars, fileVars, told
<1> QED BY <1>2, <1>3, <1>4, <1>5, StepPromised DEF Next

\* The downloader implements ModelFile: the file appears whole, "ok" is said
\* while it is there, and no call is told twice.
THEOREM Refinement == Spec => KeepsPromise
<1>1. Init => Promise!Init
  BY PinnedTyped DEF Init, NewCall, Bare, Promise!Init
<1>2. IInv /\ IInv' /\ [Next]_vars => [Promise!Next]_(Promise!vars)
  BY NextPromised
<1> QED BY Inductive, <1>1, <1>2, PTL DEF Spec, KeepsPromise, Promise!Spec
=============================================================================
