------------------------------ MODULE Download ------------------------------
(***************************************************************************)
(* Downloads of one model artifact (download.rs, the TTS and Whisper       *)
(* registries, the commands of commands/system.rs): calls that share a     *)
(* cancel token and queue for the .part file, a server that may answer     *)
(* anything, a cache that is cleared or moved away meanwhile, and process  *)
(* deaths.                                                                 *)
(*                                                                         *)
(* A file is its length in blocks and whether it is a prefix of the pinned *)
(* artifact, which is what the SHA256 tells apart.  A step is the code     *)
(* between two awaits.  The outer tokio::select! polls the token first     *)
(* (biased), so a call whose token is flipped takes no further step.       *)
(***************************************************************************)
EXTENDS Naturals, FiniteSets

CONSTANTS
    Calls,        \* download commands for this artifact
    NoCall,
    Len,          \* blocks of the artifact
    MaxLen,       \* bound: blocks of a body
    MaxAttempts,  \* MAX_ATTEMPTS
    HeadLens,     \* lengths a HEAD answer may give; 0 is "no length"
    MaxRemovals,  \* bound: offloads and clears of the cache
    MaxCrashes    \* bound: process deaths

ASSUME DownloadAssumption ==
    /\ NoCall \notin Calls /\ IsFiniteSet(Calls)
    /\ Len \in Nat \ {0} /\ MaxLen \in Nat /\ Len <= MaxLen
    /\ MaxAttempts \in Nat \ {0} /\ HeadLens \subseteq Nat
    /\ MaxRemovals \in Nat /\ MaxCrashes \in Nat

VARIABLES
    entry,      \* download_cancel_tokens[key]: token and holders
    cancelled,  \* flipped tokens; a token is named after the call that made it
    call,       \* each call's local state
    writer,     \* holder of the part_write_lock
    part,       \* the .part file
    dest,       \* the finished file
    dir,        \* whether the model directory exists
    tainted,    \* history: a server has sent something else than the artifact
    removals,
    crashes

registryVars == <<entry, cancelled>>
fileVars == <<part, dest, dir>>
vars == <<registryVars, call, writer, fileVars, tainted, removals, crashes>>

File == [len : 0 .. MaxLen, good : BOOLEAN]
NoFile == [len |-> 0, good |-> TRUE]
Pinned == [len |-> Len, good |-> TRUE]
NoEntry == [tok |-> NoCall, holders |-> 0]

Stages == {"idle", "head", "queue", "attempt", "rehash", "request", "stream", "verify",
           "publish", "backoff", "drop", "over"}
Results == {"none", "ok", "error", "integrity", "cancelled"}
Call == [at : Stages, tok : Calls \cup {NoCall}, expected : HeadLens \cup {0},
         attempt : 0 .. MaxAttempts, off : 0 .. MaxLen, linked : BOOLEAN, result : Results]

TypeOK ==
    /\ entry \in [tok : Calls \cup {NoCall}, holders : 0 .. Cardinality(Calls)]
    /\ cancelled \subseteq Calls
    /\ call \in [Calls -> Call]
    /\ writer \in Calls \cup {NoCall}
    /\ part \in File /\ dest \in File /\ dir \in BOOLEAN
    /\ tainted \in BOOLEAN /\ removals \in 0 .. MaxRemovals /\ crashes \in 0 .. MaxCrashes

\* A call that transfers nothing.
Bare(stage, tok, result) ==
    [at |-> stage, tok |-> tok, expected |-> 0, attempt |-> 0,
     off |-> 0, linked |-> TRUE, result |-> result]
NewCall == Bare("idle", NoCall, "none")

Init ==
    /\ entry = NoEntry /\ cancelled = {}
    /\ call = [c \in Calls |-> NewCall]
    /\ writer = NoCall
    /\ part = NoFile /\ dest = NoFile /\ dir = FALSE
    /\ tainted = FALSE /\ removals = 0 /\ crashes = 0

Live == {c \in Calls : call[c].at \notin {"idle", "over"}}
At(c, stage) == call[c].at = stage /\ call[c].tok \notin cancelled
Goto(c, stage) == call' = [call EXCEPT ![c].at = stage]

\* Mutant: the lock is not given back.
End_KeepsLock(c, result) ==
    /\ call' = [call EXCEPT ![c] = Bare("drop", call[c].tok, result)]
    /\ writer' = writer

\* The end of a call: the writer lock goes with the dropped future.
End(c, result) ==
    /\ call' = [call EXCEPT ![c] = Bare("drop", call[c].tok, result)]
    /\ writer' = IF writer = c THEN NoCall ELSE writer

\* Mutant: one attempt too many.
Retry_OneMore(c) ==
    IF call[c].attempt > MaxAttempts
    THEN End(c, "error")
    ELSE /\ call' = [call EXCEPT ![c].at = "backoff", ![c].off = 0, ![c].linked = TRUE]
         /\ UNCHANGED writer

\* AttemptFailure::Retryable
Retry(c) ==
    IF call[c].attempt >= MaxAttempts
    THEN End(c, "error")
    ELSE /\ call' = [call EXCEPT ![c].at = "backoff", ![c].off = 0, ![c].linked = TRUE]
         /\ UNCHANGED writer

RemovePart == part' = NoFile
Outside == UNCHANGED <<registryVars, removals, crashes>>

-----------------------------------------------------------------------------
(* The command and its registry entry *)

\* Mutant: a second caller gets a token of its own.
Register_Supersede(c) ==
    /\ entry' = [tok |-> c, holders |-> 1]
    /\ call' = [call EXCEPT ![c].at = "head", ![c].tok = c]

\* register_download joins a registered download.
Register(c) ==
    LET joined == IF entry = NoEntry THEN [tok |-> c, holders |-> 0] ELSE entry
    IN  /\ entry' = [joined EXCEPT !.holders = @ + 1]
        /\ call' = [call EXCEPT ![c].at = "head", ![c].tok = joined.tok]

Begin(c) ==
    /\ call[c].at = "idle"
    /\ Register(c)
    /\ UNCHANGED <<cancelled, writer, fileVars, tainted, removals, crashes>>

\* The stop button flips the token and leaves the entry.
CancelDownload ==
    /\ entry # NoEntry
    /\ cancelled' = cancelled \cup {entry.tok}
    /\ UNCHANGED <<entry, call, writer, fileVars, tainted, removals, crashes>>

\* The biased arm of the select in download_verified.
Cancelled(c) ==
    /\ call[c].at \notin {"idle", "drop", "over"} /\ call[c].tok \in cancelled
    /\ End(c, "cancelled")
    /\ Outside /\ UNCHANGED <<fileVars, tainted>>

\* DownloadCancelGuard::drop; a token is freed with its last holder.
DropGuard(c) ==
    /\ call[c].at = "drop"
    /\ entry' = IF entry.tok # call[c].tok THEN entry
                ELSE IF entry.holders = 1 THEN NoEntry
                ELSE [entry EXCEPT !.holders = @ - 1]
    /\ cancelled' = IF entry' = NoEntry THEN {} ELSE cancelled
    /\ call' = [call EXCEPT ![c].at = "over", ![c].tok = NoCall]
    /\ UNCHANGED <<writer, fileVars, tainted, removals, crashes>>

-----------------------------------------------------------------------------
(* download_all_attempts *)

\* Mutant: a .part of the full length counts as the file.
Completed_Part(expected) == expected > 0 /\ (dest.len = expected \/ part.len = expected)

\* completed_skip: a file of the expected length is trusted.
Completed(expected) == dest.len > 0 /\ expected > 0 /\ dest.len = expected

\* The HEAD probe (any error is "no length"), then the skip, then the folder.
HeadProbe(c) ==
    /\ At(c, "head")
    /\ \E n \in HeadLens \cup {0} :
        IF Completed(n)
        THEN End(c, "ok") /\ UNCHANGED dir
        ELSE /\ call' = [call EXCEPT ![c].at = "queue", ![c].expected = n]
             /\ dir' = TRUE
             /\ UNCHANGED writer
    /\ Outside /\ UNCHANGED <<part, dest, tainted>>

\* An unknown model id, a client or a folder that cannot be made.
HeadFails(c) ==
    /\ At(c, "head")
    /\ End(c, "error")
    /\ Outside /\ UNCHANGED <<fileVars, tainted>>

\* part_write_lock, and the skip again: a predecessor may have finished.
LockPart(c) ==
    /\ At(c, "queue") /\ writer = NoCall
    /\ IF Completed(call[c].expected)
       THEN End(c, "ok")
       ELSE /\ call' = [call EXCEPT ![c].at = "attempt", ![c].attempt = 1]
            /\ writer' = c
    /\ Outside /\ UNCHANGED <<fileVars, tainted>>

Backoff(c) ==
    /\ At(c, "backoff")
    /\ call' = [call EXCEPT ![c].at = "attempt", ![c].attempt = @ + 1]
    /\ Outside /\ UNCHANGED <<writer, fileVars, tainted>>

-----------------------------------------------------------------------------
(* download_attempt *)

\* The offset is the length on disk; an oversized .part is discarded.
Attempt(c) ==
    LET n == part.len
        e == call[c].expected
        oversized == e > 0 /\ n > e
    IN  /\ At(c, "attempt")
        /\ IF oversized THEN RemovePart ELSE UNCHANGED part
        /\ call' = [call EXCEPT ![c].at = IF e > 0 /\ n = e THEN "rehash" ELSE "request",
                                ![c].off = IF oversized THEN 0 ELSE n]
        /\ Outside /\ UNCHANGED <<writer, dest, dir, tainted>>

\* complete_part_matches on a .part of the full length.  A file that has been
\* removed since cannot be read, which is retryable.
Rehash(c) ==
    /\ At(c, "rehash")
    /\ \/ /\ part = Pinned
          /\ Goto(c, "publish") /\ UNCHANGED <<writer, part>>
       \/ /\ part \notin {Pinned, NoFile}
          /\ RemovePart
          /\ call' = [call EXCEPT ![c].at = "request", ![c].off = 0] /\ UNCHANGED writer
       \/ part = NoFile /\ Retry(c) /\ UNCHANGED part
    /\ Outside /\ UNCHANGED <<dest, dir, tainted>>

\* preflight_space abstains without a length; otherwise the disk may be short.
\* A client error other than 408 and 429 is final too.
FatalAnswer(c) ==
    /\ At(c, "request")
    /\ End(c, "error")
    /\ Outside /\ UNCHANGED <<fileVars, tainted>>

\* No connection, a timeout, 408, 429, 5xx; or the .part cannot be opened.
RetryableAnswer(c) ==
    /\ At(c, "request")
    /\ Retry(c)
    /\ Outside /\ UNCHANGED <<fileVars, tainted>>

\* 206 at our offset appends; the other 206 discards the .part and retries.
PartialContent(c) ==
    /\ At(c, "request") /\ dir
    /\ call' = [call EXCEPT ![c].at = "stream", ![c].linked = TRUE]
    /\ Outside /\ UNCHANGED <<writer, fileVars, tainted>>

\* Mutant: a 206 from another offset is appended.
WrongOffset_Appended(c) ==
    /\ At(c, "request") /\ dir
    /\ \E n \in 0 .. MaxLen :
        call' = [call EXCEPT ![c].at = "stream", ![c].linked = TRUE, ![c].off = n]
    /\ Outside /\ UNCHANGED <<writer, fileVars, tainted>>

WrongOffset(c) ==
    /\ At(c, "request")
    /\ RemovePart
    /\ Retry(c)
    /\ Outside /\ UNCHANGED <<dest, dir, tainted>>

\* 416: only the hash proves the .part complete.
RangeNotSatisfiable(c) ==
    /\ At(c, "request")
    /\ IF part = Pinned
       THEN Goto(c, "publish") /\ UNCHANGED <<writer, part>>
       ELSE RemovePart /\ Retry(c)
    /\ Outside /\ UNCHANGED <<dest, dir, tainted>>

\* Any other success is a whole body: File::create truncates.
WholeBody(c) ==
    /\ At(c, "request") /\ dir
    /\ RemovePart
    /\ call' = [call EXCEPT ![c].at = "stream", ![c].linked = TRUE, ![c].off = 0]
    /\ Outside /\ UNCHANGED <<writer, dest, dir, tainted>>

\* A chunk.  It lands at the end of the .part, which is where it belongs only
\* if nobody else has written; without a name left (linked) it lands nowhere.
Chunk(c) ==
    /\ At(c, "stream") /\ call[c].off < MaxLen
    /\ \E right \in BOOLEAN :
        /\ right => call[c].off < Len
        /\ tainted' = (tainted \/ ~right)
        /\ \/ ~call[c].linked /\ part' = part
           \/ /\ call[c].linked /\ part.len < MaxLen
              /\ part' = [len |-> part.len + 1,
                          good |-> part.good /\ right /\ call[c].off = part.len]
    /\ call' = [call EXCEPT ![c].off = @ + 1]
    /\ Outside /\ UNCHANGED <<writer, dest, dir>>

\* A full disk (on a write, or seen by mid_stream_space_error) is final; any
\* other write error and a broken stream are retried.
StreamFails(c) ==
    /\ At(c, "stream")
    /\ End(c, "error") \/ Retry(c)
    /\ Outside /\ UNCHANGED <<fileVars, tainted>>

StreamEnds(c) ==
    /\ At(c, "stream")
    /\ tainted' = (tainted \/ call[c].off # Len)
    /\ Goto(c, "verify")
    /\ Outside /\ UNCHANGED <<writer, fileVars>>

\* Mutant: only a body that was not resumed is hashed.
Verify_SkipsResumed(c) ==
    /\ At(c, "verify")
    /\ \/ part # NoFile /\ Goto(c, "publish") /\ UNCHANGED <<writer, part>>
       \/ part = NoFile /\ Retry(c) /\ UNCHANGED part
    /\ Outside /\ UNCHANGED <<dest, dir, tainted>>

\* sync_all, then sha256_file of the .part by its name.  An empty body is
\* hashed as well; a .part whose name is gone cannot be read.
Verify(c) ==
    /\ At(c, "verify")
    /\ \/ part = Pinned /\ Goto(c, "publish") /\ UNCHANGED <<writer, part>>
       \/ /\ part # Pinned /\ call[c].linked
          /\ RemovePart /\ End(c, "integrity")
       \/ ~call[c].linked /\ Retry(c) /\ UNCHANGED part
    /\ Outside /\ UNCHANGED <<dest, dir, tainted>>

\* sync_and_finalize: a failure of the sync or of the rename is retried, unless the
\* disk is full.
Publish(c) ==
    /\ At(c, "publish")
    /\ \/ /\ part # NoFile
          /\ dest' = part
          /\ RemovePart /\ End(c, "ok")
       \/ /\ Retry(c) \/ End(c, "error")
          /\ UNCHANGED <<part, dest>>
    /\ Outside /\ UNCHANGED <<dir, tainted>>

-----------------------------------------------------------------------------
(* Around the calls *)

\* remove_cache at the end of an offload, clear_model_cache_blocking: both hold
\* ingest_lock, which downloads do not take.  The calls keep the root they began
\* with; an open .part loses its name.
RemoveCache ==
    /\ removals < MaxRemovals
    /\ removals' = removals + 1
    /\ part' = NoFile /\ dest' = NoFile /\ dir' = FALSE
    /\ call' = [c \in Calls |-> IF call[c].at \in {"stream", "verify"}
                                THEN [call[c] EXCEPT !.linked = FALSE] ELSE call[c]]
    /\ UNCHANGED <<registryVars, writer, tainted, crashes>>

Crash ==
    /\ crashes < MaxCrashes
    /\ crashes' = crashes + 1
    /\ entry' = NoEntry
    /\ call' = [c \in Calls |-> IF c \notin Live THEN call[c]
                  ELSE Bare("over", NoCall, IF call[c].result = "none" THEN "error"
                                            ELSE call[c].result)]
    /\ writer' = NoCall
    /\ cancelled' = {}
    /\ UNCHANGED <<fileVars, tainted, removals>>

-----------------------------------------------------------------------------
Step(c) ==
    \/ Cancelled(c) \/ DropGuard(c) \/ HeadProbe(c) \/ HeadFails(c) \/ Backoff(c)
    \/ Attempt(c) \/ Rehash(c) \/ FatalAnswer(c) \/ RetryableAnswer(c) \/ PartialContent(c)
    \/ WrongOffset(c) \/ RangeNotSatisfiable(c) \/ WholeBody(c) \/ Chunk(c) \/ StreamFails(c)
    \/ StreamEnds(c) \/ Verify(c) \/ Publish(c)

Next ==
    \/ \E c \in Calls : Begin(c) \/ LockPart(c) \/ Step(c)
    \/ CancelDownload \/ RemoveCache \/ Crash

Spec == Init /\ [][Next]_vars

\* The client's connect and idle timeouts end every request and every body, and
\* tokio polls a call that can go on.
FairSpec == Spec /\ \A c \in Calls : WF_vars(Step(c) \/ LockPart(c))

\* tts_model_status looks at the size only (whisper_model_downloaded not even at that).
ModelStatus == IF dest.len = Len THEN "complete" ELSE IF dest.len > 0 THEN "partial" ELSE "absent"

-----------------------------------------------------------------------------
(* Properties *)

\* download_verified: "each hashing the finished `.part` from disk before the
\* rename".  Whatever the server sends and however calls, moves and deaths
\* interleave, a file that is in place is the pinned artifact.
InstalledVerified == dest # NoFile => dest = Pinned /\ ModelStatus = "complete"

\* download_attempt: "reporting a digest mismatch there would blame the artifact
\* for a proxy's bug".  Only a server that has sent other bytes than the
\* artifact's makes a call end in IntegrityCheckFailed; resumes, retries and
\* concurrent calls never do.  (A cache that is cleared between the reading of
\* the offset and the opening of the .part does: the resumed body lands at the
\* start of a new file.)
BlameIsDeserved == (\E c \in Calls : call[c].result = "integrity") => tainted \/ removals > 0

\* register_download: "joining an already-registered download rather than
\* superseding it".  One stop reaches every call in flight, and the entry goes
\* with its last holder ("a retained entry would hand a later download the
\* previous (possibly already-cancelled) token").
StopReachesAll ==
    /\ \A c \in Live : call[c].tok = entry.tok
    /\ entry.holders = Cardinality(Live)

\* Every call that begins ends: attempts are bounded and the .part lock is
\* handed on by every exit.
CallsEnd == \A c \in Calls : call[c].at = "head" ~> call[c].at = "over"

Promise == INSTANCE ModelFile WITH
    present <- dest = Pinned,
    told <- [c \in Calls |-> IF call[c].result \in {"none", "ok"} THEN call[c].result
                             ELSE "error"]

\* The downloader implements the all-or-nothing promise of ModelFile.
KeepsPromise == Promise!Spec

=============================================================================
