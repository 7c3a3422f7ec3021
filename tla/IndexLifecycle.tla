--------------------------- MODULE IndexLifecycle ---------------------------
(***************************************************************************)
(* Who writes the vector index of a notebook, and in which order: ingest   *)
(* (ingest.rs), the enrichment worker (enrichment/worker.rs, reembed.rs),  *)
(* the model switch (reembed_notebook and its Tauri command), the purges   *)
(* (lib.rs), and the start-up recovery after a crash (LensEngine::init).   *)
(*                                                                         *)
(* A step is the code between two await points that another task can use.  *)
(* ingest and the purges hold the ingest_lock semaphore from their first   *)
(* to their last step; enrichment and the switch build a table without it  *)
(* and take it for the flip only.                                          *)
(***************************************************************************)
EXTENDS VectorIndex, Sequences

CONSTANTS
    None,         \* "no value" of a job field
    NotebookId,   \* the notebook, as the subject of a purge
    Switchers,    \* concurrent set_notebook_embedding_model commands
    PdfSources,   \* sources of kind PDF: ingested through a building table
    Indexed0,     \* sources an earlier session has left indexed
    MaxHash,      \* bound: distinct contents a source may have
    QueueCap,     \* ENRICHMENT_QUEUE_CAPACITY
    MaxCrashes,   \* bound: process deaths
    Ops,          \* what users and the environment do in this instance
    Fallible      \* steps at which a database, store or model call may fail

ASSUME JobAssumption ==
    /\ PdfSources \subseteq Sources /\ Indexed0 \subseteq Sources
    /\ None \notin Sources \cup TableIds \cup Coords
    /\ NotebookId \notin Sources \cup {None}
    /\ MaxHash \in Nat /\ QueueCap \in Nat /\ MaxCrashes \in Nat
    /\ (Indexed0 # {} => MaxVer > 0 /\ MaxHash > 0)
    /\ Switchers \cap {"ingest", "enrich", "purge", "free"} = {}

VARIABLES
    up,        \* "up", "down", or the start-up step that is next
    crashes,   \* process deaths so far
    nb,        \* the notebook row: "live", "trashed" or "gone"
    model,     \* the coordinate the notebook row configures
    src,       \* the sources rows
    lock,      \* who holds ingest_lock
    waiting,   \* sources whose ingest_source call waits for the lock
    job,       \* the state of each actor that writes the index
    queue,     \* the enrichment channel
    purge,     \* the purge_source or purge_notebook call under way
    torn       \* history: purge_notebook has dropped tables of a live registry

engineVars == <<up, crashes, nb, model, src, lock, waiting, job, queue, purge, torn>>
vars == <<storeVars, engineVars>>

Actors == {"ingest", "enrich"} \cup Switchers

SourceStatus ==
    {"queued", "parsing", "embedding", "indexed", "error", "needs_js", "gone"}
EnrichmentStatus == {"none", "pending", "enriching", "enriched", "failed", "skipped"}

\* A sources row: lifecycle, trashed_at, whether it has chunks and which
\* chunking they are, whether they carry embedding_text, content_hash, and
\* the content the persisted enrichment cache key was computed from.
SourceRow == [st : SourceStatus, trash : BOOLEAN, enr : EnrichmentStatus,
              chunks : BOOLEAN, ver : 0 .. MaxVer, ctx : BOOLEAN,
              hash : 0 .. MaxHash, key : 0 .. MaxHash]

StepNames ==
    {"idle", "load", "park_rows", "park_status", "wipe", "chunks", "reset", "embed", "ensure",
     "ensure_row", "append", "sweep", "sweep_rows", "pick", "create", "register",
     "seed", "add", "lock", "flip", "drop", "drop_row", "retire", "finish",
     "map", "persist", "meta", "relist", "coord", "set", "attempt", "snapshot",
     "coords", "sources"}

Job == [pc : StepNames, s : Sources \cup {None}, t : TableIds \cup {None},
        old : SUBSET TableIds, coords : SUBSET Coords, todo : SUBSET Sources,
        new : SUBSET Row, key : 0 .. MaxHash, want : Coords \cup {None}, prior : Coords \cup {None}]

Idle == [pc |-> "idle", s |-> None, t |-> None, old |-> {}, coords |-> {},
         todo |-> {}, new |-> {}, key |-> 0, want |-> None, prior |-> None]

NoPurge == [pc |-> "idle", s |-> None, left |-> {}]

TypeOK ==
    /\ StoreTypeOK
    /\ up \in {"up", "down", "gc_unregistered", "gc_tables", "gc_rows"}
    /\ crashes \in 0 .. MaxCrashes
    /\ nb \in {"live", "trashed", "gone"}
    /\ model \in Coords
    /\ src \in [Sources -> SourceRow]
    /\ lock \in Actors \cup {"free", "purge"}
    /\ waiting \subseteq Sources
    /\ job \in [Actors -> Job]
    /\ queue \in Seq(Sources) /\ Len(queue) <= QueueCap
    /\ purge \in [pc : {"idle", "wait", "drop", "vectors", "delete"},
                  s : Sources \cup {None, NotebookId}, left : SUBSET Coords]
    /\ torn \in BOOLEAN

Fresh == [st |-> "queued", trash |-> FALSE, enr |-> "none", chunks |-> FALSE,
          ver |-> 0, ctx |-> FALSE, hash |-> 0, key |-> 0]
Settled == [Fresh EXCEPT !.st = "indexed", !.chunks = TRUE, !.ver = 1, !.hash = 1]

RawRow(s, v) == [src |-> s, ver |-> v, kind |-> "raw"]

Init ==
    /\ model \in Coords
    /\ IF Indexed0 = {}
       THEN StoreInit
       ELSE /\ registry = {<<<<model, 0>>, "active">>}
            /\ phys = {<<model, 0>>}
            /\ rows = [t \in TableIds |->
                         IF t \in phys THEN {RawRow(s, 1) : s \in Indexed0} ELSE {}]
    /\ src = [s \in Sources |-> IF s \in Indexed0 THEN Settled ELSE Fresh]
    /\ up = "up" /\ crashes = 0 /\ nb = "live"
    /\ lock = "free" /\ waiting = {}
    /\ job = [a \in Actors |-> Idle]
    /\ queue = <<>>
    /\ purge = NoPurge /\ torn = FALSE

-----------------------------------------------------------------------------
(* Vocabulary of the steps *)

At(a, pc) == up = "up" /\ job[a].pc = pc
Goto(a, pc) == job' = [job EXCEPT ![a].pc = pc]
Leave(a) == job' = [job EXCEPT ![a] = Idle]
Present(s) == src[s].st # "gone"
Enqueued(s) == IF Len(queue) < QueueCap THEN Append(queue, s) ELSE queue

\* A call at the current step may fail where the instance lets it.
MayFail(a) == job[a].pc \in Fallible

\* The failures the store itself reports: the name was taken since it was
\* picked, the notebook row is gone, the table or the building row was swept.
StoreRefuses(a) ==
    LET t == job[a].t IN
    \/ job[a].pc = "create" /\ t \in phys
    \/ job[a].pc = "register" /\ nb = "gone"
    \/ job[a].pc = "seed" /\ Open(t[1]) # {} /\ t \notin phys
    \/ job[a].pc = "add" /\ t \notin phys
    \/ job[a].pc = "flip" /\ <<t, "building">> \notin registry
    \/ job[a].pc = "coord" /\ nb = "gone"
    \/ job[a].pc = "set" /\ nb # "live"
    \/ a \in Switchers /\ nb = "gone" /\ job[a].pc = "snapshot"
    \/ a \in Switchers /\ nb = "gone" /\ job[a].pc = "lock" /\ lock = "free"

\* What no step of an actor's own touches.
Steady == UNCHANGED <<up, crashes, nb, torn, purge>>
\* A step that only advances a job (and the store, as it says).
Internal == Steady /\ UNCHANGED <<model, src, lock, waiting, queue>>

-----------------------------------------------------------------------------
(* Building a table and flipping it active: the calls that ingest of a PDF, *)
(* enrichment and the model switch have in common.                          *)

PickGen(a) ==
    /\ At(a, "pick")
    /\ \E g \in 1 .. MaxGen :
         /\ IsNextGen(job[a].t[1], g)
         /\ job' = [job EXCEPT ![a].t = <<@[1], g>>, ![a].pc = "create"]
    /\ Internal /\ UNCHANGED storeVars

CreateTable(a) ==
    /\ At(a, "create") /\ ~StoreRefuses(a)
    /\ CreateEmpty(job[a].t)
    /\ Goto(a, "register")
    /\ Internal /\ UNCHANGED registry

RegisterBuilding(a) ==
    /\ At(a, "register") /\ ~StoreRefuses(a)
    /\ Register(job[a].t, "building")
    /\ Goto(a, IF a \in Switchers THEN "add" ELSE "seed")
    /\ Internal /\ UNCHANGED <<phys, rows>>

\* Mutant: a building table that starts empty.
Seed_Nothing(a) ==
    /\ At(a, "seed")
    /\ Goto(a, "add")
    /\ Internal /\ UNCHANGED storeVars

Seed(a) ==
    /\ At(a, "seed") /\ ~StoreRefuses(a)
    /\ IF Open(job[a].t[1]) = {}
       THEN UNCHANGED <<phys, rows>>
       ELSE SeedFromActive(job[a].t, job[a].s)
    /\ Goto(a, "add")
    /\ Internal /\ UNCHANGED registry

Populate(a) ==
    /\ At(a, "add") /\ ~StoreRefuses(a)
    /\ AddRows(job[a].t, job[a].new)
    /\ Goto(a, IF a = "ingest" THEN "flip" ELSE "lock")
    /\ Internal /\ UNCHANGED registry

\* The SQLite transaction of flip_active; the old table is dropped after it.
Flip(a) ==
    /\ At(a, "flip") /\ ~StoreRefuses(a)
    /\ FlipTxn(job[a].t)
    /\ job' = [job EXCEPT ![a].old = ActiveTables(job[a].t[1]), ![a].pc = "drop"]
    /\ Internal /\ UNCHANGED <<phys, rows>>

DropStale(a) ==
    /\ At(a, "drop")
    /\ DropTables(job[a].old)
    /\ Goto(a, "drop_row")
    /\ Internal /\ UNCHANGED registry

\* enrichment's lock window ends here; the switch goes on to retire.
DropStaleRow(a) ==
    /\ At(a, "drop_row")
    /\ DeleteRowsByTable(job[a].old)
    /\ job' = [job EXCEPT ![a].old = {},
                          ![a].pc = IF a \in Switchers THEN "retire" ELSE "finish"]
    /\ lock' = IF a = "enrich" THEN "free" ELSE lock
    /\ Steady /\ UNCHANGED <<phys, rows, model, src, waiting, queue>>

-----------------------------------------------------------------------------
(* ingest_source and retry_source *)

\* The bound MaxVer: an indexed source may always be ingested again, for its
\* content can be unchanged.
CanRechunk(s) == src[s].st \in {"indexed", "gone"} \/ src[s].ver < MaxVer

\* ingest_source is called for a source that the caller has seen.
CallIngest(s) ==
    /\ up = "up" /\ "ingest" \in Ops /\ Present(s) /\ s \notin waiting
    /\ CanRechunk(s)
    /\ waiting' = waiting \cup {s}
    /\ Steady /\ UNCHANGED <<storeVars, model, src, lock, job, queue>>

RetrySource(s) ==
    /\ up = "up"
    /\ src[s].st = "error" /\ ~src[s].trash
    /\ CanRechunk(s)
    /\ src' = [src EXCEPT ![s].st = "parsing"]
    /\ waiting' = waiting \cup {s}
    /\ Steady /\ UNCHANGED <<storeVars, model, lock, job, queue>>

IngestAcquire(s) ==
    /\ up = "up" /\ lock = "free" /\ s \in waiting /\ CanRechunk(s)
    /\ lock' = "ingest"
    /\ waiting' = waiting \ {s}
    /\ job' = [job EXCEPT !["ingest"] = [Idle EXCEPT !.pc = "load", !.s = s]]
    /\ Steady /\ UNCHANGED <<storeVars, model, src, queue>>

\* Ok(()) of run_ingest: the permit is dropped, then enrichment is enqueued.
IngestOk(s, row) ==
    /\ src' = [src EXCEPT ![s] = row]
    /\ lock' = "free"
    /\ Leave("ingest")
    /\ queue' = Enqueued(s)
    /\ Steady /\ UNCHANGED <<model, waiting>>

\* The source was purged while the call waited: there is no row to mark.
IngestMissing ==
    /\ At("ingest", "load") /\ ~Present(job["ingest"].s)
    /\ lock' = "free" /\ Leave("ingest")
    /\ Steady /\ UNCHANGED <<storeVars, model, src, waiting, queue>>

IngestUnchanged ==
    LET s == job["ingest"].s IN
    /\ At("ingest", "load") /\ src[s].st = "indexed"
    /\ src[s].hash \in 1 .. MaxHash
    /\ IngestOk(s, src[s]) /\ UNCHANGED storeVars

\* A media ingest cancelled before anything is indexed.
IngestCancelled ==
    LET s == job["ingest"].s IN
    /\ At("ingest", "load") /\ Present(s) /\ "cancel" \in Ops
    /\ src' = [src EXCEPT ![s].st = "queued"]
    /\ lock' = "free" /\ Leave("ingest")
    /\ Steady /\ UNCHANGED <<storeVars, model, waiting, queue>>

\* set_terminal_pending (needs_ocr, needs_js, render_failed): vectors first,
\* then the chunks, then the status.
IngestParkWipe ==
    LET s == job["ingest"].s IN
    /\ At("ingest", "load") /\ Present(s) /\ "park" \in Ops
    /\ DropSource({model}, s)
    /\ Goto("ingest", "park_rows")
    /\ Internal /\ UNCHANGED registry

IngestParkRows ==
    LET s == job["ingest"].s IN
    /\ At("ingest", "park_rows")
    /\ src' = [src EXCEPT ![s].chunks = FALSE]
    /\ Goto("ingest", "park_status")
    /\ Steady /\ UNCHANGED <<storeVars, model, lock, waiting, queue>>

IngestParkStatus ==
    LET s == job["ingest"].s IN
    /\ At("ingest", "park_status")
    /\ IngestOk(s, [src[s] EXCEPT !.st = "needs_js"]) /\ UNCHANGED storeVars

\* Mutant: the wipe begins while the row still says indexed.
IngestParse_KeepsStatus ==
    LET s == job["ingest"].s IN
    /\ At("ingest", "load") /\ Present(s) /\ src[s].ver < MaxVer
    /\ \E h \in 1 .. MaxHash :
         job' = [job EXCEPT !["ingest"].pc = "wipe", !["ingest"].key = h,
                            !["ingest"].t = <<model, 0>>]
    /\ Internal /\ UNCHANGED storeVars

\* Content h was read; the coordinate is resolved once, and the status is
\* transient before the wipe.
IngestParse ==
    LET s == job["ingest"].s IN
    /\ At("ingest", "load") /\ Present(s) /\ src[s].ver < MaxVer
    /\ \E h \in 1 .. MaxHash :
         /\ ~(src[s].st = "indexed" /\ src[s].hash = h)
         /\ job' = [job EXCEPT !["ingest"].pc = "wipe", !["ingest"].key = h,
                               !["ingest"].t = <<model, 0>>]
    /\ src' = [src EXCEPT ![s].st = "parsing"]
    /\ Steady /\ UNCHANGED <<storeVars, model, lock, waiting, queue>>

\* Mutant: the old vectors are not dropped.
IngestWipe_Skipped ==
    /\ At("ingest", "wipe")
    /\ Goto("ingest", "chunks")
    /\ Internal /\ UNCHANGED storeVars

IngestWipe ==
    /\ At("ingest", "wipe")
    /\ DropSource({job["ingest"].t[1]}, job["ingest"].s)
    /\ Goto("ingest", "chunks")
    /\ Internal /\ UNCHANGED registry

\* The transaction that replaces the chunks (of an empty source by none) ...
IngestChunks ==
    LET s == job["ingest"].s IN
    /\ At("ingest", "chunks") /\ src[s].ver < MaxVer
    /\ \E nonEmpty \in {TRUE} \cup (IF "empty" \in Ops THEN {FALSE} ELSE {}) :
         src' = [src EXCEPT ![s].chunks = nonEmpty, ![s].ver = @ + 1, ![s].ctx = FALSE]
    /\ Goto("ingest", "reset")
    /\ Steady /\ UNCHANGED <<storeVars, model, lock, waiting, queue>>

\* ... and, as a write of its own, enrichment_status := none.
IngestReset ==
    LET s == job["ingest"].s IN
    /\ At("ingest", "reset")
    /\ src' = [src EXCEPT ![s].enr = "none"]
    /\ Goto("ingest", "embed")
    /\ Steady /\ UNCHANGED <<storeVars, model, lock, waiting, queue>>

IngestEmpty ==
    LET s == job["ingest"].s IN
    /\ At("ingest", "embed") /\ ~src[s].chunks
    /\ IngestOk(s, [src[s] EXCEPT !.st = "indexed", !.hash = job["ingest"].key])
    /\ UNCHANGED storeVars

IngestEmbed ==
    LET s == job["ingest"].s IN
    /\ At("ingest", "embed") /\ src[s].chunks
    /\ src' = [src EXCEPT ![s].st = "embedding"]
    /\ job' = [job EXCEPT !["ingest"].new = {RawRow(s, src[s].ver)},
                          !["ingest"].pc = IF s \in PdfSources THEN "sweep" ELSE "ensure"]
    /\ Steady /\ UNCHANGED <<storeVars, model, lock, waiting, queue>>

\* ensure_table: the active table, recreated under its registered name when it
\* is missing, or the formula name when the coordinate has no active row.
IngestEnsureTable ==
    LET c == job["ingest"].t[1] IN
    /\ At("ingest", "ensure")
    /\ \/ \E t \in ActiveTables(c) :
            /\ CreateEmpty(t)
            /\ job' = [job EXCEPT !["ingest"].t = t, !["ingest"].pc = "append"]
       \/ /\ ActiveTables(c) = {}
          /\ CreateEmpty(<<c, 0>>)
          /\ Goto("ingest", "ensure_row")
    /\ Internal /\ UNCHANGED registry

IngestEnsureRow ==
    /\ At("ingest", "ensure_row")
    /\ Register(job["ingest"].t, "active")
    /\ Goto("ingest", "append")
    /\ Internal /\ UNCHANGED <<phys, rows>>

IngestAppend ==
    /\ At("ingest", "append")
    /\ AddRows(job["ingest"].t, job["ingest"].new)
    /\ Goto("ingest", "finish")
    /\ Internal /\ UNCHANGED registry

\* sweep_orphan_building_tables: the tables of the building rows it read ...
IngestSweep ==
    LET c == job["ingest"].t[1] IN
    /\ At("ingest", "sweep")
    /\ DropTables(BuildingTables(c))
    /\ Goto("ingest", IF BuildingTables(c) = {} THEN "pick" ELSE "sweep_rows")
    /\ Internal /\ UNCHANGED registry

\* ... then every building row the coordinate has by now.
IngestSweepRows ==
    /\ At("ingest", "sweep_rows")
    /\ DeleteBuildingRows(job["ingest"].t[1])
    /\ Goto("ingest", "pick")
    /\ Internal /\ UNCHANGED <<phys, rows>>

IngestFinish ==
    LET s == job["ingest"].s IN
    /\ At("ingest", "finish")
    /\ IngestOk(s, [src[s] EXCEPT !.st = "indexed", !.hash = job["ingest"].key])
    /\ UNCHANGED storeVars

\* Mutant: the permit is not returned on the error path.
IngestFail_KeepsPermit ==
    LET s == job["ingest"].s IN
    /\ up = "up" /\ job["ingest"].pc # "idle" /\ Present(s)
    /\ MayFail("ingest") \/ StoreRefuses("ingest")
    /\ src' = [src EXCEPT ![s].st = "error"]
    /\ Leave("ingest")
    /\ Steady /\ UNCHANGED <<storeVars, model, lock, waiting, queue>>

\* Any other error: status error, permit dropped, nothing enqueued.
IngestFail ==
    LET s == job["ingest"].s IN
    /\ up = "up" /\ job["ingest"].pc # "idle" /\ Present(s)
    /\ MayFail("ingest") \/ StoreRefuses("ingest")
    /\ src' = [src EXCEPT ![s].st = "error"]
    /\ lock' = "free" /\ Leave("ingest")
    /\ Steady /\ UNCHANGED <<storeVars, model, waiting, queue>>

-----------------------------------------------------------------------------
(* The enrichment worker: process_job and reembed_and_flip *)

Marked(s, e) == [src EXCEPT ![s].enr = IF Present(s) THEN e ELSE @]
EnrichIdle == job["enrich"].pc = "idle" /\ up = "up" /\ queue # <<>>
CacheHit(s) == src[s].enr = "enriched" /\ src[s].key = src[s].hash

\* Disabled, purged, already being enriched, or enriched from this content.
EnrichSkip ==
    LET s == Head(queue) IN
    /\ EnrichIdle
    /\ "enrich" \notin Ops \/ ~Present(s) \/ src[s].enr = "enriching" \/ CacheHit(s)
    /\ queue' = Tail(queue)
    /\ Steady /\ UNCHANGED <<storeVars, model, src, lock, waiting, job>>

EnrichRuns(s) ==
    "enrich" \in Ops /\ Present(s) /\ src[s].enr # "enriching" /\ ~CacheHit(s)

\* preflight_enrichment_provider found a model that cannot work.
EnrichPreflightFail ==
    LET s == Head(queue) IN
    /\ EnrichIdle /\ EnrichRuns(s) /\ "preflight" \in Ops
    /\ src' = [src EXCEPT ![s].enr = "failed", ![s].key = 0]
    /\ queue' = Tail(queue)
    /\ Steady /\ UNCHANGED <<storeVars, model, lock, waiting, job>>

EnrichStart ==
    LET s == Head(queue) IN
    /\ EnrichIdle /\ EnrichRuns(s)
    /\ src' = Marked(s, "enriching")
    /\ queue' = Tail(queue)
    /\ job' = [job EXCEPT !["enrich"] =
                 [Idle EXCEPT !.pc = "map", !.s = s, !.key = src[s].hash]]
    /\ Steady /\ UNCHANGED <<storeVars, model, lock, waiting>>

\* The job ends in one of its early returns.
EnrichReturn(row) ==
    /\ src' = [src EXCEPT ![job["enrich"].s] = row]
    /\ Leave("enrich")
    /\ Steady /\ UNCHANGED <<storeVars, model, lock, waiting, queue>>

\* Purged since (re-checked before each phase): nothing is written.
EnrichDropped ==
    LET s == job["enrich"].s IN
    /\ At("enrich", "map") \/ At("enrich", "persist") \/ At("enrich", "meta")
    /\ ~Present(s)
    /\ EnrichReturn(src[s])

\* No chunks, or no reachable provider.
EnrichDegrade ==
    LET s == job["enrich"].s IN
    /\ At("enrich", "map") /\ Present(s)
    /\ ~src[s].chunks \/ "offline" \in Ops
    /\ EnrichReturn([src[s] EXCEPT !.enr = "pending"])

\* Not prose or too small: a prefix on the chunks, no re-embedding.
EnrichPrefixOnly ==
    LET s == job["enrich"].s IN
    /\ At("enrich", "map") /\ Present(s) /\ src[s].chunks /\ "small" \in Ops
    /\ EnrichReturn([src[s] EXCEPT !.enr = "skipped", !.ctx = TRUE,
                                   !.key = job["enrich"].key])

\* The structural map, coref and relations calls ran on the chunks just read.
EnrichMap ==
    LET s == job["enrich"].s IN
    /\ At("enrich", "map") /\ Present(s) /\ src[s].chunks
    /\ job' = [job EXCEPT !["enrich"].new = {[RawRow(s, src[s].ver) EXCEPT !.kind = "ctx"]},
                          !["enrich"].pc = "persist"]
    /\ Internal /\ UNCHANGED storeVars

\* write_enrichment_and_graph, one transaction.  If the chunks that were read are
\* no longer there, it updates none, or the graph's foreign keys refuse it.
Reread(s) == \A r \in job["enrich"].new : r.ver = src[s].ver
EnrichPersist ==
    LET s == job["enrich"].s IN
    /\ At("enrich", "persist") /\ Present(s)
    /\ src' = [src EXCEPT ![s].ctx = @ \/ Reread(s)]
    /\ Goto("enrich", "meta")
    /\ Steady /\ UNCHANGED <<storeVars, model, lock, waiting, queue>>

\* persist_meta, with the cache key, after a look whether the source is there.
EnrichMeta ==
    LET s == job["enrich"].s IN
    /\ At("enrich", "meta") /\ Present(s)
    /\ src' = [src EXCEPT ![s].key = job["enrich"].key, ![s].enr = "enriching"]
    /\ Goto("enrich", "relist")
    /\ Steady /\ UNCHANGED <<storeVars, model, lock, waiting, queue>>

\* reembed_and_flip embeds the chunks there are now; without any it is done.
EnrichRelist ==
    LET s == job["enrich"].s IN
    /\ At("enrich", "relist")
    /\ IF src[s].chunks
       THEN /\ job' = [job EXCEPT !["enrich"].pc = "coord",
                 !["enrich"].new = {[RawRow(s, src[s].ver) EXCEPT
                                       !.kind = IF src[s].ctx THEN "ctx" ELSE "raw"]}]
            /\ UNCHANGED src
       ELSE Leave("enrich") /\ src' = Marked(s, "enriched")
    /\ Steady /\ UNCHANGED <<storeVars, model, lock, waiting, queue>>

EnrichCoord ==
    /\ At("enrich", "coord") /\ ~StoreRefuses("enrich")
    /\ job' = [job EXCEPT !["enrich"].pc = "pick", !["enrich"].t = <<model, 0>>]
    /\ Internal /\ UNCHANGED storeVars

\* Mutant: the flip without the lock.
EnrichLock_Unlocked ==
    /\ At("enrich", "lock") /\ lock = "free"
    /\ Goto("enrich", "flip")
    /\ Internal /\ UNCHANGED storeVars

\* The flip-only lock window; a purged source skips the flip and leaves its
\* building table to the start-up GC.
EnrichLock ==
    /\ At("enrich", "lock") /\ lock = "free"
    /\ IF Present(job["enrich"].s)
       THEN lock' = "enrich" /\ Goto("enrich", "flip")
       ELSE lock' = "free" /\ Leave("enrich")
    /\ Steady /\ UNCHANGED <<storeVars, model, src, waiting, queue>>

EnrichFinish ==
    /\ At("enrich", "finish")
    /\ src' = Marked(job["enrich"].s, "enriched")
    /\ Leave("enrich")
    /\ Steady /\ UNCHANGED <<storeVars, model, lock, waiting, queue>>

\* The budget is exceeded or the LLM errs: failed, raw vectors untouched.
EnrichLlmFail ==
    LET s == job["enrich"].s IN
    /\ At("enrich", "map") /\ Present(s) /\ src[s].chunks /\ "llm_error" \in Ops
    /\ EnrichReturn([src[s] EXCEPT !.enr = "failed", !.key = job["enrich"].key])

\* A database error before the re-embed leaves process_job by `?`: the worker
\* logs it and the status stays as it is.
EnrichAbort ==
    /\ At("enrich", "map") \/ At("enrich", "persist") \/ At("enrich", "meta")
    /\ MayFail("enrich") \/ (job["enrich"].pc = "persist" /\ ~Reread(job["enrich"].s))
    /\ EnrichReturn(src[job["enrich"].s])

\* reembed_and_flip returned an error: failed, if that can be written.
EnrichFail ==
    /\ up = "up" /\ job["enrich"].pc \notin {"idle", "map", "persist", "meta"}
    /\ MayFail("enrich") \/ StoreRefuses("enrich")
    /\ \/ src' = Marked(job["enrich"].s, "failed")
       \/ "failed" \in Fallible /\ UNCHANGED src
    /\ lock' = IF lock = "enrich" THEN "free" ELSE lock
    /\ Leave("enrich")
    /\ Steady /\ UNCHANGED <<storeVars, model, waiting, queue>>

\* rebuild_enrichment_queue: every indexed, live source whose enrichment is not
\* done is sent, in any order; what does not fit is dropped.
Unenriched == {s \in Sources : /\ src[s].st = "indexed" /\ ~src[s].trash
                               /\ src[s].enr \in {"none", "pending", "failed"}}
RebuildQueue(rest) ==
    \E n \in 0 .. QueueCap : \E q \in [1 .. n -> Unenriched] :
        /\ \A i, j \in 1 .. n : i # j => q[i] # q[j]
        /\ Len(rest) + n <= QueueCap
        /\ Len(rest) + n = QueueCap \/ \A s \in Unenriched : \E i \in 1 .. n : q[i] = s
        /\ queue' = rest \o q

\* rescan_enrichment_on_provider_change, with a provider installed.
RescanEnrichment ==
    /\ up = "up" /\ "rescan" \in Ops
    /\ RebuildQueue(queue)
    /\ Steady /\ UNCHANGED <<storeVars, model, src, lock, waiting, job>>

-----------------------------------------------------------------------------
(* set_notebook_embedding_model: the command moves the pointer, then runs   *)
(* reembed_notebook.                                                        *)

\* `prior` is what the pointer names when the command begins ...
SwitchCall(a, c) ==
    /\ At(a, "idle") /\ nb = "live" /\ "switch" \in Ops
    /\ job' = [job EXCEPT ![a] = [Idle EXCEPT !.pc = "set", !.want = c, !.prior = model]]
    /\ Internal /\ UNCHANGED storeVars

SwitchSet(a) ==
    /\ At(a, "set") /\ ~StoreRefuses(a)
    /\ model' = job[a].want
    /\ Goto(a, "attempt")
    /\ Steady /\ UNCHANGED <<storeVars, src, lock, waiting, queue>>

\* ... and `attempted` what it names after the update, by whomever.  A read that
\* fails leaves None, and nothing will be rolled back.
SwitchAttempt(a) ==
    /\ At(a, "attempt")
    /\ \E c \in {model} \cup (IF nb = "gone" \/ MayFail(a) THEN {None} ELSE {}) :
         job' = [job EXCEPT ![a].pc = "snapshot", ![a].want = c]
    /\ Internal /\ UNCHANGED storeVars

\* reembed_notebook resolves the coordinate, ...
SwitchSnapshot(a) ==
    /\ At(a, "snapshot") /\ ~StoreRefuses(a)
    /\ job' = [job EXCEPT ![a].pc = "coords", ![a].t = <<model, 0>>]
    /\ Internal /\ UNCHANGED storeVars

\* ... lists the others that are active, of which there may be none, ...
SwitchCoords(a) ==
    LET old == ActiveCoords \ {job[a].t[1]} IN
    /\ At(a, "coords")
    /\ IF old = {}
       THEN Leave(a)
       ELSE job' = [job EXCEPT ![a].pc = "sources", ![a].coords = old,
                       ![a].todo = {s \in Sources : Present(s) /\ ~src[s].trash}]
    /\ Internal /\ UNCHANGED storeVars

\* ... and the sources; then it reads the chunks, one source after another.
SwitchChunks(a) ==
    /\ At(a, "sources")
    /\ \E s \in job[a].todo :
         job' = [job EXCEPT ![a].todo = @ \ {s},
                   ![a].new = @ \cup (IF src[s].chunks
                                     THEN {[RawRow(s, src[s].ver) EXCEPT
                                              !.kind = IF src[s].ctx THEN "ctx" ELSE "raw"]}
                                     ELSE {})]
    /\ Internal /\ UNCHANGED storeVars

\* Without chunks the index stays as it is.
SwitchRead(a) ==
    /\ At(a, "sources") /\ job[a].todo = {}
    /\ IF job[a].new = {} THEN Leave(a) ELSE Goto(a, "pick")
    /\ Internal /\ UNCHANGED storeVars

\* Under the lock: RaceAborted when the pointer has moved on.
SwitchLock(a) ==
    /\ At(a, "lock") /\ lock = "free" /\ ~StoreRefuses(a)
    /\ IF model = job[a].t[1]
       THEN lock' = a /\ Goto(a, "flip")
       ELSE lock' = "free" /\ Leave(a)
    /\ Steady /\ UNCHANGED <<storeVars, model, src, waiting, queue>>

\* retire_coordinate of one old coordinate; the drops follow.
SwitchRetire(a) ==
    /\ At(a, "retire")
    /\ \E c \in job[a].coords :
         /\ DemoteTxn(c)
         /\ job' = [job EXCEPT ![a].coords = @ \ {c}, ![a].old = ActiveTables(c),
                               ![a].pc = "drop"]
    /\ Internal /\ UNCHANGED <<phys, rows>>

SwitchDone(a) ==
    /\ At(a, "retire") /\ job[a].coords = {}
    /\ lock' = "free" /\ Leave(a)
    /\ Steady /\ UNCHANGED <<storeVars, model, src, waiting, queue>>

\* The command's roll-back of the pointer, unless someone else has moved it; an
\* update that failed is not rolled back.
SwitchFail(a) ==
    /\ up = "up" /\ job[a].pc \notin {"idle", "attempt"}
    /\ MayFail(a) \/ StoreRefuses(a)
    /\ model' = IF job[a].pc # "set" /\ model = job[a].want /\ nb = "live"
                THEN job[a].prior ELSE model
    /\ lock' = IF lock = a THEN "free" ELSE lock
    /\ Leave(a)
    /\ Steady /\ UNCHANGED <<storeVars, src, waiting, queue>>

-----------------------------------------------------------------------------
(* Trash, restore (flags only, no lock) and purge *)

UserOp(op) == up = "up" /\ op \in Ops
FlagOnly == UNCHANGED <<storeVars, up, crashes, model, lock, waiting, job, queue, purge, torn>>

TrashSource(s) ==
    /\ UserOp("trash") /\ Present(s) /\ ~src[s].trash
    /\ src' = [src EXCEPT ![s].trash = TRUE]
    /\ FlagOnly /\ UNCHANGED nb

RestoreSource(s) ==
    /\ UserOp("restore") /\ Present(s) /\ src[s].trash
    /\ src' = [src EXCEPT ![s].trash = FALSE]
    /\ FlagOnly /\ UNCHANGED nb

TrashNotebook ==
    /\ UserOp("purge_nb") /\ nb = "live"
    /\ nb' = "trashed"
    /\ FlagOnly /\ UNCHANGED src

RestoreNotebook ==
    /\ UserOp("restore_nb") /\ nb = "trashed"
    /\ nb' = "live"
    /\ FlagOnly /\ UNCHANGED src

\* A purge touches neither the queue nor any actor's job.
PurgeFrame == UNCHANGED <<up, crashes, model, waiting, job, queue>>

\* The caller asks for what it saw in the trash; the call waits for the lock.
CallPurge(x) ==
    /\ up = "up" /\ purge = NoPurge
    /\ IF x = NotebookId
       THEN "purge_nb" \in Ops /\ nb = "trashed"
       ELSE "purge" \in Ops /\ Present(x) /\ src[x].trash
    /\ purge' = [NoPurge EXCEPT !.pc = "wait", !.s = x]
    /\ PurgeFrame /\ UNCHANGED <<storeVars, nb, src, lock, torn>>

PurgeAcquire ==
    /\ up = "up" /\ purge.pc = "wait" /\ lock = "free"
    /\ IF purge.s # NotebookId /\ ~Present(purge.s)
       THEN purge' = NoPurge /\ lock' = "free"
       ELSE purge' = [purge EXCEPT !.pc = "drop"] /\ lock' = "purge"
    /\ PurgeFrame /\ UNCHANGED <<storeVars, nb, src, torn>>

\* purge_source lists the active coordinates ...
PurgeCoords ==
    /\ up = "up" /\ purge.pc = "drop" /\ purge.s # NotebookId
    /\ purge' = [purge EXCEPT !.pc = "vectors", !.left = ActiveCoords]
    /\ PurgeFrame /\ UNCHANGED <<storeVars, nb, src, lock, torn>>

\* Mutant: a coordinate is passed over.
PurgeSourceVectors_Skipped ==
    /\ up = "up" /\ purge.pc = "vectors"
    /\ \E c \in purge.left : purge' = [purge EXCEPT !.left = @ \ {c}]
    /\ PurgeFrame /\ UNCHANGED <<storeVars, nb, src, lock, torn>>

\* ... drops the source's vectors from one after the other ...
PurgeSourceVectors ==
    /\ up = "up" /\ purge.pc = "vectors"
    /\ \E c \in purge.left :
         /\ DropSource({c}, purge.s)
         /\ purge' = [purge EXCEPT !.left = @ \ {c}]
    /\ PurgeFrame /\ UNCHANGED <<registry, nb, src, lock, torn>>

\* ... and then its row: DELETE ... WHERE trashed_at IS NOT NULL, refused when
\* the source was restored.
PurgeSourceRow ==
    LET s == purge.s IN
    /\ up = "up" /\ purge.pc = "vectors" /\ purge.left = {}
    /\ src' = IF src[s].trash THEN [src EXCEPT ![s] = [Fresh EXCEPT !.st = "gone"]] ELSE src
    /\ purge' = NoPurge /\ lock' = "free"
    /\ PurgeFrame /\ UNCHANGED <<storeVars, nb, torn>>

\* A step of a purge fails: what it has dropped stays dropped.
PurgeFail ==
    /\ up = "up" /\ purge.pc \in {"drop", "vectors", "delete"} /\ "purge" \in Fallible
    /\ purge' = NoPurge /\ lock' = "free"
    /\ PurgeFrame /\ UNCHANGED <<storeVars, nb, src, torn>>

\* drop_notebook_tables: every table the registry names for the notebook.
PurgeNotebookTables ==
    /\ up = "up" /\ purge.pc = "drop" /\ purge.s = NotebookId
    /\ DropTables(Registered)
    /\ torn' = TRUE
    /\ purge' = [purge EXCEPT !.pc = "delete"]
    /\ PurgeFrame /\ UNCHANGED <<registry, nb, src, lock>>

\* The delete cascades to sources and embedding_index; a restored notebook
\* refuses it.
PurgeNotebookRow ==
    /\ up = "up" /\ purge.pc = "delete" /\ purge.s = NotebookId
    /\ IF nb = "trashed"
       THEN /\ nb' = "gone" /\ registry' = {}
            /\ src' = [s \in Sources |-> [Fresh EXCEPT !.st = "gone"]]
       ELSE UNCHANGED <<nb, registry, src>>
    /\ purge' = NoPurge /\ lock' = "free"
    /\ PurgeFrame /\ UNCHANGED <<phys, rows, torn>>

-----------------------------------------------------------------------------
(* Process death, and LensEngine::init *)

Crash ==
    /\ up # "down" /\ crashes < MaxCrashes
    /\ up' = "down" /\ crashes' = crashes + 1
    /\ lock' = "free" /\ waiting' = {} /\ queue' = <<>> /\ purge' = NoPurge
    /\ job' = [a \in Actors |-> Idle]
    /\ UNCHANGED <<storeVars, nb, model, src, torn>>

\* Mutant: only the ingest status is recovered.
Recovered_StatusOnly(r) ==
    [r EXCEPT !.st = IF r.st \in {"parsing", "embedding"} THEN "error" ELSE r.st]

\* Mutant: one of the two transient statuses is forgotten.
Recovered_ParsingOnly(r) ==
    [r EXCEPT !.st = IF r.st = "parsing" THEN "error" ELSE r.st,
              !.enr = IF r.enr = "enriching" THEN "pending" ELSE r.enr]

\* Transient statuses become error; enriching becomes pending.
Recovered(r) ==
    [r EXCEPT !.st = IF r.st \in {"parsing", "embedding"} THEN "error" ELSE r.st,
              !.enr = IF r.enr = "enriching" THEN "pending" ELSE r.enr]

Starting == UNCHANGED <<crashes, nb, model, lock, waiting, job, purge, torn>>

RecoverStatuses ==
    /\ up = "down"
    /\ up' = "gc_unregistered"
    /\ src' = [s \in Sources |-> Recovered(src[s])]
    /\ Starting /\ UNCHANGED <<storeVars, queue>>

\* Mutant: a sweep that takes building rows for the whole registry.
GcUnregistered_WrongQuery ==
    /\ up = "gc_unregistered"
    /\ DropTables(phys \ WithStatus("building"))
    /\ up' = "gc_tables"
    /\ Starting /\ UNCHANGED <<registry, src, queue>>

\* gc_unregistered_vec_tables, with its floor: an empty registry beside an
\* existing notebook sweeps nothing.
GcUnregistered ==
    /\ up = "gc_unregistered"
    /\ IF registry = {} /\ nb # "gone"
       THEN UNCHANGED <<phys, rows>>
       ELSE DropTables(phys \ Registered)
    /\ up' = "gc_tables"
    /\ Starting /\ UNCHANGED <<registry, src, queue>>

GcTables ==
    /\ up = "gc_tables"
    /\ DropTables(WithStatus("building") \cup WithStatus("stale"))
    /\ up' = "gc_rows"
    /\ Starting /\ UNCHANGED <<registry, src, queue>>

\* Mutant: rows of dropped stale tables survive.
GcRows_BuildingOnly ==
    /\ up = "gc_rows"
    /\ registry' = {r \in registry : r[2] # "building"}
    /\ up' = "up"
    /\ RebuildQueue(<<>>)
    /\ Starting /\ UNCHANGED <<phys, rows, src>>

\* The last registry step; then the workers start and the queue is rebuilt.
GcRows ==
    /\ up = "gc_rows"
    /\ registry' = {r \in registry : r[2] = "active"}
    /\ up' = "up"
    /\ RebuildQueue(<<>>)
    /\ Starting /\ UNCHANGED <<phys, rows, src>>

\* The GC is best-effort: start-up goes on without it.
GcFail ==
    /\ up \notin {"up", "down"} /\ up \in Fallible
    /\ up' = "up"
    /\ RebuildQueue(<<>>)
    /\ Starting /\ UNCHANGED <<storeVars, src>>

-----------------------------------------------------------------------------
(* The engine *)

Build(a) ==
    \/ PickGen(a) \/ CreateTable(a) \/ RegisterBuilding(a) \/ Seed(a) \/ Populate(a)
    \/ Flip(a) \/ DropStale(a) \/ DropStaleRow(a)

\* What an ingest does once it has the lock.
IngestRun ==
    \/ IngestMissing \/ IngestUnchanged \/ IngestCancelled
    \/ IngestParkWipe \/ IngestParkRows \/ IngestParkStatus
    \/ IngestParse \/ IngestWipe \/ IngestChunks \/ IngestReset \/ IngestEmpty \/ IngestEmbed
    \/ IngestEnsureTable \/ IngestEnsureRow \/ IngestAppend
    \/ IngestSweep \/ IngestSweepRows \/ IngestFinish \/ IngestFail
    \/ Build("ingest")

EnrichRun ==
    \/ EnrichSkip \/ EnrichPreflightFail \/ EnrichStart \/ EnrichDropped \/ EnrichDegrade
    \/ EnrichPrefixOnly \/ EnrichMap \/ EnrichPersist \/ EnrichMeta \/ EnrichRelist
    \/ EnrichCoord \/ EnrichFinish
    \/ EnrichLlmFail \/ EnrichAbort \/ EnrichFail
    \/ Build("enrich")

SwitchRun(a) ==
    \/ SwitchSet(a) \/ SwitchAttempt(a) \/ SwitchSnapshot(a) \/ SwitchCoords(a)
    \/ SwitchChunks(a) \/ SwitchRead(a) \/ SwitchRetire(a) \/ SwitchDone(a) \/ SwitchFail(a)
    \/ Build(a)

PurgeRun ==
    \/ PurgeCoords \/ PurgeSourceVectors \/ PurgeSourceRow
    \/ PurgeNotebookTables \/ PurgeNotebookRow \/ PurgeFail

StartUp == RecoverStatuses \/ GcUnregistered \/ GcTables \/ GcRows \/ GcFail

\* Requests: nothing makes a user act.
Request ==
    \/ \E s \in Sources :
         CallIngest(s) \/ RetrySource(s) \/ TrashSource(s) \/ RestoreSource(s)
    \/ \E a \in Switchers, c \in Coords : SwitchCall(a, c)
    \/ \E x \in Sources \cup {NotebookId} : CallPurge(x)
    \/ TrashNotebook \/ RestoreNotebook \/ RescanEnrichment

Acquire ==
    \/ \E s \in Sources : IngestAcquire(s)
    \/ EnrichLock \/ PurgeAcquire
    \/ \E a \in Switchers : SwitchLock(a)

Next ==
    \/ Request \/ Acquire \/ IngestRun \/ EnrichRun \/ PurgeRun
    \/ \E a \in Switchers : SwitchRun(a)
    \/ StartUp \/ Crash

Spec == Init /\ [][Next]_vars

\* The runtime polls every ready task, and a tokio Semaphore serves its waiters
\* in the order they came.
Fairness ==
    /\ WF_vars(IngestRun) /\ WF_vars(EnrichRun) /\ WF_vars(PurgeRun) /\ WF_vars(StartUp)
    /\ \A a \in Switchers : WF_vars(SwitchRun(a)) /\ SF_vars(SwitchLock(a))
    /\ \A s \in Sources : SF_vars(IngestAcquire(s))
    /\ SF_vars(EnrichLock) /\ SF_vars(PurgeAcquire)

FairSpec == Spec /\ Fairness

-----------------------------------------------------------------------------
(* Properties *)

\* Search resolves a coordinate with one fetch_optional on status = 'active'
\* (active_lance_table_name): no interleaving of flips, first registrations and
\* retirements leaves it two rows to choose from.
UniqueActive ==
    \A t, u \in WithStatus("active") : t[1] = u[1] => t = u

\* ensure_table calls an active row without its table "unexpected": only the
\* notebook purge, which drops tables before it deletes their rows, makes one.
\* No crash point of a flip, a retirement, a sweep or the start-up GC does.
ActiveBacked == torn \/ WithStatus("active") \subseteq phys

\* The chunks the source has now can be found through the configured
\* coordinate.
Findable(s) == \E r \in Searchable(model) : r.src = s /\ r.ver = src[s].ver

\* The source is under an ingest that has the lock, or the pointer of a model
\* switch has moved and its flip has not happened yet.
InFlight(s) == job["ingest"].s = s \/ \E a \in Switchers : job[a].pc # "idle"

\* A source that is shown as indexed is searchable: no crash, failure or
\* interleaving leaves an indexed, live source whose vectors are gone.
IndexedFindable ==
    \A s \in Sources :
        src[s].st = "indexed" /\ ~src[s].trash /\ src[s].chunks /\ ~InFlight(s)
            => Findable(s)

\* A purged source leaves no vector behind in a table that search reads
\* (purge_source drops vectors before the row "to prevent orphan Lance rows").
NoPhantom ==
    \A c \in Coords : \A r \in Searchable(c) : Present(r.src)

\* Search never returns a source twice, nor chunk ids of an earlier chunking
\* once its ingest has ended.
OneEmbedding ==
    \A c \in Coords : \A q, r \in Searchable(c) : q.src = r.src => q = r

\* lib.rs, LensEngine: "Trashed-source vectors stay in Lance for
\* restorability": an indexed source in the trash that no purge has taken up
\* still has the vectors of its chunks under some active coordinate.
TrashedRestorable ==
    \A s \in Sources :
        src[s].st = "indexed" /\ src[s].trash /\ src[s].chunks /\ ~InFlight(s)
        /\ purge.s # s
            => \E c \in Coords : \E r \in Searchable(c) : r.src = s /\ r.ver = src[s].ver

\* What LensEngine::init promises to the workers it starts: no transient status
\* survives a process death, no building or stale row and no table without a
\* row, but for what the floor of the sweep spares: it refuses to sweep beside an
\* empty registry of a notebook that exists.
StartClean ==
    /\ \A s \in Sources : src[s].st \notin {"parsing", "embedding"}
                          /\ src[s].enr # "enriching"
    /\ \A r \in registry : r[2] = "active"
    /\ phys \subseteq Registered \/ (registry = {} /\ nb # "gone")
RestartCleans == [][up # "up" /\ up' = "up" => StartClean']_vars

\* reembed.rs, header: "the active table is never mutated" by the lock-free
\* build. Whatever search can read changes only in a step of the lock's holder
\* or while the engine starts.
UnlockedStepsKeepIndex ==
    [][up = "up" /\ lock \notin {"ingest", "purge"}
         /\ ~(lock \in Actors /\ job[lock] # job'[lock])
       => \A c \in Coords : Searchable(c)' = Searchable(c)]_vars

\* A transient status is left: by the ingest that waits for the lock after
\* retry_source set it, by its failure, or by the recovery after a crash.
IngestSettles ==
    \A s \in Sources : src[s].st \in {"parsing", "embedding"}
                          ~> src[s].st \notin {"parsing", "embedding"}

\* notebooks.rs, EnrichmentStatus::Enriching: "The worker is actively enriching this
\* source".  A job that leaves by `?` after it has set the status (EnrichAbort, or
\* EnrichFail when `failed` cannot be written) leaves the source like this until
\* it is ingested again or the application is restarted.
EnrichingIsActive ==
    up = "up" => \A s \in Sources : src[s].enr = "enriching" => job["enrich"].s = s

\* Every job ends, behind ingests, purges and their lock, and by whatever error.
\* Once it has come to the re-embedding, it does not leave its source "enriching":
\* it ends as enriched or failed, or a re-ingest, a purge or the recovery resets
\* the status.  (Before that, it may: EnrichingIsActive.)
EnrichmentSettles ==
    \A s \in Sources :
        /\ job["enrich"].s = s ~> job["enrich"].s # s
        /\ src[s].enr = "enriching" /\ job["enrich"].s = s
           /\ job["enrich"].pc \notin {"map", "persist", "meta"}
             ~> src[s].enr # "enriching" \/ "failed" \in Fallible

-----------------------------------------------------------------------------
(* The inductive invariant behind ActiveBacked.  It needs the clean-up      *)
(* steps to succeed once they are reached: with a failing one a flip, or    *)
(* the start-up GC, meets a row whose table is another's or gone.           *)

NoCleanupFaults ==
    Fallible \cap {"sweep_rows", "drop", "drop_row",
                   "gc_unregistered", "gc_tables", "gc_rows"} = {}

\* The fields of a job that its step relies on.
Untabled == {"idle", "load", "park_rows", "park_status", "map", "persist", "meta",
             "relist", "coord", "set", "attempt", "snapshot"}
JobFields(a, j) ==
    /\ j.pc \notin Untabled => j.t \in TableIds
    /\ a \notin Switchers /\ j.pc # "idle" => j.s \in Sources
    /\ a \in Switchers /\ j.pc # "idle" => j.prior \in Coords
    /\ j.pc = "set" => j.want \in Coords
JobTyped == /\ \A a \in Actors : JobFields(a, job[a])
            /\ purge.pc # "idle" => purge.s # None

\* Steps that only the holder of ingest_lock takes.
Holds(a) == IF a = "ingest" THEN job[a].pc # "idle"
            ELSE job[a].pc \in {"flip", "drop", "drop_row", "retire"}

LockInv ==
    /\ \A a \in Actors : Holds(a) => lock = a
    /\ purge.pc \in {"drop", "vectors", "delete"} => lock = "purge"
    /\ purge.pc = "vectors" => purge.s # NotebookId
    /\ purge.pc = "delete" => purge.s = NotebookId /\ torn
    /\ up # "up" => purge.pc = "idle" /\ \A a \in Actors : job[a].pc = "idle"

\* The sweep has dropped the tables of the building rows it is to delete.
Sweeping(c) == job["ingest"].pc = "sweep_rows" /\ job["ingest"].t[1] = c

\* An active row is the only one of its table; a building row is not of the
\* formula name, and has its table outside a sweep.
RowInv ==
    /\ \A t \in WithStatus("active") :
         t \in phys /\ t \notin WithStatus("building") \cup WithStatus("stale")
    /\ \A t \in WithStatus("building") :
         t[2] # 0 /\ (up = "up" /\ ~Sweeping(t[1]) => t \in phys)

\* A stale row is one that the holder of the lock is about to delete.  Its name
\* is not used again before its table is dropped.
Dropping(a) == job[a].pc \in {"drop", "drop_row"}
StaleInv ==
    /\ up = "up" => \A t \in WithStatus("stale") :
                       \E a \in Actors : Dropping(a) /\ t \in job[a].old
    /\ \A a \in Actors : Dropping(a) => job[a].old \subseteq WithStatus("stale")
    /\ \A a \in Actors : job[a].pc = "drop"
         => job[a].old \subseteq phys /\ job[a].old \cap WithStatus("building") = {}

\* A table between its creation and its registration: a row of its name is left
\* only by a sweep or a drop that has passed the table and will delete the row.
Claimed(t) ==
    /\ t \in phys /\ t \notin WithStatus("active")
    /\ t \in WithStatus("building") => Sweeping(t[1])
    /\ t \in WithStatus("stale") => \A a \in Actors : job[a].pc # "drop"
ClaimInv ==
    /\ \A a \in Actors : job[a].pc \in {"create", "register"} => job[a].t[2] # 0
    /\ \A a \in Actors : job[a].pc = "register" => Claimed(job[a].t)
    /\ \A a, b \in Actors : a # b /\ job[a].pc = "register" /\ job[b].pc = "register"
                               => job[a].t # job[b].t
    /\ job["ingest"].pc \in {"wipe", "chunks", "reset", "embed", "ensure", "ensure_row"}
         => job["ingest"].t[2] = 0
    /\ job["ingest"].pc = "ensure_row"
         => job["ingest"].t \in phys /\ job["ingest"].t \notin Registered

IndexInv == LockInv /\ (~torn => RowInv /\ StaleInv /\ ClaimInv)

=============================================================================
