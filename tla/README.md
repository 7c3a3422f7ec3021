# A TLA+ model of LensLM

LensLM is a desktop notebook application: documents are ingested into a SQLite
database and a Lance vector store, enriched and re-embedded in the background,
and answered from, with spoken overviews made on demand. This project models
the parts of it in which several tasks, two stores, child processes and process
deaths meet, checks them with TLC on small instances, and proves what matters
most for every instance with TLAPS.

## 1. Inventory

| Part | State it keeps | Operations | What is hard | Module |
| --- | --- | --- | --- | --- |
| Vector store and registry (`lens-core/src/vector_store.rs`) | `embedding_index` rows (`active`, `building`, `stale`), tables, vectors | ensure, create building, seed, add, flip, retire, sweep, drop | two stores without a common transaction; names are reused | `VectorIndex` |
| Ingest (`ingest.rs`) | source status, chunks, content hash | ingest, retry, park, cancel, fail | wipe-then-write across stores under `ingest_lock` | `IndexLifecycle` |
| Enrichment (`enrichment/worker.rs`, `reembed.rs`) | bounded queue, enrichment status, cache key | process job, re-embed, flip | builds without the lock, flips with it | `IndexLifecycle` |
| Model switch (`reembed_notebook`, `commands/notebooks.rs`) | the notebook's model pointer | snapshot, build, flip, retire, revert | the pointer moves before the index; switches overlap | `IndexLifecycle` |
| Trash, restore, purge (`lib.rs`, `notebooks.rs`) | `trashed_at`, rows, vectors | trash, restore, purge of sources and notebooks | restore takes no lock | `IndexLifecycle` |
| Start-up (`LensEngine::init`) | – | status recovery, two GC passes, queue rebuild | deletes what it takes for debris | `IndexLifecycle` |
| Cancellation registries (`lib.rs`) | one token per notebook and kind | register, cancel, guard drop | ABA between a guard and a successor | `SingleFlight` |
| Audio overview (`lib.rs`, `audio_overview.rs`, `dialogue.rs`, `tts/`) | `overview.wav`, the `audio_overviews` row | run, stop, report | file and row are two stores; runs overlap | `AudioOverview` |
| Downloads (`download.rs`, `commands/system.rs`) | `.part` files, shared tokens, the file in place | download, resume, verify, install, cancel | resume against a changed body; joined tokens | `ModelFile`, `Download` |
| Relocation (`relocate.rs`, `layout.rs`, `storage.rs`) | data directories, their pointer, the cache root | copy, verify, switch, clean up, offload, boot | a death at any step, writers in flight, absent drives | `Relocation` |
| Chat (`chat-state.svelte.ts`, `ask_notebook`, `answer.rs`, `chat.rs`) | the store's turn, streams, `chat_messages` | send, stop, regenerate, stream, save, mark | late events of superseded streams; saves in flight | `Chat` |
| Qwen sidecar (`src-tauri/src/qwen`, `main.rs`) | warm child, process groups, permits | turn, download, cancel, signal | torn pipes, a future dropped at any await, orphans | `ProcessGroups`, `Sidecar` |
| Entity resolution (`resolution/`) | nodes, aliases, `ent__` tables, channel, locks | trigger, pass, write; jobs and wipes beside it | bounded channel; a lock purged under its holder | `Cascade`, `Resolution` |
| Chunks and outline (`chunk.rs`, `section.rs`) | – | split, overlap, parents, sections | boundaries | `Chunker` |
| Retrieval and answering (`retrieval/`, `answer.rs`, `citation.rs`) | – | scope, tiers, search, fuse, hydrate, cite | sources change between any two reads | `Retrieval`, `Answering` |
| ASR (`transcription.rs`, `asr/`), JS rendering (`render/`) | – | route, fall back, render | timeouts, fallback after partial results | not modelled |
| Configuration, catalog, LLM clients, system check, notes, UI | – | serialise, probe, display | – | not modelled |

Interaction: Tauri commands call `LensEngine`. Ingest sends source ids to the
enrichment worker, and that worker notebook ids to the resolution worker, over
bounded channels (`try_send`, dropped when full). Ingest, flips, retirement,
purges, relocation and offload are serialised by the one-permit semaphore
`ingest_lock`; trash, restore, the pointer of a switch, every build of a table
and a resolution pass are not. Registries of cancel tokens connect a stop button
to a running command. Everything in memory goes with the process; `init` repairs
the rest. `PROJECT.json` lists the hazards of each part at their lines and the
properties that would catch them.

## 2. Modules

In every module an action is the code between two points at which another task
can act, a constant such as `Failing` or `Fallible` names the calls that may fail,
and `Max...` constants bound what would go on for ever. Definitions whose
name ends in a suffix after an underscore (`Seed_Nothing`) are deliberately wrong
variants: each property of a run is shown to fail when one of them replaces the
original. `MC...` modules give the constants their values for TLC; `..._proofs`
hold the theorems.

`VectorIndex` – the store: `registry` (rows as pairs of table and status),
`phys` (tables on disk), `rows` (their vectors), and the store's operations as
operators. A table is a pair of coordinate and generation, generation 0 being
the formula name `table_name`; a vector is a source, the chunking it belongs to
and whether it is raw or contextual.

`IndexLifecycle` (extends it) – the engine around the store. An actor (ingest, the
worker, each switch) is a record with a program counter. Every call that can
fail is a step of its own: whether it does is decided by `Fallible`, what users
do by `Ops`, so one module serves all questions. The building-table steps
(`PickGen` to `DropStaleRow`) are shared by the three callers, as the code shares
them. `Crash` takes everything in memory; `RecoverStatuses`, `GcUnregistered`,
`GcTables`, `GcRows` are `init` in its order. What the code awaits one after the
other is one step each: an ingest's `replace_chunks`, its reset of the enrichment
and its status; a job's persist, its metadata and its second look at the chunks;
the reads of a switch, its old pointer and its new one; a purge, coordinate by
coordinate. `IngestFail`, `EnrichFail`, `EnrichAbort`, `PurgeFail` are their errors. Contents are numbers, a chunking is a
version; `torn` is a history variable that remembers that a notebook purge has
dropped tables whose rows still exist.

`SingleFlight` – one key of a registry of cancel tokens: `slot`, `cancelled`,
`Register`, `CancelSlot`, `Release`. `AudioOverview` and `Chat` extend it.

`AudioOverview` – overlapping `synthesize_overview` commands from the registration
to the drop of the guard, `overview.wav`, the row, and `Reported`, which is
`get_audio_overview_status`. What an overview is about is two things: `chosen`, the
set of selected, live sources, which is all that `source_set_hash` covers
(`raw_content_hash` is fixed when a source is added), and `texts`, what the ingests
that have ended (`IngestEnds`) have made of it.

`ModelFile` – the abstract promise about one artifact: absent or complete; "ok" is
said while it is there; no call is told twice. `Download` implements it: calls
join an `entry` that counts its holders, queue for the `.part` file, ask the server
(`Head`, `Request`, blocks of a body, which may be anything), resume, hash, rename,
retry, while `RemoveCache` and `Crash` come at any time. A file is its length and whether it is
a prefix of the pinned artifact. `KeepsPromise` is the refinement: `present` is
"`dest` is whole", `told` the results of the calls.

`Relocation` – `disk` (what each directory holds), `pointer` (`location.json`), the
`engine` that boots, opens and writes, and the `task` that relocates or offloads.
The copy goes item by item beside writers that hold no lock. `lens.db` is in WAL
mode, so its modification time is that of the last checkpoint, which is what the
clean-up compares. Drives are unmounted and mounted again; an offload from a root whose drive is absent
finds nothing to copy and succeeds, as `copy_cache` does. `late` and `lacking`
are histories of what was saved where the next boot does not look, and what a
directory opened in the absence of the pointer's was without. A move of the cache off an
absent root counts as `late`.

`Chat` – the webview's store (`store`, `settled`, `call`), the commands and their
streams (`run`, both ends of the queue of events), the saves in flight and the
table (`rows`). The webview runs one callback at a time; everything it has sent
is in flight at once. A text is the run that made it and its length in deltas.

`ProcessGroups` – groups with a leader (`uv`) and a worker (Python), and
`SIDECAR_GROUPS`, the list a signal handler kills. `Sidecar` (extends it) – calls of
`synthesize_turn` around the one warm child, with the lines in its two pipes,
torn and stale replies and temporary files; downloads with the gate and the slot
of `QwenPrepareCoordinator`; the signal. A turn's future may be dropped at any
await. The Python process is external.

`Cascade` – the three tiers of resolution over a list of nodes, union-find,
adjudication and the canonical names, as operators. `Resolution` (extends it) –
the worker and its passes, the enrichment that replaces a source's nodes under
the notebook's lock, the wipes and purges that do not take that lock, the
bounded channel, restarts.

`Chunker` – parent and child chunks and sections of a document as operators, with
reference definitions (coverage, nesting, limits, tiling) as assumptions that TLC
evaluates over every document of up to three blocks (`MCAnswering`). `Retrieval` –
caps, fusion, auto-merge, trims and citations as operators on sequences; sorts are
stable, as `sort_by` is, and a merged parent stands where its first child stood
(the code takes the groups from a hash map, whose order nobody fixes). `Answering` (extends
both) – a question from the selection of sources to the citations, one step per
read of the database or the vectors, while the sources are selected, trashed,
restored, ingested again (`IngestWipes`, `IngestWrites`, `IngestEnds`, `IngestFails`; a
blank document has no chunks) and purged. The searches are cut to `Overfetch` and the
fused hits to `Pool`, as `OVERFETCH` and `rerank_pool_size` do; `kept` remembers whose hits
were left.

## 3. Runs

| Run | Instance | Result |
| --- | --- | --- |
| `index_ingest` | two sources (one PDF), two contents each, purge, failing append, sweep and drop, one death | an `indexed` source is findable, once, and nothing purged is found |
| `index_enrich` | two indexed sources, trashed and restored, failing jobs, three generations, one death | flips keep what they do not replace; search sees nothing of a build |
| `index_switch` | two coordinates, two switches, notebook purge, one death | one active row per coordinate, each with a table |
| `index_concurrent` | plain and PDF ingest, worker, notebook purge and restore, one death | no sweep, flip or GC takes an active table; a restart is clean |
| `index_liveness` | one source, ingest, every outcome of a job, purge, failing reads and writes of each, four generations, one death | an ingest's statuses are left; every job ends, and from the re-embedding on not as `enriching` |
| `overview` | two runs, two changes of the set, an ingest that ends, every failure, one death | registry and file agree; what is reported ready is of the sources chosen now; tokens leave the registry |
| `downloads` | two calls of two attempts, artifact of two blocks, bodies of up to three, HEAD silent, right or short, one removal, one death | only verified bytes in place, deserved blame, a stop reaches all, every call ends, `ModelFile` is implemented |
| `relocation` | three directories, two removable, two moves, two restarts or deaths | the pointer names a complete directory, the configuration a cache with the models, clean-up loses nothing saved |
| `chat` | two turns, two runs, one delta each, one call of the store at a time, every failure and search outcome | a saved answer is the whole stream, no question stays bare, streaming ends |
| `sidecar` | two turns, one download, two groups, a signal | own audio, files and groups accounted for, the sweep kills, every call ends |
| `resolution` | two notebooks, three sources, five names, two jobs, one wipe, a channel of one, one death | a pass knows every node it writes beside, names are those of the reference, no trigger waits for ever |
| `answering` | two sources with two ingests each (one may be of a blank document, one failed before), two changes between any reads, a question of each kind, an over-fetch of three and a pool of two | nothing withdrawn is shown, no source in two versions, evidence that is there is found unless every cut is full of hits of sources touched since |

Runs that find what the code does otherwise than its comments hope. Each of these
configurations is for TLC by hand and ends in a counterexample; the passing runs
are delimited by them.

| Configuration (module) | Counterexample |
| --- | --- |
| `LostUpdate` (`MCIndexLifecycle`) | the worker seeds its table, an ingest of another source appends to the active one, the flip drops it: the source stays `indexed` and is not found. `reembed.rs`: "Seed with every OTHER source's current vectors so the flip preserves them" |
| `SweepReuse` (`MCIndexLifecycle`) | a PDF ingest sweeps the worker's building table and gets its name; the worker adds to it after it has become active, without the lock |
| `ParkCrash` (`MCIndexLifecycle`) | a re-ingest parks an indexed source for rendering, and the process dies between wipe and status |
| `TrashSwitch` (`MCIndexLifecycle`) | a switch retires the coordinate with the only vectors of a trashed source |
| `SwitchCrash` (`MCIndexLifecycle`) | the process dies between the pointer update and the flip |
| `StuckEnriching` (`MCIndexLifecycle`) | a database error in a job after it has set the status: `process_job` leaves by `?`, the source stays `enriching`, and every later job of it is skipped, until it is ingested again or the application restarts. `notebooks.rs`: "The worker is actively enriching this source" |
| `StaleGrounding` (`MCAudioOverview`) | a chosen source is ingested after the script was written: the hash is the same and the overview stays ready. `lib.rs`: "stored so a later source change surfaces as a `Stale` overview" |
| `TranscriptDrift` (`MCAudioOverview`) | the process dies between the rename of `overview.wav` and the upsert of the row |
| `RelocationLate` (`MCRelocation`) | an overview saved while the copy is made does not touch `lens.db`, and the clean-up deletes it. `relocate.rs`: "Deleting it would lose that work, so we refuse and keep the old dir intact" |
| `AbsentCache` (`MCRelocation`) | the cache is moved to a drive, the drive is taken away, the cache is moved again: the new root is persisted with nothing in it. `lib.rs`: "Copy -> persist `paths.cache_dir` -> delete the old root" |
| `ChatOverlap` (`MCChat`) | a second call finds nothing streaming and saves its question too; both streams start, the second supersedes the first, and nothing marks the first turn. `chat-state.svelte.ts`: "so the superseded turn is never left a bare question" |
| `StaleAlias` (`MCResolution`) | a source loses its entities, one node is left, and a pass over one node writes nothing. `notebooks.rs`: "a node that is no longer in a merged group does not retain a stale alias" |
| `EvidenceCut` (`MCAnswering`) | the hits of another source fill the cut, and it is trashed before they are hydrated: the question ends as reindexing, although a source nobody touched has its words |
| `ReadingOrder` (`MCAnswering`) | the order key puts the level before the position, so a merged parent stands before a child of an earlier part. `router.rs`: "so the final units re-sort to reading order regardless of retrieval rank" |

Limits of the index found by changing a constant of a configuration:

- `IndexConcurrent` with `"sweep_rows"` and `"rescan"` added: `ActiveBacked` fails. The
  sweep has dropped the tables, not their rows, and the worker flips one.
- `SwitchCrash` with `Fallible = {"drop"}` and `"ingest"` added, two contents and two
  chunkings: `ActiveBacked` fails. The stale row of a failed retirement shares its
  name with the row `ensure_table` registers, and the GC drops the table.
- `IndexIngest` with `"restore"` added: `IndexedFindable` fails. `restore_source` falls
  between the two halves of `purge_source`.
- The floor of the sweep (`gc_unregistered` refuses to empty a store whose registry is
  empty) may keep a non-empty table without a row. `RestartCleans` allows for it;
  the code's comment says "Leaking bytes is recoverable".
- `LostUpdate` with both sources indexed (`Indexed0`) and `Ops = {"enrich", "rescan",
  "trash", "purge"}`: `NoPhantom` fails. The worker seeds its table before `purge_source`
  drops the vectors of another source, and the flip brings them back; `EnrichLock`
  checks again only that the worker's own source exists.
- `SweepReuse` with `PdfSources = {s2}`: `OneEmbedding` fails. The PDF ingest sweeps the
  worker's table and gets its name, and both fill one table and flip it.
- `Overview` with `Reselect = TRUE`: `ReadyIsChosen` fails. The hash and the dialogue
  read the sources at different moments, and the user undoes the change.

Bounds. Two sources, calls, turns, runs or notebooks are the least that tell "this"
from "another", and the races of this code are between two; three generations let
a name be used again after a drop; two contents or two ingests give a change
that matters; an artifact of two blocks has a proper prefix; three directories
let a second move leave the first one's target; a channel of one is full with one
trigger. One death reaches every crash point, since recovery starts from disk
only (`RestartCleans` says that it leaves nothing of the previous life). Symmetry
is used over coordinates and switches, in a run without liveness. Deadlock is not
checked where users may be done and bounds used up: an idle program rightly stops.

Fairness. tokio polls every ready task, and the webview its callbacks: weak fairness on the steps of
each ingest, job, pass, wipe, purge, switch, start-up, overview run, download
call, command, save, turn and prepare. A tokio `Semaphore` serves waiters in
order: strong fairness on each acquisition of `ingest_lock`. An orphaned leader
of a sidecar group ends, since its pipes are closed. Nothing makes a user act or a
process die, and a call to a provider or a server is assumed to return, with an
answer, an error or the code's own timeout.

## 4. Proofs

All theorems hold for every value of the constants that the named assumptions
allow. Each module proves a lemma per action and draws its theorems from one
inductive invariant, which TLC had checked before it was proved.

`IndexLifecycle_proofs`:

- `TypeCorrect`: `Spec => []TypeOK`. The type of `job` is carried field by field
  by lemmas on `Goto`, `Leave`, and one lemma per actor.
- `ActiveUnique`: `UniqueActive`, whatever fails. Only two steps add an active
  row: the flip, which demotes the others of its coordinate in the same
  transaction, and `ensure_table`, which has looked for one first and holds the
  lock that every flip needs.
- `ActiveBackedAlways`: `ActiveBacked` under `NoCleanupFaults`. A step that drops a
  table must know that no active row has its name. `LockInv`: steps inside a lock
  window are the holder's. `RowInv`: active rows have tables and share no name
  with building or stale rows; building rows have tables except during a sweep,
  and never the formula name. `StaleInv`: while the engine runs, stale rows belong
  to a holder that is dropping them. `ClaimInv`: a table that is created and not
  registered yet is nobody else's. The assumption cannot be dropped: two limits
  above refute the property without it.
- `RestartCleansAlways`: if no start-up step can fail (`Fallible` and `StartFaults`
  disjoint), the opened engine is clean. `StartInv` says what each step of `init` has
  established, and `StartAlone` that no other task runs before the engine is open.
- `UnlockedStepsKeepIndexAlways`: the lock-free builds never write a table that
  search reads, if no clean-up step fails and there are neither PDF sources nor
  notebook purges. `OwnInv`: a build's table is named by its own building row or by
  no row at all, so it is not active. `SweepReuse` shows that the PDF hypothesis cannot
  be dropped.
- `NoPhantomAlways`, `OneEmbeddingAlways` and `IndexedFindableAlways`: what search finds,
  under `OneWriter`: the model is not switched, the notebook is not purged, and
  enrichment does not run beside ingests and purges. So one task at a time builds
  and flips tables, through any re-ingests, faults, crashes and restarts.
  `WriterInv` has five parts: `AloneInv`, who is at work, and what lock it holds;
  `StoreInv`, which rows and tables there are then; `BuildInv`, what a build has
  created, seeded and added at each step; `TextInv`, that the vectors a job is about
  to write are one for its source, of the chunks it has now, and that they are
  found once it has written them; `FoundInv`, the three properties. The flip exchanges
  one table for another: it keeps the properties only because `BuildInv` knows that
  the new table is the old one but for the source of the job.
  `IndexedFindable` needs `NoLoss` too: no park, and not both purge and restore.

  Each hypothesis has its counterexample: `LostUpdate` and the first limit of section 3 for
  enrichment beside ingest and purge, `SwitchCrash` for the switch, `IndexIngest` with
  `"purge_nb"` for the purge of a notebook (its tables go before its rows), `ParkCrash` for
  the park, `IndexIngest` with `"restore"` for purge with restore. The runs
  `index_ingest` and `index_enrich` are instances of the theorems.

`Answering_proofs`, three theorems from one invariant for what is read and one for
what is evidence:

- `NoWithdrawnTextAlways` and `OneIngestAlways`. `TextInv`: the tiers that read one
  source after the other read none twice (`ReadingInv`); the moments at which a
  source is marked withdrawn are moments at which nothing has been read yet
  (`EmptyInv`); what is hydrated in one read is of live sources and of one ingest of
  each, and the parents that are read two steps later belong to the source and the
  ingest of a hit (`HydratedInv`). Their ids keep them there: an ingest draws new ones.
- `EvidenceIsFoundAlways`, for any over-fetch and pool. A question is refused or put off
  with its words in an untouched source only if the cuts were `Crowded`: as many
  hits were kept as there is room for, none of them of an untouched source.
  `EvidenceInv` has three parts. `SteadyInv`: the untouched sources are live, and the scope
  has them. `CutInv`: what the searches and the fusion have found of an untouched source
  is a chunk that is still there (`Known`), and `kept` is the sources of the hits that are
  left. `FoundInv` follows the chunks with the words through the tiers: a tier that finds
  nothing hands over; the lexical list is full or has them all; the cut (`Cut`, the
  smaller of the two) is full or their sources are in `kept`; and a kept hit of an
  untouched source is hydrated (`ReadOf`). That a cut that was full is the reason needs
  a bm25 ranking without repetitions, which `AnsweringAssumption` includes.
  The exception cannot be dropped (`EvidenceCut`).

These rest on lemmas about the operators of `Retrieval`: `Ordered` lists a finite
set, each element once, if the order is strict and total (`Places`, `ChosenLists`);
what is sorted or kept of a sequence is the same passages (`KeptFacts`,
`ByReadingFacts`, `ByScoreFacts`); fusion and reranking lose nothing that is not cut
off (`FuseFacts`, `RerankedFacts`); `trim_and_order` and `build_candidates` invent nothing
and leave something (`TrimAndOrderFacts`, `CandidatesFacts`). Of the chunker they need one
fact, which `AnsweringAssumption` states and TLC checks of the chunker's model
(`ChunksAdvance`): a child's parent is a parent, and parents advance in the text.

`AudioOverview_proofs`: `OverviewTyped`, `SingleFlightSafe`, `ReadyFileExists`, and
`ReadyChosenAlways` under `~Reselect`. The invariant adds that a run about to write
a ready row has its file in place (`FileInPlace`), and that hash, the script's set and
the present set are in this order of age (`AgeInv`). It says which sources a ready
overview is of and not that it has their present text: the code's hash does not know it
(`StaleGrounding`).

`Download_proofs`: `TypeCorrect`, `Installed`, `Blame`, `Stop`, and `Refinement`
(`Spec => KeepsPromise`, one lemma per step that maps to a step or a stutter of
`ModelFile`). `Guarded`: only the holder of the `.part` lock is in a stage that
touches the file, and what is about to be renamed has the pinned bytes. `Clean`:
while servers are honest and the cache is left alone, every block lands where it
was asked for. `Registry`: `entry.holders` is the
number of calls in flight and its token theirs. `Told`: a result is given once.

`Relocation_proofs`: `TypeCorrect`, `Pointer`, `Cache`, and `Saved`, the action property
that a directory is emptied only when what is whole in it is whole in another.
`Opened` (which directories are open and distinct), `Complete` and `Copied` (what
the pointer's directory and the target hold at each stage), `OldIsCopied` (what the
clean-up may rely on), `Rooted` (where the models are during an offload). `Cache` is about
the models that a move has found: those on a drive that was absent when their root was
left are in `late`, and `AbsentCache` shows what becomes of them.

`Sidecar_proofs`: `TypeCorrect`, `Owners`, `Files`, `Audio` and `Sweep`. `Held` (who has the
lock and the cell), `Budget` and `Fresh` (a group is launched once), `Apart` and `Owned`
(two calls never have the same group, and each running process has an owner),
`Listed` (an owned group is on the list, but between two statements), `Silent` (what
can be in a pipe at each stage).

`Resolution_proofs`: `Listed`. `Shielded`: a pass holds its notebook's lock, or a
purge has dropped the lock with the notebook and then there is no source left
whose graph could be written.

`Chat_proofs`: `TypeCorrect` and `Answers` for any overlap of calls; `Bare` under
`OneCall`, the store's calls one after the other (`ChatOverlap` shows that the
hypothesis is needed). `Begun`, `Ordered` and `Whole` follow a stream through its queue
to the row; `Waiting`, `Claimed`, `Asked`, `Closed` and `Answering` say, for a
question without an outcome, which call, stream or save will still give it one.

Only model-checked:

- the liveness properties (`IngestSettles`, `EnrichmentSettles`, `SlotFreed`, `CallsEnd`,
  `StreamingEnds`, `EveryCallEnds`, `PendingEnds`), which need fairness;
- `AliasesCurrent`: it compares the cascade, a fold over the nodes, with its
  reference, which takes induction over data;
- the chunker's assumptions (`ChunksCoverTheText` to `ChunksAreTiled`), of which each
  is about a fold over the blocks.

`TypeOK` of `Relocation`, `Sidecar` and `Chat` is a theorem and is not repeated as an
invariant of their runs.

## 5. Not modelled, known limits, and the plan

Index: a job that errs before the re-embedding leaves its source `enriching`
(`StuckEnriching`). Not modelled: vector contents and similarity search, the FTS index, managed files,
extraction, LLM prompts and budgets, a failing drop of one table inside
`gc_unregistered` (it fails as a whole, `GcFail`), manual deletion of
`overview.wav` (reported as missing by definition).

Downloads: progress figures, disk space, byte contents; several destinations of
one model are independent instances.

Relocation: disk-space arithmetic and the file-level walk. What the model shows,
beside its properties: relocating while the pointer's drive is absent orphans
what is on it; the clean-up with the pointer's directory unmounted verifies only
the anchor; the refusal by `OldDirIsNewer` is not sticky; two configurations may
share a cache root, and a move made through one leaves the other stale.

Chat: texts, citations' contents. A regenerate during a stream can save both a
marker and an answer for one turn; a stop before `register_ask` finds nothing to
stop; the order in which two invocations register is not the order of the calls.

Sidecar: errors and cancellation end alike; a download prints its last line and
exits in one step; what outlives the app is not followed. A signal between the
spawn and the list, or the list and the kill, leaks a group (`SignalKillsAll`
excepts these); an offload leaves the resolver at the old cache root;
`qwen_snapshot_present` holds after a multi-file download that died between two
files; quitting the app leaves a `--prepare` child. `start`, `stop` and `health`
have no production caller.

Resolution: the neighbours that ANN returns exceed the instance, and are read at
one moment; the adjudication cache is shared by all notebooks; a purge leaves
aliases stale until the next pass, and orphan vectors, which are harmless; the
`ent__` table of a switched model is not followed; the graph that reads the names
is not modelled.

Answering: one-byte characters and one token per letter; exact fractions for f32;
the parsing of positional questions, of FTS queries and of markers, the fence
redactor, wording and snippets; failures of embedding and condensation are one
failure; the level-2 rows of kind `summary` that the enrichment adds to `chunks` are
left out (a hit of one is an orphan without a parent); with `hybrid_enabled` off the lexical
arm is a question whose bm25 ranking is empty. A source selected while
the question runs sorts last; `fit_to_context` drops trailing units in document
order and may drop the best evidence; a parent can be a hit of its own and appear
beside its children, since BM25 has no level filter; a chunk deleted between the
read of its metadata and of its text becomes an empty unit.

Left out as a whole: ASR routing, JS rendering, configuration, catalog, LLM
clients, system check, notes, UI.

Next:

1. What search finds with the worker beside ingest and purge, for sources that no
   other task touches during a build: the frame conditions of `BuildInv` per source.
2. What survives a switch, from the snapshot to the retirement.
3. ASR routing and rendering.
