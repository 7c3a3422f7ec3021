----------------------------- MODULE Relocation -----------------------------
(***************************************************************************)
(* The data directory and the model cache on disk (relocate.rs, layout.rs, *)
(* storage.rs, LensEngine::{relocate_data_dir, offload_cache,              *)
(* clear_model_cache}, the start of main.rs): the copy of a live directory *)
(* to another place, the pointer file under the fixed anchor, the clean-up *)
(* of the old directory at the next boot, and the move of the cache, with  *)
(* process deaths and unmounted drives anywhere in between.                *)
(*                                                                         *)
(* A directory holds the rows of its database, the files that rows refer   *)
(* to (vectors, sources, audio), the models of the cache, the cache root   *)
(* its config.json names and the modification time of lens.db.  The        *)
(* database is in WAL mode: a write is there at once, but lens.db is       *)
(* touched only by a checkpoint.                                           *)
(***************************************************************************)
EXTENDS Naturals, FiniteSets

CONSTANTS
    Dirs, Anchor, NoDir,
    Removable,      \* directories on drives that come and go
    Overviews,      \* what is saved without a lock: a row and a file
    Sources,        \* what ingest saves, holding ingest_lock: a row and a file
    Models,         \* re-downloadable models
    MaxTime,        \* bound: checkpoints of any lens.db
    MaxMoves,       \* bound: relocations and offloads
    MaxBoots        \* bound: restarts and process deaths

ASSUME RelocationAssumption ==
    /\ Anchor \in Dirs /\ NoDir \notin Dirs /\ Removable \subseteq Dirs \ {Anchor}
    /\ Overviews \cap Sources = {} /\ Models \cap (Overviews \cup Sources) = {}
    /\ IsFiniteSet(Sources)
    /\ MaxTime \in Nat /\ MaxMoves \in Nat /\ MaxBoots \in Nat

VARIABLES
    disk,      \* the contents of each directory
    time,      \* the latest modification time given
    mounted,   \* the directories that can be seen
    pointer,   \* location.json
    engine,    \* "down", "booting" or "up", and the directory it has open
    task,      \* the relocation or the offload that holds ingest_lock
    late,      \* history: saved or moved where the next boot may not look, or cleared
    lacking,   \* history: what a directory opened for an absent one did not have
    moves, boots

vars == <<disk, time, mounted, pointer, engine, task, late, lacking, moves, boots>>

Items == Overviews \cup Sources
Dir == [db : BOOLEAN, rows : SUBSET Items, files : SUBSET Items, mtime : 0 .. MaxTime,
        models : SUBSET Models, cacheDir : Dirs \cup {NoDir}]
Empty == [db |-> FALSE, rows |-> {}, files |-> {}, mtime |-> 0, models |-> {},
          cacheDir |-> NoDir]
NoTask == [at |-> "idle", from |-> NoDir, to |-> NoDir, count |-> 0, left |-> {}]
RelocationStages == {"snapshot", "copy", "verify", "pointer"}
OffloadStages == {"cachecopy", "persist", "remove"}

TypeOK ==
    /\ disk \in [Dirs -> Dir] /\ time \in 0 .. MaxTime /\ mounted \subseteq Dirs
    /\ pointer \in [dir : Dirs \cup {NoDir}, cleanup : Dirs \cup {NoDir}]
    /\ engine \in [at : {"down", "booting", "up"}, dir : Dirs \cup {NoDir}]
    /\ task \in [at : {"idle"} \cup RelocationStages \cup OffloadStages,
                 from : Dirs \cup {NoDir}, to : Dirs \cup {NoDir},
                 count : 0 .. Cardinality(Sources), left : SUBSET (Items \cup Models)]
    /\ late \subseteq Items \cup Models /\ lacking \subseteq Items \cup Models
    /\ moves \in 0 .. MaxMoves /\ boots \in 0 .. MaxBoots

\* A fresh installation: the anchor is the data directory.
Init ==
    /\ disk = [d \in Dirs |-> IF d = Anchor
                              THEN [Empty EXCEPT !.db = TRUE, !.models = Models] ELSE Empty]
    /\ time = 0 /\ mounted = Dirs
    /\ pointer = [dir |-> NoDir, cleanup |-> NoDir]
    /\ engine = [at |-> "up", dir |-> Anchor] /\ task = NoTask
    /\ late = {} /\ lacking = {} /\ moves = 0 /\ boots = 0

Here == engine.dir
CacheRoot(d) == IF disk[d].cacheDir = NoDir THEN d ELSE disk[d].cacheDir
SavedItems == UNION {disk[d].rows : d \in Dirs}

\* resolve_data_dir: a pointer to a directory that is not there is ignored.
ResolveDataDir == IF pointer.dir \in mounted THEN pointer.dir ELSE Anchor

\* Where the data is when every drive is there.
Home == IF pointer.dir = NoDir THEN Anchor ELSE pointer.dir

\* The directory's data has been copied, or is being copied, elsewhere.
Superseded == task.at \in {"copy", "verify", "pointer"} \/ ResolveDataDir # Here

-----------------------------------------------------------------------------
(* Users, ingest, SQLite *)

\* Audio overviews (and chat turns and notes, which have no file) take no lock;
\* ingest and the entity vectors (quiesce) wait while the relocation or the
\* offload holds theirs.  The locks are given back before the pointer is written.
Save(i) ==
    /\ engine.at = "up" /\ i \notin SavedItems \cup late
    /\ i \in Sources => task.at \in {"idle", "pointer"}
    /\ disk' = [disk EXCEPT ![Here].rows = @ \cup {i},
                            ![Here].files = @ \cup {i}]
    /\ late' = IF Superseded THEN late \cup {i} ELSE late
    /\ UNCHANGED <<time, mounted, pointer, engine, task, lacking, moves, boots>>

\* A WAL checkpoint of the open database.
Checkpoint ==
    /\ engine.at = "up" /\ time < MaxTime
    /\ time' = time + 1
    /\ disk' = [disk EXCEPT ![Here].mtime = time']
    /\ UNCHANGED <<mounted, pointer, engine, task, late, lacking, moves, boots>>

-----------------------------------------------------------------------------
(* relocate_data_dir *)

\* validate_target, the count of the sources, the new folder.
RelocateBegin(to) ==
    /\ engine.at = "up" /\ task.at = "idle" /\ moves < MaxMoves
    /\ to \in mounted \ {Here} /\ disk[to] = Empty
    /\ task' = [NoTask EXCEPT !.at = "snapshot", !.from = Here, !.to = to,
                              !.count = Cardinality(disk[Here].rows \cap Sources)]
    /\ moves' = moves + 1
    /\ UNCHANGED <<disk, time, mounted, pointer, engine, late, lacking, boots>>

\* VACUUM INTO, then the walk over the rest begins.  config.json is copied.
SnapshotDb ==
    /\ task.at = "snapshot" /\ time < MaxTime
    /\ time' = time + 1
    /\ disk' = [disk EXCEPT ![task.to].db = TRUE, ![task.to].rows = disk[task.from].rows,
                            ![task.to].mtime = time',
                            ![task.to].cacheDir = disk[task.from].cacheDir]
    /\ task' = [task EXCEPT !.at = "copy",
                            !.left = disk[task.from].files \cup disk[task.from].models]
    /\ UNCHANGED <<mounted, pointer, engine, late, lacking, moves, boots>>

CopyEntry(x) ==
    /\ task.at \in {"copy", "cachecopy"} /\ x \in task.left
    /\ disk' = [disk EXCEPT ![task.to].files = @ \cup ({x} \cap Items),
                            ![task.to].models = @ \cup ({x} \cap Models)]
    /\ task' = [task EXCEPT !.left = @ \ {x}]
    /\ UNCHANGED <<time, mounted, pointer, engine, late, lacking, moves, boots>>

\* Mutant: a copy error is taken for a vanished entry.
CopyDone_Skips ==
    /\ task.at = "copy"
    /\ task' = [task EXCEPT !.at = "verify", !.left = {}]
    /\ UNCHANGED <<disk, time, mounted, pointer, engine, late, lacking, moves, boots>>

CopyDone ==
    /\ task.at = "copy" /\ task.left = {}
    /\ task' = [task EXCEPT !.at = "verify"]
    /\ UNCHANGED <<disk, time, mounted, pointer, engine, late, lacking, moves, boots>>

\* verify_ready_audio: a ready overview whose file the old directory has must
\* have it in the new one.  The files of the sources are not looked at.
AudioCopied(old, new) ==
    disk[new].rows \cap Overviews \cap disk[old].files \subseteq disk[new].files

\* The copied database: the count, the rewritten paths (a checkpoint when the
\* pool is closed), then the audio.
VerifyCopy ==
    /\ task.at = "verify" /\ time < MaxTime
    /\ AudioCopied(task.from, task.to)
    /\ Cardinality(disk[task.to].rows \cap Sources) = task.count
    /\ time' = time + 1
    /\ disk' = [disk EXCEPT ![task.to].mtime = time']
    /\ task' = [task EXCEPT !.at = "pointer"]
    /\ UNCHANGED <<mounted, pointer, engine, late, lacking, moves, boots>>

\* Any failure empties the target as far as it can.
RelocateFails ==
    /\ task.at \in {"snapshot", "copy", "verify"}
    /\ disk' \in {disk, [disk EXCEPT ![task.to] = Empty]}
    /\ task' = NoTask
    /\ UNCHANGED <<time, mounted, pointer, engine, late, lacking, moves, boots>>

\* write_location is a rename; a failure leaves an unreferenced copy.
WritePointer ==
    /\ task.at = "pointer"
    /\ pointer' \in {pointer, [dir |-> task.to, cleanup |-> task.from]}
    /\ task' = NoTask
    /\ UNCHANGED <<disk, time, mounted, engine, late, lacking, moves, boots>>

-----------------------------------------------------------------------------
(* offload_cache and clear_model_cache *)

\* What copy_cache finds: an entry that is not there is passed over, so of a root
\* on an absent drive it copies nothing, and does not fail.
Seen(root) == IF root \in mounted THEN disk[root].models ELSE {}

\* copy_cache refuses a root that has a cache, if there is one to copy.  The new
\* root may be the data directory (reset_cache_location).
OffloadBegin(to) ==
    LET left == Seen(CacheRoot(Here))
    IN  /\ engine.at = "up" /\ task.at = "idle" /\ moves < MaxMoves
        /\ to \in mounted \ {CacheRoot(Here)} /\ (left # {} => disk[to].models = {})
        /\ task' = [NoTask EXCEPT !.at = "cachecopy", !.from = CacheRoot(Here), !.to = to,
                                  !.left = left]
        /\ moves' = moves + 1
        /\ UNCHANGED <<disk, time, mounted, pointer, engine, late, lacking, boots>>

OffloadFails ==
    /\ task.at \in {"cachecopy", "persist"}
    /\ task' = NoTask
    /\ UNCHANGED <<disk, time, mounted, pointer, engine, late, lacking, moves, boots>>

\* Mutant: the old root is emptied before the configuration is saved.
OffloadPersist_Last ==
    /\ task.at = "cachecopy" /\ task.left = {}
    /\ disk' = [disk EXCEPT ![task.from].models = {}]
    /\ task' = [task EXCEPT !.at = "persist"]
    /\ UNCHANGED <<time, mounted, pointer, engine, late, lacking, moves, boots>>

\* config.save to the data directory in use, which need not be the pointer's: that
\* one's configuration goes on naming the old root.  A cache moved into the old
\* directory goes with its clean-up.  Of a root on an absent drive nothing has been
\* copied, and the new root is saved all the same.
OffloadPersist ==
    /\ task.at = "cachecopy" /\ task.left = {}
    /\ disk' = [disk EXCEPT ![Here].cacheDir = IF task.to = Here THEN NoDir ELSE task.to]
    /\ late' = IF Here # Home \/ task.to = pointer.cleanup \/ task.from \notin mounted
               THEN late \cup Models ELSE late
    /\ task' = [task EXCEPT !.at = "remove"]
    /\ UNCHANGED <<time, mounted, pointer, engine, lacking, moves, boots>>

\* remove_cache, best effort; it cannot reach an absent drive.
OffloadRemove ==
    /\ task.at = "remove"
    /\ \/ UNCHANGED disk
       \/ task.from \in mounted /\ disk' = [disk EXCEPT ![task.from].models = {}]
    /\ task' = NoTask
    /\ UNCHANGED <<time, mounted, pointer, engine, late, lacking, moves, boots>>

\* Everything but the embedding model in use, which is none of Models.
ClearModelCache ==
    LET root == CacheRoot(Here)
    IN  /\ engine.at = "up" /\ task.at = "idle" /\ root \in mounted
        /\ disk[root].models # {}
        /\ disk' = [disk EXCEPT ![root].models = {}]
        /\ late' = late \cup disk[root].models
        /\ UNCHANGED <<time, mounted, pointer, engine, task, lacking, moves, boots>>

-----------------------------------------------------------------------------
(* Deaths, restarts, drives *)

\* restart_app and a process death are the same to the disk.
Stop ==
    /\ engine.at # "down" /\ boots < MaxBoots
    /\ boots' = boots + 1
    /\ engine' = [at |-> "down", dir |-> NoDir] /\ task' = NoTask
    /\ UNCHANGED <<disk, time, mounted, pointer, late, lacking, moves>>

Drive(d) ==
    /\ engine.at = "down"
    /\ mounted' = IF d \in mounted THEN mounted \ {d} ELSE mounted \cup {d}
    /\ UNCHANGED <<disk, time, pointer, engine, task, late, lacking, moves, boots>>

\* LensEngine::init creates a missing database; opening one may checkpoint it.
Boot ==
    LET d == ResolveDataDir
    IN  /\ engine.at = "down" /\ time < MaxTime
        /\ engine' = [at |-> "booting", dir |-> d]
        /\ \/ disk[d].db /\ UNCHANGED <<disk, time>>
           \/ /\ time' = time + 1
              /\ disk' = [disk EXCEPT ![d].db = TRUE, ![d].mtime = time']
        /\ UNCHANGED <<mounted, pointer, task, late, lacking, moves, boots>>

\* run_boot_cleanup
OldDirIsNewer(old) ==
    old \in mounted /\ disk[old].db /\ disk[old].mtime > disk[Here].mtime

VerifyBeforeDelete(old) == old \in mounted => AudioCopied(old, Here)

\* The engine is up.  When the pointer's drive is absent the anchor is opened: an
\* empty directory, an old one, or the copy of a relocation that failed.
Lacks(d) == (disk[d].rows \ disk[d].files) \cup (Models \ disk[CacheRoot(d)].models)
Running ==
    /\ engine' = [engine EXCEPT !.at = "up"]
    /\ lacking' = IF Here = Home THEN lacking ELSE lacking \cup Lacks(Here)'
Unmark == pointer' = [pointer EXCEPT !.cleanup = NoDir]

\* Nothing to do.
CleanupSkipped ==
    /\ engine.at = "booting" /\ pointer.cleanup = NoDir
    /\ UNCHANGED <<disk, time, mounted, pointer, task, late, moves, boots>>
    /\ Running

\* Refused: the marker stays, and erase_config_files takes the old directory's
\* config.json, as far as it can: its cache root is then its own.
CleanupRefused ==
    LET old == pointer.cleanup
    IN  /\ engine.at = "booting" /\ old \notin {NoDir, Here}
        /\ OldDirIsNewer(old) \/ ~VerifyBeforeDelete(old)
        /\ disk' \in {disk, [disk EXCEPT ![old].cacheDir = NoDir]}
        /\ UNCHANGED <<time, mounted, pointer, task, late, moves, boots>>
        /\ Running

\* The clean-up names the directory in use (the pointer's is not mounted).
CleanupOfActive ==
    /\ engine.at = "booting" /\ pointer.cleanup = Here
    /\ UNCHANGED <<disk, time, mounted, task, late, moves, boots>>
    /\ Unmark /\ Running

\* The data entries of the old directory go (models and config.json too), then
\* the marker; a death in between repeats the deletion.
CleanupDelete ==
    LET old == pointer.cleanup
    IN  /\ engine.at = "booting" /\ old \notin {NoDir, Here}
        /\ ~OldDirIsNewer(old) /\ VerifyBeforeDelete(old)
        /\ disk' = IF old \in mounted THEN [disk EXCEPT ![old] = Empty] ELSE disk
        /\ \/ Unmark /\ Running
           \/ UNCHANGED <<pointer, engine, lacking>>
        /\ UNCHANGED <<time, mounted, task, late, moves, boots>>

Next ==
    \/ (\E i \in Items : Save(i)) \/ Checkpoint
    \/ (\E to \in Dirs : RelocateBegin(to) \/ OffloadBegin(to))
    \/ SnapshotDb \/ (\E x \in Items \cup Models : CopyEntry(x)) \/ CopyDone \/ VerifyCopy
    \/ RelocateFails \/ WritePointer
    \/ OffloadFails \/ OffloadPersist \/ OffloadRemove \/ ClearModelCache
    \/ Stop \/ (\E d \in Removable : Drive(d)) \/ Boot
    \/ CleanupSkipped \/ CleanupRefused \/ CleanupOfActive \/ CleanupDelete

Spec == Init /\ [][Next]_vars

-----------------------------------------------------------------------------
(* Properties *)

Whole(i, d) == i \in disk[d].rows \cap disk[d].files

\* write_location: "a crash never leaves a half-written pointer that would
\* strand the data dir".  Wherever the process dies, the pointer names a
\* directory with a database whose every row has its files, unless the row was
\* without them in the directory that was opened and relocated.
PointerIsComplete ==
    disk[Home].db /\ \A i \in disk[Home].rows \ lacking : Whole(i, Home)

\* run_boot_cleanup: "verify the dir we are about to depend on exclusively, at
\* the only moment both still exist".  What was saved before a snapshot stays
\* whole in some directory through relocations, clean-ups, deaths and absent
\* drives.  (Not always in a directory the pointer still names: a relocation
\* made while the pointer's drive is absent starts from the anchor.)
Stored(i) == \E d \in Dirs : Whole(i, d)
SavedSurvives == [][\A i \in Items \ late : Stored(i) => Stored(i)']_vars

\* offload_cache: "a persist failure never leaves the cache moved-but-
\* unreferenced": the root that the configuration in the pointer's directory names
\* holds the models, whichever step of a move fails or dies.  (Moves made while
\* another directory is open change that one's configuration only, moves into a
\* directory that waits for its clean-up are deleted by it, and a move away from an
\* absent drive moves nothing: CopiedBeforePersisted.)
CacheReferenced == Models \ (late \cup lacking) \subseteq disk[CacheRoot(Home)].models

\* offload_cache: "Copy -> persist `paths.cache_dir` -> delete the old root": when the
\* configuration comes to name a new root, the models of the old one are there.
\* Fails when the old root's drive is absent: copy_cache passes over what is not
\* there, so the move succeeds with nothing copied.
CopiedBeforePersisted ==
    [][ \A d \in Dirs :
          task.at = "cachecopy" /\ disk'[d].cacheDir # disk[d].cacheDir
            => disk[task.from].models \subseteq disk'[task.to].models ]_vars

\* run_boot_cleanup: "the user wrote to the old dir after the relocation copy
\* [...] Deleting it would lose that work, so we refuse and keep the old dir
\* intact".
LateWritesKept == late \cap Items \subseteq SavedItems

=============================================================================
