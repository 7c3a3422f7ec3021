-------------------------- MODULE Relocation_proofs --------------------------
(***************************************************************************)
(* For any number of directories, items, models, moves and restarts: the   *)
(* pointer names a complete directory, what was saved survives, and the    *)
(* configuration names the root that has the models.                       *)
(***************************************************************************)
EXTENDS Relocation, FiniteSetTheorems, TLAPS

Task == [at : {"idle"} \cup RelocationStages \cup OffloadStages,
         from : Dirs \cup {NoDir}, to : Dirs \cup {NoDir},
         count : 0 .. Cardinality(Sources), left : SUBSET (Items \cup Models)]

Relocating == task.at \in RelocationStages

\* Nothing is left of the models that a property speaks of.
Gone == Models \subseteq late \cup lacking

\* The directories in use are there, and distinct from the target of a relocation.
Opened ==
    /\ engine.at # "down" => Here \in Dirs /\ disk[Here].db
    /\ engine.at # "up" => task.at = "idle"
    /\ pointer.cleanup # NoDir => pointer.dir # NoDir /\ pointer.dir # pointer.cleanup
    /\ engine.at = "up" /\ pointer.cleanup # NoDir =>
         disk[pointer.cleanup].db \/ disk[pointer.cleanup].files # {}
    /\ engine.at = "up" /\ Here = pointer.cleanup => pointer.dir \in mounted
    /\ disk[Home].db
    /\ task.at # "idle" => task.from \in Dirs /\ task.to \in mounted
    /\ Relocating => task.from = Here /\ task.to \notin {Here, Home, pointer.cleanup}

\* A row has its file, or had none when the directory was opened.
Complete ==
    /\ disk[Home].rows \subseteq disk[Home].files \cup lacking
    /\ engine.at = "up" => disk[Here].rows \subseteq disk[Here].files \cup lacking

\* The copy under way: what it has it has from the source, and it has all of the
\* source but what is still to be copied and what was saved since the snapshot.
Copied ==
    /\ task.at = "snapshot" => disk[task.to] = Empty
    /\ task.at \in {"copy", "verify", "pointer"} =>
        /\ disk[task.to].db /\ disk[task.to].cacheDir = disk[task.from].cacheDir
        /\ disk[task.from].rows \ late \subseteq disk[task.to].rows
        /\ disk[task.to].rows \subseteq disk[task.from].rows
        /\ disk[task.to].files \subseteq disk[task.from].files
        /\ disk[task.to].rows \cap disk[task.from].files \subseteq disk[task.to].files \cup task.left
        /\ disk[task.from].models \subseteq disk[task.to].models \cup task.left
        /\ task.left \cap Items \subseteq disk[task.from].files
    /\ task.at \in {"verify", "pointer"} => task.left = {}
    /\ task.at \in OffloadStages => task.left \subseteq Models

\* What the directory to be deleted holds, the pointer's holds too.
OldIsCopied ==
    pointer.cleanup # NoDir =>
        \A i \in Items \ late : Whole(i, pointer.cleanup) => Whole(i, pointer.dir)

\* Both configurations name a root with the models; the directory to be deleted
\* and the target of a relocation are no such root, and the root that an offload
\* empties no longer is one.
Rooted ==
    /\ CacheReferenced
    /\ engine.at = "up" => Models \ (late \cup lacking) \subseteq disk[CacheRoot(Here)].models
    /\ \A d \in Dirs : disk[d].cacheDir = d => Gone
    /\ pointer.cleanup # NoDir /\ CacheRoot(pointer.dir) = pointer.cleanup => Gone
    /\ Relocating /\ task.to \in {CacheRoot(Here), CacheRoot(Home)} => Gone
    /\ task.at = "cachecopy" =>
        /\ task.from = CacheRoot(Here) /\ task.to # task.from
        /\ task.from \in mounted => disk[task.from].models \subseteq disk[task.to].models \cup task.left
    /\ task.at = "remove" => task.from # CacheRoot(Here) /\ (task.from # CacheRoot(Home) \/ Gone)

IInv == TypeOK /\ Opened /\ Complete /\ Copied /\ OldIsCopied /\ Rooted

-----------------------------------------------------------------------------
(* What the steps make of the disk.                                         *)

Now(d, db, rows, files, models, cacheDir) ==
    /\ disk' \in [Dirs -> Dir] /\ \A e \in Dirs \ {d} : disk'[e] = disk[e]
    /\ disk'[d].db = db /\ disk'[d].rows = rows /\ disk'[d].files = files
    /\ disk'[d].models = models /\ disk'[d].cacheDir = cacheDir

\* The fields of the one directory that a step replaces.
LEMMA Put ==
    ASSUME TypeOK, NEW d \in Dirs, NEW n \in Dir, disk' = [disk EXCEPT ![d] = n]
    PROVE  Now(d, n.db, n.rows, n.files, n.models, n.cacheDir)
BY DEF TypeOK, Now

\* An empty directory is a directory.
LEMMA EmptyTyped == Empty \in Dir
BY RelocationAssumption DEF Empty, Dir

\* The fields of a directory and their types.
LEMMA DiskTyped ==
    ASSUME TypeOK, NEW d \in Dirs
    PROVE  /\ disk[d] \in Dir /\ disk \in [Dirs -> Dir]
           /\ disk[d].db \in BOOLEAN /\ disk[d].rows \subseteq Items /\ disk[d].files \subseteq Items
           /\ disk[d].models \subseteq Models /\ disk[d].cacheDir \in Dirs \cup {NoDir}
           /\ disk[d].mtime \in 0 .. MaxTime /\ CacheRoot(d) \in Dirs
BY DEF TypeOK, Dir, CacheRoot

\* What saving an item makes of the open directory.
LEMMA SaveShape ==
    ASSUME TypeOK, Opened, NEW i \in Items, Save(i)
    PROVE  LET d == Here
           IN  /\ d \in Dirs
               /\ Now(d, disk[d].db, disk[d].rows \cup {i}, disk[d].files \cup {i},
                      disk[d].models, disk[d].cacheDir)
<1> DEFINE d == Here
           n == [disk[d] EXCEPT !.rows = @ \cup {i}, !.files = @ \cup {i}]
<1>1. d \in Dirs
  BY DEF Save, Opened
<1>2. disk[d] \in Dir
  BY <1>1, DiskTyped
<1>3. disk' = [disk EXCEPT ![d] = n]
  BY <1>1, DiskTyped DEF Save, Dir
<1> HIDE DEF d
<1>4. n \in Dir /\ n.db = disk[d].db /\ n.rows = disk[d].rows \cup {i}
      /\ n.files = disk[d].files \cup {i} /\ n.models = disk[d].models
      /\ n.cacheDir = disk[d].cacheDir
  BY <1>2 DEF Dir
<1> HIDE DEF n
<1>5. Now(d, n.db, n.rows, n.files, n.models, n.cacheDir)
  BY <1>1, <1>3, <1>4, Put
<1> QED BY <1>1, <1>4, <1>5 DEF d

\* A directory whose lens.db has been touched at a time, and nothing else.
LEMMA TouchShape ==
    ASSUME TypeOK, NEW d \in Dirs, NEW b \in BOOLEAN, NEW t \in 0 .. MaxTime,
           disk' = [disk EXCEPT ![d].db = b, ![d].mtime = t]
    PROVE  Now(d, b, disk[d].rows, disk[d].files, disk[d].models, disk[d].cacheDir)
<1> DEFINE n == [disk[d] EXCEPT !.db = b, !.mtime = t]
<1>1. disk[d] \in Dir /\ disk' = [disk EXCEPT ![d] = n]
  BY DiskTyped DEF Dir
<1>2. n \in Dir /\ n.db = b /\ n.rows = disk[d].rows /\ n.files = disk[d].files
      /\ n.models = disk[d].models /\ n.cacheDir = disk[d].cacheDir
  BY <1>1 DEF Dir
<1> HIDE DEF n
<1>3. Now(d, n.db, n.rows, n.files, n.models, n.cacheDir)
  BY <1>1, <1>2, Put
<1> QED BY <1>2, <1>3

\* VACUUM INTO: what the snapshot makes of the target.
LEMMA SnapshotShape ==
    ASSUME TypeOK, Opened, SnapshotDb
    PROVE  LET d == task.to
           IN  /\ d \in Dirs /\ time' \in 0 .. MaxTime
               /\ Now(d, TRUE, disk[task.from].rows, disk[d].files, disk[d].models,
                      disk[task.from].cacheDir)
<1> DEFINE d == task.to
           n == [disk[d] EXCEPT !.db = TRUE, !.rows = disk[task.from].rows, !.mtime = time',
                                !.cacheDir = disk[task.from].cacheDir]
<1>1. d \in Dirs /\ task.from \in Dirs
  BY DEF SnapshotDb, Opened, TypeOK
<1>2. time' \in 0 .. MaxTime
  BY RelocationAssumption DEF SnapshotDb, TypeOK
<1>3. disk[d] \in Dir /\ disk[task.from] \in Dir
  BY <1>1, DiskTyped
<1>4. disk' = [disk EXCEPT ![d] = n]
  BY <1>1, DiskTyped DEF SnapshotDb, Dir
<1> HIDE DEF d
<1>5. n \in Dir /\ n.db = TRUE /\ n.rows = disk[task.from].rows /\ n.files = disk[d].files
      /\ n.models = disk[d].models /\ n.cacheDir = disk[task.from].cacheDir
  BY <1>2, <1>3 DEF Dir
<1> HIDE DEF n
<1>6. Now(d, n.db, n.rows, n.files, n.models, n.cacheDir)
  BY <1>1, <1>4, <1>5, Put
<1> QED BY <1>1, <1>2, <1>5, <1>6 DEF d

\* What the copy of one entry makes of the target.
LEMMA CopyShape ==
    ASSUME TypeOK, Opened, NEW x \in Items \cup Models, CopyEntry(x)
    PROVE  LET d == task.to
           IN  /\ d \in Dirs
               /\ Now(d, disk[d].db, disk[d].rows, disk[d].files \cup ({x} \cap Items),
                      disk[d].models \cup ({x} \cap Models), disk[d].cacheDir)
<1> DEFINE d == task.to
           n == [disk[d] EXCEPT !.files = @ \cup ({x} \cap Items), !.models = @ \cup ({x} \cap Models)]
<1>1. d \in Dirs
  BY DEF CopyEntry, Opened, TypeOK
<1>2. disk[d] \in Dir
  BY <1>1, DiskTyped
<1>3. disk' = [disk EXCEPT ![d] = n]
  BY <1>1, DiskTyped DEF CopyEntry, Dir
<1> HIDE DEF d
<1>4. n \in Dir /\ n.db = disk[d].db /\ n.rows = disk[d].rows
      /\ n.files = disk[d].files \cup ({x} \cap Items)
      /\ n.models = disk[d].models \cup ({x} \cap Models) /\ n.cacheDir = disk[d].cacheDir
  BY <1>2 DEF Dir
<1> HIDE DEF n
<1>5. Now(d, n.db, n.rows, n.files, n.models, n.cacheDir)
  BY <1>1, <1>3, <1>4, Put
<1> QED BY <1>1, <1>4, <1>5 DEF d

\* The models of a root or the root of a configuration.
LEMMA CacheShape ==
    ASSUME TypeOK, NEW d \in Dirs
    PROVE  /\ \A m \in SUBSET Models : disk' = [disk EXCEPT ![d].models = m] =>
                Now(d, disk[d].db, disk[d].rows, disk[d].files, m, disk[d].cacheDir)
           /\ \A c \in Dirs \cup {NoDir} : disk' = [disk EXCEPT ![d].cacheDir = c] =>
                Now(d, disk[d].db, disk[d].rows, disk[d].files, disk[d].models, c)
<1>1. disk[d] \in Dir /\ disk \in [Dirs -> Dir]
  BY DiskTyped
<1>2. ASSUME NEW m \in SUBSET Models, disk' = [disk EXCEPT ![d].models = m]
      PROVE  Now(d, disk[d].db, disk[d].rows, disk[d].files, m, disk[d].cacheDir)
  BY <1>1, <1>2 DEF Dir, Now
<1>3. ASSUME NEW c \in Dirs \cup {NoDir}, disk' = [disk EXCEPT ![d].cacheDir = c]
      PROVE  Now(d, disk[d].db, disk[d].rows, disk[d].files, disk[d].models, c)
  BY <1>1, <1>3 DEF Dir, Now
<1> QED BY <1>2, <1>3

\* What the removal of a directory makes of it.
LEMMA EmptiedShape ==
    ASSUME TypeOK, NEW d \in Dirs, disk' = [disk EXCEPT ![d] = Empty]
    PROVE  Now(d, FALSE, {}, {}, {}, NoDir) /\ disk'[d] = Empty
<1>1. Now(d, Empty.db, Empty.rows, Empty.files, Empty.models, Empty.cacheDir)
  BY EmptyTyped, Put
<1>2. disk'[d] = Empty
  BY DEF TypeOK
<1> QED BY <1>1, <1>2 DEF Empty

-----------------------------------------------------------------------------
(* Types.                                                                   *)

\* A refused clean-up takes no more than the configuration of the old directory,
\* which is neither the open one nor the pointer's.
LEMMA RefusedShape ==
    ASSUME TypeOK, Opened, CleanupRefused
    PROVE  LET old == pointer.cleanup
           IN  /\ old \in Dirs /\ old # Here /\ old # Home /\ disk' \in [Dirs -> Dir]
               /\ \A e \in Dirs \ {old} : disk'[e] = disk[e]
               /\ \A e \in Dirs : disk'[e].db = disk[e].db /\ disk'[e].rows = disk[e].rows
                                  /\ disk'[e].files = disk[e].files /\ disk'[e].models = disk[e].models
                                  /\ disk'[e].cacheDir \in {disk[e].cacheDir, NoDir}
<1> DEFINE old == pointer.cleanup
<1>1. old \in Dirs /\ old # Here /\ old # Home /\ disk \in [Dirs -> Dir]
  BY DEF CleanupRefused, Opened, TypeOK, Home
<1>2. disk' = disk \/ disk' = [disk EXCEPT ![old].cacheDir = NoDir]
  BY DEF CleanupRefused
<1> HIDE DEF old
<1>3. CASE disk' = disk
  BY <1>1, <1>3 DEF old
<1>4. CASE disk' = [disk EXCEPT ![old].cacheDir = NoDir]
  <2>1. Now(old, disk[old].db, disk[old].rows, disk[old].files, disk[old].models, NoDir)
    BY <1>1, <1>4, CacheShape
  <2> QED BY <1>1, <2>1 DEF Now, old
<1> QED BY <1>2, <1>3, <1>4

\* The stages of a task, in one set.
LEMMA StagesTyped ==
    /\ {"idle", "snapshot", "copy", "verify", "pointer", "cachecopy", "persist", "remove"}
         = {"idle"} \cup RelocationStages \cup OffloadStages
    /\ RelocationStages = {"snapshot", "copy", "verify", "pointer"}
    /\ OffloadStages = {"cachecopy", "persist", "remove"}
BY DEF RelocationStages, OffloadStages

\* A task that goes on to its next stage is a task.
LEMMA TaskTyped ==
    ASSUME TypeOK
    PROVE  /\ task \in Task /\ NoTask \in Task
           /\ \A s \in {"copy", "verify", "pointer", "persist", "remove"} :
                 [task EXCEPT !.at = s] \in Task
           /\ \A l \in SUBSET (Items \cup Models) : [task EXCEPT !.left = l] \in Task
<1>1. task \in Task
  BY DEF TypeOK, Task
<1>2. Cardinality(Sources) \in Nat
  BY RelocationAssumption, FS_CardinalityType
<1>3. NoTask \in Task
  BY <1>2 DEF NoTask, Task
<1>4. ASSUME NEW s \in {"copy", "verify", "pointer", "persist", "remove"}
      PROVE  [task EXCEPT !.at = s] \in Task
  <2>1. s \in {"idle"} \cup RelocationStages \cup OffloadStages
    BY StagesTyped
  <2> QED BY <1>1, <2>1 DEF Task
<1>5. ASSUME NEW l \in SUBSET (Items \cup Models) PROVE [task EXCEPT !.left = l] \in Task
  BY <1>1 DEF Task
<1> QED BY <1>1, <1>3, <1>4, <1>5

\* Every step keeps the types.
LEMMA TypeStep == TypeOK /\ Opened /\ Copied /\ [Next]_vars => TypeOK'
<1> SUFFICES ASSUME TypeOK, Opened, Copied, [Next]_vars PROVE TypeOK'
  OBVIOUS
<1> USE DEF Now
<1>t. TypeOK <=> /\ disk \in [Dirs -> Dir] /\ time \in 0 .. MaxTime /\ mounted \subseteq Dirs
                 /\ pointer \in [dir : Dirs \cup {NoDir}, cleanup : Dirs \cup {NoDir}]
                 /\ engine \in [at : {"down", "booting", "up"}, dir : Dirs \cup {NoDir}]
                 /\ task \in Task
                 /\ late \subseteq Items \cup Models /\ lacking \subseteq Items \cup Models
                 /\ moves \in 0 .. MaxMoves /\ boots \in 0 .. MaxBoots
  BY DEF TypeOK, Task
<1>n. MaxTime \in Nat /\ MaxMoves \in Nat /\ MaxBoots \in Nat
  BY RelocationAssumption
<1>1. ASSUME NEW i \in Items, Save(i) PROVE TypeOK'
  <2>1. disk' \in [Dirs -> Dir]
    BY <1>1, SaveShape
  <2> QED BY <1>t, <1>1, <2>1 DEF Save, TypeOK
<1>2. CASE Checkpoint
  <2>1. Here \in Dirs /\ time' \in 0 .. MaxTime
    BY <1>2, <1>n, <1>t DEF Checkpoint, Opened
  <2>2. disk' \in [Dirs -> Dir]
    BY <1>2, <2>1, <1>t DEF Checkpoint, Dir
  <2> QED BY <1>t, <1>2, <2>1, <2>2 DEF Checkpoint, TypeOK
<1>3. ASSUME NEW to \in Dirs, RelocateBegin(to) PROVE TypeOK'
  <2>1. Here \in Dirs
    BY <1>3 DEF RelocateBegin, Opened
  <2> DEFINE k == Cardinality(disk[Here].rows \cap Sources)
  <2>2. k \in 0 .. Cardinality(Sources)
    BY RelocationAssumption, FS_Subset, FS_CardinalityType
  <2> HIDE DEF k
  <2>3. [NoTask EXCEPT !.at = "snapshot", !.from = Here, !.to = to, !.count = k] \in Task
    <3>1. NoTask \in Task /\ "snapshot" \in {"idle"} \cup RelocationStages \cup OffloadStages
      BY TaskTyped, StagesTyped
    <3> QED BY <2>1, <2>2, <3>1 DEF Task
  <2>4. task' \in Task
    BY <1>3, <2>3 DEF RelocateBegin, k
  <2>5. moves' \in 0 .. MaxMoves
    BY <1>3, <1>n, <1>t DEF RelocateBegin
  <2> QED BY <1>t, <1>3, <2>4, <2>5 DEF RelocateBegin, TypeOK, Task
<1>4. ASSUME NEW to \in Dirs, OffloadBegin(to) PROVE TypeOK'
  <2>1. CacheRoot(Here) \in Dirs /\ disk[CacheRoot(Here)].models \subseteq Models
    BY <1>4, DiskTyped DEF OffloadBegin, Opened
  <2>2. [NoTask EXCEPT !.at = "cachecopy", !.from = CacheRoot(Here), !.to = to,
                       !.left = Seen(CacheRoot(Here))] \in Task
    <3>1. NoTask \in Task /\ "cachecopy" \in {"idle"} \cup RelocationStages \cup OffloadStages
      BY TaskTyped, StagesTyped
    <3> QED BY <2>1, <3>1 DEF Task, Seen
  <2>3. moves' \in 0 .. MaxMoves
    BY <1>4, <1>n, <1>t DEF OffloadBegin
  <2> QED BY <1>t, <1>4, <2>2, <2>3 DEF OffloadBegin, TypeOK, Task
<1>5. CASE SnapshotDb
  <2>1. disk' \in [Dirs -> Dir] /\ time' \in 0 .. MaxTime
    BY <1>5, SnapshotShape
  <2>2. disk[task.from].files \cup disk[task.from].models \subseteq Items \cup Models
    BY <1>5, DiskTyped DEF SnapshotDb, Opened
  <2> DEFINE l == disk[task.from].files \cup disk[task.from].models
  <2>3. [task EXCEPT !.at = "copy", !.left = l] \in Task
    <3>1. task \in Task /\ "copy" \in {"idle"} \cup RelocationStages \cup OffloadStages
      BY TaskTyped, StagesTyped
    <3> HIDE DEF l
    <3>2. l \in SUBSET (Items \cup Models)
      BY <2>2 DEF l
    <3> QED BY <3>1, <3>2 DEF Task
  <2> QED BY <1>t, <1>5, <2>1, <2>3 DEF SnapshotDb, TypeOK, Task
<1>6. ASSUME NEW x \in Items \cup Models, CopyEntry(x) PROVE TypeOK'
  <2>1. disk' \in [Dirs -> Dir]
    BY <1>6, CopyShape
  <2>2. task' \in Task
    <3>1. task.left \ {x} \in SUBSET (Items \cup Models)
      BY TaskTyped DEF Task
    <3>2. task' = [task EXCEPT !.left = task.left \ {x}]
      BY <1>6 DEF CopyEntry
    <3> QED BY <3>1, <3>2, TaskTyped
  <2> QED BY <1>t, <1>6, <2>1, <2>2 DEF CopyEntry, TypeOK, Task
<1>7. CASE CopyDone
  BY <1>t, <1>7, TaskTyped DEF CopyDone, TypeOK, Task
<1>8. CASE VerifyCopy
  <2>1. task.to \in Dirs /\ time' \in 0 .. MaxTime
    BY <1>8, <1>n, <1>t DEF VerifyCopy, Opened
  <2>2. disk' \in [Dirs -> Dir]
    BY <1>8, <2>1, <1>t DEF VerifyCopy, Dir
  <2>3. task' \in Task
    BY <1>8, TaskTyped DEF VerifyCopy
  <2> QED BY <1>t, <1>8, <2>1, <2>2, <2>3 DEF VerifyCopy, TypeOK, Task
<1>9. CASE RelocateFails
  <2>1. disk' \in [Dirs -> Dir]
    BY <1>9, <1>t, EmptyTyped DEF RelocateFails
  <2> QED BY <1>t, <1>9, <2>1, TaskTyped DEF RelocateFails, TypeOK, Task
<1>10. CASE WritePointer
  <2>1. task.to \in Dirs \cup {NoDir} /\ task.from \in Dirs \cup {NoDir}
    BY TaskTyped DEF Task
  <2>2. pointer' \in [dir : Dirs \cup {NoDir}, cleanup : Dirs \cup {NoDir}]
    BY <1>t, <1>10, <2>1 DEF WritePointer
  <2> QED BY <1>t, <1>10, <2>2, TaskTyped DEF WritePointer, TypeOK, Task
<1>11. CASE OffloadFails
  BY <1>t, <1>11, TaskTyped DEF OffloadFails, TypeOK, Task
<1>12. CASE OffloadPersist
  <2>1. task.to \in Dirs
    BY <1>12, <1>t DEF OffloadPersist, Opened
  <2>2. disk' \in [Dirs -> Dir]
    <3> DEFINE c == IF task.to = Here THEN NoDir ELSE task.to
    <3>1. c \in Dirs \cup {NoDir} /\ disk' = [disk EXCEPT ![Here].cacheDir = c] /\ Here \in Dirs
      BY <1>12, <2>1 DEF OffloadPersist, Opened
    <3> HIDE DEF c
    <3> QED BY <3>1, CacheShape
  <2>3. task' \in Task
    BY <1>12, TaskTyped DEF OffloadPersist
  <2> QED BY <1>t, <1>12, <2>2, <2>3 DEF OffloadPersist, TypeOK, Task
<1>13. CASE OffloadRemove
  <2>1. disk' \in [Dirs -> Dir]
    BY <1>13, <1>t DEF OffloadRemove, Dir
  <2> QED BY <1>t, <1>13, <2>1, TaskTyped DEF OffloadRemove, TypeOK, Task
<1>14. CASE ClearModelCache
  <2>1. disk' \in [Dirs -> Dir]
    BY <1>14, <1>t DEF ClearModelCache, Dir
  <2>2. disk[CacheRoot(Here)].models \subseteq Models
    BY <1>14, DiskTyped DEF ClearModelCache, Opened
  <2> QED BY <1>t, <1>14, <2>1, <2>2 DEF ClearModelCache, TypeOK
<1>15. CASE Stop
  BY <1>t, <1>n, <1>15, TaskTyped DEF Stop, TypeOK, Task
<1>16. ASSUME NEW d \in Removable, Drive(d) PROVE TypeOK'
  BY <1>t, <1>16, RelocationAssumption DEF Drive, TypeOK
<1>17. CASE Boot
  <2>1. ResolveDataDir \in Dirs
    BY <1>t, RelocationAssumption DEF ResolveDataDir
  <2>2. disk' \in [Dirs -> Dir] /\ time' \in 0 .. MaxTime
    <3>1. CASE disk' = disk /\ time' = time
      BY <1>t, <3>1
    <3>2. CASE /\ time' = time + 1
               /\ disk' = [disk EXCEPT ![ResolveDataDir].db = TRUE, ![ResolveDataDir].mtime = time']
      <4>1. time' \in 0 .. MaxTime
        BY <1>t, <1>n, <1>17, <3>2 DEF Boot
      <4> QED BY <2>1, <3>2, <4>1, TouchShape
    <3> QED BY <1>17, <3>1, <3>2 DEF Boot
  <2> QED BY <1>t, <1>17, <2>1, <2>2 DEF Boot, TypeOK
<1>18. CASE CleanupSkipped \/ CleanupRefused \/ CleanupOfActive \/ CleanupDelete
  <2>1. disk' \in [Dirs -> Dir]
    <3>1. CASE CleanupRefused
      BY <3>1, RefusedShape
    <3> QED BY <1>t, <1>18, <3>1, EmptyTyped DEF CleanupSkipped, CleanupOfActive, CleanupDelete
  <2>2. engine' \in [at : {"down", "booting", "up"}, dir : Dirs \cup {NoDir}] /\ engine'.dir = Here
    <3>1. engine' = engine \/ engine' = [engine EXCEPT !.at = "up"]
      BY <1>18 DEF CleanupSkipped, CleanupRefused, CleanupOfActive, CleanupDelete, Running
    <3>2. engine \in [at : {"down", "booting", "up"}, dir : Dirs \cup {NoDir}]
      BY <1>t
    <3> QED BY <3>1, <3>2 DEF Here
  <2>3. pointer' \in [dir : Dirs \cup {NoDir}, cleanup : Dirs \cup {NoDir}]
    BY <1>t, <1>18 DEF CleanupSkipped, CleanupRefused, CleanupOfActive, CleanupDelete, Unmark
  <2>4. Here \in Dirs
    BY <1>18 DEF CleanupSkipped, CleanupRefused, CleanupOfActive, CleanupDelete, Opened
  <2>5. Lacks(Here)' \subseteq Items \cup Models
    <3>1. disk'[Here].rows \subseteq Items /\ disk'[engine'.dir].rows \subseteq Items
      BY <2>1, <2>2, <2>4 DEF Dir
    <3> QED BY <3>1 DEF Lacks, Here
  <2>6. lacking' \subseteq Items \cup Models
    BY <1>t, <1>18, <2>5 DEF CleanupSkipped, CleanupRefused, CleanupOfActive, CleanupDelete, Running
  <2> QED BY <1>t, <1>18, <2>1, <2>2, <2>3, <2>6
         DEF CleanupSkipped, CleanupRefused, CleanupOfActive, CleanupDelete, TypeOK
<1>19. CASE UNCHANGED vars
  BY <1>19 DEF vars, TypeOK
<1> QED BY <1>1, <1>2, <1>3, <1>4, <1>5, <1>6, <1>7, <1>8, <1>9, <1>10, <1>11, <1>12, <1>13, <1>14,
           <1>15, <1>16, <1>17, <1>18, <1>19 DEF Next

-----------------------------------------------------------------------------
(* The directories in use.                                                  *)

\* The directories that the pointer and the engine name are directories.
LEMMA HomeTyped ==
    ASSUME TypeOK
    PROVE  /\ Home \in Dirs /\ ResolveDataDir \in Dirs /\ (pointer.dir # NoDir => pointer.dir \in Dirs)
           /\ (pointer.cleanup # NoDir => pointer.cleanup \in Dirs) /\ NoDir \notin Dirs
           /\ NoDir \notin mounted /\ (Here # NoDir => Here \in Dirs)
BY RelocationAssumption DEF TypeOK, Home, ResolveDataDir, Here

\* A step that empties no directory in use and begins no task.
LEMMA OpenedKept ==
    ASSUME TypeOK, Opened, UNCHANGED <<mounted, pointer, engine>>,
           \A d \in {Here, Home, pointer.cleanup} \cap Dirs :
               (disk[d].db => disk'[d].db) /\ disk[d].files \subseteq disk'[d].files,
           \/ task'.at = "idle"
           \/ task.at # "idle" /\ task'.from = task.from /\ task'.to = task.to
              /\ (task'.at \in RelocationStages => task.at \in RelocationStages)
    PROVE  Opened'
<1>1. Home' = Home /\ Here' = Here /\ Home \in Dirs /\ NoDir \notin Dirs
  BY HomeTyped DEF Home, Here
<1>2. disk'[Home].db /\ (engine.at # "down" => disk'[Here].db)
  BY <1>1 DEF Opened
<1>3. engine.at = "up" /\ pointer.cleanup # NoDir =>
         disk'[pointer.cleanup].db \/ disk'[pointer.cleanup].files # {}
  BY HomeTyped DEF Opened
<1>4. task'.at # "idle" => task'.from \in Dirs /\ task'.to \in mounted /\ engine.at = "up"
  BY DEF Opened
<1>5. task'.at \in RelocationStages => task'.from = Here /\ task'.to \notin {Here, Home, pointer.cleanup}
  BY DEF Opened, Relocating, RelocationStages
<1> QED BY <1>1, <1>2, <1>3, <1>4, <1>5 DEF Opened, Relocating

\* Every step keeps the directories in use there and apart from the target.
LEMMA OpenedStep == TypeOK /\ Opened /\ Copied /\ [Next]_vars => Opened'
<1> SUFFICES ASSUME TypeOK, Opened, Copied, [Next]_vars PROVE Opened'
  OBVIOUS
<1>m. mounted \subseteq Dirs /\ NoDir \notin Dirs /\ Home \in Dirs /\ task \in Task
  BY HomeTyped DEF TypeOK, Task
<1>1. ASSUME NEW i \in Items, Save(i) PROVE Opened'
  <2>1. \A d \in Dirs : (disk[d].db => disk'[d].db) /\ disk[d].files \subseteq disk'[d].files
    BY <1>1, SaveShape DEF Now
  <2>2. UNCHANGED <<mounted, pointer, engine, task>>
    BY <1>1 DEF Save
  <2> QED BY <2>1, <2>2, OpenedKept
<1>2. CASE Checkpoint
  <2>1. \A d \in Dirs : disk'[d].db = disk[d].db /\ disk'[d].files = disk[d].files
    BY <1>2 DEF Checkpoint, TypeOK, Dir
  <2>2. UNCHANGED <<mounted, pointer, engine, task>>
    BY <1>2 DEF Checkpoint
  <2> QED BY <2>1, <2>2, OpenedKept
<1>3. ASSUME NEW to \in Dirs, RelocateBegin(to) PROVE Opened'
  <2>1. UNCHANGED <<disk, mounted, pointer, engine>> /\ Here \in Dirs
    BY <1>3 DEF RelocateBegin, Opened
  <2>2. task'.from = Here /\ task'.to = to /\ to \in mounted /\ to # Here /\ engine.at = "up"
    BY <1>3 DEF RelocateBegin, NoTask
  <2>3. disk[to].db = FALSE /\ disk[to].files = {}
    BY <1>3 DEF RelocateBegin, Empty
  <2>4. to # Home /\ to # pointer.cleanup
    BY <2>2, <2>3, <1>m DEF Opened
  <2> QED BY <2>1, <2>2, <2>4 DEF Opened, Home, Here, Relocating
<1>4. ASSUME NEW to \in Dirs, OffloadBegin(to) PROVE Opened'
  <2>1. UNCHANGED <<disk, mounted, pointer, engine>> /\ Here \in Dirs /\ engine.at = "up"
    BY <1>4 DEF OffloadBegin, Opened
  <2>2. task'.from = CacheRoot(Here) /\ task'.to \in mounted /\ task'.at = "cachecopy"
    BY <1>4 DEF OffloadBegin, NoTask
  <2>3. CacheRoot(Here) \in Dirs
    BY <2>1, DiskTyped
  <2> QED BY <2>1, <2>2, <2>3, StagesTyped DEF Opened, Home, Here, Relocating
<1>5. CASE SnapshotDb
  <2>1. \A d \in Dirs : (disk[d].db => disk'[d].db) /\ disk[d].files \subseteq disk'[d].files
    BY <1>5, SnapshotShape DEF Now
  <2>2. UNCHANGED <<mounted, pointer, engine>> /\ task'.from = task.from /\ task'.to = task.to
        /\ task.at \in RelocationStages /\ task.at # "idle"
    BY <1>5, <1>m, StagesTyped DEF SnapshotDb, Task
  <2> QED BY <2>1, <2>2, OpenedKept
<1>6. ASSUME NEW x \in Items \cup Models, CopyEntry(x) PROVE Opened'
  <2>1. \A d \in Dirs : (disk[d].db => disk'[d].db) /\ disk[d].files \subseteq disk'[d].files
    BY <1>6, CopyShape DEF Now
  <2>2. UNCHANGED <<mounted, pointer, engine>> /\ task'.from = task.from /\ task'.to = task.to
        /\ task'.at = task.at /\ task.at # "idle"
    BY <1>6, <1>m DEF CopyEntry, Task
  <2> QED BY <2>1, <2>2, OpenedKept
<1>7. CASE CopyDone \/ VerifyCopy
  <2>1. \A d \in Dirs : disk'[d].db = disk[d].db /\ disk'[d].files = disk[d].files
    BY <1>7 DEF CopyDone, VerifyCopy, TypeOK, Dir
  <2>2. UNCHANGED <<mounted, pointer, engine>> /\ task'.from = task.from /\ task'.to = task.to
        /\ task.at \in RelocationStages /\ task.at # "idle"
    BY <1>7, <1>m, StagesTyped DEF CopyDone, VerifyCopy, Task
  <2> QED BY <2>1, <2>2, OpenedKept
<1>8. CASE RelocateFails
  <2>1. task.to \notin {Here, Home, pointer.cleanup}
    BY <1>8, StagesTyped DEF RelocateFails, Opened, Relocating
  <2>2. \A d \in {Here, Home, pointer.cleanup} \cap Dirs : disk'[d] = disk[d]
    BY <1>8, <2>1 DEF RelocateFails, TypeOK
  <2>3. UNCHANGED <<mounted, pointer, engine>> /\ task'.at = "idle"
    BY <1>8 DEF RelocateFails, NoTask
  <2> QED BY <2>2, <2>3, OpenedKept
<1>9. CASE WritePointer
  <2>1. UNCHANGED <<disk, mounted, engine>> /\ task'.at = "idle"
    BY <1>9 DEF WritePointer, NoTask
  <2>2. CASE pointer' = pointer
    BY <2>1, <2>2, OpenedKept
  <2>3. CASE pointer' # pointer
    <3>1. pointer'.dir = task.to /\ pointer'.cleanup = task.from
      BY <1>9, <2>3 DEF WritePointer
    <3>2. task.from = Here /\ task.to # Here /\ task.to \in mounted /\ Here \in Dirs /\ disk[Here].db
          /\ engine.at = "up"
      BY <1>9, StagesTyped DEF WritePointer, Opened, Relocating
    <3>3. disk[task.to].db
      BY <1>9 DEF WritePointer, Copied
    <3> QED BY <1>m, <2>1, <3>1, <3>2, <3>3, StagesTyped DEF Opened, Home, Here, Relocating
  <2> QED BY <2>2, <2>3
<1>10. CASE OffloadFails \/ OffloadRemove \/ ClearModelCache
  <2>1. \A d \in Dirs : disk'[d].db = disk[d].db /\ disk'[d].files = disk[d].files
    BY <1>10 DEF OffloadFails, OffloadRemove, ClearModelCache, TypeOK, Dir
  <2>2. UNCHANGED <<mounted, pointer, engine>> /\ (task'.at = "idle" \/ task' = task)
    BY <1>10 DEF OffloadFails, OffloadRemove, ClearModelCache, NoTask
  <2> QED BY <2>1, <2>2, OpenedKept DEF ClearModelCache
<1>11. CASE OffloadPersist
  <2>1. \A d \in Dirs : disk'[d].db = disk[d].db /\ disk'[d].files = disk[d].files
    BY <1>11 DEF OffloadPersist, TypeOK, Dir
  <2>2. UNCHANGED <<mounted, pointer, engine>> /\ task'.from = task.from /\ task'.to = task.to
        /\ task'.at \notin RelocationStages /\ task.at # "idle"
    BY <1>11, <1>m, StagesTyped DEF OffloadPersist, Task
  <2> QED BY <2>1, <2>2, OpenedKept
<1>12. CASE Stop
  BY <1>12, StagesTyped DEF Stop, NoTask, Opened, Home, Here, Relocating
<1>13. ASSUME NEW d \in Removable, Drive(d) PROVE Opened'
  BY <1>13, StagesTyped DEF Drive, Opened, Home, Here, Relocating
<1>14. CASE Boot
  <2> DEFINE h == ResolveDataDir
  <2>1. engine'.at = "booting" /\ engine'.dir = h /\ UNCHANGED <<mounted, pointer, task>>
        /\ h \in Dirs /\ task.at = "idle"
    BY <1>14, HomeTyped DEF Boot, Opened
  <2>2. disk'[h].db /\ disk'[Home].db
    <3> HIDE DEF h
    <3>1. CASE disk' = disk /\ disk[h].db
      BY <3>1 DEF Opened
    <3>2. CASE disk' = [disk EXCEPT ![h].db = TRUE, ![h].mtime = time']
      BY <2>1, <3>2, <1>m DEF Opened, TypeOK, Dir
    <3> QED BY <1>14, <3>1, <3>2 DEF Boot, h
  <2> QED BY <2>1, <2>2, StagesTyped DEF Opened, Home, Here, Relocating
<1>15. CASE CleanupSkipped \/ CleanupRefused
  <2>1. engine.at = "booting" /\ UNCHANGED <<mounted, pointer, task>>
        /\ engine'.at = "up" /\ engine'.dir = Here
    BY <1>15 DEF CleanupSkipped, CleanupRefused, Running, TypeOK, Here
  <2>2. pointer.cleanup # NoDir => pointer.cleanup # Here
        /\ (disk[pointer.cleanup].db \/ disk[pointer.cleanup].files # {})
    BY <1>15 DEF CleanupSkipped, CleanupRefused, OldDirIsNewer, VerifyBeforeDelete, AudioCopied
  <2>3. Here \in Dirs /\ Here # NoDir /\ task.at = "idle" /\ disk[Here].db
    BY <2>1, <1>m DEF Opened
  <2>4. \A d \in Dirs : disk'[d].db = disk[d].db /\ disk'[d].files = disk[d].files
    BY <1>15, RefusedShape DEF CleanupSkipped
  <2>5. Home' = Home /\ Home \in Dirs /\ Here' = Here /\ pointer.cleanup \in Dirs \cup {NoDir}
        /\ task'.at = "idle"
    BY <2>1, <2>3, HomeTyped DEF Home, Here, TypeOK
  <2>6. disk'[Home].db /\ disk'[Here].db
    BY <2>3, <2>4, <2>5 DEF Opened
  <2>7. pointer.cleanup # NoDir => disk'[pointer.cleanup].db \/ disk'[pointer.cleanup].files # {}
    BY <2>2, <2>4, <2>5
  <2>8. pointer.cleanup # NoDir => pointer.dir # NoDir /\ pointer.dir # pointer.cleanup
    BY DEF Opened
  <2> QED BY <2>1, <2>2, <2>3, <2>5, <2>6, <2>7, <2>8, StagesTyped DEF Opened, Relocating
<1>16. CASE CleanupOfActive
  <2>1. engine.at = "booting" /\ UNCHANGED <<disk, mounted, task>>
        /\ engine'.at = "up" /\ engine'.dir = Here /\ pointer'.dir = pointer.dir
        /\ pointer'.cleanup = NoDir
    BY <1>16 DEF CleanupOfActive, Running, Unmark, TypeOK, Here
  <2>3. Here \in Dirs /\ Here # NoDir /\ task.at = "idle" /\ disk[Here].db
    BY <2>1, <1>m DEF Opened
  <2> QED BY <1>m, <2>1, <2>3, StagesTyped DEF Opened, Home, Here, Relocating
<1>17. CASE CleanupDelete
  <2> DEFINE old == pointer.cleanup
  <2>1. engine.at = "booting" /\ UNCHANGED <<mounted, task>> /\ old \notin {NoDir, Here}
        /\ engine'.dir = Here /\ pointer'.dir = pointer.dir
        /\ ((engine' = engine /\ pointer' = pointer) \/ (engine'.at = "up" /\ pointer'.cleanup = NoDir))
    BY <1>17 DEF CleanupDelete, Running, Unmark, TypeOK, Here
  <2>2. Here \in Dirs /\ Here # NoDir /\ task.at = "idle" /\ disk[Here].db /\ old # Home
    BY <2>1, <1>m DEF Opened, Home
  <2>3. disk'[Here] = disk[Here] /\ disk'[Home] = disk[Home]
    BY <1>17, <2>1, <2>2, <1>m DEF CleanupDelete, TypeOK
  <2>4. disk'[Here].db /\ disk'[Home].db
    BY <2>2, <2>3 DEF Opened
  <2> HIDE DEF old
  <2> QED BY <1>m, <2>1, <2>2, <2>4, StagesTyped DEF Opened, Home, Here, Relocating
<1>18. CASE UNCHANGED vars
  BY <1>18 DEF vars, Opened, Home, Here, Relocating
<1> QED BY <1>1, <1>2, <1>3, <1>4, <1>5, <1>6, <1>7, <1>8, <1>9, <1>10, <1>11, <1>12, <1>13, <1>14,
           <1>15, <1>16, <1>17, <1>18 DEF Next

-----------------------------------------------------------------------------
(* Rows and files.                                                          *)

\* A step that adds no row without a file keeps what is complete.
LEMMA CompleteKept ==
    ASSUME TypeOK, Opened, Complete, UNCHANGED pointer, Here' = Here, engine'.at = "up" => engine.at = "up",
           lacking' = lacking,
           \A d \in {Here, Home} \cap Dirs :
               disk'[d].rows \ disk'[d].files \subseteq disk[d].rows \ disk[d].files
    PROVE  Complete'
<1>1. Home' = Home /\ Home \in Dirs /\ (engine.at = "up" => Here \in Dirs)
  BY HomeTyped DEF Home, Opened
<1> QED BY <1>1 DEF Complete

\* Every step keeps the rows with their files.
LEMMA CompleteStep == TypeOK /\ Opened /\ Copied /\ Complete /\ [Next]_vars => Complete'
<1> SUFFICES ASSUME TypeOK, Opened, Copied, Complete, [Next]_vars PROVE Complete'
  OBVIOUS
<1>m. mounted \subseteq Dirs /\ NoDir \notin Dirs /\ Home \in Dirs /\ task \in Task
  BY HomeTyped DEF TypeOK, Task
<1> DEFINE Same == UNCHANGED <<pointer, engine, lacking>>
           Fewer == \A d \in {Here, Home} \cap Dirs :
                       disk'[d].rows \ disk'[d].files \subseteq disk[d].rows \ disk[d].files
<1>k. Same /\ Fewer => Complete'
  BY CompleteKept DEF Here
<1>1. ASSUME NEW i \in Items, Save(i) PROVE Complete'
  <2>1. Fewer
    BY <1>1, SaveShape DEF Now
  <2>2. Same
    BY <1>1 DEF Save
  <2> QED BY <1>k, <2>1, <2>2
<1>2. CASE Checkpoint \/ VerifyCopy \/ OffloadPersist \/ OffloadRemove \/ ClearModelCache
  <2>1. \A d \in Dirs : disk'[d].rows = disk[d].rows /\ disk'[d].files = disk[d].files
    BY <1>2 DEF Checkpoint, VerifyCopy, OffloadPersist, OffloadRemove, ClearModelCache, TypeOK, Dir
  <2>2. Same
    BY <1>2 DEF Checkpoint, VerifyCopy, OffloadPersist, OffloadRemove, ClearModelCache
  <2> QED BY <1>k, <2>1, <2>2
<1>3. ASSUME NEW d \in Dirs, RelocateBegin(d) \/ OffloadBegin(d) PROVE Complete'
  BY <1>k, <1>3 DEF RelocateBegin, OffloadBegin
<1>4. CASE CopyDone \/ OffloadFails
  BY <1>k, <1>4 DEF CopyDone, OffloadFails
<1>5. CASE SnapshotDb
  <2>1. task.to \notin {Here, Home} /\ Same
    BY <1>5, StagesTyped DEF SnapshotDb, Opened, Relocating
  <2>2. Fewer
    BY <1>5, <2>1, SnapshotShape DEF Now
  <2> QED BY <1>k, <2>1, <2>2
<1>6. ASSUME NEW x \in Items \cup Models, CopyEntry(x) PROVE Complete'
  <2>1. Fewer
    BY <1>6, CopyShape DEF Now
  <2>2. Same
    BY <1>6 DEF CopyEntry
  <2> QED BY <1>k, <2>1, <2>2
<1>7. CASE RelocateFails
  <2>1. task.to \notin {Here, Home} /\ Same
    BY <1>7, StagesTyped DEF RelocateFails, Opened, Relocating
  <2>2. Fewer
    BY <1>7, <2>1 DEF RelocateFails, TypeOK
  <2> QED BY <1>k, <2>1, <2>2
<1>8. CASE WritePointer
  <2>1. UNCHANGED <<disk, engine, lacking>>
    BY <1>8 DEF WritePointer
  <2>2. CASE pointer' = pointer
    BY <1>k, <2>1, <2>2
  <2>3. CASE pointer' # pointer
    <3>1. pointer'.dir = task.to /\ task.to # NoDir /\ task.from = Here /\ engine.at = "up"
      BY <1>8, <1>m, <2>3, StagesTyped DEF WritePointer, Opened, Relocating
    <3>2. /\ disk[task.to].rows \subseteq disk[task.from].rows
          /\ disk[task.to].rows \cap disk[task.from].files \subseteq disk[task.to].files
      BY <1>8 DEF WritePointer, Copied
    <3>3. disk[task.to].rows \subseteq disk[task.to].files \cup lacking
      BY <3>1, <3>2 DEF Complete
    <3> QED BY <2>1, <3>1, <3>3 DEF Complete, Home, Here
  <2> QED BY <2>2, <2>3
<1>9. CASE Stop
  BY <1>9 DEF Stop, Complete, Home
<1>10. ASSUME NEW d \in Removable, Drive(d) PROVE Complete'
  BY <1>k, <1>10 DEF Drive
<1>11. CASE Boot
  <2>1. \A d \in Dirs : disk'[d].rows = disk[d].rows /\ disk'[d].files = disk[d].files
    BY <1>11 DEF Boot, TypeOK, Dir
  <2>2. engine'.at = "booting" /\ Home' = Home /\ lacking' = lacking
    BY <1>11 DEF Boot, Home
  <2> QED BY <1>m, <2>1, <2>2 DEF Complete
<1>12. CASE CleanupSkipped \/ CleanupRefused \/ CleanupOfActive \/ CleanupDelete
  <2>1. engine.at = "booting" /\ Here \in Dirs /\ Home' = Home /\ Here' = Here
    BY <1>12 DEF CleanupSkipped, CleanupRefused, CleanupOfActive, CleanupDelete, Running, Unmark, Opened, TypeOK,
                 Home, Here
  <2>2. disk'[Home] = disk[Home]
    <3>1. CASE disk' = disk
      BY <3>1
    <3>2. CASE disk' # disk
      <4>1. pointer.cleanup # NoDir
            /\ (disk' = [disk EXCEPT ![pointer.cleanup] = Empty] \/ CleanupRefused)
        BY <1>12, <3>2 DEF CleanupSkipped, CleanupRefused, CleanupOfActive, CleanupDelete
      <4>2. pointer.cleanup # Home
        BY <4>1 DEF Opened, Home
      <4> QED BY <4>1, <4>2, <1>m, RefusedShape DEF TypeOK
    <3> QED BY <3>1, <3>2
  <2>3. engine'.at = "up" => Running
    BY <1>12, <2>1 DEF CleanupSkipped, CleanupRefused, CleanupOfActive, CleanupDelete
  <2>4. lacking \subseteq lacking'
    BY <1>12 DEF CleanupSkipped, CleanupRefused, CleanupOfActive, CleanupDelete, Running
  <2>5. disk'[Home].rows \subseteq disk'[Home].files \cup lacking'
    BY <2>2, <2>4 DEF Complete
  <2>6. ASSUME engine'.at = "up" PROVE disk'[Here].rows \subseteq disk'[Here].files \cup lacking'
    <3>1. CASE Here = Home
      BY <2>5, <3>1
    <3>2. CASE Here # Home
      <4>1. lacking' = lacking \cup Lacks(Here)'
        BY <2>3, <2>6, <3>2 DEF Running
      <4> QED BY <2>1, <4>1 DEF Lacks
    <3> QED BY <3>1, <3>2
  <2> QED BY <2>1, <2>5, <2>6 DEF Complete
<1>13. CASE UNCHANGED vars
  BY <1>13 DEF vars, Complete, Home, Here
<1> QED BY <1>1, <1>2, <1>3, <1>4, <1>5, <1>6, <1>7, <1>8, <1>9, <1>10, <1>11, <1>12, <1>13 DEF Next

-----------------------------------------------------------------------------
(* The copy.                                                                *)

\* relocate_data_dir: every step keeps the copy a copy.
LEMMA CopiedStep == TypeOK /\ Opened /\ Copied /\ [Next]_vars => Copied'
<1> SUFFICES ASSUME TypeOK, Opened, Copied, [Next]_vars PROVE Copied'
  OBVIOUS
<1>m. mounted \subseteq Dirs /\ NoDir \notin Dirs /\ task \in Task
  BY HomeTyped DEF TypeOK, Task
<1>i. Models \cap Items = {}
  BY RelocationAssumption DEF Items
<1>s. ASSUME UNCHANGED <<disk, task, late>> PROVE Copied'
  BY <1>s DEF Copied
<1>e. ASSUME task'.at = "idle" PROVE Copied'
  BY <1>e, StagesTyped DEF Copied
<1>1. ASSUME NEW i \in Items, Save(i) PROVE Copied'
  <2> DEFINE h == Here
  <2>1. h \in Dirs /\ task' = task /\ (\A e \in Dirs \ {h} : disk'[e] = disk[e])
        /\ disk'[h].rows = disk[h].rows \cup {i} /\ disk'[h].files = disk[h].files \cup {i}
        /\ disk'[h].models = disk[h].models /\ disk'[h].cacheDir = disk[h].cacheDir
    BY <1>1, SaveShape DEF Now, Save
  <2> HIDE DEF h
  <2>2. Relocating => task.from = h /\ task.to # h /\ task.to \in Dirs
    BY <1>m, StagesTyped DEF Opened, Relocating, h
  <2>3. late \subseteq late'
    BY <1>1 DEF Save
  <2>4. task.at = "snapshot" => disk'[task.to] = Empty
    BY <2>1, <2>2, StagesTyped DEF Copied, Relocating
  <2>5. ASSUME task.at \in {"copy", "verify", "pointer"}
        PROVE  /\ i \in late' /\ disk'[task.to] = disk[task.to]
               /\ task.from = h /\ i \notin disk[task.to].rows
    <3>1. i \in late'
      BY <1>1, <2>5 DEF Save, Superseded
    <3>2. task.from = h /\ task.to # h /\ task.to \in Dirs
      BY <2>2, <2>5, StagesTyped DEF Relocating
    <3>3. i \notin disk[task.to].rows
      BY <1>1, <3>2 DEF Save, SavedItems
    <3> QED BY <2>1, <3>1, <3>2, <3>3
  <2>6. task.at \in {"copy", "verify", "pointer"} =>
        /\ disk'[task.to].db /\ disk'[task.to].cacheDir = disk'[task.from].cacheDir
        /\ disk'[task.from].rows \ late' \subseteq disk'[task.to].rows
        /\ disk'[task.to].rows \subseteq disk'[task.from].rows
        /\ disk'[task.to].files \subseteq disk'[task.from].files
        /\ disk'[task.to].rows \cap disk'[task.from].files \subseteq disk'[task.to].files \cup task.left
        /\ disk'[task.from].models \subseteq disk'[task.to].models \cup task.left
        /\ task.left \cap Items \subseteq disk'[task.from].files
    BY <2>1, <2>3, <2>5 DEF Copied
  <2> QED BY <2>1, <2>4, <2>6 DEF Copied
<1>2. CASE Checkpoint
  <2>1. task' = task /\ late' = late /\ disk' = [disk EXCEPT ![Here].mtime = time']
        /\ disk \in [Dirs -> Dir]
    BY <1>2 DEF Checkpoint, TypeOK
  <2>2. \A e \in Dirs \ {Here} : disk'[e] = disk[e]
    BY <2>1
  <2>3. \A e \in Dirs : /\ disk'[e].db = disk[e].db /\ disk'[e].rows = disk[e].rows
                        /\ disk'[e].files = disk[e].files /\ disk'[e].models = disk[e].models
                        /\ disk'[e].cacheDir = disk[e].cacheDir
    BY <2>1 DEF Dir
  <2>4. Relocating => task.from \in Dirs /\ task.to \in Dirs \ {Here}
    BY <1>m, StagesTyped DEF Opened, Relocating
  <2>5. task.at = "snapshot" => disk'[task.to] = Empty
    BY <2>2, <2>4, StagesTyped DEF Copied, Relocating
  <2> QED BY <2>1, <2>3, <2>4, <2>5, StagesTyped DEF Copied, Relocating
<1>3. ASSUME NEW to \in Dirs, RelocateBegin(to) PROVE Copied'
  <2>1. task'.at = "snapshot" /\ task'.to = to /\ disk'[to] = Empty
    BY <1>3 DEF RelocateBegin, NoTask
  <2> QED BY <2>1, StagesTyped DEF Copied
<1>4. ASSUME NEW to \in Dirs, OffloadBegin(to) PROVE Copied'
  <2>1. task'.at = "cachecopy" /\ task'.left = Seen(CacheRoot(Here))
    BY <1>4 DEF OffloadBegin, NoTask
  <2>2. Seen(CacheRoot(Here)) \subseteq Models
    BY <1>4, DiskTyped DEF OffloadBegin, Opened, Seen
  <2> QED BY <2>1, <2>2, StagesTyped DEF Copied
<1>5. CASE SnapshotDb
  <2> DEFINE f == task.from  d == task.to
  <2>1. f \in Dirs /\ d \in Dirs /\ f # d /\ disk[d] = Empty
    BY <1>5, <1>m, StagesTyped DEF SnapshotDb, Opened, Copied, Relocating
  <2>2. Now(d, TRUE, disk[f].rows, {}, {}, disk[f].cacheDir)
    <3>1. disk[d].files = {} /\ disk[d].models = {}
      BY <2>1 DEF Empty
    <3>2. Now(d, TRUE, disk[f].rows, disk[d].files, disk[d].models, disk[f].cacheDir)
      BY <1>5, SnapshotShape
    <3> HIDE DEF f, d
    <3> QED BY <3>1, <3>2
  <2>3. task'.at = "copy" /\ task'.from = f /\ task'.to = d /\ late' = late
        /\ task'.left = disk[f].files \cup disk[f].models
    BY <1>5, <1>m DEF SnapshotDb, Task
  <2>4. disk[f].models \subseteq Models
    BY <2>1, DiskTyped
  <2> HIDE DEF f, d
  <2> QED BY <1>i, <2>1, <2>2, <2>3, <2>4, StagesTyped DEF Copied, Now
<1>6. ASSUME NEW x \in Items \cup Models, CopyEntry(x) PROVE Copied'
  <2> DEFINE f == task.from  d == task.to
  <2>1. f \in Dirs /\ d \in Dirs /\ x \in task.left /\ late' = late
        /\ task'.at = task.at /\ task'.from = f /\ task'.to = d /\ task'.left = task.left \ {x}
        /\ task.at \in {"copy", "cachecopy"}
    BY <1>6, <1>m DEF CopyEntry, Opened, Task
  <2>2. Now(d, disk[d].db, disk[d].rows, disk[d].files \cup ({x} \cap Items),
            disk[d].models \cup ({x} \cap Models), disk[d].cacheDir)
    BY <1>6, CopyShape
  <2>3. CASE task.at = "cachecopy"
    BY <2>1, <2>3, StagesTyped DEF Copied
  <2>4. CASE task.at = "copy"
    <3>1. f # d
      BY <2>4, StagesTyped DEF Opened, Relocating
    <3>2. disk[d].rows \subseteq Items /\ disk[f].models \subseteq Models
      BY <2>1, DiskTyped
    <3>3. /\ disk[d].db /\ disk[d].cacheDir = disk[f].cacheDir
          /\ disk[f].rows \ late \subseteq disk[d].rows
          /\ disk[d].rows \subseteq disk[f].rows
          /\ disk[d].files \subseteq disk[f].files
          /\ disk[d].rows \cap disk[f].files \subseteq disk[d].files \cup task.left
          /\ disk[f].models \subseteq disk[d].models \cup task.left
          /\ task.left \cap Items \subseteq disk[f].files
      BY <2>4 DEF Copied
    <3> HIDE DEF f, d
    <3>4. /\ disk'[d].db /\ disk'[d].cacheDir = disk'[f].cacheDir
          /\ disk'[f].rows \ late' \subseteq disk'[d].rows
          /\ disk'[d].rows \subseteq disk'[f].rows
          /\ disk'[d].files \subseteq disk'[f].files
          /\ disk'[d].rows \cap disk'[f].files \subseteq disk'[d].files \cup task'.left
          /\ disk'[f].models \subseteq disk'[d].models \cup task'.left
          /\ task'.left \cap Items \subseteq disk'[f].files
      BY <2>1, <2>2, <3>1, <3>2, <3>3 DEF Now
    <3> QED BY <2>1, <2>4, <3>4, StagesTyped DEF Copied
  <2> QED BY <2>1, <2>3, <2>4
<1>7. CASE CopyDone
  <2>1. task.at = "copy" /\ task.left = {} /\ UNCHANGED <<disk, late>>
        /\ task'.at = "verify" /\ task'.from = task.from /\ task'.to = task.to /\ task'.left = task.left
    BY <1>7, <1>m DEF CopyDone, Task
  <2> QED BY <2>1, StagesTyped DEF Copied
<1>8. CASE VerifyCopy
  <2>1. task.at = "verify" /\ late' = late
        /\ task'.at = "pointer" /\ task'.from = task.from /\ task'.to = task.to /\ task'.left = task.left
        /\ task.from \in Dirs /\ task.to \in Dirs
    BY <1>8, <1>m DEF VerifyCopy, Opened, Task
  <2>2. \A e \in Dirs : /\ disk'[e].db = disk[e].db /\ disk'[e].rows = disk[e].rows
                        /\ disk'[e].files = disk[e].files /\ disk'[e].models = disk[e].models
                        /\ disk'[e].cacheDir = disk[e].cacheDir
    BY <1>8 DEF VerifyCopy, TypeOK, Dir
  <2> QED BY <2>1, <2>2, StagesTyped DEF Copied
<1>9. CASE RelocateFails \/ WritePointer \/ OffloadFails \/ OffloadRemove \/ Stop
  BY <1>e, <1>9 DEF RelocateFails, WritePointer, OffloadFails, OffloadRemove, Stop, NoTask
<1>10. CASE OffloadPersist
  <2>1. task'.at = "remove" /\ task'.left = {}
    BY <1>10, <1>m DEF OffloadPersist, Task
  <2> QED BY <2>1, StagesTyped DEF Copied
<1>11. CASE ClearModelCache \/ Boot \/ CleanupSkipped \/ CleanupRefused \/ CleanupOfActive
            \/ CleanupDelete \/ \E d \in Removable : Drive(d)
  <2>1. task'.at = "idle"
    BY <1>11 DEF ClearModelCache, Boot, CleanupSkipped, CleanupRefused, CleanupOfActive, CleanupDelete, Drive, Opened
  <2> QED BY <1>e, <2>1
<1>12. CASE UNCHANGED vars
  BY <1>s, <1>12 DEF vars
<1> QED BY <1>1, <1>2, <1>3, <1>4, <1>5, <1>6, <1>7, <1>8, <1>9, <1>10, <1>11, <1>12 DEF Next

-----------------------------------------------------------------------------
(* The directory to be deleted.                                             *)

\* Nothing becomes whole in it, and what is whole in the pointer's stays so.
LEMMA OldKept ==
    ASSUME OldIsCopied, UNCHANGED pointer, late \subseteq late',
           pointer.cleanup # NoDir =>
               \A i \in Items \ late' :
                   /\ Whole(i, pointer.cleanup)' => Whole(i, pointer.cleanup)
                   /\ Whole(i, pointer.dir) => Whole(i, pointer.dir)'
    PROVE  OldIsCopied'
BY DEF OldIsCopied, Whole

\* reconcile_on_boot: what the directory to be deleted holds stays in the pointer's.
LEMMA OldStep == TypeOK /\ Opened /\ Copied /\ OldIsCopied /\ [Next]_vars => OldIsCopied'
<1> SUFFICES ASSUME TypeOK, Opened, Copied, OldIsCopied, [Next]_vars PROVE OldIsCopied'
  OBVIOUS
<1>m. /\ mounted \subseteq Dirs /\ NoDir \notin Dirs /\ task \in Task
      /\ pointer.cleanup # NoDir => pointer.cleanup \in Dirs /\ pointer.dir \in Dirs
                                    /\ pointer.dir # pointer.cleanup /\ Home = pointer.dir
  BY HomeTyped DEF TypeOK, Task, Opened, Home
<1>s. ASSUME UNCHANGED <<pointer, late>>,
             \A d \in Dirs : disk'[d].rows = disk[d].rows /\ disk'[d].files = disk[d].files
      PROVE  OldIsCopied'
  BY <1>m, <1>s, OldKept DEF Whole
<1>1. ASSUME NEW i \in Items, Save(i) PROVE OldIsCopied'
  <2> DEFINE h == Here
  <2>1. pointer' = pointer /\ late \subseteq late'
    BY <1>1 DEF Save
  <2>2. h \in Dirs /\ (\A e \in Dirs \ {h} : disk'[e] = disk[e])
        /\ disk'[h].rows = disk[h].rows \cup {i} /\ disk'[h].files = disk[h].files \cup {i}
    BY <1>1, SaveShape DEF Now
  <2>3. ASSUME pointer.cleanup = h, pointer.cleanup # NoDir PROVE i \in late'
    <3>1. ResolveDataDir = pointer.dir /\ pointer.dir # h
      BY <1>m, <1>1, <2>3 DEF Save, Opened, ResolveDataDir
    <3> QED BY <1>1, <3>1 DEF Save, Superseded
  <2> HIDE DEF h
  <2>4. ASSUME pointer.cleanup # NoDir, NEW j \in Items \ late'
        PROVE  /\ Whole(j, pointer.cleanup)' => Whole(j, pointer.cleanup)
               /\ Whole(j, pointer.dir) => Whole(j, pointer.dir)'
    <3>1. pointer.cleanup = h => j # i
      BY <2>3, <2>4
    <3>2. Whole(j, pointer.cleanup)' => Whole(j, pointer.cleanup)
      BY <1>m, <2>1, <2>2, <2>4, <3>1 DEF Whole
    <3>3. Whole(j, pointer.dir) => Whole(j, pointer.dir)'
      BY <1>m, <2>1, <2>2, <2>4 DEF Whole
    <3> QED BY <3>2, <3>3
  <2> QED BY <2>1, <2>4, OldKept
<1>2. CASE Checkpoint \/ VerifyCopy \/ OffloadRemove \/ Boot \/ CleanupRefused
  <2>1. CASE CleanupRefused
    <3>1. \A d \in Dirs : disk'[d].rows = disk[d].rows /\ disk'[d].files = disk[d].files
      BY <2>1, RefusedShape
    <3>2. UNCHANGED <<pointer, late>>
      BY <2>1 DEF CleanupRefused
    <3> QED BY <1>m, <3>1, <3>2, OldKept DEF Whole
  <2> QED BY <2>1, <1>s, <1>2 DEF Checkpoint, VerifyCopy, OffloadRemove, Boot, TypeOK, Dir
<1>3. CASE OffloadPersist \/ ClearModelCache
  <2>1. \A d \in Dirs : disk'[d].rows = disk[d].rows /\ disk'[d].files = disk[d].files
    BY <1>3 DEF OffloadPersist, ClearModelCache, TypeOK, Dir
  <2>2. pointer' = pointer /\ late \subseteq late'
    BY <1>3 DEF OffloadPersist, ClearModelCache
  <2> QED BY <1>m, <2>1, <2>2, OldKept DEF Whole
<1>4. ASSUME NEW d \in Dirs, RelocateBegin(d) \/ OffloadBegin(d) PROVE OldIsCopied'
  BY <1>s, <1>4 DEF RelocateBegin, OffloadBegin
<1>5. CASE CopyDone \/ OffloadFails \/ Stop \/ CleanupSkipped \/ \E d \in Removable : Drive(d)
  BY <1>s, <1>5 DEF CopyDone, OffloadFails, Stop, CleanupSkipped, Drive
<1>6. CASE SnapshotDb
  <2>1. task.to # pointer.cleanup /\ task.to # Home /\ UNCHANGED <<pointer, late>>
    BY <1>6, StagesTyped DEF SnapshotDb, Opened, Relocating
  <2>2. \A e \in Dirs \ {task.to} : disk'[e] = disk[e]
    BY <1>6, SnapshotShape DEF Now
  <2> QED BY <1>m, <2>1, <2>2, OldKept DEF Whole
<1>7. ASSUME NEW x \in Items \cup Models, CopyEntry(x) PROVE OldIsCopied'
  <2>1. UNCHANGED <<pointer, late>>
    BY <1>7 DEF CopyEntry
  <2>2. CASE task.at = "copy"
    <3>1. task.to # pointer.cleanup /\ task.to # Home
      BY <2>2, StagesTyped DEF Opened, Relocating
    <3>2. \A e \in Dirs \ {task.to} : disk'[e] = disk[e]
      BY <1>7, CopyShape DEF Now
    <3> QED BY <1>m, <2>1, <3>1, <3>2, OldKept DEF Whole
  <2>3. CASE task.at = "cachecopy"
    <3>1. {x} \cap Items = {}
      BY <1>7, <2>3, StagesTyped, RelocationAssumption DEF CopyEntry, Copied, Items
    <3>2. \A d \in Dirs : disk'[d].rows = disk[d].rows /\ disk'[d].files = disk[d].files
      BY <1>7, <3>1, CopyShape DEF Now
    <3> QED BY <1>s, <2>1, <3>2
  <2> QED BY <1>7, <2>2, <2>3 DEF CopyEntry
<1>8. CASE RelocateFails
  <2>1. task.to # pointer.cleanup /\ task.to # Home /\ UNCHANGED <<pointer, late>>
    BY <1>8, StagesTyped DEF RelocateFails, Opened, Relocating
  <2>2. \A e \in Dirs \ {task.to} : disk'[e] = disk[e]
    BY <1>8 DEF RelocateFails, TypeOK
  <2> QED BY <1>m, <2>1, <2>2, OldKept DEF Whole
<1>9. CASE WritePointer
  <2>1. UNCHANGED <<disk, late>>
    BY <1>9 DEF WritePointer
  <2>2. CASE pointer' = pointer
    BY <1>s, <2>1, <2>2
  <2>3. CASE pointer' # pointer
    <3>1. pointer'.dir = task.to /\ pointer'.cleanup = task.from
      BY <1>9, <2>3 DEF WritePointer
    <3>2. /\ disk[task.from].rows \ late \subseteq disk[task.to].rows
          /\ disk[task.to].rows \cap disk[task.from].files \subseteq disk[task.to].files
      BY <1>9 DEF WritePointer, Copied
    <3> QED BY <2>1, <3>1, <3>2 DEF OldIsCopied, Whole
  <2> QED BY <2>2, <2>3
<1>10. CASE CleanupOfActive
  <2>1. pointer'.cleanup = NoDir
    BY <1>10 DEF CleanupOfActive, Unmark, TypeOK
  <2> QED BY <2>1 DEF OldIsCopied
<1>11. CASE CleanupDelete
  <2>1. CASE pointer' = pointer
    <3>1. \A e \in Dirs \ {pointer.cleanup} : disk'[e] = disk[e]
      BY <1>11 DEF CleanupDelete, TypeOK
    <3>2. disk' = disk \/ (pointer.cleanup \in Dirs => disk'[pointer.cleanup] = Empty)
      BY <1>11 DEF CleanupDelete, TypeOK
    <3>3. late' = late
      BY <1>11 DEF CleanupDelete
    <3> QED BY <1>m, <2>1, <3>1, <3>2, <3>3, OldKept DEF Whole, Empty
  <2>2. CASE pointer' # pointer
    <3>1. pointer'.cleanup = NoDir
      BY <1>11, <2>2 DEF CleanupDelete, Unmark, TypeOK
    <3> QED BY <3>1 DEF OldIsCopied
  <2> QED BY <2>1, <2>2
<1>12. CASE UNCHANGED vars
  BY <1>s, <1>12 DEF vars
<1> QED BY <1>1, <1>2, <1>3, <1>4, <1>5, <1>6, <1>7, <1>8, <1>9, <1>10, <1>11, <1>12 DEF Next

-----------------------------------------------------------------------------
(* The models.                                                              *)

\* Models that were cleared or lost stay so.
LEMMA GoneStays ==
    ASSUME Gone, late \subseteq late', lacking \subseteq lacking'
    PROVE  Gone' /\ CacheReferenced' /\ \A s : Models \ (late' \cup lacking') \subseteq s
BY DEF Gone, CacheReferenced

\* A step that changes no configuration in use and takes no model from a root in
\* use, unless it is recorded or there is none to speak of.
LEMMA RootedKept ==
    ASSUME TypeOK, Opened, Rooted, UNCHANGED <<pointer, engine>>,
           late \subseteq late', lacking \subseteq lacking',
           \A d \in Dirs : disk'[d].cacheDir = d => disk[d].cacheDir = d \/ Gone,
           \A d \in {Here, Home} \cap Dirs : disk'[d].cacheDir = disk[d].cacheDir,
           \A d \in {CacheRoot(Here), CacheRoot(Home)} \cap Dirs :
               disk[d].models \ late' \subseteq disk'[d].models \/ Gone,
           \/ task'.at = "idle"
           \/ /\ task'.from = task.from /\ task'.to = task.to
              /\ task'.at = task.at \/ {task.at, task'.at} \subseteq RelocationStages
              /\ mounted' = mounted
              /\ task.at = "cachecopy" /\ task.from \in mounted =>
                    disk'[task.from].models \subseteq disk'[task.to].models \cup task'.left
    PROVE  Rooted'
<1>1. /\ Home' = Home /\ Here' = Here /\ Home \in Dirs /\ CacheRoot(Home) \in Dirs
      /\ CacheRoot(Home)' = CacheRoot(Home)
  BY HomeTyped, DiskTyped DEF Home, Here, CacheRoot
<1>2. engine.at = "up" => Here \in Dirs /\ CacheRoot(Here) \in Dirs /\ CacheRoot(Here)' = CacheRoot(Here)
  BY <1>1, DiskTyped DEF Opened, CacheRoot
<1>3. task.at # "idle" => engine.at = "up"
  BY DEF Opened
<1>4. Gone => Gone'
  BY GoneStays
<1>5. CacheReferenced'
  BY <1>1, GoneStays DEF Rooted, CacheReferenced
<1>6. engine'.at = "up" => Models \ (late' \cup lacking') \subseteq disk'[CacheRoot(Here)'].models
  BY <1>2, GoneStays DEF Rooted
<1>7. \A d \in Dirs : disk'[d].cacheDir = d => Gone'
  BY <1>4 DEF Rooted
<1>8. pointer'.cleanup # NoDir /\ CacheRoot(pointer.dir)' = pointer'.cleanup => Gone'
  <2>1. pointer.cleanup # NoDir => pointer.dir = Home
    BY DEF Opened, Home
  <2> QED BY <1>1, <1>4, <2>1 DEF Rooted
<1>9. task'.at \in RelocationStages /\ task'.to \in {CacheRoot(Here)', CacheRoot(Home)'} => Gone'
  BY <1>1, <1>2, <1>3, <1>4, StagesTyped DEF Rooted, Relocating
<1>10. task'.at = "cachecopy" =>
        /\ task'.from = CacheRoot(Here)' /\ task'.to # task'.from
        /\ task'.from \in mounted' => disk'[task'.from].models \subseteq disk'[task'.to].models \cup task'.left
  BY <1>2, <1>3, StagesTyped DEF Rooted
<1>11. task'.at = "remove" =>
        task'.from # CacheRoot(Here)' /\ (task'.from # CacheRoot(Home)' \/ Gone')
  BY <1>1, <1>2, <1>3, <1>4, StagesTyped DEF Rooted
<1> QED BY <1>1, <1>5, <1>6, <1>7, <1>8, <1>9, <1>10, <1>11 DEF Rooted, Relocating, Here

\* A step without a task: the start of the engine, its clean-up, its end.
LEMMA RootedBooting ==
    ASSUME TypeOK, Opened, Rooted, task'.at = "idle", pointer'.dir = pointer.dir,
           pointer'.cleanup \in {NoDir, pointer.cleanup},
           late' = late, lacking \subseteq lacking', disk'[Home].cacheDir = disk[Home].cacheDir,
           \A d \in Dirs : disk'[d].cacheDir = d => disk[d].cacheDir = d \/ Gone,
           disk[CacheRoot(Home)].models \subseteq disk'[CacheRoot(Home)].models \/ Gone,
           \/ engine'.at # "up"
           \/ /\ engine'.at = "up"
              /\ Here' = Home \/ Lacks(Here)' \subseteq lacking'
    PROVE  Rooted'
<1>1. /\ Home' = Home /\ Home \in Dirs /\ CacheRoot(Home) \in Dirs
      /\ CacheRoot(Home)' = CacheRoot(Home)
  BY HomeTyped, DiskTyped DEF Home, CacheRoot
<1>4. Gone => Gone'
  BY GoneStays
<1>5. Models \ (late' \cup lacking') \subseteq disk'[CacheRoot(Home)'].models
  BY <1>1, GoneStays DEF Rooted, CacheReferenced
<1>6. ASSUME engine'.at = "up"
      PROVE  Models \ (late' \cup lacking') \subseteq disk'[CacheRoot(Here)'].models
  <2>1. CASE Here' = Home
    <3>1. CacheRoot(Here)' = CacheRoot(Home)'
      BY <1>1, <2>1 DEF CacheRoot
    <3> QED BY <1>5, <3>1
  <2>2. CASE Lacks(Here)' \subseteq lacking'
    BY <2>2 DEF Lacks
  <2> QED BY <1>6, <2>1, <2>2
<1>7. \A d \in Dirs : disk'[d].cacheDir = d => Gone'
  BY <1>4 DEF Rooted
<1>8. pointer'.cleanup # NoDir /\ CacheRoot(pointer.dir)' = pointer'.cleanup => Gone'
  <2>1. pointer.cleanup # NoDir => pointer.dir = Home
    BY DEF Opened, Home
  <2>2. pointer.cleanup # NoDir => CacheRoot(pointer.dir)' = CacheRoot(pointer.dir)
    BY <1>1, <2>1 DEF CacheRoot
  <2> QED BY <1>4, <2>2 DEF Rooted
<1> QED BY <1>1, <1>5, <1>6, <1>7, <1>8, StagesTyped DEF Rooted, CacheReferenced, Relocating

\* offload_cache: every step keeps the models under the configured root.
LEMMA RootedStep ==
    TypeOK /\ Opened /\ Copied /\ Rooted /\ [Next]_vars => Rooted'
<1> SUFFICES ASSUME TypeOK, Opened, Copied, Rooted, [Next]_vars PROVE Rooted'
  OBVIOUS
<1>m. mounted \subseteq Dirs /\ NoDir \notin Dirs /\ task \in Task /\ Home \in Dirs
      /\ disk \in [Dirs -> Dir] /\ pointer \in [dir : Dirs \cup {NoDir}, cleanup : Dirs \cup {NoDir}]
      /\ engine \in [at : {"down", "booting", "up"}, dir : Dirs \cup {NoDir}]
  BY HomeTyped DEF TypeOK, Task
<1>r. /\ CacheRoot(Home) \in Dirs /\ Models \ (late \cup lacking) \subseteq disk[CacheRoot(Home)].models
      /\ engine.at = "up" => /\ Here \in Dirs /\ CacheRoot(Here) \in Dirs
                             /\ Models \ (late \cup lacking) \subseteq disk[CacheRoot(Here)].models
  BY <1>m, DiskTyped DEF Rooted, CacheReferenced, Opened
\* No configuration changes and no models go.
<1>k. ASSUME UNCHANGED <<pointer, engine>>, late \subseteq late', lacking' = lacking,
             \A d \in Dirs : disk'[d].cacheDir = disk[d].cacheDir
                             /\ disk[d].models \subseteq disk'[d].models,
             \/ task'.at = "idle"
             \/ /\ task'.from = task.from /\ task'.to = task.to
                /\ task'.at = task.at \/ {task.at, task'.at} \subseteq RelocationStages
                /\ mounted' = mounted
                /\ task.at = "cachecopy" /\ task.from \in mounted =>
                      disk'[task.from].models \subseteq disk'[task.to].models \cup task'.left
      PROVE  Rooted'
  BY <1>k, RootedKept
<1>1. ASSUME NEW i \in Items, Save(i) PROVE Rooted'
  <2>1. UNCHANGED <<mounted, pointer, engine, task, lacking>> /\ late \subseteq late'
    BY <1>1 DEF Save
  <2>2. \A d \in Dirs : disk'[d].cacheDir = disk[d].cacheDir /\ disk'[d].models = disk[d].models
    BY <1>1, SaveShape DEF Now
  <2>3. task.at = "cachecopy" /\ task.from \in mounted =>
            disk'[task.from].models \subseteq disk'[task.to].models \cup task.left
    BY <1>m, <2>2 DEF Opened, Rooted
  <2> QED BY <1>k, <2>1, <2>2, <2>3
<1>2. CASE Checkpoint
  <2>1. UNCHANGED <<mounted, pointer, engine, task, late, lacking>>
    BY <1>2 DEF Checkpoint
  <2>2. \A d \in Dirs : disk'[d].cacheDir = disk[d].cacheDir /\ disk'[d].models = disk[d].models
    BY <1>2, <1>m DEF Checkpoint, Dir
  <2>3. task.at = "cachecopy" /\ task.from \in mounted =>
            disk'[task.from].models \subseteq disk'[task.to].models \cup task.left
    BY <1>m, <2>2 DEF Opened, Rooted
  <2> QED BY <1>k, <2>1, <2>2, <2>3
<1>3. ASSUME NEW to \in Dirs, RelocateBegin(to) PROVE Rooted'
  <2>1. UNCHANGED <<disk, pointer, engine, late, lacking>> /\ engine.at = "up"
        /\ task'.at = "snapshot" /\ task'.to = to
    BY <1>3 DEF RelocateBegin, NoTask
  <2>2. disk[to].models = {}
    BY <1>3 DEF RelocateBegin, Empty
  <2>3. to \in {CacheRoot(Here), CacheRoot(Home)} => Gone
    BY <1>r, <2>1, <2>2 DEF Gone
  <2>4. Home' = Home /\ Here' = Here /\ (Gone => Gone') /\ \A d : CacheRoot(d)' = CacheRoot(d)
    BY <2>1 DEF Home, Here, Gone, CacheRoot
  <2> QED BY <2>1, <2>3, <2>4, StagesTyped DEF Rooted, CacheReferenced, Relocating
<1>4. ASSUME NEW to \in Dirs, OffloadBegin(to) PROVE Rooted'
  <2>1. UNCHANGED <<disk, pointer, engine, late, lacking>> /\ engine.at = "up"
        /\ task'.at = "cachecopy" /\ task'.to = to /\ task'.from = CacheRoot(Here)
        /\ to # CacheRoot(Here) /\ mounted' = mounted
        /\ (CacheRoot(Here) \in mounted => task'.left = disk[CacheRoot(Here)].models)
    BY <1>4 DEF OffloadBegin, NoTask, Seen
  <2>2. Home' = Home /\ Here' = Here /\ (Gone => Gone') /\ \A d : CacheRoot(d)' = CacheRoot(d)
    BY <2>1 DEF Home, Here, Gone, CacheRoot
  <2> QED BY <2>1, <2>2, StagesTyped DEF Rooted, CacheReferenced, Relocating
<1>5. CASE SnapshotDb
  <2> DEFINE f == task.from  d == task.to
  <2>1. /\ UNCHANGED <<mounted, pointer, engine, late, lacking>> /\ engine.at = "up"
        /\ task'.from = f /\ task'.to = d /\ task.at = "snapshot" /\ task'.at = "copy"
        /\ f = Here /\ d \notin {Here, Home} /\ d \in Dirs
    BY <1>5, <1>m, StagesTyped DEF SnapshotDb, Opened, Relocating, Task
  <2>2. Now(d, TRUE, disk[f].rows, disk[d].files, disk[d].models, disk[f].cacheDir)
    BY <1>5, SnapshotShape
  <2>3. disk[f].cacheDir = d => Gone
    BY <1>m, <2>1, StagesTyped DEF Rooted, CacheRoot, Relocating
  <2> HIDE DEF f, d
  <2>4. \A e \in Dirs : disk'[e].cacheDir = e => disk[e].cacheDir = e \/ Gone
    BY <2>2, <2>3 DEF Now
  <2>5. \A e \in {Here, Home} \cap Dirs : disk'[e].cacheDir = disk[e].cacheDir
    BY <2>1, <2>2 DEF Now
  <2>6. \A e \in Dirs : disk'[e].models = disk[e].models
    BY <2>2 DEF Now
  <2> QED BY <2>1, <2>4, <2>5, <2>6, StagesTyped, RootedKept DEF f, d
<1>6. ASSUME NEW x \in Items \cup Models, CopyEntry(x) PROVE Rooted'
  <2> DEFINE f == task.from  d == task.to
  <2>1. /\ UNCHANGED <<mounted, pointer, engine, late, lacking>> /\ task'.from = f /\ task'.to = d
        /\ task'.at = task.at /\ task'.left = task.left \ {x} /\ f \in Dirs /\ d \in Dirs
    BY <1>6, <1>m DEF CopyEntry, Opened, Task
  <2>2. Now(d, disk[d].db, disk[d].rows, disk[d].files \cup ({x} \cap Items),
            disk[d].models \cup ({x} \cap Models), disk[d].cacheDir)
    BY <1>6, CopyShape
  <2>3. task.at = "cachecopy" /\ f \in mounted =>
            f # d /\ disk[f].models \subseteq disk[d].models \cup task.left
    BY DEF Rooted
  <2>4. disk[f].models \subseteq Models
    BY <2>1, DiskTyped
  <2> HIDE DEF f, d
  <2>5. \A e \in Dirs : disk'[e].cacheDir = disk[e].cacheDir /\ disk[e].models \subseteq disk'[e].models
    BY <2>2 DEF Now
  <2>6. task.at = "cachecopy" /\ f \in mounted => disk'[f].models \subseteq disk'[d].models \cup task'.left
    BY <2>1, <2>2, <2>3, <2>4 DEF Now
  <2> QED BY <1>k, <2>1, <2>5, <2>6 DEF f, d
<1>7. CASE CopyDone \/ VerifyCopy
  <2>1. /\ UNCHANGED <<mounted, pointer, engine, late, lacking>> /\ task'.from = task.from /\ task'.to = task.to
        /\ {task.at, task'.at} \subseteq RelocationStages /\ task.at # "cachecopy"
    BY <1>7, <1>m, StagesTyped DEF CopyDone, VerifyCopy, Task
  <2>2. \A e \in Dirs : disk'[e].cacheDir = disk[e].cacheDir /\ disk'[e].models = disk[e].models
    BY <1>7, <1>m DEF CopyDone, VerifyCopy, Dir
  <2> QED BY <1>k, <2>1, <2>2
<1>8. CASE RelocateFails
  <2>1. /\ UNCHANGED <<pointer, engine, late, lacking>> /\ task'.at = "idle"
        /\ task.to \notin {Here, Home} /\ engine.at = "up" /\ task.at \in RelocationStages
    BY <1>8, StagesTyped DEF RelocateFails, Opened, Relocating, NoTask
  <2>2. (\A e \in Dirs \ {task.to} : disk'[e] = disk[e])
        /\ (task.to \in Dirs => disk'[task.to] = disk[task.to] \/ disk'[task.to] = Empty)
    BY <1>8, <1>m DEF RelocateFails
  <2>3. \A e \in Dirs : disk'[e].cacheDir = e => disk[e].cacheDir = e \/ Gone
    BY <1>m, <2>2 DEF Empty
  <2>4. \A e \in {Here, Home} \cap Dirs : disk'[e].cacheDir = disk[e].cacheDir
    BY <2>1, <2>2
  <2>5. \A e \in {CacheRoot(Here), CacheRoot(Home)} \cap Dirs :
            disk[e].models \subseteq disk'[e].models \/ Gone
    BY <2>1, <2>2 DEF Rooted, Relocating
  <2> QED BY <2>1, <2>3, <2>4, <2>5, RootedKept
<1>9. CASE WritePointer
  <2>1. UNCHANGED <<disk, engine, late, lacking>> /\ task'.at = "idle"
    BY <1>9 DEF WritePointer, NoTask
  <2>2. CASE pointer' = pointer
    BY <1>k, <2>1, <2>2
  <2>3. CASE pointer' # pointer
    <3> DEFINE f == task.from  d == task.to
    <3>1. pointer'.dir = d /\ pointer'.cleanup = f
      BY <1>9, <2>3 DEF WritePointer
    <3>2. f = Here /\ d # f /\ d \in Dirs /\ f \in Dirs /\ engine.at = "up"
      BY <1>9, <1>m, StagesTyped DEF WritePointer, Opened, Relocating
    <3>3. disk[d].cacheDir = disk[f].cacheDir /\ disk[f].models \subseteq disk[d].models
      BY <1>9 DEF WritePointer, Copied
    <3>4. Models \ (late \cup lacking) \subseteq disk[CacheRoot(f)].models
      BY <1>r, <3>2
    <3>5. disk[f].cacheDir = f => Gone
      BY <3>2 DEF Rooted
    <3>6. Home' = d /\ Here' = Here /\ (Gone => Gone') /\ \A e : CacheRoot(e)' = CacheRoot(e)
      BY <1>m, <2>1, <3>1, <3>2 DEF Home, Here, Gone, CacheRoot
    <3> HIDE DEF f, d
    <3>7. CacheReferenced'
      BY <2>1, <3>3, <3>4, <3>6 DEF CacheReferenced, CacheRoot
    <3>8. CacheRoot(d) = f => Gone
      BY <1>m, <3>2, <3>3, <3>5 DEF CacheRoot
    <3>9. pointer'.cleanup # NoDir /\ CacheRoot(pointer.dir)' = pointer'.cleanup => Gone'
      BY <2>1, <3>1, <3>6, <3>8 DEF CacheRoot
    <3> QED BY <2>1, <3>6, <3>7, <3>9, StagesTyped DEF Rooted, Relocating
  <2> QED BY <2>2, <2>3
<1>10. CASE OffloadFails
  <2>1. UNCHANGED <<disk, pointer, engine, late, lacking>> /\ task'.at = "idle"
    BY <1>10 DEF OffloadFails, NoTask
  <2> QED BY <1>k, <2>1
<1>11. CASE OffloadPersist
  <2> DEFINE h == Here  to == task.to  c == IF to = h THEN NoDir ELSE to
  <2>1. /\ UNCHANGED <<pointer, engine, lacking>> /\ task.left = {}
        /\ task'.at = "remove" /\ task'.from = task.from /\ task.at = "cachecopy"
        /\ task.from = CacheRoot(h) /\ to # task.from
        /\ task.from \in mounted => disk[task.from].models \subseteq disk[to].models
        /\ engine.at = "up" /\ h \in Dirs /\ to \in Dirs
    BY <1>11, <1>m, <1>r DEF OffloadPersist, Opened, Rooted, Task
  <2>2. Now(h, disk[h].db, disk[h].rows, disk[h].files, disk[h].models, c)
    <3>1. c \in Dirs \cup {NoDir} /\ disk' = [disk EXCEPT ![h].cacheDir = c]
      BY <1>11, <2>1 DEF OffloadPersist
    <3> HIDE DEF c, h
    <3> QED BY <2>1, <3>1, CacheShape
  <2>3. late \subseteq late'
        /\ (Home # h \/ to = pointer.cleanup \/ task.from \notin mounted => Models \subseteq late')
    BY <1>11 DEF OffloadPersist
  <2>4. Home' = Home /\ Here' = h
    BY <2>1 DEF Home, Here
  <2>5. Models \ (late' \cup lacking) \subseteq disk[to].models
    BY <1>r, <2>1, <2>3
  <2>6. CacheRoot(Here)' = to
    <3> HIDE DEF h, to
    <3> QED BY <1>m, <2>1, <2>2, <2>4 DEF CacheRoot, Now
  <2> HIDE DEF h, to
  <2>7. \A e \in Dirs : disk'[e].models = disk[e].models
    BY <2>2 DEF Now
  <2>8. Models \ (late' \cup lacking') \subseteq disk'[to].models
    BY <2>1, <2>3, <2>5, <2>7
  <2>9. (Gone \/ Home # h => Gone') /\ (Home = h => CacheRoot(Home)' = to)
    BY <2>1, <2>3, <2>4, <2>6 DEF Gone
  <2>10. CacheReferenced'
    BY <2>8, <2>9 DEF CacheReferenced, Gone
  <2>11. \A e \in Dirs : disk'[e].cacheDir = e => Gone'
    BY <1>m, <2>2, <2>9 DEF Now, Rooted
  <2>12. pointer'.cleanup # NoDir /\ CacheRoot(pointer.dir)' = pointer'.cleanup => Gone'
    <3>1. pointer.cleanup # NoDir => Home = pointer.dir
      BY DEF Opened, Home
    <3>2. pointer.cleanup # NoDir => CacheRoot(pointer.dir)' = CacheRoot(Home)'
      BY <2>1, <2>4, <3>1 DEF CacheRoot
    <3>3. to = pointer.cleanup => Gone'
      BY <2>3 DEF Gone
    <3> QED BY <2>1, <2>9, <3>2, <3>3
  <2>13. task'.from # CacheRoot(Here)' /\ (task'.from # CacheRoot(Home)' \/ Gone')
    BY <2>1, <2>6, <2>9
  <2> QED BY <2>1, <2>6, <2>8, <2>10, <2>11, <2>12, <2>13, StagesTyped DEF Rooted, Relocating
<1>12. CASE OffloadRemove
  <2>1. /\ UNCHANGED <<pointer, engine, late, lacking>> /\ task'.at = "idle"
        /\ task.from # CacheRoot(Here) /\ (task.from # CacheRoot(Home) \/ Gone)
        /\ task.from \in Dirs
    BY <1>12 DEF OffloadRemove, NoTask, Rooted, Opened
  <2>2. /\ \A e \in Dirs : disk'[e].cacheDir = disk[e].cacheDir
        /\ \A e \in Dirs \ {task.from} : disk'[e] = disk[e]
    BY <1>12, <1>m DEF OffloadRemove, Dir
  <2> QED BY <2>1, <2>2, RootedKept
<1>13. CASE ClearModelCache
  <2> DEFINE root == CacheRoot(Here)
  <2>1. UNCHANGED <<pointer, engine, task, lacking>> /\ late' = late \cup disk[root].models
        /\ task'.at = "idle" /\ disk' = [disk EXCEPT ![root].models = {}]
    BY <1>13 DEF ClearModelCache
  <2> HIDE DEF root
  <2>2. /\ \A e \in Dirs : disk'[e].cacheDir = disk[e].cacheDir
        /\ \A e \in Dirs \ {root} : disk'[e] = disk[e]
    BY <1>m, <2>1 DEF Dir
  <2>3. \A e \in Dirs : disk[e].models \ late' \subseteq disk'[e].models
    BY <2>1, <2>2
  <2> QED BY <2>1, <2>2, <2>3, RootedKept
<1>14. CASE Stop \/ Boot \/ \E d \in Removable : Drive(d)
  <2>1. /\ pointer' = pointer /\ task'.at = "idle" /\ UNCHANGED <<late, lacking>> /\ engine'.at # "up"
    BY <1>14 DEF Stop, Boot, Drive, Opened, NoTask
  <2>2. \A e \in Dirs : disk'[e].cacheDir = disk[e].cacheDir /\ disk'[e].models = disk[e].models
    BY <1>14, <1>m DEF Stop, Boot, Drive, Dir
  <2> QED BY <1>m, <1>r, <2>1, <2>2, RootedBooting
<1>15. CASE CleanupSkipped \/ CleanupRefused \/ CleanupOfActive \/ CleanupDelete
  <2>1. /\ task'.at = "idle" /\ pointer'.dir = pointer.dir /\ late' = late
        /\ pointer'.cleanup \in {NoDir, pointer.cleanup} /\ Here' = Here
    BY <1>15, <1>m DEF CleanupSkipped, CleanupRefused, CleanupOfActive, CleanupDelete, Opened, Unmark, Running, Here
  <2>2. lacking \subseteq lacking'
        /\ (engine'.at # "up" \/ (engine'.at = "up" /\ (Here = Home \/ Lacks(Here)' \subseteq lacking')))
    <3>1. engine.at = "booting" /\ ((engine' = engine /\ lacking' = lacking) \/ Running)
      BY <1>15 DEF CleanupSkipped, CleanupRefused, CleanupOfActive, CleanupDelete
    <3>2. Running => engine'.at = "up" /\ (Here = Home \/ Lacks(Here)' \subseteq lacking')
                     /\ lacking \subseteq lacking'
      BY <1>m DEF Running
    <3> QED BY <3>1, <3>2
  <2>3. \/ \A e \in Dirs : disk'[e] = disk[e]
        \/ CleanupRefused
        \/ /\ pointer.cleanup \in Dirs /\ disk'[pointer.cleanup] = Empty
           /\ \A e \in Dirs \ {pointer.cleanup} : disk'[e] = disk[e]
    BY <1>15, <1>m DEF CleanupSkipped, CleanupOfActive, CleanupDelete
  <2>4. pointer.cleanup \in Dirs =>
            pointer.cleanup # Home /\ (CacheRoot(Home) = pointer.cleanup => Gone)
    BY <1>m DEF Opened, Home, Rooted
  <2>5. disk'[Home].cacheDir = disk[Home].cacheDir
    BY <1>m, <2>3, <2>4, RefusedShape
  <2>6. \A e \in Dirs : disk'[e].cacheDir = e => disk[e].cacheDir = e \/ Gone
    <3>1. CASE CleanupRefused
      BY <1>m, <3>1, RefusedShape
    <3> QED BY <1>m, <2>3, <3>1 DEF Empty
  <2>7. disk[CacheRoot(Home)].models \subseteq disk'[CacheRoot(Home)].models \/ Gone
    <3>1. CASE CleanupRefused
      BY <1>r, <3>1, RefusedShape
    <3> QED BY <1>r, <2>3, <2>4, <3>1
  <2> QED BY <2>1, <2>2, <2>5, <2>6, <2>7, RootedBooting
<1>16. CASE UNCHANGED vars
  BY <1>16 DEF vars, Rooted, CacheReferenced, Home, Here, CacheRoot, Gone, Relocating
<1> QED BY <1>1, <1>2, <1>3, <1>4, <1>5, <1>6, <1>7, <1>8, <1>9, <1>10, <1>11, <1>12, <1>13, <1>14,
           <1>15, <1>16 DEF Next

-----------------------------------------------------------------------------
(* The theorems.                                                            *)

\* A fresh installation satisfies the invariant.
LEMMA InitIInv == Init => IInv
<1> SUFFICES ASSUME Init PROVE IInv
  OBVIOUS
<1>1. /\ Anchor \in Dirs /\ NoDir \notin Dirs /\ MaxTime \in Nat /\ MaxMoves \in Nat /\ MaxBoots \in Nat
  BY RelocationAssumption
<1>2. [Empty EXCEPT !.db = TRUE, !.models = Models] \in Dir
  BY EmptyTyped DEF Dir
<1>3. disk \in [Dirs -> Dir] /\ NoTask \in Task
  <2>1. Cardinality(Sources) \in Nat
    BY RelocationAssumption, FS_CardinalityType
  <2> QED BY <1>2, <2>1, EmptyTyped DEF Init, NoTask, Task
<1>4. TypeOK
  BY <1>1, <1>3 DEF Init, TypeOK, Task
<1>5. /\ Home = Anchor /\ Here = Anchor /\ disk[Anchor].db /\ disk[Anchor].rows = {}
      /\ disk[Anchor].models = Models /\ disk[Anchor].cacheDir = NoDir /\ task.at = "idle"
      /\ engine.at = "up" /\ pointer.cleanup = NoDir
      /\ \A d \in Dirs : disk[d].cacheDir = NoDir
  BY <1>1 DEF Init, Home, Here, Empty, NoTask
<1>6. Opened /\ Complete /\ Copied /\ OldIsCopied
  BY <1>1, <1>5, StagesTyped DEF Opened, Complete, Copied, OldIsCopied, Relocating
<1>7. CacheRoot(Here) = Anchor /\ CacheRoot(Home) = Anchor
  BY <1>5 DEF CacheRoot
<1>8. Rooted
  BY <1>1, <1>5, <1>7, StagesTyped DEF Rooted, CacheReferenced, Relocating
<1> QED BY <1>4, <1>6, <1>8 DEF IInv

\* Every step keeps the invariant.
LEMMA StepIInv == IInv /\ [Next]_vars => IInv'
BY TypeStep, OpenedStep, CompleteStep, CopiedStep, OldStep, RootedStep DEF IInv

\* The invariant that the theorems below are drawn from holds for ever.
THEOREM Inductive == Spec => []IInv
BY InitIInv, StepIInv, PTL DEF Spec

\* The directories, the pointer, the engine and the task keep their types; the
\* directories that the steps read and write are directories.
THEOREM TypeCorrect == Spec => []TypeOK
<1>1. IInv => TypeOK
  BY DEF IInv
<1> QED BY <1>1, Inductive, PTL

\* Wherever the process dies, the pointer names a directory with a database whose
\* every row has its files, but the rows that a directory opened for an absent one
\* was without: the pointer is written after the copy, which leaves nothing out.
THEOREM Pointer == Spec => []PointerIsComplete
<1>1. IInv => PointerIsComplete
  <2> SUFFICES ASSUME IInv, NEW i \in disk[Home].rows \ lacking
               PROVE  disk[Home].db /\ Whole(i, Home)
    BY DEF PointerIsComplete, IInv, Opened
  <2> QED BY DEF IInv, Opened, Complete, Whole
<1> QED BY <1>1, Inductive, PTL

\* The root that the pointer's configuration names holds the models, whichever step
\* of a move, a relocation or a clean-up fails or dies, wherever the drives are: but
\* for the models that the user cleared, and those of a move that changed another
\* configuration, went into a directory to be deleted, or left an absent drive.
THEOREM Cache == Spec => []CacheReferenced
<1>1. IInv => CacheReferenced
  BY DEF IInv, Rooted
<1> QED BY <1>1, Inductive, PTL

\* An item that is whole in a directory is whole in one after every step, unless it
\* was saved where the next start may not look: what a step deletes has been copied.
LEMMA SavedStep ==
    ASSUME IInv, [Next]_vars, NEW i \in Items \ late, Stored(i)
    PROVE  Stored(i)'
<1> USE DEF IInv
<1>1. PICK d \in Dirs : Whole(i, d)
  BY DEF Stored
<1> SUFFICES \E e \in Dirs : i \in disk'[e].rows \cap disk'[e].files
  BY DEF Stored, Whole
<1>m. /\ disk \in [Dirs -> Dir] /\ mounted \subseteq Dirs
      /\ pointer.cleanup # NoDir => pointer.dir \in Dirs /\ pointer.dir # pointer.cleanup
  BY HomeTyped DEF TypeOK, Opened
<1>k. ASSUME disk[d].rows \subseteq disk'[d].rows, disk[d].files \subseteq disk'[d].files
      PROVE  \E e \in Dirs : i \in disk'[e].rows \cap disk'[e].files
  BY <1>1, <1>k DEF Whole
<1>2. CASE \E j \in Items : Save(j)
  BY <1>k, <1>2, SaveShape DEF Now
<1>3. CASE \E x \in Items \cup Models : CopyEntry(x)
  BY <1>k, <1>3, CopyShape DEF Now
<1>4. CASE Checkpoint \/ VerifyCopy \/ OffloadPersist \/ OffloadRemove \/ ClearModelCache \/ Boot
  BY <1>k, <1>4, <1>m
     DEF Checkpoint, VerifyCopy, OffloadPersist, OffloadRemove, ClearModelCache, Boot, Dir
<1>5. CASE SnapshotDb
  <2>1. d # task.to
    <3>1. task.at = "snapshot" => disk[task.to] = Empty
      BY DEF Copied
    <3> QED BY <1>1, <1>5, <3>1 DEF SnapshotDb, Whole, Empty
  <2> QED BY <1>k, <1>5, <2>1, SnapshotShape DEF Now
<1>6. CASE RelocateFails
  <2>1. \A e \in Dirs \ {task.to} : disk'[e] = disk[e]
    BY <1>6, <1>m DEF RelocateFails
  <2>2. CASE d # task.to
    BY <1>k, <2>1, <2>2
  <2>3. CASE d = task.to
    <3>1. task.from \in Dirs /\ task.from # task.to
      BY <1>6, StagesTyped DEF RelocateFails, Opened, Relocating
    <3>2. task.at # "snapshot"
      <4>1. task.at = "snapshot" => disk[task.to] = Empty
        BY DEF Copied
      <4> QED BY <1>1, <2>3, <4>1 DEF Whole, Empty
    <3>3. i \in disk[task.from].rows \cap disk[task.from].files
      BY <1>1, <1>6, <2>3, <3>2 DEF RelocateFails, Copied, Whole
    <3> QED BY <2>1, <3>1, <3>3
  <2> QED BY <2>2, <2>3
<1>7. CASE CleanupDelete
  <2>1. \A e \in Dirs \ {pointer.cleanup} : disk'[e] = disk[e]
    BY <1>7, <1>m DEF CleanupDelete
  <2>2. CASE d # pointer.cleanup
    BY <1>k, <2>1, <2>2
  <2>3. CASE d = pointer.cleanup
    <3>1. pointer.cleanup # NoDir
      BY <1>7 DEF CleanupDelete
    <3>2. i \in disk[pointer.dir].rows \cap disk[pointer.dir].files
      BY <1>1, <2>3, <3>1 DEF OldIsCopied, Whole
    <3> QED BY <1>m, <2>1, <3>1, <3>2
  <2> QED BY <2>2, <2>3
<1>8. CASE UNCHANGED disk
  BY <1>k, <1>8
<1>10. CASE CleanupRefused
  BY <1>k, <1>10, RefusedShape
<1>9. CASE \/ \E to \in Dirs : RelocateBegin(to) \/ OffloadBegin(to)
           \/ CopyDone \/ WritePointer \/ OffloadFails \/ Stop \/ (\E e \in Removable : Drive(e))
           \/ CleanupSkipped \/ CleanupOfActive \/ UNCHANGED vars
  BY <1>8, <1>9 DEF RelocateBegin, OffloadBegin, CopyDone, WritePointer, OffloadFails, Stop, Drive,
                    CleanupSkipped, CleanupOfActive, vars
<1> QED BY <1>2, <1>3, <1>4, <1>5, <1>6, <1>7, <1>9, <1>10 DEF Next

\* cleanup_old_data_dir: no step takes the last whole copy of what was saved.
THEOREM Saved == Spec => SavedSurvives
<1>1. IInv /\ [Next]_vars => [\A i \in Items \ late : Stored(i) => Stored(i)']_vars
  BY SavedStep
<1> QED BY <1>1, Inductive, PTL DEF Spec, SavedSurvives
=============================================================================
