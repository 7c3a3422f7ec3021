------------------------ MODULE IndexLifecycle_proofs ------------------------
(***************************************************************************)
(* Theorems about IndexLifecycle, for any sources, coordinates, switch     *)
(* commands, bounds, user operations and fault points.                     *)
(***************************************************************************)
EXTENDS IndexLifecycle, TLAPS

-----------------------------------------------------------------------------
(* The store operators keep the store's type. *)

\* drop_tables keeps the types of the store.
LEMMA DropTablesType ==
    ASSUME StoreTypeOK, NEW T, DropTables(T)
    PROVE  phys' \subseteq TableIds /\ rows' \in [TableIds -> SUBSET Row]
BY DEF StoreTypeOK, DropTables

\* drop_source keeps the types of the store.
LEMMA DropSourceType ==
    ASSUME StoreTypeOK, NEW C, NEW s, DropSource(C, s)
    PROVE  phys' \subseteq TableIds /\ rows' \in [TableIds -> SUBSET Row]
BY DEF StoreTypeOK, DropSource

\* add_to_table keeps the types of the store.
LEMMA AddRowsType ==
    ASSUME StoreTypeOK, NEW t \in TableIds, NEW new \in SUBSET Row, AddRows(t, new)
    PROVE  phys' \subseteq TableIds /\ rows' \in [TableIds -> SUBSET Row]
BY DEF StoreTypeOK, AddRows

\* What search reads are vectors.
LEMMA SearchableType ==
    ASSUME StoreTypeOK, NEW c
    PROVE  Searchable(c) \subseteq Row
BY DEF StoreTypeOK, Searchable, Open, ActiveTables, WithStatus

\* flip_active_txn, row by row: the flipped table is the one active row of its
\* coordinate, the former one is stale, everything else stays.
LEMMA FlipTxnRows ==
    ASSUME StoreTypeOK, NEW t \in TableIds, FlipTxn(t)
    PROVE  /\ registry' \subseteq TableIds \X RowStatus
           /\ \A u \in TableIds :
                /\ <<u, "active">> \in registry'
                     <=> u = t \/ (<<u, "active">> \in registry /\ u[1] # t[1])
                /\ <<u, "building">> \in registry' <=> <<u, "building">> \in registry /\ u # t
                /\ <<u, "stale">> \in registry'
                     <=> <<u, "stale">> \in registry \/ u \in ActiveTables(t[1])
<1> DEFINE kept == registry \ (Demoted(t[1]) \cup {<<t, "building">>})
           old == {<<u, "stale">> : u \in ActiveTables(t[1])}
<1>1. registry' = kept \cup old \cup {<<t, "active">>}
  BY DEF FlipTxn
<1>2. \A u \in TableIds, st \in RowStatus :
        <<u, st>> \in kept <=> /\ <<u, st>> \in registry
                                /\ ~(st = "active" /\ u[1] = t[1])
                                /\ ~(st = "building" /\ u = t)
  BY DEF Demoted
<1>3. \A u \in TableIds, st \in RowStatus :
        <<u, st>> \in old <=> st = "stale" /\ u \in ActiveTables(t[1])
  BY DEF ActiveTables, WithStatus
<1>4. kept \subseteq TableIds \X RowStatus
  BY DEF StoreTypeOK
<1>5. old \subseteq TableIds \X RowStatus
  <2> SUFFICES ASSUME NEW u \in ActiveTables(t[1])
               PROVE  <<u, "stale">> \in TableIds \X RowStatus
    OBVIOUS
  <2> QED BY DEF ActiveTables, WithStatus, RowStatus
<1>6. <<t, "active">> \in TableIds \X RowStatus
  BY DEF RowStatus
<1>7. registry' \subseteq TableIds \X RowStatus
  <2> HIDE DEF kept, old
  <2> QED BY <1>1, <1>4, <1>5, <1>6
<1>8. "active" \in RowStatus /\ "building" \in RowStatus /\ "stale" \in RowStatus
  BY DEF RowStatus
<1> HIDE DEF kept, old
<1> QED BY <1>1, <1>2, <1>3, <1>7, <1>8

\* demote_active_to_stale, row by row.
LEMMA DemoteTxnRows ==
    ASSUME StoreTypeOK, NEW c, DemoteTxn(c)
    PROVE  /\ registry' \subseteq TableIds \X RowStatus
           /\ \A u \in TableIds :
                /\ <<u, "active">> \in registry' <=> <<u, "active">> \in registry /\ u[1] # c
                /\ <<u, "building">> \in registry' <=> <<u, "building">> \in registry
                /\ <<u, "stale">> \in registry'
                     <=> <<u, "stale">> \in registry \/ u \in ActiveTables(c)
<1> DEFINE kept == registry \ Demoted(c)
           old == {<<u, "stale">> : u \in ActiveTables(c)}
<1>1. registry' = kept \cup old
  BY DEF DemoteTxn
<1>2. \A u \in TableIds, st \in RowStatus :
        <<u, st>> \in kept <=> <<u, st>> \in registry /\ ~(st = "active" /\ u[1] = c)
  BY DEF Demoted
<1>3. \A u \in TableIds, st \in RowStatus :
        <<u, st>> \in old <=> st = "stale" /\ u \in ActiveTables(c)
  BY DEF ActiveTables, WithStatus
<1>4. kept \subseteq TableIds \X RowStatus
  BY DEF StoreTypeOK
<1>5. old \subseteq TableIds \X RowStatus
  <2> SUFFICES ASSUME NEW u \in ActiveTables(c)
               PROVE  <<u, "stale">> \in TableIds \X RowStatus
    OBVIOUS
  <2> QED BY DEF ActiveTables, WithStatus, RowStatus
<1>6. "active" \in RowStatus /\ "building" \in RowStatus /\ "stale" \in RowStatus
  BY DEF RowStatus
<1> HIDE DEF kept, old
<1>7. registry' \subseteq TableIds \X RowStatus
  BY <1>1, <1>4, <1>5
<1> QED BY <1>1, <1>2, <1>3, <1>6, <1>7

-----------------------------------------------------------------------------

TypeInv == TypeOK /\ JobTyped

\* The ingest, the worker and the switch commands are different tasks.
LEMMA ActorsDistinct ==
    /\ "ingest" \in Actors /\ "enrich" \in Actors
    /\ \A a \in Switchers : a \in Actors /\ a # "ingest" /\ a # "enrich"
BY JobAssumption DEF Actors

\* A step that replaces one job by a well-formed one keeps the jobs' type.
LEMMA JobUpdate ==
    ASSUME TypeInv, NEW a \in Actors, NEW j \in Job, JobFields(a, j),
           job' = [job EXCEPT ![a] = j]
    PROVE  job' \in [Actors -> Job] /\ \A b \in Actors : JobFields(b, job'[b])
BY DEF TypeInv, TypeOK, JobTyped

\* A job that goes on to a step whose table it has keeps the jobs' type.
LEMMA GotoType ==
    ASSUME TypeInv, NEW a \in Actors, NEW pc \in StepNames \ {"set"}, Goto(a, pc),
           job[a].pc # "idle", pc \notin Untabled => job[a].t \in TableIds
    PROVE  job' \in [Actors -> Job] /\ \A b \in Actors : JobFields(b, job'[b])
<1> DEFINE j == [job[a] EXCEPT !.pc = pc]
<1>1. job[a] \in Job
  BY DEF TypeInv, TypeOK
<1>2. j \in Job
  BY <1>1 DEF Job
<1>3. JobFields(a, j)
  BY <1>1 DEF JobFields, TypeInv, JobTyped, Job
<1>4. job' = [job EXCEPT ![a] = j]
  BY DEF Goto
<1> QED BY <1>2, <1>3, <1>4, JobUpdate

\* An ended task is a job.
LEMMA IdleType ==
    Idle \in Job
BY JobAssumption DEF Idle, Job, StepNames

\* A queued source is a sources row.
LEMMA FreshType ==
    Fresh \in SourceRow
BY JobAssumption, BoundsAssumption DEF Fresh, SourceRow, SourceStatus, EnrichmentStatus

\* A job that ends keeps the jobs' type.
LEMMA LeaveType ==
    ASSUME TypeInv, NEW a \in Actors, Leave(a)
    PROVE  job' \in [Actors -> Job] /\ \A b \in Actors : JobFields(b, job'[b])
<1>1. JobFields(a, Idle)
  BY DEF JobFields, Idle, Untabled
<1> QED BY <1>1, IdleType, JobUpdate DEF Leave

JobsTyped == job \in [Actors -> Job] /\ \A b \in Actors : JobFields(b, job[b])

\* A step inside the store and the jobs keeps the type invariant.
LEMMA InternalType ==
    ASSUME TypeInv, Internal, StoreTypeOK', JobsTyped'
    PROVE  TypeInv'
BY DEF TypeInv, TypeOK, JobTyped, JobsTyped, Internal, Steady

\* The steps of create_building_table, the seed, the adds and flip_active keep
\* the type invariant.
LEMMA BuildType ==
    ASSUME TypeInv, NEW a \in Actors, Build(a)
    PROVE  TypeInv'
<1> USE ActorsDistinct
<1>0. StoreTypeOK /\ job[a] \in Job /\ JobFields(a, job[a])
  BY DEF TypeInv, TypeOK, JobTyped
<1>1. CASE PickGen(a)
  <2>1. PICK g \in 1 .. MaxGen :
          job' = [job EXCEPT ![a].t = <<job[a].t[1], g>>, ![a].pc = "create"]
    BY <1>1 DEF PickGen
  <2>2. job[a].t \in TableIds
    BY <1>0, <1>1 DEF PickGen, At, JobFields, Untabled
  <2>3. <<job[a].t[1], g>> \in TableIds
    BY <2>2, BoundsAssumption DEF TableIds
  <2> DEFINE j == [job[a] EXCEPT !.t = <<job[a].t[1], g>>, !.pc = "create"]
  <2>4. job' = [job EXCEPT ![a] = j]
    BY <2>1
  <2>5. j \in Job
    BY <1>0, <2>3 DEF Job, StepNames
  <2>6. JobFields(a, j)
    BY <1>0, <1>1, <2>3 DEF JobFields, Untabled, PickGen, At, Job
  <2>7. JobsTyped'
    BY <2>4, <2>5, <2>6, JobUpdate DEF JobsTyped
  <2> QED BY <1>0, <1>1, <2>7, InternalType DEF PickGen, storeVars, StoreTypeOK
<1> DEFINE t == job[a].t
           Typed == job[a].t \in TableIds
<1>2. ASSUME NEW pc \in StepNames \ {"set"}, Goto(a, pc), job[a].pc \notin Untabled
      PROVE  JobsTyped'
  BY <1>0, <1>2, GotoType DEF JobsTyped, JobFields, Untabled
<1>3. CASE CreateTable(a)
  <2>1. JobsTyped'
    BY <1>2, <1>3 DEF CreateTable, At, StepNames, Untabled
  <2>2. StoreTypeOK'
    BY <1>0, <1>3 DEF CreateTable, At, CreateEmpty, StoreTypeOK, JobFields, Untabled
  <2> QED BY <2>1, <2>2, <1>3, InternalType DEF CreateTable
<1>4. CASE RegisterBuilding(a)
  <2>1. JobsTyped'
    BY <1>2, <1>4 DEF RegisterBuilding, At, StepNames, Untabled
  <2>2. StoreTypeOK'
    BY <1>0, <1>4 DEF RegisterBuilding, At, Register, StoreTypeOK, JobFields, Untabled,
       RowStatus
  <2> QED BY <2>1, <2>2, <1>4, InternalType DEF RegisterBuilding
<1>5. CASE Seed(a)
  <2>1. JobsTyped'
    BY <1>2, <1>5 DEF Seed, At, StepNames, Untabled
  <2>2. t \in TableIds /\ Searchable(t[1]) \ RowsOf(job[a].s) \subseteq Row
    BY <1>0, <1>5, SearchableType DEF Seed, At, JobFields, Untabled
  <2>3. StoreTypeOK'
    BY <1>0, <1>5, <2>2, AddRowsType DEF Seed, SeedFromActive, StoreTypeOK
  <2> QED BY <2>1, <2>3, <1>5, InternalType DEF Seed
<1>6. CASE Populate(a)
  <2>1. JobsTyped'
    BY <1>2, <1>6 DEF Populate, At, StepNames, Untabled
  <2>2. t \in TableIds /\ job[a].new \in SUBSET Row
    BY <1>0, <1>6 DEF Populate, At, JobFields, Untabled, Job
  <2>3. StoreTypeOK'
    BY <1>0, <1>6, <2>2, AddRowsType DEF Populate, StoreTypeOK
  <2> QED BY <2>1, <2>3, <1>6, InternalType DEF Populate
<1>7. CASE Flip(a)
  <2> DEFINE j == [job[a] EXCEPT !.old = ActiveTables(job[a].t[1]), !.pc = "drop"]
  <2>1. job' = [job EXCEPT ![a] = j]
    BY <1>7 DEF Flip
  <2>2. ActiveTables(job[a].t[1]) \in SUBSET TableIds
    BY DEF ActiveTables, WithStatus
  <2>3. j \in Job
    BY <1>0, <2>2 DEF Job, StepNames
  <2>4. JobFields(a, j)
    BY <1>0, <1>7 DEF JobFields, Untabled, Flip, At, Job
  <2>5. JobsTyped'
    BY <2>1, <2>3, <2>4, JobUpdate DEF JobsTyped
  <2>6. StoreTypeOK'
    BY <1>0, <1>7, FlipTxnRows DEF Flip, At, JobFields, Untabled, StoreTypeOK
  <2> QED BY <2>5, <2>6, <1>7, InternalType DEF Flip
<1>8. CASE DropStale(a)
  <2>1. JobsTyped'
    BY <1>2, <1>8 DEF DropStale, At, StepNames, Untabled
  <2>2. StoreTypeOK'
    BY <1>0, <1>8, DropTablesType DEF DropStale, StoreTypeOK
  <2> QED BY <2>1, <2>2, <1>8, InternalType DEF DropStale
<1>9. CASE DropStaleRow(a)
  <2> DEFINE j == [job[a] EXCEPT !.old = {}, !.pc = IF a \in Switchers THEN "retire" ELSE "finish"]
  <2>1. job' = [job EXCEPT ![a] = j]
    BY <1>9 DEF DropStaleRow
  <2>2. (IF a \in Switchers THEN "retire" ELSE "finish") \in StepNames
    BY DEF StepNames
  <2>3. j \in Job
    BY <1>0, <2>2 DEF Job
  <2>4. JobFields(a, j)
    BY <1>0, <1>9 DEF JobFields, Untabled, DropStaleRow, At, Job
  <2>5. JobsTyped'
    BY <2>1, <2>3, <2>4, JobUpdate DEF JobsTyped
  <2>6. StoreTypeOK'
    BY <1>0, <1>9 DEF DropStaleRow, DeleteRowsByTable, StoreTypeOK
  <2> QED BY <2>5, <2>6, <1>9 DEF DropStaleRow, Steady, TypeInv, TypeOK, JobTyped, JobsTyped
<1> QED BY <1>1, <1>3, <1>4, <1>5, <1>6, <1>7, <1>8, <1>9 DEF Build

-----------------------------------------------------------------------------
(* Sources rows and the enrichment queue *)

QueueTyped == queue \in Seq(Sources) /\ Len(queue) <= QueueCap

\* enqueue_enrichment (try_send) stays within the channel's capacity.
LEMMA EnqueuedType ==
    ASSUME QueueTyped, NEW s \in Sources
    PROVE  Enqueued(s) \in Seq(Sources) /\ Len(Enqueued(s)) <= QueueCap
BY JobAssumption DEF QueueTyped, Enqueued

\* Taking a job from the channel keeps its type.
LEMMA TailType ==
    ASSUME QueueTyped, queue # <<>>, queue' = Tail(queue)
    PROVE  QueueTyped' /\ Head(queue) \in Sources
BY JobAssumption DEF QueueTyped

\* rebuild_enrichment_queue stays within the channel's capacity.
LEMMA RebuildQueueType ==
    ASSUME NEW rest \in Seq(Sources), RebuildQueue(rest)
    PROVE  QueueTyped'
<1>0. PICK n \in 0 .. QueueCap : \E q \in [1 .. n -> Unenriched] :
        Len(rest) + n <= QueueCap /\ queue' = rest \o q
  BY DEF RebuildQueue
<1>1. PICK q \in [1 .. n -> Unenriched] :
        Len(rest) + n <= QueueCap /\ queue' = rest \o q
  BY <1>0
<1>2. q \in Seq(Sources) /\ Len(q) = n
  BY <1>1, JobAssumption DEF Unenriched
<1> QED BY <1>1, <1>2, JobAssumption DEF QueueTyped

\* Raw and contextual vectors are vectors.
LEMMA RowType ==
    ASSUME NEW s \in Sources, NEW v \in 0 .. MaxVer, NEW k \in {"raw", "ctx"}
    PROVE  /\ RawRow(s, v) \in Row
           /\ [RawRow(s, v) EXCEPT !.kind = k] \in Row
BY DEF RawRow, Row, Versions

LockNames == Actors \cup {"free", "purge"}

\* A step of an actor that changes only what actors change.
LEMMA StepType ==
    ASSUME TypeInv, Steady, StoreTypeOK', JobsTyped', QueueTyped',
           src' \in [Sources -> SourceRow], lock' \in LockNames,
           waiting' \subseteq Sources, model' \in Coords
    PROVE  TypeInv'
BY DEF TypeInv, TypeOK, JobTyped, JobsTyped, Steady, QueueTyped, LockNames

\* The successful end of ingest_source keeps the type invariant.
LEMMA IngestOkType ==
    ASSUME TypeInv, StoreTypeOK', NEW s \in Sources, NEW row \in SourceRow,
           IngestOk(s, row)
    PROVE  TypeInv'
<1>1. JobsTyped'
  BY LeaveType, ActorsDistinct DEF IngestOk, JobsTyped
<1>2. QueueTyped'
  BY EnqueuedType DEF IngestOk, QueueTyped, TypeInv, TypeOK
<1>3. src' \in [Sources -> SourceRow]
  BY DEF IngestOk, TypeInv, TypeOK
<1> QED BY <1>1, <1>2, <1>3, StepType DEF IngestOk, TypeInv, TypeOK, LockNames

\* A step that ends a job or moves it on, and may write one sources row.
LEMMA RowStepType ==
    ASSUME TypeInv, Steady, StoreTypeOK', JobsTyped',
           NEW s \in Sources, NEW row \in SourceRow,
           src' = src \/ src' = [src EXCEPT ![s] = row],
           lock' = lock \/ lock' = "free",
           UNCHANGED <<model, waiting, queue>>
    PROVE  TypeInv'
<1>1. src' \in [Sources -> SourceRow]
  BY DEF TypeInv, TypeOK
<1> QED BY <1>1, StepType DEF TypeInv, TypeOK, LockNames, QueueTyped

\* Every step of an ingest keeps the type invariant.
LEMMA IngestRunType ==
    ASSUME TypeInv, IngestRun
    PROVE  TypeInv'
<1> DEFINE s == job["ingest"].s
           j0 == job["ingest"]
<1> USE ActorsDistinct
<1>0. /\ StoreTypeOK /\ j0 \in Job /\ JobFields("ingest", j0)
      /\ src \in [Sources -> SourceRow] /\ model \in Coords /\ <<model, 0>> \in TableIds
  BY BoundsAssumption DEF TypeInv, TypeOK, JobTyped, TableIds
<1>1. ASSUME j0.pc # "idle"
      PROVE  s \in Sources /\ src[s] \in SourceRow
  BY <1>0, <1>1 DEF JobFields
<1>2. ASSUME NEW pc \in StepNames \ {"set"}, Goto("ingest", pc), j0.pc # "idle",
             pc \in Untabled \/ j0.pc \notin Untabled
      PROVE  JobsTyped'
  BY <1>0, <1>2, GotoType DEF JobsTyped, JobFields
<1>3. ASSUME Leave("ingest") PROVE JobsTyped'
  BY <1>3, LeaveType DEF JobsTyped
<1>4. ASSUME UNCHANGED storeVars PROVE StoreTypeOK'
  BY <1>0, <1>4 DEF storeVars, StoreTypeOK
<1>5. ASSUME NEW j \in Job, JobFields("ingest", j), job' = [job EXCEPT !["ingest"] = j]
      PROVE  JobsTyped'
  BY <1>5, JobUpdate DEF JobsTyped
<1>6. CASE IngestMissing
  <2> USE <1>6 DEF IngestMissing
  <2>1. s \in Sources /\ src[s] \in SourceRow
    BY <1>1 DEF At
  <2> QED BY <2>1, <1>3, <1>4, RowStepType
<1>7. CASE IngestUnchanged
  BY <1>1, <1>4, <1>7, IngestOkType DEF IngestUnchanged, At
<1>8. CASE IngestCancelled
  <2> USE <1>8 DEF IngestCancelled
  <2>1. s \in Sources /\ [src[s] EXCEPT !.st = "queued"] \in SourceRow
    BY <1>1 DEF At, SourceRow, SourceStatus
  <2> QED BY <2>1, <1>3, <1>4, RowStepType
<1>9. CASE IngestParkWipe
  <2> USE <1>9 DEF IngestParkWipe
  <2>1. JobsTyped'
    BY <1>2 DEF At, StepNames, Untabled
  <2>2. StoreTypeOK'
    BY <1>0, DropSourceType DEF StoreTypeOK
  <2> QED BY <2>1, <2>2, InternalType
<1>10. CASE IngestParkRows
  <2> USE <1>10 DEF IngestParkRows
  <2>1. s \in Sources /\ [src[s] EXCEPT !.chunks = FALSE] \in SourceRow
    BY <1>1 DEF At, SourceRow
  <2>2. JobsTyped'
    BY <1>2 DEF At, StepNames, Untabled
  <2> QED BY <2>1, <2>2, <1>4, RowStepType
<1>11. CASE IngestParkStatus
  <2> USE <1>11 DEF IngestParkStatus
  <2>1. s \in Sources /\ [src[s] EXCEPT !.st = "needs_js"] \in SourceRow
    BY <1>1 DEF At, SourceRow, SourceStatus
  <2> QED BY <2>1, <1>4, IngestOkType
<1>12. CASE IngestParse
  <2> USE <1>12 DEF IngestParse
  <2>1. s \in Sources /\ [src[s] EXCEPT !.st = "parsing"] \in SourceRow
    BY <1>1 DEF At, SourceRow, SourceStatus
  <2>2. PICK h \in 1 .. MaxHash :
          job' = [job EXCEPT !["ingest"].pc = "wipe", !["ingest"].key = h,
                             !["ingest"].t = <<model, 0>>]
    OBVIOUS
  <2> DEFINE j == [j0 EXCEPT !.pc = "wipe", !.key = h, !.t = <<model, 0>>]
  <2>3. job' = [job EXCEPT !["ingest"] = j]
    BY <2>2
  <2> HIDE <1>12 DEF IngestParse
  <2>31. h \in 0 .. MaxHash /\ "wipe" \in StepNames
    BY JobAssumption DEF StepNames
  <2>4. j \in Job
    BY <1>0, <2>31 DEF Job
  <2>5. JobFields("ingest", j)
    BY <1>0, <2>1 DEF JobFields, Job
  <2>6. JobsTyped'
    BY <2>3, <2>4, <2>5, <1>5
  <2> QED BY <2>1, <2>6, <1>4, <1>12, RowStepType DEF IngestParse
<1>13. CASE IngestWipe
  <2> USE <1>13 DEF IngestWipe
  <2>1. JobsTyped'
    BY <1>2 DEF At, StepNames, Untabled
  <2>2. StoreTypeOK'
    BY <1>0, DropSourceType DEF StoreTypeOK
  <2> QED BY <2>1, <2>2, InternalType
<1>14. CASE IngestChunks
  <2> USE <1>14 DEF IngestChunks
  <2>1. PICK b \in BOOLEAN :
          src' = [src EXCEPT ![s].chunks = b, ![s].ver = src[s].ver + 1, ![s].ctx = FALSE]
    OBVIOUS
  <2>2. s \in Sources /\ src[s] \in SourceRow
    BY <1>1 DEF At
  <2>3. src[s].ver + 1 \in 0 .. MaxVer
    BY <2>2, BoundsAssumption DEF SourceRow
  <2>4. [src[s] EXCEPT !.chunks = b, !.ver = src[s].ver + 1, !.ctx = FALSE] \in SourceRow
    BY <2>2, <2>3 DEF SourceRow
  <2>5. src' = [src EXCEPT ![s] = [src[s] EXCEPT !.chunks = b, !.ver = src[s].ver + 1,
                                                 !.ctx = FALSE]]
    BY <1>0, <2>1, <2>2
  <2>6. JobsTyped'
    BY <1>2 DEF At, StepNames, Untabled
  <2> QED BY <2>2, <2>4, <2>5, <2>6, <1>4, RowStepType
<1>141. CASE IngestReset
  <2> USE <1>141 DEF IngestReset
  <2>1. s \in Sources /\ [src[s] EXCEPT !.enr = "none"] \in SourceRow
    BY <1>1 DEF At, SourceRow, EnrichmentStatus
  <2>2. JobsTyped'
    BY <1>2 DEF At, StepNames, Untabled
  <2> QED BY <2>1, <2>2, <1>4, RowStepType
<1>15. CASE IngestEmpty
  <2> USE <1>15 DEF IngestEmpty
  <2>1. s \in Sources /\ [src[s] EXCEPT !.st = "indexed", !.hash = j0.key] \in SourceRow
    BY <1>0, <1>1 DEF At, SourceRow, SourceStatus, Job
  <2> QED BY <2>1, <1>4, IngestOkType
<1>16. CASE IngestEmbed
  <2> USE <1>16 DEF IngestEmbed
  <2>1. s \in Sources /\ src[s] \in SourceRow /\ src[s].ver \in 0 .. MaxVer
    BY <1>1 DEF At, SourceRow
  <2>11. RawRow(s, src[s].ver) \in Row
    BY <2>1, RowType
  <2>2. [src[s] EXCEPT !.st = "embedding"] \in SourceRow
    BY <2>1 DEF SourceRow, SourceStatus
  <2> DEFINE j == [j0 EXCEPT !.new = {RawRow(s, src[s].ver)},
                             !.pc = IF s \in PdfSources THEN "sweep" ELSE "ensure"]
  <2>3. job' = [job EXCEPT !["ingest"] = j]
    OBVIOUS
  <2> DEFINE pc == IF s \in PdfSources THEN "sweep" ELSE "ensure"
  <2>31. pc \in StepNames \ Untabled
    BY DEF StepNames, Untabled
  <2> HIDE DEF pc
  <2>4. [j0 EXCEPT !.new = {RawRow(s, src[s].ver)}, !.pc = pc] \in Job
    BY <1>0, <2>11, <2>31 DEF Job
  <2>5. JobFields("ingest", [j0 EXCEPT !.new = {RawRow(s, src[s].ver)}, !.pc = pc])
    BY <1>0, <2>1, <2>31 DEF JobFields, Job, At, Untabled
  <2>6. JobsTyped'
    BY <2>3, <2>4, <2>5, <1>5 DEF pc
  <2> QED BY <2>1, <2>2, <2>6, <1>4, RowStepType
<1>17. CASE IngestEnsureTable
  <2> USE <1>17 DEF IngestEnsureTable
  <2>1. s \in Sources /\ j0.t \in TableIds /\ <<j0.t[1], 0>> \in TableIds
    BY <1>0, <1>1, BoundsAssumption DEF At, JobFields, Untabled, TableIds
  <2>2. ASSUME NEW t \in ActiveTables(j0.t[1]), CreateEmpty(t),
               job' = [job EXCEPT !["ingest"].t = t, !["ingest"].pc = "append"]
        PROVE  StoreTypeOK' /\ JobsTyped'
    <3>1. t \in TableIds
      BY <2>2 DEF ActiveTables, WithStatus
    <3> DEFINE j == [j0 EXCEPT !.t = t, !.pc = "append"]
    <3>2. job' = [job EXCEPT !["ingest"] = j]
      BY <2>2
    <3>3. j \in Job
      BY <1>0, <3>1 DEF Job, StepNames
    <3>4. JobFields("ingest", j)
      BY <1>0, <2>1, <3>1 DEF JobFields, Job
    <3>5. StoreTypeOK'
      BY <1>0, <2>2, <3>1 DEF CreateEmpty, StoreTypeOK
    <3> QED BY <1>5, <3>2, <3>3, <3>4, <3>5
  <2>3. ASSUME CreateEmpty(<<j0.t[1], 0>>), Goto("ingest", "ensure_row")
        PROVE  StoreTypeOK' /\ JobsTyped'
    BY <1>0, <1>2, <2>1, <2>3 DEF CreateEmpty, StoreTypeOK, At, StepNames, Untabled
  <2> QED BY <2>2, <2>3, InternalType
<1>18. CASE IngestEnsureRow
  <2> USE <1>18 DEF IngestEnsureRow
  <2>1. JobsTyped'
    BY <1>2 DEF At, StepNames, Untabled
  <2>2. StoreTypeOK'
    BY <1>0 DEF At, Register, StoreTypeOK, JobFields, Untabled, RowStatus
  <2> QED BY <2>1, <2>2, InternalType
<1>19. CASE IngestAppend
  <2> USE <1>19 DEF IngestAppend
  <2>1. JobsTyped'
    BY <1>2 DEF At, StepNames, Untabled
  <2>2. j0.t \in TableIds /\ j0.new \in SUBSET Row
    BY <1>0 DEF At, JobFields, Untabled, Job
  <2>3. StoreTypeOK'
    BY <1>0, <2>2, AddRowsType DEF StoreTypeOK
  <2> QED BY <2>1, <2>3, InternalType
<1>20. CASE IngestSweep
  <2> USE <1>20 DEF IngestSweep
  <2>1. JobsTyped'
    BY <1>2 DEF At, StepNames, Untabled
  <2>2. StoreTypeOK'
    BY <1>0, DropTablesType DEF StoreTypeOK
  <2> QED BY <2>1, <2>2, InternalType
<1>21. CASE IngestSweepRows
  <2> USE <1>21 DEF IngestSweepRows
  <2>1. JobsTyped'
    BY <1>2 DEF At, StepNames, Untabled
  <2>2. StoreTypeOK'
    BY <1>0 DEF DeleteBuildingRows, StoreTypeOK
  <2> QED BY <2>1, <2>2, InternalType
<1>22. CASE IngestFinish
  <2> USE <1>22 DEF IngestFinish
  <2>1. s \in Sources /\ [src[s] EXCEPT !.st = "indexed", !.hash = j0.key] \in SourceRow
    BY <1>0, <1>1 DEF At, SourceRow, SourceStatus, Job
  <2> QED BY <2>1, <1>4, IngestOkType
<1>23. CASE IngestFail
  <2> USE <1>23 DEF IngestFail
  <2>1. s \in Sources /\ [src[s] EXCEPT !.st = "error"] \in SourceRow
    BY <1>1 DEF SourceRow, SourceStatus
  <2> QED BY <2>1, <1>3, <1>4, RowStepType
<1>24. CASE Build("ingest")
  BY <1>24, BuildType
<1> QED BY <1>6, <1>7, <1>8, <1>9, <1>10, <1>11, <1>12, <1>13, <1>14, <1>141, <1>15, <1>16,
           <1>17, <1>18, <1>19, <1>20, <1>21, <1>22, <1>23, <1>24 DEF IngestRun

\* The state changes of one job and, perhaps, of one sources row.
LEMMA EnrichReturnType ==
    ASSUME TypeInv, job["enrich"].s \in Sources, NEW row \in SourceRow, EnrichReturn(row)
    PROVE  TypeInv'
<1>1. JobsTyped'
  BY LeaveType, ActorsDistinct DEF EnrichReturn, JobsTyped
<1>2. StoreTypeOK'
  BY DEF EnrichReturn, storeVars, StoreTypeOK, TypeInv, TypeOK
<1> QED BY <1>1, <1>2, RowStepType DEF EnrichReturn

\* Every step of process_job and reembed_and_flip keeps the type invariant.
LEMMA EnrichRunType ==
    ASSUME TypeInv, EnrichRun
    PROVE  TypeInv'
<1> DEFINE j0 == job["enrich"]
           s == job["enrich"].s
           hd == Head(queue)
<1> USE ActorsDistinct
<1>0. /\ StoreTypeOK /\ j0 \in Job /\ JobFields("enrich", j0) /\ QueueTyped
      /\ src \in [Sources -> SourceRow] /\ model \in Coords /\ <<model, 0>> \in TableIds
  BY BoundsAssumption DEF TypeInv, TypeOK, JobTyped, TableIds, QueueTyped
<1>1. ASSUME j0.pc # "idle"
      PROVE  s \in Sources /\ src[s] \in SourceRow
  BY <1>0, <1>1 DEF JobFields
<1>2. ASSUME UNCHANGED storeVars PROVE StoreTypeOK'
  BY <1>0, <1>2 DEF storeVars, StoreTypeOK
<1>3. ASSUME Leave("enrich") PROVE JobsTyped'
  BY <1>3, LeaveType DEF JobsTyped
<1>4. ASSUME NEW j \in Job, JobFields("enrich", j), job' = [job EXCEPT !["enrich"] = j]
      PROVE  JobsTyped'
  BY <1>4, JobUpdate DEF JobsTyped
<1>41. ASSUME NEW pc \in StepNames \ {"set"}, Goto("enrich", pc), j0.pc # "idle", pc \in Untabled
       PROVE  JobsTyped'
  BY <1>0, <1>41, GotoType DEF JobsTyped
<1>5. ASSUME EnrichIdle, queue' = Tail(queue)
      PROVE  QueueTyped' /\ hd \in Sources /\ src[hd] \in SourceRow
  BY <1>0, <1>5, TailType DEF EnrichIdle
<1>6. ASSUME NEW x \in Sources, NEW e \in EnrichmentStatus, src' = Marked(x, e)
      PROVE  src' \in [Sources -> SourceRow]
  <2>1. src[x] \in SourceRow
    BY <1>0
  <2>2. [src[x] EXCEPT !.enr = e] \in SourceRow
    BY <2>1 DEF SourceRow
  <2>3. src' = [src EXCEPT ![x] = IF Present(x) THEN [src[x] EXCEPT !.enr = e] ELSE src[x]]
    BY <1>0, <1>6, <2>1 DEF Marked, SourceRow
  <2> QED BY <1>0, <2>1, <2>2, <2>3
<1>7. CASE EnrichSkip
  BY <1>0, <1>2, <1>5, <1>7, StepType DEF EnrichSkip, TypeInv, TypeOK, LockNames, JobsTyped,
     JobTyped
<1>8. CASE EnrichPreflightFail
  <2> USE <1>8 DEF EnrichPreflightFail
  <2>1. QueueTyped' /\ hd \in Sources /\ src[hd] \in SourceRow
    BY <1>5
  <2>11. 0 \in 0 .. MaxHash
    BY JobAssumption
  <2>2. [src[hd] EXCEPT !.enr = "failed", !.key = 0] \in SourceRow
    BY <2>1, <2>11 DEF SourceRow, EnrichmentStatus
  <2>3. src' = [src EXCEPT ![hd] = [src[hd] EXCEPT !.enr = "failed", !.key = 0]]
    OBVIOUS
  <2>4. src' \in [Sources -> SourceRow]
    BY <1>0, <2>1, <2>2, <2>3
  <2> QED BY <1>0, <1>2, <2>1, <2>4, StepType DEF TypeInv, TypeOK, LockNames, JobsTyped,
             JobTyped
<1>9. CASE EnrichStart
  <2> USE <1>9 DEF EnrichStart
  <2>1. QueueTyped' /\ hd \in Sources /\ src[hd] \in SourceRow
    BY <1>5
  <2>2. src' \in [Sources -> SourceRow]
    BY <1>6, <2>1 DEF EnrichmentStatus
  <2> DEFINE j == [Idle EXCEPT !.pc = "map", !.s = hd, !.key = src[hd].hash]
  <2>21. src[hd].hash \in 0 .. MaxHash /\ "map" \in StepNames
    BY <2>1 DEF StepNames, SourceRow
  <2>3. j \in Job
    BY <2>1, <2>21, IdleType DEF Job
  <2>4. JobFields("enrich", j)
    BY <2>1 DEF JobFields, Idle, Untabled
  <2>5. JobsTyped'
    BY <1>4, <2>3, <2>4
  <2> QED BY <1>0, <1>2, <2>1, <2>2, <2>5, StepType DEF TypeInv, TypeOK, LockNames
<1>10. CASE EnrichDropped
  BY <1>1, <1>10, EnrichReturnType DEF EnrichDropped, At
<1>11. CASE EnrichDegrade
  <2> USE <1>11 DEF EnrichDegrade
  <2>1. s \in Sources /\ [src[s] EXCEPT !.enr = "pending"] \in SourceRow
    BY <1>1 DEF At, SourceRow, EnrichmentStatus
  <2> QED BY <2>1, EnrichReturnType
<1>12. CASE EnrichPrefixOnly
  <2> USE <1>12 DEF EnrichPrefixOnly
  <2>1. s \in Sources /\ src[s] \in SourceRow /\ j0.key \in 0 .. MaxHash
    BY <1>0, <1>1 DEF At, Job
  <2>2. [src[s] EXCEPT !.enr = "skipped", !.ctx = TRUE, !.key = j0.key] \in SourceRow
    BY <2>1 DEF SourceRow, EnrichmentStatus
  <2> QED BY <2>1, <2>2, EnrichReturnType
<1>13. CASE EnrichMap
  <2> USE <1>13 DEF EnrichMap
  <2> DEFINE r == [RawRow(s, src[s].ver) EXCEPT !.kind = "ctx"]
             j == [j0 EXCEPT !.new = {r}, !.pc = "persist"]
  <2>1. s \in Sources /\ src[s].ver \in 0 .. MaxVer
    BY <1>1 DEF At, SourceRow
  <2>2. r \in Row
    BY <2>1, RowType
  <2>3. job' = [job EXCEPT !["enrich"] = j]
    OBVIOUS
  <2>4. j \in Job
    BY <1>0, <2>2 DEF Job, StepNames
  <2>5. JobFields("enrich", j)
    BY <1>0, <2>1 DEF JobFields, Job, Untabled
  <2> QED BY <1>2, <1>4, <2>3, <2>4, <2>5, InternalType
<1>14. CASE EnrichPersist
  <2> USE <1>14 DEF EnrichPersist
  <2>1. s \in Sources /\ src[s] \in SourceRow /\ (src[s].ctx \/ Reread(s)) \in BOOLEAN
    BY <1>1 DEF At, SourceRow
  <2>2. [src[s] EXCEPT !.ctx = src[s].ctx \/ Reread(s)] \in SourceRow
    BY <2>1 DEF SourceRow
  <2>3. src' = [src EXCEPT ![s] = [src[s] EXCEPT !.ctx = src[s].ctx \/ Reread(s)]]
    BY <1>0, <2>1
  <2>4. JobsTyped'
    BY <1>41 DEF At, StepNames, Untabled
  <2> QED BY <1>2, <2>1, <2>2, <2>3, <2>4, RowStepType
<1>141. CASE EnrichMeta
  <2> USE <1>141 DEF EnrichMeta
  <2>1. s \in Sources /\ src[s] \in SourceRow /\ j0.key \in 0 .. MaxHash
    BY <1>0, <1>1 DEF At, Job
  <2>2. [src[s] EXCEPT !.key = j0.key, !.enr = "enriching"] \in SourceRow
    BY <2>1 DEF SourceRow, EnrichmentStatus
  <2>3. src' = [src EXCEPT ![s] = [src[s] EXCEPT !.key = j0.key, !.enr = "enriching"]]
    BY <1>0, <2>1
  <2>4. JobsTyped'
    BY <1>41 DEF At, StepNames, Untabled
  <2> QED BY <1>2, <2>1, <2>2, <2>3, <2>4, RowStepType
<1>142. CASE EnrichRelist
  <2> DEFINE r1 == [RawRow(s, src[s].ver) EXCEPT !.kind = IF src[s].ctx THEN "ctx" ELSE "raw"]
             j == [j0 EXCEPT !.pc = "coord", !.new = {r1}]
  <2>1. /\ At("enrich", "relist")
        /\ \/ job' = [job EXCEPT !["enrich"] = j] /\ UNCHANGED src
           \/ Leave("enrich") /\ src' = Marked(s, "enriched")
        /\ Steady /\ UNCHANGED <<storeVars, model, lock, waiting, queue>>
    BY <1>142 DEF EnrichRelist
  <2>2. s \in Sources /\ src[s] \in SourceRow
    BY <1>1, <2>1 DEF At
  <2>3. src[s].ver \in 0 .. MaxVer /\ (IF src[s].ctx THEN "ctx" ELSE "raw") \in {"raw", "ctx"}
    BY <2>2 DEF SourceRow
  <2>4. r1 \in Row
    BY <2>2, <2>3, RowType
  <2> HIDE DEF r1
  <2>5. j \in Job
    BY <1>0, <2>4 DEF Job, StepNames
  <2>6. JobFields("enrich", j)
    BY <1>0, <2>2 DEF JobFields, Job, Untabled
  <2>7. JobsTyped'
    BY <1>3, <1>4, <2>1, <2>5, <2>6
  <2>8. src' \in [Sources -> SourceRow]
    BY <1>0, <1>6, <2>1, <2>2 DEF EnrichmentStatus
  <2> QED BY <1>0, <1>2, <2>1, <2>7, <2>8, StepType DEF TypeInv, TypeOK, LockNames, QueueTyped
<1>143. CASE EnrichCoord
  <2> USE <1>143 DEF EnrichCoord
  <2> DEFINE j == [j0 EXCEPT !.pc = "pick", !.t = <<model, 0>>]
  <2>1. job' = [job EXCEPT !["enrich"] = j]
    OBVIOUS
  <2>2. s \in Sources
    BY <1>1 DEF At
  <2>3. j \in Job
    BY <1>0 DEF Job, StepNames
  <2>4. JobFields("enrich", j)
    BY <1>0, <2>2 DEF JobFields, Job
  <2> QED BY <1>2, <1>4, <2>1, <2>3, <2>4, InternalType
<1>15. CASE EnrichFinish
  <2> USE <1>15 DEF EnrichFinish
  <2>1. src' \in [Sources -> SourceRow]
    BY <1>1, <1>6 DEF At, EnrichmentStatus
  <2> QED BY <1>0, <1>2, <1>3, <2>1, StepType DEF TypeInv, TypeOK, LockNames, QueueTyped
<1>16. CASE EnrichLlmFail
  <2> USE <1>16 DEF EnrichLlmFail
  <2>1. s \in Sources /\ src[s] \in SourceRow /\ j0.key \in 0 .. MaxHash
    BY <1>0, <1>1 DEF At, Job
  <2>2. [src[s] EXCEPT !.enr = "failed", !.key = j0.key] \in SourceRow
    BY <2>1 DEF SourceRow, EnrichmentStatus
  <2> QED BY <2>1, <2>2, EnrichReturnType
<1>17. CASE EnrichAbort
  BY <1>1, <1>17, EnrichReturnType DEF EnrichAbort, At
<1>18. CASE EnrichFail
  <2> USE <1>18 DEF EnrichFail
  <2>1. src' \in [Sources -> SourceRow]
    BY <1>0, <1>1, <1>6 DEF EnrichmentStatus
  <2>2. lock' \in LockNames
    BY DEF LockNames, TypeInv, TypeOK
  <2> QED BY <1>0, <1>2, <1>3, <2>1, <2>2, StepType DEF TypeInv, TypeOK, QueueTyped
<1>19. CASE Build("enrich")
  BY <1>19, BuildType
<1> QED BY <1>7, <1>8, <1>9, <1>10, <1>11, <1>12, <1>13, <1>14, <1>141, <1>142, <1>143,
           <1>15, <1>16, <1>17, <1>18, <1>19 DEF EnrichRun

\* Every step of set_notebook_embedding_model keeps the type invariant.
LEMMA SwitchRunType ==
    ASSUME TypeInv, NEW a \in Switchers, SwitchRun(a)
    PROVE  TypeInv'
<1> DEFINE j0 == job[a]
<1> USE ActorsDistinct
<1>0. /\ StoreTypeOK /\ j0 \in Job /\ JobFields(a, j0) /\ QueueTyped
      /\ model \in Coords /\ <<model, 0>> \in TableIds
      /\ src \in [Sources -> SourceRow] /\ waiting \subseteq Sources /\ lock \in LockNames
  BY BoundsAssumption DEF TypeInv, TypeOK, JobTyped, TableIds, QueueTyped, LockNames
<1>1. ASSUME UNCHANGED storeVars PROVE StoreTypeOK'
  BY <1>0, <1>1 DEF storeVars, StoreTypeOK
<1>2. ASSUME Leave(a) PROVE JobsTyped'
  BY <1>2, LeaveType DEF JobsTyped
<1>3. ASSUME NEW j \in Job, JobFields(a, j), job' = [job EXCEPT ![a] = j]
      PROVE  JobsTyped'
  BY <1>3, JobUpdate DEF JobsTyped
<1>4. CASE SwitchSet(a)
  <2> USE <1>4 DEF SwitchSet
  <2>1. JobsTyped'
    BY <1>0, GotoType DEF At, StepNames, Untabled, JobsTyped
  <2>2. model' \in Coords
    BY <1>0 DEF At, JobFields
  <2> QED BY <1>0, <1>1, <2>1, <2>2, StepType DEF QueueTyped
<1>41. CASE SwitchAttempt(a)
  <2>1. PICK c \in Coords \cup {None} :
          job' = [job EXCEPT ![a].pc = "snapshot", ![a].want = c]
    BY <1>0, <1>41 DEF SwitchAttempt
  <2> DEFINE j == [j0 EXCEPT !.pc = "snapshot", !.want = c]
  <2>2. job' = [job EXCEPT ![a] = j]
    BY <2>1
  <2>3. j \in Job
    BY <1>0 DEF Job, StepNames
  <2>4. JobFields(a, j)
    BY <1>0, <1>41 DEF JobFields, Job, SwitchAttempt, At, Untabled
  <2> QED BY <1>1, <1>3, <1>41, <2>2, <2>3, <2>4, InternalType DEF SwitchAttempt
<1>42. CASE SwitchSnapshot(a)
  <2> DEFINE j == [j0 EXCEPT !.pc = "coords", !.t = <<model, 0>>]
  <2>2. job' = [job EXCEPT ![a] = j]
    BY <1>42 DEF SwitchSnapshot
  <2>3. j \in Job
    BY <1>0 DEF Job, StepNames
  <2>4. JobFields(a, j)
    BY <1>0, <1>42 DEF JobFields, Job, SwitchSnapshot, At
  <2> QED BY <1>1, <1>3, <1>42, <2>2, <2>3, <2>4, InternalType DEF SwitchSnapshot
<1>43. CASE SwitchCoords(a)
  <2> DEFINE old == ActiveCoords \ {j0.t[1]}
             live == {s \in Sources : Present(s) /\ ~src[s].trash}
             j == [j0 EXCEPT !.pc = "sources", !.coords = old, !.todo = live]
  <2>1. old \in SUBSET Coords /\ live \in SUBSET Sources
    BY DEF ActiveCoords, WithStatus, TableIds
  <2>2. Leave(a) \/ job' = [job EXCEPT ![a] = j]
    BY <1>43 DEF SwitchCoords
  <2> HIDE DEF old, live
  <2>3. j \in Job
    BY <1>0, <2>1 DEF Job, StepNames
  <2>4. JobFields(a, j)
    BY <1>0, <1>43 DEF JobFields, Job, SwitchCoords, At, Untabled
  <2> QED BY <1>1, <1>2, <1>3, <1>43, <2>2, <2>3, <2>4, InternalType DEF SwitchCoords
<1>44. CASE SwitchChunks(a)
  <2>1. PICK s \in j0.todo :
          job' = [job EXCEPT ![a].todo = j0.todo \ {s},
                    ![a].new = j0.new \cup (IF src[s].chunks
                                     THEN {[RawRow(s, src[s].ver) EXCEPT
                                              !.kind = IF src[s].ctx THEN "ctx" ELSE "raw"]}
                                     ELSE {})]
    BY <1>44 DEF SwitchChunks
  <2> DEFINE r == [RawRow(s, src[s].ver) EXCEPT !.kind = IF src[s].ctx THEN "ctx" ELSE "raw"]
             new == IF src[s].chunks THEN {r} ELSE {}
             j == [j0 EXCEPT !.todo = j0.todo \ {s}, !.new = j0.new \cup new]
  <2>2. s \in Sources /\ src[s] \in SourceRow
    BY <1>0 DEF Job
  <2>3. src[s].ver \in 0 .. MaxVer /\ (IF src[s].ctx THEN "ctx" ELSE "raw") \in {"raw", "ctx"}
    BY <2>2 DEF SourceRow
  <2>4. r \in Row
    BY <2>2, <2>3, RowType
  <2>5. job' = [job EXCEPT ![a] = j]
    BY <2>1
  <2> HIDE DEF r
  <2>6. new \in SUBSET Row
    BY <2>4
  <2> HIDE DEF new
  <2>7. j \in Job
    BY <1>0, <2>6 DEF Job
  <2>8. JobFields(a, j)
    BY <1>0, <1>44 DEF JobFields, Job, SwitchChunks, At, Untabled
  <2> QED BY <1>1, <1>3, <1>44, <2>5, <2>7, <2>8, InternalType DEF SwitchChunks
<1>45. CASE SwitchRead(a)
  <2>1. JobsTyped'
    BY <1>0, <1>2, <1>45, GotoType DEF SwitchRead, At, StepNames, Untabled, JobsTyped, JobFields
  <2> QED BY <1>1, <1>45, <2>1, InternalType DEF SwitchRead
<1>5. CASE SwitchRetire(a)
  <2>1. PICK c \in j0.coords :
          /\ DemoteTxn(c)
          /\ job' = [job EXCEPT ![a].coords = @ \ {c}, ![a].old = ActiveTables(c),
                                ![a].pc = "drop"]
    BY <1>5 DEF SwitchRetire
  <2> DEFINE j == [j0 EXCEPT !.coords = j0.coords \ {c}, !.old = ActiveTables(c), !.pc = "drop"]
  <2>2. job' = [job EXCEPT ![a] = j]
    BY <2>1
  <2>3. ActiveTables(c) \in SUBSET TableIds
    BY DEF ActiveTables, WithStatus
  <2>4. j \in Job
    BY <1>0, <2>3 DEF Job, StepNames
  <2>5. JobFields(a, j)
    BY <1>0, <1>5 DEF JobFields, Job, SwitchRetire, At, Untabled
  <2>6. StoreTypeOK'
    BY <1>0, <1>5, <2>1, DemoteTxnRows DEF SwitchRetire, StoreTypeOK
  <2> QED BY <1>3, <1>5, <2>2, <2>4, <2>5, <2>6, InternalType DEF SwitchRetire
<1>6. CASE SwitchDone(a)
  BY <1>0, <1>1, <1>2, <1>6, StepType DEF SwitchDone, LockNames, QueueTyped
<1>7. CASE SwitchFail(a)
  <2>1. model' \in Coords /\ lock' \in LockNames
    BY <1>0, <1>7 DEF SwitchFail, JobFields, LockNames
  <2> QED BY <1>0, <1>1, <1>2, <1>7, <2>1, StepType DEF SwitchFail, QueueTyped
<1>8. CASE Build(a)
  BY <1>8, BuildType
<1> QED BY <1>4, <1>41, <1>42, <1>43, <1>44, <1>45, <1>5, <1>6, <1>7, <1>8 DEF SwitchRun

-----------------------------------------------------------------------------

\* Acquiring ingest_lock keeps the type invariant.
LEMMA AcquireType ==
    ASSUME TypeInv, Acquire
    PROVE  TypeInv'
<1> USE ActorsDistinct
<1>0. /\ StoreTypeOK /\ QueueTyped /\ model \in Coords /\ JobsTyped
      /\ src \in [Sources -> SourceRow] /\ waiting \subseteq Sources /\ lock \in LockNames
  BY DEF TypeInv, TypeOK, JobTyped, JobsTyped, QueueTyped, LockNames
<1>1. ASSUME UNCHANGED storeVars PROVE StoreTypeOK'
  BY <1>0, <1>1 DEF storeVars, StoreTypeOK
<1>2. ASSUME NEW a \in Actors, job[a].pc = "lock", Goto(a, "flip") \/ Leave(a)
      PROVE  JobsTyped'
  BY <1>0, <1>2, GotoType, LeaveType DEF JobsTyped, JobFields, StepNames, Untabled
<1>3. ASSUME NEW s \in Sources, IngestAcquire(s) PROVE TypeInv'
  <2> USE <1>3 DEF IngestAcquire
  <2> DEFINE j == [Idle EXCEPT !.pc = "load", !.s = s]
  <2>1. j \in Job
    BY IdleType DEF Job, StepNames
  <2>2. JobFields("ingest", j)
    BY DEF JobFields, Idle, Untabled
  <2>3. JobsTyped'
    BY <2>1, <2>2, JobUpdate DEF JobsTyped
  <2> QED BY <1>0, <1>1, <2>3, StepType DEF LockNames, QueueTyped
<1>4. CASE EnrichLock
  BY <1>0, <1>1, <1>2, <1>4, StepType DEF EnrichLock, At, LockNames, QueueTyped
<1>5. CASE PurgeAcquire
  BY <1>5 DEF PurgeAcquire, PurgeFrame, storeVars, TypeInv, TypeOK, StoreTypeOK, JobTyped,
     NoPurge
<1>6. ASSUME NEW a \in Switchers, SwitchLock(a) PROVE TypeInv'
  BY <1>0, <1>1, <1>2, <1>6, StepType DEF SwitchLock, At, LockNames, QueueTyped
<1> QED BY <1>3, <1>4, <1>5, <1>6 DEF Acquire

\* Commands of the user keep the type invariant.
LEMMA RequestType ==
    ASSUME TypeInv, Request
    PROVE  TypeInv'
<1> USE ActorsDistinct
<1>0. /\ StoreTypeOK /\ QueueTyped /\ model \in Coords /\ JobsTyped
      /\ src \in [Sources -> SourceRow] /\ waiting \subseteq Sources /\ lock \in LockNames
  BY DEF TypeInv, TypeOK, JobTyped, JobsTyped, QueueTyped, LockNames
<1>1. ASSUME UNCHANGED storeVars PROVE StoreTypeOK'
  BY <1>0, <1>1 DEF storeVars, StoreTypeOK
<1>2. ASSUME NEW s \in Sources, CallIngest(s) PROVE TypeInv'
  BY <1>2 DEF CallIngest, Steady, TypeInv, TypeOK, JobTyped, StoreTypeOK, storeVars
<1>3. ASSUME NEW s \in Sources, RetrySource(s) PROVE TypeInv'
  <2> USE <1>3 DEF RetrySource
  <2>1. src' \in [Sources -> SourceRow]
    BY <1>0 DEF SourceRow, SourceStatus
  <2> QED BY <1>0, <1>1, <2>1, StepType DEF JobsTyped, QueueTyped
<1>4. ASSUME NEW s \in Sources, NEW b \in BOOLEAN, src' = [src EXCEPT ![s].trash = b],
             FlagOnly, UNCHANGED nb
      PROVE  TypeInv'
  <2>1. src' \in [Sources -> SourceRow]
    BY <1>0, <1>4 DEF SourceRow
  <2> QED BY <1>4, <2>1 DEF FlagOnly, TypeInv, TypeOK, JobTyped, StoreTypeOK, storeVars
<1>5. ASSUME NEW s \in Sources, TrashSource(s) \/ RestoreSource(s) PROVE TypeInv'
  BY <1>4, <1>5 DEF TrashSource, RestoreSource
<1>6. ASSUME NEW a \in Switchers, NEW c \in Coords, SwitchCall(a, c) PROVE TypeInv'
  <2> USE <1>6 DEF SwitchCall
  <2> DEFINE j == [Idle EXCEPT !.pc = "set", !.want = c, !.prior = model]
  <2>1. j \in Job
    BY <1>0, IdleType DEF Job, StepNames
  <2>2. JobFields(a, j)
    BY <1>0 DEF JobFields, Idle, Untabled
  <2>3. JobsTyped'
    BY <2>1, <2>2, JobUpdate DEF JobsTyped
  <2> QED BY <1>1, <2>3, InternalType
<1>7. ASSUME NEW x \in Sources \cup {NotebookId}, CallPurge(x) PROVE TypeInv'
  BY <1>7, JobAssumption DEF CallPurge, NoPurge, PurgeFrame, TypeInv, TypeOK, JobTyped, StoreTypeOK,
     storeVars
<1>8. CASE TrashNotebook \/ RestoreNotebook
  BY <1>8 DEF TrashNotebook, RestoreNotebook, FlagOnly, TypeInv, TypeOK, JobTyped,
     StoreTypeOK, storeVars
<1>9. CASE RescanEnrichment
  <2>1. QueueTyped'
    BY <1>0, <1>9, RebuildQueueType DEF RescanEnrichment, QueueTyped
  <2> QED BY <1>0, <1>1, <1>9, <2>1, StepType DEF RescanEnrichment, JobsTyped
<1> QED BY <1>2, <1>3, <1>5, <1>6, <1>7, <1>8, <1>9 DEF Request

\* purge_source and purge_notebook keep the type invariant.
LEMMA PurgeRunType ==
    ASSUME TypeInv, PurgeRun
    PROVE  TypeInv'
<1>0. StoreTypeOK /\ src \in [Sources -> SourceRow]
  BY DEF TypeInv, TypeOK
<1>1. [Fresh EXCEPT !.st = "gone"] \in SourceRow
  BY FreshType DEF SourceRow, SourceStatus
<1>11. CASE PurgeCoords
  <2>1. ActiveCoords \in SUBSET Coords
    BY DEF ActiveCoords, WithStatus, TableIds
  <2> HIDE DEF ActiveCoords
  <2> QED BY <1>11, <2>1 DEF PurgeCoords, PurgeFrame, TypeInv, TypeOK, JobTyped, storeVars,
             StoreTypeOK
<1>12. CASE PurgeFail
  BY <1>12 DEF PurgeFail, PurgeFrame, NoPurge, TypeInv, TypeOK, JobTyped, storeVars, StoreTypeOK
<1>2. CASE PurgeSourceVectors
  <2>1. StoreTypeOK'
    BY <1>0, <1>2, DropSourceType DEF PurgeSourceVectors, StoreTypeOK
  <2> QED BY <1>2, <2>1 DEF PurgeSourceVectors, PurgeFrame, TypeInv, TypeOK, JobTyped
<1>3. CASE PurgeSourceRow
  <2>1. src' \in [Sources -> SourceRow]
    BY <1>0, <1>1, <1>3 DEF PurgeSourceRow
  <2> QED BY <1>3, <2>1 DEF PurgeSourceRow, PurgeFrame, NoPurge, TypeInv, TypeOK, JobTyped,
             storeVars, StoreTypeOK
<1>4. CASE PurgeNotebookTables
  <2>1. StoreTypeOK'
    BY <1>0, <1>4, DropTablesType DEF PurgeNotebookTables, StoreTypeOK
  <2> QED BY <1>4, <2>1 DEF PurgeNotebookTables, PurgeFrame, TypeInv, TypeOK, JobTyped
<1>5. CASE PurgeNotebookRow
  <2>1. src' \in [Sources -> SourceRow]
    BY <1>0, <1>1, <1>5 DEF PurgeNotebookRow
  <2>2. StoreTypeOK'
    BY <1>0, <1>5 DEF PurgeNotebookRow, StoreTypeOK
  <2> QED BY <1>5, <2>1, <2>2 DEF PurgeNotebookRow, PurgeFrame, NoPurge, TypeInv, TypeOK,
             JobTyped
<1> QED BY <1>11, <1>12, <1>2, <1>3, <1>4, <1>5 DEF PurgeRun

\* LensEngine::init keeps the type invariant.
LEMMA StartUpType ==
    ASSUME TypeInv, StartUp
    PROVE  TypeInv'
<1>0. StoreTypeOK /\ src \in [Sources -> SourceRow] /\ <<>> \in Seq(Sources)
  BY DEF TypeInv, TypeOK
<1>1. CASE RecoverStatuses
  <2>1. ASSUME NEW r \in SourceRow PROVE Recovered(r) \in SourceRow
    <3> DEFINE x == IF r.st \in {"parsing", "embedding"} THEN "error" ELSE r.st
               y == IF r.enr = "enriching" THEN "pending" ELSE r.enr
    <3>1. x \in SourceStatus
      BY DEF SourceRow, SourceStatus
    <3>2. y \in EnrichmentStatus
      BY DEF SourceRow, EnrichmentStatus
    <3>3. Recovered(r) = [r EXCEPT !.st = x, !.enr = y]
      BY DEF Recovered
    <3> HIDE DEF x, y
    <3> QED BY <3>1, <3>2, <3>3 DEF SourceRow
  <2>2. src' \in [Sources -> SourceRow]
    BY <1>0, <1>1, <2>1 DEF RecoverStatuses
  <2> QED BY <1>1, <2>2 DEF RecoverStatuses, Starting, storeVars, TypeInv, TypeOK, StoreTypeOK,
             JobTyped
<1>2. CASE GcUnregistered
  <2>1. StoreTypeOK'
    BY <1>0, <1>2, DropTablesType DEF GcUnregistered, StoreTypeOK
  <2> QED BY <1>2, <2>1 DEF GcUnregistered, Starting, TypeInv, TypeOK, JobTyped
<1>3. CASE GcTables
  <2>1. StoreTypeOK'
    BY <1>0, <1>3, DropTablesType DEF GcTables, StoreTypeOK
  <2> QED BY <1>3, <2>1 DEF GcTables, Starting, TypeInv, TypeOK, JobTyped
<1>4. CASE GcRows \/ GcFail
  <2>1. QueueTyped'
    BY <1>0, <1>4, RebuildQueueType DEF GcRows, GcFail
  <2>2. StoreTypeOK'
    BY <1>0, <1>4 DEF GcRows, GcFail, StoreTypeOK, storeVars
  <2> QED BY <1>4, <2>1, <2>2 DEF GcRows, GcFail, Starting, QueueTyped, TypeInv, TypeOK, JobTyped
<1> QED BY <1>1, <1>2, <1>3, <1>4 DEF StartUp

\* A process death keeps the type invariant.
LEMMA CrashType ==
    ASSUME TypeInv, Crash
    PROVE  TypeInv'
<1>1. Idle \in Job /\ \A a \in Actors : JobFields(a, Idle)
  BY IdleType DEF Idle, JobFields, Untabled
<1>2. JobsTyped'
  BY <1>1 DEF Crash, JobsTyped
<1>3. crashes' \in 0 .. MaxCrashes
  BY JobAssumption DEF Crash, TypeInv, TypeOK
<1>4. queue' \in Seq(Sources) /\ Len(queue') <= QueueCap
  BY JobAssumption DEF Crash
<1> QED BY <1>2, <1>3, <1>4 DEF Crash, JobsTyped, NoPurge, storeVars, TypeInv, TypeOK,
           StoreTypeOK, JobTyped

\* The first state has the types.
LEMMA TypeInit ==
    Init => TypeInv
<1> SUFFICES ASSUME Init PROVE TypeInv
  OBVIOUS
<1>1. <<model, 0>> \in TableIds
  BY BoundsAssumption DEF Init, TableIds
<1>2. \A s \in Indexed0 : RawRow(s, 1) \in Row
  BY JobAssumption, BoundsAssumption DEF RawRow, Row, Versions
<1>3. StoreTypeOK
  <2>1. CASE Indexed0 = {}
    BY <2>1 DEF Init, StoreInit, StoreTypeOK
  <2>2. CASE Indexed0 # {}
    <3> DEFINE all == {RawRow(s, 1) : s \in Indexed0}
    <3>1. /\ registry = {<<<<model, 0>>, "active">>} /\ phys = {<<model, 0>>}
          /\ rows = [t \in TableIds |-> IF t \in phys THEN all ELSE {}]
      BY <2>2 DEF Init
    <3>2. all \in SUBSET Row
      BY <1>2
    <3> HIDE DEF all
    <3> QED BY <1>1, <3>1, <3>2 DEF StoreTypeOK, RowStatus
  <2> QED BY <2>1, <2>2
<1>5. Indexed0 # {} => 1 \in 0 .. MaxVer /\ 1 \in 0 .. MaxHash
  BY JobAssumption, BoundsAssumption
<1>6. Indexed0 # {} => Settled \in SourceRow
  BY <1>5, FreshType DEF Settled, SourceRow, SourceStatus
<1>7. src \in [Sources -> SourceRow]
  BY <1>6, FreshType DEF Init
<1>8. Idle \in Job /\ \A a \in Actors : JobFields(a, Idle)
  BY IdleType DEF Idle, JobFields, Untabled
<1>9. crashes \in 0 .. MaxCrashes /\ queue \in Seq(Sources) /\ Len(queue) <= QueueCap
  BY JobAssumption DEF Init
<1> QED BY <1>3, <1>7, <1>8, <1>9 DEF Init, TypeInv, TypeOK, JobTyped, NoPurge

\* Every step keeps the types.
LEMMA TypeStep ==
    TypeInv /\ [Next]_vars => TypeInv'
<1> SUFFICES ASSUME TypeInv, [Next]_vars PROVE TypeInv'
  OBVIOUS
<1>1. CASE UNCHANGED vars
  BY <1>1 DEF vars, storeVars, engineVars, TypeInv, TypeOK, StoreTypeOK, JobTyped
<1>2. CASE Next
  BY <1>2, RequestType, AcquireType, IngestRunType, EnrichRunType, PurgeRunType,
     SwitchRunType, StartUpType, CrashType DEF Next
<1> QED BY <1>1, <1>2

\* Every action of the engine, at every crash and fault point, keeps the rows of
\* SQLite, the Lance tables, the jobs and the bounded queue well-formed.
THEOREM TypeCorrect ==
    Spec => []TypeOK
<1>1. TypeInv => TypeOK
  BY DEF TypeInv
<1> QED BY TypeInit, TypeStep, <1>1, PTL DEF Spec

-----------------------------------------------------------------------------
(* One active row per coordinate: whatever fails and whenever the process   *)
(* dies, for every registry write is one statement or one transaction.      *)

\* What a step may do to the registry.
RegistryStep ==
    \/ registry' \subseteq registry
    \/ \E t \in TableIds : registry' = registry \cup {<<t, "building">>}
    \/ \E t \in TableIds : ActiveTables(t[1]) = {} /\ registry' = registry \cup {<<t, "active">>}
    \/ \E t \in TableIds : FlipTxn(t)
    \/ \E c \in Coords : DemoteTxn(c)

\* Building and flipping change the registry in one of the listed ways.
LEMMA BuildRegistry ==
    ASSUME TypeInv, NEW a \in Actors, Build(a)
    PROVE  RegistryStep
<1>1. job[a] \in Job /\ (job[a].pc \notin Untabled => job[a].t \in TableIds)
  BY DEF TypeInv, TypeOK, JobTyped, JobFields
<1>2. CASE RegisterBuilding(a)
  BY <1>1, <1>2 DEF RegisterBuilding, At, Untabled, Register, RegistryStep
<1>3. CASE Flip(a)
  BY <1>1, <1>3 DEF Flip, At, Untabled, RegistryStep
<1>4. CASE DropStaleRow(a)
  BY <1>4 DEF DropStaleRow, DeleteRowsByTable, RegistryStep
<1>5. CASE registry' = registry
  BY <1>5 DEF RegistryStep
<1> QED BY <1>2, <1>3, <1>4, <1>5 DEF Build, PickGen, CreateTable, Seed, Populate, DropStale,
           storeVars

\* Every step changes the registry in one of the listed ways.
LEMMA NextRegistry ==
    ASSUME TypeInv, [Next]_vars
    PROVE  RegistryStep
<1> USE ActorsDistinct
<1>0. ASSUME registry' = registry PROVE RegistryStep
  BY <1>0 DEF RegistryStep
<1>1. CASE UNCHANGED vars
  BY <1>0, <1>1 DEF vars, storeVars
<1>2. CASE Request
  BY <1>0, <1>2 DEF Request, CallIngest, RetrySource, TrashSource, RestoreSource, SwitchCall,
     CallPurge, TrashNotebook, RestoreNotebook, RescanEnrichment, FlagOnly, storeVars
<1>3. CASE Acquire
  BY <1>0, <1>3 DEF Acquire, IngestAcquire, EnrichLock, PurgeAcquire, SwitchLock, storeVars
<1>4. CASE IngestRun
  <2>1. CASE Build("ingest")
    BY <2>1, BuildRegistry
  <2>2. CASE IngestEnsureRow
    <3>1. job["ingest"].t \in TableIds
      BY <2>2 DEF IngestEnsureRow, At, TypeInv, TypeOK, JobTyped, JobFields, Untabled
    <3> QED BY <2>2, <3>1 DEF IngestEnsureRow, Register, RegistryStep
  <2>3. CASE IngestSweepRows
    BY <2>3 DEF IngestSweepRows, DeleteBuildingRows, RegistryStep
  <2> QED BY <1>0, <1>4, <2>1, <2>2, <2>3 DEF IngestRun, IngestMissing, IngestUnchanged,
       IngestCancelled, IngestParkWipe, IngestParkRows, IngestParkStatus, IngestParse,
       IngestWipe, IngestChunks, IngestReset, IngestEmpty, IngestEmbed, IngestEnsureTable,
       IngestAppend, IngestSweep, IngestFinish, IngestFail, storeVars
<1>5. CASE EnrichRun
  <2>1. CASE Build("enrich")
    BY <2>1, BuildRegistry
  <2> QED BY <1>0, <1>5, <2>1 DEF EnrichRun, EnrichSkip, EnrichPreflightFail, EnrichStart,
       EnrichDropped, EnrichDegrade, EnrichPrefixOnly, EnrichMap, EnrichPersist, EnrichMeta,
       EnrichRelist, EnrichCoord, EnrichFinish, EnrichLlmFail, EnrichAbort, EnrichFail,
       EnrichReturn, storeVars
<1>6. ASSUME NEW a \in Switchers, SwitchRun(a) PROVE RegistryStep
  <2>1. CASE Build(a)
    BY <2>1, BuildRegistry
  <2>2. CASE SwitchRetire(a)
    <3>1. job[a].coords \subseteq Coords
      BY DEF TypeInv, TypeOK, Job
    <3> QED BY <2>2, <3>1 DEF SwitchRetire, RegistryStep
  <2> QED BY <1>0, <1>6, <2>1, <2>2 DEF SwitchRun, SwitchSet, SwitchAttempt, SwitchSnapshot,
       SwitchCoords, SwitchChunks, SwitchRead, SwitchDone, SwitchFail, storeVars
<1>7. CASE PurgeRun
  BY <1>7 DEF PurgeRun, PurgeCoords, PurgeSourceVectors, PurgeSourceRow, PurgeNotebookTables,
     PurgeNotebookRow, PurgeFail, storeVars, RegistryStep
<1>8. CASE StartUp \/ Crash
  BY <1>8 DEF StartUp, RecoverStatuses, GcUnregistered, GcTables, GcRows, GcFail, Crash,
     storeVars, RegistryStep
<1> QED BY <1>1, <1>2, <1>3, <1>4, <1>5, <1>6, <1>7, <1>8 DEF Next

\* None of the ways the registry changes makes a second active row.
LEMMA UniqueStep ==
    ASSUME TypeInv, RegistryStep, UniqueActive
    PROVE  UniqueActive'
<1>0. StoreTypeOK
  BY DEF TypeInv, TypeOK
<1>1. CASE registry' \subseteq registry
  BY <1>1 DEF UniqueActive, WithStatus
<1>2. ASSUME NEW t \in TableIds, registry' = registry \cup {<<t, "building">>}
      PROVE  UniqueActive'
  BY <1>2 DEF UniqueActive, WithStatus
<1>3. ASSUME NEW t \in TableIds, ActiveTables(t[1]) = {},
             registry' = registry \cup {<<t, "active">>}
      PROVE  UniqueActive'
  BY <1>3 DEF UniqueActive, WithStatus, ActiveTables
<1>4. ASSUME NEW t \in TableIds, FlipTxn(t) PROVE UniqueActive'
  <2>1. \A u \in TableIds : <<u, "active">> \in registry'
                               <=> u = t \/ (<<u, "active">> \in registry /\ u[1] # t[1])
    BY <1>0, <1>4, FlipTxnRows
  <2> QED BY <2>1 DEF UniqueActive, WithStatus
<1>5. ASSUME NEW c \in Coords, DemoteTxn(c) PROVE UniqueActive'
  <2>1. \A u \in TableIds : <<u, "active">> \in registry'
                               <=> <<u, "active">> \in registry /\ u[1] # c
    BY <1>0, <1>5, DemoteTxnRows
  <2> QED BY <2>1 DEF UniqueActive, WithStatus
<1> QED BY <1>1, <1>2, <1>3, <1>4, <1>5 DEF RegistryStep

\* Search never has two active rows of a coordinate to choose from.
THEOREM ActiveUnique ==
    Spec => []UniqueActive
<1>1. Init => UniqueActive
  BY DEF Init, StoreInit, UniqueActive, WithStatus
<1>2. TypeInv /\ UniqueActive /\ [Next]_vars => UniqueActive'
  BY NextRegistry, UniqueStep
<1> QED BY <1>1, <1>2, TypeInit, TypeStep, PTL DEF Spec

-----------------------------------------------------------------------------
(* Steps of one job: what they do to ingest_lock, and those that neither    *)
(* touch a registry row or a table nor begin or end a clean-up.             *)

Cleaning == {"drop", "drop_row", "sweep_rows"}

\* The steps of an ingest between the wipe and the table it writes to.
Rewriting == {"chunks", "reset", "embed"}

JobStep(a) ==
    /\ up = "up" /\ UNCHANGED <<up, purge, torn>>
    /\ \A b \in Actors : b # a => job'[b] = job[b]
    /\ lock' = lock \/ lock \in {a, "free"}
    /\ Holds(a)' => lock' = a

QuietStep(a) ==
    /\ JobStep(a) /\ UNCHANGED <<registry, phys>>
    /\ job[a].pc \notin Cleaning
    /\ job'[a].pc \notin Cleaning \cup {"register", "ensure_row"}
    /\ job'[a].pc = "create" => job'[a].t[2] # 0
    /\ job'[a].pc = "wipe" => job'[a].t[2] = 0
    /\ a = "ingest" /\ job'[a].pc \in Rewriting \cup {"ensure"}
         => job[a].pc \in Rewriting \cup {"wipe"} /\ job'[a].t = job[a].t

\* A step of one job that respects ingest_lock keeps the lock's invariant.
LEMMA LockOfJobStep ==
    ASSUME LockInv, NEW a \in Actors, JobStep(a)
    PROVE  LockInv'
<1>1. a \notin {"free", "purge"} /\ \A b \in Actors : b \notin {"free", "purge"}
  BY JobAssumption DEF Actors
<1>2. ASSUME NEW b \in Actors, b # a, Holds(b)' PROVE lock' = b
  <2>1. Holds(b)
    BY <1>2 DEF JobStep, Holds
  <2> QED BY <1>1, <1>2, <2>1 DEF JobStep, LockInv
<1>3. \A b \in Actors : Holds(b)' => lock' = b
  BY <1>2 DEF JobStep
<1> QED BY <1>1, <1>3 DEF JobStep, LockInv

\* A job that is replaced, goes on or ends.
LEMMA SetJob ==
    ASSUME TypeInv, NEW a \in Actors, NEW j, job' = [job EXCEPT ![a] = j]
    PROVE  job'[a] = j /\ \A b \in Actors : b # a => job'[b] = job[b]
BY DEF TypeInv, TypeOK

\* Goto changes the step of one job and nothing else.
LEMMA GotoJob ==
    ASSUME TypeInv, NEW a \in Actors, NEW pc, Goto(a, pc)
    PROVE  /\ job'[a].pc = pc /\ job'[a].t = job[a].t /\ job'[a].old = job[a].old
           /\ \A b \in Actors : b # a => job'[b] = job[b]
BY DEF TypeInv, TypeOK, Goto, Job

\* Leave ends one job and touches no other.
LEMMA LeaveJob ==
    ASSUME TypeInv, NEW a \in Actors, Leave(a)
    PROVE  job'[a].pc = "idle" /\ \A b \in Actors : b # a => job'[b] = job[b]
BY DEF TypeInv, TypeOK, Leave, Idle

\* When replacing a job, away from clean-up and registration, is quiet.
LEMMA QuietSet ==
    ASSUME TypeInv, NEW a \in Actors, NEW j, job' = [job EXCEPT ![a] = j],
           up = "up", Steady, UNCHANGED <<registry, phys>>,
           lock' = lock \/ lock \in {a, "free"},
           (IF a = "ingest" THEN j.pc # "idle" ELSE j.pc \in {"flip", "retire"}) => lock' = a,
           job[a].pc \notin Cleaning, j.pc \notin Cleaning \cup {"register", "ensure_row"},
           j.pc = "create" => j.t[2] # 0, j.pc = "wipe" => j.t[2] = 0,
           a = "ingest" /\ j.pc \in Rewriting \cup {"ensure"}
             => job[a].pc \in Rewriting \cup {"wipe"} /\ j.t = job[a].t
    PROVE  QuietStep(a)
<1>1. job'[a] = j /\ \A b \in Actors : b # a => job'[b] = job[b]
  BY SetJob
<1>2. Holds(a)' => lock' = a
  BY <1>1 DEF Holds, Cleaning
<1> QED BY <1>1, <1>2 DEF QuietStep, JobStep, Steady, Rewriting

\* No clean-up step fails: a job that ends early is not in one.
LEMMA QuietLeave ==
    ASSUME TypeInv, NEW a \in Actors, Leave(a), up = "up", Steady,
           UNCHANGED <<registry, phys>>, lock' = lock \/ lock \in {a, "free"},
           job[a].pc \notin Cleaning
    PROVE  QuietStep(a)
<1>1. job' = [job EXCEPT ![a] = Idle] /\ Idle.pc = "idle"
  BY DEF Leave, Idle
<1> QED BY <1>1, QuietSet DEF Cleaning, Rewriting

\* When moving a job on is quiet.
LEMMA QuietGoto ==
    ASSUME TypeInv, NEW a \in Actors, NEW pc, Goto(a, pc), up = "up", Steady,
           UNCHANGED <<registry, phys>>,
           lock' = lock \/ lock \in {a, "free"},
           (IF a = "ingest" THEN pc # "idle" ELSE pc \in {"flip", "retire"}) => lock' = a,
           job[a].pc \notin Cleaning,
           pc \notin Cleaning \cup {"register", "ensure_row", "create", "wipe"},
           a = "ingest" /\ pc \in Rewriting \cup {"ensure"}
             => job[a].pc \in Rewriting \cup {"wipe"}
    PROVE  QuietStep(a)
<1> DEFINE j == [job[a] EXCEPT !.pc = pc]
<1>1. job' = [job EXCEPT ![a] = j]
  BY DEF Goto
<1>2. j.pc = pc /\ j.t = job[a].t
  BY DEF TypeInv, TypeOK, Job
<1> HIDE DEF j
<1> QED BY <1>1, <1>2, QuietSet

\* Picking a generation, seeding and adding are quiet.
LEMMA BuildQuiet ==
    ASSUME TypeInv, LockInv, NEW a \in Actors, PickGen(a) \/ Seed(a) \/ Populate(a)
    PROVE  QuietStep(a)
<1>0. job[a] \in Job /\ (a = "ingest" /\ job[a].pc # "idle" => lock = a)
  BY DEF TypeInv, TypeOK, LockInv, Holds
<1>1. CASE PickGen(a)
  <2>1. PICK g \in 1 .. MaxGen :
          job' = [job EXCEPT ![a].t = <<@[1], g>>, ![a].pc = "create"]
    BY <1>1 DEF PickGen
  <2> DEFINE j == [job[a] EXCEPT !.t = <<job[a].t[1], g>>, !.pc = "create"]
  <2>2. job' = [job EXCEPT ![a] = j]
    BY <2>1
  <2>3. j.pc = "create" /\ j.t = <<job[a].t[1], g>> /\ g # 0 /\ j.t[2] # 0
    BY <1>0, BoundsAssumption DEF Job
  <2>4. /\ job[a].pc = "pick" /\ up = "up" /\ Steady
        /\ UNCHANGED <<lock, registry, phys>>
    BY <1>1 DEF PickGen, At, Internal, storeVars
  <2> HIDE DEF j
  <2> QED BY <1>0, <2>2, <2>3, <2>4, QuietSet DEF Cleaning, Rewriting
<1>2. CASE Seed(a)
  BY <1>0, <1>2, QuietGoto DEF Seed, SeedFromActive, AddRows, At, Internal, Cleaning, Rewriting
<1>3. CASE Populate(a)
  BY <1>0, <1>3, QuietGoto DEF Populate, AddRows, At, Internal, Cleaning, Rewriting
<1> QED BY <1>1, <1>2, <1>3

IngestQuietStep ==
    \/ IngestMissing \/ IngestUnchanged \/ IngestCancelled
    \/ IngestParkWipe \/ IngestParkRows \/ IngestParkStatus
    \/ IngestParse \/ IngestWipe \/ IngestChunks \/ IngestReset \/ IngestEmpty
    \/ IngestEmbed \/ IngestAppend
    \/ IngestFinish \/ IngestFail \/ \E s \in Sources : IngestAcquire(s)

\* The ingest steps that change neither registry nor tables are quiet.
LEMMA IngestQuiet ==
    ASSUME TypeInv, LockInv, NoCleanupFaults, IngestQuietStep
    PROVE  QuietStep("ingest")
<1> DEFINE j0 == job["ingest"]
<1> USE ActorsDistinct
<1>0. j0 \in Job /\ (j0.pc # "idle" => lock = "ingest")
  BY DEF TypeInv, TypeOK, LockInv, Holds
<1>1. ASSUME NEW s, NEW row, IngestOk(s, row), UNCHANGED storeVars, up = "up", j0.pc # "idle",
             j0.pc \notin Cleaning
      PROVE  QuietStep("ingest")
  BY <1>0, <1>1, QuietLeave DEF IngestOk, storeVars
<1>2. CASE IngestMissing \/ IngestCancelled
  BY <1>0, <1>2, QuietLeave DEF IngestMissing, IngestCancelled, At, storeVars, Cleaning, Rewriting
<1>3. CASE IngestUnchanged \/ IngestParkStatus \/ IngestEmpty \/ IngestFinish
  BY <1>1, <1>3 DEF IngestUnchanged, IngestParkStatus, IngestEmpty, IngestFinish, At, Cleaning
<1>4. CASE IngestParkWipe
  BY <1>0, <1>4, QuietGoto DEF IngestParkWipe, DropSource, At, Internal, Cleaning, Rewriting
<1>5. CASE IngestParkRows
  BY <1>0, <1>5, QuietGoto DEF IngestParkRows, At, storeVars, Cleaning, Rewriting
<1>6. CASE IngestParse
  <2>1. PICK h \in 1 .. MaxHash :
          job' = [job EXCEPT !["ingest"].pc = "wipe", !["ingest"].key = h,
                             !["ingest"].t = <<model, 0>>]
    BY <1>6 DEF IngestParse
  <2> DEFINE j == [j0 EXCEPT !.pc = "wipe", !.key = h, !.t = <<model, 0>>]
  <2>2. job' = [job EXCEPT !["ingest"] = j]
    BY <2>1
  <2>3. j.pc = "wipe" /\ j.t[2] = 0
    BY <1>0 DEF Job
  <2>4. /\ j0.pc = "load" /\ up = "up" /\ Steady
        /\ UNCHANGED <<lock, registry, phys>>
    BY <1>6 DEF IngestParse, At, storeVars
  <2> HIDE DEF j
  <2> QED BY <1>0, <2>2, <2>3, <2>4, QuietSet DEF Cleaning, Rewriting
<1>7. CASE IngestWipe
  BY <1>0, <1>7, QuietGoto DEF IngestWipe, DropSource, At, Internal, Cleaning, Rewriting
<1>8. CASE IngestEmbed
  <2> DEFINE s == j0.s
             pc == IF s \in PdfSources THEN "sweep" ELSE "ensure"
             j == [j0 EXCEPT !.new = {RawRow(s, src[s].ver)}, !.pc = pc]
  <2>1. job' = [job EXCEPT !["ingest"] = j]
    BY <1>8 DEF IngestEmbed
  <2>2. j.pc = pc /\ j.t = j0.t
    BY <1>0 DEF Job
  <2> HIDE DEF j
  <2> QED BY <1>0, <1>8, <2>1, <2>2, QuietSet DEF IngestEmbed, At, storeVars, Cleaning, Rewriting
<1>81. CASE IngestChunks \/ IngestReset
  BY <1>0, <1>81, QuietGoto DEF IngestChunks, IngestReset, At, storeVars, Cleaning, Rewriting
<1>9. CASE IngestAppend
  BY <1>0, <1>9, QuietGoto DEF IngestAppend, AddRows, At, Internal, Cleaning, Rewriting
<1>10. CASE IngestFail
  <2>1. j0.pc \notin Cleaning
    BY <1>10 DEF IngestFail, MayFail, StoreRefuses, NoCleanupFaults, Cleaning
  <2> QED BY <1>0, <1>10, <2>1, QuietLeave DEF IngestFail, storeVars
<1>11. ASSUME NEW s \in Sources, IngestAcquire(s) PROVE QuietStep("ingest")
  <2> DEFINE j == [Idle EXCEPT !.pc = "load", !.s = s]
  <2>1. job' = [job EXCEPT !["ingest"] = j] /\ j.pc = "load" /\ lock = "free"
    BY <1>11 DEF IngestAcquire, Idle
  <2> HIDE DEF j
  <2>2. j0.pc = "idle"
    BY <1>0, <2>1
  <2> QED BY <1>11, <2>1, <2>2, QuietSet DEF IngestAcquire, storeVars, Cleaning, Rewriting
<1> QED BY <1>2, <1>3, <1>4, <1>5, <1>6, <1>7, <1>8, <1>81, <1>9, <1>10, <1>11
       DEF IngestQuietStep

EnrichQuietStep ==
    \/ EnrichStart \/ EnrichDropped \/ EnrichDegrade \/ EnrichPrefixOnly \/ EnrichMap
    \/ EnrichPersist \/ EnrichMeta \/ EnrichRelist \/ EnrichCoord \/ EnrichFinish
    \/ EnrichLlmFail \/ EnrichAbort \/ EnrichFail \/ EnrichLock

\* The worker's steps outside the building of a table are quiet.
LEMMA EnrichQuiet ==
    ASSUME TypeInv, LockInv, NoCleanupFaults, EnrichQuietStep
    PROVE  QuietStep("enrich")
<1> DEFINE j0 == job["enrich"]
<1> USE ActorsDistinct
<1>0. j0 \in Job
  BY DEF TypeInv, TypeOK
<1>1. ASSUME NEW row, EnrichReturn(row), up = "up",
             j0.pc \in {"map", "persist", "meta"}
      PROVE  QuietStep("enrich")
  BY <1>1, QuietLeave DEF EnrichReturn, storeVars, Cleaning, Rewriting
<1>2. CASE EnrichStart
  <2> DEFINE j == [Idle EXCEPT !.pc = "map", !.s = Head(queue), !.key = src[Head(queue)].hash]
  <2>1. job' = [job EXCEPT !["enrich"] = j] /\ j.pc = "map"
    BY <1>2 DEF EnrichStart, Idle
  <2>2. j0.pc = "idle" /\ up = "up" /\ Steady /\ UNCHANGED <<lock, registry, phys>>
    BY <1>2 DEF EnrichStart, EnrichIdle, storeVars
  <2> HIDE DEF j
  <2> QED BY <2>1, <2>2, QuietSet DEF Cleaning, Rewriting
<1>3. CASE EnrichDropped \/ EnrichDegrade \/ EnrichPrefixOnly \/ EnrichLlmFail \/ EnrichAbort
  BY <1>1, <1>3 DEF EnrichDropped, EnrichDegrade, EnrichPrefixOnly, EnrichLlmFail, EnrichAbort, At
<1>4. CASE EnrichMap
  <2> DEFINE s == j0.s
             j == [j0 EXCEPT !.new = {[RawRow(s, src[s].ver) EXCEPT !.kind = "ctx"]},
                             !.pc = "persist"]
  <2>1. job' = [job EXCEPT !["enrich"] = j]
    BY <1>4 DEF EnrichMap
  <2>2. j.pc = "persist"
    BY <1>0 DEF Job
  <2>3. j0.pc = "map" /\ up = "up" /\ Steady /\ UNCHANGED <<lock, registry, phys>>
    BY <1>4 DEF EnrichMap, At, Internal, storeVars
  <2> HIDE DEF j
  <2> QED BY <2>1, <2>2, <2>3, QuietSet DEF Cleaning, Rewriting
<1>5. CASE EnrichPersist \/ EnrichMeta
  BY <1>5, QuietGoto DEF EnrichPersist, EnrichMeta, At, storeVars, Cleaning, Rewriting
<1>51. CASE EnrichRelist
  <2>1. j0.pc = "relist" /\ up = "up" /\ Steady /\ UNCHANGED <<lock, registry, phys>>
    BY <1>51 DEF EnrichRelist, At, storeVars
  <2>2. CASE Leave("enrich")
    BY <2>1, <2>2, QuietLeave DEF Cleaning
  <2>3. CASE ~Leave("enrich")
    <3> DEFINE s == j0.s
               j == [j0 EXCEPT !.pc = "coord",
                       !.new = {[RawRow(s, src[s].ver) EXCEPT
                                   !.kind = IF src[s].ctx THEN "ctx" ELSE "raw"]}]
    <3>1. job' = [job EXCEPT !["enrich"] = j]
      BY <1>51, <2>3 DEF EnrichRelist
    <3>2. j.pc = "coord"
      BY <1>0 DEF Job
    <3> HIDE DEF j
    <3> QED BY <2>1, <3>1, <3>2, QuietSet DEF Cleaning, Rewriting
  <2> QED BY <2>2, <2>3
<1>52. CASE EnrichCoord
  <2> DEFINE j == [j0 EXCEPT !.pc = "pick", !.t = <<model, 0>>]
  <2>1. job' = [job EXCEPT !["enrich"] = j]
    BY <1>52 DEF EnrichCoord
  <2>2. j.pc = "pick"
    BY <1>0 DEF Job
  <2>3. j0.pc = "coord" /\ up = "up" /\ Steady /\ UNCHANGED <<lock, registry, phys>>
    BY <1>52 DEF EnrichCoord, At, Internal, storeVars
  <2> HIDE DEF j
  <2> QED BY <2>1, <2>2, <2>3, QuietSet DEF Cleaning, Rewriting
<1>6. CASE EnrichFinish
  BY <1>6, QuietLeave DEF EnrichFinish, At, storeVars, Cleaning, Rewriting
<1>7. CASE EnrichFail
  <2>1. j0.pc \notin Cleaning
    BY <1>7 DEF EnrichFail, MayFail, StoreRefuses, NoCleanupFaults, Cleaning
  <2> QED BY <1>7, <2>1, QuietLeave DEF EnrichFail, storeVars
<1>8. CASE EnrichLock
  <2>1. j0.pc = "lock" /\ up = "up" /\ Steady /\ UNCHANGED <<registry, phys>> /\ lock = "free"
    BY <1>8 DEF EnrichLock, At, storeVars
  <2> QED BY <1>8, <2>1, QuietGoto, QuietLeave DEF EnrichLock, Cleaning, Rewriting
<1> QED BY <1>2, <1>3, <1>4, <1>5, <1>51, <1>52, <1>6, <1>7, <1>8 DEF EnrichQuietStep

\* The reads of set_notebook_embedding_model and reembed_notebook.
SwitchReads(a) ==
    \/ SwitchSet(a) \/ SwitchAttempt(a) \/ SwitchSnapshot(a) \/ SwitchCoords(a)
    \/ SwitchChunks(a) \/ SwitchRead(a)

\* They replace or end the job, away from the tables and the lock.
LEMMA SwitchReadsJob ==
    ASSUME TypeInv, NEW a \in Switchers, SwitchReads(a)
    PROVE  /\ up = "up" /\ Steady /\ UNCHANGED <<storeVars, src, lock>>
           /\ job[a].pc \in {"set", "attempt", "snapshot", "coords", "sources"}
           /\ \E j : /\ job' = [job EXCEPT ![a] = j]
                    /\ j.pc \in {"idle", "attempt", "snapshot", "coords", "sources", "pick"}
<1> DEFINE j0 == job[a]
<1> USE ActorsDistinct
<1>0. j0 \in Job
  BY DEF TypeInv, TypeOK
<1>1. ASSUME NEW j, job' = [job EXCEPT ![a] = j],
             j.pc \in {"idle", "attempt", "snapshot", "coords", "sources", "pick"}
      PROVE  \E i : /\ job' = [job EXCEPT ![a] = i]
                   /\ i.pc \in {"idle", "attempt", "snapshot", "coords", "sources", "pick"}
  BY <1>1
<1>2. ASSUME NEW pc \in {"attempt", "snapshot", "coords", "sources", "pick"}, Goto(a, pc)
      PROVE  \E i : /\ job' = [job EXCEPT ![a] = i]
                   /\ i.pc \in {"idle", "attempt", "snapshot", "coords", "sources", "pick"}
  <2> DEFINE j == [j0 EXCEPT !.pc = pc]
  <2>1. job' = [job EXCEPT ![a] = j] /\ j.pc = pc
    BY <1>0, <1>2 DEF Goto, Job
  <2> HIDE DEF j
  <2> QED BY <1>1, <2>1
<1>3. ASSUME Leave(a)
      PROVE  \E i : /\ job' = [job EXCEPT ![a] = i]
                   /\ i.pc \in {"idle", "attempt", "snapshot", "coords", "sources", "pick"}
  BY <1>1, <1>3 DEF Leave, Idle
<1>4. CASE SwitchSet(a)
  BY <1>2, <1>4 DEF SwitchSet, At
<1>5. CASE SwitchAttempt(a)
  <2>1. PICK c : job' = [job EXCEPT ![a].pc = "snapshot", ![a].want = c]
    BY <1>5 DEF SwitchAttempt
  <2> DEFINE j == [j0 EXCEPT !.pc = "snapshot", !.want = c]
  <2>2. job' = [job EXCEPT ![a] = j] /\ j.pc = "snapshot"
    BY <1>0, <2>1 DEF Job
  <2> HIDE DEF j
  <2> QED BY <1>1, <1>5, <2>2 DEF SwitchAttempt, At, Internal
<1>6. CASE SwitchSnapshot(a)
  <2> DEFINE j == [j0 EXCEPT !.pc = "coords", !.t = <<model, 0>>]
  <2>1. job' = [job EXCEPT ![a] = j] /\ j.pc = "coords"
    BY <1>0, <1>6 DEF Job, SwitchSnapshot
  <2> HIDE DEF j
  <2> QED BY <1>1, <1>6, <2>1 DEF SwitchSnapshot, At, Internal
<1>7. CASE SwitchCoords(a)
  <2> DEFINE j == [j0 EXCEPT !.pc = "sources", !.coords = ActiveCoords \ {j0.t[1]},
                             !.todo = {s \in Sources : Present(s) /\ ~src[s].trash}]
  <2>1. (Leave(a) \/ job' = [job EXCEPT ![a] = j]) /\ j.pc = "sources"
    BY <1>0, <1>7 DEF Job, SwitchCoords
  <2> HIDE DEF j
  <2> QED BY <1>1, <1>3, <1>7, <2>1 DEF SwitchCoords, At, Internal
<1>8. CASE SwitchChunks(a)
  <2>1. PICK s \in j0.todo : \E new :
          job' = [job EXCEPT ![a].todo = j0.todo \ {s}, ![a].new = j0.new \cup new]
    BY <1>8 DEF SwitchChunks
  <2>2. PICK new : job' = [job EXCEPT ![a].todo = j0.todo \ {s}, ![a].new = j0.new \cup new]
    BY <2>1
  <2> DEFINE j == [j0 EXCEPT !.todo = j0.todo \ {s}, !.new = j0.new \cup new]
  <2>3. j0.pc = "sources"
    BY <1>8 DEF SwitchChunks, At
  <2>4. job' = [job EXCEPT ![a] = j] /\ j.pc = "sources"
    BY <1>0, <2>2, <2>3 DEF Job
  <2> HIDE DEF j
  <2> QED BY <1>1, <1>8, <2>4 DEF SwitchChunks, At, Internal
<1>9. CASE SwitchRead(a)
  BY <1>2, <1>3, <1>9 DEF SwitchRead, At, Internal
<1> QED BY <1>4, <1>5, <1>6, <1>7, <1>8, <1>9 DEF SwitchReads

\* The switch's steps outside the building and retiring are quiet.
LEMMA SwitchQuiet ==
    ASSUME TypeInv, LockInv, NoCleanupFaults, NEW a \in Switchers,
           \/ SwitchReads(a) \/ SwitchLock(a) \/ SwitchDone(a) \/ SwitchFail(a)
           \/ \E c \in Coords : SwitchCall(a, c)
    PROVE  QuietStep(a)
<1> DEFINE j0 == job[a]
<1> USE ActorsDistinct
<1>0. j0 \in Job /\ (Holds(a) => lock = a)
  BY DEF TypeInv, TypeOK, LockInv
<1>1. CASE SwitchReads(a)
  <2>1. PICK j : /\ job' = [job EXCEPT ![a] = j]
                 /\ j.pc \in {"idle", "attempt", "snapshot", "coords", "sources", "pick"}
    BY <1>1, SwitchReadsJob
  <2> QED BY <1>1, <2>1, SwitchReadsJob, QuietSet DEF Cleaning, storeVars
<1>2. CASE SwitchLock(a)
  <2>1. j0.pc = "lock" /\ up = "up" /\ Steady /\ UNCHANGED <<registry, phys>> /\ lock = "free"
    BY <1>2 DEF SwitchLock, At, storeVars
  <2> QED BY <1>2, <2>1, QuietGoto, QuietLeave DEF SwitchLock, Cleaning, Rewriting
<1>3. CASE SwitchDone(a)
  BY <1>0, <1>3, QuietLeave DEF SwitchDone, At, Holds, storeVars, Cleaning, Rewriting
<1>4. CASE SwitchFail(a)
  <2>1. j0.pc \notin Cleaning
    BY <1>4 DEF SwitchFail, MayFail, StoreRefuses, NoCleanupFaults, Cleaning
  <2> QED BY <1>4, <2>1, QuietLeave DEF SwitchFail, storeVars
<1>5. ASSUME NEW c \in Coords, SwitchCall(a, c) PROVE QuietStep(a)
  <2> DEFINE j == [Idle EXCEPT !.pc = "set", !.want = c, !.prior = model]
  <2>1. job' = [job EXCEPT ![a] = j] /\ j.pc = "set"
    BY <1>5 DEF SwitchCall, Idle
  <2>2. j0.pc = "idle" /\ up = "up" /\ Steady /\ UNCHANGED <<lock, registry, phys>>
    BY <1>5 DEF SwitchCall, At, Internal, storeVars
  <2> HIDE DEF j
  <2> QED BY <2>1, <2>2, QuietSet DEF Cleaning, Rewriting
<1> QED BY <1>1, <1>2, <1>3, <1>4, <1>5

-----------------------------------------------------------------------------
(* The rows and tables *)

TableInv == RowInv /\ StaleInv /\ ClaimInv

\* A step that leaves registry, tables and jobs alone keeps the tables' invariant.
LEMMA StillKeeps ==
    ASSUME TableInv, UNCHANGED <<registry, phys, job>>, up' = up \/ (up # "up" /\ up' # "up")
    PROVE  TableInv'
BY DEF TableInv, RowInv, StaleInv, ClaimInv, WithStatus, Registered, Sweeping, Dropping, Claimed

\* A quiet step keeps the tables' invariant.
LEMMA QuietKeeps ==
    ASSUME TypeInv, TableInv, NEW a \in Actors, QuietStep(a)
    PROVE  TableInv'
<1> USE ActorsDistinct
<1>0. /\ up = "up" /\ up' = up /\ UNCHANGED <<registry, phys>>
      /\ \A b \in Actors : b # a => job'[b] = job[b]
      /\ job[a].pc \notin Cleaning /\ job'[a].pc \notin Cleaning \cup {"register", "ensure_row"}
  BY DEF QuietStep, JobStep
<1>1. /\ \A c : Sweeping(c)' = Sweeping(c)
      /\ \A st \in RowStatus : WithStatus(st)' = WithStatus(st)
      /\ Registered' = Registered
  BY <1>0 DEF Sweeping, WithStatus, Registered, Cleaning
<1>2. /\ \A b \in Actors : Dropping(b)' = Dropping(b) /\ (Dropping(b) => job'[b] = job[b])
      /\ \A b \in Actors : job'[b].pc = "drop" <=> job[b].pc = "drop"
      /\ \A b \in Actors : job'[b].pc = "register" => b # a /\ job'[b] = job[b]
  BY <1>0 DEF Dropping, Cleaning
<1>3. RowInv'
  BY <1>0, <1>1 DEF TableInv, RowInv, RowStatus
<1>4. StaleInv'
  BY <1>0, <1>1, <1>2 DEF TableInv, StaleInv, RowStatus, Dropping
<1>5. \A t : Claimed(t) => Claimed(t)'
  BY <1>0, <1>1, <1>2 DEF Claimed, RowStatus
<1>6. \A b \in Actors : job'[b].pc \in {"create", "register"} => job'[b].t[2] # 0
  BY <1>0, <1>2 DEF TableInv, ClaimInv, QuietStep
<1>7. /\ \A b \in Actors : job'[b].pc = "register" => Claimed(job[b].t)'
      /\ \A b, c \in Actors : b # c /\ job'[b].pc = "register" /\ job'[c].pc = "register"
                                  => job'[b].t # job'[c].t
  BY <1>2, <1>5 DEF TableInv, ClaimInv
<1>8. /\ job'["ingest"].pc \in {"wipe", "ensure_row"} \cup Rewriting \cup {"ensure"}
           => job'["ingest"].t[2] = 0
      /\ job'["ingest"].pc = "ensure_row"
           => job'["ingest"].t \in phys' /\ job'["ingest"].t \notin Registered'
  BY <1>0, <1>1 DEF TableInv, ClaimInv, QuietStep, Rewriting
<1>9. ClaimInv'
  BY <1>6, <1>7, <1>8 DEF ClaimInv, Rewriting
<1> QED BY <1>3, <1>4, <1>9 DEF TableInv

\* The holder of the lock finds no stale row but those it is dropping, and no
\* sweep but its own.
LEMMA HolderAlone ==
    ASSUME TypeInv, LockInv, TableInv, NEW a \in Actors, up = "up", Holds(a)
    PROVE  /\ \A b \in Actors : b # a => ~Holds(b) /\ ~Dropping(b) /\ job[b].pc # "drop"
           /\ ~Dropping(a) => WithStatus("stale") = {}
           /\ \A c : Sweeping(c) => a = "ingest" /\ job[a].pc = "sweep_rows"
<1>1. \A b \in Actors : Dropping(b) => Holds(b)
  BY DEF Dropping, Holds
<1>2. \A b \in Actors : b # a => ~Holds(b)
  BY DEF LockInv
<1>3. \A c : Sweeping(c) => Holds("ingest")
  BY DEF Sweeping, Holds
<1> QED BY <1>1, <1>2, <1>3, ActorsDistinct DEF TableInv, StaleInv, Sweeping, Dropping

\* The other steps of a job take and return the lock in the same way.
TableStep(a) ==
    \/ CreateTable(a) \/ RegisterBuilding(a) \/ Flip(a) \/ DropStale(a) \/ DropStaleRow(a)
    \/ a \in Switchers /\ SwitchRetire(a)
    \/ a = "ingest" /\ \/ IngestEnsureTable \/ IngestEnsureRow
                        \/ IngestSweep \/ IngestSweepRows

\* The steps that change registry or tables respect ingest_lock.
LEMMA TableJobStep ==
    ASSUME TypeInv, LockInv, NEW a \in Actors, TableStep(a)
    PROVE  JobStep(a)
<1> USE ActorsDistinct
<1>0. job[a] \in Job /\ (Holds(a) => lock = a) /\ up = "up" /\ Steady
  BY DEF TypeInv, TypeOK, LockInv, TableStep, CreateTable, RegisterBuilding, Flip, DropStale,
     DropStaleRow, SwitchRetire, IngestEnsureTable, IngestEnsureRow, IngestSweep,
     IngestSweepRows, Internal, At
<1>1. ASSUME NEW j, job' = [job EXCEPT ![a] = j], lock' = lock \/ lock \in {a, "free"},
             (IF a = "ingest" THEN j.pc # "idle"
              ELSE j.pc \in {"flip", "drop", "drop_row", "retire"}) => lock' = a
      PROVE  JobStep(a)
  <2>1. job'[a] = j /\ \A b \in Actors : b # a => job'[b] = job[b]
    BY <1>1, SetJob
  <2> QED BY <1>0, <1>1, <2>1 DEF JobStep, Steady, Holds
<1>2. ASSUME NEW pc, Goto(a, pc), lock' = lock,
             (IF a = "ingest" THEN pc # "idle"
              ELSE pc \in {"flip", "drop", "drop_row", "retire"}) => lock = a
      PROVE  JobStep(a)
  <2> DEFINE j == [job[a] EXCEPT !.pc = pc]
  <2>1. job' = [job EXCEPT ![a] = j] /\ j.pc = pc
    BY <1>0, <1>2 DEF Goto, Job
  <2> HIDE DEF j
  <2> QED BY <1>1, <1>2, <2>1
<1>3. CASE CreateTable(a) \/ RegisterBuilding(a)
  BY <1>0, <1>2, <1>3 DEF CreateTable, RegisterBuilding, At, Internal, Holds
<1>4. CASE DropStale(a)
  BY <1>0, <1>2, <1>4 DEF DropStale, At, Internal, Holds
<1>5. CASE Flip(a)
  <2> DEFINE j == [job[a] EXCEPT !.old = ActiveTables(job[a].t[1]), !.pc = "drop"]
  <2>1. job' = [job EXCEPT ![a] = j] /\ lock' = lock /\ Holds(a)
    BY <1>5 DEF Flip, At, Internal, Holds
  <2> HIDE DEF j
  <2> QED BY <1>0, <1>1, <2>1
<1>6. CASE DropStaleRow(a)
  <2> DEFINE pc == IF a \in Switchers THEN "retire" ELSE "finish"
             j == [job[a] EXCEPT !.old = {}, !.pc = pc]
  <2>1. /\ job' = [job EXCEPT ![a] = j] /\ Holds(a)
        /\ lock' = IF a = "enrich" THEN "free" ELSE lock
    BY <1>6 DEF DropStaleRow, At, Holds
  <2>2. j.pc = pc
    BY <1>0 DEF Job
  <2> HIDE DEF j
  <2> QED BY <1>0, <1>1, <2>1, <2>2
<1>7. CASE a \in Switchers /\ SwitchRetire(a)
  <2>1. PICK c \in job[a].coords :
          job' = [job EXCEPT ![a].coords = @ \ {c}, ![a].old = ActiveTables(c), ![a].pc = "drop"]
    BY <1>7 DEF SwitchRetire
  <2> DEFINE j == [job[a] EXCEPT !.coords = @ \ {c}, !.old = ActiveTables(c), !.pc = "drop"]
  <2>2. job' = [job EXCEPT ![a] = j]
    BY <2>1
  <2>3. lock' = lock /\ Holds(a)
    BY <1>7 DEF SwitchRetire, At, Internal, Holds
  <2> HIDE DEF j
  <2> QED BY <1>0, <1>1, <2>2, <2>3
<1>8. CASE a = "ingest" /\ (IngestEnsureRow \/ IngestSweep \/ IngestSweepRows)
  BY <1>0, <1>2, <1>8 DEF IngestEnsureRow, IngestSweep, IngestSweepRows, At, Internal, Holds
<1>9. CASE a = "ingest" /\ IngestEnsureTable
  <2>1. lock' = lock /\ lock = a
    BY <1>0, <1>9 DEF IngestEnsureTable, At, Internal, Holds
  <2>2. ASSUME NEW t, job' = [job EXCEPT ![a].t = t, ![a].pc = "append"] PROVE JobStep(a)
    <3> DEFINE j == [job[a] EXCEPT !.t = t, !.pc = "append"]
    <3>1. job' = [job EXCEPT ![a] = j]
      BY <2>2
    <3> HIDE DEF j
    <3> QED BY <1>1, <2>1, <3>1
  <2>3. CASE Goto(a, "ensure_row")
    BY <1>2, <2>1, <2>3
  <2> QED BY <1>9, <2>2, <2>3 DEF IngestEnsureTable
<1> QED BY <1>3, <1>4, <1>5, <1>6, <1>7, <1>8, <1>9 DEF TableStep

\* create_table: the new table is claimed by its creator alone.
LEMMA CreateKeeps ==
    ASSUME TypeInv, LockInv, TableInv, NEW a \in Actors, CreateTable(a)
    PROVE  TableInv'
<1> DEFINE t == job[a].t
<1> USE ActorsDistinct
<1>0. /\ up = "up" /\ up' = up /\ registry' = registry /\ phys' = phys \cup {t} /\ t \notin phys
      /\ job[a].pc = "create" /\ Steady /\ lock' = lock /\ t \in TableIds
      /\ \A b \in Actors : b # a => job'[b] = job[b]
      /\ job'[a].pc = "register" /\ job'[a].t = t
  BY GotoJob DEF CreateTable, StoreRefuses, CreateEmpty, At, Internal, Steady, TypeInv, TypeOK,
     JobTyped, JobFields, Untabled
<1>2. /\ \A c : Sweeping(c)' = Sweeping(c)
      /\ \A st \in RowStatus : WithStatus(st)' = WithStatus(st)
      /\ Registered' = Registered
      /\ \A b \in Actors : Dropping(b)' = Dropping(b) /\ (Dropping(b) => job'[b] = job[b])
      /\ \A b \in Actors : job'[b].pc = "drop" <=> job[b].pc = "drop"
  BY <1>0 DEF Sweeping, WithStatus, Registered, Dropping
<1>3. RowInv'
  BY <1>0, <1>2 DEF TableInv, RowInv, RowStatus
<1>4. StaleInv'
  BY <1>0, <1>2 DEF TableInv, StaleInv, RowStatus, Dropping
<1>5. Claimed(t)'
  <2>1. t \notin WithStatus("active")
    BY <1>0 DEF TableInv, RowInv
  <2>2. t \in WithStatus("building") => Sweeping(t[1])
    BY <1>0 DEF TableInv, RowInv
  <2>3. ASSUME t \in WithStatus("stale"), NEW b \in Actors, job[b].pc = "drop" PROVE FALSE
    <3>1. PICK d \in Actors : Dropping(d) /\ t \in job[d].old
      BY <1>0, <2>3 DEF TableInv, StaleInv
    <3>2. d = b
      BY <2>3, <3>1 DEF Dropping, Holds, LockInv
    <3> QED BY <1>0, <2>3, <3>1, <3>2 DEF TableInv, StaleInv
  <2> QED BY <1>0, <1>2, <2>1, <2>2, <2>3 DEF Claimed, RowStatus
<1>6. \A u : Claimed(u) => Claimed(u)'
  BY <1>0, <1>2 DEF Claimed, RowStatus
<1>7. \A b \in Actors : b # a /\ job[b].pc = "register" => job[b].t # t
  BY <1>0 DEF TableInv, ClaimInv, Claimed
<1>8. ClaimInv'
  BY <1>0, <1>2, <1>5, <1>6, <1>7 DEF TableInv, ClaimInv
<1> QED BY <1>3, <1>4, <1>8 DEF TableInv

\* Registering a building row: its table is there and no active row has the name.
LEMMA RegisterKeeps ==
    ASSUME TypeInv, LockInv, TableInv, NEW a \in Actors, RegisterBuilding(a)
    PROVE  TableInv'
<1> DEFINE t == job[a].t
           pc == IF a \in Switchers THEN "add" ELSE "seed"
<1> USE ActorsDistinct
<1>0. /\ up = "up" /\ up' = up /\ registry' = registry \cup {<<t, "building">>} /\ phys' = phys
      /\ job[a].pc = "register" /\ Steady /\ lock' = lock /\ t \in TableIds
      /\ \A b \in Actors : b # a => job'[b] = job[b]
      /\ job'[a].pc = pc
  BY GotoJob DEF RegisterBuilding, Register, At, Internal, Steady, TypeInv, TypeOK, JobTyped,
     JobFields, Untabled
<1>2. /\ WithStatus("active")' = WithStatus("active")
      /\ WithStatus("stale")' = WithStatus("stale")
      /\ WithStatus("building")' = WithStatus("building") \cup {t}
      /\ Registered' = Registered \cup {t}
  BY <1>0 DEF WithStatus, Registered, RowStatus
<1>3. /\ \A c : Sweeping(c)' = Sweeping(c)
      /\ \A b \in Actors : Dropping(b)' = Dropping(b) /\ (Dropping(b) => job'[b] = job[b])
      /\ \A b \in Actors : job'[b].pc = "drop" <=> job[b].pc = "drop"
  BY <1>0 DEF Sweeping, Dropping
<1>4. Claimed(t) /\ t[2] # 0
  BY <1>0 DEF TableInv, ClaimInv
<1>5. RowInv'
  BY <1>0, <1>2, <1>3, <1>4 DEF TableInv, RowInv, Claimed
<1>6. \A b \in Actors : job[b].pc = "drop" => t \notin job[b].old
  BY <1>4 DEF TableInv, StaleInv, Claimed, Dropping
<1>7. StaleInv'
  BY <1>0, <1>2, <1>3, <1>6 DEF TableInv, StaleInv, Dropping
<1>8. \A u : u # t /\ Claimed(u) => Claimed(u)'
  BY <1>0, <1>2, <1>3 DEF Claimed
<1>9. \A b \in Actors : b # a /\ job[b].pc = "register" => job[b].t # t
  BY <1>0 DEF TableInv, ClaimInv
<1>10. ClaimInv'
  BY <1>0, <1>2, <1>4, <1>8, <1>9 DEF TableInv, ClaimInv
<1> QED BY <1>5, <1>7, <1>10 DEF TableInv

\* flip_active_txn: the promoted row is backed, the demoted ones are the holder's.
LEMMA FlipKeeps ==
    ASSUME TypeInv, LockInv, TableInv, NEW a \in Actors, Flip(a)
    PROVE  TableInv'
<1> DEFINE t == job[a].t
           old == ActiveTables(t[1])
           j == [job[a] EXCEPT !.old = old, !.pc = "drop"]
<1> USE ActorsDistinct
<1>0. /\ up = "up" /\ up' = up /\ phys' = phys /\ job[a].pc = "flip" /\ Steady /\ lock' = lock
      /\ t \in TableIds /\ <<t, "building">> \in registry
      /\ job' = [job EXCEPT ![a] = j] /\ StoreTypeOK /\ FlipTxn(t)
  BY DEF Flip, StoreRefuses, At, Internal, Steady, TypeInv, TypeOK, JobTyped, JobFields, Untabled
<1>1. j.pc = "drop" /\ j.old = old
  BY DEF TypeInv, TypeOK, Job
<1> HIDE DEF j, old
<1>2. job'[a] = j /\ \A b \in Actors : b # a => job'[b] = job[b]
  BY <1>0, SetJob
<1>4. Holds(a) /\ ~Dropping(a)
  BY <1>0 DEF Holds, Dropping
<1>5. /\ \A b \in Actors : b # a => ~Dropping(b) /\ job[b].pc # "drop"
      /\ WithStatus("stale") = {}
      /\ \A c : ~Sweeping(c)
  BY <1>0, <1>4, HolderAlone
<1>6. /\ WithStatus("active")' = (WithStatus("active") \ old) \cup {t}
      /\ WithStatus("building")' = WithStatus("building") \ {t}
      /\ WithStatus("stale")' = old
  <2>1. /\ StoreTypeOK
        /\ \A u \in TableIds :
             /\ <<u, "active">> \in registry'
                  <=> u = t \/ (<<u, "active">> \in registry /\ u[1] # t[1])
             /\ <<u, "building">> \in registry' <=> <<u, "building">> \in registry /\ u # t
             /\ <<u, "stale">> \in registry'
                  <=> <<u, "stale">> \in registry \/ u \in ActiveTables(t[1])
    BY <1>0, FlipTxnRows
  <2> QED BY <1>0, <1>5, <2>1 DEF WithStatus, ActiveTables, old
<1>7. old \subseteq WithStatus("active") /\ t \in WithStatus("building")
  BY <1>0 DEF old, ActiveTables, WithStatus
<1>8. t \notin old /\ t \in phys
  BY <1>0, <1>5, <1>7 DEF TableInv, RowInv
<1>9. /\ \A c : ~Sweeping(c)'
      /\ \A b \in Actors : Dropping(b)' <=> b = a
  BY <1>1, <1>2, <1>5 DEF Sweeping, Dropping
<1>10. RowInv'
  BY <1>0, <1>5, <1>6, <1>7, <1>8, <1>9 DEF TableInv, RowInv
<1>11. StaleInv'
  BY <1>0, <1>1, <1>2, <1>6, <1>7, <1>9 DEF TableInv, RowInv, StaleInv, Dropping
<1>12. \A b \in Actors : job'[b].pc \in {"create", "register"} => b # a /\ job'[b] = job[b]
  BY <1>1, <1>2
<1>13. ASSUME NEW b \in Actors, job[b].pc = "register" PROVE Claimed(job[b].t)'
  <2> DEFINE u == job[b].t
  <2>1. Claimed(u)
    BY <1>13 DEF TableInv, ClaimInv
  <2>2. u \in phys /\ u \notin WithStatus("active") /\ u \notin WithStatus("building")
    BY <1>5, <2>1 DEF Claimed
  <2>3. job'[b] = job[b]
    BY <1>0, <1>2, <1>13
  <2>4. u \notin WithStatus("active")' \cup WithStatus("building")' \cup WithStatus("stale")'
    BY <1>6, <1>7, <2>2
  <2> QED BY <1>0, <2>2, <2>3, <2>4 DEF Claimed
<1>14. job'["ingest"].pc \notin {"wipe", "chunks", "reset", "embed", "ensure", "ensure_row"}
  BY <1>1, <1>2, <1>4, <1>0, HolderAlone DEF Holds
<1>15. ClaimInv'
  BY <1>12, <1>13, <1>14 DEF TableInv, ClaimInv
<1> QED BY <1>10, <1>11, <1>15 DEF TableInv

\* retire_coordinate: the demoted rows are the holder's to drop.
LEMMA RetireKeeps ==
    ASSUME TypeInv, LockInv, TableInv, NEW a \in Switchers, SwitchRetire(a)
    PROVE  TableInv'
<1> USE ActorsDistinct
<1>0. PICK c \in job[a].coords :
        /\ DemoteTxn(c)
        /\ job' = [job EXCEPT ![a].coords = @ \ {c}, ![a].old = ActiveTables(c), ![a].pc = "drop"]
  BY DEF SwitchRetire
<1> DEFINE old == ActiveTables(c)
           j == [job[a] EXCEPT !.coords = @ \ {c}, !.old = old, !.pc = "drop"]
<1>1. /\ up = "up" /\ up' = up /\ phys' = phys /\ job[a].pc = "retire" /\ Steady /\ lock' = lock
      /\ StoreTypeOK
  BY DEF SwitchRetire, At, Internal, Steady, TypeInv, TypeOK
<1>2. j.pc = "drop" /\ j.old = old /\ job' = [job EXCEPT ![a] = j]
  BY <1>0 DEF TypeInv, TypeOK, Job
<1> HIDE DEF j, old
<1>3. job'[a] = j /\ \A b \in Actors : b # a => job'[b] = job[b]
  BY <1>2, SetJob
<1>5. Holds(a) /\ ~Dropping(a)
  BY <1>1 DEF Holds, Dropping
<1>6. /\ \A b \in Actors : b # a => ~Holds(b) /\ ~Dropping(b) /\ job[b].pc # "drop"
      /\ WithStatus("stale") = {}
      /\ \A x : ~Sweeping(x)
  BY <1>1, <1>5, HolderAlone
<1>7. /\ WithStatus("active")' = WithStatus("active") \ old
      /\ WithStatus("building")' = WithStatus("building")
      /\ WithStatus("stale")' = old
  <2>1. \A u \in TableIds :
          /\ <<u, "active">> \in registry' <=> <<u, "active">> \in registry /\ u[1] # c
          /\ <<u, "building">> \in registry' <=> <<u, "building">> \in registry
          /\ <<u, "stale">> \in registry' <=> <<u, "stale">> \in registry \/ u \in ActiveTables(c)
    BY <1>0, <1>1, DemoteTxnRows
  <2> QED BY <1>6, <2>1 DEF WithStatus, ActiveTables, old
<1>8. old \subseteq WithStatus("active")
  BY DEF old, ActiveTables
<1>9. /\ \A x : ~Sweeping(x)'
      /\ \A b \in Actors : Dropping(b)' <=> b = a
  BY <1>2, <1>3, <1>6 DEF Sweeping, Dropping
<1>10. RowInv'
  BY <1>1, <1>6, <1>7, <1>8, <1>9 DEF TableInv, RowInv
<1>11. StaleInv'
  BY <1>1, <1>2, <1>3, <1>7, <1>8, <1>9 DEF TableInv, RowInv, StaleInv, Dropping
<1>12. \A b \in Actors : job'[b].pc \in {"create", "register"} => b # a /\ job'[b] = job[b]
  BY <1>2, <1>3
<1>13. ASSUME NEW b \in Actors, job[b].pc = "register" PROVE Claimed(job[b].t)'
  <2> DEFINE u == job[b].t
  <2>1. Claimed(u)
    BY <1>13 DEF TableInv, ClaimInv
  <2>2. u \in phys /\ u \notin WithStatus("active") /\ u \notin WithStatus("building")
    BY <1>6, <2>1 DEF Claimed
  <2>3. job'[b] = job[b]
    BY <1>1, <1>3, <1>13
  <2>4. u \notin WithStatus("active")' \cup WithStatus("building")' \cup WithStatus("stale")'
    BY <1>7, <1>8, <2>2
  <2> QED BY <1>1, <2>2, <2>3, <2>4 DEF Claimed
<1>14. job'["ingest"].pc = "idle"
  BY <1>3, <1>6 DEF Holds
<1>15. ClaimInv'
  BY <1>12, <1>13, <1>14 DEF TableInv, ClaimInv
<1> QED BY <1>10, <1>11, <1>15 DEF TableInv

\* Dropping the tables of stale rows takes no active or building one.
LEMMA DropStaleKeeps ==
    ASSUME TypeInv, LockInv, TableInv, NEW a \in Actors, DropStale(a)
    PROVE  TableInv'
<1> DEFINE old == job[a].old
<1> USE ActorsDistinct
<1>0. /\ up = "up" /\ up' = up /\ registry' = registry /\ phys' = phys \ old
      /\ job[a].pc = "drop" /\ Steady /\ lock' = lock
      /\ job'[a].pc = "drop_row" /\ job'[a].old = old
      /\ \A b \in Actors : b # a => job'[b] = job[b]
  BY GotoJob DEF DropStale, DropTables, At, Internal, Steady
<1>2. Holds(a) /\ Dropping(a)
  BY <1>0 DEF Holds, Dropping
<1>3. /\ \A b \in Actors : b # a => ~Holds(b) /\ ~Dropping(b) /\ job[b].pc # "drop"
      /\ \A c : ~Sweeping(c)
  BY <1>0, <1>2, HolderAlone
<1>4. old \subseteq WithStatus("stale") /\ old \cap WithStatus("building") = {}
  BY <1>0, <1>2 DEF TableInv, StaleInv
<1>5. /\ WithStatus("active")' = WithStatus("active")
      /\ WithStatus("building")' = WithStatus("building")
      /\ WithStatus("stale")' = WithStatus("stale")
  BY <1>0 DEF WithStatus
<1>6. /\ \A c : ~Sweeping(c)'
      /\ \A b \in Actors : (Dropping(b)' <=> b = a) /\ (Dropping(b) => b = a)
      /\ \A b \in Actors : job'[b].pc # "drop"
  BY <1>0, <1>3 DEF Sweeping, Dropping
<1>7. RowInv'
  BY <1>0, <1>3, <1>4, <1>5 DEF TableInv, RowInv
<1>8. StaleInv'
  BY <1>0, <1>4, <1>5, <1>6 DEF TableInv, StaleInv
<1>9. ASSUME NEW b \in Actors, job[b].pc = "register" PROVE Claimed(job[b].t)'
  <2> DEFINE u == job[b].t
  <2>1. Claimed(u)
    BY <1>9 DEF TableInv, ClaimInv
  <2>2. u \in phys /\ u \notin WithStatus("active") /\ u \notin WithStatus("building")
        /\ u \notin WithStatus("stale")
    BY <1>0, <1>3, <2>1 DEF Claimed
  <2>3. job'[b] = job[b]
    BY <1>0, <1>9
  <2>4. u \in phys'
    BY <1>0, <1>4, <2>2
  <2> QED BY <1>5, <2>2, <2>3, <2>4 DEF Claimed
<1>10. job'["ingest"].pc \notin {"wipe", "chunks", "reset", "embed", "ensure", "ensure_row"}
  BY <1>0, <1>3 DEF Holds
<1>11. \A b \in Actors : job'[b].pc \in {"create", "register"} => b # a /\ job'[b] = job[b]
  BY <1>0
<1>12. ClaimInv'
  BY <1>9, <1>10, <1>11 DEF TableInv, ClaimInv
<1> QED BY <1>7, <1>8, <1>12 DEF TableInv

\* Deleting stale rows ends the holder's claim to them.
LEMMA DropStaleRowKeeps ==
    ASSUME TypeInv, LockInv, TableInv, NEW a \in Actors, DropStaleRow(a)
    PROVE  TableInv'
<1> DEFINE old == job[a].old
           pc == IF a \in Switchers THEN "retire" ELSE "finish"
           j == [job[a] EXCEPT !.old = {}, !.pc = pc]
<1> USE ActorsDistinct
<1>0. /\ up = "up" /\ up' = up /\ registry' = {r \in registry : r[1] \notin old} /\ phys' = phys
      /\ job[a].pc = "drop_row" /\ Steady /\ lock' = IF a = "enrich" THEN "free" ELSE lock
      /\ job' = [job EXCEPT ![a] = j]
  BY DEF DropStaleRow, DeleteRowsByTable, At, Steady
<1>1. j.pc = pc
  BY DEF TypeInv, TypeOK, Job
<1> HIDE DEF j
<1>2. job'[a] = j /\ \A b \in Actors : b # a => job'[b] = job[b]
  BY <1>0, SetJob
<1>3. Holds(a) /\ Dropping(a) /\ lock = a
  BY <1>0 DEF Holds, Dropping, LockInv
<1>5. /\ \A b \in Actors : b # a => ~Holds(b) /\ ~Dropping(b) /\ job[b].pc # "drop"
      /\ \A c : ~Sweeping(c)
  BY <1>0, <1>3, HolderAlone
<1>6. WithStatus("stale") = old
  BY <1>0, <1>3, <1>5 DEF TableInv, StaleInv
<1>7. /\ WithStatus("active")' = WithStatus("active") \ old
      /\ WithStatus("building")' = WithStatus("building") \ old
      /\ WithStatus("stale")' = WithStatus("stale") \ old
  BY <1>0 DEF WithStatus
<1>8. /\ \A c : ~Sweeping(c)'
      /\ \A b \in Actors : ~Dropping(b)'
      /\ \A b \in Actors : job'[b].pc # "drop"
  BY <1>0, <1>1, <1>2, <1>5 DEF Sweeping, Dropping
<1>9. RowInv'
  BY <1>0, <1>5, <1>7 DEF TableInv, RowInv
<1>10. StaleInv'
  BY <1>6, <1>7, <1>8 DEF StaleInv
<1>11. ASSUME NEW b \in Actors, job[b].pc = "register" PROVE Claimed(job[b].t)'
  <2> DEFINE u == job[b].t
  <2>1. Claimed(u)
    BY <1>11 DEF TableInv, ClaimInv
  <2>2. u \in phys /\ u \notin WithStatus("active") /\ u \notin WithStatus("building")
    BY <1>5, <2>1 DEF Claimed
  <2>3. job'[b] = job[b]
    BY <1>0, <1>2, <1>11
  <2> QED BY <1>0, <1>7, <1>8, <2>2, <2>3 DEF Claimed
<1>12. job'["ingest"].pc \notin {"wipe", "chunks", "reset", "embed", "ensure", "ensure_row"}
  BY <1>1, <1>2, <1>5 DEF Holds
<1>13. \A b \in Actors : job'[b].pc \in {"create", "register"} => b # a /\ job'[b] = job[b]
  BY <1>1, <1>2
<1>14. ClaimInv'
  BY <1>11, <1>12, <1>13 DEF TableInv, ClaimInv
<1> QED BY <1>9, <1>10, <1>14 DEF TableInv

\* ensure_table: a formula-name table without a row, or the active one.
LEMMA EnsureKeeps ==
    ASSUME TypeInv, LockInv, TableInv, IngestEnsureTable
    PROVE  TableInv'
<1> DEFINE j0 == job["ingest"]
           c == j0.t[1]
<1> USE ActorsDistinct
<1>0. /\ up = "up" /\ up' = up /\ registry' = registry /\ j0.pc = "ensure" /\ Steady
      /\ lock' = lock /\ j0.t \in TableIds /\ j0.t[2] = 0
  BY DEF IngestEnsureTable, At, Internal, Steady, TypeInv, TypeOK, JobTyped, JobFields, Untabled,
     TableInv, ClaimInv
<1>1. Holds("ingest") /\ ~Dropping("ingest") /\ lock = "ingest"
  BY <1>0 DEF Holds, Dropping, LockInv
<1>2. WithStatus("stale") = {}
  BY <1>0, <1>1, HolderAlone
<1>3. CASE ActiveTables(c) # {}
  <2>1. PICK t \in ActiveTables(c) :
          /\ CreateEmpty(t)
          /\ job' = [job EXCEPT !["ingest"].t = t, !["ingest"].pc = "append"]
    BY <1>3 DEF IngestEnsureTable
  <2>2. phys' = phys
    BY <2>1 DEF CreateEmpty, ActiveTables, TableInv, RowInv
  <2> DEFINE j == [j0 EXCEPT !.t = t, !.pc = "append"]
  <2>3. job' = [job EXCEPT !["ingest"] = j] /\ j.pc = "append"
    BY <2>1 DEF TypeInv, TypeOK, Job
  <2> HIDE DEF j
  <2>4. QuietStep("ingest")
    BY <1>0, <1>1, <2>2, <2>3, QuietSet DEF Cleaning, Rewriting
  <2> QED BY <2>4, QuietKeeps
<1>4. CASE ActiveTables(c) = {}
  <2> DEFINE t == j0.t
  <2>1. t = <<c, 0>>
    BY <1>0 DEF TableIds
  <2>2. phys' = phys \cup {t} /\ Goto("ingest", "ensure_row")
    BY <1>4, <2>1 DEF IngestEnsureTable, CreateEmpty
  <2>3. /\ job'["ingest"].pc = "ensure_row" /\ job'["ingest"].t = t
        /\ \A b \in Actors : b # "ingest" => job'[b] = job[b]
    BY <2>2, GotoJob
    <2>5. t \notin WithStatus("active") /\ t \notin WithStatus("building")
          /\ t \notin WithStatus("stale")
    BY <1>0, <1>2, <1>4 DEF ActiveTables, TableInv, RowInv
  <2>6. t \notin Registered
    BY <2>5 DEF Registered, WithStatus, RowStatus
  <2>7. /\ WithStatus("active")' = WithStatus("active")
        /\ WithStatus("building")' = WithStatus("building")
        /\ WithStatus("stale")' = WithStatus("stale")
        /\ Registered' = Registered
    BY <1>0 DEF WithStatus, Registered
  <2>8. /\ \A x : Sweeping(x)' = Sweeping(x)
        /\ \A b \in Actors : Dropping(b)' = Dropping(b) /\ (Dropping(b) => job'[b] = job[b])
        /\ \A b \in Actors : job'[b].pc = "drop" <=> job[b].pc = "drop"
        /\ \A b \in Actors : job'[b].pc \in {"create", "register"} => job'[b] = job[b]
    BY <1>0, <2>3 DEF Sweeping, Dropping
  <2>9. RowInv'
    BY <1>0, <2>2, <2>7, <2>8 DEF TableInv, RowInv
  <2>10. StaleInv'
    BY <1>0, <2>2, <2>7, <2>8 DEF TableInv, StaleInv, Dropping
  <2>11. \A u : Claimed(u) => Claimed(u)'
    BY <2>2, <2>7, <2>8 DEF Claimed
  <2>12. ClaimInv'
    BY <1>0, <2>2, <2>3, <2>6, <2>7, <2>8, <2>11 DEF TableInv, ClaimInv
  <2> QED BY <2>9, <2>10, <2>12 DEF TableInv
<1> QED BY <1>3, <1>4

\* ensure_table registers a table that is there and that no row names.
LEMMA EnsureRowKeeps ==
    ASSUME TypeInv, LockInv, TableInv, IngestEnsureRow
    PROVE  TableInv'
<1> DEFINE t == job["ingest"].t
<1> USE ActorsDistinct
<1>0. /\ up = "up" /\ up' = up /\ phys' = phys /\ job["ingest"].pc = "ensure_row" /\ Steady
      /\ lock' = lock /\ t \in TableIds /\ t \in phys /\ t \notin Registered /\ t[2] = 0
      /\ registry' = registry \/ registry' = registry \cup {<<t, "active">>}
      /\ job'["ingest"].pc = "append" /\ \A b \in Actors : b # "ingest" => job'[b] = job[b]
  BY GotoJob DEF IngestEnsureRow, Register, At, Internal, Steady, TypeInv, TypeOK, JobTyped,
     JobFields, Untabled, TableInv, ClaimInv
<1>1. lock = "ingest"
  BY <1>0 DEF Holds, LockInv
<1>3. t \notin WithStatus("building") /\ t \notin WithStatus("stale")
  BY <1>0 DEF Registered, WithStatus, RowStatus
<1>4. /\ WithStatus("active")' \subseteq WithStatus("active") \cup {t}
      /\ WithStatus("building")' = WithStatus("building")
      /\ WithStatus("stale")' = WithStatus("stale")
  BY <1>0 DEF WithStatus
<1>5. /\ \A x : Sweeping(x)' = Sweeping(x)
      /\ \A b \in Actors : Dropping(b)' = Dropping(b) /\ (Dropping(b) => job'[b] = job[b])
      /\ \A b \in Actors : job'[b].pc = "drop" <=> job[b].pc = "drop"
      /\ \A b \in Actors : job'[b].pc \in {"create", "register"} => job'[b] = job[b]
  BY <1>0 DEF Sweeping, Dropping
<1>6. RowInv'
  BY <1>0, <1>3, <1>4, <1>5 DEF TableInv, RowInv
<1>7. StaleInv'
  BY <1>0, <1>4, <1>5 DEF TableInv, StaleInv, Dropping
<1>8. \A u : u # t /\ Claimed(u) => Claimed(u)'
  BY <1>0, <1>4, <1>5 DEF Claimed
<1>9. \A b \in Actors : job[b].pc = "register" => job[b].t # t
  BY <1>0 DEF TableInv, ClaimInv
<1>10. ClaimInv'
  BY <1>0, <1>5, <1>8, <1>9 DEF TableInv, ClaimInv
<1> QED BY <1>6, <1>7, <1>10 DEF TableInv

\* sweep_orphan_building_tables drops tables of building rows only.
LEMMA SweepKeeps ==
    ASSUME TypeInv, LockInv, TableInv, IngestSweep
    PROVE  TableInv'
<1> DEFINE c == job["ingest"].t[1]
           T == BuildingTables(c)
           pc == IF T = {} THEN "pick" ELSE "sweep_rows"
<1> USE ActorsDistinct
<1>0. /\ up = "up" /\ up' = up /\ registry' = registry /\ phys' = phys \ T
      /\ job["ingest"].pc = "sweep" /\ Steady /\ lock' = lock
      /\ job'["ingest"].pc = pc /\ job'["ingest"].t = job["ingest"].t
      /\ \A b \in Actors : b # "ingest" => job'[b] = job[b]
  BY GotoJob DEF IngestSweep, DropTables, At, Internal, Steady
<1>1. Holds("ingest") /\ ~Dropping("ingest") /\ lock = "ingest"
  BY <1>0 DEF Holds, Dropping, LockInv
<1>3. /\ \A b \in Actors : ~Dropping(b) /\ job[b].pc # "drop"
      /\ WithStatus("stale") = {} /\ \A x : ~Sweeping(x)
  BY <1>0, <1>1, HolderAlone DEF Dropping
<1>4. /\ WithStatus("active")' = WithStatus("active")
      /\ WithStatus("building")' = WithStatus("building")
      /\ WithStatus("stale")' = WithStatus("stale")
  BY <1>0 DEF WithStatus
<1>5. \A t : t \in T <=> t \in WithStatus("building") /\ t[1] = c
  BY DEF BuildingTables
<1> HIDE DEF T
<1>6. /\ T # {} => \A x : Sweeping(x)' <=> x = c
      /\ \A b \in Actors : ~Dropping(b)' /\ job'[b].pc # "drop"
  BY <1>0, <1>3 DEF Sweeping, Dropping
<1>7. RowInv'
  BY <1>0, <1>3, <1>4, <1>5, <1>6 DEF TableInv, RowInv
<1>8. StaleInv'
  BY <1>3, <1>4, <1>6 DEF StaleInv
<1>9. ASSUME NEW b \in Actors, job[b].pc = "register" PROVE Claimed(job[b].t)'
  <2> DEFINE u == job[b].t
  <2>1. Claimed(u)
    BY <1>9 DEF TableInv, ClaimInv
  <2>2. u \in phys /\ u \notin WithStatus("active") /\ u \notin WithStatus("building")
    BY <1>3, <2>1 DEF Claimed
  <2>3. job'[b] = job[b]
    BY <1>0, <1>9
  <2>4. u \in phys'
    BY <1>0, <1>5, <2>2
  <2> QED BY <1>3, <1>4, <2>2, <2>3, <2>4 DEF Claimed
<1>10. \A b \in Actors : job'[b].pc \in {"create", "register"} => job'[b] = job[b]
  BY <1>0
<1>11. ClaimInv'
  BY <1>0, <1>9, <1>10 DEF TableInv, ClaimInv
<1> QED BY <1>7, <1>8, <1>11 DEF TableInv

\* The sweep deletes the rows whose tables it has dropped.
LEMMA SweepRowsKeeps ==
    ASSUME TypeInv, LockInv, TableInv, IngestSweepRows
    PROVE  TableInv'
<1> DEFINE c == job["ingest"].t[1]
<1> USE ActorsDistinct
<1>0. /\ up = "up" /\ up' = up /\ phys' = phys
      /\ registry' = {r \in registry : ~(r[2] = "building" /\ r[1][1] = c)}
      /\ job["ingest"].pc = "sweep_rows" /\ Steady /\ lock' = lock
      /\ job'["ingest"].pc = "pick"
      /\ \A b \in Actors : b # "ingest" => job'[b] = job[b]
  BY GotoJob DEF IngestSweepRows, DeleteBuildingRows, At, Internal, Steady
<1>1. Holds("ingest") /\ ~Dropping("ingest") /\ lock = "ingest"
  BY <1>0 DEF Holds, Dropping, LockInv
<1>3. /\ \A b \in Actors : ~Dropping(b) /\ job[b].pc # "drop"
      /\ WithStatus("stale") = {} /\ \A x : Sweeping(x) <=> x = c
  BY <1>0, <1>1, HolderAlone DEF Dropping, Sweeping
<1>4. /\ WithStatus("active")' = WithStatus("active")
      /\ \A t : t \in WithStatus("building")' <=> t \in WithStatus("building") /\ t[1] # c
      /\ WithStatus("stale")' = WithStatus("stale")
  BY <1>0 DEF WithStatus
<1>5. /\ \A x : ~Sweeping(x)'
      /\ \A b \in Actors : ~Dropping(b)' /\ job'[b].pc # "drop"
  BY <1>0, <1>3 DEF Sweeping, Dropping
<1>6. RowInv'
  BY <1>0, <1>3, <1>4 DEF TableInv, RowInv
<1>7. StaleInv'
  BY <1>3, <1>4, <1>5 DEF StaleInv
<1>8. \A u : Claimed(u) => Claimed(u)'
  BY <1>0, <1>3, <1>4, <1>5 DEF Claimed
<1>9. \A b \in Actors : job'[b].pc \in {"create", "register"} => job'[b] = job[b]
  BY <1>0
<1>10. ClaimInv'
  BY <1>0, <1>8, <1>9 DEF TableInv, ClaimInv
<1> QED BY <1>6, <1>7, <1>10 DEF TableInv

\* The process is not up: no job runs, and the GC spares active rows' tables.
LEMMA StartUpKeeps ==
    ASSUME TypeInv, LockInv, NoCleanupFaults, StartUp
    PROVE  LockInv' /\ (TableInv => TableInv')
<1> USE ActorsDistinct
<1>0. up # "up" /\ UNCHANGED <<job, lock, purge, torn>>
  BY DEF StartUp, RecoverStatuses, GcUnregistered, GcTables, GcRows, GcFail, Starting
<1>1. \A a \in Actors : job[a].pc = "idle"
  BY <1>0 DEF LockInv
<1>2. LockInv'
  BY <1>0 DEF LockInv, Holds
<1>3. \A a \in Actors : ~Dropping(a)' /\ job'[a].pc = "idle"
  BY <1>0, <1>1 DEF Dropping
<1>4. ClaimInv'
  BY <1>3 DEF ClaimInv
<1>5. ASSUME TableInv PROVE TableInv'
  <2>1. CASE RecoverStatuses
    BY <1>5, <2>1, StillKeeps, <1>0 DEF RecoverStatuses, storeVars
  <2>2. CASE GcUnregistered \/ GcTables
    <3>1. /\ registry' = registry /\ up' # "up"
          /\ \A t \in WithStatus("active") :
               t \in phys /\ t \notin WithStatus("building") \cup WithStatus("stale")
                 => t \in phys'
      BY <2>2 DEF GcUnregistered, GcTables, DropTables, Registered, WithStatus, RowStatus
    <3>2. /\ WithStatus("active")' = WithStatus("active")
          /\ WithStatus("building")' = WithStatus("building")
          /\ WithStatus("stale")' = WithStatus("stale")
      BY <3>1 DEF WithStatus
    <3>3. RowInv'
      BY <1>5, <3>1, <3>2 DEF TableInv, RowInv
    <3>4. StaleInv'
      BY <1>3, <3>1 DEF StaleInv
    <3> QED BY <1>4, <3>3, <3>4 DEF TableInv
  <2>3. CASE GcRows
    <3>1. /\ registry' = {r \in registry : r[2] = "active"} /\ phys' = phys
      BY <2>3 DEF GcRows
    <3>2. /\ WithStatus("active")' = WithStatus("active")
          /\ WithStatus("building")' = {} /\ WithStatus("stale")' = {}
      BY <3>1 DEF WithStatus
    <3>3. RowInv'
      BY <1>5, <3>1, <3>2 DEF TableInv, RowInv
    <3>4. StaleInv'
      BY <1>3, <3>2 DEF StaleInv
    <3> QED BY <1>4, <3>3, <3>4 DEF TableInv
  <2>4. ~GcFail
    BY DEF GcFail, NoCleanupFaults, TypeInv, TypeOK
  <2> QED BY <2>1, <2>2, <2>3, <2>4 DEF StartUp
<1> QED BY <1>2, <1>5

\* A process death changes neither registry nor tables.
LEMMA CrashKeeps ==
    ASSUME TypeInv, Crash
    PROVE  LockInv' /\ (TableInv => TableInv')
<1>1. /\ up' = "down" /\ purge'.pc = "idle" /\ UNCHANGED <<registry, phys>>
      /\ \A a \in Actors : job'[a].pc = "idle"
  BY DEF Crash, NoPurge, Idle, storeVars
<1>2. LockInv'
  BY <1>1, ActorsDistinct DEF LockInv, Holds
<1>3. ASSUME TableInv PROVE TableInv'
  <2>1. RowInv'
    BY <1>1, <1>3 DEF TableInv, RowInv, WithStatus
  <2>2. StaleInv'
    BY <1>1 DEF StaleInv, Dropping
  <2>3. ClaimInv'
    BY <1>1, ActorsDistinct DEF ClaimInv
  <2> QED BY <2>1, <2>2, <2>3 DEF TableInv
<1> QED BY <1>2, <1>3

\* Requests, failed look-ups and purges run no job and touch no table, but for
\* the notebook purge, which is torn from its first drop.
StillStep ==
    \/ \E s \in Sources : CallIngest(s) \/ RetrySource(s) \/ TrashSource(s) \/ RestoreSource(s)
    \/ \E x \in Sources \cup {NotebookId} : CallPurge(x)
    \/ TrashNotebook \/ RestoreNotebook \/ RescanEnrichment
    \/ EnrichSkip \/ EnrichPreflightFail \/ PurgeAcquire \/ PurgeRun \/ UNCHANGED vars

\* Requests, acquisitions and purges keep the lock's invariant; what a notebook
\* purge does to the tables is remembered by torn.
LEMMA StillLock ==
    ASSUME TypeInv, LockInv, StillStep
    PROVE  LockInv' /\ UNCHANGED <<up, job>> /\ (torn => torn')
           /\ (~torn' => UNCHANGED <<registry, phys>>)
<1>1. \A a \in Actors : a \notin {"free", "purge"}
  BY JobAssumption DEF Actors
<1>2. ASSUME UNCHANGED <<up, job, lock, purge, torn, registry, phys>>
      PROVE  LockInv' /\ UNCHANGED <<up, job>> /\ (torn => torn')
             /\ (~torn' => UNCHANGED <<registry, phys>>)
  BY <1>2 DEF LockInv, Holds
<1>3. CASE \/ \E s \in Sources : CallIngest(s) \/ RetrySource(s) \/ TrashSource(s)
                                    \/ RestoreSource(s)
           \/ TrashNotebook \/ RestoreNotebook \/ RescanEnrichment
           \/ EnrichSkip \/ EnrichPreflightFail \/ UNCHANGED vars
  BY <1>2, <1>3 DEF CallIngest, RetrySource, TrashSource, RestoreSource, TrashNotebook,
     RestoreNotebook, RescanEnrichment, EnrichSkip, EnrichPreflightFail, FlagOnly, Steady,
     vars, storeVars, engineVars
<1>4. ASSUME NEW x \in Sources \cup {NotebookId}, CallPurge(x)
      PROVE  LockInv' /\ UNCHANGED <<up, job, torn, registry, phys>>
  BY <1>4 DEF CallPurge, NoPurge, PurgeFrame, LockInv, Holds, storeVars
<1>5. CASE PurgeAcquire
  <2>1. /\ lock = "free" /\ up = "up" /\ UNCHANGED <<up, job, torn, registry, phys>>
        /\ purge'.pc = "idle" \/ (purge'.pc = "drop" /\ lock' = "purge")
    BY <1>5 DEF PurgeAcquire, PurgeFrame, NoPurge, storeVars, TypeInv, TypeOK
  <2>2. \A a \in Actors : ~Holds(a)'
    BY <1>1, <2>1 DEF LockInv, Holds
  <2> QED BY <2>1, <2>2 DEF LockInv
<1>6. CASE PurgeCoords \/ PurgeSourceVectors
  BY <1>6 DEF PurgeCoords, PurgeSourceVectors, DropSource, PurgeFrame, LockInv, Holds, storeVars,
     TypeInv, TypeOK
<1>7. CASE PurgeNotebookTables
  BY <1>7 DEF PurgeNotebookTables, PurgeFrame, LockInv, Holds, TypeInv, TypeOK
<1>8. CASE PurgeSourceRow \/ PurgeNotebookRow \/ PurgeFail
  <2>1. /\ purge'.pc = "idle" /\ lock = "purge" /\ UNCHANGED <<up, job, torn, phys>> /\ up = "up"
        /\ ~torn => registry' = registry
    BY <1>8 DEF PurgeSourceRow, PurgeNotebookRow, PurgeFail, PurgeFrame, NoPurge, LockInv,
       storeVars
  <2>2. \A a \in Actors : ~Holds(a)'
    BY <1>1, <2>1 DEF LockInv, Holds
  <2> QED BY <2>1, <2>2 DEF LockInv
<1> QED BY <1>3, <1>4, <1>5, <1>6, <1>7, <1>8 DEF StillStep, PurgeRun

\* The invariant is inductive.
LEMMA IndexStep ==
    ASSUME NoCleanupFaults, TypeInv, IndexInv, [Next]_vars
    PROVE  IndexInv'
<1> USE ActorsDistinct
<1>0. LockInv /\ (~torn => TableInv)
  BY DEF IndexInv, TableInv
<1>1. SUFFICES LockInv' /\ (~torn' => TableInv')
  BY DEF IndexInv, TableInv
<1>2. ASSUME NEW a \in Actors, QuietStep(a) PROVE LockInv' /\ (~torn' => TableInv')
  BY <1>0, <1>2, LockOfJobStep, QuietKeeps DEF QuietStep, JobStep
<1>3. ASSUME NEW a \in Actors, JobStep(a), TableInv => TableInv'
      PROVE  LockInv' /\ (~torn' => TableInv')
  BY <1>0, <1>3, LockOfJobStep DEF JobStep
<1>4. CASE StillStep
  <2>1. /\ LockInv' /\ UNCHANGED <<up, job>> /\ (torn => torn')
        /\ (~torn' => UNCHANGED <<registry, phys>>)
    BY <1>0, <1>4, StillLock
  <2>2. ASSUME ~torn' PROVE TableInv'
    <3>1. TableInv
      BY <1>0, <2>1, <2>2
    <3>2. UNCHANGED <<registry, phys, job>> /\ up' = up
      BY <2>1, <2>2
    <3>3. up' = up \/ (up # "up" /\ up' # "up")
      BY <3>2
    <3> QED BY <3>1, <3>2, <3>3, StillKeeps
  <2> QED BY <2>1, <2>2
<1>5. CASE IngestQuietStep
  BY <1>0, <1>2, <1>5, IngestQuiet
<1>6. CASE EnrichQuietStep
  BY <1>0, <1>2, <1>6, EnrichQuiet
<1>7. ASSUME NEW a \in Switchers,
             \/ SwitchReads(a) \/ SwitchLock(a) \/ SwitchDone(a) \/ SwitchFail(a)
             \/ \E c \in Coords : SwitchCall(a, c)
      PROVE  LockInv' /\ (~torn' => TableInv')
  BY <1>0, <1>2, <1>7, SwitchQuiet
<1>8. CASE StartUp
  <2>1. torn' = torn
    BY <1>8 DEF StartUp, RecoverStatuses, GcUnregistered, GcTables, GcRows, GcFail, Starting
  <2> QED BY <1>0, <1>8, <2>1, StartUpKeeps
<1>9. CASE Crash
  BY <1>0, <1>9, CrashKeeps DEF Crash
<1>10. ASSUME NEW a \in Actors, TableStep(a) PROVE LockInv' /\ (~torn' => TableInv')
  <2>1. JobStep(a)
    BY <1>0, <1>10, TableJobStep
  <2>2. TableInv => TableInv'
    BY <1>0, <1>10, CreateKeeps, RegisterKeeps, FlipKeeps, DropStaleKeeps, DropStaleRowKeeps,
       RetireKeeps, EnsureKeeps, EnsureRowKeeps, SweepKeeps, SweepRowsKeeps DEF TableStep
  <2> QED BY <1>3, <2>1, <2>2
<1>11. ASSUME NEW a \in Actors, Build(a) PROVE LockInv' /\ (~torn' => TableInv')
  BY <1>0, <1>2, <1>10, <1>11, BuildQuiet DEF Build, TableStep
<1>12. CASE IngestRun
  BY <1>5, <1>10, <1>11, <1>12 DEF IngestRun, IngestQuietStep, TableStep
<1>13. CASE EnrichRun
  BY <1>4, <1>6, <1>11, <1>13 DEF EnrichRun, EnrichQuietStep, StillStep
<1>14. ASSUME NEW a \in Switchers, SwitchRun(a) PROVE LockInv' /\ (~torn' => TableInv')
  BY <1>7, <1>10, <1>11, <1>14 DEF SwitchRun, SwitchReads, TableStep
<1>15. CASE Request
  BY <1>4, <1>7, <1>15 DEF Request, StillStep
<1>16. CASE Acquire
  BY <1>4, <1>5, <1>6, <1>7, <1>16 DEF Acquire, IngestQuietStep, EnrichQuietStep, StillStep
<1>17. CASE PurgeRun \/ UNCHANGED vars
  BY <1>4, <1>17 DEF StillStep
<1> QED BY <1>8, <1>9, <1>12, <1>13, <1>14, <1>15, <1>16, <1>17 DEF Next

\* The first state satisfies it.
LEMMA IndexInit ==
    Init => IndexInv
<1> SUFFICES ASSUME Init PROVE IndexInv
  OBVIOUS
<1>1. /\ up = "up" /\ purge.pc = "idle" /\ \A a \in Actors : job[a].pc = "idle"
  BY DEF Init, Idle, NoPurge
<1>2. LockInv
  BY <1>1, ActorsDistinct DEF LockInv, Holds
<1>3. WithStatus("active") \subseteq phys /\ WithStatus("building") = {} /\ WithStatus("stale") = {}
  BY DEF Init, StoreInit, WithStatus
<1>4. RowInv /\ StaleInv /\ ClaimInv
  BY <1>1, <1>3, ActorsDistinct DEF RowInv, StaleInv, ClaimInv, Dropping
<1> QED BY <1>2, <1>4 DEF IndexInv

\* As long as the clean-up steps themselves succeed, an active row has its table
\* at every crash point and in every interleaving, unless a notebook purge has
\* dropped tables ahead of their rows.
THEOREM ActiveBackedAlways ==
    ASSUME NoCleanupFaults
    PROVE  Spec => []ActiveBacked
<1>1. IndexInv => ActiveBacked
  BY DEF IndexInv, RowInv, ActiveBacked
<1>2. TypeInv /\ IndexInv /\ [Next]_vars => IndexInv'
  BY IndexStep
<1> QED BY <1>1, <1>2, IndexInit, TypeInit, TypeStep, PTL DEF Spec

-----------------------------------------------------------------------------
(* What a finished start-up has cleaned *)

CleanStatuses ==
    \A s \in Sources : src[s].st \notin {"parsing", "embedding"} /\ src[s].enr # "enriching"

\* What each start-up step has established for the next.  No job runs and no
\* request is served in between.
StartInv ==
    /\ up \in {"gc_unregistered", "gc_tables", "gc_rows"} => CleanStatuses
    /\ up \in {"gc_tables", "gc_rows"} =>
         phys \subseteq Registered \/ (registry = {} /\ nb # "gone")
    /\ up = "gc_rows" => phys \cap (WithStatus("building") \cup WithStatus("stale")) = {}

StartFaults == {"gc_unregistered", "gc_tables", "gc_rows"}

\* While the engine starts nothing else happens: another step leaves the engine
\* up, or is a process death.
LEMMA StartAlone ==
    ASSUME TypeInv, [Next]_vars
    PROVE  StartUp \/ Crash \/ UNCHANGED vars \/ (up = "up" /\ up' = "up")
<1>1. CASE Request
  BY <1>1 DEF Request, CallIngest, RetrySource, TrashSource, RestoreSource, SwitchCall,
     CallPurge, TrashNotebook, RestoreNotebook, RescanEnrichment, FlagOnly, UserOp, Internal,
     Steady, PurgeFrame, At
<1>2. CASE Acquire
  BY <1>2 DEF Acquire, IngestAcquire, EnrichLock, PurgeAcquire, SwitchLock, Steady,
     PurgeFrame, At
<1>3. ASSUME NEW a, Build(a) PROVE up = "up" /\ up' = "up"
  BY <1>3 DEF Build, PickGen, CreateTable, RegisterBuilding, Seed, Populate, Flip, DropStale,
     DropStaleRow, Internal, Steady, At
<1>4. CASE IngestRun
  BY <1>3, <1>4 DEF IngestRun, IngestMissing, IngestUnchanged, IngestCancelled,
     IngestParkWipe, IngestParkRows, IngestParkStatus, IngestParse, IngestWipe, IngestChunks,
     IngestReset, IngestEmpty, IngestEmbed, IngestEnsureTable, IngestEnsureRow, IngestAppend,
     IngestSweep, IngestSweepRows, IngestFinish, IngestFail, IngestOk, Internal, Steady, At
<1>5. CASE EnrichRun
  BY <1>3, <1>5 DEF EnrichRun, EnrichSkip, EnrichPreflightFail, EnrichStart, EnrichDropped,
     EnrichDegrade, EnrichPrefixOnly, EnrichMap, EnrichPersist, EnrichMeta, EnrichRelist,
     EnrichCoord, EnrichFinish, EnrichLlmFail, EnrichAbort, EnrichFail, EnrichReturn,
     EnrichIdle, Internal, Steady, At
<1>6. ASSUME NEW a \in Switchers, SwitchRun(a) PROVE up = "up" /\ up' = "up"
  BY <1>3, <1>6 DEF SwitchRun, SwitchSet, SwitchAttempt, SwitchSnapshot, SwitchCoords,
     SwitchChunks, SwitchRead, SwitchRetire, SwitchDone, SwitchFail, Internal, Steady, At
<1>7. CASE PurgeRun
  BY <1>7 DEF PurgeRun, PurgeCoords, PurgeSourceVectors, PurgeSourceRow, PurgeNotebookTables,
     PurgeNotebookRow, PurgeFail, PurgeFrame
<1> QED BY <1>1, <1>2, <1>4, <1>5, <1>6, <1>7 DEF Next

\* Recovery leaves no transient status.
LEMMA RecoveredClean ==
    ASSUME TypeInv, RecoverStatuses
    PROVE  CleanStatuses'
<1> SUFFICES ASSUME NEW s \in Sources
             PROVE  src'[s].st \notin {"parsing", "embedding"} /\ src'[s].enr # "enriching"
  BY DEF CleanStatuses
<1>1. src[s] \in SourceRow
  BY DEF TypeInv, TypeOK
<1>2. src'[s] = Recovered(src[s])
  BY DEF RecoverStatuses
<1> QED BY <1>1, <1>2 DEF Recovered, SourceRow

\* What the orphan sweep leaves is registered, or spared by its floor.
LEMMA UnregisteredSwept ==
    ASSUME TypeInv, GcUnregistered
    PROVE  (phys \subseteq Registered \/ (registry = {} /\ nb # "gone"))'
<1>1. registry' = registry /\ nb' = nb
  BY DEF GcUnregistered, Starting
<1>2. Registered' = Registered
  BY <1>1 DEF Registered
<1> QED BY <1>1, <1>2 DEF GcUnregistered, DropTables

\* The table sweep takes building and stale tables, and no active one's row.
LEMMA TablesSwept ==
    ASSUME TypeInv, GcTables
    PROVE  /\ phys' = phys \ (WithStatus("building") \cup WithStatus("stale"))
           /\ registry' = registry /\ nb' = nb /\ src' = src
BY DEF GcTables, DropTables, Starting

\* The invariant of the start-up steps is inductive when none of them fails.
LEMMA StartStep ==
    ASSUME TypeInv, StartInv, [Next]_vars
    PROVE  StartInv'
<1>1. CASE up' \in {"up", "down"}
  BY <1>1 DEF StartInv
<1>2. CASE UNCHANGED vars
  BY <1>2 DEF StartInv, CleanStatuses, Registered, WithStatus, vars, storeVars, engineVars
<1>3. CASE RecoverStatuses
  <2>1. up' = "gc_unregistered"
    BY <1>3 DEF RecoverStatuses
  <2> QED BY <1>3, <2>1, RecoveredClean DEF StartInv
<1>4. CASE GcUnregistered
  <2>1. up = "gc_unregistered" /\ up' = "gc_tables" /\ src' = src
    BY <1>4 DEF GcUnregistered
  <2>2. CleanStatuses'
    BY <2>1 DEF StartInv, CleanStatuses
  <2> QED BY <1>4, <2>1, <2>2, UnregisteredSwept DEF StartInv
<1>5. CASE GcTables
  <2>1. /\ up = "gc_tables" /\ up' = "gc_rows"
        /\ phys' = phys \ (WithStatus("building") \cup WithStatus("stale"))
        /\ registry' = registry /\ nb' = nb /\ src' = src
    BY <1>5, TablesSwept DEF GcTables
  <2>2. CleanStatuses'
    BY <2>1 DEF StartInv, CleanStatuses
  <2>3. Registered' = Registered /\ \A st \in RowStatus : WithStatus(st)' = WithStatus(st)
    BY <2>1 DEF Registered, WithStatus
  <2>4. (phys \subseteq Registered \/ (registry = {} /\ nb # "gone"))'
    BY <2>1, <2>3 DEF StartInv
  <2>5. (phys \cap (WithStatus("building") \cup WithStatus("stale")) = {})'
    BY <2>1, <2>3 DEF RowStatus
  <2> QED BY <2>1, <2>2, <2>4, <2>5 DEF StartInv
<1>6. CASE Crash
  BY <1>1, <1>6 DEF Crash
<1>7. CASE GcRows \/ GcFail
  BY <1>1, <1>7 DEF GcRows, GcFail
<1> QED BY <1>1, <1>2, <1>3, <1>4, <1>5, <1>6, <1>7, StartAlone DEF StartUp

\* The last start-up step opens a clean engine.
LEMMA StartOpensClean ==
    ASSUME Fallible \cap StartFaults = {}, TypeInv, StartInv, [Next]_vars,
           up # "up", up' = "up"
    PROVE  StartClean'
<1>1. GcRows
  <2>1. StartUp
    BY StartAlone DEF Crash, vars, engineVars
  <2>2. up \in StartFaults \cup {"down"}
    BY DEF TypeInv, TypeOK, StartFaults
  <2> QED BY <2>1, <2>2 DEF StartUp, RecoverStatuses, GcUnregistered, GcTables, GcFail
<1>2. /\ up = "gc_rows" /\ registry' = {r \in registry : r[2] = "active"}
      /\ phys' = phys /\ src' = src /\ nb' = nb
  BY <1>1 DEF GcRows, Starting
<1>3. CleanStatuses'
  BY <1>2 DEF StartInv, CleanStatuses
<1>4. (phys \subseteq Registered \/ (registry = {} /\ nb # "gone"))'
  <2>1. CASE registry = {} /\ nb # "gone"
    BY <1>2, <2>1
  <2>2. CASE phys \subseteq Registered
    <3>1. SUFFICES ASSUME NEW t \in phys PROVE t \in Registered'
      BY <1>2
    <3>2. t \in TableIds /\ t \notin WithStatus("building") /\ t \notin WithStatus("stale")
      BY <1>2 DEF StartInv, TypeInv, TypeOK, StoreTypeOK
    <3>3. <<t, "active">> \in registry
      BY <2>2, <3>2 DEF Registered, WithStatus, RowStatus
    <3>4. <<t, "active">> \in registry'
      BY <1>2, <3>3
    <3> QED BY <3>2, <3>4 DEF Registered, RowStatus
  <2> QED BY <1>2, <2>1, <2>2 DEF StartInv
<1>5. \A r \in registry' : r[2] = "active"
  BY <1>2
<1> QED BY <1>3, <1>4, <1>5 DEF StartClean, CleanStatuses

\* When the start-up steps succeed, the engine that LensEngine::init opens has no
\* transient status, no building or stale row, and no orphan table but for the
\* floor of the sweep, whatever state the process died in.
THEOREM RestartCleansAlways ==
    ASSUME Fallible \cap StartFaults = {}
    PROVE  Spec => RestartCleans
<1>1. Init => StartInv
  BY DEF Init, StartInv
<1>2. TypeInv /\ StartInv /\ [Next]_vars => StartInv'
  BY StartStep
<1>3. TypeInv /\ StartInv /\ [Next]_vars => [up # "up" /\ up' = "up" => StartClean']_vars
  BY StartOpensClean
<1> QED BY <1>1, <1>2, <1>3, TypeInit, TypeStep, PTL DEF Spec, RestartCleans

-----------------------------------------------------------------------------
(* Tables under construction.  Without PDF sources the ingest builds none,   *)
(* so no sweep runs beside the worker's build and the switches'; without a   *)
(* notebook purge no table is dropped ahead of its row.                      *)

PlainSources == PdfSources = {} /\ "purge_nb" \notin Ops

Building == {"register", "seed", "add", "lock", "flip"}
PdfSteps == {"sweep", "sweep_rows", "pick", "create", "drop", "drop_row"} \cup Building

\* A table under construction is its builder's: it is on disk, search does not
\* read it, and no drop under way takes it.
Own(t) ==
    /\ t \in phys /\ t \notin WithStatus("active") /\ t[2] # 0
    /\ t \in WithStatus("stale") => \A b \in Actors : job[b].pc # "drop"

OwnInv ==
    /\ job["ingest"].pc \notin PdfSteps
    /\ \A a \in Actors : job[a].pc \in Building => Own(job[a].t)
    /\ \A a, b \in Actors : a # b /\ job[a].pc \in Building /\ job[b].pc \in Building
                               => job[a].t # job[b].t
NoNotebookPurge == ~torn /\ purge.s # NotebookId

\* The steps with which a job goes on building the table it has.
BuildsOn(a) ==
    /\ job'[a].pc \in Building => job[a].pc \in Building /\ job'[a].t = job[a].t
    /\ a = "ingest" => job'[a].pc \notin PdfSteps

\* A step of one job that leaves every table under construction to its builder.
LEMMA OwnKeeps ==
    ASSUME OwnInv, NEW a \in Actors, BuildsOn(a),
           \A b \in Actors : b # a => job'[b] = job[b],
           \A u : Own(u) => Own(u)'
    PROVE  OwnInv'
<1> USE ActorsDistinct
<1>1. job'["ingest"].pc \notin PdfSteps
  BY DEF OwnInv, BuildsOn
<1>2. \A b \in Actors : job'[b].pc \in Building
                          => job[b].pc \in Building /\ job'[b].t = job[b].t
  BY DEF BuildsOn
<1>3. ASSUME NEW b \in Actors, job'[b].pc \in Building PROVE Own(job[b].t)'
  <2>1. PICK v : v = job[b].t
    OBVIOUS
  <2>2. Own(v)'
    BY <1>2, <1>3, <2>1 DEF OwnInv
  <2>3. job'[b].t = v
    BY <1>2, <1>3, <2>1
  <2> QED BY <2>2, <2>3
<1> QED BY <1>1, <1>2, <1>3 DEF OwnInv

\* Replacing a job by one that builds on.
LEMMA SetBuildsOn ==
    ASSUME TypeInv, NEW a \in Actors, NEW j, job' = [job EXCEPT ![a] = j],
           j.pc \notin Building, a = "ingest" => j.pc \notin PdfSteps
    PROVE  BuildsOn(a)
BY SetJob DEF BuildsOn

\* A job that goes on to a step of no building, or builds on.
LEMMA GotoBuildsOn ==
    ASSUME TypeInv, NEW a \in Actors, NEW pc, Goto(a, pc),
           pc \in Building => job[a].pc \in Building,
           a = "ingest" => pc \notin PdfSteps
    PROVE  BuildsOn(a)
BY GotoJob DEF BuildsOn

\* A job that ends builds nothing.
LEMMA LeaveBuildsOn ==
    ASSUME TypeInv, NEW a \in Actors, Leave(a)
    PROVE  BuildsOn(a)
BY LeaveJob DEF BuildsOn, Building, PdfSteps

\* No step of a plain ingest builds a table.
LEMMA IngestBuildsOn ==
    ASSUME TypeInv, PlainSources, OwnInv,
           IngestQuietStep \/ IngestEnsureTable \/ IngestEnsureRow
    PROVE  BuildsOn("ingest")
<1> DEFINE j0 == job["ingest"]
<1> USE ActorsDistinct
<1>0. j0 \in Job
  BY DEF TypeInv, TypeOK
<1>1. CASE IngestMissing \/ IngestUnchanged \/ IngestCancelled \/ IngestParkStatus
             \/ IngestEmpty \/ IngestFinish \/ IngestFail
  BY <1>1, LeaveBuildsOn DEF IngestMissing, IngestUnchanged, IngestCancelled,
     IngestParkStatus, IngestEmpty, IngestFinish, IngestFail, IngestOk
<1>2. CASE \/ IngestParkWipe \/ IngestParkRows \/ IngestWipe \/ IngestChunks \/ IngestReset
             \/ IngestAppend \/ IngestEnsureRow
  BY <1>2, GotoBuildsOn DEF IngestParkWipe, IngestParkRows, IngestWipe, IngestChunks,
     IngestReset, IngestAppend, IngestEnsureRow, Building, PdfSteps
<1>3. CASE IngestParse
  <2>1. PICK h \in 1 .. MaxHash :
          job' = [job EXCEPT !["ingest"].pc = "wipe", !["ingest"].key = h,
                             !["ingest"].t = <<model, 0>>]
    BY <1>3 DEF IngestParse
  <2> DEFINE j == [j0 EXCEPT !.pc = "wipe", !.key = h, !.t = <<model, 0>>]
  <2>2. job' = [job EXCEPT !["ingest"] = j] /\ j.pc = "wipe"
    BY <1>0, <2>1 DEF Job
  <2> HIDE DEF j
  <2> QED BY <2>2, SetBuildsOn DEF Building, PdfSteps
<1>4. CASE IngestEmbed
  <2> DEFINE s == j0.s
             j == [j0 EXCEPT !.new = {RawRow(s, src[s].ver)}, !.pc = "ensure"]
  <2>1. job' = [job EXCEPT !["ingest"] = j]
    BY <1>4 DEF IngestEmbed, PlainSources
  <2>2. j.pc = "ensure"
    BY <1>0 DEF Job
  <2> HIDE DEF j
  <2> QED BY <2>1, <2>2, SetBuildsOn DEF Building, PdfSteps
<1>5. CASE IngestEnsureTable
  <2>1. ASSUME NEW t, job' = [job EXCEPT !["ingest"].t = t, !["ingest"].pc = "append"]
        PROVE  BuildsOn("ingest")
    <3> DEFINE j == [j0 EXCEPT !.t = t, !.pc = "append"]
    <3>1. job' = [job EXCEPT !["ingest"] = j] /\ j.pc = "append"
      BY <1>0, <2>1 DEF Job
    <3> HIDE DEF j
    <3> QED BY <3>1, SetBuildsOn DEF Building, PdfSteps
  <2>2. CASE Goto("ingest", "ensure_row")
    BY <2>2, GotoBuildsOn DEF Building, PdfSteps
  <2> QED BY <1>5, <2>1, <2>2 DEF IngestEnsureTable
<1>6. ASSUME NEW s \in Sources, IngestAcquire(s) PROVE BuildsOn("ingest")
  <2> DEFINE j == [Idle EXCEPT !.pc = "load", !.s = s]
  <2>1. job' = [job EXCEPT !["ingest"] = j] /\ j.pc = "load"
    BY <1>6 DEF IngestAcquire, Idle
  <2> HIDE DEF j
  <2> QED BY <2>1, SetBuildsOn DEF Building, PdfSteps
<1> QED BY <1>1, <1>2, <1>3, <1>4, <1>5, <1>6 DEF IngestQuietStep

\* Outside create_building_table the worker builds on what it has.
LEMMA EnrichBuildsOn ==
    ASSUME TypeInv, EnrichQuietStep
    PROVE  BuildsOn("enrich")
<1> DEFINE j0 == job["enrich"]
<1> USE ActorsDistinct
<1>0. j0 \in Job
  BY DEF TypeInv, TypeOK
<1>1. CASE EnrichDropped \/ EnrichDegrade \/ EnrichPrefixOnly \/ EnrichLlmFail \/ EnrichAbort
             \/ EnrichFinish \/ EnrichFail
  BY <1>1, LeaveBuildsOn DEF EnrichDropped, EnrichDegrade, EnrichPrefixOnly, EnrichLlmFail,
     EnrichAbort, EnrichFinish, EnrichFail, EnrichReturn
<1>2. CASE EnrichStart
  <2> DEFINE j == [Idle EXCEPT !.pc = "map", !.s = Head(queue), !.key = src[Head(queue)].hash]
  <2>1. job' = [job EXCEPT !["enrich"] = j] /\ j.pc = "map"
    BY <1>2 DEF EnrichStart, Idle
  <2> HIDE DEF j
  <2> QED BY <2>1, SetBuildsOn DEF Building
<1>3. CASE EnrichMap
  <2> DEFINE s == j0.s
             j == [j0 EXCEPT !.new = {[RawRow(s, src[s].ver) EXCEPT !.kind = "ctx"]},
                             !.pc = "persist"]
  <2>1. job' = [job EXCEPT !["enrich"] = j]
    BY <1>3 DEF EnrichMap
  <2>2. j.pc = "persist"
    BY <1>0 DEF Job
  <2> HIDE DEF j
  <2> QED BY <2>1, <2>2, SetBuildsOn DEF Building
<1>4. CASE EnrichPersist \/ EnrichMeta
  BY <1>4, GotoBuildsOn DEF EnrichPersist, EnrichMeta, Building
<1>41. CASE EnrichRelist /\ ~Leave("enrich")
  <2> DEFINE s == j0.s
             j == [j0 EXCEPT !.pc = "coord",
                     !.new = {[RawRow(s, src[s].ver) EXCEPT
                                 !.kind = IF src[s].ctx THEN "ctx" ELSE "raw"]}]
  <2>1. job' = [job EXCEPT !["enrich"] = j]
    BY <1>41 DEF EnrichRelist
  <2>2. j.pc = "coord"
    BY <1>0 DEF Job
  <2> HIDE DEF j
  <2> QED BY <2>1, <2>2, SetBuildsOn DEF Building
<1>42. CASE EnrichCoord
  <2> DEFINE j == [j0 EXCEPT !.pc = "pick", !.t = <<model, 0>>]
  <2>1. job' = [job EXCEPT !["enrich"] = j]
    BY <1>42 DEF EnrichCoord
  <2>2. j.pc = "pick"
    BY <1>0 DEF Job
  <2> HIDE DEF j
  <2> QED BY <2>1, <2>2, SetBuildsOn DEF Building
<1>5. CASE EnrichLock
  <2>1. j0.pc = "lock" /\ (Goto("enrich", "flip") \/ Leave("enrich"))
    BY <1>5 DEF EnrichLock, At
  <2> QED BY <2>1, GotoBuildsOn, LeaveBuildsOn DEF Building
<1>6. CASE Leave("enrich")
  BY <1>6, LeaveBuildsOn
<1> QED BY <1>1, <1>2, <1>3, <1>4, <1>41, <1>42, <1>5, <1>6 DEF EnrichQuietStep

\* Outside create_building_table a switch builds on what it has.
LEMMA SwitchBuildsOn ==
    ASSUME TypeInv, NEW a \in Switchers,
           \/ SwitchReads(a) \/ SwitchLock(a) \/ SwitchDone(a) \/ SwitchFail(a)
           \/ SwitchRetire(a) \/ \E c \in Coords : SwitchCall(a, c)
    PROVE  BuildsOn(a)
<1> DEFINE j0 == job[a]
<1> USE ActorsDistinct
<1>0. j0 \in Job
  BY DEF TypeInv, TypeOK
<1>1. CASE SwitchReads(a)
  <2>1. PICK j : /\ job' = [job EXCEPT ![a] = j]
                 /\ j.pc \in {"idle", "attempt", "snapshot", "coords", "sources", "pick"}
    BY <1>1, SwitchReadsJob
  <2> QED BY <2>1, SetBuildsOn DEF Building
<1>2. CASE SwitchLock(a)
  <2>1. j0.pc = "lock" /\ (Goto(a, "flip") \/ Leave(a))
    BY <1>2 DEF SwitchLock, At
  <2> QED BY <2>1, GotoBuildsOn, LeaveBuildsOn DEF Building
<1>3. CASE Leave(a)
  BY <1>3, LeaveBuildsOn
<1>4. CASE SwitchRetire(a)
  <2>1. PICK c \in job[a].coords :
          job' = [job EXCEPT ![a].coords = @ \ {c}, ![a].old = ActiveTables(c), ![a].pc = "drop"]
    BY <1>4 DEF SwitchRetire
  <2> DEFINE j == [j0 EXCEPT !.coords = @ \ {c}, !.old = ActiveTables(c), !.pc = "drop"]
  <2>2. job' = [job EXCEPT ![a] = j] /\ j.pc = "drop"
    BY <1>0, <2>1 DEF Job
  <2> HIDE DEF j
  <2> QED BY <2>2, SetBuildsOn DEF Building
<1>5. ASSUME NEW c \in Coords, SwitchCall(a, c) PROVE BuildsOn(a)
  <2> DEFINE j == [Idle EXCEPT !.pc = "set", !.want = c, !.prior = model]
  <2>1. job' = [job EXCEPT ![a] = j] /\ j.pc = "set"
    BY <1>5 DEF SwitchCall, Idle
  <2> HIDE DEF j
  <2> QED BY <2>1, SetBuildsOn DEF Building
<1> QED BY <1>1, <1>2, <1>3, <1>4, <1>5 DEF SwitchDone, SwitchFail

\* The steps of the table construction itself, by another task than the ingest.
LEMMA BuildOwn ==
    ASSUME TypeInv, LockInv, TableInv, OwnInv, NEW a \in Actors, Build(a)
    PROVE  OwnInv'
<1> USE ActorsDistinct
<1> DEFINE t == job[a].t
<1>0. /\ job[a] \in Job /\ a # "ingest" /\ up = "up" /\ up' = up
      /\ job[a].pc \notin Untabled /\ t \in TableIds /\ StoreTypeOK
  <2>1. /\ job[a] \in Job /\ up = "up" /\ up' = up
        /\ job[a].pc \in PdfSteps \cup {"drop", "drop_row"} /\ JobFields(a, job[a]) /\ StoreTypeOK
    BY DEF Build, PickGen, CreateTable, RegisterBuilding, Seed, Populate, Flip, DropStale,
       DropStaleRow, Internal, Steady, At, PdfSteps, Building, TypeInv, TypeOK, JobTyped
  <2>2. job[a].pc \notin Untabled
    BY <2>1 DEF PdfSteps, Building, Untabled
  <2>3. a # "ingest"
    BY <2>1 DEF OwnInv, PdfSteps
  <2> QED BY <2>1, <2>2, <2>3 DEF JobFields
<1>1. \A b \in Actors : job[b].pc \in Building => Own(job[b].t)
  BY DEF OwnInv
<1>2. CASE PickGen(a)
  <2>1. PICK g \in 1 .. MaxGen :
          job' = [job EXCEPT ![a].t = <<@[1], g>>, ![a].pc = "create"]
    BY <1>2 DEF PickGen
  <2> DEFINE j == [job[a] EXCEPT !.t = <<job[a].t[1], g>>, !.pc = "create"]
  <2>2. job' = [job EXCEPT ![a] = j] /\ j.pc = "create" /\ job[a].pc = "pick"
    <3>1. job' = [job EXCEPT ![a] = j]
      BY <2>1
    <3>2. j.pc = "create"
      BY <1>0 DEF Job
    <3>3. job[a].pc = "pick"
      BY <1>2 DEF PickGen, At
    <3> QED BY <3>1, <3>2, <3>3
  <2> HIDE DEF j
  <2>3. BuildsOn(a) /\ \A b \in Actors : b # a => job'[b] = job[b]
    BY <1>0, <2>2, SetBuildsOn, SetJob DEF Building
  <2>4. UNCHANGED <<registry, phys>>
    BY <1>2 DEF PickGen, storeVars
  <2>5. \A b \in Actors : job'[b].pc = "drop" => job[b].pc = "drop"
    BY <2>2, SetJob
  <2>6. \A u : Own(u) => Own(u)'
    BY <2>4, <2>5 DEF Own, WithStatus
  <2> QED BY <2>3, <2>6, OwnKeeps
<1>3. CASE CreateTable(a)
  <2>1. /\ job[a].pc = "create" /\ t \notin phys /\ phys' = phys \cup {t} /\ registry' = registry
        /\ job'[a].pc = "register" /\ job'[a].t = t
        /\ \A b \in Actors : b # a => job'[b] = job[b]
    BY <1>3, GotoJob DEF CreateTable, StoreRefuses, CreateEmpty, At
  <2>2. Claimed(t)' /\ t[2] # 0
    <3>1. TableInv' /\ t[2] # 0
      BY <1>3, <2>1, CreateKeeps DEF TableInv, ClaimInv
    <3>2. \A b \in Actors : (job[b].pc = "register" => Claimed(job[b].t))'
      BY <3>1 DEF TableInv, ClaimInv
    <3> QED BY <2>1, <3>1, <3>2
  <2>3. Own(t)'
    BY <2>1, <2>2 DEF Own, Claimed
  <2>4. \A u : Own(u) => Own(u)'
    BY <2>1 DEF Own, WithStatus
  <2>5. \A b \in Actors : b # a /\ job[b].pc \in Building => job[b].t # t
    BY <1>1, <2>1 DEF Own
  <2>6. ASSUME NEW b \in Actors, b # a, job'[b].pc \in Building PROVE Own(job[b].t)'
    <3>1. PICK v : v = job[b].t
      OBVIOUS
    <3>2. Own(v)' /\ job'[b].t = v
      BY <1>1, <2>1, <2>4, <2>6, <3>1
    <3> QED BY <3>2
  <2> QED BY <1>0, <2>1, <2>3, <2>5, <2>6 DEF OwnInv
<1>4. CASE RegisterBuilding(a) \/ Seed(a) \/ Populate(a)
  <2>1. /\ BuildsOn(a) /\ \A b \in Actors : b # a => job'[b] = job[b]
        /\ phys' = phys /\ job'[a].pc # "drop"
    <3>1. PICK pc \in Building : job[a].pc \in Building /\ Goto(a, pc)
      BY <1>0, <1>4 DEF RegisterBuilding, Seed, Populate, At, Building
    <3>2. phys' = phys
      BY <1>4 DEF RegisterBuilding, Seed, SeedFromActive, Populate, AddRows
    <3> QED BY <1>0, <3>1, <3>2, GotoBuildsOn, GotoJob DEF Building
  <2>2. registry' = registry \/ registry' = registry \cup {<<t, "building">>}
    BY <1>4 DEF RegisterBuilding, Register, Seed, Populate
  <2>3. /\ WithStatus("active")' = WithStatus("active")
        /\ WithStatus("stale")' = WithStatus("stale")
    BY <2>2 DEF WithStatus
  <2>4. \A u : Own(u) => Own(u)'
    BY <2>1, <2>3 DEF Own
  <2> QED BY <2>1, <2>4, OwnKeeps
<1>5. CASE Flip(a)
  <2> DEFINE old == ActiveTables(t[1])
             j == [job[a] EXCEPT !.old = old, !.pc = "drop"]
  <2>1. /\ job' = [job EXCEPT ![a] = j] /\ j.pc = "drop" /\ phys' = phys /\ FlipTxn(t)
        /\ job[a].pc = "flip"
    BY <1>0, <1>5 DEF Flip, At, Job
  <2> HIDE DEF j
  <2>2. BuildsOn(a) /\ \A b \in Actors : b # a => job'[b] = job[b]
    BY <1>0, <2>1, SetBuildsOn, SetJob DEF Building
  <2>3. WithStatus("stale") = {}
    BY <1>0, <2>1, HolderAlone DEF Holds, Dropping
  <2>4. /\ WithStatus("active")' \subseteq WithStatus("active") \cup {t}
        /\ WithStatus("stale")' \subseteq WithStatus("active")
    <3>1. \A u \in TableIds :
             /\ <<u, "active">> \in registry'
                  <=> u = t \/ (<<u, "active">> \in registry /\ u[1] # t[1])
             /\ <<u, "stale">> \in registry'
                  <=> <<u, "stale">> \in registry \/ u \in ActiveTables(t[1])
      BY <1>0, <2>1, FlipTxnRows
    <3> QED BY <2>3, <3>1 DEF WithStatus, ActiveTables
  <2>5. \A u : Own(u) /\ u # t => Own(u)'
    BY <2>1, <2>4 DEF Own
  <2>6. \A b \in Actors : b # a /\ job[b].pc \in Building => job[b].t # t
    BY <2>1 DEF OwnInv, Building
  <2>7. job'[a].pc \notin Building
    BY <2>1, SetJob DEF Building
  <2>8. ASSUME NEW b \in Actors, job'[b].pc \in Building PROVE Own(job[b].t)'
    <3>1. PICK v : v = job[b].t
      OBVIOUS
    <3>2. job'[b] = job[b] /\ v # t /\ Own(v)
      BY <1>1, <2>2, <2>6, <2>7, <2>8, <3>1
    <3>3. Own(v)' /\ job'[b].t = v
      BY <2>5, <3>1, <3>2
    <3> QED BY <3>3
  <2> QED BY <1>0, <2>2, <2>7, <2>8 DEF OwnInv
<1>6. CASE DropStale(a)
  <2>1. /\ job[a].pc = "drop" /\ phys' = phys \ job[a].old /\ registry' = registry
        /\ Goto(a, "drop_row")
    BY <1>6 DEF DropStale, DropTables, At
  <2>2. BuildsOn(a) /\ \A b \in Actors : b # a => job'[b] = job[b]
    BY <1>0, <2>1, GotoBuildsOn, GotoJob DEF Building
  <2>3. job[a].old \subseteq WithStatus("stale")
    BY <2>1 DEF TableInv, StaleInv, Dropping
  <2>4. \A u : Own(u) => Own(u)'
    BY <2>1, <2>3 DEF Own, WithStatus
  <2> QED BY <2>2, <2>4, OwnKeeps
<1>7. CASE DropStaleRow(a)
  <2> DEFINE pc == IF a \in Switchers THEN "retire" ELSE "finish"
             j == [job[a] EXCEPT !.old = {}, !.pc = pc]
  <2>1. /\ job' = [job EXCEPT ![a] = j] /\ j.pc \in {"retire", "finish"} /\ phys' = phys
        /\ registry' \subseteq registry
    BY <1>0, <1>7 DEF DropStaleRow, DeleteRowsByTable, Job
  <2> HIDE DEF j
  <2>2. BuildsOn(a) /\ \A b \in Actors : b # a => job'[b] = job[b]
    BY <1>0, <2>1, SetBuildsOn, SetJob DEF Building
  <2>3. \A b \in Actors : job'[b].pc = "drop" => job[b].pc = "drop"
    BY <2>1, <2>2, SetJob
  <2>4. \A u : Own(u) => Own(u)'
    BY <2>1, <2>3 DEF Own, WithStatus
  <2> QED BY <2>2, <2>4, OwnKeeps
<1> QED BY <1>2, <1>3, <1>4, <1>5, <1>6, <1>7 DEF Build

\* A retirement leaves every table under construction to its builder.
LEMMA RetireOwn ==
    ASSUME TypeInv, LockInv, TableInv, OwnInv, NEW a \in Switchers, SwitchRetire(a)
    PROVE  OwnInv'
<1> USE ActorsDistinct
<1>1. PICK c \in job[a].coords :
        /\ DemoteTxn(c)
        /\ job' = [job EXCEPT ![a].coords = @ \ {c}, ![a].old = ActiveTables(c), ![a].pc = "drop"]
  BY DEF SwitchRetire
<1>2. BuildsOn(a)
  BY SwitchBuildsOn
<1>3. \A b \in Actors : b # a => job'[b] = job[b]
  BY <1>1 DEF TypeInv, TypeOK
<1>4. up = "up" /\ Holds(a) /\ ~Dropping(a) /\ phys' = phys /\ StoreTypeOK
  BY DEF SwitchRetire, At, Holds, Dropping, TypeInv, TypeOK
<1>5. WithStatus("stale") = {}
  BY <1>4, HolderAlone
<1>6. /\ WithStatus("active")' \subseteq WithStatus("active")
      /\ WithStatus("stale")' \subseteq WithStatus("active")
  <2>1. \A u \in TableIds :
          /\ <<u, "active">> \in registry' <=> <<u, "active">> \in registry /\ u[1] # c
          /\ <<u, "stale">> \in registry' <=> <<u, "stale">> \in registry \/ u \in ActiveTables(c)
    BY <1>1, <1>4, DemoteTxnRows
  <2> QED BY <1>5, <2>1 DEF WithStatus, ActiveTables
<1>7. \A u : Own(u) => Own(u)'
  BY <1>4, <1>6 DEF Own
<1> QED BY <1>2, <1>3, <1>7, OwnKeeps

\* A plain ingest creates and registers the formula name only.
LEMMA EnsureOwn ==
    ASSUME TypeInv, TableInv, PlainSources, OwnInv, IngestEnsureTable \/ IngestEnsureRow
    PROVE  OwnInv'
<1> USE ActorsDistinct
<1>1. BuildsOn("ingest")
  BY IngestBuildsOn
<1>2. \A b \in Actors : b # "ingest" => job'[b] = job[b]
  BY DEF IngestEnsureTable, IngestEnsureRow, Goto, TypeInv, TypeOK
<1>3. \A b \in Actors : job'[b].pc = "drop" => job[b].pc = "drop"
  BY <1>1, <1>2 DEF BuildsOn, PdfSteps
<1>4. phys \subseteq phys'
  BY DEF IngestEnsureTable, IngestEnsureRow, CreateEmpty
<1>5. CASE IngestEnsureTable
  <2>1. \A u : Own(u) => Own(u)'
    BY <1>3, <1>4, <1>5 DEF IngestEnsureTable, Own, WithStatus
  <2> QED BY <1>1, <1>2, <2>1, OwnKeeps
<1>6. CASE IngestEnsureRow
  <2> DEFINE t == job["ingest"].t
  <2>1. t[2] = 0
    BY <1>6 DEF IngestEnsureRow, At, TableInv, ClaimInv
  <2>2. registry' = registry \/ registry' = registry \cup {<<t, "active">>}
    BY <1>6 DEF IngestEnsureRow, Register
  <2>3. /\ WithStatus("active")' \subseteq WithStatus("active") \cup {t}
        /\ WithStatus("stale")' = WithStatus("stale")
    BY <2>2 DEF WithStatus
  <2>4. \A u : Own(u) => Own(u)'
    BY <1>3, <1>4, <2>1, <2>3 DEF Own
  <2> QED BY <1>1, <1>2, <2>4, OwnKeeps
<1> QED BY <1>5, <1>6

\* Without a request to purge the notebook no notebook purge runs.
LEMMA NoPurgeStep ==
    ASSUME TypeInv, PlainSources, NoNotebookPurge, [Next]_vars
    PROVE  NoNotebookPurge'
<1> USE ActorsDistinct
<1>0. NoPurge.s # NotebookId
  BY JobAssumption DEF NoPurge
<1>1. ASSUME UNCHANGED <<torn, purge>> PROVE NoNotebookPurge'
  BY <1>1 DEF NoNotebookPurge
<1>2. CASE Request
  <2>1. ASSUME NEW x \in Sources \cup {NotebookId}, CallPurge(x) PROVE NoNotebookPurge'
    <3>1. x # NotebookId /\ purge'.s = x /\ torn' = torn
      BY <2>1 DEF CallPurge, NoPurge, PlainSources
    <3> QED BY <3>1 DEF NoNotebookPurge
  <2> QED BY <1>1, <1>2, <2>1 DEF Request, CallIngest, RetrySource, TrashSource, RestoreSource,
       SwitchCall, TrashNotebook, RestoreNotebook, RescanEnrichment, FlagOnly, Internal, Steady
<1>3. CASE Acquire
  <2>1. CASE PurgeAcquire
    BY <1>0, <2>1 DEF PurgeAcquire, NoNotebookPurge, TypeInv, TypeOK
  <2> QED BY <1>1, <1>3, <2>1 DEF Acquire, IngestAcquire, EnrichLock, SwitchLock, Steady
<1>4. ASSUME NEW a, Build(a) PROVE NoNotebookPurge'
  BY <1>1, <1>4 DEF Build, PickGen, CreateTable, RegisterBuilding, Seed, Populate, Flip,
     DropStale, DropStaleRow, Internal, Steady
<1>5. CASE IngestRun
  BY <1>1, <1>4, <1>5 DEF IngestRun, IngestMissing, IngestUnchanged, IngestCancelled,
     IngestParkWipe, IngestParkRows, IngestParkStatus, IngestParse, IngestWipe, IngestChunks,
     IngestReset, IngestEmpty, IngestEmbed, IngestEnsureTable, IngestEnsureRow, IngestAppend,
     IngestSweep, IngestSweepRows, IngestFinish, IngestFail, IngestOk, Internal, Steady
<1>6. CASE EnrichRun
  BY <1>1, <1>4, <1>6 DEF EnrichRun, EnrichSkip, EnrichPreflightFail, EnrichStart,
     EnrichDropped, EnrichDegrade, EnrichPrefixOnly, EnrichMap, EnrichPersist, EnrichMeta,
     EnrichRelist, EnrichCoord, EnrichFinish, EnrichLlmFail, EnrichAbort, EnrichFail,
     EnrichReturn, Internal, Steady
<1>7. ASSUME NEW a \in Switchers, SwitchRun(a) PROVE NoNotebookPurge'
  BY <1>1, <1>4, <1>7 DEF SwitchRun, SwitchSet, SwitchAttempt, SwitchSnapshot, SwitchCoords,
     SwitchChunks, SwitchRead, SwitchRetire, SwitchDone, SwitchFail, Internal, Steady
<1>8. CASE PurgeRun
  <2>1. purge \in [pc : {"idle", "wait", "drop", "vectors", "delete"},
                   s : Sources \cup {None, NotebookId}, left : SUBSET Coords]
    BY DEF TypeInv, TypeOK
  <2>2. CASE PurgeCoords \/ PurgeSourceVectors
    <3>1. torn' = torn /\ purge'.s = purge.s
      BY <2>1, <2>2 DEF PurgeCoords, PurgeSourceVectors
    <3> QED BY <3>1 DEF NoNotebookPurge
  <2>3. CASE PurgeSourceRow \/ PurgeNotebookTables \/ PurgeNotebookRow \/ PurgeFail
    BY <1>0, <2>3 DEF PurgeSourceRow, PurgeNotebookTables, PurgeNotebookRow, PurgeFail,
       NoNotebookPurge
  <2> QED BY <1>8, <2>2, <2>3 DEF PurgeRun
<1>9. CASE StartUp \/ Crash
  BY <1>0, <1>9 DEF StartUp, RecoverStatuses, GcUnregistered, GcTables, GcRows, GcFail, Crash,
     Starting, NoNotebookPurge
<1>10. CASE UNCHANGED vars
  BY <1>1, <1>10 DEF vars, engineVars
<1> QED BY <1>2, <1>3, <1>5, <1>6, <1>7, <1>8, <1>9, <1>10 DEF Next

\* The invariant of the tables under construction is inductive.
LEMMA OwnStep ==
    ASSUME NoCleanupFaults, PlainSources, TypeInv, IndexInv, NoNotebookPurge, OwnInv,
           [Next]_vars
    PROVE  OwnInv'
<1> USE ActorsDistinct
<1>0. LockInv /\ TableInv
  BY DEF IndexInv, TableInv, NoNotebookPurge
<1>1. ASSUME NEW a \in Actors, QuietStep(a), BuildsOn(a) PROVE OwnInv'
  <2>1. /\ UNCHANGED <<registry, phys>> /\ \A b \in Actors : b # a => job'[b] = job[b]
        /\ job'[a].pc # "drop"
    BY <1>1 DEF QuietStep, JobStep, Cleaning
  <2>2. \A u : Own(u) => Own(u)'
    BY <2>1 DEF Own, WithStatus
  <2> QED BY <1>1, <2>1, <2>2, OwnKeeps
<1>2. CASE StillStep
  <2>1. UNCHANGED <<job, registry, phys>>
    BY <1>0, <1>2, StillLock, NoPurgeStep DEF NoNotebookPurge
  <2> QED BY <2>1 DEF OwnInv, Own, WithStatus
<1>3. CASE IngestQuietStep
  BY <1>0, <1>1, <1>3, IngestQuiet, IngestBuildsOn
<1>4. CASE EnrichQuietStep
  BY <1>0, <1>1, <1>4, EnrichQuiet, EnrichBuildsOn
<1>5. ASSUME NEW a \in Switchers,
             \/ SwitchReads(a) \/ SwitchLock(a) \/ SwitchDone(a) \/ SwitchFail(a)
             \/ \E c \in Coords : SwitchCall(a, c)
      PROVE  OwnInv'
  BY <1>0, <1>1, <1>5, SwitchQuiet, SwitchBuildsOn
<1>6. ASSUME NEW a \in Actors, Build(a) PROVE OwnInv'
  BY <1>0, <1>6, BuildOwn
<1>7. CASE IngestRun
  <2>1. ~IngestSweep /\ ~IngestSweepRows
    BY DEF IngestSweep, IngestSweepRows, At, OwnInv, PdfSteps
  <2> QED BY <1>0, <1>3, <1>6, <1>7, <2>1, EnsureOwn DEF IngestRun, IngestQuietStep
<1>8. CASE EnrichRun
  BY <1>2, <1>4, <1>6, <1>8 DEF EnrichRun, EnrichQuietStep, StillStep
<1>9. ASSUME NEW a \in Switchers, SwitchRun(a) PROVE OwnInv'
  BY <1>0, <1>5, <1>6, <1>9, RetireOwn DEF SwitchRun, SwitchReads
<1>10. CASE StartUp \/ Crash
  <2>1. \A a \in Actors : job'[a].pc = "idle"
    BY <1>0, <1>10 DEF StartUp, RecoverStatuses, GcUnregistered, GcTables, GcRows, GcFail,
       Starting, Crash, Idle, LockInv
  <2> QED BY <2>1 DEF OwnInv, Building, PdfSteps
<1>11. CASE Request
  BY <1>2, <1>5, <1>11 DEF Request, StillStep
<1>12. CASE Acquire
  BY <1>2, <1>3, <1>4, <1>5, <1>12 DEF Acquire, IngestQuietStep, EnrichQuietStep, StillStep
<1>13. CASE PurgeRun \/ UNCHANGED vars
  BY <1>2, <1>13 DEF StillStep
<1> QED BY <1>7, <1>8, <1>9, <1>10, <1>11, <1>12, <1>13 DEF Next

\* Search reads what the active rows name on disk, and nothing else.
LEMMA SearchKeeps ==
    ASSUME WithStatus("active")' = WithStatus("active"),
           \A t \in WithStatus("active") : t \in phys' <=> t \in phys,
           \A t \in WithStatus("active") : rows'[t] = rows[t],
           NEW c
    PROVE  Searchable(c)' = Searchable(c)
<1>1. ActiveTables(c)' = ActiveTables(c)
  BY DEF ActiveTables
<1>2. Open(c)' = Open(c) /\ Open(c) \subseteq WithStatus("active")
  BY <1>1 DEF Open, ActiveTables
<1>3. \A t \in Open(c) : rows'[t] = rows[t]
  BY <1>2
<1> QED BY <1>2, <1>3 DEF Searchable

\* A step that touches no part of the store changes no answer of a search.
LEMMA SearchIdle ==
    ASSUME UNCHANGED storeVars, NEW c
    PROVE  Searchable(c)' = Searchable(c)
<1>1. UNCHANGED <<registry, phys, rows>>
  BY DEF storeVars
<1>2. WithStatus("active")' = WithStatus("active")
  BY <1>1 DEF WithStatus
<1> QED BY <1>1, <1>2, SearchKeeps

Unlocked ==
    /\ up = "up" /\ lock \notin {"ingest", "purge"}
    /\ ~(lock \in Actors /\ job[lock] # job'[lock])

\* The lock-free build writes to its own table only; what the holder of the lock
\* writes is the holder's step.
LEMMA BuildSearch ==
    ASSUME TypeInv, LockInv, TableInv, OwnInv, Unlocked, NEW a \in Actors, Build(a), NEW c
    PROVE  Searchable(c)' = Searchable(c)
<1> DEFINE t == job[a].t
<1>1. CASE PickGen(a)
  BY <1>1, SearchIdle DEF PickGen
<1>2. CASE CreateTable(a)
  <2>1. /\ t \notin phys /\ phys' = phys \cup {t} /\ rows' = rows /\ registry' = registry
    BY <1>2 DEF CreateTable, StoreRefuses, CreateEmpty, At
  <2>2. t \notin WithStatus("active")
    BY <2>1 DEF TableInv, RowInv
  <2>3. WithStatus("active")' = WithStatus("active")
    BY <2>1 DEF WithStatus
  <2> QED BY <2>1, <2>2, <2>3, SearchKeeps
<1>3. CASE RegisterBuilding(a)
  <2>1. registry' = registry \cup {<<t, "building">>} /\ UNCHANGED <<phys, rows>>
    BY <1>3 DEF RegisterBuilding, Register
  <2>2. WithStatus("active")' = WithStatus("active")
    BY <2>1 DEF WithStatus
  <2> QED BY <2>1, <2>2, SearchKeeps
<1>4. CASE Seed(a) \/ Populate(a)
  <2>1. /\ registry' = registry /\ phys' = phys
        /\ \E new : rows' = [rows EXCEPT ![t] = @ \cup new] \/ rows' = rows
    BY <1>4 DEF Seed, SeedFromActive, Populate, AddRows
  <2>2. t \notin WithStatus("active")
    BY <1>4 DEF Seed, Populate, At, OwnInv, Own, Building
  <2>3. \A u \in WithStatus("active") : rows'[u] = rows[u]
    BY <2>1, <2>2 DEF TypeInv, TypeOK, StoreTypeOK, WithStatus
  <2>4. WithStatus("active")' = WithStatus("active")
    BY <2>1 DEF WithStatus
  <2> QED BY <2>1, <2>3, <2>4, SearchKeeps
<1>5. ~Flip(a) /\ ~DropStale(a) /\ ~DropStaleRow(a)
  <2>1. SUFFICES ASSUME Flip(a) \/ DropStale(a) \/ DropStaleRow(a) PROVE FALSE
    OBVIOUS
  <2>2. job[a].pc \in {"flip", "drop", "drop_row"}
    BY <2>1 DEF Flip, DropStale, DropStaleRow, At
  <2>3. Holds(a)
    BY <2>2 DEF Holds
  <2>4. lock = a
    BY <2>3 DEF LockInv
  <2>5. job'[a].pc # job[a].pc
    <3>1. job \in [Actors -> Job]
      BY DEF TypeInv, TypeOK
    <3>2. CASE Flip(a)
      BY <3>1, <3>2 DEF Flip, At, Job
    <3>3. CASE DropStale(a)
      BY <3>3, GotoJob DEF DropStale, At
    <3>4. CASE DropStaleRow(a)
      BY <3>1, <3>4 DEF DropStaleRow, At, Job
    <3> QED BY <2>1, <3>2, <3>3, <3>4
  <2> QED BY <2>4, <2>5 DEF Unlocked
<1> QED BY <1>1, <1>2, <1>3, <1>4, <1>5 DEF Build

\* What search can read changes in a step of the lock's holder, or while the
\* engine starts.
LEMMA UnlockedStep ==
    ASSUME PlainSources, TypeInv, IndexInv, NoNotebookPurge, OwnInv, Unlocked, [Next]_vars,
           NEW c
    PROVE  Searchable(c)' = Searchable(c)
<1> USE ActorsDistinct
<1>0. LockInv /\ TableInv
  BY DEF IndexInv, TableInv, NoNotebookPurge
<1>1. CASE Request
  BY <1>1, SearchIdle DEF Request, CallIngest, RetrySource, TrashSource, RestoreSource,
     SwitchCall, CallPurge, TrashNotebook, RestoreNotebook, RescanEnrichment, FlagOnly
<1>2. CASE Acquire
  BY <1>2, SearchIdle DEF Acquire, IngestAcquire, EnrichLock, PurgeAcquire, SwitchLock
<1>3. ~IngestRun
  <2>1. SUFFICES ASSUME IngestRun PROVE FALSE
    OBVIOUS
  <2>2. job["ingest"].pc # "idle"
    BY <2>1 DEF IngestRun, IngestMissing, IngestUnchanged, IngestCancelled, IngestParkWipe,
       IngestParkRows, IngestParkStatus, IngestParse, IngestWipe, IngestChunks, IngestReset,
       IngestEmpty, IngestEmbed, IngestEnsureTable, IngestEnsureRow, IngestAppend, IngestSweep,
       IngestSweepRows, IngestFinish, IngestFail, Build, PickGen, CreateTable, RegisterBuilding,
       Seed, Populate, Flip, DropStale, DropStaleRow, At
  <2> QED BY <1>0, <2>2 DEF LockInv, Holds, Unlocked
<1>4. CASE EnrichRun
  <2>1. CASE Build("enrich")
    BY <1>0, <2>1, BuildSearch
  <2> QED BY <1>4, <2>1, SearchIdle DEF EnrichRun, EnrichSkip, EnrichPreflightFail,
       EnrichStart, EnrichDropped, EnrichDegrade, EnrichPrefixOnly, EnrichMap, EnrichPersist,
       EnrichMeta, EnrichRelist, EnrichCoord, EnrichFinish, EnrichLlmFail, EnrichAbort,
       EnrichFail, EnrichReturn
<1>5. ASSUME NEW a \in Switchers, SwitchRun(a) PROVE Searchable(c)' = Searchable(c)
  <2>1. CASE Build(a)
    BY <1>0, <2>1, BuildSearch
  <2>2. ~SwitchRetire(a)
    <3>1. SUFFICES ASSUME SwitchRetire(a) PROVE FALSE
      OBVIOUS
    <3>2. job[a].pc = "retire" /\ lock = a
      BY <1>0, <3>1 DEF SwitchRetire, At, LockInv, Holds
    <3>3. job'[a].pc = "drop"
      <4>1. PICK d \in job[a].coords :
              job' = [job EXCEPT ![a].coords = @ \ {d}, ![a].old = ActiveTables(d),
                                 ![a].pc = "drop"]
        BY <3>1 DEF SwitchRetire
      <4>2. job \in [Actors -> Job]
        BY DEF TypeInv, TypeOK
      <4> QED BY <4>1, <4>2 DEF Job
    <3> QED BY <3>2, <3>3 DEF Unlocked
  <2> QED BY <1>5, <2>1, <2>2, SearchIdle DEF SwitchRun, SwitchSet, SwitchAttempt,
       SwitchSnapshot, SwitchCoords, SwitchChunks, SwitchRead, SwitchDone, SwitchFail
<1>6. CASE PurgeRun
  <2>1. purge.pc \in {"drop", "vectors", "delete"}
    BY <1>6 DEF PurgeRun, PurgeCoords, PurgeSourceVectors, PurgeSourceRow, PurgeNotebookTables,
       PurgeNotebookRow, PurgeFail
  <2> QED BY <1>0, <2>1 DEF LockInv, Unlocked
<1>7. ~StartUp
  BY DEF StartUp, RecoverStatuses, GcUnregistered, GcTables, GcRows, GcFail, Unlocked
<1>8. CASE Crash \/ UNCHANGED vars
  BY <1>8, SearchIdle DEF Crash, vars
<1> QED BY <1>1, <1>2, <1>3, <1>4, <1>5, <1>6, <1>7, <1>8 DEF Next

\* reembed.rs: "the active table is never mutated" by the lock-free builds of the
\* enrichment worker and of any number of switch commands.  With a PDF source it
\* is not so: its sweep takes the worker's building table, whose name is used again
\* (run SweepReuse).
THEOREM UnlockedStepsKeepIndexAlways ==
    ASSUME NoCleanupFaults, PlainSources
    PROVE  Spec => UnlockedStepsKeepIndex
<1> DEFINE Kept == \A c \in Coords : Searchable(c)' = Searchable(c)
<1>1. Init => NoNotebookPurge /\ OwnInv
  BY JobAssumption, ActorsDistinct DEF Init, NoNotebookPurge, NoPurge, OwnInv, Idle, Building,
     PdfSteps
<1>2. TypeInv /\ NoNotebookPurge /\ [Next]_vars => NoNotebookPurge'
  BY NoPurgeStep
<1>3. TypeInv /\ IndexInv /\ NoNotebookPurge /\ OwnInv /\ [Next]_vars => IndexInv' /\ OwnInv'
  BY IndexStep, OwnStep
<1>4. TypeInv /\ IndexInv /\ NoNotebookPurge /\ OwnInv /\ [Next]_vars => [Unlocked => Kept]_vars
  BY UnlockedStep
<1>5. [Unlocked => Kept]_vars
        => [up = "up" /\ lock \notin {"ingest", "purge"}
              /\ ~(lock \in Actors /\ job[lock] # job'[lock]) => Kept]_vars
  BY DEF Unlocked
<1> HIDE DEF Kept
<1> QED
  <2>1. Spec => [][up = "up" /\ lock \notin {"ingest", "purge"}
              /\ ~(lock \in Actors /\ job[lock] # job'[lock]) => Kept]_vars
    BY <1>1, <1>2, <1>3, <1>4, <1>5, TypeInit, TypeStep, IndexInit, PTL DEF Spec
  <2> QED BY <2>1 DEF UnlockedStepsKeepIndex, Kept

-----------------------------------------------------------------------------
(* One writer: what search finds when a single worker writes the index.     *)
(* Its build copies every vector but those of its own source from the      *)
(* active table; nobody changes that table meanwhile, so that the flip     *)
(* loses nothing and brings nothing back.                                  *)

\* The worker that writes the index where only one does: nothing switches the
\* model or purges the notebook, and enrichment does not run beside ingests and
\* purges.
OneWriter ==
    /\ Ops \cap {"switch", "purge_nb"} = {}
    /\ "enrich" \notin Ops \/ Ops \cap {"ingest", "purge"} = {}
Writer == IF "enrich" \in Ops THEN "enrich" ELSE "ingest"

\* What search reads: the notebook's model does not change.
Live == Searchable(model)
LiveBut(s) == Live \ RowsOf(s)

\* Who is at work.
AloneInv ==
    /\ \A a \in Actors : a # Writer => job[a].pc = "idle"
    /\ up # "up" => purge.pc = "idle" /\ job[Writer].pc = "idle"
    /\ purge.pc # "idle" => purge.s \in Sources /\ "purge" \in Ops
    /\ purge.pc # "idle" /\ "restore" \notin Ops => src[purge.s].trash
    /\ purge.pc \in {"drop", "vectors", "delete"} => lock = "purge"
    /\ IF Writer = "ingest"
       THEN job["ingest"].pc # "idle" => lock = "ingest"
       ELSE /\ waiting = {} /\ purge.pc = "idle"
            /\ \A s \in Sources : src[s].st \in {"queued", "indexed"}

\* The rows of the registry and the tables on disk.
StoreInv ==
    /\ \A r \in registry : r[1][1] = model
    /\ WithStatus("active") \subseteq phys
    /\ WithStatus("active") \cap (WithStatus("building") \cup WithStatus("stale")) = {}
    /\ \A t \in WithStatus("building") : t[2] # 0
    /\ WithStatus("active") = {} => WithStatus("stale") = {} /\ rows[<<model, 0>>] = {}
    /\ \A t \in TableIds : t \notin phys => rows[t] = {}

\* The table that job j builds, and what it has copied into it so far.
Filling == {"seed", "add", "lock", "flip"}
BuildInv(j) ==
    /\ j.pc \notin Untabled => j.t[1] = model
    /\ j.pc \in Rewriting \cup {"wipe", "ensure"} => j.t = <<model, 0>>
    /\ j.pc \in {"create", "register"} =>
         j.t \notin Registered /\ j.t[2] # 0 /\ rows[j.t] = {}
    /\ j.pc = "register" => j.t \in phys
    /\ j.pc \in Filling =>
         j.t \in WithStatus("building") /\ j.t \notin WithStatus("stale") /\ j.t \in phys
    /\ j.pc = "seed" => rows[j.t] = {}
    /\ j.pc = "add" => rows[j.t] = LiveBut(j.s)
    /\ j.pc \in {"lock", "flip"} => rows[j.t] = LiveBut(j.s) \cup j.new
    /\ j.pc \in {"drop", "drop_row"} => j.old \cap WithStatus("active") = {}
    /\ j.pc = "ensure_row" =>
         WithStatus("active") = {} /\ j.t = <<model, 0>> /\ j.t \in phys
    /\ j.pc = "append" => j.t \in WithStatus("active")

\* The vectors that job j is about to write, or has written.
Unwritten == {"ensure", "ensure_row", "append", "sweep", "sweep_rows", "coord", "pick",
              "create", "register", "seed", "add", "lock", "flip"}
TextInv(j) ==
    /\ j.pc \in Unwritten => \E r \in Row : j.new = {r} /\ r.src = j.s /\ r.ver = src[j.s].ver
    /\ j.pc \in {"drop", "drop_row", "finish"} => Findable(j.s)
    /\ Writer = "ingest" /\ j.pc \in Rewriting \cup {"ensure", "ensure_row", "append"}
         => Live \cap RowsOf(j.s) = {}
    /\ Writer = "ingest" /\ j.pc \notin {"idle", "load", "park_rows", "park_status"}
         => src[j.s].st \in {"parsing", "embedding"}
    /\ j.pc \in {"park_rows", "park_status"} => Present(j.s)

\* Nothing takes a source's vectors away but a purge or a park.
NoLoss == "park" \notin Ops /\ ~({"purge", "restore"} \subseteq Ops)
Shown(s) == src[s].st = "indexed" /\ src[s].chunks /\ (src[s].trash => "purge" \notin Ops)

\* The purge has dropped the vectors of its source.
Purged == purge.pc = "vectors" /\ model \notin purge.left

\* What search finds.
FoundInv ==
    /\ \A r \in Live : Present(r.src)
    /\ \A q, r \in Live : q.src = r.src => q = r
    /\ Purged => Live \cap RowsOf(purge.s) = {}
    /\ NoLoss => \A s \in Sources : Shown(s) => Findable(s)

WriterInv ==
    AloneInv /\ StoreInv /\ BuildInv(job[Writer]) /\ TextInv(job[Writer]) /\ FoundInv

\* What a step of the engine starts from.
Solo == TypeInv /\ UniqueActive /\ OneWriter /\ WriterInv

\* The writer is an actor, and no switch command.
LEMMA WriterActor ==
    Writer \in {"ingest", "enrich"} /\ Writer \in Actors /\ Writer \notin Switchers
BY ActorsDistinct, JobAssumption DEF Writer

\* The fields of a job are the writer's own.
LEMMA WriterJob ==
    ASSUME TypeInv
    PROVE  /\ job[Writer] \in Job /\ JobFields(Writer, job[Writer])
           /\ job[Writer].pc # "idle" => job[Writer].s \in Sources
           /\ job[Writer].pc \notin Untabled => job[Writer].t \in TableIds
           /\ StoreTypeOK /\ src \in [Sources -> SourceRow] /\ model \in Coords
           /\ <<model, 0>> \in TableIds
BY WriterActor, BoundsAssumption DEF TypeInv, TypeOK, JobTyped, JobFields, TableIds

\* A search reads the one active table, or nothing.
LEMMA LiveTable ==
    ASSUME StoreTypeOK, UniqueActive, StoreInv
    PROVE  /\ \A t \in WithStatus("active") : WithStatus("active") = {t} /\ Live = rows[t]
           /\ WithStatus("active") = {} => Live = {}
           /\ Live \subseteq Row
<1>1. \A t \in WithStatus("active") : t[1] = model /\ t \in phys
  BY DEF StoreInv, WithStatus
<1>2. Open(model) = WithStatus("active")
  BY <1>1 DEF Open, ActiveTables
<1>3. ASSUME NEW t \in WithStatus("active") PROVE WithStatus("active") = {t}
  BY <1>1, <1>3 DEF UniqueActive
<1>4. Live = UNION {rows[t] : t \in WithStatus("active")}
  BY <1>2 DEF Live, Searchable
<1>5. ASSUME NEW t \in WithStatus("active") PROVE Live = rows[t]
  BY <1>3, <1>4, <1>5
<1>6. WithStatus("active") = {} => Live = {}
  BY <1>4
<1>7. Live \subseteq Row
  BY SearchableType DEF Live
<1> QED BY <1>3, <1>5, <1>6, <1>7

\* What the invariants read of the store.
StoreStill == UNCHANGED <<storeVars, model>>
LiveStill == UNCHANGED model /\ Live' = Live

\* A step that leaves the store alone leaves what the writer relies on.
LEMMA StillLive ==
    ASSUME StoreStill
    PROVE  /\ LiveStill /\ (StoreInv => StoreInv')
           /\ \A j : BuildInv(j) => BuildInv(j)'
           /\ \A s : LiveBut(s)' = LiveBut(s)
<1>1. UNCHANGED <<registry, phys, rows, model>>
  BY DEF StoreStill, storeVars
<1>2. /\ \A st : WithStatus(st)' = WithStatus(st)
      /\ Registered' = Registered
  BY <1>1 DEF WithStatus, Registered
<1>3. Searchable(model)' = Searchable(model)
  BY <1>1 DEF Searchable, Open, ActiveTables, WithStatus
<1>4. Live' = Live /\ \A s : LiveBut(s)' = LiveBut(s)
  BY <1>3 DEF Live, LiveBut
<1>5. StoreInv => StoreInv'
  BY <1>1, <1>2 DEF StoreInv
<1>6. ASSUME NEW j, BuildInv(j) PROVE BuildInv(j)'
  BY <1>1, <1>2, <1>4, <1>6 DEF BuildInv
<1> QED BY <1>1, <1>4, <1>5, <1>6 DEF LiveStill

\* A source is found while what search reads and its chunking are the same.
LEMMA StillFound ==
    ASSUME LiveStill, NEW s, src'[s].ver = src[s].ver
    PROVE  Findable(s)' <=> Findable(s)
<1>1. Searchable(model)' = Searchable(model)
  BY DEF LiveStill, Live
<1> QED BY <1>1 DEF Findable

\* A job that has ended relies on nothing.
LEMMA IdleFits ==
    BuildInv(Idle) /\ TextInv(Idle)
<1>1. Idle.pc = "idle"
  BY DEF Idle
<1> QED BY <1>1 DEF BuildInv, TextInv, Untabled, Filling, Unwritten, Rewriting

-----------------------------------------------------------------------------
(* Steps that change what search finds only through the sources rows.       *)

\* What a writer's step may do besides its work on the index.
WriterFrame(j) ==
    /\ up = "up" /\ Steady /\ UNCHANGED model /\ job' = [job EXCEPT ![Writer] = j]
    /\ Writer = "ingest" => lock # "purge" /\ (j.pc # "idle" => lock' = "ingest")
    /\ Writer = "enrich" => UNCHANGED waiting
    /\ \A s \in Sources : /\ src'[s].trash = src[s].trash
                          /\ Writer = "enrich" => src'[s].st = src[s].st

\* After the writer's step it is still alone.
LEMMA WriterAlone ==
    ASSUME TypeInv, AloneInv, NEW j, WriterFrame(j)
    PROVE  AloneInv' /\ job'[Writer] = j
<1>1. job'[Writer] = j /\ \A b \in Actors : b # Writer => job'[b] = job[b]
  BY SetJob, WriterActor DEF WriterFrame
<1>2. up' = "up" /\ purge' = purge
  BY DEF WriterFrame, Steady
<1>3. purge.pc # "idle" => purge.s \in Sources
  BY DEF AloneInv
<1>4. Writer = "ingest" => purge.pc \notin {"drop", "vectors"}
  BY DEF AloneInv, WriterFrame
<1>5. Writer # "ingest" => Writer = "enrich" /\ purge.pc = "idle" /\ waiting' = {}
  BY WriterActor DEF AloneInv, WriterFrame
<1> QED BY <1>1, <1>2, <1>3, <1>4, <1>5 DEF AloneInv, WriterFrame

\* Search reads what it read, and is asked for nothing it was not asked for.
LEMMA StillFoundAll ==
    ASSUME TypeInv, LiveStill, FoundInv,
           purge' = purge \/ ~Purged' \/ Live \cap RowsOf(purge'.s) = {},
           \A x \in Sources : Present(x) => Present(x)' \/ Live \cap RowsOf(x) = {},
           NoLoss => \A x \in Sources : Shown(x)' => src'[x].ver = src[x].ver
                                                   /\ (Shown(x) \/ Findable(x))
    PROVE  FoundInv'
<1>1. Live' = Live /\ Live \subseteq Row
  BY SearchableType DEF LiveStill, Live, TypeInv, TypeOK
<1>2. \A r \in Live' : Present(r.src)'
  <2>1. SUFFICES ASSUME NEW r \in Live PROVE Present(r.src)'
    BY <1>1
  <2>2. r \in RowsOf(r.src) /\ r.src \in Sources
    BY <1>1 DEF RowsOf, Row
  <2> QED BY <2>2 DEF FoundInv
<1>3. \A q, r \in Live' : q.src = r.src => q = r
  BY <1>1 DEF FoundInv
<1>4. Purged' => Live' \cap RowsOf(purge'.s) = {}
  BY <1>1 DEF FoundInv, Purged, LiveStill
<1>5. NoLoss => \A x \in Sources : Shown(x)' => Findable(x)'
  BY StillFound DEF FoundInv
<1> QED BY <1>2, <1>3, <1>4, <1>5 DEF FoundInv, RowsOf

\* A sources row is written, and search reads what it read: the row is not the
\* end of a present source, and a source newly shown is found.
RowFits(s, row) ==
    /\ row.trash = src[s].trash
    /\ row.st = "gone" => src[s].st = "gone"
    /\ row.st = "indexed" /\ row.chunks
         => /\ row.ver = src[s].ver
            /\ (src[s].st = "indexed" /\ src[s].chunks) \/ Findable(s)

\* Search still finds what it should after one row has changed in one of these ways.
LEMMA RowFound ==
    ASSUME TypeInv, LiveStill, FoundInv, purge' = purge,
           NEW s \in Sources, NEW row \in SourceRow, src' = [src EXCEPT ![s] = row],
           RowFits(s, row)
    PROVE  FoundInv'
<1>0. src \in [Sources -> SourceRow]
  BY DEF TypeInv, TypeOK
<1>1. src'[s] = row /\ \A x \in Sources : x # s => src'[x] = src[x]
  BY <1>0
<1>2. \A x \in Sources : Present(x) => Present(x)'
  BY <1>1 DEF Present, RowFits
<1>3. \A x \in Sources : Shown(x)' => src'[x].ver = src[x].ver /\ (Shown(x) \/ Findable(x))
  BY <1>1 DEF Shown, RowFits
<1> QED BY <1>2, <1>3, StillFoundAll

\* No sources row changes.
LEMMA SameFound ==
    ASSUME TypeInv, LiveStill, FoundInv, src' = src,
           purge' = purge \/ ~Purged' \/ Live \cap RowsOf(purge'.s) = {}
    PROVE  FoundInv'
<1>1. \A x \in Sources : (Present(x) => Present(x)') /\ (Shown(x)' => Shown(x))
  BY DEF Present, Shown
<1> QED BY <1>1, StillFoundAll

\* The writer ends its job, and writes one sources row.
LEMMA WriterEnds ==
    ASSUME Solo, StoreStill, WriterFrame(Idle), NEW s \in Sources, NEW row \in SourceRow,
           src' = [src EXCEPT ![s] = row], RowFits(s, row)
    PROVE  WriterInv'
<1>1. AloneInv' /\ job'[Writer] = Idle
  BY WriterAlone DEF Solo, WriterInv
<1>2. LiveStill /\ StoreInv'
  BY StillLive DEF Solo, WriterInv
<1>3. FoundInv'
  BY <1>2, RowFound DEF Solo, WriterInv, WriterFrame, Steady
<1>4. BuildInv(job[Writer])' /\ TextInv(job[Writer])'
  <2>1. job'[Writer].pc = "idle"
    BY <1>1 DEF Idle
  <2> QED BY <2>1 DEF BuildInv, TextInv, Untabled, Filling, Unwritten, Rewriting
<1> QED BY <1>1, <1>2, <1>3, <1>4 DEF WriterInv

\* The writer ends its job and writes nothing.
LEMMA WriterStops ==
    ASSUME Solo, StoreStill, WriterFrame(Idle), src' = src
    PROVE  WriterInv'
<1>1. AloneInv' /\ job'[Writer] = Idle
  BY WriterAlone DEF Solo, WriterInv
<1>2. LiveStill /\ StoreInv'
  BY StillLive DEF Solo, WriterInv
<1>3. FoundInv'
  BY <1>2, SameFound DEF Solo, WriterInv, WriterFrame, Steady
<1>4. BuildInv(job[Writer])' /\ TextInv(job[Writer])'
  <2>1. job'[Writer].pc = "idle"
    BY <1>1 DEF Idle
  <2> QED BY <2>1 DEF BuildInv, TextInv, Untabled, Filling, Unwritten, Rewriting
<1> QED BY <1>1, <1>2, <1>3, <1>4 DEF WriterInv

\* The text of a job whose source keeps its chunks, and search its answer.
LEMMA StillText ==
    ASSUME LiveStill, NEW j, TextInv(j), src'[j.s].ver = src[j.s].ver,
           src'[j.s].st = src[j.s].st \/ src'[j.s].st = "parsing"
    PROVE  TextInv(j)'
<1>1. Findable(j.s)' <=> Findable(j.s)
  BY StillFound
<1>2. Live' = Live
  BY DEF LiveStill
<1> QED BY <1>1, <1>2 DEF TextInv, Present, RowsOf

\* The writer goes on with job j; the store is as it was.
LEMMA WriterGoesOn ==
    ASSUME Solo, StoreStill, NEW j, WriterFrame(j), FoundInv', BuildInv(j), TextInv(j)'
    PROVE  WriterInv'
<1>1. AloneInv' /\ job'[Writer] = j
  BY WriterAlone DEF Solo, WriterInv
<1>2. LiveStill /\ StoreInv' /\ BuildInv(j)'
  BY StillLive DEF Solo, WriterInv
<1>3. BuildInv(job[Writer])' /\ TextInv(job[Writer])'
  BY <1>1, <1>2
<1> QED BY <1>1, <1>2, <1>3 DEF WriterInv

-----------------------------------------------------------------------------
(* The steps of an ingest that leave the store as it is.                    *)

\* What the steps of an ingest that runs rely on.
LEMMA IngestAt ==
    ASSUME Solo, up = "up", job["ingest"].pc # "idle"
    PROVE  /\ Writer = "ingest" /\ lock = "ingest" /\ "ingest" \in Actors
           /\ job["ingest"] \in Job /\ job["ingest"].s \in Sources
           /\ src[job["ingest"].s] \in SourceRow
           /\ BuildInv(job["ingest"]) /\ TextInv(job["ingest"])
<1>1. Writer = "ingest"
  BY ActorsDistinct DEF Solo, WriterInv, AloneInv
<1>2. lock = "ingest"
  BY <1>1 DEF Solo, WriterInv, AloneInv
<1>3. job["ingest"].s \in Sources
  BY <1>1, WriterJob DEF Solo
<1> QED BY <1>1, <1>2, <1>3, WriterJob, ActorsDistinct DEF Solo, WriterInv

\* The ingest ends: what it writes on the sources row.
LEMMA IngestEndKeeps ==
    ASSUME Solo, up = "up", job["ingest"].pc # "idle", Steady, UNCHANGED <<storeVars, model>>,
           Leave("ingest"), NEW row \in SourceRow, RowFits(job["ingest"].s, row),
           src' = [src EXCEPT ![job["ingest"].s] = row]
    PROVE  WriterInv'
<1> DEFINE s == job["ingest"].s
<1>1. /\ Writer = "ingest" /\ lock = "ingest" /\ s \in Sources
  BY IngestAt
<1>2. src \in [Sources -> SourceRow]
  BY WriterJob DEF Solo
<1>3. \A x \in Sources : src'[x].trash = src[x].trash
  BY <1>1, <1>2 DEF RowFits
<1>4. Idle.pc = "idle"
  BY DEF Idle
<1>5. WriterFrame(Idle)
  BY <1>1, <1>3, <1>4 DEF WriterFrame, Leave
<1> HIDE DEF s
<1> QED BY <1>1, <1>5, WriterEnds DEF StoreStill, s

\* An ingest ends: with new vectors, without them, or with an error.
LEMMA IngestEndSteps ==
    ASSUME Solo, \/ IngestMissing \/ IngestUnchanged \/ IngestCancelled \/ IngestParkStatus
                 \/ IngestEmpty \/ IngestFinish \/ IngestFail
    PROVE  WriterInv'
<1> DEFINE j0 == job["ingest"]
           s == job["ingest"].s
<1>0. up = "up" /\ j0.pc # "idle"
  BY DEF IngestMissing, IngestUnchanged, IngestCancelled, IngestParkStatus, IngestEmpty,
     IngestFinish, IngestFail, At
<1>1. /\ Writer = "ingest" /\ lock = "ingest" /\ s \in Sources /\ src[s] \in SourceRow
      /\ j0 \in Job /\ BuildInv(j0) /\ TextInv(j0)
  BY <1>0, IngestAt
<1>2. CASE IngestMissing
  <2>1. Idle.pc = "idle"
    BY DEF Idle
  <2>2. WriterFrame(Idle) /\ StoreStill /\ src' = src
    BY <1>0, <1>1, <1>2, <2>1 DEF IngestMissing, WriterFrame, Leave, StoreStill
  <2> QED BY <2>2, WriterStops
<1>3. CASE IngestUnchanged
  <2>1. RowFits(s, src[s])
    BY DEF RowFits
  <2> QED BY <1>0, <1>1, <1>3, <2>1, IngestEndKeeps DEF IngestUnchanged, IngestOk
<1>4. CASE IngestCancelled
  <2> DEFINE row == [src[s] EXCEPT !.st = "queued"]
  <2>1. row \in SourceRow /\ row.st = "queued" /\ row.trash = src[s].trash
    BY <1>1 DEF SourceRow, SourceStatus
  <2>2. src' = [src EXCEPT ![s] = row]
    BY <1>4 DEF IngestCancelled
  <2> HIDE DEF row
  <2>3. RowFits(s, row)
    BY <2>1 DEF RowFits
  <2> QED BY <1>0, <1>4, <2>1, <2>2, <2>3, IngestEndKeeps DEF IngestCancelled, storeVars
<1>5. CASE IngestParkStatus
  <2> DEFINE row == [src[s] EXCEPT !.st = "needs_js"]
  <2>1. row \in SourceRow /\ row.st = "needs_js" /\ row.trash = src[s].trash
    BY <1>1 DEF SourceRow, SourceStatus
  <2>2. /\ src' = [src EXCEPT ![s] = row] /\ Leave("ingest") /\ Steady
        /\ UNCHANGED <<storeVars, model>>
    BY <1>5 DEF IngestParkStatus, IngestOk
  <2> HIDE DEF row
  <2>3. RowFits(s, row)
    BY <2>1 DEF RowFits
  <2> QED BY <1>0, <2>1, <2>2, <2>3, IngestEndKeeps
<1>6. CASE IngestEmpty
  <2> DEFINE row == [src[s] EXCEPT !.st = "indexed", !.hash = j0.key]
  <2>1. row \in SourceRow
    <3>1. j0.key \in 0 .. MaxHash
      BY <1>1 DEF Job
    <3> QED BY <1>1, <3>1 DEF SourceRow, SourceStatus
  <2>2. row.st = "indexed" /\ row.chunks = FALSE /\ row.trash = src[s].trash
    BY <1>1, <1>6 DEF IngestEmpty, SourceRow
  <2>3. /\ src' = [src EXCEPT ![s] = row] /\ Leave("ingest") /\ Steady
        /\ UNCHANGED <<storeVars, model>>
    BY <1>6 DEF IngestEmpty, IngestOk
  <2> HIDE DEF row
  <2>4. RowFits(s, row)
    BY <2>2 DEF RowFits
  <2> QED BY <1>0, <2>1, <2>3, <2>4, IngestEndKeeps
<1>7. CASE IngestFinish
  <2> DEFINE row == [src[s] EXCEPT !.st = "indexed", !.hash = j0.key]
  <2>1. row \in SourceRow
    <3>1. j0.key \in 0 .. MaxHash
      BY <1>1 DEF Job
    <3> QED BY <1>1, <3>1 DEF SourceRow, SourceStatus
  <2>2. row.st = "indexed" /\ row.ver = src[s].ver /\ row.trash = src[s].trash
    BY <1>1 DEF SourceRow
  <2>3. /\ src' = [src EXCEPT ![s] = row] /\ Leave("ingest") /\ Steady
        /\ UNCHANGED <<storeVars, model>>
    BY <1>7 DEF IngestFinish, IngestOk
  <2>4. Findable(s)
    BY <1>1, <1>7 DEF IngestFinish, At, TextInv
  <2> HIDE DEF row
  <2>5. RowFits(s, row)
    BY <2>2, <2>4 DEF RowFits
  <2> QED BY <1>0, <2>1, <2>3, <2>5, IngestEndKeeps
<1>8. CASE IngestFail
  <2> DEFINE row == [src[s] EXCEPT !.st = "error"]
  <2>1. row \in SourceRow /\ row.st = "error" /\ row.trash = src[s].trash
    BY <1>1 DEF SourceRow, SourceStatus
  <2>2. /\ src' = [src EXCEPT ![s] = row] /\ Leave("ingest") /\ Steady
        /\ UNCHANGED <<storeVars, model>>
    BY <1>8 DEF IngestFail
  <2> HIDE DEF row
  <2>3. RowFits(s, row)
    BY <2>1 DEF RowFits
  <2> QED BY <1>0, <2>1, <2>2, <2>3, IngestEndKeeps
<1> QED BY <1>2, <1>3, <1>4, <1>5, <1>6, <1>7, <1>8

\* An ingest takes the lock.
LEMMA IngestAcquireKeeps ==
    ASSUME Solo, NEW s \in Sources, IngestAcquire(s)
    PROVE  WriterInv'
<1>1. Writer = "ingest"
  BY WriterActor DEF IngestAcquire, Solo, WriterInv, AloneInv
<1>2. PICK j : j = [Idle EXCEPT !.pc = "load", !.s = s]
  OBVIOUS
<1>3. j.pc = "load" /\ j.s = s
  BY <1>2 DEF Idle
<1>4. WriterFrame(j)
  BY <1>1, <1>2, <1>3 DEF IngestAcquire, WriterFrame
<1>5. BuildInv(j)
  BY <1>3 DEF BuildInv, Untabled, Filling, Rewriting
<1>6. TextInv(j)'
  BY <1>3 DEF TextInv, Unwritten, Rewriting
<1>7. FoundInv'
  BY SameFound, StillLive DEF IngestAcquire, Steady, StoreStill, Solo, WriterInv
<1> QED BY <1>4, <1>5, <1>6, <1>7, WriterGoesOn DEF IngestAcquire, StoreStill

\* A running ingest goes on with job j, and writes its sources row.
LEMMA IngestGoesOn ==
    ASSUME Solo, up = "up", job["ingest"].pc # "idle", Steady, UNCHANGED <<storeVars, model, lock>>,
           NEW j, job' = [job EXCEPT !["ingest"] = j],
           NEW row \in SourceRow, RowFits(job["ingest"].s, row),
           src' = [src EXCEPT ![job["ingest"].s] = row], BuildInv(j), TextInv(j)'
    PROVE  WriterInv'
<1> DEFINE s == job["ingest"].s
<1>1. /\ Writer = "ingest" /\ lock = "ingest" /\ s \in Sources
  BY IngestAt
<1>2. src \in [Sources -> SourceRow]
  BY WriterJob DEF Solo
<1>3. \A x \in Sources : src'[x].trash = src[x].trash
  BY <1>1, <1>2 DEF RowFits
<1>4. WriterFrame(j)
  BY <1>1, <1>3 DEF WriterFrame
<1> HIDE DEF s
<1>5. FoundInv'
  BY <1>1, RowFound, StillLive DEF Solo, WriterInv, StoreStill, Steady, s
<1> QED BY <1>1, <1>4, <1>5, WriterGoesOn DEF StoreStill

\* An ingest writes its row and goes on.
LEMMA IngestRowSteps ==
    ASSUME Solo, \/ IngestParkRows \/ IngestParse \/ IngestChunks \/ IngestReset
                 \/ IngestEmbed
    PROVE  WriterInv'
<1> DEFINE j0 == job["ingest"]
           s == job["ingest"].s
<1>0. up = "up" /\ j0.pc # "idle"
  BY DEF IngestParkRows, IngestParse, IngestChunks, IngestReset, IngestEmbed, At
<1>1. /\ Writer = "ingest" /\ lock = "ingest" /\ s \in Sources /\ src[s] \in SourceRow
      /\ j0 \in Job /\ BuildInv(j0) /\ TextInv(j0) /\ src \in [Sources -> SourceRow]
  BY <1>0, IngestAt, WriterJob DEF Solo
<1>2. CASE IngestParkRows
  <2> DEFINE row == [src[s] EXCEPT !.chunks = FALSE]
  <2>1. /\ row \in SourceRow /\ row.chunks = FALSE /\ row.trash = src[s].trash
        /\ row.st = src[s].st
    BY <1>1 DEF SourceRow
  <2>2. src' = [src EXCEPT ![s] = row] /\ Steady /\ UNCHANGED <<storeVars, model, lock>>
    BY <1>2 DEF IngestParkRows
  <2>3. PICK j : j = [j0 EXCEPT !.pc = "park_status"]
    OBVIOUS
  <2>4. j.pc = "park_status" /\ j.s = s /\ job' = [job EXCEPT !["ingest"] = j]
    BY <1>1, <1>2, <2>3 DEF IngestParkRows, Goto, Job
  <2>5. BuildInv(j)
    BY <2>4 DEF BuildInv, Untabled, Filling, Rewriting
  <2>6. src'[s].st = src[s].st /\ Present(s)
    BY <1>1, <1>2, <2>1, <2>2 DEF IngestParkRows, At, TextInv
  <2> HIDE DEF row, s
  <2>7. RowFits(s, row)
    BY <2>1 DEF RowFits
  <2>8. TextInv(j)'
    BY <2>4, <2>6 DEF TextInv, Unwritten, Rewriting, Present
  <2> QED BY <1>0, <2>1, <2>2, <2>4, <2>5, <2>7, <2>8, IngestGoesOn DEF s
<1>3. CASE IngestParse
  <2> DEFINE row == [src[s] EXCEPT !.st = "parsing"]
  <2>1. row \in SourceRow /\ row.st = "parsing" /\ row.trash = src[s].trash
    BY <1>1 DEF SourceRow, SourceStatus
  <2>2. src' = [src EXCEPT ![s] = row] /\ Steady /\ UNCHANGED <<storeVars, model, lock>>
    BY <1>3 DEF IngestParse
  <2>3. PICK h \in 1 .. MaxHash :
          job' = [job EXCEPT !["ingest"].pc = "wipe", !["ingest"].key = h,
                             !["ingest"].t = <<model, 0>>]
    BY <1>3 DEF IngestParse
  <2>4. PICK j : j = [j0 EXCEPT !.pc = "wipe", !.key = h, !.t = <<model, 0>>]
    OBVIOUS
  <2>5. j.pc = "wipe" /\ j.s = s /\ j.t = <<model, 0>> /\ job' = [job EXCEPT !["ingest"] = j]
    BY <1>1, <2>3, <2>4 DEF Job
  <2>6. BuildInv(j)
    BY <2>5 DEF BuildInv, Untabled, Filling, Rewriting
  <2>7. src'[s].st = "parsing"
    BY <1>1, <2>1, <2>2
  <2> HIDE DEF row, s
  <2>8. RowFits(s, row)
    BY <2>1 DEF RowFits
  <2>9. TextInv(j)'
    BY <2>5, <2>7 DEF TextInv, Unwritten, Rewriting
  <2> QED BY <1>0, <2>1, <2>2, <2>5, <2>6, <2>8, <2>9, IngestGoesOn DEF s
<1>4. CASE IngestChunks
  <2>1. PICK b \in BOOLEAN :
          src' = [src EXCEPT ![s].chunks = b, ![s].ver = src[s].ver + 1, ![s].ctx = FALSE]
    BY <1>4 DEF IngestChunks
  <2>2. src[s].ver + 1 \in 0 .. MaxVer
    <3>1. src[s].ver < MaxVer
      BY <1>4 DEF IngestChunks
    <3>2. src[s].ver \in 0 .. MaxVer
      BY <1>1 DEF SourceRow
    <3>3. PICK v : v = src[s].ver
      OBVIOUS
    <3>4. v + 1 \in 0 .. MaxVer
      BY ONLY <3>1, <3>2, <3>3, BoundsAssumption
    <3> QED BY <3>3, <3>4
  <2>3. PICK row : row = [src[s] EXCEPT !.chunks = b, !.ver = src[s].ver + 1, !.ctx = FALSE]
    OBVIOUS
  <2>4. row \in SourceRow /\ row.st = src[s].st /\ row.trash = src[s].trash
    BY <1>1, <2>2, <2>3 DEF SourceRow
  <2>5. src' = [src EXCEPT ![s] = row] /\ src'[s] = row
    BY <1>1, <2>1, <2>3
  <2>6. Steady /\ UNCHANGED <<storeVars, model, lock>> /\ j0.pc = "chunks"
    BY <1>4 DEF IngestChunks, At
  <2>7. PICK j : j = [j0 EXCEPT !.pc = "reset"]
    OBVIOUS
  <2>8. /\ j.pc = "reset" /\ j.s = s /\ j.t = j0.t /\ job' = [job EXCEPT !["ingest"] = j]
    BY <1>1, <1>4, <2>7 DEF IngestChunks, Goto, Job
  <2>9. /\ j.t = <<model, 0>> /\ Live \cap RowsOf(s) = {}
        /\ src[s].st \in {"parsing", "embedding"}
    BY <1>1, <2>6, <2>8 DEF BuildInv, TextInv, Rewriting
  <2>10. BuildInv(j)
    BY <2>8, <2>9 DEF BuildInv, Untabled, Filling, Rewriting
  <2>11. Live' = Live
    BY <2>6, StillLive DEF StoreStill, LiveStill
  <2> HIDE DEF s
  <2>12. RowFits(s, row)
    BY <2>4, <2>9 DEF RowFits
  <2>13. TextInv(j)'
    BY <2>4, <2>5, <2>8, <2>9, <2>11 DEF TextInv, Unwritten, Rewriting, RowsOf
  <2> QED BY <1>0, <2>4, <2>5, <2>6, <2>8, <2>10, <2>12, <2>13, IngestGoesOn DEF s
<1>5. CASE IngestReset
  <2>1. PICK row : row = [src[s] EXCEPT !.enr = "none"]
    OBVIOUS
  <2>2. /\ row \in SourceRow /\ row.st = src[s].st /\ row.trash = src[s].trash
        /\ row.ver = src[s].ver
    BY <1>1, <2>1 DEF SourceRow, EnrichmentStatus
  <2>3. src' = [src EXCEPT ![s] = row] /\ src'[s] = row
    BY <1>1, <1>5, <2>1 DEF IngestReset
  <2>4. Steady /\ UNCHANGED <<storeVars, model, lock>> /\ j0.pc = "reset"
    BY <1>5 DEF IngestReset, At
  <2>5. PICK j : j = [j0 EXCEPT !.pc = "embed"]
    OBVIOUS
  <2>6. /\ j.pc = "embed" /\ j.s = s /\ j.t = j0.t /\ job' = [job EXCEPT !["ingest"] = j]
    BY <1>1, <1>5, <2>5 DEF IngestReset, Goto, Job
  <2>7. /\ j.t = <<model, 0>> /\ Live \cap RowsOf(s) = {}
        /\ src[s].st \in {"parsing", "embedding"}
    BY <1>1, <2>4, <2>6 DEF BuildInv, TextInv, Rewriting
  <2>8. BuildInv(j)
    BY <2>6, <2>7 DEF BuildInv, Untabled, Filling, Rewriting
  <2>9. Live' = Live
    BY <2>4, StillLive DEF StoreStill, LiveStill
  <2> HIDE DEF s
  <2>10. RowFits(s, row)
    BY <2>2, <2>7 DEF RowFits
  <2>11. TextInv(j)'
    BY <2>2, <2>3, <2>6, <2>7, <2>9 DEF TextInv, Unwritten, Rewriting, RowsOf
  <2> QED BY <1>0, <2>2, <2>3, <2>4, <2>6, <2>8, <2>10, <2>11, IngestGoesOn DEF s
<1>6. CASE IngestEmbed
  <2> DEFINE row == [src[s] EXCEPT !.st = "embedding"]
             v == src[s].ver
             pc == IF s \in PdfSources THEN "sweep" ELSE "ensure"
  <2>2. /\ row \in SourceRow /\ row.st = "embedding" /\ row.trash = src[s].trash
        /\ row.ver = v /\ v \in 0 .. MaxVer
    BY <1>1 DEF SourceRow, SourceStatus
  <2>3. src' = [src EXCEPT ![s] = row] /\ Steady /\ UNCHANGED <<storeVars, model, lock>>
    BY <1>6 DEF IngestEmbed
  <2>4. PICK j : j = [j0 EXCEPT !.new = {RawRow(s, v)}, !.pc = pc]
    OBVIOUS
  <2>5. /\ j.pc = pc /\ j.s = s /\ j.t = j0.t /\ j.new = {RawRow(s, v)}
        /\ job' = [job EXCEPT !["ingest"] = j]
    BY <1>1, <1>6, <2>4 DEF IngestEmbed, Job
  <2>6. j.t = <<model, 0>> /\ Live \cap RowsOf(s) = {}
    BY <1>1, <1>6, <2>5 DEF IngestEmbed, At, BuildInv, TextInv, Rewriting
  <2>7. BuildInv(j)
    BY <2>5, <2>6 DEF BuildInv, Untabled, Filling, Rewriting
  <2>8. src'[s].st = "embedding" /\ src'[s].ver = v
    BY <1>1, <2>2, <2>3
  <2>9. RawRow(s, v) \in Row /\ RawRow(s, v).src = s /\ RawRow(s, v).ver = v
    BY <1>1, <2>2, RowType DEF RawRow
  <2>10. Live' = Live
    BY <2>3, StillLive DEF StoreStill, LiveStill
  <2> HIDE DEF row, s, v
  <2>11. RowFits(s, row)
    BY <2>2 DEF RowFits
  <2>12. TextInv(j)'
    BY <2>5, <2>6, <2>8, <2>9, <2>10 DEF TextInv, Unwritten, Rewriting, RowsOf
  <2> QED BY <1>0, <2>2, <2>3, <2>5, <2>7, <2>11, <2>12, IngestGoesOn DEF s
<1> QED BY <1>2, <1>3, <1>4, <1>5, <1>6

-----------------------------------------------------------------------------
(* Building a table beside the active one, flipping it, dropping the old.   *)

\* The job that builds is the writer's.
LEMMA WriterAt ==
    ASSUME Solo, NEW a \in Actors, up = "up", job[a].pc # "idle"
    PROVE  /\ a = Writer /\ job[a] \in Job /\ job[a].s \in Sources
           /\ job[a].pc \notin Untabled => job[a].t \in TableIds /\ job[a].t[1] = model
           /\ BuildInv(job[a]) /\ TextInv(job[a])
           /\ Writer = "ingest" => lock = "ingest"
           /\ purge.pc \notin {"drop", "vectors"}
<1>1. a = Writer
  BY DEF Solo, WriterInv, AloneInv
<1>2. BuildInv(job[a]) /\ TextInv(job[a])
  BY <1>1 DEF Solo, WriterInv
<1>3. purge.pc \notin {"drop", "vectors"} /\ (Writer = "ingest" => lock = "ingest")
  BY <1>1, WriterActor DEF Solo, WriterInv, AloneInv
<1> QED BY <1>1, <1>2, <1>3, WriterJob DEF Solo, BuildInv

\* A step of the writer on the store.
LEMMA WriterBuilds ==
    ASSUME Solo, NEW a \in Actors, up = "up", job[a].pc # "idle", Steady,
           UNCHANGED <<model, src, waiting>>, lock' = lock \/ a = "enrich",
           NEW j, job' = [job EXCEPT ![a] = j],
           StoreInv', BuildInv(j)', TextInv(j)', FoundInv'
    PROVE  WriterInv'
<1>1. a = Writer /\ (Writer = "ingest" => lock = "ingest")
  BY WriterAt
<1>2. WriterFrame(j)
  BY <1>1 DEF WriterFrame
<1>3. AloneInv' /\ job'[Writer] = j
  BY <1>2, WriterAlone DEF Solo, WriterInv
<1>4. BuildInv(job[Writer])' /\ TextInv(job[Writer])'
  BY <1>3
<1> QED BY <1>3, <1>4 DEF WriterInv

\* A step of the writer on tables that search does not read.
LEMMA WriterBuildsApart ==
    ASSUME Solo, NEW a \in Actors, up = "up", job[a].pc # "idle", Steady,
           UNCHANGED <<model, src, waiting>>, lock' = lock \/ a = "enrich",
           NEW j, job' = [job EXCEPT ![a] = j],
           WithStatus("active")' = WithStatus("active"),
           \A t \in WithStatus("active") : t \in phys' <=> t \in phys,
           \A t \in WithStatus("active") : rows'[t] = rows[t],
           StoreInv', BuildInv(j)', TextInv(j)
    PROVE  WriterInv'
<1>1. LiveStill
  BY SearchKeeps DEF LiveStill, Live
<1>2. FoundInv'
  BY <1>1, SameFound DEF Solo, WriterInv, Steady
<1>3. TextInv(j)'
  BY <1>1, StillText
<1> QED BY <1>2, <1>3, WriterBuilds

\* A name that no table and no row has.
LEMMA PickKeeps ==
    ASSUME Solo, NEW a \in Actors, PickGen(a)
    PROVE  WriterInv'
<1> DEFINE j0 == job[a]
<1>1. /\ up = "up" /\ j0.pc = "pick" /\ Steady /\ UNCHANGED <<storeVars, model, src, lock, waiting>>
  BY DEF PickGen, At, Internal
<1>2. /\ a = Writer /\ j0 \in Job /\ j0.t \in TableIds /\ j0.t[1] = model /\ TextInv(j0)
  BY <1>1, WriterAt DEF Untabled
<1>3. PICK g \in 1 .. MaxGen :
        /\ IsNextGen(j0.t[1], g)
        /\ job' = [job EXCEPT ![a].t = <<@[1], g>>, ![a].pc = "create"]
  BY DEF PickGen
<1>4. PICK j : j = [j0 EXCEPT !.t = <<j0.t[1], g>>, !.pc = "create"]
  OBVIOUS
<1>5. /\ j.pc = "create" /\ j.t = <<model, g>> /\ j.s = j0.s /\ j.new = j0.new
      /\ job' = [job EXCEPT ![a] = j]
  BY <1>2, <1>3, <1>4 DEF Job
<1>6. g \in Nat /\ g # 0 /\ <<model, g>> \in TableIds
  BY <1>2, WriterJob, BoundsAssumption DEF Solo, TableIds
<1>7. <<model, g>> \notin Registered /\ <<model, g>> \notin phys
  BY <1>2, <1>3 DEF IsNextGen, FreeGen
<1>8. rows[<<model, g>>] = {}
  BY <1>6, <1>7 DEF Solo, WriterInv, StoreInv
<1>9. BuildInv(j)
  BY <1>5, <1>6, <1>7, <1>8 DEF BuildInv, Untabled, Filling, Rewriting
<1>10. TextInv(j)
  BY <1>1, <1>2, <1>5 DEF TextInv, Unwritten, Rewriting
<1>11. StoreStill /\ LiveStill /\ BuildInv(j)' /\ StoreInv'
  BY <1>1, <1>9, StillLive DEF StoreStill, Solo, WriterInv
<1>12. TextInv(j)'
  BY <1>1, <1>10, <1>11, StillText
<1>13. FoundInv'
  BY <1>1, <1>11, SameFound DEF Solo, WriterInv, Steady
<1> QED BY <1>1, <1>5, <1>11, <1>12, <1>13, WriterBuilds

\* The new table is created, then registered: search reads neither.
LEMMA CreateRegisterKeeps ==
    ASSUME Solo, NEW a \in Actors, CreateTable(a) \/ RegisterBuilding(a)
    PROVE  WriterInv'
<1> DEFINE j0 == job[a]
           t == job[a].t
<1>1. /\ up = "up" /\ j0.pc \in {"create", "register"} /\ Steady
      /\ UNCHANGED <<model, src, lock, waiting>>
  BY DEF CreateTable, RegisterBuilding, At, Internal
<1>2. /\ a = Writer /\ j0 \in Job /\ t \in TableIds /\ t[1] = model /\ BuildInv(j0) /\ TextInv(j0)
      /\ StoreTypeOK
  BY <1>1, WriterAt, WriterJob DEF Untabled, Solo
<1>3. t \notin Registered /\ t[2] # 0 /\ rows[t] = {}
  BY <1>1, <1>2 DEF BuildInv
<1>4. t \notin WithStatus("active") /\ t \notin WithStatus("stale")
      /\ t \notin WithStatus("building")
  BY <1>3 DEF Registered, WithStatus, RowStatus
<1>5. CASE CreateTable(a)
  <2>1. phys' = phys \cup {t} /\ UNCHANGED <<rows, registry>>
    BY <1>5 DEF CreateTable, CreateEmpty
  <2>2. PICK j : j = [j0 EXCEPT !.pc = "register"]
    OBVIOUS
  <2>3. /\ j.pc = "register" /\ j.t = t /\ j.s = j0.s /\ j.new = j0.new
        /\ job' = [job EXCEPT ![a] = j]
    BY <1>2, <1>5, <2>2 DEF CreateTable, Goto, Job
  <2>4. (\A st : WithStatus(st)' = WithStatus(st)) /\ Registered' = Registered
    BY <2>1 DEF WithStatus, Registered
  <2>5. StoreInv'
    BY <1>1, <2>1, <2>4 DEF StoreInv, Solo, WriterInv
  <2>6. BuildInv(j)'
    BY <1>1, <1>2, <1>3, <2>1, <2>3, <2>4 DEF BuildInv, Untabled, Filling, Rewriting
  <2>7. TextInv(j)
    BY <1>1, <1>2, <2>3 DEF TextInv, Unwritten, Rewriting
  <2>8. \A u \in WithStatus("active") : u \in phys' <=> u \in phys
    BY <1>4, <2>1
  <2> QED BY <1>1, <2>1, <2>3, <2>4, <2>5, <2>6, <2>7, <2>8, WriterBuildsApart
<1>6. CASE RegisterBuilding(a)
  <2>1. registry' = registry \cup {<<t, "building">>} /\ UNCHANGED <<rows, phys>>
    BY <1>6 DEF RegisterBuilding, Register
  <2>2. PICK j : j = [j0 EXCEPT !.pc = "seed"]
    OBVIOUS
  <2>3. /\ j.pc = "seed" /\ j.t = t /\ j.s = j0.s /\ j.new = j0.new
        /\ job' = [job EXCEPT ![a] = j]
    BY <1>2, <1>6, <2>2, WriterActor DEF RegisterBuilding, Goto, Job
  <2>4. t \in phys
    BY <1>2, <1>6 DEF RegisterBuilding, At, BuildInv
  <2>5. /\ WithStatus("active")' = WithStatus("active")
        /\ WithStatus("stale")' = WithStatus("stale")
        /\ WithStatus("building")' = WithStatus("building") \cup {t}
    BY <1>2, <2>1 DEF WithStatus
  <2>6. StoreInv'
    BY <1>1, <1>2, <1>3, <1>4, <2>1, <2>5 DEF StoreInv, Solo, WriterInv
  <2>7. BuildInv(j)'
    BY <1>1, <1>2, <1>3, <1>4, <2>1, <2>3, <2>4, <2>5 DEF BuildInv, Untabled, Filling, Rewriting
  <2>8. TextInv(j)
    BY <1>1, <1>2, <2>3 DEF TextInv, Unwritten, Rewriting
  <2> QED BY <1>1, <2>1, <2>3, <2>5, <2>6, <2>7, <2>8, WriterBuildsApart
<1> QED BY <1>5, <1>6

\* What a search reads after a step that leaves one active table.
LEMMA LiveTableNext ==
    ASSUME NEW t, WithStatus("active")' = {t}, t \in phys', t[1] = model'
    PROVE  Searchable(model)' = rows'[t] /\ Live' = rows'[t]
<1>1. Open(model)' = {t}
  BY DEF Open, ActiveTables
<1>2. Searchable(model)' = rows'[t]
  BY <1>1 DEF Searchable
<1> QED BY <1>2 DEF Live

\* The building table is filled: first with what search reads of the other
\* sources, then with the new vectors of the job's own.
LEMMA FillKeeps ==
    ASSUME Solo, NEW a \in Actors, Seed(a) \/ Populate(a),
           NEW j0, j0 = job[a], NEW t, t = job[a].t, NEW s, s = job[a].s
    PROVE  WriterInv'
<1>1. /\ up = "up" /\ j0.pc \in {"seed", "add"} /\ Steady
      /\ UNCHANGED <<model, src, lock, waiting, registry>>
  BY DEF Seed, Populate, At, Internal
<1>2. /\ a = Writer /\ j0 \in Job /\ t \in TableIds /\ t[1] = model /\ BuildInv(j0) /\ TextInv(j0)
      /\ StoreTypeOK /\ StoreInv
  BY <1>1, WriterAt, WriterJob DEF Untabled, Solo, WriterInv
<1>3. /\ t \in WithStatus("building") /\ t \notin WithStatus("stale") /\ t \in phys
      /\ t \notin WithStatus("active") /\ t[2] # 0
  BY <1>1, <1>2 DEF BuildInv, StoreInv, Filling
<1>4. Live = Searchable(model) /\ (Open(model) = {} => Live = {})
  BY DEF Live, Searchable
<1>5. PICK add : /\ phys' = phys /\ rows' = [rows EXCEPT ![t] = @ \cup add]
                 /\ j0.pc = "seed" => add = LiveBut(s)
                 /\ j0.pc = "add" => add = j0.new
  <2>1. CASE Seed(a) /\ Open(model) = {}
    <3>1. LiveBut(s) = {} /\ phys' = phys /\ rows' = rows /\ j0.pc = "seed"
      BY <1>2, <1>4, <2>1 DEF Seed, LiveBut, At
    <3>2. rows' = [rows EXCEPT ![t] = @ \cup {}]
      BY <1>2, <3>1 DEF StoreTypeOK
    <3> QED BY <3>1, <3>2
  <2>2. CASE Seed(a) /\ Open(model) # {}
    BY <1>2, <1>4, <2>2 DEF Seed, SeedFromActive, AddRows, LiveBut, At
  <2>3. CASE Populate(a)
    BY <2>3 DEF Populate, AddRows, At
  <2> QED BY <2>1, <2>2, <2>3
<1>6. PICK pc \in {"add", "flip", "lock"} : Goto(a, pc) /\ (pc = "add" <=> j0.pc = "seed")
  BY DEF Seed, Populate, At
<1>7. PICK j : j = [j0 EXCEPT !.pc = pc]
  OBVIOUS
<1>8. /\ j.pc = pc /\ j.t = t /\ j.s = s /\ j.new = j0.new /\ job' = [job EXCEPT ![a] = j]
  BY <1>2, <1>6, <1>7 DEF Goto, Job
<1>9. /\ rows'[t] = rows[t] \cup add /\ \A u \in TableIds : u # t => rows'[u] = rows[u]
  BY <1>2, <1>5 DEF StoreTypeOK
<1>10. \A st : WithStatus(st)' = WithStatus(st)
  BY <1>1 DEF WithStatus
<1>11. \A u \in WithStatus("active") : u \in TableIds /\ rows'[u] = rows[u]
  BY <1>3, <1>9 DEF WithStatus
<1>12. LiveStill
  BY <1>1, <1>5, <1>10, <1>11, SearchKeeps DEF LiveStill, Live
<1>13. StoreInv'
  <2>1. <<model, 0>> \in TableIds /\ t # <<model, 0>>
    BY <1>3, WriterJob DEF Solo
  <2>2. rows'[<<model, 0>>] = rows[<<model, 0>>]
    BY <1>9, <2>1
  <2>3. \A u \in TableIds : u \notin phys => rows'[u] = {}
    BY <1>2, <1>3, <1>9 DEF StoreInv
  <2> QED BY <1>1, <1>2, <1>5, <1>10, <2>2, <2>3 DEF StoreInv
<1>14. LiveBut(s)' = LiveBut(s)
  BY <1>12 DEF LiveStill, LiveBut, RowsOf
<1>15. BuildInv(j)'
  <2>1. j.pc = "add" => rows'[t] = LiveBut(s)
    BY <1>2, <1>5, <1>6, <1>8, <1>9 DEF BuildInv
  <2>2. j.pc \in {"lock", "flip"} => rows'[t] = LiveBut(s) \cup j.new
    BY <1>1, <1>2, <1>5, <1>6, <1>8, <1>9 DEF BuildInv
  <2> QED BY <1>1, <1>2, <1>3, <1>5, <1>6, <1>8, <1>10, <1>14, <2>1, <2>2
       DEF BuildInv, Untabled, Filling, Rewriting
<1>16. TextInv(j)
  BY <1>1, <1>2, <1>6, <1>8 DEF TextInv, Unwritten, Rewriting
<1> QED BY <1>1, <1>5, <1>8, <1>10, <1>11, <1>13, <1>15, <1>16, WriterBuildsApart

\* Search finds the new vectors of a present source in the place of its old ones.
LEMMA NewFound ==
    ASSUME TypeInv, FoundInv, UNCHANGED <<model, src, purge>>, ~Purged,
           NEW s \in Sources, Present(s), NEW new \in Row, new.src = s, new.ver = src[s].ver,
           Live' = LiveBut(s) \cup {new}
    PROVE  FoundInv' /\ Findable(s)'
<1>1. Searchable(model)' = LiveBut(s) \cup {new}
  BY DEF Live
<1>2. Live \subseteq Row
  BY SearchableType DEF Live, TypeInv, TypeOK
<1>3. \A r \in LiveBut(s) : r \in Live /\ r.src # s /\ r.src \in Sources
  BY <1>2 DEF LiveBut, RowsOf, Row
<1>4. Findable(s)'
  BY <1>1 DEF Findable
<1>5. \A r \in Live' : Present(r.src)'
  BY <1>3 DEF FoundInv, Present
<1>6. \A q, r \in Live' : q.src = r.src => q = r
  BY <1>3 DEF FoundInv
<1>7. ASSUME NoLoss, NEW x \in Sources, Shown(x)' PROVE Findable(x)'
  <2>1. CASE x = s
    BY <1>4, <2>1
  <2>2. CASE x # s
    <3>1. Findable(x)
      BY <1>7 DEF FoundInv, Shown
    <3>2. PICK r \in Live : r.src = x /\ r.ver = src[x].ver
      BY <3>1 DEF Findable, Live
    <3>3. r \in Searchable(model)'
      BY <1>1, <1>2, <2>2, <3>2 DEF LiveBut, RowsOf
    <3> QED BY <3>2, <3>3 DEF Findable
  <2> QED BY <2>1, <2>2
<1>8. NoLoss => \A x \in Sources : Shown(x)' => Findable(x)'
  BY <1>7
<1>9. ~Purged'
  BY DEF Purged
<1> QED BY <1>4, <1>5, <1>6, <1>8, <1>9 DEF FoundInv

\* The flip: search reads the new table, which holds the other sources' vectors
\* and the job's.
LEMMA FlipSolo ==
    ASSUME Solo, NEW a \in Actors, Flip(a),
           NEW j0, j0 = job[a], NEW t, t = job[a].t, NEW s, s = job[a].s
    PROVE  WriterInv'
<1>1. /\ up = "up" /\ j0.pc = "flip" /\ Steady /\ FlipTxn(t)
      /\ UNCHANGED <<model, src, lock, waiting, phys, rows>>
  BY DEF Flip, At, Internal
<1>2. /\ a = Writer /\ j0 \in Job /\ t \in TableIds /\ t[1] = model /\ BuildInv(j0) /\ TextInv(j0)
      /\ StoreTypeOK /\ StoreInv /\ s \in Sources /\ FoundInv /\ AloneInv
      /\ purge.pc \notin {"drop", "vectors"}
  BY <1>1, WriterAt, WriterJob DEF Untabled, Solo, WriterInv
<1>3. /\ t \in WithStatus("building") /\ t \notin WithStatus("stale") /\ t \in phys
      /\ t \notin WithStatus("active") /\ t[2] # 0 /\ rows[t] = LiveBut(s) \cup j0.new
  BY <1>1, <1>2 DEF BuildInv, StoreInv, Filling
<1>4. \A u \in WithStatus("active") : u \in TableIds /\ u[1] = model
  BY <1>2 DEF StoreInv, WithStatus
<1>5. ActiveTables(model) = WithStatus("active")
  BY <1>4 DEF ActiveTables
<1>6. /\ WithStatus("active")' = {t}
      /\ WithStatus("building")' = WithStatus("building") \ {t}
      /\ WithStatus("stale")' = WithStatus("stale") \cup WithStatus("active")
  <2>1. \A u \in TableIds :
          /\ <<u, "active">> \in registry' <=> u = t
          /\ <<u, "building">> \in registry' <=> <<u, "building">> \in registry /\ u # t
          /\ <<u, "stale">> \in registry'
               <=> <<u, "stale">> \in registry \/ u \in WithStatus("active")
    <3>1. \A u \in TableIds : <<u, "active">> \in registry => u[1] = t[1]
      BY <1>2, <1>4 DEF WithStatus
    <3>2. ActiveTables(t[1]) = WithStatus("active")
      BY <1>2, <1>5
    <3>3. \A u \in TableIds :
            /\ <<u, "active">> \in registry'
                 <=> u = t \/ (<<u, "active">> \in registry /\ u[1] # t[1])
            /\ <<u, "building">> \in registry' <=> <<u, "building">> \in registry /\ u # t
            /\ <<u, "stale">> \in registry'
                 <=> <<u, "stale">> \in registry \/ u \in ActiveTables(t[1])
      BY <1>1, <1>2, FlipTxnRows
    <3> QED BY <3>1, <3>2, <3>3
  <2>2. WithStatus("active")' = {t}
    BY <1>2, <2>1 DEF WithStatus
  <2>3. WithStatus("building")' = WithStatus("building") \ {t}
    BY <1>2, <2>1 DEF WithStatus
  <2>4. WithStatus("stale")' = WithStatus("stale") \cup WithStatus("active")
    BY <1>2, <2>1 DEF WithStatus
  <2> QED BY <2>2, <2>3, <2>4
<1>7. PICK j : j = [j0 EXCEPT !.old = ActiveTables(t[1]), !.pc = "drop"]
  OBVIOUS
<1>8. /\ j.pc = "drop" /\ j.old = WithStatus("active") /\ j.s = s /\ j.t = t
      /\ job' = [job EXCEPT ![a] = j]
  BY <1>2, <1>5, <1>7 DEF Flip, Job
<1>9. StoreInv'
  <2>1. \A r \in registry' : r[1][1] = model
    <3>1. \A r \in registry' : r \in registry \/ r[1] \in WithStatus("active") \/ r[1] = t
      BY <1>1, <1>2, <1>5 DEF FlipTxn
    <3> QED BY <1>2, <1>4, <3>1 DEF StoreInv
  <2> QED BY <1>1, <1>2, <1>3, <1>6, <2>1 DEF StoreInv
<1>11. Live' = LiveBut(s) \cup j0.new
  BY <1>1, <1>2, <1>3, <1>6, LiveTableNext
<1>12. PICK new \in Row : j0.new = {new} /\ new.src = s /\ new.ver = src[s].ver
  BY <1>1, <1>2 DEF TextInv, Unwritten, Rewriting
<1>13. Present(s)
  BY <1>1, <1>2, WriterActor DEF Present, TextInv, AloneInv
<1>14. FoundInv' /\ Findable(s)'
  BY <1>1, <1>2, <1>11, <1>12, <1>13, NewFound DEF Solo, Steady, Purged
<1>15. BuildInv(j)'
  BY <1>1, <1>2, <1>3, <1>6, <1>8, WriterJob DEF BuildInv, Untabled, Filling, Rewriting
<1>16. TextInv(j)'
  BY <1>1, <1>2, <1>8, <1>14 DEF TextInv, Unwritten, Rewriting
<1> QED BY <1>1, <1>8, <1>9, <1>14, <1>15, <1>16, WriterBuilds

\* Old tables are dropped, then their rows: search reads neither.
LEMMA DropSolo ==
    ASSUME Solo, NEW a \in Actors, DropStale(a) \/ DropStaleRow(a),
           NEW j0, j0 = job[a], NEW old, old = job[a].old
    PROVE  WriterInv'
<1>1. up = "up" /\ j0.pc \in {"drop", "drop_row"} /\ Steady /\ UNCHANGED <<model, src, waiting>>
  BY DEF DropStale, DropStaleRow, At, Internal
<1>2. /\ a = Writer /\ j0 \in Job /\ j0.t[1] = model /\ BuildInv(j0) /\ TextInv(j0)
      /\ StoreTypeOK /\ StoreInv
  BY <1>1, WriterAt, WriterJob DEF Untabled, Solo, WriterInv
<1>3. old \cap WithStatus("active") = {}
  BY <1>1, <1>2 DEF BuildInv
<1>4. <<model, 0>> \in TableIds
  BY WriterJob DEF Solo
<1>5. CASE DropStale(a)
  <2>1. /\ UNCHANGED <<registry, lock>> /\ phys' = phys \ old
        /\ rows' = [t \in TableIds |-> IF t \in old THEN {} ELSE rows[t]]
    BY <1>5 DEF DropStale, DropTables, Internal
  <2>2. PICK j : j = [j0 EXCEPT !.pc = "drop_row"]
    OBVIOUS
  <2>3. /\ j.pc = "drop_row" /\ j.t = j0.t /\ j.s = j0.s /\ j.old = old
        /\ job' = [job EXCEPT ![a] = j]
    BY <1>2, <1>5, <2>2 DEF DropStale, Goto, Job
  <2>4. \A st : WithStatus(st)' = WithStatus(st)
    BY <2>1 DEF WithStatus
  <2>5. \A u \in WithStatus("active") : (u \in phys' <=> u \in phys) /\ rows'[u] = rows[u]
    BY <1>3, <2>1 DEF WithStatus
  <2>6. StoreInv'
    BY <1>1, <1>2, <1>3, <1>4, <2>1, <2>4 DEF StoreInv
  <2>7. BuildInv(j)'
    BY <1>1, <1>2, <1>3, <2>3, <2>4 DEF BuildInv, Untabled, Filling, Rewriting
  <2>8. TextInv(j)
    BY <1>1, <1>2, <2>3 DEF TextInv, Unwritten, Rewriting
  <2> QED BY <1>1, <2>1, <2>3, <2>4, <2>5, <2>6, <2>7, <2>8, WriterBuildsApart
<1>6. CASE DropStaleRow(a)
  <2>1. /\ UNCHANGED <<phys, rows>> /\ registry' = {r \in registry : r[1] \notin old}
        /\ lock' = lock \/ a = "enrich"
    BY <1>6 DEF DropStaleRow, DeleteRowsByTable
  <2>2. PICK j : j = [j0 EXCEPT !.old = {}, !.pc = "finish"]
    OBVIOUS
  <2>3. /\ j.pc = "finish" /\ j.t = j0.t /\ j.s = j0.s
        /\ job' = [job EXCEPT ![a] = j]
    BY <1>2, <1>6, <2>2, WriterActor DEF DropStaleRow, Job
  <2>4. /\ WithStatus("active")' = WithStatus("active")
        /\ \A st : WithStatus(st)' \subseteq WithStatus(st)
    BY <1>3, <2>1 DEF WithStatus
  <2>5. StoreInv'
    BY <1>1, <1>2, <2>1, <2>4 DEF StoreInv
  <2>6. BuildInv(j)'
    BY <1>1, <1>2, <2>3 DEF BuildInv, Untabled, Filling, Rewriting
  <2>7. TextInv(j)
    BY <1>1, <1>2, <2>3 DEF TextInv, Unwritten, Rewriting
  <2> QED BY <1>1, <2>1, <2>3, <2>4, <2>5, <2>6, <2>7, WriterBuildsApart
<1> QED BY <1>5, <1>6

\* Every step of building and flipping.
LEMMA BuildSolo ==
    ASSUME Solo, NEW a \in Actors, Build(a)
    PROVE  WriterInv'
BY PickKeeps, CreateRegisterKeeps, FillKeeps, FlipSolo, DropSolo DEF Build

-----------------------------------------------------------------------------
(* The steps of a plain ingest, and of a purge, on the active table.        *)

\* drop_source on the active table: search loses the vectors of that source.
LEMMA DropLive ==
    ASSUME TypeInv, StoreInv, NEW C, NEW s, DropSource(C, s), UNCHANGED <<registry, model>>,
           WithStatus("active") # {} => model \in C
    PROVE  Live' = LiveBut(s) /\ StoreInv'
<1>0. StoreTypeOK /\ <<model, 0>> \in TableIds
  BY WriterJob
<1>1. /\ phys' = phys
      /\ \A t \in TableIds : rows'[t] = IF \E c \in C : t \in Open(c) THEN rows[t] \ RowsOf(s)
                                                                     ELSE rows[t]
  BY DEF DropSource
<1>2. (\A st : WithStatus(st)' = WithStatus(st)) /\ Open(model)' = Open(model)
  BY <1>1 DEF WithStatus, Open, ActiveTables
<1>3. \A t \in Open(model) : t \in TableIds /\ rows'[t] = rows[t] \ RowsOf(s)
  <2>1. Open(model) # {} => model \in C
    BY DEF Open, ActiveTables
  <2> QED BY <1>1, <2>1 DEF Open, ActiveTables, WithStatus
<1>4. Searchable(model)' = Searchable(model) \ RowsOf(s)
  <2>1. Searchable(model)' = UNION {rows'[t] : t \in Open(model)}
    BY <1>2 DEF Searchable
  <2> QED BY <1>3, <2>1 DEF Searchable
<1>5. Live' = LiveBut(s)
  BY <1>4 DEF Live, LiveBut
<1>6. StoreInv'
  <2>1. \A t \in TableIds : rows[t] = {} => rows'[t] = {}
    BY <1>1
  <2> QED BY <1>0, <1>1, <1>2, <2>1 DEF StoreInv
<1> QED BY <1>5, <1>6

\* Search still finds what it should when only s is lost to it.
LEMMA LostFound ==
    ASSUME TypeInv, FoundInv, UNCHANGED <<model, src>>, NEW s, Live' = LiveBut(s),
           purge' = purge \/ purge'.s = s, NoLoss => ~Shown(s)
    PROVE  FoundInv'
<1>1. Searchable(model)' = LiveBut(s) /\ LiveBut(s) \subseteq Live
  BY DEF Live, LiveBut
<1>2. \A r \in Live' : Present(r.src)'
  BY <1>1 DEF FoundInv, Present
<1>3. \A q, r \in Live' : q.src = r.src => q = r
  BY <1>1 DEF FoundInv
<1>4. Purged' => Live' \cap RowsOf(purge'.s) = {}
  BY <1>1 DEF FoundInv, LiveBut, Purged
<1>5. ASSUME NoLoss, NEW x \in Sources, Shown(x)' PROVE Findable(x)'
  <2>1. Shown(x) /\ x # s
    BY <1>5 DEF Shown
  <2>2. Findable(x)
    BY <1>5, <2>1 DEF FoundInv
  <2>3. PICK r \in Live : r.src = x /\ r.ver = src[x].ver
    BY <2>2 DEF Findable, Live
  <2>4. r \in LiveBut(s)
    BY <2>1, <2>3 DEF LiveBut, RowsOf
  <2> QED BY <1>1, <2>3, <2>4 DEF Findable
<1>6. NoLoss => \A x \in Sources : Shown(x)' => Findable(x)'
  BY <1>5
<1> QED BY <1>2, <1>3, <1>4, <1>6 DEF FoundInv, RowsOf

\* The ingest drops the old vectors of its source.
LEMMA WipeKeeps ==
    ASSUME Solo, IngestParkWipe \/ IngestWipe,
           NEW j0, j0 = job["ingest"], NEW s, s = job["ingest"].s
    PROVE  WriterInv'
<1>1. up = "up" /\ j0.pc \in {"load", "wipe"} /\ Steady
      /\ UNCHANGED <<model, src, waiting, lock, registry>>
  BY DEF IngestParkWipe, IngestWipe, At, Internal
<1>2. /\ "ingest" = Writer /\ "ingest" \in Actors /\ j0 \in Job /\ s \in Sources
      /\ BuildInv(j0) /\ TextInv(j0) /\ StoreInv /\ FoundInv /\ TypeInv
  BY <1>1, IngestAt DEF Solo, WriterInv
<1>3. j0.pc = "wipe" => j0.t = <<model, 0>> /\ src[s].st \in {"parsing", "embedding"}
  BY <1>2 DEF BuildInv, TextInv
<1>4. DropSource({model}, s)
  BY <1>3 DEF IngestParkWipe, IngestWipe, At
<1>5. Live' = LiveBut(s) /\ StoreInv'
  BY <1>1, <1>2, <1>4, DropLive
<1>6. NoLoss => ~Shown(s)
  BY <1>3 DEF IngestParkWipe, IngestWipe, At, NoLoss, Shown
<1>7. FoundInv'
  BY <1>1, <1>2, <1>5, <1>6, LostFound DEF Steady
<1>8. PICK pc \in {"park_rows", "chunks"} :
        /\ Goto("ingest", pc)
        /\ pc = "chunks" => j0.pc = "wipe"
        /\ pc = "park_rows" => Present(s)
  BY DEF IngestParkWipe, IngestWipe, At
<1>9. PICK j : j = [j0 EXCEPT !.pc = pc]
  OBVIOUS
<1>10. j.pc = pc /\ j.t = j0.t /\ j.s = s /\ job' = [job EXCEPT !["ingest"] = j]
  BY <1>2, <1>8, <1>9 DEF Goto, Job
<1>11. BuildInv(j)'
  BY <1>1, <1>3, <1>8, <1>10 DEF BuildInv, Untabled, Filling, Rewriting
<1>12. TextInv(j)'
  BY <1>1, <1>3, <1>5, <1>8, <1>10 DEF TextInv, Unwritten, Rewriting, LiveBut, RowsOf, Present
<1> QED BY <1>1, <1>2, <1>5, <1>7, <1>10, <1>11, <1>12, WriterBuilds

\* ensure_table finds or makes the active table, and registers it.
LEMMA EnsureSolo ==
    ASSUME Solo, IngestEnsureTable \/ IngestEnsureRow, NEW j0, j0 = job["ingest"]
    PROVE  WriterInv'
<1>1. up = "up" /\ j0.pc \in {"ensure", "ensure_row"} /\ Steady
      /\ UNCHANGED <<model, src, waiting, lock, rows>>
  BY DEF IngestEnsureTable, IngestEnsureRow, CreateEmpty, At, Internal
<1>2. /\ "ingest" = Writer /\ "ingest" \in Actors /\ j0 \in Job
      /\ BuildInv(j0) /\ TextInv(j0) /\ StoreInv /\ FoundInv /\ TypeInv
      /\ <<model, 0>> \in TableIds /\ StoreTypeOK
  BY <1>1, IngestAt, WriterJob DEF Solo, WriterInv
<1>3. j0.t = <<model, 0>>
  BY <1>1, <1>2 DEF BuildInv
<1>4. \A u \in WithStatus("active") : u \in TableIds /\ u[1] = model /\ u \in phys
  BY <1>2 DEF StoreInv, WithStatus
<1>5. ActiveTables(model) = WithStatus("active")
  BY <1>4 DEF ActiveTables
<1>6. ASSUME NEW t \in ActiveTables(model), IngestEnsureTable, CreateEmpty(t),
             job' = [job EXCEPT !["ingest"].t = t, !["ingest"].pc = "append"]
      PROVE  WriterInv'
  <2>1. UNCHANGED <<registry, phys>> /\ t \in WithStatus("active") /\ t[1] = model
    BY <1>4, <1>5, <1>6 DEF IngestEnsureTable, CreateEmpty
  <2>2. PICK j : j = [j0 EXCEPT !.t = t, !.pc = "append"]
    OBVIOUS
  <2>3. /\ j.pc = "append" /\ j.t = t /\ j.s = j0.s /\ j.new = j0.new
        /\ job' = [job EXCEPT !["ingest"] = j]
    BY <1>2, <1>6, <2>2 DEF Job
  <2>4. StoreStill
    BY <1>1, <2>1 DEF StoreStill, storeVars
  <2>5. BuildInv(j)
    BY <2>1, <2>3 DEF BuildInv, Untabled, Filling, Rewriting
  <2>6. j0.pc = "ensure"
    BY <1>6 DEF IngestEnsureTable, At
  <2>7. TextInv(j)
    BY <1>2, <2>3, <2>6 DEF TextInv, Unwritten, Rewriting
  <2>8. StoreInv' /\ BuildInv(j)' /\ LiveStill
    BY <1>2, <2>4, <2>5, StillLive
  <2>9. TextInv(j)' /\ FoundInv'
    BY <1>1, <1>2, <2>7, <2>8, StillText, SameFound DEF Steady
  <2> QED BY <1>1, <1>2, <2>3, <2>8, <2>9, WriterBuilds
<1>7. ASSUME ActiveTables(model) = {}, IngestEnsureTable, CreateEmpty(<<model, 0>>),
             Goto("ingest", "ensure_row")
      PROVE  WriterInv'
  <2>1. registry' = registry /\ phys' = phys \cup {<<model, 0>>} /\ WithStatus("active") = {}
    BY <1>5, <1>7 DEF IngestEnsureTable, CreateEmpty, Internal
  <2>2. PICK j : j = [j0 EXCEPT !.pc = "ensure_row"]
    OBVIOUS
  <2>3. /\ j.pc = "ensure_row" /\ j.t = <<model, 0>> /\ j.s = j0.s /\ j.new = j0.new
        /\ job' = [job EXCEPT !["ingest"] = j]
    BY <1>2, <1>3, <1>7, <2>2 DEF Job, Goto
  <2>4. \A st : WithStatus(st)' = WithStatus(st)
    BY <2>1 DEF WithStatus
  <2>5. StoreInv'
    BY <1>1, <1>2, <2>1, <2>4 DEF StoreInv
  <2>6. BuildInv(j)'
    BY <1>1, <2>1, <2>3, <2>4 DEF BuildInv, Untabled, Filling, Rewriting
  <2>7. j0.pc = "ensure"
    BY <1>7 DEF IngestEnsureTable, At
  <2>8. TextInv(j)
    BY <1>2, <2>3, <2>7 DEF TextInv, Unwritten, Rewriting
  <2> QED BY <1>1, <1>2, <2>1, <2>3, <2>4, <2>5, <2>6, <2>8, WriterBuildsApart
<1>8. CASE IngestEnsureRow
  <2>1. j0.pc = "ensure_row"
    BY <1>8 DEF IngestEnsureRow, At
  <2>2. WithStatus("active") = {} /\ <<model, 0>> \in phys /\ rows[<<model, 0>>] = {}
        /\ WithStatus("stale") = {} /\ \A u \in WithStatus("building") : u[2] # 0
    BY <1>2, <2>1 DEF BuildInv, StoreInv
  <2>3. /\ registry' = registry \cup {<<<<model, 0>>, "active">>} /\ phys' = phys
    BY <1>3, <1>5, <1>8, <2>2 DEF IngestEnsureRow, Register
  <2>4. PICK j : j = [j0 EXCEPT !.pc = "append"]
    OBVIOUS
  <2>5. /\ j.pc = "append" /\ j.t = <<model, 0>> /\ j.s = j0.s /\ j.new = j0.new
        /\ job' = [job EXCEPT !["ingest"] = j]
    BY <1>2, <1>3, <1>8, <2>4 DEF IngestEnsureRow, Job, Goto
  <2>6. /\ WithStatus("active")' = {<<model, 0>>}
        /\ WithStatus("stale")' = WithStatus("stale")
        /\ WithStatus("building")' = WithStatus("building")
    BY <1>2, <2>2, <2>3 DEF WithStatus
  <2>7. Live' = {} /\ Live = {}
    <3>1. Live' = rows'[<<model, 0>>]
      BY <1>1, <2>2, <2>3, <2>6, LiveTableNext
    <3> QED BY <1>1, <1>2, <2>2, <3>1, LiveTable DEF Solo
  <2>8. LiveStill
    BY <1>1, <2>7 DEF LiveStill
  <2>9. StoreInv'
    BY <1>1, <1>2, <2>2, <2>3, <2>6 DEF StoreInv
  <2>10. BuildInv(j)'
    BY <1>1, <2>5, <2>6 DEF BuildInv, Untabled, Filling, Rewriting
  <2>11. TextInv(j)
    BY <1>2, <2>1, <2>5 DEF TextInv, Unwritten, Rewriting
  <2>12. TextInv(j)' /\ FoundInv'
    BY <1>1, <1>2, <2>8, <2>11, StillText, SameFound DEF Steady
  <2> QED BY <1>1, <1>2, <2>5, <2>9, <2>10, <2>12, WriterBuilds
<1>9. CASE IngestEnsureTable
  <2>1. \/ \E t \in ActiveTables(model) :
             /\ CreateEmpty(t)
             /\ job' = [job EXCEPT !["ingest"].t = t, !["ingest"].pc = "append"]
        \/ /\ ActiveTables(model) = {}
           /\ CreateEmpty(<<model, 0>>)
           /\ Goto("ingest", "ensure_row")
    <3>1. job["ingest"].t[1] = model
      BY <1>3
    <3> QED BY <1>9, <3>1 DEF IngestEnsureTable
  <2> QED BY <1>6, <1>7, <1>9, <2>1
<1> QED BY <1>8, <1>9

\* The new vectors are appended to the table that search reads.
LEMMA AppendKeeps ==
    ASSUME Solo, IngestAppend, NEW j0, j0 = job["ingest"], NEW s, s = job["ingest"].s,
           NEW t, t = job["ingest"].t
    PROVE  WriterInv'
<1>1. up = "up" /\ j0.pc = "append" /\ Steady /\ AddRows(t, j0.new)
      /\ UNCHANGED <<model, src, waiting, lock, registry>>
  BY DEF IngestAppend, At, Internal
<1>2. /\ "ingest" = Writer /\ "ingest" \in Actors /\ j0 \in Job /\ s \in Sources
      /\ BuildInv(j0) /\ TextInv(j0) /\ StoreInv /\ FoundInv /\ TypeInv
      /\ StoreTypeOK /\ lock = "ingest" /\ t \in TableIds /\ t[1] = model
      /\ <<model, 0>> \in TableIds
  BY <1>1, IngestAt, WriterAt, WriterJob DEF Solo, WriterInv, Untabled
<1>3. t \in WithStatus("active") /\ t \in phys
  BY <1>1, <1>2 DEF BuildInv, StoreInv
<1>4. WithStatus("active") = {t} /\ Live = rows[t]
  BY <1>2, <1>3, LiveTable DEF Solo
<1>5. /\ phys' = phys /\ rows'[t] = rows[t] \cup j0.new
      /\ \A u \in TableIds : u # t => rows'[u] = rows[u]
  BY <1>1, <1>2 DEF AddRows, StoreTypeOK
<1>6. \A st : WithStatus(st)' = WithStatus(st)
  BY <1>1 DEF WithStatus
<1>7. Live \cap RowsOf(s) = {} /\ src[s].st \in {"parsing", "embedding"}
  BY <1>1, <1>2 DEF TextInv
<1>8. LiveBut(s) = Live
  BY <1>7 DEF LiveBut
<1>9. Live' = LiveBut(s) \cup j0.new
  BY <1>1, <1>2, <1>3, <1>4, <1>5, <1>6, <1>8, LiveTableNext
<1>10. PICK new \in Row : j0.new = {new} /\ new.src = s /\ new.ver = src[s].ver
  BY <1>1, <1>2 DEF TextInv, Unwritten, Rewriting
<1>11. ~Purged /\ Present(s)
  BY <1>2, <1>7 DEF Solo, WriterInv, AloneInv, Present, Purged
<1>12. FoundInv' /\ Findable(s)'
  BY <1>1, <1>2, <1>9, <1>10, <1>11, NewFound DEF Steady
<1>13. PICK j : j = [j0 EXCEPT !.pc = "finish"]
  OBVIOUS
<1>14. j.pc = "finish" /\ j.t = t /\ j.s = s /\ job' = [job EXCEPT !["ingest"] = j]
  BY <1>2, <1>13 DEF IngestAppend, Job, Goto
<1>15. StoreInv'
  BY <1>1, <1>2, <1>3, <1>4, <1>5, <1>6 DEF StoreInv
<1>16. BuildInv(j)'
  BY <1>1, <1>2, <1>14 DEF BuildInv, Untabled, Filling, Rewriting
<1>17. TextInv(j)'
  BY <1>1, <1>7, <1>12, <1>14 DEF TextInv, Unwritten, Rewriting
<1> QED BY <1>1, <1>2, <1>12, <1>14, <1>15, <1>16, <1>17, WriterBuilds

\* The sweep of building tables and rows leaves the active table alone.
LEMMA SweepSolo ==
    ASSUME Solo, IngestSweep \/ IngestSweepRows, NEW j0, j0 = job["ingest"]
    PROVE  WriterInv'
<1>1. up = "up" /\ j0.pc \in {"sweep", "sweep_rows"} /\ Steady
      /\ UNCHANGED <<model, src, waiting, lock>>
  BY DEF IngestSweep, IngestSweepRows, At, Internal
<1>2. /\ "ingest" = Writer /\ "ingest" \in Actors /\ j0 \in Job
      /\ BuildInv(j0) /\ TextInv(j0) /\ StoreInv /\ j0.t[1] = model /\ StoreTypeOK
      /\ <<model, 0>> \in TableIds
  BY <1>1, IngestAt, WriterAt, WriterJob DEF Solo, WriterInv, Untabled
<1>3. BuildingTables(model) \cap WithStatus("active") = {}
  BY <1>2 DEF StoreInv, BuildingTables
<1>4. PICK pc \in {"pick", "sweep_rows"} : Goto("ingest", pc)
  BY DEF IngestSweep, IngestSweepRows
<1>5. PICK j : j = [j0 EXCEPT !.pc = pc]
  OBVIOUS
<1>6. /\ j.pc = pc /\ j.t = j0.t /\ j.s = j0.s /\ j.new = j0.new
      /\ job' = [job EXCEPT !["ingest"] = j]
  BY <1>2, <1>4, <1>5 DEF Goto, Job
<1>7. TextInv(j)
  BY <1>1, <1>2, <1>4, <1>6 DEF TextInv, Unwritten, Rewriting
<1>8. BuildInv(j)'
  BY <1>1, <1>2, <1>4, <1>6 DEF BuildInv, Untabled, Filling, Rewriting
<1>9. CASE IngestSweep
  <2>1. /\ registry' = registry /\ phys' = phys \ BuildingTables(model)
        /\ rows' = [u \in TableIds |-> IF u \in BuildingTables(model) THEN {} ELSE rows[u]]
    BY <1>2, <1>9 DEF IngestSweep, DropTables, Internal
  <2>2. \A st : WithStatus(st)' = WithStatus(st)
    BY <2>1 DEF WithStatus
  <2>3. \A u \in WithStatus("active") : (u \in phys' <=> u \in phys) /\ rows'[u] = rows[u]
    BY <1>3, <2>1 DEF WithStatus
  <2>4. StoreInv'
    BY <1>1, <1>2, <1>3, <2>1, <2>2 DEF StoreInv
  <2> QED BY <1>1, <1>2, <1>6, <1>7, <1>8, <2>2, <2>3, <2>4, WriterBuildsApart
<1>10. CASE IngestSweepRows
  <2>1. /\ UNCHANGED <<phys, rows>>
        /\ registry' = {r \in registry : ~(r[2] = "building" /\ r[1][1] = model)}
    BY <1>2, <1>10 DEF IngestSweepRows, DeleteBuildingRows
  <2>2. /\ WithStatus("active")' = WithStatus("active")
        /\ WithStatus("stale")' = WithStatus("stale")
        /\ WithStatus("building")' \subseteq WithStatus("building")
    BY <2>1 DEF WithStatus
  <2>3. StoreInv'
    BY <1>1, <1>2, <2>1, <2>2 DEF StoreInv
  <2> QED BY <1>1, <1>2, <1>6, <1>7, <1>8, <2>1, <2>2, <2>3, WriterBuildsApart
<1> QED BY <1>9, <1>10

\* Every step of an ingest.
LEMMA IngestSolo ==
    ASSUME Solo, IngestRun
    PROVE  WriterInv'
BY IngestEndSteps, IngestRowSteps, WipeKeeps, EnsureSolo, AppendKeeps, SweepSolo, BuildSolo,
   ActorsDistinct DEF IngestRun

-----------------------------------------------------------------------------
(* The enrichment worker, alone with the index.                             *)

\* What the steps of the enrichment worker rely on.
LEMMA EnrichAt ==
    ASSUME Solo, "enrich" \in Ops \/ (up = "up" /\ job["enrich"].pc # "idle")
    PROVE  /\ Writer = "enrich" /\ "enrich" \in Actors /\ purge.pc = "idle" /\ waiting = {}
           /\ \A x \in Sources : src[x] \in SourceRow /\ src[x].st \in {"queued", "indexed"}
           /\ job["enrich"] \in Job /\ BuildInv(job["enrich"]) /\ TextInv(job["enrich"])
           /\ job["enrich"].pc # "idle" => job["enrich"].s \in Sources
           /\ src \in [Sources -> SourceRow]
<1>1. Writer = "enrich"
  BY ActorsDistinct DEF Writer, Solo, WriterInv, AloneInv
<1> QED BY <1>1, WriterJob, WriterActor DEF Solo, WriterInv, AloneInv

\* A worker's write to a sources row leaves what ingests and users wrote.
RowMarked(s, row) ==
    /\ row.trash = src[s].trash /\ row.st = src[s].st /\ row.ver = src[s].ver
    /\ row.chunks = src[s].chunks

\* A row whose enrichment is marked is the same to search.
LEMMA MarkedFits ==
    ASSUME NEW s, NEW row, RowMarked(s, row)
    PROVE  RowFits(s, row)
BY DEF RowMarked, RowFits

\* The worker's jobs respect the frame.
LEMMA EnrichFrame ==
    ASSUME Solo, Writer = "enrich", up = "up", Steady, UNCHANGED <<model, waiting>>,
           NEW j, job' = [job EXCEPT !["enrich"] = j],
           NEW s \in Sources, NEW row, src' = [src EXCEPT ![s] = row], RowMarked(s, row)
    PROVE  WriterFrame(j)
<1>1. src \in [Sources -> SourceRow]
  BY WriterJob DEF Solo
<1>2. \A x \in Sources : src'[x].trash = src[x].trash /\ src'[x].st = src[x].st
  BY <1>1 DEF RowMarked
<1> QED BY <1>2 DEF WriterFrame

\* The job ends.
LEMMA EnrichEnds ==
    ASSUME Solo, Writer = "enrich", up = "up", Steady, UNCHANGED <<storeVars, model, waiting>>,
           Leave("enrich"),
           NEW s \in Sources, NEW row \in SourceRow, src' = [src EXCEPT ![s] = row],
           RowMarked(s, row)
    PROVE  WriterInv'
<1>1. WriterFrame(Idle)
  BY EnrichFrame DEF Leave
<1> QED BY <1>1, MarkedFits, WriterEnds DEF StoreStill

\* The job goes on.
LEMMA EnrichGoesOn ==
    ASSUME Solo, Writer = "enrich", up = "up", Steady, UNCHANGED <<storeVars, model, waiting>>,
           NEW j, job' = [job EXCEPT !["enrich"] = j], BuildInv(j), TextInv(j)',
           NEW s \in Sources, NEW row \in SourceRow, src' = [src EXCEPT ![s] = row],
           RowMarked(s, row)
    PROVE  WriterInv'
<1>1. WriterFrame(j)
  BY EnrichFrame
<1>2. RowFits(s, row)
  BY MarkedFits
<1>3. LiveStill
  BY StillLive DEF StoreStill
<1>4. FoundInv'
  BY <1>2, <1>3, RowFound DEF Solo, WriterInv, Steady
<1> QED BY <1>1, <1>4, WriterGoesOn DEF StoreStill

\* What the worker may write on a row.
LEMMA MarkType ==
    ASSUME NEW s, src[s] \in SourceRow, NEW e \in EnrichmentStatus, NEW k \in 0 .. MaxHash,
           NEW c \in BOOLEAN
    PROVE  /\ [src[s] EXCEPT !.enr = e] \in SourceRow
           /\ RowMarked(s, [src[s] EXCEPT !.enr = e])
           /\ [src[s] EXCEPT !.enr = e, !.key = k] \in SourceRow
           /\ RowMarked(s, [src[s] EXCEPT !.enr = e, !.key = k])
           /\ [src[s] EXCEPT !.enr = e, !.ctx = c, !.key = k] \in SourceRow
           /\ RowMarked(s, [src[s] EXCEPT !.enr = e, !.ctx = c, !.key = k])
           /\ [src[s] EXCEPT !.ctx = c, !.key = k, !.enr = e] \in SourceRow
           /\ RowMarked(s, [src[s] EXCEPT !.ctx = c, !.key = k, !.enr = e])
           /\ RowMarked(s, src[s])
<1>1. src[s] \in [st : SourceStatus, trash : BOOLEAN, enr : EnrichmentStatus,
                  chunks : BOOLEAN, ver : 0 .. MaxVer, ctx : BOOLEAN,
                  hash : 0 .. MaxHash, key : 0 .. MaxHash]
  BY DEF SourceRow
<1> QED BY <1>1 DEF SourceRow, RowMarked

\* An enrichment job ends, with one of its marks.
LEMMA EnrichEndSteps ==
    ASSUME Solo, \/ EnrichDropped \/ EnrichDegrade \/ EnrichPrefixOnly \/ EnrichLlmFail
                 \/ EnrichAbort \/ EnrichFinish \/ EnrichFail,
           NEW j0, j0 = job["enrich"], NEW s, s = job["enrich"].s
    PROVE  WriterInv'
<1>1. up = "up" /\ j0.pc # "idle" /\ Steady /\ UNCHANGED <<storeVars, model, waiting>>
      /\ Leave("enrich")
  BY DEF EnrichDropped, EnrichDegrade, EnrichPrefixOnly, EnrichLlmFail, EnrichAbort, EnrichFinish,
     EnrichFail, EnrichReturn, At
<1>2. /\ Writer = "enrich" /\ s \in Sources /\ src[s] \in SourceRow /\ j0.key \in 0 .. MaxHash
      /\ src[s].st \in {"queued", "indexed"} /\ src \in [Sources -> SourceRow]
  BY <1>1, EnrichAt DEF Job
<1>3. {"pending", "skipped", "failed", "enriched"} \subseteq EnrichmentStatus
  BY DEF EnrichmentStatus
<1>4. ASSUME NEW row \in SourceRow, RowMarked(s, row), src' = [src EXCEPT ![s] = row]
      PROVE  WriterInv'
  BY <1>1, <1>2, <1>4, EnrichEnds
<1>5. CASE EnrichDropped \/ EnrichAbort
  <2>1. src' = [src EXCEPT ![s] = src[s]]
    BY <1>5 DEF EnrichDropped, EnrichAbort, EnrichReturn
  <2>2. src[s] \in SourceRow
    BY <1>2, <1>3, MarkType
  <2>3. RowMarked(s, src[s])
    BY <1>2, <1>3, MarkType
  <2> QED BY <1>4, <2>1, <2>2, <2>3
<1>6. CASE EnrichDegrade
  <2>1. src' = [src EXCEPT ![s] = [src[s] EXCEPT !.enr = "pending"]]
    BY <1>6 DEF EnrichDegrade, EnrichReturn
  <2>2. [src[s] EXCEPT !.enr = "pending"] \in SourceRow
    BY <1>2, <1>3, MarkType
  <2>3. RowMarked(s, [src[s] EXCEPT !.enr = "pending"])
    BY <1>2, <1>3, MarkType
  <2> QED BY <1>4, <2>1, <2>2, <2>3
<1>7. CASE EnrichPrefixOnly
  <2>1. src' = [src EXCEPT ![s] = [src[s] EXCEPT !.enr = "skipped", !.ctx = TRUE, !.key = j0.key]]
    BY <1>7 DEF EnrichPrefixOnly, EnrichReturn
  <2>2. [src[s] EXCEPT !.enr = "skipped", !.ctx = TRUE, !.key = j0.key] \in SourceRow
    BY <1>2, <1>3, MarkType
  <2>3. RowMarked(s, [src[s] EXCEPT !.enr = "skipped", !.ctx = TRUE, !.key = j0.key])
    BY <1>2, <1>3, MarkType
  <2> QED BY <1>4, <2>1, <2>2, <2>3
<1>8. CASE EnrichLlmFail
  <2>1. src' = [src EXCEPT ![s] = [src[s] EXCEPT !.enr = "failed", !.key = j0.key]]
    BY <1>8 DEF EnrichLlmFail, EnrichReturn
  <2>2. [src[s] EXCEPT !.enr = "failed", !.key = j0.key] \in SourceRow
    BY <1>2, <1>3, MarkType
  <2>3. RowMarked(s, [src[s] EXCEPT !.enr = "failed", !.key = j0.key])
    BY <1>2, <1>3, MarkType
  <2> QED BY <1>4, <2>1, <2>2, <2>3
<1>9. CASE src' = src
  <2>1. src' = [src EXCEPT ![s] = src[s]] /\ RowMarked(s, src[s])
    BY <1>2, <1>9 DEF RowMarked
  <2> QED BY <1>2, <1>4, <2>1
<1>10. CASE (EnrichFinish \/ EnrichFail) /\ src' # src
  <2>1. PICK e \in {"enriched", "failed"} : src' = Marked(s, e)
    BY <1>10 DEF EnrichFinish, EnrichFail
  <2>2. src' = [src EXCEPT ![s] = [src[s] EXCEPT !.enr = e]]
    BY <1>2, <2>1 DEF Marked, Present
  <2>3. e \in EnrichmentStatus /\ [src[s] EXCEPT !.enr = e] \in SourceRow
        /\ RowMarked(s, [src[s] EXCEPT !.enr = e])
    BY <1>2, <1>3, MarkType
  <2> QED BY <1>4, <2>2, <2>3
<1> QED BY <1>5, <1>6, <1>7, <1>8, <1>9, <1>10

\* An enrichment job starts, goes on, or takes the lock for the flip.
LEMMA EnrichGoSteps ==
    ASSUME Solo, \/ EnrichStart \/ EnrichMap \/ EnrichPersist \/ EnrichMeta
                 \/ EnrichRelist \/ EnrichCoord \/ EnrichLock
    PROVE  WriterInv'
<1>1. up = "up" /\ Steady /\ UNCHANGED <<storeVars, model, waiting>>
  BY DEF EnrichStart, EnrichMap, EnrichPersist, EnrichMeta, EnrichRelist, EnrichCoord, EnrichLock,
     EnrichIdle, At, Internal
<1>2. CASE EnrichStart
  <2>1. PICK s \in Sources : s = Head(queue)
    <3>1. queue # <<>> /\ queue' = Tail(queue) /\ QueueTyped
      BY <1>2 DEF EnrichStart, EnrichIdle, Solo, TypeInv, TypeOK, QueueTyped
    <3> QED BY <3>1, TailType
  <2>2. /\ Writer = "enrich" /\ src[s] \in SourceRow /\ src[s].st \in {"queued", "indexed"}
        /\ src \in [Sources -> SourceRow]
    BY <1>2, <2>1, EnrichAt DEF EnrichStart, EnrichRuns
  <2>3. PICK j : j = [Idle EXCEPT !.pc = "map", !.s = s, !.key = src[s].hash]
    OBVIOUS
  <2>4. j.pc = "map" /\ job' = [job EXCEPT !["enrich"] = j]
    BY <1>2, <2>1, <2>3 DEF EnrichStart, Idle
  <2>5. src' = [src EXCEPT ![s] = [src[s] EXCEPT !.enr = "enriching"]]
    BY <1>2, <2>1, <2>2 DEF EnrichStart, Marked, Present
  <2>6. /\ [src[s] EXCEPT !.enr = "enriching"] \in SourceRow
        /\ RowMarked(s, [src[s] EXCEPT !.enr = "enriching"])
    <3>1. "enriching" \in EnrichmentStatus /\ 0 \in 0 .. MaxHash
      BY JobAssumption DEF EnrichmentStatus
    <3> QED BY <2>2, <3>1, MarkType
  <2>7. BuildInv(j)
    BY <2>4 DEF BuildInv, Untabled, Filling, Rewriting
  <2>8. TextInv(j)'
    BY <2>2, <2>4 DEF TextInv, Unwritten, Rewriting
  <2> QED BY <1>1, <2>2, <2>4, <2>5, <2>6, <2>7, <2>8, EnrichGoesOn
<1>3. CASE \/ EnrichMap \/ EnrichPersist \/ EnrichMeta \/ EnrichRelist \/ EnrichCoord
           \/ EnrichLock
  <2>1. PICK j0, s : j0 = job["enrich"] /\ s = job["enrich"].s
    OBVIOUS
  <2>2. j0.pc \in {"map", "persist", "meta", "relist", "coord", "lock"}
    BY <1>3, <2>1
    DEF EnrichMap, EnrichPersist, EnrichMeta, EnrichRelist, EnrichCoord, EnrichLock, At
  <2>3. /\ Writer = "enrich" /\ j0 \in Job /\ s \in Sources /\ src[s] \in SourceRow
        /\ src[s].st \in {"queued", "indexed"} /\ BuildInv(j0) /\ TextInv(j0)
        /\ src \in [Sources -> SourceRow]
    BY <1>1, <2>1, <2>2, EnrichAt
  <2>4. RowMarked(s, src[s])
    BY DEF RowMarked
  <2>5. CASE EnrichMap
    <3>1. PICK new : new = {[RawRow(s, src[s].ver) EXCEPT !.kind = "ctx"]}
      OBVIOUS
    <3>2. PICK j : j = [j0 EXCEPT !.new = new, !.pc = "persist"]
      OBVIOUS
    <3>3. /\ j.pc = "persist" /\ job' = [job EXCEPT !["enrich"] = j]
          /\ src' = [src EXCEPT ![s] = src[s]]
      BY <2>1, <2>3, <2>5, <3>1, <3>2 DEF EnrichMap, Internal, Job
    <3>4. BuildInv(j)
      BY <3>3 DEF BuildInv, Untabled, Filling, Rewriting
    <3>5. TextInv(j)'
      BY <2>3, <3>3 DEF TextInv, Unwritten, Rewriting
    <3> QED BY <1>1, <2>3, <2>4, <3>3, <3>4, <3>5, EnrichGoesOn
  <2>6. CASE EnrichPersist
    <3>1. PICK ctx \in BOOLEAN : src' = [src EXCEPT ![s].ctx = ctx]
      <4>1. PICK same \in BOOLEAN : same = Reread(s)
        <5>1. Reread(s) \in BOOLEAN
          BY DEF Reread
        <5> QED BY <5>1
      <4>2. src' = [src EXCEPT ![s].ctx = src[s].ctx \/ same]
        BY <2>1, <2>6, <4>1 DEF EnrichPersist
      <4>3. src[s].ctx \/ same \in BOOLEAN
        BY <2>3, <4>1 DEF SourceRow
      <4> QED BY <4>2, <4>3
    <3>2. PICK row : row = [src[s] EXCEPT !.ctx = ctx]
      OBVIOUS
    <3>3. src' = [src EXCEPT ![s] = row] /\ row \in SourceRow /\ RowMarked(s, row)
      BY <2>3, <3>1, <3>2 DEF SourceRow, RowMarked
    <3>4. PICK j : j = [j0 EXCEPT !.pc = "meta"]
      OBVIOUS
    <3>5. j.pc = "meta" /\ job' = [job EXCEPT !["enrich"] = j]
      BY <2>1, <2>3, <2>6, <3>4 DEF EnrichPersist, Goto, Job
    <3>6. BuildInv(j)
      BY <3>5 DEF BuildInv, Untabled, Filling, Rewriting
    <3>7. TextInv(j)'
      BY <2>3, <3>5 DEF TextInv, Unwritten, Rewriting
    <3> QED BY <1>1, <2>3, <3>3, <3>5, <3>6, <3>7, EnrichGoesOn
  <2>8. CASE EnrichMeta
    <3>1. src' = [src EXCEPT ![s].key = j0.key, ![s].enr = "enriching"]
      BY <2>1, <2>8 DEF EnrichMeta
    <3>2. j0.key \in 0 .. MaxHash /\ "enriching" \in EnrichmentStatus
      BY <2>3 DEF Job, EnrichmentStatus
    <3>3. PICK row : row = [src[s] EXCEPT !.enr = "enriching", !.key = j0.key]
      OBVIOUS
    <3>4. row \in SourceRow /\ RowMarked(s, row)
      BY <2>3, <3>2, <3>3, MarkType
    <3>5. src' = [src EXCEPT ![s] = row]
      BY <2>3, <3>1, <3>3 DEF SourceRow
    <3>6. PICK j : j = [j0 EXCEPT !.pc = "relist"]
      OBVIOUS
    <3>7. j.pc = "relist" /\ job' = [job EXCEPT !["enrich"] = j]
      BY <2>1, <2>3, <2>8, <3>6 DEF EnrichMeta, Goto, Job
    <3>8. BuildInv(j)
      BY <3>7 DEF BuildInv, Untabled, Filling, Rewriting
    <3>9. TextInv(j)'
      BY <2>3, <3>7 DEF TextInv, Unwritten, Rewriting
    <3> QED BY <1>1, <2>3, <3>4, <3>5, <3>7, <3>8, <3>9, EnrichGoesOn
  <2>9. CASE EnrichRelist /\ ~src[s].chunks
    <3>1. Leave("enrich") /\ src' = Marked(s, "enriched")
      BY <2>1, <2>9 DEF EnrichRelist
    <3>2. PICK e \in EnrichmentStatus : src' = [src EXCEPT ![s] = [src[s] EXCEPT !.enr = e]]
      BY <2>3, <3>1 DEF Marked, EnrichmentStatus, SourceRow
    <3>3. [src[s] EXCEPT !.enr = e] \in SourceRow /\ RowMarked(s, [src[s] EXCEPT !.enr = e])
      BY <2>3, <3>2 DEF SourceRow, RowMarked
    <3> QED BY <1>1, <2>3, <3>1, <3>2, <3>3, EnrichEnds
  <2>10. CASE EnrichRelist /\ src[s].chunks
    <3>1. PICK new, kind : new = [RawRow(s, src[s].ver) EXCEPT !.kind = kind]
                           /\ kind = IF src[s].ctx THEN "ctx" ELSE "raw"
      OBVIOUS
    <3>2. src' = [src EXCEPT ![s] = src[s]]
          /\ job' = [job EXCEPT !["enrich"].pc = "coord", !["enrich"].new = {new}]
      BY <2>1, <2>3, <2>10, <3>1 DEF EnrichRelist
    <3>3. PICK j : j = [j0 EXCEPT !.pc = "coord", !.new = {new}]
      OBVIOUS
    <3>4. j.pc = "coord" /\ j.new = {new} /\ j.s = s /\ job' = [job EXCEPT !["enrich"] = j]
      BY <2>1, <2>3, <3>2, <3>3 DEF Job
    <3>5. new \in Row /\ new.src = s /\ new.ver = src[s].ver
      <4>1. src[s].ver \in 0 .. MaxVer /\ kind \in {"raw", "ctx"}
        BY <2>3, <3>1 DEF SourceRow
      <4> QED BY <2>3, <3>1, <4>1, RowType DEF RawRow
    <3>6. BuildInv(j)
      BY <3>4 DEF BuildInv, Untabled, Filling, Rewriting
    <3>7. src'[s] = src[s]
      BY <2>3, <3>2
    <3>8. TextInv(j)'
      BY <2>3, <3>4, <3>5, <3>7 DEF TextInv, Unwritten, Rewriting
    <3> QED BY <1>1, <2>3, <2>4, <3>2, <3>4, <3>6, <3>8, EnrichGoesOn
  <2>11. CASE EnrichCoord
    <3>1. src' = [src EXCEPT ![s] = src[s]] /\ src' = src
      BY <2>3, <2>11 DEF EnrichCoord, Internal
    <3>2. PICK j : j = [j0 EXCEPT !.pc = "pick", !.t = <<model, 0>>]
      OBVIOUS
    <3>3. /\ j.pc = "pick" /\ j.t = <<model, 0>> /\ j.new = j0.new /\ j.s = s /\ j0.pc = "coord"
          /\ job' = [job EXCEPT !["enrich"] = j]
      BY <2>1, <2>3, <2>11, <3>2 DEF Job, EnrichCoord, At
    <3>4. BuildInv(j)
      BY <3>3 DEF BuildInv, Untabled, Filling, Rewriting
    <3>5. TextInv(j)
      BY <2>1, <2>3, <3>3 DEF TextInv, Unwritten, Rewriting
    <3>6. TextInv(j)'
      BY <1>1, <3>1, <3>5, StillText, StillLive DEF StoreStill
    <3> QED BY <1>1, <2>3, <2>4, <3>1, <3>3, <3>4, <3>6, EnrichGoesOn
  <2>7. CASE EnrichLock
    <3>1. src' = [src EXCEPT ![s] = src[s]] /\ src' = src
      BY <2>3, <2>7 DEF EnrichLock
    <3>2. CASE Leave("enrich")
      BY <1>1, <2>3, <2>4, <3>1, <3>2, EnrichEnds
    <3>3. CASE Goto("enrich", "flip")
      <4>1. PICK j : j = [j0 EXCEPT !.pc = "flip"]
        OBVIOUS
      <4>2. /\ j.pc = "flip" /\ j.t = j0.t /\ j.new = j0.new /\ j.s = s /\ j0.pc = "lock"
            /\ job' = [job EXCEPT !["enrich"] = j]
        BY <2>1, <2>3, <2>7, <3>3, <4>1 DEF Job, Goto, EnrichLock, At
      <4>3. BuildInv(j)
        BY <2>1, <2>3, <4>2 DEF BuildInv, Untabled, Filling, Rewriting
      <4>4. TextInv(j)
        BY <2>1, <2>3, <4>2 DEF TextInv, Unwritten, Rewriting
      <4>5. TextInv(j)'
        BY <1>1, <3>1, <4>4, StillText, StillLive DEF StoreStill
      <4> QED BY <1>1, <2>3, <2>4, <3>1, <4>2, <4>3, <4>5, EnrichGoesOn
    <3> QED BY <2>7, <3>2, <3>3 DEF EnrichLock
  <2> QED BY <1>3, <2>5, <2>6, <2>7, <2>8, <2>9, <2>10, <2>11 DEF EnrichRelist
<1> QED BY <1>2, <1>3

-----------------------------------------------------------------------------
(* Steps beside the writer: requests, the queue, purges.                    *)

\* The jobs, the lock and the purge are as they were.
LEMMA AsideAlone ==
    ASSUME TypeInv, AloneInv, UNCHANGED <<up, job, purge, lock>>,
           Writer = "enrich" => /\ UNCHANGED waiting
                                /\ \A s \in Sources : src'[s].st = src[s].st,
           "restore" \notin Ops => \A s \in Sources : src[s].trash => src'[s].trash
    PROVE  AloneInv'
<1>1. Writer # "ingest" => Writer = "enrich"
  BY WriterActor
<1> QED BY <1>1 DEF AloneInv

\* A step that leaves the store and the jobs as they are.
LEMMA AsideKeeps ==
    ASSUME Solo, StoreStill, UNCHANGED <<up, job, purge, lock>>,
           Writer = "enrich" => UNCHANGED waiting,
           \A s \in Sources :
               /\ src'[s].ver = src[s].ver
               /\ src'[s].st = src[s].st \/ (Writer = "ingest" /\ src'[s].st = "parsing")
               /\ "restore" \notin Ops /\ src[s].trash => src'[s].trash
               /\ NoLoss /\ Shown(s)' => Shown(s)
    PROVE  WriterInv'
<1>1. LiveStill /\ StoreInv' /\ BuildInv(job[Writer])'
  <2>1. PICK j : j = job[Writer]
    OBVIOUS
  <2>2. BuildInv(j)'
    BY <2>1, StillLive DEF Solo, WriterInv
  <2> QED BY <2>1, <2>2, StillLive DEF Solo, WriterInv
<1>2. AloneInv'
  BY AsideAlone DEF Solo, WriterInv
<1>3. FoundInv'
  <2>1. \A x \in Sources : Present(x) => Present(x)'
    BY DEF Present
  <2> QED BY <1>1, <2>1, StillFoundAll DEF Solo, WriterInv
<1>4. TextInv(job[Writer])'
  <2>1. PICK j : j = job[Writer]
    OBVIOUS
  <2>2. CASE j.pc = "idle"
    <3>1. TextInv(j)'
      BY <2>2 DEF TextInv, Unwritten, Rewriting
    <3> QED BY <2>1, <3>1
  <2>3. CASE j.pc # "idle"
    <3>1. j.s \in Sources /\ TextInv(j)
      BY <2>1, <2>3, WriterJob DEF Solo, WriterInv
    <3>2. TextInv(j)'
      BY <1>1, <3>1, StillText
    <3> QED BY <2>1, <3>2
  <2> QED BY <2>2, <2>3
<1> QED BY <1>1, <1>2, <1>3, <1>4 DEF WriterInv

\* A step while the writer is idle.
LEMMA IdleKeeps ==
    ASSUME AloneInv', StoreInv', FoundInv', job'[Writer].pc = "idle"
    PROVE  WriterInv'
<1>1. BuildInv(job[Writer])' /\ TextInv(job[Writer])'
  BY DEF BuildInv, TextInv, Untabled, Filling, Unwritten, Rewriting
<1> QED BY <1>1 DEF WriterInv

\* Users ask for an ingest, flag sources; the queue is read and rebuilt.
LEMMA AsideSolo ==
    ASSUME Solo,
           \/ \E s \in Sources :
                CallIngest(s) \/ RetrySource(s) \/ TrashSource(s) \/ RestoreSource(s)
           \/ RestoreNotebook \/ RescanEnrichment \/ EnrichSkip \/ EnrichPreflightFail
           \/ UNCHANGED vars
    PROVE  WriterInv'
<1>0. src \in [Sources -> SourceRow]
  BY WriterJob DEF Solo
<1>1. StoreStill /\ UNCHANGED <<up, job, purge, lock>>
  BY DEF CallIngest, RetrySource, TrashSource, RestoreSource, RestoreNotebook, RescanEnrichment,
     EnrichSkip, EnrichPreflightFail, StoreStill, Steady, FlagOnly, vars, engineVars
<1>2. ASSUME src' = src, Writer = "enrich" => UNCHANGED waiting PROVE WriterInv'
  <2>1. \A s \in Sources : Shown(s)' => Shown(s)
    BY <1>2 DEF Shown
  <2> QED BY <1>1, <1>2, <2>1, AsideKeeps
<1>3. ASSUME NEW s \in Sources, CallIngest(s) PROVE WriterInv'
  <2>1. Writer = "ingest"
    BY <1>3 DEF CallIngest, Solo, OneWriter, Writer
  <2> QED BY <1>2, <1>3, <2>1 DEF CallIngest
<1>4. ASSUME NEW s \in Sources, RetrySource(s) PROVE WriterInv'
  <2>1. Writer = "ingest"
    BY <1>4, WriterActor DEF RetrySource, Solo, WriterInv, AloneInv
  <2>2. src'[s] = [src[s] EXCEPT !.st = "parsing"] /\ \A x \in Sources : x # s => src'[x] = src[x]
    BY <1>0, <1>4 DEF RetrySource
  <2>3. src'[s].st = "parsing" /\ src'[s].ver = src[s].ver /\ src'[s].trash = src[s].trash
    BY <1>0, <2>2 DEF SourceRow
  <2>4. \A x \in Sources : Shown(x)' => Shown(x)
    BY <2>2, <2>3 DEF Shown
  <2>5. \A x \in Sources :
          /\ src'[x].ver = src[x].ver
          /\ src'[x].st = src[x].st \/ (Writer = "ingest" /\ src'[x].st = "parsing")
          /\ src'[x].trash = src[x].trash
    BY <2>1, <2>2, <2>3
  <2> QED BY <1>1, <2>1, <2>4, <2>5, AsideKeeps
<1>5. ASSUME NEW s \in Sources, TrashSource(s) \/ RestoreSource(s) PROVE WriterInv'
  <2>1. PICK b \in BOOLEAN : /\ src' = [src EXCEPT ![s].trash = b]
                             /\ b = FALSE => "restore" \in Ops /\ src[s].trash
    BY <1>5 DEF TrashSource, RestoreSource, UserOp
  <2>2. src'[s] = [src[s] EXCEPT !.trash = b] /\ \A x \in Sources : x # s => src'[x] = src[x]
    BY <1>0, <2>1
  <2>3. /\ src'[s].st = src[s].st /\ src'[s].ver = src[s].ver /\ src'[s].trash = b
        /\ src'[s].chunks = src[s].chunks
    BY <1>0, <2>2 DEF SourceRow
  <2>4. NoLoss => \A x \in Sources : Shown(x)' => Shown(x)
    BY <2>1, <2>2, <2>3 DEF Shown, NoLoss
  <2>5. \A x \in Sources :
          /\ src'[x].ver = src[x].ver /\ src'[x].st = src[x].st
          /\ "restore" \notin Ops /\ src[x].trash => src'[x].trash
    BY <2>1, <2>2, <2>3
  <2>6. UNCHANGED waiting
    BY <1>5 DEF TrashSource, RestoreSource, FlagOnly
  <2> QED BY <1>1, <2>4, <2>5, <2>6, AsideKeeps
<1>6. CASE RestoreNotebook \/ RescanEnrichment \/ EnrichSkip \/ UNCHANGED vars
  BY <1>2, <1>6
  DEF RestoreNotebook, RescanEnrichment, EnrichSkip, FlagOnly, Steady, vars, engineVars
<1>7. CASE EnrichPreflightFail
  <2>1. PICK s \in Sources : s = Head(queue)
    <3>1. queue # <<>> /\ queue' = Tail(queue) /\ QueueTyped
      BY <1>7 DEF EnrichPreflightFail, EnrichIdle, Solo, TypeInv, TypeOK, QueueTyped
    <3> QED BY <3>1, TailType
  <2>2. src' = [src EXCEPT ![s].enr = "failed", ![s].key = 0] /\ UNCHANGED waiting
    BY <1>7, <2>1 DEF EnrichPreflightFail
  <2>3. /\ src'[s] = [src[s] EXCEPT !.enr = "failed", !.key = 0]
        /\ \A x \in Sources : x # s => src'[x] = src[x]
    BY <1>0, <2>2
  <2>4. RowMarked(s, [src[s] EXCEPT !.enr = "failed", !.key = 0])
    <3>1. "failed" \in EnrichmentStatus /\ 0 \in 0 .. MaxHash
      BY JobAssumption DEF EnrichmentStatus
    <3> QED BY <1>0, <3>1, MarkType
  <2>5. \A x \in Sources : RowMarked(x, src'[x])
    BY <2>3, <2>4 DEF RowMarked
  <2>6. \A x \in Sources : Shown(x)' => Shown(x)
    BY <2>5 DEF Shown, RowMarked
  <2>7. \A x \in Sources : /\ src'[x].ver = src[x].ver /\ src'[x].st = src[x].st
                           /\ src'[x].trash = src[x].trash
    BY <2>5 DEF RowMarked
  <2> QED BY <1>1, <2>2, <2>6, <2>7, AsideKeeps
<1> QED BY <1>3, <1>4, <1>5, <1>6, <1>7

-----------------------------------------------------------------------------
(* The purge of a source, start-up and crashes.                             *)

\* Where one writer is at work nothing switches the model or purges the notebook.
LEMMA NoOther ==
    ASSUME Solo
    PROVE  /\ \A a \in Switchers, c \in Coords : ~SwitchCall(a, c)
           /\ \A a \in Switchers : ~SwitchRun(a) /\ ~SwitchLock(a)
           /\ ~CallPurge(NotebookId) /\ ~TrashNotebook
           /\ ~PurgeNotebookTables /\ ~PurgeNotebookRow
<1>1. "switch" \notin Ops /\ "purge_nb" \notin Ops
  BY DEF Solo, OneWriter
<1>2. \A a \in Switchers : job[a].pc = "idle"
  BY WriterActor DEF Solo, WriterInv, AloneInv, Actors
<1>3. purge.pc # "idle" => purge.s \in Sources
  BY DEF Solo, WriterInv, AloneInv
<1>4. ASSUME NEW a \in Switchers PROVE ~SwitchRun(a) /\ ~SwitchLock(a)
  <2>1. job[a].pc = "idle"
    BY <1>2, <1>4
  <2> QED BY <2>1 DEF SwitchRun, SwitchLock, SwitchSet, SwitchAttempt, SwitchSnapshot,
        SwitchCoords, SwitchChunks, SwitchRead, SwitchRetire, SwitchDone, SwitchFail,
        Build, PickGen, CreateTable, RegisterBuilding, Seed, Populate, Flip, DropStale,
        DropStaleRow, At
<1>5. ~CallPurge(NotebookId) /\ ~TrashNotebook /\ ~PurgeNotebookTables /\ ~PurgeNotebookRow
  BY <1>1, <1>3, JobAssumption
     DEF CallPurge, TrashNotebook, UserOp, PurgeNotebookTables, PurgeNotebookRow
<1>6. \A a \in Switchers, c \in Coords : ~SwitchCall(a, c)
  BY <1>1 DEF SwitchCall
<1> QED BY <1>4, <1>5, <1>6

\* A purge is asked for: the call takes a place in the queue of the lock.
LEMMA CallPurgeKeeps ==
    ASSUME Solo, NEW x \in Sources, CallPurge(x)
    PROVE  WriterInv'
<1>1. /\ up = "up" /\ "purge" \in Ops /\ src[x].trash
      /\ purge'.pc = "wait" /\ purge'.s = x
      /\ UNCHANGED <<up, model, waiting, job, registry, phys, rows, src, lock>>
  BY JobAssumption DEF CallPurge, NoPurge, PurgeFrame, storeVars
<1>2. Writer = "ingest"
  BY <1>1 DEF Solo, OneWriter, Writer
<1>3. StoreStill
  BY <1>1 DEF StoreStill, storeVars
<1>4. AloneInv'
  BY <1>1, <1>2 DEF Solo, WriterInv, AloneInv
<1>5. FoundInv'
  BY <1>1, <1>3, SameFound, StillLive DEF Solo, WriterInv, Purged
<1>6. PICK j : j = job[Writer]
  OBVIOUS
<1>7. StoreInv' /\ BuildInv(j)'
  BY <1>3, <1>6, StillLive DEF Solo, WriterInv
<1>8. TextInv(j)'
  BY <1>1, <1>3, <1>6, StillLive, StillText DEF Solo, WriterInv
<1> QED BY <1>1, <1>4, <1>5, <1>6, <1>7, <1>8 DEF WriterInv

\* The purge has the lock: no ingest runs.
LEMMA PurgeAlone ==
    ASSUME Solo, up = "up", purge.pc \in {"wait", "drop", "vectors", "delete"},
           lock = "free" \/ purge.pc # "wait"
    PROVE  /\ Writer = "ingest" /\ job[Writer].pc = "idle" /\ purge.s \in Sources
           /\ "purge" \in Ops /\ purge.s # NotebookId
           /\ NoLoss => src[purge.s].trash
<1>1. purge.s \in Sources /\ "purge" \in Ops
  BY DEF Solo, WriterInv, AloneInv
<1>2. Writer = "ingest"
  BY <1>1 DEF Solo, OneWriter, Writer
<1>3. lock # "ingest"
  BY DEF Solo, WriterInv, AloneInv
<1>4. job[Writer].pc = "idle"
  BY <1>2, <1>3 DEF Solo, WriterInv, AloneInv
<1>5. NoLoss => src[purge.s].trash
  BY <1>1 DEF Solo, WriterInv, AloneInv, NoLoss
<1> QED BY <1>1, <1>2, <1>4, <1>5, JobAssumption

\* The purge goes on or ends while the writer is idle.
LEMMA PurgeAloneNext ==
    ASSUME Solo, up = "up", Writer = "ingest", job[Writer].pc = "idle",
           UNCHANGED <<up, job>>,
           purge'.pc = "idle" \/ (/\ purge'.pc \in {"drop", "vectors"} /\ purge'.s = purge.s
                                  /\ purge.pc # "idle" /\ lock' = "purge" /\ src' = src)
    PROVE  AloneInv'
BY DEF Solo, WriterInv, AloneInv

\* A purge as the engine keeps it.
PurgeCall == [pc : {"idle", "wait", "drop", "vectors", "delete"},
              s : Sources \cup {None, NotebookId}, left : SUBSET Coords]

\* The purge is such a record.
LEMMA PurgeType ==
    ASSUME TypeInv
    PROVE  purge \in PurgeCall
BY DEF TypeInv, TypeOK, PurgeCall

\* The purge takes the lock, or finds that the source is gone.
LEMMA PurgeAcquireKeeps ==
    ASSUME Solo, PurgeAcquire
    PROVE  WriterInv'
<1>1. /\ up = "up" /\ purge.pc = "wait" /\ lock = "free"
      /\ UNCHANGED <<up, model, waiting, job, registry, phys, rows, src>>
  BY DEF PurgeAcquire, PurgeFrame, storeVars
<1>2. Writer = "ingest" /\ job[Writer].pc = "idle"
  BY <1>1, PurgeAlone
<1>3. purge'.pc = "idle" \/ (/\ purge'.pc = "drop" /\ purge'.s = purge.s /\ lock' = "purge")
  <2>1. purge \in PurgeCall
    BY PurgeType DEF Solo
  <2> QED BY <2>1 DEF PurgeAcquire, NoPurge, PurgeCall
<1>4. AloneInv'
  BY <1>1, <1>2, <1>3, PurgeAloneNext
<1>5. StoreStill
  BY <1>1 DEF StoreStill, storeVars
<1>6. FoundInv' /\ StoreInv'
  BY <1>1, <1>3, <1>5, SameFound, StillLive DEF Solo, WriterInv, Purged
<1> QED BY <1>1, <1>2, <1>4, <1>6, IdleKeeps

\* The purge lists the active coordinates: the notebook's is one of them, or search
\* reads nothing.
LEMMA PurgeCoordsKeeps ==
    ASSUME Solo, PurgeCoords
    PROVE  WriterInv'
<1>1. /\ up = "up" /\ purge.pc = "drop"
      /\ purge' = [purge EXCEPT !.pc = "vectors", !.left = ActiveCoords]
      /\ UNCHANGED <<up, model, waiting, job, registry, phys, rows, src, lock>>
  BY DEF PurgeCoords, PurgeFrame, storeVars
<1>2. Writer = "ingest" /\ job[Writer].pc = "idle"
  BY <1>1, PurgeAlone
<1>3. purge'.pc = "vectors" /\ purge'.s = purge.s /\ purge'.left = ActiveCoords /\ lock = "purge"
  <2>1. purge \in PurgeCall
    BY PurgeType DEF Solo
  <2> QED BY <1>1, <2>1 DEF Solo, WriterInv, AloneInv, PurgeCall
<1>4. AloneInv'
  BY <1>1, <1>2, <1>3, PurgeAloneNext
<1>5. StoreStill
  BY <1>1 DEF StoreStill, storeVars
<1>6. ~Purged' \/ Live = {}
  <2>1. ActiveTables(model) # {} => model \in ActiveCoords
    BY DEF ActiveTables, ActiveCoords
  <2>2. ActiveTables(model) = {} => Live = {}
    BY DEF Live, Searchable, Open
  <2> QED BY <1>1, <1>3, <2>1, <2>2 DEF Purged
<1>7. FoundInv' /\ StoreInv'
  BY <1>1, <1>5, <1>6, SameFound, StillLive DEF Solo, WriterInv
<1> QED BY <1>1, <1>2, <1>4, <1>7, IdleKeeps

\* The purge drops the vectors of its source under one coordinate: it is in the
\* trash and stays there.
LEMMA PurgeVectorsKeeps ==
    ASSUME Solo, PurgeSourceVectors, NEW s, s = purge.s
    PROVE  WriterInv'
<1>1. PICK c \in purge.left :
        /\ up = "up" /\ purge.pc = "vectors" /\ DropSource({c}, s)
        /\ purge' = [purge EXCEPT !.left = @ \ {c}]
        /\ UNCHANGED <<up, model, waiting, job, registry, src, lock>>
  BY DEF PurgeSourceVectors, PurgeFrame
<1>2. /\ Writer = "ingest" /\ job[Writer].pc = "idle" /\ s \in Sources /\ "purge" \in Ops
      /\ NoLoss => src[s].trash
  BY <1>1, PurgeAlone
<1>3. /\ purge'.pc = "vectors" /\ purge'.s = s /\ purge'.left = purge.left \ {c}
      /\ lock = "purge"
  <2>1. purge \in PurgeCall
    BY PurgeType DEF Solo
  <2> QED BY <1>1, <2>1 DEF Solo, WriterInv, AloneInv, PurgeCall
<1>4. AloneInv'
  BY <1>1, <1>2, <1>3, PurgeAloneNext
<1>5. CASE c = model
  <2>1. Live' = LiveBut(s) /\ StoreInv'
    BY <1>1, <1>5, DropLive DEF Solo, WriterInv
  <2>2. NoLoss => ~Shown(s)
    BY <1>2 DEF Shown
  <2>3. FoundInv'
    BY <1>1, <1>3, <2>1, <2>2, LostFound DEF Solo, WriterInv
  <2> QED BY <1>1, <1>2, <1>4, <2>1, <2>3, IdleKeeps
<1>6. CASE c # model
  <2>1. StoreTypeOK /\ StoreInv
    BY WriterJob DEF Solo, WriterInv
  <2>2. Open(c) = {}
    BY <1>6, <2>1 DEF Open, ActiveTables, WithStatus, StoreInv
  <2>3. phys' = phys /\ rows' = [t \in TableIds |-> rows[t]]
    BY <1>1, <2>2 DEF DropSource
  <2>4. StoreStill
    BY <1>1, <2>1, <2>3 DEF StoreStill, storeVars, StoreTypeOK
  <2>5. Purged' => Purged
    BY <1>1, <1>3, <1>6 DEF Purged
  <2>6. ~Purged' \/ Live \cap RowsOf(purge'.s) = {}
    BY <1>3, <2>5 DEF Solo, WriterInv, FoundInv
  <2>7. FoundInv' /\ StoreInv'
    BY <1>1, <2>4, <2>6, SameFound, StillLive DEF Solo, WriterInv
  <2> QED BY <1>1, <1>2, <1>4, <2>7, IdleKeeps
<1> QED BY <1>5, <1>6

\* A step of the purge fails: the call ends.
LEMMA PurgeFailKeeps ==
    ASSUME Solo, PurgeFail
    PROVE  WriterInv'
<1>1. /\ up = "up" /\ purge.pc \in {"drop", "vectors", "delete"} /\ purge'.pc = "idle"
      /\ UNCHANGED <<up, model, waiting, job, registry, phys, rows, src>>
  BY DEF PurgeFail, PurgeFrame, NoPurge, storeVars
<1>2. Writer = "ingest" /\ job[Writer].pc = "idle"
  BY <1>1, PurgeAlone
<1>3. AloneInv'
  BY <1>1, <1>2, PurgeAloneNext
<1>4. StoreStill /\ ~Purged'
  BY <1>1 DEF StoreStill, storeVars, Purged
<1>5. FoundInv' /\ StoreInv'
  BY <1>1, <1>4, SameFound, StillLive DEF Solo, WriterInv
<1> QED BY <1>1, <1>2, <1>3, <1>5, IdleKeeps

\* The purge deletes the row, or finds the source restored.
LEMMA PurgeRowKeeps ==
    ASSUME Solo, PurgeSourceRow, NEW s, s = purge.s
    PROVE  WriterInv'
<1>1. /\ up = "up" /\ purge.pc = "vectors" /\ purge.left = {} /\ purge'.pc = "idle"
      /\ src' = IF src[s].trash THEN [src EXCEPT ![s] = [Fresh EXCEPT !.st = "gone"]] ELSE src
      /\ UNCHANGED <<up, model, waiting, job, registry, phys, rows>>
  BY DEF PurgeSourceRow, PurgeFrame, NoPurge, storeVars
<1>2. Writer = "ingest" /\ job[Writer].pc = "idle" /\ s \in Sources
  BY <1>1, PurgeAlone
<1>3. AloneInv'
  BY <1>1, <1>2, PurgeAloneNext
<1>4. StoreStill
  BY <1>1 DEF StoreStill, storeVars
<1>5. LiveStill /\ StoreInv'
  BY <1>4, StillLive DEF Solo, WriterInv
<1>6. Live \cap RowsOf(s) = {} /\ ~Purged'
  BY <1>1 DEF Solo, WriterInv, FoundInv, Purged
<1>7. \A x \in Sources : x # s => src'[x] = src[x]
  BY <1>1, WriterJob DEF Solo
<1>8. src'[s] = src[s] \/ src'[s].st = "gone"
  <2>1. [Fresh EXCEPT !.st = "gone"].st = "gone"
    BY DEF Fresh
  <2> QED BY <1>1, <1>2, <2>1, WriterJob DEF Solo
<1>9. FoundInv'
  <2>1. \A x \in Sources : Present(x) => Present(x)' \/ Live \cap RowsOf(x) = {}
    BY <1>6, <1>7 DEF Present
  <2>2. \A x \in Sources : Shown(x)' => src'[x].ver = src[x].ver /\ Shown(x)
    BY <1>7, <1>8 DEF Shown
  <2> QED BY <1>1, <1>5, <1>6, <2>1, <2>2, StillFoundAll DEF Solo, WriterInv
<1> QED BY <1>1, <1>2, <1>3, <1>5, <1>9, IdleKeeps

\* Every step of a purge.
LEMMA PurgeSolo ==
    ASSUME Solo, PurgeRun
    PROVE  WriterInv'
BY NoOther, PurgeCoordsKeeps, PurgeVectorsKeeps, PurgeRowKeeps, PurgeFailKeeps DEF PurgeRun

\* A step of the start-up that keeps the active rows and their tables.
LEMMA StartKeeps ==
    ASSUME Solo, up # "up", UNCHANGED <<model, lock, waiting, job, purge>>,
           WithStatus("active")' = WithStatus("active"),
           \A t \in WithStatus("active") : t \in phys' <=> t \in phys,
           \A t \in WithStatus("active") : rows'[t] = rows[t],
           StoreInv',
           \A s \in Sources :
               /\ src'[s].ver = src[s].ver /\ src'[s].trash = src[s].trash
               /\ Present(s)' <=> Present(s)
               /\ Shown(s)' => Shown(s)
               /\ Writer = "enrich" => src'[s].st = src[s].st
    PROVE  WriterInv'
<1>1. purge.pc = "idle" /\ job[Writer].pc = "idle" /\ AloneInv /\ FoundInv /\ TypeInv
  BY DEF Solo, WriterInv, AloneInv
<1>2. Writer # "ingest" => Writer = "enrich"
  BY WriterActor
<1>3. AloneInv'
  BY <1>1, <1>2 DEF AloneInv
<1>4. Searchable(model)' = Searchable(model)
  <2>1. PICK c : c = model
    OBVIOUS
  <2>2. Searchable(c)' = Searchable(c)
    BY SearchKeeps
  <2> QED BY <2>1, <2>2
<1>5. LiveStill
  BY <1>4 DEF LiveStill, Live
<1>6. FoundInv'
  BY <1>1, <1>5, StillFoundAll
<1> QED BY <1>1, <1>3, <1>6, IdleKeeps

\* Recovery changes transient statuses only.
LEMMA RecoverKeeps ==
    ASSUME Solo, RecoverStatuses
    PROVE  WriterInv'
<1>1. /\ up # "up" /\ UNCHANGED <<model, lock, waiting, job, purge, registry, phys, rows>>
      /\ src' = [s \in Sources |-> Recovered(src[s])]
  BY DEF RecoverStatuses, Starting, storeVars
<1>2. WithStatus("active")' = WithStatus("active")
  BY <1>1 DEF WithStatus
<1>3. StoreInv'
  BY <1>1, StillLive DEF StoreStill, storeVars, Solo, WriterInv
<1>4. ASSUME NEW s \in Sources
      PROVE  /\ src'[s].ver = src[s].ver /\ src'[s].trash = src[s].trash
             /\ Present(s)' <=> Present(s)
             /\ Shown(s)' => Shown(s)
             /\ Writer = "enrich" => src'[s].st = src[s].st
  <2>1. src[s] \in SourceRow /\ src'[s] = Recovered(src[s])
    BY <1>1, WriterJob DEF Solo
  <2>2. /\ src'[s].ver = src[s].ver /\ src'[s].trash = src[s].trash
        /\ src'[s].chunks = src[s].chunks
        /\ src'[s].st = IF src[s].st \in {"parsing", "embedding"} THEN "error" ELSE src[s].st
    BY <2>1 DEF Recovered, SourceRow
  <2>3. Writer = "enrich" => src[s].st \in {"queued", "indexed"}
    BY DEF Solo, WriterInv, AloneInv
  <2> QED BY <2>2, <2>3 DEF Present, Shown
<1> QED BY <1>1, <1>2, <1>3, <1>4, StartKeeps

\* The sweeps take tables that no active row names.
LEMMA SweepTablesKeeps ==
    ASSUME Solo, up # "up", UNCHANGED <<registry, src, model, lock, waiting, job, purge>>,
           NEW T, DropTables(T), T \cap WithStatus("active") = {}
    PROVE  WriterInv'
<1>1. phys' = phys \ T /\ rows' = [t \in TableIds |-> IF t \in T THEN {} ELSE rows[t]]
  BY DEF DropTables
<1>2. \A st : WithStatus(st)' = WithStatus(st)
  BY DEF WithStatus
<1>3. \A t \in WithStatus("active") : (t \in phys' <=> t \in phys) /\ rows'[t] = rows[t]
  BY <1>1 DEF WithStatus
<1>4. StoreInv'
  <2>1. StoreInv /\ <<model, 0>> \in TableIds
    BY WriterJob DEF Solo, WriterInv
  <2> QED BY <1>1, <1>2, <2>1 DEF StoreInv
<1>5. WithStatus("active")' = WithStatus("active")
  BY <1>2
<1> QED BY <1>3, <1>4, <1>5, StartKeeps DEF Present, Shown

\* The steps of the start-up.
LEMMA StartSolo ==
    ASSUME Solo, StartUp
    PROVE  WriterInv'
<1>1. CASE GcUnregistered
  <2>1. up # "up" /\ UNCHANGED <<registry, src, model, lock, waiting, job, purge>>
    BY <1>1 DEF GcUnregistered, Starting
  <2>2. CASE UNCHANGED <<phys, rows>>
    <3>1. StoreStill /\ WithStatus("active")' = WithStatus("active")
      BY <2>1, <2>2 DEF StoreStill, storeVars, WithStatus
    <3>2. StoreInv'
      BY <3>1, StillLive DEF Solo, WriterInv
    <3> QED BY <2>1, <2>2, <3>1, <3>2, StartKeeps DEF Present, Shown
  <2>3. CASE DropTables(phys \ Registered)
    <3>1. (phys \ Registered) \cap WithStatus("active") = {}
      BY DEF Registered, RowStatus, WithStatus
    <3> QED BY <2>1, <2>3, <3>1, SweepTablesKeeps
  <2> QED BY <1>1, <2>2, <2>3 DEF GcUnregistered
<1>2. CASE GcTables
  <2>1. /\ up # "up" /\ UNCHANGED <<registry, src, model, lock, waiting, job, purge>>
        /\ DropTables(WithStatus("building") \cup WithStatus("stale"))
    BY <1>2 DEF GcTables, Starting
  <2>2. (WithStatus("building") \cup WithStatus("stale")) \cap WithStatus("active") = {}
    BY DEF Solo, WriterInv, StoreInv
  <2> QED BY <2>1, <2>2, SweepTablesKeeps
<1>3. CASE GcRows
  <2>1. /\ up # "up" /\ UNCHANGED <<phys, rows, src, model, lock, waiting, job, purge>>
        /\ registry' = {r \in registry : r[2] = "active"}
    BY <1>3 DEF GcRows, Starting
  <2>2. /\ WithStatus("active")' = WithStatus("active")
        /\ \A st : WithStatus(st)' \subseteq WithStatus(st)
    BY <2>1 DEF WithStatus
  <2>3. StoreInv'
    <3>1. StoreInv
      BY DEF Solo, WriterInv
    <3> QED BY <2>1, <2>2, <3>1 DEF StoreInv
  <2> QED BY <2>1, <2>2, <2>3, StartKeeps DEF Present, Shown
<1>4. CASE GcFail
  <2>1. /\ up # "up" /\ UNCHANGED <<registry, phys, rows, src, model, lock, waiting, job, purge>>
    BY <1>4 DEF GcFail, Starting, storeVars
  <2>2. StoreStill /\ WithStatus("active")' = WithStatus("active")
    BY <2>1 DEF StoreStill, storeVars, WithStatus
  <2>3. StoreInv'
    BY <2>2, StillLive DEF Solo, WriterInv
  <2> QED BY <2>1, <2>2, <2>3, StartKeeps DEF Present, Shown
<1> QED BY <1>1, <1>2, <1>3, <1>4, RecoverKeeps DEF StartUp

\* A process death: every job is gone, the store stays.
LEMMA CrashSolo ==
    ASSUME Solo, Crash
    PROVE  WriterInv'
<1>1. /\ up' = "down" /\ lock' = "free" /\ waiting' = {} /\ purge'.pc = "idle"
      /\ \A a \in Actors : job'[a].pc = "idle"
      /\ UNCHANGED <<registry, phys, rows, model, src>>
  BY DEF Crash, NoPurge, Idle, storeVars
<1>2. Writer \in Actors /\ (Writer # "ingest" => Writer = "enrich")
  BY WriterActor
<1>3. AloneInv'
  BY <1>1, <1>2 DEF Solo, WriterInv, AloneInv
<1>4. StoreStill
  BY <1>1 DEF StoreStill, storeVars
<1>5. FoundInv' /\ StoreInv'
  BY <1>1, <1>4, SameFound, StillLive DEF Solo, WriterInv, Purged
<1> QED BY <1>1, <1>2, <1>3, <1>5, IdleKeeps

\* The index an earlier session has left: none, or one active table that holds the
\* vectors of every source that is shown as indexed.
LEMMA WriterInit ==
    ASSUME Init, OneWriter
    PROVE  WriterInv
<1>1. TypeInv
  BY TypeInit
<1>2. /\ up = "up" /\ purge.pc = "idle" /\ waiting = {} /\ lock = "free"
      /\ \A a \in Actors : job[a] = Idle
      /\ src = [s \in Sources |-> IF s \in Indexed0 THEN Settled ELSE Fresh]
  BY DEF Init, NoPurge
<1>3. /\ Fresh.st = "queued" /\ Fresh.chunks = FALSE /\ Settled.st = "indexed"
      /\ Settled.ver = 1 /\ Idle.pc = "idle"
  BY DEF Fresh, Settled, Idle
<1>4. \A s \in Sources : src[s].st \in {"queued", "indexed"} /\ Present(s)
  BY <1>2, <1>3 DEF Present
<1>5. Writer \in Actors /\ (Writer # "ingest" => Writer = "enrich") /\ job[Writer] = Idle
  BY <1>2, WriterActor
<1>6. AloneInv
  BY <1>2, <1>3, <1>4, <1>5, ActorsDistinct DEF AloneInv
<1>7. BuildInv(job[Writer]) /\ TextInv(job[Writer])
  BY <1>5, IdleFits
<1>8. \A s \in Sources : Shown(s) => s \in Indexed0 /\ src[s] = Settled
  BY <1>2, <1>3 DEF Shown
<1>9. <<model, 0>> \in TableIds /\ StoreTypeOK /\ Indexed0 \subseteq Sources
  BY <1>1, WriterJob, JobAssumption
<1>10. CASE Indexed0 = {}
  <2>1. registry = {} /\ phys = {} /\ rows = [t \in TableIds |-> {}]
    BY <1>10 DEF Init, StoreInit
  <2>2. \A st : WithStatus(st) = {}
    BY <2>1 DEF WithStatus
  <2>3. StoreInv
    BY <1>9, <2>1, <2>2 DEF StoreInv
  <2>4. Live = {}
    BY <2>2 DEF Live, Searchable, Open, ActiveTables
  <2>5. FoundInv
    BY <1>2, <1>8, <1>10, <2>4 DEF FoundInv
  <2> QED BY <1>6, <1>7, <2>3, <2>5 DEF WriterInv
<1>11. CASE Indexed0 # {}
  <2>1. PICK t : t = <<model, 0>>
    OBVIOUS
  <2>2. /\ registry = {<<t, "active">>} /\ phys = {t} /\ t \in TableIds /\ t[1] = model
        /\ rows = [u \in TableIds |-> IF u = t THEN {RawRow(s, 1) : s \in Indexed0} ELSE {}]
    BY <1>9, <1>11, <2>1 DEF Init
  <2>3. /\ WithStatus("active") = {t}
        /\ WithStatus("building") = {} /\ WithStatus("stale") = {}
    BY <2>2 DEF WithStatus
  <2>4. StoreInv
    BY <2>2, <2>3 DEF StoreInv
  <2>5. Live = rows[t]
    BY <2>2, <2>3 DEF Live, Searchable, Open, ActiveTables
  <2>6. Live = {RawRow(s, 1) : s \in Indexed0}
    BY <2>2, <2>5
  <2>7. \A s : RawRow(s, 1).src = s /\ RawRow(s, 1).ver = 1
    BY DEF RawRow
  <2>8. \A s \in Indexed0 : Findable(s) \/ src[s].ver # 1
    BY <2>6, <2>7 DEF Findable, Live
  <2>9. \A r \in Live : Present(r.src)
    BY <1>4, <1>9, <2>6, <2>7
  <2>10. \A q, r \in Live : q.src = r.src => q = r
    BY <2>6, <2>7
  <2>11. \A s \in Sources : Shown(s) => Findable(s)
    BY <1>3, <1>8, <2>8
  <2>12. FoundInv
    BY <1>2, <2>9, <2>10, <2>11 DEF FoundInv, Purged
  <2> QED BY <1>6, <1>7, <2>4, <2>12 DEF WriterInv
<1> QED BY <1>10, <1>11

\* Every step of the engine keeps what the one writer relies on.
LEMMA WriterStep ==
    ASSUME Solo, [Next]_vars
    PROVE  WriterInv'
<1>1. "ingest" \in Actors /\ "enrich" \in Actors
  BY DEF Actors
<1>2. CASE Request
  BY <1>2, AsideSolo, NoOther, CallPurgeKeeps DEF Request
<1>3. CASE Acquire
  BY <1>3, NoOther, IngestAcquireKeeps, EnrichGoSteps, PurgeAcquireKeeps DEF Acquire
<1>4. CASE IngestRun
  BY <1>4, IngestSolo
<1>5. CASE EnrichRun
  <2>1. CASE EnrichSkip \/ EnrichPreflightFail
    BY <2>1, AsideSolo
  <2>2. CASE \/ EnrichStart \/ EnrichMap \/ EnrichPersist \/ EnrichMeta \/ EnrichRelist
             \/ EnrichCoord
    BY <2>2, EnrichGoSteps
  <2>3. CASE \/ EnrichDropped \/ EnrichDegrade \/ EnrichPrefixOnly \/ EnrichLlmFail
             \/ EnrichAbort \/ EnrichFinish \/ EnrichFail
    BY <2>3, EnrichEndSteps
  <2>4. CASE Build("enrich")
    BY <1>1, <2>4, BuildSolo
  <2> QED BY <1>5, <2>1, <2>2, <2>3, <2>4 DEF EnrichRun
<1>6. CASE PurgeRun
  BY <1>6, PurgeSolo
<1>7. CASE StartUp \/ Crash
  BY <1>7, StartSolo, CrashSolo
<1>8. CASE UNCHANGED vars
  BY <1>8, AsideSolo
<1> QED BY <1>2, <1>3, <1>4, <1>5, <1>6, <1>7, <1>8, NoOther DEF Next

\* The inductive invariant of the one writer.
LEMMA WriterAlways ==
    ASSUME OneWriter
    PROVE  Spec => [](TypeInv /\ WriterInv)
<1>1. Init => UniqueActive
  BY DEF Init, StoreInit, UniqueActive, WithStatus
<1>2. Init => WriterInv
  BY WriterInit
<1>3. TypeInv /\ UniqueActive /\ [Next]_vars => UniqueActive'
  BY NextRegistry, UniqueStep
<1>4. TypeInv /\ UniqueActive /\ WriterInv /\ [Next]_vars => WriterInv'
  BY WriterStep DEF Solo
<1> QED BY <1>1, <1>2, <1>3, <1>4, TypeInit, TypeStep, PTL DEF Spec

\* Search reads one coordinate only: no other has an active row.
LEMMA OneCoordinate ==
    ASSUME WriterInv, NEW c \in Coords
    PROVE  Searchable(c) \subseteq Live
<1>1. c # model => Open(c) = {}
  BY DEF WriterInv, StoreInv, Open, ActiveTables, WithStatus
<1> QED BY <1>1 DEF Live, Searchable

\* A purged source leaves no vector that search reads: purge_source drops them
\* before the row, under the lock that keeps an ingest from writing new ones.  With
\* enrichment beside the purge, whose build copies the table without the lock, the
\* vectors come back: hence OneWriter.
THEOREM NoPhantomAlways ==
    ASSUME OneWriter
    PROVE  Spec => []NoPhantom
<1>1. WriterInv => NoPhantom
  BY OneCoordinate DEF NoPhantom, WriterInv, FoundInv
<1> QED BY <1>1, WriterAlways, PTL

\* Search finds a source once: a flip, an append after a wipe, a crash or a fault
\* between any two steps of them leaves one embedding of it.
THEOREM OneEmbeddingAlways ==
    ASSUME OneWriter
    PROVE  Spec => []OneEmbedding
<1>1. WriterInv => OneEmbedding
  BY OneCoordinate DEF OneEmbedding, WriterInv, FoundInv
<1> QED BY <1>1, WriterAlways, PTL

\* A source that is shown as indexed is found with the chunks it has now, whatever
\* fails and wherever the process dies: ingest leaves "indexed" before it wipes and
\* returns to it after the last vector is written; a build flips a whole table.  A
\* park drops the vectors while the row still says "indexed", and a source restored
\* while it is purged keeps its row: hence NoLoss.
THEOREM IndexedFindableAlways ==
    ASSUME OneWriter, NoLoss
    PROVE  Spec => []IndexedFindable
<1>1. TypeInv /\ WriterInv => IndexedFindable
  BY DEF IndexedFindable, WriterInv, FoundInv, Shown
<1> QED BY <1>1, WriterAlways, PTL

=============================================================================
