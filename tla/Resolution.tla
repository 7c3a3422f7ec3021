----------------------------- MODULE Resolution -----------------------------
(***************************************************************************)
(* Entity resolution (lens-core's resolution/worker.rs) beside the writers *)
(* of what it reads: the enrichment worker replaces a source's entity      *)
(* nodes under the notebook's lock and then triggers a pass through a      *)
(* bounded channel; an ingest's wipe and the purges delete nodes and their *)
(* vectors under ingest_lock, which a pass does not take.                  *)
(***************************************************************************)
EXTENDS Cascade

CONSTANTS
    Notebooks,
    NotebookOf,     \* the notebook of a source
    NoNotebook, NoSource,
    Found,          \* the sets of names that enrichment can find in a source
    Confidences,    \* the confidences the LLM answers with
    ChannelCap,     \* RESOLUTION_QUEUE_CAPACITY
    MaxJobs, MaxWipes, MaxCrashes,
    Failing         \* what may fail: "embed", "upsert", "cascade", "write" of a
                    \* pass, "cache", "flip", "wipe"

ASSUME ResolutionAssumption ==
    /\ NotebookOf \in [Sources -> Notebooks]
    /\ NoNotebook \notin Notebooks /\ NoSource \notin Sources
    /\ Found \in [Sources -> SUBSET SUBSET Names]
    /\ Confidences \subseteq 0 .. 100
    /\ ChannelCap \in Nat \ {0} /\ {MaxJobs, MaxWipes, MaxCrashes} \subseteq Nat

VARIABLES
    sources,    \* the sources that have a row
    notebooks,  \* the notebooks that have a row
    nodes,      \* entity_nodes
    alias,      \* canonical_name of a node
    ent,        \* the ent__ table of a notebook: the nodes with a vector, or NoTable
    cache,      \* adjudication_cache
    channel,    \* triggers that are sent and not received
    locked,     \* the notebooks whose lock the pass holds
    pass,       \* the resolution worker
    job,        \* the enrichment worker
    wipe,       \* the holder of ingest_lock that deletes
    jobs, wipes, crashes,   \* what has happened, for the bounds
    up,
    judged,     \* history: pairs found to be the same with enough confidence
    stale       \* history: notebooks that no pass is bound to bring up to date
vars == <<sources, notebooks, nodes, alias, ent, cache, channel, locked, pass, job, wipe,
          jobs, wipes, crashes, up, judged, stale>>
rowVars == <<sources, notebooks, nodes, alias>>
countVars == <<jobs, wipes, crashes, up>>

NoTable == {NoNotebook}
NodesOf(n) == {e \in nodes : NotebookOf[e.s] = n}
NoUpdates == [e \in {} |-> NoName]
NoPass == [at |-> "idle", todo |-> {}, nb |-> NoNotebook, list |-> {}, updates |-> NoUpdates]
NoJob == [at |-> "idle", s |-> NoSource]
NoWipe == [at |-> "idle", op |-> "none", s |-> NoSource]

TypeOK ==
    /\ sources \subseteq Sources /\ notebooks \subseteq Notebooks
    /\ nodes \subseteq Node /\ alias \in [Node -> Names \cup {NoName}]
    /\ \A n \in Notebooks : ent[n] = NoTable \/ ent[n] \subseteq {e \in Node : NotebookOf[e.s] = n}
    /\ cache \in [PairKeys -> {Unjudged} \cup Confidences]
    /\ channel \in Seq(Notebooks) /\ Len(channel) <= ChannelCap
    /\ pass.at \in {"idle", "next", "list", "delete", "add", "cascade", "write"}
    /\ pass.todo \subseteq Notebooks /\ pass.list \subseteq Node
    /\ locked \subseteq {pass.nb} /\ judged \subseteq PairKeys /\ stale \subseteq Notebooks
    /\ job.at \in {"idle", "write", "flip"} /\ wipe.at \in {"idle", "vectors", "rows"}
    /\ up \in BOOLEAN

Init ==
    /\ sources = Sources /\ notebooks = Notebooks /\ nodes = {}
    /\ alias = [e \in Node |-> NoName]
    /\ ent = [n \in Notebooks |-> NoTable]
    /\ cache = [k \in PairKeys |-> Unjudged]
    /\ channel = <<>> /\ locked = {}
    /\ pass = NoPass /\ job = NoJob /\ wipe = NoWipe
    /\ jobs = 0 /\ wipes = 0 /\ crashes = 0 /\ up = TRUE
    /\ judged = {} /\ stale = {}

-----------------------------------------------------------------------------
(* The enrichment worker: one job, from the start of its graph write.       *)

StartJob(s) ==
    /\ up /\ job.at = "idle" /\ jobs < MaxJobs /\ s \in sources
    /\ job' = [at |-> "write", s |-> s] /\ jobs' = jobs + 1
    /\ UNCHANGED <<rowVars, ent, cache, channel, locked, pass, wipe, wipes, crashes, up,
                   judged, stale>>

Replaced(s, names) == {e \in nodes : e.s # s} \cup [s : {s}, name : names]
Unaliased(s) == [e \in Node |-> IF e.s = s THEN NoName ELSE alias[e]]

\* Mutant: the graph is written without the notebook's lock.
GraphWrite_Unlocked(names) ==
    /\ up /\ job.at = "write" /\ job.s \in sources /\ names \in Found[job.s]
    /\ nodes' = Replaced(job.s, names) /\ alias' = Unaliased(job.s)
    /\ job' = [job EXCEPT !.at = "flip"]
    /\ UNCHANGED <<sources, notebooks, ent, cache, channel, locked, pass, wipe, countVars,
                   judged, stale>>

\* write_enrichment_and_graph under the lock of the notebook: the nodes of the
\* source are replaced in one transaction, their resolution columns are null.
GraphWrite(names) ==
    /\ up /\ job.at = "write" /\ job.s \in sources /\ names \in Found[job.s]
    /\ NotebookOf[job.s] \notin locked
    /\ nodes' = Replaced(job.s, names) /\ alias' = Unaliased(job.s)
    /\ job' = [job EXCEPT !.at = "flip"]
    /\ UNCHANGED <<sources, notebooks, ent, cache, channel, locked, pass, wipe, countVars,
                   judged, stale>>

\* The source was purged: its nodes have no row to refer to, the job fails.
GraphWriteFails ==
    /\ up /\ job.at = "write" /\ job.s \notin sources
    /\ job' = NoJob
    /\ UNCHANGED <<rowVars, ent, cache, channel, locked, pass, wipe, countVars, judged, stale>>

\* try_send of the trigger: dropped when the channel is full.
Trigger(n) ==
    /\ channel' = IF Len(channel) < ChannelCap THEN Append(channel, n) ELSE channel
    /\ stale' = IF n \in ToSet(channel') THEN stale ELSE stale \cup {n}

\* reembed_and_flip has succeeded (it takes ingest_lock); only then the trigger.
FlipAndTrigger ==
    /\ up /\ job.at = "flip" /\ wipe.at = "idle" /\ job.s \in sources
    /\ Trigger(NotebookOf[job.s])
    /\ job' = NoJob
    /\ UNCHANGED <<rowVars, ent, cache, locked, pass, wipe, countVars, judged>>

\* The re-embedding fails, or the source is purged under it: no trigger.
FlipFails ==
    /\ up /\ job.at = "flip"
    /\ "flip" \in Failing \/ job.s \notin sources
    /\ stale' = stale \cup {NotebookOf[job.s]}
    /\ job' = NoJob
    /\ UNCHANGED <<rowVars, ent, cache, channel, locked, pass, wipe, countVars, judged>>

-----------------------------------------------------------------------------
(* The resolution worker.                                                   *)

PassAt(at) == up /\ pass.at = at
PassFrame == UNCHANGED <<sources, notebooks, job, wipe, countVars>>

\* recv, then try_recv until the channel is empty: one pass per notebook.
Receive ==
    /\ PassAt("idle") /\ channel # <<>>
    /\ pass' = [NoPass EXCEPT !.at = "next", !.todo = ToSet(channel)]
    /\ channel' = <<>>
    /\ PassFrame /\ UNCHANGED <<nodes, alias, ent, cache, locked, judged, stale>>

\* The next notebook of the set, in any order, and its lock.
NextNotebook(n) ==
    /\ PassAt("next") /\ n \in pass.todo
    /\ pass' = [pass EXCEPT !.at = "list", !.nb = n]
    /\ locked' = {n}
    /\ PassFrame /\ UNCHANGED <<nodes, alias, ent, cache, channel, judged, stale>>

AllDone ==
    /\ PassAt("next") /\ pass.todo = {}
    /\ pass' = NoPass
    /\ PassFrame /\ UNCHANGED <<nodes, alias, ent, cache, channel, locked, judged, stale>>

\* The guard of the lock drops at every return of resolve_one.
EndPass == /\ pass' = [NoPass EXCEPT !.at = "next", !.todo = pass.todo \ {pass.nb}]
           /\ locked' = {}

\* The active coordinate, then list_entity_nodes.
ListNodes ==
    /\ PassAt("list")
    /\ pass.nb \in notebooks /\ Cardinality(NodesOf(pass.nb)) >= 2
    /\ pass' = [pass EXCEPT !.at = "delete", !.list = NodesOf(pass.nb)]
    /\ stale' = stale \ {pass.nb}
    /\ PassFrame /\ UNCHANGED <<nodes, alias, ent, cache, channel, locked, judged>>

\* No active coordinate (the notebook is gone), or fewer than two nodes.
NothingToResolve ==
    /\ PassAt("list")
    /\ ~(pass.nb \in notebooks /\ Cardinality(NodesOf(pass.nb)) >= 2)
    /\ EndPass
    /\ stale' = stale \ {pass.nb}
    /\ PassFrame /\ UNCHANGED <<nodes, alias, ent, cache, channel, judged>>

Rows(n) == IF ent[n] = NoTable THEN {} ELSE ent[n]

\* upsert_entity_vectors: the table is created when it is not there, the rows of
\* the nodes are deleted ...
UpsertDelete ==
    /\ PassAt("delete")
    /\ ent' = [ent EXCEPT ![pass.nb] = Rows(pass.nb) \ pass.list]
    /\ pass' = [pass EXCEPT !.at = "add"]
    /\ PassFrame /\ UNCHANGED <<nodes, alias, cache, channel, locked, judged, stale>>

\* ... and added anew, also to a table that purge_notebook has dropped since.
UpsertAdd ==
    /\ PassAt("add")
    /\ ent' = [ent EXCEPT ![pass.nb] = Rows(pass.nb) \cup pass.list]
    /\ pass' = [pass EXCEPT !.at = "cascade"]
    /\ PassFrame /\ UNCHANGED <<nodes, alias, cache, channel, locked, judged, stale>>

\* The pairs of the band that the cascade may have to decide.
Banded(a, b) == /\ a # b /\ Kind[a.name] = Kind[b.name]
                /\ Sim[a.name][b.name] >= KeepSeparate /\ Sim[a.name][b.name] < AutoMerge
Askable == {PairKey(p[1], p[2]) : p \in {q \in pass.list \X pass.list : Banded(q[1], q[2])}}

\* What the cache or the LLM says of each pair; after the budget is used up
\* nothing is asked, of the cache neither.
Verdicts == {v \in [Askable -> {Unjudged} \cup Confidences] :
               \A k \in Askable : v[k] \in {Unjudged, cache[k]} \/ cache[k] = Unjudged}

\* resolve_notebook.  put stores the new verdicts; a failing put is only logged.
Cascading ==
    /\ PassAt("cascade")
    /\ \E v \in Verdicts :
         LET r == Resolve(pass.list, Rows(pass.nb), v)
             new == {k \in r.asked : v[k] # Unjudged}
         IN  /\ pass' = [pass EXCEPT !.at = "write", !.updates = r.updates]
             /\ judged' = judged \cup {k \in new : v[k] >= WriteBar}
             /\ \/ cache' = [k \in PairKeys |-> IF k \in new THEN v[k] ELSE cache[k]]
                \/ "cache" \in Failing /\ cache' = cache
    /\ PassFrame /\ UNCHANGED <<nodes, alias, ent, channel, locked, stale>>

\* Mutant: the columns of the notebook are not reset first.
WriteUpdates_NoReset ==
    /\ PassAt("write")
    /\ alias' = [e \in Node |-> IF e \in nodes \cap DOMAIN pass.updates
                                THEN pass.updates[e] ELSE alias[e]]
    /\ EndPass
    /\ PassFrame /\ UNCHANGED <<nodes, ent, cache, channel, judged, stale>>

\* write_resolution_updates: one transaction resets the notebook's nodes and
\* sets those of the updates that are still there.
WriteUpdates ==
    /\ PassAt("write")
    /\ alias' = [e \in Node |-> IF e \notin NodesOf(pass.nb) THEN alias[e]
                                ELSE IF e \in DOMAIN pass.updates THEN pass.updates[e] ELSE NoName]
    /\ EndPass
    /\ PassFrame /\ UNCHANGED <<nodes, ent, cache, channel, judged, stale>>

FailsAt == [at \in {"delete", "add", "cascade", "write"} |->
              IF at = "delete" THEN {"embed", "upsert"} ELSE
              IF at = "add" THEN {"upsert"} ELSE {at}]

\* Mutant: a pass that fails keeps its lock.
PassFails_KeepsLock ==
    /\ up /\ pass.at \in DOMAIN FailsAt /\ FailsAt[pass.at] \cap Failing # {}
    /\ pass' = [NoPass EXCEPT !.at = "next", !.todo = pass.todo \ {pass.nb}, !.nb = pass.nb]
    /\ locked' = locked
    /\ stale' = stale \cup {pass.nb}
    /\ PassFrame /\ UNCHANGED <<nodes, alias, ent, cache, channel, judged>>

\* An error ends the pass, which is only logged.
PassFails ==
    /\ up /\ pass.at \in DOMAIN FailsAt /\ FailsAt[pass.at] \cap Failing # {}
    /\ EndPass
    /\ stale' = stale \cup {pass.nb}
    /\ PassFrame /\ UNCHANGED <<nodes, alias, ent, cache, channel, judged>>

-----------------------------------------------------------------------------
(* What deletes nodes: a re-ingest's wipe, purge_source, purge_notebook,    *)
(* each under ingest_lock, vectors before rows.                             *)

WipeFrame == UNCHANGED <<cache, channel, pass, job, jobs, crashes, up, judged>>

StartWipe(op, s) ==
    /\ up /\ wipe.at = "idle" /\ wipes < MaxWipes
    /\ s \in sources
    /\ wipe' = [at |-> "vectors", op |-> op, s |-> s] /\ wipes' = wipes + 1
    /\ WipeFrame /\ UNCHANGED <<rowVars, ent, locked, stale>>

\* drop_entity_source, or drop_entity_tables_for_notebook.
WipeVectors ==
    /\ up /\ wipe.at = "vectors"
    /\ LET n == NotebookOf[wipe.s]
       IN  ent' = [ent EXCEPT ![n] = IF wipe.op = "purge_notebook" \/ @ = NoTable THEN NoTable
                                     ELSE {e \in @ : e.s # wipe.s}]
    /\ stale' = stale \cup {NotebookOf[wipe.s]}
    /\ wipe' = [wipe EXCEPT !.at = "rows"]
    /\ WipeFrame /\ UNCHANGED <<rowVars, locked, wipes>>

\* The rows: of the wiped source its nodes, of a purged one itself too, of a
\* purged notebook everything, and its entry in notebook_locks.
WipeRows ==
    /\ up /\ wipe.at = "rows"
    /\ LET n == NotebookOf[wipe.s]
           gone == IF wipe.op = "purge_notebook" THEN {s \in Sources : NotebookOf[s] = n}
                   ELSE {wipe.s}
       IN  /\ nodes' = {e \in nodes : e.s \notin gone}
           /\ alias' = [e \in Node |-> IF e.s \in gone THEN NoName ELSE alias[e]]
           /\ sources' = IF wipe.op = "reingest" THEN sources ELSE sources \ gone
           /\ notebooks' = IF wipe.op = "purge_notebook" THEN notebooks \ {n} ELSE notebooks
           /\ locked' = IF wipe.op = "purge_notebook" THEN locked \ {n} ELSE locked
           /\ stale' = stale \cup {n}
    /\ wipe' = NoWipe
    /\ WipeFrame /\ UNCHANGED <<ent, wipes>>

WipeFails ==
    /\ up /\ wipe.at # "idle" /\ "wipe" \in Failing
    /\ wipe' = NoWipe
    /\ WipeFrame /\ UNCHANGED <<rowVars, ent, locked, wipes, stale>>

-----------------------------------------------------------------------------
(* A process death, and the start-up.                                       *)

\* A trigger, a pass or a job is there that will look at the notebook.
Pending(n) == \/ n \in ToSet(channel) \cup pass.todo
              \/ job.at # "idle" /\ NotebookOf[job.s] = n

Crash ==
    /\ up /\ crashes < MaxCrashes
    /\ up' = FALSE /\ crashes' = crashes + 1
    /\ channel' = <<>> /\ pass' = NoPass /\ job' = NoJob /\ wipe' = NoWipe /\ locked' = {}
    /\ stale' = stale \cup {n \in Notebooks : Pending(n)}
    /\ UNCHANGED <<rowVars, ent, cache, jobs, wipes, judged>>

\* gc_orphan_entity_tables.
Start ==
    /\ ~up /\ up' = TRUE
    /\ ent' = [n \in Notebooks |-> IF n \in notebooks THEN ent[n] ELSE NoTable]
    /\ UNCHANGED <<rowVars, cache, channel, locked, pass, job, wipe, jobs, wipes, crashes,
                   judged, stale>>

-----------------------------------------------------------------------------

JobStep == (\E names \in UNION {Found[s] : s \in Sources} : GraphWrite(names)) \/ GraphWriteFails
             \/ FlipAndTrigger \/ FlipFails
PassStep == \/ Receive \/ AllDone \/ ListNodes \/ NothingToResolve
            \/ \E n \in Notebooks : NextNotebook(n)
            \/ PassFails \/ UpsertDelete \/ UpsertAdd \/ Cascading \/ WriteUpdates
WipeStep == WipeVectors \/ WipeRows \/ WipeFails
Next ==
    \/ \E s \in Sources : StartJob(s)
    \/ \E s \in Sources, op \in {"reingest", "purge", "purge_notebook"} : StartWipe(op, s)
    \/ JobStep \/ PassStep \/ WipeStep
    \/ Crash \/ Start
Spec == Init /\ [][Next]_vars

\* The two workers are tasks of tokio and take the notebook's lock, a fair
\* mutex; a wipe ends, and so does a start.
FairSpec == /\ Spec /\ WF_vars(JobStep) /\ WF_vars(PassStep)
            /\ WF_vars(WipeStep) /\ WF_vars(Start)

-----------------------------------------------------------------------------
(* Properties.                                                              *)

\* worker.rs: the lock is held "for the WHOLE pass so an enrichment write on the
\* same notebook cannot interleave".  Between listing and writing the notebook
\* gains no node, so the reset of write_resolution_updates meets none that the
\* pass has not resolved.
ListedCovers ==
    pass.at \in {"delete", "add", "cascade", "write"} => NodesOf(pass.nb) \subseteq pass.list

\* With nothing pending, and nothing deleted, dropped or failed since the last
\* pass listed the notebook, the canonical names are those of the reference: what
\* is the same by name or by vector shares one, and nothing shares one that is
\* not linked by such pairs and adjudicated ones.
AliasesCurrent ==
    \A n \in notebooks :
        ~Pending(n) /\ n \notin stale /\ Cardinality(NodesOf(n)) >= 2
            => Justified(NodesOf(n), judged, alias)

\* notebooks.rs, write_resolution_updates: "a node that is no longer in a merged
\* group does not retain a stale alias".
NoStaleAlias ==
    \A n \in notebooks :
        ~Pending(n) /\ n \notin stale => Justified(NodesOf(n), judged, alias)

\* A notebook that an enrichment job or a trigger waits for is not waited for
\* for ever: the pass, or its failure, always comes.
PendingEnds == \A n \in Notebooks : Pending(n) ~> ~Pending(n)

=============================================================================
