----------------------------- MODULE Answering -----------------------------
(***************************************************************************)
(* A grounded answer, from the question to its citations, while the        *)
(* sources it reads are ingested again, selected, trashed and purged:      *)
(* answer_stream of lens-core's answer.rs and tiered_search of             *)
(* retrieval/router.rs.  Every read of the database or of the vectors is a *)
(* step of its own; what is computed between two reads is in Retrieval.    *)
(***************************************************************************)
EXTENDS Chunker, Retrieval, TLC

CONSTANTS
    Source,
    Order,          \* the sources by created_at
    Docs,           \* the contents a source can have
    FirstDocs,      \* ... and those each has at the first question
    Content,        \* ... the chunks of each, with what their texts cost; none of a blank one
    Outline,        \* ... and its sections
    Failed,         \* the sources whose first ingest failed once it had written the chunks
    Queries,        \* the questions, with what each search finds in each content
    Context,        \* the model's context window
    Fallback,       \* thresholds, used when it is not known
    Overfetch, Pool,
    BaseCost,       \* the cost of the rules and of the question
    MaxMarkers,     \* markers in an answer
    MaxGen,         \* ingests of a source
    MaxChanges      \* operations on the sources, to keep the instance small

\* A row of chunks, a row of sections, and a question.
Place == Source \X Nat
ChunkRow == [parent : Nat, start : Nat, end : Nat, from : Nat, to : Nat, cost : Nat]
SectionRow == [level : Nat, title : STRING, ordinal : Nat, start : Nat, end : Nat]
Expanded == [at : Place, conf : Nat]
Question ==
    [positional : BOOLEAN, target : [numbered : BOOLEAN, ordinal : Nat, noun : STRING],
     dense : Seq(Place), bm25 : Seq(Place), evidence : Seq(Place),
     expansion : Seq(Expanded), rerank : Seq(Place), history : Seq(Nat)]
NoCount == -1       \* token_count is NULL

ASSUME AnsweringAssumption ==
    /\ Order \in Seq(Source) /\ ToSet(Order) = Source
    /\ \A i, j \in DOMAIN Order : Order[i] = Order[j] => i = j
    /\ Content \in [Docs -> Seq(ChunkRow)] /\ Outline \in [Docs -> Seq(SectionRow)]
    /\ \A d \in Docs : ParentsAdvance(Content[d])
    /\ Queries \subseteq Question
    /\ \A q \in Queries : IsInjective(q.bm25)
    /\ FirstDocs \in [Source -> SUBSET Docs] /\ Failed \subseteq Source
    /\ {Overfetch, Pool} \subseteq Nat /\ RrfK \in Nat \ {0}

VARIABLES
    src,        \* the row of each source, its chunks and its vectors
    active,     \* the coordinate has an active index
    changes,    \* the operations on the sources so far
    stage,      \* what the question does next
    query,
    scope,      \* resolve_selected_sources: the sources with their token counts
    todo,       \* what is still to be read, one query for each
    passages,   \* what has been read of tiers 0 and 1
    spans,      \* the sections the question means
    lists,      \* what the searches of tier 2 have found
    hits,       \* the fused hits
    retrieved,  \* the hydrated hits
    counts,     \* the children of each parent
    shown,      \* the prompt's units
    markers, citations,
    outcome,
    withdrawn,  \* the sources that have been out of scope since hydration began
    steady,     \* the sources nothing has touched since the question began
    kept        \* the sources of the hits that fuse_and_rerank has kept

sources == <<src, active, changes>>
searched == <<spans, lists, hits, retrieved, counts>>
ends == <<shown, markers, citations, outcome>>
asked == <<stage, query, scope, todo, passages, searched, ends>>
history == <<withdrawn, steady, kept>>
vars == <<sources, asked, history>>

-----------------------------------------------------------------------------
(* What the stores hold.                                                    *)

NoParent == <<>>

\* Mutant: a chunk is known by its source and its place, ingest after ingest.
Ingested_StableIds(s, gen, doc) ==
    {LET c == Content[doc][i]
     IN  [id |-> <<s, 1, i>>, source |-> s, gen |-> gen, place |-> i,
          parent |-> IF c.parent = 0 THEN NoParent ELSE <<s, 1, c.parent>>,
          level |-> IF c.parent = 0 THEN 0 ELSE 1, from |-> c.from,
          start |-> c.start, end |-> c.end, cost |-> c.cost,
          score |-> 0, read |-> FALSE, merged |-> FALSE]
       : i \in DOMAIN Content[doc]}

\* The chunks of a document in a source's gen-th ingest, before a question reads them.
Ingested(s, gen, doc) ==
    {LET c == Content[doc][i]
     IN  [id |-> <<s, gen, i>>, source |-> s, gen |-> gen, place |-> i,
          parent |-> IF c.parent = 0 THEN NoParent ELSE <<s, gen, c.parent>>,
          level |-> IF c.parent = 0 THEN 0 ELSE 1, from |-> c.from,
          start |-> c.start, end |-> c.end, cost |-> c.cost,
          score |-> 0, read |-> FALSE, merged |-> FALSE]
       : i \in DOMAIN Content[doc]}

Rows(s) == IF src[s].there THEN Ingested(s, src[s].gen, src[s].doc) ELSE {}
AllRows == UNION {Rows(s) : s \in Source}

\* SELECTED_LIVE_WHERE and RETRIEVAL_LIVE_WHERE.
Live(s) == src[s].there /\ src[s].selected /\ ~src[s].trashed
LiveRows == UNION {Rows(s) : s \in {t \in Source : Live(t)}}

Parents(rows) == {p \in rows : p.parent = NoParent}
Children(rows) == {p \in rows : p.parent # NoParent}
\* ORDER BY level ASC, token_start ASC and ORDER BY char_start ASC.
ByTokens(rows) == Ordered(rows, LAMBDA a, b : a.from < b.from)
ByStart(rows) == Ordered(rows, LAMBDA a, b : a.start < b.start)

\* The ids of rows in the order a search ranks their places.
Ranked(ranking, rows) ==
    LET At(r) == {p \in rows : <<p.source, p.place>> = r}
        found == Kept(ranking, {i \in DOMAIN ranking : At(ranking[i]) # {}})
    IN  [i \in DOMAIN found |-> (CHOOSE p \in At(found[i]) : TRUE).id]

Caps == TierCaps(Context, Total(BudgetHistory(query.history, Context)), Fallback)

-----------------------------------------------------------------------------
(* The sources.                                                             *)

Row(s, row) ==
    /\ src' = [src EXCEPT ![s] = row]
    /\ withdrawn' = withdrawn \ {t \in {s} : row.there /\ row.selected /\ ~row.trashed}
    /\ steady' = steady \ {s}
    /\ UNCHANGED <<active, asked, kept>>

\* An operation begins, and one that has begun goes on.
Begins(s, row) == src[s].there /\ changes < MaxChanges /\ changes' = changes + 1 /\ Row(s, row)
GoesOn(s, row) == changes' = changes /\ Row(s, row)

Idle == \A s \in Source : src[s].phase = "settled"     \* ingest_lock is free

SetSelected(s) == Begins(s, [src[s] EXCEPT !.selected = ~@])
Trash(s)       == ~src[s].trashed /\ Begins(s, [src[s] EXCEPT !.trashed = TRUE])
Restore(s)     == src[s].trashed /\ Begins(s, [src[s] EXCEPT !.trashed = FALSE])

\* An ingest drops the vectors, ...
IngestWipes(s) ==
    /\ Idle /\ src[s].gen < MaxGen
    /\ Begins(s, [src[s] EXCEPT !.vectors = FALSE, !.phase = "wiped"])

\* ... replaces the chunks and the sections in one transaction (a blank document, a
\* cancelled ingest and a page that needs rendering leave none) ...
IngestWrites(s) ==
    /\ src[s].phase = "wiped"
    /\ \E d \in Docs :
         GoesOn(s, [src[s] EXCEPT !.gen = @ + 1, !.doc = d, !.phase = "written"])

\* ... and ends with the new vectors and the new token count.
IngestEnds(s) ==
    /\ src[s].phase = "written"
    /\ GoesOn(s, [src[s] EXCEPT !.vectors = TRUE, !.phase = "settled",
                                !.tokens = SourceTokens(Content[src[s].doc])])

\* An error after the drop leaves what is written and the old count.
IngestFails(s) ==
    /\ src[s].phase \in {"wiped", "written"}
    /\ GoesOn(s, [src[s] EXCEPT !.phase = "settled"])

PurgeVectors(s) ==
    /\ Idle
    /\ Begins(s, [src[s] EXCEPT !.vectors = FALSE, !.phase = "purging"])

PurgeRow(s) ==
    /\ src[s].phase = "purging"
    /\ GoesOn(s, [src[s] EXCEPT !.there = FALSE, !.phase = "settled"])

\* The first index of the coordinate is promoted.
Promote ==
    /\ ~active
    /\ active' = TRUE
    /\ UNCHANGED <<src, changes, asked, history>>

SourceStep ==
    \/ \E s \in Source :
         \/ SetSelected(s) \/ Trash(s) \/ Restore(s)
         \/ IngestWipes(s) \/ IngestWrites(s) \/ IngestEnds(s) \/ IngestFails(s)
         \/ PurgeVectors(s) \/ PurgeRow(s)
    \/ Promote


-----------------------------------------------------------------------------
(* The question.                                                            *)

NoLists == [dense |-> <<>>, bm25 |-> <<>>, graph |-> <<>>]
Nothing ==
    /\ scope = <<>> /\ todo = <<>> /\ passages = <<>> /\ spans = <<>>
    /\ lists = NoLists /\ hits = <<>> /\ retrieved = <<>> /\ counts = <<>>
    /\ shown = <<>> /\ markers = <<>> /\ citations = <<>>
LetGo ==
    /\ scope' = <<>> /\ todo' = <<>> /\ passages' = <<>> /\ spans' = <<>>
    /\ lists' = NoLists /\ hits' = <<>> /\ retrieved' = <<>> /\ counts' = <<>>
    /\ shown' = <<>> /\ markers' = <<>> /\ citations' = <<>>

Ask(q) ==
    /\ stage = "idle"
    /\ query' = q /\ stage' = "resolve" /\ outcome' = "none"
    /\ LetGo
    /\ withdrawn' = {} /\ kept' = <<>>
    /\ steady' = {s \in Source : Live(s) /\ src[s].phase = "settled"}
    /\ UNCHANGED sources

\* The question is over and what it held is let go.
Ends(result) ==
    /\ stage' = "idle" /\ outcome' = result /\ LetGo /\ withdrawn' = {}
    /\ UNCHANGED <<query, sources, steady, kept>>

\* A stop is noticed at a check of the token, anything else fails with its read.
Stops ==
    /\ stage \in {"resolve", "assembled", "prompt", "stream", "locators"}
    /\ Ends("stopped")
Fails ==
    /\ stage # "idle"
    /\ Ends("failed")

Scoped == [i \in DOMAIN scope |-> scope[i].source]
OutOfScope == {s \in Source : ~Live(s)}

Resolve ==
    /\ stage = "resolve"
    /\ LET found == Kept(Order, {i \in DOMAIN Order : Live(Order[i])})
       IN  /\ scope' = [i \in DOMAIN found |->
                          [source |-> found[i], tokens |-> src[found[i]].tokens]]
           /\ todo' = found
           /\ stage' = CASE found = <<>> -> "assembled"
                         [] found # <<>> /\ query.positional -> "sections"
                         [] OTHER -> "sum"
    /\ UNCHANGED <<query, passages, searched, ends, sources, history>>

\* The outline of one source is read, whether it is still in scope or not.
ReadSections ==
    /\ stage = "sections"
    /\ LET s == Head(todo)
           outline == IF src[s].there THEN Outline[src[s].doc] ELSE <<>>
           picked == PickSection(outline, query.target)
       IN  spans' = spans \o [i \in DOMAIN picked |->
                        [source |-> s, start |-> picked[i].start, end |-> picked[i].end]]
    /\ IF Len(todo) > 1 THEN /\ todo' = Tail(todo)
                             /\ UNCHANGED <<stage, withdrawn>>
       ELSE /\ todo' = spans'
            /\ stage' = IF spans' = <<>> THEN "sum" ELSE "spans"
            /\ withdrawn' = OutOfScope
    /\ UNCHANGED <<query, scope, passages, lists, hits, retrieved, counts, ends, sources, steady, kept>>

\* Mutant: a section without passages is the end of it.
ReadSpan_NoFallback ==
    /\ stage = "spans"
    /\ LET x == Head(todo)
           found == {p \in Parents(Rows(x.source)) : Live(x.source) /\ MidpointIn(p, x)}
           all == passages \o ByStart(found)
       IN  /\ todo' = Tail(todo)
           /\ IF Len(todo) > 1 THEN passages' = all /\ UNCHANGED stage
              ELSE /\ passages' = Within(all, Caps.tier2)
                   /\ stage' = "assembled"
    /\ UNCHANGED <<query, scope, searched, ends, sources, history>>

ReadSpan ==
    /\ stage = "spans"
    /\ LET x == Head(todo)
           found == {p \in Parents(Rows(x.source)) : Live(x.source) /\ MidpointIn(p, x)}
           all == passages \o ByStart(found)
       IN  /\ todo' = Tail(todo)
           /\ IF Len(todo) > 1 THEN passages' = all /\ UNCHANGED stage
              ELSE /\ passages' = Within(all, Caps.tier2)
                   /\ stage' = IF all = <<>> THEN "sum" ELSE "assembled"
    /\ UNCHANGED <<query, scope, searched, ends, sources, history>>

-----------------------------------------------------------------------------
(* Tier 1, or tier 2.                                                       *)

TextCost(s) == Total(Costs(ByTokens(Parents(Rows(s)))))
BeginTier1 == stage' = "tier1" /\ todo' = Scoped /\ withdrawn' = OutOfScope

\* tier1_sum; a source that has no count yet is estimated from its text.
SumTokens ==
    /\ stage = "sum"
    /\ LET sum == Total([i \in DOMAIN scope |->
                    IF scope[i].tokens # NoCount THEN scope[i].tokens ELSE TextCost(scope[i].source)])
           small == sum <= Caps.tier1 /\ \A i \in DOMAIN scope : scope[i].tokens <= Caps.tier1
       IN  CASE small /\ WithinMargin(sum, Caps.tier1) ->
                  stage' = "recount" /\ UNCHANGED <<todo, withdrawn>>
             [] small /\ ~WithinMargin(sum, Caps.tier1) -> BeginTier1
             [] OTHER -> stage' = "dense" /\ UNCHANGED <<todo, withdrawn>>
    /\ UNCHANGED <<query, scope, passages, searched, ends, sources, steady, kept>>

\* exact_tier1_sum; without a tokenizer the estimate stands.
Recount ==
    /\ stage = "recount"
    /\ \/ BeginTier1
       \/ /\ Total([i \in DOMAIN scope |-> TextCost(scope[i].source)]) > Caps.tier1
          /\ stage' = "dense" /\ UNCHANGED <<todo, withdrawn>>
    /\ UNCHANGED <<query, scope, passages, searched, ends, sources, steady, kept>>

ReadParentRows ==
    /\ stage = "tier1"
    /\ LET s == Head(todo)
           all == passages \o ByTokens({p \in Parents(Rows(s)) : Live(s)})
       IN  /\ todo' = Tail(todo)
           /\ IF Len(todo) > 1 THEN passages' = all /\ UNCHANGED stage
              ELSE /\ passages' = Within(all, Caps.tier1)
                   /\ stage' = "assembled"
    /\ UNCHANGED <<query, scope, searched, ends, sources, history>>

-----------------------------------------------------------------------------
(* Tier 2: the searches.                                                    *)

Searches(next, found) ==
    /\ lists' = found /\ stage' = next
    /\ UNCHANGED <<query, scope, todo, passages, spans, hits, retrieved, counts, ends, sources, history>>

LiveIds(ids) == Kept(ids, {i \in DOMAIN ids : \E p \in LiveRows : p.id = ids[i]})

\* The vectors of the sources in scope; there are none without an active index.
SearchDense ==
    /\ stage = "dense"
    /\ LET vectors == UNION {Children(Rows(s)) : s \in {t \in ToSet(Scoped) : active /\ src[t].vectors}}
       IN  Searches("live", [lists EXCEPT !.dense = First(Overfetch, Ranked(query.dense, vectors))])

FilterDense ==
    /\ stage = "live"
    /\ Searches("bm25", [lists EXCEPT !.dense = LiveIds(@)])

\* The index of the texts holds the parents too; it finds nothing when
\* hybrid_enabled is off, which is a question whose bm25 is empty.
SearchBm25 ==
    /\ stage = "bm25"
    /\ Searches("graph", [lists EXCEPT !.bm25 = First(Overfetch, Ranked(query.bm25, LiveRows))])

SearchGraph ==
    /\ stage = "graph"
    /\ LET Found(e) == Ranked(<<e.at>>, LiveRows)
           expansion == query.expansion
           reached == Kept(expansion, {i \in DOMAIN expansion : Found(expansion[i]) # <<>>})
       IN  Searches("livegraph", [lists EXCEPT !.graph =
             GraphArm(Ranked(query.evidence, LiveRows),
                      [i \in DOMAIN reached |->
                         [id |-> Found(reached[i])[1], conf |-> reached[i].conf]],
                      Overfetch)])

HitSources == [i \in DOMAIN hits |-> hits[i].id[1]]

\* fuse_and_rerank, up to the reranker.
FuseHits ==
    /\ stage = "livegraph"
    /\ LET fused == Fuse(lists.dense, lists.bm25, LiveIds(lists.graph), Overfetch)
           plain == [i \in DOMAIN fused |->
                       [id |-> fused[i].id, score |-> fused[i].score, read |-> FALSE]]
           rerank == query.rerank # <<>> /\ fused # <<>>
       IN  /\ hits' = IF rerank THEN plain ELSE First(Pool, plain)
           /\ stage' = IF rerank THEN "rerank" ELSE "meta"
    /\ kept' = HitSources' /\ withdrawn' = OutOfScope
    /\ UNCHANGED <<query, scope, todo, passages, spans, lists, retrieved, counts, ends, sources, steady>>

\* The hits in the reranker's order.
Reranked(s) ==
    LET At(h) == Rank(query.rerank, <<h.id[1], h.id[3]>>)
    IN  Sorted(s, LAMBDA a, b : At(a) < At(b))

\* The reranker reads the texts and orders the hits its own way, or falls back.
Rerank ==
    /\ stage = "rerank"
    /\ LET Text(id) == \E p \in AllRows : p.id = id
           read == [i \in DOMAIN hits |-> [hits[i] EXCEPT !.read = Text(hits[i].id)]]
           best == Reranked(read)
           scored == [i \in DOMAIN best |-> [best[i] EXCEPT !.score = Len(best) - i]]
       IN  hits' \in {First(Pool, read), First(Pool, scored)}
    /\ stage' = "meta" /\ kept' = HitSources' /\ withdrawn' = OutOfScope
    /\ UNCHANGED <<query, scope, todo, passages, spans, lists, retrieved, counts, ends, sources, steady>>

-----------------------------------------------------------------------------
(* Tier 2: hydration and assembly.                                          *)

Hydrates(next, found) ==
    /\ retrieved' = found /\ stage' = next
    /\ UNCHANGED <<query, scope, todo, passages, spans, lists, hits, counts, ends, sources, history>>

\* The hits that are among the rows, with what these say of them.
Hydrated(rows) ==
    LET Meta(h) == CHOOSE p \in rows : p.id = h.id
        found == Kept(hits, {i \in DOMAIN hits : \E p \in rows : p.id = hits[i].id})
    IN  [i \in DOMAIN found |->
           [Meta(found[i]) EXCEPT !.score = found[i].score, !.read = found[i].read]]

\* Mutant: the hits are hydrated by their ids alone.
ReadMeta_NoScope == stage = "meta" /\ Hydrates("texts", Hydrated(AllRows))

\* One query for all hits: what is not there any more, or not in scope, is dropped.
ReadMeta == stage = "meta" /\ Hydrates("texts", Hydrated(LiveRows))

\* The texts the reranker has not read; one that has gone meanwhile is empty.
ReadTexts ==
    /\ stage = "texts"
    /\ LET Gone(r) == ~r.read /\ \A p \in AllRows : p.id # r.id
       IN  Hydrates("counts", [i \in DOMAIN retrieved |->
             [retrieved[i] EXCEPT !.cost = IF Gone(retrieved[i]) THEN 0 ELSE @]])

ReadCounts ==
    /\ stage = "counts"
    /\ counts' = [p \in {retrieved[i].parent : i \in DOMAIN retrieved} \ {NoParent} |->
                    Cardinality({c \in AllRows : c.parent = p})]
    /\ stage' = "parents"
    /\ UNCHANGED <<query, scope, todo, passages, spans, lists, hits, retrieved, ends, sources, history>>

ReadParents ==
    /\ stage = "parents"
    /\ LET parents == {p \in LiveRows : p.id \in Merging(retrieved, counts)}
       IN  passages' = TrimAndOrder(Candidates(retrieved, counts, parents), Scoped, Caps.tier2)
    /\ stage' = "assembled"
    /\ UNCHANGED <<query, scope, todo, searched, ends, sources, history>>

-----------------------------------------------------------------------------
(* The answer.                                                              *)

Moves(next) ==
    /\ stage' = next
    /\ UNCHANGED <<query, scope, todo, passages, searched, ends, sources, history>>

Assembled ==
    /\ stage = "assembled"
    /\ Moves(IF passages = <<>> THEN "gap" ELSE "prompt")

\* reindexing_gap: chunks in scope but no active index is not "no sources".
ReadGap == stage = "gap" /\ LiveRows # {} /\ Moves("index")
Refuse ==
    /\ \/ stage = "gap" /\ LiveRows = {}
       \/ stage = "index" /\ active
    /\ Ends("refused")
Reindexing ==
    /\ stage = "index" /\ ~active
    /\ Ends("reindexing")

\* Titles and labels are read; what they do not find is left out of the prompt.
BuildPrompt ==
    /\ stage = "prompt"
    /\ shown' = Fit(passages, BudgetHistory(query.history, Context), BaseCost, Context).units
    /\ stage' = "stream"
    /\ UNCHANGED <<query, scope, todo, passages, searched, markers, citations, outcome, sources, history>>

\* The model writes an answer with some markers, of units it saw or not.
Stream ==
    /\ stage = "stream"
    /\ \E n \in 0 .. MaxMarkers : \E written \in [1 .. n -> 1 .. Len(passages) + 1] :
         /\ markers' = written
         /\ citations' = ExtractCitations(written, shown)
    /\ stage' = "locators"
    /\ UNCHANGED <<query, scope, todo, passages, searched, shown, outcome, sources, history>>

\* The places in the sources are added to the citations.
Answered ==
    /\ stage = "locators"
    /\ Ends("answered")

QuestionStep ==
    \/ \E q \in Queries : Ask(q)
    \/ Stops \/ Fails \/ Resolve \/ ReadSections \/ ReadSpan
    \/ SumTokens \/ Recount \/ ReadParentRows
    \/ SearchDense \/ FilterDense \/ SearchBm25 \/ SearchGraph \/ FuseHits \/ Rerank
    \/ ReadMeta \/ ReadTexts \/ ReadCounts \/ ReadParents
    \/ Assembled \/ ReadGap \/ Refuse \/ Reindexing \/ BuildPrompt \/ Stream \/ Answered

\* What a source can be when the first question is asked.
FirstRows(s) ==
    {[there |-> TRUE, selected |-> TRUE, trashed |-> FALSE, gen |-> 1, doc |-> d,
      tokens |-> IF s \in Failed THEN NoCount ELSE SourceTokens(Content[d]),
      vectors |-> s \notin Failed, phase |-> "settled"] : d \in FirstDocs[s]}

Init ==
    /\ src \in [Source -> UNION {FirstRows(s) : s \in Source}]
    /\ \A s \in Source : src[s] \in FirstRows(s)
    /\ active \in BOOLEAN /\ changes = 0
    /\ stage = "idle" /\ query = <<>> /\ outcome = "none" /\ Nothing
    /\ withdrawn = {} /\ steady = {} /\ kept = <<>>

Next == SourceStep \/ QuestionStep

Spec == Init /\ [][Next]_vars

-----------------------------------------------------------------------------
(* Properties.                                                              *)

\* What the answer is grounded on is in scope: no passage of a source that was
\* trashed, deselected or purged before the passages were hydrated, and has not been
\* brought back, is among them, whichever tier read it (RETRIEVAL_LIVE_WHERE at every
\* hydration site of router.rs).
NoWithdrawnText == \A i \in DOMAIN passages : passages[i].source \notin withdrawn

\* The passages of a source are all of one ingest of it: an ingest that replaces the
\* chunks between two reads never leaves the two versions of a text side by side.
OneIngest ==
    \A i, j \in DOMAIN passages :
        passages[i].source = passages[j].source => passages[i].gen = passages[j].gen

\* A source that stays in scope and untouched while the question runs, and in whose
\* chunks the lexical search finds the question's words, is evidence: the question is
\* not refused as having no sources and not put off as reindexing, whichever tier was
\* tried first.  One way is left: the cuts of the search and of the reranker were full,
\* and of nothing but sources that something has touched since the question began.
Crowded == Len(kept) >= Min({Overfetch, Pool}) /\ ToSet(kept) \cap steady = {}
EvidenceIsFound ==
    outcome \in {"refused", "reindexing"} =>
        \/ \A s \in steady : \A p \in Rows(s) : <<s, p.place>> \notin ToSet(query.bm25)
        \/ Crowded

\* The same without that way, which the cuts refute: the hits of a source that is ingested
\* again or leaves take the places of the evidence, and are dropped when they are read.
UncutEvidence ==
    outcome \in {"refused", "reindexing"} =>
        \A s \in steady : \A p \in Rows(s) : <<s, p.place>> \notin ToSet(query.bm25)

\* doc_order_key: "so the final units re-sort to reading order regardless of
\* retrieval rank".
ReadingOrder ==
    \A i, j \in DOMAIN passages :
        i < j /\ passages[i].source = passages[j].source => passages[i].start <= passages[j].start

=============================================================================
