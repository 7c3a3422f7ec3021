------------------------------ MODULE Chunker ------------------------------
(***************************************************************************)
(* The chunks and the outline of a document: lens-core's chunk.rs and      *)
(* section.rs.                                                             *)
(*                                                                         *)
(* A document is a text, a sequence of letters and spaces, and the         *)
(* sequence of its blocks.  A block has the span [start, end) of its text  *)
(* (offsets count from 0), the depth of its heading trail if it is a       *)
(* heading, 0 if it is not, and the noun of its title.  Characters are one *)
(* byte long.  The tokenizer makes one token of each letter and adds       *)
(* Special tokens to every text it encodes.                                *)
(***************************************************************************)
EXTENDS Integers, FiniteSets, Sequences, SequencesExt, FiniteSetsExt

CONSTANTS
    ParentLimit,    \* PARENT_TOKEN_TARGET + PARENT_TOKEN_TOLERANCE
    ChildLimit,     \* CHILD_TOKEN_TARGET + CHILD_TOKEN_TOLERANCE
    Overlap,        \* CHILD_OVERLAP_TOKENS
    Special         \* the tokens of encode("", true)

ASSUME ChunkerAssumption ==
    /\ {ParentLimit, ChildLimit, Overlap, Special} \subseteq Nat
    /\ Special + Overlap < ChildLimit /\ ChildLimit <= ParentLimit

Letter == "a"
Space == " "

IsSpace(doc, i) == doc.text[i + 1] = Space
Letters(doc, a, b) == {i \in a .. b - 1 : ~IsSpace(doc, i)}
TokenCount(doc, a, b) == Special + Cardinality(Letters(doc, a, b))

NonBlank(doc) == SelectSeq(doc.blocks, LAMBDA b : Letters(doc, b.start, b.end) # {})

-----------------------------------------------------------------------------
(* Splitting one block.                                                     *)

\* find_split: where to cut [a, b) so that the first part has at most limit
\* tokens, at the last space that allows it, else inside a word.  The binary
\* searches find the last cut because the count grows with the cut.
FindSplit(doc, a, b, limit) ==
    LET Fits(c) == TokenCount(doc, a, c) <= limit
        spaces == {c \in a + 1 .. b - 1 : IsSpace(doc, c) /\ Fits(c)}
        inside == {c \in a + 1 .. b - 1 : Fits(c)}
    IN  IF Fits(b) THEN b
        ELSE IF spaces # {} THEN Max(spaces)
        ELSE Max(inside \cup {a + 1})

\* split_oversized: the spans of the parts.
SplitOversized(doc, block, limit) ==
    LET from[a \in block.start .. block.end] ==
          IF a = block.end THEN <<>>
          ELSE LET cut == FindSplit(doc, a, block.end, limit)
               IN  <<[block EXCEPT !.start = a, !.end = cut]>> \o from[cut]
    IN  from[block.start]

-----------------------------------------------------------------------------
(* Parents.                                                                 *)

Window(blocks) == [start |-> blocks[1].start, end |-> Last(blocks).end, blocks |-> blocks]
FlushParent(acc) ==
    IF acc.open = <<>> THEN acc
    ELSE [windows |-> Append(acc.windows, Window(acc.open)), open |-> <<>>, tokens |-> 0]

\* One block of build_parent_windows.
PackParent(doc, acc, block) ==
    LET tokens == TokenCount(doc, block.start, block.end)
        room == IF tokens > ParentLimit \/ acc.tokens + tokens > ParentLimit
                THEN FlushParent(acc) ELSE acc
        parts == SplitOversized(doc, block, ParentLimit)
    IN  IF tokens > ParentLimit
        THEN [room EXCEPT !.windows = @ \o [i \in DOMAIN parts |-> Window(<<parts[i]>>)]]
        ELSE [room EXCEPT !.open = Append(@, block), !.tokens = @ + tokens]

ParentWindows(doc) ==
    FlushParent(FoldLeft(LAMBDA acc, block : PackParent(doc, acc, block),
                         [windows |-> <<>>, open |-> <<>>, tokens |-> 0],
                         NonBlank(doc))).windows

-----------------------------------------------------------------------------
(* Children of a window.                                                    *)

NoOverlap == -1

\* overlap_back_off: the earliest word of the last child from which its tail has
\* at most Overlap tokens.
OverlapBackOff(doc, win, children) ==
    IF children = <<>> \/ Overlap = 0 THEN NoOverlap
    ELSE LET prev == Last(children)
             words == {b \in prev.start + 1 .. prev.end - 1 :
                          IsSpace(doc, b - 1) /\ TokenCount(doc, b, prev.end) <= Overlap}
         IN  IF words # {} /\ Min(words) < win.end THEN Min(words) ELSE NoOverlap

\* seed_overlap_tokens.
SeedTokens(doc, overlap, start) ==
    IF overlap = NoOverlap \/ overlap >= start THEN 0 ELSE TokenCount(doc, overlap, start)

NoChild == [start |-> 0, end |-> 0, tokens |-> 0, some |-> FALSE]

\* A child is opened with a block, and with the overlap when it fits.
OpenChild(doc, overlap, block) ==
    LET tokens == TokenCount(doc, block.start, block.end)
        seed == SeedTokens(doc, overlap, block.start)
        fits == overlap # NoOverlap /\ seed + tokens <= ChildLimit
    IN  [start |-> IF fits THEN overlap ELSE block.start, end |-> block.end,
         tokens |-> IF fits THEN seed + tokens ELSE tokens, some |-> TRUE]

\* flush_child_window.
FlushChild(acc) ==
    IF ~acc.open.some THEN acc
    ELSE [children |-> Append(acc.children, [start |-> acc.open.start, end |-> acc.open.end]),
          open |-> NoChild]

\* One child of split_oversized_child_block; done is consumed_end.
LongChild(doc, win, block, children, done) ==
    LET overlap == OverlapBackOff(doc, win, children)
        start == IF overlap # NoOverlap /\ overlap < done THEN overlap ELSE done
        cut == FindSplit(doc, start, block.end, ChildLimit)
    IN  [start |-> start, end |-> Max({cut, done + 1})]

\* split_oversized_child_block: the frontier moves at least one byte each time.
LongBlock(doc, win, block, children) ==
    LET after[n \in 0 .. block.end - block.start] ==
          IF n = 0 THEN [children |-> children, done |-> block.start]
          ELSE LET before == after[n - 1]
                   child == LongChild(doc, win, block, before.children, before.done)
               IN  IF before.done = block.end THEN before
                   ELSE [children |-> Append(before.children, child), done |-> child.end]
    IN  after[block.end - block.start].children

\* One block of build_child_chunks.
PackChild(doc, win, acc, block) ==
    LET tokens == TokenCount(doc, block.start, block.end)
        flushed == FlushChild(acc)
    IN  CASE tokens > ChildLimit ->
               [children |-> LongBlock(doc, win, block, flushed.children), open |-> NoChild]
          [] tokens <= ChildLimit /\ ~acc.open.some ->
               [acc EXCEPT !.open = OpenChild(doc, NoOverlap, block)]
          [] tokens <= ChildLimit /\ acc.open.some /\ acc.open.tokens + tokens > ChildLimit ->
               [flushed EXCEPT !.open =
                  OpenChild(doc, OverlapBackOff(doc, win, flushed.children), block)]
          [] OTHER -> [acc EXCEPT !.open.end = block.end, !.open.tokens = @ + tokens]

ChildSpans(doc, win) ==
    FlushChild(FoldLeft(LAMBDA acc, block : PackChild(doc, win, acc, block),
                        [children |-> <<>>, open |-> NoChild], win.blocks)).children

\* retile_child_token_offsets: the tile of a child begins where the one before it
\* ends; the last ends with its parent.
Tiles(doc, win, spans, base, total) ==
    LET Prefix(b) == IF b <= win.start THEN 0 ELSE TokenCount(doc, win.start, b)
        TileStart(i) == IF i = 1 THEN win.start ELSE Max({spans[j].end : j \in 1 .. i - 1})
    IN  [i \in DOMAIN spans |->
           [from |-> base + Prefix(TileStart(i)),
            to   |-> base + (IF i = Len(spans) THEN total ELSE Prefix(spans[i].end))]]

-----------------------------------------------------------------------------
(* chunk_blocks: the parents in order, each followed by its children.  A    *)
(* chunk is known by its place in the sequence; parent is the place of its  *)
(* parent, 0 for a parent.                                                  *)

Chunks(doc) ==
    FoldLeft(LAMBDA acc, win :
               LET total == TokenCount(doc, win.start, win.end)
                   spans == ChildSpans(doc, win)
                   tiles == Tiles(doc, win, spans, acc.tokens, total)
                   place == Len(acc.chunks) + 1
               IN  [tokens |-> acc.tokens + total,
                    chunks |-> acc.chunks
                      \o <<[parent |-> 0, start |-> win.start, end |-> win.end,
                            from |-> acc.tokens, to |-> acc.tokens + total]>>
                      \o [i \in DOMAIN spans |->
                            [parent |-> place, start |-> spans[i].start, end |-> spans[i].end,
                             from |-> tiles[i].from, to |-> tiles[i].to]]],
             [tokens |-> 0, chunks |-> <<>>], ParentWindows(doc)).chunks

\* The token count of a source: where its last parent ends.
SourceTokens(chunks) == Max({0} \cup {chunks[i].to : i \in DOMAIN chunks})

-----------------------------------------------------------------------------
(* build_sections.                                                          *)

Sections(doc) ==
    LET heads == SelectSeq(doc.blocks, LAMBDA b : b.level > 0)
        docEnd == Max({0} \cup {doc.blocks[i].end : i \in DOMAIN doc.blocks})
        \* The next heading that is no deeper.
        Next(i) == {j \in i + 1 .. Len(heads) : heads[j].level <= heads[i].level}
        \* The siblings since the last shallower heading; a deeper one is reset by
        \* every heading above it.
        Since(i) == Max({0} \cup {j \in 1 .. i : heads[j].level < heads[i].level})
    IN  [i \in DOMAIN heads |->
           [level |-> heads[i].level, title |-> heads[i].title,
            ordinal |-> Cardinality({j \in Since(i) + 1 .. i : heads[j].level = heads[i].level}),
            start |-> heads[i].start,
            end |-> IF Next(i) = {} THEN docEnd ELSE heads[Min(Next(i))].start]]

-----------------------------------------------------------------------------
(* What the chunks of a document promise.                                   *)

ParentsOf(chunks) == {i \in DOMAIN chunks : chunks[i].parent = 0}
ChildrenOf(chunks) == {i \in DOMAIN chunks : chunks[i].parent # 0}

\* No letter is lost: each is in one parent and in at least one child.
EachLetterOnce(doc, chunks) ==
    \A l \in Letters(doc, 0, Len(doc.text)) :
        LET Has(i) == chunks[i].start <= l /\ l < chunks[i].end
        IN  /\ Cardinality({i \in ParentsOf(chunks) : Has(i)}) = 1
            /\ \E i \in ChildrenOf(chunks) : Has(i)

\* A child has a parent, and the parents advance.
ParentsAdvance(chunks) ==
    /\ \A i \in ChildrenOf(chunks) : chunks[i].parent \in ParentsOf(chunks)
    /\ \A i, j \in ParentsOf(chunks) :
         i < j => chunks[i].start < chunks[j].start /\ chunks[i].from < chunks[j].from

\* A child is a part of its parent and not empty, and the children advance.
ChildrenInside(chunks) ==
    \A i \in ChildrenOf(chunks) :
        LET parent == chunks[chunks[i].parent]
        IN  /\ parent.start <= chunks[i].start /\ chunks[i].end <= parent.end
            /\ chunks[i].start < chunks[i].end
            /\ i - 1 \in ChildrenOf(chunks) /\ chunks[i - 1].parent = chunks[i].parent
                 => chunks[i].end > chunks[i - 1].end

\* No chunk has more tokens than the embedder or the prompt takes, overlap included.
WithinLimits(doc, chunks) ==
    \A i \in DOMAIN chunks :
        TokenCount(doc, chunks[i].start, chunks[i].end)
            <= IF i \in ParentsOf(chunks) THEN ParentLimit ELSE ChildLimit

\* The tiles of the children of a parent are its tile, without gap or overlap.
TilesMeet(chunks) ==
    \A i \in ChildrenOf(chunks) :
        /\ chunks[i].from = IF i - 1 = chunks[i].parent THEN chunks[i - 1].from
                            ELSE chunks[i - 1].to
        /\ i = Len(chunks) \/ i + 1 \in ParentsOf(chunks)
             => chunks[i].to = chunks[chunks[i].parent].to

=============================================================================
