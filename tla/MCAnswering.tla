---------------------------- MODULE MCAnswering ----------------------------
EXTENDS Answering

-----------------------------------------------------------------------------
(* Documents.                                                               *)

\* The text of the words of each block, and the blocks; a word is its length.
Words(lengths) == FlattenSeq([i \in DOMAIN lengths |-> [j \in 1 .. lengths[i] |-> Letter] \o <<Space>>])
Doc(blocks) ==
    LET text(i) == Words(blocks[i].words)
        before(i) == Total([j \in 1 .. i - 1 |-> Len(text(j))])
    IN  [text |-> FlattenSeq([i \in DOMAIN blocks |-> text(i)]),
         blocks |-> [i \in DOMAIN blocks |->
           [start |-> before(i), end |-> before(i) + Len(text(i)) - 1,
            level |-> blocks[i].level, title |-> blocks[i].title]]]
Heading(title, words) == [level |-> 1, title |-> title, words |-> words]
Para(words) == [level |-> 0, title |-> "none", words |-> words]

Short == Doc(<<Heading("chapter", <<1>>), Para(<<1, 1>>), Para(<<2>>)>>)
Long  == Doc(<<Heading("chapter", <<1>>), Para(<<2>>), Heading("part", <<1>>),
               Heading("chapter", <<1>>), Para(<<2>>)>>)

\* What the chunker and the outline make of them: Long has a section, the part, that
\* no parent's midpoint is in.
Chunk(parent, start, end, from, to, cost) ==
    [parent |-> parent, start |-> start, end |-> end, from |-> from, to |-> to, cost |-> cost]
Section(title, ordinal, start, end) ==
    [level |-> 1, title |-> title, ordinal |-> ordinal, start |-> start, end |-> end]

MCDocs == {"short", "long", "blank"}
MCFirstDocs == [s1 |-> {"short", "long"}, s2 |-> {"short"}]
MCContent ==
    [short |-> <<Chunk(0, 0, 5, 0, 4, 3), Chunk(1, 0, 1, 0, 2, 1), Chunk(1, 2, 5, 2, 4, 2),
                 Chunk(0, 6, 8, 4, 7, 2), Chunk(4, 6, 8, 4, 7, 2)>>,
     long  |-> <<Chunk(0, 0, 6, 0, 5, 4), Chunk(1, 0, 1, 0, 2, 1), Chunk(1, 2, 4, 2, 4, 2),
                 Chunk(1, 5, 6, 4, 5, 1),
                 Chunk(0, 7, 11, 5, 9, 3), Chunk(5, 7, 8, 5, 7, 1), Chunk(5, 9, 11, 7, 9, 2)>>,
     blank |-> <<>>]
MCOutline ==
    [short |-> <<Section("chapter", 1, 0, 8)>>,
     long  |-> <<Section("chapter", 1, 0, 5), Section("part", 2, 5, 7), Section("chapter", 3, 7, 11)>>,
     blank |-> <<>>]

ASSUME TablesAreTheChunkers ==
    \A <<name, doc>> \in {<<"short", Short>>, <<"long", Long>>, <<"blank", Doc(<<>>)>>} :
        LET chunks == Chunks(doc)
        IN  /\ MCContent[name] = [i \in DOMAIN chunks |->
                 [cost |-> Cardinality(Letters(doc, chunks[i].start, chunks[i].end))] @@ chunks[i]]
            /\ MCOutline[name] = Sections(doc)

-----------------------------------------------------------------------------
(* The chunker over every document of up to three blocks of these words.    *)

Patterns == {<<1>>, <<2, 1>>, <<4>>, <<1, 1, 1>>, <<6>>, <<3, 3>>, <<2, 2, 2, 2>>, <<9>>}
SmallDocs == {Doc([i \in DOMAIN p |-> Para(p[i])]) : p \in UNION {[1 .. n -> Patterns] : n \in 1 .. 3}}

ASSUME ChunksCoverTheText == \A doc \in SmallDocs : EachLetterOnce(doc, Chunks(doc))
ASSUME ChunksAreNested == \A doc \in SmallDocs : ChildrenInside(Chunks(doc))
ASSUME ChunksAdvance == \A doc \in SmallDocs : ParentsAdvance(Chunks(doc))
ASSUME ChunksFit == \A doc \in SmallDocs : WithinLimits(doc, Chunks(doc))
ASSUME ChunksAreTiled == \A doc \in SmallDocs : TilesMeet(Chunks(doc))

-----------------------------------------------------------------------------
(* Questions.                                                               *)

MCOrder == <<"s1", "s2">>
MCFallback == [tier1 |-> 3, tier2 |-> 6]

NoTarget == [numbered |-> FALSE, ordinal |-> 0, noun |-> "nothing"]
Plain == [positional |-> FALSE, target |-> NoTarget,
          dense |-> <<<<"s1", 3>>, <<"s2", 2>>, <<"s1", 7>>>>,
          bm25 |-> <<<<"s1", 3>>, <<"s1", 5>>, <<"s2", 1>>>>,
          evidence |-> <<>>, expansion |-> <<>>, rerank |-> <<>>, history |-> <<2, 1>>]
Related == [Plain EXCEPT !.dense = <<<<"s1", 2>>>>, !.bm25 = <<<<"s1", 4>>>>,
                         !.evidence = <<<<"s2", 3>>>>,
                         !.expansion = <<[at |-> <<"s1", 5>>, conf |-> 5],
                                         [at |-> <<"s2", 5>>, conf |-> 50]>>,
                         !.rerank = <<<<"s2", 5>>, <<"s1", 4>>, <<"s2", 3>>, <<"s1", 2>>>>]
Positional == [Plain EXCEPT !.positional = TRUE,
                 !.target = [numbered |-> TRUE, ordinal |-> 1, noun |-> "part"]]
MCQueries == {Plain, Related, Positional}
=============================================================================
