----------------------------- MODULE Retrieval -----------------------------
(***************************************************************************)
(* The decisions of the grounded answer's pipeline, as operators: the      *)
(* budgets, the outline lookup, fusion, auto-merge, the trims and the      *)
(* citations (lens-core's retrieval/ and the pure parts of answer.rs and   *)
(* citation.rs).                                                           *)
(*                                                                         *)
(* A passage is a record with the fields source, gen and place (together   *)
(* the id of its chunk), parent, level, from (token_start), start, end and *)
(* cost (estimate_tokens of its text).  Fractions of f32 are exact here.   *)
(***************************************************************************)
EXTENDS Integers, FiniteSets, Sequences, SequencesExt, FiniteSetsExt

CONSTANTS
    ReservedOutput, SystemOverhead,     \* router.rs
    Margin,                             \* the near-cap band
    SmallContext, MediumContext,        \* the bands of abs_cap ...
    SmallCap, MediumCap, LargeCap,      \* ... and their caps
    MinOutput,                          \* MIN_OUTPUT_TOKENS
    RrfK,
    GraphFloor                          \* GRAPH_MIN_CONFIDENCE

Monus(a, b) == Max({0, a - b})
Total(costs) == FoldLeft(LAMBDA sum, c : sum + c, 0, costs)
Costs(passages) == [i \in DOMAIN passages |-> passages[i].cost]
First(n, s) == SubSeq(s, 1, Min({n, Len(s)}))

\* The elements of S in the order Before, a strict total order on S.
Ordered(S, Before(_, _)) ==
    [i \in 1 .. Cardinality(S) |->
        CHOOSE x \in S : Cardinality({y \in S : Before(y, x)}) = i - 1]

\* The elements of a sequence at some of its places.
Kept(s, places) ==
    LET o == Ordered(places, LAMBDA i, j : i < j) IN [i \in DOMAIN o |-> s[o[i]]]

\* A sequence in the order Before; what is equal keeps its order (sort_by is stable).
Sorted(s, Before(_, _)) ==
    LET Ahead(i, j) == Before(s[i], s[j]) \/ (~Before(s[j], s[i]) /\ i < j)
        o == Ordered(DOMAIN s, Ahead)
    IN  [i \in DOMAIN o |-> s[o[i]]]

\* The place of the first of a sequence's elements that is x.
Seen(s, x) == Min({i \in DOMAIN s : s[i] = x})

-----------------------------------------------------------------------------
(* Budgets.                                                                 *)

UsableInput(ctx) == Monus(Monus(ctx, ReservedOutput), SystemOverhead)
AbsCap(ctx) == CASE ctx <= SmallContext -> SmallCap
                 [] SmallContext < ctx /\ ctx <= MediumContext -> MediumCap
                 [] OTHER -> LargeCap

\* derive_tier_caps; a context of 0 is unknown.
TierCaps(ctx, history, fallback) ==
    LET usable == Monus(UsableInput(ctx), Min({history, UsableInput(ctx) \div 2}))
    IN  IF ctx = 0 THEN fallback
        ELSE [tier1 |-> Min({(usable * 65) \div 100, AbsCap(ctx)}), tier2 |-> usable]

WithinMargin(n, cap) == Monus(cap, Margin) <= n /\ n <= cap + Margin

\* The trim of every tier: passages until one exceeds the cap, the first in any case.
Within(passages, cap) ==
    First(Max({1} \cup {n \in DOMAIN passages : Total(Costs(First(n, passages))) <= cap}),
          passages)

\* budget_history: the cost of each message, the oldest pairs dropped.
BudgetHistory(history, ctx) ==
    LET From(n) == SubSeq(history, 2 * n + 1, Len(history))
        pairs == {n \in 0 .. Len(history) : 2 * n + 2 <= Len(history)}
        fits == {n \in pairs : Total(From(n)) <= ctx \div 3}
    IN  IF ctx = 0 \/ Len(history) <= 2 THEN history
        ELSE From(Min(fits \cup {Max(pairs)}))

\* fit_to_context: how many of the units and which of the history's messages are in
\* the prompt; base is what the rules and the question cost.
Fit(units, history, base, ctx) ==
    LET Room(n, h) == base + Total(Costs(First(n, units))) + Total(h) + MinOutput <= ctx
        From(n) == SubSeq(history, 2 * n + 1, Len(history))
        shorter == {n \in DOMAIN units : Room(n, history)}
        pairs == {n \in 0 .. Len(history) : n = 0 \/ 2 * n + 2 <= Len(history)}
        older == {n \in pairs : Room(1, From(n))}
    IN  CASE ctx = 0 -> [units |-> units, history |-> history]
          [] ctx # 0 /\ shorter # {} -> [units |-> First(Max(shorter), units), history |-> history]
          [] OTHER -> [units |-> First(1, units),
                       history |-> From(Min(older \cup {Max(pairs)}))]

-----------------------------------------------------------------------------
(* Tier 0: the outline.                                                     *)

\* The section a positional question means in one source, if there is one.
PickSection(sections, target) ==
    LET named == {i \in DOMAIN sections : sections[i].title = target.noun}
        top == Min({sections[i].level : i \in DOMAIN sections})
        shallow == {i \in DOMAIN sections : sections[i].level = top}
        Nth(s, n) == Kept(s, DOMAIN s \cap {n})
        n == IF target.numbered THEN Max({target.ordinal, 1}) ELSE 1
    IN  IF named # {} \/ ~target.numbered THEN Nth(Kept(sections, named), n)
        ELSE Nth(Kept(sections, shallow), n)

\* A parent belongs to the section its midpoint is in.
MidpointIn(passage, section) ==
    LET mid == (passage.start + passage.end) \div 2
    IN  section.start <= mid /\ mid < section.end

-----------------------------------------------------------------------------
(* Tier 2: fusion and auto-merge.                                           *)

Scale == 100000000

\* rrf_merge3: the hits, best first; ties in the order they were first seen.
Fuse(dense, bm25, graph, limit) ==
    LET all == dense \o bm25 \o graph
        Share(list, id) ==
          IF id \in ToSet(list) THEN Scale \div (RrfK + Seen(list, id) - 1) ELSE 0
        Score(id) == Share(dense, id) + Share(bm25, id) + Share(graph, id)
        Before(a, b) == \/ Score(a) > Score(b)
                        \/ Score(a) = Score(b) /\ Seen(all, a) < Seen(all, b)
        order == Ordered(ToSet(all), Before)
    IN  First(limit, [i \in DOMAIN order |-> [id |-> order[i], score |-> Score(order[i])]])

\* merge_ranked_pairs and the floor: the evidence has confidence 100.
GraphArm(evidence, expansion, limit) ==
    LET all == evidence \o [i \in DOMAIN expansion |-> expansion[i].id]
        Best(id) == IF id \in ToSet(evidence) THEN 100
                    ELSE Max({e.conf : e \in {x \in ToSet(expansion) : x.id = id}})
        Before(a, b) == \/ Best(a) > Best(b)
                        \/ Best(a) = Best(b) /\ Seen(all, a) < Seen(all, b)
        best == First(limit, Ordered(ToSet(all), Before))
    IN  Kept(best, {i \in DOMAIN best : Best(best[i]) >= GraphFloor})

ShouldMerge(retrieved, children) == children > 0 /\ 2 * retrieved >= children

\* The parents whose retrieved children are at least half of the counted ones.
Merging(retrieved, counts) ==
    {p \in DOMAIN counts :
        ShouldMerge(Cardinality({i \in DOMAIN retrieved : retrieved[i].parent = p}), counts[p])}

\* build_candidates: parents is the passages of the merging parents that are live.
\* A merged parent has the place of its first child (in the code, of a hash map).
Candidates(retrieved, counts, parents) ==
    LET merging == Merging(retrieved, counts)
        Children(p) == {i \in DOMAIN retrieved : retrieved[i].parent = p}
        Merged(p) == [CHOOSE x \in parents : x.id = p EXCEPT
                        !.score = Max({retrieved[i].score : i \in Children(p)}), !.merged = TRUE]
        first == {i \in DOMAIN retrieved :
                    /\ \E x \in parents : x.id = retrieved[i].parent
                    /\ \A j \in Children(retrieved[i].parent) : i <= j}
        single == {i \in DOMAIN retrieved : retrieved[i].parent \notin merging}
        kept == Kept(retrieved, first \cup single)
    IN  [i \in DOMAIN kept |->
            IF kept[i].parent \in merging THEN Merged(kept[i].parent) ELSE kept[i]]

-----------------------------------------------------------------------------
(* The order and the trim of tier 2.                                        *)

Rank(scope, source) == IF source \in ToSet(scope) THEN Seen(scope, source) ELSE Len(scope) + 1

\* doc_order_key.
InOrder(scope, a, b) ==
    LET Key(c) == <<Rank(scope, c.source), c.level, c.from>>
        ka == Key(a)
        kb == Key(b)
    IN  \E i \in 1 .. 3 : ka[i] < kb[i] /\ \A j \in 1 .. i - 1 : ka[j] = kb[j]

ByReading(s, scope) == Sorted(s, LAMBDA a, b : InOrder(scope, a, b))
ByScore(s, scope) ==
    Sorted(s, LAMBDA a, b : a.score > b.score \/ (a.score = b.score /\ InOrder(scope, a, b)))

TrimAndOrder(candidates, scope, cap) ==
    LET fits == Total(Costs(candidates)) <= cap
    IN  ByReading(IF fits THEN candidates ELSE Within(ByScore(candidates, scope), cap), scope)

-----------------------------------------------------------------------------
(* Citations.                                                               *)

\* extract_citations: markers are the numbers of the answer's markers.  A citation
\* names a source, the markers that led to it and the chunks they showed.
ExtractCitations(markers, units) ==
    LET valid == SelectSeq(markers, LAMBDA n : n \in DOMAIN units)
        sources == [i \in DOMAIN valid |-> units[valid[i]].source]
        Before(a, b) == Seen(sources, a) < Seen(sources, b)
        order == Ordered(ToSet(sources), Before)
        Of(s) == {n \in ToSet(valid) : units[n].source = s}
    IN  [i \in DOMAIN order |->
           [source |-> order[i], markers |-> Of(order[i]),
            chunks |-> {units[n].id : n \in Of(order[i])}]]

=============================================================================
