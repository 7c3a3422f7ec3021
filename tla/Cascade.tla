------------------------------ MODULE Cascade ------------------------------
(***************************************************************************)
(* The three-tier cascade of lens-core's resolution/mod.rs: which entity   *)
(* nodes of a notebook name the same thing, and the name they then share.  *)
(*                                                                         *)
(* A node is its source and its name; sources are numbered in the order of *)
(* their nodes' creation.  A name is a number that stands for its rank as  *)
(* a canonical name: longer is larger, and of two of the same length the   *)
(* lexicographically smaller one.  Norm is normalize_name (whitespace,     *)
(* case, trailing punctuation), Kind the entity kind, Sim the cosine       *)
(* similarity of the embedding texts of two names, in per cent.            *)
(***************************************************************************)
EXTENDS Integers, FiniteSets, Sequences, SequencesExt, FiniteSetsExt

CONSTANTS Sources, Names, Norm, Kind, Sim

ASSUME CascadeAssumption ==
    /\ Sources \subseteq Nat /\ Names \subseteq Nat \ {0}
    /\ \A x, y \in Names : Sim[x][y] = Sim[y][x] /\ Sim[x][y] \in 0 .. 100

Node == [s : Sources, name : Names]
NoName == 0

\* A set as a sequence, by a strict total order on it.
InOrder(S, before(_, _)) ==
    LET seq[T \in SUBSET S] ==
          IF T = {} THEN <<>>
          ELSE LET last == CHOOSE x \in T : \A y \in T \ {x} : before(y, x)
               IN  Append(seq[T \ {last}], last)
    IN  seq[S]

\* list_entity_nodes: ORDER BY created_at, id.
Older(a, b) == a.s < b.s \/ (a.s = b.s /\ a.name < b.name)

AutoMerge == 90         \* TIER2_AUTO_MERGE_SIM
KeepSeparate == 72      \* TIER2_KEEP_SEPARATE_SIM
WriteBar == 88          \* WRITE_CONFIDENCE_BAR

-----------------------------------------------------------------------------
(* UnionFind: the disjoint sets, and the edges that have joined two of      *)
(* them, which are a spanning forest of the groups.                         *)

Apart(nodes) == [groups |-> {{n} : n \in nodes}, edges |-> {}]
GroupOf(uf, n) == CHOOSE g \in uf.groups : n \in g
Edge(a, b, conf) == [a |-> a, b |-> b, conf |-> conf]

Union(uf, e) ==
    LET ga == GroupOf(uf, e.a)
        gb == GroupOf(uf, e.b)
    IN  IF ga = gb THEN uf
        ELSE [groups |-> (uf.groups \ {ga, gb}) \cup {ga \cup gb},
              edges  |-> uf.edges \cup {e}]
Unions(uf, edges) ==
    LET after[i \in 0 .. Len(edges)] == IF i = 0 THEN uf ELSE Union(after[i - 1], edges[i])
    IN  after[Len(edges)]

-----------------------------------------------------------------------------
(* The tiers.  list is the sequence of the nodes of the pass, rows the      *)
(* nodes that have a vector in the notebook's entity table.                 *)

Key(n) == <<Norm[n.name], Kind[n.name]>>

\* tier1_exact_and_coref: every node joins the first one of its key.
Tier1(list) ==
    LET First(i) == Min({j \in 1 .. i : Key(list[j]) = Key(list[i])})
    IN  Unions(Apart(ToSet(list)),
               [i \in DOMAIN list |-> Edge(list[First(i)], list[i], 100)])

\* entity_ann for each node in turn: nearest first, of its kind; itself, nodes that
\* are not of the pass and distant ones are skipped.  TIER2_ANN_K exceeds the
\* instances.
Scan(list, rows) ==
    LET Near(i) ==
          InOrder({e \in {Edge(list[i], n, Sim[list[i].name][n.name]) : n \in rows \cap ToSet(list)} :
                     /\ e.b # e.a /\ Kind[e.a.name] = Kind[e.b.name]
                     /\ e.conf >= KeepSeparate},
                  LAMBDA e, f : e.conf > f.conf \/ (e.conf = f.conf /\ Older(e.b, f.b)))
    IN  FlattenSeq([i \in DOMAIN list |-> Near(i)])

\* tier2_ann: what joins at once, and the band that is left for tier 3.  The code
\* leaves out of the band what is joined already; Tier3 looks again.
Tier2(uf, scan) == Unions(uf, SelectSeq(scan, LAMBDA e : e.conf >= AutoMerge))
Band(scan) == SelectSeq(scan, LAMBDA e : e.conf < AutoMerge)

\* adjudication_key, and every key that two nodes can have.
PairKey(a, b) == <<Kind[a.name], {Norm[a.name], Norm[b.name]}>>
PairKeys == {PairKey(a, b) : a, b \in Node}

\* An adjudication: the confidence that two are the same, 0 for a verdict that
\* they are not, Unjudged when the provider is absent, fails or has no budget.
Unjudged == -1

\* Mutant: a verdict of "same" joins whatever its confidence.
Adjudicate_AnyConfidence(verdict, acc, e) ==
    IF GroupOf(acc.uf, e.a) = GroupOf(acc.uf, e.b) THEN acc
    ELSE LET v == verdict[PairKey(e.a, e.b)]
         IN  [uf |-> IF v > 0 THEN Union(acc.uf, Edge(e.a, e.b, v)) ELSE acc.uf,
              asked |-> acc.asked \cup {PairKey(e.a, e.b)}]

\* One candidate of tier3_adjudicate.
Adjudicate(verdict, acc, e) ==
    IF GroupOf(acc.uf, e.a) = GroupOf(acc.uf, e.b) THEN acc
    ELSE LET v == verdict[PairKey(e.a, e.b)]
         IN  [uf |-> IF v >= WriteBar THEN Union(acc.uf, Edge(e.a, e.b, v)) ELSE acc.uf,
              asked |-> acc.asked \cup {PairKey(e.a, e.b)}]
Tier3(uf, band, verdict) ==
    LET after[i \in 0 .. Len(band)] ==
          IF i = 0 THEN [uf |-> uf, asked |-> {}] ELSE Adjudicate(verdict, after[i - 1], band[i])
    IN  after[Len(band)]

-----------------------------------------------------------------------------
(* The assignment.                                                          *)

\* node_confidences: the weakest edge on the path of the forest from the first
\* node of the group; for that one, the weakest of all.
Confidence(list, uf, n) ==
    LET g == GroupOf(uf, n)
        start == list[Min({i \in DOMAIN list : list[i] \in g})]
        Strong(c) == FoldSet(LAMBDA e, sofar : Union(sofar, e), Apart(g),
                             {e \in uf.edges : e.conf >= c /\ e.a \in g})
        Path(b) == Max({e.conf : e \in {f \in uf.edges : b \in GroupOf(Strong(f.conf), start)}})
    IN  IF n = start THEN Min({Path(b) : b \in g \ {n}}) ELSE Path(n)

\* assign_canonical: [node -> canonical name] of the members that reach the bar.
AssignCanonical(list, uf) ==
    LET Shared == UNION {g \in uf.groups : Cardinality(g) > 1}
    IN  [n \in {m \in Shared : Confidence(list, uf, m) >= WriteBar}
           |-> Max({m.name : m \in GroupOf(uf, n)})]

\* resolve_notebook, with the pairs that were put to the LLM or the cache.
Resolve(nodes, rows, verdict) ==
    LET list == InOrder(nodes, Older)
        scan == Scan(list, rows)
        done == Tier3(Tier2(Tier1(list), scan), Band(scan), verdict)
    IN  [updates |-> AssignCanonical(list, done.uf), asked |-> done.asked]

-----------------------------------------------------------------------------
(* The reference: the classes of a symmetric relation are its smallest      *)
(* closed sets.                                                             *)

Classes(nodes, R) ==
    LET Closed == {C \in SUBSET nodes \ {{}} :
                     \A p \in R : p[1] \in C <=> p[2] \in C}
    IN  {C \in Closed : \A D \in Closed : D \subseteq C => D = C}

\* What the cascade must join, and what it may join given the pairs that an
\* adjudication has found to be the same.
Alike(a, b) == \/ Key(a) = Key(b)
               \/ Kind[a.name] = Kind[b.name] /\ Sim[a.name][b.name] >= AutoMerge
Joinable(same, a, b) ==
    Alike(a, b) \/ (Kind[a.name] = Kind[b.name] /\ PairKey(a, b) \in same)

\* An assignment of canonical names (NoName for none) that a complete pass over
\* the nodes can leave: one class, one name, none shorter than a member's; and no
\* name from outside the class.
Justified(nodes, same, alias) ==
    LET Must == {p \in nodes \X nodes : Alike(p[1], p[2])}
        May  == {p \in nodes \X nodes : Joinable(same, p[1], p[2])}
    IN  /\ \A C \in Classes(nodes, Must) : Cardinality(C) > 1 =>
             \E name \in Names : \A e \in C : alias[e] = name /\ name >= e.name
        /\ \A C \in Classes(nodes, May) : \A e \in C : alias[e] # NoName =>
             \E f \in C : f.name = alias[e] /\ alias[f] = alias[e]

=============================================================================
