-------------------------- MODULE Answering_proofs --------------------------
(***************************************************************************)
(* For any sources, contents, outlines and questions, and any number of    *)
(* ingests, trashings and purges between the reads: what a question reads  *)
(* is in scope when it is read and of one ingest of each source, and the   *)
(* evidence of a source that nothing touches is found.                     *)
(***************************************************************************)
EXTENDS Answering, FiniteSetTheorems, WellFoundedInduction, TLAPS

-----------------------------------------------------------------------------
(* Orders.                                                                  *)

\* A strict total order of D.
StrictOrder(D, R) ==
    /\ R \in SUBSET (D \X D)
    /\ \A x \in D : <<x, x>> \notin R
    /\ \A x, y, z \in D : <<x, y>> \in R /\ <<y, z>> \in R => <<x, z>> \in R
    /\ \A x, y \in D : x # y => <<x, y>> \in R \/ <<y, x>> \in R
\* What comes before x.
Below(D, R, x) == {y \in D : <<y, x>> \in R}

\* In a finite set that is ordered, different elements have different numbers of
\* predecessors, and every number below the size is one.  So Ordered chooses, at each
\* place, an element of the set.
LEMMA Places ==
    ASSUME NEW D, IsFiniteSet(D), NEW R, StrictOrder(D, R)
    PROVE  /\ \A x \in D : Cardinality(Below(D, R, x)) \in 0 .. Cardinality(D) - 1
           /\ \A x, y \in D : Cardinality(Below(D, R, x)) = Cardinality(Below(D, R, y)) => x = y
           /\ \A k \in 1 .. Cardinality(D) : \E x \in D : Cardinality(Below(D, R, x)) = k - 1
<1> DEFINE n == Cardinality(D)
           B(x) == Below(D, R, x)
           f == [x \in D |-> Cardinality(B(x))]
<1>1. n \in Nat
  BY FS_CardinalityType
<1>2. ASSUME NEW x \in D
      PROVE  IsFiniteSet(B(x)) /\ Cardinality(B(x)) \in 0 .. n - 1
  <2>1. B(x) \in SUBSET (D \ {x})
    BY DEF Below, StrictOrder
  <2>2. IsFiniteSet(D \ {x}) /\ Cardinality(D \ {x}) = n - 1
    BY FS_RemoveElement
  <2>3. IsFiniteSet(B(x)) /\ Cardinality(B(x)) <= n - 1
    BY <2>1, <2>2, FS_Subset
  <2>4. Cardinality(B(x)) \in Nat
    BY <2>3, FS_CardinalityType
  <2> QED BY <1>1, <2>3, <2>4
<1>3. ASSUME NEW x \in D, NEW y \in D, <<x, y>> \in R
      PROVE  Cardinality(B(x)) < Cardinality(B(y))
  <2>1. B(x) \in SUBSET B(y) /\ x \in B(y) /\ x \notin B(x)
    BY <1>3 DEF Below, StrictOrder
  <2>2. IsFiniteSet(B(y)) /\ Cardinality(B(x)) \in Nat /\ Cardinality(B(y)) \in Nat
    BY <1>1, <1>2
  <2>3. Cardinality(B(x)) <= Cardinality(B(y)) /\ Cardinality(B(x)) # Cardinality(B(y))
    BY <2>1, <2>2, FS_Subset
  <2> QED BY <2>2, <2>3
<1>4. \A x, y \in D : Cardinality(B(x)) = Cardinality(B(y)) => x = y
  <2> SUFFICES ASSUME NEW x \in D, NEW y \in D, Cardinality(B(x)) = Cardinality(B(y)), x # y
               PROVE  FALSE
    OBVIOUS
  <2>1. Cardinality(B(x)) \in Nat /\ Cardinality(B(y)) \in Nat
    BY <1>1, <1>2
  <2>2. <<x, y>> \in R \/ <<y, x>> \in R
    BY DEF StrictOrder
  <2> HIDE DEF B
  <2> QED BY <1>3, <2>1, <2>2
<1>5. f \in Injection(D, 0 .. n - 1)
  <2>1. f \in [D -> 0 .. n - 1]
    BY <1>2
  <2>2. \A x, y \in D : f[x] = f[y] => x = y
    BY <1>4
  <2> HIDE DEF f
  <2> QED BY <2>1, <2>2 DEF Injection, IsInjective
<1>6. IsFiniteSet(0 .. n - 1) /\ Cardinality(0 .. n - 1) = n
  <2>1. n - 1 \in Int /\ 0 \in Int
    BY <1>1
  <2>2. /\ IsFiniteSet(0 .. n - 1)
        /\ Cardinality(0 .. n - 1) = IF 0 > n - 1 THEN 0 ELSE n - 1 - 0 + 1
    BY ONLY <2>1, FS_Interval
  <2> QED BY ONLY <1>1, <2>2
<1>7. f \in Surjection(D, 0 .. n - 1)
  BY <1>5, <1>6, FS_Injection
<1>8. ASSUME NEW k \in 1 .. n
      PROVE  \E x \in D : Cardinality(B(x)) = k - 1
  <2>1. k - 1 \in 0 .. n - 1
    BY <1>1
  <2>2. PICK x \in D : f[x] = k - 1
    BY <1>7, <2>1 DEF Surjection
  <2> QED BY <2>2
<1> QED BY <1>2, <1>4, <1>8

\* The least of some natural numbers, and the greatest of finitely many integers.
LEMMA MinOf ==
    ASSUME NEW S \in SUBSET Nat, S # {}
    PROVE  Min(S) \in S /\ \A x \in S : Min(S) <= x
<1> DEFINE R == {p \in Nat \X Nat : p[1] < p[2]}
<1>1. IsWellFoundedOn(R, Nat)
  BY NatLessThanWellFounded DEF OpToRel
<1> HIDE DEF R
<1>2. PICK m \in S : \A y \in S : <<y, m>> \notin R
  BY <1>1, WFMin
<1>3. ASSUME NEW y \in S PROVE m <= y
  <2>1. y \in Nat /\ m \in Nat
    OBVIOUS
  <2>2. y < m => <<y, m>> \in R
    BY <2>1 DEF R
  <2> QED BY <1>2, <2>1, <2>2
<1> QED BY <1>3 DEF Min

\* The greatest of finitely many integers, by induction on their number.
LEMMA MaxOf ==
    ASSUME NEW S \in SUBSET Int, IsFiniteSet(S), S # {}
    PROVE  Max(S) \in S /\ \A x \in S : x <= Max(S)
<1> DEFINE R == {p \in S \X S : p[1] < p[2]}
<1>1. StrictOrder(S, R)
  BY DEF StrictOrder
<1>2. Cardinality(S) \in Nat /\ Cardinality(S) # 0
  BY FS_CardinalityType, FS_EmptySet
<1>3. Cardinality(S) \in 1 .. Cardinality(S)
  BY <1>2
<1> HIDE DEF R
<1>4. PICK m \in S : Cardinality(Below(S, R, m)) = Cardinality(S) - 1
  BY <1>1, <1>3, Places
<1>5. Below(S, R, m) \in SUBSET (S \ {m})
  BY <1>1 DEF Below, StrictOrder
<1>6. IsFiniteSet(S \ {m}) /\ Cardinality(S \ {m}) = Cardinality(S) - 1
  BY FS_RemoveElement
<1>7. Below(S, R, m) = S \ {m}
  BY <1>4, <1>5, <1>6, FS_Subset
<1>8. ASSUME NEW x \in S PROVE x <= m
  <2>1. x = m \/ <<x, m>> \in R
    BY <1>7 DEF Below
  <2> QED BY <2>1 DEF R
<1> QED BY <1>8 DEF Max

-----------------------------------------------------------------------------
(* Sequences put in an order.                                               *)

\* o goes through the elements of D, each once.
Lists(o, D) ==
    /\ o \in [1 .. Cardinality(D) -> D]
    /\ \A i, j \in DOMAIN o : o[i] = o[j] => i = j
    /\ \A x \in D : \E i \in DOMAIN o : o[i] = x

\* What Ordered chooses goes through the elements.
LEMMA ChosenLists ==
    ASSUME NEW D, IsFiniteSet(D), NEW R, StrictOrder(D, R),
           NEW o \in [1 .. Cardinality(D) -> D],
           \A k \in 1 .. Cardinality(D) : Cardinality(Below(D, R, o[k])) = k - 1
    PROVE  Lists(o, D)
<1> DEFINE n == Cardinality(D)
<1>1. n \in Nat
  BY FS_CardinalityType
<1>2. \A k \in 1 .. n : o[k] \in D /\ Cardinality(Below(D, R, o[k])) = k - 1
  OBVIOUS
<1>3. \A x, y \in D : Cardinality(Below(D, R, x)) = Cardinality(Below(D, R, y)) => x = y
  BY Places
<1>4. \A x \in D : Cardinality(Below(D, R, x)) \in 0 .. n - 1
  BY Places
<1>5. o \in [1 .. n -> D] /\ DOMAIN o = 1 .. n
  BY <1>2
<1>6. \A i, j \in 1 .. n : o[i] = o[j] => i = j
  BY <1>1, <1>2
<1>7. ASSUME NEW x \in D
      PROVE  \E i \in 1 .. n : o[i] = x
  <2>1. Cardinality(Below(D, R, x)) + 1 \in 1 .. n
    BY <1>1, <1>4
  <2>2. o[Cardinality(Below(D, R, x)) + 1] \in D
        /\ Cardinality(Below(D, R, o[Cardinality(Below(D, R, x)) + 1]))
             = (Cardinality(Below(D, R, x)) + 1) - 1
    BY <1>2, <2>1
  <2>3. (Cardinality(Below(D, R, x)) + 1) - 1 = Cardinality(Below(D, R, x))
    BY <1>1, <1>4
  <2> QED BY <1>3, <2>1, <2>2, <2>3
<1> QED BY <1>5, <1>6, <1>7 DEF Lists

\* The places of a sequence are finitely many, and so are some of them.
LEMMA SeqDomain ==
    ASSUME NEW T, NEW s \in Seq(T)
    PROVE  /\ Len(s) \in Nat /\ DOMAIN s = 1 .. Len(s)
           /\ IsFiniteSet(DOMAIN s) /\ Cardinality(DOMAIN s) = Len(s)
           /\ \A P \in SUBSET DOMAIN s : IsFiniteSet(P) /\ Cardinality(P) \in Nat
<1>1. Len(s) \in Nat /\ DOMAIN s = 1 .. Len(s)
  OBVIOUS
<1>2. IsFiniteSet(DOMAIN s) /\ Cardinality(DOMAIN s) = Len(s)
  <2>1. /\ IsFiniteSet(1 .. Len(s))
        /\ Cardinality(1 .. Len(s)) = IF 1 > Len(s) THEN 0 ELSE Len(s) - 1 + 1
    <3>1. Len(s) \in Int /\ 1 \in Int
      BY <1>1
    <3> QED BY ONLY <3>1, FS_Interval
  <2> QED BY <1>1, <2>1
<1> QED BY <1>1, <1>2, FS_Subset, FS_CardinalityType

\* Every element of s is there once.
Once(s) == \A i, j \in DOMAIN s : s[i] = s[j] => i = j

\* t has the elements that s has at the places P, each place once.
TakenFrom(t, s, P) ==
    /\ Len(t) = Cardinality(P)
    /\ \A i \in DOMAIN t : \E p \in P : t[i] = s[p]
    /\ \A p \in P : \E i \in DOMAIN t : t[i] = s[p]
    /\ \A i, j \in DOMAIN t : i # j => \E p, q \in P : p # q /\ t[i] = s[p] /\ t[j] = s[q]

\* A sequence whose places another sequence's places are listed by.
LEMMA Relisted ==
    ASSUME NEW T, NEW s \in Seq(T), NEW P \in SUBSET DOMAIN s, NEW o, Lists(o, P),
           NEW t, t = [i \in DOMAIN o |-> s[o[i]]]
    PROVE  t \in Seq(T) /\ TakenFrom(t, s, P)
<1>1. Cardinality(P) \in Nat
  BY SeqDomain
<1>2. DOMAIN o = 1 .. Cardinality(P) /\ DOMAIN t = 1 .. Cardinality(P)
  BY DEF Lists
<1>3. \A i \in DOMAIN t : o[i] \in P /\ t[i] = s[o[i]] /\ s[o[i]] \in T
  BY <1>2 DEF Lists
<1>4. t \in Seq(T) /\ Len(t) = Cardinality(P)
  BY <1>1, <1>2, <1>3
<1>5. \A p \in P : \E i \in DOMAIN t : t[i] = s[p]
  BY <1>2, <1>3 DEF Lists
<1>6. \A i, j \in DOMAIN t : i # j => \E p, q \in P : p # q /\ t[i] = s[p] /\ t[j] = s[q]
  BY <1>2, <1>3 DEF Lists
<1> QED BY <1>2, <1>3, <1>4, <1>5, <1>6 DEF TakenFrom

\* The elements at some places of a sequence are a sequence of just these.
LEMMA KeptFacts ==
    ASSUME NEW T, NEW s \in Seq(T), NEW P \in SUBSET DOMAIN s
    PROVE  Kept(s, P) \in Seq(T) /\ TakenFrom(Kept(s, P), s, P)
<1> DEFINE R == {p \in P \X P : p[1] < p[2]}
           o == [k \in 1 .. Cardinality(P) |->
                   CHOOSE x \in P : Cardinality({y \in P : y < x}) = k - 1]
<1>1. IsFiniteSet(P) /\ P \subseteq Nat
  BY SeqDomain
<1>2. StrictOrder(P, R)
  BY <1>1 DEF StrictOrder
<1>3. \A x \in P : {y \in P : y < x} = Below(P, R, x)
  BY DEF Below
<1>4. ASSUME NEW k \in 1 .. Cardinality(P)
      PROVE  o[k] \in P /\ Cardinality(Below(P, R, o[k])) = k - 1
  <2> HIDE DEF R
  <2>0. PICK x \in P : Cardinality(Below(P, R, x)) = k - 1
    BY <1>1, <1>2, Places
  <2>1. Cardinality({y \in P : y < x}) = k - 1
    BY <1>3, <2>0
  <2>2. o[k] \in P /\ Cardinality({y \in P : y < o[k]}) = k - 1
    BY <2>1
  <2> QED BY <1>3, <2>2
<1>5. o \in [1 .. Cardinality(P) -> P]
  BY <1>4
<1>6. Kept(s, P) = [i \in DOMAIN o |-> s[o[i]]]
  BY DEF Kept, Ordered
<1> HIDE DEF R, o
<1>7. Lists(o, P)
  BY <1>1, <1>2, <1>4, <1>5, ChosenLists
<1> QED BY <1>6, <1>7, Relisted

\* What is cut off a sequence is its end; a trim leaves at least one passage.
LEMMA FirstFacts ==
    ASSUME NEW T, NEW s \in Seq(T), NEW n \in Nat
    PROVE  /\ First(n, s) \in Seq(T)
           /\ Len(First(n, s)) <= Len(s) /\ (n # 0 /\ s # <<>> => First(n, s) # <<>>)
           /\ Len(s) <= n => First(n, s) = s
           /\ \A i \in DOMAIN First(n, s) : i \in DOMAIN s /\ First(n, s)[i] = s[i]
<1> DEFINE m == Min({n, Len(s)})
<1>1. m \in {n, Len(s)} /\ m <= n /\ m <= Len(s)
  <2>1. {n, Len(s)} \in SUBSET Nat /\ {n, Len(s)} # {}
    OBVIOUS
  <2>2. m \in {n, Len(s)} /\ \A x \in {n, Len(s)} : m <= x
    BY <2>1, MinOf
  <2> HIDE DEF m
  <2> QED BY <2>2
<1>2. First(n, s) = SubSeq(s, 1, m)
  BY DEF First
<1> HIDE DEF m
<1>3. m \in 0 .. Len(s)
  BY <1>1
<1>4. SubSeq(s, 1, m) \in Seq(T) /\ Len(SubSeq(s, 1, m)) = m
      /\ \A i \in 1 .. m : SubSeq(s, 1, m)[i] = s[i]
  BY <1>3
<1>5. Len(s) <= n => SubSeq(s, 1, m) = s
  BY <1>1, <1>3
<1>6. n # 0 /\ s # <<>> => SubSeq(s, 1, m) # <<>>
  BY <1>1, <1>4
<1> QED BY <1>2, <1>3, <1>4, <1>5, <1>6

\* A cut is full when there is enough.
LEMMA FirstFull ==
    ASSUME NEW T, NEW s \in Seq(T), NEW n \in Nat, n <= Len(s)
    PROVE  Len(First(n, s)) = n
<1>1. {n, Len(s)} \in SUBSET Nat /\ {n, Len(s)} # {}
  OBVIOUS
<1>2. PICK m \in Nat : m = Min({n, Len(s)})
  BY <1>1, MinOf
<1>3. m \in {n, Len(s)} /\ m <= n /\ m <= Len(s)
  BY <1>1, <1>2, MinOf
<1>4. m = n
  BY <1>3
<1>5. Len(SubSeq(s, 1, n)) = n
  OBVIOUS
<1> QED BY <1>2, <1>4, <1>5 DEF First

\* A trim keeps a beginning of what it is given, and at least one passage.
LEMMA WithinFacts ==
    ASSUME NEW T, NEW s \in Seq(T), NEW cap
    PROVE  /\ Within(s, cap) \in Seq(T)
           /\ s # <<>> => Within(s, cap) # <<>>
           /\ \A i \in DOMAIN Within(s, cap) : i \in DOMAIN s /\ Within(s, cap)[i] = s[i]
<1> DEFINE N == {n \in DOMAIN s : Total(Costs(First(n, s))) <= cap}
<1>1. IsFiniteSet({1} \cup N) /\ {1} \cup N \subseteq Nat \ {0}
  <2>1. N \in SUBSET DOMAIN s /\ DOMAIN s = 1 .. Len(s) /\ Len(s) \in Nat
    OBVIOUS
  <2> HIDE DEF N
  <2>2. IsFiniteSet(N)
    BY <2>1, SeqDomain
  <2>3. IsFiniteSet({1})
    BY FS_Singleton
  <2>4. IsFiniteSet({1} \cup N)
    BY <2>2, <2>3, FS_Union
  <2> QED BY <2>1, <2>4
<1>2. Max({1} \cup N) \in {1} \cup N
  <2> HIDE DEF N
  <2>1. {1} \cup N \in SUBSET Int /\ {1} \cup N # {}
    BY <1>1
  <2> QED BY <1>1, <2>1, MaxOf
<1>3. Within(s, cap) = First(Max({1} \cup N), s)
  BY DEF Within
<1> HIDE DEF N
<1>4. PICK n \in Nat \ {0} : Within(s, cap) = First(n, s)
  BY <1>1, <1>2, <1>3
<1> QED BY <1>4, FirstFacts

\* The place of what a sequence has, and the rank of a source.
LEMMA SeenFacts ==
    ASSUME NEW T, NEW s \in Seq(T), NEW x, x \in ToSet(s)
    PROVE  Seen(s, x) \in DOMAIN s /\ s[Seen(s, x)] = x
<1>1. {i \in DOMAIN s : s[i] = x} \in SUBSET Nat /\ {i \in DOMAIN s : s[i] = x} # {}
  BY DEF ToSet
<1> QED BY <1>1, MinOf DEF Seen

\* The rank of a source is a number, whether the source is in scope or not.
LEMMA RankNat ==
    ASSUME NEW T, NEW s \in Seq(T), NEW x
    PROVE  Rank(s, x) \in Nat
BY SeenFacts, SeqDomain DEF Rank

-----------------------------------------------------------------------------
(* Passages in reading order and by score.                                  *)

\* The id of a chunk is of one ingest; a passage is a row with what a question adds to it.
Id == Source \X Nat \X Nat
Passage ==
    [id : Id, source : Source, gen : Nat, place : Nat, parent : {NoParent} \cup Id,
     level : {0, 1}, from : Nat, start : Nat, end : Nat, cost : Nat,
     score : Int, read : BOOLEAN, merged : BOOLEAN]

\* A lexicographic order of four keys, and of the place.
Precedes(k, i, j) ==
    \/ k[i][1] < k[j][1]
    \/ k[i][1] = k[j][1] /\ k[i][2] < k[j][2]
    \/ k[i][1] = k[j][1] /\ k[i][2] = k[j][2] /\ k[i][3] < k[j][3]
    \/ /\ k[i][1] = k[j][1] /\ k[i][2] = k[j][2] /\ k[i][3] = k[j][3]
       /\ k[i][4] < k[j][4] \/ (k[i][4] = k[j][4] /\ i < j)

\* With the place as the last key, the order of any four keys is strict and total: a
\* stable sort has one result.
LEMMA KeyOrder ==
    ASSUME NEW D \in SUBSET Nat, NEW k \in [D -> Int \X Int \X Int \X Int]
    PROVE  StrictOrder(D, {p \in D \X D : Precedes(k, p[1], p[2])})
<1> DEFINE R == {p \in D \X D : Precedes(k, p[1], p[2])}
<1>1. \A i, j \in D : <<i, j>> \in R <=> Precedes(k, i, j)
  OBVIOUS
<1>2. \A i \in D : /\ k[i][1] \in Int /\ k[i][2] \in Int /\ k[i][3] \in Int /\ k[i][4] \in Int
                   /\ i \in Int
  OBVIOUS
<1>3. \A i \in D : ~Precedes(k, i, i)
  BY <1>2 DEF Precedes
<1>4. ASSUME NEW x \in D, NEW y \in D, NEW z \in D, Precedes(k, x, y), Precedes(k, y, z)
      PROVE  Precedes(k, x, z)
  BY <1>2, <1>4 DEF Precedes
<1>5. ASSUME NEW x \in D, NEW y \in D, x # y
      PROVE  Precedes(k, x, y) \/ Precedes(k, y, x)
  BY <1>2, <1>5 DEF Precedes
<1>6. R \in SUBSET (D \X D)
  OBVIOUS
<1> HIDE DEF R
<1>7. StrictOrder(D, R)
  BY <1>1, <1>3, <1>4, <1>5, <1>6 DEF StrictOrder
<1> QED BY <1>7 DEF R

\* The key of doc_order_key.
LEMMA InOrderIs ==
    ASSUME NEW T, NEW sc \in Seq(T), NEW a \in Passage, NEW b \in Passage
    PROVE  InOrder(sc, a, b) <=>
             \/ Rank(sc, a.source) < Rank(sc, b.source)
             \/ Rank(sc, a.source) = Rank(sc, b.source) /\ a.level < b.level
             \/ /\ Rank(sc, a.source) = Rank(sc, b.source)
                /\ a.level = b.level /\ a.from < b.from
<1> DEFINE ka == <<Rank(sc, a.source), a.level, a.from>>
           kb == <<Rank(sc, b.source), b.level, b.from>>
           P(i) == ka[i] < kb[i] /\ \A j \in 1 .. i - 1 : ka[j] = kb[j]
<1>1. InOrder(sc, a, b) <=> \E i \in 1 .. 3 : P(i)
  BY DEF InOrder
<1>2. 1 .. 3 = {1, 2, 3} /\ 1 .. 1 - 1 = {} /\ 1 .. 2 - 1 = {1} /\ 1 .. 3 - 1 = {1, 2}
  OBVIOUS
<1>3. (\E i \in 1 .. 3 : P(i)) <=> P(1) \/ P(2) \/ P(3)
  <2> HIDE DEF P
  <2> QED BY <1>2
<1>4. /\ ka[1] = Rank(sc, a.source) /\ ka[2] = a.level /\ ka[3] = a.from
      /\ kb[1] = Rank(sc, b.source) /\ kb[2] = b.level /\ kb[3] = b.from
  OBVIOUS
<1> HIDE DEF ka, kb
<1> QED BY <1>1, <1>2, <1>3, <1>4

\* What is sorted in reading order is the same passages, ...
LEMMA ByReadingFacts ==
    ASSUME NEW T, NEW sc \in Seq(T), NEW s \in Seq(Passage)
    PROVE  ByReading(s, sc) \in Seq(Passage) /\ TakenFrom(ByReading(s, sc), s, DOMAIN s)
<1> DEFINE D == DOMAIN s
           k == [i \in D |-> <<0, Rank(sc, s[i].source), s[i].level, s[i].from>>]
           R == {p \in D \X D : Precedes(k, p[1], p[2])}
           Before(a, b) == InOrder(sc, a, b)
           Ahead(i, j) == Before(s[i], s[j]) \/ (~Before(s[j], s[i]) /\ i < j)
           o == [n \in 1 .. Cardinality(D) |->
                   CHOOSE x \in D : Cardinality({y \in D : Ahead(y, x)}) = n - 1]
<1>1. IsFiniteSet(D) /\ D \in SUBSET Nat
  BY SeqDomain
<1>2. \A i \in D : s[i] \in Passage
  OBVIOUS
<1>3. \A i \in D : /\ Rank(sc, s[i].source) \in Int /\ s[i].level \in Int
                   /\ s[i].from \in Int /\ s[i].score \in Int
  <2> SUFFICES ASSUME NEW i \in D
               PROVE  /\ Rank(sc, s[i].source) \in Int /\ s[i].level \in Int
                      /\ s[i].from \in Int /\ s[i].score \in Int
    OBVIOUS
  <2>1. Rank(sc, s[i].source) \in Nat
    BY RankNat
  <2>2. s[i] \in Passage
    BY <1>2
  <2>3. s[i].level \in {0, 1} /\ s[i].from \in Nat /\ s[i].score \in Int
    BY ONLY <2>2 DEF Passage
  <2> QED BY <2>1, <2>3
<1>4. k \in [D -> Int \X Int \X Int \X Int]
  BY <1>3
<1>5. StrictOrder(D, R)
  BY <1>1, <1>4, KeyOrder
<1>6. ASSUME NEW i \in D, NEW j \in D
      PROVE  Ahead(i, j) <=> Precedes(k, i, j)
  <2>1. /\ k[i][1] = 0 /\ k[i][2] = Rank(sc, s[i].source)
        /\ k[i][3] = s[i].level /\ k[i][4] = s[i].from
        /\ k[j][1] = 0 /\ k[j][2] = Rank(sc, s[j].source)
        /\ k[j][3] = s[j].level /\ k[j][4] = s[j].from
    OBVIOUS
  <2>2. InOrder(sc, s[i], s[j]) <=>
          \/ k[i][2] < k[j][2]
          \/ k[i][2] = k[j][2] /\ k[i][3] < k[j][3]
          \/ k[i][2] = k[j][2] /\ k[i][3] = k[j][3] /\ k[i][4] < k[j][4]
    BY <1>2, <2>1, InOrderIs
  <2>3. InOrder(sc, s[j], s[i]) <=>
          \/ k[j][2] < k[i][2]
          \/ k[j][2] = k[i][2] /\ k[j][3] < k[i][3]
          \/ k[j][2] = k[i][2] /\ k[j][3] = k[i][3] /\ k[j][4] < k[i][4]
    BY <1>2, <2>1, InOrderIs
  <2>4. k[i][2] \in Int /\ k[i][3] \in Int /\ k[i][4] \in Int
        /\ k[j][2] \in Int /\ k[j][3] \in Int /\ k[j][4] \in Int
    BY <1>3, <2>1
  <2> HIDE DEF k
  <2>5. PICK a, b, c \in Int : a = k[i][2] /\ b = k[i][3] /\ c = k[i][4]
    BY <2>4
  <2>6. PICK x, y, z \in Int : x = k[j][2] /\ y = k[j][3] /\ z = k[j][4]
    BY <2>4
  <2>7. InOrder(sc, s[i], s[j]) <=> a < x \/ (a = x /\ (b < y \/ (b = y /\ c < z)))
    BY ONLY <2>2, <2>5, <2>6
  <2>8. InOrder(sc, s[j], s[i]) <=> x < a \/ (x = a /\ (y < b \/ (y = b /\ z < c)))
    BY ONLY <2>3, <2>5, <2>6
  <2>9. Precedes(k, i, j) <=> \/ a < x
                              \/ a = x /\ (b < y \/ (b = y /\ (c < z \/ (c = z /\ i < j))))
    BY ONLY <2>1, <2>5, <2>6 DEF Precedes
  <2>10. Ahead(i, j) <=> \/ InOrder(sc, s[i], s[j])
                         \/ ~InOrder(sc, s[j], s[i]) /\ i < j
    OBVIOUS
  <2> HIDE DEF Ahead
  <2> QED BY ONLY <2>7, <2>8, <2>9, <2>10
<1>7. ASSUME NEW x \in D
      PROVE  {y \in D : Ahead(y, x)} = Below(D, R, x)
  <2> HIDE DEF Ahead, k
  <2> QED BY <1>6 DEF Below
<1>8. ASSUME NEW n \in 1 .. Cardinality(D)
      PROVE  o[n] \in D /\ Cardinality(Below(D, R, o[n])) = n - 1
  <2> HIDE DEF R, Ahead
  <2>1. PICK x \in D : Cardinality(Below(D, R, x)) = n - 1
    BY <1>1, <1>5, Places
  <2>2. Cardinality({y \in D : Ahead(y, x)}) = n - 1
    BY <1>7, <2>1
  <2>3. o[n] \in D /\ Cardinality({y \in D : Ahead(y, o[n])}) = n - 1
    BY <2>2
  <2> HIDE DEF o
  <2> QED BY <1>7, <2>3
<1>9. ByReading(s, sc) = [i \in DOMAIN o |-> s[o[i]]]
  BY DEF ByReading, Sorted, Ordered
<1>10. Lists(o, D)
  <2> HIDE DEF R
  <2>1. o \in [1 .. Cardinality(D) -> D]
    BY <1>8
  <2> HIDE DEF o
  <2> QED BY <1>1, <1>5, <1>8, <2>1, ChosenLists
<1> HIDE DEF o
<1> QED BY <1>9, <1>10, Relisted

\* ... and what is sorted by score.
LEMMA ByScoreFacts ==
    ASSUME NEW T, NEW sc \in Seq(T), NEW s \in Seq(Passage)
    PROVE  ByScore(s, sc) \in Seq(Passage) /\ TakenFrom(ByScore(s, sc), s, DOMAIN s)
<1> DEFINE D == DOMAIN s
           k == [i \in D |-> <<0 - s[i].score, Rank(sc, s[i].source), s[i].level, s[i].from>>]
           R == {p \in D \X D : Precedes(k, p[1], p[2])}
           Before(a, b) == a.score > b.score \/ (a.score = b.score /\ InOrder(sc, a, b))
           Ahead(i, j) == Before(s[i], s[j]) \/ (~Before(s[j], s[i]) /\ i < j)
           o == [n \in 1 .. Cardinality(D) |->
                   CHOOSE x \in D : Cardinality({y \in D : Ahead(y, x)}) = n - 1]
<1>1. IsFiniteSet(D) /\ D \in SUBSET Nat
  BY SeqDomain
<1>2. \A i \in D : s[i] \in Passage
  OBVIOUS
<1>3. \A i \in D : /\ Rank(sc, s[i].source) \in Int /\ s[i].level \in Int
                   /\ s[i].from \in Int /\ s[i].score \in Int
  <2> SUFFICES ASSUME NEW i \in D
               PROVE  /\ Rank(sc, s[i].source) \in Int /\ s[i].level \in Int
                      /\ s[i].from \in Int /\ s[i].score \in Int
    OBVIOUS
  <2>1. Rank(sc, s[i].source) \in Nat
    BY RankNat
  <2>2. s[i] \in Passage
    BY <1>2
  <2>3. s[i].level \in {0, 1} /\ s[i].from \in Nat /\ s[i].score \in Int
    BY ONLY <2>2 DEF Passage
  <2> QED BY <2>1, <2>3
<1>4. k \in [D -> Int \X Int \X Int \X Int]
  BY <1>3
<1>5. StrictOrder(D, R)
  BY <1>1, <1>4, KeyOrder
<1>6. ASSUME NEW i \in D, NEW j \in D
      PROVE  Ahead(i, j) <=> Precedes(k, i, j)
  <2>1. /\ k[i][1] = 0 - s[i].score /\ k[i][2] = Rank(sc, s[i].source)
        /\ k[i][3] = s[i].level /\ k[i][4] = s[i].from
        /\ k[j][1] = 0 - s[j].score /\ k[j][2] = Rank(sc, s[j].source)
        /\ k[j][3] = s[j].level /\ k[j][4] = s[j].from
    OBVIOUS
  <2>2. InOrder(sc, s[i], s[j]) <=>
          \/ k[i][2] < k[j][2]
          \/ k[i][2] = k[j][2] /\ k[i][3] < k[j][3]
          \/ k[i][2] = k[j][2] /\ k[i][3] = k[j][3] /\ k[i][4] < k[j][4]
    BY <1>2, <2>1, InOrderIs
  <2>3. InOrder(sc, s[j], s[i]) <=>
          \/ k[j][2] < k[i][2]
          \/ k[j][2] = k[i][2] /\ k[j][3] < k[i][3]
          \/ k[j][2] = k[i][2] /\ k[j][3] = k[i][3] /\ k[j][4] < k[i][4]
    BY <1>2, <2>1, InOrderIs
  <2>4. k[i][1] \in Int /\ k[j][1] \in Int /\ k[i][2] \in Int /\ k[i][3] \in Int /\ k[i][4] \in Int
        /\ k[j][2] \in Int /\ k[j][3] \in Int /\ k[j][4] \in Int
    BY <1>3, <2>1
  <2>5. /\ s[i].score > s[j].score <=> k[i][1] < k[j][1]
        /\ s[j].score > s[i].score <=> k[j][1] < k[i][1]
        /\ s[i].score = s[j].score <=> k[i][1] = k[j][1]
    BY <1>3, <2>1
  <2> HIDE DEF k
  <2>6. CASE k[i][1] = k[j][1]
    <3>1. Ahead(i, j) <=> \/ InOrder(sc, s[i], s[j])
                          \/ ~InOrder(sc, s[j], s[i]) /\ i < j
      BY <2>4, <2>5, <2>6
    <3>2. Precedes(k, i, j) <=>
            \/ k[i][2] < k[j][2]
            \/ k[i][2] = k[j][2] /\ k[i][3] < k[j][3]
            \/ /\ k[i][2] = k[j][2] /\ k[i][3] = k[j][3]
               /\ k[i][4] < k[j][4] \/ (k[i][4] = k[j][4] /\ i < j)
      BY <2>4, <2>6 DEF Precedes
    <3>3. PICK a, b, c \in Int : a = k[i][2] /\ b = k[i][3] /\ c = k[i][4]
      BY <2>4
    <3>4. PICK x, y, z \in Int : x = k[j][2] /\ y = k[j][3] /\ z = k[j][4]
      BY <2>4
    <3>5. InOrder(sc, s[i], s[j]) <=> a < x \/ (a = x /\ (b < y \/ (b = y /\ c < z)))
      BY ONLY <2>2, <3>3, <3>4
    <3>6. InOrder(sc, s[j], s[i]) <=> x < a \/ (x = a /\ (y < b \/ (y = b /\ z < c)))
      BY ONLY <2>3, <3>3, <3>4
    <3>7. Precedes(k, i, j) <=> \/ a < x
                                \/ a = x /\ (b < y \/ (b = y /\ (c < z \/ (c = z /\ i < j))))
      BY ONLY <3>2, <3>3, <3>4
    <3> HIDE DEF Ahead
    <3> QED BY ONLY <3>1, <3>5, <3>6, <3>7
  <2>7. CASE k[i][1] < k[j][1]
    BY <2>4, <2>5, <2>7 DEF Precedes
  <2>8. CASE k[j][1] < k[i][1]
    BY <2>4, <2>5, <2>8 DEF Precedes
  <2>9. \/ k[i][1] = k[j][1]
        \/ k[i][1] < k[j][1]
        \/ k[j][1] < k[i][1]
    <3>1. PICK a \in Int, x \in Int : a = k[i][1] /\ x = k[j][1]
      BY <2>4
    <3>2. a = x \/ a < x \/ x < a
      OBVIOUS
    <3> QED BY ONLY <3>1, <3>2
  <2> QED BY ONLY <2>6, <2>7, <2>8, <2>9
<1>7. ASSUME NEW x \in D
      PROVE  {y \in D : Ahead(y, x)} = Below(D, R, x)
  <2> HIDE DEF Ahead, k
  <2> QED BY <1>6 DEF Below
<1>8. ASSUME NEW n \in 1 .. Cardinality(D)
      PROVE  o[n] \in D /\ Cardinality(Below(D, R, o[n])) = n - 1
  <2> HIDE DEF R, Ahead
  <2>1. PICK x \in D : Cardinality(Below(D, R, x)) = n - 1
    BY <1>1, <1>5, Places
  <2>2. Cardinality({y \in D : Ahead(y, x)}) = n - 1
    BY <1>7, <2>1
  <2>3. o[n] \in D /\ Cardinality({y \in D : Ahead(y, o[n])}) = n - 1
    BY <2>2
  <2> HIDE DEF o
  <2> QED BY <1>7, <2>3
<1>9. ByScore(s, sc) = [i \in DOMAIN o |-> s[o[i]]]
  BY DEF ByScore, Sorted, Ordered
<1>10. Lists(o, D)
  <2> HIDE DEF R
  <2>1. o \in [1 .. Cardinality(D) -> D]
    BY <1>8
  <2> HIDE DEF o
  <2> QED BY <1>1, <1>5, <1>8, <2>1, ChosenLists
<1> HIDE DEF o
<1> QED BY <1>9, <1>10, Relisted

\* Rows in the order of their tokens, ...
LEMMA ByTokensLists ==
    ASSUME NEW S, IsFiniteSet(S), \A a \in S : a.from \in Int,
           \A a, b \in S : a.from = b.from => a = b
    PROVE  Lists(ByTokens(S), S)
<1> DEFINE R == {p \in S \X S : p[1].from < p[2].from}
           o == [k \in 1 .. Cardinality(S) |->
                   CHOOSE x \in S : Cardinality({y \in S : y.from < x.from}) = k - 1]
<1>1. StrictOrder(S, R)
  <2>1. \A a, b \in S : <<a, b>> \in R <=> a.from < b.from
    OBVIOUS
  <2>2. R \in SUBSET (S \X S)
    OBVIOUS
  <2> HIDE DEF R
  <2> QED BY <2>1, <2>2 DEF StrictOrder
<1>2. \A x \in S : {y \in S : y.from < x.from} = Below(S, R, x)
  BY DEF Below
<1>3. ASSUME NEW k \in 1 .. Cardinality(S)
      PROVE  o[k] \in S /\ Cardinality(Below(S, R, o[k])) = k - 1
  <2> HIDE DEF R
  <2>1. PICK x \in S : Cardinality(Below(S, R, x)) = k - 1
    BY <1>1, Places
  <2>2. Cardinality({y \in S : y.from < x.from}) = k - 1
    BY <1>2, <2>1
  <2>3. o[k] \in S /\ Cardinality({y \in S : y.from < o[k].from}) = k - 1
    BY <2>2
  <2> HIDE DEF o
  <2> QED BY <1>2, <2>3
<1>4. o \in [1 .. Cardinality(S) -> S]
  BY <1>3
<1>5. ByTokens(S) = o
  BY DEF ByTokens, Ordered
<1> HIDE DEF R, o
<1> QED BY <1>1, <1>3, <1>4, <1>5, ChosenLists

\* ... and of their places in the text.
LEMMA ByStartLists ==
    ASSUME NEW S, IsFiniteSet(S), \A a \in S : a.start \in Int,
           \A a, b \in S : a.start = b.start => a = b
    PROVE  Lists(ByStart(S), S)
<1> DEFINE R == {p \in S \X S : p[1].start < p[2].start}
           o == [k \in 1 .. Cardinality(S) |->
                   CHOOSE x \in S : Cardinality({y \in S : y.start < x.start}) = k - 1]
<1>1. StrictOrder(S, R)
  <2>1. \A a, b \in S : <<a, b>> \in R <=> a.start < b.start
    OBVIOUS
  <2>2. R \in SUBSET (S \X S)
    OBVIOUS
  <2> HIDE DEF R
  <2> QED BY <2>1, <2>2 DEF StrictOrder
<1>2. \A x \in S : {y \in S : y.start < x.start} = Below(S, R, x)
  BY DEF Below
<1>3. ASSUME NEW k \in 1 .. Cardinality(S)
      PROVE  o[k] \in S /\ Cardinality(Below(S, R, o[k])) = k - 1
  <2> HIDE DEF R
  <2>1. PICK x \in S : Cardinality(Below(S, R, x)) = k - 1
    BY <1>1, Places
  <2>2. Cardinality({y \in S : y.start < x.start}) = k - 1
    BY <1>2, <2>1
  <2>3. o[k] \in S /\ Cardinality({y \in S : y.start < o[k].start}) = k - 1
    BY <2>2
  <2> HIDE DEF o
  <2> QED BY <1>2, <2>3
<1>4. o \in [1 .. Cardinality(S) -> S]
  BY <1>3
<1>5. ByStart(S) = o
  BY DEF ByStart, Ordered
<1> HIDE DEF R, o
<1> QED BY <1>1, <1>3, <1>4, <1>5, ChosenLists

\* trim_and_order invents no passage, and leaves one if it is given one.
LEMMA TrimAndOrderFacts ==
    ASSUME NEW T, NEW sc \in Seq(T), NEW s \in Seq(Passage), NEW cap
    PROVE  /\ TrimAndOrder(s, sc, cap) \in Seq(Passage)
           /\ s # <<>> => TrimAndOrder(s, sc, cap) # <<>>
           /\ \A i \in DOMAIN TrimAndOrder(s, sc, cap) :
                \E j \in DOMAIN s : TrimAndOrder(s, sc, cap)[i] = s[j]
<1> DEFINE b == ByScore(s, sc)
           w == Within(b, cap)
           u == IF Total(Costs(s)) <= cap THEN s ELSE w
<1>1. b \in Seq(Passage) /\ TakenFrom(b, s, DOMAIN s)
  BY ByScoreFacts
<1>2. Cardinality(DOMAIN s) = Len(s)
  BY SeqDomain
<1>3. w \in Seq(Passage) /\ (b # <<>> => w # <<>>)
      /\ \A i \in DOMAIN w : i \in DOMAIN b /\ w[i] = b[i]
  <2> HIDE DEF b
  <2> QED BY <1>1, WithinFacts
<1>4. TrimAndOrder(s, sc, cap) = ByReading(u, sc)
  BY DEF TrimAndOrder
<1>5. s # <<>> => b # <<>>
  <2> HIDE DEF b
  <2> QED BY <1>1, <1>2 DEF TakenFrom
<1>6. u \in Seq(Passage) /\ (s # <<>> => u # <<>>)
      /\ \A i \in DOMAIN u : \E j \in DOMAIN s : u[i] = s[j]
  <2> HIDE DEF b, w
  <2> QED BY <1>1, <1>3, <1>5 DEF TakenFrom
<1> HIDE DEF u
<1>7. ByReading(u, sc) \in Seq(Passage) /\ TakenFrom(ByReading(u, sc), u, DOMAIN u)
  BY <1>6, ByReadingFacts
<1>8. Cardinality(DOMAIN u) = Len(u)
  BY <1>6, SeqDomain
<1>9. PICK t : t = ByReading(u, sc)
  OBVIOUS
<1>10. u # <<>> => t # <<>>
  BY <1>6, <1>7, <1>8, <1>9 DEF TakenFrom
<1>11. \A i \in DOMAIN t : \E j \in DOMAIN u : t[i] = u[j]
  BY <1>7, <1>9 DEF TakenFrom
<1> QED BY <1>4, <1>6, <1>7, <1>9, <1>10, <1>11

\* A question means at most one section of a source.
LEMMA PickSectionFacts ==
    ASSUME NEW sections \in Seq(SectionRow), NEW target
    PROVE  PickSection(sections, target) \in Seq(SectionRow) /\ Len(PickSection(sections, target)) <= 1
<1> DEFINE Nth(s, n) == Kept(s, DOMAIN s \cap {n})
           named == {i \in DOMAIN sections : sections[i].title = target.noun}
           top == Min({sections[i].level : i \in DOMAIN sections})
           shallow == {i \in DOMAIN sections : sections[i].level = top}
           n == IF target.numbered THEN Max({target.ordinal, 1}) ELSE 1
           pick == PickSection(sections, target)
<1>1. ASSUME NEW s \in Seq(SectionRow), NEW m
      PROVE  Nth(s, m) \in Seq(SectionRow) /\ Len(Nth(s, m)) <= 1
  <2>1. DOMAIN s \cap {m} \in SUBSET DOMAIN s
    OBVIOUS
  <2>2. Nth(s, m) \in Seq(SectionRow) /\ Len(Nth(s, m)) = Cardinality(DOMAIN s \cap {m})
    BY <2>1, KeptFacts DEF TakenFrom
  <2>3. IsFiniteSet({m}) /\ Cardinality({m}) = 1
    BY FS_Singleton
  <2>4. Cardinality(DOMAIN s \cap {m}) <= 1
    BY <2>3, FS_Subset
  <2> QED BY <2>2, <2>4
<1>2. pick = Nth(Kept(sections, named), n) \/ pick = Nth(Kept(sections, shallow), n)
  BY DEF PickSection
<1>3. Kept(sections, named) \in Seq(SectionRow) /\ Kept(sections, shallow) \in Seq(SectionRow)
  <2>1. named \in SUBSET DOMAIN sections /\ shallow \in SUBSET DOMAIN sections
    OBVIOUS
  <2> HIDE DEF named, shallow
  <2> QED BY <2>1, KeptFacts
<1> HIDE DEF Nth, named, shallow, n
<1> QED BY <1>1, <1>2, <1>3

-----------------------------------------------------------------------------
(* Candidates.                                                              *)

\* What a candidate stands for: a retrieved passage, or a live parent of one.
StandsFor(c, retrieved0, parents) ==
    \/ \E j \in DOMAIN retrieved0 : c = retrieved0[j]
    \/ \E x \in parents, j \in DOMAIN retrieved0 :
         retrieved0[j].parent = x.id /\ c.source = x.source /\ c.gen = x.gen

\* build_candidates: each candidate stands for a retrieved passage, and nothing that is
\* retrieved leaves no candidate behind.
LEMMA CandidatesFacts ==
    ASSUME NEW r \in Seq(Passage), NEW n, NEW parents \in SUBSET Passage,
           \A x \in parents : x.id \in Merging(r, n)
    PROVE  /\ Candidates(r, n, parents) \in Seq(Passage)
           /\ \A i \in DOMAIN Candidates(r, n, parents) :
                StandsFor(Candidates(r, n, parents)[i], r, parents)
           /\ \A j \in DOMAIN r :
                (r[j].parent \notin Merging(r, n) \/ \E x \in parents : x.id = r[j].parent)
                  => Candidates(r, n, parents) # <<>>
<1> DEFINE merging == Merging(r, n)
           Kids(p) == {i \in DOMAIN r : r[i].parent = p}
           Top(p) == Max({r[i].score : i \in Kids(p)})
           Merged(p) == [CHOOSE x \in parents : x.id = p EXCEPT !.score = Top(p), !.merged = TRUE]
           first == {i \in DOMAIN r : /\ \E x \in parents : x.id = r[i].parent
                                      /\ \A j \in Kids(r[i].parent) : i <= j}
           single == {i \in DOMAIN r : r[i].parent \notin merging}
           taken == Kept(r, first \cup single)
           C == Candidates(r, n, parents)
<1>1. C = [i \in DOMAIN taken |-> IF taken[i].parent \in merging THEN Merged(taken[i].parent) ELSE taken[i]]
  BY DEF Candidates
<1>2. taken \in Seq(Passage) /\ TakenFrom(taken, r, first \cup single)
  <2>1. first \cup single \in SUBSET DOMAIN r
    OBVIOUS
  <2> HIDE DEF first, single
  <2> QED BY <2>1, KeptFacts
<1>3. ASSUME NEW p, NEW i \in DOMAIN r, r[i].parent = p
      PROVE  Top(p) \in Int
  <2> DEFINE f == [j \in Kids(p) |-> r[j].score]
             S == {r[j].score : j \in Kids(p)}
  <2>1. IsFiniteSet(Kids(p))
    BY SeqDomain
  <2>2. f \in Surjection(Kids(p), S)
    BY DEF Surjection
  <2>3. \A j \in DOMAIN r : r[j] \in Passage
    OBVIOUS
  <2>4. \A j \in DOMAIN r : r[j].score \in Int
    BY <2>3 DEF Passage
  <2>5. S \in SUBSET Int /\ r[i].score \in S
    BY <1>3, <2>4
  <2> HIDE DEF f, Kids
  <2>6. IsFiniteSet(S)
    BY <2>1, <2>2, FS_Surjection
  <2> HIDE DEF S
  <2>7. Max(S) \in S
    BY <2>5, <2>6, MaxOf
  <2> QED BY <2>5, <2>7 DEF S
<1>4. ASSUME NEW i \in DOMAIN taken
      PROVE  \E j \in DOMAIN r : taken[i] = r[j] /\ j \in first \cup single
  BY <1>2 DEF TakenFrom
<1>5. ASSUME NEW j \in first, NEW p, p = r[j].parent
      PROVE  /\ Merged(p) \in Passage
             /\ \E x \in parents : x.id = p /\ Merged(p).source = x.source /\ Merged(p).gen = x.gen
  <2>1. PICK x : x = CHOOSE y \in parents : y.id = p
    OBVIOUS
  <2>2. x \in parents /\ x.id = p /\ x \in Passage
    BY <1>5, <2>1
  <2>3. Top(p) \in Int
    BY <1>3, <1>5
  <2>4. Merged(p) = [x EXCEPT !.score = Top(p), !.merged = TRUE]
    BY <2>1
  <2> HIDE DEF Top, Merged
  <2>5. Merged(p) \in Passage /\ Merged(p).source = x.source /\ Merged(p).gen = x.gen
    BY <2>2, <2>3, <2>4 DEF Passage
  <2> QED BY <2>2, <2>5
<1>6. DOMAIN C = DOMAIN taken
  BY <1>1
<1>7. ASSUME NEW i \in DOMAIN taken
      PROVE  C[i] \in Passage /\ StandsFor(C[i], r, parents)
  <2>1. PICK j \in DOMAIN r : taken[i] = r[j] /\ j \in first \cup single
    BY <1>4
  <2>2. C[i] = IF r[j].parent \in merging THEN Merged(r[j].parent) ELSE r[j]
    <3> HIDE DEF C, taken, Merged, merging, first, single
    <3> QED BY <1>1, <2>1
  <2>3. CASE r[j].parent \in merging
    <3>1. j \in first
      BY <2>1, <2>3
    <3>2. PICK p : p = r[j].parent
      OBVIOUS
    <3> HIDE DEF Merged, first, merging
    <3>3. C[i] = Merged(p)
      BY <2>2, <2>3, <3>2
    <3> QED BY <1>5, <3>1, <3>2, <3>3 DEF StandsFor
  <2>4. CASE r[j].parent \notin merging
    <3>1. C[i] = r[j]
      BY <2>2, <2>4
    <3> QED BY <3>1 DEF StandsFor
  <2> QED BY <2>3, <2>4
<1>8. ASSUME NEW j \in DOMAIN r,
             r[j].parent \notin merging \/ \E x \in parents : x.id = r[j].parent
      PROVE  first \cup single # {}
  <2>1. CASE r[j].parent \notin merging
    BY <2>1
  <2>2. CASE \E x \in parents : x.id = r[j].parent
    <3> DEFINE K == Kids(r[j].parent)
    <3>1. K \in SUBSET Nat /\ K # {}
      OBVIOUS
    <3>2. Min(K) \in K /\ \A k \in K : Min(K) <= k
      <4> HIDE DEF K
      <4> QED BY <3>1, MinOf
    <3>3. Min(K) \in DOMAIN r /\ r[Min(K)].parent = r[j].parent
      BY <3>2
    <3>4. Min(K) \in first
      BY <2>2, <3>2, <3>3
    <3> QED BY <3>4
  <2> QED BY <1>8, <2>1, <2>2
<1>9. first \cup single # {} => taken # <<>>
  <2> SUFFICES ASSUME NEW p \in first \cup single
               PROVE  taken # <<>>
    OBVIOUS
  <2> HIDE DEF first, single, taken
  <2>1. PICK i \in DOMAIN taken : taken[i] = r[p]
    BY <1>2 DEF TakenFrom
  <2> QED BY <2>1
<1>10. taken # <<>> => C # <<>>
  <2> HIDE DEF taken, C
  <2> QED BY <1>2, <1>6
<1>11. C \in Seq(Passage)
  <2> HIDE DEF taken, C, Merged
  <2>1. \A i \in 1 .. Len(taken) : C[i] \in Passage
    BY <1>2, <1>7
  <2>2. DOMAIN C = 1 .. Len(taken) /\ Len(taken) \in Nat
    BY <1>2, <1>6
  <2>3. C = [i \in 1 .. Len(taken) |-> C[i]]
    BY <1>1, <1>2
  <2> QED BY <2>1, <2>2, <2>3
<1> HIDE DEF C, taken, first, single, Kids, Merged
<1> QED BY <1>6, <1>7, <1>8, <1>9, <1>10, <1>11 DEF C

-----------------------------------------------------------------------------
(* The rows of the database.                                                *)

\* A source's row.
Phase == {"settled", "wiped", "written", "purging"}
SourceRow ==
    [there : BOOLEAN, selected : BOOLEAN, trashed : BOOLEAN, gen : Nat, doc : Docs,
     tokens : {NoCount} \cup {SourceTokens(Content[d]) : d \in Docs}, vectors : BOOLEAN, phase : Phase]
SourcesTyped == src \in [Source -> SourceRow]

\* A chunk's parent, the place of which is 0 if there is none.
ParentOf(s, g, d, i) ==
    IF Content[d][i].parent = 0 THEN NoParent ELSE <<s, g, Content[d][i].parent>>

\* A parent is of its child's source and ingest.
LEMMA ParentOfIs ==
    ASSUME NEW s, NEW g, NEW d, NEW i
    PROVE  ParentOf(s, g, d, i) = NoParent
             \/ (ParentOf(s, g, d, i)[1] = s /\ ParentOf(s, g, d, i)[2] = g)
<1>1. CASE Content[d][i].parent = 0
  BY <1>1 DEF ParentOf
<1>2. CASE Content[d][i].parent # 0
  <2>1. ParentOf(s, g, d, i) = <<s, g, Content[d][i].parent>>
    BY <1>2 DEF ParentOf
  <2> QED BY <2>1
<1> QED BY <1>1, <1>2

\* A chunk's id is never the mark of having no parent.
LEMMA NoParentIsNoId ==
    ASSUME NEW x, NEW y, NEW z
    PROVE  <<x, y, z>> # NoParent
<1>1. Len(<<x, y, z>>) = 3 /\ Len(<<>>) = 0
  OBVIOUS
<1> QED BY <1>1 DEF NoParent

\* What the passages of one ingest have in common.
LEMMA IngestedFacts ==
    ASSUME NEW s \in Source, NEW g \in Nat, NEW d \in Docs, NEW p \in Ingested(s, g, d)
    PROVE  /\ p \in Passage /\ p.source = s /\ p.gen = g /\ p.id = <<s, g, p.place>>
           /\ p.place \in DOMAIN Content[d] /\ p.parent = ParentOf(s, g, d, p.place)
           /\ p.from = Content[d][p.place].from /\ p.start = Content[d][p.place].start
<1>1. Content[d] \in Seq(ChunkRow)
  BY AnsweringAssumption
<1>2. PICK i \in DOMAIN Content[d] :
        p = [id |-> <<s, g, i>>, source |-> s, gen |-> g, place |-> i,
             parent |-> ParentOf(s, g, d, i),
             level |-> IF Content[d][i].parent = 0 THEN 0 ELSE 1, from |-> Content[d][i].from,
             start |-> Content[d][i].start, end |-> Content[d][i].end,
             cost |-> Content[d][i].cost, score |-> 0, read |-> FALSE, merged |-> FALSE]
  BY DEF Ingested, ParentOf
<1>3. Content[d][i] \in ChunkRow /\ i \in Nat
  BY <1>1
<1>4. PICK c \in ChunkRow : c = Content[d][i]
  BY <1>3
<1>5. ParentOf(s, g, d, i) \in {NoParent} \cup Id
  BY <1>3, <1>4 DEF ParentOf, Id, ChunkRow
<1>6. PICK q : q = ParentOf(s, g, d, i)
  OBVIOUS
<1>7. c.from \in Nat /\ c.start \in Nat /\ c.end \in Nat /\ c.cost \in Nat
  BY DEF ChunkRow
<1>8. PICK l \in {0, 1} : l = IF c.parent = 0 THEN 0 ELSE 1
  OBVIOUS
<1>9. p = [id |-> <<s, g, i>>, source |-> s, gen |-> g, place |-> i, parent |-> q,
           level |-> l, from |-> c.from, start |-> c.start, end |-> c.end, cost |-> c.cost,
           score |-> 0, read |-> FALSE, merged |-> FALSE]
  BY <1>2, <1>4, <1>6, <1>8
<1>10. p \in Passage
  BY <1>3, <1>5, <1>6, <1>7, <1>9 DEF Passage, Id
<1> QED BY <1>4, <1>6, <1>9, <1>10

\* An ingest's passages are finitely many, one for each of its chunks.
LEMMA IngestedSet ==
    ASSUME NEW s \in Source, NEW g \in Nat, NEW d \in Docs
    PROVE  /\ IsFiniteSet(Ingested(s, g, d))
           /\ \A a, b \in Ingested(s, g, d) : a.place = b.place => a = b
           /\ \A i \in DOMAIN Content[d] : \E p \in Ingested(s, g, d) : p.place = i
<1> DEFINE D == DOMAIN Content[d]
           f == [i \in D |->
                  [id |-> <<s, g, i>>, source |-> s, gen |-> g, place |-> i,
                   parent |-> IF Content[d][i].parent = 0 THEN NoParent
                              ELSE <<s, g, Content[d][i].parent>>,
                   level |-> IF Content[d][i].parent = 0 THEN 0 ELSE 1,
                   from |-> Content[d][i].from, start |-> Content[d][i].start,
                   end |-> Content[d][i].end, cost |-> Content[d][i].cost,
                   score |-> 0, read |-> FALSE, merged |-> FALSE]]
<1>1. Content[d] \in Seq(ChunkRow)
  BY AnsweringAssumption
<1>2. IsFiniteSet(D)
  BY <1>1, SeqDomain
<1>3. Ingested(s, g, d) = {f[i] : i \in D}
  BY DEF Ingested
<1>4. \A i \in D : f[i].place = i
  OBVIOUS
<1>5. DOMAIN f = D /\ f = [i \in D |-> f[i]]
  OBVIOUS
<1> HIDE DEF f, D
<1>6. f \in Surjection(D, {f[i] : i \in D})
  BY <1>5 DEF Surjection
<1>7. IsFiniteSet({f[i] : i \in D})
  BY <1>2, <1>6, FS_Surjection
<1> QED BY <1>3, <1>4, <1>7 DEF D

\* Two passages of one source and one ingest are two chunks.
LEMMA RowsFacts ==
    ASSUME SourcesTyped, NEW s \in Source
    PROVE  /\ IsFiniteSet(Rows(s))
           /\ \A a, b \in Rows(s) : a.place = b.place => a = b
           /\ \A p \in Rows(s) :
                /\ p \in Passage /\ p.source = s /\ p.gen = src[s].gen
                /\ p.id = <<s, p.gen, p.place>> /\ p.place \in DOMAIN Content[src[s].doc]
                /\ p.parent = ParentOf(s, p.gen, src[s].doc, p.place)
                /\ p.from = Content[src[s].doc][p.place].from
                /\ p.start = Content[src[s].doc][p.place].start
<1>1. src[s].gen \in Nat /\ src[s].doc \in Docs
  BY DEF SourcesTyped, SourceRow
<1>2. PICK g \in Nat, d \in Docs : g = src[s].gen /\ d = src[s].doc
  BY <1>1
<1>3. Rows(s) = Ingested(s, g, d) \/ Rows(s) = {}
  BY <1>2 DEF Rows
<1>4. CASE Rows(s) = Ingested(s, g, d)
  <2>1. IsFiniteSet(Rows(s)) /\ \A a, b \in Rows(s) : a.place = b.place => a = b
    BY <1>4, IngestedSet
  <2>2. ASSUME NEW p \in Rows(s)
        PROVE  /\ p \in Passage /\ p.source = s /\ p.gen = g /\ p.id = <<s, g, p.place>>
               /\ p.place \in DOMAIN Content[d] /\ p.parent = ParentOf(s, g, d, p.place)
               /\ p.from = Content[d][p.place].from /\ p.start = Content[d][p.place].start
    BY <1>4, IngestedFacts
  <2> QED BY <1>2, <2>1, <2>2
<1>5. CASE Rows(s) = {}
  BY <1>5, FS_EmptySet
<1> QED BY <1>3, <1>4, <1>5

\* A live row is a row of a live source.
LEMMA LiveRowsFacts ==
    ASSUME SourcesTyped, NEW p \in LiveRows
    PROVE  /\ p \in Passage /\ p.source \in Source /\ Live(p.source) /\ p \in Rows(p.source)
           /\ p.gen = src[p.source].gen /\ p.id = <<p.source, p.gen, p.place>>
           /\ p.parent = ParentOf(p.source, p.gen, src[p.source].doc, p.place)
<1>1. PICK s \in Source : Live(s) /\ p \in Rows(s)
  BY DEF LiveRows
<1> QED BY <1>1, RowsFacts

\* A row that is read by its id is the one.
LEMMA LiveRowsById ==
    ASSUME SourcesTyped, NEW p \in LiveRows, NEW q \in LiveRows, p.id = q.id
    PROVE  p = q
<1>1. p.source = q.source /\ p.place = q.place
  BY LiveRowsFacts
<1> QED BY <1>1, LiveRowsFacts, RowsFacts

\* The parents of a source have an order.
LEMMA ParentsOrdered ==
    ASSUME SourcesTyped, NEW s \in Source, NEW S \in SUBSET Parents(Rows(s))
    PROVE  /\ ByTokens(S) \in Seq(Passage) /\ ByStart(S) \in Seq(Passage)
           /\ \A i \in DOMAIN ByTokens(S) : ByTokens(S)[i] \in S
           /\ \A i \in DOMAIN ByStart(S) : ByStart(S)[i] \in S
           /\ S # {} => ByTokens(S) # <<>> /\ ByStart(S) # <<>>
<1> DEFINE d == src[s].doc
           P == ParentsOf(Content[d])
<1>1. d \in Docs /\ Content[d] \in Seq(ChunkRow) /\ ParentsAdvance(Content[d])
  BY AnsweringAssumption DEF SourcesTyped, SourceRow
<1>2. IsFiniteSet(S)
  BY RowsFacts, FS_Subset DEF Parents
<1>3. ASSUME NEW a \in S
      PROVE  /\ a \in Passage /\ a.place \in P /\ a \in Rows(s)
             /\ a.from = Content[d][a.place].from /\ a.start = Content[d][a.place].start
  <2>1. a \in Rows(s) /\ a.parent = NoParent
    BY DEF Parents
  <2>2. a \in Passage /\ a.place \in DOMAIN Content[d] /\ a.parent = ParentOf(s, a.gen, d, a.place)
        /\ a.from = Content[d][a.place].from /\ a.start = Content[d][a.place].start
    BY <2>1, RowsFacts
  <2>3. Content[d][a.place].parent = 0
    BY <2>1, <2>2, NoParentIsNoId DEF ParentOf
  <2> QED BY <2>1, <2>2, <2>3 DEF ParentsOf
<1>4. ASSUME NEW a \in S, NEW b \in S
      PROVE  a.from \in Int /\ a.start \in Int
             /\ (a.from = b.from => a = b) /\ (a.start = b.start => a = b)
  <2>1. a.place \in P /\ b.place \in P
    BY <1>3
  <2>2. a.from \in Nat /\ b.from \in Nat /\ a.start \in Nat /\ b.start \in Nat
    BY <1>3 DEF Passage
  <2>3. a.place \in Nat /\ b.place \in Nat
    BY <1>3 DEF Passage
  <2>4. a.place < b.place => a.from < b.from /\ a.start < b.start
    BY <1>1, <1>3, <2>1 DEF ParentsAdvance
  <2>5. b.place < a.place => b.from < a.from /\ b.start < a.start
    BY <1>1, <1>3, <2>1 DEF ParentsAdvance
  <2>6. a.place = b.place => a = b
    BY <1>3, RowsFacts
  <2> QED BY <2>2, <2>3, <2>4, <2>5, <2>6
<1>5. Lists(ByTokens(S), S)
  BY <1>2, <1>4, ByTokensLists
<1>6. Lists(ByStart(S), S)
  BY <1>2, <1>4, ByStartLists
<1>7. ASSUME NEW o, Lists(o, S)
      PROVE  o \in Seq(Passage) /\ (\A i \in DOMAIN o : o[i] \in S) /\ (S # {} => o # <<>>)
  <2>1. Cardinality(S) \in Nat
    BY <1>2, FS_CardinalityType
  <2>2. o \in [1 .. Cardinality(S) -> S] /\ \A x \in S : \E i \in DOMAIN o : o[i] = x
    BY <1>7 DEF Lists
  <2>3. o \in Seq(Passage)
    BY <1>3, <2>1, <2>2
  <2>4. ASSUME NEW x \in S PROVE o # <<>>
    <3>1. PICK i \in DOMAIN o : o[i] = x
      BY <2>2
    <3> QED BY <2>3, <3>1
  <2>5. \A i \in DOMAIN o : o[i] \in S
    BY <2>2
  <2> QED BY <2>3, <2>4, <2>5
<1> QED BY <1>5, <1>6, <1>7

-----------------------------------------------------------------------------
(* The searches.                                                            *)

\* The elements of a sequence are finitely many, at most as many as its places.
LEMMA ElementsFinite ==
    ASSUME NEW T, NEW s \in Seq(T)
    PROVE  /\ ToSet(s) \in SUBSET T /\ IsFiniteSet(ToSet(s))
           /\ Cardinality(ToSet(s)) \in Nat /\ Cardinality(ToSet(s)) <= Len(s)
<1>1. IsFiniteSet(DOMAIN s) /\ Cardinality(DOMAIN s) = Len(s)
  BY SeqDomain
<1>2. s \in Surjection(DOMAIN s, ToSet(s))
  BY DEF Surjection, ToSet
<1>3. IsFiniteSet(ToSet(s)) /\ Cardinality(ToSet(s)) <= Cardinality(DOMAIN s)
  BY <1>1, <1>2, FS_Surjection
<1>4. ToSet(s) \in SUBSET T
  BY DEF ToSet
<1> QED BY <1>1, <1>3, <1>4, FS_CardinalityType

\* A sequence without repetitions has as many elements as places.
LEMMA OnceFacts ==
    ASSUME NEW T, NEW s \in Seq(T), Once(s)
    PROVE  Cardinality(ToSet(s)) = Len(s)
<1>1. IsFiniteSet(DOMAIN s) /\ Cardinality(DOMAIN s) = Len(s)
  BY SeqDomain
<1>2. s \in Bijection(DOMAIN s, ToSet(s))
  <2>1. s \in Surjection(DOMAIN s, ToSet(s))
    BY DEF Surjection, ToSet
  <2>2. \A i, j \in DOMAIN s : s[i] = s[j] => i = j
    BY DEF Once
  <2>3. s \in Injection(DOMAIN s, ToSet(s))
    BY <2>1, <2>2 DEF Injection, IsInjective, Surjection
  <2> QED BY <2>1, <2>3 DEF Bijection
<1>3. ExistsBijection(DOMAIN s, ToSet(s))
  BY <1>2 DEF ExistsBijection
<1> QED BY <1>1, <1>3, FS_Bijection

\* What a search or a fusion ranks by a score, and what is equal by who was seen first.
Ahead(all, score, a, b) ==
    \/ score[a] > score[b]
    \/ score[a] = score[b] /\ Seen(all, a) < Seen(all, b)

\* Ranking by score and then by who was seen first is a strict total order.
LEMMA ScoreOrder ==
    ASSUME NEW T, NEW all \in Seq(T), NEW score \in [ToSet(all) -> Int]
    PROVE  StrictOrder(ToSet(all),
                       {p \in ToSet(all) \X ToSet(all) : Ahead(all, score, p[1], p[2])})
<1> DEFINE D == ToSet(all)
           R == {p \in D \X D : Ahead(all, score, p[1], p[2])}
<1>1. ASSUME NEW x \in D
      PROVE  score[x] \in Int /\ Seen(all, x) \in Int /\ all[Seen(all, x)] = x
  <2>1. Seen(all, x) \in DOMAIN all /\ all[Seen(all, x)] = x
    BY SeenFacts
  <2> QED BY <2>1
<1> HIDE DEF D
<1>2. R \in SUBSET (D \X D)
  OBVIOUS
<1>3. \A x \in D : ~Ahead(all, score, x, x)
  BY <1>1 DEF Ahead
<1>4. ASSUME NEW x \in D, NEW y \in D, NEW z \in D, Ahead(all, score, x, y), Ahead(all, score, y, z)
      PROVE  Ahead(all, score, x, z)
  BY <1>1, <1>4 DEF Ahead
<1>5. ASSUME NEW x \in D, NEW y \in D, x # y
      PROVE  Ahead(all, score, x, y) \/ Ahead(all, score, y, x)
  <2>1. Seen(all, x) # Seen(all, y)
    BY <1>1, <1>5
  <2> QED BY <1>1, <2>1 DEF Ahead
<1>6. \A x, y \in D : <<x, y>> \in R <=> Ahead(all, score, x, y)
  OBVIOUS
<1>7. StrictOrder(D, R)
  <2> HIDE DEF R
  <2> QED BY <1>2, <1>3, <1>4, <1>5, <1>6 DEF StrictOrder
<1> QED BY <1>7 DEF D

\* A ranking goes through the elements of what is ranked, each once.
RankingOf(o, T, all) ==
    /\ o \in Seq(T) /\ Len(o) = Cardinality(ToSet(all))
    /\ \A i \in DOMAIN o : o[i] \in ToSet(all)
    /\ \A x \in ToSet(all) : \E i \in DOMAIN o : o[i] = x

\* What Ordered chooses among the elements of a sequence is a ranking of them.
LEMMA RankingFacts ==
    ASSUME NEW T, NEW all \in Seq(T), NEW R, StrictOrder(ToSet(all), R),
           NEW o, DOMAIN o = 1 .. Cardinality(ToSet(all)), o = [n \in DOMAIN o |-> o[n]],
           \A n \in DOMAIN o : o[n] \in ToSet(all) /\ Cardinality(Below(ToSet(all), R, o[n])) = n - 1
    PROVE  RankingOf(o, T, all)
<1> DEFINE D == ToSet(all)
<1>1. /\ D \in SUBSET T /\ IsFiniteSet(D)
      /\ Cardinality(D) \in Nat /\ Cardinality(D) <= Len(all)
  BY ElementsFinite
<1>2. o \in [1 .. Cardinality(D) -> D]
  OBVIOUS
<1> HIDE DEF D
<1>3. Lists(o, D)
  BY <1>1, <1>2, ChosenLists DEF D
<1>4. o \in Seq(T) /\ Len(o) = Cardinality(D)
  BY <1>1, <1>2
<1> QED BY <1>1, <1>2, <1>3, <1>4 DEF Lists, D, RankingOf

\* The ids of some rows in the order of a search.
LEMMA RankedFacts ==
    ASSUME NEW ranking \in Seq(Place), NEW rows \in SUBSET Passage
    PROVE  /\ Ranked(ranking, rows) \in Seq(Id)
           /\ \A i \in DOMAIN Ranked(ranking, rows) : \E p \in rows : Ranked(ranking, rows)[i] = p.id
           /\ Once(ranking) /\ (\A p \in rows : p.id = <<p.source, p.gen, p.place>>) =>
                Once(Ranked(ranking, rows))
           /\ \A p \in rows :
                /\ <<p.source, p.place>> \in ToSet(ranking)
                /\ \A q \in rows : q.source = p.source /\ q.place = p.place => q = p
                => p.id \in ToSet(Ranked(ranking, rows))
<1> DEFINE At(r) == {p \in rows : <<p.source, p.place>> = r}
           P == {i \in DOMAIN ranking : At(ranking[i]) # {}}
           found == Kept(ranking, P)
           t == [i \in DOMAIN found |-> (CHOOSE p \in At(found[i]) : TRUE).id]
<1>1. Ranked(ranking, rows) = t
  BY DEF Ranked
<1>2. P \in SUBSET DOMAIN ranking
  OBVIOUS
<1>3. found \in Seq(Place) /\ TakenFrom(found, ranking, P)
  <2> HIDE DEF P
  <2> QED BY <1>2, KeptFacts
<1>4. ASSUME NEW i \in DOMAIN found
      PROVE  t[i] \in Id /\ (CHOOSE p \in At(found[i]) : TRUE) \in At(found[i])
  <2>1. \E p \in P : found[i] = ranking[p]
    BY <1>3 DEF TakenFrom
  <2>2. At(found[i]) # {}
    BY <2>1
  <2>3. PICK x : x = CHOOSE p \in At(found[i]) : TRUE
    OBVIOUS
  <2>4. x \in rows /\ t[i] = x.id
    BY <2>2, <2>3
  <2>5. x.id \in Id
    BY <2>4 DEF Passage
  <2> QED BY <2>2, <2>4, <2>5
<1>5. DOMAIN t = 1 .. Len(found) /\ Len(found) \in Nat
  <2> HIDE DEF P, t
  <2>1. DOMAIN t = DOMAIN found
    BY DEF t
  <2> QED BY <1>3, <2>1
<1>6. t \in Seq(Id) /\ Len(t) = Len(found)
  <2>1. \A i \in 1 .. Len(found) : t[i] \in Id
    BY <1>4, <1>5
  <2>2. t = [i \in 1 .. Len(found) |-> t[i]]
    BY <1>3
  <2> HIDE DEF t, found
  <2> QED BY <1>5, <2>1, <2>2
<1>7. ASSUME NEW p \in rows, <<p.source, p.place>> \in ToSet(ranking),
             \A q \in rows : q.source = p.source /\ q.place = p.place => q = p
      PROVE  p.id \in ToSet(t)
  <2>1. PICK j \in DOMAIN ranking : ranking[j] = <<p.source, p.place>>
    BY <1>7 DEF ToSet
  <2>2. j \in P
    BY <2>1
  <2>3. PICK i \in DOMAIN found : found[i] = ranking[j]
    <3> HIDE DEF P, found
    <3> QED BY <1>3, <2>2 DEF TakenFrom
  <2>4. PICK x : x = CHOOSE q \in At(found[i]) : TRUE
    OBVIOUS
  <2>5. x \in rows /\ <<x.source, x.place>> = <<p.source, p.place>>
    BY <1>4, <2>1, <2>3, <2>4
  <2>6. x.source = p.source /\ x.place = p.place
    BY <2>5
  <2>7. t[i] = p.id
    BY <1>7, <2>4, <2>5, <2>6
  <2>8. i \in DOMAIN t
    BY <2>3
  <2> HIDE DEF t
  <2> QED BY <2>7, <2>8 DEF ToSet
<1>8. ASSUME NEW i \in DOMAIN t
      PROVE  \E p \in rows : t[i] = p.id /\ <<p.source, p.place>> = found[i]
  <2>1. i \in DOMAIN found
    OBVIOUS
  <2>2. PICK x : x = CHOOSE p \in At(found[i]) : TRUE
    OBVIOUS
  <2>3. x \in rows /\ <<x.source, x.place>> = found[i] /\ t[i] = x.id
    BY <1>4, <2>1, <2>2
  <2> HIDE DEF t, found
  <2> QED BY <2>3
<1> HIDE DEF t, P, found
<1>9. ASSUME Once(ranking), \A p \in rows : p.id = <<p.source, p.gen, p.place>>
      PROVE  Once(t)
  <2> SUFFICES ASSUME NEW i \in DOMAIN t, NEW j \in DOMAIN t, t[i] = t[j], i # j PROVE FALSE
    BY DEF Once
  <2>1. PICK a \in rows : t[i] = a.id /\ <<a.source, a.place>> = found[i]
    BY <1>8
  <2>2. PICK b \in rows : t[j] = b.id /\ <<b.source, b.place>> = found[j]
    BY <1>8
  <2>3. found[i] = found[j]
    <3>1. <<a.source, a.gen, a.place>> = <<b.source, b.gen, b.place>>
      BY <1>9, <2>1, <2>2
    <3>2. a.source = b.source /\ a.place = b.place
      BY <3>1
    <3> QED BY <2>1, <2>2, <3>2
  <2>4. i \in DOMAIN found /\ j \in DOMAIN found
    BY <1>3, <1>5
  <2>5. PICK m \in P, n \in P : m # n /\ found[i] = ranking[m] /\ found[j] = ranking[n]
    BY <1>3, <2>4 DEF TakenFrom
  <2> QED BY <1>2, <1>9, <2>3, <2>5 DEF Once
<1> QED BY <1>1, <1>6, <1>7, <1>8, <1>9

\* What is appended has the elements of both.
LEMMA AppendedFacts ==
    ASSUME NEW T, NEW s \in Seq(T), NEW t \in Seq(T)
    PROVE  /\ s \o t \in Seq(T) /\ Len(s \o t) = Len(s) + Len(t)
           /\ \A i \in DOMAIN (s \o t) :
                \/ i \in DOMAIN s /\ (s \o t)[i] = s[i]
                \/ \E j \in DOMAIN t : i = Len(s) + j /\ (s \o t)[i] = t[j]
           /\ ToSet(s \o t) = ToSet(s) \cup ToSet(t)
<1>1. s \o t \in Seq(T) /\ Len(s \o t) = Len(s) + Len(t) /\ Len(s) \in Nat /\ Len(t) \in Nat
  OBVIOUS
<1>2. /\ DOMAIN s = 1 .. Len(s) /\ DOMAIN t = 1 .. Len(t)
      /\ DOMAIN (s \o t) = 1 .. Len(s) + Len(t)
  BY <1>1
<1>3. /\ \A i \in 1 .. Len(s) : (s \o t)[i] = s[i]
      /\ \A j \in 1 .. Len(t) : (s \o t)[Len(s) + j] = t[j]
  OBVIOUS
<1>4. ASSUME NEW i \in DOMAIN (s \o t)
      PROVE  \/ i \in DOMAIN s /\ (s \o t)[i] = s[i]
             \/ \E j \in DOMAIN t : i = Len(s) + j /\ (s \o t)[i] = t[j]
  <2>1. CASE i \in 1 .. Len(s)
    BY <1>2, <1>3, <2>1
  <2>2. CASE i \notin 1 .. Len(s)
    <3>1. PICK j \in 1 .. Len(t) : j = i - Len(s)
      BY <1>1, <1>2, <2>2
    <3>2. i = Len(s) + j
      BY <1>1, <1>2, <3>1
    <3> QED BY <1>2, <1>3, <3>2
  <2> QED BY <2>1, <2>2
<1>5. PICK u : u = s \o t
  OBVIOUS
<1>6. ToSet(u) = ToSet(s) \cup ToSet(t)
  <2>1. ASSUME NEW x \in ToSet(u) PROVE x \in ToSet(s) \cup ToSet(t)
    BY <1>4, <1>5 DEF ToSet
  <2>2. ASSUME NEW x \in ToSet(s) PROVE x \in ToSet(u)
    <3>1. PICK i \in DOMAIN s : x = s[i]
      BY DEF ToSet
    <3>2. i \in DOMAIN u /\ u[i] = x
      BY <1>1, <1>2, <1>3, <1>5, <3>1
    <3> QED BY <3>2 DEF ToSet
  <2>3. ASSUME NEW x \in ToSet(t) PROVE x \in ToSet(u)
    <3>1. PICK j \in DOMAIN t : x = t[j]
      BY DEF ToSet
    <3>2. Len(s) + j \in DOMAIN u /\ u[Len(s) + j] = x
      BY <1>1, <1>2, <1>3, <1>5, <3>1
    <3> QED BY <3>2 DEF ToSet
  <2> QED BY <2>1, <2>2, <2>3
<1> QED BY <1>1, <1>4, <1>5, <1>6

\* A chunk that the graph reaches.
GraphHit == [id : Id, conf : Nat]

\* The graph's arm: its evidence and its expansion, the best of them, above the floor.
LEMMA GraphArmFacts ==
    ASSUME NEW ev \in Seq(Id), NEW ex \in Seq(GraphHit)
    PROVE  /\ GraphArm(ev, ex, Overfetch) \in Seq(Id)
           /\ \A i \in DOMAIN GraphArm(ev, ex, Overfetch) :
                \/ \E j \in DOMAIN ev : GraphArm(ev, ex, Overfetch)[i] = ev[j]
                \/ \E j \in DOMAIN ex : GraphArm(ev, ex, Overfetch)[i] = ex[j].id
<1> DEFINE ids == [i \in DOMAIN ex |-> ex[i].id]
           all == ev \o ids
           Best(id) == IF id \in ToSet(ev) THEN 100
                       ELSE Max({e.conf : e \in {x \in ToSet(ex) : x.id = id}})
           score == [id \in ToSet(all) |-> Best(id)]
           Before(a, b) == \/ Best(a) > Best(b)
                           \/ Best(a) = Best(b) /\ Seen(all, a) < Seen(all, b)
           D == ToSet(all)
           R == {p \in D \X D : Ahead(all, score, p[1], p[2])}
           E(n) == CHOOSE x \in D : Cardinality({y \in D : Before(y, x)}) = n - 1
           o == [n \in 1 .. Cardinality(D) |-> E(n)]
           best == First(Overfetch, o)
           P == {i \in DOMAIN best : Best(best[i]) >= GraphFloor}
<1>1. ids \in Seq(Id)
  <2>1. \A i \in DOMAIN ex : ex[i] \in GraphHit
    OBVIOUS
  <2>2. \A i \in DOMAIN ex : ids[i] \in Id
    BY <2>1 DEF GraphHit
  <2>3. ids = [i \in 1 .. Len(ex) |-> ids[i]] /\ Len(ex) \in Nat
    OBVIOUS
  <2>4. \A i \in 1 .. Len(ex) : ids[i] \in Id
    BY <2>2
  <2> HIDE DEF ids
  <2> QED BY <2>3, <2>4
<1>2. all \in Seq(Id) /\ ToSet(all) = ToSet(ev) \cup ToSet(ids)
  <2>1. PICK t \in Seq(Id) : t = ids
    BY <1>1
  <2> HIDE DEF ids
  <2>2. ev \o t \in Seq(Id) /\ ToSet(ev \o t) = ToSet(ev) \cup ToSet(t)
    BY AppendedFacts
  <2> QED BY <2>1, <2>2
<1>3. ASSUME NEW id \in ToSet(all)
      PROVE  Best(id) \in Int
  <2>1. CASE id \in ToSet(ev)
    BY <2>1
  <2>2. CASE id \notin ToSet(ev)
    <3> DEFINE X == {x \in ToSet(ex) : x.id = id}
               C == {e.conf : e \in X}
               f == [e \in X |-> e.conf]
    <3>1. id \in ToSet(ids)
      BY <1>2, <2>2
    <3>2. PICK i \in DOMAIN ex : id = ex[i].id
      BY <3>1 DEF ToSet
    <3>3. ToSet(ex) \in SUBSET GraphHit /\ IsFiniteSet(ToSet(ex))
      BY ElementsFinite
    <3>4. ex[i] \in X
      BY <3>2 DEF ToSet
    <3>5. IsFiniteSet(X)
      BY <3>3, FS_Subset
    <3>6. f \in Surjection(X, C)
      BY DEF Surjection
    <3>7. \A e \in X : e.conf \in Int
      BY <3>3 DEF GraphHit
    <3>8. C \in SUBSET Int /\ C # {}
      BY <3>4, <3>7
    <3> HIDE DEF X, f
    <3>9. IsFiniteSet(C)
      BY <3>5, <3>6, FS_Surjection
    <3> HIDE DEF C
    <3>10. Max(C) \in Int
      BY <3>8, <3>9, MaxOf
    <3> QED BY <2>2, <3>10 DEF C, X
  <2> QED BY <2>1, <2>2
<1>4. score \in [ToSet(all) -> Int]
  BY <1>3
<1>5. o \in Seq(Id) /\ \A i \in DOMAIN o : o[i] \in ToSet(all)
  <2>1. StrictOrder(D, R)
    <3> HIDE DEF all, score
    <3> QED BY <1>2, <1>4, ScoreOrder
  <2>2. \A x, y \in D : Before(x, y) <=> Ahead(all, score, x, y)
    <3> HIDE DEF all
    <3> QED BY DEF Ahead
  <2>3. ASSUME NEW x \in D
        PROVE  {y \in D : Before(y, x)} = Below(D, R, x)
    <3> HIDE DEF D, Before, score, all
    <3> QED BY <2>2 DEF Below
  <2>4. IsFiniteSet(D)
    <3> HIDE DEF all
    <3> QED BY <1>2, ElementsFinite
  <2> HIDE DEF R, Before, score
  <2>5. ASSUME NEW n \in 1 .. Cardinality(D)
        PROVE  o[n] \in D /\ Cardinality(Below(D, R, o[n])) = n - 1
    <3> HIDE DEF D
    <3>1. PICK x \in D : Cardinality(Below(D, R, x)) = n - 1
      BY <2>1, <2>4, Places
    <3>2. Cardinality({y \in D : Before(y, x)}) = n - 1
      BY <2>3, <3>1
    <3>3. o[n] \in D /\ Cardinality({y \in D : Before(y, o[n])}) = n - 1
      BY <3>2
    <3> QED BY <2>3, <3>3
  <2>6. DOMAIN o = 1 .. Cardinality(D) /\ o = [n \in DOMAIN o |-> o[n]]
    <3> HIDE DEF E, D
    <3> QED OBVIOUS
  <2> HIDE DEF o
  <2>7. \A n \in DOMAIN o : o[n] \in D /\ Cardinality(Below(D, R, o[n])) = n - 1
    BY <2>5, <2>6
  <2> HIDE DEF all
  <2>8. RankingOf(o, Id, all)
    BY <1>2, <2>1, <2>6, <2>7, RankingFacts
  <2> QED BY <2>8 DEF RankingOf
<1>6. Ordered(ToSet(all), Before) = o
  BY DEF Ordered
<1>7. best \in Seq(Id) /\ \A i \in DOMAIN best : i \in DOMAIN o /\ best[i] = o[i]
  <2>1. Overfetch \in Nat
    BY AnsweringAssumption
  <2> HIDE DEF o
  <2> QED BY <1>5, <2>1, FirstFacts
<1>8. P \in SUBSET DOMAIN best
  OBVIOUS
<1>9. GraphArm(ev, ex, Overfetch) = Kept(best, P)
  <2>1. GraphArm(ev, ex, Overfetch) =
          LET b == First(Overfetch, Ordered(ToSet(all), Before))
          IN  Kept(b, {i \in DOMAIN b : Best(b[i]) >= GraphFloor})
    BY DEF GraphArm
  <2> HIDE DEF o, all, Best, Before
  <2> QED BY <1>6, <2>1
<1>10. Kept(best, P) \in Seq(Id) /\ \A i \in DOMAIN Kept(best, P) : \E j \in P : Kept(best, P)[i] = best[j]
  <2> HIDE DEF best, P
  <2> QED BY <1>7, <1>8, KeptFacts DEF TakenFrom
<1> HIDE DEF best, P, o, all
<1>11. ASSUME NEW i \in DOMAIN Kept(best, P)
       PROVE  \/ \E j \in DOMAIN ev : Kept(best, P)[i] = ev[j]
              \/ \E j \in DOMAIN ex : Kept(best, P)[i] = ex[j].id
  <2>1. Kept(best, P)[i] \in ToSet(ev) \cup ToSet(ids)
    BY <1>2, <1>5, <1>7, <1>8, <1>10
  <2> QED BY <2>1 DEF ToSet
<1> QED BY <1>9, <1>10, <1>11

\* A chunk with the score of the fusion.
Fused == [id : Id, score : Int]

\* The fusion scores what the three searches have found; nothing is lost
\* unless there is no place left, and the words alone can fill it.
LEMMA FuseFacts ==
    ASSUME NEW d \in Seq(Id), NEW b \in Seq(Id), NEW g \in Seq(Id)
    PROVE  /\ Fuse(d, b, g, Overfetch) \in Seq(Fused)
           /\ \A i \in DOMAIN Fuse(d, b, g, Overfetch) :
                Fuse(d, b, g, Overfetch)[i].id \in ToSet(d) \cup ToSet(b) \cup ToSet(g)
           /\ \/ Len(Fuse(d, b, g, Overfetch)) = Overfetch
              \/ \A id \in ToSet(d) \cup ToSet(b) \cup ToSet(g) :
                   \E i \in DOMAIN Fuse(d, b, g, Overfetch) : Fuse(d, b, g, Overfetch)[i].id = id
           /\ Once(b) /\ Overfetch <= Len(b) => Len(Fuse(d, b, g, Overfetch)) = Overfetch
<1> DEFINE all == d \o b \o g
           Share(list, id) ==
             IF id \in ToSet(list) THEN Scale \div (RrfK + Seen(list, id) - 1) ELSE 0
           Score(id) == Share(d, id) + Share(b, id) + Share(g, id)
           score == [id \in ToSet(all) |-> Score(id)]
           Before(x, y) == \/ Score(x) > Score(y)
                           \/ Score(x) = Score(y) /\ Seen(all, x) < Seen(all, y)
           D == ToSet(all)
           R == {p \in D \X D : Ahead(all, score, p[1], p[2])}
           E(n) == CHOOSE x \in D : Cardinality({y \in D : Before(y, x)}) = n - 1
           o == [n \in 1 .. Cardinality(D) |-> E(n)]
           all2 == [i \in DOMAIN o |-> [id |-> o[i], score |-> Score(o[i])]]
           fused == First(Overfetch, all2)
<1>1. all \in Seq(Id) /\ ToSet(all) = ToSet(d) \cup ToSet(b) \cup ToSet(g)
  <2>1. PICK e \in Seq(Id) : e = d \o b /\ ToSet(e) = ToSet(d) \cup ToSet(b)
    BY AppendedFacts
  <2>2. e \o g \in Seq(Id) /\ ToSet(e \o g) = ToSet(e) \cup ToSet(g)
    BY AppendedFacts
  <2> QED BY <2>1, <2>2
<1>2. ASSUME NEW id, NEW list \in Seq(Id)
      PROVE  Share(list, id) \in Int
  <2>1. CASE id \in ToSet(list)
    <3>1. RrfK \in Nat \ {0} /\ Seen(list, id) \in DOMAIN list
      BY <2>1, SeenFacts, AnsweringAssumption
    <3>2. PICK k \in Nat : RrfK = k + 1
      BY <3>1
    <3>3. PICK n \in Nat : n = Seen(list, id) /\ n >= 1
      BY <3>1
    <3>4. Scale \div (k + n) \in Int
      BY <3>3 DEF Scale
    <3>5. RrfK + n - 1 = k + n
      BY <3>2
    <3> QED BY <2>1, <3>3, <3>4, <3>5
  <2>2. CASE id \notin ToSet(list)
    BY <2>2
  <2> QED BY <2>1, <2>2
<1>3. \A id : Score(id) \in Int
  <2> HIDE DEF Share
  <2> QED BY <1>2
<1>4. score \in [ToSet(all) -> Int]
  <2> HIDE DEF Score
  <2> QED BY <1>3
<1>5. /\ o \in Seq(Id) /\ Len(o) = Cardinality(ToSet(all))
      /\ \A i \in DOMAIN o : o[i] \in ToSet(all)
      /\ \A x \in ToSet(all) : \E i \in DOMAIN o : o[i] = x
  <2>1. StrictOrder(D, R)
    <3> HIDE DEF all, score
    <3> QED BY <1>1, <1>4, ScoreOrder
  <2>2. \A x, y \in D : Before(x, y) <=> Ahead(all, score, x, y)
    <3> HIDE DEF all, Score
    <3> QED BY DEF Ahead
  <2>3. ASSUME NEW x \in D
        PROVE  {y \in D : Before(y, x)} = Below(D, R, x)
    <3> HIDE DEF D, Before, score, all
    <3> QED BY <2>2 DEF Below
  <2>4. IsFiniteSet(D)
    <3> HIDE DEF all
    <3> QED BY <1>1, ElementsFinite
  <2> HIDE DEF R, Before, score
  <2>5. ASSUME NEW n \in 1 .. Cardinality(D)
        PROVE  o[n] \in D /\ Cardinality(Below(D, R, o[n])) = n - 1
    <3> HIDE DEF D
    <3>1. PICK x \in D : Cardinality(Below(D, R, x)) = n - 1
      BY <2>1, <2>4, Places
    <3>2. Cardinality({y \in D : Before(y, x)}) = n - 1
      BY <2>3, <3>1
    <3>3. o[n] \in D /\ Cardinality({y \in D : Before(y, o[n])}) = n - 1
      BY <3>2
    <3> QED BY <2>3, <3>3
  <2>6. DOMAIN o = 1 .. Cardinality(D) /\ o = [n \in DOMAIN o |-> o[n]]
    <3> HIDE DEF E, D
    <3> QED OBVIOUS
  <2> HIDE DEF o
  <2>7. \A n \in DOMAIN o : o[n] \in D /\ Cardinality(Below(D, R, o[n])) = n - 1
    BY <2>5, <2>6
  <2> HIDE DEF all
  <2>8. RankingOf(o, Id, all)
    BY <1>1, <2>1, <2>6, <2>7, RankingFacts
  <2> QED BY <2>8 DEF RankingOf
<1>6. Ordered(ToSet(all), Before) = o
  BY DEF Ordered
<1>7. Fuse(d, b, g, Overfetch) = fused
  <2>1. Fuse(d, b, g, Overfetch) =
          LET q == Ordered(ToSet(all), Before)
          IN  First(Overfetch, [i \in DOMAIN q |-> [id |-> q[i], score |-> Score(q[i])]])
    BY DEF Fuse
  <2> HIDE DEF o, all, Score, Before
  <2> QED BY <1>6, <2>1
<1> HIDE DEF o, Score, all
<1>8. all2 \in Seq(Fused) /\ Len(all2) = Len(o) /\ DOMAIN all2 = DOMAIN o
      /\ \A i \in DOMAIN o : all2[i].id = o[i]
  <2>1. \A i \in 1 .. Len(o) : all2[i] \in Fused
    BY <1>3, <1>5 DEF Fused
  <2>2. all2 = [i \in 1 .. Len(o) |-> all2[i]] /\ DOMAIN o = 1 .. Len(o) /\ Len(o) \in Nat
    BY <1>5
  <2>3. \A i \in DOMAIN o : all2[i].id = o[i]
    OBVIOUS
  <2> HIDE DEF all2
  <2> QED BY <2>1, <2>2, <2>3
<1>9. Overfetch \in Nat
  BY AnsweringAssumption
<1> HIDE DEF all2
<1>10. /\ fused \in Seq(Fused)
       /\ Len(all2) <= Overfetch => fused = all2
       /\ Overfetch <= Len(all2) => Len(fused) = Overfetch
       /\ \A i \in DOMAIN fused : i \in DOMAIN all2 /\ fused[i] = all2[i]
  BY <1>8, <1>9, FirstFacts, FirstFull
<1> HIDE DEF fused
<1>11. Len(all2) \in Nat
  BY <1>8
<1>12. ASSUME NEW i \in DOMAIN fused PROVE fused[i].id \in ToSet(d) \cup ToSet(b) \cup ToSet(g)
  BY <1>1, <1>5, <1>8, <1>10
<1>13. ASSUME Len(fused) # Overfetch, NEW id \in ToSet(d) \cup ToSet(b) \cup ToSet(g)
       PROVE  \E i \in DOMAIN fused : fused[i].id = id
  <2>1. fused = all2
    BY <1>9, <1>10, <1>11, <1>13
  <2>2. PICK i \in DOMAIN o : o[i] = id
    BY <1>1, <1>5
  <2> QED BY <1>8, <2>1, <2>2
<1>14. ASSUME Once(b), Overfetch <= Len(b)
       PROVE  Len(fused) = Overfetch
  <2>1. Len(b) <= Cardinality(ToSet(all))
    <3>1. ToSet(b) \in SUBSET ToSet(all) /\ IsFiniteSet(ToSet(all))
      BY <1>1, ElementsFinite
    <3>2. Cardinality(ToSet(b)) <= Cardinality(ToSet(all))
      BY <3>1, FS_Subset
    <3> QED BY <1>14, <3>2, OnceFacts
  <2>2. Len(b) \in Nat
    OBVIOUS
  <2>3. Overfetch <= Len(all2)
    BY <1>5, <1>8, <1>9, <1>11, <1>14, <2>1, <2>2
  <2> QED BY <1>10, <2>3
<1> QED BY <1>7, <1>10, <1>12, <1>13, <1>14

\* What the reranker orders.
Hit == [id : Id, score : Int, read : BOOLEAN]

\* What is read of the database is passages.
LEMMA RowsArePassages ==
    ASSUME SourcesTyped
    PROVE  AllRows \in SUBSET Passage /\ LiveRows \in SUBSET Passage
BY RowsFacts DEF AllRows, LiveRows

\* The ids of live rows among some ids.
LEMMA LiveIdsFacts ==
    ASSUME NEW ids \in Seq(Id)
    PROVE  /\ LiveIds(ids) \in Seq(Id) /\ \A i \in DOMAIN LiveIds(ids) : LiveIds(ids)[i] \in ToSet(ids)
           /\ \A p \in LiveRows : p.id \in ToSet(ids) => p.id \in ToSet(LiveIds(ids))
<1> DEFINE P == {i \in DOMAIN ids : \E p \in LiveRows : p.id = ids[i]}
           k == Kept(ids, P)
<1>1. P \in SUBSET DOMAIN ids
  OBVIOUS
<1>2. LiveIds(ids) = k
  BY DEF LiveIds
<1>3. ASSUME NEW p \in LiveRows, p.id \in ToSet(ids)
      PROVE  \E i \in P : ids[i] = p.id
  BY <1>3 DEF ToSet
<1> HIDE DEF P
<1>4. k \in Seq(Id) /\ TakenFrom(k, ids, P)
  BY <1>1, KeptFacts
<1> HIDE DEF k
<1>5. ASSUME NEW p \in LiveRows, p.id \in ToSet(ids)
      PROVE  p.id \in ToSet(k)
  <2>1. PICK i \in P : ids[i] = p.id
    BY <1>3, <1>5
  <2>2. PICK j \in DOMAIN k : k[j] = ids[i]
    BY <1>4 DEF TakenFrom
  <2> QED BY <2>1, <2>2 DEF ToSet
<1>6. \A i \in DOMAIN k : k[i] \in ToSet(ids)
  BY <1>1, <1>4 DEF TakenFrom, ToSet
<1> QED BY <1>2, <1>4, <1>5, <1>6

\* The hits that are among some rows become passages.
LEMMA HydratedFacts ==
    ASSUME NEW rows \in SUBSET Passage, hits \in Seq(Hit)
    PROVE  /\ Hydrated(rows) \in Seq(Passage)
           /\ \A i \in DOMAIN Hydrated(rows) : \E p \in rows :
                /\ Hydrated(rows)[i].source = p.source /\ Hydrated(rows)[i].gen = p.gen
                /\ Hydrated(rows)[i].parent = p.parent
           /\ \A j \in DOMAIN hits : \A p \in rows :
                hits[j].id = p.id /\ (\A q \in rows : q.id = p.id => q = p) =>
                  \E i \in DOMAIN Hydrated(rows) :
                    Hydrated(rows)[i].id = p.id /\ Hydrated(rows)[i].parent = p.parent
<1> DEFINE Meta(h) == CHOOSE p \in rows : p.id = h.id
           P == {i \in DOMAIN hits : \E p \in rows : p.id = hits[i].id}
           found == Kept(hits, P)
           t == [i \in DOMAIN found |->
                   [Meta(found[i]) EXCEPT !.score = found[i].score, !.read = found[i].read]]
<1>1. Hydrated(rows) = t
  BY DEF Hydrated
<1>2. P \in SUBSET DOMAIN hits
  OBVIOUS
<1>3. found \in Seq(Hit) /\ TakenFrom(found, hits, P)
  <2> HIDE DEF P
  <2> QED BY <1>2, KeptFacts
<1>4. ASSUME NEW i \in DOMAIN found
      PROVE  /\ Meta(found[i]) \in rows /\ Meta(found[i]).id = found[i].id
             /\ t[i] \in Passage /\ t[i].id = Meta(found[i]).id
             /\ t[i].source = Meta(found[i]).source /\ t[i].gen = Meta(found[i]).gen
             /\ t[i].parent = Meta(found[i]).parent
  <2>1. PICK p \in P : found[i] = hits[p]
    BY <1>3 DEF TakenFrom
  <2>2. \E x \in rows : x.id = found[i].id
    BY <2>1
  <2>3. PICK h : h = found[i]
    OBVIOUS
  <2>4. PICK x : x = Meta(h)
    OBVIOUS
  <2>5. x \in rows /\ x.id = h.id
    BY <2>2, <2>3, <2>4
  <2>6. h \in Hit
    <3> HIDE DEF found
    <3> QED BY <1>3, <2>3
  <2>7. t[i] = [x EXCEPT !.score = h.score, !.read = h.read]
    BY <2>3, <2>4
  <2> HIDE DEF t, Meta, found
  <2>8. x \in Passage
    BY <2>5
  <2>9. t[i] \in Passage /\ t[i].id = x.id /\ t[i].source = x.source /\ t[i].gen = x.gen
        /\ t[i].parent = x.parent
    BY ONLY <2>6, <2>7, <2>8 DEF Passage, Hit
  <2> QED BY <2>3, <2>4, <2>5, <2>9
<1>5. DOMAIN t = DOMAIN found
  OBVIOUS
<1>6. t \in Seq(Passage)
  <2>1. \A i \in 1 .. Len(found) : t[i] \in Passage
    <3> HIDE DEF t, found
    <3> QED BY <1>3, <1>4
  <2>2. t = [i \in 1 .. Len(found) |-> t[i]] /\ Len(found) \in Nat
    <3>1. t = [i \in DOMAIN found |-> t[i]]
      OBVIOUS
    <3> HIDE DEF t, found
    <3> QED BY <1>3, <3>1
  <2> HIDE DEF t, found
  <2> QED BY <2>1, <2>2
<1>7. ASSUME NEW j \in DOMAIN hits, NEW p \in rows, hits[j].id = p.id, \A q \in rows : q.id = p.id => q = p
      PROVE  \E i \in DOMAIN t : t[i].id = p.id /\ t[i].parent = p.parent
  <2>1. j \in P
    BY <1>7
  <2> HIDE DEF P, found, t, Meta
  <2>2. PICK i \in DOMAIN found : found[i] = hits[j]
    BY <1>3, <2>1 DEF TakenFrom
  <2>3. Meta(found[i]) = p
    BY <1>4, <1>7, <2>2
  <2> QED BY <1>4, <1>5, <2>2, <2>3
<1> HIDE DEF t, found, P, Meta
<1> QED BY <1>1, <1>4, <1>5, <1>6, <1>7

\* The reranker's order is an order of the hits.
LEMMA RerankedFacts ==
    ASSUME NEW s \in Seq(Hit), query.rerank \in Seq(Place)
    PROVE  Reranked(s) \in Seq(Hit) /\ TakenFrom(Reranked(s), s, DOMAIN s)
<1> DEFINE D == DOMAIN s
           At(h) == Rank(query.rerank, <<h.id[1], h.id[3]>>)
           k == [i \in D |-> <<0, 0, 0, At(s[i])>>]
           R == {p \in D \X D : Precedes(k, p[1], p[2])}
           Before(a, b) == At(a) < At(b)
           Forward(i, j) == Before(s[i], s[j]) \/ (~Before(s[j], s[i]) /\ i < j)
           E(n) == CHOOSE x \in D : Cardinality({y \in D : Forward(y, x)}) = n - 1
           o == [n \in 1 .. Cardinality(D) |-> E(n)]
<1>1. D \in SUBSET Nat /\ IsFiniteSet(D) /\ Cardinality(D) = Len(s) /\ Len(s) \in Nat
  BY SeqDomain
<1>2. \A i \in D : At(s[i]) \in Nat
  BY RankNat
<1>3. k \in [D -> Int \X Int \X Int \X Int]
  <2> HIDE DEF At, D
  <2> QED BY <1>2
<1>4. StrictOrder(D, R)
  <2> HIDE DEF k, D
  <2> QED BY <1>1, <1>3, KeyOrder
<1>5. ASSUME NEW i \in D, NEW j \in D
      PROVE  Forward(i, j) <=> Precedes(k, i, j)
  <2> HIDE DEF D, At
  <2>1. /\ k[i][1] = 0 /\ k[i][2] = 0 /\ k[i][3] = 0 /\ k[i][4] = At(s[i])
        /\ k[j][1] = 0 /\ k[j][2] = 0 /\ k[j][3] = 0 /\ k[j][4] = At(s[j])
    OBVIOUS
  <2>2. At(s[i]) \in Nat /\ At(s[j]) \in Nat
    BY <1>2
  <2> HIDE DEF k
  <2> QED BY <2>1, <2>2 DEF Precedes
<1> HIDE DEF Forward, k
<1>6. ASSUME NEW x \in D
      PROVE  {y \in D : Forward(y, x)} = Below(D, R, x)
  BY <1>5 DEF Below
<1> HIDE DEF R, D
<1> HIDE DEF At, Before
<1>14. \A n \in 1 .. Cardinality(D) : \E x \in D : Cardinality(Below(D, R, x)) = n - 1
  <2>1. IsFiniteSet(D)
    BY <1>1
  <2> QED BY ONLY <1>4, <2>1, Places
<1>7. ASSUME NEW n \in 1 .. Cardinality(D)
      PROVE  o[n] \in D /\ Cardinality(Below(D, R, o[n])) = n - 1
  <2>1. PICK x \in D : Cardinality(Below(D, R, x)) = n - 1
    BY <1>14
  <2>2. Cardinality({y \in D : Forward(y, x)}) = n - 1
    BY <1>6, <2>1
  <2>3. o[n] \in D /\ Cardinality({y \in D : Forward(y, o[n])}) = n - 1
    BY <2>2
  <2> QED BY <1>6, <2>3
<1>8. o \in [1 .. Cardinality(D) -> D]
  <2> HIDE DEF E
  <2>1. o = [n \in 1 .. Cardinality(D) |-> o[n]]
    OBVIOUS
  <2>2. \A n \in 1 .. Cardinality(D) : o[n] \in D
    BY <1>7
  <2> QED BY <2>1, <2>2
<1>9. \A n \in 1 .. Cardinality(D) : Cardinality(Below(D, R, o[n])) = n - 1
  BY <1>7
<1>10. Reranked(s) = [i \in DOMAIN o |-> s[o[i]]]
  BY DEF Reranked, Sorted, Ordered, o, E, D, Forward, Before, At
<1> HIDE DEF o
<1>11. Lists(o, D)
  BY <1>1, <1>4, <1>8, <1>9, ChosenLists
<1>12. PICK t : t = [i \in DOMAIN o |-> s[o[i]]]
  OBVIOUS
<1>13. t \in Seq(Hit) /\ TakenFrom(t, s, D)
  <2>1. D \in SUBSET DOMAIN s
    BY DEF D
  <2> QED BY <1>11, <1>12, <2>1, Relisted
<1> QED BY <1>10, <1>12, <1>13 DEF D

-----------------------------------------------------------------------------
(* The inductive invariant.                                                 *)

Stage ==
    {"idle", "resolve", "sections", "spans", "sum", "recount", "tier1", "dense", "live", "bm25",
     "graph", "livegraph", "rerank", "meta", "texts", "counts", "parents", "assembled", "gap",
     "index", "prompt", "stream", "locators"}
Span == [source : Source, start : Nat, end : Nat]

TypeInv ==
    /\ SourcesTyped
    /\ stage \in Stage
    /\ stage # "idle" => query \in Queries
    /\ Scoped \in Seq(Source) /\ DOMAIN scope = DOMAIN Scoped
    /\ stage \in {"sections", "tier1"} => todo \in Seq(Source) /\ todo # <<>>
    /\ stage = "spans" => todo \in Seq(Span) /\ todo # <<>>
    /\ passages \in Seq(Passage) /\ spans \in Seq(Span)
    /\ lists.dense \in Seq(Id) /\ lists.bm25 \in Seq(Id) /\ lists.graph \in Seq(Id)
    /\ lists = [dense |-> lists.dense, bm25 |-> lists.bm25, graph |-> lists.graph]
    /\ hits \in Seq(Hit)
    /\ retrieved \in Seq(Passage)

\* The tiers that read one source after the other read no source twice.
OncePerSource(s) == \A i, j \in DOMAIN s : s[i].source = s[j].source => i = j
ReadingInv ==
    /\ Once(Scoped)
    /\ stage \in {"sections", "spans", "sum", "recount"} => Scoped # <<>>
    /\ stage = "sections" =>
         /\ Once(todo) /\ OncePerSource(spans)
         /\ \A i \in DOMAIN spans, j \in DOMAIN todo : spans[i].source # todo[j]
    /\ stage = "spans" =>
         /\ OncePerSource(todo)
         /\ \A i \in DOMAIN passages, j \in DOMAIN todo : passages[i].source # todo[j].source
    /\ stage = "tier1" =>
         /\ Once(todo)
         /\ \A i \in DOMAIN passages, j \in DOMAIN todo : passages[i].source # todo[j]

\* When nothing is read yet: withdrawn is set at moments when nothing has been read.
Searching == {"dense", "live", "bm25", "graph", "livegraph", "rerank", "meta"}
Hydrating == {"texts", "counts", "parents"}
Unread == {"idle", "resolve", "sections", "sum", "recount"} \cup Searching \cup Hydrating
EmptyInv ==
    /\ stage \in {"idle", "resolve"} => spans = <<>>
    /\ stage \in Unread => passages = <<>>
    /\ stage \in (Unread \ Hydrating) \cup {"spans", "tier1"} => retrieved = <<>>

\* What is hydrated in one read, and the parents that are read later for it.
OfOneSource(s) == \A i, j \in DOMAIN s : s[i].source = s[j].source => s[i].gen = s[j].gen
InScope(s) == \A i \in DOMAIN s : s[i].source \notin withdrawn
HydratedInv ==
    /\ withdrawn \subseteq OutOfScope
    /\ InScope(retrieved) /\ OfOneSource(retrieved)
    /\ \A i \in DOMAIN retrieved :
         LET p == retrieved[i].parent
         IN  p = NoParent \/ (p[1] = retrieved[i].source /\ p[2] = retrieved[i].gen)
    /\ stage = "parents" =>
         \A p \in DOMAIN counts : p # NoParent /\ \E i \in DOMAIN retrieved : retrieved[i].parent = p

TextInv ==
    TypeInv /\ ReadingInv /\ EmptyInv /\ HydratedInv /\ InScope(passages) /\ OfOneSource(passages)

-----------------------------------------------------------------------------
(* The steps that read nothing.                                             *)

\* A scope without rows has no sources.
LEMMA ScopedEmpty ==
    ASSUME NEW c, c = <<>>
    PROVE  [i \in DOMAIN c |-> c[i].source] = <<>>
OBVIOUS

\* What shrinks stays in scope.
LEMMA TextInvSources ==
    ASSUME TextInv, SourcesTyped', asked' = asked, withdrawn' \subseteq withdrawn,
           withdrawn' \subseteq OutOfScope'
    PROVE  TextInv'
<1>1. /\ stage' = stage /\ query' = query /\ scope' = scope /\ todo' = todo
      /\ passages' = passages /\ spans' = spans /\ lists' = lists /\ hits' = hits
      /\ retrieved' = retrieved /\ counts' = counts
  BY DEF asked, searched
<1>2. Scoped' = Scoped
  BY <1>1 DEF Scoped
<1>3. TypeInv'
  BY <1>1, <1>2 DEF TextInv, TypeInv
<1>4. ReadingInv'
  BY <1>1, <1>2 DEF TextInv, ReadingInv, Once, OncePerSource
<1>5. EmptyInv'
  BY <1>1 DEF TextInv, EmptyInv
<1>6. HydratedInv'
  BY <1>1 DEF TextInv, HydratedInv, InScope, OfOneSource
<1>7. InScope(passages)' /\ OfOneSource(passages)'
  BY <1>1 DEF TextInv, InScope, OfOneSource
<1> QED BY <1>3, <1>4, <1>5, <1>6, <1>7 DEF TextInv

\* A change of one source's row leaves what a question has read as it was read.
LEMMA TextInvRow ==
    ASSUME TextInv, NEW s \in Source, NEW row \in SourceRow, Row(s, row)
    PROVE  TextInv'
<1>1. src \in [Source -> SourceRow]
  BY DEF TextInv, TypeInv, SourcesTyped
<1>2. src' = [src EXCEPT ![s] = row] /\ asked' = asked
      /\ withdrawn' = withdrawn \ {t \in {s} : row.there /\ row.selected /\ ~row.trashed}
  BY DEF Row
<1>3. SourcesTyped'
  BY <1>1, <1>2 DEF SourcesTyped
<1>4. ASSUME NEW t \in withdrawn'
      PROVE  t \in OutOfScope'
  <2>1. t \in Source /\ ~Live(t)
    BY <1>2 DEF TextInv, HydratedInv, OutOfScope
  <2>2. CASE t = s
    <3>1. ~(row.there /\ row.selected /\ ~row.trashed) /\ src'[t] = row
      BY <1>1, <1>2, <2>2
    <3> QED BY <2>1, <3>1 DEF OutOfScope, Live
  <2>3. CASE t # s
    <3>1. src'[t] = src[t]
      BY <1>1, <1>2, <2>1, <2>3
    <3> QED BY <2>1, <3>1 DEF OutOfScope, Live
  <2> QED BY <2>2, <2>3
<1> QED BY <1>2, <1>3, <1>4, TextInvSources

\* Ingest, selection, trash, restore and purge, at any moment of a question.
LEMMA TextInvSourceStep ==
    ASSUME TextInv, SourceStep
    PROVE  TextInv'
<1>1. ASSUME NEW s \in Source
      PROVE  src[s] \in SourceRow
  BY DEF TextInv, TypeInv, SourcesTyped
<1>2. ASSUME NEW s \in Source, SetSelected(s) PROVE TextInv'
  <2>1. [src[s] EXCEPT !.selected = ~@] \in SourceRow
    BY <1>1 DEF SourceRow
  <2> QED BY <1>2, <2>1, TextInvRow DEF SetSelected, Begins
<1>3. ASSUME NEW s \in Source, Trash(s) PROVE TextInv'
  <2>1. [src[s] EXCEPT !.trashed = TRUE] \in SourceRow
    BY <1>1 DEF SourceRow
  <2> QED BY <1>3, <2>1, TextInvRow DEF Trash, Begins
<1>4. ASSUME NEW s \in Source, Restore(s) PROVE TextInv'
  <2>1. [src[s] EXCEPT !.trashed = FALSE] \in SourceRow
    BY <1>1 DEF SourceRow
  <2> QED BY <1>4, <2>1, TextInvRow DEF Restore, Begins
<1>5. ASSUME NEW s \in Source, IngestWipes(s) PROVE TextInv'
  <2>1. [src[s] EXCEPT !.vectors = FALSE, !.phase = "wiped"] \in SourceRow
    BY <1>1 DEF SourceRow, Phase
  <2> QED BY <1>5, <2>1, TextInvRow DEF IngestWipes, Begins
<1>6. ASSUME NEW s \in Source, IngestWrites(s) PROVE TextInv'
  <2>1. PICK d \in Docs : GoesOn(s, [src[s] EXCEPT !.gen = @ + 1, !.doc = d, !.phase = "written"])
    BY <1>6 DEF IngestWrites
  <2>2. src[s].gen \in Nat
    BY <1>1 DEF SourceRow
  <2>3. PICK g \in Nat : g = src[s].gen + 1
    BY <2>2
  <2>4. [src[s] EXCEPT !.gen = g, !.doc = d, !.phase = "written"] \in SourceRow
    BY <1>1 DEF SourceRow, Phase
  <2> QED BY <2>1, <2>3, <2>4, TextInvRow DEF GoesOn
<1>7. ASSUME NEW s \in Source, IngestEnds(s) PROVE TextInv'
  <2>1. SourceTokens(Content[src[s].doc]) \in {SourceTokens(Content[d]) : d \in Docs}
    BY <1>1 DEF SourceRow
  <2>2. PICK n \in {SourceTokens(Content[d]) : d \in Docs} : n = SourceTokens(Content[src[s].doc])
    BY <2>1
  <2>3. [src[s] EXCEPT !.vectors = TRUE, !.phase = "settled", !.tokens = n] \in SourceRow
    BY <1>1 DEF SourceRow, Phase
  <2> QED BY <1>7, <2>2, <2>3, TextInvRow DEF IngestEnds, GoesOn
<1>8. ASSUME NEW s \in Source, PurgeVectors(s) PROVE TextInv'
  <2>1. [src[s] EXCEPT !.vectors = FALSE, !.phase = "purging"] \in SourceRow
    BY <1>1 DEF SourceRow, Phase
  <2> QED BY <1>8, <2>1, TextInvRow DEF PurgeVectors, Begins
<1>9. ASSUME NEW s \in Source, PurgeRow(s) PROVE TextInv'
  <2>1. [src[s] EXCEPT !.there = FALSE, !.phase = "settled"] \in SourceRow
    BY <1>1 DEF SourceRow, Phase
  <2> QED BY <1>9, <2>1, TextInvRow DEF PurgeRow, GoesOn
<1>11. ASSUME NEW s \in Source, IngestFails(s) PROVE TextInv'
  <2>1. [src[s] EXCEPT !.phase = "settled"] \in SourceRow
    BY <1>1 DEF SourceRow, Phase
  <2> QED BY <1>11, <2>1, TextInvRow DEF IngestFails, GoesOn
<1>10. ASSUME Promote PROVE TextInv'
  <2>1. src' = src /\ asked' = asked /\ withdrawn' = withdrawn
    BY <1>10 DEF Promote, history
  <2>2. SourcesTyped' /\ withdrawn' \subseteq OutOfScope'
    BY <2>1 DEF TextInv, TypeInv, SourcesTyped, HydratedInv, OutOfScope, Live
  <2> QED BY <2>1, <2>2, TextInvSources
<1> QED BY <1>2, <1>3, <1>4, <1>5, <1>6, <1>7, <1>8, <1>9, <1>10, <1>11 DEF SourceStep

\* At the start nothing is read.
LEMMA TextInvInit ==
    ASSUME Init
    PROVE  TextInv
<1>1. /\ stage = "idle" /\ scope = <<>> /\ todo = <<>> /\ passages = <<>> /\ spans = <<>>
      /\ lists = NoLists /\ hits = <<>> /\ retrieved = <<>> /\ withdrawn = {}
  BY DEF Init, Nothing
<1>2. SourcesTyped
  <2>1. ASSUME NEW s \in Source, NEW row \in FirstRows(s) PROVE row \in SourceRow
    <3>1. PICK d \in FirstDocs[s] :
            row = [there |-> TRUE, selected |-> TRUE, trashed |-> FALSE, gen |-> 1, doc |-> d,
                   tokens |-> IF s \in Failed THEN NoCount ELSE SourceTokens(Content[d]),
                   vectors |-> s \notin Failed, phase |-> "settled"]
      BY <2>1 DEF FirstRows
    <3>2. d \in Docs
      BY AnsweringAssumption
    <3>3. (IF s \in Failed THEN NoCount ELSE SourceTokens(Content[d]))
            \in {NoCount} \cup {SourceTokens(Content[e]) : e \in Docs}
      BY <3>2
    <3> QED BY <3>1, <3>2, <3>3 DEF SourceRow, Phase
  <2>2. \A s \in Source : src[s] \in FirstRows(s)
    BY DEF Init
  <2>3. src = [s \in Source |-> src[s]]
    BY DEF Init
  <2> QED BY <2>1, <2>2, <2>3 DEF SourcesTyped
<1>3. Scoped = <<>>
  BY <1>1, ScopedEmpty DEF Scoped
<1>4. /\ lists.dense = <<>> /\ lists.bm25 = <<>> /\ lists.graph = <<>>
      /\ lists = [dense |-> lists.dense, bm25 |-> lists.bm25, graph |-> lists.graph]
  BY <1>1 DEF NoLists
<1>5. TypeInv
  BY <1>1, <1>2, <1>3, <1>4 DEF TypeInv, Stage, Scoped
<1>6. ReadingInv /\ EmptyInv /\ HydratedInv
  BY <1>1, <1>3 DEF ReadingInv, EmptyInv, HydratedInv, Once, InScope, OfOneSource
<1> QED BY <1>1, <1>5, <1>6 DEF TextInv, InScope, OfOneSource

\* A question that begins, or is over, holds nothing.
LEMMA TextInvLetGo ==
    ASSUME TextInv, LetGo, UNCHANGED sources, withdrawn' = {}, stage' \in {"idle", "resolve"},
           stage' # "idle" => query' \in Queries
    PROVE  TextInv'
<1>1. /\ scope' = <<>> /\ passages' = <<>> /\ spans' = <<>>
      /\ lists' = NoLists /\ hits' = <<>> /\ retrieved' = <<>>
  BY DEF LetGo
<1>2. SourcesTyped'
  BY DEF TextInv, TypeInv, SourcesTyped, sources
<1>3. Scoped' = <<>>
  BY <1>1, ScopedEmpty DEF Scoped
<1>4. /\ lists'.dense = <<>> /\ lists'.bm25 = <<>> /\ lists'.graph = <<>>
      /\ lists' = [dense |-> lists'.dense, bm25 |-> lists'.bm25, graph |-> lists'.graph]
  BY <1>1 DEF NoLists
<1>5. TypeInv'
  BY <1>1, <1>2, <1>3, <1>4 DEF TypeInv, Stage, Scoped
<1>6. ReadingInv' /\ EmptyInv' /\ HydratedInv'
  BY <1>1, <1>3 DEF ReadingInv, EmptyInv, HydratedInv, Once, InScope, OfOneSource
<1> QED BY <1>1, <1>5, <1>6 DEF TextInv, InScope, OfOneSource

\* However a question ends,
LEMMA TextInvEnds ==
    ASSUME TextInv, NEW result, Ends(result)
    PROVE  TextInv'
BY TextInvLetGo DEF Ends

\* and however the next one begins.
LEMMA TextInvAsk ==
    ASSUME TextInv, NEW q \in Queries, Ask(q)
    PROVE  TextInv'
BY TextInvLetGo DEF Ask

\* The sources in scope, in their order, each once.
LEMMA ScopeFound ==
    LET found == Kept(Order, {i \in DOMAIN Order : Live(Order[i])})
    IN  /\ found \in Seq(Source) /\ Once(found)
        /\ \A s \in Source : Live(s) => s \in ToSet(found)
<1> DEFINE P == {i \in DOMAIN Order : Live(Order[i])}
           found == Kept(Order, P)
<1>1. Order \in Seq(Source) /\ ToSet(Order) = Source
      /\ \A i, j \in DOMAIN Order : Order[i] = Order[j] => i = j
  BY AnsweringAssumption
<1>2. P \in SUBSET DOMAIN Order
  OBVIOUS
<1>3. ASSUME NEW s \in Source, Live(s)
      PROVE  \E i \in P : Order[i] = s
  BY <1>1, <1>3 DEF ToSet
<1> HIDE DEF P
<1>4. found \in Seq(Source) /\ TakenFrom(found, Order, P)
  BY <1>1, <1>2, KeptFacts
<1> HIDE DEF found
<1>5. Once(found)
  BY <1>1, <1>2, <1>4 DEF TakenFrom, Once
<1>6. ASSUME NEW s \in Source, Live(s)
      PROVE  s \in ToSet(found)
  <2>1. PICK i \in P : Order[i] = s
    BY <1>3, <1>6
  <2>2. PICK j \in DOMAIN found : found[j] = Order[i]
    BY <1>4 DEF TakenFrom
  <2> QED BY <2>1, <2>2 DEF ToSet
<1> QED BY <1>4, <1>5, <1>6 DEF found, P

\* The scope's rows name the sources found.
LEMMA ScopedIs ==
    ASSUME NEW found \in Seq(Source), NEW c,
           c = [i \in DOMAIN found |-> [source |-> found[i], tokens |-> src[found[i]].tokens]]
    PROVE  [i \in DOMAIN c |-> c[i].source] = found
<1>1. DOMAIN c = DOMAIN found /\ \A i \in DOMAIN found : c[i].source = found[i]
  OBVIOUS
<1>2. found = [i \in DOMAIN found |-> found[i]]
  OBVIOUS
<1> QED BY <1>1, <1>2

\* resolve_selected_sources names each source once.
LEMMA TextInvResolve ==
    ASSUME TextInv, Resolve
    PROVE  TextInv'
<1>1. PICK found : found = Kept(Order, {i \in DOMAIN Order : Live(Order[i])})
  OBVIOUS
<1>2. found \in Seq(Source) /\ Once(found)
  BY <1>1, ScopeFound
<1>3. /\ stage = "resolve" /\ todo' = found
      /\ scope' = [i \in DOMAIN found |-> [source |-> found[i], tokens |-> src[found[i]].tokens]]
      /\ stage' \in {"assembled", "sections", "sum"}
      /\ stage' # "assembled" => found # <<>>
      /\ src' = src /\ query' = query /\ passages' = passages /\ spans' = spans /\ lists' = lists
      /\ hits' = hits /\ retrieved' = retrieved /\ withdrawn' = withdrawn /\ counts' = counts
  BY <1>1 DEF Resolve, sources, searched, history
<1>4. Scoped' = found
  BY <1>2, <1>3, ScopedIs DEF Scoped
<1>5. passages = <<>> /\ retrieved = <<>>
  BY <1>3 DEF TextInv, EmptyInv, Unread, Hydrating
<1>6. TypeInv'
  BY <1>2, <1>3, <1>4 DEF TextInv, TypeInv, SourcesTyped, Stage, Scoped
<1>7. ReadingInv'
  <2>1. spans' = <<>>
    BY <1>3 DEF TextInv, EmptyInv
  <2> QED BY <1>2, <1>3, <1>4, <2>1 DEF ReadingInv, Once, OncePerSource
<1>8. EmptyInv'
  BY <1>3, <1>5 DEF EmptyInv
<1>9. HydratedInv' /\ InScope(passages)' /\ OfOneSource(passages)'
  BY <1>3, <1>5 DEF TextInv, HydratedInv, InScope, OfOneSource, OutOfScope, Live
<1> QED BY <1>6, <1>7, <1>8, <1>9 DEF TextInv

\* The stages after the passages.
Composing == {"assembled", "gap", "index", "prompt", "stream", "locators"}

\* A step that only moves on, once the passages are there.
LEMMA TextInvOn ==
    ASSUME TextInv, stage' \in Composing, UNCHANGED <<query, scope, passages, sources, history>>,
           UNCHANGED searched, stage # "idle"
    PROVE  TextInv'
<1>1. /\ src' = src /\ query' = query /\ scope' = scope /\ passages' = passages
      /\ spans' = spans /\ lists' = lists /\ hits' = hits /\ retrieved' = retrieved
      /\ counts' = counts /\ withdrawn' = withdrawn
      /\ stage' \notin {"idle", "resolve", "sections", "spans", "sum", "recount", "tier1"}
      /\ stage' \notin Unread /\ stage' \in Stage /\ stage' # "parents"
  BY DEF sources, searched, history, Composing, Unread, Searching, Hydrating, Stage
<1>2. Scoped' = Scoped
  BY <1>1 DEF Scoped
<1>3. TypeInv'
  BY <1>1, <1>2 DEF TextInv, TypeInv, SourcesTyped
<1>4. ReadingInv' /\ EmptyInv'
  BY <1>1, <1>2 DEF TextInv, ReadingInv, EmptyInv
<1>5. HydratedInv' /\ InScope(passages)' /\ OfOneSource(passages)'
  BY <1>1 DEF TextInv, HydratedInv, InScope, OfOneSource, OutOfScope, Live
<1> QED BY <1>3, <1>4, <1>5 DEF TextInv

\* The gap check, the prompt and the stream leave the passages alone.
LEMMA TextInvAnswer ==
    ASSUME TextInv, Assembled \/ ReadGap \/ BuildPrompt \/ Stream
    PROVE  TextInv'
<1>1. CASE Assembled
  BY <1>1, TextInvOn DEF Assembled, Moves, Composing
<1>2. CASE ReadGap
  BY <1>2, TextInvOn DEF ReadGap, Moves, Composing
<1>3. CASE BuildPrompt
  BY <1>3, TextInvOn DEF BuildPrompt, Composing
<1>4. CASE Stream
  BY <1>4, TextInvOn DEF Stream, Composing
<1> QED BY <1>1, <1>2, <1>3, <1>4

-----------------------------------------------------------------------------
(* The searches and the hits.                                               *)

\* A step of tier 2 before anything is hydrated.
LEMMA TextInvSearching ==
    ASSUME TextInv, stage \in Searching \cup {"sum", "recount"}, stage' \in Searching \cup {"recount"},
           stage' = "recount" => stage = "sum",
           UNCHANGED <<query, scope, passages, spans, retrieved, counts, sources>>,
           lists'.dense \in Seq(Id), lists'.bm25 \in Seq(Id), lists'.graph \in Seq(Id),
           lists' = [dense |-> lists'.dense, bm25 |-> lists'.bm25, graph |-> lists'.graph],
           hits' \in Seq(Hit), withdrawn' \in {withdrawn, OutOfScope}
    PROVE  TextInv'
<1>1. /\ src' = src /\ query' = query /\ scope' = scope /\ passages' = passages
      /\ spans' = spans /\ retrieved' = retrieved /\ counts' = counts
      /\ stage' \notin {"idle", "resolve", "sections", "spans", "tier1"}
      /\ stage' \in Stage /\ stage' # "parents" /\ stage # "idle"
  BY DEF sources, Searching, Stage
<1>2. passages = <<>> /\ retrieved = <<>>
  BY DEF TextInv, EmptyInv, Unread, Searching, Hydrating
<1>3. Scoped' = Scoped
  BY <1>1 DEF Scoped
<1>4. TypeInv'
  BY <1>1, <1>3 DEF TextInv, TypeInv, SourcesTyped
<1>5. ReadingInv'
  BY <1>1, <1>3 DEF TextInv, ReadingInv, Searching
<1>6. EmptyInv'
  BY <1>1, <1>2 DEF EmptyInv
<1>7. HydratedInv' /\ InScope(passages)' /\ OfOneSource(passages)'
  <2>1. OutOfScope' = OutOfScope
    BY <1>1 DEF OutOfScope, Live
  <2> QED BY <1>1, <1>2, <2>1 DEF TextInv, HydratedInv, InScope, OfOneSource
<1> QED BY <1>4, <1>5, <1>6, <1>7 DEF TextInv

\* A search only adds to the lists of ids.
LEMMA TextInvSearches ==
    ASSUME TextInv, NEW next \in Searching, NEW found, Searches(next, found), stage \in Searching,
           found.dense \in Seq(Id), found.bm25 \in Seq(Id), found.graph \in Seq(Id),
           found = [dense |-> found.dense, bm25 |-> found.bm25, graph |-> found.graph]
    PROVE  TextInv'
<1>1. /\ lists' = found /\ stage' = next /\ withdrawn' = withdrawn /\ hits' = hits
      /\ UNCHANGED <<query, scope, passages, spans, retrieved, counts, sources>>
      /\ stage' # "recount"
  BY DEF Searches, history, Searching
<1>2. hits \in Seq(Hit)
  BY DEF TextInv, TypeInv
<1> QED BY <1>1, <1>2, TextInvSearching

\* What the searches of a question find is places of chunks.
LEMMA QueryTyped ==
    ASSUME TextInv, stage # "idle"
    PROVE  /\ query.dense \in Seq(Place) /\ query.bm25 \in Seq(Place)
           /\ query.evidence \in Seq(Place) /\ query.rerank \in Seq(Place)
           /\ query.expansion \in Seq(Expanded)
<1>1. query \in Question
  BY AnsweringAssumption DEF TextInv, TypeInv
<1> QED BY <1>1 DEF Question

\* The ids are of rows that are there.
OfRows(ids) == \A i \in DOMAIN ids : \E p \in AllRows : ids[i] = p.id

\* What each search finds.
LEMMA DenseFound ==
    ASSUME TextInv, stage # "idle",
           NEW S, S = {t \in ToSet(Scoped) : active /\ src[t].vectors},
           NEW vectors, vectors = UNION {Children(Rows(s)) : s \in S}
    PROVE  /\ First(Overfetch, Ranked(query.dense, vectors)) \in Seq(Id)
           /\ OfRows(First(Overfetch, Ranked(query.dense, vectors)))
<1>1. vectors \in SUBSET Passage /\ vectors \in SUBSET AllRows
  <2>1. Scoped \in Seq(Source)
    BY DEF TextInv, TypeInv
  <2>2. ToSet(Scoped) \in SUBSET Source
    BY <2>1, ElementsFinite
  <2>3. ASSUME NEW s \in Source PROVE Children(Rows(s)) \in SUBSET Passage
                                            /\ Children(Rows(s)) \in SUBSET AllRows
    BY RowsFacts DEF Children, AllRows, TextInv, TypeInv
  <2> QED BY <2>2, <2>3
<1>2. query.dense \in Seq(Place)
  BY QueryTyped
<1>3. PICK r \in Seq(Id) : r = Ranked(query.dense, vectors)
                             /\ \A i \in DOMAIN r : \E p \in vectors : r[i] = p.id
  BY <1>1, <1>2, RankedFacts
<1>4. PICK f \in Seq(Id) : f = First(Overfetch, r) /\ \A i \in DOMAIN f : i \in DOMAIN r /\ f[i] = r[i]
  BY AnsweringAssumption, FirstFacts
<1>5. ASSUME NEW i \in DOMAIN f PROVE \E p \in AllRows : f[i] = p.id
  <2>1. i \in DOMAIN r /\ f[i] = r[i]
    BY <1>4
  <2>2. PICK p \in vectors : r[i] = p.id
    BY <1>3, <2>1
  <2> QED BY <1>1, <2>1, <2>2
<1>6. OfRows(f)
  BY <1>5 DEF OfRows
<1> QED BY <1>3, <1>4, <1>6

\* The lexical search finds ids of live rows, each once, and all that have the words
\* unless there are too many of them.
LEMMA Bm25Found ==
    ASSUME TextInv, stage # "idle"
    PROVE  \E f \in Seq(Id) :
             /\ f = First(Overfetch, Ranked(query.bm25, LiveRows)) /\ OfRows(f) /\ Once(f)
             /\ \/ Overfetch <= Len(f)
                \/ \A p \in LiveRows : <<p.source, p.place>> \in ToSet(query.bm25) => p.id \in ToSet(f)
<1>1. LiveRows \in SUBSET Passage /\ LiveRows \in SUBSET AllRows /\ SourcesTyped
  BY RowsArePassages DEF TextInv, TypeInv, LiveRows, AllRows
<1>2. query.bm25 \in Seq(Place) /\ Once(query.bm25)
  BY QueryTyped, AnsweringAssumption DEF Once, IsInjective, TextInv, TypeInv
<1>3. \A p \in LiveRows : p.id = <<p.source, p.gen, p.place>>
  BY <1>1, LiveRowsFacts
<1>4. ASSUME NEW p \in LiveRows, NEW q \in LiveRows, q.source = p.source, q.place = p.place
      PROVE  q = p
  BY <1>1, <1>4, LiveRowsFacts, RowsFacts
<1>5. PICK x \in Seq(Id) :
        /\ x = Ranked(query.bm25, LiveRows) /\ Once(x)
        /\ \A i \in DOMAIN x : \E p \in LiveRows : x[i] = p.id
        /\ \A p \in LiveRows : <<p.source, p.place>> \in ToSet(query.bm25) => p.id \in ToSet(x)
  BY <1>1, <1>2, <1>3, <1>4, RankedFacts
<1>6. Overfetch \in Nat
  BY AnsweringAssumption
<1>7. PICK f \in Seq(Id) :
        /\ f = First(Overfetch, x) /\ (Len(x) <= Overfetch => f = x)
        /\ \A i \in DOMAIN f : i \in DOMAIN x /\ f[i] = x[i]
  BY <1>6, FirstFacts
<1>8. OfRows(f)
  BY <1>1, <1>5, <1>7 DEF OfRows
<1>9. Once(f)
  BY <1>5, <1>7 DEF Once
<1>10. Overfetch <= Len(f) \/ f = x
  <2>1. Len(x) \in Nat
    OBVIOUS
  <2>2. CASE Len(x) <= Overfetch
    BY <1>7, <2>2
  <2>3. CASE Overfetch <= Len(x)
    <3>1. Len(f) = Overfetch
      BY <1>6, <1>7, <2>3, FirstFull
    <3> QED BY <1>6, <3>1
  <2> QED BY <1>6, <2>1, <2>2, <2>3
<1> QED BY <1>5, <1>7, <1>8, <1>9, <1>10

\* The graph's arm finds ids of its evidence and its expansion, which are of live rows.
LEMMA GraphFound ==
    ASSUME TextInv, SearchGraph
    PROVE  \E g \in Seq(Id) : OfRows(g) /\ Searches("livegraph", [lists EXCEPT !.graph = g])
<1> DEFINE Found(e) == Ranked(<<e.at>>, LiveRows)
           expansion == query.expansion
           P == {i \in DOMAIN expansion : Found(expansion[i]) # <<>>}
           reached == Kept(expansion, P)
           ex == [i \in DOMAIN reached |->
                    [id |-> Found(reached[i])[1], conf |-> reached[i].conf]]
           ev == Ranked(query.evidence, LiveRows)
<1>1. stage = "graph" /\ Searches("livegraph", [lists EXCEPT !.graph = GraphArm(ev, ex, Overfetch)])
  BY DEF SearchGraph
<1>2. LiveRows \in SUBSET Passage /\ LiveRows \in SUBSET AllRows
  BY RowsArePassages DEF TextInv, TypeInv, LiveRows, AllRows
<1>3. query.evidence \in Seq(Place) /\ query.expansion \in Seq(Expanded)
  BY <1>1, QueryTyped
<1>4. ev \in Seq(Id) /\ \A i \in DOMAIN ev : \E p \in LiveRows : ev[i] = p.id
  BY <1>2, <1>3, RankedFacts
<1>5. P \in SUBSET DOMAIN expansion
  OBVIOUS
<1>6. reached \in Seq(Expanded) /\ TakenFrom(reached, expansion, P)
  <2> HIDE DEF P
  <2> QED BY <1>3, <1>5, KeptFacts
<1>7. ASSUME NEW i \in DOMAIN reached
      PROVE  ex[i] \in GraphHit /\ \E p \in LiveRows : ex[i].id = p.id
  <2>1. PICK m \in P : reached[i] = expansion[m]
    BY <1>6 DEF TakenFrom
  <2>2. PICK e : e = reached[i]
    OBVIOUS
  <2>3. Found(e) # <<>>
    BY <2>1, <2>2
  <2>4. e \in Expanded
    <3> HIDE DEF reached
    <3> QED BY <1>6, <2>2
  <2>5. <<e.at>> \in Seq(Place)
    BY <2>4 DEF Expanded
  <2>6. Found(e) \in Seq(Id) /\ \A j \in DOMAIN Found(e) : \E p \in LiveRows : Found(e)[j] = p.id
    <3>1. PICK q \in Seq(Place) : q = <<e.at>>
      BY <2>5
    <3> QED BY <1>2, <3>1, RankedFacts
  <2>7. PICK x \in Id : x = Found(e)[1] /\ \E p \in LiveRows : x = p.id
    <3> HIDE DEF Found
    <3> QED BY <2>3, <2>6
  <2>8. ex[i] = [id |-> x, conf |-> e.conf]
    BY <2>2, <2>7
  <2>9. e.conf \in Nat
    BY <2>4 DEF Expanded
  <2> QED BY <2>7, <2>8, <2>9 DEF GraphHit
<1>8. ex \in Seq(GraphHit) /\ DOMAIN ex = DOMAIN reached
  <2>1. ex = [i \in DOMAIN reached |-> ex[i]]
    OBVIOUS
  <2>2. DOMAIN reached = 1 .. Len(reached) /\ Len(reached) \in Nat
    <3> HIDE DEF reached
    <3> QED BY <1>6
  <2> HIDE DEF ex, reached
  <2>4. DOMAIN ex = DOMAIN reached
    BY <2>1
  <2>3. \A i \in 1 .. Len(reached) : ex[i] \in GraphHit
    BY <1>7, <2>2
  <2> QED BY <2>1, <2>2, <2>3, <2>4
<1> HIDE DEF ex, ev
<1>9. PICK g \in Seq(Id) :
        /\ g = GraphArm(ev, ex, Overfetch)
        /\ \A i \in DOMAIN g : \/ \E j \in DOMAIN ev : g[i] = ev[j]
                              \/ \E j \in DOMAIN ex : g[i] = ex[j].id
  BY <1>4, <1>8, GraphArmFacts
<1>10. \A j \in DOMAIN ex : \E p \in AllRows : ex[j].id = p.id
  BY <1>2, <1>7, <1>8
<1>11. \A j \in DOMAIN ev : \E p \in AllRows : ev[j] = p.id
  BY <1>2, <1>4
<1>12. ASSUME NEW i \in DOMAIN g PROVE \E p \in AllRows : g[i] = p.id
  <2>1. CASE \E j \in DOMAIN ev : g[i] = ev[j]
    BY ONLY <1>11, <2>1
  <2>2. CASE \E j \in DOMAIN ex : g[i] = ex[j].id
    BY ONLY <1>10, <2>2
  <2> QED BY <1>9, <2>1, <2>2
<1>13. OfRows(g)
  BY <1>12 DEF OfRows
<1> QED BY <1>1, <1>9, <1>13

\* No search of tier 2 reads a text.
LEMMA TextInvTier2 ==
    ASSUME TextInv, SearchDense \/ FilterDense \/ SearchBm25 \/ SearchGraph
    PROVE  TextInv'
<1>1. /\ lists.dense \in Seq(Id) /\ lists.bm25 \in Seq(Id) /\ lists.graph \in Seq(Id)
      /\ lists = [dense |-> lists.dense, bm25 |-> lists.bm25, graph |-> lists.graph]
  BY DEF TextInv, TypeInv
<1>2. ASSUME NEW x \in Seq(Id), NEW next \in Searching, stage \in Searching,
             \/ Searches(next, [lists EXCEPT !.dense = x])
             \/ Searches(next, [lists EXCEPT !.bm25 = x])
             \/ Searches(next, [lists EXCEPT !.graph = x])
      PROVE  TextInv'
  <2>1. PICK l : l \in {[lists EXCEPT !.dense = x], [lists EXCEPT !.bm25 = x], [lists EXCEPT !.graph = x]}
                 /\ Searches(next, l)
    BY <1>2
  <2>2. /\ l.dense \in Seq(Id) /\ l.bm25 \in Seq(Id) /\ l.graph \in Seq(Id)
        /\ l = [dense |-> l.dense, bm25 |-> l.bm25, graph |-> l.graph]
    BY <1>1, <2>1
  <2> QED BY <1>2, <2>1, <2>2, TextInvSearches
<1>3. CASE SearchDense
  <2>1. PICK S : S = {t \in ToSet(Scoped) : active /\ src[t].vectors}
    OBVIOUS
  <2>2. PICK vectors : vectors = UNION {Children(Rows(s)) : s \in S}
    OBVIOUS
  <2>3. stage = "dense" /\ Searches("live", [lists EXCEPT !.dense = First(Overfetch, Ranked(query.dense, vectors))])
    BY <1>3, <2>1, <2>2 DEF SearchDense
  <2>4. PICK x \in Seq(Id) : x = First(Overfetch, Ranked(query.dense, vectors))
    BY <2>1, <2>2, <2>3, DenseFound
  <2> QED BY <1>2, <2>3, <2>4 DEF Searching
<1>4. CASE FilterDense
  <2>1. stage = "live" /\ Searches("bm25", [lists EXCEPT !.dense = LiveIds(lists.dense)])
    BY <1>4 DEF FilterDense
  <2>2. PICK x \in Seq(Id) : x = LiveIds(lists.dense)
    BY <1>1, LiveIdsFacts
  <2> QED BY <1>2, <2>1, <2>2 DEF Searching
<1>5. CASE SearchBm25
  <2>1. stage = "bm25" /\ Searches("graph", [lists EXCEPT !.bm25 = First(Overfetch, Ranked(query.bm25, LiveRows))])
    BY <1>5 DEF SearchBm25
  <2>2. PICK x \in Seq(Id) : x = First(Overfetch, Ranked(query.bm25, LiveRows))
    BY <2>1, Bm25Found
  <2> QED BY <1>2, <2>1, <2>2 DEF Searching
<1>6. CASE SearchGraph
  <2>1. PICK x \in Seq(Id) : Searches("livegraph", [lists EXCEPT !.graph = x])
    BY <1>6, GraphFound
  <2>2. stage = "graph"
    BY <1>6 DEF SearchGraph
  <2> QED BY <1>2, <2>1, <2>2 DEF Searching
<1> QED BY <1>3, <1>4, <1>5, <1>6

\* The cut that every question's hits go through: the search's and the reranker's.
Cut == Min({Overfetch, Pool})
LEMMA CutFacts == Cut \in Nat /\ Cut <= Overfetch /\ Cut <= Pool
<1>1. {Overfetch, Pool} \in SUBSET Nat /\ {Overfetch, Pool} # {}
  BY AnsweringAssumption
<1> QED BY <1>1, MinOf DEF Cut

\* The fusion's hits are what the searches have found, and what the words have found is
\* among them unless the cut is full; the words alone can fill it.
LEMMA FusedHits ==
    ASSUME TextInv, FuseHits
    PROVE  /\ hits' \in Seq(Hit)
           /\ \A i \in DOMAIN hits' :
                hits'[i].id \in ToSet(lists.dense) \cup ToSet(lists.bm25) \cup ToSet(lists.graph)
           /\ \/ Cut <= Len(hits')
              \/ \A id \in ToSet(lists.bm25) : \E i \in DOMAIN hits' : hits'[i].id = id
           /\ Once(lists.bm25) /\ Overfetch <= Len(lists.bm25) => Cut <= Len(hits')
<1> DEFINE g == LiveIds(lists.graph)
           fused == Fuse(lists.dense, lists.bm25, g, Overfetch)
           plain == [i \in DOMAIN fused |->
                       [id |-> fused[i].id, score |-> fused[i].score, read |-> FALSE]]
<1>1. hits' = plain \/ hits' = First(Pool, plain)
  BY DEF FuseHits
<1>2. PICK d \in Seq(Id), b \in Seq(Id), e \in Seq(Id) :
        d = lists.dense /\ b = lists.bm25 /\ e = lists.graph
  BY DEF TextInv, TypeInv
<1>3. g \in Seq(Id) /\ \A i \in DOMAIN g : g[i] \in ToSet(e)
  BY <1>2, LiveIdsFacts
<1> HIDE DEF g
<1>4. ToSet(g) \subseteq ToSet(e)
  BY <1>3 DEF ToSet
<1>5. PICK f \in Seq(Fused) : f = Fuse(d, b, g, Overfetch)
  BY <1>3, FuseFacts
<1>6. \A i \in DOMAIN f : f[i].id \in ToSet(d) \cup ToSet(b) \cup ToSet(e)
  BY <1>3, <1>4, <1>5, FuseFacts
<1>7. \/ Len(f) = Overfetch
      \/ \A id \in ToSet(b) : \E i \in DOMAIN f : f[i].id = id
  BY <1>3, <1>5, FuseFacts
<1>8. Once(b) /\ Overfetch <= Len(b) => Len(f) = Overfetch
  BY <1>3, <1>5, FuseFacts
<1>9. fused = f
  BY <1>2, <1>5
<1> HIDE DEF fused
<1>10. PICK h \in Seq(Hit) :
         /\ h = plain /\ Len(h) = Len(f) /\ DOMAIN h = DOMAIN f
         /\ \A i \in DOMAIN f : h[i].id = f[i].id
  <2>1. \A i \in DOMAIN f : f[i] \in Fused
    OBVIOUS
  <2>2. \A i \in 1 .. Len(f) : plain[i] \in Hit
    BY <1>9, <2>1 DEF Fused, Hit
  <2>3. plain = [i \in 1 .. Len(f) |-> plain[i]] /\ DOMAIN f = 1 .. Len(f) /\ Len(f) \in Nat
    BY <1>9
  <2>4. \A i \in DOMAIN f : plain[i].id = f[i].id
    BY <1>9
  <2> HIDE DEF plain
  <2>5. plain \in Seq(Hit)
    BY <2>2, <2>3
  <2>6. Len(plain) = Len(f) /\ DOMAIN plain = DOMAIN f
    BY <2>3
  <2> QED BY <2>4, <2>5, <2>6
<1> HIDE DEF plain
<1>11. Pool \in Nat /\ Overfetch \in Nat /\ Cut \in Nat /\ Cut <= Overfetch /\ Cut <= Pool
  BY AnsweringAssumption, CutFacts
<1>12. PICK k \in Seq(Hit) :
         k = hits' /\ (k = h \/ Pool <= Len(k)) /\ \A i \in DOMAIN k : i \in DOMAIN h /\ k[i] = h[i]
  <2>1. CASE hits' = h
    BY <2>1
  <2>2. CASE hits' = First(Pool, h)
    <3>1. PICK k \in Seq(Hit) :
            /\ k = First(Pool, h) /\ (Len(h) <= Pool => k = h)
            /\ \A i \in DOMAIN k : i \in DOMAIN h /\ k[i] = h[i]
      BY <1>11, FirstFacts
    <3>2. CASE Len(h) <= Pool
      BY <2>2, <3>1, <3>2
    <3>3. CASE Pool <= Len(h)
      <4>1. Len(k) = Pool
        BY <1>11, <3>1, <3>3, FirstFull
      <4>2. Pool <= Len(k)
        BY <1>11, <4>1
      <4> QED BY <2>2, <3>1, <4>2
    <3>4. Len(h) \in Nat
      OBVIOUS
    <3> QED BY <1>11, <3>2, <3>3, <3>4
  <2> QED BY <1>1, <1>10, <2>1, <2>2
<1>13. PICK n \in Nat, m \in Nat : n = Len(f) /\ m = Len(k)
  OBVIOUS
<1>14. n = Overfetch => Cut <= m
  <2>1. k = h => m = n
    BY <1>10, <1>13
  <2>2. k = h \/ Pool <= m
    BY <1>12, <1>13
  <2> QED BY <1>11, <2>1, <2>2
<1>15. \A i \in DOMAIN k : k[i].id \in ToSet(d) \cup ToSet(b) \cup ToSet(e)
  BY <1>6, <1>10, <1>12
<1>16. Cut <= m \/ \A id \in ToSet(b) : \E i \in DOMAIN k : k[i].id = id
  <2>1. CASE n = Overfetch \/ Pool <= m
    BY <1>11, <1>14, <2>1
  <2>2. CASE k = h /\ n # Overfetch
    BY <1>7, <1>10, <1>13, <2>2
  <2> QED BY <1>12, <1>13, <2>1, <2>2
<1> QED BY <1>2, <1>8, <1>12, <1>13, <1>14, <1>15, <1>16

\* The reranker's hits are the fusion's, all of them unless the pool is full.
LEMMA RerankedHits ==
    ASSUME TextInv, Rerank
    PROVE  /\ hits' \in Seq(Hit)
           /\ \A j \in DOMAIN hits' : \E i \in DOMAIN hits : hits'[j].id = hits[i].id
           /\ \/ Pool <= Len(hits')
              \/ /\ Len(hits') = Len(hits)
                 /\ \A i \in DOMAIN hits : \E j \in DOMAIN hits' : hits'[j].id = hits[i].id
<1> DEFINE Text(id) == \E p \in AllRows : p.id = id
           read == [i \in DOMAIN hits |-> [hits[i] EXCEPT !.read = Text(hits[i].id)]]
           best == Reranked(read)
           scored == [i \in DOMAIN best |-> [best[i] EXCEPT !.score = Len(best) - i]]
<1>1. hits' = First(Pool, read) \/ hits' = First(Pool, scored)
  BY DEF Rerank
<1>2. hits \in Seq(Hit) /\ query.rerank \in Seq(Place) /\ Pool \in Nat
  BY QueryTyped, AnsweringAssumption DEF TextInv, TypeInv, Rerank
<1>3. \A i \in DOMAIN hits : read[i] \in Hit /\ read[i].id = hits[i].id
  <2>1. ASSUME NEW h \in Hit PROVE [h EXCEPT !.read = Text(h.id)] \in Hit
                                   /\ [h EXCEPT !.read = Text(h.id)].id = h.id
    <3>1. Text(h.id) \in BOOLEAN
      OBVIOUS
    <3> HIDE DEF Text
    <3> QED BY <3>1 DEF Hit
  <2> HIDE DEF Text
  <2>2. ASSUME NEW i \in DOMAIN hits
        PROVE  read[i] \in Hit /\ read[i].id = hits[i].id
    <3>1. PICK h \in Hit : h = hits[i]
      BY <1>2
    <3>2. read[i] = [h EXCEPT !.read = Text(h.id)]
      BY <3>1
    <3> QED BY <2>1, <3>1, <3>2
  <2> QED BY <2>2
<1>4. read \in Seq(Hit) /\ Len(read) = Len(hits) /\ DOMAIN read = DOMAIN hits
  <2>1. read = [i \in DOMAIN hits |-> read[i]] /\ DOMAIN hits = 1 .. Len(hits) /\ Len(hits) \in Nat
    <3> HIDE DEF Text
    <3> QED BY <1>2
  <2> HIDE DEF read
  <2> QED BY <1>3, <2>1
<1> HIDE DEF read
<1>5. best \in Seq(Hit) /\ TakenFrom(best, read, DOMAIN read)
  BY <1>2, <1>4, RerankedFacts
<1> HIDE DEF best
<1>6. \A i \in DOMAIN best : scored[i] \in Hit /\ scored[i].id = best[i].id
  <2>1. ASSUME NEW h \in Hit, NEW n \in Int
        PROVE  [h EXCEPT !.score = n] \in Hit /\ [h EXCEPT !.score = n].id = h.id
    BY DEF Hit
  <2>2. \A i \in DOMAIN best : best[i] \in Hit /\ Len(best) - i \in Int
    BY <1>5
  <2> QED BY <2>1, <2>2
<1>7. scored \in Seq(Hit) /\ Len(scored) = Len(best) /\ DOMAIN scored = DOMAIN best
  <2>1. scored = [i \in DOMAIN best |-> scored[i]] /\ DOMAIN best = 1 .. Len(best) /\ Len(best) \in Nat
    BY <1>5
  <2> HIDE DEF scored
  <2> QED BY <1>6, <2>1
<1> HIDE DEF scored
<1>8. Len(best) = Len(read)
  BY <1>4, <1>5, SeqDomain DEF TakenFrom
<1>9. /\ \A j \in DOMAIN scored : \E i \in DOMAIN hits : scored[j].id = hits[i].id
      /\ \A i \in DOMAIN hits : \E j \in DOMAIN scored : scored[j].id = hits[i].id
  <2>1. ASSUME NEW j \in DOMAIN scored PROVE \E i \in DOMAIN hits : scored[j].id = hits[i].id
    <3>1. PICK i \in DOMAIN read : best[j] = read[i]
      BY <1>5, <1>7 DEF TakenFrom
    <3> QED BY <1>3, <1>4, <1>6, <1>7, <3>1
  <2>2. ASSUME NEW i \in DOMAIN hits PROVE \E j \in DOMAIN scored : scored[j].id = hits[i].id
    <3>1. PICK j \in DOMAIN best : best[j] = read[i]
      BY <1>4, <1>5 DEF TakenFrom
    <3> QED BY <1>3, <1>6, <1>7, <3>1
  <2> QED BY <2>1, <2>2
<1>10. ASSUME NEW w \in Seq(Hit), w \in {read, scored}, hits' = First(Pool, w)
       PROVE  /\ hits' \in Seq(Hit)
              /\ \A j \in DOMAIN hits' : \E i \in DOMAIN hits : hits'[j].id = hits[i].id
              /\ \/ Pool <= Len(hits')
                 \/ /\ Len(hits') = Len(hits)
                    /\ \A i \in DOMAIN hits : \E j \in DOMAIN hits' : hits'[j].id = hits[i].id
  <2>1. /\ Len(w) = Len(hits) /\ Len(w) \in Nat
        /\ \A j \in DOMAIN w : \E i \in DOMAIN hits : w[j].id = hits[i].id
        /\ \A i \in DOMAIN hits : \E j \in DOMAIN w : w[j].id = hits[i].id
    <3>1. CASE w = read
      BY <1>3, <1>4, <3>1
    <3>2. CASE w = scored
      BY <1>4, <1>7, <1>8, <1>9, <3>2
    <3> QED BY <1>10, <3>1, <3>2
  <2>2. PICK k \in Seq(Hit) :
          /\ k = First(Pool, w) /\ (Len(w) <= Pool => k = w)
          /\ \A j \in DOMAIN k : j \in DOMAIN w /\ k[j] = w[j]
    BY <1>2, FirstFacts
  <2>3. CASE Len(w) <= Pool
    BY <1>10, <2>1, <2>2, <2>3
  <2>4. CASE Pool <= Len(w)
    <3>1. Len(k) = Pool
      BY <1>2, <2>2, <2>4, FirstFull
    <3>2. Pool <= Len(k)
      BY <1>2, <3>1
    <3>3. \A j \in DOMAIN k : \E i \in DOMAIN hits : k[j].id = hits[i].id
      BY <2>1, <2>2
    <3> QED BY <1>10, <2>2, <3>2, <3>3
  <2> QED BY <1>2, <2>1, <2>3, <2>4
<1> QED BY <1>1, <1>4, <1>7, <1>10

\* Neither do the fusion and the reranker.
LEMMA TextInvHits ==
    ASSUME TextInv, FuseHits \/ Rerank
    PROVE  TextInv'
<1>1. stage \in Searching /\ stage' \in {"rerank", "meta"} /\ withdrawn' = OutOfScope
      /\ UNCHANGED <<query, scope, passages, spans, lists, retrieved, counts, sources>>
  BY DEF FuseHits, Rerank, Searching
<1>2. hits' \in Seq(Hit)
  BY FusedHits, RerankedHits
<1>3. /\ lists'.dense \in Seq(Id) /\ lists'.bm25 \in Seq(Id) /\ lists'.graph \in Seq(Id)
      /\ lists' = [dense |-> lists'.dense, bm25 |-> lists'.bm25, graph |-> lists'.graph]
  BY <1>1 DEF TextInv, TypeInv
<1>4. stage' \in Searching /\ stage' # "recount"
  BY <1>1 DEF Searching
<1> QED BY <1>1, <1>2, <1>3, <1>4, TextInvSearching

-----------------------------------------------------------------------------
(* Tiers 0 and 1.                                                           *)

\* Tier 1 begins with nothing read, or the searches do.
LEMMA TextInvCount ==
    ASSUME TextInv, SumTokens \/ Recount
    PROVE  TextInv'
<1>1. /\ stage \in {"sum", "recount"}
      /\ UNCHANGED <<query, scope, passages, searched, sources>>
      /\ \/ BeginTier1
         \/ stage' = "dense" /\ UNCHANGED <<todo, withdrawn>>
         \/ stage = "sum" /\ stage' = "recount" /\ UNCHANGED <<todo, withdrawn>>
  <2>1. CASE SumTokens
    BY <2>1 DEF SumTokens
  <2>2. CASE Recount
    BY <2>2 DEF Recount
  <2> QED BY <2>1, <2>2
<1>2. CASE BeginTier1
  <2>1. /\ src' = src /\ query' = query /\ scope' = scope /\ passages' = passages
        /\ spans' = spans /\ lists' = lists /\ hits' = hits /\ retrieved' = retrieved
        /\ counts' = counts /\ stage' = "tier1" /\ todo' = Scoped /\ withdrawn' = OutOfScope
    BY <1>1, <1>2 DEF BeginTier1, sources, searched
  <2>2. passages = <<>> /\ retrieved = <<>> /\ Scoped # <<>> /\ stage # "idle"
    BY <1>1 DEF TextInv, EmptyInv, ReadingInv, Unread, Hydrating
  <2>3. Scoped' = Scoped
    BY <2>1 DEF Scoped
  <2>4. TypeInv'
    BY <2>1, <2>2, <2>3 DEF TextInv, TypeInv, SourcesTyped, Stage
  <2>5. ReadingInv'
    BY <2>1, <2>2, <2>3 DEF TextInv, ReadingInv
  <2>6. EmptyInv'
    BY <2>1, <2>2 DEF EmptyInv, Unread, Searching, Hydrating
  <2>7. OutOfScope' = OutOfScope
    BY <2>1 DEF OutOfScope, Live
  <2>8. HydratedInv' /\ InScope(passages)' /\ OfOneSource(passages)'
    BY <2>1, <2>2, <2>7 DEF HydratedInv, InScope, OfOneSource
  <2> QED BY <2>4, <2>5, <2>6, <2>8 DEF TextInv
<1>3. CASE stage' \in {"dense", "recount"} /\ withdrawn' = withdrawn
  <2>1. /\ UNCHANGED <<query, scope, passages, spans, lists, hits, retrieved, counts, sources>>
        /\ stage \in Searching \cup {"sum", "recount"} /\ stage' \in Searching \cup {"recount"}
        /\ stage' = "recount" => stage = "sum"
    BY <1>1, <1>3 DEF searched, Searching, BeginTier1
  <2>2. /\ lists'.dense \in Seq(Id) /\ lists'.bm25 \in Seq(Id) /\ lists'.graph \in Seq(Id)
        /\ lists' = [dense |-> lists'.dense, bm25 |-> lists'.bm25, graph |-> lists'.graph]
        /\ hits' \in Seq(Hit)
    BY <2>1 DEF TextInv, TypeInv
  <2> QED BY <1>3, <2>1, <2>2, TextInvSearching
<1> QED BY <1>1, <1>2, <1>3

\* What is read first, and what is left to be read.
LEMMA TailFacts ==
    ASSUME NEW T, NEW s \in Seq(T), s # <<>>
    PROVE  /\ Head(s) = s[1] /\ 1 \in DOMAIN s /\ Head(s) \in T
           /\ Tail(s) \in Seq(T) /\ Len(Tail(s)) = Len(s) - 1
           /\ Len(s) > 1 => Tail(s) # <<>>
           /\ \A i \in DOMAIN Tail(s) : i + 1 \in DOMAIN s /\ i + 1 # 1 /\ Tail(s)[i] = s[i + 1]
<1>1. Len(s) \in Nat /\ Len(s) >= 1 /\ DOMAIN s = 1 .. Len(s)
  OBVIOUS
<1>2. Tail(s) \in Seq(T) /\ Len(Tail(s)) = Len(s) - 1
  BY <1>1
<1>3. DOMAIN Tail(s) = 1 .. Len(s) - 1
  BY <1>2
<1>4. \A i \in 1 .. Len(s) - 1 : Tail(s)[i] = s[i + 1]
  BY <1>1
<1>5. Head(s) = s[1] /\ Head(s) \in T
  BY <1>1
<1>6. Len(s) > 1 => Tail(s) # <<>>
  <2>1. PICK t \in Seq(T) : t = Tail(s) /\ Len(t) = Len(s) - 1
    BY <1>2
  <2>2. Len(s) > 1 => Len(t) # 0
    BY <1>1, <2>1
  <2>3. Len(t) # 0 => t # <<>>
    OBVIOUS
  <2> QED BY <2>1, <2>2, <2>3
<1> QED BY <1>1, <1>2, <1>3, <1>4, <1>5, <1>6

\* What is read of one source that nothing has been read of.
LEMMA AppendPassages ==
    ASSUME TextInv, NEW s \in Source, Live(s), NEW t \in Seq(Passage),
           \A i \in DOMAIN t : t[i] \in Rows(s),
           \A i \in DOMAIN passages : passages[i].source # s
    PROVE  /\ passages \o t \in Seq(Passage)
           /\ InScope(passages \o t) /\ OfOneSource(passages \o t)
           /\ \A i \in DOMAIN (passages \o t) :
                (passages \o t)[i].source = s
                  \/ \E j \in DOMAIN passages : (passages \o t)[i] = passages[j]
<1>1. passages \in Seq(Passage) /\ InScope(passages) /\ OfOneSource(passages)
      /\ withdrawn \subseteq OutOfScope /\ SourcesTyped
  BY DEF TextInv, TypeInv, HydratedInv
<1>2. PICK a : a = passages \o t
  OBVIOUS
<1>3. /\ a \in Seq(Passage)
      /\ \A i \in DOMAIN a :
           \/ i \in DOMAIN passages /\ a[i] = passages[i]
           \/ \E j \in DOMAIN t : i = Len(passages) + j /\ a[i] = t[j]
  BY <1>1, <1>2, AppendedFacts
<1>4. \A i \in DOMAIN t : t[i].source = s /\ t[i].gen = src[s].gen
  BY <1>1, RowsFacts
<1>5. \A i \in DOMAIN a :
        \/ \E j \in DOMAIN passages : a[i] = passages[j]
        \/ a[i].source = s /\ a[i].gen = src[s].gen
  BY ONLY <1>3, <1>4
<1>6. s \notin withdrawn
  BY <1>1 DEF OutOfScope
<1>7. InScope(a)
  BY <1>1, <1>5, <1>6 DEF InScope
<1>8. OfOneSource(a)
  BY <1>1, <1>5 DEF OfOneSource
<1> QED BY <1>2, <1>3, <1>5, <1>7, <1>8

\* A trim takes nothing out of scope and mixes no ingests.
LEMMA Trimmed ==
    ASSUME NEW s \in Seq(Passage), InScope(s), OfOneSource(s), NEW cap
    PROVE  InScope(Within(s, cap)) /\ OfOneSource(Within(s, cap))
<1>1. PICK w : w = Within(s, cap)
  OBVIOUS
<1>2. \A i \in DOMAIN w : i \in DOMAIN s /\ w[i] = s[i]
  BY <1>1, WithinFacts
<1>3. InScope(w) /\ OfOneSource(w)
  BY <1>2 DEF InScope, OfOneSource
<1> QED BY <1>1, <1>3

\* The outlines are read one source after the other.
LEMMA TextInvReadSections ==
    ASSUME TextInv, ReadSections
    PROVE  TextInv'
<1> DEFINE s == Head(todo)
           outline == IF src[s].there THEN Outline[src[s].doc] ELSE <<>>
           picked == PickSection(outline, query.target)
           new == [i \in DOMAIN picked |->
                     [source |-> s, start |-> picked[i].start, end |-> picked[i].end]]
<1>1. /\ stage = "sections" /\ spans' = spans \o new
      /\ \/ Len(todo) > 1 /\ todo' = Tail(todo) /\ UNCHANGED <<stage, withdrawn>>
         \/ /\ ~(Len(todo) > 1) /\ todo' = spans' /\ withdrawn' = OutOfScope
            /\ stage' = IF spans' = <<>> THEN "sum" ELSE "spans"
      /\ UNCHANGED <<query, scope, passages, lists, hits, retrieved, counts, sources>>
  BY DEF ReadSections
<1>2. /\ todo \in Seq(Source) /\ todo # <<>> /\ Once(todo) /\ OncePerSource(spans)
      /\ spans \in Seq(Span) /\ SourcesTyped /\ Scoped # <<>> /\ passages = <<>> /\ retrieved = <<>>
      /\ \A i \in DOMAIN spans, j \in DOMAIN todo : spans[i].source # todo[j]
  BY <1>1 DEF TextInv, TypeInv, ReadingInv, EmptyInv, Unread, Hydrating
<1>3. s \in Source /\ s = todo[1] /\ 1 \in DOMAIN todo
  BY <1>2, TailFacts
<1>4. outline \in Seq(SectionRow)
  BY <1>2, <1>3, AnsweringAssumption DEF SourcesTyped, SourceRow
<1> HIDE DEF outline
<1>5. picked \in Seq(SectionRow) /\ Len(picked) <= 1
  BY <1>4, PickSectionFacts
<1> HIDE DEF picked, s
<1>6. new \in Seq(Span) /\ Len(new) <= 1 /\ \A i \in DOMAIN new : new[i].source = s /\ i = 1
  <2>1. DOMAIN picked = 1 .. Len(picked) /\ Len(picked) \in Nat
        /\ \A i \in DOMAIN picked : picked[i] \in SectionRow
    BY <1>5
  <2>2. \A i \in 1 .. Len(picked) : new[i] \in Span /\ new[i].source = s
    BY <1>3, <2>1 DEF SectionRow, Span
  <2>3. new = [i \in 1 .. Len(picked) |-> new[i]]
    BY <2>1
  <2> HIDE DEF new
  <2>4. new \in Seq(Span) /\ Len(new) = Len(picked) /\ DOMAIN new = 1 .. Len(picked)
    BY <2>1, <2>2, <2>3
  <2>5. \A i \in DOMAIN new : new[i].source = s /\ i = 1
    BY <1>5, <2>1, <2>2, <2>4
  <2> QED BY <1>5, <2>4, <2>5
<1> HIDE DEF new
<1>7. PICK x : x = spans'
  OBVIOUS
<1>8. /\ x \in Seq(Span)
      /\ \A i \in DOMAIN x :
           \/ i \in DOMAIN spans /\ x[i] = spans[i]
           \/ i = Len(spans) + 1 /\ x[i].source = s
  <2>1. spans \o new \in Seq(Span)
        /\ \A i \in DOMAIN (spans \o new) :
             \/ i \in DOMAIN spans /\ (spans \o new)[i] = spans[i]
             \/ \E j \in DOMAIN new : i = Len(spans) + j /\ (spans \o new)[i] = new[j]
    BY <1>2, <1>6, AppendedFacts
  <2> QED BY <1>1, <1>6, <1>7, <2>1
<1>9. OncePerSource(x)
  <2>1. \A i \in DOMAIN spans : spans[i].source # s
    BY <1>2, <1>3
  <2> QED BY <1>2, <1>8, <2>1 DEF OncePerSource
<1>10. /\ src' = src /\ query' = query /\ scope' = scope /\ passages' = passages /\ lists' = lists
       /\ hits' = hits /\ retrieved' = retrieved /\ counts' = counts
       /\ withdrawn' \in {withdrawn, OutOfScope} /\ stage' \in {"sections", "sum", "spans"}
  BY <1>1 DEF sources
<1>11. Scoped' = Scoped
  BY <1>10 DEF Scoped
<1>12. /\ stage' = "sections" =>
            /\ todo' \in Seq(Source) /\ todo' # <<>> /\ Once(todo')
            /\ \A i \in DOMAIN x, j \in DOMAIN todo' : x[i].source # todo'[j]
       /\ stage' = "spans" => todo' = x /\ x # <<>>
  <2>1. CASE Len(todo) > 1
    <3>1. PICK t : t = Tail(todo)
      OBVIOUS
    <3>2. /\ t \in Seq(Source) /\ t # <<>>
          /\ \A i \in DOMAIN t : i + 1 \in DOMAIN todo /\ i + 1 # 1 /\ t[i] = todo[i + 1]
      BY <1>2, <2>1, <3>1, TailFacts
    <3>3. \A i \in DOMAIN t : i \in Nat
      BY <3>2
    <3>4. Once(t)
      BY <1>2, <3>2, <3>3 DEF Once
    <3>5. \A j \in DOMAIN t : t[j] # s
      BY <1>2, <1>3, <3>2 DEF Once
    <3>6. \A i \in DOMAIN x, j \in DOMAIN t : x[i].source # t[j]
      BY <1>2, <1>8, <3>2, <3>5
    <3>7. stage' = "sections" /\ todo' = t
      BY <1>1, <2>1, <3>1
    <3> QED BY <3>2, <3>4, <3>6, <3>7
  <2>2. CASE ~(Len(todo) > 1)
    BY <1>1, <1>7, <2>2
  <2> QED BY <2>1, <2>2
<1>13. TypeInv'
  BY <1>1, <1>7, <1>8, <1>10, <1>11, <1>12 DEF TextInv, TypeInv, SourcesTyped, Stage
<1>14. ReadingInv'
  BY <1>2, <1>7, <1>9, <1>10, <1>11, <1>12 DEF TextInv, ReadingInv
<1>15. EmptyInv'
  BY <1>2, <1>10 DEF EmptyInv
<1>16. HydratedInv' /\ InScope(passages)' /\ OfOneSource(passages)'
  <2>1. OutOfScope' = OutOfScope
    BY <1>10 DEF OutOfScope, Live
  <2> QED BY <1>2, <1>10, <2>1 DEF TextInv, HydratedInv, InScope, OfOneSource
<1> QED BY <1>13, <1>14, <1>15, <1>16 DEF TextInv

\* What the reading of a tier leaves.
LEMMA TextInvRead ==
    ASSUME TextInv, stage \in {"spans", "tier1"}, stage' \in {"spans", "tier1", "sum", "assembled"},
           UNCHANGED <<query, scope, spans, lists, hits, retrieved, counts, sources, withdrawn>>,
           passages' \in Seq(Passage), InScope(passages'), OfOneSource(passages'),
           stage' = "sum" => passages' = <<>> /\ stage = "spans",
           stage' = "spans" =>
             /\ stage = "spans" /\ todo' \in Seq(Span) /\ todo' # <<>> /\ OncePerSource(todo')
             /\ \A i \in DOMAIN passages', j \in DOMAIN todo' : passages'[i].source # todo'[j].source,
           stage' = "tier1" =>
             /\ todo' \in Seq(Source) /\ todo' # <<>> /\ Once(todo')
             /\ \A i \in DOMAIN passages', j \in DOMAIN todo' : passages'[i].source # todo'[j]
    PROVE  TextInv'
<1>1. /\ src' = src /\ query' = query /\ scope' = scope
      /\ spans' = spans /\ lists' = lists /\ hits' = hits /\ retrieved' = retrieved
      /\ counts' = counts /\ withdrawn' = withdrawn
  BY DEF sources
<1>2. Scoped' = Scoped
  BY <1>1 DEF Scoped
<1>3. retrieved = <<>> /\ (stage = "spans" => Scoped # <<>>) /\ stage # "idle"
  BY DEF TextInv, EmptyInv, ReadingInv
<1>4. TypeInv'
  BY <1>1, <1>2, <1>3 DEF TextInv, TypeInv, SourcesTyped, Stage
<1>5. ReadingInv'
  BY <1>1, <1>2, <1>3 DEF TextInv, ReadingInv
<1>6. EmptyInv'
  BY <1>1, <1>3 DEF EmptyInv, Unread, Searching, Hydrating
<1>7. HydratedInv'
  BY <1>1, <1>3 DEF TextInv, HydratedInv, InScope, OfOneSource, OutOfScope, Live
<1>8. InScope(passages)' /\ OfOneSource(passages)'
  BY <1>1 DEF InScope, OfOneSource
<1> QED BY <1>4, <1>5, <1>6, <1>7, <1>8 DEF TextInv

\* The passages of one section, ...
LEMMA TextInvReadSpan ==
    ASSUME TextInv, ReadSpan
    PROVE  TextInv'
<1> DEFINE y == Head(todo)
           found == {p \in Parents(Rows(y.source)) : Live(y.source) /\ MidpointIn(p, y)}
           all == passages \o ByStart(found)
<1>1. /\ stage = "spans" /\ todo' = Tail(todo)
      /\ \/ Len(todo) > 1 /\ passages' = all /\ stage' = stage
         \/ /\ ~(Len(todo) > 1) /\ passages' = Within(all, Caps.tier2)
            /\ stage' = IF all = <<>> THEN "sum" ELSE "assembled"
      /\ UNCHANGED <<query, scope, spans, lists, hits, retrieved, counts, sources, withdrawn>>
  BY DEF ReadSpan, searched, history
<1>2. /\ todo \in Seq(Span) /\ todo # <<>> /\ OncePerSource(todo) /\ SourcesTyped
      /\ passages \in Seq(Passage) /\ InScope(passages) /\ OfOneSource(passages)
      /\ \A i \in DOMAIN passages, j \in DOMAIN todo : passages[i].source # todo[j].source
  BY <1>1 DEF TextInv, TypeInv, ReadingInv
<1>3. y \in Span /\ y = todo[1] /\ 1 \in DOMAIN todo
  BY <1>2, TailFacts
<1>4. PICK x \in Source : x = y.source
  BY <1>3 DEF Span
<1>5. found \in SUBSET Parents(Rows(x))
  BY <1>4
<1>6. found # {} => Live(x)
  BY <1>4
<1> HIDE DEF found
<1>7. PICK t \in Seq(Passage) : t = ByStart(found) /\ \A i \in DOMAIN t : t[i] \in found
  BY <1>2, <1>5, ParentsOrdered
<1>8. /\ all \in Seq(Passage) /\ InScope(all) /\ OfOneSource(all)
      /\ \A i \in DOMAIN all : all[i].source = x \/ \E j \in DOMAIN passages : all[i] = passages[j]
  <2>1. CASE Live(x)
    <3>1. \A i \in DOMAIN t : t[i] \in Rows(x)
      BY <1>5, <1>7 DEF Parents
    <3>2. \A i \in DOMAIN passages : passages[i].source # x
      BY <1>2, <1>3, <1>4
    <3> QED BY <1>7, <2>1, <3>1, <3>2, AppendPassages
  <2>2. CASE ~Live(x)
    <3>1. t = <<>>
      BY <1>6, <1>7, <2>2
    <3>2. all = passages
      BY <1>2, <1>7, <3>1
    <3> QED BY <1>2, <3>2
  <2> QED BY <2>1, <2>2
<1> HIDE DEF all, y
<1>9. PICK w : w = Within(all, Caps.tier2)
  OBVIOUS
<1>10. /\ w \in Seq(Passage) /\ InScope(w) /\ OfOneSource(w)
       /\ all = <<>> => w = <<>>
  <2>1. w \in Seq(Passage) /\ \A i \in DOMAIN w : i \in DOMAIN all /\ w[i] = all[i]
    BY <1>8, <1>9, WithinFacts
  <2>2. InScope(w) /\ OfOneSource(w)
    BY <1>8, <1>9, Trimmed
  <2> QED BY <2>1, <2>2
<1>11. CASE Len(todo) > 1
  <2>1. PICK r : r = Tail(todo)
    OBVIOUS
  <2>2. /\ r \in Seq(Span) /\ r # <<>>
        /\ \A i \in DOMAIN r : i + 1 \in DOMAIN todo /\ i + 1 # 1 /\ r[i] = todo[i + 1]
    BY <1>2, <1>11, <2>1, TailFacts
  <2>3. \A i \in DOMAIN r : i \in Nat
    BY <2>2
  <2>4. OncePerSource(r)
    <3>1. ASSUME NEW i \in DOMAIN r, NEW j \in DOMAIN r, r[i].source = r[j].source
          PROVE  i = j
      <4>1. todo[i + 1].source = todo[j + 1].source
        BY <2>2, <3>1
      <4>2. i + 1 = j + 1
        BY <1>2, <2>2, <4>1 DEF OncePerSource
      <4> QED BY <2>3, <4>2
    <3> QED BY <3>1 DEF OncePerSource
  <2>5. \A j \in DOMAIN r : r[j].source # x
    BY <1>2, <1>3, <1>4, <2>2 DEF OncePerSource
  <2>6. \A i \in DOMAIN all, j \in DOMAIN r : all[i].source # r[j].source
    BY <1>2, <1>8, <2>2, <2>5
  <2>7. /\ passages' = all /\ stage' = "spans" /\ todo' = r
    BY <1>1, <1>11, <2>1
  <2>8. passages' \in Seq(Passage) /\ InScope(passages') /\ OfOneSource(passages')
    BY <1>8, <2>7
  <2>9. /\ todo' \in Seq(Span) /\ todo' # <<>> /\ OncePerSource(todo')
        /\ \A i \in DOMAIN passages', j \in DOMAIN todo' : passages'[i].source # todo'[j].source
    BY <2>2, <2>4, <2>6, <2>7
  <2> QED BY <1>1, <2>7, <2>8, <2>9, TextInvRead
<1>12. CASE ~(Len(todo) > 1)
  <2>1. passages' = w /\ stage' = IF all = <<>> THEN "sum" ELSE "assembled"
    BY <1>1, <1>9, <1>12
  <2> QED BY <1>1, <1>10, <2>1, TextInvRead
<1> QED BY <1>11, <1>12

\* ... and of one source.
LEMMA TextInvReadParentRows ==
    ASSUME TextInv, ReadParentRows
    PROVE  TextInv'
<1> DEFINE y == Head(todo)
           found == {p \in Parents(Rows(y)) : Live(y)}
           all == passages \o ByTokens(found)
<1>1. /\ stage = "tier1" /\ todo' = Tail(todo)
      /\ \/ Len(todo) > 1 /\ passages' = all /\ stage' = stage
         \/ ~(Len(todo) > 1) /\ passages' = Within(all, Caps.tier1) /\ stage' = "assembled"
      /\ UNCHANGED <<query, scope, spans, lists, hits, retrieved, counts, sources, withdrawn>>
  BY DEF ReadParentRows, searched, history
<1>2. /\ todo \in Seq(Source) /\ todo # <<>> /\ Once(todo) /\ SourcesTyped
      /\ passages \in Seq(Passage) /\ InScope(passages) /\ OfOneSource(passages)
      /\ \A i \in DOMAIN passages, j \in DOMAIN todo : passages[i].source # todo[j]
  BY <1>1 DEF TextInv, TypeInv, ReadingInv
<1>3. y \in Source /\ y = todo[1] /\ 1 \in DOMAIN todo
  BY <1>2, TailFacts
<1>4. PICK x \in Source : x = y
  BY <1>3
<1>5. found \in SUBSET Parents(Rows(x))
  BY <1>4
<1>6. found # {} => Live(x)
  BY <1>4
<1> HIDE DEF found
<1>7. PICK t \in Seq(Passage) : t = ByTokens(found) /\ \A i \in DOMAIN t : t[i] \in found
  BY <1>2, <1>5, ParentsOrdered
<1>8. /\ all \in Seq(Passage) /\ InScope(all) /\ OfOneSource(all)
      /\ \A i \in DOMAIN all : all[i].source = x \/ \E j \in DOMAIN passages : all[i] = passages[j]
  <2>1. CASE Live(x)
    <3>1. \A i \in DOMAIN t : t[i] \in Rows(x)
      BY <1>5, <1>7 DEF Parents
    <3>2. \A i \in DOMAIN passages : passages[i].source # x
      BY <1>2, <1>3, <1>4
    <3> QED BY <1>7, <2>1, <3>1, <3>2, AppendPassages
  <2>2. CASE ~Live(x)
    <3>1. t = <<>>
      BY <1>6, <1>7, <2>2
    <3>2. all = passages
      BY <1>2, <1>7, <3>1
    <3> QED BY <1>2, <3>2
  <2> QED BY <2>1, <2>2
<1> HIDE DEF all, y
<1>9. PICK w : w = Within(all, Caps.tier1)
  OBVIOUS
<1>10. w \in Seq(Passage) /\ InScope(w) /\ OfOneSource(w)
  <2>1. w \in Seq(Passage)
    BY <1>8, <1>9, WithinFacts
  <2> QED BY <1>8, <1>9, <2>1, Trimmed
<1>11. CASE Len(todo) > 1
  <2>1. PICK r : r = Tail(todo)
    OBVIOUS
  <2>2. /\ r \in Seq(Source) /\ r # <<>>
        /\ \A i \in DOMAIN r : i + 1 \in DOMAIN todo /\ i + 1 # 1 /\ r[i] = todo[i + 1]
    BY <1>2, <1>11, <2>1, TailFacts
  <2>3. \A i \in DOMAIN r : i \in Nat
    BY <2>2
  <2>4. Once(r)
    BY <1>2, <2>2, <2>3 DEF Once
  <2>5. \A j \in DOMAIN r : r[j] # x
    BY <1>2, <1>3, <1>4, <2>2 DEF Once
  <2>6. \A i \in DOMAIN all, j \in DOMAIN r : all[i].source # r[j]
    BY <1>2, <1>8, <2>2, <2>5
  <2>7. /\ passages' = all /\ stage' = "tier1" /\ todo' = r
    BY <1>1, <1>11, <2>1
  <2>8. stage \in {"spans", "tier1"} /\ stage' \in {"spans", "tier1", "sum", "assembled"}
        /\ stage' # "sum" /\ stage' # "spans"
    BY <1>1, <2>7
  <2>9. passages' \in Seq(Passage) /\ InScope(passages') /\ OfOneSource(passages')
    BY <1>8, <2>7
  <2>10. todo' \in Seq(Source) /\ todo' # <<>> /\ Once(todo')
         /\ \A i \in DOMAIN passages', j \in DOMAIN todo' : passages'[i].source # todo'[j]
    BY <2>2, <2>4, <2>6, <2>7
  <2> QED BY <1>1, <2>8, <2>9, <2>10, TextInvRead
<1>12. CASE ~(Len(todo) > 1)
  <2>1. passages' = w /\ stage' = "assembled"
    BY <1>1, <1>9, <1>12
  <2> QED BY <1>1, <1>10, <2>1, TextInvRead
<1> QED BY <1>11, <1>12

-----------------------------------------------------------------------------
(* Hydration and assembly.                                                  *)

\* The hydrated hits are of one moment.
LEMMA TextInvHydrates ==
    ASSUME TextInv, NEW next \in {"texts", "counts"}, NEW found \in Seq(Passage),
           Hydrates(next, found), stage \in {"meta", "texts"},
           InScope(found), OfOneSource(found),
           \A i \in DOMAIN found :
             LET p == found[i].parent
             IN  p = NoParent \/ (p[1] = found[i].source /\ p[2] = found[i].gen)
    PROVE  TextInv'
<1>1. /\ src' = src /\ query' = query /\ scope' = scope /\ passages' = passages
      /\ spans' = spans /\ lists' = lists /\ hits' = hits /\ retrieved' = found
      /\ withdrawn' = withdrawn /\ stage' = next /\ stage # "idle"
  BY DEF Hydrates, sources, history
<1>2. passages = <<>>
  BY DEF TextInv, EmptyInv, Unread, Searching, Hydrating
<1>3. Scoped' = Scoped
  BY <1>1 DEF Scoped
<1>4. TypeInv'
  BY <1>1, <1>3 DEF TextInv, TypeInv, SourcesTyped, Stage
<1>5. ReadingInv'
  BY <1>1, <1>3 DEF TextInv, ReadingInv
<1>6. EmptyInv'
  BY <1>1, <1>2 DEF EmptyInv, Unread, Searching, Hydrating
<1>7. HydratedInv' /\ InScope(passages)' /\ OfOneSource(passages)'
  BY <1>1, <1>2 DEF TextInv, HydratedInv, InScope, OfOneSource, OutOfScope, Live
<1> QED BY <1>4, <1>5, <1>6, <1>7 DEF TextInv

\* The metadata, the texts and the counts of the hits are of live sources; a source that
\* goes after the read is not withdrawn from what has been read.
LEMMA TextInvReadMeta ==
    ASSUME TextInv, ReadMeta
    PROVE  TextInv'
<1>1. PICK f : f = Hydrated(LiveRows)
  OBVIOUS
<1>2. stage = "meta" /\ Hydrates("texts", f)
  BY <1>1 DEF ReadMeta
<1>3. SourcesTyped /\ hits \in Seq(Hit) /\ withdrawn \subseteq OutOfScope
  BY DEF TextInv, TypeInv, HydratedInv
<1>4. /\ f \in Seq(Passage)
      /\ \A i \in DOMAIN f : \E p \in LiveRows :
           f[i].source = p.source /\ f[i].gen = p.gen /\ f[i].parent = p.parent
  BY <1>1, <1>3, RowsArePassages, HydratedFacts
<1>5. ASSUME NEW i \in DOMAIN f
      PROVE  /\ f[i].source \notin withdrawn /\ f[i].gen = src[f[i].source].gen
             /\ f[i].parent = NoParent
                  \/ (f[i].parent[1] = f[i].source /\ f[i].parent[2] = f[i].gen)
  <2>1. PICK p \in LiveRows : f[i].source = p.source /\ f[i].gen = p.gen /\ f[i].parent = p.parent
    BY <1>4
  <2>2. Live(p.source) /\ p.gen = src[p.source].gen
        /\ p.parent = ParentOf(p.source, p.gen, src[p.source].doc, p.place)
    BY <1>3, LiveRowsFacts
  <2>3. p.parent = NoParent \/ (p.parent[1] = p.source /\ p.parent[2] = p.gen)
    BY <2>2, ParentOfIs
  <2> QED BY <1>3, <2>1, <2>2, <2>3 DEF OutOfScope
<1>6. InScope(f) /\ OfOneSource(f)
  BY <1>5 DEF InScope, OfOneSource
<1>7. \A i \in DOMAIN f :
        LET p == f[i].parent
        IN  p = NoParent \/ (p[1] = f[i].source /\ p[2] = f[i].gen)
  BY <1>5
<1> QED BY <1>2, <1>4, <1>6, <1>7, TextInvHydrates

\* A text that is gone costs nothing; its passage stays what it was.
LEMMA TextInvReadTexts ==
    ASSUME TextInv, ReadTexts
    PROVE  TextInv'
<1> DEFINE Gone(r) == ~r.read /\ \A p \in AllRows : p.id # r.id
           f == [i \in DOMAIN retrieved |->
                   [retrieved[i] EXCEPT !.cost = IF Gone(retrieved[i]) THEN 0 ELSE @]]
<1>1. stage = "texts" /\ Hydrates("counts", f)
  BY DEF ReadTexts
<1>2. /\ retrieved \in Seq(Passage) /\ InScope(retrieved) /\ OfOneSource(retrieved)
      /\ \A i \in DOMAIN retrieved :
           LET p == retrieved[i].parent
           IN  p = NoParent \/ (p[1] = retrieved[i].source /\ p[2] = retrieved[i].gen)
  BY DEF TextInv, TypeInv, HydratedInv
<1>3. DOMAIN f = DOMAIN retrieved /\ f = [i \in DOMAIN retrieved |-> f[i]]
  <2> HIDE DEF Gone
  <2> QED OBVIOUS
<1>4. ASSUME NEW i \in DOMAIN retrieved
      PROVE  /\ f[i] \in Passage /\ f[i].source = retrieved[i].source
             /\ f[i].gen = retrieved[i].gen /\ f[i].parent = retrieved[i].parent
  <2>1. PICK r \in Passage : r = retrieved[i]
    BY <1>2
  <2>2. PICK c \in Nat : f[i] = [r EXCEPT !.cost = c]
    <3>1. r.cost \in Nat /\ 0 \in Nat
      BY DEF Passage
    <3>2. f[i] = [r EXCEPT !.cost = IF Gone(r) THEN 0 ELSE r.cost]
      BY <2>1
    <3> HIDE DEF f, Gone
    <3> QED BY <3>1, <3>2
  <2> HIDE DEF f
  <2>3. f[i] \in Passage /\ f[i].source = r.source /\ f[i].gen = r.gen /\ f[i].parent = r.parent
    BY <2>2 DEF Passage
  <2> QED BY <2>1, <2>3
<1> HIDE DEF f
<1>5. f \in Seq(Passage)
  BY <1>2, <1>3, <1>4
<1>6. InScope(f) /\ OfOneSource(f)
  BY <1>2, <1>3, <1>4 DEF InScope, OfOneSource
<1>7. \A i \in DOMAIN f :
        LET p == f[i].parent
        IN  p = NoParent \/ (p[1] = f[i].source /\ p[2] = f[i].gen)
  BY <1>2, <1>3, <1>4
<1> QED BY <1>1, <1>5, <1>6, <1>7, TextInvHydrates

\* The counts are of parents that the hits name.
LEMMA TextInvReadCounts ==
    ASSUME TextInv, ReadCounts
    PROVE  TextInv'
<1>1. /\ src' = src /\ query' = query /\ scope' = scope /\ passages' = passages
      /\ spans' = spans /\ lists' = lists /\ hits' = hits /\ retrieved' = retrieved
      /\ withdrawn' = withdrawn /\ stage = "counts" /\ stage' = "parents"
      /\ DOMAIN counts' = {retrieved[i].parent : i \in DOMAIN retrieved} \ {NoParent}
  BY DEF ReadCounts, sources, history
<1>2. passages = <<>>
  BY <1>1 DEF TextInv, EmptyInv, Unread, Hydrating
<1>3. Scoped' = Scoped
  BY <1>1 DEF Scoped
<1>4. TypeInv'
  BY <1>1, <1>3 DEF TextInv, TypeInv, SourcesTyped, Stage
<1>5. ReadingInv'
  BY <1>1, <1>3 DEF TextInv, ReadingInv
<1>6. EmptyInv'
  BY <1>1, <1>2 DEF EmptyInv, Unread, Searching, Hydrating
<1>7. HydratedInv'
  <2>1. \A p \in DOMAIN counts' : p # NoParent /\ \E i \in DOMAIN retrieved : retrieved[i].parent = p
    BY <1>1
  <2> QED BY <1>1, <2>1 DEF TextInv, HydratedInv, InScope, OfOneSource, OutOfScope, Live
<1>8. InScope(passages)' /\ OfOneSource(passages)'
  BY <1>1, <1>2 DEF InScope, OfOneSource
<1> QED BY <1>4, <1>5, <1>6, <1>7, <1>8 DEF TextInv

\* A parent that is read later is live and of its child's ingest.
LEMMA TextInvReadParents ==
    ASSUME TextInv, ReadParents
    PROVE  TextInv'
<1>1. PICK parents : parents = {p \in LiveRows : p.id \in Merging(retrieved, counts)}
  OBVIOUS
<1>2. PICK c : c = Candidates(retrieved, counts, parents)
  OBVIOUS
<1>3. PICK t : t = TrimAndOrder(c, Scoped, Caps.tier2)
  OBVIOUS
<1>4. /\ src' = src /\ query' = query /\ scope' = scope /\ passages' = t
      /\ spans' = spans /\ lists' = lists /\ hits' = hits /\ retrieved' = retrieved
      /\ withdrawn' = withdrawn /\ stage = "parents" /\ stage' = "assembled"
  BY <1>1, <1>2, <1>3 DEF ReadParents, searched, sources, history
<1>5. /\ retrieved \in Seq(Passage) /\ InScope(retrieved) /\ OfOneSource(retrieved)
      /\ Scoped \in Seq(Source) /\ SourcesTyped
      /\ \A p \in DOMAIN counts : p # NoParent
      /\ \A i \in DOMAIN retrieved :
           retrieved[i].parent = NoParent
             \/ (retrieved[i].parent[1] = retrieved[i].source
                 /\ retrieved[i].parent[2] = retrieved[i].gen)
  BY <1>4 DEF TextInv, TypeInv, HydratedInv
<1>6. parents \in SUBSET Passage /\ \A x \in parents : x.id \in Merging(retrieved, counts)
  BY <1>1, <1>5, RowsArePassages
<1>7. /\ c \in Seq(Passage)
      /\ \A i \in DOMAIN c : StandsFor(c[i], retrieved, parents)
  BY <1>2, <1>5, <1>6, CandidatesFacts
<1>8. ASSUME NEW i \in DOMAIN c
      PROVE  \E j \in DOMAIN retrieved : c[i].source = retrieved[j].source /\ c[i].gen = retrieved[j].gen
  <2>1. CASE \E j \in DOMAIN retrieved : c[i] = retrieved[j]
    BY <2>1
  <2>2. CASE \E x \in parents, j \in DOMAIN retrieved :
               retrieved[j].parent = x.id /\ c[i].source = x.source /\ c[i].gen = x.gen
    <3>1. PICK x \in parents, j \in DOMAIN retrieved :
            retrieved[j].parent = x.id /\ c[i].source = x.source /\ c[i].gen = x.gen
      BY <2>2
    <3>2. x \in LiveRows /\ x.id \in DOMAIN counts
      BY <1>1 DEF Merging
    <3>3. x.id = <<x.source, x.gen, x.place>>
      BY <1>5, <3>2, LiveRowsFacts
    <3>4. x.id # NoParent
      BY <1>5, <3>2
    <3>5. x.id[1] = x.source /\ x.id[2] = x.gen
      BY <3>3
    <3> QED BY <1>5, <3>1, <3>4, <3>5
  <2> QED BY <1>7, <2>1, <2>2 DEF StandsFor
<1>9. /\ t \in Seq(Passage)
      /\ \A i \in DOMAIN t : \E j \in DOMAIN c : t[i] = c[j]
  BY <1>3, <1>5, <1>7, TrimAndOrderFacts
<1>10. \A i \in DOMAIN t :
         \E j \in DOMAIN retrieved : t[i].source = retrieved[j].source /\ t[i].gen = retrieved[j].gen
  BY <1>8, <1>9
<1>11. InScope(t) /\ OfOneSource(t)
  BY <1>5, <1>10 DEF InScope, OfOneSource
<1>12. Scoped' = Scoped
  BY <1>4 DEF Scoped
<1>13. TypeInv'
  BY <1>4, <1>9, <1>12 DEF TextInv, TypeInv, SourcesTyped, Stage
<1>14. ReadingInv'
  BY <1>4, <1>12 DEF TextInv, ReadingInv
<1>15. EmptyInv'
  BY <1>4 DEF EmptyInv, Unread, Searching, Hydrating
<1>16. HydratedInv' /\ InScope(passages)' /\ OfOneSource(passages)'
  BY <1>4, <1>11 DEF TextInv, HydratedInv, InScope, OfOneSource, OutOfScope, Live
<1> QED BY <1>13, <1>14, <1>15, <1>16 DEF TextInv

-----------------------------------------------------------------------------
(* What an answer is grounded on.                                           *)

\* Every step of a source or a question keeps the invariant.
LEMMA TextInvStep ==
    ASSUME TextInv, [Next]_vars
    PROVE  TextInv'
<1>1. CASE SourceStep
  BY <1>1, TextInvSourceStep
<1>2. ASSUME NEW q \in Queries, Ask(q) PROVE TextInv'
  BY <1>2, TextInvAsk
<1>3. CASE Stops \/ Fails \/ Refuse \/ Reindexing \/ Answered
  BY <1>3, TextInvEnds DEF Stops, Fails, Refuse, Reindexing, Answered
<1>4. CASE Resolve
  BY <1>4, TextInvResolve
<1>5. CASE ReadSections \/ ReadSpan \/ ReadParentRows
  BY <1>5, TextInvReadSections, TextInvReadSpan, TextInvReadParentRows
<1>6. CASE SumTokens \/ Recount
  BY <1>6, TextInvCount
<1>7. CASE SearchDense \/ FilterDense \/ SearchBm25 \/ SearchGraph
  BY <1>7, TextInvTier2
<1>8. CASE FuseHits \/ Rerank
  BY <1>8, TextInvHits
<1>9. CASE ReadMeta \/ ReadTexts
  BY <1>9, TextInvReadMeta, TextInvReadTexts
<1>10. CASE ReadCounts \/ ReadParents
  BY <1>10, TextInvReadCounts, TextInvReadParents
<1>11. CASE Assembled \/ ReadGap \/ BuildPrompt \/ Stream
  BY <1>11, TextInvAnswer
<1>12. CASE UNCHANGED vars
  <2>1. asked' = asked /\ src' = src /\ withdrawn' = withdrawn
    BY <1>12 DEF vars, sources, history
  <2>2. SourcesTyped' /\ withdrawn' \subseteq OutOfScope'
    BY <2>1 DEF TextInv, TypeInv, SourcesTyped, HydratedInv, OutOfScope, Live
  <2> QED BY <2>1, <2>2, TextInvSources
<1> QED BY <1>1, <1>2, <1>3, <1>4, <1>5, <1>6, <1>7, <1>8, <1>9, <1>10, <1>11, <1>12 DEF Next, QuestionStep

\* In every state the passages are passages, the tiers read no source twice, and what is
\* read of a source is of one ingest and was in scope when it was read (tiered_search and
\* the hydrations of router.rs).
THEOREM TextAlways == Spec => []TextInv
BY TextInvInit, TextInvStep, PTL DEF Spec

\* No answer is grounded on a source that was trashed, deselected or purged before its
\* passages were hydrated and has not been brought back: RETRIEVAL_LIVE_WHERE is at every
\* hydration site of router.rs, for any sources, contents and questions.
THEOREM NoWithdrawnTextAlways == Spec => []NoWithdrawnText
<1>1. TextInv => NoWithdrawnText
  BY DEF TextInv, InScope, NoWithdrawnText
<1> QED BY <1>1, TextAlways, PTL

\* An ingest that replaces the chunks of a source between two reads of a question never
\* leaves two versions of its text side by side: the ids of the hits do not survive it
\* (ingest.rs draws new ones), and each tier reads a source once.
THEOREM OneIngestAlways == Spec => []OneIngest
<1>1. TextInv => OneIngest
  BY DEF TextInv, OfOneSource, OneIngest
<1> QED BY <1>1, TextAlways, PTL

-----------------------------------------------------------------------------
(* A source with the question's words is evidence.                          *)

\* The chunks with the question's words of the sources that nothing has touched.
Evidence ==
    {p \in AllRows : p.source \in steady /\ <<p.source, p.place>> \in ToSet(query.bm25)}

\* The sources that stay in scope and untouched since the question began.
SteadyInv ==
    /\ steady \subseteq {s \in Source : Live(s)}
    /\ stage # "idle" => outcome = "none"
    /\ stage \notin {"idle", "resolve"} => steady \subseteq ToSet(Scoped)

\* An id of a source that nothing has touched is of a chunk it has.
Known(id) == id[1] \in steady => \E p \in Rows(id[1]) : p.id = id

\* What the searches and the fusion have found is such ids, and kept is their sources.
CutInv ==
    /\ stage \in {"live", "bm25", "graph", "livegraph"} =>
         \A id \in ToSet(lists.dense) : Known(id)
    /\ stage \in {"graph", "livegraph"} =>
         Once(lists.bm25) /\ \A id \in ToSet(lists.bm25) : Known(id)
    /\ stage = "livegraph" => \A id \in ToSet(lists.graph) : Known(id)
    /\ stage \in {"rerank", "meta"} =>
         kept = HitSources /\ \A i \in DOMAIN hits : Known(hits[i].id)

\* The hits of a source that nothing has touched are hydrated.
ReadOf(s) ==
    \E p \in Rows(s), i \in DOMAIN retrieved :
        retrieved[i].id = p.id /\ retrieved[i].parent = p.parent

\* How far the evidence has come, at each stage.
FoundInv ==
    /\ stage \in {"gap", "index"} \/ outcome \in {"refused", "reindexing"} =>
         Evidence = {} \/ Crowded
    /\ stage = "tier1" /\ passages = <<>> => \A p \in Evidence : p.source \in ToSet(todo)
    /\ stage = "assembled" /\ passages = <<>> => Evidence = {} \/ Crowded
    /\ stage \in {"graph", "livegraph"} =>
         Overfetch <= Len(lists.bm25) \/ \A p \in Evidence : p.id \in ToSet(lists.bm25)
    /\ stage \in {"rerank", "meta"} \cup Hydrating =>
         Cut <= Len(kept) \/ \A p \in Evidence : p.source \in ToSet(kept)
    /\ stage \in Hydrating => \A s \in ToSet(kept) \cap steady : ReadOf(s)

\* The invariant of the evidence, beside TextInv.
EvidenceInv == SteadyInv /\ CutInv /\ FoundInv

\* At the start no question is asked.
LEMMA EvidenceInvInit ==
    ASSUME Init
    PROVE  EvidenceInv
<1>1. stage = "idle" /\ outcome = "none" /\ steady = {}
  BY DEF Init
<1>2. SteadyInv
  BY <1>1 DEF SteadyInv
<1>3. CutInv
  BY <1>1 DEF CutInv
<1>4. FoundInv
  BY <1>1 DEF FoundInv, Hydrating
<1> QED BY <1>2, <1>3, <1>4 DEF EvidenceInv

\* What is evidence is live.
LEMMA EvidenceLives ==
    ASSUME TextInv, EvidenceInv, NEW p \in Evidence
    PROVE  /\ p \in LiveRows /\ p \in Passage /\ p.source \in Source /\ Live(p.source)
           /\ p \in Rows(p.source) /\ <<p.source, p.place>> \in ToSet(query.bm25)
<1>1. SourcesTyped /\ p \in AllRows /\ p.source \in steady
      /\ <<p.source, p.place>> \in ToSet(query.bm25)
  BY DEF TextInv, TypeInv, Evidence
<1>2. PICK s \in Source : p \in Rows(s)
  BY <1>1 DEF AllRows
<1>3. p.source = s /\ p \in Passage
  BY <1>1, <1>2, RowsFacts
<1>4. Live(s)
  BY <1>1, <1>3 DEF EvidenceInv, SteadyInv
<1> QED BY <1>1, <1>2, <1>3, <1>4 DEF LiveRows

\* The id of a row that is there is known.
LEMMA RowsKnown ==
    ASSUME SourcesTyped, NEW p \in AllRows
    PROVE  Known(p.id)
<1>1. PICK s \in Source : p \in Rows(s)
  BY DEF AllRows
<1>2. p.id = <<s, p.gen, p.place>>
  BY <1>1, RowsFacts
<1>3. p.id[1] = s
  BY <1>2
<1> QED BY <1>1, <1>3 DEF Known

\* What is known stays so as long as its source is not touched.
LEMMA KnownStays ==
    ASSUME steady' \subseteq steady, \A s \in steady' : src'[s] = src[s], NEW id, Known(id)
    PROVE  Known(id)'
<1>1. ASSUME id[1] \in steady'
      PROVE  (Rows(id[1]))' = Rows(id[1])
  BY <1>1 DEF Rows
<1> QED BY <1>1 DEF Known

\* The cut is crowded as long as nothing is kept anew.
LEMMA CrowdedStays ==
    ASSUME steady' \subseteq steady, kept' = kept, Crowded
    PROVE  Crowded'
BY DEF Crowded

\* A step of a source leaves the rows of the sources it does not touch.
LEMMA EvidenceInvSources ==
    ASSUME TextInv, TextInv', EvidenceInv, asked' = asked, kept' = kept, steady' \subseteq steady,
           \A s \in steady' : src'[s] = src[s]
    PROVE  EvidenceInv'
<1>1. /\ stage' = stage /\ query' = query /\ scope' = scope /\ todo' = todo
      /\ passages' = passages /\ lists' = lists /\ hits' = hits
      /\ retrieved' = retrieved /\ outcome' = outcome
  BY DEF asked, searched, ends
<1>2. SourcesTyped /\ SourcesTyped' /\ steady \subseteq Source
  BY DEF TextInv, TypeInv, EvidenceInv, SteadyInv
<1>3. ASSUME NEW s \in steady'
      PROVE  (Rows(s))' = Rows(s) /\ (Live(s))' = Live(s)
  BY <1>3 DEF Rows, Live
<1>4. ASSUME NEW p \in Evidence'
      PROVE  p \in Evidence
  <2>1. p \in AllRows' /\ p.source \in steady' /\ <<p.source, p.place>> \in ToSet(query.bm25)
    BY <1>1 DEF Evidence
  <2>2. PICK s \in Source : p \in (Rows(s))'
    BY <2>1 DEF AllRows
  <2>3. p.source = s
    <3>1. \E g \in Nat, d \in Docs : p \in Ingested(s, g, d)
      BY <1>2, <2>2 DEF Rows, SourcesTyped, SourceRow
    <3> QED BY <3>1, IngestedFacts
  <2>4. p \in Rows(s)
    BY <1>3, <2>1, <2>2, <2>3
  <2> QED BY <2>1, <2>4 DEF Evidence, AllRows
<1>5. SteadyInv'
  <2>1. Scoped' = Scoped
    BY <1>1 DEF Scoped
  <2>2. \A s \in steady' : s \in Source /\ (Live(s))'
    BY <1>2, <1>3 DEF EvidenceInv, SteadyInv
  <2> QED BY <1>1, <2>1, <2>2 DEF EvidenceInv, SteadyInv
<1>6. CutInv'
  <2>1. \A id : Known(id) => (Known(id))'
    BY KnownStays
  <2>2. HitSources' = HitSources
    BY <1>1 DEF HitSources
  <2> QED BY <1>1, <2>1, <2>2 DEF EvidenceInv, CutInv
<1>7. Crowded => Crowded'
  BY CrowdedStays
<1>8. \A s \in steady' : ReadOf(s) => (ReadOf(s))'
  BY <1>1, <1>3 DEF ReadOf
<1>9. FoundInv'
  <2>1. Evidence = {} => Evidence' = {}
    BY <1>4
  <2> HIDE DEF Evidence, Crowded, ReadOf
  <2>2. /\ stage' \in {"gap", "index"} \/ outcome' \in {"refused", "reindexing"} =>
             Evidence' = {} \/ Crowded'
        /\ stage' = "assembled" /\ passages' = <<>> => Evidence' = {} \/ Crowded'
    BY <1>1, <1>7, <2>1 DEF EvidenceInv, FoundInv
  <2>3. /\ stage' = "tier1" /\ passages' = <<>> => \A p \in Evidence' : p.source \in ToSet(todo')
        /\ stage' \in {"graph", "livegraph"} =>
             Overfetch <= Len(lists'.bm25) \/ \A p \in Evidence' : p.id \in ToSet(lists'.bm25)
        /\ stage' \in {"rerank", "meta"} \cup Hydrating =>
             Cut <= Len(kept') \/ \A p \in Evidence' : p.source \in ToSet(kept')
    BY <1>1, <1>4 DEF EvidenceInv, FoundInv
  <2>4. stage' \in Hydrating => \A s \in ToSet(kept') \cap steady' : (ReadOf(s))'
    BY <1>1, <1>8 DEF EvidenceInv, FoundInv
  <2> QED BY <2>2, <2>3, <2>4 DEF FoundInv
<1> QED BY <1>5, <1>6, <1>9 DEF EvidenceInv

\* What happens to a source takes it from the untouched ones and leaves the others.
LEMMA EvidenceInvSourceStep ==
    ASSUME TextInv, TextInv', EvidenceInv, SourceStep
    PROVE  EvidenceInv'
<1>1. ASSUME NEW s \in Source, NEW row, Row(s, row)
      PROVE  EvidenceInv'
  <2>1. asked' = asked /\ kept' = kept /\ steady' = steady \ {s} /\ src' = [src EXCEPT ![s] = row]
    BY <1>1 DEF Row
  <2>2. src \in [Source -> SourceRow] /\ steady \subseteq Source
    BY DEF TextInv, TypeInv, SourcesTyped, EvidenceInv, SteadyInv
  <2>3. \A t \in steady' : src'[t] = src[t]
    BY <2>1, <2>2
  <2> QED BY <2>1, <2>3, EvidenceInvSources
<1>2. CASE Promote
  <2>1. asked' = asked /\ kept' = kept /\ steady' = steady /\ src' = src
    BY <1>2 DEF Promote, history
  <2> QED BY <2>1, EvidenceInvSources
<1>3. ASSUME NEW s \in Source,
             \/ SetSelected(s) \/ Trash(s) \/ Restore(s)
             \/ IngestWipes(s) \/ IngestWrites(s) \/ IngestEnds(s) \/ IngestFails(s)
             \/ PurgeVectors(s) \/ PurgeRow(s)
      PROVE  \E row : Row(s, row)
  BY <1>3 DEF SetSelected, Trash, Restore, IngestWipes, IngestWrites, IngestEnds, IngestFails,
              PurgeVectors, PurgeRow, Begins, GoesOn
<1> QED BY <1>1, <1>2, <1>3 DEF SourceStep

\* A question's step changes neither the sources nor what it asks for.
LEMMA EvidenceSame ==
    ASSUME src' = src, query' = query, steady' = steady
    PROVE  Evidence' = Evidence
<1>1. \A s \in Source : (Rows(s))' = Rows(s)
  BY DEF Rows
<1>2. AllRows' = AllRows
  BY <1>1 DEF AllRows
<1> QED BY <1>2 DEF Evidence

\* What every step of a question has to show.
LEMMA EvidenceInvQuestion ==
    ASSUME TextInv, EvidenceInv, stage # "idle", stage' \notin {"idle", "resolve"},
           UNCHANGED <<query, sources, steady, outcome, scope>>, stage # "resolve",
           CutInv', FoundInv'
    PROVE  EvidenceInv'
<1>1. src' = src /\ query' = query /\ steady' = steady /\ outcome' = outcome /\ scope' = scope
  BY DEF sources
<1>2. Scoped' = Scoped
  BY <1>1 DEF Scoped
<1>3. \A s \in Source : (Live(s))' = Live(s)
  BY <1>1 DEF Live
<1>4. SteadyInv'
  BY <1>1, <1>2, <1>3 DEF EvidenceInv, SteadyInv
<1> QED BY <1>4 DEF EvidenceInv

\* A question begins with every source in scope untouched.
LEMMA EvidenceInvAsk ==
    ASSUME TextInv, EvidenceInv, NEW q \in Queries, Ask(q)
    PROVE  EvidenceInv'
<1>1. /\ stage' = "resolve" /\ outcome' = "none" /\ src' = src /\ query' = q
      /\ steady' = {s \in Source : Live(s) /\ src[s].phase = "settled"}
  BY DEF Ask, LetGo, sources
<1>2. SteadyInv'
  BY <1>1 DEF SteadyInv, Live
<1>3. CutInv'
  BY <1>1 DEF CutInv
<1>4. FoundInv'
  BY <1>1 DEF FoundInv, Hydrating
<1> QED BY <1>2, <1>3, <1>4 DEF EvidenceInv

\* A question ends as refused or put off only if there was no evidence.
LEMMA EvidenceInvEnds ==
    ASSUME TextInv, EvidenceInv, NEW result, Ends(result),
           result \in {"refused", "reindexing"} => Evidence = {} \/ Crowded
    PROVE  EvidenceInv'
<1>1. /\ stage' = "idle" /\ outcome' = result /\ src' = src /\ query' = query /\ steady' = steady
      /\ kept' = kept
  BY DEF Ends, sources
<1>2. Evidence' = Evidence
  BY <1>1, EvidenceSame
<1>3. SteadyInv'
  BY <1>1 DEF EvidenceInv, SteadyInv, Live
<1>4. CutInv'
  BY <1>1 DEF CutInv
<1>5. Crowded' = Crowded
  BY <1>1 DEF Crowded
<1>6. FoundInv'
  BY <1>1, <1>2, <1>5 DEF FoundInv, Hydrating
<1> QED BY <1>3, <1>4, <1>6 DEF EvidenceInv

\* A question that is answered, stopped or failed says nothing of the evidence; one that
\* is refused or put off has come where there is none.
LEMMA EvidenceInvAllEnds ==
    ASSUME TextInv, EvidenceInv, Stops \/ Fails \/ Refuse \/ Reindexing \/ Answered
    PROVE  EvidenceInv'
<1>1. CASE Stops \/ Fails \/ Answered
  BY <1>1, EvidenceInvEnds DEF Stops, Fails, Answered
<1>2. CASE Refuse \/ Reindexing
  <2>1. Evidence = {} \/ Crowded
    BY <1>2 DEF Refuse, Reindexing, EvidenceInv, FoundInv
  <2> QED BY <1>2, <2>1, EvidenceInvEnds DEF Refuse, Reindexing
<1> QED BY <1>1, <1>2

\* Every source that nothing has touched is in scope.
LEMMA EvidenceInvResolve ==
    ASSUME TextInv, EvidenceInv, Resolve
    PROVE  EvidenceInv'
<1>1. PICK found : found = Kept(Order, {i \in DOMAIN Order : Live(Order[i])})
  OBVIOUS
<1>2. found \in Seq(Source) /\ \A s \in Source : Live(s) => s \in ToSet(found)
  BY <1>1, ScopeFound
<1>3. /\ stage = "resolve"
      /\ scope' = [i \in DOMAIN found |-> [source |-> found[i], tokens |-> src[found[i]].tokens]]
      /\ stage' \in {"assembled", "sections", "sum"} /\ (stage' = "assembled" => found = <<>>)
      /\ src' = src /\ query' = query /\ lists' = lists /\ steady' = steady /\ outcome' = outcome
  BY <1>1 DEF Resolve, sources, searched, history, ends
<1>4. Scoped' = found
  BY <1>2, <1>3, ScopedIs DEF Scoped
<1>5. SteadyInv'
  BY <1>2, <1>3, <1>4 DEF EvidenceInv, SteadyInv, Live
<1>6. CutInv'
  BY <1>3 DEF CutInv
<1>7. Evidence' = Evidence /\ outcome = "none"
  BY <1>3, EvidenceSame DEF EvidenceInv, SteadyInv
<1>8. found = <<>> => Evidence = {}
  <2> SUFFICES ASSUME NEW p \in Evidence PROVE found # <<>>
    OBVIOUS
  <2>1. p.source \in Source /\ Live(p.source)
    BY EvidenceLives
  <2>2. p.source \in ToSet(found)
    BY <1>2, <2>1
  <2> QED BY <2>2 DEF ToSet
<1>9. FoundInv'
  BY <1>3, <1>7, <1>8 DEF FoundInv, Hydrating
<1> QED BY <1>5, <1>6, <1>9 DEF EvidenceInv

\* What is assembled from no passage had no evidence, and neither has the gap.
LEMMA EvidenceInvAnswer ==
    ASSUME TextInv, EvidenceInv, Assembled \/ ReadGap \/ BuildPrompt \/ Stream
    PROVE  EvidenceInv'
<1>1. /\ stage \in {"assembled", "gap", "prompt", "stream"}
      /\ stage' \in {"gap", "index", "prompt", "stream", "locators"}
      /\ stage' \in {"gap", "index"} =>
           stage = "gap" \/ (stage = "assembled" /\ passages = <<>>)
      /\ UNCHANGED <<query, sources, steady, outcome, scope, lists, hits, kept>>
  BY DEF Assembled, ReadGap, BuildPrompt, Stream, Moves, searched, history, ends
<1>2. Evidence' = Evidence /\ outcome = "none"
  BY <1>1, EvidenceSame DEF sources, EvidenceInv, SteadyInv
<1>3. CutInv'
  BY <1>1 DEF CutInv
<1>4. Crowded' = Crowded
  BY <1>1 DEF Crowded
<1>5. FoundInv'
  BY <1>1, <1>2, <1>4 DEF EvidenceInv, FoundInv, Hydrating
<1> QED BY <1>1, <1>3, <1>5, EvidenceInvQuestion

\* The tiers that find nothing give way to the next.
LEMMA EvidenceInvSections ==
    ASSUME TextInv, EvidenceInv, ReadSections \/ SumTokens \/ Recount
    PROVE  EvidenceInv'
<1>1. /\ stage \in {"sections", "sum", "recount"}
      /\ stage' \in {"sections", "spans", "sum", "recount", "tier1", "dense"}
      /\ stage' = "tier1" => todo' = Scoped
      /\ UNCHANGED <<query, sources, steady, outcome, scope, lists, hits, kept>>
  <2>1. CASE ReadSections
    BY <2>1 DEF ReadSections, ends
  <2>2. CASE SumTokens
    BY <2>2 DEF SumTokens, BeginTier1, searched, ends
  <2>3. CASE Recount
    BY <2>3 DEF Recount, BeginTier1, searched, ends
  <2> QED BY <2>1, <2>2, <2>3
<1>2. Evidence' = Evidence /\ outcome = "none" /\ steady \subseteq ToSet(Scoped)
  BY <1>1, EvidenceSame DEF sources, EvidenceInv, SteadyInv
<1>3. CutInv'
  BY <1>1 DEF CutInv
<1>4. \A p \in Evidence : p.source \in ToSet(Scoped)
  BY <1>2 DEF Evidence
<1>5. FoundInv'
  BY <1>1, <1>2, <1>4 DEF FoundInv, Hydrating
<1> QED BY <1>1, <1>3, <1>5, EvidenceInvQuestion

\* A section without a passage leads to the next tier.
LEMMA EvidenceInvReadSpan ==
    ASSUME TextInv, EvidenceInv, ReadSpan
    PROVE  EvidenceInv'
<1> DEFINE y == Head(todo)
           found == {p \in Parents(Rows(y.source)) : Live(y.source) /\ MidpointIn(p, y)}
           all == passages \o ByStart(found)
<1>1. /\ stage = "spans" /\ stage' \in {"spans", "sum", "assembled"}
      /\ stage' = "assembled" => all # <<>> /\ passages' = Within(all, Caps.tier2)
      /\ UNCHANGED <<query, sources, steady, outcome, scope, lists, hits, kept>>
  BY DEF ReadSpan, searched, history, ends
<1>2. Evidence' = Evidence /\ outcome = "none"
  BY <1>1, EvidenceSame DEF sources, EvidenceInv, SteadyInv
<1>3. CutInv'
  BY <1>1 DEF CutInv
<1>4. all \in Seq(Passage)
  <2>1. todo \in Seq(Span) /\ todo # <<>> /\ SourcesTyped /\ passages \in Seq(Passage)
    BY <1>1 DEF TextInv, TypeInv
  <2>0. y \in Span
    BY <2>1, TailFacts
  <2>2. PICK x \in Source : x = y.source
    BY <2>0 DEF Span
  <2>3. found \in SUBSET Parents(Rows(x))
    BY <2>2
  <2> HIDE DEF found
  <2>4. ByStart(found) \in Seq(Passage)
    BY <2>1, <2>3, ParentsOrdered
  <2> QED BY <2>1, <2>4
<1> HIDE DEF all
<1>5. stage' = "assembled" => passages' # <<>>
  BY <1>1, <1>4, WithinFacts
<1>6. FoundInv'
  BY <1>1, <1>2, <1>5 DEF FoundInv, Hydrating
<1> QED BY <1>1, <1>3, <1>6, EvidenceInvQuestion

\* A source with a chunk has a parent.
LEMMA ParentThere ==
    ASSUME SourcesTyped, NEW s \in Source, NEW p \in Rows(s), p.parent # NoParent
    PROVE  \E x \in Rows(s) : x.id = p.parent /\ x.parent = NoParent
<1>1. src[s].there /\ src[s].gen \in Nat /\ src[s].doc \in Docs
  BY DEF SourcesTyped, SourceRow, Rows
<1>2. PICK g \in Nat, d \in Docs : g = src[s].gen /\ d = src[s].doc
  BY <1>1
<1>3. Rows(s) = Ingested(s, g, d)
  BY <1>1, <1>2 DEF Rows
<1>4. Content[d] \in Seq(ChunkRow) /\ ParentsAdvance(Content[d])
  BY AnsweringAssumption
<1>5. p.place \in DOMAIN Content[d] /\ p.parent = ParentOf(s, g, d, p.place)
  BY <1>3, IngestedFacts
<1>6. PICK k : k = Content[d][p.place].parent
  OBVIOUS
<1>7. k # 0 /\ p.parent = <<s, g, k>>
  BY <1>5, <1>6 DEF ParentOf
<1>8. k \in DOMAIN Content[d] /\ Content[d][k].parent = 0
  BY <1>4, <1>5, <1>6, <1>7 DEF ParentsAdvance, ParentsOf, ChildrenOf
<1>9. PICK x \in Ingested(s, g, d) : x.place = k
  BY <1>8, IngestedSet
<1>10. x.id = <<s, g, k>> /\ x.parent = ParentOf(s, g, d, k)
  BY <1>9, IngestedFacts
<1>11. x.parent = NoParent
  BY <1>8, <1>10 DEF ParentOf
<1> QED BY <1>3, <1>7, <1>9, <1>10, <1>11

\* Tier 1 reads every source in scope, so it finds something of each that has a chunk.
LEMMA EvidenceInvReadParentRows ==
    ASSUME TextInv, EvidenceInv, ReadParentRows
    PROVE  EvidenceInv'
<1> DEFINE y == Head(todo)
           found == {p \in Parents(Rows(y)) : Live(y)}
           all == passages \o ByTokens(found)
<1>1. /\ stage = "tier1" /\ todo' = Tail(todo)
      /\ \/ Len(todo) > 1 /\ passages' = all /\ stage' = stage
         \/ ~(Len(todo) > 1) /\ passages' = Within(all, Caps.tier1) /\ stage' = "assembled"
      /\ UNCHANGED <<query, sources, steady, outcome, scope, lists, hits, kept>>
  BY DEF ReadParentRows, searched, history, ends
<1>2. Evidence' = Evidence /\ outcome = "none"
  BY <1>1, EvidenceSame DEF sources, EvidenceInv, SteadyInv
<1>3. CutInv'
  BY <1>1 DEF CutInv
<1>4. todo \in Seq(Source) /\ todo # <<>> /\ SourcesTyped /\ passages \in Seq(Passage)
  BY <1>1 DEF TextInv, TypeInv
<1>5. PICK x \in Source : x = y
  BY <1>4, TailFacts
<1>6. found \in SUBSET Parents(Rows(x))
  BY <1>5
<1>7. ASSUME NEW p \in Evidence, p.source = x
      PROVE  found # {}
  <2>1. Live(x) /\ p \in Rows(x)
    BY <1>7, EvidenceLives
  <2>2. CASE p.parent = NoParent
    BY <1>5, <2>1, <2>2 DEF Parents
  <2>3. CASE p.parent # NoParent
    <3>1. PICK c \in Rows(x) : c.parent = NoParent
      BY <1>4, <2>1, <2>3, ParentThere
    <3> QED BY <1>5, <2>1, <3>1 DEF Parents
  <2> QED BY <2>2, <2>3
<1> HIDE DEF found
<1>8. PICK t \in Seq(Passage) : t = ByTokens(found) /\ (found # {} => t # <<>>)
  BY <1>4, <1>6, ParentsOrdered
<1>9. /\ all \in Seq(Passage)
      /\ passages # <<>> \/ t # <<>> => all # <<>>
  BY <1>4, <1>8
<1> HIDE DEF all
<1>10. ASSUME passages' = <<>>, NEW p \in Evidence
       PROVE  Len(todo) > 1 /\ p.source \in ToSet(Tail(todo))
  <2>1. all = <<>>
    BY <1>1, <1>9, <1>10, WithinFacts
  <2>2. passages = <<>> /\ p.source # x
    BY <1>7, <1>8, <1>9, <2>1
  <2>3. p.source \in ToSet(todo)
    BY <1>1, <2>2 DEF EvidenceInv, FoundInv
  <2>4. PICK i \in DOMAIN todo : todo[i] = p.source
    BY <2>3 DEF ToSet
  <2>5. i # 1 /\ i \in 1 .. Len(todo) /\ Len(todo) \in Nat
    BY <1>4, <1>5, <2>2, <2>4, TailFacts
  <2>6. Len(todo) > 1
    BY <2>5
  <2>7. Tail(todo) \in Seq(Source) /\ Len(Tail(todo)) = Len(todo) - 1
        /\ \A j \in DOMAIN Tail(todo) : Tail(todo)[j] = todo[j + 1]
    BY <1>4, TailFacts
  <2>8. PICK r \in Seq(Source) : r = Tail(todo) /\ Len(r) = Len(todo) - 1
                                 /\ \A j \in DOMAIN r : r[j] = todo[j + 1]
    BY <2>7
  <2>9. i - 1 \in DOMAIN r /\ (i - 1) + 1 = i
    BY <2>5, <2>8
  <2>10. r[i - 1] = p.source
    BY <2>4, <2>8, <2>9
  <2> QED BY <2>6, <2>8, <2>9, <2>10 DEF ToSet
<1>11. FoundInv'
  <2>1. stage' = "assembled" /\ passages' = <<>> => Evidence = {}
    BY <1>1, <1>10
  <2>2. stage' = "tier1" /\ passages' = <<>> => \A p \in Evidence : p.source \in ToSet(todo')
    BY <1>1, <1>10
  <2>3. stage' \in {"tier1", "assembled"}
    BY <1>1
  <2> QED BY <1>1, <1>2, <2>1, <2>2, <2>3 DEF FoundInv, Hydrating
<1>12. stage # "idle" /\ stage # "resolve" /\ stage' \notin {"idle", "resolve"}
  BY <1>1
<1> QED BY <1>1, <1>3, <1>11, <1>12, EvidenceInvQuestion

\* What a search finds is known, and the lists of tier 2 have the evidence as soon as the
\* lexical search is done, unless it has found all it may.
LEMMA EvidenceInvSearch ==
    ASSUME TextInv, EvidenceInv, SearchDense \/ FilterDense \/ SearchBm25 \/ SearchGraph
    PROVE  EvidenceInv'
<1>1. /\ stage \in {"dense", "live", "bm25", "graph"}
      /\ stage' = CASE stage = "dense" -> "live" [] stage = "live" -> "bm25"
                    [] stage = "bm25" -> "graph" [] OTHER -> "livegraph"
      /\ UNCHANGED <<query, sources, steady, outcome, scope, hits, kept>>
  BY DEF SearchDense, FilterDense, SearchBm25, SearchGraph, Searches, history, ends
<1>2. Evidence' = Evidence /\ outcome = "none"
  BY <1>1, EvidenceSame DEF sources, EvidenceInv, SteadyInv
<1>3. /\ lists.dense \in Seq(Id) /\ lists.bm25 \in Seq(Id) /\ lists.graph \in Seq(Id)
      /\ lists = [dense |-> lists.dense, bm25 |-> lists.bm25, graph |-> lists.graph]
      /\ SourcesTyped
  BY DEF TextInv, TypeInv
<1>4. \A id : Known(id) => (Known(id))'
  <2>1. src' = src /\ steady' = steady
    BY <1>1 DEF sources
  <2> QED BY <2>1, KnownStays
<1>5. ASSUME NEW ids, OfRows(ids)
      PROVE  \A id \in ToSet(ids) : Known(id)
  BY <1>3, <1>5, RowsKnown DEF OfRows, ToSet
<1>6. stage # "idle" /\ stage # "resolve" /\ stage' \notin {"idle", "resolve"}
  BY <1>1
<1>7. CASE SearchDense
  <2>1. PICK S : S = {t \in ToSet(Scoped) : active /\ src[t].vectors}
    OBVIOUS
  <2>2. PICK vectors : vectors = UNION {Children(Rows(s)) : s \in S}
    OBVIOUS
  <2>3. PICK x : x = First(Overfetch, Ranked(query.dense, vectors))
    OBVIOUS
  <2>4. OfRows(x)
    BY <1>6, <2>1, <2>2, <2>3, DenseFound
  <2>5. stage' = "live" /\ lists' = [lists EXCEPT !.dense = x]
    BY <1>7, <2>1, <2>2, <2>3 DEF SearchDense, Searches
  <2>6. lists'.dense = x
    BY <1>3, <2>5
  <2>7. CutInv'
    BY <1>4, <1>5, <2>4, <2>5, <2>6 DEF CutInv
  <2>8. FoundInv'
    BY <1>1, <1>2, <2>5 DEF FoundInv, Hydrating
  <2> QED BY <1>1, <1>6, <2>7, <2>8, EvidenceInvQuestion
<1>8. CASE FilterDense
  <2>1. PICK x : x = LiveIds(lists.dense)
    OBVIOUS
  <2>2. x \in Seq(Id) /\ \A i \in DOMAIN x : x[i] \in ToSet(lists.dense)
    BY <1>3, <2>1, LiveIdsFacts
  <2>3. stage = "live" /\ stage' = "bm25" /\ lists' = [lists EXCEPT !.dense = x]
    BY <1>8, <2>1 DEF FilterDense, Searches
  <2>4. lists'.dense = x
    BY <1>3, <2>3
  <2>5. \A id \in ToSet(x) : Known(id)
    BY <2>2, <2>3 DEF ToSet, EvidenceInv, CutInv
  <2>6. CutInv'
    BY <1>4, <2>3, <2>4, <2>5 DEF CutInv
  <2>7. FoundInv'
    BY <1>1, <1>2, <2>3 DEF FoundInv, Hydrating
  <2> QED BY <1>1, <1>6, <2>6, <2>7, EvidenceInvQuestion
<1>9. CASE SearchBm25
  <2>1. PICK x \in Seq(Id) :
          /\ x = First(Overfetch, Ranked(query.bm25, LiveRows)) /\ OfRows(x) /\ Once(x)
          /\ \/ Overfetch <= Len(x)
             \/ \A p \in LiveRows : <<p.source, p.place>> \in ToSet(query.bm25) => p.id \in ToSet(x)
    BY <1>6, Bm25Found
  <2>2. stage = "bm25" /\ stage' = "graph" /\ lists' = [lists EXCEPT !.bm25 = x]
    BY <1>9, <2>1 DEF SearchBm25, Searches
  <2>3. lists'.bm25 = x /\ lists'.dense = lists.dense
    BY <1>3, <2>2
  <2>4. \A id \in ToSet(lists.dense) : Known(id)
    BY <2>2 DEF EvidenceInv, CutInv
  <2>5. \A id \in ToSet(x) : Known(id)
    BY <1>5, <2>1
  <2>6. CutInv'
    BY <1>4, <2>1, <2>2, <2>3, <2>4, <2>5 DEF CutInv
  <2>7. Overfetch <= Len(x) \/ \A p \in Evidence : p.id \in ToSet(x)
    BY <2>1, EvidenceLives
  <2>8. FoundInv'
    BY <1>1, <1>2, <2>2, <2>3, <2>7 DEF FoundInv, Hydrating
  <2> QED BY <1>1, <1>6, <2>6, <2>8, EvidenceInvQuestion
<1>10. CASE SearchGraph
  <2>1. PICK g \in Seq(Id) : OfRows(g) /\ Searches("livegraph", [lists EXCEPT !.graph = g])
    BY <1>10, GraphFound
  <2>2. stage = "graph" /\ stage' = "livegraph" /\ lists' = [lists EXCEPT !.graph = g]
    BY <1>10, <2>1 DEF SearchGraph, Searches
  <2>3. lists'.graph = g /\ lists'.dense = lists.dense /\ lists'.bm25 = lists.bm25
    BY <1>3, <2>2
  <2>4. /\ \A id \in ToSet(lists.dense) : Known(id)
        /\ Once(lists.bm25) /\ \A id \in ToSet(lists.bm25) : Known(id)
    BY <2>2 DEF EvidenceInv, CutInv
  <2>5. \A id \in ToSet(g) : Known(id)
    BY <1>5, <2>1
  <2>6. CutInv'
    BY <1>4, <2>2, <2>3, <2>4, <2>5 DEF CutInv
  <2>7. Overfetch <= Len(lists.bm25) \/ \A p \in Evidence : p.id \in ToSet(lists.bm25)
    BY <2>2 DEF EvidenceInv, FoundInv
  <2>8. FoundInv'
    BY <1>1, <1>2, <2>2, <2>3, <2>7 DEF FoundInv, Hydrating
  <2> QED BY <1>1, <1>6, <2>6, <2>8, EvidenceInvQuestion
<1> QED BY <1>7, <1>8, <1>9, <1>10

\* The sources of some hits, once they are kept.
LEMMA KeptSources ==
    ASSUME NEW h \in Seq(Hit), NEW k, k = [i \in DOMAIN h |-> h[i].id[1]]
    PROVE  /\ Len(k) = Len(h) /\ DOMAIN k = DOMAIN h
           /\ \A i \in DOMAIN h : k[i] = h[i].id[1] /\ h[i].id[1] \in ToSet(k)
           /\ \A s \in ToSet(k) : \E i \in DOMAIN h : h[i].id[1] = s
<1>1. DOMAIN k = DOMAIN h /\ \A i \in DOMAIN h : k[i] = h[i].id[1]
  OBVIOUS
<1>2. Len(k) = Len(h)
  <2>1. DOMAIN h = 1 .. Len(h) /\ Len(h) \in Nat
    OBVIOUS
  <2> QED BY <1>1, <2>1
<1> QED BY <1>1, <1>2 DEF ToSet

\* The fusion and the reranker lose no evidence while there is place.
LEMMA EvidenceInvHits ==
    ASSUME TextInv, EvidenceInv, FuseHits \/ Rerank
    PROVE  EvidenceInv'
<1>1. /\ stage \in {"livegraph", "rerank"} /\ stage' \in {"rerank", "meta"}
      /\ kept' = HitSources'
      /\ UNCHANGED <<query, sources, steady, outcome, scope, lists>>
  BY DEF FuseHits, Rerank, ends
<1>2. Evidence' = Evidence /\ outcome = "none"
  BY <1>1, EvidenceSame DEF sources, EvidenceInv, SteadyInv
<1>3. \A id : Known(id) => (Known(id))'
  <2>1. src' = src /\ steady' = steady
    BY <1>1 DEF sources
  <2> QED BY <2>1, KnownStays
<1>4. PICK h \in Seq(Hit) : h = hits'
  BY FusedHits, RerankedHits
<1>5. kept' = [i \in DOMAIN h |-> h[i].id[1]]
  BY <1>1, <1>4 DEF HitSources
<1>6. /\ Len(kept') = Len(h)
      /\ \A i \in DOMAIN h : h[i].id[1] \in ToSet(kept')
  BY <1>5, KeptSources
<1>7. \A p \in Evidence : p.source = p.id[1]
  <2> SUFFICES ASSUME NEW p \in Evidence PROVE p.source = p.id[1]
    OBVIOUS
  <2>1. SourcesTyped /\ p \in LiveRows
    BY EvidenceLives DEF TextInv, TypeInv
  <2>2. p.id = <<p.source, p.gen, p.place>>
    BY <2>1, LiveRowsFacts
  <2> QED BY <2>2
<1>8. /\ \A i \in DOMAIN h : Known(h[i].id)
      /\ Cut <= Len(h) \/ \A p \in Evidence : p.source \in ToSet(kept')
  <2>1. CASE FuseHits
    <3>1. stage = "livegraph"
      BY <2>1 DEF FuseHits
    <3>2. /\ \A id \in ToSet(lists.dense) \cup ToSet(lists.bm25) \cup ToSet(lists.graph) : Known(id)
          /\ Once(lists.bm25)
      BY <3>1 DEF EvidenceInv, CutInv
    <3>3. \/ Overfetch <= Len(lists.bm25)
          \/ \A p \in Evidence : p.id \in ToSet(lists.bm25)
      BY <3>1 DEF EvidenceInv, FoundInv
    <3>4. \A i \in DOMAIN h :
            h[i].id \in ToSet(lists.dense) \cup ToSet(lists.bm25) \cup ToSet(lists.graph)
      BY <1>4, <2>1, FusedHits
    <3>5. \/ Cut <= Len(h)
          \/ \A id \in ToSet(lists.bm25) : \E i \in DOMAIN h : h[i].id = id
      BY <1>4, <2>1, FusedHits
    <3>6. Overfetch <= Len(lists.bm25) => Cut <= Len(h)
      BY <1>4, <2>1, <3>2, FusedHits
    <3>7. \A i \in DOMAIN h : Known(h[i].id)
      BY <3>2, <3>4
    <3>8. ASSUME \A p \in Evidence : p.id \in ToSet(lists.bm25),
                 \A id \in ToSet(lists.bm25) : \E i \in DOMAIN h : h[i].id = id, NEW p \in Evidence
          PROVE  p.source \in ToSet(kept')
      <4>1. PICK i \in DOMAIN h : h[i].id = p.id
        BY <3>8
      <4> QED BY <1>6, <1>7, <4>1
    <3> QED BY <3>3, <3>5, <3>6, <3>7, <3>8
  <2>2. CASE Rerank
    <3>1. stage = "rerank" /\ hits \in Seq(Hit)
      BY <2>2 DEF Rerank, TextInv, TypeInv
    <3>2. /\ kept = [i \in DOMAIN hits |-> hits[i].id[1]] /\ \A i \in DOMAIN hits : Known(hits[i].id)
          /\ Cut <= Len(kept) \/ \A p \in Evidence : p.source \in ToSet(kept)
      BY <3>1 DEF EvidenceInv, CutInv, FoundInv, HitSources
    <3>3. /\ Len(kept) = Len(hits)
          /\ \A s \in ToSet(kept) : \E i \in DOMAIN hits : hits[i].id[1] = s
      BY <3>1, <3>2, KeptSources
    <3>4. \A j \in DOMAIN h : \E i \in DOMAIN hits : h[j].id = hits[i].id
      BY <1>4, <2>2, RerankedHits
    <3>5. \/ Pool <= Len(h)
          \/ /\ Len(h) = Len(hits)
             /\ \A i \in DOMAIN hits : \E j \in DOMAIN h : h[j].id = hits[i].id
      BY <1>4, <2>2, RerankedHits
    <3>6. \A j \in DOMAIN h : Known(h[j].id)
      BY <3>2, <3>4
    <3>7. CASE Pool <= Len(h)
      <4>1. Pool \in Nat /\ Cut \in Nat /\ Cut <= Pool /\ Len(h) \in Nat
        BY AnsweringAssumption, CutFacts
      <4>2. Cut <= Len(h)
        BY <3>7, <4>1
      <4> QED BY <3>6, <4>2
    <3>8. CASE /\ Len(h) = Len(hits)
               /\ \A i \in DOMAIN hits : \E j \in DOMAIN h : h[j].id = hits[i].id
      <4>1. \A s \in ToSet(kept) : s \in ToSet(kept')
        <5> SUFFICES ASSUME NEW s \in ToSet(kept) PROVE s \in ToSet(kept')
          OBVIOUS
        <5>1. PICK i \in DOMAIN hits : hits[i].id[1] = s
          BY <3>3
        <5>2. PICK j \in DOMAIN h : h[j].id = hits[i].id
          BY <3>8
        <5> QED BY <1>6, <5>1, <5>2
      <4> QED BY <3>2, <3>3, <3>6, <3>8, <4>1
    <3> QED BY <3>5, <3>7, <3>8
  <2> QED BY <2>1, <2>2
<1>9. CutInv'
  <2>1. \A i \in DOMAIN hits' : (Known(hits[i].id))'
    BY <1>3, <1>4, <1>8
  <2> QED BY <1>1, <2>1 DEF CutInv
<1>10. FoundInv'
  BY <1>1, <1>2, <1>6, <1>8 DEF FoundInv, Hydrating
<1> QED BY <1>1, <1>9, <1>10, EvidenceInvQuestion

\* The first read of the hits finds each one of a source that nothing has touched.
LEMMA EvidenceInvReadMeta ==
    ASSUME TextInv, EvidenceInv, ReadMeta
    PROVE  EvidenceInv'
<1>1. PICK f : f = Hydrated(LiveRows)
  OBVIOUS
<1>2. /\ stage = "meta" /\ stage' = "texts" /\ retrieved' = f
      /\ UNCHANGED <<query, sources, steady, outcome, scope, lists, hits, kept>>
  BY <1>1 DEF ReadMeta, Hydrates, history, ends
<1>3. Evidence' = Evidence /\ outcome = "none"
  BY <1>2, EvidenceSame DEF sources, EvidenceInv, SteadyInv
<1>4. CutInv'
  BY <1>2 DEF CutInv
<1>5. SourcesTyped /\ hits \in Seq(Hit) /\ LiveRows \in SUBSET Passage
  BY RowsArePassages DEF TextInv, TypeInv
<1>6. /\ kept = [i \in DOMAIN hits |-> hits[i].id[1]] /\ \A i \in DOMAIN hits : Known(hits[i].id)
      /\ Cut <= Len(kept) \/ \A p \in Evidence : p.source \in ToSet(kept)
      /\ steady \subseteq {s \in Source : Live(s)}
  BY <1>2 DEF EvidenceInv, CutInv, FoundInv, SteadyInv, HitSources
<1>7. ASSUME NEW s \in ToSet(kept), s \in steady
      PROVE  \E p \in Rows(s), i \in DOMAIN f : f[i].id = p.id /\ f[i].parent = p.parent
  <2>1. PICK j \in DOMAIN hits : hits[j].id[1] = s
    BY <1>5, <1>6, KeptSources
  <2>2. PICK p \in Rows(s) : p.id = hits[j].id
    BY <1>6, <1>7, <2>1 DEF Known
  <2>3. p \in LiveRows
    BY <1>6, <1>7 DEF LiveRows
  <2>4. \A q \in LiveRows : q.id = p.id => q = p
    BY <1>5, <2>3, LiveRowsById
  <2>5. \E i \in DOMAIN f : f[i].id = p.id /\ f[i].parent = p.parent
    BY <1>1, <1>5, <2>2, <2>3, <2>4, HydratedFacts
  <2> QED BY <2>5
<1>8. \A s \in Source : (Rows(s))' = Rows(s)
  BY <1>2 DEF sources, Rows
<1>9. \A s \in ToSet(kept') \cap steady' : (ReadOf(s))'
  BY <1>2, <1>6, <1>7, <1>8 DEF ReadOf
<1>10. FoundInv'
  BY <1>2, <1>3, <1>6, <1>9 DEF FoundInv, Hydrating
<1> QED BY <1>2, <1>4, <1>10, EvidenceInvQuestion

\* The later reads of the hits lose none of them.
LEMMA EvidenceInvHydrate ==
    ASSUME TextInv, EvidenceInv, ReadTexts \/ ReadCounts
    PROVE  EvidenceInv'
<1>1. /\ stage \in {"texts", "counts"} /\ stage' \in {"counts", "parents"}
      /\ UNCHANGED <<query, sources, steady, outcome, scope, lists, hits, kept>>
  BY DEF ReadTexts, ReadCounts, Hydrates, history, ends
<1>2. Evidence' = Evidence /\ outcome = "none"
  BY <1>1, EvidenceSame DEF sources, EvidenceInv, SteadyInv
<1>3. CutInv'
  BY <1>1 DEF CutInv
<1>4. DOMAIN retrieved' = DOMAIN retrieved /\ \A i \in DOMAIN retrieved :
        retrieved'[i].id = retrieved[i].id /\ retrieved'[i].parent = retrieved[i].parent
  <2>1. CASE ReadTexts
    <3> DEFINE Gone(r) == ~r.read /\ \A q \in AllRows : q.id # r.id
               f == [i \in DOMAIN retrieved |->
                       [retrieved[i] EXCEPT !.cost = IF Gone(retrieved[i]) THEN 0 ELSE @]]
    <3>1. retrieved' = f
      BY <2>1 DEF ReadTexts, Hydrates
    <3>2. ASSUME NEW i \in DOMAIN retrieved
          PROVE  f[i].id = retrieved[i].id /\ f[i].parent = retrieved[i].parent
      <4>1. PICK r \in Passage : r = retrieved[i]
        BY DEF TextInv, TypeInv
      <4>2. PICK c : f[i] = [r EXCEPT !.cost = c]
        BY <4>1
      <4> HIDE DEF f
      <4>3. f[i].id = r.id /\ f[i].parent = r.parent
        BY <4>2 DEF Passage
      <4> QED BY <4>1, <4>3
    <3>3. DOMAIN f = DOMAIN retrieved
      OBVIOUS
    <3> HIDE DEF f
    <3> QED BY <3>1, <3>2, <3>3
  <2>2. CASE ReadCounts
    BY <2>2 DEF ReadCounts
  <2> QED BY <2>1, <2>2
<1>5. \A s \in Source : (Rows(s))' = Rows(s)
  BY <1>1 DEF sources, Rows
<1>6. steady \subseteq Source
  BY DEF EvidenceInv, SteadyInv
<1>7. \A s \in steady : ReadOf(s) => (ReadOf(s))'
  BY <1>4, <1>5, <1>6 DEF ReadOf
<1>8. /\ Cut <= Len(kept) \/ \A p \in Evidence : p.source \in ToSet(kept)
      /\ \A s \in ToSet(kept) \cap steady : ReadOf(s)
  BY <1>1 DEF EvidenceInv, FoundInv, Hydrating
<1>9. FoundInv'
  <2> HIDE DEF ReadOf, Evidence, Crowded
  <2> QED BY <1>1, <1>2, <1>7, <1>8 DEF FoundInv, Hydrating
<1> QED BY <1>1, <1>3, <1>9, EvidenceInvQuestion

\* A hit whose parent is read in its place leaves the parent, so that what is assembled is
\* empty only if no hit is of a source that nothing has touched.
LEMMA EvidenceInvReadParents ==
    ASSUME TextInv, EvidenceInv, ReadParents
    PROVE  EvidenceInv'
<1>1. PICK parents : parents = {p \in LiveRows : p.id \in Merging(retrieved, counts)}
  OBVIOUS
<1>2. PICK c : c = Candidates(retrieved, counts, parents)
  OBVIOUS
<1>3. PICK t : t = TrimAndOrder(c, Scoped, Caps.tier2)
  OBVIOUS
<1>4. /\ stage = "parents" /\ stage' = "assembled" /\ passages' = t
      /\ UNCHANGED <<query, sources, steady, outcome, scope, lists, hits, kept>>
  BY <1>1, <1>2, <1>3 DEF ReadParents, searched, history, ends
<1>5. Evidence' = Evidence /\ outcome = "none"
  BY <1>4, EvidenceSame DEF sources, EvidenceInv, SteadyInv
<1>6. CutInv'
  BY <1>4 DEF CutInv
<1>7. /\ retrieved \in Seq(Passage) /\ Scoped \in Seq(Source) /\ SourcesTyped
      /\ \A p \in DOMAIN counts : p # NoParent
  BY <1>4 DEF TextInv, TypeInv, HydratedInv
<1>8. parents \in SUBSET Passage /\ \A x \in parents : x.id \in Merging(retrieved, counts)
  BY <1>1, <1>7, RowsArePassages
<1>9. /\ Cut <= Len(kept) \/ \A p \in Evidence : p.source \in ToSet(kept)
      /\ \A s \in ToSet(kept) \cap steady : ReadOf(s)
      /\ steady \subseteq {s \in Source : Live(s)}
  BY <1>4 DEF EvidenceInv, FoundInv, SteadyInv, Hydrating
<1>10. ASSUME NEW s \in ToSet(kept), s \in steady
      PROVE  t # <<>>
  <2>1. PICK p \in Rows(s), j \in DOMAIN retrieved :
          retrieved[j].id = p.id /\ retrieved[j].parent = p.parent
    BY <1>9, <1>10 DEF ReadOf
  <2>2. s \in Source /\ Live(s)
    BY <1>9, <1>10
  <2>3. p.parent \in Merging(retrieved, counts) => \E x \in parents : x.id = p.parent
    <3> SUFFICES ASSUME p.parent \in Merging(retrieved, counts)
                 PROVE  \E x \in parents : x.id = p.parent
      OBVIOUS
    <3>1. p.parent # NoParent
      BY <1>7 DEF Merging
    <3>2. PICK x \in Rows(s) : x.id = p.parent
      BY <1>7, <2>2, <3>1, ParentThere
    <3>3. x \in LiveRows
      BY <2>2 DEF LiveRows
    <3> QED BY <1>1, <3>2, <3>3
  <2>4. c # <<>>
    BY <1>2, <1>7, <1>8, <2>1, <2>3, CandidatesFacts
  <2>5. c \in Seq(Passage)
    BY <1>2, <1>7, <1>8, CandidatesFacts
  <2> QED BY <1>3, <1>7, <2>4, <2>5, TrimAndOrderFacts
<1>11. ASSUME t = <<>>, Evidence # {}
      PROVE  Crowded'
  <2>1. ToSet(kept) \cap steady = {}
    BY <1>10, <1>11
  <2>2. PICK p \in Evidence : TRUE
    BY <1>11
  <2>3. p.source \in steady
    BY DEF Evidence
  <2>4. Cut <= Len(kept)
    BY <1>9, <2>1, <2>3
  <2>5. Len(kept) >= Cut
    BY <2>4
  <2> QED BY <1>4, <2>1, <2>5 DEF Crowded, Cut
<1>12. FoundInv'
  <2> HIDE DEF Crowded, Evidence
  <2> QED BY <1>4, <1>5, <1>11 DEF FoundInv, Hydrating
<1> QED BY <1>4, <1>6, <1>12, EvidenceInvQuestion

\* Every step of a source or a question keeps the evidence where it is.
LEMMA EvidenceInvStep ==
    ASSUME TextInv, EvidenceInv, [Next]_vars
    PROVE  EvidenceInv'
<1>0. TextInv'
  BY TextInvStep
<1>1. CASE SourceStep
  BY <1>0, <1>1, EvidenceInvSourceStep
<1>2. ASSUME NEW q \in Queries, Ask(q) PROVE EvidenceInv'
  BY <1>2, EvidenceInvAsk
<1>3. CASE Stops \/ Fails \/ Refuse \/ Reindexing \/ Answered
  BY <1>3, EvidenceInvAllEnds
<1>4. CASE Resolve
  BY <1>4, EvidenceInvResolve
<1>5. CASE ReadSections \/ SumTokens \/ Recount
  BY <1>5, EvidenceInvSections
<1>6. CASE ReadSpan \/ ReadParentRows
  BY <1>6, EvidenceInvReadSpan, EvidenceInvReadParentRows
<1>7. CASE SearchDense \/ FilterDense \/ SearchBm25 \/ SearchGraph
  BY <1>7, EvidenceInvSearch
<1>8. CASE FuseHits \/ Rerank
  BY <1>8, EvidenceInvHits
<1>9. CASE ReadMeta \/ ReadTexts \/ ReadCounts \/ ReadParents
  BY <1>9, EvidenceInvReadMeta, EvidenceInvHydrate, EvidenceInvReadParents
<1>10. CASE Assembled \/ ReadGap \/ BuildPrompt \/ Stream
  BY <1>10, EvidenceInvAnswer
<1>11. CASE UNCHANGED vars
  <2>1. asked' = asked /\ src' = src /\ steady' = steady /\ kept' = kept
    BY <1>11 DEF vars, sources, history
  <2> QED BY <1>0, <2>1, EvidenceInvSources
<1> QED BY <1>1, <1>2, <1>3, <1>4, <1>5, <1>6, <1>7, <1>8, <1>9, <1>10, <1>11 DEF Next, QuestionStep

\* A question is neither refused as having no sources nor put off as reindexing
\* (answer_stream's two early ends) while a source that nothing has touched has the
\* question's words, whatever the cuts are and whatever happens to the other sources,
\* unless the hits of these fill the cuts and none of them is of an untouched source.
THEOREM EvidenceIsFoundAlways == Spec => []EvidenceIsFound
<1>1. Init => TextInv /\ EvidenceInv
  BY TextInvInit, EvidenceInvInit
<1>2. TextInv /\ EvidenceInv /\ [Next]_vars => (TextInv /\ EvidenceInv)'
  BY TextInvStep, EvidenceInvStep
<1>3. TextInv /\ EvidenceInv => EvidenceIsFound
  <2> SUFFICES ASSUME TextInv, EvidenceInv, outcome \in {"refused", "reindexing"}, ~Crowded,
                      NEW s \in steady, NEW p \in Rows(s)
               PROVE  <<s, p.place>> \notin ToSet(query.bm25)
    BY DEF EvidenceIsFound
  <2>1. Evidence = {} /\ s \in Source /\ SourcesTyped
    BY DEF EvidenceInv, FoundInv, SteadyInv, TextInv, TypeInv
  <2>2. p \in AllRows /\ p.source = s
    BY <2>1, RowsFacts DEF AllRows
  <2> QED BY <2>1, <2>2 DEF Evidence
<1> QED BY <1>1, <1>2, <1>3, PTL DEF Spec

=============================================================================
