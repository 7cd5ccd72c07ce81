----------------------------- MODULE HNSW_proofs -----------------------------
(***************************************************************************)
(* What insertions keep of the graph and what a search finds in it, for    *)
(* any points, integer scores, M, ef, k, number of nodes and layers.       *)
(*                                                                         *)
(* The graph, and the one in the file, keep their shape: every list is as  *)
(* long as its cap and its layer allow (Graph).  A search keeps what it    *)
(* has enqueued closed: the neighbours of every expanded node are in it    *)
(* (Around), so that what was never enqueued is no neighbour of a hit and, *)
(* as lists are full, there is nothing of the sort in a small graph.       *)
(***************************************************************************)
EXTENDS HNSW, TLAPS, SequenceTheorems, FiniteSetTheorems, WellFoundedInduction

NodeType == [v : Point, neigh : UNION {[0 .. l -> SUBSET Nat] : l \in 0 .. MaxLevel}]

\* The nodes of ns that have layer l.
OnOf(ns, l) == {i \in DOMAIN ns : l \in DOMAIN ns[i].neigh}

\* FullDegree, of any nodes.
Full(ns) ==
  \A i \in DOMAIN ns : \A l \in DOMAIN ns[i].neigh :
    /\ ns[i].neigh[l] \subseteq OnOf(ns, l) \ {i}
    /\ Cardinality(ns[i].neigh[l]) = Smaller(Cap(l), Cardinality(OnOf(ns, l)) - 1)

\* Entry e has the layers 0 .. top, and no node has more.
Entered(ns, e, top) ==
  IF ns = <<>> THEN e = 0 /\ top = 0
  ELSE /\ e \in DOMAIN ns
       /\ DOMAIN ns[e].neigh = 0 .. top
       /\ \A i \in DOMAIN ns : DOMAIN ns[i].neigh \subseteq 0 .. top

Graph(ns, e, top) ==
  /\ ns \in Seq(NodeType)
  /\ top \in 0 .. MaxLevel
  /\ Full(ns)
  /\ Entered(ns, e, top)

FileIsGraph == file # Nil => \E top \in 0 .. MaxLevel : Graph(file.nodes, file.entry, top)

\* What was enqueued holds the neighbours of what was expanded.
Around ==
  /\ frontier \cup expanded \subseteq DOMAIN nodes
  /\ frontier \cap expanded = {}
  /\ cur \in frontier \cup expanded
  /\ \A e \in expanded : Neigh(e, 0) \subseteq frontier \cup expanded

\* The search is over: nothing enqueued is nearer than anything expanded, and
\* either there is nothing or enough was expanded.
Stopped ==
  /\ \A j \in frontier : \A e \in expanded : ~Nearer(query.q, j, e)
  /\ frontier = {} \/ Cardinality(expanded) >= query.k
  /\ hits \in Closest(query.q, expanded, query.k)

Searching ==
  /\ pc \in {"idle", "descend", "expand", "done"}
  /\ query \in [q : Query, k : K] \cup {Nil}
  /\ layer \in 0 .. maxL
  /\ pc = "idle" => cur = 0 /\ layer = 0
  /\ pc # "idle" => query \in [q : Query, k : K] /\ cur \in DOMAIN nodes
  /\ pc \in {"idle", "descend"} => frontier = {} /\ expanded = {}
  /\ pc \in {"expand", "done"} => Around
  /\ IF pc = "done" THEN Stopped ELSE hits = {}

IInv == Graph(nodes, entry, maxL) /\ FileIsGraph /\ Searching

-----------------------------------------------------------------------------
(* Numbers and sets. *)

\* A set of naturals that is not empty has a least element.
LEMMA Least ==
  ASSUME NEW T, T \subseteq Nat, T # {}
  PROVE  \E x \in T : \A y \in T : x <= y
<1>1. IsWellFoundedOn(OpToRel(<, Nat), Nat)
  BY NatLessThanWellFounded
<1>2. PICK x \in T : \A y \in T : <<y, x>> \notin OpToRel(<, Nat)
  BY <1>1, WFMin
<1>3. ASSUME NEW y \in T PROVE x <= y
  <2>1. ~(y < x)
    BY <1>2 DEF OpToRel
  <2>2. QED
    BY <2>1
<1>4. QED
  BY <1>3

\* What is no better than one score, which is no better than another, is no
\* better than the other.
LEMMA BetterOrder ==
  ASSUME NEW a \in Int, NEW b \in Int, NEW c \in Int, ~Better(a, b), ~Better(b, c)
  PROVE  ~Better(a, c)
BY DistAssumption DEF Better

LEMMA ClosestIs ==
  ASSUME NEW ns, NEW v, NEW S, NEW m \in Nat, IsFiniteSet(S), NEW T \in ClosestOf(ns, v, S, m)
  PROVE  /\ T \subseteq S
         /\ Cardinality(T) = Smaller(m, Cardinality(S))
         /\ \A i \in T, j \in S \ T : ~NearerOf(ns, v, j, i)
BY DEF ClosestOf, kSubset

-----------------------------------------------------------------------------
(* Choices. *)

\* The choices of F, with any y of Y at x.
With(x, F, Y) ==
  {[z \in {x} \cup DOMAIN f |-> IF z = x THEN y ELSE f[z]] : f \in F, y \in Y}

LEMMA WithIs ==
  ASSUME NEW x, NEW F, NEW Y, NEW h \in With(x, F, Y)
  PROVE  \E f \in F, y \in Y :
            /\ DOMAIN h = {x} \cup DOMAIN f
            /\ \A z \in DOMAIN h : h[z] = IF z = x THEN y ELSE f[z]
BY DEF With

\* g is the fold of Picks(C) on the sets in D.
FoldsPicks(g, C, D) ==
  g = [s \in D |->
         IF s = {} THEN {<<>>}
         ELSE LET x == CHOOSE x \in s : TRUE IN With(x, g[s \ {x}], C[x])]

LEMMA PicksAre ==
  ASSUME NEW C, IsFiniteSet(DOMAIN C)
  PROVE  \E g : FoldsPicks(g, C, SUBSET DOMAIN C) /\ Picks(C) = g[DOMAIN C]
<1> DEFINE S == DOMAIN C
           Small(n) == {s \in SUBSET S : Cardinality(s) <= n}
           T == {n \in Nat : ~\E g : FoldsPicks(g, C, Small(n))}
<1>1. \A s \in SUBSET S : IsFiniteSet(s) /\ Cardinality(s) \in Nat /\ Cardinality(s) <= Cardinality(S)
  BY FS_Subset, FS_CardinalityType
<1>2. T = {}
  <2> SUFFICES ASSUME T # {} PROVE FALSE
    OBVIOUS
  <2>1. T \subseteq Nat
    OBVIOUS
  <2> HIDE DEF T
  <2>2. PICK n \in T : \A y \in T : n <= y
    BY <2>1, Least
  <2>3. n \in Nat /\ ~\E g : FoldsPicks(g, C, Small(n))
    BY DEF T
  <2> HIDE DEF Small
  <2>4. CASE n = 0
    <3> DEFINE g == [s \in Small(n) |-> {<<>>}]
    <3>1. \A s \in Small(n) : s = {}
      BY <1>1, <2>4, FS_EmptySet DEF Small
    <3>2. FoldsPicks(g, C, Small(n))
      BY <3>1 DEF FoldsPicks
    <3>3. QED
      BY <2>3, <3>2
  <2>5. CASE n # 0
    <3>1. n - 1 \in Nat /\ n - 1 \notin T
      BY <2>2, <2>3, <2>5
    <3>2. PICK f : FoldsPicks(f, C, Small(n - 1))
      BY <3>1 DEF T
    <3> DEFINE Step(h, s) ==
                 IF s = {} THEN {<<>>}
                 ELSE LET x == CHOOSE x \in s : TRUE IN With(x, h[s \ {x}], C[x])
               g == [s \in Small(n) |-> Step(f, s)]
    <3>3. ASSUME NEW s \in Small(n) PROVE Step(f, s) = Step(g, s)
      <4>1. CASE s = {}
        BY <4>1
      <4>2. CASE s # {}
        <5> DEFINE x == CHOOSE x \in s : TRUE
        <5>1. x \in s
          BY <4>2
        <5> HIDE DEF x
        <5>2. IsFiniteSet(s) /\ Cardinality(s) \in Nat /\ s \in SUBSET S /\ Cardinality(s) <= n
          BY <1>1 DEF Small
        <5>3. Cardinality(s \ {x}) = Cardinality(s) - 1
          BY <5>1, <5>2, FS_RemoveElement
        <5>4. s \ {x} \in Small(n - 1) /\ s \ {x} \in Small(n)
          BY <2>3, <5>2, <5>3 DEF Small
        <5>5. g[s \ {x}] = Step(f, s \ {x})
          BY <5>4
        <5>6. f[s \ {x}] = Step(f, s \ {x})
          BY <3>2, <5>4 DEF FoldsPicks
        <5>7. QED
          BY <5>5, <5>6 DEF x
      <4>3. QED
        BY <4>1, <4>2
    <3>4. g = [s \in Small(n) |-> Step(g, s)]
      BY <3>3
    <3>5. FoldsPicks(g, C, Small(n))
      BY <3>4 DEF FoldsPicks
    <3>6. QED
      BY <2>3, <3>5
  <2>6. QED
    BY <2>4, <2>5
<1>3. Cardinality(S) \in Nat /\ Small(Cardinality(S)) = SUBSET S
  BY <1>1
<1>4. \E g : FoldsPicks(g, C, SUBSET S)
  BY <1>2, <1>3
<1>5. Picks(C) = (CHOOSE g : FoldsPicks(g, C, SUBSET DOMAIN C))[DOMAIN C]
  BY DEF Picks, FoldSet, MapThenFoldSet, FoldsPicks, With
<1>6. QED
  BY <1>4, <1>5

\* A choice takes an element of each set.
LEMMA PicksTake ==
  ASSUME NEW C, IsFiniteSet(DOMAIN C), NEW f \in Picks(C)
  PROVE  DOMAIN f = DOMAIN C /\ \A x \in DOMAIN C : f[x] \in C[x]
<1> DEFINE S == DOMAIN C
           Takes(h, s) == DOMAIN h = s /\ \A x \in s : h[x] \in C[x]
<1>1. PICK g : FoldsPicks(g, C, SUBSET S) /\ Picks(C) = g[S]
  BY PicksAre
<1> DEFINE T == {n \in Nat : \E s \in SUBSET S : Cardinality(s) = n /\ \E h \in g[s] : ~Takes(h, s)}
<1>2. \A s \in SUBSET S : IsFiniteSet(s) /\ Cardinality(s) \in Nat
  BY FS_Subset, FS_CardinalityType
<1>3. T = {}
  <2> SUFFICES ASSUME T # {} PROVE FALSE
    OBVIOUS
  <2>1. T \subseteq Nat
    OBVIOUS
  <2> HIDE DEF T
  <2>2. PICK n \in T : \A y \in T : n <= y
    BY <2>1, Least
  <2>3. PICK s \in SUBSET S : Cardinality(s) = n /\ \E h \in g[s] : ~Takes(h, s)
    BY DEF T
  <2>4. PICK h \in g[s] : ~Takes(h, s)
    BY <2>3
  <2>5. CASE s = {}
    <3>1. g[s] = {<<>>}
      BY <1>1, <2>5 DEF FoldsPicks
    <3>2. DOMAIN h = {}
      BY <3>1, <2>4
    <3>3. QED
      BY <2>4, <2>5, <3>2
  <2>6. CASE s # {}
    <3> DEFINE x == CHOOSE x \in s : TRUE
    <3>1. x \in s
      BY <2>6
    <3>2. g[s] = With(x, g[s \ {x}], C[x])
      BY <1>1, <2>6 DEF FoldsPicks
    <3> HIDE DEF x
    <3>3. PICK f2 \in g[s \ {x}], y \in C[x] :
            /\ DOMAIN h = {x} \cup DOMAIN f2
            /\ \A z \in DOMAIN h : h[z] = IF z = x THEN y ELSE f2[z]
      BY <2>4, <3>2, WithIs
    <3>4. n \in Nat /\ Cardinality(s \ {x}) = n - 1 /\ n - 1 \in Nat
      BY <1>2, <2>3, <3>1, FS_RemoveElement
    <3>5. n - 1 \notin T
      BY <2>2, <3>4
    <3>6. Takes(f2, s \ {x})
      BY <3>4, <3>5 DEF T
    <3>7. DOMAIN h = s
      BY <3>1, <3>3, <3>6
    <3>8. QED
      BY <2>4, <3>1, <3>3, <3>6, <3>7
  <2>7. QED
    BY <2>5, <2>6
<1>4. Cardinality(S) \in Nat /\ Cardinality(S) \notin T
  BY <1>2, <1>3
<1>5. QED
  BY <1>1, <1>4
-----------------------------------------------------------------------------
(* Selection. *)

\* The images of a set under an injective function are as many.
LEMMA ImageCount ==
  ASSUME NEW S, IsFiniteSet(S), NEW r, S \subseteq DOMAIN r,
         \A x, y \in S : r[x] = r[y] => x = y
  PROVE  IsFiniteSet({r[x] : x \in S}) /\ Cardinality({r[x] : x \in S}) = Cardinality(S)
<1> DEFINE T == {r[x] : x \in S}
           f == [x \in S |-> r[x]]
<1>1. f \in Bijection(S, T)
  BY DEF Bijection, Injection, Surjection, IsInjective
<1>2. QED
  BY <1>1, FS_Bijection DEF ExistsBijection

\* The elements of F that have fewer than k below them are k, or all.
LEMMA LowestCount ==
  ASSUME NEW F, F \subseteq Nat, IsFiniteSet(F), NEW k \in Nat
  PROVE  LET G == {y \in F : Cardinality({z \in F : z < y}) < k}
         IN  IsFiniteSet(G) /\ Cardinality(G) = Smaller(k, Cardinality(F))
<1> DEFINE Under(y) == {z \in F : z < y}
           n == Cardinality(F)
           rank == [y \in F |-> Cardinality(Under(y))]
           G == {y \in F : Cardinality(Under(y)) < k}
<1>1. n \in Nat
  BY FS_CardinalityType
<1>2. ASSUME NEW y \in F PROVE IsFiniteSet(Under(y)) /\ Cardinality(Under(y)) \in 0 .. n - 1
  <2>1. Under(y) \in SUBSET (F \ {y})
    OBVIOUS
  <2>2. IsFiniteSet(F \ {y}) /\ Cardinality(F \ {y}) = n - 1
    BY FS_RemoveElement
  <2> HIDE DEF Under, n
  <2>3. QED
    BY <1>1, <2>1, <2>2, FS_Subset, FS_CardinalityType
<1>3. ASSUME NEW x \in F, NEW y \in F, x < y PROVE Cardinality(Under(x)) < Cardinality(Under(y))
  <2>1. Under(x) \cup {x} \in SUBSET Under(y) /\ x \notin Under(x)
    <3>1. x \in Nat /\ y \in Nat
      OBVIOUS
    <3>2. ASSUME NEW z \in Under(x) PROVE z \in Under(y)
      <4>1. z \in Nat /\ z < x
        OBVIOUS
      <4>2. z < y
        BY <1>3, <3>1, <4>1
      <4>3. QED
        BY <4>2
    <3>3. x \in Under(y) /\ x \notin Under(x)
      BY <1>3, <3>1
    <3> HIDE DEF Under
    <3>4. QED
      BY <3>2, <3>3
  <2> HIDE DEF Under, n
  <2>2. Cardinality(Under(x) \cup {x}) = Cardinality(Under(x)) + 1
    BY <1>2, <2>1, FS_AddElement
  <2>3. Cardinality(Under(x) \cup {x}) <= Cardinality(Under(y))
    BY <1>2, <2>1, FS_Subset
  <2>4. QED
    BY <1>1, <1>2, <2>2, <2>3
<1>4. \A x, y \in F : x < y \/ y < x \/ x = y
  OBVIOUS
<1> HIDE DEF Under, n
<1>5. rank \in Injection(F, 0 .. n - 1)
  <2>1. rank \in [F -> 0 .. n - 1]
    <3>1. \A y \in F : rank[y] \in 0 .. n - 1
      BY <1>2
    <3>2. rank = [y \in F |-> rank[y]]
      OBVIOUS
    <3> HIDE DEF rank
    <3>3. QED
      BY <3>1, <3>2
  <2>2. ASSUME NEW x \in F, NEW y \in F, rank[x] = rank[y] PROVE x = y
    <3>1. Cardinality(Under(x)) = Cardinality(Under(y))
      BY <2>2
    <3>2. Cardinality(Under(x)) \in Int /\ Cardinality(Under(y)) \in Int
      BY <1>2
    <3>3. ~(x < y) /\ ~(y < x)
      BY <1>3, <3>1, <3>2
    <3>4. QED
      BY <1>4, <3>3
  <2> HIDE DEF rank
  <2>3. QED
    BY <2>1, <2>2 DEF Injection, IsInjective
<1>6. IsFiniteSet(0 .. n - 1) /\ Cardinality(0 .. n - 1) = n
  BY <1>1, FS_Interval
<1>7. rank \in Surjection(F, 0 .. n - 1)
  BY <1>5, <1>6, FS_Injection DEF n
<1> DEFINE top == Smaller(k, n) - 1
           low == [y \in G |-> rank[y]]
<1>8. \A y \in F : rank[y] = Cardinality(Under(y)) /\ rank[y] \in 0 .. n - 1
  BY <1>2
<1>9. top \in Int /\ \A x \in 0 .. n - 1 : x < k <=> x \in 0 .. top
  BY <1>1 DEF Smaller
<1>10. 0 .. top \subseteq 0 .. n - 1
  BY <1>1 DEF Smaller
<1>11. IsFiniteSet(0 .. top) /\ Cardinality(0 .. top) = Smaller(k, n)
  <2>1. top + 1 = Smaller(k, n) /\ Smaller(k, n) \in Nat
    BY <1>1 DEF Smaller
  <2> HIDE DEF top
  <2>2. /\ IsFiniteSet(0 .. top)
        /\ Cardinality(0 .. top) = IF 0 > top THEN 0 ELSE top - 0 + 1
    BY <1>9, FS_Interval
  <2>3. QED
    BY <1>9, <2>1, <2>2
<1> HIDE DEF top, rank
<1>12. low \in Bijection(G, 0 .. top)
  <2>1. low \in [G -> 0 .. top]
    <3>1. ASSUME NEW y \in G PROVE rank[y] \in 0 .. top
      <4>1. y \in F /\ rank[y] \in 0 .. n - 1 /\ rank[y] < k
        BY <1>8
      <4>2. QED
        BY <1>9, <4>1
    <3> HIDE DEF G
    <3>2. QED
      BY <3>1
  <2>2. ASSUME NEW x \in G, NEW y \in G, low[x] = low[y] PROVE x = y
    BY <2>2, <1>5 DEF Injection, IsInjective
  <2>3. ASSUME NEW t \in 0 .. top PROVE \E y \in G : low[y] = t
    <3>1. PICK y \in F : rank[y] = t
      BY <1>7, <1>10 DEF Surjection
    <3>2. t \in 0 .. n - 1
      BY <1>10
    <3>3. y \in G
      BY <1>8, <1>9, <3>1, <3>2
    <3>4. QED
      BY <3>1, <3>3
  <2> HIDE DEF low, G
  <2>4. QED
    BY <2>1, <2>2, <2>3 DEF Bijection, Injection, Surjection, IsInjective
<1>13. IsFiniteSet(G)
  BY FS_Subset
<1>14. Cardinality(G) = Smaller(k, n)
  BY <1>11, <1>12, <1>13, FS_Bijection DEF ExistsBijection
<1>15. QED
  BY <1>13, <1>14 DEF n, Under

\* The orders of a set are its nodes, each once.
LEMMA OrdersAre ==
  ASSUME NEW v, NEW S, IsFiniteSet(S), NEW r \in Orders(v, S)
  PROVE  /\ Cardinality(S) \in Nat /\ r \in Seq(S) /\ Len(r) = Cardinality(S)
         /\ r \in Bijection(1 .. Cardinality(S), S)
<1> DEFINE n == Cardinality(S)
<1>1. n \in Nat
  BY FS_CardinalityType
<1>2. r \in [1 .. n -> S] /\ \A i, j \in 1 .. n : i # j => r[i] # r[j]
  BY DEF Orders, SetToSeqs
<1>3. IsFiniteSet(1 .. n) /\ Cardinality(1 .. n) = n
  BY <1>1, FS_Interval
<1> HIDE DEF n
<1>4. r \in Injection(1 .. n, S)
  BY <1>2 DEF Injection, IsInjective
<1>5. r \in Surjection(1 .. n, S)
  BY <1>3, <1>4, FS_Injection DEF n
<1>6. r \in Seq(S) /\ Len(r) = n
  BY <1>1, <1>2, SeqDef, LenProperties
<1>7. QED
  BY <1>1, <1>4, <1>5, <1>6 DEF Bijection, n

\* A node that is in order r is taken after those of T.
Takes(v, m, i, T) ==
  IF Cardinality(T) < m /\ \A p \in T : ~Better(Dist[nodes[i].v, nodes[p].v], Dist[v, nodes[i].v])
  THEN T \cup {i} ELSE T

\* g holds what Diverse takes of the first nodes of r, up to n.
TakesFirst(g, v, m, r, n) ==
  g = [x \in 0 .. n |-> IF x = 0 THEN {} ELSE Takes(v, m, r[x], g[x - 1])]

LEMMA DiverseIs ==
  ASSUME NEW v, NEW m, NEW r, Len(r) \in Nat
  PROVE  \E g : TakesFirst(g, v, m, r, Len(r)) /\ Diverse(v, r, m) = g[Len(r)]
<1> DEFINE T == {n \in Nat : ~\E g : TakesFirst(g, v, m, r, n)}
<1>1. T = {}
  <2> SUFFICES ASSUME T # {} PROVE FALSE
    OBVIOUS
  <2>1. T \subseteq Nat
    OBVIOUS
  <2> HIDE DEF T
  <2>2. PICK n \in T : \A y \in T : n <= y
    BY <2>1, Least
  <2>3. n \in Nat /\ ~\E g : TakesFirst(g, v, m, r, n)
    BY DEF T
  <2>4. CASE n = 0
    <3>1. TakesFirst([x \in 0 .. 0 |-> {}], v, m, r, 0)
      BY DEF TakesFirst
    <3>2. QED
      BY <2>3, <2>4, <3>1
  <2>5. CASE n # 0
    <3>1. n - 1 \in Nat /\ n - 1 \notin T
      BY <2>2, <2>3, <2>5
    <3>2. PICK f : TakesFirst(f, v, m, r, n - 1)
      BY <3>1 DEF T
    <3> DEFINE g == [x \in 0 .. n |-> IF x = n THEN Takes(v, m, r[n], f[n - 1]) ELSE f[x]]
    <3>3. ASSUME NEW x \in 0 .. n
          PROVE  g[x] = IF x = 0 THEN {} ELSE Takes(v, m, r[x], g[x - 1])
      <4>1. CASE x = n
        <5>1. n - 1 \in 0 .. n /\ n - 1 # n
          BY <2>3, <2>5
        <5>2. QED
          BY <2>5, <4>1, <5>1
      <4>2. CASE x # n
        <5>1. x \in 0 .. n - 1
          BY <2>3, <4>2
        <5>2. f[x] = IF x = 0 THEN {} ELSE Takes(v, m, r[x], f[x - 1])
          BY <3>2, <5>1 DEF TakesFirst
        <5>3. x # 0 => x - 1 \in 0 .. n /\ x - 1 # n
          BY <2>3, <5>1
        <5>4. QED
          BY <4>2, <5>2, <5>3
      <4>3. QED
        BY <4>1, <4>2
    <3>4. g = [x \in 0 .. n |-> g[x]]
      OBVIOUS
    <3> HIDE DEF g
    <3>5. TakesFirst(g, v, m, r, n)
      BY <3>3, <3>4 DEF TakesFirst
    <3>6. QED
      BY <2>3, <3>5
  <2>6. QED
    BY <2>4, <2>5
<1>2. \E g : TakesFirst(g, v, m, r, Len(r))
  BY <1>1
<1>3. Diverse(v, r, m) = (CHOOSE g : TakesFirst(g, v, m, r, Len(r)))[Len(r)]
  BY DEF Diverse, TakesFirst, Takes
<1>4. QED
  BY <1>2, <1>3

\* No more than m are taken, all of them from r.
LEMMA DiverseTakes ==
  ASSUME NEW S, NEW v, NEW m \in Nat, NEW r \in Seq(S)
  PROVE  LET T == Diverse(v, r, m)
         IN  T \subseteq S /\ IsFiniteSet(T) /\ Cardinality(T) \in 0 .. m
<1> DEFINE Good(A) == A \subseteq S /\ IsFiniteSet(A) /\ Cardinality(A) \in 0 .. m
<1>1. Len(r) \in Nat /\ \A x \in 1 .. Len(r) : r[x] \in S
  BY LenProperties, ElementOfSeq
<1>2. PICK g : TakesFirst(g, v, m, r, Len(r)) /\ Diverse(v, r, m) = g[Len(r)]
  BY <1>1, DiverseIs
<1> DEFINE T == {n \in 0 .. Len(r) : ~Good(g[n])}
<1>3. T = {}
  <2> SUFFICES ASSUME T # {} PROVE FALSE
    OBVIOUS
  <2>1. T \subseteq Nat
    BY <1>1
  <2> HIDE DEF T
  <2>2. PICK n \in T : \A y \in T : n <= y
    BY <2>1, Least
  <2>3. n \in 0 .. Len(r) /\ ~Good(g[n])
    BY DEF T
  <2>4. g[n] = IF n = 0 THEN {} ELSE Takes(v, m, r[n], g[n - 1])
    BY <1>2, <2>3 DEF TakesFirst
  <2>5. CASE n = 0
    <3>1. Good({})
      BY FS_EmptySet
    <3>2. QED
      BY <2>3, <2>4, <2>5, <3>1
  <2>6. CASE n # 0
    <3>1. n - 1 \in 0 .. Len(r) /\ n - 1 \notin T
      BY <1>1, <2>2, <2>3, <2>6
    <3>2. Good(g[n - 1])
      BY <3>1 DEF T
    <3>3. r[n] \in S
      BY <1>1, <2>3, <2>6
    <3> DEFINE A == g[n - 1]
    <3>4. CASE g[n] = A
      BY <2>3, <3>2, <3>4
    <3>5. CASE g[n] = A \cup {r[n]} /\ Cardinality(A) < m
      <4> HIDE DEF A
      <4>1. IsFiniteSet(A) /\ Cardinality(A) \in 0 .. m
        BY <3>2 DEF A
      <4>2. /\ IsFiniteSet(A \cup {r[n]})
            /\ Cardinality(A \cup {r[n]}) \in {Cardinality(A), Cardinality(A) + 1}
        BY <4>1, FS_AddElement
      <4>3. Cardinality(A \cup {r[n]}) \in 0 .. m
        BY <3>5, <4>1, <4>2
      <4>4. A \cup {r[n]} \subseteq S
        BY <3>2, <3>3 DEF A
      <4>5. QED
        BY <2>3, <3>5, <4>2, <4>3, <4>4
    <3>6. QED
      BY <2>4, <2>6, <3>4, <3>5 DEF Takes
  <2>7. QED
    BY <2>5, <2>6
<1>4. QED
  BY <1>1, <1>2, <1>3

\* As many are selected as asked for, or as there are.
LEMMA HeuristicIs ==
  ASSUME NEW v, NEW S, IsFiniteSet(S), NEW m \in Nat, NEW r \in Orders(v, S)
  PROVE  LET R == Heuristic(v, r, m)
         IN  R \subseteq S /\ Cardinality(R) = Smaller(m, Cardinality(S))
<1> DEFINE n == Cardinality(S)
           T == Diverse(v, r, m)
           others == {x \in DOMAIN r : r[x] \notin T}
           lowest == {y \in others : Cardinality({x \in others : x < y}) < m - Cardinality(T)}
           filler == {r[x] : x \in lowest}
<1>1. /\ n \in Nat /\ r \in Seq(S) /\ Len(r) = n /\ DOMAIN r = 1 .. n
      /\ \A x, y \in 1 .. n : r[x] = r[y] => x = y
      /\ \A i \in S : \E x \in 1 .. n : r[x] = i
      /\ \A x \in 1 .. n : r[x] \in S
  BY OrdersAre, LenProperties DEF Bijection, Injection, Surjection, IsInjective
<1>2. Heuristic(v, r, m) = T \cup filler
  BY DEF Heuristic
<1>3. T \subseteq S /\ IsFiniteSet(T) /\ Cardinality(T) \in 0 .. m
  BY <1>1, DiverseTakes
<1> HIDE DEF n, T
<1>4. IsFiniteSet(others) /\ others \subseteq 1 .. n
  <2>1. others \in SUBSET (1 .. n)
    BY <1>1
  <2>2. IsFiniteSet(1 .. n)
    BY <1>1, FS_Interval
  <2> HIDE DEF others
  <2>3. QED
    BY <2>1, <2>2, FS_Subset
<1>5. {r[x] : x \in others} = S \ T
  BY <1>1
<1>6. \A x, y \in others : r[x] = r[y] => x = y
  BY <1>1
<1>7. others \subseteq DOMAIN r
  OBVIOUS
<1> HIDE DEF others
<1>8. Cardinality(others) = Cardinality(S \ T)
  <2>1. Cardinality({r[x] : x \in others}) = Cardinality(others)
    BY <1>4, <1>6, <1>7, ImageCount
  <2>2. QED
    BY <1>5, <2>1
<1>9. IsFiniteSet(S \ T) /\ Cardinality(S \ T) = n - Cardinality(T) /\ Cardinality(T) <= n
  <2>1. IsFiniteSet(S \ T)
    BY FS_Difference
  <2>2. Cardinality(T \cup (S \ T)) = Cardinality(T) + Cardinality(S \ T) - Cardinality(T \cap (S \ T))
    BY <1>3, <2>1, FS_Union
  <2>3. T \cup (S \ T) = S /\ T \cap (S \ T) = {}
    BY <1>3
  <2>4. Cardinality(S) = Cardinality(T) + Cardinality(S \ T) - 0
    BY <2>2, <2>3, FS_EmptySet
  <2>5. Cardinality(S \ T) \in Nat
    BY <2>1, FS_CardinalityType
  <2>6. QED
    BY <1>1, <1>3, <2>1, <2>4, <2>5 DEF n
<1> DEFINE left == m - Cardinality(T)
<1>10. left \in Nat
  BY <1>3
<1>11. others \subseteq Nat
  BY <1>4
<1> HIDE DEF left
<1>12. IsFiniteSet(lowest) /\ Cardinality(lowest) = Smaller(left, Cardinality(others))
  BY <1>4, <1>10, <1>11, LowestCount DEF left
<1>13. lowest \subseteq others
  OBVIOUS
<1> HIDE DEF lowest
<1>14. IsFiniteSet(filler) /\ Cardinality(filler) = Cardinality(lowest)
  BY <1>6, <1>7, <1>12, <1>13, ImageCount
<1>15. filler \subseteq S \ T
  BY <1>5, <1>13
<1> HIDE DEF filler
<1>16. T \cap filler = {}
  BY <1>15
<1>17. Cardinality(T \cup filler) = Cardinality(T) + Cardinality(filler)
  <2>1. Cardinality(T \cup filler) = Cardinality(T) + Cardinality(filler) - Cardinality(T \cap filler)
    BY <1>3, <1>14, FS_Union
  <2>2. Cardinality(T \cap filler) = 0
    BY <1>16, FS_EmptySet
  <2>3. Cardinality(filler) \in Nat
    BY <1>14, FS_CardinalityType
  <2>4. QED
    BY <1>3, <2>1, <2>2, <2>3
<1>18. Cardinality(T \cup filler) = Smaller(m, n)
  BY <1>1, <1>3, <1>8, <1>9, <1>10, <1>12, <1>14, <1>17 DEF Smaller, left
<1>19. T \cup filler \subseteq S
  BY <1>3, <1>15
<1>20. QED
  BY <1>2, <1>18, <1>19 DEF n

LEMMA SelectedAre ==
  ASSUME NEW v, NEW S, IsFiniteSet(S), NEW m \in Nat, NEW R \in Selected(v, S, m)
  PROVE  R \subseteq S /\ Cardinality(R) = Smaller(m, Cardinality(S))
BY HeuristicIs DEF Selected

-----------------------------------------------------------------------------
(* The graph. *)

LEMMA CapNat == ASSUME NEW l PROVE Cap(l) \in Nat /\ Cap(l) > 0
<1>1. M \in Nat /\ M > 0 /\ 2 * M \in Nat /\ 2 * M > 0
  BY MAssumption
<1>2. CASE l = 0
  BY <1>1, <1>2 DEF Cap
<1>3. CASE l # 0
  BY <1>1, <1>3 DEF Cap
<1>4. QED
  BY <1>2, <1>3

LEMMA LayersFinite ==
  ASSUME NEW ns \in Seq(NodeType), NEW l
  PROVE  /\ Len(ns) \in Nat /\ DOMAIN ns = 1 .. Len(ns)
         /\ IsFiniteSet(DOMAIN ns) /\ Cardinality(DOMAIN ns) = Len(ns)
         /\ IsFiniteSet(OnOf(ns, l)) /\ OnOf(ns, l) \subseteq DOMAIN ns
         /\ Cardinality(OnOf(ns, l)) \in Nat
<1>1. Len(ns) \in Nat /\ DOMAIN ns = 1 .. Len(ns)
  BY LenProperties
<1>2. IsFiniteSet(DOMAIN ns) /\ Cardinality(DOMAIN ns) = Len(ns)
  BY <1>1, FS_Interval
<1>3. OnOf(ns, l) \in SUBSET DOMAIN ns
  BY DEF OnOf
<1>4. QED
  BY <1>1, <1>2, <1>3, FS_Subset, FS_CardinalityType

LEMMA NodeIs ==
  ASSUME NEW n \in NodeType
  PROVE  /\ n.v \in Point
         /\ \E l \in 0 .. MaxLevel : DOMAIN n.neigh = 0 .. l
         /\ \A l \in DOMAIN n.neigh : n.neigh[l] \subseteq Nat
BY DEF NodeType

\* A node keeps its vector and its layers when others join.
LEMMA WithBackIs ==
  ASSUME nodes \in Seq(NodeType), NEW i \in DOMAIN nodes, NEW back
  PROVE  LET n == WithBack(i, back)
         IN  /\ n = [v |-> nodes[i].v, neigh |-> n.neigh]
             /\ n.v = nodes[i].v
             /\ n.neigh = [l \in DOMAIN nodes[i].neigh |->
                             IF <<l, i>> \in DOMAIN back THEN back[<<l, i>>] ELSE nodes[i].neigh[l]]
<1>1. nodes[i] \in NodeType
  BY ElementOfSeq, LenProperties
<1>2. nodes[i] = [v |-> nodes[i].v, neigh |-> nodes[i].neigh]
  BY <1>1 DEF NodeType
<1> DEFINE w == [l \in DOMAIN nodes[i].neigh |->
                   IF <<l, i>> \in DOMAIN back THEN back[<<l, i>>] ELSE nodes[i].neigh[l]]
<1>3. WithBack(i, back) = [nodes[i] EXCEPT !.neigh = w]
  BY DEF WithBack
<1> HIDE DEF w
<1>4. [nodes[i] EXCEPT !.neigh = w] = [v |-> nodes[i].v, neigh |-> w]
  BY <1>2
<1>5. QED
  BY <1>3, <1>4 DEF w

\* What Add has chosen: for each layer of the new node that has nodes, what
\* selectNeighbors returns, and for each of those the list it keeps.
Joins(v, level, joined, sel, new, back, ns) ==
  /\ v \in Point /\ level \in 0 .. MaxLevel
  /\ joined = IF entry = 0 THEN {} ELSE 0 .. Smaller(level, maxL)
  /\ \A l \in joined : sel[l] \subseteq On(l) /\ Cardinality(sel[l]) = Smaller(Cap(l), Cardinality(On(l)))
  /\ new = [v |-> v, neigh |-> [l \in 0 .. level |-> IF l \in joined THEN sel[l] ELSE {}]]
  /\ DOMAIN back = {e \in joined \X DOMAIN nodes : e[2] \in sel[e[1]]}
  /\ \A e \in DOMAIN back : back[e] \in Pruned(e[2], e[1], new)
  /\ ns = Append([i \in DOMAIN nodes |-> WithBack(i, back)], new)

\* The layers of a graph after a node has joined.
LEMMA JoinedLayers ==
  ASSUME Graph(nodes, entry, maxL),
         NEW v, NEW level, NEW joined, NEW sel, NEW new, NEW back, NEW ns,
         Joins(v, level, joined, sel, new, back, ns)
  PROVE  LET n == Len(nodes) + 1
         IN  /\ Len(ns) = n /\ DOMAIN ns = 1 .. n
             /\ ns[n] = new /\ \A i \in DOMAIN nodes : ns[i] = WithBack(i, back)
             /\ joined = {l \in 0 .. level : OnOf(nodes, l) # {}}
             /\ \A l : OnOf(ns, l) = IF l \in 0 .. level THEN OnOf(nodes, l) \cup {n} ELSE OnOf(nodes, l)
<1> DEFINE n == Len(nodes) + 1
           old == [i \in DOMAIN nodes |-> WithBack(i, back)]
<1>1. nodes \in Seq(NodeType) /\ Len(nodes) \in Nat /\ DOMAIN nodes = 1 .. Len(nodes)
  BY LenProperties DEF Graph
<1>2. ns = Append(old, new)
  BY DEF Joins
<1>3. old \in Seq({WithBack(i, back) : i \in DOMAIN nodes} \cup {new}) /\ Len(old) = Len(nodes)
  <2> DEFINE S == {WithBack(i, back) : i \in DOMAIN nodes} \cup {new}
  <2>1. old \in [1 .. Len(nodes) -> S]
    BY <1>1
  <2> HIDE DEF old, S
  <2>2. QED
    BY <1>1, <2>1, SeqDef, LenProperties DEF S
<1>4. /\ Len(ns) = n /\ DOMAIN ns = 1 .. n
      /\ ns[n] = new /\ \A i \in 1 .. Len(nodes) : ns[i] = old[i]
  <2> DEFINE S == {WithBack(i, back) : i \in DOMAIN nodes} \cup {new}
  <2>1. old \in Seq(S) /\ new \in S
    BY <1>3
  <2> HIDE DEF old, S
  <2>2. QED
    BY <1>1, <1>2, <1>3, <2>1, AppendProperties, LenProperties
<1>5. \A i \in DOMAIN nodes : ns[i] = WithBack(i, back)
  BY <1>1, <1>4
<1>6. joined = {l \in 0 .. level : OnOf(nodes, l) # {}}
  <2>1. level \in Nat
    BY BoundAssumption DEF Joins
  <2>2. CASE nodes = <<>>
    <3>1. entry = 0
      BY <2>2 DEF Graph, Entered
    <3>2. \A l : OnOf(nodes, l) = {}
      BY <2>2 DEF OnOf
    <3>3. QED
      BY <3>1, <3>2 DEF Joins
  <2>3. CASE nodes # <<>>
    <3>1. /\ entry \in DOMAIN nodes /\ DOMAIN nodes[entry].neigh = 0 .. maxL
          /\ \A i \in DOMAIN nodes : DOMAIN nodes[i].neigh \subseteq 0 .. maxL
      BY <2>3 DEF Graph, Entered
    <3>2. entry # 0 /\ maxL \in Nat
      BY <1>1, <3>1, BoundAssumption DEF Graph
    <3>3. joined = 0 .. Smaller(level, maxL)
      BY <3>2 DEF Joins
    <3>4. \A l : OnOf(nodes, l) # {} <=> l \in 0 .. maxL
      BY <3>1 DEF OnOf
    <3>5. 0 .. Smaller(level, maxL) = {l \in 0 .. level : l \in 0 .. maxL}
      BY <2>1, <3>2 DEF Smaller
    <3>6. QED
      BY <3>3, <3>4, <3>5
  <2>4. QED
    BY <2>2, <2>3
<1>7. DOMAIN new.neigh = 0 .. level
  BY DEF Joins
<1>8. ASSUME NEW i \in DOMAIN nodes PROVE DOMAIN ns[i].neigh = DOMAIN nodes[i].neigh
  <2>1. WithBack(i, back).neigh =
          [l \in DOMAIN nodes[i].neigh |->
             IF <<l, i>> \in DOMAIN back THEN back[<<l, i>>] ELSE nodes[i].neigh[l]]
    BY <1>1, WithBackIs
  <2>2. QED
    BY <1>5, <2>1
<1>9. ASSUME NEW l
      PROVE  OnOf(ns, l) = IF l \in 0 .. level THEN OnOf(nodes, l) \cup {n} ELSE OnOf(nodes, l)
  <2>1. DOMAIN ns = DOMAIN nodes \cup {n}
    BY <1>1, <1>4
  <2>2. n \in OnOf(ns, l) <=> l \in 0 .. level
    BY <1>4, <1>7, <2>1 DEF OnOf
  <2>3. \A i \in DOMAIN nodes : i \in OnOf(ns, l) <=> i \in OnOf(nodes, l)
    BY <1>8, <2>1 DEF OnOf
  <2>4. OnOf(ns, l) \subseteq DOMAIN nodes \cup {n} /\ OnOf(nodes, l) \subseteq DOMAIN nodes
    BY <2>1 DEF OnOf
  <2>5. n \notin DOMAIN nodes
    BY <1>1
  <2> HIDE DEF n
  <2>6. QED
    BY <2>2, <2>3, <2>4, <2>5
<1>10. QED
  BY <1>4, <1>5, <1>6, <1>9

\* The list of an old node on a layer after a node has joined.
LEMMA JoinedList ==
  ASSUME Graph(nodes, entry, maxL),
         NEW v, NEW level, NEW joined, NEW sel, NEW new, NEW back, NEW ns,
         Joins(v, level, joined, sel, new, back, ns),
         NEW i \in DOMAIN nodes, NEW l \in DOMAIN nodes[i].neigh
  PROVE  /\ ns[i].v = nodes[i].v
         /\ DOMAIN ns[i].neigh = DOMAIN nodes[i].neigh
         /\ IF l \in joined /\ i \in sel[l]
            THEN /\ ns[i].neigh[l] \subseteq nodes[i].neigh[l] \cup {Len(nodes) + 1}
                 /\ Cardinality(ns[i].neigh[l]) = Smaller(Cap(l), Cardinality(nodes[i].neigh[l]) + 1)
            ELSE ns[i].neigh[l] = nodes[i].neigh[l]
<1> DEFINE n == Len(nodes) + 1
           L == nodes[i].neigh[l]
<1>1. nodes \in Seq(NodeType) /\ Len(nodes) \in Nat /\ DOMAIN nodes = 1 .. Len(nodes)
  BY LenProperties DEF Graph
<1>2. ns[i] = WithBack(i, back)
  BY JoinedLayers
<1>3. /\ ns[i].v = nodes[i].v
      /\ ns[i].neigh = [k \in DOMAIN nodes[i].neigh |->
                          IF <<k, i>> \in DOMAIN back THEN back[<<k, i>>] ELSE nodes[i].neigh[k]]
  BY <1>1, <1>2, WithBackIs
<1>4. ns[i].neigh[l] = IF <<l, i>> \in DOMAIN back THEN back[<<l, i>>] ELSE nodes[i].neigh[l]
  BY <1>3
<1>5. <<l, i>> \in DOMAIN back <=> l \in joined /\ i \in sel[l]
  BY DEF Joins
<1>6. CASE <<l, i>> \in DOMAIN back
  <2>1. back[<<l, i>>] \in Pruned(i, l, new)
    BY <1>6 DEF Joins
  <2>2. Neigh(i, l) = L
    BY DEF Neigh, Levels
  <2>3. L \subseteq DOMAIN nodes
    BY DEF Graph, Full, OnOf
  <2>4. IsFiniteSet(L) /\ Cardinality(L) \in Nat /\ n \notin L
    BY <1>1, <2>3, LayersFinite, FS_Subset, FS_CardinalityType
  <2> HIDE DEF L, n
  <2>5. IsFiniteSet(L \cup {n}) /\ Cardinality(L \cup {n}) = Cardinality(L) + 1
    BY <2>4, FS_AddElement
  <2>6. back[<<l, i>>] \in ClosestOf(Append(nodes, new), nodes[i].v, L \cup {n}, Cap(l))
    BY <2>1, <2>2 DEF Pruned, n
  <2>7. /\ back[<<l, i>>] \subseteq L \cup {n}
        /\ Cardinality(back[<<l, i>>]) = Smaller(Cap(l), Cardinality(L \cup {n}))
    BY <2>5, <2>6, ClosestIs, CapNat
  <2>8. ns[i].neigh[l] = back[<<l, i>>]
    BY <1>4, <1>6
  <2>9. DOMAIN ns[i].neigh = DOMAIN nodes[i].neigh
    BY <1>3
  <2>10. QED
    BY <1>3, <1>5, <1>6, <2>5, <2>7, <2>8, <2>9 DEF L, n
<1>7. CASE <<l, i>> \notin DOMAIN back
  BY <1>3, <1>4, <1>5, <1>7
<1>8. QED
  BY <1>6, <1>7

\* Lists stay as long as their caps and layers allow.
LEMMA JoinedFull ==
  ASSUME Graph(nodes, entry, maxL),
         NEW v, NEW level, NEW joined, NEW sel, NEW new, NEW back, NEW ns,
         Joins(v, level, joined, sel, new, back, ns)
  PROVE  Full(ns)
<1> DEFINE n == Len(nodes) + 1
<1>1. nodes \in Seq(NodeType) /\ Len(nodes) \in Nat /\ DOMAIN nodes = 1 .. Len(nodes)
  BY LenProperties DEF Graph
<1>2. /\ DOMAIN ns = 1 .. n /\ ns[n] = new
      /\ joined = {l \in 0 .. level : OnOf(nodes, l) # {}}
      /\ \A l : OnOf(ns, l) = IF l \in 0 .. level THEN OnOf(nodes, l) \cup {n} ELSE OnOf(nodes, l)
  BY JoinedLayers
<1>3. DOMAIN ns = DOMAIN nodes \cup {n} /\ n \notin DOMAIN nodes
  BY <1>1, <1>2
<1>4. \A l : IsFiniteSet(OnOf(nodes, l)) /\ Cardinality(OnOf(nodes, l)) \in Nat /\ n \notin OnOf(nodes, l)
  BY <1>1, <1>3, LayersFinite
<1> HIDE DEF n
<1>5. ASSUME NEW l \in 0 .. level
      PROVE  Cardinality(OnOf(ns, l)) = Cardinality(OnOf(nodes, l)) + 1
  <2>1. Cardinality(OnOf(nodes, l) \cup {n}) = Cardinality(OnOf(nodes, l)) + 1
    BY <1>4, FS_AddElement
  <2>2. QED
    BY <1>2, <2>1
<1>6. \A l \in joined : sel[l] \subseteq OnOf(nodes, l)
                        /\ Cardinality(sel[l]) = Smaller(Cap(l), Cardinality(OnOf(nodes, l)))
  BY DEF Joins, On, OnOf, Levels
<1>7. ASSUME NEW l \in DOMAIN new.neigh
      PROVE  /\ new.neigh[l] \subseteq OnOf(ns, l) \ {n}
             /\ Cardinality(new.neigh[l]) = Smaller(Cap(l), Cardinality(OnOf(ns, l)) - 1)
  <2>1. l \in 0 .. level /\ new.neigh[l] = IF l \in joined THEN sel[l] ELSE {}
    BY DEF Joins
  <2>2. Cardinality(OnOf(ns, l)) - 1 = Cardinality(OnOf(nodes, l))
    BY <1>4, <1>5, <2>1
  <2>3. CASE l \in joined
    BY <1>2, <1>4, <1>6, <2>1, <2>2, <2>3
  <2>4. CASE l \notin joined
    <3>1. OnOf(nodes, l) = {}
      BY <1>2, <2>1, <2>4
    <3>2. Cardinality(OnOf(nodes, l)) = 0
      BY <3>1, FS_EmptySet
    <3>3. Smaller(Cap(l), 0) = 0
      BY CapNat DEF Smaller
    <3>4. QED
      BY <2>1, <2>2, <2>4, <3>2, <3>3, FS_EmptySet
  <2>5. QED
    BY <2>3, <2>4
<1>8. ASSUME NEW i \in DOMAIN nodes, NEW l \in DOMAIN nodes[i].neigh
      PROVE  /\ ns[i].neigh[l] \subseteq OnOf(ns, l) \ {i}
             /\ Cardinality(ns[i].neigh[l]) = Smaller(Cap(l), Cardinality(OnOf(ns, l)) - 1)
  <2> DEFINE L == nodes[i].neigh[l]
             c == Cap(l)
             a == Cardinality(OnOf(nodes, l))
  <2>1. L \subseteq OnOf(nodes, l) \ {i} /\ Cardinality(L) = Smaller(c, a - 1)
    BY DEF Graph, Full
  <2>2. i \in OnOf(nodes, l)
    BY DEF OnOf
  <2>3. i # n
    BY <1>3
  <2>4. a \in Nat /\ a > 0 /\ c \in Nat /\ c > 0
    <3>1. a # 0
      BY <1>4, <2>2, FS_EmptySet
    <3>2. QED
      BY <1>4, <3>1, CapNat
  <2>5. CASE l \in joined /\ i \in sel[l]
    <3>1. /\ ns[i].neigh[l] \subseteq L \cup {n}
          /\ Cardinality(ns[i].neigh[l]) = Smaller(c, Cardinality(L) + 1)
      BY <2>5, JoinedList DEF n
    <3>2. OnOf(ns, l) = OnOf(nodes, l) \cup {n} /\ Cardinality(OnOf(ns, l)) = a + 1
      BY <1>2, <1>5, <2>5
    <3> HIDE DEF L, c, a
    <3>3. Smaller(c, Cardinality(L) + 1) = Smaller(c, (a + 1) - 1)
      BY <2>1, <2>4 DEF Smaller
    <3>4. ns[i].neigh[l] \subseteq OnOf(ns, l) \ {i}
      BY <2>1, <2>3, <3>1, <3>2
    <3>5. QED
      BY <3>1, <3>2, <3>3, <3>4 DEF c
  <2>6. CASE l \in joined /\ i \notin sel[l]
    <3>1. ns[i].neigh[l] = L
      BY <2>6, JoinedList
    <3>2. OnOf(ns, l) = OnOf(nodes, l) \cup {n} /\ Cardinality(OnOf(ns, l)) = a + 1
      BY <1>2, <1>5, <2>6
    <3>3. sel[l] \in SUBSET (OnOf(nodes, l) \ {i}) /\ Cardinality(sel[l]) = Smaller(c, a)
      BY <1>6, <2>6
    <3>4. /\ IsFiniteSet(OnOf(nodes, l) \ {i})
          /\ Cardinality(OnOf(nodes, l) \ {i}) = a - 1
      BY <1>4, <2>2, FS_RemoveElement
    <3> HIDE DEF L, c, a
    <3>5. Smaller(c, a) <= a - 1
      BY <3>3, <3>4, FS_Subset
    <3>6. Smaller(c, a - 1) = Smaller(c, (a + 1) - 1)
      BY <2>4, <3>5 DEF Smaller
    <3>7. QED
      BY <2>1, <3>1, <3>2, <3>6 DEF c
  <2>7. CASE l \notin joined
    <3>1. ns[i].neigh[l] = L
      BY <2>7, JoinedList
    <3>2. OnOf(ns, l) = OnOf(nodes, l)
      BY <1>2, <2>2, <2>7
    <3>3. QED
      BY <2>1, <3>1, <3>2
  <2>8. QED
    BY <2>5, <2>6, <2>7
<1>9. \A i \in DOMAIN nodes : DOMAIN ns[i].neigh = DOMAIN nodes[i].neigh
  <2> SUFFICES ASSUME NEW i \in DOMAIN nodes
               PROVE  DOMAIN ns[i].neigh = DOMAIN nodes[i].neigh
    OBVIOUS
  <2>1. PICK l : l \in DOMAIN nodes[i].neigh
    <3>1. nodes[i] \in NodeType
      BY <1>1, ElementOfSeq
    <3>2. PICK l \in 0 .. MaxLevel : DOMAIN nodes[i].neigh = 0 .. l
      BY <3>1, NodeIs
    <3>3. 0 \in 0 .. l
      BY BoundAssumption
    <3>4. QED
      BY <3>2, <3>3
  <2>2. QED
    BY <2>1, JoinedList
<1>10. QED
  BY <1>2, <1>3, <1>7, <1>8, <1>9 DEF Full

LEMMA LayersOf ==
  ASSUME NEW ns \in Seq(NodeType), NEW i \in DOMAIN ns
  PROVE  ns[i].v \in Point /\ \E l \in 0 .. MaxLevel : DOMAIN ns[i].neigh = 0 .. l
<1>1. ns[i] \in NodeType
  BY ElementOfSeq, LenProperties
<1>2. QED
  BY <1>1, NodeIs

\* An insertion leaves a graph.
LEMMA JoinedGraph ==
  ASSUME Graph(nodes, entry, maxL),
         NEW v, NEW level, NEW joined, NEW sel, NEW new, NEW back, NEW ns,
         Joins(v, level, joined, sel, new, back, ns)
  PROVE  Graph(ns, EntryAfter(Len(nodes) + 1, level), Larger(level, maxL))
<1> DEFINE n == Len(nodes) + 1
           top == Larger(level, maxL)
           e == EntryAfter(n, level)
<1>1. nodes \in Seq(NodeType) /\ Len(nodes) \in Nat /\ DOMAIN nodes = 1 .. Len(nodes)
  BY LenProperties DEF Graph
<1>2. Len(ns) = n /\ DOMAIN ns = 1 .. n /\ ns[n] = new
  BY JoinedLayers
<1>3. DOMAIN ns = DOMAIN nodes \cup {n} /\ n \notin DOMAIN nodes
  BY <1>1, <1>2
<1>4. level \in 0 .. MaxLevel /\ maxL \in 0 .. MaxLevel /\ MaxLevel \in Nat
  BY BoundAssumption DEF Joins, Graph
<1>5. Full(ns)
  BY JoinedFull
<1>6. DOMAIN new.neigh = 0 .. level
  BY DEF Joins
<1>7. ASSUME NEW i \in DOMAIN nodes
      PROVE  ns[i].v = nodes[i].v /\ DOMAIN ns[i].neigh = DOMAIN nodes[i].neigh
  <2>1. PICK l \in 0 .. MaxLevel : DOMAIN nodes[i].neigh = 0 .. l
    BY <1>1, LayersOf
  <2>2. 0 \in DOMAIN nodes[i].neigh
    BY <1>4, <2>1
  <2>3. QED
    BY <2>2, JoinedList
<1>8. ASSUME NEW i \in DOMAIN ns PROVE ns[i] \in NodeType
  <2>1. ns[i] = [v |-> ns[i].v, neigh |-> [l \in DOMAIN ns[i].neigh |-> ns[i].neigh[l]]]
    <3>1. CASE i = n
      <4> DEFINE w == [l \in 0 .. level |-> IF l \in joined THEN sel[l] ELSE {}]
      <4>1. new = [v |-> v, neigh |-> w]
        BY DEF Joins
      <4>2. w = [l \in DOMAIN w |-> w[l]]
        OBVIOUS
      <4> HIDE DEF w
      <4>3. new.v = v /\ new.neigh = w
        BY <4>1
      <4>4. QED
        BY <1>2, <3>1, <4>1, <4>2, <4>3
    <3>2. CASE i \in DOMAIN nodes
      <4>1. ns[i] = WithBack(i, back)
        BY <3>2, JoinedLayers
      <4>2. /\ ns[i] = [v |-> nodes[i].v, neigh |-> ns[i].neigh]
            /\ ns[i].neigh = [l \in DOMAIN nodes[i].neigh |->
                                IF <<l, i>> \in DOMAIN back THEN back[<<l, i>>] ELSE nodes[i].neigh[l]]
        BY <1>1, <3>2, <4>1, WithBackIs
      <4>3. ns[i].neigh = [l \in DOMAIN ns[i].neigh |-> ns[i].neigh[l]]
        BY <4>2
      <4>4. QED
        BY <1>7, <3>2, <4>2, <4>3
    <3>3. QED
      BY <1>3, <3>1, <3>2
  <2>2. ns[i].v \in Point
    <3>1. CASE i = n
      BY <1>2, <3>1 DEF Joins
    <3>2. CASE i \in DOMAIN nodes
      BY <1>1, <1>7, <3>2, LayersOf
    <3>3. QED
      BY <1>3, <3>1, <3>2
  <2>3. PICK h \in 0 .. MaxLevel : DOMAIN ns[i].neigh = 0 .. h
    <3>1. CASE i = n
      BY <1>2, <1>4, <1>6, <3>1
    <3>2. CASE i \in DOMAIN nodes
      BY <1>1, <1>7, <3>2, LayersOf
    <3>3. QED
      BY <1>3, <3>1, <3>2
  <2>4. ASSUME NEW l \in 0 .. h PROVE ns[i].neigh[l] \in SUBSET Nat
    <3>1. ns[i].neigh[l] \subseteq OnOf(ns, l)
      BY <1>5, <2>3 DEF Full
    <3>2. OnOf(ns, l) \subseteq 1 .. n
      BY <1>2 DEF OnOf
    <3>3. QED
      BY <1>1, <3>1, <3>2
  <2> DEFINE w == [l \in DOMAIN ns[i].neigh |-> ns[i].neigh[l]]
  <2>5. w \in [0 .. h -> SUBSET Nat]
    BY <2>3, <2>4
  <2> HIDE DEF w
  <2>6. ns[i] = [v |-> ns[i].v, neigh |-> w]
    BY <2>1 DEF w
  <2>7. QED
    BY <2>2, <2>5, <2>6 DEF NodeType
<1>9. ns \in Seq(NodeType)
  <2>1. ns = [i \in 1 .. n |-> ns[i]]
    <3> DEFINE S == {WithBack(i, back) : i \in DOMAIN nodes} \cup {new}
               old == [i \in DOMAIN nodes |-> WithBack(i, back)]
    <3>1. old \in Seq(S) /\ new \in S
      <4>1. old \in [1 .. Len(nodes) -> S]
        BY <1>1
      <4> HIDE DEF old, S
      <4>2. QED
        BY <1>1, <4>1, SeqDef DEF S
    <3>2. ns = Append(old, new)
      BY DEF Joins
    <3> HIDE DEF old, S
    <3>3. ns \in Seq(S)
      BY <3>1, <3>2, AppendProperties
    <3>4. QED
      BY <1>2, <3>3, LenProperties
  <2>2. n \in Nat
    BY <1>1
  <2> HIDE DEF n
  <2>3. QED
    BY <1>2, <1>8, <2>1, <2>2, SeqDef
<1>10. top \in 0 .. MaxLevel
  BY <1>4 DEF Larger
<1>11. Entered(ns, e, top)
  <2>1. ns # <<>>
    BY <1>1, <1>2, EmptySeq
  <2>2. CASE nodes = <<>>
    <3>1. DOMAIN nodes = {} /\ entry = 0 /\ maxL = 0
      BY <2>2 DEF Graph, Entered
    <3>2. e = n /\ top = level
      BY <1>4, <3>1 DEF EntryAfter, Larger
    <3> HIDE DEF n, e, top
    <3>3. QED
      BY <1>2, <1>3, <1>6, <2>1, <3>1, <3>2 DEF Entered
  <2>3. CASE nodes # <<>>
    <3>1. /\ entry \in DOMAIN nodes /\ DOMAIN nodes[entry].neigh = 0 .. maxL
          /\ \A i \in DOMAIN nodes : DOMAIN nodes[i].neigh \subseteq 0 .. maxL
      BY <2>3 DEF Graph, Entered
    <3>2. entry # 0
      BY <1>1, <3>1
    <3>3. 0 .. maxL \subseteq 0 .. top /\ 0 .. level \subseteq 0 .. top
      BY <1>4 DEF Larger
    <3>4. CASE level > maxL
      <4>1. e = n /\ top = level
        BY <1>4, <3>4 DEF EntryAfter, Larger
      <4> HIDE DEF n, e, top
      <4>2. QED
        BY <1>2, <1>3, <1>6, <1>7, <2>1, <3>1, <3>3, <4>1 DEF Entered
    <3>5. CASE ~(level > maxL)
      <4>1. e = entry /\ top = maxL
        BY <1>4, <3>2, <3>5 DEF EntryAfter, Larger
      <4> HIDE DEF n, e, top
      <4>2. QED
        BY <1>2, <1>3, <1>6, <1>7, <2>1, <3>1, <3>3, <4>1 DEF Entered
    <3>6. QED
      BY <3>4, <3>5
  <2>4. QED
    BY <2>2, <2>3
<1>12. QED
  BY <1>5, <1>9, <1>10, <1>11 DEF Graph

LEMMA AddGraph ==
  ASSUME Graph(nodes, entry, maxL), Add
  PROVE  Graph(nodes', entry', maxL')
<1>1. PICK v \in Point, level \in 0 .. MaxLevel :
        LET joined == IF entry = 0 THEN {} ELSE 0 .. Smaller(level, maxL)
        IN  /\ \E sel \in Picks([l \in joined |-> Selected(v, On(l), Cap(l))]) :
                 LET list(l) == IF l \in joined THEN sel[l] ELSE {}
                     new == [v |-> v, neigh |-> [l \in 0 .. level |-> list(l)]]
                     edges == {e \in joined \X DOMAIN nodes : e[2] \in sel[e[1]]}
                 IN  \E back \in Picks([e \in edges |-> Pruned(e[2], e[1], new)]) :
                       nodes' = Append([i \in DOMAIN nodes |-> WithBack(i, back)], new)
            /\ entry' = EntryAfter(Len(nodes) + 1, level)
            /\ maxL' = Larger(level, maxL)
  BY DEF Add
<1> DEFINE joined == IF entry = 0 THEN {} ELSE 0 .. Smaller(level, maxL)
           Choice == [l \in joined |-> Selected(v, On(l), Cap(l))]
<1>2. PICK sel \in Picks(Choice) :
        LET list(l) == IF l \in joined THEN sel[l] ELSE {}
            new == [v |-> v, neigh |-> [l \in 0 .. level |-> list(l)]]
            edges == {e \in joined \X DOMAIN nodes : e[2] \in sel[e[1]]}
        IN  \E back \in Picks([e \in edges |-> Pruned(e[2], e[1], new)]) :
              nodes' = Append([i \in DOMAIN nodes |-> WithBack(i, back)], new)
  BY <1>1
<1> DEFINE new == [v |-> v, neigh |-> [l \in 0 .. level |-> IF l \in joined THEN sel[l] ELSE {}]]
           edges == {e \in joined \X DOMAIN nodes : e[2] \in sel[e[1]]}
           Prunes == [e \in edges |-> Pruned(e[2], e[1], new)]
<1>3. PICK back \in Picks(Prunes) :
        nodes' = Append([i \in DOMAIN nodes |-> WithBack(i, back)], new)
  BY <1>2
<1>4. nodes \in Seq(NodeType) /\ level \in Nat /\ maxL \in Nat
  BY BoundAssumption DEF Graph
<1>5. IsFiniteSet(joined)
  <2>1. Smaller(level, maxL) \in Int
    BY <1>4 DEF Smaller
  <2>2. IsFiniteSet(0 .. Smaller(level, maxL))
    BY <2>1, FS_Interval
  <2>3. QED
    BY <2>2, FS_EmptySet
<1> HIDE DEF joined
<1>6. \A l \in joined : sel[l] \in Selected(v, On(l), Cap(l))
  <2>1. DOMAIN Choice = joined /\ \A l \in joined : Choice[l] = Selected(v, On(l), Cap(l))
    OBVIOUS
  <2> HIDE DEF Choice
  <2>2. QED
    BY <1>5, <2>1, PicksTake
<1>7. ASSUME NEW l \in joined
      PROVE  sel[l] \subseteq On(l) /\ Cardinality(sel[l]) = Smaller(Cap(l), Cardinality(On(l)))
  <2>1. On(l) = OnOf(nodes, l)
    BY DEF On, OnOf, Levels
  <2>2. IsFiniteSet(On(l))
    BY <1>4, <2>1, LayersFinite
  <2>3. QED
    BY <1>6, <2>2, CapNat, SelectedAre
<1>8. IsFiniteSet(edges)
  <2>1. IsFiniteSet(joined \X DOMAIN nodes)
    BY <1>4, <1>5, LayersFinite, FS_Product
  <2>2. edges \in SUBSET (joined \X DOMAIN nodes)
    OBVIOUS
  <2> HIDE DEF edges
  <2>3. QED
    BY <2>1, <2>2, FS_Subset
<1>9. DOMAIN back = edges /\ \A e \in edges : back[e] \in Pruned(e[2], e[1], new)
  <2>1. DOMAIN Prunes = edges /\ \A e \in edges : Prunes[e] = Pruned(e[2], e[1], new)
    OBVIOUS
  <2> HIDE DEF Prunes, edges, new
  <2>2. QED
    BY <1>8, <2>1, PicksTake
<1>10. Joins(v, level, joined, sel, new, back, nodes')
  <2>1. /\ v \in Point /\ level \in 0 .. MaxLevel
        /\ joined = IF entry = 0 THEN {} ELSE 0 .. Smaller(level, maxL)
    BY DEF joined
  <2>2. new = [v |-> v, neigh |-> [l \in 0 .. level |-> IF l \in joined THEN sel[l] ELSE {}]]
    OBVIOUS
  <2>3. \A e \in DOMAIN back : back[e] \in Pruned(e[2], e[1], new)
    BY <1>9
  <2>4. DOMAIN back = {e \in joined \X DOMAIN nodes : e[2] \in sel[e[1]]}
    BY <1>9
  <2> HIDE DEF new, edges
  <2>5. QED
    BY <1>3, <1>7, <2>1, <2>2, <2>3, <2>4 DEF Joins
<1>11. Graph(nodes', EntryAfter(Len(nodes) + 1, level), Larger(level, maxL))
  <2> HIDE DEF new
  <2>1. QED
    BY <1>10, JoinedGraph
<1>12. QED
  BY <1>1, <1>11

\* What restore computes is the top layer of the graph.
LEMMA TopLevelIs ==
  ASSUME NEW ns, NEW e, NEW top \in Nat, Entered(ns, e, top)
  PROVE  TopLevel(ns) = top
<1> DEFINE S == {0} \cup UNION {DOMAIN ns[i].neigh : i \in DOMAIN ns}
<1>1. top \in S /\ \A x \in S : x \in 0 .. top
  <2>1. CASE ns = <<>>
    BY <2>1 DEF Entered
  <2>2. CASE ns # <<>>
    <3>1. /\ e \in DOMAIN ns /\ DOMAIN ns[e].neigh = 0 .. top
          /\ \A i \in DOMAIN ns : DOMAIN ns[i].neigh \subseteq 0 .. top
      BY <2>2 DEF Entered
    <3>2. top \in DOMAIN ns[e].neigh
      BY <3>1
    <3>3. QED
      BY <3>1, <3>2
  <2>3. QED
    BY <2>1, <2>2
<1> HIDE DEF S
<1>2. \A x \in S : top >= x
  BY <1>1
<1>3. ASSUME NEW x \in S, \A y \in S : x >= y PROVE x = top
  BY <1>1, <1>3
<1>4. Max(S) = top
  BY <1>1, <1>2, <1>3 DEF Max
<1>5. QED
  BY <1>4 DEF TopLevel, S

-----------------------------------------------------------------------------
(* Steps. *)

LEMMA InitIInv == Init => IInv
<1> SUFFICES ASSUME Init PROVE IInv
  OBVIOUS
<1>1. Graph(nodes, entry, maxL)
  <2>1. nodes = <<>> /\ entry = 0 /\ maxL = 0
    BY DEF Init
  <2>2. Full(nodes)
    BY <2>1 DEF Full
  <2>3. <<>> \in Seq(NodeType)
    BY EmptySeq
  <2>4. QED
    BY <2>1, <2>2, <2>3, BoundAssumption DEF Graph, Entered
<1>2. FileIsGraph
  BY DEF Init, FileIsGraph
<1>3. Searching
  BY DEF Init, Searching
<1>4. QED
  BY <1>1, <1>2, <1>3 DEF IInv

\* What a change of the graph between searches leaves.
LEMMA RestSearching ==
  ASSUME Searching, pc = "idle", UNCHANGED search, maxL' \in Nat
  PROVE  Searching'
<1>1. layer = 0 /\ layer' = 0 /\ 0 \in 0 .. maxL'
  BY DEF Searching, search
<1>2. QED
  BY <1>1 DEF Searching, search

LEMMA AddIInv == IInv /\ Add => IInv'
<1> SUFFICES ASSUME IInv, Add PROVE IInv'
  OBVIOUS
<1>1. Graph(nodes', entry', maxL')
  BY AddGraph DEF IInv
<1>2. FileIsGraph'
  BY DEF IInv, FileIsGraph, Add
<1>3. Searching'
  <2>1. maxL' \in Nat
    BY <1>1, BoundAssumption DEF Graph
  <2>2. QED
    BY <2>1, RestSearching DEF IInv, Add
<1>4. QED
  BY <1>1, <1>2, <1>3 DEF IInv

LEMMA SaveIInv == IInv /\ Save => IInv'
<1> SUFFICES ASSUME IInv, Save PROVE IInv'
  OBVIOUS
<1>1. UNCHANGED <<nodes, entry, maxL>> /\ UNCHANGED search
  BY DEF Save, graph
<1>2. Graph(nodes, entry, maxL)'
  BY <1>1 DEF IInv
<1>3. FileIsGraph'
  <2>1. file' # Nil => file' = [nodes |-> nodes, entry |-> entry]
    BY DEF Save
  <2>2. file' # Nil => Graph(file'.nodes, file'.entry, maxL) /\ maxL \in 0 .. MaxLevel
    BY <2>1 DEF IInv, Graph
  <2>3. QED
    BY <2>2 DEF FileIsGraph
<1>4. Searching'
  <2>1. maxL' \in Nat
    BY <1>2, BoundAssumption DEF Graph
  <2>2. QED
    BY <1>1, <2>1, RestSearching DEF IInv, Save
<1>5. QED
  BY <1>2, <1>3, <1>4 DEF IInv

LEMMA LoadIInv == IInv /\ Load => IInv'
<1> SUFFICES ASSUME IInv, Load PROVE IInv'
  OBVIOUS
<1>1. PICK top \in 0 .. MaxLevel : Graph(file.nodes, file.entry, top)
  BY DEF IInv, FileIsGraph, Load
<1>2. top \in Nat /\ Entered(file.nodes, file.entry, top)
  BY <1>1, BoundAssumption DEF Graph
<1>3. maxL' = top
  BY <1>2, TopLevelIs DEF Load
<1>4. Graph(nodes, entry, maxL)'
  BY <1>1, <1>3 DEF Load
<1>5. FileIsGraph'
  BY DEF IInv, FileIsGraph, Load
<1>6. Searching'
  BY <1>2, <1>3, RestSearching DEF IInv, Load
<1>7. QED
  BY <1>4, <1>5, <1>6 DEF IInv

\* A step of a search leaves the graph and the file.
LEMMA GraphStays ==
  ASSUME IInv, UNCHANGED <<graph, file>>
  PROVE  Graph(nodes, entry, maxL)' /\ FileIsGraph'
BY DEF IInv, FileIsGraph, graph

\* The neighbours of a node are nodes.
LEMMA NeighAre ==
  ASSUME Graph(nodes, entry, maxL), NEW i \in DOMAIN nodes, NEW l
  PROVE  Neigh(i, l) \subseteq DOMAIN nodes
BY DEF Graph, Full, OnOf, Neigh, Levels

LEMMA SearchIInv == IInv /\ Search => IInv'
<1> SUFFICES ASSUME IInv, Search PROVE IInv'
  OBVIOUS
<1>1. Graph(nodes, entry, maxL)' /\ FileIsGraph'
  BY GraphStays DEF Search
<1>2. entry \in DOMAIN nodes
  BY DEF Search, IInv, Graph, Entered
<1>3. maxL \in 0 .. maxL
  BY BoundAssumption DEF IInv, Graph
<1>4. Searching'
  <2>1. nodes' = nodes /\ maxL' = maxL
    BY DEF Search, graph
  <2>2. pc = "idle" /\ frontier' = {} /\ expanded' = {} /\ hits' = {}
    BY DEF IInv, Searching, Search
  <2>3. /\ pc' = "descend" /\ query' \in [q : Query, k : K]
        /\ cur' = entry /\ layer' = maxL
    BY DEF Search
  <2>4. QED
    BY <1>2, <1>3, <2>1, <2>2, <2>3 DEF Searching
<1>5. QED
  BY <1>1, <1>4 DEF IInv

LEMMA GreedyIInv == IInv /\ Greedy => IInv'
<1> SUFFICES ASSUME IInv, Greedy PROVE IInv'
  OBVIOUS
<1>1. Graph(nodes, entry, maxL)' /\ FileIsGraph'
  BY GraphStays DEF Greedy
<1>2. cur \in DOMAIN nodes /\ layer \in 0 .. maxL /\ maxL \in Nat
  BY BoundAssumption DEF Greedy, IInv, Searching, Graph
<1>3. cur' \in DOMAIN nodes /\ layer' \in 0 .. maxL
  <2>1. CASE Steps # {}
    <3>1. PICK T \in Closest(query.q, Steps, 1) : cur' \in T
      BY <2>1 DEF Greedy
    <3>2. T \subseteq Steps
      BY <3>1 DEF Closest, ClosestOf, kSubset
    <3>3. Steps \subseteq DOMAIN nodes
      BY <1>2, NeighAre DEF Steps, IInv
    <3>4. QED
      BY <1>2, <2>1, <3>1, <3>2, <3>3 DEF Greedy
  <2>2. CASE Steps = {}
    BY <1>2, <2>2 DEF Greedy
  <2>3. QED
    BY <2>1, <2>2
<1>4. Searching'
  <2>1. nodes' = nodes /\ maxL' = maxL
    BY DEF Greedy, graph
  <2>2. pc = "descend" /\ UNCHANGED <<pc, query, frontier, expanded, hits>>
    BY DEF Greedy
  <2>3. query \in [q : Query, k : K] /\ frontier = {} /\ expanded = {} /\ hits = {}
    BY <2>2 DEF IInv, Searching
  <2>4. QED
    BY <1>3, <2>1, <2>2, <2>3 DEF Searching
<1>5. QED
  BY <1>1, <1>4 DEF IInv

LEMMA DescendedIInv == IInv /\ Descended => IInv'
<1> SUFFICES ASSUME IInv, Descended PROVE IInv'
  OBVIOUS
<1>1. Graph(nodes, entry, maxL)' /\ FileIsGraph'
  BY GraphStays DEF Descended
<1>2. nodes' = nodes /\ maxL' = maxL
  BY DEF Descended, graph
<1>3. /\ pc = "descend" /\ pc' = "expand" /\ frontier' = {cur} /\ expanded' = {}
      /\ UNCHANGED <<query, cur, layer, hits>>
  BY DEF Descended
<1>4. /\ query \in [q : Query, k : K] /\ cur \in DOMAIN nodes
      /\ layer \in 0 .. maxL /\ hits = {}
  BY <1>3 DEF IInv, Searching
<1>5. Around'
  BY <1>2, <1>3, <1>4 DEF Around
<1>6. Searching'
  BY <1>2, <1>3, <1>4, <1>5 DEF Searching
<1>7. QED
  BY <1>1, <1>6 DEF IInv

LEMMA ExpandIInv == IInv /\ Expand => IInv'
<1> SUFFICES ASSUME IInv, Expand PROVE IInv'
  OBVIOUS
<1>1. Graph(nodes, entry, maxL)' /\ FileIsGraph'
  BY GraphStays DEF Expand
<1>2. nodes' = nodes /\ maxL' = maxL
  BY DEF Expand, graph
<1>3. pc = "expand" /\ UNCHANGED <<pc, query, cur, layer, hits>>
  BY DEF Expand
<1>4. /\ query \in [q : Query, k : K] /\ cur \in DOMAIN nodes
      /\ layer \in 0 .. maxL /\ hits = {} /\ Around
  BY <1>3 DEF IInv, Searching
<1>5. PICK c \in frontier :
        /\ expanded' = expanded \cup {c}
        /\ frontier' = (frontier \cup Neigh(c, 0)) \ expanded'
  BY DEF Expand, Closest, ClosestOf, kSubset
<1>6. Neigh(c, 0) \subseteq DOMAIN nodes
  BY <1>4, NeighAre DEF IInv, Around
<1>7. \A e : Neigh(e, 0)' = Neigh(e, 0)
  BY <1>2 DEF Neigh, Levels
<1>8. Around'
  <2>1. frontier' \cup expanded' = frontier \cup expanded \cup Neigh(c, 0)
    BY <1>5
  <2>2. frontier' \cap expanded' = {}
    BY <1>5
  <2>3. (frontier \cup expanded) \cup Neigh(c, 0) \subseteq DOMAIN nodes
    BY <1>4, <1>6 DEF Around
  <2>4. \A e \in expanded' : Neigh(e, 0) \subseteq frontier' \cup expanded'
    BY <1>4, <1>5, <2>1 DEF Around
  <2>5. cur' \in frontier' \cup expanded'
    BY <1>3, <1>4, <2>1 DEF Around
  <2>6. QED
    BY <1>2, <1>7, <2>1, <2>2, <2>3, <2>4, <2>5 DEF Around
<1>9. Searching'
  BY <1>2, <1>3, <1>4, <1>8 DEF Searching
<1>10. QED
  BY <1>1, <1>9 DEF IInv

\* The end of an expansion: what is left in the frontier is no nearer than
\* what was expanded, by the next node, which is no nearer than the worst.
LEMMA FinishStops ==
  ASSUME IInv, Finish
  PROVE  /\ \A j \in frontier : \A e \in expanded : ~Nearer(query.q, j, e)
         /\ frontier = {} \/ Cardinality(expanded) >= query.k
<1>1. CASE frontier = {}
  BY <1>1
<1>2. CASE frontier # {}
  <2>1. PICK T \in Closest(query.q, frontier, 1) : \A c \in T : Enough(c)
    BY <1>2 DEF Finish
  <2>2. Around /\ query \in [q : Query, k : K] /\ nodes \in Seq(NodeType)
    BY DEF IInv, Searching, Finish, Graph
  <2>3. frontier \in SUBSET DOMAIN nodes /\ expanded \in SUBSET DOMAIN nodes
    BY <2>2 DEF Around
  <2>4. IsFiniteSet(frontier)
    BY <2>2, <2>3, LayersFinite, FS_Subset
  <2>5. IsFiniteSet(expanded)
    BY <2>2, <2>3, LayersFinite, FS_Subset
  <2>6. /\ T \subseteq frontier /\ Cardinality(T) = Smaller(1, Cardinality(frontier))
        /\ \A i \in T, j \in frontier \ T : ~NearerOf(nodes, query.q, j, i)
    BY <2>1, <2>4, ClosestIs DEF Closest
  <2>7. Cardinality(frontier) \in Nat /\ Cardinality(frontier) # 0
    BY <1>2, <2>4, FS_CardinalityType, FS_EmptySet
  <2>8. Cardinality(T) = 1
    BY <2>6, <2>7 DEF Smaller
  <2>9. IsFiniteSet(T)
    BY <2>4, <2>6, FS_Subset
  <2>10. PICK c : T = {c}
    BY <2>8, <2>9, FS_Singleton
  <2>11. /\ c \in frontier /\ Enough(c)
         /\ \A j \in frontier : j # c => ~Nearer(query.q, j, c)
    BY <2>1, <2>6, <2>10 DEF Nearer
  <2>12. \A i \in DOMAIN nodes : Dist[query.q, nodes[i].v] \in Int
    BY <2>2, LayersOf, DistAssumption
  <2>13. ASSUME NEW j \in frontier, NEW e \in expanded PROVE ~Nearer(query.q, j, e)
    <3>1. ~Nearer(query.q, c, e)
      BY <2>11 DEF Enough
    <3>2. CASE j = c
      BY <3>1, <3>2
    <3>3. CASE j # c
      <4>1. ~Nearer(query.q, j, c)
        BY <2>11, <3>3
      <4>2. /\ Dist[query.q, nodes[j].v] \in Int /\ Dist[query.q, nodes[c].v] \in Int
            /\ Dist[query.q, nodes[e].v] \in Int
        BY <2>3, <2>11, <2>12
      <4>3. QED
        BY <3>1, <4>1, <4>2, BetterOrder DEF Nearer, NearerOf
    <3>4. QED
      BY <3>2, <3>3
  <2>14. Cardinality(expanded) >= query.k
    <3>1. Cardinality(expanded) >= Ef /\ Cardinality(expanded) \in Nat
      BY <2>5, <2>11, FS_CardinalityType DEF Enough
    <3>2. query.k \in Nat /\ EfSearch \in Nat
      BY <2>2, SearchAssumption
    <3>3. Ef >= query.k /\ Ef \in Nat
      BY <3>2 DEF Ef, Larger
    <3>4. QED
      BY <3>1, <3>2, <3>3
  <2>15. QED
    BY <2>13, <2>14
<1>3. QED
  BY <1>1, <1>2

LEMMA FinishIInv == IInv /\ Finish => IInv'
<1> SUFFICES ASSUME IInv, Finish PROVE IInv'
  OBVIOUS
<1>1. Graph(nodes, entry, maxL)' /\ FileIsGraph'
  BY GraphStays DEF Finish
<1>2. nodes' = nodes /\ maxL' = maxL
  BY DEF Finish, graph
<1>3. pc = "expand" /\ pc' = "done" /\ UNCHANGED <<query, cur, layer, frontier, expanded>>
  BY DEF Finish
<1>4. /\ query \in [q : Query, k : K] /\ cur \in DOMAIN nodes
      /\ layer \in 0 .. maxL /\ Around
  BY <1>3 DEF IInv, Searching
<1>5. Around'
  BY <1>2, <1>3, <1>4 DEF Around, Neigh, Levels
<1>6. Stopped'
  <2>1. hits' \in Closest(query.q, expanded, query.k)
    BY DEF Finish
  <2>2. /\ \A j \in frontier : \A e \in expanded : ~Nearer(query.q, j, e)
        /\ frontier = {} \/ Cardinality(expanded) >= query.k
    BY FinishStops
  <2>3. QED
    BY <1>2, <1>3, <2>1, <2>2 DEF Stopped, Nearer, Closest
<1>7. Searching'
  BY <1>2, <1>3, <1>4, <1>5, <1>6 DEF Searching
<1>8. QED
  BY <1>1, <1>7 DEF IInv

LEMMA ReturnIInv == IInv /\ Return => IInv'
<1> SUFFICES ASSUME IInv, Return PROVE IInv'
  OBVIOUS
<1>1. Graph(nodes, entry, maxL)' /\ FileIsGraph'
  BY GraphStays DEF Return
<1>2. maxL' \in Nat
  BY <1>1, BoundAssumption DEF Graph
<1>3. Searching'
  BY <1>2 DEF Return, Searching
<1>4. QED
  BY <1>1, <1>3 DEF IInv

LEMMA StutterIInv == IInv /\ UNCHANGED vars => IInv'
<1> SUFFICES ASSUME IInv, UNCHANGED vars PROVE IInv'
  OBVIOUS
<1>1. Graph(nodes, entry, maxL)' /\ FileIsGraph'
  BY GraphStays DEF vars
<1>2. UNCHANGED <<nodes, maxL>> /\ UNCHANGED search
  BY DEF vars, graph
<1>3. Searching'
  BY <1>2 DEF IInv, Searching, Around, Stopped, Neigh, Levels, Nearer, Closest, search
<1>4. QED
  BY <1>1, <1>3 DEF IInv

LEMMA NextIInv == IInv /\ [Next]_vars => IInv'
<1> SUFFICES ASSUME IInv, [Next]_vars PROVE IInv'
  OBVIOUS
<1>1. CASE Add
  BY <1>1, AddIInv
<1>2. CASE Save
  BY <1>2, SaveIInv
<1>3. CASE Load
  BY <1>3, LoadIInv
<1>4. CASE Search
  BY <1>4, SearchIInv
<1>5. CASE Greedy
  BY <1>5, GreedyIInv
<1>6. CASE Descended
  BY <1>6, DescendedIInv
<1>7. CASE Expand
  BY <1>7, ExpandIInv
<1>8. CASE Finish
  BY <1>8, FinishIInv
<1>9. CASE Return
  BY <1>9, ReturnIInv
<1>10. CASE UNCHANGED vars
  BY <1>10, StutterIInv
<1>11. QED
  BY <1>1, <1>2, <1>3, <1>4, <1>5, <1>6, <1>7, <1>8, <1>9, <1>10 DEF Next, SearchStep

\* The graph, its file and the search in progress satisfy the invariant, under
\* Add, Search, Save and Load.
THEOREM GraphInv == Spec => []IInv
<1>1. Init => IInv
  BY InitIInv
<1>2. IInv /\ [Next]_vars => IInv'
  BY NextIInv
<1>3. QED
  BY <1>1, <1>2, PTL DEF Spec

-----------------------------------------------------------------------------
(* What follows. *)

LEMMA GraphIsTyped ==
  ASSUME NEW ns, NEW e, NEW top, Graph(ns, e, top)
  PROVE  GraphTyped(ns, e)
<1>1. ns \in Seq(NodeType) /\ Len(ns) \in Nat /\ DOMAIN ns = 1 .. Len(ns)
  BY LenProperties DEF Graph
<1>2. ASSUME NEW i \in DOMAIN ns
      PROVE  /\ ns[i].v \in Point
             /\ DOMAIN ns[i].neigh \in {0 .. l : l \in 0 .. MaxLevel}
             /\ \A l \in DOMAIN ns[i].neigh : ns[i].neigh[l] \subseteq DOMAIN ns
  BY <1>1, LayersOf DEF Graph, Full, OnOf
<1>3. e \in 0 .. Len(ns)
  BY <1>1 DEF Graph, Entered
<1>4. QED
  BY <1>2, <1>3 DEF GraphTyped

LEMMA InvEntry == IInv => EntryIsTop
<1> SUFFICES ASSUME IInv, nodes # <<>>
             PROVE  maxL \in Levels(entry) /\ \A i \in DOMAIN nodes : Levels(i) \subseteq 0 .. maxL
  BY DEF EntryIsTop
<1>1. maxL \in Nat
  BY BoundAssumption DEF IInv, Graph
<1>2. QED
  BY <1>1 DEF IInv, Graph, Entered, Levels

LEMMA InvType == IInv => TypeOK
<1> SUFFICES ASSUME IInv PROVE TypeOK
  OBVIOUS
<1>1. DOMAIN nodes = 1 .. Len(nodes) /\ Len(nodes) \in Nat
  BY LenProperties DEF IInv, Graph
<1>2. GraphTyped(nodes, entry)
  BY GraphIsTyped DEF IInv
<1>3. file # Nil => GraphTyped(file.nodes, file.entry)
  BY GraphIsTyped DEF IInv, FileIsGraph
<1>4. maxL \in 0 .. MaxLevel
  BY DEF IInv, Graph
<1>5. /\ pc \in {"idle", "descend", "expand", "done"}
      /\ query \in [q : Query, k : K] \cup {Nil} /\ layer \in 0 .. maxL
  BY DEF IInv, Searching
<1>6. cur \in 0 .. Len(nodes)
  <2>1. cur = 0 \/ cur \in DOMAIN nodes
    BY DEF IInv, Searching
  <2>2. QED
    BY <1>1, <2>1
<1>7. frontier \cup expanded \subseteq DOMAIN nodes
  BY <1>5 DEF IInv, Searching, Around
<1>8. hits \subseteq DOMAIN nodes
  <2>1. CASE pc = "done"
    <3>1. hits \subseteq expanded
      BY <2>1 DEF IInv, Searching, Stopped, Closest, ClosestOf, kSubset
    <3>2. QED
      BY <1>7, <3>1
  <2>2. CASE pc # "done"
    BY <2>2 DEF IInv, Searching
  <2>3. QED
    BY <2>1, <2>2
<1>9. EntryIsTop
  BY InvEntry
<1>10. QED
  BY <1>2, <1>3, <1>4, <1>5, <1>6, <1>7, <1>8, <1>9 DEF TypeOK

LEMMA InvFull == IInv => FullDegree
BY DEF IInv, Graph, Full, FullDegree, Levels, Neigh, On, OnOf

\* A node's list on layer 0 has all the others, or as many as its cap.
LEMMA Reached ==
  ASSUME Graph(nodes, entry, maxL), Around, NEW e \in expanded
  PROVE  /\ Neigh(e, 0) \subseteq (frontier \cup expanded) \ {e}
         /\ Neigh(e, 0) \subseteq DOMAIN nodes \ {e}
         /\ Cardinality(Neigh(e, 0)) = Smaller(Cap(0), Len(nodes) - 1)
<1>1. /\ nodes \in Seq(NodeType) /\ e \in DOMAIN nodes
      /\ Cardinality(DOMAIN nodes) = Len(nodes)
  BY LayersFinite DEF Graph, Around
<1>2. \A i \in DOMAIN nodes : 0 \in DOMAIN nodes[i].neigh
  <2>1. ASSUME NEW i \in DOMAIN nodes PROVE 0 \in DOMAIN nodes[i].neigh
    <3>1. PICK l \in 0 .. MaxLevel : DOMAIN nodes[i].neigh = 0 .. l
      BY <1>1, LayersOf
    <3>2. QED
      BY <3>1, BoundAssumption
  <2>2. QED
    BY <2>1
<1>3. OnOf(nodes, 0) = DOMAIN nodes
  BY <1>2 DEF OnOf
<1>4. Neigh(e, 0) = nodes[e].neigh[0]
  BY <1>1, <1>2 DEF Neigh, Levels
<1>5. /\ nodes[e].neigh[0] \subseteq DOMAIN nodes \ {e}
      /\ Cardinality(nodes[e].neigh[0]) = Smaller(Cap(0), Cardinality(DOMAIN nodes) - 1)
  BY <1>1, <1>2, <1>3 DEF Graph, Full
<1>6. QED
  BY <1>1, <1>4, <1>5 DEF Around

\* The state at the end of a search, with what the two results need.
LEMMA DoneIs ==
  ASSUME IInv, pc = "done"
  PROVE  /\ Graph(nodes, entry, maxL) /\ Around /\ Stopped
         /\ nodes \in Seq(NodeType) /\ Len(nodes) \in Nat
         /\ IsFiniteSet(DOMAIN nodes) /\ Cardinality(DOMAIN nodes) = Len(nodes)
         /\ IsFiniteSet(expanded) /\ Cardinality(expanded) \in Nat
         /\ Cardinality(expanded) <= Len(nodes)
         /\ query \in [q : Query, k : K] /\ query.k \in Nat \ {0}
         /\ \E e \in expanded : TRUE
<1>1. Graph(nodes, entry, maxL) /\ Around /\ Stopped /\ query \in [q : Query, k : K]
  BY DEF IInv, Searching
<1>2. query.k \in Nat \ {0}
  BY <1>1, SearchAssumption
<1>3. /\ nodes \in Seq(NodeType) /\ Len(nodes) \in Nat
      /\ IsFiniteSet(DOMAIN nodes) /\ Cardinality(DOMAIN nodes) = Len(nodes)
  BY <1>1, LayersFinite DEF Graph
<1>4. expanded \in SUBSET DOMAIN nodes
  BY <1>1 DEF Around
<1>5. /\ IsFiniteSet(expanded) /\ Cardinality(expanded) \in Nat
      /\ Cardinality(expanded) <= Len(nodes)
  BY <1>3, <1>4, FS_Subset, FS_CardinalityType
<1>6. expanded # {}
  <2>1. CASE frontier = {}
    BY <1>1, <2>1 DEF Around
  <2>2. CASE Cardinality(expanded) >= query.k
    BY <1>2, <2>2, FS_EmptySet
  <2>3. QED
    BY <1>1, <2>1, <2>2 DEF Stopped
<1>7. QED
  BY <1>1, <1>2, <1>3, <1>5, <1>6

LEMMA InvExact == IInv => SmallIsExact
<1> SUFFICES ASSUME IInv, pc = "done", Len(nodes) <= Cap(0) + 1
             PROVE  hits \in Closest(query.q, DOMAIN nodes, query.k)
  BY DEF SmallIsExact
<1>1. Cap(0) \in Nat
  BY CapNat
<1>2. PICK e \in expanded : TRUE
  BY DoneIs
<1>3. /\ Neigh(e, 0) \subseteq (frontier \cup expanded) \ {e}
      /\ Neigh(e, 0) \subseteq DOMAIN nodes \ {e}
      /\ Cardinality(Neigh(e, 0)) = Smaller(Cap(0), Len(nodes) - 1)
  BY DoneIs, Reached
<1>4. e \in DOMAIN nodes /\ frontier \cup expanded \subseteq DOMAIN nodes
  BY DoneIs DEF Around
<1>5. Neigh(e, 0) = DOMAIN nodes \ {e}
  <2>1. IsFiniteSet(DOMAIN nodes \ {e}) /\ Cardinality(DOMAIN nodes \ {e}) = Len(nodes) - 1
    BY <1>4, DoneIs, FS_RemoveElement
  <2>2. Smaller(Cap(0), Len(nodes) - 1) = Len(nodes) - 1
    BY <1>1, DoneIs DEF Smaller
  <2>3. QED
    BY <1>3, <2>1, <2>2, FS_Subset
<1>6. frontier \cup expanded = DOMAIN nodes
  BY <1>3, <1>4, <1>5
<1>7. /\ hits \subseteq expanded
      /\ Cardinality(hits) = Smaller(query.k, Cardinality(expanded))
      /\ \A i \in hits, j \in expanded \ hits : ~Nearer(query.q, j, i)
  <2>1. hits \in ClosestOf(nodes, query.q, expanded, query.k)
    BY DoneIs DEF Stopped, Closest
  <2>2. QED
    BY <2>1, DoneIs, ClosestIs DEF Nearer
<1>8. Cardinality(hits) = Smaller(query.k, Cardinality(DOMAIN nodes))
  <2>1. CASE frontier = {}
    BY <1>6, <1>7, <2>1
  <2>2. CASE Cardinality(expanded) >= query.k
    BY <1>7, <2>2, DoneIs DEF Smaller
  <2>3. QED
    BY <2>1, <2>2, DoneIs DEF Stopped
<1>9. \A i \in hits, j \in DOMAIN nodes \ hits : ~Nearer(query.q, j, i)
  BY <1>6, <1>7, DoneIs DEF Stopped
<1>10. QED
  BY <1>4, <1>7, <1>8, <1>9 DEF Closest, ClosestOf, kSubset, Nearer

LEMMA InvHits == IInv => HitsAreLocallyBest
<1> SUFFICES ASSUME IInv, pc = "done"
             PROVE  /\ Cardinality(hits) >= Smaller(query.k, Smaller(Len(nodes), Cap(0) + 1))
                    /\ \A h, g \in hits : \A i \in Neigh(h, 0) \ hits : ~Nearer(query.q, i, g)
  BY DEF HitsAreLocallyBest
<1>1. Cap(0) \in Nat
  BY CapNat
<1>2. /\ hits \subseteq expanded
      /\ Cardinality(hits) = Smaller(query.k, Cardinality(expanded))
      /\ \A i \in hits, j \in expanded \ hits : ~Nearer(query.q, j, i)
  <2>1. hits \in ClosestOf(nodes, query.q, expanded, query.k)
    BY DoneIs DEF Stopped, Closest
  <2>2. QED
    BY <2>1, DoneIs, ClosestIs DEF Nearer
<1>3. Cardinality(hits) >= Smaller(query.k, Smaller(Len(nodes), Cap(0) + 1))
  <2>1. CASE Cardinality(expanded) >= query.k
    BY <1>1, <1>2, <2>1, DoneIs DEF Smaller
  <2>2. CASE frontier = {}
    <3>1. PICK e \in expanded : TRUE
      BY DoneIs
    <3>2. /\ Neigh(e, 0) \subseteq (frontier \cup expanded) \ {e}
          /\ Cardinality(Neigh(e, 0)) = Smaller(Cap(0), Len(nodes) - 1)
      BY DoneIs, Reached
    <3>3. /\ IsFiniteSet(expanded \ {e})
          /\ Cardinality(expanded \ {e}) = Cardinality(expanded) - 1
      BY DoneIs, FS_RemoveElement
    <3>4. Neigh(e, 0) \in SUBSET (expanded \ {e})
      BY <2>2, <3>2
    <3>5. Smaller(Cap(0), Len(nodes) - 1) <= Cardinality(expanded) - 1
      BY <3>2, <3>3, <3>4, FS_Subset
    <3>6. QED
      BY <1>1, <1>2, <3>5, DoneIs DEF Smaller
  <2>3. QED
    BY <2>1, <2>2, DoneIs DEF Stopped
<1>4. ASSUME NEW h \in hits, NEW g \in hits, NEW i \in Neigh(h, 0) \ hits
      PROVE  ~Nearer(query.q, i, g)
  <2>1. i \in frontier \cup expanded
    BY <1>2, DoneIs DEF Around
  <2>2. QED
    BY <1>2, <2>1, DoneIs DEF Stopped
<1>5. QED
  BY <1>3, <1>4

\* The variables of an index, of its file and of its search keep their types,
\* for any points, integer scores, M, ef, k and layers: lists name nodes, in
\* memory and in the file, the entry is on top, and a search never leaves them.
THEOREM TypeCorrect == Spec => []TypeOK
<1>1. IInv => TypeOK
  BY InvType
<1>2. QED
  BY <1>1, GraphInv, PTL

\* Searches start at a node of the top layer, after any insertions, saves and
\* loads (Add and Load keep entry and maxLayer together).
THEOREM EntryStaysTop == Spec => []EntryIsTop
<1>1. IInv => EntryIsTop
  BY InvEntry
<1>2. QED
  BY <1>1, GraphInv, PTL

\* Every neighbour list is as long as its cap and its layer allow, however
\* scores tie and whatever was pruned (Add, selectNeighborsHeuristic and
\* selectClosest).
THEOREM DegreeStaysFull == Spec => []FullDegree
<1>1. IInv => FullDegree
  BY InvFull
<1>2. QED
  BY <1>1, GraphInv, PTL

\* In a graph that is not larger than a list and one, a search finds the
\* nearest nodes, whatever ef is (greedy and bestFirst).
THEOREM SmallSearchIsExact == Spec => []SmallIsExact
<1>1. IInv => SmallIsExact
  BY InvExact
<1>2. QED
  BY <1>1, GraphInv, PTL

\* A search in any graph returns as many nodes as a full list promises, and
\* leaves out no neighbour of a hit that is nearer than a hit (bestFirst).
THEOREM SearchIsLocallyBest == Spec => []HitsAreLocallyBest
<1>1. IInv => HitsAreLocallyBest
  BY InvHits
<1>2. QED
  BY <1>1, GraphInv, PTL
=============================================================================
