-------------------------------- MODULE HNSW --------------------------------
(***************************************************************************)
(* pkg/hnsw: a layered graph over vectors, built by exact selection and    *)
(* pruning, searched by greedy descent and best-first expansion.           *)
(*                                                                         *)
(* A node is known by its position; adding an id that is present, or an    *)
(* empty vector, changes nothing and is left out.  A neighbour list is a   *)
(* set: sort.Slice is not stable, so where scores tie the order of a list  *)
(* is arbitrary.  Levels come from the random generator: any number up to  *)
(* a bound.  The index has no lock and one user at a time; each round of a *)
(* search's loops is a step.                                               *)
(***************************************************************************)
EXTENDS Integers, SequencesExt

CONSTANTS
  Point,     \* vectors added
  Query,     \* vectors searched for
  Dist,      \* score of two vectors under the index's metric
  Ascending, \* a smaller score is better
  M,         \* neighbours per node above layer 0; layer 0 has twice as many
  EfSearch,  \* WithEfSearch
  K,         \* values of Search's k
  MaxLevel,  \* bound: layer
  MaxSame,   \* bound: nodes with one vector
  MaxSize,   \* bound: nodes and neighbour lists, one for each layer of each node
  Nil

\* With M = 1 the levels have no finite scale and Add panics.
ASSUME MAssumption == M \in Nat /\ M >= 2
\* Scores are ordered: NaN, which similarity.go can give for infinite or huge
\* components and with which no comparison holds, is left out.
ASSUME DistAssumption == Dist \in [(Point \cup Query) \X Point -> Int] /\ Ascending \in BOOLEAN
ASSUME SearchAssumption == EfSearch \in Nat \ {0} /\ K \subseteq Nat \ {0}
ASSUME BoundAssumption == {MaxLevel, MaxSame, MaxSize} \subseteq Nat

VARIABLES
  nodes, \* node -> [v, neigh], where neigh: layer -> nodes
  entry, \* the node searches start from, 0 for none
  maxL,  \* the layer they start on
  file,  \* what Load would decode from the index's file, or Nil
  pc,    \* "idle", "descend", "expand" or "done"
  query, \* [q, k] of the running search, or Nil
  cur, layer,         \* where the descent is
  frontier, expanded, \* nodes bestFirst has enqueued and expanded
  hits   \* nodes the search returns

graph == <<nodes, entry, maxL>>
search == <<pc, query, cur, layer, frontier, expanded, hits>>
vars == <<graph, file, search>>

Smaller(a, b) == IF a < b THEN a ELSE b
Larger(a, b) == IF a < b THEN b ELSE a

Better(a, b) == IF Ascending THEN a < b ELSE a > b

\* Of the nodes ns, i is nearer to v than j is.
NearerOf(ns, v, i, j) == Better(Dist[v, ns[i].v], Dist[v, ns[j].v])
Nearer(v, i, j) == NearerOf(nodes, v, i, j)

Cap(l) == IF l = 0 THEN 2 * M ELSE M

Levels(i) == DOMAIN nodes[i].neigh
On(l) == {i \in DOMAIN nodes : l \in Levels(i)}
Neigh(i, l) == IF l \in Levels(i) THEN nodes[i].neigh[l] ELSE {}
Size == Len(nodes) + MapThenSumSet(LAMBDA i : Cardinality(Levels(i)), DOMAIN nodes)

\* The m nodes of S nearest to v, in every way to break ties.
ClosestOf(ns, v, S, m) ==
  {T \in kSubset(Smaller(m, Cardinality(S)), S) :
     \A i \in T, j \in S \ T : ~NearerOf(ns, v, j, i)}
Closest(v, S, m) == ClosestOf(nodes, v, S, m)

-----------------------------------------------------------------------------
(* Insertion. *)

\* The nodes of S in order of their scores.
Orders(v, S) ==
  {r \in SetToSeqs(S) : \A x \in DOMAIN r : \A y \in 1 .. x - 1 : ~Nearer(v, r[x], r[y])}

\* Of the nodes in order r, at most m that are no nearer to one taken before
\* than to v.
Diverse(v, r, m) ==
  LET apart(i, T) ==
        \A p \in T : ~Better(Dist[nodes[i].v, nodes[p].v], Dist[v, nodes[i].v])
      kept(i, T) == IF Cardinality(T) < m /\ apart(i, T) THEN T \cup {i} ELSE T
      of[x \in 0 .. Len(r)] == IF x = 0 THEN {} ELSE kept(r[x], of[x - 1])
  IN  of[Len(r)]

\* Mutant of Heuristic: slots that are left are not filled.
HeuristicUnfilled(v, r, m) == Diverse(v, r, m)

\* The slots that are left go to the closest of the others.
Heuristic(v, r, m) ==
  LET T == Diverse(v, r, m)
      others == {x \in DOMAIN r : r[x] \notin T}
      closer(x) == {y \in others : y < x}
  IN  T \cup {r[x] : x \in {y \in others : Cardinality(closer(y)) < m - Cardinality(T)}}

Selected(v, S, m) == {Heuristic(v, r, m) : r \in Orders(v, S)}

\* Ways to take an element of each set.
Picks(C) ==
  LET with(f, x, y) == [z \in {x} \cup DOMAIN f |-> IF z = x THEN y ELSE f[z]]
  IN  FoldSet(LAMBDA x, F : {with(f, x, y) : f \in F, y \in C[x]}, {<<>>}, DOMAIN C)

\* Node i after an insertion: back holds the list of every <<layer, neighbour>>
\* of the new node.
WithBack(i, back) ==
  [nodes[i] EXCEPT !.neigh =
     [l \in DOMAIN @ |-> IF <<l, i>> \in DOMAIN back THEN back[l, i] ELSE @[l]]]

\* What neighbour i keeps on layer l when the node new is added to its list.
Pruned(i, l, new) ==
  ClosestOf(Append(nodes, new), nodes[i].v, Neigh(i, l) \cup {Len(nodes) + 1}, Cap(l))

\* Mutant of EntryAfter: a higher node does not become the entry.
EntryAfterFirst(n, level) == IF entry = 0 THEN n ELSE entry

EntryAfter(n, level) == IF entry = 0 \/ level > maxL THEN n ELSE entry

Add ==
  /\ pc = "idle"
  /\ \E v \in {p \in Point : Cardinality({i \in DOMAIN nodes : nodes[i].v = p}) < MaxSame},
        level \in {l \in 0 .. MaxLevel : l <= MaxSize - Size - 2} :
       LET joined == IF entry = 0 THEN {} ELSE 0 .. Smaller(level, maxL)
       IN  /\ \E sel \in Picks([l \in joined |-> Selected(v, On(l), Cap(l))]) :
              LET list(l) == IF l \in joined THEN sel[l] ELSE {}
                  new == [v |-> v, neigh |-> [l \in 0 .. level |-> list(l)]]
                  edges == {e \in joined \X DOMAIN nodes : e[2] \in sel[e[1]]}
              IN  \E back \in Picks([e \in edges |-> Pruned(e[2], e[1], new)]) :
                    nodes' = Append([i \in DOMAIN nodes |-> WithBack(i, back)], new)
           /\ entry' = EntryAfter(Len(nodes) + 1, level)
           /\ maxL' = Larger(level, maxL)
  /\ UNCHANGED <<file, search>>

-----------------------------------------------------------------------------
(* Files. *)

\* The file is truncated first, and a failure leaves nothing Load accepts.
Save ==
  /\ pc = "idle"
  /\ file' \in {Nil, [nodes |-> nodes, entry |-> entry]}
  /\ UNCHANGED <<graph, search>>

\* Mutant of TopLevel: the number of layers, not the highest one.
TopLevelCounted(ns) == Max({0} \cup {Cardinality(DOMAIN ns[i].neigh) : i \in DOMAIN ns})

\* restore takes the top layer from the lists, not from the file.
TopLevel(ns) == Max({0} \cup UNION {DOMAIN ns[i].neigh : i \in DOMAIN ns})

\* A file that does not decode or does not validate changes nothing.
Load ==
  /\ pc = "idle" /\ file # Nil
  /\ nodes' = file.nodes
  /\ entry' = file.entry
  /\ maxL' = TopLevel(file.nodes)
  /\ UNCHANGED <<file, search>>

-----------------------------------------------------------------------------
(* Search. *)

Search ==
  /\ pc = "idle" /\ nodes # <<>>
  /\ query' \in [q : Query, k : K]
  /\ pc' = "descend"
  /\ cur' = entry
  /\ layer' = maxL
  /\ UNCHANGED <<graph, file, frontier, expanded, hits>>

\* Mutant of Steps: a neighbour as near will do.
StepsToTied == {i \in Neigh(cur, layer) : ~Nearer(query.q, cur, i)}

\* Neighbours nearer to the query.
Steps == {i \in Neigh(cur, layer) : Nearer(query.q, i, cur)}

\* A round of greedy: to the nearest of them, or down a layer.
Greedy ==
  /\ pc = "descend" /\ layer > 0
  /\ \/ /\ Steps # {}
        /\ \E T \in Closest(query.q, Steps, 1) : cur' \in T
        /\ UNCHANGED layer
     \/ Steps = {} /\ layer' = layer - 1 /\ UNCHANGED cur
  /\ UNCHANGED <<graph, file, pc, query, frontier, expanded, hits>>

Descended ==
  /\ pc = "descend" /\ layer = 0
  /\ pc' = "expand"
  /\ frontier' = {cur}
  /\ expanded' = {}
  /\ UNCHANGED <<graph, file, query, cur, layer, hits>>

Ef == Larger(EfSearch, query.k)

\* Mutant of Enough: stops without looking at the next node.
EnoughFound(c) == Cardinality(expanded) >= Ef

\* Mutant of Enough: compares with the best.
EnoughByBest(c) ==
  /\ Cardinality(expanded) >= Ef
  /\ \E e \in expanded : ~Nearer(query.q, c, e)

\* The next node, c, is no better than the worst expanded.
Enough(c) ==
  /\ Cardinality(expanded) >= Ef
  /\ \A e \in expanded : ~Nearer(query.q, c, e)

\* A round of bestFirst.
Expand ==
  /\ pc = "expand"
  /\ \E T \in Closest(query.q, frontier, 1) : \E c \in T :
       /\ ~Enough(c)
       /\ expanded' = expanded \cup {c}
       /\ frontier' = (frontier \cup Neigh(c, 0)) \ expanded'
  /\ UNCHANGED <<graph, file, pc, query, cur, layer, hits>>

\* bestFirst sorts what it expanded, and Search returns the first k.
Finish ==
  /\ pc = "expand"
  /\ \/ frontier = {}
     \/ \E T \in Closest(query.q, frontier, 1) : \A c \in T : Enough(c)
  /\ hits' \in Closest(query.q, expanded, query.k)
  /\ pc' = "done"
  /\ UNCHANGED <<graph, file, query, cur, layer, frontier, expanded>>

Return ==
  /\ pc = "done"
  /\ pc' = "idle"
  /\ query' = Nil
  /\ cur' = 0 /\ layer' = 0
  /\ frontier' = {} /\ expanded' = {} /\ hits' = {}
  /\ UNCHANGED <<graph, file>>

-----------------------------------------------------------------------------
Init ==
  /\ nodes = <<>> /\ entry = 0 /\ maxL = 0
  /\ file = Nil
  /\ pc = "idle" /\ query = Nil
  /\ cur = 0 /\ layer = 0
  /\ frontier = {} /\ expanded = {} /\ hits = {}

SearchStep == Greedy \/ Descended \/ Expand \/ Finish \/ Return

Next == Add \/ Save \/ Load \/ Search \/ SearchStep

Spec == Init /\ [][Next]_vars /\ WF_vars(SearchStep)

-----------------------------------------------------------------------------
(* Properties. *)

\* Nodes with lists of each other on the layers they have, and an entry.
GraphTyped(ns, e) ==
  /\ \A i \in DOMAIN ns :
       /\ ns[i].v \in Point
       /\ DOMAIN ns[i].neigh \in {0 .. l : l \in 0 .. MaxLevel}
       /\ \A l \in DOMAIN ns[i].neigh : ns[i].neigh[l] \subseteq DOMAIN ns
  /\ e \in 0 .. Len(ns)

\* Searches start at a node of the highest layer there is, after any
\* insertions, saves and loads (Add, restore).  A part of TypeOK.
EntryIsTop ==
  nodes # <<>> => maxL \in Levels(entry) /\ \A i \in DOMAIN nodes : Levels(i) \subseteq 0 .. maxL

\* The index, its file and the search keep their types: no list, in memory or
\* in the file, names a node that is not there, and the entry is a node of the
\* top layer (Add, Load, Search).
TypeOK ==
  /\ GraphTyped(nodes, entry)
  /\ file # Nil => GraphTyped(file.nodes, file.entry)
  /\ maxL \in 0 .. MaxLevel
  /\ EntryIsTop
  /\ pc \in {"idle", "descend", "expand", "done"}
  /\ query \in [q : Query, k : K] \cup {Nil}
  /\ cur \in 0 .. Len(nodes) /\ layer \in 0 .. maxL
  /\ frontier \cup expanded \cup hits \subseteq DOMAIN nodes

\* No node ever loses degree to later insertions: on each of its layers it has
\* as many neighbours as the cap and the nodes of the layer allow, all of them
\* other nodes of that layer (Add, selectNeighborsHeuristic, selectClosest).
FullDegree ==
  \A i \in DOMAIN nodes : \A l \in Levels(i) :
    /\ Neigh(i, l) \subseteq On(l) \ {i}
    /\ Cardinality(Neigh(i, l)) = Smaller(Cap(l), Cardinality(On(l)) - 1)

\* While layer 0 is not pruned a search is exact, whatever EfSearch is, where
\* the descent ended and how scores tie (TestHNSWMatchesExactOnTinySet).
SmallIsExact ==
  pc = "done" /\ Len(nodes) <= Cap(0) + 1 => hits \in Closest(query.q, DOMAIN nodes, query.k)

\* A search returns as many nodes as it can be sure to reach, and no
\* neighbour of a hit that was left out is nearer to the query than a hit:
\* the expansion stops neither early nor in the middle of an improvement
\* (bestFirst).
HitsAreLocallyBest ==
  pc = "done" =>
    /\ Cardinality(hits) >= Smaller(query.k, Smaller(Len(nodes), Cap(0) + 1))
    /\ \A h, g \in hits : \A i \in Neigh(h, 0) \ hits : ~Nearer(query.q, i, g)

\* Every search returns: the descent makes no circles, ties or not (greedy).
SearchReturns == pc = "descend" ~> pc = "done"

\* A search can reach every node: the diverse selection "retains long-range
\* edges instead of collapsing to a local k-NN" (selectNeighborsHeuristic).
NoNodeStranded ==
  nodes # <<>> =>
    LET reach[n \in Nat] ==
          IF n = 0 THEN {entry}
          ELSE reach[n - 1] \cup UNION {Neigh(i, 0) : i \in reach[n - 1]}
    IN  reach[Len(nodes)] = DOMAIN nodes
=============================================================================
