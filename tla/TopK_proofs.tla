----------------------------- MODULE TopK_proofs -----------------------------
(***************************************************************************)
(* The sifts of a selector keep the worst row at the root of its heap, and *)
(* a search returns the nearest rows, for any number of rows, workers,     *)
(* scores and any k.                                                       *)
(*                                                                         *)
(* The root is the worst only between sifts; the invariant says what the   *)
(* heap is during one: every entry is no worse than the one above it, but  *)
(* for the entry at the position of the sift (AlmostUp, AlmostDown).       *)
(***************************************************************************)
EXTENDS TopK, TLAPS, SequenceTheorems, FiniteSetTheorems, WellFoundedInduction

\* Of entry i and the one above it.
Below(h, i) == ~Worse(h[i], h[i \div 2])

IsHeap(h) == \A i \in 2 .. Len(h) : Below(h, i)

\* The entries under p are no worse than the one above p.
Bridged(h, p) == \A i \in 2 .. Len(h) : i \div 2 = p /\ p > 1 => ~Worse(h[i], h[p \div 2])

\* Only the entry at p may be worse than the one above it.
AlmostUp(h, p) == (\A i \in 2 .. Len(h) : i # p => Below(h, i)) /\ Bridged(h, p)

\* Only the entry at p may be better than those under it.
AlmostDown(h, p) == (\A i \in 2 .. Len(h) : i \div 2 # p => Below(h, i)) /\ Bridged(h, p)

\* Every row in h has a number for a score.
Numbers(h) == \A i \in 1 .. Len(h) : h[i] \in Nat /\ score[h[i]] \in Int

\* Of a query: what the store holds and what is asked.
QueryType ==
  /\ n \in Nat /\ kept \subseteq 1 .. n /\ score \in [1 .. n -> Int \cup {NaN}]
  /\ asc \in BOOLEAN /\ k \in Int /\ procs \in Nat \ {0}

SelType ==
  /\ heap \in [Sel -> Seq(kept)]
  /\ pos \in [Sel -> Nat] /\ \A s \in Sel : pos[s] <= Len(heap[s])
  /\ upward \in [Sel -> BOOLEAN]
  /\ todo = [s \in Sel |-> todo[s]]

\* A selector with rows to consider has room for one.
HasRoom ==
  /\ pc \in {"select", "wait"} => k > 0 /\ n > 0
  /\ \A s \in Sel : s > 0 /\ todo[s] # <<>> => Span(s) # <<>>

Shape(s) ==
  ~KeepsNaN(s) =>
    /\ pos[s] = 0 => IsHeap(heap[s])
    /\ pos[s] > 0 /\ upward[s] => AlmostUp(heap[s], pos[s])
    /\ pos[s] > 0 /\ ~upward[s] => AlmostDown(heap[s], pos[s])

IInv ==
  /\ QueryType
  /\ SelType
  /\ HasRoom
  /\ \A s \in Sel : Shape(s)

-----------------------------------------------------------------------------
(* The order of rows. *)

LEMMA WorseIsOrder ==
  ASSUME QueryType, NEW h, Numbers(h)
  PROVE  \A i, j, l \in 1 .. Len(h) :
           /\ Worse(h[i], h[j]) => ~Worse(h[j], h[i])
           /\ ~Worse(h[i], h[j]) /\ ~Worse(h[j], h[l]) => ~Worse(h[i], h[l])
<1> SUFFICES ASSUME NEW i \in 1 .. Len(h), NEW j \in 1 .. Len(h), NEW l \in 1 .. Len(h)
             PROVE  /\ Worse(h[i], h[j]) => ~Worse(h[j], h[i])
                    /\ ~Worse(h[i], h[j]) /\ ~Worse(h[j], h[l]) => ~Worse(h[i], h[l])
  OBVIOUS
<1> DEFINE a == h[i]
           b == h[j]
           c == h[l]
<1>1. /\ a \in Nat /\ b \in Nat /\ c \in Nat
      /\ score[a] \in Int /\ score[b] \in Int /\ score[c] \in Int
  BY DEF Numbers
<1> HIDE DEF a, b, c
<1>2. \A x, y \in {a, b, c} :
        Worse(x, y) <=> IF score[x] = score[y] THEN x > y
                        ELSE IF asc THEN score[x] > score[y] ELSE score[x] < score[y]
  <2>1. \A x \in {a, b, c} : ~IsNaN(x)
    BY <1>1, ScoreAssumption DEF IsNaN
  <2>2. QED
    BY <2>1 DEF Worse
<1>3. asc \in BOOLEAN
  BY DEF QueryType
<1>4. (Worse(a, b) => ~Worse(b, a)) /\ (~Worse(a, b) /\ ~Worse(b, c) => ~Worse(a, c))
  <2>1. CASE asc
    BY <1>1, <1>2, <2>1
  <2>2. CASE ~asc
    BY <1>1, <1>2, <2>2
  <2>3. QED
    BY <2>1, <2>2
<1>5. QED
  BY <1>4 DEF a, b, c

\* A heap without NaN, and what is in it.
LEMMA CleanNumbers ==
  ASSUME QueryType, SelType, NEW s \in Sel, ~KeepsNaN(s)
  PROVE  Numbers(heap[s])
<1>1. heap[s] \in Seq(kept)
  BY DEF SelType
<1>2. ASSUME NEW i \in 1 .. Len(heap[s])
      PROVE  heap[s][i] \in Nat /\ score[heap[s][i]] \in Int
  <2>1. heap[s][i] \in 1 .. n
    <3>1. heap[s][i] \in kept
      BY <1>1, <1>2
    <3>2. QED
      BY <3>1 DEF QueryType
  <2>2. ~IsNaN(heap[s][i])
    BY <1>1, <1>2 DEF KeepsNaN
  <2>3. score[heap[s][i]] \in Int \cup {NaN}
    BY <2>1 DEF QueryType
  <2>4. QED
    BY <2>1, <2>2, <2>3 DEF IsNaN
<1>3. QED
  BY <1>2 DEF Numbers

-----------------------------------------------------------------------------
(* Heaps. *)

LEMMA Least ==
  ASSUME NEW T, T \subseteq Nat, T # {}
  PROVE  \E x \in T : \A y \in T : x <= y
<1>1. IsWellFoundedOn(OpToRel(<, Nat), Nat)
  BY NatLessThanWellFounded
<1>2. PICK x \in T : \A y \in T : <<y, x>> \notin OpToRel(<, Nat)
  BY <1>1, WFMin
<1>3. ASSUME NEW y \in T PROVE x <= y
  <2>1. ~(y < x)
    BY <1>2 DEF OpToRel
  <2>2. QED
    BY <2>1
<1>4. QED
  BY <1>3

\* The first entry worse than the root would be worse than the one above it.
LEMMA HeapRoot ==
  ASSUME QueryType, NEW h, Len(h) \in Nat, Numbers(h), IsHeap(h)
  PROVE  \A i \in 1 .. Len(h) : ~Worse(h[i], h[1])
<1> DEFINE T == {i \in 1 .. Len(h) : Worse(h[i], h[1])}
<1> SUFFICES ASSUME T # {} PROVE FALSE
  OBVIOUS
<1>1. PICK x \in T : \A y \in T : x <= y
  <2>1. T \subseteq Nat
    OBVIOUS
  <2> HIDE DEF T
  <2>2. QED
    BY <2>1, Least
<1>2. x \in 1 .. Len(h) /\ 1 \in 1 .. Len(h) /\ Worse(h[x], h[1])
  OBVIOUS
<1>3. x # 1
  BY <1>2, WorseIsOrder
<1>4. x \in 2 .. Len(h) /\ x \div 2 \in 1 .. Len(h) /\ x \div 2 < x
  BY <1>2, <1>3
<1>5. ~Worse(h[x \div 2], h[1])
  BY <1>1, <1>4
<1>6. ~Worse(h[x], h[x \div 2])
  BY <1>4 DEF IsHeap, Below
<1>7. QED
  BY <1>2, <1>4, <1>5, <1>6, WorseIsOrder

\* g is h with the entries at p and q exchanged.
Exchanged(g, h, p, q) ==
  /\ Len(g) = Len(h) /\ g[p] = h[q] /\ g[q] = h[p]
  /\ \A i \in 1 .. Len(h) : i # p /\ i # q => g[i] = h[i]

LEMMA RisesOne ==
  ASSUME QueryType, NEW h, Len(h) \in Nat, Numbers(h), NEW p \in 2 .. Len(h),
         AlmostUp(h, p), Worse(h[p], h[p \div 2]), NEW g, Exchanged(g, h, p, p \div 2)
  PROVE  AlmostUp(g, p \div 2)
<1> DEFINE q == p \div 2
<1>1. q \in 1 .. Len(h) /\ q < p /\ p \in 1 .. Len(h) /\ q # p
  OBVIOUS
<1>2. /\ Len(g) = Len(h) /\ g[p] = h[q] /\ g[q] = h[p]
      /\ \A i \in 1 .. Len(h) : i # p /\ i # q => g[i] = h[i]
  BY DEF Exchanged
<1>3. /\ \A i, j \in 1 .. Len(h) : Worse(h[i], h[j]) => ~Worse(h[j], h[i])
      /\ \A i, j, l \in 1 .. Len(h) :
           ~Worse(h[i], h[j]) /\ ~Worse(h[j], h[l]) => ~Worse(h[i], h[l])
  BY WorseIsOrder
<1>4. \A i \in 2 .. Len(h) : i # p => ~Worse(h[i], h[i \div 2])
  BY DEF AlmostUp, Below
<1>5. \A i \in 2 .. Len(h) : i \div 2 = p => ~Worse(h[i], h[q])
  BY <1>1 DEF AlmostUp, Bridged
<1>6. ASSUME NEW i \in 2 .. Len(h) PROVE i \in 1 .. Len(h) /\ i \div 2 \in 1 .. Len(h) /\ i \div 2 < i
  OBVIOUS
<1>7. ASSUME NEW i \in 2 .. Len(h), i # q PROVE ~Worse(g[i], g[i \div 2])
  <2>1. CASE i = p
    BY <1>1, <1>2, <1>3, <2>1
  <2>2. CASE i \div 2 = p
    BY <1>1, <1>2, <1>5, <1>6, <1>7, <2>2
  <2>3. CASE i # p /\ i \div 2 = q
    <3>1. g[i] = h[i] /\ g[i \div 2] = h[p]
      BY <1>2, <1>6, <1>7, <2>3
    <3>2. ~Worse(h[i], h[q]) /\ ~Worse(h[q], h[p])
      BY <1>1, <1>3, <1>4, <2>3
    <3>3. QED
      BY <1>1, <1>3, <1>6, <3>1, <3>2
  <2>4. CASE i # p /\ i \div 2 # p /\ i \div 2 # q
    <3>1. g[i] = h[i] /\ g[i \div 2] = h[i \div 2]
      BY <1>2, <1>6, <1>7, <2>4
    <3>2. QED
      BY <1>4, <2>4, <3>1
  <2>5. QED
    BY <2>1, <2>2, <2>3, <2>4
<1>8. ASSUME NEW i \in 2 .. Len(h), i \div 2 = q, q > 1 PROVE ~Worse(g[i], g[q \div 2])
  <2>1. q \div 2 \in 1 .. Len(h) /\ q \div 2 # p /\ q \div 2 # q /\ q \in 2 .. Len(h)
    BY <1>1, <1>8
  <2>2. g[q \div 2] = h[q \div 2] /\ ~Worse(h[q], h[q \div 2])
    BY <1>1, <1>2, <1>4, <2>1
  <2>3. CASE i = p
    BY <1>2, <2>2, <2>3
  <2>4. CASE i # p
    <3>1. g[i] = h[i] /\ ~Worse(h[i], h[q])
      BY <1>1, <1>2, <1>4, <1>6, <1>8, <2>4
    <3>2. QED
      BY <1>1, <1>3, <1>6, <2>1, <2>2, <3>1
  <2>5. QED
    BY <2>3, <2>4
<1>9. QED
  BY <1>2, <1>7, <1>8 DEF AlmostUp, Below, Bridged

LEMMA AppendedHeap ==
  ASSUME NEW h, NEW g, Len(h) \in Nat, Len(g) = Len(h) + 1,
         \A j \in 1 .. Len(h) : g[j] = h[j], IsHeap(h)
  PROVE  AlmostUp(g, Len(h) + 1)
<1>1. ASSUME NEW j \in 2 .. Len(g), j # Len(h) + 1 PROVE Below(g, j)
  <2>1. j \in 2 .. Len(h) /\ j \in 1 .. Len(h) /\ j \div 2 \in 1 .. Len(h)
    BY <1>1
  <2>2. g[j] = h[j] /\ g[j \div 2] = h[j \div 2]
    BY <2>1
  <2>3. QED
    BY <2>1, <2>2 DEF IsHeap, Below
<1>2. \A j \in 2 .. Len(g) : j \div 2 # Len(h) + 1
  OBVIOUS
<1>3. QED
  BY <1>1, <1>2 DEF AlmostUp, Bridged

LEMMA ReplacedRoot ==
  ASSUME NEW h, NEW g, Len(h) \in Nat, Len(g) = Len(h),
         \A j \in 2 .. Len(h) : g[j] = h[j], IsHeap(h)
  PROVE  AlmostDown(g, 1)
<1>1. ASSUME NEW j \in 2 .. Len(g), j \div 2 # 1 PROVE Below(g, j)
  <2>1. j \in 2 .. Len(h) /\ j \div 2 \in 2 .. Len(h)
    BY <1>1
  <2>2. g[j] = h[j] /\ g[j \div 2] = h[j \div 2]
    BY <2>1
  <2>3. QED
    BY <2>1, <2>2 DEF IsHeap, Below
<1>2. QED
  BY <1>1 DEF AlmostDown, Bridged

LEMMA RisesNoMore ==
  ASSUME NEW h, NEW p, AlmostUp(h, p), ~RisesAbove(h, p)
  PROVE  IsHeap(h)
<1> SUFFICES ASSUME NEW i \in 2 .. Len(h) PROVE Below(h, i)
  BY DEF IsHeap
<1>1. CASE i = p
  BY <1>1 DEF RisesAbove, Below
<1>2. CASE i # p
  BY <1>2 DEF AlmostUp
<1>3. QED
  BY <1>1, <1>2

LEMMA WorstOfIn ==
  ASSUME NEW h, Len(h) \in Nat, NEW p \in 1 .. Len(h)
  PROVE  WorstOf(h, p) \in 1 .. Len(h)
<1>1. WorstOf(h, p) \in {i \in {p, 2 * p, 2 * p + 1} : i = p \/ i <= Len(h)}
  BY DEF WorstOf
<1>2. QED
  BY <1>1

\* What siftDown finds under p.
LEMMA WorstOfIs ==
  ASSUME QueryType, NEW h, Len(h) \in Nat, Numbers(h), NEW p \in 1 .. Len(h)
  PROVE  LET w == WorstOf(h, p)
         IN  /\ w \in 1 .. Len(h) /\ (w = p \/ (w \div 2 = p /\ w > p))
             /\ w # p => Worse(h[w], h[p])
             /\ \A i \in 2 .. Len(h) : i \div 2 = p => ~Worse(h[i], h[w])
<1> DEFINE l == 2 * p
           r == 2 * p + 1
           v == IF l <= Len(h) /\ Worse(h[l], h[p]) THEN l ELSE p
           w == IF r <= Len(h) /\ Worse(h[r], h[v]) THEN r ELSE v
<1>1. WorstOf(h, p) = w
  BY DEF WorstOf
<1>2. /\ \A i, j \in 1 .. Len(h) : Worse(h[i], h[j]) => ~Worse(h[j], h[i])
      /\ \A i, j, m \in 1 .. Len(h) :
           ~Worse(h[i], h[j]) /\ ~Worse(h[j], h[m]) => ~Worse(h[i], h[m])
  BY WorseIsOrder
<1>3. /\ l \in Nat /\ r \in Nat /\ l > p /\ r > p /\ l # r /\ l \div 2 = p /\ r \div 2 = p
      /\ \A i \in 2 .. Len(h) : i \div 2 = p => i = l \/ i = r
  OBVIOUS
<1> HIDE DEF l, r
<1>4. v \in 1 .. Len(h) /\ (v = p \/ v = l)
  BY <1>3
<1>5. v # p => Worse(h[v], h[p])
  OBVIOUS
<1>6. l <= Len(h) => ~Worse(h[l], h[v])
  <2>1. l <= Len(h) => l \in 1 .. Len(h)
    BY <1>3
  <2>2. CASE l <= Len(h) /\ Worse(h[l], h[p])
    BY <1>2, <2>1, <2>2
  <2>3. CASE ~(l <= Len(h) /\ Worse(h[l], h[p]))
    BY <2>3
  <2>4. QED
    BY <2>2, <2>3
<1> HIDE DEF v
<1>7. CASE r <= Len(h) /\ Worse(h[r], h[v])
  <2>1. w = r /\ r \in 1 .. Len(h)
    BY <1>3, <1>7
  <2>2. Worse(h[r], h[p])
    <3>1. ~Worse(h[p], h[v])
      BY <1>2, <1>4, <1>5
    <3>2. ~Worse(h[r], h[p]) => ~Worse(h[r], h[v])
      BY <1>2, <1>4, <2>1, <3>1
    <3>3. QED
      BY <1>7, <3>2
  <2>3. ~Worse(h[v], h[r]) /\ ~Worse(h[r], h[r])
    BY <1>2, <1>4, <1>7, <2>1
  <2>4. l <= Len(h) => ~Worse(h[l], h[r])
    <3>1. l <= Len(h) => l \in 1 .. Len(h)
      BY <1>3
    <3>2. QED
      BY <1>2, <1>4, <1>6, <2>1, <2>3, <3>1
  <2>5. \A i \in 2 .. Len(h) : i \div 2 = p => ~Worse(h[i], h[r])
    <3>1. ASSUME NEW i \in 2 .. Len(h), i \div 2 = p PROVE ~Worse(h[i], h[r])
      <4>1. i <= Len(h) /\ (i = l \/ i = r)
        BY <1>3, <3>1
      <4>2. QED
        BY <2>3, <2>4, <4>1
    <3>2. QED
      BY <3>1
  <2> HIDE DEF w
  <2>6. QED
    BY <1>1, <1>3, <2>1, <2>2, <2>5
<1>8. CASE ~(r <= Len(h) /\ Worse(h[r], h[v]))
  <2>1. w = v
    BY <1>8
  <2>2. \A i \in 2 .. Len(h) : i \div 2 = p => ~Worse(h[i], h[v])
    <3>1. ASSUME NEW i \in 2 .. Len(h), i \div 2 = p PROVE ~Worse(h[i], h[v])
      <4>1. i <= Len(h) /\ (i = l \/ i = r)
        BY <1>3, <3>1
      <4>2. QED
        BY <1>6, <1>8, <4>1
    <3>2. QED
      BY <3>1
  <2> HIDE DEF w
  <2>3. QED
    BY <1>1, <1>3, <1>4, <1>5, <2>1, <2>2
<1>9. QED
  BY <1>7, <1>8

LEMMA SinksOne ==
  ASSUME QueryType, NEW h, Len(h) \in Nat, Numbers(h), NEW p \in 1 .. Len(h),
         AlmostDown(h, p), WorstOf(h, p) # p, NEW g, Exchanged(g, h, p, WorstOf(h, p))
  PROVE  AlmostDown(g, WorstOf(h, p))
<1> DEFINE w == WorstOf(h, p)
<1>1. /\ w \in 1 .. Len(h) /\ w \div 2 = p /\ w > p /\ Worse(h[w], h[p])
      /\ \A i \in 2 .. Len(h) : i \div 2 = p => ~Worse(h[i], h[w])
  BY WorstOfIs
<1>2. /\ Len(g) = Len(h) /\ g[p] = h[w] /\ g[w] = h[p]
      /\ \A i \in 1 .. Len(h) : i # p /\ i # w => g[i] = h[i]
  BY DEF Exchanged
<1>3. \A i, j \in 1 .. Len(h) : Worse(h[i], h[j]) => ~Worse(h[j], h[i])
  BY WorseIsOrder
<1> HIDE DEF w
<1>4. \A i \in 2 .. Len(h) : i \div 2 # p => ~Worse(h[i], h[i \div 2])
  BY DEF AlmostDown, Below
<1>5. \A i \in 2 .. Len(h) : i \div 2 = p /\ p > 1 => ~Worse(h[i], h[p \div 2])
  BY DEF AlmostDown, Bridged
<1>6. ASSUME NEW i \in 2 .. Len(h) PROVE i \in 1 .. Len(h) /\ i \div 2 \in 1 .. Len(h) /\ i \div 2 < i
  OBVIOUS
<1>7. ASSUME NEW i \in 2 .. Len(h), i \div 2 # w PROVE ~Worse(g[i], g[i \div 2])
  <2>1. CASE i = w
    BY <1>1, <1>2, <1>3, <2>1
  <2>2. CASE i # w /\ i \div 2 = p
    <3>1. g[i] = h[i] /\ g[i \div 2] = h[w]
      BY <1>2, <1>6, <2>2
    <3>2. QED
      BY <1>1, <2>2, <3>1
  <2>3. CASE i = p
    <3>1. p \div 2 # p /\ p \div 2 # w /\ p \div 2 \in 1 .. Len(h) /\ p > 1
      BY <1>1, <1>6, <2>3
    <3>2. g[i] = h[w] /\ g[i \div 2] = h[p \div 2]
      BY <1>2, <2>3, <3>1
    <3>3. w \in 2 .. Len(h)
      BY <1>1
    <3>4. QED
      BY <1>1, <1>5, <3>1, <3>2, <3>3
  <2>4. CASE i # w /\ i # p /\ i \div 2 # p
    <3>1. g[i] = h[i] /\ g[i \div 2] = h[i \div 2]
      BY <1>2, <1>6, <1>7, <2>4
    <3>2. QED
      BY <1>4, <2>4, <3>1
  <2>5. QED
    BY <2>1, <2>2, <2>3, <2>4
<1>8. ASSUME NEW i \in 2 .. Len(h), i \div 2 = w, w > 1 PROVE ~Worse(g[i], g[w \div 2])
  <2>1. i # p /\ i # w /\ i \div 2 # p
    BY <1>1, <1>6, <1>8
  <2>2. g[i] = h[i] /\ g[w \div 2] = h[w]
    BY <1>1, <1>2, <1>6, <2>1
  <2>3. QED
    BY <1>4, <1>8, <2>1, <2>2
<1>9. AlmostDown(g, w)
  BY <1>2, <1>7, <1>8 DEF AlmostDown, Below, Bridged
<1>10. QED
  BY <1>9 DEF w

LEMMA SinksNoMore ==
  ASSUME QueryType, NEW h, Len(h) \in Nat, Numbers(h), NEW p \in 1 .. Len(h),
         AlmostDown(h, p), WorstOf(h, p) = p
  PROVE  IsHeap(h)
<1> SUFFICES ASSUME NEW i \in 2 .. Len(h) PROVE Below(h, i)
  BY DEF IsHeap
<1>1. \A j \in 2 .. Len(h) : j \div 2 = p => ~Worse(h[j], h[p])
  BY WorstOfIs
<1>2. CASE i \div 2 = p
  BY <1>1, <1>2 DEF Below
<1>3. CASE i \div 2 # p
  BY <1>3 DEF AlmostDown
<1>4. QED
  BY <1>2, <1>3

-----------------------------------------------------------------------------
(* The steps. *)

LEMMA SpanSeq ==
  ASSUME QueryType, n > 0, NEW w \in Sel, Span(w) # <<>>
  PROVE  Len(Span(w)) \in Nat /\ Len(Span(w)) > 0
<1>1. Workers \in Nat \ {0}
  BY DEF QueryType, Workers, Smaller
<1>2. n + Workers - 1 \in Int
  BY <1>1 DEF QueryType
<1> HIDE DEF Workers
<1>3. Chunk \in Int
  BY <1>1, <1>2 DEF Chunk
<1>4. w \in Int
  BY BoundAssumption DEF Sel
<1> HIDE DEF Chunk
<1>5. w * Chunk \in Int /\ (w - 1) * Chunk \in Int
  BY <1>3, <1>4
<1>6. (w - 1) * Chunk + 1 \in Int /\ Smaller(w * Chunk, n) \in Int
  BY <1>5 DEF Smaller, QueryType
<1>7. ASSUME NEW a \in Int, NEW b \in Int, SubSeq(Rows, a, b) # <<>>
      PROVE  Len(SubSeq(Rows, a, b)) \in Nat /\ Len(SubSeq(Rows, a, b)) > 0
  <2>1. SubSeq(Rows, a, b) = [i \in 1 .. (1 + b - a) |-> Rows[i + a - 1]]
    OBVIOUS
  <2> DEFINE m == 1 + b - a
             f == [i \in 1 .. m |-> Rows[i + a - 1]]
             S == {Rows[i + a - 1] : i \in 1 .. m}
  <2>2. m \in Int
    OBVIOUS
  <2>3. m < 1 => f = <<>>
    <3>1. m < 1 => 1 .. m = {}
      BY <2>2
    <3>2. QED
      BY <3>1
  <2>4. m >= 1
    BY <1>7, <2>1, <2>2, <2>3
  <2>5. f \in [1 .. m -> S]
    OBVIOUS
  <2> HIDE DEF f, S, m
  <2>6. f \in Seq(S) /\ Len(f) = m
    BY <2>2, <2>4, <2>5
  <2>7. QED
    BY <2>1, <2>2, <2>4, <2>6 DEF f, m
<1>8. QED
  BY <1>6, <1>7 DEF Span

LEMMA CapacityPositive ==
  ASSUME IInv, NEW s \in Sel, Running(s), todo[s] # <<>>
  PROVE  Capacity(s) \in Nat /\ Capacity(s) > 0
<1>1. k \in Int /\ n \in Nat /\ s \in Nat /\ k > 0 /\ n > 0
  BY BoundAssumption DEF IInv, QueryType, HasRoom, Running, Sel
<1>2. CASE s = 0
  BY <1>1, <1>2 DEF Capacity, Smaller
<1>3. CASE s > 0
  <2>1. Len(Span(s)) \in Nat /\ Len(Span(s)) > 0
    BY <1>1, <1>3, SpanSeq DEF IInv, HasRoom
  <2>2. QED
    BY <1>1, <1>3, <2>1 DEF Capacity, Smaller
<1>4. QED
  BY <1>1, <1>2, <1>3

LEMMA InitIInv == Init => IInv
<1> SUFFICES ASSUME Init PROVE IInv
  OBVIOUS
<1>1. QueryType
  <2>1. n \in Nat /\ kept \subseteq 1 .. n /\ asc \in BOOLEAN /\ k \in Int
    BY BoundAssumption, KAssumption DEF Init
  <2>2. procs \in Nat \ {0}
    BY BoundAssumption DEF Init
  <2>3. score \in [1 .. n -> Int \cup {NaN}]
    <3>1. score \in [1 .. n -> Score] /\ Score \subseteq Int \cup {NaN}
      BY ScoreAssumption DEF Init
    <3>2. QED
      BY <3>1
  <2>4. QED
    BY <2>1, <2>2, <2>3 DEF QueryType
<1>2. SelType
  <2>1. <<>> \in Seq(kept) /\ Len(<<>>) = 0
    OBVIOUS
  <2>2. QED
    BY <2>1 DEF Init, SelType
<1>3. HasRoom
  BY DEF Init, HasRoom
<1>4. ASSUME NEW s \in Sel PROVE Shape(s)
  <2>1. heap[s] = <<>> /\ pos[s] = 0
    BY DEF Init
  <2>2. QED
    BY <2>1 DEF Shape, IsHeap
<1>5. QED
  BY <1>1, <1>2, <1>3, <1>4 DEF IInv

\* What is enough for a selector's heap after a step.
LEMMA ShapeAfter ==
  ASSUME UNCHANGED queryVars, NEW s, NEW g, heap'[s] = g,
         (\A i \in DOMAIN g : ~IsNaN(g[i])) =>
           /\ pos'[s] = 0 => IsHeap(g)
           /\ pos'[s] > 0 /\ upward'[s] => AlmostUp(g, pos'[s])
           /\ pos'[s] > 0 /\ ~upward'[s] => AlmostDown(g, pos'[s])
  PROVE  Shape(s)'
<1>1. \A a : IsNaN(a)' <=> IsNaN(a)
  BY DEF queryVars, IsNaN
<1>2. \A a, b : Worse(a, b)' <=> Worse(a, b)
  BY DEF queryVars, Worse, IsNaN
<1>3. IsHeap(g) => IsHeap(heap[s])'
  BY <1>2 DEF IsHeap, Below
<1>4. AlmostUp(g, pos'[s]) => AlmostUp(heap[s], pos[s])'
  BY <1>2 DEF AlmostUp, Below, Bridged
<1>5. AlmostDown(g, pos'[s]) => AlmostDown(heap[s], pos[s])'
  BY <1>2 DEF AlmostDown, Below, Bridged
<1>6. ~KeepsNaN(s)' => \A i \in DOMAIN g : ~IsNaN(g[i])
  BY <1>1 DEF KeepsNaN
<1>7. QED
  BY <1>3, <1>4, <1>5, <1>6 DEF Shape

\* The heaps of the other selectors stay what they are.
LEMMA OtherShapes ==
  ASSUME IInv, UNCHANGED queryVars, NEW s \in Sel,
         heap'[s] = heap[s], pos'[s] = pos[s], upward'[s] = upward[s]
  PROVE  Shape(s)'
<1>1. Shape(s)
  BY DEF IInv
<1>2. (\A i \in DOMAIN heap[s] : ~IsNaN(heap[s][i])) =>
        /\ pos'[s] = 0 => IsHeap(heap[s])
        /\ pos'[s] > 0 /\ upward'[s] => AlmostUp(heap[s], pos'[s])
        /\ pos'[s] > 0 /\ ~upward'[s] => AlmostDown(heap[s], pos'[s])
  BY <1>1 DEF Shape, KeepsNaN
<1>3. QED
  BY <1>2, ShapeAfter

\* A step that leaves the query and the caller alone, after which the lists are
\* no longer than they were.
LEMMA StillRoom ==
  ASSUME IInv, UNCHANGED <<queryVars, pc>>,
         \A s \in Sel : todo'[s] # <<>> => todo[s] # <<>>
  PROVE  QueryType' /\ HasRoom'
<1>1. QueryType'
  BY DEF IInv, QueryType, queryVars
<1>2. \A s : Span(s)' = Span(s)
  BY DEF queryVars, Span, Rows, Chunk, Workers
<1>3. HasRoom'
  BY <1>2 DEF IInv, HasRoom, queryVars
<1>4. QED
  BY <1>1, <1>3

\* One selector takes its next row.
LEMMA ConsiderIInv ==
  ASSUME IInv, NEW s \in Sel, Consider(s)
  PROVE  IInv'
<1> DEFINE i == Head(todo[s])
           h == heap[s]
<1>1. /\ Running(s) /\ pos[s] = 0 /\ todo[s] # <<>>
      /\ \/ ~Passes(i) /\ UNCHANGED <<heap, pos, upward>>
         \/ /\ Passes(i) /\ Len(h) < Capacity(s)
            /\ heap' = [heap EXCEPT ![s] = Append(h, i)]
            /\ pos' = [pos EXCEPT ![s] = Len(h) + 1]
            /\ upward' = [upward EXCEPT ![s] = TRUE]
         \/ /\ Passes(i) /\ Len(h) >= Capacity(s) /\ Worse(h[1], i)
            /\ heap' = [heap EXCEPT ![s][1] = i]
            /\ pos' = [pos EXCEPT ![s] = 1]
            /\ upward' = [upward EXCEPT ![s] = FALSE]
         \/ UNCHANGED <<heap, pos, upward>>
      /\ todo' = [todo EXCEPT ![s] = Tail(@)]
      /\ UNCHANGED <<queryVars, pc, result>>
  BY DEF Consider
<1> HIDE DEF i
<1>2. QueryType' /\ HasRoom'
  <2>1. \A t \in Sel : todo'[t] # <<>> => todo[t] # <<>>
    BY <1>1 DEF IInv, SelType
  <2>2. QED
    BY <1>1, <2>1, StillRoom
<1>3. todo' = [t \in Sel |-> todo'[t]]
  BY <1>1 DEF IInv, SelType
<1>4. /\ h \in Seq(kept) /\ Len(h) \in Nat /\ heap \in [Sel -> Seq(kept)]
      /\ pos \in [Sel -> Nat] /\ (\A t \in Sel : pos[t] <= Len(heap[t]))
      /\ upward \in [Sel -> BOOLEAN] /\ UNCHANGED kept
  <2>1. h \in Seq(kept)
    BY DEF IInv, SelType
  <2>2. QED
    BY <1>1, <2>1, LenProperties DEF IInv, SelType, queryVars
<1>5. (\A j \in DOMAIN h : ~IsNaN(h[j])) => IsHeap(h)
  BY <1>1 DEF IInv, Shape, KeepsNaN
<1>6. CASE UNCHANGED <<heap, pos, upward>>
  <2>1. SelType'
    BY <1>3, <1>4, <1>6 DEF SelType
  <2>2. \A t \in Sel : Shape(t)'
    BY <1>1, <1>6, OtherShapes
  <2>3. QED
    BY <1>2, <2>1, <2>2 DEF IInv
<1>7. CASE /\ Passes(i) /\ Len(h) < Capacity(s)
           /\ heap' = [heap EXCEPT ![s] = Append(h, i)]
           /\ pos' = [pos EXCEPT ![s] = Len(h) + 1]
           /\ upward' = [upward EXCEPT ![s] = TRUE]
  <2> DEFINE g == Append(h, i)
  <2>1. i \in kept
    BY <1>7 DEF Passes
  <2>2. /\ g \in Seq(kept) /\ Len(g) = Len(h) + 1 /\ g[Len(h) + 1] = i
        /\ \A j \in 1 .. Len(h) : g[j] = h[j]
    BY <1>4, <2>1, AppendProperties
  <2> HIDE DEF g
  <2>3. heap'[s] = g /\ pos'[s] = Len(h) + 1 /\ upward'[s] = TRUE
    BY <1>4, <1>7 DEF g
  <2>4. SelType'
    <3>1. heap' \in [Sel -> Seq(kept)] /\ pos' \in [Sel -> Nat] /\ upward' \in [Sel -> BOOLEAN]
      BY <1>4, <1>7, <2>2 DEF g
    <3>2. \A t \in Sel : pos'[t] <= Len(heap'[t])
      <4>1. \A t \in Sel \ {s} : pos'[t] = pos[t] /\ heap'[t] = heap[t]
        BY <1>4, <1>7
      <4>2. pos'[s] <= Len(heap'[s])
        BY <1>4, <2>2, <2>3
      <4>3. QED
        BY <1>4, <4>1, <4>2
    <3>3. QED
      BY <1>3, <1>4, <3>1, <3>2 DEF SelType
  <2>5. (\A j \in DOMAIN g : ~IsNaN(g[j])) => AlmostUp(g, Len(h) + 1)
    <3> SUFFICES ASSUME \A j \in DOMAIN g : ~IsNaN(g[j]) PROVE AlmostUp(g, Len(h) + 1)
      OBVIOUS
    <3>1. DOMAIN g = 1 .. Len(h) + 1 /\ DOMAIN h = 1 .. Len(h)
      BY <1>4, <2>2
    <3>2. IsHeap(h)
      BY <1>4, <1>5, <2>2, <3>1
    <3>3. QED
      BY <1>4, <2>2, <3>2, AppendedHeap
  <2>6. Shape(s)'
    <3>1. pos'[s] > 0 /\ pos'[s] # 0 /\ upward'[s]
      BY <1>4, <2>3
    <3>2. (\A j \in DOMAIN g : ~IsNaN(g[j])) => AlmostUp(g, pos'[s])
      BY <2>3, <2>5
    <3> HIDE DEF h
    <3>3. QED
      BY <1>1, <2>3, <3>1, <3>2, ShapeAfter
  <2>7. \A t \in Sel \ {s} : Shape(t)'
    <3>1. \A t \in Sel \ {s} : heap'[t] = heap[t] /\ pos'[t] = pos[t] /\ upward'[t] = upward[t]
      BY <1>4, <1>7
    <3>2. QED
      BY <1>1, <3>1, OtherShapes
  <2>8. QED
    BY <1>2, <2>4, <2>6, <2>7 DEF IInv
<1>8. CASE /\ Passes(i) /\ Len(h) >= Capacity(s) /\ Worse(h[1], i)
           /\ heap' = [heap EXCEPT ![s][1] = i]
           /\ pos' = [pos EXCEPT ![s] = 1]
           /\ upward' = [upward EXCEPT ![s] = FALSE]
  <2> DEFINE g == [h EXCEPT ![1] = i]
  <2>1. i \in kept
    BY <1>8 DEF Passes
  <2>2. 1 <= Len(h)
    <3>1. Capacity(s) \in Nat /\ Capacity(s) > 0
      BY <1>1, CapacityPositive
    <3>2. QED
      BY <1>4, <1>8, <3>1
  <2>3. /\ g \in Seq(kept) /\ Len(g) = Len(h) /\ g[1] = i
        /\ \A j \in 2 .. Len(h) : g[j] = h[j]
    BY <1>4, <2>1, <2>2, ExceptSeq
  <2> HIDE DEF g
  <2>4. heap'[s] = g /\ pos'[s] = 1 /\ upward'[s] = FALSE
    BY <1>4, <1>8 DEF g
  <2>5. SelType'
    <3>1. heap' = [heap EXCEPT ![s] = g]
      BY <1>4, <1>8 DEF g
    <3>2. heap' \in [Sel -> Seq(kept)] /\ pos' \in [Sel -> Nat] /\ upward' \in [Sel -> BOOLEAN]
      BY <1>4, <1>8, <2>3, <3>1
    <3>3. \A t \in Sel : pos'[t] <= Len(heap'[t])
      <4>1. \A t \in Sel \ {s} : pos'[t] = pos[t] /\ heap'[t] = heap[t]
        BY <1>4, <1>8
      <4>2. pos'[s] <= Len(heap'[s])
        BY <1>4, <2>2, <2>3, <2>4
      <4>3. QED
        BY <1>4, <4>1, <4>2
    <3>4. QED
      BY <1>3, <1>4, <3>2, <3>3 DEF SelType
  <2>6. (\A j \in DOMAIN g : ~IsNaN(g[j])) => AlmostDown(g, 1)
    <3> SUFFICES ASSUME \A j \in DOMAIN g : ~IsNaN(g[j]) PROVE AlmostDown(g, 1)
      OBVIOUS
    <3>1. DOMAIN g = 1 .. Len(h) /\ DOMAIN h = 1 .. Len(h)
      BY <1>4, <2>3
    <3>2. ~IsNaN(h[1])
      BY <1>8 DEF Worse
    <3>3. IsHeap(h)
      <4>1. \A j \in DOMAIN h : j = 1 \/ j \in 2 .. Len(h)
        BY <1>4, <3>1
      <4>2. ASSUME NEW j \in 2 .. Len(h) PROVE ~IsNaN(h[j])
        <5>1. j \in DOMAIN g /\ g[j] = h[j]
          BY <1>4, <2>3, <3>1
        <5> HIDE DEF h
        <5>2. QED
          BY <5>1
      <4>3. QED
        BY <1>5, <3>2, <4>1, <4>2
    <3>4. QED
      BY <1>4, <2>3, <3>3, ReplacedRoot
  <2>7. Shape(s)'
    <3>1. pos'[s] > 0 /\ pos'[s] # 0 /\ ~upward'[s]
      BY <2>4
    <3>2. (\A j \in DOMAIN g : ~IsNaN(g[j])) => AlmostDown(g, pos'[s])
      BY <2>4, <2>6
    <3> HIDE DEF h
    <3>3. QED
      BY <1>1, <2>4, <3>1, <3>2, ShapeAfter
  <2>8. \A t \in Sel \ {s} : Shape(t)'
    <3>1. \A t \in Sel \ {s} : heap'[t] = heap[t] /\ pos'[t] = pos[t] /\ upward'[t] = upward[t]
      BY <1>4, <1>8
    <3>2. QED
      BY <1>1, <3>1, OtherShapes
  <2>9. QED
    BY <1>2, <2>5, <2>7, <2>8 DEF IInv
<1>9. QED
  BY <1>1, <1>6, <1>7, <1>8

\* Two entries of a heap change places.
LEMMA SwapIs ==
  ASSUME IInv, NEW s \in Sel, NEW i \in 1 .. Len(heap[s]), NEW j \in 1 .. Len(heap[s]), i # j,
         Swap(s, i, j), UNCHANGED <<queryVars, todo, upward>>
  PROVE  /\ SelType'
         /\ Exchanged(heap'[s], heap[s], i, j)
         /\ (\A m \in DOMAIN heap'[s] : ~IsNaN(heap'[s][m])) => ~KeepsNaN(s)
         /\ pos'[s] = j
         /\ \A t \in Sel \ {s} : heap'[t] = heap[t] /\ pos'[t] = pos[t]
<1> DEFINE h == heap[s]
           f == [h EXCEPT ![i] = h[j]]
           g == [f EXCEPT ![j] = h[i]]
<1>1. /\ h \in Seq(kept) /\ Len(h) \in Nat /\ heap \in [Sel -> Seq(kept)]
      /\ pos \in [Sel -> Nat] /\ (\A t \in Sel : pos[t] <= Len(heap[t]))
      /\ upward \in [Sel -> BOOLEAN] /\ todo = [t \in Sel |-> todo[t]]
      /\ UNCHANGED <<kept, todo, upward>>
  <2>1. h \in Seq(kept)
    BY DEF IInv, SelType
  <2>2. QED
    BY <2>1, LenProperties DEF IInv, SelType, queryVars
<1>2. heap' = [heap EXCEPT ![s] = g] /\ pos' = [pos EXCEPT ![s] = j]
  BY <1>1 DEF Swap
<1> HIDE DEF h
<1>3. i \in 1 .. Len(h) /\ j \in 1 .. Len(h) /\ h[i] \in kept /\ h[j] \in kept
  BY <1>1 DEF h
<1>4. /\ f \in Seq(kept) /\ Len(f) = Len(h)
      /\ \A m \in 1 .. Len(h) : f[m] = IF m = i THEN h[j] ELSE h[m]
  BY <1>1, <1>3, ExceptSeq
<1> HIDE DEF f
<1>5. /\ g \in Seq(kept) /\ Len(g) = Len(f)
      /\ \A m \in 1 .. Len(h) : g[m] = IF m = j THEN h[i] ELSE f[m]
  BY <1>3, <1>4, ExceptSeq
<1> HIDE DEF g
<1>6. heap'[s] = g /\ pos'[s] = j
  BY <1>1, <1>2
<1>7. \A t \in Sel \ {s} : heap'[t] = heap[t] /\ pos'[t] = pos[t]
  BY <1>1, <1>2
<1>8. Exchanged(g, h, i, j)
  BY <1>3, <1>4, <1>5 DEF Exchanged
<1>9. (\A m \in DOMAIN g : ~IsNaN(g[m])) => ~KeepsNaN(s)
  <2> SUFFICES ASSUME \A m \in DOMAIN g : ~IsNaN(g[m]), NEW m \in DOMAIN h PROVE ~IsNaN(h[m])
    BY DEF KeepsNaN, h
  <2>1. DOMAIN g = 1 .. Len(h) /\ DOMAIN h = 1 .. Len(h)
    BY <1>1, <1>4, <1>5
  <2>2. \E l \in 1 .. Len(h) : g[l] = h[m]
    <3>1. CASE m = i
      BY <1>3, <1>5, <3>1
    <3>2. CASE m # i
      <4>1. CASE m = j
        BY <1>3, <1>4, <1>5, <4>1
      <4>2. CASE m # j
        BY <1>4, <1>5, <2>1, <3>2, <4>2
      <4>3. QED
        BY <4>1, <4>2
    <3>3. QED
      BY <3>1, <3>2
  <2>3. QED
    BY <2>1, <2>2
<1>10. SelType'
  <2>1. heap' \in [Sel -> Seq(kept)] /\ pos' \in [Sel -> Nat]
    <3>1. j \in Nat
      BY <1>1, <1>3
    <3>2. QED
      BY <1>1, <1>2, <1>5, <3>1
  <2>2. \A t \in Sel : pos'[t] <= Len(heap'[t])
    <3>1. pos'[s] <= Len(heap'[s])
      BY <1>1, <1>3, <1>4, <1>5, <1>6
    <3>2. QED
      BY <1>1, <1>7, <3>1
  <2>3. QED
    BY <1>1, <2>1, <2>2 DEF SelType
<1>11. QED
  BY <1>6, <1>7, <1>8, <1>9, <1>10 DEF h

\* A sift comes to its end.
LEMMA SiftEndsIInv ==
  ASSUME IInv, NEW s \in Sel, SiftEnds(s), UNCHANGED <<queryVars, todo, upward, pc>>,
         ~KeepsNaN(s) => IsHeap(heap[s])
  PROVE  IInv'
<1>1. /\ heap' = heap /\ pos' = [pos EXCEPT ![s] = 0] /\ todo' = todo /\ upward' = upward
      /\ UNCHANGED kept
  BY DEF SiftEnds, queryVars
<1>2. QueryType' /\ HasRoom'
  BY <1>1, StillRoom
<1>3. pos' \in [Sel -> Nat] /\ pos'[s] = 0 /\ \A t \in Sel \ {s} : pos'[t] = pos[t]
  BY <1>1 DEF IInv, SelType
<1>4. \A t \in Sel : Len(heap[t]) \in Nat
  BY LenProperties DEF IInv, SelType
<1>5. SelType'
  <2>1. \A t \in Sel : pos'[t] <= Len(heap'[t])
    BY <1>1, <1>3, <1>4 DEF IInv, SelType
  <2>2. QED
    BY <1>1, <1>3, <2>1 DEF IInv, SelType
<1>6. Shape(s)'
  <2>1. (\A i \in DOMAIN heap[s] : ~IsNaN(heap[s][i])) => IsHeap(heap[s])
    BY DEF KeepsNaN
  <2>2. QED
    BY <1>1, <1>3, <2>1, ShapeAfter
<1>7. \A t \in Sel \ {s} : Shape(t)'
  BY <1>1, <1>3, OtherShapes
<1>8. QED
  BY <1>2, <1>5, <1>6, <1>7 DEF IInv

LEMMA SiftUpIInv ==
  ASSUME IInv, NEW s \in Sel, SiftUp(s)
  PROVE  IInv'
<1> DEFINE h == heap[s]
           p == pos[s]
<1>1. /\ p > 0 /\ upward[s]
      /\ \/ RisesAbove(h, p) /\ Swap(s, p, p \div 2)
         \/ ~RisesAbove(h, p) /\ SiftEnds(s)
      /\ UNCHANGED <<queryVars, todo, upward, pc, result>>
  BY DEF SiftUp
<1>2. QueryType /\ SelType /\ Shape(s) /\ Len(h) \in Nat /\ p \in 1 .. Len(h)
  <2>1. h \in Seq(kept) /\ p \in Nat /\ p <= Len(h)
    BY DEF IInv, SelType
  <2>2. QED
    BY <1>1, <2>1, LenProperties DEF IInv
<1>3. ~KeepsNaN(s) => AlmostUp(h, p) /\ Numbers(h)
  BY <1>1, <1>2, CleanNumbers DEF Shape
<1>4. CASE RisesAbove(h, p) /\ Swap(s, p, p \div 2)
  <2>1. p \in 2 .. Len(h) /\ p \div 2 \in 1 .. Len(h) /\ p \div 2 # p /\ Worse(h[p], h[p \div 2])
    BY <1>2, <1>4 DEF RisesAbove
  <2>2. /\ SelType'
        /\ Exchanged(heap'[s], h, p, p \div 2)
        /\ (\A m \in DOMAIN heap'[s] : ~IsNaN(heap'[s][m])) => ~KeepsNaN(s)
        /\ pos'[s] = p \div 2
        /\ \A t \in Sel \ {s} : heap'[t] = heap[t] /\ pos'[t] = pos[t]
    BY <1>1, <1>2, <1>4, <2>1, SwapIs
  <2>3. QueryType' /\ HasRoom'
    BY <1>1, StillRoom
  <2>4. Shape(s)'
    <3>1. (\A m \in DOMAIN heap'[s] : ~IsNaN(heap'[s][m])) => AlmostUp(heap'[s], pos'[s])
      BY <1>2, <1>3, <2>1, <2>2, RisesOne
    <3>2. pos'[s] # 0 /\ upward'[s]
      <4>1. upward'[s]
        BY <1>1
      <4>2. pos'[s] # 0
        BY <2>1, <2>2
      <4>3. QED
        BY <4>1, <4>2
    <3>3. QED
      BY <1>1, <3>1, <3>2, ShapeAfter
  <2>5. \A t \in Sel \ {s} : Shape(t)'
    BY <1>1, <2>2, OtherShapes
  <2>6. QED
    BY <2>2, <2>3, <2>4, <2>5 DEF IInv
<1>5. CASE ~RisesAbove(h, p) /\ SiftEnds(s)
  <2>1. ~KeepsNaN(s) => IsHeap(h)
    BY <1>3, <1>5, RisesNoMore
  <2>2. QED
    BY <1>1, <1>5, <2>1, SiftEndsIInv
<1>6. QED
  BY <1>1, <1>4, <1>5

LEMMA SiftDownIInv ==
  ASSUME IInv, NEW s \in Sel, SiftDown(s)
  PROVE  IInv'
<1> DEFINE h == heap[s]
           p == pos[s]
           w == WorstOf(h, p)
<1>1. /\ p > 0 /\ ~upward[s]
      /\ \/ w # p /\ Swap(s, p, w)
         \/ w = p /\ SiftEnds(s)
      /\ UNCHANGED <<queryVars, todo, upward, pc, result>>
  BY DEF SiftDown
<1>2. QueryType /\ SelType /\ Shape(s) /\ Len(h) \in Nat /\ p \in 1 .. Len(h)
  <2>1. h \in Seq(kept) /\ p \in Nat /\ p <= Len(h)
    BY DEF IInv, SelType
  <2>2. QED
    BY <1>1, <2>1, LenProperties DEF IInv
<1>3. ~KeepsNaN(s) => AlmostDown(h, p) /\ Numbers(h)
  BY <1>1, <1>2, CleanNumbers DEF Shape
<1>4. w \in 1 .. Len(h)
  BY <1>2, WorstOfIn
<1> HIDE DEF w
<1>5. CASE w # p /\ Swap(s, p, w)
  <2>1. /\ SelType'
        /\ Exchanged(heap'[s], h, p, w)
        /\ (\A m \in DOMAIN heap'[s] : ~IsNaN(heap'[s][m])) => ~KeepsNaN(s)
        /\ pos'[s] = w
        /\ \A t \in Sel \ {s} : heap'[t] = heap[t] /\ pos'[t] = pos[t]
    BY <1>1, <1>2, <1>4, <1>5, SwapIs
  <2>2. QueryType' /\ HasRoom'
    BY <1>1, StillRoom
  <2>3. Shape(s)'
    <3>1. (\A m \in DOMAIN heap'[s] : ~IsNaN(heap'[s][m])) => AlmostDown(heap'[s], pos'[s])
      BY <1>2, <1>3, <1>5, <2>1, SinksOne DEF w
    <3>2. pos'[s] # 0 /\ ~upward'[s]
      <4>1. ~upward'[s]
        BY <1>1
      <4>2. pos'[s] # 0
        BY <1>4, <2>1
      <4>3. QED
        BY <4>1, <4>2
    <3>3. QED
      BY <1>1, <3>1, <3>2, ShapeAfter
  <2>4. \A t \in Sel \ {s} : Shape(t)'
    BY <1>1, <2>1, OtherShapes
  <2>5. QED
    BY <2>1, <2>2, <2>3, <2>4 DEF IInv
<1>6. CASE w = p /\ SiftEnds(s)
  <2>1. ~KeepsNaN(s) => IsHeap(h)
    BY <1>2, <1>3, <1>6, SinksNoMore DEF w
  <2>2. QED
    BY <1>1, <1>6, <2>1, SiftEndsIInv
<1>7. QED
  BY <1>1, <1>5, <1>6

\* The caller changes no heap.
LEMMA CallerIInv ==
  ASSUME IInv, UNCHANGED <<queryVars, heap, pos, upward>>, todo' = [s \in Sel |-> todo'[s]], HasRoom'
  PROVE  IInv'
<1>1. QueryType'
  BY DEF IInv, QueryType, queryVars
<1>2. SelType'
  BY DEF IInv, SelType, queryVars
<1>3. \A s \in Sel : Shape(s)'
  BY OtherShapes
<1>4. QED
  BY <1>1, <1>2, <1>3 DEF IInv

LEMMA SpanStays ==
  ASSUME UNCHANGED queryVars
  PROVE  \A s : Span(s)' = Span(s)
  BY DEF queryVars, Span, Rows, Chunk, Workers

LEMMA StartIInv ==
  ASSUME IInv, Start
  PROVE  IInv'
<1>1. UNCHANGED <<queryVars, heap, pos, upward, result>>
  BY DEF Start
<1>2. todo = [s \in Sel |-> todo[s]] /\ HasRoom /\ UNCHANGED <<k, n>>
  BY <1>1 DEF IInv, SelType, queryVars
<1>3. CASE pc' = "done" /\ UNCHANGED todo
  BY <1>1, <1>2, <1>3, SpanStays, CallerIInv DEF HasRoom
<1>4. CASE k > 0 /\ n > 0 /\ todo' = [todo EXCEPT ![0] = Rows]
  <2>1. \A s \in Sel : s > 0 => todo'[s] = todo[s]
    BY <1>2, <1>4
  <2>2. HasRoom'
    BY <1>1, <1>2, <1>4, <2>1, SpanStays DEF HasRoom
  <2>3. todo' = [s \in Sel |-> todo'[s]]
    BY <1>2, <1>4
  <2>4. QED
    BY <1>1, <2>2, <2>3, CallerIInv
<1>5. CASE /\ k > 0 /\ n > 0
           /\ todo' = [w \in Sel |-> IF w \in 1 .. Workers THEN Span(w) ELSE <<>>]
  <2>1. HasRoom'
    BY <1>1, <1>2, <1>5, SpanStays DEF HasRoom
  <2>2. todo' = [s \in Sel |-> todo'[s]]
    BY <1>5
  <2>3. QED
    BY <1>1, <2>1, <2>2, CallerIInv
<1>6. QED
  BY <1>3, <1>4, <1>5 DEF Start

LEMMA MergeIInv ==
  ASSUME IInv, Merge
  PROVE  IInv'
<1>1. UNCHANGED <<queryVars, heap, pos, upward, result>> /\ pc = "wait"
  BY DEF Merge
<1>2. todo = [s \in Sel |-> todo[s]] /\ HasRoom /\ UNCHANGED <<k, n>>
  BY <1>1 DEF IInv, SelType, queryVars
<1>3. todo' = [s \in Sel |-> todo'[s]] /\ \A s \in Sel : s > 0 => todo'[s] = todo[s]
  <2>1. CASE UNCHANGED todo
    BY <1>2, <2>1
  <2>2. CASE todo' = [todo EXCEPT ![0] = Partial]
    BY <1>2, <2>2
  <2>3. QED
    BY <2>1, <2>2 DEF Merge
<1>4. HasRoom'
  BY <1>1, <1>2, <1>3, SpanStays DEF HasRoom
<1>5. QED
  BY <1>1, <1>3, <1>4, CallerIInv

LEMMA FinishIInv ==
  ASSUME IInv, Finish
  PROVE  IInv'
<1>1. UNCHANGED <<queryVars, todo, heap, pos, upward>> /\ pc' = "done"
  BY DEF Finish, selVars
<1>2. todo' = [s \in Sel |-> todo'[s]]
  BY <1>1 DEF IInv, SelType
<1>3. HasRoom'
  BY <1>1, SpanStays DEF IInv, HasRoom
<1>4. QED
  BY <1>1, <1>2, <1>3, CallerIInv

LEMMA NextIInv == IInv /\ [Next]_vars => IInv'
<1> SUFFICES ASSUME IInv, [Next]_vars PROVE IInv'
  OBVIOUS
<1>1. CASE Start
  BY <1>1, StartIInv
<1>2. CASE Merge
  BY <1>2, MergeIInv
<1>3. CASE Finish
  BY <1>3, FinishIInv
<1>4. ASSUME NEW s \in Sel, SelectorStep(s) PROVE IInv'
  BY <1>4, ConsiderIInv, SiftUpIInv, SiftDownIInv DEF SelectorStep
<1>5. CASE UNCHANGED vars
  <2>1. UNCHANGED <<queryVars, pc, todo, heap, pos, upward>>
    BY <1>5 DEF vars, selVars
  <2>2. todo' = [s \in Sel |-> todo'[s]]
    BY <2>1 DEF IInv, SelType
  <2>3. QED
    BY <2>1, <2>2, StillRoom, CallerIInv
<1>6. QED
  BY <1>1, <1>2, <1>3, <1>4, <1>5 DEF Next, CallerStep

\* However a search runs, sequentially or in any number of workers, over any
\* rows and scores, a heap that is not being sifted has its worst row at the
\* root, unless it keeps a score that is not a number
\* (store_search.go:239-292).
THEOREM RootStaysWorst == Spec => []RootIsWorst
<1>1. Init => IInv
  BY InitIInv
<1>2. IInv /\ [Next]_vars => IInv'
  BY NextIInv
<1>3. IInv => RootIsWorst
  <2> SUFFICES ASSUME IInv, NEW s \in Sel, pos[s] = 0, ~KeepsNaN(s),
                      NEW i \in DOMAIN heap[s]
               PROVE  ~Worse(heap[s][i], heap[s][1])
    BY DEF RootIsWorst
  <2>1. QueryType /\ SelType /\ IsHeap(heap[s]) /\ heap[s] \in Seq(kept)
    BY DEF IInv, Shape, SelType
  <2>2. Len(heap[s]) \in Nat /\ i \in 1 .. Len(heap[s])
    BY <2>1, LenProperties
  <2>3. QED
    BY <2>1, <2>2, CleanNumbers, HeapRoot
<1>4. QED
  BY <1>1, <1>2, <1>3, PTL DEF Spec
-----------------------------------------------------------------------------
(* The result.  What a selector keeps is always the best of the rows it has *)
(* seen (Chosen), and it turns a row down only when it keeps k, so that the *)
(* caller, who sees no more than what the workers kept, misses nothing.     *)

\* No row in h has a score that is not a number.
Clean(h) == \A i \in DOMAIN h : ~IsNaN(h[i])

\* h holds the best k of the rows in seen.
Chosen(h, seen) ==
  /\ IsInjective(h) /\ Range(h) \subseteq seen
  /\ Len(h) <= k /\ (Len(h) < k => seen \subseteq Range(h))
  /\ Clean(h) => \A x \in Range(h), y \in seen \ Range(h) : ~Worse(x, y)

\* The rows a selector is given.
Input(s) ==
  IF s > 0 THEN Range(Span(s))
  ELSE IF Forked THEN UNION {Range(heap[w]) : w \in 1 .. Workers} ELSE 1 .. n

Seen(s) == (Input(s) \cap kept) \ Range(todo[s])

\* A selector that has been given its rows.
Active(s) ==
  /\ k > 0 /\ n > 0
  /\ IF s = 0 THEN pc \in {"select", "done"} ELSE Forked /\ s \in 1 .. Workers /\ pc # "start"

Untouched(s) == heap[s] = <<>> /\ todo[s] = <<>>

Selects(s) ==
  /\ todo[s] \in Seq(1 .. n) /\ IsInjective(todo[s]) /\ Range(todo[s]) \subseteq Input(s)
  /\ Chosen(heap[s], Seen(s))
  /\ s > 0 => Len(heap[s]) + Len(todo[s]) <= Len(Span(s))
  /\ s = 0 /\ ~Forked => Len(heap[s]) + Len(todo[s]) <= n

Caller ==
  /\ pc \in {"start", "select", "wait", "done", "panic"}
  /\ pc \in {"wait", "panic"} => Forked
  /\ pc = "done" \/ result = Nil
  /\ pc = "done" => result \in Seq(kept) \cup {Nil}

QueryBounds ==
  /\ n \in 0 .. MaxRows /\ score \in [1 .. n -> Score] /\ k \in K
  /\ parallel \in BOOLEAN /\ procs \in 1 .. MaxProcs

Selection ==
  /\ QueryBounds
  /\ Caller
  /\ \A s \in Sel : (Active(s) /\ Selects(s)) \/ (~Active(s) /\ Untouched(s))
  /\ \A s \in Sel : ~Running(s) => todo[s] = <<>> /\ pos[s] = 0
  /\ ResultIsNearest
-----------------------------------------------------------------------------
(* The order of rows. *)

LEMMA RowOrder ==
  ASSUME QueryType, NEW a \in 1 .. n, NEW b \in 1 .. n, NEW c \in 1 .. n
  PROVE  /\ Worse(a, b) => ~Worse(b, a) /\ ~IsNaN(a) /\ ~IsNaN(b)
         /\ ~IsNaN(a) /\ ~IsNaN(b) /\ ~Worse(a, b) /\ ~Worse(b, c) => ~Worse(a, c)
         /\ ~IsNaN(a) /\ ~IsNaN(b) /\ a # b /\ ~Worse(a, b) => Worse(b, a)
<1>1. \A x \in {a, b, c} : x \in Nat /\ (~IsNaN(x) => score[x] \in Int)
  BY DEF QueryType, IsNaN
<1>2. \A x \in {a, b, c} : IsNaN(x) => score[x] \notin Int
  BY ScoreAssumption DEF IsNaN
<1>3. \A x, y \in {a, b, c} :
        Worse(x, y) <=> /\ ~IsNaN(x) /\ ~IsNaN(y)
                        /\ IF score[x] = score[y] THEN x > y
                           ELSE IF asc THEN score[x] > score[y] ELSE score[x] < score[y]
  BY <1>2 DEF Worse, IsNaN
<1>4. asc \in BOOLEAN
  BY DEF QueryType
<1>5. CASE asc
  BY <1>1, <1>3, <1>5
<1>6. CASE ~asc
  BY <1>1, <1>3, <1>6
<1>7. QED
  BY <1>4, <1>5, <1>6

-----------------------------------------------------------------------------
(* What a selector keeps. *)

\* A row for which there is room.
LEMMA ChosenAppend ==
  ASSUME NEW h \in Seq(1 .. n), NEW seen, NEW i \in 1 .. n, i \notin seen,
         Chosen(h, seen), k \in Int, Len(h) < k
  PROVE  Chosen(Append(h, i), seen \cup {i})
<1> DEFINE g == Append(h, i)
           l == Len(h)
<1>1. /\ l \in Nat /\ g \in Seq(1 .. n) /\ Len(g) = l + 1 /\ g[l + 1] = i
      /\ (\A j \in 1 .. l : g[j] = h[j]) /\ DOMAIN g = 1 .. l + 1 /\ DOMAIN h = 1 .. l
  BY AppendProperties, LenProperties
<1>2. IsInjective(h) /\ Range(h) = seen /\ l < k
  BY DEF Chosen
<1> HIDE DEF g, l
<1>3. \A j \in 1 .. l + 1 : j \in 1 .. l \/ j = l + 1
  BY <1>1
<1>4. \A j \in 1 .. l : j \in 1 .. l + 1 /\ j # l + 1
  BY <1>1
<1>5. l + 1 \in 1 .. l + 1
  BY <1>1
<1>6. \A j \in 1 .. l : h[j] # i
  BY <1>1, <1>2 DEF Range
<1>7. IsInjective(g)
  BY <1>1, <1>2, <1>3, <1>4, <1>6 DEF IsInjective
<1>8. Range(g) = seen \cup {i}
  BY <1>1, <1>2, <1>3, <1>4, <1>5 DEF Range
<1>9. Len(g) <= k
  BY <1>1, <1>2
<1>10. QED
  BY <1>7, <1>8, <1>9 DEF Chosen, g

\* A row that is no better than the worst of k.
LEMMA ChosenReject ==
  ASSUME QueryType, NEW h \in Seq(1 .. n), NEW seen, NEW i \in 1 .. n, i \notin seen,
         Chosen(h, seen), Len(h) >= k, Len(h) > 0, ~Worse(h[1], i),
         Clean(h) => \A x \in Range(h) : ~Worse(x, h[1])
  PROVE  Chosen(h, seen \cup {i})
<1>1. Len(h) \in Nat /\ k \in Int /\ 1 \in DOMAIN h /\ h[1] \in 1 .. n
  BY LenProperties DEF QueryType
<1>2. ASSUME Clean(h), NEW x \in Range(h), NEW y \in (seen \cup {i}) \ Range(h)
      PROVE  ~Worse(x, y)
  <2>1. CASE y \in seen
    BY <1>2, <2>1 DEF Chosen
  <2>2. CASE y = i
    <3>1. x \in 1 .. n /\ ~IsNaN(x) /\ ~IsNaN(h[1])
      <4>1. PICK j \in DOMAIN h : x = h[j]
        BY DEF Range
      <4>2. h[j] \in 1 .. n
        BY <4>1, ElementOfSeq, LenProperties
      <4>3. QED
        BY <1>1, <1>2, <4>1, <4>2 DEF Clean
    <3>2. ~Worse(x, h[1])
      BY <1>2
    <3>3. QED
      BY <1>1, <2>2, <3>1, <3>2, RowOrder
  <2>3. QED
    BY <2>1, <2>2
<1>3. ~(Len(h) < k)
  BY <1>1
<1>4. QED
  BY <1>2, <1>3 DEF Chosen

\* A row that is better than the worst of k.
LEMMA ChosenReplace ==
  ASSUME QueryType, NEW h \in Seq(1 .. n), NEW seen, NEW i \in 1 .. n, i \notin seen,
         seen \subseteq 1 .. n, Chosen(h, seen), Len(h) >= k, Len(h) > 0, Worse(h[1], i),
         Clean(h) => \A x \in Range(h) : ~Worse(x, h[1])
  PROVE  Chosen([h EXCEPT ![1] = i], seen \cup {i})
<1> DEFINE g == [h EXCEPT ![1] = i]
           r == h[1]
<1>1. Len(h) \in Nat /\ k \in Int /\ 1 \in DOMAIN h /\ r \in 1 .. n /\ DOMAIN h = 1 .. Len(h)
  BY LenProperties DEF QueryType
<1>2. /\ g \in Seq(1 .. n) /\ Len(g) = Len(h) /\ DOMAIN g = DOMAIN h
      /\ g[1] = i /\ \A j \in DOMAIN h : j # 1 => g[j] = h[j]
  BY <1>1, ExceptSeq
<1> HIDE DEF g
<1>3. IsInjective(h) /\ Range(h) \subseteq seen /\ Len(h) <= k
  BY DEF Chosen
<1>4. \A j \in DOMAIN h : h[j] \in seen /\ h[j] # i
  BY <1>3 DEF Range
<1>5. IsInjective(g)
  BY <1>1, <1>2, <1>3, <1>4 DEF IsInjective
<1>6. \A x \in Range(g) : x = i \/ (x \in Range(h) /\ x # r)
  BY <1>1, <1>2, <1>3 DEF Range, IsInjective
<1>7. \A x \in Range(h) : x = r \/ x \in Range(g)
  BY <1>1, <1>2 DEF Range
<1>8. ~Worse(i, r) /\ ~IsNaN(i) /\ ~IsNaN(r)
  BY <1>1, RowOrder
<1>9. ASSUME Clean(g) PROVE Clean(h)
  BY <1>1, <1>2, <1>8, <1>9 DEF Clean
<1>10. ASSUME Clean(g), NEW x \in Range(g), NEW y \in (seen \cup {i}) \ Range(g)
       PROVE  ~Worse(x, y)
  <2>1. y = r \/ y \in seen \ Range(h)
    <3>1. i \in Range(g)
      BY <1>1, <1>2 DEF Range
    <3>2. QED
      BY <1>7, <1>10, <3>1
  <2>2. Clean(h)
    BY <1>9, <1>10
  <2>3. CASE x = i
    <3>1. CASE y = r
      BY <1>8, <2>3, <3>1
    <3>2. CASE y \in seen \ Range(h)
      <4>1. ~Worse(r, y)
        <5>1. r \in Range(h)
          BY <1>1 DEF Range
        <5>2. QED
          BY <2>2, <3>2, <5>1 DEF Chosen
      <4>2. y \in 1 .. n
        BY <3>2
      <4>3. QED
        BY <1>1, <1>8, <2>3, <4>1, <4>2, RowOrder
    <3>3. QED
      BY <2>1, <3>1, <3>2
  <2>4. CASE x \in Range(h)
    <3>1. CASE y = r
      BY <2>2, <2>4, <3>1
    <3>2. CASE y \in seen \ Range(h)
      BY <2>2, <2>4, <3>2 DEF Chosen
    <3>3. QED
      BY <2>1, <3>1, <3>2
  <2>5. QED
    BY <1>6, <2>3, <2>4
<1>11. Range(g) \subseteq seen \cup {i}
  BY <1>3, <1>6
<1>12. ~(Len(g) < k) /\ Len(g) <= k
  BY <1>1, <1>2, <1>3
<1>13. QED
  BY <1>5, <1>10, <1>11, <1>12 DEF Chosen, g

\* A sift moves rows about.
LEMMA ChosenExchanged ==
  ASSUME NEW h, NEW g, NEW seen, DOMAIN h = 1 .. Len(h), DOMAIN g = 1 .. Len(g),
         NEW i \in 1 .. Len(h), NEW j \in 1 .. Len(h), Exchanged(g, h, i, j), Chosen(h, seen)
  PROVE  Range(g) = Range(h) /\ Chosen(g, seen)
<1>1. /\ Len(g) = Len(h) /\ g[i] = h[j] /\ g[j] = h[i]
      /\ \A m \in 1 .. Len(h) : m # i /\ m # j => g[m] = h[m]
  BY DEF Exchanged
<1>2. Range(g) = Range(h)
  <2>1. \A m \in DOMAIN h : h[m] \in Range(g)
    BY <1>1 DEF Range
  <2>2. \A m \in DOMAIN g : g[m] \in Range(h)
    BY <1>1 DEF Range
  <2>3. QED
    BY <2>1, <2>2 DEF Range
<1>3. IsInjective(g)
  BY <1>1 DEF Chosen, IsInjective
<1>4. Clean(g) => Clean(h)
  BY <1>2 DEF Clean, Range
<1>5. QED
  BY <1>1, <1>2, <1>3, <1>4 DEF Chosen

LEMMA InjectiveCount ==
  ASSUME NEW S, NEW h \in Seq(S), IsInjective(h)
  PROVE  IsFiniteSet(Range(h)) /\ Cardinality(Range(h)) = Len(h)
<1> DEFINE m == Len(h)
<1>1. m \in Nat /\ DOMAIN h = 1 .. m
  BY LenProperties
<1>2. IsFiniteSet(1 .. m) /\ Cardinality(1 .. m) = m
  BY <1>1, FS_Interval
<1> HIDE DEF m
<1>3. h \in Bijection(1 .. m, Range(h))
  BY <1>1 DEF Bijection, Injection, Surjection, IsInjective, Range
<1>4. QED
  BY <1>2, <1>3, FS_Bijection DEF ExistsBijection, m
-----------------------------------------------------------------------------
(* The spans. *)

LEMMA PartOfRows ==
  ASSUME n \in Nat, NEW a \in Nat \ {0}, NEW b \in Nat, b <= n
  PROVE  /\ SubSeq(Rows, a, b) \in Seq(1 .. n) /\ IsInjective(SubSeq(Rows, a, b))
         /\ Range(SubSeq(Rows, a, b)) = a .. b
         /\ Len(SubSeq(Rows, a, b)) = Cardinality(a .. b)
<1> DEFINE m == 1 + b - a
           f == [i \in 1 .. m |-> i + a - 1]
<1>1. SubSeq(Rows, a, b) = f
  <2>1. SubSeq(Rows, a, b) = [i \in 1 .. m |-> Rows[i + a - 1]]
    OBVIOUS
  <2>2. \A i \in 1 .. m : Rows[i + a - 1] = i + a - 1
    BY DEF Rows
  <2> HIDE DEF m
  <2>3. QED
    BY <2>1, <2>2
<1>2. m \in Int /\ \A i \in 1 .. m : i + a - 1 \in a .. b /\ i + a - 1 \in 1 .. n
  OBVIOUS
<1>3. \A x \in a .. b : x - a + 1 \in 1 .. m /\ (x - a + 1) + a - 1 = x
  OBVIOUS
<1>4. IsInjective(f)
  BY <1>2 DEF IsInjective
<1>5. Range(f) = a .. b
  BY <1>2, <1>3 DEF Range
<1>6. f \in Seq(1 .. n) /\ Len(f) = Cardinality(a .. b)
  <2>1. Cardinality(a .. b) = IF a > b THEN 0 ELSE m
    BY FS_Interval
  <2>2. CASE m >= 1
    <3>1. f \in [1 .. m -> 1 .. n] /\ m \in Nat
      BY <1>2, <2>2
    <3> HIDE DEF f
    <3>2. f \in Seq(1 .. n) /\ Len(f) = m
      BY <3>1
    <3>3. QED
      BY <2>1, <2>2, <3>2
  <2>3. CASE m < 1
    <3>1. 1 .. m = {}
      BY <2>3
    <3>2. f = <<>>
      BY <3>1
    <3>3. a > b
      BY <2>3
    <3> HIDE DEF f, m
    <3>4. QED
      BY <2>1, <3>2, <3>3
  <2> HIDE DEF f, m
  <2>4. QED
    BY <1>2, <2>2, <2>3
<1>7. QED
  BY <1>1, <1>4, <1>5, <1>6

LEMMA Divided ==
  ASSUME NEW x \in Nat, NEW c \in Nat \ {0}
  PROVE  x \div c \in Nat /\ \E r \in 0 .. c - 1 : x = c * (x \div c) + r
<1>1. x \div c \in Nat
  OBVIOUS
<1>2. x = c * (x \div c) + (x % c)
  OBVIOUS
<1>3. x % c \in 0 .. c - 1
  OBVIOUS
<1>4. QED
  BY <1>1, <1>2, <1>3

LEMMA Multiplied ==
  ASSUME NEW x \in Nat, NEW y \in Nat, x < y, NEW c \in Nat
  PROVE  x * c \in Nat /\ (y - 1) * c \in Nat /\ x * c <= (y - 1) * c
<1>1. x * c <= (y - 1) * c
  OBVIOUS
<1>2. x * c \in Nat /\ (y - 1) * c \in Nat
  OBVIOUS
<1>3. QED
  BY <1>1, <1>2

LEMMA ChunkIs ==
  ASSUME QueryType, n > 0
  PROVE  Workers \in Nat \ {0} /\ Chunk \in Nat \ {0} /\ n <= Workers * Chunk
<1>1. Workers \in Nat \ {0} /\ n \in Nat
  BY DEF QueryType, Workers, Smaller
<1> HIDE DEF Workers
<1>2. n + Workers - 1 \in Nat
  BY <1>1
<1>3. Chunk = (n + Workers - 1) \div Workers
  BY DEF Chunk
<1>4. PICK r \in 0 .. Workers - 1 : n + Workers - 1 = Workers * Chunk + r
  BY <1>1, <1>2, <1>3, Divided
<1>5. Chunk \in Nat
  BY <1>1, <1>2, <1>3, Divided
<1> HIDE DEF Chunk
<1>6. Workers * Chunk \in Nat
  BY <1>1, <1>5
<1>7. n <= Workers * Chunk
  BY <1>1, <1>4, <1>6
<1>8. Chunk # 0
  BY <1>1, <1>7
<1>9. QED
  BY <1>1, <1>5, <1>7, <1>8

LEMMA SpanIs ==
  ASSUME QueryType, n > 0, NEW w \in 1 .. Workers
  PROVE  /\ Span(w) \in Seq(1 .. n) /\ IsInjective(Span(w)) /\ Len(Span(w)) \in Nat
         /\ Range(Span(w)) = {i \in 1 .. n : (w - 1) * Chunk < i /\ i <= w * Chunk}
<1>1. Workers \in Nat \ {0} /\ Chunk \in Nat \ {0} /\ n \in Nat /\ w \in Nat \ {0}
  BY ChunkIs DEF QueryType
<1> HIDE DEF Chunk, Workers
<1>2. (w - 1) * Chunk \in Nat /\ w * Chunk \in Nat
  BY <1>1
<1> DEFINE a == (w - 1) * Chunk + 1
           b == Smaller(w * Chunk, n)
<1>3. a \in Nat \ {0} /\ b \in Nat /\ b <= n
  BY <1>1, <1>2 DEF Smaller
<1>4. a .. b = {i \in 1 .. n : (w - 1) * Chunk < i /\ i <= w * Chunk}
  BY <1>1, <1>2 DEF Smaller
<1> HIDE DEF a, b
<1>5. /\ SubSeq(Rows, a, b) \in Seq(1 .. n) /\ IsInjective(SubSeq(Rows, a, b))
      /\ Range(SubSeq(Rows, a, b)) = a .. b
  BY <1>1, <1>3, PartOfRows
<1>6. Span(w) = SubSeq(Rows, a, b)
  BY DEF Span, a, b
<1>7. QED
  BY <1>4, <1>5, <1>6, LenProperties

\* Every row is in the span of one worker.
LEMMA SpansCover ==
  ASSUME QueryType, n > 0, NEW i \in 1 .. n
  PROVE  \E w \in 1 .. Workers : i \in Range(Span(w))
<1>1. Workers \in Nat \ {0} /\ Chunk \in Nat \ {0} /\ n \in Nat /\ n <= Workers * Chunk
  BY ChunkIs DEF QueryType
<1> HIDE DEF Chunk, Workers
<1> DEFINE q == (i - 1) \div Chunk
<1>3. i - 1 \in Nat
  OBVIOUS
<1>4. q \in Nat
  BY <1>1, <1>3, Divided
<1>5. PICK r \in 0 .. Chunk - 1 : i - 1 = Chunk * q + r
  BY <1>1, <1>3, Divided
<1> HIDE DEF q
<1>6. q < Workers
  <2>1. ASSUME q >= Workers PROVE FALSE
    <3>1. Chunk * q >= Chunk * Workers
      BY <1>1, <1>4, <2>1
    <3>2. Chunk * Workers = Workers * Chunk /\ Chunk * q \in Nat /\ Chunk * Workers \in Nat
      BY <1>1, <1>4
    <3>3. QED
      BY <1>1, <1>5, <3>1, <3>2
  <2>2. QED
    BY <1>1, <1>4, <2>1
<1>7. PICK w \in 1 .. Workers : w = q + 1
  BY <1>1, <1>4, <1>6
<1>8. (w - 1) * Chunk < i /\ i <= w * Chunk
  <2>1. (w - 1) * Chunk = Chunk * q /\ w * Chunk = Chunk * q + Chunk /\ Chunk * q \in Nat
    BY <1>1, <1>4, <1>7
  <2>2. QED
    BY <1>1, <1>5, <2>1
<1>9. Range(Span(w)) = {j \in 1 .. n : (w - 1) * Chunk < j /\ j <= w * Chunk}
  BY SpanIs
<1>10. QED
  BY <1>8, <1>9

LEMMA SpansApart ==
  ASSUME QueryType, n > 0, NEW v \in 1 .. Workers, NEW w \in 1 .. Workers, v # w
  PROVE  Range(Span(v)) \cap Range(Span(w)) = {}
<1>1. Workers \in Nat \ {0} /\ Chunk \in Nat \ {0} /\ n \in Nat /\ v \in Nat /\ w \in Nat
  BY ChunkIs DEF QueryType
<1>2. /\ Range(Span(v)) = {i \in 1 .. n : (v - 1) * Chunk < i /\ i <= v * Chunk}
      /\ Range(Span(w)) = {i \in 1 .. n : (w - 1) * Chunk < i /\ i <= w * Chunk}
  BY SpanIs
<1> HIDE DEF Chunk, Workers
<1>3. CASE v < w
  BY <1>1, <1>2, <1>3, Multiplied
<1>4. CASE w < v
  BY <1>1, <1>2, <1>4, Multiplied
<1>5. QED
  BY <1>1, <1>3, <1>4
-----------------------------------------------------------------------------
(* What the workers kept, one worker after the other. *)

\* The function FlattenSeq is defined by, up to m.
Flattens(f, seqs, m) ==
  f = [i \in 1 .. m |-> IF i = 1 THEN seqs[i] ELSE f[i - 1] \o seqs[i]]

LEMMA FlattenIs ==
  ASSUME NEW seqs, Len(seqs) \in Nat, Len(seqs) > 0
  PROVE  \E f : Flattens(f, seqs, Len(seqs)) /\ FlattenSeq(seqs) = f[Len(seqs)]
<1> DEFINE T == {m \in 1 .. Len(seqs) : ~\E f : Flattens(f, seqs, m)}
<1>1. T = {}
  <2> SUFFICES ASSUME T # {} PROVE FALSE
    OBVIOUS
  <2>1. T \subseteq Nat
    OBVIOUS
  <2> HIDE DEF T
  <2>2. PICK m \in T : \A y \in T : m <= y
    BY <2>1, Least
  <2>3. m \in 1 .. Len(seqs) /\ ~\E f : Flattens(f, seqs, m)
    BY DEF T
  <2>4. CASE m = 1
    <3>1. Flattens([i \in 1 .. 1 |-> seqs[i]], seqs, 1)
      BY DEF Flattens
    <3>2. QED
      BY <2>3, <2>4, <3>1
  <2>5. CASE m # 1
    <3>1. m - 1 \in 1 .. Len(seqs) /\ m - 1 \notin T
      BY <2>2, <2>3, <2>5
    <3>2. PICK f : Flattens(f, seqs, m - 1)
      BY <3>1 DEF T
    <3> DEFINE g == [i \in 1 .. m |-> IF i = m THEN f[m - 1] \o seqs[m] ELSE f[i]]
    <3>3. ASSUME NEW i \in 1 .. m
          PROVE  g[i] = IF i = 1 THEN seqs[i] ELSE g[i - 1] \o seqs[i]
      <4>1. CASE i = m
        <5>1. m - 1 \in 1 .. m /\ m - 1 # m
          BY <2>3, <2>5
        <5>2. QED
          BY <2>5, <4>1, <5>1
      <4>2. CASE i # m
        <5>1. i \in 1 .. m - 1
          BY <2>3, <4>2
        <5>2. f[i] = IF i = 1 THEN seqs[i] ELSE f[i - 1] \o seqs[i]
          BY <3>2, <5>1 DEF Flattens
        <5>3. i # 1 => i - 1 \in 1 .. m /\ i - 1 # m
          BY <2>3, <5>1
        <5>4. QED
          BY <4>2, <5>2, <5>3
      <4>3. QED
        BY <4>1, <4>2
    <3>4. g = [i \in 1 .. m |-> g[i]]
      OBVIOUS
    <3> HIDE DEF g
    <3>5. Flattens(g, seqs, m)
      BY <3>3, <3>4 DEF Flattens
    <3>6. QED
      BY <2>3, <3>5
  <2>6. QED
    BY <2>4, <2>5
<1>2. \E f : Flattens(f, seqs, Len(seqs))
  BY <1>1
<1>3. FlattenSeq(seqs) = (CHOOSE f : Flattens(f, seqs, Len(seqs)))[Len(seqs)]
  BY DEF FlattenSeq, Flattens
<1>4. QED
  BY <1>2, <1>3

LEMMA Joined ==
  ASSUME NEW S, NEW a \in Seq(S), NEW b \in Seq(S), IsInjective(a), IsInjective(b),
         Range(a) \cap Range(b) = {}
  PROVE  a \o b \in Seq(S) /\ IsInjective(a \o b) /\ Range(a \o b) = Range(a) \cup Range(b)
<1> DEFINE c == a \o b
           l == Len(a)
           m == Len(b)
<1>1. /\ l \in Nat /\ m \in Nat /\ c \in Seq(S) /\ Len(c) = l + m
      /\ \A i \in 1 .. l + m : c[i] = IF i <= l THEN a[i] ELSE b[i - l]
  BY ConcatProperties, LenProperties
<1>2. DOMAIN a = 1 .. l /\ DOMAIN b = 1 .. m /\ DOMAIN c = 1 .. l + m
  BY <1>1, LenProperties
<1> HIDE DEF c, l, m
<1>3. \A i \in 1 .. l : i \in 1 .. l + m /\ c[i] = a[i]
  BY <1>1
<1>4. ASSUME NEW i \in 1 .. m PROVE l + i \in 1 .. l + m /\ c[l + i] = b[i]
  <2>1. l + i \in 1 .. l + m /\ ~(l + i <= l) /\ (l + i) - l = i
    BY <1>1
  <2>2. QED
    BY <1>1, <2>1
<1>5. \A i \in 1 .. l + m : i \in 1 .. l \/ (i - l \in 1 .. m /\ i = l + (i - l))
  BY <1>1
<1>6. Range(c) = Range(a) \cup Range(b)
  <2>1. \A x \in Range(c) : x \in Range(a) \cup Range(b)
    BY <1>2, <1>3, <1>4, <1>5 DEF Range
  <2>2. \A x \in Range(a) : x \in Range(c)
    BY <1>2, <1>3 DEF Range
  <2>3. \A x \in Range(b) : x \in Range(c)
    BY <1>2, <1>4 DEF Range
  <2>4. QED
    BY <2>1, <2>2, <2>3
<1>7. ASSUME NEW i \in 1 .. l + m, NEW j \in 1 .. l + m, c[i] = c[j] PROVE i = j
  <2>1. CASE i \in 1 .. l /\ j \in 1 .. l
    BY <1>2, <1>3, <1>7, <2>1 DEF IsInjective
  <2>2. CASE i - l \in 1 .. m /\ j - l \in 1 .. m
    <3>1. PICK x \in 1 .. m, y \in 1 .. m : i = l + x /\ j = l + y
      BY <1>1, <2>2
    <3>2. c[i] = b[x] /\ c[j] = b[y]
      BY <1>4, <3>1
    <3>3. x = y
      BY <1>2, <1>7, <3>2 DEF IsInjective
    <3>4. QED
      BY <3>1, <3>3
  <2>3. ASSUME NEW x \in 1 .. l, NEW y \in 1 .. m PROVE c[x] # c[l + y]
    <3>1. a[x] \in Range(a) /\ b[y] \in Range(b)
      BY <1>2 DEF Range
    <3>2. QED
      BY <1>3, <1>4, <3>1
  <2>4. CASE i \in 1 .. l /\ j - l \in 1 .. m
    <3>1. PICK y \in 1 .. m : j = l + y
      BY <1>1, <2>4
    <3>2. QED
      BY <1>7, <2>3, <2>4, <3>1
  <2>5. CASE i - l \in 1 .. m /\ j \in 1 .. l
    <3>1. PICK y \in 1 .. m : i = l + y
      BY <1>1, <2>5
    <3>2. QED
      BY <1>7, <2>3, <2>5, <3>1
  <2>6. QED
    BY <1>5, <2>1, <2>2, <2>4, <2>5
<1>8. IsInjective(c)
  BY <1>2, <1>7 DEF IsInjective
<1>9. QED
  BY <1>1, <1>6, <1>8 DEF c

LEMMA Flattened ==
  ASSUME NEW S, NEW seqs, Len(seqs) \in Nat, Len(seqs) > 0,
         \A i \in 1 .. Len(seqs) : seqs[i] \in Seq(S) /\ IsInjective(seqs[i]),
         \A i, j \in 1 .. Len(seqs) : i # j => Range(seqs[i]) \cap Range(seqs[j]) = {}
  PROVE  /\ FlattenSeq(seqs) \in Seq(S) /\ IsInjective(FlattenSeq(seqs))
         /\ Range(FlattenSeq(seqs)) = UNION {Range(seqs[i]) : i \in 1 .. Len(seqs)}
<1> DEFINE upTo(m) == UNION {Range(seqs[i]) : i \in 1 .. m}
           ok(g, m) == g \in Seq(S) /\ IsInjective(g) /\ Range(g) = upTo(m)
<1>1. PICK f : Flattens(f, seqs, Len(seqs)) /\ FlattenSeq(seqs) = f[Len(seqs)]
  BY FlattenIs
<1>2. \A i \in 1 .. Len(seqs) : f[i] = IF i = 1 THEN seqs[i] ELSE f[i - 1] \o seqs[i]
  BY <1>1 DEF Flattens
<1> DEFINE T == {m \in 1 .. Len(seqs) : ~ok(f[m], m)}
<1>3. T = {}
  <2> SUFFICES ASSUME T # {} PROVE FALSE
    OBVIOUS
  <2>1. T \subseteq Nat
    OBVIOUS
  <2> HIDE DEF T
  <2>2. PICK m \in T : \A y \in T : m <= y
    BY <2>1, Least
  <2>3. m \in 1 .. Len(seqs) /\ ~ok(f[m], m)
    BY DEF T
  <2>4. CASE m = 1
    <3>1. f[1] = seqs[1]
      BY <1>2, <2>3, <2>4
    <3>2. upTo(1) = Range(seqs[1])
      OBVIOUS
    <3>3. QED
      BY <2>3, <2>4, <3>1, <3>2
  <2>5. CASE m # 1
    <3>1. m - 1 \in 1 .. Len(seqs) /\ m - 1 \notin T
      BY <2>2, <2>3, <2>5
    <3>2. ok(f[m - 1], m - 1)
      BY <3>1 DEF T
    <3>3. f[m] = f[m - 1] \o seqs[m]
      BY <1>2, <2>3, <2>5
    <3>4. \A i \in 1 .. m - 1 : i \in 1 .. Len(seqs) /\ i # m
      BY <2>3
    <3>5. upTo(m - 1) \cap Range(seqs[m]) = {}
      BY <2>3, <3>4
    <3>6. upTo(m) = upTo(m - 1) \cup Range(seqs[m])
      <4>1. \A i \in 1 .. m : i \in 1 .. m - 1 \/ i = m
        BY <2>3
      <4>2. \A i \in 1 .. m - 1 : i \in 1 .. m
        BY <2>3
      <4>3. m \in 1 .. m
        BY <2>3
      <4>4. QED
        BY <4>1, <4>2, <4>3
    <3> HIDE DEF upTo
    <3>7. seqs[m] \in Seq(S) /\ IsInjective(seqs[m])
      BY <2>3
    <3>8. ok(f[m], m)
      BY <3>2, <3>3, <3>5, <3>6, <3>7, Joined
    <3>9. QED
      BY <2>3, <3>8
  <2>6. QED
    BY <2>4, <2>5
<1>4. ok(f[Len(seqs)], Len(seqs))
  <2>1. Len(seqs) \in 1 .. Len(seqs) /\ Len(seqs) \notin T
    BY <1>3
  <2>2. QED
    BY <2>1
<1>5. QED
  BY <1>1, <1>4
-----------------------------------------------------------------------------
(* The steps of a selector. *)

LEMMA EmptySelects == \A seen : seen = {} /\ k \in Nat => Chosen(<<>>, seen)
<1>1. Len(<<>>) = 0 /\ Range(<<>>) = {} /\ IsInjective(<<>>)
  BY DEF Range, IsInjective
<1>2. QED
  BY <1>1 DEF Chosen

LEMMA TailOf ==
  ASSUME NEW S, NEW l \in Seq(S), l # <<>>, IsInjective(l)
  PROVE  /\ Head(l) \in S /\ Head(l) \in Range(l)
         /\ Tail(l) \in Seq(S) /\ IsInjective(Tail(l)) /\ Len(Tail(l)) = Len(l) - 1
         /\ Range(Tail(l)) = Range(l) \ {Head(l)} /\ Len(l) \in Nat /\ Len(l) > 0
<1> DEFINE t == Tail(l)
           m == Len(l)
<1>1. /\ m \in Nat /\ m > 0 /\ Head(l) = l[1] /\ t \in Seq(S) /\ Len(t) = m - 1
      /\ \A i \in 1 .. m - 1 : t[i] = l[i + 1]
  BY LenProperties, EmptySeq, HeadTailProperties
<1>2. DOMAIN l = 1 .. m /\ DOMAIN t = 1 .. m - 1
  BY <1>1, LenProperties
<1>3. l[1] \in S /\ l[1] \in Range(l)
  <2>1. 1 \in 1 .. m
    BY <1>1
  <2>2. QED
    BY <1>2, <2>1 DEF Range
<1> HIDE DEF t, m
<1>4. ASSUME NEW i \in 1 .. m - 1, NEW j \in 1 .. m - 1, t[i] = t[j] PROVE i = j
  <2>1. i + 1 \in 1 .. m /\ j + 1 \in 1 .. m /\ l[i + 1] = l[j + 1]
    BY <1>1, <1>4
  <2>2. i + 1 = j + 1
    BY <1>2, <2>1 DEF IsInjective
  <2>3. QED
    BY <2>2
<1>5. \A x \in Range(t) : x \in Range(l) /\ x # l[1]
  <2> SUFFICES ASSUME NEW i \in 1 .. m - 1 PROVE t[i] \in Range(l) /\ t[i] # l[1]
    BY <1>2 DEF Range
  <2>1. i + 1 \in 1 .. m /\ 1 \in 1 .. m /\ i + 1 # 1 /\ t[i] = l[i + 1]
    BY <1>1
  <2>2. QED
    BY <1>2, <2>1 DEF Range, IsInjective
<1>6. \A x \in Range(l) : x = l[1] \/ x \in Range(t)
  <2> SUFFICES ASSUME NEW i \in 1 .. m, i # 1 PROVE l[i] \in Range(t)
    BY <1>2 DEF Range
  <2>1. PICK j \in 1 .. m - 1 : j = i - 1
    BY <1>1
  <2>2. t[j] = l[i]
    BY <1>1, <2>1
  <2>3. QED
    BY <1>2, <2>2 DEF Range
<1>7. IsInjective(t)
  BY <1>2, <1>4 DEF IsInjective
<1>8. QED
  BY <1>1, <1>3, <1>5, <1>6, <1>7 DEF t, m

\* What is enough for a selector after a step.
LEMMA SelectsAfter ==
  ASSUME UNCHANGED queryVars, NEW s, NEW h, NEW l, NEW in, NEW seen,
         heap'[s] = h, todo'[s] = l, Input(s)' = in, seen = (in \cap kept) \ Range(l),
         l \in Seq(1 .. n), IsInjective(l), Range(l) \subseteq in, Chosen(h, seen),
         s > 0 => Len(h) + Len(l) <= Len(Span(s)),
         s = 0 /\ ~Forked => Len(h) + Len(l) <= n
  PROVE  Selects(s)'
<1>1. \A a, b : Worse(a, b)' <=> Worse(a, b)
  BY DEF queryVars, Worse, IsNaN
<1>2. \A a : IsNaN(a)' <=> IsNaN(a)
  BY DEF queryVars, IsNaN
<1>3. Clean(heap[s])' => Clean(h)
  BY <1>2 DEF Clean
<1>4. Seen(s)' = seen
  BY DEF Seen, queryVars
<1>5. Chosen(heap[s], Seen(s))'
  BY <1>1, <1>3, <1>4 DEF Chosen, queryVars
<1>6. Span(s)' = Span(s) /\ (Forked' <=> Forked) /\ n' = n
  BY SpanStays DEF Forked, queryVars
<1>7. QED
  BY <1>5, <1>6 DEF Selects

LEMMA SelectsStay ==
  ASSUME UNCHANGED queryVars, NEW s, heap'[s] = heap[s], todo'[s] = todo[s],
         Input(s)' = Input(s), Selects(s)
  PROVE  Selects(s)'
<1> DEFINE h == heap[s]
           l == todo[s]
           seen == Seen(s)
<1>1. /\ l \in Seq(1 .. n) /\ IsInjective(l) /\ Range(l) \subseteq Input(s) /\ Chosen(h, seen)
      /\ s > 0 => Len(h) + Len(l) <= Len(Span(s))
      /\ s = 0 /\ ~Forked => Len(h) + Len(l) <= n
      /\ seen = (Input(s) \cap kept) \ Range(l) /\ todo'[s] = l /\ heap'[s] = h
  BY DEF Selects, Seen
<1> HIDE DEF h, l, seen
<1>2. QED
  BY <1>1, SelectsAfter

\* Between sifts the root is the worst of the rows a selector keeps.
LEMMA RootOf ==
  ASSUME IInv, NEW s \in Sel, pos[s] = 0, Clean(heap[s])
  PROVE  \A x \in Range(heap[s]) : ~Worse(x, heap[s][1])
<1>1. QueryType /\ SelType /\ Shape(s)
  BY DEF IInv
<1>2. ~KeepsNaN(s)
  BY DEF Clean, KeepsNaN
<1>3. IsHeap(heap[s]) /\ Numbers(heap[s])
  BY <1>1, <1>2, CleanNumbers DEF Shape
<1>4. heap[s] \in Seq(kept)
  BY <1>1 DEF SelType
<1>5. Len(heap[s]) \in Nat /\ DOMAIN heap[s] = 1 .. Len(heap[s])
  BY <1>4, LenProperties
<1>6. \A i \in 1 .. Len(heap[s]) : ~Worse(heap[s][i], heap[s][1])
  BY <1>1, <1>3, <1>5, HeapRoot
<1>7. QED
  BY <1>5, <1>6 DEF Range

\* The rows of a heap are rows of the store.
LEMMA HeapRows ==
  ASSUME IInv, NEW s \in Sel
  PROVE  /\ heap[s] \in Seq(1 .. n) /\ Range(heap[s]) \subseteq kept /\ kept \subseteq 1 .. n
         /\ Len(heap[s]) \in Nat /\ DOMAIN heap[s] = 1 .. Len(heap[s])
<1>1. heap[s] \in Seq(kept) /\ kept \subseteq 1 .. n
  BY DEF IInv, SelType, QueryType
<1>2. /\ Len(heap[s]) \in Nat /\ DOMAIN heap[s] = 1 .. Len(heap[s])
      /\ \A i \in 1 .. Len(heap[s]) : heap[s][i] \in kept
  BY <1>1, LenProperties, ElementOfSeq
<1>3. heap[s] \in Seq(1 .. n)
  <2>1. heap[s] \in [1 .. Len(heap[s]) -> kept]
    BY <1>1, LenProperties
  <2>2. heap[s] \in [1 .. Len(heap[s]) -> 1 .. n]
    BY <1>1, <2>1
  <2>3. QED
    BY <1>2, <2>2, SeqDef
<1>4. QED
  BY <1>1, <1>2, <1>3 DEF Range

\* A selector in the middle of something has been given its rows.
LEMMA Busy ==
  ASSUME IInv, Selection, NEW s \in Sel, todo[s] # <<>> \/ pos[s] > 0
  PROVE  Active(s) /\ Selects(s) /\ Running(s)
<1>1. CASE todo[s] # <<>>
  BY <1>1 DEF Selection, Untouched
<1>2. CASE pos[s] > 0
  <2>1. pos[s] # 0 /\ pos[s] \in Nat /\ pos[s] <= Len(heap[s])
    BY <1>2 DEF IInv, SelType
  <2>2. heap[s] # <<>>
    BY <2>1
  <2>3. QED
    BY <2>1, <2>2 DEF Selection, Untouched
<1>3. QED
  BY <1>1, <1>2

\* A step of one selector leaves the others and the caller alone.
LEMMA OneSelector ==
  ASSUME IInv, Selection, NEW s \in Sel, todo[s] # <<>> \/ pos[s] > 0,
         UNCHANGED <<queryVars, pc, result>>,
         \A t \in Sel \ {s} : heap'[t] = heap[t] /\ todo'[t] = todo[t] /\ pos'[t] = pos[t],
         Selects(s)'
  PROVE  Selection'
<1>1. Active(s) /\ Running(s)
  BY Busy
<1>2. /\ \A t : Active(t)' <=> Active(t)
      /\ \A t : Running(t)' <=> Running(t)
      /\ Forked' <=> Forked
  BY DEF Active, Running, Forked, Workers, Smaller, queryVars
<1>3. QueryBounds' /\ Caller'
  BY <1>2 DEF Selection, QueryBounds, Caller, queryVars
<1>4. ASSUME NEW t \in Sel, t # s
      PROVE  (Active(t) /\ Selects(t))' \/ (~Active(t) /\ Untouched(t))'
  <2>1. heap'[t] = heap[t] /\ todo'[t] = todo[t]
    BY <1>4
  <2>2. CASE ~Active(t)
    BY <1>2, <2>1, <2>2 DEF Selection, Untouched
  <2>3. CASE Active(t)
    <3>1. Selects(t)
      BY <2>3 DEF Selection
    <3>2. t > 0
      <4>1. t = 0 => s = 0
        BY <1>1, <2>3 DEF Active, Running
      <4>2. t \in Nat
        BY BoundAssumption DEF Sel
      <4>3. QED
        BY <1>4, <4>1, <4>2
    <3>3. Input(t)' = Input(t)
      BY <3>2, SpanStays DEF Input
    <3>4. Selects(t)'
      BY <2>1, <3>1, <3>3, SelectsStay
    <3>5. QED
      BY <1>2, <2>3, <3>4
  <2>4. QED
    BY <2>2, <2>3
<1>5. \A t \in Sel : ~Running(t)' => todo'[t] = <<>> /\ pos'[t] = 0
  BY <1>1, <1>2 DEF Selection
<1>6. ResultIsNearest'
  BY <1>1 DEF Running, ResultIsNearest
<1>7. QED
  BY <1>1, <1>2, <1>3, <1>4, <1>5, <1>6 DEF Selection
LEMMA WorkersAreSelectors ==
  ASSUME QueryBounds
  PROVE  Workers \in Nat /\ \A w \in 1 .. Workers : w \in Sel /\ w # 0
  BY BoundAssumption DEF QueryBounds, Workers, Smaller, Sel

\* A selector does not change its own input.
LEMMA InputStays ==
  ASSUME QueryBounds, UNCHANGED queryVars, NEW s \in Sel,
         \A t \in Sel \ {s} : heap'[t] = heap[t]
  PROVE  Input(s)' = Input(s)
<1>1. CASE s > 0
  BY <1>1, SpanStays DEF Input
<1>2. CASE s = 0
  <2>1. (Forked' <=> Forked) /\ Workers' = Workers /\ n' = n
    BY DEF Forked, Workers, Smaller, queryVars
  <2>2. \A w \in 1 .. Workers : heap'[w] = heap[w]
    BY <1>2, WorkersAreSelectors
  <2>3. {Range(heap[w]) : w \in 1 .. Workers}' = {Range(heap[w]) : w \in 1 .. Workers}
    BY <2>1, <2>2
  <2> DEFINE U == UNION {Range(heap[w]) : w \in 1 .. Workers}
  <2>4. U' = U
    BY <2>3
  <2>5. Input(0) = (IF Forked THEN U ELSE 1 .. n) /\ Input(0)' = IF Forked' THEN U' ELSE 1 .. n'
    BY DEF Input
  <2> HIDE DEF U
  <2>6. QED
    BY <1>2, <2>1, <2>4, <2>5
<1>3. s \in Nat
  BY BoundAssumption DEF Sel
<1>4. QED
  BY <1>1, <1>2, <1>3

LEMMA ConsiderSelection ==
  ASSUME IInv, Selection, NEW s \in Sel, Consider(s)
  PROVE  Selection'
<1> DEFINE i == Head(todo[s])
           h == heap[s]
           l == todo[s]
           t == Tail(todo[s])
           in == Input(s)
<1>1. /\ Running(s) /\ pos[s] = 0 /\ l # <<>>
      /\ \/ ~Passes(i) /\ UNCHANGED <<heap, pos, upward>>
         \/ /\ Passes(i) /\ Len(h) < Capacity(s)
            /\ heap' = [heap EXCEPT ![s] = Append(h, i)]
            /\ pos' = [pos EXCEPT ![s] = Len(h) + 1]
         \/ /\ Passes(i) /\ Len(h) >= Capacity(s) /\ Worse(h[1], i)
            /\ heap' = [heap EXCEPT ![s][1] = i]
            /\ pos' = [pos EXCEPT ![s] = 1]
         \/ /\ Passes(i) /\ Len(h) >= Capacity(s) /\ ~Worse(h[1], i)
            /\ UNCHANGED <<heap, pos, upward>>
      /\ todo' = [todo EXCEPT ![s] = t]
      /\ UNCHANGED <<queryVars, pc, result>>
  BY DEF Consider
<1>2. /\ Active(s) /\ l \in Seq(1 .. n) /\ IsInjective(l) /\ Range(l) \subseteq in
      /\ Chosen(h, Seen(s))
      /\ s > 0 => Len(h) + Len(l) <= Len(Span(s))
      /\ s = 0 /\ ~Forked => Len(h) + Len(l) <= n
  BY <1>1, Busy DEF Selects
<1>3. /\ QueryType /\ SelType /\ h \in Seq(1 .. n) /\ Len(h) \in Nat /\ kept \subseteq 1 .. n
      /\ n \in Nat /\ k \in Int /\ s \in Nat
  BY HeapRows, BoundAssumption DEF IInv, QueryType, Sel
<1>4. k > 0 /\ n > 0
  BY <1>2 DEF Active
<1>5. heap = [u \in Sel |-> heap[u]] /\ pos = [u \in Sel |-> pos[u]] /\ todo = [u \in Sel |-> todo[u]]
  BY <1>3 DEF SelType
<1>6. /\ i \in 1 .. n /\ i \in Range(l) /\ t \in Seq(1 .. n) /\ IsInjective(t)
      /\ Len(t) = Len(l) - 1 /\ Range(t) = Range(l) \ {i} /\ Len(l) \in Nat /\ Len(l) > 0
  BY <1>1, <1>2, TailOf
<1>7. Clean(h) => \A x \in Range(h) : ~Worse(x, h[1])
  BY <1>1, RootOf
<1>8. Input(s)' = in
  <2>1. \A u \in Sel \ {s} : heap'[u] = heap[u]
    BY <1>1, <1>5
  <2>2. QED
    BY <1>1, <2>1, InputStays DEF Selection
<1>9. Seen(s) = (in \cap kept) \ Range(l) /\ Seen(s) \subseteq 1 .. n /\ i \notin Seen(s) /\ i \in in
  BY <1>2, <1>3, <1>6 DEF Seen
<1> DEFINE seen == (in \cap kept) \ Range(t)
<1>10. seen = IF Passes(i) THEN Seen(s) \cup {i} ELSE Seen(s)
  BY <1>6, <1>9 DEF Passes
<1> HIDE DEF i, l, t, h, in, seen
<1>11. Len(h) >= Capacity(s) => Len(h) >= k
  <2>1. s > 0 => Len(Span(s)) \in Nat
    BY <1>2, <1>3, <1>4, SpanIs DEF Active
  <2>2. CASE s > 0
    BY <1>2, <1>3, <1>6, <2>1, <2>2 DEF Capacity, Smaller
  <2>3. CASE s = 0
    BY <1>2, <1>3, <1>6, <2>3 DEF Capacity, Smaller
  <2>4. QED
    BY <1>3, <2>2, <2>3
<1>12. Len(h) < Capacity(s) => Len(h) < k
  <2>1. s > 0 => Len(Span(s)) \in Nat
    BY <1>2, <1>3, <1>4, SpanIs DEF Active
  <2>2. QED
    BY <1>3, <2>1 DEF Capacity, Smaller
<1>13. /\ todo'[s] = t
       /\ \A u \in Sel \ {s} : heap'[u] = heap[u] /\ todo'[u] = todo[u] /\ pos'[u] = pos[u]
  BY <1>1, <1>5
<1>14. ASSUME NEW g, heap'[s] = g, Chosen(g, seen), Len(g) \in Nat, Len(g) <= Len(h) + 1
       PROVE  Selection'
  <2>1. s > 0 => Len(g) + Len(t) <= Len(Span(s))
    <3>1. s > 0 => Len(Span(s)) \in Nat
      BY <1>2, <1>3, <1>4, SpanIs DEF Active
    <3>2. QED
      BY <1>2, <1>3, <1>6, <1>14, <3>1
  <2>2. s = 0 /\ ~Forked => Len(g) + Len(t) <= n
    BY <1>2, <1>3, <1>6, <1>14
  <2>3. Range(t) \subseteq in
    BY <1>2, <1>6
  <2>4. Selects(s)'
    BY <1>1, <1>6, <1>8, <1>13, <1>14, <2>1, <2>2, <2>3, SelectsAfter DEF seen
  <2>5. QED
    BY <1>1, <1>13, <2>4, OneSelector DEF l
<1>15. CASE ~Passes(i) /\ UNCHANGED heap
  <2>1. heap'[s] = h /\ seen = Seen(s)
    BY <1>10, <1>15 DEF h
  <2>2. QED
    BY <1>2, <1>3, <1>14, <2>1
<1>16. CASE Passes(i) /\ Len(h) < Capacity(s) /\ heap' = [heap EXCEPT ![s] = Append(h, i)]
  <2> DEFINE g == Append(h, i)
  <2>1. heap'[s] = g
    BY <1>5, <1>16
  <2>2. Len(g) = Len(h) + 1 /\ Len(g) \in Nat
    BY <1>3, <1>6, AppendProperties
  <2>3. Chosen(g, seen)
    BY <1>2, <1>3, <1>6, <1>9, <1>10, <1>12, <1>16, ChosenAppend
  <2> HIDE DEF g
  <2>4. QED
    BY <1>3, <1>14, <2>1, <2>2, <2>3
<1>17. CASE /\ Passes(i) /\ Len(h) >= Capacity(s) /\ Worse(h[1], i)
            /\ heap' = [heap EXCEPT ![s][1] = i]
  <2> DEFINE g == [h EXCEPT ![1] = i]
  <2>1. heap'[s] = g
    BY <1>5, <1>17 DEF h
  <2>2. Len(h) >= k /\ Len(h) > 0
    BY <1>3, <1>4, <1>11, <1>17
  <2>3. Len(g) = Len(h)
    BY <1>3, <1>6, <2>2, ExceptSeq
  <2>4. Chosen(g, seen)
    BY <1>2, <1>3, <1>6, <1>7, <1>9, <1>10, <1>17, <2>2, ChosenReplace
  <2> HIDE DEF g
  <2>5. QED
    BY <1>3, <1>14, <2>1, <2>3, <2>4
<1>18. CASE /\ Passes(i) /\ Len(h) >= Capacity(s) /\ ~Worse(h[1], i)
            /\ UNCHANGED heap
  <2>1. heap'[s] = h
    BY <1>18 DEF h
  <2>2. Len(h) >= k /\ Len(h) > 0
    BY <1>3, <1>4, <1>11, <1>18
  <2>3. Chosen(h, seen)
    BY <1>2, <1>3, <1>6, <1>7, <1>9, <1>10, <1>18, <2>2, ChosenReject
  <2>4. QED
    BY <1>3, <1>14, <2>1, <2>3
<1>19. QED
  BY <1>1, <1>15, <1>16, <1>17, <1>18

LEMMA SwapSelection ==
  ASSUME IInv, Selection, NEW s \in Sel, NEW i \in 1 .. Len(heap[s]), NEW j \in 1 .. Len(heap[s]),
         i # j, pos[s] > 0, Swap(s, i, j), UNCHANGED <<queryVars, todo, upward, pc, result>>
  PROVE  Selection'
<1> DEFINE h == heap[s]
           g == heap'[s]
<1>1. /\ SelType' /\ Exchanged(g, h, i, j)
      /\ \A u \in Sel \ {s} : heap'[u] = heap[u] /\ pos'[u] = pos[u]
  BY SwapIs
<1>2. Active(s) /\ Selects(s) /\ Running(s)
  BY Busy
<1>3. h \in Seq(1 .. n) /\ Len(h) \in Nat /\ DOMAIN h = 1 .. Len(h)
  BY HeapRows
<1>4. DOMAIN g = 1 .. Len(g) /\ Len(g) = Len(h)
  <2>1. g \in Seq(kept')
    BY <1>1 DEF SelType
  <2>2. QED
    BY <1>1, <2>1, LenProperties DEF Exchanged
<1> DEFINE seen == Seen(s)
           l == todo[s]
<1>5. Chosen(g, seen)
  <2>1. Chosen(h, seen)
    BY <1>2 DEF Selects
  <2> HIDE DEF h, g, seen
  <2>2. i \in 1 .. Len(h) /\ j \in 1 .. Len(h)
    BY DEF h
  <2>3. QED
    BY <1>1, <1>3, <1>4, <2>1, <2>2, ChosenExchanged
<1>6. Input(s)' = Input(s)
  BY <1>1, InputStays DEF Selection
<1>7. Selects(s)'
  <2>1. /\ l \in Seq(1 .. n) /\ IsInjective(l) /\ Range(l) \subseteq Input(s)
        /\ s > 0 => Len(h) + Len(l) <= Len(Span(s))
        /\ s = 0 /\ ~Forked => Len(h) + Len(l) <= n
        /\ seen = (Input(s) \cap kept) \ Range(l)
    BY <1>2 DEF Selects, Seen
  <2> HIDE DEF h, seen
  <2>2. todo'[s] = l /\ heap'[s] = g
    OBVIOUS
  <2> HIDE DEF g, l
  <2>3. QED
    BY <1>4, <1>5, <1>6, <2>1, <2>2, SelectsAfter
<1>8. QED
  BY <1>1, <1>7, OneSelector
LEMMA SiftEndsSelection ==
  ASSUME IInv, Selection, NEW s \in Sel, pos[s] > 0, SiftEnds(s),
         UNCHANGED <<queryVars, todo, upward, pc, result>>
  PROVE  Selection'
<1>1. heap' = heap /\ \A t \in Sel \ {s} : pos'[t] = pos[t]
  BY DEF SiftEnds, IInv, SelType
<1>2. Selects(s)
  BY Busy
<1>3. Input(s)' = Input(s)
  BY <1>1, InputStays DEF Selection
<1>4. Selects(s)'
  BY <1>1, <1>2, <1>3, SelectsStay
<1>5. QED
  BY <1>1, <1>4, OneSelector

LEMMA SiftUpSelection ==
  ASSUME IInv, Selection, NEW s \in Sel, SiftUp(s)
  PROVE  Selection'
<1>1. /\ pos[s] > 0 /\ UNCHANGED <<queryVars, todo, upward, pc, result>>
      /\ \/ RisesAbove(heap[s], pos[s]) /\ Swap(s, pos[s], pos[s] \div 2)
         \/ SiftEnds(s)
  BY DEF SiftUp
<1>2. pos[s] \in 1 .. Len(heap[s]) /\ Len(heap[s]) \in Nat
  BY <1>1, HeapRows DEF IInv, SelType
<1>3. CASE RisesAbove(heap[s], pos[s]) /\ Swap(s, pos[s], pos[s] \div 2)
  <2>1. pos[s] \div 2 \in 1 .. Len(heap[s]) /\ pos[s] \div 2 # pos[s]
    BY <1>2, <1>3 DEF RisesAbove
  <2>2. QED
    BY <1>1, <1>2, <1>3, <2>1, SwapSelection
<1>4. CASE SiftEnds(s)
  BY <1>1, <1>4, SiftEndsSelection
<1>5. QED
  BY <1>1, <1>3, <1>4

LEMMA SiftDownSelection ==
  ASSUME IInv, Selection, NEW s \in Sel, SiftDown(s)
  PROVE  Selection'
<1> DEFINE w == WorstOf(heap[s], pos[s])
<1>1. /\ pos[s] > 0 /\ UNCHANGED <<queryVars, todo, upward, pc, result>>
      /\ \/ w # pos[s] /\ Swap(s, pos[s], w)
         \/ SiftEnds(s)
  BY DEF SiftDown
<1>2. pos[s] \in 1 .. Len(heap[s]) /\ Len(heap[s]) \in Nat
  BY <1>1, HeapRows DEF IInv, SelType
<1>3. w \in 1 .. Len(heap[s])
  BY <1>2, WorstOfIn
<1> HIDE DEF w
<1>4. CASE w # pos[s] /\ Swap(s, pos[s], w)
  BY <1>1, <1>2, <1>3, <1>4, SwapSelection
<1>5. CASE SiftEnds(s)
  BY <1>1, <1>5, SiftEndsSelection
<1>6. QED
  BY <1>1, <1>4, <1>5
-----------------------------------------------------------------------------
(* The steps of the caller. *)

LEMMA RowsIs ==
  ASSUME n \in Nat
  PROVE  Rows \in Seq(1 .. n) /\ IsInjective(Rows) /\ Range(Rows) = 1 .. n /\ Len(Rows) = n
<1>1. Rows \in [1 .. n -> 1 .. n]
  BY DEF Rows
<1>2. IsInjective(Rows)
  BY DEF Rows, IsInjective
<1>3. Range(Rows) = 1 .. n
  BY DEF Rows, Range
<1>4. Rows \in Seq(1 .. n) /\ Len(Rows) = n
  BY <1>1, SeqDef
<1>5. QED
  BY <1>2, <1>3, <1>4

\* A selector that is given its rows.
LEMMA Begins ==
  ASSUME UNCHANGED queryVars, QueryType, k > 0, NEW s, NEW l, NEW in,
         heap'[s] = <<>>, todo'[s] = l, Input(s)' = in,
         l \in Seq(1 .. n), IsInjective(l), Range(l) = in,
         s > 0 => Len(l) <= Len(Span(s)), s = 0 /\ ~Forked => Len(l) <= n
  PROVE  Selects(s)'
<1>1. Chosen(<<>>, {}) /\ (in \cap kept) \ Range(l) = {}
  BY EmptySelects DEF QueryType
<1>2. Len(<<>>) + Len(l) = Len(l)
  BY LenProperties
<1>3. Range(l) \subseteq in
  OBVIOUS
<1>4. s > 0 => Len(<<>>) + Len(l) <= Len(Span(s))
  BY <1>2
<1>5. s = 0 /\ ~Forked => Len(<<>>) + Len(l) <= n
  BY <1>2
<1> DEFINE h == <<>>
           seen == {}
<1> HIDE DEF h, seen
<1>6. h = <<>> /\ seen = {}
  BY DEF h, seen
<1>7. QED
  BY <1>1, <1>3, <1>4, <1>5, <1>6, SelectsAfter

LEMMA NothingFound ==
  ASSUME QueryType, UNCHANGED queryVars, result' = Nil, k <= 0 \/ kept = {}
  PROVE  ResultIsNearest'
<1>1. /\ Len(<<>>) = 0 /\ IsInjective(<<>>) /\ DOMAIN <<>> = {} /\ Range(<<>>) = {}
  BY DEF IsInjective, Range
<1>2. 0 = IF k <= 0 THEN 0 ELSE Smaller(k, Cardinality(kept))
  <2>1. CASE k <= 0
    BY <2>1
  <2>2. CASE k > 0 /\ kept = {}
    <3>1. Cardinality(kept) = 0
      BY <2>2, FS_EmptySet
    <3>2. QED
      BY <2>2, <3>1 DEF QueryType, Smaller
  <2>3. QED
    BY <2>1, <2>2 DEF QueryType
<1>3. k' = k /\ kept' = kept
  BY DEF queryVars
<1> DEFINE none == <<>>
<1> HIDE DEF none
<1>4. /\ Len(none) = 0 /\ IsInjective(none) /\ DOMAIN none = {} /\ Range(none) = {}
  BY <1>1 DEF none
<1>5. (IF result' = Nil THEN <<>> ELSE result') = none
  BY DEF none
<1>6. QED
  BY <1>2, <1>3, <1>4, <1>5 DEF ResultIsNearest, Smaller

LEMMA StartSelection ==
  ASSUME IInv, Selection, Start
  PROVE  Selection'
<1>1. /\ pc = "start" /\ UNCHANGED <<queryVars, heap, pos, upward, result>>
      /\ \/ (k <= 0 \/ n = 0) /\ pc' = "done" /\ UNCHANGED todo
         \/ /\ k > 0 /\ n > 0 /\ ~Forked /\ pc' = "select"
            /\ todo' = [todo EXCEPT ![0] = Rows]
         \/ /\ k > 0 /\ n > 0 /\ Forked /\ pc' = "wait"
            /\ todo' = [w \in Sel |-> IF w \in 1 .. Workers THEN Span(w) ELSE <<>>]
  BY DEF Start
<1>2. /\ QueryType /\ QueryBounds /\ result = Nil /\ k \in Int /\ n \in Nat
      /\ QueryType' /\ QueryBounds' /\ k' = k /\ n' = n /\ kept' = kept /\ kept \subseteq 1 .. n
  BY <1>1 DEF IInv, QueryType, Selection, Caller, QueryBounds, queryVars
<1>3. \A s \in Sel : heap[s] = <<>> /\ todo[s] = <<>> /\ pos[s] = 0 /\ s \in Nat
  BY <1>1, BoundAssumption DEF Selection, Active, Untouched, Running, Sel
<1>4. (Forked' <=> Forked) /\ Workers' = Workers /\ \A s : Span(s)' = Span(s)
  BY <1>1, SpanStays DEF Forked, Workers, Smaller, queryVars
<1>5. todo = [s \in Sel |-> todo[s]] /\ 0 \in Sel
  BY BoundAssumption DEF IInv, SelType, Sel
<1>6. CASE (k <= 0 \/ n = 0) /\ pc' = "done" /\ UNCHANGED todo
  <2>1. ResultIsNearest'
    <3>1. k <= 0 \/ kept = {}
      BY <1>2, <1>6
    <3>2. QED
      BY <1>1, <1>2, <3>1, NothingFound
  <2>2. \A s : ~Active(s)'
    BY <1>2, <1>6 DEF Active
  <2>3. QED
    BY <1>1, <1>2, <1>3, <1>6, <2>1, <2>2 DEF Selection, Caller, Untouched
<1>7. CASE /\ k > 0 /\ n > 0 /\ ~Forked /\ pc' = "select"
           /\ todo' = [todo EXCEPT ![0] = Rows]
  <2>1. todo'[0] = Rows /\ \A s \in Sel : s # 0 => todo'[s] = <<>>
    BY <1>3, <1>5, <1>7
  <2>2. Selects(0)'
    <3>1. Input(0)' = 1 .. n
      BY <1>2, <1>4, <1>7 DEF Input
    <3>2. heap'[0] = <<>>
      BY <1>1, <1>3, <1>5
    <3>3. QED
      BY <1>1, <1>2, <1>7, <2>1, <3>1, <3>2, RowsIs, Begins
  <2>3. Active(0)' /\ \A s \in Sel : s # 0 => ~Active(s)'
    BY <1>2, <1>4, <1>7 DEF Active
  <2>4. \A s \in Sel : s # 0 => Untouched(s)'
    BY <1>1, <1>3, <2>1 DEF Untouched
  <2>5. \A s \in Sel : ~Running(s)' => todo'[s] = <<>> /\ pos'[s] = 0
    BY <1>1, <1>3, <1>7, <2>1 DEF Running
  <2>6. QED
    BY <1>1, <1>2, <1>7, <2>2, <2>3, <2>4, <2>5 DEF Selection, Caller, ResultIsNearest
<1>8. CASE /\ k > 0 /\ n > 0 /\ Forked /\ pc' = "wait"
           /\ todo' = [w \in Sel |-> IF w \in 1 .. Workers THEN Span(w) ELSE <<>>]
  <2>1. \A w \in 1 .. Workers : w \in Sel /\ w # 0
    BY <1>2, WorkersAreSelectors
  <2>2. ASSUME NEW w \in 1 .. Workers PROVE Selects(w)'
    <3>1. Span(w) \in Seq(1 .. n) /\ IsInjective(Span(w)) /\ Len(Span(w)) \in Nat
      BY <1>2, <1>8, SpanIs
    <3>2. w > 0
      BY <1>3, <2>1, <2>2
    <3>3. Input(w)' = Range(Span(w))
      BY <1>4, <3>2 DEF Input
    <3>4. heap'[w] = <<>> /\ todo'[w] = Span(w)
      BY <1>1, <1>3, <1>8, <2>1, <2>2
    <3>5. Len(Span(w)) <= Len(Span(w)) /\ w # 0
      BY <3>1, <3>2
    <3> DEFINE l == Span(w)
               in == Range(l)
    <3> HIDE DEF l, in
    <3>6. /\ l \in Seq(1 .. n) /\ IsInjective(l) /\ Input(w)' = in /\ Range(l) = in
          /\ todo'[w] = l /\ Len(l) <= Len(Span(w))
      BY <3>1, <3>3, <3>4, <3>5 DEF l, in
    <3>7. QED
      BY <1>1, <1>2, <1>8, <3>4, <3>5, <3>6, Begins
  <2>3. \A s \in Sel : IF s \in 1 .. Workers THEN Active(s)' ELSE ~Active(s)'
    BY <1>2, <1>4, <1>8, <2>1 DEF Active
  <2>4. \A s \in Sel : s \notin 1 .. Workers => Untouched(s)'
    BY <1>1, <1>3, <1>8 DEF Untouched
  <2>5. \A s \in Sel : ~Running(s)' => todo'[s] = <<>> /\ pos'[s] = 0
    BY <1>1, <1>3, <1>8, <2>1 DEF Running
  <2>6. \A s \in Sel : (Active(s) /\ Selects(s))' \/ (~Active(s) /\ Untouched(s))'
    BY <2>2, <2>3, <2>4
  <2>7. QED
    BY <1>1, <1>2, <1>4, <1>8, <2>5, <2>6 DEF Selection, Caller, ResultIsNearest
<1>9. QED
  BY <1>1, <1>6, <1>7, <1>8
\* What the workers kept is of different spans.
LEMMA WorkersApart ==
  ASSUME IInv, Selection, Forked, k > 0, n > 0, pc # "start"
  PROVE  /\ \A w \in 1 .. Workers :
              /\ Selects(w) /\ w \in Sel /\ w > 0
              /\ heap[w] \in Seq(1 .. n) /\ IsInjective(heap[w])
              /\ Range(heap[w]) \subseteq Range(Span(w)) \cap kept
         /\ \A v, w \in 1 .. Workers : v # w => Range(heap[v]) \cap Range(heap[w]) = {}
<1>1. Workers \in Nat /\ \A w \in 1 .. Workers : w \in Sel /\ w # 0
  BY WorkersAreSelectors DEF Selection
<1>2. QueryType
  BY DEF IInv
<1>3. ASSUME NEW w \in 1 .. Workers
      PROVE  /\ Selects(w) /\ w \in Sel /\ w > 0
             /\ heap[w] \in Seq(1 .. n) /\ IsInjective(heap[w])
             /\ Range(heap[w]) \subseteq Range(Span(w)) \cap kept
  <2>1. w > 0 /\ w \in Sel
    BY <1>1
  <2>2. Selects(w)
    BY <1>1, <2>1 DEF Selection, Active
  <2>3. heap[w] \in Seq(1 .. n)
    BY <2>1, HeapRows
  <2>4. IsInjective(heap[w]) /\ Range(heap[w]) \subseteq Range(Span(w)) \cap kept
    BY <2>1, <2>2 DEF Selects, Chosen, Seen, Input
  <2>5. QED
    BY <2>1, <2>2, <2>3, <2>4
<1>4. ASSUME NEW v \in 1 .. Workers, NEW w \in 1 .. Workers, v # w
      PROVE  Range(heap[v]) \cap Range(heap[w]) = {}
  BY <1>2, <1>3, <1>4, SpansApart
<1>5. QED
  BY <1>3, <1>4

LEMMA PartialIs ==
  ASSUME IInv, Selection, Forked, k > 0, n > 0, pc # "start"
  PROVE  /\ Partial \in Seq(1 .. n) /\ IsInjective(Partial)
         /\ Range(Partial) = UNION {Range(heap[w]) : w \in 1 .. Workers}
<1>1. Workers \in Nat \ {0}
  BY ChunkIs DEF IInv
<1> DEFINE seqs == [w \in 1 .. Workers |-> heap[w]]
<1>2. Partial = FlattenSeq(seqs)
  BY DEF Partial
<1>3. \A w \in 1 .. Workers : seqs[w] = heap[w]
  OBVIOUS
<1>4. Len(seqs) = Workers
  <2>1. seqs \in [1 .. Workers -> {heap[w] : w \in 1 .. Workers}]
    OBVIOUS
  <2> HIDE DEF seqs
  <2>2. seqs \in Seq({heap[w] : w \in 1 .. Workers})
    BY <1>1, <2>1, SeqDef
  <2>3. QED
    BY <1>1, <2>1, <2>2, LenProperties
<1> HIDE DEF seqs
<1>5. /\ \A w \in 1 .. Len(seqs) : seqs[w] \in Seq(1 .. n) /\ IsInjective(seqs[w])
      /\ \A v, w \in 1 .. Len(seqs) : v # w => Range(seqs[v]) \cap Range(seqs[w]) = {}
  BY <1>3, <1>4, WorkersApart
<1>6. /\ FlattenSeq(seqs) \in Seq(1 .. n) /\ IsInjective(FlattenSeq(seqs))
      /\ Range(FlattenSeq(seqs)) = UNION {Range(seqs[w]) : w \in 1 .. Len(seqs)}
  <2>1. Len(seqs) \in Nat /\ Len(seqs) > 0
    BY <1>1, <1>4
  <2>2. QED
    BY <1>5, <2>1, Flattened
<1>7. {Range(seqs[w]) : w \in 1 .. Len(seqs)} = {Range(heap[w]) : w \in 1 .. Workers}
  BY <1>3, <1>4
<1>8. QED
  BY <1>2, <1>6, <1>7

\* What the workers kept does not change any more.
LEMMA OthersKeep ==
  ASSUME UNCHANGED <<queryVars, heap, todo>>, NEW s, Selects(s)
  PROVE  Selects(s)'
<1>1. Input(s)' = Input(s)
  <2>1. (Forked' <=> Forked) /\ Workers' = Workers /\ n' = n /\ Span(s)' = Span(s)
    BY SpanStays DEF Forked, Workers, Smaller, queryVars
  <2> DEFINE U == UNION {Range(heap[w]) : w \in 1 .. Workers}
  <2>2. U' = U
    BY <2>1
  <2>3. /\ Input(s) = IF s > 0 THEN Range(Span(s)) ELSE IF Forked THEN U ELSE 1 .. n
        /\ Input(s)' = IF s > 0 THEN Range(Span(s)') ELSE IF Forked' THEN U' ELSE 1 .. n'
    BY DEF Input
  <2> HIDE DEF U
  <2>4. QED
    BY <2>1, <2>2, <2>3
<1>2. QED
  BY <1>1, SelectsStay

LEMMA MergeSelection ==
  ASSUME IInv, Selection, Merge
  PROVE  Selection'
<1>1. /\ pc = "wait" /\ WorkersDone /\ UNCHANGED <<queryVars, heap, pos, upward, result>>
      /\ \/ pc' = "panic" /\ UNCHANGED todo
         \/ pc' = "select" /\ todo' = [todo EXCEPT ![0] = Partial]
  BY DEF Merge
<1>2. /\ QueryType /\ QueryBounds' /\ k > 0 /\ n > 0 /\ k' = k /\ n' = n /\ Forked /\ result' = Nil
  BY <1>1 DEF IInv, HasRoom, Selection, QueryBounds, Caller, queryVars
<1>3. (Forked' <=> Forked) /\ Workers' = Workers
  BY <1>1 DEF Forked, Workers, Smaller, queryVars
<1>4. todo = [s \in Sel |-> todo[s]] /\ 0 \in Sel /\ \A s \in Sel : s \in Nat
  BY BoundAssumption DEF IInv, SelType, Sel
<1>5. \A s \in Sel : todo[s] = <<>> /\ pos[s] = 0
  <2> SUFFICES ASSUME NEW s \in Sel PROVE todo[s] = <<>> /\ pos[s] = 0
    OBVIOUS
  <2>1. CASE s \in 1 .. Workers
    BY <1>1, <2>1 DEF WorkersDone, Finished
  <2>2. CASE s \notin 1 .. Workers
    <3>1. ~Active(s)
      BY <1>1, <2>2 DEF Active
    <3>2. ~(todo[s] # <<>> \/ pos[s] > 0)
      BY <3>1, Busy
    <3>3. pos[s] \in Nat
      BY DEF IInv, SelType
    <3>4. QED
      BY <3>2, <3>3
  <2>3. QED
    BY <2>1, <2>2
<1>6. heap[0] = <<>> /\ ~Active(0)
  BY <1>1, <1>4 DEF Selection, Untouched, Active
<1>7. \A s \in Sel : s # 0 => (Active(s)' <=> Active(s))
  BY <1>1, <1>2, <1>3 DEF Active
<1>8. CASE pc' = "panic" /\ UNCHANGED todo
  <2>1. \A s \in Sel : (Active(s) /\ Selects(s))' \/ (~Active(s) /\ Untouched(s))'
    <3> SUFFICES ASSUME NEW s \in Sel
                 PROVE  (Active(s) /\ Selects(s))' \/ (~Active(s) /\ Untouched(s))'
      OBVIOUS
    <3>1. Active(s)' <=> Active(s)
      BY <1>6, <1>7, <1>8 DEF Active
    <3>2. CASE Active(s)
      BY <1>1, <1>8, <3>1, <3>2, OthersKeep DEF Selection
    <3>3. CASE ~Active(s)
      BY <1>1, <1>8, <3>1, <3>3 DEF Selection, Untouched
    <3>4. QED
      BY <3>2, <3>3
  <2>2. QED
    BY <1>1, <1>2, <1>3, <1>5, <1>8, <2>1 DEF Selection, Caller, ResultIsNearest
<1>9. CASE pc' = "select" /\ todo' = [todo EXCEPT ![0] = Partial]
  <2>1. todo'[0] = Partial /\ \A s \in Sel : s # 0 => todo'[s] = todo[s]
    BY <1>4, <1>9
  <2>2. Selects(0)'
    <3> DEFINE in == UNION {Range(heap[w]) : w \in 1 .. Workers}
               l == Partial
    <3>1. l \in Seq(1 .. n) /\ IsInjective(l) /\ Range(l) = in
      BY <1>1, <1>2, PartialIs
    <3>2. in' = in
      BY <1>1, <1>3
    <3>3. Input(0)' = in'
      BY <1>2, <1>3 DEF Input
    <3>4. heap'[0] = <<>> /\ todo'[0] = l
      BY <1>1, <1>6, <2>1
    <3> HIDE DEF in, l
    <3>5. Input(0)' = in
      BY <3>2, <3>3
    <3>6. QED
      BY <1>1, <1>2, <3>1, <3>4, <3>5, Begins
  <2>3. Active(0)'
    BY <1>2, <1>9 DEF Active
  <2>4. ASSUME NEW s \in Sel, s # 0
        PROVE  (Active(s) /\ Selects(s))' \/ (~Active(s) /\ Untouched(s))'
    <3>1. heap'[s] = heap[s] /\ todo'[s] = todo[s] /\ s > 0
      BY <1>1, <1>4, <2>1, <2>4
    <3>2. CASE Active(s)
      <4>1. Selects(s) /\ Input(s)' = Input(s)
        BY <1>1, <3>1, <3>2, SpanStays DEF Selection, Input
      <4>2. Selects(s)'
        BY <1>1, <3>1, <4>1, SelectsStay
      <4>3. QED
        BY <1>7, <2>4, <3>2, <4>2
    <3>3. CASE ~Active(s)
      BY <1>7, <2>4, <3>1, <3>3 DEF Selection, Untouched
    <3>4. QED
      BY <3>2, <3>3
  <2>5. \A s \in Sel : ~Running(s)' => todo'[s] = <<>> /\ pos'[s] = 0
    BY <1>1, <1>5, <1>9, <2>1 DEF Running
  <2>6. \A s \in Sel : (Active(s) /\ Selects(s))' \/ (~Active(s) /\ Untouched(s))'
    BY <2>2, <2>3, <2>4
  <2>7. QED
    BY <1>2, <1>9, <2>5, <2>6 DEF Selection, Caller, ResultIsNearest
<1>10. QED
  BY <1>1, <1>8, <1>9
-----------------------------------------------------------------------------
(* The result. *)

\* What has been kept of all rows, by one selector or by several.
LEMMA KeptOfAll ==
  ASSUME IInv, Selection, pc = "select", Finished(0)
  PROVE  LET h == heap[0]
         IN  /\ Len(h) = Smaller(k, Cardinality(kept))
             /\ IsInjective(h) /\ Range(h) \subseteq kept
             /\ (\A s \in Sel : Clean(heap[s])) =>
                  \A x \in Range(h), y \in kept \ Range(h) : ~Worse(x, y)
<1> DEFINE h == heap[0]
           U == UNION {Range(heap[w]) : w \in 1 .. Workers}
<1>1. /\ QueryType /\ n \in Nat /\ k \in Int /\ k > 0 /\ n > 0 /\ kept \subseteq 1 .. n
      /\ 0 \in Sel /\ Active(0) /\ Selects(0) /\ todo[0] = <<>>
  BY BoundAssumption DEF IInv, QueryType, HasRoom, Sel, Selection, Active, Finished
<1>2. /\ h \in Seq(1 .. n) /\ Len(h) \in Nat /\ DOMAIN h = 1 .. Len(h) /\ Range(h) \subseteq kept
  BY <1>1, HeapRows
<1>3. Range(<<>>) = {}
  BY DEF Range
<1>4. /\ IsInjective(h) /\ Len(h) <= k
      /\ Len(h) < k => Input(0) \cap kept \subseteq Range(h)
      /\ Clean(h) => \A x \in Range(h), y \in (Input(0) \cap kept) \ Range(h) : ~Worse(x, y)
  <2>1. Seen(0) = Input(0) \cap kept
    BY <1>1, <1>3 DEF Seen
  <2>2. QED
    BY <1>1, <2>1 DEF Selects, Chosen
<1>5. ASSUME NEW s \in Sel, IsInjective(heap[s])
      PROVE  /\ IsFiniteSet(Range(heap[s])) /\ Cardinality(Range(heap[s])) = Len(heap[s])
  <2>1. heap[s] \in Seq(1 .. n) /\ Len(heap[s]) \in Nat
    BY <1>5, HeapRows
  <2>2. QED
    BY <1>5, <2>1, InjectiveCount
<1>6. IsFiniteSet(kept) /\ Cardinality(kept) \in Nat
  <2>1. IsFiniteSet(1 .. n)
    BY <1>1, FS_Interval
  <2>2. QED
    BY <1>1, <2>1, FS_Subset, FS_CardinalityType
<1>7. Forked => \A w \in 1 .. Workers :
        /\ w \in Sel /\ IsInjective(heap[w]) /\ Len(heap[w]) \in Nat /\ Len(heap[w]) <= k
        /\ Range(heap[w]) \subseteq kept /\ Range(heap[w]) \subseteq U
        /\ Len(heap[w]) < k => Range(Span(w)) \cap kept \subseteq Range(heap[w])
        /\ Clean(heap[w]) =>
             \A z \in Range(heap[w]), y \in (Range(Span(w)) \cap kept) \ Range(heap[w]) : ~Worse(z, y)
  <2> SUFFICES ASSUME Forked, NEW w \in 1 .. Workers
               PROVE  /\ w \in Sel /\ IsInjective(heap[w]) /\ Len(heap[w]) \in Nat /\ Len(heap[w]) <= k
                      /\ Range(heap[w]) \subseteq kept /\ Range(heap[w]) \subseteq U
                      /\ Len(heap[w]) < k => Range(Span(w)) \cap kept \subseteq Range(heap[w])
                      /\ Clean(heap[w]) =>
                           \A z \in Range(heap[w]), y \in (Range(Span(w)) \cap kept) \ Range(heap[w]) :
                             ~Worse(z, y)
    OBVIOUS
  <2>1. Selects(w) /\ w \in Sel /\ w > 0
    BY <1>1, WorkersApart
  <2>2. todo[w] = <<>>
    BY <2>1 DEF Selection, Running
  <2>3. Seen(w) = Range(Span(w)) \cap kept
    BY <1>3, <2>1, <2>2 DEF Seen, Input
  <2>4. Len(heap[w]) \in Nat /\ Range(heap[w]) \subseteq kept
    BY <2>1, HeapRows
  <2>5. Range(heap[w]) \subseteq U
    OBVIOUS
  <2> HIDE DEF U
  <2>6. QED
    BY <2>1, <2>3, <2>4, <2>5 DEF Selects, Chosen
<1>8. Forked => \A y \in kept : \E w \in 1 .. Workers : y \in Range(Span(w))
  BY <1>1, SpansCover
<1>9. Forked => U \subseteq kept /\ Input(0) \cap kept = U
  <2>1. Forked => U \subseteq kept
    BY <1>7
  <2>2. Forked => Input(0) = U
    BY DEF Input
  <2> HIDE DEF U
  <2>3. QED
    BY <2>1, <2>2
<1>10. ~Forked => Input(0) \cap kept = kept
  BY <1>1 DEF Input
<1> HIDE DEF h, U
<1>11. Cardinality(Range(h)) = Len(h) /\ IsFiniteSet(Range(h))
  BY <1>1, <1>4, <1>5 DEF h
<1>12. Len(h) < k => Range(h) = kept
  <2>1. CASE ~Forked
    BY <1>2, <1>4, <1>10, <2>1
  <2>2. CASE Forked
    <3> SUFFICES ASSUME Len(h) < k, NEW y \in kept PROVE y \in Range(h)
      BY <1>2
    <3>1. PICK w \in 1 .. Workers : y \in Range(Span(w))
      BY <1>8, <2>2
    <3>2. U \subseteq Range(h)
      BY <1>4, <1>9, <2>2
    <3>3. /\ w \in Sel /\ IsInjective(heap[w]) /\ Len(heap[w]) \in Nat /\ Range(heap[w]) \subseteq U
          /\ Len(heap[w]) < k => y \in Range(heap[w])
      BY <1>7, <2>2, <3>1
    <3>4. Cardinality(Range(heap[w])) = Len(heap[w]) /\ Range(heap[w]) \subseteq Range(h)
      BY <1>5, <3>2, <3>3
    <3>5. Len(heap[w]) <= Len(h)
      BY <1>11, <3>4, FS_Subset
    <3>6. Len(heap[w]) < k
      BY <1>1, <1>2, <3>3, <3>5
    <3>7. QED
      BY <3>3, <3>4, <3>6
  <2>3. QED
    BY <2>1, <2>2
<1>13. Len(h) = Smaller(k, Cardinality(kept))
  <2>1. Len(h) \in Nat /\ k \in Int /\ Len(h) <= k /\ Cardinality(kept) \in Nat
    BY <1>1, <1>2, <1>4, <1>6
  <2>2. Len(h) < k => Len(h) = Cardinality(kept)
    BY <1>11, <1>12
  <2>3. Len(h) <= Cardinality(kept)
    BY <1>2, <1>6, <1>11, FS_Subset
  <2>4. QED
    BY <2>1, <2>2, <2>3 DEF Smaller
<1>14. ASSUME \A s \in Sel : Clean(heap[s]), NEW x \in Range(h), NEW y \in kept \ Range(h)
       PROVE  ~Worse(x, y)
  <2>1. Clean(h)
    BY <1>1, <1>14 DEF h
  <2>2. CASE ~Forked
    BY <1>4, <1>10, <2>1, <2>2
  <2>3. CASE Forked
    <3>1. PICK w \in 1 .. Workers : y \in Range(Span(w))
      BY <1>8, <2>3
    <3>2. /\ w \in Sel /\ IsInjective(heap[w]) /\ Len(heap[w]) \in Nat /\ Len(heap[w]) <= k
          /\ Range(heap[w]) \subseteq kept /\ Range(heap[w]) \subseteq U
          /\ Len(heap[w]) < k => y \in Range(heap[w])
          /\ y \notin Range(heap[w]) => \A z \in Range(heap[w]) : ~Worse(z, y)
      BY <1>7, <1>14, <2>3, <3>1
    <3>3. CASE y \in Range(heap[w])
      BY <1>4, <1>9, <1>14, <2>1, <2>3, <3>2, <3>3
    <3>4. CASE y \notin Range(heap[w])
      <4>1. Len(heap[w]) = k
        BY <1>1, <3>2, <3>4
      <4>2. CASE Range(heap[w]) \subseteq Range(h)
        <5>1. Cardinality(Range(heap[w])) = Cardinality(Range(h))
          <6>1. Cardinality(Range(heap[w])) = k
            BY <1>5, <3>2, <4>1
          <6>2. Cardinality(Range(heap[w])) <= Cardinality(Range(h))
            BY <1>11, <4>2, FS_Subset
          <6>3. QED
            BY <1>1, <1>2, <1>4, <1>11, <6>1, <6>2
        <5>2. Range(heap[w]) = Range(h)
          BY <1>11, <4>2, <5>1, FS_Subset
        <5>3. QED
          BY <1>14, <3>2, <3>4, <5>2
      <4>3. CASE \E z \in Range(heap[w]) : z \notin Range(h)
        <5>1. PICK z \in Range(heap[w]) : z \notin Range(h)
          BY <4>3
        <5>2. ~Worse(x, z)
          BY <1>4, <1>9, <2>1, <2>3, <3>2, <5>1
        <5>3. ~Worse(z, y)
          BY <3>2, <3>4
        <5>4. ~IsNaN(x) /\ ~IsNaN(z)
          BY <1>14, <2>1, <3>2 DEF Clean, Range
        <5>5. x \in 1 .. n /\ y \in 1 .. n /\ z \in 1 .. n
          BY <1>1, <1>2, <3>2
        <5>6. QED
          BY <1>1, <5>2, <5>3, <5>4, <5>5, RowOrder
      <4>4. QED
        BY <4>2, <4>3
    <3>5. QED
      BY <3>3, <3>4
  <2>4. QED
    BY <2>2, <2>3
<1>15. QED
  BY <1>2, <1>4, <1>13, <1>14 DEF h

\* Neighbours in order and no ties: all in order.
LEMMA SortedIs ==
  ASSUME QueryType, NEW r, NEW m \in Nat, Len(r) = m, DOMAIN r = 1 .. m,
         \A i \in 1 .. m : r[i] \in 1 .. n /\ ~IsNaN(r[i]),
         IsInjective(r), Sorted(r)
  PROVE  \A i, j \in DOMAIN r : i < j => Worse(r[j], r[i])
<1> SUFFICES ASSUME NEW i \in 1 .. m PROVE \A j \in 1 .. m : i < j => Worse(r[j], r[i])
  OBVIOUS
<1> DEFINE T == {j \in 1 .. m : i < j /\ ~Worse(r[j], r[i])}
<1> SUFFICES ASSUME T # {} PROVE FALSE
  OBVIOUS
<1>1. T \subseteq Nat
  OBVIOUS
<1> HIDE DEF T
<1>2. PICK j \in T : \A l \in T : j <= l
  BY <1>1, Least
<1>3. j \in 1 .. m /\ i < j /\ ~Worse(r[j], r[i])
  BY DEF T
<1>4. PICK p \in 1 .. m : p = j - 1
  BY <1>3
<1>5. ~Worse(r[p], r[j])
  <2>1. p \in 1 .. Len(r) - 1 /\ j = p + 1
    BY <1>3, <1>4
  <2>2. QED
    BY <2>1 DEF Sorted
<1>6. r[i] \in 1 .. n /\ r[j] \in 1 .. n /\ r[p] \in 1 .. n /\ ~IsNaN(r[i]) /\ ~IsNaN(r[j]) /\ ~IsNaN(r[p])
  BY <1>3
<1>7. r[i] # r[j]
  BY <1>3 DEF IsInjective
<1>8. CASE p = i
  BY <1>3, <1>5, <1>6, <1>7, <1>8, RowOrder
<1>9. CASE p # i
  <2>1. Worse(r[p], r[i])
    <3>1. i < p /\ ~(j <= p)
      BY <1>3, <1>4, <1>9
    <3>2. p \notin T
      BY <1>2, <3>1
    <3>3. QED
      BY <3>1, <3>2 DEF T
  <2>2. ~Worse(r[i], r[p])
    BY <1>6, <2>1, RowOrder
  <2>3. ~Worse(r[i], r[j])
    BY <1>5, <1>6, <2>2, RowOrder
  <2>4. QED
    BY <1>3, <1>6, <1>7, <2>3, RowOrder
<1>10. QED
  BY <1>8, <1>9
LEMMA FinishSelection ==
  ASSUME IInv, Selection, Finish
  PROVE  Selection'
<1> DEFINE h == heap[0]
<1>1. /\ pc = "select" /\ pc' = "done" /\ Finished(0) /\ UNCHANGED <<queryVars, todo, heap, pos, upward>>
      /\ \/ h = <<>> /\ UNCHANGED result
         \/ /\ h # <<>>
            /\ \E r \in [1 .. Len(h) -> Range(h)] : IsInjective(r) /\ Sorted(r) /\ result' = r
  BY DEF Finish, selVars
<1>2. /\ QueryType /\ n \in Nat /\ k \in Int /\ k > 0 /\ n > 0 /\ 0 \in Sel /\ result = Nil
      /\ k' = k /\ n' = n /\ kept' = kept
  BY <1>1, BoundAssumption DEF IInv, QueryType, HasRoom, Sel, Selection, Caller, queryVars
<1>3. /\ h \in Seq(1 .. n) /\ Range(h) \subseteq kept /\ kept \subseteq 1 .. n
      /\ Len(h) \in Nat /\ DOMAIN h = 1 .. Len(h)
  BY <1>2, HeapRows
<1>4. /\ Len(h) = Smaller(k, Cardinality(kept))
      /\ IsInjective(h)
      /\ (\A s \in Sel : Clean(heap[s])) =>
           \A x \in Range(h), y \in kept \ Range(h) : ~Worse(x, y)
  BY <1>1, KeptOfAll
<1> DEFINE r == IF result' = Nil THEN <<>> ELSE result'
<1> HIDE DEF h
<1>5. /\ r \in Seq(kept) /\ Len(r) = Len(h) /\ DOMAIN r = 1 .. Len(h) /\ IsInjective(r)
      /\ Range(r) = Range(h) /\ Sorted(r) /\ result' \in Seq(kept) \cup {Nil}
  <2>1. CASE h = <<>> /\ UNCHANGED result
    <3>1. r = <<>> /\ <<>> \in Seq(kept) /\ Len(<<>>) = 0 /\ DOMAIN <<>> = 1 .. 0
      BY <1>2, <2>1
    <3>2. Sorted(<<>>) /\ result' = Nil
      BY <1>2, <2>1, <3>1 DEF Sorted
    <3> HIDE DEF r
    <3>3. QED
      BY <1>3, <1>4, <2>1, <3>1, <3>2
  <2>2. CASE \E q \in [1 .. Len(h) -> Range(h)] : IsInjective(q) /\ Sorted(q) /\ result' = q
    <3>1. PICK q \in [1 .. Len(h) -> Range(h)] : IsInjective(q) /\ Sorted(q) /\ result' = q
      BY <2>2
    <3>2. q \in [1 .. Len(h) -> kept] /\ DOMAIN q = 1 .. Len(h)
      BY <1>3, <3>1
    <3>3. q \in Seq(kept) /\ Len(q) = Len(h)
      BY <1>3, <3>2, SeqDef
    <3>4. r = q
      <4>1. q \in Seq(Nat)
        <5>1. q \in [1 .. Len(h) -> Nat]
          <6>1. \A x \in kept : x \in Nat
            BY <1>2, <1>3
          <6>2. QED
            BY <3>2, <6>1
        <5>2. QED
          BY <1>3, <5>1, SeqDef
      <4>2. QED
        BY <3>1, <4>1, NilAssumption
    <3>5. Range(q) = Range(h)
      <4>1. IsFiniteSet(Range(q)) /\ Cardinality(Range(q)) = Len(h)
        BY <3>1, <3>3, InjectiveCount
      <4>2. IsFiniteSet(Range(h)) /\ Cardinality(Range(h)) = Len(h)
        BY <1>3, <1>4, InjectiveCount
      <4>3. Range(q) \subseteq Range(h)
        BY <3>1 DEF Range
      <4>4. QED
        BY <4>1, <4>2, <4>3, FS_Subset
    <3> HIDE DEF r
    <3>6. QED
      BY <3>1, <3>2, <3>3, <3>4, <3>5
  <2>3. QED
    BY <1>1, <2>1, <2>2 DEF h
<1> HIDE DEF r
<1>6. ResultIsNearest'
  <2> PICK q : q = r
    OBVIOUS
  <2>1. /\ Len(q) = Len(h) /\ DOMAIN q = 1 .. Len(h) /\ IsInjective(q)
        /\ Range(q) = Range(h) /\ Sorted(q)
    BY <1>5
  <2>2. \A a, b : Worse(a, b)' <=> Worse(a, b)
    BY <1>1 DEF queryVars, Worse, IsNaN
  <2>3. Len(q) = IF k' <= 0 THEN 0 ELSE Smaller(k', Cardinality(kept'))
    BY <1>2, <1>4, <2>1
  <2>4. (\A s \in Sel : ~KeepsNaN(s)') => \A s \in Sel : Clean(heap[s])
    BY <1>1 DEF KeepsNaN, Clean, IsNaN, queryVars
  <2>5. ASSUME \A s \in Sel : Clean(heap[s])
        PROVE  /\ \A i, j \in DOMAIN q : i < j => Worse(q[j], q[i])
               /\ \A x \in Range(q), y \in kept \ Range(q) : ~Worse(x, y)
    <3>1. \A i \in 1 .. Len(h) : q[i] \in 1 .. n /\ ~IsNaN(q[i])
      <4> SUFFICES ASSUME NEW i \in 1 .. Len(h) PROVE q[i] \in 1 .. n /\ ~IsNaN(q[i])
        OBVIOUS
      <4>1. q[i] \in Range(h)
        BY <2>1 DEF Range
      <4>2. PICK l \in DOMAIN h : q[i] = h[l]
        BY <4>1 DEF Range
      <4>3. ~IsNaN(h[l])
        BY <1>2, <2>5, <4>2 DEF Clean, h
      <4>4. QED
        BY <1>3, <4>1, <4>2, <4>3
    <3>2. \A i, j \in DOMAIN q : i < j => Worse(q[j], q[i])
      BY <1>2, <1>3, <2>1, <3>1, SortedIs
    <3>3. QED
      BY <1>4, <2>1, <2>5, <3>2
  <2>6. (IF result = Nil THEN <<>> ELSE result)' = q
    BY DEF r
  <2>7. \/ \E s \in Sel : KeepsNaN(s)'
        \/ /\ \A i, j \in DOMAIN q : i < j => Worse(q[j], q[i])'
           /\ \A i \in Range(q), j \in kept' \ Range(q) : ~Worse(i, j)'
    BY <1>2, <2>2, <2>4, <2>5
  <2>8. QED
    BY <2>1, <2>3, <2>6, <2>7 DEF ResultIsNearest
<1>7. \A s \in Sel : todo[s] = <<>> /\ pos[s] = 0
  BY <1>1 DEF Selection, Running, Finished
<1>8. (Forked' <=> Forked) /\ Workers' = Workers
  BY <1>1 DEF Forked, Workers, Smaller, queryVars
<1>9. ASSUME NEW s \in Sel
      PROVE  (Active(s) /\ Selects(s))' \/ (~Active(s) /\ Untouched(s))'
  <2>1. Active(s)' <=> Active(s)
    BY <1>1, <1>2, <1>8 DEF Active
  <2>2. CASE Active(s)
    BY <1>1, <2>1, <2>2, OthersKeep DEF Selection
  <2>3. CASE ~Active(s)
    BY <1>1, <2>1, <2>3 DEF Selection, Untouched
  <2>4. QED
    BY <2>2, <2>3
<1>10. QueryBounds' /\ Caller'
  BY <1>1, <1>2, <1>5 DEF Selection, QueryBounds, Caller, queryVars
<1>11. QED
  BY <1>1, <1>6, <1>7, <1>9, <1>10 DEF Selection

LEMMA InitSelection == Init => Selection
<1> SUFFICES ASSUME Init PROVE Selection
  OBVIOUS
<1>1. QueryBounds
  BY BoundAssumption DEF Init, QueryBounds
<1>2. Caller /\ ResultIsNearest
  BY DEF Init, Caller, ResultIsNearest
<1>3. \A s \in Sel : ~Active(s) /\ Untouched(s) /\ todo[s] = <<>> /\ pos[s] = 0
  BY BoundAssumption DEF Init, Active, Untouched, Sel
<1>4. QED
  BY <1>1, <1>2, <1>3 DEF Selection

LEMMA NextSelection == IInv /\ Selection /\ [Next]_vars => Selection'
<1> SUFFICES ASSUME IInv, Selection, [Next]_vars PROVE Selection'
  OBVIOUS
<1>1. CASE Start
  BY <1>1, StartSelection
<1>2. CASE Merge
  BY <1>2, MergeSelection
<1>3. CASE Finish
  BY <1>3, FinishSelection
<1>4. ASSUME NEW s \in Sel, SelectorStep(s) PROVE Selection'
  BY <1>4, ConsiderSelection, SiftUpSelection, SiftDownSelection DEF SelectorStep
<1>5. CASE UNCHANGED vars
  <2>1. UNCHANGED <<queryVars, todo, heap, pos, upward, pc, result>>
    BY <1>5 DEF vars, selVars
  <2>2. (Forked' <=> Forked) /\ Workers' = Workers /\ (\A a, b : Worse(a, b)' <=> Worse(a, b))
        /\ (\A s : KeepsNaN(s)' <=> KeepsNaN(s))
    BY <2>1 DEF Forked, Workers, Smaller, Worse, IsNaN, KeepsNaN, queryVars
  <2>3. QueryBounds' /\ Caller' /\ ResultIsNearest'
    BY <2>1, <2>2 DEF Selection, QueryBounds, Caller, ResultIsNearest, queryVars
  <2>4. ASSUME NEW s \in Sel
        PROVE  (Active(s) /\ Selects(s))' \/ (~Active(s) /\ Untouched(s))'
    <3>1. Active(s)' <=> Active(s)
      BY <2>1, <2>2 DEF Active, queryVars
    <3>2. CASE Active(s)
      BY <2>1, <3>1, <3>2, OthersKeep DEF Selection
    <3>3. CASE ~Active(s)
      BY <2>1, <3>1, <3>3 DEF Selection, Untouched
    <3>4. QED
      BY <3>2, <3>3
  <2>5. \A s \in Sel : ~Running(s)' => todo'[s] = <<>> /\ pos'[s] = 0
    BY <2>1 DEF Selection, Running
  <2>6. QED
    BY <2>3, <2>4, <2>5 DEF Selection
<1>6. QED
  BY <1>1, <1>2, <1>3, <1>4, <1>5 DEF Next, CallerStep

\* A search returns the k nearest of the rows that pass the filters, best
\* first, whether one goroutine selected or several did, as long as no selector
\* kept a score that is not a number (store_search.go, search, selectTopK and
\* searchParallel).
THEOREM SearchIsExact == Spec => []ResultIsNearest
<1>1. Init => IInv /\ Selection
  BY InitIInv, InitSelection
<1>2. (IInv /\ Selection) /\ [Next]_vars => (IInv /\ Selection)'
  BY NextIInv, NextSelection
<1>3. IInv /\ Selection => ResultIsNearest
  BY DEF Selection
<1>4. QED
  BY <1>1, <1>2, <1>3, PTL DEF Spec

\* Every variable has its type: rows handed to a selector are rows of the
\* store, and what it keeps and returns passed the filters
\* (store_search.go:199-231).
THEOREM SearchTypes == Spec => []TypeOK
<1>1. Init => IInv /\ Selection
  BY InitIInv, InitSelection
<1>2. (IInv /\ Selection) /\ [Next]_vars => (IInv /\ Selection)'
  BY NextIInv, NextSelection
<1>3. IInv /\ Selection => TypeOK
  <2> SUFFICES ASSUME IInv, Selection PROVE TypeOK
    OBVIOUS
  <2>1. /\ kept \subseteq 1 .. n /\ asc \in BOOLEAN /\ heap \in [Sel -> Seq(kept)]
        /\ pos \in [Sel -> Nat] /\ (\A s \in Sel : pos[s] <= Len(heap[s]))
        /\ upward \in [Sel -> BOOLEAN] /\ todo = [s \in Sel |-> todo[s]]
    BY DEF IInv, QueryType, SelType
  <2>2. \A s \in Sel : todo[s] \in Seq(1 .. n)
    <3>1. <<>> \in Seq(1 .. n)
      OBVIOUS
    <3>2. QED
      BY <3>1 DEF Selection, Selects, Untouched
  <2>3. parallel \in BOOLEAN
    BY DEF Selection, QueryBounds
  <2>4. QED
    BY <2>1, <2>2, <2>3 DEF TypeOK, Selection, QueryBounds, Caller
<1>4. QED
  BY <1>1, <1>2, <1>3, PTL DEF Spec
=============================================================================
