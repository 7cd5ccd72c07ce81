-------------------------------- MODULE TopK --------------------------------
(***************************************************************************)
(* One search over a store: search, selectTopK and searchParallel of       *)
(* pkg/vector/store_search.go.                                             *)
(*                                                                         *)
(* A selector runs over its rows in order and keeps the nearest of them in *)
(* a binary heap whose root is the worst.  The caller is selector 0.  It   *)
(* selects over all rows itself or starts workers 1, 2, .. on consecutive  *)
(* spans, waits for all, and selects again over what they kept.  Every     *)
(* step of a sift is a step here.                                          *)
(*                                                                         *)
(* A heap entry {idx, score} is the row idx; rows and heap positions are   *)
(* 1-based.  A worker counts its rows from 0 and adds the start of its     *)
(* span to compare and to return them; here rows keep their number in the  *)
(* store.                                                                  *)
(***************************************************************************)
EXTENDS Integers, Sequences, FiniteSets, SequencesExt

CONSTANTS
  MaxRows,  \* bound: rows in the store
  MaxProcs, \* bound: GOMAXPROCS
  Score,    \* scores of rows, numbers and perhaps NaN
  NaN,      \* the score that is neither below nor above nor equal to any
  K,        \* the values callers pass for k
  MaxCap,   \* make panics on a capacity above this
  Nil

ASSUME BoundAssumption == MaxRows \in Nat /\ MaxProcs \in Nat \ {0} /\ MaxCap \in Nat
ASSUME ScoreAssumption == NaN \notin Int /\ Score \subseteq Int \cup {NaN}
ASSUME KAssumption == K \subseteq Int
ASSUME NilAssumption == Nil \notin Seq(Nat)

VARIABLES
  n,        \* rows of the store
  score,    \* row -> its score against the query
  kept,     \* the rows that pass the filters, keep and within
  k,
  asc,      \* lower scores are nearer
  parallel, \* WithParallel applies to a store of this size
  procs,    \* GOMAXPROCS
  pc,       \* of the caller: "start", "select", "wait", "done" or "panic"
  todo,     \* selector -> its rows still to be considered
  heap,     \* selector -> its heap
  pos,      \* selector -> heap position it sifts from, 0 between sifts
  upward,   \* selector -> the sift goes to the root
  result    \* the rows returned, in order, or Nil

queryVars == <<n, score, kept, k, asc, parallel, procs>>
selVars == <<todo, heap, pos, upward>>
vars == <<queryVars, selVars, pc, result>>

Sel == 0 .. MaxProcs
Smaller(a, b) == IF a < b THEN a ELSE b

IsNaN(a) == score[a] = NaN

\* Row a ranks below row b.  A comparison with NaN is false.
Worse(a, b) ==
  IF score[a] = score[b] /\ ~IsNaN(a) THEN a > b
  ELSE /\ ~IsNaN(a) /\ ~IsNaN(b)
       /\ IF asc THEN score[a] > score[b] ELSE score[a] < score[b]

-----------------------------------------------------------------------------
(* Selection, selectTopK. *)

Forked == parallel /\ procs >= 2
Workers == Smaller(procs, n)

\* Mutant of Chunk: rounded down.
ChunkRoundedDown == n \div Workers

Chunk == (n + Workers - 1) \div Workers

Rows == [i \in 1 .. n |-> i]
Span(w) == SubSeq(Rows, (w - 1) * Chunk + 1, Smaller(w * Chunk, n))

\* The most rows a selector keeps.  The one that merges has the caller's k.
Capacity(s) ==
  IF s > 0 THEN Smaller(k, Len(Span(s))) ELSE IF Forked THEN k ELSE Smaller(k, n)

\* A selector that has nothing left to do.
Finished(s) == todo[s] = <<>> /\ pos[s] = 0

Running(s) == IF s = 0 THEN pc = "select" ELSE pc = "wait"

\* Mutant of Passes: the filters are not applied.
PassesAlways(i) == TRUE

Passes(i) == i \in kept

Consider(s) ==
  /\ Running(s) /\ pos[s] = 0 /\ todo[s] # <<>>
  /\ LET i == Head(todo[s])
         h == heap[s]
     IN  \/ /\ ~Passes(i)
            /\ UNCHANGED <<heap, pos, upward>>
         \/ /\ Passes(i) /\ Len(h) < Capacity(s)
            /\ heap' = [heap EXCEPT ![s] = Append(h, i)]
            /\ pos' = [pos EXCEPT ![s] = Len(h) + 1]
            /\ upward' = [upward EXCEPT ![s] = TRUE]
         \/ /\ Passes(i) /\ Len(h) >= Capacity(s) /\ Worse(h[1], i)
            /\ heap' = [heap EXCEPT ![s][1] = i]
            /\ pos' = [pos EXCEPT ![s] = 1]
            /\ upward' = [upward EXCEPT ![s] = FALSE]
         \/ /\ Passes(i) /\ Len(h) >= Capacity(s) /\ ~Worse(h[1], i)
            /\ UNCHANGED <<heap, pos, upward>>
  /\ todo' = [todo EXCEPT ![s] = Tail(@)]
  /\ UNCHANGED <<queryVars, pc, result>>

\* Mutant of RisesAbove: the sift of version 1.3.
RisesAboveBetter(h, i) == i > 1 /\ Worse(h[i \div 2], h[i])

RisesAbove(h, i) == i > 1 /\ Worse(h[i], h[i \div 2])

\* The position of the worst of i and its children.
WorstOf(h, i) ==
  LET l == 2 * i
      r == 2 * i + 1
      w == IF l <= Len(h) /\ Worse(h[l], h[i]) THEN l ELSE i
  IN  IF r <= Len(h) /\ Worse(h[r], h[w]) THEN r ELSE w

\* Positions i and j of the heap change places, and the sift goes on at j.
Swap(s, i, j) ==
  /\ heap' = [heap EXCEPT ![s] = [@ EXCEPT ![i] = heap[s][j], ![j] = heap[s][i]]]
  /\ pos' = [pos EXCEPT ![s] = j]

SiftEnds(s) == pos' = [pos EXCEPT ![s] = 0] /\ UNCHANGED heap

SiftUp(s) ==
  /\ pos[s] > 0 /\ upward[s]
  /\ \/ RisesAbove(heap[s], pos[s]) /\ Swap(s, pos[s], pos[s] \div 2)
     \/ ~RisesAbove(heap[s], pos[s]) /\ SiftEnds(s)
  /\ UNCHANGED <<queryVars, todo, upward, pc, result>>

SiftDown(s) ==
  /\ pos[s] > 0 /\ ~upward[s]
  /\ LET w == WorstOf(heap[s], pos[s])
     IN  \/ w # pos[s] /\ Swap(s, pos[s], w)
         \/ w = pos[s] /\ SiftEnds(s)
  /\ UNCHANGED <<queryVars, todo, upward, pc, result>>

-----------------------------------------------------------------------------
(* The caller, search and searchParallel. *)

Start ==
  /\ pc = "start"
  /\ \/ /\ k <= 0 \/ n = 0
        /\ pc' = "done"
        /\ UNCHANGED todo
     \/ /\ k > 0 /\ n > 0 /\ ~Forked
        /\ todo' = [todo EXCEPT ![0] = Rows]
        /\ pc' = "select"
     \/ /\ k > 0 /\ n > 0 /\ Forked
        /\ todo' = [w \in Sel |-> IF w \in 1 .. Workers THEN Span(w) ELSE <<>>]
        /\ pc' = "wait"
  /\ UNCHANGED <<queryVars, heap, pos, upward, result>>

\* Mutant of WorkersDone: also waits for the workers that were not started,
\* no rows being left for them.
WorkersDoneAll == \A w \in 1 .. Workers : Finished(w) /\ Span(w) # <<>>

WorkersDone == \A w \in 1 .. Workers : Finished(w)

\* What the workers kept, one worker after the other.
Partial == FlattenSeq([w \in 1 .. Workers |-> heap[w]])

\* The caller allocates room for k rows, however few there are.
Merge ==
  /\ pc = "wait" /\ WorkersDone
  /\ \/ k > MaxCap /\ pc' = "panic" /\ UNCHANGED todo
     \/ /\ k <= MaxCap
        /\ todo' = [todo EXCEPT ![0] = Partial]
        /\ pc' = "select"
  /\ UNCHANGED <<queryVars, heap, pos, upward, result>>

\* Sorted the way sort.Slice leaves it.
Sorted(r) == \A i \in 1 .. Len(r) - 1 : ~Worse(r[i], r[i + 1])

Finish ==
  /\ pc = "select" /\ Finished(0)
  /\ \/ heap[0] = <<>> /\ UNCHANGED result
     \/ /\ heap[0] # <<>>
        /\ \E r \in [1 .. Len(heap[0]) -> Range(heap[0])] :
             IsInjective(r) /\ Sorted(r) /\ result' = r
  /\ pc' = "done"
  /\ UNCHANGED <<queryVars, selVars>>

-----------------------------------------------------------------------------
Init ==
  /\ n \in 0 .. MaxRows
  /\ score \in [1 .. n -> Score]
  /\ kept \in SUBSET (1 .. n)
  /\ k \in K
  /\ asc \in BOOLEAN
  /\ parallel \in BOOLEAN
  /\ procs \in (IF parallel THEN 1 .. MaxProcs ELSE {1})
  /\ pc = "start"
  /\ todo = [s \in Sel |-> <<>>]
  /\ heap = [s \in Sel |-> <<>>]
  /\ pos = [s \in Sel |-> 0]
  /\ upward = [s \in Sel |-> FALSE]
  /\ result = Nil

SelectorStep(s) == Consider(s) \/ SiftUp(s) \/ SiftDown(s)
CallerStep == Start \/ Merge \/ Finish

Next == CallerStep \/ \E s \in Sel : SelectorStep(s)

\* Go schedules every goroutine that can run.
Fairness == WF_vars(CallerStep) /\ \A s \in Sel : WF_vars(SelectorStep(s))

Spec == Init /\ [][Next]_vars /\ Fairness

-----------------------------------------------------------------------------
(* Properties. *)

TypeOK ==
  /\ n \in 0 .. MaxRows
  /\ score \in [1 .. n -> Score]
  /\ kept \subseteq 1 .. n
  /\ k \in K
  /\ asc \in BOOLEAN /\ parallel \in BOOLEAN /\ procs \in 1 .. MaxProcs
  /\ pc \in {"start", "select", "wait", "done", "panic"}
  /\ todo \in [Sel -> Seq(1 .. n)]
  /\ heap \in [Sel -> Seq(kept)]
  /\ pos \in [Sel -> Nat] /\ \A s \in Sel : pos[s] <= Len(heap[s])
  /\ upward \in [Sel -> BOOLEAN]
  /\ result \in Seq(kept) \cup {Nil}

\* The selector keeps a row whose score is not a number.  No candidate evicts it.
KeepsNaN(s) == \E i \in DOMAIN heap[s] : IsNaN(heap[s][i])

\* Between sifts the root of every heap is the worst row in it, the one a
\* better candidate evicts, as long as the scores in it are numbers (siftUp and
\* siftDown of selectTopK and of the merge).
RootIsWorst ==
  \A s \in Sel : pos[s] = 0 /\ ~KeepsNaN(s) =>
    \A i \in DOMAIN heap[s] : ~Worse(heap[s][i], heap[s][1])

\* A search returns the k nearest of the rows that pass the filters, best
\* first and ties by row, whether one goroutine selected or several did, and
\* all of them when there are no more than k (store_search.go, Search and
\* WithParallel).  When some scores are not numbers, the rows are as many and
\* all different, and a nearer row is passed over only if some selector kept a
\* row whose score is not a number.
ResultIsNearest ==
  pc = "done" =>
    LET r == IF result = Nil THEN <<>> ELSE result
    IN  /\ Len(r) = IF k <= 0 THEN 0 ELSE Smaller(k, Cardinality(kept))
        /\ IsInjective(r)
        /\ \/ \E s \in Sel : KeepsNaN(s)
           \/ /\ \A i, j \in DOMAIN r : i < j => Worse(r[j], r[i])
              /\ \A i \in Range(r), j \in kept \ Range(r) : ~Worse(i, j)

\* Every search returns, unless make panicked: sifts end, and the caller is
\* not left waiting for a worker that had no rows (searchParallel).
SearchReturns == <>(pc = "done" \/ (pc = "panic" /\ k > MaxCap))
=============================================================================
