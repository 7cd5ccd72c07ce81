------------------------- MODULE OnnxEmbedder_proofs -------------------------
(***************************************************************************)
(* The library a New is given is the one it loads, the variables have      *)
(* their types, and a batch gives every text the vector it gets alone,     *)
(* whatever number of goroutines open embedders and embed at once.         *)
(*                                                                         *)
(* The path is a variable of the process; that it is still the one the     *)
(* goroutine set rests on the mutex, so the first invariant says who is    *)
(* inside (Guarded) and what the one inside has set (PathIsSet).           *)
(*                                                                         *)
(* The second says what every goroutine has in hand (Serves): between its  *)
(* call and its answer the encodings of its own texts, then the cells that *)
(* belong to them.  It rests on the operators: that Encode is the          *)
(* reference Encoding (the tokenizer's three recursive functions, each     *)
(* shown to exist and to be what it stands for by a least counterexample), *)
(* and that row i of the padded array is read back at its own place.       *)
(***************************************************************************)
EXTENDS OnnxEmbedder, TLAPS, SequenceTheorems, FiniteSetTheorems, WellFoundedInduction

Inside(t) == pc[t] \in {"init", "env"}

\* Whoever is inside holds the mutex.
Guarded ==
  /\ pc = [t \in Thread |-> pc[t]]
  /\ arg = [t \in Thread |-> arg[t]]
  /\ \A t \in Thread : Inside(t) <=> initMu = t

\* Past the flag, no library is loaded yet and the path is the one named.
PathIsSet ==
  /\ initDone = (env # Nil)
  /\ \A t \in Thread : pc[t] = "env" => ~initDone /\ (arg[t] # Nil => libPath = arg[t])

IInv == Guarded /\ PathIsSet

LEMMA InitIInv == Init => IInv
  BY PathAssumption DEF Init, IInv, Guarded, PathIsSet, Inside

\* A step of t outside the mutex.
LEMMA OutsideStep ==
  ASSUME IInv, NEW t \in Thread, ~Inside(t), UNCHANGED runtime,
         NEW l \in {"idle", "lock", "run", "open", "pool"}, pc' = [pc EXCEPT ![t] = l],
         arg' = [u \in Thread |-> arg'[u]],
         \A u \in Thread \ {t} : arg'[u] = arg[u]
  PROVE  IInv'
<1>1. \A u \in Thread \ {t} : pc'[u] = pc[u]
  BY DEF IInv, Guarded
<1>2. pc' = [u \in Thread |-> pc'[u]] /\ pc'[t] = l
  BY DEF IInv, Guarded
<1>3. Guarded'
  BY <1>1, <1>2 DEF IInv, Guarded, Inside, runtime
<1>4. PathIsSet'
  BY <1>1, <1>2 DEF IInv, PathIsSet, runtime
<1>5. QED
  BY <1>3, <1>4 DEF IInv

\* t gives the mutex back.
LEMMA UnlockStep ==
  ASSUME IInv, NEW t \in Thread, Inside(t), initMu' = Nil,
         NEW l \in {"idle", "open"}, pc' = [pc EXCEPT ![t] = l],
         arg' = [u \in Thread |-> arg'[u]],
         initDone' = (env' # Nil)
  PROVE  IInv'
<1>1. \A u \in Thread \ {t} : pc'[u] = pc[u] /\ ~Inside(u)
  BY DEF IInv, Guarded
<1>2. pc' = [u \in Thread |-> pc'[u]] /\ pc'[t] = l
  BY DEF IInv, Guarded
<1>3. \A u \in Thread : ~Inside(u)'
  BY <1>1, <1>2 DEF Inside
<1>4. Guarded'
  BY <1>2, <1>3, PathAssumption DEF IInv, Guarded
<1>5. PathIsSet'
  BY <1>3 DEF PathIsSet, Inside
<1>6. QED
  BY <1>4, <1>5 DEF IInv

LEMMA LockIInv ==
  ASSUME IInv, NEW t \in Thread, LockInit(t)
  PROVE  IInv'
<1>1. /\ initMu = Nil /\ initMu' = t /\ pc[t] = "lock"
      /\ pc' = [pc EXCEPT ![t] = "init"]
      /\ UNCHANGED <<initDone, libPath, env, arg>>
  BY DEF LockInit, CanLock, GoTo
<1>2. \A u \in Thread : ~Inside(u)
  BY <1>1, PathAssumption DEF IInv, Guarded
<1>3. pc' = [u \in Thread |-> pc'[u]] /\ pc'[t] = "init"
      /\ \A u \in Thread \ {t} : pc'[u] = pc[u]
  BY <1>1 DEF IInv, Guarded
<1>4. Guarded'
  BY <1>1, <1>2, <1>3 DEF IInv, Guarded, Inside
<1>5. PathIsSet'
  BY <1>1, <1>2, <1>3 DEF IInv, PathIsSet, Inside
<1>6. QED
  BY <1>4, <1>5 DEF IInv

LEMMA SetPathIInv ==
  ASSUME IInv, NEW t \in Thread, SetPath(t)
  PROVE  IInv'
<1>1. /\ pc[t] = "init" /\ ~initDone
      /\ pc' = [pc EXCEPT ![t] = "env"]
      /\ UNCHANGED <<initMu, initDone, env, arg>>
      /\ arg[t] # Nil => libPath' = arg[t]
  BY DEF SetPath, Resolved, GoTo
<1>2. \A u \in Thread \ {t} : ~Inside(u)
  BY <1>1 DEF IInv, Guarded, Inside
<1>3. pc' = [u \in Thread |-> pc'[u]] /\ pc'[t] = "env"
      /\ \A u \in Thread \ {t} : pc'[u] = pc[u]
  BY <1>1 DEF IInv, Guarded
<1>4. Guarded'
  BY <1>1, <1>2, <1>3 DEF IInv, Guarded, Inside
<1>5. PathIsSet'
  BY <1>1, <1>2, <1>3 DEF IInv, PathIsSet, Inside
<1>6. QED
  BY <1>4, <1>5 DEF IInv

LEMMA InitializeIInv ==
  ASSUME IInv, NEW t \in Thread, Initialize(t)
  PROVE  IInv'
<1>1. Inside(t) /\ initMu' = Nil
  BY DEF Initialize, InitFails, Inside
<1>2. \E l \in {"idle", "open"} : pc' = [pc EXCEPT ![t] = l]
  BY DEF Initialize, InitFails, Return, GoTo
<1>3. arg' = [u \in Thread |-> arg'[u]]
  BY DEF Initialize, InitFails, Return, IInv, Guarded
<1>4. initDone' = (env' # Nil)
  BY PathAssumption DEF Initialize, IInv, PathIsSet
<1>5. QED
  BY <1>1, <1>2, <1>3, <1>4, UnlockStep

LEMMA NextIInv == IInv /\ [Next]_vars => IInv'
<1> SUFFICES ASSUME IInv, [Next]_vars PROVE IInv'
  OBVIOUS
<1>1. ASSUME NEW t \in Thread, CallNew(t) \/ CallEmbed(t) \/ Open(t) \/ Run(t) \/ Pool(t)
      PROVE  IInv'
  <2>1. ~Inside(t) /\ UNCHANGED runtime
    BY <1>1 DEF CallNew, CallEmbed, Open, Run, Pool, Inside
  <2>2. \E l \in {"idle", "lock", "run", "open", "pool"} : pc' = [pc EXCEPT ![t] = l]
    BY <1>1 DEF CallNew, CallEmbed, Open, Run, Pool, Return, GoTo
  <2>3. arg' = arg \/ \E a : arg' = [arg EXCEPT ![t] = a]
    BY <1>1 DEF CallNew, CallEmbed, Open, Run, Pool, Return
  <2>4. arg' = [u \in Thread |-> arg'[u]] /\ \A u \in Thread \ {t} : arg'[u] = arg[u]
    BY <2>3 DEF IInv, Guarded
  <2>5. QED
    BY <2>1, <2>2, <2>4, OutsideStep
<1>2. ASSUME NEW t \in Thread, AlreadyDone(t) PROVE IInv'
  <2>1. /\ Inside(t) /\ initMu' = Nil
        /\ pc' = [pc EXCEPT ![t] = "open"]
        /\ UNCHANGED <<initDone, env, arg>>
    BY <1>2 DEF AlreadyDone, GoTo, Inside
  <2>2. QED
    BY <2>1, UnlockStep DEF IInv, Guarded, PathIsSet
<1>3. ASSUME NEW t \in Thread, LockInit(t) \/ SetPath(t) \/ Initialize(t) PROVE IInv'
  BY <1>3, LockIInv, SetPathIInv, InitializeIInv
<1>4. CASE Close
  BY <1>4 DEF Close, IInv, Guarded, PathIsSet, Inside, runtime
<1>5. CASE UNCHANGED vars
  BY <1>5 DEF vars, runtime, IInv, Guarded, PathIsSet, Inside
<1>6. QED
  BY <1>1, <1>2, <1>3, <1>4, <1>5 DEF Next, Proceed

LEMMA SpecIInv == Spec => []IInv
  BY InitIInv, NextIInv, PTL DEF Spec

\* A New that is given a path and initialises the runtime tries that library,
\* and loads it if it can be loaded, however many goroutines open embedders
\* and whatever earlier attempts did (initRuntime).
THEOREM NamedPathIsLoaded == Spec => NamedPathLoads
<1> DEFINE Loads(t) == Initialize(t) /\ arg[t] # Nil =>
                         env' = IF arg[t] \in Usable THEN arg[t] ELSE Nil
<1>1. ASSUME IInv, NEW t \in Thread PROVE Loads(t)
  <2> SUFFICES ASSUME Initialize(t), arg[t] # Nil
               PROVE  env' = IF arg[t] \in Usable THEN arg[t] ELSE Nil
    OBVIOUS
  <2>1. ~initDone /\ libPath = arg[t] /\ env = Nil
    BY <1>1 DEF Initialize, IInv, PathIsSet
  <2>2. Library = arg[t]
    BY <2>1 DEF Library
  <2>3. QED
    BY <2>1, <2>2 DEF Initialize
<1>2. IInv => \A t \in Thread : Loads(t)
  BY <1>1
<1>3. IInv /\ [Next]_vars => [\A t \in Thread : Loads(t)]_vars
  BY <1>2
<1>4. QED
  BY <1>3, SpecIInv, PTL DEF Spec, NamedPathLoads

-----------------------------------------------------------------------------
(* Recursive functions. *)

\* A set of naturals that is not empty has a least element.
LEMMA Least ==
  ASSUME NEW T, T \subseteq Nat, T # {}
  PROVE  \E x \in T : \A y \in T : x <= y
<1>1. IsWellFoundedOn(OpToRel(<, Nat), Nat)
  BY NatLessThanWellFounded
<1>2. PICK x \in T : \A y \in T : <<y, x>> \notin OpToRel(<, Nat)
  BY <1>1, WFMin
<1>3. ASSUME NEW y \in T PROVE x <= y
  <2>1. ~(y < x)
    BY <1>2 DEF OpToRel
  <2>2. QED
    BY <2>1
<1>4. QED
  BY <1>3

\* What a recursive function on 0 .. n reaches, when it starts and stays in X.
Steps(g, n, base, step) ==
  g[0] = base /\ \A i \in 1 .. n : g[i] = step[<<i, g[i - 1]>>]

LEMMA Recursion ==
  ASSUME NEW l \in Nat, NEW X, NEW base \in X, NEW step \in [(1 .. l) \X X -> X]
  PROVE  \E g \in [0 .. l -> X] : Steps(g, l, base, step)
<1> DEFINE T == {n \in 0 .. l : ~\E g \in [0 .. n -> X] : Steps(g, n, base, step)}
<1>1. T = {}
  <2> SUFFICES ASSUME T # {} PROVE FALSE
    OBVIOUS
  <2>1. T \subseteq Nat
    OBVIOUS
  <2> HIDE DEF T
  <2>2. PICK n \in T : \A y \in T : n <= y
    BY <2>1, Least
  <2>3. n \in 0 .. l /\ ~\E g \in [0 .. n -> X] : Steps(g, n, base, step)
    BY DEF T
  <2>4. CASE n = 0
    <3>1. [i \in 0 .. 0 |-> base] \in [0 .. 0 -> X] /\ Steps([i \in 0 .. 0 |-> base], 0, base, step)
      BY DEF Steps
    <3>2. QED
      BY <2>3, <2>4, <3>1
  <2>5. CASE n # 0
    <3>1. n - 1 \in 0 .. l /\ n - 1 \notin T
      BY <2>2, <2>3, <2>5
    <3>2. PICK f \in [0 .. n - 1 -> X] : Steps(f, n - 1, base, step)
      BY <3>1 DEF T
    <3> DEFINE g == [i \in 0 .. n |-> IF i = n THEN step[<<n, f[n - 1]>>] ELSE f[i]]
    <3>3. n \in 1 .. l /\ n - 1 \in 0 .. n - 1
      BY <2>3, <2>5
    <3>4. step[<<n, f[n - 1]>>] \in X
      BY <3>2, <3>3
    <3>5. \A i \in 0 .. n : i # n => i \in 0 .. n - 1
      BY <3>3
    <3>6. g \in [0 .. n -> X]
      BY <3>2, <3>4, <3>5
    <3>7. g[0] = base
      BY <2>5, <3>2, <3>3 DEF Steps
    <3>8. ASSUME NEW i \in 1 .. n PROVE g[i] = step[<<i, g[i - 1]>>]
      <4>1. i - 1 \in 0 .. n /\ i - 1 # n /\ i \in 0 .. n
        BY <3>3
      <4>2. g[i - 1] = f[i - 1]
        BY <4>1
      <4>3. CASE i = n
        BY <4>1, <4>2, <4>3
      <4>4. CASE i # n
        <5>1. i \in 1 .. n - 1
          BY <3>3, <4>4
        <5>2. f[i] = step[<<i, f[i - 1]>>]
          BY <3>2, <5>1 DEF Steps
        <5>3. QED
          BY <4>1, <4>2, <4>4, <5>2
      <4>5. QED
        BY <4>3, <4>4
    <3> HIDE DEF g
    <3>9. Steps(g, n, base, step)
      BY <3>7, <3>8 DEF Steps
    <3>10. QED
      BY <2>3, <3>6, <3>9
  <2>6. QED
    BY <2>4, <2>5
<1>2. l \in 0 .. l
  OBVIOUS
<1>3. QED
  BY <1>1, <1>2

\* Any function that takes the steps while it is in X stays in it.
LEMMA StaysIn ==
  ASSUME NEW l \in Nat, NEW X, NEW base \in X, NEW step \in [(1 .. l) \X X -> X],
         NEW f, f[0] = base, \A i \in 1 .. l : f[i - 1] \in X => f[i] = step[<<i, f[i - 1]>>]
  PROVE  /\ \A i \in 0 .. l : f[i] \in X
         /\ \A i \in 1 .. l : f[i] = step[<<i, f[i - 1]>>]
<1> DEFINE T == {n \in 0 .. l : f[n] \notin X}
<1>1. T = {}
  <2> SUFFICES ASSUME T # {} PROVE FALSE
    OBVIOUS
  <2>1. T \subseteq Nat
    OBVIOUS
  <2> HIDE DEF T
  <2>2. PICK n \in T : \A y \in T : n <= y
    BY <2>1, Least
  <2>3. n \in 0 .. l /\ f[n] \notin X
    BY DEF T
  <2>4. n # 0 /\ n \in 1 .. l /\ n - 1 \in 0 .. l /\ n - 1 \notin T
    BY <2>2, <2>3
  <2>5. f[n - 1] \in X
    BY <2>4 DEF T
  <2>6. f[n] = step[<<n, f[n - 1]>>]
    BY <2>4, <2>5
  <2>7. QED
    BY <2>3, <2>4, <2>5, <2>6
<1>2. \A i \in 0 .. l : f[i] \in X
  BY <1>1
<1>3. \A i \in 1 .. l : i - 1 \in 0 .. l
  OBVIOUS
<1>4. QED
  BY <1>2, <1>3

\* What FlattenSeq makes of the first sequences.
Flattens(f, seqs) ==
  f = [i \in 1 .. Len(seqs) |-> IF i = 1 THEN seqs[i] ELSE f[i - 1] \o seqs[i]]

LEMMA FlattenIs ==
  ASSUME NEW S, NEW seqs \in Seq(Seq(S))
  PROVE  \E g \in [0 .. Len(seqs) -> Seq(S)] :
           /\ g[0] = <<>> /\ \A i \in 1 .. Len(seqs) : g[i] = g[i - 1] \o seqs[i]
           /\ FlattenSeq(seqs) = g[Len(seqs)]
<1> DEFINE l == Len(seqs)
           step == [p \in (1 .. l) \X Seq(S) |-> p[2] \o seqs[p[1]]]
<1>1. l \in Nat /\ \A i \in 1 .. l : seqs[i] \in Seq(S)
  BY LenProperties, ElementOfSeq
<1>2. step \in [(1 .. l) \X Seq(S) -> Seq(S)]
  BY <1>1, ConcatProperties
<1>3. <<>> \in Seq(S)
  OBVIOUS
<1>4. \A i \in 1 .. l : \A s \in Seq(S) : step[<<i, s>>] = s \o seqs[i]
  OBVIOUS
<1> HIDE DEF step
<1>5. PICK g \in [0 .. l -> Seq(S)] : Steps(g, l, <<>>, step)
  BY <1>1, <1>2, <1>3, Recursion
<1> HIDE DEF l
<1>6. g[0] = <<>> /\ \A i \in 1 .. l : g[i] = g[i - 1] \o seqs[i]
  <2>1. \A i \in 1 .. l : i - 1 \in 0 .. l
    BY <1>1
  <2>2. QED
    BY <1>4, <1>5, <2>1 DEF Steps
<1>7. CASE l = 0
  <2>1. seqs = <<>>
    BY <1>7, EmptySeq DEF l
  <2>2. FlattenSeq(seqs) = seqs
    BY <1>7 DEF FlattenSeq, l
  <2>3. QED
    BY <1>6, <1>7, <2>1, <2>2 DEF l
<1>8. CASE l # 0
  <2>1. FlattenSeq(seqs) = (CHOOSE f : Flattens(f, seqs))[l]
    BY <1>8 DEF FlattenSeq, Flattens, l
  <2>2. Flattens([i \in 1 .. l |-> g[i]], seqs)
    <3> DEFINE h == [i \in 1 .. l |-> g[i]]
    <3>1. ASSUME NEW i \in 1 .. l
          PROVE  h[i] = IF i = 1 THEN seqs[i] ELSE h[i - 1] \o seqs[i]
      <4>1. CASE i = 1
        <5>1. h[i] = g[i - 1] \o seqs[i] /\ i - 1 = 0
          <6>1. h[i] = g[i]
            OBVIOUS
          <6>2. g[i] = g[i - 1] \o seqs[i]
            BY <1>6
          <6>3. i - 1 = 0
            BY <4>1
          <6>4. QED
            BY <6>1, <6>2, <6>3
        <5>2. <<>> \o seqs[i] = seqs[i]
          BY <1>1, ConcatEmptySeq
        <5>3. g[i - 1] = <<>>
          <6>1. \A j : j = 0 => g[j] = <<>>
            BY <1>6
          <6>2. QED
            BY <5>1, <6>1
        <5>4. QED
          BY <4>1, <5>1, <5>2, <5>3
      <4>2. CASE i # 1
        <5>1. i - 1 \in 1 .. l
          BY <1>1, <4>2
        <5>2. QED
          BY <1>6, <4>2, <5>1
      <4>3. QED
        BY <4>1, <4>2
    <3>2. h = [i \in 1 .. l |-> h[i]]
      OBVIOUS
    <3> HIDE DEF h
    <3>3. Flattens(h, seqs)
      BY <3>1, <3>2 DEF Flattens, l
    <3>4. QED
      BY <3>3 DEF h
  <2>3. PICK f : Flattens(f, seqs) /\ FlattenSeq(seqs) = f[l]
    BY <2>1, <2>2
  <2>4. \A i \in 1 .. l : f[i] = IF i = 1 THEN seqs[i] ELSE f[i - 1] \o seqs[i]
    <3>1. f = [i \in 1 .. l |-> IF i = 1 THEN seqs[i] ELSE f[i - 1] \o seqs[i]]
      BY <2>3 DEF Flattens, l
    <3>2. QED
      BY <3>1
  <2> DEFINE T == {n \in 1 .. l : f[n] # g[n]}
  <2>5. T = {}
    <3> SUFFICES ASSUME T # {} PROVE FALSE
      OBVIOUS
    <3>1. T \subseteq Nat
      BY <1>1
    <3> HIDE DEF T
    <3>2. PICK n \in T : \A y \in T : n <= y
      BY <3>1, Least
    <3>3. n \in 1 .. l /\ f[n] # g[n]
      BY DEF T
    <3>4. CASE n = 1
      <4>1. g[n] = g[n - 1] \o seqs[n] /\ n - 1 = 0 /\ <<>> \o seqs[n] = seqs[n]
        <5>1. g[n] = g[n - 1] \o seqs[n]
          BY <1>6, <3>3
        <5>2. n - 1 = 0
          BY <3>4
        <5>3. <<>> \o seqs[n] = seqs[n]
          BY <1>1, <3>3, ConcatEmptySeq
        <5>4. QED
          BY <5>1, <5>2, <5>3
      <4>2. g[n - 1] = <<>>
        <5>1. \A j : j = 0 => g[j] = <<>>
          BY <1>6
        <5>2. QED
          BY <4>1, <5>1
      <4>3. QED
        BY <2>4, <3>3, <3>4, <4>1, <4>2
    <3>5. CASE n # 1
      <4>1. n - 1 \in 1 .. l /\ n - 1 \notin T
        BY <1>1, <3>2, <3>3, <3>5
      <4>2. f[n - 1] = g[n - 1]
        BY <4>1 DEF T
      <4>3. QED
        BY <1>6, <2>4, <3>3, <3>5, <4>2
    <3>6. QED
      BY <3>4, <3>5
  <2>6. l \in 1 .. l
    BY <1>1, <1>8
  <2>7. f[l] = g[l]
    BY <2>5, <2>6
  <2>8. QED
    BY <1>6, <2>3, <2>7 DEF l
<1>9. QED
  BY <1>7, <1>8

-----------------------------------------------------------------------------
(* The tokenizer. *)

LEMMA NormalizedType ==
  ASSUME NEW text \in Seq(Char), NEW lower
  PROVE  Normalized(text, lower) \in Seq(Char)
<1> DEFINE folded == [i \in DOMAIN text |-> Folded[text[i]]]
<1>1. DOMAIN text = 1 .. Len(text) /\ Len(text) \in Nat /\ \A i \in 1 .. Len(text) : text[i] \in Char
  BY LenProperties, ElementOfSeq
<1>2. \A i \in 1 .. Len(text) : Folded[text[i]] \in Seq(Char)
  BY <1>1, FoldedAssumption
<1>3. folded \in Seq(Seq(Char))
  <2>1. folded = [i \in 1 .. Len(text) |-> Folded[text[i]]]
    BY <1>1
  <2>2. QED
    BY <1>1, <1>2, <2>1
<1> HIDE DEF folded
<1>4. FlattenSeq(folded) \in Seq(Char)
  <2>1. Len(folded) \in Nat
    BY <1>3, LenProperties
  <2>2. PICK g \in [0 .. Len(folded) -> Seq(Char)] : FlattenSeq(folded) = g[Len(folded)]
    BY <1>3, FlattenIs
  <2>3. QED
    BY <2>1, <2>2
<1>5. QED
  BY <1>4 DEF Normalized, folded

\* The words so far.
Reading == [words : Seq(Seq(Char)), cur : Seq(Char)]

Reads(f, chars) ==
  f = [n \in 0 .. Len(chars) |->
         IF n = 0 THEN [words |-> <<>>, cur |-> <<>>] ELSE Consume(f[n - 1], chars[n])]

LEMMA ConsumeType ==
  ASSUME NEW s \in Reading, NEW c \in Char
  PROVE  Consume(s, c) \in Reading /\ Flush(s) \in Reading
<1>1. s.words \in Seq(Seq(Char)) /\ s.cur \in Seq(Char) /\ s = [words |-> s.words, cur |-> s.cur]
  BY DEF Reading
<1>2. <<>> \in Seq(Char) /\ <<c>> \in Seq(Char)
  OBVIOUS
<1>3. Flush(s) \in Reading
  BY <1>1, <1>2 DEF Flush, Reading
<1>4. Flush(s).words \in Seq(Seq(Char))
  BY <1>3 DEF Reading
<1>5. Append(Flush(s).words, <<c>>) \in Seq(Seq(Char))
  BY <1>2, <1>4
<1>6. [s EXCEPT !.cur = Append(@, c)] \in Reading
  BY <1>1 DEF Reading
<1>7. Class[c] \in {"letter", "space", "single", "dropped"}
  BY ClassAssumption
<1>8. QED
  BY <1>2, <1>3, <1>5, <1>6, <1>7 DEF Consume, Reading

LEMMA WordsType ==
  ASSUME NEW text \in Seq(Char), NEW lower
  PROVE  BasicTokenize(text, lower) \in Seq(Seq(Char))
<1> DEFINE chars == Normalized(text, lower)
           l == Len(chars)
           nothing == [words |-> <<>>, cur |-> <<>>]
           step == [p \in (1 .. l) \X Reading |-> Consume(p[2], chars[p[1]])]
<1>1. chars \in Seq(Char)
  BY NormalizedType
<1> HIDE DEF chars
<1>2. l \in Nat /\ \A i \in 1 .. l : chars[i] \in Char
  BY <1>1, LenProperties, ElementOfSeq
<1>3. nothing \in Reading
  BY DEF Reading
<1>4. step \in [(1 .. l) \X Reading -> Reading]
  <2>1. ASSUME NEW p \in (1 .. l) \X Reading PROVE Consume(p[2], chars[p[1]]) \in Reading
    BY <1>2, ConsumeType
  <2>2. QED
    BY <2>1
<1>5. \A i \in 1 .. l : \A s \in Reading : step[<<i, s>>] = Consume(s, chars[i])
  OBVIOUS
<1>6. BasicTokenize(text, lower) = Flush((CHOOSE f : Reads(f, chars))[l]).words
  BY DEF BasicTokenize, Reads, chars
<1> HIDE DEF step, nothing, l
<1>7. PICK g \in [0 .. l -> Reading] : Steps(g, l, nothing, step)
  BY <1>2, <1>3, <1>4, Recursion
<1>8. \E f : Reads(f, chars)
  <2>1. g[0] = nothing /\ \A n \in 1 .. l : g[n] = Consume(g[n - 1], chars[n])
    <3>1. \A n \in 1 .. l : n - 1 \in 0 .. l
      BY <1>2
    <3>2. QED
      BY <1>5, <1>7, <3>1 DEF Steps
  <2>2. \A n \in 0 .. l : n = 0 \/ n \in 1 .. l
    BY <1>2
  <2>3. \A n \in 0 .. l : g[n] = IF n = 0 THEN nothing ELSE Consume(g[n - 1], chars[n])
    BY <2>1, <2>2
  <2>4. g = [n \in 0 .. l |-> g[n]]
    OBVIOUS
  <2>5. g = [n \in 0 .. l |-> IF n = 0 THEN nothing ELSE Consume(g[n - 1], chars[n])]
    BY <2>3, <2>4
  <2>6. Reads(g, chars)
    BY <2>5 DEF Reads, l, nothing
  <2>7. QED
    BY <2>6
<1>9. PICK f : Reads(f, chars) /\ BasicTokenize(text, lower) = Flush(f[l]).words
  BY <1>6, <1>8
<1>10. \A n \in 0 .. l : f[n] = IF n = 0 THEN nothing ELSE Consume(f[n - 1], chars[n])
  <2>1. f = [n \in 0 .. l |-> IF n = 0 THEN nothing ELSE Consume(f[n - 1], chars[n])]
    BY <1>9 DEF Reads, l, nothing
  <2>2. QED
    BY <2>1
<1>11. f[l] \in Reading
  <2>1. 0 \in 0 .. l /\ l \in 0 .. l /\ \A n \in 1 .. l : n \in 0 .. l /\ n # 0
    BY <1>2
  <2>2. f[0] = nothing /\ \A n \in 1 .. l : f[n - 1] \in Reading => f[n] = step[<<n, f[n - 1]>>]
    BY <1>5, <1>10, <2>1
  <2>3. \A n \in 0 .. l : f[n] \in Reading
    BY <1>2, <1>3, <1>4, <2>2, StaysIn, SMTT(30)
  <2>4. QED
    BY <2>1, <2>3
<1>12. Flush(f[l]) \in Reading
  <2>1. f[l].words \in Seq(Seq(Char)) /\ f[l].cur \in Seq(Char)
    BY <1>11 DEF Reading
  <2>2. <<>> \in Seq(Char)
    OBVIOUS
  <2>3. QED
    BY <1>11, <2>1, <2>2 DEF Flush, Reading
<1>13. QED
  BY <1>9, <1>12 DEF Reading

-----------------------------------------------------------------------------
(* The pieces of a word. *)

\* What a vocabulary that loads is.
Numbering(vocab) == vocab \in [DOMAIN vocab -> Int] /\ Special \subseteq DOMAIN vocab

LEMMA VocabNumbers ==
  ASSUME NEW S, NEW lines \in Seq(S), Loadable(lines)
  PROVE  Numbering(Vocab(lines))
<1>1. DOMAIN Vocab(lines) = ToSet(lines) /\ Vocab(lines) = [l \in ToSet(lines) |-> Vocab(lines)[l]]
  BY DEF Vocab
<1>2. ASSUME NEW l \in ToSet(lines) PROVE Vocab(lines)[l] \in Int
  <2> DEFINE I == {i \in 1 .. Len(lines) : lines[i] = l}
  <2>1. DOMAIN lines = 1 .. Len(lines) /\ Len(lines) \in Nat
    BY LenProperties
  <2>2. I # {} /\ I \subseteq Nat
    BY <2>1 DEF ToSet
  <2> HIDE DEF I
  <2>3. Min(I) \in I
    <3>1. \E x \in I : \A y \in I : x <= y
      BY <2>2, Least
    <3>2. QED
      BY <3>1 DEF Min
  <2>4. Vocab(lines)[l] = Min(I) - 1
    <3>1. Vocab(lines)[l] = SelectInSeq(lines, LAMBDA x : x = l) - 1
      BY <1>2 DEF Vocab
    <3>2. SelectInSeq(lines, LAMBDA x : x = l) = Min(I)
      BY <2>2 DEF SelectInSeq, I
    <3>3. QED
      BY <3>1, <3>2
  <2>5. Min(I) \in Int
    <3>1. \A x \in I : x \in Nat
      BY <2>2
    <3>2. Min(I) \in Nat
      BY <2>3, <3>1
    <3>3. QED
      BY <3>2
  <2>6. QED
    BY <2>4, <2>5
<1>3. QED
  BY <1>1, <1>2 DEF Numbering, Loadable

LEMMA LongestIs ==
  ASSUME NEW b \in Nat, NEW ends, ends \subseteq 0 .. b, ends # {}
  PROVE  Longest(ends) \in ends /\ \A f \in ends : f <= Longest(ends)
<1> DEFINE below == {b - e : e \in ends}
<1>1. below \subseteq Nat /\ below # {}
  <2>1. \A e \in 0 .. b : b - e \in Nat
    OBVIOUS
  <2>2. \A e \in ends : b - e \in Nat
    BY <2>1
  <2>3. QED
    BY <2>2
<1>2. PICK x \in below : \A y \in below : x <= y
  BY <1>1, Least
<1>3. PICK e \in ends : x = b - e
  BY <1>2
<1>4. \A f \in ends : f <= e
  <2>1. \A f \in ends : b - e <= b - f
    BY <1>2, <1>3
  <2>2. \A f, g \in 0 .. b : b - g <= b - f => f <= g
    OBVIOUS
  <2>3. QED
    BY <2>1, <2>2
<1>5. QED
  BY <1>4 DEF Longest

LEMMA LongestMatch ==
  ASSUME NEW word \in Seq(Char), NEW vocab, NEW s \in 1 .. Len(word) + 1
  PROVE  /\ Matches(word, s, vocab) \subseteq s .. Len(word)
         /\ Matches(word, s, vocab) # {} =>
              LET e == Longest(Matches(word, s, vocab))
              IN  /\ e \in s .. Len(word) /\ e \in Matches(word, s, vocab)
                  /\ \A f \in Matches(word, s, vocab) : f <= e
<1>1. Len(word) \in Nat
  BY LenProperties
<1>2. Matches(word, s, vocab) \subseteq s .. Len(word)
  BY DEF Matches
<1>3. Matches(word, s, vocab) \subseteq 0 .. Len(word)
  BY <1>1, <1>2
<1>4. QED
  BY <1>1, <1>2, <1>3, LongestIs

\* The pieces of word[s ..], from those of the shorter rests.
PiecesFrom(f, s, word, vocab) ==
  IF s > Len(word) THEN <<>>
  ELSE LET ends == Matches(word, s, vocab)
       IN  IF ends = {} THEN Nil
           ELSE LET rest == f[Longest(ends) + 1]
                IN  IF rest = Nil THEN Nil
                    ELSE <<vocab[Piece(word, s, Longest(ends))]>> \o rest

Pieces(f, from, word, vocab) ==
  f = [s \in from .. Len(word) + 1 |-> PiecesFrom(f, s, word, vocab)]

LEMMA PiecesExist ==
  ASSUME NEW word \in Seq(Char), NEW vocab
  PROVE  \E f : Pieces(f, 1, word, vocab)
<1> DEFINE l == Len(word)
           T == {n \in 0 .. l : ~\E f : Pieces(f, l + 1 - n, word, vocab)}
<1>1. l \in Nat
  BY LenProperties
<1>2. T = {}
  <2> SUFFICES ASSUME T # {} PROVE FALSE
    OBVIOUS
  <2>1. T \subseteq Nat
    OBVIOUS
  <2> HIDE DEF T
  <2>2. PICK n \in T : \A y \in T : n <= y
    BY <2>1, Least
  <2>3. n \in 0 .. l /\ ~\E f : Pieces(f, l + 1 - n, word, vocab)
    BY DEF T
  <2>4. CASE n = 0
    <3> DEFINE f == [s \in l + 1 .. l + 1 |-> <<>>]
    <3>1. \A s \in l + 1 .. l + 1 : PiecesFrom(f, s, word, vocab) = <<>>
      BY <1>1 DEF PiecesFrom
    <3>2. Pieces(f, l + 1, word, vocab)
      BY <3>1 DEF Pieces
    <3>3. l + 1 - n = l + 1
      BY <1>1, <2>4
    <3>4. QED
      BY <2>3, <3>2, <3>3
  <2>5. CASE n # 0
    <3>1. n - 1 \in 0 .. l /\ n - 1 \notin T
      BY <2>2, <2>3, <2>5
    <3>2. PICK f : Pieces(f, l + 1 - (n - 1), word, vocab)
      BY <3>1 DEF T
    <3> DEFINE a == l + 1 - n
               g == [s \in a .. l + 1 |-> IF s = a THEN PiecesFrom(f, s, word, vocab) ELSE f[s]]
    <3>3. a \in 1 .. l /\ l + 1 - (n - 1) = a + 1
      BY <1>1, <2>3, <2>5
    <3>4. \A s \in a + 1 .. l + 1 : f[s] = PiecesFrom(f, s, word, vocab)
      <4>1. f = [s \in a + 1 .. l + 1 |-> PiecesFrom(f, s, word, vocab)]
        BY <3>2, <3>3 DEF Pieces
      <4>2. QED
        BY <4>1
    <3> HIDE DEF a
    <3>5. ASSUME NEW s \in a .. l + 1
          PROVE  g[s] = PiecesFrom(g, s, word, vocab)
      <4>1. g[s] = PiecesFrom(f, s, word, vocab)
        BY <1>1, <3>3, <3>4
      <4>2. s \in 1 .. l + 1
        BY <1>1, <3>3
      <4>3. ASSUME Matches(word, s, vocab) # {}
            PROVE  g[Longest(Matches(word, s, vocab)) + 1] = f[Longest(Matches(word, s, vocab)) + 1]
        <5>1. Longest(Matches(word, s, vocab)) \in s .. l
          BY <4>2, <4>3, LongestMatch
        <5>2. \A e \in s .. l : e + 1 \in a .. l + 1 /\ e + 1 # a
          BY <1>1, <3>3
        <5>3. QED
          BY <5>1, <5>2
      <4> HIDE DEF g
      <4>4. QED
        BY <4>1, <4>3 DEF PiecesFrom
    <3>6. g = [s \in a .. l + 1 |-> g[s]]
      OBVIOUS
    <3> HIDE DEF g
    <3>7. g = [s \in a .. l + 1 |-> PiecesFrom(g, s, word, vocab)]
      BY <3>5, <3>6
    <3>8. Pieces(g, a, word, vocab)
      BY <3>7 DEF Pieces
    <3>9. QED
      BY <2>3, <3>8 DEF a
  <2>6. QED
    BY <2>4, <2>5
<1>3. l \in 0 .. l /\ l + 1 - l = 1
  BY <1>1
<1>4. QED
  BY <1>2, <1>3

LEMMA GreedyIs ==
  ASSUME NEW word \in Seq(Char), NEW vocab
  PROVE  \E f : /\ \A s \in 1 .. Len(word) + 1 : f[s] = PiecesFrom(f, s, word, vocab)
                /\ Greedy(word, vocab) = f[1]
<1>1. Greedy(word, vocab) = (CHOOSE f : Pieces(f, 1, word, vocab))[1]
  BY DEF Greedy, Pieces, PiecesFrom
<1>2. PICK f : Pieces(f, 1, word, vocab) /\ Greedy(word, vocab) = f[1]
  BY <1>1, PiecesExist
<1>3. f = [s \in 1 .. Len(word) + 1 |-> PiecesFrom(f, s, word, vocab)]
  BY <1>2 DEF Pieces
<1>4. \A s \in 1 .. Len(word) + 1 : f[s] = PiecesFrom(f, s, word, vocab)
  BY <1>3
<1>5. QED
  BY <1>2, <1>4

\* c cuts word, from b on, into n - 1 pieces, each the longest there is.
Cuts(word, vocab, b, n, c) ==
  /\ n \in Nat \ {0} /\ c \in [1 .. n -> 0 .. Len(word)]
  /\ c[1] = b /\ c[n] = Len(word)
  /\ \A i \in 1 .. n - 1 :
       /\ c[i + 1] \in Matches(word, c[i] + 1, vocab)
       /\ \A f \in Matches(word, c[i] + 1, vocab) : f <= c[i + 1]

Along(word, vocab, n, c) == [i \in 1 .. n - 1 |-> vocab[Piece(word, c[i] + 1, c[i + 1])]]

\* The pieces found from b on are those of any such cuts, and there are none
\* when the word cannot be cut.
CutInto(word, vocab, b, pieces) ==
  /\ pieces \in Seq(Int) \cup {Nil}
  /\ \A n, c : Cuts(word, vocab, b, n, c) => pieces = Along(word, vocab, n, c) /\ pieces # Nil
  /\ pieces # Nil => /\ \E n, c : Cuts(word, vocab, b, n, c)
                     /\ Len(pieces) <= Len(word) - b

\* The cuts after the first.
Rest(n, c) == [i \in 1 .. n - 1 |-> c[i + 1]]

\* Where the first piece ends, and the cuts of the rest.
LEMMA CutsTail ==
  ASSUME NEW word \in Seq(Char), NEW vocab, NEW b \in 0 .. Len(word), b # Len(word),
         NEW n, NEW c, Cuts(word, vocab, b, n, c)
  PROVE  LET e == Longest(Matches(word, b + 1, vocab))
         IN  /\ Matches(word, b + 1, vocab) # {} /\ e = c[2] /\ n \in Nat /\ n >= 2
             /\ Cuts(word, vocab, e, n - 1, Rest(n, c))
<1> DEFINE ends == Matches(word, b + 1, vocab)
           l == Len(word)
           d == Rest(n, c)
<1>1. n \in Nat \ {0} /\ c \in [1 .. n -> 0 .. l] /\ c[1] = b /\ c[n] = l /\ l \in Nat
  BY LenProperties DEF Cuts
<1>2. \A i \in 1 .. n - 1 :
        /\ c[i + 1] \in Matches(word, c[i] + 1, vocab)
        /\ \A f \in Matches(word, c[i] + 1, vocab) : f <= c[i + 1]
  BY DEF Cuts
<1>3. n >= 2
  <2>1. n # 1
    BY <1>1
  <2>2. QED
    BY <1>1, <2>1
<1>4. 1 \in 1 .. n - 1 /\ n - 1 \in Nat \ {0} /\ n - 1 \in 1 .. n - 1 /\ (n - 1) + 1 = n /\ b + 1 \in 1 .. l + 1
  BY <1>1, <1>3
<1>5. c[2] \in ends /\ \A f \in ends : f <= c[2]
  <2>1. /\ c[1 + 1] \in Matches(word, c[1] + 1, vocab)
        /\ \A f \in Matches(word, c[1] + 1, vocab) : f <= c[1 + 1]
    BY <1>2, <1>4
  <2>2. QED
    BY <1>1, <2>1
<1>6. Longest(ends) = c[2]
  <2>1. Longest(ends) \in ends /\ \A f \in ends : f <= Longest(ends)
    BY <1>4, <1>5, LongestMatch
  <2>2. ends \subseteq (b + 1) .. l
    BY <1>4, LongestMatch
  <2>3. Longest(ends) \in Int /\ c[2] \in Int
    BY <1>5, <2>1, <2>2
  <2>4. Longest(ends) <= c[2] /\ c[2] <= Longest(ends)
    BY <1>5, <2>1
  <2>5. QED
    BY <2>3, <2>4
<1>7. \A i \in 1 .. n - 1 : i + 1 \in 1 .. n /\ i \in 1 .. n
  BY <1>1
<1>8. d \in [1 .. n - 1 -> 0 .. l] /\ \A i \in 1 .. n - 1 : d[i] = c[i + 1]
  BY <1>1, <1>7 DEF Rest
<1> HIDE DEF d
<1>9. d[1] = c[2] /\ d[n - 1] = l
  <2>1. d[1] = c[1 + 1] /\ d[n - 1] = c[(n - 1) + 1]
    BY <1>4, <1>8
  <2>2. QED
    BY <1>1, <1>4, <2>1
<1>10. ASSUME NEW i \in 1 .. (n - 1) - 1
       PROVE  /\ d[i + 1] \in Matches(word, d[i] + 1, vocab)
              /\ \A f \in Matches(word, d[i] + 1, vocab) : f <= d[i + 1]
  <2>1. i \in 1 .. n - 1 /\ i + 1 \in 1 .. n - 1
    BY <1>1
  <2>2. d[i] = c[i + 1] /\ d[i + 1] = c[(i + 1) + 1]
    BY <1>8, <2>1
  <2>3. QED
    BY <1>2, <2>1, <2>2
<1>11. Cuts(word, vocab, c[2], n - 1, d)
  BY <1>4, <1>8, <1>9, <1>10 DEF Cuts
<1>12. QED
  BY <1>1, <1>3, <1>5, <1>6, <1>11 DEF d

LEMMA CutsCons ==
  ASSUME NEW word \in Seq(Char), NEW vocab, NEW b \in 0 .. Len(word), b # Len(word),
         Matches(word, b + 1, vocab) # {},
         NEW n, NEW d, Cuts(word, vocab, Longest(Matches(word, b + 1, vocab)), n, d)
  PROVE  \E m, c : Cuts(word, vocab, b, m, c)
<1> DEFINE ends == Matches(word, b + 1, vocab)
           l == Len(word)
           c == [i \in 1 .. n + 1 |-> IF i = 1 THEN b ELSE d[i - 1]]
<1>1. n \in Nat \ {0} /\ d \in [1 .. n -> 0 .. l] /\ d[1] = Longest(ends) /\ d[n] = l /\ l \in Nat
  BY LenProperties DEF Cuts
<1>2. \A i \in 1 .. n - 1 :
        /\ d[i + 1] \in Matches(word, d[i] + 1, vocab)
        /\ \A f \in Matches(word, d[i] + 1, vocab) : f <= d[i + 1]
  BY DEF Cuts
<1>3. Longest(ends) \in ends /\ \A f \in ends : f <= Longest(ends)
  <2>1. b + 1 \in 1 .. l + 1
    BY <1>1
  <2>2. QED
    BY <2>1, LongestMatch
<1>4. \A i \in 2 .. n + 1 : i \in 1 .. n + 1 /\ i - 1 \in 1 .. n /\ i # 1
  BY <1>1
<1>5. 1 \in 1 .. n + 1 /\ n + 1 \in 2 .. n + 1 /\ (n + 1) - 1 = n /\ n + 1 \in Nat \ {0}
  BY <1>1
<1>6. c[1] = b /\ \A i \in 2 .. n + 1 : c[i] = d[i - 1]
  BY <1>4, <1>5
<1>7. c \in [1 .. n + 1 -> 0 .. l]
  <2>1. \A i \in 1 .. n + 1 : i = 1 \/ i - 1 \in 1 .. n
    BY <1>1
  <2>2. QED
    BY <1>1, <2>1
<1> HIDE DEF c
<1>8. c[n + 1] = l
  BY <1>1, <1>5, <1>6
<1>9. ASSUME NEW i \in 1 .. (n + 1) - 1
      PROVE  /\ c[i + 1] \in Matches(word, c[i] + 1, vocab)
             /\ \A f \in Matches(word, c[i] + 1, vocab) : f <= c[i + 1]
  <2>1. i + 1 \in 2 .. n + 1 /\ (i + 1) - 1 = i
    BY <1>1
  <2>2. c[i + 1] = d[i]
    BY <1>6, <2>1
  <2>3. CASE i = 1
    BY <1>1, <1>3, <1>6, <2>2, <2>3
  <2>4. CASE i # 1
    <3>1. i \in 2 .. n + 1 /\ i - 1 \in 1 .. n - 1 /\ (i - 1) + 1 = i
      BY <1>1, <2>4
    <3>2. c[i] = d[i - 1]
      BY <1>6, <3>1
    <3>3. /\ d[(i - 1) + 1] \in Matches(word, d[i - 1] + 1, vocab)
          /\ \A f \in Matches(word, d[i - 1] + 1, vocab) : f <= d[(i - 1) + 1]
      BY <1>2, <3>1
    <3>4. QED
      BY <2>2, <3>1, <3>2, <3>3
  <2>5. QED
    BY <2>3, <2>4
<1>10. Cuts(word, vocab, b, n + 1, c)
  BY <1>5, <1>6, <1>7, <1>8, <1>9 DEF Cuts
<1>11. QED
  BY <1>10

LEMMA AlongType ==
  ASSUME NEW word \in Seq(Char), NEW vocab, Numbering(vocab), NEW b, NEW n, NEW c,
         Cuts(word, vocab, b, n, c)
  PROVE  Along(word, vocab, n, c) \in Seq(Int) /\ Len(Along(word, vocab, n, c)) = n - 1
<1>1. n - 1 \in Nat
  BY DEF Cuts
<1>2. ASSUME NEW i \in 1 .. n - 1 PROVE vocab[Piece(word, c[i] + 1, c[i + 1])] \in Int
  <2>1. Piece(word, c[i] + 1, c[i + 1]) \in DOMAIN vocab
    BY DEF Cuts, Matches
  <2>2. QED
    BY <2>1 DEF Numbering
<1>3. QED
  BY <1>1, <1>2 DEF Along

LEMMA AlongTail ==
  ASSUME NEW word \in Seq(Char), NEW vocab, Numbering(vocab), NEW b \in 0 .. Len(word),
         b # Len(word), NEW n, NEW c, Cuts(word, vocab, b, n, c)
  PROVE  Along(word, vocab, n, c) =
           <<vocab[Piece(word, b + 1, c[2])]>> \o Along(word, vocab, n - 1, Rest(n, c))
<1> DEFINE d == Rest(n, c)
           p == vocab[Piece(word, b + 1, c[2])]
           rest == Along(word, vocab, n - 1, d)
           all == Along(word, vocab, n, c)
<1>1. n \in Nat /\ n >= 2 /\ Cuts(word, vocab, c[2], n - 1, d) /\ c[1] = b
  <2>1. c[1] = b
    BY DEF Cuts
  <2> HIDE DEF d
  <2>2. n \in Nat /\ n >= 2 /\ Cuts(word, vocab, c[2], n - 1, d)
    BY CutsTail DEF d
  <2>3. QED
    BY <2>1, <2>2
<1>2. rest \in Seq(Int) /\ Len(rest) = n - 2 /\ all \in Seq(Int) /\ Len(all) = n - 1
  <2>1. (n - 1) - 1 = n - 2
    BY <1>1
  <2>2. QED
    BY <1>1, <2>1, AlongType
<1>3. \A i \in 1 .. n - 1 : all[i] = vocab[Piece(word, c[i] + 1, c[i + 1])]
  BY DEF Along
<1>4. \A i \in 1 .. n - 2 : rest[i] = vocab[Piece(word, c[i + 1] + 1, c[(i + 1) + 1])]
  <2>1. \A i \in 1 .. (n - 1) - 1 : rest[i] = vocab[Piece(word, d[i] + 1, d[i + 1])]
    BY DEF Along
  <2>2. \A i \in 1 .. n - 2 : i \in 1 .. (n - 1) - 1 /\ i \in 1 .. n - 1 /\ i + 1 \in 1 .. n - 1
    BY <1>1
  <2>3. \A i \in 1 .. n - 1 : d[i] = c[i + 1]
    BY DEF Rest
  <2> HIDE DEF rest, d
  <2>4. QED
    BY <2>1, <2>2, <2>3
<1> HIDE DEF all, rest, d
<1>5. 1 \in 1 .. n - 1 /\ all[1] = p
  <2>1. 1 \in 1 .. n - 1 /\ 1 + 1 = 2
    BY <1>1
  <2>2. all[1] = vocab[Piece(word, c[1] + 1, c[1 + 1])]
    BY <1>3, <2>1
  <2>3. QED
    BY <1>1, <2>1, <2>2
<1>6. p \in Int
  BY <1>2, <1>5, ElementOfSeq
<1> HIDE DEF p
<1>7. <<p>> \in Seq(Int) /\ Len(<<p>>) = 1 /\ <<p>>[1] = p
  BY <1>6
<1>8. /\ <<p>> \o rest \in Seq(Int) /\ Len(<<p>> \o rest) = n - 1
      /\ \A i \in 1 .. n - 1 : (<<p>> \o rest)[i] = IF i <= 1 THEN <<p>>[i] ELSE rest[i - 1]
  BY <1>1, <1>2, <1>7, ConcatProperties
<1>9. ASSUME NEW i \in 1 .. n - 1 PROVE all[i] = (<<p>> \o rest)[i]
  <2>1. CASE i = 1
    BY <1>5, <1>7, <1>8, <2>1
  <2>2. CASE i # 1
    <3>1. i - 1 \in 1 .. n - 2 /\ (i - 1) + 1 = i /\ ~(i <= 1)
      BY <1>1, <2>2
    <3>2. rest[i - 1] = vocab[Piece(word, c[i] + 1, c[i + 1])]
      BY <1>4, <3>1
    <3>3. QED
      BY <1>3, <1>8, <3>1, <3>2
  <2>3. QED
    BY <2>1, <2>2
<1>10. all = <<p>> \o rest
  BY <1>2, <1>8, <1>9, SeqEqual
<1>11. QED
  BY <1>10 DEF all, rest, d, p

\* At the end of the word nothing is left to cut.
LEMMA CutsEnd ==
  ASSUME NEW word \in Seq(Char), NEW vocab
  PROVE  CutInto(word, vocab, Len(word), <<>>)
<1> DEFINE l == Len(word)
<1>1. l \in Nat /\ l + 1 \in 1 .. l + 1
  BY LenProperties
<1>2. <<>> \in Seq(Int) /\ <<>> # Nil /\ Len(<<>>) = 0
  <2>1. <<>> \in Seq(Int) /\ Len(<<>>) = 0
    OBVIOUS
  <2>2. QED
    BY <2>1, NilAssumption
<1>3. ASSUME NEW n, NEW c, Cuts(word, vocab, l, n, c) PROVE <<>> = Along(word, vocab, n, c)
  <2>1. n \in Nat \ {0} /\ c[1] = l
    BY <1>3 DEF Cuts
  <2>2. n = 1
    <3> SUFFICES ASSUME n # 1 PROVE FALSE
      OBVIOUS
    <3>1. 1 \in 1 .. n - 1
      BY <2>1
    <3>2. c[1 + 1] \in Matches(word, c[1] + 1, vocab)
      BY <1>3, <3>1 DEF Cuts
    <3>3. Matches(word, l + 1, vocab) \subseteq (l + 1) .. l
      BY <1>1, LongestMatch
    <3>4. QED
      BY <1>1, <2>1, <3>2, <3>3
  <2>3. QED
    BY <2>2 DEF Along
<1>4. Cuts(word, vocab, l, 1, [i \in 1 .. 1 |-> l])
  BY <1>1 DEF Cuts
<1>5. Len(<<>>) <= l - l
  BY <1>1, <1>2
<1>6. QED
  BY <1>2, <1>3, <1>4, <1>5 DEF CutInto

\* Before the end, one piece and the rest.
LEMMA CutsStep ==
  ASSUME NEW word \in Seq(Char), NEW vocab, Numbering(vocab), NEW b \in 0 .. Len(word),
         b # Len(word), NEW f, f[b + 1] = PiecesFrom(f, b + 1, word, vocab),
         \A e \in b + 1 .. Len(word) : CutInto(word, vocab, e, f[e + 1])
  PROVE  CutInto(word, vocab, b, f[b + 1])
<1> DEFINE ends == Matches(word, b + 1, vocab)
           e == Longest(ends)
           l == Len(word)
           p == vocab[Piece(word, b + 1, e)]
<1>1. l \in Nat /\ b + 1 \in 1 .. l + 1 /\ ~(b + 1 > l)
  BY LenProperties
<1>2. CASE ends = {}
  <2>1. f[b + 1] = Nil
    BY <1>1, <1>2 DEF PiecesFrom
  <2>2. \A n, c : ~Cuts(word, vocab, b, n, c)
    BY <1>2, CutsTail
  <2>3. QED
    BY <2>1, <2>2 DEF CutInto
<1>3. CASE ends # {}
  <2>1. e \in b + 1 .. l /\ e \in ends
    BY <1>1, <1>3, LongestMatch
  <2>2. CutInto(word, vocab, e, f[e + 1])
    BY <2>1
  <2>3. f[b + 1] = IF f[e + 1] = Nil THEN Nil ELSE <<p>> \o f[e + 1]
    BY <1>1, <1>3 DEF PiecesFrom
  <2>4. p \in Int
    <3>1. Piece(word, b + 1, e) \in DOMAIN vocab
      BY <2>1 DEF Matches
    <3>2. QED
      BY <3>1 DEF Numbering
  <2> HIDE DEF ends
  <2>5. ASSUME NEW n, NEW c, Cuts(word, vocab, b, n, c)
        PROVE  /\ f[e + 1] = Along(word, vocab, n - 1, Rest(n, c)) /\ f[e + 1] # Nil
               /\ c[2] = e
    <3>1. c[2] = e /\ Cuts(word, vocab, e, n - 1, Rest(n, c))
      BY <2>5, CutsTail DEF ends
    <3>2. QED
      BY <2>2, <3>1 DEF CutInto
  <2>6. CASE f[e + 1] = Nil
    <3>1. \A n, c : ~Cuts(word, vocab, b, n, c)
      BY <2>5, <2>6
    <3>2. f[b + 1] = Nil
      BY <2>3, <2>6
    <3>3. QED
      BY <3>1, <3>2 DEF CutInto
  <2>7. CASE f[e + 1] # Nil
    <3>1. f[e + 1] \in Seq(Int) /\ Len(f[e + 1]) <= l - e /\ \E n, d : Cuts(word, vocab, e, n, d)
      BY <2>2, <2>7 DEF CutInto
    <3>2. f[b + 1] = <<p>> \o f[e + 1]
      BY <2>3, <2>7
    <3> HIDE DEF p
    <3>3. f[b + 1] \in Seq(Int) /\ Len(f[b + 1]) = 1 + Len(f[e + 1])
      <4>1. <<p>> \in Seq(Int) /\ Len(<<p>>) = 1
        BY <2>4
      <4>2. <<p>> \o f[e + 1] \in Seq(Int) /\ Len(<<p>> \o f[e + 1]) = Len(<<p>>) + Len(f[e + 1])
        BY <3>1, <4>1, ConcatProperties
      <4>3. QED
        BY <3>2, <4>1, <4>2
    <3>4. f[b + 1] # Nil
      BY <3>3, NilAssumption
    <3>5. Len(f[b + 1]) <= l - b
      <4>1. Len(f[e + 1]) \in Nat
        BY <3>1, LenProperties
      <4>2. \A k \in Nat : k <= l - e => 1 + k <= l - b
        BY <1>1, <2>1
      <4>3. QED
        BY <3>1, <3>3, <4>1, <4>2
    <3>6. \E n, c : Cuts(word, vocab, b, n, c)
      BY <1>3, <3>1, CutsCons DEF ends
    <3>7. ASSUME NEW n, NEW c, Cuts(word, vocab, b, n, c) PROVE f[b + 1] = Along(word, vocab, n, c)
      <4>1. Along(word, vocab, n, c) = <<p>> \o Along(word, vocab, n - 1, Rest(n, c))
        <5>1. c[2] = e
          BY <2>5, <3>7
        <5>2. Along(word, vocab, n, c) =
                <<vocab[Piece(word, b + 1, c[2])]>> \o Along(word, vocab, n - 1, Rest(n, c))
          BY <3>7, AlongTail
        <5>3. QED
          BY <5>1, <5>2 DEF p
      <4>2. QED
        BY <2>5, <3>2, <3>7, <4>1
    <3>8. QED
      BY <3>3, <3>4, <3>5, <3>6, <3>7 DEF CutInto
  <2>8. QED
    BY <2>6, <2>7
<1>4. QED
  BY <1>2, <1>3

LEMMA GreedyCuts ==
  ASSUME NEW word \in Seq(Char), NEW vocab, Numbering(vocab)
  PROVE  CutInto(word, vocab, 0, Greedy(word, vocab))
<1> DEFINE l == Len(word)
<1>1. l \in Nat
  BY LenProperties
<1>2. PICK f : /\ \A s \in 1 .. l + 1 : f[s] = PiecesFrom(f, s, word, vocab)
               /\ Greedy(word, vocab) = f[1]
  BY GreedyIs
<1> DEFINE T == {k \in 0 .. l : ~CutInto(word, vocab, l - k, f[l - k + 1])}
<1>3. T = {}
  <2> SUFFICES ASSUME T # {} PROVE FALSE
    OBVIOUS
  <2>1. T \subseteq Nat
    OBVIOUS
  <2> HIDE DEF T
  <2>2. PICK k \in T : \A y \in T : k <= y
    BY <2>1, Least
  <2>3. k \in 0 .. l /\ ~CutInto(word, vocab, l - k, f[l - k + 1])
    BY DEF T
  <2>4. CASE k = 0
    <3>1. l - k = l /\ l - k + 1 = l + 1 /\ l + 1 \in 1 .. l + 1 /\ l + 1 > l
      BY <1>1, <2>4
    <3>2. f[l + 1] = <<>>
      BY <1>2, <3>1 DEF PiecesFrom
    <3>3. CutInto(word, vocab, l, <<>>)
      BY CutsEnd
    <3>4. QED
      BY <2>3, <3>1, <3>2, <3>3
  <2>5. CASE k # 0
    <3> DEFINE b == l - k
    <3>1. b \in 0 .. l /\ b # l /\ b + 1 \in 1 .. l + 1
      BY <1>1, <2>3, <2>5
    <3>2. ASSUME NEW e \in b + 1 .. l PROVE CutInto(word, vocab, e, f[e + 1])
      <4>1. l - e \in 0 .. l /\ l - e < k /\ l - (l - e) = e /\ l - (l - e) + 1 = e + 1
        BY <1>1, <2>3
      <4>2. l - e \notin T
        <5>1. ~(k <= l - e)
          BY <2>3, <4>1
        <5>2. QED
          BY <2>2, <5>1
      <4>3. CutInto(word, vocab, l - (l - e), f[l - (l - e) + 1])
        BY <4>1, <4>2 DEF T
      <4>4. QED
        BY <4>1, <4>3
    <3>3. f[b + 1] = PiecesFrom(f, b + 1, word, vocab)
      BY <1>2, <3>1
    <3> HIDE DEF b
    <3>4. CutInto(word, vocab, b, f[b + 1])
      BY <3>1, <3>2, <3>3, CutsStep
    <3>5. QED
      BY <2>3, <3>4 DEF b
  <2>6. QED
    BY <2>4, <2>5
<1>4. l \in 0 .. l /\ l - l = 0 /\ l - l + 1 = 1
  BY <1>1
<1>5. CutInto(word, vocab, l - l, f[l - l + 1])
  BY <1>3, <1>4
<1>6. QED
  BY <1>2, <1>4, <1>5

LEMMA LongestCutsAre ==
  ASSUME NEW word \in Seq(Char), NEW vocab, Numbering(vocab)
  PROVE  /\ \A c \in LongestCuts(word, vocab) : Cuts(word, vocab, 0, Len(c), c)
         /\ \A n, c : Cuts(word, vocab, 0, n, c) => c \in LongestCuts(word, vocab)
<1> DEFINE l == Len(word)
           All == UNION {[1 .. n -> 0 .. l] : n \in 1 .. l + 1}
<1>1. l \in Nat
  BY LenProperties
<1>2. ASSUME NEW c \in LongestCuts(word, vocab) PROVE Cuts(word, vocab, 0, Len(c), c)
  <2>1. c \in All
    BY DEF LongestCuts
  <2>2. PICK n \in 1 .. l + 1 : c \in [1 .. n -> 0 .. l]
    BY <2>1
  <2>3. n \in Nat \ {0}
    BY <1>1
  <2>4. Len(c) = n
    <3>1. c \in Seq(0 .. l)
      BY <2>2, <2>3
    <3>2. QED
      BY <2>2, <2>3, <3>1, LenProperties
  <2>5. /\ c[1] = 0 /\ c[n] = l
        /\ \A i \in 1 .. n - 1 : /\ c[i + 1] \in Matches(word, c[i] + 1, vocab)
                                 /\ \A f \in Matches(word, c[i] + 1, vocab) : f <= c[i + 1]
    BY <2>4 DEF LongestCuts
  <2>6. QED
    BY <2>2, <2>3, <2>4, <2>5 DEF Cuts
<1>3. ASSUME NEW n, NEW c, Cuts(word, vocab, 0, n, c) PROVE c \in LongestCuts(word, vocab)
  <2>1. n \in Nat \ {0} /\ c \in [1 .. n -> 0 .. l]
    BY <1>3 DEF Cuts
  <2>2. n \in 1 .. l + 1
    <3>1. Greedy(word, vocab) = Along(word, vocab, n, c) /\ Len(Greedy(word, vocab)) <= l - 0
      BY <1>3, GreedyCuts DEF CutInto
    <3>2. Len(Along(word, vocab, n, c)) = n - 1
      BY <1>3, AlongType
    <3>3. n - 1 <= l
      BY <1>1, <3>1, <3>2
    <3>4. QED
      BY <1>1, <2>1, <3>3
  <2>3. c \in All
    BY <2>1, <2>2
  <2>4. Len(c) = n
    <3>1. c \in Seq(0 .. l)
      BY <2>1
    <3>2. QED
      BY <2>1, <3>1, LenProperties
  <2>5. /\ c[1] = 0 /\ c[n] = l
        /\ \A i \in 1 .. n - 1 : /\ c[i + 1] \in Matches(word, c[i] + 1, vocab)
                                 /\ \A f \in Matches(word, c[i] + 1, vocab) : f <= c[i + 1]
    BY <1>3 DEF Cuts
  <2>6. QED
    BY <2>3, <2>4, <2>5 DEF LongestCuts
<1>4. QED
  BY <1>2, <1>3

\* wordPiece finds the pieces of the one way to cut the word longest first.
LEMMA WordPiecesAre ==
  ASSUME NEW word \in Seq(Char), NEW vocab, Numbering(vocab)
  PROVE  WordPieces(word, vocab) = PiecesOf(word, vocab) /\ PiecesOf(word, vocab) \in Seq(Int)
<1>1. CutInto(word, vocab, 0, Greedy(word, vocab))
  BY GreedyCuts
<1>2. <<vocab[UNK]>> \in Seq(Int)
  <2>1. vocab[UNK] \in Int
    BY DEF Numbering, Special
  <2>2. QED
    BY <2>1
<1>3. CASE LongestCuts(word, vocab) = {}
  <2>1. Greedy(word, vocab) = Nil
    BY <1>1, <1>3, LongestCutsAre DEF CutInto
  <2>2. QED
    BY <1>2, <1>3, <2>1 DEF WordPieces, PiecesOf
<1>4. CASE LongestCuts(word, vocab) # {}
  <2> DEFINE c == CHOOSE c \in LongestCuts(word, vocab) : TRUE
  <2>1. c \in LongestCuts(word, vocab)
    BY <1>4
  <2> HIDE DEF c
  <2>2. Cuts(word, vocab, 0, Len(c), c)
    BY <2>1, LongestCutsAre
  <2>3. Greedy(word, vocab) = Along(word, vocab, Len(c), c) /\ Greedy(word, vocab) # Nil
    BY <1>1, <2>2 DEF CutInto
  <2>4. Greedy(word, vocab) \in Seq(Int)
    BY <1>1, <2>3 DEF CutInto
  <2>5. PiecesOf(word, vocab) = IF Len(word) > MaxChars THEN <<vocab[UNK]>>
                                ELSE Along(word, vocab, Len(c), c)
    BY <1>4 DEF PiecesOf, Along, c
  <2>6. QED
    BY <1>2, <2>3, <2>4, <2>5 DEF WordPieces
<1>5. QED
  BY <1>3, <1>4

-----------------------------------------------------------------------------
(* The encoding of a text. *)

\* The first k elements of s, as many as there are.
Clip(s, k) == SubSeq(s, 1, IF Len(s) < k THEN Len(s) ELSE k)

LEMMA ClipIs ==
  ASSUME NEW S, NEW s \in Seq(S), NEW k \in Nat
  PROVE  LET m == IF Len(s) < k THEN Len(s) ELSE k
         IN  /\ Clip(s, k) \in Seq(S) /\ Len(Clip(s, k)) = m
             /\ \A i \in 1 .. m : Clip(s, k)[i] = s[i]
<1> DEFINE m == IF Len(s) < k THEN Len(s) ELSE k
<1>1. Len(s) \in Nat
  BY LenProperties
<1>2. m \in Nat /\ m <= Len(s) /\ 1 .. m \subseteq 1 .. Len(s)
  BY <1>1
<1> HIDE DEF m
<1>3. SubSeq(s, 1, m) = [i \in 1 .. m |-> s[i]]
  <2>1. SubSeq(s, 1, m) = [i \in 1 .. (1 + m) - 1 |-> s[i + 1 - 1]]
    BY <1>2 DEF SubSeq
  <2>2. (1 + m) - 1 = m /\ \A i \in 1 .. m : i + 1 - 1 = i
    BY <1>2
  <2>3. QED
    BY <2>1, <2>2
<1>4. \A i \in 1 .. m : s[i] \in S
  BY <1>2, ElementOfSeq
<1>5. [i \in 1 .. m |-> s[i]] \in Seq(S) /\ Len([i \in 1 .. m |-> s[i]]) = m
  BY <1>2, <1>4
<1>6. Clip(s, k) = [i \in 1 .. m |-> s[i]]
  BY <1>3 DEF Clip, m
<1>7. QED
  BY <1>5, <1>6 DEF m

LEMMA FittingIs ==
  ASSUME NEW S, NEW s \in Seq(S), NEW room \in Nat
  PROVE  Fitting(s, room) = Clip(s, room)
<1>1. Len(s) \in Nat
  BY LenProperties
<1>2. CASE Len(s) <= room
  <2>1. Clip(s, room) \in Seq(S) /\ Len(Clip(s, room)) = Len(s)
        /\ \A i \in 1 .. Len(s) : Clip(s, room)[i] = s[i]
    <3>1. (IF Len(s) < room THEN Len(s) ELSE room) = Len(s)
      BY <1>1, <1>2
    <3>2. QED
      BY <3>1, ClipIs
  <2>2. Clip(s, room) = s
    BY <2>1, SeqEqual
  <2>3. QED
    BY <1>2, <2>2 DEF Fitting
<1>3. CASE ~(Len(s) <= room)
  <2>1. ~(Len(s) < room)
    BY <1>1, <1>3
  <2>2. QED
    BY <1>3, <2>1 DEF Fitting, Clip
<1>4. QED
  BY <1>2, <1>3

\* Room is left for the next ones when all there are so far fit.
LEMMA ClipConcat ==
  ASSUME NEW a \in Seq(Int), NEW w \in Seq(Int), NEW k \in Nat
  PROVE  LET room == k - Len(Clip(a, k))
         IN  room \in Nat /\ Clip(a, k) \o Clip(w, room) = Clip(a \o w, k)
<1> DEFINE m == IF Len(a) < k THEN Len(a) ELSE k
           r == k - m
           q == IF Len(w) < r THEN Len(w) ELSE r
           t == IF Len(a) + Len(w) < k THEN Len(a) + Len(w) ELSE k
<1>1. Len(a) \in Nat /\ Len(w) \in Nat
  BY LenProperties
<1>2. /\ m \in Nat /\ r \in Nat /\ q \in Nat /\ t \in Nat /\ m + q = t
      /\ \A i \in 1 .. t : i <= m => i \in 1 .. m /\ i <= Len(a)
      /\ \A i \in 1 .. t : ~(i <= m) => i - m \in 1 .. q /\ ~(i <= Len(a)) /\ m = Len(a)
      /\ \A i \in 1 .. t : i \in 1 .. Len(a) + Len(w)
  <2>1. CASE Len(a) < k /\ Len(w) < k - Len(a)
    <3>1. m = Len(a) /\ r = k - Len(a) /\ q = Len(w) /\ t = Len(a) + Len(w)
      BY <1>1, <2>1
    <3> HIDE DEF m, r, q, t
    <3>2. QED
      BY <1>1, <2>1, <3>1
  <2>2. CASE Len(a) < k /\ ~(Len(w) < k - Len(a))
    <3>1. m = Len(a) /\ r = k - Len(a) /\ q = k - Len(a) /\ t = k
      BY <1>1, <2>2
    <3> HIDE DEF m, r, q, t
    <3>2. QED
      BY <1>1, <2>2, <3>1
  <2>3. CASE ~(Len(a) < k)
    <3>1. m = k /\ r = 0 /\ q = 0 /\ t = k
      BY <1>1, <2>3
    <3> HIDE DEF m, r, q, t
    <3>2. QED
      BY <1>1, <2>3, <3>1
  <2>4. QED
    BY <2>1, <2>2, <2>3
<1>3. Clip(a, k) \in Seq(Int) /\ Len(Clip(a, k)) = m /\ \A i \in 1 .. m : Clip(a, k)[i] = a[i]
  BY ClipIs
<1>4. a \o w \in Seq(Int) /\ Len(a \o w) = Len(a) + Len(w)
      /\ \A i \in 1 .. Len(a) + Len(w) : (a \o w)[i] = IF i <= Len(a) THEN a[i] ELSE w[i - Len(a)]
  BY ConcatProperties
<1>5. Clip(a \o w, k) \in Seq(Int) /\ Len(Clip(a \o w, k)) = t
      /\ \A i \in 1 .. t : Clip(a \o w, k)[i] = (a \o w)[i]
  <2>1. (IF Len(a \o w) < k THEN Len(a \o w) ELSE k) = t
    BY <1>4
  <2> HIDE DEF t
  <2>2. QED
    BY <1>4, <2>1, ClipIs
<1> HIDE DEF m
<1>6. Clip(w, r) \in Seq(Int) /\ Len(Clip(w, r)) = q /\ \A i \in 1 .. q : Clip(w, r)[i] = w[i]
  BY <1>2, ClipIs
<1> HIDE DEF r, q, t
<1>7. Clip(a, k) \o Clip(w, r) \in Seq(Int) /\ Len(Clip(a, k) \o Clip(w, r)) = t
      /\ \A i \in 1 .. t : (Clip(a, k) \o Clip(w, r))[i] =
                             IF i <= m THEN Clip(a, k)[i] ELSE Clip(w, r)[i - m]
  <2>1. Len(Clip(a, k)) + Len(Clip(w, r)) = t
    BY <1>2, <1>3, <1>6
  <2>2. QED
    BY <1>3, <1>6, <2>1, ConcatProperties
<1>8. ASSUME NEW i \in 1 .. t PROVE (Clip(a, k) \o Clip(w, r))[i] = Clip(a \o w, k)[i]
  <2>1. CASE i <= m
    BY <1>2, <1>3, <1>4, <1>5, <1>7, <2>1
  <2>2. CASE ~(i <= m)
    BY <1>2, <1>4, <1>5, <1>6, <1>7, <2>2
  <2>3. QED
    BY <2>1, <2>2
<1>9. Clip(a, k) \o Clip(w, r) = Clip(a \o w, k)
  BY <1>5, <1>7, <1>8, SeqEqual
<1>10. QED
  BY <1>2, <1>3, <1>9 DEF r

\* The ids after a word: as many of all the pieces so far as there is room for.
LEMMA FramedStep ==
  ASSUME NEW x \in Int, NEW a \in Seq(Int), NEW w \in Seq(Int), NEW k \in Nat
  PROVE  LET before == <<x>> \o Clip(a, k) IN before \o Fitting(w, k - (Len(before) - 1)) = <<x>> \o Clip(a \o w, k)
<1> DEFINE before == <<x>> \o Clip(a, k)
           p == Clip(a, k)
           r == k - Len(p)
<1>1. p \in Seq(Int) /\ Len(p) \in Nat
  <2>1. p \in Seq(Int)
    BY ClipIs
  <2>2. QED
    BY <2>1, LenProperties
<1>2. r \in Nat /\ p \o Clip(w, r) = Clip(a \o w, k)
  BY ClipConcat
<1> HIDE DEF p
<1>3. Clip(w, r) \in Seq(Int) /\ Fitting(w, r) = Clip(w, r)
  BY <1>2, ClipIs, FittingIs
<1>4. <<x>> \in Seq(Int) /\ Len(<<x>>) = 1
  OBVIOUS
<1>5. before = <<x>> \o p /\ Len(before) = 1 + Len(p)
  <2>1. Len(<<x>> \o p) = Len(<<x>>) + Len(p)
    BY <1>1, <1>4, ConcatProperties
  <2>2. QED
    BY <1>4, <2>1 DEF p
<1> HIDE DEF before
<1>6. k - (Len(before) - 1) = r
  <2>1. \A m \in Nat : k - ((1 + m) - 1) = k - m
    OBVIOUS
  <2>2. QED
    BY <1>1, <1>5, <2>1
<1>7. (<<x>> \o p) \o Clip(w, r) = <<x>> \o (p \o Clip(w, r))
  BY <1>1, <1>3, <1>4, ConcatAssociative
<1>8. QED
  BY <1>2, <1>3, <1>5, <1>6, <1>7 DEF before

Encodes(f, words, k, vocab) ==
  f = [n \in 0 .. Len(words) |->
         IF n = 0 THEN <<vocab[CLS]>>
         ELSE LET before == f[n - 1]
              IN  before \o Fitting(WordPieces(words[n], vocab), k - (Len(before) - 1))]

LEMMA EncodesIs ==
  ASSUME NEW words \in Seq(Seq(Char)), NEW k \in Nat, NEW vocab, Numbering(vocab)
  PROVE  LET all == FlattenSeq([i \in DOMAIN words |-> PiecesOf(words[i], vocab)])
         IN  /\ all \in Seq(Int)
             /\ (CHOOSE f : Encodes(f, words, k, vocab))[Len(words)] = <<vocab[CLS]>> \o Clip(all, k)
<1> DEFINE l == Len(words)
           seqs == [i \in DOMAIN words |-> PiecesOf(words[i], vocab)]
           x == vocab[CLS]
<1>1. l \in Nat /\ DOMAIN words = 1 .. l /\ \A i \in 1 .. l : words[i] \in Seq(Char)
  BY LenProperties, ElementOfSeq
<1>2. \A i \in 1 .. l : WordPieces(words[i], vocab) = PiecesOf(words[i], vocab)
                        /\ PiecesOf(words[i], vocab) \in Seq(Int)
  BY <1>1, WordPiecesAre
<1>3. seqs \in Seq(Seq(Int)) /\ Len(seqs) = l /\ \A i \in 1 .. l : seqs[i] = PiecesOf(words[i], vocab)
  <2>1. seqs = [i \in 1 .. l |-> PiecesOf(words[i], vocab)]
    BY <1>1
  <2>2. QED
    BY <1>1, <1>2, <2>1
<1>4. x \in Int
  BY DEF Numbering, Special
<1> HIDE DEF seqs, x
<1>5. PICK g \in [0 .. l -> Seq(Int)] :
        /\ g[0] = <<>> /\ \A i \in 1 .. l : g[i] = g[i - 1] \o seqs[i]
        /\ FlattenSeq(seqs) = g[l]
  <2>1. \E g \in [0 .. Len(seqs) -> Seq(Int)] :
          /\ g[0] = <<>> /\ \A i \in 1 .. Len(seqs) : g[i] = g[i - 1] \o seqs[i]
          /\ FlattenSeq(seqs) = g[Len(seqs)]
    BY <1>3, FlattenIs
  <2>2. QED
    BY <1>3, <2>1
<1> DEFINE h == [n \in 0 .. l |-> <<x>> \o Clip(g[n], k)]
           Next_(n, s) == s \o Fitting(WordPieces(words[n], vocab), k - (Len(s) - 1))
<1>6. h[0] = <<x>>
  <2>1. Clip(g[0], k) = <<>>
    <3>1. <<>> \in Seq(Int) /\ Len(<<>>) = 0
      OBVIOUS
    <3>2. (IF Len(<<>>) < k THEN Len(<<>>) ELSE k) = 0
      BY <3>1
    <3>3. Len(Clip(<<>>, k)) = 0 /\ Clip(<<>>, k) \in Seq(Int)
      BY <3>1, <3>2, ClipIs
    <3>4. Clip(<<>>, k) = <<>>
      BY <3>3, EmptySeq
    <3>5. QED
      BY <1>5, <3>4
  <2>2. <<x>> \in Seq(Int)
    BY <1>4
  <2>3. <<x>> \o <<>> = <<x>>
    BY <2>2, ConcatEmptySeq
  <2>4. h[0] = <<x>> \o Clip(g[0], k)
    BY <1>1
  <2>5. QED
    BY <2>1, <2>3, <2>4
<1>7. \A n \in 1 .. l : h[n] = Next_(n, h[n - 1])
  <2> SUFFICES ASSUME NEW n \in 1 .. l PROVE h[n] = Next_(n, h[n - 1])
    OBVIOUS
  <2>1. n \in 0 .. l /\ n - 1 \in 0 .. l
    BY <1>1
  <2>2. h[n] = <<x>> \o Clip(g[n], k) /\ h[n - 1] = <<x>> \o Clip(g[n - 1], k)
    BY <2>1
  <2>3. g[n] = g[n - 1] \o WordPieces(words[n], vocab) /\ WordPieces(words[n], vocab) \in Seq(Int)
    BY <1>2, <1>3, <1>5
  <2>4. g[n - 1] \in Seq(Int)
    BY <2>1
  <2>5. PICK w \in Seq(Int) : w = WordPieces(words[n], vocab)
    BY <2>3
  <2>6. PICK a \in Seq(Int) : a = g[n - 1]
    BY <2>4
  <2>7. PICK before : before = h[n - 1]
    OBVIOUS
  <2>8. before = <<x>> \o Clip(a, k) /\ h[n] = <<x>> \o Clip(a \o w, k)
    BY <2>2, <2>3, <2>5, <2>6, <2>7
  <2> HIDE DEF h
  <2>9. before \o Fitting(w, k - (Len(before) - 1)) = <<x>> \o Clip(a \o w, k)
    <3>1. (<<x>> \o Clip(a, k)) \o Fitting(w, k - (Len(<<x>> \o Clip(a, k)) - 1)) = <<x>> \o Clip(a \o w, k)
      BY <1>4, FramedStep
    <3>2. QED
      BY <2>8, <3>1, Zenon
  <2>10. QED
    BY <2>5, <2>7, <2>8, <2>9
<1>8. h = [n \in 0 .. l |-> h[n]] /\ h[l] = <<x>> \o Clip(g[l], k)
  BY <1>1
<1> HIDE DEF h
<1>9. Encodes(h, words, k, vocab)
  <2>1. \A n \in 0 .. l : n = 0 \/ n \in 1 .. l
    BY <1>1
  <2>2. \A n \in 0 .. l : h[n] = IF n = 0 THEN <<x>> ELSE Next_(n, h[n - 1])
    BY <1>6, <1>7, <2>1
  <2>3. h = [n \in 0 .. l |-> IF n = 0 THEN <<x>> ELSE Next_(n, h[n - 1])]
    BY <1>8, <2>2
  <2>4. QED
    BY <2>3 DEF Encodes, x
<1>10. PICK f : f = (CHOOSE e : Encodes(e, words, k, vocab)) /\ Encodes(f, words, k, vocab)
  BY <1>9
<1>11. \A n \in 0 .. l : f[n] = IF n = 0 THEN <<x>> ELSE Next_(n, f[n - 1])
  <2>1. f = [n \in 0 .. l |-> IF n = 0 THEN <<x>> ELSE Next_(n, f[n - 1])]
    BY <1>10 DEF Encodes, x
  <2> HIDE DEF Next_
  <2>2. QED
    BY <2>1
<1> HIDE DEF Next_
<1> DEFINE T == {n \in 0 .. l : f[n] # h[n]}
<1>12. T = {}
  <2> SUFFICES ASSUME T # {} PROVE FALSE
    OBVIOUS
  <2>1. T \subseteq Nat
    OBVIOUS
  <2> HIDE DEF T
  <2>2. PICK n \in T : \A y \in T : n <= y
    BY <2>1, Least
  <2>3. n \in 0 .. l /\ f[n] # h[n]
    BY DEF T
  <2>4. n # 0
    BY <1>6, <1>11, <2>3
  <2>5. n \in 1 .. l /\ n - 1 \in 0 .. l /\ n - 1 \notin T
    BY <2>2, <2>3, <2>4
  <2>6. f[n - 1] = h[n - 1]
    BY <2>5 DEF T
  <2>7. QED
    BY <1>7, <1>11, <2>3, <2>4, <2>5, <2>6
<1>13. f[l] = h[l]
  <2>1. l \in 0 .. l
    BY <1>1
  <2>2. QED
    BY <1>12, <2>1
<1>14. FlattenSeq(seqs) \in Seq(Int)
  <2>1. l \in 0 .. l
    BY <1>1
  <2>2. QED
    BY <1>5, <2>1
<1>15. QED
  BY <1>5, <1>8, <1>10, <1>13, <1>14 DEF seqs, x

\* What encode gives is the reference, and as short as the model wants it.
LEMMA EncodeIs ==
  ASSUME NEW text \in Seq(Char), NEW lower, NEW maxLen \in Nat, maxLen > 2,
         NEW vocab, Numbering(vocab)
  PROVE  LET enc == Encoding(text, lower, maxLen, vocab)
         IN  /\ Encode(text, lower, maxLen, vocab) = enc
             /\ enc \in Seq(Int) /\ Len(enc) \in 2 .. maxLen
<1> DEFINE words == BasicTokenize(text, lower)
           k == maxLen - 2
           all == FlattenSeq([i \in DOMAIN words |-> PiecesOf(words[i], vocab)])
           x == vocab[CLS]
           y == vocab[SEP]
<1>1. words \in Seq(Seq(Char)) /\ k \in Nat
  BY WordsType
<1>2. x \in Int /\ y \in Int
  BY DEF Numbering, Special
<1>3. Encode(text, lower, maxLen, vocab) = Append((CHOOSE f : Encodes(f, words, k, vocab))[Len(words)], y)
  BY DEF Encode, Encodes
<1>4. Encoding(text, lower, maxLen, vocab) = <<x>> \o Clip(all, k) \o <<y>>
  BY DEF Encoding, Clip
<1> HIDE DEF words, k
<1>5. all \in Seq(Int) /\ (CHOOSE f : Encodes(f, words, k, vocab))[Len(words)] = <<x>> \o Clip(all, k)
  BY <1>1, EncodesIs
<1> HIDE DEF all, x, y
<1>6. Clip(all, k) \in Seq(Int) /\ Len(Clip(all, k)) \in 0 .. k
  <2>1. Len(all) \in Nat
    BY <1>5, LenProperties
  <2>2. (IF Len(all) < k THEN Len(all) ELSE k) \in 0 .. k
    BY <1>1, <2>1
  <2>3. QED
    BY <1>1, <1>5, <2>2, ClipIs
<1>7. <<x>> \in Seq(Int) /\ <<y>> \in Seq(Int) /\ Len(<<x>>) = 1 /\ Len(<<y>>) = 1
  BY <1>2
<1> DEFINE front == <<x>> \o Clip(all, k)
<1>8. front \in Seq(Int) /\ Len(front) = 1 + Len(Clip(all, k))
  BY <1>6, <1>7, ConcatProperties
<1> HIDE DEF front
<1>9. Append(front, y) = front \o <<y>>
  BY <1>2, <1>8, AppendIsConcat
<1>10. front \o <<y>> \in Seq(Int) /\ Len(front \o <<y>>) = Len(front) + 1
  BY <1>7, <1>8, ConcatProperties
<1>11. Len(front \o <<y>>) \in 2 .. maxLen
  BY <1>6, <1>8, <1>10 DEF k
<1>12. QED
  BY <1>3, <1>4, <1>5, <1>9, <1>10, <1>11 DEF front

-----------------------------------------------------------------------------
(* The batch. *)

LEMMA DivMod ==
  ASSUME NEW s \in Nat \ {0}, NEW a \in Nat, NEW r \in 0 .. s - 1
  PROVE  (a * s + r) \div s = a /\ (a * s + r) % s = r
<1> DEFINE q == (a * s + r) \div s
           m == (a * s + r) % s
<1>1. a * s \in Nat
  OBVIOUS
<1>2. q \in Int /\ m \in 0 .. s - 1 /\ a * s + r = s * q + m
  BY <1>1
<1> HIDE DEF q, m
<1>3. s * (q - a) = r - m
  BY <1>1, <1>2
<1>4. q = a
  <2>1. CASE q >= a + 1
    <3>1. s * (q - a) >= s
      BY <1>2, <2>1
    <3>2. QED
      BY <1>2, <1>3, <3>1
  <2>2. CASE q <= a - 1
    <3>1. s * (q - a) <= - s
      BY <1>2, <2>2
    <3>2. QED
      BY <1>2, <1>3, <3>1
  <2>3. QED
    BY <1>2, <2>1, <2>2
<1>5. m = r
  BY <1>1, <1>2, <1>4
<1>6. QED
  BY <1>4, <1>5 DEF q, m

\* Where row i keeps its j-th element.
LEMMA CellAt ==
  ASSUME NEW n \in Nat, NEW s \in Nat \ {0}, NEW i \in 1 .. n, NEW j \in 1 .. s
  PROVE  LET c == (i - 1) * s + j
         IN  c \in 1 .. n * s /\ ((c - 1) \div s) + 1 = i /\ ((c - 1) % s) + 1 = j
<1> DEFINE c == (i - 1) * s + j
<1>1. i - 1 \in Nat /\ j - 1 \in 0 .. s - 1
  OBVIOUS
<1>2. (i - 1) * s \in Nat /\ (i - 1) * s + s = i * s /\ i * s \in Nat
  BY <1>1
<1>3. i * s <= n * s /\ n * s \in Nat
  <2>1. n - i \in Nat
    OBVIOUS
  <2>2. (n - i) * s \in Nat /\ n * s = i * s + (n - i) * s
    BY <2>1
  <2>3. QED
    BY <1>2, <2>2
<1>4. c \in 1 .. n * s /\ c - 1 = (i - 1) * s + (j - 1)
  BY <1>2, <1>3
<1>5. ((i - 1) * s + (j - 1)) \div s = i - 1 /\ ((i - 1) * s + (j - 1)) % s = j - 1
  BY <1>1, DivMod
<1> HIDE DEF c
<1>6. (c - 1) \div s = i - 1 /\ (c - 1) % s = j - 1
  BY <1>4, <1>5
<1>7. ((c - 1) \div s) + 1 = i /\ ((c - 1) % s) + 1 = j
  BY <1>6
<1>8. QED
  BY <1>4, <1>7 DEF c

LEMMA ArrayAt ==
  ASSUME NEW n \in Nat, NEW s \in Nat \ {0}, NEW rows, Len(rows) = n, NEW i \in 1 .. n, NEW j \in 1 .. s
  PROVE  Array(rows, s)[(i - 1) * s + j] = rows[i][j]
<1> DEFINE c == (i - 1) * s + j
<1>1. c \in 1 .. n * s /\ ((c - 1) \div s) + 1 = i /\ ((c - 1) % s) + 1 = j
  BY CellAt
<1> HIDE DEF c
<1>2. Array(rows, s)[c] = rows[((c - 1) \div s) + 1][((c - 1) % s) + 1]
  BY <1>1 DEF Array
<1>3. QED
  BY <1>1, <1>2 DEF c

\* What Run hands the model, and what the model makes of it.
IdsOf(encs, s) == Array([i \in DOMAIN encs |-> Padded(encs[i], s)], s)
MasksOf(encs, s) == Array([i \in DOMAIN encs |-> Mask(encs[i], s)], s)
Cells(encs) == Computed(IdsOf(encs, SeqLen(encs)), MasksOf(encs, SeqLen(encs)), Len(encs), SeqLen(encs))

\* The ids of row i that are not masked are the encoding of text i.
LEMMA RowIs ==
  ASSUME NEW encs \in Seq(Seq(Int)), NEW s \in Nat \ {0},
         NEW i \in 1 .. Len(encs), Len(encs[i]) <= s
  PROVE  [j \in {k \in 1 .. s : MasksOf(encs, s)[(i - 1) * s + k] = 1} |-> IdsOf(encs, s)[(i - 1) * s + j]]
           = encs[i]
<1> DEFINE n == Len(encs)
           enc == encs[i]
           l == Len(enc)
           ids == [u \in DOMAIN encs |-> Padded(encs[u], s)]
           masks == [u \in DOMAIN encs |-> Mask(encs[u], s)]
<1>1. n \in Nat /\ DOMAIN encs = 1 .. n
  BY LenProperties
<1>2. enc \in Seq(Int)
  BY ElementOfSeq
<1>3. l \in Nat /\ DOMAIN enc = 1 .. l /\ enc = [j \in 1 .. l |-> enc[j]]
  BY <1>2, LenProperties
<1>4. Len(ids) = n /\ Len(masks) = n /\ ids[i] = Padded(enc, s) /\ masks[i] = Mask(enc, s)
  <2>1. ids = [u \in 1 .. n |-> Padded(encs[u], s)] /\ masks = [u \in 1 .. n |-> Mask(encs[u], s)]
    BY <1>1
  <2>2. Len(ids) = n /\ Len(masks) = n
    BY <1>1, <2>1
  <2>3. QED
    BY <2>1, <2>2
<1> HIDE DEF ids, masks
<1>5. \A j \in 1 .. s : MasksOf(encs, s)[(i - 1) * s + j] = IF j <= l THEN 1 ELSE 0
  <2> SUFFICES ASSUME NEW j \in 1 .. s PROVE MasksOf(encs, s)[(i - 1) * s + j] = IF j <= l THEN 1 ELSE 0
    OBVIOUS
  <2>1. Array(masks, s)[(i - 1) * s + j] = masks[i][j]
    BY <1>1, <1>4, ArrayAt
  <2>2. masks[i][j] = IF j <= l THEN 1 ELSE 0
    BY <1>4 DEF Mask
  <2>3. QED
    BY <2>1, <2>2 DEF MasksOf, masks
<1>6. \A j \in 1 .. s : IdsOf(encs, s)[(i - 1) * s + j] = IF j <= l THEN enc[j] ELSE emb.vocab[PAD]
  <2> SUFFICES ASSUME NEW j \in 1 .. s
               PROVE  IdsOf(encs, s)[(i - 1) * s + j] = IF j <= l THEN enc[j] ELSE emb.vocab[PAD]
    OBVIOUS
  <2>1. Array(ids, s)[(i - 1) * s + j] = ids[i][j]
    BY <1>1, <1>4, ArrayAt
  <2>2. ids[i][j] = IF j <= l THEN enc[j] ELSE emb.vocab[PAD]
    BY <1>4 DEF Padded
  <2>3. QED
    BY <2>1, <2>2 DEF IdsOf, ids
<1> HIDE DEF enc, l, n
<1> DEFINE open == {k \in 1 .. s : MasksOf(encs, s)[(i - 1) * s + k] = 1}
<1>7. open = 1 .. l
  <2>1. ASSUME NEW k PROVE k \in open <=> k \in 1 .. l
    <3>1. ASSUME k \in open PROVE k \in 1 .. l
      <4>1. k \in 1 .. s /\ MasksOf(encs, s)[(i - 1) * s + k] = 1
        BY <3>1
      <4>2. k <= l
        BY <1>5, <4>1
      <4>3. QED
        BY <1>3, <4>1, <4>2
    <3>2. ASSUME k \in 1 .. l PROVE k \in open
      <4>1. k \in 1 .. s /\ k <= l
        <5>1. l <= s
          BY DEF l, enc
        <5>2. QED
          BY <1>3, <3>2, <5>1
      <4>2. MasksOf(encs, s)[(i - 1) * s + k] = 1
        BY <1>5, <4>1
      <4>3. QED
        BY <4>1, <4>2
    <3>3. QED
      BY <3>1, <3>2
  <2>2. QED
    BY <2>1
<1>8. \A j \in 1 .. l : IdsOf(encs, s)[(i - 1) * s + j] = enc[j]
  <2>1. \A j \in 1 .. l : j \in 1 .. s /\ j <= l
    <3>1. l <= s
      BY DEF l, enc
    <3>2. QED
      BY <1>3, <3>1
  <2>2. QED
    BY <1>6, <2>1
<1> HIDE DEF open
<1>9. [j \in open |-> IdsOf(encs, s)[(i - 1) * s + j]] = enc
  BY <1>3, <1>7, <1>8
<1>10. QED
  BY <1>9 DEF open, enc

\* Encodings as a batch has them: not empty, none longer than b.
Encodings(encs, b) ==
  encs \in Seq(Seq(Int)) /\ encs # <<>> /\ \A i \in 1 .. Len(encs) : Len(encs[i]) \in 2 .. b

LEMMA SeqLenIs ==
  ASSUME NEW b \in Nat, NEW encs, Encodings(encs, b)
  PROVE  SeqLen(encs) \in Nat \ {0} /\ \A i \in 1 .. Len(encs) : Len(encs[i]) <= SeqLen(encs)
<1> DEFINE lens == {Len(encs[i]) : i \in DOMAIN encs}
<1>1. Len(encs) \in Nat /\ DOMAIN encs = 1 .. Len(encs) /\ 1 \in DOMAIN encs
  <2>1. Len(encs) \in Nat /\ DOMAIN encs = 1 .. Len(encs)
    BY LenProperties DEF Encodings
  <2>2. Len(encs) # 0
    BY EmptySeq DEF Encodings
  <2>3. QED
    BY <2>1, <2>2
<1>2. \A i \in 1 .. Len(encs) : Len(encs[i]) \in lens
  BY <1>1
<1>3. \A x \in lens : x \in 2 .. b
  BY <1>1 DEF Encodings
<1>4. lens # {}
  BY <1>1
<1>5. SeqLen(encs) = Longest(lens)
  BY DEF SeqLen
<1> HIDE DEF lens
<1>6. lens \subseteq 0 .. b
  BY <1>3
<1>7. Longest(lens) \in lens /\ \A f \in lens : f <= Longest(lens)
  BY <1>4, <1>6, LongestIs
<1>8. Longest(lens) \in Nat \ {0}
  BY <1>3, <1>7
<1>9. QED
  BY <1>2, <1>5, <1>7, <1>8

\* The average over the tokens of an encoding.
Mean(e, enc) ==
  LET n == Len(enc)
  IN  IF e.pooled THEN {[row |-> enc, at |-> 0]}
      ELSE {[row |-> enc, at |-> j] :
              j \in (IF e.config.specials /\ n > 2 THEN 2 .. n - 1 ELSE 1 .. n)}

\* The cells of every row come from the encoding of its text.
CellsFor(e, encs, cells) ==
  \A i \in 1 .. Len(encs) :
    IF e.pooled THEN cells[i] = [row |-> encs[i], at |-> 0]
    ELSE \A j \in 1 .. SeqLen(encs) : cells[RowStart(encs, i) + j] = [row |-> encs[i], at |-> j]

LEMMA CellsOfRow ==
  ASSUME NEW b \in Nat, NEW encs, Encodings(encs, b), NEW i \in 1 .. Len(encs)
  PROVE  /\ emb.pooled => Cells(encs)[i] = [row |-> encs[i], at |-> 0]
         /\ ~emb.pooled => \A j \in 1 .. SeqLen(encs) :
                             Cells(encs)[RowStart(encs, i) + j] = [row |-> encs[i], at |-> j]
<1> DEFINE s == SeqLen(encs)
           n == Len(encs)
           Row(k) == [j \in {m \in 1 .. s : MasksOf(encs, s)[(k - 1) * s + m] = 1} |->
                        IdsOf(encs, s)[(k - 1) * s + j]]
<1>1. n \in Nat /\ encs \in Seq(Seq(Int))
  BY LenProperties DEF Encodings
<1>2. s \in Nat \ {0} /\ Len(encs[i]) <= s
  BY SeqLenIs
<1>3. Row(i) = encs[i]
  BY <1>1, <1>2, RowIs
<1>4. CASE emb.pooled
  <2>1. Cells(encs) = [k \in 1 .. n |-> [row |-> Row(k), at |-> 0]]
    BY <1>4 DEF Cells, Computed
  <2> HIDE DEF Row
  <2>2. QED
    BY <1>3, <1>4, <2>1
<1>5. CASE ~emb.pooled
  <2>1. Cells(encs) = [c \in 1 .. n * s |-> [row |-> Row(((c - 1) \div s) + 1), at |-> ((c - 1) % s) + 1]]
    BY <1>5 DEF Cells, Computed
  <2> HIDE DEF Row
  <2>2. ASSUME NEW j \in 1 .. s PROVE Cells(encs)[(i - 1) * s + j] = [row |-> encs[i], at |-> j]
    <3> HIDE DEF s, n
    <3> DEFINE c == (i - 1) * s + j
    <3>1. c \in 1 .. n * s /\ ((c - 1) \div s) + 1 = i /\ ((c - 1) % s) + 1 = j
      <4>1. n \in Nat /\ s \in Nat \ {0} /\ i \in 1 .. n /\ j \in 1 .. s
        BY <1>1, <1>2 DEF n
      <4>2. QED
        BY <4>1, CellAt
    <3> HIDE DEF c
    <3>2. Cells(encs)[c] = [row |-> Row(((c - 1) \div s) + 1), at |-> ((c - 1) % s) + 1]
      BY <2>1, <3>1
    <3>3. QED
      BY <1>3, <3>1, <3>2 DEF c
  <2>3. QED
    BY <1>5, <2>2 DEF RowStart
<1>6. QED
  BY <1>4, <1>5

LEMMA CellsAre ==
  ASSUME NEW b \in Nat, NEW encs, Encodings(encs, b)
  PROVE  CellsFor(emb, encs, Cells(encs))
BY CellsOfRow DEF CellsFor

\* What is averaged for a text is what its encoding alone gives.
LEMMA AveragedIs ==
  ASSUME NEW b \in Nat, NEW encs, Encodings(encs, b), NEW i \in 1 .. Len(encs),
         NEW cells, CellsFor(emb, encs, cells)
  PROVE  Averaged(encs, i, cells) = Mean(emb, encs[i])
<1> DEFINE n == Len(encs[i])
           js == IF emb.config.specials /\ n > 2 THEN 2 .. n - 1 ELSE 1 .. n
<1>1. CASE emb.pooled
  BY <1>1 DEF Averaged, Mean, CellsFor
<1>2. CASE ~emb.pooled
  <2>1. n \in 2 .. b /\ n <= SeqLen(encs) /\ SeqLen(encs) \in Nat
    BY SeqLenIs DEF Encodings
  <2>2. \A j \in js : j \in 1 .. SeqLen(encs)
    BY <2>1
  <2>3. Averaged(encs, i, cells) = {cells[RowStart(encs, i) + j] : j \in js}
    BY <1>2 DEF Averaged
  <2>4. Mean(emb, encs[i]) = {[row |-> encs[i], at |-> j] : j \in js}
    BY <1>2 DEF Mean
  <2> HIDE DEF js, n
  <2>5. \A j \in 1 .. SeqLen(encs) : cells[RowStart(encs, i) + j] = [row |-> encs[i], at |-> j]
    BY <1>2 DEF CellsFor
  <2>6. \A j \in js : cells[RowStart(encs, i) + j] = [row |-> encs[i], at |-> j]
    BY <2>2, <2>5
  <2> DEFINE F(j) == cells[RowStart(encs, i) + j]
             G(j) == [row |-> encs[i], at |-> j]
  <2>7. \A j \in js : F(j) = G(j)
    BY <2>6
  <2> HIDE DEF F, G
  <2>8. {F(j) : j \in js} = {G(j) : j \in js}
    BY <2>7
  <2>9. QED
    BY <2>3, <2>4, <2>8 DEF F, G
<1>3. QED
  BY <1>1, <1>2

-----------------------------------------------------------------------------
(* What every goroutine has in hand. *)

Encs(e, texts) ==
  [i \in DOMAIN texts |-> Encode(texts[i], e.config.lower, e.config.maxLen, e.vocab)]

Vector(e, text) == Mean(e, Encoding(text, e.config.lower, e.config.maxLen, e.vocab))

\* From its call to its answer the goroutine works on encodings of its own
\* texts by the one embedder, and what it was given last is theirs.
Serves(t) ==
  /\ pc[t] \in {"run", "pool"} =>
       emb # Nil /\ arg[t] \in Batch /\ arg[t] # <<>> /\ encoded[t] = Encs(emb, arg[t])
  /\ pc[t] = "pool" => CellsFor(emb, encoded[t], answer[t])
  /\ out[t] # <<>> =>
       /\ emb # Nil /\ pc[t] = "idle" /\ arg[t] \in Batch
       /\ out[t] = [i \in DOMAIN arg[t] |-> Vector(emb, arg[t][i])]

Shared ==
  emb # Nil =>
    /\ Numbering(emb.vocab) /\ emb.config \in Config /\ emb.model \in Model
    /\ emb.pooled \in BOOLEAN

Slots ==
  /\ encoded = [t \in Thread |-> encoded[t]]
  /\ answer = [t \in Thread |-> answer[t]]
  /\ out = [t \in Thread |-> out[t]]

Types ==
  /\ libPath \in Path \cup Found \cup {Nil} /\ env \in Usable \cup {Nil}
  /\ \A t \in Thread : pc[t] \in {"lock", "init", "env"} => arg[t] \in Path \cup {Nil}
  /\ pc \in [Thread -> {"idle", "lock", "init", "env", "open", "run", "pool"}]
  /\ initMu \in Thread \cup {Nil} /\ initDone \in BOOLEAN
  /\ dims \in Nat
  /\ ret \in [Thread -> {"none", "ok", "err"}]

Serving == Shared /\ Slots /\ \A t \in Thread : Serves(t)

LEMMA EncsAre ==
  ASSUME Shared, emb # Nil, NEW texts \in Batch, texts # <<>>
  PROVE  /\ Encodings(Encs(emb, texts), emb.config.maxLen)
         /\ emb.config.maxLen \in Nat
         /\ DOMAIN texts = 1 .. Len(Encs(emb, texts))
         /\ \A i \in DOMAIN texts :
              /\ Encs(emb, texts)[i] =
                   Encoding(texts[i], emb.config.lower, emb.config.maxLen, emb.vocab)
<1> DEFINE n == Len(texts)
           Enc(i) == Encoding(texts[i], emb.config.lower, emb.config.maxLen, emb.vocab)
           encs == Encs(emb, texts)
<1>1. texts \in Seq(Seq(Char))
  BY TextAssumption
<1>2. n \in Nat /\ DOMAIN texts = 1 .. n /\ n # 0 /\ \A i \in 1 .. n : texts[i] \in Seq(Char)
  BY <1>1, LenProperties, EmptySeq, ElementOfSeq
<1>3. emb.config.maxLen \in Nat /\ emb.config.maxLen > 2 /\ Numbering(emb.vocab)
  BY ConfigAssumption DEF Shared
<1>4. \A i \in 1 .. n : /\ Encode(texts[i], emb.config.lower, emb.config.maxLen, emb.vocab) = Enc(i)
                        /\ Enc(i) \in Seq(Int) /\ Len(Enc(i)) \in 2 .. emb.config.maxLen
  BY <1>2, <1>3, EncodeIs
<1> HIDE DEF Enc
<1>5. encs = [i \in 1 .. n |-> Enc(i)]
  BY <1>2, <1>4 DEF Encs
<1>6. encs \in Seq(Seq(Int)) /\ Len(encs) = n /\ \A i \in 1 .. n : encs[i] = Enc(i)
  BY <1>2, <1>4, <1>5
<1> HIDE DEF encs
<1>7. encs # <<>>
  BY <1>2, <1>6, EmptySeq
<1>8. Encodings(encs, emb.config.maxLen)
  BY <1>4, <1>6, <1>7 DEF Encodings
<1>9. QED
  BY <1>2, <1>3, <1>6, <1>8 DEF encs, Enc

\* A goroutine that has neither a batch nor an answer.
LEMMA QuietServes ==
  ASSUME NEW t \in Thread, pc'[t] \notin {"run", "pool"}, out'[t] = <<>>
  PROVE  Serves(t)'
BY DEF Serves

\* A step of t, with the same embedder.
LEMMA OneServes ==
  ASSUME Serving, NEW t \in Thread, UNCHANGED emb, Slots', Serves(t)',
         \A u \in Thread \ {t} : /\ pc'[u] = pc[u] /\ arg'[u] = arg[u] /\ encoded'[u] = encoded[u]
                                 /\ answer'[u] = answer[u] /\ out'[u] = out[u]
  PROVE  Serving'
<1>1. Shared'
  BY DEF Serving, Shared
<1>2. ASSUME NEW u \in Thread, u # t PROVE Serves(u)'
  BY <1>2 DEF Serving, Serves
<1>3. QED
  BY <1>1, <1>2 DEF Serving

LEMMA CallEmbedServes ==
  ASSUME Guarded, Serving, NEW t \in Thread, CallEmbed(t)
  PROVE  Serving'
<1>1. /\ pc[t] = "idle" /\ emb # Nil /\ UNCHANGED <<emb, answer>>
      /\ out' = [out EXCEPT ![t] = <<>>]
  BY DEF CallEmbed
<1>2. CASE \E texts \in Batch :
             /\ texts # <<>>
             /\ arg' = [arg EXCEPT ![t] = texts]
             /\ encoded' = [encoded EXCEPT ![t] = [i \in DOMAIN texts |-> Ids(texts[i])]]
             /\ GoTo(t, "run")
  <2>1. PICK texts \in Batch :
          /\ texts # <<>>
          /\ arg' = [arg EXCEPT ![t] = texts]
          /\ encoded' = [encoded EXCEPT ![t] = [i \in DOMAIN texts |-> Ids(texts[i])]]
          /\ pc' = [pc EXCEPT ![t] = "run"]
    BY <1>2 DEF GoTo
  <2>2. PICK encs : encs = Encs(emb, texts) /\ encoded' = [encoded EXCEPT ![t] = encs]
    BY <2>1 DEF Encs, Ids
  <2>3. /\ pc'[t] = "run" /\ arg'[t] = texts /\ out'[t] = <<>> /\ encoded'[t] = encs
        /\ \A u \in Thread \ {t} : /\ pc'[u] = pc[u] /\ arg'[u] = arg[u] /\ encoded'[u] = encoded[u]
                                   /\ answer'[u] = answer[u] /\ out'[u] = out[u]
        /\ Slots'
    BY <1>1, <2>1, <2>2 DEF Guarded, Serving, Slots
  <2>4. Serves(t)'
    BY <1>1, <2>1, <2>2, <2>3 DEF Serves
  <2>5. QED
    BY <1>1, <2>3, <2>4, OneServes
<1>3. CASE \E result \in {"ok", "err"} : Return(t, result) /\ UNCHANGED encoded
  <2>1. /\ pc'[t] = "idle" /\ out'[t] = <<>>
        /\ \A u \in Thread \ {t} : /\ pc'[u] = pc[u] /\ arg'[u] = arg[u] /\ encoded'[u] = encoded[u]
                                   /\ answer'[u] = answer[u] /\ out'[u] = out[u]
        /\ Slots'
    BY <1>1, <1>3 DEF Guarded, Serving, Slots, Return, GoTo
  <2>2. QED
    BY <1>1, <2>1, QuietServes, OneServes
<1>4. QED
  BY <1>2, <1>3 DEF CallEmbed

LEMMA RunServes ==
  ASSUME Guarded, Serving, NEW t \in Thread, Run(t)
  PROVE  Serving'
<1>1. pc[t] = "run" /\ UNCHANGED <<emb, out>>
  BY DEF Run
<1>2. /\ Shared /\ emb # Nil /\ arg[t] \in Batch /\ arg[t] # <<>>
      /\ encoded[t] = Encs(emb, arg[t]) /\ out[t] = <<>>
  BY <1>1 DEF Serving, Serves
<1>3. CASE /\ answer' = [answer EXCEPT ![t] = Cells(encoded[t])]
           /\ GoTo(t, "pool") /\ UNCHANGED <<arg, encoded>>
  <2>1. PICK cells : cells = Cells(encoded[t]) /\ answer' = [answer EXCEPT ![t] = cells]
    BY <1>3
  <2>2. CellsFor(emb, encoded[t], cells)
    <3>1. PICK texts : texts = arg[t]
      OBVIOUS
    <3>2. Encodings(Encs(emb, texts), emb.config.maxLen) /\ emb.config.maxLen \in Nat
      BY <1>2, <3>1, EncsAre
    <3>3. CellsFor(emb, encoded[t], Cells(encoded[t]))
      BY <1>2, <3>1, <3>2, CellsAre
    <3>4. QED
      BY <2>1, <3>3
  <2>3. /\ pc'[t] = "pool" /\ out'[t] = <<>> /\ answer'[t] = cells
        /\ arg'[t] = arg[t] /\ encoded'[t] = encoded[t]
        /\ \A u \in Thread \ {t} : /\ pc'[u] = pc[u] /\ arg'[u] = arg[u] /\ encoded'[u] = encoded[u]
                                   /\ answer'[u] = answer[u] /\ out'[u] = out[u]
        /\ Slots'
    BY <1>1, <1>2, <1>3, <2>1 DEF Guarded, Serving, Slots, GoTo
  <2>4. Serves(t)'
    BY <1>1, <1>2, <2>2, <2>3 DEF Serves
  <2>5. QED
    BY <1>1, <2>3, <2>4, OneServes
<1>4. CASE /\ Return(t, "err") /\ encoded' = [encoded EXCEPT ![t] = <<>>] /\ UNCHANGED answer
  <2>1. /\ pc'[t] = "idle" /\ out'[t] = <<>>
        /\ \A u \in Thread \ {t} : /\ pc'[u] = pc[u] /\ arg'[u] = arg[u] /\ encoded'[u] = encoded[u]
                                   /\ answer'[u] = answer[u] /\ out'[u] = out[u]
        /\ Slots'
    BY <1>1, <1>2, <1>4 DEF Guarded, Serving, Slots, Return, GoTo
  <2>2. QED
    BY <1>1, <2>1, QuietServes, OneServes
<1>5. QED
  BY <1>3, <1>4 DEF Run, Cells, IdsOf, MasksOf

LEMMA PoolServes ==
  ASSUME Guarded, Serving, NEW t \in Thread, Pool(t)
  PROVE  Serving'
<1>1. /\ pc[t] = "pool" /\ UNCHANGED <<emb, arg>>
      /\ pc' = [pc EXCEPT ![t] = "idle"]
      /\ answer' = [answer EXCEPT ![t] = <<>>]
      /\ encoded' = [encoded EXCEPT ![t] = <<>>]
  BY DEF Pool, GoTo
<1>2. /\ Shared /\ emb # Nil /\ arg[t] \in Batch /\ arg[t] # <<>>
      /\ encoded[t] = Encs(emb, arg[t]) /\ CellsFor(emb, encoded[t], answer[t])
  BY <1>1 DEF Serving, Serves
<1>3. PICK vectors : /\ vectors = [i \in DOMAIN arg[t] |-> Averaged(encoded[t], i, answer[t])]
                     /\ out' = [out EXCEPT ![t] = vectors]
  BY DEF Pool
<1>4. vectors = [i \in DOMAIN arg[t] |-> Vector(emb, arg[t][i])]
  <2>1. PICK texts, encs, cells : texts = arg[t] /\ encs = encoded[t] /\ cells = answer[t]
    OBVIOUS
  <2>2. /\ Encodings(encs, emb.config.maxLen) /\ emb.config.maxLen \in Nat
        /\ DOMAIN texts = 1 .. Len(encs)
        /\ \A i \in DOMAIN texts :
             encs[i] = Encoding(texts[i], emb.config.lower, emb.config.maxLen, emb.vocab)
    BY <1>2, <2>1, EncsAre
  <2>3. \A i \in DOMAIN texts : Averaged(encs, i, cells) = Mean(emb, encs[i])
    BY <1>2, <2>1, <2>2, AveragedIs
  <2>4. \A i \in DOMAIN texts : Averaged(encs, i, cells) = Vector(emb, texts[i])
    BY <2>2, <2>3 DEF Vector
  <2>5. QED
    BY <1>3, <2>1, <2>4
<1>5. /\ pc'[t] = "idle" /\ out'[t] = vectors /\ arg'[t] = arg[t]
      /\ \A u \in Thread \ {t} : /\ pc'[u] = pc[u] /\ arg'[u] = arg[u] /\ encoded'[u] = encoded[u]
                                 /\ answer'[u] = answer[u] /\ out'[u] = out[u]
      /\ Slots'
  BY <1>1, <1>3 DEF Guarded, Serving, Slots
<1>6. Serves(t)'
  BY <1>1, <1>2, <1>4, <1>5 DEF Serves
<1>7. QED
  BY <1>1, <1>5, <1>6, OneServes

\* The output New chooses is one of the model's.
LEMMA ChosenIs ==
  ASSUME NEW m \in Model, NEW name, Chosen(m, name) # 0
  PROVE  Chosen(m, name) \in 1 .. Len(m.outputs)
<1> DEFINE outs == m.outputs
           l == Len(outs)
           At(n) == {i \in 1 .. l : outs[i].name = n}
           last == SelectLastInSeq(outs, LAMBDA o : o.name = "last_hidden_state")
<1>1. outs \in Seq(Output) /\ l \in Nat
  BY ModelAssumption, LenProperties
<1>2. ASSUME NEW n PROVE Named(m, n) \in 0 .. l
  <2>1. Named(m, n) = IF At(n) # {} THEN Min(At(n)) ELSE 0
    BY DEF Named, SelectInSeq
  <2>2. CASE At(n) # {}
    <3> DEFINE I == At(n)
    <3>1. I \subseteq Nat /\ I # {} /\ \A i \in I : i \in 1 .. l
      BY <1>1, <2>2
    <3>2. Named(m, n) = Min(I)
      BY <2>1, <2>2
    <3> HIDE DEF I
    <3>3. \E x \in I : \A y \in I : x <= y
      BY <3>1, Least
    <3>4. Min(I) \in I
      BY <3>3 DEF Min
    <3>5. Min(I) \in 1 .. l
      BY <3>1, <3>4
    <3>6. QED
      BY <1>1, <3>2, <3>5
  <2>3. QED
    BY <1>1, <2>1, <2>2
<1>3. last \in 0 .. l
  <2> DEFINE I == At("last_hidden_state")
  <2>1. last = IF I # {} THEN Max(I) ELSE 0
    BY DEF SelectLastInSeq
  <2>2. CASE I # {}
    <3>1. I \subseteq 0 .. l /\ I # {}
      BY <1>1, <2>2
    <3>2. last = Max(I)
      BY <2>1, <2>2
    <3> HIDE DEF I
    <3>3. \E x \in I : \A y \in I : y <= x
      BY <1>1, <3>1, LongestIs
    <3>4. \A x \in I : \A y \in I : y <= x <=> x >= y
      BY <1>1, <3>1
    <3>5. Max(I) \in I
      BY <3>3, <3>4 DEF Max
    <3>6. QED
      BY <3>1, <3>2, <3>5
  <2>3. QED
    BY <1>1, <2>1, <2>2
<1>4. outs # <<>> => l # 0
  BY <1>1, EmptySeq
<1>5. CASE outs = <<>>
  BY <1>5 DEF Chosen
<1>6. CASE outs # <<>>
  <2>1. Chosen(m, name) \in 0 .. l
    <3>1. Named(m, name) \in 0 .. l /\ Named(m, "sentence_embedding") \in 0 .. l /\ 1 \in 0 .. l
      BY <1>1, <1>2, <1>4, <1>6
    <3>2. CASE name # Nil
      BY <1>6, <3>1, <3>2 DEF Chosen
    <3>3. CASE name = Nil /\ Named(m, "sentence_embedding") # 0
      BY <1>6, <3>1, <3>3 DEF Chosen
    <3>4. CASE name = Nil /\ Named(m, "sentence_embedding") = 0
      BY <1>3, <1>6, <3>1, <3>4 DEF Chosen
    <3>5. QED
      BY <3>2, <3>3, <3>4
  <2>2. QED
    BY <1>1, <2>1
<1>7. QED
  BY <1>5, <1>6

\* What Open does to the shared embedder.
LEMMA OpenShares ==
  ASSUME NEW t \in Thread, Open(t), Shared, dims \in Nat
  PROVE  Shared' /\ dims' \in Nat /\ (emb # Nil => emb' = emb)
<1>1. CASE UNCHANGED <<emb, dims>>
  BY <1>1 DEF Shared
<1>2. CASE ~UNCHANGED <<emb, dims>>
  <2>1. PICK lines \in VocabFile, m \in Model, c \in Config :
          LET i == Chosen(m, c.output)
          IN  /\ Loadable(lines) /\ i # 0 /\ emb = Nil
              /\ emb' = [vocab |-> Vocab(lines), config |-> c, model |-> m,
                         pooled |-> m.outputs[i].rank = 2]
              /\ dims' = IF m.outputs[i].dim > 0 THEN m.outputs[i].dim ELSE 0
    BY <1>2 DEF Open
  <2>2. Numbering(Vocab(lines))
    BY <2>1, TextAssumption, VocabNumbers
  <2>3. Shared'
    BY <2>1, <2>2 DEF Shared
  <2>4. dims' \in Nat
    <3> DEFINE i == Chosen(m, c.output)
    <3>1. i \in 1 .. Len(m.outputs)
      BY <2>1, ChosenIs
    <3> HIDE DEF i
    <3>2. m.outputs[i] \in Output
      BY <3>1, ModelAssumption, ElementOfSeq
    <3>3. m.outputs[i].dim \in Int
      BY <3>2 DEF Output
    <3>4. dims' = IF m.outputs[i].dim > 0 THEN m.outputs[i].dim ELSE 0
      BY <2>1 DEF i
    <3>5. QED
      BY <3>3, <3>4
  <2>5. QED
    BY <2>1, <2>3, <2>4
<1>3. QED
  BY <1>1, <1>2

LEMMA OpenServes ==
  ASSUME Guarded, Serving, dims \in Nat, NEW t \in Thread, Open(t)
  PROVE  Serving'
<1>1. /\ pc[t] = "open" /\ UNCHANGED <<encoded, answer, out>>
      /\ pc' = [pc EXCEPT ![t] = "idle"] /\ arg' = [arg EXCEPT ![t] = Nil]
  BY DEF Open, Return, GoTo
<1>2. Shared' /\ (emb # Nil => emb' = emb)
  BY OpenShares DEF Serving
<1>3. /\ pc'[t] = "idle" /\ out'[t] = <<>>
      /\ \A u \in Thread \ {t} : /\ pc'[u] = pc[u] /\ arg'[u] = arg[u] /\ encoded'[u] = encoded[u]
                                 /\ answer'[u] = answer[u] /\ out'[u] = out[u]
      /\ Slots'
  BY <1>1 DEF Guarded, Serving, Slots, Serves
<1>4. Serves(t)'
  BY <1>3, QuietServes
<1>5. CASE emb # Nil
  BY <1>2, <1>3, <1>4, <1>5, OneServes
<1>6. CASE emb = Nil
  <2>1. ASSUME NEW u \in Thread, u # t PROVE Serves(u)'
    <3>1. pc[u] \notin {"run", "pool"} /\ out[u] = <<>>
      BY <1>6 DEF Serving, Serves
    <3>2. pc'[u] \notin {"run", "pool"} /\ out'[u] = <<>>
      BY <1>3, <2>1, <3>1
    <3>3. QED
      BY <3>2, QuietServes
  <2>2. QED
    BY <1>2, <1>3, <1>4, <2>1 DEF Serving
<1>7. QED
  BY <1>5, <1>6

LEMMA NextServes == Guarded /\ Serving /\ dims \in Nat /\ [Next]_vars => Serving'
<1> SUFFICES ASSUME Guarded, Serving, dims \in Nat, [Next]_vars PROVE Serving'
  OBVIOUS
<1>1. ASSUME NEW t \in Thread,
             CallNew(t) \/ LockInit(t) \/ AlreadyDone(t) \/ SetPath(t) \/ Initialize(t)
      PROVE  Serving'
  <2>1. UNCHANGED <<encoded, answer, emb>>
    BY <1>1 DEF CallNew, LockInit, AlreadyDone, SetPath, Initialize
  <2>2. \E l \in {"idle", "lock", "init", "env", "open"} : pc' = [pc EXCEPT ![t] = l]
    BY <1>1 DEF CallNew, LockInit, AlreadyDone, SetPath, Initialize, InitFails, Return, GoTo
  <2>3. arg' = arg \/ \E a : arg' = [arg EXCEPT ![t] = a]
    BY <1>1 DEF CallNew, LockInit, AlreadyDone, SetPath, Initialize, InitFails, Return
  <2>4. out' = [out EXCEPT ![t] = <<>>] \/ (out' = out /\ out[t] = <<>>)
    BY <1>1 DEF CallNew, LockInit, AlreadyDone, SetPath, Initialize, Serving, Serves
  <2>5. /\ pc'[t] \notin {"run", "pool"} /\ out'[t] = <<>>
        /\ \A u \in Thread \ {t} : /\ pc'[u] = pc[u] /\ arg'[u] = arg[u] /\ encoded'[u] = encoded[u]
                                   /\ answer'[u] = answer[u] /\ out'[u] = out[u]
        /\ Slots'
    BY <2>1, <2>2, <2>3, <2>4 DEF Guarded, Serving, Slots
  <2>6. QED
    BY <2>1, <2>5, QuietServes, OneServes
<1>2. ASSUME NEW t \in Thread, CallEmbed(t) \/ Open(t) \/ Run(t) \/ Pool(t)
      PROVE  Serving'
  BY <1>2, CallEmbedServes, OpenServes, RunServes, PoolServes
<1>3. CASE Close
  <2>1. /\ emb' = Nil /\ UNCHANGED answer
        /\ encoded' = [t \in Thread |-> <<>>] /\ out' = [t \in Thread |-> <<>>]
        /\ \A t \in Thread : pc'[t] = "idle"
    BY <1>3 DEF Close
  <2>2. Slots' /\ Shared' /\ \A t \in Thread : out'[t] = <<>>
    BY <2>1 DEF Serving, Slots, Shared
  <2>3. ASSUME NEW t \in Thread PROVE Serves(t)'
    BY <2>1, <2>2, QuietServes
  <2>4. QED
    BY <2>2, <2>3 DEF Serving
<1>4. CASE UNCHANGED vars
  BY <1>4 DEF vars, Serving, Shared, Slots, Serves
<1>5. QED
  BY <1>1, <1>2, <1>3, <1>4 DEF Next, Proceed

LEMMA NextTypes == Guarded /\ PathIsSet /\ Serving /\ Types /\ [Next]_vars => Types'
<1> SUFFICES ASSUME Guarded, PathIsSet, Serving, Types, [Next]_vars PROVE Types'
  OBVIOUS
<1> USE DEF Types, GoTo, Return
<1>1. ASSUME NEW t \in Thread, CallNew(t) PROVE Types'
  BY <1>1 DEF CallNew, Guarded, runtime
<1>2. ASSUME NEW t \in Thread, LockInit(t) PROVE Types'
  BY <1>2 DEF LockInit
<1>3. ASSUME NEW t \in Thread, AlreadyDone(t) PROVE Types'
  BY <1>3 DEF AlreadyDone
<1>4. ASSUME NEW t \in Thread, SetPath(t) PROVE Types'
  BY <1>4 DEF SetPath, Resolved
<1>5. ASSUME NEW t \in Thread, Initialize(t) PROVE Types'
  BY <1>5 DEF Initialize, InitFails, Guarded
<1>6. ASSUME NEW t \in Thread, Open(t) PROVE Types'
  <2>1. dims' \in Nat
    BY <1>6, OpenShares DEF Serving
  <2>2. /\ UNCHANGED runtime /\ \E r \in {"ok", "err"} : ret' = [ret EXCEPT ![t] = r]
        /\ pc' = [pc EXCEPT ![t] = "idle"] /\ arg' = [arg EXCEPT ![t] = Nil]
    BY <1>6 DEF Open
  <2>3. QED
    BY <2>1, <2>2 DEF Guarded, runtime
<1>7. ASSUME NEW t \in Thread, CallEmbed(t) PROVE Types'
  BY <1>7 DEF CallEmbed, Guarded, runtime
<1>8. ASSUME NEW t \in Thread, Run(t) PROVE Types'
  <2>1. /\ UNCHANGED <<runtime, dims>>
        /\ \/ pc' = [pc EXCEPT ![t] = "pool"] /\ UNCHANGED <<arg, ret>>
           \/ pc' = [pc EXCEPT ![t] = "idle"] /\ ret' = [ret EXCEPT ![t] = "err"]
              /\ arg' = [arg EXCEPT ![t] = Nil]
    BY <1>8 DEF Run
  <2>2. QED
    BY <2>1 DEF Guarded, runtime
<1>9. ASSUME NEW t \in Thread, Pool(t) PROVE Types'
  <2>1. emb.model \in Model
    BY <1>9 DEF Pool, Serving, Serves, Shared
  <2>2. dims' \in Nat
    BY <1>9, <2>1, ModelAssumption DEF Pool
  <2>3. /\ UNCHANGED runtime /\ ret' = [ret EXCEPT ![t] = "ok"]
        /\ pc' = [pc EXCEPT ![t] = "idle"] /\ UNCHANGED arg
    BY <1>9 DEF Pool
  <2>4. QED
    BY <2>2, <2>3 DEF runtime
<1>10. CASE Close
  BY <1>10 DEF Close, runtime
<1>11. CASE UNCHANGED vars
  BY <1>11 DEF vars, runtime
<1>12. QED
  BY <1>1, <1>2, <1>3, <1>4, <1>5, <1>6, <1>7, <1>8, <1>9, <1>10, <1>11 DEF Next, Proceed

SInv == IInv /\ Serving /\ Types

LEMMA SpecSInv == Spec => []SInv
<1>1. Init => SInv
  <2> SUFFICES ASSUME Init PROVE SInv
    OBVIOUS
  <2>1. Serving
    BY DEF Init, Serving, Slots, Shared, Serves
  <2>2. Types
    BY DEF Init, Types
  <2>3. QED
    BY <2>1, <2>2, InitIInv DEF SInv
<1>2. SInv /\ [Next]_vars => SInv'
  <2> SUFFICES ASSUME SInv, [Next]_vars PROVE SInv'
    OBVIOUS
  <2>1. Guarded /\ PathIsSet /\ dims \in Nat
    BY DEF SInv, IInv, Types
  <2>2. IInv' /\ Serving' /\ Types'
    BY <2>1, NextIInv, NextServes, NextTypes DEF SInv
  <2>3. QED
    BY <2>2 DEF SInv
<1>3. QED
  BY <1>1, <1>2, PTL DEF Spec

\* The variables have their types, the mutex is held exactly by the goroutine
\* that initialises the runtime, and the flag says whether the library is
\* loaded (initRuntime and New).
THEOREM TypeCorrect == Spec => []TypeOK
<1>1. SInv => TypeOK
  <2> SUFFICES ASSUME SInv PROVE TypeOK
    OBVIOUS
  <2>1. \A t \in Thread : (initMu = t) = (pc[t] \in {"init", "env"})
    BY DEF SInv, IInv, Guarded, Inside
  <2>2. QED
    BY <2>1 DEF SInv, IInv, PathIsSet, Types, TypeOK
<1>2. QED
  BY <1>1, SpecSInv, PTL

\* Every vector of a batch is the one its text gets alone: the encoding is the
\* reference tokenizer's, cut to the model's length, no other row and no
\* padding is averaged into it, and no other goroutine's batch (EmbedBatch,
\* Encode and wordPiece).
THEOREM VectorsAreAlone == Spec => []VectorsMatchTexts
<1>1. SInv => VectorsMatchTexts
  <2> SUFFICES ASSUME SInv, NEW t \in Thread, out[t] # <<>>
               PROVE  out[t] = [i \in DOMAIN arg[t] |-> Alone(arg[t][i])]
    BY DEF VectorsMatchTexts
  <2>1. out[t] = [i \in DOMAIN arg[t] |-> Vector(emb, arg[t][i])]
    BY DEF SInv, Serving, Serves
  <2>2. \A text : Vector(emb, text) = Alone(text)
    BY DEF Vector, Mean, Alone
  <2>3. QED
    BY <2>1, <2>2
<1>2. QED
  BY <1>1, SpecSInv, PTL
=============================================================================
