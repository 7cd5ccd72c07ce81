------------------------- MODULE HTTPEmbedder_proofs -------------------------
(***************************************************************************)
(* The vectors of a call belong to its texts and have the embedder's       *)
(* dimension, for any number of callers, texts, lengths and options, and   *)
(* whatever the service answers.                                           *)
(*                                                                         *)
(* The results of a call say nothing of the chunks still under way, so the *)
(* invariant also says how far a call has come (Gathered) and what an      *)
(* answer that waits for checkDims holds (Waiting).                        *)
(***************************************************************************)
EXTENDS HTTPEmbedder, TLAPS, SequenceTheorems

\* The vectors so far are those of the first texts, all of one dimension.
Gathered(t) ==
  /\ Len(out[t]) <= texts[t]
  /\ \A i \in 1 .. Len(out[t]) : out[t][i].of = i /\ out[t][i].len = dims /\ dims # 0

\* A running call has texts left, and all of them if it is not cut in chunks;
\* an answer in hand is for the next ones.
Waiting(t) ==
  /\ pc[t] # "idle" => Len(out[t]) < texts[t] /\ (~Chunked(t) => Len(out[t]) = 0)
  /\ pc[t] = "check" =>
       /\ Len(part[t]) = Wanted(t)
       /\ \A i \in 1 .. Len(part[t]) :
            part[t][i].of = Len(out[t]) + i /\ part[t][i].len = part[t][1].len
  /\ ret[t] = "ok" => pc[t] = "idle" /\ Len(out[t]) = texts[t]

IInv ==
  /\ TypeOK
  /\ \A t \in Caller : Gathered(t)
  /\ \A t \in Caller : Waiting(t)

\* The options are numbers, and so is what a caller counts.
LEMMA Numbers ==
  ASSUME TypeOK, NEW t \in Caller
  PROVE  /\ maxBatch \in Nat /\ retries \in Nat /\ dims \in Nat
         /\ texts[t] \in Nat /\ attempt[t] \in Nat
         /\ out[t] \in Seq(Vector) /\ part[t] \in Seq(Vector)
         /\ Len(out[t]) \in Nat /\ Len(part[t]) \in Nat
  BY OptionAssumption, BoundAssumption DEF TypeOK

LEMMA InitIInv == Init => IInv
  BY OptionAssumption, LengthAssumption, BoundAssumption, EmptySeq
  DEF Init, IInv, TypeOK, Gathered, Waiting

\* A request is for at least one text, and for no more than are left.
LEMMA WantedBound ==
  ASSUME IInv, NEW t \in Caller, pc[t] # "idle"
  PROVE  /\ Wanted(t) \in 1 .. texts[t] - Len(out[t])
         /\ ~Chunked(t) => Wanted(t) = texts[t]
<1>1. /\ maxBatch \in Nat /\ texts[t] \in Nat /\ Len(out[t]) \in Nat
      /\ Len(out[t]) < texts[t] /\ (~Chunked(t) => Len(out[t]) = 0)
  BY Numbers DEF IInv, Waiting
<1>2. QED
  BY <1>1 DEF Wanted, Chunked, Smaller

\* A step that leaves the dimension and a caller alone.
LEMMA OthersStay ==
  ASSUME IInv, NEW u \in Caller,
         UNCHANGED <<options, dims, pc[u], texts[u], part[u], out[u], ret[u]>>
  PROVE  Gathered(u)' /\ Waiting(u)'
<1>1. Gathered(u) /\ Waiting(u)
  BY DEF IInv
<1>2. QED
  BY <1>1 DEF Gathered, Waiting, Chunked, Wanted, options

LEMMA CallIInv ==
  ASSUME IInv, NEW t \in Caller, Call(t)
  PROVE  IInv'
<1>1. PICK n \in 0 .. MaxTexts :
        /\ texts' = [texts EXCEPT ![t] = n]
        /\ pc' = [pc EXCEPT ![t] = IF n = 0 THEN "idle" ELSE "send"]
        /\ ret' = [ret EXCEPT ![t] = IF n = 0 THEN "ok" ELSE "none"]
  BY DEF Call
<1>2. /\ out' = [out EXCEPT ![t] = <<>>]
      /\ cancelled' = [cancelled EXCEPT ![t] = FALSE]
      /\ UNCHANGED <<options, dims, attempt, part>>
  BY DEF Call
<1>3. TypeOK'
  <2>1. <<>> \in Seq(Vector)
    OBVIOUS
  <2>2. QED
    BY <1>1, <1>2, <2>1 DEF IInv, TypeOK, options
<1>4. ASSUME NEW u \in Caller PROVE Gathered(u)' /\ Waiting(u)'
  <2>1. CASE u = t
    <3>1. /\ out'[t] = <<>> /\ Len(<<>>) = 0 /\ texts'[t] = n
          /\ pc'[t] = (IF n = 0 THEN "idle" ELSE "send")
          /\ ret'[t] = (IF n = 0 THEN "ok" ELSE "none")
      BY <1>1, <1>2 DEF IInv, TypeOK
    <3>2. QED
      BY <2>1, <3>1, BoundAssumption DEF Gathered, Waiting
  <2>2. CASE u # t
    BY <1>1, <1>2, <2>2, OthersStay DEF IInv, TypeOK
  <2>3. QED
    BY <2>1, <2>2
<1>5. QED
  BY <1>3, <1>4 DEF IInv

LEMMA FailIInv ==
  ASSUME IInv, NEW t \in Caller, Fail(t)
  PROVE  IInv'
<1>1. TypeOK'
  <2>1. <<>> \in Seq(Vector) /\ 0 \in 0 .. retries
    BY Numbers DEF IInv
  <2>2. QED
    BY <2>1 DEF Fail, IInv, TypeOK, options
<1>2. ASSUME NEW u \in Caller PROVE Gathered(u)' /\ Waiting(u)'
  <2>1. CASE u = t
    <3>1. /\ out'[t] = <<>> /\ Len(<<>>) = 0 /\ pc'[t] = "idle" /\ ret'[t] = "err"
          /\ texts'[t] = texts[t] /\ texts[t] \in Nat
      BY Numbers DEF Fail, IInv, TypeOK
    <3>2. QED
      BY <2>1, <3>1 DEF Gathered, Waiting
  <2>2. CASE u # t
    BY <2>2, OthersStay DEF Fail, IInv, TypeOK
  <2>3. QED
    BY <2>1, <2>2
<1>3. QED
  BY <1>1, <1>2 DEF IInv

\* Waiting for the timer, or sending again, keeps what there is.
LEMMA RetryIInv ==
  ASSUME IInv, NEW t \in Caller, BackOff(t) \/ Resume(t), pc[t] # "idle"
  PROVE  IInv'
<1>1. /\ pc' = [pc EXCEPT ![t] = "send"] \/ pc' = [pc EXCEPT ![t] = "backoff"]
      /\ UNCHANGED <<options, dims, texts, cancelled, part, out, ret>>
  BY DEF BackOff, Resume
<1>2. TypeOK'
  <2>1. attempt' \in [Caller -> 0 .. retries]
    BY Numbers DEF BackOff, Resume, Again, NextAttempt, IInv, TypeOK
  <2>2. QED
    BY <1>1, <2>1 DEF IInv, TypeOK, options
<1>3. ASSUME NEW u \in Caller PROVE Gathered(u)' /\ Waiting(u)'
  <2>1. CASE u = t
    <3>1. pc'[t] \in {"send", "backoff"}
      BY <1>1 DEF IInv, TypeOK
    <3>2. Gathered(t) /\ Waiting(t)
      BY DEF IInv
    <3>3. QED
      BY <1>1, <2>1, <3>1, <3>2 DEF Gathered, Waiting, Chunked, options
  <2>2. CASE u # t
    BY <1>1, <2>2, OthersStay DEF IInv, TypeOK
  <2>3. QED
    BY <2>1, <2>2
<1>4. QED
  BY <1>2, <1>3 DEF IInv

\* Sorting a well-formed answer gives every text of the request its vector,
\* and all of them one length.
LEMMA InOrderIsRight ==
  ASSUME NEW i \in Nat, NEW n \in Nat, i + n <= MaxTexts,
         NEW d \in Items(i, n), WellFormed(d, n)
  PROVE  /\ InOrder(d) \in Seq(Vector)
         /\ Len(InOrder(d)) = n
         /\ \A j \in 1 .. n : InOrder(d)[j].of = i + j
         /\ \A j \in 1 .. n : InOrder(d)[j].len = InOrder(d)[1].len
<1>1. PICK m \in 0 .. n + MaxExtra : d \in [1 .. m -> Item(i, n)]
  BY DEF Items, TupleOf
<1>2. d \in Seq(Item(i, n)) /\ Len(d) = n /\ DOMAIN d = 1 .. n
  BY <1>1, BoundAssumption DEF WellFormed
<1>3. ASSUME NEW j \in 1 .. n
      PROVE  /\ InOrder(d)[j] \in Vector
             /\ InOrder(d)[j].of = i + j
             /\ InOrder(d)[j].len = d[1].len
  <2> DEFINE item == CHOOSE x \in ToSet(d) : x.index = j - 1
  <2>1. \E x \in ToSet(d) : x.index = j - 1
    BY <1>2 DEF WellFormed, IsPermutation, ToSet
  <2>2. item \in ToSet(d) /\ item.index = j - 1
    BY <2>1
  <2>3. PICK p \in 1 .. n : item = d[p]
    BY <1>2, <2>2 DEF ToSet
  <2>4. d[p] \in Item(i, n) /\ d[p].len = d[1].len
    BY <1>1, <1>2 DEF WellFormed, SameLength
  <2>5. PICK k \in 0 .. n, l \in Length :
          d[p] = [index |-> k, of |-> IF k < n THEN i + k + 1 ELSE Nil, len |-> l]
    BY <2>4 DEF Item
  <2>6. k = j - 1 /\ d[p].of = i + j /\ d[p].len \in Length
    <3>1. d[p].index = j - 1 /\ d[p].index = k /\ d[p].len = l
      BY <2>2, <2>3, <2>5
    <3>2. k < n /\ i + k + 1 = i + j
      BY <3>1
    <3>3. d[p].of = i + k + 1
      BY <2>5, <3>2
    <3>4. QED
      BY <3>1, <3>2, <3>3
  <2>7. InOrder(d)[j] = Embedded(item)
    BY <1>2 DEF InOrder
  <2>8. InOrder(d)[j] = [of |-> i + j, len |-> d[p].len]
    BY <2>3, <2>6, <2>7 DEF Embedded
  <2>9. QED
    BY <2>4, <2>6, <2>8, BoundAssumption DEF Vector
<1>4. InOrder(d) \in [1 .. n -> Vector]
  BY <1>2, <1>3 DEF InOrder
<1>5. QED
  BY <1>3, <1>4

LEMMA AnsweredIInv ==
  ASSUME IInv, NEW t \in Caller, Answered(t)
  PROVE  IInv'
<1>1. PICK d \in Items(Len(out[t]), Wanted(t)) :
        \/ /\ WellFormed(d, Wanted(t))
           /\ part' = [part EXCEPT ![t] = InOrder(d)]
           /\ pc' = [pc EXCEPT ![t] = "check"]
           /\ UNCHANGED <<options, dims, texts, cancelled, attempt, out, ret>>
        \/ Fail(t)
  BY DEF Answered
<1>2. CASE Fail(t)
  BY <1>2, FailIInv
<1>3. CASE ~Fail(t)
  <2>1. /\ Wanted(t) \in 1 .. texts[t] - Len(out[t])
        /\ texts[t] \in 0 .. MaxTexts /\ Len(out[t]) \in Nat
    BY WantedBound, Numbers DEF Answered, IInv, TypeOK
  <2>2. Wanted(t) \in Nat /\ Len(out[t]) + Wanted(t) <= MaxTexts
    BY <2>1, BoundAssumption
  <2>3. /\ InOrder(d) \in Seq(Vector)
        /\ Len(InOrder(d)) = Wanted(t)
        /\ \A j \in 1 .. Wanted(t) : InOrder(d)[j].of = Len(out[t]) + j
        /\ \A j \in 1 .. Wanted(t) : InOrder(d)[j].len = InOrder(d)[1].len
    BY <1>1, <1>3, <2>1, <2>2, InOrderIsRight
  <2>4. TypeOK'
    BY <1>1, <1>3, <2>3 DEF IInv, TypeOK, options
  <2>5. ASSUME NEW u \in Caller PROVE Gathered(u)' /\ Waiting(u)'
    <3>1. CASE u = t
      <4>1. Gathered(t) /\ Waiting(t) /\ pc[t] = "send"
        BY DEF IInv, Answered
      <4>2. part'[t] = InOrder(d) /\ pc'[t] = "check"
        BY <1>1, <1>3 DEF IInv, TypeOK
      <4>3. /\ Chunked(t)' = Chunked(t) /\ Wanted(t)' = Wanted(t)
            /\ UNCHANGED <<out[t], texts[t], ret[t], dims>>
        BY <1>1, <1>3 DEF Chunked, Wanted, options
      <4>4. QED
        BY <2>3, <3>1, <4>1, <4>2, <4>3 DEF Gathered, Waiting
    <3>2. CASE u # t
      BY <1>1, <1>3, <3>2, OthersStay DEF IInv, TypeOK
    <3>3. QED
      BY <3>1, <3>2
  <2>6. QED
    BY <2>4, <2>5 DEF IInv
<1>4. QED
  BY <1>2, <1>3

\* Where an element of a concatenation comes from.
LEMMA ConcatAt ==
  ASSUME NEW S, NEW s \in Seq(S), NEW r \in Seq(S), NEW i \in 1 .. Len(s \o r)
  PROVE  \/ i \in 1 .. Len(s) /\ (s \o r)[i] = s[i]
         \/ i - Len(s) \in 1 .. Len(r) /\ (s \o r)[i] = r[i - Len(s)]
<1> DEFINE m == Len(s)
           n == Len(r)
<1>1. m \in Nat /\ n \in Nat
  BY LenProperties
<1>2. i \in 1 .. m + n
  BY ConcatProperties
<1>3. (s \o r)[i] = IF i <= m THEN s[i] ELSE r[i - m]
  BY <1>2, ConcatProperties
<1> HIDE DEF m, n
<1>4. IF i <= m THEN i \in 1 .. m ELSE i - m \in 1 .. n
  BY <1>1, <1>2
<1>5. QED
  BY <1>3, <1>4 DEF m, n

LEMMA CheckDimsIInv ==
  ASSUME IInv, NEW t \in Caller, CheckDims(t)
  PROVE  IInv'
<1> DEFINE got == part[t][1].len
           all == out[t] \o part[t]
           complete == Len(all) = texts[t]
<1>1. CASE Fail(t)
  BY <1>1, FailIInv
<1>2. CASE ~Fail(t)
  <2>1. /\ got # 0 /\ DimsFor(got) = got
        /\ dims' = DimsFor(got)
        /\ out' = [out EXCEPT ![t] = all]
        /\ pc' = [pc EXCEPT ![t] = IF complete THEN "idle" ELSE "send"]
        /\ ret' = [ret EXCEPT ![t] = IF complete THEN "ok" ELSE "none"]
        /\ attempt' = [attempt EXCEPT ![t] = 0]
        /\ part' = [part EXCEPT ![t] = <<>>]
        /\ UNCHANGED <<options, texts, cancelled>>
    BY <1>2 DEF CheckDims
  <2>2. pc[t] = "check" /\ Gathered(t) /\ Waiting(t)
    BY DEF CheckDims, IInv
  <2>3. /\ out[t] \in Seq(Vector) /\ part[t] \in Seq(Vector) /\ texts[t] \in Nat
        /\ retries \in Nat /\ dims \in Nat
    BY Numbers DEF IInv
  <2>4. /\ Wanted(t) \in 1 .. texts[t] - Len(out[t])
        /\ Len(part[t]) = Wanted(t)
        /\ ~Chunked(t) => Len(part[t]) = texts[t] /\ Len(out[t]) = 0
    BY <2>2, WantedBound DEF Waiting
  <2>5. all \in Seq(Vector) /\ Len(all) = Len(out[t]) + Len(part[t])
    BY <2>3
  <2>6. got \in Nat /\ dims' = got /\ (dims = 0 \/ dims = got)
    <3>1. part[t][1] \in Vector
      BY <2>3, <2>4
    <3>2. got \in Nat
      BY <3>1, LengthAssumption DEF Vector
    <3>3. QED
      BY <2>1, <3>2 DEF DimsFor
  <2>7. ASSUME NEW i \in 1 .. Len(all) PROVE all[i].of = i /\ all[i].len = dims'
    <3>1. CASE i \in 1 .. Len(out[t]) /\ all[i] = out[t][i]
      BY <2>2, <2>6, <3>1 DEF Gathered
    <3>2. CASE /\ i - Len(out[t]) \in 1 .. Len(part[t])
               /\ all[i] = part[t][i - Len(out[t])]
      <4>1. /\ part[t][i - Len(out[t])].of = Len(out[t]) + (i - Len(out[t]))
            /\ part[t][i - Len(out[t])].len = got
        BY <2>2, <3>2 DEF Waiting
      <4>2. Len(out[t]) + (i - Len(out[t])) = i
        BY <2>3, LenProperties
      <4>3. QED
        BY <2>6, <3>2, <4>1, <4>2
    <3>3. QED
      BY <2>3, <3>1, <3>2, ConcatAt
  <2>8. TypeOK'
    <3>1. <<>> \in Seq(Vector)
      OBVIOUS
    <3>2. QED
      BY <2>1, <2>3, <2>5, <2>6, <3>1 DEF IInv, TypeOK, options
  <2>9. ASSUME NEW u \in Caller PROVE Gathered(u)' /\ Waiting(u)'
    <3>1. CASE u = t
      <4>1. /\ out'[t] = all /\ part'[t] = <<>>
            /\ pc'[t] = (IF complete THEN "idle" ELSE "send")
            /\ ret'[t] = (IF complete THEN "ok" ELSE "none")
            /\ texts'[t] = texts[t] /\ Chunked(t)' = Chunked(t)
        BY <2>1 DEF IInv, TypeOK, Chunked, options
      <4>2. Len(all) <= texts[t] /\ (~Chunked(t) => complete)
        BY <2>3, <2>4, <2>5
      <4>3. Gathered(t)'
        BY <2>1, <2>6, <2>7, <4>1, <4>2 DEF Gathered
      <4>4. Waiting(t)'
        <5>1. CASE complete
          BY <4>1, <5>1 DEF Waiting
        <5>2. CASE ~complete
          <6>1. Len(all) \in Nat
            BY <2>5, LenProperties
          <6>2. Len(all) < texts[t]
            <7> HIDE DEF all
            <7>1. QED
              BY <2>3, <4>2, <5>2, <6>1
          <6>3. Chunked(t)
            BY <4>2, <5>2
          <6>4. QED
            BY <4>1, <5>2, <6>2, <6>3 DEF Waiting
        <5>3. QED
          BY <5>1, <5>2
      <4>5. QED
        BY <3>1, <4>3, <4>4
    <3>2. CASE u # t
      <4>1. Gathered(u) /\ Waiting(u)
        BY DEF IInv
      <4>2. /\ UNCHANGED <<options, pc[u], texts[u], part[u], out[u], ret[u]>>
            /\ dims = 0 \/ dims' = dims
        BY <2>1, <2>6, <3>2 DEF IInv, TypeOK
      <4>3. Waiting(u)'
        BY <4>1, <4>2 DEF Waiting, Chunked, Wanted, options
      <4>4. Gathered(u)'
        BY <4>1, <4>2 DEF Gathered
      <4>5. QED
        BY <4>3, <4>4
    <3>3. QED
      BY <3>1, <3>2
  <2>10. QED
    BY <2>8, <2>9 DEF IInv
<1>3. QED
  BY <1>1, <1>2

LEMMA NextIInv == IInv /\ [Next]_vars => IInv'
<1> SUFFICES ASSUME IInv, [Next]_vars PROVE IInv'
  OBVIOUS
<1>1. ASSUME NEW t \in Caller, Call(t) PROVE IInv'
  BY <1>1, CallIInv
<1>2. ASSUME NEW t \in Caller, Cancel(t) PROVE IInv'
  <2>1. TypeOK'
    BY <1>2 DEF Cancel, IInv, TypeOK, options
  <2>2. \A u \in Caller : Gathered(u)' /\ Waiting(u)'
    BY <1>2, OthersStay DEF Cancel
  <2>3. QED
    BY <2>1, <2>2 DEF IInv
<1>3. ASSUME NEW t \in Caller, Respond(t) PROVE IInv'
  <2>1. CASE Answered(t)
    BY <2>1, AnsweredIInv
  <2>2. CASE Fail(t)
    BY <2>2, FailIInv
  <2>3. CASE BackOff(t) /\ pc[t] # "idle"
    BY <2>3, RetryIInv
  <2>4. QED
    BY <1>3, <2>1, <2>2, <2>3 DEF Respond, Unanswered, BrokenOff, Overloaded, Refused
<1>4. ASSUME NEW t \in Caller, Resume(t) PROVE IInv'
  <2>1. pc[t] # "idle"
    BY <1>4 DEF Resume
  <2>2. QED
    BY <1>4, <2>1, RetryIInv
<1>5. ASSUME NEW t \in Caller, GiveUp(t) PROVE IInv'
  BY <1>5, FailIInv DEF GiveUp
<1>6. ASSUME NEW t \in Caller, CheckDims(t) PROVE IInv'
  BY <1>6, CheckDimsIInv
<1>7. CASE UNCHANGED vars
  <2>1. TypeOK'
    BY <1>7 DEF vars, options, IInv, TypeOK
  <2>2. \A u \in Caller : Gathered(u)' /\ Waiting(u)'
    BY <1>7, OthersStay DEF vars
  <2>3. QED
    BY <2>1, <2>2 DEF IInv
<1>8. QED
  BY <1>1, <1>2, <1>3, <1>4, <1>5, <1>6, <1>7 DEF Next, Proceed

LEMMA SpecIInv == Spec => []IInv
  BY InitIInv, NextIInv, PTL DEF Spec

\* The state of an embedder and of its calls keeps its type; no call makes
\* more attempts than WithRetry allows (embedOnce).
THEOREM TypeCorrect == Spec => []TypeOK
<1>1. IInv => TypeOK
  BY DEF IInv
<1>2. QED
  BY <1>1, SpecIInv, PTL

\* A call that succeeds returns for text i the vector the service computed for
\* text i, for any number of texts, chunks, retries and callers and any
\* answers (EmbedBatchContext, embedOnce).
THEOREM AnswersMatchTexts == Spec => []VectorsMatchTexts
<1>1. IInv => VectorsMatchTexts
  <2> SUFFICES ASSUME IInv, NEW t \in Caller, ret[t] = "ok"
               PROVE  Len(out[t]) = texts[t] /\ \A i \in DOMAIN out[t] : out[t][i].of = i
    BY DEF VectorsMatchTexts
  <2>1. out[t] \in Seq(Vector) /\ Gathered(t) /\ Waiting(t)
    BY Numbers DEF IInv
  <2>2. QED
    BY <2>1 DEF Gathered, Waiting
<1>2. QED
  BY <1>1, SpecIInv, PTL

\* However many first calls race to infer the dimension, every vector any
\* caller gets has the embedder's (checkDims).
THEOREM DimensionIsOne == Spec => []OneDimension
<1>1. IInv => OneDimension
  <2> SUFFICES ASSUME IInv, NEW t \in Caller, NEW i \in DOMAIN out[t]
               PROVE  dims # 0 /\ out[t][i].len = dims
    BY DEF OneDimension
  <2>1. out[t] \in Seq(Vector) /\ Gathered(t)
    BY Numbers DEF IInv
  <2>2. QED
    BY <2>1 DEF Gathered
<1>2. QED
  BY <1>1, SpecIInv, PTL
=============================================================================
