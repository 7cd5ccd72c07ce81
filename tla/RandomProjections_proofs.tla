---------------------- MODULE RandomProjections_proofs ----------------------
(***************************************************************************)
(* Any number of Fits and FitMores, with saves and loads between them,     *)
(* leaves the vocabulary and the rows of one Fit over all the documents,   *)
(* and a FitMore leaves the embeddings of known texts alone, for any       *)
(* options, words, texts and corpora.                                      *)
(*                                                                         *)
(* The first property speaks of an embedder at rest; the invariant also    *)
(* says which rows an embedder at work has (WorkOK), and that the one in   *)
(* the file is as good as the one it was written from (FileOK).            *)
(***************************************************************************)
EXTENDS RandomProjections, TLAPS, SequenceTheorems, FiniteSetTheorems

Usable(o) == o \in OptionType /\ o.hasSeed /\ o.ngrams > 0 /\ o.minLen > 0

\* VocabularyOf of any vocabulary.
Learned(voc, toks, stream) ==
  /\ DOMAIN voc = {toks[i] : i \in 1 .. Len(toks)}
  /\ DOMAIN voc = {stream[j] : j \in 1 .. Len(stream)}
  /\ \A i \in 1 .. Len(toks) : voc[toks[i]] = i - 1
  /\ \A j \in 1 .. Len(stream) : \A i \in 0 .. voc[stream[j]] :
       \E k \in 1 .. j : stream[k] = toks[i + 1]

\* An embedder made with o at rest that has learned the stream.
AtRest(o, voc, toks, rows, stream, docs) ==
  /\ toks \in Seq(Token) /\ stream \in Seq(Token)
  /\ Learned(voc, toks, stream)
  /\ docs = Nil => toks = <<>> /\ rows = <<>>
  /\ docs # Nil => rows = ProjectionOf(o, Len(toks))

WorkType ==
  /\ work = [call |-> work.call, start |-> work.start, corpus |-> work.corpus,
             words |-> work.words, at |-> work.at, seen |-> work.seen,
             nDocs |-> work.nDocs, df |-> work.df]
  /\ work.call \in {"none", "Fit", "FitMore"}
  /\ work.corpus \in Seq(Text) /\ work.words \in Seq(Word)
  /\ work.at \in (Nat \ {0}) \X (Nat \ {0})

\* What an embedder at work has learned, and its rows.
WorkOK ==
  /\ tokens \in Seq(Token) /\ given \in Seq(Token)
  /\ Learned(vocab, tokens, given)
  /\ Idle => AtRest(made, vocab, tokens, proj, given, fitted)
  /\ work.call = "Fit" => fitted # Nil /\ (made.dim = 0 => proj = <<>>)
  /\ work.call = "FitMore" =>
       /\ fitted # Nil /\ work.start \in 0 .. Len(tokens)
       /\ proj = ProjectionOf(made, work.start) \/ (work.start = 0 /\ proj = <<>>)

FileOK ==
  Saved =>
    /\ Usable(saved.past.made) /\ Restored(file.opts) = saved.past.made
    /\ AtRest(saved.past.made, file.vocab, file.tokens, file.proj,
              saved.past.given, saved.past.fitted)

IInv ==
  /\ opts = made /\ Usable(opts)
  /\ WorkType
  /\ WorkOK
  /\ FileOK

-----------------------------------------------------------------------------
(* The rows. *)

LEMMA SeedIsInt == ASSUME NEW o, Usable(o) PROVE Seed(o) \in Int
  BY DEF Usable, OptionType, Seed

LEMMA DrawnSeq ==
  ASSUME NEW o, Usable(o), NEW stream \in {"vocab", "hash"}, NEW m \in Nat, NEW n \in Nat
  PROVE  /\ Drawn(o, stream, m, n) \in Seq(Row)
         /\ Len(Drawn(o, stream, m, n)) = n
         /\ \A i \in 1 .. n : Drawn(o, stream, m, n)[i]
                                = [stream |-> stream, seed |-> Seed(o), at |-> m + i]
<1> DEFINE row(i) == [stream |-> stream, seed |-> Seed(o), at |-> m + i]
<1>1. \A i \in 1 .. n : row(i) \in Row
  BY SeedIsInt DEF Row
<1>2. Drawn(o, stream, m, n) = [i \in 1 .. n |-> row(i)]
  BY DEF Drawn
<1> HIDE DEF row
<1>3. [i \in 1 .. n |-> row(i)] \in Seq(Row) /\ Len([i \in 1 .. n |-> row(i)]) = n
  BY <1>1
<1>4. QED
  BY <1>2, <1>3 DEF row

\* The generator goes on where it stopped.
LEMMA DrawnGoesOn ==
  ASSUME NEW o, Usable(o), NEW m \in Nat, NEW n \in Nat, m <= n
  PROVE  Drawn(o, "vocab", 0, m) \o Drawn(o, "vocab", m, n - m) = Drawn(o, "vocab", 0, n)
<1> DEFINE a == Drawn(o, "vocab", 0, m)
           b == Drawn(o, "vocab", m, n - m)
           c == Drawn(o, "vocab", 0, n)
<1>1. n - m \in Nat
  OBVIOUS
<1>2. a \in Seq(Row) /\ Len(a) = m /\ b \in Seq(Row) /\ Len(b) = n - m
      /\ c \in Seq(Row) /\ Len(c) = n
  <2>1. a \in Seq(Row) /\ Len(a) = m
    BY DrawnSeq
  <2>2. b \in Seq(Row) /\ Len(b) = n - m
    BY <1>1, DrawnSeq
  <2>3. c \in Seq(Row) /\ Len(c) = n
    BY DrawnSeq
  <2>4. QED
    BY <2>1, <2>2, <2>3
<1>3. a \o b \in Seq(Row) /\ Len(a \o b) = n
  <2> HIDE DEF a, b
  <2>1. a \o b \in Seq(Row) /\ Len(a \o b) = Len(a) + Len(b)
    BY <1>2, ConcatProperties
  <2>2. QED
    BY <1>2, <2>1
<1>4. ASSUME NEW i \in 1 .. n PROVE (a \o b)[i] = c[i]
  <2>1. i \in 1 .. Len(a) + Len(b)
    BY <1>2
  <2>2. (a \o b)[i] = IF i <= m THEN a[i] ELSE b[i - m]
    BY <1>2, <2>1, ConcatProperties
  <2>3. c[i] = [stream |-> "vocab", seed |-> Seed(o), at |-> 0 + i]
    BY DrawnSeq
  <2>4. CASE i <= m
    <3>1. a[i] = [stream |-> "vocab", seed |-> Seed(o), at |-> 0 + i]
      BY <2>4, DrawnSeq
    <3>2. QED
      BY <2>2, <2>3, <2>4, <3>1
  <2>5. CASE ~(i <= m)
    <3>1. i - m \in 1 .. n - m
      BY <2>5
    <3>2. b[i - m] = [stream |-> "vocab", seed |-> Seed(o), at |-> m + (i - m)]
      BY <1>1, <3>1, DrawnSeq
    <3>3. m + (i - m) = 0 + i
      OBVIOUS
    <3>4. QED
      BY <2>2, <2>3, <2>5, <3>2, <3>3
  <2>6. QED
    BY <2>4, <2>5
<1> HIDE DEF a, b, c
<1>5. a \o b = c
  BY <1>2, <1>3, <1>4, SeqEqual
<1>6. QED
  BY <1>5 DEF a, b, c

LEMMA RowsSeq ==
  ASSUME NEW o, Usable(o), NEW n \in Nat
  PROVE  /\ Drawn(o, "vocab", 0, n) \in Seq(Row) /\ Len(Drawn(o, "vocab", 0, n)) = n
         /\ HashRows(o) \in Seq(Row) /\ Len(HashRows(o)) = o.buckets
<1>1. o.buckets \in Nat /\ 0 \in Nat
  BY DEF Usable, OptionType
<1>2. Drawn(o, "vocab", 0, n) \in Seq(Row) /\ Len(Drawn(o, "vocab", 0, n)) = n
  BY <1>1, DrawnSeq
<1>3. Drawn(o, "hash", 0, o.buckets) \in Seq(Row) /\ Len(Drawn(o, "hash", 0, o.buckets)) = o.buckets
  BY <1>1, DrawnSeq
<1>4. QED
  BY <1>2, <1>3 DEF HashRows

\* FitMore's projection is that of one Fit.
LEMMA ExtendedIsOneFit ==
  ASSUME IInv, NEW m \in Nat, NEW n \in Nat, m <= n, proj = ProjectionOf(made, m)
  PROVE  Extended(m, n) = ProjectionOf(made, n)
<1>1. opts = made /\ Usable(opts) /\ opts.buckets \in Nat
  BY DEF IInv, Usable, OptionType
<1>2. CASE opts.dim = 0
  BY <1>1, <1>2 DEF Extended, ProjectionOf
<1>3. CASE opts.dim # 0
  <2> DEFINE old == Drawn(opts, "vocab", 0, m)
             hash == HashRows(opts)
  <2>1. old \in Seq(Row) /\ Len(old) = m /\ hash \in Seq(Row) /\ Len(hash) = opts.buckets
    BY <1>1, RowsSeq
  <2>2. proj = old \o hash
    BY <1>1, <1>3 DEF ProjectionOf
  <2>3. proj \in Seq(Row) /\ Len(proj) = m + opts.buckets
        /\ \A i \in 1 .. m : proj[i] = old[i]
    <3>1. \A i \in 1 .. Len(old) + Len(hash) :
            (old \o hash)[i] = IF i <= Len(old) THEN old[i] ELSE hash[i - Len(old)]
      BY <2>1, ConcatProperties
    <3>2. old \o hash \in Seq(Row) /\ Len(old \o hash) = Len(old) + Len(hash)
      BY <2>1, ConcatProperties
    <3> HIDE DEF old, hash
    <3>3. \A i \in 1 .. m : i \in 1 .. Len(old) + Len(hash) /\ i <= Len(old)
      BY <1>1, <2>1
    <3>4. QED
      BY <2>1, <2>2, <3>1, <3>2, <3>3
  <2>4. OldRows(m) = old
    <3>1. OldRows(m) \in Seq(Row) /\ Len(OldRows(m)) = m
          /\ \A i \in 1 .. m : OldRows(m)[i] = proj[i]
      BY <1>1, <2>3 DEF OldRows
    <3> HIDE DEF old, hash
    <3>2. QED
      BY <2>1, <2>3, <3>1, SeqEqual
  <2>5. QED
    BY <1>1, <1>3, <2>4, DrawnGoesOn DEF Extended, Skipped, ProjectionOf
<1>4. QED
  BY <1>2, <1>3

-----------------------------------------------------------------------------
(* The vocabulary. *)

LEMMA NothingLearned == Learned(<<>>, <<>>, <<>>)
  BY DEF Learned

\* One more token, known or new.
LEMMA OneMoreToken ==
  ASSUME NEW voc, NEW toks \in Seq(Token), NEW stream \in Seq(Token), NEW tok \in Token,
         Learned(voc, toks, stream),
         NEW voc2, NEW toks2,
         voc2 = IF tok \in DOMAIN voc THEN voc
                ELSE [t \in DOMAIN voc \cup {tok} |-> IF t = tok THEN Len(toks) ELSE voc[t]],
         toks2 = IF tok \in DOMAIN voc THEN toks ELSE Append(toks, tok)
  PROVE  toks2 \in Seq(Token) /\ Len(toks) <= Len(toks2) /\ Learned(voc2, toks2, Append(stream, tok))
<1> DEFINE n == Len(stream)
           l == Len(toks)
           more == Append(stream, tok)
<1>1. /\ n \in Nat /\ l \in Nat /\ more \in Seq(Token) /\ Len(more) = n + 1
      /\ (\A j \in 1 .. n : more[j] = stream[j]) /\ more[n + 1] = tok
  BY AppendProperties
<1>2. {more[j] : j \in 1 .. n + 1} = DOMAIN voc \cup {tok}
  <2>1. DOMAIN voc = {stream[j] : j \in 1 .. n}
    BY DEF Learned
  <2> HIDE DEF more, n
  <2>2. \A j \in 1 .. n + 1 : j \in 1 .. n \/ j = n + 1
    BY <1>1
  <2>3. \A j \in 1 .. n : j \in 1 .. n + 1
    BY <1>1
  <2>4. n + 1 \in 1 .. n + 1
    BY <1>1
  <2>5. QED
    BY <1>1, <2>1, <2>2, <2>3, <2>4
<1>3. CASE tok \in DOMAIN voc
  <2>1. voc2 = voc /\ toks2 = toks
    BY <1>3
  <2>2. PICK j0 \in 1 .. n : stream[j0] = tok
    BY <1>3 DEF Learned
  <2>3. ASSUME NEW j \in 1 .. n + 1, NEW i \in 0 .. voc[more[j]]
        PROVE  \E k \in 1 .. j : more[k] = toks[i + 1]
    <3>1. CASE j \in 1 .. n
      <4>1. PICK k \in 1 .. j : stream[k] = toks[i + 1]
        BY <1>1, <3>1 DEF Learned
      <4>2. k \in 1 .. n
        BY <1>1, <3>1
      <4>3. QED
        BY <1>1, <4>1, <4>2
    <3>2. CASE j = n + 1
      <4>1. more[j] = stream[j0]
        BY <1>1, <2>2, <3>2
      <4>2. PICK k \in 1 .. j0 : stream[k] = toks[i + 1]
        BY <4>1 DEF Learned
      <4>3. k \in 1 .. n /\ k \in 1 .. j
        BY <1>1, <3>2
      <4>4. QED
        BY <1>1, <4>2, <4>3
    <3>3. QED
      BY <1>1, <3>1, <3>2
  <2>4. Learned(voc, toks, more)
    <3>1. /\ DOMAIN voc = {toks[i] : i \in 1 .. Len(toks)}
          /\ \A i \in 1 .. Len(toks) : voc[toks[i]] = i - 1
      BY DEF Learned
    <3>2. DOMAIN voc = {more[j] : j \in 1 .. Len(more)}
      BY <1>1, <1>2, <1>3
    <3>3. \A j \in 1 .. Len(more) : \A i \in 0 .. voc[more[j]] :
            \E k \in 1 .. j : more[k] = toks[i + 1]
      BY <1>1, <2>3
    <3> HIDE DEF more
    <3>4. QED
      BY <3>1, <3>2, <3>3 DEF Learned
  <2>5. QED
    BY <1>1, <2>1, <2>4
<1>4. CASE tok \notin DOMAIN voc
  <2>1. /\ voc2 = [t \in DOMAIN voc \cup {tok} |-> IF t = tok THEN l ELSE voc[t]]
        /\ toks2 = Append(toks, tok)
    BY <1>4
  <2>2. /\ toks2 \in Seq(Token) /\ Len(toks2) = l + 1
        /\ (\A i \in 1 .. l : toks2[i] = toks[i]) /\ toks2[l + 1] = tok
    BY <2>1, AppendProperties
  <2>3. /\ DOMAIN voc2 = DOMAIN voc \cup {tok} /\ voc2[tok] = l
        /\ \A t \in DOMAIN voc : voc2[t] = voc[t]
    BY <1>4, <2>1
  <2>4. /\ DOMAIN voc = {toks[i] : i \in 1 .. l}
        /\ DOMAIN voc = {stream[j] : j \in 1 .. n}
        /\ \A i \in 1 .. l : voc[toks[i]] = i - 1
        /\ \A j \in 1 .. n : \A i \in 0 .. voc[stream[j]] : \E k \in 1 .. j : stream[k] = toks[i + 1]
    BY DEF Learned
  <2> HIDE DEF more, n, l
  <2>5. \A i \in 1 .. l + 1 : i \in 1 .. l \/ i = l + 1
    BY <1>1
  <2>6. \A i \in 1 .. l : i \in 1 .. l + 1
    BY <1>1
  <2>7. {toks2[i] : i \in 1 .. l + 1} = DOMAIN voc2
    <3>1. l + 1 \in 1 .. l + 1
      BY <1>1
    <3>2. QED
      BY <2>2, <2>3, <2>4, <2>5, <2>6, <3>1
  <2>8. ASSUME NEW i \in 1 .. l + 1 PROVE voc2[toks2[i]] = i - 1
    <3>1. CASE i \in 1 .. l
      <4>1. toks[i] \in DOMAIN voc
        BY <2>4, <3>1
      <4>2. QED
        BY <2>2, <2>3, <2>4, <3>1, <4>1
    <3>2. CASE i = l + 1
      BY <1>1, <2>2, <2>3, <3>2
    <3>3. QED
      BY <2>5, <3>1, <3>2
  <2>9. ASSUME NEW j \in 1 .. n + 1, NEW i \in 0 .. voc2[more[j]]
        PROVE  \E k \in 1 .. j : more[k] = toks2[i + 1]
    <3>1. CASE j \in 1 .. n
      <4>1. more[j] = stream[j] /\ stream[j] \in DOMAIN voc
        BY <1>1, <2>4, <3>1
      <4>2. i \in 0 .. voc[stream[j]]
        BY <2>3, <4>1
      <4>3. PICK k \in 1 .. j : stream[k] = toks[i + 1]
        BY <2>4, <3>1, <4>2
      <4>4. PICK m \in 1 .. l : stream[j] = toks[m]
        BY <2>4, <4>1
      <4>5. i + 1 \in 1 .. l
        <5>1. voc[stream[j]] = m - 1
          BY <2>4, <4>4
        <5>2. QED
          BY <1>1, <4>2, <5>1
      <4>6. k \in 1 .. n
        BY <1>1, <3>1
      <4>7. QED
        BY <1>1, <2>2, <4>3, <4>5, <4>6
    <3>2. CASE j = n + 1
      <4>1. i \in 0 .. l
        BY <1>1, <2>3, <3>2
      <4>2. CASE i = l
        BY <1>1, <2>2, <3>2, <4>2
      <4>3. CASE i # l
        <5>1. i + 1 \in 1 .. l
          BY <1>1, <4>1, <4>3
        <5>2. toks[i + 1] \in DOMAIN voc
          BY <2>4, <5>1
        <5>3. PICK k \in 1 .. n : stream[k] = toks[i + 1]
          <6>1. DOMAIN voc = {stream[k] : k \in 1 .. n}
            BY <2>4
          <6>2. QED
            BY <5>2, <6>1
        <5>4. k \in 1 .. j
          BY <1>1, <3>2
        <5>5. QED
          BY <1>1, <2>2, <5>1, <5>3, <5>4
      <4>4. QED
        BY <4>2, <4>3
    <3>3. j \in 1 .. n \/ j = n + 1
      BY <1>1
    <3>4. QED
      BY <3>1, <3>2, <3>3
  <2>10. Learned(voc2, toks2, more)
    <3>1. DOMAIN voc2 = {more[j] : j \in 1 .. Len(more)}
      BY <1>1, <1>2, <2>3
    <3>2. \A j \in 1 .. Len(more) : \A i \in 0 .. voc2[more[j]] :
            \E k \in 1 .. j : more[k] = toks2[i + 1]
      BY <1>1, <2>9
    <3>3. /\ DOMAIN voc2 = {toks2[i] : i \in 1 .. Len(toks2)}
          /\ \A i \in 1 .. Len(toks2) : voc2[toks2[i]] = i - 1
      BY <2>2, <2>7, <2>8
    <3>4. QED
      BY <3>1, <3>2, <3>3 DEF Learned
  <2>11. QED
    BY <1>1, <2>2, <2>10 DEF l, more
<1>5. QED
  BY <1>3, <1>4

\* A token of the words at hand.
LEMMA TokenAtType ==
  ASSUME NEW o, Usable(o), NEW words \in Seq(Word), NEW a \in Nat \ {0}, NEW b \in Nat \ {0},
         a <= o.ngrams, b + a - 1 <= Len(words)
  PROVE  TokenAt(words, <<a, b>>) \in Token
<1>1. a \in 1 .. MaxGram
  BY OptionAssumption DEF Usable, OptionType
<1>2. SubSeq(words, b, b + a - 1) \in Seq(Word) /\ Len(SubSeq(words, b, b + a - 1)) = a
  <2>1. b \in 1 .. Len(words) /\ b + a - 1 \in 1 .. Len(words) /\ b <= b + a - 1
    OBVIOUS
  <2>2. QED
    BY <2>1
<1>3. SubSeq(words, b, b + a - 1) \in [1 .. a -> Word]
  BY <1>2, LenProperties
<1>4. QED
  BY <1>1, <1>3 DEF Token, TokenAt

-----------------------------------------------------------------------------
(* The options. *)

LEMMA RestoredUsable ==
  ASSUME NEW o, Usable(o)
  PROVE  Restored(o) = o
<1>1. /\ o \in OptionType /\ o.ngrams \in Nat /\ o.minLen \in Nat
      /\ o.ngrams > 0 /\ o.minLen > 0
  <2>1. /\ o \in OptionType /\ o.ngrams \in 0 .. MaxGram /\ o.minLen \in {0} \cup MinLen
        /\ o.ngrams > 0 /\ o.minLen > 0
    BY DEF Usable, OptionType
  <2>2. MaxGram \in Nat /\ MinLen \subseteq Nat
    BY OptionAssumption
  <2>3. o.ngrams \in Nat
    BY <2>1, <2>2
  <2>4. o.minLen \in Nat
    <3>1. \A m \in {0} \cup MinLen : m \in Nat
      BY <2>2
    <3>2. QED
      BY <2>1, <3>1, Zenon
  <2>5. QED
    BY <2>1, <2>3, <2>4
<1>2. o.hasSeed = TRUE
  <2>1. o.hasSeed \in BOOLEAN /\ o.hasSeed
    BY DEF Usable, OptionType
  <2>2. QED
    BY <2>1
<1>3. /\ (IF o.ngrams <= 0 THEN 1 ELSE o.ngrams) = o.ngrams
      /\ (IF o.minLen <= 0 THEN 2 ELSE o.minLen) = o.minLen
  BY <1>1
<1>4. /\ (~o.hasSeed /\ o.seed = 0) = FALSE
      /\ ((~o.hasSeed /\ o.seed = 0) \/ o.hasSeed) = o.hasSeed
  BY <1>2
<1>5. o = [dim |-> o.dim, seed |-> o.seed, hasSeed |-> o.hasSeed, ngrams |-> o.ngrams,
           minLen |-> o.minLen, buckets |-> o.buckets, tfidf |-> o.tfidf]
  BY <1>1 DEF OptionType
<1>6. QED
  BY <1>1, <1>3, <1>4, <1>5 DEF Restored, OptionType

\* A file without options is that of an embedder with the defaults.
LEMMA RestoredNoOptions ==
  ASSUME NEW d
  PROVE  Restored(NoOptions(d)) = Default(d)
<1> DEFINE o == NoOptions(d)
<1>1. (~o.hasSeed /\ o.seed = 0) = TRUE /\ ((~o.hasSeed /\ o.seed = 0) \/ o.hasSeed) = TRUE
  BY DEF NoOptions
<1>2. /\ (IF o.ngrams <= 0 THEN 1 ELSE o.ngrams) = 1
      /\ (IF o.minLen <= 0 THEN 2 ELSE o.minLen) = 2
  BY DEF NoOptions
<1>3. Restored(o) = [o EXCEPT !.ngrams = 1, !.minLen = 2, !.seed = 42, !.hasSeed = TRUE]
  BY <1>1, <1>2 DEF Restored
<1>4. QED
  BY <1>3 DEF NoOptions, Default

-----------------------------------------------------------------------------
(* The steps. *)

LEMMA OptionsUsable == ASSUME NEW o \in Options PROVE Usable(o)
  BY OptionAssumption DEF Usable

LEMMA FreshAtRest ==
  ASSUME NEW o
  PROVE  AtRest(o, <<>>, <<>>, <<>>, <<>>, Nil)
<1>1. <<>> \in Seq(Token)
  OBVIOUS
<1>2. QED
  BY <1>1, NothingLearned DEF AtRest

LEMMA NoWorkType ==
  ASSUME work = NoWork
  PROVE  WorkType /\ work.call = "none"
<1>1. <<>> \in Seq(Text) /\ <<>> \in Seq(Word) /\ <<1, 1>> \in (Nat \ {0}) \X (Nat \ {0})
  OBVIOUS
<1>2. QED
  BY <1>1 DEF WorkType, NoWork

LEMMA InitIInv == Init => IInv
<1> SUFFICES ASSUME Init PROVE IInv
  OBVIOUS
<1>1. opts = made /\ Usable(opts)
  BY OptionsUsable DEF Init, Fresh
<1>2. WorkType /\ work.call = "none"
  BY NoWorkType DEF Init, Fresh
<1>3. AtRest(made, vocab, tokens, proj, given, fitted)
  BY FreshAtRest DEF Init, Fresh
<1>4. WorkOK
  BY <1>2, <1>3 DEF WorkOK, AtRest
<1>5. FileOK
  BY DEF Init, FileOK, Saved
<1>6. QED
  BY <1>1, <1>2, <1>4, <1>5 DEF IInv

\* The embedder comes to rest, or is at rest again.
LEMMA RestIInv ==
  ASSUME FileOK', opts' = made', Usable(made)', work' = NoWork,
         AtRest(made, vocab, tokens, proj, given, fitted)'
  PROVE  IInv'
<1>1. WorkType' /\ work'.call = "none"
  <2>1. <<>> \in Seq(Text) /\ <<>> \in Seq(Word) /\ <<1, 1>> \in (Nat \ {0}) \X (Nat \ {0})
    OBVIOUS
  <2>2. QED
    BY <2>1 DEF WorkType, NoWork
<1>2. WorkOK'
  BY <1>1 DEF WorkOK, AtRest
<1>3. QED
  BY <1>1, <1>2 DEF IInv, Usable

LEMMA FileStays ==
  ASSUME IInv, UNCHANGED <<file, saved>>
  PROVE  FileOK'
  BY DEF IInv, FileOK, Saved, AtRest, Learned

LEMMA BeginFitIInv ==
  ASSUME IInv, BeginFit
  PROVE  IInv'
<1>1. PICK corpus \in Corpus :
        /\ work' = [NoWork EXCEPT !.call = "Fit", !.corpus = corpus, !.start = 0]
        /\ fitted' = corpus
  BY DEF BeginFit, Begin
<1>2. /\ vocab' = <<>> /\ tokens' = <<>> /\ given' = <<>>
      /\ UNCHANGED <<opts, proj, idf, file, made, began, saved>>
  BY DEF BeginFit
<1>3. corpus \in Seq(Text) /\ corpus # Nil
  BY CorpusAssumption
<1>4. work' = [call |-> "Fit", start |-> 0, corpus |-> corpus, words |-> <<>>, at |-> <<1, 1>>,
               seen |-> {}, nDocs |-> 0, df |-> <<>>]
  BY <1>1 DEF NoWork
<1>5. WorkType'
  BY <1>3, <1>4 DEF WorkType
<1>6. made.dim = 0 => proj = <<>>
  BY DEF BeginFit, IInv, WorkOK, AtRest, ProjectionOf
<1>7. WorkOK'
  BY <1>1, <1>2, <1>3, <1>4, <1>6, NothingLearned DEF WorkOK, Idle
<1>8. QED
  BY <1>2, <1>5, <1>7, FileStays DEF IInv

LEMMA BeginFitMoreIInv ==
  ASSUME IInv, BeginFitMore
  PROVE  IInv'
<1>1. PICK corpus \in Corpus :
        work' = [NoWork EXCEPT !.call = "FitMore", !.corpus = corpus, !.start = Len(tokens)]
  BY DEF BeginFitMore, Begin
<1>2. /\ UNCHANGED <<opts, learned, file, made, given, saved>>
      /\ fitted' = IF fitted = Nil THEN <<>> ELSE fitted
  BY DEF BeginFitMore
<1>3. corpus \in Seq(Text) /\ fitted' # Nil
  BY <1>2, CorpusAssumption
<1>4. work' = [call |-> "FitMore", start |-> Len(tokens), corpus |-> corpus, words |-> <<>>,
               at |-> <<1, 1>>, seen |-> {}, nDocs |-> 0, df |-> <<>>]
  BY <1>1 DEF NoWork
<1>5. WorkType'
  BY <1>3, <1>4 DEF WorkType
<1>6. /\ tokens \in Seq(Token) /\ given \in Seq(Token) /\ Learned(vocab, tokens, given)
      /\ proj = ProjectionOf(made, Len(tokens)) \/ (Len(tokens) = 0 /\ proj = <<>>)
  BY DEF BeginFitMore, IInv, WorkOK, AtRest
<1>7. WorkOK'
  <2>1. Learned(vocab, tokens, given)'
    <3>1. vocab' = vocab /\ tokens' = tokens /\ given' = given
      BY <1>2 DEF learned
    <3>2. QED
      BY <1>6, <3>1
  <2>2. Len(tokens) \in 0 .. Len(tokens)
    BY <1>6
  <2>3. QED
    BY <1>2, <1>3, <1>4, <1>6, <2>1, <2>2 DEF WorkOK, Idle, learned
<1>8. QED
  BY <1>2, <1>5, <1>7, FileStays DEF IInv

\* A step inside a call that learns nothing.
LEMMA InsideIInv ==
  ASSUME IInv, ~Idle, WorkType', work'.call = work.call, work'.start = work.start,
         UNCHANGED <<opts, learned, file, history, saved>>
  PROVE  IInv'
<1>1. /\ opts' = opts /\ vocab' = vocab /\ tokens' = tokens /\ proj' = proj
      /\ file' = file /\ saved' = saved
      /\ made' = made /\ given' = given /\ fitted' = fitted
  BY DEF learned, history
<1>2. WorkOK'
  BY <1>1 DEF IInv, WorkOK, Idle
<1>3. QED
  BY <1>1, <1>2, FileStays DEF IInv

LEMMA WordsType ==
  ASSUME NEW o, Usable(o), NEW text \in Text
  PROVE  Words(o, text) \in Seq(Word)
<1>1. o.minLen \in MinLen
  BY DEF Usable, OptionType
<1>2. QED
  BY <1>1, TokenizeAssumption DEF Words

LEMMA NextDocIInv ==
  ASSUME IInv, NextDoc
  PROVE  IInv'
<1> DEFINE words == Words(opts, Head(work.corpus))
<1>1. /\ ~Idle /\ work.corpus # <<>>
      /\ work' = [work EXCEPT !.corpus = Tail(@), !.words = words, !.at = <<1, 1>>,
                              !.seen = {}, !.nDocs = IF words = <<>> THEN @ ELSE @ + 1]
      /\ UNCHANGED <<opts, learned, file, history, saved>>
  BY DEF NextDoc
<1>2. WorkType
  BY DEF IInv
<1>3. words \in Seq(Word) /\ Tail(work.corpus) \in Seq(Text)
  <2>1. Head(work.corpus) \in Text /\ Tail(work.corpus) \in Seq(Text)
    BY <1>1, <1>2 DEF WorkType
  <2>2. QED
    BY <2>1, WordsType DEF IInv
<1> HIDE DEF words
<1>4. work' = [call |-> work.call, start |-> work.start, corpus |-> Tail(work.corpus),
               words |-> words, at |-> <<1, 1>>, seen |-> {},
               nDocs |-> IF words = <<>> THEN work.nDocs ELSE work.nDocs + 1, df |-> work.df]
  BY <1>1, <1>2 DEF WorkType
<1>5. WorkType'
  BY <1>2, <1>3, <1>4 DEF WorkType
<1>6. QED
  BY <1>1, <1>4, <1>5, InsideIInv

LEMMA NextGramIInv ==
  ASSUME IInv, NextGram
  PROVE  IInv'
<1>1. /\ ~Idle
      /\ work' = [work EXCEPT !.at = <<@[1] + 1, 1>>]
      /\ UNCHANGED <<opts, learned, file, history, saved>>
  BY DEF NextGram
<1>2. WorkType
  BY DEF IInv
<1>3. <<work.at[1] + 1, 1>> \in (Nat \ {0}) \X (Nat \ {0})
  BY <1>2 DEF WorkType
<1>4. work' = [call |-> work.call, start |-> work.start, corpus |-> work.corpus,
               words |-> work.words, at |-> <<work.at[1] + 1, 1>>, seen |-> work.seen,
               nDocs |-> work.nDocs, df |-> work.df]
  BY <1>1, <1>2 DEF WorkType
<1>5. WorkType'
  BY <1>2, <1>3, <1>4 DEF WorkType
<1>6. QED
  BY <1>1, <1>4, <1>5, InsideIInv

LEMMA TakeTokenIInv ==
  ASSUME IInv, TakeToken
  PROVE  IInv'
<1> DEFINE tok == TokenAt(work.words, work.at)
           a == work.at[1]
           b == work.at[2]
<1>1. /\ ~Idle /\ ~DocDone /\ b + a - 1 <= Len(work.words)
      /\ vocab' = IF tok \in DOMAIN vocab THEN vocab
                  ELSE [t \in DOMAIN vocab \cup {tok} |-> IF t = tok THEN Len(tokens) ELSE vocab[t]]
      /\ tokens' = IF tok \in DOMAIN vocab THEN tokens ELSE Append(tokens, tok)
      /\ given' = Append(given, tok)
      /\ work' = IF work.call = "FitMore" THEN [work EXCEPT !.at[2] = @ + 1]
                 ELSE [work EXCEPT !.at[2] = @ + 1, !.df = Counted(tok), !.seen = @ \cup {tok}]
      /\ UNCHANGED <<opts, proj, idf, file, made, fitted, began, saved>>
  BY DEF TakeToken
<1>2. WorkType /\ a \in Nat \ {0} /\ b \in Nat \ {0} /\ work.at = <<a, b>>
      /\ work.words \in Seq(Word)
  BY DEF IInv, WorkType
<1>3. tok \in Token
  <2>1. opts.ngrams \in Nat
    <3>1. opts.ngrams \in 0 .. MaxGram
      BY DEF IInv, Usable, OptionType
    <3>2. QED
      BY <3>1
  <2>2. a <= opts.ngrams
    BY <1>1, <1>2, <2>1 DEF DocDone
  <2> HIDE DEF a, b
  <2>3. TokenAt(work.words, <<a, b>>) \in Token
    BY <1>1, <1>2, <2>2, TokenAtType DEF IInv
  <2>4. QED
    BY <1>2, <2>3
<1> HIDE DEF tok
<1>4. [work.at EXCEPT ![2] = @ + 1] \in (Nat \ {0}) \X (Nat \ {0})
  BY <1>2
<1>5. \E seen, df :
        work' = [call |-> work.call, start |-> work.start, corpus |-> work.corpus,
                 words |-> work.words, at |-> [work.at EXCEPT ![2] = @ + 1], seen |-> seen,
                 nDocs |-> work.nDocs, df |-> df]
  <2>1. CASE work.call = "FitMore"
    <3>1. work' = [call |-> work.call, start |-> work.start, corpus |-> work.corpus,
                   words |-> work.words, at |-> [work.at EXCEPT ![2] = @ + 1], seen |-> work.seen,
                   nDocs |-> work.nDocs, df |-> work.df]
      BY <1>1, <1>2, <2>1 DEF WorkType
    <3>2. QED
      BY <3>1
  <2>2. CASE work.call # "FitMore"
    <3>1. work' = [call |-> work.call, start |-> work.start, corpus |-> work.corpus,
                   words |-> work.words, at |-> [work.at EXCEPT ![2] = @ + 1],
                   seen |-> work.seen \cup {tok}, nDocs |-> work.nDocs, df |-> Counted(tok)]
      BY <1>1, <1>2, <2>2 DEF WorkType
    <3>2. QED
      BY <3>1
  <2>3. QED
    BY <2>1, <2>2
<1>6. WorkType' /\ work'.call = work.call /\ work'.start = work.start
  BY <1>2, <1>4, <1>5 DEF WorkType
<1>7. /\ tokens \in Seq(Token) /\ given \in Seq(Token) /\ Learned(vocab, tokens, given)
  BY DEF IInv, WorkOK
<1>8. /\ tokens' \in Seq(Token) /\ Len(tokens) <= Len(tokens')
      /\ Learned(vocab', tokens', Append(given, tok))
  BY <1>1, <1>3, <1>7, OneMoreToken
<1>9. given' \in Seq(Token)
  BY <1>1, <1>3, <1>7
<1>10. Learned(vocab, tokens, given)'
  <2>1. given' = Append(given, tok)
    BY <1>1
  <2>2. QED
    BY <1>8, <2>1
<1>11. WorkOK'
  <2>1. work.call = "FitMore" => work.start \in 0 .. Len(tokens')
    <3>1. Len(tokens) \in Nat /\ Len(tokens') \in Nat
      BY <1>7, <1>8, LenProperties
    <3>2. work.call = "FitMore" => work.start \in 0 .. Len(tokens)
      BY DEF IInv, WorkOK
    <3>3. QED
      BY <1>8, <3>1, <3>2
  <2>2. QED
    BY <1>1, <1>6, <1>8, <1>9, <1>10, <2>1 DEF IInv, WorkOK, Idle
<1>12. QED
  BY <1>1, <1>6, <1>11, FileStays DEF IInv

LEMMA LoopDoneRest ==
  ASSUME IInv, LoopDone, work.call \in {"Fit", "FitMore"}
  PROVE  /\ opts = made /\ Usable(made) /\ fitted # Nil
         /\ tokens \in Seq(Token) /\ given \in Seq(Token) /\ Learned(vocab, tokens, given)
         /\ Len(tokens) \in Nat
<1>1. tokens \in Seq(Token)
  BY DEF IInv, WorkOK
<1>2. QED
  BY <1>1, LenProperties DEF IInv, WorkOK

LEMMA EndFitIInv ==
  ASSUME IInv, EndFit
  PROVE  IInv'
<1>1. /\ proj' = Generated(Len(tokens)) /\ work' = NoWork
      /\ UNCHANGED <<opts, vocab, tokens, file, made, given, fitted, saved>>
      /\ work.call = "Fit" /\ LoopDone
  BY DEF EndFit
<1>2. /\ opts = made /\ Usable(made) /\ fitted # Nil
      /\ tokens \in Seq(Token) /\ given \in Seq(Token) /\ Learned(vocab, tokens, given)
  BY <1>1, LoopDoneRest
<1>3. proj' = ProjectionOf(made, Len(tokens))
  <2>1. made.dim = 0 => proj = <<>>
    BY <1>1 DEF IInv, WorkOK
  <2>2. QED
    BY <1>1, <1>2, <2>1 DEF Generated, ProjectionOf
<1>4. AtRest(made, vocab, tokens, proj, given, fitted)'
  BY <1>1, <1>2, <1>3 DEF AtRest
<1>5. opts' = made' /\ Usable(made)'
  BY <1>1, <1>2
<1>6. FileOK'
  BY <1>1, FileStays
<1>7. QED
  BY <1>1, <1>4, <1>5, <1>6, RestIInv

LEMMA EndFitMoreIInv ==
  ASSUME IInv, EndFitMore
  PROVE  IInv'
<1>1. /\ proj' = IF work.start = 0 /\ proj = <<>> THEN Generated(Len(tokens))
                 ELSE IF work.start = Len(tokens) THEN proj
                 ELSE Extended(work.start, Len(tokens))
      /\ work' = NoWork
      /\ UNCHANGED <<opts, vocab, tokens, file, made, given, fitted, saved>>
      /\ work.call = "FitMore" /\ LoopDone
  BY DEF EndFitMore, history
<1>2. /\ opts = made /\ Usable(made) /\ fitted # Nil
      /\ tokens \in Seq(Token) /\ given \in Seq(Token) /\ Learned(vocab, tokens, given)
      /\ Len(tokens) \in Nat
  BY <1>1, LoopDoneRest
<1>3. /\ work.start \in Nat /\ work.start <= Len(tokens)
      /\ proj = ProjectionOf(made, work.start) \/ (work.start = 0 /\ proj = <<>>)
  BY <1>1, <1>2 DEF IInv, WorkOK
<1>4. proj' = ProjectionOf(made, Len(tokens))
  <2>1. CASE work.start = 0 /\ proj = <<>>
    BY <1>1, <1>2, <2>1 DEF Generated, ProjectionOf
  <2>2. CASE ~(work.start = 0 /\ proj = <<>>)
    <3>1. proj = ProjectionOf(made, work.start)
      BY <1>3, <2>2
    <3>2. CASE work.start = Len(tokens)
      BY <1>1, <2>2, <3>1, <3>2
    <3>3. CASE work.start # Len(tokens)
      <4>1. Extended(work.start, Len(tokens)) = ProjectionOf(made, Len(tokens))
        BY <1>2, <1>3, <3>1, ExtendedIsOneFit
      <4>2. QED
        BY <1>1, <2>2, <3>3, <4>1
    <3>4. QED
      BY <3>2, <3>3
  <2>3. QED
    BY <2>1, <2>2
<1>5. AtRest(made, vocab, tokens, proj, given, fitted)'
  BY <1>1, <1>2, <1>4 DEF AtRest
<1>6. opts' = made' /\ Usable(made)'
  BY <1>1, <1>2
<1>7. FileOK'
  BY <1>1, FileStays
<1>8. QED
  BY <1>1, <1>5, <1>6, <1>7, RestIInv

\* Only the file is written.
LEMMA WrittenIInv ==
  ASSUME IInv, FileOK', UNCHANGED <<opts, learned, work, history>>
  PROVE  IInv'
<1>1. /\ opts' = opts /\ vocab' = vocab /\ tokens' = tokens /\ proj' = proj /\ work' = work
      /\ made' = made /\ given' = given /\ fitted' = fitted
  BY DEF learned, history
<1>2. WorkOK'
  BY <1>1 DEF IInv, WorkOK, Idle
<1>3. WorkType'
  BY <1>1 DEF IInv, WorkType
<1>4. QED
  BY <1>1, <1>2, <1>3 DEF IInv

LEMMA SaveIInv ==
  ASSUME IInv, Save
  PROVE  IInv'
<1>1. UNCHANGED <<opts, learned, work, history>> /\ Idle
  BY DEF Save
<1>2. FileOK'
  <2>1. CASE file' = Persist /\ saved' = [fields |-> Fields, past |-> Past]
    <3>1. /\ file'.opts = opts /\ file'.vocab = vocab /\ file'.tokens = tokens
          /\ file'.proj = proj
          /\ saved'.past.made = made /\ saved'.past.given = given
          /\ saved'.past.fitted = fitted
      BY <2>1 DEF Persist, Fields, Past
    <3>2. opts = made /\ Usable(made) /\ AtRest(made, vocab, tokens, proj, given, fitted)
      BY <1>1 DEF IInv, WorkOK
    <3>3. Restored(file'.opts) = saved'.past.made
      BY <3>1, <3>2, RestoredUsable
    <3>4. QED
      BY <3>1, <3>2, <3>3 DEF FileOK
  <2>2. CASE file' = Torn
    BY <2>2 DEF FileOK, Saved
  <2>3. QED
    BY <2>1, <2>2 DEF Save
<1>3. QED
  BY <1>1, <1>2, WrittenIInv

LEMMA SaveV1IInv ==
  ASSUME IInv, SaveV1
  PROVE  IInv'
<1>1. /\ UNCHANGED <<opts, learned, work, history>> /\ Idle /\ opts = Default(opts.dim)
      /\ file' = [Fields EXCEPT !.opts = NoOptions(opts.dim)]
      /\ saved' = [fields |-> Fields, past |-> Past]
  BY DEF SaveV1
<1>2. FileOK'
  <2>1. /\ file'.opts = NoOptions(opts.dim) /\ file'.vocab = vocab /\ file'.tokens = tokens
        /\ file'.proj = proj
        /\ saved'.past.made = made /\ saved'.past.given = given
        /\ saved'.past.fitted = fitted
    BY <1>1 DEF Fields, Past
  <2>2. opts = made /\ Usable(made) /\ AtRest(made, vocab, tokens, proj, given, fitted)
    BY <1>1 DEF IInv, WorkOK
  <2>3. Restored(file'.opts) = saved'.past.made
    BY <1>1, <2>1, <2>2, RestoredNoOptions
  <2>4. QED
    BY <2>1, <2>2, <2>3 DEF FileOK
<1>3. QED
  BY <1>1, <1>2, WrittenIInv

LEMMA LoadIInv ==
  ASSUME IInv, Load
  PROVE  IInv'
<1>1. /\ Saved /\ opts' = Restored(file.opts)
      /\ vocab' = file.vocab /\ tokens' = file.tokens /\ proj' = file.proj
      /\ made' = saved.past.made /\ given' = saved.past.given /\ fitted' = saved.past.fitted
      /\ UNCHANGED <<work, file, saved>> /\ Idle
  BY DEF Load, Saved
<1>2. /\ Usable(saved.past.made) /\ Restored(file.opts) = saved.past.made
      /\ AtRest(saved.past.made, file.vocab, file.tokens, file.proj,
                saved.past.given, saved.past.fitted)
  BY <1>1 DEF IInv, FileOK
<1>3. AtRest(made, vocab, tokens, proj, given, fitted)'
  BY <1>1, <1>2
<1>4. opts' = made' /\ Usable(made)'
  BY <1>1, <1>2
<1>5. FileOK'
  BY <1>1, FileStays
<1>6. WorkType' /\ work'.call = "none"
  BY <1>1 DEF IInv, WorkType, Idle
<1>7. WorkOK'
  BY <1>3, <1>6 DEF WorkOK, AtRest
<1>8. QED
  BY <1>4, <1>5, <1>6, <1>7 DEF IInv

LEMMA NewIInv ==
  ASSUME IInv, New
  PROVE  IInv'
<1>1. PICK o \in Options :
        /\ opts' = o /\ made' = o
        /\ vocab' = <<>> /\ tokens' = <<>> /\ proj' = <<>>
        /\ work' = NoWork /\ given' = <<>> /\ fitted' = Nil
  BY DEF New
<1>2. UNCHANGED <<file, saved>>
  BY DEF New
<1>3. AtRest(made, vocab, tokens, proj, given, fitted)'
  BY <1>1, FreshAtRest
<1>4. opts' = made' /\ Usable(made)'
  BY <1>1, OptionsUsable
<1>5. FileOK'
  BY <1>2, FileStays
<1>6. QED
  BY <1>1, <1>3, <1>4, <1>5, RestIInv

LEMMA StutterIInv ==
  ASSUME IInv, UNCHANGED vars
  PROVE  IInv'
<1>1. UNCHANGED <<opts, learned, work, history>> /\ UNCHANGED <<file, saved>>
  BY DEF vars
<1>2. QED
  BY <1>1, FileStays, WrittenIInv

LEMMA NextIInv == IInv /\ [Next]_vars => IInv'
<1> SUFFICES ASSUME IInv, [Next]_vars PROVE IInv'
  OBVIOUS
<1>1. CASE BeginFit
  BY <1>1, BeginFitIInv
<1>2. CASE BeginFitMore
  BY <1>2, BeginFitMoreIInv
<1>3. CASE NextDoc
  BY <1>3, NextDocIInv
<1>4. CASE NextGram
  BY <1>4, NextGramIInv
<1>5. CASE TakeToken
  BY <1>5, TakeTokenIInv
<1>6. CASE EndFit
  BY <1>6, EndFitIInv
<1>7. CASE EndFitMore
  BY <1>7, EndFitMoreIInv
<1>8. CASE Save
  BY <1>8, SaveIInv
<1>9. CASE SaveV1
  BY <1>9, SaveV1IInv
<1>10. CASE Load
  BY <1>10, LoadIInv
<1>11. CASE New
  BY <1>11, NewIInv
<1>12. CASE UNCHANGED vars
  BY <1>12, StutterIInv
<1>13. QED
  BY <1>1, <1>2, <1>3, <1>4, <1>5, <1>6, <1>7, <1>8, <1>9, <1>10, <1>11, <1>12 DEF Next

LEMMA RestIsOneFit == IInv => FitMoreIsOneFit
<1> SUFFICES ASSUME IInv, Idle, fitted # Nil
             PROVE  VocabularyOf(given) /\ proj = ProjectionOf(made, Len(tokens))
  BY DEF FitMoreIsOneFit
<1>1. AtRest(made, vocab, tokens, proj, given, fitted)
  BY DEF IInv, WorkOK
<1>2. Learned(vocab, tokens, given) /\ proj = ProjectionOf(made, Len(tokens))
  BY <1>1 DEF AtRest
<1>3. VocabularyOf(given)
  BY <1>2 DEF Learned, VocabularyOf
<1>4. QED
  BY <1>2, <1>3

\* FitMore, after any number of Fits, FitMores, saves and loads, of either file
\* format, leaves the vocabulary and the projection of one Fit over all the
\* documents (random_projections.go:179-257, rp_persistence.go:32-131).
THEOREM FitMoreIsAsFit == Spec => []FitMoreIsOneFit
<1>1. Init => IInv
  BY InitIInv
<1>2. IInv /\ [Next]_vars => IInv'
  BY NextIInv
<1>3. IInv => FitMoreIsOneFit
  BY RestIsOneFit
<1>4. QED
  BY <1>1, <1>2, <1>3, PTL DEF Spec

-----------------------------------------------------------------------------
(* Known texts keep their embeddings. *)

\* What a token contributed when FitMore began, from the state it is in now.
WasIndex(tok) ==
  IF tok \in DOMAIN vocab /\ vocab[tok] < work.start THEN vocab[tok]
  ELSE IF opts.buckets > 0 /\ work.start < Len(proj) THEN work.start + (Hash[tok] % opts.buckets)
  ELSE -1

WasTerm(tok) ==
  LET i == WasIndex(tok)
  IN  IF i \in 0 .. Len(proj) - 1 THEN <<proj[i + 1], Weight(i)>> ELSE Nil

Was(text) ==
  LET words == Words(opts, text)
  IN  [p \in Grams(opts, words) |-> WasTerm(TokenAt(words, p))]

\* There are never more weights than known tokens.
FewWeights ==
  /\ Idle => Len(idf) \in 0 .. Len(tokens)
  /\ work.call = "FitMore" => Len(idf) \in 0 .. work.start
  /\ Saved => Len(file.idf) \in 0 .. Len(file.tokens)

BeganOK ==
  work.call = "FitMore" /\ began # Nil =>
    /\ began = [text \in Text |-> Was(text)]
    /\ proj = ProjectionOf(made, work.start)

\* The rows of a projection, one by one.
LEMMA RowAt ==
  ASSUME NEW o, Usable(o), o.dim # 0, NEW n \in Nat
  PROVE  /\ Len(ProjectionOf(o, n)) = n + o.buckets
         /\ \A i \in 1 .. n :
              ProjectionOf(o, n)[i] = [stream |-> "vocab", seed |-> Seed(o), at |-> 0 + i]
         /\ \A i \in 1 .. o.buckets : ProjectionOf(o, n)[n + i] = HashRows(o)[i]
<1> DEFINE a == Drawn(o, "vocab", 0, n)
           b == HashRows(o)
<1>1. a \in Seq(Row) /\ Len(a) = n /\ b \in Seq(Row) /\ Len(b) = o.buckets
  BY RowsSeq
<1>2. o.buckets \in Nat
  BY DEF Usable, OptionType
<1>3. \A i \in 1 .. n : a[i] = [stream |-> "vocab", seed |-> Seed(o), at |-> 0 + i]
  BY DrawnSeq
<1>4. ProjectionOf(o, n) = a \o b
  BY DEF ProjectionOf
<1> HIDE DEF a, b
<1>5. /\ Len(a \o b) = n + o.buckets
      /\ \A i \in 1 .. n + o.buckets : (a \o b)[i] = IF i <= n THEN a[i] ELSE b[i - n]
  <2>1. /\ Len(a \o b) = Len(a) + Len(b)
        /\ \A i \in 1 .. Len(a) + Len(b) :
             (a \o b)[i] = IF i <= Len(a) THEN a[i] ELSE b[i - Len(a)]
    BY <1>1, ConcatProperties
  <2>2. QED
    BY <1>1, <2>1, Zenon
<1>6. \A i \in 1 .. n : (a \o b)[i] = a[i]
  BY <1>2, <1>5
<1>7. ASSUME NEW i \in 1 .. o.buckets PROVE (a \o b)[n + i] = b[i]
  <2>1. n + i \in 1 .. n + o.buckets /\ ~(n + i <= n) /\ (n + i) - n = i
    BY <1>2
  <2>2. QED
    BY <1>5, <2>1
<1>8. QED
  BY <1>3, <1>4, <1>5, <1>6, <1>7 DEF b

\* The tokens of a text are tokens.
LEMMA TokensAre ==
  ASSUME NEW o, Usable(o), NEW text \in Text, NEW p \in Grams(o, Words(o, text))
  PROVE  TokenAt(Words(o, text), p) \in Token
<1> DEFINE words == Words(o, text)
<1>1. words \in Seq(Word)
  BY WordsType
<1> HIDE DEF words
<1>2. p \in (1 .. o.ngrams) \X (1 .. Len(words)) /\ p[2] + p[1] - 1 <= Len(words)
  BY DEF Grams, words
<1>3. o.ngrams \in Nat
  <2>1. o.ngrams \in 0 .. MaxGram
    BY DEF Usable, OptionType
  <2>2. QED
    BY <2>1
<1>4. PICK a \in 1 .. o.ngrams, b \in 1 .. Len(words) : p = <<a, b>>
  BY <1>2
<1>5. a \in Nat \ {0} /\ b \in Nat \ {0} /\ a <= o.ngrams /\ b + a - 1 <= Len(words)
  BY <1>2, <1>3, <1>4
<1>6. TokenAt(words, <<a, b>>) \in Token
  BY <1>1, <1>5, TokenAtType
<1>7. QED
  BY <1>4, <1>6 DEF words

\* A token that FitMore did not learn contributes what it did.
LEMMA KnownTerm ==
  ASSUME IInv, FewWeights, BeganOK, EndFitMore, began # Nil
  PROVE  \A tok \in Token :
           (\A i \in work.start + 1 .. Len(tokens) : tok # tokens[i])
             => Term(tok)' = WasTerm(tok)
<1> SUFFICES ASSUME NEW tok \in Token, \A i \in work.start + 1 .. Len(tokens) : tok # tokens[i]
             PROVE  Term(tok)' = WasTerm(tok)
  OBVIOUS
<1> DEFINE m == work.start
           l == Len(tokens)
           b == opts.buckets
<1>1. /\ work.call = "FitMore" /\ proj = ProjectionOf(made, m) /\ work' = NoWork
      /\ UNCHANGED <<opts, vocab, tokens, idf, made, fitted>>
      /\ Len(idf) \in 0 .. m
  BY DEF EndFitMore, BeganOK, FewWeights, history
<1>2. /\ opts = made /\ Usable(made) /\ fitted # Nil /\ l \in Nat /\ m \in 0 .. l
      /\ Learned(vocab, tokens, given)
  BY <1>1, LoopDoneRest DEF EndFitMore, IInv, WorkOK
<1>3. proj' = ProjectionOf(made, l)
  <2>1. AtRest(made, vocab, tokens, proj, given, fitted)'
    BY <1>1, EndFitMoreIInv DEF IInv, WorkOK, Idle, NoWork
  <2>2. QED
    BY <1>1, <1>2, <2>1 DEF AtRest
<1>4. b \in Nat
  BY <1>2 DEF Usable, OptionType
<1>5. \A i : Weight(i)' = Weight(i)
  BY <1>1 DEF Weight
<1>6. CASE opts.dim = 0
  <2>1. proj = <<>> /\ proj' = <<>>
    BY <1>1, <1>2, <1>3, <1>6 DEF ProjectionOf
  <2>2. QED
    BY <2>1 DEF Term, WasTerm
<1>7. CASE opts.dim # 0
  <2>1. /\ Len(proj) = m + b /\ Len(proj') = l + b
        /\ \A i \in 1 .. m : proj'[i] = proj[i]
        /\ \A i \in 1 .. b : proj'[l + i] = proj[m + i]
    <3>1. m \in Nat /\ \A i \in 1 .. m : i \in 1 .. l
      BY <1>2
    <3>2. /\ Len(ProjectionOf(made, m)) = m + made.buckets
          /\ \A i \in 1 .. m :
               ProjectionOf(made, m)[i] = [stream |-> "vocab", seed |-> Seed(made), at |-> 0 + i]
          /\ \A i \in 1 .. made.buckets : ProjectionOf(made, m)[m + i] = HashRows(made)[i]
      BY <1>2, <1>7, <3>1, RowAt
    <3>3. /\ Len(ProjectionOf(made, l)) = l + made.buckets
          /\ \A i \in 1 .. l :
               ProjectionOf(made, l)[i] = [stream |-> "vocab", seed |-> Seed(made), at |-> 0 + i]
          /\ \A i \in 1 .. made.buckets : ProjectionOf(made, l)[l + i] = HashRows(made)[i]
      BY <1>2, <1>7, RowAt
    <3>4. b = made.buckets
      BY <1>2
    <3> HIDE DEF m, l, b
    <3>5. QED
      BY <1>1, <1>3, <3>1, <3>2, <3>3, <3>4
  <2>2. CASE tok \in DOMAIN vocab
    <3>1. PICK i \in 1 .. l : tok = tokens[i]
      BY <1>2, <2>2 DEF Learned
    <3>2. i <= m
      BY <1>2, <3>1
    <3>3. vocab[tok] = i - 1
      BY <1>2, <3>1 DEF Learned
    <3>4. WasIndex(tok) = i - 1 /\ ProjIndex(tok)' = i - 1
      BY <1>1, <1>2, <2>2, <3>2, <3>3 DEF WasIndex, ProjIndex
    <3>5. i - 1 \in 0 .. Len(proj) - 1 /\ i - 1 \in 0 .. Len(proj') - 1 /\ proj'[(i - 1) + 1] = proj[(i - 1) + 1]
      <4>1. /\ m \in Nat /\ l \in Nat /\ b \in Nat /\ m <= l /\ i \in 1 .. m
            /\ Len(proj) = m + b /\ Len(proj') = l + b /\ proj'[i] = proj[i]
        BY <1>2, <1>4, <2>1, <3>2
      <4>2. (i - 1) + 1 = i
        BY <4>1
      <4> HIDE DEF m, l, b
      <4>3. i - 1 \in 0 .. (m + b) - 1 /\ i - 1 \in 0 .. (l + b) - 1
        BY <4>1
      <4>4. QED
        BY <4>1, <4>2, <4>3
    <3> HIDE DEF m, l, b
    <3>6. QED
      BY <1>5, <3>4, <3>5 DEF Term, WasTerm
  <2>3. CASE tok \notin DOMAIN vocab
    <3>1. CASE b = 0
      <4>1. WasIndex(tok) = -1 /\ ProjIndex(tok)' = -1
        BY <1>1, <2>3, <3>1 DEF WasIndex, ProjIndex
      <4>2. QED
        BY <4>1 DEF Term, WasTerm
    <3>2. CASE b # 0
      <4> DEFINE h == Hash[tok] % b
      <4>1. h \in 0 .. b - 1
        <5>1. Hash[tok] \in Nat
          BY HashAssumption
        <5>2. QED
          BY <1>4, <3>2, <5>1
      <4> HIDE DEF h
      <4>2. WasIndex(tok) = m + h /\ ProjIndex(tok)' = l + h
        <5>1. b > 0 /\ m < Len(proj) /\ l < Len(proj')
          BY <1>2, <1>4, <2>1, <3>2
        <5>2. QED
          BY <1>1, <2>3, <5>1 DEF WasIndex, ProjIndex, h
      <4>3. /\ m + h \in 0 .. Len(proj) - 1 /\ l + h \in 0 .. Len(proj') - 1
            /\ proj'[(l + h) + 1] = proj[(m + h) + 1]
        <5>1. h + 1 \in 1 .. b /\ (l + h) + 1 = l + (h + 1) /\ (m + h) + 1 = m + (h + 1)
          BY <1>2, <1>4, <4>1
        <5>2. proj'[l + (h + 1)] = proj[m + (h + 1)]
          BY <2>1, <5>1
        <5>3. m \in Nat /\ l \in Nat
          BY <1>2
        <5> HIDE DEF m, l, b
        <5>4. m + h \in 0 .. (m + b) - 1 /\ l + h \in 0 .. (l + b) - 1
          BY <1>4, <4>1, <5>3
        <5>5. QED
          BY <2>1, <5>1, <5>2, <5>4
      <4>4. Weight(m + h) = One /\ Weight(l + h) = One
        <5>1. ~(m + h < Len(idf)) /\ ~(l + h < Len(idf))
          BY <1>1, <1>2, <1>4, <4>1
        <5>2. QED
          BY <5>1 DEF Weight
      <4> HIDE DEF m, l, b
      <4>5. QED
        BY <1>5, <4>2, <4>3, <4>4 DEF Term, WasTerm
    <3>3. QED
      BY <3>1, <3>2
  <2>4. QED
    BY <2>2, <2>3
<1>8. QED
  BY <1>6, <1>7

LEMMA KnownText ==
  ASSUME IInv, FewWeights, BeganOK, EndFitMore, began # Nil, NEW text \in Text,
         TokensIn(opts, text) \cap {tokens[i] : i \in work.start + 1 .. Len(tokens)} = {}
  PROVE  Embed(text)' = began[text]
<1> DEFINE words == Words(opts, text)
<1>1. opts' = opts /\ began[text] = Was(text) /\ Usable(opts)
  BY DEF EndFitMore, BeganOK, IInv
<1>2. ASSUME NEW p \in Grams(opts, words)
      PROVE  Term(TokenAt(words, p))' = WasTerm(TokenAt(words, p))
  <2>1. PICK tok \in Token : tok = TokenAt(words, p)
    BY <1>1, TokensAre
  <2>2. tok \in TokensIn(opts, text)
    BY <2>1 DEF TokensIn
  <2>3. \A i \in work.start + 1 .. Len(tokens) : tok # tokens[i]
    BY <2>2
  <2>4. Term(tok)' = WasTerm(tok)
    BY <2>3, KnownTerm
  <2>5. words' = words
    BY <1>1 DEF Words
  <2> HIDE DEF words
  <2>6. Term(TokenAt(words, p))' = Term(tok)'
    BY <2>1, <2>5 DEF Term, ProjIndex, TokenAt
  <2>7. QED
    BY <2>1, <2>4, <2>6
<1>3. words' = words /\ Grams(opts, words)' = Grams(opts, words)
  BY <1>1 DEF Words, Grams
<1>4. Embed(text)' = [p \in Grams(opts, words)' |-> Term(TokenAt(words, p))']
  BY DEF Embed
<1>5. Was(text) = [p \in Grams(opts, words) |-> WasTerm(TokenAt(words, p))]
  BY DEF Was
<1> HIDE DEF words
<1>6. QED
  BY <1>1, <1>2, <1>3, <1>4, <1>5
\* The steps.

LEMMA WasStays ==
  ASSUME opts' = opts, \A tok : WasTerm(tok)' = WasTerm(tok)
  PROVE  \A text \in Text : Was(text)' = Was(text)
<1> SUFFICES ASSUME NEW text \in Text PROVE Was(text)' = Was(text)
  OBVIOUS
<1> DEFINE words == Words(opts, text)
<1>1. words' = words /\ Grams(opts, words)' = Grams(opts, words)
  BY DEF Words, Grams
<1>2. Was(text) = [p \in Grams(opts, words) |-> WasTerm(TokenAt(words, p))]
  BY DEF Was
<1>3. Was(text)' = [p \in Grams(opts, words)' |-> WasTerm(TokenAt(words, p))']
  BY DEF Was
<1> HIDE DEF words
<1>4. ASSUME NEW p \in Grams(opts, words)
      PROVE  WasTerm(TokenAt(words, p))' = WasTerm(TokenAt(words, p))
  <2>1. PICK tok : tok = TokenAt(words, p)
    OBVIOUS
  <2>2. WasTerm(TokenAt(words, p))' = WasTerm(tok)'
    BY <1>1, <2>1 DEF WasTerm, WasIndex, TokenAt
  <2>3. WasTerm(tok)' = WasTerm(tok)
    OBVIOUS
  <2>4. QED
    BY <2>1, <2>2, <2>3
<1>5. QED
  BY <1>1, <1>2, <1>3, <1>4

\* A step inside a call.
LEMMA InsideKnown ==
  ASSUME FewWeights, BeganOK, ~Idle,
         UNCHANGED <<opts, proj, idf, file, made, began>>,
         work'.call = work.call, work'.start = work.start,
         work.call = "FitMore" => \A tok : WasIndex(tok)' = WasIndex(tok)
  PROVE  FewWeights' /\ BeganOK'
<1>1. FewWeights'
  BY DEF FewWeights, Idle, Saved
<1>2. ASSUME work.call = "FitMore", began # Nil
      PROVE  began' = [text \in Text |-> Was(text)']
  <2>1. \A tok : WasTerm(tok)' = WasTerm(tok)
    <3>1. \A i : Weight(i)' = Weight(i)
      BY DEF Weight
    <3>2. QED
      BY <1>2, <3>1 DEF WasTerm
  <2>2. \A text \in Text : Was(text)' = Was(text)
    BY <2>1, WasStays
  <2>3. QED
    BY <1>2, <2>2 DEF BeganOK
<1>3. BeganOK'
  BY <1>2 DEF BeganOK
<1>4. QED
  BY <1>1, <1>3

\* A step that leaves the embedder at rest.
LEMMA RestKnown ==
  ASSUME Idle', Len(idf') \in 0 .. Len(tokens'), Saved' => Len(file'.idf) \in 0 .. Len(file'.tokens)
  PROVE  FewWeights' /\ BeganOK'
<1>1. work'.call = "none"
  BY DEF Idle
<1>2. QED
  BY <1>1 DEF FewWeights, BeganOK

LEMMA BeginFitKnown ==
  ASSUME FewWeights, BeginFit
  PROVE  FewWeights' /\ BeganOK'
<1>1. work'.call = "Fit" /\ file' = file
  BY DEF BeginFit, Begin, NoWork
<1>2. QED
  BY <1>1 DEF FewWeights, BeganOK, Idle, Saved

LEMMA BeginFitMoreKnown ==
  ASSUME IInv, FewWeights, BeginFitMore
  PROVE  FewWeights' /\ BeganOK'
<1>1. /\ Idle /\ work'.call = "FitMore" /\ work'.start = Len(tokens)
      /\ UNCHANGED <<opts, vocab, tokens, proj, idf, file, made>>
      /\ began' = IF fitted = Nil THEN Nil ELSE [text \in Text |-> Embed(text)]
  BY DEF BeginFitMore, Begin, NoWork, learned
<1>2. AtRest(made, vocab, tokens, proj, given, fitted)
  BY <1>1 DEF IInv, WorkOK
<1>3. FewWeights'
  BY <1>1 DEF FewWeights, Idle, Saved
<1>4. ASSUME began' # Nil
      PROVE  BeganOK'
  <2>1. fitted # Nil /\ began' = [text \in Text |-> Embed(text)]
    BY <1>1, <1>4
  <2>2. proj = ProjectionOf(made, Len(tokens))
    BY <1>2, <2>1 DEF AtRest
  <2>3. \A tok \in DOMAIN vocab : vocab[tok] < Len(tokens)
    <3>1. /\ Learned(vocab, tokens, given) /\ Len(tokens) \in Nat
      BY <1>2, LenProperties DEF AtRest
    <3>2. /\ DOMAIN vocab = {tokens[i] : i \in 1 .. Len(tokens)}
          /\ \A i \in 1 .. Len(tokens) : vocab[tokens[i]] = i - 1
      BY <3>1 DEF Learned
    <3>3. \A i \in 1 .. Len(tokens) : vocab[tokens[i]] < Len(tokens)
      BY <3>1, <3>2
    <3>4. QED
      BY <3>2, <3>3
  <2>4. ASSUME NEW tok
        PROVE  WasTerm(tok)' = Term(tok)
    <3>1. WasIndex(tok)' = ProjIndex(tok)
      BY <1>1, <2>3 DEF WasIndex, ProjIndex
    <3>2. \A i : Weight(i)' = Weight(i)
      BY <1>1 DEF Weight
    <3>3. QED
      BY <1>1, <3>1, <3>2 DEF WasTerm, Term
  <2>5. ASSUME NEW text \in Text
        PROVE  Was(text)' = Embed(text)
    <3> DEFINE words == Words(opts, text)
    <3>1. words' = words /\ Grams(opts, words)' = Grams(opts, words)
      BY <1>1 DEF Words, Grams
    <3>2. Embed(text) = [p \in Grams(opts, words) |-> Term(TokenAt(words, p))]
      BY DEF Embed
    <3>3. Was(text)' = [p \in Grams(opts, words)' |-> WasTerm(TokenAt(words, p))']
      BY DEF Was
    <3> HIDE DEF words
    <3>4. ASSUME NEW p \in Grams(opts, words)
          PROVE  WasTerm(TokenAt(words, p))' = Term(TokenAt(words, p))
      <4>1. PICK tok : tok = TokenAt(words, p)
        OBVIOUS
      <4>2. WasTerm(TokenAt(words, p))' = WasTerm(tok)'
        BY <3>1, <4>1 DEF WasTerm, WasIndex, TokenAt
      <4>3. WasTerm(tok)' = Term(tok)
        BY <2>4
      <4>4. QED
        BY <4>1, <4>2, <4>3
    <3>5. QED
      BY <3>1, <3>2, <3>3, <3>4
  <2>6. QED
    BY <1>1, <2>1, <2>2, <2>5 DEF BeganOK
<1>5. began' = Nil => BeganOK'
  BY DEF BeganOK
<1>6. QED
  BY <1>3, <1>4, <1>5

LEMMA TakeTokenKnown ==
  ASSUME IInv, FewWeights, BeganOK, TakeToken
  PROVE  FewWeights' /\ BeganOK'
<1> DEFINE new == TokenAt(work.words, work.at)
<1>1. /\ ~Idle
      /\ vocab' = IF new \in DOMAIN vocab THEN vocab
                  ELSE [t \in DOMAIN vocab \cup {new} |-> IF t = new THEN Len(tokens) ELSE vocab[t]]
      /\ UNCHANGED <<opts, proj, idf, file, made, fitted, began, saved>>
  BY DEF TakeToken
<1>2. work'.call = work.call /\ work'.start = work.start
  <2>1. \/ work' = [work EXCEPT !.at[2] = @ + 1]
        \/ work' = [work EXCEPT !.at[2] = @ + 1, !.df = Counted(new), !.seen = @ \cup {new}]
    BY DEF TakeToken
  <2>2. WorkType
    BY DEF IInv
  <2>3. DOMAIN work = {"call", "start", "corpus", "words", "at", "seen", "nDocs", "df"}
    BY <2>2 DEF WorkType
  <2> HIDE DEF new
  <2>4. QED
    BY <2>1, <2>3
<1> HIDE DEF new
<1>3. ASSUME work.call = "FitMore", NEW tok
      PROVE  WasIndex(tok)' = WasIndex(tok)
  <2>1. ~(Len(tokens) < work.start)
    <3>1. work.start \in 0 .. Len(tokens) /\ Len(tokens) \in Nat
      BY <1>3, LenProperties DEF IInv, WorkOK
    <3>2. QED
      BY <3>1
  <2>2. (tok \in DOMAIN vocab' /\ vocab'[tok] < work.start)
          <=> (tok \in DOMAIN vocab /\ vocab[tok] < work.start)
    <3>1. CASE new \in DOMAIN vocab
      BY <1>1, <3>1
    <3>2. CASE new \notin DOMAIN vocab
      <4>1. /\ DOMAIN vocab' = DOMAIN vocab \cup {new} /\ vocab'[new] = Len(tokens)
            /\ \A t \in DOMAIN vocab : vocab'[t] = vocab[t]
        BY <1>1, <3>2
      <4>2. QED
        BY <2>1, <3>2, <4>1
    <3>3. QED
      BY <3>1, <3>2
  <2>3. tok \in DOMAIN vocab => vocab'[tok] = vocab[tok]
    BY <1>1
  <2>4. QED
    BY <1>1, <1>2, <2>2, <2>3 DEF WasIndex
<1>4. QED
  BY <1>1, <1>2, <1>3, InsideKnown

LEMMA InDocKnown ==
  ASSUME IInv, FewWeights, BeganOK, NextDoc \/ NextGram
  PROVE  FewWeights' /\ BeganOK'
<1>1. ~Idle /\ UNCHANGED <<opts, learned, file, history, saved>>
  BY DEF NextDoc, NextGram
<1>2. UNCHANGED <<opts, vocab, proj, idf, file, made, began>>
  BY <1>1 DEF learned, history
<1>3. work'.call = work.call /\ work'.start = work.start
  <2>1. WorkType
    BY DEF IInv
  <2>2. DOMAIN work = {"call", "start", "corpus", "words", "at", "seen", "nDocs", "df"}
    BY <2>1 DEF WorkType
  <2>3. CASE NextDoc
    BY <2>2, <2>3 DEF NextDoc
  <2>4. CASE NextGram
    BY <2>2, <2>4 DEF NextGram
  <2>5. QED
    BY <2>3, <2>4
<1>4. \A tok : WasIndex(tok)' = WasIndex(tok)
  BY <1>2, <1>3 DEF WasIndex
<1>5. QED
  BY <1>1, <1>2, <1>3, <1>4, InsideKnown

LEMMA EndFitKnown ==
  ASSUME IInv, FewWeights, EndFit
  PROVE  FewWeights' /\ BeganOK'
<1>1. /\ LoopDone /\ work.call = "Fit" /\ work' = NoWork
      /\ UNCHANGED <<tokens, file>>
      /\ idf' = IF opts.tfidf /\ work.nDocs > 0
                THEN [i \in 1 .. Len(tokens) |-> <<1 + work.nDocs, 1 + work.df[tokens[i]]>>]
                ELSE <<>>
  BY DEF EndFit
<1>2. Len(tokens) \in Nat
  BY <1>1, LoopDoneRest
<1>3. Len(idf') \in 0 .. Len(tokens)
  <2> DEFINE weight(i) == <<1 + work.nDocs, 1 + work.df[tokens[i]]>>
  <2>1. idf' = [i \in 1 .. Len(tokens) |-> weight(i)] \/ idf' = <<>>
    BY <1>1
  <2> HIDE DEF weight
  <2>2. CASE idf' = [i \in 1 .. Len(tokens) |-> weight(i)]
    <3>1. Len([i \in 1 .. Len(tokens) |-> weight(i)]) = Len(tokens)
      BY <1>2
    <3>2. QED
      BY <1>2, <2>2, <3>1
  <2>3. CASE idf' = <<>>
    BY <1>2, <2>3
  <2>4. QED
    BY <2>1, <2>2, <2>3
<1>4. Saved' => Len(file'.idf) \in 0 .. Len(file'.tokens)
  BY <1>1 DEF FewWeights, Saved
<1>5. QED
  BY <1>1, <1>3, <1>4, RestKnown DEF NoWork, Idle

LEMMA EndFitMoreKnown ==
  ASSUME IInv, FewWeights, EndFitMore
  PROVE  FewWeights' /\ BeganOK'
<1>1. LoopDone /\ work.call = "FitMore" /\ work' = NoWork /\ UNCHANGED <<tokens, idf, file>>
  BY DEF EndFitMore
<1>2. Len(tokens) \in Nat /\ work.start \in 0 .. Len(tokens)
  BY <1>1, LoopDoneRest DEF IInv, WorkOK
<1>3. Len(idf) \in 0 .. Len(tokens)
  <2>1. Len(idf) \in 0 .. work.start
    BY <1>1 DEF FewWeights
  <2>2. QED
    BY <1>2, <2>1
<1>4. Saved' => Len(file'.idf) \in 0 .. Len(file'.tokens)
  BY <1>1 DEF FewWeights, Saved
<1>5. QED
  BY <1>1, <1>3, <1>4, RestKnown DEF NoWork, Idle

LEMMA SavedKnown ==
  ASSUME FewWeights, Save \/ SaveV1
  PROVE  FewWeights' /\ BeganOK'
<1>1. Idle /\ work' = work /\ UNCHANGED <<tokens, idf>>
  BY DEF Save, SaveV1, learned
<1>2. Idle' /\ Len(idf') \in 0 .. Len(tokens')
  BY <1>1 DEF FewWeights, Idle
<1>3. Saved' => file'.idf = idf /\ file'.tokens = tokens
  <2>1. CASE Save
    BY <2>1 DEF Save, Saved, Persist, Fields
  <2>2. CASE SaveV1
    BY <2>2 DEF SaveV1, Fields
  <2>3. QED
    BY <2>1, <2>2
<1>4. QED
  BY <1>1, <1>2, <1>3, RestKnown

LEMMA LoadKnown ==
  ASSUME FewWeights, Load
  PROVE  FewWeights' /\ BeganOK'
<1>1. Idle /\ Saved /\ tokens' = file.tokens /\ idf' = file.idf /\ work' = work /\ file' = file
  BY DEF Load, Saved
<1>2. QED
  BY <1>1, RestKnown DEF FewWeights, Idle

LEMMA NewKnown ==
  ASSUME FewWeights, New
  PROVE  FewWeights' /\ BeganOK'
<1>1. tokens' = <<>> /\ idf' = <<>> /\ work' = NoWork /\ file' = file
  BY DEF New
<1>2. Len(idf') \in 0 .. Len(tokens')
  BY <1>1
<1>3. QED
  BY <1>1, <1>2, RestKnown DEF FewWeights, Saved, NoWork, Idle

LEMMA StutterKnown ==
  ASSUME IInv, FewWeights, BeganOK, UNCHANGED vars
  PROVE  FewWeights' /\ BeganOK'
<1>1. UNCHANGED <<opts, vocab, tokens, proj, idf, work, file, made, began>>
  BY DEF vars, learned, history
<1>2. CASE Idle
  BY <1>1, <1>2, RestKnown DEF FewWeights, Idle, Saved
<1>3. CASE ~Idle
  <2>1. \A tok : WasIndex(tok)' = WasIndex(tok)
    BY <1>1 DEF WasIndex
  <2>2. QED
    BY <1>1, <1>3, <2>1, InsideKnown
<1>4. QED
  BY <1>2, <1>3

LEMMA InitKnown == Init => FewWeights /\ BeganOK
<1> SUFFICES ASSUME Init PROVE FewWeights /\ BeganOK
  OBVIOUS
<1>1. tokens = <<>> /\ idf = <<>> /\ work.call = "none" /\ file = Nil
  BY DEF Init, Fresh, NoWork
<1>2. Len(idf) \in 0 .. Len(tokens)
  BY <1>1
<1>3. QED
  BY <1>1, <1>2 DEF FewWeights, BeganOK, Saved

LEMMA NextKnown == IInv /\ FewWeights /\ BeganOK /\ [Next]_vars => FewWeights' /\ BeganOK'
<1> SUFFICES ASSUME IInv, FewWeights, BeganOK, [Next]_vars PROVE FewWeights' /\ BeganOK'
  OBVIOUS
<1>1. CASE BeginFit
  BY <1>1, BeginFitKnown
<1>2. CASE BeginFitMore
  BY <1>2, BeginFitMoreKnown
<1>3. CASE NextDoc \/ NextGram
  BY <1>3, InDocKnown
<1>4. CASE TakeToken
  BY <1>4, TakeTokenKnown
<1>5. CASE EndFit
  BY <1>5, EndFitKnown
<1>6. CASE EndFitMore
  BY <1>6, EndFitMoreKnown
<1>7. CASE Save \/ SaveV1
  BY <1>7, SavedKnown
<1>8. CASE Load
  BY <1>8, LoadKnown
<1>9. CASE New
  BY <1>9, NewKnown
<1>10. CASE UNCHANGED vars
  BY <1>10, StutterKnown
<1>11. QED
  BY <1>1, <1>2, <1>3, <1>4, <1>5, <1>6, <1>7, <1>8, <1>9, <1>10 DEF Next

\* A text without a token that FitMore just learned has the embedding it had
\* when FitMore began, its unknown tokens included: they keep the row of their
\* bucket although the rows of the buckets move (random_projections.go:179-257).
THEOREM KnownTextsStay == Spec => KnownTextsKeepEmbedding
<1> DEFINE kept ==
      EndFitMore /\ began # Nil =>
        LET new == {tokens[i] : i \in work.start + 1 .. Len(tokens)}
        IN  \A text \in Text :
              TokensIn(opts, text) \cap new = {} => Embed(text)' = began[text]
<1>1. Init => IInv /\ FewWeights /\ BeganOK
  BY InitIInv, InitKnown
<1>2. IInv /\ FewWeights /\ BeganOK /\ [Next]_vars => (IInv /\ FewWeights /\ BeganOK)'
  BY NextIInv, NextKnown
<1>3. IInv /\ FewWeights /\ BeganOK /\ [Next]_vars => [kept]_vars
  BY KnownText
<1>4. QED
  BY <1>1, <1>2, <1>3, PTL DEF Spec, KnownTextsKeepEmbedding
-----------------------------------------------------------------------------
(* The weights.  While Fit runs, the counts are those of the documents it  *)
(* has begun, the last of them as far as it has come; at any other time    *)
(* the weights are those of the last Fit.                                  *)

\* The documents that Fit has begun.
Begun(docs, w) == Len(docs) - Len(w.corpus)

\* The n-grams of the document in hand that were taken, and their tokens.
Passed(o, w) ==
  {p \in Grams(o, w.words) : p[1] < w.at[1] \/ (p[1] = w.at[1] /\ p[2] < w.at[2])}
TokensPassed(o, w) == {TokenAt(w.words, p) : p \in Passed(o, w)}

\* The tokens taken from document d.
TokensOf(o, docs, w, d) == IF d < Begun(docs, w) THEN TokensIn(o, docs[d]) ELSE w.seen
Taken(o, docs, w, n) == UNION {TokensOf(o, docs, w, d) : d \in 1 .. n}

Filled(o, docs, n) == {d \in 1 .. n : TokensIn(o, docs[d]) # {}}
Holding(o, docs, w, tok) == {d \in 1 .. Begun(docs, w) : tok \in TokensOf(o, docs, w, d)}

\* Fit at work w on docs, by an embedder with options o that knows voc.
Counting(o, docs, w, voc) ==
  /\ docs \in Seq(Text)
  /\ Begun(docs, w) \in Nat
  /\ \A i \in 1 .. Len(w.corpus) : w.corpus[i] = docs[Begun(docs, w) + i]
  /\ w.words = IF Begun(docs, w) = 0 THEN <<>> ELSE Words(o, docs[Begun(docs, w)])
  /\ w.seen = TokensPassed(o, w)
  /\ w.nDocs = Cardinality(Filled(o, docs, Begun(docs, w)))
  /\ DOMAIN w.df = DOMAIN voc
  /\ DOMAIN w.df = Taken(o, docs, w, Begun(docs, w))
  /\ \A tok \in DOMAIN w.df : w.df[tok] = Cardinality(Holding(o, docs, w, tok))

Known(o, docs) == UNION {TokensIn(o, docs[d]) : d \in DOMAIN docs}

\* The weights of an embedder that was fitted to docs and has the tokens toks.
Weighted(o, docs, toks, weights) ==
  /\ docs = Nil => weights = <<>>
  /\ docs # Nil =>
       /\ docs \in Seq(Text)
       /\ Len(weights) \in 0 .. Len(toks)
       /\ o.tfidf => {toks[i] : i \in 1 .. Len(weights)} = Known(o, docs)
       /\ ~o.tfidf => weights = <<>>
       /\ \A i \in 1 .. Len(weights) :
            weights[i] = <<1 + Cardinality(Filled(o, docs, Len(docs))),
                           1 + Cardinality(DocsWith(o, docs, toks[i]))>>

WeightsOK ==
  /\ work.call = "Fit" => Counting(made, fitted, work, vocab)
  /\ work.call # "Fit" => Weighted(made, fitted, tokens, idf)
  /\ Saved => Weighted(saved.past.made, saved.past.fitted, file.tokens, file.idf)
  /\ Saved => file.idf \in Seq(Nat \X Nat)
  /\ proj \in Seq(Row) /\ idf \in Seq(Nat \X Nat)

\* A document has tokens if it has words.
LEMMA WordsMakeTokens ==
  ASSUME NEW o, Usable(o), NEW text \in Text
  PROVE  TokensIn(o, text) # {} <=> Words(o, text) # <<>>
<1> DEFINE words == Words(o, text)
<1>1. words \in Seq(Word) /\ Len(words) \in Nat
  BY WordsType, LenProperties
<1>2. o.ngrams \in Nat /\ o.ngrams >= 1
  <2>1. o.ngrams \in 0 .. MaxGram /\ o.ngrams > 0 /\ MaxGram \in Nat
    BY OptionAssumption DEF Usable, OptionType
  <2>2. QED
    BY <2>1
<1> HIDE DEF words
<1>3. CASE words = <<>>
  <2>1. Len(words) = 0
    BY <1>3
  <2>2. Grams(o, words) = {}
    BY <2>1 DEF Grams
  <2>3. QED
    BY <1>3, <2>2 DEF TokensIn, words
<1>4. CASE words # <<>>
  <2>1. Len(words) >= 1
    BY <1>1, <1>4, EmptySeq
  <2>2. <<1, 1>> \in Grams(o, words)
    <3>1. 1 \in 1 .. o.ngrams /\ 1 \in 1 .. Len(words) /\ 1 + 1 - 1 <= Len(words)
      BY <1>1, <1>2, <2>1
    <3>2. QED
      BY <3>1 DEF Grams
  <2>3. TokenAt(words, <<1, 1>>) \in TokensIn(o, text)
    BY <2>2 DEF TokensIn, words
  <2>4. QED
    BY <1>4, <2>3 DEF words
<1>5. QED
  BY <1>3, <1>4

\* The n-grams of a document in hand.
LEMMA GramsAre ==
  ASSUME NEW o, NEW words, NEW p \in Grams(o, words)
  PROVE  /\ p[1] \in 1 .. o.ngrams /\ p[2] \in 1 .. Len(words)
         /\ p[2] + p[1] - 1 <= Len(words) /\ p = <<p[1], p[2]>>
  BY DEF Grams

\* A document that is done has been taken whole.
LEMMA DocumentTaken ==
  ASSUME NEW o, Usable(o), NEW docs, NEW w, NEW voc, Counting(o, docs, w, voc),
         w.at[1] \in Nat, w.words = <<>> \/ w.at[1] > o.ngrams
  PROVE  Begun(docs, w) # 0 => w.seen = TokensIn(o, docs[Begun(docs, w)])
<1>1. Passed(o, w) = Grams(o, w.words)
  <2>1. o.ngrams \in Nat
    <3>1. o.ngrams \in 0 .. MaxGram
      BY DEF Usable, OptionType
    <3>2. QED
      BY <3>1
  <2>2. ASSUME NEW p \in Grams(o, w.words)
        PROVE  p[1] < w.at[1]
    <3>1. p[1] \in 1 .. o.ngrams /\ p[2] \in 1 .. Len(w.words)
      BY GramsAre
    <3>2. w.words # <<>>
      <4>1. ASSUME w.words = <<>> PROVE FALSE
        <5>1. Len(w.words) = 0
          BY <4>1
        <5>2. QED
          BY <3>1, <5>1
      <4>2. QED
        BY <4>1
    <3>3. QED
      BY <2>1, <3>1, <3>2
  <2>3. QED
    BY <2>2 DEF Passed
<1>2. w.seen = {TokenAt(w.words, p) : p \in Grams(o, w.words)}
  BY <1>1 DEF Counting, TokensPassed
<1>3. Begun(docs, w) # 0 => w.words = Words(o, docs[Begun(docs, w)])
  BY DEF Counting
<1>4. QED
  BY <1>2, <1>3 DEF TokensIn

LEMMA UpToFinite ==
  ASSUME NEW n \in Nat, NEW S \in SUBSET (1 .. n)
  PROVE  IsFiniteSet(S) /\ Cardinality(S) \in Nat
<1>1. IsFiniteSet(1 .. n)
  BY FS_Interval
<1>2. IsFiniteSet(S)
  BY <1>1, FS_Subset
<1>3. QED
  BY <1>2, FS_CardinalityType


\* The next document is begun.
LEMMA NextDocCounts ==
  ASSUME NEW o, Usable(o), NEW docs, NEW w, NEW voc, Counting(o, docs, w, voc),
         w.corpus \in Seq(Text), w.at[1] \in Nat,
         w.words = <<>> \/ w.at[1] > o.ngrams, w.corpus # <<>>,
         NEW w2,
         w2.corpus = Tail(w.corpus), w2.words = Words(o, Head(w.corpus)), w2.at = <<1, 1>>,
         w2.seen = {}, w2.nDocs = IF w2.words = <<>> THEN w.nDocs ELSE w.nDocs + 1,
         w2.df = w.df
  PROVE  Counting(o, docs, w2, voc)
<1> DEFINE n == Begun(docs, w)
           m == Begun(docs, w2)
<1>1. docs \in Seq(Text) /\ Len(docs) \in Nat /\ Len(w.corpus) \in Nat /\ n \in 0 .. Len(docs)
  BY LenProperties DEF Counting, Begun
<1>2. /\ Len(w.corpus) # 0 /\ Tail(w.corpus) \in Seq(Text) /\ Len(Tail(w.corpus)) = Len(w.corpus) - 1
      /\ \A i \in 1 .. Len(w.corpus) - 1 : Tail(w.corpus)[i] = w.corpus[i + 1]
      /\ Head(w.corpus) = w.corpus[1]
  <2>1. Len(w.corpus) # 0
    BY EmptySeq
  <2>2. /\ Tail(w.corpus) \in Seq(Text) /\ Len(Tail(w.corpus)) = Len(w.corpus) - 1
        /\ \A i \in 1 .. Len(Tail(w.corpus)) : Tail(w.corpus)[i] = w.corpus[i + 1]
    BY HeadTailProperties
  <2>3. Head(w.corpus) = w.corpus[1]
    BY DEF Head
  <2>4. QED
    BY <2>1, <2>2, <2>3
<1>3. m = n + 1 /\ m \in 1 .. Len(docs)
  <2>1. n = Len(docs) - Len(w.corpus) /\ m = Len(docs) - Len(w2.corpus)
    BY DEF Begun
  <2>2. Len(w2.corpus) = Len(w.corpus) - 1
    BY <1>2
  <2>3. \A l \in Nat, c \in Nat :
          c # 0 /\ l - c \in 0 .. l => l - (c - 1) = (l - c) + 1 /\ l - (c - 1) \in 1 .. l
    OBVIOUS
  <2> HIDE DEF n, m
  <2>4. QED
    BY <1>1, <1>2, <2>1, <2>2, <2>3
<1>4. Head(w.corpus) = docs[m]
  <2>1. 1 \in 1 .. Len(w.corpus)
    BY <1>1, <1>2
  <2>2. w.corpus[1] = docs[n + 1]
    BY <2>1 DEF Counting
  <2>3. QED
    BY <1>2, <1>3, <2>2
<1>5. docs[m] \in Text
  BY <1>1, <1>3, ElementOfSeq
<1>6. \A d \in 1 .. n : TokensOf(o, docs, w, d) = TokensIn(o, docs[d])
  <2>1. ASSUME NEW d \in 1 .. n PROVE TokensOf(o, docs, w, d) = TokensIn(o, docs[d])
    <3>1. CASE d < n
      BY <3>1 DEF TokensOf
    <3>2. CASE ~(d < n)
      <4>1. d = n /\ n # 0
        BY <1>1, <3>2
      <4>2. w.seen = TokensIn(o, docs[n])
        BY <4>1, DocumentTaken
      <4>3. QED
        BY <3>2, <4>1, <4>2 DEF TokensOf
    <3>3. QED
      BY <3>1, <3>2
  <2>2. QED
    BY <2>1
<1>7. /\ \A d \in 1 .. n : TokensOf(o, docs, w2, d) = TokensIn(o, docs[d])
      /\ TokensOf(o, docs, w2, m) = {}
  <2>1. \A d \in 1 .. n : d < m
    BY <1>1, <1>3
  <2>2. ~(m < m)
    BY <1>1, <1>3
  <2>3. QED
    BY <2>1, <2>2 DEF TokensOf
<1> HIDE DEF n, m
<1>8. \A d \in 1 .. m : d \in 1 .. n \/ d = m
  BY <1>1, <1>3
<1>9. \A d \in 1 .. n : d \in 1 .. m
  BY <1>1, <1>3
<1>10. \A i \in 1 .. Len(w2.corpus) : w2.corpus[i] = docs[m + i]
  <2>1. ASSUME NEW i \in 1 .. Len(w2.corpus) PROVE w2.corpus[i] = docs[m + i]
    <3>1. i \in 1 .. Len(w.corpus) - 1 /\ i + 1 \in 1 .. Len(w.corpus)
      BY <1>1, <1>2
    <3>2. w.corpus[i + 1] = docs[n + (i + 1)]
      BY <3>1 DEF Counting, n
    <3>3. n + (i + 1) = m + i
      BY <1>1, <1>3
    <3>4. QED
      BY <1>2, <3>1, <3>2, <3>3
  <2>2. QED
    BY <2>1
<1>11. w2.words = Words(o, docs[m]) /\ m # 0
  BY <1>1, <1>3, <1>4
<1>12. w2.seen = TokensPassed(o, w2)
  <2>1. Passed(o, w2) = {}
    <3>1. ASSUME NEW p \in Grams(o, w2.words)
          PROVE  ~(p[1] < 1) /\ ~(p[2] < 1)
      BY GramsAre
    <3>2. w2.at[1] = 1 /\ w2.at[2] = 1
      OBVIOUS
    <3>3. QED
      BY <3>1, <3>2 DEF Passed
  <2>2. QED
    BY <2>1 DEF TokensPassed
<1>13. w2.nDocs = Cardinality(Filled(o, docs, m))
  <2>1. w.nDocs = Cardinality(Filled(o, docs, n))
    BY DEF Counting, n
  <2>2. TokensIn(o, docs[m]) # {} <=> w2.words # <<>>
    BY <1>5, <1>11, WordsMakeTokens
  <2>3. Filled(o, docs, n) \in SUBSET (1 .. n) /\ n \in Nat
    BY <1>1 DEF Filled
  <2>4. IsFiniteSet(Filled(o, docs, n)) /\ m \notin Filled(o, docs, n)
    <3>1. m \notin 1 .. n
      BY <1>1, <1>3
    <3>2. QED
      BY <2>3, <3>1, UpToFinite
  <2>5. CASE w2.words = <<>>
    <3>1. Filled(o, docs, m) = Filled(o, docs, n)
      BY <1>8, <1>9, <2>2, <2>5 DEF Filled
    <3>2. QED
      BY <2>1, <2>5, <3>1
  <2>6. CASE w2.words # <<>>
    <3>1. m \in 1 .. m
      BY <1>3
    <3>2. Filled(o, docs, m) = Filled(o, docs, n) \cup {m}
      BY <1>8, <1>9, <2>2, <2>6, <3>1 DEF Filled
    <3>3. Cardinality(Filled(o, docs, n) \cup {m}) = Cardinality(Filled(o, docs, n)) + 1
      BY <2>4, FS_AddElement
    <3>4. QED
      BY <2>1, <2>6, <3>2, <3>3
  <2>7. QED
    BY <2>5, <2>6
<1>14. w2.df = w.df /\ DOMAIN w.df = DOMAIN voc
  BY DEF Counting
<1>15. Taken(o, docs, w, n) = Taken(o, docs, w2, m)
  BY <1>6, <1>7, <1>8, <1>9 DEF Taken
<1>16. ASSUME NEW tok
       PROVE  Holding(o, docs, w2, tok) = Holding(o, docs, w, tok)
  <2>1. Holding(o, docs, w, tok) = {d \in 1 .. n : tok \in TokensOf(o, docs, w, d)}
    BY DEF Holding, n
  <2>2. Holding(o, docs, w2, tok) = {d \in 1 .. m : tok \in TokensOf(o, docs, w2, d)}
    BY DEF Holding, m
  <2>3. QED
    BY <1>6, <1>7, <1>8, <1>9, <2>1, <2>2
<1>17. /\ DOMAIN w.df = Taken(o, docs, w, n)
       /\ \A tok \in DOMAIN w.df : w.df[tok] = Cardinality(Holding(o, docs, w, tok))
  BY DEF Counting, n
<1>18. /\ DOMAIN w2.df = Taken(o, docs, w2, m)
       /\ \A tok \in DOMAIN w2.df : w2.df[tok] = Cardinality(Holding(o, docs, w2, tok))
  BY <1>14, <1>15, <1>16, <1>17
<1>19. QED
  BY <1>1, <1>3, <1>10, <1>11, <1>12, <1>13, <1>14, <1>18 DEF Counting, m

\* The next length of the n-grams.
LEMMA NextGramCounts ==
  ASSUME NEW o, NEW docs, NEW w, NEW voc, Counting(o, docs, w, voc),
         NEW a \in Nat \ {0}, NEW b \in Nat \ {0}, w.at = <<a, b>>,
         w.words \in Seq(Word), b + a - 1 > Len(w.words),
         o.ngrams \in Nat,
         NEW w2,
         w2.corpus = w.corpus, w2.words = w.words, w2.at = <<a + 1, 1>>,
         w2.seen = w.seen, w2.nDocs = w.nDocs, w2.df = w.df
  PROVE  Counting(o, docs, w2, voc)
<1>1. Begun(docs, w2) = Begun(docs, w)
  BY DEF Begun
<1>2. Passed(o, w2) = Passed(o, w)
  <2>1. Len(w.words) \in Nat
    BY LenProperties
  <2>2. ASSUME NEW p \in Grams(o, w.words)
        PROVE  (p[1] < a + 1 \/ (p[1] = a + 1 /\ p[2] < 1)) <=> (p[1] < a \/ (p[1] = a /\ p[2] < b))
    <3>1. p[1] \in Nat /\ p[2] \in Nat /\ p[2] >= 1 /\ p[2] + p[1] - 1 <= Len(w.words)
      BY <2>1, GramsAre
    <3>2. p[1] = a => p[2] < b
      BY <2>1, <3>1
    <3>3. QED
      BY <3>1, <3>2
  <2>3. w2.at[1] = a + 1 /\ w2.at[2] = 1 /\ w.at[1] = a /\ w.at[2] = b
    OBVIOUS
  <2>4. QED
    BY <2>2, <2>3 DEF Passed
<1>3. TokensPassed(o, w2) = TokensPassed(o, w)
  BY <1>2 DEF TokensPassed
<1>4. \A d : TokensOf(o, docs, w2, d) = TokensOf(o, docs, w, d)
  BY <1>1 DEF TokensOf
<1>5. \A tok : Holding(o, docs, w2, tok) = Holding(o, docs, w, tok)
  BY <1>1, <1>4 DEF Holding
<1>6. Taken(o, docs, w2, Begun(docs, w)) = Taken(o, docs, w, Begun(docs, w))
  BY <1>4 DEF Taken
<1>7. /\ docs \in Seq(Text) /\ Begun(docs, w) \in Nat
      /\ \A i \in 1 .. Len(w.corpus) : w.corpus[i] = docs[Begun(docs, w) + i]
      /\ w.words = IF Begun(docs, w) = 0 THEN <<>> ELSE Words(o, docs[Begun(docs, w)])
      /\ w.seen = TokensPassed(o, w)
      /\ w.nDocs = Cardinality(Filled(o, docs, Begun(docs, w)))
      /\ DOMAIN w.df = DOMAIN voc
      /\ DOMAIN w.df = Taken(o, docs, w, Begun(docs, w))
      /\ \A tok \in DOMAIN w.df : w.df[tok] = Cardinality(Holding(o, docs, w, tok))
  BY DEF Counting
<1>8. DOMAIN w2.df = Taken(o, docs, w2, Begun(docs, w))
  BY <1>6, <1>7
<1>9. QED
  BY <1>1, <1>3, <1>5, <1>7, <1>8 DEF Counting

\* A token more of the document in hand.
OneMore(docs, w, w2, tok, n) ==
  /\ n \in Nat \ {0} /\ Begun(docs, w) = n /\ Begun(docs, w2) = n
  /\ w2.seen = w.seen \cup {tok}

LEMMA OneMoreTaken ==
  ASSUME NEW o, NEW docs, NEW w, NEW w2, NEW tok, NEW n, OneMore(docs, w, w2, tok, n)
  PROVE  /\ Taken(o, docs, w2, n) = Taken(o, docs, w, n) \cup {tok}
         /\ \A t : t # tok => Holding(o, docs, w2, t) = Holding(o, docs, w, t)
         /\ Holding(o, docs, w2, tok) = Holding(o, docs, w, tok) \cup {n}
         /\ n \in Holding(o, docs, w, tok) <=> tok \in w.seen
<1>0. /\ n \in Nat \ {0} /\ Begun(docs, w) = n /\ Begun(docs, w2) = n
      /\ w2.seen = w.seen \cup {tok}
  BY DEF OneMore
<1> DEFINE was(d) == TokensOf(o, docs, w, d)
           is(d) == TokensOf(o, docs, w2, d)
<1>1. is(n) = w.seen \cup {tok} /\ was(n) = w.seen /\ \A d \in 1 .. n : d # n => is(d) = was(d)
  <2>1. ~(n < n) /\ \A d \in 1 .. n : d # n => d < n
    BY <1>0
  <2>2. QED
    BY <1>0, <2>1 DEF TokensOf
<1>2. \A t : /\ Holding(o, docs, w, t) = {d \in 1 .. n : t \in was(d)}
             /\ Holding(o, docs, w2, t) = {d \in 1 .. n : t \in is(d)}
  BY <1>0 DEF Holding
<1>3. n \in 1 .. n
  BY <1>0
<1> DEFINE A == UNION {is(d) : d \in 1 .. n}
           B == UNION {was(d) : d \in 1 .. n}
<1>10. Taken(o, docs, w2, n) = A /\ Taken(o, docs, w, n) = B
  BY DEF Taken
<1> HIDE DEF was, is
<1>4. \A d \in 1 .. n : \A t : t \in is(d) <=> t \in was(d) \/ (d = n /\ t = tok)
  BY <1>1
<1>5. A = B \cup {tok}
  <2>1. ASSUME NEW t PROVE t \in A <=> t \in B \/ t = tok
    BY <1>3, <1>4
  <2> HIDE DEF A, B
  <2>2. QED
    BY <2>1
<1> HIDE DEF A, B
<1>6. ASSUME NEW t, t # tok
      PROVE  Holding(o, docs, w2, t) = Holding(o, docs, w, t)
  BY <1>2, <1>4, <1>6
<1>7. Holding(o, docs, w2, tok) = Holding(o, docs, w, tok) \cup {n}
  BY <1>2, <1>3, <1>4
<1>8. n \in Holding(o, docs, w, tok) <=> tok \in w.seen
  BY <1>1, <1>2, <1>3
<1>9. QED
  BY <1>10, <1>5, <1>6, <1>7, <1>8

\* Counted, of any work.
CountedIn(w, tok) ==
  [t \in DOMAIN w.df \cup {tok} |->
     IF t \notin DOMAIN w.df THEN 1
     ELSE w.df[t] + IF t = tok /\ tok \notin w.seen THEN 1 ELSE 0]

\* A token is counted once in a document.
LEMMA TakeCounts ==
  ASSUME NEW o, NEW docs, NEW w, NEW voc, Counting(o, docs, w, voc),
         NEW a \in Nat \ {0}, NEW b \in Nat \ {0}, w.at = <<a, b>>,
         w.words \in Seq(Word), w.words # <<>>, b + a - 1 <= Len(w.words),
         o.ngrams \in Nat, a <= o.ngrams,
         NEW tok, tok = TokenAt(w.words, w.at),
         NEW w2, NEW voc2, DOMAIN voc2 = DOMAIN voc \cup {tok},
         w2.corpus = w.corpus, w2.words = w.words, w2.at = <<a, b + 1>>,
         w2.seen = w.seen \cup {tok}, w2.nDocs = w.nDocs,
         w2.df = CountedIn(w, tok)
  PROVE  Counting(o, docs, w2, voc2)
<1> DEFINE n == Begun(docs, w)
<1>1. Begun(docs, w2) = n
  BY DEF Begun
<1>2. n \in Nat /\ n # 0
  BY DEF Counting
<1>3. Passed(o, w2) = Passed(o, w) \cup {w.at}
  <2>1. Len(w.words) \in Nat
    BY LenProperties
  <2>2. w.at \in Grams(o, w.words)
    <3>1. a \in 1 .. o.ngrams /\ b \in 1 .. Len(w.words)
      BY <2>1
    <3>2. QED
      BY <3>1 DEF Grams
  <2>3. ASSUME NEW p \in Grams(o, w.words)
        PROVE  (p[1] < a \/ (p[1] = a /\ p[2] < b + 1))
                 <=> (p[1] < a \/ (p[1] = a /\ p[2] < b) \/ p = w.at)
    <3>1. p[1] \in Nat /\ p[2] \in Nat /\ p = <<p[1], p[2]>>
      BY <2>1, GramsAre
    <3>2. p = w.at <=> p[1] = a /\ p[2] = b
      BY <3>1
    <3>3. p[2] < b + 1 <=> p[2] < b \/ p[2] = b
      BY <3>1
    <3>4. QED
      BY <3>2, <3>3
  <2>4. w2.at[1] = a /\ w2.at[2] = b + 1 /\ w.at[1] = a /\ w.at[2] = b
    OBVIOUS
  <2>5. Passed(o, w2) = {p \in Grams(o, w.words) : p[1] < a \/ (p[1] = a /\ p[2] < b + 1)}
    BY <2>4 DEF Passed
  <2>6. Passed(o, w) = {p \in Grams(o, w.words) : p[1] < a \/ (p[1] = a /\ p[2] < b)}
    BY <2>4 DEF Passed
  <2>7. QED
    BY <2>2, <2>3, <2>5, <2>6
<1>4. w2.seen = TokensPassed(o, w2)
  <2>1. w.seen = TokensPassed(o, w)
    BY DEF Counting
  <2>2. TokensPassed(o, w2) = TokensPassed(o, w) \cup {tok}
    <3> DEFINE token(p) == TokenAt(w.words, p)
    <3>1. /\ TokensPassed(o, w2) = {token(p) : p \in Passed(o, w2)}
          /\ TokensPassed(o, w) = {token(p) : p \in Passed(o, w)}
          /\ tok = token(w.at)
      BY DEF TokensPassed
    <3> HIDE DEF token
    <3>2. QED
      BY <1>3, <3>1
  <2>3. QED
    BY <2>1, <2>2
<1> HIDE DEF n
<1>5. Begun(docs, w) = n
  BY DEF n
<1>6. /\ Taken(o, docs, w2, n) = Taken(o, docs, w, n) \cup {tok}
      /\ \A t : t # tok => Holding(o, docs, w2, t) = Holding(o, docs, w, t)
      /\ Holding(o, docs, w2, tok) = Holding(o, docs, w, tok) \cup {n}
      /\ n \in Holding(o, docs, w, tok) <=> tok \in w.seen
  <2>1. OneMore(docs, w, w2, tok, n)
    BY <1>1, <1>2, <1>5 DEF OneMore
  <2>2. QED
    BY <2>1, OneMoreTaken
<1>7. /\ docs \in Seq(Text)
      /\ \A i \in 1 .. Len(w.corpus) : w.corpus[i] = docs[n + i]
      /\ w.words = IF n = 0 THEN <<>> ELSE Words(o, docs[n])
      /\ w.nDocs = Cardinality(Filled(o, docs, n))
      /\ DOMAIN w.df = DOMAIN voc
      /\ DOMAIN w.df = Taken(o, docs, w, n)
      /\ \A t \in DOMAIN w.df : w.df[t] = Cardinality(Holding(o, docs, w, t))
  BY DEF Counting, n
<1>8. DOMAIN w2.df = DOMAIN w.df \cup {tok}
  BY DEF CountedIn
<1>9. DOMAIN w2.df = Taken(o, docs, w2, n)
  BY <1>6, <1>7, <1>8
<1>10. ASSUME NEW t
       PROVE  IsFiniteSet(Holding(o, docs, w, t)) /\ Cardinality(Holding(o, docs, w, t)) \in Nat
  <2>1. Holding(o, docs, w, t) \in SUBSET (1 .. n)
    BY <1>5 DEF Holding
  <2>2. QED
    BY <1>2, <2>1, UpToFinite
<1>11. ASSUME NEW t \in DOMAIN w.df \cup {tok}
       PROVE  w2.df[t] = IF t \notin DOMAIN w.df THEN 1
                         ELSE w.df[t] + IF t = tok /\ tok \notin w.seen THEN 1 ELSE 0
  BY DEF CountedIn
<1>12. ASSUME NEW t \in DOMAIN w2.df
       PROVE  w2.df[t] = Cardinality(Holding(o, docs, w2, t))
  <2>1. CASE t # tok
    <3>1. t \in DOMAIN w.df
      BY <1>8, <2>1
    <3>2. w.df[t] = Cardinality(Holding(o, docs, w2, t)) /\ w.df[t] \in Nat
      <4>1. Holding(o, docs, w2, t) = Holding(o, docs, w, t)
        BY <1>6, <2>1
      <4>2. w.df[t] = Cardinality(Holding(o, docs, w, t)) /\ Cardinality(Holding(o, docs, w, t)) \in Nat
        BY <1>7, <1>10, <3>1
      <4>3. QED
        BY <4>1, <4>2
    <3>3. w2.df[t] = w.df[t] + 0
      BY <1>11, <2>1, <3>1
    <3>4. QED
      BY <3>2, <3>3
  <2>2. CASE t = tok
    <3> DEFINE H == Holding(o, docs, w, tok)
    <3>1. Cardinality(H \cup {n}) = IF n \in H THEN Cardinality(H) ELSE Cardinality(H) + 1
      BY <1>10, FS_AddElement
    <3>2. Cardinality(H) \in Nat /\ (n \in H <=> tok \in w.seen)
      BY <1>6, <1>10
    <3>3. w2.df[tok] = IF tok \notin DOMAIN w.df THEN 1
                       ELSE w.df[tok] + IF tok \notin w.seen THEN 1 ELSE 0
      BY <1>11
    <3>4. tok \in DOMAIN w.df => w.df[tok] = Cardinality(H)
      BY <1>7
    <3>5. tok \notin DOMAIN w.df => n \notin H /\ Cardinality(H) = 0
      <4>1. ASSUME tok \notin DOMAIN w.df PROVE H = {}
        <5>1. \A d \in 1 .. n : tok \notin TokensOf(o, docs, w, d)
          BY <1>7, <4>1 DEF Taken
        <5>2. QED
          BY <1>5, <5>1 DEF Holding
      <4>2. QED
        BY <4>1, FS_EmptySet
    <3> HIDE DEF H
    <3>6. w2.df[tok] = Cardinality(H \cup {n})
      BY <3>1, <3>2, <3>3, <3>4, <3>5
    <3>7. QED
      BY <1>6, <2>2, <3>6 DEF H
  <2>3. QED
    BY <2>1, <2>2
<1>13. DOMAIN w2.df = DOMAIN voc2
  BY <1>7, <1>8
<1>14. QED
  BY <1>1, <1>2, <1>4, <1>7, <1>9, <1>12, <1>13 DEF Counting

\* Fit at the end of its loop has counted every document.
LEMMA AllCounted ==
  ASSUME NEW o, Usable(o), NEW docs, NEW w, NEW voc, Counting(o, docs, w, voc),
         w.at[1] \in Nat, w.words = <<>> \/ w.at[1] > o.ngrams, w.corpus = <<>>
  PROVE  /\ docs \in Seq(Text) /\ Len(docs) \in Nat
         /\ w.nDocs = Cardinality(Filled(o, docs, Len(docs)))
         /\ DOMAIN voc = Known(o, docs)
         /\ \A tok \in DOMAIN voc : /\ tok \in DOMAIN w.df
                                    /\ w.df[tok] = Cardinality(DocsWith(o, docs, tok))
<1> DEFINE n == Len(docs)
<1>1. docs \in Seq(Text) /\ n \in Nat /\ DOMAIN docs = 1 .. n
  BY LenProperties DEF Counting
<1>2. Begun(docs, w) = n
  <2>1. Len(w.corpus) = 0
    OBVIOUS
  <2>2. QED
    BY <1>1, <2>1 DEF Begun
<1>3. \A d \in 1 .. n : TokensOf(o, docs, w, d) = TokensIn(o, docs[d])
  <2>1. ASSUME NEW d \in 1 .. n PROVE TokensOf(o, docs, w, d) = TokensIn(o, docs[d])
    <3>1. CASE d < n
      BY <1>2, <3>1 DEF TokensOf
    <3>2. CASE ~(d < n)
      <4>1. d = n /\ n # 0
        <5> HIDE DEF n
        <5>1. QED
          BY <1>1, <3>2
      <4>2. w.seen = TokensIn(o, docs[n])
        BY <1>2, <4>1, DocumentTaken
      <4>3. QED
        BY <1>2, <3>2, <4>1, <4>2 DEF TokensOf
    <3>3. QED
      BY <3>1, <3>2
  <2>2. QED
    BY <2>1
<1> HIDE DEF n
<1>4. /\ w.nDocs = Cardinality(Filled(o, docs, n))
      /\ DOMAIN w.df = DOMAIN voc
      /\ DOMAIN w.df = Taken(o, docs, w, n)
      /\ \A t \in DOMAIN w.df : w.df[t] = Cardinality(Holding(o, docs, w, t))
  BY <1>2 DEF Counting
<1>5. Taken(o, docs, w, n) = Known(o, docs)
  BY <1>1, <1>3 DEF Known, Taken
<1>6. ASSUME NEW t PROVE Holding(o, docs, w, t) = DocsWith(o, docs, t)
  <2>1. Holding(o, docs, w, t) = {d \in 1 .. n : t \in TokensOf(o, docs, w, d)}
    BY <1>2 DEF Holding
  <2>2. DocsWith(o, docs, t) = {d \in 1 .. n : t \in TokensIn(o, docs[d])}
    BY <1>1 DEF DocsWith
  <2>3. QED
    BY <1>3, <2>1, <2>2
<1>7. QED
  BY <1>1, <1>4, <1>5, <1>6 DEF n

\* The weights that Fit makes.
WeightsFrom(o, w, toks) ==
  IF o.tfidf /\ w.nDocs > 0
  THEN [i \in 1 .. Len(toks) |-> <<1 + w.nDocs, 1 + w.df[toks[i]]>>]
  ELSE <<>>

\* They are those of its documents.
LEMMA FitWeighs ==
  ASSUME NEW o, Usable(o), NEW docs, docs # Nil, NEW w, NEW voc, Counting(o, docs, w, voc),
         w.at[1] \in Nat, w.words = <<>> \/ w.at[1] > o.ngrams, w.corpus = <<>>,
         NEW toks \in Seq(Token), DOMAIN voc = {toks[i] : i \in 1 .. Len(toks)},
         NEW weights, weights = WeightsFrom(o, w, toks)
  PROVE  Weighted(o, docs, toks, weights) /\ weights \in Seq(Nat \X Nat)
<1> DEFINE filled == Filled(o, docs, Len(docs))
           l == Len(toks)
<1>1. /\ docs \in Seq(Text) /\ Len(docs) \in Nat
      /\ w.nDocs = Cardinality(filled)
      /\ DOMAIN voc = Known(o, docs)
      /\ \A tok \in DOMAIN voc : w.df[tok] = Cardinality(DocsWith(o, docs, tok))
  BY AllCounted
<1>2. l \in Nat /\ DOMAIN docs = 1 .. Len(docs)
  BY <1>1, LenProperties
<1>3. filled \in SUBSET (1 .. Len(docs)) /\ IsFiniteSet(filled) /\ Cardinality(filled) \in Nat
  <2>1. filled \in SUBSET (1 .. Len(docs))
    BY DEF Filled
  <2>2. QED
    BY <1>1, <2>1, UpToFinite
<1> HIDE DEF filled, l
<1>4. CASE o.tfidf /\ w.nDocs > 0
  <2> DEFINE weight(i) == <<1 + w.nDocs, 1 + w.df[toks[i]]>>
  <2>1. weights = [i \in 1 .. l |-> weight(i)]
    BY <1>4 DEF l, WeightsFrom
  <2>2. ASSUME NEW i \in 1 .. l
        PROVE  /\ weight(i) = <<1 + Cardinality(filled), 1 + Cardinality(DocsWith(o, docs, toks[i]))>>
               /\ weight(i) \in Nat \X Nat
    <3>1. toks[i] \in DOMAIN voc
      BY DEF l
    <3>2. DocsWith(o, docs, toks[i]) \in SUBSET (1 .. Len(docs))
      BY <1>2 DEF DocsWith
    <3>3. Cardinality(DocsWith(o, docs, toks[i])) \in Nat
      BY <1>1, <3>2, UpToFinite
    <3>4. weight(i) = <<1 + Cardinality(filled), 1 + Cardinality(DocsWith(o, docs, toks[i]))>>
      BY <1>1, <3>1
    <3> HIDE DEF weight
    <3>5. QED
      BY <1>3, <3>3, <3>4
  <2> HIDE DEF weight
  <2>3. weights \in Seq(Nat \X Nat) /\ Len(weights) = l /\ \A i \in 1 .. l : weights[i] = weight(i)
    <3>1. [i \in 1 .. l |-> weight(i)] \in Seq(Nat \X Nat) /\ Len([i \in 1 .. l |-> weight(i)]) = l
      BY <1>2, <2>2
    <3>2. QED
      BY <2>1, <3>1
  <2>4. {toks[i] : i \in 1 .. Len(weights)} = Known(o, docs)
    BY <1>1, <2>3 DEF l
  <2>5. Len(weights) \in 0 .. Len(toks)
    BY <1>2, <2>3 DEF l
  <2>6. \A i \in 1 .. Len(weights) :
          weights[i] = <<1 + Cardinality(filled), 1 + Cardinality(DocsWith(o, docs, toks[i]))>>
    BY <2>2, <2>3
  <2>7. Weighted(o, docs, toks, weights)
    BY <1>1, <1>4, <2>4, <2>5, <2>6 DEF Weighted, filled
  <2>8. QED
    BY <2>3, <2>7
<1>5. CASE ~(o.tfidf /\ w.nDocs > 0)
  <2>1. weights = <<>>
    BY <1>5 DEF WeightsFrom
  <2>2. weights \in Seq(Nat \X Nat) /\ Len(weights) = 0 /\ 1 .. Len(weights) = {}
    BY <2>1
  <2>3. Len(weights) \in 0 .. Len(toks)
    BY <1>2, <2>2 DEF l
  <2>4. ASSUME o.tfidf PROVE Known(o, docs) = {}
    <3>1. Cardinality(filled) = 0
      BY <1>1, <1>3, <1>5, <2>4
    <3>2. filled = {}
      BY <1>3, <3>1, FS_EmptySet
    <3>3. QED
      BY <1>2, <3>2 DEF filled, Filled, Known
  <2>5. o.tfidf => {toks[i] : i \in 1 .. Len(weights)} = Known(o, docs)
    BY <2>2, <2>4
  <2>6. Weighted(o, docs, toks, weights)
    BY <1>1, <2>1, <2>2, <2>3, <2>5 DEF Weighted
  <2>7. QED
    BY <2>2, <2>6
<1>6. QED
  BY <1>4, <1>5

\* A token more changes no weight.
LEMMA WeightedStays ==
  ASSUME NEW o, NEW docs, NEW toks \in Seq(Token), NEW weights,
         docs # Nil, Weighted(o, docs, toks, weights), NEW tok, NEW toks2,
         toks2 = toks \/ (tok \in Token /\ toks2 = Append(toks, tok))
  PROVE  Weighted(o, docs, toks2, weights)
<1>1. CASE toks2 = toks
  BY <1>1
<1>2. CASE tok \in Token /\ toks2 = Append(toks, tok)
  <2> DEFINE l == Len(toks)
             k == Len(weights)
  <2>1. l \in Nat /\ Len(toks2) = l + 1 /\ \A i \in 1 .. l : toks2[i] = toks[i]
    BY <1>2, LenProperties, AppendProperties
  <2>2. /\ docs \in Seq(Text)
        /\ k \in 0 .. l
        /\ o.tfidf => {toks[i] : i \in 1 .. k} = Known(o, docs)
        /\ ~o.tfidf => weights = <<>>
        /\ \A i \in 1 .. k :
             weights[i] = <<1 + Cardinality(Filled(o, docs, Len(docs))),
                            1 + Cardinality(DocsWith(o, docs, toks[i]))>>
    BY DEF Weighted
  <2> HIDE DEF l, k
  <2>3. \A i \in 1 .. k : toks2[i] = toks[i]
    BY <2>1, <2>2
  <2>4. {toks2[i] : i \in 1 .. k} = {toks[i] : i \in 1 .. k}
    BY <2>3
  <2>5. k \in 0 .. Len(toks2)
    BY <2>1, <2>2
  <2>6. QED
    BY <2>2, <2>3, <2>4, <2>5 DEF Weighted, k
<1>3. QED
  BY <1>1, <1>2

\* The weights of the tokens of the documents, and of no others.
LEMMA WeightsCover ==
  ASSUME NEW o, o.tfidf, NEW docs, docs # Nil, NEW toks \in Seq(Token), NEW weights,
         Weighted(o, docs, toks, weights), NEW voc, NEW stream, Learned(voc, toks, stream)
  PROVE  /\ Cardinality(Known(o, docs)) = Len(weights)
         /\ \A i \in Len(weights) + 1 .. Len(toks) : toks[i] \notin Known(o, docs)
<1> DEFINE l == Len(toks)
           k == Len(weights)
<1>1. l \in Nat /\ k \in 0 .. l /\ {toks[i] : i \in 1 .. k} = Known(o, docs)
  BY LenProperties DEF Weighted
<1>2. \A i \in 1 .. l : voc[toks[i]] = i - 1
  BY DEF Learned
<1> HIDE DEF l, k
<1>3. \A i \in 1 .. l, j \in 1 .. l : toks[i] = toks[j] => i = j
  <2>1. ASSUME NEW i \in 1 .. l, NEW j \in 1 .. l, toks[i] = toks[j] PROVE i = j
    <3>1. voc[toks[i]] = i - 1 /\ voc[toks[j]] = j - 1
      BY <1>2
    <3>2. i - 1 = j - 1
      BY <2>1, <3>1
    <3>3. QED
      BY <1>1, <3>2
  <2>2. QED
    BY <2>1
<1>4. \A i \in 1 .. k : i \in 1 .. l
  BY <1>1
<1>5. Cardinality(Known(o, docs)) = k
  <2> DEFINE f == [i \in 1 .. k |-> toks[i]]
  <2>1. f \in Bijection(1 .. k, Known(o, docs))
    <3>1. f \in [1 .. k -> Known(o, docs)]
      BY <1>1
    <3>2. \A i \in 1 .. k, j \in 1 .. k : f[i] = f[j] => i = j
      BY <1>3, <1>4
    <3>3. \A t \in Known(o, docs) : \E i \in 1 .. k : f[i] = t
      BY <1>1
    <3> HIDE DEF f
    <3>4. QED
      BY <3>1, <3>2, <3>3 DEF Bijection, Injection, Surjection, IsInjective
  <2>2. ExistsBijection(1 .. k, Known(o, docs))
    BY <2>1 DEF ExistsBijection
  <2>3. k \in Nat
    BY <1>1
  <2>4. QED
    BY <2>2, <2>3, FS_CountingElements
<1>6. ASSUME NEW i \in k + 1 .. l, toks[i] \in Known(o, docs) PROVE FALSE
  <2>1. PICK j \in 1 .. k : toks[j] = toks[i]
    BY <1>1, <1>6
  <2>2. i \in 1 .. l /\ j # i
    BY <1>1
  <2>3. QED
    BY <1>3, <1>4, <2>1, <2>2
<1>7. QED
  BY <1>5, <1>6 DEF l, k

\* The rows of an embedder at rest.
LEMMA RestRows ==
  ASSUME NEW o, Usable(o), NEW voc, NEW toks, NEW rows, NEW stream, NEW docs,
         AtRest(o, voc, toks, rows, stream, docs)
  PROVE  rows \in Seq(Row)
<1>1. toks \in Seq(Token) /\ Len(toks) \in Nat
  BY LenProperties DEF AtRest
<1>2. CASE docs = Nil
  BY <1>2 DEF AtRest
<1>3. CASE docs # Nil
  <2>1. /\ Drawn(o, "vocab", 0, Len(toks)) \in Seq(Row)
        /\ HashRows(o) \in Seq(Row)
    BY <1>1, RowsSeq
  <2>2. ProjectionOf(o, Len(toks)) \in Seq(Row)
    BY <2>1, ConcatProperties DEF ProjectionOf
  <2>3. QED
    BY <1>3, <2>2 DEF AtRest
<1>4. QED
  BY <1>2, <1>3

LEMMA FileWeightsStay ==
  ASSUME WeightsOK, UNCHANGED <<file, saved>>
  PROVE  /\ Saved' => Weighted(saved'.past.made, saved'.past.fitted, file'.tokens, file'.idf)
         /\ Saved' => file'.idf \in Seq(Nat \X Nat)
  BY DEF WeightsOK, Saved

\* A step that leaves the embedder at rest.
LEMMA RestWeights ==
  ASSUME IInv', Idle', Weighted(made', fitted', tokens', idf'), idf' \in Seq(Nat \X Nat),
         Saved' => Weighted(saved'.past.made, saved'.past.fitted, file'.tokens, file'.idf),
         Saved' => file'.idf \in Seq(Nat \X Nat)
  PROVE  WeightsOK'
<1>1. Usable(made') /\ AtRest(made', vocab', tokens', proj', given', fitted')
  BY DEF IInv, WorkOK
<1>2. proj' \in Seq(Row)
  BY <1>1, RestRows
<1>3. work'.call = "none"
  BY DEF Idle
<1>4. QED
  BY <1>2, <1>3 DEF WeightsOK

\* A step inside a call, which has neither rows nor weights yet.
LEMMA InsideWeights ==
  ASSUME WeightsOK, UNCHANGED <<proj, idf, file, saved>>,
         work'.call = "Fit" => Counting(made', fitted', work', vocab'),
         work'.call # "Fit" => Weighted(made', fitted', tokens', idf)
  PROVE  WeightsOK'
<1>1. proj \in Seq(Row) /\ idf \in Seq(Nat \X Nat)
  BY DEF WeightsOK
<1>2. QED
  BY <1>1, FileWeightsStay DEF WeightsOK

LEMMA NoWeights ==
  ASSUME NEW o, NEW toks \in Seq(Token), NEW docs, docs = Nil \/ docs = <<>>
  PROVE  Weighted(o, docs, toks, <<>>) /\ <<>> \in Seq(Nat \X Nat)
<1>1. Len(toks) \in Nat /\ 1 .. Len(<<>>) = {} /\ Len(<<>>) = 0
  BY LenProperties
<1>2. CASE docs = Nil
  BY <1>2, CorpusAssumption DEF Weighted
<1>3. CASE docs = <<>>
  <2>1. Known(o, docs) = {}
    BY <1>3 DEF Known
  <2>2. docs \in Seq(Text) /\ docs # Nil
    BY <1>3, CorpusAssumption
  <2>3. Len(<<>>) \in 0 .. Len(toks)
    BY <1>1
  <2>4. QED
    BY <1>1, <2>1, <2>2, <2>3 DEF Weighted
<1>4. QED
  BY <1>2, <1>3

LEMMA InitWeights == Init => WeightsOK
<1> SUFFICES ASSUME Init PROVE WeightsOK
  OBVIOUS
<1>1. /\ tokens = <<>> /\ proj = <<>> /\ idf = <<>> /\ fitted = Nil /\ work.call = "none"
      /\ file = Nil
  BY DEF Init, Fresh, NoWork
<1>2. Weighted(made, fitted, tokens, idf) /\ idf \in Seq(Nat \X Nat)
  <2>1. <<>> \in Seq(Token)
    OBVIOUS
  <2>2. QED
    BY <1>1, <2>1, NoWeights
<1>3. QED
  BY <1>1, <1>2 DEF WeightsOK, Saved

LEMMA BeginFitWeights ==
  ASSUME IInv, WeightsOK, BeginFit
  PROVE  WeightsOK'
<1>1. PICK corpus \in Corpus :
        /\ work' = [NoWork EXCEPT !.call = "Fit", !.corpus = corpus, !.start = 0]
        /\ fitted' = corpus
  BY DEF BeginFit, Begin
<1>2. vocab' = <<>> /\ UNCHANGED <<proj, idf, file, made, saved>>
  BY DEF BeginFit
<1>3. PICK w : w = work'
  OBVIOUS
<1>4. w = [call |-> "Fit", start |-> 0, corpus |-> corpus, words |-> <<>>, at |-> <<1, 1>>,
           seen |-> {}, nDocs |-> 0, df |-> <<>>]
  BY <1>1, <1>3 DEF NoWork
<1>5. corpus \in Seq(Text) /\ Len(corpus) \in Nat
  BY CorpusAssumption, LenProperties
<1>6. w.corpus = corpus /\ w.words = <<>> /\ w.seen = {} /\ w.nDocs = 0 /\ w.df = <<>>
  BY <1>4
<1>7. Begun(corpus, w) = 0
  BY <1>5, <1>6 DEF Begun
<1>8. ASSUME NEW o
      PROVE  Counting(o, corpus, w, <<>>)
  <2>1. Grams(o, w.words) = {}
    <3>1. 1 .. Len(w.words) = {}
      BY <1>6
    <3>2. QED
      BY <3>1 DEF Grams
  <2>2. w.seen = TokensPassed(o, w)
    BY <1>6, <2>1 DEF TokensPassed, Passed
  <2>3. 1 .. 0 = {}
    OBVIOUS
  <2>4. w.nDocs = Cardinality(Filled(o, corpus, 0))
    BY <1>6, <2>3, FS_EmptySet DEF Filled
  <2>5. DOMAIN w.df = {} /\ Taken(o, corpus, w, 0) = {}
    BY <1>6, <2>3 DEF Taken
  <2>6. \A i \in 1 .. Len(w.corpus) : w.corpus[i] = corpus[0 + i]
    BY <1>5, <1>6
  <2>7. DOMAIN w.df = DOMAIN <<>>
    BY <1>6
  <2>8. QED
    BY <1>5, <1>6, <1>7, <2>2, <2>4, <2>5, <2>6, <2>7 DEF Counting
<1>9. Counting(made', fitted', work', vocab')
  BY <1>1, <1>2, <1>3, <1>8
<1>10. work'.call = "Fit"
  BY <1>3, <1>4
<1>11. QED
  BY <1>2, <1>9, <1>10, InsideWeights

LEMMA BeginFitMoreWeights ==
  ASSUME IInv, WeightsOK, BeginFitMore
  PROVE  WeightsOK'
<1>1. /\ Idle /\ work'.call = "FitMore"
      /\ UNCHANGED <<tokens, proj, idf, file, made, saved>>
      /\ fitted' = IF fitted = Nil THEN <<>> ELSE fitted
  BY DEF BeginFitMore, Begin, NoWork, learned
<1>2. Weighted(made, fitted, tokens, idf) /\ tokens \in Seq(Token)
  BY <1>1 DEF WeightsOK, Idle, IInv, WorkOK
<1>3. Weighted(made, fitted', tokens, idf)
  <2>1. CASE fitted = Nil
    <3>1. idf = <<>>
      BY <1>2, <2>1 DEF Weighted
    <3>2. QED
      BY <1>1, <1>2, <2>1, <3>1, NoWeights
  <2>2. CASE fitted # Nil
    BY <1>1, <1>2, <2>2
  <2>3. QED
    BY <2>1, <2>2
<1>4. Weighted(made', fitted', tokens', idf)
  BY <1>1, <1>3
<1>5. QED
  BY <1>1, <1>4, InsideWeights

LEMMA NextDocWeights ==
  ASSUME IInv, WeightsOK, NextDoc
  PROVE  WeightsOK'
<1> DEFINE words == Words(opts, Head(work.corpus))
<1>1. /\ ~Idle /\ (work.words = <<>> \/ DocDone) /\ work.corpus # <<>>
      /\ work' = [work EXCEPT !.corpus = Tail(@), !.words = words, !.at = <<1, 1>>,
                              !.seen = {}, !.nDocs = IF words = <<>> THEN @ ELSE @ + 1]
      /\ UNCHANGED <<opts, learned, file, history, saved>>
  BY DEF NextDoc
<1>2. UNCHANGED <<vocab, tokens, proj, idf, file, saved, made, fitted>>
  BY <1>1 DEF learned, history
<1>3. WorkType /\ opts = made /\ Usable(made)
  BY DEF IInv
<1>4. PICK w : w = work'
  OBVIOUS
<1>5. w = [call |-> work.call, start |-> work.start, corpus |-> Tail(work.corpus),
           words |-> words, at |-> <<1, 1>>, seen |-> {},
           nDocs |-> IF words = <<>> THEN work.nDocs ELSE work.nDocs + 1, df |-> work.df]
  BY <1>1, <1>3, <1>4 DEF WorkType
<1>6. /\ w.call = work.call
      /\ w.corpus = Tail(work.corpus) /\ w.words = Words(made, Head(work.corpus))
      /\ w.at = <<1, 1>> /\ w.seen = {}
      /\ w.nDocs = IF w.words = <<>> THEN work.nDocs ELSE work.nDocs + 1
      /\ w.df = work.df
  BY <1>3, <1>5
<1>7. ASSUME work.call = "Fit"
      PROVE  Counting(made, fitted, w, vocab)
  <2>1. Counting(made, fitted, work, vocab)
    BY <1>7 DEF WeightsOK
  <2>2. work.corpus \in Seq(Text) /\ work.at[1] \in Nat
    BY <1>3 DEF WorkType
  <2>3. work.words = <<>> \/ work.at[1] > made.ngrams
    BY <1>1, <1>3 DEF DocDone
  <2> HIDE DEF words
  <2>4. QED
    BY <1>1, <1>3, <1>6, <2>1, <2>2, <2>3, NextDocCounts
<1>8. work.call # "Fit" => Weighted(made, fitted, tokens, idf)
  BY DEF WeightsOK
<1>9. work'.call = work.call
  BY <1>4, <1>6
<1>10. QED
  BY <1>2, <1>4, <1>7, <1>8, <1>9, InsideWeights

LEMMA NextGramWeights ==
  ASSUME IInv, WeightsOK, NextGram
  PROVE  WeightsOK'
<1> DEFINE a == work.at[1]
           b == work.at[2]
<1>1. /\ ~Idle /\ b + a - 1 > Len(work.words)
      /\ work' = [work EXCEPT !.at = <<@[1] + 1, 1>>]
      /\ UNCHANGED <<opts, learned, file, history, saved>>
  BY DEF NextGram
<1>2. UNCHANGED <<vocab, tokens, proj, idf, file, saved, made, fitted>>
  BY <1>1 DEF learned, history
<1>3. WorkType /\ opts = made /\ Usable(made)
  BY DEF IInv
<1>4. PICK w : w = work'
  OBVIOUS
<1>5. w = [call |-> work.call, start |-> work.start, corpus |-> work.corpus,
           words |-> work.words, at |-> <<work.at[1] + 1, 1>>, seen |-> work.seen,
           nDocs |-> work.nDocs, df |-> work.df]
  BY <1>1, <1>3, <1>4 DEF WorkType
<1>6. /\ w.call = work.call
      /\ w.corpus = work.corpus /\ w.words = work.words /\ w.at = <<a + 1, 1>>
      /\ w.seen = work.seen /\ w.nDocs = work.nDocs /\ w.df = work.df
  BY <1>5
<1>7. ASSUME work.call = "Fit"
      PROVE  Counting(made, fitted, w, vocab)
  <2>1. Counting(made, fitted, work, vocab)
    BY <1>7 DEF WeightsOK
  <2>2. a \in Nat \ {0} /\ b \in Nat \ {0} /\ work.at = <<a, b>> /\ work.words \in Seq(Word)
    BY <1>3 DEF WorkType
  <2>3. made.ngrams \in Nat
    <3>1. made.ngrams \in 0 .. MaxGram
      BY <1>3 DEF Usable, OptionType
    <3>2. QED
      BY <3>1
  <2> HIDE DEF a, b
  <2>4. QED
    BY <1>1, <1>6, <2>1, <2>2, <2>3, NextGramCounts
<1>8. work.call # "Fit" => Weighted(made, fitted, tokens, idf)
  BY DEF WeightsOK
<1>9. work'.call = work.call
  BY <1>4, <1>6
<1>10. QED
  BY <1>2, <1>4, <1>7, <1>8, <1>9, InsideWeights

LEMMA TakeTokenWeights ==
  ASSUME IInv, WeightsOK, TakeToken
  PROVE  WeightsOK'
<1> DEFINE a == work.at[1]
           b == work.at[2]
           new == TokenAt(work.words, work.at)
<1>1. /\ ~Idle /\ work.words # <<>> /\ ~DocDone /\ b + a - 1 <= Len(work.words)
      /\ vocab' = IF new \in DOMAIN vocab THEN vocab
                  ELSE [t \in DOMAIN vocab \cup {new} |-> IF t = new THEN Len(tokens) ELSE vocab[t]]
      /\ tokens' = IF new \in DOMAIN vocab THEN tokens ELSE Append(tokens, new)
      /\ work' = IF work.call = "FitMore" THEN [work EXCEPT !.at[2] = @ + 1]
                 ELSE [work EXCEPT !.at[2] = @ + 1, !.df = Counted(new), !.seen = @ \cup {new}]
      /\ UNCHANGED <<opts, proj, idf, file, made, fitted, began, saved>>
  BY DEF TakeToken
<1>2. /\ WorkType /\ opts = made /\ Usable(made) /\ tokens \in Seq(Token)
      /\ work.call \in {"Fit", "FitMore"}
  BY <1>1 DEF IInv, WorkOK, WorkType, Idle
<1>3. a \in Nat \ {0} /\ b \in Nat \ {0} /\ work.at = <<a, b>> /\ work.words \in Seq(Word)
  BY <1>2 DEF WorkType
<1>4. made.ngrams \in Nat /\ a <= made.ngrams
  <2>1. made.ngrams \in 0 .. MaxGram
    BY <1>2 DEF Usable, OptionType
  <2>2. made.ngrams \in Nat
    BY <2>1
  <2>3. ~(a > made.ngrams)
    BY <1>1, <1>2 DEF DocDone
  <2> HIDE DEF a
  <2>4. QED
    BY <1>3, <2>2, <2>3
<1>5. DOMAIN vocab' = DOMAIN vocab \cup {new}
  <2> HIDE DEF new
  <2>1. QED
    BY <1>1
<1>6. new \in Token
  <2> HIDE DEF a, b
  <2>1. TokenAt(work.words, <<a, b>>) \in Token
    BY <1>1, <1>2, <1>3, <1>4, TokenAtType
  <2>2. QED
    BY <1>3, <2>1
<1>7. PICK w : w = work'
  OBVIOUS
<1>8. CASE work.call = "Fit"
  <2>1. w = [call |-> work.call, start |-> work.start, corpus |-> work.corpus,
             words |-> work.words, at |-> [work.at EXCEPT ![2] = @ + 1],
             seen |-> work.seen \cup {new}, nDocs |-> work.nDocs, df |-> Counted(new)]
    <3> HIDE DEF new
    <3>1. QED
      BY <1>1, <1>2, <1>7, <1>8 DEF WorkType
  <2>2. [work.at EXCEPT ![2] = @ + 1] = <<a, b + 1>>
    BY <1>3
  <2>3. Counted(new) = CountedIn(work, new)
    BY DEF Counted, CountedIn
  <2> HIDE DEF new, a, b
  <2>4. /\ w.call = "Fit"
        /\ w.corpus = work.corpus /\ w.words = work.words /\ w.at = <<a, b + 1>>
        /\ w.seen = work.seen \cup {new} /\ w.nDocs = work.nDocs
        /\ w.df = CountedIn(work, new)
    BY <1>8, <2>1, <2>2, <2>3
  <2>5. Counting(made, fitted, work, vocab)
    BY <1>8 DEF WeightsOK
  <2>6. PICK voc2 : voc2 = vocab'
    OBVIOUS
  <2>7. DOMAIN voc2 = DOMAIN vocab \cup {new} /\ new = TokenAt(work.words, work.at)
    BY <1>5, <2>6 DEF new
  <2>8. Counting(made, fitted, w, voc2)
    BY <1>1, <1>3, <1>4, <2>4, <2>5, <2>7, TakeCounts
  <2>9. Counting(made', fitted', work', vocab')
    BY <1>1, <1>7, <2>6, <2>8
  <2>10. work'.call = "Fit"
    BY <1>7, <2>4
  <2>11. QED
    BY <1>1, <2>9, <2>10, InsideWeights
<1>9. CASE work.call = "FitMore"
  <2>1. work'.call = "FitMore"
    BY <1>1, <1>2, <1>9 DEF WorkType
  <2>2. fitted # Nil /\ Weighted(made, fitted, tokens, idf)
    BY <1>9 DEF IInv, WorkOK, WeightsOK
  <2> HIDE DEF new
  <2>3. PICK toks2 : toks2 = tokens'
    OBVIOUS
  <2>4. toks2 = tokens \/ (new \in Token /\ toks2 = Append(tokens, new))
    BY <1>1, <1>6, <2>3
  <2>5. Weighted(made, fitted, toks2, idf)
    BY <1>2, <2>2, <2>4, WeightedStays
  <2>6. Weighted(made', fitted', tokens', idf)
    BY <1>1, <2>3, <2>5
  <2>7. QED
    BY <1>1, <2>1, <2>6, InsideWeights
<1>10. QED
  BY <1>2, <1>8, <1>9

LEMMA EndFitWeights ==
  ASSUME IInv, WeightsOK, EndFit
  PROVE  WeightsOK'
<1>1. /\ LoopDone /\ work.call = "Fit" /\ work' = NoWork
      /\ UNCHANGED <<tokens, made, fitted, file, saved>>
      /\ idf' = IF opts.tfidf /\ work.nDocs > 0
                THEN [i \in 1 .. Len(tokens) |-> <<1 + work.nDocs, 1 + work.df[tokens[i]]>>]
                ELSE <<>>
  BY DEF EndFit
<1>2. /\ opts = made /\ Usable(made) /\ fitted # Nil /\ WorkType
      /\ tokens \in Seq(Token) /\ Learned(vocab, tokens, given)
  BY <1>1, LoopDoneRest DEF IInv
<1>3. /\ work.at[1] \in Nat /\ work.corpus = <<>>
      /\ work.words = <<>> \/ work.at[1] > made.ngrams
  BY <1>1, <1>2 DEF LoopDone, DocDone, WorkType
<1>4. Counting(made, fitted, work, vocab) /\ DOMAIN vocab = {tokens[i] : i \in 1 .. Len(tokens)}
  BY <1>1, <1>2 DEF WeightsOK, Learned
<1>5. PICK weights : weights = idf'
  OBVIOUS
<1>6. weights = WeightsFrom(made, work, tokens)
  BY <1>1, <1>2, <1>5 DEF WeightsFrom
<1>7. Weighted(made, fitted, tokens, weights) /\ weights \in Seq(Nat \X Nat)
  BY <1>2, <1>3, <1>4, <1>6, FitWeighs
<1>8. Idle'
  BY <1>1 DEF Idle, NoWork
<1>9. QED
  BY <1>1, <1>5, <1>7, <1>8, EndFitIInv, FileWeightsStay, RestWeights

LEMMA EndFitMoreWeights ==
  ASSUME IInv, WeightsOK, EndFitMore
  PROVE  WeightsOK'
<1>1. /\ LoopDone /\ work.call = "FitMore" /\ work' = NoWork
      /\ UNCHANGED <<tokens, idf, made, fitted, file, saved>>
  BY DEF EndFitMore, history
<1>2. Weighted(made, fitted, tokens, idf) /\ idf \in Seq(Nat \X Nat)
  BY <1>1 DEF WeightsOK
<1>3. Weighted(made', fitted', tokens', idf')
  BY <1>1, <1>2
<1>4. Idle'
  BY <1>1 DEF Idle, NoWork
<1>5. QED
  BY <1>1, <1>2, <1>3, <1>4, EndFitMoreIInv, FileWeightsStay, RestWeights

LEMMA SavedWeights ==
  ASSUME IInv, WeightsOK, Save \/ SaveV1
  PROVE  WeightsOK'
<1>1. Idle /\ work' = work /\ UNCHANGED <<tokens, idf, made, fitted>>
  BY DEF Save, SaveV1, learned, history
<1>2. Weighted(made, fitted, tokens, idf) /\ idf \in Seq(Nat \X Nat)
  BY <1>1 DEF WeightsOK, Idle
<1>3. Weighted(made', fitted', tokens', idf') /\ Idle'
  BY <1>1, <1>2 DEF Idle
<1>4. ASSUME Saved'
      PROVE  /\ saved'.past.made = made /\ saved'.past.fitted = fitted
             /\ file'.tokens = tokens /\ file'.idf = idf
  <2>1. CASE Save
    BY <1>4, <2>1 DEF Save, Saved, Persist, Fields, Past
  <2>2. CASE SaveV1
    BY <2>2 DEF SaveV1, Fields, Past
  <2>3. QED
    BY <2>1, <2>2
<1>5. IInv'
  BY SaveIInv, SaveV1IInv
<1>6. QED
  BY <1>1, <1>2, <1>3, <1>4, <1>5, RestWeights

LEMMA LoadWeights ==
  ASSUME IInv, WeightsOK, Load
  PROVE  WeightsOK'
<1>1. /\ Idle /\ Saved /\ work' = work /\ UNCHANGED <<file, saved>>
      /\ tokens' = file.tokens /\ idf' = file.idf
      /\ made' = saved.past.made /\ fitted' = saved.past.fitted
  BY DEF Load, Saved
<1>2. /\ Weighted(saved.past.made, saved.past.fitted, file.tokens, file.idf)
      /\ file.idf \in Seq(Nat \X Nat)
  BY <1>1 DEF WeightsOK
<1>3. Weighted(made', fitted', tokens', idf') /\ idf' \in Seq(Nat \X Nat)
  BY <1>1, <1>2
<1>4. Idle'
  BY <1>1 DEF Idle
<1>5. QED
  BY <1>1, <1>3, <1>4, LoadIInv, FileWeightsStay, RestWeights

LEMMA NewWeights ==
  ASSUME IInv, WeightsOK, New
  PROVE  WeightsOK'
<1>1. /\ tokens' = <<>> /\ idf' = <<>> /\ work' = NoWork /\ fitted' = Nil
      /\ UNCHANGED <<file, saved>>
  BY DEF New
<1>2. <<>> \in Seq(Token)
  OBVIOUS
<1>3. Weighted(made', fitted', tokens', idf') /\ idf' \in Seq(Nat \X Nat)
  BY <1>1, <1>2, NoWeights
<1>4. Idle'
  BY <1>1 DEF Idle, NoWork
<1>5. QED
  BY <1>1, <1>3, <1>4, NewIInv, FileWeightsStay, RestWeights

LEMMA StutterWeights ==
  ASSUME IInv, WeightsOK, UNCHANGED vars
  PROVE  WeightsOK'
<1>1. UNCHANGED <<vocab, tokens, proj, idf, work, file, made, fitted, saved>>
  BY DEF vars, learned, history
<1>2. /\ work.call = "Fit" => Counting(made, fitted, work, vocab)
      /\ work.call # "Fit" => Weighted(made, fitted, tokens, idf)
  BY DEF WeightsOK
<1>3. QED
  BY <1>1, <1>2, InsideWeights

LEMMA NextWeights == IInv /\ WeightsOK /\ [Next]_vars => WeightsOK'
<1> SUFFICES ASSUME IInv, WeightsOK, [Next]_vars PROVE WeightsOK'
  OBVIOUS
<1>1. CASE BeginFit
  BY <1>1, BeginFitWeights
<1>2. CASE BeginFitMore
  BY <1>2, BeginFitMoreWeights
<1>3. CASE NextDoc
  BY <1>3, NextDocWeights
<1>4. CASE NextGram
  BY <1>4, NextGramWeights
<1>5. CASE TakeToken
  BY <1>5, TakeTokenWeights
<1>6. CASE EndFit
  BY <1>6, EndFitWeights
<1>7. CASE EndFitMore
  BY <1>7, EndFitMoreWeights
<1>8. CASE Save \/ SaveV1
  BY <1>8, SavedWeights
<1>9. CASE Load
  BY <1>9, LoadWeights
<1>10. CASE New
  BY <1>10, NewWeights
<1>11. CASE UNCHANGED vars
  BY <1>11, StutterWeights
<1>12. QED
  BY <1>1, <1>2, <1>3, <1>4, <1>5, <1>6, <1>7, <1>8, <1>9, <1>10, <1>11 DEF Next

-----------------------------------------------------------------------------
(* What the invariants say. *)

LEMMA LearnedIsTyped ==
  ASSUME NEW voc, NEW toks \in Seq(Token), NEW stream, Learned(voc, toks, stream),
         NEW rows \in Seq(Row), NEW weights \in Seq(Nat \X Nat)
  PROVE  FieldsTyped(voc, toks, rows, weights)
<1>1. Len(toks) \in Nat
  BY LenProperties
<1>2. ASSUME NEW t \in DOMAIN voc
      PROVE  t \in Token /\ voc[t] \in Nat
  <2>1. PICK i \in 1 .. Len(toks) : t = toks[i]
    BY DEF Learned
  <2>2. toks[i] \in Token
    BY ElementOfSeq
  <2>3. voc[toks[i]] = i - 1
    BY DEF Learned
  <2>4. i - 1 \in Nat
    BY <1>1
  <2>5. QED
    BY <2>1, <2>2, <2>3, <2>4
<1>3. QED
  BY <1>2 DEF FieldsTyped

\* What Fit has counted are numbers, for the tokens it has learned.
LEMMA CountsTyped ==
  ASSUME IInv, WeightsOK, work.call = "Fit"
  PROVE  /\ work.nDocs \in Nat /\ work.seen \subseteq Token
         /\ DOMAIN work.df = DOMAIN vocab /\ \A t \in DOMAIN vocab : work.df[t] \in Nat
<1>1. Counting(made, fitted, work, vocab) /\ Usable(made)
  BY DEF WeightsOK, IInv
<1> DEFINE n == Begun(fitted, work)
<1>2. fitted \in Seq(Text) /\ Len(fitted) \in Nat /\ Len(work.corpus) \in Nat /\ n \in Nat
      /\ n <= Len(fitted)
  <2>1. fitted \in Seq(Text) /\ n \in Nat /\ work.corpus \in Seq(Text)
    BY <1>1 DEF Counting, IInv, WorkType
  <2>2. Len(fitted) \in Nat /\ Len(work.corpus) \in Nat
    BY <2>1, LenProperties
  <2>3. QED
    BY <2>1, <2>2 DEF Begun
<1>3. work.nDocs \in Nat
  <2>1. Filled(made, fitted, n) \in SUBSET (1 .. n)
    BY DEF Filled
  <2> HIDE DEF n
  <2>2. Cardinality(Filled(made, fitted, n)) \in Nat
    BY <1>2, <2>1, UpToFinite
  <2>3. QED
    BY <1>1, <2>2 DEF Counting, n
<1>4. ASSUME NEW t \in DOMAIN vocab PROVE t \in DOMAIN work.df /\ work.df[t] \in Nat
  <2>1. Holding(made, fitted, work, t) \in SUBSET (1 .. n)
    BY DEF Holding
  <2> HIDE DEF n
  <2>2. Cardinality(Holding(made, fitted, work, t)) \in Nat
    BY <1>2, <2>1, UpToFinite
  <2>3. QED
    BY <1>1, <2>2 DEF Counting
<1>5. work.seen \subseteq Token
  <2> SUFFICES ASSUME NEW p \in Passed(made, work) PROVE TokenAt(work.words, p) \in Token
    BY <1>1 DEF Counting, TokensPassed
  <2>1. p \in Grams(made, work.words)
    BY DEF Passed
  <2>2. CASE n = 0
    <3>1. work.words = <<>> /\ Len(<<>>) = 0
      BY <1>1, <2>2 DEF Counting
    <3>2. QED
      BY <2>1, <3>1 DEF Grams
  <2>3. CASE n # 0
    <3>1. work.words = Words(made, fitted[n])
      BY <1>1, <2>3 DEF Counting
    <3>2. fitted[n] \in Text
      BY <1>2, <2>3, ElementOfSeq
    <3>3. QED
      BY <1>1, <2>1, <3>1, <3>2, TokensAre
  <2>4. QED
    BY <2>2, <2>3
<1>6. QED
  BY <1>1, <1>3, <1>4, <1>5 DEF Counting

LEMMA Typed ==
  ASSUME IInv, WeightsOK
  PROVE  TypeOK
<1>1. opts \in UsableOptions /\ given \in Seq(Token)
  BY DEF IInv, WorkOK, Usable, UsableOptions
<1>2. FieldsTyped(vocab, tokens, proj, idf)
  BY LearnedIsTyped DEF IInv, WorkOK, WeightsOK
<1>3. /\ work.call \in {"none", "Fit", "FitMore"}
      /\ work.corpus \in Seq(Text) /\ work.words \in Seq(Word)
      /\ work.at \in (Nat \ {0}) \X (Nat \ {0})
      /\ work.call = "FitMore" => work.start \in 0 .. Len(tokens)
  BY DEF IInv, WorkType, WorkOK
<1>4. ASSUME Saved
      PROVE  /\ Restored(file.opts) \in UsableOptions
             /\ FieldsTyped(file.vocab, file.tokens, file.proj, file.idf)
  <2>1. /\ Usable(saved.past.made) /\ Restored(file.opts) = saved.past.made
        /\ AtRest(saved.past.made, file.vocab, file.tokens, file.proj,
                  saved.past.given, saved.past.fitted)
    BY <1>4 DEF IInv, FileOK
  <2>2. file.proj \in Seq(Row)
    BY <2>1, RestRows
  <2>3. file.idf \in Seq(Nat \X Nat)
    BY <1>4 DEF WeightsOK
  <2>4. file.tokens \in Seq(Token) /\ Learned(file.vocab, file.tokens, saved.past.given)
    BY <2>1 DEF AtRest
  <2>5. QED
    BY <2>1, <2>2, <2>3, <2>4, LearnedIsTyped DEF Usable, UsableOptions
<1>5. QED
  BY <1>1, <1>2, <1>3, <1>4, CountsTyped DEF TypeOK, Saved

LEMMA WeightsAreOfLastFit ==
  ASSUME IInv, WeightsOK
  PROVE  WeightsOfLastFit
<1> SUFFICES ASSUME Idle, fitted # Nil
             PROVE  /\ Len(idf) = IF made.tfidf THEN Cardinality(Known(made, fitted)) ELSE 0
                    /\ \A i \in 1 .. Len(idf) :
                         /\ tokens[i] \in Known(made, fitted)
                         /\ idf[i] = <<1 + Cardinality({d \in DOMAIN fitted :
                                                          TokensIn(made, fitted[d]) # {}}),
                                       1 + Cardinality(DocsWith(made, fitted, tokens[i]))>>
  BY DEF WeightsOfLastFit, Known
<1>1. /\ tokens \in Seq(Token) /\ Learned(vocab, tokens, given)
      /\ Weighted(made, fitted, tokens, idf)
  BY DEF IInv, WorkOK, WeightsOK, Idle
<1>2. /\ fitted \in Seq(Text)
      /\ made.tfidf => {tokens[i] : i \in 1 .. Len(idf)} = Known(made, fitted)
      /\ ~made.tfidf => idf = <<>>
      /\ \A i \in 1 .. Len(idf) :
           idf[i] = <<1 + Cardinality(Filled(made, fitted, Len(fitted))),
                      1 + Cardinality(DocsWith(made, fitted, tokens[i]))>>
  BY <1>1 DEF Weighted
<1>3. Filled(made, fitted, Len(fitted)) = {d \in DOMAIN fitted : TokensIn(made, fitted[d]) # {}}
  <2>1. DOMAIN fitted = 1 .. Len(fitted)
    BY <1>2, LenProperties
  <2>2. QED
    BY <2>1 DEF Filled
<1>4. CASE made.tfidf
  <2>1. Cardinality(Known(made, fitted)) = Len(idf)
    BY <1>1, <1>4, WeightsCover
  <2>2. QED
    BY <1>2, <1>3, <1>4, <2>1
<1>5. CASE ~made.tfidf
  <2>1. idf = <<>> /\ Len(idf) = 0 /\ 1 .. Len(idf) = {}
    BY <1>2, <1>5
  <2>2. QED
    BY <1>5, <2>1
<1>6. QED
  BY <1>4, <1>5

LEMMA RefusedForAReason ==
  ASSUME IInv, WeightsOK
  PROVE  RefusedOnlyAfterFitMore
<1> SUFFICES ASSUME Saved, ~Accepted(file)
             PROVE  /\ saved.past.made.tfidf
                    /\ \E i \in 1 .. Len(file.tokens) :
                         DocsWith(saved.past.made, saved.past.fitted, file.tokens[i]) = {}
  BY DEF RefusedOnlyAfterFitMore
<1>1. PICK o, docs, toks, weights, voc, stream, rows :
        /\ o = saved.past.made /\ docs = saved.past.fitted /\ toks = file.tokens
        /\ weights = file.idf /\ voc = file.vocab /\ stream = saved.past.given /\ rows = file.proj
  OBVIOUS
<1>2. /\ Weighted(o, docs, toks, weights)
      /\ toks \in Seq(Token) /\ Learned(voc, toks, stream)
  BY <1>1 DEF IInv, FileOK, WeightsOK, AtRest
<1>3. Len(weights) # 0 /\ Len(weights) # Len(toks)
  BY <1>1 DEF Accepted
<1>4. docs # Nil /\ o.tfidf
  <2>1. weights # <<>>
    BY <1>3
  <2>2. QED
    BY <1>2, <2>1 DEF Weighted
<1>5. docs \in Seq(Text) /\ Len(weights) \in 0 .. Len(toks) /\ Len(toks) \in Nat
  BY <1>2, <1>4, LenProperties DEF Weighted
<1>6. PICK i \in Len(weights) + 1 .. Len(toks) : TRUE
  <2>1. Len(toks) \in Len(weights) + 1 .. Len(toks)
    BY <1>3, <1>5
  <2>2. QED
    BY <2>1
<1>7. toks[i] \notin Known(o, docs)
  BY <1>2, <1>4, WeightsCover
<1>8. DocsWith(o, docs, toks[i]) = {}
  BY <1>7 DEF DocsWith, Known
<1>9. i \in 1 .. Len(toks)
  BY <1>5
<1>10. QED
  BY <1>1, <1>4, <1>8, <1>9

LEMMA WeighedInv == Spec => [](IInv /\ WeightsOK)
<1>1. Init => IInv /\ WeightsOK
  BY InitIInv, InitWeights
<1>2. IInv /\ WeightsOK /\ [Next]_vars => (IInv /\ WeightsOK)'
  BY NextIInv, NextWeights
<1>3. QED
  BY <1>1, <1>2, PTL DEF Spec

\* The options stay usable, and every field of the embedder, of the call at work
\* and of the file keeps its type, across fits, saves and loads of either file
\* format (rp_persistence.go:70-131).
THEOREM TypeCorrect == Spec => []TypeOK
<1>1. IInv /\ WeightsOK => TypeOK
  BY Typed
<1>2. QED
  BY <1>1, WeighedInv, PTL

\* The weights are those of the documents of the last Fit, whatever FitMores,
\* saves and loads follow it (random_projections.go:49-50, Fit and FitMore).
THEOREM WeightsAreLastFits == Spec => []WeightsOfLastFit
<1>1. IInv /\ WeightsOK => WeightsOfLastFit
  BY WeightsAreOfLastFit
<1>2. QED
  BY <1>1, WeighedInv, PTL

\* A file that LoadEmbedder refuses holds weights older than its vocabulary
\* (validateRPPersist and SaveEmbedder).
THEOREM OnlyFitMoreUnloadable == Spec => []RefusedOnlyAfterFitMore
<1>1. IInv /\ WeightsOK => RefusedOnlyAfterFitMore
  BY RefusedForAReason
<1>2. QED
  BY <1>1, WeighedInv, PTL
=============================================================================
