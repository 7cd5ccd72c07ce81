-------------------------- MODULE RandomProjections --------------------------
(***************************************************************************)
(* pkg/vector/random_projections.go and rp_persistence.go: an embedder     *)
(* that learns its vocabulary from documents (Fit), learns more (FitMore), *)
(* and is saved to a file and loaded again.                                *)
(*                                                                         *)
(* The rows of the projection are pseudo-random; what matters of a row is  *)
(* where in which stream of the generator it was drawn.  A vector is the   *)
(* sum of one row per token of the text, so it is represented by the rows  *)
(* and the weights that are added up.  Indices count from 0, as in the     *)
(* code, positions in sequences from 1.  The loop over the tokens of the   *)
(* documents makes one step per token.                                     *)
(***************************************************************************)
EXTENDS Integers, Sequences, FiniteSets

CONSTANTS
  Word,
  Text,      \* documents, and texts to embed
  MinLen,    \* the values of WithMinTokenLen, and its default
  Tokenize,  \* <<text, min length>> -> its words, as tokenizeMin cuts them
  Hash,      \* token -> hashToken of it
  Options,   \* the options of new embedders
  Corpus,    \* arguments of Fit and FitMore, sequences of texts
  MaxGram,   \* bound: n-grams
  MaxGiven,  \* bound: an embedder given this many tokens is given no more
  Torn, Nil

\* The words of a token are joined by blanks.
Token == UNION {[1 .. n -> Word] : n \in 1 .. MaxGram}

OptionType ==
  [dim : Nat, seed : Int, hasSeed : BOOLEAN, ngrams : 0 .. MaxGram, minLen : {0} \cup MinLen,
   buckets : Nat, tfidf : BOOLEAN]

ASSUME TokenizeAssumption == Tokenize \in [Text \X MinLen -> Seq(Word)]
ASSUME HashAssumption == Hash \in [Token -> Nat]
ASSUME OptionAssumption ==
  /\ MaxGram \in Nat \ {0} /\ MinLen \subseteq Nat \ {0} /\ 2 \in MinLen
  /\ \A o \in Options : o \in OptionType /\ o.hasSeed /\ o.ngrams > 0 /\ o.minLen > 0
ASSUME CorpusAssumption == Corpus \subseteq Seq(Text) /\ Nil \notin Corpus \cup {<<>>}

VARIABLES
  opts,    \* the option fields
  vocab,   \* token -> index
  tokens,  \* its inverse, a sequence
  proj,    \* the rows: one per index, then one per hash bucket
  idf,     \* weight per index, or empty
  work,    \* the call of Fit or FitMore in progress
  file,    \* what SaveEmbedder wrote, Torn when it failed, or Nil
  \* history:
  made,    \* the options this embedder was made with
  given,   \* the tokens of the documents since the last Fit
  fitted,  \* the documents of the last Fit, none if FitMore came first, or Nil
  began,   \* the embeddings when FitMore began, if there was a projection, or Nil
  saved    \* the embedder that file was written from, or Nil

learned == <<vocab, tokens, proj, idf>>
history == <<made, given, fitted, began>>
vars == <<opts, learned, work, file, history, saved>>

-----------------------------------------------------------------------------
(* The random projection. *)

Seed(o) == IF o.hasSeed \/ o.seed # 0 THEN o.seed ELSE 42

\* n rows of a stream, after skip rows of it.
Drawn(o, stream, skip, n) ==
  [i \in 1 .. n |-> [stream |-> stream, seed |-> Seed(o), at |-> skip + i]]

HashRows(o) == Drawn(o, "hash", 0, o.buckets)

Generated(n) ==
  IF opts.dim = 0 THEN proj ELSE Drawn(opts, "vocab", 0, n) \o HashRows(opts)

\* Mutant of Skipped: the generator is not replayed.
SkippedNothing(from) == 0

\* How many rows of the generator extendProjection passes over.
Skipped(from) == from

\* Mutant of OldRows: the stale hash rows stay.
OldRowsAll(from) == proj

OldRows(from) == IF Len(proj) > from THEN SubSeq(proj, 1, from) ELSE proj

Extended(from, n) ==
  IF opts.dim = 0 THEN proj
  ELSE OldRows(from) \o Drawn(opts, "vocab", Skipped(from), n - from) \o HashRows(opts)

-----------------------------------------------------------------------------
(* Embed. *)

Words(o, text) == Tokenize[text, o.minLen]

\* The tokens of a text: the n-gram of p[1] words from word p[2] on, for all p.
Grams(o, words) == {p \in (1 .. o.ngrams) \X (1 .. Len(words)) : p[2] + p[1] - 1 <= Len(words)}
TokenAt(words, p) == SubSeq(words, p[2], p[2] + p[1] - 1)

ProjIndex(tok) ==
  IF tok \in DOMAIN vocab THEN vocab[tok]
  ELSE IF opts.buckets > 0 /\ Len(tokens) < Len(proj) THEN Len(tokens) + (Hash[tok] % opts.buckets)
  ELSE -1

\* A weight is a pair <<a, b>>, for log(a / b) + 1.
One == <<1, 1>>
Weight(i) == IF opts.tfidf /\ i < Len(idf) THEN idf[i + 1] ELSE One

\* What a token contributes to a vector.
Term(tok) ==
  LET i == ProjIndex(tok)
  IN  IF i \in 0 .. Len(proj) - 1 THEN <<proj[i + 1], Weight(i)>> ELSE Nil

Embed(text) ==
  LET words == Words(opts, text)
  IN  [p \in Grams(opts, words) |-> Term(TokenAt(words, p))]

-----------------------------------------------------------------------------
(* Fit and FitMore. *)

NoWork ==
  [call |-> "none", start |-> 0, corpus |-> <<>>, words |-> <<>>, at |-> <<1, 1>>,
   seen |-> {}, nDocs |-> 0, df |-> <<>>]

Idle == work.call = "none"

Begin(call, corpus) ==
  work' = [NoWork EXCEPT !.call = call, !.corpus = corpus,
                         !.start = IF call = "FitMore" THEN Len(tokens) ELSE 0]

BeginFit ==
  /\ Idle
  /\ \E corpus \in Corpus : Begin("Fit", corpus) /\ fitted' = corpus
  /\ vocab' = <<>> /\ tokens' = <<>> /\ given' = <<>>
  /\ UNCHANGED <<opts, proj, idf, file, made, began, saved>>

BeginFitMore ==
  /\ Idle
  /\ Len(given) < MaxGiven
  /\ \E corpus \in Corpus : Begin("FitMore", corpus)
  /\ began' = IF fitted = Nil THEN Nil ELSE [text \in Text |-> Embed(text)]
  /\ fitted' = IF fitted = Nil THEN <<>> ELSE fitted
  /\ UNCHANGED <<opts, learned, file, made, given, saved>>

\* The n-grams of the document in hand are used up.
DocDone == work.at[1] > opts.ngrams

NextDoc ==
  /\ ~Idle /\ (work.words = <<>> \/ DocDone) /\ work.corpus # <<>>
  /\ LET words == Words(opts, Head(work.corpus))
     IN  work' = [work EXCEPT !.corpus = Tail(@), !.words = words, !.at = <<1, 1>>,
                              !.seen = {}, !.nDocs = IF words = <<>> THEN @ ELSE @ + 1]
  /\ UNCHANGED <<opts, learned, file, history, saved>>

NextGram ==
  /\ ~Idle /\ work.words # <<>> /\ ~DocDone
  /\ work.at[2] + work.at[1] - 1 > Len(work.words)
  /\ work' = [work EXCEPT !.at = <<@[1] + 1, 1>>]
  /\ UNCHANGED <<opts, learned, file, history, saved>>

\* Mutant of Counted: every occurrence counts, not every document.
CountedAgain(tok) ==
  [t \in DOMAIN work.df \cup {tok} |->
     IF t \notin DOMAIN work.df THEN 1 ELSE work.df[t] + IF t = tok THEN 1 ELSE 0]

\* The document frequencies after tok occurs in the document in hand.
Counted(tok) ==
  [t \in DOMAIN work.df \cup {tok} |->
     IF t \notin DOMAIN work.df THEN 1
     ELSE work.df[t] + IF t = tok /\ tok \notin work.seen THEN 1 ELSE 0]

TakeToken ==
  /\ ~Idle /\ work.words # <<>> /\ ~DocDone
  /\ work.at[2] + work.at[1] - 1 <= Len(work.words)
  /\ LET tok == TokenAt(work.words, work.at)
     IN  /\ vocab' = IF tok \in DOMAIN vocab THEN vocab
                     ELSE [t \in DOMAIN vocab \cup {tok} |-> IF t = tok THEN Len(tokens) ELSE vocab[t]]
         /\ tokens' = IF tok \in DOMAIN vocab THEN tokens ELSE Append(tokens, tok)
         /\ given' = Append(given, tok)
         /\ work' = IF work.call = "FitMore" THEN [work EXCEPT !.at[2] = @ + 1]
                    ELSE [work EXCEPT !.at[2] = @ + 1, !.df = Counted(tok), !.seen = @ \cup {tok}]
  /\ UNCHANGED <<opts, proj, idf, file, made, fitted, began, saved>>

LoopDone == ~Idle /\ (work.words = <<>> \/ DocDone) /\ work.corpus = <<>>

EndFit ==
  /\ LoopDone /\ work.call = "Fit"
  /\ idf' = IF opts.tfidf /\ work.nDocs > 0
            THEN [i \in 1 .. Len(tokens) |-> <<1 + work.nDocs, 1 + work.df[tokens[i]]>>]
            ELSE <<>>
  /\ proj' = Generated(Len(tokens))
  /\ work' = NoWork
  /\ began' = Nil
  /\ UNCHANGED <<opts, vocab, tokens, file, made, given, fitted, saved>>

EndFitMore ==
  /\ LoopDone /\ work.call = "FitMore"
  /\ proj' = IF work.start = 0 /\ proj = <<>> THEN Generated(Len(tokens))
             ELSE IF work.start = Len(tokens) THEN proj
             ELSE Extended(work.start, Len(tokens))
  /\ work' = NoWork
  /\ UNCHANGED <<opts, vocab, tokens, idf, file, history, saved>>

-----------------------------------------------------------------------------
(* Persistence. *)

Fields == [opts |-> opts, vocab |-> vocab, tokens |-> tokens, proj |-> proj, idf |-> idf]

\* The history of the embedder, beside its fields.
Past == [made |-> made, given |-> given, fitted |-> fitted]

\* Mutant of Persist: the weights are forgotten.
PersistUnweighted == [Fields EXCEPT !.idf = <<>>]

Persist == Fields

\* SaveEmbedder creates the file anew; the encoder may fail half way.
Save ==
  /\ Idle
  /\ \/ file' = Persist /\ saved' = [fields |-> Fields, past |-> Past]
     \/ file' = Torn /\ saved' = Nil
  /\ UNCHANGED <<opts, learned, work, history>>

\* A file of the first format, which has no options: that of an embedder with
\* the defaults.
Default(dim) ==
  [dim |-> dim, seed |-> 42, hasSeed |-> TRUE, ngrams |-> 1, minLen |-> 2, buckets |-> 0,
   tfidf |-> FALSE]
NoOptions(dim) ==
  [dim |-> dim, seed |-> 0, hasSeed |-> FALSE, ngrams |-> 0, minLen |-> 0, buckets |-> 0,
   tfidf |-> FALSE]

SaveV1 ==
  /\ Idle /\ opts = Default(opts.dim)
  /\ file' = [Fields EXCEPT !.opts = NoOptions(opts.dim)]
  /\ saved' = [fields |-> Fields, past |-> Past]
  /\ UNCHANGED <<opts, learned, work, history>>

\* Mutant of Accepted: files without weights are not thought of.
AcceptedWeighted(data) == Len(data.idf) \in {Len(data.tokens), Len(data.proj)}

\* validateRPPersist; the rows themselves are never out of range.
Accepted(data) == Len(data.idf) \in {0, Len(data.tokens), Len(data.proj)}

\* Mutant of Restored: the seed of a file without one stays 0.
RestoredSeedless(o) ==
  [o EXCEPT !.ngrams = IF @ <= 0 THEN 1 ELSE @, !.minLen = IF @ <= 0 THEN 2 ELSE @,
            !.hasSeed = TRUE]

\* Mutant of Restored: the n-grams of a file without any stay 0.
RestoredRaw(o) ==
  LET unseeded == ~o.hasSeed /\ o.seed = 0
  IN  [o EXCEPT !.minLen = IF @ <= 0 THEN 2 ELSE @, !.seed = IF unseeded THEN 42 ELSE @,
                !.hasSeed = unseeded \/ @]

\* The options of a loaded embedder.
Restored(o) ==
  LET unseeded == ~o.hasSeed /\ o.seed = 0
  IN  [o EXCEPT !.ngrams = IF @ <= 0 THEN 1 ELSE @,
                !.minLen = IF @ <= 0 THEN 2 ELSE @,
                !.seed = IF unseeded THEN 42 ELSE @,
                !.hasSeed = unseeded \/ @]

\* The program goes on with the embedder it loaded.
Load ==
  /\ Idle /\ file \notin {Nil, Torn} /\ Accepted(file)
  /\ opts' = Restored(file.opts)
  /\ vocab' = file.vocab /\ tokens' = file.tokens /\ proj' = file.proj /\ idf' = file.idf
  /\ made' = saved.past.made /\ given' = saved.past.given /\ fitted' = saved.past.fitted
  /\ began' = Nil
  /\ UNCHANGED <<work, file, saved>>

-----------------------------------------------------------------------------
Fresh(o) ==
  /\ opts = o /\ made = o
  /\ vocab = <<>> /\ tokens = <<>> /\ proj = <<>> /\ idf = <<>>
  /\ work = NoWork /\ given = <<>> /\ fitted = Nil /\ began = Nil

Init ==
  /\ \E o \in Options : Fresh(o)
  /\ file = Nil /\ saved = Nil

\* The program starts anew, or makes another embedder.
New ==
  /\ Idle
  /\ \E o \in Options :
       /\ opts' = o /\ made' = o
       /\ vocab' = <<>> /\ tokens' = <<>> /\ proj' = <<>> /\ idf' = <<>>
       /\ work' = NoWork /\ given' = <<>> /\ fitted' = Nil /\ began' = Nil
  /\ UNCHANGED <<file, saved>>

Next ==
  \/ BeginFit \/ BeginFitMore \/ NextDoc \/ NextGram \/ TakeToken \/ EndFit \/ EndFitMore
  \/ Save \/ SaveV1 \/ Load \/ New

Spec == Init /\ [][Next]_vars

-----------------------------------------------------------------------------
(* Properties. *)

Row == [stream : {"vocab", "hash"}, seed : Int, at : Nat]

UsableOptions == {o \in OptionType : o.ngrams > 0 /\ o.minLen > 0}

\* The fields of an embedder, or of a file.
FieldsTyped(voc, toks, rows, weights) ==
  /\ toks \in Seq(Token)
  /\ DOMAIN voc \subseteq Token /\ \A t \in DOMAIN voc : voc[t] \in Nat
  /\ rows \in Seq(Row)
  /\ weights \in Seq(Nat \X Nat)

\* The option fields are usable at any time, after a load of any format too,
\* and Fit counts exactly the tokens it has learned.
TypeOK ==
  /\ opts \in UsableOptions
  /\ FieldsTyped(vocab, tokens, proj, idf)
  /\ given \in Seq(Token)
  /\ work.call \in {"none", "Fit", "FitMore"}
  /\ work.corpus \in Seq(Text) /\ work.words \in Seq(Word)
  /\ work.at \in (Nat \ {0}) \X (Nat \ {0})
  /\ work.call = "FitMore" => work.start \in 0 .. Len(tokens)
  /\ work.call = "Fit" =>
       /\ work.nDocs \in Nat /\ work.seen \subseteq Token
       /\ DOMAIN work.df = DOMAIN vocab /\ \A t \in DOMAIN vocab : work.df[t] \in Nat
  /\ file \notin {Nil, Torn} =>
       /\ Restored(file.opts) \in UsableOptions
       /\ FieldsTyped(file.vocab, file.tokens, file.proj, file.idf)

\* tokens holds every token of the stream once, in the order of their first
\* occurrence, and vocab is its inverse.
VocabularyOf(stream) ==
  /\ DOMAIN vocab = {tokens[i] : i \in 1 .. Len(tokens)}
  /\ DOMAIN vocab = {stream[j] : j \in 1 .. Len(stream)}
  /\ \A i \in 1 .. Len(tokens) : vocab[tokens[i]] = i - 1
  /\ \A j \in 1 .. Len(stream) : \A i \in 0 .. vocab[stream[j]] :
       \E k \in 1 .. j : stream[k] = tokens[i + 1]

\* The projection that one Fit with the options o makes for n tokens.
ProjectionOf(o, n) ==
  IF o.dim = 0 THEN <<>> ELSE Drawn(o, "vocab", 0, n) \o HashRows(o)

\* However the documents came, in one Fit or in any number of FitMores, saved
\* and loaded in between or not, the embedder has the vocabulary and the rows
\* of one Fit over all of them by the embedder that was made first
\* (random_projections.go:179-181).
FitMoreIsOneFit ==
  Idle /\ fitted # Nil => VocabularyOf(given) /\ proj = ProjectionOf(made, Len(tokens))

TokensIn(o, text) ==
  LET words == Words(o, text) IN {TokenAt(words, p) : p \in Grams(o, words)}

\* A text that has no token FitMore just learned is embedded as before; its
\* unknown tokens too, which keep the row of their bucket
\* (random_projections.go:179-181).
KnownTextsKeepEmbedding ==
  [][EndFitMore /\ began # Nil =>
       LET new == {tokens[i] : i \in work.start + 1 .. Len(tokens)}
       IN  \A text \in Text :
             TokensIn(opts, text) \cap new = {} => Embed(text)' = began[text]]_vars

DocsWith(o, docs, tok) == {d \in DOMAIN docs : tok \in TokensIn(o, docs[d])}

\* The weights are those of the documents of the last Fit and of their tokens,
\* and later FitMores, saves and loads leave them alone
\* (random_projections.go:49-50).
WeightsOfLastFit ==
  Idle /\ fitted # Nil =>
    LET known  == UNION {TokensIn(made, fitted[d]) : d \in DOMAIN fitted}
        filled == {d \in DOMAIN fitted : TokensIn(made, fitted[d]) # {}}
    IN  /\ Len(idf) = IF made.tfidf THEN Cardinality(known) ELSE 0
        /\ \A i \in 1 .. Len(idf) :
             /\ tokens[i] \in known
             /\ idf[i] = <<1 + Cardinality(filled),
                           1 + Cardinality(DocsWith(made, fitted, tokens[i]))>>

Saved == file \notin {Nil, Torn}

\* Only weights older than the vocabulary make a saved embedder unreadable:
\* FitMore has learned a token that is in no document of the last Fit.
RefusedOnlyAfterFitMore ==
  Saved /\ ~Accepted(file) =>
    /\ saved.past.made.tfidf
    /\ \E i \in 1 .. Len(file.tokens) :
         DocsWith(saved.past.made, saved.past.fitted, file.tokens[i]) = {}

\* What SaveEmbedder wrote, LoadEmbedder accepts (rp_persistence.go:120-122,
\* "preserved so that future Embed() calls produce the same vectors").
SavedIsLoadable == Saved => Accepted(file)
=============================================================================
