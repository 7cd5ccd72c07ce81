------------------------- MODULE MCRandomProjections -------------------------
(* RandomProjections on a small instance. *)
EXTENDS RandomProjections

\* A text is a sequence of fields, of which tokenizeMin keeps those of at
\* least as many bytes as it is told.
Bytes == [w \in Word |-> IF w = "c" THEN 1 ELSE 2]

MCTokenizeMin(fields, minLen) == SelectSeq(fields, LAMBDA w : Bytes[w] >= minLen)

MCWord == {"a", "b", "c"}
MCText == {<<>>, <<"a">>, <<"b">>, <<"c">>, <<"a", "b">>, <<"b", "a", "a">>, <<"a", "c", "b">>}
MCMinLen == {1, 2}
MCTokenize == [x \in MCText \X MCMinLen |-> MCTokenizeMin(x[1], x[2])]

\* Two buckets tell "a" from the other words.
MCHash == [tok \in Token |-> IF tok[1] = "a" THEN 0 ELSE 1]

MCOptions ==
  {[dim |-> 1, seed |-> 42, hasSeed |-> TRUE, ngrams |-> 1, minLen |-> 2, buckets |-> 0, tfidf |-> FALSE],
   [dim |-> 1, seed |-> 0, hasSeed |-> TRUE, ngrams |-> 1, minLen |-> 1, buckets |-> 2, tfidf |-> FALSE],
   [dim |-> 1, seed |-> 7, hasSeed |-> TRUE, ngrams |-> 2, minLen |-> 2, buckets |-> 1, tfidf |-> TRUE],
   [dim |-> 0, seed |-> 42, hasSeed |-> TRUE, ngrams |-> 1, minLen |-> 2, buckets |-> 1, tfidf |-> TRUE]}

MCCorpus == {<<>>, <<<<"a">>>>, <<<<"c">>, <<"b", "a", "a">>>>, <<<<"a", "c", "b">>>>, <<<<"a", "b">>, <<"a">>, <<>>>>}
=============================================================================
