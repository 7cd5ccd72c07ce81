--------------------------- MODULE MCOnnxEmbedder ---------------------------
(* OnnxEmbedder on a small instance. *)
EXTENDS OnnxEmbedder

MCChar == {"x", "y", "X", " ", ".", "~"}
MCClass == [c \in MCChar |-> CASE c = " " -> "space" [] c = "." -> "single" [] c = "~" -> "dropped"
                               [] OTHER -> "letter"]
MCFolded == [c \in MCChar |-> CASE c = "X" -> <<"x">> [] c = "~" -> <<>> [] OTHER -> <<c>>]

First(chars) == [cont |-> FALSE, chars |-> chars]
Rest(chars) == [cont |-> TRUE, chars |-> chars]

\* With a line twice and a prefix that leads nowhere, and one without [PAD].
MCVocabFile ==
  {<<PAD, UNK, First(<<"x">>), CLS, SEP, First(<<"x", "y">>), Rest(<<"y">>), First(<<"x">>), First(<<".">>)>>,
   <<UNK, CLS, SEP, First(<<"x">>)>>}

Declared(name, rank, dim) == [name |-> name, rank |-> rank, dim |-> dim]

\* Token embeddings, a pooled output beside them, and a hidden size that is
\* not declared.
MCModel ==
  {[outputs |-> <<Declared("other", 4, 2), Declared("last_hidden_state", 3, -1)>>, hidden |-> 2],
   [outputs |-> <<Declared("last_hidden_state", 3, 2), Declared("sentence_embedding", 2, 2)>>, hidden |-> 2]}

MCConfig ==
  {[maxLen |-> 3, lower |-> TRUE, output |-> Nil, specials |-> FALSE],
   [maxLen |-> 4, lower |-> FALSE, output |-> "last_hidden_state", specials |-> TRUE],
   [maxLen |-> 6, lower |-> TRUE, output |-> Nil, specials |-> TRUE]}

\* Words of one to three pieces, words that have none or are too long, the
\* empty text; alone and beside a longer or shorter one.
MCBatch ==
  {<<>>, <<<<"x", "y", "y">>, <<>>>>, <<<<"X", " ", "x", "y">>, <<"x", ".", "y", "~">>>>,
   <<<<"x", "x">>, <<".", "x", "y", "y", "y">>>>,
   <<<<>>, <<"x", "y", "~", "y", ".", "x">>, <<"x", " ", " ", "X", "y", "y">>>>}
=============================================================================
