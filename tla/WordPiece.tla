------------------------------ MODULE WordPiece ------------------------------
(***************************************************************************)
(* pkg/onnx/tokenizer.go: the BERT tokenizer as operators on its input.    *)
(*                                                                         *)
(* A text is a sequence of characters of which only the class matters.  A  *)
(* line of the vocabulary is a piece: whether it continues a word ("##"),  *)
(* and its characters; the special tokens are lines too.                   *)
(***************************************************************************)
EXTENDS Integers, SequencesExt

CONSTANTS
  Char,
  Class,    \* character -> what basicTokenize takes it for
  Folded,   \* character -> its lower case without accents, as characters
  MaxChars, \* maxWordPieceChars
  Nil

ASSUME ClassAssumption == Class \in [Char -> {"letter", "space", "single", "dropped"}]
ASSUME FoldedAssumption == Folded \in [Char -> Seq(Char)]
ASSUME MaxCharsAssumption == MaxChars \in Nat
ASSUME NilAssumption == Nil \notin Seq(Int)

Line(chars) == [cont |-> FALSE, chars |-> chars]
UNK == Line(<<"[UNK]">>)
CLS == Line(<<"[CLS]">>)
SEP == Line(<<"[SEP]">>)
PAD == Line(<<"[PAD]">>)
Special == {UNK, CLS, SEP, PAD}

\* The number of every line of a vocabulary: where it occurs first.
Vocab(lines) == [l \in ToSet(lines) |-> SelectInSeq(lines, LAMBDA x : x = l) - 1]

\* loadVocab refuses a vocabulary without the special tokens.
Loadable(lines) == Special \subseteq ToSet(lines)

-----------------------------------------------------------------------------
(* basicTokenize. *)

Normalized(text, lower) == IF lower THEN FlattenSeq([i \in DOMAIN text |-> Folded[text[i]]]) ELSE text

Flush(s) == IF s.cur = <<>> THEN s ELSE [words |-> Append(s.words, s.cur), cur |-> <<>>]

\* A space, a control character that is a space too, ends a word; punctuation
\* and ideographs are words by themselves; invalid and format characters are
\* dropped.
Consume(s, c) ==
  CASE Class[c] = "dropped" -> s
    [] Class[c] = "space"   -> Flush(s)
    [] Class[c] = "single"  -> [words |-> Append(Flush(s).words, <<c>>), cur |-> <<>>]
    [] Class[c] = "letter"  -> [s EXCEPT !.cur = Append(@, c)]

BasicTokenize(text, lower) ==
  LET chars == Normalized(text, lower)
      read[n \in 0 .. Len(chars)] ==
        IF n = 0 THEN [words |-> <<>>, cur |-> <<>>]
        ELSE LET before == read[n - 1] IN Consume(before, chars[n])
      end == read[Len(chars)]
  IN  Flush(end).words

-----------------------------------------------------------------------------
(* wordPiece and encode. *)

Piece(word, start, end) == [cont |-> start > 1, chars |-> SubSeq(word, start, end)]

Matches(word, start, vocab) == {e \in start .. Len(word) : Piece(word, start, e) \in DOMAIN vocab}

\* Mutant of Longest: the shortest match.
LongestFromBelow(ends) == CHOOSE e \in ends : \A f \in ends : e <= f

Longest(ends) == CHOOSE e \in ends : \A f \in ends : f <= e

\* The pieces of word[start ..], longest first, or Nil when some part has none.
Greedy(word, vocab) ==
  LET from[start \in 1 .. Len(word) + 1] ==
        IF start > Len(word) THEN <<>>
        ELSE LET ends == Matches(word, start, vocab)
             IN  IF ends = {} THEN Nil
                 ELSE LET rest == from[Longest(ends) + 1]
                      IN  IF rest = Nil THEN Nil
                          ELSE <<vocab[Piece(word, start, Longest(ends))]>> \o rest
  IN  from[1]

WordPieces(word, vocab) ==
  LET pieces == Greedy(word, vocab)
  IN  IF Len(word) > MaxChars \/ pieces = Nil THEN <<vocab[UNK]>> ELSE pieces

\* Mutant of Fitting: a word is cut one piece late.
FittingOneMore(pieces, room) ==
  IF Len(pieces) <= room THEN pieces ELSE SubSeq(pieces, 1, room + 1)

\* What encode appends of a word when there is room for that many pieces.
Fitting(pieces, room) ==
  IF Len(pieces) <= room THEN pieces ELSE SubSeq(pieces, 1, room)

Encode(text, lower, maxLen, vocab) ==
  LET words  == BasicTokenize(text, lower)
      budget == maxLen - 2
      ids[n \in 0 .. Len(words)] ==
        IF n = 0 THEN <<vocab[CLS]>>
        ELSE LET before == ids[n - 1]
             IN  before \o Fitting(WordPieces(words[n], vocab), budget - (Len(before) - 1))
  IN  Append(ids[Len(words)], vocab[SEP])

-----------------------------------------------------------------------------
(* The reference. *)

\* The ways to cut a word so that every piece is the longest there is: the
\* places before, between and after the pieces, in order.
LongestCuts(word, vocab) ==
  {cuts \in UNION {[1 .. n -> 0 .. Len(word)] : n \in 1 .. Len(word) + 1} :
     /\ cuts[1] = 0 /\ cuts[Len(cuts)] = Len(word)
     /\ \A i \in 1 .. Len(cuts) - 1 :
          LET ends == Matches(word, cuts[i] + 1, vocab)
          IN  cuts[i + 1] \in ends /\ \A f \in ends : f <= cuts[i + 1]}

PiecesOf(word, vocab) ==
  IF Len(word) > MaxChars \/ LongestCuts(word, vocab) = {} THEN <<vocab[UNK]>>
  ELSE LET cuts == CHOOSE c \in LongestCuts(word, vocab) : TRUE
       IN  [i \in 1 .. Len(cuts) - 1 |-> vocab[Piece(word, cuts[i] + 1, cuts[i + 1])]]

\* The encoding of a text: the pieces of its words, cut to the length allowed,
\* in their frame.
Encoding(text, lower, maxLen, vocab) ==
  LET words == BasicTokenize(text, lower)
      all   == FlattenSeq([i \in DOMAIN words |-> PiecesOf(words[i], vocab)])
      room  == IF Len(all) < maxLen - 2 THEN Len(all) ELSE maxLen - 2
  IN  <<vocab[CLS]>> \o SubSeq(all, 1, room) \o <<vocab[SEP]>>
=============================================================================
