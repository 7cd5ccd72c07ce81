------------------------------- MODULE MCStore -------------------------------
(* Store on a small instance, and Store as an implementation of RowBag. *)
EXTENDS StoreAsBag

MCEmptyMeta == "no keys"
MCMeta == {MCEmptyMeta, "lang=en"}
MCMetric == {"cosine", "dot"}
MCVec == {<<>>, <<1>>, <<2>>, <<1, 2>>}

\* Once there is a file, the store and the file are kept to two rows and two
\* lengths, which give both layouts; without one, the metric is fixed.
MCFewVec == {<<1>>, <<1, 2>>}
MCFilesAreSmall ==
  IF file = Nil THEN metric = "cosine"
  ELSE Len(ids) <= 2 /\ \A i \in DOMAIN vectors : View(i) \in MCFewVec
=============================================================================
