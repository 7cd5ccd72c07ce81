----------------------------- MODULE StoreAsBag -----------------------------
(***************************************************************************)
(* Store as an implementation of RowBag: the slices, read row by row, are  *)
(* the bag, and byID points at the distinguished row of every id.          *)
(***************************************************************************)
EXTENDS Store

SE == INSTANCE SequencesExt

\* nil and empty metadata are the same to RowBag
Seen(m) == IF m = NilMeta THEN EmptyMeta ELSE m

\* The rows of the store, and those of saved data, in their order.
Rows == [i \in DOMAIN ids |-> [id |-> ids[i], vec |-> View(i), meta |-> Seen(MetaAt(i))]]

SavedRows(data) ==
  [i \in DOMAIN data.ids |->
     [id |-> data.ids[i], vec |-> data.vecs[i],
      meta |-> IF data.meta = <<>> THEN EmptyMeta ELSE Seen(data.meta[i])]]

RowsByID == [x \in DOMAIN byID |-> Rows[byID[x]]]

Saved ==
  IF file = Nil THEN {}
  ELSE {[rows |-> SE!ToBag(SavedRows(file)), metric |-> file.metric]}

Bag == INSTANCE RowBag WITH rows <- SE!ToBag(Rows), first <- RowsByID, saved <- Saved

\* A store behaves as a bag of rows with one distinguished row per id: no
\* operation loses, duplicates or mixes the parts of a row, or moves the
\* distinguished row of another id (store.go with store_persist.go restore).
ImplementsRowBag == Bag!Spec
=============================================================================
