-------------------------------- MODULE Store --------------------------------
(***************************************************************************)
(* pkg/vector/store.go and the data half of store_persist.go: the          *)
(* in-memory vector index.                                                 *)
(*                                                                         *)
(* A store keeps parallel slices (ids, vectors, norms2 and, once metadata  *)
(* was set, meta), an index byID from an id to one of its rows, and, while *)
(* all vectors have the same length, one row-major backing array "packed"  *)
(* that the slices vectors[i] alias.  Remove swaps the last row into the   *)
(* hole.  Indices are 1-based here: index i of the code is i + 1.          *)
(*                                                                         *)
(* Aliasing is modelled, at the granularity of rows: a slice is either a   *)
(* window on a row of the current backing array, so that it changes when   *)
(* the array is written, or memory of its own.  A window on an array that  *)
(* was replaced by a larger one is memory nobody writes any more.          *)
(***************************************************************************)
EXTENDS Integers, Sequences, Functions

CONSTANTS
  Id,        \* identifiers (strings)
  Vec,       \* the vectors clients pass in: sequences of numbers
  Meta,      \* the non-nil metadata maps
  EmptyMeta, \* the non-nil map without keys, a member of Meta
  NilMeta,   \* the nil map
  Metric,    \* distance metrics
  Format,    \* file formats in use, a subset of {"gob", "json"}
  Nil,       \* a nil slice, a missing file, a missing id
  MaxRows    \* bound: no more rows are added to a store of this size

ASSUME VecAssumption == Vec \subseteq Seq(Int)
ASSUME MetaAssumption == EmptyMeta \in Meta /\ NilMeta \notin Meta

\* What is saved of a store.
StoreData ==
  [ids : Seq(Id), vecs : Seq(Vec), metric : Metric, meta : Seq(Meta \cup {NilMeta})]

ASSUME NilAssumption == Nil \notin Seq(Meta \cup {NilMeta}) \cup StoreData
ASSUME FormatAssumption == Format \subseteq {"gob", "json"}
ASSUME BoundAssumption == MaxRows \in Nat

VARIABLES
  ids,       \* row -> id
  vectors,   \* row -> slice
  metric,
  packed,    \* rows of the backing array, <<>> when there is none
  dims,      \* length of a packed row
  packedOK,  \* every vector has length dims
  norms2,    \* row -> cached squared norm
  byID,      \* id -> one of its rows
  meta,      \* row -> metadata, or Nil
  file       \* what decoding the last saved file yields, or Nil

storeVars == <<ids, vectors, metric, packed, dims, packedOK, norms2, byID, meta>>
vars == <<storeVars, file>>

-----------------------------------------------------------------------------
(* Slices. *)

Window(j) == [slot |-> j, own |-> <<>>]
Own(v) == [slot |-> 0, own |-> v]

\* The numbers one reads through a slice of the current array.
Deref(x) == IF x.slot > 0 THEN packed[x.slot] ELSE x.own
View(i) == Deref(vectors[i])

\* The vectors lie in the backing array.
HasArray == packedOK /\ dims > 0

\* The row Search scores: straight from the backing array when there is one.
Row(i) == IF HasArray THEN packed[i] ELSE View(i)

DotSelf(v) == SumFunction([i \in DOMAIN v |-> v[i] * v[i]])

-----------------------------------------------------------------------------
(* Reads. *)

Has(id) == id \in DOMAIN byID
MetaAt(i) == IF meta = Nil THEN NilMeta ELSE meta[i]

\* What Get and Meta return for id.
Lookup(id) ==
  IF Has(id) THEN [vec |-> View(byID[id]), meta |-> MetaAt(byID[id])] ELSE Nil

-----------------------------------------------------------------------------
(* Helpers of the writing operations. *)

\* Mutant of Unpacked: the array is dropped, the slices still look into it.
UnpackedWithoutCloning == vectors

\* Every slice gets memory of its own; the backing array is dropped.
Unpacked == [i \in DOMAIN vectors |-> Own(View(i))]

\* Mutant of Relinked: after append moved the array the slices still show the
\* old one, memory that no later write reaches.
LeftOnOldArray(s) == [i \in DOMAIN s |-> Own(Deref(s[i]))]

\* The slices of a uniform store, taken anew from the backing array.
Relinked(s) == [i \in DOMAIN s |-> Window(i)]

AppendFirst(v) ==
  /\ vectors = <<>>
  /\ dims' = Len(v)
  /\ packedOK' = TRUE
  /\ packed' = IF Len(v) = 0 THEN <<>> ELSE <<v>>
  /\ vectors' = IF Len(v) = 0 THEN <<Own(v)>> ELSE <<Window(1)>>

AppendPacked(v) ==
  /\ vectors # <<>> /\ packedOK /\ Len(v) = dims
  /\ \/ /\ dims = 0
        /\ vectors' = Append(vectors, Own(v))
        /\ UNCHANGED packed
     \/ /\ dims > 0
        /\ packed' = Append(packed, v)
        \* append may move the array (the windows would then show the old
        \* one), in which case every slice is linked anew
        /\ \E moved \in BOOLEAN :
             vectors' = Append(IF moved THEN Relinked(vectors) ELSE vectors,
                               Window(Len(packed) + 1))
  /\ UNCHANGED <<dims, packedOK>>

AppendJagged(v) ==
  /\ vectors # <<>> /\ ~(packedOK /\ Len(v) = dims)
  /\ vectors' = Append(IF packedOK THEN Unpacked ELSE vectors, Own(v))
  /\ packed' = <<>>
  /\ packedOK' = FALSE
  /\ dims' = 0

AppendVector(v) == AppendFirst(v) \/ AppendPacked(v) \/ AppendJagged(v)

\* Mutant of NoteID: notes a 0-based row.
NoteIDZeroBased(id, i) ==
  IF Has(id) THEN byID ELSE [x \in DOMAIN byID \cup {id} |-> IF x = id THEN i - 1 ELSE byID[x]]

NoteID(id, i) ==
  IF Has(id) THEN byID ELSE [x \in DOMAIN byID \cup {id} |-> IF x = id THEN i ELSE byID[x]]

\* Mutant of GrownMeta: Add forgets the metadata slice.
MetaNotGrown == meta

GrownMeta == IF meta = Nil THEN Nil ELSE Append(meta, NilMeta)

\* The row at i is overwritten by the last one, which is cut off.
SwapDelete(s, i) == SubSeq([s EXCEPT ![i] = s[Len(s)]], 1, Len(s) - 1)

\* Mutant of CompactedArray: the array is cut without copying its last row.
ArrayCutWithoutCopy(i) ==
  IF HasArray THEN SubSeq(packed, 1, Len(packed) - 1) ELSE packed

CompactedArray(i) == IF HasArray THEN SwapDelete(packed, i) ELSE packed

CompactedSlices(i) ==
  IF HasArray
    THEN SubSeq([vectors EXCEPT ![i] = Window(i)], 1, Len(vectors) - 1)
    ELSE SwapDelete(vectors, i)

FirstAt(s, x) == CHOOSE i \in DOMAIN s : s[i] = x /\ \A j \in 1 .. i - 1 : s[j] # x
FirstIndices(s) == [x \in Range(s) |-> FirstAt(s, x)]

\* Mutant of RepairByID: the entry of the swapped row is not repaired.
IndexNotFollowed(removed, i) ==
  LET rest == SwapDelete(ids, i)
  IN  [x \in (DOMAIN byID \ {removed}) \cup ({removed} \cap Range(rest)) |->
         IF x = removed THEN FirstAt(rest, x) ELSE byID[x]]

\* Mutant of RepairByID: follows the swapped row even when the id's entry
\* was another, earlier row.
IndexAlwaysFollows(removed, i) ==
  LET rest == SwapDelete(ids, i)
  IN  [x \in (DOMAIN byID \ {removed}) \cup ({removed} \cap Range(rest)) |->
         IF x = removed THEN FirstAt(rest, x)
         ELSE IF i # Len(ids) /\ x = ids[Len(ids)] THEN i
         ELSE byID[x]]

\* byID after removed was deleted at i: its next row is looked up from the
\* front; an entry that pointed at the row swapped into i follows it.
RepairByID(removed, i) ==
  LET last  == Len(ids)
      moved == ids[last]
      rest  == SwapDelete(ids, i)
  IN  [x \in (DOMAIN byID \ {removed}) \cup ({removed} \cap Range(rest)) |->
         IF x = removed THEN FirstAt(rest, x)
         ELSE IF i # last /\ x = moved /\ byID[x] = last THEN i
         ELSE byID[x]]
-----------------------------------------------------------------------------
(* Operations. *)

Add(id, v) ==
  /\ Len(ids) < MaxRows
  /\ ids' = Append(ids, id)
  /\ AppendVector(v)
  /\ norms2' = Append(norms2, DotSelf(v))
  /\ meta' = GrownMeta
  /\ byID' = NoteID(id, Len(ids) + 1)
  /\ UNCHANGED <<metric, file>>

AddUnique(id, v) == ~Has(id) /\ Add(id, v)

ReplaceAt(i, v) ==
  /\ IF packedOK /\ Len(v) = dims /\ dims > 0
       THEN /\ packed' = [packed EXCEPT ![i] = v]
            /\ vectors' = [vectors EXCEPT ![i] = Window(i)]
            /\ UNCHANGED <<dims, packedOK>>
       ELSE /\ vectors' = [(IF packedOK THEN Unpacked ELSE vectors) EXCEPT ![i] = Own(v)]
            /\ packed' = <<>>
            /\ dims' = 0
            /\ packedOK' = FALSE
  /\ norms2' = [norms2 EXCEPT ![i] = DotSelf(v)]
  /\ UNCHANGED <<ids, metric, byID, meta, file>>

Upsert(id, v) ==
  \/ Has(id) /\ ReplaceAt(byID[id], v)
  \/ ~Has(id) /\ Add(id, v)

Remove(id) ==
  /\ Has(id)
  /\ LET i == byID[id]
     IN  /\ ids' = SwapDelete(ids, i)
         /\ packed' = CompactedArray(i)
         /\ vectors' = CompactedSlices(i)
         /\ norms2' = SwapDelete(norms2, i)
         /\ meta' = IF meta = Nil THEN Nil ELSE SwapDelete(meta, i)
         /\ byID' = RepairByID(id, i)
  /\ dims' = IF packedOK /\ Len(ids) = 1 THEN 0 ELSE dims
  /\ UNCHANGED <<metric, packedOK, file>>

\* Mutant of SetMeta: a fresh metadata slice on every call.
SetMetaReallocates(id, m) ==
  /\ Has(id)
  /\ meta' = [[i \in DOMAIN ids |-> NilMeta] EXCEPT ![byID[id]] = m]
  /\ UNCHANGED <<ids, vectors, metric, packed, dims, packedOK, norms2, byID, file>>

SetMeta(id, m) ==
  /\ Has(id)
  /\ meta' = [[i \in DOMAIN ids |-> MetaAt(i)] EXCEPT ![byID[id]] = m]
  /\ UNCHANGED <<ids, vectors, metric, packed, dims, packedOK, norms2, byID, file>>

Clear ==
  /\ ids' = <<>> /\ vectors' = <<>> /\ packed' = <<>> /\ norms2' = <<>>
  /\ packedOK' = FALSE /\ dims' = 0
  /\ byID' = [x \in {} |-> 0]
  /\ meta' = Nil
  /\ UNCHANGED <<metric, file>>

-----------------------------------------------------------------------------
(* Persistence: what the encoders make of a snapshot, and restore. *)

\* Mutant of HasAnyMeta: judges by the first row.
FirstHasMeta == meta # Nil /\ meta # <<>> /\ meta[1] \notin {NilMeta, EmptyMeta}

HasAnyMeta == meta # Nil /\ \E i \in DOMAIN meta : meta[i] \notin {NilMeta, EmptyMeta}

\* gob decodes the nil maps inside a slice as empty maps; JSON keeps null.
Decoded(fmt, m) == IF fmt = "gob" /\ m = NilMeta THEN EmptyMeta ELSE m

Snapshot(fmt) ==
  [ids |-> ids,
   vecs |-> [i \in DOMAIN ids |-> View(i)],
   metric |-> metric,
   meta |-> IF HasAnyMeta THEN [i \in DOMAIN meta |-> Decoded(fmt, meta[i])] ELSE <<>>]

Save(fmt) == file' = Snapshot(fmt) /\ UNCHANGED storeVars

\* Mutant of Uniform: the loop stops one row early.
UniformButLast(vecs) == \A i \in 1 .. Len(vecs) - 1 : Len(vecs[i]) = Len(vecs[1])

Uniform(vecs) == \A i \in DOMAIN vecs : Len(vecs[i]) = Len(vecs[1])

\* restore and rebuildAux, on data that validateStoreData accepts.
Restore(data) ==
  LET vecs == data.vecs
      array == Uniform(vecs) /\ vecs # <<>> /\ Len(vecs[1]) > 0
  IN  /\ ids' = data.ids
      /\ metric' = data.metric
      /\ meta' = IF data.meta = <<>> THEN Nil ELSE data.meta
      /\ byID' = FirstIndices(data.ids)
      /\ norms2' = [i \in DOMAIN vecs |-> DotSelf(vecs[i])]
      /\ packedOK' = Uniform(vecs)
      /\ packed' = IF array THEN vecs ELSE <<>>
      /\ dims' = IF array THEN Len(vecs[1]) ELSE 0
      /\ vectors' = [i \in DOMAIN vecs |-> IF array THEN Window(i) ELSE Own(vecs[i])]

Load == file # Nil /\ Restore(file) /\ UNCHANGED file

-----------------------------------------------------------------------------
\* What another store of metric m saved before it held anything.
EmptyFile(m) == [ids |-> <<>>, vecs |-> <<>>, metric |-> m, meta |-> <<>>]

\* A new store; a file of another store may be there to be loaded.
Init ==
  /\ ids = <<>> /\ vectors = <<>> /\ packed = <<>> /\ norms2 = <<>>
  /\ packedOK = FALSE /\ dims = 0
  /\ byID = [x \in {} |-> 0]
  /\ meta = Nil
  /\ metric \in Metric
  /\ file \in {Nil} \cup {EmptyFile(m) : m \in Metric}

\* The operations that name an id.
OpOn(id) ==
  \/ \E v \in Vec : Add(id, v) \/ AddUnique(id, v) \/ Upsert(id, v)
  \/ Remove(id)
  \/ \E m \in Meta \cup {NilMeta} : SetMeta(id, m)

Next ==
  \/ \E id \in Id : OpOn(id)
  \/ Clear
  \/ \E fmt \in Format : Save(fmt)
  \/ Load

Spec == Init /\ [][Next]_vars

-----------------------------------------------------------------------------
(* Properties. *)

TypeOK ==
  /\ ids \in Seq(Id)
  /\ vectors \in Seq([slot : Nat, own : Vec \cup {<<>>}])
  /\ metric \in Metric
  /\ packed \in Seq(Vec)
  /\ dims \in Nat
  /\ packedOK \in BOOLEAN
  /\ norms2 \in Seq({DotSelf(v) : v \in Vec})
  /\ \E D \in SUBSET Id : byID \in [D -> Nat \ {0}]
  /\ meta \in Seq(Meta \cup {NilMeta}) \cup {Nil}
  /\ file \in StoreData \cup {Nil}

\* The parallel slices describe the same rows: whatever sequence of swaps,
\* growths and layout changes led here, they have the same length.
Aligned ==
  /\ Len(vectors) = Len(ids)
  /\ Len(norms2) = Len(ids)
  /\ meta # Nil => Len(meta) = Len(ids)

\* While the store is packed, every slice is the window on its own row, the
\* array has exactly one row per vector and all have length dims.  Otherwise
\* no slice reads the (dropped) array: a stale window would make Get return
\* another row's numbers after a swap or a growth (appendVector, Remove,
\* unpack, replaceAt).
PackedLayout ==
  IF HasArray
    THEN /\ Len(packed) = Len(vectors)
         /\ \A i \in DOMAIN vectors : vectors[i].slot = i
         /\ \A i \in DOMAIN packed : Len(packed[i]) = dims
    ELSE /\ packed = <<>>
         /\ dims = 0
         /\ \A i \in DOMAIN vectors : vectors[i].slot = 0 /\ vectors[i].own \in Vec
         /\ packedOK => \A i \in DOMAIN vectors : vectors[i].own = <<>>

\* Search scores a row through the array and clones the hit through its
\* slice (store_search.go row and search): both are the same numbers, and
\* the cached norm is theirs.
ScoredRowIsReturnedRow ==
  \A i \in DOMAIN ids : Row(i) = View(i) /\ norms2[i] = DotSelf(View(i))

\* byID knows exactly the ids of the store and sends each to a row that
\* carries it, so Get, Upsert, Remove and SetMeta never act on a row of
\* another id (repairByID after a swap).
IndexHitsOwnRow ==
  /\ DOMAIN byID = Range(ids)
  /\ \A x \in DOMAIN byID : byID[x] \in DOMAIN ids /\ ids[byID[x]] = x

\* Operations on one id never change what Get and Meta return for another
\* id, although Remove moves a row of another id and layout changes copy
\* every row.
OtherIdsUntouched ==
  [][\A x, y \in Id : x # y /\ OpOn(y) => Lookup(x)' = Lookup(x)]_vars
=============================================================================
