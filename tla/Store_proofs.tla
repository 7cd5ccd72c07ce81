---------------------------- MODULE Store_proofs ----------------------------
(***************************************************************************)
(* The safety properties of Store, for every set of ids, vectors, metadata *)
(* and metrics and every bound.                                            *)
(*                                                                         *)
(* None of the properties is inductive alone: that the windows are right   *)
(* after a removal needs the array to have one row per vector, that byID   *)
(* can be repaired needs it to be right about every other id, and a load   *)
(* establishes all of it only if what was saved is well formed.  IInv is   *)
(* the conjunction that is: Layout (the slices and the backing array),     *)
(* Index (byID), Parallel (norms2 and meta) and FileOK (the saved file).   *)
(* There is one lemma per part and helper of the code, which says what the *)
(* helper does to that part, and one per operation, which puts them        *)
(* together.                                                               *)
(*                                                                         *)
(* The lemma of an operation also says what happens to Rows, the rows one  *)
(* reads through the slices: one is appended, replaced, swapped into a     *)
(* hole.  With what each of these does to the bag of a sequence, every     *)
(* operation is the one of RowBag, so Store implements RowBag.             *)
(***************************************************************************)
EXTENDS StoreAsBag, TLAPS, WellFoundedInduction, SequenceTheorems, FiniteSetTheorems

\* FirstAt names a row of x, if there is one.
LEMMA FirstAtExists ==
  ASSUME NEW S, NEW s \in Seq(S), NEW x \in Range(s)
  PROVE  /\ FirstAt(s, x) \in 1 .. Len(s)
         /\ s[FirstAt(s, x)] = x
<1> DEFINE T == {i \in 1 .. Len(s) : s[i] = x}
<1>1. T \subseteq Nat /\ T # {}
  BY DEF Range
<1>2. \E i \in T : \A j \in T : ~(j < i)
  <2>1. \E i \in T : \A j \in T : ~(<<j, i>> \in OpToRel(<, Nat))
    BY <1>1, NatLessThanWellFounded, WFMin
  <2>2. QED
    BY <1>1, <2>1 DEF OpToRel
<1>3. PICK i \in T : \A j \in T : ~(j < i)
  BY <1>2
<1>4. \E k \in DOMAIN s : s[k] = x /\ \A j \in 1 .. k - 1 : s[j] # x
  <2>1. i \in DOMAIN s /\ s[i] = x
    OBVIOUS
  <2>2. \A j \in 1 .. i - 1 : s[j] # x
    BY <1>3
  <2>3. QED
    BY <2>1, <2>2
<1>5. QED
  BY <1>4 DEF FirstAt

\* The last row takes the place of the removed one.
LEMMA SwapDeleteIs ==
  ASSUME NEW S, NEW s \in Seq(S), NEW i \in 1 .. Len(s)
  PROVE  /\ SwapDelete(s, i) \in Seq(S)
         /\ Len(SwapDelete(s, i)) = Len(s) - 1
         /\ \A j \in 1 .. Len(s) - 1 :
              SwapDelete(s, i)[j] = IF j = i THEN s[Len(s)] ELSE s[j]
<1> DEFINE t == [s EXCEPT ![i] = s[Len(s)]]
<1>1. /\ Len(s) \in Nat \ {0}
      /\ s[Len(s)] \in S
  BY LenProperties, ElementOfSeq
<1>2. /\ t \in Seq(S)
      /\ Len(t) = Len(s)
      /\ \A j \in 1 .. Len(s) : t[j] = IF j = i THEN s[Len(s)] ELSE s[j]
  BY <1>1, ExceptSeq
<1> HIDE DEF t
<1>3. /\ SubSeq(t, 1, Len(s) - 1) \in Seq(S)
      /\ Len(SubSeq(t, 1, Len(s) - 1)) = Len(s) - 1
      /\ \A j \in 1 .. Len(s) - 1 : SubSeq(t, 1, Len(s) - 1)[j] = t[j]
  BY <1>1, <1>2
<1>4. SwapDelete(s, i) = SubSeq(t, 1, Len(s) - 1)
  BY DEF SwapDelete, t
<1>5. QED
  BY <1>1, <1>2, <1>3, <1>4

-----------------------------------------------------------------------------
(* Layout: vectors, packed, dims, packedOK. *)

Slice == [slot : Nat, own : Vec \cup {<<>>}]

Layout ==
  /\ vectors \in Seq(Slice)
  /\ packed \in Seq(Vec)
  /\ dims \in Nat
  /\ packedOK \in BOOLEAN
  /\ PackedLayout

LEMMA VecLen ==
  ASSUME NEW v \in Vec
  PROVE  Len(v) \in Nat /\ (Len(v) = 0 => v = <<>>)
BY VecAssumption

LEMMA ViewIs ==
  ASSUME Layout, NEW i \in 1 .. Len(vectors)
  PROVE  /\ View(i) = IF HasArray THEN packed[i] ELSE vectors[i].own
         /\ View(i) \in Vec
BY DEF Layout, PackedLayout, View, Deref, HasArray, Slice

LEMMA SliceForms ==
  /\ \A v \in Vec : Own(v) \in Slice /\ Own(v).slot = 0 /\ Own(v).own = v
  /\ \A j \in Nat : Window(j) \in Slice /\ Window(j).slot = j
BY DEF Own, Window, Slice

LEMMA UnpackedIs ==
  ASSUME Layout
  PROVE  /\ Unpacked \in Seq(Slice)
         /\ Len(Unpacked) = Len(vectors)
         /\ \A i \in 1 .. Len(vectors) :
              Unpacked[i].slot = 0 /\ Unpacked[i].own = View(i) /\ View(i) \in Vec
<1>1. Len(vectors) \in Nat /\ DOMAIN vectors = 1 .. Len(vectors)
  BY DEF Layout
<1>2. \A i \in 1 .. Len(vectors) : View(i) \in Vec
  BY ViewIs
<1>3. \A i \in 1 .. Len(vectors) :
        Own(View(i)) \in Slice /\ Own(View(i)).slot = 0 /\ Own(View(i)).own = View(i)
  BY <1>2, SliceForms
<1>4. QED
  BY <1>1, <1>2, <1>3 DEF Unpacked

\* What a sequence extended by one element holds.
LEMMA AppendIs ==
  ASSUME NEW S, NEW s \in Seq(S), NEW x \in S
  PROVE  /\ Append(s, x) \in Seq(S)
         /\ Len(Append(s, x)) = Len(s) + 1
         /\ \A i \in 1 .. Len(s) : Append(s, x)[i] = s[i]
         /\ Append(s, x)[Len(s) + 1] = x
OBVIOUS

\* A layout without a backing array: every slice has memory of its own.
LEMMA PrivateLayout ==
  ASSUME vectors' \in Seq(Slice), packed' = <<>>, dims' = 0, packedOK' \in BOOLEAN,
         \A i \in 1 .. Len(vectors') : vectors'[i].slot = 0 /\ vectors'[i].own \in Vec,
         packedOK' => \A i \in 1 .. Len(vectors') : vectors'[i].own = <<>>
  PROVE  /\ Layout'
         /\ \A i \in 1 .. Len(vectors') : View(i)' = vectors'[i].own
BY DEF Layout, PackedLayout, HasArray, View, Deref

\* A layout with a backing array: every slice is the window on its row.
LEMMA ArrayLayout ==
  ASSUME vectors' \in Seq(Slice), packed' \in Seq(Vec), dims' \in Nat \ {0}, packedOK' = TRUE,
         Len(packed') = Len(vectors'),
         \A i \in 1 .. Len(vectors') : vectors'[i].slot = i /\ Len(packed'[i]) = dims'
  PROVE  /\ Layout'
         /\ \A i \in 1 .. Len(vectors') : View(i)' = packed'[i]
BY DEF Layout, PackedLayout, HasArray, View, Deref

LEMMA NoArray ==
  ASSUME Layout, ~HasArray
  PROVE  /\ packed = <<>> /\ dims = 0
         /\ \A i \in 1 .. Len(vectors) :
              vectors[i].slot = 0 /\ vectors[i].own \in Vec /\ View(i) = vectors[i].own
         /\ packedOK => \A i \in 1 .. Len(vectors) : vectors[i].own = <<>>
BY DEF Layout, PackedLayout, HasArray, View, Deref

LEMMA Array ==
  ASSUME Layout, HasArray
  PROVE  /\ packed \in Seq(Vec) /\ Len(packed) = Len(vectors) /\ dims \in Nat \ {0} /\ packedOK = TRUE
         /\ \A i \in 1 .. Len(vectors) :
              vectors[i].slot = i /\ Len(packed[i]) = dims /\ View(i) = packed[i]
BY DEF Layout, PackedLayout, HasArray, View, Deref

\* Adding a vector keeps the layout and what every earlier slice shows.
LEMMA AppendLayout ==
  ASSUME Layout, NEW v \in Vec, AppendVector(v)
  PROVE  /\ Layout'
         /\ Len(vectors') = Len(vectors) + 1
         /\ \A i \in 1 .. Len(vectors) + 1 :
              View(i)' = IF i = Len(vectors) + 1 THEN v ELSE View(i)
<1>1. Len(v) \in Nat /\ (Len(v) = 0 => v = <<>>)
  BY VecLen
<1>2. vectors \in Seq(Slice) /\ Len(vectors) \in Nat
  BY DEF Layout
<1>3. Own(v) \in Slice /\ Own(v).slot = 0 /\ Own(v).own = v
  BY SliceForms
<1>4. CASE AppendFirst(v)
  <2>1. Len(vectors) = 0 /\ dims' = Len(v) /\ packedOK' = TRUE
    BY <1>4 DEF AppendFirst
  <2>2. CASE Len(v) = 0
    <3>1. vectors' = <<Own(v)>> /\ packed' = <<>>
      BY <1>4, <2>2 DEF AppendFirst
    <3>2. vectors' \in Seq(Slice) /\ Len(vectors') = 1 /\ vectors'[1] = Own(v)
      BY <3>1, <1>3
    <3>3. Layout' /\ \A i \in 1 .. Len(vectors') : View(i)' = vectors'[i].own
      BY <1>1, <1>3, <2>1, <2>2, <3>1, <3>2, PrivateLayout
    <3>4. QED
      BY <1>3, <2>1, <3>2, <3>3
  <2>3. CASE Len(v) > 0
    <3>1. vectors' = <<Window(1)>> /\ packed' = <<v>>
      BY <1>4, <2>3 DEF AppendFirst
    <3>2. vectors' \in Seq(Slice) /\ Len(vectors') = 1 /\ vectors'[1].slot = 1
      BY <3>1, SliceForms
    <3>3. packed' \in Seq(Vec) /\ Len(packed') = 1 /\ packed'[1] = v
      BY <3>1
    <3>4. Layout' /\ \A i \in 1 .. Len(vectors') : View(i)' = packed'[i]
      BY <1>1, <2>1, <2>3, <3>2, <3>3, ArrayLayout
    <3>5. QED
      BY <2>1, <3>2, <3>3, <3>4
  <2>4. QED
    BY <1>1, <2>2, <2>3
<1>5. CASE AppendPacked(v)
  <2>1. packedOK = TRUE /\ packedOK' = TRUE /\ Len(v) = dims /\ dims' = dims
    BY <1>5 DEF AppendPacked, Layout
  <2>2. CASE dims = 0
    <3>1. vectors' = Append(vectors, Own(v)) /\ packed' = packed
      BY <1>5, <2>2 DEF AppendPacked
    <3>2. /\ packed = <<>>
          /\ \A i \in 1 .. Len(vectors) : /\ vectors[i].slot = 0 /\ vectors[i].own \in Vec
                                          /\ View(i) = vectors[i].own /\ vectors[i].own = <<>>
      BY <2>1, <2>2, NoArray DEF HasArray
    <3>3. /\ vectors' \in Seq(Slice)
          /\ Len(vectors') = Len(vectors) + 1
          /\ \A i \in 1 .. Len(vectors) : vectors'[i] = vectors[i]
          /\ vectors'[Len(vectors) + 1] = Own(v)
      BY <1>2, <1>3, <3>1, AppendIs
    <3>4. \A i \in 1 .. Len(vectors') :
            vectors'[i].slot = 0 /\ vectors'[i].own \in Vec /\ vectors'[i].own = <<>>
      BY <1>1, <1>2, <1>3, <2>1, <2>2, <3>2, <3>3
    <3>5. Layout' /\ \A i \in 1 .. Len(vectors') : View(i)' = vectors'[i].own
      BY <2>1, <2>2, <3>1, <3>2, <3>3, <3>4, PrivateLayout
    <3>6. QED
      BY <1>2, <1>3, <3>2, <3>3, <3>5
  <2>3. CASE dims > 0
    <3>1. /\ packed \in Seq(Vec) /\ Len(packed) = Len(vectors) /\ dims \in Nat \ {0}
          /\ \A i \in 1 .. Len(vectors) :
               vectors[i].slot = i /\ Len(packed[i]) = dims /\ View(i) = packed[i]
      BY <2>1, <2>3, Array DEF HasArray
    <3>2. PICK moved \in BOOLEAN :
            vectors' = Append(IF moved THEN Relinked(vectors) ELSE vectors,
                              Window(Len(packed) + 1))
      BY <1>5, <2>3 DEF AppendPacked
    <3>3. packed' = Append(packed, v)
      BY <1>5, <2>3 DEF AppendPacked
    <3> DEFINE s == IF moved THEN Relinked(vectors) ELSE vectors
    <3>4. s \in Seq(Slice) /\ Len(s) = Len(vectors) /\ \A i \in 1 .. Len(vectors) : s[i].slot = i
      <4>1. \A i \in 1 .. Len(vectors) : Window(i) \in Slice /\ Window(i).slot = i
        BY <1>2, SliceForms
      <4>2. /\ Relinked(vectors) \in Seq(Slice)
            /\ Len(Relinked(vectors)) = Len(vectors)
            /\ \A i \in 1 .. Len(vectors) : Relinked(vectors)[i] = Window(i)
        BY <1>2, <4>1 DEF Relinked
      <4>3. QED
        BY <1>2, <3>1, <4>1, <4>2
    <3> HIDE DEF s
    <3>5. Window(Len(packed) + 1) \in Slice /\ Window(Len(packed) + 1).slot = Len(vectors) + 1
      BY <1>2, <3>1, SliceForms
    <3>6. /\ vectors' \in Seq(Slice)
          /\ Len(vectors') = Len(vectors) + 1
          /\ \A i \in 1 .. Len(vectors) : vectors'[i].slot = i
          /\ vectors'[Len(vectors) + 1].slot = Len(vectors) + 1
      BY <3>2, <3>4, <3>5, AppendIs DEF s
    <3>7. /\ packed' \in Seq(Vec)
          /\ Len(packed') = Len(vectors) + 1
          /\ \A i \in 1 .. Len(vectors) : packed'[i] = packed[i]
          /\ packed'[Len(vectors) + 1] = v
      BY <3>1, <3>3, AppendIs
    <3>8. \A i \in 1 .. Len(vectors') : vectors'[i].slot = i /\ Len(packed'[i]) = dims'
      BY <1>2, <2>1, <3>1, <3>6, <3>7
    <3>9. Layout' /\ \A i \in 1 .. Len(vectors') : View(i)' = packed'[i]
      BY <2>1, <3>1, <3>6, <3>7, <3>8, ArrayLayout
    <3>10. QED
      BY <1>2, <3>1, <3>6, <3>7, <3>9
  <2>4. QED
    BY <2>2, <2>3 DEF Layout
<1>6. CASE AppendJagged(v)
  <2> DEFINE s == IF packedOK THEN Unpacked ELSE vectors
  <2>1. vectors' = Append(s, Own(v)) /\ packed' = <<>> /\ packedOK' = FALSE /\ dims' = 0
    BY <1>6 DEF AppendJagged
  <2>2. /\ s \in Seq(Slice)
        /\ Len(s) = Len(vectors)
        /\ \A i \in 1 .. Len(vectors) : s[i].slot = 0 /\ s[i].own \in Vec /\ s[i].own = View(i)
    <3>1. CASE packedOK
      BY <3>1, UnpackedIs
    <3>2. CASE ~packedOK
      BY <1>2, <3>2, NoArray DEF HasArray
    <3>3. QED
      BY <3>1, <3>2
  <2> HIDE DEF s
  <2>3. /\ vectors' \in Seq(Slice)
        /\ Len(vectors') = Len(vectors) + 1
        /\ \A i \in 1 .. Len(vectors) : vectors'[i] = s[i]
        /\ vectors'[Len(vectors) + 1] = Own(v)
    BY <1>3, <2>1, <2>2, AppendIs
  <2>4. \A i \in 1 .. Len(vectors') : vectors'[i].slot = 0 /\ vectors'[i].own \in Vec
    BY <1>2, <1>3, <2>2, <2>3
  <2>5. Layout' /\ \A i \in 1 .. Len(vectors') : View(i)' = vectors'[i].own
    BY <2>1, <2>3, <2>4, PrivateLayout
  <2>6. QED
    BY <1>2, <1>3, <2>2, <2>3, <2>5
<1>7. QED
  BY <1>4, <1>5, <1>6 DEF AppendVector

\* Replacing a vector, in place or after unpacking, changes what no other
\* slice shows.
LEMMA ReplaceLayout ==
  ASSUME Layout, NEW v \in Vec, NEW i \in 1 .. Len(vectors), ReplaceAt(i, v)
  PROVE  /\ Layout'
         /\ Len(vectors') = Len(vectors)
         /\ \A j \in 1 .. Len(vectors) : View(j)' = IF j = i THEN v ELSE View(j)
<1>1. vectors \in Seq(Slice) /\ Len(vectors) \in Nat /\ i \in 1 .. Len(vectors)
  BY DEF Layout
<1>2. Own(v) \in Slice /\ Own(v).slot = 0 /\ Own(v).own = v
  BY SliceForms
<1>3. CASE packedOK /\ Len(v) = dims /\ dims > 0
  <2>1. /\ packed' = [packed EXCEPT ![i] = v]
        /\ vectors' = [vectors EXCEPT ![i] = Window(i)]
        /\ dims' = dims /\ packedOK' = packedOK
    BY <1>3 DEF ReplaceAt
  <2>2. /\ packed \in Seq(Vec) /\ Len(packed) = Len(vectors) /\ dims \in Nat \ {0} /\ packedOK = TRUE
        /\ \A j \in 1 .. Len(vectors) :
             vectors[j].slot = j /\ Len(packed[j]) = dims /\ View(j) = packed[j]
    BY <1>3, Array DEF HasArray
  <2>3. /\ packed' \in Seq(Vec) /\ Len(packed') = Len(vectors)
        /\ \A j \in 1 .. Len(vectors) : packed'[j] = IF j = i THEN v ELSE packed[j]
    BY <1>1, <2>1, <2>2, ExceptSeq
  <2>4. Window(i) \in Slice /\ Window(i).slot = i
    BY <1>1, SliceForms
  <2>5. /\ vectors' \in Seq(Slice) /\ Len(vectors') = Len(vectors)
        /\ \A j \in 1 .. Len(vectors) : vectors'[j] = IF j = i THEN Window(i) ELSE vectors[j]
    BY <1>1, <2>1, <2>4, ExceptSeq
  <2>6. \A j \in 1 .. Len(vectors') : vectors'[j].slot = j /\ Len(packed'[j]) = dims'
    BY <1>3, <2>1, <2>2, <2>3, <2>4, <2>5
  <2>7. Layout' /\ \A j \in 1 .. Len(vectors') : View(j)' = packed'[j]
    BY <2>1, <2>2, <2>3, <2>5, <2>6, ArrayLayout
  <2>8. QED
    BY <2>2, <2>3, <2>5, <2>7
<1>4. CASE ~(packedOK /\ Len(v) = dims /\ dims > 0)
  <2> DEFINE s == IF packedOK THEN Unpacked ELSE vectors
  <2>1. vectors' = [s EXCEPT ![i] = Own(v)] /\ packed' = <<>> /\ packedOK' = FALSE /\ dims' = 0
    BY <1>4 DEF ReplaceAt
  <2>2. /\ s \in Seq(Slice)
        /\ Len(s) = Len(vectors)
        /\ \A j \in 1 .. Len(vectors) : s[j].slot = 0 /\ s[j].own \in Vec /\ s[j].own = View(j)
    <3>1. CASE packedOK
      BY <3>1, UnpackedIs
    <3>2. CASE ~packedOK
      BY <1>1, <3>2, NoArray DEF HasArray
    <3>3. QED
      BY <3>1, <3>2
  <2> HIDE DEF s
  <2>3. /\ vectors' \in Seq(Slice) /\ Len(vectors') = Len(vectors)
        /\ \A j \in 1 .. Len(vectors) : vectors'[j] = IF j = i THEN Own(v) ELSE s[j]
    BY <1>1, <1>2, <2>1, <2>2, ExceptSeq
  <2>4. \A j \in 1 .. Len(vectors') : vectors'[j].slot = 0 /\ vectors'[j].own \in Vec
    BY <1>2, <2>2, <2>3
  <2>5. Layout' /\ \A j \in 1 .. Len(vectors') : View(j)' = vectors'[j].own
    BY <2>1, <2>3, <2>4, PrivateLayout
  <2>6. QED
    BY <1>2, <2>2, <2>3, <2>5
<1>5. QED
  BY <1>3, <1>4

\* Removing a row moves what the last slice shows to its place.
LEMMA RemoveLayout ==
  ASSUME Layout, NEW i \in 1 .. Len(vectors),
         packed' = CompactedArray(i), vectors' = CompactedSlices(i),
         packedOK' = packedOK,
         dims' = IF packedOK /\ Len(vectors) = 1 THEN 0 ELSE dims
  PROVE  /\ Layout'
         /\ Len(vectors') = Len(vectors) - 1
         /\ \A j \in 1 .. Len(vectors) - 1 :
              View(j)' = IF j = i THEN View(Len(vectors)) ELSE View(j)
<1> DEFINE n == Len(vectors)
<1>0. vectors \in Seq(Slice) /\ packedOK \in BOOLEAN
  BY DEF Layout
<1>1. /\ vectors \in Seq(Slice)
      /\ n \in Nat \ {0} /\ i \in Nat /\ i \in 1 .. n /\ n \in 1 .. n
  BY <1>0
<1>2. CASE HasArray
  <2>1. /\ packed \in Seq(Vec) /\ Len(packed) = Len(vectors) /\ dims \in Nat \ {0} /\ packedOK = TRUE
        /\ \A j \in 1 .. Len(vectors) :
             vectors[j].slot = j /\ Len(packed[j]) = dims /\ View(j) = packed[j]
    BY <1>2, Array
  <2>2. /\ packed' \in Seq(Vec) /\ Len(packed') = Len(vectors) - 1
        /\ \A j \in 1 .. Len(vectors) - 1 :
             packed'[j] = IF j = i THEN packed[Len(vectors)] ELSE packed[j]
    <3>1. packed' = SwapDelete(packed, i)
      BY <1>2 DEF CompactedArray
    <3>2. i \in 1 .. Len(packed)
      BY <1>1, <2>1
    <3>3. QED
      BY <2>1, <3>1, <3>2, SwapDeleteIs
  <2> DEFINE s == [vectors EXCEPT ![i] = Window(i)]
  <2>3. Window(i) \in Slice /\ Window(i).slot = i
    BY <1>1, SliceForms
  <2>4. /\ s \in Seq(Slice) /\ Len(s) = Len(vectors)
        /\ \A j \in 1 .. Len(vectors) : s[j] = IF j = i THEN Window(i) ELSE vectors[j]
    BY <1>1, <2>3, ExceptSeq
  <2>5. vectors' = SubSeq(s, 1, Len(vectors) - 1)
    BY <1>2 DEF CompactedSlices
  <2> HIDE DEF s
  <2>6. /\ vectors' \in Seq(Slice) /\ Len(vectors') = Len(vectors) - 1
        /\ \A j \in 1 .. Len(vectors) - 1 : vectors'[j] = s[j]
    BY <1>1, <2>4, <2>5
  <2>7. CASE Len(vectors) = 1
    <3>1. packed' = <<>> /\ dims' = 0
      BY <2>1, <2>2, <2>7
    <3>2. Layout'
      BY <2>1, <2>6, <2>7, <3>1, PrivateLayout
    <3>3. QED
      BY <2>6, <2>7, <3>2
  <2>8. CASE Len(vectors) > 1
    <3>1. dims' = dims /\ packedOK' = TRUE
      BY <2>1, <2>8
    <3>2. \A j \in 1 .. Len(vectors') : vectors'[j].slot = j /\ Len(packed'[j]) = dims'
      <4> SUFFICES ASSUME NEW j \in 1 .. n - 1
                   PROVE  vectors'[j].slot = j /\ Len(packed'[j]) = dims
        BY <2>6, <3>1
      <4>1. j \in 1 .. n /\ n \in 1 .. n
        BY <1>1
      <4>2. vectors'[j].slot = j
        BY <2>1, <2>3, <2>4, <2>6, <4>1
      <4>3. Len(packed'[j]) = dims
        BY <2>1, <2>2, <4>1
      <4>4. QED
        BY <4>2, <4>3
    <3>3. Layout' /\ \A j \in 1 .. Len(vectors') : View(j)' = packed'[j]
      BY <2>1, <2>2, <2>6, <3>1, <3>2, ArrayLayout
    <3>4. \A j \in 1 .. n - 1 : j \in 1 .. n /\ j \in 1 .. Len(vectors')
      BY <1>1, <2>6
    <3>5. View(n) = packed[n] /\ \A j \in 1 .. n - 1 : View(j) = packed[j] /\ View(j)' = packed'[j]
      BY <1>1, <2>1, <3>3, <3>4
    <3>6. QED
      BY <2>2, <2>6, <3>3, <3>5
  <2>9. n = 1 \/ n > 1
    BY <1>1
  <2>10. QED
    BY <2>7, <2>8, <2>9
<1>3. CASE ~HasArray
  <2>1. /\ packed = <<>> /\ dims = 0
        /\ \A j \in 1 .. Len(vectors) :
             vectors[j].slot = 0 /\ vectors[j].own \in Vec /\ View(j) = vectors[j].own
        /\ packedOK => \A j \in 1 .. Len(vectors) : vectors[j].own = <<>>
    BY <1>3, NoArray
  <2>2. packed' = <<>> /\ dims' = 0 /\ packedOK' = packedOK
    BY <1>3, <2>1 DEF CompactedArray
  <2>3. /\ vectors' \in Seq(Slice) /\ Len(vectors') = Len(vectors) - 1
        /\ \A j \in 1 .. Len(vectors) - 1 :
             vectors'[j] = IF j = i THEN vectors[Len(vectors)] ELSE vectors[j]
    BY <1>1, <1>3, SwapDeleteIs DEF CompactedSlices
  <2>4. \A j \in 1 .. Len(vectors') :
          /\ vectors'[j].slot = 0 /\ vectors'[j].own \in Vec
          /\ packedOK => vectors'[j].own = <<>>
    BY <1>1, <2>1, <2>3
  <2>5. Layout' /\ \A j \in 1 .. Len(vectors') : View(j)' = vectors'[j].own
    BY <1>0, <2>2, <2>3, <2>4, PrivateLayout
  <2>6. QED
    BY <1>1, <2>1, <2>3, <2>5
<1>4. QED
  BY <1>2, <1>3

\* A restored store shows the vectors of the file.
LEMMA RestoreLayout ==
  ASSUME NEW data, data.vecs \in Seq(Vec), Restore(data)
  PROVE  /\ Layout'
         /\ Len(vectors') = Len(data.vecs)
         /\ \A i \in 1 .. Len(data.vecs) : View(i)' = data.vecs[i]
<1> DEFINE vecs == data.vecs
           array == Uniform(vecs) /\ vecs # <<>> /\ Len(vecs[1]) > 0
<1>1. /\ packedOK' = Uniform(vecs)
      /\ packed' = IF array THEN vecs ELSE <<>>
      /\ dims' = IF array THEN Len(vecs[1]) ELSE 0
      /\ vectors' = [i \in DOMAIN vecs |-> IF array THEN Window(i) ELSE Own(vecs[i])]
  BY DEF Restore
<1>2. vecs \in Seq(Vec) /\ DOMAIN vecs = 1 .. Len(vecs) /\ Len(vecs) \in Nat
  OBVIOUS
<1>3. \A i \in 1 .. Len(vecs) :
        /\ vecs[i] \in Vec
        /\ Len(vecs[i]) \in Nat /\ (Len(vecs[i]) = 0 => vecs[i] = <<>>)
        /\ Window(i) \in Slice /\ Window(i).slot = i
        /\ Own(vecs[i]) \in Slice /\ Own(vecs[i]).slot = 0 /\ Own(vecs[i]).own = vecs[i]
  BY <1>2, VecLen, SliceForms
<1>4. Uniform(vecs) = \A i \in 1 .. Len(vecs) : Len(vecs[i]) = Len(vecs[1])
  BY <1>2 DEF Uniform
<1>5. packedOK' \in BOOLEAN
  BY <1>1 DEF Uniform
<1> HIDE DEF vecs
<1>6. CASE array
  <2>1. /\ vectors' \in Seq(Slice) /\ Len(vectors') = Len(vecs)
        /\ \A i \in 1 .. Len(vecs) : vectors'[i] = Window(i)
    BY <1>1, <1>2, <1>3, <1>6
  <2>2. packed' = vecs /\ dims' = Len(vecs[1]) /\ packedOK' = TRUE
    BY <1>1, <1>6 DEF Uniform
  <2>3. 1 \in 1 .. Len(vecs)
    BY <1>2, <1>6
  <2>4. \A i \in 1 .. Len(vectors') : vectors'[i].slot = i /\ Len(packed'[i]) = dims'
    BY <1>3, <1>4, <1>6, <2>1, <2>2
  <2>5. dims' \in Nat \ {0}
    BY <1>3, <1>6, <2>2, <2>3
  <2>6. Layout' /\ \A i \in 1 .. Len(vectors') : View(i)' = packed'[i]
    BY <1>2, <2>1, <2>2, <2>4, <2>5, ArrayLayout
  <2>7. QED
    BY <2>1, <2>2, <2>6 DEF vecs
<1>7. CASE ~array
  <2>1. /\ vectors' \in Seq(Slice) /\ Len(vectors') = Len(vecs)
        /\ \A i \in 1 .. Len(vecs) : vectors'[i] = Own(vecs[i])
    BY <1>1, <1>2, <1>3, <1>7
  <2>2. packed' = <<>> /\ dims' = 0
    BY <1>1, <1>7
  <2>3. Uniform(vecs) => \A i \in 1 .. Len(vecs) : vecs[i] = <<>>
    <3> SUFFICES ASSUME Uniform(vecs), NEW i \in 1 .. Len(vecs)
                 PROVE  vecs[i] = <<>>
      OBVIOUS
    <3>1. vecs # <<>> /\ 1 \in 1 .. Len(vecs)
      BY <1>2
    <3>2. Len(vecs[1]) = 0
      BY <1>3, <1>7, <3>1
    <3>3. Len(vecs[i]) = Len(vecs[1])
      BY <1>4
    <3>4. QED
      BY <1>3, <3>2, <3>3
  <2>4. \A i \in 1 .. Len(vectors') :
          /\ vectors'[i].slot = 0 /\ vectors'[i].own \in Vec
          /\ packedOK' => vectors'[i].own = <<>>
    BY <1>1, <1>3, <2>1, <2>3
  <2>5. Layout' /\ \A i \in 1 .. Len(vectors') : View(i)' = vectors'[i].own
    BY <1>5, <2>1, <2>2, <2>4, PrivateLayout
  <2>6. QED
    BY <1>3, <2>1, <2>5 DEF vecs
<1>8. QED
  BY <1>6, <1>7

-----------------------------------------------------------------------------
(* Index: ids, byID. *)

Index ==
  /\ ids \in Seq(Id)
  /\ byID \in [Range(ids) -> 1 .. Len(ids)]
  /\ \A x \in Range(ids) : ids[byID[x]] = x

LEMMA RangeIs ==
  ASSUME NEW S, NEW s \in Seq(S)
  PROVE  /\ \A x : x \in Range(s) <=> \E j \in 1 .. Len(s) : s[j] = x
         /\ Range(s) \subseteq S
         /\ \A j \in 1 .. Len(s) : s[j] \in Range(s)
BY DEF Range

LEMMA RangeOfAppend ==
  ASSUME NEW S, NEW s \in Seq(S), NEW x \in S
  PROVE  Range(Append(s, x)) = Range(s) \cup {x}
<1>1. /\ Append(s, x) \in Seq(S)
      /\ Len(Append(s, x)) = Len(s) + 1 /\ Len(s) \in Nat
      /\ \A j \in 1 .. Len(s) : Append(s, x)[j] = s[j]
      /\ Append(s, x)[Len(s) + 1] = x
  BY AppendIs
<1> DEFINE t == Append(s, x)
<1> HIDE DEF t
<1>2. ASSUME NEW y \in Range(s) \cup {x} PROVE y \in Range(t)
  <2>1. \E j \in 1 .. Len(t) : t[j] = y
    BY <1>1, RangeIs DEF t
  <2>2. QED
    BY <1>1, <2>1, RangeIs DEF t
<1>3. ASSUME NEW y \in Range(t) PROVE y \in Range(s) \cup {x}
  <2>1. PICK j \in 1 .. Len(t) : t[j] = y
    BY <1>1, RangeIs DEF t
  <2>2. j \in 1 .. Len(s) \/ j = Len(s) + 1
    BY <1>1, <2>1 DEF t
  <2>3. QED
    BY <1>1, <2>1, <2>2, RangeIs DEF t
<1>4. QED
  BY <1>2, <1>3 DEF t

\* Noting a new row keeps every entry of another id.
LEMMA AddIndex ==
  ASSUME Index, NEW id \in Id, ids' = Append(ids, id), byID' = NoteID(id, Len(ids) + 1)
  PROVE  /\ Index'
         /\ DOMAIN byID' = DOMAIN byID \cup {id}
         /\ \A x \in DOMAIN byID : byID'[x] = byID[x]
<1>1. /\ ids \in Seq(Id) /\ Len(ids) \in Nat
      /\ byID \in [Range(ids) -> 1 .. Len(ids)]
      /\ \A x \in Range(ids) : ids[byID[x]] = x
  BY DEF Index
<1>2. /\ ids' \in Seq(Id) /\ Len(ids') = Len(ids) + 1
      /\ \A j \in 1 .. Len(ids) : ids'[j] = ids[j]
      /\ ids'[Len(ids) + 1] = id
  BY <1>1, AppendIs
<1>3. Range(ids') = Range(ids) \cup {id}
  BY <1>1, RangeOfAppend
<1>4. /\ byID' \in [Range(ids) \cup {id} -> 1 .. Len(ids) + 1]
      /\ \A x \in Range(ids) : byID'[x] = byID[x]
      /\ id \notin Range(ids) => byID'[id] = Len(ids) + 1
  BY <1>1 DEF NoteID, Has
<1>5. \A x \in Range(ids') : ids'[byID'[x]] = x
  BY <1>1, <1>2, <1>3, <1>4
<1>6. Index'
  BY <1>2, <1>3, <1>4, <1>5 DEF Index
<1>7. QED
  BY <1>1, <1>4, <1>6

\* Deleting a row by swap: the entries of the other ids follow their rows.
LEMMA RemoveIndex ==
  ASSUME Index, NEW id \in DOMAIN byID,
         ids' = SwapDelete(ids, byID[id]), byID' = RepairByID(id, byID[id])
  PROVE  /\ Index'
         /\ DOMAIN byID' \ {id} = DOMAIN byID \ {id}
         /\ \A x \in DOMAIN byID \ {id} :
              /\ byID[x] # byID[id]
              /\ byID'[x] \in 1 .. Len(ids) - 1
              /\ byID'[x] = IF byID[x] = Len(ids) THEN byID[id] ELSE byID[x]
<1> DEFINE i    == byID[id]
           last == Len(ids)
           rest == SwapDelete(ids, i)
<1>1. /\ ids \in Seq(Id)
      /\ byID \in [Range(ids) -> 1 .. last]
      /\ \A x \in Range(ids) : ids[byID[x]] = x
      /\ DOMAIN byID = Range(ids)
      /\ i \in 1 .. last /\ last \in Nat \ {0} /\ i \in Nat
  BY DEF Index
<1>2. /\ rest \in Seq(Id) /\ Len(rest) = last - 1
      /\ \A j \in 1 .. last - 1 : rest[j] = IF j = i THEN ids[last] ELSE ids[j]
  BY <1>1, SwapDeleteIs
<1>3. byID' = [x \in (DOMAIN byID \ {id}) \cup ({id} \cap Range(rest)) |->
                 IF x = id THEN FirstAt(rest, x)
                 ELSE IF i # last /\ x = ids[last] /\ byID[x] = last THEN i
                 ELSE byID[x]]
  BY DEF RepairByID
<1>4. ids' = rest
  OBVIOUS
<1> HIDE DEF rest
<1>5. \A x \in DOMAIN byID \ {id} :
        /\ byID[x] \in 1 .. last /\ byID[x] # i
        /\ byID'[x] = IF byID[x] = last THEN i ELSE byID[x]
        /\ byID'[x] \in 1 .. last - 1
        /\ rest[byID'[x]] = x
  <2> SUFFICES ASSUME NEW x \in DOMAIN byID \ {id}
               PROVE  /\ byID[x] \in 1 .. last /\ byID[x] # i
                      /\ byID'[x] = IF byID[x] = last THEN i ELSE byID[x]
                      /\ byID'[x] \in 1 .. last - 1
                      /\ rest[byID'[x]] = x
    OBVIOUS
  <2>1. byID[x] \in 1 .. last /\ ids[byID[x]] = x /\ ids[i] = id /\ byID[x] # i
    BY <1>1
  <2>2. byID'[x] = IF i # last /\ x = ids[last] /\ byID[x] = last THEN i ELSE byID[x]
    BY <1>3
  <2>3. byID'[x] = IF byID[x] = last THEN i ELSE byID[x]
    BY <2>1, <2>2
  <2>4. QED
    BY <1>1, <1>2, <2>1, <2>3
<1>6. id \in Range(rest) => byID'[id] \in 1 .. last - 1 /\ rest[byID'[id]] = id
  BY <1>2, <1>3, FirstAtExists
<1>7. Range(rest) = (DOMAIN byID \ {id}) \cup ({id} \cap Range(rest))
  <2>1. ASSUME NEW x \in Range(rest) PROVE x \in DOMAIN byID
    <3>1. PICK j \in 1 .. Len(rest) : rest[j] = x
      BY <1>2, RangeIs
    <3>2. x = ids[last] \/ x = ids[j]
      BY <1>2, <3>1
    <3>3. j \in 1 .. last /\ last \in 1 .. last
      BY <1>1, <1>2, <3>1
    <3>4. QED
      BY <1>1, <3>2, <3>3, RangeIs
  <2>2. ASSUME NEW x \in DOMAIN byID \ {id} PROVE x \in Range(rest)
    BY <1>2, <1>5, RangeIs
  <2>3. QED
    BY <2>1, <2>2
<1>8. DOMAIN byID' = Range(rest)
  BY <1>3, <1>7
<1>9. \A x \in Range(rest) : byID'[x] \in 1 .. last - 1 /\ rest[byID'[x]] = x
  BY <1>5, <1>6, <1>7
<1>10. byID' \in [Range(rest) -> 1 .. last - 1]
  <2>1. byID' = [x \in DOMAIN byID' |-> byID'[x]]
    BY <1>3
  <2>2. QED
    BY <1>8, <1>9, <2>1
<1>11. Index'
  BY <1>2, <1>4, <1>9, <1>10 DEF Index
<1>12. QED
  BY <1>5, <1>7, <1>8, <1>11

LEMMA RestoreIndex ==
  ASSUME NEW s \in Seq(Id), ids' = s, byID' = FirstIndices(s)
  PROVE  Index'
<1>1. \A x \in Range(s) : FirstAt(s, x) \in 1 .. Len(s) /\ s[FirstAt(s, x)] = x
  BY FirstAtExists
<1>2. /\ byID' \in [Range(s) -> 1 .. Len(s)]
      /\ \A x \in Range(s) : s[byID'[x]] = x
  BY <1>1 DEF FirstIndices
<1>3. QED
  BY <1>2 DEF Index

-----------------------------------------------------------------------------
(* Bags, by the number of copies of every element; the bag of a sequence.   *)

IsBag(B) == B \in [DOMAIN B -> Nat \ {0}]
Copies(B, x) == IF x \in DOMAIN B THEN B[x] ELSE 0
One(b) == IF b THEN 1 ELSE 0

LEMMA SameCopies ==
  ASSUME NEW A, NEW B, IsBag(A), IsBag(B), \A x : Copies(A, x) = Copies(B, x)
  PROVE  A = B
<1>1. \A x : x \in DOMAIN A <=> x \in DOMAIN B
  BY DEF IsBag, Copies
<1>2. \A x \in DOMAIN A : A[x] = B[x]
  BY <1>1 DEF Copies
<1>3. DOMAIN A = DOMAIN B
  BY <1>1
<1>4. QED
  BY <1>2, <1>3 DEF IsBag

LEMMA CopiesAdd ==
  ASSUME NEW B, IsBag(B), NEW x
  PROVE  /\ IsBag(Bag!BagAdd(B, x))
         /\ \A y : Copies(Bag!BagAdd(B, x), y) = Copies(B, y) + One(y = x)
<1>1. CASE x \in DOMAIN B
  <2>1. Bag!BagAdd(B, x) = [e \in DOMAIN B |-> IF e = x THEN B[e] + 1 ELSE B[e]]
    BY <1>1 DEF Bag!BagAdd
  <2>2. QED
    BY <1>1, <2>1 DEF IsBag, Copies, One
<1>2. CASE x \notin DOMAIN B
  <2>1. Bag!BagAdd(B, x) = [e \in DOMAIN B \cup {x} |-> IF e = x THEN 1 ELSE B[e]]
    BY <1>2 DEF Bag!BagAdd
  <2>2. QED
    BY <1>2, <2>1 DEF IsBag, Copies, One
<1>3. QED
  BY <1>1, <1>2

LEMMA CopiesRemove ==
  ASSUME NEW B, IsBag(B), NEW x \in DOMAIN B
  PROVE  /\ IsBag(Bag!BagRemove(B, x))
         /\ \A y : Copies(Bag!BagRemove(B, x), y) = Copies(B, y) - One(y = x)
<1>1. CASE B[x] = 1
  <2>1. Bag!BagRemove(B, x) = [e \in DOMAIN B \ {x} |-> B[e]]
    BY <1>1 DEF Bag!BagRemove
  <2>2. QED
    BY <1>1, <2>1 DEF IsBag, Copies, One
<1>2. CASE B[x] # 1
  <2>1. Bag!BagRemove(B, x) = [e \in DOMAIN B |-> IF e = x THEN B[e] - 1 ELSE B[e]]
    BY <1>2 DEF Bag!BagRemove
  <2>2. B[x] - 1 \in Nat \ {0}
    BY <1>2 DEF IsBag
  <2>3. QED
    BY <2>1, <2>2 DEF IsBag, Copies, One
<1>3. QED
  BY <1>1, <1>2

\* The places of x in s.
Places(s, x) == {i \in DOMAIN s : s[i] = x}

LEMMA PlacesAreFinite ==
  ASSUME NEW S, NEW s \in Seq(S), NEW x
  PROVE  IsFiniteSet(Places(s, x)) /\ Cardinality(Places(s, x)) \in Nat
<1>1. Places(s, x) \in SUBSET (1 .. Len(s))
  BY DEF Places
<1>2. IsFiniteSet(1 .. Len(s))
  BY FS_Interval
<1>3. QED
  BY <1>1, <1>2, FS_Subset, FS_CardinalityType

LEMMA CopiesInSeq ==
  ASSUME NEW S, NEW s \in Seq(S)
  PROVE  /\ IsBag(SE!ToBag(s)) /\ DOMAIN SE!ToBag(s) = Range(s)
         /\ \A x : Copies(SE!ToBag(s), x) = Cardinality(Places(s, x))
<1>1. \A X : SE!Cardinality(X) = Cardinality(X)
  BY DEF SE!Cardinality, Cardinality
<1>2. SE!ToBag(s) = [x \in Range(s) |-> Cardinality(Places(s, x))]
  BY <1>1 DEF SE!ToBag, SE!Range, Range, Places
<1>3. ASSUME NEW x \in Range(s) PROVE Cardinality(Places(s, x)) \in Nat \ {0}
  <2>1. \E i \in DOMAIN s : s[i] = x
    BY DEF Range
  <2>2. Places(s, x) # {}
    BY <2>1 DEF Places
  <2>3. QED
    BY <2>2, PlacesAreFinite, FS_EmptySet
<1>4. ASSUME NEW x, x \notin Range(s) PROVE Cardinality(Places(s, x)) = 0
  <2>1. Places(s, x) = {}
    BY <1>4 DEF Range, Places
  <2>2. QED
    BY <2>1, FS_EmptySet
<1>5. QED
  BY <1>2, <1>3, <1>4 DEF IsBag, Copies

LEMMA CountAppend ==
  ASSUME NEW S, NEW s \in Seq(S), NEW y \in S, NEW x
  PROVE  Cardinality(Places(Append(s, y), x)) = Cardinality(Places(s, x)) + One(x = y)
<1>1. /\ IsFiniteSet(Places(s, x)) /\ Cardinality(Places(s, x)) \in Nat
      /\ Len(s) + 1 \notin Places(s, x)
  <2>1. Len(s) \in Nat /\ DOMAIN s = 1 .. Len(s)
    OBVIOUS
  <2>2. Len(s) + 1 \notin Places(s, x)
    BY <2>1 DEF Places
  <2>3. QED
    BY <2>2, PlacesAreFinite
<1>2. /\ Append(s, y) \in Seq(S) /\ Len(Append(s, y)) = Len(s) + 1
      /\ \A i \in 1 .. Len(s) : Append(s, y)[i] = s[i]
      /\ Append(s, y)[Len(s) + 1] = y
  BY AppendIs
<1>3. CASE x = y
  <2>1. Places(Append(s, y), x) = Places(s, x) \cup {Len(s) + 1}
    BY <1>2, <1>3 DEF Places
  <2>2. QED
    BY <1>1, <1>3, <2>1, FS_AddElement DEF One
<1>4. CASE x # y
  <2>1. Places(Append(s, y), x) = Places(s, x)
    BY <1>2, <1>4 DEF Places
  <2>2. QED
    BY <1>1, <1>4, <2>1 DEF One
<1>5. QED
  BY <1>3, <1>4

LEMMA CountExcept ==
  ASSUME NEW S, NEW s \in Seq(S), NEW i \in 1 .. Len(s), NEW y \in S, NEW x
  PROVE  Cardinality(Places([s EXCEPT ![i] = y], x))
           = Cardinality(Places(s, x)) - One(x = s[i]) + One(x = y)
<1> DEFINE t == [s EXCEPT ![i] = y]
           rest == Places(s, x) \ {i}
<1>1. t \in Seq(S) /\ Len(t) = Len(s) /\ \A j \in 1 .. Len(s) : t[j] = IF j = i THEN y ELSE s[j]
  BY ExceptSeq
<1>2. IsFiniteSet(Places(s, x)) /\ Cardinality(Places(s, x)) \in Nat
  BY PlacesAreFinite
<1> HIDE DEF t
<1>3. IsFiniteSet(rest) /\ Cardinality(rest) = Cardinality(Places(s, x)) - One(x = s[i])
  <2>1. CASE x = s[i]
    <3>1. i \in Places(s, x)
      BY <2>1 DEF Places
    <3>2. QED
      BY <1>2, <2>1, <3>1, FS_RemoveElement DEF One
  <2>2. CASE x # s[i]
    <3>1. rest = Places(s, x)
      BY <2>2 DEF Places
    <3> HIDE DEF rest
    <3>2. QED
      BY <1>2, <2>2, <3>1 DEF One
  <2>3. QED
    BY <2>1, <2>2
<1>4. Cardinality(Places(t, x)) = Cardinality(rest) + One(x = y)
  <2>1. Cardinality(rest) \in Nat
    BY <1>3, FS_CardinalityType
  <2>2. CASE x = y
    <3>1. Places(t, x) = rest \cup {i} /\ i \notin rest
      BY <1>1, <2>2 DEF Places
    <3> HIDE DEF rest
    <3>2. QED
      BY <1>3, <2>2, <3>1, FS_AddElement DEF One
  <2>3. CASE x # y
    <3>1. Places(t, x) = rest
      BY <1>1, <2>3 DEF Places
    <3> HIDE DEF rest
    <3>2. QED
      BY <2>1, <2>3, <3>1 DEF One
  <2>4. QED
    BY <2>2, <2>3
<1>5. QED
  BY <1>3, <1>4 DEF t

LEMMA BagOfAppend ==
  ASSUME NEW S, NEW s \in Seq(S), NEW y \in S
  PROVE  SE!ToBag(Append(s, y)) = Bag!BagAdd(SE!ToBag(s), y)
<1> DEFINE B == SE!ToBag(s)
           C == SE!ToBag(Append(s, y))
<1>1. IsBag(B) /\ \A x : Copies(B, x) = Cardinality(Places(s, x))
  BY CopiesInSeq
<1>2. Append(s, y) \in Seq(S)
  OBVIOUS
<1>3. IsBag(C) /\ \A x : Copies(C, x) = Cardinality(Places(Append(s, y), x))
  BY <1>2, CopiesInSeq
<1> HIDE DEF B, C
<1>4. IsBag(Bag!BagAdd(B, y)) /\ \A x : Copies(Bag!BagAdd(B, y), x) = Copies(B, x) + One(x = y)
  BY <1>1, CopiesAdd
<1>5. \A x : Copies(C, x) = Copies(Bag!BagAdd(B, y), x)
  BY <1>1, <1>3, <1>4, CountAppend
<1>6. C = Bag!BagAdd(B, y)
  BY <1>3, <1>4, <1>5, SameCopies
<1>7. QED
  BY <1>6 DEF B, C

LEMMA BagOfExcept ==
  ASSUME NEW S, NEW s \in Seq(S), NEW i \in 1 .. Len(s), NEW y \in S
  PROVE  SE!ToBag([s EXCEPT ![i] = y]) = Bag!BagAdd(Bag!BagRemove(SE!ToBag(s), s[i]), y)
<1> DEFINE t == [s EXCEPT ![i] = y]
           B == SE!ToBag(s)
           C == SE!ToBag(t)
           R == Bag!BagRemove(B, s[i])
<1>1. IsBag(B) /\ s[i] \in DOMAIN B /\ \A x : Copies(B, x) = Cardinality(Places(s, x))
  BY CopiesInSeq, RangeIs
<1>2. t \in Seq(S) /\ \A x : Cardinality(Places(t, x))
                             = Cardinality(Places(s, x)) - One(x = s[i]) + One(x = y)
  BY CountExcept, ExceptSeq
<1> HIDE DEF t
<1>3. IsBag(C) /\ \A x : Copies(C, x) = Cardinality(Places(t, x))
  BY <1>2, CopiesInSeq
<1> HIDE DEF B, C
<1>4. IsBag(R) /\ \A x : Copies(R, x) = Copies(B, x) - One(x = s[i])
  BY <1>1, CopiesRemove
<1> HIDE DEF R
<1>5. IsBag(Bag!BagAdd(R, y)) /\ \A x : Copies(Bag!BagAdd(R, y), x) = Copies(R, x) + One(x = y)
  BY <1>4, CopiesAdd
<1>6. \A x : Copies(C, x) = Copies(Bag!BagAdd(R, y), x)
  BY <1>1, <1>2, <1>3, <1>4, <1>5
<1>7. C = Bag!BagAdd(R, y)
  BY <1>3, <1>5, <1>6, SameCopies
<1>8. QED
  BY <1>7 DEF B, C, R, t

LEMMA BagOfSwapDelete ==
  ASSUME NEW S, NEW s \in Seq(S), NEW i \in 1 .. Len(s)
  PROVE  SE!ToBag(SwapDelete(s, i)) = Bag!BagRemove(SE!ToBag(s), s[i])
<1> DEFINE y == s[Len(s)]
           t == [s EXCEPT ![i] = y]
           r == SwapDelete(s, i)
           B == SE!ToBag(s)
           C == SE!ToBag(r)
           R == Bag!BagRemove(B, s[i])
<1>1. IsBag(B) /\ s[i] \in DOMAIN B /\ \A x : Copies(B, x) = Cardinality(Places(s, x))
  BY CopiesInSeq, RangeIs
<1>2. y \in S /\ Len(s) \in Nat \ {0}
  OBVIOUS
<1>3. r \in Seq(S) /\ Len(r) = Len(s) - 1
      /\ \A j \in 1 .. Len(s) - 1 : r[j] = IF j = i THEN y ELSE s[j]
  BY SwapDeleteIs
<1>4. t \in Seq(S) /\ Len(t) = Len(s) /\ \A j \in 1 .. Len(s) : t[j] = IF j = i THEN y ELSE s[j]
  BY <1>2, ExceptSeq
<1>5. \A x : Cardinality(Places(t, x)) = Cardinality(Places(s, x)) - One(x = s[i]) + One(x = y)
  BY <1>2, CountExcept
<1>6. t[Len(s)] = y
  BY <1>2, <1>4
<1> HIDE DEF r, t, y
<1>7. t = Append(r, y)
  <2>1. /\ Append(r, y) \in Seq(S) /\ Len(Append(r, y)) = Len(r) + 1
        /\ \A j \in 1 .. Len(r) : Append(r, y)[j] = r[j]
        /\ Append(r, y)[Len(r) + 1] = y
    BY <1>2, <1>3, AppendIs
  <2>2. Len(t) = Len(Append(r, y))
    BY <1>2, <1>3, <1>4, <2>1
  <2>3. ASSUME NEW j \in 1 .. Len(t) PROVE t[j] = Append(r, y)[j]
    <3>1. CASE j = Len(s)
      BY <1>2, <1>3, <1>6, <2>1, <3>1
    <3>2. CASE j # Len(s)
      BY <1>2, <1>3, <1>4, <2>1, <3>2
    <3>3. QED
      BY <3>1, <3>2
  <2>4. QED
    BY <1>4, <2>1, <2>2, <2>3, SeqEqual
<1>8. \A x : Cardinality(Places(t, x)) = Cardinality(Places(r, x)) + One(x = y)
  BY <1>2, <1>3, <1>7, CountAppend
<1>9. IsBag(C) /\ \A x : Copies(C, x) = Cardinality(Places(r, x))
  BY <1>3, CopiesInSeq
<1>10. \A x : Cardinality(Places(r, x)) \in Nat /\ Cardinality(Places(s, x)) \in Nat
  BY <1>3, PlacesAreFinite
<1> HIDE DEF B, C
<1>11. IsBag(R) /\ \A x : Copies(R, x) = Copies(B, x) - One(x = s[i])
  BY <1>1, CopiesRemove
<1> HIDE DEF R
<1>12. \A x : Copies(C, x) = Copies(R, x)
  BY <1>1, <1>5, <1>8, <1>9, <1>10, <1>11 DEF One
<1>13. C = R
  BY <1>9, <1>11, <1>12, SameCopies
<1>14. QED
  BY <1>13 DEF B, C, R, r, y

-----------------------------------------------------------------------------
(* The inductive invariant: layout, index, the slices parallel to them, and *)
(* the saved file, which Load turns back into a store.                      *)

MetaSlot == Meta \cup {NilMeta}
Norms == {DotSelf(v) : v \in Vec}

Parallel ==
  /\ Len(vectors) = Len(ids)
  /\ norms2 \in Seq(Norms)
  /\ Len(norms2) = Len(ids)
  /\ \A i \in 1 .. Len(ids) : norms2[i] = DotSelf(View(i))
  /\ \/ meta = Nil
     \/ meta \in Seq(MetaSlot) /\ Len(meta) = Len(ids)

FileOK ==
  \/ file = Nil
  \/ /\ file \in StoreData
     /\ Len(file.vecs) = Len(file.ids)
     /\ file.meta = <<>> \/ Len(file.meta) = Len(file.ids)

IInv == Layout /\ Index /\ Parallel /\ metric \in Metric /\ FileOK

LEMMA InitIInv == Init => IInv
<1> SUFFICES ASSUME Init PROVE IInv
  OBVIOUS
<1>1. Layout
  <2>1. vectors = <<>> /\ packed = <<>> /\ dims = 0 /\ packedOK = FALSE
    BY DEF Init
  <2>2. ~HasArray /\ DOMAIN vectors = {}
    BY <2>1 DEF HasArray
  <2>3. PackedLayout
    BY <2>1, <2>2 DEF PackedLayout
  <2>4. vectors \in Seq(Slice) /\ packed \in Seq(Vec)
    BY <2>1
  <2>5. dims \in Nat /\ packedOK \in BOOLEAN
    BY <2>1
  <2>6. QED
    BY <2>3, <2>4, <2>5 DEF Layout
<1>2. Index
  <2>1. ids = <<>> /\ byID = [x \in {} |-> 0]
    BY DEF Init
  <2>2. ids \in Seq(Id) /\ Range(ids) = {}
    BY <2>1 DEF Range
  <2>3. byID \in [Range(ids) -> 1 .. Len(ids)]
    BY <2>1, <2>2
  <2>4. QED
    BY <2>2, <2>3 DEF Index
<1>3. Parallel
  BY DEF Init, Parallel
<1>4. FileOK
  <2>1. CASE file = Nil
    BY <2>1 DEF FileOK
  <2>2. CASE \E m \in Metric : file = EmptyFile(m)
    BY <2>2 DEF FileOK, EmptyFile, StoreData
  <2>3. QED
    BY <2>1, <2>2 DEF Init
<1>5. QED
  BY <1>1, <1>2, <1>3, <1>4 DEF Init, IInv

LEMMA IInvFacts ==
  ASSUME IInv
  PROVE  /\ ids \in Seq(Id) /\ Len(ids) \in Nat /\ Len(vectors) = Len(ids)
         /\ DOMAIN ids = 1 .. Len(ids)
         /\ DOMAIN byID = Range(ids)
         /\ \A x \in DOMAIN byID : byID[x] \in 1 .. Len(ids) /\ x \in Id
         /\ \A i \in 1 .. Len(ids) : View(i) \in Vec
<1>1. /\ ids \in Seq(Id) /\ Len(ids) \in Nat /\ Len(vectors) = Len(ids)
      /\ DOMAIN ids = 1 .. Len(ids)
  BY DEF IInv, Index, Parallel
<1>2. DOMAIN byID = Range(ids) /\ \A x \in DOMAIN byID : byID[x] \in 1 .. Len(ids)
  BY DEF IInv, Index
<1>3. Range(ids) \subseteq Id
  BY <1>1, RangeIs
<1>4. \A i \in 1 .. Len(ids) : View(i) \in Vec
  BY <1>1, ViewIs DEF IInv
<1>5. QED
  BY <1>1, <1>2, <1>3, <1>4

\* The rows of RowBag, and what an invariant store shows of them.
BagRow == [id : Id, vec : Vec, meta : Meta]

LEMMA SeenIs ==
  \A m \in MetaSlot : Seen(m) \in Meta
BY MetaAssumption DEF Seen, MetaSlot

LEMMA RowsAre ==
  ASSUME IInv
  PROVE  /\ Rows \in Seq(BagRow) /\ Len(Rows) = Len(ids) /\ DOMAIN Rows = 1 .. Len(ids)
         /\ \A i \in 1 .. Len(ids) :
              /\ MetaAt(i) \in MetaSlot
              /\ Rows[i] \in BagRow
              /\ Rows[i] = [id |-> ids[i], vec |-> View(i), meta |-> Seen(MetaAt(i))]
<1>1. /\ ids \in Seq(Id) /\ Len(ids) \in Nat /\ DOMAIN ids = 1 .. Len(ids)
      /\ \A i \in 1 .. Len(ids) : View(i) \in Vec
  BY IInvFacts
<1>2. \A i \in 1 .. Len(ids) : MetaAt(i) \in MetaSlot
  BY DEF MetaAt, MetaSlot, IInv, Parallel
<1>3. \A i \in 1 .. Len(ids) :
        [id |-> ids[i], vec |-> View(i), meta |-> Seen(MetaAt(i))] \in BagRow
  BY <1>1, <1>2, SeenIs DEF BagRow
<1>4. Rows = [i \in 1 .. Len(ids) |->
                [id |-> ids[i], vec |-> View(i), meta |-> Seen(MetaAt(i))]]
  BY <1>1 DEF Rows
<1>5. QED
  BY <1>1, <1>2, <1>3, <1>4

LEMMA AddStep ==
  ASSUME IInv, NEW id \in Id, NEW v \in Vec, Add(id, v)
  PROVE  /\ IInv' /\ \A x \in Id \ {id} : Lookup(x)' = Lookup(x)
         /\ Rows' = Append(Rows, [id |-> id, vec |-> v, meta |-> EmptyMeta])
<1> DEFINE n == Len(ids)
<1>1. /\ ids' = Append(ids, id) /\ AppendVector(v) /\ norms2' = Append(norms2, DotSelf(v))
      /\ meta' = GrownMeta /\ byID' = NoteID(id, n + 1)
      /\ metric' = metric /\ file' = file
  BY DEF Add
<1>2. /\ ids \in Seq(Id) /\ n \in Nat /\ Len(vectors) = n
      /\ DOMAIN byID = Range(ids) /\ \A x \in DOMAIN byID : byID[x] \in 1 .. n
  BY IInvFacts
<1>3. /\ Layout' /\ Len(vectors') = n + 1
      /\ \A i \in 1 .. n + 1 : View(i)' = IF i = n + 1 THEN v ELSE View(i)
  BY <1>1, <1>2, AppendLayout DEF IInv
<1>4. /\ Index' /\ DOMAIN byID' = DOMAIN byID \cup {id}
      /\ \A x \in DOMAIN byID : byID'[x] = byID[x]
  BY <1>1, AddIndex DEF IInv
<1>5. Len(ids') = n + 1
  BY <1>1, <1>2, AppendIs
<1>6. /\ norms2' \in Seq(Norms) /\ Len(norms2') = n + 1
      /\ \A i \in 1 .. n : norms2'[i] = norms2[i]
      /\ norms2'[n + 1] = DotSelf(v)
  <2>1. norms2 \in Seq(Norms) /\ Len(norms2) = n /\ DotSelf(v) \in Norms
    BY DEF IInv, Parallel, Norms
  <2>2. QED
    BY <1>1, <2>1, AppendIs
<1>7. \/ meta = Nil /\ meta' = Nil
      \/ /\ meta # Nil /\ meta' # Nil
         /\ meta' \in Seq(MetaSlot) /\ Len(meta') = n + 1
         /\ \A i \in 1 .. n : meta'[i] = meta[i]
         /\ meta'[n + 1] = NilMeta
  <2>1. CASE meta = Nil
    BY <1>1, <2>1 DEF GrownMeta
  <2>2. CASE meta # Nil
    <3>1. meta \in Seq(MetaSlot) /\ Len(meta) = n /\ NilMeta \in MetaSlot
      BY <2>2 DEF IInv, Parallel, MetaSlot
    <3>2. meta' = Append(meta, NilMeta)
      BY <1>1, <2>2 DEF GrownMeta
    <3>3. QED
      BY <2>2, <3>1, <3>2, AppendIs, NilAssumption DEF MetaSlot
  <2>3. QED
    BY <2>1, <2>2
<1>8. \A i \in 1 .. n : norms2[i] = DotSelf(View(i))
  BY <1>2 DEF IInv, Parallel
<1>9. \A i \in 1 .. n + 1 : norms2'[i] = DotSelf(View(i)')
  BY <1>2, <1>3, <1>6, <1>8
<1>10. Parallel'
  BY <1>3, <1>5, <1>6, <1>7, <1>9 DEF Parallel, DotSelf
<1>11. IInv'
  BY <1>1, <1>3, <1>4, <1>10 DEF IInv, FileOK
<1>12. ASSUME NEW x \in Id \ {id} PROVE Lookup(x)' = Lookup(x)
  <2>1. CASE x \in DOMAIN byID
    <3>1. x \in DOMAIN byID' /\ byID'[x] = byID[x] /\ byID[x] \in 1 .. n /\ byID[x] # n + 1
      BY <1>2, <1>4, <2>1
    <3>2. View(byID[x])' = View(byID[x])
      BY <1>2, <1>3, <3>1 DEF View, Deref
    <3>3. MetaAt(byID[x])' = MetaAt(byID[x])
      BY <1>7, <3>1 DEF MetaAt
    <3>4. QED
      BY <2>1, <3>1, <3>2, <3>3 DEF Lookup, Has
  <2>2. CASE x \notin DOMAIN byID
    BY <1>4, <2>2 DEF Lookup, Has
  <2>3. QED
    BY <2>1, <2>2
<1>13. Rows' = Append(Rows, [id |-> id, vec |-> v, meta |-> EmptyMeta])
  <2> DEFINE r == [id |-> id, vec |-> v, meta |-> EmptyMeta]
             s == Append(Rows, r)
  <2>1. /\ Rows \in Seq(BagRow) /\ Len(Rows) = n
        /\ \A j \in 1 .. n :
             Rows[j] = [id |-> ids[j], vec |-> View(j), meta |-> Seen(MetaAt(j))]
    BY RowsAre
  <2>2. r \in BagRow
    BY MetaAssumption DEF BagRow
  <2>3. /\ ids' \in Seq(Id) /\ \A j \in 1 .. n : ids'[j] = ids[j]
        /\ ids'[n + 1] = id
    BY <1>1, <1>2, AppendIs
  <2>4. Rows' = [j \in 1 .. n + 1 |->
                   [id |-> ids'[j], vec |-> View(j)', meta |-> Seen(MetaAt(j)')]]
    BY <1>2, <1>5, <2>3 DEF Rows
  <2>5. \A j \in 1 .. n : MetaAt(j)' = MetaAt(j)
    BY <1>7 DEF MetaAt
  <2>6. \A j \in {n + 1} : MetaAt(j)' = NilMeta
    BY <1>7 DEF MetaAt
  <2>7. Seen(NilMeta) = EmptyMeta
    BY DEF Seen
  <2> HIDE DEF r
  <2>8. /\ s \in Seq(BagRow) /\ Len(s) = n + 1
        /\ \A j \in 1 .. n : s[j] = Rows[j]
        /\ s[n + 1] = r
    BY <2>1, <2>2, AppendIs
  <2> HIDE DEF s
  <2>9. ASSUME NEW j \in 1 .. n + 1 PROVE Rows'[j] = s[j]
    <3>1. CASE j = n + 1
      BY <1>3, <2>3, <2>4, <2>6, <2>7, <2>8, <3>1 DEF r
    <3>2. CASE j # n + 1
      <4>1. j \in 1 .. n
        BY <1>2, <3>2
      <4>2. s[j] = [id |-> ids[j], vec |-> View(j), meta |-> Seen(MetaAt(j))]
        BY <2>1, <2>8, <4>1
      <4>3. ids'[j] = ids[j] /\ View(j)' = View(j) /\ MetaAt(j)' = MetaAt(j)
        BY <1>3, <2>3, <2>5, <3>2, <4>1
      <4>4. QED
        BY <2>4, <4>2, <4>3
    <3>3. QED
      BY <3>1, <3>2
  <2>10. Rows' = [j \in 1 .. n + 1 |-> Rows'[j]] /\ s = [j \in 1 .. n + 1 |-> s[j]]
    BY <2>4, <2>8
  <2>11. Rows' = s
    BY <2>9, <2>10
  <2>12. QED
    BY <2>11 DEF s, r
<1>14. QED
  BY <1>11, <1>12, <1>13

LEMMA ReplaceStep ==
  ASSUME IInv, NEW id \in DOMAIN byID, NEW v \in Vec, ReplaceAt(byID[id], v)
  PROVE  /\ IInv' /\ \A x \in Id \ {id} : Lookup(x)' = Lookup(x)
         /\ Rows' = [Rows EXCEPT ![byID[id]] = [Rows[byID[id]] EXCEPT !.vec = v]]
<1> DEFINE n == Len(ids)
           i == byID[id]
<1>1. /\ norms2' = [norms2 EXCEPT ![i] = DotSelf(v)]
      /\ ids' = ids /\ metric' = metric /\ byID' = byID /\ meta' = meta /\ file' = file
  BY DEF ReplaceAt
<1>2. /\ n \in Nat /\ Len(vectors) = n /\ i \in 1 .. n
      /\ \A x \in DOMAIN byID : byID[x] \in 1 .. n
  BY IInvFacts
<1>3. /\ Layout' /\ Len(vectors') = n
      /\ \A j \in 1 .. n : View(j)' = IF j = i THEN v ELSE View(j)
  BY <1>2, ReplaceLayout DEF IInv
<1>4. /\ norms2 \in Seq(Norms) /\ Len(norms2) = n /\ DotSelf(v) \in Norms
      /\ \A j \in 1 .. n : norms2[j] = DotSelf(View(j))
      /\ \/ meta = Nil
         \/ meta \in Seq(MetaSlot) /\ Len(meta) = Len(ids)
  BY DEF IInv, Parallel, Norms
<1>5. /\ norms2' \in Seq(Norms) /\ Len(norms2') = n
      /\ \A j \in 1 .. n : norms2'[j] = IF j = i THEN DotSelf(v) ELSE norms2[j]
  BY <1>1, <1>2, <1>4, ExceptSeq
<1>6. \A j \in 1 .. n : norms2'[j] = DotSelf(View(j)')
  BY <1>3, <1>4, <1>5
<1>7. Parallel'
  BY <1>1, <1>3, <1>4, <1>5, <1>6 DEF Parallel, DotSelf
<1>8. Index'
  BY <1>1 DEF IInv, Index
<1>9. IInv'
  BY <1>1, <1>3, <1>7, <1>8 DEF IInv, FileOK
<1>10. ASSUME NEW x \in Id \ {id} PROVE Lookup(x)' = Lookup(x)
  <2>1. CASE x \in DOMAIN byID
    <3>1. byID[x] \in 1 .. n /\ byID[x] # i
      BY <1>2, <2>1 DEF IInv, Index
    <3>2. View(byID[x])' = View(byID[x])
      BY <1>1, <1>3, <3>1 DEF View, Deref
    <3>3. QED
      BY <1>1, <3>2 DEF Lookup, Has, MetaAt
  <2>2. CASE x \notin DOMAIN byID
    BY <1>1, <2>2 DEF Lookup, Has
  <2>3. QED
    BY <2>1, <2>2
<1>11. Rows' = [Rows EXCEPT ![i] = [Rows[i] EXCEPT !.vec = v]]
  <2> DEFINE r == [Rows[i] EXCEPT !.vec = v]
             s == [Rows EXCEPT ![i] = r]
  <2>1. /\ Rows \in Seq(BagRow) /\ Len(Rows) = n
        /\ \A j \in 1 .. n :
             Rows[j] = [id |-> ids[j], vec |-> View(j), meta |-> Seen(MetaAt(j))]
    BY RowsAre
  <2>2. Rows[i] \in BagRow
    BY <1>2, RowsAre
  <2>3. r \in BagRow /\ r = [id |-> ids[i], vec |-> v, meta |-> Seen(MetaAt(i))]
    <3>1. Rows[i] = [id |-> ids[i], vec |-> View(i), meta |-> Seen(MetaAt(i))]
      BY <1>2, <2>1
    <3>2. r = [id |-> ids[i], vec |-> v, meta |-> Seen(MetaAt(i))]
      BY <3>1
    <3>3. ids[i] \in Id /\ Seen(MetaAt(i)) \in Meta
      BY <2>2, <3>1 DEF BagRow
    <3>4. QED
      BY <3>2, <3>3 DEF BagRow
  <2>4. DOMAIN ids' = 1 .. n
    BY <1>1, IInvFacts
  <2>5. Rows' = [j \in 1 .. n |->
                   [id |-> ids'[j], vec |-> View(j)', meta |-> Seen(MetaAt(j)')]]
    BY <2>4 DEF Rows
  <2>6. \A j \in 1 .. n : MetaAt(j)' = MetaAt(j)
    BY <1>1 DEF MetaAt
  <2> HIDE DEF r, i
  <2>7. /\ s \in Seq(BagRow) /\ Len(s) = n
        /\ \A j \in 1 .. n : s[j] = IF j = i THEN r ELSE Rows[j]
    BY <1>2, <2>1, <2>3, ExceptSeq
  <2> HIDE DEF s
  <2>8. ASSUME NEW j \in 1 .. n PROVE Rows'[j] = s[j]
    <3>1. CASE j = i
      BY <1>1, <1>3, <2>3, <2>5, <2>6, <2>7, <3>1
    <3>2. CASE j # i
      BY <1>1, <1>3, <2>1, <2>5, <2>6, <2>7, <3>2
    <3>3. QED
      BY <3>1, <3>2
  <2>9. Rows' = [j \in 1 .. n |-> Rows'[j]] /\ s = [j \in 1 .. n |-> s[j]]
    BY <2>5, <2>7
  <2>10. Rows' = s
    BY <2>8, <2>9
  <2>11. QED
    BY <2>10 DEF s, r
<1>12. QED
  BY <1>9, <1>10, <1>11

LEMMA RemoveStep ==
  ASSUME IInv, NEW id, Remove(id)
  PROVE  /\ IInv' /\ \A x \in Id \ {id} : Lookup(x)' = Lookup(x)
         /\ Rows' = SwapDelete(Rows, byID[id])
<1> DEFINE n == Len(ids)
           i == byID[id]
<1>1. /\ id \in DOMAIN byID
      /\ ids' = SwapDelete(ids, i) /\ packed' = CompactedArray(i)
      /\ vectors' = CompactedSlices(i) /\ norms2' = SwapDelete(norms2, i)
      /\ meta' = IF meta = Nil THEN Nil ELSE SwapDelete(meta, i)
      /\ byID' = RepairByID(id, i)
      /\ dims' = IF packedOK /\ n = 1 THEN 0 ELSE dims
      /\ metric' = metric /\ packedOK' = packedOK /\ file' = file
  BY DEF Remove, Has
<1>2. /\ ids \in Seq(Id) /\ n \in Nat /\ Len(vectors) = n /\ i \in 1 .. n /\ n \in 1 .. n
      /\ \A x \in DOMAIN byID : byID[x] \in 1 .. n
  BY <1>1, IInvFacts
<1>3. /\ Layout' /\ Len(vectors') = n - 1
      /\ \A j \in 1 .. n - 1 : View(j)' = IF j = i THEN View(n) ELSE View(j)
  <2>1. Layout /\ i \in 1 .. Len(vectors) /\ dims' = IF packedOK /\ Len(vectors) = 1 THEN 0 ELSE dims
    BY <1>1, <1>2 DEF IInv
  <2>2. /\ Layout' /\ Len(vectors') = Len(vectors) - 1
        /\ \A j \in 1 .. Len(vectors) - 1 :
             View(j)' = IF j = i THEN View(Len(vectors)) ELSE View(j)
    BY <1>1, <2>1, RemoveLayout
  <2>3. QED
    BY <1>2, <2>2
<1>4. /\ Index'
      /\ DOMAIN byID' \ {id} = DOMAIN byID \ {id}
      /\ \A x \in DOMAIN byID \ {id} :
           /\ byID[x] # i
           /\ byID'[x] \in 1 .. n - 1
           /\ byID'[x] = IF byID[x] = n THEN i ELSE byID[x]
  BY <1>1, RemoveIndex DEF IInv
<1>5. Len(ids') = n - 1
  BY <1>1, <1>2, SwapDeleteIs
<1>6. /\ norms2' \in Seq(Norms) /\ Len(norms2') = n - 1
      /\ \A j \in 1 .. n - 1 : norms2'[j] = IF j = i THEN norms2[n] ELSE norms2[j]
  <2>1. norms2 \in Seq(Norms) /\ Len(norms2) = n
    BY DEF IInv, Parallel
  <2>2. QED
    BY <1>1, <1>2, <2>1, SwapDeleteIs
<1>7. \/ meta = Nil /\ meta' = Nil
      \/ /\ meta # Nil /\ meta' # Nil
         /\ meta' \in Seq(MetaSlot) /\ Len(meta') = n - 1
         /\ \A j \in 1 .. n - 1 : meta'[j] = IF j = i THEN meta[n] ELSE meta[j]
  <2>1. CASE meta = Nil
    BY <1>1, <2>1
  <2>2. CASE meta # Nil
    <3>1. meta \in Seq(MetaSlot) /\ Len(meta) = n /\ i \in 1 .. Len(meta)
      BY <1>2, <2>2 DEF IInv, Parallel
    <3>2. meta' = SwapDelete(meta, i)
      BY <1>1, <2>2
    <3> HIDE DEF i
    <3>3. /\ meta' \in Seq(MetaSlot) /\ Len(meta') = Len(meta) - 1
          /\ \A j \in 1 .. Len(meta) - 1 : meta'[j] = IF j = i THEN meta[Len(meta)] ELSE meta[j]
      BY <3>1, <3>2, SwapDeleteIs
    <3>4. QED
      BY <2>2, <3>1, <3>3, NilAssumption DEF MetaSlot
  <2>3. QED
    BY <2>1, <2>2
<1>8. \A j \in 1 .. n : norms2[j] = DotSelf(View(j))
  BY DEF IInv, Parallel
<1>9. \A j \in 1 .. n - 1 : norms2'[j] = DotSelf(View(j)')
  BY <1>2, <1>3, <1>6, <1>8
<1>10. Parallel'
  BY <1>3, <1>5, <1>6, <1>7, <1>9 DEF Parallel, DotSelf
<1>11. IInv'
  BY <1>1, <1>3, <1>4, <1>10 DEF IInv, FileOK
<1>12. ASSUME NEW x \in Id \ {id} PROVE Lookup(x)' = Lookup(x)
  <2>1. CASE x \in DOMAIN byID
    <3> DEFINE k == byID[x]
               l == byID'[x]
    <3>1. x \in DOMAIN byID' /\ k \in 1 .. n /\ l \in 1 .. n - 1 /\ k = IF l = i THEN n ELSE l
      BY <1>2, <1>4, <2>1
    <3>2. View(byID[x])' = View(k)
      BY <1>2, <1>3, <3>1 DEF View, Deref
    <3>3. MetaAt(byID[x])' = MetaAt(k)
      BY <1>2, <1>7, <3>1 DEF MetaAt
    <3>4. QED
      BY <2>1, <3>1, <3>2, <3>3 DEF Lookup, Has
  <2>2. CASE x \notin DOMAIN byID
    BY <1>4, <2>2 DEF Lookup, Has
  <2>3. QED
    BY <2>1, <2>2
<1>13. Rows' = SwapDelete(Rows, i)
  <2> DEFINE s == SwapDelete(Rows, i)
  <2>1. /\ Rows \in Seq(BagRow) /\ Len(Rows) = n
        /\ \A j \in 1 .. n :
             Rows[j] = [id |-> ids[j], vec |-> View(j), meta |-> Seen(MetaAt(j))]
    BY RowsAre
  <2>2. /\ ids' \in Seq(Id) /\ DOMAIN ids' = 1 .. n - 1
        /\ \A j \in 1 .. n - 1 : ids'[j] = IF j = i THEN ids[n] ELSE ids[j]
    BY <1>1, <1>2, SwapDeleteIs
  <2>3. Rows' = [j \in 1 .. n - 1 |->
                   [id |-> ids'[j], vec |-> View(j)', meta |-> Seen(MetaAt(j)')]]
    BY <2>2 DEF Rows
  <2>4. \A j \in 1 .. n - 1 : MetaAt(j)' = IF j = i THEN MetaAt(n) ELSE MetaAt(j)
    BY <1>7 DEF MetaAt
  <2> HIDE DEF i
  <2>5. /\ s \in Seq(BagRow) /\ Len(s) = n - 1
        /\ \A j \in 1 .. n - 1 : s[j] = IF j = i THEN Rows[n] ELSE Rows[j]
    <3>1. i \in 1 .. Len(Rows)
      BY <1>2, <2>1
    <3>2. /\ s \in Seq(BagRow) /\ Len(s) = Len(Rows) - 1
          /\ \A j \in 1 .. Len(Rows) - 1 : s[j] = IF j = i THEN Rows[Len(Rows)] ELSE Rows[j]
      BY <2>1, <3>1, SwapDeleteIs
    <3> HIDE DEF s
    <3>3. QED
      BY <2>1, <3>2
  <2> HIDE DEF s
  <2>6. ASSUME NEW j \in 1 .. n - 1 PROVE Rows'[j] = s[j]
    <3>1. CASE j = i
      <4>1. s[j] = [id |-> ids[n], vec |-> View(n), meta |-> Seen(MetaAt(n))]
        BY <1>2, <2>1, <2>5, <3>1
      <4>2. ids'[j] = ids[n] /\ View(j)' = View(n) /\ MetaAt(j)' = MetaAt(n)
        BY <1>3, <2>2, <2>4, <3>1
      <4>3. QED
        BY <2>3, <4>1, <4>2
    <3>2. CASE j # i
      <4>1. s[j] = [id |-> ids[j], vec |-> View(j), meta |-> Seen(MetaAt(j))]
        BY <1>2, <2>1, <2>5, <3>2
      <4>2. ids'[j] = ids[j] /\ View(j)' = View(j) /\ MetaAt(j)' = MetaAt(j)
        BY <1>3, <2>2, <2>4, <3>2
      <4>3. QED
        BY <2>3, <4>1, <4>2
    <3>3. QED
      BY <3>1, <3>2
  <2>7. Rows' = [j \in 1 .. n - 1 |-> Rows'[j]] /\ s = [j \in 1 .. n - 1 |-> s[j]]
    BY <2>3, <2>5
  <2>8. Rows' = s
    BY <2>6, <2>7
  <2>9. QED
    BY <2>8 DEF s
<1>14. QED
  BY <1>11, <1>12, <1>13

LEMMA SetMetaStep ==
  ASSUME IInv, NEW id, NEW m \in MetaSlot, SetMeta(id, m)
  PROVE  /\ IInv' /\ \A x \in Id \ {id} : Lookup(x)' = Lookup(x)
         /\ Rows' = [Rows EXCEPT ![byID[id]] = [Rows[byID[id]] EXCEPT !.meta = Seen(m)]]
<1> DEFINE n == Len(ids)
           i == byID[id]
           all == [j \in DOMAIN ids |-> MetaAt(j)]
<1>1. /\ id \in DOMAIN byID /\ meta' = [all EXCEPT ![i] = m]
      /\ UNCHANGED <<ids, vectors, metric, packed, dims, packedOK, norms2, byID, file>>
  BY DEF SetMeta, Has
<1>2. /\ n \in Nat /\ i \in 1 .. n /\ DOMAIN ids = 1 .. n
      /\ \A x \in DOMAIN byID : byID[x] \in 1 .. n
  BY <1>1, IInvFacts
<1>3. \A j \in 1 .. n : MetaAt(j) \in MetaSlot
  BY DEF MetaAt, MetaSlot, IInv, Parallel
<1>4. all \in Seq(MetaSlot) /\ Len(all) = n /\ \A j \in 1 .. n : all[j] = MetaAt(j)
  BY <1>2, <1>3
<1> HIDE DEF all
<1>5. /\ meta' \in Seq(MetaSlot) /\ Len(meta') = n
      /\ \A j \in 1 .. n : meta'[j] = IF j = i THEN m ELSE MetaAt(j)
  BY <1>1, <1>2, <1>4, ExceptSeq
<1>6. meta' # Nil
  BY <1>5, NilAssumption DEF MetaSlot
<1>7. Layout'
  BY <1>1 DEF IInv, Layout, PackedLayout, HasArray
<1>8. Index'
  BY <1>1 DEF IInv, Index
<1>9. \A j \in 1 .. n : View(j)' = View(j)
  BY <1>1 DEF View, Deref
<1>10. Parallel'
  BY <1>1, <1>5, <1>9 DEF IInv, Parallel, DotSelf
<1>11. IInv'
  BY <1>1, <1>7, <1>8, <1>10 DEF IInv, FileOK
<1>12. ASSUME NEW x \in Id \ {id} PROVE Lookup(x)' = Lookup(x)
  <2>1. CASE x \in DOMAIN byID
    <3>1. byID[x] \in 1 .. n /\ byID[x] # i
      BY <1>1, <1>2, <2>1 DEF IInv, Index
    <3>2. View(byID[x])' = View(byID[x])
      BY <1>1 DEF View, Deref
    <3>3. MetaAt(byID[x])' = MetaAt(byID[x])
      <4>1. MetaAt(byID[x])' = meta'[byID[x]]
        BY <1>1, <1>6 DEF MetaAt
      <4>2. QED
        BY <1>5, <3>1, <4>1
    <3>4. QED
      BY <1>1, <3>2, <3>3 DEF Lookup, Has
  <2>2. CASE x \notin DOMAIN byID
    BY <1>1, <2>2 DEF Lookup, Has
  <2>3. QED
    BY <2>1, <2>2
<1>13. Rows' = [Rows EXCEPT ![i] = [Rows[i] EXCEPT !.meta = Seen(m)]]
  <2> DEFINE r == [Rows[i] EXCEPT !.meta = Seen(m)]
             s == [Rows EXCEPT ![i] = r]
  <2>1. /\ Rows \in Seq(BagRow) /\ Len(Rows) = n
        /\ \A j \in 1 .. n :
             Rows[j] = [id |-> ids[j], vec |-> View(j), meta |-> Seen(MetaAt(j))]
    BY RowsAre
  <2>2. Rows[i] \in BagRow
    BY <1>2, RowsAre
  <2>3. r \in BagRow /\ r = [id |-> ids[i], vec |-> View(i), meta |-> Seen(m)]
    <3>1. Rows[i] = [id |-> ids[i], vec |-> View(i), meta |-> Seen(MetaAt(i))]
      BY <1>2, <2>1
    <3>2. r = [id |-> ids[i], vec |-> View(i), meta |-> Seen(m)]
      BY <3>1
    <3>3. ids[i] \in Id /\ View(i) \in Vec /\ Seen(m) \in Meta
      BY <2>2, <3>1, SeenIs DEF BagRow
    <3>4. QED
      BY <3>2, <3>3 DEF BagRow
  <2>4. Rows' = [j \in 1 .. n |->
                   [id |-> ids'[j], vec |-> View(j)', meta |-> Seen(MetaAt(j)')]]
    BY <1>1, <1>2 DEF Rows
  <2>5. \A j \in 1 .. n : MetaAt(j)' = IF j = i THEN m ELSE MetaAt(j)
    <3>1. \A j \in 1 .. n : MetaAt(j)' = meta'[j]
      BY <1>6 DEF MetaAt
    <3>2. QED
      BY <1>5, <3>1
  <2> HIDE DEF r, i
  <2>6. /\ s \in Seq(BagRow) /\ Len(s) = n
        /\ \A j \in 1 .. n : s[j] = IF j = i THEN r ELSE Rows[j]
    BY <1>2, <2>1, <2>3, ExceptSeq
  <2> HIDE DEF s
  <2>7. ASSUME NEW j \in 1 .. n PROVE Rows'[j] = s[j]
    <3>1. CASE j = i
      BY <1>1, <1>9, <2>3, <2>4, <2>5, <2>6, <3>1
    <3>2. CASE j # i
      BY <1>1, <1>9, <2>1, <2>4, <2>5, <2>6, <3>2
    <3>3. QED
      BY <3>1, <3>2
  <2>8. Rows' = [j \in 1 .. n |-> Rows'[j]] /\ s = [j \in 1 .. n |-> s[j]]
    BY <2>4, <2>6
  <2>9. Rows' = s
    BY <2>7, <2>8
  <2>10. QED
    BY <2>9 DEF s, r
<1>14. QED
  BY <1>11, <1>12, <1>13

LEMMA ClearStep ==
  ASSUME IInv, Clear
  PROVE  IInv' /\ Rows' = <<>> /\ RowsByID' = [x \in {} |-> x]
<1>1. /\ ids' = <<>> /\ vectors' = <<>> /\ packed' = <<>> /\ norms2' = <<>>
      /\ packedOK' = FALSE /\ dims' = 0 /\ byID' = [x \in {} |-> 0] /\ meta' = Nil
      /\ metric' = metric /\ file' = file
  BY DEF Clear
<1>2. Layout'
  <2>1. vectors' \in Seq(Slice) /\ 1 .. Len(vectors') = {}
    BY <1>1
  <2>2. packedOK' \in BOOLEAN /\ ~packedOK'
    BY <1>1
  <2>3. QED
    BY <1>1, <2>1, <2>2, PrivateLayout
<1>3. Index'
  <2>1. ids' \in Seq(Id) /\ Range(ids') = {}
    BY <1>1 DEF Range
  <2>2. byID' \in [Range(ids') -> 1 .. Len(ids')]
    BY <1>1, <2>1
  <2>3. QED
    BY <2>1, <2>2 DEF Index
<1>4. Parallel'
  BY <1>1 DEF Parallel
<1>5. IInv'
  BY <1>1, <1>2, <1>3, <1>4 DEF IInv, FileOK
<1>6. Rows' = <<>>
  BY <1>1 DEF Rows
<1>7. RowsByID' = [x \in {} |-> x]
  BY <1>1 DEF RowsByID
<1>8. QED
  BY <1>5, <1>6, <1>7

LEMMA SaveStep ==
  ASSUME IInv, NEW fmt, Save(fmt)
  PROVE  /\ IInv' /\ Rows' = Rows /\ RowsByID' = RowsByID
         /\ Saved' = {[rows |-> SE!ToBag(Rows), metric |-> metric]}
<1>1. /\ UNCHANGED <<ids, vectors, metric, packed, dims, packedOK, norms2, byID, meta>>
      /\ file' = Snapshot(fmt)
  BY DEF Save, storeVars
<1>2. Layout' /\ Index' /\ Parallel' /\ metric' \in Metric
  <2>1. Layout' /\ Index' /\ metric' \in Metric
    BY <1>1 DEF IInv, Layout, PackedLayout, HasArray, Index
  <2>2. \A j \in 1 .. Len(ids) : View(j)' = View(j)
    BY <1>1 DEF View, Deref
  <2>3. Parallel'
    BY <1>1, <2>2 DEF IInv, Parallel, DotSelf
  <2>4. QED
    BY <2>1, <2>3
<1> DEFINE vs == [i \in DOMAIN ids |-> View(i)]
           ms == IF HasAnyMeta THEN [i \in DOMAIN meta |-> Decoded(fmt, meta[i])] ELSE <<>>
<1>3. file' = [ids |-> ids, vecs |-> vs, metric |-> metric, meta |-> ms]
  BY <1>1 DEF Snapshot
<1>4. ids \in Seq(Id) /\ metric \in Metric
  BY DEF IInv, Index
<1>5. vs \in Seq(Vec) /\ Len(vs) = Len(ids)
  BY IInvFacts
<1>6. ms \in Seq(MetaSlot) /\ (ms = <<>> \/ Len(ms) = Len(ids))
  <2>1. CASE HasAnyMeta
    <3>1. meta \in Seq(MetaSlot) /\ Len(meta) = Len(ids)
      BY <2>1 DEF IInv, Parallel, HasAnyMeta
    <3>2. \A i \in 1 .. Len(meta) : Decoded(fmt, meta[i]) \in MetaSlot
      BY <3>1, MetaAssumption DEF Decoded, MetaSlot
    <3>3. ms = [i \in 1 .. Len(meta) |-> Decoded(fmt, meta[i])]
      BY <2>1, <3>1
    <3> HIDE DEF ms
    <3>4. QED
      BY <3>1, <3>2, <3>3
  <2>2. CASE ~HasAnyMeta
    BY <2>2
  <2>3. QED
    BY <2>1, <2>2
<1> HIDE DEF vs, ms
<1>7. FileOK'
  BY <1>3, <1>4, <1>5, <1>6 DEF FileOK, StoreData, MetaSlot
<1>8. IInv'
  BY <1>2, <1>7 DEF IInv
<1>9. Rows' = Rows
  <2>1. \A j \in 1 .. Len(ids) : View(j)' = View(j) /\ MetaAt(j)' = MetaAt(j)
    BY <1>1 DEF View, Deref, MetaAt
  <2>2. DOMAIN ids = 1 .. Len(ids)
    BY IInvFacts
  <2>3. Rows' = [j \in 1 .. Len(ids) |->
                   [id |-> ids[j], vec |-> View(j)', meta |-> Seen(MetaAt(j)')]]
    BY <1>1, <2>2 DEF Rows
  <2>4. QED
    BY <2>1, <2>2, <2>3 DEF Rows
<1>10. RowsByID' = RowsByID
  BY <1>1, <1>9 DEF RowsByID
<1>11. \A j \in 1 .. Len(ids) :
         Seen(MetaAt(j)) = IF ms = <<>> THEN EmptyMeta ELSE Seen(ms[j])
  <2>1. CASE HasAnyMeta
    <3>1. /\ meta # Nil /\ meta \in Seq(MetaSlot) /\ Len(meta) = Len(ids) /\ Len(ids) > 0
      BY <2>1 DEF IInv, Parallel, HasAnyMeta
    <3>2. ms # <<>> /\ \A j \in 1 .. Len(ids) : ms[j] = Decoded(fmt, meta[j])
      BY <2>1, <3>1 DEF ms
    <3>3. \A j \in 1 .. Len(ids) : Seen(Decoded(fmt, meta[j])) = Seen(meta[j])
      BY DEF Seen, Decoded
    <3>4. QED
      BY <3>1, <3>2, <3>3 DEF MetaAt
  <2>2. CASE ~HasAnyMeta
    <3>1. ASSUME NEW j \in 1 .. Len(ids) PROVE MetaAt(j) \in {NilMeta, EmptyMeta}
      <4>1. meta = Nil \/ j \in DOMAIN meta
        BY DEF IInv, Parallel
      <4>2. QED
        BY <2>2, <4>1 DEF HasAnyMeta, MetaAt
    <3>2. ms = <<>>
      BY <2>2 DEF ms
    <3>3. QED
      BY <3>1, <3>2 DEF Seen
  <2>3. QED
    BY <2>1, <2>2
<1>12. SavedRows(file') = Rows
  <2>1. DOMAIN ids = 1 .. Len(ids)
    BY IInvFacts
  <2>2. \A j \in 1 .. Len(ids) : vs[j] = View(j)
    BY <2>1 DEF vs
  <2>3. SavedRows(file') =
          [j \in 1 .. Len(ids) |-> [id |-> ids[j], vec |-> vs[j],
             meta |-> IF ms = <<>> THEN EmptyMeta ELSE Seen(ms[j])]]
    BY <1>3, <2>1 DEF SavedRows
  <2>4. QED
    BY <1>11, <2>1, <2>2, <2>3 DEF Rows
<1>13. file' # Nil
  BY <1>3, <1>4, <1>5, <1>6, NilAssumption DEF StoreData, MetaSlot
<1>14. Saved' = {[rows |-> SE!ToBag(Rows), metric |-> metric]}
  BY <1>3, <1>12, <1>13 DEF Saved
<1>15. QED
  BY <1>8, <1>9, <1>10, <1>14

LEMMA LoadStep ==
  ASSUME IInv, Load
  PROVE  IInv' /\ Rows' = SavedRows(file)
<1>1. /\ file \in [ids : Seq(Id), vecs : Seq(Vec), metric : Metric, meta : Seq(MetaSlot)]
      /\ Len(file.vecs) = Len(file.ids)
      /\ file.meta = <<>> \/ Len(file.meta) = Len(file.ids)
      /\ Restore(file) /\ file' = file
  BY DEF Load, IInv, FileOK, StoreData, MetaSlot
<1> DEFINE vecs == file.vecs
<1>2. /\ ids' = file.ids /\ metric' = file.metric
      /\ meta' = IF file.meta = <<>> THEN Nil ELSE file.meta
      /\ byID' = FirstIndices(file.ids)
      /\ norms2' = [i \in DOMAIN vecs |-> DotSelf(vecs[i])]
  BY <1>1 DEF Restore
<1>3. /\ vecs \in Seq(Vec) /\ Len(vecs) \in Nat /\ DOMAIN vecs = 1 .. Len(vecs)
      /\ file.ids \in Seq(Id) /\ file.metric \in Metric /\ file.meta \in Seq(MetaSlot)
  BY <1>1
<1>4. /\ Layout' /\ Len(vectors') = Len(vecs)
      /\ \A i \in 1 .. Len(vecs) : View(i)' = vecs[i]
  BY <1>1, <1>3, RestoreLayout
<1>5. Index'
  BY <1>2, <1>3, RestoreIndex
<1>6. \A i \in 1 .. Len(vecs) : DotSelf(vecs[i]) \in Norms
  BY <1>3 DEF Norms
<1> HIDE DEF vecs
<1>7. /\ norms2' \in Seq(Norms) /\ Len(norms2') = Len(vecs)
      /\ \A i \in 1 .. Len(vecs) : norms2'[i] = DotSelf(vecs[i])
  BY <1>2, <1>3, <1>6
<1>8. \A i \in 1 .. Len(vecs) : norms2'[i] = DotSelf(View(i)')
  BY <1>4, <1>7
<1>9. Len(ids') = Len(vecs)
  BY <1>1, <1>2 DEF vecs
<1>10. \/ meta' = Nil
       \/ meta' \in Seq(MetaSlot) /\ Len(meta') = Len(ids')
  BY <1>1, <1>2, <1>3
<1>11. Parallel'
  BY <1>4, <1>7, <1>8, <1>9, <1>10 DEF Parallel, DotSelf
<1>12. IInv'
  BY <1>1, <1>2, <1>3, <1>4, <1>5, <1>11 DEF IInv, FileOK
<1>13. Rows' = SavedRows(file)
  <2>1. DOMAIN file.ids = 1 .. Len(vecs) /\ Len(file.ids) = Len(vecs)
    BY <1>1, <1>3 DEF vecs
  <2>2. Rows' = [j \in 1 .. Len(vecs) |->
                   [id |-> file.ids[j], vec |-> View(j)', meta |-> Seen(MetaAt(j)')]]
    BY <1>2, <2>1 DEF Rows
  <2>3. SavedRows(file) = [j \in 1 .. Len(vecs) |->
          [id |-> file.ids[j], vec |-> vecs[j],
           meta |-> IF file.meta = <<>> THEN EmptyMeta ELSE Seen(file.meta[j])]]
    BY <2>1 DEF SavedRows, vecs
  <2>4. \A j \in 1 .. Len(vecs) :
          Seen(MetaAt(j)') = IF file.meta = <<>> THEN EmptyMeta ELSE Seen(file.meta[j])
    <3>1. CASE file.meta = <<>>
      <4>1. \A j \in 1 .. Len(vecs) : MetaAt(j)' = NilMeta
        BY <1>2, <3>1 DEF MetaAt
      <4>2. QED
        BY <3>1, <4>1 DEF Seen
    <3>2. CASE file.meta # <<>>
      <4>1. meta' = file.meta /\ meta' # Nil
        BY <1>2, <1>3, <3>2, NilAssumption DEF MetaSlot
      <4>2. \A j \in 1 .. Len(vecs) : MetaAt(j)' = file.meta[j]
        BY <4>1 DEF MetaAt
      <4>3. QED
        BY <3>2, <4>2
    <3>3. QED
      BY <3>1, <3>2
  <2>5. QED
    BY <1>4, <2>2, <2>3, <2>4
<1>14. QED
  BY <1>12, <1>13

-----------------------------------------------------------------------------
(* Steps and theorems. *)

\* Every operation that names an id keeps the invariant and what Get and
\* Meta return for every other id.
LEMMA OpStep ==
  ASSUME IInv, NEW id \in Id, OpOn(id)
  PROVE  IInv' /\ \A x \in Id \ {id} : Lookup(x)' = Lookup(x)
<1>1. CASE \E v \in Vec : Add(id, v)
  BY <1>1, AddStep
<1>2. CASE \E v \in Vec : AddUnique(id, v)
  BY <1>2, AddStep DEF AddUnique
<1>3. CASE \E v \in Vec : Upsert(id, v)
  <2>1. PICK v \in Vec : Upsert(id, v)
    BY <1>3
  <2>2. CASE Has(id) /\ ReplaceAt(byID[id], v)
    BY <2>2, ReplaceStep DEF Has
  <2>3. CASE ~Has(id) /\ Add(id, v)
    BY <2>3, AddStep
  <2>4. QED
    BY <2>1, <2>2, <2>3 DEF Upsert
<1>4. CASE Remove(id)
  BY <1>4, RemoveStep
<1>5. CASE \E m \in Meta \cup {NilMeta} : SetMeta(id, m)
  BY <1>5, SetMetaStep DEF MetaSlot
<1>6. QED
  BY <1>1, <1>2, <1>3, <1>4, <1>5 DEF OpOn

LEMMA NextIInv == IInv /\ [Next]_vars => IInv'
<1> SUFFICES ASSUME IInv, [Next]_vars PROVE IInv'
  OBVIOUS
<1>1. CASE \E id \in Id : OpOn(id)
  BY <1>1, OpStep
<1>2. CASE Clear
  BY <1>2, ClearStep
<1>3. CASE \E fmt \in Format : Save(fmt)
  BY <1>3, SaveStep
<1>4. CASE Load
  BY <1>4, LoadStep
<1>5. CASE UNCHANGED vars
  <2>1. UNCHANGED <<ids, vectors, metric, packed, dims, packedOK, norms2, byID, meta, file>>
    BY <1>5 DEF vars, storeVars
  <2>2. Layout' /\ Index' /\ metric' \in Metric
    BY <2>1 DEF IInv, Layout, PackedLayout, HasArray, Index
  <2>3. \A j \in 1 .. Len(ids) : View(j)' = View(j)
    BY <2>1 DEF View, Deref
  <2>4. Parallel'
    BY <2>1, <2>3 DEF IInv, Parallel, DotSelf
  <2>5. FileOK'
    BY <2>1 DEF IInv, FileOK
  <2>6. QED
    BY <2>2, <2>4, <2>5 DEF IInv
<1>6. QED
  BY <1>1, <1>2, <1>3, <1>4, <1>5 DEF Next

LEMMA IInvImplies ==
  ASSUME IInv
  PROVE  TypeOK /\ Aligned /\ PackedLayout /\ ScoredRowIsReturnedRow /\ IndexHitsOwnRow
<1>1. /\ ids \in Seq(Id) /\ Len(ids) \in Nat /\ Len(vectors) = Len(ids)
      /\ DOMAIN ids = 1 .. Len(ids)
      /\ DOMAIN byID = Range(ids)
      /\ \A x \in DOMAIN byID : byID[x] \in 1 .. Len(ids) /\ x \in Id
  BY IInvFacts
<1>2. IndexHitsOwnRow
  BY <1>1 DEF IndexHitsOwnRow, IInv, Index
<1>3. Aligned
  BY DEF Aligned, IInv, Parallel
<1>4. PackedLayout
  BY DEF IInv, Layout
<1>5. ScoredRowIsReturnedRow
  <2>1. \A i \in 1 .. Len(ids) : norms2[i] = DotSelf(View(i))
    BY DEF IInv, Parallel
  <2>2. \A i \in 1 .. Len(ids) : HasArray => Row(i) = View(i)
    BY <1>1, Array DEF Row, IInv
  <2>3. \A i \in 1 .. Len(ids) : ~HasArray => Row(i) = View(i)
    BY DEF Row
  <2>4. QED
    BY <1>1, <2>1, <2>2, <2>3 DEF ScoredRowIsReturnedRow
<1>6. TypeOK
  <2>1. \E D \in SUBSET Id : byID \in [D -> Nat \ {0}]
    <3>1. Range(ids) \in SUBSET Id
      BY <1>1
    <3>2. byID \in [Range(ids) -> Nat \ {0}]
      BY DEF IInv, Index
    <3>3. QED
      BY <3>1, <3>2
  <2>2. /\ vectors \in Seq([slot : Nat, own : Vec \cup {<<>>}])
        /\ packed \in Seq(Vec) /\ dims \in Nat /\ packedOK \in BOOLEAN
    BY DEF IInv, Layout, Slice
  <2>3. /\ norms2 \in Seq({DotSelf(v) : v \in Vec})
        /\ meta \in Seq(Meta \cup {NilMeta}) \cup {Nil}
    BY DEF IInv, Parallel, Norms, MetaSlot
  <2>4. file \in StoreData \cup {Nil}
    BY DEF IInv, FileOK
  <2>5. QED
    BY <1>1, <2>1, <2>2, <2>3, <2>4 DEF TypeOK, IInv
<1>7. QED
  BY <1>2, <1>3, <1>4, <1>5, <1>6

LEMMA SpecIInv == Spec => []IInv
BY InitIInv, NextIInv, PTL DEF Spec

\* The store's variables keep their types.
THEOREM TypeCorrect == Spec => []TypeOK
BY SpecIInv, IInvImplies, PTL

\* The parallel slices never get out of step (store.go Add, Remove, SetMeta).
THEOREM RowsStayAligned == Spec => []Aligned
BY SpecIInv, IInvImplies, PTL

\* No slice ever looks at a row of the backing array that is not its own.
THEOREM NoStaleWindow == Spec => []PackedLayout
BY SpecIInv, IInvImplies, PTL

\* A search scores, for every row, the numbers that Get and the hit return.
THEOREM SearchSeesRows == Spec => []ScoredRowIsReturnedRow
BY SpecIInv, IInvImplies, PTL

\* The id index never points at a row of another id.
THEOREM IndexSound == Spec => []IndexHitsOwnRow
BY SpecIInv, IInvImplies, PTL

\* No operation on one id changes what Get and Meta return for another id.
THEOREM Isolation == Spec => OtherIdsUntouched
<1>1. IInv => (\A x, y \in Id : x # y /\ OpOn(y) => Lookup(x)' = Lookup(x))
  BY OpStep
<1>2. QED
  BY SpecIInv, <1>1, PTL DEF OtherIdsUntouched

-----------------------------------------------------------------------------
(* A store implements RowBag: every operation is, on the rows read from the *)
(* slices and on the rows byID leads to, the operation RowBag describes.    *)

LEMMA RowsByIDIs ==
  ASSUME IInv
  PROVE  /\ DOMAIN RowsByID = DOMAIN byID
         /\ \A x \in DOMAIN byID :
              /\ byID[x] \in 1 .. Len(ids) /\ ids[byID[x]] = x
              /\ RowsByID[x] = Rows[byID[x]] /\ RowsByID[x] \in BagRow
<1>1. \A x \in DOMAIN byID : byID[x] \in 1 .. Len(ids) /\ ids[byID[x]] = x
  BY DEF IInv, Index
<1>2. \A i \in 1 .. Len(ids) : Rows[i] \in BagRow
  BY RowsAre
<1>3. QED
  BY <1>1, <1>2 DEF RowsByID

LEMMA RowsByIDIsChoice == IInv => Bag!IsChoice(RowsByID, SE!ToBag(Rows))
<1> SUFFICES ASSUME IInv PROVE Bag!IsChoice(RowsByID, SE!ToBag(Rows))
  OBVIOUS
<1> DEFINE B == SE!ToBag(Rows)
<1>1. /\ Rows \in Seq(BagRow) /\ Len(Rows) = Len(ids)
      /\ \A i \in 1 .. Len(ids) : Rows[i].id = ids[i]
  BY RowsAre
<1>2. DOMAIN B = Range(Rows)
  BY <1>1, CopiesInSeq
<1>3. \A r : r \in DOMAIN B <=> \E i \in 1 .. Len(ids) : Rows[i] = r
  BY <1>1, <1>2, RangeIs
<1> HIDE DEF B
<1>4. \A x : x \in DOMAIN byID <=> \E i \in 1 .. Len(ids) : ids[i] = x
  BY IInvFacts, RangeIs
<1>5. {r.id : r \in DOMAIN B} = DOMAIN byID
  <2>1. ASSUME NEW x \in DOMAIN byID PROVE x \in {r.id : r \in DOMAIN B}
    <3>1. PICK i \in 1 .. Len(ids) : ids[i] = x
      BY <1>4
    <3>2. Rows[i] \in DOMAIN B /\ Rows[i].id = x
      BY <1>1, <1>3, <3>1
    <3>3. QED
      BY <3>2
  <2>2. ASSUME NEW r \in DOMAIN B PROVE r.id \in DOMAIN byID
    <3>1. PICK i \in 1 .. Len(ids) : Rows[i] = r
      BY <1>3
    <3>2. r.id = ids[i]
      BY <1>1, <3>1
    <3>3. QED
      BY <1>4, <3>2
  <2>3. QED
    BY <2>1, <2>2
<1>6. DOMAIN RowsByID = Bag!Present(B)
  BY <1>5, RowsByIDIs DEF Bag!Present, Bag!BagToSet
<1>7. \A x \in DOMAIN RowsByID : RowsByID[x].id = x /\ RowsByID[x] \in DOMAIN B
  BY <1>1, <1>3, RowsByIDIs
<1>8. Bag!IsChoice(RowsByID, B)
  BY <1>6, <1>7 DEF Bag!IsChoice, Bag!BagIn, Bag!BagToSet
<1>9. QED
  BY <1>8 DEF B

LEMMA SameFileSameSaved ==
  ASSUME file' = file
  PROVE  Saved' = Saved
BY DEF Saved, SavedRows

LEMMA AddRefines ==
  ASSUME IInv, NEW id \in Id, NEW v \in Vec, Add(id, v)
  PROVE  Bag!Add(id, v)
<1> DEFINE n == Len(ids)
           r == [id |-> id, vec |-> v, meta |-> EmptyMeta]
<1>1. /\ Rows \in Seq(BagRow) /\ Len(Rows) = n /\ n \in Nat
  BY RowsAre, IInvFacts
<1>2. r \in BagRow
  BY MetaAssumption DEF BagRow
<1>3. Rows' = Append(Rows, r)
  BY AddStep
<1>4. byID' = NoteID(id, n + 1) /\ metric' = metric /\ file' = file
  BY DEF Add
<1>5. /\ DOMAIN RowsByID = DOMAIN byID
      /\ \A x \in DOMAIN byID : byID[x] \in 1 .. n /\ RowsByID[x] = Rows[byID[x]]
  BY RowsByIDIs
<1> HIDE DEF r
<1>6. /\ \A i \in 1 .. n : Rows'[i] = Rows[i]
      /\ Rows'[n + 1] = r
  BY <1>1, <1>2, <1>3, AppendIs
<1>7. SE!ToBag(Rows)' = Bag!BagAdd(SE!ToBag(Rows), r)
  BY <1>1, <1>2, <1>3, BagOfAppend
<1>8. RowsByID' = IF id \in DOMAIN RowsByID THEN RowsByID
                  ELSE [x \in DOMAIN RowsByID \cup {id} |-> IF x = id THEN r ELSE RowsByID[x]]
  <2>1. RowsByID' = [x \in DOMAIN byID' |-> Rows'[byID'[x]]]
    BY DEF RowsByID
  <2>2. CASE id \in DOMAIN byID
    <3>1. byID' = byID
      BY <1>4, <2>2 DEF NoteID, Has
    <3>2. \A x \in DOMAIN byID : Rows'[byID[x]] = RowsByID[x]
      BY <1>5, <1>6
    <3>3. RowsByID = [x \in DOMAIN byID |-> RowsByID[x]]
      BY DEF RowsByID
    <3>4. QED
      BY <1>5, <2>1, <2>2, <3>1, <3>2, <3>3
  <2>3. CASE id \notin DOMAIN byID
    <3>1. byID' = [x \in DOMAIN byID \cup {id} |-> IF x = id THEN n + 1 ELSE byID[x]]
      BY <1>4, <2>3 DEF NoteID, Has
    <3>2. \A x \in DOMAIN byID : Rows'[byID'[x]] = RowsByID[x]
      BY <1>5, <1>6, <2>3, <3>1
    <3>3. Rows'[byID'[id]] = r
      BY <1>6, <3>1
    <3>4. QED
      BY <1>5, <2>1, <2>3, <3>1, <3>2, <3>3
  <2>4. QED
    BY <2>2, <2>3
<1>9. QED
  BY <1>4, <1>7, <1>8, SameFileSameSaved DEF Bag!Add, Bag!RowOf, r

LEMMA ReplaceRefines ==
  ASSUME IInv, NEW id \in DOMAIN byID, NEW r \in BagRow,
         Rows' = [Rows EXCEPT ![byID[id]] = r],
         byID' = byID, metric' = metric, file' = file
  PROVE  Bag!Replace(id, r)
<1> DEFINE i == byID[id]
<1>1. Rows \in Seq(BagRow) /\ Len(Rows) = Len(ids)
  BY RowsAre
<1>2. /\ DOMAIN RowsByID = DOMAIN byID
      /\ \A x \in DOMAIN byID :
           byID[x] \in 1 .. Len(ids) /\ ids[byID[x]] = x /\ RowsByID[x] = Rows[byID[x]]
  BY RowsByIDIs
<1>3. i \in 1 .. Len(Rows)
  BY <1>1, <1>2
<1>4. \A x \in DOMAIN byID : x # id => byID[x] # i
  BY <1>2
<1> HIDE DEF i
<1>5. Rows' = [Rows EXCEPT ![i] = r]
  BY DEF i
<1>6. SE!ToBag(Rows)' = Bag!BagAdd(Bag!BagRemove(SE!ToBag(Rows), Rows[i]), r)
  <2>1. SE!ToBag([Rows EXCEPT ![i] = r]) = Bag!BagAdd(Bag!BagRemove(SE!ToBag(Rows), Rows[i]), r)
    BY <1>1, <1>3, BagOfExcept
  <2>2. QED
    BY <1>5, <2>1
<1>7. \A j \in 1 .. Len(Rows) : Rows'[j] = IF j = i THEN r ELSE Rows[j]
  BY <1>1, <1>3, <1>5, ExceptSeq
<1>8. RowsByID' = [RowsByID EXCEPT ![id] = r]
  <2>1. RowsByID' = [x \in DOMAIN byID |-> Rows'[byID[x]]]
    BY DEF RowsByID
  <2>2. \A x \in DOMAIN byID : Rows'[byID[x]] = IF x = id THEN r ELSE RowsByID[x]
    BY <1>1, <1>2, <1>4, <1>7 DEF i
  <2>3. RowsByID = [x \in DOMAIN byID |-> RowsByID[x]]
    BY DEF RowsByID
  <2>4. QED
    BY <1>2, <2>1, <2>2, <2>3
<1>9. RowsByID[id] = Rows[i]
  BY <1>2 DEF i
<1>10. QED
  BY <1>2, <1>6, <1>8, <1>9, SameFileSameSaved DEF Bag!Replace

LEMMA UpsertRefines ==
  ASSUME IInv, NEW id \in Id, NEW v \in Vec, Upsert(id, v)
  PROVE  Bag!Upsert(id, v)
<1>1. CASE Has(id) /\ ReplaceAt(byID[id], v)
  <2>1. /\ id \in DOMAIN byID /\ RowsByID[id] = Rows[byID[id]] /\ RowsByID[id] \in BagRow
        /\ DOMAIN RowsByID = DOMAIN byID
    BY <1>1, RowsByIDIs DEF Has
  <2>2. [RowsByID[id] EXCEPT !.vec = v] \in BagRow
    BY <2>1 DEF BagRow
  <2>3. Rows' = [Rows EXCEPT ![byID[id]] = [RowsByID[id] EXCEPT !.vec = v]]
    BY <1>1, <2>1, ReplaceStep
  <2>4. byID' = byID /\ metric' = metric /\ file' = file
    BY <1>1 DEF ReplaceAt
  <2>5. Bag!Replace(id, [RowsByID[id] EXCEPT !.vec = v])
    BY <2>1, <2>2, <2>3, <2>4, ReplaceRefines
  <2>6. QED
    BY <2>1, <2>5 DEF Bag!Upsert
<1>2. CASE ~Has(id) /\ Add(id, v)
  BY <1>2, AddRefines, RowsByIDIs DEF Has, Bag!Upsert
<1>3. QED
  BY <1>1, <1>2 DEF Upsert

LEMMA SetMetaRefines ==
  ASSUME IInv, NEW id, NEW m \in MetaSlot, SetMeta(id, m)
  PROVE  Bag!SetMeta(id, Seen(m))
<1>1. /\ id \in DOMAIN byID /\ RowsByID[id] = Rows[byID[id]] /\ RowsByID[id] \in BagRow
      /\ DOMAIN RowsByID = DOMAIN byID
  BY RowsByIDIs DEF SetMeta, Has
<1>2. [RowsByID[id] EXCEPT !.meta = Seen(m)] \in BagRow
  BY <1>1, SeenIs DEF BagRow
<1>3. Rows' = [Rows EXCEPT ![byID[id]] = [RowsByID[id] EXCEPT !.meta = Seen(m)]]
  BY <1>1, SetMetaStep
<1>4. byID' = byID /\ metric' = metric /\ file' = file
  BY DEF SetMeta
<1>5. Bag!Replace(id, [RowsByID[id] EXCEPT !.meta = Seen(m)])
  BY <1>1, <1>2, <1>3, <1>4, ReplaceRefines
<1>6. QED
  BY <1>1, <1>5 DEF Bag!SetMeta

LEMMA RemoveRefines ==
  ASSUME IInv, NEW id, Remove(id)
  PROVE  Bag!Remove(id)
<1> DEFINE i == byID[id]
           n == Len(Rows)
<1>1. /\ id \in DOMAIN byID /\ byID' = RepairByID(id, i) /\ ids' = SwapDelete(ids, i)
      /\ metric' = metric /\ file' = file
  BY DEF Remove, Has
<1>2. Rows \in Seq(BagRow) /\ n = Len(ids) /\ n \in Nat
  BY RowsAre, IInvFacts
<1>3. /\ DOMAIN RowsByID = DOMAIN byID
      /\ \A x \in DOMAIN byID : byID[x] \in 1 .. n /\ RowsByID[x] = Rows[byID[x]]
  BY <1>2, RowsByIDIs
<1>4. Rows' = SwapDelete(Rows, i) /\ IInv'
  BY RemoveStep
<1>5. /\ DOMAIN byID' \ {id} = DOMAIN byID \ {id}
      /\ \A x \in DOMAIN byID \ {id} :
           byID[x] # i /\ byID'[x] = IF byID[x] = n THEN i ELSE byID[x]
  BY <1>1, <1>2, RemoveIndex DEF IInv
<1>6. i \in 1 .. n /\ RowsByID[id] = Rows[i]
  BY <1>1, <1>3
<1> HIDE DEF i
<1>7. SE!ToBag(Rows)' = Bag!BagRemove(SE!ToBag(Rows), RowsByID[id])
  BY <1>2, <1>4, <1>6, BagOfSwapDelete
<1>8. \A j \in 1 .. n - 1 : Rows'[j] = IF j = i THEN Rows[n] ELSE Rows[j]
  BY <1>2, <1>4, <1>6, SwapDeleteIs
<1>9. Bag!IsChoice(RowsByID', SE!ToBag(Rows)')
  <2>1. Bag!IsChoice(RowsByID, SE!ToBag(Rows))'
    BY <1>4, RowsByIDIsChoice, PTL
  <2>2. QED
    BY <2>1 DEF Bag!IsChoice, Bag!Present, Bag!BagIn, Bag!BagToSet
<1> HIDE DEF n
<1>10. ASSUME NEW x \in DOMAIN RowsByID \ {id} PROVE RowsByID'[x] = RowsByID[x]
  <2>1. /\ x \in DOMAIN byID' /\ byID[x] \in 1 .. n /\ byID[x] # i
        /\ byID'[x] = IF byID[x] = n THEN i ELSE byID[x]
        /\ RowsByID[x] = Rows[byID[x]]
    BY <1>3, <1>5
  <2>2. RowsByID'[x] = Rows'[byID'[x]]
    BY <2>1 DEF RowsByID
  <2>3. byID'[x] \in 1 .. n - 1 /\ Rows'[byID'[x]] = Rows[byID[x]]
    <3>1. CASE byID[x] = n
      BY <1>2, <1>6, <1>8, <2>1, <3>1
    <3>2. CASE byID[x] # n
      BY <1>2, <1>8, <2>1, <3>2
    <3>3. QED
      BY <3>1, <3>2
  <2>4. QED
    BY <2>1, <2>2, <2>3
<1>11. QED
  BY <1>1, <1>3, <1>7, <1>9, <1>10, SameFileSameSaved DEF Bag!Remove

LEMMA ClearRefines ==
  ASSUME IInv, Clear
  PROVE  Bag!Clear
<1>1. Rows' = <<>> /\ RowsByID' = [x \in {} |-> x] /\ metric' = metric /\ file' = file
  BY ClearStep DEF Clear
<1>2. SE!ToBag(<<>>) = Bag!EmptyBag
  BY DEF SE!ToBag, SE!Range, Bag!EmptyBag, Bag!SetToBag
<1>3. SE!ToBag(Rows)' = Bag!EmptyBag
  BY <1>1, <1>2
<1>4. Saved' = Saved
  BY <1>1, SameFileSameSaved
<1>5. QED
  BY <1>1, <1>3, <1>4 DEF Bag!Clear

LEMMA SaveRefines ==
  ASSUME IInv, NEW fmt, Save(fmt)
  PROVE  Bag!Save
BY SaveStep DEF Save, storeVars, Bag!Save

LEMMA LoadRefines ==
  ASSUME IInv, Load
  PROVE  Bag!Load
<1>1. /\ file # Nil /\ file' = file /\ metric' = file.metric
      /\ Rows' = SavedRows(file) /\ IInv'
  BY LoadStep DEF Load, Restore
<1>2. Saved = {[rows |-> SE!ToBag(SavedRows(file)), metric |-> file.metric]}
  BY <1>1 DEF Saved
<1>3. SE!ToBag(Rows)' = SE!ToBag(SavedRows(file))
  BY <1>1
<1>4. Bag!IsChoice(RowsByID', SE!ToBag(Rows)')
  <2>1. Bag!IsChoice(RowsByID, SE!ToBag(Rows))'
    BY <1>1, RowsByIDIsChoice, PTL
  <2>2. QED
    BY <2>1 DEF Bag!IsChoice, Bag!Present, Bag!BagIn, Bag!BagToSet
<1>5. \E s \in Saved : SE!ToBag(Rows)' = s.rows /\ metric' = s.metric
  BY <1>1, <1>2, <1>3
<1>6. QED
  BY <1>1, <1>4, <1>5, SameFileSameSaved DEF Bag!Load

LEMMA InitRefines == Init => Bag!Init
<1> SUFFICES ASSUME Init PROVE Bag!Init
  OBVIOUS
<1>1. Rows = <<>> /\ RowsByID = [x \in {} |-> x] /\ metric \in Metric
  BY DEF Init, Rows, RowsByID
<1>2. SE!ToBag(<<>>) = Bag!EmptyBag
  BY DEF SE!ToBag, SE!Range, Bag!EmptyBag, Bag!SetToBag
<1>3. Saved \in {{}} \cup {{[rows |-> Bag!EmptyBag, metric |-> m]} : m \in Metric}
  <2>1. CASE file = Nil
    BY <2>1 DEF Saved
  <2>2. CASE file # Nil
    <3>1. PICK m \in Metric : file = EmptyFile(m)
      BY <2>2 DEF Init
    <3>2. SavedRows(file) = <<>> /\ file.metric = m
      BY <3>1 DEF SavedRows, EmptyFile
    <3>3. QED
      BY <1>2, <2>2, <3>2 DEF Saved
  <2>3. QED
    BY <2>1, <2>2
<1>4. SE!ToBag(Rows) = Bag!EmptyBag
  BY <1>1, <1>2
<1>5. QED
  BY <1>1, <1>3, <1>4 DEF Bag!Init

LEMMA OpRefines ==
  ASSUME IInv, NEW id \in Id, OpOn(id)
  PROVE  Bag!Next
<1>1. CASE \E v \in Vec : Add(id, v) \/ AddUnique(id, v)
  BY <1>1, AddRefines DEF AddUnique, Bag!Next
<1>2. CASE \E v \in Vec : Upsert(id, v)
  BY <1>2, UpsertRefines DEF Bag!Next
<1>3. CASE Remove(id)
  BY <1>3, RemoveRefines DEF Bag!Next
<1>4. CASE \E m \in Meta \cup {NilMeta} : SetMeta(id, m)
  <2>1. PICK m \in MetaSlot : SetMeta(id, m)
    BY <1>4 DEF MetaSlot
  <2>2. Bag!SetMeta(id, Seen(m)) /\ Seen(m) \in Meta
    BY <2>1, SetMetaRefines, SeenIs
  <2>3. QED
    BY <2>2 DEF Bag!Next
<1>5. QED
  BY <1>1, <1>2, <1>3, <1>4 DEF OpOn

LEMMA StepRefines == IInv /\ [Next]_vars => [Bag!Next]_(Bag!vars)
<1> SUFFICES ASSUME IInv, [Next]_vars PROVE [Bag!Next]_(Bag!vars)
  OBVIOUS
<1>1. CASE \E id \in Id : OpOn(id)
  BY <1>1, OpRefines
<1>2. CASE Clear
  BY <1>2, ClearRefines DEF Bag!Next
<1>3. CASE \E fmt \in Format : Save(fmt)
  BY <1>3, SaveRefines DEF Bag!Next
<1>4. CASE Load
  BY <1>4, LoadRefines DEF Bag!Next
<1>5. CASE UNCHANGED vars
  <2>1. UNCHANGED <<ids, vectors, metric, packed, byID, meta, file>>
    BY <1>5 DEF vars, storeVars
  <2>2. Rows' = Rows
    BY <2>1 DEF Rows, View, Deref, MetaAt
  <2>3. RowsByID' = RowsByID
    BY <2>1, <2>2 DEF RowsByID
  <2>4. SE!ToBag(Rows)' = SE!ToBag(Rows)
    BY <2>2
  <2>5. QED
    BY <2>1, <2>3, <2>4, SameFileSameSaved DEF Bag!vars
<1>6. QED
  BY <1>1, <1>2, <1>3, <1>4, <1>5 DEF Next

\* A store is a bag of rows with one distinguished row per id: whatever the
\* slices, the backing array and byID do, every operation of store.go, and
\* restore, does to the rows what RowBag says, and nothing else.
THEOREM StoreIsARowBag == Spec => ImplementsRowBag
BY SpecIInv, InitRefines, StepRefines, PTL DEF Spec, ImplementsRowBag, Bag!Spec
=============================================================================
