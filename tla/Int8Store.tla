------------------------------- MODULE Int8Store -------------------------------
(***************************************************************************)
(* pkg/quantize/quantize.go: vectors packed as bytes, one after the other, *)
(* each with a scale.  Numbers are integers and a scale is kept times 127, *)
(* so that quantizing is exact but for its rounding; rounding of floats is *)
(* left out.                                                               *)
(***************************************************************************)
EXTENDS Integers, SequencesExt

CONSTANTS
  Id,
  Vec,     \* vectors: sequences of integers
  MaxRows, \* bound: no more rows are added
  Nil

VARIABLES
  ids, data, scales, dims,
  added    \* history: the vector of every row

vars == <<ids, data, scales, dims, added>>

-----------------------------------------------------------------------------
Abs(x) == IF x < 0 THEN -x ELSE x

\* The largest magnitude in v, 0 if v is empty.
Magnitude(v) == Max({0} \cup {Abs(x) : x \in ToSet(v)})

\* n / d to the nearest integer, halves away from zero; d > 0.
Rounded(n, d) == IF n < 0 THEN -((-2 * n + d) \div (2 * d)) ELSE (2 * n + d) \div (2 * d)

\* The scale (times 127) and the bytes of v.
ToInt8(v) ==
  LET m == Magnitude(v)
  IN  [scale |-> m, q |-> [i \in DOMAIN v |-> IF m = 0 THEN 0 ELSE Rounded(127 * v[i], m)]]

\* The slice of data for row i.  A slice may reach past the length, into
\* storage that no row wrote.
Row(i) ==
  [j \in 1 .. dims |->
     LET at == (i - 1) * dims + j IN IF at <= Len(data) THEN data[at] ELSE Nil]

-----------------------------------------------------------------------------
Init == ids = <<>> /\ data = <<>> /\ scales = <<>> /\ dims = 0 /\ added = <<>>

Add(id, v) ==
  LET new == ToInt8(v)
      d   == IF dims = 0 THEN Len(new.q) ELSE dims
  IN  /\ Len(ids) < MaxRows
      /\ dims' = d
      /\ IF Len(new.q) # d THEN UNCHANGED <<ids, data, scales, added>>
         ELSE /\ ids' = Append(ids, id)
              /\ data' = data \o new.q
              /\ scales' = Append(scales, new.scale)
              /\ added' = Append(added, v)

Next == \E id \in Id, v \in Vec : Add(id, v)

Spec == Init /\ [][Next]_vars

-----------------------------------------------------------------------------
\* Search, which answers when dims is known, scores every id by its own vector:
\* the first vector sets dims and later ones of another length are ignored
\* (quantize.go:87-88), so the rows lie one after the other.
RowsAreTheirVectors ==
  dims # 0 =>
    \A i \in DOMAIN ids : <<Row(i), scales[i]>> = <<ToInt8(added[i]).q, ToInt8(added[i]).scale>>
=============================================================================
