-------------------------------- MODULE RowBag --------------------------------
(***************************************************************************)
(* What a store promises, without slices, backing array, row numbers or    *)
(* index: a bag of rows [id, vec, meta], and for each id in it one         *)
(* distinguished row, the one that Get, Upsert, Remove, SetMeta and Meta   *)
(* act on.  Which duplicate becomes the distinguished one when the         *)
(* previous one is removed, or after a load, is left open.                 *)
(* A nil metadata map counts as one without keys.                          *)
(***************************************************************************)
EXTENDS Integers, BagsExt, Bags

CONSTANTS Id, Vec, Meta, EmptyMeta, Metric

VARIABLES
  rows,   \* bag of rows
  first,  \* id -> its distinguished row
  metric,
  saved   \* the set of the last save's [rows, metric], empty before the first

vars == <<rows, first, metric, saved>>

RowOf(id, v, m) == [id |-> id, vec |-> v, meta |-> m]

Present(bag) == {r.id : r \in BagToSet(bag)}

\* One row of the bag for every id in it.
IsChoice(f, bag) ==
  /\ DOMAIN f = Present(bag)
  /\ \A x \in DOMAIN f : f[x].id = x /\ BagIn(f[x], bag)

Add(id, v) ==
  LET r == RowOf(id, v, EmptyMeta)
  IN  /\ rows' = BagAdd(rows, r)
      /\ first' = IF id \in DOMAIN first THEN first
                  ELSE [x \in DOMAIN first \cup {id} |-> IF x = id THEN r ELSE first[x]]
      /\ UNCHANGED <<metric, saved>>

\* The distinguished row of id becomes r.
Replace(id, r) ==
  /\ id \in DOMAIN first
  /\ rows' = BagAdd(BagRemove(rows, first[id]), r)
  /\ first' = [first EXCEPT ![id] = r]
  /\ UNCHANGED <<metric, saved>>

Upsert(id, v) ==
  IF id \in DOMAIN first THEN Replace(id, [first[id] EXCEPT !.vec = v]) ELSE Add(id, v)

SetMeta(id, m) == id \in DOMAIN first /\ Replace(id, [first[id] EXCEPT !.meta = m])

Remove(id) ==
  /\ id \in DOMAIN first
  /\ rows' = BagRemove(rows, first[id])
  /\ IsChoice(first', rows')
  /\ \A x \in DOMAIN first \ {id} : first'[x] = first[x]
  /\ UNCHANGED <<metric, saved>>

Clear ==
  /\ rows' = EmptyBag
  /\ first' = [x \in {} |-> x]
  /\ UNCHANGED <<metric, saved>>

Save == saved' = {[rows |-> rows, metric |-> metric]} /\ UNCHANGED <<rows, first, metric>>

Load ==
  /\ \E s \in saved : rows' = s.rows /\ metric' = s.metric
  /\ IsChoice(first', rows')
  /\ UNCHANGED saved

Init ==
  /\ rows = EmptyBag
  /\ first = [x \in {} |-> x]
  /\ metric \in Metric
  /\ saved \in {{}} \cup {{[rows |-> EmptyBag, metric |-> m]} : m \in Metric}

Next ==
  \/ \E id \in Id :
       \/ \E v \in Vec : Add(id, v) \/ Upsert(id, v)
       \/ Remove(id)
       \/ \E m \in Meta : SetMeta(id, m)
  \/ Clear
  \/ Save
  \/ Load

Spec == Init /\ [][Next]_vars
=============================================================================
