------------------------------- MODULE MCTopK -------------------------------
(* TopK on a small instance. *)
EXTENDS TopK

\* Values of k: none, fewer and more than the rows.
MCK == {0, 1, 2, 4, 6}
MCScore == {1, 2, NaN}

\* Scores that are not numbers only with few rows.
MCNaNWithFewRows == n <= 4 \/ \A i \in 1 .. n : score[i] # NaN
=============================================================================
