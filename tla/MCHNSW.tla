------------------------------- MODULE MCHNSW -------------------------------
(* HNSW with points on a line. *)
EXTENDS HNSW

\* Two near points and a far one; a stored point, and one between two others.
MCPoint == {0, 1, 5}
MCQuery == {0, 3}

Apart(a, b) == IF a < b THEN b - a ELSE a - b
MCDist == [p \in (MCPoint \cup MCQuery) \X MCPoint |-> Apart(p[1], p[2])]

\* A graph that was loaded is searched and extended as one that was built, so
\* files are followed on small graphs only.
MCFilesAreSmall == file # Nil => pc = "idle" /\ Len(nodes) <= 3
=============================================================================
