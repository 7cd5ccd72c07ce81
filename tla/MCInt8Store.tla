----------------------------- MODULE MCInt8Store -----------------------------
(* Int8Store on a small instance. *)
EXTENDS Int8Store

\* Of every length up to 2: no component is larger than the others, they round
\* up and down, they are all zero.
MCVec == {<<>>, <<3>>, <<-1>>, <<0, 0>>, <<1, -2>>, <<5, 3>>}
=============================================================================
