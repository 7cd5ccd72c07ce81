--------------------------- MODULE MCHTTPEmbedder ---------------------------
(* HTTPEmbedder on a small instance. *)
EXTENDS HTTPEmbedder

\* Up to three texts go out one by one, or in chunks of two; a batch no longer
\* than a chunk goes out at once, as it does without WithMaxBatch.
MCMaxBatch == {1, 2}
MCRetries == {0, 1}
MCLength == {0, 1, 2}
\* Inferred, or declared.
MCDeclared == {0, 2}
=============================================================================
