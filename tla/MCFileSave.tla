----------------------------- MODULE MCFileSave -----------------------------
(* FileSave on a small disk. *)
EXTENDS FileSave

\* One file at the path, one being written, and one that only the disk or a
\* reader still holds.
MCInode == 1 .. 3

\* Nothing is promised to a Load that overlaps a Save, and it changes no file.
MCNoLoadAfterSave == plain => reader = Nil

MCSymmetry == Permutations(Version)
MCSaverSymmetry == Permutations(Version) \cup Permutations(Saver)
=============================================================================
