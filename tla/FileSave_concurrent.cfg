\* Two callers save at once through a LockedStore.
SPECIFICATION Spec
CONSTANTS
  Saver = {p, q}
  Version = {v1, v2}
  Chunks = 2
  Inode <- MCInode
  Method = {"SaveAtomic"}
  Exclusive = FALSE
  Nil = Nil
INVARIANTS PathIsWhole
SYMMETRY MCSaverSymmetry
