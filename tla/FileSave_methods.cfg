\* Save and SaveAtomic, one at a time, with failing calls and power failures.
SPECIFICATION Spec
CONSTANTS
  Saver = {p}
  Version = {v1, v2}
  Chunks = 2
  Inode <- MCInode
  Method = {"Save", "SaveAtomic"}
  Exclusive = TRUE
  Nil = Nil
INVARIANTS TypeOK PathIsWhole DiskIsWhole LoadIsOneSnapshot SavedWhenOk
PROPERTIES PathChangesOnlyBySuccess
CONSTRAINT MCNoLoadAfterSave
SYMMETRY MCSymmetry
