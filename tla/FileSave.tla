------------------------------ MODULE FileSave ------------------------------
(***************************************************************************)
(* Writing a store to a path and reading it back: Save, SaveAtomic and     *)
(* Load of pkg/vector/store_persist.go (SaveJSON and LoadJSON make the     *)
(* same calls as Save and Load), one system call at a time, on a file      *)
(* system with open files, a page cache and a disk, and with power         *)
(* failures.                                                               *)
(*                                                                         *)
(* The stream of a snapshot is cut into Chunks writes; the content of a    *)
(* file is the sequence of chunks written to it, each named by the         *)
(* snapshot it is of.  All savers use the same path, hence the same        *)
(* path+".tmp", and save the same Store through a LockedStore, whose read  *)
(* lock they share: a store does not change while somebody saves it.       *)
(***************************************************************************)
EXTENDS Integers, Sequences, SequencesExt

CONSTANTS
  Saver,      \* goroutines that save
  Version,    \* contents of the store
  Chunks,     \* bound: writes per snapshot
  Inode,      \* bound: files the disk can hold, a set of numbers
  Method,     \* the operations in use, a subset of {"SaveAtomic", "Save"}
  Exclusive,  \* the callers run one save at a time
  Nil

ASSUME ChunksAssumption == Chunks \in Nat \ {0}
ASSUME InodeAssumption == Inode \subseteq Nat
ASSUME MethodAssumption == Method \subseteq {"SaveAtomic", "Save"}
ASSUME NilAssumption == Nil \notin Version \cup Inode

VARIABLES
  dir,     \* name -> inode, or Nil, as running programs see it
  diskDir, \* the directory a power failure would leave
  data,    \* inode -> content, as running programs see it
  flushed, \* inode -> its content is on the disk
  pc,      \* saver -> its next system call
  method,  \* saver -> the operation it runs
  ver,     \* saver -> the snapshot it writes, or wrote last
  fd,      \* saver -> the file it has open
  off,     \* saver -> chunks it has written
  err,     \* saver -> an earlier call of this operation failed
  ret,     \* saver -> outcome of its last operation: "none", "ok" or "err"
  reader,  \* a Load in progress: [fd, got], or Nil
  plain    \* history: Save has been used, which writes the path in place

localVars == <<method, ver, fd, off, err>>
saverVars == <<pc, localVars, ret, plain>>
fileVars == <<dir, diskDir, data, flushed>>
vars == <<fileVars, saverVars, reader>>

Name == {"path", "tmp"}
Chunk == Version \cup {Nil}    \* Nil: a hole, which reads as zeros
Whole(v) == [i \in 1 .. Chunks |-> v]
IsWhole(content) == \E v \in Version : content = Whole(v)

\* What the path shows to a program that opens it now.
Shown == IF dir["path"] = Nil THEN Nil ELSE data[dir["path"]]

Active(s) == pc[s] # "idle"

Linked == {dir[x] : x \in Name} \cup {diskDir[x] : x \in Name}
Opened == {fd[s] : s \in Saver} \cup (IF reader = Nil THEN {} ELSE {reader.fd})
Free == Inode \ (Linked \cup Opened)

\* Mutant of Target: writes in place.
TargetIsPath(s) == "path"

\* The name a save opens.
Target(s) == IF method[s] = "SaveAtomic" THEN "tmp" ELSE "path"

\* A call returns; its local variables are gone.
Return(s, outcome) ==
  /\ pc' = [pc EXCEPT ![s] = "idle"]
  /\ fd' = [fd EXCEPT ![s] = Nil]
  /\ off' = [off EXCEPT ![s] = 0]
  /\ err' = [err EXCEPT ![s] = FALSE]
  /\ method' = [method EXCEPT ![s] = Nil]
  /\ ver' = [ver EXCEPT ![s] = IF outcome = "ok" THEN @ ELSE Nil]
  /\ ret' = [ret EXCEPT ![s] = outcome]

-----------------------------------------------------------------------------
(* Save and SaveAtomic. *)

Begin(s) ==
  /\ ~Active(s)
  /\ Exclusive => \A t \in Saver : ~Active(t)
  /\ \E m \in Method, v \in Version :
       /\ \A t \in Saver : Active(t) => ver[t] = v
       /\ method' = [method EXCEPT ![s] = m]
       /\ plain' = (plain \/ m = "Save")
       /\ ver' = [t \in Saver |-> IF t = s THEN v ELSE IF Active(t) THEN ver[t] ELSE Nil]
  /\ pc' = [pc EXCEPT ![s] = "create"]
  /\ ret' = [t \in Saver |-> "none"]
  /\ UNCHANGED <<fileVars, fd, off, err, reader>>

\* os.Create: an existing file is truncated, even one somebody has open.
\* The file system reuses the inodes nobody refers to.
Create(s) ==
  /\ pc[s] = "create"
  /\ \/ \E i \in (IF dir[Target(s)] # Nil THEN {dir[Target(s)]} ELSE Free) :
          LET fresh == Free \cup {i}
          IN  /\ \A j \in Free : i = dir[Target(s)] \/ i <= j
              /\ dir' = [dir EXCEPT ![Target(s)] = i]
              /\ data' = [j \in Inode |-> IF j \in fresh THEN <<>> ELSE data[j]]
              /\ flushed' = [j \in Inode |-> j \notin fresh /\ flushed[j]]
              /\ fd' = [fd EXCEPT ![s] = i]
              /\ pc' = [pc EXCEPT ![s] = "write"]
              /\ UNCHANGED <<off, err, method, ver, ret>>
     \/ Return(s, "err") /\ UNCHANGED <<dir, data, flushed>>
  /\ UNCHANGED <<diskDir, reader, plain>>

\* content with chunk n replaced or, past the end, appended after a hole.
Written(content, n, v) ==
  [i \in 1 .. (IF n > Len(content) THEN n ELSE Len(content)) |->
     IF i = n THEN v ELSE IF i <= Len(content) THEN content[i] ELSE Nil]

\* Mutant of AfterWrite: the file is not flushed before it is renamed.
AfterWriteNoSync(s) == "close"

AfterWrite(s) == IF method[s] = "SaveAtomic" THEN "sync" ELSE "close"

\* Mutant of Complete: writes once more.
CompleteOneLate(s) == off[s] = Chunks

\* The write under way is the last one of the stream.
Complete(s) == off[s] + 1 = Chunks

Write(s) ==
  /\ pc[s] = "write"
  /\ \/ /\ data' = [data EXCEPT ![fd[s]] = Written(@, off[s] + 1, ver[s])]
        /\ flushed' = [flushed EXCEPT ![fd[s]] = FALSE]
        /\ off' = [off EXCEPT ![s] = @ + 1]
        /\ pc' = [pc EXCEPT ![s] = IF Complete(s) THEN AfterWrite(s) ELSE "write"]
        /\ UNCHANGED err
     \/ /\ err' = [err EXCEPT ![s] = TRUE]
        /\ pc' = [pc EXCEPT ![s] = "close"]
        /\ UNCHANGED <<data, flushed, off>>
  /\ UNCHANGED <<dir, diskDir, method, ver, fd, ret, reader, plain>>

Sync(s) ==
  /\ pc[s] = "sync"
  /\ \/ flushed' = [flushed EXCEPT ![fd[s]] = TRUE] /\ UNCHANGED err
     \/ err' = [err EXCEPT ![s] = TRUE] /\ UNCHANGED flushed
  /\ pc' = [pc EXCEPT ![s] = "close"]
  /\ UNCHANGED <<dir, diskDir, data, method, ver, fd, off, ret, reader, plain>>

\* Mutant of AfterClose: an earlier failure is forgotten.
AfterCloseForgetful(failed) == "rename"

AfterClose(failed) == IF failed THEN "remove" ELSE "rename"

\* Mutant of Outcome: the result of Close hides an earlier failure.
OutcomeOfClose(s, failed) == failed

\* The first failure of the operation decides.
Outcome(s, failed) == err[s] \/ failed

\* Close may fail.
Close(s) ==
  /\ pc[s] = "close"
  /\ \E failed \in BOOLEAN :
       IF method[s] = "SaveAtomic"
         THEN /\ pc' = [pc EXCEPT ![s] = AfterClose(Outcome(s, failed))]
              /\ fd' = [fd EXCEPT ![s] = Nil]
              /\ UNCHANGED <<method, ver, off, err, ret>>
         ELSE Return(s, IF Outcome(s, failed) THEN "err" ELSE "ok")
  /\ UNCHANGED <<fileVars, reader, plain>>

\* The result of removing the temporary file is ignored.
RemoveTmp(s) ==
  /\ pc[s] = "remove"
  /\ dir' \in {dir, [dir EXCEPT !["tmp"] = Nil]}
  /\ Return(s, "err")
  /\ UNCHANGED <<diskDir, data, flushed, reader, plain>>

\* Mutant of Rename: the old file is removed when the rename fails.
RenameOrRemove(s) ==
  /\ pc[s] = "rename"
  /\ \/ /\ dir["tmp"] # Nil
        /\ dir' = [path |-> dir["tmp"], tmp |-> Nil]
        /\ Return(s, "ok")
     \/ Return(s, "err") /\ dir' = [dir EXCEPT !["path"] = Nil]
  /\ UNCHANGED <<diskDir, data, flushed, reader, plain>>

Rename(s) ==
  /\ pc[s] = "rename"
  /\ \/ /\ dir["tmp"] # Nil
        /\ dir' = [path |-> dir["tmp"], tmp |-> Nil]
        /\ Return(s, "ok")
     \/ Return(s, "err") /\ UNCHANGED dir
  /\ UNCHANGED <<diskDir, data, flushed, reader, plain>>

-----------------------------------------------------------------------------
(* Load, by another store: open, read, decode. *)

LoadOpen ==
  /\ reader = Nil /\ dir["path"] # Nil
  /\ reader' = [fd |-> dir["path"], got |-> <<>>]
  /\ UNCHANGED <<fileVars, saverVars>>

LoadRead ==
  /\ reader # Nil
  /\ Len(reader.got) < Chunks
  /\ Len(reader.got) < Len(data[reader.fd])
  /\ reader' = [reader EXCEPT !.got = Append(@, data[reader.fd][Len(@) + 1])]
  /\ UNCHANGED <<fileVars, saverVars>>

\* The decoder accepts a stream of full length without holes.
Accepted(got) == Len(got) = Chunks /\ \A i \in DOMAIN got : got[i] # Nil

\* Load returns at the end of the stream or of the file: restore replaces the
\* other store by what was accepted, or the error leaves it as it was.
LoadEnd ==
  /\ reader # Nil
  /\ Len(reader.got) = Chunks \/ Len(reader.got) >= Len(data[reader.fd])
  /\ reader' = Nil
  /\ UNCHANGED <<fileVars, saverVars>>

-----------------------------------------------------------------------------
(* The operating system and the power supply. *)

\* The system may write any file or the directory to the disk at any time, in
\* any order.
WriteBackData ==
  /\ \E i \in (Linked \cup Opened) \ {Nil} :
       ~flushed[i] /\ flushed' = [flushed EXCEPT ![i] = TRUE]
  /\ UNCHANGED <<dir, diskDir, data, saverVars, reader>>

WriteBackDir ==
  /\ diskDir # dir
  /\ diskDir' = dir
  /\ UNCHANGED <<dir, data, flushed, saverVars, reader>>

\* A file that was not flushed keeps some prefix of its chunks.
Crash ==
  /\ dir' = diskDir
  /\ data' \in {d \in [Inode -> UNION {{SubSeq(data[i], 1, n) : n \in 0 .. Len(data[i])}
                                       : i \in Inode}] :
                  \A i \in Inode :
                    IF \A x \in Name : diskDir[x] # i THEN d[i] = <<>>
                    ELSE IF flushed[i] THEN d[i] = data[i]
                    ELSE IsPrefix(d[i], data[i])}
  /\ flushed' = [i \in Inode |-> \E x \in Name : diskDir[x] = i]
  /\ pc' = [s \in Saver |-> "idle"]
  /\ method' = [s \in Saver |-> Nil]
  /\ ver' = [s \in Saver |-> Nil]
  /\ fd' = [s \in Saver |-> Nil]
  /\ off' = [s \in Saver |-> 0]
  /\ err' = [s \in Saver |-> FALSE]
  /\ ret' = [s \in Saver |-> "none"]
  /\ reader' = Nil
  /\ UNCHANGED <<diskDir, plain>>

-----------------------------------------------------------------------------
Init ==
  /\ dir = [x \in Name |-> Nil]
  /\ diskDir = dir
  /\ data = [i \in Inode |-> <<>>]
  /\ flushed = [i \in Inode |-> FALSE]
  /\ pc = [s \in Saver |-> "idle"]
  /\ method = [s \in Saver |-> Nil]
  /\ ver = [s \in Saver |-> Nil]
  /\ fd = [s \in Saver |-> Nil]
  /\ off = [s \in Saver |-> 0]
  /\ err = [s \in Saver |-> FALSE]
  /\ ret = [s \in Saver |-> "none"]
  /\ reader = Nil
  /\ plain = FALSE

SaveStep(s) ==
  \/ Begin(s) \/ Create(s) \/ Write(s) \/ Sync(s)
  \/ Close(s) \/ RemoveTmp(s) \/ Rename(s)

Next ==
  \/ \E s \in Saver : SaveStep(s)
  \/ LoadOpen \/ LoadRead \/ LoadEnd
  \/ WriteBackData \/ WriteBackDir \/ Crash

Spec == Init /\ [][Next]_vars

-----------------------------------------------------------------------------
(* Properties. *)

Pc == {"idle", "create", "write", "sync", "close", "remove", "rename"}

TypeOK ==
  /\ dir \in [Name -> Inode \cup {Nil}]
  /\ diskDir \in [Name -> Inode \cup {Nil}]
  /\ data \in [Inode -> Seq(Chunk)]
  /\ flushed \in [Inode -> BOOLEAN]
  /\ pc \in [Saver -> Pc]
  /\ method \in [Saver -> Method \cup {Nil}]
  /\ ver \in [Saver -> Version \cup {Nil}]
  /\ fd \in [Saver -> Inode \cup {Nil}]
  /\ off \in [Saver -> 0 .. Chunks]
  /\ err \in [Saver -> BOOLEAN]
  /\ ret \in [Saver -> {"none", "ok", "err"}]
  /\ reader = Nil \/ reader \in [fd : Inode, got : Seq(Chunk)]
  /\ plain \in BOOLEAN

\* As long as only SaveAtomic is used, whoever opens the path finds a whole
\* snapshot, whatever a running SaveAtomic has done so far and whichever of
\* its calls failed (store_persist.go SaveAtomic: temporary file, then rename).
PathIsWhole == ~plain /\ Shown # Nil => IsWhole(Shown)

\* The same of what a power failure would leave: the file was flushed before
\* its name could reach the disk (f.Sync before os.Rename).
DiskIsWhole ==
  ~plain /\ diskDir["path"] # Nil =>
    flushed[diskDir["path"]] /\ IsWhole(data[diskDir["path"]])

\* A Load that overlaps atomic saves accepts one snapshot, never parts of two.
LoadIsOneSnapshot ==
  ~plain /\ reader # Nil /\ Accepted(reader.got) => IsWhole(reader.got)

\* Until the next power failure, what the path shows changes only when a
\* SaveAtomic returns without error, and then to the snapshot it was given:
\* an error leaves the old file in place.
PathChangesOnlyBySuccess ==
  [][~plain' /\ Shown' # Shown /\ ~Crash =>
       \E s \in Saver : ret'[s] = "ok" /\ ret[s] # "ok" /\ Shown' = Whole(ver[s])]_vars

\* A save, atomic or not, that returned nil left its snapshot at the path,
\* leftovers of earlier failures and crashes notwithstanding.
SavedWhenOk == \A s \in Saver : ret[s] = "ok" => Shown = Whole(ver[s])
=============================================================================
