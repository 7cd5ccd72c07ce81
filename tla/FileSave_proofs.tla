--------------------------- MODULE FileSave_proofs ---------------------------
(***************************************************************************)
(* With one save at a time, a path is whole, in memory and on the disk,    *)
(* for any number of savers, snapshots, chunks and inodes.                 *)
(*                                                                         *)
(* That the path is whole says nothing of the temporary file that becomes  *)
(* the path, so the invariant also says what a running save has written    *)
(* (Progress), that no name shares the file of another (Apart), and, as    *)
(* long as nobody writes in place, that what a rename installed stays on   *)
(* the disk and under the hands of a reader (Clean).                       *)
(***************************************************************************)
EXTENDS FileSave, TLAPS, SequenceTheorems

\* The first n chunks of the snapshot v.
Part(v, n) == [i \in 1 .. n |-> v]

\* One save at a time.
Alone == \A s, t \in Saver : Active(s) /\ Active(t) => s = t

\* The temporary file is not the one at the path, now or after a power failure.
Apart ==
  /\ dir["path"] # Nil => dir["path"] # dir["tmp"]
  /\ diskDir["path"] # Nil => diskDir["path"] # diskDir["tmp"] /\ diskDir["path"] # dir["tmp"]

\* What s has written so far.
Progress(s) ==
  /\ pc[s] \in {"write", "sync", "close"} =>
       /\ fd[s] \in Inode /\ fd[s] = dir[Target(s)]
       /\ data[fd[s]] = Part(ver[s], off[s])
  /\ pc[s] = "write" => off[s] < Chunks /\ ~err[s]
  /\ pc[s] = "sync" => off[s] = Chunks /\ ~err[s] /\ method[s] = "SaveAtomic"
  /\ pc[s] = "close" /\ ~err[s] =>
       off[s] = Chunks /\ (method[s] = "SaveAtomic" => flushed[fd[s]])
  /\ pc[s] = "rename" => /\ method[s] = "SaveAtomic"
                         /\ dir["tmp"] \in Inode
                         /\ data[dir["tmp"]] = Whole(ver[s])
                         /\ flushed[dir["tmp"]]
  /\ pc[s] = "create" => off[s] = 0 /\ ~err[s]
  /\ Active(s) => method[s] \in Method /\ ver[s] \in Version /\ ret[s] # "ok"
  /\ ~Active(s) => fd[s] = Nil /\ off[s] = 0 /\ ~err[s]

\* The path still shows what the last save left.
Kept(s) ==
  ret[s] = "ok" => (\A t \in Saver : ~Active(t)) /\ ver[s] \in Version /\ Shown = Whole(ver[s])

\* The file i is whole and on the disk, and not the temporary one.
Solid(i) == i # dir["tmp"] /\ flushed[i] /\ IsWhole(data[i])

Clean ==
  ~plain =>
    /\ \A s \in Saver : Active(s) => method[s] = "SaveAtomic"
    /\ dir["path"] # Nil => Solid(dir["path"])
    /\ diskDir["path"] # Nil => Solid(diskDir["path"])
    /\ reader # Nil =>
         /\ reader.fd # dir["tmp"] /\ IsWhole(data[reader.fd])
         /\ Len(reader.got) <= Chunks
         /\ \A i \in 1 .. Len(reader.got) : reader.got[i] = data[reader.fd][i]

IInv ==
  /\ TypeOK
  /\ Alone
  /\ Apart
  /\ \A s \in Saver : Progress(s)
  /\ \A s \in Saver : Kept(s)
  /\ Clean

LEMMA PartSeq ==
  ASSUME NEW v, NEW n \in Nat
  PROVE  /\ Len(Part(v, n)) = n
         /\ v \in Chunk => Part(v, n) \in Seq(Chunk)
         /\ Part(v, 0) = <<>>
         /\ Written(Part(v, n), n + 1, v) = Part(v, n + 1)
<1>1. Len(Part(v, n)) = n /\ DOMAIN Part(v, n) = 1 .. n
  BY DEF Part
<1>2. v \in Chunk => Part(v, n) \in Seq(Chunk)
  BY DEF Part
<1>3. Part(v, 0) = <<>>
  BY DEF Part
<1>4. Written(Part(v, n), n + 1, v) = Part(v, n + 1)
  BY <1>1 DEF Part, Written
<1>5. QED
  BY <1>1, <1>2, <1>3, <1>4

LEMMA WholeIsPart == \A v : Whole(v) = Part(v, Chunks)
  BY DEF Whole, Part

LEMMA TypeFacts ==
  ASSUME TypeOK
  PROVE  /\ Nil \notin Inode /\ Nil \notin Version
         /\ \A x \in Name : dir[x] \in Inode \cup {Nil} /\ diskDir[x] \in Inode \cup {Nil}
         /\ "path" \in Name /\ "tmp" \in Name
         /\ \A s \in Saver : /\ Target(s) \in Name
                             /\ fd[s] \in Inode \cup {Nil}
                             /\ ver[s] \in Version \cup {Nil}
                             /\ off[s] \in Nat /\ off[s] <= Chunks
         /\ Chunks \in Nat
  BY NilAssumption, ChunksAssumption DEF TypeOK, Name, Target

LEMMA InitIInv == Init => IInv
<1> SUFFICES ASSUME Init PROVE IInv
  OBVIOUS
<1>1. TypeOK
  <2>1. <<>> \in Seq(Chunk) /\ 0 \in 0 .. Chunks
    BY ChunksAssumption
  <2>2. diskDir = dir /\ dir \in [Name -> Inode \cup {Nil}]
    BY DEF Init
  <2>3. QED
    BY <2>1, <2>2 DEF Init, TypeOK, Pc
<1>2. Alone /\ Apart /\ Clean
  BY DEF Init, Alone, Apart, Clean, Active, Name
<1>3. \A s \in Saver : Progress(s) /\ Kept(s)
  BY DEF Init, Progress, Kept, Active
<1>4. QED
  BY <1>1, <1>2, <1>3 DEF IInv

\* While s runs nobody else does, and the last result is forgotten.
LEMMA Others ==
  ASSUME IInv, NEW s \in Saver, Active(s)
  PROVE  /\ \A t \in Saver \ {s} : ~Active(t)
         /\ \A t \in Saver : ret[t] # "ok"
<1>1. \A t \in Saver \ {s} : ~Active(t)
  BY DEF IInv, Alone
<1>2. \A t \in Saver : ret[t] # "ok"
  BY DEF IInv, Kept
<1>3. QED
  BY <1>1, <1>2

\* A saver that does not run and is left alone.
LEMMA IdleStays ==
  ASSUME NEW t \in Saver, Progress(t), ~Active(t),
         UNCHANGED <<pc[t], fd[t], off[t], err[t]>>
  PROVE  Progress(t)' /\ ~Active(t)'
  BY DEF Progress, Active

\* A step of s that stays inside the operation.
LEMMA StillRunning ==
  ASSUME IInv, NEW s \in Saver, Active(s), NEW l \in Pc \ {"idle"},
         pc' = [pc EXCEPT ![s] = l], ret' = ret, Progress(s)',
         \A t \in Saver \ {s} : UNCHANGED <<fd[t], off[t], err[t]>>
  PROVE  Alone' /\ (\A t \in Saver : Progress(t)') /\ (\A t \in Saver : Kept(t)')
<1>1. \A t \in Saver \ {s} : pc'[t] = pc[t] /\ ~Active(t) /\ Progress(t)
  BY Others DEF IInv, TypeOK
<1>2. \A t \in Saver \ {s} : Progress(t)' /\ ~Active(t)'
  BY <1>1, IdleStays
<1>3. \A t \in Saver : Kept(t)'
  BY Others DEF Kept
<1>4. QED
  BY <1>2, <1>3 DEF Alone

LEMMA BeginIInv ==
  ASSUME IInv, Exclusive, NEW s \in Saver, Begin(s)
  PROVE  IInv'
<1>1. \A t \in Saver : ~Active(t)
  BY DEF Begin
<1>2. PICK m \in Method, v \in Version :
        /\ method' = [method EXCEPT ![s] = m]
        /\ plain' = (plain \/ m = "Save")
        /\ ver' = [t \in Saver |-> IF t = s THEN v ELSE IF Active(t) THEN ver[t] ELSE Nil]
  BY DEF Begin
<1>3. /\ pc' = [pc EXCEPT ![s] = "create"]
      /\ ret' = [t \in Saver |-> "none"]
      /\ UNCHANGED <<fileVars, fd, off, err, reader>>
  BY DEF Begin
<1>4. TypeOK'
  BY <1>1, <1>2, <1>3 DEF IInv, TypeOK, Pc, fileVars
<1>5. \A t \in Saver \ {s} : Progress(t)' /\ ~Active(t)'
  BY <1>1, <1>3, IdleStays DEF IInv, TypeOK
<1>6. Progress(s)'
  <2>1. fd[s] = Nil /\ off[s] = 0 /\ ~err[s]
    BY <1>1 DEF IInv, Progress
  <2>2. pc'[s] = "create" /\ method'[s] = m /\ ver'[s] = v /\ ret'[s] = "none"
    BY <1>2, <1>3 DEF IInv, TypeOK
  <2>3. QED
    BY <1>3, <2>1, <2>2 DEF Progress, Active
<1>7. Alone'
  BY <1>5 DEF Alone
<1>8. Apart'
  BY <1>3 DEF IInv, Apart, fileVars
<1>9. \A t \in Saver : Kept(t)'
  BY <1>3 DEF Kept
<1>10. Clean'
  <2> SUFFICES ASSUME ~plain' PROVE Clean'
    BY DEF Clean
  <2>1. ~plain /\ m = "SaveAtomic"
    BY <1>2, MethodAssumption
  <2>2. \A t \in Saver : Active(t)' => method'[t] = "SaveAtomic"
    BY <1>2, <1>5, <2>1 DEF IInv, TypeOK
  <2>3. QED
    BY <1>3, <2>1, <2>2 DEF IInv, Clean, Solid, fileVars
<1>11. QED
  BY <1>4, <1>5, <1>6, <1>7, <1>8, <1>9, <1>10 DEF IInv

\* An operation fails, and may remove the temporary file.
LEMMA FailIInv ==
  ASSUME IInv, NEW s \in Saver, Active(s), Return(s, "err"),
         dir' = dir \/ dir' = [dir EXCEPT !["tmp"] = Nil],
         UNCHANGED <<diskDir, data, flushed, reader, plain>>
  PROVE  IInv'
<1>1. /\ pc' = [pc EXCEPT ![s] = "idle"]
      /\ fd' = [fd EXCEPT ![s] = Nil]
      /\ off' = [off EXCEPT ![s] = 0]
      /\ err' = [err EXCEPT ![s] = FALSE]
      /\ method' = [method EXCEPT ![s] = Nil]
      /\ ver' = [ver EXCEPT ![s] = Nil]
      /\ ret' = [ret EXCEPT ![s] = "err"]
  BY DEF Return
<1>2. TypeOK'
  BY <1>1, TypeFacts DEF IInv, TypeOK, Pc, Name
<1>3. \A t \in Saver : Progress(t)' /\ ~Active(t)'
  <2>1. Progress(s)' /\ ~Active(s)'
    BY <1>1 DEF IInv, TypeOK, Progress, Active
  <2>2. \A t \in Saver \ {s} : Progress(t)' /\ ~Active(t)'
    BY <1>1, Others, IdleStays DEF IInv, TypeOK
  <2>3. QED
    BY <2>1, <2>2
<1>4. Alone'
  BY <1>3 DEF Alone
<1>5. \A t \in Saver : Kept(t)'
  BY <1>1, Others DEF IInv, TypeOK, Kept
<1>6. dir'["path"] = dir["path"] /\ dir'["tmp"] \in {dir["tmp"], Nil}
  BY TypeFacts DEF IInv, TypeOK, Name
<1>7. Apart'
  BY <1>6 DEF IInv, Apart
<1>8. Clean'
  <2> SUFFICES ASSUME ~plain PROVE Clean'
    BY DEF Clean
  <2>1. /\ dir["path"] # Nil => Solid(dir["path"])'
        /\ diskDir["path"] # Nil => Solid(diskDir["path"])'
    BY <1>6 DEF IInv, Clean, Solid
  <2>2. reader # Nil => reader.fd # Nil
    BY TypeFacts DEF IInv, TypeOK
  <2>3. QED
    BY <1>3, <1>6, <2>1, <2>2 DEF IInv, Clean
<1>9. QED
  BY <1>2, <1>3, <1>4, <1>5, <1>7, <1>8 DEF IInv

LEMMA CreateIInv ==
  ASSUME IInv, NEW s \in Saver, Create(s)
  PROVE  IInv'
<1>1. Active(s) /\ off[s] = 0 /\ ~err[s]
  BY DEF Create, Active, IInv, Progress
<1>2. CASE Return(s, "err") /\ UNCHANGED <<dir, data, flushed>>
  BY <1>1, <1>2, FailIInv DEF Create
<1>3. CASE ~(Return(s, "err") /\ UNCHANGED <<dir, data, flushed>>)
  <2>1. PICK i \in (IF dir[Target(s)] # Nil THEN {dir[Target(s)]} ELSE Free) :
          /\ dir' = [dir EXCEPT ![Target(s)] = i]
          /\ data' = [j \in Inode |-> IF j \in Free \cup {i} THEN <<>> ELSE data[j]]
          /\ flushed' = [j \in Inode |-> j \notin Free \cup {i} /\ flushed[j]]
          /\ fd' = [fd EXCEPT ![s] = i]
          /\ pc' = [pc EXCEPT ![s] = "write"]
          /\ UNCHANGED <<off, err, method, ver, ret>>
    BY <1>3 DEF Create
  <2>2. i \in Inode
    BY TypeFacts DEF Free, IInv
  <2>3. UNCHANGED <<diskDir, reader, plain>>
    BY DEF Create
  <2>4. TypeOK'
    BY <2>1, <2>2, <2>3, TypeFacts, EmptySeq DEF IInv, TypeOK, Pc
  <2>5. Progress(s)'
    <3>1. /\ pc'[s] = "write" /\ fd'[s] = i /\ dir'[Target(s)] = i /\ data'[i] = <<>>
          /\ Target(s)' = Target(s)
      BY <2>1, <2>2, TypeFacts DEF IInv, TypeOK, Target
    <3>2. Part(ver[s], 0) = <<>>
      BY PartSeq
    <3>3. Progress(s)
      BY DEF IInv
    <3>4. QED
      BY <1>1, <2>1, <2>2, <3>1, <3>2, <3>3, ChunksAssumption DEF Progress, Active
  <2>6. Alone' /\ (\A t \in Saver : Progress(t)') /\ (\A t \in Saver : Kept(t)')
    BY <1>1, <2>1, <2>5, StillRunning DEF IInv, TypeOK, Pc
  <2>7. \A x \in Name : x # Target(s) => dir'[x] = dir[x] /\ dir[x] \notin Free \cup {i}
    <3> SUFFICES ASSUME NEW x \in Name, x # Target(s)
                 PROVE  dir'[x] = dir[x] /\ dir[x] \notin Free \cup {i}
      OBVIOUS
    <3>1. dir'[x] = dir[x] /\ dir'[Target(s)] = i
      BY <2>1, TypeFacts DEF IInv, TypeOK
    <3>2. dir[x] \notin Free
      BY DEF Free, Linked
    <3>3. dir[x] # i
      <4>1. CASE i \in Free
        BY <3>2, <4>1
      <4>2. CASE i = dir[Target(s)]
        BY <2>2, <4>2, TypeFacts DEF IInv, Apart, Name
      <4>3. QED
        BY <2>1, <4>1, <4>2
    <3>4. QED
      BY <3>1, <3>2, <3>3
  <2>8. diskDir["path"] # i \/ Target(s) = "path"
    <3>1. CASE i \in Free
      BY <3>1 DEF Free, Linked, Name
    <3>2. CASE i = dir[Target(s)]
      BY <2>2, <3>2, TypeFacts DEF IInv, Apart, Name
    <3>3. QED
      BY <2>1, <3>1, <3>2
  <2>9. dir'[Target(s)] = i
    BY <2>1, TypeFacts DEF IInv, TypeOK
  <2>10. Apart'
    BY <2>2, <2>3, <2>7, <2>8, <2>9, TypeFacts DEF IInv, Apart, Name
  <2>11. Clean'
    <3> SUFFICES ASSUME ~plain PROVE Clean'
      BY <2>3 DEF Clean
    <3>1. Target(s) = "tmp" /\ dir'["tmp"] = i
      BY <1>1, <2>9 DEF IInv, Clean, Target
    <3>2. dir'["path"] = dir["path"] /\ dir["path"] \notin Free \cup {i}
      BY <2>7, <3>1, TypeFacts DEF IInv
    <3>3. diskDir["path"] \notin Free \cup {i}
      BY <2>8, <3>1 DEF Free, Linked, Name
    <3>4. reader # Nil => reader.fd \notin Free \cup {i}
      <4> SUFFICES ASSUME reader # Nil PROVE reader.fd \notin Free \cup {i}
        OBVIOUS
      <4>1. reader.fd \notin Free
        BY DEF Free, Opened
      <4>2. reader.fd # dir["tmp"]
        BY DEF IInv, Clean
      <4>3. QED
        BY <2>1, <3>1, <4>1, <4>2
    <3>5. ASSUME NEW j \in Inode, j \notin Free \cup {i}
          PROVE  data'[j] = data[j] /\ flushed'[j] = flushed[j]
      BY <2>1, <3>5 DEF IInv, TypeOK
    <3>6. \A t \in Saver : Active(t)' => method'[t] = "SaveAtomic"
      <4>1. \A t \in Saver : Active(t)' => Active(t)
        BY <1>1, <2>1 DEF IInv, TypeOK, Active
      <4>2. QED
        BY <2>1, <4>1 DEF IInv, Clean
    <3>7. dir["path"] # Nil => Solid(dir["path"])'
      BY <3>1, <3>2, <3>5, TypeFacts DEF IInv, Clean, Solid
    <3>8. diskDir["path"] # Nil => Solid(diskDir["path"])'
      BY <2>3, <3>1, <3>3, <3>5, TypeFacts DEF IInv, Clean, Solid
    <3>9. reader # Nil =>
            reader.fd # dir'["tmp"] /\ data'[reader.fd] = data[reader.fd]
      BY <3>1, <3>4, <3>5 DEF IInv, TypeOK
    <3>10. QED
      BY <2>3, <3>2, <3>6, <3>7, <3>8, <3>9 DEF IInv, Clean
  <2>12. QED
    BY <2>4, <2>6, <2>10, <2>11 DEF IInv
<1>4. QED
  BY <1>2, <1>3

\* As long as only SaveAtomic is used, what it writes is no file of the path.
LEMMA WritesTmp ==
  ASSUME IInv, NEW s \in Saver, pc[s] \in {"write", "sync", "close"}, ~plain
  PROVE  /\ fd[s] = dir["tmp"] /\ method[s] = "SaveAtomic"
         /\ dir["path"] # fd[s] /\ diskDir["path"] # fd[s]
         /\ reader # Nil => reader.fd # fd[s]
<1>1. method[s] = "SaveAtomic"
  BY DEF IInv, Clean, Active
<1>2. fd[s] = dir["tmp"] /\ fd[s] # Nil
  BY <1>1, TypeFacts DEF IInv, Progress, Target
<1>3. QED
  BY <1>1, <1>2 DEF IInv, Clean, Apart

LEMMA WriteIInv ==
  ASSUME IInv, NEW s \in Saver, Write(s)
  PROVE  IInv'
<1>1. /\ pc[s] = "write" /\ Active(s)
      /\ UNCHANGED <<dir, diskDir, method, ver, fd, ret, reader, plain>>
  BY DEF Write, Active
<1>2. /\ fd[s] \in Inode /\ fd[s] = dir[Target(s)]
      /\ data[fd[s]] = Part(ver[s], off[s]) /\ ver[s] \in Version
      /\ off[s] < Chunks /\ off[s] \in Nat /\ Chunks \in Nat /\ ~err[s]
      /\ method[s] \in Method /\ ret[s] # "ok"
  BY <1>1, TypeFacts DEF IInv, Progress
<1>3. Apart'
  BY <1>1 DEF IInv, Apart
<1>4. \A t \in Saver : Active(t)' => Active(t)
  BY <1>1 DEF Write, IInv, TypeOK, Active
<1>5. CASE /\ data' = [data EXCEPT ![fd[s]] = Written(@, off[s] + 1, ver[s])]
           /\ flushed' = [flushed EXCEPT ![fd[s]] = FALSE]
           /\ off' = [off EXCEPT ![s] = @ + 1]
           /\ pc' = [pc EXCEPT ![s] = IF Complete(s) THEN AfterWrite(s) ELSE "write"]
           /\ UNCHANGED err
  <2> DEFINE next == IF Complete(s) THEN AfterWrite(s) ELSE "write"
  <2>1. next \in Pc \ {"idle"}
    BY DEF AfterWrite, Pc
  <2>2. /\ data'[fd[s]] = Part(ver[s], off[s] + 1)
        /\ Part(ver[s], off[s] + 1) \in Seq(Chunk)
    <3>1. /\ Written(Part(ver[s], off[s]), off[s] + 1, ver[s]) = Part(ver[s], off[s] + 1)
          /\ Part(ver[s], off[s] + 1) \in Seq(Chunk)
      <4>1. ver[s] \in Chunk /\ off[s] + 1 \in Nat
        BY <1>2 DEF Chunk
      <4>2. QED
        BY <1>2, <4>1, PartSeq
    <3>2. QED
      BY <1>2, <1>5, <3>1 DEF IInv, TypeOK
  <2>3. TypeOK'
    BY <1>1, <1>2, <1>5, <2>1, <2>2 DEF IInv, TypeOK
  <2>4. /\ pc'[s] = next /\ off'[s] = off[s] + 1 /\ Target(s)' = Target(s)
        /\ next = "write" => off[s] + 1 < Chunks
        /\ next # "write" => off[s] + 1 = Chunks
        /\ next = "sync" => method[s] = "SaveAtomic"
        /\ next = "close" => method[s] # "SaveAtomic"
        /\ next \in {"write", "sync", "close"}
    BY <1>1, <1>2, <1>5 DEF IInv, TypeOK, Complete, AfterWrite, Target
  <2>5. Progress(s)'
    BY <1>1, <1>2, <1>5, <2>2, <2>4 DEF Progress, Active
  <2>6. Alone' /\ (\A t \in Saver : Progress(t)') /\ (\A t \in Saver : Kept(t)')
    BY <1>1, <1>5, <2>1, <2>5, StillRunning DEF IInv, TypeOK
  <2>7. Clean'
    <3> SUFFICES ASSUME ~plain PROVE Clean'
      BY <1>1 DEF Clean
    <3>1. \A i \in Inode : i # fd[s] => data'[i] = data[i] /\ flushed'[i] = flushed[i]
      BY <1>5 DEF IInv, TypeOK
    <3>2. /\ dir["path"] # Nil => Solid(dir["path"])'
          /\ diskDir["path"] # Nil => Solid(diskDir["path"])'
      BY <1>1, <3>1, WritesTmp, TypeFacts DEF IInv, Clean, Solid
    <3>3. reader # Nil => data'[reader.fd] = data[reader.fd]
      BY <1>1, <3>1, WritesTmp DEF IInv, TypeOK
    <3>4. QED
      BY <1>1, <1>4, <3>2, <3>3 DEF IInv, Clean
  <2>8. QED
    BY <1>3, <2>3, <2>6, <2>7 DEF IInv
<1>6. CASE /\ err' = [err EXCEPT ![s] = TRUE]
           /\ pc' = [pc EXCEPT ![s] = "close"]
           /\ UNCHANGED <<data, flushed, off>>
  <2>1. TypeOK'
    BY <1>1, <1>6 DEF IInv, TypeOK, Pc
  <2>2. pc'[s] = "close" /\ err'[s] /\ Target(s)' = Target(s)
    BY <1>1, <1>6 DEF IInv, TypeOK, Target
  <2>3. Progress(s)'
    BY <1>1, <1>2, <1>6, <2>2 DEF Progress, Active
  <2>4. Alone' /\ (\A t \in Saver : Progress(t)') /\ (\A t \in Saver : Kept(t)')
    BY <1>1, <1>6, <2>3, StillRunning DEF IInv, TypeOK, Pc
  <2>5. Clean'
    BY <1>1, <1>4, <1>6 DEF IInv, Clean, Solid
  <2>6. QED
    BY <1>3, <2>1, <2>4, <2>5 DEF IInv
<1>7. QED
  BY <1>5, <1>6 DEF Write

LEMMA SyncIInv ==
  ASSUME IInv, NEW s \in Saver, Sync(s)
  PROVE  IInv'
<1>1. /\ pc[s] = "sync" /\ Active(s)
      /\ pc' = [pc EXCEPT ![s] = "close"]
      /\ UNCHANGED <<dir, diskDir, data, method, ver, fd, off, ret, reader, plain>>
      /\ \/ flushed' = [flushed EXCEPT ![fd[s]] = TRUE] /\ UNCHANGED err
         \/ err' = [err EXCEPT ![s] = TRUE] /\ UNCHANGED flushed
  BY DEF Sync, Active
<1>2. TypeOK'
  BY <1>1 DEF IInv, TypeOK, Pc
<1>3. Progress(s)'
  <2>1. /\ fd[s] \in Inode /\ Progress(s)
        /\ pc'[s] = "close" /\ Target(s)' = Target(s)
    BY <1>1 DEF IInv, TypeOK, Progress, Target
  <2>2. flushed'[fd[s]] \/ err'[s]
    BY <1>1, <2>1 DEF IInv, TypeOK
  <2>3. QED
    BY <1>1, <2>1, <2>2 DEF Progress, Active
<1>4. Alone' /\ (\A t \in Saver : Progress(t)') /\ (\A t \in Saver : Kept(t)')
  <2>1. \A t \in Saver \ {s} : UNCHANGED <<fd[t], off[t], err[t]>>
    BY <1>1 DEF IInv, TypeOK
  <2>2. QED
    BY <1>1, <1>3, <2>1, StillRunning DEF Pc
<1>5. Clean'
  <2>1. \A i \in Inode : flushed[i] => flushed'[i]
    BY <1>1 DEF IInv, TypeOK
  <2>2. \A t \in Saver : Active(t)' => Active(t)
    BY <1>1 DEF IInv, TypeOK, Active
  <2>3. QED
    BY <1>1, <2>1, <2>2, TypeFacts DEF IInv, Clean, Solid
<1>6. Apart'
  BY <1>1 DEF IInv, Apart
<1>7. QED
  BY <1>2, <1>4, <1>5, <1>6 DEF IInv

\* A save has succeeded: the path, alone changed, shows its snapshot.
LEMMA SuccessIInv ==
  ASSUME IInv, NEW s \in Saver, Active(s), Return(s, "ok"),
         dir' = dir \/ dir' = [path |-> dir["tmp"], tmp |-> Nil],
         Shown' = Whole(ver[s]),
         ~plain => dir'["path"] # Nil /\ dir'["tmp"] = Nil /\ Solid(dir["path"])',
         UNCHANGED <<diskDir, data, flushed, reader, plain>>
  PROVE  IInv'
<1>1. /\ pc' = [pc EXCEPT ![s] = "idle"]
      /\ fd' = [fd EXCEPT ![s] = Nil]
      /\ off' = [off EXCEPT ![s] = 0]
      /\ err' = [err EXCEPT ![s] = FALSE]
      /\ method' = [method EXCEPT ![s] = Nil]
      /\ ver' = [ver EXCEPT ![s] = ver[s]]
      /\ ret' = [ret EXCEPT ![s] = "ok"]
  BY DEF Return
<1>2. TypeOK'
  <2>1. dir' \in [Name -> Inode \cup {Nil}]
    BY TypeFacts DEF IInv, TypeOK, Name
  <2>2. QED
    BY <1>1, <2>1, TypeFacts DEF IInv, TypeOK, Pc
<1>3. \A t \in Saver : Progress(t)' /\ ~Active(t)'
  <2>1. Progress(s)' /\ ~Active(s)'
    BY <1>1 DEF IInv, TypeOK, Progress, Active
  <2>2. \A t \in Saver \ {s} : Progress(t)' /\ ~Active(t)'
    BY <1>1, Others, IdleStays DEF IInv, TypeOK
  <2>3. QED
    BY <2>1, <2>2
<1>4. Alone'
  BY <1>3 DEF Alone
<1>5. \A t \in Saver : Kept(t)'
  <2>1. ver[s] \in Version /\ ver'[s] = ver[s]
    BY <1>1 DEF IInv, TypeOK, Progress
  <2>2. \A t \in Saver \ {s} : ret'[t] # "ok"
    BY <1>1, Others DEF IInv, TypeOK
  <2>3. QED
    BY <1>3, <2>1, <2>2 DEF Kept
<1>6. Apart'
  BY TypeFacts DEF IInv, Apart
<1>7. Clean'
  <2> SUFFICES ASSUME ~plain PROVE Clean'
    BY DEF Clean
  <2>1. diskDir["path"] # Nil => Solid(diskDir["path"])'
    BY DEF IInv, Clean, Solid
  <2>2. reader # Nil => reader.fd # Nil
    BY TypeFacts DEF IInv, TypeOK
  <2>3. QED
    BY <1>3, <2>1, <2>2 DEF IInv, Clean
<1>8. QED
  BY <1>2, <1>3, <1>4, <1>5, <1>6, <1>7 DEF IInv

LEMMA CloseIInv ==
  ASSUME IInv, NEW s \in Saver, Close(s)
  PROVE  IInv'
<1>1. pc[s] = "close" /\ Active(s) /\ UNCHANGED <<dir, diskDir, data, flushed, reader, plain>>
  BY DEF Close, Active, fileVars
<1>2. PICK failed \in BOOLEAN :
        IF method[s] = "SaveAtomic"
          THEN /\ pc' = [pc EXCEPT ![s] = AfterClose(Outcome(s, failed))]
               /\ fd' = [fd EXCEPT ![s] = Nil]
               /\ UNCHANGED <<method, ver, off, err, ret>>
          ELSE Return(s, IF Outcome(s, failed) THEN "err" ELSE "ok")
  BY DEF Close
<1>3. /\ fd[s] \in Inode /\ fd[s] = dir[Target(s)]
      /\ data[fd[s]] = Part(ver[s], off[s])
      /\ ~err[s] => off[s] = Chunks /\ (method[s] = "SaveAtomic" => flushed[fd[s]])
      /\ method[s] \in Method /\ ver[s] \in Version /\ ret[s] # "ok"
  BY <1>1 DEF IInv, Progress
<1>4. CASE method[s] = "SaveAtomic"
  <2> DEFINE next == AfterClose(Outcome(s, failed))
  <2>1. /\ next \in {"remove", "rename"} /\ (next = "rename" => ~err[s])
        /\ pc' = [pc EXCEPT ![s] = next]
        /\ fd' = [fd EXCEPT ![s] = Nil]
        /\ UNCHANGED <<method, ver, off, err, ret>>
    BY <1>2, <1>4 DEF AfterClose, Outcome, IInv, TypeOK
  <2> HIDE DEF next
  <2>2. TypeOK'
    BY <1>1, <2>1 DEF IInv, TypeOK, Pc
  <2>3. Progress(s)'
    <3>1. pc'[s] = next /\ fd[s] = dir["tmp"]
      BY <1>3, <1>4, <2>1 DEF IInv, TypeOK, Target
    <3>2. ~err[s] => data[dir["tmp"]] = Whole(ver[s]) /\ flushed[dir["tmp"]]
      BY <1>3, <1>4, <3>1, WholeIsPart
    <3>3. QED
      BY <1>1, <1>3, <1>4, <2>1, <3>1, <3>2 DEF Progress, Active
  <2>4. Alone' /\ (\A t \in Saver : Progress(t)') /\ (\A t \in Saver : Kept(t)')
    <3>1. \A t \in Saver \ {s} : UNCHANGED <<fd[t], off[t], err[t]>>
      BY <2>1 DEF IInv, TypeOK
    <3>2. QED
      BY <1>1, <2>1, <2>3, <3>1, StillRunning DEF Pc
  <2>5. Clean'
    <3>1. \A t \in Saver : Active(t)' => Active(t)
      BY <1>1, <2>1 DEF IInv, TypeOK, Active
    <3>2. QED
      BY <1>1, <2>1, <3>1 DEF IInv, Clean, Solid
  <2>6. Apart'
    BY <1>1 DEF IInv, Apart
  <2>7. QED
    BY <2>2, <2>4, <2>5, <2>6 DEF IInv
<1>5. CASE method[s] # "SaveAtomic" /\ Outcome(s, failed)
  BY <1>1, <1>2, <1>5, FailIInv
<1>6. CASE method[s] # "SaveAtomic" /\ ~Outcome(s, failed)
  <2>1. Return(s, "ok") /\ ~err[s]
    BY <1>2, <1>6 DEF Outcome, IInv, TypeOK
  <2>2. Shown' = Whole(ver[s])
    BY <1>1, <1>3, <1>6, <2>1, WholeIsPart, TypeFacts DEF Shown, Target, IInv
  <2>3. plain
    BY <1>1, <1>6 DEF IInv, Clean
  <2>4. QED
    BY <1>1, <2>1, <2>2, <2>3, SuccessIInv
<1>7. QED
  BY <1>4, <1>5, <1>6

LEMMA RenameIInv ==
  ASSUME IInv, NEW s \in Saver, Rename(s)
  PROVE  IInv'
<1>1. pc[s] = "rename" /\ Active(s) /\ UNCHANGED <<diskDir, data, flushed, reader, plain>>
  BY DEF Rename, Active
<1>2. CASE Return(s, "err") /\ UNCHANGED dir
  BY <1>1, <1>2, FailIInv
<1>3. CASE dir' = [path |-> dir["tmp"], tmp |-> Nil] /\ Return(s, "ok")
  <2>1. /\ dir["tmp"] \in Inode /\ data[dir["tmp"]] = Whole(ver[s])
        /\ flushed[dir["tmp"]] /\ ver[s] \in Version
    BY <1>1 DEF IInv, Progress
  <2>2. dir'["path"] = dir["tmp"] /\ dir'["tmp"] = Nil /\ dir["tmp"] # Nil
    BY <1>3, <2>1, NilAssumption
  <2>3. Shown' = Whole(ver[s]) /\ Solid(dir["path"])'
    BY <1>1, <2>1, <2>2 DEF Shown, Solid, IsWhole
  <2>4. QED
    BY <1>1, <1>3, <2>2, <2>3, SuccessIInv
<1>4. QED
  BY <1>2, <1>3 DEF Rename

LEMMA RemoveTmpIInv ==
  ASSUME IInv, NEW s \in Saver, RemoveTmp(s)
  PROVE  IInv'
  BY FailIInv DEF RemoveTmp, Active

LEMMA LoadOpenIInv ==
  ASSUME IInv, LoadOpen
  PROVE  IInv'
<1>1. /\ reader' = [fd |-> dir["path"], got |-> <<>>] /\ dir["path"] \in Inode
      /\ UNCHANGED <<fileVars, saverVars>>
  BY TypeFacts DEF LoadOpen, IInv
<1>2. TypeOK'
  <2>1. <<>> \in Seq(Chunk)
    OBVIOUS
  <2>2. QED
    BY <1>1, <2>1 DEF IInv, TypeOK, fileVars, saverVars, localVars
<1>3. reader'.fd = dir["path"] /\ Len(reader'.got) = 0
  BY <1>1
<1>4. Clean'
  <2> SUFFICES ASSUME ~plain PROVE Clean'
    BY <1>1 DEF Clean, saverVars
  <2>1. Solid(dir["path"])
    BY <1>1, NilAssumption DEF IInv, Clean
  <2>2. \A i \in 1 .. Len(reader'.got) : reader'.got[i] = data[reader'.fd][i]
    BY <1>3
  <2>3. reader'.fd # dir["tmp"] /\ IsWhole(data[reader'.fd]) /\ Len(reader'.got) <= Chunks
    BY <1>3, <2>1, ChunksAssumption DEF Solid
  <2>4. QED
    BY <1>1, <2>2, <2>3 DEF IInv, Clean, Solid, Active, IsWhole, fileVars, saverVars, localVars
<1>5. QED
  BY <1>1, <1>2, <1>4
  DEF IInv, Alone, Apart, Progress, Kept, Active, Shown, Target, fileVars, saverVars, localVars

LEMMA LoadReadIInv ==
  ASSUME IInv, LoadRead
  PROVE  IInv'
<1>1. /\ reader \in [fd : Inode, got : Seq(Chunk)]
      /\ Len(reader.got) < Chunks /\ Len(reader.got) < Len(data[reader.fd])
      /\ reader' = [reader EXCEPT !.got = Append(@, data[reader.fd][Len(@) + 1])]
      /\ UNCHANGED <<fileVars, saverVars>>
  BY DEF LoadRead, IInv, TypeOK
<1> DEFINE n == Len(reader.got)
           c == data[reader.fd][n + 1]
<1>2. n \in Nat /\ Chunks \in Nat
  BY <1>1, ChunksAssumption
<1>3. c \in Chunk
  <2>1. data[reader.fd] \in Seq(Chunk)
    BY <1>1 DEF IInv, TypeOK
  <2>2. n + 1 \in 1 .. Len(data[reader.fd])
    BY <1>1, <1>2, <2>1
  <2>3. QED
    BY <2>1, <2>2
<1>4. reader'.fd = reader.fd /\ reader'.got = Append(reader.got, c)
  BY <1>1
<1>5. /\ Append(reader.got, c) \in Seq(Chunk)
      /\ Len(reader'.got) = n + 1
      /\ \A i \in 1 .. n + 1 : reader'.got[i] = IF i <= n THEN reader.got[i] ELSE c
  BY <1>1, <1>3, <1>4, AppendProperties
<1>6. TypeOK'
  BY <1>1, <1>4, <1>5 DEF IInv, TypeOK, fileVars, saverVars, localVars
<1>7. Clean'
  <2> SUFFICES ASSUME ~plain PROVE Clean'
    BY <1>1 DEF Clean, saverVars
  <2>1. reader # Nil
    BY DEF LoadRead
  <2>2. \A i \in 1 .. n : reader.got[i] = data[reader.fd][i]
    BY <2>1 DEF IInv, Clean
  <2>3. ASSUME NEW i \in 1 .. n + 1 PROVE reader'.got[i] = data[reader.fd][i]
    <3>1. CASE i = n + 1
      BY <1>2, <1>5, <3>1
    <3>2. CASE i # n + 1
      <4>1. i \in 1 .. n /\ i <= n
        BY <1>2, <3>2
      <4>2. QED
        BY <1>5, <2>2, <4>1
    <3>3. QED
      BY <3>1, <3>2
  <2>4. n + 1 <= Chunks
    BY <1>1, <1>2
  <2>5. QED
    BY <1>1, <1>4, <1>5, <2>1, <2>3, <2>4
    DEF IInv, Clean, Solid, Active, IsWhole, fileVars, saverVars, localVars
<1>8. QED
  BY <1>1, <1>6, <1>7
  DEF IInv, Alone, Apart, Progress, Kept, Active, Shown, Target, fileVars, saverVars, localVars

LEMMA LoadEndIInv ==
  ASSUME IInv, LoadEnd
  PROVE  IInv'
  BY DEF LoadEnd, IInv, TypeOK, Alone, Apart, Progress, Kept, Clean, Solid, Active, Shown,
         Target, IsWhole, fileVars, saverVars, localVars

LEMMA WriteBackIInv ==
  ASSUME IInv, WriteBackData \/ WriteBackDir
  PROVE  IInv'
<1>1. /\ UNCHANGED <<dir, data, saverVars, reader>>
      /\ diskDir' \in {dir, diskDir}
      /\ flushed' = flushed \/ \E i \in Inode : flushed' = [flushed EXCEPT ![i] = TRUE]
  BY TypeFacts DEF WriteBackData, WriteBackDir, Linked, Opened, IInv, TypeOK
<1>2. flushed' \in [Inode -> BOOLEAN] /\ \A i \in Inode : flushed[i] => flushed'[i]
  BY <1>1 DEF IInv, TypeOK
<1>3. TypeOK'
  BY <1>1, <1>2 DEF IInv, TypeOK, saverVars, localVars
<1>4. Apart'
  BY <1>1 DEF IInv, Apart
<1>5. \A s \in Saver : Progress(s)'
  BY <1>1, <1>2 DEF IInv, Progress, Active, Target, saverVars, localVars
<1>6. Alone' /\ \A s \in Saver : Kept(s)'
  BY <1>1 DEF IInv, Alone, Kept, Active, Shown, saverVars, localVars
<1>7. Clean'
  BY <1>1, <1>2, TypeFacts DEF IInv, Clean, Solid, Active, IsWhole, saverVars, localVars
<1>8. QED
  BY <1>3, <1>4, <1>5, <1>6, <1>7 DEF IInv

LEMMA CrashIInv ==
  ASSUME IInv, Crash
  PROVE  IInv'
<1>1. /\ dir' = diskDir
      /\ flushed' = [i \in Inode |-> \E x \in Name : diskDir[x] = i]
      /\ pc' = [s \in Saver |-> "idle"]
      /\ method' = [s \in Saver |-> Nil]
      /\ ver' = [s \in Saver |-> Nil]
      /\ fd' = [s \in Saver |-> Nil]
      /\ off' = [s \in Saver |-> 0]
      /\ err' = [s \in Saver |-> FALSE]
      /\ ret' = [s \in Saver |-> "none"]
      /\ reader' = Nil
      /\ UNCHANGED <<diskDir, plain>>
  BY DEF Crash
<1>2. data' \in [Inode -> Seq(Chunk)]
  <2>1. data' \in [Inode -> UNION {{SubSeq(data[i], 1, n) : n \in 0 .. Len(data[i])}
                                   : i \in Inode}]
    BY DEF Crash
  <2>2. ASSUME NEW i \in Inode, NEW n \in 0 .. Len(data[i])
        PROVE  SubSeq(data[i], 1, n) \in Seq(Chunk)
    <3>1. data[i] \in Seq(Chunk)
      BY DEF IInv, TypeOK
    <3>2. QED
      BY <3>1
  <2> DEFINE prefixes == UNION {{SubSeq(data[i], 1, n) : n \in 0 .. Len(data[i])} : i \in Inode}
  <2>3. prefixes \subseteq Seq(Chunk)
    BY <2>2
  <2> HIDE DEF prefixes
  <2>4. QED
    <3>1. data' \in [Inode -> prefixes]
      BY <2>1 DEF prefixes
    <3>2. QED
      BY <2>3, <3>1
<1>3. TypeOK'
  BY <1>1, <1>2, ChunksAssumption DEF IInv, TypeOK, Pc
<1>4. \A s \in Saver : Progress(s)' /\ Kept(s)' /\ ~Active(s)'
  BY <1>1 DEF Progress, Kept, Active
<1>5. Alone' /\ Apart'
  BY <1>1, <1>4 DEF IInv, Alone, Apart
<1>6. Clean'
  <2> SUFFICES ASSUME ~plain PROVE Clean'
    BY <1>1 DEF Clean
  <2>1. diskDir["path"] # Nil => Solid(diskDir["path"])'
    <3> SUFFICES ASSUME diskDir["path"] # Nil PROVE Solid(diskDir["path"])'
      OBVIOUS
    <3>1. /\ diskDir["path"] \in Inode /\ "path" \in Name
          /\ flushed[diskDir["path"]] /\ IsWhole(data[diskDir["path"]])
      BY TypeFacts DEF IInv, Clean, Solid
    <3>2. data'[diskDir["path"]] = data[diskDir["path"]]
      BY <3>1 DEF Crash
    <3>3. flushed'[diskDir["path"]]
      BY <1>1, <3>1
    <3>4. QED
      BY <1>1, <3>1, <3>2, <3>3 DEF IInv, Apart, Solid, IsWhole
  <2>2. QED
    BY <1>1, <1>4, <2>1 DEF Clean
<1>7. QED
  BY <1>3, <1>4, <1>5, <1>6 DEF IInv

LEMMA NextIInv == Exclusive /\ IInv /\ [Next]_vars => IInv'
<1> SUFFICES ASSUME Exclusive, IInv, [Next]_vars PROVE IInv'
  OBVIOUS
<1>1. ASSUME NEW s \in Saver, SaveStep(s) PROVE IInv'
  BY <1>1, BeginIInv, CreateIInv, WriteIInv, SyncIInv, CloseIInv, RemoveTmpIInv, RenameIInv
  DEF SaveStep
<1>2. CASE LoadOpen \/ LoadRead \/ LoadEnd \/ WriteBackData \/ WriteBackDir \/ Crash
  BY <1>2, LoadOpenIInv, LoadReadIInv, LoadEndIInv, WriteBackIInv, CrashIInv
<1>3. CASE UNCHANGED vars
  BY <1>3 DEF vars, fileVars, saverVars, localVars, IInv, TypeOK, Alone, Apart, Progress, Kept,
              Clean, Solid, Active, Shown, Target, IsWhole
<1>4. QED
  BY <1>1, <1>2, <1>3 DEF Next

LEMMA SpecIInv ==
  ASSUME Exclusive
  PROVE  Spec => []IInv
<1>1. IInv /\ [Next]_vars => IInv'
  BY NextIInv
<1>2. QED
  BY <1>1, InitIInv, PTL DEF Spec

\* Files, directories and savers keep their types, however the system calls
\* fail and the power does.
THEOREM TypeCorrect == Exclusive => (Spec => []TypeOK)
<1> SUFFICES ASSUME Exclusive PROVE Spec => []TypeOK
  OBVIOUS
<1>1. IInv => TypeOK
  BY DEF IInv
<1>2. QED
  BY <1>1, SpecIInv, PTL

\* With one SaveAtomic at a time, whoever opens the path finds a whole
\* snapshot, for any number of writes per snapshot (SaveAtomic).
THEOREM AtomicPath == Exclusive => (Spec => []PathIsWhole)
<1> SUFFICES ASSUME Exclusive PROVE Spec => []PathIsWhole
  OBVIOUS
<1>1. IInv => PathIsWhole
  BY DEF IInv, Clean, Solid, PathIsWhole, Shown
<1>2. QED
  BY <1>1, SpecIInv, PTL

\* The same holds of the file a power failure would leave, at any moment and
\* in whatever order the system writes data and directories to the disk.
THEOREM AtomicDisk == Exclusive => (Spec => []DiskIsWhole)
<1> SUFFICES ASSUME Exclusive PROVE Spec => []DiskIsWhole
  OBVIOUS
<1>1. IInv => DiskIsWhole
  BY DEF IInv, Clean, Solid, DiskIsWhole
<1>2. QED
  BY <1>1, SpecIInv, PTL

\* A Load that overlaps atomic saves accepts one snapshot, never parts of two.
THEOREM OneSnapshot == Exclusive => (Spec => []LoadIsOneSnapshot)
<1> SUFFICES ASSUME Exclusive PROVE Spec => []LoadIsOneSnapshot
  OBVIOUS
<1>1. IInv => LoadIsOneSnapshot
  <2> SUFFICES ASSUME IInv, ~plain, reader # Nil, Accepted(reader.got) PROVE IsWhole(reader.got)
    BY DEF LoadIsOneSnapshot
  <2>1. reader.got \in Seq(Chunk) /\ Len(reader.got) = Chunks
    BY DEF IInv, TypeOK, Accepted
  <2>2. PICK v \in Version : data[reader.fd] = Whole(v)
    BY DEF IInv, Clean, IsWhole
  <2>3. \A i \in 1 .. Chunks : reader.got[i] = v
    BY <2>1, <2>2 DEF IInv, Clean, Whole
  <2>4. reader.got = Whole(v)
    BY <2>1, <2>3 DEF Whole
  <2>5. QED
    BY <2>4 DEF IsWhole
<1>2. QED
  BY <1>1, SpecIInv, PTL

\* A save of either kind that returned nil left its snapshot at the path.
THEOREM NilMeansSaved == Exclusive => (Spec => []SavedWhenOk)
<1> SUFFICES ASSUME Exclusive PROVE Spec => []SavedWhenOk
  OBVIOUS
<1>1. IInv => SavedWhenOk
  BY DEF IInv, Kept, SavedWhenOk
<1>2. QED
  BY <1>1, SpecIInv, PTL

\* Only a step after which the path shows something else, and what it is then.
LEMMA ShownChanges ==
  ASSUME IInv, Next, ~plain', Shown' # Shown, ~Crash
  PROVE  \E s \in Saver : ret'[s] = "ok" /\ ret[s] # "ok" /\ Shown' = Whole(ver[s])
<1>1. ~plain
  <2>1. ASSUME NEW s \in Saver, SaveStep(s) PROVE plain => plain'
    BY <2>1 DEF SaveStep, Begin, Create, Write, Sync, Close, RemoveTmp, Rename
  <2>2. CASE LoadOpen \/ LoadRead \/ LoadEnd \/ WriteBackData \/ WriteBackDir
    BY <2>2 DEF LoadOpen, LoadRead, LoadEnd, WriteBackData, WriteBackDir, saverVars
  <2>3. QED
    BY <2>1, <2>2 DEF Next
<1>2. ASSUME NEW s \in Saver, Rename(s)
      PROVE  ret'[s] = "ok" /\ ret[s] # "ok" /\ Shown' = Whole(ver[s])
  <2>1. dir' = [path |-> dir["tmp"], tmp |-> Nil] /\ Return(s, "ok")
    BY <1>2 DEF Rename, Shown
  <2>2. /\ dir["tmp"] \in Inode /\ data[dir["tmp"]] = Whole(ver[s]) /\ ret[s] # "ok"
    BY <1>2 DEF Rename, IInv, Progress, Active
  <2>3. data' = data
    BY <1>2 DEF Rename
  <2>4. QED
    BY <2>1, <2>2, <2>3, NilAssumption DEF Return, IInv, TypeOK, Shown
<1>3. ASSUME NEW s \in Saver, Create(s) PROVE Shown' = Shown
  <2>1. CASE UNCHANGED <<dir, data>>
    BY <2>1 DEF Shown
  <2>2. CASE ~UNCHANGED <<dir, data>>
    <3>1. PICK i \in (IF dir[Target(s)] # Nil THEN {dir[Target(s)]} ELSE Free) :
            /\ dir' = [dir EXCEPT ![Target(s)] = i]
            /\ data' = [j \in Inode |-> IF j \in Free \cup {i} THEN <<>> ELSE data[j]]
      BY <1>3, <2>2 DEF Create
    <3>2. Target(s) = "tmp"
      BY <1>1, <1>3 DEF Create, IInv, Clean, Active, Target
    <3>3. dir'["path"] = dir["path"]
      BY <3>1, <3>2, TypeFacts DEF IInv, TypeOK
    <3>4. CASE dir["path"] = Nil
      BY <3>3, <3>4 DEF Shown
    <3>5. CASE dir["path"] # Nil
      <4>1. dir["path"] \in Inode /\ dir["path"] \notin Free
        BY <3>5, TypeFacts DEF IInv, Free, Linked
      <4>2. dir["path"] # i
        BY <3>1, <3>2, <3>5, <4>1 DEF IInv, Apart
      <4>3. QED
        BY <3>1, <3>3, <4>1, <4>2 DEF Shown
    <3>6. QED
      BY <3>4, <3>5
  <2>3. QED
    BY <2>1, <2>2
<1>4. ASSUME NEW s \in Saver, Write(s) PROVE Shown' = Shown
  <2>1. dir' = dir /\ (data' = data \/ \E c : data' = [data EXCEPT ![fd[s]] = c])
    BY <1>4 DEF Write
  <2>2. dir["path"] # fd[s]
    BY <1>1, <1>4, WritesTmp DEF Write
  <2>3. QED
    BY <2>1, <2>2, TypeFacts DEF IInv, TypeOK, Shown
<1>5. ASSUME NEW s \in Saver, RemoveTmp(s) PROVE Shown' = Shown
  BY <1>5, TypeFacts DEF RemoveTmp, IInv, TypeOK, Shown
<1>6. ASSUME NEW s \in Saver, Begin(s) \/ Sync(s) \/ Close(s) PROVE Shown' = Shown
  BY <1>6 DEF Begin, Sync, Close, Shown, fileVars
<1>7. CASE LoadOpen \/ LoadRead \/ LoadEnd \/ WriteBackData \/ WriteBackDir
  BY <1>7 DEF LoadOpen, LoadRead, LoadEnd, WriteBackData, WriteBackDir, Shown, fileVars
<1>8. QED
  BY <1>2, <1>3, <1>4, <1>5, <1>6, <1>7 DEF Next, SaveStep

\* Until the next power failure the path changes only when a SaveAtomic
\* returns nil, and then to what it was given; a failure changes nothing.
THEOREM FailureChangesNothing == Exclusive => (Spec => PathChangesOnlyBySuccess)
<1> SUFFICES ASSUME Exclusive PROVE Spec => PathChangesOnlyBySuccess
  OBVIOUS
<1> DEFINE Installs == ~plain' /\ Shown' # Shown /\ ~Crash =>
                         \E s \in Saver : ret'[s] = "ok" /\ ret[s] # "ok" /\ Shown' = Whole(ver[s])
<1>1. IInv /\ [Next]_vars => [Installs]_vars
  BY ShownChanges
<1>2. QED
  BY <1>1, SpecIInv, PTL DEF Spec, PathChangesOnlyBySuccess
=============================================================================
