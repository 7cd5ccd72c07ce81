------------------------- MODULE LockedStore_proofs -------------------------
(***************************************************************************)
(* A LockedStore implements AtomicStore, for any number of goroutines and  *)
(* ids.                                                                    *)
(*                                                                         *)
(* The inductive invariant says who holds the lock in terms of where the   *)
(* goroutines are (Holding), from which it follows that what a method has  *)
(* read is still so when it acts on it (Fresh).  A few more facts about    *)
(* what is read and who waits (WholeInv) give the types and the deadlocks. *)
(***************************************************************************)
EXTENDS LockedStore, TLAPS, SequenceTheorems

Reads(t) == op[t].m \in ReadMethod
Writes(t) == op[t].m \in WriteMethod

Types ==
  /\ content \in [Id -> Seq(Vec)]
  /\ readers \in [Thread -> Nat]
  /\ writer \in Thread \cup {Nil}
  /\ pc \in [Thread -> Pc]
  /\ op \in [Thread -> Op \cup {Nil}]
  /\ found \in [Thread -> BOOLEAN]

\* got and ret are functions of the goroutines.
Shapes ==
  /\ got = [t \in Thread |-> got[t]]
  /\ ret = [t \in Thread |-> ret[t]]

\* The part of the lock that t holds or waits for, by where t is.
Holding(t) ==
  /\ op[t] = Nil <=> pc[t] = "idle"
  /\ pc[t] \in {"blocked", "reentered", "repending"} => Reads(t)
  /\ pc[t] \in {"pending", "write"} => Writes(t)
  /\ writer = t <=> pc[t] \in {"pending", "repending"} \/ (InBody(t) /\ Writes(t))
  /\ readers[t] = 0 <=> ~(InBody(t) /\ Reads(t))
  /\ readers[t] \in 0 .. Depth + 1
  /\ pc[t] \in {"body", "return"} /\ Reads(t) => readers[t] = 1
  /\ pc[t] = "reentered" => readers[t] > 1

\* A writer inside has no reader beside it.
Alone(t) == InBody(t) /\ Writes(t) => \A u \in Thread : readers[u] = 0

\* What t has read is what the store still holds, and only a method that is
\* about to return has a result.
Fresh(t) ==
  /\ pc[t] = "write" => found[t] = Present(op[t].id)
  /\ InBody(t) /\ Reads(t) /\ pc[t] # "return" =>
       /\ got[t] = [x \in DOMAIN got[t] |-> content[x]]
       /\ DOMAIN got[t] \subseteq (IF op[t].m = "Get" THEN {op[t].id} ELSE Id)
  /\ ~InBody(t) \/ Writes(t) => got[t] = <<>>
  /\ ret[t] = Nil <=> pc[t] # "return"

Inv ==
  /\ Types
  /\ Shapes
  /\ \A t \in Thread : Holding(t)
  /\ \A t \in Thread : Alone(t)
  /\ \A t \in Thread : Fresh(t)

LEMMA Modes ==
  ASSUME NEW o \in Op
  PROVE  /\ o.m \in ReadMethod \/ o.m \in WriteMethod
         /\ ~(o.m \in ReadMethod /\ o.m \in WriteMethod)
         /\ LockOf(o.m) = "Lock" <=> o.m \in WriteMethod
         /\ LockOf(o.m) = "RLock" <=> o.m \in ReadMethod
         /\ o.id \in Id /\ o.vec \in Vec
  BY MethodAssumption DEF Op, LockOf, ReadMethod, WriteMethod

LEMMA InitInv == Init => Inv
  BY NilAssumption, BoundAssumption DEF Init, Inv, Types, Shapes, Holding, Alone, Fresh, InBody, Pc, Reads, Writes, Outside

LEMMA CallInv ==
  ASSUME Inv, NEW t \in Thread, Call(t)
  PROVE  Inv'
<1>1. PICK o \in Op : op' = [op EXCEPT ![t] = o]
  BY DEF Call
<1>2. o # Nil
  BY NilValueAssumption DEF Op
<1>3. Types'
  BY <1>1 DEF Call, Inv, Types, GoTo, Pc, lockVars, Outside
<1>s. Shapes'
  BY <1>1 DEF Call, Inv, Shapes, GoTo, Pc, lockVars, Outside
<1>4. \A u \in Thread : Holding(u)'
  BY <1>1, <1>2 DEF Call, Inv, Types, Holding, GoTo, InBody, Reads, Writes, lockVars, Outside
<1>5. \A u \in Thread : Alone(u)'
  BY <1>1 DEF Call, Inv, Types, Alone, GoTo, InBody, Writes, lockVars, Outside
<1>6. \A u \in Thread : Fresh(u)'
  BY <1>1 DEF Call, Inv, Types, Shapes, Fresh, GoTo, InBody, Reads, Writes, Present, lockVars, Outside
<1>7. QED
  BY <1>3, <1>s, <1>4, <1>5, <1>6 DEF Inv

\* What the invariant says of a goroutine that is somewhere.
LEMMA Somewhere ==
  ASSUME Inv, NEW t \in Thread, pc[t] # "idle"
  PROVE  /\ op[t] \in Op
         /\ Reads(t) \/ Writes(t)
         /\ ~(Reads(t) /\ Writes(t))
         /\ LockOf(op[t].m) = "Lock" <=> Writes(t)
         /\ LockOf(op[t].m) = "RLock" <=> Reads(t)
<1>1. op[t] \in Op
  BY DEF Inv, Types, Holding
<1>2. QED
  BY <1>1, Modes DEF Reads, Writes

\* A step that leaves the store and u alone.
LEMMA FreshStays ==
  ASSUME NEW u \in Thread, Fresh(u),
         UNCHANGED <<content, pc[u], op[u], found[u], got[u], ret[u]>>
  PROVE  Fresh(u)'
  BY DEF Fresh, InBody, Reads, Writes, Present, Outside

\* A reader that has read nothing.
LEMMA FreshStart ==
  ASSUME NEW u \in Thread, Reads(u)', ~Writes(u)', got'[u] = <<>>, ret'[u] = Nil,
         pc'[u] \in {"body", "blocked"}
  PROVE  Fresh(u)'
<1>1. DOMAIN <<>> = {} /\ <<>> = [x \in DOMAIN <<>> |-> content'[x]]
  OBVIOUS
<1>2. QED
  BY <1>1 DEF Fresh

LEMMA RLockInv ==
  ASSUME Inv, NEW t \in Thread, RLock(t)
  PROVE  Inv'
<1>1. Reads(t) /\ ~Writes(t)
  BY Somewhere DEF RLock
<1>2. /\ pc[t] = "acquire"
      /\ UNCHANGED <<content, writer, op, found, got, ret>>
      /\ \/ /\ writer = Nil
            /\ readers' = [readers EXCEPT ![t] = @ + 1]
            /\ pc' = [pc EXCEPT ![t] = "body"]
         \/ /\ pc' = [pc EXCEPT ![t] = "blocked"]
            /\ UNCHANGED readers
  BY DEF RLock, Admits, GoTo
<1>3. Types'
  <2>1. readers' \in [Thread -> Nat]
    BY <1>2 DEF Inv, Types
  <2>2. pc' \in [Thread -> Pc]
    BY <1>2 DEF Inv, Types, Pc, Outside
  <2>3. QED
    BY <1>2, <2>1, <2>2 DEF Inv, Types
<1>s. Shapes'
  BY <1>2 DEF Inv, Shapes
<1>4. \A u \in Thread : Holding(u)'
  BY <1>1, <1>2, BoundAssumption DEF Inv, Types, Holding, InBody, Reads, Writes, Outside
<1>5. \A u \in Thread : Alone(u)'
  BY <1>1, <1>2, NilAssumption DEF Inv, Types, Alone, Holding, InBody, Reads, Writes, Outside
<1>6. \A u \in Thread : Fresh(u)'
  <2>1. Fresh(t)'
    <3>1. got[t] = <<>> /\ ret[t] = Nil
      BY <1>2 DEF Inv, Fresh, InBody, Outside
    <3>2. got'[t] = <<>> /\ ret'[t] = Nil /\ pc'[t] \in {"body", "blocked"}
      BY <1>2, <3>1 DEF Inv, Types
    <3>3. Reads(t)' /\ ~Writes(t)'
      BY <1>1, <1>2 DEF Reads, Writes
    <3>4. QED
      BY <3>2, <3>3, FreshStart
  <2>2. \A u \in Thread \ {t} : Fresh(u)'
    <3> SUFFICES ASSUME NEW u \in Thread \ {t} PROVE Fresh(u)'
      OBVIOUS
    <3>1. UNCHANGED <<content, pc[u], op[u], found[u], got[u], ret[u]>>
      BY <1>2 DEF Inv, Types, Shapes
    <3>2. QED
      BY <3>1, FreshStays DEF Inv
  <2>3. QED
    BY <2>1, <2>2
<1>7. QED
  BY <1>3, <1>s, <1>4, <1>5, <1>6 DEF Inv

\* A goroutine that waits for its own read locks does not get the write lock.
LEMMA EntersFromPending ==
  ASSUME Inv, NEW t \in Thread, Enter(t)
  PROVE  pc[t] = "pending" /\ pc' = [pc EXCEPT ![t] = "body"]
<1>1. ASSUME pc[t] = "repending" PROVE FALSE
  <2>1. InBody(t) /\ Reads(t)
    BY <1>1 DEF Inv, Holding, InBody, Outside
  <2>2. readers[t] = 0
    BY DEF Enter, NoReaders
  <2>3. QED
    BY <2>1, <2>2 DEF Inv, Holding
<1>2. QED
  BY <1>1 DEF Enter, GoTo

LEMMA EnterInv ==
  ASSUME Inv, NEW t \in Thread, Enter(t)
  PROVE  Inv'
<1>1. Writes(t) /\ ~Reads(t)
  BY Somewhere, EntersFromPending DEF Inv, Holding
<1>2. /\ pc[t] = "pending" /\ pc' = [pc EXCEPT ![t] = "body"]
      /\ \A u \in Thread : readers[u] = 0
      /\ UNCHANGED <<content, readers, writer, op, found, got, ret>>
  BY EntersFromPending DEF Enter, NoReaders, lockVars
<1>3. Types'
  BY <1>2 DEF Inv, Types, Pc, Outside
<1>s. Shapes'
  BY <1>2 DEF Inv, Shapes
<1>4. \A u \in Thread : Holding(u)'
  BY <1>1, <1>2 DEF Inv, Types, Holding, InBody, Outside, Reads, Writes
<1>5. \A u \in Thread : Alone(u)'
  BY <1>1, <1>2 DEF Inv, Types, Alone, InBody, Outside, Reads, Writes
<1>6. \A u \in Thread : Fresh(u)'
  BY <1>1, <1>2 DEF Inv, Types, Shapes, Fresh, InBody, Outside, Reads, Writes, Present
<1>7. QED
  BY <1>3, <1>s, <1>4, <1>5, <1>6 DEF Inv

\* When a writing method returns, no code of a caller waits to read: it would
\* hold a read lock, or be in the reader of the method itself.
LEMMA NoneReblocked ==
  ASSUME Inv, NEW t \in Thread, pc[t] = "return", Writes(t), NEW u \in Thread
  PROVE  ~(pc[u] \in Outside)
<1> SUFFICES ASSUME pc[u] \in Outside PROVE FALSE
  OBVIOUS
<1>1. InBody(t) /\ InBody(u) /\ pc[u] # "idle"
  BY DEF InBody, Outside
<1>2. writer = t /\ readers[u] = 0
  BY <1>1 DEF Inv, Holding, Alone
<1>3. Writes(u)
  BY <1>1, <1>2, Somewhere DEF Inv, Holding
<1>4. u = t
  BY <1>1, <1>2, <1>3 DEF Inv, Holding
<1>5. QED
  BY <1>4 DEF Outside

LEMMA ReturnInv ==
  ASSUME Inv, NEW t \in Thread, Return(t)
  PROVE  Inv'
<1>1. /\ op[t] \in Op
      /\ Reads(t) \/ Writes(t)
      /\ ~(Reads(t) /\ Writes(t))
      /\ UnlockOf(t) = "Lock" <=> Writes(t)
      /\ UnlockOf(t) = "RLock" <=> Reads(t)
  BY Somewhere DEF Return, UnlockOf
<1>2. /\ pc[t] = "return"
      /\ op' = [op EXCEPT ![t] = Nil]
      /\ ret' = [ret EXCEPT ![t] = Nil]
      /\ found' = [found EXCEPT ![t] = FALSE]
      /\ got' = [got EXCEPT ![t] = <<>>]
      /\ UNCHANGED content
  BY DEF Return
<1>3. CASE Reads(t)
  <2>1. /\ writer' = writer
        /\ readers' = [u \in Thread |-> IF u = t THEN readers[u] - 1 ELSE readers[u]]
        /\ pc' = [u \in Thread |-> IF u = t THEN "idle" ELSE pc[u]]
    BY <1>1, <1>3 DEF Return
  <2>2. readers[t] = 1
    BY <1>1, <1>2, <1>3 DEF Inv, Holding, InBody, Outside
  <2>3. Types'
    BY <1>2, <2>1, <2>2 DEF Inv, Types, Pc, Outside
  <2>s. Shapes'
    BY <1>2, <2>1, <2>2 DEF Inv, Shapes, Pc, Outside
  <2>4. \A u \in Thread : Holding(u)'
    BY <1>1, <1>2, <1>3, <2>1, <2>2, BoundAssumption DEF Inv, Types, Holding, InBody, Reads, Writes, Outside
  <2>5. \A u \in Thread : Alone(u)'
    BY <1>1, <1>2, <1>3, <2>1, <2>2 DEF Inv, Types, Alone, InBody, Reads, Writes, Outside
  <2>6. \A u \in Thread : Fresh(u)'
    <3>1. Fresh(t)'
      BY <1>2, <2>1 DEF Inv, Types, Shapes, Fresh, InBody, Outside
    <3>2. ASSUME NEW u \in Thread \ {t} PROVE Fresh(u)'
      <4>1. UNCHANGED <<content, pc[u], op[u], found[u], got[u], ret[u]>>
        BY <1>2, <2>1 DEF Inv, Types, Shapes
      <4>2. QED
        BY <4>1, FreshStays DEF Inv
    <3>3. QED
      BY <3>1, <3>2
  <2>7. QED
    BY <2>3, <2>s, <2>4, <2>5, <2>6 DEF Inv
<1>4. CASE Writes(t)
  <2> DEFINE waiting == {u \in Thread : pc[u] \in {"blocked", "reblocked"}}
  <2>1. /\ writer' = Nil
        /\ readers' = [u \in Thread |-> IF u \in waiting THEN readers[u] + 1 ELSE readers[u]]
        /\ pc' = [u \in Thread |-> IF u = t THEN "idle"
                                  ELSE IF u \notin waiting THEN pc[u]
                                  ELSE IF pc[u] = "blocked" THEN "body" ELSE "reentered"]
    BY <1>1, <1>4 DEF Return
  <2>2. writer = t /\ t \notin waiting
    BY <1>2, <1>4 DEF Inv, Holding, InBody, Outside
  <2>a. \A u \in waiting : pc[u] = "blocked"
    BY <1>2, <1>4, NoneReblocked DEF Outside
  <2>3. Types'
    BY <1>2, <2>1 DEF Inv, Types, Pc, Outside
  <2>s. Shapes'
    BY <1>2, <2>1 DEF Inv, Shapes, Pc, Outside
  <2>4. \A u \in Thread : Holding(u)'
    <3>1. Holding(t)'
      BY <1>1, <1>2, <2>1, <2>2, NilAssumption DEF Inv, Types, Holding, InBody, Reads, Writes, Outside
    <3>2. ASSUME NEW u \in Thread \ {t} PROVE Holding(u)'
      <4>1. u # writer /\ Holding(u) /\ writer' # u
        BY <2>1, <2>2, NilAssumption DEF Inv
      <4>2. op'[u] = op[u] /\ readers[u] \in Nat
        BY <1>2 DEF Inv, Types
      <4>3. CASE u \notin waiting
        <5>1. pc'[u] = pc[u] /\ readers'[u] = readers[u]
          BY <2>1, <4>3
        <5>2. QED
          BY <4>1, <4>2, <5>1 DEF Holding, InBody, Reads, Writes, Outside
      <4>4. CASE pc[u] = "blocked"
        <5>1. pc'[u] = "body" /\ readers'[u] = readers[u] + 1
          BY <2>1, <4>4
        <5>2. Reads(u) /\ ~Writes(u)
          BY <4>1, <4>4, Somewhere DEF Holding
        <5>3. QED
          BY <4>1, <4>2, <4>4, <5>1, <5>2, BoundAssumption DEF Holding, InBody, Reads, Writes, Outside
      <4>5. QED
        BY <2>a, <4>3, <4>4
    <3>3. QED
      BY <3>1, <3>2
  <2>5. \A u \in Thread : Alone(u)'
    <3>1. ASSUME NEW u \in Thread \ {t} PROVE ~(InBody(u) /\ Writes(u))'
      BY <2>1, <2>2, <2>4, NilAssumption DEF Holding
    <3>2. ~InBody(t)'
      BY <2>1 DEF InBody, Outside
    <3>3. QED
      BY <3>1, <3>2 DEF Alone
  <2>6. \A u \in Thread : Fresh(u)'
    <3>1. Fresh(t)'
      BY <1>2, <2>1 DEF Inv, Types, Shapes, Fresh, InBody, Outside
    <3>2. ASSUME NEW u \in Thread \ {t} PROVE Fresh(u)'
      <4>1. UNCHANGED <<content, op[u], found[u], got[u], ret[u]>>
        BY <1>2 DEF Inv, Types, Shapes
      <4>2. CASE u \notin waiting
        <5>1. pc'[u] = pc[u]
          BY <2>1, <4>2
        <5>2. QED
          BY <4>1, <5>1, FreshStays DEF Inv
      <4>3. CASE pc[u] = "blocked"
        <5>1. pc'[u] = "body" /\ got[u] = <<>> /\ ret[u] = Nil
          BY <2>1, <4>3 DEF Inv, Fresh, InBody, Outside
        <5>2. Reads(u) /\ ~Writes(u)
          BY <4>3, Somewhere DEF Inv, Holding
        <5>3. Reads(u)' /\ ~Writes(u)'
          BY <4>1, <5>2 DEF Reads, Writes
        <5>4. QED
          BY <4>1, <5>1, <5>3, FreshStart
      <4>4. QED
        BY <2>a, <4>2, <4>3
    <3>3. QED
      BY <3>1, <3>2
  <2>7. QED
    BY <2>3, <2>s, <2>4, <2>5, <2>6 DEF Inv
<1>5. QED
  BY <1>1, <1>3, <1>4

LEMMA LookInv ==
  ASSUME Inv, NEW t \in Thread, Look(t)
  PROVE  Inv'
<1>1. Writes(t) /\ ~Reads(t) /\ op[t] \in Op
  BY Somewhere DEF Look, Writes
<1>2. Types'
  BY DEF Look, Inv, Types, GoTo, Pc, lockVars, Present, Outside
<1>s. Shapes'
  BY DEF Look, Inv, Shapes, GoTo, Pc, lockVars, Present, Outside
<1>3. \A u \in Thread : Holding(u)'
  BY <1>1 DEF Look, Inv, Types, Holding, GoTo, InBody, Reads, Writes, lockVars, Outside
<1>4. \A u \in Thread : Alone(u)'
  BY <1>1 DEF Look, Inv, Types, Alone, GoTo, InBody, Reads, Writes, lockVars, Outside
<1>5. \A u \in Thread : Fresh(u)'
  BY <1>1 DEF Look, Inv, Types, Shapes, Fresh, GoTo, InBody, Reads, Writes, Present, lockVars, Outside
<1>6. QED
  BY <1>2, <1>s, <1>3, <1>4, <1>5 DEF Inv

LEMMA WriteContent ==
  ASSUME Inv, NEW t \in Thread, Write(t)
  PROVE  content' \in [Id -> Seq(Vec)]
<1>1. op[t] \in Op /\ op[t].id \in Id /\ op[t].vec \in Vec
  BY Somewhere, Modes DEF Write
<1>2. content[op[t].id] \in Seq(Vec)
  BY <1>1 DEF Inv, Types
<1>3. found[t] => [content[op[t].id] EXCEPT ![1] = op[t].vec] \in Seq(Vec)
  <2> SUFFICES ASSUME found[t] PROVE [content[op[t].id] EXCEPT ![1] = op[t].vec] \in Seq(Vec)
    OBVIOUS
  <2>1. content[op[t].id] # <<>>
    BY DEF Write, Inv, Fresh, Present
  <2>2. 1 \in 1 .. Len(content[op[t].id])
    BY <1>2, <2>1
  <2>3. QED
    BY <1>1, <1>2, <2>2, ExceptSeq
<1>4. SubSeq(content[op[t].id], 2, Len(content[op[t].id])) \in Seq(Vec)
  BY <1>2
<1>5. <<>> \in Seq(Vec) /\ <<op[t].vec>> \in Seq(Vec)
      /\ Append(content[op[t].id], op[t].vec) \in Seq(Vec)
  BY <1>1, <1>2
<1>6. CASE op[t].m \in {"Clear", "Load"}
  BY <1>1, <1>5, <1>6 DEF Write
<1>7. CASE op[t].m \notin {"Clear", "Load"}
  <2>1. content' = content \/ \E s \in Seq(Vec) : content' = [content EXCEPT ![op[t].id] = s]
    <3>1. CASE op[t].m \in {"Add", "AddUnique"}
      BY <1>5, <3>1 DEF Write
    <3>2. CASE op[t].m \in {"Upsert", "SetMeta"}
      BY <1>3, <1>5, <3>2 DEF Write
    <3>3. CASE op[t].m = "Remove"
      BY <1>4, <3>3 DEF Write
    <3>4. QED
      BY <1>7, <3>1, <3>2, <3>3 DEF Write
  <2>2. QED
    BY <2>1 DEF Inv, Types
<1>8. QED
  BY <1>6, <1>7

LEMMA WriteInv ==
  ASSUME Inv, NEW t \in Thread, Write(t)
  PROVE  Inv'
<1>1. Writes(t) /\ ~Reads(t) /\ op[t] \in Op
  BY Somewhere DEF Write, Inv, Holding
<1>2. \A u \in Thread \ {t} : ~InBody(u)
  <2> SUFFICES ASSUME NEW u \in Thread \ {t}, InBody(u) PROVE FALSE
    OBVIOUS
  <2>1. readers[u] = 0 /\ writer = t
    BY <1>1 DEF Inv, Alone, Holding, InBody, Write, Outside
  <2>2. Reads(u) \/ Writes(u)
    BY Somewhere DEF InBody, Outside
  <2>3. Holding(u)
    BY DEF Inv
  <2>4. ~Writes(u)
    BY <2>1, <2>3 DEF Holding
  <2>5. readers[u] # 0
    BY <2>2, <2>3, <2>4 DEF Holding
  <2>6. QED
    BY <2>1, <2>5
<1>3. /\ pc' = [pc EXCEPT ![t] = "return"]
      /\ UNCHANGED <<readers, writer, op, found, got>>
      /\ pc[t] = "write"
  BY DEF Write, GoTo, lockVars
<1>4. PICK b \in BOOLEAN : ret' = [ret EXCEPT ![t] = b]
  BY DEF Write, Inv, Types
<1>5. Types'
  BY <1>3, <1>4, WriteContent DEF Inv, Types, Pc, Outside
<1>s. Shapes'
  BY <1>3, <1>4, <1>1 DEF Inv, Shapes, Pc, Outside
<1>6. \A u \in Thread : Holding(u)'
  BY <1>1, <1>3 DEF Inv, Types, Holding, InBody, Reads, Writes, Outside
<1>7. \A u \in Thread : Alone(u)'
  BY <1>1, <1>3 DEF Inv, Types, Alone, InBody, Reads, Writes, Outside
<1>8. \A u \in Thread : Fresh(u)'
  BY <1>1, <1>2, <1>3, <1>4, NilAssumption DEF Inv, Types, Shapes, Fresh, InBody, Reads, Writes, Present, Outside
<1>9. QED
  BY <1>5, <1>s, <1>6, <1>7, <1>8 DEF Inv

LEMMA ScanInv ==
  ASSUME Inv, NEW t \in Thread, Scan(t)
  PROVE  Inv'
<1>1. Reads(t) /\ ~Writes(t) /\ op[t] \in Op /\ op[t].id \in Id
  BY Somewhere, Modes DEF Scan
<1>2. PICK x \in Wanted(t) :
        got' = [got EXCEPT ![t] = [y \in DOMAIN got[t] \cup {x} |->
                                     IF y = x THEN content[x] ELSE got[t][y]]]
  BY DEF Scan
<1> DEFINE all == [y \in DOMAIN got[t] \cup {x} |-> IF y = x THEN content[x] ELSE got[t][y]]
           ids == IF op[t].m = "Get" THEN {op[t].id} ELSE Id
<1>3. /\ got[t] = [y \in DOMAIN got[t] |-> content[y]]
      /\ DOMAIN got[t] \subseteq ids
      /\ x \in ids
  BY <1>1, <1>2 DEF Scan, Inv, Fresh, InBody, Wanted, Outside
<1>4. /\ all = [y \in DOMAIN got[t] \cup {x} |-> content[y]]
      /\ DOMAIN all \subseteq ids
  BY <1>3
<1>5. all = [y \in DOMAIN all |-> content[y]]
  BY <1>4
<1> HIDE DEF all, ids
<1>6. /\ got' = [got EXCEPT ![t] = all]
      /\ UNCHANGED <<content, readers, writer, pc, op, found, ret>>
      /\ pc[t] = "body"
  BY <1>2 DEF all, Scan, lockVars
<1>7. Types'
  BY <1>6 DEF Inv, Types
<1>s. Shapes'
  BY <1>6 DEF Inv, Shapes
<1>8. \A u \in Thread : Holding(u)'
  BY <1>6 DEF Inv, Holding, InBody, Reads, Writes, Outside
<1>9. \A u \in Thread : Alone(u)'
  BY <1>6 DEF Inv, Alone, InBody, Writes, Outside
<1>10. \A u \in Thread : Fresh(u)'
  <2>1. Fresh(t)'
    <3>1. got'[t] = all /\ Fresh(t)
      BY <1>6 DEF Inv, Shapes
    <3>2. QED
      BY <1>1, <1>4, <1>5, <1>6, <3>1 DEF Fresh, InBody, Reads, Writes, ids, Outside
  <2>2. \A u \in Thread \ {t} : Fresh(u)'
    <3> SUFFICES ASSUME NEW u \in Thread \ {t} PROVE Fresh(u)'
      OBVIOUS
    <3>1. UNCHANGED <<content, pc[u], op[u], found[u], got[u], ret[u]>>
      BY <1>6 DEF Inv, Types, Shapes
    <3>2. QED
      BY <3>1, FreshStays DEF Inv
  <2>3. QED
    BY <2>1, <2>2
<1>11. QED
  BY <1>7, <1>s, <1>8, <1>9, <1>10 DEF Inv

\* What a method has read is not Nil.
LEMMA ReadIsSomething ==
  ASSUME Inv, NEW t \in Thread, pc[t] = "body", Reads(t)
  PROVE  got[t] # Nil
<1>1. op[t].id \in Id
  BY Somewhere, Modes
<1>2. got[t] = [x \in DOMAIN got[t] |-> content[x]] /\ DOMAIN got[t] \in SUBSET Id
  BY <1>1 DEF Inv, Fresh, InBody, Outside
<1>3. got[t] \in [DOMAIN got[t] -> Seq(Vec)]
  BY <1>2 DEF Inv, Types
<1>4. QED
  BY <1>2, <1>3, NilValueAssumption

LEMMA FinishInv ==
  ASSUME Inv, NEW t \in Thread, Finish(t)
  PROVE  Inv'
<1>1. Reads(t) /\ ~Writes(t) /\ got[t] # Nil
  BY Somewhere, ReadIsSomething DEF Finish, Reads
<1>2. /\ pc[t] = "body" /\ pc' = [pc EXCEPT ![t] = "return"]
      /\ ret' = [ret EXCEPT ![t] = got[t]]
      /\ UNCHANGED <<content, readers, writer, op, found, got>>
  BY DEF Finish, GoTo, lockVars
<1>3. Types'
  BY <1>2 DEF Inv, Types, Pc, Outside
<1>s. Shapes'
  BY <1>2 DEF Inv, Shapes
<1>4. \A u \in Thread : Holding(u)'
  BY <1>1, <1>2 DEF Inv, Types, Holding, InBody, Outside, Reads, Writes
<1>5. \A u \in Thread : Alone(u)'
  BY <1>1, <1>2 DEF Inv, Types, Alone, InBody, Outside, Reads, Writes
<1>6. \A u \in Thread : Fresh(u)'
  <2>1. Fresh(t)'
    BY <1>1, <1>2 DEF Inv, Types, Shapes, Fresh, InBody, Outside, Reads, Writes
  <2>2. ASSUME NEW u \in Thread \ {t} PROVE Fresh(u)'
    <3>1. UNCHANGED <<content, pc[u], op[u], found[u], got[u], ret[u]>>
      BY <1>2 DEF Inv, Types, Shapes
    <3>2. QED
      BY <3>1, FreshStays DEF Inv
  <2>3. QED
    BY <2>1, <2>2
<1>7. QED
  BY <1>3, <1>s, <1>4, <1>5, <1>6 DEF Inv

\* A step of t to, in or from the code of the caller changes where t is and
\* how many read locks it holds.
StepOutside(t, l, n) ==
  /\ InBody(t) /\ pc[t] \notin {"return", "write"}
  /\ l \in {"body"} \cup Outside /\ n \in 0 .. Depth + 1
  /\ pc' = [pc EXCEPT ![t] = l]
  /\ readers' = [readers EXCEPT ![t] = n]
  /\ UNCHANGED <<content, op, found, got, ret>>

\* Nothing that t has read goes stale in such a step.
LEMMA OutsideFresh ==
  ASSUME Inv, NEW t \in Thread, NEW l, NEW n, StepOutside(t, l, n)
  PROVE  Shapes' /\ \A u \in Thread : Fresh(u)'
<1>1. Shapes'
  BY DEF Inv, Shapes, StepOutside
<1>2. Fresh(t)'
  <2>1. pc'[t] = l /\ l # "return" /\ l # "write" /\ l \in {"body"} \cup Outside
    BY DEF Inv, Types, StepOutside, Outside
  <2>2. Fresh(t)
    BY DEF Inv
  <2>3. QED
    BY <2>1, <2>2 DEF Fresh, InBody, Outside, Reads, Writes, StepOutside
<1>3. ASSUME NEW u \in Thread \ {t} PROVE Fresh(u)'
  <2>1. UNCHANGED <<content, pc[u], op[u], found[u], got[u], ret[u]>>
    BY DEF Inv, Types, Shapes, StepOutside
  <2>2. QED
    BY <2>1, FreshStays DEF Inv
<1>4. QED
  BY <1>1, <1>2, <1>3

\* It keeps the rest if t still holds the locks of the method that called.
LEMMA OutsideInv ==
  ASSUME Inv, NEW t \in Thread, NEW l, NEW n, StepOutside(t, l, n),
         n = 0 <=> ~Reads(t),
         l = "body" /\ Reads(t) => n = 1,
         l = "reentered" => n > 1,
         l = "repending" => Reads(t) /\ writer = Nil /\ writer' = t,
         l # "repending" => pc[t] # "repending" /\ writer' = writer
  PROVE  Inv'
<1>1. Types'
  <2>1. n \in Nat /\ l \in Pc
    BY BoundAssumption DEF StepOutside, Pc
  <2>2. writer' \in Thread \cup {Nil}
    BY DEF Inv, Types, StepOutside, Outside
  <2>3. QED
    BY <2>1, <2>2 DEF Inv, Types, StepOutside
<1>2. /\ pc'[t] = l /\ readers'[t] = n /\ InBody(t)'
      /\ \A u \in Thread \ {t} : pc'[u] = pc[u] /\ readers'[u] = readers[u]
      /\ op' = op
  BY DEF Inv, Types, StepOutside, InBody
<1>3. Reads(t) \/ Writes(t)
  BY Somewhere DEF StepOutside, InBody, Outside
<1>4. Reads(t) => ~Writes(t)
  BY Somewhere DEF StepOutside, InBody, Outside
<1>5. Holding(t)'
  <2>1. op[t] # Nil
    BY DEF Inv, Holding, StepOutside, InBody, Outside
  <2>2. Holding(t)
    BY DEF Inv
  <2>3. writer' = t <=> l = "repending" \/ Writes(t)
    <3>1. CASE l = "repending"
      BY <3>1
    <3>2. CASE l # "repending"
      BY <2>2, <3>2 DEF Holding, StepOutside, InBody, Outside
    <3>3. QED
      BY <3>1, <3>2
  <2>4. l \in {"body"} \cup Outside /\ n \in 0 .. Depth + 1
    BY DEF StepOutside
  <2>5. l = "reentered" => Reads(t)
    BY <1>3, <1>4
  <2>6. QED
    BY <1>2, <2>1, <2>3, <2>4, <2>5 DEF Holding, InBody, Outside, Reads, Writes
<1>6. ASSUME NEW u \in Thread \ {t} PROVE Holding(u)'
  <2>1. Holding(u)
    BY DEF Inv
  <2>2. writer' = u <=> writer = u
    <3>1. u # Nil
      BY NilAssumption
    <3>2. QED
      BY <3>1
  <2>3. QED
    BY <1>2, <2>1, <2>2 DEF Holding, InBody, Reads, Writes, Outside
<1>7. \A u \in Thread : Alone(u)'
  <2> SUFFICES ASSUME NEW u \in Thread, (InBody(u) /\ Writes(u))', NEW w \in Thread
               PROVE  readers'[w] = 0
    BY DEF Alone
  <2>1. InBody(u) /\ Writes(u)
    BY <1>2 DEF InBody, Writes, StepOutside
  <2>2. \A v \in Thread : readers[v] = 0
    BY <2>1 DEF Inv, Alone
  <2>3. ~Reads(t)
    BY <2>2 DEF Inv, Holding, StepOutside
  <2>4. QED
    BY <1>2, <2>2, <2>3
<1>8. QED
  BY <1>1, <1>5, <1>6, <1>7, OutsideFresh DEF Inv

LEMMA AnnounceInv ==
  ASSUME Inv, NEW t \in Thread, Announce(t)
  PROVE  Inv'
<1>1. CASE pc[t] = "acquire"
  <2>1. Writes(t) /\ ~Reads(t)
    BY <1>1, Somewhere DEF Announce
  <2>2. /\ writer = Nil /\ writer' = t /\ pc' = [pc EXCEPT ![t] = "pending"]
        /\ UNCHANGED <<content, readers, op, found, got, ret>>
    BY <1>1 DEF Announce, GoTo
  <2>3. Types'
    BY <2>2 DEF Inv, Types, Pc, Outside
  <2>s. Shapes'
    BY <2>2 DEF Inv, Shapes
  <2>4. \A u \in Thread : Holding(u)'
    BY <1>1, <2>1, <2>2, NilAssumption DEF Inv, Types, Holding, InBody, Outside, Reads, Writes
  <2>5. \A u \in Thread : Alone(u)'
    BY <2>1, <2>2 DEF Inv, Types, Alone, InBody, Outside, Reads, Writes
  <2>6. \A u \in Thread : Fresh(u)'
    BY <1>1, <2>1, <2>2 DEF Inv, Types, Shapes, Fresh, InBody, Outside, Reads, Writes, Present
  <2>7. QED
    BY <2>3, <2>s, <2>4, <2>5, <2>6 DEF Inv
<1>2. CASE pc[t] = "relock"
  <2>1. /\ InBody(t) /\ writer = Nil /\ writer' = t /\ pc' = [pc EXCEPT ![t] = "repending"]
        /\ UNCHANGED <<content, readers, op, found, got, ret>>
    BY <1>2 DEF Announce, GoTo, InBody, Outside
  <2>2. Holding(t) /\ readers[t] \in 0 .. Depth + 1
    BY DEF Inv, Holding
  <2>3. Reads(t)
    <3>1. Reads(t) \/ Writes(t)
      BY <1>2, Somewhere
    <3>2. QED
      BY <2>1, <2>2, <3>1, NilAssumption DEF Holding
  <2>4. readers[t] # 0
    BY <2>1, <2>2, <2>3 DEF Holding
  <2>5. StepOutside(t, "repending", readers[t])
    BY <1>2, <2>1, <2>2 DEF StepOutside, Outside, Inv, Types
  <2>6. QED
    BY <2>1, <2>3, <2>4, <2>5, OutsideInv
<1>3. QED
  BY <1>1, <1>2 DEF Announce

LEMMA CallerInv ==
  ASSUME Inv, NEW t \in Thread, CallOut(t) \/ ComeBack(t) \/ CallAgain(t) \/ ReturnToCaller(t)
  PROVE  Inv'
<1>1. /\ InBody(t) /\ pc[t] \in {"body", "caller", "reentered"} /\ pc[t] # "idle"
      /\ UNCHANGED <<content, writer, op, found, got, ret>>
  BY DEF CallOut, ComeBack, CallAgain, ReturnToCaller, InBody, Outside, lockVars
<1>2. /\ Reads(t) \/ Writes(t)
      /\ ~(Reads(t) /\ Writes(t))
  BY <1>1, Somewhere
<1>3. Holding(t) /\ readers[t] \in Nat /\ readers[t] \in 0 .. Depth + 1
  BY DEF Inv, Types, Holding
<1>4. readers[t] = 0 <=> ~Reads(t)
  BY <1>1, <1>3 DEF Holding
<1>5. CASE CallOut(t)
  <2>1. StepOutside(t, "caller", readers[t])
    BY <1>1, <1>3, <1>5 DEF CallOut, GoTo, StepOutside, Outside, lockVars, Inv, Types
  <2>2. QED
    BY <1>1, <1>4, <2>1, OutsideInv
<1>6. CASE ComeBack(t)
  <2>1. CASE readers[t] > 1
    <3>1. StepOutside(t, "reentered", readers[t])
      BY <1>1, <1>3, <1>6, <2>1 DEF ComeBack, GoTo, StepOutside, Outside, lockVars, Inv, Types
    <3>2. QED
      BY <1>1, <1>4, <2>1, <3>1, OutsideInv
  <2>2. CASE ~(readers[t] > 1)
    <3>1. StepOutside(t, "body", readers[t])
      BY <1>1, <1>3, <1>6, <2>2 DEF ComeBack, GoTo, StepOutside, Outside, lockVars, Inv, Types
    <3>2. Reads(t) => readers[t] = 1
      BY <1>3, <1>4, <2>2
    <3>3. QED
      BY <1>1, <1>4, <3>1, <3>2, OutsideInv
  <2>3. QED
    BY <2>1, <2>2
<1>7. CASE CallAgain(t)
  <2>1. CASE writer = Nil /\ readers[t] <= Depth /\ readers' = [readers EXCEPT ![t] = @ + 1]
             /\ pc' = [pc EXCEPT ![t] = "reentered"]
    <3>1. Reads(t)
      BY <1>1, <1>2, <1>3, <2>1, NilAssumption DEF Holding
    <3>2. readers[t] + 1 \in 0 .. Depth + 1 /\ readers[t] + 1 > 1
      BY <1>3, <1>4, <2>1, <3>1, BoundAssumption
    <3>3. StepOutside(t, "reentered", readers[t] + 1)
      BY <1>1, <2>1, <3>2 DEF StepOutside, Outside
    <3>4. QED
      BY <1>1, <3>1, <3>2, <3>3, OutsideInv
  <2>2. ASSUME NEW l \in {"reblocked", "relock"}, readers' = readers, pc' = [pc EXCEPT ![t] = l]
        PROVE  Inv'
    <3>1. StepOutside(t, l, readers[t])
      BY <1>1, <1>3, <2>2 DEF StepOutside, Outside, Inv, Types
    <3>2. QED
      BY <1>1, <1>4, <2>2, <3>1, OutsideInv
  <2>3. QED
    BY <1>7, <2>1, <2>2 DEF CallAgain, Admits, GoTo
<1>8. CASE ReturnToCaller(t)
  <2>1. Reads(t) /\ readers[t] > 1
    BY <1>3, <1>8 DEF ReturnToCaller, Holding
  <2>2. readers[t] - 1 \in 0 .. Depth + 1 /\ readers[t] - 1 # 0
    BY <1>3, <2>1, BoundAssumption
  <2>3. StepOutside(t, "caller", readers[t] - 1)
    BY <1>1, <1>8, <2>2 DEF ReturnToCaller, GoTo, StepOutside, Outside
  <2>4. QED
    BY <1>1, <2>1, <2>2, <2>3, OutsideInv
<1>9. QED
  BY <1>5, <1>6, <1>7, <1>8

LEMMA NextInv == Inv /\ [Next]_vars => Inv'
<1> SUFFICES ASSUME Inv, [Next]_vars PROVE Inv'
  OBVIOUS
<1>1. ASSUME NEW t \in Thread, \/ Call(t) \/ Announce(t) \/ Run(t)
             \/ CallOut(t) \/ ComeBack(t) \/ CallAgain(t)
      PROVE  Inv'
  BY <1>1, CallInv, AnnounceInv, RLockInv, EnterInv, ReturnInv, LookInv, WriteInv,
     ScanInv, FinishInv, CallerInv DEF Run, Proceed
<1>2. CASE UNCHANGED vars
  BY <1>2 DEF vars, lockVars, Inv, Types, Shapes, Holding, Alone, Fresh, InBody, Reads, Writes, Present, Outside
<1>3. QED
  BY <1>1, <1>2 DEF Next

LEMMA SpecInv == Spec => []Inv
  BY InitInv, NextInv, PTL DEF Spec

LEMMA InitRefines == Init => Atomic!Init
  BY DEF Init, Atomic!Init, Atomic!Empty

LEMMA CallRefines ==
  ASSUME Inv, NEW t \in Thread, Call(t)
  PROVE  Atomic!Call(t)
  BY DEF Call, Atomic!Call, Inv, Holding, lockVars

LEMMA ReturnRefines ==
  ASSUME Inv, NEW t \in Thread, Return(t)
  PROVE  Atomic!Return(t)
  BY DEF Return, Atomic!Return, Inv, Fresh

LEMMA WriteRefines ==
  ASSUME Inv, NEW t \in Thread, Write(t)
  PROVE  Atomic!TakeEffect(t)
<1>1. op[t] \in Op /\ op[t].m \in WriteMethod /\ op[t].id \in Id
  BY Somewhere, Modes DEF Write, Inv, Holding, Writes
<1>2. found[t] = Present(op[t].id)
  BY DEF Write, Inv, Fresh
<1>3. op[t] # Nil /\ ret[t] = Nil
  BY DEF Write, Inv, Fresh, Holding
<1>4. content' = Atomic!After(op[t])
  <2>1. CASE op[t].m \in {"Add", "AddUnique", "Upsert", "SetMeta"}
    BY <1>1, <1>2, <2>1 DEF Write, Atomic!After, Atomic!Present, Present
  <2>2. CASE op[t].m = "Remove"
    <3>1. content[op[t].id] \in Seq(Vec)
      BY <1>1 DEF Inv, Types
    <3>2. found[t] => SubSeq(content[op[t].id], 2, Len(content[op[t].id])) = Tail(content[op[t].id])
      BY <1>2, <3>1 DEF Present
    <3>3. QED
      BY <1>1, <1>2, <2>2, <3>2 DEF Write, Atomic!After, Atomic!Present, Present
  <2>3. CASE op[t].m = "Clear"
    BY <2>3 DEF Write, Atomic!After, Atomic!Empty
  <2>4. CASE op[t].m = "Load"
    BY <1>1, <2>4 DEF Write, Atomic!After, Atomic!Empty
  <2>5. QED
    BY <1>1, <2>1, <2>2, <2>3, <2>4 DEF WriteMethod
<1>5. ret' = [ret EXCEPT ![t] = Atomic!Result(op[t])]
  BY <1>1, <1>2 DEF Write, Atomic!Result, Atomic!Present, Present, WriteMethod
<1>6. UNCHANGED op
  BY DEF Write
<1>7. QED
  BY <1>3, <1>4, <1>5, <1>6 DEF Atomic!TakeEffect

LEMMA FinishRefines ==
  ASSUME Inv, NEW t \in Thread, Finish(t)
  PROVE  Atomic!TakeEffect(t)
<1>1. Reads(t) /\ op[t] \in Op /\ op[t].id \in Id /\ op[t] # Nil /\ ret[t] = Nil
  BY Somewhere, Modes DEF Finish, Inv, Fresh, Holding
<1> DEFINE ids == IF op[t].m = "Get" THEN {op[t].id} ELSE Id
<1>2. /\ got[t] = [y \in DOMAIN got[t] |-> content[y]]
      /\ DOMAIN got[t] \subseteq ids
  BY <1>1 DEF Finish, Inv, Fresh, InBody, Outside
<1>3. got[t] = [y \in ids |-> content[y]]
  <2>1. DOMAIN got[t] = ids
    BY <1>2 DEF Finish, Wanted
  <2>2. QED
    BY <1>2, <2>1
<1>4. got[t] = Atomic!Result(op[t])
  <2>1. CASE op[t].m = "Get"
    BY <1>3, <2>1 DEF Atomic!Result
  <2>2. CASE op[t].m \in {"Search", "Save"}
    BY <1>3, <2>2 DEF Atomic!Result, Inv, Types
  <2>3. QED
    BY <1>1, <2>1, <2>2 DEF Reads, ReadMethod
<1>5. content = Atomic!After(op[t])
  BY <1>1 DEF Atomic!After, Reads, ReadMethod
<1>6. UNCHANGED <<content, op>> /\ ret' = [ret EXCEPT ![t] = got[t]]
  BY DEF Finish
<1>7. QED
  BY <1>1, <1>4, <1>5, <1>6 DEF Atomic!TakeEffect

LEMMA StepRefines == Inv /\ [Next]_vars => [Atomic!Next]_(Atomic!vars)
<1> SUFFICES ASSUME Inv, [Next]_vars PROVE Atomic!Next \/ UNCHANGED <<content, op, ret>>
  BY DEF Atomic!vars
<1>1. ASSUME NEW t \in Thread, Call(t) \/ Return(t) \/ Write(t) \/ Finish(t)
      PROVE  Atomic!Next
  BY <1>1, CallRefines, ReturnRefines, WriteRefines, FinishRefines DEF Atomic!Next
<1>2. ASSUME NEW t \in Thread,
             \/ RLock(t) \/ Announce(t) \/ Enter(t) \/ Look(t) \/ Scan(t)
             \/ CallOut(t) \/ ComeBack(t) \/ CallAgain(t) \/ ReturnToCaller(t)
      PROVE  UNCHANGED <<content, op, ret>>
  BY <1>2 DEF RLock, Announce, Enter, Look, Scan, CallOut, ComeBack, CallAgain, ReturnToCaller
<1>3. CASE UNCHANGED vars
  BY <1>3 DEF vars
<1>4. QED
  BY <1>1, <1>2, <1>3 DEF Next, Run, Proceed

\* Every method of a LockedStore takes effect at one instant between its
\* call and its return: a write with its last step, a read when it has read
\* all, whatever code of its caller it runs in between.
THEOREM CallsAreAtomic == Spec => ImplementsAtomicStore
<1>1. Spec => Atomic!Init /\ [][Atomic!Next]_(Atomic!vars)
  BY InitRefines, StepRefines, SpecInv, PTL DEF Spec
<1>2. QED
  BY <1>1, PTL DEF ImplementsAtomicStore, Atomic!Spec

\* Whoever changes the store is alone in it, whatever the number of
\* goroutines and the methods they call (locked_store.go).
THEOREM WritersAreAlone == Spec => []NoRace
<1>1. Inv => NoRace
  <2> SUFFICES ASSUME Inv, NEW t \in Thread, NEW u \in Thread, t # u, InBody(t), InBody(u)
               PROVE  Reads(t) /\ Reads(u)
    BY DEF NoRace, Reads
  <2>1. pc[t] # "idle" /\ pc[u] # "idle"
    BY DEF InBody, Outside
  <2>2. ASSUME Writes(t) PROVE FALSE
    BY <2>1, <2>2, Somewhere DEF Inv, Alone, Holding
  <2>3. ASSUME Writes(u) PROVE FALSE
    BY <2>1, <2>3, Somewhere DEF Inv, Alone, Holding
  <2>4. QED
    BY <2>1, <2>2, <2>3, Somewhere
<1>2. QED
  BY <1>1, SpecInv, PTL

\* What t has read are rows.
Typed(t) == \A x \in DOMAIN got[t] : x \in Id /\ got[t][x] \in Seq(Vec)

\* Readers are kept out only by a writer.
KeptOut(t) == pc[t] \in {"blocked", "reblocked"} => writer # Nil

LEMMA NextTyped ==
  ASSUME Inv, \A t \in Thread : Typed(t), [Next]_vars, NEW u \in Thread
  PROVE  Typed(u)'
<1>1. CASE got'[u] = got[u]
  BY <1>1 DEF Typed
<1>2. CASE got'[u] = <<>>
  <2>1. DOMAIN <<>> = {}
    OBVIOUS
  <2>2. QED
    BY <1>2, <2>1 DEF Typed
<1>3. ASSUME NEW t \in Thread, Scan(t) PROVE got'[u] = got[u] \/ Typed(u)'
  <2>1. PICK x \in Wanted(t) :
          got' = [got EXCEPT ![t] = [y \in DOMAIN got[t] \cup {x} |->
                                       IF y = x THEN content[x] ELSE got[t][y]]]
    BY <1>3 DEF Scan
  <2>2. x \in Id
    <3>1. op[t].id \in Id
      BY <1>3, Somewhere, Modes DEF Scan
    <3>2. QED
      BY <3>1 DEF Wanted
  <2>3. content[x] \in Seq(Vec)
    BY <2>2 DEF Inv, Types
  <2>4. CASE u = t
    <3>1. got'[u] = [y \in DOMAIN got[t] \cup {x} |-> IF y = x THEN content[x] ELSE got[t][y]]
      BY <2>1, <2>4 DEF Inv, Shapes
    <3>2. QED
      BY <2>2, <2>3, <2>4, <3>1 DEF Typed
  <2>5. CASE u # t
    BY <2>1, <2>5 DEF Inv, Shapes
  <2>6. QED
    BY <2>4, <2>5
<1>4. ASSUME NEW t \in Thread, Return(t) PROVE got'[u] = got[u] \/ got'[u] = <<>>
  BY <1>4 DEF Return, Inv, Shapes
<1>5. ASSUME NEW t \in Thread,
             \/ Call(t) \/ RLock(t) \/ Announce(t) \/ Enter(t) \/ Look(t) \/ Write(t)
             \/ Finish(t) \/ CallOut(t) \/ ComeBack(t) \/ CallAgain(t) \/ ReturnToCaller(t)
      PROVE  got'[u] = got[u]
  BY <1>5 DEF Call, RLock, Announce, Enter, Look, Write, Finish, CallOut, ComeBack, CallAgain,
     ReturnToCaller
<1>6. CASE UNCHANGED vars
  BY <1>1, <1>6 DEF vars
<1>7. QED
  BY <1>1, <1>2, <1>3, <1>4, <1>5, <1>6 DEF Next, Run, Proceed

LEMMA NextKeptOut ==
  ASSUME Inv, \A t \in Thread : KeptOut(t), [Next]_vars, NEW u \in Thread
  PROVE  KeptOut(u)'
<1>1. KeptOut(u)
  OBVIOUS
<1>2. CASE UNCHANGED <<writer, pc[u]>>
  BY <1>1, <1>2 DEF KeptOut
<1>3. ASSUME NEW t \in Thread, RLock(t) \/ CallAgain(t) PROVE KeptOut(u)'
  BY <1>1, <1>3 DEF RLock, CallAgain, Admits, GoTo, KeptOut, Inv, Types
<1>4. ASSUME NEW t \in Thread, Announce(t) PROVE KeptOut(u)'
  BY <1>4, NilAssumption DEF Announce, KeptOut
<1>5. ASSUME NEW t \in Thread, Return(t) PROVE KeptOut(u)'
  <2> DEFINE waiting == {v \in Thread : pc[v] \in {"blocked", "reblocked"}}
  <2>1. CASE UnlockOf(t) = "Lock"
    <3>1. pc'[u] = (IF u = t THEN "idle" ELSE IF u \notin waiting THEN pc[u]
                    ELSE IF pc[u] = "blocked" THEN "body" ELSE "reentered")
      BY <1>5, <2>1 DEF Return
    <3>2. QED
      BY <3>1 DEF KeptOut
  <2>2. CASE UnlockOf(t) # "Lock"
    <3>1. writer' = writer /\ (pc'[u] = "idle" \/ pc'[u] = pc[u])
      BY <1>5, <2>2 DEF Return
    <3>2. QED
      BY <1>1, <3>1 DEF KeptOut
  <2>3. QED
    BY <2>1, <2>2
<1>6. ASSUME NEW t \in Thread,
             \/ Call(t) \/ Enter(t) \/ Proceed(t) \/ Write(t)
             \/ CallOut(t) \/ ComeBack(t) \/ ReturnToCaller(t)
      PROVE  KeptOut(u)'
  <2>1. writer' = writer
    BY <1>6 DEF Call, Enter, Proceed, Look, Scan, Finish, Write, CallOut, ComeBack,
       ReturnToCaller, lockVars
  <2>2. \/ pc' = pc
        \/ \E l \in {"acquire", "body", "write", "return", "caller", "reentered"} :
             pc' = [pc EXCEPT ![t] = l]
    BY <1>6 DEF Call, Enter, Proceed, Look, Scan, Finish, Write, CallOut, ComeBack,
       ReturnToCaller, GoTo
  <2>3. QED
    BY <1>1, <2>1, <2>2 DEF KeptOut, Inv, Types
<1>7. CASE UNCHANGED vars
  BY <1>2, <1>7 DEF vars, lockVars
<1>8. QED
  BY <1>3, <1>4, <1>5, <1>6, <1>7 DEF Next, Run

WholeInv ==
  /\ Inv
  /\ \A t \in Thread : Typed(t)
  /\ \A t \in Thread : KeptOut(t)

LEMMA SpecWholeInv == Spec => []WholeInv
<1>1. Init => WholeInv
  <2>1. DOMAIN <<>> = {}
    OBVIOUS
  <2>2. ASSUME Init, NEW t \in Thread PROVE Typed(t) /\ KeptOut(t)
    BY <2>1, <2>2 DEF Init, Typed, KeptOut
  <2>3. QED
    BY <2>2, InitInv DEF WholeInv
<1>2. WholeInv /\ [Next]_vars => WholeInv'
  BY NextInv, NextTyped, NextKeptOut DEF WholeInv
<1>3. QED
  BY <1>1, <1>2, PTL DEF Spec

\* The store, the lock and the goroutines keep their types: no goroutine ever
\* holds more read locks than that of its method and those of the methods that
\* code it called out to has running, and none releases a lock it does not hold.
THEOREM TypeCorrect == Spec => []TypeOK
<1>1. WholeInv => TypeOK
  <2> SUFFICES ASSUME WholeInv PROVE TypeOK
    OBVIOUS
  <2>1. readers \in [Thread -> 0 .. Depth + 1]
    BY DEF WholeInv, Inv, Types, Holding
  <2>2. QED
    BY <2>1 DEF WholeInv, Inv, Types, TypeOK, Typed
<1>2. QED
  BY <1>1, SpecWholeInv, PTL

\* However many goroutines call a LockedStore, its methods never lock each
\* other out: when all wait, code of a caller is running under the lock.
THEOREM OnlyCallersDeadlock == Spec => []StuckOnlyInCallers
<1>1. WholeInv => StuckOnlyInCallers
  <2> SUFFICES ASSUME WholeInv, NEW t \in Thread, pc[t] # "idle",
                      \A u \in Thread : pc[u] # "idle" => Waits(u) \/ pc[u] \in Outside,
                      \A u \in Thread : pc[u] \notin Outside
               PROVE  FALSE
    BY DEF StuckOnlyInCallers
  <2>1. \A u \in Thread : Holding(u) /\ KeptOut(u)
    BY DEF WholeInv, Inv
  <2>2. \A u \in Thread : ~InBody(u)
    BY DEF Waits, InBody
  <2>3. writer # Nil
    <3>1. Waits(t)
      OBVIOUS
    <3>2. pc[t] = "pending" => writer = t
      BY <2>1 DEF Holding
    <3>3. QED
      BY <2>1, <3>1, <3>2, NilAssumption DEF Waits, KeptOut
  <2>4. PICK w \in Thread : writer = w
    BY <2>3 DEF WholeInv, Inv, Types
  <2>5. pc[w] = "pending"
    BY <2>1, <2>2, <2>4 DEF Holding, Outside
  <2>6. PICK u \in Thread : readers[u] # 0
    BY <2>5 DEF Waits, NoReaders
  <2>7. QED
    BY <2>1, <2>2, <2>6 DEF Holding
<1>2. QED
  BY <1>1, SpecWholeInv, PTL

\* Code of a caller, once it waits for the lock, is never let in: it holds the
\* read lock that the writer before it, or its own, waits for, or runs under
\* its own write lock.  No other goroutine need be there.
THEOREM CallersNeverAdmitted == Spec => CallersWaitForever
<1>1. Inv /\ [Next]_vars => \A t \in Thread : WaitsOutside(t) => WaitsOutside(t)'
  <2> SUFFICES ASSUME Inv, [Next]_vars, NEW t \in Thread, WaitsOutside(t)
               PROVE  WaitsOutside(t)'
    OBVIOUS
  <2>1. CASE pc'[t] = pc[t]
    BY <2>1 DEF WaitsOutside
  <2>2. ASSUME NEW u \in Thread,
               NEW l, pc' = [pc EXCEPT ![u] = l], ~WaitsOutside(u)
        PROVE  pc'[t] = pc[t]
    BY <2>2 DEF Inv, Types
  <2>3. ASSUME NEW u \in Thread,
               \/ Call(u) \/ RLock(u) \/ Proceed(u) \/ Write(u)
               \/ CallOut(u) \/ ComeBack(u) \/ CallAgain(u) \/ ReturnToCaller(u)
        PROVE  pc'[t] = pc[t]
    <3>1. ~WaitsOutside(u)
      BY <2>3 DEF Call, RLock, Proceed, Look, Scan, Finish, Write, CallOut, ComeBack, CallAgain,
         ReturnToCaller, WaitsOutside
    <3>2. pc' = pc \/ \E l \in Pc : pc' = [pc EXCEPT ![u] = l]
      BY <2>3 DEF Call, RLock, Proceed, Look, Scan, Finish, Write, CallOut, ComeBack, CallAgain,
         ReturnToCaller, GoTo, Pc, Outside
    <3>3. QED
      BY <2>2, <3>1, <3>2
  <2>4. ASSUME NEW u \in Thread, Enter(u) PROVE pc'[t] = pc[t]
    <3>1. pc[u] = "pending" /\ pc' = [pc EXCEPT ![u] = "body"]
      BY <2>4, EntersFromPending
    <3>2. QED
      BY <2>2, <3>1 DEF WaitsOutside
  <2>5. ASSUME NEW u \in Thread, Announce(u) PROVE WaitsOutside(t)'
    BY <2>5 DEF Announce, GoTo, WaitsOutside, Inv, Types
  <2>6. ASSUME NEW u \in Thread, Return(u) PROVE pc'[t] = pc[t]
    <3>1. pc[u] = "return" /\ pc[t] \in Outside /\ u # t
      BY <2>6 DEF Return, WaitsOutside, Outside
    <3>2. CASE Writes(u)
      BY <3>1, <3>2, NoneReblocked
    <3>3. CASE ~Writes(u)
      <4>1. UnlockOf(u) # "Lock"
        BY <3>1, <3>3, Somewhere DEF UnlockOf
      <4>2. QED
        BY <2>6, <3>1, <4>1 DEF Return
    <3>4. QED
      BY <3>2, <3>3
  <2>7. CASE UNCHANGED vars
    BY <2>1, <2>7 DEF vars
  <2>8. QED
    BY <2>1, <2>3, <2>4, <2>5, <2>6, <2>7 DEF Next, Run
<1>2. Inv /\ [Next]_vars => [\A t \in Thread : WaitsOutside(t) => WaitsOutside(t)']_vars
  BY <1>1
<1>3. QED
  BY <1>2, SpecInv, PTL DEF Spec, CallersWaitForever
=============================================================================
