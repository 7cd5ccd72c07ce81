----------------------------- MODULE LockedStore -----------------------------
(***************************************************************************)
(* pkg/vector/locked_store.go: a Store guarded by a sync.RWMutex, used by  *)
(* several goroutines at once.                                             *)
(*                                                                         *)
(* A method acquires the lock in its mode, runs the method of Store step   *)
(* by step and releases the lock.  A writing method first looks its id up  *)
(* and then acts on what it found; a search reads the rows of one id after *)
(* another.                                                                *)
(*                                                                         *)
(* Three kinds of methods run code of their caller under the lock: the     *)
(* predicate of a search, the writer of WriteTo and the reader of ReadFrom.*)
(* That code may never come back, and may call any method of the store,    *)
(* from this goroutine or another it waits for: whichever runs them, those *)
(* calls count as the calling goroutine's.                                 *)
(*                                                                         *)
(* The store itself, modelled in Store, is here one sequence of rows per   *)
(* id, the distinguished row first.  A row is one value, whichever part of *)
(* it a method replaces.                                                   *)
(***************************************************************************)
EXTENDS Integers, Sequences

CONSTANTS
  Thread,   \* goroutines
  Id, Vec,
  Method,   \* the methods they call
  MaxRows,  \* bound: nobody adds to an id that has this many rows
  Depth,    \* bound: reading methods that callers' code has running at once
  Nil

\* Get stands for the methods that read one id or one field (Has, Meta, IDs,
\* Len, Dims, Metric), Search for the searches, Save for the methods that
\* write the store out (WriteTo, WriteJSONTo), Load for those that read it in
\* (ReadFrom, ReadJSONFrom).
ReadMethod == {"Get", "Search", "Save"}
WriteMethod == {"Add", "AddUnique", "Upsert", "Remove", "Clear", "SetMeta", "Load"}

\* Methods that run their caller's code: SearchOpts its predicate for a row,
\* WriteTo its writer, ReadFrom its reader.
CallingOut == {"Search", "Save", "Load"}

ASSUME MethodAssumption == Method \subseteq ReadMethod \cup WriteMethod
ASSUME BoundAssumption == MaxRows \in Nat /\ Depth \in Nat
ASSUME NilAssumption == Nil \notin Thread \cup BOOLEAN
\* no operation and no result is Nil
ASSUME NilValueAssumption ==
  /\ Nil \notin [m : Method, id : Id, vec : Vec]
  /\ \A S \in SUBSET Id : Nil \notin [S -> Seq(Vec)]

VARIABLES
  content,  \* id -> its rows
  readers,  \* thread -> the read locks it holds
  writer,   \* the thread that has or waits for the write lock, or Nil
  pc,       \* thread -> where it is
  op,       \* thread -> the operation it runs, or Nil
  found,    \* thread -> what its lookup said
  got,      \* thread -> id -> the rows it read so far
  ret       \* thread -> the result it is about to return, or Nil

lockVars == <<readers, writer>>
vars == <<content, lockVars, pc, op, found, got, ret>>

Op == [m : Method, id : Id, vec : Vec]

\* Mutant of LockOf: AddUnique takes the read lock.
LockOfAddUniqueShared(m) == IF m \in WriteMethod \ {"AddUnique"} THEN "Lock" ELSE "RLock"

\* Mutant of LockOf: Clear takes the read lock.
LockOfClearShared(m) == IF m \in WriteMethod \ {"Clear"} THEN "Lock" ELSE "RLock"

\* The mode in which a method takes the lock.
LockOf(m) == IF m \in WriteMethod THEN "Lock" ELSE "RLock"

\* Mutant of UnlockOf: everybody releases a read lock.
UnlockOfReader(t) == "RLock"

\* Mutant of UnlockOf: the early return of AddUnique releases nothing.
UnlockOfAccepted(t) ==
  IF op[t].m = "AddUnique" /\ ret[t] = FALSE THEN "none" ELSE LockOf(op[t].m)

\* What the deferred call of a method releases, on every return.
UnlockOf(t) == LockOf(op[t].m)

\* Where a goroutine is when its method has called code of the caller and that
\* has not come back: in that code, in a reading method it called, or waiting
\* for the lock to read or to write.
Outside == {"caller", "reentered", "reblocked", "relock", "repending"}

GoTo(t, l) == pc' = [pc EXCEPT ![t] = l]
Present(x) == content[x] # <<>>

-----------------------------------------------------------------------------
(* sync.RWMutex.  A writer first announces itself, which keeps new readers *)
(* out, and then waits for the present ones.  A writer that leaves admits  *)
(* every reader that came meanwhile, before the next writer can enter.     *)

\* Mutant of Admits: readers overtake a waiting writer.
AdmitsBeforeWriter == IF writer = Nil THEN TRUE ELSE pc[writer] = "pending"

Admits == writer = Nil

RLock(t) ==
  /\ pc[t] = "acquire" /\ LockOf(op[t].m) = "RLock"
  /\ \/ /\ Admits
        /\ readers' = [readers EXCEPT ![t] = @ + 1]
        /\ GoTo(t, "body")
     \/ /\ ~Admits
        /\ GoTo(t, "blocked")
        /\ UNCHANGED readers
  /\ UNCHANGED <<content, writer, op, found, got, ret>>

Announce(t) ==
  /\ writer = Nil
  /\ writer' = t
  /\ \/ pc[t] = "acquire" /\ LockOf(op[t].m) = "Lock" /\ GoTo(t, "pending")
     \/ pc[t] = "relock" /\ GoTo(t, "repending")
  /\ UNCHANGED <<content, readers, op, found, got, ret>>

\* Mutant of NoReaders: a goroutine does not wait for its own read locks.
NoReadersElse(t) == \A u \in Thread \ {t} : readers[u] = 0

\* The readers a writer waits for, its own goroutine's among them.
NoReaders(t) == \A u \in Thread : readers[u] = 0

Enter(t) ==
  /\ pc[t] \in {"pending", "repending"} /\ NoReaders(t)
  /\ GoTo(t, IF pc[t] = "pending" THEN "body" ELSE "reentered")
  /\ UNCHANGED <<content, lockVars, op, found, got, ret>>

\* t returns and releases its lock.
Return(t) ==
  LET waiting  == {u \in Thread : pc[u] \in {"blocked", "reblocked"}}
      admitted == IF UnlockOf(t) = "Lock" THEN waiting ELSE {}
      left     == IF UnlockOf(t) = "RLock" THEN {t} ELSE {}
  IN  /\ pc[t] = "return"
      /\ writer' = IF UnlockOf(t) = "Lock" THEN Nil ELSE writer
      /\ readers' = [u \in Thread |-> IF u \in left THEN readers[u] - 1
                                     ELSE IF u \in admitted THEN readers[u] + 1
                                     ELSE readers[u]]
      /\ pc' = [u \in Thread |-> IF u = t THEN "idle"
                                ELSE IF u \notin admitted THEN pc[u]
                                ELSE IF pc[u] = "blocked" THEN "body" ELSE "reentered"]
      /\ op' = [op EXCEPT ![t] = Nil]
      /\ ret' = [ret EXCEPT ![t] = Nil]
      /\ found' = [found EXCEPT ![t] = FALSE]
      /\ got' = [got EXCEPT ![t] = <<>>]
      /\ UNCHANGED content

-----------------------------------------------------------------------------
(* The methods, between lock and unlock. *)

Call(t) ==
  /\ pc[t] = "idle"
  /\ \E o \in Op :
       /\ o.m \in {"Add", "AddUnique", "Upsert"} => Len(content[o.id]) < MaxRows
       /\ op' = [op EXCEPT ![t] = o]
  /\ GoTo(t, "acquire")
  /\ UNCHANGED <<content, lockVars, found, got, ret>>

Look(t) ==
  /\ pc[t] = "body" /\ op[t].m \in WriteMethod
  /\ found' = [found EXCEPT ![t] = Present(op[t].id)]
  /\ GoTo(t, "write")
  /\ UNCHANGED <<content, lockVars, op, got, ret>>

Write(t) ==
  LET o == op[t]
      added == [content EXCEPT ![o.id] = Append(@, o.vec)]
  IN  /\ pc[t] = "write"
      /\ \/ o.m = "Add" /\ content' = added
         \/ o.m = "AddUnique" /\ content' = IF found[t] THEN content ELSE added
         \/ /\ o.m = "Upsert"
            /\ content' = IF found[t] THEN [content EXCEPT ![o.id][1] = o.vec] ELSE added
         \/ /\ o.m = "SetMeta"
            /\ content' = IF found[t] THEN [content EXCEPT ![o.id][1] = o.vec] ELSE content
         \/ /\ o.m = "Remove"
            /\ content' = IF found[t] THEN [content EXCEPT ![o.id] = SubSeq(@, 2, Len(@))]
                          ELSE content
         \/ o.m = "Clear" /\ content' = [x \in Id |-> <<>>]
         \/ /\ o.m = "Load"
            /\ content' = [x \in Id |-> IF x = o.id THEN <<o.vec>> ELSE <<>>]
      /\ ret' = [ret EXCEPT ![t] = CASE o.m = "AddUnique" -> ~found[t]
                                     [] o.m \in {"Remove", "SetMeta"} -> found[t]
                                     [] OTHER -> TRUE]
      /\ GoTo(t, "return")
      /\ UNCHANGED <<lockVars, op, found, got>>

Wanted(t) == (IF op[t].m = "Get" THEN {op[t].id} ELSE Id) \ DOMAIN got[t]

\* The rows of one more id are read.
Scan(t) ==
  /\ pc[t] = "body" /\ op[t].m \in ReadMethod
  /\ \E x \in Wanted(t) :
       got' = [got EXCEPT ![t] = [y \in DOMAIN got[t] \cup {x} |->
                                    IF y = x THEN content[x] ELSE got[t][y]]]
  /\ UNCHANGED <<content, lockVars, pc, op, found, ret>>

\* All have been read.
Finish(t) ==
  /\ pc[t] = "body" /\ op[t].m \in ReadMethod
  /\ Wanted(t) = {}
  /\ ret' = [ret EXCEPT ![t] = got[t]]
  /\ GoTo(t, "return")
  /\ UNCHANGED <<content, lockVars, op, found, got>>

-----------------------------------------------------------------------------
(* Code of the caller, under the lock of the method that calls it.         *)

\* Mutant of CallOut: the read lock is given up around the call.
CallOutUnlocked(t) ==
  /\ pc[t] \in {"body", "reentered"} /\ op[t].m \in CallingOut
  /\ readers' = [readers EXCEPT ![t] = 0]
  /\ GoTo(t, "caller")
  /\ UNCHANGED <<content, writer, op, found, got, ret>>

\* A method calls its predicate, its writer or, before it changes anything,
\* its reader.
CallOut(t) ==
  /\ pc[t] \in {"body", "reentered"} /\ op[t].m \in CallingOut
  /\ GoTo(t, "caller")
  /\ UNCHANGED <<content, lockVars, op, found, got, ret>>

\* The method that called goes on: the first, or one called since.
ComeBack(t) ==
  /\ pc[t] = "caller"
  /\ GoTo(t, IF readers[t] > 1 THEN "reentered" ELSE "body")
  /\ UNCHANGED <<content, lockVars, op, found, got, ret>>

\* The code calls a method of the same store.  What a reading method returns
\* to it concerns nobody else.
CallAgain(t) ==
  /\ pc[t] = "caller"
  /\ \/ /\ Admits /\ readers[t] <= Depth
        /\ readers' = [readers EXCEPT ![t] = @ + 1]
        /\ GoTo(t, "reentered")
     \/ ~Admits /\ GoTo(t, "reblocked") /\ UNCHANGED readers
     \/ GoTo(t, "relock") /\ UNCHANGED readers
  /\ UNCHANGED <<content, writer, op, found, got, ret>>

ReturnToCaller(t) ==
  /\ pc[t] = "reentered"
  /\ readers' = [readers EXCEPT ![t] = @ - 1]
  /\ GoTo(t, "caller")
  /\ UNCHANGED <<content, writer, op, found, got, ret>>

-----------------------------------------------------------------------------
Init ==
  /\ content = [x \in Id |-> <<>>]
  /\ readers = [t \in Thread |-> 0]
  /\ writer = Nil
  /\ pc = [t \in Thread |-> "idle"]
  /\ op = [t \in Thread |-> Nil]
  /\ found = [t \in Thread |-> FALSE]
  /\ got = [t \in Thread |-> <<>>]
  /\ ret = [t \in Thread |-> Nil]

\* A method goes on instead of calling code of the caller.
Proceed(t) == Look(t) \/ Scan(t) \/ Finish(t)

\* A step that a running goroutine makes without choosing to call.
Run(t) == RLock(t) \/ Enter(t) \/ Return(t) \/ Proceed(t) \/ Write(t) \/ ReturnToCaller(t)

Next ==
  \E t \in Thread :
    Call(t) \/ Announce(t) \/ Run(t) \/ CallOut(t) \/ ComeBack(t) \/ CallAgain(t)

\* Goroutines that can run do.  The mutex between writers hands over to the
\* longest waiting one when it has starved.  A method calls code of the caller
\* finitely often, at most once for a row or a piece of the stream, and then
\* goes on.  Nothing obliges that code to come back.
Fairness ==
  \A t \in Thread : WF_vars(Run(t)) /\ SF_vars(Announce(t)) /\ SF_vars(Proceed(t))

Spec == Init /\ [][Next]_vars /\ Fairness

-----------------------------------------------------------------------------
(* Properties. *)

Pc == {"idle", "acquire", "blocked", "pending", "body", "write", "return"} \cup Outside

TypeOK ==
  /\ content \in [Id -> Seq(Vec)]
  /\ readers \in [Thread -> 0 .. Depth + 1]
  /\ writer \in Thread \cup {Nil}
  /\ pc \in [Thread -> Pc]
  /\ op \in [Thread -> Op \cup {Nil}]
  /\ found \in [Thread -> BOOLEAN]
  /\ \A t \in Thread : \A x \in DOMAIN got[t] : x \in Id /\ got[t][x] \in Seq(Vec)

\* t is between lock and unlock.
InBody(t) == pc[t] \in {"body", "write", "return"} \cup Outside

\* Whoever changes the store is alone in it: no method that writes runs with
\* only the read lock, no lock is given up early (every method of
\* locked_store.go).
NoRace ==
  \A t, u \in Thread :
    t # u /\ InBody(t) /\ InBody(u) => op[t].m \in ReadMethod /\ op[u].m \in ReadMethod

\* A goroutine that waits for the lock before its method has begun.
Waits(t) ==
  \/ pc[t] = "blocked"
  \/ pc[t] = "pending" /\ ~NoReaders(t)
  \/ pc[t] = "acquire" /\ LockOf(op[t].m) = "Lock" /\ writer # Nil

\* The methods never lock each other out: when no goroutine in a call can go
\* on but by code of its caller coming back, such code is running under the
\* lock.  Without predicates, writers and readers nothing deadlocks.
StuckOnlyInCallers ==
  (\E t \in Thread : pc[t] # "idle")
    /\ (\A t \in Thread : pc[t] # "idle" => Waits(t) \/ pc[t] \in Outside)
    => \E t \in Thread : pc[t] \in Outside

\* The code of a caller waits for the lock.
WaitsOutside(t) == pc[t] \in {"reblocked", "relock", "repending"}

\* Code that a method calls never gets a lock it has to wait for.  A predicate
\* or a writer that calls a writing method waits for its own read lock, with
\* no other goroutine around; one that calls a reading method while a writer
\* waits is waited for by it; the reader of ReadFrom waits for its own write
\* lock whatever it calls (locked_store.go:114-118, 162-184).
CallersWaitForever == [][\A t \in Thread : WaitsOutside(t) => WaitsOutside(t)']_vars

\* Every call returns if the code that methods call always comes back: readers
\* that keep coming do not starve a writer, nor writers a reader.
CallsReturn ==
  (\A t \in Thread : []<>(pc[t] \notin Outside))
    => \A t \in Thread : pc[t] = "acquire" ~> pc[t] = "idle"

Atomic == INSTANCE AtomicStore WITH call <- op

\* Every method takes effect at one instant between call and return:
\* AddUnique, Upsert and Remove never act on a lookup that has gone stale,
\* and a search or a save sees one state of the whole store.
ImplementsAtomicStore == Atomic!Spec
=============================================================================
