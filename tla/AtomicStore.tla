----------------------------- MODULE AtomicStore -----------------------------
(***************************************************************************)
(* What a LockedStore promises: every method takes effect at one instant   *)
(* between its call and its return, on a store that nobody else is using.  *)
(* The store is, per id, the sequence of its rows, the distinguished one   *)
(* first.                                                                  *)
(***************************************************************************)
EXTENDS Integers, Sequences

CONSTANTS Thread, Id, Op, Nil

VARIABLES
  content,  \* id -> its rows
  call,     \* thread -> the operation it has called, or Nil
  ret       \* thread -> its result, or Nil

vars == <<content, call, ret>>

Empty == [x \in Id |-> <<>>]
Present(x) == content[x] # <<>>

\* The store after op.
After(op) ==
  LET added == [content EXCEPT ![op.id] = Append(@, op.vec)]
  IN  CASE op.m = "Add" -> added
        [] op.m = "AddUnique" -> IF Present(op.id) THEN content ELSE added
        [] op.m = "Upsert" ->
             IF Present(op.id) THEN [content EXCEPT ![op.id][1] = op.vec] ELSE added
        [] op.m = "SetMeta" ->
             IF Present(op.id) THEN [content EXCEPT ![op.id][1] = op.vec] ELSE content
        [] op.m = "Remove" ->
             IF Present(op.id) THEN [content EXCEPT ![op.id] = Tail(@)] ELSE content
        [] op.m = "Clear" -> Empty
        [] op.m = "Load" -> [Empty EXCEPT ![op.id] = <<op.vec>>]
        [] OTHER -> content

Result(op) ==
  CASE op.m = "AddUnique" -> ~Present(op.id)
    [] op.m \in {"Remove", "SetMeta"} -> Present(op.id)
    [] op.m = "Get" -> [x \in {op.id} |-> content[x]]
    [] op.m \in {"Search", "Save"} -> content
    [] OTHER -> TRUE

Call(t) ==
  /\ call[t] = Nil
  /\ \E op \in Op : call' = [call EXCEPT ![t] = op]
  /\ UNCHANGED <<content, ret>>

TakeEffect(t) ==
  /\ call[t] # Nil /\ ret[t] = Nil
  /\ content' = After(call[t])
  /\ ret' = [ret EXCEPT ![t] = Result(call[t])]
  /\ UNCHANGED call

Return(t) ==
  /\ ret[t] # Nil
  /\ call' = [call EXCEPT ![t] = Nil]
  /\ ret' = [ret EXCEPT ![t] = Nil]
  /\ UNCHANGED content

Init ==
  /\ content = Empty
  /\ call = [t \in Thread |-> Nil]
  /\ ret = [t \in Thread |-> Nil]

Next == \E t \in Thread : Call(t) \/ TakeEffect(t) \/ Return(t)

Spec == Init /\ [][Next]_vars
=============================================================================
