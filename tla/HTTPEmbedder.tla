---------------------------- MODULE HTTPEmbedder ----------------------------
(***************************************************************************)
(* pkg/vector/http_embedder.go: batches of texts are embedded by a remote  *)
(* service, in chunks, with retries, by several callers of one embedder.   *)
(*                                                                         *)
(* A call numbers its texts 1, 2, ..  A vector is the number of the text   *)
(* it embeds and its length.  The service answers with any status and any  *)
(* list of items; it labels an item with the index, counted from 0, of the *)
(* text in the request that the item's vector embeds.  Sorting, checking   *)
(* and decoding an answer use no shared state, so they are one step with   *)
(* its arrival; checkDims, under the mutex, is a step of its own.          *)
(***************************************************************************)
EXTENDS Integers, SequencesExt

CONSTANTS
  Caller,    \* goroutines
  MaxTexts,  \* bound: texts of a call
  MaxBatch,  \* the values of WithMaxBatch, 0 for none
  Retries,   \* the values of WithRetry
  Length,    \* lengths of vectors in answers
  Declared,  \* dimensions callers declare, 0 for none
  MaxExtra,  \* bound: items in an answer beyond those asked for
  Nil

ASSUME BoundAssumption == MaxTexts \in Nat /\ MaxExtra \in Nat
ASSUME OptionAssumption == MaxBatch \subseteq Nat /\ Retries \subseteq Nat
ASSUME LengthAssumption == Length \subseteq Nat /\ Declared \subseteq Nat
ASSUME NilAssumption == Nil \notin Nat

VARIABLES
  maxBatch, retries, \* options of the embedder
  dims,      \* the embedder's dimension, 0 until it is known
  pc,        \* caller -> "idle", "send", "check" or "backoff"
  texts,     \* caller -> number of texts in its call
  cancelled, \* caller -> the context of its call is done
  attempt,   \* caller -> attempts made for the current chunk
  part,      \* caller -> the vectors of a well-formed answer
  out,       \* caller -> the vectors of its chunks so far, then its result
  ret        \* caller -> "none", "ok" or "err"

options == <<maxBatch, retries>>
vars == <<options, dims, pc, texts, cancelled, attempt, part, out, ret>>

Vector == [of : 1 .. MaxTexts, len : Length]
Smaller(a, b) == IF a < b THEN a ELSE b

Chunked(t) == maxBatch > 0 /\ maxBatch < texts[t]

\* How many texts the current request has; they follow those in out.
Wanted(t) ==
  IF Chunked(t) THEN Smaller(maxBatch, texts[t] - Len(out[t])) ELSE texts[t]

-----------------------------------------------------------------------------
(* Answers. *)

\* An item of an answer for n texts, the first of which is text number i + 1.
Item(i, n) ==
  {[index |-> k, of |-> IF k < n THEN i + k + 1 ELSE Nil, len |-> l] :
     k \in 0 .. n, l \in Length}

Items(i, n) == UNION {TupleOf(Item(i, n), m) : m \in 0 .. n + MaxExtra}

IsPermutation(d) == \A i \in DOMAIN d : \E j \in DOMAIN d : d[j].index = i - 1

\* Mutant of SameLength: not checked.
AnyLength(d) == TRUE

SameLength(d) == \A i \in DOMAIN d : d[i].len = d[1].len

\* An answer embedOnce accepts, but for its dimension.
WellFormed(d, n) == Len(d) = n /\ IsPermutation(d) /\ SameLength(d)

Embedded(item) == [of |-> item.of, len |-> item.len]

\* Mutant of InOrder: the order of the list is taken for that of the texts.
AsListed(d) == [i \in DOMAIN d |-> Embedded(d[i])]

\* The vectors of a well-formed answer, sorted by index.
InOrder(d) ==
  [i \in DOMAIN d |-> Embedded(CHOOSE item \in ToSet(d) : item.index = i - 1)]

-----------------------------------------------------------------------------
(* A call. *)

Call(t) ==
  /\ pc[t] = "idle"
  /\ \E n \in 0 .. MaxTexts :
       /\ texts' = [texts EXCEPT ![t] = n]
       /\ pc' = [pc EXCEPT ![t] = IF n = 0 THEN "idle" ELSE "send"]
       /\ ret' = [ret EXCEPT ![t] = IF n = 0 THEN "ok" ELSE "none"]
  /\ cancelled' = [cancelled EXCEPT ![t] = FALSE]
  /\ out' = [out EXCEPT ![t] = <<>>]
  /\ UNCHANGED <<options, dims, attempt, part>>

\* The context of a running call ends.
Cancel(t) ==
  /\ pc[t] # "idle" /\ ~cancelled[t]
  /\ cancelled' = [cancelled EXCEPT ![t] = TRUE]
  /\ UNCHANGED <<options, dims, pc, texts, attempt, part, out, ret>>

\* The call returns nil and an error, whatever earlier chunks brought.
Fail(t) ==
  /\ pc' = [pc EXCEPT ![t] = "idle"]
  /\ ret' = [ret EXCEPT ![t] = "err"]
  /\ out' = [out EXCEPT ![t] = <<>>]
  /\ attempt' = [attempt EXCEPT ![t] = 0]
  /\ part' = [part EXCEPT ![t] = <<>>]
  /\ UNCHANGED <<options, dims, texts, cancelled>>

\* Mutant of Again: off by one.
AgainOnceMore(t) == attempt[t] <= retries

Again(t) == attempt[t] < retries

\* Mutant of NextAttempt: attempts are not counted.
SameAttempt(t) == attempt[t]

NextAttempt(t) == attempt[t] + 1

BackOff(t) ==
  /\ Again(t)
  /\ pc' = [pc EXCEPT ![t] = "backoff"]
  /\ attempt' = [attempt EXCEPT ![t] = NextAttempt(t)]
  /\ UNCHANGED <<options, dims, texts, cancelled, part, out, ret>>

\* client.Do fails: no connection, a timeout, a cancelled context.
Unanswered(t) ==
  /\ pc[t] = "send"
  /\ BackOff(t) \/ (~Again(t) /\ Fail(t))

\* The answer breaks off, or the context ends while it is read.
BrokenOff(t) == pc[t] = "send" /\ Fail(t)

\* Status 429 or 5xx.
Overloaded(t) ==
  /\ pc[t] = "send" /\ ~cancelled[t]
  /\ BackOff(t) \/ (~Again(t) /\ Fail(t))

\* Another status, an error message, or a body that is no answer, perhaps
\* because it was cut at the limit.
Refused(t) == pc[t] = "send" /\ ~cancelled[t] /\ Fail(t)

Answered(t) ==
  /\ pc[t] = "send" /\ ~cancelled[t]
  /\ \E d \in Items(Len(out[t]), Wanted(t)) :
       \/ /\ WellFormed(d, Wanted(t))
          /\ part' = [part EXCEPT ![t] = InOrder(d)]
          /\ pc' = [pc EXCEPT ![t] = "check"]
          /\ UNCHANGED <<options, dims, texts, cancelled, attempt, out, ret>>
       \/ ~WellFormed(d, Wanted(t)) /\ Fail(t)

\* The timer fires; if the context has ended as well, either may win.
Resume(t) ==
  /\ pc[t] = "backoff"
  /\ pc' = [pc EXCEPT ![t] = "send"]
  /\ UNCHANGED <<options, dims, texts, cancelled, attempt, part, out, ret>>

GiveUp(t) == pc[t] = "backoff" /\ cancelled[t] /\ Fail(t)

\* Mutant of DimsFor: the latest answer decides.
DimsOfLatest(got) == got

\* The embedder's dimension when vectors of length got arrive.
DimsFor(got) == IF dims = 0 THEN got ELSE dims

\* checkDims, and then the next chunk or the result.
CheckDims(t) ==
  LET got == part[t][1].len
      all == out[t] \o part[t]
      complete == Len(all) = texts[t]
  IN  /\ pc[t] = "check"
      /\ \/ /\ got # 0 /\ DimsFor(got) = got
            /\ dims' = DimsFor(got)
            /\ out' = [out EXCEPT ![t] = all]
            /\ pc' = [pc EXCEPT ![t] = IF complete THEN "idle" ELSE "send"]
            /\ ret' = [ret EXCEPT ![t] = IF complete THEN "ok" ELSE "none"]
            /\ attempt' = [attempt EXCEPT ![t] = 0]
            /\ part' = [part EXCEPT ![t] = <<>>]
            /\ UNCHANGED <<options, texts, cancelled>>
         \/ ~(got # 0 /\ DimsFor(got) = got) /\ Fail(t)

-----------------------------------------------------------------------------
Init ==
  /\ maxBatch \in MaxBatch /\ retries \in Retries
  /\ dims \in Declared
  /\ pc = [t \in Caller |-> "idle"]
  /\ texts = [t \in Caller |-> 0]
  /\ cancelled = [t \in Caller |-> FALSE]
  /\ attempt = [t \in Caller |-> 0]
  /\ part = [t \in Caller |-> <<>>]
  /\ out = [t \in Caller |-> <<>>]
  /\ ret = [t \in Caller |-> "none"]

\* A request ends, with an answer or by the client's timeout.
Respond(t) == Unanswered(t) \/ BrokenOff(t) \/ Overloaded(t) \/ Refused(t) \/ Answered(t)

\* The call goes on.
Proceed(t) == Respond(t) \/ Resume(t) \/ GiveUp(t) \/ CheckDims(t)

Next == \E t \in Caller : Call(t) \/ Cancel(t) \/ Proceed(t)

\* Goroutines run, timers fire and requests time out.
Fairness == \A t \in Caller : WF_vars(Proceed(t))

Spec == Init /\ [][Next]_vars /\ Fairness

-----------------------------------------------------------------------------
(* Properties. *)

TypeOK ==
  /\ maxBatch \in MaxBatch /\ retries \in Retries
  /\ dims \in Nat
  /\ pc \in [Caller -> {"idle", "send", "check", "backoff"}]
  /\ texts \in [Caller -> 0 .. MaxTexts]
  /\ cancelled \in [Caller -> BOOLEAN]
  /\ attempt \in [Caller -> 0 .. retries]
  /\ part \in [Caller -> Seq(Vector)]
  /\ out \in [Caller -> Seq(Vector)]
  /\ ret \in [Caller -> {"none", "ok", "err"}]

\* A call that succeeds returns for every text, in order, the vector the
\* service computed for that text, whatever the order of the items, the
\* chunks and the retries (embedOnce, EmbedBatchContext).
VectorsMatchTexts ==
  \A t \in Caller : ret[t] = "ok" =>
    Len(out[t]) = texts[t] /\ \A i \in DOMAIN out[t] : out[t][i].of = i

\* All vectors any caller has got from an embedder have the embedder's
\* dimension, also when it is inferred while several first calls run
\* (checkDims).
OneDimension ==
  \A t \in Caller : \A i \in DOMAIN out[t] : dims # 0 /\ out[t][i].len = dims

\* Every call returns, after finitely many attempts.
CallsReturn == \A t \in Caller : pc[t] = "send" ~> pc[t] = "idle"
=============================================================================
