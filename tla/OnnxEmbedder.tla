---------------------------- MODULE OnnxEmbedder ----------------------------
(***************************************************************************)
(* pkg/onnx/embedder.go: goroutines that open an embedding model, which    *)
(* initialises the ONNX Runtime of the process, and embed batches of texts *)
(* with one embedder at once.                                              *)
(*                                                                         *)
(* The library and the model are external.  The library loads from some    *)
(* paths; the model answers a batch with tensors of any shape, and what it *)
(* computes for a row depends on the ids of the row that are not masked.   *)
(* The hidden size of a vector is kept, its numbers are not: a cell stands *)
(* for the numbers of one token, or of one row when the model pools.       *)
(***************************************************************************)
EXTENDS WordPiece

CONSTANTS
  Thread,
  Path,     \* values of WithLibraryPath
  Found,    \* what resolveLibrary finds when no path is given: paths, and Nil
  Default,  \* the binding's own name for the library
  Usable,   \* the paths that load
  VocabFile, \* contents of vocabulary files, sequences of lines
  Model,    \* models: [outputs, hidden], see ModelAssumption
  Config,   \* options: [maxLen, lower, output, specials]
  Batch     \* arguments of EmbedBatch, sequences of texts

Output == [name : {"sentence_embedding", "last_hidden_state", "other"}, rank : 1 .. 4, dim : Int]

\* The model's declared outputs, and the hidden size of its answers.
ASSUME ModelAssumption ==
  \A m \in Model : m.outputs \in Seq(Output) /\ m.hidden \in Nat \ {0}
ASSUME ConfigAssumption ==
  \A c \in Config : c.maxLen \in Nat /\ c.maxLen > 2 /\ c.lower \in BOOLEAN /\ c.specials \in BOOLEAN
ASSUME TextAssumption ==
  /\ Batch \subseteq Seq(Seq(Char))
  /\ VocabFile \subseteq Seq([cont : BOOLEAN, chars : Seq(Char \cup {"[UNK]", "[CLS]", "[SEP]", "[PAD]"})])
ASSUME PathAssumption == Nil \notin Usable \cup {Default} \cup Thread

VARIABLES
  initMu,   \* the goroutine that holds it, or Nil
  initDone,
  libPath,  \* the binding: the path it was told, or Nil
  env,      \* the binding: the library it has loaded, or Nil
  pc,       \* goroutine -> where it is
  arg,      \* goroutine -> the argument of its call
  encoded,  \* goroutine -> the ids of its texts
  emb,      \* the embedder the goroutines share, or Nil
  dims,     \* its dimension
  answer,   \* goroutine -> what the model computed for its batch
  out,      \* goroutine -> the vectors of its last batch
  ret       \* goroutine -> "none", "ok" or "err"

runtime == <<initMu, initDone, libPath, env>>
vars == <<runtime, pc, arg, encoded, emb, dims, answer, out, ret>>

GoTo(t, l) == pc' = [pc EXCEPT ![t] = l]

Return(t, result) ==
  /\ GoTo(t, "idle")
  /\ ret' = [ret EXCEPT ![t] = result]
  /\ arg' = [arg EXCEPT ![t] = Nil]

-----------------------------------------------------------------------------
(* New. *)

CallNew(t) ==
  /\ pc[t] = "idle" /\ emb = Nil
  /\ \E p \in Path \cup {Nil} : arg' = [arg EXCEPT ![t] = p]
  /\ GoTo(t, "lock")
  /\ ret' = [ret EXCEPT ![t] = "none"]
  /\ out' = [out EXCEPT ![t] = <<>>]
  /\ UNCHANGED <<runtime, encoded, emb, dims, answer>>

\* Mutant of CanLock: the flag is read without the mutex.
CanLockAlways == TRUE

CanLock == initMu = Nil

LockInit(t) ==
  /\ pc[t] = "lock" /\ CanLock
  /\ initMu' = t
  /\ GoTo(t, "init")
  /\ UNCHANGED <<initDone, libPath, env, arg, encoded, emb, dims, answer, out, ret>>

AlreadyDone(t) ==
  /\ pc[t] = "init" /\ initDone
  /\ initMu' = Nil
  /\ GoTo(t, "open")
  /\ UNCHANGED <<initDone, libPath, env, arg, encoded, emb, dims, answer, out, ret>>

\* Mutant of Resolved: the installed library goes before the one named.
ResolvedInstalledFirst(p, found) == IF found # Nil THEN found ELSE p

Resolved(p, found) == IF p # Nil THEN p ELSE found

SetPath(t) ==
  /\ pc[t] = "init" /\ ~initDone
  /\ \E found \in Found :
       LET path == Resolved(arg[t], found)
       IN  libPath' = IF path # Nil THEN path ELSE libPath
  /\ GoTo(t, "env")
  /\ UNCHANGED <<initMu, initDone, env, arg, encoded, emb, dims, answer, out, ret>>

\* The library the binding would load now.
Library == IF libPath = Nil THEN Default ELSE libPath

\* Mutant of InitFails: the attempt is repeated, with the mutex held.
InitFailsRepeats(t) == GoTo(t, "init") /\ UNCHANGED <<initMu, arg, ret>>

InitFails(t) == Return(t, "err") /\ initMu' = Nil

\* InitializeEnvironment also fails when the library is loaded already.
Initialize(t) ==
  /\ pc[t] = "env"
  /\ \/ /\ env = Nil /\ Library \in Usable
        /\ env' = Library /\ initDone' = TRUE /\ initMu' = Nil
        /\ GoTo(t, "open")
        /\ UNCHANGED <<arg, ret>>
     \/ /\ env # Nil \/ Library \notin Usable
        /\ InitFails(t)
        /\ UNCHANGED <<env, initDone>>
  /\ UNCHANGED <<libPath, encoded, emb, dims, answer, out>>

Named(m, name) == SelectInSeq(m.outputs, LAMBDA o : o.name = name)

\* The output New chooses, 0 for none: the one asked for, else the first that
\* is pooled, else the last with token embeddings, else the first.
Chosen(m, name) ==
  LET last == SelectLastInSeq(m.outputs, LAMBDA o : o.name = "last_hidden_state")
  IN  CASE m.outputs = <<>> -> 0
        [] m.outputs # <<>> /\ name # Nil -> Named(m, name)
        [] m.outputs # <<>> /\ name = Nil /\ Named(m, "sentence_embedding") # 0 ->
             Named(m, "sentence_embedding")
        [] OTHER -> IF last # 0 THEN last ELSE 1

\* The rest of New.  The first embedder made is the one shared; a later one
\* is closed at once.
Open(t) ==
  /\ pc[t] = "open"
  /\ \/ /\ \E lines \in VocabFile, m \in Model, c \in Config :
             LET i == Chosen(m, c.output)
             IN  /\ Loadable(lines) /\ i # 0
                 /\ m.outputs[i].rank \in {2, 3}
                 /\ IF emb # Nil THEN UNCHANGED <<emb, dims>>
                    ELSE /\ emb' = [vocab |-> Vocab(lines), config |-> c, model |-> m,
                                    pooled |-> m.outputs[i].rank = 2]
                         /\ dims' = IF m.outputs[i].dim > 0 THEN m.outputs[i].dim ELSE 0
        /\ Return(t, "ok")
     \/ Return(t, "err") /\ UNCHANGED <<emb, dims>>
  /\ UNCHANGED <<runtime, encoded, answer, out>>

-----------------------------------------------------------------------------
(* EmbedBatch. *)

Ids(text) == Encode(text, emb.config.lower, emb.config.maxLen, emb.vocab)

CallEmbed(t) ==
  /\ pc[t] = "idle" /\ emb # Nil
  /\ out' = [out EXCEPT ![t] = <<>>]
  /\ \/ \E texts \in Batch :
          /\ texts # <<>>
          /\ arg' = [arg EXCEPT ![t] = texts]
          /\ encoded' = [encoded EXCEPT ![t] = [i \in DOMAIN texts |-> Ids(texts[i])]]
          /\ ret' = [ret EXCEPT ![t] = "none"]
          /\ GoTo(t, "run")
     \/ \E result \in {"ok", "err"} : Return(t, result) /\ UNCHANGED encoded   \* no texts; context done
  /\ UNCHANGED <<runtime, emb, dims, answer>>

\* The batch is one array, row after row, each padded to the longest.
SeqLen(encs) == LET lens == {Len(encs[i]) : i \in DOMAIN encs} IN Longest(lens)

\* Mutant of Mask: the padding is not masked.
MaskNothing(enc, s) == [j \in 1 .. s |-> 1]

Mask(enc, s) == [j \in 1 .. s |-> IF j <= Len(enc) THEN 1 ELSE 0]

Padded(enc, s) == [j \in 1 .. s |-> IF j <= Len(enc) THEN enc[j] ELSE emb.vocab[PAD]]

Array(rows, s) == [c \in 1 .. Len(rows) * s |-> rows[((c - 1) \div s) + 1][((c - 1) % s) + 1]]

\* The model: the cells of a batch of n rows of s ids.
Computed(ids, masks, n, s) ==
  LET Row(i) == [j \in {k \in 1 .. s : masks[(i - 1) * s + k] = 1} |-> ids[(i - 1) * s + j]]
  IN  IF emb.pooled THEN [i \in 1 .. n |-> [row |-> Row(i), at |-> 0]]
      ELSE [c \in 1 .. n * s |-> [row |-> Row(((c - 1) \div s) + 1), at |-> ((c - 1) % s) + 1]]

\* The tensors and the run: they fail, the shape is not the one expected, or
\* the cells are as many as that says.
Run(t) ==
  LET encs  == encoded[t]
      s     == SeqLen(encs)
      ids   == Array([i \in DOMAIN encs |-> Padded(encs[i], s)], s)
      masks == Array([i \in DOMAIN encs |-> Mask(encs[i], s)], s)
  IN  /\ pc[t] = "run"
      /\ \/ /\ answer' = [answer EXCEPT ![t] = Computed(ids, masks, Len(encs), s)]
            /\ GoTo(t, "pool")
            /\ UNCHANGED <<arg, encoded, ret>>
         \/ /\ Return(t, "err")
            /\ encoded' = [encoded EXCEPT ![t] = <<>>]
            /\ UNCHANGED answer
      /\ UNCHANGED <<runtime, emb, dims, out>>

\* Mutant of RowStart: rows are as long as their texts.
RowStartTight(encs, i) == (i - 1) * Len(encs[i])

\* How many cells come before row i.
RowStart(encs, i) == (i - 1) * SeqLen(encs)

\* The cells of the answer that are averaged for text i.
Averaged(encs, i, cells) ==
  LET n     == Len(encs[i])
      inner == emb.config.specials /\ n > 2
  IN  IF emb.pooled THEN {cells[i]}
      ELSE {cells[RowStart(encs, i) + j] : j \in (IF inner THEN 2 .. n - 1 ELSE 1 .. n)}

Pool(t) ==
  /\ pc[t] = "pool"
  /\ dims' = emb.model.hidden
  /\ out' = [out EXCEPT ![t] = [i \in DOMAIN arg[t] |-> Averaged(encoded[t], i, answer[t])]]
  /\ answer' = [answer EXCEPT ![t] = <<>>]
  /\ encoded' = [encoded EXCEPT ![t] = <<>>]
  /\ GoTo(t, "idle")
  /\ ret' = [ret EXCEPT ![t] = "ok"]
  /\ UNCHANGED <<runtime, arg, emb>>

\* The embedder must not be in use, nor be used afterwards.
Close ==
  /\ emb # Nil /\ \A t \in Thread : pc[t] = "idle"
  /\ emb' = Nil /\ dims' = 0
  /\ arg' = [t \in Thread |-> Nil]
  /\ encoded' = [t \in Thread |-> <<>>]
  /\ out' = [t \in Thread |-> <<>>]
  /\ ret' = [t \in Thread |-> "none"]
  /\ UNCHANGED <<runtime, pc, answer>>

-----------------------------------------------------------------------------
Init ==
  /\ initMu = Nil /\ initDone = FALSE /\ libPath = Nil /\ env = Nil
  /\ pc = [t \in Thread |-> "idle"]
  /\ arg = [t \in Thread |-> Nil]
  /\ emb = Nil /\ dims = 0
  /\ encoded = [t \in Thread |-> <<>>]
  /\ answer = [t \in Thread |-> <<>>]
  /\ out = [t \in Thread |-> <<>>]
  /\ ret = [t \in Thread |-> "none"]

\* What a goroutine does once it has called.
Proceed(t) ==
  \/ AlreadyDone(t) \/ SetPath(t) \/ Initialize(t) \/ Open(t) \/ Run(t) \/ Pool(t)

Next == (\E t \in Thread : CallNew(t) \/ LockInit(t) \/ CallEmbed(t) \/ Proceed(t)) \/ Close

\* Goroutines run, the library and the model answer, the mutex starves nobody.
Fairness == \A t \in Thread : WF_vars(Proceed(t)) /\ SF_vars(LockInit(t))

Spec == Init /\ [][Next]_vars /\ Fairness

-----------------------------------------------------------------------------
(* Properties. *)

\* The mutex is held exactly by the goroutine that initialises, and the flag
\* says whether the library is loaded.
TypeOK ==
  /\ initMu \in Thread \cup {Nil}
  /\ \A t \in Thread : (initMu = t) = (pc[t] \in {"init", "env"})
  /\ initDone \in BOOLEAN /\ initDone = (env # Nil)
  /\ libPath \in Path \cup Found \cup {Nil} /\ env \in Usable \cup {Nil}
  /\ pc \in [Thread -> {"idle", "lock", "init", "env", "open", "run", "pool"}]
  /\ dims \in Nat
  /\ ret \in [Thread -> {"none", "ok", "err"}]

\* What a text by itself gives: the average over the tokens of its encoding,
\* all of them or all but the frame.
Alone(text) ==
  LET enc == Encoding(text, emb.config.lower, emb.config.maxLen, emb.vocab)
      n   == Len(enc)
  IN  IF emb.pooled THEN {[row |-> enc, at |-> 0]}
      ELSE {[row |-> enc, at |-> j] :
              j \in (IF emb.config.specials /\ n > 2 THEN 2 .. n - 1 ELSE 1 .. n)}

\* A batch gives every text the vector it gets alone, from its own encoding,
\* whatever the others' lengths and whoever else embeds (embedder.go:333-335
\* and tokenizer.go:81-82).
VectorsMatchTexts ==
  \A t \in Thread :
    out[t] # <<>> => out[t] = [i \in DOMAIN arg[t] |-> Alone(arg[t][i])]

\* When a New initialises the runtime with a path, the library at that path is
\* what it tries to load, and it is loaded if it can be: no other New comes
\* between, and the path that a failed attempt left set gives way to its own
\* (embedder.go:131-133).  A New without a path may try that path once more.
NamedPathLoads ==
  [][\A t \in Thread :
       Initialize(t) /\ arg[t] # Nil => env' = IF arg[t] \in Usable THEN arg[t] ELSE Nil]_vars

\* Every call returns: the mutex is given back on every path.
CallsReturn == \A t \in Thread : pc[t] # "idle" ~> pc[t] = "idle"
=============================================================================
