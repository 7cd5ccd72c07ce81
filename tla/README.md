# go-vector: specifications and proofs

TLA+ models of go-vector, a library for vector search and text embedding, with TLC runs that
check them on small instances and TLAPS proofs of the main theorems for every instance.
`PROJECT.json` ties every definition to the lines it models and lists the runs, the hazards,
the disagreements found and the theorems.

    tlc -config Store_rows.cfg MCStore     # a run: its configuration and module
    tlapm Store_proofs.tla                 # the proofs of a module

## 1. The system

| Component | Source | State | Operations | What makes it correct |
|---|---|---|---|---|
| Store | `store.go` | four parallel slices (ids, vectors, norms, metadata), `byID`, one packed backing array that the slices alias | Add, AddUnique, Upsert, Remove, SetMeta, Clear, Get, Meta, Has | slices stay parallel; a slice reads its own row; `byID` leads to a row of the id; an operation touches no other id |
| Search | `store_search.go` | per call: a bounded heap, sequential or one per worker | Search and variants, options | the k nearest, in order, whatever the workers' interleaving |
| Persistence | `store_persist.go` | a file, a temporary file | Save, SaveAtomic, SaveJSON, Load, LoadJSON | a load gives back what was saved; SaveAtomic never leaves a torn file |
| LockedStore | `locked_store.go` | an `RWMutex` over a Store | every method of Store | calls are atomic, return, and do not lock each other out |
| HTTPEmbedder | `http_embedder.go` | the dimension, under a mutex | EmbedBatch and variants, Dims | text i gets the vector of text i; one dimension; calls end |
| HNSW index | `pkg/hnsw` | a layered graph, entry, top layer | Add, Search, Save, Load | degrees, entry, search results and termination |
| RandomProjections | `random_projections.go`, `rp_persistence.go` | the options, a vocabulary and its inverse, rows of a random matrix, weights | Fit, FitMore, Embed, SaveEmbedder, LoadEmbedder | FitMore equals one Fit; known texts keep their embeddings; a loaded embedder continues as the saved one |
| Int8Store | `pkg/quantize` | ids, int8 data, scales, dims | Add, Search | row offsets and data agree |
| ONNX embedder | `pkg/onnx/embedder.go` | the process-wide runtime, its mutex and flag, a session, the dimension | New, EmbedBatch, Close | initialised once, with the library that was named, whatever fails; a text in a batch gets the vector it gets alone |
| Tokenizer | `pkg/onnx/tokenizer.go` | a vocabulary | loadVocab, encode | longest match, cut to maxLen inside its frame |
| Arithmetic | `vector.go`, `similarity.go` | none | metrics | numerical |
| Commands | `cmd/` | none of their own | calls of the library | - |

How they interact: a LockedStore calls the Store under its lock, and search and save under
the read lock; a predicate passed to a search and a writer passed to `WriteTo` run inside that
lock, a reader passed to `ReadFrom` inside the write lock, and any of them may call back. A
search reads the slices the other operations rewrite. Save and Load go through the file
system, where another process, a failing call or a power failure may come between any two
calls. An HTTPEmbedder talks to a service that may answer anything. An ONNX embedder uses the
tokenizer, and its `New` shares one runtime with every other in the process. Store, Index,
Int8Store and RandomProjections have no lock.

What is hard: the aliasing of slices into an array that grows, is compacted and is dropped;
an index that must follow swaps; sifts of a heap that are right by accident when k >= n; the
order of write, sync and rename; the two locks of a writer against code that calls again;
concurrent inference of a dimension, retries and chunks; pruning of a directed graph that
decides what later searches can reach; a pseudo-random stream that must be continued where it
stopped, across files of two formats; a flag and a path that belong to the process; batches
that are padded to one rectangle and cut again.

## 2. Modules

| Module | Models | Used by |
|---|---|---|
| `Store` | the store, its aliasing, and what a file holds | `StoreAsBag` |
| `RowBag` | what a store promises: a bag of rows, one distinguished per id | `StoreAsBag`, as the refinement's target |
| `StoreAsBag` | the refinement mapping from `Store` to `RowBag` | `MCStore`, `Store_proofs` |
| `FileSave` | Save, SaveAtomic and Load, one system call at a time | `MCFileSave` |
| `TopK` | one search, sequential or parallel, one sift step at a time | `MCTopK`, `TopK_proofs` |
| `LockedStore` | goroutines calling a LockedStore, with the steps of `sync.RWMutex` | `LockedStore_proofs` |
| `AtomicStore` | what it promises: every method at one instant | `LockedStore`, as the refinement's target |
| `HTTPEmbedder` | callers of one embedder and a service that answers anything | `MCHTTPEmbedder` |
| `HNSW` | the graph, its files and its searches, one round of a loop at a time | `MCHNSW`, `HNSW_proofs` |
| `RandomProjections` | an embedder that learns, one token at a time, is saved and loaded | `MCRandomProjections`, `RandomProjections_proofs` |
| `WordPiece` | the tokenizer as operators on a text, and a reference for them | `OnnxEmbedder` |
| `OnnxEmbedder` | goroutines that initialise the runtime, open embedders and embed batches | `MCOnnxEmbedder`, `OnnxEmbedder_proofs` |
| `Int8Store` | vectors packed as bytes, and the rows a search reads | `MCInt8Store` |

`X_proofs` holds the theorems about `X`: `Store`, `TopK`, `LockedStore`, `FileSave`,
`HTTPEmbedder`, `HNSW`, `OnnxEmbedder` and `RandomProjections` have one.

An `MC` module gives a specification its small sets; a `.cfg` names the constants, the
properties and the bounds. Definitions commented "Mutant of X" are X with a plausible bug;
no specification uses them. Each one replaces X to show that a property notices.

**Store.** A slice is either a window on a row of the current backing array or memory of its
own, so that a write to the array shows in exactly the windows it shows in in Go.
`AppendVector` has a disjunct for each layout (first vector, packed, jagged), as
`appendVector` does; `Remove` swaps in `ids`, `norms2`, `meta` and the array or the slices,
and `RepairByID` follows. Vectors are short sequences of integers; the only arithmetic is
the squared norm. `Save` stores what decoding the file would yield: gob turns nil maps
inside a slice into empty ones and JSON does not, hence `Format`. `Restore` recomputes the
index, the norms and the layout. `WithMetaEqual` and the other filters are an arbitrary set
of rows in `TopK`.

**FileSave.** A file is the sequence of chunks written to it, in the page cache (`data`,
`dir`) and on the disk (`flushed`, `diskDir`). The system may write back anything at any
time; after a crash an unflushed file keeps a prefix. Every call may fail. `Save` writes the
path in place; `SaveAtomic` writes `path+".tmp"`, syncs, closes and renames. `plain`
remembers that Save was used, for what is promised of SaveAtomic alone. SaveJSON and
LoadJSON make the same calls as Save and Load.

**TopK.** `heap`, `pos` and `upward` are the heap and the sift of a selector; the caller is
selector 0 and runs alone or after its workers. Scores are given and may be NaN, with which
every comparison is false; filters are an arbitrary set of rows. A huge k makes a parallel
search panic (`MaxCap`).

**LockedStore.** `Announce` and `Enter` are the two halves of `Lock`; a reader that comes
while a writer is announced waits until it has left, and then enters before the next one, as
in `sync.RWMutex`. Between lock and unlock a method looks up and then writes, or reads the
rows of one id after the other. Meanwhile it may run code of its caller (`CallOut`): a search
its predicate, `WriteTo` its writer, `ReadFrom` its reader, before it changes anything. That
code comes back (`ComeBack`), never does, or calls any method, reading or writing
(`CallAgain`), and a method called so may call out again. Calls that it leaves to other
goroutines and waits for, and those of the workers of one search, count as the goroutine's:
they wait for the same lock and hold it up in the same way. The methods on files are not told
apart from those on streams; their readers and writers just never call again.

**HTTPEmbedder.** A vector is the number of the text it embeds and its length. An answer is
any list of items with any indices, and the decoding and validation of an answer, which
share nothing, are one step; `CheckDims`, under the mutex, is another. The backoff ends or
the context does; if both have, either may win.

**HNSW.** A node is its position, its vector and a set of neighbours per layer. `Add` selects
on every layer (`Diverse`, then the closest leftovers), adds the reverse edges and prunes them
(`Pruned`), breaking ties in every way, because `sort.Slice` is not stable. Scores are integers
and so have an order; NaN is left out (`DistAssumption`), and what it would do to the
comparisons is not stated. A search descends (`Greedy`), expands (`Expand`) and stops
(`Finish`) as `greedy` and `bestFirst` do, a round at a time. Adding an id again or an empty
vector changes nothing and has no action.

**RandomProjections.** A row of the projection is its place in a stream of the generator
(`Drawn`), so that rows are equal exactly when the generator drew them at the same place from
the same seed. `Extended` passes over the rows drawn before, drops the hash rows and draws
them anew, as `extendProjection` does. Fit and FitMore take one step per document, n-gram
length and token, because what they leave when they are done depends on the order of first
occurrences. A vector is the map from the tokens of a text to the row and weight each
contributes. `Save` writes the fields; `SaveV1` is a file of the first format, which has no
options, written by an embedder with the defaults; `Restored` fills in what is missing.
`made`, `given`, `fitted`, `began` and `saved` are history and no action reads them but to
keep it; `MaxGiven` bounds what is learned.

**WordPiece.** Only the class of a character matters (`Class`: letter, space, a word by
itself, dropped), and its folding (`Folded`). A piece of the vocabulary is whether it
continues a word, and its characters. `Encode` follows the loops; `Encoding` is the
reference: the places to cut a word such that every piece is the longest there is, the pieces
of all words in a row, cut to `maxLen - 2`, in the frame. `Nil`, what `Greedy` gives for a word
that cannot be cut, is no sequence of numbers (`NilAssumption`).

**OnnxEmbedder.** `LockInit` to `Initialize` are the part of `New` under `initMu`, one call of
the binding a step; `Open` is the rest, with the choice of the output. `Found` is what
`resolveLibrary` may find on the machine. The model is a function of the ids that are not
masked, row by row, and it may fail or answer with another shape. `Array`, `RowStart` and
`Averaged` are the index arithmetic of padding and pooling. Close is called when nobody uses
the embedder, as its comment asks.

**Int8Store.** The scale is kept times 127, so that quantizing is exact but for the rounding to
a byte. A slice past the length of `data` reads `Nil`.

## 3. Runs

| Run | Shows | Distinct states |
|---|---|---|
| `Store_rows` | `PackedLayout`, `ScoredRowIsReturnedRow`, `IndexHitsOwnRow`, `OtherIdsUntouched`, and that Store implements `RowBag` | 47 000 |
| `FileSave_methods` | `PathIsWhole`, `DiskIsWhole`, `LoadIsOneSnapshot`, `PathChangesOnlyBySuccess`, `SavedWhenOk` | 386 000 |
| `TopK_search` | `RootIsWorst`, `ResultIsNearest`, `SearchReturns` | 1 612 000 |
| `LockedStore` | `NoRace`, `StuckOnlyInCallers`, `CallersWaitForever`, `CallsReturn`, that it implements `AtomicStore` | 326 000 |
| `HTTPEmbedder` | `VectorsMatchTexts`, `OneDimension`, `CallsReturn` | 66 000 |
| `HNSW_search` | `FullDegree`, `SmallIsExact`, `HitsAreLocallyBest`, `SearchReturns` | 993 000 |
| `RandomProjections` | `FitMoreIsOneFit`, `KnownTextsKeepEmbedding`, `WeightsOfLastFit`, `RefusedOnlyAfterFitMore` | 364 000 |
| `OnnxEmbedder` | `VectorsMatchTexts` (tokenizer, padding, masking and pooling), `NamedPathLoads`, `CallsReturn` | 8 000 |

`TypeOK` of each of these modules is checked too; that of HNSW contains `EntryIsTop`.

**Bounds and why they are enough.**

- `Store_rows`: three rows of two ids are the least for a removal to swap a row of another
  id, or a second row of the same id, into a hole with a row on either side; four vectors of
  lengths 0, 1 and 2 reach every layout and every change of layout. With a file in play
  there are at most two rows and two lengths (`MCFilesAreSmall`): what a load rebuilds
  depends on one row being like the others or not. The metric is saved and never changed
  otherwise, so it varies only there.
- `FileSave_methods`: two chunks give an empty, a partial and a whole file; three files are
  the one at the path, the one being written, and one that only the disk or a reader still
  holds. One save runs at a time; `FileSave_concurrent` shows why that matters. Once Save
  has been used, no Load overlaps: nothing is promised to one.
- `TopK_search`: five rows with k up to 4 give heaps of three levels, evictions, and sifts
  of two steps; three workers on five rows give spans of 2, 2 and 1; on four rows the third
  worker gets none. Two scores
  make some rows tie and others differ; ties are broken by row, so any five rows are in a
  strict order. NaN scores occur with up to four rows, where they reach the root, the middle
  and the leaves of a heap of three levels, and make a worker pass over a row that is nearer
  than one another worker keeps.
- `LockedStore`: two goroutines suffice for a lost update between any two methods and for
  every way to wait for each other, and one that keeps calling for the other to starve if
  readers were let past a waiting writer. Two ids and two rows of one let a search see a row
  of before and one of after a write, and Remove leave a duplicate. Save is left out of the
  run: it takes the same steps as Search. Code of a caller may have two reading methods
  running, one inside the other (`Depth`), in which a goroutine has three read locks. The
  proofs are about every method, any number of goroutines and any depth.
- `HTTPEmbedder`: three texts in chunks of one or two give full and partial chunks; one
  retry gives a first and a last attempt; two callers race for the dimension; answers have
  up to one item too many, an index out of range, and lengths 0, 1 and 2.
- `HNSW_search`: M is 2, the least that works, so layer 0 has room for four: six nodes are
  pruned there, and four nodes with layer 1 are pruned on that. Nodes and lists together are
  at most 13, so that both occur without occurring at once; no vector occurs more than
  twice; EfSearch is 1, the hardest to be right with; queries are a stored point and one
  midway between two others.
- `RandomProjections`: the four embedders are the default one, one with a zero seed and hash
  buckets, one with bigrams, weights and a bucket, and one without a dimension. The five
  corpora have an empty list and an empty document, a token that is only too short for some,
  repeated tokens within and across documents, and new tokens after known ones. An embedder
  that was given three tokens is given no more by FitMore: enough for a Fit and two FitMores
  that learn something, with a file written at any point between them and loaded at any later
  one.
- `OnnxEmbedder`: two goroutines race for the initialisation with a path that loads, one that
  does not, or none. The texts have words of one to three pieces, unknown and too long ones,
  dropped characters; `maxLen` of 3, 4 and 6 cuts between words, inside a word, and not at
  all; batches have rows of equal and of different lengths; models pool or leave it to the
  caller, and declare their size or not.

**Disagreements with the documentation** (runs that end in a counterexample).

- `FileSave_concurrent`: two `SaveAtomic` calls to one path, which `LockedStore` allows,
  share the temporary file; one renames what the other has just truncated.
- `HNSW_stranded`: a far sixth node is pruned from every list it was just added to, and no
  search returns it, not even for its own vector.
- `RandomProjections_unloadable`: FitMore leaves the weights of the last Fit, and a file with
  fewer weights than tokens is refused: SaveEmbedder reports success and the embedder is lost.
- `Int8Store_empty_first`: an empty first vector leaves `dims` at 0, the next one sets it, and
  from then on a row is read where another lies.

Seen and not stated as runs:

- `byID` is not "id → first index" (store.go:42), nor do Get and the others "act on the first
  matching id" (28-29), after a removal has moved a later duplicate to the front. A save and a
  load then change which of the two rows they act on.
- A predicate, or a writer given to `WriteTo`, that calls a writing method of the same
  LockedStore waits for ever, with no other goroutine around; one that calls a reading method
  does when a writer waits; a reader given to `ReadFrom` does whatever it calls. The comments
  do not say that it may not. `CallersWaitForever` says what comes of it.
- A NaN score at the root of a heap is never evicted, and nearer rows are passed over; below
  the root it hides a worse row from the sifts. `RootIsWorst` and `ResultIsNearest` say so, by
  excepting heaps, and searches with a heap, that keep a NaN. With workers the result may then
  lack a near row and have no NaN in it.
- A parallel search allocates room for k results and panics for a huge k; a sequential one
  does not.
- `WithMetaEqual` tests the metadata of every row, its comment speaks of the id's first match.
- `hnsw.New` says mismatched inserts are skipped and `Add` does not compare lengths; `WithM(1)`
  makes `Add` panic.
- `WithMinTokenLen` speaks of runes; the code compares bytes.
- SaveEmbedder truncates its file and writes in place, with no atomic variant.
- A `New` of the ONNX embedder without a path, after one that failed with a path, tries the
  failed path again if nothing else is found.
- README.md:88 names 429 and 5xx as what is retried, and transport errors are too.

**Fairness.** Safety needs none. `TopK`, `HNSW`: a running search goes on (the Go scheduler).
`HTTPEmbedder`: a request is answered or runs into the client's timeout (30 s by default),
timers fire, goroutines run; callers need not call and contexts need not end. `LockedStore`:
goroutines inside a call run, and the mutex between writers is strongly fair, which is what the
starvation mode of `sync.Mutex` gives; nobody is obliged to call. A method calls out at most
once for a row or a piece of its stream, so it goes on in the end if that code comes back
(`Proceed` is strongly fair); that it does come back is no fairness of the program but the
hypothesis of `CallsReturn`. `OnnxEmbedder`: a goroutine inside a call runs, the library and
the model answer, and `initMu` starves nobody. `Store`, `FileSave`, `RandomProjections` and
`Int8Store` have no liveness property: they act only when called.

## 4. Proofs

All for every value of the constants, under the named assumptions of the module that
declares them.

`Store_proofs`: `TypeCorrect`, `RowsStayAligned`, `NoStaleWindow`, `SearchSeesRows`,
`IndexSound`, `Isolation` and `StoreIsARowBag`. The assumptions say that vectors are sequences
of integers, the nil values differ from the others, and the bound is a number. No property is
inductive by itself: the windows are right after a removal only if the array has one row per
vector; `byID` can be repaired only if it was right about every other id; a load establishes
everything only if the file is well formed. `IInv` is the conjunction that is: `Layout`
(windows and array), `Index` (`byID`), `Parallel` (norms and metadata), the metric and
`FileOK`. There is a lemma for each helper of the code and the part of `IInv` it concerns, one
for each operation, and `NextIInv` puts them together. `Isolation` is an action property from
the same invariant.

`StoreIsARowBag` is the refinement of `RowBag`. Its mapping (`StoreAsBag`) reads the rows
through the slices (`Rows`, where nil and empty metadata are one), takes the bag of that
sequence, the row `byID` leads to as the distinguished one of an id, and the rows of the file
as what was saved. The lemma of each operation says what it does to `Rows`: `Add` appends,
`Upsert` and `SetMeta` replace one, `Remove` swaps the last into the hole, a load makes them
those of the file. What each of these does to the bag is shown by counting the places of a row
in a sequence (`BagOfAppend`, `BagOfExcept`); a removal needs no bijection between rows, for
the sequence with the hole filled is the shorter one with the last row appended again
(`BagOfSwapDelete`). That other ids keep their distinguished row while a row of theirs moves
is what `RepairByID` does to `byID` (`RemoveIndex`). An assumption says that nil is no saved
data.

`TopK_proofs`: `RootStaysWorst`, for any number of rows, workers and any k. The root is the
worst row only between sifts; the invariant says that during one every entry is no worse than
its parent but for the one at the position of the sift (`AlmostUp`, `AlmostDown`), and that the
entries under that position are no worse than the one above it. That a heap's root is its worst
row, an induction over the levels, is proved by the least entry that is worse than the root.

On top of it, `SearchIsExact` (`ResultIsNearest`) and `SearchTypes`. What
a selector keeps is the best k of the rows it has seen (`Chosen`), which a row appended, a root
replaced, a row turned down and an exchange in a sift each preserve; the last but one need that
the root is the worst. A selector with fewer than k rows has turned none down, because its
capacity is below k only when its span has no more rows than that (`Selects`). The spans cover
the rows and do not overlap, whatever the division leaves over (`SpansCover`, `SpansApart`), so
the merge sees each row once; and a row that a worker turned down lies behind k rows of that
worker, of which either the merge kept all or turned one down (`KeptOfAll`).

`LockedStore_proofs`: `CallsAreAtomic` (the refinement of `AtomicStore`), `WritersAreAlone`,
`TypeCorrect`, `OnlyCallersDeadlock` and `CallersNeverAdmitted`, for any number of goroutines,
ids and calls made by callers' code. `Inv` says which part of the lock each goroutine holds in
terms of where it is (`Holding`), that a writer inside is alone (`Alone`) and that what a
method has read is still so when it acts on it (`Fresh`), which is what the refinement needs:
the abstract step is `Write` for a writing method and `Finish` for a reading one; every other
step but the call and the return stutters. All steps into, in and out of a caller's code are
one lemma (`OutsideInv`): the locks of the method that called out stay held. From that, code
that waits for the lock is never admitted (`CallersNeverAdmitted`): a writer enters only when
nobody reads, and who it admits when it leaves has not called out. That the methods alone do
not deadlock needs that who waits outside is kept out by somebody inside (`KeptOut`).

`FileSave_proofs`: all five safety properties of the run, `AtomicPath`, `AtomicDisk`,
`OneSnapshot`, `NilMeansSaved` and `FailureChangesNothing`, and `TypeCorrect`, for any number
of chunks, files and snapshots, whatever calls and the power fail. The hypothesis of each is
`Exclusive`, one save at a time, without which `FileSave_concurrent` shows them false. That
the path is whole says nothing of the temporary file that becomes the path; `IInv` says what a
running save has written (`Progress`), that the temporary file is not the one at the path in
memory or on the disk (`Apart`), and what stays on the disk and with a reader (`Clean`).

`HTTPEmbedder_proofs`: `AnswersMatchTexts`, `DimensionIsOne` and `TypeCorrect`, for any number
of callers, texts, lengths and retries. The invariant says how far a call has come
(`Gathered`: the vectors so far are those of the first texts and have the embedder's
dimension) and what an answer that waits for `checkDims` holds (`Waiting`).

`HNSW_proofs`: `GraphInv` and from it `TypeCorrect`, `EntryStaysTop`, `DegreeStaysFull`,
`SmallSearchIsExact` and `SearchIsLocallyBest`, for any points, integer scores (no NaN,
`DistAssumption`), M, ef, k, layers and number of nodes. The invariant is `Graph` (lists are
full and stay on their layer, the entry is on top), the same of the file, and what a search
knows: what it enqueued holds the neighbours of all it expanded (`Around`), and when it is over
nothing enqueued is nearer than anything expanded (`Stopped`). A full list leaves no neighbour
of a small graph outside, which is why a search of one is exact. That insertion keeps lists
full needs that each of its three ways to choose (the diverse ones with the closest leftovers,
the pruned list, the reverse edges) takes as many as there is room for; the functions that
accumulate the choices are followed from their least counterexample.

`OnnxEmbedder_proofs`: `NamedPathIsLoaded`, `TypeCorrect` and `VectorsAreAlone`
(`VectorsMatchTexts`), for any number of goroutines, texts, vocabularies and models. The one
inside holds the mutex (`Guarded`), and what it set is still set when it initialises
(`PathIsSet`). What a vector is needs `Serving`: between its call and its answer a goroutine has
the encodings of its own texts, then cells that belong to them row by row (`CellsFor`); an
embedder is made only when none is in use. Three things about the operators carry it. `Encode`
equals the reference: `basicTokenize` gives words (`WordsType`), `wordPiece` finds the one way
to cut a word longest first or rightly says there is none (`GreedyCuts`, `WordPiecesAre`), and
appending word by word while there is room is appending all and cutting once (`ClipConcat`,
`EncodesIs`, `EncodeIs`). The array of a batch is read back where it was written (`DivMod`,
`CellAt`, `RowIs`). The mean covers the cells of one text (`AveragedIs`). The library's induction
theorems cannot be used, so a recursive function is shown to exist and to be what it stands for
by a least counterexample (`Least`, `Recursion`, `StaysIn`). `TextAssumption` says of which
sequences texts and vocabularies are made.

`RandomProjections_proofs`: `FitMoreIsAsFit`, `KnownTextsStay`, `TypeCorrect`,
`WeightsAreLastFits` and `OnlyFitMoreUnloadable`, for any options, texts, tokenizer and corpora.
The heart is `ExtendedIsOneFit` (passing over m rows and drawing n - m gives the rows of
drawing n) and `OneMoreToken` (a token taken keeps the vocabulary in the order of first
occurrences). The invariant says which rows an embedder at work still has (`WorkOK`) and that
the embedder in the file is as good as the one it was written from, its options being
restored to those it was made with (`FileOK`). For the known texts it also says that there are
no more weights than tokens known when FitMore began (`FewWeights`), because a weight past
those would fall on another row, and what the embeddings were in terms of the present state
(`BeganOK`). For the weights (`WeightsOK`) it says that the counts of a Fit at work are those of
the documents read and of the part of the one being read (`Counting`), and that the weights of an
embedder, and of the one in the file, are those of the documents of its last Fit (`Weighted`).

Only model-checked: all liveness, which is out of reach of the prover, like ENABLED.

## 5. What is not modelled

Floating-point arithmetic and metrics: TLC has integers; scores are given. `Rerank`,
`RecallAgainst`, `Hybrid`, `FromInt8` and `DotInt8`: stateless computations. Encoders: a
stream is whole or not. The shared library and the model of ONNX, the Unicode tables and the
generator of random numbers: external; a row is where it was drawn. Session options of ONNX
(threads, providers) and HTTP headers: they only make a call fail or not. The commands:
sequential calls and printing. Corrupt files: rejected by validation before anything is
assigned; the models load what the program wrote, or find it torn. Concurrent use of the
types without a lock: not promised.

## 6. What could come next

Composition: LockedStore's SaveAtomic with `FileSave`, to state what a caller must add to
make concurrent saves safe.
