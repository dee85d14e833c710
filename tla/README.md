# TLA+ models of go-ormql

go-ormql reads a GraphQL SDL schema, generates Go models and an augmented
schema, and at run time translates GraphQL requests to Cypher and runs them on
Neo4j or FalkorDB. This directory holds TLA+ modules for the parts of it whose
behaviour depends on order, interleaving and failure, the TLC runs that check
them on small instances, and TLAPS proofs for every instance.

    tlc -workers 2 -config FalkorTx.cfg MCFalkorTx     # one run; see "Runs"
    tlapm FalkorTxProofs.tla                           # one set of proofs

`PROJECT.json` lists the components, runs, the source lines each definition
models, the hazards, and the altered definitions (`X_Something` beside `X`,
marked "Altered") that show each property can fail. Nothing else in a module
uses an altered definition.

## Inventory

| Part | State | Operations | Talks to |
|---|---|---|---|
| Driver interface, `pkg/driver` | none | `Execute`, `ExecuteWrite`, `BeginTx`, `Close`; `Transaction`: `Execute`, `Commit`, `Rollback` | called by the client and by applications |
| Neo4j driver, `pkg/driver/neo4j` | `closed`, `mu`, `db` | the interface | the neo4j driver, a session per call |
| Neo4j transaction | `committed`, `mu`, the session, the explicit transaction | `Execute`, `Commit`, `Rollback` | `transactionRunner`, `sessionCloser` |
| FalkorDB driver, `pkg/driver/falkordb` | `closed`, `mu`, `db`, `graph` | the interface, `rewriteVectorQuery` | one go-redis client shared by all calls |
| FalkorDB transaction | `mu`, `committed`, `stmt`, `executed` | `Execute` (buffers), `Commit` (sends), `Rollback` (discards) | `graphRunner` |
| Client, `pkg/client` | `closed`, `mu`, `batchSize` | `Execute`, `ExecuteRaw`, `ExecuteRawBatch`, `Close` | translator, driver |
| Chunking, `pkg/client/chunk.go` | none | `chunkParams`, `buildChunkPlan`, `aggregateResults` | client |
| Translator, `pkg/translate` | parameter scopes, counters; through its statements, the graph | `Translate` to a plan: write statements, then a read | schema model |
| Cypher builder, `pkg/cypher` | a parameter counter | clauses to text | - |
| Schema, `pkg/schema` | the parsed model | `ParseSchema`, lookups | gqlparser |
| Code generation, `pkg/codegen` | the output directory | `Generate`, `CreateIndexes` | file system, driver |
| Command line, string helpers, example | none | - | - |

What is hard here, and what would make it right:

- *Transactions* are shared between goroutines, and both implementations test
  their `committed` flag in one critical section and act in a later one.
  FalkorDB has no transactions: the class buffers one statement and sends it at
  `Commit`, and a reply that times out leaves open whether it ran. Right means:
  what was accepted reaches the database all together, once, at `Commit`, and
  not at all after `Rollback`; every call returns; the session is released once.
- *The driver's Close* races the calls under way: `checkClosed` releases the
  mutex before the connection is used. Right means: the connection is closed
  once, and a closed driver lets at most the statements already admitted through.
- *The client* turns one request into several statements, each committed by
  itself. Right means: the statements run in order, none after a failure; every
  list arrives whole; the chunk number in the error says what is in the
  database; the joined answer is the answer of the request that was not split.
- *The translator* names parameters, variables and aliases as it walks a request.
  Right means: the parts of a request never share a parameter by accident, and a
  projection only mentions what is in scope.
- *What a mutation does to the graph* comes about in several statements per chunk,
  each of many blocks, beside those of other callers, and again after an error.
  Right means: a filter selects the nodes it is true of; an update or delete
  touches no others; items with one key end up as one node with the values of an
  upsert item by item; no edge is doubled or points the wrong way; a connect finds
  what was merged before it; every item is in the answer once.
- *Code generation* deletes its previous output before it knows that it can
  write the next, and writes the schema and the Go types with two generators.
  Right means: what compiles is of one run; a run that works leaves its own files
  and no others; the client starts on the schema and encodes what it takes; when
  `CreateIndexes` returns nil the indexes are there.

## Modules

| Module | Models | Notes |
|---|---|---|
| `TxContract` | what `driver.Transaction` promises | abstract specification, three actions |
| `FalkorTx` | `falkordbTransaction` | one action per critical section of `Execute`, `Commit`, `Rollback` |
| `Neo4jTx` | `neo4jTransaction` | the same methods over an external explicit transaction |
| `Driver` | closed flag, mutex and connection of both drivers | actions of one process inside the driver; no `Next` of its own |
| `Chunking` | `chunk.go` and the slicing in `ExecuteRawBatch` | operators, no state |
| `Client` | `client.go` over `Driver` and `Chunking` | composition |
| `Translation` | the walk of `Translator.Translate` over a request | names only: parameters, variables, aliases |
| `PropertyGraph` | the graph, relationship patterns, `buildWhereClause` | operators over `nodes` and `edges` |
| `Mutations` | what the statements of a mutation do, over `PropertyGraph` and `Chunking` | composition: callers, chunks, statements, blocks |
| `GraphSchema` | `ParseSchema`: directives, and the graph model | operators |
| `Augmentation`, `GoModels` | the declarations of the augmented schema and of the Go models | operators over a graph model |
| `Generation` | `Generate`, `go build`, `NewClient`, `CreateIndexes` | composition with the three modules above |
| `FalkorTxProofs`, `Neo4jTxProofs`, `TranslationProofs`, `ChunkingProofs`, `ClientProofs`, `ClientCallProofs`, `MutationsProofs`, `GenerationProofs` | - | the theorems |
| `MCFalkorTx`, `MCNeo4jTx`, `MCClient`, `MCTranslation`, `MCMutations`, `MCGeneration` | - | instances for TLC |

**FalkorTx.** `mu`, `committed`, `stmt` and `executed` are the fields. A
goroutine is at `pc[t]`: past the check of `Execute`, `Commit` or `Rollback`, or
inside `graph.Query` with the mutex. `isCommitted` is the guard
`IsCommitted(_)` of the first action of each method; the second critical section
is the second action (`ExecuteSecond`/`ExecuteBuffer`,
`CommitEmpty`/`CommitSend`, `RollbackDiscard`). `graph.Query` has three
outcomes: `CommitApplied`, `CommitFailed`, and `CommitReplyLost`, where the
database ran the statement and go-redis reports a timeout. `DriverCloses` closes
the connection behind a live transaction, after which only `CommitFailed` is
left. `accepted`, `outcome` and `appliedBy` are history.

**Neo4jTx.** No method holds the mutex while it calls out, so a critical section
and the point it leads to are one action. `Commit` is `CommitCheck`, then one of
`TxCommitOK`, `TxCommitError`, `TxCommitReplyLost`, and after the first
`CommitMark` and `SessionClose`; the error paths return before the session is
closed, as the code does. The explicit transaction is external: `utx` is active,
failed by a statement, or ended; it ends once and answers an error from then on.
Statements are told apart by call, so `accepted` says which calls succeeded.

**Driver.** `at[p]` is where a process is: `entered` (before `checkClosed`),
`admitted` (past it, the statement may reach the connection), `closing` (before
the mutex in `Close`), `dbclose` (inside `db.Close`, with the mutex). The flag is
set before `db.Close`, and `db.Close` may fail, so `CloseEnd` leaves `dbOpen`
either way.

**Chunking and Client.** A Go `any` is a record whose `kind` is what the code's
type switches see; a parameter map is a function from names to such values. A
request that was translated is `[mode, itemwise, plan]`, `mode` being the choice
between `Execute` and `ExecuteWrite` for the read statement; `itemwise` only
serves the properties (its lists are lists of input items, as opposed to a list
that is one value). `Execute`, `ExecuteRaw` and `ExecuteRawBatch` set up a `Job`
with its chunk plans; `Proceed` takes one driver call through `Driver`'s actions;
`Advance` goes to the next write, to the read, to the next chunk, or returns.
`Answer(_)` is what the database returns for a statement. `mergeValue` calls
itself for nested maps; it is unrolled to the depth answers have (a field of
`data`, and `pageInfo` or counters below it).

**Translation.** The request is not built in advance: an action is the
translator's meeting the next field, with any arguments it may have. `stack` holds
the calls of `buildProjection` under way, one frame each with the variable and
depth of its `fieldContext`, the aliases its blocks have bound (`bound`) and those
its projection mentions (`used`). `RootList`, `RootConnection`, `RootSimilar`,
`Create`, `Update`, `Delete`, `Merge` and `Connect` are the root fields;
`SelectCypher`, `SelectSub` and `SelectConnection` the nested ones; `LeaveNested`
and `LeaveRoot` the returns, where the block is closed and it shows which of the
aliases in use are in scope (`Visible`). `Register` is `add` and `addNamed`:
`params` is the map, in which a later value replaces an earlier one under the same
name, and `placed` remembers every placeholder with the value it was written for.
A name is a pair, so `p3` is `<<"p", 3>>` and `conn1_offset` is
`<<"conn_offset", 1>>`; that a `@cypher` argument may itself be called `p0` is
excluded (`TranslationAssumption`). A `where` is the sequence of its predicates in
the order `buildWhereClause` meets them, at whatever depth of `AND`, `OR` and
`NOT`; `Exists` is a relationship filter, which takes a number and no parameter.
Scalar fields, the text of patterns, counts and page information are left out.

**PropertyGraph.** A node has a label and properties, `Null` where one is missing; an
edge is named by its ends, type and a copy number, so a second edge beside the
first would show. `BuildRelPattern` is `buildRelPattern`; `Candidates` is the look
at a field's name among `RelationshipsForNode`, which returns the relationships
that end at the type as well. A `where` argument is a tree; what becomes of its
clause is `Text` (none, broken, or some) and what the clause is at a node is
`Holds`, with Cypher's three truth values. A filter given as a variable has no
children, hence no clause. `IsWhere` is the shape of a filter, and `Applies` the types
whose input type for filters (`writeWhereInput`, `augment.go:153`) has what it asks
about: a filter of another type does not get past validation. A comparison is null where
either side is, so `year_not: null` selects nothing.

**Mutations.** One database statement runs at a time (`active`) and callers interleave
between statements, with one exception: merges of different callers. Neo4j's
transactions run side by side and see what has been committed when they look, and the
generator makes no uniqueness constraint (`indexes.go` writes vector indexes only), so a
`MERGE` may add a node with the keys of one that another caller's transaction has added
meanwhile. `unseen[c]` has the nodes that others have added, and committed, while a merge
of their type was the next write of `c`; `Merge` may overlook any of these. `met` remembers
the types for which this came up. (The other statements are serial: a `MERGE` of an edge
locks the nodes it joins, which it has matched. That an update or a delete of one caller
may read the properties its filter asks about before another's statement changes them is
left out.) A `merge` or `connect` field has a
write statement, one `Merge` or `Connect` step per item of the chunk; then the read
statement goes through the fields in the order of the request, one `CALL` block
each: `ReadMerged`, `CountConnected`, `Create`, `Update`, `Delete`, and for the last
but one kinds the nested blocks `NestedCreate` to `NestedDelete`. They run once for each
node bound to `n` (`table`), for one node in the order the translator writes them, the
nodes in any order (`todo`), so that a later node sees what the blocks of an earlier
one did; where they removed it, the statement fails (only `Fail` is left). `left` counts
the rows a block still runs for and `out` those it has returned, so a delete that
matches three nodes runs the blocks after it three times, and one that matches none
stops them. `IsField` says what GraphQL validation lets through as a field of a
mutation, `IsGraph` what a graph of the schema is. `before` is the graph the
database goes back to when the statement fails (`Fail`); `ReplyLost` keeps it and
tells the client of an error; `Resume` is the caller that takes the request up again
at the chunk the error names. `EndWrite` and `EndRead` are the loop of `Execute` and
`executeChunk`, with `aggregateResults` for the lengths of lists. The
IDs `randomUUID()` gives are the node's number. Keys of a `MERGE` come from the
first item of the request (`KeysOf`), as in the code; that a variable whose Go value is
no `[]any` of `map[string]any` makes it fall back on all fields (`merge.go:149`) is left
out, and so is all else about such values, which are not cut either.

A request is cut as `chunkParams` cuts it: every list among its parameters is, the items,
the values of an `in` or `nin` filter at whatever depth, and a list given for a property
in a nested operation or an update. `Lengths` has the lengths of all of them, `HasChunk`
says whether the longest has a further chunk, `Slice` is the chunk's part of the items,
and `WhereNow` and `NestedPart` what it has of a filter (`Cut`) and of a map of properties
(`CutMap`). A request that is not cut is its own first slice.

**GraphSchema, Augmentation, GoModels.** A document is what gqlparser has accepted:
types with their directives and fields. `ValidateDirectives` and `Model` are the
checks and the model; the parser's types come out of a Go map, so `Model` takes the
order as an argument and `Generation` every order. The schema and the Go models are
sequences of declarations, each with its fields, their types and, for Go, tags and
`omitempty`: what the two texts say, not how it is laid out. Names are put together
as the code does, so that two of them can clash. `LoadSchema` is what
`gqlparser.MustLoadSchema` needs (all names declared once, all types known),
`Declared` what the Go compiler needs. `strutil` is three constant operators.

**Generation.** `Generate` is `Generate(t)`, `Clean`, `Parse` and one
`WriteGeneratedFile` per file; `RunFails` ends it anywhere, in the middle of a file
included (`os.WriteFile` truncates first). `left` says that an old file could not be
removed, an error the code ignores. `Edit` changes the schema between runs, `Build`
is `go build` at any time. A process runs `NewClient` (`Start`; it panics on a
schema that does not load) and `CreateIndexes`: one statement after the other,
ended by the first error (`CreateIndexFails`, with or without effect). `Clean` removes
the old files in one step: a run killed half way through them has removed
`client_gen.go` first, and no program is built without it. On Neo4j
`IF NOT EXISTS` passes over an index of that name or that property; on FalkorDB the
generated code takes "already indexed" for success.

## Runs

| Run | Asks | Bounds |
|---|---|---|
| `FalkorTx` | `TypeOK`, `OneStatement`, `SentStatementIsStable`, `OncePerGoroutine`, `CallsReturn` | 3 goroutines, 2 statements, 1 lost reply, about 74,000 states |
| `FalkorTxSerial` | `ImplementsContract` for calls that do not overlap | 3 goroutines, 2 statements, no lost reply; symmetry |
| `FalkorTxShared` | violated: `CommitRunsAccepted` | no lost reply, calls overlap |
| `Neo4jTx` | `ImplementsContract` for all calls, `SessionClosedAfterEnd`, `SessionLeaksOnlyOnError`, `RollbackLeavesNothing`, `TypeOK` | 3 goroutines, 2 statements, 1 lost reply; symmetry |
| `Client` | `ConnectionClosedOnce`, `DeliveryIsPrefix`, `ListsArriveWhole`, `MutationAnswerIsWhole`, `ErrorNamesResumePoint`, `CloseCutsOff`, `CancelStopsBatch`, `CallsReturn`, `TypeOK` | 1 caller, 2 closers, batch size 2, lists of 1 to 5, 1 lost reply, about 13,600 states |
| `ClientQueryChunked` | violated: `QueryAnswerIsWhole` | 1 caller, 1 closer |
| `Translation` | `ParametersKept`, `VariablesDistinct`, `AliasesDistinct`, `PlainProjectionsBound`, `TypeOK` | 2 types, 2 root fields, 4 fields in all, about 620,000 states |
| `TranslationParameters` | violated: `ParametersUnique` | 1 type, 3 fields |
| `Mutations` | `EdgesFitSchema`, `MergedOnce`, `ConnectedOnce`, `MergeIsUpsert`, `EveryItemAnswered`, `ConnectFollowsMerge`, `FiltersSelectMeaning`, `OnlyMatchingChange`, `TypeOK` | 2 callers, 10 mutations, 17 filters, batch size 2, lists of 1 to 3, 1 call taken up again, about 165,700 states; symmetry |
| `MutationsCut` | violated: `OnlyMatchingChange` | 1 caller, a delete whose `nin` filter is cut, alone and beside a merge |
| `MutationsVariable` | violated: `OnlyMatchingChange` | 1 caller, a delete whose filter is a variable |
| `Generation` | `BuiltFromOneRun`, `OutputMatchesSchema`, `IndexesComplete`, `ClientStarts`, `GoInputsAccepted`, `TypeOK` | 5 schema versions, 2 runs, 1 edit, 1 failure, 2 processes, about 1,422,000 states; symmetry |

Why the bounds are enough to be of use. A transaction has at most two critical
sections per call and one mutex: two goroutines show every race between them,
the third waits while they race. Two statements tell "the accepted one" from
"another one". One lost reply tells a retry from a first try. The proofs below
remove these bounds for all safety properties of the two transactions. In
`Client`, callers meet only in the driver's flag and mutex, which the two closers
also contend for, and each call starts from the same state, so one caller that
makes calls without end is used (a second one multiplies the states and adds no
shared variable). Batch size 2 has the lists that need one chunk (2), a full
number of chunks (4 raw items), and a short last chunk (3, 5); the merge has two
writes in a chunk and a list that is used up before the other.

In `Translation` names depend on the root field's type, the depth and the counter:
two root fields of two types show the scoping by field, four fields in all show
siblings below a nested field and three levels of nesting, and two values tell
whether a name kept its own. The proofs remove these bounds.

In `Mutations` three items at batch size 2 give a full and a short chunk, with a key
that is repeated in one chunk or in two; two callers are enough for one to run
between the write and the read of the other; one `Resume` shows a statement that
runs twice. The requests have each operation, each nested operation, a single object
where a list may stand, an update followed by a delete, a delete that matches nothing
or several nodes before a create, and the two merges that share a chunk with a
connect. The graph has an edge that is asked for again, edges of one type seen from
both ends, and nodes that share a name. A relationship of movies with movies
(`follows`) lets the nested delete of an update remove another node the update is
about, before and after that node had its turn. An update is split by the list it sets,
with an `in` filter beside it, a delete and a create by a list in what they ask for. The
filters have each connective
inside another, over a property that is missing on some nodes, a null to compare with and
a list that is empty. The proofs remove the
bounds for `TypeOK`, `EdgesFitSchema`, `MergedOnce`, `ConnectedOnce`,
`EveryItemAnswered`, `FiltersSelectMeaning` and `OnlyMatchingChange`.

In `Generation` two runs tell "this run's file" from "an earlier one's", the versions
add and remove a scalar file and an index file, rename an index, and have a schema
that is refused; one failure may hit any step. `ClientStarts` and `GoInputsAccepted`
are about one schema at a time; the versions have each construct the generators
handle. `Handled` names what they do not: see "Not modelled, or known not to
work".

*Symmetry* is used only in runs without liveness properties: goroutines and
statements occur in no definition by name.

*Fairness.* `FairSpec` of `FalkorTx` and of `Client` asks that a goroutine that
is inside a call takes its next step. A goroutine that waits for a mutex is not
enabled all the time, so the fairness is strong: `sync.Mutex` hands itself over
to a goroutine that has waited for a millisecond. Fairness of `graph.Query`, of
`db.Close` and of the connection means that they answer or fail in the end;
go-redis and the neo4j driver have timeouts. Nothing makes a goroutine begin a
call, cancel a context or close anything.

Deadlock is checked in every run of the transactions and of the client: a
goroutine may always begin a call, and a mutex that is never released shows in
`CallsReturn`. A translation ends, mutations are done and the runs of the generator
are bounded, so the runs of `Translation`, `Mutations` and `Generation` do not check
it.

## What the violated properties say

1. `FalkorTxShared`: `Execute` passes its check, a `Commit` in another goroutine
   finds nothing buffered and ends the transaction, `Execute` buffers and returns
   nil. The statement never runs. `driver.go:60` says that `Execute` returns an
   error after `Commit`.
2. `ClientQueryChunked`: `Execute` cuts any list parameter. With `id_nin` and more
   values than the batch size each chunk excludes only its slice, and the joined
   answer has the nodes that were to be left out.
   `execute_chunk_test.go:208` says queries are never chunked.
3. `TranslationParameters`: two `@cypher` fields with an argument of the same
   name (`limit`, say) in one request share one parameter, and both get the later
   value. `conn<depth>_offset` and `conn<depth>_first` collide the same way: two
   lists that each have a connection below them, or `actors { moviesConnection }`
   beside `directorsConnection`, which both come to depth 1. `params.go:8` says
   that parameters are globally unique; the prefixes of `paramScope.sub` that were
   to make them so are never used.
4. `MutationsCut`: what cuts a query's filter cuts that of an update or a delete.
   `deleteMovies(where: { name_nin: [...] })` with more names than the batch size excludes
   in each chunk the slice of that chunk, and removes the movies named in the others. Beside
   a merge of more items than that, `name_nin: ["a"]` is `[]` from the second chunk on,
   `NOT n.name IN []` holds of every movie, and all of them go. `README.md:360` says of
   `_nin`: not in list; `README.md:25` promises that bulk mutations are split transparently.
5. `MutationsVariable`: `deleteMovies(where: $where)` writes no `WHERE` clause, for
   the clause is read from the children a variable does not have, and removes every
   movie. `README.md:486` says that all argument positions support variables,
   filters among them. An update's `update: $input` sets nothing, in the same way.

`MutationAnswerIsWhole` is therefore stated for mutations whose lists are input
items. A mutation that sets a list-valued property is cut as well
(`UpdateTags` in `MCClient`, `CutMap` in `Mutations`): the property is left with the last
slice.

## Proofs

The theorems about transactions hold for any goroutines, statements and bound on lost
replies, under the named assumptions of the modules (`FalkorTxAssumption`,
`Neo4jTxAssumption`: the two "none" values are not members, the bound is a
natural number).

`FalkorTxProofs`. `OneStatement`, `SentStatementIsStable` and `OncePerGoroutine`
are not inductive. `IndInv` adds who holds the mutex (`MutexHeldByQuery`: without
it `Execute` could run beside a query), what the buffer holds
(`BufferIsAccepted`), that a pending `Execute` has its argument, and
`UnacknowledgedSoFar`: while a goroutine may still query, the statement has run
for it only as often as replies were lost. `InitInd` and `StepInd`, with one step
per action, give `Invariance`; `TypeCorrect`, `AcceptsOneStatement`,
`SentStatementStays` and `AppliedOncePerGoroutine` follow.
`SerialImplementsContract` is the refinement of `TxContract` for serial calls
with `MaxLost = 0`. Its invariant `SerialInv` says that one goroutine is inside a
method, only of an open transaction, that what was accepted is still buffered,
and that the database has run nothing unless the outcome is "committed"; it is
what lets `CommitApplied` be the abstract `Commit`.

`Neo4jTxProofs`. `IndInv` ties the flag, `endedBy` and `utx` together
(`EndIsKnown`), lets one goroutine at a time be on its way to close the session
(`OneClosesSession`), and has nothing applied before the server commits
(`AppliedAtCommit`). From it `FlagIsCommit`, `SessionClosedOnce`, `SessionLeaks`,
`RolledBackIsEmpty`, and `Refinement`: all interleavings, lost replies included,
implement `TxContract`, with `status` mapped to the state of the underlying
transaction.

`TranslationProofs`. Nothing is assumed of the schema but `TranslationAssumption`.
`NamesInv` adds to `ParametersKept` that numbers in use are below the counter and
that a root page belongs to a root field met before, so that a field selected once
overwrites nobody's page. `StackInv` orders the stack: a frame's variable is at
most its depth, and every variable further in is above it; the aliases a frame has
bound are numbered upwards and below its depth. `RegisterEffect` says what `add`
and `addNamed` change, `StackStarted`, `StackPushed` and `StackReplaced` what
actions do to the stack; with one lemma per action they give `Invariance`.

`ChunkingProofs`. `SliceElements` says what a slice holds and `SlicesCover` that
each element is in one of those there are; `SlicesPartition` puts them together for
any list and size. `SlicesJoin` says that the slices of a list, one after the other,
are the list. It needs induction on the number of slices, which is done with sets: a
set of numbers that has 0, and with each number the next, has all (`FromZeroUp`, from
the well-foundedness of `<`). The same argument gives what `FlattenSeq`, a recursive
function, computes for sequences of any number (`FlattenNext`, `FlattenUniform`).

`ClientProofs`. `DriverInv` says that the process inside `db.Close` holds the mutex,
with the flag set before, so that a second `Close` never reaches the connection
(`ClosedOnce`). `CutOffSoFar` counts what was sent since `Close` against who had been
admitted before, `StoppedSoFar` what a batch has sent since its context was
cancelled; with `Shapes` (jobs and what has been sent are what the code builds) they
are inductive and give `CutOffByClose` and `StoppedByCancel`. They hold for `Spec`,
hence for `FairSpec`.

`ClientCallProofs`. `ClientAssumption` says that a plan is any number of writes and a
read, all with the parameters of one scope (`Translate` collects one map and gives it
to every statement, `translator.go:79`), that a parameter map is finite, and that
lists are sequences. `CallInv` says of each call that it is under way, failed,
complete or never begun, and what the database has run in each case: the statements of
the chunks before the one it is at (`SentAt`), then those of its chunk before the one
it is at, and after a lost reply that one too. `JobSteps` has the five ways a call
moves on; the drivers' own steps leave it alone. `DeliveredInOrder` and `ErrorsName`
are read off `CallInv`, as what was delivered is a beginning of the plan's statements,
and its length says which chunk is to be sent again. For `ListsHandedOver` the chunk
plans themselves are followed from `buildChunkPlan` on (`Carries`: over the chunks each
statement gets what the request gave it; `CarriedPlan`, from `SlicesJoin`).

`AnswersWhole` is `MutationAnswerIsWhole` under the hypothesis `AnswersAddUp`, about the
database: its answer for the first items of a mutation and its answer for the next ones,
put together by `mergeValue`, are its answer for all of these. (A query with `id_nin` has
no such answers; see `ClientQueryChunked`.) The chunks `chunkParams` makes are windows on
the lists, one after the other (`ChunksAreWindows`), the results a call has gathered are
the data of the chunks it is past (`AnswerInv`), and `ChunksAnswerWhole` adds them up.
`MCClient` assumes `AnswersAddUp`, so that every run of it has TLC evaluate it on the
answers of the instance. `IsParams` says what a Go map of parameters is.

`MutationsProofs`. `MutationsAssumption` says that a graph at the start is one of the
schema, and that fields are what gqlparser lets through (`client.go:155` validates each
request against the augmented schema): values where the input types have them, on
labels and relationship fields that exist. `EdgesInv` keeps the graph
and the one a failed statement goes back to free of double edges: `MERGE` adds only
where there is none, and a nested create makes a new end (`ConnectsOnce`). For
`MergesOnce`, `CallersInv` and `StatementInv` tie the running statement to its
caller: the field it is at is one of the request, and a block that has bound `n` is
a create or an update, so that where only merges on these keys write a label, no
other step touches its nodes. `MergedInv` adds the graph to go back to. The one step
that matters is `MergeKeepsUnique`: the row is an item of the field (`RowIsItem`,
from `SliceElements`), it has just the keys of the first item and does not overwrite
them, so a node is added only where none has them and the others keep theirs. This
needs that the merge overlooks nothing: `UnseenInv` says that what a merge under way may
overlook is of a type in `met`, and `MergedBy`, the condition of the property, leaves these
types out. Without that condition the property is false, as two merges of one missing key
show that are under way together.

`KindInv` gives `TypesOK`: every value in the graph is one of a request or of the start,
and identifiers are never given twice, for a statement taken back takes its own with it.
`EdgesFit` is `EdgesFitSchema` under the hypothesis `NamesApart`, that no two types have
relationship fields of one name that lead from one to the other. Without it the property
is false: for `Movie.links` to `Actor` and `Actor.links` to `Movie`, `RelationshipsForNode`
(`model.go:137`) gives a nested create both definitions (`mutation.go:116`), and the second
makes an edge whose ends are the wrong way round. `FitInv` adds that the nodes bound to `n`
are of the field's type while its nested blocks run; an edge goes with its ends
(`FitsDetached`).

`ItemsAnswered` is about statements that are apart in time: what a merge wrote, and what
the read after it finds. `SeenInv` says that the items the chunk's merges have been
through are in the graph, and in the graph to which another caller's failing statement
goes back; `RowsInv` counts rows, one for each block that is not a delete, and ties the
answer of the statement under way to the slices of its chunk; `AnswersInv` adds up the
chunks that are past (`Taken`, from `TakenStep` to the whole list, `TakenAll`).
`RowsCounted` is why a block that reads items back returns as many as there are items:
`MERGE` left one node for each.

`ConnectsFollow` compares the graph at the end of a call with what a whole sequence of
items should have come to. `Gone` are the items of each field that the call has been
through so far: those of the chunks that are past, of the writes of its chunk that are
done (`Through`), and the rows of the write under way (`AtRows`). `Kept` says, of those,
that each merged item has its node and that each item of the connect joins the nodes of
its chunk and of earlier ones; `FollowInv` says it of the graph and, with `Through`, of
the graph to which a failing statement goes back. A row of a merge in a later chunk
cannot bring a node into the reach of an item that is through (`EndStays`, where
`OrderInv` tells that the merges come before the connect in every chunk): had there been
none with its keys, the earlier item that reaches it would have made one. This is where
the property needs `Follows`: merges of one type are on the same keys, and none sets, on a
node that is there, a property the connect looks nodes up by. Without it the property is
false: TLC finds a merge in chunk 2 whose `onMatch` gives a node the name that an item of
the connect in chunk 1 has looked for in vain. `CallStep` and `AloneBefore` say
what the other steps do to a call that runs alone.

`MergesUpsert` does the same for the properties of the nodes. `Upserting` says of the
items of a merge that are through: each has a node, which has what those with its keys
leave in each property (`Leave`: the last `onMatch` that sets it, else what was there,
else the `onCreate` of the first); the other nodes of the type are as they were at the
start, and none of those is gone. A row finds no node only where none was there and no
earlier item has its keys (`UpsertMakes`), for the rows of a field come in the order of
its list (`GoneAreFirst`, from `PositionBefore`); a row that finds one has the last word
(`UpsertSets`). At the end `MergedInv` tells that the node is one, and `LeaveUpserted`
that `Leave` is `Upserted`. The property asks that the mutation has one merge of the type:
of two that share a key the second meets the nodes of the first and applies `onMatch` to
them, the same field given twice included.

`FiltersMean` is about filters nested in any way, over any graph. What a filter writes
(`Text`), is at a node (`Holds`), means (`Means`) and applies to (`Applies`) are
recursive functions, and that they compute what they say is proved first: filters end
somewhere (`GraphAssumption`: among any of them there is one that has none of the others
in it), so `Recursion` has a function for each step that looks at the filters inside
only. `FilterAgrees` then takes a filter that has none in it for which the truth values
and the meaning disagree, and finds that they agree on each of its parts
(`PartAgrees`): the meaning has nodes where the filter is true and nodes where it is
false, and a missing property is in neither, which is what keeps a `NOT` around it right.
`NamesApart` is needed here too: without it `RelationshipsForNode` may give a
relationship filter the field of another type.

`OnlyMatchingChanges` puts this together with what blocks change: a filter is read when a
block begins, in the graph of that moment, and rows are dealt with one by one
(`TargetsMeant`, `NestedMeant`; `ChangeMeant` has one step per action). Its second
hypothesis, `AllWrittenOut`, is that filters are written out in the request and nested
changes are given as lists: `MutationsVariable` shows the first is needed, "Nested
operations" below says why the second is. The third, `NoFilterCut`, is that each chunk of
a request has its filters as they were written, which is so if the request is not split or
compares with no list; `MutationsCut` shows that it is needed (`Whole` is where it is
used). `SoundInv` says that no statement runs that the database refuses for its text.
`NamesApart` and `AllWrittenOut` hold of the instance of the `Mutations` run; `NoFilterCut`
does not, for one update there has an `in` filter that is cut, and so reaches fewer nodes
than it should and none that it should not.

`GenerationProofs`. `DirectoryInv` says that Go files are of one run, which a run
under way has removed (`pc = "parse"`) or begun to replace, and how far that run has
come; without `left` (an old file that could not be removed) it is what makes a
package that compiles of one run, wherever the runs before stopped. `IndexesKnown`
and `IndexedSoFar` follow the indexes: each is one some run generated, and a process
has those of the statements it is past. While index names keep their meaning
(`NamesKept`, a hypothesis of the property) a statement that finds the name or the
property taken finds its own index, whoever made it. `VectorIndexesSeq` needs that a
document's types are finite. From these `TypeCorrect`, `OneRun`, `OutputComplete` and
`IndexesAreComplete`, for any schema versions, runs, processes and failures.

Model-checked only: `ClientStarts` and `GoInputsAccepted`, which are about whole schemas;
liveness under fairness and `ENABLED`, which TLAPS does not do here.

## Not modelled, or known not to work

Left out:

- The neo4j driver, go-redis and the databases: external, as the code uses them.
  A client library that re-sends a command by itself is not assumed.
- `New` of the drivers and of the client: they check configuration and connect.
- `rewriteVectorQuery`, record and value conversions, cursors and page information,
  sorting, scores: pure functions on text and values, better tested than modelled.
- The Cypher builder: text assembly that no other package calls.
- `Config`, flags, the example; the text of generated code.
- The undocumented outcome of a `Close` that failed: it is in `Driver`, no
  document says what is owed.

Behaviour met while modelling that no run shows as a violation, because no document
says otherwise, or that a property excludes by a condition of its own:

- *Transactions.* When FalkorDB's `Commit` loses the reply, the statement is in the
  graph while a `Rollback` after it returns nil. A second `Rollback` of a Neo4j
  transaction returns the error of the ended one, though `driver.go:64` calls it safe
  to repeat.
- *Nested operations.* Given as one object instead of a list of one, the parts of the
  object are taken for items with no `where`: a disconnect or delete then meets all
  related nodes. An empty nested update gives a statement the database refuses, after
  the writes of the chunk have run. The nested operations of all items of a create
  apply to each node it creates.
- *Order within a request.* The blocks after a delete run once per node it removed,
  and not at all if there was none. A connect meets merges of its chunk and of earlier
  ones only. A statement that runs twice, because a read failed after it, meets its
  own nodes and applies `onMatch`. Items of a merge that have other keys than the
  first are merged on those of the first.
- *Connect.* Without `edge` it removes the role that was there. Its answer is the
  number of its items, not of the edges.
- *Filters.* `NOT: {}` is dropped; an empty `OR` or `AND` vanishes or breaks the
  statement. A property whose name ends like an operator (`checked_in`) is read as
  that operator.
- *Callers side by side.* Two merges of one missing key that are under way together on
  Neo4j may both add a node, after which merges and connects on the key meet both
  (`MergedOnce` leaves this case out). A constraint on the keys would forbid it.
- *Queries.* A sorted list with a nested connection, `movies(sort: ...) {
  actorsConnection { ... } }`, yields `... WITH n ORDER BY ... RETURN collect(n {
  actorsConnection: __sub0 })`, and `WITH n` has dropped `__sub0`; the nodes of
  connections and of similarity searches lose all blocks. `projection.go:14` says the
  blocks must be placed before the projection; `PlainProjectionsBound` is about the other
  lists. The block of a `@cypher` field ends with the schema's statement, which has no
  `AS __cypherN` although `subquery.go:86` shows one. One root field selected twice under aliases declares one name twice; a
  root connection writes a `RETURN` in the middle of the query. A cursor that is sent
  back decodes to 0.
- *Schema.* A field's name may mean two relationships, one that starts and one that
  ends at the type; a nested create then makes both edges (see `EdgesFit`). The order of types changes
  from run to run.
- *Generator.* An enum is used but not declared in the augmented schema, so
  `NewClient` panics; required list fields give `_in` types with a bracket too many; a
  node without sortable fields gives an empty `Sort` input; a relationship to a type
  that is no node, and names that clash, are not noticed (`Handled` excludes these).
  Where structs have the tags `_NOT`, `_IN`, `_GT` where the schema has `_not`, `_in`,
  `_gt`; sort structs have the vector field; `update` is a list in the struct and an
  object in the schema. The registry leaves out default values and custom scalars.
  Any required `ID` field counts as the node's. An index that is renamed, or gets
  another dimension, leaves the old one in place (`NamesKept` excludes this). Errors
  of removing old files are ignored (`left`).

## Plan

Done: what is shared and concurrent (`TxContract`, `FalkorTx`, `Neo4jTx`, `Driver`,
`Chunking`, `Client`), the names of the translator (`Translation`), the effect of
mutations and filters on a graph (`PropertyGraph`, `Mutations`), schema parsing and
code generation (`GraphSchema`, `Augmentation`, `GoModels`, `Generation`), and proofs
about each of the seven components with state.

What could follow: pagination, as pages of a graph that changes between requests, with
the cursors the answers hold; `rewriteVectorQuery` as an operator on queries with
several calls; proofs of `ClientStarts` and `GoInputsAccepted`, which are about whole schemas.
