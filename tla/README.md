# DynaGo in TLA+

DynaGo is a Go library for DynamoDB: typed operations on tables (`dynago`), built
on the `Backend` interface, with an in-memory backend for tests (`memdb`) and one
for AWS (`awsbackend`). These modules model the parts of it where the order of
steps matters, check them with TLC, and prove the central facts with TLAPS.
`PROJECT.json` names, for every definition, the lines it models.

## Inventory

| Part | State | Operations | What makes it correct |
|---|---|---|---|
| `memdb/memdb.go` store | the tables; for each its items and the copies of them in its secondary indexes; one `RWMutex` per table and one for the map of tables | `CreateTable`; `GetItem`, `PutItem`, `DeleteItem`, `UpdateItem`; `BatchGetItem`, `BatchWriteItem`; `TransactGetItems`, `TransactWriteItems`; `Query`, `Scan` | a call is atomic, a transaction is all or nothing and reads one snapshot, callers do not block each other, an index agrees with its table, pages cover a query once |
| `memdb/expression.go`, `internal/expr` | none | conditions, filters and update expressions: parse and evaluate | the evaluation agrees with DynamoDB's definition, the two evaluators with each other |
| `rmw.go` | local to a call: attempt, copy, expected version | `ReadModifyWrite` with `OptimisticLock`, `MaxRetries` | no update is lost, the call returns |
| `batch.go` | local to a call: chunks, their unprocessed rest, attempts, the progress counter | `BatchPut`, `BatchDelete`, `BatchGet` | no error means that everything was done, the call returns, progress is true |
| `query.go`, `scan.go`, `iter.go`, `collection.go` | page cursor, results so far, remaining limit | `Query`, `Scan`, iterators, collections | each item once, the limit is kept, the loop ends |
| `condition.go`, `update.go` | placeholders of one request | building and merging expressions | a placeholder means one name and one value |
| `transaction.go`, `tx_errors.go` | operations collected so far | `WriteTx`, `ReadTx` builders | one call carries all operations in order |
| `get/put/delete.go`, `key.go`, `dynago.go`, `marshal.go`, `unmarshal.go`, `codec.go`, `registry.go`, `polymorphic.go` | the registry is filled before use | translation of requests and items | data conversion |
| `middleware.go`, `logging.go`, `dynagotel`, `awsbackend`, `dynagotest` | none | delegate a call, or translate it for the AWS SDK | pure I/O |

The parts meet at the `Backend` interface: everything in the root package turns
into calls of it, and any number of goroutines may share one backend. The hard
behaviour is in three places: concurrent calls of the in-memory backend with its
locks and indexes; the library's read-modify-write loop over a backend that fails
and may answer with old data; and loops (batches, pages) over a backend that does
a part of what it was asked. The hazards are listed one by one, with their lines
and the properties that watch them, in `PROJECT.json`.

## Modules

| Module | Models | Uses |
|---|---|---|
| `MemTable` | a table and its indexes: keys, `storeItem`, `deleteItem`, `updateGSIs`; what an operation checks and writes | |
| `MemRequests` | requests, their limits, what a call returns | `MemTable` |
| `MemDB` | the backend: concurrent calls, `RWMutex`es, one item operation per step | `MemRequests` |
| `AtomicOps`, `AtomicStore` | what the backend promises: every call at one instant, no locks | `MemRequests` |
| `MemDBAtomic` | the refinement mapping from `MemDB` to `AtomicStore` | `MemDB`, `AtomicStore` |
| `Rmw` | `ReadModifyWrite` by concurrent callers | |
| `BatchWrite` | `BatchPut` and `BatchDelete` | |
| `BatchGet` | `BatchGet`, beside a `BatchPut` on the same table | `BatchWrite` |
| `Values` | attribute values, the order of their key strings, the order of conditions | |
| `MemPages` | one page of memdb's `Query` or `Scan` as a function of the table | `MemTable`, `Values` |
| `Paging` | `Query`, `Scan`, `QueryCollection` and the iterators over the pages of memdb or of DynamoDB, with other writers in between | `MemPages` |
| `Expressions` | what the library makes of condition texts and update clauses: aliases, placeholders, merging | |
| `Expr` | what conditions and updates mean: the evaluators of `internal/expr` on syntax trees | `Values` |
| `MemExpressions` | memdb's own parser and evaluator | `Expressions`, `Expr` |
| `ExprBuilder` | the parser and the writer of `internal/expr` | `MemExpressions` |
| `Requests` | a caller of `Put`, `Update`, `Delete` and `WriteTx`, from its options to the backend's data, for any way to write conditions and any evaluator | `AtomicOps`, `Expressions` |
| `WrittenRequests` | the same with texts written out, and what the caller may expect of them | `Requests`, `ExprBuilder` |
| `MCMemDB`, `MCMemDBIndex`, `MCRmw`, `MCBatchWrite`, `MCPaging`, `MCRequests` | the small instances that TLC checks | |
| `MemTable_proofs`, `AtomicOps_proofs`, `MemDB_proofs`, `MemDBAtomic_proofs`, `Rmw_proofs`, `Batch_proofs`, `Paging_proofs`, `Requests_proofs` | theorems | |

Operators introduced by "A faulty ..." are not part of a model. Each is a variant
of the definition after it, as a plausible mistake in the code would have it; a
property is only kept if it fails when the variant takes the definition's place.

### The in-memory backend (`MemTable`, `MemRequests`, `MemDB`)

A client is a goroutine that makes one call after the other. `pc` says where it is:
`resolve` (look up the tables, check the limits), `lock` (take the table locks),
`check` (conditions), `read` or `apply` (one item operation per step), `unlock`
(the deferred unlocks and the return, or the next table of a batch). `work` is what
remains to be done under the locks, `later` the tables that a batch has not
reached, in no particular order because Go walks a map.

A Go `RWMutex` is modelled by what its documentation and implementation do:
`Lock` announces the writer (from then on new readers queue) and is granted when
the readers inside have left; `Unlock` lets the queued readers in. That a reader
waits behind a writer that is itself waiting is what makes some read-only callers
deadlock.

Abstractions, and why they are harmless:
- Everything stored or returned is deep-copied (`memdb.go:186-240`), so items are
  values. The nil item and the empty one are identified: no code path tells them
  apart in what it stores or returns.
- The tables are looked up in one step, because tables are only ever added. The
  unlocks of a call are one step, because nothing can be done between them.
- Conditions and updates are the parameters `EvalCondition` and `EvalUpdate`, which
  may fail; `MCRequests` gives them memdb's parser and evaluator as their values.
  Projections, which shape an answer, are left out.
- `Query` and `Scan` hold the read lock of one table from beginning to end and write
  nothing, so they are no actions of `MemDB` but the functions of `MemPages`.
- Table creation that finds the name taken panics, and is therefore no step.

`AtomicStore` is what a caller may rely on: a call takes effect at one instant, a
transaction writes everything or nothing. A batch is atomic per table only, and
keeps what it wrote before a refusal; that too is what the code does. In
`MemDBAtomic` a call takes effect when it starts to read or write, the point from
which it holds every lock it needs.

### `ReadModifyWrite` (`Rmw`)

The item is the sequence of changes it carries (the callback of caller `c` appends
`c`) and its version. A read without `ConsistentRead` returns the item or any of
its earlier states; the backend may fail before or after it carried out a `Put`;
somebody may delete the item. An item without the version attribute is read as
version zero and never satisfies the condition: such a call retries in vain until
it gives up. The version field has a width and wraps. What the properties leave out
(`NotComeRound`) is only that it comes all the way round to a value it had: there the
code does take an old item for the current one.

### `BatchPut` and `BatchDelete` (`BatchWrite`)

One call: `MarshalFails` is the item that cannot be marshalled, with which `BatchPut` ends
before it sends anything; `Start` is `g.Go`, `Write` and `Answer` are the backend's part of
`BatchWriteItem`, `Resume` is the `select` on timer and context, `Count` and
`Report` are inside and outside the mutex, `Wait` is `g.Wait`. Writes of a chunk
that has two writes to one key are never left out: DynamoDB refuses such a chunk
and memdb leaves out nothing. `OnProgress` is always set; without it the steps
`Count` and `Report` do nothing that anything else depends on.

### `BatchGet` (`BatchGet`)

One call with its chunks one after the other. `ReadKey` is the backend, which reads
the keys of a request one at a time while the `BatchPut` writes; `GetAnswer` is the
response, with any keys left out; `GetResume` is the `select` on timer and context.
`results` counts the items of each key rather than holding them, which is all that
`GetIsTrue` needs. What an item holds when it is read is the business of `MemDB`.

### Reading page by page (`MemPages`, `Paging`)

`call` is one call of `Query`, `Scan`, `QueryCollection` or one of the iterators.
`Fetch` is one request; `Take` unmarshals the next item and collects it, or yields it
to a consumer that may break off; `Undecodable` is the item that cannot be
unmarshalled; `EndPage` ends the call or sets the start key and the limit of the next
request. `PutItem` and `DeleteItem` are other callers.

The pages are those of either backend. memdb's are computed by `QueryPage` and
`ScanPage` as the code does: sorted by key *strings*, so that 10 comes before 9; the
start key searched among the keys, and everything returned again if it is not there;
the limit applied before the filter. DynamoDB's, modelled from what the library and
its documentation rely on, end anywhere, sort numbers as numbers, and continue after
a key that need not exist any more. It refuses an item with a key attribute that is not of
the type it was told (`Accepts`, `KeyType`); memdb takes keys of any type, and one partition
may hold several. A backend's error ends the call at any request.

A call begins in a table as the store leaves it (`WellKept`): finitely many items, every item
and every index entry under its own key. Only an update that changes an attribute of the
table's key makes another table in memdb; DynamoDB refuses it. The order of the keys is a
relation, and pages are cut from sets of keys by it (`FirstOf`, `LastOf`, `InOrderOf`), so
that the proofs need nothing of a sorting function but the order it sorts by.

`LosesPlace` names the case in which memdb cannot continue at all: `Query` on an index
whose range key is not one of the table's. The last evaluated key is built from the
table's key alone (`memdb.go:673`), so the place is lost and the first page may come
again for ever. `InOrder` and `CallReturns` are about all other calls.

### Expressions and requests (`Expressions`, `Expr`, `MemExpressions`, `ExprBuilder`, `Requests`, `WrittenRequests`)

A text is a sequence of tokens: words, signs, `?`, aliases and numbered placeholders.
How characters are cut into tokens is left out, with one exception, dots: memdb cuts
an alias at its first dot, which decides what `#m.c` means. `Requests` is a caller that
passes options one at a time, as syntax trees it has in mind and writes as texts with
as few parentheses as possible. What it writes for a tree is a parameter of `Requests`, like the
evaluators behind the backend; `WrittenRequests` defines it, so that the recursive definitions of
trees stay out of the module that is proved about. What the library builds from them goes through the
code's path: `BuildCondition`, `MergeConditions`, `BuildUpdateRequest`; memdb's parser
(`ParseOr`, ...) and its evaluator of updates; and the data of `AtomicOps`, one call at a time. The
history variable `said` keeps what the caller meant. `PassWrongCondition` is a text with
too few values, which panics; in `WriteTx.Check` it becomes the builder's error.
A caller of the backend itself can write what the library's `Update` cannot:
arithmetic, `if_not_exists`, `list_append` (`UpdateItem`).

What an update is meant to do (`Meant`) is not taken from the code: every clause, and every
right-hand side (`RightHandSide`), is applied to the item as it was before the update, which is
DynamoDB's rule. memdb applies them one after the other; the difference shows as soon as a
right-hand side reads what an earlier `SET` assigns. Such updates are therefore left out
of `ChangesAreMeant` (`ReadsAssigned`).

`PackagesAgree` compares two translations: `ExprBuilder` has the parser of `internal/expr`
(`ReadOr`, ...), `MemExpressions` that of memdb, and each package has its own updates. What
cannot come apart in the model is the evaluator of conditions, which the packages share in
the code as well (`expression.go:23`), and the helpers for numbers and sets, which the code
has twice in the same words (`expression.go:915-990`) and the model once.

Numbers are computed with as `float64`; `MantissaBits` is 53 there and 2 in the
instance, so that rounding happens within reach. Binary sets are left out: they go
the way of the other two.

## Runs

| Run | Checks | Instance |
|---|---|---|
| `memdb_atomic` | `TypeOK`, `LockInv`, `NoDeadlock`, `WrittenAlone`, `IsAtomic` | 2 clients, 2 tables, 19 requests of every kind, among them one refused at every place where one can be; all name the tables in one order; 414,000 states |
| `memdb_locks` | `EveryCallReturns` | 3 clients, readers and writers of 2 tables, named in one order, and a batch that stops at a bad key after its first write; 34,000 states; deadlock is checked |
| `memdb_crossed` | `DeadlocksAreCrossed` | 4 clients, snapshots in both orders and writers; up to permutation of clients. The system may deadlock here, so TLC's own deadlock check is off |
| `memdb_index` | `GSIAgrees` | 2 keys, an index on an attribute that items have, lack, or have with a type that is no key; all puts, deletes and updates, alone, in pairs and in batches |
| `memdb_ambiguous_index` | `GSIAgrees` fails | an index whose key does not include the table's |
| `memdb_partial_tx` | `IsAtomic` fails | a transaction whose second write is refused |
| `rmw` | `TypeOK`, `NoLostUpdate`, `WritesOnTop`, `EveryCallReturns` | 4 callers, with and without lock, `MaxRetries` -1 to 2, version of 2 bits, item absent, without version, or at the highest version so that the first change wraps it; 93,000 states |
| `batch_write` | `TypeOK`, `NilMeansWritten`, `LastWriteStays`, `ProgressIsTrue`, `QuietAfterReturn`, `CallReturns`, `GetIsTrue`, `GetReturns` | 5 writes to 2 keys in chunks of 2, one or two at a time, and a `BatchGet` of 3 keys in chunks of 2; one retry each; 875,000 states |
| `paging` | `TypeOK`, `InOrder`, `NothingSkipped`, `LimitKept`, `CallReturns` | 2 tables of 3 and 4 items, 3 indexes, 118 calls on both backends, limits 0 to 2, 2 writes in between, one of them perhaps of a key of another type; 384,000 states |
| `paging_iter` | `IterLimitKept` fails | the same without writes |
| `requests` | `TypeOK`, `ItemsAreSound`, `ConditionsDecide`, `ChangesAreMeant`, `RefusedChangesNothing`, `PackagesAgree`, `PlaceholdersResolve` | one item, present or absent, with 6 attributes, and the put of one without its key; 8 conditions, 9 clauses, 4 raw updates, one of which reads what it has assigned; 2 calls with 2 options; 794,000 states |
| `conditional_update` | `SetAssigns` fails | one update of the item |

The calls of `ReadModifyWrite`, of a batch and of a paged read end and nothing starts
again, and `Requests` stops after its last call, so their runs do not check for deadlock.

Bounds. Two clients show every pair of overlapping calls, and atomicity is a
matter of pairs; liveness uses three, the least for a reader queued behind a
writer that waits for another reader; four is the least number of callers with
which snapshot reads deadlock (two readers, two writers). Limits of 3 on a request
stand for 100 and 25: one request is above each. Two chunks under way are enough
for reports to overtake each other, and the third makes the limit bite. The version
wraps with the first change, and the second is made to a version that has wrapped. For pages, a limit of one
makes every item a boundary and a limit of two leaves a rest; two writes are enough to
delete the item a page ended with and put it again. Two options are enough
for a condition to meet an update or another condition, and two calls for a builder that
is run again; each kind of node, function and clause occurs.

What the failing runs show:
- `memdb_ambiguous_index`: an index keeps one item per index key. Two items with
  the same one overwrite each other's entry, and a delete removes it for both.
- `memdb_partial_tx`: when an update expression fails (for instance an ADD to an
  attribute that is neither a number nor a set) or an operation without condition lacks
  its key, `TransactWriteItems` returns the error after it stored the writes before it.
- `paging_iter`: `QueryLimit` and `ScanLimit` are "across all pages", but the iterators
  give the limit to every page and count nothing; a limit of 1 yields all items.
- `conditional_update`: clauses and condition of an update both number their values from
  `:v0`, and the condition's win. `Set("Status", "RUNNING")` under
  `IfCondition("Status = ?", "PENDING")`, the guide's own example, stores `PENDING`. The
  same happens to two conditions of a `Put` or `Delete`; `ConditionsDecide` and
  `ChangesAreMeant` are therefore about requests without such a clash (`Clash`).

What the code also does, and no run is about; a reader of the properties should know it:
- a retry of `ReadModifyWrite` may read the same old item again and use up an attempt;
- `OnProgress` may be told 4 of 5 and then 2 of 5, since it is called outside the mutex;
- memdb starts a page from the beginning if the item of its start key is gone
  (`removed` in `InOrder`);
- memdb resolves the right-hand side of a `SET` on what the clauses before it left
  (`expression.go:793`): `SET n = if_not_exists(n, 1) + 1, c = n` stores the new `n` in `c`,
  where DynamoDB stores the old one, although `README.md:76` calls memdb a complete DynamoDB
  backend. Without the exception `ReadsAssigned` the run `requests` finds `ChangesAreMeant`
  violated by this update; written the other way round, `c = n` first, both agree and the
  property holds;
- memdb ignores a `DELETE` of elements of another type, and keeps the empty set a `DELETE`
  leaves, where DynamoDB refuses the one and removes the attribute for the other;
- memdb computes `ADD` in `float64`, so that large integers lose digits; the clauses
  whose result is not exact are excluded in `ChangesAreMeant`;
- `IN` works in conditions, with a `?` for each value; memdb's and `internal/expr`'s
  parsers disagree on `BETWEEN` and `IN`, which only the former has (`PackagesAgree` is
  about the rest), and a `BETWEEN` text is taken apart by `buildCondition`, which takes the
  word for an attribute, although the guide lists it;
- a `WriteTx` may be run twice, and then sends its operations twice;
- `WriteTx.Put` and `BatchPut` do not add the discriminator that `Table.Put` adds.

### Fairness

In `MemDB` a goroutine that can take a step does (weak fairness per client). Entering
`Lock` is strongly fair: a `sync.Mutex` that a goroutine waits for is handed to it
once it has waited for a millisecond, whoever else asks. Nobody is obliged to make a
call. In `Rmw`, `BatchWrite`, `BatchGet` and `Paging` goroutines run, timers fire, and
the backend answers each call, be it with an error; nothing is assumed about how often
it succeeds. In `Paging` fairness is about the steps of the call only: nobody has to
write, and writes do not keep the call from going on. `Requests` states no fairness,
for it promises nothing about ends.

## What is proved

`MemDB_proofs` (with the lemmas of `MemTable_proofs` on single tables), for any
clients, tables, schemas, requests and expressions:
- `TypeCorrect`. Inductive as it stands: an operation's verdict is "ok" only if it has
  a key and its update leaves an item, which is what `Apply` needs.
- `LocksHold`. `LockInv` is the inductive form of mutual exclusion. That nobody is
  inside a table with its writer is preserved only because a client can be found in a
  lock (inside, announced or queued) at certain places of its call only and for tables
  its request names, and because a body runs only where all locks are held; these are
  the other three conjuncts.
- `TablesWrittenAlone`, a step property, from `LockInv`.
- `IndexesAgree`, under two assumptions: every index key includes the table's key
  (`IndexesCoverKeys`), and no update changes an attribute of the table's key
  (`UpdatesKeepKeys`; DynamoDB refuses such updates, memdb does not). The invariant is
  strengthened by "items are stored under their own keys"; then two items with one
  index key are one item, so the entry that `updateGSIs` removes is the old item's own.
  `memdb_ambiguous_index` shows that the first assumption is needed.
- `DeadlocksCrossed`. `LockInv` says where a client can be found in a lock, but not
  that it waits for the first table only that it does not hold. That is `LocksInOrder`, which
  is inductive together with it. In a set of clients that block each other, everybody
  waits at one table and is waited for at another that it holds, hence locked before;
  the tables waited for are the circle.
- `OrderedCallsNeverBlock`: `NoDeadlock`, if some ranking of the tables fits every request
  that is no batch (`TablesInOrder`). A circle of tables has one of highest rank, and the
  client that holds it waits for one of a higher rank. A batch locks one table at a time, and
  that it does, and that the locks follow the request and not some other list, is
  `CallsInPlace`. `memdb_crossed` has the requests that fit no ranking, and does deadlock.
- `CallsStayInPlace`: `CallsInPlace` says of every client what it has read and answered by
  where it is in its call, and that until its body begins its work is that of its request.

`MemDBAtomic_proofs`, for the same: `ImplementsAtomicStore`, every behaviour of the backend
is one of `AtomicStore`. A call takes effect when its body begins; from then on its effect is
what the rest of its work would do if nothing came between (`Body`), and the step that does a
part of the work leaves it unchanged (`BodyGoesOn`). That nothing comes between is a matter
of the tables the work is on: operations neither see nor touch others (`DoAllAlike`,
`DoAllFrame`, by induction over the sequence of operations), and nobody else is inside a table
that a body holds (`AppliesAlone`, from `LockInv`). So a step of one client changes the effects
of its own call only (`OneMoves`), and there is one lemma for every action that says which step
of `AtomicStore` it is, or none. Assumed is `LaterWritesSucceed`: in its second pass a
transaction may be refused at its first operation, but at no later one. It holds of the
requests of `memdb_atomic`, and `memdb_partial_tx` shows that without it the refinement fails.

The induction over sequences and numbers is in `MemTable_proofs` (`SetInduction`,
`SequenceInduction`): about sets instead of predicates, because the provers cannot
instantiate an operator.

`Rmw_proofs`, for any number of callers and retries:
- `RmwTypeCorrect`.
- `LockPreventsLostUpdates` and `LockWritesOnTop`, assuming that callbacks leave the
  version field alone. Like the properties they are about histories in which only
  callers with the lock wrote and the version has not come round; it may wrap, and the item
  may begin with any version. The inductive invariant: the version of every state of the item
  is the first one with as many changes added, in the width of the field (`Counted`); two
  states with as many changes are the same, and the item has the most; every copy was
  made from one of those states; and a change is in a state only if its caller has
  returned. A `Put` that finds its version therefore finds the content it read.

`Batch_proofs`, for any requests, chunk size, retries and concurrency:
`BatchTypeCorrect`, `NilIsWritten`, `LastWriteWins`, `ProgressIsHonest`,
`QuietOnceReturned`. The inductive invariant `IInv` says why: chunks are
started in order (`StartedInOrder`); a chunk that waits has retries left (`RetriesLeft`);
what remains of a chunk is a part of it, and nothing once it is counted (`Remaining`); a
chunk that is done without being counted left an error (`CountedWhen`); the counter is the
size of the union of the counted chunks, and each of them read another value of it
(`Counter`); a call that returned is through with all its chunks, or could not marshal an item and has
started none (`Returned`). For the
last write to a key: at a limit of one, the chunks before one that was started are done
(`OneAtATime`), and in a chunk the writes to one key are carried out in order
(`OrderInChunk`), so that the key holds the last of those carried out (`LastStored`).

In the same module, for any keys and sizes: `GetIsHonest`. The invariant counts, for every
key, its items in the chunks that are through, in the current one and in the response on
its way: none of a key that is still to be read or of a later chunk, one of every key of
an earlier one that had an item. That an item once there stays is a fact about the steps of
`BatchWrite`.

`Paging_proofs`, for any tables, calls, filters and writes of others, with memdb and with
DynamoDB:
- `LimitIsKept`. While a call that collects is running it has collected less than its limit,
  because the loop returns as soon as it has reached it; the theorem needs nothing of the
  backend, not even that it keeps the limit of a request.
- `ReadsInOrder` (`InOrder`) and `NothingIsSkipped` (`NothingSkipped`), from these pieces.
  The order of the keys is a strict order in which different keys are comparable: for
  memdb because different keys have different strings (`KeyStringsDiffer`, and
  `NatDigitsDiffer` for numbers), for DynamoDB because the values of one attribute have one
  type; components are compared one after the other (`LexIsOrder`). A page is a beginning of
  the candidates of its request in that order, without those that the filter rejects, and its last
  key is that of the last candidate looked at (`PagesArePages`). The candidates begin just
  after the place of the start key (`LaterIsCandidate`, `CandidateIsLater`), which memdb finds if
  its entry is there and the start key has the index's range key (`MemPlaceIs`).
  The inductive invariant `PagesInv` says where a running call is: a last key is
  that of some entry `e` of the partition; everything returned and everything on the page
  comes from no later than `e`; and what should still be returned comes after it (`Places`).
  When memdb has lost its place it begins anew, so the last part survives and the first
  does not: items may come twice, but none is skipped.
- `PagingTypeOK` (`TypeOK`), whose point is that a call with a limit sends no request without one.

Assumed of the constants are `TableAssumption` (the tables a call may begin in are `WellKept`,
what others put has a key, and key values are strings, bytes or numbers) and
`PagingAssumption`. How a key condition is parsed, what it selects and what a filter says
is left open by the proofs.

`Requests_proofs`, first for single requests: a condition that `buildCondition` accepts has a
value for each placeholder and a name for each alias, for every text and list of values
(`BuiltConditionsResolve`); merging two such conditions gives another
(`MergedConditionsResolve`); so do the clauses and the condition of an update in the maps
they share (`UpdateRequestsResolve`, by induction over the pieces that are joined,
`AllInARow`); and why that is not enough: the value of the first placeholder afterwards is
the second condition's, always (`FirstValueIsLost`). Then for every caller, any number of calls,
options and operations, any schema and any evaluator of expressions:
- `RequestsTypeOK`. The invariant needs `Open` beside it: while an operation is being described
  its builder has room for it, a call is left, and the answer of the call before is no longer
  looked at.
- `RefusedIsSafe` (`RefusedChangesNothing`), from the same invariant and two lemmas on
  sequences of operations (`AtomicOps_proofs`): operations that are not all carried out stop at
  one of them, which sees what those before it left (`DoAllStops`), and a write that is refused
  leaves what it found (`RefusedWriteKeeps`). A single operation has none before it. In a
  transaction the conditions are judged before anything is written, which leaves the one
  exception the property names: it is the one `memdb_partial_tx` shows.
- `LibraryRequestsResolve` (`PlaceholdersResolve`). The invariant (`ResolveInv`) says it of
  the condition of an unfinished description, to which every option adds.

Assumed is `CallerAssumption`: what a caller writes contains no aliases and no placeholders of
its own, only `?`. A caller who writes `:v0` or `#a` into a condition himself has to supply the
value or the name, for which the library has no option.

Only model-checked are
- liveness (`EveryCallReturns`, `CallReturns`, `GetReturns`), which is out of the prover's reach;
- `ItemsAreSound`, `ConditionsDecide`, `ChangesAreMeant` and `PackagesAgree`: they are about what
  the parsers and evaluators make of syntax trees, which are recursive operators, and to prove
  them would take an induction over trees that the provers cannot do.

## What is not modelled, and the plan

Left for later, in this order:
1. In `Rmw`, an item that is deleted and created again under a lock (its version is then
   used twice), and an SDK that sends a `Put` again after its answer was lost.
2. `MemPages` on the tables of `MemDB` inside transactions, which would check that a page
   never shows half of one; today this follows from the lock that `Query` and `Scan` hold
   and from `WrittenAlone`.

Left out within the parts that are modelled: projections (they shape answers only);
`ToDynamoUpdates`, `ToDynamoProjection` and the table of reserved words of `internal/expr`
(no caller, and plain data); `ReadTx`'s accessors by position; returned old and new images;
binary sets.

Left out for good: the codec and the entity registry (sequential data conversion over
Go reflection, which the fuzz test reaches better), middleware, logging, tracing and
the AWS translation (they delegate each call), and the test helpers.
