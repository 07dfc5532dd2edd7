# Verification of the extension manager

This directory holds TLA+ specifications of the Exasol extension manager
(`pkg/`, `cmd/`, `registry-upload/`, the Java test framework), the TLC
configurations that check them on small instances, and proofs for TLAPS of the
theorems about them. `PROJECT.json` relates every definition to the lines
it models, and lists the runs, their properties, the hazards and the findings.

## 1. The system and its parts

A client of the REST API installs, upgrades and uninstalls extensions (virtual
schemas and the like) in an Exasol database and creates instances of them. An
extension is a JavaScript definition in a registry; the manager evaluates it
and calls its methods, which issue SQL statements through the manager.

| Part | State it keeps | Operations | Talks to |
|---|---|---|---|
| Transaction controller (`transactionController.go`) | none between requests | the nine operations of `TransactionController`: each begins a transaction, calls the controller, commits or rolls back | controller, transaction context |
| Controller (`controller.go`) | the registry and the configuration | load definitions, check instances, create the extension schema, validate parameters, call the extension | registry, extension API, database |
| Transaction context (`transactionContext.go`) | two transactions and the BucketFS client of a request | begin, `GetBucketFsClient`, `Commit`, `Rollback`, cleanup | database/sql |
| BucketFS client (`BucketFsApi.go`) | a second transaction with a temporary schema and a UDF | list files, find a path, close | database |
| List-files UDF (`list_files_udf.py`) | the generators of a walk | `run`: walk over a directory tree and emit its files | file system of BucketFS |
| REST handlers (`request*.go`, `dbConnection.go`) | a database handle and a context per request | parse, open, call, answer, close | transaction controller |
| Answers and errors (`requestResponseHelper.go`, `apiErrors`) | none | map results and errors to replies | |
| REST server (`restApi.go`, `standaloneApi.go`) | `server`, `stopped` | `Serve`, `StartInBackground`, `Stop`; routes and a timeout of 60 seconds | net/http |
| HTTP registry (`registry/http.go`, `index.go`) | the cached index, shared by all requests | `FindExtensions`, `ReadExtension` | web server of the registry |
| Local registry (`localDir.go`) | none | the same | file system |
| Extension API (`extensionAPI/`) | a JavaScript VM per loaded extension | load, call, convert errors, check the version | extension code, contexts |
| Metadata reader, SQL client (`ExaMetadata.go`, `ExasolSqlClient.go`) | none | read result sets, execute statements | database/sql |
| Parameter validator | a JavaScript VM | convert definitions, validate values | |
| Registry upload (`registry-upload/`) | bucket and CDN of the registry | verify links, upload, invalidate | AWS |
| Java test framework: process | child processes and the threads that read their output | run a command, start and stop the manager | npm, go, the manager's process |
| Java test framework: setup | temporary directory, cleanup callbacks | create, register, clean up, close | process, database, manager |

What makes each part correct:

- *Transactions*: an operation takes its whole effect or none; success is
  reported only when it took effect; operations that read have no effect; no
  request leaves a connection behind; the temporary schema is never committed.
- *Instances*: no instance is left without the objects of its extension.
- *Registry*: definitions are current; lists are complete; an outage passes.
- *Result sets*: a part of a result is never taken for the whole.
- *List of available extensions*: what is listed can be used, what can be used is
  listed, and a file that comes or goes elsewhere does not fail the list.
- *Server*: a server that is stopped ends, its requests are answered, and the
  process goes on.
- *Answers*: a client is told what happened: success when it was committed, the
  status an extension or the registry gave, and nothing else.
- *Upload*: what is published was verified; what is reported published reaches
  the clients of the edge.
- *Test framework*: what a test class starts is stopped, what its tests create
  is removed, and no wait is endless.

What is hard: requests run concurrently on one database and one registry object,
each with a database handle of its own; a context can end at any step, whereupon
database/sql rolls back both transactions in goroutines of its own; a commit's
confirmation and a reply can get lost; an extension can fail after some of its
statements; files and definitions come and go while they are listed; the index
is cached without a lock or an expiry; the server's flag outlives the server it
describes. `PROJECT.json` lists these hazards with their
lines.

## 2. Modules

| Module | Models | Checked with | Proved in |
|---|---|---|---|
| `Operations` | the vocabulary: operations, database content, effects | | |
| `AtomicOperations` | what the controller promises | as a property of `TransactionController` | |
| `TransactionController` | a request's way through handlers, controller, transactions, BucketFS client and extension | `MCTransactionController` | `TransactionController_proofs`, `TransactionController_refinement` |
| `HttpRegistry` | the cached index and the reading of definitions | `MCHttpRegistry` | `HttpRegistry_proofs` |
| `ResultSets` | the five readers of result sets | itself, and in `AvailableExtensions` | `AvailableExtensions_proofs` |
| `BucketFsFiles` | the UDF's walk over BucketFS, whose rows a reader of `ResultSets` reads | in `AvailableExtensions` | `AvailableExtensions_proofs` |
| `AvailableExtensions` | the list of available extensions of a local registry: files, definitions, filter | `MCAvailableExtensions` | `AvailableExtensions_proofs` |
| `RestServer` | the lifecycle of the REST server | `MCRestServer` | `RestServer_proofs` |
| `ParameterValidation` | the validation of parameter values, as operators | in `Replies` | `Replies_proofs` |
| `Replies` | the status a request is answered with, through all layers | `MCReplies` | `Replies_proofs` |
| `PublishedRegistry` | what managers are promised of the registry | as a property of `RegistryUpload` | `RegistryUpload_proofs` |
| `RegistryUpload` | publishing the registry: links, bucket, edge | `MCRegistryUpload` | `RegistryUpload_proofs` |
| `SimpleProcess` | a command with its two streams and timeouts | in `TestSetup` | `TestSetup_proofs` |
| `TestSetup` | the setup of a Java test class and the manager's process | itself | `TestSetup_proofs` |

Operators named *faulty variant* are alternatives of the definition that
follows them, with a plausible bug; no specification uses them. They show that
each property can fail (`mutants` in `PROJECT.json`).

### TransactionController

`pc[c]` is where the goroutine of client `c`'s request is; an action is what
happens between two points at which another request, the end of the context or
a failure can intervene. `tx`, `snapshot` and `writes` are the main transaction,
`bfsTx` and `bfsClient` the transaction and the client of
`TransactionContext.GetBucketFsClient`, `ctx` the request's context, `result`
what the controller returns to the handler, and `reply` what becomes of it.

| Code | Actions |
|---|---|
| `adaptDbHandler`, `openDBRequest`, handlers | `Receive`, `Answer` |
| `beginTransaction`, `BeginTransaction` | `BeginTransaction`, `BeginTransactionFails` |
| `controllerImpl` | `ReadMetadataTables`, `LoadExtension`, `EnsureSchemaExists`, `ConvertAndValidate`, `VerifyNoInstances`, `Fail` |
| methods of an extension, SQL client | `ExecuteStatement`, `RefuseStatement`, `ScriptReturns`, `ResolvePath` |
| `GetBucketFsClient`, `CreateBucketFsAPI`, `createUdfScript` | `BeginBucketFs`, `CreateUdfScript` and their failures |
| `listBfsFiles` | `ListFiles` |
| `TransactionContext.Commit`, `Rollback`, `cleanup` | `CommitCleanup`, `CommitTransaction` and their failures, `Rollback` |
| `middleware.Timeout`, a disconnect | `Cancel` |
| `awaitDone` of database/sql | `AutoRollback` |

What is outside the repository is modelled from its use and marked external:

- The database: a transaction reads the content at its beginning and its own
  writes, and commits all of them at once. With `Serializable` it refuses to
  commit when something of the same extension has changed; without, it accepts
  every commit. The runs and theorems say which one they need.
- Connections: every request opens a database handle without a limit
  (`dbConnection.go:22`), so that no request waits for another's connection.
- An extension: its method writes its objects statement by statement, in any
  order, may ask for paths in BucketFS and may fail at any point. It does not
  swallow the failure of a statement: an extension that catches the exception
  of a failed statement and returns normally would have its partial effect
  committed. A method that answers a read may write too. A statement whose
  text is exactly a commit or a rollback is refused by the SQL client
  (`RefuseStatement`); without the check a half installation could be committed.
  The check compares whole texts (`ExasolSqlClient.go:133`): that an extension
  does not send another form of these statements, like `COMMIT WORK`, is an
  assumption.
- A commit that reached the database is reported as a success or as a failure
  (its confirmation was lost).

A path in BucketFS is asked for only by the methods the controller calls at
last (`pc = "script"`), although the context offers it to every method: what it
changes, the second transaction, is the same.

`AtomicOperations` is the promise: `Receive`, `TakeEffect` in one step,
`Answer`. The refinement maps `db`, `op` and `reply` to themselves and `phase`
to *applied* when the main transaction is committed. An error or a lost reply
says nothing of the effect: the controller's commit can succeed and its
confirmation get lost, and the handler of an upgrade panics after the commit
when the extension returned null. "error" is what the controller returns to the
handler; the status made of it can look like a success when the extension has
chosen it, which is the subject of `Replies`.

### HttpRegistry

One registry object serves all requests. `index` is `httpRegistry.index`;
a document of the index is known by its `edition`, and `Document` gives what it
says. `CheckCache`, `LoadIndex`, `StoreIndex` and the second read in `ListIds`
and `Lookup` are the accesses of `getIndex` to the shared field, in the order of
the code. The field is a pointer; without a lock a read yields the value of some
write, never a mixture, so the race is the interleaving of these actions. The
environment publishes editions, replaces definitions at their URLs and takes
URLs down; a body that cannot be decoded or evaluated counts as not served.
`since` and `calm` are history: the code does not read them.

### ResultSets

`sql.Rows.Next` returns false at the end of a result and after a failure. One
reader runs at a time, `Break` ends its rows between any two steps. `Accept` is
where a reader takes the rows it has read for the result.

### BucketFsFiles and AvailableExtensions

`BucketFsFiles` extends `ResultSets`: while the statement of `ListFiles` or
`FindAbsolutePath` is executed (`pc = "execute"`), the UDF walks over the tree.
`stack` holds the Python generators, the innermost first; a frame is *open* when
`iterdir` has read the names of its directory, and `todo` are the names it has
still to look at. What is there when an entry is looked at (`lstat`) can be
different from what was there when its directory was read, so these are
different actions, with `ChangeFile` and `ChangeDirectory` between them. An entry
that has vanished is skipped; a directory that vanishes after `lstat` fails
`iterdir`, outside of the `try` for missing files, and with it the statement. A
directory without permission and the file systems of language containers
(a subdirectory `exaudf`) are passed over. `rows` is what the UDF has emitted;
the result the reader then reads has as many rows.

`AvailableExtensions` is the request on top: `ListFiles` takes the steps of
`BucketFsFiles`, `FindExtensions` and `LoadExtension` are the local registry's
walk and reads, `FilterExtensions` the filter. Definitions change between the
last three. The rows a reader lost are any (`\E F \in SUBSET rows`). The order of
the rows and of the list is left out, as are requirements other than name and
size. `stable`, `seen`, `removed`, `steady` and `fault` are history.

### RestServer

`serve[g]` is where a goroutine is in `Serve`, `owner` where the caller of
`StartInBackground` and `Stop` is; a server is known by the goroutine that
created it. A panic in a goroutine and `log.Fatalf` end the process: `died` says
which. The owner calls `StartInBackground` and `Stop` in turn, as the tests do.
`OtherProcess` lets another process listen at the address, which then stays
taken. Closing a listener does not fail in the model.

### Replies and ParameterValidation

A behaviour is one request, beside which the definition can be replaced once
(`ReplaceDefinition`): creating an instance loads it twice, `used` is the one
whose functions are called and `checked` the one that validates the values.
Concurrency is `TransactionController`'s subject. A
route is the sequence of stages its handler, the transaction controller and the
controller go through, and `todo` is what is left of it. A stage proceeds or
fails with an error, and then only the reply is left. An error is known by what
`UnwrapAPIError` can find in it: an `APIError` with its status, or nothing. A
function of an extension is missing, returns, returns null, throws something
with a status, something without, or null. `Fault` lets the database, the
registry or the network fail any stage; `Commit` can reach the database although
its confirmation gets lost. The texts of errors are left out.

`ValidateParameters` takes the conditions of a definition as the set of values
they allow, and "broken" for a definition at which the validator itself fails.

A panic of a handler ends in chi's recoverer, which writes 500. An extension can
throw any integer as a status (`convertError`), and `sendError` writes it
(`requestResponseHelper.go:68`). What the client then gets is `Sent`: 101 and
200 to 999 as they are; one below 100 or above 999 makes net/http panic, but the
response counts as written by then, and 100, 102 to 199 are sent as
informational, so that the client gets 200 after all of these.

### RegistryUpload

`upload.ts` step by step for one stage at a time: the links are verified
concurrently, the stack is read, the files are put concurrently, an invalidation
is created, and the index is read back from the edge. The edge fetches, expires
and invalidates at any time. `content` and `built` are the developer's files;
`EdgeExpires` and `CompleteInvalidation` stand for CloudFront. The edge is one
cache: what is said of the order of editions holds for each of its locations. A
bucket is empty at first, holds a published edition, or, for the test stage, only
a testing extension that somebody has put there by hand.

`PublishedRegistry` is what the parts promise each other: an edition is shown
only when it was approved, and never after a later one. `RegistryUpload`
implements it: `edition` maps to what a client of the edge gets (`Served`), and an
edition is approved when all its links have answered in a run that uploads.
`HttpRegistry!Publish` is its step `Show` with every edition approved.

### SimpleProcess and TestSetup

A command's process writes lines, a thread per stream appends them to one
`StringBuilder`, and the caller waits for the exit and for both streams, each
with a timeout. An append is two steps, since nothing synchronises the threads: a
thread finds the end of the text (`place`), then it writes there and sets
`length`. `buffer` is the array inside of the `StringBuilder`, which keeps what
lies behind `length`: a line that was cut off can come back when another thread
sets its older, greater length. `Output` is the text up to `length`.
`TestSetup` extends this: `pc` is where `create`, `cleanup` or `close` is, and
`tool` the command it runs meanwhile. `manager` is the manager's process, which
logs its startup and then listens; `port` says who listens, since the port is
only found free and not reserved. `queue` is `cleanupCallbacks`, `next` the
position of its `forEach`. `thrown` is the exception the test class sees. The
content of BucketFS and the check for a single extension are left out; files
that exist in the setup's own directory can be deleted.

## 3. Runs and bounds

| Run | Question | Instance |
|---|---|---|
| `upgrade` | are extensions whole and commits last? | 2 clients; install, upgrade, uninstall of one extension with 2 parts and 2 versions; not serializable |
| `instances` | do operations on instances implement atomic ones without orphans? | 2 clients; install, uninstall, creating and deleting an instance; serializable |
| `reads` | are reads without effect, does every transaction end, and is a client answered whose registry answers? | 2 clients: all reads beside an installation; one part; under fairness |
| `cache` | are definitions fresh, lists whole, outages forgotten? | 2 requests, 2 extensions, 2 editions, 2 URLs with 2 definitions each |
| `expiry` | does a request use an index of its own time? (no) | the same, one extension that moves |
| `available` | does a list hold what can be used, and nothing else? do readers return all rows? does a list end? | 3 files in 4 directories, one a container and one without permission; 2 changes during a request; 2 definitions, one of them in a subdirectory; results of up to 3 rows |
| `script_reader` | do the readers that do not ask for the error notice it? (no) | results of up to 2 rows |
| `turns` | does the server start and stop in turn, and what ends the process? | 2 goroutines, 2 requests per server, another process |
| `restart` | is a restart harmless? (no) | 2 goroutines, 1 request per server |
| `replies` | is the client told what happened? | every route; extensions that depart from a good one in the functions a route calls; 2 parameters, up to 2 values; thrown statuses 0, 42, 102, 200, 204, 400, 404, 412 |
| `upload` | does the upload implement the promised registry, and does it reach clients? | both stages; 2 released extensions, 3 editions, 2 builds |
| `setup` | does a test class leave nothing behind? | commands of up to 3 lines per stream; 2 objects, 2 previous versions, 3 callbacks |

Why these are enough: two clients give every conflict between two requests, the
only ones the database knows of (a third adds the same conflicts
pairwise; for the core the theorems hold for any number). Two parts make a
partial installation visible, two versions a mixed one. Two editions
are a stale and a current index; two URLs and two definitions a moved and a
replaced extension. The upload has a third edition, so that an old one could come
back after two newer ones. A reader treats its rows alike, so three are as many
as it can tell apart. A walk enters one directory after the other: one
subdirectory with a file, one of each kind that is passed over and two files of
one name give every case, and two changes let a file or a directory go and come
back. Two values for one name show which one counts; a thrown status
stands for its kind: an error, a success, an informational one, one HTTP does not
know. Three callbacks put a file before, between and after two
statements; of three lines on a stream one
can be lost, one cut off and come back, and one keep its place. The clients and the
requests are symmetric in every property, and
symmetry is used in the runs that check no liveness.

`CHECK_DEADLOCK FALSE` is set for the server, whose process ends, for a request
that has been answered, and for the setup, which is closed at last.

### Fairness

`TransactionController!Spec` assumes weak fairness of `Cancel`, of `AutoRollback`
and of the steps of a request except those of its exchanges with the registry. A
handler is a goroutine that keeps running, and that the database answers and the
method of an extension ends is assumed. The timeout of `standaloneApi.go:51` ends
the context of every request that does not finish, and database/sql's goroutine
its transactions. (A program that embeds the API and hands in its own database
has no such timeout; it is not modelled.) Nothing makes a client send a request,
and nothing in `http.go` makes an exchange with the registry end: it has no
timeout and does not know the context (`http.go:64`). `TransactionsEnd` holds all
the same: a request that hangs there leaves no transaction open.
`RegistryAnswers(c)`, that client `c`'s exchanges end, is only a hypothesis of the
answer to `c` in `ImplementsFairOperations`.

`RestServer!Spec` assumes that the goroutine of `Serve` and the caller of `Stop`
keep running and that handlers end. `RegistryUpload!Spec` assumes that exchanges
with AWS and the web servers end; that a link which fails is noticed is part of
the code and checked (`RunEnds`). `TestSetup!Spec` assumes that the thread of the
test class keeps running, and nothing of commands, readers or the manager: the
framework's timeouts must do. That opening a JDBC connection ends, for which the
framework sets no timeout, is assumed. An interrupt is not assumed to come.
`AvailableExtensions!Spec` assumes that a statement and the reading of a file
end, and nothing of the files and definitions that change meanwhile. `HttpRegistry`
and `Replies` state no liveness.

## 4. What the checks show

The core's properties hold, under both isolation levels where they claim to:
whole installations and ended transactions do not need a serializable database;
the absence of orphaned instances and the refinement of `Permitted` operations do.

Disagreements between the code and what is said of it, each with a run that
exhibits it:

1. `expiry`: `doc/design.md:116` justifies that the cache of the index never
   expires by a controller per request; the controller is created once.
2. `script_reader`: `GetScriptByName` takes a failure before the row for the
   absence of the script. `ListFiles` and `ReadMetadataTables` do the same
   between two rows. `ReturnsAllRows` is about the readers that do ask
   (`AsksForError`), and `StableIsFound` excludes lists that lost rows this way;
   TLC refutes both without these conditions.
3. `restart`: `Stop` followed by `StartInBackground` can end the process.
   `turns` shows that nothing else does, when servers are only stopped by their
   owner (`OnlyRestartIsFatal`).

Other properties hold only under a condition they state, and TLC refutes them
without it:

- `CommitIsTold` names two exceptions. A status of a success that an extension
  throws (200, 204), and one that cannot be sent and becomes 200, tell the client
  of a success although the transaction was rolled back. And an upgrade that
  returns null is committed and then answered with an error: its handler panics
  after the commit.
- `OnlyAcceptableInstances` says that the definition that creates an instance has
  accepted its values unless it was replaced just between the two loads.
- `FailsForAReason` names a removed directory among the reasons: it fails the UDF
  and with it the whole list (`list_files_udf.py:40`). A file of a subdirectory
  of the local registry is the other: it is listed by its name and then looked
  for in the top directory (`localDir.go:30`, `:41`).
- `OutputIsWhole` is about commands that write to one stream: two threads that
  append at once lose lines.
- `NothingRunsOn` names what leaves the manager's process running: an interrupt
  during its startup, no connection after it, an exception of the cleanup in
  `close`. A cleanup that a statement aborted after a file was deleted stays
  stuck: the queue is kept, and the file cannot be deleted twice
  (`FileMissesOnlyAfterAbort`).
- The setup of a test can count as created before its manager listens, and also
  when its port is taken; no property claims otherwise.

An extension without `getInstanceParameters` is answered with 500 for its details
(`errorHandlingExtension.go:193`), where `requestGetExtensionDetails.go:29`
documents 404; it is listed as a hazard without a property.

Two first requests load the index twice, and the slower overwrites what the other
has used already (`http.go:43`). That this is harmless is proved
(`RequestsReadWhatIsThere`).

`StartInBackground` takes the answer of another process at the address for its
server's: `ReadyMeansListening` and `NoPanicInTurn` hold as long as no other
process has taken the address (`foreign`), and fail without that condition.

## 5. What is proved

The transaction controller, for any number of clients, extensions, parts, versions
and instances, under `OperationsAssumption` on the constants only:

- `TypeCorrect`: the variables have their types. The type of `bfsTx` excludes
  "committed": the temporary schema is never committed.
- `NothingStaysOpen`, `CommitComesLast`: from the invariant `Discipline`, which
  says at which labels each transaction can be open, that a remembered BucketFS
  client is the only way for `bfsTx` to be open past its creation, and that
  everything the extension has to write is written at the labels of the commit.
  `NothingLeftOpen` alone is not inductive: it does not say who closes what.
- `AlwaysFaithful`: the invariant `Faithful` relates what a request has written
  to the effect of its operation (a part of it, no other key, all of it at the
  commit) and the checks it has passed to its snapshot.
- `Refinement`: `SafeSpec` implements `AtomicOperations!SafeSpec`. The commit is
  the only step that maps to `TakeEffect`; `Faithful` gives that the written keys
  are the whole effect, and with a serializable database that what was permitted
  for the snapshot is permitted for the database at the commit.
- `AlwaysWhole`, `NeverOrphaned`: the invariants of the database content that
  follow for the committed states.
- `RequestsComeToAnEnd`: see "Progress" below.

The list of available extensions, for any tree, registry, requirements, number of
changes and of rows, under `ResultSetsAssumption`, `BucketFsAssumption`,
`AvailableExtensionsAssumption`, `RootedAssumption` (the parents lead to the root)
and `VisibleAssumption` (the equation that defines `Visible`, which a recursive
function satisfies because of `RootedAssumption`); TLC evaluates them on the run's
tree:

- `ListTypes`, `RowsAreWhole`, `OnlyUsableIsListed`, `FailuresHaveReasons`: from
  the invariant `IInv`. The properties alone are not inductive: they do not say
  that each generator on the stack is in a directory the walk may enter, and was
  created when that directory was there (`GoodFrames`), that the result ends only
  where all rows have been read or something has failed (`Reading`), and that
  what is still to be loaded was in the registry when it was found (`Loading`).
- `NothingStableIsMissed`: from `IInv` and the invariant `CInv`. `Up(f)` is the
  path of a file up to the root, as the least set closed under `Parent`, which
  needs no recursion; a generator leads to a file when it has still to read or to
  yield something on its path (`Leads`), and until the walk has ended each visible
  file that stays has been emitted, or some generator leads to it (`Complete`).
  Each action of the walk keeps this: a directory on the path is there when it is
  read (`UpPresent`) and may be entered (`UpVisible`). `Counted` takes it through
  the reader to the rows the controller gets, and `Kept` through the loading of
  definitions to the list.
- `UndisturbedListsAreExact`: the converse, for a request beside which nothing
  changes. Until the first change everything is as it was when the request came
  and what was loaded is what is there (`AsItBegan`); with `OnlyUsableIsListed`
  and `NothingStableIsMissed` the list then is an equation, not two inclusions
  under different conditions.
- `ReadersAnswerWhatTheyRead` is about `ResultSets` by itself.

The HTTP registry, for any ids, URLs, versions and number of requests, under
`HttpRegistryAssumption`:

- `RegistryTypes`, `AlwaysFresh`, `ListsAreWhole`, `OutagesAreForgotten`. The
  properties speak of requests that have returned; the invariant follows what a
  request carries on its way there: it has or finds an index, and what it
  fetches is an id it wants at a URL some edition has for it (`OnItsWay`); what
  it has read and what it has still to read are the ids of one edition
  (`Listing`); and definitions are only replaced by later ones (`Since`). A step
  of one request leaves the others' parts alone, except where it stores an index.
- `RequestsReadWhatIsThere`: what a request returns was published: a definition is
  one that was served during the request at a URL some published index has for
  it, and a list is that of one published index. The slower of two first requests
  may overwrite the index the other has begun to use; this is why that is
  harmless.
- `CacheIsNeverRenewed` generalises what the run `expiry` shows: once an index is
  cached and no request is at its loading, the cache never changes again.

The REST server, for any number of servers and requests, under
`RestServerAssumption` and with the safety part of the specification:

- `ServerTypes`, `TurnsDoNotPanic`, `OnlyRestartsAreFatal`, `ReadyIsListening`,
  `StoppedIsIdle`. What the code leaves implicit, and the invariant says, is whose
  server the fields of the API object hold while the owner starts and stops it:
  before a goroutine has created its server there is none, and no other goroutine
  is about to create one (`Starting`); `Stop` runs with a server, and closes it
  after it has set the flag (`Owned`); a goroutine serves the server it has
  created (`OwnServer`); only the server of the last start listens (`Alone`),
  none if another process is in the way (`Displaced`), and only it has requests
  (`Answered`). When a goroutine of a stopped server finds the flag cleared,
  another goroutine was started later and has not ended (`Cleared`): without it
  `OnlyRestartIsFatal` is not inductive.
- `OneServerListens`: who answers at the address is the server `api.server` points
  to, never the one before it. `NoRequestJoinsAStop`: after the listener has been
  closed no server accepts requests until the next start. Both from `Alone`,
  `Displaced` and `OwnServer`.

The upload, for any links, editions and builds, under `UploadAssumption`:

- `UploadTypes`, `SuccessIsVisible`, `NamesWhatIsThere`, and `UploadPublishes`:
  the upload implements `PublishedRegistry`. What the edge has is not newer than
  the bucket, the bucket not newer than the local files, and both were approved
  (`Order`); a run that has passed the verification has an answer of every link
  (`Verified`); what is being uploaded was verified, also by a run that has
  failed meanwhile (`Uploading`); and after the uploads only an open invalidation
  lets the edge keep older copies (`Uploaded`).

Replies, for any extension, any integers it throws as statuses, any requests and any
definitions and values of parameters, under `RepliesAssumption` and
`ParameterAssumption`:

- `ReplyTypes`, `StatusesAreTold`, `CommitsAreTold`, `InstancesAreAcceptable`,
  `UninstallsAreChecked`. The stages of all routes come in one order (`Rank`), so
  that what is left of a request says which stages it has behind it (`Now`): for
  each stage behind it, the invariant says what is known of the extension, the
  definition in use and the error. `ValidIsAcceptable` proves that values the
  validator finds no fault with are acceptable to the definitions; it needs that
  a set of positions has a least element, which follows from the theorems about
  finite sets and needs no recursion.
- `ValidatorIsExact` is its other half, about the operators alone: the validator
  finds fault if and only if the definitions do not accept the values, and fails
  only if it has to look into a broken definition.
- `RefusalsHaveCauses`: the statuses other than those of success and of internal
  errors mean what they say, or were thrown by the extension, and nothing was
  committed.

The setup of a Java test class, for any objects, files and callbacks and any
number of lines, under `TestSetupAssumption` and `MaxLinesAssumption`:

- `OutputsAreWhole`: a stream has ended only when the process had, and was read to
  its end (`AllRead`); a thread alone finds the end of the text where its last line
  ended (`Alone`); and the caller has seen both streams closed when it goes on
  (`Waited`). The proof showed that the array of the `StringBuilder` must be
  modelled apart from its length.
- `CleanupsClean`: everything that exists is registered, and during a cleanup the
  callback for it is still to come (`Covered`).
- `FilesMissOnlyAfterAborts`: a file is registered once, and without an abort it
  exists as long as its callback is to come (`Registering`); objects and files
  are different things (`TestSetupAssumption`).
- `NothingIsLeftRunning`, `SetupTypes`: from `Managed`, which says where a
  manager's process exists.

### Progress

Liveness under fairness is out of the prover's reach. What it rests on is not: for
each component there is a measure of what is left to do, and a theorem that the
component's own steps shorten it, that nobody else's step lengthens it, and what
bounds it. These are properties of steps, proved from the same invariants:

| Theorem | Measure | Bound | What cannot lengthen it |
|---|---|---|---|
| `RequestsComeToAnEnd` (`TransactionController_proofs`) | `Distance(c)` | the parts of an extension and 15 | other requests, cancellations, automatic rollbacks |
| `ListsComeToAnEnd` | (`Phase`, `Left`), lexicographic | phases 0 to 10; what the tree, the rows and the ids have left | files and definitions that come and go |
| `RequestsComeToAnEnd` (`HttpRegistry_proofs`) | `Distance(r)` | five for each id, and five | other requests, publications, outages |
| `StopsComeToAnEnd` | `StopLeft` | the requests in progress and three | new requests, goroutines of `Serve` |
| `ServesComeToAnEnd` | `ServeLeft(g)` | six | the owner, other goroutines |
| `UploadsComeToAnEnd` | `RunLeft` | the links and eight; 0 exactly when the run has ended | the edge, the servers of the links |
| `SetupsComeToAnEnd` | `StepsLeft` | 24 for `create`, the callbacks and four for a cleanup | the commands, their streams, the manager, tests |

The measure of a list follows the walk over BucketFS. A generator on its stack may
still have all it has read of its directory before it; that this ends needs that no
directory is entered twice (`Once`: no two generators of the stack lead to the
same node), which holds because a node has one parent and the parents lead to the
root, also while directories come and go.

The hypotheses that `Clients`, `Parts`, `Ids`, `Urls` or the nodes of the tree are
finite sets are those of any program that holds them in memory; their sizes are
arbitrary.

What these theorems leave to TLC is that there always is a step to take, and that
the fair ones suffice: it checks `TransactionsEnd`, `ImplementsFairOperations`,
`StopEndsServer`, `RunEnds`, `CreateEnds` and `ListEnds`.

Every safety property that a passing run checks is proved. Model-checked only are
liveness (the six above) and ENABLED, which are
out of the prover's reach, and the three properties the code violates, for which
TLC gives the behaviours.

## 6. Plan

What could follow, in this order:

1. `ReadMetadataTables` of the core with the readers of `ResultSets` in place of
   its one step, so that a lost row reaches the client as in `AvailableExtensions`.
2. The exact list of `UndisturbedListsAreExact` for an HTTP registry, whose index
   and definitions `HttpRegistry` models apart from the list.

## 7. Not modelled

- The routes and the OpenAPI document, the generated Java client and the
  infrastructure of the registry are declarations.
- The command line parses flags and calls `Serve` or writes a file, once.
- The Go integration testing helpers fill templates and run npm. Their build lock
  is never waited for: the tests run one after the other, packages too (`-p 1`).
- The name of the internal schema (`INTERNAL_` and seconds) can be the same in two
  concurrent requests. What the second `CREATE SCHEMA` then does is decided by
  the database; `CreateUdfScriptFails` covers the failure.
- Logging, SQL texts, and the content of definitions.

`PROJECT.json` gives the reason for each part.
