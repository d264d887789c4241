# A verification of pdp-server

TLA+ modules, model-checking configurations and proofs for `pdp-server`, a Go
HTTP server that stores pieces of data and adds them to Filecoin proof sets
through Piri. File and line references are to the repository.

## 1. The system

| part | state it keeps | operations | talks to |
|---|---|---|---|
| HTTP API (`pkg/api/server.go`) | none of its own; one goroutine per request | one handler per route | calls every service, synchronously |
| piece service (`pkg/piece/service.go`) | the map `pieces`, in memory, behind one mutex | prepare, upload, add to proof set, monitor, get | blob store, the server's own database, Piri through the adapter |
| file blob store (`pkg/blobstore`) | one file per piece CID | `Put`: create (truncate), then copy | the file system |
| upload service (`pkg/upload/service.go`) | the map `uploads` behind a readers-writer lock; `uploads.json` | upload, list | Piri's blob store, the file system |
| transaction watcher (`pkg/watcher`) | rows of transactions in the server's own database | every 10 s: copy the status of pending rows from Piri's database; add a row | both databases |
| proof set services (`pkg/proofset`) | the simple one: rows in the server's own database; the other: none, it reads what Piri wrote | create, list, get, roots, status | the server's own database, Piri |
| Piri adapter (`pkg/service`) | none | `ProofSetAddRoot`, today a mock | nothing |
| `main`, configuration, wallet, Piri server | two LevelDB directories that one process may have open | start, in a fixed order | each other |

Parts interact by calls and by what they leave on disk. The piece service and
the watcher never call each other: the watcher writes rows that the piece
service reads when a client asks. The upload service and the piece service
share nothing but the data directory. Piri runs in the same process and writes
a database of its own.

**What is hard.** The piece service serialises its operations, so what goes
wrong is between operations and around them: a content that has several piece
IDs but one blob and one set of rows, a crash between two durable effects (the
blob is truncated and then copied, the rows are committed and then Piri is
called), a call that fails after rows were committed, and the fact that the map
is forgotten at a restart while files and rows are not. The upload service
lets savers overlap under a shared read lock while each of them truncates and
rewrites the same file. The watcher works through rows it read before, against
a database that somebody else writes, with queries that fail one by one. The
proof set service answers from several queries that are not one transaction,
and was given a database in which a table of the right name is another one.
Start-up may be tried by several processes over one data directory.

**What makes the parts correct.**

- piece service: a piece commitment is submitted at most once; a status that
  claims a submission or a confirmation is true; a piece the service answers
  for has its whole content; every request is answered.
- padding: the stored length is the least power of two that holds the file, and
  whatever an upload accepts the later operation can take.
- upload service: no file is listed without its bytes; once nobody is saving, a
  restart loads what is in memory; every upload is answered.
- watcher: a pending row is resolved once Piri's is, and only then; `Stop` and
  `MonitorTransaction` return, and nothing happens after `Stop`.
- proof sets: an answer is about Piri's proof sets, does not contradict an
  earlier answer, and has the ID of what it calls created.
- start-up: one server per data directory, which never overwrites the list of
  uploads of the one before it with an older one of its own (a kill in the
  middle of a save loses that list all the same), and a server again after any
  failure.
- the whole: what a client is told of a transaction is what Piri's database
  says, and, if somebody has the transaction monitored, it is told in the end.

`PROJECT.json` lists the hazards line by line.

## 2. The modules

| module | models | code it stands for |
|---|---|---|
| `SubmissionLedger` | abstract: a commitment is claimed for good, and submitted at most once | the promise of `AddPieceToProofSet` |
| `PieceService` | the piece service with its HTTP handlers, blob store, rows and restarts | `piece/service.go`, `api/server.go:320-443,494-526,571-619`, `blobstore.go` |
| `PiecePadding` | the sizes a piece goes through, from the request to its row | `piece/service.go:119-136,241-249,394-417` |
| `UploadList` | abstract: a list of files that are stored, and its copy on disk, without goroutines or a lock | the promise of `UploadFile`, `saveMetadata` and `loadMetadata` |
| `UploadService` | uploads, the readers-writer lock, `uploads.json` and restarts | `upload/service.go`, `api/server.go:118-137` |
| `RowMirror` | abstract: the server's own rows follow Piri's, each once | the promise of the watcher |
| `TransactionWatcher` | the loop, its rounds query by query, `Stop`, `MonitorTransaction`, restarts | `transaction_watcher.go` |
| `PdpServer` | `PieceService` composed with `RowMirror`, as `main` wires them | `main.go:40-54,122-139`, `api/server.go:44-61` |
| `PdpSystem` | `PieceService` composed with `TransactionWatcher` itself, and Piri's database | the same, with the watcher's goroutine in it |
| `ProofSets` | both proof set services and their handlers, with Piri writing meanwhile | `proofset/*.go`, `api/server.go:161-318` |
| `DataDirectory` | abstract: a data directory that processes hold in turn, and `uploads.json`, which only the holder writes and only after it looked for a list there | the promise of start-up |
| `Startup` | processes that start over one data directory, step by step, and what they do to `uploads.json` | `main.go`, `config.go`, `wallet.go`, `piri/server.go`, `api/server.go:31-61`, `upload/service.go:48-108,155-167` |
| `MC...` | values for the constants | |
| `...Proofs` | the theorems of the module and their proofs | |

Refinements connect them. Each component implements an abstract specification
of what it promises: `PieceService` implements `SubmissionLedger`,
`UploadService` implements `UploadList`, `TransactionWatcher` implements
`RowMirror`, and `Startup` implements `DataDirectory`. The composition goes the
same way: `PdpSystem` (the piece service with the watcher) implements
`PdpServer` (the piece service with the mirror), which implements
`PieceService`. So what holds of the piece service holds in the server, and
what holds of the server holds in the whole process.

### PieceService

A request is a goroutine `h`; `pc[h]` and `req[h]` say where it is and what it
asks. Handlers (`HandleUploadPiece`, ...) accept a request; the operation
(`UploadPiece`, `AddPieceToProofSet`, ...) starts when the mutex is free. Since
the mutex is held to the end, an operation is one step unless something durable
changes in the middle of it:

- upload: `UploadPiece` creates the blob, which truncates it if the content was
  uploaded before; `FinishUpload` copies and tracks the piece, or the copy fails
  and leaves the blob cut;
- add: `AddPieceToProofSet` commits the three rows in one transaction;
  `SubmitRoot` calls `ProofSetAddRoot` and records the result.

Between the two steps the process may die (`Restart`), and then only
`blobs`, `parked` and `messageWaits` are left. Error returns are the actions
`Reject...` and `Refuse...`, each with the code's conditions; the constant
`Faults` says which outside operations may fail besides. `parked` holds the
CIDs that have the three rows: the unique index on `piece_cid` is the guard of
`CreatePiriDatabaseEntries`. `calls` is a history variable, the log of calls of
`ProofSetAddRoot`. The result of a call is chosen from `PiriResults`: a hash, a
value that is not a string (the code then keeps the former hash), or an error.
`MonitorTransactionStatus` is followed by the `GetPiece` its handler performs
under a lock of its own, so another request can come between.

The rows `messageWaits` change by `MonitorTransaction` and `UpdateTransaction`,
the most the watcher may do to them; `PdpServer` shows that what it does is no
more than that.

`GetPiece` takes a read lock in the code and the free mutex in the model. That
loses no behaviour: it changes nothing, and a reader and a writer exclude each
other in both.

### PiecePadding

One piece's life, one step per iteration of the loop: `UploadPiece` (a file of
any size, never empty: the handler refuses that), `Double`, `Pad`, then
`Digest` or `Refuse` by go-fil-commp's minimum of 65 bytes, then
`CreatePiriDatabaseEntries` with the two sizes of the row. `Powers` is a set
with the properties `PowersAssumption` names; those are all the proofs use.

### UploadService

`StoreFile`, `Lock`, `TrackFile`, `BeginSave`, `EndSave`: `Lock` and `TrackFile`
are apart because a writer that waits for readers already keeps new readers
out, which is what `sync.RWMutex` does. `BeginSave` takes the read lock,
marshals and truncates `uploads.json` (`file' = Torn`); `EndSave` writes what
was marshalled, or fails and leaves the file torn; `SkipSave` fails before it
truncates. Several savers may be between the two. `LoadMetadata` of a torn file
is the empty list, since `NewUploadService` ignores the error. `answered` and
`warned` (the save that ended last had failed) are history variables.

`UploadList` has none of the goroutines: `Put`, `Track`, `Tear`,
`SaveAndAnswer`, `WarnAndAnswer` and `Reload` are what uploads and restarts do
to the list, the file on disk, the blob store and the answers. That `EndSave`
is `SaveAndAnswer`, and not the write of some older list, is what the lock is
for.

### TransactionWatcher

`loop` is where the goroutine is. A round is `ReadPending` (the mutex and the
query for pending rows), then for each row in any order `NextTx`, `QueryPiri`
and, if Piri's row has left "pending", `UpdateRow`, then `EndRound` (unlock).
Each query has an action in which it fails and the loop goes on. `TakeTick` and
`TakeStop` are the cases of the `select`, either of which may be taken when both
are ready. `Stop` is `CloseStopChan` and, when the goroutine has returned,
`ReturnFromStop`. `MonitorTransaction` is one step, as it holds the mutex from
its check to its insertion; one caller is therefore enough. The context `main`
passes is never cancelled, so its case of the `select` is left out. What
`handleConfirmedTransaction` calls only logs.

`Readable` are the hashes whose query in Piri's database can succeed. With the
deployed names of the tables it may be empty: the watcher's struct has no
`TableName`, so its queries ask for `message_waits_eths`.

### PdpServer

`PieceService` with `messageWaits` for the mirror's `rows`. Requests are served
once `Start` has returned. `Watched` are the hashes somebody has given to
`MonitorTransaction`: in the repository nobody calls it, and the run
`PendingForever` (of `PdpSystem`) has `Watched = {}`. `PdpServer` is a safety
specification, between the process and its parts: `System` checks that the
process implements it, and its own properties are stated there of the process.

### PdpSystem

`PdpServer` with the state of `TransactionWatcher` where the mirror was: an
instance of that module whose `rows` are the `messageWaits` of `PieceService`
and whose `piriRows` and `restarts` are the server's. A step is one of a
request (`ServePieces`), of the goroutine or its ticker (`RunWatcher`), of a
caller of `MonitorTransaction` (`AskToWatch`, for the hashes in `Watched`), of
Piri, the launch of both (`StartAll`: `PDPServer.Start` starts the goroutine
before `main` listens) or a crash of both (`CrashAll`). `Watcher!CloseStopChan`
is not among them: nothing in the repository calls `Stop` of the watcher, nor
does `PDPServer.Stop`.

### ProofSets

One action per query of a request; `read[h]` is what it has read so far, and its
answer when it ended. `creates`, `proofSets` and `waits` are Piri's tables;
`simpleSets` is the simple service's, whose ID is the position of the row.
`database` says what `ProofSetService` was given: `main.go:124` gives it the
server's own database, which has none of Piri's tables but a `pdp_proof_sets`
of the simple service's; the code is written for Piri's. The model starts with
either. In its own database every query but the first of `GetProofSetStatus`
and `GetProofSetByID` fails, and that one finds rows of the wrong table.
`CreateProofSet`, `GetProofSet` and `GetProofSetByID` of `ProofSetService` are
reached by no route and are in the model all the same (`CallCreateProofSet`,
`CallGetProofSet`, `CallGetProofSetByID`). `told`
and `known` are history variables: which creations somebody was told are done,
and which were when a request came. `missed` marks the IDs whose query failed.

Piri inserts a proof set and marks its creation no earlier than that; both are
taken from Piri's triggers and code as far as they show in its binary, and are
marked external in the map. The content of the root rows is not modelled, since
nothing is computed from it.

### Startup

`After` is the order of steps in `main` and `initializePDPServer`, with
`piri.NewServer` in three. A step is taken (`Proceed`), or the process exits:
`Refuse` where it must fail (a LevelDB directory is open elsewhere, the wallet
lacks the address, the port is taken), `Fail` by any other fault or a kill at
any moment. `owner` is the process that has each LevelDB directory open; the
operating system releases it when the process ends. A process uses the wallet
in its user's home if there is one and one in the data directory otherwise.
The directories that start-up makes are not modelled: `os.MkdirAll` and
`AutoMigrate` accept what is there.

`uploads.json` is `saved`, the list that was last written whole, and `torn`,
whether it was truncated since. An upload of a serving process is `TrackFile`
(the map `uploads[p]`), `BeginSave` (`os.WriteFile` truncates the file) and
`EndSave` (it writes the map), or `FailSave`: the file cannot be opened, or is
not written whole, which is only warned about. `saves` says how far each upload
is. A process may be killed between any two of these steps. `LoadMetadata`, in
`NewPDPServer`, takes over the list, and an empty one if the file is torn or
cannot be read. `blank` is a history variable: the file was not loaded when the
services were last made, and was not written since. The lock of the map is the
subject of `UploadService`; here it is the guard of `TrackFile`, that nobody of
the process is writing. A file is uploaded by one request at a time.

In `DataDirectory` the holder is whoever has Piri's datastore open, it has
loaded once its services are made, and what it knows is nothing until then.

## 3. What is checked

Passing runs:

| run | instance | shows |
|---|---|---|
| `Pieces` | 2 requests, 2 piece IDs, 2 contents with a CID and one without, 1 proof set, 1 hash, all faults and results, 2 restarts; symmetric requests | the inductive invariant `IInv` (of which, as of the invariants named `...Inv` below, the type invariant is a part); `AtMostOnceSubmission`; `SubmittedPieceOwnsCall`; `ConfirmedOnlyByRow`; `UnlockedBlobsComplete`; `NeverBlocked`; `OrphanedRowsStayOrphaned`; `LedgerSpec`, the refinement of `SubmissionLedger` |
| `Padding` | every file size up to 1200 | `LeastPower`, `SizeIsPieceSize`, the inductive invariant `PaddingInv`, `UploadDecided` |
| `Uploads` | 3 uploads, 2 contents, 1 name, all faults, 1 restart | `ListedFilesStored`, `FileCurrent`, `AnsweredSaved`, the inductive invariant `UploadInv`, `NeverStuck`, `ListSpec` (the refinement of `UploadList`), `UploadAnswered` |
| `Watcher` | 2 hashes, one of them never readable in Piri's database, 1 caller, 1 restart | `ResolvedAsPiri`, `QuietAfterStop`, `MirrorSpec` (the refinement of `RowMirror`, with its fairness), `StopReturns`, `MonitorReturns`, the inductive invariant `WatcherInv` |
| `System` | 1 request, 1 caller of `MonitorTransaction`, 1 piece, 1 hash, failing transactions and queries, all results, 1 restart | `ConfirmedAsPiri`; `RequestsAnswered`; `MonitoredIsResolved`; `ServerSteps` and `PieceSpec`, the refinements of `PdpServer` and `PieceService` |
| `ProofSets` | 2 requests, 2 transactions, 2 proof sets, either database, all faults; symmetric requests and hashes | `CreatedHasID`, `AnswersNeverGoBack`, `AnswersArePiris`, the inductive invariant `ProofSetsInv` |
| `Startup` | 3 processes, two with a wallet that has the address and one without, 2 files, 3 faults | `OneServer`, `UploadsKept`, `ServesAgain`, the inductive invariant `StartupInv`, `DirectorySpec` (the refinement of `DataDirectory`) |

Why the bounds are enough. Two requests suffice for the mutex, three for the
readers-writer lock (two readers and a writer). Two piece IDs for one content
give every case of a shared blob and shared rows; the second content gives
re-uploads of different contents under one ID. Two restarts let the process die
once at each of two durable steps, or twice at the same one. 1200 bytes pass
the boundaries 64/65, 128, 256, 512 and 1024 on both sides. Two hashes let one
row's failure get in the way of the other, and two transactions let one
creation be listed while another one is written. In `System` one request, one
caller and one hash are enough to interleave a round with all that changes the
rows it works on: the caller, Piri, a crash and a client's question; how
requests and rows get in each other's way are the questions of `Pieces` and
`Watcher`. Three processes let one hold
the datastore, another wait for it, and a third be of no use.
`MaxRestarts`, `MaxFileSize`, `MaxSets` and `MaxFaults` are the only bounds on
counters; `calls` is bounded by the property it is checked for. `MaxFaults` is
also what `ServesAgain` needs: a server that is killed for ever does not serve.
Three faults let a process be killed in a save, its successor start with an
empty list, and that one fail or be killed in a save of its own; two files are a
list from which one can be missing.
`Padding` turns off the deadlock check because one piece's life ends; nothing
else stops.

`UnlockedBlobsComplete` allows a blob that a failed write has cut
(`blobstore.go:46` truncates before the copy), until a later write of the same
content mends it. `FileCurrent` and `AnsweredSaved` hold unless the save that
ended last had failed: the code warns and answers 200, but one whole save makes
good all the failed ones before it. `UploadsKept` is about processes that
overwrite each other's lists, and makes an exception of a process that could not
load the list (`blank`): that the list is then lost is `UploadLost`'s finding,
and `StartupInv` says that it takes a kill or a fault. `MonitoredIsResolved` is
about hashes that have a row in the server's own table. Only
`MonitorTransaction` makes such rows, and in the repository nothing calls it: in
the server as it is the property has no instance, and `PendingForever` shows
what happens instead. It is what the watcher would owe a caller.

Every property of a passing run is broken by at least one of the slips kept in
the modules ("Slip: ...", listed under `mutants`): rows that are upserted, the
mutex released for the I/O, a return that keeps it, one doubling too many, an
answer before the save, a round that ends with the first failing row, a `Stop`
that does not wait, a list that looks up status and ID at different times, the
services made before Piri's server, and so on.

**Fairness.** Requests: weak fairness for a step of a request that holds the
mutex (copies, commits and the adapter's call return), strong fairness for one
that waits for it, since `sync.RWMutex` passes over nobody for ever. The upload
service is treated the same way. The watcher's goroutine runs on and its ticker
ticks; `TakeStop` is strongly fair because `select` chooses at random among the
cases that are ready; a query is strongly fair to succeed when it can at all,
which is what makes "the row is resolved in the end" mean something with
queries that may fail; `Stop` and `Piri` owe nothing. `System` has the fairness
of both its parts, and none for callers of `MonitorTransaction`. That clients go
on asking is a premise of `MonitoredIsResolved` (`ClientsAsk`), which is about a
status that only a client's question changes, and of nothing else.
In `Startup` the supervisor launches a process
that ended (`Restart=always`, `docs/DEPLOYMENT.md:244`), and a step of start-up
that can be taken is. There is no fairness for crashes and faults anywhere.

### Where the code and its documentation differ

Each is a run that TLC finds violated.

| run | says | does |
|---|---|---|
| `PreparedThenUpload` | `docs/API.md:108` "Prepare a piece for upload." | an upload under a prepared ID is always turned down (`piece/service.go:112`) |
| `PieceInfoLost` | `docs/ARCHITECTURE.md:80-82` lists "Piece information and status" in the SQLite database | it is in a map that a restart empties |
| `UploadLost` | `upload/service.go:155` "Track the uploaded file (with persistence)" | a crash during any later save tears `uploads.json`, and the start-up ignores that |
| `PendingForever` | `docs/ARCHITECTURE.md:117` "Transaction watcher keeps databases in sync" | nothing calls `MonitorTransaction` (`watcher.go:189`), so there is no row to keep |
| `CreatedListed` | `docs/API.md:214` "List all proof sets." | `POST /proofsets` writes to one table, `GET /proofsets` reads another (`api/server.go:176,194`), which the database it is given (`main.go:124`) does not have: every list is answered with an error, without any fault |

More that no run is spent on: `test_complete.sh:80` says "Small file (will be
padded to 128 bytes)", and 12 bytes become 16, which the digest then refuses;
`piece/service.go:247` says "Mark as complete since we have the data", and a
crash in a re-upload leaves such a row over a truncated blob; the raw size of a
row is the padded length (line 246 says "Use the file size as raw size");
preparing a file overwrites a piece of the same ID, with the transaction hash
that line 217 stores "for monitoring"; `docs/DEPLOYMENT.md:55-67` describes a
set-up with a key file only, with which the server cannot start, since
`ImportKey` imports nothing and `HasAddress` then fails.

## 4. What is proved

For every value of the constants that satisfies the named assumptions
(`ConstantsAssumption`, `PowersAssumption`, `DigestAssumption`,
`UploadAssumption`, `WatcherAssumption`, `WatchedAssumption`,
`SystemAssumption`, `ProofSetsAssumption`, `StartupAssumption`), without a bound on requests, IDs,
contents, file sizes, hashes, processes or restarts:

- `PieceServiceProofs`: `Invariance`, `TypeCorrect`, `AtMostOnce`,
  `SubmissionOwned`, `ConfirmedByRow`, `OrphanedRows`, `BlobsComplete`,
  `NeverAllBlocked`, `ImplementsLedger`;
- `PiecePaddingProofs`: `Typing`, `Loop`, `PadsToLeastPower`, `AcceptedSizes`;
- `UploadServiceProofs`: `UploadInvariance`, `UploadTypeCorrect`,
  `ListedStored`, `FileIsCurrent`, `AnsweredIsSaved`, `ImplementsList`,
  `NeverAllWait`;
- `TransactionWatcherProofs`: `WatcherInvariance`, `WatcherTypeCorrect`,
  `ResolvedRows`, `QuietOnceStopped`, `ImplementsMirror`;
- `PdpServerProofs`: `ServesPieces`, `ServerSubmitsOnce`, `ConfirmedByPiri`,
  `ServerTypeCorrect`;
- `PdpSystemProofs`: `RunsWatcher`, `ImplementsServer`, `SystemSubmitsOnce`,
  `SystemNeverBlocks`, `SystemConfirmsAsPiri`;
- `ProofSetsProofs`: `ProofSetsInvariance`, `ProofSetsTypeCorrect`,
  `CreatedIsIdentified`, `AnswersMonotone`, `OnlyPirisAnswers`;
- `StartupProofs`: `StartupInvariance`, `OneServerAtATime`, `UploadsSurvive`,
  `ImplementsDirectory`.

**The argument for the piece service.** `AtMostOnceSubmission` alone is not
inductive: a request about to call Piri must be known to be the only one, and
its CID not yet called. `IInv` adds that

- the mutex has a holder exactly while a request is between two durable effects
  (`MutexInv`), so there is at most one;
- such a request still finds what it checked before (`CopyingInv`,
  `SubmittingInv`): its piece is tracked and uploaded, its rows are committed
  and its CID is not among the calls;
- every call's CID has rows: with the guard of the commit this is what survives
  a restart, when all the rest of the state is forgotten;
- a piece past "uploaded" has been called, and no other piece of its CID is
  past it (`PiecesInv`).

`BlobsComplete` and `ConfirmedByRow` have small invariants of their own: that
the one blob that may be partial is the one the mutex's holder is copying, and
that a row which reads "succeeded" is not changed again.

`NeverBlocked` is the part of `RequestsAnswered` that needs no fairness: the
holder of the mutex has what its last step needs (`MutexInv`, `CopyingInv`,
`SubmittingInv`) and waits for nobody. The run `System` checks the liveness with
one request; that more of them do not get in each other's way is `NeverBlocked`,
checked with two and proved for any number, in the service and in the process.

**The argument for the padding.** `LoopInv`: the loop variable is a power of two
less than twice the file's size. A smaller power that held the file would be at
most half of it.

**The argument for the upload service.** `SaversInv`: while a saver is writing
nobody tracks a file, so what it marshalled is still the map. `FileIsCurrent`
adds that whoever tracked a file is still to save. `ImplementsList` is the same
fact step by step: what `EndSave` writes is the map as it is. `NeverAllWait`
follows from `SaversInv` too: who asked for the write lock waits for readers,
every reader is at its write, and at a write nobody waits. It is the part of
`UploadAnswered` that needs no fairness, and so can be proved.

**The argument for the watcher.** `WatcherInv`: the mutex is held exactly during
a round; rows still to be checked are pending, because only the round itself
resolves rows; and what was read of Piri's row is still there, because Piri's
row leaves "pending" once. Hence `UpdateRow` is the mirror's step.

**The argument for the server.** `RowsInv`: a row that left "pending" says what
Piri's says. With it each step of the mirror is one that `PieceService` allows,
so the server refines the piece service and takes over its theorems;
`ConfirmedOnlyByRow` and `RowsInv` together give `ConfirmedAsPiri`.

**The argument for the whole process.** It works by instantiation, so nothing
of the watcher is proved twice. No step around the watcher touches its state
or the tables other than as `TransactionWatcher` allows (`RunsWatcher`), so its
invariant holds in the process. With it, and with `SystemInv` (the server is
started exactly while the goroutine is there; nobody asks for a hash outside
`Watched`), each step is one of `PdpServer`: `UpdateRow` is `Mirror`, because
the row is still pending and Piri's row still says what was read of it; a new
row is `Watch`; every other step of the goroutine is none (`ImplementsServer`).
`SystemConfirmsAsPiri` is then `ConfirmedByPiri`, which rests on the theorems of
the piece service: the chain from Piri's row to what the client is told, end to
end.

**The argument for the proof sets.** `PiriInv`: what Piri wrote only grows, the
proof set before the mark. `Justified` says what a request may have read at each
of its queries: what it read as created is created, hence has a proof set, hence
an ID in the later query; and whatever was known when it came it reads as
created. A row of the wrong table is held between two queries only, and the
second of them fails.

**The argument for start-up.** Whoever is past the datastore has it open
(`StartupInv`), so there is one of them; and it loaded the uploads after it had
opened the datastore, so nobody else has saved any since, and what it writes
contains the list that was last written. It does not contain it if the process
started with an empty list. For that the file was torn when nobody was writing
it, or could not be read: `StartupInv` adds that only a process that serves is
in a save, and that a torn file which nobody is writing, and an empty start,
both come after a kill or a fault. `ImplementsDirectory` takes the steps one by
one: `TrackFile` is `Add`, `BeginSave` is `Tear`, `EndSave` is `Save`; that a
process knows of no uploads before it made its services is needed there, because
the directory is taken over with an empty list.

**Only model-checked**: liveness (`RequestsAnswered`, `UploadAnswered`,
`UploadDecided`, `StopReturns`, `MonitorReturns`, `MonitoredIsResolved`,
`ServesAgain`, the fairness of `MirrorSpec`), which is beyond the prover, and
the violated claims. Nothing in the models is recursive.

## 5. What is not modelled

- The bytes: CommP, CIDs and hashes are given functions (`PieceCIDOf`,
  `PieceIDOf`); that `PieceCIDOf` may map two contents to one CID (files that
  differ in trailing zeros are padded to the same bytes) is allowed.
- Responses, wording and logging; `ErrorMessage` and timestamps. A handler reads
  the fields of a shared `PieceInfo` after the unlock while another request
  assigns them (`piece/service.go:299`): a data race on strings and times, whose
  outcomes depend on compiler and machine.
- go-fil-commp's padded size, and what `GenerateUnsealedCID` makes of a size
  that is smaller than it (`piece/service.go:180`): the library is not in the
  repository. A commitment that an upload accepted decodes and has a size that
  validates (`SizeIsPieceSize`), so the two error returns before the commit are
  taken not to happen.
- `ListPieces`, `GetPieceContent`, `GetFile`, `Delete`, `PDPServer.Stop`,
  `SimpleProofSetService.ListProofSets` and the adapter's `UploadPiece`, which
  nothing calls; the status and prove handlers, which answer constants, and
  `handlePiriPieceUpload`, which hands the request to Piri.
- The values of the configuration and the format of the key file; Piri itself,
  but for what it writes to its database.

With these the plan is done: what is left of the code keeps no state, or is
reached by nothing, or is a data race. If `MonitorTransaction` gets a caller,
`Watched` becomes what it watches, its calls get the fairness the caller gives
them, and `MonitoredIsResolved` can drop its premise on `messageWaits`; if the adapter calls Piri, `PiriResults` and the retries of
`SubmitRoot` are the place to start.
