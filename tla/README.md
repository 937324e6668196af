# PocketNPM: TLA+ models, checks and proofs

PocketNPM mirrors an npm registry: it keeps the documents of all packages in a
database and their tarballs in a directory, follows the registry's changes, and
serves what it has. This project models the mirroring process, its two
databases, the migration between them, the downloads and the server beside the
mirror, checks the models with TLC and proves most of their safety properties
with TLAPS.

## The system

| Part | Code | State | Operations |
| --- | --- | --- | --- |
| Mirroring process | `npm/mirror.go` (`Run`, `FirstRun`, `Update`) | locals only: the sequence and the counts read at start-up | initialise, first run, continue mode, sync mode |
| Worker pool | `npm/mirror.go` (`Start`), `npm/worker.go` | a slice of packages, three channels, a `WaitGroup`, `MaxConnections` workers, a dispatcher, a result handler | dispatch, fetch, write, stop |
| Registry client | `npm/npm.go` | none; tarballs on disk | `GetAllDocs`, `GetChangesSince`, `GetDocument`, `Download` |
| Database frontend | `db/database.go` | an in-memory cache | one method per query and transaction, `Migrate`, `Check` |
| Bolt database | `db/bolt_backend.go` | buckets `Globals`, `Packages`, `Marks`, `Documents`, `Files` | one transaction per operation |
| Gorm database | `db/gorm_backend.go` | tables of globals and of packages | the same interface |
| Server | `npm/server.go` | none | index, document, version of a document, tarball |
| Helpers | `npm/utils.go` | none | tarballs of a document, local paths, hashes |
| Command line | `main.go`, `models.go`, `default_toml.go` | none | `init`, `start`, `migrate`, `check` |

`Run` initialises the database and reads its sequence. At sequence 0 it fetches
the list of all packages, puts them into the database as incomplete, saves the
list's sequence and calls `Start`. At a later sequence, with packages left
incomplete, it calls `Start` at once (continue mode). With none left it starts
`Update` (sync mode), which polls for changes since the saved sequence, puts the
packages that differ as incomplete, saves the new sequence and calls `Start`.

`Start` queues every incomplete package to its workers. A worker fetches the
document and the tarballs and passes the result to one handler, which writes it
to the database: completed, or deleted when the registry answered 404. `Start`
waits until all results are written, stops its workers and returns.

What is hard here, and what must hold:

- *The pool* is goroutines, channels of different capacity and one `WaitGroup`
  used for two purposes. It must settle each package once, return only after
  the last, and neither hang nor leave work behind.
- *Kills and restarts*: database, disk and registry are three states that are
  never changed together. No change of the registry may be lost, whatever
  happens between two transactions.
- *The registry moves* while the mirror works: a document may be newer than the
  change that announced it, a package may be gone when it is fetched, or gone
  between its document and its tarballs.
- *Failures are mostly logged and passed over*: of a request, a download, a
  `Put`, a commit. The database must stay consistent.
- *Mode decisions* rest on counts read earlier.
- *The server* reads through a cache that the mirror invalidates in part.

`PROJECT.json` lists every hazard at its line, with the properties that cover
it or the reason why none does.

## Modules

| Module | Models | Rests on |
| --- | --- | --- |
| `MirrorRound` | what one call of `Start` promises | |
| `WorkerPool` | `Start` and its workers, goroutine by goroutine | implements `MirrorRound` |
| `WorkerPoolProofs` | theorems about `WorkerPool` | `WorkerPool` |
| `PocketStore` | what a database promises of each package's entry | |
| `BoltStore` | the buckets and their transactions | |
| `Mirror` | the mirroring process, the disk and the registry | `BoltStore`; its rounds are `MirrorRound`'s; implements `PocketStore` |
| `MirrorProofs`, `ChangeProofs`, `SequenceProofs` | theorems about `Mirror` | `Mirror` |
| `Server` | requests for documents and the document cache, in the mirror's process | composes with `Mirror` |
| `ServerProofs` | theorems about `Server` | `Server`, `SequenceProofs` |
| `GormStore` | the SQL tables, statement by statement | implements `PocketStore` |
| `Migrate` | the `migrate` command, killed and repeated, and a mirror that goes on with what it left | composes with `GormStore` |
| `GormProofs` | theorems about `GormStore` and `Migrate` | `Migrate` |
| `Download` | one tarball on disk over any number of calls | what `disk` in `Mirror` abstracts |
| `DownloadProofs` | theorems about `Download` | `Download` |
| `VersionChoice` | which version answers a request, as operators | |
| `Requests` | local paths, routes, and the requests for documents, versions and tarballs | `VersionChoice` |
| `RequestProofs` | theorems about `Requests` and `VersionChoice` | `Requests` |
| `MCMirror`, `MCServer`, `MCDownload`, `MCRequests` | constants for TLC | |

### WorkerPool

`mainPC` is where `Start`'s own goroutine stands, with `unsent` and `unstopped`
for its two loops; `dispPC`, `workerPC[w]` and `handlerPC` are the other
goroutines, `wg` the counter, `workQueue` and `workerQueue` the buffered
channels. `resultQueue`, `Work` and `QuitChan` are unbuffered: a send and its
receive are one step (`Report`, `HandOff`, `Quit`). `worker.Stop()` spawns a
goroutine that blocks on `QuitChan`; `stopping` holds the workers that have
one. `handled` and `stage` are history: no guard reads them.

What is left out: what a result contains beyond its `Deleted` flag; the branch
of the handler for a closed `resultQueue` (mirror.go:101-104), which nothing
closes; the order of the slice, which no step depends on. The goroutines
spawned at lines 92-151 exist in the initial state, none having moved; the
code starts them before it dispatches, so this only drops steps in which a
goroutine runs before another exists.

### MirrorRound

Sets `todo`, `inHand` and `settled`: a package is fetched once, then settled
once, at most `MaxInHand` are in between, and the call returns after the last.
The mapping in `WorkerPool` takes `inHand` for the results held by workers and
by the handler before it writes, so `MaxInHand` is one per worker and one more.

`Mirror` maps each of its rounds to it too (`Round`, `RoundsFollow`), with the
packages that are incomplete when the round starts. What `WorkerPool` shows of
`Start` is therefore what `Mirror` makes use of: between the two there is no
promise that only one of them knows.

### BoltStore

One function per bucket, `Absent` for a missing key. A revision is the number
of updates a package has seen and 0 the empty string; a document is the
revision it describes, or one of two bodies that are none. Bolt runs one
read-write transaction at a time and a reader sees the last commit, so each
transaction is one step. Only `PutCompleted` can fail in part and still be
committed (database.go:387-389): `PutCompletedPartly`. A `Put` of `PutPackage`
fails only for empty or over-long names; this is left out.

### Mirror

`pc` follows `Run` and `Update`; `caller` is who called `Start`; `batch` and
`lastSeq` lie between the registry's answer and the two transactions that store
it. A round is one counter per package, `at`: queued, fetched, ready (its
tarballs tried), removed (its files deleted, its entries not yet). A worker
tries one tarball per step (`Try`); `wanted` are those still to be tried and
`completed` those it has. Between any two steps, two tarballs of a document
included, the registry may change and the process may die.

- *The disk* is the set of tarballs that are whole. A download that is cut
  short leaves a file whose hash is wrong, which the next `Download` replaces:
  it counts as not there. The document of revision *r* lists tarballs 1..*r*,
  and a deleted package is served none.
- *The cache.* `GetRevision` and `GetCountOfMarks` look into the cache first,
  but decode what they find, a string or a number, into an `interface{}`
  (database.go:249, 272). Package gob refuses that, and both go on to the
  database every time, so they are modelled as reading it. `GetSequence`
  decodes into an `int` (216) and does use its cache: `cachedSeq`. An entry may
  expire at any time, so a read finds either value. The counts of `GetStats`
  are read once, before anything is written. Cached documents concern the
  server only.
- *Failures* are the constant `FaultKinds`, so that a run can say which it
  allows: `crash` (a kill at any step), `allDocs`, `changes`, `document`,
  `tarball` (a request fails or is refused), `put` (a `Put` inside
  `PutCompleted`), `commit`, `sequence` (the commit of `SetSequence`, whose
  error is dropped), `remove` (`RemoveAll` leaves any part of the files, and
  its error is dropped, mirror.go:107). A kill in the middle of a removal is
  that fault and then a `crash`. The disk being full or read-only ends the
  process (npm.go:181, 190) and is a `crash`.
- *The interval* between polls is left out: a poll may come at any time. The
  `-onetime` flag is a choice made where it is read.
- *The registry* starts empty. Its names, revisions and sequence numbers are
  all it is: a deletion is a change as well. Its answers are complete and
  consistent when it gives one.

### PocketStore

The abstract specification of the `PocketStore` interface: one row per package
(there or not, marked, revision, document, files), the sequence, and one action
per method that writes. `PutPackages` leaves document and files of a package
that is queued again, so that it can go on being served; only incomplete
packages are completed or deleted; a completion that fails may leave anything
but a complete package; nothing is written before `Initialize`. Both databases
implement it: `Mirror` over the buckets (`ImplementsStore` there, one row read
from four buckets) and `GormStore` over the tables (`CallsKeepStore` in
`Migrate`, from whatever a migration left; `GormRefinement` from empty ones).

### Server

`Server` runs beside `Mirror` in the same process, as `start -s` does. A
request for a document is up to four steps: the revision for the ETag
(server.go:178), the cache, the database, and filling the cache; the mirror,
an eviction or another request may come between any two. `request[c]` is where
the request of client *c* stands and `copy[c]` what the client keeps, body and
ETag, to ask with `If-None-Match` later. A kill empties the cache and drops the
requests; clients keep their copies. `Fill` may leave an entry out, as bigcache
does with one that is too large. `PutCompleted` drops the key that is the
document's *text* (database.go:377), which no name equals, except that a status
code taken for a document could be one; that is `CacheAfterPut`.

`copy[c][p].source` says where the body was read: in the cache, or in the
database, and then whether the package was complete under the ETag when its
revision or its document was read (`AsTagged`) or still queued. The last is the
window of finding 4: the revision of a change is stored before its document, so
that a queued package has the new one and the old other. `NotModifiedIfComplete`
is about copies outside that window and not from the cache; for those in it
`NotModifiedIsTrue` is violated.

### GormStore

`pc` is the process: it creates the tables and the row of the sequence one
statement after the other (gorm_backend.go:82-96) and may be killed between
them. `PutPackages` may leave out any part of its batch, since its errors are
logged or not looked at (216-242); `SetSequence` may fail unnoticed. What
differs from the buckets: one row holds everything, so that no completion is
left half done; a package that is queued again keeps its columns.

That only incomplete packages are completed or deleted is the caller's doing, not
the store's: a round has no others (mirror.go:153), and `Incomplete(p)` in the
two actions stands for that. `Mirror` has no such guard and shows it
(`RoundKept`, below). Left out is the row with a blank ID that is saved when
the query for an existing row fails for another reason than that there is none
(gorm_backend.go:225, 235-238): it is no package's, and to the package that was
to be queued it is the same as a statement that failed.

### Migrate

`source` is the bolt database, drawn from the entries that a mirror can leave;
`todo` the packages the cursor has yet to come to. A run opens the source,
copies package by package, and saves the sequence. What is called a transaction
is none (database.go:409), so a kill leaves the rows so far, and `Assign` in the
next run writes only columns that are not blank (456). The entries include the
one that a `PutCompleted` leaves which failed after its document and was
committed. Between two runs a mirror may use the source (`UseSource`), or the
tables, whatever is in them, through the calls of `GormStore` (`RunMirror`,
`UseTables`); `moved` records either, once rows had been copied.

### Download

A file is a sequence of blocks, each of the version of the tarball it came
from. It is opened without truncation (npm.go:192), the body is copied over it
block by block, and the copy may end early; a file of the right hash is not
fetched again, and nothing compares the hash afterwards. When the file cannot be
read for its hash, `hashSHA1` returns before it seeks back (utils.go:78), and the
body is copied to wherever the reading stopped: `CallMisreads`, with `offset` as
that position and `misread` as history. The registry may
republish a tarball with other content. `Mirror`'s *on disk* is `TrueMeansWhole`
here: what `Download` answers `true` for begins with the whole tarball, unless
the file could not be read in that call; `Mirror` takes disks to be readable.

### VersionChoice and Requests

Paths are sequences of segments, `LocalPath` and `Url` what `getLocalPath` and
the URL of a tarball make of them. Workers download and the handler removes
(mirror.go:107) under paths computed in one place, the server looks under paths
computed in another, from requests whose meaning depends on their number of
segments and on whether the first is a scope. `Ask` is one request, through the
routes and the functions they call; a request for a version goes on to `Choice`,
for any document and any version asked for. Versions are compared as the code
does, as text: `Text` is the sequence of characters, and the prefix and the
order are those of strings. `MajorAtLeast` and `NewestOfMajor` compare the
answer with the order of semantic versions (`Older`).

The path of a download is that of the URL in the document (npm.go:178). The
module assumes the form the registry gives it, name, hyphen and file name; a
document with another would be mirrored where no route looks.

A request sees the disk once and the document once, so that each is one step
here; what can change between reading the revision and the document is
`Server`'s subject.

## Runs

| Run | Instance | What it shows |
| --- | --- | --- |
| `pool` | 4 packages, 2 workers, buffer 1 | the `WaitGroup` counts what it should; results are all written before workers are stopped; hand-overs never block; nothing is left behind; the goroutines never all wait for each other (`NeverAllBlocked`); every step leaves fewer to take (`AlwaysForward`); `Start` returns; it implements `MirrorRound` with its liveness |
| `mirror_safety` | 2 packages, 4 changes, all faults (`remove` included) but failed documents and tarballs and unsaved sequences | no lost change; complete packages are consistent, their listed files on disk; buckets agree; nothing goes back; the buckets implement `PocketStore` |
| `mirror_failures` | 2 packages, 3 changes, kills, failed documents, tarballs and removals, unsaved sequences | a change of a package that exists is followed or shows; listed files are on disk |
| `mirror_liveness` | 3 packages, 3 changes, kills | every round is a `MirrorRound`; a mirror that has read every change and has nothing incomplete is exactly the registry; incomplete packages are settled; a process that polls converges |
| `server_safety` | 1 package, 2 clients, 2 changes, kills, failed commits and documents | nothing is served that is newer than what is stored; of a complete package 304 is only answered to a client whose copy is current, if the copy was read from the database while the package was complete under its ETag |
| `migrate` | 1 package, 2 revisions, 2 sequences, kills and failing statements | a migration is exact or reports, however often it is killed; a later one brings revisions up to date; tables that a kill or a migration left keep the promises of `PocketStore` to a mirror |
| `download_safety` | tarballs of 3 and 2 blocks, either first, files of up to 6 | what is reported as there is whole, and where in the file; what is whole stays whole while it can be read |
| `requests` | 3 packages, 1 tarball, 6 versions, every path of up to 4 of 7 segments | requests find what they name and nothing else; versions answered are of the major version asked for or later |
| `sync_after_setup` | 2 packages, 3 changes, no fault | violated: see finding 1 |
| `bad_document_marked` | failed documents | violated: see finding 2 |
| `fresh_after_put` | 1 package, 1 client, no fault | violated: see finding 3 |
| `stale_not_modified` | 1 package, 1 client, 2 changes, no fault | violated: see finding 4 |

**Bounds.** The pool's cases are a full `workQueue`, a dispatcher waiting for a
worker, a worker waiting for the handler, and workers that quit while others
have yet to register. With more packages than workers and buffer together all
of them occur; a buffer of 2 stands for 100, and the proofs cover the rest. In
`Mirror` packages interact only through the sequence, the counts, the batch and
the handler, so two show every interaction of a package with another. Four
changes (`MaxSeq`) allow a package that is published, updated, deleted and
published again, or one that changes between any two steps of a first run and
a poll while the other does the same. `MaxConnections` is 1, so that the limit
of results in hand (`InHand`) is reached with two packages; the rounds of
`mirror_liveness` have three, one more than may be in hand. `SeqModulus` is 16,
above every sequence of a run. Kills, restarts and failures are not bounded.
Names and clients are symmetric in the safety runs only. In `Server` packages
do not interact, so one suffices, with two clients of which one may fill the
cache while the other reads; two changes make a package that is updated, or
published and deleted, while requests are under way. In `Migrate` packages do
not interact either, except that the sequence waits for all of them, which the
proof covers. In `Download` a call that could not read the file writes behind
what it read, so files could grow for ever: `MaxBlocks` stops such calls where
the tarball would end past the sixth block, which is two tarballs in a row. In `Requests` the segments are those of one plain and two scoped
packages, one of which has the plain one's name, and the versions have one- and
two-digit numbers, several of one major version and a prerelease.

**Deadlock** is checked everywhere. `Start` having returned and `Run` waiting
at `<-exit` are explicit stuttering steps.

**Fairness.** In `WorkerPool` each goroutine is weakly fair: Go's scheduler
runs every goroutine that can run, a channel operation that stays possible is
made, and `MirrorPackage` assumes that requests end (the code sets no timeout;
see the hazards). In `Mirror` the process as a whole is weakly fair, which is
what a round that ends and transactions that end give. Nothing is assumed of
the registry, of who restarts the process, or of faults. Accordingly
`IncompleteSettled` makes an exception for a process that dies, and
`PollingConverges` speaks of a process that stays in `Update`; the bound on
changes brings the registry to rest.

## Findings

1. **Sync mode never starts in the process that sets the mirror up**
   (mirror.go:274). README.md:24 promises it. The counts compared were read
   before `Start`; only the next start of the program syncs.
2. **A failed request for a document completes the package** (worker.go:81-120,
   npm.go:138-145). It is marked as completed with an empty revision and an
   empty body or a status code as its document, which the program's own check
   (database.go:130) calls an inconsistency. `LiveChangesShow` is what still
   holds: the empty revision equals no change's, so the next change of the
   package repairs it. Nothing else does.
3. **An update leaves the old document in the server's cache**
   (database.go:377). `PutCompleted` drops entries under the document's text,
   where `GetDocument` keeps them under the name. database_test.go:159 expects
   the document that was put. `NeverAhead` is what still holds: what is cached
   was stored earlier and is never newer. A client that gets the old body from
   the cache, under the new ETag, is told 304 afterwards.
4. **A client that asks for a package that is queued is told 304 with an old
   document** (server.go:178, 191). A change stores the revision of a package at
   once (mirror.go:209) and its document only with `PutCompleted`. In between
   the server makes the ETag from the one and answers the other; the new
   document is then stored under that same ETag, and the client, which
   revalidates as server.go:188 tells it to, keeps the old one until the package
   changes again. It needs no fault and no cache. `NotModifiedIfComplete` is what
   still holds, outside this window and for copies from the database.

Observations that no run asks about, as far as the models or the reading of the
code have shown them:

- *Mirror.* A failed download completes the package (mirror.go:119-125) although
  README.md:75 has all files downloaded first; `FilesOnDisk` is about the files
  that are listed. A failed request for changes ends the process: nil is
  dereferenced (mirror.go:179). README.md:78 says that the sequence is updated
  before packages are marked; the code marks first (mirror.go:209-211), which is
  the order `NoLostChange` needs. The commit of `SetSequence` can fail unnoticed
  (bolt_backend.go:98); after a first run that means another first run, and a
  package deleted in between stays completed for ever. The error of `RemoveAll`
  is dropped (mirror.go:107) and the entries are deleted all the same, so what
  could not be removed stays on disk for good, and is served. In a process that
  waits at `<-exit` a package whose commit failed waits for a restart.
- *Gorm.* The query for the sequence's row is never executed
  (gorm_backend.go:104), so a database whose `Init` was killed before its last
  statement passes for initialised, never gets the row, and every start is a
  first run. `GetItemCount` ignores its argument (112): documents and files are
  counted as packages. A second migration cannot set `Marked` to false, or a
  column to the empty string (database.go:456). A row that cannot be written is
  passed over and the sequence saved all the same (database.go:352,
  gorm_backend.go:238): that change is lost.
- *Server.* "^1.2.0" is answered with the first version of major 1 in the order
  of texts, above or below it (server.go:259, 268), and an exact version that is
  missing with another of the same major. "1" may be answered with 10.0. A
  deleted package is served from the cache until its entry goes. A server in a
  process of its own is never told of changes. A request before `Init` has run
  panics and is answered 500. A tarball with `..` in its path is mirrored but
  never served (server.go:312); the proofs of `Requests` leave such names out. A tarball that is being downloaded is served as
  far as it is there. Entries of bigcache go only when others are set, so there
  is no fairness on `Evict` and no property that an old entry goes.
- *Download.* A response without a length is reported as a failure, its file
  whole; a republished tarball that is shorter keeps the end of the longer one
  and is reported as complete (npm.go:212-214). A file that cannot be read for its
  hash gets the tarball behind the part that was read (utils.go:78), and is
  reported as complete as well.
- `LogStats` and `Check` read `pb.db`, which nothing sets (database.go:55).

## Proofs

### The worker pool

`WorkerPoolProofs` proves, for any finite set of
packages, any finite nonempty set of workers and any buffer size
(`PoolAssumption`):

| Theorem | States |
| --- | --- |
| `Invariance` | the inductive invariant `Inv` always holds |
| `TypeCorrect` | `TypeOK`; `wg` never goes below 0, which would panic |
| `WaitGroupCorrect` | `WaitGroupAccounts` |
| `RoundSettled` | `RoundSettledBeforeStop` |
| `RoundRefinement` | `SafeSpec` implements `MirrorRound`'s `SafeSpec` under the mapping of `WorkerPool` |
| `SlotsSuffice` | `WorkerSlots` |
| `NothingStays` | `NothingLeftBehind` |
| `StartGetsOn` | `NeverAllBlocked` |
| `StartGoesForward` | `AlwaysForward`, and `Remaining` stays between 0 and `StepsAtMost` |

These are all safety properties that `pool` checks, and the safety part of
`ImplementsRound`.

`SafeSpec` is `Spec` without fairness, so the results hold of both.

**The argument.** None of the properties is inductive by itself: that the
counter is right after `SignalDone` depends on the handler's package being
nowhere else. `Inv` adds what is needed. `Places` says that `stage[p]` and the
place that holds `p` agree, that the queue has no duplicates and that no two
workers hold the same package; `Holders`, that a goroutine has a package
exactly while it works on one; `HandledOnce`, `MainProgress` and
`StopProgress`, how far the two loops and each worker are; `Counted`, that
`wg` is the number of packages between `Add` and `Done`, by stage, plus the
number of workers that are being stopped. There is one lemma per action, and
each follows the package or the worker that moves. With `Counted`, a counter of
0 means that no package is between the two stages, so that past the first wait
all are `released`. For the refinement the fetched packages are read off
`stage` (`ByStage`), and the bound on results in hand comes from an injection
of them into the workers and the handler.

The second part of the module adds to `Inv` what concerns channels. `Registered`: a
worker's channel is in `workerQueue` once at most, and then the worker is idle
or has quit; `Acquired`: a channel the dispatcher has taken is an idle
worker's; `Gone`: all workers have quit when `Start` returns. A channel of a
worker that quit stays in `workerQueue`, and the proof shows why that is
harmless: nobody quits while the dispatcher has a package (`NoneStopped`),
because workers are stopped only when all packages are released. That a worker
finds a slot is then a pigeonhole argument (`QueueIsShort`).

`StartGetsOn` and `StartGoesForward` are termination as far as it is a matter of
states and steps. The first needs one invariant more, `Listed`: a worker that
listens has its channel in `workerQueue` or at the dispatcher. Then a package on
its way finds a worker (`DispatcherRuns`), one that a worker or the handler has
goes on (`ActiveRuns`), and without any a wait passes or a worker that is told
to stop can quit (`StoppingRuns`). The second proves a measure: each package has
eight stages ahead of it, a stage sets off at most two more steps (the
dispatcher takes a worker, the handler removes files, a worker registers again;
hence the factor 3), and workers and main have four steps each. Whatever the schedule, a call of
`Start` makes at most 24·|`Packages`| + 4·|`Workers`| + 4 steps, and until it
has returned one of its goroutines can make one. That one is then made is what
fairness adds, and `Terminates` checks.

### The mirror

For any finite set of packages, any number of workers and of changes of the
registry (`StoreAssumption`, `MirrorAssumption`: the values that are not
numbers are distinct, and a sequence fits its bytes):

| Theorem | States | Whatever fails, except |
| --- | --- | --- |
| `TypeCorrect` | `TypeOK` | |
| `BucketsAgree` | `KeysAgree` | |
| `CompletedOnDisk` | `FilesOnDisk` | |
| `MarkedAreConsistent` | `MarkedConsistent` | documents |
| `MissedChangesShow` | `FailedFetchShows` | the saving of sequences |
| `ChangesAreKept` | `NoLostChange` | documents and the saving of sequences |
| `LiveChangesAreShown` | `LiveChangesShow` | |
| `MirrorGoesForward` | `NeverRegress` | documents and the saving of sequences |
| `StoreRefinement` | `ImplementsStore` | |
| `RoundsAreRounds` | `RoundsFollow` | |
| `MirrorIsExact` | `CaughtUpIsExact` | documents, tarballs, the removal of files and the saving of sequences |

The exceptions are hypotheses on `FaultKinds`. All are needed: failed documents
are finding 2, and after a sequence that was not saved the next first run does
not list what was deleted meanwhile. A failed tarball shortens the list of a package
that is then complete, and files that could not be removed stay, neither of
which `CaughtUpIsExact` survives. Kills may come at any step.

**The argument.** `MirrorProofs` adds `RoundKept` to the buckets and the files:
a package is under way only in a round, and until it is settled it stays
incomplete under the revision it was queued with. That is why files may be
removed and downloaded without contradicting a list (no complete package is
touched), and why `PutCompleted` may leave an unchanged revision alone.

`ChangeProofs` says where documents come from (`DocumentInv`): each was served
by the registry, is not newer than what the registry has now, and equals it
only if the package is not deleted. A complete package has the revision of its
document, or both are what a failed request leaves.

`SequenceProofs` needs three things more. `SequenceInv` orders the sequences:
stored, cached, to be saved, the registry's. `Covered(p, s)` says that if the
last change of `p` is not later than `s`, the database follows it; it always
holds of the stored sequence, and before `SetSequence` also of the one about to
be stored, which is what putting packages first buys. A change that comes while
a document is under way is later than the stored sequence, so the next poll
asks for it again. `FirstRunOK` is about sequence 0: nothing is complete then,
so a package that was put by a first run that died and deleted before the next
one is still incomplete. A poll leaves out packages whose revision the database
has already; by `DocumentInv` it then has the document too.

`LiveChangesAreShown` needs no hypothesis: it speaks of packages the registry
still has, and lets a failed document show. Its invariant (`LiveInv`) says the
same of two sequences, the stored one and the one in the cache, which differ
when `SetSequence` failed: the order of the two writes is enough for both,
because the process goes on from the one and a restart from the other, and what
the poll leaves out was followed up to the one it started from.

`MirrorGoesForward` needs the order in which revisions pass through the process
(`RevisionInv`): stored, in the batch, fetched, the registry's. A document that
is fetched is then never older than what it replaces, also when the answer is
newer than the change that asked for it.

`MirrorIsExact` puts these together. That revisions and documents are the
registry's follows from `Covered` of the stored sequence. For the disk `DiskInv`
says that a package which is not in the database, or whose files have just been
removed, has none left, and that of a document which is still the registry's
all tarballs are there and listed, under way and in the database. It says
nothing of older documents: the package may have been deleted before their
tarballs were asked for, but the change that deleted it is later than the stored
sequence, so the mirror has not caught up. Files of a package that is deleted,
or deleted and published anew, between its change, its document and its tarballs
do not stay behind.

The next part of `MirrorProofs` maps each action to one of `PocketStore` or to a
stutter; the work is in `PutCompletedPartly`, whose package is incomplete by
`RoundKept`. The last maps the steps of a round to those of `MirrorRound`
(`JobFollows`): that a package is fetched only while there is room is the guard
on `InHand`, that a round returns only when all is settled the one of `EndRound`,
and that nothing else moves a round is shown action by action (`RoundStep`).

### The SQL database and the migration

For any finite set of packages and any revisions (`GormAssumption`):

| Theorem | States |
| --- | --- |
| `GormInvariance` | `TypeOK` and `TablesInv` |
| `GormTypeCorrect` | `TypeOK`, of `MigrateSpec` |
| `GormRefinement` | `Spec` implements `PocketStore` |
| `MigrationIsExact` | `MigratedOrSkipped` |
| `RevisionsAreMigrated` | `RevisionsMigrated` |
| `StoreAfterMigration` | `CallsKeepStore` |

`TablesInv` orders the statements of `Init`: the table of packages comes last,
and until it is there nothing else is, which is why the last table is the
abstract `Initialize` and a kill before it a stutter. `MigrateInv` says of every
package that the cursor has passed that its row is there with the source's
revision, and, as long as the source has not moved, that every row there is
equals its entry, whichever run wrote it. `Assign` keeps that: writing the
columns that are not blank over a row that is equal changes nothing.
`StoreAfterMigration` is `GormRefinement` over again without its initial state:
each call is a step of `PocketStore` from any tables in which no row is without
its table (`MigrateGormInvariance`), which is all that it needs of them. The
steps of a copy are excepted, since they write rows as no call does.

### The server

For any finite sets of packages and clients, and any bound on the changes:

| Theorem | States | Whatever fails, except |
| --- | --- | --- |
| `ServerTypeCorrect` | `ServerTypeOK` | |
| `NothingServedEarly` | `NeverAhead` | |
| `NotModifiedIsCorrect` | `NotModifiedIfComplete` | the saving of sequences |

`ServerIsMirror` carries over what is proved of `Mirror`: the server changes
nothing the mirror reads. `Moves(p)` sums up what one step of the mirror may do
to one package, and the rest of the module rests on it instead of on the
actions. `NotAhead(p, d)` compares a document with all that may replace the
stored one, what was fetched and what the registry has; it holds of the stored
document and survives every step, so it holds of whatever was read earlier, in
the cache, in a request or at a client.

For 304, `Past(p, r)` says that revision `r` will never be that of `p` again:
what is stored, in the batch, fetched and in the registry is later. A revision
that is current when the ETag is read is current or past ever after
(`StillCurrent`, `StillPast`), so a body that is another revision's comes with
an ETag that is past. This is where reading the revision before the document
matters, and where the package must have been complete under the ETag: of a
queued one the revision is current and its document is yet to come. `BatchInv` is needed because a batch replaces the revision of a complete
package: it must be a later one, and a first run that finds complete packages,
after a sequence that could not be saved, puts the same one again. Hence the
hypothesis: when the request for its document then fails, a client may get the
failed body under the old ETag.

### The download

For any versions of any size (`SizeAssumption`), `DownloadTypeCorrect` states
`TypeOK`, `SuccessMeansWhole` states `TrueMeansWhole` and `WholeIsKept` states
`WholeStaysWhole`. `FileOK` is the invariant: the blocks copied since the request,
counted from `offset`, are of the version that is sent; as long as nothing was
republished the file has no blocks of another version, and no more than the
version has unless it could not be read once.

### The requests

For any packages, plain and scoped, any tarballs and any versions (the
assumptions: a name is one segment that is no scope, or a scope and a segment;
no segment of a name is `-`, a label or one with `..` in it, and no file name has
`..` in it; the numbers of a version have one or two digits):

| Theorem | States |
| --- | --- |
| `RequestInvariance` | the inductive invariant `RequestInv` |
| `DiskKept` | `DiskIsKept` |
| `RequestsServed` | `RequestsFindTheirs` |
| `MajorServed` | `MajorAtLeast` |
| `NewestServed` | `NewestOfMajor` |

`RequestInv` says that the disk is the image of the tarballs kept and that an
answer is the one of its route on that disk. The rest is about the operators.
`LocalPathTells` shows that a local path can be read backwards, scoped or not,
and `OwnDirectory` that a package's directory is a prefix of its own tarballs'
paths only, for which the length of the name and the hyphen are needed: so a
download and a removal are exact. The routes are followed by the number of
segments (`RouteOfName`, `RouteOfLabel`, `RouteOfTarball`, and `RouteToFile` in
the other direction).

For the versions, `Choice` takes the first match in the order of the texts,
and that there is a first one has to be shown, since the texts are any set's:
`Rank` reads a text as a number to the base 16, a text before another is the
smaller number (`BeforeByRank`), and numbers below a bound have a least one
(`LeastNumber`, from well-foundedness). `MatchingMajor` says which versions
begin with the number asked for, and `NotBeforeNotOlder` that texts with numbers of one digit
compare as versions do.

**Only model-checked**: liveness, which is outside what the prover does, that
is, `Terminates`, `IncompleteSettled`, `PollingConverges` and the fairness in
`ImplementsRound`. Every other property of a passing run is stated by a theorem.

## Not modelled

- *The index page and the counts of items.* `GetItemCount` keeps counts in the
  cache, drops them when a package is put or deleted, and a reader in between
  puts the old ones back. Run reads them once, before it writes; the index page
  shows the number of documents and nothing promises that it is current.
- *The rewriting of tarball URLs* in a served document changes scheme and host
  only.
- *Sequences past 4 bytes.* `SetSequence` is modelled with its modulus; the
  assumption on `MaxSeq` keeps every sequence below it.
- *Answers of the registry that contradict themselves*, such as fewer rows than
  `TotalRows`; requests that never end.
- *The length and suffix* that `checkValidDist` asks of a tarball, without which
  the worker passes it over (worker.go:105); it is then not in the file list, as
  if its download had failed.

The command line, the logger and the generated configuration are left out:
they read flags and write text. The `check` commands change nothing; what
`PocketBase.Check` looks for is `MarkedConsistent`.
