# corediff in TLA+

corediff compares the files of a PHP shop with a database of hashes of known
code. This directory holds TLA+ specifications of the parts of it that must not
go wrong silently: how the database and its manifest are built, by concurrent
workers, over many sessions that may be interrupted at any point; and how a scan
finds, with a pool of workers, the lines the database does not know. TLC checks
the specifications on small instances, and TLAPS proves the most important
results for all instances.

All paths below are relative to `src/`.

## 1. The system

| component | source | state | operations |
|---|---|---|---|
| Hash database | `internal/hashdb/hashdb.go`, `storage.go` | a set in memory; a file: 16-byte header (magic, version, count), 8-byte entries; a handle and its offset | `OpenForWrite`, `Open`, `Add`, `Merge`, `Flush`, `Close`, `Save`, `Contains` |
| Index sessions | `cmd/corediff/db_index.go` | the shared database, a semaphore of workers, a private database per worker, the signal handler | `Execute` with `--packagist`, `--composer`, `--update`, a git URL, or local paths |
| Manifest | `internal/manifest/manifest.go` | a text file under `flock`, three maps (indexed, replaced, tracked) | `Load`, `MarkIndexed`, `MarkReplaced`, `MarkTracked`, `Is...`, `Close` |
| Version indexer | `internal/indexer/indexer.go` | blobs seen, replaced packages, lock dependencies found | `IndexRepo` over tags or refs, newest version first |
| Zip download | `internal/indexer/zip.go` | a file for each URL in a cache directory that all workers share | `IndexZip`: from the cache or the network |
| Scanner | `cmd/corediff/scan.go` | a pool of workers, statistics under a mutex, a read buffer per worker | `walkPath`, `scanFileWithDB` |
| Database merge | `cmd/corediff/db_merge.go` | an output database | merge several files, `Save` |
| Normalisation, hashing, chunks | `internal/normalize`, `internal/chunker` | none | `HashLine`, `HashReader`, `ChunkLine` |
| Composer, Packagist, paths, highlighting, CLI | `internal/composer`, `internal/packagist`, `internal/path`, `internal/highlight`, `cmd/corediff` | none worth the name | parsing, one HTTP request, patterns, output |

**How they interact.** `Execute` opens the database for writing, installs a
signal handler that closes it and exits, loads the manifest (which blocks until
no other process holds its lock), and runs one command. The command starts a
worker goroutine per package under a semaphore. A worker fetches the versions a
repository offers, drops those the manifest has, indexes the rest into a
database of its own, and records each version in the manifest *as it
completes*. Its last step merges its database into the shared one, under a
mutex. A git URL has one job, no worker, and adds straight to the shared
database. When all workers are done the deferred calls run: `mf.Close`,
`signal.Stop`, `db.Close`.

**What is hard.** Two files describe the same fact (which versions are
indexed), they are written at different moments, and neither write is atomic
with the other. The database file is changed in place by several system calls;
the process can be killed, or the machine can lose power, between any two of
them. Errors of writes and syncs are ignored. Workers run concurrently, a
signal handler closes the database under them, and a second process can be
started at any time. `PROJECT.json` lists the hazards one by one with their
lines.

**What makes each component correct.**

- *Hash database*: what `Merge`, `Flush` or `Close` returned for is read by
  every later open; an open never yields a hash nobody inserted; the count in
  the header is the number of entries behind it. (The code keeps the first but
  for a file whose creation was cut short, and the second but for power losses
  after `Add`; see section 5.)
- *Index sessions*: the manifest records only versions whose hashes were
  computed, as far as their files could be read; a recorded version is in the database file unless the session that
  recorded it was cut short; the file never loses hashes; sessions end.
- *Manifest*: one line for each entry, over all processes; a failed write costs
  a bounded number of entries.
- *Several processes*: they do not undo each other's work.
- *Version indexer*: every distinct blob and path of an indexed version is
  hashed; replaces and lock dependencies of a recorded version are not
  forgotten; a package another one replaces is not indexed twice.
- *Zip download*: an archive taken from the cache is one that was downloaded
  completely.
- *Scanner*: no file is overlooked, each is in exactly one of the statistics, the
  hits of a file are exactly the lines the database does not have, and a printed
  line is the line of the file; the scan ends.
- *Database merge*: what was in the inputs is in the output, and nothing that was
  in the output is lost.
- *Normalisation and chunks*: scanning a file asks for exactly the hashes that
  indexing it stores; a chunk ends at the first place that the bytes of a window
  in front of it, and where it began, allow.

## 2. The modules

| module | what it is |
|---|---|
| `HashDB` | the database of one process, a step for each system call, with crashes |
| `DurableSet` | what the database promises: a set that is published in one step |
| `MCHashDB` | instances of `HashDB` for TLC |
| `HashDBProofs` | theorems about `HashDB`, and that it implements `DurableSet` |
| `IndexSession` | one session after another: main, workers, manifest marks, merges, signals |
| `MCIndexSession` | instances of `IndexSession` |
| `IndexSessionProofs` | theorems about `IndexSession` |
| `Manifest` | the manifest file, its lock, and writes that fail half way |
| `ManifestProofs` | what the operations of `Manifest` preserve |
| `Processes` | several processes at once on one database and its manifest: package sessions, local paths, `db merge` (extends `Manifest`) |
| `MCProcesses` | instances of `Processes` |
| `ProcessesProofs` | theorems about `Processes` (extends `ManifestProofs`) |
| `GitIndex` | `indexRefs` over a repository that grows between sessions: order of versions, skipped blobs, stored paths, replaces, lock dependencies |
| `MCGitIndex` | instances of `GitIndex` |
| `GitIndexProofs` | theorems about `GitIndex` |
| `ZipFetch` | workers that fetch, cache, open and index one zip archive |
| `MCZipFetch` | instances of `ZipFetch` |
| `ZipFetchProofs` | theorems about `ZipFetch` |
| `Chunker` | content-defined chunks of long lines, and what they should be |
| `Normalize` | what a line is hashed as, and which lines a file has (extends `Chunker`) |
| `NormalizeProofs` | theorems about `Chunker` and `Normalize` |
| `Scan` | a scan: the walk, the pool of workers, their read buffers, the statistics (extends `Normalize`) |
| `MCScan` | instances of `Scan` |
| `ScanProofs` | theorems about `Scan` (extends `NormalizeProofs`) |

### HashDB

`file` is what `read` shows, `disk` what the last successful `fsync` made
permanent, `set` is `HashDB.set`, `pc` the place in the method that runs
(`HashDB.mu` makes methods exclusive). `acked`, `added` and `cut` are history:
what a method returned for, what was ever inserted, and whether the creation of
the file ended before it had its header.

| action | code |
|---|---|
| `Create`, `WriteHeader`, `SyncHeader` | `OpenForWrite` without a file: create, write the header, sync |
| `OpenExisting` | `OpenForWrite` with one: `readDB`, truncate, seek |
| `Add` | `Add`: into the set, and an append whose error is ignored |
| `MergeCollect`, `MergeWrite`, `MergeSyncData`, `WriteCount`, `SyncCount` | the steps of `Merge` |
| `FlushBegin`, `CloseBegin`, then `WriteCount`, `SyncCount` | `Flush` and `Close` |
| `Kill`, `PowerLoss` | the process or the machine stops between, or in the middle of, system calls |

A kill is possible in every state, whatever `Faults` says; between `os.Create` and the write of
the header it leaves a file of zero length (`cut`), which every later
`OpenForWrite` accepts and extends to 16 zero bytes, which sessions then fill
and acknowledge, and which `readDB` refuses ever after.

After a kill the page cache survives. After a power loss each part of the file
that was not synced may be old or new, independently of the others; the length
may be anything between the two, and a block that was allocated and not written
reads as zeros (`SurvivesAs`). The constant `Faults` switches on power losses,
a header that cannot be written, short writes and failed syncs.

A header has three interesting shapes: none, a magic (`ok`), and none of both
(`empty`, `short`, `zero`). A hash is a model value; `Zero` is the value a hole
reads as, which is not a hash an indexer computed.

### IndexSession

A session is `Start`, then `Spawn` for each job of `queue`, then `Drain` (wait)
and `Exit` (the deferred closes). A worker is a record in its `Slot` of the
semaphore; `worker[s].pc` names the call it is in, `got` is its private
database, `todo` the versions left, `done` the version about to be marked.
`Direct` is the git URL command, where hashes go to the shared database.

| action | code (`db_index.go`) |
|---|---|
| `Track` | `MarkTracked` of an unpinned argument |
| `Fetch` | `Versions` or the tags of the repository, the pin, the filter of indexed versions |
| `IndexVersion` | one version of `indexVersions` or `IndexRepo`: it is read, read without some files (`ReadFiles`), or fails and is skipped |
| `Mark` | `OnVersionDone`: `MarkIndexed`, whose error is a warning |
| `IndexDone`, `MarkReplaces`, `Dependencies` | the end of the loop, `MarkReplaced`, the lock dependencies of a git URL |
| `IndexComposerPackage` | a `--composer` worker, which goes on to mark whatever happened |
| `Merge` | `db.Merge(pkgDB)` under the mutex, and the release of the semaphore |
| `Interrupt`, `InterruptExit` | the signal handler: `db.Close`, `os.Exit` |
| `Kill` | SIGKILL, a panic |

Abstractions: all hashes of a version are one element, the version itself; when
some of its files cannot be read (the constant `Unreadable`), it stands for the
hashes of the others, since the code skips such a blob (`indexer.go:386-417`) or
archive entry (`zip.go:53`) and records the version all the same.
A merge into the open database is one step, which `HashDB` justifies: a kill
leaves it published or not (`AbsSpec`); the file is taken to have its header. Jobs start in any order, which includes
the order of the code. The upstream repository offers a fixed set of versions;
that a session sees fewer is covered by versions that fail. `computed`, `partly`,
`lost` and `claimed` are history: what was hashed, what was hashed without the
files that could not be read, what a session that was cut short held, and what a `--composer` worker marked although it could not index it
(`indexComposerPackage` reports a failure by a message only, and
`db_index.go:430` marks either way).

### Manifest and Processes

`lines` is the manifest file. An entry is the text of a line as one value; a
line is what `Load` makes of it. A write that fails half way leaves a line
without its newline (`cut`), which may read as a different entry (`a@1.1` of
`a@1.10`, the constant `Fragment`); the next entry is glued to it, and the glued
line names nothing anybody asks for. `holder` and `handle` are the `flock`.

`Processes` adds the database file (`header`, `count`, `cells`) and, for each
process, its command, its set, the offset of its handle, and what its workers
hold. The actions of `db index` are the steps of `Execute` in their order:
`Open`; `Create` and `WriteHeader`, or `Truncate`; for packages `AskLock`, `LoadManifest`, then
`Index`, `MarkOnly`, `MergeWrite`, `MergeCount` in any order, then
`CloseManifest`; and `CloseDB`. Local paths (`AddLocal`) append what they hash
through `Add` and are counted by `CloseDB`; they need no manifest. `db merge` is
`OpenOutput`, which starts empty when the output cannot be read, `MergeFails` or
the inputs' hashes, and `Save`, which writes a new file and renames it: a process
that has the old file open then writes to a file nobody can find (`orphan`).
`kept` and `lost` are history: what a session that ended normally is responsible
for, and what a merge dropped with an output it could not read. `torn` is history
too: the file was created and has no header. A kill between `Create` and
`WriteHeader` leaves it so; the file is then empty, or 16 zero bytes and what
sessions put behind them (`Extend`), until a `Save` replaces it.

### GitIndex

One session after another indexes what upstream has `published` and the
manifest has not `marked`. `todo`, `cur` and `files` are the loops of
`indexRefs` and `indexRef`; `seenBlobs`, `replaceSet` and `lockDepSet` are the
variables of that name; `got` is the worker's database. What a repository
contains (files, blobs, lines, tags, root files) is given by constants.

| action | code (`indexer.go`, `db_index.go`) |
|---|---|
| `Begin` | `RefsFromTags` and the filter of recorded versions in `updateGitURLEntry` |
| `StartVersion` | `indexRef` finds the commit and tree of the next version, or warns |
| `IndexFile` | `indexFileCount`: `SkipFile`, `ReadFile`, or `FailToRead` at any of its three reads |
| `WalkFails` | the walk of the tree returns an error |
| `FinishVersion` | `OnVersionDone`, whose failed write is a warning, then `composer.json` and `composer.lock` at the root, whose errors are dropped |
| `MarkReplaces`, `Dependencies` | `MarkReplaced` for all versions, where a failed write is a warning too, then `indexVersions` for the lock dependencies left |
| `Merge` | the worker's merge, in one step |
| `Kill`, `Publish` | the process ends; upstream adds a tag |

`Older` is `cmpVersion` over the parts of a version. It is not transitive
(`2 < 10 < 1a < 2`), and the versions come from a map, so what a sort returns
for such tags is arbitrary; `Newest` lets any of them be next when none is the
newest. The walk order of a tree is the order of `Files[v]`, and
`resolveStoredPath` takes the first sub-package of that order, as the code does.
What can fail is a constant: blobs (`Flaky`), and refs, trees, root files and
manifest writes (`Failing`, the names for which each may fail).
`cutShort`, `torn`, `unread`, `blind`, `unsaved` and `tried` are history: they
name what failed (`unsaved`: replaces that could not be recorded), so that the
properties can say what must hold for the rest. `ReplacedNotIndexed` is stated
over what the repository contains: a dependency that any recorded version
replaces is not indexed, although sessions see the versions in any order and know
the replaces of others only through the manifest. It is not the filter of
`Dependencies`, and fails when that filter, the manifest write before it, or the
collection of replaces over versions is wrong.

`Dependencies` is one step, because the dependencies' hashes go to the same
database and their versions are separate repositories; each may fail.

### ZipFetch

Workers, of one session or of several, index a version from the same URL.
`cache` is the file at `zipCachePath` as a sequence of cells, one for each entry
of the archive and a last one for the directory, without which
`zip.NewReader` fails; `data` is what a worker has read or downloaded, `offset`
where it writes. The server may send different builds of the archive
(`Content`).

| action | code (`zip.go`) |
|---|---|
| `Begin`, `Read` | `os.ReadFile` of the cache file, up to the end it has at that time |
| `Download` | `downloadZip`, with the size limit, and `MkdirAll` |
| `Create`, `Write` | `os.WriteFile`, in place, cell by cell |
| `Open` | `zip.NewReader`, whose error ends `IndexZip` |
| `Index`, `Mark` | the loop of `IndexZip`, which ignores the errors of entries; then `OnVersionDone` |
| `Kill` | a worker's process ends; killing several is killing one after the other |

`raced` is history: a worker created the file over one that another had
created. Then it may be a mixture of two builds that opens, and a version can
be recorded whose entries were not all hashed; `OnlyPrefixes` and
`MarkedIsWhole` are about all other behaviours. A cut archive in the cache is
refused each time and never replaced.

### Chunker, Normalize and Scan

A file is its contents and a few attributes: whether its extension is one of
code, its path is in the database or excluded, and it has the prefix of
`--path-filter`. Contents are sequences of bytes, one byte value for each class
of bytes the code tells apart (white space, newline, a comment, a `reference`
entry, the two halves of a multi-byte character, text). A hash is the text it is
of.

`Chunker` has the loop of `chunk` with its rolling hash; a hash word is the set
of its one bits. Beside it are a definition of the hash of a window from the
window's bytes, and of a chunking from that hash. `Normalize` has `normLine`,
`HashLine`, `HashReader` and `IsValidUtf8`.

In `Scan` main is `walker`, a worker of the pool is a record with its place in
`scanFileWithDB` and the state of its `bufio.Scanner` (`pos`, `start`, `end`,
`err`), and `buf[w]` is the read buffer the worker keeps for all its files. A
hit holds its slice as a position in that buffer; what is printed is what the
buffer has there when the file is done (`Show`).

| action | code (`scan.go`) |
|---|---|
| `Inaccessible`, `NoCode` | `walkFiles`: a file that cannot be reached, has no code, or cannot be probed |
| `Filtered`, `Custom`, `Send` | the callback of `walkPath`: filtered out, no core path, or sent to the pool |
| `Close`, `Finish` | `close(jobs)`, `wg.Wait` |
| `Receive`, `Leave` | the loop of a worker over the unbuffered channel |
| `Open` | `parseFile`, whose error leaves the file without hits |
| `ScanLine`, `ScanRest` | `scanner.Scan` returns a line, or the rest; the callback looks its pieces up |
| `Read`, `ReadFails` | `scanner.Scan` moves its data to the front when half of the buffer is consumed or no space is left, and reads |
| `EndOfScan` | `scanner.Scan` returns false: the end, an error, or a line that does not fit |
| `Report` | `scanOneFile` prints, and the worker adds to the statistics |

Abstractions: a read returns as much as there is and fits. All bytes that make a
line suspect are one (`Alarm`). The database does not change during a scan.

## 3. The runs

| run | bounds | what it shows |
|---|---|---|
| `db_merge` | 4 hashes, sessions that merge, kills and power losses in every state | `Durability`, `NoInvention`, `FileMatchesMemory`, the inductive invariant `IInv`, and that `HashDB` implements `DurableSet` |
| `db_faults` | 3 hashes, merging and adding sessions, kills, short writes, failed syncs, interrupted creation; no power loss | whichever writes and syncs fail while power stays on, a database that loads holds only inserted hashes (`NoInvention`) |
| `sessions` | 2 workers, 2 packages (one a git URL), 2 versions, a package given twice, all 4 commands, kills, signals, failing manifest writes, one version with files that may be unreadable | `MarkedIsComputed`, `OnlyInFlightIsLost`, `ClosedAfterWorkers`, the inductive invariant `SessionIInv` |
| `session_ends` | the same world without `--update` and unreadable files | every session ends (`SessionEnds`); the file never shrinks (`DatabaseGrows`) |
| `interrupt` | `--packagist`, signals | *violated*: finding 1 |
| `processes_apart` | 2 processes, 3 sessions of packages, local paths or `db merge`, 2 entries, kills between any two steps, one manifest write cut half way, outputs that cannot be read | `OneLinePerEntry`, `BoundedDamage`, and what sessions that do not overlap can lose (`ApartIsSafe`) |
| `processes_together` | the same processes, 3 sessions, no faults | *violated*: finding 2 |
| `git_index` | 3 versions without a newest one, a moved file, two files with one blob, a directory that becomes a sub-package, kills, reads and manifest writes that fail | skipped blobs cost no lines (`LinesComplete`), which replaces and dependencies are forgotten (`NothingForgotten`), no package is indexed that a recorded version replaces (`ReplacedNotIndexed`), with the exceptions they name |
| `git_dedup` | the same repository, no faults | *violated*: finding 3 |
| `zip_cache` | 2 workers, 3 builds of an archive (one of them above the size limit), kills, failing requests, reads and writes | a worker has a download or the beginning of one (`OnlyPrefixes`); what is recorded was hashed whole (`MarkedIsWhole`); the inductive invariant `ZipIInv` |
| `scan` | 2 workers, 6 trees of up to 4 files, 4 sets of options, a buffer of 12 bytes, one failing call | `HitsAreExact`, `SmallFilesShown`, `IndexedIsClean`, `NothingOverlooked`, `EveryFileCounted`, `ChunksAreCuts`, `EditsSettle`, and that the scan ends (`ScanEnds`) |
| `scan_alias` | the same scans, no failure | *violated*: finding 4 |

**Why the bounds are enough.** No run of `HashDB` or `IndexSession` bounds the
number of sessions or crashes: their state spaces are finite because hashes and
versions are. A hash can be old (counted), written and not counted, pending, or
new, so four of them meet every combination in one file, and three leave a
merge of two on top of one. Two workers meet every pair of steps; the package
that is given twice lets them work on the same versions, and the git URL, which
replaces that package and whose lock file names a version of it, lets a worker
and the manifest disagree. In `Processes` the bound `MaxSessions` (three) lets
two sessions overlap, or damage a file, and a third one find it; `MaxFailed`
(one) is the number of failed manifest writes. `GitIndex` needs no bound
either: upstream has three versions, which is enough for a blob to be read in
one, failed in another and skipped in a third, and for sessions of two and one.
In `ZipFetch` two workers meet every pair of steps, and since they start again
after a failure or a kill, one can read what it or the other left behind; the
archives have two or three entries and two of them have the same length, which
a mixture needs. `MCScan` scales the sizes of the code down together: the read
buffer from 10 MB to 12 bytes, the probe from 8 KB to 8, the shortest line from
10 bytes to 2, chunks from 32 to 128 bytes to 2 to 4, in lines above 5 instead
of 512, and words from 64 bits to 4. Their order, and that a file can be shorter than half
of the buffer, longer than half, or longer than the buffer, is as in the code;
the files of the trees have each of these lengths, lines that touch the end of the
buffer, lines too long for it, and characters on the edge of the probe.
`MaxFailures` (one) is enough for a file to fail next to sound ones; the proofs
have no such bound.

**Deadlock** is checked in the runs of `IndexSession` (and in `db_merge`, where it
says little: a power loss is possible in every state); the others say `CHECK_DEADLOCK FALSE` because the system may really stop there: a database
that cannot be read is refused by every later session (`MCHashDB_faults`,
`MCProcesses`), the bound on sessions is reached (`MCProcesses`), everything
there is to index has been recorded (`MCGitIndex`, `MCZipFetch`), or the scan is
done (`MCScan`, where `ScanEnds` excludes that it stops before).

**Fairness.** `session_ends` uses weak fairness of main's next step (`Main`:
`Spawn`, `Drain` or `Exit`), of the exit that follows a signal, and of each
worker; `scan` of main and of each worker of the pool. The Go scheduler runs every goroutine that can run, and calls to the
network return, with an answer or an error. Nothing is assumed about how jobs
are chosen, about faults, or about success: `Kill` and `Interrupt` are never
forced and never needed, a new session need not be started, and a worker may
fail at every version.

## 4. The proofs

TLAPS checks every theorem; the runs check the same formulas first.

**`HashDBProofs`.** `TypeCorrect` holds for every choice of faults. `Invariant`,
`DurabilityTheorem` and `MemoryTheorem` assume `Reliable`: writes and
syncs work, and power is lost only under sessions that merge. It does not
restrict kills, which may fall between any two system calls, those that create
the file included; `Durability` excepts what is acknowledged into a file that has
no header because of one (`cut`), which the code loses. (Neither part of `Reliable` can
be dropped: after a short write the count is larger than the file, which `readDB`
refuses, and `Flush` and `Close` count what `Add` appended before they sync it.) `NoInventionTheorem` assumes `Reliable`, or instead that power
stays on: then `GivenInv`, that entries and pending ones were inserted, is enough
whichever writes and syncs fail. `Durability` is not inductive, because
whether a crash keeps a hash depends on where the entries are and not only on
which are counted. `IInv` adds

- `HeaderInv`: a header without magic exists only while the file is created, or
  after a crash there (`cut`), and such a file never gets one;
- `CountInv`: the counted entries are there, and are distinct;
- `FileMatchesMemory` and `OpenInv`: entries, written and pending, enumerate
  the set without repetition, so that `len(set)` is the number of entries;
- `StableInv`: counted entries are on the disk, and all entries are except
  between `Merge`'s write and its sync;
- `HistoryInv`: what was acknowledged is counted, in the file and on the disk.

There is one lemma for each action, on top of lemmas about sequences without
repetition (`EnumerationFacts`, `ConcatFacts`, `InjectiveCardinality`).

The last part is the refinement. `Refinement`: under `Reliable`, `Spec => AbsSpec`. Every
step of `HashDB` is a step of `DurableSet` or leaves its variables alone:
writing the count is `Publish`, a sync is `Persist`, appends are invisible, a
power loss leaves what was published or what was stable. The content of the
abstract set is that of a file with a magic (`Readable`): what a session writes into a
file whose creation was cut short is counted there and never published. `StableTheorem` draws
the consequence a user of the database cares about: what was once stable stays
stable.

**`IndexSessionProofs`.** For every command and fault: `TypeCorrect`;
`ClosedTheorem` (no worker is left when main closes the database) and
`GrowsTheorem` (no step takes hashes out of the file), both from `HandleInv`,
which relates the handle, the set in memory and the file; `SessionInvariant`,
`MarkedTheorem` and `LossTheorem`, from `SessionIInv`. It adds `WorkerInv`: what a
worker is about to mark was computed, as far as its files could be read (`partly`),
and is in the database that worker fills, unless it is a `--composer` worker that
could not index it (`claimed`).

**`ManifestProofs` and `ProcessesProofs`.** For any number of processes, entries,
commands, kills and failed writes: `ProcessesInvariant`, `TypeCorrect`,
`OneLineTheorem`, `DamageTheorem` and `ApartTheorem`. The first module shows that
every operation of the manifest preserves `ManifestIInv`, the second that every
step of a process is one of these operations or leaves the manifest alone, also
when processes overlap:

- `LockInv`: only the holder of the lock takes anything for recorded, and it
  knows what every whole line says. Without it two processes could write a line
  for one entry each;
- `LinesInv`: whole lines are of recorded entries, and there are as many as
  entries but for one per failed write. `OneLinePerEntry` follows;
- `LossInv`: a failed write costs two entries at most, the one its cut line reads
  as and the one glued to it by the next append, and none while the cut line is
  still the last: the potential that makes `BoundedDamage` inductive.

`ApartInv` is about the database and holds as long as no two processes have
overlapped: at most one process runs (`Alone`); the
counted entries are there and distinct (`FileInv`); the file of a process that
writes enumerates its set, with the offset at its end (`PlaceInv`, `Enumerates`);
what the manifest claims is counted, lost with a process that was killed, or in
the hands of the one that runs, but for one entry per failed write (`KeptInv`).
This is true of a file without a header too (`torn`), whose entries only cannot
be read: `ApartIsSafe` excepts it.

**`GitIndexProofs`.** For every repository, any order of publication and any
failures: `GitInvariant`, `TypeCorrect`, `LinesTheorem`, `ForgottenTheorem` and
`ReplacedTheorem`. `LinesComplete` is not inductive, because most files of a
version are never read for it. `LinesIInv` adds

- `BlobInv`: what `seenBlobs` lets the session skip was hashed into the worker's
  database in this session, unless it was read in part;
- `FilesInv`: each file of the version in progress is left or its lines are
  stored, so that the version can be marked when none is left, although a version
  whose walk failed may be the one that read them;
- `MarkedInv`: what earlier sessions marked is in the database, what this one
  marked is there or in the worker's. This is what a kill or a merge turns into
  `LinesComplete` of the next session.

`RootInv` follows replaces and lock dependencies through the steps of a session,
from the root files to the manifest: the replaces of a recorded version are in the
manifest or in this session's hands, and in the manifest, or `unsaved`, before
dependencies are looked at. `ReplacedTheorem` rests on it as `ForgottenTheorem` does.

**`ZipFetchProofs`.** For any number of workers, archives and failures:
`TypeCorrect`, `ZipInvariant`, `PrefixTheorem` and `WholeTheorem`. The inductive
invariant `ZipIInv` says what makes `OnlyPrefixes` hold: as long as nobody has
created the file over another's, there is at most one writer and the file is
what it has written (`WriterInv`), a reader has the beginning of the file
(`ReaderInv`), and who found no file reads and writes none (`AbsentInv`). That
the beginning of an archive opens only if it is all of it (`OpensWhole`) then
gives `MarkedIsWhole`.

**`NormalizeProofs`.** For every hash table, word, window and chunk size:
`ChunkIsChunking` (the chunks of every long line are those of the definition
from the hashes of windows) and `OneByteSettles` (what one changed byte does to
them: those before it stay, and those behind the first end past it that both lines share.
This is less than "small edits only affect nearby chunks", `chunker.go:3`: where a
chunk ends depends on where it began, and two lines that are cut at the largest
size only may share no such end before their last). What a recursive function computes is proved by induction over the bytes
of the line. The library's induction theorems take an operator as a parameter,
which the provers here cannot instantiate; the module proves what it needs from
their first-order kernel (`WFMin`: a nonempty set of numbers has a least element)
as `Induction`, and as `Recursion`, that a function from 0 to n with a given first
value and step exists. `ChunkLoop` unrolls the function `Chunk` to such a run of states.
The argument is:

- `RollIsWindowHash`: a word is the set of its one bits, XOR is symmetric
  difference, and a bit of a window's hash is set when an odd number of its bytes
  set it. Rotating, adding the byte that enters and removing the one that leaves
  turns the hash of one window into that of the next;
- `LoopInv`, kept by each turn of the loop (`LoopStep`): the rolling hash is that
  of the window that ends here and begins no earlier than its chunk, the chunk is no
  complete one yet, and those before it were cut at their first chance;
- `LoopsAgree`: two runs that are in the same state stay so while their bytes are the
  same.

The second part is about lines: what `InOrder` enumerates (`InOrderIs`), which
`Lines` and the removal of a git reference are defined with (in place of `SetToSortSeq` and
`SelectSeq`, about which the provers know nothing); every piece that is
hashed is a slice of its line or a copy (`HashLineIsPieces`); and the next line of
a file is what lies before the first newline of its rest (`NextStop`, `LineAtIs`).

**`ScanProofs`, the walk and the pool.** For every tree, all options, any number
of workers and any failures: `ScanInvariant`, `NothingOverlookedTheorem` and `CountedTheorem`. Both
properties speak of the end of a scan only and are not inductive; `ScanIInv` says
where each file is meanwhile:

- `WalkInv`: main is at a file or behind the last one, and no call of main has
  failed for a file ahead of it;
- `PoolInv`: a file in a worker's hands is behind main, in no other worker's and
  not reported, and at the end nobody has one;
- `CoverInv`: a file to scan that main has passed is in somebody's hands or
  reported. It rests on `ToScanPasses`: valid text whose probe cuts no character
  is taken for text;
- `CountInv`: the counters of main are the cardinalities of the files it has seen,
  and what was counted as code is custom, dropped, reported, in a worker's hands
  or in the channel.

What a worker finds in a file plays no part in it (`ReadsWorks`).

**`ScanProofs`, the data.** For all contents of files, every database, hash table,
size of buffer, number of workers and failures: `DataInvariant`, `TypeCorrect`,
`ReportsAreExact`, `SmallFilesAreShown`, `IndexedStaysClean`, `ChunksStayCuts`
and `EditsSettleTheorem`. `HitsAreExact` speaks of reported files, and is not
inductive: it needs to be known where in its file a worker is while reads fill and
move its buffer. `DataInv` says that for each worker with a file (`ReadInv`) and
each report (`IsReport`):

- `WindowInv`: the window of the buffer, from `start` to `end`, holds what follows
  the consumed bytes (`Used`) in the file, and hits are slices inside of the buffer.
  This holds after failures as well, and carries `TypeOK`: the indexes stay
  within the buffer;
- `SmallInv`: the buffer of a file of at most half its size is never moved, so that
  its beginning is the beginning of the file and each hit is still where it
  was found. Larger files are moved under their hits, which is finding 4;
- `ExactInv`, while no call for the file has failed: the bytes consumed are those
  of the first `line` lines, the hits are what these lines miss, line by line,
  and a worker that reports has taken all lines.

`ScanLine` and `ScanRest` rest on `NextLine` (a line taken from the window is the next of
`Lines`) and `TakenReads`; `Read` on `ReadKeeps` (a move and a refill keep the window) and
`UnreadIs`; `EndOfScan` on `EndIsLast` (a full buffer without a newline is a line that
is too long, after which `Lines` has no more). `IndexedStaysClean` then goes by
induction over the lines of the file (`IndexedMisses`).

**Assumptions** are about constants only: those named in the modules
(`ScanAssumption` and so on), and `Reliable` where it is mentioned above.
`ChunkerAssumption` and `NormalizeAssumption` order the sizes as the code does
and say that the bytes of lines are those the hash table has; the code's table has
all 256.

**Only model-checked**: `SessionEnds` and `ScanEnds` (liveness under fairness, which
is out of the prover's reach), and of course the violations. Every other property of a run is stated by a theorem.

## 5. Findings

1. **An interrupt loses versions for good** (run `interrupt`). A worker marks a
   version in the manifest while its hashes are only in the worker's private
   database. The handler (`db_index.go:83`) closes the shared database and
   exits; the next session skips the version. The comment at `db_index.go:77`
   says "Flush progress on Ctrl-C so hashes computed so far are not lost."
2. **The lock does not protect the database** (run `processes_together`).
   `doc/indexing.md:56` says the manifest is locked "for cross-process safety",
   but the database is read and truncated before the lock is asked for and
   counted again after it is released.
3. **A file that moved has no path hash in its old place** (run `git_dedup`).
   `indexFileCount` skips a blob it has seen (`indexer.go:381`) before it hashes
   the path. The test at `indexer_test.go:374` expects that "blob dedup should
   produce same result as separate indexing". Its versions keep every file in
   its place.
4. **A scan of a large file prints other lines than it found** (run
   `scan_alias`). `scanFileWithDB` keeps slices of `scanner.Bytes()`
   (`scan.go:184`), which the next `Scan` may overwrite, and they are printed, and
   judged by `--suspect`, after the whole file was read. Files of at most half of
   the buffer, 5 MB, are safe (`SmallFilesShown`). The comment at `scan.go:175`
   says it "returns line numbers and content of lines whose hashes are not in
   db".

Other places where the code and what one may expect of it differ, which the
properties name as exceptions or the models contain as they are:

- `--composer` marks what it could not index (`db_index.go:430`), while
  `manifest.go:14` speaks of pairs that "have been indexed": `claimed`.
- A crash between `os.Create` and the header (`storage.go:78-92`) leaves an empty
  file that later sessions accept, fill and acknowledge, and that can then no longer be
  read: `cut` in `HashDB`, `torn` in `Processes`.
- After `Add`, entries are counted before they are known to be on the disk
  (`hashdb.go:100`): a power loss can leave holes that read as hashes. Only
  `Merge` syncs first; `Reliable` and the run `db_faults` leave this case out.
- A version whose blobs or archive entries cannot all be read is recorded all the same
  (`indexer.go:386`, `zip.go:53`): `partly`.
- A replace whose manifest write fails is only a warning (`db_index.go:633`), and
  the versions that name it are not read again: `unsaved`.
- A short append is ignored ("best-effort append", `hashdb.go:40`) and counted all
  the same; `readDB` then refuses the file. `db_faults` reaches it.
- `Save` does not sync the new file before it renames it (`storage.go:95`).
- `db merge` takes any error of reading its output for an absent one
  (`db_merge.go:18`): `lost` in `Processes`.
- A file that cannot be opened or read to its end, or has a line above 10 MB, is
  counted with the files that have only recognised lines (`scan.go:190`); under
  `--suspect`, so is one whose unknown lines are not suspect. Files that
  `--path-filter` drops are in no statistic (`scan.go:313`).
- A multi-byte character across the first 8 KB makes a file one without code
  (`normalize.go:143`): excepted by `ToScan`.

## 6. What is not modelled, and why

- The fallback from git to zip archives in `indexVersions`: planned, see below.
  Cloning and fetching are the choice of which commits are there.
- Composer project files and credentials, Packagist: JSON and HTTP without state of
  their own. Their outcome (some versions, or an error) is a choice in `Fetch`.
- Regular expressions of normalisation and highlighting: one byte value each.
  Formatting of output, command line options, `validate` and `IsAppRoot`,
  self-update, `db info`: no state, or wording.
- Collisions of xxh3: a hash is what it is of.
- A directory that cannot be read: `Inaccessible` has single files.
- Memory: out-of-memory kills are `Kill`.

## 7. Plan

Done: the database and its proofs, index sessions and their proofs, manifest
and processes (with local paths, `Save` and `db merge`) and their proofs, the git
indexer and its proofs, the zip cache and its proofs, chunks and normalisation and
their proofs, the scan and its proofs, of the walk and of the data. Next, in this order:

1. The fallback from git to archives in `indexVersions`, and the queue of
   `--update` with the packages it skips as replaced.
2. Stored paths of composer packages, the common prefix of an archive.
