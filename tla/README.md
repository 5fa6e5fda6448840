# zenofs in TLA+

zenofs is a NAS server in Go: files are cut into slices, slices are stored as
chunks of Reed-Solomon stripes over the disks of a pool, metadata lives in
SQLite, and HTTP, SMB, SFTP and WebDAV serve the same file layer.  This
directory holds the TLA+ specification of its core, the TLC configurations that
check it on small instances, and proofs checked by TLAPS.

All paths below are relative to `src/`.

## 1. Inventory

| Component | Source | State | Operations | Interacts with |
|---|---|---|---|---|
| Pool chunk store | `internal/pool/chunk.go`, `handler.go`, `parallel.go` | `chunks`, `stripes`, `write_queues`, chunk files | AddChunks, WriteChunks, ReadChunks, Flush, CleanupWriteQueueOnStartup | file handles store slices and their references; Flush feeds the parity worker |
| Parity worker | `internal/pool/parity.go` | `stripe_queues` (parity), parity rows and files | claim, load, compute, commit | reads chunk files while requests write and releases delete them |
| Release and orphan collection | `internal/pool/release.go`, `gc.go` | chunk rows, queues, files to delete | ReleaseChunks, requeueParity, DeleteStaleFiles, GarbageCollect | called in the transaction of a purge; frees slots that the next write reuses |
| Rebuild | `internal/pool/rebuild.go` | `tasks`, `stripe_queues` (rebuild), disk and pool status | SwapDisk, RebuildPool, RebuildByChunks, rebuildStripe, recoverAfterRebuild | shares the worker goroutine with parity |
| Read cache | `internal/pool/cache.go` | `read_caches`, cache files | promote, read, drop, clean up | dropped by overwrites and releases |
| Pool administration | `internal/pool/pool.go`, `usage.go`, `keyring.go` | `pools`, `disks`, slots of existing stripes, keys in memory | AddPool, AddDisk, DeleteCacheDisk, OfflinePool, SwapDisk | changes the geometry the write path reads |
| File handles and versions | `internal/vfs/file.go`, `file_write.go`, `history.go`, `retention.go`, `recycle.go` | `versions`, `version_chunks`, handle state | Open, WriteAt, truncate, Sync, Close, RestoreVersion, trimVersions, Purge | slice-level copy on write over the pool |
| Namespace | `internal/vfs/fs.go`, `fs_write.go`, `path.go`, `root.go` | `inodes`, `inode_histories`, mounts | lookup, Mkdir, Remove, Rename, Copy, Restore | all protocols |
| Slice encoding, share keys | `internal/vfs/crypto.go`, `internal/hash` | keyring | encode, decode, SetPassword, UnlockShare, LockShare | file handles |
| Database | `internal/db` | all tables | Tx with a 15 s limit, `BEGIN IMMEDIATE` | everything |
| Accounts and tokens | `internal/auth`, `internal/token`, `internal/otp` | `users`, `access_tokens`, `share_users` | Bootstrap, CreateUser, DeleteUser, Login, token checks | protocols |
| HTTP API | `internal/api` | none of its own | handlers | all of the above |
| SMB, SFTP, WebDAV | `internal/smb`, `internal/sftp`, `internal/webdav` | handle tables, user cache | protocol operations | file layer |
| Process, front end | `cmd/zenofs`, `internal/config`, `internal/webui`, `web/` | settings | startup, shutdown | all |

What is hard in it:

- *Concurrency.*  `DbManager.Tx` serialises transactions, but every statement
  outside one is a step of its own and file I/O happens outside transactions.
  Request goroutines, one parity worker, the orphan collector, the retention
  sweep and the cache cleaner interleave freely.
- *Failure.*  A disk or database call may fail at every step of a request; the
  process may stop anywhere, and `CleanupWriteQueueOnStartup` is all the
  recovery there is.
- *Ordering.*  Files are deleted after the transaction that frees their chunks;
  parity is computed from a snapshot and committed later; `Flush` recognises a
  finished write by adjacent rows of `write_queues`.
- *Timing.*  The collector relies on a grace period instead of a lock.

What makes each component correct:

- chunk store: a referenced slice reads back exactly as stored; a slot has one
  owner; a failed request leaves nothing readable behind; leaked chunks are
  reclaimed;
- parity: once the queues are empty, parity encodes the data that is there; no
  write or release loses its recompute; the worker always catches up;
- release: shared chunks survive, late deletes hit nothing current, purged data
  leaves the disks;
- rebuild: what it writes is what was stored, a pool comes back, a job ends;
- read cache: a read never returns content older than the last overwrite;
- administration: every stripe has one slot per shard at all times;
- versions: a reader sees its snapshot, a commit is all or nothing, trimming
  keeps the current version, quota holds;
- namespace: a tree, with unique names, in which a lookup follows one path;
- accounts: one bootstrap, no grant outlives its user or share.

`PROJECT.json` lists the components with their status and, under `hazards`, the
places in the code where these properties are at risk.

## 2. Plan

| # | Modules | What | State |
|---|---|---|---|
| 1 | `PoolState`, `PoolWrite`, `PoolParity`, `PoolRelease`, `Pool`, `ObjectStore`, `PoolProofs` | chunk store, parity, release, collection, crash and startup; all its safety properties and the refinement of the abstract object store proved | done |
| 2 | `FileState`, `FileHandle`, `FileRetention`, `Files`, `FileProofs`, `FileSafety` | handles, copy on write, truncation, commit, discard, trash, purge, trim, RestoreVersion, over a pool reduced to what `PoolProofs` proves of it; all its invariants proved | done |
| 3 | `RebuildState`, `PoolAdmin`, `RebuildWorker`, `Rebuild`, `RebuildProofs` | disks that are swapped, added and lose files; jobs, the worker's tick, erasure decoding over the shard vector, recovery, crash; all its safety properties proved | done |
| 4 | `FileTree`, `NamespaceOps`, `Namespace`, `NamespaceProofs` | inodes, links, trash; concurrent create, rename, remove, restore and purge, refining an abstract tree; all its invariants and the refinement proved | done |
| 5 | `ReadCache`, `ReadCacheProofs` | promotion, drop, eviction, deletion of a cache disk against overwrite and release; all its invariants proved | done |
| 6 | `AccessState`, `AccessAdmin`, `AccessMounts`, `Access`, `AccessProofs`, `AccessSafety` | bootstrap, users, tokens, shares, grants, share keys, cached mounts, and which codec a slice gets; all its invariants proved | done |

Abstract specifications: the object store a pool promises (`ObjectStore`) and
the tree a share promises (`FileTree`).  Every safety property of a passing run
and both refinements are stated by a theorem.  Still worth stating are
snapshot-isolated file versions, which `Files` should implement.

## 3. Modules

- `PoolState` declares constants, assumptions, variables, the type invariant
  and `Init`.
- `PoolWrite` is the request goroutine: `Allocate` (getNewChunks: reuse of a
  Reserved slot or a new stripe), `Intend`, `OpenFile`, `CompleteFile` /
  `FailFile`, `Record`, `FlushOwn`, `PutRef`; `LoadForOverwrite` and
  `UpdateMetadata` begin an in-place overwrite; `ReadSnapshot` and `Inherit` are
  the two halves of copy on write; `FailStatement` ends a request at a failing
  statement.
- `PoolParity` is the worker goroutine: `Claim`, `LoadMeta`, `ReadShard`,
  `WriteParity`, `CommitBatch`, `AbandonBatch`.
- `PoolRelease` is a purge (`Purge`) or an orphan collection (`ScanOrphans`,
  `CollectOrphans`), both through `ReleaseChunks`, and the file deletion after
  the commit.
- `Pool` composes them with `Age` (the grace period elapses), `Crash`, and the
  two steps of the startup cleanup, and states the properties.
- `ObjectStore` is what a pool promises: a map from `version_chunks` keys to
  slice contents.
- `MCPool`, `MCFiles`, `MCRebuild`, `MCReadCache`, `MCNamespace` and `MCAccess` add
  symmetry sets, initial tables and definitions of constants for TLC.
- `FileState` declares the file layer: inodes, versions, `version_chunks`, open
  handles, and a pool in which a chunk keeps the slice it was written with until
  it is released.
- `FileHandle` is one handle: `Open`, `LoadVersion`, `LoadRows` (the snapshot),
  `NewVersion`, `InheritRows` (the version it writes), `WriteAt` taken slice by
  slice (`WriteSlice`), the flush of a slice (`DropSlice`, or `StoreSlice` and
  `PutRow`), `Truncate` and `TrimSlice`, `FlushActive` (Sync, and the first half
  of Close), `Commit` or `Discard`.
- `FileRetention` is everything else that touches versions: `markDeleted`,
  `Restore`, `deletedInode` and `purgeInode` (Purge and the trash sweep),
  `trimVersions`, `FindVersion` and `RestoreVersion`, the orphan collection, and
  a crash.
- `Files` composes them and states the properties.
- `PoolProofs` proves type correctness, the safety of stored slices, the
  refinement of `ObjectStore`, and that parity catches up and purged data are
  erased, `NamespaceProofs` type correctness, the safety of
  the tree and the refinement of `FileTree`.  `FileProofs` and `AccessProofs` prove type
  correctness and `FileSafety` and `AccessSafety` the safety of the file layer
  and of accounts and shares; `ReadCacheProofs` and `RebuildProofs` hold both for
  theirs.
- `RebuildState` declares one pool with its disks: rows of `pools`, `disks`,
  `chunks`, `stripe_queues` and `tasks`, and the files.  `PoolAdmin` is what
  requests and the API do to it: a slice stored in three steps, a release, a
  failing read (`RebuildByChunks`), `SwapDisk`, `OfflinePool`, `RebuildPool`, and
  `AddDisk` in its transaction and the slots after it.  `RebuildWorker` is one
  tick of the worker: the rebuild batch (claim, load, read and decode, write
  back, `Save`, `DropEntries`), the end of a job (`CountLeft`, `VerifyDisks`,
  `DisksOnline`, `CountBad`, `PoolOnline`, ...), and the parity batch after it.
  `Rebuild` composes them with losses, failing statements and a crash.
- `ReadCache` is one chunk with its copies: a reader in the steps of `ReadChunks`
  and `updateCacheAccess`, an overwrite (`StartWrite`, `DropRows`, `WriteFile`), a
  release and the reuse of the slot, the cleaner (`SelectCold`, `EvictCold`), and
  `DeleteCacheDisk` in three steps.
- `FileTree` is what a share promises: a tree of entries with a trash, one
  action per operation.  `NamespaceOps` is a request in the steps of `fs.go`,
  `fs_write.go`, `file.go` and `recycle.go`: a lookup walks one component per
  query and follows links, then the checks, then the transaction.  `Namespace`
  composes them.
- `AccessState` declares accounts, tokens, shares, grants, files, the keyring and
  the cached mounts.  `AccessAdmin` is the API handlers of users and tokens,
  `AccessMounts` those of shares and the clients of the file protocols: a path is
  resolved to a share and a grant (`FindShare`, `FindGrant`), then a file is read
  or written with the codec and key of the mount.  `Access` composes them.

How the code maps to steps.  A transaction is one step; a statement outside a
transaction is one step; a file is opened (truncated) and completed in two
steps, with `Torn` in between.  A row of `chunks` is `status`, `hash` (with the
size) and `gen`: paths are random and fresh, so the path of a slot is the number
of times a path was generated for it.  `write_queues` is the set of rows of each
chunk with ids in insertion order.  A `stripe_queues` row of type parity is
membership in `pend` or `run`: duplicates change nothing, the worker takes all
rows at once.  The RS code is abstracted to the vector of data shards it encodes:
two parity shards agree exactly when their vectors do.  A version is abstracted
to one `version_chunks` key per object; a purge takes any set of keys in one
transaction.

In the file layer a byte is a number and a slice a sequence of bytes, because
the properties are about which byte is read where.  Compression and encryption
are left out: a slice is stored and read whole.  Three history fields record
what the user of a handle has written (`view`), whether all its calls succeeded
(`sure`), and what each commit owes to later readers (`text`).  After a failed
call the code promises nothing about the bytes the call touched, so such a
version owes only that it does not change any more.

In `Rebuild` a stripe has one shard per disk in a fixed order, a file is its
content, a file that is wrong for its hash is `Garbage`, and decoding is exact:
with enough shards of one vector it gives the vector back, with shards of
different ages `Garbage`.  A released slot takes a new path at once (`gen`); the
write queue and the deletion of old files are left to `Pool`.  In `ReadCache` a path
is a number that is used again only when nothing names it any more, since
`generateChunkPaths` draws paths at random; which rows are cold is left open, since time is not
modelled.  In `Namespace` the purge of an entry with what is below it is one transaction, and
the unique index of `inodes` is modelled as SQLite evaluates it: a NULL parent is
equal to none, so it does not hold in the root.  In `Access` a slice is the codec and the seal
it was stored with, and 0 stands for "not found yet".  Two history variables of
`Access` record what each client was granted since its operation began (`since`)
and the shares whose creation a crash or a failing statement ended (`cut`).

Definitions named `X_Something` before `X` are mutants: what `X` would
be with a plausible bug.  No specification uses them.

## 4. Runs

| Run | Bounds | Shows |
|---|---|---|
| `pool_store` | 2 writers, purger, collector, 2 objects, 2 contents, 2+1 shards, `MaxGen = 1`, disk and database faults, 1 crash | `TypeOK`, `RefsReadable`, `ExclusiveSlots`, refinement `ImplementsObjectStore` |
| `pool_parity` | 2 writers that also overwrite, 2 purgers, 1+1 shards, 2 contents, 4 queue rows, `MaxGen = 2` | `QuiescentParity`, `PurgedDataErased`, `StaleNeverCurrent` |
| `pool_live` | 2 writers, collector, 1 crash, fair scheduling | `LeaksReclaimed`, `AlwaysProtectedAgain` |
| `gc_reuse` | unrestricted request timing | violates `RefsReadable`, see Findings |
| `file_handle` | 1 handle at a time, 2 slices of 2 bytes, files of up to 4 bytes, 2 versions, 2 calls per handle, faults, 1 crash | `TypeOK`, `VersionsIntact`, `ReadsOwnWrites` |
| `file_versions` | 2 handles at once, 3 versions, 1 slice, `Keep = 1` | `VersionsIntact`, `CurrentKept` |
| `file_dropped` | a handle comes back to a slice it dropped | violates `ReadsOwnView`, see Findings |
| `rebuild` | 1 writer, 2+1 shards, 1 disk added at any time, 1 stripe, 2 slices, 1 job, 1 loss or swap, 1 crash or failing statement | `TypeOK`, `RebuildKeepsData`, `PoolServesWhole`, `StripeShape`, `RepairedDiskComplete`, `RebuildRecovers`, `JobEnds` |
| `rebuild_partial` | 2+1 shards, as `rebuild` without faults and added disks | violates `AnyLossRecovers`, see Findings |
| `readcache` | 2 readers, 1 chunk, 2 cache disks, 2 contents, 2 rows, 2 copies, 1 overwrite or release, threshold 1 | `TypeOK`, `NoStaleHit`, `ReadsCurrent`, `CopiesReachable`, `CopiesAccounted` |
| `namespace` | 2 requests at a time, 3 in all, 2 names, 3 entries, paths of up to 3 names, 7 tables to start from | `TypeOK`, `OnePathEach`, `PurgesWholeSubtrees`, refinement `ImplementsTree` |
| `access` | 2 API requests and a client at a time, 3 in all, 3 users, 2 shares, 1 token, 1 restart or failing statement, 3 setups to start from | `TypeOK`, `FreshPermission`, `SlicesDecodable`, `NothingOutlives`, `TokenAdmits`, `BootstrapCloses`, `HalfShareUnused` |

The pool runs use one stripe (`MaxStripe = 1`): slots of different stripes share
no row, file or task, so races happen within a stripe.  Two data shards are
enough for a stripe to be partly freed, two writers to compete for a slot, two
contents to tell an old slice from a new one.  `MaxGen` bounds how often a slot is
freed, and a slot that reached it is not taken again: with `MaxGen = 1`
`pool_store` and `pool_live` free slots but never write a freed one again.
`pool_parity` has `MaxGen = 2` and two purgers: a slot is freed, written again and
freed again while the deletion of its first file is still to come, which is what
`StaleNeverCurrent` is about.  `PoolProofs` proves all these properties for every
bound.

The runs of the file layer have one file: files share nothing but the pool.
Two slices let a write cross a boundary, a truncation cut one slice and drop the
next, and a version share one slice and replace the other; payloads of two
non-zero and two zero bytes make holes out of slices.  Two calls per handle and
two versions give sequences of four calls, across a commit.  Three versions and
`Keep = 1` let the current version be neither the newest nor the oldest while
another handle is writing.

In `rebuild`, one loss is what one parity shard is there for; the swapped disk
loses its shards of all stripes, but a stripe is rebuilt by itself, so one
stripe is enough.  With one disk to add, stripes change from 2+1 to 3+1 or 2+2
while they hold data, a request has read the old shape, or the worker is at any
step (`Overlaps = {"grow"}`).

In `readcache` a chunk shares with other chunks nothing but the disks.  Two rows
and two copies let the row or the copy a reader has seen be replaced by the
next; two cache disks let a chunk move when one is deleted.

In `namespace` three entries and paths of three names make a cycle, a link to a
directory or to nothing, a restore to the root because the old directory is
gone, and a purge of a subtree.  The tables to start from have a tree of depth
two, entries in the trash, and a link whose target is in the trash, so that
three requests reach what would take six from nothing.  The race `path` takes
four entries and three names (two directories, the entry that is moved and the
one that is replaced); it was found while proving `ImplementsTree`, which the
run's bounds do not tell from a version without it.

In `access` the setups to start from are nothing at all (bootstrap), and a share
with an administrator and a user, plain or encrypted.  Three names, two of them
equal in lower case, and three users let a name be taken again after a user is
deleted.

Deadlock checking is off: the bounds let every run come to rest, and so does the
program when nobody sends requests.

### Races that are left out

The code checks and acts in separate statements in many places, and has few
locks.  The properties hold for what the code achieves outside the races listed
here; each race is a switch, and a hazard in `PROJECT.json` at its line.  Each
was switched on alone to see which property it breaks.

In `Pool`, `SlowWriters`, `SlowBatches` and `SlowDeletes` say which overlaps may
happen.  The code relies on the windows being short (`gc.go:14`).  With a switch
off, a release waits for the request, the parity batch or the deletion it would
overlap.  `gc_reuse` turns `SlowWriters` on.  With `SlowBatches` in `pool_parity`
a release during a parity batch loses its recompute (`enqueueParityRecompute`
leaves out a stripe whose row is Running, and the batch deletes that row), and
with `SlowDeletes` a late `DeleteStaleFiles` removes parity a newer batch has
written; both break `QuiescentParity`.

The other modules have `Overlaps`, the set of the races that may happen:

| Module | Race | What it is | Breaks |
|---|---|---|---|
| `Files` | `release` | a trim or purge meets a handle that is open, or a RestoreVersion under way | `CurrentKept` |
| | `draft` | RestoreVersion picks a version still being written | `CurrentKept` |
| | `dropped` | a handle comes back to a slice it dropped, in a later call or in the call that drops the slice held in memory when it begins | `ReadsOwnView` |
| `Rebuild` | `stale` | a shard is lost while the parity of its stripe is out of date | `RebuildKeepsData` |
| | `shape` | a stripe that lost a shard is rebuilt although its parity was computed for fewer data shards | `RebuildKeepsData` |
| | `inflight` | a stripe is queued for rebuild while a request fills it | `RebuildKeepsData` |
| | `release` | a chunk is released while its stripe is rebuilt or encoded | `RebuildKeepsData` |
| | `again` | a disk is swapped, or a file lost, during a batch or while a job ends | `RebuildRecovers` |
| | `grow` | a disk is added while a request or the worker runs | nothing: `rebuild` has it, the proofs about data leave it out |
| | `split` | while disks are added (`grow`), a stripe is made with another shape than those there are, or the process ends between the halves of `AddDisk` | `StripeShape` |
| | `torn` | the process ends while a request fills a slot | `RebuildRecovers` |
| | `job` | a fault while a job ends, or a parity batch right after a rebuild that could not load | `JobEnds` |
| `ReadCache` | `promote` | a chunk is overwritten or released while a reader makes a copy of what it read | `NoStaleHit`, `ReadsCurrent` |
| | `row` | two readers copy one chunk, or the row to be saved is evicted | `CopiesAccounted` |
| | `disk` | a cache disk goes while a reader puts a copy on it | `CopiesReachable` |
| `Namespace` | `name` | two requests put one name into the root, where the unique index does not hold | `OnePathEach` |
| | `move` | two directories are moved at a time | `OnePathEach` |
| | `entry` | two requests change one entry | `ImplementsTree` |
| | `empty` | an entry is added to a directory that is being deleted | `OnePathEach` |
| | `link` | a file is created through a link to a purged entry | `OnePathEach` |
| | `path` | the directory a rename moves to leaves its path, and another one takes it, before the rename resolves the whole path again: it replaces an entry of the other directory | `ImplementsTree` |
| `Access` | `mutual` | an administrator is deleted while he deletes another user | `BootstrapCloses`, with four requests |
| | `user` | a user is deleted before a grant or token that was checked for him is made, or while he creates a share | `NothingOutlives` |
| | `share` | a share is deleted while it is used | `NothingOutlives` |
| | `lock` | a share is locked while a client holds its key | `SlicesDecodable` |
| | `codec` | the compression of a share with files is changed | `SlicesDecodable` |
| | `case` | a second user gets a name that differs only in case | `TokenAdmits` |

What is not excluded is all the rest.  In `Rebuild`, requests write into other
stripes than those that are queued for rebuild (any number of stripes in the
proofs, one in the run), and into all of them while a job ends; chunks are
released until the batch is claimed and after it has marked its rows; a disk is
added at any step.  Writes into a stripe that is being rebuilt are excluded, by
`inflight` and `stale`.  In the other modules: an eviction or a deletion of a
cache disk under a hit, a lookup while its directory moves, an API request
between any two statements of another one, two bootstraps at once, the creation
of a share that ends half way, a restart at any moment.

### Findings

1. `gc_reuse`.  The grace period is measured on `chunks.created_at`.  A reused
   slot of an old stripe is old from the start, so the collector may free it
   between `Flush` and the `version_chunks` upsert (or before the intent row).
   The reference then names a Reserved slot whose file is gone.
2. `file_dropped`.  `slicePlain` looks a slice up in `newChunks` and then in the
   snapshot read at open.  `truncateTo` and `dropSlice` remove it from
   `newChunks` only, so the handle reads the old bytes again: after truncate and
   extend, or after zeros have been flushed.
3. `rebuild_partial`.  Slots of a stripe that hold no data are zeros to the
   encoder and erasures to the decoder, so a partly filled stripe survives fewer
   losses than it has parity shards.  The README promises any loss of up to M
   shards.

One of the races of the table is as bad as these and deserves a word.  `shape`:
`AddDisk` raises `data_shards` and gives every stripe an empty slot, but queues
no parity.  The decoder is made for the shards of now; its matrix is not the old
one with a column added.  With two parity shards there are enough shards to
decode with, so `Reconstruct` returns bytes nobody wrote, and
`saveRebuiltChunks` stores their hash over the right one (`rebuild.cfg` with
`PS = 2`, `MaxTask = 0`, `MaxFault = 0` and `Overlaps = {"shape"}` violates
`RebuildKeepsData`).

### Fairness

`FairSpec` assumes that a started request runs on, that the worker's ticker
fires, that a release goes on to delete its files, that the startup cleanup
completes, that time passes, and that the collector's ticker fires.  Goroutines
are scheduled by the Go runtime and every ticker loop runs until shutdown
(`parity.go:313`, `gc.go:99`).  No fairness is assumed of new requests, of
purges, or of crashes and faults.

`Rebuild` assumes that the worker's loop runs on, or, where it waits for an
`AddDisk` under way, that this does; a job needs nothing else to end.  The
other modules have no liveness properties: nothing in them runs by itself but
the cleaner, and a cache that is not cleaned is not wrong.

## 5. Proofs

A theorem holds for every value of the constants: any number of requests,
objects, contents, stripes, shards, users and shares, any slice and file size,
any bound on crashes, faults and losses.  The assumptions on the constants are
those named in the state module of each component (and in `ReadCache`): bounds are
natural numbers, there is a data shard, a slice has a positive size, and the
markers (`Nil`, `Torn`, ...) are no contents, rows, paths or keys.  A theorem about a
component with `Overlaps` names the races it has to be without, and no others:
all other races may happen in what it says.

Each theorem has the same form: an invariant `Inv` with `Init => Inv`,
`Inv /\ [Next]_vars => Inv'` by one lemma per action or group of actions, and
`Inv` implies the property (or, for an action property, `Inv /\ [Next]_vars`
does).  Every invariant was checked by TLC on a small instance first.

`PoolProofs`:

- `TypeCorrect`: `Spec => []TypeOK`.  `TypeOK` is not inductive alone: a queue
  row takes the slot of its request, so the invariant `Typed` adds
  `WriterSlots`, that a request has a slot once it is not idle.

The first three of the next four are for `~Overwriting` and `~SlowWriters`, that is,
as long as no chunk is overwritten in place and no release meets a chunk that a
request holds half way (`gc_reuse` shows that the second condition is needed):

- `SlicesReadable`: `Spec => []RefsReadable`;
- `SlotsExclusive`: `Spec => []ExclusiveSlots`;
- `PoolImplementsStore`: `Spec => ImplementsObjectStore`.  Under the invariant
  `Content[o]` is `refHash[o]` for every present entry (`ContentIs`), so a step
  that leaves the references alone stutters, `PutRef` and `Inherit` are a `Put`,
  `Purge` is a `Purge`;
- `LateDeletesHarmless`: `Spec => []StaleNeverCurrent`, without a condition.

`RefsReadable` is not inductive.  The strengthening `Inv` says, slot by slot, who
may touch what:

- `RefsGood`, `SnapsGood`: a slot that is referenced, or that a copy on write is
  about to reference, is *settled* (`Good`): row and file hold the content, no
  `write_queues` row and no `AddChunks` is on it.  Without the queue part,
  `Flush` at startup could rewrite the hash of a referenced chunk from its file;
- `AddsGood`: an `AddChunks` under way is alone on its slot, nobody references
  it, its path is the current one, and the rows in `write_queues` are exactly
  those its progress explains (`RowsAre`), so that `FlushOwn` settles its own
  pair (`OwnPair`) and reaches "flushed" only after a complete file;
- `EmptyClean`: a slot that is not Allocated has no queue row, so reuse starts
  clean;
- `StripeWhole`: the rows of a stripe come into being together;
- `StaleOld`: a path waiting for deletion is older than the current one;
- `BootIdle`, `NotLoaded`: no request runs during startup, none overwrites.

There is one lemma per action (`IntendInv`, `WriteFileInv`, ..., `ReleaseInv`,
`SystemInv`), each by way of a frame lemma: `WriterFrame` for a step on a
request's own slot, `QuietInv` for a step that moves no data row, `TakeSlotInv`
for allocation.  `NextInv` puts them together.

The last two theorems of `PoolProofs` are for `Faultless`, the constants of
`pool_parity`: no statement and no disk fails, the process does not stop, and a
release waits for the request or batch it would overlap.  Overwriting in place is
allowed, by any number of requests at once:

- `PurgedLeavesNothing`: `Spec => []PurgedDataErased`, however late the deletion
  after a commit comes;
- `ParityCatchesUp`: `Spec => []QuiescentParity`, for `~SlowDeletes` too.

The conditions are what the code relies on.  After a failed read the worker gives
the stripe up and the commit deletes its row; a crash, or a deletion that fails,
forgets which files were to go; section 4 shows what the three overlaps break.

Their invariant is apart from `Inv`, which is about references.  `Settled` relates
the tables, the requests, the batch and the releases:

- `Rows`: a chunk that a request holds keeps its row and path, and an Allocated
  chunk has its file, or a request that has not got as far as `OpenFile`;
- `Batch`: the Running rows are those the worker has claimed, it works on
  stripes with data only, and a stripe without data has no Allocated parity;
- `Listed`: every former file of a slot, and every parity file of an emptied
  stripe, is on the list of a release that has yet to delete it.

`Synced` adds that parity agrees (`UpToDate`).  A stripe is `Unsettled` from the
change of its data until it is queued: it is in `stripe_queues`, or a slot of it
has a `write_queues` row, or a request is between its chunk row and its result
row.  A stripe that is not, is `Current` while a batch works on it - the batch
holds the rows and contents of now - and otherwise `Coded`, its parity encodes
its data.  So a step may do anything to an unsettled stripe, and a stripe
settles only where the worker claims it: a row leaves `write_queues` by `Flush`,
which queues the stripe, or by a release, which queues or empties it.  `Writes`
says what one step of a request does to the rest and `Frees` what one release
does; the parts of the invariant are shown of those, and each action to be one.

`ReadCacheProofs`:

- `CacheTypeCorrect`: `Spec => []TypeOK`.  `Typed` adds that only a row with a
  copy has a path, and where a reader may stand with which fields.
- `NeverStaleHit` and `ReadsAreCurrent` (without `promote`): `[]NoStaleHit` and
  `[]ReadsCurrent`.  `FreshInv` adds what the readers carry: what one is about to
  copy is current unless its chunk is being written (`MakesCurrent`), what a read
  that no write overlapped holds is current (`SureCurrent`); and that the rows of
  a chunk are dropped before its file is touched (`DroppedFirst`).
- `CopiesStayReachable` (without `disk`): `[]CopiesReachable`, with the invariant
  that a reader puts its copy on a disk that is there.
- `CopiesStayAccounted` (without `promote` and `row`): `[]CopiesAccounted`.  A copy
  has a row, a reader that is saving it, or somebody who is about to delete it,
  and `Accounts` says which: ids are never given twice (`IdsGiven`), the rows the
  cleaner selected are as it saw them (`ColdSame`), whoever drops rows has the
  paths of all their copies (`DropsAll`), row and copy name the same disk
  (`DiskCopies`).

`AccessProofs` and `AccessSafety`, on `Base`, the types of all rows, requests and
sessions with `Checked` (a check value belongs to an encrypted share) and
`IdsGiven`:

- `AccessTypeCorrect`: `Spec => []TypeOK`;
- `PermissionFresh`: `[]FreshPermission`, with no race left out;
- `BootstrapClosed` (without `mutual`): `Spec => BootstrapCloses`.  `Founded`: once
  an id was given to a user the table is not empty, since whoever deletes one is
  himself a row, and he and the one he deletes differ.  So a bootstrap that
  finds it empty is one that no user was ever created before;
- `TokensAdmit` (without `user`, `case`): `[]TokenAdmits`, from tokens naming users
  that exist;
- `SlicesDecode` (without `codec`, `lock`): `[]SlicesDecodable`.  `FileInv` and
  `WriteInv` carry the codec and the seal through a write: the row it read, the
  cached mount, the slices it inherits and the key it took all agree with the
  share as long as there is one;
- `NothingLeft` (without `share`, `user`): `[]NothingOutlives`.  `OutInv`:
  every grant, token, file and key has its owner or a deletion under way
  (`Owned`), what a request or client uses is there (`InUse`), two requests do
  not work on the same share while one takes it away (`Apart`), and a deletion
  has emptied what its progress says (`Emptied`);
- `HalfSharesUnused`: `[]HalfShareUnused`, with no race and no failure left out.
  `HalfInv`: an encrypted share without a check value belongs to a creation under
  way or to one that was cut (`HalfMaker`), and has no key, no file and nobody
  writing one (`HalfEmpty`), since every way into it goes by the check value.

`FileProofs` and `FileSafety`:

- `FilesTypeCorrect`: `Spec => []TypeOK`, with `Typed`, that says what a handle has
  filled in at each place, and so that arithmetic on offsets stays within the file.
- `CurrentVersionKept` (without `release`, `draft`): `[]CurrentKept`.  `VersionInv`:
  the version a file, an open handle or a restore relies on is committed and has
  its row; the version a handle writes is its own and is not committed.
- `CommittedStay` and `HandleReadsItsWrites` (without `release`, `draft`, `dropped`):
  `[]VersionsIntact` and `[]ReadsOwnWrites`.  Neither is inductive: a committed
  version is right because what the handle held when it committed was what its
  user had written, and that because the snapshot it began with was a committed
  version.  `FileInv` is the conjunction that closes the circle: `ChunkInv` (a chunk
  that is being stored has no other owner, the snapshot is the rows of its
  version), `ReadInv` (byte by byte, what a handle holds for an offset, in memory,
  in a slice on its way to the pool, in a new or an inherited row, is what is due
  there, halfway through a write or a truncation too), `TextInv` (what a
  committed version owes is in its chunks).

`RebuildProofs`:

- `RebuildTypeCorrect`: `Spec => []TypeOK`, with no race left out.
- `PoolServesOnlyWhole` (without `again`): `[]PoolServesWhole`.
- `StripesKeepShape` (without `split`): `[]StripeShape`.  `Slotted` says it slot by
  slot, also in the middle of `AddDisk` (`Width`): what a worker has loaded before,
  or is about to mark, are slots that are still there, and no step but `NewStripe`
  and `AddSlots` makes one.  For the theorems below, without `grow`, `Shaped` adds
  that writers and worker have read the shape the pool has.
- `RebuiltDataKept` (without `stale`, `shape`, `inflight`, `release`, `grow`,
  `torn`): `[]RebuildKeepsData`.  `Kept` is the argument that decoding is right:
  `Held`, the slot of a request is its own and every other written data slot is
  wanted; `Coded`, parity that is not queued encodes the first *k* data slots of
  its stripe for some *k* the pool has had, and the slots after them are empty;
  `RebuildBatch`, the rows a rebuild has loaded are the rows of now, and what it
  will write back is what the rows say; `ParityBatch`, what the worker is about
  to commit encodes the stripe as it is, unless the stripe is queued again.  A
  rebuild then decodes from shards of one vector.
- `RepairEndsWhole` (the same, and without `again`): `Spec => RepairedDiskComplete`,
  with `Verified`: what `VerifyDisks` found whole is whole until `DisksOnline`, but
  for slots that requests are just filling.
- `WholeStripesRecover` (the same): `Spec => RebuildRecovers`.  `Steady`: without a
  loss during a batch, every shard that is not to be written back is there.  A
  counting lemma on `Slots(s)` shows that with at most `pool.ps` shards lost
  enough are left to decode, for every shape.

`NamespaceProofs`, of which the last two are for `Raceless`, that is, without the
six races of `Namespace` in the table above:

- `NamespaceTypeCorrect`: `Spec => []TypeOK`, with no race left out.  `Typed` adds
  that a link has a target and what a request has filled in at each step
  (`Shape`).
- `SubtreesPurgedWhole` (without `empty`): `[]PurgesWholeSubtrees`.  `Whole`: the
  parent of a row is a row of a directory (`Rooted`), and so is the directory a
  request is about to add to (`Sited`).  `Subtree(n)` is a function on numbers
  that grows and cannot do so more than `MaxInode` times, so it is closed under
  children.
- `OnePath`: `[]OnePathEach`.  `Sound` adds to the tables what makes them a tree
  (`Tidy`: a live entry is below a live directory, names differ, no set of live
  entries contains the parents of all its members), and to the requests what
  they have found out and nobody may change (`Holds`): the entry and the one it
  replaces are live and where they were found, the directory to empty is empty,
  the name is free (in the root, where no index looks after it), and the climb of
  `isDescendant` from the target up to where it stands has not met the
  directory to be moved (`Chain`).  `Effect` says what any one transaction does
  to the rows, once for all operations: the invariants are shown of an `Effect`,
  and each transaction to be one.  That a climb that arrives at the root closes
  no cycle, and that a walk from the root reaches every live entry, are then
  arguments about sets closed under parents or children, not inductions over
  the depth of the tree.
- `NamespaceImplementsTree`: `Spec => ImplementsTree`.  `Tree` has the rows of
  `inodes` as its only state, so every query stutters, and every transaction is
  the action of `FileTree` whose guards `Holds` implies.

The tables to start from are any that `IsTree` holds of, the root alone or a tree
that earlier requests have left; that is the assumption on `Tables`.

What stays with TLC:

- `AlwaysProtectedAgain`, `LeaksReclaimed` and `JobEnds`: liveness under fairness,
  and with it `ENABLED`, is out of the prover's reach.
- The refuted statements (`gc_reuse`, `file_dropped`, `rebuild_partial`), and that
  the races of section 4 break what the table says.

## 6. Not modelled

- Pool: chunk sizes and batches of more than one item in AddChunks (no caller
  passes one); AddPool, one insert; `usage.go`, queries; the shuffle of disks in
  a new stripe.
- Files: the quota.  `checkQuota` adds the growth of one call to the committed
  sizes, so several writes of one handle pass a quota that their sum exceeds
  (`file_write.go:51` against `README.md:397`).  Append mode (an offset like any
  other) and attributes.
- Read cache: failing statements, which are logged and leave at worst a copy no
  row names, or a chunk that stays uncached.
- Namespace: Copy, which is Mkdir, create and writes by path; SetAttr; queries.
- Access: passwords, TOTP and expiry; the limits of request sizes; the data
  transformations of compression and encryption; that the two statements fail
  which undo a share whose password could not be set, and whose errors the
  handler drops (`shares.go:210-211`).
- The protocol servers: SMB, SFTP and WebDAV packets, handle tables and locks.
  Their requests are the operations of `Files`, `Namespace` and `Access`.
- The web front end, configuration, logging and error codes.
