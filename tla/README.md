# Verification of DEFS

DEFS stores *particles* (records of named dimensions and typed bonds) on a
volume file and mounts them as a file system.  This directory holds TLA+ models
of its storage core and of the structures around it, TLC configurations that
check them on small instances, and proofs that the TLA+ proof system checks for
every instance.  All source paths are below `src/engine/defs-core/src/` unless
they start with `engine/`.

## The system

| Component | State | Operations | Interacts with |
|---|---|---|---|
| Block bitmap (`alloc_bitmap.rs`) | bit vector, running free count | mark, free, allocate one or a run, recount | owned by the volume |
| Volume (`volume.rs`, `super_block.rs`) | superblock and bitmap in memory, `dirty`, 64-block write-through cache, the file | create, open, read, write, allocate, free, set a pointer, sync | every layer above writes through it |
| Write-ahead log (`wal.rs`) | `write_offset`, `next_sequence`, `entries_since_checkpoint`, the journal blocks | log_write, log_delete, checkpoint, recover, scan at open | blocks of the volume; owned by the store |
| Persistent store (`persist.rs`) | particles in memory, the modified ones, particle index, dedup table, snapshot table | write, delete, load, sync, open, load_all, compact, snapshot, restore | volume, log, particle store |
| Particle store (`store.rs`, `particle.rs`) | particles, incoming-bond index, singularities | write, delete, search, traversal | memory of the persistent store |
| Virtual file system (`vfs.rs`) | directory indexes, inode table, handles | lookup, create, mkdir, unlink, rmdir, rename, open, read, write, truncate | persistent store |
| FUSE driver (`engine/defs-fuse`) | an open file system | one call per kernel request; paging of directories | virtual file system |
| Command line (`engine/defs-cli`), dashboard | an open store or file system for one command or request | `cat` and `write` loop over a file; the others make one call | virtual file system or store |
| Fsck (`fsck.rs`) | a report | eight checks and repairs over a volume | volume and store |
| Vector index (`hnsw.rs`, `embed.rs`) | layered graph and a list | insert, remove, search | filled from the store on demand |
| Prefetch, decay (`prefetch.rs`, `decay.rs`) | access log, patterns, queue; temperatures | record, predict, queue | nothing calls them from the storage path |
| Model store (`model.rs`) | a table in memory | layers and deltas | nothing calls it |
| Unwired block-layer parts (`dedup.rs`, `snapshot.rs`, `journal.rs`, `btree.rs`) | small data structures | reference counts, version chains, transactions, ordered lists | nothing calls them |
| Backend traits (`backend.rs`) | - | an interface over the store, with an asynchronous wrapper | one mutex around each call |

What makes it hard is failure.  A sync is a dozen file writes over four
structures (pages, bitmap, superblock, journal), the process can die between
any two, and what the next `open` makes of the result depends on their order.
Shared dimension pages, freed blocks that keep their old bytes, snapshots that
copy tables and count nothing, and tables that are rewritten in place turn a
wrong order into lost or exchanged data.  One call of the file system is
several logged writes, over directories that are known by names in an index and
by bonds elsewhere.  There is little concurrency: a store has one owner, the
asynchronous wrapper takes one mutex per call and the FUSE driver serves one
request at a time.  Requests do interleave with each other's *loops*, though:
a directory is read a page at a time, and a command goes through a file a
buffer at a time.

What makes each part correct:

* the bitmap counts exactly and never hands out a used block;
* a volume never serves a stale block, a clean one has nothing to lose, a
  synced one survives a power failure, and its own metadata stays reserved;
* the log gives back what was acknowledged since the last checkpoint, in order
  and whole, wherever the process dies;
* the store loses no acknowledged write, brings no deleted particle back, and
  never frees or reuses a block something still names, a snapshot included;
  every call returns, also when journal and volume are full;
* what fsck reports is what was left behind, and nothing live;
* names, bonds, caches, inode numbers and handles agree at every logged write,
  and a call touches nothing but what it was given;
* a file holds at each place the byte last written there;
* a scan of a directory gives every entry that stays, once;
* the graph of vectors is well formed and answers like the list it replaces;
* the traversal finds what lies near, a prediction rests on repetition.

`PROJECT.json` lists the single hazards with their source lines and the
properties aimed at each.

## Modules

```
BlockBitmap ---- Volume                              VolumeProofs
WalCodec ---- Wal -- refines --> AbstractLog         WalCodecProofs, WalProofs
    \
     Persist ---- Snapshots ---- Fsck                PersistProofs, CrashProofs,
                                                     SnapshotProofs
Chains
ParticleStore ---- Vfs                               VfsProofs
    \
     Traversal
Hnsw ---- EmbeddingIndex                             LibraryProofs
Prefetch                                             LibraryProofs
FileIO                                               LibraryProofs
DirScan                                              LibraryProofs
```

A line means *extends*.  `MCWal`, `MCPersist`, `MCSnapshots` and `MCVfs` give
the constants of one model their values for TLC; `MCDisk` puts `Volume`, `Wal` and
`Chains` side by side, `MCStructures` `BlockBitmap`, `EmbeddingIndex`, `Prefetch`,
`Traversal`, `FileIO` and `DirScan`.  Definitions whose comment starts with *Mutant* are not part of a
model: each is a plausible bug that makes one property fail, named in
`PROJECT.json`.

**BlockBitmap** is `alloc_bitmap.rs`.  The byte vector is the set `bits` of used
positions, `free_count` the running count.  One action per method.  `ScanRun` is
the loop of `alloc_contiguous` as it is written; `IsRun` says what it looks for,
and `ScanFindsLowestRun` that the loop finds it.

**Volume** is `volume.rs`: superblock pointers, bitmap (it extends
`BlockBitmap`), cache and `dirty` in memory; `file` is what any process reads
back, `stable` what has certainly reached the disk.  `create` is two file writes
(superblock, bitmap), `sync` three steps (superblock, bitmap, fsync); the process
can end and the power can fail between them; `WriteBack` lets the operating system write any piece early.  The cache
evicts an arbitrary block, as a hash map's first key is.  `settled` is history:
either all of the file was on disk at the open, or a sync ran since.

**WalCodec** is the journal as `wal.rs` reads it: an array of 32-byte cells, a
header being one cell and its data the following ones.  `Recovered` is the two
passes of `read_all`, `ScanTail` is `scan_tail` with its choice to leave
`write_offset` on the last valid entry.  Each is a recursive function over
offsets, so proofs may use the module.

**Wal** adds the writers.  An entry is a header write, then one write per block
its data touches, and only then do the counters move and the caller is answered.
`Crash` can fall between any two.  `acked` and `logged` are history.  The array
goes on behind the journal region, where a checkpoint on a full journal lands.
**AbstractLog** is what a log promises: append, truncate.

**Persist** is `persist.rs` over the same journal format.  `mem` is the memory of
a session (store, modified particles, index, dedup table, bitmap, superblock
pointers), `disk` the file (pages, bitmap, pointers).  `write` and `delete` are
one step each, since `Wal` covers torn entries.  `sync` is one step per file
write: each dimension page, each leaf page, superblock, bitmap, index page,
superblock, dedup page, superblock, checkpoint, superblock, bitmap.  A content
is a set of dimensions, a dimension being a name with its data, and equal
dimensions share a page.  Each table fits one block (the assumption `TablesFit`: up to
101 particles and 84 shared dimensions); `Chains` has the longer ones.  A record too
long for a page (`Oversized`) ends the sync after its block was taken (`LeafTooLarge`).
An open is followed by `load_all`, as `open_store` of the command line does after a
crash too, or is not, as in the file system.  Freed pages keep their bytes.  A checkpoint behind the
end of the journal makes garbage of the first data block.  `failures` is
history: what went wrong half-way, whether a page was overwritten, and whether a
`load_all` after a crash found the index empty and took every leaf page of the volume
for a particle (`"scanned"`).

**Chains** is the particle index once it takes more than one page (`write_index`,
`write_index_chain`, `read_index`): a list of fields (the number of entries, then an id
and a block for each) cut into pages of equal size, so that an entry may lie on two of
them.  The old chain is freed in memory, the new one takes the lowest free blocks, and
each page is a file write of its own before the superblock is written.  The dedup
table, the snapshot table and the copies a snapshot makes go through the same code.

**Snapshots** adds compaction and snapshots, which both begin with a whole sync
(`SyncFirst`; `pending` holds what follows it), and restores.  A snapshot is a
copy of the two tables; leaves and pages are not copied and no count knows them.  The
snapshot table fits one block too (`SnapshotTableFits`).
A compaction clears bitmap, tables and pointers in memory, writes every particle
again, then the index, and never the new dedup table.  `taken` is history: what
each snapshot was taken of, and whether it is intact: nothing since gave up a leaf or
a table of it, or the counts that cover what it names.

**Fsck** is the report of `fsck.rs` on blocks, counts and the index page, each part an
operator on the file, with its own reading of the tables.  The checks of particles and bonds are in `Vfs`
(`DanglingBonds`, `OrphanedParticles`).

**ParticleStore** is `store.rs`: particles, and the index of incoming bonds as a
relation of target, source and position.  Write, delete and `write_dimension`.
Singularities and the searches by dimension are left out; of a bond only the
target is kept.  **Traversal** is `traverse_graph` over it, deep first with one
list of visited particles; `Within` is the definition it is compared with.

**Vfs** is `vfs.rs` on top of it.  `particles` is the
memory, which is all that `read` looks at, `saved` what the log and the file hold
together, `logged` what the next `open` replays into memory.  The id of a new
particle is the sequence of kinds and names it was made under, as the hash in the
code is a function of these.  A call is a script of steps, one per logged write;
`Restart` can fall between any two, and `StepFails` ends a call whose particle is not
in memory.  `LoadDirectory` and `Lookup` bring directories and particles in on
demand, with the rebuilding of an index from bonds.  The store below is taken to give
back what it acknowledged; `Persist` and `Wal` say when it does.  Here the content
of a file is one value.

**FileIO** has the bytes: handles with offset and mode, `read`, `write` and
`truncate` of `vfs.rs` (`ReadBytes`, `Overwritten`, `Resized`), the driver's
requests, which move a handle and read or write there, and the loops of `defs
cat` and `defs write`, one step a turn, which a process may leave at any turn.
`written` is history: the size of each file and the latest byte at each place,
without a content to grow or copy, so that holes, overwritten parts and truncated
ends are compared with a plain statement of what they should be.

**DirScan** is the driver's `readdir`: each request lists the directory anew and
skips as many entries as were given out before, while entries come, go and are
renamed.  Names are numbers, in the order the index has them.

**Hnsw** is `hnsw.rs` as operators from a graph to the next, **EmbeddingIndex**
`embed.rs` with its list and its choice between list and graph.  Vectors are
points on a line no two of which are equally far from a third, so every sort has
one outcome.  `SearchLayer` visits all the layer reaches from its start and cuts
to size afterwards, as the loop does.  `cut` is history: a list was pruned or a
node removed.

**Prefetch** is `prefetch.rs`: access log, patterns, predictions, queue.  Every
access counts again what the log still holds.  `trace` is history.

## Runs

| Run | Question | Bounds |
|---|---|---|
| Disk | Three parts, one at a time. *Volume*: cache coherence, clean = file, synced = disk, reserved metadata, through process exits, power failures and early write-backs. *Log*: is one session an append-only log, exact at every file write, implementing `AbstractLog`, and does a second one over its leftovers invent an operation? *Chains*: does an index of several pages read back, and is its replacement all or nothing where it does not touch the old blocks? | 4 blocks (1 superblock and bitmap, 2 more before the one for data), 2 cached of 3 cacheable, 2 contents, 1 pointer; 10 cells in blocks of 4 and 1 cell behind them, entries of 3, 3 and 2 cells, 2 sessions; 4 particles, 4 fields a page, 8 blocks, 7 calls |
| Persist | Are blocks, references, dedup hits and contents right, is nothing lost between sessions that end in a sync, is the crash image complete at every file write, does a deleted particle stay away after a crash, opened with `load_all` or without? | 2 particles, 2 dimensions (1 always shared), 9 blocks, 14 cells, 6 calls, 2 sessions with or without `load_all`, 1 crash |
| PersistTight | Is nothing lost and does every call return when journal and volume fill up: automatic syncs, retries, syncs that run out of blocks or meet a record that is too long? | 9 cells, 5 blocks, automatic sync after 2 entries, 6 calls, 2 sessions; fairness |
| Snapshots | Do compactions, snapshots and restores keep blocks, contents and snapshots straight, and is fsck's report what was left behind? | 2 particles, 9 blocks, 10 cells, automatic sync after 3 entries, 5 calls, 2 sessions, 1 compaction, 2 snapshots |
| Structures | Six parts, one at a time (below) | see below |
| Vfs | Do names, particles, bonds, cached indexes, inode numbers and handles agree at every logged write, and is only what a call was given touched, whatever it stops at? | 2 names, directories in the root with files in them, 4 calls or 3 and an end of the process, 1 handle |
| WalLost, ChainLost, PersistForgets, CompactForgets, VfsLinks, VfsMove | Six statements of the documentation that the code does not keep (next section) | small bounds that show each |

Two particles are enough to share, free and reuse a page; six calls allow writing
both, syncing, deleting or rewriting one, writing again and syncing again.  A
snapshot, a change, a second snapshot or compaction and a restore fit into five
calls, since these sync first.  Ten cells are few enough for a checkpoint to run
past the end.  In `Disk` four particles make an index of three pages, the second of
which begins in the middle of an entry, and seven calls save them, write the index,
change one and write it again.  The particles are interchangeable, and so are names, so those runs use symmetry; the
run that checks liveness does not.  In
`Vfs` two names are enough to rename onto another entry, to replace and to make
again; four calls make a directory and a file, move or rename one and remove or
make it again.  `CHECK_DEADLOCK FALSE`
stands where the call, session and crash bounds end a behaviour.

The parts of `Structures` do not touch each other, so one is chosen at the start
and their states add up instead of multiplying:

* *bitmap*: 8 blocks in two bytes of 4, all 256 bitmaps, ranges inside and across
  bytes;
* *embedding*: the points 0, 3, 30, 40, 75, 81, all of them in any order; 2 links a
  layer, so that a node keeps 4, and the points are such that one is linked by all
  the others and gets pruned; an id inserted again, or removed, among up to 3 entries;
  levels 0 and 1, at most one node on level 1; the graph answers from 2 nodes on (50
  in the code);
* *prefetch*: 3 particles, a log of 4, 7 accesses: patterns that repeat and are
  forgotten;
* *traversal*: 4 particles with up to 2 bonds each, every graph of them;
* *files*: one file of up to 3 bytes of 2 values, 2 handles, buffers of 2: a loop
  takes two turns, a write leaves a hole, overlaps an end or both;
* *scan*: 4 names beside `.` and `..`, 3 changes during a scan, pages of 1 to 4
  entries.

### Fairness

Only `PersistTight` assumes any: `FairSpec` is weak fairness of `SyncStep`, the
steps a call takes after it began.  A call runs on its caller's thread and no
step of it waits for another, so if the process lives the next step comes; a
process that dies ends the call.  New calls, which clients make or not, have no
fairness.  `CallsEnd` then says that a call which finds the journal full, syncs
and tries again comes to an end with a result, though the sync gives no room
back.

## Where the code departs from its documentation

Runs of their own show the first six.

* `scan_tail` leaves `write_offset` on the last valid entry: the first entry of
  the next session overwrites it (`WalLost`).
* An index of more than one page is freed before it is written again, and so is written
  over its own blocks, page by page, while the superblock still names it.  A process
  that is killed between two pages leaves an index in which particles that were synced
  long ago, and are in the log no more, are missing (`ChainLost`).  `TablesReadBack` says
  what is left: a new chain that touches no block of the old one, or a table of one
  page, is all or nothing.  What `Persist` and `Snapshots` say of crashes, and what is
  proved of them, is about tables of one block.
* A recovered particle is not marked modified, so the next sync drops it from the
  log without writing it (`PersistForgets`).
* Compaction clears the dedup pointer and writes no new table.  A process that
  opens the volume next has no counts, and its first delete frees a page other
  particles share (`CompactForgets`).
* A file renamed away keeps the id of its first name.  A file made under that name
  again replaces it: both names lead to one empty particle (`VfsLinks`).  The `Vfs`
  run, and the proofs about names, have clients that do not do this (`Reuse = FALSE`):
  they make no particle whose id some directory still has a name or a bond for.  The
  bond counts because of a rename onto an entry: it takes the name of what was there and
  leaves its bond, and a particle made again under that id would be bonded twice.
* `rename_cross` takes the entry away and then reads the particle, which after a
  reopening is only in memory if something looked it up.  `defs mv` looks up the
  parents only: a move with a new name returns an error and loses the entry
  (`VfsMove`), a rename within a directory always fails.  An end of the process
  between the two directories loses the entry too.

The others limit what a property can say; where one is the reason for a
condition in it, the property is named.

*Log and volume*

* `checkpoint` neither looks where the journal ends nor resets the offset: on a
  full journal it lands in the first data block (`StaysInRegion`, which
  `RecoverExact` presupposes; `Undamaged` of `Persist`); for the same reason
  a write that finds the journal full cannot succeed after the sync either.
* `Volume::create` ends in a `sync` that does nothing, so a power failure can keep
  the superblock of a new volume and lose its bitmap; and a process that ends between
  the two writes leaves a superblock over a bitmap that is all zero, which the next
  `open` takes as it is: it hands out the blocks of superblock, bitmap and journal.
  `ReservedOnceStored` is stated from the moment the disk has the bitmap for these
  reasons.  (The model allocates data blocks only: from that moment on no others are
  free, and before it nothing is promised.)
* After a crash, `open` clears `dirty` over a file that is only in the page cache,
  and the next `sync` forces nothing.  `SyncedIsDurable` says `settled` for this
  reason.

*Store*

* With an empty index `load_all` scans the volume and loads deleted particles: write,
  sync, delete, and the next command, which opens with `load_all`, has the particle
  back, whether the process was killed or synced and ended.  And a session that
  recovered a deletion writes over its entry if that was the last of the log (see
  `scan_tail` above), so that after a second crash the particle is back.
  `DeletedStaysDeleted` leaves out the scan (`"scanned"`) and speaks of the first session
  and of the one after a crash of it for these reasons.
* With a non-empty index `load_all` loads the version on disk over a newer one the log
  gave back, so that a command after a crash sees what was there before the write;
  `SyncedSessionsLoseNothing` says `crashes = 0` for this reason too.
* A record too long for a page fails the sync, and every later one, after its block was
  allocated; the block stays lost.
* A crash between the index and the dedup table leaves the index with references
  the table does not count, so that deleting one particle frees a page of another;
  a crash before the last bitmap write leaves the live tables in blocks marked
  free.  The block invariants say `Undamaged` for both.
* A delete gives up the blocks of a particle although a snapshot names them, and a
  restore of the snapshot then brings back whatever the blocks hold by then.  A
  compaction does this to every snapshot, keeps the pointer to the snapshot table,
  and a later snapshot frees that block, which may be live (`SnapshotIntact`).
* A restore goes back to the counts the snapshot was taken with.  They do not cover what
  was written since, so a delete then frees pages that a *later* snapshot names.  And
  it makes the snapshot's copy of the dedup table the store's own, which the next sync
  frees: restored again, the snapshot may bring back a table that is stale or something
  else by then.  `SnapshotIntact` calls both no longer intact.
* A restore leaves the log as it is, so operations from before it are replayed over
  the restored state at the next open (`CrashImageOutsideCompaction`).
* A crash during a compaction leaves a file whose old index names pages that were
  written over.  In a session after a compaction, which has no counts, a delete may free
  and a sync write over any live block, the index included: `MaintenanceKeepsBlocks` is
  about `CountsKnown` for this reason.

*Fsck*

* From the second snapshot on it misreads the snapshot table, since it does not step
  over the dedup table's block of an entry: it takes parts of times and labels for
  blocks and calls a sound snapshot out of range (`check_snapshot_integrity`, which is
  not modelled).  None of these numbers is a block of the volume, so it reports the
  leaves and copies of snapshots as orphans, and an empty root directory too.
  `OrphansAreOldLeaves` states exactly this.
* It goes by bonds and not by names: an entry lost by a move is not reported.

*File system*

* A rename cut short leaves a name dimension that is not the entry's.  An index built
  from bonds later goes by the dimension, and the particle may be found under two
  names.  `OneName` is stated of the first process for this reason, and so is
  `EntriesExist`: an `unlink` of one of the two names takes the particle away and
  leaves the other name without one.  An unlink cut
  short leaves an entry without its bond, and `rmdir` goes by bonds;
  `EntriesAreBonded` says so.
* `unlink` and a rename onto an existing name leave the particles below or behind what
  they replace without a name, and the bond of a replaced entry keeps its directory
  from being removed, also after the name is removed.  A directory can be moved below
  itself and is then unreachable.
* `is_dir`, `getattr` and `readdir` take a particle with bonds for a directory, so
  a new, empty directory is reported as a regular file, also in the answer to the
  `mkdir` request that made it; `defs rm` of an empty directory is an `unlink`.
* Directories are paged by position in a list that is made anew, so each entry
  removed behind the scan makes it miss one that stays (`ScansMissOnlyWhatMoved`
  bounds the loss), as when a directory is emptied while it is read.
* Handles of an unlinked file are refused instead of keeping it.
* `defs write` empties the file first and logs every buffer: cut short, it leaves a
  beginning of the new content and nothing of the old.

*In memory*

* A removal from the graph links nothing anew, and pruning cuts lists on one side,
  so parts of the graph can become unreachable (`SearchExact` says `~cut`).  The
  search that precedes pruning finds the new node itself, which takes one of the
  places.  An id inserted again keeps its old vector in the graph while the list
  has both.
* Writes, deletes and restores do not touch the vector index until it is built anew.
* The traversal visits a particle once, on whatever path came first; met too deep, it
  hides what lies behind it on a shorter way.  `TraversalFinds` claims completeness
  only for depths where this cannot happen.
* Frequencies of the prefetcher grow with every access that leaves an occurrence in
  the log; `PredictionsRepeat` says what is still true.

## Proofs

Each `XProofs` module proves for every value of the constants what the runs check on
a few.  Every inductive invariant below was first checked by TLC: as an invariant of the
run of its model (`NamesInv` also on part of a larger instance with seven calls), those
of `SnapshotProofs` along random behaviours of an instance with 16 blocks, 30 cells, 14
calls and 3 sessions, since a compaction of much needs room.

The assumptions are those of the models, named in the module that declares the
constants: `BitmapAssumption` (a positive number of blocks in whole bytes, as volumes
are made of whole megabytes), `VolumeAssumption` (metadata before data, at least one
data block, a cache of at least one block), `WalCodecAssumption` and `WalAssumption`
(every operation has data; headers, pieces of data and blank cells are told apart, as
magic and CRC do), `PersistAssumption` (finitely many particles; contents are sets of
dimensions; an automatic sync after at least one entry), `VfsAssumption` (ids are
sequences of kinds and names; what a particle's dimensions can hold; "none" is no value),
`FileAssumption` (a buffer of at least one byte; written bytes are told apart from
the zeroes of a hole), `SnapshotsAssumption` (no operation is neither a compaction nor a
snapshot), `EntryAssumption` (finitely many names, none of them `.` or `..`),
`HnswAssumption` (no two points are equally far from a third; at least one link a layer) and
`EmbeddingAssumption` (the bounds are numbers).

*Bitmap and volume*

* `FreeCountIsExact`: the count is the cardinality of the free blocks.  Inductive
  with the type invariant; the ranges need cardinalities of unions and intersections
  with intervals.
* `AllocationsTakeFreeBlocks`: an action property from the same invariant.
* `ScanIsRight`: the loop of `alloc_contiguous` finds the lowest free run.  At each
  position and each number of free blocks counted so far the loop has one answer
  (`IsAnswer`, `AnswerUnique`), and it gives that one.
* `PowerSpecInv`: `VolumeInv`, the conjunction of the type invariant, the exact
  count, cache coherence, `CleanMatchesFile`, `SyncedIsDurable` and `SyncProgress`.
  The last is the strengthening: half-way through a sync the file already has the
  superblock, then the bitmap, of memory; without it `SyncAll` could clear `dirty`
  over a file that lags.  `SyncedVolumesAreDurable`, `CacheStaysCoherent` and
  `CleanVolumesMatchTheFile` follow from it.
* `StoredMetadataStaysReserved`: through power failures, from `ReservedInv`, which
  passes the reservation from disk to file to memory.

*Log*

`WalCodecProofs` is about reading alone: what `read_all` and `scan_tail` do with any
array of cells.  Both are recursive functions over offsets that grow, so facts about
them come by taking the greatest offset at which they fail.  A *chain* is a sequence of
offsets, each one entry behind the one before; recovery follows it to its end, and
starts behind the last checkpoint.

* `WalInvariant`: `WalInv`.  In the first session the journal is one chain of whole
  entries with at most one torn entry behind it, the cells behind that are blank, and
  the acknowledged operations are those behind the last checkpoint of the chain.  For
  every session, `HeadersFit` and `LastPieceLogged`: the last piece of an operation's
  data is only there when the whole was logged, which is what makes the CRC's promise
  true over leftovers of any kind.
* `RecoversWhatWasAcknowledged`, `RecoversNothingElse`: from these, in one step each.
* `FirstSessionIsALog`: the refinement of `AbstractLog`.  A header or a piece that
  does not complete its entry leaves what is recovered as it was, the last one appends
  the operation, a checkpoint empties it.

*Persistent store*

`PersistInvariant` is `PersistInv`: as long as no page was overwritten and every session
ended in a sync (`Undamaged`; calls may have failed half-way for want of room), the
conjunction of

* `PersistTypes`;
* `StoreGood`: what the tables in memory name is allocated and holds what is looked for
  there, every page a leaf names is the one now shared for that dimension, the counts
  cover the leaves *and the particle being written*, and what is not modified is on disk
  as expected;
* `WorkGood`: the particle being written is one still to be written, with the content it
  has in memory, and has taken its references already; without this part the counts are
  not kept from one page to the next;
* `Progress`: which tables of the file agree with memory at which step of a sync, and
  `FileGood` when nothing is logged, so that an open finds a good image;
* `Beginnings`: before the first index there is nothing in the file, which is why the
  first sync may fail early without harm;
* `JournalGood`: after a sync the journal has nothing to replay.  This uses the lemmas of
  `WalCodecProofs` about the store's own journal.

`LiveBlocksStayAllocated`, `ReferencesAreCounted`, `DedupHits` and `SyncedSessions` follow.

*Crashes of the store* (`CrashProofs`)

* `CrashImageIsComplete`: from `CrashInv`, which says at every file write of the first
  session where what was acknowledged is.  The last operation of the log on a particle is
  what is expected of it (`Tells`), a particle the log does not mention (`Touched`) is as
  the index of the file has it, and that index is the one in memory for those.
  `ReplayAll` says what a replay makes of any base and any log: of a touched particle
  what its last operation says, of another one what the base has.  The steps that matter
  are those in which a table of the file changes hands: until its checkpoint a sync may
  move only what the log still tells.
* `DeletedStaysAway`: two more invariants.  `ApartInv`, of the first session: a leaf in
  the file whose particle the log does not touch is used, and named by nothing else in
  the file (`Alone`), although bitmap and tables of the file are of different moments
  (`Behind`).  So the deletions a replay performs, with the tables it finds, take no
  other particle's leaf.  `SecondInv`, of the session behind the crash: the counts may be
  wrong by now and pages may be freed that are in use, but what is known of a particle
  that is not in memory is its own leaf or stale (`LeavesAlone`), and neither brings
  back a deleted one.  For a session that begins with `load_all` a third one is needed,
  `StandInv`: what the index of the file names for a particle is still a leaf of it and
  in use, unless the log holds the deletion of that particle (`LeavesStand`); so what the
  load finds is what the index meant.  The theorem assumes that no content is empty: the file system
  gives every particle dimensions.  An empty particle's leaf names no page, so a dedup
  table that is no longer in force may name its block.

*Compaction and snapshots* (`SnapshotProofs`)

`SnapInvariant` is `SnapInv`, for the steps of `Snapshots` on a file that is `Healthy`
(`Undamaged`, and no call stopped between a count and the table that has it).  It is the
conjunction of

* `Live`, the parts of `PersistInv` that hold through a compaction too; the lemmas of
  `PersistProofs` are stated with `Live` alone where they do not look at the file's image;
* `Maintained`: what is there besides.  `Snaps` makes each intact snapshot a second image
  over the same pages: its tables are where the snapshot table says, its leaves are
  allocated, and the counts in memory cover them as far as they were written since
  (`Fresh`, `Covers`); a snapshot counts nothing itself, so this is what becomes false,
  and with it `intact`, when a leaf it names is given up.  Snapshots are nested: a later one
  has what an earlier one still shares with the live tables.  `Cloning` is the table
  copy that is under way.  `Compacting` counts: bitmap and tables start empty, and what was
  freed is enough for what is written again (`CompactingHasRoom`), which is why a
  compaction that got past its first sync cannot run out of blocks half-way.  Nothing
  deleted is in the tables;
* `Recorded`: what the file has (its image, its snapshots' images, and nothing deleted), as
  long as no compaction has begun.  An open needs it, and `PersistForgets` and
  `CompactForgets` show that behind a compaction it is false.

`MaintenanceSound` (blocks, references, dedup hits) and `SnapshotsStayIntact` follow.  A
restore makes the snapshot's image the live one, and the image invariant it then needs is
the one `Snaps` kept for it.  `MaintenanceIsLossless` says that maintenance changes no
content, in sessions that all ended in a sync, without a failed call or an overrun, and
of which none follows the one that compacted (`CountsKnown`): `CompactForgets` shows what a
later one loses, without any crash.

Two results are about the file in the middle of things:

* `IndexIsReadable`: from `PointedInv`, which adds to `SnapInv` that the superblock of the
  file names the index of memory but where that is about to be written, and that no page
  is garbage.  Wherever a process dies outside a compaction, `check_particle_index` finds
  a page it accepts.
* `CrashImageWithMaintenance`: from `ImageInv`, which adds what `CrashInv` says of the log
  and the index of the file (`Tracked`).  It holds `Outside` a compaction, the switch of a
  restore and the time in which the log has operations from before one; there the log is
  still written and started over as before (`LogWhole`), and `Emptied` says where it is
  empty.  Behind these the file begins anew from a sync, and `Rested`, a state in which
  everything is in the file and nothing in the log, gives `Tracked` back.

*Particle store and file system*

* `IncomingIsExact`: the incoming index of the particle store has exactly the bonds of
  the particles.  Inductive as it stands: a write replaces the entries of its particle,
  and a delete, which looks only at the lists of the targets its particle has, finds
  all of them because the index was exact before.  `VfsKeepsIncomingExact` says the same
  under the file system's writes, loads and reopenings.
* `VfsInvariant`: `VfsInv`, through any calls and ends of the process.  What is saved is
  well formed, memory holds nothing else (every write goes to both), the steps a call has
  still to do are ones it can have, and `TableOK`: each particle's number leads back to it
  and lies below the next one.  Numbers are never given twice (`Extends`), so
  `HandlesStayRight` holds; `VfsTypes` is its first part.  The indexes built from bonds,
  the numbering of children and `retain` are folds; what they do is shown by induction on
  the set of positions (`FoldInduction`).
* `CacheStaysTrue`: from `CacheInv`, which adds that a new particle is made by the first
  step of its call, while no index of it is cached.
* `NamesInvariant`: `NamesInv`, of the first process.  `Agree(X, B, P)` says that cached
  indexes, name dimensions and bonds agree, but for the entries in X, whose particle has
  another name by now, the entries in B, whose bond is gone, and the bonds in P, whose
  directory has no index yet.  Between calls all three are empty (`Settled`).  For what a
  call has still to do there is one predicate a step (`ToMake`, `ToBond`, `ToIndex`,
  `ToUnbond`, ..., `Entering`), which says how far the call has come and what it is an
  exception to; each step leads from one to the next, and a step can only fail where
  nothing is on its way.  `EntriesHaveParticles` and `EntriesKeepTheirBond` follow.

The last two, and what follows from them, assume `~Reuse`, as the `Vfs` run does: with
`Reuse` they are false (`VfsLinks`).

*Requests, prefetch and vectors*

* `PredictionsRest`: from `PrefetchInv`.  The log is the end of the trace; a frequency
  above 0 means the triple occurred and its pair once more behind it, a frequency
  above 1 that the pair occurred three times.  The second needs the first: a count
  that goes from 1 to 2 has the two places the frequency stood for, and the latest
  two accesses are the third.
* `FilesHold`: from `FileInv`.  The contents of a file are the image of its history,
  which `Overwriting` and `Cutting` show for one write and one truncation at any
  offset; the handle of a command is as far as its loop, which is what ties the two
  programs' positions together and needs that every turn moves the handle by what it
  read or wrote; and what a command has done is a beginning, which `NextPart` extends
  by a buffer.
* `ScansAreBounded`: from `ScanInv`.  Names passed without being given out
  (`Overlooked`) are at most as many as the names that went; names given twice, and given
  ones that lie ahead again (`Ahead`), are at most as many as those that came.  The second
  needs the two counted together: an insertion moves a given name ahead, the next request
  gives it again.  One entry that comes or goes moves every later place by one, so it
  carries at most one name across the scan's offset (`RankWith`, `RankWithout`).
* `GraphStaysSound`: from `IndexInv`, which adds to `GraphSound` that each entry of the
  list has a node, so that a removal finds the one it takes out.  `ComponentWithin` says
  that a search of a layer finds nodes of that layer only, `LinkedIs` and `PrunedIs` that
  linking in both directions and cutting keep links right, `WithoutIs` that the
  renumbering of a removal does, and `LastHighestIs` that the new entry point is a node of
  the most layers.
* `SearchStaysExact`: from `IndexInv`, by which entries and nodes carry the same ids and
  vectors, one node each, and `TogetherInv`: until something is cut, no proper part of
  layer 0 is closed under links.  That says that the layer hangs together without a path
  in it; `ComponentAll` draws from it that as many rounds of the search as there are nodes
  find every node.  An insertion keeps it, since the new node is linked both ways with one
  that was found (`LinkedTogether`); a descent through upper layers ends at some node of
  layer 0, from where a search reaches all (`SearchAll`); and `NearestIds` carries ranks of
  nodes over to ids of the list.  `~cut` is the property's own hypothesis, not the proof's.

Model-checked only:

* `CallsEnd`, which is liveness, and `TraversalFinds`, whose model is a RECURSIVE
  operator: both are out of the prover's reach;
* `TablesReadBack` of `Chains`, whose pages are cut from a list with the help of
  operators the prover knows nothing of, and `OneName` of `Vfs`, which holds only of clients
  that never make a name again whose id is in use, while `VfsLinks` shows the others;
* `OrphansAreOldLeaves` and `CountErrorsAreLeaks` of `Fsck`, which say exactly what each used
  block is, where the invariants above say only what must be used;
* `OthersUntouched` of `Vfs`, an action property over what a client finds, where
  directories reached from the root are recursive over data.

## Not modelled

* Byte layouts, checksums as arithmetic (a torn or stale cell is recognised), labels
  and times, statistics, quantisation, compression and text heuristics
  (`format.rs`, `compress.rs`, `text.rs`, `intelligence.rs`, `inode.rs`): conversions
  without a state of their own.
* A dimension longer than a page: its chain is written before anything names it.
  Dedup and snapshot tables of several pages, which go through the code of `Chains`.
* A crash while the first volume of a file is being made, beyond what `Volume` has.
* The model store, decay and the unwired structures: nothing in the program calls
  them and no operation of theirs relates two entries.  (Decay puts anything used
  more than 50 times in the temperature *Cold*, whatever its age.)
* The backend traits: `commit` is a sync, `begin` and `rollback` do nothing.
* Owners, permissions and times of files; `statfs`.
* Fsck's checks of each page by itself and of the snapshot table, its repair of the
  bitmap, its guess that a block whose bytes start like a page is in use, and its limit
  of 10000 blocks.
* The search by Euclidean distance, which runs the same code with another measure,
  and the serialised form of the index.
* Two processes on one volume.  Nothing in the code keeps a second one away (each
  request to the dashboard opens the file again, but the dashboard only reads).

## Plan

1. Proofs: the report of `Fsck`; the crash image with snapshots; `OthersUntouched` for one
   step of a call.
2. `FileIO` under `Vfs`: contents as bytes at each logged write, so that handles of
   removed and replaced files are covered together with names.
3. Singularities of the particle store, and the searches by dimension.
4. Two processes on one volume: what the second one sees and what it overwrites.
