------------------------------ MODULE Persist ------------------------------
(***************************************************************************)
(* The persistent store (persist.rs): particles in memory over a volume,   *)
(* with a deduplicated dimension store, a particle index and the           *)
(* write-ahead log.  sync is one step per file write, and the process can  *)
(* die between any two.  A particle's content is a set of dimensions, a    *)
(* dimension being a name with its data; the pages of a table or dimension *)
(* fit one block, see TablesFit: Chains has the tables that do not.        *)
(* An append to the log is one step here (Wal has the torn ones), and a    *)
(* volume's sync always writes: CleanMatchesFile of Volume says that the   *)
(* sync the code skips on a clean volume would change nothing.             *)
(***************************************************************************)
EXTENDS Naturals, FiniteSets, Sequences, SequencesExt, FiniteSetsExt

CONSTANTS
  Ids,
  DimCount,         \* dimensions 1 .. DimCount, in the order of their names
  Contents,         \* contents a write may give a particle
  Oversized,        \* those whose record is longer than a page
  None,             \* no particle, no operation, nothing under way
  BlockCount,       \* data blocks 1 .. BlockCount; 0 is the null pointer
  JournalCells,
  Checkpoint, Blank,
  CheckpointEvery,  \* entries after which a write syncs by itself (100)
  LoadAll,          \* whether an open is followed by load_all, as in the CLI
  MaxCalls,         \* bound: writes, deletes and syncs
  MaxOpens,         \* bound: sessions
  MaxCrashes        \* bound: sessions that do not end in a sync

Dims == 1 .. DimCount
Blocks == 1 .. BlockCount

WriteOp(id, c) == [op |-> "write", id |-> id, content |-> c]
DeleteOp(id) == [op |-> "delete", id |-> id]
Ops == {WriteOp(id, c) : id \in Ids, c \in Contents} \cup {DeleteOp(id) : id \in Ids}

ASSUME PersistAssumption ==
  /\ IsFiniteSet(Ids)
  /\ DimCount \in Nat /\ BlockCount \in Nat /\ JournalCells \in Nat
  /\ Contents \subseteq SUBSET Dims
  /\ Oversized \subseteq Contents
  /\ None \notin Ops /\ \A content \in SUBSET Dims : content # None
  /\ Checkpoint \notin Ops
  /\ Blank \notin [op : Ops \cup {Checkpoint}, seq : Nat]
  /\ CheckpointEvery \in Nat \ {0}
  /\ LoadAll \subseteq BOOLEAN
  /\ MaxCalls \in Nat /\ MaxOpens \in Nat /\ MaxCrashes \in Nat

\* Each table fits one block of 4096 bytes, 24 of which are taken by the header
\* of the page and the number of entries: an entry of the index has 40 bytes,
\* one of the dedup table 48.
ASSUME TablesFit ==
  /\ Cardinality(Ids) <= (4096 - 24) \div 40
  /\ DimCount <= (4096 - 24) \div 48

Wal == INSTANCE WalCodec
         WITH DataCells <- [o \in Ops |-> IF o.op = "delete" THEN 1 ELSE 2]

VARIABLES
  mem,       \* store, modified, index, dedup, used blocks, superblock pointers
  disk,      \* the file: pages, used blocks, superblock pointers
  journal,   \* the file's journal region
  log,       \* write_offset, next_sequence, entries_since_checkpoint
  pc,        \* "closed", "ready", or the next file write of a running sync
  todo,      \* particles sync has still to write
  work,      \* the particle being written: id, content, blocks of its dimensions
  pending,   \* what waits for the sync: a write that found the journal full,
             \* or the rest of a compaction or snapshot (Snapshots)
  expected,  \* history: what the acknowledged operations left of each particle
  calls, opens, crashes,
  failures   \* history: some operation returned an error half-way, a checkpoint
             \* ran past the journal, a spoiled snapshot was restored, all leaf
             \* pages were loaded after a crash

vars == <<mem, disk, journal, log, pc, todo, work, pending, expected,
          calls, opens, crashes, failures>>
unsynced == <<log, journal, pending, expected, calls, opens, crashes, failures>>

-----------------------------------------------------------------------------
(* Pages.  The checksum of a page is always that of its last write.  Not   *)
(* every reader looks at the kind of a page, but the bytes of another kind *)
(* parse as nothing that names a particle, a block or a dimension in use:  *)
(* a page that is not what its reader wants holds nothing for it.          *)

NoPage == [kind |-> "none"]
Garbage == [kind |-> "garbage"]
DimPage(d) == [kind |-> "dim", dim |-> d]
LeafPage(id, at) == [kind |-> "leaf", id |-> id, at |-> at]
IndexPage(i) == [kind |-> "index", index |-> i]
DedupPage(t) == [kind |-> "dedup", dedup |-> t]

Nowhere == [d \in Dims |-> 0]
NoIndex == [id \in Ids |-> 0]
NoDedup == [d \in Dims |-> [block |-> 0, count |-> 0]]
NoStore == [id \in Ids |-> None]
NullPointers == [index |-> 0, dedup |-> 0, snapshot |-> 0]

Page(b) == IF b = 0 THEN NoPage ELSE disk.pages[b]
IsLeaf(b) == Page(b).kind = "leaf"
ReadIndex(b) == IF Page(b).kind = "index" THEN Page(b).index ELSE NoIndex
ReadDedup(b) == IF Page(b).kind = "dedup" THEN Page(b).dedup ELSE NoDedup

\* The content of the leaf in block b: dimensions that cannot be read are
\* left out without an error (load_particle_at, load_particle).
ContentAt(b) == {d \in Dims : Page(Page(b).at[d]) = DimPage(d)}

Indexed(m) == {id \in Ids : m.index[id] # 0}
LeavesOf(m) == {m.index[id] : id \in Indexed(m)}

\* alloc_block takes the lowest free block (BlockBitmap).
Free(m) == Blocks \ m.used
Allocated(m) == Min(Free(m))

-----------------------------------------------------------------------------
(* Operations on memory alone.                                             *)

\* Mutant: a shared page is freed with the first particle that goes.
DimensionFreedAtOnce(m, b) ==
  [m EXCEPT !.used = @ \ {b},
            !.dedup = [d \in Dims |-> IF @[d].block = b THEN NoDedup[d] ELSE @[d]]]

\* Mutant: the freed page stays in the table.
DimensionStaysListed(m, b) ==
  LET holders == {d \in Dims : m.dedup[d].block = b /\ m.dedup[d].count > 1}
  IN  IF holders = {} THEN [m EXCEPT !.used = @ \ {b}]
      ELSE [m EXCEPT !.dedup[CHOOSE d \in holders : TRUE].count = @ - 1]

\* free_dimension_block for each dimension page the leaf names.
DimensionFreed(m, b) ==
  LET holders == {d \in Dims : m.dedup[d].block = b}
  IN  IF holders = {} THEN [m EXCEPT !.used = @ \ {b}]
      ELSE LET d == CHOOSE d \in holders : TRUE
           IN  IF m.dedup[d].count <= 1
               THEN [m EXCEPT !.used = @ \ {b}, !.dedup[d] = NoDedup[d]]
               ELSE [m EXCEPT !.dedup[d].count = @ - 1]

\* delete before it logs: it reads whatever leaf the index names.
Deleted(m, id) ==
  LET leaf == m.index[id]
      dims == IF IsLeaf(leaf) THEN {Page(leaf).at[d] : d \in Dims} \ {0} ELSE {}
      freed == FoldSet(LAMBDA b, acc : DimensionFreed(acc, b), m, dims)
  IN  [freed EXCEPT !.used = @ \ {leaf}, !.index[id] = 0,
                    !.store[id] = None, !.modified = @ \ {id}]

\* Mutant: only writes are replayed.
WritesReplayed(m, op) ==
  IF op.op = "delete" THEN m ELSE [m EXCEPT !.store[op.id] = op.content]

\* The replay of a logged operation by open.  A recovered particle is put in
\* the store but not among the modified ones.
Replayed(m, op) ==
  IF op.op = "delete" THEN Deleted(m, op.id)
  ELSE [m EXCEPT !.store[op.id] = op.content]

\* PersistentStore::open: pointers, index and dedup table from the file,
\* then the log.
Opened ==
  FoldLeft(Replayed,
           [store |-> NoStore, modified |-> {},
            index |-> ReadIndex(disk.sb.index), dedup |-> ReadDedup(disk.sb.dedup),
            used |-> disk.used, sb |-> disk.sb],
           Wal!Recovered(journal))

\* The store with the particles of the leaves among the blocks put in; the
\* last leaf of an id wins.
LoadedFrom(blocks, store) ==
  LET leaves(id) == {b \in blocks : IsLeaf(b) /\ Page(b).id = id}
  IN  [id \in Ids |-> IF leaves(id) = {} THEN store[id] ELSE ContentAt(Max(leaves(id)))]

\* Mutant: every leaf page of the volume is loaded, as in earlier releases.
EverythingLoaded(m) == [m EXCEPT !.store = LoadedFrom(Blocks, @)]

\* load_all: the indexed particles, or, when the index is empty, every leaf
\* page found on the volume.
LoadedAll(m) ==
  [m EXCEPT !.store = LoadedFrom(IF Indexed(m) # {} THEN LeavesOf(m) ELSE Blocks, @)]

\* What read or, failing that, load_particle returns.
Visible(m, id) ==
  IF m.store[id] # None THEN m.store[id]
  ELSE IF IsLeaf(m.index[id]) THEN ContentAt(m.index[id]) ELSE None

-----------------------------------------------------------------------------
(* Operations of the store.                                                *)

Init ==
  /\ mem = [store |-> NoStore, modified |-> {}, index |-> NoIndex,
            dedup |-> NoDedup, used |-> {}, sb |-> NullPointers]
  /\ disk = [pages |-> [b \in Blocks |-> NoPage], used |-> {}, sb |-> NullPointers]
  /\ journal = [i \in 0 .. JournalCells - 1 |-> Blank]
  /\ log = [offset |-> 0, sequence |-> 1, entries |-> 0]
  /\ pc = "ready"
  /\ todo = {} /\ work = None /\ pending = None
  /\ expected = NoStore
  /\ calls = 0 /\ opens = 1 /\ crashes = 0
  /\ failures = {}

Fits(op) == log.offset + Wal!EntryCells(op) <= JournalCells

Logged(op) ==
  /\ journal' = [i \in DOMAIN journal |->
                   IF i = log.offset THEN Wal!Header(op, log.sequence)
                   ELSE IF i - log.offset \in 1 .. Wal!Data(op)
                   THEN Wal!Piece(op, i - log.offset) ELSE journal[i]]
  /\ log' = [offset |-> log.offset + Wal!EntryCells(op),
             sequence |-> log.sequence + 1,
             entries |-> log.entries + 1]

\* The part of write after the log: memory, then the automatic sync.
LoggedWrite(op) ==
  /\ Fits(op)
  /\ Logged(op)
  /\ mem' = [mem EXCEPT !.store[op.id] = op.content, !.modified = @ \cup {op.id}]
  /\ expected' = [expected EXCEPT ![op.id] = op.content]
  /\ IF log.entries + 1 >= CheckpointEvery
     THEN pc' = "particles" /\ todo' = mem'.modified
     ELSE pc' = "ready" /\ todo' = {}

\* The store runs one call at a time.
Called ==
  /\ pc = "ready"
  /\ calls < MaxCalls
  /\ calls' = calls + 1

Write(id, c) ==
  /\ Called
  /\ LoggedWrite(WriteOp(id, c))
  /\ UNCHANGED <<disk, work, pending, opens, crashes, failures>>

\* The journal is full: sync, then try once more.
WriteFull(id, c) ==
  /\ Called
  /\ ~Fits(WriteOp(id, c))
  /\ pending' = WriteOp(id, c)
  /\ pc' = "particles" /\ todo' = mem.modified
  /\ UNCHANGED <<mem, disk, journal, log, work, expected, opens, crashes, failures>>

\* Mutant: the second failure to log is not reported.
RetryUnreported ==
  /\ pc = "retry" /\ pending \in Ops
  /\ pending' = None
  /\ IF Fits(pending)
     THEN LoggedWrite(pending)
     ELSE /\ pc' = "ready"
          /\ expected' = [expected EXCEPT ![pending.id] = pending.content]
          /\ UNCHANGED <<mem, journal, log, todo>>
  /\ UNCHANGED <<disk, work, calls, opens, crashes, failures>>

\* Mutant: the write waits for the journal to have room.
RetryForever ==
  /\ pc = "retry" /\ pending \in Ops
  /\ IF Fits(pending)
     THEN LoggedWrite(pending) /\ pending' = None
     ELSE UNCHANGED <<mem, journal, log, todo, expected, pc, pending>>
  /\ UNCHANGED <<disk, work, calls, opens, crashes, failures>>

Retry ==
  /\ pc = "retry" /\ pending \in Ops
  /\ pending' = None
  /\ IF Fits(pending)
     THEN LoggedWrite(pending)
     ELSE pc' = "ready" /\ UNCHANGED <<mem, journal, log, todo, expected>>
  /\ UNCHANGED <<disk, work, calls, opens, crashes, failures>>

\* delete changes memory before it logs; with a full journal it then fails.
Delete(id) ==
  /\ Called
  /\ mem.store[id] # None \/ mem.index[id] # 0
  /\ mem' = Deleted(mem, id)
  /\ expected' = [expected EXCEPT ![id] = None]
  /\ IF Fits(DeleteOp(id))
     THEN Logged(DeleteOp(id)) /\ UNCHANGED failures
     ELSE failures' = failures \cup {"error"} /\ UNCHANGED <<journal, log>>
  /\ UNCHANGED <<disk, pc, todo, work, pending, opens, crashes>>

\* load_particle of a particle that is not in memory.
LoadParticle(id) ==
  /\ pc = "ready"
  /\ mem.store[id] = None
  /\ IsLeaf(mem.index[id])
  /\ mem' = [mem EXCEPT !.store[Page(mem.index[id]).id] = ContentAt(mem.index[id])]
  /\ UNCHANGED <<disk, pc, todo, work, unsynced>>

-----------------------------------------------------------------------------
(* sync                                                                    *)

SyncBegin ==
  /\ Called
  /\ pc' = "particles"
  /\ todo' = mem.modified
  /\ UNCHANGED <<mem, disk, journal, log, work, pending, expected, opens, crashes, failures>>

\* write_particle_to_disk, which sync calls for the modified particles in any
\* order and compaction for every particle that was indexed.
BeginParticle(id) ==
  /\ pc = "particles" /\ work = None
  /\ id \in todo
  /\ work' = [id |-> id, content |-> mem.store[id], at |-> Nowhere]
  /\ UNCHANGED <<mem, disk, pc, todo, unsynced>>

Unwritten == {d \in work.content : work.at[d] = 0}

\* Mutant: a shared dimension is not counted.
ShareUncounted ==
  /\ work # None
  /\ Unwritten # {}
  /\ LET d == Min(Unwritten)
         shared == mem.dedup[d].block
         new == Allocated(mem)
     IN  \/ /\ shared # 0
            /\ work' = [work EXCEPT !.at[d] = shared]
            /\ UNCHANGED <<mem, disk>>
         \/ /\ shared = 0 /\ Free(mem) # {}
            /\ mem' = [mem EXCEPT !.used = @ \cup {new},
                                  !.dedup[d] = [block |-> new, count |-> 1]]
            /\ work' = [work EXCEPT !.at[d] = new]
            /\ disk' = [disk EXCEPT !.pages[new] = DimPage(d)]
  /\ UNCHANGED <<pc, todo, unsynced>>

\* write_dimension_data: a block of its own, or one more reference.
WriteDimension ==
  /\ work # None
  /\ Unwritten # {}
  /\ LET d == Min(Unwritten)
         shared == mem.dedup[d].block
         new == Allocated(mem)
     IN  \/ /\ shared # 0
            /\ mem' = [mem EXCEPT !.dedup[d].count = @ + 1]
            /\ work' = [work EXCEPT !.at[d] = shared]
            /\ UNCHANGED disk
         \/ /\ shared = 0 /\ Free(mem) # {}
            /\ mem' = [mem EXCEPT !.used = @ \cup {new},
                                  !.dedup[d] = [block |-> new, count |-> 1]]
            /\ work' = [work EXCEPT !.at[d] = new]
            /\ disk' = [disk EXCEPT !.pages[new] = DimPage(d)]
  /\ UNCHANGED <<pc, todo, unsynced>>

\* Mutant: a rewritten particle's old leaf is freed.
LeafReplacesOld ==
  /\ work # None
  /\ Unwritten = {} /\ Free(mem) # {}
  /\ LET new == Allocated(mem)
     IN  /\ mem' = [mem EXCEPT !.used = (@ \ {mem.index[work.id]}) \cup {new},
                               !.index[work.id] = new, !.store[work.id] = work.content]
         /\ disk' = [disk EXCEPT !.pages[new] = LeafPage(work.id, work.at)]
  /\ todo' = todo \ {work.id}
  /\ work' = None
  /\ UNCHANGED <<pc, unsynced>>

\* write_particle_data.  The leaf a rewritten particle had before is neither
\* freed nor are its references given back.
WriteLeaf ==
  /\ work # None
  /\ Unwritten = {} /\ Free(mem) # {}
  /\ work.content \notin Oversized
  /\ LET new == Allocated(mem)
     IN  /\ mem' = [mem EXCEPT !.used = @ \cup {new}, !.index[work.id] = new,
                               !.store[work.id] = work.content]
         /\ disk' = [disk EXCEPT !.pages[new] = LeafPage(work.id, work.at)]
  /\ todo' = todo \ {work.id}
  /\ work' = None
  /\ UNCHANGED <<pc, unsynced>>

\* The record is too long for a page, which shows after its block was allocated.
\* The block is not given back and sync returns an error.  (Compaction writes
\* only what it has read from a page.)
LeafTooLarge ==
  /\ pc = "particles" /\ work # None
  /\ Unwritten = {} /\ Free(mem) # {}
  /\ work.content \in Oversized
  /\ mem' = [mem EXCEPT !.used = @ \cup {Allocated(mem)}]
  /\ pc' = "ready"
  /\ todo' = {} /\ work' = None /\ pending' = None
  /\ failures' = failures \cup {"error"}
  /\ UNCHANGED <<disk, journal, log, expected, calls, opens, crashes>>

\* The volume's sync: superblock, then bitmap, after the particles and again
\* after the checkpoint.
FlushSuperblock(from, to) ==
  /\ pc = from
  /\ disk' = [disk EXCEPT !.sb = mem.sb]
  /\ pc' = to

FlushBitmap(from, to) ==
  /\ pc = from
  /\ disk' = [disk EXCEPT !.used = mem.used]
  /\ pc' = to

SyncVolume ==
  /\ work = None /\ todo = {}
  /\ FlushSuperblock("particles", "bitmap")
  /\ mem' = [mem EXCEPT !.modified = {}]
  /\ UNCHANGED <<todo, work, unsynced>>

\* Mutant: the checkpoint is written without the tables.
CheckpointTooEarly ==
  /\ FlushBitmap("bitmap", "checkpoint")
  /\ UNCHANGED <<mem, todo, work, unsynced>>

SyncVolumeBitmap ==
  /\ FlushBitmap("bitmap", "index")
  /\ UNCHANGED <<mem, todo, work, unsynced>>

\* A table is rewritten into a newly allocated block, after its old one was
\* freed in memory.
TableWritten(p, page) ==
  LET freed == [mem EXCEPT !.used = @ \ {mem.sb[p]}]
      new == Allocated(freed)
  IN  /\ Free(freed) # {}
      /\ mem' = [freed EXCEPT !.used = @ \cup {new}, !.sb[p] = new]
      /\ disk' = [disk EXCEPT !.pages[new] = page]

WriteIndex ==
  /\ pc = "index"
  /\ TableWritten("index", IndexPage(mem.index))
  /\ pc' = "index_sb"
  /\ UNCHANGED <<todo, work, unsynced>>

WriteIndexPointer ==
  /\ FlushSuperblock("index_sb", "dedup")
  /\ UNCHANGED <<mem, todo, work, unsynced>>

WriteDedup ==
  /\ pc = "dedup" /\ mem.dedup # NoDedup
  /\ TableWritten("dedup", DedupPage(mem.dedup))
  /\ pc' = "dedup_sb"
  /\ UNCHANGED <<todo, work, unsynced>>

\* An empty table only clears the pointer in memory.
DropDedup ==
  /\ pc = "dedup" /\ mem.dedup = NoDedup
  /\ mem' = [mem EXCEPT !.used = @ \ {mem.sb.dedup}, !.sb.dedup = 0]
  /\ pc' = "checkpoint"
  /\ UNCHANGED <<disk, todo, work, unsynced>>

WriteDedupPointer ==
  /\ FlushSuperblock("dedup_sb", "checkpoint")
  /\ UNCHANGED <<mem, todo, work, unsynced>>

\* A checkpoint on a full journal goes over the header of the first data block.
WriteCheckpoint ==
  /\ pc = "checkpoint"
  /\ IF log.offset < JournalCells
     THEN /\ journal' = [journal EXCEPT ![log.offset] = Wal!Header(Checkpoint, log.sequence)]
          /\ UNCHANGED <<disk, failures>>
     ELSE /\ disk' = [disk EXCEPT !.pages[1] = Garbage]
          /\ failures' = failures \cup {"overrun"}
          /\ UNCHANGED journal
  /\ log' = [offset |-> log.offset + 1, sequence |-> log.sequence + 1, entries |-> 0]
  /\ pc' = "last_sb"
  /\ UNCHANGED <<mem, todo, work, pending, expected, calls, opens, crashes>>

CheckpointSync ==
  /\ FlushSuperblock("last_sb", "last_bitmap")
  /\ UNCHANGED <<mem, todo, work, unsynced>>

CheckpointSyncBitmap ==
  /\ FlushBitmap("last_bitmap", IF pending = None THEN "ready" ELSE "retry")
  /\ UNCHANGED <<mem, todo, work, unsynced>>

\* No block is free: sync stops where it is and returns an error, and so does
\* the write that called it.
SyncFails ==
  /\ \/ /\ work # None /\ Free(mem) = {}
        /\ \A d \in Unwritten : d = Min(Unwritten) => mem.dedup[d].block = 0
     \/ pc = "index" /\ Free(mem) = {} /\ mem.sb.index = 0
     \/ pc = "dedup" /\ Free(mem) = {} /\ mem.sb.dedup = 0 /\ mem.dedup # NoDedup
  /\ pc' = "ready"
  /\ todo' = {} /\ work' = None /\ pending' = None
  /\ failures' = failures \cup {"error"}
  /\ UNCHANGED <<mem, disk, journal, log, expected, calls, opens, crashes>>

-----------------------------------------------------------------------------
(* Sessions                                                                *)

Gone ==
  /\ mem' = [store |-> NoStore, modified |-> {}, index |-> NoIndex,
             dedup |-> NoDedup, used |-> {}, sb |-> NullPointers]
  /\ log' = [offset |-> 0, sequence |-> 1, entries |-> 0]
  /\ pc' = "closed"
  /\ todo' = {} /\ work' = None /\ pending' = None
  /\ UNCHANGED <<disk, journal, expected, calls, opens, failures>>

\* The process ends with everything synced.
Close ==
  /\ pc = "ready" /\ log.entries = 0 /\ mem.modified = {}
  /\ opens < MaxOpens
  /\ Gone
  /\ UNCHANGED crashes

\* It dies anywhere, also between two file writes of a sync.
Crash ==
  /\ pc # "closed"
  /\ crashes < MaxCrashes
  /\ Gone
  /\ crashes' = crashes + 1

Open(all) ==
  /\ pc = "closed"
  /\ opens < MaxOpens
  /\ opens' = opens + 1
  /\ mem' = IF all THEN LoadedAll(Opened) ELSE Opened
  /\ LET tail == Wal!ScanTail(journal)
     IN  log' = [offset |-> tail.write_offset, sequence |-> tail.next_sequence,
                 entries |-> tail.entries]
  /\ pc' = "ready"
  /\ failures' = IF all /\ crashes > 0 /\ Indexed(Opened) = {}
                 THEN failures \cup {"scanned"} ELSE failures
  /\ UNCHANGED <<disk, journal, todo, work, pending, expected, calls, crashes>>

\* A file write of a running sync, or what ends it.
SyncStep ==
  \/ \E id \in Ids : BeginParticle(id)
  \/ WriteDimension \/ WriteLeaf \/ LeafTooLarge \/ SyncVolume \/ SyncVolumeBitmap
  \/ WriteIndex \/ WriteIndexPointer
  \/ WriteDedup \/ DropDedup \/ WriteDedupPointer
  \/ WriteCheckpoint \/ CheckpointSync \/ CheckpointSyncBitmap
  \/ SyncFails \/ Retry

\* The commands on particles open a store with load_all (defs-cli open_store),
\* the file system does not.
Opening == \E all \in LoadAll : Open(all)

\* Whatever does not give a leaf up.
Step ==
  \/ \E id \in Ids, c \in Contents : Write(id, c) \/ WriteFull(id, c)
  \/ \E id \in Ids : LoadParticle(id)
  \/ SyncBegin \/ SyncStep
  \/ Close \/ Crash
  \/ Opening

Next == Step \/ \E id \in Ids : Delete(id)

Spec == Init /\ [][Next]_vars

\* A call runs to its end unless the process dies: no step of it waits for
\* another thread.
FairSpec == Spec /\ WF_vars(SyncStep)

-----------------------------------------------------------------------------
Running == pc # "closed"

\* Operations may have failed half-way, but no page was overwritten and every
\* session ended in a sync.
Undamaged == failures \subseteq {"error"} /\ crashes = 0

DimensionsOf(id) == {Page(mem.index[id]).at[d] : d \in Dims} \ {0}

\* Every block in use by the store is allocated: table blocks, the leaves of
\* the index and the dimension pages these name.
LiveBlocksAllocated ==
  Running /\ Undamaged =>
    /\ {mem.sb.index, mem.sb.dedup} \ {0} \subseteq mem.used
    /\ \A id \in Indexed(mem) :
         IsLeaf(mem.index[id]) /\ mem.index[id] \in mem.used
                              /\ DimensionsOf(id) \subseteq mem.used

\* A dimension page shared by several particles carries at least one
\* reference for each, so deleting one particle cannot free the page under
\* another (persist.rs free_dimension_block).
RefcountCoversReferences ==
  Running /\ Undamaged =>
    \A b \in Blocks :
      LET holders == {id \in Indexed(mem) : b \in DimensionsOf(id)}
      IN  Cardinality(holders) > 1 =>
            \E d \in Dims : /\ mem.dedup[d].block = b
                           /\ mem.dedup[d].count >= Cardinality(holders)

\* A dedup hit hands out an allocated page that still has the data hashed.
DedupHitsAreGood ==
  Running /\ Undamaged => \A d \in Dims : mem.dedup[d].block # 0 =>
               /\ mem.dedup[d].block \in mem.used
               /\ Page(mem.dedup[d].block) = DimPage(d)

\* No acknowledged write is lost or replaced, over deletes, syncs and
\* reopenings: memory, or the disk through load_particle, has it.
NothingLost ==
  Running /\ failures = {} => \A id \in Ids : expected[id] # None => Visible(mem, id) = expected[id]

\* The same as long as every session ends in a sync: what a crash leaves to be
\* replayed is not written by the next sync.
SyncedSessionsLoseNothing == crashes = 0 => NothingLost

\* A deleted particle does not come back in the session that deleted it, nor in
\* the one after a crash between any two file writes, with load_all or without.
\* The exception is a load_all that finds the index empty: it takes every leaf
\* page of the volume for a particle, the deleted ones too ("scanned" after a
\* crash, and any session after one that ended in a sync).  A third session may
\* bring one back as well: the entry of the deletion is the one that the second
\* session writes over when it was the last, see ScanTail, and with it a second
\* crash forgets it.
DeletedStaysDeleted ==
  Running /\ failures = {} /\ (opens = 1 \/ (opens = 2 /\ crashes > 0)) =>
    \A id \in Ids : expected[id] = None => Visible(mem, id) = None

\* Every call returns, though a write may sync, retry and sync again on a
\* journal and a volume that are both full.
CallsEnd == (pc \notin {"ready", "closed"}) ~> (pc \in {"ready", "closed"})

\* What the file would give to a process opening it now is exactly what the
\* first session acknowledged, at every step of a sync: the crash image needs
\* both the log and the pages, in whatever order they were written.  The tables
\* fit one block each (TablesFit); SyncedAreFound of Chains is about the others.
CrashImageComplete ==
  opens = 1 /\ failures = {} => \A id \in Ids : Visible(Opened, id) = expected[id]
=============================================================================
