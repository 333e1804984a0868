------------------------------- MODULE Volume -------------------------------
(***************************************************************************)
(* The volume manager (volume.rs): superblock, bitmap and a write-through  *)
(* block cache over one file.  `file' is what any process reads back,      *)
(* `stable' what is certain to survive a power failure: the operating      *)
(* system may write anything back early, sync_all forces everything.       *)
(***************************************************************************)
EXTENDS BlockBitmap, Functions

CONSTANTS
  MetaBlocks,    \* superblock and bitmap blocks, written past the cache
  SystemBlocks,  \* first data block: superblock, bitmap and journal precede it
  CacheSize,     \* BLOCK_CACHE_SIZE
  Pointers,      \* superblock fields naming a block (index, snapshot, dedup)
  Contents,      \* contents of a block
  Zeroes,        \* the content of a block never written
  NoSuperblock   \* the superblock of a file that holds none

ASSUME VolumeAssumption ==
  /\ MetaBlocks \in 1 .. SystemBlocks
  /\ SystemBlocks \in 1 .. TotalBlocks - 1
  /\ CacheSize \in Nat \ {0}
  /\ Zeroes \in Contents
  /\ NoSuperblock \notin [Pointers -> Blocks]

VARIABLES
  sb,      \* superblock in memory
  dirty,
  cache,   \* block_cache: a partial function from blocks to contents
  mode,    \* "closed", "open", or the next step of a running sync
  file,
  stable,
  settled  \* history: all of the file was stable at the open, or is synced since

volumeVars == <<bits, free_count, sb, dirty, cache, mode, file, stable, settled>>
bitmapOf == <<bits, free_count>>
disks == <<file, stable, settled>>

IoBlocks == MetaBlocks .. TotalBlocks - 1
DataBlocks == SystemBlocks .. TotalBlocks - 1
FirstSb == [p \in Pointers |-> 0]
EmptyFile == [sb |-> NoSuperblock, bits |-> {}, data |-> [b \in IoBlocks |-> Zeroes]]

Disks == [sb : [Pointers -> Blocks] \cup {NoSuperblock},
          bits : SUBSET Positions,
          data : [IoBlocks -> Contents]]

\* An insertion evicts some cached block when the cache is at capacity and
\* does not hold b (any one: the code takes a HashMap's first key).
Cached(b, c) ==
  LET with(m) == [x \in DOMAIN m \cup {b} |-> IF x = b THEN c ELSE m[x]]
  IN  IF Cardinality(DOMAIN cache) >= CacheSize /\ b \notin DOMAIN cache
      THEN \E old \in DOMAIN cache :
             cache' = with(Restrict(cache, DOMAIN cache \ {old}))
      ELSE cache' = with(cache)

-----------------------------------------------------------------------------
Init ==
  /\ bits = {} /\ free_count = TotalBlocks
  /\ sb = FirstSb
  /\ dirty = FALSE
  /\ cache = << >>
  /\ mode = "closed"
  /\ file = EmptyFile
  /\ stable = file
  /\ settled = FALSE

\* Volume::create on a path where no volume can be opened, up to the write of
\* the superblock.  What a file there still held is cut off first.
CreateSuperblock ==
  /\ mode = "closed"
  /\ file.sb = NoSuperblock
  /\ bits' = 0 .. SystemBlocks - 1
  /\ free_count' = TotalBlocks - SystemBlocks
  /\ sb' = FirstSb
  /\ file' = [EmptyFile EXCEPT !.sb = FirstSb]
  /\ stable' = EmptyFile
  /\ dirty' = FALSE
  /\ cache' = << >>
  /\ mode' = "create_bitmap"
  /\ settled' = FALSE

\* The bitmap follows.  Create ends in sync(), but `dirty' is still false there,
\* so nothing is forced to disk.  PersistentStore::create then sets a feature
\* bit, which leaves the volume dirty.
CreateBitmap ==
  /\ mode = "create_bitmap"
  /\ file' = [file EXCEPT !.bits = bits]
  /\ dirty' = TRUE
  /\ mode' = "open"
  /\ UNCHANGED <<bitmapOf, sb, cache, stable, settled>>

\* Mutant: the magic number is not looked at.
OpenAnything ==
  /\ mode = "closed"
  /\ sb' = file.sb
  /\ bits' = file.bits
  /\ free_count' = Cardinality(FreeBlocks(bits'))
  /\ dirty' = FALSE
  /\ cache' = << >>
  /\ mode' = "open"
  /\ settled' = (stable = file)
  /\ UNCHANGED <<file, stable>>

\* Mutant: the bitmap on disk is not read.
OpenWithoutBitmap ==
  /\ mode = "closed"
  /\ file.sb # NoSuperblock
  /\ sb' = file.sb
  /\ bits' = {}
  /\ free_count' = TotalBlocks
  /\ dirty' = FALSE
  /\ cache' = << >>
  /\ mode' = "open"
  /\ settled' = (stable = file)
  /\ UNCHANGED <<file, stable>>

Open ==
  /\ mode = "closed"
  /\ file.sb # NoSuperblock
  /\ sb' = file.sb
  /\ bits' = file.bits
  /\ free_count' = Cardinality(FreeBlocks(bits'))
  /\ dirty' = FALSE
  /\ cache' = << >>
  /\ mode' = "open"
  /\ settled' = (stable = file)
  /\ UNCHANGED <<file, stable>>

ReadBlock(b) ==
  /\ mode = "open"
  /\ b \notin DOMAIN cache
  /\ Cached(b, file.data[b])
  /\ UNCHANGED <<bitmapOf, sb, dirty, mode, disks>>

\* Mutant: a write goes around the cache.
WriteAround(b, c) ==
  /\ mode = "open"
  /\ file' = [file EXCEPT !.data[b] = c]
  /\ dirty' = TRUE
  /\ UNCHANGED <<bitmapOf, sb, cache, mode, stable, settled>>

WriteBlock(b, c) ==
  /\ mode = "open"
  /\ file' = [file EXCEPT !.data[b] = c]
  /\ Cached(b, c)
  /\ dirty' = TRUE
  /\ UNCHANGED <<bitmapOf, sb, mode, stable, settled>>

\* Mutant: an allocation does not make the volume dirty.
AllocQuietly(b) ==
  /\ mode = "open"
  /\ AllocOne(b)
  /\ UNCHANGED <<sb, dirty, cache, mode, disks>>

AllocBlock(b) ==
  /\ mode = "open"
  /\ AllocOne(b)
  /\ dirty' = TRUE
  /\ UNCHANGED <<sb, cache, mode, disks>>

FreeBlock(b) ==
  /\ mode = "open"
  /\ MarkFree(b)
  /\ dirty' = TRUE
  /\ UNCHANGED <<sb, cache, mode, disks>>

\* set_particle_index_block, set_snapshot_table_block, set_dedup_table_block
SetPointer(p, b) ==
  /\ mode = "open"
  /\ sb' = [sb EXCEPT ![p] = b]
  /\ dirty' = TRUE
  /\ UNCHANGED <<bitmapOf, cache, mode, disks>>

\* write_superblock neither sets nor clears `dirty'.
WriteSuperblock ==
  /\ mode = "open"
  /\ file' = [file EXCEPT !.sb = sb]
  /\ UNCHANGED <<bitmapOf, sb, dirty, cache, mode, stable, settled>>

\* sync on a dirty volume: superblock, bitmap, fsync, in this order.
SyncSuperblock ==
  /\ mode = "open" /\ dirty
  /\ file' = [file EXCEPT !.sb = sb]
  /\ mode' = "sync_bitmap"
  /\ UNCHANGED <<bitmapOf, sb, dirty, cache, stable, settled>>

SyncBitmap ==
  /\ mode = "sync_bitmap"
  /\ file' = [file EXCEPT !.bits = bits]
  /\ mode' = "sync_all"
  /\ UNCHANGED <<bitmapOf, sb, dirty, cache, stable, settled>>

\* Mutant: sync without sync_all.
SyncWithoutFsync ==
  /\ mode = "sync_all"
  /\ dirty' = FALSE
  /\ mode' = "open"
  /\ settled' = TRUE
  /\ UNCHANGED <<bitmapOf, sb, cache, file, stable>>

SyncAll ==
  /\ mode = "sync_all"
  /\ stable' = file
  /\ dirty' = FALSE
  /\ mode' = "open"
  /\ settled' = TRUE
  /\ UNCHANGED <<bitmapOf, sb, cache, file>>

MemoryGone ==
  /\ bits' = {} /\ free_count' = TotalBlocks
  /\ sb' = FirstSb
  /\ dirty' = FALSE
  /\ cache' = << >>
  /\ mode' = "closed"

\* The process ends, orderly or not: what it wrote stays in the file.
ProcessExit ==
  /\ mode # "closed"
  /\ MemoryGone
  /\ UNCHANGED disks

\* The machine fails: only what reached the disk is left.
PowerLoss ==
  /\ MemoryGone
  /\ file' = stable
  /\ UNCHANGED <<stable, settled>>

\* The operating system writes one piece of the file back on its own.
WriteBack ==
  /\ \/ stable' = [stable EXCEPT !.sb = file.sb]
     \/ stable' = [stable EXCEPT !.bits = file.bits]
     \/ \E b \in IoBlocks : stable' = [stable EXCEPT !.data[b] = file.data[b]]
  /\ UNCHANGED <<bitmapOf, sb, dirty, cache, mode, file, settled>>

Next ==
  \/ CreateSuperblock \/ CreateBitmap \/ Open
  \/ \E b \in IoBlocks : ReadBlock(b)
  \/ \E b \in IoBlocks, c \in Contents : WriteBlock(b, c)
  \/ \E b \in Blocks : AllocBlock(b)
  \/ \E b \in DataBlocks : FreeBlock(b)
  \/ \E p \in Pointers, b \in DataBlocks \cup {0} : SetPointer(p, b)
  \/ WriteSuperblock
  \/ SyncSuperblock \/ SyncBitmap \/ SyncAll
  \/ ProcessExit

Spec == Init /\ [][Next]_volumeVars

\* The same volume on a machine that may lose power.
PowerNext == Next \/ WriteBack \/ PowerLoss

PowerSpec == Init /\ [][PowerNext]_volumeVars

-----------------------------------------------------------------------------
TypeOK ==
  /\ bits \subseteq Positions
  /\ free_count \in Nat
  /\ sb \in [Pointers -> Blocks]
  /\ dirty \in BOOLEAN
  /\ DOMAIN cache \subseteq IoBlocks
  /\ mode \in {"closed", "create_bitmap", "open", "sync_bitmap", "sync_all"}
  /\ file \in Disks
  /\ stable \in Disks
  /\ settled \in BOOLEAN

\* A volume that is not dirty has nothing in memory that the file lacks, so
\* a process that dies without a sync loses neither an allocation nor a
\* superblock pointer (volume.rs sync does nothing when `dirty' is false).
CleanMatchesFile ==
  mode = "open" /\ ~dirty => file.sb = sb /\ file.bits = bits

\* After a sync, and until the next change, a power failure undoes nothing:
\* not a block written earlier, not the superblock rewritten since, whatever
\* the operating system has or has not written back by itself.
SyncedIsDurable ==
  mode = "open" /\ ~dirty /\ settled => stable = file

\* A read served from the block cache returns what the file holds, across
\* evictions, overwrites and blocks read before they were written.
CacheCoherent ==
  mode # "closed" =>
    /\ \A b \in DOMAIN cache : cache[b] = file.data[b]
    /\ Cardinality(DOMAIN cache) <= CacheSize

\* The free count of an open volume is that of its bitmap, in particular
\* right after the bitmap was loaded from an interrupted sync.
CountMatchesBitmap == mode # "closed" => FreeCountExact

Reserved(used) == 0 .. SystemBlocks - 1 \subseteq used

\* Once the disk has the blocks of the superblock, the bitmap and the journal
\* as used, they are reserved in every session, whatever bitmap a crash in or
\* before a later sync left behind: no particle is placed over the volume's
\* own metadata.  (Until then they may be free: create writes the superblock
\* first and forces nothing, so a process that dies before the bitmap, or a
\* power failure that loses it, leaves a volume that opens with no block used.)
ReservedOnceStored == mode # "closed" /\ Reserved(stable.bits) => Reserved(bits)
=============================================================================
