-------------------------------- MODULE Fsck --------------------------------
(***************************************************************************)
(* The checker (fsck.rs) over the pages of a volume.  It opens the file by *)
(* itself and, without repair, only reads: each part of its report is an   *)
(* operator on the file.  What it finds among particles and their bonds is *)
(* in Vfs.                                                                 *)
(* Left out: the checks of each page by itself; the scan stops after 10000 *)
(* blocks; check_snapshot_integrity, which reports what RawSnapshots says  *)
(* of the second snapshot as out of range; all other block numbers are     *)
(* within the volume.                                                      *)
(***************************************************************************)
EXTENDS Snapshots

\* The tables as fsck reads them, without a look at the kind of a page.
FileIndex == ReadIndex(disk.sb.index)
FileLeaves == {FileIndex[id] : id \in Ids} \ {0}
FileDedup == ReadDedup(disk.sb.dedup)
PagesNamed(b) == IF IsLeaf(b) THEN {Page(b).at[d] : d \in Dims} \ {0} ELSE {}

\* read_snapshot_table_raw does not step over the dedup table's block behind a
\* label, so the second entry and all later ones are read at the wrong place.
\* What it takes for their indexes is part of a time or of a label, which names
\* no block of the volume.
RawSnapshots ==
  LET table == ReadTable(disk.sb.snapshot)
  IN  IF table = << >> THEN {} ELSE {table[1].index}

\* Mutant: the blocks of the dedup table are not collected.
ReferencedByIndex ==
  {disk.sb.index, disk.sb.snapshot, disk.sb.dedup}
    \cup FileLeaves \cup UNION {PagesNamed(b) : b \in FileLeaves}
    \cup RawSnapshots

\* What check_orphaned_blocks takes to be in use: the leaves and pages behind a
\* snapshot's index are not.
Referenced ==
  {disk.sb.index, disk.sb.snapshot, disk.sb.dedup}
    \cup FileLeaves \cup UNION {PagesNamed(b) : b \in FileLeaves}
    \cup RawSnapshots
    \cup {FileDedup[d].block : d \in Dims}

OrphanedBlocks == disk.used \ Referenced

\* Mutant: only counts that are too low are reported.
CountsTooLow ==
  IF disk.sb.index = 0 THEN {}
  ELSE {d \in Dims : /\ FileDedup[d].block # 0
                     /\ FileDedup[d].count
                          < Cardinality({b \in FileLeaves : FileDedup[d].block \in PagesNamed(b)})}

\* check_dedup_consistency: dimensions whose count is not that of the leaves in
\* the index.
DedupErrors ==
  IF disk.sb.index = 0 THEN {}
  ELSE {d \in Dims : /\ FileDedup[d].block # 0
                     /\ FileDedup[d].count
                          # Cardinality({b \in FileLeaves : FileDedup[d].block \in PagesNamed(b)})}

\* check_particle_index: the snapshot table has the page type of an index.
IndexErrors == {b \in {disk.sb.index} \ {0} : Page(b).kind \notin {"index", "table"}}

-----------------------------------------------------------------------------
\* A volume whose file is what the store has in memory, after calls that all
\* succeeded.
Settled ==
  /\ pc = "ready" /\ mem.modified = {}
  /\ disk.sb = mem.sb /\ disk.used = mem.used
  /\ failures = {} /\ CountsKnown

\* Leaves that are allocated and not indexed: those of rewritten particles, which
\* only a snapshot may still name.
OldLeaves == {b \in disk.used : IsLeaf(b) /\ b \notin LeavesOf(mem)}

\* The copies of dedup tables and the indexes of later snapshots.
SnapshotCopies ==
  LET table == ReadTable(disk.sb.snapshot)
  IN  {table[k].dedup : k \in DOMAIN table} \cup {table[k].index : k \in DOMAIN table \ {1}}

\* The blocks fsck calls orphaned are the leaves rewritten particles left behind
\* and, once there are snapshots, the copies these need: never a block of the
\* current state, and no leaked leaf is missed.
OrphansAreOldLeaves ==
  Settled /\ restored = "never" /\ compactions = 0 =>
    OrphanedBlocks = (OldLeaves \cup SnapshotCopies) \ {0}

\* A wrong reference count is reported exactly for the pages that a leaf left
\* behind still counts for, through deletes and shares of the others.
CountErrorsAreLeaks ==
  Settled /\ restored = "never" =>
    DedupErrors = {d \in Dims : \E b \in OldLeaves : FileDedup[d].block \in PagesNamed(b) \ {0}}

\* At any file write but those of a compaction the superblock of the file names
\* a page that check_particle_index accepts, unless the store was damaged before
\* or a session follows the one that compacted: without its counts a delete can
\* free the block of the index.
IndexStaysReadable ==
  IndexErrors # {} => ~Undamaged \/ ~CountsKnown \/ pc \in {"compact", "compact_sb"}
=============================================================================
