----------------------------- MODULE Snapshots -----------------------------
(***************************************************************************)
(* Compaction and snapshots of the persistent store (persist.rs).  Both    *)
(* begin with a whole sync; `pending' holds what is to follow it.  A       *)
(* snapshot is a copy of the two tables: leaves and dimension pages are    *)
(* not copied, and no block knows that a snapshot names it.                *)
(* Left out: the feature bit, written with the superblock that is written  *)
(* once more after the snapshot table.                                     *)
(***************************************************************************)
EXTENDS Persist

CONSTANTS
  MaxCompactions,  \* bound
  MaxSnapshots     \* bound: snapshots ever taken

\* Nothing waiting for a sync is neither a compaction nor a snapshot.
ASSUME SnapshotsAssumption == None \notin {[op |-> "compact"], [op |-> "snapshot"]}

\* The snapshot table fits one block too, as do the copies of the other tables
\* (TablesFit): an entry has 34 bytes and those of its label.
ASSUME SnapshotTableFits == MaxSnapshots <= (4096 - 16) \div 34

VARIABLES
  compactions,     \* how often compact was called
  taken,           \* history: what each snapshot was taken of, and whether it
                   \* is intact: no block of it was given up since, nor the
                   \* counts that cover it
  restored         \* history: "never", "log" while the log has operations from
                   \* before a restore, else "once"

snapVars == <<compactions, taken, restored>>
allVars == <<vars, snapVars>>

-----------------------------------------------------------------------------
(* The snapshot table: the id of a snapshot is its position.  Bytes of     *)
(* another page parse as no snapshot that is asked for.                    *)

TablePage(s) == [kind |-> "table", snapshots |-> s]
ReadTable(b) == IF Page(b).kind = "table" THEN Page(b).snapshots ELSE << >>

\* The history when these snapshots are intact no more.
Spoiled(which) == [k \in DOMAIN taken |-> [taken[k] EXCEPT !.intact = @ /\ k \notin which]]

SnapInit == Init /\ compactions = 0 /\ taken = << >> /\ restored = "never"

\* What compact and snapshot do before anything else.
SyncFirst(op) ==
  /\ Called
  /\ pending' = op
  /\ pc' = "particles" /\ todo' = mem.modified
  /\ UNCHANGED <<mem, disk, journal, log, work, expected, opens, crashes, failures, taken,
                 restored>>

-----------------------------------------------------------------------------
(* compact                                                                 *)

Compact ==
  /\ compactions < MaxCompactions
  /\ SyncFirst([op |-> "compact"])
  /\ compactions' = compactions + 1

Loaded == LoadedFrom(LeavesOf(mem), NoStore)

\* Mutant: the superblock keeps its pointers to the freed tables.
CompactKeepsPointers ==
  /\ pc = "retry" /\ pending = [op |-> "compact"]
  /\ mem' = [mem EXCEPT !.store = NoStore, !.modified = {}, !.index = NoIndex,
                        !.dedup = NoDedup, !.used = {}]
  /\ pending' = [op |-> "compact", particles |-> Loaded]
  /\ todo' = {id \in Ids : Loaded[id] # None}
  /\ pc' = "compact"
  /\ taken' = Spoiled(DOMAIN taken)
  /\ UNCHANGED <<disk, journal, log, work, expected, calls, opens, crashes, failures,
                 compactions, restored>>

\* Mutant: the dedup table is not cleared.
CompactKeepsDedup ==
  /\ pc = "retry" /\ pending = [op |-> "compact"]
  /\ mem' = [mem EXCEPT !.store = NoStore, !.modified = {}, !.index = NoIndex,
                        !.used = {}, !.sb.index = 0, !.sb.dedup = 0]
  /\ pending' = [op |-> "compact", particles |-> Loaded]
  /\ todo' = {id \in Ids : Loaded[id] # None}
  /\ pc' = "compact"
  /\ taken' = Spoiled(DOMAIN taken)
  /\ UNCHANGED <<disk, journal, log, work, expected, calls, opens, crashes, failures,
                 compactions, restored>>

\* Every particle is read, then every data block is free, whatever the file
\* or a snapshot still names; the snapshot pointer stays.
CompactClear ==
  /\ pc = "retry" /\ pending = [op |-> "compact"]
  /\ mem' = [mem EXCEPT !.store = NoStore, !.modified = {}, !.index = NoIndex,
                        !.dedup = NoDedup, !.used = {},
                        !.sb.index = 0, !.sb.dedup = 0]
  /\ pending' = [op |-> "compact", particles |-> Loaded]
  /\ todo' = {id \in Ids : Loaded[id] # None}
  /\ pc' = "compact"
  /\ taken' = Spoiled(DOMAIN taken)
  /\ UNCHANGED <<disk, journal, log, work, expected, calls, opens, crashes, failures,
                 compactions, restored>>

CompactParticle(id) ==
  /\ pc = "compact" /\ work = None
  /\ id \in todo
  /\ work' = [id |-> id, content |-> pending.particles[id], at |-> Nowhere]
  /\ UNCHANGED <<mem, disk, pc, todo, unsynced, snapVars>>

\* The index is the only table compaction writes.  There is always room: the sync
\* before had more pages to hold.
CompactIndex ==
  /\ pc = "compact" /\ work = None /\ todo = {}
  /\ TableWritten("index", IndexPage(mem.index))
  /\ pc' = "compact_sb"
  /\ UNCHANGED <<todo, work, unsynced, snapVars>>

\* write_index's superblock; the volume's sync follows (CheckpointSync).
CompactPointer ==
  /\ FlushSuperblock("compact_sb", "last_sb")
  /\ pending' = None
  /\ UNCHANGED <<mem, todo, work, log, journal, expected, calls, opens, crashes, failures,
                 snapVars>>

-----------------------------------------------------------------------------
(* snapshot                                                                *)

Snapshot ==
  /\ Len(taken) < MaxSnapshots
  /\ SyncFirst([op |-> "snapshot"])
  /\ UNCHANGED compactions

\* clone_index_chain: the contents of a table in a block of their own.
Cloned(b) ==
  LET new == Allocated(mem)
  IN  /\ Free(mem) # {}
      /\ mem' = [mem EXCEPT !.used = @ \cup {new}]
      /\ disk' = [disk EXCEPT !.pages[new] = Page(b)]

SnapshotIndex ==
  /\ pc = "retry" /\ pending = [op |-> "snapshot"]
  /\ Cloned(mem.sb.index)
  /\ pending' = [op |-> "snapshot", index |-> Allocated(mem), dedup |-> 0]
  /\ pc' = IF mem.sb.dedup # 0 THEN "snap_dedup" ELSE "snap_table"
  /\ UNCHANGED <<todo, work, log, journal, expected, calls, opens, crashes, failures,
                 snapVars>>

SnapshotDedup ==
  /\ pc = "snap_dedup"
  /\ Cloned(mem.sb.dedup)
  /\ pending' = [pending EXCEPT !.dedup = Allocated(mem)]
  /\ pc' = "snap_table"
  /\ UNCHANGED <<todo, work, log, journal, expected, calls, opens, crashes, failures,
                 snapVars>>

\* Compaction leaves the pointer on a block that may by now be anything.
ReplacesTable == mem.sb.snapshot = 0 \/ Page(mem.sb.snapshot).kind = "table"

\* write_snapshot_table: the old one is freed first.
SnapshotTable ==
  /\ pc = "snap_table"
  /\ LET table == ReadTable(mem.sb.snapshot)
         entry == [index |-> pending.index, dedup |-> pending.dedup]
     IN  /\ TableWritten("snapshot", TablePage(Append(table, entry)))
         /\ taken' = Append(SubSeq(taken, 1, Len(table)),
                            [of |-> expected, intact |-> failures = {}])
  /\ pc' = "snap_sb"
  /\ pending' = None
  /\ failures' = IF ReplacesTable THEN failures ELSE failures \cup {"freed"}
  /\ UNCHANGED <<todo, work, log, journal, expected, calls, opens, crashes,
                 compactions, restored>>

SnapshotPointer ==
  /\ FlushSuperblock("snap_sb", "last_sb")
  /\ UNCHANGED <<mem, todo, work, unsynced, snapVars>>

SnapshotFails ==
  /\ \/ pc = "retry" /\ pending = [op |-> "snapshot"]
     \/ pc = "snap_dedup"
     \/ pc = "snap_table" /\ mem.sb.snapshot = 0
  /\ Free(mem) = {}
  /\ pc' = "ready" /\ pending' = None
  /\ failures' = failures \cup {"error"}
  /\ UNCHANGED <<mem, disk, todo, work, journal, log, expected, calls, opens, crashes,
                 snapVars>>

-----------------------------------------------------------------------------
(* restore_snapshot                                                        *)

\* Memory as the snapshot has it.  The table of shared dimensions is from now
\* on the snapshot's own copy; the one it replaces stays allocated.
Restored(s) ==
  LET index == ReadIndex(s.index)
      leaves == {index[id] : id \in Ids} \ {0}
  IN  [mem EXCEPT !.index = index,
                  !.dedup = ReadDedup(s.dedup), !.sb.dedup = s.dedup,
                  !.store = LoadedFrom(leaves, NoStore), !.modified = {}]

\* Mutant: the log is started over in memory, not in the file.
RestoreForgetsLog(k) ==
  /\ Called
  /\ k \in DOMAIN ReadTable(mem.sb.snapshot)
  /\ LET m == Restored(ReadTable(mem.sb.snapshot)[k])
         freed == [m EXCEPT !.used = @ \ {m.sb.index}]
         new == Allocated(freed)
     IN  /\ mem' = [freed EXCEPT !.used = @ \cup {new}, !.sb.index = new]
         /\ disk' = [disk EXCEPT !.pages[new] = IndexPage(m.index)]
  /\ pc' = "restore_sb"
  /\ expected' = taken[k].of
  /\ failures' = IF taken[k].intact THEN failures ELSE failures \cup {"spoiled"}
  /\ log' = [offset |-> 0, sequence |-> 1, entries |-> 0]
  /\ restored' = "once"
  /\ taken' = Spoiled({j \in DOMAIN taken : j > k})
  /\ UNCHANGED <<todo, work, pending, journal, opens, crashes, compactions>>

\* Up to the write of the index.  The log is left as it is.  The counts are
\* from now on too low for what later snapshots name.
Restore(k) ==
  /\ Called
  /\ k \in DOMAIN ReadTable(mem.sb.snapshot)
  /\ LET m == Restored(ReadTable(mem.sb.snapshot)[k])
         freed == [m EXCEPT !.used = @ \ {m.sb.index}]
         new == Allocated(freed)
     IN  /\ mem' = [freed EXCEPT !.used = @ \cup {new}, !.sb.index = new]
         /\ disk' = [disk EXCEPT !.pages[new] = IndexPage(m.index)]
  /\ pc' = "restore_sb"
  /\ expected' = taken[k].of
  /\ failures' = IF taken[k].intact THEN failures ELSE failures \cup {"spoiled"}
  /\ restored' = IF log.entries # 0 THEN "log" ELSE "once"
  /\ taken' = Spoiled({j \in DOMAIN taken : j > k})
  /\ UNCHANGED <<todo, work, pending, log, journal, opens, crashes, compactions>>

RestorePointer ==
  /\ FlushSuperblock("restore_sb", "last_sb")
  /\ UNCHANGED <<mem, todo, work, unsynced, snapVars>>

-----------------------------------------------------------------------------
\* A delete gives the leaf up; a snapshot that names the same leaf is spoiled.
SnapDelete(id) ==
  /\ Delete(id)
  /\ LET table == ReadTable(mem.sb.snapshot)
     IN  taken' = Spoiled({k \in DOMAIN table :
                             /\ mem.index[id] # 0
                             /\ ReadIndex(table[k].index)[id] = mem.index[id]})
  /\ UNCHANGED <<compactions, restored>>

\* The operations of the store.  A checkpoint drops what was logged; a sync gives
\* up the dedup table that was the copy of the snapshot restored last.
StoreStep ==
  /\ Step
  /\ LET table == ReadTable(mem.sb.snapshot)
         given == pc = "dedup" /\ pc' \in {"dedup_sb", "checkpoint"}
     IN  taken' = Spoiled({k \in DOMAIN table :
                             given /\ table[k].dedup # 0 /\ table[k].dedup = mem.sb.dedup})
  /\ restored' = IF restored = "log" /\ log'.entries = 0 THEN "once" ELSE restored
  /\ UNCHANGED compactions

SnapStep ==
  \/ CompactClear \/ CompactIndex \/ CompactPointer
  \/ \E id \in Ids : CompactParticle(id)
  \/ SnapshotIndex \/ SnapshotDedup \/ SnapshotTable \/ SnapshotPointer
  \/ SnapshotFails
  \/ RestorePointer

SnapNext ==
  \/ StoreStep
  \/ \E id \in Ids : SnapDelete(id)
  \/ Compact \/ Snapshot
  \/ \E k \in 1 .. MaxSnapshots : Restore(k)
  \/ SnapStep

SnapSpec == SnapInit /\ [][SnapNext]_allVars

-----------------------------------------------------------------------------
\* Compaction leaves the counts of the shared dimensions in memory only, so
\* what follows is promised to the session that ran it.
CountsKnown == compactions = 0 \/ opens = 1

\* Compaction, snapshots and restores keep the blocks of the store straight at
\* every file write: tables, leaves and shared pages are allocated, counted and
\* unchanged.
MaintenanceKeepsBlocks ==
  CountsKnown => LiveBlocksAllocated /\ RefcountCoversReferences /\ DedupHitsAreGood

\* A compaction changes the content of no particle, and a restore gives exactly
\* what the snapshot was taken of, both for the operations that follow.
MaintenanceLosesNothing ==
  CountsKnown /\ pc = "ready" => NothingLost /\ DeletedStaysDeleted

\* The leaves and dimension pages a snapshot names hold what it was taken of,
\* though no count protects them, until one of its leaves is deleted or a
\* compaction runs: rewritten particles leave their old pages alone.
SnapshotIntact ==
  Running /\ Undamaged /\ CountsKnown =>
    LET table == ReadTable(mem.sb.snapshot)
    IN  \A k \in DOMAIN taken : taken[k].intact =>
          /\ k \in DOMAIN table
          /\ LET index == ReadIndex(table[k].index)
             IN  \A id \in Ids :
                   taken[k].of[id] = IF IsLeaf(index[id]) THEN ContentAt(index[id]) ELSE None

\* The file opens to everything acknowledged at every file write of snapshots,
\* restores and syncs, of tables that fit one block each (TablesFit and
\* SnapshotTableFits; Chains has the others).  The exceptions are the rewriting
\* of a compaction, the switch of a restore and operations logged before one.
CrashImageOutsideCompaction ==
  /\ opens = 1 /\ failures = {}
  /\ pc \notin {"compact", "compact_sb", "restore_sb"} /\ restored # "log"
  => \A id \in Ids : Visible(Opened, id) = expected[id]

\* "Clear dedup table so rewritten particles rebuild it with correct ref counts"
\* (persist.rs:888): no delete takes a page from another particle afterwards,
\* in whatever session.
CompactedStaysWhole == pc = "ready" => NothingLost
=============================================================================
