--------------------------- MODULE PersistProofs ---------------------------
(***************************************************************************)
(* Proofs about the persistent store: as long as every session ends in a   *)
(* sync and no page is overwritten, the store never gives up a block that  *)
(* is in use, its reference counts cover the references, and it has every  *)
(* particle that was acknowledged.                                         *)
(***************************************************************************)
EXTENDS Persist, FiniteSetTheorems, TLAPS

Codec == INSTANCE WalCodecProofs
           WITH DataCells <- [o \in Ops |-> IF o.op = "delete" THEN 1 ELSE 2]

-----------------------------------------------------------------------------
(* The invariant                                                           *)

Pointers == Blocks \cup {0}
Indexes == [Ids -> Pointers]
\* A page that is listed has a reference.
DedupTables ==
  {t \in [Dims -> [block : Pointers, count : Nat]] :
     \A d \in Dims : t[d].block # 0 => t[d].count # 0}
Superblocks == [index : Pointers, dedup : Pointers, snapshot : Pointers]

Pages ==
  [kind : {"none", "garbage"}]
    \cup [kind : {"dim"}, dim : Dims]
    \cup [kind : {"leaf"}, id : Ids, at : [Dims -> Pointers]]
    \cup [kind : {"index"}, index : Indexes]
    \cup [kind : {"dedup"}, dedup : DedupTables]
    \cup [kind : {"table"}, snapshots : Seq([index : Pointers, dedup : Pointers])]

Disks == [pages : [Blocks -> Pages], used : SUBSET Blocks, sb : Superblocks]

Stores ==
  [store : [Ids -> (SUBSET Dims) \cup {None}], modified : SUBSET Ids,
   index : Indexes, dedup : DedupTables, used : SUBSET Blocks, sb : Superblocks]

Writes == {WriteOp(id, c) : id \in Ids, c \in Contents}

SyncStates == {"particles", "bitmap", "index", "index_sb", "dedup", "dedup_sb",
               "checkpoint", "last_sb", "last_bitmap"}

\* Compaction, snapshots and restores (module Snapshots) go through more states.
MaintenanceStates == {"compact", "compact_sb", "snap_dedup", "snap_table", "snap_sb",
                      "restore_sb"}

JournalTypes ==
  /\ journal \in [0 .. JournalCells - 1 ->
                    Wal!Headers \cup [of : Ops, piece : Nat] \cup {Blank}]
  /\ log \in [offset : 0 .. JournalCells, sequence : Nat, entries : Nat]

PersistTypes ==
  /\ mem \in Stores
  /\ disk \in [pages : [Blocks -> Pages], used : SUBSET Blocks, sb : Superblocks]
  /\ journal \in [0 .. JournalCells - 1 ->
                    Wal!Headers \cup [of : Ops, piece : Nat] \cup {Blank}]
  /\ log \in [offset : 0 .. JournalCells, sequence : Nat, entries : Nat]
  /\ pc \in {"closed", "ready", "retry"} \cup SyncStates \cup MaintenanceStates
  /\ todo \in SUBSET Ids
  /\ work \in [id : Ids, content : SUBSET Dims, at : [Dims -> Pointers]] \cup {None}
  /\ pending \in Ops => pending \in Writes
  /\ expected \in [Ids -> (SUBSET Dims) \cup {None}]

\* The blocks named by the tables of m, over the given pages: they are in use,
\* hold what is looked for there, and each dimension page of a leaf is the one
\* that is shared now.
Tables(m, pages) ==
  /\ m.sb.index # 0 => m.sb.index \in m.used /\ pages[m.sb.index].kind = "index"
  /\ m.sb.dedup # 0 => m.sb.dedup \in m.used /\ pages[m.sb.dedup].kind = "dedup"

Leaves(m, pages) ==
  \A id \in Ids : m.index[id] # 0 =>
    LET leaf == pages[m.index[id]]
    IN  /\ m.index[id] \in m.used
        /\ leaf.kind = "leaf" /\ leaf.id = id
        /\ \A d \in Dims : leaf.at[d] # 0 => m.dedup[d].block = leaf.at[d]

Shared(m, pages) ==
  \A d \in Dims : m.dedup[d].block # 0 =>
    m.dedup[d].block \in m.used /\ pages[m.dedup[d].block] = DimPage(d)

\* The particles that refer to dimension d, and the count that covers them and
\* the particle being written, which holds the dimensions in held.
HoldersOf(m, pages, d) == {id \in Ids : m.index[id] # 0 /\ pages[m.index[id]].at[d] # 0}

Counted(m, pages, held) ==
  \A d \in Dims :
    Cardinality(HoldersOf(m, pages, d)) + (IF d \in held THEN 1 ELSE 0) <= m.dedup[d].count

Image(m, pages, held) ==
  /\ Tables(m, pages) /\ Leaves(m, pages) /\ Shared(m, pages) /\ Counted(m, pages, held)

\* The dimensions the particle being written already refers to.
Held == IF work = None THEN {} ELSE {d \in Dims : work.at[d] # 0}

\* The leaves have what is expected of every particle but the dirty ones.
Saved(index, pages, dirty) ==
  \A id \in Ids \ dirty : expected[id] # None =>
    index[id] # 0 /\ {d \in Dims : pages[index[id]].at[d] # 0} = expected[id]

Dirty == IF pc \in {"particles", "compact"} THEN todo ELSE mem.modified

\* What an open takes from the file.
FileImage == [index |-> ReadIndex(disk.sb.index), dedup |-> ReadDedup(disk.sb.dedup),
              used |-> disk.used, sb |-> disk.sb]

FileGood ==
  Image(FileImage, disk.pages, {}) /\ Saved(FileImage.index, disk.pages, {})

StoreGood ==
  /\ Image(mem, disk.pages, Held)
  /\ \A id \in Ids : expected[id] # None => mem.store[id] \in {None, expected[id]}
  /\ Saved(mem.index, disk.pages, Dirty)
  /\ \A id \in mem.modified : mem.store[id] # None /\ mem.store[id] = expected[id]

WorkGood ==
  /\ pc = "particles" => todo \subseteq mem.modified
  /\ pc \notin {"particles", "compact"} => todo = {} /\ work = None
  /\ work # None =>
       /\ work.id \in todo
       /\ expected[work.id] # None => work.content = expected[work.id]
       /\ \A d \in Dims : work.at[d] # 0 => d \in work.content /\ mem.dedup[d].block = work.at[d]

\* How far the running sync is, and what follows it.
Syncing(states) == pc \in states \/ (pc \in {"last_sb", "last_bitmap"} /\ pending # None)

Progress ==
  /\ pc \notin {"ready", "particles"} \/ log.entries = 0 => mem.modified = {}
  /\ pc \in {"index_sb", "dedup", "dedup_sb", "checkpoint", "last_sb", "last_bitmap", "retry",
             "compact_sb", "snap_dedup", "snap_table", "snap_sb", "restore_sb"} =>
       mem.sb.index # 0 /\ ReadIndex(mem.sb.index) = mem.index
  /\ Syncing({"dedup_sb", "checkpoint", "retry", "snap_dedup", "snap_table", "snap_sb",
              "restore_sb"}) =>
       ReadDedup(mem.sb.dedup) = mem.dedup
  /\ pc \in {"last_bitmap", "retry", "snap_dedup", "snap_table"} => disk.sb = mem.sb
  /\ pc \in {"retry", "snap_dedup", "snap_table"} => disk.used \subseteq mem.used
  /\ Syncing({"retry", "closed"}) => log.entries = 0
  /\ pc \in {"ready", "closed", "snap_sb", "restore_sb"} => pending = None

\* What the file holds when everything is synced.  A compaction leaves a file
\* of which this is not true.
Filed ==
  /\ pc \notin {"compact", "compact_sb"}
  /\ pc \in {"last_sb", "last_bitmap"} => ReadDedup(mem.sb.dedup) = mem.dedup
  /\ pc \in {"closed", "ready", "retry", "snap_dedup", "snap_table"} /\ log.entries = 0 =>
       FileGood

\* Before the first index is written there is nothing in the file; without
\* entries in the log there is nothing to be written that could fail.
Beginnings ==
  /\ disk.sb.index = 0 => disk.sb = NullPointers
  /\ Running /\ mem.sb.index = 0 => mem.sb = NullPointers /\ disk.sb = NullPointers
  /\ Running /\ log.entries = 0 /\ mem.sb.index = 0 => \A id \in Ids : expected[id] = None
  /\ Running /\ log.entries = 0 /\ mem.sb.dedup = 0 => mem.dedup = NoDedup

\* Behind each entry of the journal there is another one, up to a checkpoint or
\* to the end of what this session logged, and none reaches over the offset.
Followed(i) == i + Wal!EntryCells(journal[i].op) \in Wal!HeadersOf(journal)

JournalGood ==
  \A i \in Wal!HeadersOf(journal) :
    LET next == i + Wal!EntryCells(journal[i].op)
    IN  /\ i < log.offset => next <= log.offset
        /\ \/ journal[i].op = Checkpoint
           \/ next \in Wal!HeadersOf(journal)
           \/ log.entries > 0 /\ next = log.offset

\* What is true of the running store, and of the file as long as there is no
\* compaction.
Live == PersistTypes /\ (Running => StoreGood) /\ WorkGood /\ Progress /\ JournalGood
Lasting == Filed /\ Beginnings
Sound == Live /\ Lasting

PersistInv == crashes \in Nat /\ (Undamaged => Sound)

-----------------------------------------------------------------------------
(* The journal *)

\* The assumption WalCodec makes holds of the store's log.
LEMMA CodecHolds == Codec!WalCodecAssumption
BY PersistAssumption DEF Codec!WalCodecAssumption

\* The lemmas of WalCodecProofs are about this module's log.
LEMMA SameCodec ==
  /\ \A cells : Wal!HeadersOf(cells) = Codec!HeadersOf(cells)
  /\ \A op : Wal!Data(op) = Codec!Data(op) /\ Wal!EntryCells(op) = Codec!EntryCells(op)
  /\ \A cells : Wal!Recovered(cells) = Codec!Recovered(cells)
  /\ \A cells : Wal!ScanTail(cells) = Codec!ScanTail(cells)
<1>1. \A cells : Wal!HeadersOf(cells) = Codec!HeadersOf(cells)
  BY Zenon DEF Wal!HeadersOf, Codec!HeadersOf, Wal!Headers, Codec!Headers
<1>2. \A op : Wal!Data(op) = Codec!Data(op) /\ Wal!EntryCells(op) = Codec!EntryCells(op)
  BY Zenon DEF Wal!Data, Codec!Data, Wal!EntryCells, Codec!EntryCells
<1>3. \A cells, i, readable : Wal!Visited(cells, i, readable) = Codec!Visited(cells, i, readable)
  BY Zenon DEF Wal!Data, Codec!Data, Wal!EntryCells, Codec!EntryCells,
               Wal!Visited, Codec!Visited
<1>4. \A cells, i : Wal!Intact(cells, i) = Codec!Intact(cells, i)
  BY Zenon DEF Wal!Data, Codec!Data, Wal!Intact, Codec!Intact, Wal!Piece, Codec!Piece
<1>5. \A cells : Wal!AfterLastCheckpoint(cells) = Codec!AfterLastCheckpoint(cells)
  <2> SUFFICES ASSUME NEW cells
               PROVE  Wal!AfterLastCheckpoint(cells) = Codec!AfterLastCheckpoint(cells)
    OBVIOUS
  <2> DEFINE ours == Wal!Range(Wal!Visited(cells, 0, Wal!HeadersOf(cells)))
             theirs == Codec!Range(Codec!Visited(cells, 0, Codec!HeadersOf(cells)))
             last(all) == {i \in all : cells[i].op = Checkpoint}
  <2>1. ours = theirs
    BY Zenon, <1>1, <1>3 DEF Wal!Range, Codec!Range
  <2>2. \A S : Wal!Max(S) = Codec!Max(S)
    BY Zenon DEF Wal!Max, Codec!Max
  <2>3. Wal!AfterLastCheckpoint(cells) = IF last(ours) = {} THEN 0 ELSE Wal!Max(last(ours)) + 1
    BY DEF Wal!AfterLastCheckpoint
  <2>4. Codec!AfterLastCheckpoint(cells) =
          IF last(theirs) = {} THEN 0 ELSE Codec!Max(last(theirs)) + 1
    BY DEF Codec!AfterLastCheckpoint
  <2> HIDE DEF ours, theirs, last
  <2> QED
    BY Zenon, <2>1, <2>2, <2>3, <2>4
<1>6. \A cells : Wal!Recovered(cells) = Codec!Recovered(cells)
  BY Zenon, <1>1, <1>3, <1>4, <1>5 DEF Wal!Recovered, Codec!Recovered
<1>7. \A cells : Wal!ScanTail(cells) = Codec!ScanTail(cells)
  BY Zenon, <1>1, <1>2, <1>3, <1>4, <1>6 DEF Wal!ScanTail, Codec!ScanTail
<1> QED
  BY <1>1, <1>2, <1>6, <1>7

\* The entries of the journal and their sizes.
LEMMA Entries ==
  /\ \A op \in Ops : Wal!Data(op) \in Nat \ {0} /\ Wal!EntryCells(op) = 1 + Wal!Data(op)
  /\ Wal!Data(Checkpoint) = 0 /\ Wal!EntryCells(Checkpoint) = 1
  /\ \A i \in Wal!HeadersOf(journal) :
       /\ i \in 0 .. JournalCells - 1 /\ journal[i] \in Wal!Headers
       /\ journal[i].op \in Ops \cup {Checkpoint} /\ journal[i].seq \in Nat
       /\ Wal!EntryCells(journal[i].op) \in Nat \ {0}
<1>1. \A op \in Ops : Wal!Data(op) \in Nat \ {0} /\ Wal!EntryCells(op) = 1 + Wal!Data(op)
  BY PersistAssumption DEF Wal!Data, Wal!EntryCells
<1>2. Wal!Data(Checkpoint) = 0 /\ Wal!EntryCells(Checkpoint) = 1
  BY DEF Wal!Data, Wal!EntryCells
<1>3. \A op \in Ops \cup {Checkpoint} : Wal!EntryCells(op) \in Nat \ {0}
  BY <1>1, <1>2
<1> QED
  BY <1>1, <1>2, <1>3 DEF Wal!HeadersOf, Wal!Headers

\* Headers and data differ, and a header written is one.
LEMMA Cells ==
  /\ \A op \in Ops, k \in Nat : /\ Wal!Piece(op, k) \notin Wal!Headers
                               /\ Wal!Piece(op, k) \in [of : Ops, piece : Nat]
  /\ \A op \in Ops \cup {Checkpoint}, seq \in Nat :
       Wal!Header(op, seq) \in Wal!Headers /\ Wal!Header(op, seq).op = op
BY DEF Wal!Piece, Wal!Headers, Wal!Header

\* An entry written at the offset follows whatever ended there, and no entry
\* that began behind it is damaged half-way.
LEMMA JournalLogged ==
  ASSUME JournalTypes, JournalGood, NEW op \in Ops, Fits(op), Logged(op)
  PROVE  /\ JournalGood'
         /\ journal' \in [0 .. JournalCells - 1 ->
                            Wal!Headers \cup [of : Ops, piece : Nat] \cup {Blank}]
         /\ log' \in [offset : 0 .. JournalCells, sequence : Nat, entries : Nat]
         /\ log'.entries = log.entries + 1
<1> DEFINE at == log.offset
           n == Wal!Data(op)
           cells == 0 .. JournalCells - 1
           values == Wal!Headers \cup [of : Ops, piece : Nat] \cup {Blank}
<1>1. /\ n \in Nat \ {0} /\ Wal!EntryCells(op) = 1 + n /\ at + (1 + n) <= JournalCells
      /\ at \in Nat /\ JournalCells \in Nat
      /\ log.sequence \in Nat /\ log.entries \in Nat
  BY Entries, PersistAssumption DEF Fits, JournalTypes
<1>2. journal' = [i \in cells |->
                    IF i = at THEN Wal!Header(op, log.sequence)
                    ELSE IF i - at \in 1 .. n THEN Wal!Piece(op, i - at) ELSE journal[i]]
      /\ journal \in [cells -> values]
  BY DEF Logged, JournalTypes
<1>3. log' = [offset |-> at + (1 + n), sequence |-> log.sequence + 1,
              entries |-> log.entries + 1]
  BY <1>1 DEF Logged
<1>4. at \in cells
  BY <1>1
<1> HIDE DEF at, n
<1>5. \A i \in cells : journal'[i] \in values
  <2> SUFFICES ASSUME NEW i \in cells PROVE journal'[i] \in values
    OBVIOUS
  <2>1. CASE i = at
    BY <1>1, <1>2, <2>1, Cells
  <2>2. CASE i # at /\ i - at \in 1 .. n
    BY <1>1, <1>2, <2>2, Cells
  <2>3. CASE i # at /\ i - at \notin 1 .. n
    BY <1>2, <2>3
  <2> QED
    BY <2>1, <2>2, <2>3
<1>6. \A i \in cells : i \in Wal!HeadersOf(journal)' <=>
        i = at \/ (i \in Wal!HeadersOf(journal) /\ i - at \notin 1 .. n)
  <2> SUFFICES ASSUME NEW i \in cells
               PROVE  i \in Wal!HeadersOf(journal)' <=>
                        i = at \/ (i \in Wal!HeadersOf(journal) /\ i - at \notin 1 .. n)
    OBVIOUS
  <2>1. i \in Wal!HeadersOf(journal)' <=> journal'[i] \in Wal!Headers
    BY DEF Wal!HeadersOf, Wal!Headers
  <2>2. CASE i = at
    BY <1>1, <1>2, <2>1, <2>2, Cells
  <2>3. CASE i # at /\ i - at \in 1 .. n
    BY <1>1, <1>2, <2>1, <2>3, Cells
  <2>4. CASE i # at /\ i - at \notin 1 .. n
    BY <1>2, <2>1, <2>4 DEF Wal!HeadersOf
  <2> QED
    BY <2>2, <2>3, <2>4
<1>7. journal'[at].op = op
  BY <1>1, <1>2, <1>4, Cells
<1>8. ASSUME NEW i \in Wal!HeadersOf(journal)'
      PROVE  LET next == i + Wal!EntryCells(journal'[i].op)
             IN  /\ i < log'.offset => next <= log'.offset
                 /\ \/ journal'[i].op = Checkpoint
                    \/ next \in Wal!HeadersOf(journal)'
                    \/ log'.entries > 0 /\ next = log'.offset
  <2>1. i \in cells
    BY DEF Wal!HeadersOf
  <2>2. CASE i = at
    BY <1>1, <1>3, <1>7, <2>2
  <2>3. CASE i # at
    <3> DEFINE next == i + Wal!EntryCells(journal[i].op)
    <3>1. i \in Wal!HeadersOf(journal) /\ i - at \notin 1 .. n
      BY <1>6, <2>1, <2>3
    <3>2. journal'[i] = journal[i]
      BY <1>2, <2>1, <2>3, <3>1
    <3>3. Wal!EntryCells(journal[i].op) \in Nat \ {0}
      BY <3>1, Entries
    <3>4. /\ i < at => next <= at
          /\ \/ journal[i].op = Checkpoint
             \/ next \in Wal!HeadersOf(journal)
             \/ next = at
      BY <3>1 DEF JournalGood, at
    <3>5. next \in Wal!HeadersOf(journal) => next \in cells
      BY DEF Wal!HeadersOf
    <3>6. next \in Nat /\ next > i
      BY <2>1, <3>3
    <3> HIDE DEF next
    <3>7. i < at + (1 + n) => next <= at + (1 + n)
      BY <1>1, <2>1, <2>3, <3>1, <3>4, <3>6
    <3>8. next - at \notin 1 .. n
      BY <1>1, <2>1, <2>3, <3>1, <3>4, <3>6
    <3>9. journal[i].op = Checkpoint \/ next \in Wal!HeadersOf(journal)'
      BY <1>4, <1>6, <3>4, <3>5, <3>8
    <3> QED
      BY <1>3, <3>2, <3>7, <3>9 DEF next
  <2> QED
    BY <2>2, <2>3
<1>9. JournalGood'
  BY <1>8 DEF JournalGood
<1>10. /\ log' \in [offset : 0 .. JournalCells, sequence : Nat, entries : Nat]
       /\ log'.entries = log.entries + 1
  <2>1. at + (1 + n) \in 0 .. JournalCells /\ log.sequence + 1 \in Nat /\ log.entries + 1 \in Nat
    BY <1>1
  <2> QED
    BY <1>3, <2>1
<1>11. journal' \in [cells -> values]
  <2> HIDE DEF values
  <2> QED
    BY <1>2, <1>5
<1> QED
  BY <1>9, <1>10, <1>11

\* A checkpoint within the journal goes where the last entry ends.
LEMMA JournalCheckpointed ==
  ASSUME JournalTypes, JournalGood, WriteCheckpoint, log.offset < JournalCells
  PROVE  /\ JournalGood'
         /\ journal' \in [0 .. JournalCells - 1 ->
                            Wal!Headers \cup [of : Ops, piece : Nat] \cup {Blank}]
         /\ log' \in [offset : 0 .. JournalCells, sequence : Nat, entries : Nat]
         /\ log'.entries = 0
<1> DEFINE at == log.offset
           cells == 0 .. JournalCells - 1
           values == Wal!Headers \cup [of : Ops, piece : Nat] \cup {Blank}
           header == Wal!Header(Checkpoint, log.sequence)
<1>1. at \in Nat /\ JournalCells \in Nat /\ at < JournalCells /\ log.sequence \in Nat
      /\ journal \in [cells -> values]
  BY PersistAssumption DEF JournalTypes
<1>2. header \in Wal!Headers /\ header.op = Checkpoint
  BY <1>1, Cells
<1>3. journal' = [journal EXCEPT ![at] = header]
      /\ log' = [offset |-> at + 1, sequence |-> log.sequence + 1, entries |-> 0]
  BY <1>1 DEF WriteCheckpoint
<1>4. at \in cells /\ log'.offset = at + 1
  BY <1>1, <1>3
<1> HIDE DEF at, header
<1>5. /\ journal'[at] = header
      /\ \A i \in cells : i # at => journal'[i] = journal[i]
      /\ journal' \in [cells -> values]
  BY <1>1, <1>2, <1>3, <1>4
<1>6. \A i \in cells : i \in Wal!HeadersOf(journal)' <=> i = at \/ i \in Wal!HeadersOf(journal)
  <2> SUFFICES ASSUME NEW i \in cells
               PROVE  i \in Wal!HeadersOf(journal)' <=> i = at \/ i \in Wal!HeadersOf(journal)
    OBVIOUS
  <2>1. i \in Wal!HeadersOf(journal)' <=> journal'[i] \in Wal!Headers
    BY DEF Wal!HeadersOf, Wal!Headers
  <2>2. i \in Wal!HeadersOf(journal) <=> journal[i] \in Wal!Headers
    BY DEF Wal!HeadersOf
  <2> QED
    BY <1>2, <1>5, <2>1, <2>2
<1>7. ASSUME NEW i \in Wal!HeadersOf(journal)'
      PROVE  LET next == i + Wal!EntryCells(journal'[i].op)
             IN  /\ i < log'.offset => next <= log'.offset
                 /\ journal'[i].op = Checkpoint \/ next \in Wal!HeadersOf(journal)'
  <2>1. i \in cells
    BY DEF Wal!HeadersOf
  <2>2. CASE i = at
    BY <1>1, <1>2, <1>4, <1>5, <2>2, Entries
  <2>3. CASE i # at
    <3> DEFINE next == i + Wal!EntryCells(journal[i].op)
    <3>1. i \in Wal!HeadersOf(journal) /\ journal'[i] = journal[i]
      BY <1>5, <1>6, <2>1, <2>3
    <3>2. Wal!EntryCells(journal[i].op) \in Nat \ {0}
      BY <3>1, Entries
    <3>3. /\ i < at => next <= at
          /\ \/ journal[i].op = Checkpoint
             \/ next \in Wal!HeadersOf(journal)
             \/ next = at
      BY <3>1 DEF JournalGood, at
    <3>4. next \in Wal!HeadersOf(journal) => next \in cells
      BY DEF Wal!HeadersOf
    <3>5. next \in Nat /\ next > i
      BY <2>1, <3>2
    <3> HIDE DEF next
    <3>6. i < at + 1 => next <= at + 1
      BY <1>1, <2>1, <2>3, <3>3, <3>5
    <3>7. journal[i].op = Checkpoint \/ next \in Wal!HeadersOf(journal)'
      BY <1>4, <1>6, <3>3, <3>4
    <3> QED
      BY <1>4, <3>1, <3>6, <3>7 DEF next
  <2> QED
    BY <2>2, <2>3
<1>8. JournalGood'
  BY <1>7 DEF JournalGood
<1>9. /\ log' \in [offset : 0 .. JournalCells, sequence : Nat, entries : Nat]
      /\ log'.entries = 0
  BY <1>1, <1>3
<1> QED
  BY <1>5, <1>8, <1>9

\* A process that opens a journal in which everything is checkpointed replays
\* nothing and logs behind entries that end where it starts.
LEMMA JournalOpened ==
  ASSUME JournalTypes, JournalGood, log.entries = 0
  PROVE  LET tail == Wal!ScanTail(journal)
         IN  /\ Wal!Recovered(journal) = << >>
             /\ tail.write_offset \in 0 .. JournalCells
             /\ tail.next_sequence \in Nat
             /\ tail.entries = 0
             /\ \A i \in Wal!HeadersOf(journal) : i < tail.write_offset =>
                  i + Wal!EntryCells(journal[i].op) <= tail.write_offset
<1>1. \A i \in Codec!HeadersOf(journal) :
        journal[i].op # Checkpoint =>
          i + Codec!EntryCells(journal[i].op) \in Codec!HeadersOf(journal)
  BY SameCodec DEF JournalGood
<1>2. Codec!Recovered(journal) = << >>
  BY <1>1, CodecHolds, Codec!NothingToRecover
<1>3. LET tail == Codec!ScanTail(journal)
      IN  /\ tail.write_offset \in Nat
          /\ tail.write_offset = 0 \/ tail.write_offset < JournalCells
          /\ tail.next_sequence \in Nat
          /\ Codec!Recovered(journal) = << >> => tail.entries = 0
          /\ \A i \in Codec!HeadersOf(journal) : i < tail.write_offset =>
               i + Codec!EntryCells(journal[i].op) <= tail.write_offset
  BY CodecHolds, Codec!TailOffset
<1>4. JournalCells \in Nat
  BY PersistAssumption
<1>5. LET tail == Wal!ScanTail(journal)
      IN  /\ tail.write_offset \in Nat
          /\ tail.write_offset = 0 \/ tail.write_offset < JournalCells
          /\ tail.next_sequence \in Nat
          /\ tail.entries = 0
          /\ \A i \in Wal!HeadersOf(journal) : i < tail.write_offset =>
               i + Wal!EntryCells(journal[i].op) <= tail.write_offset
  BY <1>2, <1>3, SameCodec
<1> QED
  BY <1>2, <1>4, <1>5, SameCodec

-----------------------------------------------------------------------------
(* Deleting a particle *)

\* What free_dimension_block leaves when it has run over a set of blocks, each
\* shared by one dimension at most: an entry with its last reference goes, and
\* its page is freed, as is a page that no entry shares.
Unshared(m, b) == \A d \in Dims : m.dedup[d].block = b => m.dedup[d].count <= 1

With(m, used, dedup) ==
  [store |-> m.store, modified |-> m.modified, index |-> m.index,
   dedup |-> dedup, used |-> used, sb |-> m.sb]

Shed(m, blocks) ==
  With(m, m.used \ {b \in blocks : Unshared(m, b)},
       [d \in Dims |-> IF m.dedup[d].block \notin blocks THEN m.dedup[d]
                       ELSE IF m.dedup[d].count <= 1 THEN NoDedup[d]
                       ELSE [block |-> m.dedup[d].block, count |-> m.dedup[d].count - 1]])

SharedOnce(m) ==
  \A d, e \in Dims : m.dedup[d].block # 0 /\ m.dedup[d].block = m.dedup[e].block => d = e

\* Freeing one more block.
LEMMA ShedOne ==
  ASSUME NEW m \in Stores, SharedOnce(m), NEW blocks \in SUBSET Blocks, NEW x \in blocks
  PROVE  Shed(m, blocks) = DimensionFreed(Shed(m, blocks \ {x}), x)
<1> DEFINE usedAfter(s) == m.used \ {b \in s : Unshared(m, b)}
           dedupAfter(s) ==
             [d \in Dims |-> IF m.dedup[d].block \notin s THEN m.dedup[d]
                             ELSE IF m.dedup[d].count <= 1 THEN NoDedup[d]
                             ELSE [block |-> m.dedup[d].block, count |-> m.dedup[d].count - 1]]
           u == usedAfter(blocks \ {x})
           t == dedupAfter(blocks \ {x})
           before == With(m, u, t)
<1>1. Shed(m, blocks \ {x}) = before
      /\ Shed(m, blocks) = With(m, usedAfter(blocks), dedupAfter(blocks))
  BY DEF Shed
<1>2. x # 0 /\ \A d \in Dims : NoDedup[d] = [block |-> 0, count |-> 0]
  BY DEF Blocks, NoDedup
<1>3. \A d \in Dims : m.dedup[d] \in [block : Pointers, count : Nat]
  BY DEF Stores, DedupTables
<1> DEFINE holders == {d \in Dims : before.dedup[d].block = x}
<1>4. \A d \in Dims : /\ t[d].block = x <=> m.dedup[d].block = x
                      /\ m.dedup[d].block = x => t[d] = m.dedup[d]
  <2> SUFFICES ASSUME NEW d \in Dims
               PROVE  /\ t[d].block = x <=> m.dedup[d].block = x
                      /\ m.dedup[d].block = x => t[d] = m.dedup[d]
    OBVIOUS
  <2>1. CASE m.dedup[d].block \notin blocks \ {x}
    BY <2>1
  <2>2. CASE m.dedup[d].block \in blocks \ {x} /\ m.dedup[d].count <= 1
    BY <1>2, <2>2
  <2>3. CASE m.dedup[d].block \in blocks \ {x} /\ ~ (m.dedup[d].count <= 1)
    BY <2>3
  <2> QED
    BY <2>1, <2>2, <2>3
<1>5. holders = {d \in Dims : m.dedup[d].block = x}
  <2> HIDE DEF t
  <2>1. before.dedup = t
    BY DEF With
  <2> QED
    BY <1>4, <2>1
<1>6. CASE holders = {}
  <2>1. DimensionFreed(before, x) = [before EXCEPT !.used = @ \ {x}]
    BY <1>6 DEF DimensionFreed
  <2>2. Unshared(m, x) /\ \A d \in Dims : m.dedup[d].block # x
    BY <1>5, <1>6 DEF Unshared
  <2>3. usedAfter(blocks) = u \ {x}
    BY <2>2
  <2>4. dedupAfter(blocks) = t
    BY <2>2
  <2> HIDE DEF u, t, usedAfter, dedupAfter
  <2>5. [before EXCEPT !.used = @ \ {x}] = With(m, u \ {x}, t)
    BY DEF With
  <2> QED
    BY <1>1, <2>1, <2>3, <2>4, <2>5
<1>7. ASSUME NEW e \in holders
      PROVE  Shed(m, blocks) = DimensionFreed(before, x)
  <2>1. e \in Dims /\ m.dedup[e].block = x
    BY <1>5, <1>7
  <2>2. \A d \in Dims : d # e => m.dedup[d].block # x
    BY <1>2, <2>1 DEF SharedOnce
  <2>3. holders = {e}
    <3> HIDE DEF holders
    <3> QED
      BY <1>5, <2>1, <2>2
  <2>4. (CHOOSE d \in holders : TRUE) = e /\ holders # {}
    <3> HIDE DEF holders
    <3> QED
      BY <2>3
  <2>5. t[e] = m.dedup[e] /\ before.dedup = t
    BY <1>4, <2>1 DEF With
  <2>6. DOMAIN t = Dims
    OBVIOUS
  <2>7. CASE m.dedup[e].count <= 1
    <3>1. DimensionFreed(before, x) = [before EXCEPT !.used = @ \ {x}, !.dedup[e] = NoDedup[e]]
      <4> HIDE DEF t, before
      <4> QED
        BY <2>4, <2>5, <2>7 DEF DimensionFreed
    <3>2. Unshared(m, x)
      BY <2>2, <2>7 DEF Unshared
    <3>3. usedAfter(blocks) = u \ {x}
      BY <3>2
    <3>4. dedupAfter(blocks) = [t EXCEPT ![e] = NoDedup[e]]
      BY <2>1, <2>2, <2>7
    <3> HIDE DEF u, t, usedAfter, dedupAfter
    <3>5. [before EXCEPT !.used = @ \ {x}, !.dedup[e] = NoDedup[e]] =
            With(m, u \ {x}, [t EXCEPT ![e] = NoDedup[e]])
      <4>1. [before EXCEPT !.used = @ \ {x}] = With(m, u \ {x}, t)
        BY DEF With
      <4>2. [With(m, u \ {x}, t) EXCEPT !.dedup[e] = NoDedup[e]] =
              With(m, u \ {x}, [t EXCEPT ![e] = NoDedup[e]])
        BY DEF With
      <4>3. [before EXCEPT !.used = @ \ {x}, !.dedup[e] = NoDedup[e]] =
              [[before EXCEPT !.used = @ \ {x}] EXCEPT !.dedup[e] = NoDedup[e]]
        OBVIOUS
      <4> HIDE DEF before
      <4> QED
        BY <4>1, <4>2, <4>3
    <3> QED
      BY <1>1, <3>1, <3>3, <3>4, <3>5
  <2>8. CASE ~ (m.dedup[e].count <= 1)
    <3>1. DimensionFreed(before, x) = [before EXCEPT !.dedup[e].count = @ - 1]
      <4> HIDE DEF t, before
      <4> QED
        BY <2>4, <2>5, <2>8 DEF DimensionFreed
    <3>2. ~ Unshared(m, x)
      BY <2>1, <2>8 DEF Unshared
    <3>3. usedAfter(blocks) = u
      BY <3>2
    <3> DEFINE less == [block |-> m.dedup[e].block, count |-> m.dedup[e].count - 1]
    <3>4. [t[e] EXCEPT !.count = @ - 1] = less
      <4> HIDE DEF t
      <4> QED
        BY <1>3, <2>1, <2>5
    <3>5. dedupAfter(blocks) = [t EXCEPT ![e] = less]
      <4>1. dedupAfter(blocks)[e] = less
        BY <2>1, <2>8
      <4>2. \A d \in Dims : d # e => dedupAfter(blocks)[d] = t[d]
        BY <2>2
      <4>3. DOMAIN dedupAfter(blocks) = Dims /\ e \in Dims
        BY <2>1
      <4>4. dedupAfter(blocks) = [d \in Dims |-> dedupAfter(blocks)[d]]
            /\ t = [d \in Dims |-> t[d]]
        OBVIOUS
      <4> HIDE DEF dedupAfter, t, less
      <4> QED
        BY <2>6, <4>1, <4>2, <4>3, <4>4
    <3> HIDE DEF u, t, usedAfter, dedupAfter, less
    <3>6. [before EXCEPT !.dedup[e].count = @ - 1] = With(m, u, [t EXCEPT ![e] = less])
      BY <3>4 DEF With
    <3> QED
      BY <1>1, <3>1, <3>3, <3>5, <3>6
  <2> QED
    BY <2>7, <2>8
<1> QED
  BY <1>1, <1>6, <1>7

\* The loop of delete over the dimension pages of a leaf, in whatever order.
LEMMA ShedAll ==
  ASSUME NEW m \in Stores, SharedOnce(m), NEW blocks \in SUBSET Blocks
  PROVE  FoldSet(LAMBDA b, acc : DimensionFreed(acc, b), m, blocks) = Shed(m, blocks)
<1> DEFINE pick(s) == CHOOSE x \in s : TRUE
           body(f) == [s \in SUBSET blocks |->
                         IF s = {} THEN m
                         ELSE LET x == pick(s) IN DimensionFreed(f[s \ {x}], x)]
           shed == [s \in SUBSET blocks |-> Shed(m, s)]
           fold == CHOOSE f : f = body(f)
<1>1. Shed(m, {}) = m
  <2>1. [d \in Dims |-> IF m.dedup[d].block \notin {} THEN m.dedup[d]
                        ELSE IF m.dedup[d].count <= 1 THEN NoDedup[d]
                        ELSE [block |-> m.dedup[d].block, count |-> m.dedup[d].count - 1]]
          = m.dedup
    BY DEF Stores, DedupTables
  <2>2. m.used \ {b \in {} : Unshared(m, b)} = m.used
    OBVIOUS
  <2>3. With(m, m.used, m.dedup) = m
    BY DEF With, Stores
  <2> QED
    BY Zenon, <2>1, <2>2, <2>3 DEF Shed
<1>2. \A s \in SUBSET blocks : s # {} => pick(s) \in s
  OBVIOUS
<1>3. \A s \in SUBSET blocks : s # {} => Shed(m, s) = DimensionFreed(Shed(m, s \ {pick(s)}), pick(s))
  <2> SUFFICES ASSUME NEW s \in SUBSET blocks, s # {}
               PROVE  Shed(m, s) = DimensionFreed(Shed(m, s \ {pick(s)}), pick(s))
    OBVIOUS
  <2>1. pick(s) \in s
    BY <1>2
  <2> HIDE DEF pick
  <2> QED
    BY <2>1, ShedOne
<1>4. shed = body(shed)
  <2> HIDE DEF pick
  <2>1. \A s \in SUBSET blocks : s \ {pick(s)} \in SUBSET blocks
    OBVIOUS
  <2>2. \A s \in SUBSET blocks : shed[s] = body(shed)[s]
    BY <1>1, <1>3, <2>1
  <2> QED
    BY <2>2
<1>5. fold = body(fold)
  <2> HIDE DEF body
  <2> QED
    BY <1>4
<1>6. \A s \in SUBSET blocks : fold[s] = shed[s]
  <2> DEFINE bad == {s \in SUBSET blocks : fold[s] # shed[s]}
             sizes == {Cardinality(s) : s \in bad}
  <2>1. \A s \in SUBSET blocks : IsFiniteSet(s) /\ Cardinality(s) \in Nat
    <3>1. IsFiniteSet(Blocks)
      BY PersistAssumption, FS_Interval DEF Blocks
    <3> QED
      BY <3>1, FS_Subset, FS_CardinalityType
  <2>2. ASSUME bad # {} PROVE FALSE
    <3>1. sizes \in SUBSET Nat /\ sizes # {}
      <4> HIDE DEF shed, fold
      <4> QED
        BY <2>1, <2>2
    <3>2. PICK n \in sizes : \A k \in sizes : n <= k
      <4> HIDE DEF sizes
      <4> QED
        BY <3>1, CodecHolds, Codec!LeastExists
    <3>3. PICK s \in bad : Cardinality(s) = n
      <4> HIDE DEF bad
      <4> QED
        OBVIOUS
    <3> DEFINE x == pick(s)
               rest == s \ {x}
    <3>4. s \in SUBSET blocks /\ fold[s] # shed[s]
      <4> HIDE DEF fold, shed
      <4> QED
        OBVIOUS
    <3>5. s # {}
      <4>1. fold[{}] = m
        <5> HIDE DEF fold
        <5> QED
          BY <1>5
      <4>2. shed[{}] = m
        BY <1>1
      <4> HIDE DEF fold, shed
      <4> QED
        BY <3>4, <4>1, <4>2
    <3>6. x \in s /\ rest \in SUBSET blocks
      BY <1>2, <3>4, <3>5
    <3>7. Cardinality(rest) = n - 1 /\ n \in Nat
      <4> HIDE DEF x
      <4> QED
        BY <2>1, <3>3, <3>4, <3>6, FS_RemoveElement
    <3>8. rest \notin bad
      <4>1. rest \in bad => Cardinality(rest) \in sizes
        <5> HIDE DEF bad
        <5> QED
          OBVIOUS
      <4> HIDE DEF bad, sizes, rest
      <4> QED
        BY <3>2, <3>7, <4>1
    <3>9. fold[rest] = shed[rest]
      <4> HIDE DEF fold, shed, rest
      <4> QED
        BY <3>6, <3>8
    <3>10. fold[s] = DimensionFreed(fold[rest], x)
      <4> HIDE DEF fold, pick
      <4> QED
        BY <1>5, <3>4, <3>5
    <3>11. shed[s] = DimensionFreed(shed[rest], x)
      <4>1. shed[s] = Shed(m, s) /\ shed[rest] = Shed(m, rest)
        BY <3>4, <3>6
      <4>2. Shed(m, s) = DimensionFreed(Shed(m, rest), x)
        <5> HIDE DEF pick
        <5> QED
          BY <1>3, <3>4, <3>5
      <4> HIDE DEF shed, rest, x
      <4> QED
        BY <4>1, <4>2
    <3> HIDE DEF fold, shed, rest, x
    <3> QED
      BY <3>4, <3>9, <3>10, <3>11
  <2> HIDE DEF fold, shed
  <2> QED
    BY <2>2
<1>7. FoldSet(LAMBDA b, acc : DimensionFreed(acc, b), m, blocks) = fold[blocks]
  BY Zenon DEF FoldSet, MapThenFoldSet
<1>8. fold[blocks] = shed[blocks] /\ shed[blocks] = Shed(m, blocks)
  <2>1. blocks \in SUBSET blocks
    OBVIOUS
  <2>2. shed[blocks] = Shed(m, blocks)
    BY <2>1
  <2> HIDE DEF fold, shed
  <2> QED
    BY <1>6, <2>1, <2>2
<1> HIDE DEF fold, shed
<1> QED
  BY <1>7, <1>8

-----------------------------------------------------------------------------
(* Blocks in use *)

\* alloc_block returns a block that was free.
LEMMA AllocatedIsFree ==
  ASSUME NEW m, Free(m) # {}
  PROVE  Allocated(m) \in Blocks /\ Allocated(m) \notin m.used /\ Allocated(m) # 0
<1>1. Free(m) \in SUBSET Nat
  BY DEF Free, Blocks
<1>2. \E x \in Free(m) : \A y \in Free(m) : x <= y
  BY <1>1, CodecHolds, Codec!LeastExists
<1>3. Allocated(m) \in Free(m)
  BY <1>2 DEF Allocated, Min
<1> QED
  BY <1>3 DEF Free, Blocks

\* The holders of a dimension can be counted.
LEMMA Holders ==
  \A m, pages, d : /\ IsFiniteSet(HoldersOf(m, pages, d))
                   /\ Cardinality(HoldersOf(m, pages, d)) \in Nat
<1> SUFFICES ASSUME NEW m, NEW pages, NEW d
             PROVE  IsFiniteSet(HoldersOf(m, pages, d))
  BY FS_CardinalityType
<1>1. HoldersOf(m, pages, d) \subseteq Ids
  BY DEF HoldersOf
<1> QED
  BY <1>1, PersistAssumption, FS_Subset

\* What the tables name stays good when only table blocks are given up or
\* overwritten.
LEMMA ImageKept ==
  ASSUME NEW m, NEW pages, NEW held, Image(m, pages, held),
         NEW m2, NEW pages2, m2.index = m.index, m2.dedup = m.dedup,
         \A b \in m.used : \/ b \in m2.used /\ pages2[b] = pages[b]
                           \/ pages[b].kind \in {"index", "dedup", "table"},
         Tables(m2, pages2)
  PROVE  Image(m2, pages2, held)
<1>1. \A id \in Ids : m.index[id] # 0 =>
        m.index[id] \in m2.used /\ pages2[m.index[id]] = pages[m.index[id]]
  BY DEF Image, Leaves
<1>2. Leaves(m2, pages2)
  BY <1>1 DEF Image, Leaves
<1>3. Shared(m2, pages2)
  <2> SUFFICES ASSUME NEW d \in Dims, m.dedup[d].block # 0
               PROVE  m.dedup[d].block \in m2.used /\ pages2[m.dedup[d].block] = DimPage(d)
    BY DEF Shared
  <2>1. m.dedup[d].block \in m.used /\ pages[m.dedup[d].block] = DimPage(d)
    BY DEF Image, Shared
  <2>2. DimPage(d).kind = "dim"
    BY DEF DimPage
  <2> QED
    BY <2>1, <2>2
<1>4. \A d \in Dims : HoldersOf(m2, pages2, d) = HoldersOf(m, pages, d)
  BY <1>1 DEF HoldersOf
<1>5. Counted(m2, pages2, held)
  BY <1>4 DEF Image, Counted
<1> QED
  BY <1>2, <1>3, <1>5 DEF Image

\* write_dimension_data on a dimension that is stored already: one more
\* reference, held by the particle being written.
LEMMA ImageShares ==
  ASSUME NEW m, m.dedup \in DedupTables, NEW pages, NEW held, Image(m, pages, held),
         NEW d \in Dims, d \notin held,
         NEW m2, m2.index = m.index, m2.used = m.used, m2.sb = m.sb,
         m2.dedup = [m.dedup EXCEPT ![d].count = @ + 1]
  PROVE  Image(m2, pages, held \cup {d})
<1>1. /\ \A e \in Dims : m2.dedup[e].block = m.dedup[e].block
      /\ \A e \in Dims : e # d => m2.dedup[e].count = m.dedup[e].count
      /\ m2.dedup[d].count = m.dedup[d].count + 1
      /\ m.dedup[d].count \in Nat
  BY DEF DedupTables
<1>2. Tables(m2, pages) /\ Leaves(m2, pages) /\ Shared(m2, pages)
  BY <1>1 DEF Image, Tables, Leaves, Shared
<1>3. \A e \in Dims : HoldersOf(m2, pages, e) = HoldersOf(m, pages, e)
  BY DEF HoldersOf
<1>4. Counted(m2, pages, held \cup {d})
  <2> SUFFICES ASSUME NEW e \in Dims
               PROVE  Cardinality(HoldersOf(m, pages, e))
                        + (IF e \in held \cup {d} THEN 1 ELSE 0) <= m2.dedup[e].count
    BY <1>3 DEF Counted
  <2>1. Cardinality(HoldersOf(m, pages, e)) + (IF e \in held THEN 1 ELSE 0) <= m.dedup[e].count
    BY DEF Image, Counted
  <2>2. Cardinality(HoldersOf(m, pages, e)) \in Nat
    BY Holders
  <2>3. CASE e = d
    BY <1>1, <2>1, <2>2, <2>3
  <2>4. CASE e # d
    BY <1>1, <2>1, <2>4
  <2> QED
    BY <2>3, <2>4
<1> QED
  BY <1>2, <1>4 DEF Image

\* write_dimension_data on a dimension that is not stored: a page of its own.
LEMMA ImageAdds ==
  ASSUME NEW m, m.dedup \in DedupTables, NEW pages, NEW held, Image(m, pages, held),
         NEW d \in Dims, d \notin held, m.dedup[d].block = 0,
         NEW new, new # 0, new \notin m.used,
         NEW m2, m2.index = m.index, m2.used = m.used \cup {new}, m2.sb = m.sb,
         m2.dedup[d] = [block |-> new, count |-> 1],
         \A e \in Dims : e # d => m2.dedup[e] = m.dedup[e],
         NEW pages2, pages2[new] = DimPage(d), \A b \in m.used : pages2[b] = pages[b]
  PROVE  Image(m2, pages2, held \cup {d})
<1>1. /\ \A e \in Dims : e # d => m2.dedup[e] = m.dedup[e]
      /\ m2.dedup[d].block = new /\ m2.dedup[d].count = 1
  OBVIOUS
<1>2. Tables(m2, pages2)
  BY DEF Image, Tables
<1>3. \A id \in Ids : m.index[id] # 0 =>
        /\ m.index[id] \in m2.used /\ pages2[m.index[id]] = pages[m.index[id]]
        /\ pages[m.index[id]].at[d] = 0
  BY DEF Image, Leaves
<1>4. Leaves(m2, pages2)
  BY <1>1, <1>3 DEF Image, Leaves
<1>5. Shared(m2, pages2)
  BY <1>1 DEF Image, Shared
<1>6. /\ \A e \in Dims : HoldersOf(m2, pages2, e) = HoldersOf(m, pages, e)
      /\ HoldersOf(m, pages, d) = {}
  BY <1>3 DEF HoldersOf
<1>7. Counted(m2, pages2, held \cup {d})
  <2> SUFFICES ASSUME NEW e \in Dims
               PROVE  Cardinality(HoldersOf(m, pages, e))
                        + (IF e \in held \cup {d} THEN 1 ELSE 0) <= m2.dedup[e].count
    BY <1>6 DEF Counted
  <2>1. Cardinality(HoldersOf(m, pages, e)) + (IF e \in held THEN 1 ELSE 0) <= m.dedup[e].count
    BY DEF Image, Counted
  <2>2. CASE e = d
    <3>1. Cardinality(HoldersOf(m, pages, e)) = 0
      BY <1>6, <2>2, FS_EmptySet
    <3> QED
      BY <1>1, <2>2, <3>1
  <2>3. CASE e # d
    BY <1>1, <2>1, <2>3
  <2> QED
    BY <2>2, <2>3
<1> QED
  BY <1>2, <1>4, <1>5, <1>7 DEF Image

\* write_particle_data: the new leaf takes over the references of the particle
\* being written.
LEMMA ImageIndexes ==
  ASSUME NEW m, m.index \in Indexes, m.dedup \in DedupTables,
         NEW pages, NEW id \in Ids, NEW at,
         \A d \in Dims : at[d] # 0 => m.dedup[d].block = at[d],
         Image(m, pages, {d \in Dims : at[d] # 0}),
         NEW new, new # 0, new \notin m.used,
         NEW m2, m2.index[id] = new, \A i \in Ids : i # id => m2.index[i] = m.index[i],
         m2.used = m.used \cup {new}, m2.sb = m.sb, m2.dedup = m.dedup,
         NEW pages2, pages2[new] = LeafPage(id, at), \A b \in m.used : pages2[b] = pages[b]
  PROVE  Image(m2, pages2, {})
<1>1. m2.index[id] = new /\ \A i \in Ids : i # id => m2.index[i] = m.index[i]
  OBVIOUS
<1>2. pages2[new].kind = "leaf" /\ pages2[new].id = id /\ pages2[new].at = at
  BY DEF LeafPage
<1>3. Tables(m2, pages2)
  BY DEF Image, Tables
<1>4. \A i \in Ids : m.index[i] # 0 =>
        m.index[i] \in m.used /\ pages2[m.index[i]] = pages[m.index[i]]
  BY DEF Image, Leaves
<1>5. Leaves(m2, pages2)
  BY <1>1, <1>2, <1>4 DEF Image, Leaves
<1>6. Shared(m2, pages2)
  BY DEF Image, Shared
<1>7. Counted(m2, pages2, {})
  <2> SUFFICES ASSUME NEW d \in Dims
               PROVE  Cardinality(HoldersOf(m2, pages2, d)) <= m.dedup[d].count
    BY Holders DEF Counted
  <2> DEFINE before == HoldersOf(m, pages, d)
             after == HoldersOf(m2, pages2, d)
  <2>1. Cardinality(before) + (IF at[d] # 0 THEN 1 ELSE 0) <= m.dedup[d].count
    BY DEF Image, Counted
  <2>2. /\ IsFiniteSet(before) /\ Cardinality(before) \in Nat
        /\ IsFiniteSet(after) /\ Cardinality(after) \in Nat
        /\ m.dedup[d].count \in Nat
    BY Holders DEF DedupTables
  <2>3. \A i \in after : i = id \/ i \in before
    BY <1>1, <1>4 DEF HoldersOf
  <2>4. id \in after => at[d] # 0
    BY <1>1, <1>2 DEF HoldersOf
  <2> HIDE DEF before, after
  <2>5. CASE at[d] # 0
    <3>1. after \subseteq before \cup {id}
      BY <2>3
    <3>2. IsFiniteSet(before \cup {id}) /\ Cardinality(before \cup {id}) <= Cardinality(before) + 1
          /\ Cardinality(before \cup {id}) \in Nat
      <4>1. /\ IsFiniteSet(before \cup {id})
            /\ Cardinality(before \cup {id}) =
                 IF id \in before THEN Cardinality(before) ELSE Cardinality(before) + 1
        BY <2>2, FS_AddElement
      <4> QED
        BY <2>2, <4>1
    <3>3. Cardinality(after) <= Cardinality(before \cup {id})
      BY <3>1, <3>2, FS_Subset
    <3> QED
      BY <2>1, <2>2, <2>5, <3>2, <3>3 DEF after
  <2>6. CASE at[d] = 0
    <3>1. after \subseteq before
      BY <2>3, <2>4, <2>6
    <3>2. Cardinality(after) <= Cardinality(before)
      BY <2>2, <3>1, FS_Subset
    <3> QED
      BY <2>1, <2>2, <2>6, <3>2 DEF after
  <2> QED
    BY <2>5, <2>6
<1> QED
  BY <1>3, <1>5, <1>6, <1>7 DEF Image

\* In a good image a page is shared by one dimension only.
LEMMA ImageSharesOnce ==
  ASSUME NEW m, NEW pages, NEW held, Image(m, pages, held)
  PROVE  SharedOnce(m)
<1>1. \A d \in Dims : m.dedup[d].block # 0 => pages[m.dedup[d].block] = DimPage(d)
  BY DEF Image, Shared
<1>2. \A d, e \in Dims : DimPage(d) = DimPage(e) => d = e
  BY DEF DimPage
<1> QED
  BY <1>1, <1>2 DEF SharedOnce

\* delete gives back the leaf of the particle and one reference to each of its
\* pages; a page goes when that was the last one.
LEMMA ImageDeletes ==
  ASSUME NEW m \in Stores, NEW pages, Image(m, pages, {}), NEW id \in Ids,
         NEW blocks \in SUBSET Blocks,
         \A b : b \in blocks <=> m.index[id] # 0 /\ b # 0
                                  /\ \E d \in Dims : pages[m.index[id]].at[d] = b,
         NEW m2, m2.index = [m.index EXCEPT ![id] = 0],
         m2.used = Shed(m, blocks).used \ {m.index[id]},
         m2.sb = m.sb, m2.dedup = Shed(m, blocks).dedup
  PROVE  Image(m2, pages, {})
<1> DEFINE H(d) == HoldersOf(m, pages, d)
           leaf(i) == pages[m.index[i]]
<1>1. /\ m2.used = (m.used \ {b \in blocks : Unshared(m, b)}) \ {m.index[id]}
      /\ m2.dedup = [d \in Dims |->
                       IF m.dedup[d].block \notin blocks THEN m.dedup[d]
                       ELSE IF m.dedup[d].count <= 1 THEN NoDedup[d]
                       ELSE [block |-> m.dedup[d].block, count |-> m.dedup[d].count - 1]]
  BY DEF Shed, With
<1>2. /\ m2.index[id] = 0 /\ \A i \in Ids : i # id => m2.index[i] = m.index[i]
      /\ \A d \in Dims : m.dedup[d] \in [block : Pointers, count : Nat]
      /\ \A d \in Dims : NoDedup[d].block = 0 /\ NoDedup[d].count = 0
      /\ 0 \notin blocks
  BY DEF Stores, Indexes, DedupTables, NoDedup, Blocks
<1>3. /\ \A i \in Ids : m.index[i] # 0 =>
           /\ m.index[i] \in m.used /\ leaf(i).kind = "leaf" /\ leaf(i).id = i
           /\ \A d \in Dims : leaf(i).at[d] # 0 => m.dedup[d].block = leaf(i).at[d]
      /\ \A d \in Dims : m.dedup[d].block # 0 =>
           m.dedup[d].block \in m.used /\ pages[m.dedup[d].block].kind = "dim"
      /\ \A d, e \in Dims : m.dedup[d].block # 0 /\ m.dedup[d].block = m.dedup[e].block => d = e
      /\ \A d \in Dims : Cardinality(H(d)) <= m.dedup[d].count
  <2>1. \A d \in Dims : DimPage(d).kind = "dim"
    BY DEF DimPage
  <2>2. \A d \in Dims : Cardinality(H(d)) <= m.dedup[d].count
    <3> SUFFICES ASSUME NEW d \in Dims PROVE Cardinality(H(d)) <= m.dedup[d].count
      OBVIOUS
    <3>1. Cardinality(H(d)) + 0 <= m.dedup[d].count
      BY DEF Image, Counted
    <3> QED
      BY <3>1, Holders
  <2> QED
    BY <2>1, <2>2, ImageSharesOnce DEF Image, Leaves, Shared, SharedOnce
<1>4. \A d \in Dims : m.dedup[d].block \in blocks <=> id \in H(d)
  <2> SUFFICES ASSUME NEW d \in Dims PROVE m.dedup[d].block \in blocks <=> id \in H(d)
    OBVIOUS
  <2>1. id \in H(d) <=> m.index[id] # 0 /\ leaf(id).at[d] # 0
    BY DEF HoldersOf
  <2>2. ASSUME id \in H(d) PROVE m.dedup[d].block \in blocks
    BY <1>3, <2>1, <2>2
  <2>3. ASSUME m.dedup[d].block \in blocks PROVE id \in H(d)
    <3>1. m.index[id] # 0 /\ m.dedup[d].block # 0
      BY <2>3
    <3>2. PICK e \in Dims : leaf(id).at[e] = m.dedup[d].block
      BY <2>3
    <3>3. m.dedup[e].block = m.dedup[d].block
      BY <1>3, <3>1, <3>2
    <3>4. d = e
      BY <1>3, <3>1, <3>3
    <3> QED
      BY <2>1, <3>1, <3>2, <3>4
  <2> QED
    BY <2>2, <2>3
<1>5. \A b \in blocks : pages[b].kind = "dim"
  BY <1>2, <1>3
<1>6. \A d \in Dims : HoldersOf(m2, pages, d) = H(d) \ {id}
  BY <1>2 DEF HoldersOf
<1>7. \A d \in Dims : /\ IsFiniteSet(H(d)) /\ Cardinality(H(d)) \in Nat
                      /\ Cardinality(H(d) \ {id}) =
                           IF id \in H(d) THEN Cardinality(H(d)) - 1 ELSE Cardinality(H(d))
  BY Holders, FS_RemoveElement
<1>8. Tables(m2, pages)
  <2> SUFFICES ASSUME NEW b \in m.used, pages[b].kind \in {"index", "dedup"}
               PROVE  b \in m2.used
    BY DEF Image, Tables
  <2>1. b \notin blocks
    BY <1>5
  <2>2. b # m.index[id]
    <3>1. CASE m.index[id] = 0
      BY <3>1 DEF Stores, Blocks
    <3>2. CASE m.index[id] # 0
      BY <1>3, <3>2
    <3> QED
      BY <3>1, <3>2
  <2> QED
    BY <1>1, <2>1, <2>2
<1>9. Leaves(m2, pages)
  <2> SUFFICES ASSUME NEW i \in Ids, m2.index[i] # 0
               PROVE  LET l == pages[m2.index[i]]
                      IN  /\ m2.index[i] \in m2.used
                          /\ l.kind = "leaf" /\ l.id = i
                          /\ \A d \in Dims : l.at[d] # 0 => m2.dedup[d].block = l.at[d]
    BY DEF Leaves
  <2>1. i # id /\ m2.index[i] = m.index[i]
    BY <1>2
  <2>2. m.index[i] \in m2.used
    <3>1. m.index[i] \in m.used /\ m.index[i] \notin blocks
      BY <1>3, <1>5, <2>1
    <3>2. m.index[i] # m.index[id]
      BY <1>3, <2>1
    <3> QED
      BY <1>1, <3>1, <3>2
  <2>3. ASSUME NEW d \in Dims, leaf(i).at[d] # 0 PROVE m2.dedup[d].block = leaf(i).at[d]
    <3>1. m.dedup[d].block = leaf(i).at[d]
      BY <1>3, <2>1, <2>3
    <3>2. CASE m.dedup[d].block \notin blocks
      BY <1>1, <3>1, <3>2
    <3>3. CASE m.dedup[d].block \in blocks
      <4>1. id \in H(d) /\ i \in H(d) \ {id}
        BY <1>4, <2>1, <2>3, <3>3 DEF HoldersOf
      <4>2. Cardinality(H(d) \ {id}) = Cardinality(H(d)) - 1 /\ Cardinality(H(d)) \in Nat
        BY <1>7, <4>1
      <4>3. Cardinality(H(d) \ {id}) # 0 /\ Cardinality(H(d) \ {id}) \in Nat
        <5>1. IsFiniteSet(H(d) \ {id})
          BY <1>7, FS_RemoveElement
        <5> QED
          BY <4>1, <5>1, FS_EmptySet, FS_CardinalityType
      <4>4. ~ (m.dedup[d].count <= 1)
        BY <1>2, <1>3, <4>2, <4>3
      <4> QED
        BY <1>1, <3>1, <3>3, <4>4
    <3> QED
      BY <3>2, <3>3
  <2> QED
    BY <1>3, <2>1, <2>2, <2>3
<1>10. Shared(m2, pages)
  <2> SUFFICES ASSUME NEW d \in Dims, m2.dedup[d].block # 0
               PROVE  m2.dedup[d].block \in m2.used /\ pages[m2.dedup[d].block] = DimPage(d)
    BY DEF Shared
  <2> DEFINE b == m.dedup[d].block
  <2>1. m2.dedup[d].block = b /\ (b \in blocks => m.dedup[d].count > 1)
    <3>1. CASE b \notin blocks
      BY <1>1, <3>1
    <3>2. CASE b \in blocks /\ m.dedup[d].count <= 1
      BY <1>1, <1>2, <3>2
    <3>3. CASE b \in blocks /\ ~ (m.dedup[d].count <= 1)
      BY <1>1, <1>2, <3>3
    <3> QED
      BY <3>1, <3>2, <3>3
  <2>2. b \in m.used /\ pages[b] = DimPage(d) /\ pages[b].kind = "dim"
    BY <1>3, <2>1 DEF Image, Shared
  <2>3. b \notin {x \in blocks : Unshared(m, x)}
    BY <1>2, <2>1 DEF Unshared
  <2>4. b # m.index[id]
    <3>1. CASE m.index[id] = 0
      BY <2>1, <3>1
    <3>2. CASE m.index[id] # 0
      BY <1>3, <2>2, <3>2
    <3> QED
      BY <3>1, <3>2
  <2> QED
    BY <1>1, <2>1, <2>2, <2>3, <2>4
<1>11. Counted(m2, pages, {})
  <2> SUFFICES ASSUME NEW d \in Dims
               PROVE  Cardinality(H(d) \ {id}) <= m2.dedup[d].count
    <3>1. \A d \in Dims : Cardinality(HoldersOf(m2, pages, d)) + 0 <= m2.dedup[d].count
      BY <1>6, Holders
    <3> QED
      BY <3>1 DEF Counted
  <2>1. Cardinality(H(d)) <= m.dedup[d].count /\ Cardinality(H(d)) \in Nat
        /\ m.dedup[d].count \in Nat
    BY <1>2, <1>3, <1>7
  <2>2. CASE m.dedup[d].block \notin blocks
    <3>1. m2.dedup[d] = m.dedup[d] /\ id \notin H(d)
      BY <1>1, <1>4, <2>2
    <3> QED
      BY <1>7, <2>1, <3>1
  <2>3. CASE m.dedup[d].block \in blocks
    <3>1. Cardinality(H(d) \ {id}) = Cardinality(H(d)) - 1
      BY <1>4, <1>7, <2>3
    <3>2. CASE m.dedup[d].count <= 1
      <4>1. m2.dedup[d].count = 0
        BY <1>1, <1>2, <2>3, <3>2
      <4> QED
        BY <2>1, <3>1, <3>2, <4>1
    <3>3. CASE ~ (m.dedup[d].count <= 1)
      <4>1. m2.dedup[d].count = m.dedup[d].count - 1
        BY <1>1, <2>3, <3>3
      <4> QED
        BY <2>1, <3>1, <4>1
    <3> QED
      BY <3>2, <3>3
  <2> QED
    BY <2>2, <2>3
<1> QED
  BY <1>8, <1>9, <1>10, <1>11 DEF Image

\* Deleted as a whole.
LEMMA DeletedIs ==
  ASSUME mem \in Stores, disk \in Disks, Image(mem, disk.pages, {}), NEW id \in Ids
  PROVE  LET m == Deleted(mem, id)
         IN  /\ m \in Stores /\ Image(m, disk.pages, {})
             /\ m.index = [mem.index EXCEPT ![id] = 0]
             /\ m.store = [mem.store EXCEPT ![id] = None]
             /\ m.modified = mem.modified \ {id}
             /\ m.sb = mem.sb
             /\ mem.dedup = NoDedup => m.dedup = NoDedup
             /\ \E blocks \in SUBSET Blocks :
                  /\ \A b : b \in blocks <=>
                           mem.index[id] # 0 /\ b # 0
                             /\ \E d \in Dims : disk.pages[mem.index[id]].at[d] = b
                  /\ m.used = Shed(mem, blocks).used \ {mem.index[id]}
                  /\ m.dedup = Shed(mem, blocks).dedup
<1> DEFINE leaf == mem.index[id]
           blocks == IF IsLeaf(leaf) THEN {Page(leaf).at[d] : d \in Dims} \ {0} ELSE {}
           shed == Shed(mem, blocks)
           m == Deleted(mem, id)
<1>1. /\ mem \in Stores /\ leaf \in Pointers /\ disk.pages \in [Blocks -> Pages]
      /\ mem.dedup \in DedupTables
  BY DEF Disks, Stores, Indexes
<1>2. /\ IsLeaf(leaf) <=> leaf # 0
      /\ leaf # 0 => Page(leaf) = disk.pages[leaf]
  BY DEF IsLeaf, Page, NoPage, Image, Leaves
<1>3. leaf # 0 => \A d \in Dims : disk.pages[leaf].at[d] # 0 => disk.pages[leaf].at[d] \in Blocks
  <2> SUFFICES ASSUME leaf # 0, NEW d \in Dims, disk.pages[leaf].at[d] # 0
               PROVE  disk.pages[leaf].at[d] \in Blocks
    OBVIOUS
  <2>1. mem.dedup[d].block = disk.pages[leaf].at[d]
    BY DEF Image, Leaves
  <2>2. mem.dedup[d].block \in Pointers
    BY <1>1 DEF DedupTables
  <2> QED
    BY <2>1, <2>2 DEF Pointers
<1>4. /\ blocks \in SUBSET Blocks
      /\ \A b : b \in blocks <=> mem.index[id] # 0 /\ b # 0
                                 /\ \E d \in Dims : disk.pages[mem.index[id]].at[d] = b
  BY <1>2, <1>3
<1> HIDE DEF blocks
<1>5. FoldSet(LAMBDA b, acc : DimensionFreed(acc, b), mem, blocks) = shed
  BY <1>1, <1>4, ShedAll, ImageSharesOnce
<1>6. m = [shed EXCEPT !.used = @ \ {leaf}, !.index[id] = 0,
                       !.store[id] = None, !.modified = @ \ {id}]
  BY Zenon, <1>5 DEF Deleted, blocks
<1>7. shed = With(mem, shed.used, shed.dedup)
  BY DEF Shed, With
<1>8. m = [store |-> [mem.store EXCEPT ![id] = None], modified |-> mem.modified \ {id},
           index |-> [mem.index EXCEPT ![id] = 0],
           dedup |-> shed.dedup, used |-> shed.used \ {leaf}, sb |-> mem.sb]
  <2> HIDE DEF shed, m, leaf
  <2> DEFINE u == shed.used
             t == shed.dedup
             w == With(mem, u, t)
  <2> HIDE DEF u, t
  <2>1. m = [w EXCEPT !.used = @ \ {leaf}, !.index[id] = 0,
                      !.store[id] = None, !.modified = @ \ {id}]
    BY <1>6, <1>7 DEF u, t
  <2>2. m = [store |-> [mem.store EXCEPT ![id] = None], modified |-> mem.modified \ {id},
             index |-> [mem.index EXCEPT ![id] = 0],
             dedup |-> t, used |-> u \ {leaf}, sb |-> mem.sb]
    BY <2>1 DEF With
  <2> QED
    BY <2>2 DEF u, t
<1>9. shed.used \in SUBSET Blocks /\ shed.dedup \in DedupTables
  <2>1. shed.used \in SUBSET Blocks
    BY <1>1 DEF Shed, With, Stores
  <2>2. shed.dedup = [d \in Dims |->
                        IF mem.dedup[d].block \notin blocks THEN mem.dedup[d]
                        ELSE IF mem.dedup[d].count <= 1 THEN NoDedup[d]
                        ELSE [block |-> mem.dedup[d].block, count |-> mem.dedup[d].count - 1]]
    BY DEF Shed, With
  <2>3. ASSUME NEW d \in Dims
        PROVE  /\ mem.dedup[d] \in [block : Pointers, count : Nat]
               /\ NoDedup[d] \in [block : Pointers, count : Nat]
               /\ ~ (mem.dedup[d].count <= 1) =>
                    [block |-> mem.dedup[d].block, count |-> mem.dedup[d].count - 1]
                      \in [block : Pointers, count : Nat]
    BY <1>1 DEF DedupTables, NoDedup, Pointers
  <2>4. ASSUME NEW d \in Dims
        PROVE  shed.dedup[d].block # 0 => shed.dedup[d].count # 0
    <3>1. \/ shed.dedup[d] = mem.dedup[d] \/ shed.dedup[d] = NoDedup[d]
          \/ ~ (mem.dedup[d].count <= 1) /\ shed.dedup[d].count = mem.dedup[d].count - 1
      BY <2>2
    <3>2. mem.dedup[d].block # 0 => mem.dedup[d].count # 0
      BY <1>1 DEF DedupTables
    <3>3. NoDedup[d].block = 0 /\ mem.dedup[d].count \in Nat
      BY <1>1 DEF NoDedup, DedupTables
    <3> QED
      BY <3>1, <3>2, <3>3
  <2>5. shed.dedup \in [Dims -> [block : Pointers, count : Nat]]
    BY <2>2, <2>3
  <2> QED
    BY <2>1, <2>4, <2>5 DEF DedupTables
<1>10. mem.dedup = NoDedup => shed.dedup = NoDedup
  <2> SUFFICES ASSUME mem.dedup = NoDedup PROVE shed.dedup = NoDedup
    OBVIOUS
  <2>1. \A d \in Dims : mem.dedup[d].block \notin blocks
    BY <1>4 DEF NoDedup
  <2>2. shed.dedup = [d \in Dims |-> mem.dedup[d]]
    BY <2>1 DEF Shed, With
  <2> QED
    BY <1>1, <2>2 DEF DedupTables
<1> HIDE DEF shed, m
<1>11. m \in Stores
  BY <1>1, <1>8, <1>9 DEF Stores, Indexes, Pointers
<1>12. Image(m, disk.pages, {})
  <2>1. /\ m.index = [mem.index EXCEPT ![id] = 0] /\ m.used = Shed(mem, blocks).used \ {mem.index[id]}
        /\ m.sb = mem.sb /\ m.dedup = Shed(mem, blocks).dedup
    BY <1>8 DEF shed
  <2> QED
    BY <1>1, <1>4, <2>1, ImageDeletes
<1>13. m.used = Shed(mem, blocks).used \ {mem.index[id]} /\ m.dedup = Shed(mem, blocks).dedup
  BY <1>8 DEF shed
<1> QED
  BY <1>4, <1>8, <1>10, <1>11, <1>12, <1>13 DEF m

-----------------------------------------------------------------------------
(* Calls of the store *)

\* The image is a matter of the index, the dedup table, the blocks and the
\* pointers.
LEMMA ImageSame ==
  ASSUME NEW m, NEW pages, NEW held, Image(m, pages, held),
         NEW m2, m2.index = m.index, m2.dedup = m.dedup, m2.used = m.used, m2.sb = m.sb
  PROVE  Image(m2, pages, held)
<1>1. Tables(m2, pages)
  BY DEF Image, Tables
<1> QED
  BY <1>1, ImageKept

\* The journal as it was.
LEMMA JournalSame ==
  ASSUME JournalGood, UNCHANGED <<journal, log>>
  PROVE  JournalGood'
BY DEF JournalGood, Wal!HeadersOf, Wal!Headers

\* What the file holds is good as long as it is not written, whatever is
\* deleted meanwhile.
LEMMA FileKept ==
  ASSUME FileGood, UNCHANGED disk, \A id \in Ids : expected'[id] \in {None, expected[id]}
  PROVE  FileGood'
<1>1. FileImage' = FileImage
  BY DEF FileImage, ReadIndex, ReadDedup, Page
<1>2. Image(FileImage, disk.pages, {})'
  BY <1>1 DEF FileGood, Image, Tables, Leaves, Shared, Counted, HoldersOf
<1>3. Saved(FileImage.index, disk.pages, {})'
  <2> DEFINE index == FileImage.index
  <2>1. FileImage'.index = index
    BY <1>1
  <2>2. \A id \in Ids : expected[id] # None =>
          index[id] # 0 /\ {d \in Dims : disk.pages[index[id]].at[d] # 0} = expected[id]
    BY DEF FileGood, Saved
  <2> HIDE DEF index
  <2>3. \A id \in Ids : expected'[id] # None =>
          index[id] # 0 /\ {d \in Dims : disk.pages[index[id]].at[d] # 0} = expected'[id]
    BY <2>2
  <2>4. disk'.pages = disk.pages
    OBVIOUS
  <2> QED
    BY <2>1, <2>3, <2>4 DEF Saved
<1> QED
  BY <1>2, <1>3 DEF FileGood

\* Between syncs no particle is half-written.
LEMMA Idle ==
  ASSUME WorkGood, pc \notin {"particles", "compact"}
  PROVE  todo = {} /\ work = None /\ Held = {}
BY DEF WorkGood, Held

\* A write that could be logged.
LEMMA LoggedWriteKeeps ==
  ASSUME Live, pc \in {"ready", "retry"}, NEW op \in Writes, LoggedWrite(op),
         UNCHANGED <<disk, work>>, pending' = None \/ (pc = "ready" /\ UNCHANGED pending)
  PROVE  Live' /\ (Lasting => Lasting')
<1>1. PICK id \in Ids, c \in Contents : op = WriteOp(id, c)
  BY DEF Writes
<1>2. op \in Ops /\ op.id = id /\ op.content = c /\ c \in SUBSET Dims /\ c # None
  BY <1>1, PersistAssumption DEF Ops, WriteOp
<1>3. /\ JournalGood'
      /\ journal' \in [0 .. JournalCells - 1 ->
                         Wal!Headers \cup [of : Ops, piece : Nat] \cup {Blank}]
      /\ log' \in [offset : 0 .. JournalCells, sequence : Nat, entries : Nat]
      /\ log'.entries = log.entries + 1
  BY <1>2, JournalLogged DEF Live, PersistTypes, JournalTypes, LoggedWrite
<1>4. mem \in Stores /\ log.entries \in Nat /\ expected \in [Ids -> (SUBSET Dims) \cup {None}]
  BY DEF Live, PersistTypes
<1>5. log'.entries # 0
  BY <1>3, <1>4
<1>6. /\ mem' = [mem EXCEPT !.store[id] = c, !.modified = @ \cup {id}]
      /\ expected' = [expected EXCEPT ![id] = c]
      /\ pc' \in {"ready", "particles"}
      /\ pc' = "particles" => todo' = mem'.modified
      /\ pc' = "ready" => todo' = {}
  BY <1>2 DEF LoggedWrite
<1>7. /\ mem' \in Stores
      /\ mem'.store = [mem.store EXCEPT ![id] = c] /\ mem'.modified = mem.modified \cup {id}
      /\ mem'.index = mem.index /\ mem'.dedup = mem.dedup /\ mem'.used = mem.used
      /\ mem'.sb = mem.sb
  BY <1>2, <1>4, <1>6 DEF Stores
<1>8. todo = {} /\ work = None /\ Held = {} /\ Held' = {}
  BY Idle DEF Live, Held
<1>9. PersistTypes' /\ pending' = None
  <2>1. pending' = None
    BY DEF Live, Progress
  <2> QED
    BY <1>2, <1>3, <1>4, <1>6, <1>7, <2>1, PersistAssumption
       DEF Live, PersistTypes, SyncStates, Stores
<1>10. Running /\ StoreGood /\ Dirty = mem.modified
  BY DEF Live, Running, Dirty
<1>11. StoreGood'
  <2>1. Image(mem', disk.pages, {})
    BY <1>7, <1>8, <1>10, ImageSame DEF StoreGood
  <2>2. Image(mem, disk.pages, Held)'
    BY <1>8, <2>1 DEF Image, Tables, Leaves, Shared, Counted, HoldersOf
  <2>3. /\ expected'[id] = c /\ mem'.store[id] = c
        /\ \A i \in Ids : i # id => expected'[i] = expected[i] /\ mem'.store[i] = mem.store[i]
    BY <1>4, <1>6, <1>7 DEF Stores
  <2>4. \A i \in Ids : expected'[i] # None => mem'.store[i] \in {None, expected'[i]}
    BY <1>10, <2>3 DEF StoreGood
  <2>5. Dirty' = mem.modified \cup {id}
    BY <1>6, <1>7 DEF Dirty
  <2>6. Saved(mem.index, disk.pages, Dirty)'
    <3> SUFFICES ASSUME NEW i \in Ids \ Dirty', expected'[i] # None
                 PROVE  /\ mem'.index[i] # 0
                        /\ {d \in Dims : disk'.pages[mem'.index[i]].at[d] # 0} = expected'[i]
      BY DEF Saved
    <3>1. i # id /\ i \in Ids \ Dirty
      BY <1>10, <2>5
    <3> QED
      BY <1>7, <1>10, <2>3, <3>1 DEF StoreGood, Saved
  <2>7. \A i \in mem'.modified : mem'.store[i] # None /\ mem'.store[i] = expected'[i]
    <3>1. mem.modified \subseteq Ids
      BY <1>4 DEF Stores
    <3> QED
      BY <1>2, <1>7, <1>10, <2>3, <3>1 DEF StoreGood
  <2> QED
    BY <2>2, <2>4, <2>6, <2>7 DEF StoreGood
<1>12. WorkGood'
  BY <1>6, <1>8 DEF WorkGood
<1>13. Progress' /\ Filed'
  BY <1>5, <1>6, <1>9 DEF Progress, Syncing, Filed
<1>14. Beginnings => Beginnings'
  BY <1>5, <1>6, <1>7, <1>10 DEF Beginnings, Running
<1> QED
  BY <1>3, <1>9, <1>11, <1>12, <1>13, <1>14 DEF Live, Lasting

\* The store as it was.
LEMMA StoreSame ==
  ASSUME StoreGood, UNCHANGED <<mem, disk, expected>>, Held' = Held, Dirty' = Dirty
  PROVE  StoreGood'
<1>1. Image(mem, disk.pages, Held)'
  BY DEF StoreGood, Image, Tables, Leaves, Shared, Counted, HoldersOf
<1>2. Saved(mem.index, disk.pages, Dirty)'
  BY DEF StoreGood, Saved
<1> QED
  BY <1>1, <1>2 DEF StoreGood

\* A sync begins, called for or by a write that found the journal full.
LEMMA SyncStarts ==
  ASSUME Live, pc = "ready", pc' = "particles", todo' = mem.modified,
         UNCHANGED <<mem, disk, journal, log, work, expected>>,
         pending' \in Ops => pending' \in Writes
  PROVE  Live' /\ (Lasting => Lasting')
<1>1. todo = {} /\ work = None /\ Held = {} /\ Held' = {}
  BY Idle DEF Live, Held
<1>2. Running /\ StoreGood /\ Running'
  BY DEF Live, Running
<1>3. PersistTypes'
  BY DEF Live, PersistTypes, SyncStates, Stores
<1>4. StoreGood'
  <2>1. Dirty = mem.modified /\ Dirty' = mem.modified
    BY DEF Dirty
  <2> QED
    BY <1>1, <1>2, <2>1, StoreSame
<1>5. WorkGood'
  BY <1>1 DEF WorkGood
<1>6. Progress' /\ Filed'
  BY DEF Live, Progress, Syncing, Filed
<1>7. Beginnings => Beginnings'
  BY <1>2 DEF Beginnings, Running
<1>8. JournalGood'
  BY JournalSame DEF Live
<1> QED
  BY <1>3, <1>4, <1>5, <1>6, <1>7, <1>8 DEF Live, Lasting

\* The second try of a write fails as well.
LEMMA RetryFails ==
  ASSUME Live, pc = "retry", pc' = "ready", pending' = None,
         UNCHANGED <<mem, disk, journal, log, todo, work, expected>>
  PROVE  Live' /\ (Lasting => Lasting')
<1>1. todo = {} /\ work = None /\ Held = {} /\ Held' = {}
  BY Idle DEF Live, Held
<1>2. Running /\ StoreGood /\ Running'
  BY DEF Live, Running
<1>3. PersistTypes'
  BY PersistAssumption DEF Live, PersistTypes, Stores
<1>4. StoreGood'
  <2>1. Dirty = mem.modified /\ Dirty' = mem.modified
    BY DEF Dirty
  <2> QED
    BY <1>1, <1>2, <2>1, StoreSame
<1>5. WorkGood'
  BY <1>1 DEF WorkGood
<1>6. Progress'
  BY DEF Live, Progress, Syncing
<1>7. Lasting => Lasting'
  <2>1. Filed => Filed'
    <3>1. Filed => FileGood'
      BY FileKept DEF Live, Progress, Syncing, Filed, PersistTypes
    <3> QED
      BY <3>1 DEF Filed
  <2>2. Beginnings => Beginnings'
    BY <1>2 DEF Beginnings, Running
  <2> QED
    BY <2>1, <2>2 DEF Lasting
<1>8. JournalGood'
  BY JournalSame DEF Live
<1> QED
  BY <1>3, <1>4, <1>5, <1>6, <1>7, <1>8 DEF Live

\* A delete, logged or not.
LEMMA DeleteKeeps ==
  ASSUME Live, NEW id \in Ids, Delete(id)
  PROVE  Live' /\ (Lasting => Lasting')
<1> DEFINE m == Deleted(mem, id)
<1>1. pc = "ready" /\ mem' = m /\ expected' = [expected EXCEPT ![id] = None]
      /\ UNCHANGED <<disk, pc, todo, work, pending>>
  BY DEF Delete, Called
<1>2. todo = {} /\ work = None /\ Held = {} /\ Held' = {}
  BY <1>1, Idle DEF Live, Held
<1>3. Running /\ StoreGood /\ Running' /\ Image(mem, disk.pages, {})
  BY <1>1, <1>2 DEF Live, Running, StoreGood
<1>4. /\ m \in Stores /\ Image(m, disk.pages, {})
      /\ m.index = [mem.index EXCEPT ![id] = 0]
      /\ m.store = [mem.store EXCEPT ![id] = None]
      /\ m.modified = mem.modified \ {id}
      /\ m.sb = mem.sb
      /\ mem.dedup = NoDedup => m.dedup = NoDedup
  BY <1>3, DeletedIs DEF Live, PersistTypes, Disks
<1> HIDE DEF m
<1>5. \/ /\ JournalGood'
         /\ journal' \in [0 .. JournalCells - 1 ->
                            Wal!Headers \cup [of : Ops, piece : Nat] \cup {Blank}]
         /\ log' \in [offset : 0 .. JournalCells, sequence : Nat, entries : Nat]
         /\ log'.entries = log.entries + 1
      \/ UNCHANGED <<journal, log>>
  <2>1. DeleteOp(id) \in Ops
    BY DEF Ops
  <2> QED
    BY <2>1, JournalLogged DEF Live, PersistTypes, JournalTypes, Delete
<1>6. log.entries \in Nat /\ expected \in [Ids -> (SUBSET Dims) \cup {None}] /\ mem \in Stores
  BY DEF Live, PersistTypes
<1>7. /\ expected'[id] = None /\ mem'.store[id] = None
      /\ \A i \in Ids : i # id => /\ expected'[i] = expected[i] /\ mem'.store[i] = mem.store[i]
                                  /\ mem'.index[i] = mem.index[i]
  BY <1>1, <1>4, <1>6 DEF Stores, Indexes
<1>8. PersistTypes'
  <2>1. /\ journal' \in [0 .. JournalCells - 1 ->
                           Wal!Headers \cup [of : Ops, piece : Nat] \cup {Blank}]
        /\ log' \in [offset : 0 .. JournalCells, sequence : Nat, entries : Nat]
    BY <1>5 DEF Live, PersistTypes
  <2>2. expected' \in [Ids -> (SUBSET Dims) \cup {None}]
    BY <1>1, <1>6
  <2>3. Wal!Headers' = Wal!Headers
    BY DEF Wal!Headers
  <2> QED
    BY <1>1, <1>4, <2>1, <2>2, <2>3 DEF Live, PersistTypes
<1>9. StoreGood'
  <2>1. Image(mem, disk.pages, Held)'
    BY <1>1, <1>2, <1>4 DEF Image, Tables, Leaves, Shared, Counted, HoldersOf
  <2>2. \A i \in Ids : expected'[i] # None => mem'.store[i] \in {None, expected'[i]}
    BY <1>3, <1>7 DEF StoreGood
  <2>3. Saved(mem.index, disk.pages, Dirty)'
    <3> SUFFICES ASSUME NEW i \in Ids \ Dirty', expected'[i] # None
                 PROVE  /\ mem'.index[i] # 0
                        /\ {d \in Dims : disk'.pages[mem'.index[i]].at[d] # 0} = expected'[i]
      BY DEF Saved
    <3>1. i # id /\ i \in Ids \ Dirty
      BY <1>1, <1>4, <1>7 DEF Dirty
    <3> QED
      BY <1>1, <1>3, <1>7, <3>1 DEF StoreGood, Saved
  <2>4. \A i \in mem'.modified : mem'.store[i] # None /\ mem'.store[i] = expected'[i]
    BY <1>1, <1>3, <1>4, <1>6, <1>7 DEF StoreGood, Stores
  <2> QED
    BY <2>1, <2>2, <2>3, <2>4 DEF StoreGood
<1>10. WorkGood'
  BY <1>1, <1>2 DEF WorkGood
<1>11. log'.entries = 0 => log.entries = 0
  BY <1>5, <1>6
<1>12. Progress'
  <2>1. log'.entries = 0 => mem'.modified = {}
    BY <1>1, <1>4, <1>11 DEF Live, Progress
  <2> QED
    BY <1>1, <2>1 DEF Live, Progress, Syncing
<1>13. Filed => Filed'
  <2> SUFFICES ASSUME Filed, log'.entries = 0 PROVE FileGood'
    BY <1>1 DEF Filed
  <2>1. FileGood
    BY <1>1, <1>11 DEF Filed
  <2>2. \A i \in Ids : expected'[i] \in {None, expected[i]}
    BY <1>7
  <2> QED
    BY <1>1, <2>1, <2>2, FileKept
<1>14. Beginnings => Beginnings'
  <2> SUFFICES ASSUME Beginnings PROVE Beginnings'
    OBVIOUS
  <2>1. Running' /\ log'.entries = 0 /\ mem'.sb.index = 0 => \A i \in Ids : expected'[i] = None
    BY <1>1, <1>3, <1>4, <1>7, <1>11 DEF Beginnings
  <2> QED
    BY <1>1, <1>3, <1>4, <1>11, <2>1 DEF Beginnings
<1>15. JournalGood'
  BY <1>5, JournalSame DEF Live
<1> QED
  BY <1>8, <1>9, <1>10, <1>12, <1>13, <1>14, <1>15 DEF Live, Lasting

\* The content of a leaf of the index: no page it names is missing.
LEMMA ContentIs ==
  ASSUME NEW m, NEW held, Image(m, disk.pages, held), NEW id \in Ids, m.index[id] # 0
  PROVE  /\ IsLeaf(m.index[id])
         /\ Page(m.index[id]).id = id
         /\ ContentAt(m.index[id]) = {d \in Dims : disk.pages[m.index[id]].at[d] # 0}
<1> DEFINE leaf == disk.pages[m.index[id]]
<1>1. Page(m.index[id]) = leaf /\ leaf.kind = "leaf" /\ leaf.id = id
  BY DEF Page, Image, Leaves
<1>2. \A d \in Dims : Page(leaf.at[d]) = DimPage(d) <=> leaf.at[d] # 0
  <2> SUFFICES ASSUME NEW d \in Dims PROVE Page(leaf.at[d]) = DimPage(d) <=> leaf.at[d] # 0
    OBVIOUS
  <2>1. CASE leaf.at[d] = 0
    <3>1. NoPage # DimPage(d)
      BY DEF NoPage, DimPage
    <3> QED
      BY <2>1, <3>1 DEF Page
  <2>2. CASE leaf.at[d] # 0
    <3>1. m.dedup[d].block = leaf.at[d]
      BY <2>2 DEF Image, Leaves
    <3>2. disk.pages[leaf.at[d]] = DimPage(d)
      BY <2>2, <3>1 DEF Image, Shared
    <3> QED
      BY <2>2, <3>2 DEF Page
  <2> QED
    BY <2>1, <2>2
<1> HIDE DEF leaf
<1>3. ContentAt(m.index[id]) = {d \in Dims : leaf.at[d] # 0}
  BY <1>1, <1>2 DEF ContentAt
<1> QED
  BY <1>1, <1>3 DEF IsLeaf, leaf

\* A particle that is not in memory is read from its leaf.
LEMMA LoadKeeps ==
  ASSUME Live, NEW id \in Ids, LoadParticle(id)
  PROVE  Live' /\ (Lasting => Lasting')
<1> DEFINE content == ContentAt(mem.index[id])
<1>1. /\ pc = "ready" /\ mem.store[id] = None /\ IsLeaf(mem.index[id])
      /\ UNCHANGED <<disk, pc, todo, work, log, journal, pending, expected>>
  BY DEF LoadParticle, unsynced
<1>2. todo = {} /\ work = None /\ Held = {} /\ Held' = {}
  BY <1>1, Idle DEF Live, Held
<1>3. Running /\ StoreGood /\ Running' /\ Image(mem, disk.pages, {})
  BY <1>1, <1>2 DEF Live, Running, StoreGood
<1>4. mem.index[id] # 0
  BY <1>1 DEF IsLeaf, Page, NoPage
<1>5. /\ Page(mem.index[id]).id = id
      /\ content = {d \in Dims : disk.pages[mem.index[id]].at[d] # 0}
  BY <1>3, <1>4, ContentIs
<1>6. mem' = [mem EXCEPT !.store[id] = content]
  BY <1>5 DEF LoadParticle
<1>7. content \in SUBSET Dims /\ mem \in Stores
  BY <1>5 DEF Live, PersistTypes
<1> HIDE DEF content
<1>8. /\ mem' \in Stores
      /\ mem'.store = [mem.store EXCEPT ![id] = content] /\ mem'.modified = mem.modified
      /\ mem'.index = mem.index /\ mem'.dedup = mem.dedup /\ mem'.used = mem.used
      /\ mem'.sb = mem.sb
  BY <1>6, <1>7 DEF Stores
<1>9. PersistTypes'
  <2>1. Wal!Headers' = Wal!Headers
    BY DEF Wal!Headers
  <2> QED
    BY <1>1, <1>8, <2>1 DEF Live, PersistTypes
<1>10. StoreGood'
  <2>1. Image(mem, disk.pages, Held)'
    BY <1>1, <1>2, <1>3, <1>8, SMTT(30) DEF Image, Tables, Leaves, Shared, Counted, HoldersOf
  <2>2. mem'.store[id] = content /\ \A i \in Ids : i # id => mem'.store[i] = mem.store[i]
    BY <1>7, <1>8 DEF Stores
  <2>3. id \notin mem.modified /\ id \notin Dirty
    BY <1>1, <1>3 DEF StoreGood, Dirty
  <2>4. expected[id] # None => content = expected[id]
    BY <1>3, <1>5, <2>3 DEF StoreGood, Saved
  <2>5. \A i \in Ids : expected'[i] # None => mem'.store[i] \in {None, expected'[i]}
    BY <1>1, <1>3, <2>2, <2>4 DEF StoreGood
  <2>6. Saved(mem.index, disk.pages, Dirty)'
    <3>1. Dirty' = Dirty
      BY <1>1, <1>8 DEF Dirty
    <3> QED
      BY <1>1, <1>3, <1>8, <3>1 DEF StoreGood, Saved
  <2>7. \A i \in mem'.modified : mem'.store[i] # None /\ mem'.store[i] = expected'[i]
    BY <1>1, <1>3, <1>7, <1>8, <2>2, <2>3 DEF StoreGood, Stores
  <2> QED
    BY <2>1, <2>5, <2>6, <2>7 DEF StoreGood
<1>11. WorkGood'
  BY <1>1, <1>2 DEF WorkGood
<1>12. Progress'
  BY <1>1, <1>8 DEF Live, Progress, Syncing
<1>13. Filed => Filed'
  <2>1. Filed /\ log.entries = 0 => FileGood'
    BY <1>1, FileKept DEF Live, PersistTypes, Filed
  <2> QED
    BY <1>1, <2>1 DEF Filed
<1>14. Beginnings => Beginnings'
  BY <1>1, <1>3, <1>8 DEF Beginnings
<1>15. JournalGood'
  BY <1>1, JournalSame DEF Live
<1> QED
  BY <1>9, <1>10, <1>11, <1>12, <1>13, <1>14, <1>15 DEF Live, Lasting

-----------------------------------------------------------------------------
(* The particles of a sync *)

\* A page write.
LEMMA PageWritten ==
  ASSUME disk \in Disks, NEW new \in Blocks, NEW page \in Pages,
         disk' = [disk EXCEPT !.pages[new] = page]
  PROVE  /\ disk' \in Disks
         /\ disk'.pages[new] = page
         /\ \A b \in Blocks : b # new => disk'.pages[b] = disk.pages[b]
         /\ disk'.used = disk.used /\ disk'.sb = disk.sb
BY DEF Disks

\* The image without what the particle being written holds.
LEMMA ImageLess ==
  ASSUME NEW m, m.dedup \in DedupTables, NEW pages, NEW held, Image(m, pages, held)
  PROVE  Image(m, pages, {})
<1>1. \A d \in Dims :
        Cardinality(HoldersOf(m, pages, d)) + (IF d \in held THEN 1 ELSE 0) <= m.dedup[d].count
  BY DEF Image, Counted
<1>2. ASSUME NEW d \in Dims
      PROVE  Cardinality(HoldersOf(m, pages, d)) + 0 <= m.dedup[d].count
  <2> DEFINE n == Cardinality(HoldersOf(m, pages, d))
  <2>1. n \in Nat /\ m.dedup[d].count \in Nat
    BY Holders DEF DedupTables
  <2>2. n + (IF d \in held THEN 1 ELSE 0) <= m.dedup[d].count
    BY <1>1
  <2> HIDE DEF n
  <2>3. CASE d \in held
    <3>1. n + 1 <= m.dedup[d].count
      BY <2>2, <2>3
    <3> QED
      BY <2>1, <3>1 DEF n
  <2>4. CASE d \notin held
    BY <2>2, <2>4 DEF n
  <2> QED
    BY <2>3, <2>4
<1>3. Counted(m, pages, {})
  BY <1>2 DEF Counted
<1> QED
  BY <1>3 DEF Image

\* A particle is taken up: it refers to nothing yet.
LEMMA BeginKeeps ==
  ASSUME Live, NEW id \in Ids, BeginParticle(id)
  PROVE  Live' /\ (Lasting => Lasting')
<1>1. /\ pc = "particles" /\ work = None /\ id \in todo
      /\ work' = [id |-> id, content |-> mem.store[id], at |-> Nowhere]
      /\ UNCHANGED <<mem, disk, pc, todo, log, journal, pending, expected>>
  BY DEF BeginParticle, unsynced
<1>2. Running /\ StoreGood /\ Running'
  BY <1>1 DEF Live, Running
<1>3. mem.store[id] \in SUBSET Dims
  <2>1. id \in mem.modified
    BY <1>1 DEF Live, WorkGood
  <2> QED
    BY <1>2, <2>1 DEF Live, PersistTypes, StoreGood, Stores
<1>4. Nowhere \in [Dims -> Pointers] /\ \A d \in Dims : Nowhere[d] = 0
  BY DEF Nowhere, Pointers
<1>5. /\ work'.id = id /\ work'.content = mem.store[id] /\ work'.at = Nowhere
      /\ work' \in [id : Ids, content : SUBSET Dims, at : [Dims -> Pointers]]
  BY <1>1, <1>3, <1>4
<1>6. PersistTypes'
  <2>1. Wal!Headers' = Wal!Headers
    BY DEF Wal!Headers
  <2> QED
    BY <1>1, <1>5, <2>1 DEF Live, PersistTypes
<1>7. Held = {} /\ Held' = {}
  <2>1. \A d \in Dims : work'.at[d] = 0
    BY <1>4, <1>5
  <2> QED
    BY <1>1, <2>1 DEF Held
<1>8. StoreGood'
  <2>1. Dirty' = Dirty
    BY <1>1 DEF Dirty
  <2> QED
    BY <1>1, <1>2, <1>7, <2>1, StoreSame
<1>9. WorkGood'
  <2>1. mem.store[id] = expected[id]
    BY <1>1, <1>2 DEF Live, WorkGood, StoreGood
  <2> QED
    BY <1>1, <1>4, <1>5, <2>1 DEF Live, WorkGood
<1>10. Progress' /\ Filed'
  BY <1>1 DEF Live, Progress, Syncing, Filed
<1>11. Beginnings => Beginnings'
  BY <1>1, <1>2 DEF Beginnings
<1>12. JournalGood'
  BY <1>1, JournalSame DEF Live
<1> QED
  BY <1>6, <1>8, <1>9, <1>10, <1>11, <1>12 DEF Live, Lasting

\* The dimension that is written next.
LEMMA NextDimension ==
  ASSUME Live, work # None, Unwritten # {}
  PROVE  /\ Min(Unwritten) \in Dims /\ Min(Unwritten) \in work.content
         /\ work.at[Min(Unwritten)] = 0
<1>1. work \in [id : Ids, content : SUBSET Dims, at : [Dims -> Pointers]]
  BY DEF Live, PersistTypes
<1>2. Unwritten \in SUBSET Nat
  BY <1>1 DEF Unwritten, Dims
<1>3. \E x \in Unwritten : \A y \in Unwritten : x <= y
  BY <1>2, CodecHolds, Codec!LeastExists
<1>4. Min(Unwritten) \in Unwritten
  BY <1>3 DEF Min
<1> QED
  BY <1>1, <1>4 DEF Unwritten

\* A dimension of the particle being written, shared or on a page of its own.
LEMMA DimensionKeeps ==
  ASSUME Live, WriteDimension
  PROVE  Live' /\ (Lasting => Lasting')
<1> DEFINE d == Min(Unwritten)
           new == Allocated(mem)
<1>1. /\ work # None /\ Unwritten # {}
      /\ UNCHANGED <<pc, todo, log, journal, pending, expected>>
  BY DEF WriteDimension, unsynced
<1>2. /\ pc \in {"particles", "compact"} /\ work.id \in todo
      /\ expected[work.id] # None => work.content = expected[work.id]
      /\ \A e \in Dims : work.at[e] # 0 => e \in work.content /\ mem.dedup[e].block = work.at[e]
      /\ pc = "particles" => todo \subseteq mem.modified
  BY <1>1 DEF Live, WorkGood
<1>3. Running /\ StoreGood /\ Running'
  BY <1>1, <1>2 DEF Live, Running
<1>4. /\ work \in [id : Ids, content : SUBSET Dims, at : [Dims -> Pointers]]
      /\ mem \in Stores /\ disk \in Disks /\ mem.dedup \in DedupTables
      /\ mem.used \in SUBSET Blocks
  BY <1>1 DEF Live, PersistTypes, Disks, Stores
<1>5. d \in Dims /\ d \in work.content /\ work.at[d] = 0
  BY <1>1, NextDimension DEF d
<1> HIDE DEF d
<1>6. pc = "particles" => log.entries # 0
  BY <1>2 DEF Live, Progress
<1>7. Held = {e \in Dims : work.at[e] # 0} /\ d \notin Held
  BY <1>1, <1>5 DEF Held
<1>8. PICK at \in Blocks : /\ work' = [work EXCEPT !.at[d] = at]
                           /\ mem' \in Stores /\ disk' \in Disks
                           /\ mem'.dedup[d].block = at
                           /\ \A e \in Dims : e # d => mem'.dedup[e] = mem.dedup[e]
                           /\ mem'.store = mem.store /\ mem'.modified = mem.modified
                           /\ mem'.index = mem.index /\ mem'.sb = mem.sb
                           /\ \A b \in mem.used : disk'.pages[b] = disk.pages[b]
                           /\ disk'.sb = disk.sb
                           /\ Image(mem', disk'.pages, Held \cup {d})
  <2>1. ASSUME mem.dedup[d].block # 0,
               mem' = [mem EXCEPT !.dedup[d].count = @ + 1],
               work' = [work EXCEPT !.at[d] = mem.dedup[d].block], UNCHANGED disk
        PROVE  /\ mem.dedup[d].block \in Blocks
               /\ mem' \in Stores /\ disk' \in Disks
               /\ mem'.dedup[d].block = mem.dedup[d].block
               /\ \A e \in Dims : e # d => mem'.dedup[e] = mem.dedup[e]
               /\ mem'.store = mem.store /\ mem'.modified = mem.modified
               /\ mem'.index = mem.index /\ mem'.sb = mem.sb
               /\ \A b \in mem.used : disk'.pages[b] = disk.pages[b]
               /\ disk'.sb = disk.sb
               /\ Image(mem', disk'.pages, Held \cup {d})
    <3>1. mem.dedup[d] \in [block : Pointers, count : Nat] /\ mem.dedup[d].block \in Blocks
      BY <1>4, <1>5, <2>1 DEF DedupTables, Pointers
    <3> DEFINE t == [mem.dedup EXCEPT ![d].count = @ + 1]
    <3>2. /\ t \in DedupTables /\ t[d].block = mem.dedup[d].block
          /\ \A e \in Dims : e # d => t[e] = mem.dedup[e]
      BY <1>4, <1>5, <3>1 DEF DedupTables
    <3>3. /\ mem'.dedup = t /\ mem'.store = mem.store /\ mem'.modified = mem.modified
          /\ mem'.index = mem.index /\ mem'.sb = mem.sb /\ mem'.used = mem.used
      BY <1>4, <2>1 DEF Stores
    <3>4. mem' \in Stores
      <4> HIDE DEF t
      <4>1. mem' = [mem EXCEPT !.dedup = t]
        BY <2>1 DEF t
      <4> QED
        BY <1>4, <3>2, <4>1 DEF Stores
    <3>5. Image(mem', disk.pages, Held \cup {d})
      BY <1>3, <1>4, <1>5, <1>7, <3>3, ImageShares DEF StoreGood
    <3> HIDE DEF t
    <3> QED
      BY <1>4, <2>1, <3>1, <3>2, <3>3, <3>4, <3>5
  <2>2. ASSUME mem.dedup[d].block = 0, Free(mem) # {},
               mem' = [mem EXCEPT !.used = @ \cup {new},
                                  !.dedup[d] = [block |-> new, count |-> 1]],
               work' = [work EXCEPT !.at[d] = new],
               disk' = [disk EXCEPT !.pages[new] = DimPage(d)]
        PROVE  /\ new \in Blocks
               /\ mem' \in Stores /\ disk' \in Disks
               /\ mem'.dedup[d].block = new
               /\ \A e \in Dims : e # d => mem'.dedup[e] = mem.dedup[e]
               /\ mem'.store = mem.store /\ mem'.modified = mem.modified
               /\ mem'.index = mem.index /\ mem'.sb = mem.sb
               /\ \A b \in mem.used : disk'.pages[b] = disk.pages[b]
               /\ disk'.sb = disk.sb
               /\ Image(mem', disk'.pages, Held \cup {d})
    <3>1. new \in Blocks /\ new \notin mem.used /\ new # 0
      BY <2>2, AllocatedIsFree
    <3> HIDE DEF new
    <3> DEFINE t == [mem.dedup EXCEPT ![d] = [block |-> new, count |-> 1]]
    <3>2. /\ t \in DedupTables /\ t[d].block = new
          /\ \A e \in Dims : e # d => t[e] = mem.dedup[e]
      BY <1>4, <1>5, <3>1 DEF DedupTables, Pointers
    <3>3. /\ mem'.dedup = t /\ mem'.store = mem.store /\ mem'.modified = mem.modified
          /\ mem'.index = mem.index /\ mem'.sb = mem.sb /\ mem'.used = mem.used \cup {new}
      BY <1>4, <2>2 DEF Stores
    <3>4. mem' \in Stores
      <4> HIDE DEF t
      <4>1. mem' = [mem EXCEPT !.used = @ \cup {new}, !.dedup = t]
        BY <2>2 DEF t
      <4> QED
        BY <1>4, <3>1, <3>2, <4>1 DEF Stores
    <3>5. DimPage(d) \in Pages
      BY <1>5 DEF DimPage, Pages
    <3>6. /\ disk' \in Disks /\ disk'.pages[new] = DimPage(d)
          /\ \A b \in Blocks : b # new => disk'.pages[b] = disk.pages[b]
          /\ disk'.sb = disk.sb
      BY <1>4, <2>2, <3>1, <3>5, PageWritten
    <3>7. \A b \in mem.used : disk'.pages[b] = disk.pages[b]
      BY <1>4, <3>1, <3>6
    <3>8. Image(mem', disk'.pages, Held \cup {d})
      <4>1. Image(mem, disk.pages, Held) /\ mem.dedup[d].block = 0
            /\ mem'.dedup[d] = [block |-> new, count |-> 1]
            /\ \A e \in Dims : e # d => mem'.dedup[e] = mem.dedup[e]
        BY <1>3, <1>4, <1>5, <2>2, <3>2, <3>3 DEF StoreGood, DedupTables
      <4>2. mem.dedup \in DedupTables /\ d \in Dims /\ d \notin Held
        BY <1>4, <1>5, <1>7
      <4>3. mem'.index = mem.index /\ mem'.sb = mem.sb /\ mem'.used = mem.used \cup {new}
        BY <3>3
      <4>4. /\ new # 0 /\ new \notin mem.used /\ disk'.pages[new] = DimPage(d)
            /\ \A b \in mem.used : disk'.pages[b] = disk.pages[b]
        BY <3>1, <3>6, <3>7
      <4> HIDE DEF t
      <4> QED
        BY <4>1, <4>2, <4>3, <4>4, ImageAdds
    <3> HIDE DEF t
    <3> QED
      BY <3>1, <3>2, <3>3, <3>4, <3>6, <3>7, <3>8
  <2>3. \/ /\ mem.dedup[d].block # 0
           /\ mem' = [mem EXCEPT !.dedup[d].count = @ + 1]
           /\ work' = [work EXCEPT !.at[d] = mem.dedup[d].block]
           /\ UNCHANGED disk
        \/ /\ mem.dedup[d].block = 0 /\ Free(mem) # {}
           /\ mem' = [mem EXCEPT !.used = @ \cup {new},
                                 !.dedup[d] = [block |-> new, count |-> 1]]
           /\ work' = [work EXCEPT !.at[d] = new]
           /\ disk' = [disk EXCEPT !.pages[new] = DimPage(d)]
    BY Zenon DEF WriteDimension, d
  <2> HIDE DEF new
  <2>4. CASE mem.dedup[d].block # 0
    <3>1. PICK at \in Blocks : at = mem.dedup[d].block
      BY <2>1, <2>3, <2>4
    <3> QED
      BY <2>1, <2>3, <2>4, <3>1
  <2>5. CASE mem.dedup[d].block = 0
    <3>1. PICK at \in Blocks : at = new
      BY <2>2, <2>3, <2>5
    <3> QED
      BY <2>2, <2>3, <2>5, <3>1
  <2> QED
    BY <2>4, <2>5
<1>9. /\ work' \in [id : Ids, content : SUBSET Dims, at : [Dims -> Pointers]]
      /\ work'.id = work.id /\ work'.content = work.content
      /\ work'.at[d] = at /\ \A e \in Dims : e # d => work'.at[e] = work.at[e]
  BY <1>4, <1>5, <1>8 DEF Pointers
<1>10. at # 0
  BY DEF Blocks
<1>11. PersistTypes'
  <2>1. Wal!Headers' = Wal!Headers
    BY DEF Wal!Headers
  <2> QED
    BY <1>1, <1>8, <1>9, <2>1 DEF Live, PersistTypes, Disks
<1>12. StoreGood'
  <2>1. Held' = Held \cup {d} \/ Held' = {}
    <3>1. {e \in Dims : work'.at[e] # 0} = {e \in Dims : work.at[e] # 0} \cup {d}
      BY <1>5, <1>9, <1>10
    <3> QED
      BY <1>7, <3>1 DEF Held
  <2>2. Image(mem', disk'.pages, Held')
    <3>1. mem'.dedup \in DedupTables
      BY <1>8 DEF Stores
    <3> QED
      BY <1>8, <2>1, <3>1, ImageLess
  <2>3. Image(mem, disk.pages, Held)'
    BY <2>2 DEF Image, Tables, Leaves, Shared, Counted, HoldersOf
  <2>4. Saved(mem.index, disk.pages, Dirty)'
    <3> SUFFICES ASSUME NEW i \in Ids \ Dirty', expected'[i] # None
                 PROVE  /\ mem'.index[i] # 0
                        /\ {e \in Dims : disk'.pages[mem'.index[i]].at[e] # 0} = expected'[i]
      BY DEF Saved
    <3>1. i \in Ids \ Dirty /\ expected[i] # None
      BY <1>1, <1>2, <1>8 DEF Dirty
    <3>2. mem.index[i] # 0 /\ {e \in Dims : disk.pages[mem.index[i]].at[e] # 0} = expected[i]
      BY <1>3, <3>1 DEF StoreGood, Saved
    <3>3. mem.index[i] \in mem.used
      BY <1>3, <3>2 DEF StoreGood, Image, Leaves
    <3> QED
      BY <1>1, <1>8, <3>2, <3>3
  <2> QED
    BY <1>1, <1>3, <1>8, <2>3, <2>4 DEF StoreGood
<1>13. WorkGood'
  <2>1. \A e \in Dims : work'.at[e] # 0 => e \in work'.content /\ mem'.dedup[e].block = work'.at[e]
    BY <1>2, <1>5, <1>8, <1>9
  <2> QED
    BY <1>1, <1>2, <1>8, <1>9, <2>1 DEF WorkGood
<1>14. Progress'
  BY <1>1, <1>2, <1>8 DEF Live, Progress, Syncing
<1>15. Lasting => Lasting'
  BY <1>1, <1>2, <1>3, <1>6, <1>8 DEF Lasting, Filed, Beginnings
<1>16. JournalGood'
  BY <1>1, JournalSame DEF Live
<1> QED
  BY <1>11, <1>12, <1>13, <1>14, <1>15, <1>16 DEF Live

\* The leaf that ends a particle.
LEMMA LeafKeeps ==
  ASSUME Live, WriteLeaf
  PROVE  Live' /\ (Lasting => Lasting')
<1> DEFINE id == work.id
           at == work.at
           new == Allocated(mem)
<1>1. /\ work # None /\ Unwritten = {} /\ Free(mem) # {}
      /\ mem' = [mem EXCEPT !.used = @ \cup {new}, !.index[id] = new, !.store[id] = work.content]
      /\ disk' = [disk EXCEPT !.pages[new] = LeafPage(id, at)]
      /\ todo' = todo \ {id} /\ work' = None
      /\ UNCHANGED <<pc, log, journal, pending, expected>>
  BY DEF WriteLeaf, unsynced
<1>2. /\ pc \in {"particles", "compact"} /\ id \in todo
      /\ expected[id] # None => work.content = expected[id]
      /\ \A d \in Dims : at[d] # 0 => d \in work.content /\ mem.dedup[d].block = at[d]
      /\ pc = "particles" => todo \subseteq mem.modified
  BY <1>1 DEF Live, WorkGood
<1>3. Running /\ StoreGood /\ Running'
  BY <1>1, <1>2 DEF Live, Running
<1>4. /\ work \in [id : Ids, content : SUBSET Dims, at : [Dims -> Pointers]]
      /\ mem \in Stores /\ disk \in Disks /\ mem.dedup \in DedupTables
      /\ mem.index \in Indexes /\ mem.store \in [Ids -> (SUBSET Dims) \cup {None}]
      /\ mem.used \in SUBSET Blocks
  BY <1>1 DEF Live, PersistTypes, Disks, Stores
<1>5. id \in Ids /\ at \in [Dims -> Pointers] /\ work.content \in SUBSET Dims
  BY <1>4
<1>6. new \in Blocks /\ new \notin mem.used /\ new # 0
  BY <1>1, AllocatedIsFree
<1>7. pc = "particles" => log.entries # 0
  BY <1>2 DEF Live, Progress
<1>8. Held = {d \in Dims : at[d] # 0} /\ Held' = {}
  BY <1>1 DEF Held
<1>9. /\ {d \in Dims : at[d] # 0} = work.content
      /\ \A i \in mem.modified : mem.store[i] # None /\ mem.store[i] = expected[i]
      /\ \A i \in Ids : expected[i] # None => mem.store[i] \in {None, expected[i]}
  BY <1>1, <1>2, <1>3, <1>5 DEF Unwritten, StoreGood
<1> HIDE DEF new, id, at
<1>10. /\ mem'.index = [mem.index EXCEPT ![id] = new]
       /\ mem'.store = [mem.store EXCEPT ![id] = work.content]
       /\ mem'.used = mem.used \cup {new}
       /\ mem'.modified = mem.modified /\ mem'.dedup = mem.dedup /\ mem'.sb = mem.sb
       /\ mem' \in Stores
  BY <1>1, <1>4, <1>5, <1>6 DEF Stores, Indexes, Pointers
<1>11. mem'.store[id] = work.content /\ \A i \in Ids : i # id => mem'.store[i] = mem.store[i]
  BY <1>4, <1>5, <1>10
<1>12. LeafPage(id, at) \in Pages /\ LeafPage(id, at).at = at
  BY <1>5 DEF LeafPage, Pages
<1>13. /\ disk' \in Disks /\ disk'.pages[new] = LeafPage(id, at)
       /\ \A b \in Blocks : b # new => disk'.pages[b] = disk.pages[b]
       /\ disk'.sb = disk.sb
  BY <1>1, <1>4, <1>6, <1>12, PageWritten
<1>14. \A b \in mem.used : disk'.pages[b] = disk.pages[b]
  BY <1>4, <1>6, <1>13
<1>15. PersistTypes'
  <2>1. Wal!Headers' = Wal!Headers
    BY DEF Wal!Headers
  <2> QED
    BY <1>1, <1>10, <1>13, <2>1 DEF Live, PersistTypes, Disks
<1>16. StoreGood'
  <2>1. Image(mem', disk'.pages, {})
    <3>1. Image(mem, disk.pages, {d \in Dims : at[d] # 0})
      BY <1>3, <1>8 DEF StoreGood
    <3>2. \A d \in Dims : at[d] # 0 => mem.dedup[d].block = at[d]
      BY <1>2
    <3>3. mem'.index[id] = new /\ \A i \in Ids : i # id => mem'.index[i] = mem.index[i]
      BY <1>4, <1>5, <1>10 DEF Indexes
    <3>4. /\ mem'.used = mem.used \cup {new} /\ mem'.sb = mem.sb /\ mem'.dedup = mem.dedup
          /\ disk'.pages[new] = LeafPage(id, at) /\ new # 0 /\ new \notin mem.used
          /\ mem.index \in Indexes /\ mem.dedup \in DedupTables /\ id \in Ids
      BY <1>4, <1>5, <1>6, <1>10, <1>13
    <3> QED
      BY <1>14, <3>1, <3>2, <3>3, <3>4, ImageIndexes
  <2>2. Image(mem, disk.pages, Held)'
    BY <1>8, <2>1 DEF Image, Tables, Leaves, Shared, Counted, HoldersOf
  <2>3. Saved(mem.index, disk.pages, Dirty)'
    <3> SUFFICES ASSUME NEW i \in Ids \ Dirty', expected'[i] # None
                 PROVE  /\ mem'.index[i] # 0
                        /\ {d \in Dims : disk'.pages[mem'.index[i]].at[d] # 0} = expected'[i]
      BY DEF Saved
    <3>1. CASE i = id
      <4>1. mem'.index[i] = new
        BY <1>4, <1>5, <1>10, <3>1 DEF Indexes
      <4> QED
        BY <1>1, <1>2, <1>6, <1>9, <1>12, <1>13, <3>1, <4>1
    <3>2. CASE i # id
      <4>1. i \in Ids \ Dirty /\ expected[i] # None /\ mem'.index[i] = mem.index[i]
        BY <1>1, <1>2, <1>4, <1>10, <3>2 DEF Dirty, Indexes
      <4>2. mem.index[i] # 0 /\ {d \in Dims : disk.pages[mem.index[i]].at[d] # 0} = expected[i]
        BY <1>3, <4>1 DEF StoreGood, Saved
      <4>3. mem.index[i] \in mem.used
        BY <1>3, <4>2 DEF StoreGood, Image, Leaves
      <4> QED
        BY <1>1, <1>14, <4>1, <4>2, <4>3
    <3> QED
      BY <3>1, <3>2
  <2>4. /\ \A i \in Ids : expected'[i] # None => mem'.store[i] \in {None, expected'[i]}
        /\ \A i \in mem'.modified : mem'.store[i] # None /\ mem'.store[i] = expected'[i]
    <3>1. mem.modified \subseteq Ids
      BY <1>4 DEF Stores
    <3>2. ASSUME NEW i \in Ids, expected[i] # None
          PROVE  mem'.store[i] \in {None, expected[i]}
      BY <1>2, <1>9, <1>11, <3>2
    <3>3. ASSUME NEW i \in mem.modified
          PROVE  mem'.store[i] # None /\ mem'.store[i] = expected[i]
      <4>1. i \in Ids /\ expected[i] # None /\ mem.store[i] = expected[i]
        BY <1>9, <3>1, <3>3
      <4> QED
        BY <1>2, <1>11, <4>1
    <3> QED
      BY <1>1, <1>10, <3>2, <3>3
  <2> QED
    BY <2>2, <2>3, <2>4 DEF StoreGood
<1>17. WorkGood'
  BY <1>1, <1>2, <1>10 DEF WorkGood
<1>18. Progress'
  BY <1>1, <1>2, <1>10 DEF Live, Progress, Syncing
<1>19. Lasting => Lasting'
  BY <1>1, <1>2, <1>3, <1>7, <1>10, <1>13 DEF Lasting, Filed, Beginnings
<1>20. JournalGood'
  BY <1>1, JournalSame DEF Live
<1> QED
  BY <1>15, <1>16, <1>17, <1>18, <1>19, <1>20 DEF Live

-----------------------------------------------------------------------------
(* The volume's syncs and the tables *)

\* Once every particle is written nothing is dirty.
LEMMA AllWritten ==
  ASSUME Live, pc \notin {"closed", "ready"}, work = None, todo = {}
  PROVE  /\ Running /\ StoreGood /\ Held = {} /\ Dirty = {}
         /\ pc # "particles" => mem.modified = {}
<1>1. Running
  BY DEF Running
<1>2. pc # "particles" => mem.modified = {}
  BY DEF Live, Progress
<1> QED
  BY <1>1, <1>2 DEF Live, Held, Dirty

\* A write of the superblock or of the bitmap changes nothing that the store
\* relies on.
LEMMA Flushed ==
  ASSUME Live, pc \notin {"closed", "ready"}, work = None, todo = {},
         pc' \in (SyncStates \ {"particles"}) \cup {"ready", "retry"},
         UNCHANGED <<todo, work, log, journal, expected>>, pending' \in {pending, None},
         mem' = [mem EXCEPT !.modified = {}],
         disk' \in Disks, disk'.pages = disk.pages, disk'.sb \in {disk.sb, mem.sb}
  PROVE  /\ PersistTypes' /\ (Running => StoreGood)' /\ WorkGood' /\ JournalGood'
         /\ Beginnings => Beginnings'
         /\ mem'.index = mem.index /\ mem'.dedup = mem.dedup /\ mem'.used = mem.used
         /\ mem'.sb = mem.sb /\ mem'.modified = {}
<1>1. Running /\ StoreGood /\ Held = {} /\ Dirty = {}
  BY AllWritten
<1>2. mem \in Stores
  BY DEF Live, PersistTypes
<1>3. /\ mem' \in Stores
      /\ mem'.index = mem.index /\ mem'.dedup = mem.dedup /\ mem'.used = mem.used
      /\ mem'.sb = mem.sb /\ mem'.modified = {} /\ mem'.store = mem.store
  BY <1>2 DEF Stores
<1>4. PersistTypes'
  <2>1. Wal!Headers' = Wal!Headers
    BY DEF Wal!Headers
  <2>2. pc' \in {"closed", "ready", "retry"} \cup SyncStates \cup MaintenanceStates
    OBVIOUS
  <2> QED
    BY <1>3, <2>1, <2>2, PersistAssumption DEF Live, PersistTypes, Disks
<1>5. Held' = {} /\ Dirty' = {}
  BY <1>3 DEF Held, Dirty
<1>6. StoreGood'
  <2>1. Image(mem', disk.pages, {})
    BY <1>1, <1>3, ImageSame DEF StoreGood
  <2>2. Image(mem, disk.pages, Held)'
    BY <1>5, <2>1 DEF Image, Tables, Leaves, Shared, Counted, HoldersOf
  <2>3. Saved(mem.index, disk.pages, Dirty)'
    BY <1>1, <1>3, <1>5 DEF StoreGood, Saved
  <2> QED
    BY <1>1, <1>3, <2>2, <2>3 DEF StoreGood
<1>7. WorkGood'
  BY DEF WorkGood, SyncStates
<1>8. Beginnings => Beginnings'
  BY <1>1, <1>3 DEF Beginnings
<1>9. JournalGood'
  BY JournalSame DEF Live
<1> QED
  BY <1>3, <1>4, <1>6, <1>7, <1>8, <1>9

\* A sync's superblock after the particles: nothing is modified any more.
LEMMA VolumeKeeps ==
  ASSUME Live, SyncVolume
  PROVE  Live' /\ (Lasting => Lasting')
<1>1. /\ pc = "particles" /\ pc' = "bitmap" /\ work = None /\ todo = {}
      /\ disk' = [disk EXCEPT !.sb = mem.sb] /\ mem' = [mem EXCEPT !.modified = {}]
      /\ UNCHANGED <<todo, work, log, journal, pending, expected>>
  BY DEF SyncVolume, FlushSuperblock, unsynced
<1>2. mem \in Stores /\ disk \in Disks
  BY DEF Live, PersistTypes, Disks
<1>3. disk' \in Disks /\ disk'.pages = disk.pages /\ disk'.sb = mem.sb
  BY <1>1, <1>2 DEF Stores, Disks
<1>4. pc \in SyncStates /\ pc' \in (SyncStates \ {"particles"}) \cup {"ready", "retry"}
  BY <1>1 DEF SyncStates
<1>5. /\ PersistTypes' /\ (Running => StoreGood)' /\ WorkGood' /\ JournalGood'
      /\ Beginnings => Beginnings'
      /\ mem'.modified = {}
  BY <1>1, <1>3, <1>4, Flushed
<1>6. Progress' /\ Filed'
  BY <1>1, <1>5 DEF Progress, Syncing, Filed
<1> QED
  BY <1>5, <1>6 DEF Live, Lasting

\* The writes of pointers and bitmap in the middle of a sync.
LEMMA FlushKeeps ==
  ASSUME Live,
         \/ SyncVolumeBitmap \/ WriteIndexPointer \/ WriteDedupPointer \/ CheckpointSync
  PROVE  Live' /\ (Lasting => Lasting')
<1>1. /\ \/ pc = "bitmap" /\ pc' = "index"
         \/ pc = "index_sb" /\ pc' = "dedup"
         \/ pc = "dedup_sb" /\ pc' = "checkpoint"
         \/ pc = "last_sb" /\ pc' = "last_bitmap" /\ disk' = [disk EXCEPT !.sb = mem.sb]
      /\ \/ disk' = [disk EXCEPT !.sb = mem.sb]
         \/ disk' = [disk EXCEPT !.used = mem.used]
      /\ UNCHANGED <<mem, todo, work, log, journal, pending, expected>>
  BY DEF SyncVolumeBitmap, WriteIndexPointer, WriteDedupPointer, CheckpointSync,
         FlushSuperblock, FlushBitmap, unsynced
<1>2. mem \in Stores /\ disk \in Disks
  BY DEF Live, PersistTypes, Disks
<1>3. /\ disk' \in Disks /\ disk'.pages = disk.pages /\ disk'.sb \in {disk.sb, mem.sb}
      /\ pc' = "last_bitmap" => disk'.sb = mem.sb
  BY <1>1, <1>2 DEF Stores, Disks
<1>4. pc \in SyncStates /\ pc' \in (SyncStates \ {"particles"}) \cup {"ready", "retry"}
      /\ pc \notin {"closed", "ready", "particles", "compact"}
  BY <1>1 DEF SyncStates
<1>5. todo = {} /\ work = None /\ mem.modified = {}
  BY <1>4, Idle, AllWritten DEF Live
<1>6. mem' = [mem EXCEPT !.modified = {}]
  BY <1>1, <1>2, <1>5 DEF Stores
<1>7. /\ PersistTypes' /\ (Running => StoreGood)' /\ WorkGood' /\ JournalGood'
      /\ Beginnings => Beginnings'
  BY <1>1, <1>3, <1>4, <1>5, <1>6, Flushed
<1>8. /\ ReadIndex(mem.sb.index)' = ReadIndex(mem.sb.index)
      /\ ReadDedup(mem.sb.dedup)' = ReadDedup(mem.sb.dedup)
  BY <1>1, <1>3 DEF ReadIndex, ReadDedup, Page
<1>9. \A states : Syncing(states)' => pc' \in states \/ Syncing(states)
  BY <1>1 DEF Syncing
<1>10. Progress'
  BY <1>1, <1>3, <1>5, <1>8, <1>9 DEF Live, Progress, Syncing
<1>11. Filed => Filed'
  BY <1>1, <1>3, <1>8 DEF Filed
<1> QED
  BY <1>7, <1>10, <1>11 DEF Live, Lasting

\* What a sync leaves in the file is what memory has.
LEMMA SyncEnds ==
  ASSUME Live, CheckpointSyncBitmap
  PROVE  Live' /\ (Lasting => Lasting')
<1>1. /\ pc = "last_bitmap" /\ pc' = IF pending = None THEN "ready" ELSE "retry"
      /\ disk' = [disk EXCEPT !.used = mem.used]
      /\ UNCHANGED <<mem, todo, work, log, journal, pending, expected>>
  BY DEF CheckpointSyncBitmap, FlushBitmap, unsynced
<1>2. mem \in Stores /\ disk \in Disks
  BY DEF Live, PersistTypes, Disks
<1>3. /\ disk' \in Disks /\ disk'.pages = disk.pages /\ disk'.sb = disk.sb
      /\ disk'.used = mem.used
  BY <1>1, <1>2 DEF Stores, Disks
<1>4. pc \in SyncStates /\ pc' \in (SyncStates \ {"particles"}) \cup {"ready", "retry"}
  BY <1>1 DEF SyncStates
<1>5. todo = {} /\ work = None /\ mem.modified = {}
  BY <1>1, <1>4, Idle, AllWritten DEF Live
<1>6. mem' = [mem EXCEPT !.modified = {}]
  BY <1>1, <1>2, <1>5 DEF Stores
<1>7. /\ PersistTypes' /\ (Running => StoreGood)' /\ WorkGood' /\ JournalGood'
      /\ Beginnings => Beginnings'
  BY <1>1, <1>3, <1>4, <1>5, <1>6, Flushed
<1>8. StoreGood /\ Held = {} /\ Dirty = {}
  BY <1>1, <1>5, AllWritten
<1>9. /\ disk.sb = mem.sb /\ mem.sb.index # 0
      /\ ReadIndex(mem.sb.index) = mem.index
      /\ pending # None => log.entries = 0 /\ ReadDedup(mem.sb.dedup) = mem.dedup
  BY <1>1 DEF Live, Progress, Syncing
<1>10. ASSUME ReadDedup(mem.sb.dedup) = mem.dedup
       PROVE  FileGood'
  <2>1. /\ FileImage'.index = mem.index /\ FileImage'.dedup = mem.dedup
        /\ FileImage'.used = mem.used /\ FileImage'.sb = mem.sb
    BY <1>3, <1>9, <1>10 DEF FileImage, ReadIndex, ReadDedup, Page
  <2>2. Image(FileImage', disk.pages, {})
    BY <1>8, <2>1, ImageSame DEF StoreGood
  <2>3. Image(FileImage, disk.pages, {})'
    BY <1>3, <2>2 DEF Image, Tables, Leaves, Shared, Counted, HoldersOf
  <2>4. Saved(FileImage.index, disk.pages, {})'
    BY <1>1, <1>3, <1>8, <2>1 DEF StoreGood, Saved
  <2> QED
    BY <2>3, <2>4 DEF FileGood
<1>11. /\ ReadIndex(mem.sb.index)' = ReadIndex(mem.sb.index)
       /\ ReadDedup(mem.sb.dedup)' = ReadDedup(mem.sb.dedup)
  BY <1>1, <1>3 DEF ReadIndex, ReadDedup, Page
<1>12. Progress'
  <2>1. CASE pending = None
    BY <1>1, <1>5, <2>1 DEF Progress, Syncing
  <2>2. CASE pending # None
    BY <1>1, <1>3, <1>5, <1>9, <1>11, <2>2 DEF Progress, Syncing
  <2> QED
    BY <2>1, <2>2
<1>13. Filed => Filed'
  BY <1>1, <1>10 DEF Filed
<1> QED
  BY <1>7, <1>12, <1>13 DEF Live, Lasting

\* A table written anew: its old block is given up, the other tables and all
\* that the tables name stay.
LEMMA TableKeeps ==
  ASSUME Live, pc \notin {"closed", "ready", "particles"}, work = None, todo = {},
         NEW p \in {"index", "dedup", "snapshot"},
         p = "snapshot" /\ mem.sb.snapshot # 0 => disk.pages[mem.sb.snapshot].kind = "table",
         NEW page \in Pages, p # "snapshot" => page.kind = p, TableWritten(p, page),
         pc' \in (SyncStates \cup MaintenanceStates) \ {"particles", "compact"},
         UNCHANGED <<todo, work, log, journal, expected>>, pending' \in {pending, None}
  PROVE  /\ PersistTypes' /\ (Running => StoreGood)' /\ WorkGood' /\ JournalGood'
         /\ mem'.index = mem.index /\ mem'.dedup = mem.dedup /\ mem'.modified = {}
         /\ mem'.sb[p] # 0 /\ disk'.pages[mem'.sb[p]] = page
         /\ disk'.sb = disk.sb /\ disk'.used = disk.used
         /\ \A q \in {"index", "dedup"} : q # p =>
              /\ mem'.sb[q] = mem.sb[q]
              /\ mem.sb[q] # 0 => disk'.pages[mem.sb[q]] = disk.pages[mem.sb[q]]
         /\ p # "snapshot" => mem'.sb.snapshot = mem.sb.snapshot
<1> DEFINE old == mem.sb[p]
           freed == [mem EXCEPT !.used = @ \ {mem.sb[p]}]
           new == Allocated(freed)
<1>2. todo = {} /\ work = None
  OBVIOUS
<1>3. Running /\ StoreGood /\ Held = {} /\ Dirty = {} /\ mem.modified = {}
  BY AllWritten
<1>4. mem \in Stores /\ disk \in Disks /\ mem.sb \in Superblocks /\ mem.used \in SUBSET Blocks
  BY DEF Live, PersistTypes, Disks, Stores
<1>5. freed.used = mem.used \ {old}
  BY <1>4 DEF Stores
<1>6. new \in Blocks /\ new \notin mem.used \ {old} /\ new # 0
  BY <1>5, AllocatedIsFree DEF TableWritten
<1>7. /\ mem' = [freed EXCEPT !.used = @ \cup {new}, !.sb[p] = new]
      /\ disk' = [disk EXCEPT !.pages[new] = page]
  BY DEF TableWritten
<1> DEFINE u == (mem.used \ {old}) \cup {new}
           b2 == [mem.sb EXCEPT ![p] = new]
<1>8. mem' = [mem EXCEPT !.used = u, !.sb = b2]
  BY <1>4, <1>7 DEF Stores
<1> HIDE DEF new
<1>9. u \in SUBSET Blocks /\ b2 \in Superblocks /\ b2[p] = new
      /\ \A q \in {"index", "dedup", "snapshot"} : q # p => b2[q] = mem.sb[q]
  BY <1>4, <1>6 DEF Superblocks, Pointers
<1>10. /\ mem'.index = mem.index /\ mem'.dedup = mem.dedup /\ mem'.modified = mem.modified
       /\ mem'.store = mem.store
       /\ mem'.used = u /\ mem'.sb = b2 /\ mem' \in Stores
       /\ p # "snapshot" => mem'.sb.snapshot = mem.sb.snapshot
  <2> HIDE DEF u, b2
  <2> QED
    BY <1>4, <1>8, <1>9 DEF Stores
<1>11. /\ disk' \in Disks /\ disk'.pages[new] = page /\ disk'.sb = disk.sb
       /\ disk'.used = disk.used
       /\ \A b \in Blocks : b # new => disk'.pages[b] = disk.pages[b]
  BY <1>4, <1>6, <1>7, PageWritten
<1>12. Image(mem, disk.pages, {})
  BY <1>3 DEF StoreGood
<1>13. /\ \A q \in {"index", "dedup"} : mem.sb[q] # 0 =>
            mem.sb[q] \in mem.used /\ disk.pages[mem.sb[q]].kind = q
       /\ old # 0 => disk.pages[old].kind = IF p = "snapshot" THEN "table" ELSE p
  BY <1>12 DEF Image, Tables
<1>14. \A b \in mem.used : b # old => b \in u /\ disk'.pages[b] = disk.pages[b]
  BY <1>4, <1>6, <1>11
<1>15. ASSUME NEW q \in {"index", "dedup"}, q # p
       PROVE  /\ mem'.sb[q] = mem.sb[q]
              /\ mem.sb[q] # 0 => /\ disk'.pages[mem.sb[q]] = disk.pages[mem.sb[q]]
                                  /\ mem.sb[q] \in u
  <2>1. mem'.sb[q] = mem.sb[q]
    BY <1>9, <1>10, <1>15
  <2>2. ASSUME mem.sb[q] # 0
        PROVE  disk'.pages[mem.sb[q]] = disk.pages[mem.sb[q]] /\ mem.sb[q] \in u
    <3>1. mem.sb[q] \in mem.used /\ disk.pages[mem.sb[q]].kind = q
      BY <1>13, <2>2
    <3>2. mem.sb[q] # old
      BY <1>13, <1>15, <2>2, <3>1
    <3> HIDE DEF u, old
    <3> QED
      BY <1>14, <3>1, <3>2
  <2> QED
    BY <2>1, <2>2
<1>16. mem'.sb[p] = new /\ new \in u
  BY <1>9, <1>10
<1> HIDE DEF u, b2, old
<1>17. \A q \in {"index", "dedup"} : mem'.sb[q] # 0 =>
         mem'.sb[q] \in mem'.used /\ disk'.pages[mem'.sb[q]].kind = q
  <2> SUFFICES ASSUME NEW q \in {"index", "dedup"}, mem'.sb[q] # 0
               PROVE  mem'.sb[q] \in mem'.used /\ disk'.pages[mem'.sb[q]].kind = q
    OBVIOUS
  <2>1. CASE q = p
    BY <1>10, <1>11, <1>16, <2>1
  <2>2. CASE q # p
    BY <1>10, <1>13, <1>15, <2>2
  <2> QED
    BY <2>1, <2>2
<1>18. Tables(mem', disk'.pages)
  BY <1>17 DEF Tables
<1>19. \A b \in mem.used : \/ b \in mem'.used /\ disk'.pages[b] = disk.pages[b]
                           \/ disk.pages[b].kind \in {"index", "dedup", "table"}
  <2> SUFFICES ASSUME NEW b \in mem.used
               PROVE  \/ b \in mem'.used /\ disk'.pages[b] = disk.pages[b]
                      \/ disk.pages[b].kind \in {"index", "dedup", "table"}
    OBVIOUS
  <2>1. CASE b # old
    BY <1>10, <1>14, <2>1
  <2>2. CASE b = old
    <3>1. b # 0
      BY <1>4 DEF Blocks
    <3> QED
      BY <1>13, <2>2, <3>1 DEF old
  <2> QED
    BY <2>1, <2>2
<1>20. Image(mem', disk'.pages, {})
  BY <1>10, <1>12, <1>18, <1>19, ImageKept
<1>21. PersistTypes'
  <2>1. Wal!Headers' = Wal!Headers
    BY DEF Wal!Headers
  <2>2. pc' \in {"closed", "ready", "retry"} \cup SyncStates \cup MaintenanceStates
    OBVIOUS
  <2> QED
    BY <1>10, <1>11, <2>1, <2>2, PersistAssumption DEF Live, PersistTypes, Disks
<1>22. Held' = {} /\ Dirty' = {}
  BY <1>2, <1>3, <1>10 DEF Held, Dirty
<1>23. StoreGood'
  <2>1. Image(mem, disk.pages, Held)'
    BY <1>20, <1>22 DEF Image, Tables, Leaves, Shared, Counted, HoldersOf
  <2>2. Saved(mem.index, disk.pages, Dirty)'
    <3> SUFFICES ASSUME NEW i \in Ids, expected[i] # None
                 PROVE  /\ mem'.index[i] # 0
                        /\ {d \in Dims : disk'.pages[mem'.index[i]].at[d] # 0} = expected[i]
      BY DEF Saved
    <3>1. mem.index[i] # 0 /\ {d \in Dims : disk.pages[mem.index[i]].at[d] # 0} = expected[i]
      BY <1>3 DEF StoreGood, Saved
    <3>2. mem.index[i] \in mem.used /\ disk.pages[mem.index[i]].kind = "leaf"
      BY <1>12, <3>1 DEF Image, Leaves
    <3>3. disk'.pages[mem.index[i]] = disk.pages[mem.index[i]]
      BY <1>19, <3>2
    <3> QED
      BY <1>10, <3>1, <3>3
  <2> QED
    BY <1>3, <1>10, <2>1, <2>2 DEF StoreGood
<1>24. WorkGood'
  BY <1>2 DEF WorkGood
<1>25. JournalGood'
  BY JournalSame DEF Live
<1> QED
  BY <1>3, <1>6, <1>10, <1>11, <1>15, <1>16, <1>21, <1>23, <1>24, <1>25

\* The index on its new page.
LEMMA IndexKeeps ==
  ASSUME Live, WriteIndex
  PROVE  Live' /\ (Lasting => Lasting')
<1> DEFINE page == IndexPage(mem.index)
<1>1. /\ pc = "index" /\ pc' = "index_sb" /\ TableWritten("index", page)
      /\ UNCHANGED <<todo, work, log, journal, pending, expected>>
  BY DEF WriteIndex, unsynced
<1>2. page \in Pages /\ page.kind = "index" /\ page.index = mem.index
  BY DEF Live, PersistTypes, Stores, IndexPage, Pages
<1> HIDE DEF page
<1>3. /\ PersistTypes' /\ (Running => StoreGood)' /\ WorkGood' /\ JournalGood'
      /\ mem'.index = mem.index /\ mem'.dedup = mem.dedup /\ mem'.modified = {}
      /\ mem'.sb["index"] # 0 /\ disk'.pages[mem'.sb["index"]] = page
      /\ disk'.sb = disk.sb /\ mem'.sb["dedup"] = mem.sb["dedup"]
  <2>1. pc' \in (SyncStates \cup MaintenanceStates) \ {"particles", "compact"}
    BY <1>1 DEF SyncStates
  <2>2. work = None /\ todo = {}
    BY <1>1, Idle DEF Live
  <2> QED
    BY <1>1, <1>2, <2>1, <2>2, TableKeeps
<1>4. Progress'
  <2>1. ReadIndex(mem.sb.index)' = mem'.index
    BY <1>2, <1>3 DEF ReadIndex, Page
  <2> QED
    BY <1>1, <1>3, <2>1 DEF Progress, Syncing
<1>5. Lasting => Lasting'
  <2>1. Running
    BY <1>1 DEF Running
  <2> QED
    BY <1>1, <1>3, <2>1 DEF Lasting, Filed, Beginnings
<1> QED
  BY <1>3, <1>4, <1>5 DEF Live

\* The dedup table on its new page.
LEMMA DedupKeeps ==
  ASSUME Live, WriteDedup
  PROVE  Live' /\ (Lasting => Lasting')
<1> DEFINE page == DedupPage(mem.dedup)
<1>1. /\ pc = "dedup" /\ pc' = "dedup_sb" /\ TableWritten("dedup", page)
      /\ UNCHANGED <<todo, work, log, journal, pending, expected>>
  BY DEF WriteDedup, unsynced
<1>2. page \in Pages /\ page.kind = "dedup" /\ page.dedup = mem.dedup
  BY DEF Live, PersistTypes, Stores, DedupPage, Pages
<1> HIDE DEF page
<1>3. /\ PersistTypes' /\ (Running => StoreGood)' /\ WorkGood' /\ JournalGood'
      /\ mem'.index = mem.index /\ mem'.dedup = mem.dedup /\ mem'.modified = {}
      /\ mem'.sb["dedup"] # 0 /\ disk'.pages[mem'.sb["dedup"]] = page
      /\ disk'.sb = disk.sb /\ mem'.sb["index"] = mem.sb["index"]
      /\ mem.sb["index"] # 0 => disk'.pages[mem.sb["index"]] = disk.pages[mem.sb["index"]]
  <2>1. pc' \in (SyncStates \cup MaintenanceStates) \ {"particles", "compact"}
    BY <1>1 DEF SyncStates
  <2>2. work = None /\ todo = {}
    BY <1>1, Idle DEF Live
  <2> QED
    BY <1>1, <1>2, <2>1, <2>2, TableKeeps
<1>4. mem.sb.index # 0 /\ ReadIndex(mem.sb.index) = mem.index
  BY <1>1 DEF Live, Progress
<1>5. Progress'
  <2>1. ReadIndex(mem.sb.index)' = mem'.index
    BY <1>3, <1>4 DEF ReadIndex, Page
  <2>2. ReadDedup(mem.sb.dedup)' = mem'.dedup
    BY <1>2, <1>3 DEF ReadDedup, Page
  <2> QED
    BY <1>1, <1>3, <1>4, <2>1, <2>2 DEF Progress, Syncing
<1>6. Lasting => Lasting'
  <2>1. Beginnings => Beginnings'
    BY <1>3, <1>4 DEF Beginnings
  <2> QED
    BY <1>1, <2>1 DEF Lasting, Filed
<1> QED
  BY <1>3, <1>5, <1>6 DEF Live

\* An empty dedup table has no page.
LEMMA DropKeeps ==
  ASSUME Live, DropDedup
  PROVE  Live' /\ (Lasting => Lasting')
<1> DEFINE u == mem.used \ {mem.sb.dedup}
           b2 == [mem.sb EXCEPT !.dedup = 0]
<1>1. /\ pc = "dedup" /\ mem.dedup = NoDedup /\ pc' = "checkpoint"
      /\ mem' = [mem EXCEPT !.used = @ \ {mem.sb.dedup}, !.sb.dedup = 0]
      /\ UNCHANGED <<disk, todo, work, log, journal, pending, expected>>
  BY DEF DropDedup, unsynced
<1>2. pc \in SyncStates /\ pc \notin {"closed", "ready", "particles", "compact"}
      /\ pc' \in SyncStates
  BY <1>1 DEF SyncStates
<1>3. todo = {} /\ work = None
  BY <1>2, Idle DEF Live
<1>4. Running /\ StoreGood /\ Held = {} /\ Dirty = {} /\ mem.modified = {}
  BY <1>2, <1>3, AllWritten
<1>5. mem \in Stores /\ mem.sb \in Superblocks /\ mem.used \in SUBSET Blocks
  BY DEF Live, PersistTypes, Stores
<1>6. /\ u \in SUBSET Blocks /\ b2 \in Superblocks /\ b2.dedup = 0 /\ b2.index = mem.sb.index
      /\ mem' = [mem EXCEPT !.used = u, !.sb = b2]
  BY <1>1, <1>5 DEF Stores, Superblocks, Pointers
<1>7. /\ mem'.index = mem.index /\ mem'.dedup = mem.dedup /\ mem'.modified = mem.modified
      /\ mem'.store = mem.store
      /\ mem'.used = u /\ mem'.sb.dedup = 0 /\ mem'.sb.index = mem.sb.index /\ mem' \in Stores
  <2> HIDE DEF u, b2
  <2> QED
    BY <1>5, <1>6 DEF Stores
<1>8. Image(mem', disk.pages, {})
  <2>1. Image(mem, disk.pages, {})
    BY <1>4 DEF StoreGood
  <2>2. /\ mem.sb.index # 0 => mem.sb.index \in mem.used /\ disk.pages[mem.sb.index].kind = "index"
        /\ mem.sb.dedup # 0 => disk.pages[mem.sb.dedup].kind = "dedup"
    BY <2>1 DEF Image, Tables
  <2>3. Tables(mem', disk.pages)
    BY <1>7, <2>2 DEF Tables
  <2>4. 0 \notin mem.used
    BY <1>5 DEF Blocks
  <2>5. \A b \in mem.used : b \in mem'.used \/ disk.pages[b].kind \in {"index", "dedup"}
    BY <1>7, <2>2, <2>4
  <2> QED
    BY <1>7, <2>1, <2>3, <2>5, ImageKept
<1>9. PersistTypes'
  <2>1. Wal!Headers' = Wal!Headers
    BY DEF Wal!Headers
  <2> QED
    BY <1>1, <1>2, <1>7, <2>1, PersistAssumption DEF Live, PersistTypes
<1>10. Held' = {} /\ Dirty' = {}
  BY <1>1, <1>3, <1>4, <1>7 DEF Held, Dirty
<1>11. StoreGood'
  <2>1. Image(mem, disk.pages, Held)'
    BY <1>1, <1>8, <1>10 DEF Image, Tables, Leaves, Shared, Counted, HoldersOf
  <2>2. Saved(mem.index, disk.pages, Dirty)'
    BY <1>1, <1>4, <1>7, <1>10 DEF StoreGood, Saved
  <2> QED
    BY <1>1, <1>4, <1>7, <2>1, <2>2 DEF StoreGood
<1>12. WorkGood'
  BY <1>1, <1>3 DEF WorkGood
<1>13. mem.sb.index # 0 /\ ReadIndex(mem.sb.index) = mem.index
  BY <1>1 DEF Live, Progress
<1>14. Progress'
  <2>1. ReadIndex(mem.sb.index)' = mem'.index
    BY <1>1, <1>7, <1>13 DEF ReadIndex, Page
  <2>2. ReadDedup(mem.sb.dedup)' = mem'.dedup
    BY <1>1, <1>7 DEF ReadDedup, Page, NoPage
  <2> QED
    BY <1>1, <1>4, <1>7, <1>13, <2>1, <2>2 DEF Progress, Syncing
<1>15. Lasting => Lasting'
  <2>1. Beginnings => Beginnings'
    BY <1>1, <1>7, <1>13 DEF Beginnings
  <2> QED
    BY <1>1, <2>1 DEF Lasting, Filed
<1>16. JournalGood'
  BY <1>1, JournalSame DEF Live
<1> QED
  BY <1>9, <1>11, <1>12, <1>14, <1>15, <1>16 DEF Live

\* A checkpoint that fits the journal.
LEMMA CheckpointKeeps ==
  ASSUME Live, WriteCheckpoint, log.offset < JournalCells
  PROVE  Live' /\ (Lasting => Lasting')
<1>1. /\ pc = "checkpoint" /\ pc' = "last_sb"
      /\ UNCHANGED <<mem, disk, todo, work, pending, expected>>
  BY DEF WriteCheckpoint
<1>2. /\ JournalGood'
      /\ journal' \in [0 .. JournalCells - 1 ->
                         Wal!Headers \cup [of : Ops, piece : Nat] \cup {Blank}]
      /\ log' \in [offset : 0 .. JournalCells, sequence : Nat, entries : Nat]
      /\ log'.entries = 0
  BY JournalCheckpointed DEF Live, PersistTypes, JournalTypes
<1>3. pc \in SyncStates /\ pc \notin {"closed", "ready", "particles", "compact"}
      /\ pc' \in SyncStates
  BY <1>1 DEF SyncStates
<1>4. todo = {} /\ work = None
  BY <1>3, Idle DEF Live
<1>5. Running /\ StoreGood /\ Held = {} /\ Dirty = {} /\ mem.modified = {}
  BY <1>3, <1>4, AllWritten
<1>6. PersistTypes'
  <2>1. Wal!Headers' = Wal!Headers
    BY DEF Wal!Headers
  <2> QED
    BY <1>1, <1>2, <1>3, <2>1, PersistAssumption DEF Live, PersistTypes
<1>7. StoreGood'
  <2>1. Held' = Held /\ Dirty' = Dirty
    BY <1>1, <1>5 DEF Held, Dirty
  <2> QED
    BY <1>1, <1>5, <2>1, StoreSame
<1>8. WorkGood'
  BY <1>1, <1>4 DEF WorkGood
<1>9. /\ mem.sb.index # 0 /\ ReadIndex(mem.sb.index) = mem.index
      /\ ReadDedup(mem.sb.dedup) = mem.dedup
  BY <1>1 DEF Live, Progress, Syncing
<1>10. ReadIndex(mem.sb.index)' = mem'.index /\ ReadDedup(mem.sb.dedup)' = mem'.dedup
  BY <1>1, <1>9 DEF ReadIndex, ReadDedup, Page
<1>11. Progress'
  BY <1>1, <1>2, <1>5, <1>9, <1>10 DEF Progress, Syncing
<1>12. Lasting => Lasting'
  <2>1. mem.sb.dedup = 0 => mem.dedup = NoDedup
    BY <1>9 DEF ReadDedup, Page, NoPage
  <2>2. Beginnings => Beginnings'
    BY <1>1, <1>9, <2>1 DEF Beginnings
  <2> QED
    BY <1>1, <1>10, <2>2 DEF Lasting, Filed
<1> QED
  BY <1>2, <1>6, <1>7, <1>8, <1>11, <1>12 DEF Live

\* A file without an index is that of a store that never synced anything.
LEMMA NothingInFile ==
  ASSUME disk.sb = NullPointers, \A id \in Ids : expected[id] = None
  PROVE  FileGood
<1>1. /\ FileImage.index = NoIndex /\ FileImage.dedup = NoDedup
      /\ FileImage.sb = NullPointers
  BY DEF FileImage, ReadIndex, ReadDedup, Page, NoPage, NullPointers
<1> DEFINE m == FileImage
<1>2. /\ \A id \in Ids : m.index[id] = 0
      /\ \A d \in Dims : m.dedup[d].block = 0 /\ m.dedup[d].count = 0
      /\ m.sb.index = 0 /\ m.sb.dedup = 0
  BY <1>1 DEF NoIndex, NoDedup, NullPointers
<1> HIDE DEF m
<1>3. Tables(m, disk.pages) /\ Leaves(m, disk.pages) /\ Shared(m, disk.pages)
  BY <1>2 DEF Tables, Leaves, Shared
<1>4. Counted(m, disk.pages, {})
  <2> SUFFICES ASSUME NEW d \in Dims
               PROVE  Cardinality(HoldersOf(m, disk.pages, d)) + 0 <= m.dedup[d].count
    BY DEF Counted
  <2>1. HoldersOf(m, disk.pages, d) = {}
    BY <1>2 DEF HoldersOf
  <2>2. Cardinality(HoldersOf(m, disk.pages, d)) = 0
    BY <2>1, FS_EmptySet
  <2> QED
    BY <1>2, <2>2
<1>5. Saved(m.index, disk.pages, {})
  BY DEF Saved
<1> QED
  BY <1>3, <1>4, <1>5 DEF FileGood, Image, m

\* A sync that found no free block.  With an empty log there was nothing to be
\* written but the first index of an empty store.
LEMMA FailureKeeps ==
  ASSUME Live, SyncFails, pc # "compact"
  PROVE  Live' /\ (Lasting => Lasting')
<1>1. /\ pc' = "ready" /\ todo' = {} /\ work' = None /\ pending' = None
      /\ UNCHANGED <<mem, disk, journal, log, expected>>
  BY DEF SyncFails
<1>2. \/ work # None
      \/ pc = "index" /\ mem.sb.index = 0
      \/ pc = "dedup" /\ mem.sb.dedup = 0 /\ mem.dedup # NoDedup
  BY DEF SyncFails
<1>3. work # None => pc = "particles" /\ log.entries # 0
  <2>1. work # None => pc = "particles" /\ mem.modified # {}
    BY DEF Live, WorkGood
  <2> QED
    BY <2>1 DEF Live, Progress
<1>4. Running /\ StoreGood /\ Running'
  BY <1>1, <1>2, <1>3 DEF Live, Running
<1>5. Dirty \subseteq mem.modified /\ Dirty' = mem.modified /\ Held' = {}
  BY <1>1 DEF Live, WorkGood, Dirty, Held
<1>6. PersistTypes'
  <2>1. Wal!Headers' = Wal!Headers
    BY DEF Wal!Headers
  <2> QED
    BY <1>1, <2>1, PersistAssumption DEF Live, PersistTypes
<1>7. StoreGood'
  <2>1. Image(mem, disk.pages, {})
    BY <1>4, ImageLess DEF StoreGood, Live, PersistTypes, Stores
  <2>2. Image(mem, disk.pages, Held)'
    BY <1>1, <1>5, <2>1 DEF Image, Tables, Leaves, Shared, Counted, HoldersOf
  <2>3. Saved(mem.index, disk.pages, Dirty)'
    BY <1>1, <1>4, <1>5 DEF StoreGood, Saved
  <2> QED
    BY <1>1, <1>4, <2>2, <2>3 DEF StoreGood
<1>8. WorkGood'
  BY <1>1 DEF WorkGood
<1>9. Progress'
  BY <1>1 DEF Live, Progress, Syncing
<1>10. Lasting => Lasting'
  <2> SUFFICES ASSUME Lasting PROVE Lasting'
    OBVIOUS
  <2>1. log.entries = 0 => FileGood'
    <3> SUFFICES ASSUME log.entries = 0 PROVE FileGood'
      OBVIOUS
    <3>1. mem.sb.index = 0
      BY <1>2, <1>3, <1>4 DEF Live, Lasting, Beginnings, Progress
    <3>2. disk.sb = NullPointers /\ \A id \in Ids : expected[id] = None
      BY <1>4, <3>1 DEF Lasting, Beginnings
    <3>3. FileGood
      BY <3>2, NothingInFile
    <3> QED
      BY <1>1, <3>3, FileKept DEF Live, PersistTypes
  <2>2. Beginnings'
    BY <1>1, <1>4 DEF Lasting, Beginnings
  <2> QED
    BY <1>1, <2>1, <2>2 DEF Lasting, Filed
<1>11. JournalGood'
  BY <1>1, JournalSame DEF Live
<1> QED
  BY <1>6, <1>7, <1>8, <1>9, <1>10, <1>11 DEF Live

\* A particle whose record is too long leaves one more block in use, and nothing
\* else changes.
LEMMA TooLargeKeeps ==
  ASSUME Live, LeafTooLarge
  PROVE  Live' /\ (Lasting => Lasting')
<1> DEFINE new == Allocated(mem)
           grown == [mem EXCEPT !.used = @ \cup {new}]
<1>1. /\ pc = "particles" /\ work # None /\ Free(mem) # {}
      /\ mem' = grown
      /\ pc' = "ready" /\ todo' = {} /\ work' = None /\ pending' = None
      /\ UNCHANGED <<disk, journal, log, expected>>
  BY DEF LeafTooLarge
<1>2. mem \in Stores /\ Running /\ StoreGood /\ Running'
  BY <1>1 DEF Live, PersistTypes, Running
<1>3. new \in Blocks
  BY <1>1, AllocatedIsFree
<1>4. /\ mem'.used = mem.used \cup {new} /\ mem' \in Stores
      /\ mem'.store = mem.store /\ mem'.modified = mem.modified
      /\ mem'.index = mem.index /\ mem'.dedup = mem.dedup /\ mem'.sb = mem.sb
  <2> HIDE DEF new
  <2> QED
    BY <1>1, <1>2, <1>3 DEF Stores
<1> HIDE DEF new, grown
<1>5. log.entries # 0
  BY <1>1 DEF Live, WorkGood, Progress
<1>6. Dirty \subseteq mem.modified /\ Dirty' = mem.modified /\ Held' = {}
  BY <1>1, <1>4 DEF Live, WorkGood, Dirty, Held
<1>7. PersistTypes'
  <2>1. Wal!Headers' = Wal!Headers
    BY DEF Wal!Headers
  <2> QED
    BY <1>1, <1>4, <2>1, PersistAssumption DEF Live, PersistTypes
<1>8. StoreGood'
  <2>1. Image(mem, disk.pages, {})
    BY <1>2, ImageLess DEF StoreGood, Stores
  <2>2. Image(mem', disk.pages', {})
    BY <1>1, <1>4, <2>1 DEF Image, Tables, Leaves, Shared, Counted, HoldersOf
  <2>3. Saved(mem.index, disk.pages, Dirty)'
    BY <1>1, <1>2, <1>4, <1>6 DEF StoreGood, Saved
  <2>4. Image(mem, disk.pages, Held)'
    BY <1>6, <2>2
  <2> QED
    BY <1>1, <1>2, <1>4, <2>3, <2>4 DEF StoreGood
<1>9. WorkGood'
  BY <1>1 DEF WorkGood
<1>10. Progress'
  BY <1>1, <1>5 DEF Live, Progress, Syncing
<1>11. Lasting => Lasting'
  <2>1. Beginnings => Beginnings'
    BY <1>1, <1>2, <1>4, <1>5 DEF Beginnings
  <2> QED
    BY <1>1, <1>5, <2>1 DEF Lasting, Filed
<1>12. JournalGood'
  BY <1>1, JournalSame DEF Live
<1> QED
  BY <1>7, <1>8, <1>9, <1>10, <1>11, <1>12 DEF Live

-----------------------------------------------------------------------------
(* Sessions *)

\* The empty memory of a process that is not there, or of a new volume.
LEMMA NothingInMemory ==
  [store |-> NoStore, modified |-> {}, index |-> NoIndex,
   dedup |-> NoDedup, used |-> {}, sb |-> NullPointers] \in Stores
BY DEF Stores, NoStore, NoIndex, NoDedup, NullPointers, Indexes, DedupTables, Superblocks, Pointers

\* A session that ends with everything synced.
LEMMA CloseKeeps ==
  ASSUME Live, Close
  PROVE  Live' /\ (Lasting => Lasting')
<1>1. /\ pc = "ready" /\ log.entries = 0 /\ pc' = "closed"
      /\ mem' = [store |-> NoStore, modified |-> {}, index |-> NoIndex,
                 dedup |-> NoDedup, used |-> {}, sb |-> NullPointers]
      /\ log' = [offset |-> 0, sequence |-> 1, entries |-> 0]
      /\ todo' = {} /\ work' = None /\ pending' = None
      /\ UNCHANGED <<disk, journal, expected>>
  BY DEF Close, Gone
<1>2. mem' \in Stores /\ mem'.modified = {} /\ ~Running'
  BY <1>1, NothingInMemory DEF Running
<1>3. PersistTypes'
  <2>1. Wal!Headers' = Wal!Headers
    BY DEF Wal!Headers
  <2>2. log' \in [offset : 0 .. JournalCells, sequence : Nat, entries : Nat]
    BY <1>1, PersistAssumption
  <2> QED
    BY <1>1, <1>2, <2>1, <2>2, PersistAssumption DEF Live, PersistTypes
<1>4. WorkGood'
  BY <1>1 DEF WorkGood
<1>5. Progress'
  BY <1>1, <1>2 DEF Progress, Syncing
<1>6. Lasting => Lasting'
  <2>1. Filed => FileGood'
    BY <1>1, FileKept DEF Live, PersistTypes, Filed
  <2>2. Beginnings => Beginnings'
    BY <1>1, <1>2 DEF Beginnings
  <2> QED
    BY <1>1, <2>1, <2>2 DEF Lasting, Filed
<1>7. JournalGood'
  <2>1. Wal!HeadersOf(journal)' = Wal!HeadersOf(journal)
    BY <1>1 DEF Wal!HeadersOf, Wal!Headers
  <2>2. ASSUME NEW i \in Wal!HeadersOf(journal)
        PROVE  /\ i \in Nat
               /\ \/ journal[i].op = Checkpoint
                  \/ i + Wal!EntryCells(journal[i].op) \in Wal!HeadersOf(journal)
    BY <1>1, Entries DEF Live, JournalGood
  <2>3. log'.offset = 0 /\ \A i \in Nat : ~ (i < 0)
    BY <1>1
  <2> QED
    BY <1>1, <2>1, <2>2, <2>3 DEF JournalGood
<1> QED
  BY <1>2, <1>3, <1>4, <1>5, <1>6, <1>7 DEF Live

\* Replaying nothing.
LEMMA FoldNothing ==
  ASSUME NEW base
  PROVE  FoldLeft(Replayed, base, << >>) = base
<1> DEFINE dom == DOMAIN << >>
           body(f) == [s \in SUBSET dom |->
                         IF s = {} THEN base
                         ELSE LET x == Max(s) IN Replayed(f[s \ {x}], << >>[x])]
           only == [s \in SUBSET dom |-> base]
           fold == CHOOSE f : f = body(f)
<1>1. dom = {}
  OBVIOUS
<1>2. \A f : body(f) = only
  <2> SUFFICES ASSUME NEW f PROVE body(f) = only
    OBVIOUS
  <2>1. \A s \in SUBSET dom : s = {}
    BY <1>1
  <2> HIDE DEF dom
  <2> QED
    BY Zenon, <2>1
<1>3. FoldLeft(Replayed, base, << >>) = fold[dom]
  BY Zenon DEF FoldLeft, MapThenFoldSet
<1>4. fold = only
  <2>1. \E f : f = body(f)
    <3>1. only = body(only)
      <4> HIDE DEF body, only
      <4> QED
        BY <1>2
    <3> HIDE DEF body, only
    <3> QED
      BY <3>1
  <2>2. fold = body(fold)
    <3> HIDE DEF body
    <3> QED
      BY <2>1
  <2> HIDE DEF body, fold, only
  <2> QED
    BY <1>2, <2>2
<1>5. only[dom] = base
  <2> HIDE DEF dom
  <2> QED
    OBVIOUS
<1> HIDE DEF fold, only, dom
<1> QED
  BY <1>3, <1>4, <1>5

\* The types of what an open reads.
LEMMA FileImageTypes ==
  ASSUME disk \in Disks
  PROVE  /\ FileImage.index \in Indexes /\ FileImage.dedup \in DedupTables
         /\ FileImage.used \in SUBSET Blocks /\ FileImage.sb \in Superblocks
         /\ FileImage.sb = disk.sb
         /\ disk.sb.index = 0 => FileImage.index = NoIndex
         /\ disk.sb.dedup = 0 => FileImage.dedup = NoDedup
<1>1. disk.sb.index \in Pointers /\ disk.sb.dedup \in Pointers /\ disk.sb \in Superblocks
      /\ disk.pages \in [Blocks -> Pages] /\ disk.used \in SUBSET Blocks
  BY DEF Disks, Superblocks
<1>2. \A b \in Pointers : /\ Page(b).kind = "index" => Page(b).index \in Indexes
                          /\ Page(b).kind = "dedup" => Page(b).dedup \in DedupTables
                          /\ b = 0 => Page(b).kind = "none"
  <2> SUFFICES ASSUME NEW b \in Pointers
               PROVE  /\ Page(b).kind = "index" => Page(b).index \in Indexes
                      /\ Page(b).kind = "dedup" => Page(b).dedup \in DedupTables
                      /\ b = 0 => Page(b).kind = "none"
    OBVIOUS
  <2>1. CASE b = 0
    BY <2>1 DEF Page, NoPage
  <2>2. CASE b # 0
    <3>1. Page(b) = disk.pages[b] /\ disk.pages[b] \in Pages
      BY <1>1, <2>2 DEF Page, Pointers
    <3> QED
      BY <2>2, <3>1 DEF Pages
  <2> QED
    BY <2>1, <2>2
<1>3. NoIndex \in Indexes /\ NoDedup \in DedupTables
  BY DEF NoIndex, NoDedup, Indexes, DedupTables, Pointers
<1>4. ReadIndex(disk.sb.index) \in Indexes /\ ReadDedup(disk.sb.dedup) \in DedupTables
  BY <1>1, <1>2, <1>3 DEF ReadIndex, ReadDedup
<1>5. /\ disk.sb.index = 0 => ReadIndex(disk.sb.index) = NoIndex
      /\ disk.sb.dedup = 0 => ReadDedup(disk.sb.dedup) = NoDedup
  BY <1>1, <1>2 DEF ReadIndex, ReadDedup
<1> QED
  BY <1>1, <1>4, <1>5 DEF FileImage

\* load_all over a good file finds every particle that is expected.
LEMMA LoadedIs ==
  ASSUME PersistTypes, FileGood, NEW m, m.index = FileImage.index, m.store = NoStore
  PROVE  LET loaded == LoadedFrom(IF Indexed(m) # {} THEN LeavesOf(m) ELSE Blocks, m.store)
         IN  /\ loaded \in [Ids -> (SUBSET Dims) \cup {None}]
             /\ \A id \in Ids : expected[id] # None => loaded[id] = expected[id]
<1> DEFINE blocks == IF Indexed(m) # {} THEN LeavesOf(m) ELSE Blocks
           leaves(id) == {b \in blocks : IsLeaf(b) /\ Page(b).id = id}
           loaded == LoadedFrom(blocks, m.store)
<1>1. loaded = [id \in Ids |-> IF leaves(id) = {} THEN None ELSE ContentAt(Max(leaves(id)))]
  BY DEF LoadedFrom, NoStore
<1>2. \A b : ContentAt(b) \in SUBSET Dims
  BY DEF ContentAt
<1>3. loaded \in [Ids -> (SUBSET Dims) \cup {None}]
  <2> HIDE DEF leaves
  <2> QED
    BY <1>1, <1>2
<1>4. ASSUME NEW id \in Ids, expected[id] # None
      PROVE  loaded[id] = expected[id]
  <2> DEFINE leaf == m.index[id]
  <2>1. /\ m.index[id] # 0
        /\ {d \in Dims : disk.pages[m.index[id]].at[d] # 0} = expected[id]
    BY <1>4 DEF FileGood, Saved
  <2>2. blocks = LeavesOf(m)
    BY <2>1 DEF Indexed
  <2>3. \A i \in Ids : m.index[i] # 0 => IsLeaf(m.index[i]) /\ Page(m.index[i]).id = i
    BY ContentIs DEF FileGood
  <2>4. leaves(id) = {leaf}
    <3>1. \A b : b \in LeavesOf(m) <=> \E i \in Ids : m.index[i] # 0 /\ b = m.index[i]
      BY DEF LeavesOf, Indexed
    <3> QED
      BY <2>1, <2>2, <2>3, <3>1
  <2>5. leaf \in Nat
    BY FileImageTypes DEF Indexes, Pointers, Blocks, PersistTypes, Disks
  <2>6. Max({leaf}) = leaf
    BY <2>5 DEF Max
  <2>7. ContentAt(leaf) = {d \in Dims : disk.pages[m.index[id]].at[d] # 0}
    BY <2>1, ContentIs DEF FileGood
  <2> HIDE DEF leaf, leaves, loaded
  <2> QED
    BY <1>1, <2>1, <2>4, <2>6, <2>7
<1> QED
  BY <1>3, <1>4

\* A session that opens a volume on which everything is synced.
LEMMA OpenKeeps ==
  ASSUME Live, Lasting, NEW all \in BOOLEAN, Open(all)
  PROVE  /\ Live' /\ Lasting'
         /\ mem'.index = FileImage.index /\ mem'.dedup = FileImage.dedup
         /\ mem'.used = FileImage.used /\ mem'.sb = FileImage.sb /\ log'.entries = 0
<1> DEFINE base == [store |-> NoStore, modified |-> {},
                    index |-> ReadIndex(disk.sb.index), dedup |-> ReadDedup(disk.sb.dedup),
                    used |-> disk.used, sb |-> disk.sb]
           tail == Wal!ScanTail(journal)
<1>1. /\ pc = "closed" /\ pc' = "ready"
      /\ mem' = IF all THEN LoadedAll(Opened) ELSE Opened
      /\ log' = [offset |-> tail.write_offset, sequence |-> tail.next_sequence,
                 entries |-> tail.entries]
      /\ UNCHANGED <<disk, journal, todo, work, pending, expected>>
  BY DEF Open
<1>2. log.entries = 0 /\ FileGood /\ todo = {} /\ work = None
  BY <1>1, Idle DEF Live, Progress, Syncing, Lasting, Filed
<1>3. /\ Wal!Recovered(journal) = << >>
      /\ tail.write_offset \in 0 .. JournalCells
      /\ tail.next_sequence \in Nat
      /\ tail.entries = 0
      /\ \A i \in Wal!HeadersOf(journal) : i < tail.write_offset =>
           i + Wal!EntryCells(journal[i].op) <= tail.write_offset
  BY <1>2, JournalOpened DEF Live, PersistTypes, JournalTypes
<1>4. Opened = base
  BY <1>3, FoldNothing DEF Opened
<1> DEFINE loaded == LoadedFrom(IF Indexed(base) # {} THEN LeavesOf(base) ELSE Blocks, base.store)
<1>5. /\ base.index = FileImage.index /\ base.dedup = FileImage.dedup
      /\ base.used = FileImage.used /\ base.sb = FileImage.sb /\ base.modified = {}
      /\ base.store = NoStore
  BY DEF FileImage
<1>6. loaded \in [Ids -> (SUBSET Dims) \cup {None}]
      /\ \A id \in Ids : expected[id] # None => loaded[id] = expected[id]
  BY <1>2, <1>5, LoadedIs DEF Live
<1>7. mem' = [base EXCEPT !.store = loaded] \/ mem' = base
  BY <1>1, <1>4 DEF LoadedAll
<1>8. NoStore \in [Ids -> (SUBSET Dims) \cup {None}] /\ \A id \in Ids : NoStore[id] = None
  BY DEF NoStore
<1> HIDE DEF loaded
<1>9. /\ mem'.index = FileImage.index /\ mem'.dedup = FileImage.dedup
      /\ mem'.used = FileImage.used /\ mem'.sb = FileImage.sb /\ mem'.modified = {}
      /\ mem'.store \in {loaded, NoStore}
      /\ mem' = [store |-> mem'.store, modified |-> mem'.modified, index |-> mem'.index,
                 dedup |-> mem'.dedup, used |-> mem'.used, sb |-> mem'.sb]
  BY <1>5, <1>7
<1>10. mem' \in Stores
  BY <1>6, <1>8, <1>9, FileImageTypes DEF Live, Stores, PersistTypes, Disks
<1>11. \A id \in Ids : expected[id] # None => mem'.store[id] \in {None, expected[id]}
  BY <1>6, <1>8, <1>9
<1> HIDE DEF base, tail
<1>12. PersistTypes'
  <2>1. Wal!Headers' = Wal!Headers
    BY DEF Wal!Headers
  <2>2. log' \in [offset : 0 .. JournalCells, sequence : Nat, entries : Nat]
    BY <1>1, <1>3
  <2> QED
    BY <1>1, <1>10, <2>1, <2>2, PersistAssumption DEF Live, PersistTypes
<1>13. Held' = {} /\ Dirty' = {}
  BY <1>1, <1>2, <1>9 DEF Held, Dirty
<1>14. StoreGood'
  <2>1. Image(mem', disk.pages, {})
    BY <1>2, <1>9, ImageSame DEF FileGood
  <2>2. Image(mem, disk.pages, Held)'
    BY <1>1, <1>13, <2>1, SMTT(30) DEF Image, Tables, Leaves, Shared, Counted, HoldersOf
  <2>3. Saved(mem.index, disk.pages, Dirty)'
    BY <1>1, <1>2, <1>9, <1>13 DEF FileGood, Saved
  <2> QED
    BY <1>1, <1>9, <1>11, <2>2, <2>3 DEF StoreGood
<1>15. WorkGood'
  BY <1>1, <1>2 DEF WorkGood
<1>16. log'.entries = 0 /\ log'.offset = tail.write_offset
  BY <1>1, <1>3
<1>17. Progress' /\ Filed'
  <2>1. FileGood'
    BY <1>1, <1>2, FileKept
  <2>2. pending' = None
    BY <1>1 DEF Live, Progress
  <2> QED
    BY <1>1, <1>9, <1>16, <2>1, <2>2 DEF Progress, Syncing, Filed
<1>18. Beginnings'
  <2>1. mem'.sb = disk.sb
    BY <1>9, FileImageTypes DEF Live, PersistTypes, Disks
  <2>2. mem'.sb.index = 0 => \A id \in Ids : expected[id] = None
    <3> SUFFICES ASSUME mem'.sb.index = 0, NEW id \in Ids, expected[id] # None PROVE FALSE
      OBVIOUS
    <3>1. FileImage.index = NoIndex
      BY <2>1, FileImageTypes DEF Live, PersistTypes, Disks
    <3>2. FileImage.index[id] # 0
      BY <1>2 DEF FileGood, Saved
    <3> QED
      BY <3>1, <3>2 DEF NoIndex
  <2>3. mem'.sb.dedup = 0 => mem'.dedup = NoDedup
    BY <1>9, <2>1, FileImageTypes DEF Live, PersistTypes, Disks
  <2> QED
    BY <1>1, <2>1, <2>2, <2>3 DEF Lasting, Beginnings
<1>19. JournalGood'
  <2>1. Wal!HeadersOf(journal)' = Wal!HeadersOf(journal)
    BY <1>1 DEF Wal!HeadersOf, Wal!Headers
  <2>2. ASSUME NEW i \in Wal!HeadersOf(journal)
        PROVE  /\ i < tail.write_offset => i + Wal!EntryCells(journal[i].op) <= tail.write_offset
               /\ \/ journal[i].op = Checkpoint
                  \/ i + Wal!EntryCells(journal[i].op) \in Wal!HeadersOf(journal)
    BY <1>2, <1>3 DEF Live, JournalGood
  <2> QED
    BY <1>1, <1>16, <2>1, <2>2 DEF JournalGood
<1> QED
  BY <1>9, <1>12, <1>14, <1>15, <1>16, <1>17, <1>18, <1>19 DEF Live, Lasting

-----------------------------------------------------------------------------
(* The invariant *)

\* A new store.
LEMMA InitSound == Init => PersistInv
<1> SUFFICES ASSUME Init PROVE Live /\ Lasting
  BY DEF Init, PersistInv, Sound
<1>1. /\ mem.store = NoStore /\ mem.modified = {} /\ mem.index = NoIndex
      /\ mem.dedup = NoDedup /\ mem.used = {} /\ mem.sb = NullPointers
      /\ mem \in Stores
  BY NothingInMemory DEF Init
<1>2. /\ disk.sb = NullPointers /\ disk.pages \in [Blocks -> Pages]
      /\ disk \in [pages : [Blocks -> Pages], used : SUBSET Blocks, sb : Superblocks]
  BY <1>1 DEF Init, NoPage, Pages, Stores
<1>3. /\ journal = [i \in 0 .. JournalCells - 1 |-> Blank]
      /\ log = [offset |-> 0, sequence |-> 1, entries |-> 0] /\ pc = "ready"
      /\ todo = {} /\ work = None /\ pending = None /\ expected = NoStore
  BY DEF Init
<1>4. \A id \in Ids : expected[id] = None
  BY <1>3 DEF NoStore
<1>5. FileGood
  BY <1>2, <1>4, NothingInFile
<1>6. PersistTypes
  <2>1. log \in [offset : 0 .. JournalCells, sequence : Nat, entries : Nat]
    BY <1>3, PersistAssumption
  <2>2. expected \in [Ids -> (SUBSET Dims) \cup {None}]
    BY <1>3 DEF NoStore
  <2> QED
    BY <1>1, <1>2, <1>3, <2>1, <2>2, PersistAssumption DEF PersistTypes
<1>7. /\ NullPointers.index = 0 /\ NullPointers.dedup = 0
  BY DEF NullPointers
<1>8. Held = {}
  BY <1>3 DEF Held
<1>9. StoreGood
  <2>1. Image(FileImage, disk.pages, {}) /\ FileImage.index = NoIndex /\ FileImage.dedup = NoDedup
    BY <1>2, <1>5, <1>6, <1>7, FileImageTypes DEF FileGood, Disks
  <2>2. Tables(mem, disk.pages)
    BY <1>1, <1>7 DEF Tables
  <2>3. Image(mem, disk.pages, {})
    <3>1. /\ \A id \in Ids : mem.index[id] = 0
          /\ \A d \in Dims : mem.dedup[d].block = 0
      BY <1>1 DEF NoIndex, NoDedup
    <3>2. Leaves(mem, disk.pages) /\ Shared(mem, disk.pages)
      BY <3>1 DEF Leaves, Shared
    <3>3. Counted(mem, disk.pages, {})
      <4>1. Counted(FileImage, disk.pages, {})
        BY <2>1 DEF Image
      <4>2. \A d \in Dims : HoldersOf(mem, disk.pages, d) = HoldersOf(FileImage, disk.pages, d)
        BY <1>1, <2>1 DEF HoldersOf
      <4> QED
        BY <1>1, <2>1, <4>1, <4>2 DEF Counted
    <3> QED
      BY <2>2, <3>2, <3>3 DEF Image
  <2>4. Saved(mem.index, disk.pages, Dirty)
    BY <1>4 DEF Saved
  <2> QED
    BY <1>1, <1>4, <1>8, <2>3, <2>4 DEF StoreGood
<1>10. WorkGood
  BY <1>3 DEF WorkGood
<1>11. Progress
  BY <1>1, <1>3 DEF Progress, Syncing
<1>12. Lasting
  BY <1>1, <1>2, <1>3, <1>4, <1>5 DEF Lasting, Filed, Beginnings
<1>13. JournalGood
  <2>1. Blank \notin Wal!Headers
    BY PersistAssumption DEF Wal!Headers
  <2>2. Wal!HeadersOf(journal) = {}
    BY <1>3, <2>1 DEF Wal!HeadersOf, Wal!Headers
  <2> QED
    BY <2>2 DEF JournalGood
<1> QED
  BY <1>6, <1>9, <1>10, <1>11, <1>12, <1>13 DEF Live

\* Nothing happens.
LEMMA NothingKeeps ==
  ASSUME Live, UNCHANGED <<mem, disk, journal, log, pc, todo, work, pending, expected>>
  PROVE  Live' /\ (Lasting => Lasting')
<1>1. PersistTypes'
  <2>1. Wal!Headers' = Wal!Headers
    BY DEF Wal!Headers
  <2> QED
    BY <2>1 DEF Live, PersistTypes
<1>2. (Running => StoreGood)'
  <2>1. Held' = Held /\ Dirty' = Dirty /\ Running' = Running
    BY DEF Held, Dirty, Running
  <2> QED
    BY <2>1, StoreSame DEF Live
<1>3. WorkGood'
  BY DEF Live, WorkGood
<1>4. /\ ReadIndex(mem.sb.index)' = ReadIndex(mem.sb.index)
      /\ ReadDedup(mem.sb.dedup)' = ReadDedup(mem.sb.dedup)
  BY DEF ReadIndex, ReadDedup, Page
<1>5. Progress'
  BY <1>4 DEF Live, Progress, Syncing
<1>6. Lasting => Lasting'
  <2>1. FileGood => FileGood'
    BY FileKept DEF Live, PersistTypes
  <2>2. Beginnings => Beginnings'
    BY DEF Beginnings, Running
  <2> QED
    BY <1>4, <2>1, <2>2 DEF Lasting, Filed
<1>7. JournalGood'
  BY JournalSame DEF Live
<1> QED
  BY <1>1, <1>2, <1>3, <1>5, <1>6, <1>7 DEF Live

\* What has gone wrong is not forgotten.
LEMMA DamageStays ==
  ASSUME crashes \in Nat, [Next]_vars
  PROVE  crashes' \in {crashes, crashes + 1} /\ failures \subseteq failures'
<1>1. CASE UNCHANGED vars
  BY <1>1 DEF vars
<1>2. CASE Next
  BY <1>2, Zenon
     DEF Next, Step, Write, WriteFull, LoadParticle, SyncBegin, SyncStep, BeginParticle,
         WriteDimension, WriteLeaf, LeafTooLarge, SyncVolume, SyncVolumeBitmap, WriteIndex,
         WriteIndexPointer, WriteDedup, DropDedup, WriteDedupPointer, WriteCheckpoint,
         CheckpointSync, CheckpointSyncBitmap, SyncFails, Retry, Close, Crash, Gone,
         Opening, Open, Delete, unsynced
<1> QED
  BY <1>1, <1>2

\* What a step of the store does to memory and to the file.
LEMMA NextKeeps ==
  ASSUME Live, crashes \in Nat, Undamaged', [Next]_vars, ~ (pc = "compact" /\ SyncFails),
         Opening => Lasting
  PROVE  Live' /\ (Lasting => Lasting')
<1> DEFINE Kept == Live' /\ (Lasting => Lasting')
<1>1. crashes' \in {crashes, crashes + 1} /\ failures \subseteq failures'
  BY DamageStays
<1>2. Undamaged /\ crashes' = crashes
  BY <1>1 DEF Undamaged
<1>3. ASSUME NEW id \in Ids, NEW c \in Contents, Write(id, c) PROVE Kept
  BY <1>3, LoggedWriteKeeps DEF Write, Called, Writes
<1>4. ASSUME NEW id \in Ids, NEW c \in Contents, WriteFull(id, c) PROVE Kept
  BY <1>2, <1>4, SyncStarts DEF WriteFull, Called, Writes
<1>5. ASSUME NEW id \in Ids, LoadParticle(id) PROVE Kept
  BY <1>2, <1>5, LoadKeeps
<1>6. CASE SyncBegin
  BY <1>2, <1>6, SyncStarts DEF SyncBegin, Called, Live, PersistTypes
<1>7. ASSUME NEW id \in Ids, BeginParticle(id) PROVE Kept
  BY <1>2, <1>7, BeginKeeps
<1>8. CASE WriteDimension
  BY <1>2, <1>8, DimensionKeeps
<1>9. CASE WriteLeaf
  BY <1>2, <1>9, LeafKeeps
<1>10. CASE SyncVolume
  BY <1>2, <1>10, VolumeKeeps
<1>11. CASE SyncVolumeBitmap \/ WriteIndexPointer \/ WriteDedupPointer \/ CheckpointSync
  BY <1>2, <1>11, FlushKeeps
<1>12. CASE WriteIndex
  BY <1>2, <1>12, IndexKeeps
<1>13. CASE WriteDedup
  BY <1>2, <1>13, DedupKeeps
<1>14. CASE DropDedup
  BY <1>2, <1>14, DropKeeps
<1>15. CASE WriteCheckpoint
  <2>1. log.offset < JournalCells
    <3> SUFFICES ASSUME ~ (log.offset < JournalCells) PROVE "overrun" \in failures'
      BY DEF Undamaged
    <3> QED
      BY <1>15 DEF WriteCheckpoint
  <2> QED
    BY <1>2, <1>15, <2>1, CheckpointKeeps
<1>16. CASE CheckpointSyncBitmap
  BY <1>2, <1>16, SyncEnds
<1>17. CASE SyncFails
  BY <1>17, FailureKeeps
<1>18. CASE Retry
  <2>1. pending \in Writes
    BY <1>2, <1>18, PersistAssumption DEF Retry, Live, PersistTypes
  <2>2. CASE Fits(pending)
    BY <1>2, <1>18, <2>1, <2>2, LoggedWriteKeeps DEF Retry
  <2>3. CASE ~Fits(pending)
    BY <1>2, <1>18, <2>3, RetryFails DEF Retry
  <2> QED
    BY <2>2, <2>3
<1>19. CASE Close
  BY <1>2, <1>19, CloseKeeps
<1>20. ~Crash
  BY <1>2 DEF Crash
<1>21. CASE Opening
  BY <1>21, PersistAssumption, OpenKeeps DEF Opening
<1>22. ASSUME NEW id \in Ids, Delete(id) PROVE Kept
  BY <1>2, <1>22, DeleteKeeps
<1>23. CASE UNCHANGED vars
  BY <1>23, NothingKeeps DEF vars
<1>24. CASE LeafTooLarge
  BY <1>24, TooLargeKeeps
<1> QED
  BY <1>3, <1>4, <1>5, <1>6, <1>7, <1>8, <1>9, <1>10, <1>11, <1>12, <1>13, <1>14,
     <1>15, <1>16, <1>17, <1>18, <1>19, <1>20, <1>21, <1>22, <1>23, <1>24
     DEF Next, Step, SyncStep

\* Every step of the store keeps it sound, as long as nothing is damaged.
LEMMA StepSound == PersistInv /\ [Next]_vars => PersistInv'
<1> SUFFICES ASSUME PersistInv, [Next]_vars PROVE PersistInv'
  OBVIOUS
<1>1. crashes' \in {crashes, crashes + 1} /\ failures \subseteq failures' /\ crashes \in Nat
  BY DamageStays DEF PersistInv
<1>2. ASSUME Undamaged' PROVE Sound'
  <2>1. Live /\ Lasting /\ pc # "compact"
    BY <1>1, <1>2 DEF Undamaged, PersistInv, Sound, Lasting, Filed
  <2> QED
    BY <1>1, <1>2, <2>1, NextKeeps DEF Sound
<1> QED
  BY <1>1, <1>2 DEF PersistInv

\* The invariant of the store: as long as no page was overwritten and every
\* session ended in a sync, memory and file are sound.
THEOREM PersistInvariant == Spec => []PersistInv
<1>1. Init => PersistInv
  BY InitSound
<1>2. PersistInv /\ [Next]_vars => PersistInv'
  BY StepSound
<1> QED
  BY <1>1, <1>2, PTL DEF Spec

\* In a live store every block in use is allocated.
LEMMA SoundBlocks ==
  ASSUME Running => Live
  PROVE  LiveBlocksAllocated
<1> SUFFICES ASSUME Running, Live PROVE LiveBlocksAllocated
  BY DEF LiveBlocksAllocated
<1>1. Image(mem, disk.pages, Held)
  BY DEF Live, StoreGood
<1>2. {mem.sb.index, mem.sb.dedup} \ {0} \subseteq mem.used
  BY <1>1 DEF Image, Tables
<1>3. ASSUME NEW id \in Indexed(mem)
      PROVE  /\ IsLeaf(mem.index[id]) /\ mem.index[id] \in mem.used
             /\ DimensionsOf(id) \subseteq mem.used
  <2>1. id \in Ids /\ mem.index[id] # 0
    BY DEF Indexed
  <2>2. IsLeaf(mem.index[id]) /\ mem.index[id] \in mem.used
    BY <1>1, <2>1, ContentIs DEF Image, Leaves
  <2>3. ASSUME NEW d \in Dims, Page(mem.index[id]).at[d] # 0
        PROVE  Page(mem.index[id]).at[d] \in mem.used
    <3>1. mem.dedup[d].block = Page(mem.index[id]).at[d]
      BY <1>1, <2>1, <2>3 DEF Image, Leaves, Page
    <3> QED
      BY <1>1, <2>3, <3>1 DEF Image, Shared
  <2> QED
    BY <2>2, <2>3 DEF DimensionsOf
<1> QED
  BY <1>2, <1>3 DEF LiveBlocksAllocated

\* Blocks in use are never given up: the allocator cannot hand out a table, an
\* indexed leaf or a dimension page that a leaf names.
THEOREM LiveBlocksStayAllocated == Spec => []LiveBlocksAllocated
<1>1. PersistInv => LiveBlocksAllocated
  BY SoundBlocks DEF PersistInv, Sound, LiveBlocksAllocated
<1> QED
  BY <1>1, PersistInvariant, PTL

\* In a live store each page two particles share has a reference for each.
LEMMA SoundCounts ==
  ASSUME Running => Live
  PROVE  RefcountCoversReferences
<1> SUFFICES ASSUME Running, Live, NEW b \in Blocks,
                    Cardinality({id \in Indexed(mem) : b \in DimensionsOf(id)}) > 1
             PROVE  \E d \in Dims :
                      /\ mem.dedup[d].block = b
                      /\ mem.dedup[d].count >=
                           Cardinality({id \in Indexed(mem) : b \in DimensionsOf(id)})
  BY DEF RefcountCoversReferences
<1> DEFINE holders == {id \in Indexed(mem) : b \in DimensionsOf(id)}
<1>1. Image(mem, disk.pages, {}) /\ mem.dedup \in DedupTables
  BY ImageLess DEF Live, StoreGood, PersistTypes, Stores
<1>2. ASSUME NEW id \in holders
      PROVE  /\ id \in Ids /\ mem.index[id] # 0
             /\ \E d \in Dims : disk.pages[mem.index[id]].at[d] = b /\ mem.dedup[d].block = b
  <2>1. id \in Ids /\ mem.index[id] # 0
    BY DEF Indexed
  <2>2. PICK d \in Dims : Page(mem.index[id]).at[d] = b /\ b # 0
    BY DEF DimensionsOf
  <2>3. disk.pages[mem.index[id]].at[d] = b
    BY <2>1, <2>2 DEF Page
  <2>4. mem.dedup[d].block = b
    BY <1>1, <2>1, <2>2, <2>3 DEF Image, Leaves
  <2> QED
    BY <2>1, <2>3, <2>4
<1>3. holders # {}
  <2>1. holders = {} => Cardinality(holders) = 0
    BY FS_EmptySet
  <2> QED
    BY <2>1
<1>4. PICK d \in Dims : mem.dedup[d].block = b
  BY <1>2, <1>3
<1>5. b # 0
  BY DEF Blocks
<1>6. holders \subseteq HoldersOf(mem, disk.pages, d)
  <2> SUFFICES ASSUME NEW id \in holders PROVE id \in HoldersOf(mem, disk.pages, d)
    OBVIOUS
  <2>1. PICK e \in Dims : disk.pages[mem.index[id]].at[e] = b /\ mem.dedup[e].block = b
    BY <1>2
  <2>2. e = d
    BY <1>1, <1>4, <1>5, <2>1, ImageSharesOnce DEF SharedOnce
  <2> QED
    BY <1>2, <1>5, <2>1, <2>2 DEF HoldersOf
<1>7. Cardinality(holders) <= Cardinality(HoldersOf(mem, disk.pages, d))
      /\ Cardinality(holders) \in Nat
  <2> HIDE DEF holders
  <2> QED
    BY <1>6, Holders, FS_Subset, FS_CardinalityType
<1>8. Cardinality(HoldersOf(mem, disk.pages, d)) + 0 <= mem.dedup[d].count
  BY <1>1 DEF Image, Counted
<1>9. mem.dedup[d].count \in Nat
  BY <1>1 DEF DedupTables
<1>10. mem.dedup[d].count >= Cardinality(holders)
  <2> HIDE DEF holders
  <2> QED
    BY <1>7, <1>8, <1>9, Holders
<1> QED
  BY <1>4, <1>10

\* Every page two particles share has a reference for each of them, so that
\* deleting one leaves the page to the other.
THEOREM ReferencesAreCounted == Spec => []RefcountCoversReferences
<1>1. PersistInv => RefcountCoversReferences
  BY SoundCounts DEF PersistInv, Sound, RefcountCoversReferences
<1> QED
  BY <1>1, PersistInvariant, PTL

\* In a live store a dedup hit hands out a good page.
LEMMA SoundHits ==
  ASSUME Running => Live
  PROVE  DedupHitsAreGood
<1> SUFFICES ASSUME Running, Live, NEW d \in Dims, mem.dedup[d].block # 0
             PROVE  /\ mem.dedup[d].block \in mem.used
                    /\ Page(mem.dedup[d].block) = DimPage(d)
  BY DEF DedupHitsAreGood
<1> QED
  BY DEF Live, StoreGood, Image, Shared, Page

\* A dedup hit hands out an allocated page that holds the data that was hashed.
THEOREM DedupHits == Spec => []DedupHitsAreGood
<1>1. PersistInv => DedupHitsAreGood
  BY SoundHits DEF PersistInv, Sound, DedupHitsAreGood
<1> QED
  BY <1>1, PersistInvariant, PTL

\* Whatever was acknowledged and not deleted can be read, over syncs and
\* reopenings, as long as every session ended in a sync.
THEOREM SyncedSessions == Spec => []SyncedSessionsLoseNothing
<1>1. PersistInv => SyncedSessionsLoseNothing
  <2> SUFFICES ASSUME Running, Live, Lasting, NEW id \in Ids, expected[id] # None
               PROVE  Visible(mem, id) = expected[id]
    BY DEF PersistInv, Sound, SyncedSessionsLoseNothing, NothingLost, Undamaged
  <2>1. StoreGood
    BY DEF Live
  <2>2. CASE mem.store[id] # None
    BY <2>1, <2>2 DEF StoreGood, Visible
  <2>3. CASE mem.store[id] = None
    <3>1. id \notin Dirty
      BY <2>1, <2>3 DEF Live, WorkGood, StoreGood, Dirty, Lasting, Filed
    <3>2. /\ mem.index[id] # 0
          /\ {d \in Dims : disk.pages[mem.index[id]].at[d] # 0} = expected[id]
      BY <2>1, <3>1 DEF StoreGood, Saved
    <3>3. Image(mem, disk.pages, Held)
      BY <2>1 DEF StoreGood
    <3>4. /\ IsLeaf(mem.index[id])
          /\ ContentAt(mem.index[id]) = {d \in Dims : disk.pages[mem.index[id]].at[d] # 0}
      <4>1. mem.index[id] # 0
        BY <3>2
      <4> QED
        BY <3>3, <4>1, ContentIs
    <3> QED
      BY <2>3, <3>2, <3>4 DEF Visible
  <2> QED
    BY <2>2, <2>3
<1> QED
  BY <1>1, PersistInvariant, PTL

=============================================================================
