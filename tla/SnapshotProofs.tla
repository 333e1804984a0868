--------------------------- MODULE SnapshotProofs ---------------------------
(***************************************************************************)
(* Proofs about compaction and snapshots: as long as every session ends in *)
(* a sync, no page is overwritten and a compaction is not followed by      *)
(* another session, the tables, leaves and shared pages of the store stay  *)
(* allocated, counted and unchanged, a snapshot holds what it was taken of *)
(* until one of its leaves is deleted, and nothing acknowledged is lost.   *)
(* At the end, what a process that dies in the middle leaves in the file.  *)
(***************************************************************************)
EXTENDS Fsck, CrashProofs

-----------------------------------------------------------------------------
(* Snapshots in the file                                                   *)

PageIn(pages, b) == IF b = 0 THEN NoPage ELSE pages[b]
IndexIn(pages, b) == IF PageIn(pages, b).kind = "index" THEN PageIn(pages, b).index ELSE NoIndex
DedupIn(pages, b) == IF PageIn(pages, b).kind = "dedup" THEN PageIn(pages, b).dedup ELSE NoDedup
TableIn(pages, b) == IF PageIn(pages, b).kind = "table" THEN PageIn(pages, b).snapshots ELSE << >>

\* A snapshot as an image of the store.
EntryImage(e, pages, used) ==
  [index |-> IndexIn(pages, e.index), dedup |-> DedupIn(pages, e.dedup), used |-> used,
   sb |-> [index |-> e.index, dedup |-> e.dedup, snapshot |-> 0]]

\* The blocks a snapshot names.
NamedBy(e, pages) ==
  {e.index, e.dedup}
    \cup {IndexIn(pages, e.index)[id] : id \in Ids}
    \cup {DedupIn(pages, e.dedup)[d].block : d \in Dims}

\* The leaves with dimension d that m has and image s has not.
Fresh(m, s, pages, d) ==
  {id \in Ids : m.index[id] # 0 /\ m.index[id] # s.index[id] /\ pages[m.index[id]].at[d] # 0}

\* The counts of m are above those of s by what was written since.
Covers(m, pages, held, s) ==
  \A d \in Dims : s.dedup[d].block # 0 =>
    /\ m.dedup[d].block = s.dedup[d].block
    /\ s.dedup[d].count + Cardinality(Fresh(m, s, pages, d)) + (IF d \in held THEN 1 ELSE 0)
         <= m.dedup[d].count

\* The leaves of the index are those of the given particles.
HoldsOf(of, index, pages) ==
  \A id \in Ids :
    /\ index[id] = 0 => of[id] = None
    /\ index[id] # 0 => of[id] # None /\ of[id] = {d \in Dims : pages[index[id]].at[d] # 0}

EntryGood(m, pages, held, of, e) ==
  LET s == EntryImage(e, pages, m.used)
  IN  /\ e.index # 0 /\ e.index # m.sb.index
      /\ Image(s, pages, {})
      /\ Covers(m, pages, held, s)
      /\ HoldsOf(of, s.index, pages)

\* Snapshot e was taken after snapshot f.
Nested(e, f, pages) ==
  Covers(EntryImage(e, pages, {}), pages, {}, EntryImage(f, pages, {}))

IntactIn(snaps) == {k \in DOMAIN snaps : snaps[k].intact}

SnapsGood(snaps, m, pages, held) ==
  LET table == TableIn(pages, m.sb.snapshot)
  IN  \A k \in IntactIn(snaps) :
        /\ k \in DOMAIN table
        /\ m.sb.snapshot \in m.used /\ m.sb.index # 0
        /\ EntryGood(m, pages, held, snaps[k].of, table[k])
        /\ \A j \in IntactIn(snaps) : j < k => Nested(table[k], table[j], pages)

-----------------------------------------------------------------------------
(* The invariant                                                           *)

Contentses == [Ids -> (SUBSET Dims) \cup {None}]
Records == [of : Contentses, intact : BOOLEAN]

\* No session after a compaction, every session ended in a sync, no page was
\* overwritten.
Healthy == Undamaged /\ CountsKnown

TableLength == Len(TableIn(disk.pages, IF Running THEN mem.sb.snapshot ELSE disk.sb.snapshot))

Snaps ==
  /\ taken \in Seq(Records)
  /\ TableLength <= Len(taken)
  /\ Running /\ pc # "snap_sb" => disk.sb.snapshot = mem.sb.snapshot
  /\ Running => SnapsGood(taken, mem, disk.pages, Held)
  /\ pc \in {"compact", "compact_sb"} => IntactIn(taken) = {}

\* The tables that are copied for a snapshot.
Cloning ==
  pc \in {"snap_dedup", "snap_table"} =>
    /\ pending = [op |-> "snapshot", index |-> pending.index, dedup |-> pending.dedup]
    /\ pending.index \in mem.used /\ pending.index # mem.sb.index
    /\ disk.pages[pending.index] = IndexPage(mem.index)
    /\ pc = "snap_dedup" => mem.sb.dedup # 0 /\ pending.dedup = 0
    /\ pc = "snap_table" /\ mem.dedup # NoDedup => pending.dedup # 0
    /\ pending.dedup # 0 => /\ pending.dedup \in mem.used
                            /\ disk.pages[pending.dedup] = DedupPage(mem.dedup)

\* The dimensions with a page, and the particles a compaction writes with
\* their dimensions.
Listed(m) == {d \in Dims : m.dedup[d].block # 0}
Rewritten(particles) == {id \in Ids : particles[id] # None}
DimsOf(particles) == {d \in Dims : \E id \in Ids : particles[id] # None /\ d \in particles[id]}

\* A compaction needs no more blocks than it had freed.
Compacting ==
  pc = "compact" =>
    /\ pending = [op |-> "compact", particles |-> pending.particles]
    /\ pending.particles \in Contentses
    /\ todo \cap Indexed(mem) = {}
    /\ todo \cup Indexed(mem) = Rewritten(pending.particles)
    /\ Listed(mem) \subseteq DimsOf(pending.particles)
    /\ work # None => work.content = pending.particles[work.id]
    /\ \A id \in Ids : expected[id] # None => pending.particles[id] = expected[id]
    /\ Cardinality(mem.used) <= Cardinality(Indexed(mem)) + Cardinality(Listed(mem))
    /\ Cardinality(Rewritten(pending.particles)) + Cardinality(DimsOf(pending.particles)) <= BlockCount

\* Nothing is there that was deleted.
Alive ==
  failures = {} =>
    /\ Running => \A id \in Ids : mem.index[id] # 0 => expected[id] # None
    /\ Running /\ opens = 1 => \A id \in Ids : mem.store[id] # None => expected[id] # None
    /\ pc = "compact" => \A id \in todo : expected[id] # None

Announced ==
  pc \in {"compact", "compact_sb"} \/ pending = [op |-> "compact"] => compactions # 0

AtRest == pc \in {"closed", "ready", "retry", "snap_dedup", "snap_table"} /\ log.entries = 0

\* What the file has of the snapshots, and of particles that were deleted.
FileSnaps == AtRest => SnapsGood(taken, FileImage, disk.pages, {})
FileAlive == AtRest /\ failures = {} => \A id \in Ids : FileImage.index[id] # 0 => expected[id] # None

Maintained == Snaps /\ Cloning /\ Compacting /\ Alive /\ Announced
Recorded == Lasting /\ FileSnaps /\ FileAlive

SnapInv ==
  /\ crashes \in Nat /\ compactions \in Nat /\ opens \in Nat \ {0}
  /\ Healthy => /\ Live /\ Maintained
                /\ compactions = 0 => Recorded

-----------------------------------------------------------------------------
(* What snapshots rely on                                                  *)

Entry == [index : Pointers, dedup : Pointers]

\* The file's pages are read alike.
LEMMA Reads ==
  /\ \A b : IndexIn(disk.pages, b) = ReadIndex(b) /\ DedupIn(disk.pages, b) = ReadDedup(b)
  /\ \A b : TableIn(disk.pages, b) = ReadTable(b)
BY DEF IndexIn, DedupIn, TableIn, PageIn, ReadIndex, ReadDedup, ReadTable, Page

LEMMA ReadTypes ==
  ASSUME NEW pages \in [Blocks -> Pages], NEW b \in Pointers
  PROVE  /\ IndexIn(pages, b) \in Indexes /\ DedupIn(pages, b) \in DedupTables
         /\ TableIn(pages, b) \in Seq(Entry)
         /\ b = 0 \/ pages[b].kind # "table" => TableIn(pages, b) = << >>
         /\ b = 0 => IndexIn(pages, b) = NoIndex /\ DedupIn(pages, b) = NoDedup
<1>1. NoIndex \in Indexes /\ NoDedup \in DedupTables /\ << >> \in Seq(Entry)
  BY DEF NoIndex, NoDedup, Indexes, DedupTables, Pointers
<1>2. CASE b = 0
  BY <1>1, <1>2 DEF IndexIn, DedupIn, TableIn, PageIn, NoPage
<1>3. CASE b # 0
  <2>1. PageIn(pages, b) = pages[b] /\ pages[b] \in Pages
    BY <1>3 DEF PageIn, Pointers
  <2>2. pages[b].kind = "index" => pages[b].index \in Indexes
    BY <2>1 DEF Pages
  <2>3. pages[b].kind = "dedup" => pages[b].dedup \in DedupTables
    BY <2>1 DEF Pages
  <2>4. pages[b].kind = "table" => pages[b].snapshots \in Seq(Entry)
    BY <2>1 DEF Pages, Entry
  <2> QED
    BY <1>1, <1>3, <2>1, <2>2, <2>3, <2>4 DEF IndexIn, DedupIn, TableIn
<1> QED
  BY <1>2, <1>3

\* The parts of a snapshot's image.
LEMMA EntryIs ==
  \A e, pages, used :
    LET s == EntryImage(e, pages, used)
    IN  /\ s.index = IndexIn(pages, e.index) /\ s.dedup = DedupIn(pages, e.dedup)
        /\ s.used = used /\ s.sb.index = e.index /\ s.sb.dedup = e.dedup
BY DEF EntryImage

\* What a snapshot names is allocated, and of the tables it names only its own.
LEMMA NamedKinds ==
  ASSUME NEW pages, NEW e, NEW used, Image(EntryImage(e, pages, used), pages, {})
  PROVE  \A b \in NamedBy(e, pages) : b # 0 =>
           /\ b \in used /\ pages[b].kind \in {"index", "dedup", "leaf", "dim"}
           /\ pages[b].kind = "index" => b = e.index
           /\ pages[b].kind = "dedup" => b = e.dedup
<1> DEFINE s == EntryImage(e, pages, used)
<1>1. /\ s.index = IndexIn(pages, e.index) /\ s.dedup = DedupIn(pages, e.dedup)
      /\ s.used = used /\ s.sb.index = e.index /\ s.sb.dedup = e.dedup
  BY EntryIs
<1> HIDE DEF s
<1>2. \A d \in Dims : DimPage(d).kind = "dim"
  BY DEF DimPage
<1>3. \A id \in Ids : s.index[id] # 0 => s.index[id] \in used /\ pages[s.index[id]].kind = "leaf"
  BY <1>1 DEF Image, Leaves, s
<1>4. \A d \in Dims : s.dedup[d].block # 0 =>
        s.dedup[d].block \in used /\ pages[s.dedup[d].block].kind = "dim"
  BY <1>1, <1>2 DEF Image, Shared, s
<1>5. /\ e.index # 0 => e.index \in used /\ pages[e.index].kind = "index"
      /\ e.dedup # 0 => e.dedup \in used /\ pages[e.dedup].kind = "dedup"
  BY <1>1 DEF Image, Tables, s
<1> QED
  BY <1>1, <1>3, <1>4, <1>5 DEF NamedBy

\* A snapshot is what it was while its blocks are.
LEMMA EntryKept ==
  ASSUME NEW pages, NEW e, NEW used, Image(EntryImage(e, pages, used), pages, {}),
         NEW pages2, NEW used2,
         \A b \in NamedBy(e, pages) : b # 0 => b \in used2 /\ pages2[b] = pages[b]
  PROVE  /\ IndexIn(pages2, e.index) = IndexIn(pages, e.index)
         /\ DedupIn(pages2, e.dedup) = DedupIn(pages, e.dedup)
         /\ Image(EntryImage(e, pages2, used2), pages2, {})
         /\ \A of : HoldsOf(of, IndexIn(pages, e.index), pages) =>
                      HoldsOf(of, IndexIn(pages2, e.index), pages2)
<1> DEFINE s == EntryImage(e, pages, used)
           t == EntryImage(e, pages2, used2)
           index == IndexIn(pages, e.index)
           dedup == DedupIn(pages, e.dedup)
<1>1. IndexIn(pages2, e.index) = index /\ DedupIn(pages2, e.dedup) = dedup
  BY DEF NamedBy, IndexIn, DedupIn, PageIn
<1>2. /\ s.index = index /\ s.dedup = dedup
      /\ s.used = used /\ s.sb.index = e.index /\ s.sb.dedup = e.dedup
      /\ t.index = index /\ t.dedup = dedup
      /\ t.used = used2 /\ t.sb.index = e.index /\ t.sb.dedup = e.dedup
  BY <1>1, EntryIs
<1>3. /\ \A id \in Ids : index[id] # 0 => index[id] \in used2 /\ pages2[index[id]] = pages[index[id]]
      /\ \A d \in Dims : dedup[d].block # 0 =>
           dedup[d].block \in used2 /\ pages2[dedup[d].block] = pages[dedup[d].block]
      /\ e.index # 0 => e.index \in used2 /\ pages2[e.index] = pages[e.index]
      /\ e.dedup # 0 => e.dedup \in used2 /\ pages2[e.dedup] = pages[e.dedup]
  BY DEF NamedBy
<1> HIDE DEF s, t, index, dedup
<1>4. Tables(t, pages2)
  BY <1>2, <1>3 DEF Image, Tables, s
<1>5. Leaves(t, pages2)
  BY <1>2, <1>3 DEF Image, Leaves, s
<1>6. Shared(t, pages2)
  BY <1>2, <1>3 DEF Image, Shared, s
<1>7. Counted(t, pages2, {})
  <2>1. \A d \in Dims : HoldersOf(t, pages2, d) = HoldersOf(s, pages, d)
    BY <1>2, <1>3 DEF HoldersOf
  <2> QED
    BY <1>2, <2>1 DEF Image, Counted, s
<1>8. Image(t, pages2, {})
  BY <1>4, <1>5, <1>6, <1>7 DEF Image
<1>9. \A of : HoldsOf(of, index, pages) => HoldsOf(of, index, pages2)
  BY <1>3 DEF HoldsOf
<1> QED
  BY <1>1, <1>8, <1>9 DEF t, index, dedup

LEMMA FreshCounts ==
  \A m, s, pages, d : /\ IsFiniteSet(Fresh(m, s, pages, d))
                      /\ Cardinality(Fresh(m, s, pages, d)) \in Nat
<1> SUFFICES ASSUME NEW m, NEW s, NEW pages, NEW d
             PROVE  IsFiniteSet(Fresh(m, s, pages, d))
  BY FS_CardinalityType
<1>1. Fresh(m, s, pages, d) \subseteq Ids
  BY DEF Fresh
<1> QED
  BY <1>1, PersistAssumption, FS_Subset

\* Counts that cover a snapshot still do when less is held.
LEMMA CoversSame ==
  ASSUME NEW m, NEW pages, NEW held, NEW s, Covers(m, pages, held, s),
         m.dedup \in DedupTables, s.dedup \in DedupTables,
         NEW m2, m2.index = m.index, m2.dedup = m.dedup,
         NEW s2, s2.index = s.index, s2.dedup = s.dedup,
         NEW pages2, \A id \in Ids : m.index[id] # 0 => pages2[m.index[id]] = pages[m.index[id]],
         NEW held2, held2 \subseteq held
  PROVE  Covers(m2, pages2, held2, s2)
<1> SUFFICES ASSUME NEW d \in Dims, s.dedup[d].block # 0
             PROVE  /\ m.dedup[d].block = s.dedup[d].block
                    /\ s.dedup[d].count + Cardinality(Fresh(m2, s2, pages2, d))
                         + (IF d \in held2 THEN 1 ELSE 0) <= m.dedup[d].count
  BY DEF Covers
<1>1. Fresh(m2, s2, pages2, d) = Fresh(m, s, pages, d)
  BY DEF Fresh
<1>2. s.dedup[d].count \in Nat /\ m.dedup[d].count \in Nat
  BY DEF DedupTables
<1>3. /\ m.dedup[d].block = s.dedup[d].block
      /\ s.dedup[d].count + Cardinality(Fresh(m, s, pages, d)) + (IF d \in held THEN 1 ELSE 0)
           <= m.dedup[d].count
  BY DEF Covers
<1> QED
  BY <1>1, <1>2, <1>3, FreshCounts

\* From one state to the next a snapshot survives.
Survives(e, m, pages, m2, pages2, held2) ==
  /\ e.index # m2.sb.index
  /\ \A b \in NamedBy(e, pages) : b # 0 => b \in m2.used /\ pages2[b] = pages[b]
  /\ Covers(m2, pages2, held2, EntryImage(e, pages, m.used))

LEMMA EntrySurvives ==
  ASSUME NEW m, NEW pages, NEW held, NEW of, NEW e, EntryGood(m, pages, held, of, e),
         NEW m2, NEW pages2, NEW held2, Survives(e, m, pages, m2, pages2, held2)
  PROVE  EntryGood(m2, pages2, held2, of, e)
<1> DEFINE s == EntryImage(e, pages, m.used)
           t == EntryImage(e, pages2, m2.used)
<1>1. /\ e.index # 0 /\ Image(s, pages, {}) /\ HoldsOf(of, s.index, pages)
      /\ s.index = IndexIn(pages, e.index) /\ s.dedup = DedupIn(pages, e.dedup)
      /\ t.index = IndexIn(pages2, e.index) /\ t.dedup = DedupIn(pages2, e.dedup)
  BY EntryIs DEF EntryGood
<1>2. /\ t.index = s.index /\ t.dedup = s.dedup /\ Image(t, pages2, {})
      /\ HoldsOf(of, t.index, pages2)
  BY <1>1, EntryKept DEF Survives
<1>3. Covers(m2, pages2, held2, s) /\ e.index # m2.sb.index
  BY DEF Survives
<1> HIDE DEF s, t
<1>4. Covers(m2, pages2, held2, t)
  BY <1>2, <1>3 DEF Covers, Fresh
<1>5. e.index # 0
  BY <1>1
<1> QED
  BY <1>2, <1>3, <1>4, <1>5 DEF EntryGood, t

\* Two snapshots that survive are as they were.
LEMMA NestedKept ==
  ASSUME NEW pages \in [Blocks -> Pages], NEW e \in Entry, NEW f \in Entry, NEW used,
         Image(EntryImage(e, pages, used), pages, {}),
         Image(EntryImage(f, pages, used), pages, {}),
         NEW pages2, NEW used2,
         \A b \in NamedBy(e, pages) : b # 0 => b \in used2 /\ pages2[b] = pages[b],
         \A b \in NamedBy(f, pages) : b # 0 => b \in used2 /\ pages2[b] = pages[b],
         Nested(e, f, pages)
  PROVE  Nested(e, f, pages2)
<1> DEFINE s == EntryImage(e, pages, {})
           s2 == EntryImage(e, pages2, {})
           t == EntryImage(f, pages, {})
           t2 == EntryImage(f, pages2, {})
<1>1. /\ s.index = IndexIn(pages, e.index) /\ s.dedup = DedupIn(pages, e.dedup)
      /\ s2.index = IndexIn(pages2, e.index) /\ s2.dedup = DedupIn(pages2, e.dedup)
      /\ t.index = IndexIn(pages, f.index) /\ t.dedup = DedupIn(pages, f.dedup)
      /\ t2.index = IndexIn(pages2, f.index) /\ t2.dedup = DedupIn(pages2, f.dedup)
  BY EntryIs
<1>2. /\ IndexIn(pages2, e.index) = IndexIn(pages, e.index)
      /\ DedupIn(pages2, e.dedup) = DedupIn(pages, e.dedup)
  BY EntryKept
<1>3. /\ IndexIn(pages2, f.index) = IndexIn(pages, f.index)
      /\ DedupIn(pages2, f.dedup) = DedupIn(pages, f.dedup)
  BY EntryKept
<1>4. s.dedup \in DedupTables /\ t.dedup \in DedupTables
  BY <1>1, ReadTypes DEF Entry
<1>5. \A id \in Ids : s.index[id] # 0 => pages2[s.index[id]] = pages[s.index[id]]
  BY <1>1 DEF NamedBy
<1>6. Covers(s, pages, {}, t)
  BY DEF Nested
<1> HIDE DEF s, s2, t, t2
<1>7. Covers(s2, pages2, {}, t2)
  BY <1>1, <1>2, <1>3, <1>4, <1>5, <1>6, CoversSame
<1> QED
  BY <1>7 DEF Nested, s2, t2

\* The history with some snapshots spoiled.
Thinned(snaps2, snaps) ==
  /\ DOMAIN snaps2 = DOMAIN snaps
  /\ \A k \in DOMAIN snaps : snaps2[k].of = snaps[k].of /\ (snaps2[k].intact => snaps[k].intact)

LEMMA SnapsSurvive ==
  ASSUME NEW m, NEW pages \in [Blocks -> Pages], NEW held, NEW snaps,
         m.sb.snapshot \in Pointers, SnapsGood(snaps, m, pages, held),
         NEW m2, NEW pages2, NEW held2, NEW snaps2, Thinned(snaps2, snaps),
         m2.sb.snapshot = m.sb.snapshot,
         \A k \in IntactIn(snaps2) :
           /\ m.sb.snapshot \in m2.used /\ m2.sb.index # 0
           /\ pages2[m.sb.snapshot] = pages[m.sb.snapshot]
           /\ Survives(TableIn(pages, m.sb.snapshot)[k], m, pages, m2, pages2, held2)
  PROVE  SnapsGood(snaps2, m2, pages2, held2)
<1> DEFINE table == TableIn(pages, m.sb.snapshot)
<1>1. table \in Seq(Entry)
  BY ReadTypes
<1>2. \A k \in IntactIn(snaps2) : k \in IntactIn(snaps) /\ snaps2[k].of = snaps[k].of
  BY DEF Thinned, IntactIn
<1>3. \A k \in IntactIn(snaps) :
        /\ k \in DOMAIN table /\ table[k] \in Entry
        /\ EntryGood(m, pages, held, snaps[k].of, table[k])
        /\ \A j \in IntactIn(snaps) : j < k => Nested(table[k], table[j], pages)
  BY <1>1 DEF SnapsGood
<1>4. \A k \in IntactIn(snaps2) : TableIn(pages2, m2.sb.snapshot) = table
  BY DEF TableIn, PageIn
<1> HIDE DEF table
<1>5. \A k \in IntactIn(snaps2) : Survives(table[k], m, pages, m2, pages2, held2)
  BY DEF table
<1>6. ASSUME NEW k \in IntactIn(snaps2)
      PROVE  EntryGood(m2, pages2, held2, snaps2[k].of, table[k])
  BY <1>2, <1>3, <1>5, EntrySurvives
<1>7. ASSUME NEW k \in IntactIn(snaps2), NEW j \in IntactIn(snaps2), j < k
      PROVE  Nested(table[k], table[j], pages2)
  <2>1. /\ Image(EntryImage(table[k], pages, m.used), pages, {})
        /\ Image(EntryImage(table[j], pages, m.used), pages, {})
    BY <1>2, <1>3 DEF EntryGood
  <2>2. /\ table[k] \in Entry /\ table[j] \in Entry /\ Nested(table[k], table[j], pages)
    BY <1>2, <1>3, <1>7
  <2>3. /\ \A b \in NamedBy(table[k], pages) : b # 0 => b \in m2.used /\ pages2[b] = pages[b]
        /\ \A b \in NamedBy(table[j], pages) : b # 0 => b \in m2.used /\ pages2[b] = pages[b]
    BY <1>5 DEF Survives
  <2> QED
    BY <2>1, <2>2, <2>3, NestedKept
<1> QED
  BY <1>2, <1>3, <1>4, <1>6, <1>7 DEF SnapsGood

\* What can be said of a snapshot that is intact.
LEMMA IntactIs ==
  ASSUME NEW m, NEW pages \in [Blocks -> Pages], NEW held, NEW snaps, m.sb.snapshot \in Pointers,
         SnapsGood(snaps, m, pages, held), NEW k \in IntactIn(snaps)
  PROVE  LET table == TableIn(pages, m.sb.snapshot)
             s == EntryImage(table[k], pages, m.used)
         IN  /\ k \in DOMAIN table /\ table[k] \in Entry
             /\ m.sb.snapshot \in m.used /\ m.sb.snapshot # 0
             /\ pages[m.sb.snapshot].kind = "table" /\ m.sb.index # 0
             /\ EntryGood(m, pages, held, snaps[k].of, table[k])
             /\ s.index = IndexIn(pages, table[k].index) /\ s.index \in Indexes
             /\ s.dedup = DedupIn(pages, table[k].dedup) /\ s.dedup \in DedupTables
             /\ \A b \in NamedBy(table[k], pages) : b # 0 =>
                  /\ b \in m.used /\ pages[b].kind \in {"index", "dedup", "leaf", "dim"}
                  /\ pages[b].kind = "index" => b = table[k].index
                  /\ pages[b].kind = "dedup" => b = table[k].dedup
<1> DEFINE table == TableIn(pages, m.sb.snapshot)
           s == EntryImage(table[k], pages, m.used)
<1>1. /\ table \in Seq(Entry)
      /\ m.sb.snapshot = 0 \/ pages[m.sb.snapshot].kind # "table" => table = << >>
  BY ReadTypes
<1>2. /\ k \in DOMAIN table /\ m.sb.snapshot \in m.used /\ m.sb.index # 0
      /\ EntryGood(m, pages, held, snaps[k].of, table[k])
  BY DEF SnapsGood
<1>3. table[k] \in Entry /\ m.sb.snapshot # 0 /\ pages[m.sb.snapshot].kind = "table"
  BY <1>1, <1>2
<1> HIDE DEF table
<1>4. /\ s.index = IndexIn(pages, table[k].index) /\ s.dedup = DedupIn(pages, table[k].dedup)
  BY EntryIs
<1>5. s.index \in Indexes /\ s.dedup \in DedupTables
  BY <1>3, <1>4, ReadTypes DEF Entry
<1>6. Image(s, pages, {})
  BY <1>2 DEF EntryGood
<1>7. \A b \in NamedBy(table[k], pages) : b # 0 =>
        /\ b \in m.used /\ pages[b].kind \in {"index", "dedup", "leaf", "dim"}
        /\ pages[b].kind = "index" => b = table[k].index
        /\ pages[b].kind = "dedup" => b = table[k].dedup
  BY <1>6, NamedKinds
<1> QED
  BY <1>2, <1>3, <1>4, <1>5, <1>7 DEF table, s

-----------------------------------------------------------------------------
(* The counts above those of a snapshot                                    *)

\* write_dimension_data: one more reference, or a page that no snapshot had.
LEMMA CoversCounts ==
  ASSUME NEW m, NEW pages, NEW held, NEW s, Covers(m, pages, held, s),
         m.dedup \in DedupTables, s.dedup \in DedupTables,
         NEW d \in Dims, NEW m2, m2.index = m.index,
         \/ m.dedup[d].block = 0
         \/ m2.dedup[d].block = m.dedup[d].block /\ m2.dedup[d].count = m.dedup[d].count + 1,
         \A e \in Dims : e # d => m2.dedup[e] = m.dedup[e],
         NEW pages2, \A id \in Ids : m.index[id] # 0 => pages2[m.index[id]] = pages[m.index[id]],
         d \notin held, NEW held2, held2 \subseteq held \cup {d}
  PROVE  Covers(m2, pages2, held2, s)
<1> SUFFICES ASSUME NEW e \in Dims, s.dedup[e].block # 0
             PROVE  /\ m2.dedup[e].block = s.dedup[e].block
                    /\ s.dedup[e].count + Cardinality(Fresh(m2, s, pages2, e))
                         + (IF e \in held2 THEN 1 ELSE 0) <= m2.dedup[e].count
  BY DEF Covers
<1>1. Fresh(m2, s, pages2, e) = Fresh(m, s, pages, e)
  BY DEF Fresh
<1>2. s.dedup[e].count \in Nat /\ m.dedup[e].count \in Nat
  BY DEF DedupTables
<1>3. /\ m.dedup[e].block = s.dedup[e].block
      /\ s.dedup[e].count + Cardinality(Fresh(m, s, pages, e)) + (IF e \in held THEN 1 ELSE 0)
           <= m.dedup[e].count
  BY DEF Covers
<1>4. CASE e = d
  BY <1>1, <1>2, <1>3, <1>4, FreshCounts
<1>5. CASE e # d
  BY <1>1, <1>2, <1>3, <1>5, FreshCounts
<1> QED
  BY <1>4, <1>5

\* write_particle_data: the new leaf takes over what was held.
LEMMA CoversIndexes ==
  ASSUME NEW m, NEW pages, NEW id \in Ids, NEW at, NEW s,
         Covers(m, pages, {d \in Dims : at[d] # 0}, s),
         m.dedup \in DedupTables, s.dedup \in DedupTables,
         NEW new, NEW m2, m2.index[id] = new, \A i \in Ids : i # id => m2.index[i] = m.index[i],
         m2.dedup = m.dedup, NEW pages2, pages2[new] = LeafPage(id, at),
         \A i \in Ids : m.index[i] # 0 => pages2[m.index[i]] = pages[m.index[i]]
  PROVE  Covers(m2, pages2, {}, s)
<1> SUFFICES ASSUME NEW d \in Dims, s.dedup[d].block # 0
             PROVE  /\ m.dedup[d].block = s.dedup[d].block
                    /\ s.dedup[d].count + Cardinality(Fresh(m2, s, pages2, d)) <= m.dedup[d].count
  <2>1. \A d \in Dims : s.dedup[d].count + Cardinality(Fresh(m2, s, pages2, d)) \in Nat
    BY FreshCounts DEF DedupTables
  <2> QED
    BY <2>1 DEF Covers
<1> DEFINE before == Fresh(m, s, pages, d)
           after == Fresh(m2, s, pages2, d)
<1>1. s.dedup[d].count \in Nat /\ m.dedup[d].count \in Nat
  BY DEF DedupTables
<1>2. /\ m.dedup[d].block = s.dedup[d].block
      /\ s.dedup[d].count + Cardinality(before) + (IF at[d] # 0 THEN 1 ELSE 0) <= m.dedup[d].count
  BY DEF Covers
<1>3. /\ IsFiniteSet(before) /\ Cardinality(before) \in Nat
      /\ IsFiniteSet(after) /\ Cardinality(after) \in Nat
  BY FreshCounts
<1>4. pages2[new].at = at
  BY DEF LeafPage
<1>5. \A i \in after : i = id \/ i \in before
  BY DEF Fresh
<1>6. id \in after => at[d] # 0
  BY <1>4 DEF Fresh
<1> HIDE DEF before, after
<1>7. CASE at[d] # 0
  <2>1. /\ IsFiniteSet(before \cup {id})
        /\ Cardinality(before \cup {id}) =
             IF id \in before THEN Cardinality(before) ELSE Cardinality(before) + 1
    BY <1>3, FS_AddElement
  <2>2. after \subseteq before \cup {id}
    BY <1>5
  <2>3. Cardinality(after) <= Cardinality(before \cup {id})
    BY <2>1, <2>2, FS_Subset
  <2> QED
    BY <1>1, <1>2, <1>3, <1>7, <2>1, <2>3 DEF after
<1>8. CASE at[d] = 0
  <2>1. after \subseteq before
    BY <1>5, <1>6, <1>8
  <2>2. Cardinality(after) <= Cardinality(before)
    BY <1>3, <2>1, FS_Subset
  <2> QED
    BY <1>1, <1>2, <1>3, <1>8, <2>2 DEF after
<1> QED
  BY <1>7, <1>8

\* delete of a leaf that the snapshot does not name: the reference that goes is
\* above those of the snapshot, whose pages stay.
LEMMA CoversDeletes ==
  ASSUME NEW m \in Stores, NEW pages, Image(m, pages, {}), NEW id \in Ids,
         NEW blocks \in SUBSET Blocks,
         \A b : b \in blocks <=> m.index[id] # 0 /\ b # 0
                                  /\ \E d \in Dims : pages[m.index[id]].at[d] = b,
         NEW m2, m2.index = [m.index EXCEPT ![id] = 0],
         m2.used = Shed(m, blocks).used \ {m.index[id]},
         m2.sb = m.sb, m2.dedup = Shed(m, blocks).dedup,
         NEW s, s.dedup \in DedupTables, Covers(m, pages, {}, s),
         m.index[id] # 0 => s.index[id] # m.index[id]
  PROVE  /\ Covers(m2, pages, {}, s)
         /\ \A d \in Dims : s.dedup[d].block # 0 => s.dedup[d].block \notin {b \in blocks : Unshared(m, b)}
<1> DEFINE F(d) == Fresh(m, s, pages, d)
           leaf == pages[m.index[id]]
<1>1. m2.dedup = [d \in Dims |->
                    IF m.dedup[d].block \notin blocks THEN m.dedup[d]
                    ELSE IF m.dedup[d].count <= 1 THEN NoDedup[d]
                    ELSE [block |-> m.dedup[d].block, count |-> m.dedup[d].count - 1]]
  BY DEF Shed, With
<1>2. /\ m2.index[id] = 0 /\ \A i \in Ids : i # id => m2.index[i] = m.index[i]
      /\ 0 \notin blocks
  BY DEF Stores, Indexes, Blocks
<1>3. ASSUME NEW d \in Dims, s.dedup[d].block # 0
      PROVE  /\ m.dedup[d].block = s.dedup[d].block
             /\ s.dedup[d].count + Cardinality(F(d)) <= m.dedup[d].count
             /\ s.dedup[d].count \in Nat /\ s.dedup[d].count # 0 /\ m.dedup[d].count \in Nat
  <2>1. s.dedup[d].count \in Nat /\ s.dedup[d].count # 0 /\ m.dedup[d].count \in Nat
    BY <1>3 DEF DedupTables, Stores
  <2>2. /\ m.dedup[d].block = s.dedup[d].block
        /\ s.dedup[d].count + Cardinality(F(d)) + 0 <= m.dedup[d].count
    BY <1>3 DEF Covers
  <2> QED
    BY <2>1, <2>2, FreshCounts
<1>4. ASSUME NEW d \in Dims, m.dedup[d].block \in blocks PROVE id \in F(d)
  <2>1. m.index[id] # 0 /\ m.dedup[d].block # 0
    BY <1>4
  <2>2. PICK e \in Dims : leaf.at[e] = m.dedup[d].block
    BY <1>4
  <2>3. m.dedup[e].block = m.dedup[d].block
    BY <2>1, <2>2 DEF Image, Leaves
  <2>4. d = e
    BY <2>1, <2>3, ImageSharesOnce DEF SharedOnce
  <2> QED
    BY <2>1, <2>2, <2>4 DEF Fresh
<1>5. \A d \in Dims : Fresh(m2, s, pages, d) = F(d) \ {id}
  BY <1>2 DEF Fresh
<1>6. \A d \in Dims : /\ IsFiniteSet(F(d)) /\ Cardinality(F(d)) \in Nat
                      /\ Cardinality(F(d) \ {id}) =
                           IF id \in F(d) THEN Cardinality(F(d)) - 1 ELSE Cardinality(F(d))
                      /\ Cardinality(F(d) \ {id}) \in Nat
  <2> SUFFICES ASSUME NEW d \in Dims
               PROVE  /\ IsFiniteSet(F(d)) /\ Cardinality(F(d)) \in Nat
                      /\ Cardinality(F(d) \ {id}) =
                           IF id \in F(d) THEN Cardinality(F(d)) - 1 ELSE Cardinality(F(d))
                      /\ Cardinality(F(d) \ {id}) \in Nat
    OBVIOUS
  <2>1. IsFiniteSet(F(d)) /\ Cardinality(F(d)) \in Nat
    BY FreshCounts
  <2> HIDE DEF F
  <2> QED
    BY <2>1, FS_RemoveElement, FS_CardinalityType
<1> HIDE DEF F
<1>7. ASSUME NEW d \in Dims, s.dedup[d].block # 0
      PROVE  /\ m2.dedup[d].block = s.dedup[d].block
             /\ s.dedup[d].count + Cardinality(F(d) \ {id}) <= m2.dedup[d].count
             /\ m.dedup[d].block \in blocks => m.dedup[d].count > 1
  <2>1. CASE m.dedup[d].block \notin blocks
    <3>1. m2.dedup[d] = m.dedup[d]
      BY <1>1, <2>1
    <3> QED
      BY <1>3, <1>6, <1>7, <2>1, <3>1
  <2>2. CASE m.dedup[d].block \in blocks
    <3>1. /\ Cardinality(F(d) \ {id}) = Cardinality(F(d)) - 1 /\ Cardinality(F(d)) \in Nat
          /\ Cardinality(F(d) \ {id}) \in Nat
      BY <1>4, <1>6, <2>2
    <3>2. m.dedup[d].count > 1
      BY <1>3, <1>7, <3>1
    <3>3. m2.dedup[d] = [block |-> m.dedup[d].block, count |-> m.dedup[d].count - 1]
      BY <1>1, <1>3, <1>7, <2>2, <3>2
    <3> QED
      BY <1>3, <1>7, <3>1, <3>2, <3>3
  <2> QED
    BY <2>1, <2>2
<1>8. Covers(m2, pages, {}, s)
  <2> SUFFICES ASSUME NEW d \in Dims, s.dedup[d].block # 0
               PROVE  /\ m2.dedup[d].block = s.dedup[d].block
                      /\ s.dedup[d].count + Cardinality(F(d) \ {id}) + 0 <= m2.dedup[d].count
    BY <1>5 DEF Covers
  <2>1. s.dedup[d].count + Cardinality(F(d) \ {id}) \in Nat
    BY <1>3, <1>6
  <2> QED
    BY <1>7, <2>1
<1>9. ASSUME NEW d \in Dims, s.dedup[d].block # 0, s.dedup[d].block \in blocks,
             Unshared(m, s.dedup[d].block)
      PROVE  FALSE
  <2>1. m.dedup[d].block = s.dedup[d].block /\ m.dedup[d].count \in Nat
    BY <1>3, <1>9
  <2>2. m.dedup[d].count > 1
    BY <1>7, <1>9, <2>1
  <2>3. m.dedup[d].count <= 1
    BY <1>9, <2>1 DEF Unshared
  <2> QED
    BY <2>1, <2>2, <2>3
<1> QED
  BY <1>8, <1>9

-----------------------------------------------------------------------------
(* The snapshots from one state to the next                                *)

\* What is said of the next state is said of its parts.
LEMMA SnapsNext ==
  ASSUME SnapsGood(taken', mem', disk'.pages, Held')
  PROVE  SnapsGood(taken, mem, disk.pages, Held)'
BY Zenon DEF SnapsGood, IntactIn, TableIn, PageIn, EntryGood, EntryImage, IndexIn, DedupIn, Image,
       Tables, Leaves, Shared, Counted, HoldersOf, Covers, Fresh, HoldsOf, Nested, DimPage,
       NoIndex, NoDedup, NoPage

LEMMA FileSnapsNext ==
  ASSUME SnapsGood(taken', FileImage', disk'.pages, {})
  PROVE  SnapsGood(taken, FileImage, disk.pages, {})'
BY Zenon DEF SnapsGood, IntactIn, TableIn, PageIn, EntryGood, EntryImage, IndexIn, DedupIn, Image,
       Tables, Leaves, Shared, Counted, HoldersOf, Covers, Fresh, HoldsOf, Nested, DimPage,
       NoIndex, NoDedup, NoPage

LEMMA LiveTypes ==
  ASSUME Live
  PROVE  /\ mem \in Stores /\ mem.store \in Contentses /\ mem.modified \in SUBSET Ids
         /\ mem.index \in Indexes /\ mem.dedup \in DedupTables /\ mem.used \in SUBSET Blocks
         /\ mem.sb \in Superblocks
         /\ mem.sb.index \in Pointers /\ mem.sb.dedup \in Pointers /\ mem.sb.snapshot \in Pointers
         /\ disk \in Disks /\ disk.pages \in [Blocks -> Pages] /\ disk.used \in SUBSET Blocks
         /\ disk.sb \in Superblocks /\ disk.sb.snapshot \in Pointers
         /\ expected \in Contentses /\ todo \in SUBSET Ids
         /\ work # None => work \in [id : Ids, content : SUBSET Dims, at : [Dims -> Pointers]]
         /\ 0 \notin mem.used /\ log.entries \in Nat
BY DEF Live, PersistTypes, Stores, Disks, Contentses, Superblocks, Blocks

\* The history after some snapshots were spoiled.
LEMMA SpoiledIs ==
  ASSUME taken \in Seq(Records), NEW which, taken' = Spoiled(which)
  PROVE  /\ taken' \in Seq(Records) /\ Len(taken') = Len(taken) /\ Thinned(taken', taken)
         /\ \A k \in IntactIn(taken') : k \notin which
<1>1. taken' = [k \in 1 .. Len(taken) |-> [taken[k] EXCEPT !.intact = @ /\ k \notin which]]
  BY DEF Spoiled
<1>2. ASSUME NEW k \in 1 .. Len(taken)
      PROVE  /\ taken'[k] \in Records /\ taken'[k].of = taken[k].of
             /\ taken'[k].intact = (taken[k].intact /\ k \notin which)
  <2>1. taken[k] \in Records
    OBVIOUS
  <2>2. taken'[k] = [taken[k] EXCEPT !.intact = @ /\ k \notin which]
    BY <1>1
  <2> QED
    BY <2>1, <2>2 DEF Records
<1>3. Len(taken) \in Nat /\ DOMAIN taken = 1 .. Len(taken) /\ DOMAIN taken' = 1 .. Len(taken)
  BY <1>1
<1>4. taken' \in Seq(Records) /\ Len(taken') = Len(taken)
  <2>1. taken' \in [1 .. Len(taken) -> Records]
    BY <1>1, <1>2
  <2> QED
    BY <1>3, <2>1
<1> QED
  BY <1>2, <1>3, <1>4 DEF Thinned, IntactIn

LEMMA TakenSame ==
  ASSUME taken' = taken
  PROVE  Thinned(taken', taken)
BY DEF Thinned

\* The snapshots after a step of a running store.
LEMMA SnapsStep ==
  ASSUME Live, Snaps, Running, Running',
         taken' \in Seq(Records), Len(taken') = Len(taken), Thinned(taken', taken),
         mem'.sb.snapshot = mem.sb.snapshot, disk' \in Disks,
         mem.sb.snapshot # 0 => \/ disk'.pages[mem.sb.snapshot] = disk.pages[mem.sb.snapshot]
                                \/ disk'.pages[mem.sb.snapshot].kind # "table",
         \/ disk'.sb.snapshot = mem.sb.snapshot
         \/ disk'.sb.snapshot = disk.sb.snapshot /\ (pc = "snap_sb" => pc' = "snap_sb"),
         pc' \in {"compact", "compact_sb"} => pc \in {"compact", "compact_sb"} \/ IntactIn(taken') = {},
         \A k \in IntactIn(taken') :
           /\ mem.sb.snapshot \in mem'.used /\ mem'.sb.index # 0
           /\ disk'.pages[mem.sb.snapshot] = disk.pages[mem.sb.snapshot]
           /\ Survives(TableIn(disk.pages, mem.sb.snapshot)[k], mem, disk.pages,
                       mem', disk'.pages, Held')
  PROVE  Snaps'
<1>1. disk.pages \in [Blocks -> Pages] /\ disk'.pages \in [Blocks -> Pages]
      /\ mem.sb.snapshot \in Pointers
  BY LiveTypes DEF Disks
<1>2. SnapsGood(taken, mem, disk.pages, Held)'
  <2>1. SnapsGood(taken, mem, disk.pages, Held)
    BY DEF Snaps
  <2>2. SnapsGood(taken', mem', disk'.pages, Held')
    BY <1>1, <2>1, SnapsSurvive
  <2> QED
    BY <2>2, SnapsNext
<1>3. TableLength' <= Len(taken')
  <2> DEFINE old == TableIn(disk.pages, mem.sb.snapshot)
             new == TableIn(disk'.pages, mem.sb.snapshot)
  <2>1. Len(old) <= Len(taken) /\ TableLength' = Len(new)
    BY DEF Snaps, TableLength, TableIn, PageIn
  <2>2. new = old \/ new = << >>
    <3>1. CASE mem.sb.snapshot = 0
      BY <3>1 DEF TableIn, PageIn
    <3>2. CASE mem.sb.snapshot # 0
      BY <3>2 DEF TableIn, PageIn
    <3> QED
      BY <3>1, <3>2
  <2>3. Len(<< >>) = 0 /\ Len(taken) \in Nat
    BY DEF Snaps
  <2> HIDE DEF old, new
  <2> QED
    BY <2>1, <2>2, <2>3
<1>4. Running' /\ pc' # "snap_sb" => disk'.sb.snapshot = mem'.sb.snapshot
  BY DEF Snaps
<1>5. IntactIn(taken') \subseteq IntactIn(taken)
  BY DEF Thinned, IntactIn
<1>6. pc' \in {"compact", "compact_sb"} => IntactIn(taken') = {}
  BY <1>5 DEF Snaps
<1>7. IntactIn(taken)' = IntactIn(taken')
  BY DEF IntactIn
<1> QED
  BY <1>2, <1>3, <1>4, <1>6, <1>7 DEF Snaps

\* The leaves that the index names are in use.
LEMMA LeavesUsed ==
  ASSUME Live, Running
  PROVE  /\ Image(mem, disk.pages, Held)
         /\ \A id \in Ids : mem.index[id] # 0 =>
              mem.index[id] \in mem.used /\ disk.pages[mem.index[id]].kind = "leaf"
                /\ disk.pages[mem.index[id]].id = id
         /\ mem.sb.index # 0 => mem.sb.index \in mem.used /\ disk.pages[mem.sb.index].kind = "index"
         /\ mem.sb.dedup # 0 => mem.sb.dedup \in mem.used /\ disk.pages[mem.sb.dedup].kind = "dedup"
BY DEF Live, StoreGood, Image, Leaves, Tables

\* Counts that cover a snapshot still do.
LEMMA CoversNext ==
  ASSUME NEW s, s.dedup \in DedupTables, mem.dedup \in DedupTables,
         Covers(mem, disk.pages, Held, s),
         mem'.index = mem.index, mem'.dedup = mem.dedup, Held' \subseteq Held,
         \A id \in Ids : mem.index[id] # 0 =>
           disk'.pages[mem.index[id]] = disk.pages[mem.index[id]]
  PROVE  Covers(mem', disk'.pages, Held', s)
BY CoversSame

\* What an intact snapshot is, in a running store.
NamedWell(e) ==
  \A b \in NamedBy(e, disk.pages) : b # 0 =>
    /\ b \in mem.used
    /\ disk.pages[b].kind = "index" => b = e.index
    /\ disk.pages[b].kind = "dedup" => b = e.dedup
    /\ disk.pages[b].kind # "table"

LEMMA TakenIs ==
  ASSUME Live, Snaps, Running, NEW k \in IntactIn(taken)
  PROVE  LET e == TableIn(disk.pages, mem.sb.snapshot)[k]
             s == EntryImage(e, disk.pages, mem.used)
         IN  /\ k \in DOMAIN TableIn(disk.pages, mem.sb.snapshot)
             /\ e \in Entry /\ e.index # 0 /\ e.index # mem.sb.index
             /\ mem.sb.snapshot \in mem.used /\ mem.sb.snapshot # 0
             /\ disk.pages[mem.sb.snapshot].kind = "table" /\ mem.sb.index # 0
             /\ s.index = IndexIn(disk.pages, e.index) /\ s.index \in Indexes
             /\ s.dedup = DedupIn(disk.pages, e.dedup) /\ s.dedup \in DedupTables
             /\ Image(s, disk.pages, {})
             /\ Covers(mem, disk.pages, Held, s)
             /\ HoldsOf(taken[k].of, s.index, disk.pages)
             /\ NamedWell(e)
<1> DEFINE e == TableIn(disk.pages, mem.sb.snapshot)[k]
           s == EntryImage(e, disk.pages, mem.used)
<1>1. SnapsGood(taken, mem, disk.pages, Held) /\ disk.pages \in [Blocks -> Pages]
      /\ mem.sb.snapshot \in Pointers
  BY LiveTypes DEF Snaps
<1>2. SnapsGood(taken, mem, disk.pages, Held)
      => /\ k \in DOMAIN TableIn(disk.pages, mem.sb.snapshot)
         /\ mem.sb.snapshot \in mem.used /\ mem.sb.index # 0
         /\ EntryGood(mem, disk.pages, Held, taken[k].of, e)
  BY DEF SnapsGood
<1>3. /\ TableIn(disk.pages, mem.sb.snapshot) \in Seq(Entry)
      /\ mem.sb.snapshot = 0 \/ disk.pages[mem.sb.snapshot].kind # "table" =>
           TableIn(disk.pages, mem.sb.snapshot) = << >>
  BY <1>1, ReadTypes
<1>4. e \in Entry /\ mem.sb.snapshot # 0 /\ disk.pages[mem.sb.snapshot].kind = "table"
  BY <1>1, <1>2, <1>3
<1> HIDE DEF e
<1>5. /\ s.index = IndexIn(disk.pages, e.index) /\ s.index \in Indexes
      /\ s.dedup = DedupIn(disk.pages, e.dedup) /\ s.dedup \in DedupTables
  BY <1>1, <1>4, EntryIs, ReadTypes DEF Entry
<1>6. e.index # 0 /\ e.index # mem.sb.index /\ Image(s, disk.pages, {})
      /\ Covers(mem, disk.pages, Held, s) /\ HoldsOf(taken[k].of, s.index, disk.pages)
  BY <1>1, <1>2 DEF EntryGood
<1>7. NamedWell(e)
  <2>1. \A b \in NamedBy(e, disk.pages) : b # 0 =>
          /\ b \in mem.used /\ disk.pages[b].kind \in {"index", "dedup", "leaf", "dim"}
          /\ disk.pages[b].kind = "index" => b = e.index
          /\ disk.pages[b].kind = "dedup" => b = e.dedup
    BY <1>6, NamedKinds
  <2> QED
    BY <2>1 DEF NamedWell
<1> QED
  BY <1>1, <1>2, <1>4, <1>5, <1>6, <1>7 DEF e

\* Most steps leave what the tables name alone.
LEMMA SnapsQuiet ==
  ASSUME Live, Snaps, Running, Running',
         taken' \in Seq(Records), Len(taken') = Len(taken), Thinned(taken', taken),
         mem'.index = mem.index, mem'.dedup = mem.dedup, mem.used \subseteq mem'.used,
         mem'.sb = mem.sb, disk' \in Disks, disk'.pages = disk.pages,
         \/ disk'.sb = mem.sb
         \/ disk'.sb = disk.sb /\ (pc = "snap_sb" => pc' = "snap_sb"),
         pc' \in {"compact", "compact_sb"} => pc \in {"compact", "compact_sb"},
         Held' \subseteq Held
  PROVE  Snaps'
<1> DEFINE table == TableIn(disk.pages, mem.sb.snapshot)
<1>1. ASSUME NEW k \in IntactIn(taken')
      PROVE  /\ mem.sb.snapshot \in mem'.used /\ mem'.sb.index # 0
             /\ Survives(table[k], mem, disk.pages, mem', disk'.pages, Held')
  <2>1. k \in IntactIn(taken)
    BY DEF Thinned, IntactIn
  <2>2. SnapsGood(taken, mem, disk.pages, Held) /\ disk.pages \in [Blocks -> Pages]
        /\ mem.sb.snapshot \in Pointers /\ mem.dedup \in DedupTables
    BY LiveTypes DEF Snaps
  <2> DEFINE s == EntryImage(table[k], disk.pages, mem.used)
  <2>3. /\ mem.sb.snapshot \in mem.used /\ mem.sb.index # 0
        /\ EntryGood(mem, disk.pages, Held, taken[k].of, table[k])
        /\ s.dedup \in DedupTables
        /\ \A b \in NamedBy(table[k], disk.pages) : b # 0 => b \in mem.used
    BY <2>1, <2>2, IntactIs
  <2>4. table[k].index # mem.sb.index /\ Covers(mem, disk.pages, Held, s)
    BY <2>3 DEF EntryGood
  <2> HIDE DEF table, s
  <2>5. Covers(mem', disk'.pages, Held', s)
    BY <2>2, <2>3, <2>4, CoversNext
  <2> QED
    BY <2>3, <2>4, <2>5 DEF Survives, s
<1>2. \/ disk'.sb.snapshot = mem.sb.snapshot
      \/ disk'.sb.snapshot = disk.sb.snapshot /\ (pc = "snap_sb" => pc' = "snap_sb")
  OBVIOUS
<1> HIDE DEF table
<1> QED
  BY <1>1, <1>2, SnapsStep DEF table

\* The block of a table is freed, and what is written is no snapshot table.
Surrendered(old) ==
  /\ \A b \in Blocks : disk'.pages[b] = disk.pages[b] \/ disk'.pages[b].kind # "table"
  /\ \A b \in mem.used : b # old => b \in mem'.used /\ disk'.pages[b] = disk.pages[b]
  /\ \/ /\ old = mem.sb.index
        /\ mem'.sb.index # 0 /\ mem'.sb.index \notin mem.used \ {old}
     \/ /\ old = mem.sb.dedup /\ mem'.sb.index = mem.sb.index
        /\ \A k \in IntactIn(taken') :
             old # 0 => TableIn(disk.pages, mem.sb.snapshot)[k].dedup # old

\* A block that is freed and what is written are nothing that a snapshot names.
LEMMA SnapsGiven ==
  ASSUME Live, Snaps, Running, Running', NEW old,
         taken' \in Seq(Records), Len(taken') = Len(taken), Thinned(taken', taken),
         mem'.index = mem.index, mem'.dedup = mem.dedup,
         mem'.sb.snapshot = mem.sb.snapshot, disk' \in Disks, disk'.sb = disk.sb,
         Surrendered(old),
         pc # "snap_sb",
         pc' \in {"compact", "compact_sb"} => pc \in {"compact", "compact_sb"},
         Held' \subseteq Held
  PROVE  Snaps'
<1> DEFINE table == TableIn(disk.pages, mem.sb.snapshot)
<1> DEFINE kept == /\ \A b \in Blocks : disk'.pages[b] = disk.pages[b] \/ disk'.pages[b].kind # "table"
                   /\ \A b \in mem.used : b # old => b \in mem'.used /\ disk'.pages[b] = disk.pages[b]
<1>3. kept
  BY DEF Surrendered
<1>1. ASSUME NEW k \in IntactIn(taken')
      PROVE  /\ mem.sb.snapshot \in mem'.used /\ mem'.sb.index # 0
             /\ disk'.pages[mem.sb.snapshot] = disk.pages[mem.sb.snapshot]
             /\ Survives(table[k], mem, disk.pages, mem', disk'.pages, Held')
  <2>1. k \in IntactIn(taken)
    BY DEF Thinned, IntactIn
  <2>2. mem.dedup \in DedupTables /\ 0 \notin mem.used
    BY LiveTypes
  <2> DEFINE s == EntryImage(table[k], disk.pages, mem.used)
  <2>3. /\ mem.sb.snapshot \in mem.used /\ mem.sb.index # 0
        /\ disk.pages[mem.sb.snapshot].kind = "table"
        /\ table[k].index # 0 /\ table[k].index # mem.sb.index
        /\ s.dedup \in DedupTables /\ Covers(mem, disk.pages, Held, s)
        /\ NamedWell(table[k])
    BY <2>1, TakenIs
  <2>5. /\ mem.sb.index \in mem.used /\ disk.pages[mem.sb.index].kind = "index"
        /\ mem.sb.dedup # 0 => mem.sb.dedup \in mem.used /\ disk.pages[mem.sb.dedup].kind = "dedup"
        /\ \A id \in Ids : mem.index[id] # 0 =>
             mem.index[id] \in mem.used /\ disk.pages[mem.index[id]].kind = "leaf"
    BY <2>3, LeavesUsed
  <2>6. table[k].index \in NamedBy(table[k], disk.pages)
    BY DEF NamedBy
  <2>7. \/ /\ old = mem.sb.index
           /\ mem'.sb.index # 0 /\ mem'.sb.index \notin mem.used \ {old}
        \/ /\ old = mem.sb.dedup /\ mem'.sb.index = mem.sb.index
           /\ old # 0 => table[k].dedup # old
    BY DEF Surrendered
  <2> HIDE DEF table, s
  <2>8. \A b \in NamedBy(table[k], disk.pages) : b # 0 => b \in mem.used /\ b # old
    BY <2>3, <2>5, <2>7 DEF NamedWell
  <2>9. \A b \in NamedBy(table[k], disk.pages) : b # 0 => b \in mem'.used /\ disk'.pages[b] = disk.pages[b]
    BY <1>3, <2>8
  <2>10. table[k].index # mem'.sb.index /\ mem'.sb.index # 0
    BY <2>3, <2>6, <2>7, <2>8
  <2>11. mem.sb.snapshot # old
    BY <2>2, <2>3, <2>5, <2>7
  <2>12. \A id \in Ids : mem.index[id] # 0 => disk'.pages[mem.index[id]] = disk.pages[mem.index[id]]
    BY <1>3, <2>2, <2>5, <2>7
  <2>13. Covers(mem', disk'.pages, Held', s)
    BY <2>2, <2>3, <2>12, CoversNext
  <2>14. Survives(table[k], mem, disk.pages, mem', disk'.pages, Held')
    BY <2>9, <2>10, <2>13 DEF Survives, s
  <2> QED
    BY <1>3, <2>3, <2>7, <2>10, <2>11, <2>14
<1>2. mem.sb.snapshot # 0 => mem.sb.snapshot \in Blocks
  BY LiveTypes DEF Pointers
<1> HIDE DEF table
<1> QED
  BY <1>1, <1>2, <1>3, SnapsStep DEF table

\* What is written to a free block is nothing that a snapshot names.
LEMMA SnapsWritten ==
  ASSUME Live, Snaps, Running, Running', NEW new, new \notin mem.used,
         taken' \in Seq(Records), Len(taken') = Len(taken), Thinned(taken', taken),
         mem'.sb = mem.sb, mem'.used \in {mem.used, mem.used \cup {new}},
         disk' \in Disks, disk'.sb = disk.sb,
         \A b \in Blocks : b # new => disk'.pages[b] = disk.pages[b],
         disk'.pages[new] = disk.pages[new] \/ disk'.pages[new].kind # "table",
         pc = "snap_sb" => pc' = "snap_sb",
         pc' \in {"compact", "compact_sb"} => pc \in {"compact", "compact_sb"},
         \A s : s.dedup \in DedupTables /\ Covers(mem, disk.pages, Held, s) =>
                  Covers(mem', disk'.pages, Held', s)
  PROVE  Snaps'
<1> DEFINE table == TableIn(disk.pages, mem.sb.snapshot)
<1>1. ASSUME NEW k \in IntactIn(taken')
      PROVE  /\ mem.sb.snapshot \in mem'.used /\ mem'.sb.index # 0
             /\ disk'.pages[mem.sb.snapshot] = disk.pages[mem.sb.snapshot]
             /\ Survives(table[k], mem, disk.pages, mem', disk'.pages, Held')
  <2>1. k \in IntactIn(taken)
    BY DEF Thinned, IntactIn
  <2> DEFINE s == EntryImage(table[k], disk.pages, mem.used)
  <2>2. mem.used \in SUBSET Blocks
    BY LiveTypes
  <2>3. /\ mem.sb.snapshot \in mem.used /\ mem.sb.index # 0
        /\ table[k].index # mem.sb.index
        /\ s.dedup \in DedupTables /\ Covers(mem, disk.pages, Held, s)
        /\ NamedWell(table[k])
    BY <2>1, TakenIs
  <2> HIDE DEF table, s
  <2>4. \A b \in mem.used : b \in mem'.used /\ disk'.pages[b] = disk.pages[b]
    BY <2>2
  <2>5. \A b \in NamedBy(table[k], disk.pages) : b # 0 => b \in mem'.used /\ disk'.pages[b] = disk.pages[b]
    BY <2>3, <2>4 DEF NamedWell
  <2>6. Covers(mem', disk'.pages, Held', s)
    BY <2>3
  <2>7. Survives(table[k], mem, disk.pages, mem', disk'.pages, Held')
    BY <2>3, <2>5, <2>6 DEF Survives, s
  <2> QED
    BY <2>3, <2>4, <2>7
<1>2. mem.sb.snapshot # 0 => mem.sb.snapshot \in Blocks
  BY LiveTypes DEF Pointers
<1>3. pc # "snap_sb" => disk'.sb.snapshot = mem.sb.snapshot
  BY DEF Snaps
<1> HIDE DEF table
<1> QED
  BY <1>1, <1>2, <1>3, SnapsStep DEF table

\* write_dimension_data
LEMMA SnapsDimension ==
  ASSUME Live, Snaps, WriteDimension,
         taken' \in Seq(Records), Len(taken') = Len(taken), Thinned(taken', taken)
  PROVE  Snaps'
<1> DEFINE d == Min(Unwritten)
           new == Allocated(mem)
<1>1. /\ work # None /\ Unwritten # {}
      /\ UNCHANGED <<pc, todo, log, journal, pending, expected>>
      /\ \/ /\ mem.dedup[d].block # 0
            /\ mem' = [mem EXCEPT !.dedup[d].count = @ + 1]
            /\ work' = [work EXCEPT !.at[d] = mem.dedup[d].block]
            /\ UNCHANGED disk
         \/ /\ mem.dedup[d].block = 0 /\ Free(mem) # {}
            /\ mem' = [mem EXCEPT !.used = @ \cup {new},
                                  !.dedup[d] = [block |-> new, count |-> 1]]
            /\ work' = [work EXCEPT !.at[d] = new]
            /\ disk' = [disk EXCEPT !.pages[new] = DimPage(d)]
  BY Zenon DEF WriteDimension, unsynced
<1>2. d \in Dims /\ work.at[d] = 0
  BY <1>1, NextDimension
<1>3. Free(mem) # {} => new \in Blocks /\ new \notin mem.used /\ new # 0
  BY AllocatedIsFree
<1> HIDE DEF d, new
<1>4. pc \in {"particles", "compact"} /\ Running /\ Running'
  BY <1>1 DEF Live, WorkGood, Running
<1>5. /\ mem \in Stores /\ mem.dedup \in DedupTables /\ mem.used \in SUBSET Blocks
      /\ mem.index \in Indexes
      /\ disk \in Disks /\ work \in [id : Ids, content : SUBSET Dims, at : [Dims -> Pointers]]
  BY <1>1, LiveTypes
<1>6. /\ mem'.index = mem.index /\ mem'.sb = mem.sb
      /\ \A e \in Dims : e # d => mem'.dedup[e] = mem.dedup[e]
      /\ \/ mem.dedup[d].block = 0
         \/ mem'.dedup[d].block = mem.dedup[d].block /\ mem'.dedup[d].count = mem.dedup[d].count + 1
  <2>1. CASE mem.dedup[d].block # 0
    BY <1>1, <1>2, <1>5, <2>1 DEF Stores, DedupTables
  <2>2. CASE mem.dedup[d].block = 0
    <3> DEFINE t == [mem.dedup EXCEPT ![d] = [block |-> new, count |-> 1]]
    <3>1. /\ mem' = [mem EXCEPT !.used = @ \cup {new}, !.dedup = t]
          /\ \A e \in Dims : e # d => t[e] = mem.dedup[e]
      BY <1>1, <1>2, <1>5, <2>2 DEF DedupTables
    <3> HIDE DEF t
    <3> QED
      BY <1>5, <2>2, <3>1 DEF Stores
  <2> QED
    BY <2>1, <2>2
<1>7. d \notin Held /\ Held' \subseteq Held \cup {d}
  <2>1. \E at : work' = [work EXCEPT !.at[d] = at]
    BY <1>1
  <2>2. \A e \in Dims : e # d => work'.at[e] = work.at[e]
    BY <1>2, <1>5, <2>1
  <2> QED
    BY <1>1, <1>2, <2>2 DEF Held
<1>8. PICK b0 : /\ b0 \notin mem.used /\ mem'.used \in {mem.used, mem.used \cup {b0}}
                /\ disk' \in Disks /\ disk'.sb = disk.sb
                /\ \A b \in Blocks : b # b0 => disk'.pages[b] = disk.pages[b]
                /\ disk'.pages[b0] = disk.pages[b0] \/ disk'.pages[b0].kind # "table"
  <2>1. CASE mem.dedup[d].block # 0
    <3>1. disk' = disk /\ mem'.used = mem.used /\ 0 \notin mem.used
      BY <1>1, <1>5, <2>1 DEF Stores, Blocks
    <3> QED
      BY <1>5, <3>1
  <2>2. CASE mem.dedup[d].block = 0
    <3>1. mem'.used = mem.used \cup {new} /\ disk' = [disk EXCEPT !.pages[new] = DimPage(d)]
      BY <1>1, <1>5, <2>2 DEF Stores
    <3>2. DimPage(d) \in Pages /\ DimPage(d).kind # "table"
      BY <1>2 DEF DimPage, Pages
    <3>3. /\ disk' \in Disks /\ disk'.pages[new] = DimPage(d)
          /\ \A b \in Blocks : b # new => disk'.pages[b] = disk.pages[b]
          /\ disk'.sb = disk.sb
      BY <1>1, <1>3, <1>5, <2>2, <3>1, <3>2, PageWritten
    <3> QED
      BY <1>1, <1>3, <2>2, <3>1, <3>2, <3>3
  <2> QED
    BY <2>1, <2>2
<1>9. \A id \in Ids : mem.index[id] # 0 => disk'.pages[mem.index[id]] = disk.pages[mem.index[id]]
  BY <1>4, <1>5, <1>8, LeavesUsed
<1>10. \A s : s.dedup \in DedupTables /\ Covers(mem, disk.pages, Held, s) =>
                 Covers(mem', disk'.pages, Held', s)
  BY <1>2, <1>5, <1>6, <1>7, <1>9, CoversCounts
<1> QED
  BY <1>1, <1>4, <1>6, <1>8, <1>10, SnapsWritten

LEMMA CoversLeaf ==
  ASSUME NEW s, s.dedup \in DedupTables, mem.dedup \in DedupTables,
         NEW id \in Ids, NEW at, NEW new,
         Covers(mem, disk.pages, {d \in Dims : at[d] # 0}, s),
         mem'.index[id] = new, \A i \in Ids : i # id => mem'.index[i] = mem.index[i],
         mem'.dedup = mem.dedup, disk'.pages[new] = LeafPage(id, at),
         \A i \in Ids : mem.index[i] # 0 => disk'.pages[mem.index[i]] = disk.pages[mem.index[i]]
  PROVE  Covers(mem', disk'.pages, {}, s)
BY CoversIndexes

\* write_particle_data
LEMMA SnapsLeaf ==
  ASSUME Live, Snaps, WriteLeaf,
         taken' \in Seq(Records), Len(taken') = Len(taken), Thinned(taken', taken)
  PROVE  Snaps'
<1> DEFINE id == work.id
           at == work.at
           new == Allocated(mem)
<1>1. /\ work # None /\ Free(mem) # {}
      /\ mem' = [mem EXCEPT !.used = @ \cup {new}, !.index[id] = new, !.store[id] = work.content]
      /\ disk' = [disk EXCEPT !.pages[new] = LeafPage(id, at)]
      /\ todo' = todo \ {id} /\ work' = None
      /\ UNCHANGED pc
  BY DEF WriteLeaf, unsynced
<1>2. pc \in {"particles", "compact"} /\ Running /\ Running'
  BY <1>1 DEF Live, WorkGood, Running
<1>3. /\ mem \in Stores /\ mem.dedup \in DedupTables /\ mem.used \in SUBSET Blocks
      /\ mem.index \in Indexes /\ disk \in Disks
      /\ id \in Ids /\ at \in [Dims -> Pointers]
  BY <1>1, LiveTypes
<1>4. new \in Blocks /\ new \notin mem.used /\ new # 0
  BY <1>1, AllocatedIsFree
<1>5. Held = {d \in Dims : at[d] # 0} /\ Held' = {}
  BY <1>1 DEF Held
<1> HIDE DEF id, at, new
<1>6. /\ mem'.index = [mem.index EXCEPT ![id] = new] /\ mem'.used = mem.used \cup {new}
      /\ mem'.dedup = mem.dedup /\ mem'.sb = mem.sb
  BY <1>1, <1>3 DEF Stores
<1>7. mem'.index[id] = new /\ \A i \in Ids : i # id => mem'.index[i] = mem.index[i]
  BY <1>3, <1>6 DEF Indexes
<1>8. LeafPage(id, at) \in Pages /\ LeafPage(id, at).kind = "leaf"
  BY <1>3 DEF LeafPage, Pages
<1>9. /\ disk' \in Disks /\ disk'.pages[new] = LeafPage(id, at) /\ disk'.sb = disk.sb
      /\ \A b \in Blocks : b # new => disk'.pages[b] = disk.pages[b]
  BY <1>1, <1>3, <1>4, <1>8, PageWritten
<1>10. \A i \in Ids : mem.index[i] # 0 => disk'.pages[mem.index[i]] = disk.pages[mem.index[i]]
  BY <1>2, <1>3, <1>4, <1>9, LeavesUsed
<1>11. \A s : s.dedup \in DedupTables /\ Covers(mem, disk.pages, Held, s) =>
                Covers(mem', disk'.pages, Held', s)
  <2> SUFFICES ASSUME NEW s, s.dedup \in DedupTables, Covers(mem, disk.pages, Held, s)
               PROVE  Covers(mem', disk'.pages, Held', s)
    OBVIOUS
  <2>1. Covers(mem, disk.pages, {d \in Dims : at[d] # 0}, s)
    BY <1>5
  <2>2. Covers(mem', disk'.pages, {}, s)
    BY <1>3, <1>6, <1>7, <1>9, <1>10, <2>1, CoversLeaf
  <2> QED
    BY <1>5, <2>2
<1> QED
  BY <1>1, <1>2, <1>4, <1>6, <1>8, <1>9, <1>11, SnapsWritten

\* A table on its new page.
TableAt(p, page, new) ==
  /\ new \in Blocks /\ new # 0 /\ new \notin mem.used \ {mem.sb[p]}
  /\ mem'.used = (mem.used \ {mem.sb[p]}) \cup {new}
  /\ mem'.sb = [mem.sb EXCEPT ![p] = new]
  /\ mem'.index = mem.index /\ mem'.dedup = mem.dedup
  /\ mem'.store = mem.store /\ mem'.modified = mem.modified
  /\ disk' \in Disks /\ disk'.pages[new] = page
  /\ \A b \in Blocks : b # new => disk'.pages[b] = disk.pages[b]
  /\ disk'.sb = disk.sb /\ disk'.used = disk.used

LEMMA TableShape ==
  ASSUME Live, NEW p \in {"index", "dedup", "snapshot"}, NEW page \in Pages,
         TableWritten(p, page)
  PROVE  \E new : TableAt(p, page, new)
<1> DEFINE freed == [mem EXCEPT !.used = @ \ {mem.sb[p]}]
           new == Allocated(freed)
<1>1. mem \in Stores /\ mem.sb \in Superblocks /\ disk \in Disks
  BY LiveTypes
<1>2. freed.used = mem.used \ {mem.sb[p]}
  BY <1>1 DEF Stores
<1>3. new \in Blocks /\ new \notin mem.used \ {mem.sb[p]} /\ new # 0
  BY <1>2, AllocatedIsFree DEF TableWritten
<1>4. /\ mem' = [freed EXCEPT !.used = @ \cup {new}, !.sb[p] = new]
      /\ disk' = [disk EXCEPT !.pages[new] = page]
  BY DEF TableWritten
<1> DEFINE u == (mem.used \ {mem.sb[p]}) \cup {new}
           b2 == [mem.sb EXCEPT ![p] = new]
<1>5. mem' = [mem EXCEPT !.used = u, !.sb = b2]
  BY <1>1, <1>4 DEF Stores
<1> HIDE DEF new
<1>6. /\ mem'.used = u /\ mem'.sb = b2 /\ mem'.index = mem.index /\ mem'.dedup = mem.dedup
      /\ mem'.store = mem.store /\ mem'.modified = mem.modified
  <2> HIDE DEF u, b2
  <2> QED
    BY <1>1, <1>5 DEF Stores
<1>7. /\ disk' \in Disks /\ disk'.pages[new] = page /\ disk'.sb = disk.sb
      /\ disk'.used = disk.used
      /\ \A b \in Blocks : b # new => disk'.pages[b] = disk.pages[b]
  BY <1>1, <1>3, <1>4, PageWritten
<1>8. TableAt(p, page, new)
  BY <1>3, <1>6, <1>7 DEF TableAt
<1> QED
  BY <1>8

\* The index or the dedup table on its new page.
LEMMA SnapsTable ==
  ASSUME Live, Snaps, Running, Running', NEW p \in {"index", "dedup"},
         NEW page \in Pages, page.kind # "table", TableWritten(p, page),
         taken' \in Seq(Records), Len(taken') = Len(taken), Thinned(taken', taken),
         p = "dedup" => \A k \in IntactIn(taken') :
           mem.sb.dedup # 0 => TableIn(disk.pages, mem.sb.snapshot)[k].dedup # mem.sb.dedup,
         pc # "snap_sb",
         pc' \in {"compact", "compact_sb"} => pc \in {"compact", "compact_sb"},
         Held' \subseteq Held
  PROVE  Snaps'
<1> DEFINE old == mem.sb[p]
<1>1. PICK new : TableAt(p, page, new)
  <2>1. p \in {"index", "dedup", "snapshot"}
    OBVIOUS
  <2> QED
    BY <2>1, TableShape
<1>2. mem.sb \in Superblocks /\ mem.used \in SUBSET Blocks
  BY LiveTypes
<1>3. \A b \in mem.used : b # old => b \in mem'.used /\ disk'.pages[b] = disk.pages[b]
  BY <1>1, <1>2 DEF TableAt
<1>4. \A b \in Blocks : disk'.pages[b] = disk.pages[b] \/ disk'.pages[b].kind # "table"
  BY <1>1 DEF TableAt
<1>5. mem'.sb.snapshot = mem.sb.snapshot
  BY <1>1, <1>2 DEF TableAt, Superblocks
<1>6. \/ /\ old = mem.sb.index
         /\ mem'.sb.index # 0 /\ mem'.sb.index \notin mem.used \ {old}
      \/ /\ old = mem.sb.dedup /\ mem'.sb.index = mem.sb.index
         /\ \A k \in IntactIn(taken') :
              old # 0 => TableIn(disk.pages, mem.sb.snapshot)[k].dedup # old
  <2>1. CASE p = "index"
    BY <1>1, <1>2, <2>1 DEF TableAt, Superblocks
  <2>2. CASE p = "dedup"
    BY <1>1, <1>2, <2>2 DEF TableAt, Superblocks
  <2> QED
    BY <2>1, <2>2
<1>7. Surrendered(old)
  BY <1>3, <1>4, <1>6 DEF Surrendered
<1> HIDE DEF old
<1> QED
  BY <1>1, <1>5, <1>7, SnapsGiven DEF TableAt

\* An empty dedup table drops its page.
LEMMA SnapsDrop ==
  ASSUME Live, Snaps, DropDedup,
         taken' \in Seq(Records), Len(taken') = Len(taken), Thinned(taken', taken),
         \A k \in IntactIn(taken') :
           mem.sb.dedup # 0 => TableIn(disk.pages, mem.sb.snapshot)[k].dedup # mem.sb.dedup
  PROVE  Snaps'
<1> DEFINE old == mem.sb.dedup
<1>1. /\ pc = "dedup" /\ pc' = "checkpoint" /\ disk' = disk /\ work' = work
      /\ mem' = [mem EXCEPT !.used = @ \ {old}, !.sb.dedup = 0]
  BY DEF DropDedup, unsynced
<1>2. mem \in Stores /\ mem.sb \in Superblocks /\ disk \in Disks
  BY LiveTypes
<1>3. /\ mem'.used = mem.used \ {old} /\ mem'.sb.index = mem.sb.index
      /\ mem'.sb.snapshot = mem.sb.snapshot
      /\ mem'.index = mem.index /\ mem'.dedup = mem.dedup
  BY <1>1, <1>2 DEF Stores, Superblocks
<1>4. \A k \in IntactIn(taken') : old # 0 => TableIn(disk.pages, mem.sb.snapshot)[k].dedup # old
  OBVIOUS
<1>5. old = mem.sb.dedup
  OBVIOUS
<1> HIDE DEF old
<1>6. Surrendered(old)
  BY <1>1, <1>3, <1>4, <1>5 DEF Surrendered
<1>7. Held' = Held /\ Running /\ Running'
  BY <1>1 DEF Held, Running
<1> QED
  BY <1>1, <1>2, <1>3, <1>6, <1>7, SnapsGiven

\* What a deleted particle takes away.
GoneWith(id, blocks) ==
  /\ blocks \in SUBSET Blocks
  /\ \A b : b \in blocks <=> mem.index[id] # 0 /\ b # 0
                                  /\ \E d \in Dims : disk.pages[mem.index[id]].at[d] = b
  /\ mem'.index = [mem.index EXCEPT ![id] = 0] /\ mem'.sb = mem.sb
  /\ mem'.used = Shed(mem, blocks).used \ {mem.index[id]}
  /\ mem'.dedup = Shed(mem, blocks).dedup

LEMMA CoversGone ==
  ASSUME mem \in Stores, Image(mem, disk.pages, {}), NEW id \in Ids,
         NEW blocks, GoneWith(id, blocks), NEW s, s.dedup \in DedupTables, Covers(mem, disk.pages, {}, s),
         mem.index[id] # 0 => s.index[id] # mem.index[id]
  PROVE  /\ Covers(mem', disk.pages, {}, s)
         /\ \A d \in Dims : s.dedup[d].block # 0 =>
              s.dedup[d].block \notin {b \in blocks : Unshared(mem, b)}
<1>1. /\ blocks \in SUBSET Blocks
      /\ \A b : b \in blocks <=> mem.index[id] # 0 /\ b # 0
                                  /\ \E d \in Dims : disk.pages[mem.index[id]].at[d] = b
      /\ mem'.index = [mem.index EXCEPT ![id] = 0] /\ mem'.sb = mem.sb
      /\ mem'.used = Shed(mem, blocks).used \ {mem.index[id]}
      /\ mem'.dedup = Shed(mem, blocks).dedup
  BY DEF GoneWith
<1> QED
  BY <1>1, CoversDeletes

\* delete: the snapshots that have the leaf are spoiled; what the others have
\* stays.
LEMMA SnapsDeleted ==
  ASSUME Live, Snaps, NEW id \in Ids, Delete(id),
         taken' \in Seq(Records), Len(taken') = Len(taken), Thinned(taken', taken),
         \A k \in IntactIn(taken') : mem.index[id] # 0 =>
           IndexIn(disk.pages, TableIn(disk.pages, mem.sb.snapshot)[k].index)[id] # mem.index[id]
  PROVE  Snaps'
<1>1. /\ pc = "ready" /\ mem' = Deleted(mem, id)
      /\ UNCHANGED <<disk, pc, todo, work>>
  BY DEF Delete, Called
<1>2. Running /\ Running' /\ Held = {} /\ Held' = {}
  BY <1>1, Idle DEF Live, Running, Held
<1>3. /\ mem \in Stores /\ disk \in Disks /\ mem.index \in Indexes /\ mem.used \in SUBSET Blocks
      /\ mem.dedup \in DedupTables
  BY LiveTypes
<1>4. Image(mem, disk.pages, {})
  BY <1>2, LeavesUsed
<1>5. /\ mem'.index = [mem.index EXCEPT ![id] = 0] /\ mem'.sb = mem.sb
      /\ \E blocks \in SUBSET Blocks :
           /\ \A b : b \in blocks <=>
                    mem.index[id] # 0 /\ b # 0
                      /\ \E d \in Dims : disk.pages[mem.index[id]].at[d] = b
           /\ mem'.used = Shed(mem, blocks).used \ {mem.index[id]}
           /\ mem'.dedup = Shed(mem, blocks).dedup
  BY <1>1, <1>3, <1>4, DeletedIs
<1>6. PICK blocks \in SUBSET Blocks :
           /\ \A b : b \in blocks <=>
                    mem.index[id] # 0 /\ b # 0
                      /\ \E d \in Dims : disk.pages[mem.index[id]].at[d] = b
           /\ mem'.used = Shed(mem, blocks).used \ {mem.index[id]}
           /\ mem'.dedup = Shed(mem, blocks).dedup
  BY <1>5
<1>7. mem'.used = (mem.used \ {b \in blocks : Unshared(mem, b)}) \ {mem.index[id]}
  BY <1>6 DEF Shed, With
<1>8. /\ mem.index[id] # 0 => disk.pages[mem.index[id]].kind = "leaf"
      /\ \A b \in blocks : disk.pages[b].kind = "dim"
  <2>1. \A d \in Dims : DimPage(d).kind = "dim"
    BY DEF DimPage
  <2> QED
    BY <1>4, <1>6, <2>1 DEF Image, Leaves, Shared
<1> DEFINE table == TableIn(disk.pages, mem.sb.snapshot)
<1>9. ASSUME NEW k \in IntactIn(taken')
      PROVE  /\ mem.sb.snapshot \in mem'.used /\ mem'.sb.index # 0
             /\ Survives(table[k], mem, disk.pages, mem', disk'.pages, Held')
  <2>1. k \in IntactIn(taken)
    BY DEF Thinned, IntactIn
  <2> DEFINE s == EntryImage(table[k], disk.pages, mem.used)
  <2>2. /\ mem.sb.snapshot \in mem.used /\ mem.sb.index # 0
        /\ disk.pages[mem.sb.snapshot].kind = "table"
        /\ table[k].index # 0 /\ table[k].index # mem.sb.index
        /\ s.index = IndexIn(disk.pages, table[k].index)
        /\ s.dedup = DedupIn(disk.pages, table[k].dedup)
        /\ s.dedup \in DedupTables /\ Covers(mem, disk.pages, Held, s)
        /\ Image(s, disk.pages, {}) /\ s.sb.index = table[k].index /\ s.sb.dedup = table[k].dedup
        /\ NamedWell(table[k])
    BY <1>2, <2>1, TakenIs, EntryIs
  <2>3. mem.index[id] # 0 => IndexIn(disk.pages, table[k].index)[id] # mem.index[id]
    OBVIOUS
  <2> HIDE DEF table, s
  <2>4. /\ Covers(mem', disk.pages, {}, s)
        /\ \A d \in Dims : s.dedup[d].block # 0 =>
             s.dedup[d].block \notin {b \in blocks : Unshared(mem, b)}
    <3>1. GoneWith(id, blocks)
      BY <1>5, <1>6 DEF GoneWith
    <3>2. Covers(mem, disk.pages, {}, s) /\ s.dedup \in DedupTables
          /\ (mem.index[id] # 0 => s.index[id] # mem.index[id])
      BY <1>2, <2>2, <2>3
    <3> QED
      BY <1>3, <1>4, <3>1, <3>2, CoversGone
  <2>5. /\ \A i \in Ids : s.index[i] # 0 =>
             disk.pages[s.index[i]].kind = "leaf" /\ disk.pages[s.index[i]].id = i
        /\ s.sb.index # 0 => disk.pages[s.sb.index].kind = "index"
        /\ s.sb.dedup # 0 => disk.pages[s.sb.dedup].kind = "dedup"
        /\ \A d \in Dims : s.dedup[d].block # 0 => disk.pages[s.dedup[d].block].kind = "dim"
    <3>1. \A d \in Dims : DimPage(d).kind = "dim"
      BY DEF DimPage
    <3>2. Tables(s, disk.pages) /\ Leaves(s, disk.pages) /\ Shared(s, disk.pages)
      BY <2>2 DEF Image
    <3>3. \A i \in Ids : s.index[i] # 0 =>
            disk.pages[s.index[i]].kind = "leaf" /\ disk.pages[s.index[i]].id = i
      BY <3>2 DEF Leaves
    <3>4. /\ s.sb.index # 0 => disk.pages[s.sb.index].kind = "index"
          /\ s.sb.dedup # 0 => disk.pages[s.sb.dedup].kind = "dedup"
      BY <3>2 DEF Tables
    <3>5. \A d \in Dims : s.dedup[d].block # 0 => disk.pages[s.dedup[d].block].kind = "dim"
      BY <3>1, <3>2 DEF Shared
    <3> QED
      BY <3>3, <3>4, <3>5
  <2>6. mem.index[id] # 0 => disk.pages[mem.index[id]].id = id
    BY <1>4 DEF Image, Leaves
  <2>7. \A b \in NamedBy(table[k], disk.pages) : b # 0 =>
          b # mem.index[id] /\ b \notin {x \in blocks : Unshared(mem, x)}
    BY <1>8, <2>2, <2>3, <2>4, <2>5, <2>6 DEF NamedBy
  <2>8. \A b \in NamedBy(table[k], disk.pages) : b # 0 => b \in mem'.used
    BY <1>7, <2>2, <2>7 DEF NamedWell
  <2>9. mem.sb.snapshot # mem.index[id] /\ mem.sb.snapshot \notin blocks
    BY <1>3, <1>8, <2>2 DEF Blocks
  <2>10. mem.sb.snapshot \in mem'.used /\ mem'.sb.index # 0
    BY <1>5, <1>7, <2>2, <2>9
  <2>11. Survives(table[k], mem, disk.pages, mem', disk'.pages, Held')
    BY <1>1, <1>2, <1>5, <2>2, <2>4, <2>8 DEF Survives, s
  <2> QED
    BY <2>10, <2>11
<1> HIDE DEF table
<1>10. disk'.sb.snapshot = mem.sb.snapshot
  BY <1>1, <1>2 DEF Snaps
<1> QED
  BY <1>1, <1>2, <1>3, <1>5, <1>9, <1>10, SnapsStep DEF table

\* The snapshots are the same for an image with the same tables.
LEMMA SnapsThin ==
  ASSUME NEW snaps, NEW m, NEW pages, NEW held, SnapsGood(snaps, m, pages, held),
         NEW snaps2, Thinned(snaps2, snaps),
         NEW m2, m2.index = m.index, m2.dedup = m.dedup, m2.used = m.used, m2.sb = m.sb
  PROVE  SnapsGood(snaps2, m2, pages, held)
<1>1. \A k \in IntactIn(snaps2) : k \in IntactIn(snaps) /\ snaps2[k].of = snaps[k].of
  BY DEF Thinned, IntactIn
<1>2. \A of, e : EntryGood(m, pages, held, of, e) => EntryGood(m2, pages, held, of, e)
  BY DEF EntryGood, EntryImage, Covers, Fresh
<1> QED
  BY <1>1, <1>2 DEF SnapsGood

\* The steps that leave tables and pages alone.
QuietStep ==
  \/ \E id \in Ids, c \in Contents : Write(id, c) \/ WriteFull(id, c)
  \/ \E id \in Ids : LoadParticle(id) \/ BeginParticle(id)
  \/ SyncBegin \/ SyncVolume \/ SyncVolumeBitmap \/ WriteIndexPointer \/ WriteDedupPointer
  \/ (WriteCheckpoint /\ log.offset < JournalCells)
  \/ CheckpointSync \/ CheckpointSyncBitmap \/ LeafTooLarge \/ SyncFails \/ Retry

\* What a step changes of what the tables say.
Quiet ==
  /\ Running /\ Running'
  /\ mem'.index = mem.index /\ mem'.dedup = mem.dedup
  /\ mem.used \subseteq mem'.used /\ mem'.sb = mem.sb
  /\ disk' \in Disks /\ disk'.pages = disk.pages
  /\ disk'.sb = mem.sb \/ disk'.sb = disk.sb
  /\ Held' \subseteq Held
  /\ pc \notin {"snap_sb", "closed"}
  /\ pc' \in {"compact", "compact_sb"} => pc = pc'

LEMMA QuietSteps ==
  ASSUME Live, QuietStep
  PROVE  Quiet
<1>1. mem \in Stores /\ disk \in Disks /\ mem.sb \in Superblocks /\ mem.used \in SUBSET Blocks
  BY LiveTypes
<1>2. CASE \E id \in Ids, c \in Contents : Write(id, c)
  <2>1. PICK id \in Ids, c \in Contents : Write(id, c)
    BY <1>2
  <2>2. /\ pc = "ready" /\ pc' \in {"particles", "ready"} /\ disk' = disk /\ work' = work
        /\ mem' = [mem EXCEPT !.store[id] = c, !.modified = @ \cup {id}]
    BY <2>1 DEF Write, LoggedWrite, Called, WriteOp
  <2> QED
    BY <1>1, <2>2 DEF Quiet, Running, Held, Stores
<1>3. CASE \/ \E id \in Ids, c \in Contents : WriteFull(id, c)
           \/ SyncBegin
  <2>1. /\ pc = "ready" /\ pc' = "particles" /\ disk' = disk /\ work' = work /\ mem' = mem
    BY <1>3 DEF WriteFull, SyncBegin, Called
  <2> QED
    BY <1>1, <2>1 DEF Quiet, Running, Held
<1>4. CASE \E id \in Ids : LoadParticle(id)
  <2>1. PICK id \in Ids : LoadParticle(id)
    BY <1>4
  <2>2. /\ pc = "ready" /\ pc' = pc /\ disk' = disk /\ work' = work
        /\ mem' = [mem EXCEPT !.store[Page(mem.index[id]).id] = ContentAt(mem.index[id])]
    BY <2>1 DEF LoadParticle, unsynced
  <2> QED
    BY <1>1, <2>2 DEF Quiet, Running, Held, Stores
<1>5. CASE \E id \in Ids : BeginParticle(id)
  <2>1. /\ pc = "particles" /\ pc' = pc /\ disk' = disk /\ mem' = mem
        /\ work = None /\ work'.at = Nowhere
    BY <1>5 DEF BeginParticle, unsynced
  <2>2. Held' = {}
    BY <2>1 DEF Held, Nowhere
  <2> QED
    BY <1>1, <2>1, <2>2 DEF Quiet, Running
<1>6. CASE \/ SyncVolume \/ SyncVolumeBitmap \/ WriteIndexPointer \/ WriteDedupPointer
           \/ CheckpointSync \/ CheckpointSyncBitmap
  <2>1. /\ pc \in SyncStates /\ pc' \in SyncStates \cup {"ready", "retry"} /\ work' = work
        /\ \/ disk' = [disk EXCEPT !.sb = mem.sb]
           \/ disk' = [disk EXCEPT !.used = mem.used]
        /\ mem' = mem \/ mem' = [mem EXCEPT !.modified = {}]
    BY <1>6 DEF SyncVolume, SyncVolumeBitmap, WriteIndexPointer, WriteDedupPointer,
                CheckpointSync, CheckpointSyncBitmap, FlushSuperblock, FlushBitmap, unsynced,
                SyncStates
  <2>2. /\ mem'.index = mem.index /\ mem'.dedup = mem.dedup /\ mem'.used = mem.used
        /\ mem'.sb = mem.sb
    BY <1>1, <2>1 DEF Stores
  <2>3. disk' \in Disks /\ disk'.pages = disk.pages /\ (disk'.sb = mem.sb \/ disk'.sb = disk.sb)
    BY <1>1, <2>1 DEF Disks
  <2>4. Held' = Held
    BY <2>1 DEF Held
  <2> QED
    BY <2>1, <2>2, <2>3, <2>4 DEF Quiet, Running, SyncStates
<1>7. CASE WriteCheckpoint /\ log.offset < JournalCells
  <2>1. /\ pc = "checkpoint" /\ pc' = "last_sb" /\ work' = work /\ mem' = mem /\ disk' = disk
    BY <1>7 DEF WriteCheckpoint
  <2> QED
    BY <1>1, <2>1 DEF Quiet, Running, Held
<1>8. CASE SyncFails
  <2>1. /\ pc' = "ready" /\ mem' = mem /\ disk' = disk /\ work' = None
        /\ work # None \/ pc \in {"index", "dedup"}
    BY <1>8 DEF SyncFails
  <2>2. pc \in {"particles", "compact", "index", "dedup"}
    BY <2>1 DEF Live, WorkGood
  <2> QED
    BY <1>1, <2>1, <2>2 DEF Quiet, Running, Held
<1>9. CASE Retry
  <2>1. /\ pc = "retry" /\ pc' \in {"ready", "particles"} /\ disk' = disk /\ work' = work
        /\ \/ mem' = mem
           \/ mem' = [mem EXCEPT !.store[pending.id] = pending.content,
                                 !.modified = @ \cup {pending.id}]
    BY <1>9 DEF Retry, LoggedWrite
  <2>2. /\ mem'.index = mem.index /\ mem'.dedup = mem.dedup /\ mem'.used = mem.used
        /\ mem'.sb = mem.sb
    BY <1>1, <2>1 DEF Stores
  <2> QED
    BY <1>1, <2>1, <2>2 DEF Quiet, Running, Held
<1>10. CASE LeafTooLarge
  <2>1. /\ pc = "particles" /\ pc' = "ready" /\ disk' = disk /\ work' = None
        /\ mem' = [mem EXCEPT !.used = @ \cup {Allocated(mem)}]
    BY <1>10 DEF LeafTooLarge
  <2>2. /\ mem'.index = mem.index /\ mem'.dedup = mem.dedup
        /\ mem.used \subseteq mem'.used /\ mem'.sb = mem.sb
    BY <1>1, <2>1 DEF Stores
  <2>3. Held' = {}
    BY <2>1 DEF Held
  <2> QED
    BY <1>1, <2>1, <2>2, <2>3 DEF Quiet, Running
<1> QED
  BY <1>2, <1>3, <1>4, <1>5, <1>6, <1>7, <1>8, <1>9, <1>10 DEF QuietStep

-----------------------------------------------------------------------------
(* The snapshots over the operations of the store                          *)

\* A step that damages nothing.
LEMMA StepKinds ==
  ASSUME Step, crashes \in Nat, Undamaged'
  PROVE  \/ QuietStep \/ WriteDimension \/ WriteLeaf \/ WriteIndex \/ WriteDedup \/ DropDedup
         \/ Close \/ Opening
<1>1. ~ Crash
  BY DEF Undamaged, Crash
<1>2. WriteCheckpoint => log.offset < JournalCells
  BY DEF Undamaged, WriteCheckpoint
<1> QED
  BY <1>1, <1>2 DEF Step, SyncStep, QuietStep

\* A step spoils the snapshots whose dedup table it gives up.
LEMMA StoreThins ==
  ASSUME Live, Snaps, Running, StoreStep
  PROVE  /\ taken' \in Seq(Records) /\ Len(taken') = Len(taken) /\ Thinned(taken', taken)
         /\ pc = "dedup" /\ pc' \in {"dedup_sb", "checkpoint"} =>
              \A k \in IntactIn(taken') :
                mem.sb.dedup # 0 => TableIn(disk.pages, mem.sb.snapshot)[k].dedup # mem.sb.dedup
<1> DEFINE table == ReadTable(mem.sb.snapshot)
           given == pc = "dedup" /\ pc' \in {"dedup_sb", "checkpoint"}
           which == {k \in DOMAIN table : given /\ table[k].dedup # 0 /\ table[k].dedup = mem.sb.dedup}
<1>1. taken \in Seq(Records) /\ taken' = Spoiled(which)
  BY DEF StoreStep, Snaps
<1> HIDE DEF which
<1>2. /\ taken' \in Seq(Records) /\ Len(taken') = Len(taken) /\ Thinned(taken', taken)
      /\ \A k \in IntactIn(taken') : k \notin which
  BY <1>1, SpoiledIs
<1>3. \A k \in IntactIn(taken') : k \in IntactIn(taken)
  BY <1>2 DEF Thinned, IntactIn
<1>4. table = TableIn(disk.pages, mem.sb.snapshot)
  BY Reads
<1>5. \A k \in IntactIn(taken) : k \in DOMAIN table
  BY <1>4, TakenIs
<1> QED
  BY <1>2, <1>3, <1>4, <1>5 DEF which

\* A delete spoils the snapshots that name the leaf.
LEMMA DeleteThins ==
  ASSUME Live, Snaps, Running, NEW id \in Ids, SnapDelete(id)
  PROVE  /\ taken' \in Seq(Records) /\ Len(taken') = Len(taken) /\ Thinned(taken', taken)
         /\ \A k \in IntactIn(taken') : mem.index[id] # 0 =>
              IndexIn(disk.pages, TableIn(disk.pages, mem.sb.snapshot)[k].index)[id] # mem.index[id]
<1> DEFINE table == ReadTable(mem.sb.snapshot)
           which == {k \in DOMAIN table : /\ mem.index[id] # 0
                                          /\ ReadIndex(table[k].index)[id] = mem.index[id]}
<1>1. taken \in Seq(Records) /\ taken' = Spoiled(which)
  BY DEF SnapDelete, Snaps
<1> HIDE DEF which
<1>2. /\ taken' \in Seq(Records) /\ Len(taken') = Len(taken) /\ Thinned(taken', taken)
      /\ \A k \in IntactIn(taken') : k \notin which
  BY <1>1, SpoiledIs
<1>3. \A k \in IntactIn(taken') : k \in IntactIn(taken)
  BY <1>2 DEF Thinned, IntactIn
<1>4. table = TableIn(disk.pages, mem.sb.snapshot)
      /\ \A b : IndexIn(disk.pages, b) = ReadIndex(b)
  BY Reads
<1>5. \A k \in IntactIn(taken) : k \in DOMAIN table
  BY <1>4, TakenIs
<1> QED
  BY <1>2, <1>3, <1>4, <1>5 DEF which

LEMMA SnapsQuietly ==
  ASSUME Live, Snaps, QuietStep,
         taken' \in Seq(Records), Len(taken') = Len(taken), Thinned(taken', taken)
  PROVE  Snaps'
<1>1. Quiet
  BY QuietSteps
<1>2. /\ Running /\ Running'
      /\ mem'.index = mem.index /\ mem'.dedup = mem.dedup /\ mem.used \subseteq mem'.used
      /\ mem'.sb = mem.sb
      /\ disk' \in Disks /\ disk'.pages = disk.pages
      /\ Held' \subseteq Held
      /\ pc' \in {"compact", "compact_sb"} => pc \in {"compact", "compact_sb"}
      /\ \/ disk'.sb = mem.sb
         \/ disk'.sb = disk.sb /\ (pc = "snap_sb" => pc' = "snap_sb")
  BY <1>1 DEF Quiet
<1> QED
  BY <1>2, SnapsQuiet

LEMMA SnapsIndex ==
  ASSUME Live, Snaps, WriteIndex,
         taken' \in Seq(Records), Len(taken') = Len(taken), Thinned(taken', taken)
  PROVE  Snaps'
<1>1. /\ pc = "index" /\ pc' = "index_sb" /\ work' = work
      /\ TableWritten("index", IndexPage(mem.index))
  BY DEF WriteIndex
<1>2. Running /\ Running' /\ Held' = Held
  BY <1>1 DEF Running, Held
<1>3. IndexPage(mem.index) \in Pages /\ IndexPage(mem.index).kind # "table"
  BY LiveTypes DEF IndexPage, Pages
<1>4. /\ "index" \in {"index", "dedup"}
      /\ "index" = "dedup" => \A k \in IntactIn(taken') :
           mem.sb.dedup # 0 => TableIn(disk.pages, mem.sb.snapshot)[k].dedup # mem.sb.dedup
      /\ pc # "snap_sb"
      /\ pc' \in {"compact", "compact_sb"} => pc \in {"compact", "compact_sb"}
      /\ Held' \subseteq Held
  BY <1>1, <1>2
<1> QED
  BY <1>1, <1>2, <1>3, <1>4, SnapsTable

LEMMA SnapsDedup ==
  ASSUME Live, Snaps, WriteDedup,
         taken' \in Seq(Records), Len(taken') = Len(taken), Thinned(taken', taken),
         \A k \in IntactIn(taken') :
           mem.sb.dedup # 0 => TableIn(disk.pages, mem.sb.snapshot)[k].dedup # mem.sb.dedup
  PROVE  Snaps'
<1>1. /\ pc = "dedup" /\ pc' = "dedup_sb" /\ work' = work
      /\ TableWritten("dedup", DedupPage(mem.dedup))
  BY DEF WriteDedup
<1>2. Running /\ Running' /\ Held' = Held
  BY <1>1 DEF Running, Held
<1>3. DedupPage(mem.dedup) \in Pages /\ DedupPage(mem.dedup).kind # "table"
  BY LiveTypes DEF DedupPage, Pages
<1>4. /\ "dedup" \in {"index", "dedup"}
      /\ "dedup" = "dedup" => \A k \in IntactIn(taken') :
           mem.sb.dedup # 0 => TableIn(disk.pages, mem.sb.snapshot)[k].dedup # mem.sb.dedup
      /\ pc # "snap_sb"
      /\ pc' \in {"compact", "compact_sb"} => pc \in {"compact", "compact_sb"}
      /\ Held' \subseteq Held
  BY <1>1, <1>2
<1> QED
  BY <1>1, <1>2, <1>3, <1>4, SnapsTable

LEMMA SnapsClose ==
  ASSUME Live, Snaps, Close,
         taken' \in Seq(Records), Len(taken') = Len(taken)
  PROVE  Snaps'
<1>1. pc = "ready" /\ pc' = "closed" /\ disk' = disk
  BY DEF Close, Gone
<1>2. Running /\ ~ Running'
  BY <1>1 DEF Running
<1>3. disk.sb.snapshot = mem.sb.snapshot /\ TableLength <= Len(taken)
  BY <1>1, <1>2 DEF Snaps
<1>4. TableLength' = TableLength
  BY <1>1, <1>2, <1>3 DEF TableLength, TableIn, PageIn
<1> QED
  BY <1>1, <1>2, <1>3, <1>4 DEF Snaps

\* What an open finds is what the file had.
LEMMA SnapsOpen ==
  ASSUME Live, Lasting, Snaps, FileSnaps, Opening,
         taken' \in Seq(Records), Len(taken') = Len(taken), Thinned(taken', taken)
  PROVE  Snaps'
<1>1. PICK all \in BOOLEAN : Open(all)
  BY PersistAssumption DEF Opening
<1>2. /\ mem'.index = FileImage.index /\ mem'.dedup = FileImage.dedup
      /\ mem'.used = FileImage.used /\ mem'.sb = FileImage.sb
  BY <1>1, OpenKeeps
<1>3. pc = "closed" /\ pc' = "ready" /\ disk' = disk /\ work' = work
  BY <1>1 DEF Open
<1>4. log.entries = 0 /\ work = None
  BY <1>3 DEF Live, Progress, Syncing, WorkGood
<1>5. Held' = {}
  BY <1>3, <1>4 DEF Held
<1>6. SnapsGood(taken, FileImage, disk.pages, {})
  BY <1>3, <1>4 DEF FileSnaps, AtRest
<1>7. SnapsGood(taken', mem', disk.pages, {})
  BY <1>2, <1>6, SnapsThin
<1>8. SnapsGood(taken', mem', disk'.pages, Held')
  BY <1>3, <1>5, <1>7
<1>9. SnapsGood(taken, mem, disk.pages, Held)'
  BY <1>8, SnapsNext
<1>10. mem'.sb = disk.sb
  BY <1>2 DEF FileImage
<1>11. Running' /\ ~ Running
  BY <1>3 DEF Running
<1>12. TableLength' = TableLength
  BY <1>3, <1>10, <1>11 DEF TableLength, TableIn, PageIn
<1> QED
  BY <1>3, <1>9, <1>10, <1>12 DEF Snaps

\* A closed store has no tables in memory to give up.
LEMMA ClosedThins ==
  ASSUME Snaps, StoreStep
  PROVE  taken' \in Seq(Records) /\ Len(taken') = Len(taken) /\ Thinned(taken', taken)
<1> DEFINE table == ReadTable(mem.sb.snapshot)
           given == pc = "dedup" /\ pc' \in {"dedup_sb", "checkpoint"}
           which == {k \in DOMAIN table : given /\ table[k].dedup # 0 /\ table[k].dedup = mem.sb.dedup}
<1>1. taken \in Seq(Records) /\ taken' = Spoiled(which)
  BY DEF StoreStep, Snaps
<1> HIDE DEF which
<1> QED
  BY <1>1, SpoiledIs

LEMMA SnapsStore ==
  ASSUME Live, Snaps, StoreStep, crashes \in Nat, Undamaged', Opening => Lasting /\ FileSnaps
  PROVE  Snaps'
<1>1. taken' \in Seq(Records) /\ Len(taken') = Len(taken) /\ Thinned(taken', taken)
  BY ClosedThins
<1>2. \/ QuietStep \/ WriteDimension \/ WriteLeaf \/ WriteIndex \/ WriteDedup \/ DropDedup
      \/ Close \/ Opening
  BY StepKinds DEF StoreStep
<1>3. CASE WriteDedup
  <2>1. pc = "dedup" /\ pc' = "dedup_sb" /\ Running
    BY <1>3 DEF WriteDedup, Running
  <2> QED
    BY <1>1, <1>3, <2>1, StoreThins, SnapsDedup
<1>4. CASE DropDedup
  <2>1. pc = "dedup" /\ pc' = "checkpoint" /\ Running
    BY <1>4 DEF DropDedup, Running
  <2> QED
    BY <1>1, <1>4, <2>1, StoreThins, SnapsDrop
<1>5. CASE QuietStep
  BY <1>1, <1>5, SnapsQuietly
<1>6. CASE WriteDimension
  BY <1>1, <1>6, SnapsDimension
<1>7. CASE WriteLeaf
  BY <1>1, <1>7, SnapsLeaf
<1>8. CASE WriteIndex
  BY <1>1, <1>8, SnapsIndex
<1>9. CASE Close
  BY <1>1, <1>9, SnapsClose
<1>10. CASE Opening
  BY <1>1, <1>10, SnapsOpen
<1> QED
  BY <1>2, <1>3, <1>4, <1>5, <1>6, <1>7, <1>8, <1>9, <1>10

LEMMA SnapsDelete ==
  ASSUME Live, Snaps, NEW id \in Ids, SnapDelete(id)
  PROVE  Snaps'
<1>1. Delete(id) /\ Running
  BY DEF SnapDelete, Delete, Called, Running
<1> QED
  BY <1>1, DeleteThins, SnapsDeleted

-----------------------------------------------------------------------------
(* The snapshots over compaction and the taking of a snapshot              *)

\* The steps of maintenance that leave tables and pages alone.
PlainStep ==
  \/ Compact \/ Snapshot \/ CompactPointer \/ SnapshotPointer \/ SnapshotFails \/ RestorePointer
  \/ \E id \in Ids : CompactParticle(id)

LEMMA SnapsPlain ==
  ASSUME Live, Snaps, PlainStep
  PROVE  Snaps'
<1>1. disk \in Disks /\ mem.sb \in Superblocks
  BY LiveTypes
<1>2. taken \in Seq(Records)
  BY DEF Snaps
<1>3. taken' = taken /\ mem' = mem
  BY DEF PlainStep, Compact, Snapshot, SyncFirst, CompactPointer, SnapshotPointer, SnapshotFails,
         RestorePointer, CompactParticle, snapVars
<1>4. /\ disk' \in Disks /\ disk'.pages = disk.pages
      /\ Running /\ Running' /\ Held' \subseteq Held
      /\ pc' \in {"compact", "compact_sb"} => pc \in {"compact", "compact_sb"}
      /\ \/ disk'.sb = mem.sb
         \/ disk'.sb = disk.sb /\ (pc = "snap_sb" => pc' = "snap_sb")
  <2>1. CASE Compact \/ Snapshot
    <3>1. pc = "ready" /\ pc' = "particles" /\ disk' = disk /\ work' = work
      BY <2>1 DEF Compact, Snapshot, SyncFirst, Called
    <3> QED
      BY <1>1, <3>1 DEF Running, Held
  <2>2. CASE CompactPointer \/ SnapshotPointer \/ RestorePointer
    <3>1. /\ pc \in {"compact_sb", "snap_sb", "restore_sb"} /\ pc' = "last_sb"
          /\ disk' = [disk EXCEPT !.sb = mem.sb] /\ work' = work
      BY <2>2 DEF CompactPointer, SnapshotPointer, RestorePointer, FlushSuperblock
    <3> QED
      BY <1>1, <3>1 DEF Running, Held, Disks
  <2>3. CASE SnapshotFails
    <3>1. pc \in {"retry", "snap_dedup", "snap_table"} /\ pc' = "ready" /\ disk' = disk /\ work' = work
      BY <2>3 DEF SnapshotFails
    <3> QED
      BY <1>1, <3>1 DEF Running, Held
  <2>4. CASE \E id \in Ids : CompactParticle(id)
    <3>1. pc = "compact" /\ pc' = pc /\ disk' = disk /\ work'.at = Nowhere
      BY <2>4 DEF CompactParticle
    <3>2. Held' = {}
      BY <3>1 DEF Held, Nowhere
    <3> QED
      BY <1>1, <3>1, <3>2 DEF Running
  <2> QED
    BY <2>1, <2>2, <2>3, <2>4 DEF PlainStep
<1>5. Thinned(taken', taken)
  BY <1>3, TakenSame
<1> QED
  BY <1>2, <1>3, <1>4, <1>5, SnapsQuiet

\* A compaction spoils every snapshot.
LEMMA SnapsClear ==
  ASSUME Live, Snaps, CompactClear
  PROVE  Snaps' /\ IntactIn(taken') = {}
<1>1. /\ pc = "retry" /\ pc' = "compact" /\ disk' = disk
      /\ taken \in Seq(Records) /\ taken' = Spoiled(DOMAIN taken)
      /\ mem' = [mem EXCEPT !.store = NoStore, !.modified = {}, !.index = NoIndex,
                            !.dedup = NoDedup, !.used = {}, !.sb.index = 0, !.sb.dedup = 0]
  BY DEF CompactClear, Snaps
<1>2. mem \in Stores /\ mem.sb \in Superblocks /\ disk \in Disks
  BY LiveTypes
<1>3. mem'.sb.snapshot = mem.sb.snapshot
  BY <1>1, <1>2 DEF Stores, Superblocks
<1>4. /\ taken' \in Seq(Records) /\ Len(taken') = Len(taken) /\ Thinned(taken', taken)
      /\ \A k \in IntactIn(taken') : k \notin DOMAIN taken
  BY <1>1, SpoiledIs
<1>5. IntactIn(taken') = {}
  BY <1>4 DEF IntactIn, Thinned
<1>6. Running /\ Running'
  BY <1>1 DEF Running
<1>7. disk'.sb.snapshot = mem.sb.snapshot
  BY <1>1, <1>6 DEF Snaps
<1>8. /\ disk' \in Disks
      /\ mem.sb.snapshot # 0 => \/ disk'.pages[mem.sb.snapshot] = disk.pages[mem.sb.snapshot]
                                \/ disk'.pages[mem.sb.snapshot].kind # "table"
  BY <1>1, <1>2
<1> QED
  BY <1>3, <1>4, <1>5, <1>6, <1>7, <1>8, SnapsStep

LEMMA SnapsCompactIndex ==
  ASSUME Live, Snaps, CompactIndex
  PROVE  Snaps'
<1>1. /\ pc = "compact" /\ pc' = "compact_sb" /\ work' = work /\ taken' = taken
      /\ TableWritten("index", IndexPage(mem.index))
  BY DEF CompactIndex, snapVars
<1>2. Running /\ Running' /\ Held' = Held
  BY <1>1 DEF Running, Held
<1>3. IndexPage(mem.index) \in Pages /\ IndexPage(mem.index).kind # "table"
  BY LiveTypes DEF IndexPage, Pages
<1>4. /\ "index" \in {"index", "dedup"}
      /\ "index" = "dedup" => \A k \in IntactIn(taken') :
           mem.sb.dedup # 0 => TableIn(disk.pages, mem.sb.snapshot)[k].dedup # mem.sb.dedup
      /\ pc # "snap_sb"
      /\ pc' \in {"compact", "compact_sb"} => pc \in {"compact", "compact_sb"}
      /\ Held' \subseteq Held
  BY <1>1, <1>2
<1>5. taken' \in Seq(Records) /\ Len(taken') = Len(taken) /\ Thinned(taken', taken)
  BY <1>1, TakenSame DEF Snaps
<1> QED
  BY <1>1, <1>2, <1>3, <1>4, <1>5, SnapsTable

\* clone_index_chain
LEMMA ClonedIs ==
  ASSUME Live, NEW b \in mem.used, Cloned(b)
  PROVE  /\ Allocated(mem) \in Blocks \ mem.used
         /\ mem' = [mem EXCEPT !.used = @ \cup {Allocated(mem)}] /\ mem' \in Stores
         /\ mem'.store = mem.store /\ mem'.modified = mem.modified /\ mem'.index = mem.index
         /\ mem'.dedup = mem.dedup /\ mem'.sb = mem.sb
         /\ mem'.used = mem.used \cup {Allocated(mem)}
         /\ disk' \in Disks /\ disk'.used = disk.used /\ disk'.sb = disk.sb
         /\ disk'.pages[Allocated(mem)] = disk.pages[b]
         /\ \A x \in Blocks : x # Allocated(mem) => disk'.pages[x] = disk.pages[x]
<1> DEFINE new == Allocated(mem)
<1>1. /\ mem' = [mem EXCEPT !.used = @ \cup {new}]
      /\ disk' = [disk EXCEPT !.pages[new] = Page(b)]
      /\ Free(mem) # {}
  BY DEF Cloned
<1>2. new \in Blocks \ mem.used
  BY <1>1, AllocatedIsFree
<1>3. mem \in Stores /\ disk \in Disks /\ mem.used \in SUBSET Blocks /\ 0 \notin mem.used
  BY LiveTypes
<1>4. Page(b) = disk.pages[b] /\ disk.pages[b] \in Pages
  BY <1>3 DEF Page, Disks
<1>5. /\ disk' \in Disks /\ disk'.pages[new] = disk.pages[b]
      /\ \A x \in Blocks : x # new => disk'.pages[x] = disk.pages[x]
      /\ disk'.used = disk.used /\ disk'.sb = disk.sb
  BY <1>1, <1>2, <1>3, <1>4, PageWritten
<1>6. /\ mem'.store = mem.store /\ mem'.modified = mem.modified /\ mem'.index = mem.index
      /\ mem'.dedup = mem.dedup /\ mem'.sb = mem.sb /\ mem'.used = mem.used \cup {new}
      /\ mem' \in Stores
  BY <1>1, <1>2, <1>3 DEF Stores
<1> QED
  BY <1>1, <1>2, <1>5, <1>6

LEMMA SnapsCloned ==
  ASSUME Live, Snaps, NEW b \in mem.used, Cloned(b), disk.pages[b].kind # "table",
         pc \in {"retry", "snap_dedup"}, pc' \in {"snap_dedup", "snap_table"},
         work' = work, taken' = taken
  PROVE  Snaps'
<1> DEFINE new == Allocated(mem)
<1>1. /\ new \in Blocks \ mem.used
      /\ mem'.index = mem.index /\ mem'.dedup = mem.dedup /\ mem'.sb = mem.sb
      /\ mem'.used = mem.used \cup {new}
      /\ disk' \in Disks /\ disk'.sb = disk.sb
      /\ disk'.pages[new] = disk.pages[b]
      /\ \A x \in Blocks : x # new => disk'.pages[x] = disk.pages[x]
  BY ClonedIs
<1> HIDE DEF new
<1>2. Running /\ Running' /\ Held' = Held
  BY DEF Running, Held
<1>3. \A id \in Ids : mem.index[id] # 0 => disk'.pages[mem.index[id]] = disk.pages[mem.index[id]]
  BY <1>1, <1>2, LeavesUsed, LiveTypes
<1>4. ASSUME NEW s, s.dedup \in DedupTables, Covers(mem, disk.pages, Held, s)
      PROVE  Covers(mem', disk'.pages, Held', s)
  BY <1>1, <1>2, <1>3, <1>4, CoversNext, LiveTypes
<1>5. taken' \in Seq(Records) /\ Len(taken') = Len(taken) /\ Thinned(taken', taken)
  BY TakenSame DEF Snaps
<1>6. /\ mem'.used \in {mem.used, mem.used \cup {new}}
      /\ disk'.pages[new] = disk.pages[new] \/ disk'.pages[new].kind # "table"
      /\ pc = "snap_sb" => pc' = "snap_sb"
      /\ pc' \in {"compact", "compact_sb"} => pc \in {"compact", "compact_sb"}
      /\ new \notin mem.used
  BY <1>1
<1> QED
  BY <1>1, <1>2, <1>4, <1>5, <1>6, SnapsWritten

\* The copy of the index.
LEMMA IndexCloned ==
  ASSUME Live, SnapshotIndex
  PROVE  /\ mem.sb.index \in mem.used /\ disk.pages[mem.sb.index] = IndexPage(mem.index)
         /\ Cloned(mem.sb.index)
<1>1. pc = "retry" /\ Cloned(mem.sb.index)
  BY DEF SnapshotIndex
<1>2. Running /\ mem.sb.index # 0 /\ ReadIndex(mem.sb.index) = mem.index
  BY <1>1 DEF Running, Live, Progress
<1>3. mem.sb.index \in mem.used /\ disk.pages[mem.sb.index].kind = "index"
  BY <1>2, LeavesUsed
<1>4. disk.pages[mem.sb.index] \in Pages /\ mem.sb.index \in Blocks
  BY <1>2, LiveTypes DEF Pointers
<1>5. disk.pages[mem.sb.index].index = mem.index
  BY <1>2, <1>3 DEF ReadIndex, Page
<1>6. disk.pages[mem.sb.index] = IndexPage(mem.index)
  BY <1>3, <1>4, <1>5 DEF Pages, IndexPage
<1> QED
  BY <1>1, <1>3, <1>6

\* The copy of the dedup table.
LEMMA DedupCloned ==
  ASSUME Live, Cloning, SnapshotDedup
  PROVE  /\ mem.sb.dedup \in mem.used /\ disk.pages[mem.sb.dedup] = DedupPage(mem.dedup)
         /\ Cloned(mem.sb.dedup)
<1>1. pc = "snap_dedup" /\ Cloned(mem.sb.dedup)
  BY DEF SnapshotDedup
<1>2. Running /\ mem.sb.dedup # 0 /\ ReadDedup(mem.sb.dedup) = mem.dedup
  BY <1>1 DEF Running, Live, Progress, Cloning, Syncing
<1>3. mem.sb.dedup \in mem.used /\ disk.pages[mem.sb.dedup].kind = "dedup"
  BY <1>2, LeavesUsed
<1>4. disk.pages[mem.sb.dedup] \in Pages /\ mem.sb.dedup \in Blocks
  BY <1>2, LiveTypes DEF Pointers
<1>5. disk.pages[mem.sb.dedup].dedup = mem.dedup
  BY <1>2, <1>3 DEF ReadDedup, Page
<1>6. disk.pages[mem.sb.dedup] = DedupPage(mem.dedup)
  BY <1>3, <1>4, <1>5 DEF Pages, DedupPage
<1> QED
  BY <1>1, <1>3, <1>6

LEMMA SnapsCopied ==
  ASSUME Live, Snaps, Cloning, SnapshotIndex \/ SnapshotDedup
  PROVE  Snaps'
<1>1. CASE SnapshotIndex
  <2>1. /\ pc = "retry" /\ pc' \in {"snap_dedup", "snap_table"} /\ work' = work /\ taken' = taken
    BY <1>1 DEF SnapshotIndex, snapVars
  <2>2. /\ mem.sb.index \in mem.used /\ disk.pages[mem.sb.index].kind # "table"
        /\ Cloned(mem.sb.index)
    BY <1>1, IndexCloned DEF IndexPage
  <2> QED
    BY <2>1, <2>2, SnapsCloned
<1>2. CASE SnapshotDedup
  <2>1. /\ pc = "snap_dedup" /\ pc' = "snap_table" /\ work' = work /\ taken' = taken
    BY <1>2 DEF SnapshotDedup, snapVars
  <2>2. /\ mem.sb.dedup \in mem.used /\ disk.pages[mem.sb.dedup].kind # "table"
        /\ Cloned(mem.sb.dedup)
    BY <1>2, DedupCloned DEF DedupPage
  <2> QED
    BY <2>1, <2>2, SnapsCloned
<1> QED
  BY <1>1, <1>2

\* What a new snapshot table leaves alone.
KeptBy(new) ==
  /\ mem'.sb.index = mem.sb.index /\ mem'.sb.snapshot = new /\ new \in mem'.used
  /\ \A b \in mem.used : disk.pages[b].kind # "table" =>
       b \in mem'.used /\ disk'.pages[b] = disk.pages[b]

LEMMA TableMoves ==
  ASSUME Live, NEW page \in Pages, NEW new, TableAt("snapshot", page, new),
         mem.sb.snapshot # 0 => disk.pages[mem.sb.snapshot].kind = "table"
  PROVE  KeptBy(new)
<1>1. mem.sb \in Superblocks /\ mem.used \in SUBSET Blocks /\ 0 \notin mem.used
  BY LiveTypes
<1>2. mem'.sb.index = mem.sb.index /\ mem'.sb.snapshot = new /\ new \in mem'.used
  BY <1>1 DEF TableAt, Superblocks
<1>3. ASSUME NEW b \in mem.used, disk.pages[b].kind # "table"
      PROVE  b \in mem'.used /\ disk'.pages[b] = disk.pages[b]
  <2>1. b # mem.sb.snapshot /\ b \in Blocks
    BY <1>1, <1>3
  <2> QED
    BY <1>3, <2>1 DEF TableAt
<1> QED
  BY <1>2, <1>3 DEF KeptBy

\* A snapshot survives the next one.
LEMMA TakenStays ==
  ASSUME Live, Snaps, Running, NEW new, KeptBy(new), NEW k \in IntactIn(taken),
         mem'.index = mem.index, mem'.dedup = mem.dedup, Held' = Held
  PROVE  Survives(TableIn(disk.pages, mem.sb.snapshot)[k], mem, disk.pages,
                  mem', disk'.pages, Held')
<1> DEFINE table == TableIn(disk.pages, mem.sb.snapshot)
           s == EntryImage(table[k], disk.pages, mem.used)
<1>1. /\ table[k].index # mem.sb.index
      /\ s.dedup \in DedupTables /\ Covers(mem, disk.pages, Held, s)
      /\ NamedWell(table[k])
  BY TakenIs
<1> HIDE DEF table, s
<1>2. mem'.sb.index = mem.sb.index
  BY DEF KeptBy
<1>3. \A b \in NamedBy(table[k], disk.pages) : b # 0 => b \in mem'.used /\ disk'.pages[b] = disk.pages[b]
  BY <1>1 DEF NamedWell, KeptBy
<1>4. \A id \in Ids : mem.index[id] # 0 => disk'.pages[mem.index[id]] = disk.pages[mem.index[id]]
  BY LeavesUsed DEF KeptBy
<1>5. Covers(mem', disk'.pages, Held', s)
  BY <1>1, <1>4, CoversNext, LiveTypes
<1>6. Survives(table[k], mem, disk.pages, mem', disk'.pages, Held')
  BY <1>1, <1>2, <1>3, <1>5 DEF Survives, s
<1> QED
  BY <1>6 DEF table

\* The new snapshot has what memory and disk have.
NewEntry(e) ==
  /\ e \in Entry
  /\ e.index \in mem.used /\ e.index # mem.sb.index
  /\ disk.pages[e.index] = IndexPage(mem.index)
  /\ e.dedup = 0 => mem.dedup = NoDedup
  /\ e.dedup # 0 => e.dedup \in mem.used /\ disk.pages[e.dedup] = DedupPage(mem.dedup)

LEMMA NewEntryIs ==
  ASSUME Live, Running, NEW new, KeptBy(new), NEW e, NewEntry(e)
  PROVE  /\ IndexIn(disk'.pages, e.index) = mem.index
         /\ DedupIn(disk'.pages, e.dedup) = mem.dedup
         /\ e.index # 0 /\ e.index \in mem'.used /\ disk'.pages[e.index].kind = "index"
         /\ e.dedup # 0 => e.dedup \in mem'.used /\ disk'.pages[e.dedup].kind = "dedup"
<1>1. 0 \notin mem.used
  BY LiveTypes
<1>2. /\ \A i : IndexPage(i).kind = "index" /\ IndexPage(i).index = i
      /\ \A t : DedupPage(t).kind = "dedup" /\ DedupPage(t).dedup = t
  BY DEF IndexPage, DedupPage
<1>3. e.index # 0 /\ e.index \in mem'.used /\ disk'.pages[e.index] = IndexPage(mem.index)
  BY <1>1, <1>2 DEF NewEntry, KeptBy
<1>4. IndexIn(disk'.pages, e.index) = mem.index
  BY <1>2, <1>3 DEF IndexIn, PageIn
<1>5. CASE e.dedup = 0
  BY <1>2, <1>3, <1>4, <1>5 DEF NewEntry, DedupIn, PageIn, NoPage
<1>6. CASE e.dedup # 0
  <2>1. e.dedup \in mem'.used /\ disk'.pages[e.dedup] = DedupPage(mem.dedup)
    BY <1>2, <1>6 DEF NewEntry, KeptBy
  <2> QED
    BY <1>2, <1>3, <1>4, <1>6, <2>1 DEF DedupIn, PageIn
<1> QED
  BY <1>5, <1>6

LEMMA NewEntryGood ==
  ASSUME Live, Running, work = None, Dirty = {}, Alive, failures = {},
         NEW new, KeptBy(new), NEW e, NewEntry(e),
         mem'.index = mem.index, mem'.dedup = mem.dedup
  PROVE  EntryGood(mem', disk'.pages, {}, expected, e)
<1> DEFINE s == EntryImage(e, disk'.pages, mem'.used)
<1>1. /\ s.index = mem.index /\ s.dedup = mem.dedup /\ s.used = mem'.used
      /\ s.sb.index = e.index /\ s.sb.dedup = e.dedup
      /\ e.index # 0 /\ e.index \in mem'.used /\ disk'.pages[e.index].kind = "index"
      /\ e.dedup # 0 => e.dedup \in mem'.used /\ disk'.pages[e.dedup].kind = "dedup"
  BY EntryIs, NewEntryIs
<1> HIDE DEF s
<1>2. Held = {}
  BY DEF Held
<1>3. Image(mem, disk.pages, {}) /\ Saved(mem.index, disk.pages, {})
  BY <1>2 DEF Live, StoreGood
<1>4. Tables(s, disk'.pages)
  BY <1>1 DEF Tables
<1>5. \A b \in mem.used : \/ b \in s.used /\ disk'.pages[b] = disk.pages[b]
                          \/ disk.pages[b].kind \in {"index", "dedup", "table"}
  BY <1>1 DEF KeptBy
<1>6. Image(s, disk'.pages, {})
  BY <1>1, <1>3, <1>4, <1>5, ImageKept
<1>7. Covers(mem', disk'.pages, {}, s)
  <2>1. mem.dedup \in DedupTables
    BY LiveTypes
  <2>2. \A d : Fresh(mem', s, disk'.pages, d) = {}
    BY <1>1 DEF Fresh
  <2>3. \A d \in Dims : mem.dedup[d].count \in Nat
    BY <2>1 DEF DedupTables
  <2>4. Cardinality({}) = 0
    BY FS_EmptySet
  <2> QED
    BY <1>1, <2>2, <2>3, <2>4 DEF Covers
<1>8. HoldsOf(expected, s.index, disk'.pages)
  <2>1. \A id \in Ids : mem.index[id] # 0 =>
          expected[id] # None /\ disk'.pages[mem.index[id]] = disk.pages[mem.index[id]]
    BY LeavesUsed DEF Alive, KeptBy
  <2> QED
    BY <1>1, <1>3, <2>1 DEF HoldsOf, Saved
<1>9. e.index # mem'.sb.index
  BY DEF NewEntry, KeptBy
<1> QED
  BY <1>1, <1>6, <1>7, <1>8, <1>9 DEF EntryGood, s

\* The new snapshot covers those before it.
LEMMA NewEntryNests ==
  ASSUME Live, Snaps, Running, work = None, NEW new, KeptBy(new), NEW e, NewEntry(e),
         NEW j \in IntactIn(taken)
  PROVE  Nested(e, TableIn(disk.pages, mem.sb.snapshot)[j], disk'.pages)
<1> DEFINE f == TableIn(disk.pages, mem.sb.snapshot)[j]
           s == EntryImage(f, disk.pages, mem.used)
           m2 == EntryImage(e, disk'.pages, {})
           s2 == EntryImage(f, disk'.pages, {})
<1>1. /\ Image(s, disk.pages, {}) /\ s.dedup \in DedupTables
      /\ Covers(mem, disk.pages, Held, s) /\ NamedWell(f)
  BY TakenIs
<1>2. \A b \in NamedBy(f, disk.pages) : b # 0 => b \in mem'.used /\ disk'.pages[b] = disk.pages[b]
  BY <1>1 DEF NamedWell, KeptBy
<1>3. /\ IndexIn(disk'.pages, f.index) = IndexIn(disk.pages, f.index)
      /\ DedupIn(disk'.pages, f.dedup) = DedupIn(disk.pages, f.dedup)
  BY <1>1, <1>2, EntryKept
<1>4. /\ s.index = IndexIn(disk.pages, f.index) /\ s.dedup = DedupIn(disk.pages, f.dedup)
      /\ s2.index = IndexIn(disk'.pages, f.index) /\ s2.dedup = DedupIn(disk'.pages, f.dedup)
      /\ m2.index = mem.index /\ m2.dedup = mem.dedup
  BY EntryIs, NewEntryIs
<1>5. \A id \in Ids : mem.index[id] # 0 => disk'.pages[mem.index[id]] = disk.pages[mem.index[id]]
  BY LeavesUsed DEF KeptBy
<1>6. mem.dedup \in DedupTables /\ Held = {}
  BY LiveTypes DEF Held
<1> HIDE DEF f, s, m2, s2
<1>7. Covers(m2, disk'.pages, {}, s2)
  BY <1>1, <1>3, <1>4, <1>5, <1>6, CoversSame
<1> QED
  BY <1>7 DEF Nested, m2, s2, f

\* write_snapshot_table
LEMMA SnapsTaken ==
  ASSUME Live, Snaps, Cloning, Alive, Undamaged', SnapshotTable
  PROVE  Snaps'
<1> DEFINE table == TableIn(disk.pages, mem.sb.snapshot)
           e == [index |-> pending.index, dedup |-> pending.dedup]
           page == TablePage(Append(table, e))
           r == [of |-> expected, intact |-> failures = {}]
           n == Len(table)
<1>1. /\ pc = "snap_table" /\ pc' = "snap_sb" /\ work' = work
      /\ TableWritten("snapshot", page)
      /\ taken' = Append(SubSeq(taken, 1, n), r)
      /\ failures' = IF ReplacesTable THEN failures ELSE failures \cup {"freed"}
  BY Reads DEF SnapshotTable
<1>2. ReplacesTable
  BY <1>1 DEF Undamaged
<1>3. mem.sb.snapshot # 0 => disk.pages[mem.sb.snapshot].kind = "table"
  BY <1>2 DEF ReplacesTable, Page
<1>4. /\ Running /\ Running' /\ work = None /\ mem.sb.index # 0 /\ Dirty = {}
      /\ Held = {} /\ Held' = {}
  BY <1>1 DEF Running, Live, WorkGood, Progress, Dirty, Held
<1>5. NewEntry(e)
  BY <1>1, LiveTypes DEF Cloning, NewEntry, Entry, Pointers
<1>6. table \in Seq(Entry) /\ n \in Nat /\ DOMAIN table = 1 .. n /\ e \in Entry
  BY <1>5, ReadTypes, LiveTypes DEF NewEntry
<1>7. taken \in Seq(Records) /\ Len(taken) \in Nat /\ n <= Len(taken)
  BY <1>4 DEF Snaps, TableLength
<1>8. page \in Pages /\ page.kind = "table" /\ page.snapshots = Append(table, e)
  BY <1>6 DEF TablePage, Pages, Entry
<1> HIDE DEF page, table, e
<1>9. PICK new : TableAt("snapshot", page, new)
  BY <1>1, <1>8, TableShape
<1>10. KeptBy(new) /\ mem'.index = mem.index /\ mem'.dedup = mem.dedup
  BY <1>3, <1>8, <1>9, TableMoves DEF TableAt
<1>11. TableIn(disk'.pages, mem'.sb.snapshot) = Append(table, e)
  BY <1>8, <1>9, <1>10 DEF TableAt, KeptBy, TableIn, PageIn
<1>12. r \in Records /\ expected \in Contentses
  BY LiveTypes DEF Records
<1> HIDE DEF r
<1>13. /\ taken' \in Seq(Records) /\ Len(taken') = n + 1
       /\ \A k \in 1 .. n : taken'[k] = taken[k]
       /\ taken'[n + 1] = r
  BY <1>1, <1>6, <1>7, <1>12
<1>14. /\ Len(Append(table, e)) = n + 1 /\ Append(table, e)[n + 1] = e
       /\ \A k \in 1 .. n : Append(table, e)[k] = table[k]
  BY <1>6
<1>15. ASSUME NEW k \in IntactIn(taken')
       PROVE  \/ k \in 1 .. n /\ k \in IntactIn(taken)
              \/ k = n + 1 /\ failures = {}
  <2>1. k \in 1 .. n + 1 /\ taken'[k].intact
    BY <1>6, <1>13 DEF IntactIn
  <2>2. CASE k \in 1 .. n
    <3>1. taken[k].intact /\ k \in DOMAIN taken
      BY <1>6, <1>7, <1>13, <2>1, <2>2
    <3> QED
      BY <2>2, <3>1 DEF IntactIn
  <2>3. CASE k = n + 1
    <3>1. r.intact
      BY <1>13, <2>1, <2>3
    <3> QED
      BY <2>3, <3>1 DEF r
  <2> QED
    BY <1>6, <2>1, <2>2, <2>3
<1>16. ASSUME NEW k \in IntactIn(taken), k \in 1 .. n
       PROVE  /\ Survives(table[k], mem, disk.pages, mem', disk'.pages, {})
              /\ EntryGood(mem', disk'.pages, {}, taken'[k].of, table[k])
  <2>1. Survives(table[k], mem, disk.pages, mem', disk'.pages, {})
    BY <1>4, <1>10, TakenStays DEF table
  <2>2. EntryGood(mem, disk.pages, {}, taken[k].of, table[k])
    BY <1>4 DEF Snaps, SnapsGood, table
  <2> QED
    BY <1>13, <1>16, <2>1, <2>2, EntrySurvives
<1>17. failures = {} => EntryGood(mem', disk'.pages, {}, taken'[n + 1].of, e)
  BY <1>4, <1>5, <1>10, <1>13, NewEntryGood DEF r
<1>18. ASSUME NEW k \in IntactIn(taken), k \in 1 .. n, NEW j \in IntactIn(taken), j \in 1 .. n, j < k
       PROVE  Nested(table[k], table[j], disk'.pages)
  <2>1. /\ Nested(table[k], table[j], disk.pages)
        /\ Image(EntryImage(table[k], disk.pages, mem.used), disk.pages, {})
        /\ Image(EntryImage(table[j], disk.pages, mem.used), disk.pages, {})
    BY <1>4, <1>18 DEF Snaps, SnapsGood, EntryGood, table
  <2>2. /\ \A b \in NamedBy(table[k], disk.pages) : b # 0 => b \in mem'.used /\ disk'.pages[b] = disk.pages[b]
        /\ \A b \in NamedBy(table[j], disk.pages) : b # 0 => b \in mem'.used /\ disk'.pages[b] = disk.pages[b]
    BY <1>16, <1>18 DEF Survives
  <2>3. table[k] \in Entry /\ table[j] \in Entry /\ disk.pages \in [Blocks -> Pages]
    BY <1>6, <1>18, LiveTypes
  <2> QED
    BY <2>1, <2>2, <2>3, NestedKept
<1>19. ASSUME NEW j \in IntactIn(taken)
       PROVE  Nested(e, table[j], disk'.pages)
  BY <1>4, <1>5, <1>10, NewEntryNests DEF table
<1> DEFINE table2 == Append(table, e)
<1>20. ASSUME NEW k \in IntactIn(taken')
       PROVE  /\ k \in DOMAIN table2
              /\ mem'.sb.snapshot \in mem'.used /\ mem'.sb.index # 0
              /\ EntryGood(mem', disk'.pages, {}, taken'[k].of, table2[k])
              /\ \A j \in IntactIn(taken') : j < k => Nested(table2[k], table2[j], disk'.pages)
  <2>1. mem'.sb.snapshot \in mem'.used /\ mem'.sb.index # 0
    BY <1>4, <1>10 DEF KeptBy
  <2>2. k \in DOMAIN table2
    BY <1>6, <1>14, <1>15
  <2>3. EntryGood(mem', disk'.pages, {}, taken'[k].of, table2[k])
    BY <1>14, <1>15, <1>16, <1>17
  <2>4. ASSUME NEW j \in IntactIn(taken'), j < k
        PROVE  Nested(table2[k], table2[j], disk'.pages)
    <3>1. j \in 1 .. n /\ j \in IntactIn(taken)
      BY <1>6, <1>15, <2>4
    <3>2. table2[j] = table[j]
      BY <1>14, <3>1
    <3>3. CASE k \in 1 .. n /\ k \in IntactIn(taken)
      BY <1>14, <1>18, <2>4, <3>1, <3>2, <3>3
    <3>4. CASE k = n + 1
      BY <1>14, <1>19, <3>1, <3>2, <3>4
    <3> QED
      BY <1>15, <3>3, <3>4
  <2> QED
    BY <2>1, <2>2, <2>3, <2>4
<1> HIDE DEF table2
<1>21. SnapsGood(taken', mem', disk'.pages, {})
  BY <1>11, <1>20 DEF SnapsGood, table2
<1>22. SnapsGood(taken, mem, disk.pages, Held)'
  BY <1>4, <1>21, SnapsNext
<1>23. TableLength' = n + 1
  BY <1>4, <1>11, <1>14 DEF TableLength, TableIn, PageIn
<1> QED
  BY <1>1, <1>13, <1>22, <1>23 DEF Snaps

-----------------------------------------------------------------------------
(* restore_snapshot                                                        *)

\* Loading the leaves of an index gives the content of each.
LEMMA LeavesLoaded ==
  ASSUME NEW m, NEW held, Image(m, disk.pages, held), m.index \in Indexes
  PROVE  LET loaded == LoadedFrom(LeavesOf(m), NoStore)
         IN  /\ loaded \in Contentses
             /\ \A id \in Ids :
                  /\ m.index[id] = 0 => loaded[id] = None
                  /\ m.index[id] # 0 =>
                       loaded[id] = {d \in Dims : disk.pages[m.index[id]].at[d] # 0}
<1> DEFINE leaves(id) == {b \in LeavesOf(m) : IsLeaf(b) /\ Page(b).id = id}
           loaded == LoadedFrom(LeavesOf(m), NoStore)
<1>1. loaded = [id \in Ids |-> IF leaves(id) = {} THEN None ELSE ContentAt(Max(leaves(id)))]
  BY DEF LoadedFrom, NoStore
<1>2. \A b : ContentAt(b) \in SUBSET Dims
  BY DEF ContentAt
<1>3. loaded \in Contentses
  <2> HIDE DEF leaves
  <2> QED
    BY <1>1, <1>2 DEF Contentses
<1>4. \A i \in Ids : m.index[i] # 0 => IsLeaf(m.index[i]) /\ Page(m.index[i]).id = i
  BY ContentIs
<1>5. \A b : b \in LeavesOf(m) <=> \E i \in Ids : m.index[i] # 0 /\ b = m.index[i]
  BY DEF LeavesOf, Indexed
<1>6. ASSUME NEW id \in Ids, m.index[id] = 0
      PROVE  loaded[id] = None
  <2>1. leaves(id) = {}
    BY <1>4, <1>5, <1>6
  <2> HIDE DEF leaves, loaded
  <2> QED
    BY <1>1, <2>1
<1>7. ASSUME NEW id \in Ids, m.index[id] # 0
      PROVE  loaded[id] = {d \in Dims : disk.pages[m.index[id]].at[d] # 0}
  <2> DEFINE leaf == m.index[id]
  <2>1. leaves(id) = {leaf}
    BY <1>4, <1>5, <1>7
  <2>2. leaf \in Nat
    BY DEF Indexes, Pointers, Blocks
  <2>3. Max({leaf}) = leaf
    BY <2>2 DEF Max
  <2>4. ContentAt(leaf) = {d \in Dims : disk.pages[m.index[id]].at[d] # 0}
    BY <1>7, ContentIs
  <2> HIDE DEF leaf, leaves, loaded
  <2> QED
    BY <1>1, <2>1, <2>3, <2>4
<1> HIDE DEF loaded
<1> QED
  BY <1>3, <1>6, <1>7 DEF loaded

\* The switch to a snapshot: its tables, the index on a page of its own.
RestoredTo(e, new) ==
  /\ new \in Blocks /\ new # 0 /\ new \notin mem.used \ {mem.sb.index}
  /\ mem'.index = IndexIn(disk.pages, e.index) /\ mem'.dedup = DedupIn(disk.pages, e.dedup)
  /\ mem'.store = LoadedFrom(LeavesOf(mem'), NoStore) /\ mem'.modified = {}
  /\ mem'.used = (mem.used \ {mem.sb.index}) \cup {new}
  /\ mem'.sb = [index |-> new, dedup |-> e.dedup, snapshot |-> mem.sb.snapshot]
  /\ mem' = [store |-> mem'.store, modified |-> mem'.modified, index |-> mem'.index,
             dedup |-> mem'.dedup, used |-> mem'.used, sb |-> mem'.sb]
  /\ disk' \in Disks /\ disk'.pages[new] = IndexPage(mem'.index)
  /\ \A b \in Blocks : b # new => disk'.pages[b] = disk.pages[b]
  /\ disk'.sb = disk.sb /\ disk'.used = disk.used

\* A snapshot that is restored without damage is intact.
LEMMA RestoresIntact ==
  ASSUME Live, Snaps, NEW k, Restore(k), Undamaged'
  PROVE  /\ k \in IntactIn(taken) /\ k \in DOMAIN TableIn(disk.pages, mem.sb.snapshot)
         /\ pc = "ready" /\ pc' = "restore_sb" /\ expected' = taken[k].of /\ failures' = failures
         /\ work' = work /\ todo' = todo /\ journal' = journal /\ log' = log
         /\ pending' = pending /\ Running /\ Running' /\ Held = {} /\ Held' = {}
         /\ todo = {} /\ work = None
<1>1. /\ pc = "ready" /\ pc' = "restore_sb" /\ expected' = taken[k].of
      /\ failures' = IF taken[k].intact THEN failures ELSE failures \cup {"spoiled"}
      /\ work' = work /\ todo' = todo /\ journal' = journal /\ log' = log /\ pending' = pending
      /\ k \in DOMAIN ReadTable(mem.sb.snapshot)
  BY DEF Restore, Called
<1>2. taken[k].intact /\ failures' = failures
  BY <1>1 DEF Undamaged
<1>3. todo = {} /\ work = None /\ Held = {} /\ Held' = {} /\ Running /\ Running'
  BY <1>1, Idle DEF Live, Held, Running
<1>4. k \in DOMAIN TableIn(disk.pages, mem.sb.snapshot)
  BY <1>1, Reads
<1>5. k \in DOMAIN taken
  <2>1. TableIn(disk.pages, mem.sb.snapshot) \in Seq(Entry)
    BY ReadTypes, LiveTypes
  <2>2. taken \in Seq(Records) /\ Len(TableIn(disk.pages, mem.sb.snapshot)) <= Len(taken)
    BY <1>3 DEF Snaps, TableLength
  <2> QED
    BY <1>4, <2>1, <2>2
<1> QED
  BY <1>1, <1>2, <1>3, <1>4, <1>5 DEF IntactIn

LEMMA RestoredIs ==
  ASSUME Live, Snaps, NEW k, Restore(k), Undamaged'
  PROVE  \E new : RestoredTo(TableIn(disk.pages, mem.sb.snapshot)[k], new)
<1> DEFINE e == TableIn(disk.pages, mem.sb.snapshot)[k]
           m == Restored(e)
           freed == [m EXCEPT !.used = @ \ {m.sb.index}]
           new == Allocated(freed)
           index == IndexIn(disk.pages, e.index)
           dedup == DedupIn(disk.pages, e.dedup)
<1>1. /\ k \in IntactIn(taken) /\ Running
  BY RestoresIntact
<1>2. /\ mem' = [freed EXCEPT !.used = @ \cup {new}, !.sb.index = new]
      /\ disk' = [disk EXCEPT !.pages[new] = IndexPage(m.index)]
  BY Reads DEF Restore
<1>3. /\ mem \in Stores /\ mem.sb \in Superblocks /\ disk \in Disks /\ mem.used \in SUBSET Blocks
  BY LiveTypes
<1>4. /\ mem.sb.index # 0 /\ e \in Entry /\ index \in Indexes
  BY <1>1, TakenIs
<1>5. mem.sb.index \in mem.used
  BY <1>1, <1>4, LeavesUsed
<1> DEFINE store == LoadedFrom({index[id] : id \in Ids} \ {0}, NoStore)
<1>6. m = [mem EXCEPT !.index = index, !.dedup = dedup, !.sb.dedup = e.dedup,
                      !.store = store, !.modified = {}]
  <2>1. ReadIndex(e.index) = index /\ ReadDedup(e.dedup) = dedup
    BY Reads
  <2> HIDE DEF e, index, dedup
  <2> QED
    BY <2>1 DEF Restored
<1> HIDE DEF e, index, dedup, store
<1>7. m = [store |-> store, modified |-> {}, index |-> index, dedup |-> dedup, used |-> mem.used,
           sb |-> [index |-> mem.sb.index, dedup |-> e.dedup, snapshot |-> mem.sb.snapshot]]
  <2> DEFINE b2 == [mem.sb EXCEPT !.dedup = e.dedup]
  <2>1. b2 = [index |-> mem.sb.index, dedup |-> e.dedup, snapshot |-> mem.sb.snapshot]
    BY <1>3 DEF Superblocks
  <2>2. m = [mem EXCEPT !.index = index, !.dedup = dedup, !.sb = b2,
                        !.store = store, !.modified = {}]
    BY <1>6
  <2> HIDE DEF b2, m
  <2>3. m = [store |-> store, modified |-> {}, index |-> index, dedup |-> dedup, used |-> mem.used,
             sb |-> b2]
    BY <1>3, <2>2 DEF Stores
  <2> QED
    BY <2>1, <2>3
<1> HIDE DEF m
<1>8. freed = [store |-> store, modified |-> {}, index |-> index, dedup |-> dedup,
               used |-> mem.used \ {mem.sb.index},
               sb |-> [index |-> mem.sb.index, dedup |-> e.dedup, snapshot |-> mem.sb.snapshot]]
  BY <1>7
<1>9. Free(freed) # {}
  BY <1>3, <1>5, <1>8 DEF Free
<1> HIDE DEF freed
<1>10. new \in Blocks /\ new \notin freed.used /\ new # 0
  BY <1>9, AllocatedIsFree
<1> HIDE DEF new
<1>11. mem' = [store |-> store, modified |-> {}, index |-> index, dedup |-> dedup,
               used |-> (mem.used \ {mem.sb.index}) \cup {new},
               sb |-> [index |-> new, dedup |-> e.dedup, snapshot |-> mem.sb.snapshot]]
  BY <1>2, <1>8
<1>12. IndexPage(m.index) \in Pages /\ m.index = index
  BY <1>4, <1>7 DEF IndexPage, Pages
<1>13. /\ disk' \in Disks /\ disk'.pages[new] = IndexPage(index)
       /\ \A b \in Blocks : b # new => disk'.pages[b] = disk.pages[b]
       /\ disk'.sb = disk.sb /\ disk'.used = disk.used
  BY <1>2, <1>3, <1>10, <1>12, PageWritten
<1>14. LeavesOf(mem') = {index[id] : id \in Ids} \ {0}
  BY <1>11 DEF LeavesOf, Indexed
<1>15. mem'.store = LoadedFrom(LeavesOf(mem'), NoStore)
  BY <1>11, <1>14 DEF store
<1>16. RestoredTo(e, new)
  BY <1>8, <1>10, <1>11, <1>13, <1>15 DEF RestoredTo, index, dedup
<1> QED
  BY <1>16 DEF e

\* What a restore leaves alone.
LEMMA RestoreSpares ==
  ASSUME Live, Snaps, Running, NEW e, NEW new, RestoredTo(e, new), NEW j \in IntactIn(taken)
  PROVE  /\ \A b \in NamedBy(TableIn(disk.pages, mem.sb.snapshot)[j], disk.pages) : b # 0 =>
              b \in mem'.used /\ disk'.pages[b] = disk.pages[b]
         /\ TableIn(disk.pages, mem.sb.snapshot)[j].index # mem'.sb.index
         /\ mem.sb.snapshot \in mem'.used
         /\ disk'.pages[mem.sb.snapshot] = disk.pages[mem.sb.snapshot]
<1> DEFINE f == TableIn(disk.pages, mem.sb.snapshot)[j]
<1>1. /\ NamedWell(f) /\ mem.sb.snapshot \in mem.used /\ mem.sb.index # 0
      /\ disk.pages[mem.sb.snapshot].kind = "table" /\ f.index # mem.sb.index /\ f.index # 0
  BY TakenIs
<1>2. mem.sb.index \in mem.used /\ disk.pages[mem.sb.index].kind = "index"
  BY <1>1, LeavesUsed
<1>3. mem.used \in SUBSET Blocks
  BY LiveTypes
<1> HIDE DEF f
<1>4. \A b \in mem.used : b # mem.sb.index => b \in mem'.used /\ disk'.pages[b] = disk.pages[b] /\ b # new
  BY <1>3 DEF RestoredTo
<1>5. \A b \in NamedBy(f, disk.pages) : b # 0 => b \in mem.used /\ b # mem.sb.index
  BY <1>1, <1>2 DEF NamedWell
<1>6. f.index \in NamedBy(f, disk.pages)
  BY DEF NamedBy
<1>7. f.index # mem'.sb.index
  BY <1>1, <1>4, <1>5, <1>6 DEF RestoredTo
<1>8. mem.sb.snapshot # mem.sb.index
  BY <1>1, <1>2
<1> QED
  BY <1>1, <1>4, <1>5, <1>7, <1>8 DEF f

\* What is restored is the snapshot.
LEMMA RestoreGives ==
  ASSUME Live, Snaps, NEW k, Restore(k), Undamaged', NEW new,
         RestoredTo(TableIn(disk.pages, mem.sb.snapshot)[k], new)
  PROVE  /\ mem' \in Stores /\ Image(mem', disk'.pages, {})
         /\ HoldsOf(expected', mem'.index, disk'.pages) /\ expected' \in Contentses
         /\ \A id \in Ids :
              /\ mem'.index[id] = 0 => mem'.store[id] = None
              /\ mem'.index[id] # 0 =>
                   mem'.store[id] = {d \in Dims : disk'.pages[mem'.index[id]].at[d] # 0}
         /\ IndexIn(disk'.pages, mem'.sb.index) = mem'.index
         /\ DedupIn(disk'.pages, mem'.sb.dedup) = mem'.dedup
         /\ mem'.sb.dedup = 0 => mem'.dedup = NoDedup
<1> DEFINE e == TableIn(disk.pages, mem.sb.snapshot)[k]
           s == EntryImage(e, disk.pages, mem.used)
<1>1. k \in IntactIn(taken) /\ Running /\ expected' = taken[k].of
  BY RestoresIntact
<1>2. /\ e \in Entry /\ Image(s, disk.pages, {}) /\ HoldsOf(taken[k].of, s.index, disk.pages)
      /\ s.index = IndexIn(disk.pages, e.index) /\ s.index \in Indexes
      /\ s.dedup = DedupIn(disk.pages, e.dedup) /\ s.dedup \in DedupTables
      /\ mem.sb.index # 0
  BY <1>1, TakenIs
<1>3. /\ \A b \in NamedBy(e, disk.pages) : b # 0 => b \in mem'.used /\ disk'.pages[b] = disk.pages[b]
  BY <1>1, RestoreSpares
<1>4. s.sb.dedup = e.dedup /\ s.used = mem.used
  BY EntryIs
<1>5. RestoredTo(e, new) /\ taken \in Seq(Records)
  BY DEF Snaps
<1> HIDE DEF e, s
<1>6. /\ mem'.index = s.index /\ mem'.dedup = s.dedup /\ mem'.sb.dedup = e.dedup
      /\ mem'.sb.index = new /\ new # 0 /\ new \in mem'.used /\ disk'.pages[new] = IndexPage(mem'.index)
  BY <1>2, <1>5 DEF RestoredTo
<1>7. /\ \A id \in Ids : s.index[id] # 0 => disk'.pages[s.index[id]] = disk.pages[s.index[id]]
      /\ e.dedup # 0 => e.dedup \in mem'.used /\ disk'.pages[e.dedup] = disk.pages[e.dedup]
  BY <1>2, <1>3 DEF NamedBy
<1>8. Tables(mem', disk'.pages)
  BY <1>2, <1>4, <1>6, <1>7 DEF Tables, Image, IndexPage
<1>9. /\ mem.sb.index \in mem.used /\ disk.pages[mem.sb.index].kind = "index"
      /\ mem.used \in SUBSET Blocks
  BY <1>1, <1>2, LeavesUsed, LiveTypes
<1>10. \A b \in s.used : \/ b \in mem'.used /\ disk'.pages[b] = disk.pages[b]
                         \/ disk.pages[b].kind \in {"index", "dedup", "table"}
  BY <1>4, <1>5, <1>9 DEF RestoredTo
<1>11. Image(mem', disk'.pages, {})
  BY <1>2, <1>6, <1>8, <1>10, ImageKept
<1>12. HoldsOf(expected', mem'.index, disk'.pages)
  BY <1>1, <1>2, <1>6, <1>7 DEF HoldsOf
<1>13. expected' \in Contentses
  <2>1. k \in DOMAIN taken
    BY <1>1 DEF IntactIn
  <2>2. taken[k] \in Records
    BY <1>5, <2>1
  <2> QED
    BY <1>1, <2>2 DEF Records
<1>15. /\ mem'.store \in Contentses
       /\ \A id \in Ids :
            /\ mem'.index[id] = 0 => mem'.store[id] = None
            /\ mem'.index[id] # 0 =>
                 mem'.store[id] = {d \in Dims : disk.pages[mem'.index[id]].at[d] # 0}
  <2> DEFINE loaded == LoadedFrom(LeavesOf(s), NoStore)
  <2>1. /\ loaded \in Contentses
        /\ \A id \in Ids :
             /\ s.index[id] = 0 => loaded[id] = None
             /\ s.index[id] # 0 => loaded[id] = {d \in Dims : disk.pages[s.index[id]].at[d] # 0}
    BY <1>2, LeavesLoaded
  <2>2. LeavesOf(mem') = LeavesOf(s)
    BY <1>6 DEF LeavesOf, Indexed
  <2>3. mem'.store = loaded
    BY <1>5, <2>2 DEF RestoredTo
  <2> HIDE DEF loaded
  <2> QED
    BY <1>6, <2>1, <2>3
<1>16. mem' \in Stores
  <2>1. mem'.sb \in Superblocks
    BY <1>2, <1>5, LiveTypes DEF RestoredTo, Superblocks, Entry, Pointers
  <2>2. mem'.used \in SUBSET Blocks /\ mem'.modified = {}
    BY <1>5, <1>9 DEF RestoredTo
  <2>3. mem' = [store |-> mem'.store, modified |-> mem'.modified, index |-> mem'.index,
                dedup |-> mem'.dedup, used |-> mem'.used, sb |-> mem'.sb]
    BY <1>5 DEF RestoredTo
  <2> QED
    BY <1>2, <1>6, <1>15, <2>1, <2>2, <2>3 DEF Stores, Contentses
<1>17. IndexIn(disk'.pages, mem'.sb.index) = mem'.index
  BY <1>6 DEF IndexIn, PageIn, IndexPage
<1>18. DedupIn(disk'.pages, mem'.sb.dedup) = mem'.dedup
  BY <1>2, <1>6, <1>7 DEF DedupIn, PageIn
<1>19. mem'.sb.dedup = 0 => mem'.dedup = NoDedup
  BY <1>2, <1>6 DEF DedupIn, PageIn, NoPage
<1>20. \A id \in Ids : mem'.index[id] # 0 =>
         {d \in Dims : disk'.pages[mem'.index[id]].at[d] # 0}
           = {d \in Dims : disk.pages[mem'.index[id]].at[d] # 0}
  BY <1>6, <1>7
<1> QED
  BY <1>11, <1>12, <1>13, <1>15, <1>16, <1>17, <1>18, <1>19, <1>20

LEMMA RestoreKeeps ==
  ASSUME Live, Snaps, NEW k, Restore(k), Undamaged'
  PROVE  Live' /\ (Lasting => Lasting')
<1>1. PICK new : RestoredTo(TableIn(disk.pages, mem.sb.snapshot)[k], new)
  BY RestoredIs
<1>2. /\ pc = "ready" /\ pc' = "restore_sb"
      /\ work' = work /\ todo' = todo /\ journal' = journal /\ log' = log
      /\ pending' = pending /\ Running /\ Running' /\ Held' = {}
      /\ todo = {} /\ work = None
  BY RestoresIntact
<1>3. /\ mem' \in Stores /\ Image(mem', disk'.pages, {})
      /\ HoldsOf(expected', mem'.index, disk'.pages) /\ expected' \in Contentses
      /\ \A id \in Ids :
           /\ mem'.index[id] = 0 => mem'.store[id] = None
           /\ mem'.index[id] # 0 =>
                mem'.store[id] = {d \in Dims : disk'.pages[mem'.index[id]].at[d] # 0}
      /\ IndexIn(disk'.pages, mem'.sb.index) = mem'.index
      /\ DedupIn(disk'.pages, mem'.sb.dedup) = mem'.dedup
      /\ mem'.sb.dedup = 0 => mem'.dedup = NoDedup
  BY <1>1, RestoreGives
<1>4. /\ disk' \in Disks /\ disk'.sb = disk.sb /\ mem'.modified = {} /\ mem'.sb.index # 0
  BY <1>1 DEF RestoredTo
<1>5. PersistTypes'
  BY <1>2, <1>3, <1>4 DEF Live, PersistTypes, MaintenanceStates, Disks, Contentses
<1>6. StoreGood'
  <2>1. \A id \in Ids : expected'[id] # None =>
          /\ mem'.index[id] # 0
          /\ {d \in Dims : disk'.pages[mem'.index[id]].at[d] # 0} = expected'[id]
    BY <1>3 DEF HoldsOf
  <2>2. \A id \in Ids : expected'[id] # None => mem'.store[id] \in {None, expected'[id]}
    BY <1>3, <2>1
  <2>3. Saved(mem.index, disk.pages, Dirty)'
    BY <2>1 DEF Saved
  <2>4. Image(mem, disk.pages, Held)'
    BY <1>2, <1>3 DEF Image, Tables, Leaves, Shared, Counted, HoldersOf, DimPage
  <2> QED
    BY <1>4, <2>2, <2>3, <2>4 DEF StoreGood
<1>7. WorkGood'
  BY <1>2 DEF WorkGood
<1>8. Progress'
  <2>1. pending' = None
    BY <1>2 DEF Live, Progress
  <2>2. ReadIndex(mem.sb.index)' = mem'.index /\ ReadDedup(mem.sb.dedup)' = mem'.dedup
    BY <1>3 DEF ReadIndex, ReadDedup, Page, IndexIn, DedupIn, PageIn, NoIndex, NoDedup, NoPage
  <2> QED
    BY <1>2, <1>4, <2>1, <2>2 DEF Progress, Syncing
<1>9. JournalGood'
  BY <1>2, JournalSame DEF Live
<1>10. Lasting => Lasting'
  BY <1>2, <1>3, <1>4 DEF Lasting, Filed, Beginnings, Live, NullPointers
<1> QED
  BY <1>5, <1>6, <1>7, <1>8, <1>9, <1>10 DEF Live

\* The counts that are restored cover the snapshots taken before.
LEMMA RestoreCovers ==
  ASSUME Live, Snaps, NEW k, Restore(k), Undamaged', NEW new,
         RestoredTo(TableIn(disk.pages, mem.sb.snapshot)[k], new),
         NEW j \in IntactIn(taken), j <= k
  PROVE  Covers(mem', disk'.pages, {},
                EntryImage(TableIn(disk.pages, mem.sb.snapshot)[j], disk.pages, mem.used))
<1> DEFINE e == TableIn(disk.pages, mem.sb.snapshot)[k]
           f == TableIn(disk.pages, mem.sb.snapshot)[j]
           s == EntryImage(e, disk.pages, {})
           t == EntryImage(f, disk.pages, {})
           t2 == EntryImage(f, disk.pages, mem.used)
<1>1. k \in IntactIn(taken) /\ Running
  BY RestoresIntact
<1>2. /\ e \in Entry /\ f \in Entry
      /\ DedupIn(disk.pages, e.dedup) \in DedupTables /\ DedupIn(disk.pages, f.dedup) \in DedupTables
      /\ k \in DOMAIN TableIn(disk.pages, mem.sb.snapshot)
      /\ j \in DOMAIN TableIn(disk.pages, mem.sb.snapshot)
  BY <1>1, TakenIs
<1>3. /\ s.index = IndexIn(disk.pages, e.index) /\ s.dedup = DedupIn(disk.pages, e.dedup)
      /\ t.index = IndexIn(disk.pages, f.index) /\ t.dedup = DedupIn(disk.pages, f.dedup)
      /\ t2.index = IndexIn(disk.pages, f.index) /\ t2.dedup = DedupIn(disk.pages, f.dedup)
  BY EntryIs
<1>4. Covers(s, disk.pages, {}, t)
  <2>1. CASE j < k
    BY <1>1, <2>1 DEF Snaps, SnapsGood, Nested
  <2>2. CASE j = k
    <3>1. \A d : Fresh(s, s, disk.pages, d) = {}
      BY DEF Fresh
    <3>2. \A d \in Dims : s.dedup[d].count \in Nat
      BY <1>2, <1>3 DEF DedupTables
    <3>3. Cardinality({}) = 0 /\ t = s
      BY <2>2, FS_EmptySet
    <3> HIDE DEF s, t
    <3> QED
      BY <3>1, <3>2, <3>3 DEF Covers
  <2>3. TableIn(disk.pages, mem.sb.snapshot) \in Seq(Entry)
    BY ReadTypes, LiveTypes
  <2>4. j \in Nat /\ k \in Nat
    BY <1>2, <2>3
  <2> QED
    BY <2>1, <2>2, <2>4
<1>5. \A b \in NamedBy(e, disk.pages) : b # 0 => disk'.pages[b] = disk.pages[b]
  BY <1>1, RestoreSpares
<1>6. \A id \in Ids : s.index[id] # 0 => disk'.pages[s.index[id]] = disk.pages[s.index[id]]
  BY <1>3, <1>5 DEF NamedBy
<1>7. mem'.index = s.index /\ mem'.dedup = s.dedup
  BY <1>3 DEF RestoredTo
<1> HIDE DEF e, f, s, t, t2
<1>8. Covers(mem', disk'.pages, {}, t2)
  BY <1>2, <1>3, <1>4, <1>6, <1>7, CoversSame
<1> QED
  BY <1>8 DEF t2, f

LEMMA SnapsRestored ==
  ASSUME Live, Snaps, NEW k, Restore(k), Undamaged'
  PROVE  Snaps'
<1> DEFINE table == TableIn(disk.pages, mem.sb.snapshot)
           later == {j \in DOMAIN taken : j > k}
<1>1. PICK new : RestoredTo(TableIn(disk.pages, mem.sb.snapshot)[k], new)
  BY RestoredIs
<1>2. /\ k \in IntactIn(taken) /\ pc = "ready" /\ pc' = "restore_sb" /\ Running /\ Running'
      /\ Held' = {}
  BY RestoresIntact
<1>3. taken \in Seq(Records) /\ taken' = Spoiled(later)
  BY DEF Restore, Snaps
<1> HIDE DEF later
<1>4. /\ taken' \in Seq(Records) /\ Len(taken') = Len(taken) /\ Thinned(taken', taken)
      /\ \A j \in IntactIn(taken') : j \notin later
  BY <1>3, SpoiledIs
<1>5. \A j \in IntactIn(taken') : j \in IntactIn(taken) /\ j <= k
  BY <1>2, <1>3, <1>4 DEF Thinned, IntactIn, later
<1>6. /\ mem'.sb.snapshot = mem.sb.snapshot /\ mem'.sb.index # 0
      /\ disk' \in Disks /\ disk'.sb = disk.sb
      /\ disk'.pages[new].kind = "index"
      /\ \A b \in Blocks : b # new => disk'.pages[b] = disk.pages[b]
  BY <1>1 DEF RestoredTo, IndexPage
<1>7. ASSUME NEW j \in IntactIn(taken')
      PROVE  /\ mem.sb.snapshot \in mem'.used /\ mem'.sb.index # 0
             /\ disk'.pages[mem.sb.snapshot] = disk.pages[mem.sb.snapshot]
             /\ Survives(table[j], mem, disk.pages, mem', disk'.pages, Held')
  <2>1. j \in IntactIn(taken) /\ j <= k
    BY <1>5
  <2>2. /\ \A b \in NamedBy(table[j], disk.pages) : b # 0 =>
             b \in mem'.used /\ disk'.pages[b] = disk.pages[b]
        /\ table[j].index # mem'.sb.index
        /\ mem.sb.snapshot \in mem'.used
        /\ disk'.pages[mem.sb.snapshot] = disk.pages[mem.sb.snapshot]
    BY <1>1, <1>2, <2>1, RestoreSpares
  <2>3. Covers(mem', disk'.pages, Held', EntryImage(table[j], disk.pages, mem.used))
    BY <1>1, <1>2, <2>1, RestoreCovers
  <2> QED
    BY <1>6, <2>2, <2>3 DEF Survives
<1>8. disk'.sb.snapshot = mem.sb.snapshot
  BY <1>2, <1>6 DEF Snaps
<1>9. mem.sb.snapshot # 0 => \/ disk'.pages[mem.sb.snapshot] = disk.pages[mem.sb.snapshot]
                             \/ disk'.pages[mem.sb.snapshot].kind # "table"
  BY <1>6, LiveTypes DEF Pointers
<1> HIDE DEF table
<1> QED
  BY <1>2, <1>4, <1>6, <1>7, <1>8, <1>9, SnapsStep DEF table

-----------------------------------------------------------------------------
(* The store over compaction and the taking of a snapshot                  *)

\* What waits for a sync of maintenance is no logged operation.
LEMMA NoOperations ==
  /\ [op |-> "compact"] \notin Ops /\ [op |-> "snapshot"] \notin Ops
  /\ \A p : [op |-> "compact", particles |-> p] \notin Ops
  /\ \A i, d : [op |-> "snapshot", index |-> i, dedup |-> d] \notin Ops
<1>1. \A o \in Ops : o.op \in {"write", "delete"}
  BY DEF Ops, WriteOp, DeleteOp
<1> QED
  BY <1>1

LEMMA SyncFirstKeeps ==
  ASSUME Live, Compact \/ Snapshot
  PROVE  Live' /\ (Lasting => Lasting')
<1>1. /\ pc = "ready" /\ pc' = "particles" /\ todo' = mem.modified
      /\ UNCHANGED <<mem, disk, journal, log, work, expected>>
      /\ pending' \in {[op |-> "compact"], [op |-> "snapshot"]}
  BY DEF Compact, Snapshot, SyncFirst, Called
<1>2. pending' \in Ops => pending' \in Writes
  BY <1>1, NoOperations
<1> QED
  BY <1>1, <1>2, SyncStarts

\* Compaction reads every particle and starts over with empty tables.
LEMMA ClearKeeps ==
  ASSUME Live, CompactClear
  PROVE  Live'
<1>1. /\ pc = "retry" /\ pc' = "compact"
      /\ mem' = [mem EXCEPT !.store = NoStore, !.modified = {}, !.index = NoIndex,
                            !.dedup = NoDedup, !.used = {}, !.sb.index = 0, !.sb.dedup = 0]
      /\ pending' = [op |-> "compact", particles |-> Loaded]
      /\ todo' = {id \in Ids : Loaded[id] # None}
      /\ UNCHANGED <<disk, journal, log, work, expected>>
  BY DEF CompactClear
<1>2. /\ todo = {} /\ work = None /\ Held = {} /\ Held' = {} /\ Running /\ Running' /\ StoreGood
      /\ Dirty = mem.modified /\ mem.modified = {}
  BY <1>1, Idle DEF Live, Held, Running, Dirty, Progress
<1>3. mem \in Stores /\ mem.sb \in Superblocks
  BY LiveTypes
<1>4. /\ mem'.store = NoStore /\ mem'.modified = {} /\ mem'.index = NoIndex
      /\ mem'.dedup = NoDedup /\ mem'.used = {}
      /\ mem'.sb = [index |-> 0, dedup |-> 0, snapshot |-> mem.sb.snapshot]
      /\ mem' \in Stores
  <2> DEFINE b2 == [mem.sb EXCEPT !.index = 0, !.dedup = 0]
  <2>1. b2 = [index |-> 0, dedup |-> 0, snapshot |-> mem.sb.snapshot] /\ b2 \in Superblocks
    <3> DEFINE b1 == [mem.sb EXCEPT !.index = 0]
    <3>3. b1 = [index |-> 0, dedup |-> mem.sb.dedup, snapshot |-> mem.sb.snapshot]
      BY <1>3 DEF Superblocks
    <3>1. b2 = [index |-> 0, dedup |-> 0, snapshot |-> mem.sb.snapshot]
      <4>1. b2 = [b1 EXCEPT !.dedup = 0]
        OBVIOUS
      <4> HIDE DEF b1, b2
      <4> QED
        BY <3>3, <4>1
    <3>2. mem.sb.snapshot \in Pointers /\ 0 \in Pointers
      BY <1>3 DEF Superblocks, Pointers
    <3> HIDE DEF b2
    <3> QED
      BY <3>1, <3>2 DEF Superblocks
  <2>2. mem' = [mem EXCEPT !.store = NoStore, !.modified = {}, !.index = NoIndex,
                           !.dedup = NoDedup, !.used = {}, !.sb = b2]
    BY <1>1
  <2> HIDE DEF b2
  <2>3. mem' = [store |-> NoStore, modified |-> {}, index |-> NoIndex, dedup |-> NoDedup,
                used |-> {}, sb |-> b2]
    BY <1>3, <2>2 DEF Stores
  <2>4. /\ NoStore \in [Ids -> (SUBSET Dims) \cup {None}] /\ NoIndex \in Indexes
        /\ NoDedup \in DedupTables
    BY DEF NoStore, NoIndex, NoDedup, Indexes, DedupTables, Pointers
  <2> QED
    BY <2>1, <2>3, <2>4 DEF Stores
<1>5. /\ Loaded \in Contentses
      /\ \A id \in Ids : mem.index[id] # 0 =>
           Loaded[id] = {d \in Dims : disk.pages[mem.index[id]].at[d] # 0}
  BY <1>2, <1>3, LeavesLoaded DEF StoreGood, Loaded, Stores
<1>6. PersistTypes'
  <2>1. Wal!Headers' = Wal!Headers
    BY DEF Wal!Headers
  <2>2. pending' \notin Ops
    BY <1>1, NoOperations
  <2> QED
    BY <1>1, <1>4, <2>1, <2>2 DEF Live, PersistTypes, MaintenanceStates
<1>7. StoreGood'
  <2>1. Image(mem', disk'.pages, {})
    <3>1. \A d \in Dims : HoldersOf(mem', disk'.pages, d) = {}
      BY <1>4 DEF HoldersOf, NoIndex
    <3>2. Cardinality({}) = 0
      BY FS_EmptySet
    <3>3. Counted(mem', disk'.pages, {})
      <4>1. \A d \in Dims : mem'.dedup[d].count = 0
        BY <1>4 DEF NoDedup
      <4>2. ASSUME NEW d \in Dims
            PROVE  Cardinality(HoldersOf(mem', disk'.pages, d))
                     + (IF d \in {} THEN 1 ELSE 0) <= mem'.dedup[d].count
        <5>1. Cardinality(HoldersOf(mem', disk'.pages, d)) = 0
          BY <3>1, <3>2
        <5> QED
          BY <4>1, <5>1
      <4> QED
        BY <4>2 DEF Counted
    <3> QED
      BY <1>4, <3>3 DEF Image, Tables, Leaves, Shared, NoIndex, NoDedup
  <2>2. Image(mem, disk.pages, Held)'
    BY <1>2, <2>1 DEF Image, Tables, Leaves, Shared, Counted, HoldersOf, DimPage
  <2>3. \A id \in Ids : expected[id] # None => id \in todo'
    BY <1>1, <1>2, <1>5 DEF StoreGood, Saved
  <2>4. Saved(mem.index, disk.pages, Dirty)'
    BY <1>1, <2>3 DEF Saved, Dirty
  <2> QED
    BY <1>4, <2>2, <2>4 DEF StoreGood, NoStore
<1>8. WorkGood'
  BY <1>1, <1>2 DEF WorkGood
<1>9. Progress'
  BY <1>1, <1>4 DEF Progress, Syncing
<1>10. JournalGood'
  BY <1>1, JournalSame DEF Live
<1> QED
  BY <1>6, <1>7, <1>8, <1>9, <1>10 DEF Live

\* Compaction takes up the next particle.
LEMMA RewriteKeeps ==
  ASSUME Live, Compacting, NEW id \in Ids, CompactParticle(id)
  PROVE  Live'
<1>1. /\ pc = "compact" /\ work = None /\ id \in todo
      /\ work' = [id |-> id, content |-> pending.particles[id], at |-> Nowhere]
      /\ UNCHANGED <<mem, disk, pc, todo, log, journal, pending, expected>>
  BY DEF CompactParticle, unsynced
<1>2. Running /\ StoreGood /\ Running'
  BY <1>1 DEF Live, Running
<1>3. /\ pending.particles[id] \in SUBSET Dims
      /\ expected[id] # None => pending.particles[id] = expected[id]
  BY <1>1 DEF Compacting, Rewritten, Contentses
<1>4. Nowhere \in [Dims -> Pointers] /\ \A d \in Dims : Nowhere[d] = 0
  BY DEF Nowhere, Pointers
<1>5. /\ work'.id = id /\ work'.content = pending.particles[id] /\ work'.at = Nowhere
      /\ work' \in [id : Ids, content : SUBSET Dims, at : [Dims -> Pointers]]
  BY <1>1, <1>3, <1>4
<1>6. PersistTypes'
  <2>1. Wal!Headers' = Wal!Headers
    BY DEF Wal!Headers
  <2> QED
    BY <1>1, <1>5, <2>1 DEF Live, PersistTypes
<1>7. Held = {} /\ Held' = {}
  <2>1. \A d \in Dims : work'.at[d] = 0
    BY <1>4, <1>5
  <2> QED
    BY <1>1, <2>1 DEF Held
<1>8. StoreGood'
  <2>1. Dirty' = Dirty
    BY <1>1 DEF Dirty
  <2> QED
    BY <1>1, <1>2, <1>7, <2>1, StoreSame
<1>9. WorkGood'
  BY <1>1, <1>3, <1>4, <1>5 DEF Live, WorkGood
<1>10. Progress'
  BY <1>1 DEF Live, Progress, Syncing
<1>11. JournalGood'
  BY <1>1, JournalSame DEF Live
<1> QED
  BY <1>6, <1>8, <1>9, <1>10, <1>11 DEF Live

\* The index that compaction writes.
LEMMA CompactIndexKeeps ==
  ASSUME Live, CompactIndex
  PROVE  Live'
<1> DEFINE page == IndexPage(mem.index)
<1>1. /\ pc = "compact" /\ pc' = "compact_sb" /\ TableWritten("index", page)
      /\ work = None /\ todo = {}
      /\ UNCHANGED <<todo, work, log, journal, pending, expected>>
  BY DEF CompactIndex, unsynced
<1>2. page \in Pages /\ page.kind = "index" /\ page.index = mem.index
  BY LiveTypes DEF IndexPage, Pages
<1> HIDE DEF page
<1>3. /\ PersistTypes' /\ (Running => StoreGood)' /\ WorkGood' /\ JournalGood'
      /\ mem'.index = mem.index /\ mem'.dedup = mem.dedup /\ mem'.modified = {}
      /\ mem'.sb["index"] # 0 /\ disk'.pages[mem'.sb["index"]] = page
  <2>1. pc' \in (SyncStates \cup MaintenanceStates) \ {"particles", "compact"}
    BY <1>1 DEF MaintenanceStates
  <2> QED
    BY <1>1, <1>2, <2>1, TableKeeps
<1>4. ReadIndex(mem.sb.index)' = mem'.index
  BY <1>2, <1>3 DEF ReadIndex, Page
<1>5. Progress'
  BY <1>1, <1>3, <1>4 DEF Progress, Syncing
<1> QED
  BY <1>3, <1>5 DEF Live

\* The superblock with what maintenance wrote.
LEMMA PointerKeeps ==
  ASSUME Live, CompactPointer \/ SnapshotPointer \/ RestorePointer
  PROVE  Live' /\ (~ CompactPointer /\ Lasting => Lasting')
<1>1. /\ pc \in {"compact_sb", "snap_sb", "restore_sb"} /\ pc' = "last_sb" /\ pending' = None
      /\ CompactPointer \/ pc # "compact_sb"
      /\ disk' = [disk EXCEPT !.sb = mem.sb]
      /\ UNCHANGED <<mem, todo, work, log, journal, expected>>
  BY DEF CompactPointer, SnapshotPointer, RestorePointer, FlushSuperblock, unsynced,
         Live, Progress
<1>2. mem \in Stores /\ disk \in Disks
  BY LiveTypes
<1>3. disk' \in Disks /\ disk'.pages = disk.pages /\ disk'.sb = mem.sb
  BY <1>1, <1>2 DEF Stores, Disks
<1>4. todo = {} /\ work = None /\ mem.modified = {}
  BY <1>1, Idle DEF Live, Progress
<1>5. mem' = [mem EXCEPT !.modified = {}]
  BY <1>1, <1>2, <1>4 DEF Stores
<1>6. /\ PersistTypes' /\ (Running => StoreGood)' /\ WorkGood' /\ JournalGood'
      /\ Beginnings => Beginnings'
  <2>1. pc' \in (SyncStates \ {"particles"}) \cup {"ready", "retry"}
    BY <1>1 DEF SyncStates
  <2>2. pc \notin {"closed", "ready"}
    BY <1>1
  <2> QED
    BY <1>1, <1>3, <1>4, <1>5, <2>1, <2>2, Flushed
<1>7. /\ ReadIndex(mem.sb.index)' = ReadIndex(mem.sb.index)
      /\ ReadDedup(mem.sb.dedup)' = ReadDedup(mem.sb.dedup)
  BY <1>1, <1>3 DEF ReadIndex, ReadDedup, Page
<1>8. Progress'
  BY <1>1, <1>3, <1>4, <1>7 DEF Live, Progress, Syncing
<1>9. pc # "compact_sb" /\ Filed => Filed'
  BY <1>1, <1>7 DEF Live, Progress, Syncing, Filed
<1> QED
  BY <1>1, <1>6, <1>8, <1>9 DEF Live, Lasting, Filed

\* A copy of a table in a block that was free.
LEMMA CopyKeeps ==
  ASSUME Live, Cloning, SnapshotIndex \/ SnapshotDedup
  PROVE  Live' /\ (Lasting => Lasting')
<1> DEFINE b == IF pc = "retry" THEN mem.sb.index ELSE mem.sb.dedup
           new == Allocated(mem)
<1>1. /\ pc \in {"retry", "snap_dedup"} /\ pc' \in {"snap_dedup", "snap_table"}
      /\ UNCHANGED <<todo, work, log, journal, expected>>
      /\ pending' \notin Ops
  <2>1. CASE SnapshotIndex
    BY <2>1, NoOperations DEF SnapshotIndex
  <2>2. CASE SnapshotDedup
    <3>1. pending' = [op |-> "snapshot", index |-> pending.index, dedup |-> Allocated(mem)]
      BY <2>2 DEF SnapshotDedup, Cloning
    <3>2. pending' \notin Ops
      BY <3>1, NoOperations
    <3> QED
      BY <2>2, <3>2 DEF SnapshotDedup
  <2> QED
    BY <2>1, <2>2
<1>2. b \in mem.used /\ Cloned(b) /\ disk.pages[b] \in Pages
  <2>1. CASE SnapshotIndex
    BY <2>1, IndexCloned, LiveTypes DEF SnapshotIndex
  <2>2. CASE SnapshotDedup
    BY <2>2, DedupCloned, LiveTypes DEF SnapshotDedup
  <2> QED
    BY <2>1, <2>2
<1> HIDE DEF b
<1>3. /\ new \in Blocks \ mem.used /\ mem' \in Stores
      /\ mem'.store = mem.store /\ mem'.modified = mem.modified /\ mem'.index = mem.index
      /\ mem'.dedup = mem.dedup /\ mem'.sb = mem.sb /\ mem'.used = mem.used \cup {new}
      /\ disk' \in Disks /\ disk'.used = disk.used /\ disk'.sb = disk.sb
      /\ \A x \in Blocks : x # new => disk'.pages[x] = disk.pages[x]
  BY <1>2, ClonedIs
<1> HIDE DEF new
<1>4. /\ Running /\ Running' /\ StoreGood /\ Held = {} /\ Held' = {} /\ Dirty = mem.modified
      /\ Dirty' = mem.modified /\ todo = {} /\ work = None /\ mem.modified = {}
  BY <1>1, <1>3, Idle DEF Live, Running, Held, Dirty, Progress
<1>5. \A x \in mem.used : x \in mem'.used /\ disk'.pages[x] = disk.pages[x]
  BY <1>3, LiveTypes
<1>6. PersistTypes'
  <2>1. Wal!Headers' = Wal!Headers
    BY DEF Wal!Headers
  <2> QED
    BY <1>1, <1>3, <2>1 DEF Live, PersistTypes, Disks, MaintenanceStates
<1>7. \A id \in Ids : mem.index[id] # 0 => disk'.pages[mem.index[id]] = disk.pages[mem.index[id]]
  BY <1>4, <1>5, LeavesUsed
<1>8. StoreGood'
  <2>1. Tables(mem', disk'.pages)
    BY <1>3, <1>4, <1>5 DEF StoreGood, Image, Tables
  <2>2. Image(mem', disk'.pages, {})
    BY <1>3, <1>4, <1>5, <2>1, ImageKept DEF StoreGood
  <2>3. Image(mem, disk.pages, Held)'
    BY <1>4, <2>2 DEF Image, Tables, Leaves, Shared, Counted, HoldersOf, DimPage
  <2>4. Saved(mem.index, disk.pages, Dirty)'
    BY <1>1, <1>3, <1>4, <1>7 DEF StoreGood, Saved
  <2> QED
    BY <1>1, <1>3, <1>4, <2>3, <2>4 DEF StoreGood
<1>9. WorkGood'
  BY <1>1, <1>4 DEF WorkGood
<1>10. Progress'
  <2>1. /\ mem.sb.index # 0 /\ ReadIndex(mem.sb.index) = mem.index
        /\ ReadDedup(mem.sb.dedup) = mem.dedup /\ disk.sb = mem.sb
        /\ disk.used \subseteq mem.used
    BY <1>1 DEF Live, Progress, Syncing
  <2>2. mem.sb.dedup # 0 => mem.sb.dedup \in mem.used
    BY <1>4, LeavesUsed
  <2>3. mem.sb.index \in mem.used
    BY <1>4, <2>1, LeavesUsed
  <2>4. ReadIndex(mem.sb.index)' = mem'.index /\ ReadDedup(mem.sb.dedup)' = mem'.dedup
    BY <1>3, <1>5, <2>1, <2>2, <2>3 DEF ReadIndex, ReadDedup, Page
  <2> QED
    BY <1>1, <1>3, <1>4, <2>1, <2>4 DEF Live, Progress, Syncing
<1>11. JournalGood'
  BY <1>1, JournalSame DEF Live
<1>12. Lasting => Lasting'
  <2> SUFFICES ASSUME Lasting
               PROVE  Filed' /\ Beginnings'
    BY DEF Lasting
  <2>1. Beginnings'
    BY <1>1, <1>3, <1>4 DEF Lasting, Beginnings
  <2>2. log.entries = 0 => FileGood'
    <3> SUFFICES ASSUME log.entries = 0
                 PROVE  FileGood'
      OBVIOUS
    <3>1. FileGood /\ disk.used \subseteq mem.used
      BY <1>1 DEF Lasting, Filed, Live, Progress
    <3>2. \A x \in disk.used : disk'.pages[x] = disk.pages[x]
      BY <1>5, <3>1
    <3>3. /\ disk.sb.index # 0 => disk.sb.index \in disk.used
          /\ disk.sb.dedup # 0 => disk.sb.dedup \in disk.used
      BY <3>1 DEF FileGood, Image, Tables, FileImage
    <3>4. FileImage' = FileImage
      BY <1>3, <3>2, <3>3 DEF FileImage, ReadIndex, ReadDedup, Page
    <3>5. Tables(FileImage, disk'.pages)
      BY <3>1, <3>2 DEF FileGood, Image, Tables, FileImage
    <3>6. Image(FileImage, disk'.pages, {})
      <4>1. Image(FileImage, disk.pages, {}) /\ FileImage.used = disk.used
        BY <3>1 DEF FileGood, FileImage
      <4> QED
        BY <3>2, <3>5, <4>1, ImageKept
    <3>7. \A id \in Ids : FileImage.index[id] # 0 => FileImage.index[id] \in disk.used
      BY <3>1 DEF FileGood, Image, Leaves, FileImage
    <3>8. Saved(FileImage.index, disk.pages, {})'
      BY <1>1, <3>1, <3>2, <3>4, <3>7 DEF FileGood, Saved
    <3>9. Image(FileImage, disk.pages, {})'
      BY <3>4, <3>6 DEF Image, Tables, Leaves, Shared, Counted, HoldersOf, DimPage
    <3> QED
      BY <3>8, <3>9 DEF FileGood
  <2>3. Filed'
    BY <1>1, <2>2 DEF Filed
  <2> QED
    BY <2>1, <2>3
<1> QED
  BY <1>6, <1>8, <1>9, <1>10, <1>11, <1>12 DEF Live

\* The snapshot table on its new page.
LEMMA TakingKeeps ==
  ASSUME Live, Cloning, Undamaged', SnapshotTable
  PROVE  Live' /\ (Lasting => Lasting')
<1> DEFINE table == TableIn(disk.pages, mem.sb.snapshot)
           e == [index |-> pending.index, dedup |-> pending.dedup]
           page == TablePage(Append(table, e))
<1>1. /\ pc = "snap_table" /\ pc' = "snap_sb" /\ pending' = None
      /\ TableWritten("snapshot", page)
      /\ UNCHANGED <<todo, work, log, journal, expected>>
      /\ failures' = IF ReplacesTable THEN failures ELSE failures \cup {"freed"}
  BY Reads DEF SnapshotTable
<1>2. ReplacesTable
  BY <1>1 DEF Undamaged
<1>3. mem.sb.snapshot # 0 => disk.pages[mem.sb.snapshot].kind = "table"
  BY <1>2 DEF ReplacesTable, Page
<1>4. Running /\ work = None /\ todo = {} /\ mem.sb.index # 0
  BY <1>1, Idle DEF Running, Live, Progress
<1>5. e \in Entry
  BY <1>1, LiveTypes DEF Cloning, Entry, Pointers
<1>6. table \in Seq(Entry)
  BY ReadTypes, LiveTypes
<1> HIDE DEF table, e
<1>7. page \in Pages
  BY <1>5, <1>6 DEF TablePage, Pages, Entry
<1> HIDE DEF page
<1>8. /\ PersistTypes' /\ (Running => StoreGood)' /\ WorkGood' /\ JournalGood'
      /\ mem'.index = mem.index /\ mem'.dedup = mem.dedup /\ mem'.modified = {}
      /\ disk'.sb = disk.sb
      /\ \A q \in {"index", "dedup"} :
           /\ mem'.sb[q] = mem.sb[q]
           /\ mem.sb[q] # 0 => disk'.pages[mem.sb[q]] = disk.pages[mem.sb[q]]
  <2>1. pc' \in (SyncStates \cup MaintenanceStates) \ {"particles", "compact"}
    BY <1>1 DEF MaintenanceStates
  <2>2. /\ pc \notin {"closed", "ready", "particles"} /\ "snapshot" \in {"index", "dedup", "snapshot"}
        /\ "snapshot" = "snapshot" /\ mem.sb.snapshot # 0 => disk.pages[mem.sb.snapshot].kind = "table"
        /\ "snapshot" # "snapshot" => page.kind = "snapshot"
        /\ pending' \in {pending, None}
    BY <1>1, <1>3
  <2> QED
    BY <1>1, <1>4, <1>7, <2>1, <2>2, TableKeeps
<1>9. /\ mem'.sb.index = mem.sb.index /\ mem'.sb.dedup = mem.sb.dedup
      /\ mem.sb.index # 0 => disk'.pages[mem.sb.index] = disk.pages[mem.sb.index]
      /\ mem.sb.dedup # 0 => disk'.pages[mem.sb.dedup] = disk.pages[mem.sb.dedup]
  BY <1>8
<1>10. ReadIndex(mem.sb.index)' = mem'.index /\ ReadDedup(mem.sb.dedup)' = mem'.dedup
  BY <1>1, <1>8, <1>9 DEF ReadIndex, ReadDedup, Page, Live, Progress, Syncing
<1>11. Progress'
  BY <1>1, <1>4, <1>8, <1>9, <1>10 DEF Progress, Syncing
<1>12. Lasting => Lasting'
  BY <1>1, <1>4, <1>8, <1>9 DEF Lasting, Filed, Beginnings
<1> QED
  BY <1>8, <1>11, <1>12 DEF Live

\* No block for a copy.
LEMMA SnapshotFailsKeeps ==
  ASSUME Live, SnapshotFails
  PROVE  Live' /\ (Lasting => Lasting')
<1>1. /\ pc \in {"retry", "snap_dedup", "snap_table"} /\ pc' = "ready" /\ pending' = None
      /\ UNCHANGED <<mem, disk, todo, work, log, journal, expected>>
  BY DEF SnapshotFails
<1>2. mem \in Stores /\ disk \in Disks
  BY LiveTypes
<1>3. todo = {} /\ work = None /\ mem.modified = {}
  BY <1>1, Idle DEF Live, Progress
<1>4. mem' = [mem EXCEPT !.modified = {}]
  BY <1>1, <1>2, <1>3 DEF Stores
<1>5. /\ PersistTypes' /\ (Running => StoreGood)' /\ WorkGood' /\ JournalGood'
      /\ Beginnings => Beginnings'
  <2>1. /\ pc' \in (SyncStates \ {"particles"}) \cup {"ready", "retry"}
        /\ pc \notin {"closed", "ready"}
        /\ disk' \in Disks /\ disk'.pages = disk.pages /\ disk'.sb \in {disk.sb, mem.sb}
        /\ pending' \in {pending, None}
    BY <1>1, <1>2
  <2> QED
    BY <1>1, <1>3, <1>4, <2>1, Flushed
<1>6. Progress'
  BY <1>1, <1>3 DEF Progress, Syncing
<1>7. Filed => Filed'
  <2>1. \A id \in Ids : expected'[id] \in {None, expected[id]}
    BY <1>1
  <2> QED
    BY <1>1, <2>1, FileKept DEF Filed
<1> QED
  BY <1>5, <1>6, <1>7 DEF Live, Lasting

-----------------------------------------------------------------------------
(* The rest of the invariant over the operations of the store              *)

\* What a step of the store does to the rest of what maintenance relies on.
StoreMoves ==
  /\ pending' \in {pending, None} \cup Ops
  /\ pc' \in MaintenanceStates => pc' = pc /\ (WriteDimension \/ WriteLeaf)
  /\ opens' \in {opens, opens + 1}

LEMMA StepMoves ==
  ASSUME Live, Step, crashes \in Nat, Undamaged'
  PROVE  StoreMoves
<1>1. CASE \E id \in Ids, c \in Contents : Write(id, c) \/ WriteFull(id, c)
  BY <1>1 DEF Write, WriteFull, LoggedWrite, Called, StoreMoves, MaintenanceStates, Ops
<1>2. CASE \E id \in Ids : LoadParticle(id)
  BY <1>2 DEF LoadParticle, unsynced, StoreMoves, MaintenanceStates
<1>3. CASE SyncBegin \/ Retry
  BY <1>3 DEF SyncBegin, Retry, LoggedWrite, Called, StoreMoves, MaintenanceStates
<1>4. CASE \E id \in Ids : BeginParticle(id)
  BY <1>4 DEF BeginParticle, unsynced, StoreMoves, MaintenanceStates
<1>5. CASE WriteDimension \/ WriteLeaf
  BY <1>5 DEF WriteDimension, WriteLeaf, unsynced, StoreMoves
<1>6. CASE SyncVolume \/ SyncVolumeBitmap \/ WriteIndexPointer \/ WriteDedupPointer
            \/ CheckpointSync \/ CheckpointSyncBitmap
  BY <1>6 DEF SyncVolume, SyncVolumeBitmap, WriteIndexPointer, WriteDedupPointer,
              CheckpointSync, CheckpointSyncBitmap, FlushSuperblock, FlushBitmap, unsynced,
              StoreMoves, MaintenanceStates
<1>7. CASE WriteIndex \/ WriteDedup \/ DropDedup \/ WriteCheckpoint
            \/ SyncFails \/ LeafTooLarge
  BY <1>7 DEF WriteIndex, WriteDedup, DropDedup, WriteCheckpoint, SyncFails, LeafTooLarge,
              unsynced, StoreMoves, MaintenanceStates
<1>8. CASE Close
  BY <1>8 DEF Close, Gone, StoreMoves, MaintenanceStates
<1>9. ~ Crash
  BY DEF Undamaged, Crash
<1>10. CASE Opening
  BY <1>10 DEF Opening, Open, StoreMoves, MaintenanceStates
<1> QED
  BY <1>1, <1>2, <1>3, <1>4, <1>5, <1>6, <1>7, <1>8, <1>9, <1>10 DEF Step, SyncStep

\* The set of all blocks.
LEMMA BlocksCounted ==
  IsFiniteSet(Blocks) /\ Cardinality(Blocks) = BlockCount /\ BlockCount \in Nat
BY PersistAssumption, FS_Interval DEF Blocks

\* The sets that the room of a compaction is counted with.
LEMMA SizesOf ==
  ASSUME NEW m
  PROVE  /\ IsFiniteSet(Indexed(m)) /\ Cardinality(Indexed(m)) \in Nat
         /\ IsFiniteSet(Listed(m)) /\ Cardinality(Listed(m)) \in Nat
<1>1. Indexed(m) \subseteq Ids /\ Listed(m) \subseteq Dims
  BY DEF Indexed, Listed
<1>2. IsFiniteSet(Dims)
  BY PersistAssumption, FS_Interval DEF Dims
<1> QED
  BY <1>1, <1>2, PersistAssumption, FS_Subset, FS_CardinalityType

LEMMA SizesOfParticles ==
  ASSUME NEW p
  PROVE  /\ IsFiniteSet(Rewritten(p)) /\ Cardinality(Rewritten(p)) \in Nat
         /\ IsFiniteSet(DimsOf(p)) /\ Cardinality(DimsOf(p)) \in Nat
<1>1. Rewritten(p) \subseteq Ids /\ DimsOf(p) \subseteq Dims
  BY DEF Rewritten, DimsOf
<1>2. IsFiniteSet(Dims)
  BY PersistAssumption, FS_Interval DEF Dims
<1> QED
  BY <1>1, <1>2, PersistAssumption, FS_Subset, FS_CardinalityType

\* What compaction reads had a block for each leaf and for each dimension.
LEMMA LoadedFits ==
  ASSUME Live, Running, Held = {}
  PROVE  /\ Rewritten(Loaded) \subseteq Indexed(mem)
         /\ Cardinality(Rewritten(Loaded)) + Cardinality(DimsOf(Loaded)) <= BlockCount
<1>1. /\ Loaded \in Contentses
      /\ \A id \in Ids :
           /\ mem.index[id] = 0 => Loaded[id] = None
           /\ mem.index[id] # 0 =>
                Loaded[id] = {d \in Dims : disk.pages[mem.index[id]].at[d] # 0}
  BY LeavesLoaded, LiveTypes DEF Live, StoreGood, Loaded
<1>2. \A id \in Ids : Loaded[id] # None => mem.index[id] # 0
  BY <1>1
<1>3. \A id \in Ids : mem.index[id] # 0 =>
        /\ mem.index[id] \in Blocks /\ disk.pages[mem.index[id]].kind = "leaf"
        /\ disk.pages[mem.index[id]].id = id
        /\ \A d \in Dims : disk.pages[mem.index[id]].at[d] # 0 => mem.dedup[d].block # 0
  BY LiveTypes DEF Live, StoreGood, Image, Leaves
<1>4. \A d \in Dims : mem.dedup[d].block # 0 =>
        mem.dedup[d].block \in Blocks /\ disk.pages[mem.dedup[d].block] = DimPage(d)
  BY LiveTypes DEF Live, StoreGood, Image, Shared
<1> DEFINE R == Rewritten(Loaded)
           D == DimsOf(Loaded)
           f == [id \in R |-> mem.index[id]]
           g == [d \in D |-> mem.dedup[d].block]
           leaves == {mem.index[id] : id \in R}
           shared == {mem.dedup[d].block : d \in D}
<1>5. R \subseteq Ids /\ \A id \in R : mem.index[id] # 0
  BY <1>2 DEF Rewritten
<1>6. D \subseteq Dims /\ \A d \in D : mem.dedup[d].block # 0
  BY <1>1, <1>2, <1>3 DEF DimsOf
<1> HIDE DEF R, D
<1>7. leaves \subseteq Blocks /\ \A b \in leaves : disk.pages[b].kind = "leaf"
  BY <1>3, <1>5
<1>8. shared \subseteq Blocks /\ \A b \in shared : disk.pages[b].kind = "dim"
  <2>1. ASSUME NEW d \in D
        PROVE  mem.dedup[d].block \in Blocks /\ disk.pages[mem.dedup[d].block].kind = "dim"
    <3>1. d \in Dims /\ mem.dedup[d].block # 0
      BY <1>6
    <3>2. disk.pages[mem.dedup[d].block] = DimPage(d) /\ mem.dedup[d].block \in Blocks
      BY <1>4, <3>1
    <3> QED
      BY <3>2 DEF DimPage
  <2> QED
    BY <2>1
<1>9. f \in Injection(R, leaves)
  <2>1. \A i, j \in R : f[i] = f[j] => i = j
    BY <1>3, <1>5
  <2> QED
    BY <2>1 DEF Injection, IsInjective
<1>10. g \in Injection(D, shared)
  <2>1. \A d, e \in D : g[d] = g[e] => d = e
    <3> SUFFICES ASSUME NEW d \in D, NEW e \in D, g[d] = g[e]
                 PROVE  d = e
      OBVIOUS
    <3>1. DimPage(d) = DimPage(e)
      BY <1>4, <1>6
    <3> QED
      BY <3>1 DEF DimPage
  <2> QED
    BY <2>1 DEF Injection, IsInjective
<1>11. leaves \cap shared = {}
  BY <1>7, <1>8
<1> HIDE DEF f, g, leaves, shared
<1>12. IsFiniteSet(leaves) /\ IsFiniteSet(shared)
  BY <1>7, <1>8, BlocksCounted, FS_Subset
<1>13. Cardinality(R) <= Cardinality(leaves) /\ Cardinality(D) <= Cardinality(shared)
  BY <1>9, <1>10, <1>12, FS_Injection
<1>14. Cardinality(leaves \cup shared) = Cardinality(leaves) + Cardinality(shared)
  <2>1. Cardinality(leaves \cup shared)
          = Cardinality(leaves) + Cardinality(shared) - Cardinality(leaves \cap shared)
    BY <1>12, FS_Union
  <2>2. Cardinality(leaves) \in Nat /\ Cardinality(shared) \in Nat
    BY <1>12, FS_CardinalityType
  <2>3. Cardinality(leaves \cap shared) = 0
    BY <1>11, FS_EmptySet
  <2> QED
    BY <2>1, <2>2, <2>3
<1>15. Cardinality(leaves \cup shared) <= BlockCount
  BY <1>7, <1>8, BlocksCounted, FS_Subset
<1>16. /\ Cardinality(R) \in Nat /\ Cardinality(D) \in Nat
       /\ Cardinality(leaves) \in Nat /\ Cardinality(shared) \in Nat
  BY <1>12, SizesOfParticles, FS_CardinalityType DEF R, D
<1>17. Cardinality(R) + Cardinality(D) <= BlockCount
  BY <1>13, <1>14, <1>15, <1>16, BlocksCounted
<1>18. R \subseteq Indexed(mem)
  BY <1>5 DEF Indexed
<1> QED
  BY <1>17, <1>18 DEF R, D

\* A compaction begins with room for all that it read.
LEMMA CompactingBegins ==
  ASSUME Live, CompactClear
  PROVE  Compacting'
<1>1. /\ pc = "retry" /\ pc' = "compact"
      /\ mem' = [mem EXCEPT !.store = NoStore, !.modified = {}, !.index = NoIndex,
                            !.dedup = NoDedup, !.used = {}, !.sb.index = 0, !.sb.dedup = 0]
      /\ pending' = [op |-> "compact", particles |-> Loaded]
      /\ todo' = {id \in Ids : Loaded[id] # None}
      /\ UNCHANGED <<disk, journal, log, work, expected>>
  BY DEF CompactClear
<1>2. /\ todo = {} /\ work = None /\ Held = {} /\ Running /\ StoreGood
      /\ Dirty = mem.modified /\ mem.modified = {}
  BY <1>1, Idle DEF Live, Held, Running, Dirty, Progress
<1>3. mem \in Stores
  BY LiveTypes
<1>4. mem'.index = NoIndex /\ mem'.dedup = NoDedup /\ mem'.used = {}
  BY <1>1, <1>3 DEF Stores
<1>5. Indexed(mem') = {} /\ Listed(mem') = {}
  BY <1>4 DEF Indexed, Listed, NoIndex, NoDedup
<1>6. /\ Loaded \in Contentses
      /\ \A id \in Ids : mem.index[id] # 0 =>
           Loaded[id] = {d \in Dims : disk.pages[mem.index[id]].at[d] # 0}
  BY <1>2, <1>3, LeavesLoaded DEF StoreGood, Loaded, Stores
<1>7. \A id \in Ids : expected[id] # None => Loaded[id] = expected[id]
  BY <1>2, <1>6 DEF StoreGood, Saved
<1>8. Cardinality(Rewritten(Loaded)) + Cardinality(DimsOf(Loaded)) <= BlockCount
  BY <1>2, LoadedFits
<1>9. pending'.particles = Loaded
  BY <1>1
<1>10. todo' = Rewritten(Loaded)
  BY <1>1 DEF Rewritten
<1>11. Indexed(mem)' = Indexed(mem') /\ Listed(mem)' = Listed(mem')
  BY DEF Indexed, Listed
<1>12. Cardinality({}) = 0
  BY FS_EmptySet
<1>13. /\ Rewritten(pending.particles)' = Rewritten(Loaded)
       /\ DimsOf(pending.particles)' = DimsOf(Loaded)
  BY <1>9 DEF Rewritten, DimsOf
<1> QED
  BY <1>1, <1>2, <1>4, <1>5, <1>6, <1>7, <1>8, <1>9, <1>10, <1>11, <1>12, <1>13
     DEF Compacting, Contentses

\* It does not run out of blocks.
LEMMA CompactingHasRoom ==
  ASSUME Live, Compacting
  PROVE  ~ (pc = "compact" /\ SyncFails)
<1> SUFFICES ASSUME pc = "compact", SyncFails
             PROVE  FALSE
  OBVIOUS
<1>1. work # None /\ Free(mem) = {}
  BY DEF SyncFails
<1>2. mem.used = Blocks
  BY <1>1, LiveTypes DEF Free
<1>3. Cardinality(mem.used) = BlockCount
  BY <1>2, BlocksCounted
<1> DEFINE R == Rewritten(pending.particles)
           D == DimsOf(pending.particles)
<1>4. work.id \in todo
  BY <1>1 DEF Live, WorkGood
<1>5. /\ work.id \in R /\ work.id \notin Indexed(mem) /\ Indexed(mem) \subseteq R
      /\ Listed(mem) \subseteq D
      /\ Cardinality(mem.used) <= Cardinality(Indexed(mem)) + Cardinality(Listed(mem))
      /\ Cardinality(R) + Cardinality(D) <= BlockCount
  BY <1>4 DEF Compacting
<1>6. /\ IsFiniteSet(R) /\ Cardinality(R) \in Nat /\ IsFiniteSet(D) /\ Cardinality(D) \in Nat
      /\ Cardinality(Indexed(mem)) \in Nat /\ Cardinality(Listed(mem)) \in Nat
  BY SizesOf, SizesOfParticles
<1> HIDE DEF R, D
<1>7. Cardinality(Listed(mem)) <= Cardinality(D)
  BY <1>5, <1>6, FS_Subset
<1>8. Cardinality(Indexed(mem)) <= Cardinality(R) /\ Cardinality(Indexed(mem)) # Cardinality(R)
  BY <1>5, <1>6, FS_Subset
<1> QED
  BY <1>3, <1>5, <1>6, <1>7, <1>8, BlocksCounted

\* A dimension that it writes.
LEMMA CompactingDimension ==
  ASSUME Live, Compacting, WriteDimension
  PROVE  Compacting'
<1> SUFFICES ASSUME pc' = "compact"
             PROVE  Compacting'
  BY DEF Compacting
<1> DEFINE d == Min(Unwritten)
           new == Allocated(mem)
<1>1. /\ work # None /\ Unwritten # {} /\ pc = "compact"
      /\ UNCHANGED <<pc, todo, pending, expected>>
      /\ \/ /\ mem.dedup[d].block # 0
            /\ mem' = [mem EXCEPT !.dedup[d].count = @ + 1]
            /\ work' = [work EXCEPT !.at[d] = mem.dedup[d].block]
         \/ /\ mem.dedup[d].block = 0 /\ Free(mem) # {}
            /\ mem' = [mem EXCEPT !.used = @ \cup {new},
                                  !.dedup[d] = [block |-> new, count |-> 1]]
            /\ work' = [work EXCEPT !.at[d] = new]
  BY Zenon DEF WriteDimension, unsynced
<1>2. d \in Dims /\ d \in work.content
  BY <1>1, NextDimension
<1>3. Free(mem) # {} => new \in Blocks /\ new \notin mem.used /\ new # 0
  BY AllocatedIsFree
<1> HIDE DEF d, new
<1>4. /\ mem \in Stores /\ mem.dedup \in DedupTables /\ mem.used \in SUBSET Blocks
      /\ work \in [id : Ids, content : SUBSET Dims, at : [Dims -> Pointers]]
  BY <1>1, LiveTypes
<1>5. d \in DimsOf(pending.particles)
  <2>1. work.id \in todo /\ work.content = pending.particles[work.id]
    BY <1>1 DEF Live, WorkGood, Compacting
  <2>2. work.id \in Rewritten(pending.particles)
    BY <1>1, <2>1 DEF Compacting
  <2> QED
    BY <1>2, <2>1, <2>2 DEF DimsOf, Rewritten
<1>6. work'.id = work.id /\ work'.content = work.content
  BY <1>1, <1>4
<1>7. /\ Indexed(mem)' = Indexed(mem)
      /\ \/ mem'.used = mem.used /\ Listed(mem)' = Listed(mem)
         \/ /\ mem'.used = mem.used \cup {new} /\ Listed(mem)' = Listed(mem) \cup {d}
            /\ d \notin Listed(mem) /\ new \notin mem.used
  <2>1. CASE /\ mem.dedup[d].block # 0
             /\ mem' = [mem EXCEPT !.dedup[d].count = @ + 1]
    <3> DEFINE t == [mem.dedup EXCEPT ![d].count = @ + 1]
    <3>1. \A e \in Dims : t[e].block = mem.dedup[e].block
      BY <1>2, <1>4 DEF DedupTables
    <3>2. mem' = [mem EXCEPT !.dedup = t]
      BY <2>1
    <3> HIDE DEF t
    <3>3. mem'.index = mem.index /\ mem'.used = mem.used /\ mem'.dedup = t
      BY <1>4, <3>2 DEF Stores
    <3> QED
      BY <3>1, <3>3 DEF Indexed, Listed
  <2>2. CASE /\ mem.dedup[d].block = 0 /\ Free(mem) # {}
             /\ mem' = [mem EXCEPT !.used = @ \cup {new},
                                   !.dedup[d] = [block |-> new, count |-> 1]]
    <3> DEFINE t == [mem.dedup EXCEPT ![d] = [block |-> new, count |-> 1]]
    <3>1. t[d].block = new /\ \A e \in Dims : e # d => t[e] = mem.dedup[e]
      BY <1>2, <1>4 DEF DedupTables
    <3>2. mem' = [mem EXCEPT !.used = @ \cup {new}, !.dedup = t]
      BY <2>2
    <3> HIDE DEF t
    <3>3. mem'.index = mem.index /\ mem'.used = mem.used \cup {new} /\ mem'.dedup = t
      BY <1>4, <3>2 DEF Stores
    <3>4. /\ d \in Dims /\ mem.dedup[d].block = 0
          /\ \A e \in Dims : mem'.dedup[e].block # 0 <=> mem.dedup[e].block # 0 \/ e = d
      BY <1>2, <1>3, <2>2, <3>1, <3>3
    <3>5. Listed(mem') = Listed(mem) \cup {d} /\ d \notin Listed(mem)
      BY <3>4 DEF Listed
    <3>6. Listed(mem)' = Listed(mem')
      BY DEF Listed
    <3> QED
      BY <1>3, <2>2, <3>3, <3>5, <3>6 DEF Indexed
  <2> QED
    BY <1>1, <2>1, <2>2
<1>8. Listed(mem)' \subseteq DimsOf(pending.particles)
  BY <1>1, <1>5, <1>7 DEF Compacting
<1>9. Cardinality(mem'.used) <= Cardinality(Indexed(mem)') + Cardinality(Listed(mem)')
  <2>1. /\ IsFiniteSet(mem.used) /\ Cardinality(mem.used) \in Nat
        /\ IsFiniteSet(Listed(mem)) /\ Cardinality(Listed(mem)) \in Nat
        /\ Cardinality(Indexed(mem)) \in Nat
    BY <1>4, BlocksCounted, FS_Subset, FS_CardinalityType, SizesOf
  <2>2. Cardinality(mem.used) <= Cardinality(Indexed(mem)) + Cardinality(Listed(mem))
    BY <1>1 DEF Compacting
  <2>3. CASE mem'.used = mem.used /\ Listed(mem)' = Listed(mem)
    BY <1>7, <2>2, <2>3
  <2>4. CASE /\ mem'.used = mem.used \cup {new} /\ Listed(mem)' = Listed(mem) \cup {d}
             /\ d \notin Listed(mem) /\ new \notin mem.used
    <3>1. /\ Cardinality(mem'.used) = Cardinality(mem.used) + 1
          /\ Cardinality(Listed(mem)') = Cardinality(Listed(mem)) + 1
      BY <2>1, <2>4, FS_AddElement
    <3> QED
      BY <1>7, <2>1, <2>2, <3>1
  <2> QED
    BY <1>7, <2>3, <2>4
<1>10. pending' = pending /\ todo' = todo /\ expected' = expected
  BY <1>1
<1> QED
  BY <1>1, <1>6, <1>7, <1>8, <1>9, <1>10 DEF Compacting, Rewritten, DimsOf

\* The leaf of a particle that it writes.
LEMMA CompactingLeaf ==
  ASSUME Live, Compacting, WriteLeaf
  PROVE  Compacting'
<1> SUFFICES ASSUME pc' = "compact"
             PROVE  Compacting'
  BY DEF Compacting
<1> DEFINE id == work.id
           new == Allocated(mem)
<1>1. /\ work # None /\ pc = "compact" /\ Free(mem) # {}
      /\ mem' = [mem EXCEPT !.used = @ \cup {new}, !.index[id] = new, !.store[id] = work.content]
      /\ todo' = todo \ {id} /\ work' = None
      /\ UNCHANGED <<pc, pending, expected>>
  BY DEF WriteLeaf, unsynced
<1>2. id \in todo /\ id \in Ids
  BY <1>1, LiveTypes DEF Live, WorkGood
<1>3. new \in Blocks /\ new \notin mem.used /\ new # 0
  BY <1>1, AllocatedIsFree
<1>4. mem \in Stores /\ mem.index \in Indexes /\ mem.used \in SUBSET Blocks
  BY LiveTypes
<1> HIDE DEF id, new
<1> DEFINE i2 == [mem.index EXCEPT ![id] = new]
           s2 == [mem.store EXCEPT ![id] = work.content]
<1>5. i2[id] = new /\ \A i \in Ids : i # id => i2[i] = mem.index[i]
  BY <1>2, <1>4 DEF Indexes
<1>6. mem' = [mem EXCEPT !.used = @ \cup {new}, !.index = i2, !.store = s2]
  BY <1>1
<1> HIDE DEF i2, s2
<1>7. mem'.index = i2 /\ mem'.dedup = mem.dedup /\ mem'.used = mem.used \cup {new}
  BY <1>4, <1>6 DEF Stores
<1>8. id \notin Indexed(mem) /\ id \in Rewritten(pending.particles)
  BY <1>1, <1>2 DEF Compacting
<1>9. Indexed(mem)' = Indexed(mem) \cup {id} /\ Listed(mem)' = Listed(mem)
  BY <1>2, <1>3, <1>5, <1>7 DEF Indexed, Listed
<1>10. Cardinality(mem'.used) <= Cardinality(Indexed(mem)') + Cardinality(Listed(mem)')
  <2>1. /\ IsFiniteSet(mem.used) /\ Cardinality(mem.used) \in Nat
        /\ IsFiniteSet(Indexed(mem)) /\ Cardinality(Indexed(mem)) \in Nat
        /\ Cardinality(Listed(mem)) \in Nat
    BY <1>4, BlocksCounted, FS_Subset, FS_CardinalityType, SizesOf
  <2>2. Cardinality(mem.used) <= Cardinality(Indexed(mem)) + Cardinality(Listed(mem))
    BY <1>1 DEF Compacting
  <2>3. /\ Cardinality(mem'.used) = Cardinality(mem.used) + 1
        /\ Cardinality(Indexed(mem)') = Cardinality(Indexed(mem)) + 1
    BY <1>3, <1>7, <1>8, <1>9, <2>1, FS_AddElement
  <2> QED
    BY <1>9, <2>1, <2>2, <2>3
<1>11. /\ todo' \cap Indexed(mem)' = {}
       /\ todo' \cup Indexed(mem)' = Rewritten(pending.particles)
  BY <1>1, <1>2, <1>8, <1>9 DEF Compacting
<1> QED
  BY <1>1, <1>9, <1>10, <1>11 DEF Compacting, Rewritten, DimsOf

\* The next particle that it takes up.
LEMMA CompactingParticle ==
  ASSUME Live, Compacting, NEW id \in Ids, CompactParticle(id)
  PROVE  Compacting'
<1>1. /\ pc = "compact" /\ work'.id = id /\ work'.content = pending.particles[id]
      /\ UNCHANGED <<mem, disk, pc, todo, pending, expected>>
  BY DEF CompactParticle, unsynced
<1> QED
  BY <1>1 DEF Compacting, Rewritten, DimsOf, Indexed, Listed

-----------------------------------------------------------------------------
(* What is under way, from one step to the next                            *)

\* Who writes particles for a compaction, and who copies tables.
StepNames ==
  /\ pc' = "compact" =>
       CompactClear \/ WriteDimension \/ WriteLeaf \/ \E id \in Ids : CompactParticle(id)
  /\ pc' \in {"snap_dedup", "snap_table"} => SnapshotIndex \/ SnapshotDedup

LEMMA NamedSteps ==
  ASSUME Live, SnapNext, crashes \in Nat, Undamaged'
  PROVE  StepNames
<1>1. CASE StoreStep
  <2>1. StoreMoves
    BY <1>1, StepMoves DEF StoreStep
  <2>2. CASE WriteDimension \/ WriteLeaf
    <3>1. work # None /\ pc' = pc
      BY <2>2 DEF WriteDimension, WriteLeaf
    <3> QED
      BY <2>2, <3>1 DEF StepNames, Live, WorkGood
  <2> QED
    BY <2>1, <2>2 DEF StoreMoves, StepNames, MaintenanceStates
<1>2. CASE \E id \in Ids : SnapDelete(id)
  BY <1>2 DEF SnapDelete, Delete, Called, StepNames
<1>3. CASE Compact \/ Snapshot
  BY <1>3 DEF Compact, Snapshot, SyncFirst, StepNames
<1>4. CASE \E k \in 1 .. MaxSnapshots : Restore(k)
  BY <1>4 DEF Restore, StepNames
<1>5. CASE CompactClear \/ CompactIndex \/ CompactPointer \/ SnapshotTable
            \/ SnapshotPointer \/ SnapshotFails \/ RestorePointer
  BY <1>5 DEF CompactClear, CompactIndex, CompactPointer, SnapshotTable, SnapshotPointer,
              SnapshotFails, RestorePointer, FlushSuperblock, StepNames
<1>6. CASE \E id \in Ids : CompactParticle(id)
  BY <1>6 DEF CompactParticle, StepNames
<1>7. CASE SnapshotIndex \/ SnapshotDedup
  <2>1. pc' \in {"snap_dedup", "snap_table"}
    BY <1>7 DEF SnapshotIndex, SnapshotDedup
  <2> QED
    BY <1>7, <2>1 DEF StepNames
<1> QED
  BY <1>1, <1>2, <1>3, <1>4, <1>5, <1>6, <1>7 DEF SnapNext, SnapStep

\* A compaction that is announced was counted.
LEMMA AnnouncedNext ==
  ASSUME Live, Cloning, Announced, compactions \in Nat, crashes \in Nat, Undamaged', SnapNext
  PROVE  Announced'
<1> DEFINE compact == [op |-> "compact"]
           states == {"compact", "compact_sb"}
<1>1. compact # None /\ compact \notin Ops
  BY SnapshotsAssumption, NoOperations
<1>2. ASSUME compactions' = compactions,
             pc' \in states => pc \in states \/ pending = compact,
             pending' = compact => pending = compact
      PROVE  Announced'
  BY <1>2 DEF Announced
<1>3. CASE StoreStep
  <2>1. compactions' = compactions /\ StoreMoves
    BY <1>3, StepMoves DEF StoreStep
  <2> QED
    BY <1>1, <1>2, <2>1 DEF StoreMoves, MaintenanceStates
<1>4. CASE \E id \in Ids : SnapDelete(id)
  <2>1. compactions' = compactions /\ pc' = pc /\ pending' = pending
    BY <1>4 DEF SnapDelete, Delete
  <2> QED
    BY <1>2, <2>1
<1>5. CASE Compact
  <2>1. compactions' # 0
    BY <1>5 DEF Compact
  <2> QED
    BY <2>1 DEF Announced
<1>6. CASE Snapshot
  <2>1. compactions' = compactions /\ pc' = "particles" /\ pending' = [op |-> "snapshot"]
    BY <1>6 DEF Snapshot, SyncFirst
  <2>2. pending' # compact
    BY <2>1
  <2> QED
    BY <1>2, <2>1, <2>2
<1>7. CASE \E k \in 1 .. MaxSnapshots : Restore(k)
  <2>1. compactions' = compactions /\ pc' = "restore_sb" /\ pending' = pending
    BY <1>7 DEF Restore
  <2> QED
    BY <1>2, <2>1
<1>8. CASE CompactClear
  <2>1. compactions' = compactions /\ pending = compact
        /\ pending' = [op |-> "compact", particles |-> Loaded]
    BY <1>8 DEF CompactClear
  <2> QED
    BY <1>2, <2>1
<1>9. CASE CompactIndex \/ \E id \in Ids : CompactParticle(id)
  <2>1. compactions' = compactions /\ pc = "compact" /\ pending' = pending
    BY <1>9 DEF CompactIndex, CompactParticle, unsynced, snapVars
  <2> QED
    BY <1>2, <2>1
<1>10. CASE CompactPointer \/ SnapshotPointer \/ RestorePointer
  <2>1. compactions' = compactions /\ pc' = "last_sb" /\ pending' \in {pending, None}
    BY <1>10 DEF CompactPointer, SnapshotPointer, RestorePointer, FlushSuperblock, unsynced, snapVars
  <2> QED
    BY <1>1, <1>2, <2>1
<1>11. CASE SnapshotTable \/ SnapshotFails
  <2>1. compactions' = compactions /\ pc' \in {"snap_sb", "ready"} /\ pending' = None
    BY <1>11 DEF SnapshotTable, SnapshotFails, snapVars
  <2> QED
    BY <1>1, <1>2, <2>1
<1>12. CASE SnapshotIndex
  <2>1. compactions' = compactions /\ pc' \in {"snap_dedup", "snap_table"}
        /\ pending' = [op |-> "snapshot", index |-> Allocated(mem), dedup |-> 0]
    BY <1>12 DEF SnapshotIndex, snapVars
  <2>2. pending'.op = "snapshot" /\ compact.op = "compact"
    BY <2>1
  <2> QED
    BY <1>2, <2>1, <2>2
<1>13. CASE SnapshotDedup
  <2>1. compactions' = compactions /\ pc = "snap_dedup" /\ pc' = "snap_table"
        /\ pending' = [pending EXCEPT !.dedup = Allocated(mem)]
    BY <1>13 DEF SnapshotDedup, snapVars
  <2>2. pending = [op |-> "snapshot", index |-> pending.index, dedup |-> pending.dedup]
    BY <2>1 DEF Cloning
  <2>3. pending'.op = "snapshot" /\ compact.op = "compact"
    BY <2>1, <2>2
  <2> QED
    BY <1>2, <2>1, <2>3
<1> QED
  BY <1>3, <1>4, <1>5, <1>6, <1>7, <1>8, <1>9, <1>10, <1>11, <1>12, <1>13 DEF SnapNext, SnapStep

\* The copies that are taken for a snapshot.
LEMMA CloningNext ==
  ASSUME Live, Cloning, StepNames
  PROVE  Cloning'
<1> SUFFICES ASSUME pc' \in {"snap_dedup", "snap_table"}
             PROVE  Cloning'
  BY DEF Cloning
<1> DEFINE new == Allocated(mem)
<1>1. SnapshotIndex \/ SnapshotDedup
  BY DEF StepNames
<1>2. CASE SnapshotIndex
  <2>1. /\ pc = "retry" /\ pc' = IF mem.sb.dedup # 0 THEN "snap_dedup" ELSE "snap_table"
        /\ pending' = [op |-> "snapshot", index |-> new, dedup |-> 0]
    BY <1>2 DEF SnapshotIndex
  <2>2. /\ mem.sb.index \in mem.used /\ disk.pages[mem.sb.index] = IndexPage(mem.index)
        /\ Cloned(mem.sb.index)
    BY <1>2, IndexCloned
  <2>3. /\ new \in Blocks \ mem.used
        /\ mem'.index = mem.index /\ mem'.dedup = mem.dedup /\ mem'.sb = mem.sb
        /\ mem'.used = mem.used \cup {new}
        /\ disk'.pages[new] = disk.pages[mem.sb.index]
    BY <2>2, ClonedIs
  <2>4. mem.sb.dedup = 0 => mem.dedup = NoDedup
    BY <2>1 DEF Live, Progress, Syncing, ReadDedup, Page, NoPage
  <2> HIDE DEF new
  <2>5. IndexPage(mem.index)' = IndexPage(mem.index)
    BY <2>3 DEF IndexPage
  <2>6. pending'.op = "snapshot" /\ pending'.index = new /\ pending'.dedup = 0
    BY <2>1
  <2>7. NoDedup' = NoDedup
    BY DEF NoDedup
  <2> QED
    BY <2>1, <2>2, <2>3, <2>4, <2>5, <2>6, <2>7 DEF Cloning
<1>3. CASE SnapshotDedup
  <2>1. /\ pc = "snap_dedup" /\ pc' = "snap_table"
        /\ pending' = [pending EXCEPT !.dedup = new]
    BY <1>3 DEF SnapshotDedup
  <2>2. /\ mem.sb.dedup \in mem.used /\ disk.pages[mem.sb.dedup] = DedupPage(mem.dedup)
        /\ Cloned(mem.sb.dedup)
    BY <1>3, DedupCloned
  <2>3. /\ new \in Blocks \ mem.used
        /\ mem'.index = mem.index /\ mem'.dedup = mem.dedup /\ mem'.sb = mem.sb
        /\ mem'.used = mem.used \cup {new}
        /\ disk'.pages[new] = disk.pages[mem.sb.dedup]
        /\ \A x \in Blocks : x # new => disk'.pages[x] = disk.pages[x]
    BY <2>2, ClonedIs
  <2>4. /\ pending = [op |-> "snapshot", index |-> pending.index, dedup |-> pending.dedup]
        /\ pending.index \in mem.used /\ pending.index # mem.sb.index
        /\ disk.pages[pending.index] = IndexPage(mem.index)
    BY <2>1 DEF Cloning
  <2> HIDE DEF new
  <2>5. /\ pending' = [op |-> "snapshot", index |-> pending.index, dedup |-> new]
        /\ pending'.index = pending.index /\ pending'.dedup = new
    BY <2>1, <2>4
  <2>6. IndexPage(mem.index)' = IndexPage(mem.index) /\ DedupPage(mem.dedup)' = DedupPage(mem.dedup)
    BY <2>3 DEF IndexPage, DedupPage
  <2>7. /\ pending.index \in Blocks /\ pending.index # new /\ new # 0
        /\ disk'.pages[pending.index] = disk.pages[pending.index]
    BY <2>3, <2>4, LiveTypes DEF Blocks
  <2>8. /\ pending' = [op |-> "snapshot", index |-> pending'.index, dedup |-> pending'.dedup]
        /\ pending'.index \in mem'.used /\ pending'.index # mem'.sb.index
        /\ disk'.pages[pending'.index] = IndexPage(mem.index)'
        /\ pending'.dedup # 0 /\ pending'.dedup \in mem'.used
        /\ disk'.pages[pending'.dedup] = DedupPage(mem.dedup)'
    BY <2>2, <2>3, <2>4, <2>5, <2>6, <2>7
  <2> QED
    BY <2>1, <2>8 DEF Cloning
<1> QED
  BY <1>1, <1>2, <1>3

LEMMA CompactingNext ==
  ASSUME Live, Compacting, StepNames
  PROVE  Compacting'
<1>1. CASE pc' # "compact"
  BY <1>1 DEF Compacting
<1>2. CASE pc' = "compact"
  BY <1>2, CompactingBegins, CompactingDimension, CompactingLeaf, CompactingParticle DEF StepNames
<1> QED
  BY <1>1, <1>2

-----------------------------------------------------------------------------
(* What was deleted stays away                                             *)

\* Nothing is there that was not there before.
LEMMA AliveKept ==
  ASSUME Alive, Running, failures \subseteq failures', opens' = opens,
         \A id \in Ids :
           /\ mem'.index[id] # 0 => mem.index[id] # 0 /\ expected'[id] = expected[id]
           /\ mem'.store[id] # None => mem.store[id] # None /\ expected'[id] = expected[id],
         pc' = "compact" =>
           pc = "compact" /\ \A id \in todo' : id \in todo /\ expected'[id] = expected[id],
         todo' \subseteq Ids
  PROVE  Alive'
BY DEF Alive

\* Only the index is read from where the store keeps it.
SameParticles ==
  Running /\ opens' = opens /\ mem'.index = mem.index /\ mem'.store = mem.store
    /\ expected' = expected /\ todo' \subseteq Ids
    /\ (pc' = "compact" => pc = "compact" /\ todo' = todo)

LEMMA AliveSame ==
  ASSUME Alive, SameParticles, failures \subseteq failures'
  PROVE  Alive'
<1>1. /\ Running /\ opens' = opens /\ mem'.index = mem.index /\ mem'.store = mem.store
      /\ expected' = expected /\ todo' \subseteq Ids
      /\ pc' = "compact" => pc = "compact" /\ todo' = todo
  BY DEF SameParticles
<1> QED
  BY <1>1, AliveKept

\* A particle that is written.
LEMMA AliveWrites ==
  ASSUME Live, Alive, Running, NEW op \in Writes, LoggedWrite(op), opens' = opens,
         failures' = failures
  PROVE  Alive'
<1> SUFFICES ASSUME failures = {} PROVE Alive'
  BY DEF Alive
<1>1. /\ op.id \in Ids /\ op.content \in Contents /\ op.content # None
  BY PersistAssumption DEF Writes, WriteOp
<1>2. /\ mem' = [mem EXCEPT !.store[op.id] = op.content, !.modified = @ \cup {op.id}]
      /\ expected' = [expected EXCEPT ![op.id] = op.content]
      /\ pc' \in {"particles", "ready"}
  BY DEF LoggedWrite
<1>3. mem \in Stores /\ expected \in Contentses /\ mem.store \in Contentses
  BY LiveTypes
<1>4. mem'.index = mem.index /\ mem'.store = [mem.store EXCEPT ![op.id] = op.content]
  BY <1>2, <1>3 DEF Stores
<1>5. \A id \in Ids : id = op.id => expected'[id] # None
  BY <1>1, <1>2, <1>3 DEF Contentses
<1>6. \A id \in Ids : id # op.id => expected'[id] = expected[id] /\ mem'.store[id] = mem.store[id]
  BY <1>1, <1>2, <1>3, <1>4 DEF Contentses
<1> QED
  BY <1>2, <1>4, <1>5, <1>6 DEF Alive

\* A particle that is loaded has a leaf.
LEMMA AliveLoads ==
  ASSUME Live, Alive, NEW id \in Ids, LoadParticle(id)
  PROVE  Alive'
<1>1. /\ pc = "ready" /\ pc' = pc /\ opens' = opens /\ failures' = failures /\ expected' = expected
      /\ IsLeaf(mem.index[id])
      /\ mem' = [mem EXCEPT !.store[Page(mem.index[id]).id] = ContentAt(mem.index[id])]
  BY DEF LoadParticle, unsynced
<1>2. Running /\ mem.index[id] # 0
  BY <1>1 DEF Running, IsLeaf, Page, NoPage
<1>3. Page(mem.index[id]).id = id
  BY <1>2, LeavesUsed DEF Page
<1>4. mem \in Stores
  BY LiveTypes
<1>5. mem'.index = mem.index /\ \A i \in Ids : i # id => mem'.store[i] = mem.store[i]
  BY <1>1, <1>3, <1>4 DEF Stores
<1> QED
  BY <1>1, <1>2, <1>5 DEF Alive

\* A leaf is written for a particle that is not deleted.
LEMMA AliveLeaf ==
  ASSUME Live, Alive, WriteLeaf
  PROVE  Alive'
<1> SUFFICES ASSUME failures = {} PROVE Alive'
  BY DEF Alive, WriteLeaf, unsynced
<1> DEFINE id == work.id
           new == Allocated(mem)
<1>1. /\ work # None /\ pc' = pc /\ opens' = opens /\ failures' = failures /\ expected' = expected
      /\ mem' = [mem EXCEPT !.used = @ \cup {new}, !.index[id] = new, !.store[id] = work.content]
      /\ todo' = todo \ {id}
  BY DEF WriteLeaf, unsynced
<1>2. pc \in {"particles", "compact"} /\ id \in todo /\ Running
  BY <1>1 DEF Live, WorkGood, Running
<1>3. mem \in Stores /\ todo \subseteq Ids
  BY LiveTypes
<1> HIDE DEF new
<1>4. expected[id] # None
  <2>1. CASE pc = "particles"
    <3>1. id \in mem.modified
      BY <1>2, <2>1 DEF Live, WorkGood
    <3> QED
      BY <1>2, <3>1 DEF Live, StoreGood
  <2>2. CASE pc = "compact"
    BY <1>2, <2>2 DEF Alive
  <2> QED
    BY <1>2, <2>1, <2>2
<1> HIDE DEF id
<1>5. \A i \in Ids : i # id => mem'.index[i] = mem.index[i] /\ mem'.store[i] = mem.store[i]
  <2> DEFINE i2 == [mem.index EXCEPT ![id] = new]
             s2 == [mem.store EXCEPT ![id] = work.content]
  <2>1. mem' = [mem EXCEPT !.used = @ \cup {new}, !.index = i2, !.store = s2]
    BY <1>1
  <2>2. \A i \in Ids : i # id => i2[i] = mem.index[i] /\ s2[i] = mem.store[i]
    BY <1>3 DEF Stores, Indexes
  <2> HIDE DEF i2, s2
  <2>3. mem'.index = i2 /\ mem'.store = s2
    BY <1>3, <2>1 DEF Stores
  <2> QED
    BY <2>2, <2>3
<1> QED
  BY <1>1, <1>2, <1>3, <1>4, <1>5 DEF Alive

\* What an open finds was not deleted.
LEMMA AliveOpens ==
  ASSUME Live, Lasting, FileAlive, opens \in Nat \ {0}, Opening, failures \subseteq failures'
  PROVE  Alive'
<1>1. PICK all \in BOOLEAN : Open(all)
  BY PersistAssumption DEF Opening
<1>2. mem'.index = FileImage.index
  BY <1>1, OpenKeeps
<1>3. /\ pc = "closed" /\ pc' = "ready" /\ opens' = opens + 1
      /\ expected' = expected
  BY <1>1 DEF Open
<1>4. log.entries = 0
  BY <1>3 DEF Live, Progress, Syncing
<1>5. opens' # 1
  BY <1>3
<1> QED
  BY <1>2, <1>3, <1>4, <1>5 DEF Alive, FileAlive, AtRest

\* No step forgets a failure, a crash, a session or a compaction.
LEMMA HistoryGrows ==
  ASSUME SnapNext, crashes \in Nat
  PROVE  /\ crashes' \in {crashes, crashes + 1} /\ failures \subseteq failures'
         /\ opens' \in {opens, opens + 1} /\ compactions' \in {compactions, compactions + 1}
<1>1. CASE StoreStep \/ \E id \in Ids : SnapDelete(id)
  <2>1. Next /\ compactions' = compactions
    BY <1>1 DEF StoreStep, SnapDelete, Next
  <2>2. crashes' \in {crashes, crashes + 1} /\ failures \subseteq failures'
    BY <2>1, DamageStays
  <2>3. opens' \in {opens, opens + 1}
    BY <2>1, Zenon
       DEF Next, Step, Write, WriteFull, LoadParticle, SyncBegin, SyncStep, BeginParticle,
           WriteDimension, WriteLeaf, SyncVolume, SyncVolumeBitmap, WriteIndex,
           WriteIndexPointer, WriteDedup, DropDedup, WriteDedupPointer, WriteCheckpoint,
           CheckpointSync, CheckpointSyncBitmap, LeafTooLarge, SyncFails, Retry, Close, Crash,
           Gone, Opening, Open, Delete, unsynced
  <2> QED
    BY <2>1, <2>2, <2>3
<1>2. CASE Compact \/ Snapshot \/ CompactClear \/ CompactIndex \/ CompactPointer
            \/ \E id \in Ids : CompactParticle(id)
  BY <1>2, Zenon DEF Compact, Snapshot, SyncFirst, CompactClear, CompactIndex, CompactPointer,
                     CompactParticle, unsynced, snapVars
<1>3. CASE SnapshotIndex \/ SnapshotDedup \/ SnapshotPointer \/ RestorePointer
  BY <1>3, Zenon DEF SnapshotIndex, SnapshotDedup, SnapshotPointer, RestorePointer,
                     unsynced, snapVars
<1>4. CASE SnapshotTable \/ SnapshotFails \/ \E k \in 1 .. MaxSnapshots : Restore(k)
  BY <1>4 DEF SnapshotTable, SnapshotFails, Restore, snapVars
<1> QED
  BY <1>1, <1>2, <1>3, <1>4 DEF SnapNext, SnapStep

\* A table that is written anew changes no particle.
LEMMA TableParticles ==
  ASSUME Live, NEW p \in {"index", "dedup", "snapshot"}, NEW page, TableWritten(p, page)
  PROVE  mem'.index = mem.index /\ mem'.store = mem.store
<1>1. mem \in Stores
  BY LiveTypes
<1> QED
  BY <1>1 DEF TableWritten, Stores

LEMMA AliveStore ==
  ASSUME Live, Alive, Step, crashes \in Nat, Undamaged', opens \in Nat \ {0},
         failures \subseteq failures', Opening => Lasting /\ FileAlive
  PROVE  Alive'
<1>1. mem \in Stores /\ todo \subseteq Ids /\ mem.modified \subseteq Ids
  BY LiveTypes
<1>2. CASE \E id \in Ids, c \in Contents : Write(id, c)
  BY <1>2, AliveWrites DEF Write, Called, Writes, Running
<1>3. CASE SyncBegin \/ \E id \in Ids, c \in Contents : WriteFull(id, c)
  <2>1. SameParticles
    BY <1>1, <1>3 DEF SyncBegin, WriteFull, Called, SameParticles, Running
  <2> QED
    BY <2>1, AliveSame
<1>4. CASE \E id \in Ids : LoadParticle(id)
  BY <1>4, AliveLoads
<1>5. CASE \E id \in Ids : BeginParticle(id)
  <2>1. SameParticles
    BY <1>1, <1>5 DEF BeginParticle, unsynced, SameParticles, Running
  <2> QED
    BY <2>1, AliveSame
<1>6. CASE WriteDimension
  <2>1. /\ pc # "closed" /\ pc' = pc /\ todo' = todo /\ expected' = expected /\ opens' = opens
    BY <1>6 DEF WriteDimension, unsynced, Live, WorkGood
  <2>2. mem'.index = mem.index /\ mem'.store = mem.store
    BY <1>1, <1>6 DEF WriteDimension, Stores
  <2>3. SameParticles
    BY <1>1, <2>1, <2>2 DEF SameParticles, Running
  <2> QED
    BY <2>3, AliveSame
<1>7. CASE WriteLeaf
  BY <1>7, AliveLeaf
<1>8. CASE SyncVolume \/ SyncVolumeBitmap \/ WriteIndexPointer \/ WriteDedupPointer
            \/ CheckpointSync \/ CheckpointSyncBitmap
  <2>1. /\ pc # "closed" /\ pc' # "compact" /\ todo' = todo
        /\ expected' = expected /\ opens' = opens
        /\ mem' = mem \/ mem' = [mem EXCEPT !.modified = {}]
    BY <1>8 DEF SyncVolume, SyncVolumeBitmap, WriteIndexPointer, WriteDedupPointer,
                CheckpointSync, CheckpointSyncBitmap, FlushSuperblock, FlushBitmap, unsynced
  <2>2. mem'.index = mem.index /\ mem'.store = mem.store
    BY <1>1, <2>1 DEF Stores
  <2>3. SameParticles
    BY <1>1, <2>1, <2>2 DEF SameParticles, Running
  <2> QED
    BY <2>3, AliveSame
<1>9. CASE WriteIndex \/ WriteDedup \/ DropDedup
  <2>1. /\ pc \in {"index", "dedup"} /\ pc' \in {"index_sb", "dedup_sb", "checkpoint"}
        /\ todo' = todo /\ expected' = expected /\ opens' = opens
    BY <1>9 DEF WriteIndex, WriteDedup, DropDedup, unsynced
  <2>2. mem'.index = mem.index /\ mem'.store = mem.store
    <3>1. CASE WriteIndex \/ WriteDedup
      BY <3>1, TableParticles DEF WriteIndex, WriteDedup
    <3>2. CASE DropDedup
      BY <1>1, <3>2 DEF DropDedup, Stores
    <3> QED
      BY <1>9, <3>1, <3>2
  <2>3. SameParticles
    BY <1>1, <2>1, <2>2 DEF SameParticles, Running
  <2> QED
    BY <2>3, AliveSame
<1>10. CASE WriteCheckpoint
  <2>1. SameParticles
    BY <1>1, <1>10 DEF WriteCheckpoint, SameParticles, Running
  <2> QED
    BY <2>1, AliveSame
<1>11. CASE SyncFails \/ LeafTooLarge
  <2>1. failures' # {}
    BY <1>11 DEF SyncFails, LeafTooLarge
  <2> QED
    BY <2>1 DEF Alive
<1>12. CASE Retry
  <2>1. pc = "retry" /\ pending \in Writes /\ opens' = opens /\ failures' = failures
    BY <1>12, PersistAssumption DEF Retry, Live, PersistTypes
  <2>2. CASE Fits(pending)
    BY <1>12, <2>1, <2>2, AliveWrites DEF Retry, Running
  <2>3. CASE ~ Fits(pending)
    <3>1. SameParticles
      BY <1>1, <1>12, <2>1, <2>3 DEF Retry, SameParticles, Running
    <3> QED
      BY <3>1, AliveSame
  <2> QED
    BY <2>2, <2>3
<1>13. CASE Close
  <2>1. ~ Running' /\ pc' # "compact"
    BY <1>13 DEF Close, Gone, Running
  <2> QED
    BY <2>1 DEF Alive
<1>14. CASE Opening
  BY <1>14, AliveOpens
<1>15. ~ Crash
  BY DEF Undamaged, Crash
<1> QED
  BY <1>2, <1>3, <1>4, <1>5, <1>6, <1>7, <1>8, <1>9, <1>10, <1>11, <1>12, <1>13, <1>14, <1>15
     DEF Step, SyncStep

\* A delete takes the particle from memory and from the index.
LEMMA AliveDeletes ==
  ASSUME Live, Alive, NEW id \in Ids, Delete(id), failures \subseteq failures'
  PROVE  Alive'
<1>1. /\ pc = "ready" /\ pc' = pc /\ mem' = Deleted(mem, id) /\ opens' = opens
      /\ expected' = [expected EXCEPT ![id] = None] /\ todo' = todo
  BY DEF Delete, Called
<1>2. Running /\ Held = {} /\ mem \in Stores /\ disk \in Disks /\ todo \subseteq Ids
  BY <1>1, Idle, LiveTypes DEF Running, Live
<1>3. Image(mem, disk.pages, {})
  BY <1>2, LeavesUsed
<1>4. /\ mem'.index = [mem.index EXCEPT ![id] = 0]
      /\ mem'.store = [mem.store EXCEPT ![id] = None]
  BY <1>1, <1>2, <1>3, DeletedIs
<1>5. mem.index \in Indexes /\ mem.store \in Contentses /\ expected \in Contentses
  BY LiveTypes
<1>6. \A i \in Ids :
        /\ mem'.index[i] # 0 => mem.index[i] # 0 /\ expected'[i] = expected[i]
        /\ mem'.store[i] # None => mem.store[i] # None /\ expected'[i] = expected[i]
  BY <1>1, <1>4, <1>5 DEF Indexes, Contentses
<1> QED
  BY <1>1, <1>2, <1>6, AliveKept

\* A restore gives what the snapshot was taken of.
LEMMA AliveRestores ==
  ASSUME Live, Snaps, NEW k, Restore(k), Undamaged'
  PROVE  Alive'
<1>1. PICK new : RestoredTo(TableIn(disk.pages, mem.sb.snapshot)[k], new)
  BY RestoredIs
<1>2. /\ HoldsOf(expected', mem'.index, disk'.pages)
      /\ \A id \in Ids : mem'.index[id] = 0 => mem'.store[id] = None
  BY <1>1, RestoreGives
<1>3. \A id \in Ids : mem'.index[id] # 0 => expected'[id] # None
  BY <1>2 DEF HoldsOf
<1>4. pc' # "compact"
  BY DEF Restore
<1> QED
  BY <1>2, <1>3, <1>4 DEF Alive

\* A compaction rewrites what the index names.
LEMMA AliveClear ==
  ASSUME Live, Alive, CompactClear
  PROVE  Alive'
<1>1. /\ pc = "retry" /\ failures' = failures /\ expected' = expected
      /\ mem' = [mem EXCEPT !.store = NoStore, !.modified = {}, !.index = NoIndex,
                            !.dedup = NoDedup, !.used = {}, !.sb.index = 0, !.sb.dedup = 0]
      /\ todo' = {id \in Ids : Loaded[id] # None}
  BY DEF CompactClear
<1>2. Running /\ Held = {} /\ mem \in Stores
  BY <1>1, Idle, LiveTypes DEF Running, Live
<1>3. mem'.index = NoIndex /\ mem'.store = NoStore
  BY <1>1, <1>2 DEF Stores
<1>4. Rewritten(Loaded) \subseteq Indexed(mem) /\ todo' = Rewritten(Loaded)
  BY <1>1, <1>2, LoadedFits DEF Rewritten
<1>5. \A id \in todo' : id \in Ids /\ mem.index[id] # 0
  BY <1>4 DEF Indexed
<1> QED
  BY <1>1, <1>2, <1>3, <1>5 DEF Alive, NoIndex, NoStore

LEMMA AliveNext ==
  ASSUME Live, Maintained, SnapNext, crashes \in Nat, opens \in Nat \ {0}, Undamaged',
         Opening => Lasting /\ FileAlive
  PROVE  Alive'
<1>1. failures \subseteq failures' /\ Alive /\ Snaps /\ Cloning
  BY HistoryGrows DEF Maintained
<1>2. mem \in Stores /\ todo \subseteq Ids /\ mem.modified \subseteq Ids
  BY LiveTypes
<1>3. CASE StoreStep
  BY <1>1, <1>3, AliveStore DEF StoreStep
<1>4. CASE \E id \in Ids : SnapDelete(id)
  BY <1>1, <1>4, AliveDeletes DEF SnapDelete
<1>5. CASE Compact \/ Snapshot
  <2>1. SameParticles
    BY <1>2, <1>5 DEF Compact, Snapshot, SyncFirst, Called, SameParticles, Running
  <2> QED
    BY <1>1, <2>1, AliveSame
<1>6. CASE \E k \in 1 .. MaxSnapshots : Restore(k)
  BY <1>1, <1>6, AliveRestores
<1>7. CASE CompactClear
  BY <1>1, <1>7, AliveClear
<1>8. CASE CompactIndex
  <2>1. /\ pc = "compact" /\ pc' = "compact_sb" /\ todo' = todo /\ expected' = expected
        /\ opens' = opens /\ TableWritten("index", IndexPage(mem.index))
    BY <1>8 DEF CompactIndex, unsynced
  <2>2. mem'.index = mem.index /\ mem'.store = mem.store
    BY <2>1, TableParticles
  <2>3. SameParticles
    BY <1>2, <2>1, <2>2 DEF SameParticles, Running
  <2> QED
    BY <1>1, <2>3, AliveSame
<1>9. CASE CompactPointer \/ SnapshotPointer \/ RestorePointer \/ \E id \in Ids : CompactParticle(id)
  <2>1. SameParticles
    BY <1>2, <1>9 DEF CompactPointer, SnapshotPointer, RestorePointer, FlushSuperblock,
                      CompactParticle, unsynced, SameParticles, Running
  <2> QED
    BY <1>1, <2>1, AliveSame
<1>10. CASE SnapshotIndex \/ SnapshotDedup
  <2>1. /\ pc \in {"retry", "snap_dedup"} /\ pc' \in {"snap_dedup", "snap_table"}
        /\ todo' = todo /\ expected' = expected /\ opens' = opens
        /\ mem' = [mem EXCEPT !.used = @ \cup {Allocated(mem)}]
    BY <1>10 DEF SnapshotIndex, SnapshotDedup, Cloned
  <2>2. mem'.index = mem.index /\ mem'.store = mem.store
    BY <1>2, <2>1 DEF Stores
  <2>3. SameParticles
    BY <1>2, <2>1, <2>2 DEF SameParticles, Running
  <2> QED
    BY <1>1, <2>3, AliveSame
<1>11. CASE SnapshotTable
  <2>1. /\ pc = "snap_table" /\ pc' = "snap_sb" /\ todo' = todo /\ expected' = expected
        /\ opens' = opens /\ \E page : TableWritten("snapshot", page)
    BY <1>11 DEF SnapshotTable
  <2>2. mem'.index = mem.index /\ mem'.store = mem.store
    BY <2>1, TableParticles
  <2>3. SameParticles
    BY <1>2, <2>1, <2>2 DEF SameParticles, Running
  <2> QED
    BY <1>1, <2>3, AliveSame
<1>12. CASE SnapshotFails
  <2>1. failures' # {}
    BY <1>12 DEF SnapshotFails
  <2> QED
    BY <2>1 DEF Alive
<1> QED
  BY <1>3, <1>4, <1>5, <1>6, <1>7, <1>8, <1>9, <1>10, <1>11, <1>12 DEF SnapNext, SnapStep

-----------------------------------------------------------------------------
(* What the file has of snapshots and of what was deleted                  *)

\* The file as it was.
LEMMA FileStays ==
  ASSUME FileSnaps, FileAlive, AtRest, disk' = disk, Thinned(taken', taken),
         failures \subseteq failures', failures' = {} => expected' = expected
  PROVE  FileSnaps' /\ FileAlive'
<1>1. FileImage' = FileImage
  BY DEF FileImage, ReadIndex, ReadDedup, Page
<1>2. SnapsGood(taken, FileImage, disk.pages, {})
  BY DEF FileSnaps
<1>3. SnapsGood(taken', FileImage, disk.pages, {})
  BY <1>2, SnapsThin
<1>4. disk'.pages = disk.pages
  OBVIOUS
<1>5. SnapsGood(taken', FileImage', disk'.pages, {})
  BY <1>1, <1>3, <1>4
<1>6. FileSnaps'
  BY <1>5, FileSnapsNext DEF FileSnaps
<1>7. FileAlive'
  BY <1>1 DEF FileAlive
<1> QED
  BY <1>6, <1>7

\* At the end of a sync it is what memory has.
LEMMA FileSynced ==
  ASSUME Live, Snaps, Alive, CheckpointSyncBitmap, ReadDedup(mem.sb.dedup) = mem.dedup,
         Thinned(taken', taken)
  PROVE  FileSnaps' /\ FileAlive'
<1>1. /\ pc = "last_bitmap" /\ disk' = [disk EXCEPT !.used = mem.used]
      /\ expected' = expected /\ failures' = failures
  BY DEF CheckpointSyncBitmap, FlushBitmap, unsynced
<1>2. disk \in Disks /\ Running /\ Held = {}
  BY <1>1, Idle, LiveTypes DEF Running, Live
<1>3. disk'.pages = disk.pages /\ disk'.sb = disk.sb /\ disk'.used = mem.used
  BY <1>1, <1>2 DEF Disks
<1>4. disk.sb = mem.sb /\ ReadIndex(mem.sb.index) = mem.index
  BY <1>1 DEF Live, Progress
<1>5. /\ FileImage'.index = mem.index /\ FileImage'.dedup = mem.dedup
      /\ FileImage'.used = mem.used /\ FileImage'.sb = mem.sb
  BY <1>3, <1>4 DEF FileImage, ReadIndex, ReadDedup, Page
<1>6. SnapsGood(taken, mem, disk.pages, {})
  BY <1>2 DEF Snaps
<1>7. SnapsGood(taken', FileImage', disk.pages, {})
  BY <1>5, <1>6, SnapsThin
<1>8. SnapsGood(taken', FileImage', disk'.pages, {})
  BY <1>3, <1>7
<1>9. FileSnaps'
  BY <1>8, FileSnapsNext DEF FileSnaps
<1>10. FileAlive'
  <2>1. \A id \in Ids : failures = {} /\ mem.index[id] # 0 => expected[id] # None
    BY <1>2 DEF Alive
  <2> QED
    BY <1>1, <1>5, <2>1 DEF FileAlive
<1> QED
  BY <1>9, <1>10

\* A copy goes to a block that the file does not name.
LEMMA FileCopied ==
  ASSUME Live, Filed, FileSnaps, FileAlive, log.entries = 0, pc \in {"retry", "snap_dedup"},
         taken' = taken, expected' = expected, failures' = failures,
         NEW b \in mem.used, Cloned(b), disk.pages[b].kind # "table"
  PROVE  FileSnaps' /\ FileAlive'
<1> DEFINE new == Allocated(mem)
<1>1. /\ new \in Blocks \ mem.used
      /\ disk'.used = disk.used /\ disk'.sb = disk.sb
      /\ \A x \in Blocks : x # new => disk'.pages[x] = disk.pages[x]
  BY ClonedIs
<1> HIDE DEF new
<1>2. disk.used \subseteq mem.used /\ mem.used \subseteq Blocks
  BY LiveTypes DEF Live, Progress
<1>3. \A x \in disk.used : disk'.pages[x] = disk.pages[x]
  BY <1>1, <1>2
<1>4. /\ SnapsGood(taken, FileImage, disk.pages, {})
      /\ Image(FileImage, disk.pages, {})
      /\ failures = {} => \A id \in Ids : FileImage.index[id] # 0 => expected[id] # None
  BY DEF FileSnaps, FileAlive, AtRest, Filed, FileGood
<1>5. /\ FileImage.used = disk.used /\ FileImage.sb = disk.sb
      /\ FileImage.index = ReadIndex(disk.sb.index) /\ FileImage.dedup = ReadDedup(disk.sb.dedup)
  BY DEF FileImage
<1>6. /\ disk.sb.index # 0 => disk.sb.index \in disk.used
      /\ disk.sb.dedup # 0 => disk.sb.dedup \in disk.used
  BY <1>4, <1>5 DEF Image, Tables
<1>7. FileImage' = FileImage
  <2>1. ReadIndex(disk.sb.index)' = ReadIndex(disk.sb.index)
    BY <1>1, <1>3, <1>6 DEF ReadIndex, Page
  <2>2. ReadDedup(disk.sb.dedup)' = ReadDedup(disk.sb.dedup)
    BY <1>1, <1>3, <1>6 DEF ReadDedup, Page
  <2> QED
    BY <1>1, <2>1, <2>2 DEF FileImage
<1>8. disk.pages \in [Blocks -> Pages] /\ FileImage.sb.snapshot \in Pointers
  BY <1>5, LiveTypes
<1> DEFINE table == TableIn(disk.pages, FileImage.sb.snapshot)
<1>9. ASSUME NEW k \in IntactIn(taken)
      PROVE  /\ FileImage.sb.snapshot \in FileImage.used /\ FileImage.sb.index # 0
             /\ disk'.pages[FileImage.sb.snapshot] = disk.pages[FileImage.sb.snapshot]
             /\ Survives(table[k], FileImage, disk.pages, FileImage, disk'.pages, {})
  <2> DEFINE s == EntryImage(table[k], disk.pages, FileImage.used)
  <2>1. /\ FileImage.sb.snapshot \in FileImage.used /\ FileImage.sb.index # 0
        /\ EntryGood(FileImage, disk.pages, {}, taken[k].of, table[k])
        /\ \A x \in NamedBy(table[k], disk.pages) : x # 0 => x \in FileImage.used
        /\ s.dedup \in DedupTables
    BY <1>4, <1>8, IntactIs
  <2> HIDE DEF table
  <2>2. table[k].index # FileImage.sb.index /\ Covers(FileImage, disk.pages, {}, s)
    BY <2>1 DEF EntryGood
  <2>3. \A id \in Ids : FileImage.index[id] # 0 =>
          disk'.pages[FileImage.index[id]] = disk.pages[FileImage.index[id]]
    BY <1>3, <1>4, <1>5 DEF Image, Leaves
  <2> HIDE DEF s
  <2>4. FileImage.dedup \in DedupTables
    BY LiveTypes, FileImageTypes
  <2>5. Covers(FileImage, disk'.pages, {}, s)
    BY <2>1, <2>2, <2>3, <2>4, CoversSame
  <2> QED
    BY <1>3, <1>5, <2>1, <2>2, <2>5 DEF Survives, s
<1> HIDE DEF table
<1>10. Thinned(taken, taken)
  BY DEF Thinned
<1>11. SnapsGood(taken, FileImage, disk'.pages, {})
  BY <1>4, <1>8, <1>9, <1>10, SnapsSurvive DEF table
<1>12. SnapsGood(taken', FileImage', disk'.pages, {})
  BY <1>7, <1>11
<1>13. FileSnaps'
  BY <1>12, FileSnapsNext DEF FileSnaps
<1>14. FileAlive'
  BY <1>4, <1>7 DEF FileAlive
<1> QED
  BY <1>13, <1>14

\* What the store does to the file while nothing is logged.
LEMMA FileStore ==
  ASSUME Live, Maintained, Recorded, StoreStep, crashes \in Nat, Undamaged',
         failures \subseteq failures', AtRest'
  PROVE  FileSnaps' /\ FileAlive'
<1>1. /\ Snaps /\ Alive /\ Filed /\ Beginnings /\ FileSnaps /\ FileAlive
      /\ pc \notin {"compact", "compact_sb"}
  BY DEF Maintained, Recorded, Lasting, Filed
<1>2. Thinned(taken', taken) /\ Step
  BY <1>1, ClosedThins DEF StoreStep
<1>3. pc' \in {"closed", "ready", "retry", "snap_dedup", "snap_table"} /\ log'.entries = 0
  BY DEF AtRest
<1>4. ASSUME NEW op, LoggedWrite(op) PROVE FALSE
  <2>1. log'.entries = log.entries + 1
    BY <1>4 DEF LoggedWrite, Logged
  <2> QED
    BY <1>3, <2>1, LiveTypes
<1>5. ASSUME AtRest, disk' = disk, expected' = expected PROVE FileSnaps' /\ FileAlive'
  BY <1>1, <1>2, <1>5, FileStays
<1>6. CASE \E id \in Ids, c \in Contents : Write(id, c)
  BY <1>4, <1>6 DEF Write
<1>7. CASE SyncBegin \/ \E id \in Ids, c \in Contents : WriteFull(id, c)
  BY <1>3, <1>7 DEF SyncBegin, WriteFull
<1>8. CASE (\E id \in Ids : BeginParticle(id)) \/ WriteDimension \/ WriteLeaf
  <2>1. pc \in {"particles", "compact"} /\ pc' = pc
    BY <1>8 DEF BeginParticle, WriteDimension, WriteLeaf, Live, WorkGood
  <2> QED
    BY <1>3, <2>1
<1>9. CASE SyncVolume \/ SyncVolumeBitmap \/ WriteIndex \/ WriteIndexPointer \/ WriteDedup
            \/ DropDedup \/ WriteDedupPointer \/ WriteCheckpoint \/ CheckpointSync
  BY <1>3, <1>9 DEF SyncVolume, SyncVolumeBitmap, WriteIndex, WriteIndexPointer, WriteDedup,
     DropDedup, WriteDedupPointer, WriteCheckpoint, CheckpointSync, FlushSuperblock, FlushBitmap
<1>10. CASE \E id \in Ids : LoadParticle(id)
  <2>1. pc = "ready" /\ log' = log /\ disk' = disk /\ expected' = expected
    BY <1>10 DEF LoadParticle, unsynced
  <2> QED
    BY <1>3, <1>5, <2>1 DEF AtRest
<1>11. CASE CheckpointSyncBitmap
  <2>1. pc = "last_bitmap"
    BY <1>11 DEF CheckpointSyncBitmap, FlushBitmap
  <2>2. ReadDedup(mem.sb.dedup) = mem.dedup
    BY <1>1, <2>1 DEF Filed
  <2> QED
    BY <1>1, <1>2, <1>11, <2>2, FileSynced
<1>12. CASE SyncFails
  <2>1. /\ \/ work # None
           \/ pc = "index" /\ mem.sb.index = 0
           \/ pc = "dedup" /\ mem.sb.dedup = 0 /\ mem.dedup # NoDedup
        /\ failures' # {} /\ log' = log
    BY <1>12 DEF SyncFails
  <2>2. work = None
    <3> SUFFICES ASSUME work # None PROVE FALSE
      OBVIOUS
    <3>1. pc = "particles" /\ work.id \in todo /\ todo \subseteq mem.modified
      BY <1>1 DEF Live, WorkGood
    <3>2. mem.modified = {}
      BY <1>3, <2>1 DEF Live, Progress
    <3> QED
      BY <3>1, <3>2
  <2>3. pc # "dedup"
    BY <1>1, <1>3, <2>1, <2>2 DEF Beginnings, Running
  <2>4. pc = "index" /\ mem.sb.index = 0
    BY <2>1, <2>2, <2>3
  <2>5. SnapsGood(taken, mem, disk.pages, Held)
    BY <1>1, <2>4 DEF Snaps, Running
  <2>6. IntactIn(taken) = {}
    BY <2>4, <2>5 DEF SnapsGood
  <2>7. IntactIn(taken') = {}
    BY <1>2, <2>6 DEF IntactIn, Thinned
  <2>8. SnapsGood(taken', FileImage', disk'.pages, {})
    BY <2>7 DEF SnapsGood
  <2> QED
    BY <2>1, <2>8, FileSnapsNext DEF FileSnaps, FileAlive
<1>13. CASE Retry
  <2>1. ~ Fits(pending)
    BY <1>4, <1>13 DEF Retry
  <2>2. pc = "retry" /\ log' = log /\ disk' = disk /\ expected' = expected
    BY <1>13, <2>1 DEF Retry
  <2> QED
    BY <1>3, <1>5, <2>2 DEF AtRest
<1>14. CASE Close
  <2>1. pc = "ready" /\ log.entries = 0 /\ disk' = disk /\ expected' = expected
    BY <1>14 DEF Close, Gone
  <2> QED
    BY <1>5, <2>1 DEF AtRest
<1>15. CASE Opening
  <2>1. pc = "closed" /\ disk' = disk /\ expected' = expected
    BY <1>15 DEF Opening, Open
  <2>2. log.entries = 0
    BY <2>1 DEF Live, Progress, Syncing
  <2> QED
    BY <1>5, <2>1, <2>2 DEF AtRest
<1>16. ~ Crash
  BY DEF Undamaged, Crash
<1>17. ~ LeafTooLarge
  <2> SUFFICES ASSUME LeafTooLarge PROVE FALSE
    OBVIOUS
  <2>1. pc = "particles" /\ work # None /\ log' = log
    BY DEF LeafTooLarge
  <2>2. work.id \in todo /\ todo \subseteq mem.modified
    BY <1>1, <2>1 DEF Live, WorkGood
  <2>3. mem.modified = {}
    BY <1>3, <2>1 DEF Live, Progress
  <2> QED
    BY <2>2, <2>3
<1> QED
  BY <1>2, <1>6, <1>7, <1>8, <1>9, <1>10, <1>11, <1>12, <1>13, <1>14, <1>15, <1>16, <1>17
     DEF Step, SyncStep

LEMMA FileNext ==
  ASSUME Live, Maintained, Recorded, SnapNext, crashes \in Nat, Undamaged'
  PROVE  FileSnaps' /\ FileAlive'
<1> SUFFICES ASSUME AtRest' PROVE FileSnaps' /\ FileAlive'
  BY DEF FileSnaps, FileAlive
<1>1. failures \subseteq failures'
  BY HistoryGrows
<1>2. /\ Snaps /\ Alive /\ Cloning /\ Filed /\ FileSnaps /\ FileAlive
      /\ pc \notin {"compact", "compact_sb"}
  BY DEF Maintained, Recorded, Lasting, Filed
<1>3. pc' \in {"closed", "ready", "retry", "snap_dedup", "snap_table"} /\ log'.entries = 0
  BY DEF AtRest
<1>4. CASE StoreStep
  BY <1>1, <1>4, FileStore
<1>5. CASE \E id \in Ids : SnapDelete(id)
  <2>1. PICK id \in Ids : SnapDelete(id)
    BY <1>5
  <2>2. pc = "ready" /\ disk' = disk /\ Delete(id)
    BY <2>1 DEF SnapDelete, Delete, Called
  <2>3. ~ Fits(DeleteOp(id))
    <3> SUFFICES ASSUME Logged(DeleteOp(id)) PROVE FALSE
      BY <2>2 DEF Delete
    <3>1. log'.entries = log.entries + 1
      BY DEF Logged
    <3> QED
      BY <1>3, <3>1, LiveTypes
  <2>4. failures' # {} /\ log' = log
    BY <2>2, <2>3 DEF Delete
  <2>5. Thinned(taken', taken)
    BY <1>2, <2>1, <2>2, DeleteThins DEF Running
  <2>6. AtRest
    BY <1>3, <2>2, <2>4 DEF AtRest
  <2> QED
    BY <1>1, <1>2, <2>2, <2>4, <2>5, <2>6, FileStays
<1>6. CASE Compact \/ Snapshot
  BY <1>3, <1>6 DEF Compact, Snapshot, SyncFirst
<1>7. CASE \E k \in 1 .. MaxSnapshots : Restore(k)
  BY <1>3, <1>7 DEF Restore
<1>8. CASE CompactClear \/ CompactIndex \/ CompactPointer \/ SnapshotTable \/ SnapshotPointer
            \/ RestorePointer
  BY <1>3, <1>8 DEF CompactClear, CompactIndex, CompactPointer, SnapshotTable, SnapshotPointer,
                    RestorePointer, FlushSuperblock
<1>9. CASE \E id \in Ids : CompactParticle(id)
  BY <1>2, <1>9 DEF CompactParticle
<1>10. CASE SnapshotIndex
  <2>1. pc = "retry" /\ log' = log /\ taken' = taken /\ expected' = expected /\ failures' = failures
    BY <1>10 DEF SnapshotIndex, snapVars
  <2>2. /\ mem.sb.index \in mem.used /\ disk.pages[mem.sb.index].kind # "table"
        /\ Cloned(mem.sb.index)
    BY <1>10, IndexCloned DEF IndexPage
  <2> QED
    BY <1>2, <1>3, <2>1, <2>2, FileCopied
<1>11. CASE SnapshotDedup
  <2>1. pc = "snap_dedup" /\ log' = log /\ taken' = taken /\ expected' = expected
        /\ failures' = failures
    BY <1>11 DEF SnapshotDedup, snapVars
  <2>2. /\ mem.sb.dedup \in mem.used /\ disk.pages[mem.sb.dedup].kind # "table"
        /\ Cloned(mem.sb.dedup)
    BY <1>2, <1>11, DedupCloned DEF DedupPage
  <2> QED
    BY <1>2, <1>3, <2>1, <2>2, FileCopied
<1>12. CASE SnapshotFails
  <2>1. /\ pc \in {"retry", "snap_dedup", "snap_table"} /\ log' = log /\ disk' = disk
        /\ taken' = taken /\ expected' = expected
    BY <1>12 DEF SnapshotFails, snapVars
  <2>2. AtRest /\ Thinned(taken', taken)
    BY <1>3, <2>1, TakenSame DEF AtRest
  <2> QED
    BY <1>1, <1>2, <2>1, <2>2, FileStays
<1> QED
  BY <1>4, <1>5, <1>6, <1>7, <1>8, <1>9, <1>10, <1>11, <1>12 DEF SnapNext, SnapStep

-----------------------------------------------------------------------------
(* The invariant holds                                                     *)

LEMMA SnapInitSound == SnapInit => SnapInv
<1> SUFFICES ASSUME SnapInit
             PROVE  Live /\ Maintained /\ Recorded /\ crashes \in Nat /\ compactions \in Nat
                      /\ opens \in Nat \ {0}
  BY DEF SnapInv
<1>1. Live /\ Lasting /\ crashes = 0 /\ opens = 1 /\ compactions = 0
  BY InitSound DEF SnapInit, Init, PersistInv, Undamaged, Sound
<1>2. /\ mem.store = NoStore /\ mem.index = NoIndex /\ mem.sb = NullPointers
      /\ disk.sb = NullPointers /\ pc = "ready" /\ pending = None /\ taken = << >>
  BY DEF SnapInit, Init
<1>3. taken \in Seq(Records) /\ Len(taken) = 0 /\ IntactIn(taken) = {}
  BY <1>2 DEF IntactIn
<1>4. \A m, pages, held : SnapsGood(taken, m, pages, held)
  BY <1>3 DEF SnapsGood
<1>5. TableLength = 0
  <2>1. TableIn(disk.pages, 0) = << >>
    BY DEF TableIn, PageIn, NoPage
  <2>2. mem.sb.snapshot = 0 /\ disk.sb.snapshot = 0
    BY <1>2 DEF NullPointers
  <2> QED
    BY <2>1, <2>2 DEF TableLength
<1>6. Snaps
  BY <1>2, <1>3, <1>4, <1>5 DEF Snaps
<1>7. Cloning /\ Compacting
  BY <1>2 DEF Cloning, Compacting
<1>8. Alive
  BY <1>2 DEF Alive, NoIndex, NoStore
<1>9. Announced
  BY <1>2, SnapshotsAssumption DEF Announced
<1>10. FileSnaps
  BY <1>4 DEF FileSnaps
<1>11. FileAlive
  <2>1. disk.sb.index = 0
    BY <1>2 DEF NullPointers
  <2>2. FileImage.index = NoIndex
    BY <2>1 DEF FileImage, ReadIndex, Page, NoPage
  <2> QED
    BY <2>2 DEF FileAlive, NoIndex
<1> QED
  BY <1>1, <1>6, <1>7, <1>8, <1>9, <1>10, <1>11 DEF Maintained, Recorded

\* The store itself over a step.
LEMMA LiveNext ==
  ASSUME Live, Maintained, SnapNext, crashes \in Nat, Undamaged', Opening => Lasting
  PROVE  Live' /\ (compactions' = 0 /\ Lasting => Lasting')
<1>1. Snaps /\ Cloning /\ Compacting /\ Announced
  BY DEF Maintained
<1>2. CASE StoreStep \/ \E id \in Ids : SnapDelete(id)
  <2>1. [Next]_vars
    BY <1>2 DEF StoreStep, SnapDelete, Next
  <2>2. ~ (pc = "compact" /\ SyncFails)
    BY <1>1, CompactingHasRoom
  <2> QED
    BY <2>1, <2>2, NextKeeps
<1>3. CASE Compact \/ Snapshot
  BY <1>3, SyncFirstKeeps
<1>4. CASE \E k \in 1 .. MaxSnapshots : Restore(k)
  BY <1>1, <1>4, RestoreKeeps
<1>5. CASE CompactClear
  <2>1. compactions' # 0
    BY <1>1, <1>5 DEF CompactClear, Announced
  <2> QED
    BY <1>5, <2>1, ClearKeeps
<1>6. CASE CompactIndex
  <2>1. ~ Lasting
    BY <1>6 DEF CompactIndex, Lasting, Filed
  <2> QED
    BY <1>6, <2>1, CompactIndexKeeps
<1>7. CASE \E id \in Ids : CompactParticle(id)
  <2>1. ~ Lasting
    BY <1>7 DEF CompactParticle, Lasting, Filed
  <2> QED
    BY <1>1, <1>7, <2>1, RewriteKeeps
<1>8. CASE CompactPointer \/ SnapshotPointer \/ RestorePointer
  <2>1. CompactPointer => ~ Lasting
    BY DEF CompactPointer, FlushSuperblock, Lasting, Filed
  <2> QED
    BY <1>8, <2>1, PointerKeeps
<1>9. CASE SnapshotIndex \/ SnapshotDedup
  BY <1>1, <1>9, CopyKeeps
<1>10. CASE SnapshotTable
  BY <1>1, <1>10, TakingKeeps
<1>11. CASE SnapshotFails
  BY <1>11, SnapshotFailsKeeps
<1> QED
  BY <1>2, <1>3, <1>4, <1>5, <1>6, <1>7, <1>8, <1>9, <1>10, <1>11 DEF SnapNext, SnapStep

\* The snapshots over a step.
LEMMA SnapsNextStep ==
  ASSUME Live, Maintained, SnapNext, crashes \in Nat, Undamaged', Opening => Lasting /\ FileSnaps
  PROVE  Snaps'
<1>1. Snaps /\ Cloning /\ Alive
  BY DEF Maintained
<1>2. CASE StoreStep
  BY <1>1, <1>2, SnapsStore
<1>3. CASE \E id \in Ids : SnapDelete(id)
  BY <1>1, <1>3, SnapsDelete
<1>4. CASE \/ Compact \/ Snapshot \/ CompactPointer \/ SnapshotPointer \/ SnapshotFails
           \/ RestorePointer \/ \E id \in Ids : CompactParticle(id)
  <2>1. PlainStep
    BY <1>4 DEF PlainStep
  <2> QED
    BY <1>1, <2>1, SnapsPlain
<1>5. CASE CompactClear
  BY <1>1, <1>5, SnapsClear
<1>6. CASE CompactIndex
  BY <1>1, <1>6, SnapsCompactIndex
<1>7. CASE SnapshotIndex \/ SnapshotDedup
  BY <1>1, <1>7, SnapsCopied
<1>8. CASE SnapshotTable
  BY <1>1, <1>8, SnapsTaken
<1>9. CASE \E k \in 1 .. MaxSnapshots : Restore(k)
  BY <1>1, <1>9, SnapsRestored
<1> QED
  BY <1>2, <1>3, <1>4, <1>5, <1>6, <1>7, <1>8, <1>9 DEF SnapNext, SnapStep

LEMMA SnapStepSound == SnapInv /\ SnapNext => SnapInv'
<1> SUFFICES ASSUME SnapInv, SnapNext PROVE SnapInv'
  OBVIOUS
<1>1. crashes \in Nat /\ compactions \in Nat /\ opens \in Nat \ {0}
  BY DEF SnapInv
<1>2. /\ crashes' \in {crashes, crashes + 1} /\ failures \subseteq failures'
      /\ opens' \in {opens, opens + 1} /\ compactions' \in {compactions, compactions + 1}
  BY <1>1, HistoryGrows
<1>3. crashes' \in Nat /\ compactions' \in Nat /\ opens' \in Nat \ {0}
  BY <1>1, <1>2
<1>4. ASSUME Healthy' PROVE Live' /\ Maintained' /\ (compactions' = 0 => Recorded')
  <2>1. Undamaged' /\ (compactions' = 0 \/ opens' = 1)
    BY <1>4 DEF Healthy, CountsKnown
  <2>2. failures \subseteq {"error"} /\ crashes = 0
    BY <1>1, <1>2, <2>1 DEF Undamaged
  <2>3. compactions' = 0 => compactions = 0
    BY <1>1, <1>2
  <2>4. opens' = 1 => opens = 1
    BY <1>1, <1>2
  <2>5. Live /\ Maintained /\ (compactions = 0 => Recorded)
    BY <2>1, <2>2, <2>3, <2>4 DEF SnapInv, Healthy, Undamaged, CountsKnown
  <2>6. Opening => Lasting /\ FileSnaps /\ FileAlive
    <3>1. Opening => opens' = opens + 1
      BY DEF Opening, Open
    <3>2. Opening => opens' # 1
      BY <1>1, <3>1
    <3> QED
      BY <2>1, <2>3, <2>5, <3>2 DEF Recorded
  <2>7. Live' /\ (compactions' = 0 /\ Lasting => Lasting')
    BY <1>1, <2>1, <2>5, <2>6, LiveNext
  <2>8. Snaps'
    BY <1>1, <2>1, <2>5, <2>6, SnapsNextStep
  <2>9. StepNames
    BY <1>1, <2>1, <2>5, NamedSteps
  <2>10. Cloning' /\ Compacting'
    BY <2>5, <2>9, CloningNext, CompactingNext DEF Maintained
  <2>11. Alive'
    BY <1>1, <2>1, <2>5, <2>6, AliveNext
  <2>12. Announced'
    BY <1>1, <2>1, <2>5, AnnouncedNext DEF Maintained
  <2>13. ASSUME compactions' = 0 PROVE Recorded'
    <3>1. Recorded
      BY <2>3, <2>5, <2>13
    <3>2. FileSnaps' /\ FileAlive'
      BY <1>1, <2>1, <2>5, <3>1, FileNext
    <3>3. Lasting'
      BY <2>7, <2>13, <3>1 DEF Recorded
    <3> QED
      BY <3>2, <3>3 DEF Recorded
  <2> QED
    BY <2>7, <2>8, <2>10, <2>11, <2>12, <2>13 DEF Maintained
<1> QED
  BY <1>3, <1>4 DEF SnapInv

LEMMA SnapStutters == SnapInv /\ UNCHANGED allVars => SnapInv'
<1> SUFFICES ASSUME SnapInv, UNCHANGED allVars PROVE SnapInv'
  OBVIOUS
<1>1. UNCHANGED <<mem, disk, journal, log, pc, todo, work, pending, expected>>
  BY DEF allVars, vars
<1>2. UNCHANGED <<opens, crashes, failures, compactions, taken>>
  BY DEF allVars, vars, snapVars
<1>3. crashes' \in Nat /\ compactions' \in Nat /\ opens' \in Nat \ {0}
  BY <1>2 DEF SnapInv
<1>4. ASSUME Healthy' PROVE Live' /\ Maintained' /\ (compactions' = 0 => Recorded')
  <2>1. Healthy
    BY <1>2, <1>4 DEF Healthy, Undamaged, CountsKnown
  <2>2. Live /\ Maintained /\ (compactions = 0 => Recorded)
    BY <2>1 DEF SnapInv
  <2>3. Live' /\ (Lasting => Lasting')
    BY <1>1, <2>2, NothingKeeps
  <2>4. Snaps'
    <3>1. Snaps
      BY <2>2 DEF Maintained
    <3>2. Running' = Running /\ Held' = Held /\ TableLength' = TableLength
      BY <1>1 DEF Running, Held, TableLength, TableIn, PageIn, NoPage
    <3>3. Running => SnapsGood(taken', mem', disk'.pages, Held')
      BY <1>1, <1>2, <3>1, <3>2 DEF Snaps
    <3>4. Running' => SnapsGood(taken, mem, disk.pages, Held)'
      BY <3>2, <3>3, SnapsNext
    <3>5. IntactIn(taken)' = IntactIn(taken)
      BY <1>2 DEF IntactIn
    <3> QED
      BY <1>1, <1>2, <3>1, <3>2, <3>4, <3>5 DEF Snaps
  <2>5. Cloning'
    BY <1>1, <2>2 DEF Maintained, Cloning, IndexPage, DedupPage, NoDedup
  <2>6. Compacting'
    BY <1>1, <2>2 DEF Maintained, Compacting, Indexed, Listed, Rewritten, DimsOf
  <2>7. Alive' /\ Announced'
    BY <1>1, <1>2, <2>2 DEF Maintained, Alive, Announced, Running
  <2>8. ASSUME compactions' = 0 PROVE Recorded'
    <3>1. Recorded
      BY <1>2, <2>2, <2>8
    <3>2. FileSnaps' /\ FileAlive'
      <4>1. CASE AtRest
        BY <1>1, <1>2, <3>1, <4>1, FileStays, TakenSame DEF Recorded
      <4>2. CASE ~ AtRest
        BY <1>1, <4>2 DEF AtRest, FileSnaps, FileAlive
      <4> QED
        BY <4>1, <4>2
    <3> QED
      BY <2>3, <3>1, <3>2 DEF Recorded
  <2> QED
    BY <2>3, <2>4, <2>5, <2>6, <2>7, <2>8 DEF Maintained
<1> QED
  BY <1>3, <1>4 DEF SnapInv

\* The invariant of compaction and snapshots.
THEOREM SnapInvariant == SnapSpec => []SnapInv
<1>1. SnapInit => SnapInv
  BY SnapInitSound
<1>2. SnapInv /\ [SnapNext]_allVars => SnapInv'
  BY SnapStepSound, SnapStutters
<1> QED
  BY <1>1, <1>2, PTL DEF SnapSpec

-----------------------------------------------------------------------------
(* What maintenance promises                                               *)

\* Compaction, snapshots and restores keep tables, leaves and shared pages
\* allocated, counted and unchanged, at every file write (persist.rs compact,
\* snapshot, restore_snapshot).
THEOREM MaintenanceSound == SnapSpec => []MaintenanceKeepsBlocks
<1>1. SnapInv => MaintenanceKeepsBlocks
  <2> SUFFICES ASSUME SnapInv, CountsKnown
               PROVE  LiveBlocksAllocated /\ RefcountCoversReferences /\ DedupHitsAreGood
    BY DEF MaintenanceKeepsBlocks
  <2>1. CASE Undamaged
    <3>1. Live
      BY <2>1 DEF SnapInv, Healthy
    <3> QED
      BY <3>1, SoundBlocks, SoundCounts, SoundHits
  <2>2. CASE ~ Undamaged
    BY <2>2 DEF LiveBlocksAllocated, RefcountCoversReferences, DedupHitsAreGood
  <2> QED
    BY <2>1, <2>2
<1> QED
  BY <1>1, SnapInvariant, PTL

\* A snapshot holds what it was taken of, though no count protects its leaves,
\* until one of them is deleted or a compaction runs.
THEOREM SnapshotsStayIntact == SnapSpec => []SnapshotIntact
<1>1. SnapInv => SnapshotIntact
  <2> DEFINE table == ReadTable(mem.sb.snapshot)
  <2> SUFFICES ASSUME SnapInv, Running, Undamaged, CountsKnown,
                      NEW k \in DOMAIN taken, taken[k].intact
               PROVE  /\ k \in DOMAIN table
                      /\ \A id \in Ids :
                           taken[k].of[id] = IF IsLeaf(ReadIndex(table[k].index)[id])
                                             THEN ContentAt(ReadIndex(table[k].index)[id]) ELSE None
    BY DEF SnapshotIntact
  <2>1. Live /\ Snaps
    BY DEF SnapInv, Healthy, Maintained
  <2>2. k \in IntactIn(taken)
    BY DEF IntactIn
  <2>3. table = TableIn(disk.pages, mem.sb.snapshot)
        /\ \A b : IndexIn(disk.pages, b) = ReadIndex(b)
    BY Reads
  <2> HIDE DEF table
  <2> DEFINE s == EntryImage(table[k], disk.pages, mem.used)
  <2>4. /\ k \in DOMAIN table /\ s.index = ReadIndex(table[k].index)
        /\ Image(s, disk.pages, {}) /\ HoldsOf(taken[k].of, s.index, disk.pages)
    BY <2>1, <2>2, <2>3, TakenIs
  <2> HIDE DEF s
  <2>5. ASSUME NEW id \in Ids
        PROVE  taken[k].of[id] = IF IsLeaf(s.index[id]) THEN ContentAt(s.index[id]) ELSE None
    <3>1. CASE s.index[id] = 0
      <4>1. ~ IsLeaf(s.index[id])
        BY <3>1 DEF IsLeaf, Page, NoPage
      <4> QED
        BY <2>4, <3>1, <4>1 DEF HoldsOf
    <3>2. CASE s.index[id] # 0
      <4>1. /\ IsLeaf(s.index[id])
            /\ ContentAt(s.index[id]) = {d \in Dims : disk.pages[s.index[id]].at[d] # 0}
        BY <2>4, <3>2, ContentIs
      <4> QED
        BY <2>4, <3>2, <4>1 DEF HoldsOf
    <3> QED
      BY <3>1, <3>2
  <2> QED
    BY <2>4, <2>5
<1> QED
  BY <1>1, SnapInvariant, PTL

\* What a session expects can be read, and nothing else.
LEMMA ReadyIsWhole ==
  ASSUME Live, Alive, pc = "ready"
  PROVE  /\ NothingLost
         /\ failures = {} /\ opens = 1 =>
              \A id \in Ids : expected[id] = None => Visible(mem, id) = None
<1>1. Running /\ StoreGood /\ Dirty = mem.modified
  BY DEF Running, Live, Dirty
<1>2. Image(mem, disk.pages, Held)
  BY <1>1 DEF StoreGood
<1>3. ASSUME NEW id \in Ids, expected[id] # None
      PROVE  Visible(mem, id) = expected[id]
  <2>1. CASE mem.store[id] # None
    BY <1>1, <1>3, <2>1 DEF StoreGood, Visible
  <2>2. CASE mem.store[id] = None
    <3>1. id \notin Dirty
      BY <1>1, <2>2 DEF StoreGood
    <3>2. /\ mem.index[id] # 0
          /\ {d \in Dims : disk.pages[mem.index[id]].at[d] # 0} = expected[id]
      BY <1>1, <1>3, <3>1 DEF StoreGood, Saved
    <3>3. /\ IsLeaf(mem.index[id])
          /\ ContentAt(mem.index[id]) = {d \in Dims : disk.pages[mem.index[id]].at[d] # 0}
      BY <1>2, <3>2, ContentIs
    <3> QED
      BY <2>2, <3>2, <3>3 DEF Visible
  <2> QED
    BY <2>1, <2>2
<1>4. ASSUME failures = {}, opens = 1, NEW id \in Ids, expected[id] = None
      PROVE  Visible(mem, id) = None
  <2>1. mem.store[id] = None /\ mem.index[id] = 0
    BY <1>1, <1>4 DEF Alive
  <2>2. ~ IsLeaf(mem.index[id])
    BY <2>1 DEF IsLeaf, Page, NoPage
  <2> QED
    BY <2>1, <2>2 DEF Visible
<1> QED
  BY <1>3, <1>4 DEF NothingLost

\* In sessions that all ended in a sync, without a failed call or an overrun of
\* the journal, and of which none follows the one that compacted (CompactForgets
\* shows what such a session loses), a compaction changes the content of no
\* particle, a restore gives exactly what the snapshot was taken of, and in the
\* first session what was deleted is gone.
THEOREM MaintenanceIsLossless == SnapSpec => [](crashes = 0 => MaintenanceLosesNothing)
<1>1. SnapInv => (crashes = 0 => MaintenanceLosesNothing)
  <2> SUFFICES ASSUME SnapInv, crashes = 0, CountsKnown, pc = "ready"
               PROVE  NothingLost /\ DeletedStaysDeleted
    BY DEF MaintenanceLosesNothing
  <2>1. CASE failures = {}
    <3>1. Live /\ Alive
      BY <2>1 DEF SnapInv, Healthy, Undamaged, Maintained
    <3> QED
      BY <3>1, ReadyIsWhole DEF DeletedStaysDeleted
  <2>2. CASE failures # {}
    BY <2>2 DEF NothingLost, DeletedStaysDeleted
  <2> QED
    BY <2>1, <2>2
<1> QED
  BY <1>1, SnapInvariant, PTL

-----------------------------------------------------------------------------
(* What the superblock of the file points to                               *)

\* The superblock in the file names the index of memory, but while that is
\* about to be written there.
Elsewhere == {"closed", "compact", "compact_sb", "index_sb", "restore_sb"}

Pointed ==
  /\ pc \notin Elsewhere => disk.sb.index = mem.sb.index
  /\ \A b \in Blocks : disk.pages[b].kind # "garbage"
  /\ disk.sb.index # 0 /\ pc \notin {"compact", "compact_sb"} =>
       disk.pages[disk.sb.index].kind = "index"

\* Pages stay, and the superblock may be written.
LEMMA PointedFlushed ==
  ASSUME Live, Pointed, Running, mem'.sb.index = mem.sb.index, disk'.pages = disk.pages,
         disk'.sb = mem.sb \/ disk'.sb = disk.sb,
         pc \in Elsewhere => pc' = pc \/ disk'.sb = mem.sb
  PROVE  Pointed'
<1>1. mem.sb.index # 0 => disk.pages[mem.sb.index].kind = "index"
  BY LeavesUsed
<1>2. pc \in Elsewhere => disk'.sb = mem.sb \/ (pc' = pc /\ disk'.sb = disk.sb)
  OBVIOUS
<1> QED
  BY <1>1, <1>2 DEF Pointed, Elsewhere, Running

\* A page is written.
LEMMA PointedWritten ==
  ASSUME Live, Pointed, Running, NEW new \in Blocks,
         \A b \in Blocks : b # new => disk'.pages[b] = disk.pages[b],
         disk'.pages[new].kind # "garbage", disk'.sb = disk.sb,
         pc' \notin Elsewhere => mem'.sb.index = mem.sb.index /\ pc \notin Elsewhere,
         pc' \notin {"compact", "compact_sb"} =>
           /\ pc \notin Elsewhere
           /\ mem.sb.index # new \/ disk'.pages[new].kind = "index"
  PROVE  Pointed'
<1>1. disk.sb.index \in Blocks \cup {0}
  BY LiveTypes DEF Superblocks, Pointers
<1>2. \A b \in Blocks : disk'.pages[b].kind # "garbage"
  BY DEF Pointed
<1>3. pc' \notin {"compact", "compact_sb"} =>
        /\ disk.sb.index = mem.sb.index
        /\ disk.sb.index # 0 => disk.pages[disk.sb.index].kind = "index"
  BY DEF Pointed, Elsewhere
<1>4. disk'.sb.index # 0 /\ pc' \notin {"compact", "compact_sb"} =>
        disk'.pages[disk'.sb.index].kind = "index"
  BY <1>1, <1>3
<1>5. pc' \notin Elsewhere => disk'.sb.index = mem'.sb.index
  BY <1>3 DEF Elsewhere
<1> QED
  BY <1>2, <1>4, <1>5 DEF Pointed

\* The steps that leave pages alone.
LEMMA PointedQuiet ==
  ASSUME Live, Compacting, Pointed, QuietStep
  PROVE  Pointed'
<1>1. Quiet
  BY QuietSteps
<1>2. pc \in Elsewhere => disk'.sb = mem.sb
  <2> SUFFICES ASSUME pc \in Elsewhere PROVE disk'.sb = mem.sb
    OBVIOUS
  <2>1. CASE WriteIndexPointer
    BY <2>1, LiveTypes DEF WriteIndexPointer, FlushSuperblock, Disks
  <2>2. CASE SyncFails
    <3>1. work # None \/ pc \in {"index", "dedup"}
      BY <2>2 DEF SyncFails
    <3>2. pc = "compact"
      BY <3>1 DEF Live, WorkGood, Elsewhere
    <3> QED
      BY <2>2, <3>2, CompactingHasRoom
  <2>6. ~ LeafTooLarge
    BY <2>1 DEF LeafTooLarge, Elsewhere
  <2>3. CASE \E id \in Ids, c \in Contents : Write(id, c) \/ WriteFull(id, c)
    BY <2>3 DEF Write, WriteFull, Called, Elsewhere
  <2>4. CASE \E id \in Ids : LoadParticle(id) \/ BeginParticle(id)
    BY <2>4 DEF LoadParticle, BeginParticle, Elsewhere
  <2>5. CASE SyncBegin \/ SyncVolume \/ SyncVolumeBitmap \/ WriteDedupPointer \/ WriteCheckpoint
             \/ CheckpointSync \/ CheckpointSyncBitmap \/ Retry
    BY <2>5 DEF SyncBegin, Called, SyncVolume, SyncVolumeBitmap, WriteDedupPointer, WriteCheckpoint,
                CheckpointSync, CheckpointSyncBitmap, Retry, FlushSuperblock, FlushBitmap, Elsewhere
  <2> QED
    BY <2>1, <2>2, <2>3, <2>4, <2>5, <2>6 DEF QuietStep
<1> QED
  BY <1>1, <1>2, PointedFlushed DEF Quiet

\* The page of a dimension or of a leaf.
LEMMA PointedPage ==
  ASSUME Live, Pointed, WriteDimension \/ WriteLeaf
  PROVE  Pointed'
<1>1. work # None /\ pc' = pc
  BY DEF WriteDimension, WriteLeaf
<1>2. pc \in {"particles", "compact"} /\ Running
  BY <1>1 DEF Live, WorkGood, Running
<1>3. mem \in Stores /\ disk \in Disks
  BY LiveTypes
<1>4. mem'.sb = mem.sb
  <2>1. CASE WriteDimension
    <3> DEFINE d == Min(Unwritten)
               n == [mem.dedup EXCEPT ![d].count = @ + 1]
               n2 == [mem.dedup EXCEPT ![d] = [block |-> Allocated(mem), count |-> 1]]
    <3>1. \/ mem' = [mem EXCEPT !.dedup = n]
          \/ mem' = [mem EXCEPT !.used = @ \cup {Allocated(mem)}, !.dedup = n2]
      BY <2>1, <1>3 DEF WriteDimension, Stores
    <3> HIDE DEF n, n2
    <3> QED
      BY <1>3, <3>1 DEF Stores
  <2>2. CASE WriteLeaf
    <3> DEFINE i == [mem.index EXCEPT ![work.id] = Allocated(mem)]
               s == [mem.store EXCEPT ![work.id] = work.content]
    <3>1. mem' = [mem EXCEPT !.used = @ \cup {Allocated(mem)}, !.index = i, !.store = s]
      BY <2>2, <1>3 DEF WriteLeaf, Stores
    <3> HIDE DEF i, s
    <3> QED
      BY <1>3, <3>1 DEF Stores
  <2> QED
    BY <2>1, <2>2
<1> DEFINE new == Allocated(mem)
<1>5. CASE disk' = disk
  BY <1>1, <1>2, <1>4, <1>5, PointedFlushed
<1>6. CASE disk' # disk
  <2>1. /\ Free(mem) # {}
        /\ \/ disk' = [disk EXCEPT !.pages[new] = DimPage(Min(Unwritten))]
           \/ disk' = [disk EXCEPT !.pages[new] = LeafPage(work.id, work.at)]
    BY <1>6 DEF WriteDimension, WriteLeaf
  <2>2. new \in Blocks /\ new \notin mem.used /\ new # 0
    BY <2>1, AllocatedIsFree
  <2> HIDE DEF new
  <2>3. PICK page : disk' = [disk EXCEPT !.pages[new] = page] /\ page.kind # "garbage"
    BY <2>1 DEF DimPage, LeafPage
  <2>4. /\ disk'.pages[new].kind # "garbage" /\ disk'.sb = disk.sb
        /\ \A b \in Blocks : b # new => disk'.pages[b] = disk.pages[b]
    BY <1>3, <2>2, <2>3 DEF Disks
  <2>5. mem.sb.index # new
    BY <1>2, <2>2, LeavesUsed
  <2>6. pc = "compact" \/ pc \notin Elsewhere
    BY <1>2 DEF Elsewhere
  <2>7. /\ pc' \notin Elsewhere => mem'.sb.index = mem.sb.index /\ pc \notin Elsewhere
        /\ pc' \notin {"compact", "compact_sb"} =>
             /\ pc \notin Elsewhere
             /\ mem.sb.index # new \/ disk'.pages[new].kind = "index"
    BY <1>1, <1>4, <2>5, <2>6
  <2> QED
    BY <1>2, <2>2, <2>4, <2>7, PointedWritten
<1> QED
  BY <1>5, <1>6

\* A table on its new page.
LEMMA PointedTable ==
  ASSUME Live, Pointed, Running, NEW p \in {"index", "dedup", "snapshot"}, NEW page \in Pages,
         page.kind # "garbage", TableWritten(p, page), pc \notin Elsewhere \/ pc = "compact",
         pc = "compact" => pc' = "compact_sb",
         p = "index" => page.kind = "index" /\ pc' \in Elsewhere,
         p # "index" /\ mem.sb[p] # 0 => disk.pages[mem.sb[p]].kind # "index"
  PROVE  Pointed'
<1>1. PICK new : TableAt(p, page, new)
  BY TableShape
<1>2. mem.sb \in Superblocks /\ mem.used \in SUBSET Blocks /\ 0 \notin mem.used
  BY LiveTypes
<1>3. mem.sb.index # 0 => mem.sb.index \in mem.used /\ disk.pages[mem.sb.index].kind = "index"
  BY LeavesUsed
<1>4. /\ new \in Blocks /\ new # 0 /\ disk'.pages[new] = page /\ disk'.sb = disk.sb
      /\ \A b \in Blocks : b # new => disk'.pages[b] = disk.pages[b]
      /\ new \notin mem.used \ {mem.sb[p]} /\ mem'.sb = [mem.sb EXCEPT ![p] = new]
  BY <1>1 DEF TableAt
<1>5. p # "index" => mem'.sb.index = mem.sb.index /\ new # mem.sb.index
  BY <1>2, <1>3, <1>4 DEF Superblocks
<1>6. /\ pc' \notin Elsewhere => mem'.sb.index = mem.sb.index /\ pc \notin Elsewhere
      /\ pc' \notin {"compact", "compact_sb"} =>
           /\ pc \notin Elsewhere
           /\ mem.sb.index # new \/ disk'.pages[new].kind = "index"
  BY <1>4, <1>5 DEF Elsewhere
<1> QED
  BY <1>4, <1>6, PointedWritten

LEMMA PointedStore ==
  ASSUME Live, Compacting, Pointed, StoreStep, crashes \in Nat, Undamaged', Opening => Lasting
  PROVE  Pointed'
<1>1. \/ QuietStep \/ WriteDimension \/ WriteLeaf \/ WriteIndex \/ WriteDedup \/ DropDedup
      \/ Close \/ Opening
  BY StepKinds DEF StoreStep
<1>2. mem \in Stores /\ disk \in Disks /\ mem.sb \in Superblocks
  BY LiveTypes
<1>3. CASE WriteIndex
  <2>1. pc = "index" /\ pc' = "index_sb" /\ TableWritten("index", IndexPage(mem.index))
    BY <1>3 DEF WriteIndex
  <2>2. IndexPage(mem.index) \in Pages /\ IndexPage(mem.index).kind = "index"
    BY LiveTypes DEF IndexPage, Pages
  <2>3. Running /\ pc \notin Elsewhere /\ pc' \in Elsewhere
    BY <2>1 DEF Running, Elsewhere
  <2>4. "index" \in {"index", "dedup", "snapshot"}
    OBVIOUS
  <2> QED
    BY <2>1, <2>2, <2>3, <2>4, PointedTable
<1>4. CASE WriteDedup
  <2>1. pc = "dedup" /\ pc' = "dedup_sb" /\ TableWritten("dedup", DedupPage(mem.dedup))
    BY <1>4 DEF WriteDedup
  <2>2. DedupPage(mem.dedup) \in Pages /\ DedupPage(mem.dedup).kind = "dedup"
    BY LiveTypes DEF DedupPage, Pages
  <2>3. Running /\ pc \notin Elsewhere
    BY <2>1 DEF Running, Elsewhere
  <2>4. mem.sb["dedup"] # 0 => disk.pages[mem.sb["dedup"]].kind # "index"
    BY <2>3, LeavesUsed
  <2>5. "dedup" \in {"index", "dedup", "snapshot"}
    OBVIOUS
  <2> QED
    BY <2>1, <2>2, <2>3, <2>4, <2>5, PointedTable
<1>5. CASE DropDedup
  <2>1. /\ pc = "dedup" /\ pc' = "checkpoint" /\ disk' = disk
        /\ mem' = [mem EXCEPT !.used = @ \ {mem.sb.dedup}, !.sb.dedup = 0]
    BY <1>5 DEF DropDedup, unsynced
  <2> DEFINE b2 == [mem.sb EXCEPT !.dedup = 0]
  <2>2. mem' = [mem EXCEPT !.used = @ \ {mem.sb.dedup}, !.sb = b2] /\ b2.index = mem.sb.index
    BY <1>2, <2>1 DEF Stores, Superblocks
  <2> HIDE DEF b2
  <2>3. mem'.sb.index = mem.sb.index
    BY <1>2, <2>2 DEF Stores
  <2>4. Running /\ pc \notin Elsewhere
    BY <2>1 DEF Running, Elsewhere
  <2> QED
    BY <2>1, <2>3, <2>4, PointedFlushed
<1>6. CASE Close
  <2>1. pc = "ready" /\ pc' = "closed" /\ disk' = disk
    BY <1>6 DEF Close, Gone
  <2> QED
    BY <2>1 DEF Pointed, Elsewhere
<1>7. CASE Opening
  <2>1. PICK all \in BOOLEAN : Open(all)
    BY <1>7, PersistAssumption DEF Opening
  <2>2. mem'.sb = disk.sb
    BY <1>7, <2>1, OpenKeeps DEF FileImage
  <2>3. pc = "closed" /\ pc' = "ready" /\ disk' = disk
    BY <2>1 DEF Open
  <2> QED
    BY <2>2, <2>3 DEF Pointed, Elsewhere
<1> QED
  BY <1>1, <1>3, <1>4, <1>5, <1>6, <1>7, PointedQuiet, PointedPage

\* The steps of maintenance.
LEMMA PointedMaintained ==
  ASSUME Live, Snaps, Cloning, Pointed, crashes \in Nat, Undamaged',
         \/ PlainStep \/ CompactClear \/ CompactIndex \/ SnapshotIndex \/ SnapshotDedup
         \/ SnapshotTable \/ \E k \in 1 .. MaxSnapshots : Restore(k)
  PROVE  Pointed'
<1>1. mem \in Stores /\ disk \in Disks /\ mem.sb \in Superblocks
  BY LiveTypes
<1>2. CASE PlainStep
  <2>1. mem' = mem
    BY <1>2
       DEF PlainStep, Compact, Snapshot, SyncFirst, CompactPointer, SnapshotPointer, SnapshotFails,
           RestorePointer, CompactParticle
  <2>2. /\ disk'.pages = disk.pages /\ Running
        /\ disk'.sb = mem.sb \/ (disk'.sb = disk.sb /\ (pc \in Elsewhere => pc' = pc))
    <3>1. CASE CompactPointer \/ SnapshotPointer \/ RestorePointer
      BY <1>1, <3>1 DEF CompactPointer, SnapshotPointer, RestorePointer, FlushSuperblock, Disks, Running
    <3>2. CASE Compact \/ Snapshot
      BY <3>2 DEF Compact, Snapshot, SyncFirst, Called, Running, Elsewhere
    <3>3. CASE SnapshotFails
      BY <3>3 DEF SnapshotFails, Running, Elsewhere
    <3>4. CASE \E id \in Ids : CompactParticle(id)
      BY <3>4 DEF CompactParticle, Running, Elsewhere
    <3> QED
      BY <1>2, <3>1, <3>2, <3>3, <3>4 DEF PlainStep
  <2> QED
    BY <2>1, <2>2, PointedFlushed
<1>3. CASE CompactClear
  BY <1>3 DEF CompactClear, Pointed, Elsewhere
<1>4. CASE CompactIndex
  <2>1. pc = "compact" /\ pc' = "compact_sb" /\ TableWritten("index", IndexPage(mem.index))
    BY <1>4 DEF CompactIndex
  <2>2. IndexPage(mem.index) \in Pages /\ IndexPage(mem.index).kind = "index"
    BY LiveTypes DEF IndexPage, Pages
  <2>3. Running /\ pc' \in Elsewhere
    BY <2>1 DEF Running, Elsewhere
  <2>4. "index" \in {"index", "dedup", "snapshot"}
    OBVIOUS
  <2> QED
    BY <2>1, <2>2, <2>3, <2>4, PointedTable
<1>5. CASE SnapshotIndex \/ SnapshotDedup
  <2>1. PICK b \in mem.used : Cloned(b) /\ disk.pages[b].kind \in {"index", "dedup"}
    BY <1>5, IndexCloned, DedupCloned DEF IndexPage, DedupPage
  <2>2. /\ pc \in {"retry", "snap_dedup"} /\ pc' \in {"snap_dedup", "snap_table"}
    BY <1>5 DEF SnapshotIndex, SnapshotDedup
  <2> DEFINE new == Allocated(mem)
  <2>3. /\ new \in Blocks \ mem.used /\ mem'.sb = mem.sb /\ disk'.sb = disk.sb
        /\ disk'.pages[new] = disk.pages[b]
        /\ \A x \in Blocks : x # new => disk'.pages[x] = disk.pages[x]
    BY <2>1, ClonedIs
  <2> HIDE DEF new
  <2>4. Running /\ pc \notin Elsewhere
    BY <2>2 DEF Running, Elsewhere
  <2>5. mem.sb.index # new
    BY <2>3, <2>4, LeavesUsed, PersistAssumption DEF Blocks
  <2> QED
    BY <2>1, <2>3, <2>4, <2>5, PointedWritten
<1>6. CASE SnapshotTable
  <2> DEFINE table == ReadTable(mem.sb.snapshot)
             entry == [index |-> pending.index, dedup |-> pending.dedup]
             page == TablePage(Append(table, entry))
  <2>1. /\ pc = "snap_table" /\ pc' = "snap_sb" /\ TableWritten("snapshot", page) /\ ReplacesTable
    BY <1>6 DEF SnapshotTable, Undamaged
  <2>2. page \in Pages
    <3>1. table \in Seq(Entry)
      BY Reads, ReadTypes, LiveTypes
    <3>2. entry \in Entry
      BY <2>1, LiveTypes DEF Cloning, Entry, Pointers
    <3> HIDE DEF table, entry
    <3>3. Append(table, entry) \in Seq(Entry)
      BY <3>1, <3>2
    <3> QED
      BY <3>3 DEF TablePage, Pages, Entry
  <2>3. page.kind = "table"
    BY DEF TablePage
  <2> HIDE DEF page
  <2>4. Running /\ pc \notin Elsewhere /\ "snapshot" \in {"index", "dedup", "snapshot"}
    BY <2>1 DEF Running, Elsewhere
  <2>5. mem.sb["snapshot"] # 0 => disk.pages[mem.sb["snapshot"]].kind # "index"
    BY <2>1 DEF ReplacesTable, Page
  <2> QED
    BY <2>1, <2>2, <2>3, <2>4, <2>5, PointedTable
<1>7. CASE \E k \in 1 .. MaxSnapshots : Restore(k)
  <2>1. PICK k \in 1 .. MaxSnapshots : Restore(k)
    BY <1>7
  <2>2. PICK new : RestoredTo(TableIn(disk.pages, mem.sb.snapshot)[k], new)
    BY <2>1, RestoredIs
  <2>3. pc = "ready" /\ pc' = "restore_sb"
    BY <2>1 DEF Restore, Called
  <2>4. /\ new \in Blocks /\ disk'.pages[new].kind = "index" /\ disk'.sb = disk.sb
        /\ \A b \in Blocks : b # new => disk'.pages[b] = disk.pages[b]
    BY <2>2 DEF RestoredTo, IndexPage
  <2>5. Running /\ pc \notin Elsewhere /\ pc' \in Elsewhere
    BY <2>3 DEF Running, Elsewhere
  <2> QED
    BY <2>4, <2>5, PointedWritten
<1> QED
  BY <1>2, <1>3, <1>4, <1>5, <1>6, <1>7

\* A delete is nothing to pages and pointers.
LEMMA PointedDelete ==
  ASSUME Live, Pointed, NEW id \in Ids, Delete(id)
  PROVE  Pointed'
<1>1. pc = "ready" /\ pc' = pc /\ disk' = disk /\ mem' = Deleted(mem, id)
  BY DEF Delete, Called
<1>2. mem'.sb = mem.sb
  BY <1>1, LiveTypes, DeletedWithin
<1>3. Running /\ pc \notin Elsewhere
  BY <1>1 DEF Running, Elsewhere
<1> QED
  BY <1>1, <1>2, <1>3, PointedFlushed

\* What a healthy file was before the step, and what an open then finds.
LEMMA HealthyBefore ==
  ASSUME SnapInv, SnapNext, Healthy'
  PROVE  /\ Healthy /\ Live /\ Maintained /\ crashes \in Nat /\ Undamaged'
         /\ Opening => Recorded
<1>1. crashes \in Nat /\ compactions \in Nat /\ opens \in Nat \ {0}
  BY DEF SnapInv
<1>2. /\ crashes' \in {crashes, crashes + 1} /\ failures \subseteq failures'
      /\ opens' \in {opens, opens + 1} /\ compactions' \in {compactions, compactions + 1}
  BY <1>1, HistoryGrows
<1>3. Undamaged' /\ (compactions' = 0 \/ opens' = 1)
  BY DEF Healthy, CountsKnown
<1>4. failures \subseteq {"error"} /\ crashes = 0
  BY <1>1, <1>2, <1>3 DEF Undamaged
<1>5. (compactions' = 0 => compactions = 0) /\ (opens' = 1 => opens = 1)
  BY <1>1, <1>2
<1>6. Healthy
  BY <1>3, <1>4, <1>5 DEF Healthy, Undamaged, CountsKnown
<1>7. Opening => opens' = opens + 1
  BY DEF Opening, Open
<1>8. Opening => compactions = 0
  BY <1>1, <1>3, <1>5, <1>7
<1> QED
  BY <1>1, <1>3, <1>6, <1>8 DEF SnapInv

PointedInv == SnapInv /\ (Healthy => Pointed)

LEMMA PointedNext == PointedInv /\ [SnapNext]_allVars => PointedInv'
<1> SUFFICES ASSUME PointedInv, [SnapNext]_allVars PROVE PointedInv'
  OBVIOUS
<1>1. SnapInv'
  BY SnapStepSound, SnapStutters DEF PointedInv
<1>2. ASSUME Healthy', SnapNext PROVE Pointed'
  <2>1. Healthy /\ Live /\ Maintained /\ crashes \in Nat /\ Undamaged' /\ (Opening => Lasting)
    BY <1>2, HealthyBefore DEF PointedInv, Recorded
  <2>2. Pointed /\ Snaps /\ Cloning /\ Compacting
    BY <2>1 DEF PointedInv, Maintained
  <2>3. CASE StoreStep
    BY <2>1, <2>2, <2>3, PointedStore
  <2>4. CASE \E id \in Ids : SnapDelete(id)
    BY <2>1, <2>2, <2>4, PointedDelete DEF SnapDelete
  <2>5. CASE \/ PlainStep \/ CompactClear \/ CompactIndex \/ SnapshotIndex \/ SnapshotDedup
             \/ SnapshotTable \/ \E k \in 1 .. MaxSnapshots : Restore(k)
    BY <2>1, <2>2, <2>5, PointedMaintained
  <2> QED
    BY <1>2, <2>3, <2>4, <2>5 DEF SnapNext, SnapStep, PlainStep
<1>3. ASSUME Healthy', UNCHANGED allVars PROVE Pointed'
  <2>1. UNCHANGED <<mem, disk, pc, failures, crashes, compactions, opens>>
    BY <1>3 DEF allVars, vars, snapVars
  <2>2. Healthy
    BY <1>3, <2>1 DEF Healthy, Undamaged, CountsKnown
  <2> QED
    BY <2>1, <2>2 DEF PointedInv, Pointed
<1> QED
  BY <1>1, <1>2, <1>3 DEF PointedInv

LEMMA SnapInitPointed == SnapInit => PointedInv
<1> SUFFICES ASSUME SnapInit PROVE PointedInv
  OBVIOUS
<1>1. SnapInv
  BY SnapInitSound
<1>2. Pointed
  BY DEF SnapInit, Init, Pointed, NoPage, NullPointers
<1> QED
  BY <1>1, <1>2 DEF PointedInv

\* At any file write but those of a compaction, where a crash would leave it,
\* the superblock of the file names a page that check_particle_index
\* (fsck.rs) accepts, as long as no process was killed, nothing went over the
\* end of the journal and no session follows the one that compacted.
THEOREM IndexIsReadable == SnapSpec => []IndexStaysReadable
<1>1. SnapInit => PointedInv
  BY SnapInitPointed
<1>2. PointedInv /\ [SnapNext]_allVars => PointedInv'
  BY PointedNext
<1>3. PointedInv => IndexStaysReadable
  <2> SUFFICES ASSUME PointedInv, Undamaged, CountsKnown, pc \notin {"compact", "compact_sb"}
               PROVE  IndexErrors = {}
    BY DEF IndexStaysReadable
  <2>1. Pointed
    BY DEF PointedInv, Healthy
  <2>2. disk.sb.index # 0 => Page(disk.sb.index).kind = "index"
    BY <2>1 DEF Pointed, Page
  <2> QED
    BY <2>2 DEF IndexErrors
<1> QED
  BY <1>1, <1>2, <1>3, PTL DEF SnapSpec

-----------------------------------------------------------------------------
(* What a crash of the first session leaves                                *)

\* The log is written and started over as without maintenance.
LogWhole == Running => Codec!Journaled(journal, log.offset, ToReplay)

\* Copies are made and particles rewritten behind a sync; what is logged when
\* a snapshot is restored is from before.
Emptied ==
  /\ pc \in {"compact", "compact_sb", "snap_dedup", "snap_table", "snap_sb"} => log.entries = 0
  /\ pc = "restore_sb" /\ restored # "log" => log.entries = 0
  /\ restored = "log" => log.entries # 0

Outside == pc \notin {"compact", "compact_sb", "restore_sb"} /\ restored # "log"

First == opens = 1 /\ failures = {} /\ crashes = 0

Kept == LogWhole /\ Emptied /\ (Outside => Tracked)

ImageInv == PointedInv /\ (First => Kept)

\* The index of memory is in the file, and there is nothing to replay.
Rested ==
  /\ Live /\ Alive /\ Pointed /\ LogWhole /\ First
  /\ pc \in {"last_sb", "snap_dedup", "snap_table", "snap_sb"} /\ log.entries = 0

LEMMA RestedTracked == Rested => Tracked
<1> SUFFICES ASSUME Rested PROVE Tracked
  OBVIOUS
<1>1. /\ Live /\ Alive /\ Pointed /\ LogWhole /\ crashes = 0 /\ opens = 1 /\ failures = {}
      /\ pc \in {"last_sb", "snap_dedup", "snap_table", "snap_sb"} /\ log.entries = 0 /\ Running
  BY DEF Rested, First, Running
<1>2. ToReplay = << >>
  BY <1>1, JournalOpened DEF Live, PersistTypes, JournalTypes, ToReplay
<1>3. Len(ToReplay) = 0
  BY <1>2
<1>4. mem.modified = {} /\ mem.sb.index # 0 /\ ReadIndex(mem.sb.index) = mem.index
  BY <1>1 DEF Live, Progress
<1>5. LogGood /\ Tells(ToReplay, expected)
  BY <1>1, <1>3, <1>4 DEF LogWhole, LogGood, Tells
<1>6. IndexGood
  BY <1>1, <1>4 DEF Pointed, Elsewhere, IndexGood, StoredIndex
<1>7. Undeleted
  BY <1>1 DEF Alive, Undeleted
<1> QED
  BY <1>1, <1>5, <1>6, <1>7 DEF Tracked

LEMMA RestedNext == Rested' => Tracked'
BY RestedTracked, PTL

\* A closed store can only be opened.
LEMMA ClosedOpens ==
  ASSUME Live, ~ Running, SnapNext, crashes \in Nat, Undamaged'
  PROVE  Opening
<1>1. pc = "closed" /\ work = None
  BY DEF Running, Live, WorkGood
<1>2. CASE StoreStep
  <2>1. \/ QuietStep \/ WriteDimension \/ WriteLeaf \/ WriteIndex \/ WriteDedup \/ DropDedup
        \/ Close \/ Opening
    BY <1>2, StepKinds DEF StoreStep
  <2>2. ~ QuietStep
    BY <1>1, QuietSteps DEF Quiet, Running
  <2>3. ~ (WriteDimension \/ WriteLeaf \/ WriteIndex \/ WriteDedup \/ DropDedup \/ Close)
    BY <1>1 DEF WriteDimension, WriteLeaf, WriteIndex, WriteDedup, DropDedup, Close
  <2> QED
    BY <2>1, <2>2, <2>3
<1>3. CASE \E id \in Ids : SnapDelete(id)
  BY <1>1, <1>3 DEF SnapDelete, Delete, Called
<1>4. CASE Compact \/ Snapshot \/ \E k \in 1 .. MaxSnapshots : Restore(k)
  BY <1>1, <1>4 DEF Compact, Snapshot, SyncFirst, Restore, Called
<1>5. CASE SnapStep
  <2>1. pc # "closed"
    BY <1>5 DEF SnapStep, CompactClear, CompactIndex, CompactPointer, CompactParticle,
                SnapshotIndex, SnapshotDedup, SnapshotTable, SnapshotPointer, SnapshotFails,
                RestorePointer, FlushSuperblock
  <2> QED
    BY <1>1, <2>1
<1> QED
  BY <1>2, <1>3, <1>4, <1>5 DEF SnapNext

\* What an operation of the store does to the log.
Logging ==
  /\ \E op \in Ops : Fits(op) /\ Logged(op)
  /\ pc \in {"ready", "retry"} /\ pc' \in {"ready", "particles"}
LogKept ==
  /\ UNCHANGED <<journal, log>>
  /\ pc' \in MaintenanceStates => pc' = pc
  /\ pc \in {"compact", "compact_sb", "restore_sb"} => pc' = pc

LEMMA LogSteps ==
  ASSUME Live, Running, StoreStep \/ (\E id \in Ids : SnapDelete(id)),
         crashes \in Nat, Undamaged', failures' = {}
  PROVE  \/ Logging \/ LogKept \/ Close \/ Opening
         \/ WriteCheckpoint /\ log.offset < JournalCells
<1>1. pending \in Ops => pending \in Writes
  BY DEF Live, PersistTypes
<1>2. \A id \in Ids, c \in Contents : WriteOp(id, c) \in Ops /\ DeleteOp(id) \in Ops
  BY DEF Ops
<1>3. CASE \E id \in Ids : SnapDelete(id)
  <2>1. PICK id \in Ids : Delete(id)
    BY <1>3 DEF SnapDelete
  <2>2. /\ pc = "ready" /\ pc' = pc
        /\ IF Fits(DeleteOp(id)) THEN Logged(DeleteOp(id))
           ELSE failures' = failures \cup {"error"}
    BY <2>1 DEF Delete, Called
  <2>3. Fits(DeleteOp(id)) /\ Logged(DeleteOp(id))
    BY <2>2
  <2>4. DeleteOp(id) \in Ops
    BY DEF Ops
  <2> QED
    BY <2>2, <2>3, <2>4 DEF Logging
<1>4. CASE StoreStep
  <2>1. \/ QuietStep \/ WriteDimension \/ WriteLeaf \/ WriteIndex \/ WriteDedup \/ DropDedup
        \/ Close \/ Opening
    BY <1>4, StepKinds DEF StoreStep
  <2>2. CASE WriteDimension \/ WriteLeaf
    <3>1. work # None /\ UNCHANGED <<pc, log, journal>>
      BY <2>2 DEF WriteDimension, WriteLeaf, unsynced
    <3>2. pc \in {"particles", "compact"}
      BY <3>1 DEF Live, WorkGood
    <3> QED
      BY <3>1, <3>2 DEF LogKept, MaintenanceStates
  <2>3. CASE WriteIndex \/ WriteDedup \/ DropDedup
    BY <2>3 DEF WriteIndex, WriteDedup, DropDedup, unsynced, LogKept, MaintenanceStates
  <2>4. CASE \E id \in Ids, c \in Contents : Write(id, c)
    <3>1. PICK id \in Ids, c \in Contents : Write(id, c)
      BY <2>4
    <3>2. /\ pc = "ready" /\ pc' \in {"ready", "particles"}
          /\ Fits(WriteOp(id, c)) /\ Logged(WriteOp(id, c))
      BY <3>1 DEF Write, LoggedWrite, Called
    <3> QED
      BY <1>2, <3>2 DEF Logging
  <2>5. CASE Retry
    <3>1. CASE Fits(pending)
      <4>1. /\ pc = "retry" /\ pc' \in {"ready", "particles"} /\ pending \in Ops
            /\ Fits(pending) /\ Logged(pending)
        BY <2>5, <3>1 DEF Retry, LoggedWrite
      <4> QED
        BY <4>1 DEF Logging
    <3>2. CASE ~ Fits(pending)
      BY <2>5, <3>2 DEF Retry, LogKept, MaintenanceStates
    <3> QED
      BY <3>1, <3>2
  <2>6. CASE WriteCheckpoint /\ log.offset < JournalCells
    BY <2>6
  <2>7. CASE \/ (\E id \in Ids, c \in Contents : WriteFull(id, c)) \/ SyncBegin
             \/ \E id \in Ids : LoadParticle(id) \/ BeginParticle(id)
    BY <2>7 DEF WriteFull, SyncBegin, LoadParticle, BeginParticle, Called, unsynced, LogKept,
                MaintenanceStates
  <2>8. CASE \/ SyncVolume \/ SyncVolumeBitmap \/ WriteIndexPointer \/ WriteDedupPointer
             \/ CheckpointSync \/ CheckpointSyncBitmap
    BY <2>8 DEF SyncVolume, SyncVolumeBitmap, WriteIndexPointer, WriteDedupPointer, CheckpointSync,
                CheckpointSyncBitmap, FlushSuperblock, FlushBitmap, unsynced, LogKept,
                MaintenanceStates
  <2>9. ~ SyncFails /\ ~ LeafTooLarge
    <3> SUFFICES ASSUME SyncFails \/ LeafTooLarge PROVE "error" \in failures'
      OBVIOUS
    <3> QED
      BY DEF SyncFails, LeafTooLarge
  <2> QED
    BY <2>1, <2>2, <2>3, <2>4, <2>5, <2>6, <2>7, <2>8, <2>9 DEF QuietStep
<1> QED
  BY <1>3, <1>4

\* The log as it was says the same.
LEMMA LogWholeSame ==
  ASSUME LogWhole, Running, UNCHANGED <<journal, log>>
  PROVE  LogWhole'
<1>1. Codec!Journaled(journal', log'.offset, ToReplay')
  BY LogSame DEF LogWhole
<1> QED
  BY <1>1 DEF LogWhole

LEMMA LogWholeStore ==
  ASSUME Live, Compacting, Running, LogWhole, StoreStep \/ (\E id \in Ids : SnapDelete(id)),
         crashes \in Nat, Undamaged', failures' = {}, ~ Opening
  PROVE  LogWhole'
<1>1. CASE Logging
  <2>1. PICK op \in Ops : Fits(op) /\ Logged(op) /\ pc \in {"ready", "retry"}
    BY <1>1 DEF Logging
  <2>2. Steady
    BY <2>1 DEF Steady
  <2>3. Codec!Journaled(journal', log'.offset, ToReplay')
    BY <2>1, <2>2, LogAppends DEF LogWhole
  <2> QED
    BY <2>3 DEF LogWhole
<1>2. CASE LogKept
  BY <1>2, LogWholeSame DEF LogKept
<1>3. CASE Close
  BY <1>3 DEF Close, Gone, LogWhole, Running
<1>4. CASE WriteCheckpoint /\ log.offset < JournalCells
  <2>1. Steady
    BY <1>4 DEF Steady, WriteCheckpoint
  <2>2. Codec!Journaled(journal', log'.offset, ToReplay')
    BY <1>4, <2>1, LogCheckpoint DEF LogWhole
  <2> QED
    BY <2>2 DEF LogWhole
<1> QED
  BY <1>1, <1>2, <1>3, <1>4, LogSteps

LEMMA EmptiedStore ==
  ASSUME Live, Running, Emptied, StoreStep \/ (\E id \in Ids : SnapDelete(id)),
         crashes \in Nat, Undamaged', failures' = {}, ~ Opening
  PROVE  Emptied'
<1>1. IF log'.entries = 0 THEN restored' = restored \/ restored' = "once" ELSE restored' = restored
  BY DEF StoreStep, SnapDelete
<1>2. restored = "log" /\ StoreStep /\ log'.entries = 0 => restored' = "once"
  BY DEF StoreStep
<1>3. log.entries \in Nat
  BY LiveTypes
<1>4. CASE Logging
  <2>1. log'.entries = log.entries + 1 /\ pc' \in {"ready", "particles"}
    BY <1>4 DEF Logging, Logged
  <2> QED
    BY <1>3, <2>1 DEF Emptied
<1>5. CASE LogKept
  BY <1>1, <1>2, <1>5 DEF LogKept, Emptied, MaintenanceStates
<1>6. CASE Close \/ WriteCheckpoint
  <2>1. log'.entries = 0 /\ pc' \in {"closed", "last_sb"}
    BY <1>6 DEF Close, Gone, WriteCheckpoint
  <2>2. ~ (\E id \in Ids : SnapDelete(id))
    BY <2>1, <1>6 DEF SnapDelete, Delete, Called, Close, WriteCheckpoint
  <2> QED
    BY <1>1, <1>2, <2>1, <2>2 DEF Emptied
<1> QED
  BY <1>4, <1>5, <1>6, LogSteps

\* The steps of maintenance leave the log alone.
Maintaining ==
  Compact \/ Snapshot \/ (\E k \in 1 .. MaxSnapshots : Restore(k)) \/ SnapStep

LEMMA EmptiedMaintained ==
  ASSUME Live, Emptied, Maintaining, failures' = {}
  PROVE  UNCHANGED <<journal, log, crashes>> /\ Running /\ Running' /\ Emptied'
<1>1. pc = "retry" => log.entries = 0
  BY DEF Live, Progress, Syncing
<1>2. CASE Compact \/ Snapshot
  BY <1>2 DEF Compact, Snapshot, SyncFirst, Called, Running, Emptied
<1>3. CASE \E k \in 1 .. MaxSnapshots : Restore(k)
  BY <1>3 DEF Restore, Called, Running, Emptied
<1>4. CASE CompactClear \/ CompactIndex \/ CompactPointer \/ \E id \in Ids : CompactParticle(id)
  BY <1>1, <1>4 DEF CompactClear, CompactIndex, CompactPointer, CompactParticle, FlushSuperblock,
                    unsynced, snapVars, Running, Emptied
<1>5. CASE SnapshotIndex \/ SnapshotDedup \/ SnapshotTable \/ SnapshotPointer
  BY <1>1, <1>5 DEF SnapshotIndex, SnapshotDedup, SnapshotTable, SnapshotPointer, FlushSuperblock,
                    unsynced, snapVars, Running, Emptied
<1>6. CASE RestorePointer
  BY <1>6 DEF RestorePointer, FlushSuperblock, unsynced, snapVars, Running, Emptied
<1>7. ~ SnapshotFails
  <2> SUFFICES ASSUME SnapshotFails PROVE "error" \in failures'
    OBVIOUS
  <2> QED
    BY DEF SnapshotFails
<1> QED
  BY <1>2, <1>3, <1>4, <1>5, <1>6, <1>7 DEF Maintaining, SnapStep

\* They leave memory and file alone, change what is not promised, or leave a
\* file that has everything.
LEMMA MaintainedTracked ==
  ASSUME Live, Emptied, Maintaining, Outside => Tracked, Outside', failures' = {},
         Live', Alive', Pointed', LogWhole', First'
  PROVE  Tracked'
<1>1. pc = "retry" => log.entries = 0
  BY DEF Live, Progress, Syncing
<1>2. UNCHANGED <<journal, log, crashes>> /\ Running /\ Running'
  BY EmptiedMaintained
<1>3. CASE Compact \/ Snapshot
  <2>1. /\ pc = "ready" /\ pc' = "particles" /\ restored' = restored
        /\ UNCHANGED <<mem, disk, journal, log, expected, crashes>>
    BY <1>3 DEF Compact, Snapshot, SyncFirst, Called
  <2>2. Tracked /\ Steady
    BY <2>1 DEF Outside, Steady
  <2> QED
    BY <1>2, <2>1, <2>2, CallTracked
<1>4. ASSUME pc' \in {"last_sb", "snap_dedup", "snap_table", "snap_sb"}, log.entries = 0
      PROVE  Tracked'
  <2>1. Rested'
    BY <1>2, <1>4 DEF Rested
  <2> QED
    BY <2>1, RestedNext
<1>5. CASE CompactPointer \/ SnapshotPointer \/ SnapshotDedup \/ SnapshotTable
  <2>1. pc' \in {"last_sb", "snap_dedup", "snap_table", "snap_sb"} /\ log.entries = 0
    BY <1>5 DEF CompactPointer, SnapshotPointer, SnapshotDedup, SnapshotTable, FlushSuperblock, Emptied
  <2> QED
    BY <1>4, <2>1
<1>6. CASE SnapshotIndex
  <2>1. pc' \in {"last_sb", "snap_dedup", "snap_table", "snap_sb"} /\ log.entries = 0
    BY <1>1, <1>6 DEF SnapshotIndex
  <2> QED
    BY <1>4, <2>1
<1>7. CASE RestorePointer
  <2>1. pc' = "last_sb" /\ pc = "restore_sb" /\ restored' = restored
    BY <1>7 DEF RestorePointer, FlushSuperblock, snapVars
  <2>2. log.entries = 0
    BY <2>1 DEF Emptied, Outside
  <2> QED
    BY <1>4, <2>1, <2>2
<1>8. ~ (CompactClear \/ CompactIndex \/ (\E id \in Ids : CompactParticle(id))
         \/ \E k \in 1 .. MaxSnapshots : Restore(k))
  BY DEF CompactClear, CompactIndex, CompactParticle, Restore, Outside
<1>9. ~ SnapshotFails
  <2> SUFFICES ASSUME SnapshotFails PROVE "error" \in failures'
    OBVIOUS
  <2> QED
    BY DEF SnapshotFails
<1> QED
  BY <1>3, <1>5, <1>6, <1>7, <1>8, <1>9 DEF Maintaining, SnapStep

\* The operations of the store, with the log they are written to.
LEMMA StoreTracked ==
  ASSUME Live, Emptied, Running, StoreStep \/ (\E id \in Ids : SnapDelete(id)), ~ Opening,
         Outside => Tracked, Outside', crashes \in Nat, Undamaged', failures' = {},
         Live', Alive', Pointed', LogWhole', First'
  PROVE  Tracked'
<1>1. CASE Outside
  <2>1. Steady /\ Tracked
    BY <1>1 DEF Outside, Steady
  <2>2. [Next]_vars
    BY DEF StoreStep, SnapDelete, Next
  <2> QED
    BY <2>1, <2>2, RunningTracked
<1>2. CASE pc \in {"compact", "compact_sb", "restore_sb"}
  <2>1. ~ (Logging \/ LogKept \/ Close \/ WriteCheckpoint)
    BY <1>2 DEF Logging, LogKept, Close, WriteCheckpoint, Outside
  <2> QED
    BY <2>1, LogSteps
<1>3. CASE restored = "log"
  <2>1. log.entries \in Nat /\ log.entries # 0
    BY <1>3, LiveTypes DEF Emptied
  <2>2. log'.entries = 0
    BY <1>3 DEF StoreStep, SnapDelete, Outside
  <2>3. ~ (Logging \/ LogKept \/ Close)
    <3>1. Logging => log'.entries = log.entries + 1
      BY DEF Logging, Logged
    <3> QED
      BY <2>1, <2>2, <3>1 DEF LogKept, Close
  <2>4. WriteCheckpoint
    BY <2>3, LogSteps
  <2>5. pc' = "last_sb"
    BY <2>4 DEF WriteCheckpoint
  <2>6. Rested'
    BY <2>2, <2>5 DEF Rested
  <2> QED
    BY <2>6, RestedNext
<1> QED
  BY <1>1, <1>2, <1>3 DEF Outside

LEMMA ImageNext == ImageInv /\ [SnapNext]_allVars => ImageInv'
<1> SUFFICES ASSUME ImageInv, [SnapNext]_allVars PROVE ImageInv'
  OBVIOUS
<1>1. PointedInv'
  BY PointedNext DEF ImageInv
<1>2. First => Healthy
  BY DEF First, Healthy, Undamaged, CountsKnown
<1>3. First' => Healthy'
  BY DEF First, Healthy, Undamaged, CountsKnown
<1>4. ASSUME First', SnapNext PROVE Kept'
  <2>1. Healthy /\ Live /\ Maintained /\ crashes \in Nat /\ Undamaged'
    BY <1>3, <1>4, HealthyBefore DEF ImageInv, PointedInv
  <2>2. opens \in Nat \ {0} /\ opens' \in {opens, opens + 1} /\ failures \subseteq failures'
        /\ crashes' \in {crashes, crashes + 1} /\ failures' = {} /\ opens' = 1 /\ crashes' = 0
    BY <1>4, <2>1, HistoryGrows DEF ImageInv, PointedInv, SnapInv, First
  <2>3. First /\ ~ Opening
    <3>1. Opening => opens' = opens + 1
      BY DEF Opening, Open
    <3> QED
      BY <2>1, <2>2, <3>1 DEF First
  <2>4. Kept /\ Running
    <3>1. Kept
      BY <2>3 DEF ImageInv
    <3>2. ~ Running => Opening
      BY <1>4, <2>1, ClosedOpens
    <3> QED
      BY <2>3, <3>1, <3>2
  <2>5. Live' /\ Alive' /\ Pointed' /\ Compacting
    BY <1>1, <1>3, <1>4, <2>1 DEF PointedInv, SnapInv, Maintained
  <2>6. LogWhole /\ Emptied /\ (Outside => Tracked)
    BY <2>4 DEF Kept
  <2>7. CASE StoreStep \/ \E id \in Ids : SnapDelete(id)
    <3>1. LogWhole'
      BY <2>1, <2>2, <2>3, <2>4, <2>5, <2>6, <2>7, LogWholeStore
    <3>2. Emptied'
      BY <2>1, <2>2, <2>3, <2>4, <2>6, <2>7, EmptiedStore
    <3>3. Outside' => Tracked'
      BY <1>4, <2>1, <2>2, <2>3, <2>4, <2>5, <2>6, <2>7, <3>1, StoreTracked
    <3> QED
      BY <3>1, <3>2, <3>3 DEF Kept
  <2>8. CASE Maintaining
    <3>1. UNCHANGED <<journal, log>> /\ Running /\ Emptied'
      BY <2>1, <2>2, <2>6, <2>8, EmptiedMaintained
    <3>2. LogWhole'
      BY <2>6, <3>1, LogWholeSame
    <3>3. Outside' => Tracked'
      BY <1>4, <2>1, <2>2, <2>5, <2>6, <2>8, <3>2, MaintainedTracked
    <3> QED
      BY <3>1, <3>2, <3>3 DEF Kept
  <2> QED
    BY <1>4, <2>7, <2>8 DEF SnapNext, Maintaining
<1>5. ASSUME First', UNCHANGED allVars PROVE Kept'
  <2>1. UNCHANGED <<vars, restored, opens, failures, crashes, journal, log, pc>>
    BY <1>5 DEF allVars, vars, snapVars
  <2>2. First
    BY <1>5, <2>1 DEF First
  <2>3. LogWhole /\ Emptied /\ (Outside => Tracked) /\ Live
    BY <1>2, <2>2 DEF ImageInv, PointedInv, SnapInv, Kept
  <2>4. LogWhole'
    <3>1. Running' => Running
      BY <2>1 DEF Running
    <3>2. Running => LogWhole'
      BY <2>1, <2>3, LogWholeSame
    <3> QED
      BY <3>1, <3>2 DEF LogWhole
  <2>5. Emptied'
    BY <2>1, <2>3 DEF Emptied
  <2>6. Outside' => Tracked'
    <3> SUFFICES ASSUME Outside' PROVE Tracked'
      OBVIOUS
    <3>1. Outside /\ Tracked
      BY <2>1, <2>3 DEF Outside
    <3>2. CASE Running
      <4>1. Steady /\ [Next]_vars /\ ~ Opening
        <5>1. opens' = opens /\ (Opening => opens' = opens + 1) /\ opens = 1
          BY <2>1, <2>2 DEF Opening, Open, First
        <5> QED
          BY <2>1, <2>3, <3>1, <5>1 DEF Steady, Outside
      <4> QED
        BY <1>5, <3>1, <3>2, <4>1, RunningTracked DEF First
    <3>3. CASE ~ Running
      <4>1. opens' = 1 /\ opens \in Nat \ {0} /\ [Next]_vars
        BY <1>5, <2>1, <2>2 DEF First
      <4> QED
        BY <3>1, <3>3, <4>1, ClosedStays
    <3> QED
      BY <3>2, <3>3
  <2> QED
    BY <2>4, <2>5, <2>6 DEF Kept
<1> QED
  BY <1>1, <1>4, <1>5 DEF ImageInv

\* A new volume.
LEMMA SnapInitTracked == SnapInit => ImageInv
<1> SUFFICES ASSUME SnapInit PROVE ImageInv
  OBVIOUS
<1>1. PointedInv
  BY SnapInitPointed
<1>2. Tracked /\ pc = "ready" /\ restored = "never"
  BY InitTracked DEF SnapInit, CrashInv, Init
<1>3. LogWhole
  BY <1>2 DEF LogWhole, Tracked, LogGood
<1>4. Emptied
  BY <1>2 DEF Emptied
<1> QED
  BY <1>1, <1>2, <1>3, <1>4 DEF ImageInv, Kept

\* In the first session, at any file write but those of a compaction and the
\* switch of a restore, the file opens to everything acknowledged (persist.rs
\* open, write_index, snapshot, restore_snapshot), as long as no call failed
\* and what is logged is not from before a restore.  TablesFit and
\* SnapshotTableFits are essential, as in CrashImageIsComplete.
THEOREM CrashImageWithMaintenance == SnapSpec => [](crashes = 0 => CrashImageOutsideCompaction)
<1>1. SnapInit => ImageInv
  BY SnapInitTracked
<1>2. ImageInv /\ [SnapNext]_allVars => ImageInv'
  BY ImageNext
<1>3. ImageInv => (crashes = 0 => CrashImageOutsideCompaction)
  <2> SUFFICES ASSUME ImageInv, First, Outside, NEW id \in Ids
               PROVE  Visible(Opened, id) = expected[id]
    BY DEF CrashImageOutsideCompaction, First, Outside
  <2>1. Live /\ Tracked /\ LogWhole
    BY DEF First, Healthy, Undamaged, CountsKnown, ImageInv, PointedInv, SnapInv, Kept
  <2>2. /\ disk \in Disks /\ ToReplay \in Seq(Ops) /\ FileTells
        /\ expected \in [Ids -> (SUBSET Dims) \cup {None}]
    <3>1. CASE Running
      <4>1. Steady
        BY <2>1 DEF Steady, Outside
      <4>2. FileTells
        BY <2>1, <3>1, <4>1, FileTellsRunning
      <4>3. ToReplay \in Seq(Ops)
        BY <2>1, <3>1, CodecHolds, Codec!JournaledRecovers DEF LogWhole
      <4> QED
        BY <2>1, <4>2, <4>3 DEF Live, PersistTypes, Disks
    <3>2. CASE ~ Running
      BY <2>1, <3>2 DEF Tracked
    <3> QED
      BY <3>1, <3>2
  <2> QED
    BY <2>1, <2>2, ImageComplete DEF Tracked
<1> QED
  BY <1>1, <1>2, <1>3, PTL DEF SnapSpec
=============================================================================
