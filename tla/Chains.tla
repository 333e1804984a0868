------------------------------- MODULE Chains -------------------------------
(***************************************************************************)
(* The particle index as a chain of pages (persist.rs write_index).  The   *)
(* blocks of the old chain are freed in memory, the new one takes the      *)
(* lowest free ones, often the same, and each page is a file write of its  *)
(* own; the superblock follows.  The dedup table and the snapshot table    *)
(* are written by the same code.                                           *)
(* A table is a list of fields: the number of entries, then an id and a    *)
(* block for each.  A page of the code has room for the same number of     *)
(* fields whatever they are (4080 bytes are 102 entries of 40): every page *)
(* begins with a number, and an entry may be split between two pages.      *)
(***************************************************************************)
EXTENDS Naturals, Sequences, SequencesExt, FiniteSets, FiniteSetsExt

CONSTANTS
  Particles,    \* ids, numbers: the index keeps them in order
  PageFields,   \* fields of a page
  ChainBlocks,  \* data blocks 1 .. ChainBlocks; 0 is the null pointer
  MaxChainCalls \* bound: calls that change particles or write the index

ASSUME ChainsAssumption ==
  /\ Particles \subseteq Nat
  /\ PageFields \in Nat \ {0} /\ PageFields % 2 = 0
  /\ ChainBlocks \in Nat /\ MaxChainCalls \in Nat

VARIABLES
  entries,    \* particle_index: the block of each particle's leaf, or 0
  allocated,  \* blocks used in the bitmap of memory
  head,       \* particle_index_block, in memory and on disk
  pages,      \* the data blocks of the file
  writing,    \* the chain being written: blocks, pages done, blocks of the old one
  saved,      \* history: the index as it was last written to the end
  failed,     \* history: a chain could not be allocated
  chain_calls

chainVars == <<entries, allocated, head, pages, writing, saved, failed, chain_calls>>

DataPages == 1 .. ChainBlocks
NotWriting == [blocks |-> << >>, done |-> 0, old |-> {}]

EmptyPage == [kind |-> "none", fields |-> << >>, next |-> 0]
Leaf(id) == [kind |-> "leaf", fields |-> <<id>>, next |-> 0]
TablePiece(fields, next) == [kind |-> "table", fields |-> fields, next |-> next]

Ascending(set) ==
  [k \in 1 .. Cardinality(set) |-> CHOOSE x \in set : Cardinality({y \in set : y < x}) = k - 1]

Lowest(n, set) == SubSeq(Ascending(set), 1, n)

-----------------------------------------------------------------------------
(* Writing and reading tables.                                             *)

IdsIn(t) == {id \in Particles : t[id] # 0}

FieldsOf(t) ==
  LET ids == Ascending(IdsIn(t))
  IN  [k \in 1 .. 2 * Len(ids) + 1 |->
         IF k = 1 THEN Len(ids) ELSE IF k % 2 = 0 THEN ids[k \div 2] ELSE t[ids[k \div 2]]]

PagesOf(t) == (Len(FieldsOf(t)) + PageFields - 1) \div PageFields

PageFieldsOf(t, i) ==
  LET fields == FieldsOf(t)
  IN  SubSeq(fields, (i - 1) * PageFields + 1, Min({i * PageFields, Len(fields)}))

\* Chains are allocated upwards, so no next page comes before its own.
ChainFrom(b) ==
  LET chain[x \in 0 .. ChainBlocks] == IF x = 0 THEN << >> ELSE <<x>> \o chain[pages[x].next]
  IN  chain[b]

\* read_index: as many entries as the first field says and the pages have; of two
\* for one id the last counts.  A page of another kind has none.
TableAt(b) ==
  LET chain == ChainFrom(b)
      fields == FlattenSeq([i \in DOMAIN chain |->
                              IF pages[chain[i]].kind = "table" THEN pages[chain[i]].fields
                              ELSE << >>])
      places(id) == {i \in 1 .. (Len(fields) - 1) \div 2 : i <= fields[1] /\ fields[2 * i] = id}
  IN  [id \in Particles |->
         IF Len(fields) < 3 \/ places(id) = {} THEN 0 ELSE fields[2 * Max(places(id)) + 1]]

-----------------------------------------------------------------------------
ChainInit ==
  /\ entries = [id \in Particles |-> 0]
  /\ allocated = {} /\ head = 0
  /\ pages = [b \in DataPages |-> EmptyPage]
  /\ writing = NotWriting
  /\ saved = entries /\ failed = FALSE
  /\ chain_calls = 0

ChainCall ==
  /\ writing = NotWriting
  /\ chain_calls < MaxChainCalls
  /\ chain_calls' = chain_calls + 1

\* A particle is written by a sync; the leaf it had before stays allocated.
SaveParticle(id) ==
  /\ ChainCall
  /\ DataPages \ allocated # {}
  /\ LET new == Min(DataPages \ allocated)
     IN  /\ allocated' = allocated \cup {new}
         /\ pages' = [pages EXCEPT ![new] = Leaf(id)]
         /\ entries' = [entries EXCEPT ![id] = new]
  /\ UNCHANGED <<head, writing, saved, failed>>

RemoveParticle(id) ==
  /\ ChainCall
  /\ entries[id] # 0
  /\ allocated' = allocated \ {entries[id]}
  /\ entries' = [entries EXCEPT ![id] = 0]
  /\ UNCHANGED <<head, pages, writing, saved, failed>>

\* Mutant: the superblock names the chain before its pages are written.
BeginWithHead ==
  /\ ChainCall
  /\ LET old == Range(ChainFrom(head))
         free == (DataPages \ allocated) \cup old
         blocks == Lowest(PagesOf(entries), free)
     IN  /\ Cardinality(free) >= PagesOf(entries)
         /\ allocated' = (allocated \ old) \cup Range(blocks)
         /\ writing' = [blocks |-> blocks, done |-> 0, old |-> old]
         /\ head' = blocks[1]
  /\ UNCHANGED <<entries, pages, saved, failed>>

\* write_index up to the first page: free_index_chain, then alloc_block for each
\* page.  When they run out, those taken so far stay allocated and the
\* superblock names a chain that is free.
BeginTable ==
  /\ ChainCall
  /\ LET old == Range(ChainFrom(head))
         free == (DataPages \ allocated) \cup old
         blocks == Lowest(PagesOf(entries), free)
     IN  IF Cardinality(free) >= PagesOf(entries)
         THEN /\ allocated' = (allocated \ old) \cup Range(blocks)
              /\ writing' = [blocks |-> blocks, done |-> 0, old |-> old]
              /\ UNCHANGED failed
         ELSE /\ allocated' = allocated \cup free
              /\ failed' = TRUE
              /\ UNCHANGED writing
  /\ UNCHANGED <<entries, head, pages, saved>>

WritePage ==
  /\ writing.done < Len(writing.blocks)
  /\ LET i == writing.done + 1
         next == IF i < Len(writing.blocks) THEN writing.blocks[i + 1] ELSE 0
     IN  /\ pages' = [pages EXCEPT ![writing.blocks[i]] =
                                     TablePiece(PageFieldsOf(entries, i), next)]
         /\ writing' = [writing EXCEPT !.done = i]
  /\ UNCHANGED <<entries, allocated, head, saved, failed, chain_calls>>

\* set_particle_index_block and write_superblock
WriteHead ==
  /\ writing # NotWriting
  /\ writing.done = Len(writing.blocks)
  /\ head' = writing.blocks[1]
  /\ writing' = NotWriting
  /\ saved' = entries
  /\ UNCHANGED <<entries, allocated, pages, failed, chain_calls>>

ChainNext ==
  \/ \E id \in Particles : SaveParticle(id) \/ RemoveParticle(id)
  \/ BeginTable \/ WritePage \/ WriteHead

ChainSpec == ChainInit /\ [][ChainNext]_chainVars

-----------------------------------------------------------------------------
InPlace == Range(writing.blocks) \cap writing.old # {}
OnePage == PagesOf(saved) = 1 /\ PagesOf(entries) = 1

\* A process that opens the file finds the index as it was last written, however
\* its pages lie and entries are split between them.  While the next one is
\* being written it finds one of the two, at every file write, unless the new
\* chain has more than one page or replaces one that has, and takes blocks of it.
TablesReadBack ==
  ~failed =>
    IF writing = NotWriting THEN TableAt(head) = saved
    ELSE (OnePage \/ ~InPlace) => TableAt(head) \in {saved, entries}

\* "Crash-safe journaling with recovery replay" (CHANGELOG.md:41): a particle that
\* was synced, and so is in the log no more, is found by whoever opens the file
\* after a crash, in the middle of a later sync too.
SyncedAreFound ==
  ~failed => \A id \in IdsIn(saved) :
    entries[id] = saved[id] =>
      /\ TableAt(head)[id] \in DataPages
      /\ pages[TableAt(head)[id]] = Leaf(id)
=============================================================================
