---------------------------- MODULE BlockBitmap ----------------------------
(***************************************************************************)
(* The free-space bitmap of a DEFS volume (alloc_bitmap.rs).  The vector   *)
(* of bytes is the set `bits' of positions whose bit is 1; the vector is   *)
(* rounded up to whole bytes, so positions TotalBlocks and above exist in  *)
(* the last byte when the block count is no multiple of the byte size.     *)
(***************************************************************************)
EXTENDS Integers, FiniteSets

CONSTANTS
  TotalBlocks,  \* blocks of the volume
  ByteBits      \* bits of one byte of the bitmap (8 in the code)

\* A volume holds a whole number of megabytes of 4096-byte blocks, hence a
\* multiple of 256 blocks (Volume::create).
ASSUME BitmapAssumption ==
  /\ TotalBlocks \in Nat \ {0}
  /\ ByteBits \in Nat \ {0}
  /\ TotalBlocks % ByteBits = 0

VARIABLES
  bits,         \* positions marked used
  free_count    \* running count of free blocks

bitmapVars == <<bits, free_count>>

Blocks == 0 .. TotalBlocks - 1

\* Positions that have a bit: every bit of ceil(TotalBlocks / ByteBits) bytes.
Positions ==
  0 .. ((TotalBlocks + (ByteBits - 1)) \div ByteBits) * ByteBits - 1

\* is_free: a position past the last byte is not free.
IsFreeIn(used, b) == b \in Positions /\ b \notin used
IsFree(b) == IsFreeIn(bits, b)

FreeBlocks(used) == {b \in Blocks : IsFreeIn(used, b)}

-----------------------------------------------------------------------------
BitmapInit ==
  /\ bits = {}
  /\ free_count = TotalBlocks

MarkUsed(b) ==
  /\ bits' = IF IsFree(b) THEN bits \cup {b} ELSE bits
  /\ free_count' = IF IsFree(b) THEN free_count - 1 ELSE free_count

\* Mutant: freeing a free block counts it as well.
MarkFreeAgain(b) ==
  /\ bits' = bits \ {b}
  /\ free_count' = free_count + 1

MarkFree(b) ==
  /\ bits' = bits \ {b}
  /\ free_count' = IF b \in bits THEN free_count + 1 ELSE free_count

\* alloc_one hands out the lowest free block; with none the caller gets None
\* and nothing changes.
IsLowestFree(used, b) ==
  /\ b \in FreeBlocks(used)
  /\ \A c \in FreeBlocks(used) : b <= c

AllocOne(b) ==
  /\ IsLowestFree(bits, b)
  /\ MarkUsed(b)

\* Mutant: only the ends of the run are looked at.
IsRunByEnds(used, s, n) == IsFreeIn(used, s) /\ IsFreeIn(used, s + n - 1)

\* alloc_contiguous: the first run of n free positions.  Its loop examines
\* positions up to and including TotalBlocks.
IsRun(used, s, n) ==
  \A i \in s .. s + n - 1 : IsFreeIn(used, i) /\ i <= TotalBlocks

AllocContiguous(s, n) ==
  /\ IsRun(bits, s, n)
  /\ \A t \in Blocks : IsRun(bits, t, n) => s <= t
  /\ bits' = bits \cup (s .. s + n - 1)
  /\ free_count' = free_count - n

FreeRange(s, n) ==
  /\ bits' = bits \ (s .. s + n - 1)
  /\ free_count' = free_count + Cardinality(bits \cap (s .. s + n - 1))

RecountFree ==
  /\ free_count' = Cardinality(FreeBlocks(bits))
  /\ UNCHANGED bits

BitmapNext ==
  \/ \E b \in Positions : MarkUsed(b) \/ MarkFree(b)
  \/ \E b \in Blocks : AllocOne(b)
  \/ \E s \in Blocks, n \in 1 .. TotalBlocks :
        AllocContiguous(s, n) \/ FreeRange(s, n)
  \/ RecountFree

BitmapSpec == BitmapInit /\ [][BitmapNext]_bitmapVars

-----------------------------------------------------------------------------
\* Mutant: a used position does not start the run again.
ScanAcross(used, count) ==
  LET scan[p \in 0 .. TotalBlocks + 1] ==
        [found \in 0 .. count - 1 |->
           IF p > TotalBlocks THEN -1
           ELSE IF ~IsFreeIn(used, p) THEN scan[p + 1][found]
           ELSE IF found + 1 = count THEN p - found
           ELSE scan[p + 1][found + 1]]
  IN  scan[0][0]

(***************************************************************************)
(* The scanning loop of alloc_contiguous as it is written: `start' and     *)
(* `found' advance together, and a used position moves `start' past it.    *)
(* -1 stands for None.                                                     *)
(***************************************************************************)
ScanRun(used, count) ==
  LET scan[p \in 0 .. TotalBlocks + 1] ==
        \* p is start + found, the position the loop examines
        [found \in 0 .. count - 1 |->
           IF p > TotalBlocks THEN -1
           ELSE IF ~IsFreeIn(used, p) THEN scan[p + 1][0]
           ELSE IF found + 1 = count THEN p - found
           ELSE scan[p + 1][found + 1]]
  IN  scan[0][0]

-----------------------------------------------------------------------------
BitmapTypeOK ==
  /\ bits \subseteq Positions
  /\ free_count \in Nat

\* The running count equals what recount_free would find: mark_used,
\* mark_free and the range operations count each block exactly once, also
\* when a block is marked twice, freed twice or freed as part of a range that
\* is only partly in use (Volume::info and alloc decisions rely on the count).
FreeCountExact == free_count = Cardinality(FreeBlocks(bits))

\* The loop of alloc_contiguous finds a run exactly when the volume has one,
\* and then the lowest: restarting after a used block skips no candidate, and
\* no run reaches past the last block although the loop bound admits it.
ScanFindsLowestRun ==
  \A n \in 1 .. TotalBlocks :
    LET fits == {s \in Blocks : (s .. s + n - 1) \subseteq FreeBlocks(bits)}
        s == ScanRun(bits, n)
    IN  IF fits = {} THEN s = -1
        ELSE s \in fits /\ \A t \in fits : s <= t

\* No step makes a used block part of a new allocation: whenever the count
\* falls by k, exactly k blocks that were free have become used.
AllocationsAreFresh ==
  [][free_count' < free_count =>
       Cardinality(bits' \ bits) = free_count - free_count'
       /\ bits \subseteq bits']_bitmapVars
=============================================================================
