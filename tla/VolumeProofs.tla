---------------------------- MODULE VolumeProofs ----------------------------
(***************************************************************************)
(* For every volume size, the running free count of the bitmap is exact,   *)
(* every allocation takes only free blocks, and the scanning loop finds    *)
(* the lowest run there is.  For every geometry and cache size of a        *)
(* volume: the cache is coherent, the free count exact, `dirty' truthful,  *)
(* what was synced durable, and the metadata blocks reserved.              *)
(***************************************************************************)
EXTENDS Volume, FiniteSetTheorems, NaturalsInduction, WellFoundedInduction, TLAPS

-----------------------------------------------------------------------------
(* The block bitmap by itself.                                             *)

\* With a whole number of bytes the bitmap has no padding bits.
LEMMA PositionsAreBlocks == Positions = Blocks
<1> DEFINE q == TotalBlocks \div ByteBits
<1>1. /\ TotalBlocks \in Int
      /\ ByteBits \in Int
      /\ ByteBits > 0
      /\ TotalBlocks % ByteBits = 0
  BY BitmapAssumption
<1>2. /\ q \in Int
      /\ TotalBlocks = ByteBits * q
  BY <1>1, SMT
<1>3. (TotalBlocks + (ByteBits - 1)) \div ByteBits = q
  BY <1>1, <1>2, SMT
<1>4. q * ByteBits = TotalBlocks
  BY <1>1, <1>2, SMT
<1> QED
  BY <1>3, <1>4 DEF Positions, Blocks

\* The free blocks of a bitmap are the blocks without a bit.
LEMMA FreeBlocksOf ==
  ASSUME NEW used
  PROVE  /\ FreeBlocks(used) = Blocks \ used
         /\ IsFiniteSet(FreeBlocks(used))
         /\ Cardinality(FreeBlocks(used)) \in 0 .. TotalBlocks
<1>1. FreeBlocks(used) = Blocks \ used
  BY PositionsAreBlocks DEF FreeBlocks, IsFreeIn
<1>2. IsFiniteSet(Blocks) /\ Cardinality(Blocks) = TotalBlocks
  BY BitmapAssumption, FS_Interval DEF Blocks
<1>3. FreeBlocks(used) \in SUBSET Blocks
  BY <1>1
<1>4. /\ IsFiniteSet(FreeBlocks(used))
      /\ Cardinality(FreeBlocks(used)) <= TotalBlocks
  BY <1>2, <1>3, FS_Subset
<1>5. Cardinality(FreeBlocks(used)) \in Nat
  BY <1>4, FS_CardinalityType
<1> QED
  BY <1>1, <1>4, <1>5, BitmapAssumption

BitmapInv == BitmapTypeOK /\ FreeCountExact

\* Marking one position keeps the count exact, whatever its bit was.
LEMMA MarkUsedExact ==
  ASSUME NEW b \in Positions, BitmapInv, MarkUsed(b)
  PROVE  BitmapInv'
<1>1. IsFiniteSet(FreeBlocks(bits)) /\ Cardinality(FreeBlocks(bits)) \in Int
  BY FreeBlocksOf
<1>2. CASE IsFree(b)
  <2>1. FreeBlocks(bits') = FreeBlocks(bits) \ {b} /\ b \in FreeBlocks(bits)
    BY <1>2, FreeBlocksOf, PositionsAreBlocks
       DEF MarkUsed, IsFree, IsFreeIn
  <2>2. Cardinality(FreeBlocks(bits')) = Cardinality(FreeBlocks(bits)) - 1
    BY <1>1, <2>1, FS_RemoveElement
  <2>3. Cardinality(FreeBlocks(bits')) \in Nat
    BY <1>1, <2>1, FS_RemoveElement, FS_CardinalityType
  <2> QED
    BY <1>1, <1>2, <2>2, <2>3
       DEF MarkUsed, BitmapInv, BitmapTypeOK, FreeCountExact
<1>3. CASE ~IsFree(b)
  BY <1>3 DEF MarkUsed, BitmapInv, BitmapTypeOK, FreeCountExact
<1> QED
  BY <1>2, <1>3

\* Freeing a block keeps the count exact, freeing a free one too.
LEMMA MarkFreeExact ==
  ASSUME NEW b, BitmapInv, MarkFree(b)
  PROVE  BitmapInv'
<1>1. IsFiniteSet(FreeBlocks(bits)) /\ Cardinality(FreeBlocks(bits)) \in Int
  BY FreeBlocksOf
<1>2. CASE b \in bits
  <2>1. b \in Blocks
    BY <1>2, PositionsAreBlocks DEF BitmapInv, BitmapTypeOK
  <2>2. FreeBlocks(bits') = FreeBlocks(bits) \cup {b} /\ b \notin FreeBlocks(bits)
    BY <1>2, <2>1, FreeBlocksOf DEF MarkFree
  <2>3. Cardinality(FreeBlocks(bits')) = Cardinality(FreeBlocks(bits)) + 1
    BY <1>1, <2>2, FS_AddElement
  <2> QED
    BY <1>1, <1>2, <2>3
       DEF MarkFree, BitmapInv, BitmapTypeOK, FreeCountExact
<1>3. CASE b \notin bits
  BY <1>3 DEF MarkFree, BitmapInv, BitmapTypeOK, FreeCountExact
<1> QED
  BY <1>2, <1>3

\* A run found by alloc_contiguous lies inside the volume, so taking it
\* removes exactly n free blocks.
LEMMA AllocContiguousExact ==
  ASSUME NEW s \in Blocks, NEW n \in 1 .. TotalBlocks, BitmapInv,
         AllocContiguous(s, n)
  PROVE  /\ BitmapInv'
         /\ s .. s + n - 1 \subseteq FreeBlocks(bits)
<1> DEFINE run == s .. s + n - 1
<1>1. /\ s \in Int /\ n \in Int /\ n >= 1
  BY BitmapAssumption DEF Blocks
<1>2. run \subseteq FreeBlocks(bits)
  BY PositionsAreBlocks, FreeBlocksOf DEF AllocContiguous, IsRun, IsFreeIn
<1>3. IsFiniteSet(run) /\ Cardinality(run) = n
  BY <1>1, FS_Interval
<1>4. FreeBlocks(bits') = FreeBlocks(bits) \ run
  BY FreeBlocksOf DEF AllocContiguous
<1>5. FreeBlocks(bits) \cap run = run
  BY <1>2
<1>6. Cardinality(FreeBlocks(bits')) = Cardinality(FreeBlocks(bits)) - n
  <2>1. IsFiniteSet(FreeBlocks(bits))
    BY FreeBlocksOf
  <2>2. Cardinality(FreeBlocks(bits) \ run)
          = Cardinality(FreeBlocks(bits)) - Cardinality(FreeBlocks(bits) \cap run)
    BY <2>1, FS_Difference
  <2> QED
    BY <1>3, <1>4, <1>5, <2>2
<1>7. bits' \subseteq Positions
  BY <1>2, FreeBlocksOf, PositionsAreBlocks
     DEF AllocContiguous, BitmapInv, BitmapTypeOK
<1>8. free_count' = Cardinality(FreeBlocks(bits')) /\ free_count' \in Nat
  <2>1. IsFiniteSet(FreeBlocks(bits) \ run)
    BY FreeBlocksOf, FS_Difference
  <2>2. Cardinality(FreeBlocks(bits')) \in Nat
    BY <1>4, <2>1, FS_CardinalityType
  <2> QED
    BY <1>1, <1>6, <2>2 DEF AllocContiguous, BitmapInv, FreeCountExact
<1> QED
  BY <1>2, <1>7, <1>8 DEF BitmapInv, BitmapTypeOK, FreeCountExact

\* Freeing a range counts only the blocks of it that were in use.
LEMMA FreeRangeExact ==
  ASSUME NEW s, NEW n, BitmapInv, FreeRange(s, n)
  PROVE  BitmapInv'
<1> DEFINE freed == bits \cap (s .. s + n - 1)
<1>1. freed \subseteq Blocks
  BY PositionsAreBlocks DEF BitmapInv, BitmapTypeOK
<1>2. IsFiniteSet(freed) /\ Cardinality(freed) \in Nat
  <2>1. IsFiniteSet(Blocks)
    BY BitmapAssumption, FS_Interval DEF Blocks
  <2>2. IsFiniteSet(freed)
    BY <1>1, <2>1, FS_Subset
  <2> QED
    BY <2>2, FS_CardinalityType
<1>3. FreeBlocks(bits') = FreeBlocks(bits) \cup freed
  BY <1>1, FreeBlocksOf DEF FreeRange
<1>4. FreeBlocks(bits) \cap freed = {}
  BY FreeBlocksOf
<1>5. Cardinality(FreeBlocks(bits')) = Cardinality(FreeBlocks(bits)) + Cardinality(freed)
  <2>1. /\ Cardinality(FreeBlocks(bits) \cup freed)
             = Cardinality(FreeBlocks(bits)) + Cardinality(freed)
                 - Cardinality(FreeBlocks(bits) \cap freed)
    BY <1>2, FreeBlocksOf, FS_Union
  <2>2. Cardinality(FreeBlocks(bits) \cap freed) = 0
    BY <1>4, FS_EmptySet
  <2>3. Cardinality(FreeBlocks(bits)) \in Int
    BY FreeBlocksOf
  <2> QED
    BY <1>2, <1>3, <2>1, <2>2, <2>3
<1>6. free_count' = Cardinality(FreeBlocks(bits'))
  BY <1>5 DEF FreeRange, BitmapInv, FreeCountExact
<1>7. free_count' \in Nat
  BY <1>2, FreeBlocksOf DEF FreeRange, BitmapInv, BitmapTypeOK
<1>8. bits' \subseteq Positions
  BY DEF FreeRange, BitmapInv, BitmapTypeOK
<1> QED
  BY <1>6, <1>7, <1>8 DEF BitmapInv, BitmapTypeOK, FreeCountExact

\* Counting again gives what the count already was.
LEMMA RecountExact ==
  ASSUME BitmapInv, RecountFree
  PROVE  BitmapInv'
<1>1. Cardinality(FreeBlocks(bits)) \in Int
  BY FreeBlocksOf
<1> QED
  BY <1>1 DEF RecountFree, BitmapInv, BitmapTypeOK, FreeCountExact

\* At first every block is free, and counted so.
LEMMA BitmapInitInv == BitmapInit => BitmapInv
<1> SUFFICES ASSUME BitmapInit PROVE BitmapInv
  OBVIOUS
<1>1. FreeBlocks(bits) = Blocks
  BY FreeBlocksOf DEF BitmapInit
<1>2. Cardinality(Blocks) = TotalBlocks
  BY BitmapAssumption, FS_Interval DEF Blocks
<1> QED
  BY <1>1, <1>2, BitmapAssumption
     DEF BitmapInit, BitmapInv, BitmapTypeOK, FreeCountExact

\* Every operation of the bitmap keeps the count exact.
LEMMA BitmapNextInv == BitmapInv /\ [BitmapNext]_bitmapVars => BitmapInv'
<1> SUFFICES ASSUME BitmapInv, [BitmapNext]_bitmapVars
             PROVE  BitmapInv'
  OBVIOUS
<1>1. CASE \E b \in Positions : MarkUsed(b) \/ MarkFree(b)
  BY <1>1, MarkUsedExact, MarkFreeExact
<1>2. CASE \E b \in Blocks : AllocOne(b)
  BY <1>2, MarkUsedExact, PositionsAreBlocks DEF AllocOne
<1>3. CASE \E s \in Blocks, n \in 1 .. TotalBlocks :
              AllocContiguous(s, n) \/ FreeRange(s, n)
  BY <1>3, AllocContiguousExact, FreeRangeExact
<1>4. CASE RecountFree
  BY <1>4, RecountExact
<1>5. CASE UNCHANGED bitmapVars
  BY <1>5 DEF bitmapVars, BitmapInv, BitmapTypeOK, FreeCountExact
<1> QED
  BY <1>1, <1>2, <1>3, <1>4, <1>5 DEF BitmapNext

\* The running count is exact in every reachable state of every volume.
THEOREM FreeCountIsExact == BitmapSpec => []FreeCountExact
<1>1. BitmapInit => BitmapInv
  BY BitmapInitInv
<1>2. BitmapInv /\ [BitmapNext]_bitmapVars => BitmapInv'
  BY BitmapNextInv
<1>3. BitmapInv => FreeCountExact
  BY DEF BitmapInv
<1> QED
  BY <1>1, <1>2, <1>3, PTL DEF BitmapSpec

FreshStep ==
  free_count' < free_count =>
    /\ Cardinality(bits' \ bits) = free_count - free_count'
    /\ bits \subseteq bits'

\* Marking a block uses up one free block at most, and gives none back.
LEMMA MarkUsedFresh ==
  ASSUME NEW b, BitmapInv, MarkUsed(b)
  PROVE  FreshStep
<1>1. free_count \in Int
  BY DEF BitmapInv, BitmapTypeOK
<1>2. CASE IsFree(b)
  <2>1. bits' \ bits = {b}
    BY <1>2 DEF MarkUsed, IsFree, IsFreeIn
  <2>2. Cardinality(bits' \ bits) = 1
    BY <2>1, FS_Singleton
  <2> QED
    BY <1>1, <1>2, <2>2 DEF MarkUsed, FreshStep
<1>3. CASE ~IsFree(b)
  BY <1>1, <1>3 DEF MarkUsed, FreshStep
<1> QED
  BY <1>2, <1>3

\* A run uses up as many free blocks as it has, and gives none back.
LEMMA AllocContiguousFresh ==
  ASSUME NEW s \in Blocks, NEW n \in 1 .. TotalBlocks, BitmapInv,
         AllocContiguous(s, n)
  PROVE  FreshStep
<1>1. /\ s \in Int /\ n \in Int /\ n >= 1
  BY BitmapAssumption DEF Blocks
<1>2. s .. s + n - 1 \subseteq Blocks \ bits
  BY AllocContiguousExact, FreeBlocksOf
<1>3. bits' \ bits = s .. s + n - 1
  BY <1>2 DEF AllocContiguous
<1>4. Cardinality(bits' \ bits) = n
  <2>1. Cardinality(s .. s + n - 1) = n
    BY <1>1, FS_Interval
  <2> QED
    BY <1>3, <2>1
<1>5. free_count' = free_count - n /\ free_count \in Int
  BY DEF AllocContiguous, BitmapInv, BitmapTypeOK
<1>6. bits \subseteq bits'
  BY DEF AllocContiguous
<1> QED
  BY <1>1, <1>4, <1>5, <1>6 DEF FreshStep

\* The freeing and recounting operations never lower the count.
LEMMA OthersNeverAllocate ==
  ASSUME NEW b, NEW s, NEW n, BitmapInv,
         \/ MarkFree(b)
         \/ FreeRange(s, n)
         \/ RecountFree
         \/ UNCHANGED bitmapVars
  PROVE  ~(free_count' < free_count)
<1>1. free_count \in Int
  BY DEF BitmapInv, BitmapTypeOK
<1>2. CASE FreeRange(s, n)
  <2> DEFINE freed == bits \cap (s .. s + n - 1)
  <2>1. freed \subseteq Blocks
    BY PositionsAreBlocks DEF BitmapInv, BitmapTypeOK
  <2>2. IsFiniteSet(Blocks)
    BY BitmapAssumption, FS_Interval DEF Blocks
  <2>3. Cardinality(freed) \in Nat
    BY <2>1, <2>2, FS_Subset, FS_CardinalityType
  <2>4. free_count' = free_count + Cardinality(freed)
    BY <1>2 DEF FreeRange
  <2> QED
    BY <1>1, <2>3, <2>4
<1>3. CASE MarkFree(b) \/ RecountFree \/ UNCHANGED bitmapVars
  BY <1>1, <1>3
     DEF MarkFree, RecountFree, bitmapVars, BitmapInv, FreeCountExact
<1> QED
  BY <1>2, <1>3

\* No step of any volume hands out a block that is in use.
THEOREM AllocationsTakeFreeBlocks == BitmapSpec => AllocationsAreFresh
<1>1. BitmapInv /\ [BitmapNext]_bitmapVars => [FreshStep]_bitmapVars
  <2> SUFFICES ASSUME BitmapInv, BitmapNext
               PROVE  FreshStep
    OBVIOUS
  <2>1. CASE \E b \in Positions : MarkUsed(b) \/ MarkFree(b)
    BY <2>1, MarkUsedFresh, OthersNeverAllocate DEF FreshStep
  <2>2. CASE \E b \in Blocks : AllocOne(b)
    BY <2>2, MarkUsedFresh DEF AllocOne
  <2>3. CASE \E s \in Blocks, n \in 1 .. TotalBlocks :
                AllocContiguous(s, n) \/ FreeRange(s, n)
    BY <2>3, AllocContiguousFresh, OthersNeverAllocate DEF FreshStep
  <2>4. CASE RecountFree
    BY <2>4, OthersNeverAllocate DEF FreshStep
  <2> QED
    BY <2>1, <2>2, <2>3, <2>4 DEF BitmapNext
<1>2. BitmapInit => BitmapInv
  BY BitmapInitInv
<1>3. BitmapInv /\ [BitmapNext]_bitmapVars => BitmapInv'
  BY BitmapNextInv
<1> QED
  BY <1>1, <1>2, <1>3, PTL DEF BitmapSpec, AllocationsAreFresh, FreshStep

-----------------------------------------------------------------------------
(* The scanning loop of alloc_contiguous.  Having come to position p with  *)
(* `found' free blocks behind it, it may still answer with the run that    *)
(* began p - found, or with one that begins at p or later.                 *)

Candidate(used, n, p, found, s) ==
  /\ s \in Int
  /\ s = p - found \/ s >= p
  /\ \A i \in s .. s + n - 1 : i >= p => IsFreeIn(used, i)

\* The lowest of them, or -1 when there is none.
IsAnswer(used, n, p, found, v) ==
  \/ v = -1 /\ \A s \in Int : ~Candidate(used, n, p, found, s)
  \/ /\ Candidate(used, n, p, found, v)
     /\ \A s \in Int : Candidate(used, n, p, found, s) => v <= s

\* What the loop does at p, given what it answers from p + 1 on.
ScanBody(used, n, f, p, found) ==
  IF p > TotalBlocks THEN -1
  ELSE IF ~IsFreeIn(used, p) THEN f[p + 1][0]
  ELSE IF found + 1 = n THEN p - found
  ELSE f[p + 1][found + 1]

Scans(used, n, f) ==
  f = [p \in 0 .. TotalBlocks + 1 |->
         [found \in 0 .. n - 1 |-> ScanBody(used, n, f, p, found)]]

\* A set of natural numbers has a least element.
LEMMA LeastOf ==
  ASSUME NEW T \in SUBSET Nat, T # {}
  PROVE  \E x \in T : \A y \in T : x <= y
<1> DEFINE R == OpToRel(<, Nat)
<1>1. IsWellFoundedOn(R, Nat)
  BY NatLessThanWellFounded
<1>2. PICK x \in T : \A y \in T : ~ (<<y, x>> \in R)
  BY <1>1, WFMin
<1>3. \A y \in T : ~ (y < x)
  BY <1>2 DEF OpToRel
<1> QED
  BY <1>3

\* Past the last block there is nothing: a run that began earlier would
\* have to go on there.
LEMMA NoneAtTheEnd ==
  ASSUME NEW used, NEW n \in 1 .. TotalBlocks, NEW found \in 0 .. n - 1,
         NEW p \in Int, p >= TotalBlocks, NEW s \in Int
  PROVE  ~Candidate(used, n, p, found, s)
<1> SUFFICES ASSUME Candidate(used, n, p, found, s) PROVE FALSE
  OBVIOUS
<1> DEFINE i == s + n - 1
<1>1. i \in s .. s + n - 1 /\ i >= p
  BY BitmapAssumption DEF Candidate
<1>2. i \in Blocks
  BY <1>1, PositionsAreBlocks DEF Candidate, IsFreeIn
<1> QED
  BY <1>1, <1>2, BitmapAssumption DEF Blocks

\* One turn of the loop keeps the answer.
LEMMA ScanStep ==
  ASSUME NEW used, NEW n \in 1 .. TotalBlocks, NEW f,
         NEW p \in 0 .. TotalBlocks + 1, NEW found \in 0 .. n - 1,
         p <= TotalBlocks =>
           \A k \in 0 .. n - 1 : IsAnswer(used, n, p + 1, k, f[p + 1][k])
  PROVE  IsAnswer(used, n, p, found, ScanBody(used, n, f, p, found))
<1> USE BitmapAssumption
<1>1. CASE p > TotalBlocks
  BY <1>1, NoneAtTheEnd DEF IsAnswer, ScanBody
<1>2. CASE p <= TotalBlocks /\ ~IsFreeIn(used, p)
  <2>1. ASSUME NEW s \in Int
        PROVE  Candidate(used, n, p, found, s) <=> Candidate(used, n, p + 1, 0, s)
    <3>1. ASSUME Candidate(used, n, p, found, s) PROVE s >= p + 1
      <4>1. ~(p \in s .. s + n - 1)
        BY <3>1, <1>2 DEF Candidate
      <4> QED
        BY <3>1, <4>1 DEF Candidate
    <3> QED
      BY <3>1 DEF Candidate
  <2>2. ScanBody(used, n, f, p, found) = f[p + 1][0]
    BY <1>2 DEF ScanBody
  <2>3. IsAnswer(used, n, p + 1, 0, f[p + 1][0])
    BY <1>2
  <2> QED
    BY <2>1, <2>2, <2>3 DEF IsAnswer, Candidate
<1>3. CASE p <= TotalBlocks /\ IsFreeIn(used, p) /\ found + 1 = n
  <2>1. ScanBody(used, n, f, p, found) = p - found
    BY <1>3 DEF ScanBody
  <2>2. Candidate(used, n, p, found, p - found)
    BY <1>3 DEF Candidate
  <2>3. ASSUME NEW s \in Int, Candidate(used, n, p, found, s) PROVE p - found <= s
    BY <2>3 DEF Candidate
  <2> QED
    BY <2>1, <2>2, <2>3 DEF IsAnswer
<1>4. CASE p <= TotalBlocks /\ IsFreeIn(used, p) /\ found + 1 # n
  <2>1. ScanBody(used, n, f, p, found) = f[p + 1][found + 1]
    BY <1>4 DEF ScanBody
  <2>2. found + 1 \in 0 .. n - 1 /\ IsAnswer(used, n, p + 1, found + 1, f[p + 1][found + 1])
    BY <1>4
  <2>3. ASSUME NEW s \in Int, Candidate(used, n, p + 1, found + 1, s)
        PROVE  Candidate(used, n, p, found, s)
    BY <2>3, <1>4 DEF Candidate
  \* A run that begins at p is no lower than the one p goes on.
  <2>4. ASSUME NEW s \in Int, Candidate(used, n, p, found, s)
        PROVE  \E t \in Int : t <= s /\ Candidate(used, n, p + 1, found + 1, t)
    <3>1. CASE s = p
      <4>1. \A i \in p .. p + n - 1 : IsFreeIn(used, i)
        BY <3>1, <2>4 DEF Candidate
      <4>2. Candidate(used, n, p + 1, found + 1, p - found)
        BY <4>1 DEF Candidate
      <4> QED
        BY <4>2, <3>1
    <3>2. CASE s # p
      BY <3>2, <2>4 DEF Candidate
    <3> QED
      BY <3>1, <3>2
  <2> DEFINE v == f[p + 1][found + 1]
  <2>5. CASE v = -1 /\ \A s \in Int : ~Candidate(used, n, p + 1, found + 1, s)
    BY <2>1, <2>4, <2>5 DEF IsAnswer
  <2>6. CASE /\ Candidate(used, n, p + 1, found + 1, v)
             /\ \A s \in Int : Candidate(used, n, p + 1, found + 1, s) => v <= s
    <3>1. v \in Int /\ Candidate(used, n, p, found, v)
      BY <2>3, <2>6 DEF Candidate
    <3>2. ASSUME NEW s \in Int, Candidate(used, n, p, found, s) PROVE v <= s
      <4>1. PICK t \in Int : t <= s /\ Candidate(used, n, p + 1, found + 1, t)
        BY <2>4, <3>2
      <4>2. v <= t
        BY <2>6, <4>1
      <4> HIDE DEF v
      <4> QED
        BY <3>1, <4>1, <4>2
    <3> QED
      BY <2>1, <3>1, <3>2 DEF IsAnswer
  <2> QED
    BY <2>2, <2>5, <2>6 DEF IsAnswer
<1> QED
  BY <1>1, <1>2, <1>3, <1>4

\* There is an answer at every point of the loop, and only one.
LEMMA AnswerExists ==
  ASSUME NEW used, NEW n \in 1 .. TotalBlocks, NEW p \in 0 .. TotalBlocks + 1,
         NEW found \in 0 .. n - 1
  PROVE  \E v : IsAnswer(used, n, p, found, v)
<1> DEFINE low == p - found
           T == {k \in Nat : Candidate(used, n, p, found, low + k)}
<1>0. low \in Int
  BY BitmapAssumption
<1>1. \A s \in Int : Candidate(used, n, p, found, s) => s - low \in T
  <2>1. ASSUME NEW s \in Int, Candidate(used, n, p, found, s) PROVE s - low \in T
    <3>1. s - low \in Nat /\ low + (s - low) = s
      BY <2>1, BitmapAssumption DEF Candidate
    <3> QED
      BY <2>1, <3>1
  <2> QED BY <2>1
<1>2. CASE T = {}
  BY <1>1, <1>2 DEF IsAnswer
<1>3. CASE T # {}
  <2>1. PICK k \in T : \A m \in T : k <= m
    BY <1>3, LeastOf
  <2>2. ASSUME NEW s \in Int, Candidate(used, n, p, found, s) PROVE low + k <= s
    <3>1. k <= s - low
      BY <2>1, <2>2, <1>1
    <3> HIDE DEF low
    <3> QED
      BY <3>1, <1>0
  <2> QED
    BY <2>1, <2>2 DEF IsAnswer
<1> QED
  BY <1>2, <1>3

\* The scan has one answer at each position.
LEMMA AnswerUnique ==
  ASSUME NEW used, NEW n, NEW p, NEW found, NEW v, NEW w,
         IsAnswer(used, n, p, found, v), IsAnswer(used, n, p, found, w)
  PROVE  v = w
BY DEF IsAnswer, Candidate

\* The loop has a meaning: the table of the answers is as its turns say.
LEMMA ScanExists ==
  ASSUME NEW used, NEW n \in 1 .. TotalBlocks
  PROVE  \E f : Scans(used, n, f)
<1> DEFINE answer(p, found) == CHOOSE v : IsAnswer(used, n, p, found, v)
           f == [p \in 0 .. TotalBlocks + 1 |-> [found \in 0 .. n - 1 |-> answer(p, found)]]
<1>1. ASSUME NEW p \in 0 .. TotalBlocks + 1, NEW found \in 0 .. n - 1
      PROVE  IsAnswer(used, n, p, found, answer(p, found))
  BY AnswerExists
<1> HIDE DEF answer
<1>2. ASSUME NEW p \in 0 .. TotalBlocks + 1, NEW found \in 0 .. n - 1
      PROVE  f[p][found] = answer(p, found)
  OBVIOUS
<1>3. ASSUME NEW p \in 0 .. TotalBlocks + 1, NEW found \in 0 .. n - 1
      PROVE  answer(p, found) = ScanBody(used, n, f, p, found)
  <2>1. ASSUME p <= TotalBlocks, NEW k \in 0 .. n - 1
        PROVE  IsAnswer(used, n, p + 1, k, f[p + 1][k])
    <3>1. p + 1 \in 0 .. TotalBlocks + 1
      BY <2>1, BitmapAssumption
    <3> HIDE DEF f
    <3> QED
      BY <3>1, <1>1, <1>2
  <2> HIDE DEF f
  <2>2. IsAnswer(used, n, p, found, ScanBody(used, n, f, p, found))
    BY <2>1, ScanStep
  <2> QED
    BY <1>1, <2>2, AnswerUnique
<1> DEFINE g == [p \in 0 .. TotalBlocks + 1 |->
                   [found \in 0 .. n - 1 |-> ScanBody(used, n, f, p, found)]]
<1>4. f = g
  <2>1. ASSUME NEW p \in 0 .. TotalBlocks + 1
        PROVE  [found \in 0 .. n - 1 |-> answer(p, found)]
                 = [found \in 0 .. n - 1 |-> ScanBody(used, n, f, p, found)]
    <3> HIDE DEF f
    <3> QED
      BY <1>3
  <2> QED
    BY <2>1
<1> HIDE DEF f
<1> QED
  BY <1>4 DEF Scans

\* From every position on, what the loop answers is the answer.
LEMMA ScanAnswers ==
  ASSUME NEW used, NEW n \in 1 .. TotalBlocks, NEW f, Scans(used, n, f)
  PROVE  IsAnswer(used, n, 0, 0, f[0][0])
<1> DEFINE right(p) == \A k \in 0 .. n - 1 : IsAnswer(used, n, p, k, f[p][k])
           T == {d \in 0 .. TotalBlocks + 1 : ~right(TotalBlocks + 1 - d)}
<1>1. ASSUME NEW p \in 0 .. TotalBlocks + 1, NEW k \in 0 .. n - 1
      PROVE  f[p][k] = ScanBody(used, n, f, p, k)
  <2> DEFINE row(q) == [found \in 0 .. n - 1 |-> ScanBody(used, n, f, q, found)]
             table == [q \in 0 .. TotalBlocks + 1 |-> row(q)]
  <2>1. f = table
    BY DEF Scans
  <2>2. table[p] = row(p)
    BY Zenon
  <2>3. row(p)[k] = ScanBody(used, n, f, p, k)
    BY Zenon
  <2> HIDE DEF table, row
  <2> QED
    BY <2>1, <2>2, <2>3
<1>2. ASSUME NEW p \in 0 .. TotalBlocks + 1, p <= TotalBlocks => right(p + 1)
      PROVE  right(p)
  <2> SUFFICES ASSUME NEW k \in 0 .. n - 1 PROVE IsAnswer(used, n, p, k, f[p][k])
    OBVIOUS
  <2>1. IsAnswer(used, n, p, k, ScanBody(used, n, f, p, k))
    BY <1>2, ScanStep
  <2> QED
    BY <2>1, <1>1
<1> HIDE DEF right
<1>3. T = {}
  <2> SUFFICES ASSUME T # {} PROVE FALSE
    OBVIOUS
  <2>1. PICK d \in T : \A e \in T : d <= e
    <3>1. T \in SUBSET Nat
      BY BitmapAssumption
    <3> QED
      BY <3>1, LeastOf
  <2> DEFINE p == TotalBlocks + 1 - d
  <2>2. p \in 0 .. TotalBlocks + 1 /\ ~right(p)
    BY <2>1, BitmapAssumption
  <2>3. ASSUME p <= TotalBlocks PROVE right(p + 1)
    <3>1. d - 1 \in 0 .. TotalBlocks + 1 /\ TotalBlocks + 1 - (d - 1) = p + 1 /\ ~(d <= d - 1)
      BY <2>1, <2>3, BitmapAssumption
    <3>2. d - 1 \notin T
      BY <2>1, <3>1
    <3> QED
      BY <3>1, <3>2
  <2> QED
    BY <1>2, <2>2, <2>3
<1>4. TotalBlocks + 1 \in 0 .. TotalBlocks + 1 /\ TotalBlocks + 1 - (TotalBlocks + 1) = 0
  BY BitmapAssumption
<1>5. right(0)
  BY <1>3, <1>4
<1> QED
  BY <1>5, BitmapAssumption DEF right

\* The loop of alloc_contiguous (alloc_bitmap.rs:69) finds a run exactly when
\* the volume has one, and then the lowest, in every state of every volume.
THEOREM ScanIsRight == BitmapSpec => []ScanFindsLowestRun
<1>1. ScanFindsLowestRun
  <2> SUFFICES ASSUME NEW n \in 1 .. TotalBlocks
               PROVE  LET fits == {s \in Blocks : (s .. s + n - 1) \subseteq FreeBlocks(bits)}
                          s == ScanRun(bits, n)
                      IN  IF fits = {} THEN s = -1
                          ELSE s \in fits /\ \A t \in fits : s <= t
    BY DEF ScanFindsLowestRun
  <2> DEFINE f == CHOOSE f : Scans(bits, n, f)
             fits == {s \in Blocks : (s .. s + n - 1) \subseteq FreeBlocks(bits)}
             v == f[0][0]
  <2>1. Scans(bits, n, f)
    BY ScanExists
  <2>2. ScanRun(bits, n) = v
    BY DEF ScanRun, Scans, ScanBody
  <2>3. IsAnswer(bits, n, 0, 0, v)
    <3> HIDE DEF f
    <3> QED BY <2>1, ScanAnswers
  <2>4. ASSUME NEW s \in Int PROVE Candidate(bits, n, 0, 0, s) <=> s \in fits
    <3>1. FreeBlocks(bits) = Blocks \ bits
      BY FreeBlocksOf
    <3>2. \A i : IsFreeIn(bits, i) <=> i \in FreeBlocks(bits)
      BY <3>1, PositionsAreBlocks DEF IsFreeIn
    <3>3. s \in s .. s + n - 1
      BY BitmapAssumption
    <3>4. ASSUME Candidate(bits, n, 0, 0, s) PROVE s \in fits
      <4>1. \A i \in s .. s + n - 1 : IsFreeIn(bits, i)
        BY <3>4, BitmapAssumption DEF Candidate
      <4>2. s \in Blocks
        BY <4>1, <3>1, <3>2, <3>3
      <4> QED
        BY <4>1, <4>2, <3>2
    <3>5. ASSUME s \in fits PROVE Candidate(bits, n, 0, 0, s)
      <4>1. \A i \in s .. s + n - 1 : IsFreeIn(bits, i)
        BY <3>5, <3>2
      <4>2. s >= 0
        BY <3>5, BitmapAssumption DEF Blocks
      <4> QED
        BY <4>1, <4>2 DEF Candidate
    <3> QED
      BY <3>4, <3>5
  <2>5. fits \subseteq Int
    BY BitmapAssumption DEF Blocks
  <2> HIDE DEF f, v, fits
  <2>6. IF fits = {} THEN v = -1 ELSE v \in fits /\ \A t \in fits : v <= t
    BY <2>3, <2>4, <2>5 DEF IsAnswer, Candidate
  <2> QED
    BY <2>2, <2>6 DEF fits
<1> QED
  BY <1>1, PTL

-----------------------------------------------------------------------------
(* The volume.                                                             *)

SystemRange == 0 .. SystemBlocks - 1

\* While a sync is under way, what it has written so far matches memory.
SyncProgress ==
  /\ mode \in {"sync_bitmap", "sync_all"} => file.sb = sb
  /\ mode = "sync_all" => file.bits = bits

CacheInv ==
  /\ \A b \in DOMAIN cache : cache[b] = file.data[b]
  /\ Cardinality(DOMAIN cache) <= CacheSize

VolumeInv ==
  /\ TypeOK
  /\ FreeCountExact
  /\ CacheInv
  /\ CleanMatchesFile
  /\ SyncProgress
  /\ SyncedIsDurable

\* Where the layout puts system and data blocks.
LEMMA Geometry ==
  /\ 0 \in Blocks
  /\ IoBlocks \subseteq Blocks
  /\ DataBlocks \subseteq IoBlocks
  /\ SystemRange \subseteq Positions
  /\ DataBlocks \cap SystemRange = {}
  /\ IsFiniteSet(IoBlocks)
<1>1. /\ TotalBlocks \in Nat \ {0} /\ SystemBlocks \in Int /\ MetaBlocks \in Int
      /\ 1 <= MetaBlocks /\ MetaBlocks <= SystemBlocks
      /\ SystemBlocks <= TotalBlocks - 1
  BY BitmapAssumption, VolumeAssumption
<1>2. IsFiniteSet(IoBlocks)
  BY <1>1, FS_Interval DEF IoBlocks
<1> QED
  BY <1>1, <1>2, PositionsAreBlocks
     DEF Blocks, IoBlocks, DataBlocks, SystemRange

\* Inserting b keeps the cache within its capacity and coherent with any
\* block contents that agree with the old ones except at b.
LEMMA CachedKeepsInv ==
  ASSUME NEW b \in IoBlocks, NEW c, NEW data,
         DOMAIN cache \subseteq IoBlocks, CacheInv, Cached(b, c),
         data[b] = c,
         \A x \in IoBlocks : x # b => data[x] = file.data[x]
  PROVE  /\ DOMAIN cache' \subseteq IoBlocks
         /\ \A x \in DOMAIN cache' : cache'[x] = data[x]
         /\ Cardinality(DOMAIN cache') <= CacheSize
<1> DEFINE D == DOMAIN cache
<1>1. /\ IsFiniteSet(D) /\ Cardinality(D) \in Nat /\ CacheSize \in Nat
      /\ CacheSize > 0
  BY Geometry, FS_Subset, FS_CardinalityType, VolumeAssumption
<1>2. CASE Cardinality(D) >= CacheSize /\ b \notin D
  <2>1. PICK old \in D :
          cache' = [x \in (D \ {old}) \cup {b} |->
                      IF x = b THEN c ELSE Restrict(cache, D \ {old})[x]]
    BY <1>2 DEF Cached, Restrict
  <2>2. DOMAIN cache' = (D \ {old}) \cup {b}
    BY <2>1
  <2>3. /\ IsFiniteSet(D \ {old})
        /\ Cardinality(D \ {old}) = Cardinality(D) - 1
    BY <1>1, FS_RemoveElement
  <2>4. Cardinality((D \ {old}) \cup {b}) = Cardinality(D \ {old}) + 1
    BY <1>2, <2>3, FS_AddElement
  <2>5. Cardinality(DOMAIN cache') <= CacheSize
    BY <1>1, <2>2, <2>3, <2>4 DEF CacheInv
  <2>6. \A x \in DOMAIN cache' : cache'[x] = data[x]
    BY <1>2, <2>1, <2>2 DEF CacheInv, Restrict
  <2> QED
    BY <2>2, <2>5, <2>6
<1>3. CASE ~(Cardinality(D) >= CacheSize /\ b \notin D)
  <2>1. cache' = [x \in D \cup {b} |-> IF x = b THEN c ELSE cache[x]]
    BY <1>3 DEF Cached
  <2>2. Cardinality(D \cup {b}) = IF b \in D THEN Cardinality(D)
                                  ELSE Cardinality(D) + 1
    BY <1>1, FS_AddElement
  <2>3. Cardinality(DOMAIN cache') <= CacheSize
    BY <1>1, <1>3, <2>1, <2>2 DEF CacheInv
  <2>4. \A x \in DOMAIN cache' : cache'[x] = data[x]
    BY <2>1 DEF CacheInv
  <2> QED
    BY <2>1, <2>3, <2>4
<1> QED
  BY <1>2, <1>3

\* Before there is a volume.
LEMMA InitVolumeInv == Init => VolumeInv
<1> SUFFICES ASSUME Init PROVE VolumeInv
  OBVIOUS
<1>1. FreeCountExact
  <2>1. bits = {} /\ free_count = TotalBlocks
    BY DEF Init
  <2>2. FreeBlocks(bits) = Blocks
    BY <2>1, FreeBlocksOf
  <2>3. Cardinality(Blocks) = TotalBlocks
    BY BitmapAssumption, FS_Interval DEF Blocks
  <2> QED
    BY <2>1, <2>2, <2>3 DEF FreeCountExact
<1>2. DOMAIN cache = {}
  BY DEF Init
<1>3. CacheInv
  BY <1>2, FS_EmptySet, VolumeAssumption DEF CacheInv
<1>4. TypeOK
  <2>1. FirstSb \in [Pointers -> Blocks]
    BY Geometry DEF FirstSb
  <2>2. [b \in IoBlocks |-> Zeroes] \in [IoBlocks -> Contents]
    BY VolumeAssumption
  <2>3. file \in Disks
    BY <2>2 DEF Init, EmptyFile, Disks
  <2>4. stable \in Disks
    BY <2>3 DEF Init
  <2>5. free_count \in Nat
    BY BitmapAssumption DEF Init
  <2> QED
    BY <1>2, <2>1, <2>3, <2>4, <2>5 DEF Init, TypeOK
<1> QED
  BY <1>1, <1>3, <1>4
     DEF Init, VolumeInv, CleanMatchesFile, SyncProgress, SyncedIsDurable

\* A new volume: first its superblock, then its bitmap, as memory has them.
LEMMA CreateKeepsInv ==
  ASSUME VolumeInv, CreateSuperblock \/ CreateBitmap
  PROVE  VolumeInv'
<1>1. CASE CreateSuperblock
  <2>1. FreeBlocks(bits') = SystemBlocks .. TotalBlocks - 1
    <3>1. FreeBlocks(SystemRange) = Blocks \ SystemRange
      BY FreeBlocksOf
    <3>2. bits' = SystemRange
      BY <1>1 DEF CreateSuperblock, SystemRange
    <3>3. Blocks \ SystemRange = SystemBlocks .. TotalBlocks - 1
      BY BitmapAssumption, VolumeAssumption DEF Blocks, SystemRange
    <3> QED
      BY <3>1, <3>2, <3>3
  <2>2. Cardinality(SystemBlocks .. TotalBlocks - 1) = TotalBlocks - SystemBlocks
    BY FS_Interval, BitmapAssumption, VolumeAssumption
  <2>3. FreeCountExact'
    BY <1>1, <2>1, <2>2 DEF CreateSuperblock, FreeCountExact
  <2>4. DOMAIN cache' = {}
    BY <1>1 DEF CreateSuperblock
  <2>5. CacheInv'
    BY <2>4, FS_EmptySet, VolumeAssumption DEF CacheInv
  <2>6. TypeOK'
    <3>1. free_count' \in Nat
      BY <1>1, BitmapAssumption, VolumeAssumption DEF CreateSuperblock
    <3>2. bits' \subseteq Positions
      BY <1>1, Geometry DEF CreateSuperblock, SystemRange
    <3>3. sb' = FirstSb /\ FirstSb \in [Pointers -> Blocks]
      BY <1>1, Geometry DEF CreateSuperblock, FirstSb
    <3>4. EmptyFile \in Disks
      BY VolumeAssumption DEF EmptyFile, Disks
    <3>5. file' \in Disks
      <4>1. file' = [sb |-> FirstSb, bits |-> {}, data |-> [b \in IoBlocks |-> Zeroes]]
        BY <1>1 DEF CreateSuperblock, EmptyFile
      <4>2. [b \in IoBlocks |-> Zeroes] \in [IoBlocks -> Contents]
        BY VolumeAssumption
      <4> QED
        BY <3>3, <4>1, <4>2 DEF Disks
    <3>6. stable' \in Disks
      BY <1>1, <3>4 DEF CreateSuperblock
    <3> QED
      BY <1>1, <2>4, <3>1, <3>2, <3>3, <3>5, <3>6 DEF CreateSuperblock, TypeOK
  <2> QED
    BY <1>1, <2>3, <2>5, <2>6
       DEF CreateSuperblock, VolumeInv, CleanMatchesFile, SyncProgress, SyncedIsDurable
<1>2. CASE CreateBitmap
  <2>1. file' \in Disks /\ file'.sb = file.sb /\ file'.data = file.data
    BY <1>2 DEF CreateBitmap, VolumeInv, TypeOK, Disks
  <2> QED
    BY <1>2, <2>1
       DEF CreateBitmap, bitmapOf, VolumeInv, TypeOK, FreeCountExact, CacheInv,
           CleanMatchesFile, SyncProgress, SyncedIsDurable
<1> QED
  BY <1>1, <1>2

\* Opening reads what was written.
LEMMA OpenKeepsInv ==
  ASSUME VolumeInv, Open
  PROVE  VolumeInv'
<1>1. FreeCountExact' /\ free_count' \in Nat
  BY FreeBlocksOf DEF Open, FreeCountExact
<1>2. DOMAIN cache' = {}
  BY DEF Open
<1>3. CacheInv'
  BY <1>2, FS_EmptySet, VolumeAssumption DEF CacheInv
<1>4. TypeOK'
  BY <1>1, <1>2 DEF Open, VolumeInv, TypeOK, Disks
<1> QED
  BY <1>1, <1>3, <1>4
     DEF Open, VolumeInv, CleanMatchesFile, SyncProgress, SyncedIsDurable

\* A read changes the cache at most.
LEMMA ReadBlockKeepsInv ==
  ASSUME NEW b \in IoBlocks, VolumeInv, ReadBlock(b)
  PROVE  VolumeInv'
<1>1. /\ DOMAIN cache' \subseteq IoBlocks
      /\ \A x \in DOMAIN cache' : cache'[x] = file.data[x]
      /\ Cardinality(DOMAIN cache') <= CacheSize
  BY CachedKeepsInv DEF ReadBlock, VolumeInv, TypeOK
<1>2. CacheInv'
  BY <1>1 DEF CacheInv, ReadBlock, disks
<1> QED
  BY <1>1, <1>2
     DEF ReadBlock, bitmapOf, disks, VolumeInv, TypeOK, FreeCountExact,
         CleanMatchesFile, SyncProgress, SyncedIsDurable

\* A write reaches the file and, when it is cached, the cache.
LEMMA WriteBlockKeepsInv ==
  ASSUME NEW b \in IoBlocks, NEW c \in Contents, VolumeInv, WriteBlock(b, c)
  PROVE  VolumeInv'
<1>1. /\ file'.data = [file.data EXCEPT ![b] = c]
      /\ file' \in Disks
  BY DEF WriteBlock, VolumeInv, TypeOK, Disks
<1>2. /\ file'.data[b] = c
      /\ \A x \in IoBlocks : x # b => file'.data[x] = file.data[x]
  BY <1>1 DEF VolumeInv, TypeOK, Disks
<1>3. /\ DOMAIN cache' \subseteq IoBlocks
      /\ CacheInv'
  <2> DEFINE new == file'.data
  <2>1. /\ DOMAIN cache \subseteq IoBlocks
        /\ CacheInv
        /\ Cached(b, c)
    BY DEF WriteBlock, VolumeInv, TypeOK
  <2>2. /\ new[b] = c
        /\ \A x \in IoBlocks : x # b => new[x] = file.data[x]
    BY <1>2
  <2> HIDE DEF new
  <2>3. /\ DOMAIN cache' \subseteq IoBlocks
        /\ \A x \in DOMAIN cache' : cache'[x] = new[x]
        /\ Cardinality(DOMAIN cache') <= CacheSize
    BY <2>1, <2>2, CachedKeepsInv
  <2> QED
    BY <2>3 DEF CacheInv, new
<1> QED
  BY <1>1, <1>3
     DEF WriteBlock, bitmapOf, VolumeInv, TypeOK, FreeCountExact,
         CleanMatchesFile, SyncProgress, SyncedIsDurable

\* Allocating and freeing change the bitmap and its count together.
LEMMA BitmapStepsKeepInv ==
  ASSUME NEW b \in Blocks, VolumeInv, AllocBlock(b) \/ FreeBlock(b)
  PROVE  VolumeInv'
<1>1. b \in Positions
  BY PositionsAreBlocks
<1>2. BitmapInv
  BY DEF VolumeInv, TypeOK, BitmapInv, BitmapTypeOK
<1>3. BitmapInv'
  BY <1>1, <1>2, MarkUsedExact, MarkFreeExact DEF AllocBlock, FreeBlock, AllocOne
<1> QED
  BY <1>3
     DEF AllocBlock, FreeBlock, disks, VolumeInv, TypeOK, BitmapInv,
         BitmapTypeOK, CacheInv, CleanMatchesFile, SyncProgress, SyncedIsDurable

\* Root pointers are changed in memory first.
LEMMA SetPointerKeepsInv ==
  ASSUME NEW p \in Pointers, NEW b \in DataBlocks \cup {0}, VolumeInv,
         SetPointer(p, b)
  PROVE  VolumeInv'
<1>1. b \in Blocks
  BY Geometry
<1> QED
  BY <1>1
     DEF SetPointer, bitmapOf, disks, VolumeInv, TypeOK, FreeCountExact, CacheInv,
         CleanMatchesFile, SyncProgress, SyncedIsDurable

\* On a volume that is not dirty the superblock is rewritten as it was.
LEMMA WriteSuperblockKeepsInv ==
  ASSUME VolumeInv, WriteSuperblock
  PROVE  VolumeInv'
<1>1. file' \in Disks /\ file'.sb = sb /\ file'.bits = file.bits
      /\ file'.data = file.data
  BY DEF WriteSuperblock, VolumeInv, TypeOK, Disks
<1>2. ASSUME ~dirty PROVE file' = file
  BY <1>2 DEF WriteSuperblock, VolumeInv, TypeOK, Disks, CleanMatchesFile
<1> QED
  BY <1>1, <1>2
     DEF WriteSuperblock, bitmapOf, VolumeInv, TypeOK, FreeCountExact, CacheInv,
         CleanMatchesFile, SyncProgress, SyncedIsDurable

\* Each part of a sync writes what memory holds.
LEMMA SyncKeepsInv ==
  ASSUME VolumeInv, SyncSuperblock \/ SyncBitmap \/ SyncAll
  PROVE  VolumeInv'
<1>1. CASE SyncSuperblock
  <2>1. file' \in Disks /\ file'.sb = sb /\ file'.data = file.data
    BY <1>1 DEF SyncSuperblock, VolumeInv, TypeOK, Disks
  <2> QED
    BY <1>1, <2>1
       DEF SyncSuperblock, bitmapOf, VolumeInv, TypeOK, FreeCountExact, CacheInv,
           CleanMatchesFile, SyncProgress, SyncedIsDurable
<1>2. CASE SyncBitmap
  <2>1. /\ file' \in Disks /\ file'.bits = bits /\ file'.sb = file.sb
        /\ file'.data = file.data
    BY <1>2 DEF SyncBitmap, VolumeInv, TypeOK, Disks
  <2> QED
    BY <1>2, <2>1
       DEF SyncBitmap, bitmapOf, VolumeInv, TypeOK, FreeCountExact, CacheInv,
           CleanMatchesFile, SyncProgress, SyncedIsDurable
<1>3. CASE SyncAll
  BY <1>3
     DEF SyncAll, bitmapOf, VolumeInv, TypeOK, FreeCountExact, CacheInv,
         CleanMatchesFile, SyncProgress, SyncedIsDurable
<1> QED
  BY <1>1, <1>2, <1>3

\* The end of the process, or of the power, leaves an image that opens.
LEMMA ClosingKeepsInv ==
  ASSUME VolumeInv, ProcessExit \/ PowerLoss
  PROVE  VolumeInv'
<1>1. FreeCountExact' /\ bits' \subseteq Positions /\ free_count' \in Nat
  <2>1. bits' = {} /\ free_count' = TotalBlocks
    BY DEF ProcessExit, PowerLoss, MemoryGone
  <2>2. FreeBlocks(bits') = Blocks
    BY <2>1, FreeBlocksOf
  <2>3. Cardinality(Blocks) = TotalBlocks
    BY BitmapAssumption, FS_Interval DEF Blocks
  <2> QED
    BY <2>1, <2>2, <2>3, BitmapAssumption DEF FreeCountExact
<1>2. DOMAIN cache' = {}
  BY DEF ProcessExit, PowerLoss, MemoryGone
<1>3. CacheInv'
  BY <1>2, FS_EmptySet, VolumeAssumption DEF CacheInv
<1>4. FirstSb \in [Pointers -> Blocks]
  BY Geometry DEF FirstSb
<1> QED
  BY <1>1, <1>2, <1>3, <1>4
     DEF ProcessExit, PowerLoss, MemoryGone, disks, VolumeInv, TypeOK,
         CleanMatchesFile, SyncProgress, SyncedIsDurable

\* Writing back a piece of a file that is stable already changes nothing.
LEMMA WriteBackKeepsInv ==
  ASSUME VolumeInv, WriteBack
  PROVE  VolumeInv'
<1>1. stable' \in Disks
  BY DEF WriteBack, VolumeInv, TypeOK, Disks
<1>2. ASSUME stable = file PROVE stable' = file
  BY <1>2 DEF WriteBack, VolumeInv, TypeOK, Disks
<1> QED
  BY <1>1, <1>2
     DEF WriteBack, bitmapOf, VolumeInv, TypeOK, FreeCountExact, CacheInv,
         CleanMatchesFile, SyncProgress, SyncedIsDurable

\* Every step, the loss of power among them.
LEMMA PowerNextKeepsInv == VolumeInv /\ [PowerNext]_volumeVars => VolumeInv'
<1> SUFFICES ASSUME VolumeInv, [PowerNext]_volumeVars
             PROVE  VolumeInv'
  OBVIOUS
<1>1. CASE UNCHANGED volumeVars
  BY <1>1
     DEF volumeVars, VolumeInv, TypeOK, FreeCountExact, CacheInv,
         CleanMatchesFile, SyncProgress, SyncedIsDurable
<1>2. CASE PowerNext
  BY <1>2, Geometry, CreateKeepsInv, OpenKeepsInv, ReadBlockKeepsInv, WriteBlockKeepsInv,
     BitmapStepsKeepInv, SetPointerKeepsInv, WriteSuperblockKeepsInv,
     SyncKeepsInv, ClosingKeepsInv, WriteBackKeepsInv
     DEF PowerNext, Next
<1> QED
  BY <1>1, <1>2

\* Type correctness holds through power failures, with every invariant of
\* this module.
THEOREM PowerSpecInv == PowerSpec => [](TypeOK /\ VolumeInv)
<1>1. Init => VolumeInv
  BY InitVolumeInv
<1>2. VolumeInv /\ [PowerNext]_volumeVars => VolumeInv'
  BY PowerNextKeepsInv
<1>3. VolumeInv => TypeOK
  BY DEF VolumeInv
<1> QED
  BY <1>1, <1>2, <1>3, PTL DEF PowerSpec

\* With power failures at any point, a synced volume that has not changed
\* since is entirely on disk.
THEOREM SyncedVolumesAreDurable == PowerSpec => []SyncedIsDurable
<1>1. VolumeInv => SyncedIsDurable
  BY DEF VolumeInv
<1> QED
  BY <1>1, PowerSpecInv, PTL

\* The block cache never serves a block the file no longer holds.
THEOREM CacheStaysCoherent == PowerSpec => []CacheCoherent
<1>1. VolumeInv => CacheCoherent
  BY DEF VolumeInv, CacheInv, CacheCoherent
<1> QED
  BY <1>1, PowerSpecInv, PTL

\* A clean volume has nothing in memory that the file lacks, and its free
\* count is exact, after power failures in the middle of a sync too.
THEOREM CleanVolumesMatchTheFile ==
  PowerSpec => [](CleanMatchesFile /\ CountMatchesBitmap)
<1>1. VolumeInv => CleanMatchesFile /\ CountMatchesBitmap
  BY DEF VolumeInv, CountMatchesBitmap
<1> QED
  BY <1>1, PowerSpecInv, PTL

-----------------------------------------------------------------------------
(* Reservation of the metadata blocks, on machines that lose power.        *)

Passed(from, to) == Reserved(from) => Reserved(to)

ReservedInv ==
  /\ Passed(stable.bits, file.bits)
  /\ mode # "closed" => Passed(file.bits, bits)

\* Only blocks behind the metadata are ever freed.
LEMMA BitmapStepsKeepReserved ==
  ASSUME NEW b, AllocBlock(b) \/ (b \in DataBlocks /\ FreeBlock(b)), Reserved(bits)
  PROVE  Reserved(bits')
  BY Geometry
     DEF Reserved, AllocBlock, FreeBlock, AllocOne, MarkUsed, MarkFree, SystemRange

\* A write to the file that is not one of the bitmap leaves the bitmap there.
LEMMA BitsInFile ==
  ASSUME VolumeInv
  PROVE  /\ \A b \in IoBlocks, c \in Contents : WriteBlock(b, c) => file'.bits = file.bits
         /\ SyncSuperblock \/ WriteSuperblock =>
              file'.bits = file.bits
         /\ SyncBitmap \/ CreateBitmap => file'.bits = bits
         /\ CreateSuperblock => stable'.bits = {} /\ bits' = SystemRange
         /\ WriteBack => stable'.bits \in {stable.bits, file.bits}
<1>1. SyncBitmap \/ CreateBitmap => file'.bits = bits
  BY DEF SyncBitmap, CreateBitmap, VolumeInv, TypeOK, Disks
<1>2. CreateSuperblock => stable'.bits = {} /\ bits' = SystemRange
  BY DEF CreateSuperblock, EmptyFile, SystemRange
<1>3. WriteBack => stable'.bits \in {stable.bits, file.bits}
  BY DEF WriteBack, VolumeInv, TypeOK, Disks
<1>4. SyncSuperblock \/ WriteSuperblock => file'.bits = file.bits
  BY DEF SyncSuperblock, WriteSuperblock, VolumeInv, TypeOK, Disks
<1> QED
  BY <1>1, <1>2, <1>3, <1>4 DEF WriteBlock, VolumeInv, TypeOK, Disks

\* System blocks stay reserved, in memory and on the image, through power losses.
LEMMA PowerNextKeepsReserved ==
  VolumeInv /\ ReservedInv /\ [PowerNext]_volumeVars => ReservedInv'
<1> SUFFICES ASSUME VolumeInv, ReservedInv, [PowerNext]_volumeVars
             PROVE  ReservedInv'
  OBVIOUS
<1> USE DEF ReservedInv, Passed
<1>1. ASSUME NEW b \in IoBlocks, NEW c \in Contents, WriteBlock(b, c)
      PROVE  ReservedInv'
  BY <1>1, BitsInFile DEF WriteBlock, bitmapOf
<1>2. ASSUME NEW b, AllocBlock(b) \/ (b \in DataBlocks /\ FreeBlock(b))
      PROVE  ReservedInv'
  BY <1>2, BitmapStepsKeepReserved DEF AllocBlock, FreeBlock, disks
<1>3. ASSUME SyncSuperblock \/ WriteSuperblock PROVE ReservedInv'
  BY <1>3, BitsInFile DEF SyncSuperblock, WriteSuperblock, bitmapOf
<1>4. ASSUME SyncBitmap PROVE ReservedInv'
  BY <1>4, BitsInFile DEF SyncBitmap, bitmapOf
<1>5. ASSUME CreateSuperblock \/ CreateBitmap PROVE ReservedInv'
  <2>1. CASE CreateSuperblock
    <3>1. ~Reserved(stable'.bits)
      BY <2>1, BitsInFile, VolumeAssumption, BitmapAssumption DEF Reserved
    <3>2. Reserved(bits')
      BY <2>1, BitsInFile DEF Reserved, SystemRange
    <3> QED
      BY <3>1, <3>2
  <2>2. CASE CreateBitmap
    BY <2>2, BitsInFile DEF CreateBitmap, bitmapOf
  <2> QED
    BY <1>5, <2>1, <2>2
<1>6. ASSUME Open \/ SyncAll \/ ProcessExit \/ PowerLoss PROVE ReservedInv'
  BY <1>6 DEF Open, SyncAll, ProcessExit, PowerLoss, MemoryGone, bitmapOf, disks
<1>7. ASSUME NEW b \in IoBlocks, ReadBlock(b) PROVE ReservedInv'
  BY <1>7 DEF ReadBlock, bitmapOf, disks
<1>8. ASSUME NEW p \in Pointers, NEW b \in DataBlocks \cup {0}, SetPointer(p, b)
      PROVE  ReservedInv'
  BY <1>8 DEF SetPointer, bitmapOf, disks
<1>9. ASSUME WriteBack PROVE ReservedInv'
  BY <1>9, BitsInFile DEF WriteBack, bitmapOf
<1>10. ASSUME UNCHANGED volumeVars PROVE ReservedInv'
  BY <1>10 DEF volumeVars
<1> QED
  BY <1>1, <1>2, <1>3, <1>4, <1>5, <1>6, <1>7, <1>8, <1>9, <1>10 DEF PowerNext, Next

\* Through power failures, interrupted syncs, frees and reopenings, metadata
\* blocks the disk has as used are used in memory too.
THEOREM StoredMetadataStaysReserved == PowerSpec => []ReservedOnceStored
<1>1. Init => VolumeInv /\ ReservedInv
  BY InitVolumeInv DEF Init, ReservedInv, Passed
<1>2. VolumeInv /\ ReservedInv /\ [PowerNext]_volumeVars => (VolumeInv /\ ReservedInv)'
  BY PowerNextKeepsInv, PowerNextKeepsReserved
<1>3. ReservedInv => ReservedOnceStored
  BY DEF ReservedInv, Passed, ReservedOnceStored
<1> QED
  BY <1>1, <1>2, <1>3, PTL DEF PowerSpec
=============================================================================
