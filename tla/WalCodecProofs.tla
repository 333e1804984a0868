--------------------------- MODULE WalCodecProofs ---------------------------
(***************************************************************************)
(* What a scan of the journal returns, for a journal of any size and any   *)
(* operations.  A scan is a recursive function on offsets; what is said    *)
(* about it here is proved by taking the least, or the greatest, offset    *)
(* that would be an exception.                                             *)
(***************************************************************************)
EXTENDS WalCodec, Integers, SequenceTheorems, WellFoundedInduction, TLAPS

\* Every set of numbers that is not empty has a least one ...
LEMMA LeastExists ==
  ASSUME NEW T \in SUBSET Nat, T # {}
  PROVE  \E x \in T : \A y \in T : x <= y
<1> DEFINE R == OpToRel(<, Nat)
<1>1. IsWellFoundedOn(R, Nat)
  BY NatLessThanWellFounded
<1>2. PICK x \in T : \A y \in T : ~ (<<y, x>> \in R)
  BY <1>1, WFMin
<1>3. \A y \in T : ~ (y < x)
  BY <1>2 DEF OpToRel
<1> QED
  BY <1>3

\* ... and, when they are bounded, a greatest one.
LEMMA GreatestExists ==
  ASSUME NEW T \in SUBSET Nat, T # {}, NEW n \in Nat, \A t \in T : t <= n
  PROVE  \E x \in T : \A y \in T : y <= x
<1> DEFINE below == {n - t : t \in T}
<1>1. PICK t \in T : TRUE
  OBVIOUS
<1>a. n - t \in below /\ below \in SUBSET Nat
  OBVIOUS
<1>2. PICK d \in below : \A e \in below : d <= e
  BY <1>a, LeastExists
<1>3. PICK x \in T : d = n - x
  OBVIOUS
<1>4. ASSUME NEW y \in T PROVE y <= x
  <2>1. d <= n - y
    BY <1>2
  <2> QED
    BY <2>1, <1>3
<1> QED
  BY <1>4

\* An entry takes a header and at least one cell more, a checkpoint one cell.
LEMMA EntrySizes ==
  ASSUME NEW op \in Ops \cup {Checkpoint}
  PROVE  /\ Data(op) \in Nat
         /\ op \in Ops => Data(op) \in Nat \ {0}
         /\ EntryCells(op) \in Nat \ {0}
         /\ EntryCells(op) = 1 + Data(op)
BY WalCodecAssumption DEF Data, EntryCells

-----------------------------------------------------------------------------
(* Scans. *)

IsScan(scan, cells, readable) ==
  scan = [i \in Nat |-> IF i \in readable
                        THEN <<i>> \o scan[i + EntryCells(cells[i].op)] ELSE << >>]

\* A set of offsets of headers, within the journal.
Readable(cells, readable) == readable \subseteq HeadersOf(cells)

\* An entry a scan can go through lies in the journal and has a size.
LEMMA ReadableEntries ==
  ASSUME NEW cells, NEW readable, Readable(cells, readable), NEW i \in readable
  PROVE  /\ i \in Nat /\ i < JournalCells
         /\ cells[i].op \in Ops \cup {Checkpoint}
         /\ EntryCells(cells[i].op) \in Nat \ {0}
         /\ i + EntryCells(cells[i].op) \in Nat
<1>1. i \in 0 .. JournalCells - 1 /\ cells[i] \in Headers
  BY DEF Readable, HeadersOf
<1>2. cells[i].op \in Ops \cup {Checkpoint}
  BY <1>1 DEF Headers
<1>3. EntryCells(cells[i].op) \in Nat \ {0}
  BY <1>2, EntrySizes
<1> QED
  BY <1>1, <1>2, <1>3, WalCodecAssumption

\* The recursion is well founded: an entry is followed by higher offsets only,
\* and behind the journal nothing is readable.
LEMMA ScanExists ==
  ASSUME NEW cells, NEW readable, Readable(cells, readable)
  PROVE  \E scan : IsScan(scan, cells, readable)
<1> DEFINE J == JournalCells
           from(n) == {i \in readable : i >= J - n}
           good == {n \in Nat : \E scan : IsScan(scan, cells, from(n))}
           bad == {n \in Nat : n \notin good}
<1>1. J \in Nat
  BY WalCodecAssumption
<1>2. \A n \in Nat : from(n) \subseteq readable
  OBVIOUS
<1>3. 0 \in good
  <2>1. from(0) = {}
    BY <1>1, ReadableEntries
  <2>2. IsScan([i \in Nat |-> << >>], cells, from(0))
    BY <2>1 DEF IsScan
  <2> QED
    BY <2>2
<1>4. ASSUME NEW n \in good PROVE n + 1 \in good
  <2>1. PICK scan : IsScan(scan, cells, from(n))
    OBVIOUS
  <2> DEFINE j == J - (n + 1)
             more == [i \in Nat |-> IF i = j /\ j \in readable
                                    THEN <<j>> \o scan[j + EntryCells(cells[j].op)]
                                    ELSE scan[i]]
  <2>2. ASSUME NEW i \in Nat
        PROVE  more[i] = IF i \in from(n + 1)
                         THEN <<i>> \o more[i + EntryCells(cells[i].op)] ELSE << >>
    <3>1. CASE i \in from(n + 1)
      <4>1. i + EntryCells(cells[i].op) \in Nat /\ i + EntryCells(cells[i].op) # j
        BY <1>1, <3>1, ReadableEntries
      <4>2. more[i + EntryCells(cells[i].op)] = scan[i + EntryCells(cells[i].op)]
        BY <4>1
      <4>3. CASE i = j
        BY <4>2, <4>3, <3>1
      <4>4. CASE i # j
        <5>1. i \in from(n)
          BY <1>1, <3>1, <4>4, ReadableEntries
        <5>2. scan[i] = <<i>> \o scan[i + EntryCells(cells[i].op)]
          BY <2>1, <5>1 DEF IsScan
        <5> QED
          BY <4>2, <4>4, <5>2, <3>1
      <4> QED
        BY <4>3, <4>4
    <3>2. CASE i \notin from(n + 1)
      <4>1. i \notin from(n) /\ ~ (i = j /\ j \in readable)
        BY <1>1, <3>2, ReadableEntries
      <4>2. scan[i] = << >>
        BY <2>1, <4>1 DEF IsScan
      <4> QED
        BY <4>1, <4>2, <3>2
    <3> QED
      BY <3>1, <3>2
  <2>3. more = [i \in Nat |-> IF i \in from(n + 1)
                              THEN <<i>> \o more[i + EntryCells(cells[i].op)] ELSE << >>]
    <3> HIDE DEF more
    <3>1. more = [i \in Nat |-> more[i]]
      BY DEF more
    <3> QED
      BY <2>2, <3>1, Zenon
  <2>4. IsScan(more, cells, from(n + 1))
    BY <2>3 DEF IsScan
  <2>5. \E s : IsScan(s, cells, from(n + 1))
    <3> HIDE DEF more, from
    <3> QED
      BY <2>4
  <2>6. n + 1 \in Nat
    OBVIOUS
  <2> HIDE DEF from
  <2> QED
    BY <2>5, <2>6
<1>5. bad = {}
  <2> SUFFICES ASSUME bad # {} PROVE FALSE
    OBVIOUS
  <2>1. PICK n \in bad : \A m \in bad : n <= m
    <3> HIDE DEF good
    <3>1. bad \in SUBSET Nat
      OBVIOUS
    <3> HIDE DEF bad
    <3> QED
      BY <3>1, LeastExists
  <2>2. n # 0 /\ n - 1 \in Nat /\ n - 1 \notin bad
    <3> HIDE DEF good
    <3> QED
      BY <1>3, <2>1
  <2>3. n - 1 \in good
    <3> HIDE DEF good
    <3> QED
      BY <2>2
  <2>4. (n - 1) + 1 \in good
    <3> HIDE DEF good
    <3> QED
      BY <1>4, <2>3
  <2> HIDE DEF good
  <2> QED
    BY <2>1, <2>4
<1>6. J \in good
  <2> HIDE DEF good
  <2> QED
    BY <1>1, <1>5
<1>7. from(J) = readable
  BY <1>1, ReadableEntries
<1> QED
  BY <1>6, <1>7

\* So a scan is what its definition says.
LEMMA VisitedStep ==
  ASSUME NEW cells, NEW readable, Readable(cells, readable), NEW i \in Nat
  PROVE  Visited(cells, i, readable) =
           IF i \in readable
           THEN <<i>> \o Visited(cells, i + EntryCells(cells[i].op), readable) ELSE << >>
<1> DEFINE scan == CHOOSE f : IsScan(f, cells, readable)
<1>1. IsScan(scan, cells, readable)
  BY ScanExists
<1>2. \A j \in Nat : Visited(cells, j, readable) = scan[j]
  BY DEF Visited, IsScan
<1>3. scan[i] = IF i \in readable
                THEN <<i>> \o scan[i + EntryCells(cells[i].op)] ELSE << >>
  <2> HIDE DEF scan
  <2> QED
    BY <1>1 DEF IsScan
<1>4. i \in readable => i + EntryCells(cells[i].op) \in Nat
  BY ReadableEntries
<1> HIDE DEF scan
<1> QED
  BY <1>2, <1>3, <1>4

\* It returns readable offsets, none below the one it starts at.
LEMMA VisitedSeq ==
  ASSUME NEW cells, NEW readable, Readable(cells, readable), NEW i \in Nat
  PROVE  Visited(cells, i, readable) \in Seq({r \in readable : r >= i})
<1> DEFINE at(j) == Visited(cells, j, readable)
           behind(j) == {r \in readable : r >= j}
           bad == {j \in Nat : at(j) \notin Seq(behind(j))}
<1>1. ASSUME bad # {} PROVE FALSE
  <2>1. \A j \in bad : j \in readable
    <3> SUFFICES ASSUME NEW j \in bad, j \notin readable PROVE FALSE
      OBVIOUS
    <3>1. at(j) = << >>
      BY VisitedStep
    <3> QED
      BY <3>1, EmptySeq
  <2>2. \A j \in bad : j <= JournalCells
    <3>1. JournalCells \in Nat /\ \A r \in readable : r \in Nat /\ r < JournalCells
      BY WalCodecAssumption, ReadableEntries
    <3> HIDE DEF bad
    <3> QED
      BY <2>1, <3>1
  <2>3. PICK j \in bad : \A k \in bad : k <= j
    <3>1. bad \in SUBSET Nat /\ JournalCells \in Nat
      BY WalCodecAssumption
    <3> HIDE DEF bad
    <3> QED
      BY <1>1, <2>2, <3>1, GreatestExists
  <2> DEFINE next == j + EntryCells(cells[j].op)
  <2>4. j \in Nat /\ j \in readable /\ next \in Nat /\ next > j
    BY <2>1, ReadableEntries
  <2>5. at(next) \in Seq(behind(next))
    <3>1. next \notin bad
      <4> HIDE DEF bad, next
      <4> QED
        BY <2>3, <2>4
    <3> QED
      BY <2>4, <3>1
  <2>6. behind(next) \subseteq behind(j)
    BY <2>4, ReadableEntries
  <2>7. at(j) = <<j>> \o at(next)
    BY <2>4, VisitedStep
  <2>8. at(next) \in Seq(behind(j)) /\ <<j>> \in Seq(behind(j))
    <3>1. j \in behind(j)
      BY <2>4
    <3> HIDE DEF behind, at
    <3> QED
      BY <2>5, <2>6, <3>1, SeqMonotonic
  <2>9. at(j) \in Seq(behind(j))
    <3> HIDE DEF behind, at
    <3> QED
      BY <2>7, <2>8, ConcatProperties
  <2> QED
    BY <2>9
<1> QED
  BY <1>1

\* The offsets a scan goes through are readable ones from its start on:
\* none if the start is not readable, else the start and those behind its entry.
LEMMA VisitedRange ==
  ASSUME NEW cells, NEW readable, Readable(cells, readable), NEW i \in Nat
  PROVE  /\ Range(Visited(cells, i, readable)) \subseteq {r \in readable : r >= i}
         /\ i \notin readable => Range(Visited(cells, i, readable)) = {}
         /\ i \in readable => Range(Visited(cells, i, readable)) =
              {i} \cup Range(Visited(cells, i + EntryCells(cells[i].op), readable))
<1> DEFINE at(j) == Visited(cells, j, readable)
<1>1. \A j \in Nat : at(j) \in Seq(readable)
  <2> SUFFICES ASSUME NEW j \in Nat PROVE at(j) \in Seq(readable)
    OBVIOUS
  <2>1. at(j) \in Seq({r \in readable : r >= j})
    BY VisitedSeq
  <2> HIDE DEF at
  <2> QED
    BY <2>1, SeqMonotonic
<1>2. Range(at(i)) \subseteq {r \in readable : r >= i}
  <2>1. at(i) \in Seq({r \in readable : r >= i})
    BY VisitedSeq
  <2> HIDE DEF at
  <2> QED
    BY <2>1, LenProperties DEF Range
<1>3. i \notin readable => Range(at(i)) = {}
  <2> SUFFICES ASSUME i \notin readable PROVE Range(at(i)) = {}
    OBVIOUS
  <2>1. at(i) = << >>
    BY VisitedStep
  <2> HIDE DEF at
  <2> QED
    BY <2>1 DEF Range
<1>4. ASSUME i \in readable
      PROVE  Range(at(i)) = {i} \cup Range(at(i + EntryCells(cells[i].op)))
  <2> DEFINE next == i + EntryCells(cells[i].op)
  <2>1. next \in Nat
    BY <1>4, ReadableEntries
  <2>2. at(i) = <<i>> \o at(next)
    BY <1>4, VisitedStep
  <2>3. at(next) \in Seq(readable) /\ <<i>> \in Seq(readable)
    BY <1>1, <1>4, <2>1
  <2>4. Range(<<i>>) = {i}
    BY DEF Range
  <2> HIDE DEF at, next
  <2>5. Range(<<i>> \o at(next)) = Range(<<i>>) \cup Range(at(next))
    BY <2>3, RangeConcatenation
  <2> QED
    BY <2>2, <2>4, <2>5 DEF next
<1> QED
  BY <1>2, <1>3, <1>4

\* A scan that starts on an offset another scan went through, and stops at
\* least where that one stops, goes through nothing the other did not.
LEMMA VisitedWithin ==
  ASSUME NEW cells, NEW readable, Readable(cells, readable),
         NEW fewer \in SUBSET readable, NEW i \in Nat
  PROVE  /\ Range(Visited(cells, i, fewer)) \subseteq Range(Visited(cells, i, readable))
         /\ \A j \in Range(Visited(cells, i, readable)) :
              Range(Visited(cells, j, readable)) \subseteq Range(Visited(cells, i, readable))
<1> DEFINE all(k) == Range(Visited(cells, k, readable))
           some(k) == Range(Visited(cells, k, fewer))
           next(k) == k + EntryCells(cells[k].op)
           Good(k) == some(k) \subseteq all(k) /\ \A j \in all(k) : all(j) \subseteq all(k)
           bad == {k \in Nat : ~ Good(k)}
<1>0. Readable(cells, fewer)
  BY DEF Readable
<1>1. ASSUME bad # {} PROVE FALSE
  <2>1. \A k \in bad : k \in readable
    <3> SUFFICES ASSUME NEW k \in bad, k \notin readable PROVE FALSE
      OBVIOUS
    <3>1. all(k) = {} /\ some(k) = {}
      BY <1>0, VisitedRange
    <3> QED
      BY <3>1
  <2>2. \A k \in bad : k <= JournalCells
    <3>1. JournalCells \in Nat /\ \A r \in readable : r \in Nat /\ r < JournalCells
      BY WalCodecAssumption, ReadableEntries
    <3> HIDE DEF bad
    <3> QED
      BY <2>1, <3>1
  <2>3. PICK k \in bad : \A m \in bad : m <= k
    <3>1. bad \in SUBSET Nat /\ JournalCells \in Nat
      BY WalCodecAssumption
    <3> HIDE DEF bad
    <3> QED
      BY <1>1, <2>2, <3>1, GreatestExists
  <2>4. k \in Nat /\ k \in readable /\ next(k) \in Nat /\ next(k) > k
    BY <2>1, ReadableEntries
  <2>5. Good(next(k))
    <3>1. next(k) \notin bad
      <4> HIDE DEF bad, next
      <4> QED
        BY <2>3, <2>4
    <3> QED
      BY <2>4, <3>1
  <2>6. all(k) = {k} \cup all(next(k))
    BY <2>4, VisitedRange
  <2>7. some(k) \subseteq {k} \cup some(next(k))
    BY <1>0, <2>4, VisitedRange
  <2>8. Good(k)
    <3> HIDE DEF all, some, next
    <3> QED
      BY <2>5, <2>6, <2>7
  <2> QED
    BY <2>8
<1> QED
  BY <1>1

\* Concatenation is associative.
LEMMA OffsetsRegroup ==
  \A s, t, u \in Seq(Nat) : (s \o t) \o u = s \o (t \o u)
BY ConcatAssociative

\* A chain of entries: each starts where the one before it ends, the last one
\* ends at the last element.
Chain(cells, at, readable) ==
  /\ at \in Seq(Nat) /\ at # << >>
  /\ \A k \in 1 .. Len(at) - 1 :
       at[k] \in readable /\ at[k + 1] = at[k] + EntryCells(cells[at[k]].op)

\* A scan goes along a chain and on from its end.
LEMMA VisitedChain ==
  ASSUME NEW cells, NEW readable, Readable(cells, readable),
         NEW at, Chain(cells, at, readable), NEW k \in 1 .. Len(at)
  PROVE  Visited(cells, at[k], readable) =
           SubSeq(at, k, Len(at) - 1) \o Visited(cells, at[Len(at)], readable)
<1> DEFINE V(i) == Visited(cells, i, readable)
           n == Len(at)
           Good(j) == V(at[j]) = SubSeq(at, j, n - 1) \o V(at[n])
           bad == {j \in 1 .. n : ~ Good(j)}
<1>1. n \in Nat \ {0} /\ at \in Seq(Nat) /\ \A j \in 1 .. n : at[j] \in Nat
  BY EmptySeq, ElementOfSeq DEF Chain
<1>2. \A i \in Nat : V(i) \in Seq(Nat)
  <2> SUFFICES ASSUME NEW i \in Nat PROVE V(i) \in Seq(Nat)
    OBVIOUS
  <2>1. V(i) \in Seq({r \in readable : r >= i}) /\ {r \in readable : r >= i} \subseteq Nat
    BY VisitedSeq, ReadableEntries
  <2> HIDE DEF V
  <2> QED
    BY <2>1, SeqMonotonic
<1>3. Good(n)
  <2>1. SubSeq(at, n, n - 1) = << >>
    BY <1>1, SubSeqEmpty
  <2>2. V(at[n]) \in Seq(Nat)
    <3>1. at[n] \in Nat
      BY <1>1
    <3> QED
      BY <1>2, <3>1
  <2> HIDE DEF V
  <2> QED
    BY <2>1, <2>2, ConcatEmptySeq
<1>4. ASSUME NEW j \in 1 .. n - 1, Good(j + 1) PROVE Good(j)
  <2>1. at[j] \in readable /\ at[j + 1] = at[j] + EntryCells(cells[at[j]].op) /\ at[j] \in Nat
    BY <1>1 DEF Chain
  <2>2. V(at[j]) = <<at[j]>> \o V(at[j + 1])
    BY <2>1, VisitedStep
  <2> DEFINE s == <<at[j]>>
             t == SubSeq(at, j + 1, n - 1)
             u == V(at[n])
  <2>3. SubSeq(at, j, n - 1) = s \o t
    <3>1. n - 1 \in j .. Len(at) /\ j \in 1 .. Len(at)
      BY <1>1
    <3> QED
      BY <1>1, <3>1, SubSeqRecursiveFirst
  <2>4. s \in Seq(Nat) /\ t \in Seq(Nat) /\ u \in Seq(Nat)
    <3>1. \A i \in j + 1 .. n - 1 : at[i] \in Nat
      BY <1>1
    <3>2. t \in Seq(Nat)
      BY <1>1, <3>1, SubSeqProperties
    <3>3. u \in Seq(Nat)
      <4>1. at[n] \in Nat
        BY <1>1
      <4> QED
        BY <1>2, <4>1
    <3>4. s \in Seq(Nat)
      BY <2>1
    <3> HIDE DEF s, t, u
    <3> QED
      BY <3>2, <3>3, <3>4
  <2>5. (s \o t) \o u = s \o (t \o u)
    <3> HIDE DEF s, t, u
    <3> QED
      BY <2>4, OffsetsRegroup
  <2>6. V(at[j + 1]) = t \o u
    BY <1>4
  <2> HIDE DEF V, s, t, u
  <2> QED
    BY <2>2, <2>3, <2>5, <2>6 DEF s, u
<1>5. ASSUME bad # {} PROVE FALSE
  <2>1. bad \in SUBSET Nat /\ n \in Nat /\ \A j \in bad : j <= n
    <3> HIDE DEF Good
    <3> QED
      BY <1>1
  <2>2. PICK j \in bad : \A i \in bad : i <= j
    <3> HIDE DEF bad
    <3> QED
      BY <1>5, <2>1, GreatestExists
  <2>3. j \in 1 .. n - 1 /\ j + 1 \in 1 .. n /\ j + 1 \notin bad
    <3>1. j # n
      BY <1>3
    <3>2. j \in 1 .. n
      OBVIOUS
    <3> HIDE DEF bad
    <3> QED
      BY <1>1, <2>2, <3>1, <3>2
  <2>4. Good(j + 1)
    BY <2>3
  <2>5. Good(j)
    <3> HIDE DEF Good
    <3> QED
      BY <1>4, <2>3, <2>4
  <2> QED
    BY <2>5
<1> QED
  BY <1>5

\* The offsets of a chain ascend.
LEMMA ChainAscends ==
  ASSUME NEW cells, NEW readable, Readable(cells, readable),
         NEW at, Chain(cells, at, readable), NEW j \in 1 .. Len(at), NEW k \in j + 1 .. Len(at)
  PROVE  at[j] < at[k]
<1> DEFINE bad == {i \in j + 1 .. Len(at) : ~ (at[j] < at[i])}
<1>1. Len(at) \in Nat /\ \A i \in 1 .. Len(at) : at[i] \in Nat
  BY ElementOfSeq, LenProperties DEF Chain
<1>2. \A i \in 1 .. Len(at) - 1 : at[i] < at[i + 1]
  <2> SUFFICES ASSUME NEW i \in 1 .. Len(at) - 1 PROVE at[i] < at[i + 1]
    OBVIOUS
  <2>1. at[i] \in readable /\ at[i + 1] = at[i] + EntryCells(cells[at[i]].op)
    BY DEF Chain
  <2> QED
    BY <2>1, ReadableEntries
<1>3. ASSUME bad # {} PROVE FALSE
  <2>1. PICK i \in bad : \A m \in bad : i <= m
    <3>1. bad \in SUBSET Nat
      OBVIOUS
    <3> HIDE DEF bad
    <3> QED
      BY <1>3, <3>1, LeastExists
  <2>2. i # j + 1
    BY <1>1, <1>2
  <2>3. i - 1 \in j + 1 .. Len(at) /\ i - 1 \notin bad
    <3>1. i \in j + 1 .. Len(at)
      OBVIOUS
    <3> HIDE DEF bad
    <3> QED
      BY <1>1, <2>1, <2>2, <3>1
  <2>4. at[j] < at[i - 1] /\ at[i - 1] < at[(i - 1) + 1]
    <3>1. i - 1 \in 1 .. Len(at) - 1
      BY <1>1, <2>3
    <3>2. at[i - 1] < at[(i - 1) + 1]
      BY <1>2, <3>1
    <3> QED
      BY <2>3, <3>2
  <2>5. at[j] < at[i]
    BY <1>1, <2>3, <2>4
  <2> QED
    BY <2>5
<1> QED
  BY <1>3

-----------------------------------------------------------------------------
(* Recovery. *)

IntactHeaders(cells) == {i \in HeadersOf(cells) : Intact(cells, i)}

\* Both passes of read_all scan offsets of headers.
LEMMA BothReadable ==
  ASSUME NEW cells
  PROVE  /\ Readable(cells, HeadersOf(cells)) /\ Readable(cells, IntactHeaders(cells))
         /\ IntactHeaders(cells) \in SUBSET HeadersOf(cells)
BY DEF Readable, IntactHeaders

\* The greatest of some numbers, when there is one.
LEMMA MaxIs ==
  ASSUME NEW T \in SUBSET Nat, NEW m \in T, \A t \in T : t <= m
  PROVE  Max(T) = m
<1>1. Max(T) \in T /\ \A t \in T : Max(T) >= t
  BY DEF Max
<1>2. Max(T) \in Nat /\ m \in Nat /\ Max(T) >= m /\ Max(T) <= m
  BY <1>1
<1> QED
  BY <1>2

\* A journal that is a chain of whole entries from its start, and behind it at
\* most one entry that is not: recovery gives the operations of the chain that
\* follow its last checkpoint, in order.  p is that checkpoint, 0 if none.
LEMMA RecoveredChain ==
  ASSUME NEW cells, NEW at, Chain(cells, at, IntactHeaders(cells)), at[1] = 0,
         NEW p \in 0 .. Len(at) - 1,
         p > 0 => cells[at[p]].op = Checkpoint,
         \A k \in p + 1 .. Len(at) - 1 : cells[at[k]].op # Checkpoint,
         at[Len(at)] \notin IntactHeaders(cells),
         Range(Visited(cells, at[Len(at)], HeadersOf(cells))) \subseteq
           {i \in HeadersOf(cells) : cells[i].op # Checkpoint}
  PROVE  Recovered(cells) = [k \in 1 .. Len(at) - 1 - p |-> cells[at[p + k]].op]
<1> DEFINE n == Len(at)
           headers == HeadersOf(cells)
           intact == IntactHeaders(cells)
           all == Range(Visited(cells, 0, headers))
           tail == Visited(cells, at[n], headers)
           checkpoints == {i \in all : cells[i].op = Checkpoint}
<1>1. /\ Readable(cells, headers) /\ Readable(cells, intact) /\ intact \subseteq headers
      /\ Chain(cells, at, headers)
  BY BothReadable DEF Chain
<1>2. /\ at \in Seq(Nat) /\ n \in Nat \ {0} /\ 1 \in 1 .. n /\ n \in 1 .. n
      /\ \A k \in 1 .. n : at[k] \in Nat
  BY EmptySeq, ElementOfSeq DEF Chain
<1>3. \A i \in headers : i \in Nat
  BY <1>1, ReadableEntries
<1>4. all = {at[k] : k \in 1 .. n - 1} \cup Range(tail)
  <2> DEFINE first == SubSeq(at, 1, n - 1)
  <2>1. Visited(cells, 0, headers) = first \o tail
    BY <1>1, <1>2, VisitedChain
  <2>2. first \in Seq(Nat) /\ DOMAIN first = 1 .. n - 1 /\ \A k \in 1 .. n - 1 : first[k] = at[k]
    <3>1. \A k \in 1 .. n - 1 : at[k] \in Nat
      BY <1>2
    <3>2. first \in Seq(Nat)
      BY <1>2, <3>1, SubSeqProperties
    <3>3. DOMAIN first = 1 .. n - 1
      BY <1>2
    <3>4. \A k \in 1 .. n - 1 : first[k] = at[k]
      BY <1>2
    <3> QED
      BY <3>2, <3>3, <3>4
  <2>3. tail \in Seq(Nat)
    <3>1. tail \in Seq({r \in headers : r >= at[n]}) /\ {r \in headers : r >= at[n]} \subseteq Nat
      BY <1>1, <1>2, <1>3, VisitedSeq
    <3> HIDE DEF tail, headers
    <3> QED
      BY <3>1, SeqMonotonic
  <2>4. Range(first) = {at[k] : k \in 1 .. n - 1}
    <3> HIDE DEF first, n
    <3>1. Range(first) = {first[k] : k \in 1 .. n - 1}
      BY <2>2, Zenon DEF Range
    <3> QED
      BY <2>2, <3>1
  <2> HIDE DEF first, tail
  <2>5. Range(first \o tail) = Range(first) \cup Range(tail)
    BY <2>2, <2>3, RangeConcatenation
  <2> QED
    BY <2>1, <2>4, <2>5
<1>5. checkpoints = {at[k] : k \in {j \in 1 .. p : cells[at[j]].op = Checkpoint}}
  <2>1. \A i \in Range(tail) : cells[i].op # Checkpoint
    OBVIOUS
  <2>2. \A k \in 1 .. n - 1 : cells[at[k]].op = Checkpoint => k \in 1 .. p
    BY <1>2
  <2>3. \A k \in 1 .. p : k \in 1 .. n - 1
    BY <1>2
  <2> HIDE DEF tail, all
  <2> QED
    BY <1>4, <2>1, <2>2, <2>3
<1>6. AfterLastCheckpoint(cells) = at[p + 1]
  <2>1. CASE p = 0
    <3>1. checkpoints = {}
      BY <1>5, <2>1
    <3> QED
      BY <2>1, <3>1 DEF AfterLastCheckpoint
  <2>2. CASE p > 0
    <3>1. p \in 1 .. n - 1 /\ p \in 1 .. p
      BY <1>2, <2>2
    <3>2. at[p] \in checkpoints
      <4> HIDE DEF checkpoints
      <4> QED
        BY <1>5, <2>2, <3>1
    <3>3. \A i \in checkpoints : i \in Nat /\ i <= at[p]
      <4> SUFFICES ASSUME NEW j \in 1 .. p PROVE at[j] \in Nat /\ at[j] <= at[p]
        <5> HIDE DEF checkpoints
        <5> QED
          BY <1>5
      <4>1. CASE j = p
        BY <1>2, <3>1, <4>1
      <4>2. CASE j # p
        <5>1. j \in 1 .. Len(at) /\ p \in j + 1 .. Len(at)
          BY <1>2, <3>1, <4>2
        <5>2. at[j] < at[p]
          BY <1>1, <5>1, ChainAscends
        <5> QED
          BY <1>2, <3>1, <5>1, <5>2
      <4> QED
        BY <4>1, <4>2
    <3>4. Max(checkpoints) = at[p] /\ checkpoints # {}
      <4>1. checkpoints \in SUBSET Nat
        <5> HIDE DEF checkpoints
        <5> QED
          BY <3>3
      <4> HIDE DEF checkpoints
      <4> QED
        BY <3>2, <3>3, <4>1, MaxIs
    <3>5. at[p + 1] = at[p] + 1
      <4>1. at[p + 1] = at[p] + EntryCells(cells[at[p]].op)
        BY <3>1 DEF Chain
      <4>2. EntryCells(Checkpoint) = 1
        BY WalCodecAssumption DEF EntryCells, Data
      <4> QED
        BY <2>2, <4>1, <4>2
    <3> QED
      BY <3>4, <3>5 DEF AfterLastCheckpoint
  <2> QED
    BY <2>1, <2>2
<1> DEFINE found == SubSeq(at, p + 1, n - 1)
<1>7. Visited(cells, at[p + 1], intact) = found
  <2>1. p + 1 \in 1 .. Len(at)
    BY <1>2
  <2>2. Visited(cells, at[n], intact) = << >>
    BY <1>1, <1>2, VisitedStep
  <2>3. Visited(cells, at[p + 1], intact) = found \o << >>
    BY <1>1, <2>1, <2>2, VisitedChain
  <2>4. found \in Seq(Nat)
    <3>1. \A k \in p + 1 .. n - 1 : at[k] \in Nat
      BY <1>2
    <3> QED
      BY <1>2, <3>1, SubSeqProperties
  <2> HIDE DEF found
  <2> QED
    BY <2>3, <2>4, ConcatEmptySeq
<1>8. /\ DOMAIN found = 1 .. n - 1 - p
      /\ \A k \in 1 .. n - 1 - p : found[k] = at[p + k]
  BY <1>2
<1>9. Recovered(cells) = [k \in DOMAIN found |-> cells[found[k]].op]
  BY <1>6, <1>7 DEF Recovered, IntactHeaders
<1> HIDE DEF found
<1> QED
  BY <1>8, <1>9

\* Whatever is in the journal, an operation recovered is the operation of an
\* entry whose data is there, and never a checkpoint.
LEMMA RecoveredAreEntries ==
  ASSUME NEW cells, NEW op \in Range(Recovered(cells))
  PROVE  op # Checkpoint /\ \E i \in IntactHeaders(cells) : cells[i].op = op
<1> DEFINE headers == HeadersOf(cells)
           intact == IntactHeaders(cells)
           all == Range(Visited(cells, 0, headers))
           checkpoints == {i \in all : cells[i].op = Checkpoint}
           start == AfterLastCheckpoint(cells)
           found == Visited(cells, start, intact)
<1>1. /\ Readable(cells, headers) /\ Readable(cells, intact) /\ intact \in SUBSET headers
  BY BothReadable
<1>2. all \subseteq headers /\ \A i \in headers : i \in Nat /\ i < JournalCells
  BY <1>1, VisitedRange, ReadableEntries
<1>3. /\ start \in Nat
      /\ Range(Visited(cells, start, headers)) \subseteq all
      /\ \A i \in checkpoints : i < start
  <2>1. CASE checkpoints = {}
    <3>1. start = 0
      BY <2>1 DEF AfterLastCheckpoint
    <3> QED
      BY <2>1, <3>1
  <2>2. CASE checkpoints # {}
    <3>1. PICK m \in checkpoints : \A i \in checkpoints : i <= m
      <4>1. checkpoints \in SUBSET Nat /\ JournalCells \in Nat
            /\ \A i \in checkpoints : i <= JournalCells
        <5> HIDE DEF all
        <5> QED
          BY <1>2, WalCodecAssumption
      <4> HIDE DEF checkpoints
      <4> QED
        BY <2>2, <4>1, GreatestExists
    <3>2. checkpoints \in SUBSET Nat
      <4> HIDE DEF all
      <4> QED
        BY <1>2
    <3>3. start = m + 1
      <4>1. Max(checkpoints) = m
        <5> HIDE DEF checkpoints
        <5> QED
          BY <3>1, <3>2, MaxIs
      <4> QED
        BY <2>2, <4>1 DEF AfterLastCheckpoint
    <3>4. m \in headers /\ cells[m].op = Checkpoint /\ m \in all
      <4> HIDE DEF all
      <4> QED
        BY <1>2
    <3>5. EntryCells(Checkpoint) = 1
      BY WalCodecAssumption DEF EntryCells, Data
    <3>6. Range(Visited(cells, m, headers)) = {m} \cup Range(Visited(cells, m + 1, headers))
      BY <1>1, <1>2, <3>4, <3>5, VisitedRange
    <3>7. Range(Visited(cells, m, headers)) \subseteq all
      BY <1>1, <3>4, VisitedWithin
    <3> HIDE DEF all, headers, start
    <3> QED
      BY <1>2, <3>1, <3>2, <3>3, <3>4, <3>6, <3>7
  <2> QED
    BY <2>1, <2>2
<1>4. PICK i \in Range(found) : cells[i].op = op
  <2>1. Recovered(cells) = [k \in DOMAIN found |-> cells[found[k]].op]
    BY DEF Recovered, IntactHeaders
  <2> HIDE DEF found
  <2> QED
    BY <2>1 DEF Range
<1>5. i \in intact /\ i >= start /\ i \in Range(Visited(cells, start, headers))
  <2>1. Range(found) \subseteq {r \in intact : r >= start}
    BY <1>1, <1>3, VisitedRange
  <2>2. Range(found) \subseteq Range(Visited(cells, start, headers))
    BY <1>1, <1>3, VisitedWithin
  <2> HIDE DEF found, start
  <2> QED
    BY <2>1, <2>2
<1>6. i \notin checkpoints
  <2> HIDE DEF checkpoints, start, intact
  <2> QED
    BY <1>1, <1>2, <1>3, <1>5
<1>7. cells[i].op # Checkpoint
  <2> HIDE DEF all
  <2> QED
    BY <1>3, <1>5, <1>6
<1> QED
  BY <1>4, <1>5, <1>7

-----------------------------------------------------------------------------
(* A journal in which every entry has been checkpointed. *)

\* What a scan goes through stays in any set that its start is in and that the
\* end of every readable entry of the set is in.
LEMMA VisitedStays ==
  ASSUME NEW cells, NEW readable, Readable(cells, readable),
         NEW S \in SUBSET Nat, NEW i \in S,
         \A j \in S : j \in readable => j + EntryCells(cells[j].op) \in S
  PROVE  Range(Visited(cells, i, readable)) \subseteq S
<1> DEFINE all(k) == Range(Visited(cells, k, readable))
           bad == {k \in S : ~ (all(k) \subseteq S)}
<1>1. ASSUME bad # {} PROVE FALSE
  <2>1. \A k \in bad : k \in readable
    <3> SUFFICES ASSUME NEW k \in bad, k \notin readable PROVE FALSE
      OBVIOUS
    <3>1. all(k) = {}
      BY VisitedRange
    <3> HIDE DEF all
    <3> QED
      BY <3>1
  <2>2. PICK k \in bad : \A j \in bad : j <= k
    <3>1. bad \in SUBSET Nat /\ JournalCells \in Nat /\ \A j \in bad : j <= JournalCells
      <4> HIDE DEF bad
      <4>1. \A j \in bad : j \in Nat /\ j < JournalCells
        BY <2>1, ReadableEntries
      <4> QED
        BY <4>1, WalCodecAssumption
    <3> HIDE DEF bad
    <3> QED
      BY <1>1, <3>1, GreatestExists
  <2> DEFINE next == k + EntryCells(cells[k].op)
  <2>3. k \in S /\ k \in Nat /\ k \in readable
    BY <2>1
  <2>4. next \in S /\ next \in Nat /\ next > k
    BY <2>3, ReadableEntries
  <2>5. next \notin bad
    <3> HIDE DEF bad, next
    <3> QED
      BY <2>2, <2>3, <2>4
  <2>6. all(next) \subseteq S
    BY <2>4, <2>5
  <2>7. all(k) = {k} \cup all(next)
    BY <2>3, VisitedRange
  <2>8. k \notin bad
    <3> HIDE DEF all, next
    <3> QED
      BY <2>3, <2>6, <2>7
  <2> QED
    BY <2>8
<1> QED
  BY <1>1

\* When another entry follows each one that is not a checkpoint, a reopening
\* replays nothing: the last entry the scan goes through is a checkpoint.
LEMMA NothingToRecover ==
  ASSUME NEW cells,
         \A i \in HeadersOf(cells) :
           cells[i].op # Checkpoint => i + EntryCells(cells[i].op) \in HeadersOf(cells)
  PROVE  Recovered(cells) = << >>
<1> DEFINE headers == HeadersOf(cells)
           intact == IntactHeaders(cells)
           all == Range(Visited(cells, 0, headers))
           checkpoints == {i \in all : cells[i].op = Checkpoint}
           start == AfterLastCheckpoint(cells)
<1>1. Readable(cells, headers) /\ Readable(cells, intact) /\ intact \in SUBSET headers
  BY BothReadable
<1>2. all \subseteq headers /\ \A i \in headers : i \in Nat /\ i < JournalCells
  BY <1>1, VisitedRange, ReadableEntries
<1>3. \A i \in all : i + EntryCells(cells[i].op) \in headers => i + EntryCells(cells[i].op) \in all
  <2> SUFFICES ASSUME NEW i \in all, i + EntryCells(cells[i].op) \in headers
               PROVE  i + EntryCells(cells[i].op) \in all
    OBVIOUS
  <2> DEFINE next == i + EntryCells(cells[i].op)
             from(j) == Range(Visited(cells, j, headers))
  <2>1. i \in headers /\ i \in Nat /\ next \in Nat
    <3> HIDE DEF all, headers
    <3> QED
      BY <1>2
  <2>2. from(i) = {i} \cup from(next)
    BY <1>1, <2>1, VisitedRange
  <2>3. next \in from(next)
    BY <1>1, <2>1, VisitedRange
  <2>4. from(i) \subseteq from(0)
    BY <1>1, VisitedWithin
  <2> HIDE DEF from, next
  <2>5. next \in from(0)
    BY <2>2, <2>3, <2>4
  <2> QED
    BY <2>5 DEF from, next
<1>4. start \in Nat /\ start \notin intact
  <2>1. CASE all = {}
    <3>1. start = 0
      BY <2>1 DEF AfterLastCheckpoint
    <3>2. 0 \notin headers
      BY <1>1, <2>1, VisitedRange
    <3> HIDE DEF start, intact, headers
    <3> QED
      BY <1>1, <3>1, <3>2
  <2>2. CASE all # {}
    <3>1. PICK m \in all : \A i \in all : i <= m
      <4>1. all \in SUBSET Nat /\ JournalCells \in Nat /\ \A i \in all : i <= JournalCells
        <5> HIDE DEF all, headers
        <5> QED
          BY <1>2, WalCodecAssumption
      <4> HIDE DEF all
      <4> QED
        BY <2>2, <4>1, GreatestExists
    <3>2. m \in headers /\ m \in Nat
      <4> HIDE DEF all, headers
      <4> QED
        BY <1>2
    <3>3. m + EntryCells(cells[m].op) \in Nat /\ m + EntryCells(cells[m].op) > m
      BY <1>1, <3>2, ReadableEntries
    <3>4. m + EntryCells(cells[m].op) \notin headers
      <4> HIDE DEF all, headers
      <4> QED
        BY <1>3, <3>1, <3>2, <3>3
    <3>5. cells[m].op = Checkpoint
      BY <3>2, <3>4
    <3>6. m + 1 \notin headers
      <4>1. EntryCells(Checkpoint) = 1
        BY WalCodecAssumption DEF EntryCells, Data
      <4> QED
        BY <3>4, <3>5, <4>1
    <3>7. start = m + 1
      <4>1. m \in checkpoints /\ checkpoints \in SUBSET Nat /\ \A i \in checkpoints : i <= m
        <5> HIDE DEF all, headers
        <5> QED
          BY <1>2, <3>1, <3>5
      <4>2. Max(checkpoints) = m
        <5> HIDE DEF checkpoints
        <5> QED
          BY <4>1, MaxIs
      <4> QED
        BY <4>1, <4>2 DEF AfterLastCheckpoint
    <3> HIDE DEF start, intact, headers
    <3> QED
      BY <1>1, <3>2, <3>6, <3>7
  <2> QED
    BY <2>1, <2>2
<1>5. Visited(cells, start, intact) = << >>
  BY <1>1, <1>4, VisitedStep
<1> HIDE DEF start, intact
<1>6. Recovered(cells) = [k \in DOMAIN << >> |-> cells[<< >>[k]].op]
  BY <1>5 DEF Recovered, IntactHeaders, start, intact
<1> QED
  BY <1>6

\* Headers, data and blank cells differ.
LEMMA PiecesAreNoHeaders ==
  /\ \A op, k : Piece(op, k) \notin Headers
  /\ \A op, seq, other, k : Header(op, seq) # Piece(other, k)
  /\ \A op \in Ops \cup {Checkpoint}, seq \in Nat :
       Header(op, seq) \in Headers /\ Header(op, seq).op = op
  /\ Blank \notin Headers
  /\ \A op, k, other, l : Piece(op, k) = Piece(other, l) => op = other /\ k = l
BY WalCodecAssumption DEF Piece, Header, Headers

\* Where a reopened log writes: no entry begins before and ends behind it.
LEMMA TailOffset ==
  ASSUME NEW cells
  PROVE  LET tail == ScanTail(cells)
         IN  /\ tail.write_offset \in Nat
             /\ tail.write_offset = 0 \/ tail.write_offset < JournalCells
             /\ tail.next_sequence \in Nat
             /\ Recovered(cells) = << >> => tail.entries = 0
             /\ \A i \in HeadersOf(cells) : i < tail.write_offset =>
                  i + EntryCells(cells[i].op) <= tail.write_offset
<1> DEFINE headers == HeadersOf(cells)
           readable == {i \in headers : /\ cells[i].op # Checkpoint
                                        /\ i + EntryCells(cells[i].op) <= JournalCells
                                        /\ Intact(cells, i)}
           tail == Visited(cells, 0, readable)
           last == IF tail = << >> THEN 0 ELSE tail[Len(tail)]
           S == {j \in Nat : \A i \in headers : i < j => i + EntryCells(cells[i].op) <= j}
<1>1. Readable(cells, readable) /\ Readable(cells, headers)
  BY DEF Readable
<1>2. \A i \in headers : /\ i \in Nat /\ i < JournalCells
                         /\ i + EntryCells(cells[i].op) \in Nat
                         /\ cells[i] \in Headers
                         /\ Data(cells[i].op) \in Nat
                         /\ EntryCells(cells[i].op) = 1 + Data(cells[i].op)
  <2> SUFFICES ASSUME NEW i \in headers
               PROVE  /\ i \in Nat /\ i < JournalCells
                      /\ i + EntryCells(cells[i].op) \in Nat
                      /\ cells[i] \in Headers
                      /\ Data(cells[i].op) \in Nat
                      /\ EntryCells(cells[i].op) = 1 + Data(cells[i].op)
    OBVIOUS
  <2>1. cells[i].op \in Ops \cup {Checkpoint} /\ i \in Nat /\ i < JournalCells
        /\ i + EntryCells(cells[i].op) \in Nat
    BY <1>1, ReadableEntries
  <2> QED
    BY <2>1, EntrySizes DEF HeadersOf
<1>3. \A j \in S : j \in readable => j + EntryCells(cells[j].op) \in S
  <2> SUFFICES ASSUME NEW j \in S, j \in readable PROVE j + EntryCells(cells[j].op) \in S
    OBVIOUS
  <2> DEFINE size == Data(cells[j].op)
  <2>1. j \in headers /\ j \in Nat /\ size \in Nat /\ EntryCells(cells[j].op) = 1 + size
    BY <1>2
  <2>2. \A k \in 1 .. size : j + k \notin headers
    BY PiecesAreNoHeaders DEF Intact, HeadersOf
  <2>3. \A i \in headers : i < j + (1 + size) => i + EntryCells(cells[i].op) <= j + (1 + size)
    <3> SUFFICES ASSUME NEW i \in headers, i < j + (1 + size)
                 PROVE  i + EntryCells(cells[i].op) <= j + (1 + size)
      OBVIOUS
    <3>1. CASE i < j
      <4>1. i + EntryCells(cells[i].op) <= j
        BY <3>1
      <4> HIDE DEF headers, size
      <4> QED
        BY <1>2, <2>1, <4>1
    <3>2. CASE i = j
      <4> HIDE DEF headers, size
      <4> QED
        BY <1>2, <2>1, <3>2
    <3>3. CASE i > j
      <4> HIDE DEF headers, size
      <4>1. i - j \in 1 .. size /\ j + (i - j) = i
        BY <1>2, <2>1, <3>3
      <4> QED
        BY <2>2, <4>1
    <3> HIDE DEF headers
    <3> QED
      BY <1>2, <2>1, <3>1, <3>2, <3>3
  <2> HIDE DEF headers, size, readable
  <2> QED
    BY <2>1, <2>3
<1>4. 0 \in S
  <2> HIDE DEF headers
  <2> QED
    BY <1>2
<1>5. Range(tail) \subseteq S
  <2> HIDE DEF readable, S
  <2>1. S \in SUBSET Nat
    BY DEF S
  <2> QED
    BY <1>1, <1>3, <1>4, <2>1, VisitedStays
<1>6. Range(tail) \subseteq readable /\ tail \in Seq(readable)
  <2> HIDE DEF readable
  <2>1. tail \in Seq({r \in readable : r >= 0})
    BY <1>1, VisitedSeq
  <2> HIDE DEF tail
  <2>2. tail \in Seq(readable)
    BY <2>1, SeqMonotonic
  <2> QED
    BY <1>1, <2>2, LenProperties DEF Range
<1>7. tail # << >> => last \in Range(tail)
  <2> HIDE DEF readable
  <2> HIDE DEF tail
  <2> QED
    BY <1>6, LenProperties DEF Range
<1>8. last \in S /\ (last = 0 \/ last \in readable)
  <2> HIDE DEF readable, tail, S, headers
  <2> QED
    BY <1>4, <1>5, <1>6, <1>7
<1>9. cells[last].seq \in Nat \/ tail = << >>
  <2>1. tail # << >> => last \in headers
    <3> HIDE DEF headers, tail
    <3> QED
      BY <1>6, <1>7
  <2>2. \A i \in headers : cells[i].seq \in Nat
    BY DEF HeadersOf, Headers
  <2> HIDE DEF headers, tail, last
  <2> QED
    BY <2>1, <2>2
<1>10. ScanTail(cells) = [write_offset |-> last,
                          next_sequence |-> IF tail = << >> THEN 1 ELSE cells[last].seq + 1,
                          entries |-> IF last > 0 THEN Len(Recovered(cells)) ELSE 0]
  BY DEF ScanTail
<1>11. last \in Nat /\ (last = 0 \/ last < JournalCells)
  <2>1. last \in readable => last \in Nat /\ last < JournalCells
    <3> HIDE DEF last, headers
    <3> QED
      BY <1>2
  <2> HIDE DEF last, readable, S
  <2> QED
    BY <1>8, <2>1
<1>12. \A i \in headers : i < last => i + EntryCells(cells[i].op) <= last
  <2> HIDE DEF last, headers, readable
  <2> QED
    BY <1>8
<1> HIDE DEF last, tail, S, readable
<1> QED
  BY <1>9, <1>10, <1>11, <1>12

-----------------------------------------------------------------------------
(* The journal of a session that began with blank cells. *)

\* The operations of a chain behind its p-th entry.
Behind(cells, at, p) == [k \in 1 .. Len(at) - 1 - p |-> cells[at[p + k]].op]

\* The journal is a chain of whole entries, p the last checkpoint among them,
\* and at most one torn entry.
FirstJournal(cells, at, p) ==
  LET end == at[Len(at)]
  IN  /\ Chain(cells, at, IntactHeaders(cells)) /\ at[1] = 0
      /\ p \in 0 .. Len(at) - 1
      /\ p > 0 => cells[at[p]].op = Checkpoint
      /\ \A k \in p + 1 .. Len(at) - 1 : cells[at[k]].op # Checkpoint
      /\ end <= JournalCells
      /\ end \notin IntactHeaders(cells)
      /\ end \in HeadersOf(cells) => cells[end].op # Checkpoint
      /\ \A i \in end + 1 .. JournalCells - 1 : cells[i] \notin Headers

\* Where the entries of a chain lie: before its end, one entry length each.
LEMMA ChainPlaces ==
  ASSUME NEW cells, NEW at, Chain(cells, at, IntactHeaders(cells))
  PROVE  /\ Len(at) \in Nat \ {0} /\ \A k \in 1 .. Len(at) : at[k] \in Nat
         /\ \A k \in 1 .. Len(at) - 1 :
              /\ at[k] \in HeadersOf(cells) /\ Intact(cells, at[k])
              /\ at[k] + EntryCells(cells[at[k]].op) <= at[Len(at)]
              /\ cells[at[k]].op \in Ops \cup {Checkpoint}
<1>1. Readable(cells, IntactHeaders(cells))
  BY BothReadable
<1>2. Len(at) \in Nat \ {0} /\ \A k \in 1 .. Len(at) : at[k] \in Nat
  BY EmptySeq, ElementOfSeq DEF Chain
<1>3. ASSUME NEW k \in 1 .. Len(at) - 1
      PROVE  /\ at[k] \in HeadersOf(cells) /\ Intact(cells, at[k])
             /\ at[k] + EntryCells(cells[at[k]].op) <= at[Len(at)]
             /\ cells[at[k]].op \in Ops \cup {Checkpoint}
  <2>1. at[k] \in IntactHeaders(cells) /\ at[k + 1] = at[k] + EntryCells(cells[at[k]].op)
    BY DEF Chain
  <2>2. at[k + 1] <= at[Len(at)]
    <3>1. CASE k + 1 = Len(at)
      BY <1>2, <3>1
    <3>2. CASE k + 1 # Len(at)
      <4>1. k + 1 \in 1 .. Len(at) /\ Len(at) \in (k + 1) + 1 .. Len(at)
        BY <1>2, <3>2
      <4>2. at[k + 1] < at[Len(at)]
        BY <1>1, <4>1, ChainAscends
      <4> QED
        BY <1>2, <4>1, <4>2
    <3> QED
      BY <3>1, <3>2
  <2>3. cells[at[k]].op \in Ops \cup {Checkpoint}
    BY <1>1, <2>1, ReadableEntries
  <2> QED
    BY <2>1, <2>2, <2>3 DEF IntactHeaders
<1> QED
  BY <1>2, <1>3

\* A write behind a chain ...
SameBefore(new, cells, end) == \A i \in Nat : i < end => new[i] = cells[i]

SameEntries(new, cells, at) == \A k \in 1 .. Len(at) - 1 : new[at[k]] = cells[at[k]]

\* ... leaves the chain and its entries alone.
LEMMA ChainKept ==
  ASSUME NEW cells, NEW new, NEW at, Chain(cells, at, IntactHeaders(cells)),
         SameBefore(new, cells, at[Len(at)])
  PROVE  Chain(new, at, IntactHeaders(new)) /\ SameEntries(new, cells, at)
<1> DEFINE n == Len(at)
<1>1. /\ n \in Nat \ {0} /\ \A k \in 1 .. n : at[k] \in Nat
      /\ \A k \in 1 .. n - 1 :
           /\ at[k] \in HeadersOf(cells) /\ Intact(cells, at[k])
           /\ at[k] + EntryCells(cells[at[k]].op) <= at[n]
           /\ cells[at[k]].op \in Ops \cup {Checkpoint}
  BY ChainPlaces
<1>2. ASSUME NEW k \in 1 .. n - 1
      PROVE  new[at[k]] = cells[at[k]] /\ at[k] \in IntactHeaders(new)
  <2> DEFINE op == cells[at[k]].op
  <2>1. /\ EntryCells(op) \in Nat \ {0} /\ EntryCells(op) = 1 + Data(op) /\ Data(op) \in Nat
        /\ at[k] \in Nat /\ at[n] \in Nat
    BY <1>1, EntrySizes
  <2>2. new[at[k]] = cells[at[k]]
    BY <1>1, <2>1 DEF SameBefore
  <2>3. at[k] \in HeadersOf(new)
    BY <1>1, <2>2 DEF HeadersOf
  <2>4. ASSUME NEW j \in 1 .. Data(op) PROVE new[at[k] + j] = cells[at[k] + j]
    <3>1. at[k] + EntryCells(op) <= at[n]
      BY <1>1
    <3>2. at[k] + j \in Nat /\ at[k] + j < at[n]
      <4> HIDE DEF op, n
      <4> QED
        BY <2>1, <3>1
    <3> QED
      BY <3>2 DEF SameBefore
  <2>5. Intact(new, at[k])
    BY <1>1, <2>2, <2>4 DEF Intact
  <2> QED
    BY <2>2, <2>3, <2>5 DEF IntactHeaders
<1>3. \A k \in 1 .. n - 1 : at[k + 1] = at[k] + EntryCells(new[at[k]].op)
  BY <1>2 DEF Chain
<1> QED
  BY <1>2, <1>3 DEF Chain, SameEntries

\* A whole entry at the end of a chain makes it longer by one.
LEMMA ChainGrows ==
  ASSUME NEW cells, NEW at, Chain(cells, at, IntactHeaders(cells)),
         at[Len(at)] \in IntactHeaders(cells)
  PROVE  LET end == at[Len(at)]
             longer == Append(at, end + EntryCells(cells[end].op))
         IN  /\ Chain(cells, longer, IntactHeaders(cells))
             /\ Len(longer) = Len(at) + 1
             /\ \A k \in 1 .. Len(at) : longer[k] = at[k]
             /\ longer[Len(at) + 1] = end + EntryCells(cells[end].op)
<1> DEFINE end == at[Len(at)]
           behind == end + EntryCells(cells[end].op)
           longer == Append(at, behind)
<1>1. Len(at) \in Nat \ {0} /\ at \in Seq(Nat)
  BY ChainPlaces DEF Chain
<1>2. behind \in Nat
  BY BothReadable, ReadableEntries
<1>3. /\ longer \in Seq(Nat) /\ longer # << >> /\ Len(longer) = Len(at) + 1
      /\ \A k \in 1 .. Len(at) : longer[k] = at[k]
      /\ longer[Len(at) + 1] = behind
  <2> HIDE DEF behind
  <2> QED
    BY <1>1, <1>2, AppendProperties
<1>4. ASSUME NEW k \in 1 .. Len(longer) - 1
      PROVE  /\ longer[k] \in IntactHeaders(cells)
             /\ longer[k + 1] = longer[k] + EntryCells(cells[longer[k]].op)
  <2> HIDE DEF longer
  <2>1. CASE k = Len(at)
    BY <1>1, <1>3, <2>1
  <2>2. CASE k # Len(at)
    <3>1. k \in 1 .. Len(at) - 1 /\ k \in 1 .. Len(at) /\ k + 1 \in 1 .. Len(at)
      BY <1>1, <1>3, <2>2
    <3>2. longer[k] = at[k] /\ longer[k + 1] = at[k + 1]
      BY <1>3, <3>1
    <3> QED
      BY <3>1, <3>2 DEF Chain
  <2> QED
    BY <2>1, <2>2
<1> HIDE DEF longer
<1>5. Chain(cells, longer, IntactHeaders(cells))
  BY <1>3, <1>4 DEF Chain
<1> QED
  BY <1>3, <1>5 DEF longer

\* In the first session's journal recovery finds the operations behind the
\* last checkpoint.
LEMMA RecoveredIs ==
  ASSUME NEW cells, NEW at, NEW p, FirstJournal(cells, at, p)
  PROVE  Recovered(cells) = Behind(cells, at, p)
<1> DEFINE end == at[Len(at)]
           headers == HeadersOf(cells)
<1>1. end \in Nat
  BY ChainPlaces DEF FirstJournal
<1>2. Range(Visited(cells, end, headers)) \subseteq {i \in headers : cells[i].op # Checkpoint}
  <2>1. Readable(cells, headers)
    BY BothReadable
  <2>2. CASE end \notin headers
    BY <1>1, <2>1, <2>2, VisitedRange
  <2>3. CASE end \in headers
    <3> DEFINE next == end + EntryCells(cells[end].op)
    <3>1. next \in Nat /\ next > end
      BY <2>1, <2>3, ReadableEntries
    <3>2. next \notin headers
      <4>1. next \in end + 1 .. JournalCells - 1 => cells[next] \notin Headers
        BY DEF FirstJournal
      <4> HIDE DEF next
      <4> QED
        BY <1>1, <3>1, <4>1, WalCodecAssumption DEF HeadersOf
    <3>3. Range(Visited(cells, end, headers)) = {end} \cup Range(Visited(cells, next, headers))
      BY <1>1, <2>1, <2>3, VisitedRange
    <3>4. Range(Visited(cells, next, headers)) = {}
      BY <2>1, <3>1, <3>2, VisitedRange
    <3>5. cells[end].op # Checkpoint
      BY <2>3 DEF FirstJournal
    <3> QED
      BY <2>3, <3>3, <3>4, <3>5
  <2> QED
    BY <2>2, <2>3
<1> QED
  BY <1>2, RecoveredChain DEF FirstJournal, Behind

\* The operations grow by one with the chain.
LEMMA BehindGrows ==
  ASSUME NEW cells, NEW new, NEW at, NEW longer, NEW p \in 0 .. Len(at) - 1,
         Len(at) \in Nat \ {0}, Len(longer) = Len(at) + 1,
         \A k \in 1 .. Len(at) : longer[k] = at[k],
         SameEntries(new, cells, at)
  PROVE  Behind(new, longer, p) = Append(Behind(cells, at, p), new[at[Len(at)]].op)
<1> DEFINE n == Len(at)
           old == Behind(cells, at, p)
           more == Behind(new, longer, p)
           op == new[at[n]].op
<1>1. /\ old = [k \in 1 .. n - 1 - p |-> cells[at[p + k]].op]
      /\ more = [k \in 1 .. n - p |-> new[longer[p + k]].op]
  BY DEF Behind
<1>2. \A k \in 1 .. n - 1 - p : more[k] = old[k]
  <2> SUFFICES ASSUME NEW k \in 1 .. n - 1 - p PROVE more[k] = old[k]
    OBVIOUS
  <2>1. p + k \in 1 .. n - 1 /\ p + k \in 1 .. n /\ k \in 1 .. n - p
    OBVIOUS
  <2>2. new[longer[p + k]] = cells[at[p + k]]
    BY <2>1 DEF SameEntries
  <2> HIDE DEF old, more
  <2> QED
    BY <1>1, <2>1, <2>2
<1>3. n - p \in 1 .. n - p /\ more[n - p] = op
  <2>1. n - p \in 1 .. n - p /\ p + (n - p) = n /\ n \in 1 .. n
    OBVIOUS
  <2> HIDE DEF old, more
  <2> QED
    BY <1>1, <2>1
<1> DEFINE S == {op} \cup {old[k] : k \in 1 .. n - 1 - p}
<1>4. n - p \in Nat /\ n - 1 - p \in Nat
  OBVIOUS
<1>5. old \in Seq(S) /\ Len(old) = n - 1 - p
  <2> DEFINE m == n - 1 - p
  <2>1. old = [k \in 1 .. m |-> old[k]] /\ \A k \in 1 .. m : old[k] \in S
    <3> HIDE DEF op
    <3> QED
      BY <1>1
  <2> HIDE DEF old, op, S, m
  <2> QED
    BY <1>4, <2>1 DEF m
<1>6. more \in Seq(S) /\ Len(more) = n - p
  <2> DEFINE m == n - p
  <2>1. more = [k \in 1 .. m |-> more[k]]
    BY <1>1
  <2>2. \A k \in 1 .. m : more[k] \in S
    <3>1. \A k \in 1 .. m : k = n - p \/ k \in 1 .. n - 1 - p
      OBVIOUS
    <3> HIDE DEF old, more, op, m
    <3> QED
      BY <1>2, <1>3, <3>1
  <2> HIDE DEF more, op, S, m
  <2> QED
    BY <1>4, <2>1, <2>2 DEF m
<1>7. /\ Append(old, op) \in Seq(S) /\ Len(Append(old, op)) = n - p
      /\ \A k \in 1 .. n - 1 - p : Append(old, op)[k] = old[k]
      /\ Append(old, op)[n - p] = op
  <2>1. op \in S /\ (n - 1 - p) + 1 = n - p
    OBVIOUS
  <2> HIDE DEF old, op, S
  <2> QED
    BY <1>5, <2>1, AppendProperties
<1>8. \A k \in 1 .. n - p : Append(old, op)[k] = more[k]
  <2>1. \A k \in 1 .. n - p : k = n - p \/ k \in 1 .. n - 1 - p
    OBVIOUS
  <2> HIDE DEF old, more, op, S
  <2> QED
    BY <1>2, <1>3, <1>7, <2>1
<1> HIDE DEF old, more, op, S
<1>9. Append(old, op) = more
  BY <1>6, <1>7, <1>8, SeqEqual
<1> QED
  BY <1>9 DEF old, more, op

\* The journal up to an offset is a chain of whole entries, blank behind it, and
\* these are the operations behind the last checkpoint.
Journaled(cells, end, ops) ==
  \E at, p : /\ FirstJournal(cells, at, p) /\ at[Len(at)] = end
             /\ ops = Behind(cells, at, p)
             /\ \A i \in end .. JournalCells - 1 : cells[i] = Blank

\* A reopening replays these.
LEMMA JournaledRecovers ==
  ASSUME NEW cells, NEW end, NEW ops, Journaled(cells, end, ops)
  PROVE  Recovered(cells) = ops /\ ops \in Seq(Ops) /\ end \in Nat /\ end <= JournalCells
<1>1. PICK at, p : FirstJournal(cells, at, p) /\ at[Len(at)] = end /\ ops = Behind(cells, at, p)
  BY DEF Journaled
<1>2. Recovered(cells) = ops
  BY <1>1, RecoveredIs
<1>3. /\ Len(at) \in Nat \ {0} /\ \A k \in 1 .. Len(at) : at[k] \in Nat
      /\ \A k \in 1 .. Len(at) - 1 : cells[at[k]].op \in Ops \cup {Checkpoint}
  BY <1>1, ChainPlaces DEF FirstJournal
<1>4. p \in 0 .. Len(at) - 1 /\ \A k \in p + 1 .. Len(at) - 1 : cells[at[k]].op # Checkpoint
  BY <1>1 DEF FirstJournal
<1> DEFINE n == Len(at) - 1 - p
<1>5. n \in Nat /\ \A k \in 1 .. n : p + k \in p + 1 .. Len(at) - 1 /\ p + k \in 1 .. Len(at) - 1
  BY <1>3, <1>4
<1>6. \A k \in 1 .. n : cells[at[p + k]].op \in Ops
  <2> HIDE DEF n
  <2> QED
    BY <1>3, <1>4, <1>5
<1>7. ops = [k \in 1 .. n |-> cells[at[p + k]].op]
  BY <1>1 DEF Behind
<1>8. ops \in Seq(Ops)
  <2> HIDE DEF n
  <2> QED
    BY <1>5, <1>6, <1>7
<1>9. end \in Nat /\ end <= JournalCells
  BY <1>1, <1>3 DEF FirstJournal
<1> QED
  BY <1>2, <1>8, <1>9

\* A new journal is one.
LEMMA JournaledBlank ==
  ASSUME NEW cells, \A i \in 0 .. JournalCells - 1 : cells[i] = Blank
  PROVE  Journaled(cells, 0, << >>)
<1> DEFINE at == <<0>>
<1>1. at \in Seq(Nat) /\ Len(at) = 1 /\ at[1] = 0 /\ at # << >>
  OBVIOUS
<1>2. HeadersOf(cells) = {}
  BY PiecesAreNoHeaders DEF HeadersOf
<1>3. IntactHeaders(cells) = {}
  BY <1>2 DEF IntactHeaders
<1> HIDE DEF at
<1>4. Chain(cells, at, IntactHeaders(cells))
  BY <1>1 DEF Chain
<1>5. \A i \in 1 .. JournalCells - 1 : cells[i] \notin Headers
  BY PiecesAreNoHeaders, WalCodecAssumption
<1>6. FirstJournal(cells, at, 0)
  BY <1>1, <1>2, <1>3, <1>4, <1>5, WalCodecAssumption DEF FirstJournal
<1>7. Behind(cells, at, 0) = << >>
  BY <1>1 DEF Behind
<1> QED
  BY <1>1, <1>6, <1>7 DEF Journaled

\* An entry written where it ends, and what is blank behind it.
WrittenAt(new, cells, end, op) ==
  /\ new[end] \in Headers /\ new[end].op = op
  /\ \A k \in 1 .. Data(op) : new[end + k] = Piece(op, k)
  /\ \A i \in Nat : i < end => new[i] = cells[i]
  /\ \A i \in end + EntryCells(op) .. JournalCells - 1 : new[i] = cells[i]

\* It makes the chain one longer.
LEMMA ChainWritten ==
  ASSUME NEW cells, NEW at, NEW p, FirstJournal(cells, at, p),
         NEW op \in Ops \cup {Checkpoint}, NEW new,
         WrittenAt(new, cells, at[Len(at)], op),
         at[Len(at)] + EntryCells(op) <= JournalCells,
         \A i \in at[Len(at)] .. JournalCells - 1 : cells[i] = Blank
  PROVE  LET end == at[Len(at)]
             longer == Append(at, end + EntryCells(op))
         IN  /\ Chain(new, longer, IntactHeaders(new))
             /\ Len(longer) = Len(at) + 1 /\ Len(at) \in Nat \ {0}
             /\ \A k \in 1 .. Len(at) : longer[k] = at[k]
             /\ longer[Len(at) + 1] = end + EntryCells(op)
             /\ SameEntries(new, cells, at)
             /\ end + EntryCells(op) \in Nat
             /\ \A i \in end + EntryCells(op) .. JournalCells - 1 : new[i] = Blank
<1> DEFINE end == at[Len(at)]
<1>1. /\ Chain(cells, at, IntactHeaders(cells))
      /\ Len(at) \in Nat \ {0} /\ end \in Nat
  BY ChainPlaces DEF FirstJournal
<1>2. EntryCells(op) \in Nat \ {0} /\ JournalCells \in Nat
  BY EntrySizes, WalCodecAssumption
<1>3. Chain(new, at, IntactHeaders(new)) /\ SameEntries(new, cells, at)
  <2>1. SameBefore(new, cells, end)
    BY DEF SameBefore, WrittenAt
  <2> HIDE DEF end
  <2> QED
    BY <1>1, <2>1, ChainKept DEF end
<1>4. end \in IntactHeaders(new) /\ new[end].op = op
  <2>1. end \in 0 .. JournalCells - 1
    <3> HIDE DEF end
    <3> QED
      BY <1>1, <1>2 DEF end
  <2>2. new[end] \in Headers /\ new[end].op = op /\ \A k \in 1 .. Data(op) : new[end + k] = Piece(op, k)
    BY DEF WrittenAt
  <2> HIDE DEF end
  <2> QED
    BY <2>1, <2>2 DEF IntactHeaders, HeadersOf, Intact
<1>5. /\ Chain(new, Append(at, end + EntryCells(op)), IntactHeaders(new))
      /\ Len(Append(at, end + EntryCells(op))) = Len(at) + 1
      /\ \A k \in 1 .. Len(at) : Append(at, end + EntryCells(op))[k] = at[k]
      /\ Append(at, end + EntryCells(op))[Len(at) + 1] = end + EntryCells(op)
  BY <1>3, <1>4, ChainGrows
<1>6. \A i \in end + EntryCells(op) .. JournalCells - 1 : new[i] = Blank
  <2>1. \A i \in end + EntryCells(op) .. JournalCells - 1 : i \in end .. JournalCells - 1
    <3> HIDE DEF end
    <3> QED
      BY <1>1, <1>2
  <2>2. \A i \in end + EntryCells(op) .. JournalCells - 1 : new[i] = cells[i]
    BY DEF WrittenAt
  <2> QED
    BY <2>1, <2>2
<1>7. end + EntryCells(op) \in Nat
  <2> HIDE DEF end
  <2> QED
    BY <1>1, <1>2
<1> QED
  BY <1>1, <1>3, <1>5, <1>6, <1>7

\* The chain that is one longer is a journal, from any checkpoint of it on.
LEMMA LongerIsFirst ==
  ASSUME NEW new, NEW longer, Chain(new, longer, IntactHeaders(new)), longer[1] = 0,
         NEW p \in 0 .. Len(longer) - 1,
         p > 0 => new[longer[p]].op = Checkpoint,
         \A k \in p + 1 .. Len(longer) - 1 : new[longer[k]].op # Checkpoint,
         longer[Len(longer)] <= JournalCells,
         \A i \in longer[Len(longer)] .. JournalCells - 1 : new[i] = Blank
  PROVE  FirstJournal(new, longer, p)
<1> DEFINE end == longer[Len(longer)]
<1>1. end \in Nat /\ JournalCells \in Nat
  BY ChainPlaces, WalCodecAssumption
<1>2. \A i \in end .. JournalCells - 1 : new[i] \notin Headers
  BY PiecesAreNoHeaders
<1>3. end \notin HeadersOf(new)
  <2> HIDE DEF end
  <2> QED
    BY <1>1, <1>2 DEF HeadersOf
<1>4. end \notin IntactHeaders(new)
  BY <1>3 DEF IntactHeaders
<1>5. \A i \in end + 1 .. JournalCells - 1 : new[i] \notin Headers
  <2> HIDE DEF end
  <2> QED
    BY <1>1, <1>2
<1> QED
  BY <1>3, <1>4, <1>5 DEF FirstJournal

\* A logged operation is replayed after the others.
LEMMA JournaledAppends ==
  ASSUME NEW cells, NEW end, NEW ops, Journaled(cells, end, ops), NEW op \in Ops,
         NEW new, WrittenAt(new, cells, end, op), end + EntryCells(op) <= JournalCells
  PROVE  Journaled(new, end + EntryCells(op), Append(ops, op))
<1>1. PICK at, p : /\ FirstJournal(cells, at, p) /\ at[Len(at)] = end
                   /\ ops = Behind(cells, at, p)
                   /\ \A i \in end .. JournalCells - 1 : cells[i] = Blank
  BY DEF Journaled
<1> DEFINE next == end + EntryCells(op)
           longer == Append(at, next)
<1>2. /\ Chain(new, longer, IntactHeaders(new))
      /\ Len(longer) = Len(at) + 1 /\ Len(at) \in Nat \ {0}
      /\ \A k \in 1 .. Len(at) : longer[k] = at[k]
      /\ longer[Len(at) + 1] = next
      /\ SameEntries(new, cells, at)
      /\ next \in Nat
      /\ \A i \in next .. JournalCells - 1 : new[i] = Blank
  BY <1>1, ChainWritten
<1>3. /\ at[1] = 0 /\ p \in 0 .. Len(at) - 1
      /\ p > 0 => cells[at[p]].op = Checkpoint
      /\ \A k \in p + 1 .. Len(at) - 1 : cells[at[k]].op # Checkpoint
  BY <1>1 DEF FirstJournal
<1>4. new[end].op = op /\ op # Checkpoint
  BY WalCodecAssumption DEF WrittenAt
<1> HIDE DEF longer, next
<1>5. /\ longer[1] = 0 /\ p \in 0 .. Len(longer) - 1
      /\ p > 0 => new[longer[p]].op = Checkpoint
      /\ \A k \in p + 1 .. Len(longer) - 1 : new[longer[k]].op # Checkpoint
  <2>1. longer[1] = 0 /\ p \in 0 .. Len(longer) - 1
    BY <1>2, <1>3
  <2>2. \A k \in 1 .. Len(at) - 1 : new[longer[k]] = cells[at[k]]
    BY <1>2 DEF SameEntries
  <2>3. p > 0 => new[longer[p]].op = Checkpoint
    BY <1>2, <1>3, <2>2
  <2>4. ASSUME NEW k \in p + 1 .. Len(longer) - 1 PROVE new[longer[k]].op # Checkpoint
    <3>1. CASE k = Len(at)
      BY <1>1, <1>2, <1>4, <3>1
    <3>2. CASE k # Len(at)
      <4>1. k \in p + 1 .. Len(at) - 1 /\ k \in 1 .. Len(at) - 1
        BY <1>2, <1>3, <3>2
      <4> QED
        BY <1>3, <2>2, <4>1
    <3> QED
      BY <3>1, <3>2
  <2> QED
    BY <2>1, <2>3, <2>4
<1>6. longer[Len(longer)] = next /\ next <= JournalCells
  BY <1>2 DEF next
<1>7. FirstJournal(new, longer, p)
  BY <1>2, <1>5, <1>6, LongerIsFirst
<1>8. Behind(new, longer, p) = Append(ops, op)
  <2>1. Behind(new, longer, p) = Append(Behind(cells, at, p), new[at[Len(at)]].op)
    BY <1>2, <1>3, BehindGrows
  <2> QED
    BY <1>1, <1>4, <2>1
<1> QED
  BY <1>2, <1>6, <1>7, <1>8 DEF Journaled, next

\* A checkpoint leaves nothing to replay.
LEMMA JournaledCheckpoint ==
  ASSUME NEW cells, NEW end, NEW ops, Journaled(cells, end, ops),
         NEW new, WrittenAt(new, cells, end, Checkpoint), end < JournalCells
  PROVE  Journaled(new, end + 1, << >>)
<1>1. PICK at, p : /\ FirstJournal(cells, at, p) /\ at[Len(at)] = end
                   /\ \A i \in end .. JournalCells - 1 : cells[i] = Blank
  BY DEF Journaled
<1>0. EntryCells(Checkpoint) = 1 /\ end \in Nat /\ JournalCells \in Nat
  BY JournaledRecovers, WalCodecAssumption DEF EntryCells, Data
<1> DEFINE next == end + 1
           longer == Append(at, next)
<1>2. /\ Chain(new, longer, IntactHeaders(new))
      /\ Len(longer) = Len(at) + 1 /\ Len(at) \in Nat \ {0}
      /\ \A k \in 1 .. Len(at) : longer[k] = at[k]
      /\ longer[Len(at) + 1] = next
      /\ \A i \in next .. JournalCells - 1 : new[i] = Blank
  <2>1. end + EntryCells(Checkpoint) = next /\ next <= JournalCells
    BY <1>0
  <2>2. /\ FirstJournal(cells, at, p) /\ WrittenAt(new, cells, at[Len(at)], Checkpoint)
        /\ at[Len(at)] + EntryCells(Checkpoint) <= JournalCells
        /\ \A i \in at[Len(at)] .. JournalCells - 1 : cells[i] = Blank
    BY <1>1, <2>1
  <2> QED
    BY <1>1, <2>1, <2>2, ChainWritten
<1>3. at[1] = 0 /\ new[end].op = Checkpoint
  BY <1>1 DEF FirstJournal, WrittenAt
<1> HIDE DEF longer
<1>4. /\ longer[1] = 0 /\ Len(at) \in 0 .. Len(longer) - 1
      /\ new[longer[Len(at)]].op = Checkpoint
      /\ \A k \in Len(at) + 1 .. Len(longer) - 1 : new[longer[k]].op # Checkpoint
      /\ longer[Len(longer)] = next /\ next <= JournalCells
  BY <1>0, <1>1, <1>2, <1>3
<1>5. FirstJournal(new, longer, Len(at))
  BY <1>2, <1>4, LongerIsFirst
<1>6. Behind(new, longer, Len(at)) = << >>
  BY <1>2 DEF Behind
<1> QED
  BY <1>2, <1>4, <1>5, <1>6 DEF Journaled
=============================================================================
