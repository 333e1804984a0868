------------------------------ MODULE WalCodec ------------------------------
(***************************************************************************)
(* The journal as wal.rs reads it back.  It is an array of 32-byte cells:  *)
(* a header fills one cell, its data the next ones.  Offsets are always    *)
(* multiples of a cell, so the code's end-of-block adjustments never bite. *)
(* The CRC is taken to be injective, and a cell of stale data never to     *)
(* look like a header: either ends a scan.                                 *)
(***************************************************************************)
EXTENDS Naturals, Sequences, Functions, FiniteSetsExt

CONSTANTS
  JournalCells,  \* cells of the journal region
  Ops,           \* operations that can be logged
  DataCells,     \* cells taken by the data of an operation
  Checkpoint,    \* the checkpoint entry: a header without data
  Blank          \* a cell never written: entry type 0

ASSUME WalCodecAssumption ==
  /\ JournalCells \in Nat
  /\ DataCells \in [Ops -> Nat \ {0}]
  /\ Checkpoint \notin Ops
  /\ Blank \notin [op : Ops \cup {Checkpoint}, seq : Nat]

\* The sequence number is not covered by the CRC and never checked on reading.
Header(op, seq) == [op |-> op, seq |-> seq]
Headers == [op : Ops \cup {Checkpoint}, seq : Nat]
Piece(op, k) == [of |-> op, piece |-> k]

Data(op) == IF op = Checkpoint THEN 0 ELSE DataCells[op]
EntryCells(op) == 1 + Data(op)

HeadersOf(cells) == {i \in 0 .. JournalCells - 1 : cells[i] \in Headers}

\* Mutant: the CRC is not compared.
AnyData(cells, i) == cells[i] \in Headers

\* The data behind the header at i has the header's CRC.
Intact(cells, i) ==
  \A k \in 1 .. Data(cells[i].op) : cells[i + k] = Piece(cells[i].op, k)

\* Offsets of the entries a scan from `from' goes through; it stops at the
\* first offset that is not in `readable'.
Visited(cells, from, readable) ==
  LET scan[i \in Nat] ==
        IF i \in readable THEN <<i>> \o scan[i + EntryCells(cells[i].op)] ELSE << >>
  IN  scan[from]

\* Mutant: the replay starts on the checkpoint and not behind it.
AtLastCheckpoint(cells) ==
  LET checkpoints == {i \in Range(Visited(cells, 0, HeadersOf(cells))) :
                        cells[i].op = Checkpoint}
  IN  IF checkpoints = {} THEN 0 ELSE Max(checkpoints)

\* read_all, first pass: headers only, no CRC.
AfterLastCheckpoint(cells) ==
  LET checkpoints == {i \in Range(Visited(cells, 0, HeadersOf(cells))) :
                        cells[i].op = Checkpoint}
  IN  IF checkpoints = {} THEN 0 ELSE Max(checkpoints) + 1

\* recover: the operations a reopening replays, in order.
Recovered(cells) ==
  LET at == Visited(cells, AfterLastCheckpoint(cells),
                    {i \in HeadersOf(cells) : Intact(cells, i)})
  IN  [k \in DOMAIN at |-> cells[at[k]].op]

\* scan_tail takes a checkpoint for free space and leaves write_offset on the
\* last entry it accepted, not behind it.
ScanTail(cells) ==
  LET tail == Visited(cells, 0, {i \in HeadersOf(cells) :
                                   /\ cells[i].op # Checkpoint
                                   /\ i + EntryCells(cells[i].op) <= JournalCells
                                   /\ Intact(cells, i)})
      last == IF tail = << >> THEN 0 ELSE tail[Len(tail)]
  IN  [write_offset |-> last,
       next_sequence |-> IF tail = << >> THEN 1 ELSE cells[last].seq + 1,
       entries |-> IF last > 0 THEN Len(Recovered(cells)) ELSE 0]
=============================================================================
