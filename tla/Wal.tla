-------------------------------- MODULE Wal --------------------------------
(***************************************************************************)
(* The write-ahead log (wal.rs).  An entry is several file writes: its     *)
(* header, then its data, one write per block it touches.  The process can *)
(* die between any two of them; what is in the file stays.                 *)
(***************************************************************************)
EXTENDS WalCodec

CONSTANTS
  BlockCells,     \* cells of a block
  OverflowCells,  \* bound: cells behind the journal, in the first data blocks
  MaxSessions,    \* bound: how often the journal is opened
  Idle            \* no entry is being written

ASSUME WalAssumption ==
  /\ BlockCells \in Nat \ {0}
  /\ OverflowCells \in Nat
  /\ MaxSessions \in Nat \ {0}
  /\ Idle \notin [op : Ops, piece : Nat]
  /\ Blank \notin [of : Ops, piece : Nat]

VARIABLES
  journal,
  next_sequence,
  write_offset,
  entries_since_checkpoint,
  appending,  \* the entry whose data is being written: operation and next piece
  session,    \* 0 while closed after a crash, else the number of this session
  opened,     \* sessions so far
  acked,      \* history: operations acknowledged since the last checkpoint
  logged      \* history: operations ever logged whole

counters == <<next_sequence, write_offset, entries_since_checkpoint>>
walVars == <<journal, counters, appending, session, opened, acked, logged>>

Cells == 0 .. JournalCells + OverflowCells - 1

WalInit ==
  /\ journal = [i \in Cells |-> Blank]
  /\ next_sequence = 1 /\ write_offset = 0 /\ entries_since_checkpoint = 0
  /\ appending = Idle
  /\ session = 1 /\ opened = 1
  /\ acked = << >> /\ logged = {}

Ready == session # 0 /\ appending = Idle

\* log_write and log_delete up to the write of the header.  An entry that
\* does not fit is refused with DiskFull and changes nothing.
LogHeader(op) ==
  /\ Ready
  /\ write_offset + EntryCells(op) <= JournalCells
  /\ journal' = [journal EXCEPT ![write_offset] = Header(op, next_sequence)]
  /\ appending' = [op |-> op, piece |-> 1]
  /\ UNCHANGED <<counters, session, opened, acked, logged>>

\* One turn of write_journal_bytes: the data up to the end of a block.  The
\* counters move, and the caller is answered, after the last one.
LogData ==
  /\ appending # Idle
  /\ LET op == appending.op
         first == appending.piece
         at(k) == write_offset + k
         inBlock == {k \in first .. Data(op) :
                       at(k) \div BlockCells = at(first) \div BlockCells}
         next == Max(inBlock) + 1
     IN  /\ journal' = [i \in Cells |->
                          IF i - write_offset \in inBlock
                          THEN Piece(op, i - write_offset) ELSE journal[i]]
         /\ IF next <= Data(op)
            THEN /\ appending' = [appending EXCEPT !.piece = next]
                 /\ UNCHANGED <<counters, acked, logged>>
            ELSE /\ appending' = Idle
                 /\ next_sequence' = next_sequence + 1
                 /\ write_offset' = write_offset + EntryCells(op)
                 /\ entries_since_checkpoint' = entries_since_checkpoint + 1
                 /\ acked' = Append(acked, op)
                 /\ logged' = logged \cup {op}
  /\ UNCHANGED <<session, opened>>

\* Mutant: a checkpoint starts the journal over, as its comment has it.
CheckpointRewinds ==
  /\ Ready
  /\ journal' = [journal EXCEPT ![0] = Header(Checkpoint, next_sequence)]
  /\ next_sequence' = next_sequence + 1
  /\ write_offset' = 1
  /\ entries_since_checkpoint' = 0
  /\ acked' = << >>
  /\ UNCHANGED <<appending, session, opened, logged>>

\* checkpoint, which does not look where the journal ends.
LogCheckpoint ==
  /\ Ready
  /\ write_offset \in Cells
  /\ journal' = [journal EXCEPT ![write_offset] = Header(Checkpoint, next_sequence)]
  /\ next_sequence' = next_sequence + 1
  /\ write_offset' = write_offset + 1
  /\ entries_since_checkpoint' = 0
  /\ acked' = << >>
  /\ UNCHANGED <<appending, session, opened, logged>>

\* The process dies, between two operations or in the middle of an entry.
Crash ==
  /\ session # 0
  /\ session' = 0
  /\ appending' = Idle
  /\ next_sequence' = 1 /\ write_offset' = 0 /\ entries_since_checkpoint' = 0
  /\ UNCHANGED <<journal, opened, acked, logged>>

\* WriteAheadLog::open
Reopen ==
  /\ session = 0
  /\ opened < MaxSessions
  /\ LET tail == ScanTail(journal)
     IN  /\ next_sequence' = tail.next_sequence
         /\ write_offset' = tail.write_offset
         /\ entries_since_checkpoint' = tail.entries
  /\ opened' = opened + 1
  /\ session' = opened'
  /\ UNCHANGED <<journal, appending, acked, logged>>

WalNext ==
  \/ \E op \in Ops : LogHeader(op)
  \/ LogData
  \/ LogCheckpoint
  \/ Crash
  \/ Reopen

WalSpec == WalInit /\ [][WalNext]_walVars

-----------------------------------------------------------------------------
\* The journal keeps to the region the superblock gives it.
StaysInRegion ==
  \A i \in Cells : i >= JournalCells => journal[i] = Blank

\* A journal written by one process gives back exactly what was acknowledged
\* since the last checkpoint, in order, wherever the process dies: inside a
\* header, between the blocks of an entry, around a checkpoint.  Only once a
\* checkpoint has fallen behind the journal region is this lost.
RecoverExact ==
  opened = 1 /\ StaysInRegion => Recovered(journal) = acked

\* A replay never invents an operation: whatever mixture of old and torn
\* entries the sessions left behind, what it returns was once logged whole.
NothingInvented == Range(Recovered(journal)) \subseteq logged

\* "On volume open, un-checkpointed entries are replayed." (wal.rs:5), also
\* the ones acknowledged after a reopening.
AcknowledgedIsRecovered ==
  session # 0 /\ appending = Idle => Range(acked) \subseteq Range(Recovered(journal))

\* The first session as an abstract log: each step appends one whole operation
\* to what a recovery would replay, empties it, or leaves it alone.  What the
\* later sessions make of it is AcknowledgedIsRecovered's.
Replay == INSTANCE AbstractLog
            WITH log <- IF opened = 1 THEN Recovered(journal) ELSE << >>
SingleSessionLog == Replay!Spec
=============================================================================
