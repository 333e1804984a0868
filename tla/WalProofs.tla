----------------------------- MODULE WalProofs -----------------------------
(***************************************************************************)
(* The write-ahead log for a journal of any size, any operations and any   *)
(* number of sessions: what a recovery finds, and that the first session   *)
(* is an abstract log.                                                     *)
(***************************************************************************)
EXTENDS Wal, WalCodecProofs

\* Where the counters stand, and how far the entry being written is.
WalTypes ==
  /\ journal = [i \in Cells |-> journal[i]]
  /\ next_sequence \in Nat /\ write_offset \in Nat
  /\ opened \in Nat /\ opened > 0 /\ session \in {0, opened}
  /\ \/ appending = Idle
     \/ /\ session # 0
        /\ appending \in [op : Ops, piece : Nat]
        /\ appending.piece \in 1 .. Data(appending.op)
        /\ write_offset + EntryCells(appending.op) <= JournalCells
        /\ journal[write_offset] = Header(appending.op, next_sequence)
        /\ \A k \in 1 .. appending.piece - 1 :
             journal[write_offset + k] = Piece(appending.op, k)

\* An entry of the journal ends within it.
HeadersFit ==
  \A i \in HeadersOf(journal) : i + EntryCells(journal[i].op) <= JournalCells

\* The last piece of an operation's data is only there if the whole was logged.
LastPieceLogged ==
  \A i \in Nat, op \in Ops :
    i + Data(op) \in Cells /\ journal[i + Data(op)] = Piece(op, Data(op)) => op \in logged

\* What the first session knows of it.  Once a checkpoint has fallen behind the
\* region nothing more is written into it.
FirstSession(at, p) ==
  LET end == at[Len(at)]
  IN  /\ StaysInRegion => acked = Behind(journal, at, p)
      /\ session # 0 =>
           /\ write_offset = end \/ (end = JournalCells /\ write_offset >= end)
           /\ \A i \in (IF appending = Idle THEN end ELSE end + appending.piece)
                       .. JournalCells - 1 : journal[i] = Blank

WalInv ==
  /\ WalTypes /\ HeadersFit /\ LastPieceLogged
  /\ opened = 1 => \E at, p : FirstJournal(journal, at, p) /\ FirstSession(at, p)

-----------------------------------------------------------------------------
(* The steps. *)

\* One turn of write_journal_bytes writes the pieces up to the end of a block,
\* or of the data.
LEMMA OneTurn ==
  ASSUME NEW w \in Nat, NEW first \in Nat, NEW last \in Nat, first <= last
  PROVE  LET inBlock == {k \in first .. last : (w + k) \div BlockCells = (w + first) \div BlockCells}
         IN  /\ Max(inBlock) \in first .. last
             /\ inBlock = first .. Max(inBlock)
<1> DEFINE block(k) == (w + k) \div BlockCells
           inBlock == {k \in first .. last : block(k) = block(first)}
<1>1. first \in inBlock
  OBVIOUS
<1>2. PICK m \in inBlock : \A k \in inBlock : k <= m
  <2>1. inBlock \in SUBSET Nat /\ \A k \in inBlock : k <= last
    OBVIOUS
  <2> HIDE DEF inBlock
  <2> QED
    BY <1>1, <2>1, GreatestExists
<1>3. Max(inBlock) = m
  <2>1. inBlock \in SUBSET Nat
    OBVIOUS
  <2> HIDE DEF inBlock
  <2> QED
    BY <1>2, <2>1, MaxIs
<1>4. ASSUME NEW k \in first .. m PROVE block(k) = block(first)
  <2>1. block(m) = block(first) /\ m \in first .. last
    OBVIOUS
  <2>2. \A a, b, c \in Nat : a <= b /\ b <= c /\ a \div BlockCells = c \div BlockCells
                              => b \div BlockCells = a \div BlockCells
    BY WalAssumption
  <2>3. w + first \in Nat /\ w + k \in Nat /\ w + m \in Nat /\ w + first <= w + k /\ w + k <= w + m
    BY <2>1
  <2> QED
    BY <2>1, <2>2, <2>3
<1>5. inBlock = first .. m
  BY <1>2, <1>4
<1> HIDE DEF inBlock
<1> QED
  BY <1>1, <1>2, <1>3, <1>5 DEF inBlock

\* The cell a checkpoint writes.
LEMMA CheckpointIsAHeader ==
  \A seq \in Nat : /\ Header(Checkpoint, seq) \in Headers
                  /\ Header(Checkpoint, seq).op = Checkpoint
                  /\ Header(Checkpoint, seq) # Blank
BY WalCodecAssumption DEF Header, Headers

\* What a write of data does to the journal, and when it ends an entry.
LEMMA DataTurn ==
  ASSUME WalTypes, LogData
  PROVE  /\ session # 0 /\ appending \in [op : Ops, piece : Nat]
         /\ UNCHANGED <<session, opened>>
         /\ \E last \in appending.piece .. Data(appending.op) :
              /\ journal' = [i \in Cells |->
                               IF i - write_offset \in appending.piece .. last
                               THEN Piece(appending.op, i - write_offset) ELSE journal[i]]
              /\ last < Data(appending.op) =>
                   /\ appending' = [op |-> appending.op, piece |-> last + 1]
                   /\ UNCHANGED <<counters, acked, logged>>
              /\ last = Data(appending.op) =>
                   /\ appending' = Idle
                   /\ next_sequence' = next_sequence + 1
                   /\ write_offset' = write_offset + EntryCells(appending.op)
                   /\ acked' = Append(acked, appending.op)
                   /\ logged' = logged \cup {appending.op}
<1> DEFINE op == appending.op
           first == appending.piece
           inBlock == {k \in first .. Data(op) :
                         (write_offset + k) \div BlockCells = (write_offset + first) \div BlockCells}
           last == Max(inBlock)
<1>1. /\ appending \in [op : Ops, piece : Nat] /\ session # 0
      /\ first \in Nat /\ Data(op) \in Nat /\ first <= Data(op) /\ write_offset \in Nat
  BY EntrySizes DEF WalTypes, LogData
<1>2. last \in first .. Data(op) /\ inBlock = first .. last
  <2> HIDE DEF op, first, inBlock, last
  <2> QED
    BY <1>1, OneTurn DEF inBlock, last
<1>3. /\ journal' = [i \in Cells |-> IF i - write_offset \in first .. last
                                    THEN Piece(op, i - write_offset) ELSE journal[i]]
      /\ IF last + 1 <= Data(op)
         THEN /\ appending' = [appending EXCEPT !.piece = last + 1]
              /\ UNCHANGED <<counters, acked, logged>>
         ELSE /\ appending' = Idle
              /\ next_sequence' = next_sequence + 1
              /\ write_offset' = write_offset + EntryCells(op)
              /\ acked' = Append(acked, op)
              /\ logged' = logged \cup {op}
      /\ UNCHANGED <<session, opened>>
  <2>1. /\ journal' = [i \in Cells |-> IF i - write_offset \in inBlock
                                     THEN Piece(op, i - write_offset) ELSE journal[i]]
        /\ IF last + 1 <= Data(op)
           THEN /\ appending' = [appending EXCEPT !.piece = last + 1]
                /\ UNCHANGED <<counters, acked, logged>>
           ELSE /\ appending' = Idle
                /\ next_sequence' = next_sequence + 1
                /\ write_offset' = write_offset + EntryCells(op)
                /\ acked' = Append(acked, op)
                /\ logged' = logged \cup {op}
        /\ UNCHANGED <<session, opened>>
    BY Zenon DEF LogData
  <2> HIDE DEF inBlock, last, op, first
  <2> QED
    BY <1>2, <2>1
<1> HIDE DEF last, inBlock
<1> QED
  BY <1>1, <1>2, <1>3

\* scan_tail leaves the counters on an entry of the journal, or at its start.
LEMMA TailCounters ==
  ASSUME NEW cells
  PROVE  /\ ScanTail(cells).write_offset \in Nat
         /\ ScanTail(cells).next_sequence \in Nat
<1> DEFINE accepted == {i \in HeadersOf(cells) :
                          /\ cells[i].op # Checkpoint
                          /\ i + EntryCells(cells[i].op) <= JournalCells
                          /\ Intact(cells, i)}
           tail == Visited(cells, 0, accepted)
           last == IF tail = << >> THEN 0 ELSE tail[Len(tail)]
<1>1. Readable(cells, accepted)
  BY DEF Readable
<1>2. tail \in Seq({r \in accepted : r >= 0})
  BY <1>1, VisitedSeq
<1>3. tail # << >> => last \in accepted
  <2> SUFFICES ASSUME tail # << >> PROVE tail[Len(tail)] \in accepted
    OBVIOUS
  <2> HIDE DEF tail, accepted
  <2>1. Len(tail) \in 1 .. Len(tail)
    BY <1>2, EmptySeq, LenProperties
  <2> QED
    BY <1>2, <2>1, ElementOfSeq
<1>4. \A i \in accepted : i \in Nat /\ cells[i].seq \in Nat
  <2>1. \A i \in accepted : i \in Nat
    BY <1>1, ReadableEntries
  <2>2. \A i \in accepted : cells[i].seq \in Nat
    BY DEF HeadersOf, Headers
  <2> QED
    BY <2>1, <2>2
<1>5. /\ ScanTail(cells).write_offset = last
      /\ ScanTail(cells).next_sequence = IF tail = << >> THEN 1 ELSE cells[last].seq + 1
  BY DEF ScanTail
<1> HIDE DEF tail, accepted
<1> QED
  BY <1>3, <1>4, <1>5

\* The empty journal is typed.
LEMMA TypesInit == WalInit => WalTypes
BY DEF WalInit, WalTypes

\* Every step keeps the types.
LEMMA TypesKept ==
  ASSUME WalTypes, [WalNext]_walVars
  PROVE  WalTypes'
<1>0. \A i \in Nat : i < JournalCells => i \in Cells
  BY WalCodecAssumption, WalAssumption DEF Cells
<1>1. ASSUME NEW op \in Ops, LogHeader(op) PROVE WalTypes'
  <2>1. Data(op) \in Nat \ {0} /\ EntryCells(op) = 1 + Data(op)
    BY EntrySizes
  <2>2. write_offset \in Cells
    BY <1>0, <1>1, <2>1, WalCodecAssumption DEF LogHeader, WalTypes
  <2>3. /\ journal' = [i \in Cells |-> IF i = write_offset THEN Header(op, next_sequence) ELSE journal[i]]
        /\ appending' = [op |-> op, piece |-> 1]
        /\ UNCHANGED <<counters, session, opened>> /\ session # 0
        /\ write_offset + EntryCells(op) <= JournalCells
    BY <1>1 DEF LogHeader, Ready, WalTypes
  <2>4. journal'[write_offset] = Header(op, next_sequence) /\ journal' = [i \in Cells |-> journal'[i]]
    BY <2>2, <2>3
  <2>5. /\ appending'.op = op /\ appending'.piece = 1
        /\ appending' \in [op : Ops, piece : Nat]
    BY <2>3
  <2>6. appending'.piece \in 1 .. Data(appending'.op)
    BY <2>1, <2>5
  <2>7. UNCHANGED <<next_sequence, write_offset, session, opened>>
    BY <2>3 DEF counters
  <2>8. \A k \in 1 .. appending'.piece - 1 : FALSE
    BY <2>5
  <2> QED
    BY <2>3, <2>4, <2>5, <2>6, <2>7, <2>8 DEF WalTypes
<1>2. ASSUME LogData PROVE WalTypes'
  <2> DEFINE op == appending.op
             first == appending.piece
  <2>1. PICK last \in first .. Data(op) :
           /\ journal' = [i \in Cells |-> IF i - write_offset \in first .. last
                                         THEN Piece(op, i - write_offset) ELSE journal[i]]
           /\ last < Data(op) => /\ appending' = [op |-> op, piece |-> last + 1]
                                 /\ UNCHANGED <<counters, acked, logged>>
           /\ last = Data(op) => /\ appending' = Idle
                                 /\ next_sequence' = next_sequence + 1
                                 /\ write_offset' = write_offset + EntryCells(op)
    BY <1>2, DataTurn
  <2>2. session # 0 /\ appending \in [op : Ops, piece : Nat] /\ UNCHANGED <<session, opened>>
    BY <1>2, DataTurn
  <2>3. /\ op \in Ops /\ first \in 1 .. Data(op) /\ first \in Nat /\ Data(op) \in Nat
        /\ write_offset + EntryCells(op) <= JournalCells /\ EntryCells(op) = 1 + Data(op)
        /\ journal[write_offset] = Header(op, next_sequence)
        /\ \A k \in 1 .. first - 1 : journal[write_offset + k] = Piece(op, k)
        /\ write_offset \in Nat
    <3>1. appending # Idle
      BY <1>2 DEF LogData
    <3> QED
      BY <2>2, <3>1, EntrySizes DEF WalTypes
  <2>4. journal' = [i \in Cells |-> journal'[i]]
    BY <2>1
  <2>5. CASE last = Data(op)
    <3>1. next_sequence' \in Nat /\ write_offset' \in Nat /\ appending' = Idle
      BY <2>1, <2>3, <2>5 DEF WalTypes
    <3> QED
      BY <2>2, <2>4, <3>1 DEF WalTypes
  <2>6. CASE last < Data(op)
    <3>1. /\ appending' = [op |-> op, piece |-> last + 1]
          /\ UNCHANGED <<next_sequence, write_offset>>
      BY <2>1, <2>2, <2>6 DEF counters
    <3>2. ASSUME NEW k \in 0 .. last PROVE write_offset + k \in Cells
      <4>1. write_offset + k \in Nat /\ write_offset + k < JournalCells
        <5> HIDE DEF op, first
        <5> QED
          BY <2>3, <2>6, WalCodecAssumption
      <4> QED
        BY <1>0, <4>1
    <3>3. journal'[write_offset] = Header(op, next_sequence)
      <4>1. write_offset + 0 \in Cells
        BY <3>2, <2>3
      <4> HIDE DEF op, first
      <4> QED
        BY <2>1, <2>3, <4>1
    <3>4. \A k \in 1 .. last : journal'[write_offset + k] = Piece(op, k)
      <4> SUFFICES ASSUME NEW k \in 1 .. last PROVE journal'[write_offset + k] = Piece(op, k)
        OBVIOUS
      <4>1. write_offset + k \in Cells /\ (write_offset + k) - write_offset = k
        BY <2>3, <3>2
      <4>2. k \in first .. last \/ k \in 1 .. first - 1
        BY <2>3
      <4> HIDE DEF op, first
      <4> QED
        BY <2>1, <2>3, <4>1, <4>2
    <3>5. /\ appending'.op = op /\ appending'.piece = last + 1
          /\ appending' \in [op : Ops, piece : Nat]
          /\ last + 1 \in 1 .. Data(op) /\ (last + 1) - 1 = last
      BY <2>3, <2>6, <3>1
    <3> HIDE DEF op, first
    <3> QED
      BY <2>2, <2>3, <2>4, <3>1, <3>3, <3>4, <3>5 DEF WalTypes
  <2> QED
    BY <2>3, <2>5, <2>6
<1>3. ASSUME LogCheckpoint PROVE WalTypes'
  <2>1. /\ journal' = [i \in Cells |-> journal'[i]]
        /\ next_sequence' \in Nat /\ write_offset' \in Nat
        /\ UNCHANGED <<appending, session, opened>> /\ appending = Idle
    BY <1>3 DEF LogCheckpoint, Ready, WalTypes
  <2> QED
    BY <2>1 DEF WalTypes
<1>4. ASSUME Crash PROVE WalTypes'
  BY <1>4 DEF Crash, WalTypes
<1>5. ASSUME Reopen PROVE WalTypes'
  <2>1. next_sequence' \in Nat /\ write_offset' \in Nat
    BY <1>5, TailCounters DEF Reopen
  <2>2. /\ opened' = opened + 1 /\ session' = opened' /\ UNCHANGED <<journal, appending>>
        /\ appending = Idle
    BY <1>5 DEF Reopen, WalTypes
  <2> QED
    BY <2>1, <2>2 DEF WalTypes
<1>6. CASE UNCHANGED walVars
  BY <1>6 DEF walVars, counters, WalTypes
<1> QED
  BY <1>1, <1>2, <1>3, <1>4, <1>5, <1>6 DEF WalNext

\* Every step keeps the entries of the journal within it.
LEMMA FitKept ==
  ASSUME WalTypes, HeadersFit, [WalNext]_walVars
  PROVE  HeadersFit'
<1>1. ASSUME NEW i \in HeadersOf(journal'), journal'[i] = journal[i]
      PROVE  i + EntryCells(journal'[i].op) <= JournalCells
  BY <1>1 DEF HeadersFit, HeadersOf
<1>2. ASSUME NEW op \in Ops, LogHeader(op) PROVE HeadersFit'
  <2>1. \A i \in HeadersOf(journal') :
          \/ journal'[i] = journal[i]
          \/ i = write_offset /\ journal'[i] = Header(op, next_sequence)
    <3>1. \A i \in HeadersOf(journal') : i \in Cells
      BY WalCodecAssumption, WalAssumption DEF HeadersOf, Cells
    <3> QED
      BY <1>2, <3>1 DEF LogHeader, WalTypes
  <2>2. write_offset + EntryCells(op) <= JournalCells /\ next_sequence \in Nat
    BY <1>2 DEF LogHeader, WalTypes
  <2>3. Header(op, next_sequence).op = op
    BY <2>2, PiecesAreNoHeaders
  <2> QED
    BY <1>1, <2>1, <2>2, <2>3 DEF HeadersFit
<1>3. ASSUME LogData PROVE HeadersFit'
  <2>1. PICK last : journal' = [i \in Cells |->
                                 IF i - write_offset \in appending.piece .. last
                                 THEN Piece(appending.op, i - write_offset) ELSE journal[i]]
    BY <1>3, DataTurn
  <2>2. \A i \in HeadersOf(journal') : journal'[i] = journal[i]
    <3>1. \A i \in HeadersOf(journal') : i \in Cells /\ journal'[i] \in Headers
      BY WalCodecAssumption, WalAssumption DEF HeadersOf, Cells
    <3> QED
      BY <2>1, <3>1, PiecesAreNoHeaders
  <2> QED
    BY <1>1, <2>2 DEF HeadersFit
<1>4. ASSUME LogCheckpoint PROVE HeadersFit'
  <2>1. \A i \in HeadersOf(journal') :
          /\ i \in Nat /\ i < JournalCells
          /\ journal'[i] = journal[i] \/ journal'[i] = Header(Checkpoint, next_sequence)
    <3>1. \A i \in HeadersOf(journal') : i \in Cells /\ i \in Nat /\ i < JournalCells
      BY WalCodecAssumption, WalAssumption DEF HeadersOf, Cells
    <3> QED
      BY <1>4, <3>1 DEF LogCheckpoint, WalTypes
  <2>2. Header(Checkpoint, next_sequence).op = Checkpoint /\ EntryCells(Checkpoint) = 1
    BY DEF Header, EntryCells, Data
  <2>3. \A i \in Nat : i < JournalCells => i + 1 <= JournalCells
    BY WalCodecAssumption
  <2> QED
    BY <1>1, <2>1, <2>2, <2>3 DEF HeadersFit
<1>5. ASSUME UNCHANGED journal PROVE HeadersFit'
  BY <1>5 DEF HeadersFit
<1> QED
  BY <1>2, <1>3, <1>4, <1>5 DEF WalNext, Crash, Reopen, walVars

\* Every step keeps the last piece of an entry for entries that were logged.
LEMMA LastPieceKept ==
  ASSUME WalTypes, LastPieceLogged, [WalNext]_walVars
  PROVE  LastPieceLogged'
<1>1. ASSUME NEW i \in Nat, NEW op \in Ops, i + Data(op) \in Cells,
             journal'[i + Data(op)] = Piece(op, Data(op)),
             journal'[i + Data(op)] = journal[i + Data(op)]
      PROVE  op \in logged'
  <2>1. logged \subseteq logged'
    BY DataTurn DEF WalNext, LogHeader, LogCheckpoint, Crash, Reopen, walVars, LogData
  <2> QED
    BY <1>1, <2>1 DEF LastPieceLogged
<1>2. ASSUME NEW op \in Ops, LogHeader(op) PROVE LastPieceLogged'
  <2>1. \A i \in Cells : journal'[i] = journal[i] \/ journal'[i] = Header(op, next_sequence)
    BY <1>2 DEF LogHeader, WalTypes
  <2> QED
    BY <1>1, <2>1, PiecesAreNoHeaders DEF LastPieceLogged
<1>3. ASSUME LogData PROVE LastPieceLogged'
  <2> DEFINE written == appending.op
  <2>1. PICK last \in appending.piece .. Data(written) :
           /\ journal' = [i \in Cells |-> IF i - write_offset \in appending.piece .. last
                                         THEN Piece(written, i - write_offset) ELSE journal[i]]
           /\ last = Data(written) => logged' = logged \cup {written}
    BY <1>3, DataTurn
  <2>2. written \in Ops /\ Data(written) \in Nat /\ appending.piece \in Nat /\ last \in Nat
    BY <1>3, DataTurn, EntrySizes
  <2>3. ASSUME NEW i \in Nat, NEW op \in Ops, i + Data(op) \in Cells,
               journal'[i + Data(op)] = Piece(op, Data(op))
        PROVE  op \in logged'
    <3> DEFINE k == (i + Data(op)) - write_offset
    <3>1. CASE k \in appending.piece .. last
      <4>1. journal'[i + Data(op)] = Piece(written, k)
        BY <2>1, <2>3, <3>1
      <4>2. written = op /\ k = Data(op)
        <5> HIDE DEF k, written
        <5> QED
          BY <2>3, <4>1, PiecesAreNoHeaders
      <4>3. last = Data(written)
        <5> HIDE DEF k
        <5> QED
          BY <2>1, <2>2, <3>1, <4>2
      <4> QED
        BY <2>1, <4>2, <4>3
    <3>2. CASE k \notin appending.piece .. last
      <4>1. journal'[i + Data(op)] = journal[i + Data(op)]
        BY <2>1, <2>3, <3>2
      <4> QED
        BY <1>1, <2>3, <4>1
    <3> QED
      BY <3>1, <3>2
  <2> QED
    BY <2>3 DEF LastPieceLogged
<1>4. ASSUME LogCheckpoint PROVE LastPieceLogged'
  <2>1. \A i \in Cells : journal'[i] = journal[i] \/ journal'[i] = Header(Checkpoint, next_sequence)
    BY <1>4 DEF LogCheckpoint, WalTypes
  <2> QED
    BY <1>1, <2>1, PiecesAreNoHeaders DEF LastPieceLogged
<1>5. ASSUME UNCHANGED journal PROVE LastPieceLogged'
  BY <1>1, <1>5 DEF LastPieceLogged
<1> QED
  BY <1>2, <1>3, <1>4, <1>5 DEF WalNext, Crash, Reopen, walVars

\* What one step makes of the operations a recovery of the first session's
\* journal would find.
LogStep ==
  \/ Recovered(journal') = Recovered(journal)
  \/ Recovered(journal') = << >>
  \/ \E op \in Ops : Recovered(journal') = Append(Recovered(journal), op)

\* The empty journal is the chain of no entries.
LEMMA FirstInit ==
  ASSUME WalInit
  PROVE  /\ FirstJournal(journal, <<0>>, 0) /\ FirstSession(<<0>>, 0)
         /\ Recovered(journal) = << >>
<1> DEFINE at == <<0>>
<1>1. at \in Seq(Nat) /\ at # << >> /\ Len(at) = 1 /\ at[1] = 0
  OBVIOUS
<1>2. \A i \in Nat : i < JournalCells => i \in Cells
  BY WalCodecAssumption, WalAssumption DEF Cells
<1>3. \A i \in Cells : journal[i] = Blank
  BY DEF WalInit
<1>4. HeadersOf(journal) = {}
  BY <1>2, <1>3, PiecesAreNoHeaders, WalCodecAssumption DEF HeadersOf
<1>5. IntactHeaders(journal) = {}
  BY <1>4 DEF IntactHeaders
<1>6. Behind(journal, at, 0) = << >>
  <2>1. Behind(journal, at, 0) = [k \in 1 .. 0 |-> journal[at[0 + k]].op]
    BY <1>1 DEF Behind
  <2> QED
    BY <2>1
<1>7. FirstJournal(journal, at, 0)
  <2>1. Chain(journal, at, IntactHeaders(journal))
    BY <1>1 DEF Chain
  <2>2. \A i \in 1 .. JournalCells - 1 : journal[i] \notin Headers
    BY <1>2, <1>3, PiecesAreNoHeaders, WalCodecAssumption
  <2> HIDE DEF at
  <2> QED
    BY <1>1, <1>4, <1>5, <2>1, <2>2, WalCodecAssumption DEF FirstJournal
<1>8. FirstSession(at, 0)
  <2>1. \A i \in 0 .. JournalCells - 1 : journal[i] = Blank
    BY <1>2, <1>3, WalCodecAssumption
  <2>2. write_offset = 0 /\ appending = Idle /\ acked = << >>
    BY DEF WalInit
  <2> HIDE DEF at
  <2> QED
    BY <1>1, <1>6, <2>1, <2>2 DEF FirstSession
<1>9. Recovered(journal) = << >>
  <2> HIDE DEF at
  <2> QED
    BY <1>6, <1>7, RecoveredIs
<1> QED
  BY <1>7, <1>8, <1>9

\* A header that has no data behind it is torn: recovery does not see it.
LEMMA FirstHeader ==
  ASSUME WalTypes, NEW at, NEW p, FirstJournal(journal, at, p), FirstSession(at, p),
         NEW op \in Ops, LogHeader(op)
  PROVE  /\ FirstJournal(journal', at, p) /\ FirstSession(at, p)'
         /\ Recovered(journal') = Recovered(journal)
<1> DEFINE end == at[Len(at)]
<1>0. Chain(journal, at, IntactHeaders(journal))
  BY DEF FirstJournal
<1>1. /\ Data(op) \in Nat \ {0} /\ EntryCells(op) = 1 + Data(op)
      /\ JournalCells \in Nat /\ next_sequence \in Nat /\ write_offset \in Nat
      /\ end \in Nat /\ Len(at) \in Nat \ {0} /\ \A k \in 1 .. Len(at) : at[k] \in Nat
  <2>1. Len(at) \in Nat \ {0} /\ \A k \in 1 .. Len(at) : at[k] \in Nat
    BY <1>0, ChainPlaces
  <2>2. Len(at) \in 1 .. Len(at)
    BY <2>1
  <2> QED
    BY <2>1, <2>2, EntrySizes, WalCodecAssumption DEF WalTypes
<1>2. session # 0 /\ appending = Idle /\ write_offset + EntryCells(op) <= JournalCells
  BY DEF LogHeader, Ready
<1>3. write_offset = end /\ \A i \in end .. JournalCells - 1 : journal[i] = Blank
  BY <1>1, <1>2 DEF FirstSession
<1>4. \A i \in 0 .. JournalCells - 1 : i \in Cells
  BY WalCodecAssumption, WalAssumption DEF Cells
<1>5. /\ journal' = [i \in Cells |-> IF i = end THEN Header(op, next_sequence) ELSE journal[i]]
      /\ appending' = [op |-> op, piece |-> 1]
      /\ UNCHANGED <<next_sequence, write_offset, session, opened, acked>>
  BY <1>3 DEF LogHeader, counters, WalTypes
<1>6. journal'[end] = Header(op, next_sequence) /\ end \in Cells
  BY <1>1, <1>2, <1>3, <1>4, <1>5
<1>7. \A i \in end + 1 .. JournalCells - 1 : journal'[i] = Blank
  BY <1>1, <1>3, <1>4, <1>5
<1>8. SameBefore(journal', journal, end)
  <2>1. \A i \in Nat : i < end => i \in 0 .. JournalCells - 1
    BY <1>1, <1>2, <1>3
  <2> QED
    BY <1>1, <1>4, <1>5, <2>1 DEF SameBefore
<1>9. Chain(journal', at, IntactHeaders(journal')) /\ SameEntries(journal', journal, at)
  BY <1>0, <1>8, ChainKept
<1>10. end \notin IntactHeaders(journal')
  <2>1. journal'[end].op = op
    BY <1>1, <1>6, PiecesAreNoHeaders
  <2>2. 1 \in 1 .. Data(op) /\ end + 1 \in end + 1 .. JournalCells - 1
    BY <1>1, <1>2, <1>3
  <2>3. journal'[end + 1] = Blank
    BY <1>7, <2>2
  <2>4. Blank # Piece(op, 1)
    BY WalAssumption DEF Piece
  <2> QED
    BY <2>1, <2>2, <2>3, <2>4 DEF IntactHeaders, Intact
<1>11. FirstJournal(journal', at, p)
  <2>1. journal'[end].op # Checkpoint
    BY <1>1, <1>6, PiecesAreNoHeaders, WalCodecAssumption
  <2>2. \A i \in end + 1 .. JournalCells - 1 : journal'[i] \notin Headers
    BY <1>7, PiecesAreNoHeaders
  <2>3. p > 0 => p \in 1 .. Len(at) - 1
    BY <1>1 DEF FirstJournal
  <2>4. \A k \in p + 1 .. Len(at) - 1 : k \in 1 .. Len(at) - 1
    BY <1>1 DEF FirstJournal
  <2> QED
    BY <1>9, <1>10, <2>1, <2>2, <2>3, <2>4 DEF FirstJournal, SameEntries
<1>12. Behind(journal', at, p) = Behind(journal, at, p)
  <2>1. \A k \in 1 .. Len(at) - 1 - p : p + k \in 1 .. Len(at) - 1
    BY <1>1 DEF FirstJournal
  <2>2. \A k \in 1 .. Len(at) - 1 - p : journal'[at[p + k]].op = journal[at[p + k]].op
    BY <1>9, <2>1 DEF SameEntries
  <2> QED
    BY <2>2 DEF Behind
<1>13. FirstSession(at, p)'
  <2>1. StaysInRegion' => StaysInRegion
    <3>1. \A i \in Cells : i >= JournalCells => journal'[i] = journal[i]
      BY <1>1, <1>2, <1>3, <1>5
    <3> QED
      BY <3>1 DEF StaysInRegion
  <2>2. StaysInRegion' => acked' = Behind(journal', at, p)
    BY <1>5, <1>12, <2>1 DEF FirstSession
  <2>3. appending' # Idle /\ end + appending'.piece = end + 1
    BY <1>5, WalAssumption
  <2> QED
    BY <1>3, <1>5, <1>7, <2>2, <2>3 DEF FirstSession
<1> QED
  BY <1>11, <1>12, <1>13, RecoveredIs

\* The data comes in turns; recovery sees the entry after the last one.
LEMMA FirstData ==
  ASSUME WalTypes, NEW at, NEW p, FirstJournal(journal, at, p), FirstSession(at, p), LogData
  PROVE  \E longer : /\ FirstJournal(journal', longer, p) /\ FirstSession(longer, p)'
                     /\ LogStep
<1> DEFINE end == at[Len(at)]
           op == appending.op
           first == appending.piece
<1>0. Chain(journal, at, IntactHeaders(journal))
  BY DEF FirstJournal
<1>1. PICK last \in first .. Data(op) :
         /\ journal' = [i \in Cells |-> IF i - write_offset \in first .. last
                                       THEN Piece(op, i - write_offset) ELSE journal[i]]
         /\ last < Data(op) => /\ appending' = [op |-> op, piece |-> last + 1]
                               /\ UNCHANGED <<counters, acked, logged>>
         /\ last = Data(op) => /\ appending' = Idle
                               /\ write_offset' = write_offset + EntryCells(op)
                               /\ acked' = Append(acked, op)
  BY DataTurn
<1>2. /\ session # 0 /\ UNCHANGED <<session, opened>> /\ appending # Idle
      /\ op \in Ops /\ first \in 1 .. Data(op) /\ Data(op) \in Nat \ {0}
      /\ EntryCells(op) = 1 + Data(op) /\ write_offset + EntryCells(op) <= JournalCells
      /\ journal[write_offset] = Header(op, next_sequence)
      /\ \A k \in 1 .. first - 1 : journal[write_offset + k] = Piece(op, k)
      /\ write_offset \in Nat /\ next_sequence \in Nat /\ JournalCells \in Nat
  <2>1. appending # Idle
    BY DEF LogData
  <2> QED
    BY <2>1, DataTurn, EntrySizes, WalCodecAssumption DEF WalTypes
<1>3. /\ Len(at) \in Nat \ {0} /\ end \in Nat /\ \A k \in 1 .. Len(at) : at[k] \in Nat
      /\ p \in 0 .. Len(at) - 1
  <2>1. Len(at) \in Nat \ {0} /\ \A k \in 1 .. Len(at) : at[k] \in Nat
    BY <1>0, ChainPlaces
  <2>2. Len(at) \in 1 .. Len(at)
    BY <2>1
  <2> QED
    BY <2>1, <2>2 DEF FirstJournal
<1>4. write_offset = end /\ \A i \in end + first .. JournalCells - 1 : journal[i] = Blank
  <2> HIDE DEF op
  <2> QED
    BY <1>2, <1>3 DEF FirstSession
<1>5. \A i \in 0 .. JournalCells - 1 : i \in Cells
  BY WalCodecAssumption, WalAssumption DEF Cells
<1> HIDE DEF op, first, end
<1>6. SameBefore(journal', journal, end)
  <2>1. \A i \in Nat : i < end => i \in 0 .. JournalCells - 1 /\ i - end \notin first .. last
    BY <1>2, <1>3, <1>4
  <2> QED
    BY <1>1, <1>4, <1>5, <2>1 DEF SameBefore
<1>7. Chain(journal', at, IntactHeaders(journal')) /\ SameEntries(journal', journal, at)
  BY <1>0, <1>6, ChainKept DEF end
<1>8. journal'[end] = Header(op, next_sequence) /\ end \in 0 .. JournalCells - 1
  <2>1. end \in 0 .. JournalCells - 1 /\ end - end \notin first .. last
    BY <1>2, <1>3, <1>4
  <2> QED
    BY <1>1, <1>2, <1>4, <1>5, <2>1
<1>9. \A k \in 1 .. last : journal'[end + k] = Piece(op, k)
  <2> SUFFICES ASSUME NEW k \in 1 .. last PROVE journal'[end + k] = Piece(op, k)
    OBVIOUS
  <2>1. end + k \in 0 .. JournalCells - 1 /\ (end + k) - end = k
    BY <1>2, <1>3, <1>4
  <2>2. k \in first .. last \/ k \in 1 .. first - 1
    BY <1>2
  <2> QED
    BY <1>1, <1>2, <1>4, <1>5, <2>1, <2>2
<1>10. \A i \in end + last + 1 .. JournalCells - 1 : journal'[i] = Blank
  <2> SUFFICES ASSUME NEW i \in end + last + 1 .. JournalCells - 1 PROVE journal'[i] = Blank
    OBVIOUS
  <2>1. /\ i \in 0 .. JournalCells - 1 /\ i - end \notin first .. last
        /\ i \in end + first .. JournalCells - 1
    BY <1>2, <1>3
  <2> QED
    BY <1>1, <1>4, <1>5, <2>1
<1>11. \A i \in end + 1 .. JournalCells - 1 : journal'[i] \notin Headers
  <2> SUFFICES ASSUME NEW i \in end + 1 .. JournalCells - 1 PROVE journal'[i] \notin Headers
    OBVIOUS
  <2>1. i \in end + last + 1 .. JournalCells - 1 \/ (i - end \in 1 .. last /\ end + (i - end) = i)
    BY <1>2, <1>3
  <2> QED
    BY <1>9, <1>10, <2>1, PiecesAreNoHeaders
<1>12. journal'[end].op = op /\ end \in HeadersOf(journal')
  BY <1>2, <1>8, PiecesAreNoHeaders DEF HeadersOf
<1>13. StaysInRegion' => StaysInRegion
  <2>1. \A i \in Cells : i >= JournalCells => journal'[i] = journal[i]
    <3> SUFFICES ASSUME NEW i \in Cells, i >= JournalCells PROVE journal'[i] = journal[i]
      OBVIOUS
    <3>1. i \in Nat
      BY DEF Cells
    <3>2. i - end \notin first .. last
      BY <1>2, <1>3, <1>4, <3>1
    <3> QED
      BY <1>1, <1>4, <3>2
  <2> QED
    BY <2>1 DEF StaysInRegion
<1>14. Recovered(journal) = Behind(journal, at, p)
  BY RecoveredIs
<1>15. CASE last < Data(op)
  <2>1. end \notin IntactHeaders(journal')
    <3>1. Data(op) \in 1 .. Data(op) /\ end + Data(op) \in end + last + 1 .. JournalCells - 1
      BY <1>2, <1>3, <1>4, <1>15
    <3>2. journal'[end + Data(op)] = Blank
      BY <1>10, <3>1
    <3>3. Blank # Piece(op, Data(op))
      BY <1>2, WalAssumption DEF Piece
    <3> QED
      BY <1>12, <3>1, <3>2, <3>3 DEF IntactHeaders, Intact
  <2>2. FirstJournal(journal', at, p)
    <3>1. p > 0 => p \in 1 .. Len(at) - 1
      BY <1>3
    <3>2. \A k \in p + 1 .. Len(at) - 1 : k \in 1 .. Len(at) - 1
      BY <1>3
    <3>3. op # Checkpoint
      BY <1>2, WalCodecAssumption
    <3> QED
      BY <1>7, <1>11, <1>12, <2>1, <3>1, <3>2, <3>3 DEF FirstJournal, SameEntries, end
  <2>3. Behind(journal', at, p) = Behind(journal, at, p)
    <3>1. \A k \in 1 .. Len(at) - 1 - p : p + k \in 1 .. Len(at) - 1
      BY <1>3
    <3>2. \A k \in 1 .. Len(at) - 1 - p : journal'[at[p + k]].op = journal[at[p + k]].op
      BY <1>7, <3>1 DEF SameEntries
    <3> QED
      BY <3>2 DEF Behind
  <2>4. FirstSession(at, p)'
    <3>1. UNCHANGED <<write_offset, acked>>
      BY <1>1, <1>15 DEF counters
    <3>2. StaysInRegion' => acked' = Behind(journal', at, p)
      BY <1>13, <2>3, <3>1 DEF FirstSession
    <3>3. appending' # Idle /\ end + appending'.piece = end + last + 1
      <4>1. appending' = [op |-> op, piece |-> last + 1] /\ last + 1 \in Nat
        BY <1>1, <1>2, <1>15
      <4> QED
        BY <1>2, <1>3, <4>1, WalAssumption
    <3> QED
      BY <1>2, <1>4, <1>10, <3>1, <3>2, <3>3 DEF FirstSession, end
  <2>5. Recovered(journal') = Recovered(journal)
    BY <1>14, <2>2, <2>3, RecoveredIs
  <2> QED
    BY <2>2, <2>4, <2>5 DEF LogStep
<1>16. CASE last = Data(op)
  <2>1. end \in IntactHeaders(journal')
    BY <1>9, <1>12, <1>16 DEF IntactHeaders, Intact
  <2>a. PICK next : next = end + EntryCells(op)
    OBVIOUS
  <2>b. PICK longer : longer = Append(at, next)
    OBVIOUS
  <2>2. /\ Chain(journal', longer, IntactHeaders(journal')) /\ Len(longer) = Len(at) + 1
        /\ \A k \in 1 .. Len(at) : longer[k] = at[k]
        /\ longer[Len(at) + 1] = next
    BY <1>7, <1>12, <2>1, <2>a, <2>b, ChainGrows DEF end
  <2>3. /\ next \in Nat /\ next <= JournalCells
        /\ \A i \in next .. JournalCells - 1 : journal'[i] = Blank
    <3>1. next = end + last + 1
      BY <1>2, <1>3, <1>16, <2>a
    <3> QED
      BY <1>2, <1>3, <1>4, <1>10, <2>a, <3>1
  <2>4. \A i \in next .. JournalCells - 1 : journal'[i] \notin Headers
    BY <2>3, PiecesAreNoHeaders
  <2>5. next \notin HeadersOf(journal')
    BY <1>2, <2>3, <2>4 DEF HeadersOf
  <2>6. FirstJournal(journal', longer, p)
    <3>1. longer[1] = 0 /\ p \in 0 .. Len(longer) - 1 /\ longer[Len(longer)] = next
      BY <1>3, <2>2 DEF FirstJournal
    <3>2. p > 0 => journal'[longer[p]].op = Checkpoint
      <4> SUFFICES ASSUME p > 0 PROVE journal'[longer[p]].op = Checkpoint
        OBVIOUS
      <4>1. p \in 1 .. Len(at) - 1 /\ p \in 1 .. Len(at)
        BY <1>3
      <4>2. longer[p] = at[p] /\ journal'[at[p]] = journal[at[p]]
        BY <1>7, <2>2, <4>1 DEF SameEntries
      <4> QED
        BY <4>2 DEF FirstJournal
    <3>3. ASSUME NEW k \in p + 1 .. Len(longer) - 1 PROVE journal'[longer[k]].op # Checkpoint
      <4>1. k \in 1 .. Len(at) /\ (k = Len(at) \/ (k \in p + 1 .. Len(at) - 1 /\ k \in 1 .. Len(at) - 1))
        BY <1>3, <2>2
      <4>2. longer[k] = at[k]
        BY <2>2, <4>1
      <4>3. CASE k = Len(at)
        BY <1>2, <1>12, <4>2, <4>3, WalCodecAssumption DEF end
      <4>4. CASE k \in p + 1 .. Len(at) - 1 /\ k \in 1 .. Len(at) - 1
        <5>1. journal'[at[k]] = journal[at[k]]
          BY <1>7, <4>4 DEF SameEntries
        <5>2. journal[at[k]].op # Checkpoint
          BY <4>4 DEF FirstJournal
        <5> QED
          BY <4>2, <5>1, <5>2
      <4> QED
        BY <4>1, <4>3, <4>4
    <3>4. \A i \in next + 1 .. JournalCells - 1 : journal'[i] \notin Headers
      BY <2>3, <2>4
    <3>5. next \notin IntactHeaders(journal')
      BY <2>5 DEF IntactHeaders
    <3> QED
      BY <2>2, <2>3, <2>5, <3>1, <3>2, <3>3, <3>4, <3>5 DEF FirstJournal
  <2>7. Behind(journal', longer, p) = Append(Behind(journal, at, p), op)
    BY <1>3, <1>7, <1>12, <2>2, BehindGrows DEF end
  <2>8. FirstSession(longer, p)'
    <3>1. StaysInRegion' => acked' = Behind(journal', longer, p)
      BY <1>1, <1>13, <1>16, <2>7 DEF FirstSession
    <3>2. longer[Len(longer)] = next /\ write_offset' = next /\ appending' = Idle
      BY <1>1, <1>4, <1>16, <2>2, <2>a
    <3>3. \A i \in (IF appending' = Idle THEN next ELSE next + appending'.piece)
                   .. JournalCells - 1 : journal'[i] = Blank
      BY <2>3, <3>2
    <3> QED
      BY <3>1, <3>2, <3>3 DEF FirstSession
  <2>9. Recovered(journal') = Append(Recovered(journal), op)
    BY <1>14, <2>6, <2>7, RecoveredIs
  <2>10. LogStep
    BY <1>2, <2>9 DEF LogStep
  <2> QED
    BY <2>6, <2>8, <2>10
<1> QED
  BY <1>2, <1>15, <1>16

\* A checkpoint in the region ends the chain with nothing behind it; one behind
\* the region leaves the journal as recovery sees it.
LEMMA FirstCheckpoint ==
  ASSUME WalTypes, NEW at, NEW p, FirstJournal(journal, at, p), FirstSession(at, p), LogCheckpoint
  PROVE  \E longer, q : /\ FirstJournal(journal', longer, q) /\ FirstSession(longer, q)'
                        /\ LogStep
<1> DEFINE end == at[Len(at)]
<1>0. Chain(journal, at, IntactHeaders(journal))
  BY DEF FirstJournal
<1>1. /\ Len(at) \in Nat \ {0} /\ end \in Nat /\ \A k \in 1 .. Len(at) : at[k] \in Nat
      /\ p \in 0 .. Len(at) - 1 /\ end <= JournalCells /\ JournalCells \in Nat
      /\ write_offset \in Nat /\ next_sequence \in Nat
  <2>1. Len(at) \in Nat \ {0} /\ \A k \in 1 .. Len(at) : at[k] \in Nat
    BY <1>0, ChainPlaces
  <2>2. Len(at) \in 1 .. Len(at)
    BY <2>1
  <2> QED
    BY <2>1, <2>2, WalCodecAssumption DEF FirstJournal, WalTypes
<1>2. /\ session # 0 /\ appending = Idle /\ write_offset \in Cells
      /\ journal' = [i \in Cells |-> IF i = write_offset THEN Header(Checkpoint, next_sequence)
                                    ELSE journal[i]]
      /\ write_offset' = write_offset + 1 /\ acked' = << >>
      /\ UNCHANGED <<appending, session, opened>>
  BY DEF LogCheckpoint, Ready, WalTypes
<1>3. /\ write_offset = end \/ (end = JournalCells /\ write_offset >= end)
      /\ \A i \in end .. JournalCells - 1 : journal[i] = Blank
  BY <1>2 DEF FirstSession
<1>4. \A i \in 0 .. JournalCells - 1 : i \in Cells
  BY WalCodecAssumption, WalAssumption DEF Cells
<1> HIDE DEF end
<1>5. SameBefore(journal', journal, end)
  <2>1. \A i \in Nat : i < end => i \in 0 .. JournalCells - 1 /\ i # write_offset
    BY <1>1, <1>3
  <2> QED
    BY <1>2, <1>4, <2>1 DEF SameBefore
<1>6. Chain(journal', at, IntactHeaders(journal')) /\ SameEntries(journal', journal, at)
  BY <1>0, <1>5, ChainKept DEF end
<1>7. CASE end < JournalCells
  <2>1. write_offset = end /\ end \in 0 .. JournalCells - 1
    BY <1>1, <1>3, <1>7
  <2>2. journal'[end] = Header(Checkpoint, next_sequence)
    BY <1>2, <2>1
  <2>3. journal'[end].op = Checkpoint /\ end \in HeadersOf(journal')
    BY <1>1, <2>1, <2>2, CheckpointIsAHeader DEF HeadersOf
  <2>4. Data(Checkpoint) = 0 /\ EntryCells(Checkpoint) = 1
    BY DEF Data, EntryCells
  <2>5. end \in IntactHeaders(journal')
    BY <2>3, <2>4 DEF IntactHeaders, Intact
  <2> DEFINE longer == Append(at, end + 1)
  <2>6. /\ Chain(journal', longer, IntactHeaders(journal')) /\ Len(longer) = Len(at) + 1
        /\ \A k \in 1 .. Len(at) : longer[k] = at[k]
        /\ longer[Len(at) + 1] = end + 1
    BY <1>6, <2>3, <2>4, <2>5, ChainGrows DEF end
  <2>7. \A i \in end + 1 .. JournalCells - 1 : journal'[i] = Blank
    <3>1. \A i \in end + 1 .. JournalCells - 1 :
            i \in end .. JournalCells - 1 /\ i \in 0 .. JournalCells - 1 /\ i # write_offset
      BY <1>1, <2>1
    <3> QED
      BY <1>2, <1>3, <1>4, <3>1
  <2> HIDE DEF longer
  <2>8. \A i \in end + 1 .. JournalCells - 1 : journal'[i] \notin Headers
    BY <2>7, PiecesAreNoHeaders
  <2>9. end + 1 \notin HeadersOf(journal')
    BY <1>1, <2>8 DEF HeadersOf
  <2>10. FirstJournal(journal', longer, Len(at))
    <3>1. /\ longer[1] = 0 /\ Len(at) \in 0 .. Len(longer) - 1 /\ longer[Len(longer)] = end + 1
          /\ Len(at) \in 1 .. Len(at)
      BY <1>1, <2>6 DEF FirstJournal
    <3>2. journal'[longer[Len(at)]].op = Checkpoint
      BY <2>3, <2>6, <3>1 DEF end
    <3>3. \A k \in Len(at) + 1 .. Len(longer) - 1 : FALSE
      BY <1>1, <2>6
    <3>4. \A i \in (end + 1) + 1 .. JournalCells - 1 : journal'[i] \notin Headers
      BY <1>1, <2>8
    <3>5. end + 1 \notin IntactHeaders(journal') /\ end + 1 <= JournalCells
      BY <1>1, <1>7, <2>9 DEF IntactHeaders
    <3> QED
      BY <2>6, <2>9, <3>1, <3>2, <3>3, <3>4, <3>5 DEF FirstJournal
  <2>11. Behind(journal', longer, Len(at)) = << >>
    <3>1. Len(longer) - 1 - Len(at) = 0
      BY <1>1, <2>6
    <3>2. Behind(journal', longer, Len(at)) = [k \in 1 .. 0 |-> journal'[longer[Len(at) + k]].op]
      BY <3>1 DEF Behind
    <3> QED
      BY <3>2
  <2>12. FirstSession(longer, Len(at))'
    <3>1. longer[Len(longer)] = end + 1 /\ write_offset' = end + 1 /\ appending' = Idle
      BY <1>1, <1>2, <2>1, <2>6
    <3>2. \A i \in (IF appending' = Idle THEN end + 1 ELSE end + 1 + appending'.piece)
                   .. JournalCells - 1 : journal'[i] = Blank
      BY <2>7, <3>1
    <3> QED
      BY <1>2, <2>11, <3>1, <3>2 DEF FirstSession
  <2>13. LogStep
    BY <2>10, <2>11, RecoveredIs DEF LogStep
  <2> QED
    BY <2>10, <2>12, <2>13
<1>8. CASE end = JournalCells
  <2>1. write_offset >= JournalCells
    BY <1>1, <1>3, <1>8
  <2>2. end \notin HeadersOf(journal') /\ end \notin IntactHeaders(journal')
    BY <1>1, <1>8 DEF HeadersOf, IntactHeaders
  <2>3. FirstJournal(journal', at, p)
    <3>1. p > 0 => p \in 1 .. Len(at) - 1
      BY <1>1
    <3>2. \A k \in p + 1 .. Len(at) - 1 : k \in 1 .. Len(at) - 1
      BY <1>1
    <3>3. \A i \in end + 1 .. JournalCells - 1 : FALSE
      BY <1>1, <1>8
    <3> QED
      BY <1>1, <1>6, <2>2, <3>1, <3>2, <3>3 DEF FirstJournal, SameEntries, end
  <2>4. Behind(journal', at, p) = Behind(journal, at, p)
    <3>1. \A k \in 1 .. Len(at) - 1 - p : p + k \in 1 .. Len(at) - 1
      BY <1>1
    <3>2. \A k \in 1 .. Len(at) - 1 - p : journal'[at[p + k]].op = journal[at[p + k]].op
      BY <1>6, <3>1 DEF SameEntries
    <3> QED
      BY <3>2 DEF Behind
  <2>5. ~ StaysInRegion'
    <3>1. journal'[write_offset] = Header(Checkpoint, next_sequence)
      BY <1>2
    <3>2. journal'[write_offset] # Blank
      BY <1>1, <3>1, CheckpointIsAHeader
    <3> QED
      BY <1>2, <2>1, <3>2 DEF StaysInRegion
  <2>6. FirstSession(at, p)'
    <3>1. \A i \in (IF appending' = Idle THEN end ELSE end + appending'.piece)
                   .. JournalCells - 1 : journal'[i] = Blank
      <4>1. appending' = Idle /\ \A i \in end .. JournalCells - 1 : FALSE
        BY <1>1, <1>2, <1>8
      <4> QED
        BY <4>1
    <3>2. write_offset' >= end
      BY <1>1, <1>2, <1>8, <2>1
    <3> QED
      BY <1>8, <2>5, <3>1, <3>2 DEF FirstSession, end
  <2>7. LogStep
    BY <2>3, <2>4, RecoveredIs DEF LogStep
  <2> QED
    BY <2>3, <2>6, <2>7
<1> QED
  BY <1>1, <1>7, <1>8

\* So the invariant is kept, and in the first session the journal moves as a
\* log does.
LEMMA FirstKept ==
  ASSUME WalInv, [WalNext]_walVars, opened' = 1
  PROVE  /\ \E at, p : FirstJournal(journal', at, p) /\ FirstSession(at, p)'
         /\ LogStep /\ opened = 1
<1>1. WalTypes
  BY DEF WalInv
<1>2. opened = 1
  <2>1. opened \in Nat /\ opened > 0 /\ (opened' = opened \/ opened' = opened + 1)
    BY <1>1, DataTurn DEF WalTypes, WalNext, LogHeader, LogData, LogCheckpoint, Crash, Reopen, walVars
  <2> QED
    BY <2>1
<1>3. PICK at, p : FirstJournal(journal, at, p) /\ FirstSession(at, p)
  BY <1>2 DEF WalInv
<1> DEFINE Kept == \E longer, q : FirstJournal(journal', longer, q) /\ FirstSession(longer, q)'
<1>4. ASSUME NEW op \in Ops, LogHeader(op) PROVE Kept /\ LogStep
  BY <1>1, <1>3, <1>4, FirstHeader DEF LogStep
<1>5. ASSUME LogData PROVE Kept /\ LogStep
  BY <1>1, <1>3, <1>5, FirstData
<1>6. ASSUME LogCheckpoint PROVE Kept /\ LogStep
  BY <1>1, <1>3, <1>6, FirstCheckpoint
<1>7. ASSUME Crash PROVE Kept /\ LogStep
  <2>1. session' = 0 /\ UNCHANGED <<journal, acked>>
    BY <1>7 DEF Crash
  <2>2. StaysInRegion' = StaysInRegion
    BY <2>1 DEF StaysInRegion
  <2>3. FirstJournal(journal', at, p) /\ FirstSession(at, p)'
    BY <1>3, <2>1, <2>2 DEF FirstSession
  <2> QED
    BY <2>1, <2>3 DEF LogStep
<1>8. ~ Reopen
  BY <1>2 DEF Reopen
<1>9. ASSUME UNCHANGED walVars PROVE Kept /\ LogStep
  <2>1. UNCHANGED <<journal, acked, session, write_offset, appending>>
    BY <1>9 DEF walVars, counters
  <2>2. StaysInRegion' = StaysInRegion
    BY <2>1 DEF StaysInRegion
  <2>3. FirstJournal(journal', at, p) /\ FirstSession(at, p)'
    BY <1>3, <2>1, <2>2 DEF FirstSession
  <2> QED
    BY <2>1, <2>3 DEF LogStep
<1> QED
  BY <1>2, <1>4, <1>5, <1>6, <1>7, <1>8, <1>9 DEF WalNext

-----------------------------------------------------------------------------
(* The theorems. *)

\* In every reachable state the journal is typed, its entries lie within it, the
\* last piece of an entry is only there once the entry was logged, and in the first
\* session the journal is the chain of what log_write, log_delete and checkpoint
\* wrote, up to write_offset.
THEOREM WalInvariant == WalSpec => []WalInv
<1>1. WalInit => WalInv
  <2> SUFFICES ASSUME WalInit PROVE WalInv
    OBVIOUS
  <2>1. \A i \in Cells : journal[i] = Blank
    BY DEF WalInit
  <2>2. HeadersFit
    <3>1. \A i \in HeadersOf(journal) : i \in Cells /\ journal[i] \in Headers
      BY WalCodecAssumption, WalAssumption DEF HeadersOf, Cells
    <3> QED
      BY <2>1, <3>1, PiecesAreNoHeaders DEF HeadersFit
  <2>3. LastPieceLogged
    <3>1. \A op \in Ops : Blank # Piece(op, Data(op))
      BY WalAssumption, EntrySizes DEF Piece
    <3> QED
      BY <2>1, <3>1 DEF LastPieceLogged
  <2> QED
    BY <2>2, <2>3, TypesInit, FirstInit DEF WalInv
<1>2. WalInv /\ [WalNext]_walVars => WalInv'
  <2> SUFFICES ASSUME WalInv, [WalNext]_walVars PROVE WalInv'
    OBVIOUS
  <2>1. WalTypes' /\ HeadersFit' /\ LastPieceLogged'
    BY TypesKept, FitKept, LastPieceKept DEF WalInv
  <2>2. opened' = 1 => \E at, p : FirstJournal(journal', at, p) /\ FirstSession(at, p)'
    BY FirstKept
  <2> QED
    BY <2>1, <2>2 DEF WalInv
<1> QED
  BY <1>1, <1>2, PTL DEF WalSpec

\* Wherever the first session dies, a recovery gives exactly what it was
\* acknowledged since the last checkpoint (checkpoint, recover and read_all).
THEOREM RecoversWhatWasAcknowledged == WalSpec => []RecoverExact
<1>1. WalInv => RecoverExact
  <2> SUFFICES ASSUME WalInv, opened = 1, StaysInRegion PROVE Recovered(journal) = acked
    BY DEF RecoverExact
  <2>1. PICK at, p : FirstJournal(journal, at, p) /\ FirstSession(at, p)
    BY DEF WalInv
  <2>2. acked = Behind(journal, at, p)
    BY <2>1 DEF FirstSession
  <2> QED
    BY <2>1, <2>2, RecoveredIs
<1> QED
  BY <1>1, WalInvariant, PTL

\* However often the journal was opened over torn and half overwritten entries,
\* a recovery gives no operation that was not logged whole (the CRC's promise).
THEOREM RecoversNothingElse == WalSpec => []NothingInvented
<1>1. WalInv => NothingInvented
  <2> SUFFICES ASSUME WalInv, NEW op \in Range(Recovered(journal)) PROVE op \in logged
    BY DEF NothingInvented
  <2>1. PICK i \in IntactHeaders(journal) : journal[i].op = op
    BY RecoveredAreEntries
  <2>2. op # Checkpoint
    BY RecoveredAreEntries
  <2>3. i \in HeadersOf(journal) /\ Intact(journal, i)
    BY DEF IntactHeaders
  <2>4. op \in Ops /\ i \in Nat /\ i + EntryCells(op) <= JournalCells
    BY <2>1, <2>2, <2>3 DEF WalInv, HeadersFit, HeadersOf, Headers
  <2>5. Data(op) \in Nat \ {0} /\ EntryCells(op) = 1 + Data(op)
    BY <2>4, EntrySizes
  <2>6. i + Data(op) \in Cells
    BY <2>4, <2>5, WalCodecAssumption, WalAssumption DEF Cells
  <2>7. journal[i + Data(op)] = Piece(op, Data(op))
    <3>1. Data(op) \in 1 .. Data(op)
      BY <2>5
    <3> QED
      BY <2>1, <2>3, <3>1 DEF Intact
  <2> QED
    BY <2>4, <2>6, <2>7 DEF WalInv, LastPieceLogged
<1> QED
  BY <1>1, WalInvariant, PTL

\* The journal of the first session is an abstract log: every step of it
\* appends one operation to what a recovery gives, empties it, or leaves it.
THEOREM FirstSessionIsALog == WalSpec => SingleSessionLog
<1>1. WalInit => Replay!Init
  BY FirstInit DEF Replay!Init, WalInit
<1>2. WalInv /\ WalInv' /\ [WalNext]_walVars
        => [Replay!Next]_(IF opened = 1 THEN Recovered(journal) ELSE << >>)
  <2> SUFFICES ASSUME WalInv, WalInv', [WalNext]_walVars
               PROVE  [Replay!Next]_(IF opened = 1 THEN Recovered(journal) ELSE << >>)
    OBVIOUS
  <2>1. CASE opened' = 1
    <3>1. LogStep /\ opened = 1
      BY <2>1, FirstKept
    <3> QED
      BY <2>1, <3>1 DEF LogStep, Replay!Next, Replay!Truncate, Replay!AppendOp
  <2>2. CASE opened' # 1
    BY <2>2 DEF Replay!Next, Replay!Truncate
  <2> QED
    BY <2>1, <2>2
<1> QED
  BY <1>1, <1>2, WalInvariant, PTL DEF WalSpec, SingleSessionLog, Replay!Spec

=============================================================================
