------------------------------- MODULE FileIO -------------------------------
(***************************************************************************)
(* What files hold, byte by byte: the handles of the virtual file system   *)
(* (vfs.rs:536) and the two programs that use them.  The mounted driver    *)
(* moves a handle and reads or writes there in one request; the commands   *)
(* cat and write go through a file a buffer at a time, and the process can *)
(* end between any two.  Every change is one logged write of the particle; *)
(* what the store itself can lose is in Persist, and names are in Vfs.     *)
(***************************************************************************)
EXTENDS Integers, Sequences

CONSTANTS
  Inodes,
  Bytes,        \* what is written: any bytes but the zero of a hole
  HandleNums,   \* bound: handles that can be open together
  BufferSize,   \* 4096 in the commands
  MaxSize       \* bound: bytes of a file

ASSUME FileAssumption ==
  /\ 0 \notin Bytes
  /\ BufferSize \in Nat \ {0} /\ MaxSize \in Nat

VARIABLES
  contents,   \* of the files that have not been removed
  handles,
  command,    \* the running cat or write: what it does, its handle, its loop
  written     \* history: size of a file, and the latest byte at each place

fileVars == <<contents, handles, command, written>>

NoHandles == [h \in {} |-> {}]
NoCommand == [do |-> "none"]
Buffers == UNION {[1 .. n -> Bytes] : n \in 1 .. MaxSize}
Larger(m, n) == IF m < n THEN n ELSE m

\* The bytes from offset on, as many as there are up to n.
Bytewise(content, offset, n) ==
  SubSeq(content, offset + 1, IF offset + n < Len(content) THEN offset + n ELSE Len(content))

FileInit ==
  /\ contents = [i \in Inodes |-> <<>>]
  /\ handles = NoHandles
  /\ command = NoCommand
  /\ written = [i \in Inodes |-> [size |-> 0, at |-> [p \in {} |-> 0]]]

-----------------------------------------------------------------------------
(* read, write and truncate of the virtual file system.                    *)

NewHandle(i, access) ==
  [inode |-> i, offset |-> 0, readable |-> access # "w", writable |-> access # "r"]

Opened(h) == handles[h].inode \in DOMAIN contents

\* read: what it gives; nothing through a handle that may not read.
ReadBytes(h, offset, n) ==
  IF handles[h].readable /\ Opened(h)
  THEN Bytewise(contents[handles[h].inode], offset, n)
  ELSE <<>>

\* Vec::resize: what is added is zero.
Resized(content, size) ==
  [p \in 1 .. size |-> IF p <= Len(content) THEN content[p] ELSE 0]

\* write: the file grows to the end of what is written, and no less is kept.
Overwritten(content, offset, data) ==
  LET grown == Resized(content, Larger(Len(content), offset + Len(data)))
  IN  [p \in DOMAIN grown |->
         IF p \in offset + 1 .. offset + Len(data) THEN data[p - offset] ELSE grown[p]]

\* The same for the history w of a file, which knows no content to grow.
WrittenAt(w, offset, data) ==
  [size |-> Larger(w.size, offset + Len(data)),
   at   |-> [p \in DOMAIN w.at \cup offset + 1 .. offset + Len(data) |->
               IF p \in offset + 1 .. offset + Len(data) THEN data[p - offset] ELSE w.at[p]]]

CutTo(w, size) ==
  [size |-> size, at |-> [p \in {q \in DOMAIN w.at : q <= size} |-> w.at[p]]]

Image(w) == [p \in 1 .. w.size |-> IF p \in DOMAIN w.at THEN w.at[p] ELSE 0]

\* Mutant: the handle stays where it was.
NotMoved(h, n) == UNCHANGED handles

\* read and write leave the handle behind what they read or wrote.
Moved(h, n) == handles' = [handles EXCEPT ![h].offset = @ + n]

-----------------------------------------------------------------------------
(* Requests to the mounted driver.                                         *)

Mounted == command = NoCommand

\* open of the driver, and open_handle: numbers only grow in the code, and
\* nothing tells a closed one from one that was never given.
OpenFile(i, h, access) ==
  /\ Mounted
  /\ i \in DOMAIN contents
  /\ h \in HandleNums \ DOMAIN handles
  /\ handles' = [g \in DOMAIN handles \cup {h} |->
                   IF g = h THEN NewHandle(i, access) ELSE handles[g]]
  /\ UNCHANGED <<contents, command, written>>

Release(h) ==
  /\ Mounted
  /\ handles' = [g \in DOMAIN handles \ {h} |-> handles[g]]
  /\ UNCHANGED <<contents, command, written>>

\* The handle is moved whether it can be read or not.
ReadRequest(h, offset, n) ==
  /\ Mounted
  /\ handles' = [handles EXCEPT ![h].offset = offset + Len(ReadBytes(h, offset, n))]
  /\ UNCHANGED <<contents, command, written>>

WriteRequest(h, offset, data) ==
  /\ Mounted
  /\ offset + Len(data) <= MaxSize
  /\ IF handles[h].writable /\ Opened(h)
     THEN LET i == handles[h].inode
          IN  /\ contents' = [contents EXCEPT ![i] = Overwritten(@, offset, data)]
              /\ written' = [written EXCEPT ![i] = WrittenAt(@, offset, data)]
              /\ handles' = [handles EXCEPT ![h].offset = offset + Len(data)]
     ELSE /\ handles' = [handles EXCEPT ![h].offset = offset]
          /\ UNCHANGED <<contents, written>>
  /\ UNCHANGED command

\* setattr with a size.  Owners and permissions are left out.
SetSize(i, size) ==
  /\ Mounted
  /\ i \in DOMAIN contents
  /\ contents' = [contents EXCEPT ![i] = Resized(@, size)]
  /\ written' = [written EXCEPT ![i] = CutTo(@, size)]
  /\ UNCHANGED <<handles, command>>

\* unlink gives up the inode number; open handles lead nowhere from then on.
RemoveFile(i) ==
  /\ Mounted
  /\ i \in DOMAIN contents
  /\ contents' = [j \in DOMAIN contents \ {i} |-> contents[j]]
  /\ UNCHANGED <<handles, command, written>>

-----------------------------------------------------------------------------
(* The commands, each a process of its own with one handle.                *)

Started(i, access, loop) ==
  /\ Mounted /\ handles = NoHandles
  /\ i \in DOMAIN contents
  /\ handles' = [h \in {1} |-> NewHandle(i, access)]
  /\ command' = loop

\* cmd_write of a file that exists, up to its loop.
StartWrite(i, data) ==
  /\ Started(i, "w", [do |-> "write", data |-> data, offset |-> 0])
  /\ contents' = [contents EXCEPT ![i] = Resized(@, 0)]
  /\ written' = [written EXCEPT ![i] = CutTo(@, 0)]

\* One turn of its loop: the loop counts the bytes, and so does the handle.
WriteChunk ==
  LET i == handles[1].inode
      chunk == Bytewise(command.data, command.offset, BufferSize)
  IN  /\ command.do = "write" /\ chunk # <<>>
      /\ contents' = [contents EXCEPT ![i] = Overwritten(@, handles[1].offset, chunk)]
      /\ written' = [written EXCEPT ![i] = WrittenAt(@, command.offset, chunk)]
      /\ Moved(1, Len(chunk))
      /\ command' = [command EXCEPT !.offset = @ + Len(chunk)]

StartCat(i) ==
  /\ Started(i, "r", [do |-> "cat", out |-> <<>>])
  /\ UNCHANGED <<contents, written>>

CatChunk ==
  LET chunk == ReadBytes(1, handles[1].offset, BufferSize)
  IN  /\ command.do = "cat" /\ chunk # <<>>
      /\ Moved(1, Len(chunk))
      /\ command' = [command EXCEPT !.out = @ \o chunk]
      /\ UNCHANGED <<contents, written>>

\* A loop has come to its end, or the process ends before; a driver that
\* ends loses its handles.
ProcessEnds ==
  /\ handles # NoHandles
  /\ handles' = NoHandles /\ command' = NoCommand
  /\ UNCHANGED <<contents, written>>

FileNext ==
  \/ \E i \in Inodes :
       \/ \E h \in HandleNums, access \in {"r", "w", "rw"} : OpenFile(i, h, access)
       \/ \E size \in 0 .. MaxSize : SetSize(i, size)
       \/ RemoveFile(i)
       \/ \E data \in Buffers : StartWrite(i, data)
       \/ StartCat(i)
  \/ \E h \in DOMAIN handles :
       \/ Release(h)
       \/ \E offset \in 0 .. MaxSize, n \in {1, MaxSize} : ReadRequest(h, offset, n)
       \/ \E offset \in 0 .. MaxSize, data \in Buffers : WriteRequest(h, offset, data)
  \/ WriteChunk \/ CatChunk \/ ProcessEnds

FileSpec == FileInit /\ [][FileNext]_fileVars

-----------------------------------------------------------------------------

\* At every place of a file stands the byte last written there, and zero where
\* none was since the file ended before it (vfs.rs:597, 623): through any
\* handle, at any offset, by whichever program.  A file that a command was
\* writing when its process ended holds a beginning of what it was given, as
\* far as the loop had come (docs/CHANGELOG.md:108, "read/write now advance
\* fh.offset after I/O"); and cat stops where the file ends, not before.
FilesHoldWhatWasWritten ==
  /\ \A i \in DOMAIN contents : contents[i] = Image(written[i])
  /\ command.do = "write" =>
       contents[handles[1].inode] = Bytewise(command.data, 0, command.offset)
  /\ command.do = "cat" =>
       LET content == contents[handles[1].inode]
       IN  /\ command.out = Bytewise(content, 0, Len(command.out))
           /\ ReadBytes(1, handles[1].offset, BufferSize) = <<>> => command.out = content
=============================================================================
