------------------------------ MODULE DirScan ------------------------------
(***************************************************************************)
(* Reading a directory through the mounted driver (defs-fuse, readdir).    *)
(* The kernel asks for it a page at a time; each request lists the whole   *)
(* directory again, by name, and skips as many entries as were given out   *)
(* before.  Meanwhile other requests change the directory.  Only the names *)
(* of one directory are modelled; Vfs has the rest.                        *)
(***************************************************************************)
EXTENDS Integers, Sequences, FiniteSets, SequencesExt

CONSTANTS
  EntryNames,   \* numbers above 1: the order of the names is theirs
  MaxChanges    \* bound: changes of the directory during one scan

ASSUME EntryAssumption == EntryNames \subseteq Nat \ {0, 1} /\ IsFiniteSet(EntryNames)

Dots == {0, 1}  \* "." and "..", which the driver lists first

VARIABLES
  dir_index,   \* names in the directory
  scan,      \* the running scan: where it is, what it gave out, its end
  kept,      \* history: names there since the scan began
  passed     \* history: names that went, and that came, where it had passed

scanVars == <<dir_index, scan, kept, passed>>

NewScan == [offset |-> 0, listed |-> <<>>, done |-> FALSE]
Unchanged == [went |-> 0, came |-> 0, changes |-> 0]

ScanInit ==
  /\ dir_index \in SUBSET EntryNames
  /\ scan = NewScan
  /\ kept = dir_index \cup Dots
  /\ passed = Unchanged

-----------------------------------------------------------------------------

Place(n) == Cardinality({m \in dir_index \cup Dots : m < n}) + 1

\* readdir of the virtual file system: the index is sorted by name.
Listing ==
  [k \in 1 .. Cardinality(dir_index \cup Dots) |->
     CHOOSE n \in dir_index \cup Dots : Place(n) = k]

\* Mutant: the page begins after the offset of the entry it should begin with.
ReadPageAfter(n) ==
  LET page == SubSeq(Listing, scan.offset + 2,
                     IF scan.offset + n < Len(Listing) THEN scan.offset + n ELSE Len(Listing))
  IN  /\ ~scan.done
      /\ scan' = IF page = <<>> THEN [scan EXCEPT !.done = TRUE]
                 ELSE [scan EXCEPT !.offset = @ + Len(page), !.listed = @ \o page]
      /\ UNCHANGED <<dir_index, kept, passed>>

\* readdir: up to n entries fit, each given the offset of the next, where
\* the kernel goes on.  An empty answer ends the scan.
ReadPage(n) ==
  LET page == SubSeq(Listing, scan.offset + 1,
                     IF scan.offset + n < Len(Listing) THEN scan.offset + n ELSE Len(Listing))
  IN  /\ ~scan.done
      /\ scan' = IF page = <<>> THEN [scan EXCEPT !.done = TRUE]
                 ELSE [scan EXCEPT !.offset = @ + Len(page), !.listed = @ \o page]
      /\ UNCHANGED <<dir_index, kept, passed>>

\* opendir again, or rewinddir.
OpenDirectory ==
  /\ scan # NewScan
  /\ scan' = NewScan
  /\ kept' = dir_index \cup Dots
  /\ passed' = Unchanged
  /\ UNCHANGED dir_index

\* The names in gone leave the directory and those in new come.
Changed(gone, new) ==
  /\ ~scan.done
  /\ passed.changes < MaxChanges
  /\ dir_index' = (dir_index \ gone) \cup new
  /\ kept' = kept \ (gone \cup new)
  /\ passed' = [went |-> passed.went + Cardinality({n \in gone : Place(n) <= scan.offset}),
                came |-> passed.came + Cardinality({n \in new \ dir_index : Place(n) <= scan.offset}),
                changes |-> passed.changes + 1]
  /\ UNCHANGED scan

\* mkdir and mknod.
AddEntry(n) == n \notin dir_index /\ Changed({}, {n})

\* unlink and rmdir.
RemoveEntry(n) == n \in dir_index /\ Changed({n}, {})

\* rename in the directory, where m may be another entry.
RenameEntry(n, m) == n \in dir_index /\ m \in EntryNames \ {n} /\ Changed({n}, {m})

ScanNext ==
  \/ \E n \in 1 .. Cardinality(EntryNames) : ReadPage(n)
  \/ OpenDirectory
  \/ \E n \in EntryNames :
       \/ AddEntry(n)
       \/ RemoveEntry(n)
       \/ \E m \in EntryNames : RenameEntry(n, m)

ScanSpec == ScanInit /\ [][ScanNext]_scanVars

-----------------------------------------------------------------------------

Missed == {n \in kept : n \notin ToSet(scan.listed)}
Repeated == {k \in DOMAIN scan.listed :
               /\ scan.listed[k] \in kept
               /\ \E j \in 1 .. k - 1 : scan.listed[j] = scan.listed[k]}

\* Pages are counted off by position in a list that is made anew each time
\* (defs-fuse main.rs:235).  An entry that stays is missed only when a name
\* the scan had passed is removed, one for each at most, and given twice only
\* when a name comes in where it had passed; a change behind the scan's place,
\* of names it has yet to give, costs nothing.  Emptying a directory while it
\* is read, as rm -r does, makes it skip.
ScansMissOnlyWhatMoved ==
  /\ scan.done => Cardinality(Missed) <= passed.went
  /\ Cardinality(Repeated) <= passed.came
=============================================================================
