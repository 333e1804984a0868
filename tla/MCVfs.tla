------------------------------- MODULE MCVfs -------------------------------
(* Two names, files and directories in the root and in directories of the  *)
(* root; names are interchangeable.                                        *)
EXTENDS Vfs, TLC

Alike == Permutations(Names)

Depth1 == {ChildId(Root, k, n) : k \in {"dir", "file"}, n \in Names}
TwoLevels ==
  {Root} \cup Depth1 \cup
  {ChildId(d, "file", n) : d \in {i \in Depth1 : IsDirectory(i)}, n \in Names}

AllDims == [name : Names \cup {None}, content : Contents \cup {None},
            index : {None} \cup UNION {[s -> TwoLevels] : s \in SUBSET Names}]
=============================================================================
