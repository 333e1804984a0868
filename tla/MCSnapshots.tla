----------------------------- MODULE MCSnapshots ---------------------------
(* Particles are interchangeable: the code visits modified ones in the order *)
(* of a hash map.                                                            *)
EXTENDS Fsck, TLC

Identities == Permutations(Ids)

\* Every particle has dimension 1, so particles share it.
SharedContents == {{1}, {1, 2}}
=============================================================================
